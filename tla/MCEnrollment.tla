---------------------------- MODULE MCEnrollment ----------------------------
\* Small instances of Enrollment.
EXTENDS Enrollment
MCExpiries == {None, 0}
MCPromoteCounts == {0, 1, 3}
=============================================================================
