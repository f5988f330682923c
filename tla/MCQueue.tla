------------------------------ MODULE MCQueue ------------------------------
\* The small instances of Queue that TLC checks.
EXTENDS Queue
MCRules == {"Fifo", "PriorityTier"}
MCDraft == {"Draft"}
MCCapacities == {1, 2}
MCBatches == {0, 1, 3}
=============================================================================
