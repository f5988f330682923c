----------------------------- MODULE MCFactory -----------------------------
\* Two callers, two slugs, two hashes, one foreign contract, two versions.
EXTENDS Factory
MCVersions == {1, 2}
=============================================================================
