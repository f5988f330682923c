---------------------------- MODULE MCQueueAudit ----------------------------
\* The small instance of the queue and its auditor: three positions, two callers, one
\* initialize, both rules, a capacity below and one above the number of ids.
EXTENDS QueueAudit
MCRules == {"Fifo", "PriorityTier"}
MCDraft == {"Draft"}
MCCapacities == {1, 2}
MCBatches == {0, 1, 3}
=============================================================================
