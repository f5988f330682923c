------------------------------ MODULE MCGauge ------------------------------
\* Two escrows and one webhook.
EXTENDS BackendHooks
=============================================================================
