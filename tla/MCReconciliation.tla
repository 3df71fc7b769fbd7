-------------------------- MODULE MCReconciliation --------------------------
EXTENDS Reconciliation, TLC

CONSTANTS w1, w2, o1, r1, r2

\* The operator asks for scans of the channel of finding 1, which a repair may resolve.
OneScope == {{1}}
=============================================================================
