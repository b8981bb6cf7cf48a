------------------------- MODULE MC_KernelSnapshot -------------------------
EXTENDS KernelSnapshot, TLC

CONSTANTS t1, t2, t3, i1, i2, n1, n2, NoTx

\* t1 and t2 spend i1 (a double spend); t3 is a node accept spending i2.
\* n1 is the own node, so round 0 of n2 only takes a node accept.
MCTxs == {t1, t2, t3}
MCInputs == {i1, i2}
MCTxInputs == (t1 :> {i1} @@ t2 :> {i1, i2} @@ t3 :> {i2})
MCTxType == (t1 :> "Script" @@ t2 :> "Mint" @@ t3 :> "NodeAccept")
MCNodes == {n1, n2}
=============================================================================
