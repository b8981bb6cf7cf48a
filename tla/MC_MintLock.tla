---------------------------- MODULE MC_MintLock ----------------------------
EXTENDS MintLock, TLC

CONSTANTS x1, y1, x2, y2, x3, y3

\* Two competing transactions for each of three batches.
MCTxs == {x1, y1, x2, y2, x3, y3}
MCTxBatch == (x1 :> 1) @@ (y1 :> 1) @@ (x2 :> 2) @@ (y2 :> 2) @@ (x3 :> 3) @@ (y3 :> 3)
=============================================================================
