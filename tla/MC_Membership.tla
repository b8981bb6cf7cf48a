--------------------------- MODULE MC_Membership ---------------------------
(* Three genesis signers and one that may pledge; the own node is genesis. *)
EXTENDS Membership, SequencesExt

CONSTANTS g1, g2, g3, n1

MCNodes == {g1, g2, g3, n1}
MCGenesis == {g1, g2, g3}
MCHashRank == (g1 :> 3) @@ (g2 :> 1) @@ (g3 :> 4) @@ (n1 :> 2)

\* sort.Slice's result computed directly: the only member of
\* SortedArrangements(S), since Before is a strict total order on records of
\* distinct signers.  Used by TLC in place of the set comprehension.
MCSortedArrangements(S) == { SetToSortSeq(S, Before) }
=============================================================================
