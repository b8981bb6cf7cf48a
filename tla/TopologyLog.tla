----------------------------- MODULE TopologyLog -----------------------------
(***************************************************************************)
(* What the topology index promises (spec 2 and 4.2): finalized snapshots  *)
(* form one log, each snapshot at most once, in the order they are         *)
(* committed; the topology order of a snapshot is its position in the log *)
(* counted from 0.                                                         *)
(***************************************************************************)
EXTENDS Naturals, Sequences

CONSTANT Snaps

VARIABLE log

Init == log = <<>>

\* A finalized snapshot that is not in the log yet is appended to it.
Append1(s) ==
    /\ \A i \in 1..Len(log) : log[i] # s
    /\ log' = Append(log, s)

Next == \E s \in Snaps : Append1(s)

Spec == Init /\ [][Next]_log
=============================================================================
