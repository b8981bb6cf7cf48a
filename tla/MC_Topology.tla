---------------------------- MODULE MC_Topology ----------------------------
(* Five snapshots, keys of three binary digits: orders 0..4 use all three *)
(* digits, so a key order that differs from the numeric one shows.       *)
EXTENDS Topology

CONSTANTS s1, s2, s3, s4, s5

MCSnaps == {s1, s2, s3, s4, s5}
=============================================================================
