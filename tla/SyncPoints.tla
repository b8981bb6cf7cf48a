----------------------------- MODULE SyncPoints -----------------------------
(***************************************************************************)
(* The sync points of src/kernel/node.go:355-439: what the peers report of *)
(* this node's chain, and the two checks that read the reports.           *)
(*                                                                         *)
(* A peer's graph message carries SyncPoints; UpdateSyncPoint keeps the   *)
(* one about this node (number and hash of the last round of this node    *)
(* the peer has), if the peer is in ConsensusNodes, in node.SyncPoints.   *)
(* Entries are never removed.  CheckBroadcastedToPeers counts the         *)
(* consensus peers that have this node's final round (or the one before); *)
(* CheckCatchUpWithPeers first compares SyncPoints.Len() with the         *)
(* threshold, then checks the consensus peers one by one against the      *)
(* final number and the cache round.                                       *)
(*                                                                         *)
(* Each peer's node record is None, Accepted, Departing or Removed; a     *)
(* change reloads the view as LoadConsensusNodes does (PeerView models the *)
(* reload step by step), and every accepted node is taken as past the     *)
(* accept period (Membership models the timestamps).  A round hash is one  *)
(* of a few values; the cache round's age is whether its start is older   *)
(* than 100 round gaps.                                                    *)
(***************************************************************************)
EXTENDS Naturals, FiniteSets

CONSTANTS
    Peers,      \* the other nodes
    Genesis,    \* the genesis peers
    Hashes,     \* round hashes
    MaxRound,   \* last final round number of this node
    Nil         \* a nil pointer

ASSUME SyncPointsAssumption ==
    /\ IsFiniteSet(Peers) /\ Genesis \subseteq Peers
    /\ Nil \notin Hashes /\ MaxRound \in Nat

\* A SyncPoint: the node it is about (this one, or another), the number and
\* hash of the last round of that node the sender has.
Points == [nodeId : {"self", "other"}, number : 0..MaxRound + 1, hash : Hashes]
SelfPoints == {pt \in Points : pt.nodeId = "self"}

\* node.Graph.MyCacheRound: its hash once sealed (cache.asFinal(), nil for
\* an empty round), and whether it started more than 100 round gaps ago.
CacheRounds == [hash : Hashes \cup {Nil}, old : BOOLEAN]

RecordStates == {"None", "Accepted", "Departing", "Removed"}

VARIABLES
    status,     \* peer -> state of its node record in the store
    syncPoints, \* node.SyncPoints: peer -> Point, or Nil
    final,      \* node.Graph.MyFinalNumber
    cache       \* node.Graph.MyCacheRound, round final + 1, or Nil

vars == <<status, syncPoints, final, cache>>

-----------------------------------------------------------------------------

\* The view LoadConsensusNodes builds (node.go:192-201): ConsensusNodes
\* holds the accepted records, ActiveNodes the departing ones as well.
ConsensusNodes == {p \in Peers : status[p] = "Accepted"}
ActiveNodes == {p \in Peers : status[p] \in {"Accepted", "Departing"}}

\* ConsensusThreshold(0) (node.go:146-178), the own node an accepted
\* genesis node and every other node past its windows.
ConsensusThreshold == ((Cardinality(ActiveNodes) + 1) * 2) \div 3 + 1

\* syncMap.Get, syncMap.Len (node.go:428-439).
Reported == {p \in Peers : syncPoints[p] # Nil}
Len == Cardinality(Reported)

\* CheckBroadcastedToPeers (node.go:366-379): the own node and the
\* consensus peers whose point has number + 1 >= final.
CheckBroadcastedToPeers ==
    1 + Cardinality({p \in ConsensusNodes \cap Reported :
                        syncPoints[p].number + 1 >= final})
        >= ConsensusThreshold

\* One iteration of the loop of CheckCatchUpWithPeers (node.go:390-416):
\* the peer lets the check pass.
PeerCaughtUp(p) ==
    LET remote == syncPoints[p]
    IN  \/ remote = Nil
        \/ remote.number <= final
        \/ /\ remote.number = final + 1
           /\ cache # Nil /\ cache.hash # Nil
           /\ cache.hash = remote.hash
           /\ cache.old

\* CheckCatchUpWithPeers (node.go:381-419).
CheckCatchUpWithPeers ==
    /\ Len >= ConsensusThreshold
    /\ \A p \in ConsensusNodes : PeerCaughtUp(p)

-----------------------------------------------------------------------------

Init ==
    /\ status \in [Peers -> {"None", "Accepted"}]
    /\ \A p \in Genesis : status[p] = "Accepted"
    /\ syncPoints = [p \in Peers |-> Nil]
    /\ final = 0
    /\ cache = Nil

\* UpdateSyncPoint (node.go:355-364): a graph message from a peer whose
\* list holds one point; it is kept if the peer is a consensus node and the
\* point is about this node.
UpdateSyncPointAnyNode(p, point) ==
    /\ p \in ConsensusNodes
    /\ syncPoints' = [syncPoints EXCEPT ![p] = point]
UpdateSyncPoint(p, point) ==
    /\ p \in ConsensusNodes
    /\ syncPoints' = IF point.nodeId = "self"
                     THEN [syncPoints EXCEPT ![p] = point] ELSE syncPoints

\* A node snapshot changes a record and the view is reloaded.  A removal
\* that would take ActiveNodes below the genesis nodes makes
\* ConsensusThreshold panic (node.go:174-176), so the node stops there.
ChangeRecord(p, from, to) ==
    /\ status[p] = from
    /\ status' = [status EXCEPT ![p] = to]
    /\ Cardinality({q \in Peers : status'[q] \in {"Accepted", "Departing"}})
          >= Cardinality(Genesis)
    /\ UNCHANGED <<syncPoints, final, cache>>
Accept(p) == ChangeRecord(p, "None", "Accepted")
Depart(p) == ChangeRecord(p, "Accepted", "Departing")
Remove(p) == ChangeRecord(p, "Departing", "Removed")

\* The own chain: a cache round starts, ages, and is finalized.
StartCacheRound ==
    /\ cache = Nil
    /\ \E c \in CacheRounds : ~c.old /\ cache' = c
    /\ UNCHANGED <<status, syncPoints, final>>
AgeCacheRound ==
    /\ cache # Nil /\ ~cache.old
    /\ cache' = [cache EXCEPT !.old = TRUE]
    /\ UNCHANGED <<status, syncPoints, final>>
FinalizeCacheRound ==
    /\ cache # Nil /\ cache.hash # Nil /\ final < MaxRound
    /\ final' = final + 1
    /\ cache' = Nil
    /\ UNCHANGED <<status, syncPoints>>

\* A restart: SetupNode begins with an empty SyncPoints.
Restart ==
    /\ syncPoints' = [p \in Peers |-> Nil]
    /\ UNCHANGED <<status, final, cache>>

Next ==
    \/ \E p \in Peers, point \in Points :
         UpdateSyncPoint(p, point) /\ UNCHANGED <<status, final, cache>>
    \/ \E p \in Peers : Depart(p) \/ Accept(p) \/ Remove(p)
    \/ StartCacheRound \/ AgeCacheRound \/ FinalizeCacheRound
    \/ Restart

Spec == Init /\ [][Next]_vars

-----------------------------------------------------------------------------

\* Every variable holds values of its kind.
TypeOK ==
    /\ status \in [Peers -> RecordStates]
    /\ syncPoints \in [Peers -> SelfPoints \cup {Nil}]
    /\ final \in 0..MaxRound
    /\ cache \in CacheRounds \cup {Nil}

\* When CheckCatchUpWithPeers passes, at least a threshold of current
\* consensus peers have reported where they are: the Len() check (line 383)
\* is meant to refuse a verdict drawn from too few reports.
CatchUpInformed ==
    CheckCatchUpWithPeers => Cardinality(ConsensusNodes \cap Reported) >= ConsensusThreshold
=============================================================================
