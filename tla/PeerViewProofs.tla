--------------------------- MODULE PeerViewProofs ---------------------------
(***************************************************************************)
(* Proofs that the view the peers read during a load of LoadConsensusNodes *)
(* only ever lets in peers that the store before or after the change being *)
(* loaded lets in, for every set of peers.                                 *)
(***************************************************************************)
EXTENDS PeerView, TLAPS

USE PeerViewAssumption

(***************************************************************************)
(* The inductive invariant: what the view is at each stage of a load.      *)
(* The store does not change during a load (the action loop takes the     *)
(* next snapshot only after LoadConsensusNodes returns), so the view is    *)
(* the old store's until ConsensusPledging is cleared, has no pledging     *)
(* record until the scan, the new store's pledging record after it, and is *)
(* wholly the new store's once ConsensusNodes is replaced.                 *)
(***************************************************************************)
ViewStages ==
    /\ reloadPc = "idle" => /\ consensusNodes = AcceptedOf(status)
                            /\ consensusPledging = PledgingOf(status)
    /\ reloadPc # "idle" => consensusNodes = AcceptedOf(before)
    /\ reloadPc = "clear" => consensusPledging = PledgingOf(before)
    /\ reloadPc = "scan" => consensusPledging = NoNode
    /\ reloadPc = "publish" => consensusPledging = PledgingOf(status)

IInv == TypeOK /\ ViewStages

\* The scan finds a peer or nil.
LEMMA PledgingOfType ==
    ASSUME NEW st
    PROVE  PledgingOf(st) \in Peers \cup {NoNode}
BY DEF PledgingOf

LEMMA InitIInv == Init => IInv
BY PledgingOfType DEF Init, IInv, TypeOK, ViewStages, AcceptedOf, PledgingOf, RecordStates

LEMMA NextIInv == IInv /\ [Next]_vars => IInv'
<1> SUFFICES ASSUME IInv, [Next]_vars PROVE IInv'
  OBVIOUS
<1>1. ASSUME NEW p \in Peers, NEW from, NEW to \in RecordStates,
             ChangeRecord(p, from, to)
      PROVE  IInv'
  BY <1>1 DEF ChangeRecord, IInv, TypeOK, ViewStages
<1>2. ASSUME NEW p \in Peers, Pledge(p) \/ Accept(p) \/ Cancel(p) \/ Depart(p)
      PROVE  IInv'
  BY <1>1, <1>2 DEF Pledge, Accept, Cancel, Depart, RecordStates
<1>3. CASE ReloadClear
  BY <1>3 DEF ReloadClear, IInv, TypeOK, ViewStages
<1>4. CASE ReloadScan
  BY <1>4, PledgingOfType DEF ReloadScan, IInv, TypeOK, ViewStages
<1>5. CASE ReloadPublish
  BY <1>5 DEF ReloadPublish, IInv, TypeOK, ViewStages, AcceptedOf
<1>6. ASSUME NEW p \in Peers, Authenticate(p) PROVE IInv'
  BY <1>6 DEF Authenticate, IInv, TypeOK, ViewStages
<1>7. ASSUME NEW p \in Peers, UpdateSyncPointRead(p) PROVE IInv'
  BY <1>7 DEF UpdateSyncPointRead, UpdateSyncPointCheck, IInv, TypeOK, ViewStages
<1>8. ASSUME NEW p \in Peers, UpdateSyncPointSet(p) PROVE IInv'
  BY <1>8 DEF UpdateSyncPointSet, IInv, TypeOK, ViewStages
<1>9. CASE Restart
  BY <1>9, PledgingOfType DEF Restart, IInv, TypeOK, ViewStages, AcceptedOf
<1>10. CASE UNCHANGED vars
  BY <1>10 DEF vars, IInv, TypeOK, ViewStages
<1>11. QED
  BY <1>2, <1>3, <1>4, <1>5, <1>6, <1>7, <1>8, <1>9, <1>10 DEF Next

\* At every stage of a load the peers the view lets in are among those
\* the store lets in before or after the change.
LEMMA ViewWithinChange ==
    ASSUME IInv
    PROVE  Members(consensusNodes, consensusPledging)
             \subseteq MembersOf(before) \cup MembersOf(status)
<1>1. CASE reloadPc = "idle"
  BY <1>1 DEF IInv, ViewStages, MembersOf
<1>2. CASE reloadPc = "clear"
  BY <1>2 DEF IInv, ViewStages, MembersOf
<1>3. CASE reloadPc = "scan"
  BY <1>3 DEF IInv, ViewStages, MembersOf, Members
<1>4. CASE reloadPc = "publish"
  BY <1>4 DEF IInv, ViewStages, MembersOf, Members
<1>5. QED
  BY <1>1, <1>2, <1>3, <1>4 DEF IInv, TypeOK

\* Every reachable state of the view, the reload and the peer calls is well
\* typed.
THEOREM TypeCorrect == Spec => []TypeOK
<1>1. IInv => TypeOK
  BY DEF IInv
<1>2. QED
  BY InitIInv, NextIInv, <1>1, PTL DEF Spec

\* Authenticate admits a peer only if the store before or after the node
\* snapshot being loaded admits it, at every point of the three unlocked
\* writes of LoadConsensusNodes (AdmissionWithinChange, checked by the
\* peer_view run).
THEOREM AdmissionWithinChangeHolds == Spec => AdmissionWithinChange
<1>1. ASSUME IInv, [Next]_vars
      PROVE  [\A p \in Peers :
                Authenticate(p) /\ authResult'[p] = "ok"
                  => p \in MembersOf(before) \cup MembersOf(status)]_vars
  <2>1. SUFFICES ASSUME NEW p \in Peers, Authenticate(p), authResult'[p] = "ok"
                 PROVE  p \in MembersOf(before) \cup MembersOf(status)
    OBVIOUS
  <2>2. p \in Members(consensusNodes, consensusPledging)
    BY <1>1, <2>1 DEF Authenticate, IInv, TypeOK
  <2>3. QED
    BY <1>1, <2>2, ViewWithinChange
<1>2. QED
  BY InitIInv, NextIInv, <1>1, PTL DEF Spec, AdmissionWithinChange
=============================================================================
