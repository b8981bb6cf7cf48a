-------------------------- MODULE SyncPointsProofs --------------------------
(***************************************************************************)
(* Proof that node.SyncPoints only ever holds points about this node, and  *)
(* that the own chain's final number and cache round keep their types, for *)
(* every set of peers, genesis peers, hashes and round bound.              *)
(***************************************************************************)
EXTENDS SyncPoints, TLAPS

USE SyncPointsAssumption

\* A graph message from a consensus peer keeps only a point about this node.
LEMMA UpdateTypeOK ==
    ASSUME TypeOK, NEW p \in Peers, NEW point \in Points,
           UpdateSyncPoint(p, point), UNCHANGED <<status, final, cache>>
    PROVE  TypeOK'
<1>1. CASE point.nodeId = "self"
  <2>1. point \in SelfPoints
    BY <1>1 DEF SelfPoints
  <2>. QED  BY <1>1, <2>1 DEF UpdateSyncPoint, TypeOK
<1>2. CASE point.nodeId # "self"
  BY <1>2 DEF UpdateSyncPoint, TypeOK
<1>. QED  BY <1>1, <1>2

\* A record change and a reload touch only the store's records.
LEMMA ChangeTypeOK ==
    ASSUME TypeOK, NEW p \in Peers, NEW from \in RecordStates, NEW to \in RecordStates,
           ChangeRecord(p, from, to)
    PROVE  TypeOK'
BY DEF ChangeRecord, TypeOK

\* The own chain's steps keep the final number within its bound and the
\* cache round a cache round.
LEMMA ChainTypeOK ==
    ASSUME TypeOK, StartCacheRound \/ AgeCacheRound \/ FinalizeCacheRound
    PROVE  TypeOK'
<1>1. CASE StartCacheRound
  BY <1>1 DEF StartCacheRound, TypeOK
<1>2. CASE AgeCacheRound
  <2>1. cache \in CacheRounds
    BY <1>2 DEF AgeCacheRound, TypeOK
  <2>. QED  BY <1>2, <2>1 DEF AgeCacheRound, TypeOK, CacheRounds
<1>3. CASE FinalizeCacheRound
  BY <1>3 DEF FinalizeCacheRound, TypeOK
<1>. QED  BY <1>1, <1>2, <1>3

LEMMA InitTypeOK == Init => TypeOK
BY DEF Init, TypeOK, RecordStates

LEMMA NextTypeOK == TypeOK /\ [Next]_vars => TypeOK'
<1>. SUFFICES ASSUME TypeOK, [Next]_vars PROVE TypeOK'
  OBVIOUS
<1>1. CASE \E p \in Peers, point \in Points :
             UpdateSyncPoint(p, point) /\ UNCHANGED <<status, final, cache>>
  BY <1>1, UpdateTypeOK
<1>2. CASE \E p \in Peers : Depart(p) \/ Accept(p) \/ Remove(p)
  BY <1>2, ChangeTypeOK DEF Depart, Accept, Remove, RecordStates
<1>3. CASE StartCacheRound \/ AgeCacheRound \/ FinalizeCacheRound
  BY <1>3, ChainTypeOK
<1>4. CASE Restart
  BY <1>4 DEF Restart, TypeOK
<1>5. CASE UNCHANGED vars
  BY <1>5 DEF vars, TypeOK
<1>. QED  BY <1>1, <1>2, <1>3, <1>4, <1>5 DEF Next

\* Every reachable state is well typed: in particular UpdateSyncPoint stores
\* only points whose nodeId is this node, so CheckBroadcastedToPeers and
\* CheckCatchUpWithPeers never compare the final number or the cache round
\* with a point about another node, across record changes and restarts.
THEOREM TypeCorrect == Spec => []TypeOK
<1>. QED  BY InitTypeOK, NextTypeOK, PTL DEF Spec
=============================================================================
