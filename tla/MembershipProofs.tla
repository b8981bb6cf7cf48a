-------------------------- MODULE MembershipProofs --------------------------
(***************************************************************************)
(* Proofs about the Membership module, for every value of its constants:   *)
(* the type invariant, and that the threshold of ConsensusThreshold gives  *)
(* quorum intersection over the keys of ConsensusKeys.                     *)
(***************************************************************************)
EXTENDS Membership, FiniteSetTheorems, TLAPS

USE ConstantsAssumption

-----------------------------------------------------------------------------
(* Lemmas about the view LoadConsensusNodes builds.                        *)

\* The records the switch of LoadConsensusNodes keeps are NodeRecords:
\* pledging, accepted or departing ones.
LEMMA ActiveRecordsType ==
  ASSUME NEW st \in [Nodes -> NodeStates \cup {"None"}],
         NEW sp \in [Nodes -> Nat]
  PROVE  ActiveRecords(st, sp) \subseteq NodeRecord
BY DEF ActiveRecords, StoreRecords, NodeRecord, NodeStates, ActiveStates,
       Pledging, Accepted, Departing, Cancelled

\* A sorted arrangement of a set of NodeRecords is a sequence of NodeRecords.
LEMMA ArrangementType ==
  ASSUME NEW S \in SUBSET NodeRecord, NEW s \in SortedArrangements(S)
  PROVE  s \in Seq(NodeRecord)
<1>1. s \in Seq(S)
  BY DEF SortedArrangements
<1>. QED
  BY <1>1

\* Every component of the loaded view has its type.
LEMMA LoadedViewType ==
  ASSUME NEW st \in [Nodes -> NodeStates \cup {"None"}],
         NEW sp \in [Nodes -> Nat],
         NEW index \in Int,
         NEW s \in SortedArrangements(ActiveRecords(st, sp)),
         NEW c \in SortedArrangements({r \in ActiveRecords(st, sp) : IsAccepted(r)})
  PROVE  LET v == LoadedView(st, sp, index, s, c)
         IN  /\ v[1] \in Seq(NodeRecord)
             /\ v[2] \subseteq Nodes
             /\ v[3] \in Seq(Nodes)
             /\ v[4] \in Int
             /\ v[5] \in Nodes \cup {NoNode}
<1> DEFINE A == ActiveRecords(st, sp)
<1>1. A \subseteq NodeRecord
  BY ActiveRecordsType
<1>2. s \in Seq(NodeRecord)
  BY <1>1, ArrangementType
<1>3. c \in Seq(NodeRecord)
  BY <1>1, ArrangementType
<1>4. [i \in DOMAIN c |-> c[i].id] \in Seq(Nodes)
  <2>1. /\ Len(c) \in Nat
        /\ DOMAIN c = 1..Len(c)
        /\ \A i \in DOMAIN c : c[i] \in NodeRecord
    BY <1>3
  <2>2. \A i \in DOMAIN c : c[i].id \in Nodes
    BY <2>1 DEF NodeRecord
  <2>3. [i \in 1..Len(c) |-> c[i].id] \in [1..Len(c) -> Nodes]
    BY <2>1, <2>2
  <2>. QED
    BY <2>1, <2>3
<1>5. {r.id : r \in {q \in A : IsAccepted(q)}} \subseteq Nodes
  BY <1>1 DEF NodeRecord
<1>6. PledgingOf(A) \in Nodes \cup {NoNode}
  BY <1>1 DEF PledgingOf, NodeRecord
<1>7. LET sorted == [i \in DOMAIN c |-> c[i].id]
      IN  (IF \E i \in DOMAIN sorted : sorted[i] = Self
             THEN (CHOOSE i \in DOMAIN sorted : sorted[i] = Self) - 1
             ELSE index) \in Int
  BY <1>3
<1>. QED
  BY <1>2, <1>4, <1>5, <1>6, <1>7 DEF LoadedView

\* A step of LoadConsensusNodes over typed records gives a typed view.
LEMMA LoadConsensusNodesType ==
  ASSUME NEW st \in [Nodes -> NodeStates \cup {"None"}],
         NEW sp \in [Nodes -> Nat],
         NEW index \in Int,
         LoadConsensusNodes(st, sp, index)
  PROVE  /\ activeNodes' \in Seq(NodeRecord)
         /\ consensusNodes' \subseteq Nodes
         /\ sortedConsensusNodes' \in Seq(Nodes)
         /\ consensusIndex' \in Int
         /\ consensusPledging' \in Nodes \cup {NoNode}
<1>1. PICK s \in SortedArrangements(ActiveRecords(st, sp)),
           c \in SortedArrangements({r \in ActiveRecords(st, sp) : IsAccepted(r)}) :
        LET v == LoadedView(st, sp, index, s, c)
        IN /\ activeNodes' = v[1]
           /\ consensusNodes' = v[2]
           /\ sortedConsensusNodes' = v[3]
           /\ consensusIndex' = v[4]
           /\ consensusPledging' = v[5]
  BY DEF LoadConsensusNodes
<1>. QED
  BY <1>1, LoadedViewType

-----------------------------------------------------------------------------
(* Type correctness.                                                       *)

LEMMA InitTypeOK == Init => TypeOK
<1> SUFFICES ASSUME Init PROVE TypeOK
  OBVIOUS
<1>1. nodeState \in [Nodes -> NodeStates \cup {"None"}]
  BY DEF Init, NodeStates, Accepted
<1>2. nodeStamp \in [Nodes -> Nat]
  BY DEF Init
<1>3. PICK s \in SortedArrangements(ActiveRecords(nodeState, nodeStamp)),
           c \in SortedArrangements({r \in ActiveRecords(nodeState, nodeStamp) :
                                      IsAccepted(r)}) :
        LET v == LoadedView(nodeState, nodeStamp, -1, s, c)
        IN /\ activeNodes = v[1]
           /\ consensusNodes = v[2]
           /\ sortedConsensusNodes = v[3]
           /\ consensusIndex = v[4]
           /\ consensusPledging = v[5]
  BY DEF Init
<1>4. -1 \in Int
  OBVIOUS
<1>5. LET v == LoadedView(nodeState, nodeStamp, -1, s, c)
      IN  /\ v[1] \in Seq(NodeRecord)
          /\ v[2] \subseteq Nodes
          /\ v[3] \in Seq(Nodes)
          /\ v[4] \in Int
          /\ v[5] \in Nodes \cup {NoNode}
  BY <1>1, <1>2, <1>4, LoadedViewType
<1>. QED
  BY <1>1, <1>2, <1>3, <1>5 DEF Init, TypeOK

\* The store transitions keep the records typed.
LEMMA StoreStepType ==
  ASSUME TypeOK, NEW n \in Nodes, NEW x \in NodeStates
  PROVE  /\ [nodeState EXCEPT ![n] = x] \in [Nodes -> NodeStates \cup {"None"}]
         /\ [nodeStamp EXCEPT ![n] = now] \in [Nodes -> Nat]
BY DEF TypeOK

LEMMA NextTypeOK == TypeOK /\ [Next]_vars => TypeOK'
<1> SUFFICES ASSUME TypeOK, [Next]_vars PROVE TypeOK'
  OBVIOUS
<1>1. CASE Tick
  BY <1>1 DEF Tick, TypeOK, store, view
<1>2. CASE SetupNode
  <2>1. -1 \in Int
    OBVIOUS
  <2>. QED
    BY <1>2, <2>1, LoadConsensusNodesType DEF SetupNode, TypeOK, store
<1>3. ASSUME NEW n \in Nodes, Pledge(n) PROVE TypeOK'
  BY <1>3, StoreStepType, LoadConsensusNodesType
     DEF Pledge, TypeOK, NodeStates
<1>4. ASSUME NEW n \in Nodes, Accept(n) PROVE TypeOK'
  BY <1>4, StoreStepType, LoadConsensusNodesType
     DEF Accept, TypeOK, NodeStates
<1>5. ASSUME NEW n \in Nodes, Cancel(n) PROVE TypeOK'
  BY <1>5, StoreStepType, LoadConsensusNodesType
     DEF Cancel, TypeOK, NodeStates
<1>6. ASSUME NEW n \in Nodes, Depart(n) PROVE TypeOK'
  BY <1>6, StoreStepType, LoadConsensusNodesType
     DEF Depart, TypeOK, NodeStates
<1>7. CASE UNCHANGED vars
  BY <1>7 DEF vars, view, TypeOK
<1>. QED
  BY <1>1, <1>2, <1>3, <1>4, <1>5, <1>6, <1>7 DEF Next

\* Spec => []TypeOK: the model's variables keep their types.
THEOREM TypeCorrect == Spec => []TypeOK
BY InitTypeOK, NextTypeOK, PTL DEF Spec

-----------------------------------------------------------------------------
(* Quorum intersection.                                                    *)

\* The arithmetic of the 2/3+1 threshold: two quorums out of a base of B
\* overlap, in the worst case, in more than B \div 3 members.
LEMMA ThresholdArith ==
  ASSUME NEW B \in Nat
  PROVE  2 * ((B * 2) \div 3 + 1) - B > B \div 3
BY SMT

\* A record that may sign is counted in the base: the genesis exemption is
\* the same in both filters, and the accept period exceeds the reference
\* window.
LEMMA SignerCounted ==
  ASSUME NEW r \in NodeRecord, NEW ts \in Nat, CanSign(r, ts)
  PROVE  Counted(r, ts)
BY DEF CanSign, Counted, NodeRecord

\* The positions holding keys are among the positions counted in the base.
LEMMA KeysInBase ==
  ASSUME TypeOK, NEW t \in Nat
  PROVE  KeyPositions(t) \subseteq BasePositions(t)
<1>1. Timestamp(t) \in Nat
  BY DEF Timestamp, TypeOK
<1>2. \A i \in 1..Len(activeNodes) : activeNodes[i] \in NodeRecord
  BY DEF TypeOK
<1>. QED
  BY <1>1, <1>2, SignerCounted DEF KeyPositions, BasePositions

LEMMA QuorumIntersectionFromType == TypeOK => QuorumIntersection
<1> SUFFICES ASSUME TypeOK,
                    NEW t \in 0..MaxTime,
                    NEW Q1 \in SUBSET KeyPositions(t),
                    NEW Q2 \in SUBSET KeyPositions(t),
                    Cardinality(Q1) >= ConsensusThreshold(t),
                    Cardinality(Q2) >= ConsensusThreshold(t)
             PROVE  Cardinality(Q1 \cap Q2) > ConsensusBase(t) \div 3
  BY DEF QuorumIntersection
<1> DEFINE K == KeyPositions(t)
           B == BasePositions(t)
<1>1. K \subseteq B
  BY KeysInBase
<1>2. IsFiniteSet(1..Len(activeNodes))
  BY FS_Interval DEF TypeOK
<1>3. B \subseteq 1..Len(activeNodes)
  BY DEF BasePositions
<1>4. IsFiniteSet(B)
  BY <1>2, <1>3, FS_Subset
<1>5. IsFiniteSet(K) /\ Cardinality(K) <= Cardinality(B)
  BY <1>1, <1>4, FS_Subset
<1>6. IsFiniteSet(Q1) /\ IsFiniteSet(Q2)
  BY <1>5, FS_Subset
<1>7. Cardinality(Q1 \cup Q2) <= Cardinality(K)
  BY <1>5, FS_Subset
<1>8. Cardinality(Q1 \cup Q2) =
        Cardinality(Q1) + Cardinality(Q2) - Cardinality(Q1 \cap Q2)
  BY <1>6, FS_Union
<1>9. /\ Cardinality(B) \in Nat
      /\ Cardinality(K) \in Nat
      /\ Cardinality(Q1) \in Nat
      /\ Cardinality(Q2) \in Nat
      /\ Cardinality(Q1 \cup Q2) \in Nat
      /\ Cardinality(Q1 \cap Q2) \in Nat
  BY <1>4, <1>5, <1>6, FS_Union, FS_Intersection, FS_CardinalityType
<1>10. 2 * ((Cardinality(B) * 2) \div 3 + 1) - Cardinality(B)
         > Cardinality(B) \div 3
  BY <1>9, ThresholdArith
<1>11. ConsensusThreshold(t) = (Cardinality(B) * 2) \div 3 + 1
  BY DEF ConsensusThreshold, ConsensusBase
<1>12. ConsensusBase(t) = Cardinality(B)
  BY DEF ConsensusBase
<1>. QED
  BY <1>5, <1>7, <1>8, <1>9, <1>10, <1>11, <1>12

\* Spec => []QuorumIntersection: for every timestamp, two signer sets that
\* each reach ConsensusThreshold overlap in more than a third of the base.
THEOREM QuorumIntersectionHolds == Spec => []QuorumIntersection
BY TypeCorrect, QuorumIntersectionFromType, PTL

=============================================================================
