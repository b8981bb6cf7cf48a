----------------------------- MODULE Membership -----------------------------
(***************************************************************************)
(* Consensus-node membership of one kernel node (src/kernel/node.go).      *)
(*                                                                         *)
(* The store holds one record per signer: a membership state and the      *)
(* timestamp of the snapshot that put it there.  LoadConsensusNodes reads  *)
(* those records into the in-memory view (ActiveNodes, ConsensusNodes,     *)
(* SortedConsensusNodes, ConsensusIndex, ConsensusPledging); the kernel    *)
(* reloads the view whenever an admission transaction is finalized and on *)
(* startup (SetupNode).  ConsensusThreshold and ConsensusKeys are computed *)
(* from the view for a given timestamp: the first counts who makes up the *)
(* quorum base, the second lists the keys that may sign.                   *)
(*                                                                         *)
(* The admission transitions themselves (pledge, accept, cancel, depart)   *)
(* are finalized by kernel code that is not in this repository; they are   *)
(* modelled from the spec (section 3, 4.4 and 4.6).                        *)
(***************************************************************************)
EXTENDS Integers, Sequences, FiniteSets, Functions

CONSTANTS
  Nodes,         \* signers that may ever hold a consensus-node record
  Genesis,       \* genesisNodes: the signers of genesis.json
  Self,          \* node.IdForNetwork, the node running this code
  RefWindow,     \* config.SnapshotReferenceThreshold * config.SnapshotRoundGap
  AcceptPeriod,  \* config.KernelNodeAcceptPeriodMinimum
  Epoch,         \* node.epoch, the genesis timestamp
  MaxTime,       \* bound on the clock (model-checking bound)
  HashRank,      \* Signer.Hash().ForNetwork(networkId), as a rank for the tie-break
  NoNode         \* a nil *common.Node

\* ConsensusThreshold panics unless the reference window is at most 3
\* minutes and the accept period at least one hour; those two bounds give
\* AcceptPeriod > 3 * RefWindow, which is all the model relies on (the
\* subtraction AcceptPeriod - 3 * RefWindow of line 163 cannot wrap).
ASSUME ConstantsAssumption ==
  /\ IsFiniteSet(Nodes)
  /\ Genesis \subseteq Nodes
  /\ Self \in Nodes
  /\ NoNode \notin Nodes
  /\ RefWindow \in Nat \ {0}
  /\ AcceptPeriod \in Nat
  /\ AcceptPeriod > 3 * RefWindow
  /\ Epoch \in Nat \ {0}
  /\ MaxTime \in Nat
  /\ HashRank \in [Nodes -> Nat]
  /\ \A m, n \in Nodes : HashRank[m] = HashRank[n] => m = n

\* common.NodeState values that a record can hold; "None" is a signer
\* without a record.
Pledging  == "Pledging"
Accepted  == "Accepted"
Departing == "Departing"
Cancelled == "Cancelled"
NodeStates == {Pledging, Accepted, Departing, Cancelled}

\* The states the switch of LoadConsensusNodes keeps in ActiveNodes.
ActiveStates == {Pledging, Accepted, Departing}

\* A *common.Node as the view holds it: id, state, timestamp.
NodeRecord == [id : Nodes, state : ActiveStates, timestamp : Nat]

VARIABLES
  nodeState,             \* store: state of each signer's record, or "None"
  nodeStamp,             \* store: timestamp of each signer's record
  now,                   \* wall clock, time.Now().UnixNano()
  activeNodes,           \* node.ActiveNodes
  consensusNodes,        \* DOMAIN node.ConsensusNodes
  sortedConsensusNodes,  \* node.SortedConsensusNodes
  consensusIndex,        \* node.ConsensusIndex
  consensusPledging      \* node.ConsensusPledging (its id), or NoNode

store == <<nodeState, nodeStamp>>
view == <<activeNodes, consensusNodes, sortedConsensusNodes, consensusIndex,
          consensusPledging>>
vars == <<nodeState, nodeStamp, now, view>>

-----------------------------------------------------------------------------
(***************************************************************************)
(* Reading the view (node.go 181-230).                                     *)
(***************************************************************************)

\* persistStore.ReadConsensusNodes(), with a zero timestamp replaced by the
\* epoch as the loop of LoadConsensusNodes does.
StoreRecords(st, sp) ==
  { [id |-> n, state |-> st[n],
     timestamp |-> IF sp[n] = 0 THEN Epoch ELSE sp[n]] :
      n \in {m \in Nodes : st[m] # "None"} }

\* Mutant of ActiveRecords: a default branch in the switch that appends
\* every other record to activeNodes too.
ActiveRecordsWithDefault(st, sp) == StoreRecords(st, sp)

\* The records the switch of LoadConsensusNodes keeps.
ActiveRecords(st, sp) ==
  {r \in StoreRecords(st, sp) : r.state \in {Pledging, Accepted, Departing}}

\* The sort.Slice comparator: timestamp, then network-hashed signer id.
Before(a, b) ==
  \/ a.timestamp < b.timestamp
  \/ a.timestamp = b.timestamp /\ HashRank[a.id] < HashRank[b.id]

\* The arrangements of S that sort.Slice can return: every record once, in
\* Before order (there is exactly one, as Before is strict and total on
\* records of distinct signers).
SortedArrangements(S) ==
  { s \in Seq(S) :
      /\ Range(s) = S
      /\ \A i, j \in DOMAIN s : i < j => Before(s[i], s[j]) }

IsAccepted(r) == r.state = Accepted

\* Mutant of PledgingOf: keeps the record itself rather than its id.
PledgingRecordOf(A) ==
  IF \E r \in A : r.state = Pledging
    THEN CHOOSE r \in A : r.state = Pledging
    ELSE NoNode

\* ConsensusPledging: the pledging record among the active ones, if any.
PledgingOf(A) ==
  IF \E r \in A : r.state = Pledging
    THEN (CHOOSE r \in A : r.state = Pledging).id
    ELSE NoNode

\* The view LoadConsensusNodes builds from the records st/sp, where s is
\* ActiveNodes after sort.Slice and c its accepted records in the same order
\* (the loop of lines 215-220), starting from the ConsensusIndex value
\* `index`: the index is assigned only when the own id is found in the
\* sorted list (lines 224-228; the ids are distinct, so at one position).
LoadedView(st, sp, index, s, c) ==
  LET A == ActiveRecords(st, sp)
      sorted == [i \in DOMAIN c |-> c[i].id]
  IN << s,
        {r.id : r \in {q \in A : IsAccepted(q)}},
        sorted,
        IF \E i \in DOMAIN sorted : sorted[i] = Self
          THEN (CHOOSE i \in DOMAIN sorted : sorted[i] = Self) - 1
          ELSE index,
        PledgingOf(A) >>

\* LoadConsensusNodes (lines 181-230) as a step of the view.
LoadConsensusNodes(st, sp, index) ==
  LET A == ActiveRecords(st, sp)
  IN \E s \in SortedArrangements(A),
        c \in SortedArrangements({r \in A : IsAccepted(r)}) :
       LET v == LoadedView(st, sp, index, s, c)
       IN /\ activeNodes' = v[1]
          /\ consensusNodes' = v[2]
          /\ sortedConsensusNodes' = v[3]
          /\ consensusIndex' = v[4]
          /\ consensusPledging' = v[5]

-----------------------------------------------------------------------------
(***************************************************************************)
(* Threshold and signing keys (node.go 129-179).  A timestamp of 0 means   *)
(* now.  Both walk node.ActiveNodes, so both are counted over positions of *)
(* that sequence.                                                          *)
(***************************************************************************)

Timestamp(t) == IF t = 0 THEN now ELSE t

\* The switch of ConsensusThreshold: does record r count towards the base?
Counted(r, ts) ==
  \/ r.state = Pledging /\ r.timestamp + (AcceptPeriod - 3 * RefWindow) < ts
  \/ r.state = Accepted /\ (r.id \in Genesis \/ r.timestamp + RefWindow < ts)
  \/ r.state = Departing

\* The filter of ConsensusKeys: may record r sign?
CanSign(r, ts) ==
  /\ r.state = Accepted
  /\ r.id \in Genesis \/ r.timestamp + AcceptPeriod < ts

BasePositions(t) ==
  {i \in 1..Len(activeNodes) : Counted(activeNodes[i], Timestamp(t))}

\* Positions of ActiveNodes whose key ConsensusKeys(t) returns; a CoSi mask
\* selects a subset of these.
KeyPositions(t) ==
  {i \in 1..Len(activeNodes) : CanSign(activeNodes[i], Timestamp(t))}

ConsensusKeys(t) ==
  LET signs(r) == CanSign(r, Timestamp(t))
      keys == SelectSeq(activeNodes, signs)
  IN [i \in 1..Len(keys) |-> keys[i].id]

ConsensusBase(t) == Cardinality(BasePositions(t))

\* The panic of line 176.
ThresholdPanics(t) == ConsensusBase(t) < Cardinality(Genesis)

\* Mutant of ConsensusThreshold: the "+ 1" of line 178 dropped.
ConsensusThresholdNoMargin(t) == (ConsensusBase(t) * 2) \div 3

ConsensusThreshold(t) == (ConsensusBase(t) * 2) \div 3 + 1

-----------------------------------------------------------------------------
(***************************************************************************)
(* Initial state: genesis records are Accepted with a zero timestamp and   *)
(* SetupNode loads the view with ConsensusIndex = -1.                      *)
(***************************************************************************)
Init ==
  /\ nodeState = [n \in Nodes |-> IF n \in Genesis THEN Accepted ELSE "None"]
  /\ nodeStamp = [n \in Nodes |-> 0]
  /\ now = Epoch
  /\ LET A == ActiveRecords(nodeState, nodeStamp)
     IN \E s \in SortedArrangements(A),
           c \in SortedArrangements({r \in A : IsAccepted(r)}) :
          LET v == LoadedView(nodeState, nodeStamp, -1, s, c)
          IN /\ activeNodes = v[1]
             /\ consensusNodes = v[2]
             /\ sortedConsensusNodes = v[3]
             /\ consensusIndex = v[4]
             /\ consensusPledging = v[5]

\* Time passes.
Tick ==
  /\ now < MaxTime
  /\ now' = now + 1
  /\ UNCHANGED <<store, view>>

\* A node-pledge snapshot is finalized: signer n gets a Pledging record
\* stamped now, and the kernel reloads the view.  Only one pledge may be
\* outstanding (spec 4.6, ConsensusPledging).
Pledge(n) ==
  /\ nodeState[n] = "None"
  /\ \A m \in Nodes : nodeState[m] # Pledging
  /\ nodeState' = [nodeState EXCEPT ![n] = Pledging]
  /\ nodeStamp' = [nodeStamp EXCEPT ![n] = now]
  /\ LoadConsensusNodes(nodeState', nodeStamp', consensusIndex)
  /\ UNCHANGED now

\* A node-accept snapshot is finalized once the accept period has elapsed.
Accept(n) ==
  /\ nodeState[n] = Pledging
  /\ nodeStamp[n] + AcceptPeriod <= now
  /\ nodeState' = [nodeState EXCEPT ![n] = Accepted]
  /\ nodeStamp' = [nodeStamp EXCEPT ![n] = now]
  /\ LoadConsensusNodes(nodeState', nodeStamp', consensusIndex)
  /\ UNCHANGED now

\* A node-cancel snapshot is finalized before the accept period elapses.
Cancel(n) ==
  /\ nodeState[n] = Pledging
  /\ now < nodeStamp[n] + AcceptPeriod
  /\ nodeState' = [nodeState EXCEPT ![n] = Cancelled]
  /\ nodeStamp' = [nodeStamp EXCEPT ![n] = now]
  /\ LoadConsensusNodes(nodeState', nodeStamp', consensusIndex)
  /\ UNCHANGED now

\* An accepted node starts departing.
Depart(n) ==
  /\ nodeState[n] = Accepted
  /\ nodeState' = [nodeState EXCEPT ![n] = Departing]
  /\ nodeStamp' = [nodeStamp EXCEPT ![n] = now]
  /\ LoadConsensusNodes(nodeState', nodeStamp', consensusIndex)
  /\ UNCHANGED now

\* The process restarts: SetupNode builds a fresh Node (ConsensusIndex -1)
\* and loads the view from the store.
SetupNode ==
  /\ LoadConsensusNodes(nodeState, nodeStamp, -1)
  /\ UNCHANGED <<store, now>>

Next ==
  \/ Tick
  \/ SetupNode
  \/ \E n \in Nodes : Pledge(n) \/ Accept(n) \/ Cancel(n) \/ Depart(n)

Spec == Init /\ [][Next]_vars

-----------------------------------------------------------------------------
(***************************************************************************)
(* Properties.                                                             *)
(***************************************************************************)

\* Every variable holds values of its kind; in particular ActiveNodes, which
\* ConsensusThreshold and ConsensusKeys walk, holds only pledging, accepted
\* and departing records, whatever records the store holds.
TypeOK ==
  /\ nodeState \in [Nodes -> NodeStates \cup {"None"}]
  /\ nodeStamp \in [Nodes -> Nat]
  /\ now \in Nat
  /\ activeNodes \in Seq(NodeRecord)
  /\ consensusNodes \subseteq Nodes
  /\ sortedConsensusNodes \in Seq(Nodes)
  /\ consensusIndex \in Int
  /\ consensusPledging \in Nodes \cup {NoNode}

\* Quorum intersection (BFT safety of the threshold, node.go 146-179 with
\* 129-144): for every snapshot timestamp, two sets of signers that each
\* reach ConsensusThreshold share more than a third of the consensus base,
\* i.e. more than the faulty nodes the base tolerates.  It rests on every
\* key ConsensusKeys returns being counted in the base, which the genesis
\* exemption and the accept period / reference window ordering provide.
QuorumIntersection ==
  \A t \in 0..MaxTime :
    \A Q1, Q2 \in SUBSET KeyPositions(t) :
      (/\ Cardinality(Q1) >= ConsensusThreshold(t)
       /\ Cardinality(Q2) >= ConsensusThreshold(t))
        => Cardinality(Q1 \cap Q2) > ConsensusBase(t) \div 3

\* ConsensusIndex is the own position in SortedConsensusNodes, and -1 when
\* the node is not a consensus node (spec 4.6).  LoadConsensusNodes only
\* assigns it when the own id is found (node.go 224-228).
ConsensusIndexCorrect ==
  /\ consensusIndex = -1 <=> Self \notin Range(sortedConsensusNodes)
  /\ consensusIndex # -1 =>
       /\ consensusIndex \in 0..Len(sortedConsensusNodes) - 1
       /\ sortedConsensusNodes[consensusIndex + 1] = Self
=============================================================================
