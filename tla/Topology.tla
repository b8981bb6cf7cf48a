------------------------------ MODULE Topology ------------------------------
(***************************************************************************)
(* The topology index of the graph store (src/storage/badger_topology.go)  *)
(* and the in-memory counter that hands out its orders.                    *)
(*                                                                         *)
(* When a snapshot is finalized, the action loop takes the next order from *)
(* node.TopoCounter and writes the snapshot in one badger transaction;     *)
(* writeTopology adds the forward key graphTopologyKey(order) -> snapshot  *)
(* and the reverse key graphSnapTopologyKey(hash) -> forward key.  At      *)
(* start-up the counter is read back from the store by TopologySequence,  *)
(* a reverse seek from the largest key.  Readers page through the index    *)
(* with ReadSnapshotsSinceTopology and look one snapshot up with           *)
(* readSnapshotWithTopo.                                                   *)
(*                                                                         *)
(* The order is encoded as Digits big-endian digits of base Base (8 bytes  *)
(* in the code), and badger orders keys bytewise, so seeks and iteration   *)
(* follow the digits.  The payload key a forward key points to is          *)
(* abstracted to the snapshot it names.  The counter and the finalization *)
(* step around writeTopology are not in this repository and are modelled   *)
(* from spec 4.4.                                                          *)
(***************************************************************************)
EXTENDS Naturals, FiniteSets, Sequences

CONSTANTS
    Snaps,      \* snapshot hashes
    Base,       \* values of one key digit (256: a byte)
    Digits,     \* digits of an order (8: a uint64)
    NoSnap      \* nothing being persisted

ASSUME TopologyAssumption ==
    /\ IsFiniteSet(Snaps)
    /\ Base \in Nat \ {0, 1}
    /\ Digits \in Nat \ {0}
    /\ NoSnap \notin Snaps

Width == Base ^ Digits          \* 2^64 in the code
Orders == 0..(Width - 1)
Keys == [1..Digits -> 0..(Base - 1)]

VARIABLES
    topo,       \* forward index: graphTopologyKey(order) -> snapshot
    rev,        \* reverse index: snapshot -> its forward key
    seq,        \* node.TopoCounter: the next order to hand out
    pending     \* [snap, order] being persisted, or NoSnap

vars == <<topo, rev, seq, pending>>

-----------------------------------------------------------------------------
(* Keys.                                                                   *)

\* graphTopologyKey: binary.BigEndian.PutUint64.
graphTopologyKey(o) == [i \in 1..Digits |-> (o \div Base ^ (Digits - i)) % Base]

\* graphTopologyOrder: binary.BigEndian.Uint64.
graphTopologyOrder(k) ==
    LET v[i \in 0..Digits] == IF i = 0 THEN 0 ELSE v[i - 1] * Base + k[i]
    IN  v[Digits]

\* badger's key order: bytewise comparison of keys of one length.
KeyLess(a, b) ==
    \E i \in 1..Digits : a[i] < b[i] /\ \A j \in 1..(i - 1) : a[j] = b[j]

\* binary.BigEndian is an order-preserving code: every order has a key,
\* the key gives the order back, and badger's bytewise key order is the
\* numeric order.  This holds for every Base and Digits; its proof is an
\* induction over the digits, and TLC evaluates it on every instance.
ASSUME EncodingAssumption ==
    /\ \A o \in Orders : /\ graphTopologyKey(o) \in Keys
                        /\ graphTopologyOrder(graphTopologyKey(o)) = o
    /\ \A a, b \in Orders :
         KeyLess(graphTopologyKey(a), graphTopologyKey(b)) <=> a < b

\* There are 2^64 orders, a positive number, and the index never holds
\* that many snapshots: there are fewer snapshots than orders, so the
\* counter never wraps.
ASSUME CapacityAssumption == Width \in Nat \ {0} /\ Cardinality(Snaps) < Width

\* NoSnap, "nothing being persisted", is no pending snapshot and order.
ASSUME NoSnapAssumption == NoSnap \notin [snap : Snaps, order : Orders]

\* The position of key k among the keys of S.
Rank(k, S) == Cardinality({j \in S : KeyLess(j, k)})

-----------------------------------------------------------------------------
(* Store operations.                                                       *)

\* writeTopology: both keys, in the caller's badger transaction.
WriteTopologyNoReverse(snap, order) ==
    /\ topo' = [k \in DOMAIN topo \cup {graphTopologyKey(order)} |->
                   IF k = graphTopologyKey(order) THEN snap ELSE topo[k]]
    /\ UNCHANGED rev
WriteTopologyPayloadAsReverse(snap, order) ==
    /\ topo' = [k \in DOMAIN topo \cup {graphTopologyKey(order)} |->
                   IF k = graphTopologyKey(order) THEN snap ELSE topo[k]]
    /\ rev' = [s \in DOMAIN rev \cup {snap} |-> IF s = snap THEN snap ELSE rev[s]]
writeTopology(snap, order) ==
    /\ topo' = [k \in DOMAIN topo \cup {graphTopologyKey(order)} |->
                   IF k = graphTopologyKey(order) THEN snap ELSE topo[k]]
    /\ rev' = [s \in DOMAIN rev \cup {snap} |->
                  IF s = snap THEN graphTopologyKey(order) ELSE rev[s]]

\* TopologySequence: seek backwards from graphTopologyKey(^uint64(0)); the
\* first key found is the largest, and the sequence is its order + 1 in
\* uint64 arithmetic.  An empty index gives 0.
TopologySequenceNoIncrement ==
    IF DOMAIN topo = {} THEN 0
    ELSE LET last == CHOOSE k \in DOMAIN topo : \A j \in DOMAIN topo : ~KeyLess(k, j)
         IN  graphTopologyOrder(last)
TopologySequence ==
    IF DOMAIN topo = {} THEN 0
    ELSE LET last == CHOOSE k \in DOMAIN topo : \A j \in DOMAIN topo : ~KeyLess(k, j)
         IN  (graphTopologyOrder(last) + 1) % Width

\* ReadSnapshotsSinceTopology(offset, count): seek to graphTopologyKey(offset)
\* and iterate forwards while the prefix holds and fewer than count were read.
ReadSnapshotsSinceTopologyOneMore(offset, count) ==
    LET S == {k \in DOMAIN topo : ~KeyLess(k, graphTopologyKey(offset))}
        n == IF Cardinality(S) < count + 1 THEN Cardinality(S) ELSE count + 1
    IN  [i \in 1..n |-> LET k == CHOOSE k \in S : Rank(k, S) = i - 1
                        IN  [hash |-> topo[k], order |-> graphTopologyOrder(k)]]
ReadSnapshotsSinceTopology(offset, count) ==
    LET S == {k \in DOMAIN topo : ~KeyLess(k, graphTopologyKey(offset))}
        n == IF Cardinality(S) < count THEN Cardinality(S) ELSE count
    IN  [i \in 1..n |-> LET k == CHOOSE k \in S : Rank(k, S) = i - 1
                        IN  [hash |-> topo[k], order |-> graphTopologyOrder(k)]]

\* readSnapshotWithTopo(hash): reverse key, then forward key, then payload.
readSnapshotWithTopo(hash) ==
    [hash |-> hash, order |-> graphTopologyOrder(rev[hash]), found |-> topo[rev[hash]]]

-----------------------------------------------------------------------------
(* Steps.                                                                  *)

Init ==
    /\ topo = [k \in {} |-> NoSnap]
    /\ rev = [s \in {} |-> NoSnap]
    /\ seq = 0
    /\ pending = NoSnap

\* A snapshot is finalized (spec 4.4): unless it is already in the index,
\* it takes the counter's next order.
AssignOrder(s) ==
    /\ pending = NoSnap
    /\ s \notin DOMAIN rev
    /\ pending' = [snap |-> s, order |-> seq]
    /\ seq' = (seq + 1) % Width
    /\ UNCHANGED <<topo, rev>>

\* The badger transaction that persists the finalized snapshot commits.
Persist ==
    /\ pending # NoSnap
    /\ writeTopology(pending.snap, pending.order)
    /\ pending' = NoSnap
    /\ UNCHANGED seq

\* The process stops (a crash, or a panic on a failed commit) and SetupNode
\* reads the counter back from the store.
Restart ==
    /\ seq' = TopologySequence
    /\ pending' = NoSnap
    /\ UNCHANGED <<topo, rev>>

Next == (\E s \in Snaps : AssignOrder(s)) \/ Persist \/ Restart

Spec == Init /\ [][Next]_vars

-----------------------------------------------------------------------------
(* Properties.                                                             *)

\* The indexes hold keys and snapshots, the counter an order.
TypeOK ==
    /\ DOMAIN topo \subseteq Keys /\ \A k \in DOMAIN topo : topo[k] \in Snaps
    /\ DOMAIN rev \subseteq Snaps /\ \A s \in DOMAIN rev : rev[s] \in Keys
    /\ seq \in Orders
    /\ pending \in {NoSnap} \cup [snap : Snaps, order : Orders]

\* The log the index stands for: the snapshot at each order from 0, and
\* NoSnap, which no log holds, where the index has a hole.
IndexLog ==
    [i \in 1..Cardinality(DOMAIN topo) |->
        IF graphTopologyKey(i - 1) \in DOMAIN topo THEN topo[graphTopologyKey(i - 1)]
        ELSE NoSnap]

\* Spec 8: the forward and the reverse index are inverse to each other, so
\* readSnapshotWithTopo finds every indexed snapshot by its hash, across
\* crashes between taking an order and committing it.
TopologyBijective ==
    /\ \A k \in DOMAIN topo : topo[k] \in DOMAIN rev /\ rev[topo[k]] = k
    /\ \A s \in DOMAIN rev : rev[s] \in DOMAIN topo /\ readSnapshotWithTopo(s).found = s

\* The counter is always the next free order: the orders in the index are
\* 0 .. n-1, and the counter is n, or n + 1 while order n is being
\* persisted, also after TopologySequence rebuilt it at a restart.
CounterIsNext ==
    LET n == Cardinality(DOMAIN topo)
    IN  /\ DOMAIN topo = {graphTopologyKey(o) : o \in 0..(n - 1)}
        /\ IF pending = NoSnap THEN seq = n
           ELSE pending.order = n /\ seq = n + 1

\* ReadSnapshotsSinceTopology returns a dense window (spec 4.2): the
\* snapshots at orders offset, offset+1, ..., as many as count and the
\* index allow, each with its own order.
ReadIsDenseWindow ==
    \A offset \in 0..Cardinality(Snaps), count \in 1..Cardinality(Snaps) :
        LET n == Len(IndexLog)
            m == IF n <= offset THEN 0
                 ELSE IF n - offset < count THEN n - offset ELSE count
        IN  ReadSnapshotsSinceTopology(offset, count) =
                [i \in 1..m |-> [hash |-> IndexLog[offset + i], order |-> offset + i - 1]]

\* The index implements the abstract topology log: every commit appends the
\* snapshot at the next order and no step rewrites or reorders the orders
\* readers have seen.
TL == INSTANCE TopologyLog WITH log <- IndexLog
TopologyRefinesLog == TL!Spec
=============================================================================
