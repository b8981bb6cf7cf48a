--------------------------- MODULE TopologyProofs ---------------------------
(***************************************************************************)
(* Proofs that the topology index stays a dense, two-way index across      *)
(* crashes, and that it implements the append-only log of TopologyLog, for *)
(* every set of snapshots and every key width.                             *)
(*                                                                         *)
(* CounterIsNext and TopologyBijective are not inductive alone.  A commit  *)
(* adds a fresh forward key only because the pending order is the next     *)
(* one, and a fresh reverse key only because the pending snapshot was not  *)
(* indexed when it took its order; a restart finds the counter again only  *)
(* because the index holds fewer orders than there are.  IInv adds the    *)
(* finiteness of both key sets, their equal size, and the freshness of the *)
(* pending snapshot.                                                       *)
(***************************************************************************)
EXTENDS Topology, FiniteSetTheorems, TLAPS

USE TopologyAssumption, EncodingAssumption, CapacityAssumption, NoSnapAssumption

K(o) == graphTopologyKey(o)
Used == Cardinality(DOMAIN topo)

IInv ==
    /\ TypeOK
    /\ TopologyBijective
    /\ CounterIsNext
    /\ IsFiniteSet(DOMAIN topo) /\ IsFiniteSet(DOMAIN rev)
    /\ Cardinality(DOMAIN rev) = Cardinality(DOMAIN topo)
    /\ pending # NoSnap => pending.snap \notin DOMAIN rev

-----------------------------------------------------------------------------
(* The key encoding and the sizes.                                        *)

\* Width is a positive number of orders.
LEMMA WidthPos == Width \in Nat \ {0}
BY CapacityAssumption

\* graphTopologyKey is an injective, order-preserving map into Keys.
LEMMA KeyFacts ==
    ASSUME NEW a \in Orders, NEW b \in Orders
    PROVE  /\ K(a) \in Keys
           /\ K(a) = K(b) <=> a = b
           /\ KeyLess(K(a), K(b)) <=> a < b
BY DEF K

\* An indexed snapshot is one of Snaps, so the index holds fewer snapshots
\* than there are orders.
LEMMA UsedBound ==
    ASSUME IInv
    PROVE  /\ Used \in Nat
           /\ Used <= Cardinality(Snaps)
           /\ Used < Width
<1>1. IsFiniteSet(DOMAIN rev) /\ DOMAIN rev \subseteq Snaps
  BY DEF IInv, TypeOK
<1>2. Cardinality(DOMAIN rev) <= Cardinality(Snaps) /\ Cardinality(DOMAIN rev) \in Nat
  BY <1>1, FS_Subset, FS_CardinalityType
<1>. QED  BY <1>2, WidthPos, FS_CardinalityType DEF IInv, Used

\* NoSnap is not a pending record.
LEMMA NoSnapNotRecord ==
    ASSUME NEW r \in [snap : Snaps, order : Orders] PROVE r # NoSnap
BY TopologyAssumption

-----------------------------------------------------------------------------
(* The steps.                                                              *)

\* The index starts empty, with no order handed out.
LEMMA InitIInv == Init => IInv
<1>. SUFFICES ASSUME Init PROVE IInv
  OBVIOUS
<1>1. DOMAIN topo = {} /\ DOMAIN rev = {}
  BY DEF Init
<1>2. IsFiniteSet(DOMAIN topo) /\ IsFiniteSet(DOMAIN rev)
      /\ Cardinality(DOMAIN topo) = 0 /\ Cardinality(DOMAIN rev) = 0
  BY <1>1, FS_EmptySet
<1>3. TypeOK
  BY <1>1, WidthPos DEF Init, TypeOK, Orders
<1>4. TopologyBijective
  BY <1>1 DEF TopologyBijective
<1>5. CounterIsNext
  BY <1>1, <1>2 DEF Init, CounterIsNext
<1>. QED  BY <1>2, <1>3, <1>4, <1>5 DEF Init, IInv

\* Taking an order: the snapshot is not indexed, so the index holds fewer
\* snapshots than Snaps, and the counter's next value does not wrap.
LEMMA AssignIInv ==
    ASSUME IInv, NEW s \in Snaps, AssignOrder(s)
    PROVE  IInv'
<1>1. Used \in Nat /\ Used < Width
  BY UsedBound
<1>2. seq = Used /\ pending = NoSnap
  BY DEF AssignOrder, IInv, CounterIsNext, Used
<1>3. Used + 1 < Width
  <2>1. s \notin DOMAIN rev /\ DOMAIN rev \subseteq Snaps /\ IsFiniteSet(DOMAIN rev)
    BY DEF AssignOrder, IInv, TypeOK
  <2>2. Cardinality(DOMAIN rev \cup {s}) = Cardinality(DOMAIN rev) + 1
    BY <2>1, FS_AddElement
  <2>3. Cardinality(DOMAIN rev \cup {s}) <= Cardinality(Snaps)
    BY <2>1, FS_AddElement, FS_Subset, TopologyAssumption
  <2>. QED  BY <2>2, <2>3, <1>1, FS_CardinalityType, CapacityAssumption DEF IInv, Used
<1>4. seq' = Used + 1 /\ pending' = [snap |-> s, order |-> Used]
  BY <1>1, <1>2, <1>3, WidthPos DEF AssignOrder
<1>5. UNCHANGED <<topo, rev>>
  BY DEF AssignOrder
<1>6. TypeOK'
  BY <1>1, <1>3, <1>4, <1>5 DEF IInv, TypeOK, Orders
<1>7. CounterIsNext'
  <2>1. DOMAIN topo = {graphTopologyKey(o) : o \in 0..(Used - 1)}
    BY DEF IInv, CounterIsNext, Used
  <2>2. pending' # NoSnap
    BY <1>1, <1>4, NoSnapNotRecord DEF Orders
  <2>. QED  BY <1>4, <1>5, <2>1, <2>2 DEF CounterIsNext, Used
<1>. QED  BY <1>4, <1>5, <1>6, <1>7, NoSnapNotRecord DEF IInv, AssignOrder, TopologyBijective, readSnapshotWithTopo

\* What the commit of the pending snapshot does: its order is the next one,
\* so its forward key is fresh, and the snapshot was not indexed when it
\* took the order, so its reverse key is fresh.
LEMMA PersistStep ==
    ASSUME IInv, Persist
    PROVE  /\ pending \in [snap : Snaps, order : Orders] /\ pending # NoSnap
           /\ pending.order = Used /\ seq = Used + 1
           /\ Used \in Nat /\ Used \in Orders
           /\ DOMAIN topo = {K(o) : o \in 0..(Used - 1)}
           /\ K(Used) \notin DOMAIN topo /\ K(Used) \in Keys
           /\ pending.snap \notin DOMAIN rev /\ pending.snap \in Snaps
           /\ topo' = [x \in DOMAIN topo \cup {K(Used)} |->
                         IF x = K(Used) THEN pending.snap ELSE topo[x]]
           /\ rev' = [s \in DOMAIN rev \cup {pending.snap} |->
                        IF s = pending.snap THEN K(Used) ELSE rev[s]]
           /\ pending' = NoSnap /\ seq' = seq
           /\ IsFiniteSet(DOMAIN topo') /\ Cardinality(DOMAIN topo') = Used + 1
           /\ IsFiniteSet(DOMAIN rev') /\ Cardinality(DOMAIN rev') = Used + 1
           /\ DOMAIN topo' = {K(o) : o \in 0..Used}
<1>. DEFINE snap == pending.snap
            k == K(Used)
<1>1. pending \in [snap : Snaps, order : Orders] /\ pending # NoSnap
  BY DEF Persist, IInv, TypeOK
<1>2. pending.order = Used /\ seq = Used + 1
  BY <1>1 DEF IInv, CounterIsNext, Used
<1>3. DOMAIN topo = {K(o) : o \in 0..(Used - 1)}
  BY DEF IInv, CounterIsNext, Used, K
<1>4. Used \in Nat /\ Used \in Orders
  BY <1>1, <1>2, UsedBound DEF Orders
<1>5. k \notin DOMAIN topo /\ k \in Keys
  <2>1. ASSUME NEW o \in 0..(Used - 1), k = K(o) PROVE FALSE
    <3>1. o \in Orders
      BY <1>4, WidthPos DEF Orders
    <3>. QED  BY <2>1, <3>1, <1>4, KeyFacts
  <2>2. k \in Keys
    BY <1>4, KeyFacts
  <2>. QED  BY <1>3, <2>1, <2>2
<1>6. snap \notin DOMAIN rev /\ snap \in Snaps
  BY <1>1 DEF IInv
<1>7. /\ topo' = [x \in DOMAIN topo \cup {k} |-> IF x = k THEN snap ELSE topo[x]]
      /\ rev' = [s \in DOMAIN rev \cup {snap} |-> IF s = snap THEN k ELSE rev[s]]
      /\ pending' = NoSnap /\ seq' = seq
  BY <1>2 DEF Persist, writeTopology, K
<1>8. /\ IsFiniteSet(DOMAIN topo') /\ Cardinality(DOMAIN topo') = Used + 1
      /\ IsFiniteSet(DOMAIN rev') /\ Cardinality(DOMAIN rev') = Used + 1
  BY <1>5, <1>6, <1>7, FS_AddElement DEF IInv, Used
<1>9. DOMAIN topo' = {K(o) : o \in 0..Used}
  <2>1. DOMAIN topo' = DOMAIN topo \cup {k}
    BY <1>7
  <2>2. 0..Used = (0..(Used - 1)) \cup {Used}
    BY <1>4
  <2>. QED  BY <2>1, <2>2, <1>3
<1>. QED  BY <1>1, <1>2, <1>3, <1>4, <1>5, <1>6, <1>7, <1>8, <1>9

\* The commit keeps the invariant: the new keys are fresh, so the old
\* pairs of the two indexes are untouched and the new pair is inverse.
LEMMA PersistIInv ==
    ASSUME IInv, Persist
    PROVE  IInv'
<1>. DEFINE snap == pending.snap
            k == K(Used)
<1>1. /\ Used \in Nat /\ pending.order = Used /\ seq = Used + 1
      /\ k \notin DOMAIN topo /\ k \in Keys
      /\ snap \notin DOMAIN rev /\ snap \in Snaps
  BY PersistStep
<1>2. /\ topo' = [x \in DOMAIN topo \cup {k} |-> IF x = k THEN snap ELSE topo[x]]
      /\ rev' = [s \in DOMAIN rev \cup {snap} |-> IF s = snap THEN k ELSE rev[s]]
      /\ pending' = NoSnap /\ seq' = seq
  BY PersistStep
<1>3. /\ IsFiniteSet(DOMAIN topo') /\ Cardinality(DOMAIN topo') = Used + 1
      /\ IsFiniteSet(DOMAIN rev') /\ Cardinality(DOMAIN rev') = Used + 1
      /\ DOMAIN topo' = {K(o) : o \in 0..Used}
  BY PersistStep
<1>4. TypeOK'
  BY <1>1, <1>2 DEF IInv, TypeOK
<1>5. TopologyBijective'
  <2>1. ASSUME NEW x \in DOMAIN topo'
        PROVE  topo'[x] \in DOMAIN rev' /\ rev'[topo'[x]] = x
    <3>1. CASE x = k
      BY <3>1, <1>2
    <3>2. CASE x # k
      <4>1. x \in DOMAIN topo /\ topo'[x] = topo[x]
        BY <3>2, <1>2
      <4>2. topo[x] \in DOMAIN rev /\ rev[topo[x]] = x
        BY <4>1 DEF IInv, TopologyBijective
      <4>3. topo[x] # snap
        BY <4>2, <1>1
      <4>. QED  BY <4>1, <4>2, <4>3, <1>2
    <3>. QED  BY <3>1, <3>2
  <2>2. ASSUME NEW s \in DOMAIN rev'
        PROVE  rev'[s] \in DOMAIN topo' /\ topo'[rev'[s]] = s
    <3>1. CASE s = snap
      BY <3>1, <1>2
    <3>2. CASE s # snap
      <4>1. s \in DOMAIN rev /\ rev'[s] = rev[s]
        BY <3>2, <1>2
      <4>2. rev[s] \in DOMAIN topo /\ topo[rev[s]] = s
        BY <4>1 DEF IInv, TopologyBijective, readSnapshotWithTopo
      <4>3. rev[s] # k
        BY <4>2, <1>1
      <4>. QED  BY <4>1, <4>2, <4>3, <1>2
    <3>. QED  BY <3>1, <3>2
  <2>. QED  BY <2>1, <2>2 DEF TopologyBijective, readSnapshotWithTopo
<1>6. CounterIsNext'
  <2>1. (Used + 1) - 1 = Used
    BY <1>1
  <2>. QED  BY <1>1, <1>2, <1>3, <2>1 DEF CounterIsNext, K
<1>. QED  BY <1>2, <1>3, <1>4, <1>5, <1>6 DEF IInv

\* TopologySequence reads the counter back: the largest key of a dense
\* index of n orders is the key of n - 1, so the counter is n again.
LEMMA SequenceIsUsed ==
    ASSUME IInv
    PROVE  TopologySequence = Used
<1>1. Used \in Nat /\ Used < Width
  BY UsedBound
<1>2. DOMAIN topo = {K(o) : o \in 0..(Used - 1)}
  BY DEF IInv, CounterIsNext, Used, K
<1>3. CASE Used = 0
  <2>1. DOMAIN topo = {}
    BY <1>3, FS_EmptySet DEF IInv, Used
  <2>. QED  BY <1>3, <2>1 DEF TopologySequence
<1>4. CASE Used # 0
  <2>. DEFINE last == K(Used - 1)
              IsMax(x) == \A j \in DOMAIN topo : ~KeyLess(x, j)
  <2>1. Used - 1 \in Orders /\ last \in DOMAIN topo
    BY <1>1, <1>2, <1>4, WidthPos DEF Orders
  <2>2. IsMax(last)
    <3>. SUFFICES ASSUME NEW o \in 0..(Used - 1), KeyLess(last, K(o)) PROVE FALSE
      BY <1>2
    <3>1. o \in Orders
      BY <1>1, WidthPos DEF Orders
    <3>2. KeyLess(last, K(o)) <=> Used - 1 < o
      BY <2>1, <3>1, KeyFacts
    <3>. QED  BY <3>2, <1>1
  <2>3. ASSUME NEW c \in DOMAIN topo, IsMax(c) PROVE c = last
    <3>1. PICK o \in 0..(Used - 1) : c = K(o)
      BY <1>2
    <3>2. o \in Orders
      BY <1>1, WidthPos DEF Orders
    <3>3. ~(o < Used - 1)
      BY <2>1, <2>3, <3>1, <3>2, KeyFacts
    <3>. QED  BY <3>1, <3>3, <1>1
  <2>4. (CHOOSE x \in DOMAIN topo : IsMax(x)) = last
    BY <2>1, <2>2, <2>3
  <2>5. graphTopologyOrder(last) = Used - 1
    BY <2>1, EncodingAssumption DEF K
  <2>6. DOMAIN topo # {}
    BY <2>1
  <2>7. (Used - 1 + 1) % Width = Used
    BY <1>1, <1>4, WidthPos
  <2>. QED  BY <2>4, <2>5, <2>6, <2>7 DEF TopologySequence
<1>. QED  BY <1>3, <1>4

\* A restart keeps the store and reads the counter back from it.
LEMMA RestartIInv ==
    ASSUME IInv, Restart
    PROVE  IInv'
<1>1. seq' = Used /\ pending' = NoSnap /\ UNCHANGED <<topo, rev>>
  BY SequenceIsUsed DEF Restart
<1>2. Used \in Orders
  BY UsedBound, WidthPos DEF Orders
<1>3. DOMAIN topo = {graphTopologyKey(o) : o \in 0..(Used - 1)}
  BY DEF IInv, CounterIsNext, Used
<1>. QED  BY <1>1, <1>2, <1>3 DEF IInv, TypeOK, TopologyBijective, readSnapshotWithTopo, CounterIsNext, Used

\* Every step of the specification keeps the invariant.
LEMMA NextIInv == IInv /\ [Next]_vars => IInv'
<1>. SUFFICES ASSUME IInv, [Next]_vars PROVE IInv'
  OBVIOUS
<1>1. ASSUME NEW s \in Snaps, AssignOrder(s) PROVE IInv'
  BY <1>1, AssignIInv
<1>2. CASE Persist
  BY <1>2, PersistIInv
<1>3. CASE Restart
  BY <1>3, RestartIInv
<1>4. CASE UNCHANGED vars
  BY <1>4 DEF vars, IInv, TypeOK, TopologyBijective, readSnapshotWithTopo, CounterIsNext
<1>. QED  BY <1>1, <1>2, <1>3, <1>4 DEF Next

-----------------------------------------------------------------------------
(* The theorems.                                                           *)

\* The two indexes and the counter hold values of their kinds, whatever
\* the width of a key.
THEOREM TypeCorrect == Spec => []TypeOK
<1>1. IInv => TypeOK
  BY DEF IInv
<1>. QED  BY InitIInv, NextIInv, <1>1, PTL DEF Spec

\* Spec 8: writeTopology keeps the forward and the reverse index inverse to
\* each other, so readSnapshotWithTopo finds every indexed snapshot, across
\* crashes between taking an order and committing it.
THEOREM TopologyBijectiveHolds == Spec => []TopologyBijective
<1>1. IInv => TopologyBijective
  BY DEF IInv
<1>. QED  BY InitIInv, NextIInv, <1>1, PTL DEF Spec

\* The orders in the index are 0 .. n-1 and node.TopoCounter is the next
\* one, also after TopologySequence rebuilt it by a reverse seek at start-up.
THEOREM CounterIsNextHolds == Spec => []CounterIsNext
<1>1. IInv => CounterIsNext
  BY DEF IInv
<1>. QED  BY InitIInv, NextIInv, <1>1, PTL DEF Spec
-----------------------------------------------------------------------------
(* The refinement of TopologyLog.                                          *)

\* In a dense index the log is the snapshot at each order, with no holes.
LEMMA IndexLogDense ==
    ASSUME IInv
    PROVE  IndexLog = [i \in 1..Used |-> topo[K(i - 1)]]
<1>1. DOMAIN topo = {K(o) : o \in 0..(Used - 1)} /\ Used \in Nat
  BY UsedBound DEF IInv, CounterIsNext, Used, K
<1>2. \A i \in 1..Used : K(i - 1) \in DOMAIN topo
  BY <1>1
<1>. QED  BY <1>2 DEF IndexLog, Used, K

\* The empty index is the empty log.
LEMMA InitRefines == Init => TL!Init
<1>. SUFFICES ASSUME Init PROVE IndexLog = << >>
  BY DEF TL!Init
<1>1. Cardinality(DOMAIN topo) = 0
  BY FS_EmptySet DEF Init
<1>. QED  BY <1>1 DEF IndexLog

\* A commit appends the committed snapshot, which the log does not hold yet.
LEMMA PersistRefines ==
    ASSUME IInv, Persist
    PROVE  TL!Next
<1>. DEFINE snap == pending.snap
            k == K(Used)
<1>1. /\ Used \in Nat /\ Used \in Orders
      /\ k \notin DOMAIN topo
      /\ snap \notin DOMAIN rev /\ snap \in Snaps
      /\ topo' = [x \in DOMAIN topo \cup {k} |-> IF x = k THEN snap ELSE topo[x]]
      /\ Cardinality(DOMAIN topo') = Used + 1
      /\ DOMAIN topo' = {K(o) : o \in 0..Used}
  BY PersistStep
<1>2. IndexLog = [i \in 1..Used |-> topo[K(i - 1)]]
  BY IndexLogDense
<1>3. \A i \in 1..Used : K(i - 1) \in DOMAIN topo /\ K(i - 1) # k
  <2>1. DOMAIN topo = {K(o) : o \in 0..(Used - 1)}
    BY DEF IInv, CounterIsNext, Used, K
  <2>. QED  BY <2>1, <1>1
<1>4. IndexLog' = [i \in 1..(Used + 1) |-> IF i = Used + 1 THEN snap ELSE topo[K(i - 1)]]
  <2>1. IndexLog' = [i \in 1..(Used + 1) |->
                       IF K(i - 1) \in DOMAIN topo' THEN topo'[K(i - 1)] ELSE NoSnap]
    BY <1>1 DEF IndexLog, K
  <2>2. \A i \in 1..(Used + 1) : K(i - 1) \in DOMAIN topo'
    BY <1>1
  <2>3. ASSUME NEW i \in 1..(Used + 1)
        PROVE  topo'[K(i - 1)] = IF i = Used + 1 THEN snap ELSE topo[K(i - 1)]
    BY <1>1, <1>3
  <2>. QED  BY <2>1, <2>2, <2>3
<1>5. IndexLog' = Append(IndexLog, snap)
  BY <1>1, <1>2, <1>4
<1>6. \A i \in 1..Len(IndexLog) : IndexLog[i] # snap
  <2>1. \A i \in 1..Used : topo[K(i - 1)] \in DOMAIN rev
    BY <1>3 DEF IInv, TopologyBijective
  <2>. QED  BY <1>1, <1>2, <2>1
<1>. QED  BY <1>1, <1>5, <1>6 DEF TL!Next, TL!Append1

\* Taking an order and restarting leave the index, and so the log, alone.
LEMMA NextRefines ==
    ASSUME IInv, [Next]_vars
    PROVE  [TL!Next]_IndexLog
<1>1. CASE Persist
  BY <1>1, PersistRefines
<1>2. CASE UNCHANGED topo
  BY <1>2 DEF IndexLog
<1>. QED  BY <1>1, <1>2 DEF Next, AssignOrder, Restart, vars

\* The topology index implements the log of finalized snapshots: the index
\* read as the snapshots at orders 0, 1, ... only ever grows by the
\* snapshot just committed, which it did not hold, across every crash and
\* restart, so no reader sees an order rewritten or reused.
THEOREM TopologyRefinement == Spec => TopologyRefinesLog
<1>1. IInv /\ [Next]_vars => [TL!Next]_IndexLog
  BY NextRefines
<1>. QED  BY InitIInv, NextIInv, InitRefines, <1>1, PTL DEF Spec, TopologyRefinesLog, TL!Spec

-----------------------------------------------------------------------------
(* The forward read.                                                       *)

\* The keys of the orders a .. b.
KeysOf(a, b) == {K(o) : o \in a..b}

\* The keys of a run of consecutive orders are as many as the orders.
LEMMA KeyImage ==
    ASSUME NEW a \in Nat, NEW b \in Int, b < Width
    PROVE  /\ IsFiniteSet(KeysOf(a, b))
           /\ Cardinality(KeysOf(a, b)) = IF a > b THEN 0 ELSE b - a + 1
<1>. DEFINE f == [o \in a..b |-> K(o)]
<1>1. a..b \subseteq Orders
  BY WidthPos DEF Orders
<1>2. \A x, y \in a..b : K(x) = K(y) => x = y
  BY <1>1, KeyFacts
<1>3. f \in Bijection(a..b, KeysOf(a, b))
  BY <1>2 DEF Bijection, Injection, Surjection, IsInjective, KeysOf
<1>4. IsFiniteSet(a..b) /\ Cardinality(a..b) = IF a > b THEN 0 ELSE b - a + 1
  BY FS_Interval
<1>. QED  BY <1>3, <1>4, FS_Bijection DEF ExistsBijection

\* The keys ReadSnapshotsSinceTopology iterates over: those from the offset's
\* key upwards in byte order.
Since(offset) == {k \in DOMAIN topo : ~KeyLess(k, K(offset))}

\* In a dense index the keys from the offset are those of orders offset ..
\* Used - 1, and the key of order p has rank p - offset among them.
LEMMA SinceFacts ==
    ASSUME IInv, NEW offset \in Orders
    PROVE  /\ Since(offset) = KeysOf(offset, Used - 1)
           /\ IsFiniteSet(Since(offset))
           /\ Cardinality(Since(offset)) = IF offset > Used - 1 THEN 0 ELSE Used - offset
           /\ \A p \in offset..(Used - 1) : Rank(K(p), Since(offset)) = p - offset
<1>1. Used \in Nat /\ Used < Width /\ offset \in Nat
  BY UsedBound DEF Orders
<1>2. DOMAIN topo = KeysOf(0, Used - 1)
  BY DEF IInv, CounterIsNext, Used, K, KeysOf
<1>3. \A o \in 0..(Used - 1) : o \in Orders
  BY <1>1 DEF Orders
<1>4. Since(offset) = KeysOf(offset, Used - 1)
  <2>1. \A o \in 0..(Used - 1) : ~KeyLess(K(o), K(offset)) <=> offset <= o
    BY <1>3, KeyFacts DEF Orders
  <2>. QED  BY <1>1, <1>2, <2>1 DEF Since, KeysOf
<1>5. \A p \in offset..(Used - 1) : Rank(K(p), Since(offset)) = p - offset
  <2>1. SUFFICES ASSUME NEW p \in offset..(Used - 1)
                 PROVE  Rank(K(p), Since(offset)) = p - offset
    OBVIOUS
  <2>2. {j \in Since(offset) : KeyLess(j, K(p))} = KeysOf(offset, p - 1)
    <3>1. \A o \in offset..(Used - 1) : KeyLess(K(o), K(p)) <=> o < p
      BY <1>1, <1>3, KeyFacts DEF Orders
    <3>2. \A o \in Int : o \in offset..(p - 1) <=> o \in offset..(Used - 1) /\ o < p
      BY <1>1
    <3>. QED  BY <1>4, <3>1, <3>2 DEF KeysOf
  <2>3. Cardinality(KeysOf(offset, p - 1)) = p - offset
    <3>1. p - 1 \in Int /\ p - 1 < Width
      BY <1>1
    <3>. QED  BY <1>1, <3>1, KeyImage
  <2>. QED  BY <2>2, <2>3 DEF Rank
<1>6. IsFiniteSet(Since(offset))
      /\ Cardinality(Since(offset)) = IF offset > Used - 1 THEN 0 ELSE Used - offset
  <2>1. Used - 1 \in Int /\ Used - 1 < Width
    BY <1>1
  <2>2. IsFiniteSet(KeysOf(offset, Used - 1))
        /\ Cardinality(KeysOf(offset, Used - 1)) = IF offset > Used - 1 THEN 0 ELSE Used - offset
    BY <1>1, <2>1, KeyImage
  <2>. QED  BY <1>4, <2>2
<1>. QED  BY <1>4, <1>5, <1>6

\* ReadSnapshotsSinceTopology returns the window of the log from the offset.
LEMMA ReadWindow ==
    ASSUME IInv
    PROVE  ReadIsDenseWindow
<1>. SUFFICES ASSUME NEW offset \in 0..Cardinality(Snaps), NEW count \in 1..Cardinality(Snaps)
              PROVE  LET n == Len(IndexLog)
                         m == IF n <= offset THEN 0
                              ELSE IF n - offset < count THEN n - offset ELSE count
                     IN  ReadSnapshotsSinceTopology(offset, count) =
                           [i \in 1..m |-> [hash |-> IndexLog[offset + i], order |-> offset + i - 1]]
  BY DEF ReadIsDenseWindow
<1>1. Used \in Nat /\ Used < Width /\ Cardinality(Snaps) \in Nat /\ Cardinality(Snaps) < Width
  BY UsedBound, FS_CardinalityType
<1>2. offset \in Orders
  BY <1>1 DEF Orders
<1>. DEFINE S == Since(offset)
            n == IF Cardinality(S) < count THEN Cardinality(S) ELSE count
            m == IF Used <= offset THEN 0
                 ELSE IF Used - offset < count THEN Used - offset ELSE count
<1>3. /\ S = KeysOf(offset, Used - 1)
      /\ Cardinality(S) = IF offset > Used - 1 THEN 0 ELSE Used - offset
      /\ \A p \in offset..(Used - 1) : Rank(K(p), S) = p - offset
  BY <1>2, SinceFacts
<1>4. IndexLog = [i \in 1..Used |-> topo[K(i - 1)]]
  BY IndexLogDense
<1>5. n = m /\ m \in Nat /\ (m > 0 => offset + m <= Used)
  BY <1>1, <1>3
<1>6. ASSUME NEW i \in 1..m
      PROVE  (CHOOSE k \in S : Rank(k, S) = i - 1) = K(offset + i - 1)
  <2>1. offset + i - 1 \in offset..(Used - 1)
    BY <1>1, <1>5
  <2>2. \A k \in S : Rank(k, S) = i - 1 <=> k = K(offset + i - 1)
    <3>1. SUFFICES ASSUME NEW k \in S
                   PROVE  Rank(k, S) = i - 1 <=> k = K(offset + i - 1)
      OBVIOUS
    <3>2. PICK p \in offset..(Used - 1) : k = K(p)
      BY <1>3 DEF KeysOf
    <3>3. p \in Orders /\ offset + i - 1 \in Orders /\ Rank(k, S) = p - offset
      BY <1>1, <1>3, <2>1, <3>2 DEF Orders
    <3>4. K(p) = K(offset + i - 1) <=> p = offset + i - 1
      BY <3>3, KeyFacts
    <3>. QED  BY <1>1, <3>2, <3>3, <3>4
  <2>. QED  BY <2>1, <1>3, <2>2
<1>7. ASSUME NEW i \in 1..m
      PROVE  /\ topo[K(offset + i - 1)] = IndexLog[offset + i]
             /\ graphTopologyOrder(K(offset + i - 1)) = offset + i - 1
  <2>1. offset + i \in 1..Used /\ offset + i - 1 \in Orders
    BY <1>1, <1>5 DEF Orders
  <2>. QED  BY <1>4, <2>1 DEF K
<1>8. Len(IndexLog) = Used
  BY <1>1, <1>4
<1>. QED
  <2>1. ReadSnapshotsSinceTopology(offset, count) =
          [i \in 1..n |-> [hash |-> topo[CHOOSE k \in S : Rank(k, S) = i - 1],
                           order |-> graphTopologyOrder(CHOOSE k \in S : Rank(k, S) = i - 1)]]
    BY DEF ReadSnapshotsSinceTopology, Since, K
  <2>2. \A i \in 1..m :
          [hash |-> topo[CHOOSE k \in S : Rank(k, S) = i - 1],
           order |-> graphTopologyOrder(CHOOSE k \in S : Rank(k, S) = i - 1)]
          = [hash |-> IndexLog[offset + i], order |-> offset + i - 1]
    BY <1>6, <1>7
  <2>. QED  BY <2>1, <2>2, <1>5, <1>8

\* ReadSnapshotsSinceTopology always returns a dense window of the log,
\* each snapshot with its own order, from any offset and for any count,
\* in every reachable state and across every crash between taking an
\* order and committing it: a peer syncing from it never misses or repeats
\* a snapshot.
THEOREM ReadIsDenseWindowHolds == Spec => []ReadIsDenseWindow
<1>1. IInv => ReadIsDenseWindow
  BY ReadWindow
<1>. QED  BY InitIInv, NextIInv, <1>1, PTL DEF Spec
=============================================================================
