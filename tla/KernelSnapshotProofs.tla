------------------------ MODULE KernelSnapshotProofs ------------------------
(***************************************************************************)
(* Proofs that checkCacheSnapshotTransaction keeps the store free of       *)
(* double spends, for every set of transactions, inputs and nodes.        *)
(*                                                                         *)
(* TypeOK /\ StoredTxLocked is inductive by itself: a call that writes a  *)
(* transaction has just locked all its inputs, and it locks them only     *)
(* when none is held by another transaction, so it never takes an input   *)
(* away from a stored transaction.                                         *)
(***************************************************************************)
EXTENDS KernelSnapshot, TLAPS

USE KernelSnapshotAssumption

IInv == TypeOK /\ StoredTxLocked

\* The initial state has an empty store and no locks.
LEMMA InitIInv == Init => IInv
BY DEF Init, IInv, TypeOK, StoredTxLocked

\* LockInputs keeps the lock of every stored transaction when no input of
\* tx is held by another transaction, and gives tx all its inputs.
LEMMA LockKeepsStored ==
    ASSUME TypeOK, StoredTxLocked, NEW tx \in Txs, ~LockFails(tx)
    PROVE  /\ LockInputs(tx) \in [Inputs -> Txs \cup {None}]
           /\ \A t \in stored : \A i \in TxInputs[t] : LockInputs(tx)[i] = t
           /\ \A i \in TxInputs[tx] : LockInputs(tx)[i] = tx
<1>1. LockInputs(tx) \in [Inputs -> Txs \cup {None}]
  BY DEF LockInputs, TypeOK
<1>2. ASSUME NEW t \in stored, NEW i \in TxInputs[t]
      PROVE  LockInputs(tx)[i] = t
  <2>1. locks[i] = t
    BY <1>2 DEF StoredTxLocked
  <2>2. i \in Inputs /\ t \in Txs
    BY <1>2 DEF TypeOK
  <2>3. CASE i \in TxInputs[tx]
    <3>1. t \in {None, tx}
      BY <2>1, <2>3 DEF LockFails
    <3>2. t = tx
      BY <3>1, <2>2
    <3>. QED  BY <2>2, <2>3, <3>2 DEF LockInputs
  <2>4. CASE i \notin TxInputs[tx]
    BY <2>1, <2>2, <2>4 DEF LockInputs
  <2>. QED  BY <2>3, <2>4
<1>3. \A i \in TxInputs[tx] : LockInputs(tx)[i] = tx
  BY DEF LockInputs
<1>. QED  BY <1>1, <1>2, <1>3

\* One call of checkCacheSnapshotTransaction keeps the invariant.
LEMMA CheckIInv ==
    ASSUME IInv, NEW s \in Snapshots, checkCacheSnapshotTransaction(s)
    PROVE  IInv'
<1>. DEFINE tx == s.transaction
<1>1. tx \in Txs
  BY DEF Snapshots
<1>2. PICK readOk, cacheOk, valid, typedOk, writeOk \in BOOLEAN :
        IF ~readOk THEN Done(Return(None, FALSE, TRUE))
        ELSE IF tx \in stored
        THEN Done(Return(tx, tx \in finalized, validateKernelSnapshot(s, tx, typedOk)))
        ELSE IF ~cacheOk \/ tx \notin cache THEN Done(Return(None, FALSE, ~cacheOk))
        ELSE IF ~valid \/ validateKernelSnapshot(s, tx, typedOk) \/ LockFails(tx)
        THEN Done(Return(None, FALSE, TRUE))
        ELSE /\ locks' = LockInputs(tx)
             /\ stored' = IF writeOk THEN stored \cup {tx} ELSE stored
             /\ result' = Return(tx, FALSE, ~writeOk)
             /\ UNCHANGED <<finalized, cache>>
  BY DEF checkCacheSnapshotTransaction
<1>3. validateKernelSnapshot(s, tx, typedOk) \in BOOLEAN
  BY DEF validateKernelSnapshot
\* An early return keeps the invariant: it changes only the result.
<1>4. ASSUME NEW r \in Results, Done(r) PROVE IInv'
  BY <1>4 DEF Done, IInv, TypeOK, StoredTxLocked
<1>5. CASE ~readOk
  BY <1>2, <1>4, <1>5 DEF Return, Results
<1>6. CASE readOk /\ tx \in stored
  <2>1. Return(tx, tx \in finalized, validateKernelSnapshot(s, tx, typedOk)) \in Results
    BY <1>1, <1>3 DEF Return, Results
  <2>2. Done(Return(tx, tx \in finalized, validateKernelSnapshot(s, tx, typedOk)))
    BY <1>2, <1>6
  <2>. QED  BY <2>1, <2>2, <1>4
<1>7. CASE readOk /\ tx \notin stored /\ (~cacheOk \/ tx \notin cache)
  BY <1>2, <1>4, <1>7 DEF Return, Results
<1>8. CASE /\ readOk /\ tx \notin stored /\ cacheOk /\ tx \in cache
           /\ (~valid \/ validateKernelSnapshot(s, tx, typedOk) \/ LockFails(tx))
  BY <1>2, <1>4, <1>8 DEF Return, Results
<1>9. CASE /\ readOk /\ tx \notin stored /\ cacheOk /\ tx \in cache
           /\ ~(~valid \/ validateKernelSnapshot(s, tx, typedOk) \/ LockFails(tx))
  <2>1. /\ locks' = LockInputs(tx)
        /\ stored' = IF writeOk THEN stored \cup {tx} ELSE stored
        /\ result' = Return(tx, FALSE, ~writeOk)
        /\ UNCHANGED <<finalized, cache>>
    BY <1>2, <1>9
  <2>2. ~LockFails(tx)
    BY <1>9
  <2>3. /\ LockInputs(tx) \in [Inputs -> Txs \cup {None}]
        /\ \A t \in stored : \A i \in TxInputs[t] : LockInputs(tx)[i] = t
        /\ \A i \in TxInputs[tx] : LockInputs(tx)[i] = tx
    BY <1>1, <2>2, LockKeepsStored DEF IInv
  <2>4. TypeOK'
    BY <1>1, <2>1, <2>3 DEF IInv, TypeOK, Return, Results
  <2>5. StoredTxLocked'
    BY <2>1, <2>3 DEF StoredTxLocked
  <2>. QED  BY <2>4, <2>5 DEF IInv
<1>. QED  BY <1>5, <1>6, <1>7, <1>8, <1>9

\* Every step of the specification keeps the invariant.
LEMMA NextIInv == IInv /\ [Next]_vars => IInv'
<1>. SUFFICES ASSUME IInv, [Next]_vars PROVE IInv'
  OBVIOUS
<1>1. ASSUME NEW s \in Snapshots, checkCacheSnapshotTransaction(s) PROVE IInv'
  BY <1>1, CheckIInv
<1>2. ASSUME NEW tx \in Txs, CachePutTransaction(tx) PROVE IInv'
  BY <1>2 DEF CachePutTransaction, IInv, TypeOK, StoredTxLocked
<1>3. ASSUME NEW tx \in Txs, CacheEvict(tx) PROVE IInv'
  BY <1>3 DEF CacheEvict, IInv, TypeOK, StoredTxLocked
<1>4. ASSUME NEW tx \in Txs, Finalize(tx) PROVE IInv'
  BY <1>4 DEF Finalize, IInv, TypeOK, StoredTxLocked
<1>5. CASE UNCHANGED vars
  BY <1>5 DEF vars, IInv, TypeOK, StoredTxLocked
<1>. QED  BY <1>1, <1>2, <1>3, <1>4, <1>5 DEF Next

\* checkCacheSnapshotTransaction and the cache keep every variable in its
\* type, for every set of transactions, inputs and nodes.
THEOREM TypeCorrect == Spec => []TypeOK
<1>1. IInv => TypeOK
  BY DEF IInv
<1>. QED  BY InitIInv, NextIInv, <1>1, PTL DEF Spec

\* No two transactions in the store spend one input: each holds the locks
\* of all its inputs, whatever store calls fail and in whatever order
\* conflicting transactions are checked.
THEOREM StoredTxLockedHolds == Spec => []StoredTxLocked
<1>1. IInv => StoredTxLocked
  BY DEF IInv
<1>. QED  BY InitIInv, NextIInv, <1>1, PTL DEF Spec
=============================================================================
