--------------------------- MODULE MintLockProofs ---------------------------
(***************************************************************************)
(* Proofs that MintLock is well typed and that a node's vote for a mint    *)
(* batch is unique, for every set of transactions and every number of     *)
(* batches.                                                                *)
(***************************************************************************)
EXTENDS MintLock, FiniteSetTheorems, TLAPS

USE MintAssumption

(***************************************************************************)
(* The inductive invariant.  VoteUnique alone is not inductive: a second   *)
(* vote is blocked only because the batch's lock still names the first     *)
(* vote, or names a finalized transaction, which is stored and so never    *)
(* cached again.  The fork path keeps this true because it only overrides  *)
(* a lock in favour of a transaction that is finalized at once.            *)
(***************************************************************************)
FinalizedLocked ==
    /\ finalized \subseteq stored
    /\ \A f \in finalized : mints[TxBatch[f]] = f

VoteLocked ==
    \A b \in Batches :
        voted[b] # {} =>
            \E v \in Txs : /\ voted[b] = {v}
                           /\ mints[b] = v \/ mints[b] \in finalized

\* A stored transaction that is not finalized still holds its batch's lock:
\* only a fork override takes a lock away, and it prunes the loser.  This is
\* what makes the early return for stored transactions safe.
StoredLocked ==
    \A t \in stored \ finalized : mints[TxBatch[t]] = t

IInv == TypeOK /\ FinalizedLocked /\ VoteLocked /\ StoredLocked

\* Without fork, LockMintInput succeeds only when the batch is free or
\* already locked by the same transaction; the lock then names it.
LEMMA LockWithoutFork ==
    ASSUME TypeOK, NEW b \in Batches, NEW tx \in Txs,
           LockMintInput(b, tx, FALSE).ok
    PROVE  /\ mints[b] \in {NoTx, tx}
           /\ LockMintInput(b, tx, FALSE).stored = stored
           /\ LockMintInput(b, tx, FALSE).mints = [mints EXCEPT ![b] = tx]
BY DEF LockMintInput, WriteMintDistribution, TypeOK

\* With fork, LockMintInput always succeeds and the lock names the new
\* transaction; only the transaction that held the lock leaves the store.
LEMMA LockWithFork ==
    ASSUME TypeOK, NEW b \in Batches, NEW tx \in Txs
    PROVE  /\ LockMintInput(b, tx, TRUE).mints = [mints EXCEPT ![b] = tx]
           /\ mints[b] \in {NoTx, tx} => LockMintInput(b, tx, TRUE).stored = stored
           /\ mints[b] \notin {NoTx, tx} =>
                 LockMintInput(b, tx, TRUE).stored = stored \ {mints[b]}
BY DEF LockMintInput, WriteMintDistribution, PruneTransaction, TypeOK

LEMMA InitIInv == Init => IInv
BY DEF Init, IInv, TypeOK, FinalizedLocked, VoteLocked, StoredLocked, Batches

LEMMA CacheIInv ==
    ASSUME IInv, NEW tx \in Txs, CacheMintSnapshot(tx)
    PROVE  IInv'
<1> DEFINE b == TxBatch[tx]
<1> DEFINE r == LockMintInput(b, tx, FALSE)
<1>1. b \in Batches
  BY DEF Batches
<1>2. /\ tx \notin stored
      /\ r.ok
      /\ mints' = r.mints
      /\ \/ stored' = r.stored \cup {tx} /\ voted' = [voted EXCEPT ![b] = @ \cup {tx}]
         \/ stored' = r.stored /\ voted' = voted
      /\ finalized' = finalized
  BY DEF CacheMintSnapshot
<1>3. tx \notin finalized
  BY <1>2 DEF IInv, FinalizedLocked
\* A lock held by another transaction makes the call fail without fork.
<1>4. /\ mints[b] \in {NoTx, tx}
      /\ r.stored = stored
      /\ r.mints = [mints EXCEPT ![b] = tx]
  BY <1>1, <1>2, LockWithoutFork DEF IInv
<1>5. /\ mints' = [mints EXCEPT ![b] = tx]
      /\ stored' \in {stored, stored \cup {tx}}
      /\ voted' \in {voted, [voted EXCEPT ![b] = @ \cup {tx}]}
      /\ finalized' = finalized
  BY <1>2, <1>4
<1>6. TypeOK'
  <2>1. mints' \in [Batches -> Txs \cup {NoTx}]
    BY <1>1, <1>5 DEF IInv, TypeOK
  <2>2. ASSUME NEW c \in Batches, mints'[c] # NoTx PROVE TxBatch[mints'[c]] = c
    <3>1. CASE c = b
      BY <1>1, <1>5, <3>1 DEF IInv, TypeOK
    <3>2. CASE c # b
      BY <1>1, <1>5, <2>2, <3>2 DEF IInv, TypeOK
    <3>3. QED
      BY <3>1, <3>2
  <2>3. voted' \in [Batches -> SUBSET Txs]
    BY <1>1, <1>5 DEF IInv, TypeOK
  <2>4. QED
    BY <1>5, <2>1, <2>2, <2>3 DEF IInv, TypeOK
<1>7. FinalizedLocked'
  <2>1. SUFFICES ASSUME NEW f \in finalized PROVE mints'[TxBatch[f]] = f
    BY <1>2, <1>4 DEF IInv, FinalizedLocked
  <2>2. TxBatch[f] # b
    BY <1>1, <1>3, <1>4 DEF IInv, FinalizedLocked, TypeOK
  <2>3. QED
    BY <1>5, <2>2 DEF IInv, FinalizedLocked, TypeOK
<1>8. VoteLocked'
  <2>1. SUFFICES ASSUME NEW c \in Batches, voted'[c] # {}
                 PROVE  \E v \in Txs : /\ voted'[c] = {v}
                                       /\ mints'[c] = v \/ mints'[c] \in finalized'
    BY DEF VoteLocked
  <2>2. CASE c # b
    <3>1. voted'[c] = voted[c] /\ mints'[c] = mints[c]
      BY <1>1, <1>5, <2>2 DEF IInv, TypeOK
    <3>2. QED
      BY <1>5, <2>1, <3>1 DEF IInv, VoteLocked
  <2>3. CASE c = b
    \* A vote on the batch would hold the lock, which is NoTx or tx.
    <3>1. voted[b] = {} \/ voted[b] = {tx}
      BY <1>1, <1>3, <1>4 DEF IInv, VoteLocked, TypeOK
    <3>2. voted'[b] \subseteq {tx}
      BY <1>1, <1>5, <3>1 DEF IInv, TypeOK
    <3>3. mints'[b] = tx
      BY <1>1, <1>5 DEF IInv, TypeOK
    <3>4. QED
      BY <2>1, <2>3, <3>2, <3>3
  <2>4. QED
    BY <2>2, <2>3
<1>9. StoredLocked'
  <2>1. SUFFICES ASSUME NEW t \in stored' \ finalized' PROVE mints'[TxBatch[t]] = t
    BY DEF StoredLocked
  <2>2. CASE t = tx
    BY <1>1, <1>5, <2>2 DEF IInv, TypeOK
  \* Another stored transaction of this batch would hold the lock.
  <2>3. CASE t # tx
    <3>1. t \in stored \ finalized /\ TxBatch[t] \in Batches
      BY <1>5, <2>1, <2>3 DEF IInv, TypeOK
    <3>2. mints[TxBatch[t]] = t
      BY <3>1 DEF IInv, StoredLocked
    <3>3. TxBatch[t] # b
      BY <1>4, <2>3, <3>1, <3>2 DEF IInv, TypeOK
    <3>4. QED
      BY <1>1, <1>5, <3>1, <3>2, <3>3 DEF IInv, TypeOK
  <2>4. QED
    BY <2>2, <2>3
<1>10. QED
  BY <1>6, <1>7, <1>8, <1>9 DEF IInv

LEMMA FinalizeIInv ==
    ASSUME IInv, NEW tx \in Txs, FinalizeMintSnapshot(tx)
    PROVE  IInv'
<1> DEFINE b == TxBatch[tx]
<1> DEFINE r == LockMintInput(b, tx, TRUE)
<1>1. b \in Batches
  BY DEF Batches
<1>2. /\ \A f \in finalized : TxBatch[f] = b => f = tx
      /\ mints' = r.mints
      /\ stored' = r.stored \cup {tx}
      /\ finalized' = finalized \cup {tx}
      /\ voted' = voted
  BY DEF FinalizeMintSnapshot
\* With fork the call always succeeds: the batch's lock becomes tx, and only
\* the transaction that held it may leave the store.
<1>3. /\ r.mints = [mints EXCEPT ![b] = tx]
      /\ mints[b] \in {NoTx, tx} => r.stored = stored
      /\ mints[b] \notin {NoTx, tx} => r.stored = stored \ {mints[b]}
  BY <1>1, LockWithFork DEF IInv
<1>4. TypeOK'
  <2>1. mints' \in [Batches -> Txs \cup {NoTx}]
    BY <1>1, <1>2, <1>3 DEF IInv, TypeOK
  <2>2. ASSUME NEW c \in Batches, mints'[c] # NoTx PROVE TxBatch[mints'[c]] = c
    <3>1. CASE c = b
      BY <1>1, <1>2, <1>3, <3>1 DEF IInv, TypeOK
    <3>2. CASE c # b
      BY <1>1, <1>2, <1>3, <2>2, <3>2 DEF IInv, TypeOK
    <3>3. QED
      BY <3>1, <3>2
  <2>3. stored' \subseteq Txs
    BY <1>2, <1>3 DEF IInv, TypeOK
  <2>4. QED
    BY <1>2, <2>1, <2>2, <2>3 DEF IInv, TypeOK
\* The transaction that lost its lock was not finalized.
<1>5. mints[b] \in finalized => mints[b] = tx
  BY <1>1, <1>2 DEF IInv, TypeOK
<1>6. FinalizedLocked'
  <2>1. finalized' \subseteq stored'
    BY <1>2, <1>3, <1>5 DEF IInv, FinalizedLocked
  <2>2. ASSUME NEW f \in finalized' PROVE mints'[TxBatch[f]] = f
    <3>1. CASE f = tx
      BY <1>1, <1>2, <1>3, <3>1 DEF IInv, TypeOK
    <3>2. CASE f # tx
      BY <1>1, <1>2, <1>3, <3>2 DEF IInv, TypeOK, FinalizedLocked
    <3>3. QED
      BY <3>1, <3>2
  <2>3. QED
    BY <2>1, <2>2 DEF FinalizedLocked
<1>7. VoteLocked'
  <2>1. SUFFICES ASSUME NEW c \in Batches, voted'[c] # {}
                 PROVE  \E v \in Txs : /\ voted'[c] = {v}
                                       /\ mints'[c] = v \/ mints'[c] \in finalized'
    BY DEF VoteLocked
  <2>2. PICK v \in Txs : /\ voted[c] = {v}
                         /\ mints[c] = v \/ mints[c] \in finalized
    BY <1>2, <2>1 DEF IInv, VoteLocked
  <2>3. CASE c = b
    BY <1>1, <1>2, <1>3, <2>2, <2>3 DEF IInv, TypeOK
  <2>4. CASE c # b
    BY <1>1, <1>2, <1>3, <2>2, <2>4 DEF IInv, TypeOK
  <2>5. QED
    BY <2>3, <2>4
<1>8. StoredLocked'
  <2>1. SUFFICES ASSUME NEW t \in stored' \ finalized' PROVE mints'[TxBatch[t]] = t
    BY DEF StoredLocked
  <2>2. t # tx /\ t \in r.stored
    BY <1>2, <2>1
  <2>3. t \in stored \ finalized /\ TxBatch[t] \in Batches
    BY <1>2, <1>3, <2>2 DEF IInv, TypeOK
  <2>4. mints[TxBatch[t]] = t
    BY <2>3 DEF IInv, StoredLocked
  \* The fork would have pruned t had it held this batch's lock.
  <2>5. TxBatch[t] # b
    <3>1. t \in Txs
      BY <2>3 DEF IInv, TypeOK
    <3>2. SUFFICES ASSUME TxBatch[t] = b PROVE FALSE
      OBVIOUS
    <3>3. mints[b] = t /\ t \notin {NoTx, tx}
      BY <2>2, <2>4, <3>1, <3>2
    <3>4. r.stored = stored \ {t}
      BY <1>3, <3>3
    <3>5. QED
      BY <2>2, <3>4
  <2>6. QED
    BY <1>1, <1>2, <1>3, <2>3, <2>4, <2>5 DEF IInv, TypeOK
<1>9. QED
  BY <1>4, <1>6, <1>7, <1>8 DEF IInv

\* Signing a stored transaction again changes only the votes, and the vote
\* goes to the transaction that holds the lock.
LEMMA CacheStoredIInv ==
    ASSUME IInv, NEW tx \in Txs, CacheStoredMintSnapshot(tx)
    PROVE  IInv'
<1> DEFINE b == TxBatch[tx]
<1>1. b \in Batches
  BY DEF Batches
<1>2. /\ tx \in stored \ finalized
      /\ voted' = [voted EXCEPT ![b] = @ \cup {tx}]
      /\ UNCHANGED <<mints, stored, finalized>>
  BY DEF CacheStoredMintSnapshot
<1>3. mints[b] = tx
  BY <1>2 DEF IInv, StoredLocked
<1>4. TypeOK'
  BY <1>1, <1>2 DEF IInv, TypeOK
<1>5. VoteLocked'
  <2>1. SUFFICES ASSUME NEW c \in Batches, voted'[c] # {}
                 PROVE  \E v \in Txs : /\ voted'[c] = {v}
                                       /\ mints'[c] = v \/ mints'[c] \in finalized'
    BY DEF VoteLocked
  <2>2. CASE c # b
    BY <1>1, <1>2, <2>1, <2>2 DEF IInv, TypeOK, VoteLocked
  \* An earlier vote on the batch can only be tx: the lock is tx and tx is
  \* not finalized.
  <2>3. CASE c = b
    <3>1. voted[b] = {} \/ voted[b] = {tx}
      BY <1>1, <1>2, <1>3 DEF IInv, VoteLocked, TypeOK
    <3>2. voted'[b] = {tx}
      BY <1>1, <1>2, <3>1 DEF IInv, TypeOK
    <3>3. QED
      BY <1>2, <1>3, <2>3, <3>2
  <2>4. QED
    BY <2>2, <2>3
<1>6. QED
  BY <1>2, <1>4, <1>5 DEF IInv, FinalizedLocked, StoredLocked

LEMMA NextIInv == IInv /\ [Next]_vars => IInv'
<1> SUFFICES ASSUME IInv, [Next]_vars PROVE IInv'
  OBVIOUS
<1>1. ASSUME NEW tx \in Txs, CacheMintSnapshot(tx) PROVE IInv'
  BY <1>1, CacheIInv
<1>2. ASSUME NEW tx \in Txs, FinalizeMintSnapshot(tx) PROVE IInv'
  BY <1>2, FinalizeIInv
<1>3. ASSUME NEW tx \in Txs, CacheStoredMintSnapshot(tx) PROVE IInv'
  BY <1>3, CacheStoredIInv
<1>4. CASE UNCHANGED vars
  BY <1>4 DEF vars, IInv, TypeOK, FinalizedLocked, VoteLocked, StoredLocked
<1>5. QED
  BY <1>1, <1>2, <1>3, <1>4 DEF Next

\* Every reachable state of the mint locks is well typed.
THEOREM TypeCorrect == Spec => []TypeOK
<1>1. IInv => TypeOK
  BY DEF IInv
<1>2. QED
  BY InitIInv, NextIInv, <1>1, PTL DEF Spec

\* A node votes for at most one mint transaction per batch, whatever the
\* order of announcements, failed writes and finalizations (VoteUnique,
\* checked by the mint_locks run).
THEOREM VoteUniqueHolds == Spec => []VoteUnique
<1>1. IInv => VoteUnique
  <2> SUFFICES ASSUME IInv, NEW b \in Batches PROVE Cardinality(voted[b]) <= 1
    BY DEF VoteUnique
  <2>1. CASE voted[b] = {}
    BY <2>1, FS_EmptySet
  <2>2. CASE voted[b] # {}
    <3>1. PICK v \in Txs : voted[b] = {v}
      BY <2>2 DEF IInv, VoteLocked
    <3>2. Cardinality({v}) = 1
      BY FS_Singleton
    <3>3. QED
      BY <3>1, <3>2
  <2>3. QED
    BY <2>1, <2>2
<1>2. QED
  BY InitIInv, NextIInv, <1>1, PTL DEF Spec
=============================================================================
