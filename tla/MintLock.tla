------------------------------ MODULE MintLock ------------------------------
(***************************************************************************)
(* The mint-distribution locks of one node's store (src/storage/          *)
(* badger_mint.go) and the kernel steps that use them.                     *)
(*                                                                         *)
(* A mint transaction distributes one batch of a mint group.  The store    *)
(* keeps, per batch, the transaction that holds the batch's lock           *)
(* (graphMintKey(group, batch) -> MintDistribution).  A node takes the     *)
(* lock with fork = FALSE when it caches the transaction of a snapshot it  *)
(* is asked to sign (self.go checkCacheSnapshotTransaction), and with      *)
(* fork = TRUE when a finalized snapshot overrides an earlier lock; the    *)
(* overridden transaction is pruned.  A mint distribution is final once    *)
(* the finalization key of its transaction exists.                         *)
(*                                                                         *)
(* One mint group is modelled: every key of the store has the same group  *)
(* prefix.  The amount of a distribution is part of its transaction's      *)
(* payload, so two locks of one transaction never differ in amount, and    *)
(* the amount comparison of LockMintInput is folded into the comparison of *)
(* transactions.                                                           *)
(***************************************************************************)
EXTENDS Naturals, Sequences, FiniteSets

CONSTANTS
    Txs,        \* hashes of mint transactions
    TxBatch,    \* the batch a mint transaction distributes (part of its payload)
    MaxBatch,   \* highest batch number modelled
    NoTx        \* an empty lock

Batches == 1..MaxBatch

ASSUME MintAssumption ==
    /\ MaxBatch \in Nat \ {0}
    /\ TxBatch \in [Txs -> Batches]
    /\ NoTx \notin Txs

VARIABLES
    mints,      \* batch -> transaction holding the lock, NoTx if none
    stored,     \* transactions written to the store and not pruned
    finalized,  \* transactions whose finalization key exists
    voted       \* batch -> transactions this node accepted to sign (history)

vars == <<mints, stored, finalized, voted>>

-----------------------------------------------------------------------------
(* Store operations.                                                       *)

\* writeMintDistribution: set the lock key of the batch.
WriteMintDistributionNextKey(m, b, tx) ==
    [c \in DOMAIN m \cup {b + 1} |-> IF c = b + 1 THEN tx ELSE m[c]]
WriteMintDistribution(m, b, tx) == [m EXCEPT ![b] = tx]

\* pruneTransaction (store code outside this repository): the transaction
\* is removed from the store; its finalization key is not touched.
PruneTransaction(st, tx) == st \ {tx}

\* The outcomes of LockMintInput(mint, tx, fork) as one badger Update: the
\* new <<mints, stored>>, or the error the caller sees (nothing committed).
LockMintInputDropForkCheck(b, tx, fork) ==
    IF mints[b] = NoTx THEN [ok |-> TRUE, mints |-> WriteMintDistribution(mints, b, tx), stored |-> stored]
    ELSE IF mints[b] = tx THEN [ok |-> TRUE, mints |-> mints, stored |-> stored]
    ELSE [ok |-> TRUE, mints |-> WriteMintDistribution(mints, b, tx),
          stored |-> PruneTransaction(stored, mints[b])]
LockMintInput(b, tx, fork) ==
    IF mints[b] = NoTx
    THEN [ok |-> TRUE, mints |-> WriteMintDistribution(mints, b, tx), stored |-> stored]
    ELSE IF mints[b] = tx
    THEN [ok |-> TRUE, mints |-> mints, stored |-> stored]
    ELSE IF ~fork
    THEN [ok |-> FALSE, mints |-> mints, stored |-> stored]
    ELSE [ok |-> TRUE, mints |-> WriteMintDistribution(mints, b, tx),
          stored |-> PruneTransaction(stored, mints[b])]

\* ReadLastMintDistribution: iterate the batches downwards and stop at the
\* first one whose transaction is finalized; batch 0 when there is none.
FinalizedBatches == {b \in Batches : mints[b] \in finalized}
ReadLastMintDistributionUnfiltered ==
    LET locked == {b \in Batches : mints[b] # NoTx}
    IN  IF locked = {} THEN 0 ELSE CHOOSE b \in locked : \A c \in locked : c <= b
ReadLastMintDistribution ==
    IF FinalizedBatches = {} THEN 0
    ELSE CHOOSE b \in FinalizedBatches : \A c \in FinalizedBatches : c <= b

\* ReadMintDistributions(offset, count): the batches from offset upwards
\* whose transaction is still stored and finalized, at most count of them.
ReadMintDistributions(offset, count) ==
    LET keys  == [i \in 1..(MaxBatch + 1 - offset) |-> offset + i - 1]
        Shown(b) == mints[b] \in stored /\ mints[b] \in finalized
        found == SelectSeq(keys, Shown)
    IN  SubSeq(found, 1, IF Len(found) < count THEN Len(found) ELSE count)

-----------------------------------------------------------------------------
(* Kernel steps.                                                           *)

Init ==
    /\ mints = [b \in Batches |-> NoTx]
    /\ stored = {}
    /\ finalized = {}
    /\ voted = [b \in Batches |-> {}]

\* checkCacheSnapshotTransaction for a mint snapshot whose transaction is
\* only in the cache: the mint must be the next expected batch (kernel,
\* spec 4.4), then LockInputs takes the mint lock without fork and
\* WriteTransaction stores the transaction in a second store transaction,
\* which can fail after the lock has committed.  Only a full success lets
\* the node go on to sign (commit to) the snapshot.
CacheMintSnapshot(tx) ==
    LET b == TxBatch[tx]
        r == LockMintInput(b, tx, FALSE)
    IN  /\ tx \notin stored
        /\ b = ReadLastMintDistribution + 1
        /\ r.ok
        /\ mints' = r.mints
        /\ \/ /\ stored' = r.stored \cup {tx}
              /\ voted' = [voted EXCEPT ![b] = @ \cup {tx}]
           \/ /\ stored' = r.stored
              /\ UNCHANGED voted
        /\ UNCHANGED finalized

\* checkCacheSnapshotTransaction for a mint snapshot whose transaction is
\* already in the store and not finalized: it is validated again (the mint
\* must still be the next batch) and returned without taking the lock again,
\* so the node signs it again.  A finalized one is returned as final, and
\* the node does not sign.
CacheStoredMintSnapshot(tx) ==
    /\ tx \in stored
    /\ tx \notin finalized
    /\ TxBatch[tx] = ReadLastMintDistribution + 1
    /\ voted' = [voted EXCEPT ![TxBatch[tx]] = @ \cup {tx}]
    /\ UNCHANGED <<mints, stored, finalized>>

\* A finalized snapshot of a mint transaction (kernel, spec 4.4 step 5):
\* the lock is taken with fork, overriding a lock of another transaction,
\* then the transaction and its finalization key are written.  The
\* signatures of a threshold of nodes make it the only transaction of its
\* batch that is ever finalized.  Finalizations are re-sent once the
\* sender's de-duplication cache expires, so one can arrive again.
FinalizeMintSnapshot(tx) ==
    LET b == TxBatch[tx]
        r == LockMintInput(b, tx, TRUE)
    IN  /\ \A f \in finalized : TxBatch[f] = b => f = tx
        /\ mints' = r.mints
        /\ stored' = r.stored \cup {tx}
        /\ finalized' = finalized \cup {tx}
        /\ UNCHANGED voted

Next ==
    \E tx \in Txs :
        CacheMintSnapshot(tx) \/ CacheStoredMintSnapshot(tx) \/ FinalizeMintSnapshot(tx)

Spec == Init /\ [][Next]_vars

-----------------------------------------------------------------------------
(* Properties.                                                             *)

\* Every lock names a transaction of its own batch or nothing, and the
\* other variables hold mint transactions.
TypeOK ==
    /\ mints \in [Batches -> Txs \cup {NoTx}]
    /\ \A b \in Batches : mints[b] # NoTx => TxBatch[mints[b]] = b
    /\ stored \subseteq Txs
    /\ finalized \subseteq Txs
    /\ voted \in [Batches -> SUBSET Txs]

\* The mint lock makes a node's vote unique: whatever order announcements,
\* store failures and finalizations of other transactions arrive in, a
\* node agrees to sign at most one mint transaction per batch.  With the
\* quorum intersection of the consensus threshold this is what keeps two
\* distributions of one batch from both being finalized.
VoteUnique == \A b \in Batches : Cardinality(voted[b]) <= 1

\* ReadLastMintDistribution (reverse scan, finalization key only) and
\* ReadMintDistributions (forward scan, stored and finalized) agree on the
\* last final batch: the fork path never prunes a finalized distribution.
LastMintAgrees ==
    LET listed == ReadMintDistributions(1, MaxBatch)
    IN  ReadLastMintDistribution = IF listed = <<>> THEN 0 ELSE listed[Len(listed)]
=============================================================================
