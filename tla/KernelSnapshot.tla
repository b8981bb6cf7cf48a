--------------------------- MODULE KernelSnapshot ---------------------------
(***************************************************************************)
(* checkCacheSnapshotTransaction and validateKernelSnapshot                *)
(* (src/kernel/self.go:12-74): what the action loop does with the          *)
(* transaction of a snapshot it is asked to sign.                          *)
(*                                                                         *)
(* A transaction already in the store is validated against the snapshot    *)
(* and returned.  Otherwise it is taken from the cache tier, validated,   *)
(* its inputs are locked (LockInputs), and it is written (WriteTransaction)*)
(* in a second, separate store call.  The action loop is single-threaded  *)
(* (spec 5), so one call is one step; its store calls can each fail, and  *)
(* a crash between the two is the same as a failed write.                 *)
(*                                                                         *)
(* LockInputs and the per-type validators are not under src/: LockInputs  *)
(* is modelled from spec 4.2 (it consumes the inputs and refuses a double *)
(* spend when fork is false), and the verdicts of tx.Validate and of the  *)
(* type-specific validators are nondeterministic.  The cache tier gains   *)
(* transactions from peers and loses them to eviction (spec 5, Memory).   *)
(***************************************************************************)
EXTENDS Naturals, FiniteSets

CONSTANTS
    Txs,        \* transaction hashes
    Inputs,     \* UTXO inputs
    TxInputs,   \* Txs -> SUBSET Inputs
    TxType,     \* Txs -> TxTypes
    Nodes,      \* node ids
    Self,       \* node.IdForNetwork
    None        \* a nil transaction, an unlocked input

TxTypes == {"Script", "Mint", "NodePledge", "NodeCancel", "NodeAccept"}

ASSUME KernelSnapshotAssumption ==
    /\ TxInputs \in [Txs -> SUBSET Inputs]
    /\ TxType \in [Txs -> TxTypes]
    /\ Self \in Nodes
    /\ None \notin Txs

\* The snapshots the node may be asked about: a node, a round, a transaction.
Snapshots == [nodeId : Nodes, roundNumber : {0, 1}, transaction : Txs]

\* The return value (tx, finalized, err) of checkCacheSnapshotTransaction.
Results == [tx : Txs \cup {None}, finalized : BOOLEAN, err : BOOLEAN]

VARIABLES
    stored,     \* transactions the store holds (ReadTransaction finds)
    finalized,  \* transactions with a finalization marker
    cache,      \* transactions in the cache tier
    locks,      \* input -> the transaction that locked it, or None
    result      \* what the last call returned, or None

vars == <<stored, finalized, cache, locks, result>>

-----------------------------------------------------------------------------

\* validateKernelSnapshot (self.go:43-74).  typedOk is the verdict of the
\* validator of the transaction's type, for the four types that have one.
validateKernelSnapshot(s, tx, typedOk) ==
    \/ TxType[tx] \in {"Mint", "NodePledge", "NodeCancel", "NodeAccept"} /\ ~typedOk
    \/ s.nodeId # Self /\ s.roundNumber = 0 /\ TxType[tx] # "NodeAccept"

\* LockInputs(tx, false) (spec 4.2): refused when an input is locked by
\* another transaction, otherwise every input is locked by tx.
LockFailsIgnored(tx) == FALSE
LockFails(tx) == \E i \in TxInputs[tx] : locks[i] \notin {None, tx}
LockInputs(tx) == [i \in Inputs |-> IF i \in TxInputs[tx] THEN tx ELSE locks[i]]

Return(tx, fin, err) == [tx |-> tx, finalized |-> fin, err |-> err]

\* An early return: nothing in the store changes.
Done(r) ==
    /\ result' = r
    /\ UNCHANGED <<stored, finalized, cache, locks>>

\* checkCacheSnapshotTransaction (self.go:12-41).  readOk, cacheOk and
\* writeOk are the outcomes of the store calls, valid that of tx.Validate.
checkCacheSnapshotTransaction(s) ==
    \E readOk, cacheOk, valid, typedOk, writeOk \in BOOLEAN :
        LET tx == s.transaction
        IN  IF ~readOk THEN Done(Return(None, FALSE, TRUE))
            ELSE IF tx \in stored
            THEN Done(Return(tx, tx \in finalized, validateKernelSnapshot(s, tx, typedOk)))
            ELSE IF ~cacheOk \/ tx \notin cache THEN Done(Return(None, FALSE, ~cacheOk))
            ELSE IF ~valid \/ validateKernelSnapshot(s, tx, typedOk) \/ LockFails(tx)
            THEN Done(Return(None, FALSE, TRUE))
            ELSE /\ locks' = LockInputs(tx)
                 /\ stored' = IF writeOk THEN stored \cup {tx} ELSE stored
                 /\ result' = Return(tx, FALSE, ~writeOk)
                 /\ UNCHANGED <<finalized, cache>>

\* CachePutTransaction (node.go:334-336): a peer hands over a transaction.
CachePutTransaction(tx) ==
    /\ cache' = cache \cup {tx}
    /\ UNCHANGED <<stored, finalized, locks, result>>

\* The cache tier evicts an entry (LRU or TTL).
CacheEvict(tx) ==
    /\ tx \in cache
    /\ cache' = cache \ {tx}
    /\ UNCHANGED <<stored, finalized, locks, result>>

\* A snapshot with a stored transaction is finalized elsewhere.
FinalizeUnstored(tx) ==
    /\ tx \notin finalized
    /\ finalized' = finalized \cup {tx}
    /\ UNCHANGED <<stored, cache, locks, result>>
Finalize(tx) ==
    /\ tx \in stored \ finalized
    /\ finalized' = finalized \cup {tx}
    /\ UNCHANGED <<stored, cache, locks, result>>

Init ==
    /\ stored = {}
    /\ finalized = {}
    /\ cache = {}
    /\ locks = [i \in Inputs |-> None]
    /\ result = None

Next ==
    \/ \E s \in Snapshots : checkCacheSnapshotTransaction(s)
    \/ \E tx \in Txs : CachePutTransaction(tx) \/ CacheEvict(tx) \/ Finalize(tx)

Spec == Init /\ [][Next]_vars

-----------------------------------------------------------------------------

\* Every variable holds values of its kind.
TypeOK ==
    /\ stored \subseteq Txs
    /\ finalized \subseteq stored
    /\ cache \subseteq Txs
    /\ locks \in [Inputs -> Txs \cup {None}]
    /\ result \in Results \cup {None}

\* Every transaction in the store holds the lock of each of its inputs: no
\* two stored transactions spend one input, whatever the order in which
\* conflicting transactions reach the cache and their snapshots are checked,
\* and whichever store calls fail.
StoredTxLocked == \A t \in stored : \A i \in TxInputs[t] : locks[i] = t
=============================================================================
