# Formal models of the bb kernel, store and transport

This directory holds TLA+ models of the parts of the repository that have state
machines, concurrency or arithmetic worth checking. It also holds the TLC
configurations that check them on small instances and the TLAPS proofs of their
main invariants.

## 1. The system, and what of it lives in this repository

The repository is a slice of a Mixin-style DAG/BFT ledger node (see `spec.md`).
Six Go files are under `src/`:

| file | what it does |
|------|--------------|
| `src/kernel/node.go` | Node setup; the membership view (`LoadConsensusNodes`, `ConsensusThreshold`, `ConsensusKeys`); peer authentication; sync points (`UpdateSyncPoint`, `CheckBroadcastedToPeers`, `CheckCatchUpWithPeers`, `syncMap`). |
| `src/kernel/self.go` | Caching and validation of the transaction of a kernel snapshot (`checkCacheSnapshotTransaction`, `validateKernelSnapshot`); best-round choice (`determinBestRound`). |
| `src/storage/badger_topology.go` | The topology index: a dense order → snapshot index, the reverse hash → order index, paging reads, and the sequence recovered at start-up. |
| `src/storage/badger_mint.go` | Mint distributions: one lock per (group, batch), fork replacement, and reading the last finalized distribution. |
| `src/network/handle.go` | The wire format of the peer messages (build and parse, with size checks), the finalization de-duplication cache and the per-peer dispatch loop. |
| `src/command.go` | CLI commands and the JSON-RPC client. |

The CoSi aggregator and verifier, the round graph, the rest of the store and the
crypto are described in `spec.md` but their code is not in this repository.

### Interactions

- The **action loop** (not in `src/`) finalizes snapshots that change node
  records, then calls `LoadConsensusNodes`. That call rebuilds `ActiveNodes`,
  `ConsensusNodes`, `SortedConsensusNodes`, `ConsensusIndex` and
  `ConsensusPledging`. `ConsensusThreshold` and `ConsensusKeys` are computed from
  `ActiveNodes`, and CoSi uses them to decide when a signature is final.
- **Peer goroutines** call `Authenticate` and `UpdateSyncPoint`, which read the
  same membership view concurrently with the reload (`node.go:356` carries a
  FIXME about this).
- The **store** hands out topology orders and mint locks in badger
  transactions. `checkCacheSnapshotTransaction` calls the store twice in a row
  (`LockInputs`, then `WriteTransaction`).

### Hazards

The hazards are listed in `PROJECT.json` ("hazards"), each at the line where
it bites. In brief:

- the threshold arithmetic;
- a stale `ConsensusIndex`;
- a threshold that can exceed the number of signing keys;
- concurrent reads of the membership view;
- sync points that are never removed;
- future and replayed authentication timestamps;
- two store calls that are not atomic together;
- the topology index and its recovery at restart;
- fork locks that prune finalized mints;
- mint keys whose prefixes overlap;
- CoSi messages that arrive out of order;
- finalizations suppressed by the cache;
- a blocking `peer.sync` send;
- boundaries in the message sizes.

## 2. Modules

### Membership (`Membership.tla`): modelled

Membership models `node.go` 56-98 and 129-230.

State:

- `nodeState`, `nodeStamp`: the node records in the store.
- `now`: the clock, in units of the reference window.
- `activeNodes`, `consensusNodes`, `sortedConsensusNodes`, `consensusIndex`,
  `consensusPledging`: the in-memory view that `LoadConsensusNodes` builds.

Actions:

- `Pledge`, `Accept`, `Cancel` and `Depart` change one record, then reload the
  view, as the action loop does after finalizing the snapshot. These record
  transitions are finalized by kernel code outside `src/`, so they are modelled
  from spec 4.6.
- `SetupNode` is a restart: the view is reloaded with `ConsensusIndex` back to
  -1.
- `Tick` advances the clock.

How the code is abstracted:

- Node ids are model values.
- `HashRank` gives the byte order of the hashed ids, which breaks ties in the
  timestamp sort.
- `SortedArrangements(S)` is the set of sequences that list `S` in the code's
  sort order. The module defines it over `Seq(S)`. The MC module replaces it by
  `SetToSortSeq` so that TLC can enumerate it.

The constants stand for the code's configuration values:

- `RefWindow` is `SnapshotReferenceThreshold*SnapshotRoundGap`.
- `AcceptPeriod` is `KernelNodeAcceptPeriodMinimum`.

`ASSUME` requires `AcceptPeriod > 3*RefWindow`. The two `panic` guards at
`node.go:153-163` enforce the same relation.

`ThresholdPanics(t)` is the code's other panic: the base is smaller than the
genesis set.

### MintLock (`MintLock.tla`): modelled

MintLock models `badger_mint.go` 12-157 and the mint path of
`checkCacheSnapshotTransaction` (`self.go` 12-40), for one mint group.

State:

- `mints[b]`: the transaction that holds batch `b`'s lock key, or `NoTx`.
- `stored`: transactions written to the store and not pruned.
- `finalized`: transactions whose finalization key exists.
- `voted[b]`: a history of the transactions this node agreed to sign for
  batch `b`.

Operators and actions:

- `LockMintInput(b, tx, fork)` returns the outcome of the badger update: a free
  lock is taken, the same transaction changes nothing, another transaction
  fails without fork, and with fork the lock is overwritten and the old
  transaction pruned (`badger_mint.go:117`).
- `ReadLastMintDistribution` is the reverse scan that stops at the first
  finalized lock. `ReadMintDistributions(offset, count)` is the forward scan
  that lists locks whose transaction is stored and finalized.
- `CacheMintSnapshot(tx)`: the mint must be the next batch after the last
  final one. The lock is then taken without fork. `WriteTransaction` is a
  second store call and may fail after the lock has committed; only a full
  success records a vote.
- `CacheStoredMintSnapshot(tx)`: the early return of
  `checkCacheSnapshotTransaction` (`self.go` 13-18). A transaction already in
  the store, and not finalized, is validated and signed again without taking
  the lock again.
- `FinalizeMintSnapshot(tx)`: the lock is taken with fork, and the transaction
  and its finalization key are written. Finalization is spec-modelled (the
  kernel's finalization code is not in `src/`). The guard says that the
  consensus never finalizes two transactions of one batch, which is what the
  quorum intersection proved for Membership gives. A finalization may arrive
  again, since the de-duplication cache expires.

### BestRound (`BestRound.tla`): modelled

BestRound models `determinBestRound` (`self.go` 76-99). A history is
abstracted to the three things the loop reads: the number and start of
`rounds[0]`, and the length. The Go map's iteration order is an input: any
arrangement of its keys (`MapOrders`). The loop reads `time.Now()` on every
iteration (line 90), so a call also takes a non-decreasing sequence of clock
readings, one per iteration (`ClockReadings`), and leaves the clock at the
last one. `determinBestRound` is a `FoldLeft` of `Step` over the order, the
i-th iteration using the i-th reading.

`BestBetweenClocks` compares it with a reference definition of spec 4.3. A
candidate is another node that is warm (genesis, or number at least
`7 + 2*RefThreshold`), causal (start at most the round time) and stable at a
clock reading (`start + RoundGap*len <= clock`). Since a history can turn
stable in the middle of the loop, the result is bracketed by two readings: it
is nil only if there is no candidate at the first reading, and otherwise it
is a candidate at the last reading whose (length, start) is
lexicographically at least that of every candidate at the first. This
module uses the recursive operators of SequencesExt and has no theorems.

### PeerView (`PeerView.tla`): modelled

PeerView models the membership view as the peer goroutines see it while the
action loop rebuilds it (`node.go` 56-97, 181-229, 289-311, 355-363, and the
graph branch of `handlePeerMessage`).

State:

- `status`: one record state per peer.
- `consensusNodes`, `consensusPledging`: the view.
- `reloadPc`: where the loop is in `LoadConsensusNodes`.
- `syncPoints`: the peers with an entry in `SyncPoints`.
- `updatePc[p]`: whether a peer's `UpdateSyncPoint` has passed its unlocked
  check.
- `authResult[p]`: the last `Authenticate` outcome.
- A ghost, `before`: the record states before the change that the running
  (or last) reload loads.

Actions:

- The reload is three steps, matching its three writes:
  - `ReloadClear` sets `ConsensusPledging = nil` (line 182);
  - `ReloadScan` sets the pledging record (line 194);
  - `ReloadPublish` sets the new `ConsensusNodes` (line 216).
- A record change (spec-modelled, as in Membership) starts a reload.
- `Authenticate(p)` reads both fields at any point.
- `UpdateSyncPoint` is two steps: the unlocked check of `ConsensusNodes`, then
  `SyncPoints.Set` under the map's lock. It runs only on an authenticated
  connection.
- `Restart` is `SetupNode`: a fresh `SyncPoints` and a load with no peer
  running.

Timestamps, thresholds and signatures are left to Membership, or are taken as
valid.

Fairness (`FairSpec`, the specification of the `peer_view` run):

- Weak fairness of `ReloadClear`, `ReloadScan` and `ReloadPublish`. The
  action loop calls `LoadConsensusNodes` and runs it to the end; nothing in
  it waits on another goroutine.
- Weak fairness of each `Authenticate(p)`. A peer whose authentication
  failed is closed and retries after a backoff (spec 7, transport errors).
- No fairness for record changes or restarts. Node snapshots and crashes
  are never forced.

### Topology (`Topology.tla`, `TopologyLog.tla`): modelled

Topology models `badger_topology.go` and the counter in `SetupNode`
(`node.go` 56-67).

State:

- `topo`: the forward index, from key to snapshot.
- `rev`: the reverse index, from snapshot to forward key.
- `seq`: `node.TopoCounter`.
- `pending`: the snapshot being persisted and its order.

Keys are modelled by what the code does to them:

- `graphTopologyKey` writes the order as `Digits` big-endian digits of base
  `Base` (8 bytes in the code).
- `graphTopologyOrder` reads it back.
- `KeyLess` is badger's bytewise order.

So `TopologySequence`, the reverse seek from the all-ones key, is the
largest key by byte order plus one, in uint64 arithmetic. The forward iteration
of `ReadSnapshotsSinceTopology` is the keys from the offset's key upwards in
byte order.

Actions:

- `AssignOrder`, spec-modelled: a finalized snapshot that is not indexed yet
  takes the counter's next order.
- `Persist`: the commit of `writeTopology`'s two keys.
- `Restart`: after a crash, or a panic on a failed commit, the counter is
  rebuilt by `TopologySequence`.

`TopologyLog` is the abstract specification: a log of distinct snapshots,
appended to. `IndexLog`, the snapshots at orders 0, 1, ..., is the refinement
mapping, and a hole in the index maps to `NoSnap`, which no log holds.

The module states three assumptions on its constants, and TLC evaluates them
on both topology runs:

- `EncodingAssumption`: the key encoding is order-preserving and
  `graphTopologyOrder` inverts it. This is what `binary.BigEndian` gives for
  every width. For all widths at once it needs induction over the digits, which
  the provers cannot do (section 4), so it is an assumption, and TLC checks it
  for the instance it runs.
- `CapacityAssumption`: fewer snapshots than orders. The code has 2^64 orders,
  and the counter never wraps in practice.
- `NoSnapAssumption`: the sentinel for "nothing pending" is not a pending record.

### Wire (`Wire.tla`): partly modelled

Wire models the peer wire format (`handle.go` 16-42 and 121-256) and the
byte-level authentication handshake (`node.go` 279-311). A message is a byte
string (a sequence of numbers 0..255).

- One operator per build function, each appending the same fields in the same
  order as the code. `BE64` is `binary.BigEndian.PutUint64`: byte `j` is
  `(v >> 8*(7-j)) & 0xff`, computed as a chain of divisions by 256 so that
  TLC's 32-bit integers never overflow.
- `parseNetworkMessage` keeps every size check and every slice:
  - `copy` into a fixed-size field truncates or zero-pads (`CopyInto`);
  - Go's 0-based `data[k:]` is `From(d, k)`.
- Msgpack and transaction encodings are a marker byte followed by the value.
  Decoding fails unless the bytes have that form, so a forged or truncated
  encoding is an error, as the real decoders return one.
- A signature is a function of the signer and the signed bytes, which a
  forger cannot produce.
- `Authenticate` takes the timestamp, id and signature slices in the code's
  order. A slice past `len(msg)` is one of two outcomes:
  - it panics;
  - or, when the buffer behind the slice has spare capacity (Go checks
    slice bounds against the capacity), it reads stale bytes, which are not a
    member's signature, so the call fails.

  The transport that reads the buffer is not in this repository, so both
  outcomes are allowed.

One connection carries one message at a time:

- `SendHonest`: a node sends a message built by a build function from small
  field values, remembering the `PeerMessage` it stands for.
- `SendForged`: anybody sends a tag followed by up to `MaxPayload` bytes that
  start with a fresh timestamp and a member's id (as far as they reach), then
  zeros. This covers every length, every tag and every truncation of an
  authentication message.
- `Receive`: parse the message; an authentication message then goes through
  `Authenticate`, as on a new connection (spec 4.7, spec-modelled: the
  handshake's caller is not in this repository).

The finalization de-duplication cache and the dispatch of `handlePeerMessage`
are not modelled: what they feed (the CoSi handlers and the `peer.sync`
consumer) is not in this repository.

### KernelSnapshot (`KernelSnapshot.tla`): modelled

KernelSnapshot models `checkCacheSnapshotTransaction` and
`validateKernelSnapshot` (`self.go` 12-74): what the action loop does with
the transaction of a snapshot it is asked to sign.

State:

- `stored`, `finalized`: the transactions the store holds, and those with a
  finalization marker.
- `cache`: the transactions in the cache tier.
- `locks[i]`: the transaction that holds input `i`, or `None`.
- `result`: what the last call returned.

Actions:

- `checkCacheSnapshotTransaction(s)` is one step, because the action loop
  is single-threaded. Its store calls (read, cache read, write) and the
  verdicts of `tx.Validate` and of the typed validator are free Booleans.
  The step follows the function's early returns in order. The last branch
  locks the inputs, then writes the transaction, in two store calls; the
  write may fail, which also covers a crash between them.
- `CachePutTransaction` (`node.go` 334-336), cache eviction and
  finalization by another path are its environment.

`LockInputs` is not under `src/`; it is modelled from spec 4.2 (it refuses
an input held by another transaction).

### SyncPoints (`SyncPoints.tla`): modelled

SyncPoints models the sync points and the two checks that read them
(`node.go` 146-178 and 355-439).

State:

- `status[p]`: the state of each peer's node record.
- `syncPoints[p]`: the point the peer last reported, or `Nil`.
- `final`, `cache`: the own final round number, and the cache round (its
  hash once sealed, and whether it started more than 100 round gaps ago).

Operators and actions:

- `ConsensusNodes` and `ActiveNodes` are the view `LoadConsensusNodes`
  builds from the records.
- `ConsensusThreshold` is `ConsensusThreshold(0)` with every node past its
  windows.
- `CheckBroadcastedToPeers`, `PeerCaughtUp` and `CheckCatchUpWithPeers`
  follow the code's loop and its early returns.
- `UpdateSyncPoint(p, point)` keeps the point if `p` is a consensus node and
  the point is about this node. A message carries one point.
- A record change is Accept, Depart or Remove. A change that would take the
  base below the genesis nodes is not taken, because `ConsensusThreshold`
  panics there (line 174).
- The own chain starts, ages and finalizes cache rounds. `Restart` empties
  `SyncPoints`, as `SetupNode` does.

PeerView models the same `UpdateSyncPoint` as two steps against the reload.
SyncPoints takes the view as loaded, and looks at what the checks conclude.

### Plan for the remaining modules

KernelSnapshot and SyncPoints, the first two steps of the earlier plan, are
done.

3. **PeerAuth**: the authentication timestamp window of `Authenticate`
   (checked bytewise in Wire), with an advancing clock and a replaying peer.
4. **Cosi** (spec 4.4, composed with Membership). The five-step message
   protocol over a lossy and reordering network. Check: every finalized
   snapshot carries a mask of at least the threshold.
5. The finalization cache of `handle.go` 82-95 and 115-119, composed with
   Cosi.

## 3. Runs

| run | cfg | expect | properties |
|-----|-----|--------|------------|
| `membership` | `MC_Membership.cfg` | pass | `TypeOK`, `QuorumIntersection` |
| `consensus_index_stale` | `MC_Membership_ConsensusIndexCorrect.cfg` | violation | `ConsensusIndexCorrect` |
| `mint_locks` | `MC_MintLock.cfg` | pass | `TypeOK`, `VoteUnique`, `LastMintAgrees` |
| `best_round` | `MC_BestRound.cfg` | pass | `BestBetweenClocks` |
| `peer_view` | `MC_PeerView.cfg` | pass | `TypeOK`, `AdmissionWithinChange`, `MemberEventuallyAdmitted` |
| `topology` | `MC_Topology.cfg` | pass | `TypeOK`, `TopologyBijective`, `CounterIsNext`, `ReadIsDenseWindow` |
| `topology_refinement` | `MC_Topology_Refinement.cfg` | pass | `TopologyRefinesLog` |
| `wire` | `MC_Wire.cfg` | pass | `RoundTrip`, `ParseNoPanic` |
| `auth_panic` | `MC_Wire_AuthNoPanic.cfg` | violation | `AuthNoPanic` |
| `kernel_snapshot` | `MC_KernelSnapshot.cfg` | pass | `TypeOK`, `StoredTxLocked` |
| `sync_points` | `MC_SyncPoints.cfg` | pass | `TypeOK` |
| `catch_up_stale_len` | `MC_SyncPoints_CatchUpInformed.cfg` | violation | `CatchUpInformed` |

Bounds of the membership runs:

- Three genesis nodes `g1..g3` and one joining node `n1`; the own node is `g1`.
- `RefWindow = 1`, `AcceptPeriod = 4`, `Epoch = 1`, `MaxTime = 11`.

With these values:

- a pledge can be counted, then accepted;
- an accepted node is first counted and only later able to sign;
- a cancel is possible before the accept period ends;
- every genesis node can depart.

So every branch of the base and key computation is reached. The hash ranks are
chosen so that timestamp ties among the genesis nodes (all at `Epoch`) are
broken by the rank and not by the order of the model values.

What the runs show:

- `TypeOK` includes that `ActiveNodes`, which the threshold and the keys
  walk, holds only pledging, accepted and departing records, after cancels
  as well. Mutant: a `default:` branch in the switch of
  `LoadConsensusNodes` that appends every other record too.
- `QuorumIntersection`: at every timestamp up to `MaxTime`, any two sets of keys
  from `ConsensusKeys(t)` that each reach `ConsensusThreshold(t)` share more
  than `base/3` keys. So two conflicting snapshots cannot both be finalized
  unless more than a third of the base signs both. Mutant: drop the `+1` of the
  threshold.
- `ConsensusIndexCorrect` is **violated**, which is a code bug.
  `LoadConsensusNodes` only assigns `ConsensusIndex` when the own id is found
  (`node.go:224-228`). After the own node departs, the index keeps the old
  position, while spec 4.6 says it is -1. Trace: `Depart(g1)` from the initial
  state.

Bounds and results of the other runs:

- `mint_locks` uses three batches and two transactions per batch (611
  states). Two transactions make a fork override possible. Three batches let
  a final batch sit behind a locked but unfinal one.
  - `VoteUnique`: a node agrees to sign at most one transaction per batch,
    whatever the order of announcements, failed writes and finalizations.
    Mutant: drop the `fork` check of `LockMintInput`.
  - `LastMintAgrees`: the reverse scan and the forward scan agree on the last
    final batch. A fork override never prunes a finalized distribution.
    Mutant: a reverse scan that does not check the finalization key.
- `best_round` uses four ids (self, one other genesis, two non-genesis), round
  numbers 8 and 9 with `RefThreshold = 1` (so warmth differs), starts 0..1,
  lengths 1..2, and a clock up to 3 (2,048 states). With these values a
  history of either length and start is stable at some readings and not at
  others, so the readings of one call can differ in what is stable, and two
  histories of equal length can differ in start. `MCInit` fixes the fields
  of the own and genesis histories that the function never reads.
  `BestBetweenClocks` is checked over every map order, round time and
  sequence of clock readings in every state. Mutant: `&&` instead of `||` in
  the replacement test.
- `peer_view` uses three peers (102,977 states) under `FairSpec`: one can
  pledge while another's record changes and the third joins or leaves the
  accepted set.
  - `AdmissionWithinChange` (an action property of `Authenticate`): a peer
    is admitted only if the store before or after the change being loaded
    admits it, at every point of the three unlocked writes. A pledging peer
    can still be turned away between lines 182 and 194 (the view has no
    pledging record there); the property does not forbid that, which is the
    code's behaviour. Mutant: `ReloadPublish` adds the new accepted nodes to
    the old map instead of replacing it, so a departed peer stays admitted.
  - `MemberEventuallyAdmitted`: a peer that the store lets in from some
    point on is authenticated successfully infinitely often. Every reload
    ends with the store's view, and no mix of record changes, loads and
    restarts locks it out. Mutant: an `Authenticate` that ignores
    `ConsensusPledging`, which locks the pledging peer out for good.
- `topology` and `topology_refinement` use five snapshots and keys of three
  binary digits (651 states). Orders 0..4 use all three digits, so an
  encoding whose byte order differs from the numeric order would show in both
  the seek and the iteration.
  - `TopologyBijective` (spec 8): the indexes are inverse to each other, and
    `readSnapshotWithTopo` finds every indexed snapshot. Mutant: drop the
    reverse key.
  - `CounterIsNext`: the indexed orders are exactly 0..n-1 and the counter is
    the next one, also after restarts. Mutant: drop the `+ 1` of
    `TopologySequence`.
  - `ReadIsDenseWindow` (spec 4.2): every page is the run of consecutive
    orders from the offset. Mutant: `<=` in the loop bound.
  - `TopologyRefinesLog`: every step appends to the log or leaves it alone.
    Mutant: drop the `+ 1` of `TopologySequence`. After a restart, the
    next commit reuses the last order and rewrites that log entry. A
    little-endian key is not a usable mutant: `EncodingAssumption` is false
    for it, and TLC refuses the instance before it explores any state.

- The wire runs use two members, two field values, two masks (0 and 258, so
  that both bytes of the big-endian mask matter), a clock at 1000 (two
  timestamp bytes) and forged payloads of 0..106 bytes, two past the longest
  fixed layout (104). That reaches every size check on both sides of its
  boundary (5,228 states).
  - `RoundTrip`: every honestly built message parses back to the fields it
    was built from, and an honest member's authentication message
    authenticates it with its listener. Mutants: `data[64]` for `WantTx`;
    swapped fields in the response (also caught).
  - `ParseNoPanic`: no byte string makes `parseNetworkMessage` slice past its
    data. Mutant: a challenge size check of 96 instead of 104.
- `AuthNoPanic` is **violated**, which is a code bug. The trace sends a
  payload shorter than 8 bytes from an unauthenticated sender, and `msg[:8]`
  panics. A payload with a fresh timestamp and a member's id that stops
  short of 104 bytes does the same at `msg[40:104]`. Whether the panic takes
  the whole process down depends on whether the transport recovers it, and
  the transport is not in this repository. Spec 7 says bad framing only
  closes the peer.

KernelSnapshot runs: three transactions (`t1` spends `i1`, the mint `t2`
spends `i1` and `i2`, `t3` spends `i2`) and two nodes. So every pair of
transactions that conflicts shares an input, one type has a typed validator,
and the `NodeAccept` exemption is reachable.

- `StoredTxLocked`: every stored transaction holds the locks of all its
  inputs, so no two stored transactions spend one input. This holds whatever
  store calls fail and in whatever order conflicting transactions are
  checked. Mutant: `LockInputs` without its refusal.
- `TypeOK`, which includes "finalized transactions are stored". Mutant: a
  finalization of a transaction the store does not hold.

SyncPoints runs: three peers, two of them genesis; two hashes; `MaxRound = 2`.
So a peer can join, depart and be removed, a cache round can match or fork,
and a peer can lag two rounds. There are 313k distinct states.

- `TypeOK` also says that `SyncPoints` only holds points about this node.
  Mutant: `UpdateSyncPoint` without its `NodeId` filter.
- `CatchUpInformed` is **violated**, which is a code bug. All three peers
  report, then one departs. `Len()` still counts its entry (3, the
  threshold), and the check passes with only two current reporters. A
  consensus peer that never reported is then treated as caught up.

Fairness is assumed only in `peer_view`, and is justified under PeerView.
All other properties are safety.

## 4. Proofs

`MembershipProofs.tla` proves, for every value of the constants that satisfies
`ConstantsAssumption`:

- `TypeCorrect`: `Spec => []TypeOK`. `TypeOK` is inductive. The lemmas on
  `ActiveRecords`, `LoadedView` and `SortedArrangements` show that a reload
  produces a well-typed view whose `ActiveNodes` holds only active records.
- `QuorumIntersectionHolds`: `Spec => []QuorumIntersection`. The argument is
  that every key position is also a base position (`KeysInBase`: accepted past
  the accept period means accepted past the reference window, because
  `AcceptPeriod > 3*RefWindow >= RefWindow`). Two subsets of the key positions
  therefore lie in a set of size at most `base`, and
  `|Q1 ∩ Q2| >= 2*(2*base÷3 + 1) - base > base÷3` (`ThresholdArith`). No
  invariant beyond `TypeOK` is needed: the property holds in every well-typed
  state.

`MintLockProofs.tla` proves, under `MintAssumption` (any finite or infinite
set of transactions, any number of batches):

- `TypeCorrect`: `Spec => []TypeOK`.
- `VoteUniqueHolds`: `Spec => []VoteUnique`. `VoteUnique` alone is not
  inductive: a second vote on a batch is blocked only because the batch's lock
  still names the first vote, or names a finalized transaction, which is stored
  and so never cached again. The inductive invariant `IInv` is `TypeOK`, plus:
  - `FinalizedLocked`: finalized transactions are stored and hold their
    batch's lock;
  - `VoteLocked`: a batch with a vote has exactly one, and its lock holds that
    vote or a finalized transaction;
  - `StoredLocked`: a stored transaction that is not finalized still holds its
    batch's lock. This is what makes the early return for stored transactions
    safe: a fork override prunes the transaction it takes the lock from.

  The fork path keeps `IInv` because it overrides a lock only in favour of a
  transaction that is finalized in the same step. The two lemmas
  `LockWithoutFork` and `LockWithFork` give the outcomes of `LockMintInput`.

`PeerViewProofs.tla` proves, under `PeerViewAssumption`:

- `TypeCorrect`: `Spec => []TypeOK`.
- `AdmissionWithinChangeHolds`: `Spec => AdmissionWithinChange`, the action
  property of the `peer_view` run.

The argument is an inductive invariant `IInv == TypeOK /\ ViewStages`, where
`ViewStages` gives the view at each stage of a load. The store does not
change during a load, because the action loop takes the next snapshot only
after `LoadConsensusNodes` returns. So:

- when no load runs, the view is the store's;
- during a load, `ConsensusNodes` is still the old store's accepted set;
- before the clear, `ConsensusPledging` is the old store's pledging record;
  after the clear it is nil, and after the scan it is the new store's.

The lemma `ViewWithinChange` turns this into the inclusion of the admitted
peers in `MembersOf(before) ∪ MembersOf(status)`, and an `Authenticate`
step admits only peers of the view.

`KernelSnapshotProofs.tla` proves, under `KernelSnapshotAssumption`:

- `TypeCorrect`: `Spec => []TypeOK`.
- `StoredTxLockedHolds`: `Spec => []StoredTxLocked`.

`TypeOK /\ StoredTxLocked` is inductive. The lemma `LockKeepsStored` says
that when `LockFails` is false, `LockInputs` gives the transaction all its
inputs and takes none from a stored transaction. The step lemma follows the
early returns one by one; each of them changes only `result`.

`TopologyProofs.tla` proves, under `TopologyAssumption` and the three
assumptions above, and for any finite set of snapshots, base and digit
count. `EncodingAssumption` is assumed here, not proved. `graphTopologyKey` is a digit-by-digit definition, and proving that it is
order-preserving for every `Base` and `Digits` is induction over that
definition, which the provers cannot instantiate. TLC evaluates the assumption
on every topology run. The theorems are:

- `TypeCorrect`: `Spec => []TypeOK`.
- `TopologyBijectiveHolds`: `Spec => []TopologyBijective`.
- `CounterIsNextHolds`: `Spec => []CounterIsNext`.
- `ReadIsDenseWindowHolds`: `Spec => []ReadIsDenseWindow`.
- `TopologyRefinement`: `Spec => TopologyRefinesLog`. The index implements
  the append-only log of distinct snapshots.

The inductive invariant `IInv` is the three invariants together with these
facts, and TLC checked it on the topology instance before the proof was
written:

- both domains are finite and have the same size. Without this, a commit
  could make the reverse index larger than the forward one;
- the snapshot pending a commit is not yet in the reverse index. Without this,
  a commit could index one snapshot twice.

Lemmas used:

- `PersistStep` collects what a commit does. It writes key `K(Used)`, which is
  fresh, the counter stays one ahead, and both domains grow by one.
- `SequenceIsUsed` is the restart argument. The reverse seek finds the
  byte-largest key, which is the key of order `Used - 1` because the encoding
  preserves order. So `TopologySequence` rebuilds the counter exactly, and a
  restart between a commit and the next assignment does not reuse an order.

For the refinement:

- `IndexLogDense` shows the mapped log has no holes.
- `PersistRefines` shows a commit is `Append1` of the committed snapshot. The
  snapshot is not yet in the log, because every logged snapshot is in the
  reverse index.
- Assigning an order and restarting leave `topo`, and so the log, unchanged:
  they are stutters.

For the read, `SinceFacts` shows that in a dense index the keys from the
offset's key upwards are those of orders `offset .. Used-1`. The key of order
`p` has `Rank` `p - offset` among them. So the `CHOOSE` in
`ReadSnapshotsSinceTopology` picks the key of order `offset + i - 1` at
position `i`. `KeyImage` supplies the cardinalities: the keys of a run of
orders are as many as the orders, because the encoding is injective.

`WireProofs.tla` proves, under `WireAssumption`, for every set of members,
values and masks, every clock and every `MaxPayload`:

- `TypeCorrect`: `Spec => []TypeOK`, a lemma of the next theorem: every
  string on the wire is a byte string and the receiver records only the
  outcomes the functions can return.
- `ParseNoPanicHolds`: `Spec => []ParseNoPanic`. No byte string makes
  `parseNetworkMessage` panic, whether an honest node built it or anybody
  forged it.

The inductive invariant is `IInv == TypeOK /\ ParseNoPanic`. The wire run
checks `ParseNoPanic`; `TypeOK` is only proved. The proof rests on three facts:

- Everything on the wire is a byte string (`Seq(0..255)`):
  - `HonestBytes` covers the eleven build functions. Its lemmas are
    `BE64Bytes`, `FillBytes`, `SignBytes` (which uses `FunIsBytes`),
    `MarshalBytes`, `ConcatBytes`, `TagBytes` and `AuthMessageBytes`.
  - `ForgedBytes` covers every forged prefix. It uses `SubSeqProperties`.
- `ParseOutcome`: on a byte string, `parseNetworkMessage` returns "ok" or
  "error". The only panicking helper is `ChallengeFields`, on fewer than 105
  bytes. It is reached only through `ParseChallenge`, whose size check
  `len(data)-1 < 104` has sent every such string to `Err` first
  (`ChallengeOutcome`).
- `AuthOutcome`: `Authenticate` returns one of the three outcomes
  `TypeOK` allows.

`Authenticate` can panic (the `auth_panic` run), so `AuthNoPanic` is not
proved.

For the proof, the honest messages are one set per message kind. The sets
with several parameters are written as nested `UNION`s with one binder
each, because the provers cannot decompose membership in a set
comprehension with several binders. The rewrite gives TLC the same 5228
states. `BE64` is the chain of `\div 256` steps, not `256^(8-i)`, because
the provers cannot evaluate a power with a variable exponent.

`SyncPointsProofs.tla` proves, under `SyncPointsAssumption`:

- `TypeCorrect`: `Spec => []TypeOK`. The content is that `UpdateSyncPoint`
  stores only points whose `nodeId` is this node, so the two checks never read
  a point about another node. `TypeOK` is inductive.

Only TLC checks these, because TLAPS cannot reason about them:

- liveness and `ENABLED` (`MemberEventuallyAdmitted`);
- what a recursive definition computes for every input:
  - `LastMintAgrees` (MintLock), through `SelectSeq`;
  - `BestBetweenClocks` (BestRound), through the recursive sequence
    operators;
  - `RoundTrip` (Wire). It says that `parseNetworkMessage` inverts every
    build function field by field. The transaction challenge's mask goes
    through `FromBE64(BE64(mk))`, and `FromBE64` is a recursive function of
    the bytes. So the round trip for every mask is induction over data.

`CatchUpInformed` is a violation run, not an open proof (section 3).

## 5. Not modelled

- Command-line tools and the RPC client (`command.go`). They format, sign
  offline, or forward one call, and have no state of their own.
- Crypto primitives. Signatures are valid or invalid values.
- `AddNeighborsFromConfig`, which reads a file.
- The logging in `LoadConsensusNodes`.
