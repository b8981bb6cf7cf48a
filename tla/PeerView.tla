------------------------------ MODULE PeerView ------------------------------
(***************************************************************************)
(* The membership view as peer goroutines see it while the action loop    *)
(* rebuilds it (src/kernel/node.go).                                       *)
(*                                                                         *)
(* LoadConsensusNodes runs on the action loop after a node snapshot is     *)
(* finalized.  It writes the view in place, in three separate steps:      *)
(* ConsensusPledging = nil (line 182), ConsensusPledging = the pledging   *)
(* record while it scans the store (line 194), and ConsensusNodes = the   *)
(* new map (line 216).  Peer goroutines read the same fields without any  *)
(* lock: Authenticate (lines 289-311) and UpdateSyncPoint (lines 355-364),*)
(* which checks ConsensusNodes and then stores the point in SyncPoints, a *)
(* map under its own lock that is only ever added to.  A restart          *)
(* (SetupNode) rebuilds the view before the peers start and begins with    *)
(* an empty SyncPoints.                                                    *)
(*                                                                         *)
(* Timestamps, thresholds and the order of the view are modelled in        *)
(* Membership; here a node record is only its state.  The own node is a    *)
(* genesis node that stays accepted and is not a peer.  Signatures and     *)
(* authentication timestamps are taken as valid: only the membership       *)
(* decides.                                                                *)
(***************************************************************************)
EXTENDS Naturals, FiniteSets

CONSTANTS
    Peers,      \* the other nodes
    NoNode      \* a nil *common.Node

ASSUME PeerViewAssumption == IsFiniteSet(Peers) /\ NoNode \notin Peers

RecordStates == {"None", "Pledging", "Accepted", "Departing", "Cancelled"}

VARIABLES
    status,             \* peer -> state of its record in the store
    consensusNodes,     \* node.ConsensusNodes (the peers in it)
    consensusPledging,  \* node.ConsensusPledging
    reloadPc,           \* where the action loop is in LoadConsensusNodes
    syncPoints,         \* peers with an entry in node.SyncPoints
    updatePc,           \* peer -> where its UpdateSyncPoint call is
    authResult,         \* peer -> result of its last Authenticate
    before              \* the store before the change being loaded (history)

vars == <<status, consensusNodes, consensusPledging, reloadPc, syncPoints,
          updatePc, authResult, before>>

-----------------------------------------------------------------------------
(* What LoadConsensusNodes computes from the store.                        *)

AcceptedOf(st) == {p \in Peers : st[p] = "Accepted"}

\* The pledging record found by the scan (spec 4.6: at most one).
PledgingOf(st) ==
    IF \E p \in Peers : st[p] = "Pledging"
    THEN CHOOSE p \in Peers : st[p] = "Pledging"
    ELSE NoNode

\* The peers a view lets in: consensus nodes and the pledging node.
Members(cn, pl) == cn \cup ({pl} \cap Peers)

\* The peers the records st let in.
MembersOf(st) == Members(AcceptedOf(st), PledgingOf(st))

StoreMembers == MembersOf(status)

-----------------------------------------------------------------------------

Init ==
    /\ status \in [Peers -> {"None", "Accepted"}]
    /\ consensusNodes = AcceptedOf(status)
    /\ consensusPledging = NoNode
    /\ reloadPc = "idle"
    /\ syncPoints = {}
    /\ updatePc = [p \in Peers |-> "idle"]
    /\ authResult = [p \in Peers |-> "none"]
    /\ before = status

(* The action loop finalizes a node snapshot that changes one record, then *)
(* calls LoadConsensusNodes before it takes the next action (spec 4.5).    *)
ChangeRecord(p, from, to) ==
    /\ reloadPc = "idle"
    /\ status[p] \in from
    /\ status' = [status EXCEPT ![p] = to]
    /\ reloadPc' = "clear"
    /\ before' = status
    /\ UNCHANGED <<consensusNodes, consensusPledging, syncPoints, updatePc,
                   authResult>>

Pledge(p) ==
    /\ PledgingOf(status) = NoNode
    /\ ChangeRecord(p, {"None", "Cancelled"}, "Pledging")
Accept(p) == ChangeRecord(p, {"Pledging"}, "Accepted")
Cancel(p) == ChangeRecord(p, {"Pledging"}, "Cancelled")
Depart(p) == ChangeRecord(p, {"Accepted"}, "Departing")

\* node.go:182
ReloadClear ==
    /\ reloadPc = "clear"
    /\ consensusPledging' = NoNode
    /\ reloadPc' = "scan"
    /\ UNCHANGED <<status, consensusNodes, syncPoints, updatePc, authResult,
                   before>>

\* node.go:184-200: the scan of the store sets the pledging record.
ReloadScan ==
    /\ reloadPc = "scan"
    /\ consensusPledging' = PledgingOf(status)
    /\ reloadPc' = "publish"
    /\ UNCHANGED <<status, consensusNodes, syncPoints, updatePc, authResult,
                   before>>

\* Mutant of ReloadPublish: the map updated in place (new accepted nodes
\* added, none removed) rather than replaced by a fresh one.
ReloadPublishInPlace ==
    /\ reloadPc = "publish"
    /\ consensusNodes' = consensusNodes \cup AcceptedOf(status)
    /\ reloadPc' = "idle"
    /\ UNCHANGED <<status, consensusPledging, syncPoints, updatePc, authResult,
                   before>>
\* node.go:201-229: the sorted lists and the new ConsensusNodes map.
ReloadPublish ==
    /\ reloadPc = "publish"
    /\ consensusNodes' = AcceptedOf(status)
    /\ reloadPc' = "idle"
    /\ UNCHANGED <<status, consensusPledging, syncPoints, updatePc, authResult,
                   before>>

AuthenticateNoPledging(p) ==
    /\ authResult' = [authResult EXCEPT ![p] =
                        IF p \in consensusNodes THEN "ok" ELSE "rejected"]
    /\ UNCHANGED <<status, consensusNodes, consensusPledging, reloadPc,
                   syncPoints, updatePc, before>>
\* Authenticate on the peer's connection goroutine: the peer must be in
\* ConsensusNodes or be ConsensusPledging, read as they are at this moment.
Authenticate(p) ==
    /\ authResult' = [authResult EXCEPT ![p] =
                        IF p \in Members(consensusNodes, consensusPledging)
                        THEN "ok" ELSE "rejected"]
    /\ UNCHANGED <<status, consensusNodes, consensusPledging, reloadPc,
                   syncPoints, updatePc, before>>

\* UpdateSyncPoint, first half: the unlocked read of ConsensusNodes.  A
\* graph message only arrives on a connection that Authenticate let in
\* (handlePeerMessage, handle.go:266-267), and a message whose points say
\* nothing of this node changes nothing.
UpdateSyncPointCheck(p) ==
    /\ updatePc[p] = "idle"
    /\ p \in consensusNodes
    /\ updatePc' = [updatePc EXCEPT ![p] = "set"]

UpdateSyncPointRead(p) ==
    /\ authResult[p] = "ok"
    /\ UpdateSyncPointCheck(p)
    /\ UNCHANGED <<status, consensusNodes, consensusPledging, reloadPc,
                   syncPoints, authResult, before>>

\* UpdateSyncPoint, second half: SyncPoints.Set under the map's lock.
UpdateSyncPointSetNoNode(p) ==
    /\ updatePc[p] = "set"
    /\ syncPoints' = syncPoints \cup {NoNode}
    /\ updatePc' = [updatePc EXCEPT ![p] = "idle"]
    /\ UNCHANGED <<status, consensusNodes, consensusPledging, reloadPc,
                   authResult, before>>
UpdateSyncPointSet(p) ==
    /\ updatePc[p] = "set"
    /\ syncPoints' = syncPoints \cup {p}
    /\ updatePc' = [updatePc EXCEPT ![p] = "idle"]
    /\ UNCHANGED <<status, consensusNodes, consensusPledging, reloadPc,
                   authResult, before>>

\* The process stops and SetupNode starts over from the store: the view is
\* loaded with no peer running, SyncPoints is empty, connections are gone.
Restart ==
    /\ consensusNodes' = AcceptedOf(status)
    /\ consensusPledging' = PledgingOf(status)
    /\ reloadPc' = "idle"
    /\ syncPoints' = {}
    /\ updatePc' = [p \in Peers |-> "idle"]
    /\ authResult' = [p \in Peers |-> "none"]
    /\ before' = status
    /\ UNCHANGED status

Next ==
    \/ \E p \in Peers : Pledge(p) \/ Accept(p) \/ Cancel(p) \/ Depart(p)
    \/ ReloadClear \/ ReloadScan \/ ReloadPublish
    \/ \E p \in Peers : Authenticate(p) \/ UpdateSyncPointRead(p) \/ UpdateSyncPointSet(p)
    \/ Restart

Spec == Init /\ [][Next]_vars

\* The action loop runs LoadConsensusNodes to the end once it has started
\* (a call with no wait in it), and a peer whose authentication failed
\* reconnects after a backoff and authenticates again (spec 7, transport
\* errors); record changes and restarts are never forced.
FairSpec ==
    /\ Spec
    /\ WF_vars(ReloadClear) /\ WF_vars(ReloadScan) /\ WF_vars(ReloadPublish)
    /\ \A p \in Peers : WF_vars(Authenticate(p))

-----------------------------------------------------------------------------

\* Every variable holds values of its kind.
TypeOK ==
    /\ status \in [Peers -> RecordStates]
    /\ consensusNodes \subseteq Peers
    /\ consensusPledging \in Peers \cup {NoNode}
    /\ reloadPc \in {"idle", "clear", "scan", "publish"}
    /\ syncPoints \subseteq Peers
    /\ updatePc \in [Peers -> {"idle", "set"}]
    /\ authResult \in [Peers -> {"none", "ok", "rejected"}]
    /\ before \in [Peers -> RecordStates]

\* Authenticate lets a peer in only if the store lets it in, either as it
\* was before the node snapshot being loaded or as it is after: the three
\* unlocked writes of LoadConsensusNodes (clear the pledging record, set
\* it, replace ConsensusNodes) never expose a view that mixes in a peer
\* neither store admits, whatever record changes, loads, restarts and
\* connections interleave.  (A peer both stores admit may still be turned
\* away mid-load: ConsensusPledging is nil between lines 182 and 194.)
AdmissionWithinChange ==
    [][\A p \in Peers :
         Authenticate(p) /\ authResult'[p] = "ok"
           => p \in MembersOf(before) \cup MembersOf(status)]_vars

\* A peer the store lets in from some point on (an accepted node, or the
\* pledging node) is let in by Authenticate again and again: every reload
\* that LoadConsensusNodes starts ends with the view the store gives, and
\* no sequence of record changes, loads and restarts locks the peer out.
MemberEventuallyAdmitted ==
    \A p \in Peers :
        <>[](p \in StoreMembers) => []<>(authResult[p] = "ok")
=============================================================================
