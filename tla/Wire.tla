-------------------------------- MODULE Wire --------------------------------
(***************************************************************************)
(* The peer wire format (src/network/handle.go) and the authentication     *)
(* handshake on top of it (src/kernel/node.go).                            *)
(*                                                                         *)
(* A message is a byte string: a one-byte tag, then the fields the build   *)
(* function appends.  parseNetworkMessage checks the sizes some tags must  *)
(* have and copies the fields out; copy() truncates or zero-pads.  Go's    *)
(* bounds checks are modelled: a slice past the end of the data panics     *)
(* unless the buffer behind it has spare capacity, in which case it reads  *)
(* stale bytes the sender does not control (only Authenticate is given    *)
(* that choice: in parseNetworkMessage no slice passes the checked size). *)
(* A connection is authenticated on open (spec 4.7): its first message     *)
(* must parse as an authentication message, whose payload goes to         *)
(* Authenticate.                                                           *)
(*                                                                         *)
(* Crypto and msgpack are abstracted by what they do: a signature is a     *)
(* function of the signer and the signed bytes that only the signer can    *)
(* produce, and a msgpack or transaction encoding is a marker byte and the *)
(* encoded value, decoded back only when it has that form.  Values are    *)
(* small numbers, and a 32- or 64-byte field is filled with one of them.  *)
(***************************************************************************)
EXTENDS Naturals, Sequences

CONSTANTS
    Members,    \* id fills of the consensus nodes and the pledging node
    Self,       \* id fill of node.IdForNetwork
    Vals,       \* field fills, snapshots, transactions and graphs
    Masks,      \* CoSi masks
    Listener,   \* a listener address, as bytes
    Now,        \* time.Now().Unix() at both ends
    MaxPayload, \* longest forged payload
    Nil         \* a nil pointer or slice

ASSUME WireAssumption ==
    /\ Members \subseteq 1..255 /\ Self \in 1..255 /\ Self \notin Members
    /\ Vals \subseteq 1..255 /\ Masks \subseteq Nat
    /\ Listener \in Seq(0..255)
    /\ Now \in Nat /\ MaxPayload \in Nat

\* The tags of handle.go:16-27.
Ping == 1
Authentication == 3
Graph == 4
SnapshotConfirm == 5
TransactionRequest == 6
Transaction == 7
SnapshotAnnouncement == 10
SnapshotCommitment == 11
TransactionChallenge == 12
SnapshotResponse == 13
SnapshotFinalization == 14
Tags == {Ping, Authentication, Graph, SnapshotConfirm, TransactionRequest,
         Transaction, SnapshotAnnouncement, SnapshotCommitment,
         TransactionChallenge, SnapshotResponse, SnapshotFinalization}

-----------------------------------------------------------------------------
(* Bytes.                                                                  *)

Fill(n, v) == [i \in 1..n |-> v]
Zero(n) == Fill(n, 0)

\* data[k:] of Go's 0-based slice.
From(d, k) == SubSeq(d, k + 1, Len(d))

\* copy(dst[:n], src): the first n bytes of src, zero-padded.
CopyInto(n, src) == [i \in 1..n |-> IF i <= Len(src) THEN src[i] ELSE 0]

\* binary.BigEndian.PutUint64: b[0] = byte(v >> 56), ..., b[7] = byte(v),
\* where qj is v >> 8j.
BE64(x) ==
    LET q1 == x \div 256   q2 == q1 \div 256  q3 == q2 \div 256  q4 == q3 \div 256
        q5 == q4 \div 256  q6 == q5 \div 256  q7 == q6 \div 256
    IN  <<q7 % 256, q6 % 256, q5 % 256, q4 % 256, q3 % 256, q2 % 256, q1 % 256, x % 256>>
\* binary.BigEndian.Uint64.
FromBE64(b) ==
    LET v[i \in 0..8] == IF i = 0 THEN 0 ELSE v[i - 1] * 256 + b[i]
    IN  v[8]

\* int64(binary.BigEndian.Uint64(b)): two's complement, negative when the
\* top bit is set.
Int64(b) == IF b[1] < 128 THEN FromBE64(b) ELSE FromBE64(b) - 2 ^ 64

\* Encodings: common.MsgpackMarshalPanic and VersionedTransaction.Marshal.
MsgpackTag == 200
TxTag == 201
Marshal(tag, v) == <<tag, v>>
\* Decoding yields the value or Nil (an error).
Unmarshal(tag, b) == IF Len(b) = 2 /\ b[1] = tag THEN b[2] ELSE Nil

\* A signature over bytes m by the node whose id fill is k.
Sign(k, m) == [i \in 1..64 |-> IF i <= Len(m) THEN m[i] ELSE k]

-----------------------------------------------------------------------------
(* PeerMessage, and the build functions (handle.go:121-187).               *)

NoMsg ==
    [type |-> 0, snapshot |-> Nil, snapshotHash |-> Zero(32),
     transaction |-> Nil, transactionHash |-> Zero(32),
     cosiSig |-> Zero(64), cosiMask |-> 0, commitment |-> Zero(32),
     response |-> Zero(32), wantTx |-> FALSE, finalCache |-> Nil, auth |-> Nil]
Msg(t) == [NoMsg EXCEPT !.type = t]

buildPingMessage == <<Ping>>
buildAuthenticationMessage(data) == <<Authentication>> \o data
buildGraphMessage(points) == <<Graph>> \o Marshal(MsgpackTag, points)
buildSnapshotConfirmMessage(snap) == <<SnapshotConfirm>> \o snap
buildTransactionRequestMessage(tx) == <<TransactionRequest>> \o tx
buildTransactionMessage(ver) == <<Transaction>> \o Marshal(TxTag, ver)
buildSnapshotAnnouncementMessage(s, R) ==
    <<SnapshotAnnouncement>> \o R \o Marshal(MsgpackTag, s)
buildSnapshotCommitmentMessage(snap, R, wantTx) ==
    <<SnapshotCommitment>> \o snap \o R \o <<IF wantTx THEN 1 ELSE 0>>
buildTransactionChallengeMessage(snap, sig, mask, tx) ==
    <<TransactionChallenge>> \o snap \o sig \o BE64(mask)
        \o (IF tx = Nil THEN <<>> ELSE Marshal(TxTag, tx))
buildSnapshotResponseMessageSwapped(snap, si) == <<SnapshotResponse>> \o si \o snap
buildSnapshotResponseMessage(snap, si) == <<SnapshotResponse>> \o snap \o si
buildSnapshotFinalizationMessage(s) == <<SnapshotFinalization>> \o Marshal(MsgpackTag, s)

\* BuildAuthenticationMessage (node.go:279-287) of the node with id fill k.
BuildAuthenticationMessage(k) ==
    LET data == BE64(Now) \o Fill(32, k)
    IN  data \o Sign(k, data) \o Listener

-----------------------------------------------------------------------------
(* parseNetworkMessage (handle.go:189-256).  The outcome is "ok" with the  *)
(* message, "error", or "panic" (a slice past the end of the data).       *)

Ok(m) == [outcome |-> "ok", msg |-> m]
Err == [outcome |-> "error", msg |-> NoMsg]
Panic == [outcome |-> "panic", msg |-> NoMsg]
Decoded(v, m) == IF v = Nil THEN Err ELSE Ok(m)

\* handle.go:233-242, past the size check.
ChallengeFields(d) ==
    IF Len(d) < 105 THEN Panic
    ELSE LET m == [Msg(TransactionChallenge) EXCEPT
                     !.snapshotHash = CopyInto(32, From(d, 1)),
                     !.cosiSig = CopyInto(64, From(d, 33)),
                     !.cosiMask = FromBE64(SubSeq(d, 98, 105))]
             tx == Unmarshal(TxTag, From(d, 105))
         IN  IF Len(d) - 1 > 104 THEN Decoded(tx, [m EXCEPT !.transaction = tx])
             ELSE Ok(m)
ParseChallengeShort(d) == IF Len(d) - 1 < 96 THEN Err ELSE ChallengeFields(d)
ParseChallenge(d) == IF Len(d) - 1 < 104 THEN Err ELSE ChallengeFields(d)

\* msg.WantTx = data[65] == 1 (handle.go:228), Go's data[65] being d[66].
CommitmentWantTxOffByOne(d) == d[65] = 1
CommitmentWantTx(d) == d[66] = 1

ParseCommitment(d) ==
    IF Len(d) - 1 # 65 THEN Err
    ELSE Ok([Msg(SnapshotCommitment) EXCEPT
               !.snapshotHash = CopyInto(32, From(d, 1)),
               !.commitment = CopyInto(32, From(d, 33)),
               !.wantTx = CommitmentWantTx(d)])

parseNetworkMessage(d) ==
    IF Len(d) < 1 THEN Err
    ELSE LET t == d[1]
             p == From(d, 1)
         IN  CASE t = Graph ->
                    LET v == Unmarshal(MsgpackTag, p)
                    IN  Decoded(v, [Msg(t) EXCEPT !.finalCache = v])
               [] t = Authentication -> Ok([Msg(t) EXCEPT !.auth = p])
               [] t = SnapshotConfirm ->
                    Ok([Msg(t) EXCEPT !.snapshotHash = CopyInto(32, p)])
               [] t = Transaction ->
                    LET v == Unmarshal(TxTag, p)
                    IN  Decoded(v, [Msg(t) EXCEPT !.transaction = v])
               [] t = TransactionRequest ->
                    Ok([Msg(t) EXCEPT !.transactionHash = CopyInto(32, p)])
               [] t = SnapshotAnnouncement ->
                    IF Len(p) <= 32 THEN Err
                    ELSE LET v == Unmarshal(MsgpackTag, From(d, 33))
                         IN  Decoded(v, [Msg(t) EXCEPT !.commitment = CopyInto(32, p),
                                                       !.snapshot = v])
               [] t = SnapshotCommitment -> ParseCommitment(d)
               [] t = TransactionChallenge -> ParseChallenge(d)
               [] t = SnapshotResponse ->
                    IF Len(p) # 64 THEN Err
                    ELSE Ok([Msg(t) EXCEPT !.snapshotHash = CopyInto(32, p),
                                           !.response = CopyInto(32, From(d, 33))])
               [] t = SnapshotFinalization ->
                    LET v == Unmarshal(MsgpackTag, p)
                    IN  Decoded(v, [Msg(t) EXCEPT !.snapshot = v])
               [] OTHER -> Ok(Msg(t))

-----------------------------------------------------------------------------
(* Authenticate (node.go:289-311).  A slice msg[lo:hi] with hi > len(msg)  *)
(* panics, or with spare capacity reads stale bytes, which are not a       *)
(* member's id and signature: the call then fails.                         *)

AuthOk(k, l) == [outcome |-> "ok", peer |-> k, listener |-> l]
AuthErr == [outcome |-> "error", peer |-> Nil, listener |-> Nil]
AuthPanic == [outcome |-> "panic", peer |-> Nil, listener |-> Nil]
Beyond(spare) == IF spare THEN AuthErr ELSE AuthPanic

Authenticate(msg, spare) ==
    IF Len(msg) < 8 THEN Beyond(spare)
    ELSE IF Now - Int64(SubSeq(msg, 1, 8)) > 3 THEN AuthErr
    ELSE IF Len(msg) < 40 THEN Beyond(spare)
    ELSE LET peerId == SubSeq(msg, 9, 40)
             peer == {k \in Members : Fill(32, k) = peerId}
         IN  IF peer = {} \/ peerId = Fill(32, Self) THEN AuthErr
             ELSE IF Len(msg) < 104 THEN Beyond(spare)
             ELSE LET k == CHOOSE k \in peer : TRUE
                  IN  IF SubSeq(msg, 41, 104) = Sign(k, SubSeq(msg, 1, 40))
                      THEN AuthOk(k, From(msg, 104))
                      ELSE AuthErr

-----------------------------------------------------------------------------
(* One connection: a sender writes a message, the receiver reads it.  The  *)
(* sender is an honest node, which builds its message with the functions   *)
(* above, or anybody, who writes any bytes.                                *)

\* What honest nodes send: the message and the PeerMessage it stands for.
Hash(v) == Fill(32, v)
PingMessages == {[bytes |-> buildPingMessage, msg |-> Msg(Ping)]}
AuthenticationMessages ==
    {[bytes |-> buildAuthenticationMessage(BuildAuthenticationMessage(k)),
      msg |-> [Msg(Authentication) EXCEPT !.auth = BuildAuthenticationMessage(k)]]
     : k \in Members}
GraphMessages ==
    {[bytes |-> buildGraphMessage(v), msg |-> [Msg(Graph) EXCEPT !.finalCache = v]]
     : v \in Vals}
ConfirmMessages ==
    {[bytes |-> buildSnapshotConfirmMessage(Hash(v)),
      msg |-> [Msg(SnapshotConfirm) EXCEPT !.snapshotHash = Hash(v)]] : v \in Vals}
RequestMessages ==
    {[bytes |-> buildTransactionRequestMessage(Hash(v)),
      msg |-> [Msg(TransactionRequest) EXCEPT !.transactionHash = Hash(v)]] : v \in Vals}
TransactionMessages ==
    {[bytes |-> buildTransactionMessage(v),
      msg |-> [Msg(Transaction) EXCEPT !.transaction = v]] : v \in Vals}
AnnouncementMessages ==
    UNION {{[bytes |-> buildSnapshotAnnouncementMessage(s, Hash(r)),
             msg |-> [Msg(SnapshotAnnouncement) EXCEPT !.snapshot = s,
                        !.commitment = Hash(r)]]
            : r \in Vals} : s \in Vals}
CommitmentMessages ==
    UNION {UNION {{[bytes |-> buildSnapshotCommitmentMessage(Hash(h), Hash(r), w),
                    msg |-> [Msg(SnapshotCommitment) EXCEPT !.snapshotHash = Hash(h),
                               !.commitment = Hash(r), !.wantTx = w]]
                   : w \in BOOLEAN} : r \in Vals} : h \in Vals}
ChallengeMessages ==
    UNION {UNION {UNION {{[bytes |-> buildTransactionChallengeMessage(Hash(h), Fill(64, g), mk, tx),
                          msg |-> [Msg(TransactionChallenge) EXCEPT !.snapshotHash = Hash(h),
                                     !.cosiSig = Fill(64, g), !.cosiMask = mk,
                                     !.transaction = tx]]
                         : tx \in Vals \cup {Nil}} : mk \in Masks} : g \in Vals} : h \in Vals}
ResponseMessages ==
    UNION {{[bytes |-> buildSnapshotResponseMessage(Hash(h), Hash(s)),
             msg |-> [Msg(SnapshotResponse) EXCEPT !.snapshotHash = Hash(h),
                        !.response = Hash(s)]]
            : s \in Vals} : h \in Vals}
FinalizationMessages ==
    {[bytes |-> buildSnapshotFinalizationMessage(s),
      msg |-> [Msg(SnapshotFinalization) EXCEPT !.snapshot = s]] : s \in Vals}
HonestMessages ==
    PingMessages \cup AuthenticationMessages \cup GraphMessages \cup ConfirmMessages
    \cup RequestMessages \cup TransactionMessages \cup AnnouncementMessages
    \cup CommitmentMessages \cup ChallengeMessages \cup ResponseMessages
    \cup FinalizationMessages

\* What anybody may send: a tag and up to MaxPayload bytes that start with
\* a fresh timestamp and a member's id, as far as they go, then zeros.
Forged ==
    {<<>>} \cup
    UNION {UNION {{<<t>> \o SubSeq(BE64(Now) \o Fill(32, k) \o Zero(MaxPayload), 1, n)
                   : n \in 0..MaxPayload} : k \in Members} : t \in Tags \cup {0}}

VARIABLES
    inflight,   \* the bytes on the wire, or Nil
    intended,   \* the PeerMessage an honest sender meant, or Nil if forged
    received    \* what the receiver made of the message, until the next one

vars == <<inflight, intended, received>>

Init ==
    /\ inflight = Nil
    /\ intended = Nil
    /\ received = Nil

SendHonest ==
    \E h \in HonestMessages :
        /\ inflight = Nil
        /\ inflight' = h.bytes
        /\ intended' = h.msg
        /\ received' = Nil

SendForged ==
    \E d \in Forged :
        /\ inflight = Nil
        /\ inflight' = d
        /\ intended' = Nil
        /\ received' = Nil

\* The receiver parses the message; an authentication message is handed to
\* Authenticate, as the handshake of a new connection does.
Receive ==
    \E spare \in BOOLEAN :
        LET parsed == parseNetworkMessage(inflight)
            auth == IF parsed.outcome = "ok" /\ parsed.msg.type = Authentication
                    THEN Authenticate(parsed.msg.auth, spare) ELSE Nil
        IN  /\ inflight # Nil
            /\ received' = [bytes |-> inflight, sent |-> intended,
                            parsed |-> parsed, auth |-> auth]
            /\ inflight' = Nil
            /\ UNCHANGED intended

Next == SendHonest \/ SendForged \/ Receive

Spec == Init /\ [][Next]_vars

-----------------------------------------------------------------------------
(* Properties.                                                             *)

\* The receiver's record holds a parse outcome and, for authentication, an
\* Authenticate outcome.
TypeOK ==
    /\ inflight = Nil \/ inflight \in Seq(0..255)
    /\ received = Nil \/
         /\ received.parsed.outcome \in {"ok", "error", "panic"}
         /\ received.auth = Nil \/ received.auth.outcome \in {"ok", "error", "panic"}

\* Every message an honest node builds parses back to the PeerMessage it
\* stands for, field by field, and an honest member's authentication
\* message authenticates it with its listener.
RoundTrip ==
    (received # Nil /\ received.sent # Nil) =>
        /\ received.parsed = Ok(received.sent)
        /\ received.sent.type = Authentication =>
             received.auth.outcome = "ok" /\ received.auth.listener = Listener

\* No byte string, from whoever sends it, makes parseNetworkMessage panic:
\* every slice it takes is inside the checked size.
ParseNoPanic == received # Nil => received.parsed.outcome # "panic"

\* No byte string a peer sends on a new connection makes Authenticate
\* panic (spec 7: a malformed message is a handler error, never a crash).
AuthNoPanic == (received # Nil /\ received.auth # Nil) => received.auth.outcome # "panic"
=============================================================================
