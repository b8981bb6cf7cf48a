----------------------------- MODULE WireProofs -----------------------------
(***************************************************************************)
(* Proofs that everything on the wire is a byte string, and that no byte   *)
(* string, honest or forged, makes parseNetworkMessage panic, for every   *)
(* set of members and values, every clock and every payload length.        *)
(***************************************************************************)
EXTENDS Wire, SequenceTheorems, FiniteSetTheorems, TLAPS

USE WireAssumption

Bytes == Seq(0..255)

-----------------------------------------------------------------------------
(* Byte strings.                                                           *)

\* A function from 1..n to bytes is a byte string of length n.
LEMMA FunIsBytes ==
    ASSUME NEW n \in Nat, NEW f \in [1..n -> 0..255]
    PROVE  f \in Bytes /\ Len(f) = n
<1>1. f \in Seq(0..255)
  OBVIOUS
<1>2. DOMAIN f = 1..Len(f) /\ Len(f) \in Nat
  BY <1>1, LenProperties
<1>3. 1..Len(f) = 1..n
  BY <1>2
<1>. QED  BY <1>1, <1>2, <1>3, FS_Interval DEF Bytes

\* binary.BigEndian.PutUint64 writes eight bytes.
LEMMA BE64Bytes ==
    ASSUME NEW x \in Int
    PROVE  BE64(x) \in Bytes /\ Len(BE64(x)) = 8
BY DEF BE64, Bytes

\* A field filled with one byte value is a byte string of its length.
LEMMA FillBytes ==
    ASSUME NEW n \in Nat, NEW v \in 0..255
    PROVE  Fill(n, v) \in Bytes /\ Len(Fill(n, v)) = n
BY DEF Fill, Bytes

\* A signature of a byte string is 64 bytes.
LEMMA SignBytes ==
    ASSUME NEW k \in 0..255, NEW m \in Bytes
    PROVE  Sign(k, m) \in Bytes /\ Len(Sign(k, m)) = 64
<1>1. \A i \in 1..Len(m) : m[i] \in 0..255
  BY ElementOfSeq DEF Bytes
<1>2. Len(m) \in Nat
  BY LenProperties DEF Bytes
<1>3. ASSUME NEW i \in 1..64 PROVE (IF i <= Len(m) THEN m[i] ELSE k) \in 0..255
  <2>1. CASE i <= Len(m)
    <3>1. i \in 1..Len(m)
      BY <1>2, <2>1
    <3>. QED  BY <1>1, <2>1, <3>1
  <2>2. CASE ~(i <= Len(m))
    BY <2>2
  <2>. QED  BY <2>1, <2>2
<1>4. Sign(k, m) \in [1..64 -> 0..255]
  BY <1>3 DEF Sign
<1>5. 64 \in Nat
  OBVIOUS
<1>. QED  BY <1>4, <1>5, FunIsBytes

\* The msgpack and transaction encodings of a value are byte strings.
LEMMA MarshalBytes ==
    ASSUME NEW tag \in {MsgpackTag, TxTag}, NEW v \in Vals
    PROVE  Marshal(tag, v) \in Bytes
BY DEF Marshal, MsgpackTag, TxTag, Bytes

\* Concatenation of byte strings.
LEMMA ConcatBytes ==
    ASSUME NEW s \in Bytes, NEW t \in Bytes
    PROVE  s \o t \in Bytes /\ Len(s \o t) = Len(s) + Len(t)
BY ConcatProperties DEF Bytes

\* A one-byte tag.
LEMMA TagBytes ==
    ASSUME NEW t \in 0..255
    PROVE  <<t>> \in Bytes /\ Len(<<t>>) = 1
BY DEF Bytes

\* BuildAuthenticationMessage of a member: timestamp, id, signature and
\* listener, all bytes.
LEMMA AuthMessageBytes ==
    ASSUME NEW k \in Members
    PROVE  BuildAuthenticationMessage(k) \in Bytes
<1>1. k \in 0..255
  OBVIOUS
<1>2. BE64(Now) \o Fill(32, k) \in Bytes
  <2>1. Now \in Int /\ 32 \in Nat
    OBVIOUS
  <2>2. BE64(Now) \in Bytes
    BY <2>1, BE64Bytes
  <2>3. Fill(32, k) \in Bytes
    BY <1>1, <2>1, FillBytes
  <2>. QED  BY <2>2, <2>3, ConcatBytes
<1>3. Sign(k, BE64(Now) \o Fill(32, k)) \in Bytes
  BY <1>1, <1>2, SignBytes
<1>4. Listener \in Bytes
  BY DEF Bytes
<1>. QED  BY <1>2, <1>3, <1>4, ConcatBytes DEF BuildAuthenticationMessage

\* Every message an honest node builds is a byte string.
LEMMA HonestBytes ==
    \A h \in HonestMessages : h.bytes \in Bytes
<1>1. \A v \in Vals : /\ v \in 0..255
                      /\ Hash(v) \in Bytes /\ Len(Hash(v)) = 32
                      /\ Fill(64, v) \in Bytes
                      /\ Marshal(MsgpackTag, v) \in Bytes
                      /\ Marshal(TxTag, v) \in Bytes
  <2>. SUFFICES ASSUME NEW v \in Vals PROVE
                      /\ v \in 0..255
                      /\ Hash(v) \in Bytes /\ Len(Hash(v)) = 32
                      /\ Fill(64, v) \in Bytes
                      /\ Marshal(MsgpackTag, v) \in Bytes
                      /\ Marshal(TxTag, v) \in Bytes
    OBVIOUS
  <2>1. v \in 0..255 /\ 32 \in Nat /\ 64 \in Nat
    OBVIOUS
  <2>. QED  BY <2>1, FillBytes, MarshalBytes DEF Hash
<1>2. \A t \in Tags \cup {0, 1} : <<t>> \in Bytes
  <2>. SUFFICES ASSUME NEW t \in Tags \cup {0, 1} PROVE <<t>> \in Bytes
    OBVIOUS
  <2>1. t \in 0..255
    BY DEF Tags, Ping, Authentication, Graph, SnapshotConfirm,
     TransactionRequest, Transaction, SnapshotAnnouncement, SnapshotCommitment,
     TransactionChallenge, SnapshotResponse, SnapshotFinalization
  <2>. QED  BY <2>1, TagBytes
<1>3. \A x \in Bytes, y \in Bytes : x \o y \in Bytes
  BY ConcatBytes
<1>4. \A mk \in Masks : BE64(mk) \in Bytes
  BY BE64Bytes
<1>5. \A k \in Members : buildAuthenticationMessage(BuildAuthenticationMessage(k)) \in Bytes
  BY <1>2, <1>3, AuthMessageBytes DEF buildAuthenticationMessage, Tags, Authentication
<1>6. \A v \in Vals : /\ buildGraphMessage(v) \in Bytes
                      /\ buildSnapshotConfirmMessage(Hash(v)) \in Bytes
                      /\ buildTransactionRequestMessage(Hash(v)) \in Bytes
                      /\ buildTransactionMessage(v) \in Bytes
                      /\ buildSnapshotFinalizationMessage(v) \in Bytes
  BY <1>1, <1>2, <1>3
  DEF buildGraphMessage, buildSnapshotConfirmMessage, buildTransactionRequestMessage,
      buildTransactionMessage, buildSnapshotFinalizationMessage, Tags, Graph,
      SnapshotConfirm, TransactionRequest, Transaction, SnapshotFinalization
<1>7. \A v, r \in Vals : buildSnapshotAnnouncementMessage(v, Hash(r)) \in Bytes
  BY <1>1, <1>2, <1>3 DEF buildSnapshotAnnouncementMessage, Tags, SnapshotAnnouncement
<1>8. \A h, r \in Vals, w \in BOOLEAN :
        /\ buildSnapshotCommitmentMessage(Hash(h), Hash(r), w) \in Bytes
        /\ buildSnapshotResponseMessage(Hash(h), Hash(r)) \in Bytes
  <2>1. \A w \in BOOLEAN : <<IF w THEN 1 ELSE 0>> \in Bytes
    BY <1>2
  <2>. QED  BY <1>1, <1>2, <1>3, <2>1
    DEF buildSnapshotCommitmentMessage, buildSnapshotResponseMessage, Tags,
        SnapshotCommitment, SnapshotResponse
<1>9. \A h, g \in Vals, mk \in Masks, tx \in Vals \cup {Nil} :
        buildTransactionChallengeMessage(Hash(h), Fill(64, g), mk, tx) \in Bytes
  <2>1. <<>> \in Bytes
    BY DEF Bytes
  <2>2. \A tx \in Vals \cup {Nil} : (IF tx = Nil THEN <<>> ELSE Marshal(TxTag, tx)) \in Bytes
    BY <1>1, <2>1
  <2>. QED  BY <1>1, <1>2, <1>3, <1>4, <2>2
    DEF buildTransactionChallengeMessage, Tags, TransactionChallenge
<1>10. SUFFICES ASSUME NEW hm \in HonestMessages PROVE hm.bytes \in Bytes
  OBVIOUS
<1>12. buildPingMessage \in Bytes
  BY <1>2 DEF buildPingMessage, Tags, Ping
<1>. QED
  <2>1. CASE hm \in PingMessages
    BY <2>1, <1>12 DEF PingMessages
  <2>2. CASE hm \in AuthenticationMessages
    BY <2>2, <1>5 DEF AuthenticationMessages
  <2>3. CASE hm \in GraphMessages
    BY <2>3, <1>6 DEF GraphMessages
  <2>4. CASE hm \in ConfirmMessages
    BY <2>4, <1>6 DEF ConfirmMessages
  <2>5. CASE hm \in RequestMessages
    BY <2>5, <1>6 DEF RequestMessages
  <2>6. CASE hm \in TransactionMessages
    BY <2>6, <1>6 DEF TransactionMessages
  <2>7. CASE hm \in AnnouncementMessages
    <3>1. PICK s \in Vals : hm \in {[bytes |-> buildSnapshotAnnouncementMessage(s, Hash(r)),
              msg |-> [Msg(SnapshotAnnouncement) EXCEPT !.snapshot = s, !.commitment = Hash(r)]]
             : r \in Vals}
      BY <2>7, ZenonT(60) DEF AnnouncementMessages
    <3>2. PICK r \in Vals : hm = [bytes |-> buildSnapshotAnnouncementMessage(s, Hash(r)),
              msg |-> [Msg(SnapshotAnnouncement) EXCEPT !.snapshot = s, !.commitment = Hash(r)]]
      BY <3>1
    <3>. QED  BY <3>2, <1>7
  <2>8. CASE hm \in CommitmentMessages
    <3>1. PICK h \in Vals : hm \in UNION {{[bytes |-> buildSnapshotCommitmentMessage(Hash(h), Hash(r), w),
              msg |-> [Msg(SnapshotCommitment) EXCEPT !.snapshotHash = Hash(h),
                       !.commitment = Hash(r), !.wantTx = w]]
             : w \in BOOLEAN} : r \in Vals}
      BY <2>8, ZenonT(60) DEF CommitmentMessages
    <3>2. PICK r \in Vals : hm \in {[bytes |-> buildSnapshotCommitmentMessage(Hash(h), Hash(r), w),
              msg |-> [Msg(SnapshotCommitment) EXCEPT !.snapshotHash = Hash(h),
                       !.commitment = Hash(r), !.wantTx = w]]
             : w \in BOOLEAN}
      BY <3>1
    <3>3. PICK w \in BOOLEAN : hm = [bytes |-> buildSnapshotCommitmentMessage(Hash(h), Hash(r), w),
              msg |-> [Msg(SnapshotCommitment) EXCEPT !.snapshotHash = Hash(h),
                       !.commitment = Hash(r), !.wantTx = w]]
      BY <3>2
    <3>. QED  BY <3>3, <1>8
  <2>9. CASE hm \in ChallengeMessages
    <3>1. PICK h \in Vals : hm \in UNION {UNION {{[bytes |-> buildTransactionChallengeMessage(Hash(h), Fill(64, g), mk, tx),
              msg |-> [Msg(TransactionChallenge) EXCEPT !.snapshotHash = Hash(h),
                       !.cosiSig = Fill(64, g), !.cosiMask = mk, !.transaction = tx]]
             : tx \in Vals \cup {Nil}} : mk \in Masks} : g \in Vals}
      BY <2>9, ZenonT(120) DEF ChallengeMessages
    <3>2. PICK g \in Vals : hm \in UNION {{[bytes |-> buildTransactionChallengeMessage(Hash(h), Fill(64, g), mk, tx),
              msg |-> [Msg(TransactionChallenge) EXCEPT !.snapshotHash = Hash(h),
                       !.cosiSig = Fill(64, g), !.cosiMask = mk, !.transaction = tx]]
             : tx \in Vals \cup {Nil}} : mk \in Masks}
      BY <3>1, ZenonT(120)
    <3>3. PICK mk \in Masks : hm \in {[bytes |-> buildTransactionChallengeMessage(Hash(h), Fill(64, g), mk, tx),
              msg |-> [Msg(TransactionChallenge) EXCEPT !.snapshotHash = Hash(h),
                       !.cosiSig = Fill(64, g), !.cosiMask = mk, !.transaction = tx]]
             : tx \in Vals \cup {Nil}}
      BY <3>2
    <3>4. PICK tx \in Vals \cup {Nil} : hm = [bytes |-> buildTransactionChallengeMessage(Hash(h), Fill(64, g), mk, tx),
              msg |-> [Msg(TransactionChallenge) EXCEPT !.snapshotHash = Hash(h),
                       !.cosiSig = Fill(64, g), !.cosiMask = mk, !.transaction = tx]]
      BY <3>3
    <3>. QED  BY <3>4, <1>9
  <2>10. CASE hm \in ResponseMessages
    <3>1. PICK h \in Vals : hm \in {[bytes |-> buildSnapshotResponseMessage(Hash(h), Hash(s)),
              msg |-> [Msg(SnapshotResponse) EXCEPT !.snapshotHash = Hash(h), !.response = Hash(s)]]
             : s \in Vals}
      BY <2>10, ZenonT(60) DEF ResponseMessages
    <3>2. PICK s \in Vals : hm = [bytes |-> buildSnapshotResponseMessage(Hash(h), Hash(s)),
              msg |-> [Msg(SnapshotResponse) EXCEPT !.snapshotHash = Hash(h), !.response = Hash(s)]]
      BY <3>1
    <3>. QED  BY <3>2, <1>8
  <2>11. CASE hm \in FinalizationMessages
    BY <2>11, <1>6 DEF FinalizationMessages
  <2>. QED  BY <2>1, <2>2, <2>3, <2>4, <2>5, <2>6, <2>7, <2>8, <2>9, <2>10, <2>11
    DEF HonestMessages

\* What a forger sends after the tag, before it is cut to n bytes.
ForgedPayload(k) == BE64(Now) \o Fill(32, k) \o Zero(MaxPayload)

\* Every forged message is a byte string: a tag and a prefix of a timestamp,
\* a member's id and zeros.
LEMMA ForgedBytes ==
    \A d \in Forged : d \in Bytes
<1>1. \A t \in Tags \cup {0} : <<t>> \in Bytes
  <2>. SUFFICES ASSUME NEW t \in Tags \cup {0} PROVE <<t>> \in Bytes
    OBVIOUS
  <2>1. t \in 0..255
    BY DEF Tags, Ping, Authentication, Graph, SnapshotConfirm,
     TransactionRequest, Transaction, SnapshotAnnouncement, SnapshotCommitment,
     TransactionChallenge, SnapshotResponse, SnapshotFinalization
  <2>. QED  BY <2>1, TagBytes
<1>2. ASSUME NEW k \in Members, NEW n \in 0..MaxPayload
      PROVE  SubSeq(ForgedPayload(k), 1, n) \in Bytes
  <2>0. k \in 0..255 /\ 0 \in 0..255 /\ 32 \in Nat /\ MaxPayload \in Nat /\ Now \in Int
    OBVIOUS
  <2>1. BE64(Now) \in Bytes /\ Len(BE64(Now)) = 8
    BY <2>0, BE64Bytes
  <2>2. Fill(32, k) \in Bytes /\ Len(Fill(32, k)) = 32
    BY <2>0, FillBytes
  <2>3. Zero(MaxPayload) \in Bytes /\ Len(Zero(MaxPayload)) = MaxPayload
    BY <2>0, FillBytes DEF Zero
  <2>4. BE64(Now) \o Fill(32, k) \in Bytes /\ Len(BE64(Now) \o Fill(32, k)) = 40
    <3>1. BE64(Now) \o Fill(32, k) \in Bytes
          /\ Len(BE64(Now) \o Fill(32, k)) = Len(BE64(Now)) + Len(Fill(32, k))
      BY <2>1, <2>2, ConcatBytes
    <3>2. 8 + 32 = 40
      OBVIOUS
    <3>3. Len(BE64(Now)) + Len(Fill(32, k)) = 40
      BY <2>1, <2>2, <3>2, Zenon
    <3>. QED  BY <3>1, <3>3
  <2>5. ForgedPayload(k) \in Bytes /\ Len(ForgedPayload(k)) = 40 + MaxPayload
    <3>1. ForgedPayload(k) \in Bytes /\ Len(ForgedPayload(k)) = Len(BE64(Now) \o Fill(32, k)) + Len(Zero(MaxPayload))
      BY <2>3, <2>4, ConcatBytes DEF ForgedPayload
    <3>. QED  BY <2>3, <2>4, <3>1
  <2>6. \A i \in 1..n : ForgedPayload(k)[i] \in 0..255
    <3>. SUFFICES ASSUME NEW i \in 1..n PROVE ForgedPayload(k)[i] \in 0..255
      OBVIOUS
    <3>1. i \in 1..Len(ForgedPayload(k))
      BY <2>0, <2>5
    <3>. QED  BY <2>5, <3>1, ElementOfSeq DEF Bytes
  <2>. QED  BY <2>6, SubSeqProperties DEF Bytes
<1>3. SUFFICES ASSUME NEW d \in Forged PROVE d \in Bytes
  OBVIOUS
<1>4. CASE d = <<>>
  BY <1>4 DEF Bytes
<1>5. CASE d # <<>>
  <2>1. d \in UNION {UNION {{<<t>> \o SubSeq(ForgedPayload(k), 1, n)
                            : n \in 0..MaxPayload} : k \in Members} : t \in Tags \cup {0}}
    BY <1>5 DEF Forged, ForgedPayload
  <2>2. PICK t \in Tags \cup {0} :
          d \in UNION {{<<t>> \o SubSeq(ForgedPayload(k), 1, n)
                        : n \in 0..MaxPayload} : k \in Members}
    BY <2>1, ZenonT(60)
  <2>3. PICK k \in Members :
          d \in {<<t>> \o SubSeq(ForgedPayload(k), 1, n) : n \in 0..MaxPayload}
    BY <2>2
  <2>4. PICK n \in 0..MaxPayload : d = <<t>> \o SubSeq(ForgedPayload(k), 1, n)
    BY <2>3
  <2>. QED  BY <1>1, <1>2, <2>4, ConcatBytes
<1>. QED  BY <1>4, <1>5

-----------------------------------------------------------------------------
(* parseNetworkMessage returns "ok" or "error", never a panic.             *)

\* Ok, Err and Decoded outcomes.
LEMMA OutcomeFacts ==
    /\ \A m : Ok(m).outcome = "ok"
    /\ Err.outcome = "error"
    /\ \A v, m : Decoded(v, m).outcome \in {"ok", "error"}
BY DEF Ok, Err, Decoded

\* ParseChallenge checks the size before it slices: ChallengeFields, which
\* panics on fewer than 105 bytes, is reached with 105 or more.
LEMMA ChallengeOutcome ==
    ASSUME NEW d \in Bytes
    PROVE  ParseChallenge(d).outcome \in {"ok", "error"}
<1>1. Len(d) \in Nat
  BY LenProperties DEF Bytes
<1>2. CASE Len(d) - 1 < 104
  BY <1>2, OutcomeFacts DEF ParseChallenge
<1>3. CASE ~(Len(d) - 1 < 104)
  <2>1. ~(Len(d) < 105)
    BY <1>1, <1>3
  <2>. QED  BY <1>3, <2>1, OutcomeFacts DEF ParseChallenge, ChallengeFields
<1>. QED  BY <1>2, <1>3

\* ParseCommitment returns Ok or Err.
LEMMA CommitmentOutcome ==
    ASSUME NEW d
    PROVE  ParseCommitment(d).outcome \in {"ok", "error"}
BY OutcomeFacts DEF ParseCommitment

\* No byte string makes parseNetworkMessage panic.
LEMMA ParseOutcome ==
    ASSUME NEW d \in Bytes
    PROVE  parseNetworkMessage(d).outcome \in {"ok", "error"}
BY ChallengeOutcome, CommitmentOutcome, OutcomeFacts DEF parseNetworkMessage

\* Authenticate returns Ok, Err or, past the end of a short message without
\* spare capacity, a panic.
LEMMA AuthOutcome ==
    ASSUME NEW msg, NEW spare
    PROVE  Authenticate(msg, spare).outcome \in {"ok", "error", "panic"}
BY DEF Authenticate, AuthOk, AuthErr, AuthPanic, Beyond

-----------------------------------------------------------------------------
(* The invariants.                                                         *)

\* The inductive invariant: the typing of TypeOK, with no panic recorded.
\* TypeOK alone is inductive too; ParseNoPanic holds in every state it
\* allows only because the bytes on the wire are a byte string.
IInv == TypeOK /\ ParseNoPanic

LEMMA InitIInv == Init => IInv
BY DEF Init, IInv, TypeOK, ParseNoPanic

LEMMA NextIInv == IInv /\ [Next]_vars => IInv'
<1> SUFFICES ASSUME IInv, [Next]_vars PROVE IInv'
  OBVIOUS
<1>1. CASE SendHonest
  <2>1. PICK h \in HonestMessages : /\ inflight' = h.bytes
                                   /\ received' = Nil
    BY <1>1 DEF SendHonest
  <2>. QED  BY <2>1, HonestBytes DEF IInv, TypeOK, ParseNoPanic, Bytes
<1>2. CASE SendForged
  <2>1. PICK d \in Forged : /\ inflight' = d
                           /\ received' = Nil
    BY <1>2 DEF SendForged
  <2>. QED  BY <2>1, ForgedBytes DEF IInv, TypeOK, ParseNoPanic, Bytes
<1>3. CASE Receive
  <2>1. PICK spare \in BOOLEAN :
          LET parsed == parseNetworkMessage(inflight)
              auth == IF parsed.outcome = "ok" /\ parsed.msg.type = Authentication
                      THEN Authenticate(parsed.msg.auth, spare) ELSE Nil
          IN  /\ inflight # Nil
              /\ received' = [bytes |-> inflight, sent |-> intended,
                              parsed |-> parsed, auth |-> auth]
              /\ inflight' = Nil
    BY <1>3 DEF Receive
  <2>2. inflight \in Bytes
    BY <2>1 DEF IInv, TypeOK, Bytes
  <2>3. parseNetworkMessage(inflight).outcome \in {"ok", "error"}
    BY <2>2, ParseOutcome
  <2>. QED  BY <2>1, <2>3, AuthOutcome DEF IInv, TypeOK, ParseNoPanic
<1>4. CASE UNCHANGED vars
  BY <1>4 DEF vars, IInv, TypeOK, ParseNoPanic
<1>. QED  BY <1>1, <1>2, <1>3, <1>4 DEF Next

\* Type correctness: the wire holds a byte string or nothing, and every
\* outcome the receiver records is one that parseNetworkMessage and
\* Authenticate can return.
THEOREM TypeCorrect == Spec => []TypeOK
<1>1. IInv => TypeOK
  BY DEF IInv
<1>. QED  BY <1>1, InitIInv, NextIInv, PTL DEF Spec

\* No byte string, from an honest node or forged by anybody, makes
\* parseNetworkMessage (handle.go:189-256) panic: every slice it takes is
\* inside the size it has checked, for every set of members and values,
\* every clock and every payload length.
THEOREM ParseNoPanicHolds == Spec => []ParseNoPanic
<1>1. IInv => ParseNoPanic
  BY DEF IInv
<1>. QED  BY <1>1, InitIInv, NextIInv, PTL DEF Spec
=============================================================================
