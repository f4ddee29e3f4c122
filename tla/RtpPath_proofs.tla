--------------------------- MODULE RtpPath_proofs ---------------------------
(***************************************************************************)
(* The video path, for every SeqMod, access unit and number of senders: it *)
(* delivers whole NALs over every network, its variables keep their types  *)
(* under every race, and over a network that keeps the order of packets it *)
(* implements FrameDelivery.  The first and the last need that sequence    *)
(* numbers are given out by one thread and never start again within a      *)
(* stream: no audio sender beside a live video sender, and no resent       *)
(* parameter sets.  The run RtpAudioReset shows why.                       *)
(***************************************************************************)
EXTENDS RtpPath, RtpReceiver_proofs

-----------------------------------------------------------------------------
(***************************************************************************)
(* Arithmetic modulo the number of sequence numbers.                       *)
(***************************************************************************)
\* Division with remainder.
LEMMA DivisionExists ==
    ASSUME NEW M \in Nat, M > 0, NEW a \in Nat
    PROVE  \E q \in Nat : \E r \in 0..M-1 : a = q * M + r /\ a % M = r
<1>1. a = (a \div M) * M + (a % M)
  OBVIOUS
<1>2. a % M \in 0..M-1
  OBVIOUS
<1>3. a \div M \in Nat
  OBVIOUS
<1>4. QED
  BY <1>1, <1>2, <1>3

\* Quotient and remainder are determined.
LEMMA DivisionUnique ==
    ASSUME NEW M \in Nat, M > 0, NEW q \in Nat, NEW r \in 0..M-1,
           NEW s \in Nat, NEW t \in Nat, q * M + r = s * M + t, t < M
    PROVE  q = s /\ r = t
<1>1. CASE q = s
  BY <1>1
<1>2. CASE q < s
  <2>1. (s - q) * M >= M
    BY <1>2
  <2>2. r - t = (s-q)*M
    OBVIOUS
  <2>3. QED
    BY <2>1, <2>2
<1>3. CASE s < q
  <2>1. (q - s) * M >= M
    BY <1>3
  <2>2. t - r = (q-s)*M
    OBVIOUS
  <2>3. QED
    BY <2>1, <2>2
<1>4. QED
  BY <1>1, <1>2, <1>3

\* The remainder of q * M + r is r.
LEMMA RemainderIs ==
    ASSUME NEW M \in Nat, M > 0, NEW q \in Nat, NEW r \in 0..M-1
    PROVE  (q * M + r) % M = r
<1>1. q * M + r \in Nat
  OBVIOUS
<1> DEFINE a == q * M + r
<1>2. PICK s \in Nat : \E t \in 0..M-1 : a = s * M + t /\ a % M = t
  BY <1>1, DivisionExists
<1>3. QED
  BY <1>2, DivisionUnique

\* Numbers less than a cycle apart that agree modulo the cycle are equal.
LEMMA EqualWithinCycle ==
    ASSUME NEW M \in Nat, M > 0, NEW a \in Nat, NEW b \in Nat,
           a % M = b % M, a < b + M, b < a + M
    PROVE  a = b
<1>1. PICK q \in Nat : \E r \in 0..M-1 : a = q * M + r /\ a % M = r
  BY DivisionExists
<1>2. PICK r \in 0..M-1 : a = q * M + r /\ a % M = r
  BY <1>1
<1>3. PICK s \in Nat : \E t \in 0..M-1 : b = s * M + t /\ b % M = t
  BY DivisionExists
<1>8. b = s * M + r
  BY <1>2, <1>3
<1>4. CASE q = s
  BY <1>4, <1>2, <1>8
<1>5. CASE q < s
  <2>1. q + 1 =< s
    BY <1>5
  <2>2. (s - q) * M >= M
    BY <2>1
  <2>3. b - a = (s-q)*M
    BY <1>2, <1>8
  <2>4. QED
    BY <2>2, <2>3
<1>6. CASE s < q
  <2>1. s + 1 =< q
    BY <1>6
  <2>2. (q - s) * M >= M
    BY <2>1
  <2>3. a - b = (q-s)*M
    BY <1>2, <1>8
  <2>4. QED
    BY <2>2, <2>3
<1>7. QED
  BY <1>4, <1>5, <1>6

\* Incrementing before or after the reduction is the same: the sender reduces
\* an Int, the receiver increments a uint16_t.
LEMMA RemainderOfNext ==
    ASSUME NEW M \in Nat, M > 1, NEW a \in Nat
    PROVE  ((a % M) + 1) % M = (a + 1) % M
<1>1. PICK q \in Nat : \E r \in 0..M-1 : a = q * M + r /\ a % M = r
  BY DivisionExists
<1>2. PICK r \in 0..M-1 : a = q * M + r /\ a % M = r
  BY <1>1
<1>3. CASE r + 1 < M
  <2>1. a + 1 = q * M + (r+1)
    BY <1>2
  <2>2. (a+1) % M = r+1
    BY <2>1, <1>3, RemainderIs
  <2>3. (0*M + (r+1)) % M = r + 1
    BY <1>3, RemainderIs
  <2>4. QED
    BY <2>2, <2>3, <1>2
<1>4. CASE r + 1 = M
  <2>1. a + 1 = (q+1) * M + 0
    BY <1>2, <1>4
  <2>2. ((q+1) * M + 0) % M = 0
    BY RemainderIs
  <2>3. (1*M + 0) % M = 0
    BY RemainderIs
  <2>4. QED
    BY <2>1, <2>2, <2>3, <1>2, <1>4
<1>5. QED
  BY <1>3, <1>4

-----------------------------------------------------------------------------
(***************************************************************************)
(* What is on the wire, and where the sender is.                           *)
(***************************************************************************)
FragmentOk(p) ==
    /\ p.kind = (IF p.of = 1 THEN "single" ELSE "fu")
    /\ p.frag \in 1..p.of
    /\ p.kind = "fu" => /\ p.start <=> p.frag = 1
                        /\ p.end <=> p.frag = p.of
    /\ p.seq = p.num % SeqMod

SameNal(p, q) == <<p.ssrc, p.unit, p.nal, p.of>> = <<q.ssrc, q.unit, q.nal, q.of>>

\* Fragments are adjacent on the wire, and a stream numbers its packets in turn.
WireOk ==
    /\ wire \in Seq(Packet)
    /\ \A i \in 1..Len(wire) :
        /\ wire[i].at = i
        /\ wire[i].ssrc <= ssrc
        /\ FragmentOk(wire[i])
        /\ wire[i].frag > 1 => /\ i > 1
                               /\ SameNal(wire[i], wire[i-1])
                               /\ wire[i].frag = wire[i-1].frag + 1
        /\ wire[i].ssrc = ssrc => wire[i].num + Len(wire) + 1 = sequenceNumber + i
    /\ \A i, j \in 1..Len(wire) :
        wire[i].ssrc = wire[j].ssrc => wire[i].num + j = wire[j].num + i

\* The sender, and between two fragments of a NAL what it sent last.
SenderOk ==
    /\ units \in Nat /\ nalNo \in Nat /\ fragNo \in Nat
    /\ ssrc \in Nat /\ sequenceNumber \in Nat
    /\ todo \in Seq(NalShape)
    /\ burst.left = <<>>
    /\ todo = <<>> => fragNo = 0
    /\ fragNo > 0 =>
        /\ Len(wire) > 0
        /\ fragNo < Head(todo).of
        /\ LET q == wire[Len(wire)] IN
           <<q.ssrc, q.unit, q.nal, q.of, q.frag>> =
           <<ssrc, units, nalNo, Head(todo).of, fragNo>>

Sent(p) == p.at \in 1..Len(wire) /\ wire[p.at] = p

WholeNalSet == {n \in Nal : n # <<>> /\ Whole(n)}

\* The first fragments of one NAL, the last of which is on the wire.
Begun(n) ==
    /\ n \in Nal /\ n # <<>>
    /\ \A i \in 1..Len(n) : n[i].frag = i /\ SameNal(n[i], n[1])
    /\ Sent(n[Len(n)])

HeldOk ==
    /\ frameBuf \in Seq(WholeNalSet)
    /\ pendingParams \in Seq(WholeNalSet)
    /\ frameData \in Seq(WholeNalSet)
    /\ fu.active => Begun(fu.payload)

(***************************************************************************)
(* The inductive invariant.  RInv is the receiver's own.                   *)
(***************************************************************************)
PInv ==
    /\ RInv
    /\ SenderOk
    /\ WireOk
    /\ inFlight \subseteq 1..Len(wire)
    /\ HeldOk

-----------------------------------------------------------------------------
\* The numbers in a packet are numbers.
LEMMA PacketFields ==
    ASSUME NEW p \in Packet
    PROVE  /\ p.ssrc \in Nat /\ p.num \in Nat /\ p.at \in Nat
           /\ p.frag \in Nat /\ p.of \in Nat /\ p.seq \in 0..SeqMod-1
BY DEF Packet

\* So they are on the wire.
LEMMA WirePackets ==
    ASSUME WireOk, NEW i \in 1..Len(wire)
    PROVE  wire[i] \in Packet /\ wire[i].num \in Nat /\ wire[i].ssrc \in Nat
<1>1. wire \in Seq(Packet)
  BY DEF WireOk
<1>2. wire[i] \in Packet
  BY <1>1
<1>3. QED
  BY <1>2, PacketFields

\* The packet the sender makes is a well-formed one and continues the wire.
LEMMA NextPacketOk ==
    ASSUME SenderOk, WireOk, todo # <<>>
    PROVE  /\ NextPacket \in Packet
           /\ FragmentOk(NextPacket)
           /\ Head(todo) \in NalShape
           /\ NextPacket.frag = fragNo + 1 /\ NextPacket.of = Head(todo).of
           /\ NextPacket.at = Len(wire) + 1 /\ NextPacket.num = sequenceNumber
           /\ NextPacket.ssrc = ssrc /\ NextPacket.unit = units /\ NextPacket.nal = nalNo
<1>1. Head(todo) \in NalShape
  BY DEF SenderOk
<1>2. /\ Head(todo).type \in NalTypes
      /\ Head(todo).of \in Nat \ {0}
  BY <1>1 DEF NalShape
<1>3. sequenceNumber % SeqMod \in 0..SeqMod-1
  BY SeqModAssumption DEF SenderOk
<1>4. fragNo + 1 \in 1..Head(todo).of
  BY <1>2 DEF SenderOk
<1>5. Len(wire) + 1 \in Nat
  <2>1. Len(wire) \in Nat
    BY DEF WireOk
  <2>2. QED
    BY <2>1
<1> DEFINE closing == fragNo + 1 = Head(todo).of /\ IsSlice(Head(todo)) /\ IsLastNalOfFrame
           kind == IF Head(todo).of = 1 THEN "single" ELSE "fu"
           starts == Head(todo).of > 1 /\ fragNo + 1 = 1
           ends == Head(todo).of > 1 /\ fragNo + 1 = Head(todo).of
<1>6. NextPacket =
        [ssrc |-> ssrc, seq |-> sequenceNumber % SeqMod, marker |-> closing,
         kind |-> kind, type |-> Head(todo).type, start |-> starts, end |-> ends,
         unit |-> units, nal |-> nalNo, frag |-> fragNo + 1, of |-> Head(todo).of,
         at |-> Len(wire) + 1, num |-> sequenceNumber]
  BY DEF NextPacket
<1>7. closing \in BOOLEAN /\ starts \in BOOLEAN /\ ends \in BOOLEAN /\ kind \in Kinds
  BY DEF Kinds
<1>8. kind = "fu" => (starts <=> fragNo + 1 = 1) /\ (ends <=> fragNo + 1 = Head(todo).of)
  BY <1>2
<1> HIDE DEF closing, starts, ends
<1>9. NextPacket \in Packet
  BY <1>2, <1>3, <1>4, <1>5, <1>6, <1>7 DEF Packet, SenderOk
<1>10. FragmentOk(NextPacket)
  BY <1>4, <1>6, <1>8 DEF FragmentOk
<1>11. QED
  BY <1>1, <1>6, <1>9, <1>10

-----------------------------------------------------------------------------
\* The wire after one more packet of the drain thread.
LEMMA SendKeepsWire ==
    ASSUME SenderOk, WireOk, SendPacket
    PROVE  /\ WireOk'
           /\ Len(wire') = Len(wire) + 1
           /\ \A i \in 1..Len(wire) : wire'[i] = wire[i]
<1> DEFINE p == NextPacket
           l == Len(wire)
<1>1. /\ p \in Packet /\ FragmentOk(p)
      /\ p.frag = fragNo + 1 /\ p.of = Head(todo).of
      /\ p.at = l + 1 /\ p.num = sequenceNumber
      /\ p.ssrc = ssrc /\ p.unit = units /\ p.nal = nalNo
  BY NextPacketOk DEF SendPacket
<1>2. /\ wire' = Append(wire, p) /\ sequenceNumber' = sequenceNumber + 1 /\ ssrc' = ssrc
  BY DEF SendPacket
<1> HIDE DEF p
<1>3. l \in Nat /\ fragNo \in Nat /\ ssrc \in Nat /\ sequenceNumber \in Nat
  BY DEF WireOk, SenderOk
<1>4. /\ wire' \in Seq(Packet) /\ Len(wire') = l + 1
      /\ wire'[l+1] = p
      /\ \A i \in 1..l : wire'[i] = wire[i]
  BY <1>1, <1>2 DEF WireOk
<1>5. \A i \in 1..l : wire[i] \in Packet /\ wire[i].num \in Nat /\ wire[i].ssrc \in Nat
  BY WirePackets
<1>6. p.frag > 1 => l+1 > 1 /\ SameNal(p, wire[l]) /\ p.frag = wire[l].frag + 1
  BY <1>1, <1>3 DEF SenderOk, SameNal
<1>7. \A i \in 1..l+1 :
        /\ wire'[i].at = i
        /\ wire'[i].ssrc <= ssrc
        /\ FragmentOk(wire'[i])
        /\ wire'[i].frag > 1 => /\ i > 1
                                /\ SameNal(wire'[i], wire'[i-1])
                                /\ wire'[i].frag = wire'[i-1].frag + 1
        /\ wire'[i].ssrc = ssrc => wire'[i].num + (l+1) + 1 = (sequenceNumber + 1) + i
  <2> TAKE i \in 1..l+1
  <2>1. CASE i \in 1..l
    <3>1. i > 1 => wire'[i-1] = wire[i-1]
      BY <1>4, <2>1
    <3>2. wire[i].ssrc = ssrc => wire[i].num + (l+1) + 1 = (sequenceNumber + 1) + i
      <4>1. wire[i].ssrc = ssrc => wire[i].num + l + 1 = sequenceNumber + i
        BY <2>1 DEF WireOk
      <4>2. QED
        BY <1>3, <1>5, <2>1, <4>1
    <3>3. wire'[i] = wire[i]
      BY <1>4, <2>1
    <3>4. QED
      BY <2>1, <3>1, <3>2, <3>3 DEF WireOk
  <2>2. CASE i = l+1
    <3>1. l+1 > 1 => wire'[l] = wire[l]
      BY <1>3, <1>4
    <3>2. QED
      BY <1>1, <1>3, <1>4, <1>6, <2>2, <3>1
  <2>3. QED
    BY <1>3, <2>1, <2>2
<1>8. \A i, j \in 1..l+1 :
        wire'[i].ssrc = wire'[j].ssrc => wire'[i].num + j = wire'[j].num + i
  <2> TAKE i, j \in 1..l+1
  <2>1. CASE i \in 1..l /\ j \in 1..l
    BY <1>4, <2>1 DEF WireOk
  <2>2. CASE i \in 1..l /\ j = l+1
    <3>1. wire[i].ssrc = ssrc => wire[i].num + l + 1 = sequenceNumber + i
      BY <2>2 DEF WireOk
    <3>2. wire'[i] = wire[i] /\ wire'[j] = p /\ wire[i].num \in Nat
      BY <1>4, <1>5, <2>2
    <3>3. QED
      BY <1>1, <1>3, <2>2, <3>1, <3>2
  <2>3. CASE i = l+1 /\ j \in 1..l
    <3>1. wire[j].ssrc = ssrc => wire[j].num + l + 1 = sequenceNumber + j
      BY <2>3 DEF WireOk
    <3>2. wire'[j] = wire[j] /\ wire'[i] = p /\ wire[j].num \in Nat
      BY <1>4, <1>5, <2>3
    <3>3. QED
      BY <1>1, <1>3, <2>3, <3>1, <3>2
  <2>4. CASE i = l+1 /\ j = l+1
    BY <2>4
  <2>5. QED
    BY <1>3, <2>1, <2>2, <2>3, <2>4
<1>9. FragmentOk(wire[1])' <=> FragmentOk(wire'[1])
  BY DEF FragmentOk
<1>10. WireOk'
  BY <1>2, <1>4, <1>7, <1>8 DEF WireOk, FragmentOk, SameNal
<1>11. QED
  BY <1>4, <1>10

\* The sender after one more packet of the drain thread.
LEMMA SendKeepsSender ==
    ASSUME SenderOk, WireOk, SendPacket
    PROVE  SenderOk'
<1>1. /\ NextPacket.frag = fragNo + 1 /\ NextPacket.of = Head(todo).of
      /\ NextPacket.ssrc = ssrc /\ NextPacket.unit = units /\ NextPacket.nal = nalNo
      /\ NextPacket \in Packet /\ FragmentOk(NextPacket) /\ Head(todo) \in NalShape
  BY NextPacketOk DEF SendPacket
<1>2. Len(wire') = Len(wire) + 1 /\ Len(wire) \in Nat /\ wire'[Len(wire')] = NextPacket
  BY <1>1 DEF SendPacket, WireOk
<1>3. Tail(todo) \in Seq(NalShape) /\ todo # <<>>
  BY DEF SenderOk, SendPacket
<1>4. /\ units' = units /\ ssrc' = ssrc /\ burst' = burst
      /\ sequenceNumber' = sequenceNumber + 1
      /\ units \in Nat /\ nalNo \in Nat /\ fragNo \in Nat /\ ssrc \in Nat
      /\ sequenceNumber \in Nat /\ todo \in Seq(NalShape) /\ burst.left = <<>>
  BY DEF SenderOk, SendPacket
<1>5. CASE NextPacket.frag = NextPacket.of
  <2>1. todo' = Tail(todo) /\ nalNo' = nalNo + 1 /\ fragNo' = 0
    BY <1>5 DEF SendPacket
  <2>2. QED
    BY <1>3, <1>4, <2>1 DEF SenderOk
<1>6. CASE NextPacket.frag # NextPacket.of
  <2>1. todo' = todo /\ nalNo' = nalNo /\ fragNo' = fragNo + 1
    BY <1>6 DEF SendPacket
  <2>2. fragNo + 1 < Head(todo).of
    BY <1>1, <1>4, <1>6 DEF FragmentOk, NalShape
  <2>3. QED
    BY <1>1, <1>2, <1>3, <1>4, <2>1, <2>2 DEF SenderOk
<1>7. QED
  BY <1>5, <1>6

\* Everything else the phone does leaves the wire alone.
LEMMA OthersKeep ==
    ASSUME ~AudioStarts, ~CachedParams, SenderOk, WireOk,
           Encode \/ DropStale \/ SendFragmentFails \/ StartAudio \/ Redirect \/ Burst
    PROVE  SenderOk' /\ WireOk' /\ wire' = wire
<1>1. CASE Encode
  <2>1. todo' \in Seq(NalShape) /\ fragNo = 0
    BY <1>1, SenderAssumption DEF Encode, SenderOk
  <2>2. QED
    BY <1>1, <2>1 DEF Encode, SenderOk, WireOk
<1>2. CASE DropStale
  <2>1. Tail(todo) \in Seq(NalShape)
    BY <1>2 DEF DropStale, SenderOk
  <2>2. QED
    BY <1>2, <2>1 DEF DropStale, SenderOk, WireOk
<1>3. CASE SendFragmentFails
  BY <1>3 DEF SendFragmentFails, SenderOk, WireOk
<1>4. CASE StartAudio
  BY <1>4 DEF StartAudio
<1>5. CASE Redirect
  <2>1. /\ wire' = wire /\ ssrc' = ssrc + 1 /\ ssrc \in Nat /\ fragNo = 0
        /\ sequenceNumber' = 0 /\ burst'.left = <<>>
        /\ UNCHANGED <<units, todo, nalNo, fragNo>>
    BY <1>5 DEF Redirect, LockFree, SenderOk
  <2>2. \A i \in 1..Len(wire) : wire[i].ssrc \in Nat /\ wire[i].ssrc <= ssrc
    BY WirePackets DEF WireOk
  <2>3. \A i \in 1..Len(wire) : wire[i].ssrc <= ssrc + 1 /\ wire[i].ssrc # ssrc + 1
    BY <2>1, <2>2
  <2>4. WireOk'
    BY <2>1, <2>3 DEF WireOk, FragmentOk, SameNal
  <2>5. SenderOk'
    BY <2>1 DEF SenderOk
  <2>6. QED
    BY <2>1, <2>4, <2>5
<1>6. CASE Burst
  BY <1>6 DEF Burst, BurstSend, BurstRead, BurstWrite, SenderOk
<1>7. QED
  BY <1>1, <1>2, <1>3, <1>4, <1>5, <1>6

-----------------------------------------------------------------------------
(***************************************************************************)
(* The receiver's side.                                                    *)
(***************************************************************************)
\* A packet that is no fragment carries a whole NAL.
LEMMA SinglePacketWhole ==
    ASSUME NEW p \in Packet, FragmentOk(p), p.kind # "fu"
    PROVE  <<p>> \in WholeNalSet
<1>1. p.of = 1 /\ p.frag = 1
  BY PacketFields DEF FragmentOk
<1>2. <<p>> \in Nal /\ Len(<<p>>) = 1 /\ <<p>>[1] = p /\ <<p>> # <<>>
  BY DEF Nal
<1>3. QED
  BY <1>1, <1>2 DEF WholeNalSet, Whole

\* The marker check moves a frame, it does not change one.
LEMMA CheckMarkerWhole ==
    ASSUME NEW p, NEW buf \in Seq(WholeNalSet), NEW data \in Seq(WholeNalSet), NEW done,
           CheckMarker(p, buf, data, done)
    PROVE  frameBuf' \in Seq(WholeNalSet) /\ frameData' \in Seq(WholeNalSet)
<1>1. <<>> \in Seq(WholeNalSet)
  OBVIOUS
<1>2. QED
  BY <1>1 DEF CheckMarker

\* Two packets of one stream less than a cycle apart, with consecutive sequence
\* numbers, were sent one right after the other.
LEMMA Adjacent ==
    ASSUME WireOk, NEW p \in Packet, NEW q \in Packet, Sent(p), Sent(q),
           p.ssrc = q.ssrc, p.seq = NextSeq(q.seq),
           p.at + SeqMod > q.at + 1, p.at <= q.at + SeqMod
    PROVE  p.at = q.at + 1
<1>1. /\ p.num + q.at = q.num + p.at
      /\ p.seq = p.num % SeqMod /\ q.seq = q.num % SeqMod
  <2>1. /\ p.at \in 1..Len(wire) /\ wire[p.at] = p
        /\ q.at \in 1..Len(wire) /\ wire[q.at] = q
    BY DEF Sent
  <2>2. \A i, j \in 1..Len(wire) :
          wire[i].ssrc = wire[j].ssrc => wire[i].num + j = wire[j].num + i
    BY DEF WireOk
  <2>3. p.num + q.at = q.num + p.at
    BY <2>1, <2>2
  <2>4. \A i \in 1..Len(wire) : wire[i].seq = wire[i].num % SeqMod
    BY DEF WireOk, FragmentOk
  <2>5. QED
    BY <2>1, <2>3, <2>4
<1>2. /\ p.num \in Nat /\ q.num \in Nat /\ p.at \in Nat /\ q.at \in Nat
      /\ SeqMod \in Nat /\ SeqMod > 1
  BY PacketFields, SeqModAssumption
<1>3. p.num % SeqMod = (q.num + 1) % SeqMod
  BY <1>1, <1>2, RemainderOfNext DEF NextSeq
<1>4. p.num < (q.num + 1) + SeqMod /\ q.num + 1 < p.num + SeqMod /\ q.num + 1 \in Nat
  BY <1>1, <1>2
<1>5. p.num = q.num + 1
  <2> DEFINE b == q.num + 1
  <2>1. b \in Nat /\ p.num % SeqMod = b % SeqMod /\ p.num < b + SeqMod /\ b < p.num + SeqMod
    BY <1>3, <1>4
  <2> HIDE DEF b
  <2>2. p.num = b
    <3>1. SeqMod > 0 /\ SeqMod \in Nat /\ p.num \in Nat
      BY <1>2
    <3>2. QED
      BY <2>1, <3>1, EqualWithinCycle
  <2>3. QED
    BY <2>2 DEF b
<1>6. QED
  BY <1>1, <1>2, <1>5

\* The expected fragment continues the NAL, and ends it when it is the last.
LEMMA NextFragmentWhole ==
    ASSUME PInv, NEW p \in Packet, Sent(p), WithinACycle(p), ReceiveNextFragment(p)
    PROVE  LET parts == Append(FuAt(p).payload, p) IN
           /\ p.end => parts \in WholeNalSet
           /\ ~p.end => Begun(parts)
<1> DEFINE n == fu.payload
           l == Len(n)
           q == n[l]
           parts == Append(n, p)
<1>1. FuAt(p) = fu /\ fu.active
  <2>1. FuAt(p).active /\ FuOf(fu, lastSsrc)
    BY DEF ReceiveNextFragment, PInv, RInv
  <2>2. ~NewStream(p)
    BY <2>1 DEF FuAt, ResetFu, FuOf
  <2>3. QED
    BY <2>1, <2>2 DEF FuAt
<1>2. Begun(n)
  BY <1>1 DEF PInv, HeldOk
<1>3. /\ n \in Seq(Packet) /\ l \in Nat \ {0} /\ l \in 1..l /\ q \in Packet /\ Sent(q)
      /\ \A i \in 1..l : n[i].frag = i /\ SameNal(n[i], n[1])
  BY <1>2 DEF Begun, Nal
<1>4. p.ssrc = q.ssrc /\ p.seq = NextSeq(q.seq)
  <2>1. FuOf(FuAt(p), p.ssrc)
    BY SameStream DEF PInv
  <2>2. q.ssrc = p.ssrc /\ Unfinished(n, fu.expected)
    BY <1>1, <1>3, <2>1 DEF FuOf
  <2>3. p.seq = fu.expected
    BY <1>1 DEF ReceiveNextFragment
  <2>4. QED
    BY <2>2, <2>3 DEF Unfinished
<1>5. p.at + SeqMod > q.at + 1 /\ p.at <= q.at + SeqMod
  BY <1>1 DEF WithinACycle
<1>6. p.at = q.at + 1
  BY <1>3, <1>4, <1>5, Adjacent DEF PInv
<1>7. p.kind = "fu" /\ ~p.start /\ FragmentOk(p) /\ p.frag > 1
  <2>1. p.kind = "fu" /\ ~p.start
    BY DEF ReceiveNextFragment
  <2>2. FragmentOk(p)
    BY DEF PInv, WireOk, Sent
  <2>3. QED
    BY <2>1, <2>2, PacketFields DEF FragmentOk
<1>8. SameNal(p, q) /\ p.frag = l + 1
  <2>1. wire[p.at - 1] = q
    BY <1>3, <1>6, PacketFields DEF Sent
  <2>2. SameNal(p, wire[p.at - 1]) /\ p.frag = wire[p.at - 1].frag + 1
    BY <1>7 DEF PInv, WireOk, Sent
  <2>3. QED
    BY <1>3, <2>1, <2>2
<1>9. /\ parts \in Nal /\ Len(parts) = l + 1 /\ parts # <<>> /\ parts[1] = n[1]
      /\ \A i \in 1..l : parts[i] = n[i]
      /\ parts[l+1] = p
  BY <1>3 DEF Nal
<1>10. \A i \in 1..l+1 : parts[i].frag = i /\ SameNal(parts[i], parts[1])
  <2> TAKE i \in 1..l+1
  <2>1. CASE i \in 1..l
    BY <1>3, <1>9, <2>1
  <2>2. CASE i = l+1
    <3>1. SameNal(q, n[1])
      BY <1>3
    <3>2. QED
      BY <1>8, <1>9, <2>2, <3>1 DEF SameNal
  <2>3. QED
    BY <1>3, <2>1, <2>2
<1>11. ~p.end => Begun(parts)
  BY <1>9, <1>10 DEF Begun
<1>12. p.end => parts \in WholeNalSet
  <2> HAVE p.end
  <2>1. p.frag = p.of
    BY <1>7 DEF FragmentOk
  <2>2. parts[1].of = l + 1
    BY <1>3, <1>8, <1>9, <1>10, <2>1 DEF SameNal
  <2>3. Whole(parts)
    BY <1>9, <1>10, <2>2 DEF Whole, SameNal
  <2>4. QED
    BY <1>9, <2>3 DEF WholeNalSet
<1>13. QED
  BY <1>1, <1>11, <1>12

\* Keeping a fragment keeps frames whole.
LEMMA CollectFragmentWhole ==
    ASSUME NEW p \in Packet, NEW parts, NEW buf \in Seq(WholeNalSet),
           ParamsAt(p) \in Seq(WholeNalSet), NEW data \in Seq(WholeNalSet), NEW done,
           p.end => parts \in WholeNalSet,
           ~p.end => Begun(parts),
           CollectFragment(p, parts, buf, data, done),
           wire' = wire
    PROVE  HeldOk'
<1>1. CASE p.end
  <2> DEFINE added == AddNal(buf, ParamsAt(p), parts)
  <2>1. added \in Seq(WholeNalSet) /\ ParamsLeft(ParamsAt(p), parts) \in Seq(WholeNalSet)
    BY <1>1, AddNalInS
  <2>2. /\ ~fu'.active
        /\ pendingParams' = ParamsLeft(ParamsAt(p), parts)
        /\ CheckMarker(p, added, data, done)
    BY <1>1 DEF CollectFragment
  <2> HIDE DEF added
  <2>3. QED
    BY <2>1, <2>2, CheckMarkerWhole DEF HeldOk
<1>2. CASE ~p.end
  <2>1. /\ fu'.payload = parts
        /\ pendingParams' = ParamsAt(p)
        /\ CheckMarker(p, buf, data, done)
    BY <1>2 DEF CollectFragment
  <2>2. Begun(fu'.payload)
    BY <1>2, <2>1
  <2>3. Begun(fu.payload)'
    BY <2>2 DEF Begun, Sent
  <2>4. QED
    BY <2>1, <2>3, CheckMarkerWhole DEF HeldOk
<1>3. QED
  BY <1>1, <1>2

\* One packet from the wire keeps frames whole.
LEMMA ReceiveWhole ==
    ASSUME PInv, NEW p \in Packet, Sent(p), WithinACycle(p), Receive(p), wire' = wire
    PROVE  HeldOk'
<1>1. FragmentOk(p)
  BY DEF PInv, WireOk, Sent
<1>2. /\ BufAt(p) \in Seq(WholeNalSet) /\ ParamsAt(p) \in Seq(WholeNalSet)
      /\ frameData \in Seq(WholeNalSet) /\ <<>> \in Seq(WholeNalSet)
  BY DEF PInv, HeldOk, BufAt, ParamsAt
<1>3. /\ FuAt(p).active => FuAt(p) = fu /\ Begun(fu.payload)
      /\ ~ResetFu(FuAt(p)).active
  <2>1. fu \in [active: BOOLEAN, expected: 0..SeqMod-1, payload: Nal]
    BY DEF PInv, RInv, FuOf
  <2>2. QED
    BY <2>1 DEF PInv, HeldOk, FuAt, ResetFu
<1>4. ASSUME fu' = FuAt(p) \/ fu' = ResetFu(FuAt(p))
      PROVE  fu'.active => Begun(fu.payload)'
  BY <1>3, <1>4 DEF Begun, Sent
<1>5. CASE ReceiveParam(p)
  <2>1. <<p>> \in WholeNalSet
    BY <1>1, <1>5, SinglePacketWhole DEF ReceiveParam
  <2>2. Append(ParamsAt(p), <<p>>) \in Seq(WholeNalSet)
    BY <1>2, <2>1
  <2>3. QED
    BY <1>2, <1>4, <1>5, <2>2 DEF ReceiveParam, HeldOk
<1>6. CASE ReceiveSingle(p)
  <2> DEFINE added == AddNal(BufAt(p), ParamsAt(p), <<p>>)
  <2>1. <<p>> \in WholeNalSet
    BY <1>1, <1>6, SinglePacketWhole DEF ReceiveSingle
  <2>2. added \in Seq(WholeNalSet) /\ ParamsLeft(ParamsAt(p), <<p>>) \in Seq(WholeNalSet)
    BY <1>2, <2>1, AddNalInS
  <2>3. /\ fu' = FuAt(p) \/ fu' = ResetFu(FuAt(p))
        /\ pendingParams' = ParamsLeft(ParamsAt(p), <<p>>)
        /\ CheckMarker(p, added, frameData, produced)
    BY <1>6 DEF ReceiveSingle
  <2> HIDE DEF added
  <2>4. QED
    BY <1>2, <1>4, <2>2, <2>3, CheckMarkerWhole DEF HeldOk
<1>7. CASE ReceiveFirstFragment(p)
  <2> DEFINE data == IF BufAt(p) # <<>> THEN BufAt(p) ELSE frameData
             done == BufAt(p) # <<>> \/ produced
  <2>1. p.kind = "fu" /\ p.start /\ CollectFragment(p, <<p>>, <<>>, data, done)
    BY <1>7 DEF ReceiveFirstFragment
  <2>2. data \in Seq(WholeNalSet)
    BY <1>2
  <2>3. p.frag = 1 /\ ~p.end
    BY <1>1, <2>1, PacketFields DEF FragmentOk
  <2>4. <<p>> \in Nal /\ <<p>> # <<>> /\ Len(<<p>>) = 1 /\ <<p>>[1] = p
    BY DEF Nal
  <2>5. Begun(<<p>>)
    BY <2>3, <2>4 DEF Begun, SameNal
  <2> HIDE DEF data, done
  <2>6. QED
    BY <1>2, <2>1, <2>2, <2>3, <2>5, CollectFragmentWhole
<1>8. CASE ReceiveNextFragment(p)
  <2> DEFINE parts == Append(FuAt(p).payload, p)
  <2>1. CollectFragment(p, parts, BufAt(p), frameData, produced)
    BY <1>8 DEF ReceiveNextFragment
  <2>2. /\ p.end => parts \in WholeNalSet
        /\ ~p.end => Begun(parts)
    BY <1>8, NextFragmentWhole
  <2> HIDE DEF parts
  <2>3. QED
    BY <1>2, <2>1, <2>2, CollectFragmentWhole
<1>9. CASE ReceiveStrayFragment(p)
  BY <1>2, <1>4, <1>9 DEF ReceiveStrayFragment, NothingKept, HeldOk
<1>10. CASE ReceiveAggregate(p)
  BY <1>1, <1>10 DEF ReceiveAggregate, FragmentOk
<1>11. CASE ReceiveOther(p)
  BY <1>1, <1>11 DEF ReceiveOther, FragmentOk
<1>12. QED
  BY <1>5, <1>6, <1>7, <1>8, <1>9, <1>10, <1>11 DEF Receive

-----------------------------------------------------------------------------
\* A step of the phone: the wire only grows, so what is held stays on it.
LEMMA TransmitKeeps ==
    ASSUME ~AudioStarts, ~CachedParams, PInv, Transmit
    PROVE  PInv'
<1>1. SenderNext /\ UNCHANGED rvars /\ inFlight' = inFlight \cup (Len(wire)+1 .. Len(wire'))
  BY DEF Transmit
<1>2. /\ SenderOk' /\ WireOk'
      /\ Len(wire') \in Nat /\ Len(wire) \in Nat /\ Len(wire) <= Len(wire')
      /\ \A i \in 1..Len(wire) : wire'[i] = wire[i]
  <2>1. CASE SendPacket
    BY <2>1, SendKeepsWire, SendKeepsSender DEF PInv, WireOk
  <2>2. CASE Encode \/ DropStale \/ SendFragmentFails \/ StartAudio \/ Redirect \/ Burst
    BY <2>2, OthersKeep DEF PInv, WireOk
  <2>3. QED
    BY <1>1, <2>1, <2>2 DEF SenderNext, Drain
<1>3. RInv'
  BY <1>1, CallKeeps DEF PInv
<1>4. inFlight' \subseteq 1..Len(wire')
  <2>1. inFlight \subseteq 1..Len(wire)
    BY DEF PInv
  <2>2. \A i \in 1..Len(wire) : i \in 1..Len(wire')
    BY <1>2
  <2>3. \A i \in Len(wire)+1 .. Len(wire') : i \in 1..Len(wire')
    BY <1>2
  <2>4. QED
    BY <1>1, <2>1, <2>2, <2>3
<1>5. \A p : Sent(p) => p.at \in 1..Len(wire') /\ wire'[p.at] = p
  BY <1>2 DEF Sent
<1>6. HeldOk'
  BY <1>1, <1>5 DEF PInv, HeldOk, Begun, Sent, rvars
<1>7. QED
  BY <1>2, <1>3, <1>4, <1>6 DEF PInv

\* The phone's part of the invariant over a step of the network or of OBS.
LEMMA PhoneUntouched ==
    ASSUME PInv, UNCHANGED svars, inFlight' \subseteq inFlight, RInv', HeldOk'
    PROVE  PInv'
BY DEF PInv, svars, SenderOk, WireOk, FragmentOk, SameNal

\* Every step of the path preserves the invariant.
LEMMA NextKeeps ==
    ASSUME ~AudioStarts, ~CachedParams, PInv, [Next]_vars
    PROVE  PInv'
<1>1. CASE Transmit
  BY <1>1, TransmitKeeps
<1>2. CASE Deliver
  <2>1. PICK i \in inFlight : WithinACycle(wire[i]) /\ Receive(wire[i])
    BY <1>2 DEF Deliver
  <2>2. UNCHANGED svars /\ inFlight' \subseteq inFlight
    BY <1>2 DEF Deliver
  <2>3. i \in 1..Len(wire) /\ wire[i] \in Packet /\ wire[i].at = i
    BY WirePackets DEF PInv, WireOk
  <2>4. Sent(wire[i]) /\ wire' = wire
    BY <2>2, <2>3 DEF Sent, svars
  <2>5. RInv' /\ HeldOk'
    BY <2>1, <2>3, <2>4, ReceiveKeeps, ReceiveWhole DEF PInv
  <2>6. QED
    BY <2>2, <2>5, PhoneUntouched
<1>3. CASE Lose \/ EnterCall \/ LeaveCall \/ UNCHANGED vars
  <2>1. /\ UNCHANGED svars /\ inFlight' \subseteq inFlight
        /\ Call \/ Return \/ UNCHANGED rvars
    BY <1>3 DEF Lose, EnterCall, LeaveCall, vars
  <2>2. UNCHANGED <<frameBuf, pendingParams, frameData, fu, wire>>
    BY <2>1 DEF Call, Return, rvars, svars
  <2>3. HeldOk'
    BY <2>2 DEF PInv, HeldOk, Begun, Sent, SameNal
  <2>4. QED
    BY <2>1, <2>3, CallKeeps, PhoneUntouched DEF PInv
<1>4. CASE Restart
  <2>1. Start /\ UNCHANGED svars /\ inFlight' \subseteq inFlight
    BY <1>4 DEF Restart
  <2>2. <<>> \in Seq(WholeNalSet)
    OBVIOUS
  <2>3. ~fu'.active
    BY <2>1 DEF PInv, RInv, FuOf, Start, ResetFu
  <2>4. HeldOk'
    BY <2>1, <2>2, <2>3 DEF HeldOk, Start
  <2>5. QED
    BY <2>1, <2>4, StartKeeps, PhoneUntouched DEF PInv
<1>5. QED
  BY <1>1, <1>2, <1>3, <1>4 DEF Next

\* Initially nothing is sent, and nothing held.
LEMMA InitPath ==
    ASSUME Init
    PROVE  PInv
<1>1. RInv
  BY InitHolds DEF Init
<1>2. wire = <<>> /\ Len(wire) = 0 /\ inFlight = {}
  BY DEF Init, SenderInit
<1>3. WireOk
  BY <1>2 DEF WireOk
<1>4. SenderOk
  BY DEF Init, SenderInit, SenderOk
<1>5. HeldOk
  <2>1. <<>> \in Seq(WholeNalSet)
    OBVIOUS
  <2>2. QED
    BY <2>1 DEF HeldOk, Init, ReceiverInit, NoFu
<1>6. QED
  BY <1>1, <1>2, <1>3, <1>4, <1>5 DEF PInv

\* While one thread numbers the packets of a stream and never starts again,
\* every NAL given to the decoder is one the encoder made, however packets are
\* lost, repeated and reordered within a cycle of sequence numbers.
THEOREM WholeNalsDelivered ==
    ASSUME ~AudioStarts, ~CachedParams
    PROVE  Spec => []WholeNals
<1>1. Init => PInv
  BY InitPath
<1>2. PInv /\ [Next]_vars => PInv'
  BY NextKeeps
<1>3. PInv => WholeNals
  BY DEF PInv, HeldOk, WholeNalSet, WholeNals
<1>4. QED
  BY <1>1, <1>2, <1>3, PTL DEF Spec

-----------------------------------------------------------------------------
(***************************************************************************)
(* Type correctness, with every race and every fault of the network.       *)
(***************************************************************************)
\* Sequence numbers stay in range.
Remainders == \A n \in Nat : n % SeqMod \in 0..SeqMod-1

LEMMA RemaindersInRange == Remainders
BY SeqModAssumption DEF Remainders

\* What either thread of the phone puts on the wire.
LEMMA PacketsTyped ==
    ASSUME TypeOK
    PROVE  /\ todo # <<>> => NextPacket \in Packet
           /\ \A type \in ParamTypes : ParamPacket(type) \in Packet
<1>1. /\ units \in Nat /\ nalNo \in Nat /\ fragNo + 1 \in Nat /\ ssrc \in Nat
      /\ sequenceNumber \in Nat /\ Len(wire) + 1 \in Nat
      /\ sequenceNumber % SeqMod \in 0..SeqMod-1
  BY SenderAssumption, RemaindersInRange DEF TypeOK, Remainders
<1>2. ASSUME todo # <<>>
      PROVE  NextPacket \in Packet
  <2> DEFINE closing == fragNo + 1 = Head(todo).of /\ IsSlice(Head(todo)) /\ IsLastNalOfFrame
             kind == IF Head(todo).of = 1 THEN "single" ELSE "fu"
             starts == Head(todo).of > 1 /\ fragNo + 1 = 1
             ends == Head(todo).of > 1 /\ fragNo + 1 = Head(todo).of
  <2>1. Head(todo) \in NalShape
    BY <1>2 DEF TypeOK
  <2>2. Head(todo).type \in NalTypes /\ Head(todo).of \in Nat
    BY <2>1 DEF NalShape
  <2>3. NextPacket =
        [ssrc |-> ssrc, seq |-> sequenceNumber % SeqMod, marker |-> closing,
         kind |-> kind, type |-> Head(todo).type, start |-> starts, end |-> ends,
         unit |-> units, nal |-> nalNo, frag |-> fragNo + 1, of |-> Head(todo).of,
         at |-> Len(wire) + 1, num |-> sequenceNumber]
    BY DEF NextPacket
  <2>4. closing \in BOOLEAN /\ starts \in BOOLEAN /\ ends \in BOOLEAN /\ kind \in Kinds
    BY DEF Kinds
  <2> HIDE DEF closing, starts, ends, kind
  <2>5. QED
    BY <1>1, <2>2, <2>3, <2>4 DEF Packet
<1>3. ASSUME NEW type \in ParamTypes
      PROVE  ParamPacket(type) \in Packet
  <2>1. type \in NalTypes /\ "single" \in Kinds
    BY DEF NalTypes, Kinds
  <2>2. QED
    BY <1>1, <2>1 DEF ParamPacket, Packet
<1>4. QED
  BY <1>2, <1>3

\* The phone's variables, over a step of one of its threads.
LEMMA SenderTyped ==
    ASSUME TypeOK, SenderNext
    PROVE  /\ units' \in 0..MaxUnits
           /\ todo' \in Seq(NalShape)
           /\ nalNo' \in Nat \ {0}
           /\ fragNo' \in Nat /\ (todo' = <<>> => fragNo' = 0)
           /\ ssrc' \in 1..(1 + MaxSenders)
           /\ sequenceNumber' \in Nat
           /\ draining' \in BOOLEAN
           /\ burst' \in [left: Seq(ParamTypes), pc: {"send", "read", "write"}, read: Nat]
           /\ wire' \in Seq(Packet) /\ Len(wire) <= Len(wire')
<1>1. /\ wire \in Seq(Packet) /\ Len(wire) \in Nat
      /\ \A p \in Packet : /\ Append(wire, p) \in Seq(Packet)
                           /\ Len(wire) <= Len(Append(wire, p))
  BY DEF TypeOK
<1>2. todo # <<>> => Tail(todo) \in Seq(NalShape)
  BY DEF TypeOK
<1>3. CASE Encode
  <2>1. todo' \in Seq(NalShape)
    BY <1>3, SenderAssumption DEF Encode
  <2>2. units' \in 0..MaxUnits
    BY <1>3, SenderAssumption DEF Encode, TypeOK
  <2>3. QED
    BY <1>1, <1>3, <2>1, <2>2 DEF Encode, TypeOK
<1>4. CASE SendPacket
  <2>1. NextPacket \in Packet
    BY <1>4, PacketsTyped DEF SendPacket
  <2>2. wire' \in Seq(Packet) /\ Len(wire) <= Len(wire')
    BY <1>1, <1>4, <2>1 DEF SendPacket
  <2>3. CASE NextPacket.frag = NextPacket.of
    <3>1. todo' = Tail(todo) /\ nalNo' = nalNo + 1 /\ fragNo' = 0 /\ todo # <<>>
      BY <1>4, <2>3 DEF SendPacket
    <3>2. nalNo' \in Nat \ {0} /\ sequenceNumber' \in Nat
      BY <1>4, <3>1 DEF SendPacket, TypeOK
    <3>3. QED
      BY <1>2, <1>4, <2>2, <3>1, <3>2 DEF SendPacket, TypeOK
  <2>4. CASE NextPacket.frag # NextPacket.of
    BY <1>2, <1>4, <2>2, <2>4 DEF SendPacket, TypeOK
  <2>5. QED
    BY <2>3, <2>4
<1>5. CASE DropStale
  BY <1>1, <1>2, <1>5 DEF DropStale, TypeOK
<1>6. CASE SendFragmentFails
  <2>1. todo' \in Seq(NalShape) /\ fragNo' = 0
    BY <1>6 DEF SendFragmentFails
  <2>2. draining' \in BOOLEAN
    BY <1>6, Zenon DEF SendFragmentFails
  <2>3. UNCHANGED <<units, nalNo, ssrc, sequenceNumber, burst, wire>>
    BY <1>6 DEF SendFragmentFails
  <2>4. QED
    BY <1>1, <2>1, <2>2, <2>3 DEF TypeOK
<1>7. CASE StartAudio
  BY <1>1, <1>7 DEF StartAudio, TypeOK
<1>8. CASE Redirect
  <2>1. <<"SPS", "PPS">> \in Seq(ParamTypes) /\ <<>> \in Seq(ParamTypes)
    BY DEF ParamTypes
  <2>2. burst' \in [left: Seq(ParamTypes), pc: {"send", "read", "write"}, read: Nat]
    BY <1>8, <2>1 DEF Redirect
  <2>3. ssrc' \in 1..(1 + MaxSenders)
    BY <1>8, SenderAssumption DEF Redirect, TypeOK
  <2>4. QED
    BY <1>1, <1>8, <2>2, <2>3 DEF Redirect, TypeOK
<1>9. CASE Burst
  <2>1. /\ burst.left \in Seq(ParamTypes) /\ burst.read \in Nat /\ burst.left # <<>>
        /\ burst \in [left: Seq(ParamTypes), pc: {"send", "read", "write"}, read: Nat]
    BY <1>9 DEF Burst, BurstSend, BurstRead, BurstWrite, TypeOK
  <2>2. Head(burst.left) \in ParamTypes /\ Tail(burst.left) \in Seq(ParamTypes)
    BY <2>1
  <2>3. CASE BurstSend
    <3>1. ParamPacket(Head(burst.left)) \in Packet
      BY <2>2, PacketsTyped
    <3>2. wire' \in Seq(Packet) /\ Len(wire) <= Len(wire')
      BY <1>1, <2>3, <3>1 DEF BurstSend
    <3>3. burst' \in [left: Seq(ParamTypes), pc: {"send", "read", "write"}, read: Nat]
      BY <2>1, <2>3 DEF BurstSend
    <3>4. QED
      BY <2>3, <3>2, <3>3 DEF BurstSend, TypeOK
  <2>4. CASE BurstRead
    <3>1. burst' \in [left: Seq(ParamTypes), pc: {"send", "read", "write"}, read: Nat]
      <4>1. sequenceNumber \in Nat
        BY DEF TypeOK
      <4>2. burst' = [left |-> burst.left, pc |-> "write", read |-> sequenceNumber]
        BY <2>1, <2>4 DEF BurstRead
      <4>3. QED
        BY <2>1, <4>1, <4>2
    <3>2. QED
      BY <1>1, <2>4, <3>1 DEF BurstRead, TypeOK
  <2>5. CASE BurstWrite
    <3>1. burst' \in [left: Seq(ParamTypes), pc: {"send", "read", "write"}, read: Nat]
      BY <2>2, <2>5 DEF BurstWrite
    <3>2. QED
      BY <1>1, <2>1, <2>5, <3>1 DEF BurstWrite, TypeOK
  <2>6. QED
    BY <1>9, <2>3, <2>4, <2>5 DEF Burst
<1>10. QED
  BY <1>3, <1>4, <1>5, <1>6, <1>7, <1>8, <1>9 DEF SenderNext, Drain

\* The receiver, over a step of the network or of OBS.
LEMMA ReceiverTyped ==
    ASSUME TypeOK, RInv, [Next]_vars
    PROVE  RInv'
<1>1. CASE Deliver
  <2>1. PICK i \in inFlight : Receive(wire[i])
    BY <1>1 DEF Deliver
  <2>2. wire[i] \in Packet
    BY <2>1 DEF TypeOK
  <2>3. QED
    BY <2>1, <2>2, ReceiveKeeps
<1>2. CASE Transmit \/ Lose \/ UNCHANGED vars
  <2>1. UNCHANGED rvars
    BY <1>2 DEF Transmit, Lose, vars
  <2>2. QED
    BY <2>1, CallKeeps
<1>3. CASE EnterCall \/ LeaveCall
  BY <1>3, CallKeeps DEF EnterCall, LeaveCall
<1>4. CASE Restart
  BY <1>4, StartKeeps DEF Restart
<1>5. QED
  BY <1>1, <1>2, <1>3, <1>4 DEF Next

\* The slices of a frame have their units.
LEMMA SliceUnitsTyped ==
    ASSUME NEW frame, NEW s, frame \in Seq(GoodNals(s))
    PROVE  /\ DOMAIN SliceUnits(frame) \subseteq Nat
           /\ SliceUnits(frame) \in [DOMAIN SliceUnits(frame) -> Nat]
<1> DEFINE slices == {i \in 1..Len(frame) : frame[i][1].type \in SliceTypes}
<1>1. Len(frame) \in Nat /\ slices \subseteq Nat
  OBVIOUS
<1>2. \A i \in slices : frame[i][1].unit \in Nat
  <2> TAKE i \in slices
  <2>1. frame[i] \in ContiguousNals
    BY DEF GoodNals
  <2>2. frame[i] \in Seq(Packet) /\ frame[i] # <<>>
    BY <2>1 DEF ContiguousNals, Contiguous, Nal
  <2>3. frame[i][1] \in Packet
    BY <2>2
  <2>4. QED
    BY <2>3 DEF Packet
<1>3. SliceUnits(frame) = [i \in slices |-> frame[i][1].unit]
  BY DEF SliceUnits
<1> HIDE DEF slices
<1>4. QED
  BY <1>1, <1>2, <1>3

\* Every variable of the path has its type in every state, whichever races and faults the
\* switches allow.
THEOREM PathTypesCorrect == Spec => []TypeOK
<1>1. Init => TypeOK /\ RInv
  <2> SUFFICES ASSUME Init PROVE TypeOK /\ RInv
    OBVIOUS
  <2>1. RInv
    BY InitHolds DEF Init
  <2>2. ReceiverTypeOK
    BY <2>1, GoodNalsTyped DEF RInv, FuOf, ReceiverTypeOK
  <2>3. /\ <<>> \in Seq(NalShape) /\ <<>> \in Seq(ParamTypes) /\ <<>> \in Seq(Packet)
        /\ DOMAIN <<0>> = {1} /\ <<0>>[1] = 0 /\ <<0>> \in [{1} -> Nat]
    OBVIOUS
  <2>4. QED
    BY <2>1, <2>2, <2>3, SenderAssumption DEF Init, SenderInit, TypeOK
<1>2. TypeOK /\ RInv /\ [Next]_vars => TypeOK' /\ RInv'
  <2> SUFFICES ASSUME TypeOK, RInv, [Next]_vars PROVE TypeOK' /\ RInv'
    OBVIOUS
  <2>1. RInv'
    BY ReceiverTyped
  <2>2. ReceiverTypeOK'
    BY <2>1, GoodNalsTyped DEF RInv, FuOf, ReceiverTypeOK
  <2>3. CASE Transmit
    <3>1. inFlight' = inFlight \cup (Len(wire)+1 .. Len(wire')) /\ shown' = shown
      BY <2>3 DEF Transmit
    <3>2. Len(wire) <= Len(wire') /\ Len(wire) \in Nat /\ Len(wire') \in Nat
      <4>1. wire' \in Seq(Packet) /\ Len(wire) <= Len(wire')
        BY <2>3, SenderTyped DEF Transmit
      <4>2. wire \in Seq(Packet)
        BY DEF TypeOK
      <4>3. QED
        BY <4>1, <4>2
    <3>3. inFlight' \subseteq 1..Len(wire')
      <4>1. \A i \in inFlight : i \in 1..Len(wire)
        BY DEF TypeOK
      <4>2. QED
        BY <3>1, <3>2, <4>1
    <3>4. SenderNext
      BY <2>3 DEF Transmit
    <3>5. DOMAIN shown' \subseteq Nat /\ shown' \in [DOMAIN shown' -> Nat]
      BY <3>1 DEF TypeOK
    <3>6. QED
      BY <2>1, <2>2, <3>3, <3>4, <3>5, SenderTyped DEF TypeOK
  <2>4. CASE Deliver \/ Lose \/ EnterCall \/ Restart \/ UNCHANGED vars
    <3>1. UNCHANGED <<svars, shown>> /\ inFlight' \subseteq inFlight
      BY <2>4 DEF Deliver, Lose, EnterCall, Restart, vars
    <3>2. QED
      BY <2>1, <2>2, <3>1 DEF TypeOK, svars
  <2>5. CASE LeaveCall
    <3>1. UNCHANGED <<svars, inFlight>> /\ (shown' = shown \/ shown' = SliceUnits(frameData))
      BY <2>5 DEF LeaveCall
    <3>2. DOMAIN shown' \subseteq Nat /\ shown' \in [DOMAIN shown' -> Nat]
      <4>1. CASE shown' = shown
        BY <4>1 DEF TypeOK
      <4>2. CASE shown' = SliceUnits(frameData)
        BY <4>2, SliceUnitsTyped DEF RInv
      <4>3. QED
        BY <3>1, <4>1, <4>2
    <3>3. QED
      BY <2>1, <2>2, <3>1, <3>2 DEF TypeOK, svars
  <2>6. QED
    BY <2>3, <2>4, <2>5 DEF Next
<1>3. QED
  BY <1>1, <1>2, PTL DEF Spec

-----------------------------------------------------------------------------
(***************************************************************************)
(* The refinement of FrameDelivery, over a network that may lose packets   *)
(* but keeps their order and repeats none, for access units of parameter   *)
(* sets in one packet each and one slice.                                  *)
(***************************************************************************)
OneSliceLast(nals) ==
    \A k \in 1..Len(nals) :
        IF k = Len(nals) THEN nals[k].type \in SliceTypes
                         ELSE nals[k].type \in ParamTypes /\ nals[k].of = 1

\* What is on the wire is such a unit's: a parameter set in one packet, or a slice whose
\* last packet is marked; the next packet after a mark belongs to a later unit.
WireOrder ==
    /\ \A i \in 1..Len(wire) :
        /\ wire[i].unit <= units
        /\ wire[i].marker /\ wire[i].unit = units => todo = <<>>
        /\ \/ wire[i].type \in ParamTypes /\ wire[i].of = 1 /\ ~wire[i].marker
           \/ wire[i].type \in SliceTypes /\ (wire[i].marker <=> wire[i].frag = wire[i].of)
    /\ \A i, j \in 1..Len(wire) :
        i < j /\ wire[i].marker => wire[i].unit < wire[j].unit

\* Nothing of unit u, or of one before it, will complete another frame.
Done(u) ==
    /\ u \in Nat /\ u <= units
    /\ u = units => todo = <<>>
    /\ \A i \in inFlight : wire[i].marker => u < wire[i].unit

\* A frame with one slice, of unit u.
OneSlice(frame, u) ==
    /\ Len(frame) \in Nat \ {0}
    /\ \A k \in 1..Len(frame) - 1 : frame[k][1].type \in ParamTypes
    /\ frame[Len(frame)][1].type \in SliceTypes
    /\ frame[Len(frame)][1].unit = u

(***************************************************************************)
(* The inductive invariant.  A frame is completed by the packet that       *)
(* completes its slice, so that none is ever half collected between two    *)
(* packets; the one in frameData is later than the one shown.              *)
(***************************************************************************)
OInv ==
    /\ OneSliceLast(todo)
    /\ WireOrder
    /\ frameBuf = <<>>
    /\ pendingParams \in Seq(ParamNals)
    /\ fu.active => fu.payload[1].type \in SliceTypes
    /\ \E s \in Nat :
        /\ Abstract!Holds(shown, s)
        /\ Done(s)
        /\ inCall /\ produced => \E f \in Nat : s < f /\ OneSlice(frameData, f) /\ Done(f)

-----------------------------------------------------------------------------
\* Frames of one slice.
LEMMA HoldsOne ==
    ASSUME NEW frame, NEW u, Abstract!Holds(frame, u)
    PROVE  \A i \in DOMAIN frame : frame[i] = u
BY DEF Abstract!Holds

LEMMA InitHoldsOne == Abstract!Holds(<<0>>, 0)
<1>1. <<0>> = [i \in {1} |-> 0]
  OBVIOUS
<1>2. 1 \in DOMAIN <<0>>
  OBVIOUS
<1>3. QED
  BY <1>1, <1>2 DEF Abstract!Holds

LEMMA OneSliceShown ==
    ASSUME NEW frame, NEW u, OneSlice(frame, u)
    PROVE  Abstract!Holds(SliceUnits(frame), u)
<1> DEFINE l == Len(frame)
           slices == {i \in 1..l : frame[i][1].type \in SliceTypes}
<1>1. l \in Nat \ {0}
  BY DEF OneSlice
<1>2. \A k \in 1..l : k # l => frame[k][1].type \notin SliceTypes
  BY DEF OneSlice, ParamTypes, SliceTypes
<1>3. slices = {l}
  BY <1>1, <1>2 DEF OneSlice
<1>4. SliceUnits(frame) = [i \in slices |-> frame[i][1].unit]
  BY DEF SliceUnits
<1>5. frame[l][1].unit = u
  BY DEF OneSlice
<1> HIDE DEF l, slices
<1>6. SliceUnits(frame) = [i \in {l} |-> u]
  BY <1>3, <1>4, <1>5 DEF l
<1>7. QED
  BY <1>6 DEF Abstract!Holds

\* The NALs left after one.
LEMMA TailOneSliceLast ==
    ASSUME NEW nals \in Seq(NalShape), nals # <<>>, OneSliceLast(nals)
    PROVE  OneSliceLast(Tail(nals))
<1> DEFINE l == Len(nals)
<1>1. l \in Nat \ {0} /\ Len(Tail(nals)) = l - 1
  OBVIOUS
<1>2. \A k \in 1..l-1 : Tail(nals)[k] = nals[k+1]
  OBVIOUS
<1>3. ASSUME NEW k \in 1..Len(Tail(nals))
      PROVE  IF k = Len(Tail(nals)) THEN Tail(nals)[k].type \in SliceTypes
             ELSE Tail(nals)[k].type \in ParamTypes /\ Tail(nals)[k].of = 1
  <2>1. k+1 \in 1..l /\ (k+1 = l <=> k = Len(Tail(nals)))
    BY <1>1
  <2>2. Tail(nals)[k] = nals[k+1]
    BY <1>1, <1>2
  <2>3. IF k+1 = l THEN nals[k+1].type \in SliceTypes
        ELSE nals[k+1].type \in ParamTypes /\ nals[k+1].of = 1
    BY <2>1 DEF OneSliceLast
  <2>4. QED
    BY <2>1, <2>2, <2>3
<1>4. QED
  BY <1>3 DEF OneSliceLast

\* The step of the phone that sends a packet.
LEMMA SendKeepsOrder ==
    ASSUME PInv, OInv, SendPacket, inFlight' = inFlight \cup (Len(wire)+1 .. Len(wire')),
           UNCHANGED <<shown, rvars>>
    PROVE  OInv'
<1> DEFINE p == NextPacket
           l == Len(wire)
<1>1. /\ p.frag = fragNo + 1 /\ p.of = Head(todo).of /\ p.unit = units
      /\ p.type = Head(todo).type
      /\ p.marker <=> p.frag = p.of /\ Head(todo).type \in SliceTypes /\ Len(todo) = 1
      /\ p.frag \in 1..p.of
  <2>1. todo # <<>>
    BY DEF SendPacket
  <2>2. /\ p.frag = fragNo + 1 /\ p.of = Head(todo).of /\ p.unit = units
        /\ FragmentOk(p)
    BY <2>1, NextPacketOk DEF PInv
  <2>3. p.type = Head(todo).type
    BY DEF NextPacket
  <2>4. p.marker <=> fragNo + 1 = Head(todo).of /\ Head(todo).type \in SliceTypes /\ Len(todo) = 1
    BY DEF NextPacket, IsSlice, IsLastNalOfFrame
  <2>5. QED
    BY <2>2, <2>3, <2>4 DEF FragmentOk
<1>2. /\ wire' = Append(wire, p) /\ units' = units /\ todo # <<>>
      /\ IF p.frag = p.of THEN todo' = Tail(todo) ELSE todo' = todo
  BY DEF SendPacket
<1>3. /\ l \in Nat /\ Len(wire') = l + 1 /\ wire'[l+1] = p
      /\ \A i \in 1..l : wire'[i] = wire[i]
      /\ units \in Nat /\ todo \in Seq(NalShape) /\ Len(todo) \in Nat \ {0}
      /\ Head(todo) = todo[1]
  BY <1>2, NextPacketOk DEF PInv, WireOk, SenderOk
<1> HIDE DEF p, l
<1>4. OneSliceLast(todo')
  <2>1. CASE todo' = Tail(todo)
    BY <1>2, <1>3, <2>1, TailOneSliceLast DEF OInv
  <2>2. CASE todo' = todo
    BY <2>2 DEF OInv
  <2>3. QED
    BY <1>2, <2>1, <2>2
<1>5. p.marker => todo' = <<>>
  <2> HAVE p.marker
  <2>1. Len(todo) = 1 /\ todo' = Tail(todo)
    BY <1>1, <1>2
  <2>2. QED
    BY <1>3, <2>1
<1>6. todo' = <<>> \/ todo # <<>>
  BY <1>2
<1>7. \/ p.type \in ParamTypes /\ p.of = 1 /\ ~p.marker
      \/ p.type \in SliceTypes /\ (p.marker <=> p.frag = p.of)
  <2>1. CASE Len(todo) = 1
    <3>1. todo[1].type \in SliceTypes
      BY <1>3, <2>1 DEF OInv, OneSliceLast
    <3>2. QED
      BY <1>1, <1>3, <2>1, <3>1
  <2>2. CASE Len(todo) # 1
    <3>1. todo[1].type \in ParamTypes /\ todo[1].of = 1
      <4>1. 1 \in 1..Len(todo) /\ 1 # Len(todo)
        BY <1>3, <2>2
      <4>2. QED
        BY <4>1 DEF OInv, OneSliceLast
    <3>2. QED
      BY <1>1, <1>3, <2>2, <3>1
  <2>3. QED
    BY <2>1, <2>2
<1>8. \A i \in 1..l : /\ wire[i].unit \in Nat /\ wire[i].unit <= units
                      /\ wire[i].marker => wire[i].unit < units
  <2> TAKE i \in 1..l
  <2>1. wire[i].unit \in Nat
    BY WirePackets DEF PInv, Packet, l
  <2>2. /\ wire[i].unit <= units
        /\ wire[i].marker => wire[i].unit # units
    BY <1>2 DEF OInv, WireOrder, l
  <2>3. QED
    BY <1>3, <2>1, <2>2
<1>9. WireOrder'
  <2>1. \A i \in 1..l+1 :
            /\ wire'[i].unit <= units
            /\ wire'[i].marker /\ wire'[i].unit = units => todo' = <<>>
            /\ \/ wire'[i].type \in ParamTypes /\ wire'[i].of = 1 /\ ~wire'[i].marker
               \/ wire'[i].type \in SliceTypes /\ (wire'[i].marker <=> wire'[i].frag = wire'[i].of)
    <3> TAKE i \in 1..l+1
    <3>1. CASE i \in 1..l
      <4>1. wire'[i] = wire[i] /\ ~(wire[i].marker /\ wire[i].unit = units)
        BY <1>3, <1>8, <3>1
      <4>2. QED
        BY <1>8, <3>1, <4>1 DEF OInv, WireOrder, l
    <3>2. CASE i = l+1
      BY <1>1, <1>3, <1>5, <1>7, <3>2
    <3>3. QED
      BY <1>3, <3>1, <3>2
  <2>2. ASSUME NEW i \in 1..l+1, NEW j \in 1..l+1, i < j, wire'[i].marker
        PROVE  wire'[i].unit < wire'[j].unit
    <3>1. i \in 1..l /\ wire'[i] = wire[i]
      BY <1>3, <2>2
    <3>2. CASE j \in 1..l
      <4>1. wire'[j] = wire[j]
        BY <1>3, <3>2
      <4>2. QED
        BY <2>2, <3>1, <3>2, <4>1 DEF OInv, WireOrder, l
    <3>3. CASE j = l+1
      BY <1>1, <1>3, <1>8, <2>2, <3>1, <3>3
    <3>4. QED
      BY <1>3, <3>2, <3>3
  <2>3. QED
    BY <1>2, <1>3, <2>1, <2>2 DEF WireOrder
<1>10. \A u : Done(u) => Done(u)'
  <2> TAKE u
  <2> HAVE Done(u)
  <2>1. u \in Nat /\ u < units
    BY <1>2, <1>3 DEF Done
  <2>2. inFlight' \subseteq inFlight \cup {l+1}
    BY <1>3 DEF l
  <2>3. \A i \in inFlight' : wire'[i].marker => u < wire'[i].unit
    <3> TAKE i \in inFlight'
    <3>1. CASE i \in inFlight
      <4>1. i \in 1..l
        BY <3>1 DEF PInv, l
      <4>2. wire'[i] = wire[i]
        BY <1>3, <4>1
      <4>3. QED
        BY <3>1, <4>2 DEF Done
    <3>2. CASE i = l+1
      BY <1>1, <1>3, <2>1, <3>2
    <3>3. QED
      BY <2>2, <3>1, <3>2
  <2>4. QED
    BY <1>2, <1>3, <2>1, <2>3 DEF Done
<1>11. UNCHANGED <<shown, inCall, produced, frameData, frameBuf, pendingParams, fu>>
  BY DEF rvars
<1>12. PICK s \in Nat :
        /\ Abstract!Holds(shown, s)
        /\ Done(s)
        /\ inCall /\ produced => \E f \in Nat : s < f /\ OneSlice(frameData, f) /\ Done(f)
  BY DEF OInv
<1>13. /\ Abstract!Holds(shown, s)'
       /\ Done(s)'
       /\ inCall' /\ produced' => \E f \in Nat : s < f /\ OneSlice(frameData', f) /\ Done(f)'
  BY <1>10, <1>11, <1>12
<1>14. QED
  BY <1>4, <1>9, <1>11, <1>13 DEF OInv, Abstract!Holds, OneSlice

\* A step of the phone that sends nothing.
LEMMA PhoneKeepsOrder ==
    ASSUME ~AudioStarts, ~CachedParams, \A nals \in Shapes : OneSliceLast(nals),
           PInv, OInv, Encode \/ DropStale \/ SendFragmentFails \/ StartAudio \/ Redirect \/ Burst,
           inFlight' = inFlight \cup (Len(wire)+1 .. Len(wire')),
           UNCHANGED <<shown, rvars>>
    PROVE  OInv'
<1>1. wire' = wire /\ Len(wire) \in Nat /\ units \in Nat /\ todo \in Seq(NalShape)
  BY OthersKeep DEF PInv, WireOk, SenderOk
<1>2. inFlight' = inFlight
  BY <1>1
<1>3. OneSliceLast(todo')
  <2>1. CASE Encode
    BY <2>1 DEF Encode
  <2>2. CASE DropStale
    BY <1>1, <2>2, TailOneSliceLast DEF DropStale, OInv
  <2>3. CASE SendFragmentFails
    <3>1. Len(<<>>) = 0
      OBVIOUS
    <3>2. QED
      BY <2>3, <3>1 DEF SendFragmentFails, OneSliceLast
  <2>4. CASE StartAudio \/ Redirect \/ Burst
    BY <2>4 DEF StartAudio, Redirect, Burst, BurstSend, BurstRead, BurstWrite, OInv
  <2>5. QED
    BY <2>1, <2>2, <2>3, <2>4
<1>4. \/ units' = units /\ (todo = <<>> => todo' = <<>>)
      \/ units' = units + 1
  BY DEF Encode, DropStale, SendFragmentFails, StartAudio, Redirect, Burst,
         BurstSend, BurstRead, BurstWrite
<1>5. WireOrder'
  <2>1. \A i \in 1..Len(wire) : /\ wire[i].unit \in Nat /\ wire[i].unit <= units
                                /\ wire[i].marker /\ wire[i].unit = units => todo = <<>>
    BY WirePackets DEF PInv, OInv, WireOrder, Packet
  <2>2. \A i \in 1..Len(wire) : /\ wire[i].unit <= units'
                                /\ wire[i].marker /\ wire[i].unit = units' => todo' = <<>>
    BY <1>1, <1>4, <2>1
  <2>3. QED
    BY <1>1, <2>2 DEF OInv, WireOrder
<1>6. \A u : Done(u) => Done(u)'
  BY <1>1, <1>2, <1>4 DEF Done
<1>7. UNCHANGED <<shown, inCall, produced, frameData, frameBuf, pendingParams, fu>>
  BY DEF rvars
<1>8. PICK s \in Nat :
        /\ Abstract!Holds(shown, s)
        /\ Done(s)
        /\ inCall /\ produced => \E f \in Nat : s < f /\ OneSlice(frameData, f) /\ Done(f)
  BY DEF OInv
<1>9. /\ Abstract!Holds(shown, s)'
      /\ Done(s)'
      /\ inCall' /\ produced' => \E f \in Nat : s < f /\ OneSlice(frameData', f) /\ Done(f)'
  BY <1>6, <1>7, <1>8
<1>10. QED
  BY <1>3, <1>5, <1>7, <1>9 DEF OInv, Abstract!Holds, OneSlice

-----------------------------------------------------------------------------
\* The NALs that complete a frame: what the receiver holds, and the packet that ends it.
LEMMA AddSlice ==
    ASSUME NEW params \in Seq(ParamNals), NEW nal \in Nal, nal # <<>>,
           nal[1].type \in SliceTypes
    PROVE  /\ OneSlice(AddNal(<<>>, params, nal), nal[1].unit)
           /\ ParamsLeft(params, nal) \in Seq(ParamNals)
           /\ AddNal(<<>>, params, nal) # <<>>
<1>1. Head(nal) = nal[1] /\ <<>> \in Seq(ParamNals)
  BY DEF Nal
<1>2. ASSUME NEW q \in Seq(ParamNals)
      PROVE  OneSlice(q \o <<nal>>, nal[1].unit) /\ q \o <<nal>> # <<>>
  <2>1. /\ Len(q) \in Nat /\ Len(q \o <<nal>>) = Len(q) + 1
        /\ (q \o <<nal>>)[Len(q) + 1] = nal
        /\ \A k \in 1..Len(q) : (q \o <<nal>>)[k] = q[k] /\ q[k][1].type \in ParamTypes
    BY DEF ParamNals
  <2> DEFINE frame == q \o <<nal>>
  <2> HIDE DEF frame
  <2>2. OneSlice(frame, nal[1].unit) /\ Len(frame) # 0
    BY <2>1 DEF OneSlice, frame
  <2>3. QED
    BY <2>2 DEF frame
<1>3. /\ params \in Seq(Nal) /\ <<>> \o params \o <<nal>> = params \o <<nal>>
      /\ Append(<<>>, nal) = <<>> \o <<nal>>
  <2>1. ParamNals \subseteq Nal
    BY DEF ParamNals
  <2>2. params \in Seq(Nal)
    BY <2>1, SeqSubset
  <2>3. QED
    BY <2>2
<1>4. QED
  BY <1>1, <1>2, <1>3 DEF AddNal, ParamsLeft

\* One packet completes no frame, or, if it is marked, one with the slice it completes.
LEMMA ReceiveOrder ==
    ASSUME PInv, OInv, NEW p \in Packet, Sent(p), WithinACycle(p), Receive(p)
    PROVE  /\ frameBuf' = <<>>
           /\ pendingParams' \in Seq(ParamNals)
           /\ fu'.active => fu'.payload[1].type \in SliceTypes
           /\ inCall /\ inCall'
           /\ \/ UNCHANGED <<produced, frameData>>
              \/ p.marker /\ OneSlice(frameData', p.unit)
<1>1. /\ FragmentOk(p) /\ p.of \in Nat /\ p.frag \in Nat
      /\ \/ p.type \in ParamTypes /\ p.of = 1 /\ ~p.marker
         \/ p.type \in SliceTypes /\ (p.marker <=> p.frag = p.of)
  BY PacketFields DEF PInv, OInv, WireOk, WireOrder, Sent
<1>2. BufAt(p) = <<>> /\ ParamsAt(p) \in Seq(ParamNals) /\ frameBuf = <<>>
  <2>1. <<>> \in Seq(ParamNals)
    OBVIOUS
  <2>2. QED
    BY <2>1 DEF OInv, BufAt, ParamsAt
<1>3. /\ FuAt(p).active => FuAt(p) = fu /\ fu.payload[1].type \in SliceTypes
      /\ ~ResetFu(FuAt(p)).active
  <2>1. fu \in [active: BOOLEAN, expected: 0..SeqMod-1, payload: Nal]
    BY DEF PInv, RInv, FuOf
  <2>2. QED
    BY <2>1 DEF OInv, FuAt, ResetFu
<1>4. inCall /\ inCall'
  BY DEF Receive, ReceiveParam, ReceiveSingle, ReceiveFirstFragment, ReceiveNextFragment,
         ReceiveStrayFragment, ReceiveAggregate, ReceiveOther, Seen
<1>5. CASE ReceiveParam(p)
  <2>1. <<p>> \in ParamNals
    <3>1. <<p>> \in Nal /\ <<p>> # <<>> /\ <<p>>[1] = p
      BY DEF Nal
    <3>2. QED
      BY <1>5, <3>1 DEF ReceiveParam, ParamNals
  <2>2. Append(ParamsAt(p), <<p>>) \in Seq(ParamNals)
    BY <1>2, <2>1
  <2>3. QED
    BY <1>2, <1>3, <1>4, <1>5, <2>2 DEF ReceiveParam
<1>6. CASE ReceiveSingle(p)
  <2>1. p.kind = "single" /\ p.type \notin ParamTypes
    BY <1>6 DEF ReceiveSingle
  <2>2. p.type \in SliceTypes /\ p.marker
    BY <1>1, <2>1 DEF FragmentOk
  <2>3. <<p>> \in Nal /\ <<p>> # <<>> /\ <<p>>[1] = p
    BY DEF Nal
  <2> DEFINE frame == AddNal(<<>>, ParamsAt(p), <<p>>)
  <2>4. /\ OneSlice(frame, p.unit) /\ frame # <<>>
        /\ ParamsLeft(ParamsAt(p), <<p>>) \in Seq(ParamNals)
    BY <1>2, <2>2, <2>3, AddSlice
  <2>5. /\ fu' = FuAt(p) \/ fu' = ResetFu(FuAt(p))
        /\ pendingParams' = ParamsLeft(ParamsAt(p), <<p>>)
        /\ CheckMarker(p, frame, frameData, produced)
    BY <1>2, <1>6 DEF ReceiveSingle
  <2> HIDE DEF frame
  <2>6. frameBuf' = <<>> /\ frameData' = frame
    BY <2>2, <2>4, <2>5 DEF CheckMarker
  <2>7. QED
    BY <1>3, <1>4, <2>2, <2>4, <2>5, <2>6
<1>7. CASE ReceiveFirstFragment(p)
  <2>1. p.kind = "fu" /\ p.start /\ CollectFragment(p, <<p>>, <<>>, frameData, produced)
    <3>1. produced \in BOOLEAN
      BY DEF PInv, RInv
    <3>2. (FALSE \/ produced) = produced
      BY <3>1
    <3>3. QED
      BY <1>2, <1>7, <3>2 DEF ReceiveFirstFragment
  <2>2. p.of # 1 /\ p.frag = 1 /\ ~p.end /\ p.type \in SliceTypes
    BY <1>1, <2>1 DEF FragmentOk
  <2>3. /\ fu' = [active |-> TRUE, expected |-> NextSeq(p.seq), payload |-> <<p>>]
        /\ pendingParams' = ParamsAt(p)
        /\ CheckMarker(p, <<>>, frameData, produced)
    BY <2>1, <2>2 DEF CollectFragment
  <2>4. frameBuf' = <<>> /\ frameData' = frameData /\ produced' = produced
    BY <2>3 DEF CheckMarker, PInv, RInv
  <2>5. fu'.payload[1] = p
    BY <2>3
  <2>6. QED
    BY <1>2, <1>4, <2>2, <2>3, <2>4, <2>5
<1>8. CASE ReceiveNextFragment(p)
  <2> DEFINE parts == Append(FuAt(p).payload, p)
  <2>1. /\ p.kind = "fu" /\ ~p.start /\ FuAt(p).active
        /\ CollectFragment(p, parts, <<>>, frameData, produced)
    BY <1>2, <1>8 DEF ReceiveNextFragment
  <2>2. /\ p.end => parts \in WholeNalSet
        /\ ~p.end => Begun(parts)
    BY <1>8, NextFragmentWhole
  <2>3. /\ parts[1].type \in SliceTypes /\ parts \in Nal /\ Len(parts) \in Nat \ {0}
        /\ parts[Len(parts)] = p
    <3>1. FuAt(p).payload \in Seq(Packet) /\ FuAt(p).payload # <<>>
      BY <1>3, <2>1 DEF PInv, HeldOk, Begun, Nal
    <3>2. parts[1] = FuAt(p).payload[1]
      BY <3>1
    <3>3. parts \in Nal /\ Len(parts) \in Nat \ {0} /\ parts[Len(parts)] = p
      BY <3>1 DEF Nal
    <3>4. QED
      BY <1>3, <2>1, <3>2, <3>3
  <2> HIDE DEF parts
  <2>4. p.marker <=> p.end
    BY <1>1, <2>1 DEF FragmentOk
  <2>5. CASE p.end
    <3> DEFINE frame == AddNal(<<>>, ParamsAt(p), parts)
    <3>1. parts[1].unit = p.unit /\ parts # <<>>
      <4>1. Whole(parts) /\ parts # <<>> /\ Len(parts) \in 1..Len(parts)
        BY <2>2, <2>3, <2>5 DEF WholeNalSet
      <4>2. QED
        BY <2>3, <4>1 DEF Whole
    <3>2. /\ OneSlice(frame, p.unit) /\ frame # <<>>
          /\ ParamsLeft(ParamsAt(p), parts) \in Seq(ParamNals)
      BY <1>2, <2>3, <3>1, AddSlice
    <3>3. /\ fu' = [active |-> FALSE, expected |-> NextSeq(p.seq), payload |-> <<>>]
          /\ pendingParams' = ParamsLeft(ParamsAt(p), parts)
          /\ CheckMarker(p, frame, frameData, produced)
      BY <2>1, <2>5 DEF CollectFragment
    <3> HIDE DEF frame
    <3>4. frameBuf' = <<>> /\ frameData' = frame
      BY <2>4, <2>5, <3>2, <3>3 DEF CheckMarker
    <3>5. ~fu'.active
      BY <3>3
    <3>6. QED
      BY <1>4, <2>4, <2>5, <3>2, <3>3, <3>4, <3>5
  <2>6. CASE ~p.end
    <3>1. /\ fu' = [active |-> TRUE, expected |-> NextSeq(p.seq), payload |-> parts]
          /\ pendingParams' = ParamsAt(p)
          /\ CheckMarker(p, <<>>, frameData, produced)
      BY <2>1, <2>6 DEF CollectFragment
    <3>2. frameBuf' = <<>> /\ frameData' = frameData /\ produced' = produced
      BY <3>1 DEF CheckMarker, PInv, RInv
    <3>3. fu'.payload[1] = parts[1]
      BY <3>1
    <3>4. QED
      BY <1>2, <1>4, <2>3, <3>1, <3>2, <3>3
  <2>7. QED
    BY <2>5, <2>6
<1>9. CASE ReceiveStrayFragment(p)
  BY <1>2, <1>3, <1>4, <1>9 DEF ReceiveStrayFragment, NothingKept
<1>10. CASE ReceiveAggregate(p)
  BY <1>1, <1>10 DEF ReceiveAggregate, FragmentOk
<1>11. CASE ReceiveOther(p)
  BY <1>1, <1>11 DEF ReceiveOther, FragmentOk
<1>12. QED
  BY <1>5, <1>6, <1>7, <1>8, <1>9, <1>10, <1>11 DEF Receive

\* A packet delivered, the oldest in flight.
LEMMA DeliverKeepsOrder ==
    ASSUME ~Reorders, ~Duplicates, PInv, OInv, Deliver
    PROVE  OInv'
<1>1. PICK i \in inFlight : /\ \A j \in inFlight : i <= j
                            /\ WithinACycle(wire[i]) /\ Receive(wire[i])
                            /\ inFlight' = inFlight \ {i}
  BY DEF Deliver
<1> DEFINE p == wire[i]
<1>2. UNCHANGED <<svars, shown>> /\ i \in 1..Len(wire)
  BY <1>1 DEF Deliver, PInv
<1>3. p \in Packet /\ Sent(p) /\ p.unit \in Nat
  BY <1>2, WirePackets DEF PInv, WireOk, Sent, Packet
<1>4. /\ frameBuf' = <<>>
      /\ pendingParams' \in Seq(ParamNals)
      /\ fu'.active => fu'.payload[1].type \in SliceTypes
      /\ inCall /\ inCall'
      /\ \/ UNCHANGED <<produced, frameData>>
         \/ p.marker /\ OneSlice(frameData', p.unit)
  BY <1>1, <1>3, ReceiveOrder
<1> HIDE DEF p
<1>5. \A u : Done(u) => Done(u)'
  BY <1>1, <1>2 DEF Done, svars
<1>6. ASSUME p.marker, NEW u, u = p.unit
      PROVE  Done(u)'
  <2>1. u <= units /\ (u = units => todo = <<>>)
    BY <1>2, <1>6 DEF OInv, WireOrder, p
  <2>2. \A j \in inFlight' : u < wire[j].unit
    <3> TAKE j \in inFlight'
    <3>1. j \in 1..Len(wire) /\ i < j
      BY <1>1, <1>2 DEF PInv
    <3>2. QED
      BY <1>2, <1>6, <3>1 DEF OInv, WireOrder, p
  <2>3. QED
    BY <1>2, <1>3, <1>6, <2>1, <2>2 DEF Done, svars
<1>7. PICK s \in Nat :
        /\ Abstract!Holds(shown, s)
        /\ Done(s)
        /\ inCall /\ produced => \E f \in Nat : s < f /\ OneSlice(frameData, f) /\ Done(f)
  BY DEF OInv
<1>8. p.marker => s < p.unit
  BY <1>1, <1>7 DEF Done, p
<1>9. inCall' /\ produced' => \E f \in Nat : s < f /\ OneSlice(frameData', f) /\ Done(f)'
  <2>1. CASE UNCHANGED <<produced, frameData>>
    BY <1>4, <1>5, <1>7, <2>1
  <2>2. CASE p.marker /\ OneSlice(frameData', p.unit)
    <3>1. PICK u \in Nat : u = p.unit
      BY <1>3 DEF p
    <3>2. Done(u)' /\ s < u /\ OneSlice(frameData', u)
      BY <1>6, <1>8, <2>2, <3>1
    <3>3. QED
      BY <3>2
  <2>3. QED
    BY <1>4, <2>1, <2>2
<1>10. Done(s)' /\ shown' = shown
  BY <1>2, <1>5, <1>7
<1>11. OneSliceLast(todo)' /\ WireOrder'
  BY <1>2 DEF OInv, OneSliceLast, WireOrder, svars
<1>12. QED
  BY <1>4, <1>7, <1>9, <1>10, <1>11 DEF OInv, Abstract!Holds, OneSlice

\* The other steps of the network and of OBS.
LEMMA OthersKeepOrder ==
    ASSUME PInv, OInv, Lose \/ EnterCall \/ LeaveCall \/ Restart \/ UNCHANGED vars
    PROVE  OInv'
<1>1. UNCHANGED svars /\ inFlight' \subseteq inFlight
  BY DEF Lose, EnterCall, LeaveCall, Restart, vars
<1>2. \A u : Done(u) => Done(u)'
  BY <1>1 DEF Done, svars
<1>3. OneSliceLast(todo)' /\ WireOrder'
  BY <1>1 DEF OInv, OneSliceLast, WireOrder, svars
<1>4. PICK s \in Nat :
        /\ Abstract!Holds(shown, s)
        /\ Done(s)
        /\ inCall /\ produced => \E f \in Nat : s < f /\ OneSlice(frameData, f) /\ Done(f)
  BY DEF OInv
<1>5. CASE Lose \/ UNCHANGED vars
  <2>1. UNCHANGED <<shown, inCall, produced, frameData, frameBuf, pendingParams, fu>>
    BY <1>5 DEF Lose, vars, rvars
  <2>2. /\ Abstract!Holds(shown, s)'
        /\ Done(s)'
        /\ inCall' /\ produced' => \E f \in Nat : s < f /\ OneSlice(frameData', f) /\ Done(f)'
    BY <1>2, <1>4, <2>1
  <2>3. QED
    BY <1>3, <2>1, <2>2 DEF OInv, Abstract!Holds, OneSlice
<1>6. CASE EnterCall \/ Restart
  <2>1. /\ shown' = shown /\ ~(inCall' /\ produced')
        /\ frameBuf' = <<>> /\ pendingParams' \in Seq(ParamNals)
        /\ fu'.active => fu'.payload[1].type \in SliceTypes
    <3>1. CASE EnterCall
      BY <1>6, <3>1 DEF EnterCall, Call, OInv
    <3>2. CASE Restart
      <4>1. fu \in [active: BOOLEAN, expected: 0..SeqMod-1, payload: Nal]
        BY DEF PInv, RInv, FuOf
      <4>2. ~fu'.active /\ <<>> \in Seq(ParamNals)
        BY <3>2, <4>1 DEF Restart, Start, ResetFu
      <4>3. QED
        BY <3>2, <4>2 DEF Restart, Start
    <3>3. QED
      BY <1>6, <3>1, <3>2
  <2>2. Abstract!Holds(shown, s)' /\ Done(s)'
    BY <1>2, <1>4, <2>1
  <2>3. QED
    BY <1>3, <2>1, <2>2 DEF OInv, Abstract!Holds
<1>7. CASE LeaveCall
  <2>1. /\ ~inCall' /\ inCall
        /\ UNCHANGED <<frameBuf, pendingParams, fu>>
        /\ shown' = IF produced THEN SliceUnits(frameData) ELSE shown
    BY <1>7 DEF LeaveCall, Return
  <2>2. \E u \in Nat : Abstract!Holds(shown', u) /\ Done(u)'
    <3>1. CASE produced
      <4>1. PICK f \in Nat : OneSlice(frameData, f) /\ Done(f)
        BY <1>4, <2>1, <3>1
      <4>2. Abstract!Holds(SliceUnits(frameData), f)
        BY <4>1, OneSliceShown
      <4>3. QED
        BY <1>2, <2>1, <3>1, <4>1, <4>2
    <3>2. CASE ~produced
      BY <1>2, <1>4, <2>1, <3>2
    <3>3. QED
      BY <3>1, <3>2
  <2>3. QED
    BY <1>3, <2>1, <2>2 DEF OInv, Abstract!Holds
<1>8. QED
  BY <1>5, <1>6, <1>7

\* Before the first packet.
LEMMA InitOrder ==
    ASSUME Init
    PROVE  OInv
<1>1. wire = <<>> /\ Len(wire) = 0 /\ todo = <<>> /\ units = 0 /\ inFlight = {} /\ shown = <<0>>
  BY DEF Init, SenderInit
<1>2. OneSliceLast(todo) /\ WireOrder
  <2>1. Len(todo) = 0
    BY <1>1
  <2>2. QED
    BY <1>1, <2>1 DEF OneSliceLast, WireOrder
<1>3. Done(0)
  BY <1>1 DEF Done
<1>4. Abstract!Holds(shown, 0)
  BY <1>1, InitHoldsOne
<1>5. frameBuf = <<>> /\ pendingParams \in Seq(ParamNals) /\ ~fu.active /\ ~inCall
  <2>1. <<>> \in Seq(ParamNals)
    OBVIOUS
  <2>2. QED
    BY <2>1 DEF Init, ReceiverInit, NoFu
<1>6. QED
  BY <1>2, <1>3, <1>4, <1>5 DEF OInv

\* Each step of the path is a step of FrameDelivery, or leaves what the two ends see alone.
LEMMA StepsDeliver ==
    ASSUME OInv, [Next]_vars
    PROVE  [Abstract!Encode \/ Abstract!Show]_<<units, shown>>
<1>1. CASE Transmit
  <2>1. CASE Encode
    BY <1>1, <2>1 DEF Transmit, Encode, Abstract!Encode
  <2>2. CASE ~Encode
    <3>1. units' = units
      BY <1>1, <2>2 DEF Transmit, SenderNext, Drain, SendPacket, DropStale, SendFragmentFails,
            StartAudio, Redirect, Burst, BurstSend, BurstRead, BurstWrite
    <3>2. QED
      BY <1>1, <3>1 DEF Transmit
  <2>3. QED
    BY <2>1, <2>2
<1>2. CASE Deliver \/ Lose \/ EnterCall \/ Restart \/ UNCHANGED vars
  BY <1>2 DEF Deliver, Lose, EnterCall, Restart, vars, svars
<1>3. CASE LeaveCall
  <2>1. /\ inCall /\ units' = units
        /\ shown' = IF produced THEN SliceUnits(frameData) ELSE shown
    BY <1>3 DEF LeaveCall, Return, svars
  <2>2. CASE produced
    <3>1. PICK s \in Nat, f \in Nat :
            Abstract!Holds(shown, s) /\ s < f /\ OneSlice(frameData, f) /\ Done(f)
      BY <2>1, <2>2 DEF OInv
    <3>2. Abstract!Holds(shown', f)
      BY <2>1, <2>2, <3>1, OneSliceShown
    <3>3. \A i \in DOMAIN shown : f > shown[i]
      <4>1. \A i \in DOMAIN shown : shown[i] = s
        BY <3>1, HoldsOne
      <4>2. QED
        BY <3>1, <4>1
    <3>4. f \in 1..units
      BY <3>1 DEF Done
    <3>5. QED
      BY <2>1, <3>2, <3>3, <3>4 DEF Abstract!Show
  <2>3. CASE ~produced
    BY <2>1, <2>3
  <2>4. QED
    BY <2>2, <2>3
<1>4. QED
  BY <1>1, <1>2, <1>3 DEF Next

\* The path implements FrameDelivery: over a network that loses packets and neither reorders
\* nor repeats them, with redirects, stale drops, socket errors and restarts, the decoder is
\* shown the units in order, one at a time and none twice, for every SeqMod and any number of
\* units, when each is parameter sets in one packet each and then one slice.
THEOREM DeliveredInOrder ==
    ASSUME ~AudioStarts, ~CachedParams, ~Reorders, ~Duplicates,
           \A nals \in Shapes : OneSliceLast(nals)
    PROVE  Spec => InOrderDelivery
<1>1. Init => PInv /\ OInv /\ Abstract!Init
  BY InitPath, InitOrder DEF Init, SenderInit, Abstract!Init
<1>2. PInv /\ OInv /\ [Next]_vars => PInv' /\ OInv'
  <2> SUFFICES ASSUME PInv, OInv, [Next]_vars PROVE PInv' /\ OInv'
    OBVIOUS
  <2>1. PInv'
    BY NextKeeps
  <2>2. CASE Transmit
    <3>1. /\ SenderNext /\ UNCHANGED <<shown, rvars>>
          /\ inFlight' = inFlight \cup (Len(wire)+1 .. Len(wire'))
      BY <2>2 DEF Transmit
    <3>2. CASE SendPacket
      BY <3>1, <3>2, SendKeepsOrder, <2>1
    <3>3. CASE Encode \/ DropStale \/ SendFragmentFails \/ StartAudio \/ Redirect \/ Burst
      BY <3>1, <3>3, PhoneKeepsOrder, <2>1
    <3>4. QED
      BY <3>1, <3>2, <3>3 DEF SenderNext, Drain
  <2>3. CASE Deliver
    BY <2>1, <2>3, DeliverKeepsOrder
  <2>4. CASE Lose \/ EnterCall \/ LeaveCall \/ Restart \/ UNCHANGED vars
    BY <2>1, <2>4, OthersKeepOrder
  <2>5. QED
    BY <2>2, <2>3, <2>4 DEF Next
<1>3. PInv /\ OInv /\ [Next]_vars => [Abstract!Encode \/ Abstract!Show]_<<units, shown>>
  BY StepsDeliver
<1>4. QED
  BY <1>1, <1>2, <1>3, PTL DEF Spec, InOrderDelivery, Abstract!Spec
=============================================================================
