------------------------ MODULE RtpReceiver_proofs ------------------------
(***************************************************************************)
(* Proofs about rtp-receiver.cpp for every value of SeqMod and every       *)
(* sequence of packets from any number of senders.                         *)
(***************************************************************************)
EXTENDS RtpReceiver, TLAPS

\* NALs without a gap, all of stream s.
GoodNals(s) == {n \in ContiguousNals : \A i \in 1..Len(n) : n[i].ssrc = s}

\* The fragments of a NAL whose end has not come, and the number it waits for.
Unfinished(n, expected) ==
    /\ n # <<>>
    /\ \A i \in 1..Len(n) :
        /\ n[i].kind = "fu"
        /\ n[i].start <=> i = 1
        /\ ~n[i].end
        /\ i > 1 => n[i].seq = NextSeq(n[i-1].seq)
    /\ expected = NextSeq(n[Len(n)].seq)

FuOf(f, s) ==
    /\ f \in [active: BOOLEAN, expected: 0..SeqMod-1, payload: Nal]
    /\ \A i \in 1..Len(f.payload) : f.payload[i].ssrc = s
    /\ f.active => Unfinished(f.payload, f.expected)

(***************************************************************************)
(* The inductive invariant: everything held belongs to the stream of the   *)
(* last packet, before the first packet nothing is held, and a NAL in      *)
(* reassembly is a gapless beginning.                                      *)
(***************************************************************************)
RInv ==
    /\ inCall \in BOOLEAN
    /\ produced \in BOOLEAN
    /\ firstPacket \in BOOLEAN
    /\ lastSsrc \in Nat
    /\ frameBuf \in Seq(GoodNals(lastSsrc))
    /\ pendingParams \in Seq(GoodNals(lastSsrc))
    /\ FuOf(fu, lastSsrc)
    /\ \E s \in Nat : frameData \in Seq(GoodNals(s))
    /\ firstPacket => /\ frameBuf = <<>>
                      /\ pendingParams = <<>>
                      /\ ~fu.active /\ fu.payload = <<>>

-----------------------------------------------------------------------------
\* uint16_t arithmetic stays in range.
LEMMA NextSeqInRange == \A n \in Nat : NextSeq(n) \in 0..SeqMod-1
BY SeqModAssumption DEF NextSeq

\* A sequence over a smaller set is one over a larger set.
LEMMA SeqSubset ==
    ASSUME NEW S, NEW T, S \subseteq T, NEW q \in Seq(S)
    PROVE  q \in Seq(T)
OBVIOUS

\* What the receiver holds is well typed.
LEMMA GoodNalsTyped ==
    ASSUME NEW s, NEW q \in Seq(GoodNals(s))
    PROVE  q \in Seq(ContiguousNals) /\ q \in Frame
<1>1. GoodNals(s) \subseteq ContiguousNals /\ ContiguousNals \subseteq Nal
  BY DEF GoodNals, ContiguousNals
<1>2. QED
  BY <1>1, SeqSubset DEF Frame

\* A packet that is no fragment is a NAL of its stream.
LEMMA OnePacketNal ==
    ASSUME NEW p \in Packet, p.kind # "fu"
    PROVE  <<p>> \in GoodNals(p.ssrc)
<1>1. <<p>> \in Nal /\ Len(<<p>>) = 1 /\ <<p>>[1] = p
  BY DEF Nal
<1>2. QED
  BY <1>1 DEF GoodNals, ContiguousNals, Contiguous

\* Prepending parameter sets keeps the frame's NALs in S.
LEMMA AddNalInS ==
    ASSUME NEW S, NEW buf \in Seq(S), NEW params \in Seq(S), NEW nal \in S
    PROVE  /\ AddNal(buf, params, nal) \in Seq(S)
           /\ ParamsLeft(params, nal) \in Seq(S)
<1>1. buf \o params \o <<nal>> \in Seq(S) /\ Append(buf, nal) \in Seq(S) /\ <<>> \in Seq(S)
  OBVIOUS
<1>2. QED
  BY <1>1 DEF AddNal, ParamsLeft

\* The marker check moves a frame, it does not change one.
LEMMA CheckMarkerMoves ==
    ASSUME NEW p \in Packet, NEW s \in Nat, NEW buf \in Seq(GoodNals(s)),
           NEW data, \E t \in Nat : data \in Seq(GoodNals(t)),
           NEW done \in BOOLEAN,
           CheckMarker(p, buf, data, done)
    PROVE  /\ frameBuf' \in Seq(GoodNals(s))
           /\ \E t \in Nat : frameData' \in Seq(GoodNals(t))
           /\ produced' \in BOOLEAN
<1> DEFINE closes == p.marker /\ buf # <<>>
<1>1. frameBuf' \in Seq(GoodNals(s))
  <2>1. <<>> \in Seq(GoodNals(s))
    OBVIOUS
  <2>2. QED
    BY <2>1 DEF CheckMarker
<1>2. \E t \in Nat : frameData' \in Seq(GoodNals(t))
  BY DEF CheckMarker
<1>3. produced' \in BOOLEAN
  BY DEF CheckMarker
<1>4. QED
  BY <1>1, <1>2, <1>3

\* After the stream check everything held belongs to the packet's stream.
LEMMA SameStream ==
    ASSUME RInv, NEW p \in Packet
    PROVE  /\ BufAt(p) \in Seq(GoodNals(p.ssrc))
           /\ ParamsAt(p) \in Seq(GoodNals(p.ssrc))
           /\ FuOf(FuAt(p), p.ssrc)
           /\ FuOf(ResetFu(FuAt(p)), p.ssrc)
<1>1. <<>> \in Seq(GoodNals(p.ssrc)) /\ <<>> \in Nal /\ Len(<<>>) = 0
  BY DEF Nal
<1>2. \A f : FuOf(f, lastSsrc) => FuOf(ResetFu(f), p.ssrc)
  <2> TAKE f
  <2> HAVE FuOf(f, lastSsrc)
  <2>1. f \in [active: BOOLEAN, expected: 0..SeqMod-1, payload: Nal]
    BY DEF FuOf
  <2>2. ResetFu(f) \in [active: BOOLEAN, expected: 0..SeqMod-1, payload: Nal]
    BY <1>1, <2>1 DEF ResetFu
  <2>3. ~ResetFu(f).active /\ ResetFu(f).payload = <<>>
    BY <2>1 DEF ResetFu
  <2>4. QED
    BY <1>1, <2>2, <2>3 DEF FuOf
<1>3. CASE NewStream(p)
  BY <1>1, <1>2, <1>3 DEF BufAt, ParamsAt, FuAt, RInv, ResetFu, FuOf
<1>4. CASE ~NewStream(p) /\ firstPacket
  <2>1. BufAt(p) = <<>> /\ ParamsAt(p) = <<>> /\ FuAt(p) = fu
    BY <1>4 DEF BufAt, ParamsAt, FuAt, RInv
  <2>2. FuOf(fu, p.ssrc)
    BY <1>1, <1>4 DEF RInv, FuOf
  <2>3. QED
    BY <1>1, <1>2, <2>1, <2>2 DEF RInv
<1>5. CASE ~NewStream(p) /\ ~firstPacket
  <2>1. p.ssrc = lastSsrc
    BY <1>5 DEF NewStream
  <2>2. QED
    BY <1>2, <1>5, <2>1 DEF BufAt, ParamsAt, FuAt, RInv
<1>6. QED
  BY <1>3, <1>4, <1>5

\* Adding the expected fragment gives a longer beginning, or a whole NAL.
LEMMA FragmentAppended ==
    ASSUME NEW p \in Packet, NEW f, FuOf(f, p.ssrc), p.kind = "fu", ~p.start,
           f.active, p.seq = f.expected
    PROVE  LET parts == Append(f.payload, p) IN
           /\ parts \in Nal
           /\ \A i \in 1..Len(parts) : parts[i].ssrc = p.ssrc
           /\ ~p.end => Unfinished(parts, NextSeq(p.seq))
           /\ p.end => parts \in GoodNals(p.ssrc)
<1> DEFINE n == f.payload
           parts == Append(n, p)
<1>1. /\ n \in Seq(Packet) /\ parts \in Seq(Packet)
      /\ Len(n) \in Nat \ {0} /\ Len(parts) = Len(n) + 1
      /\ \A i \in 1..Len(n) : parts[i] = n[i]
      /\ parts[Len(n) + 1] = p
  BY DEF FuOf, Unfinished, Nal
<1>2. \A i \in 1..Len(parts) : parts[i].ssrc = p.ssrc
  BY <1>1 DEF FuOf
<1>3. \A i \in 1..Len(parts) :
        /\ parts[i].kind = "fu"
        /\ parts[i].start <=> i = 1
        /\ i > 1 => parts[i].seq = NextSeq(parts[i-1].seq)
        /\ i < Len(parts) => ~parts[i].end
  <2> TAKE i \in 1..Len(parts)
  <2>1. CASE i \in 1..Len(n)
    <3>1. i > 1 => i-1 \in 1..Len(n)
      BY <2>1, <1>1
    <3>2. QED
      BY <1>1, <2>1, <3>1 DEF FuOf, Unfinished
  <2>2. CASE i = Len(n) + 1
    <3>1. Len(n) \in 1..Len(n) /\ i > 1 /\ i - 1 = Len(n)
      BY <2>2, <1>1
    <3>2. p.seq = NextSeq(n[Len(n)].seq)
      BY DEF FuOf, Unfinished
    <3>3. QED
      BY <1>1, <2>2, <3>1, <3>2
  <2>3. QED
    BY <1>1, <2>1, <2>2
<1>4. parts # <<>>
  BY <1>1
<1>5. ~p.end => Unfinished(parts, NextSeq(p.seq))
  BY <1>1, <1>3, <1>4 DEF Unfinished
<1>6. p.end => Contiguous(parts)
  <2> HAVE p.end
  <2>1. \A i \in 1..Len(parts) : parts[i].end <=> i = Len(parts)
    BY <1>1, <1>3
  <2>2. QED
    BY <1>1, <1>3, <1>4, <2>1 DEF Contiguous
<1>7. QED
  BY <1>1, <1>2, <1>5, <1>6 DEF GoodNals, ContiguousNals, Nal

\* A first fragment is a beginning, or (start and end both set) a whole NAL.
LEMMA FragmentStarted ==
    ASSUME NEW p \in Packet, p.kind = "fu", p.start
    PROVE  /\ <<p>> \in Nal
           /\ \A i \in 1..Len(<<p>>) : <<p>>[i].ssrc = p.ssrc
           /\ ~p.end => Unfinished(<<p>>, NextSeq(p.seq))
           /\ p.end => <<p>> \in GoodNals(p.ssrc)
<1>1. <<p>> \in Seq(Packet) /\ Len(<<p>>) = 1 /\ <<p>>[1] = p
  OBVIOUS
<1>2. QED
  BY <1>1 DEF Unfinished, GoodNals, ContiguousNals, Contiguous, Nal

-----------------------------------------------------------------------------
\* Every exit of the FU-A branch that keeps the fragment.
LEMMA CollectFragmentKeeps ==
    ASSUME NEW p \in Packet, NEW parts \in Nal, NEW buf \in Seq(GoodNals(p.ssrc)),
           ParamsAt(p) \in Seq(GoodNals(p.ssrc)),
           \A i \in 1..Len(parts) : parts[i].ssrc = p.ssrc,
           ~p.end => Unfinished(parts, NextSeq(p.seq)),
           p.end => parts \in GoodNals(p.ssrc),
           NEW data, \E t \in Nat : data \in Seq(GoodNals(t)),
           NEW done \in BOOLEAN,
           CollectFragment(p, parts, buf, data, done)
    PROVE  /\ frameBuf' \in Seq(GoodNals(p.ssrc))
           /\ pendingParams' \in Seq(GoodNals(p.ssrc))
           /\ FuOf(fu', p.ssrc)
           /\ \E t \in Nat : frameData' \in Seq(GoodNals(t))
           /\ produced' \in BOOLEAN
<1>1. p.ssrc \in Nat /\ NextSeq(p.seq) \in 0..SeqMod-1
  BY NextSeqInRange DEF Packet
<1>2. <<>> \in Nal /\ Len(<<>>) = 0
  BY DEF Nal
<1>3. CASE p.end
  <2> DEFINE added == AddNal(buf, ParamsAt(p), parts)
  <2>1. added \in Seq(GoodNals(p.ssrc)) /\ ParamsLeft(ParamsAt(p), parts) \in Seq(GoodNals(p.ssrc))
    BY <1>3, AddNalInS
  <2>2. /\ fu' = [active |-> FALSE, expected |-> NextSeq(p.seq), payload |-> <<>>]
        /\ pendingParams' = ParamsLeft(ParamsAt(p), parts)
        /\ CheckMarker(p, added, data, done)
    BY <1>3 DEF CollectFragment
  <2>3. FuOf(fu', p.ssrc)
    BY <1>1, <1>2, <2>2 DEF FuOf
  <2> HIDE DEF added
  <2>4. QED
    BY <1>1, <2>1, <2>2, <2>3, CheckMarkerMoves
<1>4. CASE ~p.end
  <2>1. /\ fu' = [active |-> TRUE, expected |-> NextSeq(p.seq), payload |-> parts]
        /\ pendingParams' = ParamsAt(p)
        /\ CheckMarker(p, buf, data, done)
    BY <1>4 DEF CollectFragment
  <2>2. FuOf(fu', p.ssrc)
    BY <1>1, <1>4, <2>1 DEF FuOf
  <2>3. QED
    BY <1>1, <2>1, <2>2, CheckMarkerMoves
<1>5. QED
  BY <1>3, <1>4

\* The part of RInv that Seen(p) alone establishes.
LEMMA SeenKeeps ==
    ASSUME RInv, NEW p \in Packet, Seen(p),
           frameBuf' \in Seq(GoodNals(p.ssrc)),
           pendingParams' \in Seq(GoodNals(p.ssrc)),
           FuOf(fu', p.ssrc),
           \E t \in Nat : frameData' \in Seq(GoodNals(t)),
           produced' \in BOOLEAN
    PROVE  RInv'
BY DEF RInv, Seen, Packet

\* One packet, whatever it is, preserves the invariant.
LEMMA ReceiveKeeps ==
    ASSUME RInv, NEW p \in Packet, Receive(p)
    PROVE  RInv'
<1>1. /\ p.ssrc \in Nat /\ p.of \in Nat /\ produced \in BOOLEAN
      /\ \E t \in Nat : frameData \in Seq(GoodNals(t))
  BY DEF Packet, RInv
<1>2. /\ BufAt(p) \in Seq(GoodNals(p.ssrc))
      /\ ParamsAt(p) \in Seq(GoodNals(p.ssrc))
      /\ FuOf(FuAt(p), p.ssrc)
      /\ FuOf(ResetFu(FuAt(p)), p.ssrc)
  BY SameStream
<1>3. CASE ReceiveParam(p)
  <2>1. <<p>> \in GoodNals(p.ssrc)
    BY <1>3, OnePacketNal DEF ReceiveParam
  <2>2. pendingParams' \in Seq(GoodNals(p.ssrc))
    BY <1>2, <1>3, <2>1 DEF ReceiveParam
  <2>3. QED
    BY <1>1, <1>2, <1>3, <2>2, SeenKeeps DEF ReceiveParam
<1>4. CASE ReceiveSingle(p)
  <2>1. <<p>> \in GoodNals(p.ssrc)
    BY <1>4, OnePacketNal DEF ReceiveSingle
  <2> DEFINE added == AddNal(BufAt(p), ParamsAt(p), <<p>>)
  <2>2. added \in Seq(GoodNals(p.ssrc)) /\ ParamsLeft(ParamsAt(p), <<p>>) \in Seq(GoodNals(p.ssrc))
    BY <1>2, <2>1, AddNalInS
  <2>3. /\ Seen(p)
        /\ fu' = FuAt(p) \/ fu' = ResetFu(FuAt(p))
        /\ pendingParams' = ParamsLeft(ParamsAt(p), <<p>>)
        /\ CheckMarker(p, added, frameData, produced)
    BY <1>4 DEF ReceiveSingle
  <2> HIDE DEF added
  <2>4. /\ frameBuf' \in Seq(GoodNals(p.ssrc))
        /\ \E t \in Nat : frameData' \in Seq(GoodNals(t))
        /\ produced' \in BOOLEAN
    BY <1>1, <2>2, <2>3, CheckMarkerMoves
  <2>5. QED
    BY <1>2, <2>2, <2>3, <2>4, SeenKeeps
<1>5. CASE ReceiveFirstFragment(p)
  <2> DEFINE data == IF BufAt(p) # <<>> THEN BufAt(p) ELSE frameData
             done == BufAt(p) # <<>> \/ produced
  <2>1. Seen(p) /\ p.kind = "fu" /\ p.start /\ CollectFragment(p, <<p>>, <<>>, data, done)
    BY <1>5 DEF ReceiveFirstFragment
  <2>2. (\E t \in Nat : data \in Seq(GoodNals(t))) /\ done \in BOOLEAN
    BY <1>1, <1>2
  <2>3. /\ <<p>> \in Nal
        /\ \A i \in 1..Len(<<p>>) : <<p>>[i].ssrc = p.ssrc
        /\ ~p.end => Unfinished(<<p>>, NextSeq(p.seq))
        /\ p.end => <<p>> \in GoodNals(p.ssrc)
    BY <2>1, FragmentStarted
  <2>4. <<>> \in Seq(GoodNals(p.ssrc))
    OBVIOUS
  <2> HIDE DEF data, done
  <2>5. QED
    BY <1>2, <2>1, <2>2, <2>3, <2>4, CollectFragmentKeeps, SeenKeeps
<1>6. CASE ReceiveNextFragment(p)
  <2> DEFINE parts == Append(FuAt(p).payload, p)
  <2>1. /\ Seen(p) /\ p.kind = "fu" /\ ~p.start
        /\ FuAt(p).active /\ p.seq = FuAt(p).expected
        /\ CollectFragment(p, parts, BufAt(p), frameData, produced)
    BY <1>6 DEF ReceiveNextFragment
  <2>2. /\ parts \in Nal
        /\ \A i \in 1..Len(parts) : parts[i].ssrc = p.ssrc
        /\ ~p.end => Unfinished(parts, NextSeq(p.seq))
        /\ p.end => parts \in GoodNals(p.ssrc)
    BY <1>2, <2>1, FragmentAppended
  <2> HIDE DEF parts
  <2>3. QED
    BY <1>1, <1>2, <2>1, <2>2, CollectFragmentKeeps, SeenKeeps
<1>7. CASE ReceiveStrayFragment(p)
  <2>1. /\ Seen(p)
        /\ fu' = FuAt(p) \/ fu' = ResetFu(FuAt(p))
        /\ frameBuf' = BufAt(p) /\ pendingParams' = ParamsAt(p)
        /\ frameData' = frameData /\ produced' = produced
    BY <1>7 DEF ReceiveStrayFragment, NothingKept
  <2>2. QED
    BY <1>1, <1>2, <2>1, SeenKeeps
<1>8. CASE ReceiveAggregate(p)
  <2> DEFINE added == BufAt(p) \o [i \in 1..p.of |-> <<p>>]
  <2>1. <<p>> \in GoodNals(p.ssrc)
    BY <1>8, OnePacketNal DEF ReceiveAggregate
  <2>2. [i \in 1..p.of |-> <<p>>] \in Seq(GoodNals(p.ssrc))
    BY <1>1, <2>1
  <2>3. added \in Seq(GoodNals(p.ssrc))
    BY <1>2, <2>2
  <2>4. /\ Seen(p) /\ fu' = FuAt(p) /\ pendingParams' = ParamsAt(p)
        /\ CheckMarker(p, added, frameData, produced)
    BY <1>8 DEF ReceiveAggregate
  <2> HIDE DEF added
  <2>5. /\ frameBuf' \in Seq(GoodNals(p.ssrc))
        /\ \E t \in Nat : frameData' \in Seq(GoodNals(t))
        /\ produced' \in BOOLEAN
    BY <1>1, <2>3, <2>4, CheckMarkerMoves
  <2>6. QED
    BY <1>2, <2>4, <2>5, SeenKeeps
<1>9. CASE ReceiveOther(p)
  <2>1. /\ Seen(p) /\ fu' = FuAt(p) /\ frameBuf' = BufAt(p)
        /\ pendingParams' = ParamsAt(p)
        /\ frameData' = frameData /\ produced' = produced
    BY <1>9 DEF ReceiveOther, NothingKept
  <2>2. QED
    BY <1>1, <1>2, <2>1, SeenKeeps
<1>10. QED
  BY <1>3, <1>4, <1>5, <1>6, <1>7, <1>8, <1>9 DEF Receive

\* Beginning and ending a call changes nothing that is held.
LEMMA CallKeeps ==
    ASSUME RInv, Call \/ Return \/ UNCHANGED rvars
    PROVE  RInv'
<1>1. /\ inCall' \in BOOLEAN /\ produced' \in BOOLEAN
      /\ UNCHANGED <<frameData, frameBuf, pendingParams, fu, lastSsrc, firstPacket>>
  <2>1. CASE Call
    BY <2>1 DEF Call
  <2>2. CASE Return
    BY <2>2 DEF RInv, Return
  <2>3. CASE UNCHANGED rvars
    BY <2>3 DEF RInv, rvars
  <2>4. QED
    BY <2>1, <2>2, <2>3
<1>2. QED
  BY <1>1 DEF RInv

\* Opening the socket anew discards everything.
LEMMA StartKeeps ==
    ASSUME RInv, Start
    PROVE  RInv'
<1>1. \A s \in Nat : <<>> \in Seq(GoodNals(s))
  OBVIOUS
<1>2. <<>> \in Nal /\ Len(<<>>) = 0
  BY DEF Nal
<1>3. /\ fu' \in [active: BOOLEAN, expected: 0..SeqMod-1, payload: Nal]
      /\ ~fu'.active /\ fu'.payload = <<>>
  BY <1>2 DEF RInv, FuOf, Start, ResetFu
<1>4. FuOf(fu', lastSsrc')
  BY <1>2, <1>3 DEF FuOf
<1>5. QED
  BY <1>1, <1>3, <1>4 DEF RInv, Start

\* Initially nothing is held.
LEMMA InitHolds ==
    ASSUME ReceiverInit
    PROVE  RInv
<1>1. \A s \in Nat : <<>> \in Seq(GoodNals(s))
  OBVIOUS
<1>2. <<>> \in Nal /\ Len(<<>>) = 0
  BY DEF Nal
<1>3. FuOf(fu, lastSsrc)
  BY <1>2, SeqModAssumption DEF ReceiverInit, NoFu, FuOf
<1>4. QED
  BY <1>1, <1>3 DEF RInv, ReceiverInit, NoFu

\* RInv holds in every state of the receiver.
THEOREM Invariance == ReceiverSpec => []RInv
<1>1. ReceiverInit => RInv
  BY InitHolds
<1>2. RInv /\ [ReceiverNext]_rvars => RInv'
  BY ReceiveKeeps, CallKeeps, StartKeeps DEF ReceiverNext
<1>3. QED
  BY <1>1, <1>2, PTL DEF ReceiverSpec

-----------------------------------------------------------------------------
\* Type correctness of the receiver.
THEOREM TypeCorrect == ReceiverSpec => []ReceiverTypeOK
<1>1. RInv => ReceiverTypeOK
  BY GoodNalsTyped DEF RInv, FuOf, ReceiverTypeOK
<1>2. QED
  BY <1>1, Invariance, PTL

\* Whatever packets arrive, no NAL handed to the decoder has a gap in it.
THEOREM NoGap == ReceiverSpec => []NoGapInNal
<1>1. RInv => NoGapInNal
  BY GoodNalsTyped DEF RInv, NoGapInNal
<1>2. QED
  BY <1>1, Invariance, PTL

\* Whatever senders there are, no frame mixes packets of two of them.
THEOREM OneStream == ReceiverSpec => []OneStreamPerFrame
<1>1. RInv => OneStreamPerFrame
  <2> SUFFICES ASSUME RInv PROVE OneStreamPerFrame
    OBVIOUS
  <2>1. PICK s \in Nat : frameData \in Seq(GoodNals(s))
    BY DEF RInv
  <2>2. \A i \in 1..Len(frameData) : \A a \in 1..Len(frameData[i]) :
          frameData[i][a].ssrc = s
    BY <2>1 DEF GoodNals
  <2>3. QED
    BY <2>2 DEF OneStreamPerFrame
<1>2. QED
  BY <1>1, Invariance, PTL

-----------------------------------------------------------------------------
(***************************************************************************)
(* ParamsLeadAnIdr: what is buffered is parameter sets only, and they are  *)
(* put into a frame in one step with the IDR that follows them.            *)
(***************************************************************************)
IsParam(nal) == nal[1].kind = "single" /\ nal[1].type \in ParamTypes

Leads(q) ==
    \A i \in 1..Len(q) : IsParam(q[i]) =>
        \E j \in i+1..Len(q) :
            /\ q[j][1].type = "IDR"
            /\ \A k \in i..j-1 : q[k][1].type \in ParamTypes

ParamNals == {n \in Nal : n # <<>> /\ n[1].type \in ParamTypes}

LInv == Leads(frameBuf) /\ Leads(frameData) /\ pendingParams \in Seq(ParamNals)

\* Frames one after the other.
LEMMA LeadsConcat ==
    ASSUME NEW a \in Frame, NEW b \in Frame, Leads(a), Leads(b)
    PROVE  Leads(a \o b)
<1> DEFINE q == a \o b
           m == Len(a)
<1>1. /\ m \in Nat /\ Len(b) \in Nat /\ Len(q) = m + Len(b)
      /\ \A i \in 1..m : q[i] = a[i]
      /\ \A i \in m+1..Len(q) : q[i] = b[i-m]
  BY DEF Frame
<1> HIDE DEF q, m
<1>2. SUFFICES ASSUME NEW i \in 1..Len(q), IsParam(q[i])
               PROVE  \E j \in i+1..Len(q) :
                          /\ q[j][1].type = "IDR"
                          /\ \A k \in i..j-1 : q[k][1].type \in ParamTypes
  BY DEF Leads, q
<1>3. CASE i \in 1..m
  <2>1. PICK j \in i+1..m : /\ a[j][1].type = "IDR"
                            /\ \A k \in i..j-1 : a[k][1].type \in ParamTypes
    BY <1>1, <1>2, <1>3 DEF Leads, m
  <2>2. j \in i+1..Len(q) /\ q[j] = a[j] /\ \A k \in i..j-1 : q[k] = a[k]
    BY <1>1, <1>3
  <2>3. QED
    BY <2>1, <2>2
<1>4. CASE i \in m+1..Len(q)
  <2>1. i - m \in 1..Len(b) /\ IsParam(b[i-m])
    BY <1>1, <1>2, <1>4
  <2>2. PICK j \in i-m+1..Len(b) : /\ b[j][1].type = "IDR"
                                   /\ \A k \in i-m..j-1 : b[k][1].type \in ParamTypes
    BY <2>1 DEF Leads
  <2> DEFINE l == j + m
  <2>3. l \in i+1..Len(q) /\ l - m = j
    BY <1>1, <1>4
  <2> HIDE DEF l
  <2>4. q[l] = b[j]
    <3>1. l \in m+1..Len(q)
      BY <1>1, <1>4, <2>3
    <3>2. q[l] = b[l-m]
      BY <1>1, <3>1
    <3>3. QED
      BY <2>3, <3>2
  <2>5. \A k \in i..l-1 : q[k] = b[k-m] /\ k - m \in i-m..j-1
    BY <1>1, <1>4, <2>3
  <2>6. QED
    BY <2>2, <2>3, <2>4, <2>5
<1>5. QED
  BY <1>1, <1>3, <1>4

\* A NAL that is no buffered parameter set needs nothing after it.
LEMMA LeadsOne ==
    ASSUME NEW nal \in Nal, ~IsParam(nal)
    PROVE  Leads(<<nal>>)
<1>1. Len(<<nal>>) = 1 /\ <<nal>>[1] = nal
  OBVIOUS
<1>2. QED
  BY <1>1 DEF Leads

\* Parameter sets and their IDR.
LEMMA LeadsIdr ==
    ASSUME NEW params \in Seq(ParamNals), NEW nal \in Nal, nal[1].type = "IDR"
    PROVE  Leads(params \o <<nal>>)
<1> DEFINE q == params \o <<nal>>
           m == Len(params)
<1>1. /\ m \in Nat /\ Len(q) = m + 1 /\ q[m+1] = nal
      /\ \A i \in 1..m : q[i] = params[i] /\ params[i][1].type \in ParamTypes
  BY DEF ParamNals
<1> HIDE DEF q, m
<1>2. "IDR" \notin ParamTypes
  BY DEF ParamTypes
<1>3. ASSUME NEW i \in 1..Len(q), IsParam(q[i])
      PROVE  \E j \in i+1..Len(q) :
                 /\ q[j][1].type = "IDR"
                 /\ \A k \in i..j-1 : q[k][1].type \in ParamTypes
  <2>1. i # m + 1
    BY <1>1, <1>2, <1>3 DEF IsParam
  <2>2. m + 1 \in i+1..Len(q) /\ \A k \in i..(m+1)-1 : k \in 1..m
    BY <1>1, <2>1
  <2>3. QED
    BY <1>1, <2>2
<1>4. QED
  BY <1>3 DEF Leads, q

\* So the receiver may add a NAL to a frame.
LEMMA AddNalLeads ==
    ASSUME NEW buf \in Frame, Leads(buf), NEW params \in Seq(ParamNals),
           NEW nal \in Nal, nal # <<>>, ~IsParam(nal)
    PROVE  /\ AddNal(buf, params, nal) \in Frame
           /\ Leads(AddNal(buf, params, nal))
           /\ ParamsLeft(params, nal) \in Seq(ParamNals)
<1>1. params \in Frame /\ <<nal>> \in Frame /\ params \o <<nal>> \in Frame
  <2>1. ParamNals \subseteq Nal
    BY DEF ParamNals
  <2>2. QED
    BY <2>1, SeqSubset DEF Frame
<1>2. /\ buf \o params \o <<nal>> = buf \o (params \o <<nal>>)
      /\ Append(buf, nal) = buf \o <<nal>>
  BY <1>1 DEF Frame
<1>3. Head(nal) = nal[1]
  BY DEF Nal
<1>4. Append(buf, nal) \in Frame /\ buf \o params \o <<nal>> \in Frame
  BY <1>1 DEF Frame
<1>5. Leads(Append(buf, nal))
  <2>1. Leads(<<nal>>)
    BY LeadsOne
  <2>2. Leads(buf \o <<nal>>)
    BY <1>1, <2>1, LeadsConcat
  <2>3. QED
    BY <1>2, <2>2
<1>6. nal[1].type = "IDR" => Leads(buf \o params \o <<nal>>)
  <2> HAVE nal[1].type = "IDR"
  <2>1. Leads(params \o <<nal>>)
    BY LeadsIdr
  <2>2. Leads(buf \o (params \o <<nal>>))
    BY <1>1, <2>1, LeadsConcat
  <2>3. QED
    BY <1>2, <2>2
<1>7. <<>> \in Seq(ParamNals)
  OBVIOUS
<1>8. QED
  BY <1>3, <1>4, <1>5, <1>6, <1>7 DEF AddNal, ParamsLeft

\* The marker check moves a frame, it does not change one.
LEMMA CheckMarkerLeads ==
    ASSUME NEW p, NEW buf, NEW data, NEW done, Leads(buf), Leads(data),
           CheckMarker(p, buf, data, done)
    PROVE  Leads(frameBuf') /\ Leads(frameData')
<1>1. Leads(<<>>)
  <2>1. Len(<<>>) = 0
    OBVIOUS
  <2>2. QED
    BY <2>1 DEF Leads
<1>2. QED
  BY <1>1 DEF CheckMarker

\* A fragment collected.
LEMMA CollectFragmentLeads ==
    ASSUME NEW p \in Packet, NEW parts \in Nal, parts # <<>>, parts[1].kind = "fu",
           NEW buf \in Frame, NEW data, NEW done, Leads(buf), Leads(data),
           ParamsAt(p) \in Seq(ParamNals),
           CollectFragment(p, parts, buf, data, done)
    PROVE  LInv'
<1>1. ~IsParam(parts)
  BY DEF IsParam
<1>2. CASE p.end
  BY <1>1, <1>2, AddNalLeads, CheckMarkerLeads DEF CollectFragment, LInv
<1>3. CASE ~p.end
  BY <1>3, CheckMarkerLeads DEF CollectFragment, LInv
<1>4. QED
  BY <1>2, <1>3

\* One packet.
LEMMA ReceiveLeads ==
    ASSUME RInv, LInv, NEW p \in Packet, Receive(p)
    PROVE  LInv'
<1>1. /\ Leads(BufAt(p)) /\ Leads(frameData) /\ Leads(<<>>)
      /\ ParamsAt(p) \in Seq(ParamNals)
      /\ BufAt(p) \in Frame /\ <<>> \in Frame
  <2>1. Len(<<>>) = 0 /\ <<>> \in Seq(ParamNals) /\ <<>> \in Frame
    BY DEF Frame
  <2>2. Leads(<<>>)
    BY <2>1 DEF Leads
  <2>3. BufAt(p) \in Frame
    BY SameStream, GoodNalsTyped
  <2>4. QED
    BY <2>1, <2>2, <2>3 DEF LInv, BufAt, ParamsAt
<1>2. <<p>> \in Nal /\ <<p>> # <<>> /\ <<p>>[1] = p
  BY DEF Nal
<1>3. CASE ReceiveParam(p)
  <2>1. <<p>> \in ParamNals
    BY <1>2, <1>3 DEF ReceiveParam, ParamNals
  <2>2. Append(ParamsAt(p), <<p>>) \in Seq(ParamNals)
    BY <1>1, <2>1
  <2>3. QED
    BY <1>1, <1>3, <2>2 DEF ReceiveParam, LInv
<1>4. CASE ReceiveSingle(p)
  <2>1. ~IsParam(<<p>>)
    BY <1>2, <1>4 DEF ReceiveSingle, IsParam
  <2>2. QED
    BY <1>1, <1>2, <1>4, <2>1, AddNalLeads, CheckMarkerLeads DEF ReceiveSingle, LInv
<1>5. CASE ReceiveFirstFragment(p)
  <2> DEFINE data == IF BufAt(p) # <<>> THEN BufAt(p) ELSE frameData
             done == BufAt(p) # <<>> \/ produced
  <2>1. p.kind = "fu" /\ CollectFragment(p, <<p>>, <<>>, data, done)
    BY <1>5 DEF ReceiveFirstFragment
  <2>2. Leads(data)
    BY <1>1
  <2> HIDE DEF data, done
  <2>3. QED
    BY <1>1, <1>2, <2>1, <2>2, CollectFragmentLeads
<1>6. CASE ReceiveNextFragment(p)
  <2> DEFINE n == FuAt(p).payload
             parts == Append(n, p)
  <2>1. CollectFragment(p, parts, BufAt(p), frameData, produced) /\ FuAt(p).active
    BY <1>6 DEF ReceiveNextFragment
  <2>2. n \in Seq(Packet) /\ n # <<>> /\ n[1].kind = "fu"
    <3>1. FuOf(FuAt(p), p.ssrc)
      BY SameStream
    <3>2. n \in Seq(Packet) /\ Unfinished(n, FuAt(p).expected)
      BY <2>1, <3>1 DEF FuOf, Nal
    <3>3. Len(n) \in Nat \ {0}
      BY <3>2 DEF Unfinished
    <3>4. QED
      BY <3>2, <3>3 DEF Unfinished
  <2> HIDE DEF n
  <2>3. parts \in Nal /\ parts # <<>> /\ parts[1].kind = "fu"
    BY <2>2 DEF Nal
  <2> HIDE DEF parts
  <2>4. QED
    BY <1>1, <2>1, <2>3, CollectFragmentLeads
<1>7. CASE ReceiveStrayFragment(p)
  BY <1>1, <1>7 DEF ReceiveStrayFragment, NothingKept, LInv
<1>8. CASE ReceiveAggregate(p)
  <2> DEFINE nals == [i \in 1..p.of |-> <<p>>]
  <2>1. p.of \in Nat
    BY DEF Packet
  <2>2. nals \in Frame /\ Len(nals) = p.of /\ \A i \in 1..p.of : nals[i] = <<p>>
    <3>1. nals \in Seq({<<p>>}) /\ Len(nals) = p.of
      BY <2>1
    <3>2. nals \in Frame
      BY <1>2, <3>1, SeqSubset DEF Frame
    <3>3. QED
      BY <2>1, <3>1, <3>2
  <2>3. Leads(nals)
    BY <1>2, <1>8, <2>2 DEF Leads, IsParam, ReceiveAggregate
  <2>4. /\ CheckMarker(p, BufAt(p) \o nals, frameData, produced)
        /\ pendingParams' = ParamsAt(p)
    BY <1>8 DEF ReceiveAggregate
  <2> HIDE DEF nals
  <2>5. Leads(BufAt(p) \o nals)
    BY <1>1, <2>2, <2>3, LeadsConcat
  <2>6. QED
    BY <1>1, <2>4, <2>5, CheckMarkerLeads DEF LInv
<1>9. CASE ReceiveOther(p)
  BY <1>1, <1>9 DEF ReceiveOther, NothingKept, LInv
<1>10. QED
  BY <1>3, <1>4, <1>5, <1>6, <1>7, <1>8, <1>9 DEF Receive

\* In every frame, a parameter set that came in a packet of its own is followed by the IDR
\* it was buffered for, whatever was lost, reordered or sent by another sender meanwhile.
THEOREM ParamsAlwaysLead == ReceiverSpec => []ParamsLeadAnIdr
<1>1. ReceiverInit => LInv
  <2>1. Len(<<>>) = 0 /\ <<>> \in Seq(ParamNals)
    OBVIOUS
  <2>2. QED
    BY <2>1 DEF ReceiverInit, LInv, Leads
<1>2. RInv /\ LInv /\ [ReceiverNext]_rvars => LInv'
  <2> SUFFICES ASSUME RInv, LInv, [ReceiverNext]_rvars
               PROVE  LInv'
    OBVIOUS
  <2>1. CASE Call \/ Return \/ UNCHANGED rvars
    BY <2>1 DEF Call, Return, rvars, LInv
  <2>2. CASE Start
    <3>1. Len(<<>>) = 0 /\ <<>> \in Seq(ParamNals)
      OBVIOUS
    <3>2. QED
      BY <2>2, <3>1 DEF Start, LInv, Leads
  <2>3. QED
    BY <2>1, <2>2, ReceiveLeads DEF ReceiverNext
<1>3. LInv => ParamsLeadAnIdr
  BY DEF LInv, Leads, IsParam, ParamsLeadAnIdr
<1>4. QED
  BY <1>1, <1>2, <1>3, Invariance, PTL DEF ReceiverSpec
=============================================================================
