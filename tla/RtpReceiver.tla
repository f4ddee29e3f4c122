---------------------------- MODULE RtpReceiver ----------------------------
(***************************************************************************)
(* rtp-receiver.cpp: RFC 3984 depacketisation of the video stream.         *)
(*                                                                         *)
(* receive_frame() is a loop that takes datagrams from a non-blocking      *)
(* socket until it finds none, so one call is the steps Call, any number   *)
(* of Receive, and Return.  What was completed on the way is in            *)
(* frameData when the call returns.                                        *)
(***************************************************************************)
EXTENDS RtpPacket

VARIABLES
    inCall,          \* the network thread is inside receive_frame
    produced,        \* produced_frame, local to the call
    frameData,       \* frame_data, the caller's buffer
    frameBuf,        \* frame_buf_: NALs of the frame being collected
    pendingParams,   \* pending_params_: SPS/PPS waiting for an IDR
    fu,              \* fu_: the NAL being reassembled from fragments
    lastSsrc,        \* last_ssrc_
    firstPacket      \* first_packet_

rvars == <<inCall, produced, frameData, frameBuf, pendingParams, fu,
           lastSsrc, firstPacket>>

NoFu == [active |-> FALSE, expected |-> 0, payload |-> <<>>]

\* resetFu leaves expected_seq alone.
ResetFu(f) == [f EXCEPT !.active = FALSE, !.payload = <<>>]

ReceiverInit ==
    /\ inCall = FALSE
    /\ produced = FALSE
    /\ frameData = <<>>
    /\ frameBuf = <<>>
    /\ pendingParams = <<>>
    /\ fu = NoFu
    /\ lastSsrc = 0
    /\ firstPacket = TRUE

-----------------------------------------------------------------------------
(***************************************************************************)
(* One packet.  A packet of another stream first discards everything that  *)
(* was collected; the operators below are the state after that.            *)
(***************************************************************************)
NewStream(p) == ~firstPacket /\ p.ssrc # lastSsrc

\* Mutants: a change of ssrc leaves a buffer alone.
BufAtAnyStream(p) == frameBuf
FuAtAnyStream(p) == fu

BufAt(p) == IF NewStream(p) THEN <<>> ELSE frameBuf
ParamsAt(p) == IF NewStream(p) THEN <<>> ELSE pendingParams
FuAt(p) == IF NewStream(p) THEN ResetFu(fu) ELSE fu

Seen(p) ==
    /\ inCall
    /\ lastSsrc' = p.ssrc
    /\ firstPacket' = FALSE
    /\ UNCHANGED inCall

\* Mutant: they go in front of whatever comes next.
AddNalAnyType(buf, params, nal) == buf \o params \o <<nal>>

\* The buffered parameter sets go in front of the next IDR.
AddNal(buf, params, nal) ==
    IF Head(nal).type = "IDR" THEN buf \o params \o <<nal>> ELSE Append(buf, nal)
ParamsLeft(params, nal) == IF Head(nal).type = "IDR" THEN <<>> ELSE params

\* Mutant: the frame is copied, not moved.
CheckMarkerCopies(p, buf, data, done) ==
    LET closes == p.marker /\ buf # <<>> IN
    /\ frameBuf' = buf
    /\ frameData' = IF closes THEN buf ELSE data
    /\ produced' = (closes \/ done)

\* The marker check at the end of the loop body: a marked packet closes the
\* frame.  data and done are frame_data and produced_frame just before it.
CheckMarker(p, buf, data, done) ==
    LET closes == p.marker /\ buf # <<>> IN
    /\ frameBuf' = IF closes THEN <<>> ELSE buf
    /\ frameData' = IF closes THEN buf ELSE data
    /\ produced' = (closes \/ done)

\* Nothing of the packet is kept (the `continue` exits).
NothingKept(p) ==
    /\ frameBuf' = BufAt(p)
    /\ pendingParams' = ParamsAt(p)
    /\ UNCHANGED <<produced, frameData>>

-----------------------------------------------------------------------------
ReceiveParam(p) ==
    /\ Seen(p)
    /\ p.kind = "single" /\ p.type \in ParamTypes
    /\ pendingParams' = Append(ParamsAt(p), <<p>>)
    /\ frameBuf' = BufAt(p)
    /\ fu' = FuAt(p)
    /\ UNCHANGED <<produced, frameData>>

ReceiveSingle(p) ==
    /\ Seen(p)
    /\ p.kind = "single" /\ p.type \notin ParamTypes
    /\ fu' = IF FuAt(p).active THEN ResetFu(FuAt(p)) ELSE FuAt(p)
    /\ pendingParams' = ParamsLeft(ParamsAt(p), <<p>>)
    /\ CheckMarker(p, AddNal(BufAt(p), ParamsAt(p), <<p>>), frameData, produced)

\* The tail of the FU-A branch: parts are the fragments collected so far.
CollectFragment(p, parts, buf, data, done) ==
    IF p.end
    THEN /\ fu' = [active |-> FALSE, expected |-> NextSeq(p.seq), payload |-> <<>>]
         /\ pendingParams' = ParamsLeft(ParamsAt(p), parts)
         /\ CheckMarker(p, AddNal(buf, ParamsAt(p), parts), data, done)
    ELSE /\ fu' = [active |-> TRUE, expected |-> NextSeq(p.seq), payload |-> parts]
         /\ pendingParams' = ParamsAt(p)
         /\ CheckMarker(p, buf, data, done)

\* A first fragment flushes what was being collected, marker or not.
ReceiveFirstFragment(p) ==
    /\ Seen(p)
    /\ p.kind = "fu" /\ p.start
    /\ LET flushes == BufAt(p) # <<>> IN
       CollectFragment(p, <<p>>, <<>>,
                       IF flushes THEN BufAt(p) ELSE frameData,
                       flushes \/ produced)

\* Mutant: the sequence number is not compared.
ReceiveNextFragmentUnchecked(p) ==
    /\ Seen(p)
    /\ p.kind = "fu" /\ ~p.start
    /\ FuAt(p).active
    /\ CollectFragment(p, Append(FuAt(p).payload, p), BufAt(p), frameData, produced)

ReceiveNextFragment(p) ==
    /\ Seen(p)
    /\ p.kind = "fu" /\ ~p.start
    /\ FuAt(p).active /\ p.seq = FuAt(p).expected
    /\ CollectFragment(p, Append(FuAt(p).payload, p), BufAt(p), frameData, produced)

\* Mutant: a gap does not end the NAL being collected.
ReceiveStrayFragmentGoesOn(p) ==
    /\ Seen(p)
    /\ p.kind = "fu" /\ ~p.start
    /\ ~(FuAt(p).active /\ p.seq = FuAt(p).expected)
    /\ fu' = FuAt(p)
    /\ NothingKept(p)

\* A gap, or a fragment of a NAL whose beginning was lost.
ReceiveStrayFragment(p) ==
    /\ Seen(p)
    /\ p.kind = "fu" /\ ~p.start
    /\ ~(FuAt(p).active /\ p.seq = FuAt(p).expected)
    /\ fu' = IF FuAt(p).active THEN ResetFu(FuAt(p)) ELSE FuAt(p)
    /\ NothingKept(p)

\* p.of NALs in one packet; parameter sets among them are not buffered.
ReceiveAggregate(p) ==
    /\ Seen(p)
    /\ p.kind = "stap"
    /\ fu' = FuAt(p)
    /\ pendingParams' = ParamsAt(p)
    /\ CheckMarker(p, BufAt(p) \o [i \in 1..p.of |-> <<p>>], frameData, produced)

\* It is only seen, which is enough to end what another stream had begun.
ReceiveOther(p) ==
    /\ Seen(p)
    /\ p.kind = "other"
    /\ fu' = FuAt(p)
    /\ NothingKept(p)

Receive(p) ==
    \/ ReceiveParam(p)
    \/ ReceiveSingle(p)
    \/ ReceiveFirstFragment(p)
    \/ ReceiveNextFragment(p)
    \/ ReceiveStrayFragment(p)
    \/ ReceiveAggregate(p)
    \/ ReceiveOther(p)

-----------------------------------------------------------------------------
Call ==
    /\ ~inCall
    /\ inCall' = TRUE
    /\ produced' = FALSE
    /\ UNCHANGED <<frameData, frameBuf, pendingParams, fu, lastSsrc, firstPacket>>

\* recvfrom found the socket empty.
Return ==
    /\ inCall
    /\ inCall' = FALSE
    /\ UNCHANGED <<produced, frameData, frameBuf, pendingParams, fu, lastSsrc, firstPacket>>

\* start(): the socket is opened anew, between two calls; the network thread
\* that made the calls is a new one, with a buffer of its own.
Start ==
    /\ ~inCall
    /\ firstPacket' = TRUE
    /\ pendingParams' = <<>>
    /\ frameBuf' = <<>>
    /\ fu' = ResetFu(fu)
    /\ frameData' = <<>>
    /\ produced' = FALSE
    /\ UNCHANGED <<inCall, lastSsrc>>

\* Any packet may reach the socket at any time.
ReceiverNext ==
    \/ Call
    \/ Return
    \/ Start
    \/ \E p \in Packet : Receive(p)

ReceiverSpec == ReceiverInit /\ [][ReceiverNext]_rvars

-----------------------------------------------------------------------------
\* A NAL the receiver may hand on: one packet, or fragments with consecutive
\* sequence numbers of which exactly the first starts and the last ends it.
Contiguous(n) ==
    /\ n # <<>>
    /\ Len(n) = 1 =>
        (n[1].kind = "fu" => n[1].start /\ n[1].end)
    /\ Len(n) > 1 => \A i \in 1..Len(n) :
        /\ n[i].kind = "fu"
        /\ n[i].start <=> i = 1
        /\ n[i].end <=> i = Len(n)
        /\ i > 1 => n[i].seq = NextSeq(n[i-1].seq)
ContiguousNals == {n \in Nal : Contiguous(n)}

\* Every variable holds a value of its type.
ReceiverTypeOK ==
    /\ inCall \in BOOLEAN
    /\ produced \in BOOLEAN
    /\ frameData \in Frame
    /\ frameBuf \in Frame
    /\ pendingParams \in Frame
    /\ fu \in [active: BOOLEAN, expected: 0..SeqMod-1, payload: Nal]
    /\ lastSsrc \in Nat
    /\ firstPacket \in BOOLEAN

\* Whatever arrives, in whatever order and from however many senders, a frame
\* given to the decoder holds no NAL with a gap, a truncated end or a foreign
\* fragment in it (the sequence check and resetFu of the FU-A branch).
NoGapInNal == frameData \in Seq(ContiguousNals)

\* A frame never mixes two streams: not the NALs of an access unit begun by the
\* previous sender, and not parameter sets of that sender in front of an IDR
\* of the new one (the ssrc check that clears all three buffers).
OneStreamPerFrame ==
    \A i, j \in 1..Len(frameData) :
        \A a \in 1..Len(frameData[i]), b \in 1..Len(frameData[j]) :
            frameData[i][a].ssrc = frameData[j][b].ssrc

\* In a frame, a parameter set that came in a packet of its own is always
\* followed by an IDR that it was buffered for, never by the frame's end.
ParamsLeadAnIdr ==
    \A i \in 1..Len(frameData) :
        frameData[i][1].kind = "single" /\ frameData[i][1].type \in ParamTypes
            => \E j \in i+1..Len(frameData) :
                  /\ frameData[j][1].type = "IDR"
                  /\ \A k \in i..j-1 : frameData[k][1].type \in ParamTypes
=============================================================================
