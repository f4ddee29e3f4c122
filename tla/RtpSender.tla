----------------------------- MODULE RtpSender -----------------------------
(***************************************************************************)
(* The phone's side of the video stream: H264Encoder.drainOutput hands the *)
(* NALs of an access unit to RtpSender.sendNal, which puts each in one     *)
(* packet or in FU-A fragments.                                            *)
(*                                                                         *)
(* Two threads use a sender.  The encoder's drain thread holds senderLock  *)
(* for the whole of sendNal.  The coroutine of redirectStream replaces the *)
(* sender under senderLock, then resends the cached parameter sets through *)
(* the new sender without holding it.                                      *)
(***************************************************************************)
EXTENDS RtpPacket

CONSTANTS
    Shapes,        \* access units: sequences of [type, of], of = fragments
    MaxUnits,      \* bound: access units encoded in a run
    MaxSenders,    \* bound: RtpSender objects created in a run
    CachedParams,  \* the encoder has csd-0 and csd-1 when a redirect comes
    AudioStarts,   \* the audio sender may be created beside a live video sender
    StaleDrops,    \* the encoder may fall 200 ms behind the wall clock
    SocketErrors   \* socket.send may throw an IOException

NalShape == [type: NalTypes, of: Nat \ {0}]

ASSUME SenderAssumption ==
    /\ Shapes \subseteq Seq(NalShape)
    /\ MaxUnits \in Nat /\ MaxSenders \in Nat
    /\ {CachedParams, AudioStarts, StaleDrops, SocketErrors} \subseteq BOOLEAN

VARIABLES
    units,           \* access units the encoder has produced
    todo,            \* NALs of the last one not sent yet
    nalNo,           \* which NAL of it is next, counted from 1
    fragNo,          \* fragments of Head(todo) sent so far
    ssrc,            \* ssrc of the current sender; 1, 2, ... in creation order
    sequenceNumber,  \* of the current sender
    draining,        \* the drain thread is alive
    burst,           \* the coroutine: parameter sets to send, and where it is
    wire             \* every packet given to socket.send, in order

svars == <<units, todo, nalNo, fragNo, ssrc, sequenceNumber, draining, burst, wire>>

SenderInit ==
    /\ units = 0
    /\ todo = <<>>
    /\ nalNo = 1
    /\ fragNo = 0
    /\ ssrc = 1
    /\ sequenceNumber = 0
    /\ draining = TRUE
    /\ burst = [left |-> <<>>, pc |-> "send", read |-> 0]
    /\ wire = <<>>

IsSlice(shape) == shape.type \in SliceTypes

\* Mutant: off by one, the index of the NAL before the last.
IsLastNalOfFrameOffByOne == Len(todo) = 2

\* onEncodedFrame's isLast.  drainOutput means the last slice, but the NALs it
\* looks at begin with a start code, whose 01 it takes for the NAL type, so that
\* each counts as a slice.
IsLastNalOfFrame == Len(todo) = 1

\* The next packet of sendSingle or of sendFragmented.
NextPacket ==
    LET shape == Head(todo)
        frag == fragNo + 1
        last == frag = shape.of
    IN [ssrc |-> ssrc, seq |-> sequenceNumber % SeqMod,
        marker |-> last /\ IsSlice(shape) /\ IsLastNalOfFrame,
        kind |-> IF shape.of = 1 THEN "single" ELSE "fu",
        type |-> shape.type,
        start |-> shape.of > 1 /\ frag = 1,
        end |-> shape.of > 1 /\ last,
        unit |-> units, nal |-> nalNo, frag |-> frag, of |-> shape.of,
        at |-> Len(wire) + 1, num |-> sequenceNumber]

\* senderLock is free: no sendNal is between two of its packets.
LockFree == fragNo = 0

Encode ==
    /\ draining
    /\ todo = <<>>
    /\ units < MaxUnits
    /\ units' = units + 1
    /\ nalNo' = 1
    /\ todo' \in Shapes
    /\ UNCHANGED <<fragNo, ssrc, sequenceNumber, draining, burst, wire>>

SendPacket ==
    /\ todo # <<>>
    /\ wire' = Append(wire, NextPacket)
    /\ sequenceNumber' = sequenceNumber + 1
    /\ IF NextPacket.frag = NextPacket.of
       THEN /\ todo' = Tail(todo)
            /\ nalNo' = nalNo + 1
            /\ fragNo' = 0
       ELSE /\ fragNo' = fragNo + 1
            /\ UNCHANGED <<todo, nalNo>>
    /\ UNCHANGED <<units, ssrc, draining, burst>>

\* onEncodedFrame skips a NAL that is more than 200 ms behind the wall clock.
DropStale ==
    /\ StaleDrops
    /\ todo # <<>> /\ fragNo = 0
    /\ todo' = Tail(todo)
    /\ nalNo' = nalNo + 1
    /\ UNCHANGED <<units, fragNo, ssrc, sequenceNumber, draining, burst, wire>>

\* Mutant: sendNal stays where it was in the NAL.
SendFragmentFailsMidNal ==
    /\ SocketErrors
    /\ todo # <<>> /\ Head(todo).of > 1
    /\ draining' = FALSE
    /\ todo' = <<>>
    /\ UNCHANGED <<units, nalNo, fragNo, ssrc, sequenceNumber, burst, wire>>

\* sendFragmented lets the IOException through: it leaves sendNal before the
\* increment and ends the drain thread.
SendFragmentFails ==
    /\ SocketErrors
    /\ todo # <<>> /\ Head(todo).of > 1
    /\ draining' = FALSE
    /\ todo' = <<>>
    /\ fragNo' = 0
    /\ UNCHANGED <<units, nalNo, ssrc, sequenceNumber, burst, wire>>

\* createRtpSender for the audio port resets the live video sender first.
StartAudio ==
    /\ AudioStarts
    /\ LockFree
    /\ sequenceNumber' = 0
    /\ UNCHANGED <<units, todo, nalNo, fragNo, ssrc, draining, burst, wire>>

\* redirectStream, under senderLock: a new sender with an ssrc of its own.
Redirect ==
    /\ LockFree
    /\ ssrc < MaxSenders
    /\ burst.left = <<>>
    /\ ssrc' = ssrc + 1
    /\ sequenceNumber' = 0
    /\ burst' = [left |-> IF CachedParams THEN <<"SPS", "PPS">> ELSE <<>>,
                 pc |-> "send", read |-> 0]
    /\ UNCHANGED <<units, todo, nalNo, fragNo, draining, wire>>

-----------------------------------------------------------------------------
(***************************************************************************)
(* sendNal(sps), sendNal(pps) of redirectStream, with no lock: each sends  *)
(* a packet and then increments the shared Int, a read and a write.        *)
(***************************************************************************)
ParamPacket(type) ==
    [ssrc |-> ssrc, seq |-> sequenceNumber % SeqMod, marker |-> FALSE,
     kind |-> "single", type |-> type, start |-> FALSE, end |-> FALSE,
     unit |-> units, nal |-> 0, frag |-> 1, of |-> 1,
     at |-> Len(wire) + 1, num |-> sequenceNumber]

BurstSend ==
    /\ burst.left # <<>> /\ burst.pc = "send"
    /\ wire' = Append(wire, ParamPacket(Head(burst.left)))
    /\ burst' = [burst EXCEPT !.pc = "read"]
    /\ UNCHANGED <<units, todo, nalNo, fragNo, ssrc, draining, sequenceNumber>>

BurstRead ==
    /\ burst.left # <<>> /\ burst.pc = "read"
    /\ burst' = [burst EXCEPT !.pc = "write", !.read = sequenceNumber]
    /\ UNCHANGED <<units, todo, nalNo, fragNo, ssrc, draining, sequenceNumber, wire>>

BurstWrite ==
    /\ burst.left # <<>> /\ burst.pc = "write"
    /\ sequenceNumber' = burst.read + 1
    /\ burst' = [left |-> Tail(burst.left), pc |-> "send", read |-> 0]
    /\ UNCHANGED <<units, todo, nalNo, fragNo, ssrc, draining, wire>>

Burst == BurstSend \/ BurstRead \/ BurstWrite

Drain == Encode \/ SendPacket \/ DropStale \/ SendFragmentFails

SenderNext == Drain \/ StartAudio \/ Redirect \/ Burst
=============================================================================
