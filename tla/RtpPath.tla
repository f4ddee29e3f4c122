------------------------------ MODULE RtpPath ------------------------------
(***************************************************************************)
(* The video path: RtpSender on the phone, UDP, and the receiver in OBS.   *)
(* SRTP is a filter in front of the receiver: a packet that unprotect      *)
(* refuses is a packet that was lost.                                      *)
(***************************************************************************)
EXTENDS RtpSender, RtpReceiver

CONSTANTS
    Loses,         \* the network may drop packets
    Reorders,      \* the network may deliver packets out of order
    Duplicates,    \* the network may deliver a packet again
    Restarts       \* OBS may reopen its socket

ASSUME NetworkAssumption ==
    /\ {Loses, Reorders, Duplicates, Restarts} \subseteq BOOLEAN
    /\ Restarts => Loses

VARIABLES
    inFlight,      \* positions in wire of the packets not delivered yet
    shown          \* the access unit of each slice in the last frame decoded,
                   \* by the place of the slice in the frame

vars == <<svars, inFlight, shown, rvars>>

Init ==
    /\ SenderInit
    /\ ReceiverInit
    /\ inFlight = {}
    /\ shown = <<0>>

-----------------------------------------------------------------------------
\* What a step of the phone put on the wire is in flight.
Transmit ==
    /\ SenderNext
    /\ inFlight' = inFlight \cup (Len(wire)+1 .. Len(wire'))
    /\ UNCHANGED <<shown, rvars>>

\* Environment: no packet arrives a whole cycle of sequence numbers away from
\* the fragment that the receiver continues (65536 packets, about a minute).
WithinACycle(p) ==
    LET f == FuAt(p) IN
    f.active => LET q == f.payload[Len(f.payload)] IN
                p.at + SeqMod > q.at + 1 /\ p.at <= q.at + SeqMod

Deliver ==
    \E i \in inFlight :
        /\ ~Reorders => \A j \in inFlight : i <= j
        /\ WithinACycle(wire[i])
        /\ Receive(wire[i])
        /\ \/ inFlight' = inFlight \ {i}
           \/ Duplicates /\ UNCHANGED inFlight
        /\ UNCHANGED <<svars, shown>>

\* Dropped by the network, by the full socket buffer or by SRTP.
Lose ==
    /\ Loses
    /\ \E i \in inFlight : inFlight' = inFlight \ {i}
    /\ UNCHANGED <<svars, shown, rvars>>

EnterCall ==
    /\ Call
    /\ UNCHANGED <<svars, inFlight, shown>>

SliceUnits(frame) ==
    LET slices == {i \in 1..Len(frame) : frame[i][1].type \in SliceTypes}
    IN [i \in slices |-> frame[i][1].unit]

\* runNetworkThread decodes what receive_frame returned.
LeaveCall ==
    /\ Return
    /\ shown' = IF produced THEN SliceUnits(frameData) ELSE shown
    /\ UNCHANGED <<svars, inFlight>>

\* start() drains the socket; those packets are Lose steps.
Restart ==
    /\ Restarts
    /\ Start
    /\ UNCHANGED <<svars, inFlight, shown>>

Next ==
    \/ Transmit
    \/ Deliver
    \/ Lose
    \/ EnterCall
    \/ LeaveCall
    \/ Restart

Spec == Init /\ [][Next]_vars

\* The drain thread sends what was encoded.  The network thread calls
\* receive_frame again and again; a packet that arrived stays in the socket
\* until a call takes it, and no call returns while there is one: strong
\* fairness of Deliver, which is enabled only inside a call.
Fairness ==
    /\ WF_vars(Encode /\ Transmit)
    /\ WF_vars(SendPacket /\ Transmit)
    /\ SF_vars(Deliver)
    /\ WF_vars(EnterCall)
    /\ WF_vars(LeaveCall)

FairSpec == Spec /\ Fairness

-----------------------------------------------------------------------------
\* All fragments of one NAL, each once, in their order.
Whole(n) ==
    /\ Len(n) = n[1].of
    /\ \A i \in 1..Len(n) :
        /\ n[i].frag = i
        /\ <<n[i].ssrc, n[i].unit, n[i].nal, n[i].of>> =
           <<n[1].ssrc, n[1].unit, n[1].nal, n[1].of>>

TypeOK ==
    /\ units \in 0..MaxUnits
    /\ todo \in Seq(NalShape)
    /\ nalNo \in Nat \ {0}
    /\ fragNo \in Nat /\ (todo = <<>> => fragNo = 0)
    /\ ssrc \in 1..(1 + MaxSenders)
    /\ sequenceNumber \in Nat
    /\ draining \in BOOLEAN
    /\ burst \in [left: Seq(ParamTypes), pc: {"send", "read", "write"}, read: Nat]
    /\ wire \in Seq(Packet)
    /\ inFlight \subseteq 1..Len(wire)
    /\ DOMAIN shown \subseteq Nat /\ shown \in [DOMAIN shown -> Nat]
    /\ ReceiverTypeOK

\* "Output of receive_frame() is a complete Annex-B bitstream"
\* (rtp-receiver.h): under loss, reordering, duplication, and sequence numbers
\* that wrap, a frame holds only NALs as the encoder made them.
WholeNals == \A i \in 1..Len(frameData) : Whole(frameData[i])

\* Frames reach the decoder in order and whole units at a time, with a frame of
\* one slice, however many packets are lost (not reordered or repeated).
Abstract == INSTANCE FrameDelivery WITH encoded <- units
InOrderDelivery == Abstract!Spec

\* The number of each packet says how many of its stream came before it.
Numbered ==
    \A i \in 1..Len(wire) : LET p == wire[i] IN
        p.num = Len(SelectSeq(SubSeq(wire, 1, i - 1), LAMBDA q : q.ssrc = p.ssrc))

\* Neither race on the sequence number is lost: no reset or lost increment, and
\* no parameter set between the fragments of a NAL.
NoRaceLost == Numbered /\ (burst.left # <<>> => fragNo = 0)

\* Over a network that loses nothing, and when no race on the sequence number
\* is lost, every access unit, or one after it, gets to the decoder.
CatchesUp ==
    []NoRaceLost =>
        \A u \in 1..MaxUnits : (units >= u) ~> (\E i \in DOMAIN shown : shown[i] >= u)
=============================================================================
