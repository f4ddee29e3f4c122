------------------------------- MODULE UdpPath -------------------------------
(***************************************************************************)
(* Frames from UdpSender.kt to UdpReceiver, over a network that loses,     *)
(* repeats and reorders datagrams.  No caller of either is left in the     *)
(* repository; frames have the numbers 0, 1, 2, ...                        *)
(***************************************************************************)
EXTENDS UdpReceiver

CONSTANTS
    LastFrame,      \* bound: frames of one sender
    MaxLate,        \* no datagram comes after one of a frame that is so much newer
    MaxDataSize,    \* MAX_DATA_SIZE
    Size            \* bytes of each frame

ASSUME SlotCountAssumption == SlotCount \in Nat \ {0}
ASSUME FrameAssumption == UintMax \in Nat /\ LastFrame \in 0..UintMax
ASSUME SizeAssumption == MaxDataSize \in Nat \ {0} /\ Size \in [0..LastFrame -> Nat]
ASSUME MaxPacketsAssumption == MaxPackets \in Nat
ASSUME MaxLateAssumption == MaxLate \in Nat

VARIABLES
    sending,      \* the frame in sendFrame, or the next one
    next,         \* i of its loop; 0 outside
    net,          \* datagrams under way, as <<frame, index>>
    out,          \* the frame that receive_frame returned; <<>>: none
    arrived,      \* what came of each frame since start()
    delivered,    \* how often each was returned since start(), at most 2
    newest        \* newest frame of which a datagram came since start()

vars == <<uvars, sending, next, net, out, arrived, delivered, newest>>
history == <<arrived, delivered, newest>>

Frames == 0..LastFrame

Byte(f, k) == <<f, k>>
Bytes(f) == [k \in 0..Size[f]-1 |-> Byte(f, k)]

TotalPackets(f) == (Size[f] + MaxDataSize - 1) \div MaxDataSize

\* dataLen: the last one is shorter.
DataLen(f, i) ==
    IF Size[f] - i * MaxDataSize <= MaxDataSize THEN Size[f] - i * MaxDataSize ELSE MaxDataSize

Packet(f, i) ==
    [seq |-> f, total |-> TotalPackets(f), idx |-> i, chunk |-> MaxDataSize,
     len |-> DataLen(f, i),
     bytes |-> [k \in 0..DataLen(f, i)-1 |-> Byte(f, i * MaxDataSize + k)]]

Nothing == <<>>

NoHistory ==
    /\ arrived = [f \in Frames |-> {}]
    /\ delivered = [f \in Frames |-> 0]
    /\ newest = 0

Init ==
    /\ UdpInit
    /\ sending = 0 /\ next = 0 /\ net = {}
    /\ out = Nothing
    /\ NoHistory

-----------------------------------------------------------------------------
Send ==
    /\ sending \in Frames
    /\ IF next < TotalPackets(sending)
       THEN /\ net' = net \cup {<<sending, next>>}
            /\ next' = next + 1
            /\ UNCHANGED sending
       ELSE /\ next' = 0
            /\ sending' = sending + 1
            /\ UNCHANGED net
    /\ UNCHANGED <<uvars, out, history>>

\* send() throws: the rest of the frame is not sent.
SendFails ==
    /\ sending \in Frames /\ next < TotalPackets(sending)
    /\ next' = 0
    /\ sending' = sending + 1
    /\ UNCHANGED <<uvars, net, out, history>>

Restart ==
    /\ UdpStart
    /\ out' = Nothing
    /\ IF open' THEN /\ arrived' = [f \in Frames |-> {}]
                     /\ delivered' = [f \in Frames |-> 0]
                     /\ newest' = 0
                ELSE UNCHANGED history
    /\ UNCHANGED <<sending, next, net>>

Close ==
    /\ open
    /\ UdpStop
    /\ out' = Nothing
    /\ UNCHANGED <<sending, next, net, history>>

\* again: the network repeats the datagram.  A lost one is never received.
Receive(f, i, again) ==
    /\ <<f, i>> \in net /\ newest < f + MaxLate
    /\ net' = IF again THEN net ELSE net \ {<<f, i>>}
    /\ UdpReceive(Packet(f, i))
    /\ out' = IF Returns(Packet(f, i)) THEN Output(Taken(slots[SlotOf(Packet(f, i))], Packet(f, i)).slot)
              ELSE Nothing
    /\ arrived' = [arrived EXCEPT ![f] = @ \cup {i}]
    /\ delivered' = IF Returns(Packet(f, i)) /\ delivered[f] < 2
                    THEN [delivered EXCEPT ![f] = @ + 1] ELSE delivered
    /\ newest' = Larger(newest, f)
    /\ UNCHANGED <<sending, next>>

Next ==
    \/ Send
    \/ SendFails
    \/ Restart
    \/ Close
    \/ \E d \in net, again \in BOOLEAN : Receive(d[1], d[2], again)

Spec == Init /\ [][Next]_vars

-----------------------------------------------------------------------------
TypeOK ==
    /\ open \in BOOLEAN
    /\ DOMAIN slots = 0..SlotCount-1
    /\ \A i \in 0..SlotCount-1 :
          /\ slots[i].got \subseteq 0..slots[i].total-1
          /\ slots[i].received = Cardinality(slots[i].got)
          /\ slots[i].actual <= slots[i].cap
    /\ sending \in 0..LastFrame+1 /\ next \in Nat
    /\ net \subseteq Frames \X Nat
    /\ delivered \in [Frames -> 0..2] /\ newest \in Frames
    /\ \A f \in Frames : arrived[f] \subseteq Nat

\* What receive_frame returns is one frame of the sender, all of it and no
\* byte of the frame that had the slot before, whatever the network does.
WholeFrames == out # Nothing => \E f \in Frames : out = Bytes(f)

\* Every frame that came, is returned, and only once, if no datagram is later
\* than the frame that needs the slot next (MaxLate <= SlotCount); but not one
\* of too many datagrams, nor one with the number of a slot never used.
EachFrameOnce ==
    \A f \in Frames :
       /\ delivered[f] <= 1
       /\ (/\ arrived[f] = 0..TotalPackets(f)-1 /\ arrived[f] # {}
           /\ TotalPackets(f) <= MaxPackets
           /\ f # UintMax) => delivered[f] = 1
=============================================================================
