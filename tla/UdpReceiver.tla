----------------------------- MODULE UdpReceiver -----------------------------
(***************************************************************************)
(* udp-receiver.cpp: frames put together from datagrams, each of which has *)
(* the number of its frame, how many there are, and its place among them.  *)
(* A slot is shared by every SLOT_COUNT-th frame and keeps its buffer.  An *)
(* offset into a frame is in bytes.                                        *)
(***************************************************************************)
EXTENDS Integers, FiniteSets

CONSTANTS
    SlotCount,     \* SLOT_COUNT
    UintMax,       \* UINT32_MAX, the sequence of a slot never used
    MaxPackets,    \* 10000, of one frame
    Zero           \* what resize() fills a buffer with

VARIABLES
    open,     \* socket_ is valid
    slots

uvars == <<open, slots>>

Larger(a, b) == IF a >= b THEN a ELSE b

NewSlot ==
    [sequence |-> UintMax, received |-> 0, total |-> 0, actual |-> 0, cap |-> 0,
     data |-> [k \in {} |-> Zero], got |-> {}, complete |-> FALSE]

UdpInit == open = FALSE /\ slots = [i \in 0..SlotCount-1 |-> NewSlot]

\* socket() and bind() may fail; the slots are cleared only after them.
UdpStart ==
    \/ open' = TRUE /\ slots' = [i \in 0..SlotCount-1 |-> NewSlot]
    \/ open' = FALSE /\ UNCHANGED slots

UdpStop == open' = FALSE /\ UNCHANGED slots

\* The header is believed; nothing else than a sender of ours is modelled.
Plausible(p) == p.total \in 1..MaxPackets /\ p.idx < p.total /\ p.chunk > 0

SlotOf(p) == p.seq % SlotCount

Resize(slot, size) ==
    [k \in 0..Larger(slot.cap, size)-1 |-> IF k < slot.cap THEN slot.data[k] ELSE Zero]

\* Mutant: the size of the frame before is kept.
ClearKeepsSize(slot, p) ==
    [sequence |-> p.seq, received |-> 0, total |-> p.total, actual |-> slot.actual,
     cap |-> Larger(slot.cap, p.chunk * p.total), data |-> Resize(slot, p.chunk * p.total),
     got |-> {}, complete |-> FALSE]

\* A sequence enters the slot; the bytes of the one before stay.
Clear(slot, p) ==
    [sequence |-> p.seq, received |-> 0, total |-> p.total, actual |-> 0,
     cap |-> Larger(slot.cap, p.chunk * p.total), data |-> Resize(slot, p.chunk * p.total),
     got |-> {}, complete |-> FALSE]

Enter(slot, p) == IF slot.sequence # p.seq THEN Clear(slot, p) ELSE slot

Offset(p) == p.idx * p.chunk

Fits(slot, p) == slot.total = p.total /\ Offset(p) + p.len <= slot.cap

\* Mutant: a datagram that came twice counts twice.
StoreAgain(slot, p) ==
    [slot EXCEPT !.data = [k \in DOMAIN slot.data |->
                             IF k \in Offset(p)..Offset(p)+p.len-1 THEN p.bytes[k - Offset(p)]
                             ELSE slot.data[k]],
                 !.got = slot.got \cup {p.idx},
                 !.received = slot.received + 1,
                 !.actual = Larger(slot.actual, Offset(p) + p.len)]

\* packet_map counts a datagram once.
Store(slot, p) ==
    IF p.idx \in slot.got THEN slot
    ELSE [slot EXCEPT !.data = [k \in DOMAIN slot.data |->
                                  IF k \in Offset(p)..Offset(p)+p.len-1 THEN p.bytes[k - Offset(p)]
                                  ELSE slot.data[k]],
                      !.got = slot.got \cup {p.idx},
                      !.received = slot.received + 1,
                      !.actual = Larger(slot.actual, Offset(p) + p.len)]

\* Mutant: a datagram of a complete frame completes it again.
CompletesAgain(slot) == slot.received = slot.total

Completes(slot) == slot.received = slot.total /\ ~slot.complete

Output(slot) == [k \in 0..slot.actual-1 |-> slot.data[k]]

\* What receive_frame does with a datagram: the slot after it, and whether it
\* returns true.
Taken(slot, p) ==
    LET entered == Enter(slot, p)
        stored == Store(entered, p)
    IN IF ~Fits(entered, p) THEN [slot |-> entered, done |-> FALSE]
       ELSE [slot |-> [stored EXCEPT !.complete = stored.complete \/ Completes(stored)],
             done |-> Completes(stored)]

\* wait_for_frame_ready, then receive_frame.
UdpReceive(p) ==
    /\ open
    /\ IF Plausible(p)
       THEN slots' = [slots EXCEPT ![SlotOf(p)] = Taken(slots[SlotOf(p)], p).slot]
       ELSE UNCHANGED slots
    /\ UNCHANGED open

Returns(p) == Plausible(p) /\ Taken(slots[SlotOf(p)], p).done
=============================================================================
