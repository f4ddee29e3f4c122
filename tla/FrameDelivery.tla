--------------------------- MODULE FrameDelivery ---------------------------
(***************************************************************************)
(* What the video path promises its two ends: the decoder is shown access  *)
(* units of the encoder one at a time, in the order they were encoded and  *)
(* none twice.  Units may be skipped.                                      *)
(***************************************************************************)
EXTENDS Naturals

CONSTANT MaxUnits

VARIABLES
    encoded,      \* access units produced so far; they are numbered 1, 2, ...
    shown         \* the unit of each slice in the last frame shown to the
                  \* decoder, by the place of the slice in the frame

Init == encoded = 0 /\ shown = <<0>>

Encode ==
    /\ encoded < MaxUnits
    /\ encoded' = encoded + 1
    /\ UNCHANGED shown

\* A frame with one slice, of unit u.
Holds(frame, u) == \E place \in DOMAIN frame : frame = [i \in {place} |-> u]

Show ==
    /\ \E u \in 1..encoded : /\ Holds(shown', u)
                             /\ \A i \in DOMAIN shown : u > shown[i]
    /\ UNCHANGED encoded

Spec == Init /\ [][Encode \/ Show]_<<encoded, shown>>
=============================================================================
