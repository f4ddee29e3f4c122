----------------------------- MODULE RtpPacket -----------------------------
(***************************************************************************)
(* The packets that travel from RtpSender.kt to rtp-receiver.cpp.          *)
(*                                                                         *)
(* Payload bytes are abstracted to their provenance: the fields unit, nal, *)
(* frag and of say which access unit, which NAL of it and which of its     *)
(* fragments the payload is, and at says which packet of the whole run     *)
(* this is.  No field of that group is on the wire, and no guard of the    *)
(* sender or of the receiver reads one.                                    *)
(***************************************************************************)
EXTENDS Naturals, Sequences

\* The number of RTP sequence numbers: 2^16 in the code.
CONSTANT SeqMod
ASSUME SeqModAssumption == SeqMod \in Nat /\ SeqMod > 1

ParamTypes == {"SPS", "PPS"}             \* nal_unit_type 7 and 8
SliceTypes == {"IDR", "slice"}           \* nal_unit_type 5 and 1
NalTypes == ParamTypes \cup SliceTypes \cup {"SEI"}

\* single: one NAL in the packet; fu: a fragment (FU-A, type 28);
\* stap: several NALs in one packet (STAP-A, type 24); other: a type the receiver
\* does not know, or no payload.
Kinds == {"single", "fu", "stap", "other"}

Packet ==
    [ssrc: Nat, seq: 0..SeqMod-1, marker: BOOLEAN,
     kind: Kinds, type: NalTypes, start: BOOLEAN, end: BOOLEAN,
     unit: Nat, nal: Nat, frag: Nat, of: Nat, at: Nat, num: Nat]

NextSeqUnwrapped(s) == s + 1             \* mutant: a wider integer

NextSeq(s) == (s + 1) % SeqMod           \* uint16_t arithmetic

\* A received NAL is the sequence of packets its bytes came from,
\* a frame is a sequence of received NALs.
Nal == Seq(Packet)
Frame == Seq(Nal)
=============================================================================
