--------------------------- MODULE MCRtpReceiver ---------------------------
(***************************************************************************)
(* rtp-receiver.cpp on a small alphabet of packets that arrive in any      *)
(* order, any number of times, from two senders.                           *)
(***************************************************************************)
EXTENDS RtpReceiver

CONSTANTS MaxNals,       \* NALs collected in frameBuf
          MaxParams      \* parameter sets buffered in pendingParams

Blank == [ssrc |-> 1, seq |-> 0, marker |-> FALSE, kind |-> "single",
          type |-> "slice", start |-> FALSE, end |-> FALSE,
          unit |-> 0, nal |-> 0, frag |-> 0, of |-> 1, at |-> 0, num |-> 0]

\* Fragments of an IDR with every sequence number, from the first stream; from
\* the second, enough to interrupt and to follow them.
Alphabet ==
    {[Blank EXCEPT !.ssrc = s, !.type = t] : s \in {1, 2}, t \in {"SPS", "IDR"}}
    \cup {[Blank EXCEPT !.marker = m] : m \in BOOLEAN}
    \cup {[Blank EXCEPT !.ssrc = s, !.kind = "fu", !.type = "IDR",
                        !.start = st, !.end = e, !.marker = e, !.seq = q] :
             s \in {1, 2}, st \in BOOLEAN, e \in BOOLEAN, q \in 0..SeqMod-1}
    \cup {[Blank EXCEPT !.ssrc = 2, !.kind = "other"]}
    \cup {[Blank EXCEPT !.kind = "stap", !.of = k, !.marker = (k > 0)] : k \in {0, 2}}

Small ==
    /\ Len(frameBuf) <= MaxNals
    /\ Len(pendingParams) <= MaxParams
    /\ Len(fu.payload) <= SeqMod

MCNext ==
    /\ Call \/ Return \/ Start \/ \E p \in Alphabet : Receive(p)
    /\ Small'
MCSpec == ReceiverInit /\ [][MCNext]_rvars
=============================================================================
