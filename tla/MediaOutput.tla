---------------------------- MODULE MediaOutput ----------------------------
(***************************************************************************)
(* What happens to a frame behind the receiver: H264Decoder and AacDecoder *)
(* turn it into planes and samples, and runNetworkThread and               *)
(* runAudioThread tell OBS where in the buffer they are.                   *)
(*                                                                         *)
(* A pixel is <<plane, row, column>> of the decoded picture, a sample is   *)
(* <<channel, time>>.  Of a picture the decoder keeps only what it drew    *)
(* upon: frames that this network thread received, or an earlier one.      *)
(***************************************************************************)
EXTENDS Integers, Sequences

CONSTANTS
    Sizes,         \* pictures the phone may stream, as <<width, height>>
    Padding,       \* bytes FFmpeg adds to each row of a plane
    Delays,        \* FFmpeg may give a picture out one frame late
    Rates,         \* sample rates of AAC, in the order of the ADTS index
    Nothing        \* no picture, no parameter sets, no reference

ASSUME MediaAssumption ==
    /\ \A s \in Sizes : s \in (Nat \ {0}) \X (Nat \ {0})
    /\ Padding \in Nat
    /\ Delays \in BOOLEAN
    /\ Rates \in Seq(Nat) /\ Len(Rates) = 12 /\ Rates[5] = 44100
    /\ Nothing \notin {"this", "earlier"}

\* What the phone's encoder makes; another size means that a stream was ended
\* and a new one begun.  The receiver puts the parameter sets in front of their
\* key frame, unless they were lost.
Frame ==
    [kind: {"key"}, params: BOOLEAN, size: Sizes] \cup
    [kind: {"delta"}, params: {FALSE}, size: Sizes]

-----------------------------------------------------------------------------
(***************************************************************************)
(* H.264.                                                                  *)
(***************************************************************************)
Planes == {"Y", "U", "V"}
Width(plane, size) == IF plane = "Y" THEN size[1] ELSE size[1] \div 2
Height(plane, size) == IF plane = "Y" THEN size[2] ELSE size[2] \div 2

\* H264Decoder::H264Decoder.
NewDecoder == [sps |-> Nothing, ref |-> Nothing, held |-> Nothing]

\* avcodec_flush_buffers: pictures and references go, parameter sets stay.
Flush(d) == [d EXCEPT !.ref = Nothing, !.held = Nothing]

\* FFmpeg gives a picture out at once, or from some time on one frame late.
GivesOut(d, picture) ==
    (IF d.held # Nothing
     THEN {[next |-> [d EXCEPT !.held = picture], out |-> d.held]}
     ELSE {[next |-> d, out |-> picture]}) \cup
    (IF Delays /\ d.held = Nothing
     THEN {[next |-> [d EXCEPT !.held = picture], out |-> Nothing]}
     ELSE {})

\* One frame through FFmpeg: the next decoder, and a picture or Nothing (EAGAIN
\* or an error).  A delta frame is drawn upon whatever the references are, and
\* all are read with the parameter sets that came last.
Avcodec(d, frame) ==
    LET set == [d EXCEPT !.sps = IF frame.params THEN frame.size ELSE @]
        from == IF frame.kind = "key" THEN "this" ELSE set.ref
    IN (IF set.sps # frame.size \/ from = Nothing
        THEN {[next |-> set, out |-> Nothing]} ELSE {}) \cup
       (IF set.sps # Nothing /\ from # Nothing
        THEN GivesOut([set EXCEPT !.ref = from], [size |-> set.sps, from |-> from])
        ELSE {})

\* H264Decoder::decode.  A picture of another size than the decoder is now set
\* to flushes it.
Decode(d, frame) ==
    {IF r.out # Nothing /\ r.out.size # r.next.sps
     THEN [r EXCEPT !.next = Flush(@)]
     ELSE r : r \in Avcodec(d, frame)}

\* FFmpeg: the bytes of a row, and byte k of a plane.
Stride(plane, size) ==
    (IF plane = "Y" THEN size[1] ELSE (size[1] + 1) \div 2) + Padding
PlaneByte(plane, size, k) ==
    <<plane, k \div Stride(plane, size), k % Stride(plane, size)>>

\* Mutant: the rows are copied as if they followed each other.
CopyPlaneAtOnce(buffer, at, plane, size) ==
    [k \in DOMAIN buffer |->
        IF k - at \in 0 .. Width(plane, size) * Height(plane, size) - 1
        THEN PlaneByte(plane, size, k - at)
        ELSE buffer[k]]

\* The rows of a plane, without the padding, to offset at of the output.
CopyPlane(buffer, at, plane, size) ==
    LET width == Width(plane, size)
    IN [k \in DOMAIN buffer |->
           IF k - at \in 0 .. width * Height(plane, size) - 1
           THEN PlaneByte(plane, size, ((k - at) \div width) * Stride(plane, size)
                                       + ((k - at) % width))
           ELSE buffer[k]]

YSize(size) == size[1] * size[2]
USize(size) == YSize(size) \div 4

\* The offsets of the planes in the output, and what decode puts there.
Offset(plane, size) ==
    CASE plane = "Y" -> 0
      [] plane = "U" -> YSize(size)
      [] plane = "V" -> YSize(size) + USize(size)

I420(size) ==
    LET zeros == [k \in 0 .. YSize(size) + 2 * USize(size) - 1 |-> <<"none", 0, 0>>]
        y == CopyPlane(zeros, Offset("Y", size), "Y", size)
        u == CopyPlane(y, Offset("U", size), "U", size)
    IN CopyPlane(u, Offset("V", size), "V", size)

\* The size check in front of obs_source_output_video.
BufferFits(size) == YSize(size) + 2 * USize(size) >= (YSize(size) * 3) \div 2

\* The pixel that OBS reads with the offsets and line sizes it is told.
PixelRead(given, plane, row, column) ==
    given.buffer[Offset(plane, given.size) + row * Width(plane, given.size) + column]

-----------------------------------------------------------------------------
(***************************************************************************)
(* AAC.                                                                    *)
(***************************************************************************)
\* makeAdtsHeader on the phone: 7 bytes.  A rate it does not know is 44100.
AdtsHeader(length, rate, channels) ==
    LET index == IF \E i \in 1..12 : Rates[i] = rate
                 THEN (CHOOSE i \in 1..12 : Rates[i] = rate) - 1 ELSE 4
        frame == length + 7
    IN << 255, 241, 64 + index * 4 + channels \div 4,
          (channels % 4) * 64 + frame \div 2048, (frame \div 8) % 256,
          (frame % 8) * 32 + 31, 252 >>

\* FFmpeg: what it reads in the header.
AdtsRead(h) ==
    [rate |-> Rates[(h[3] % 64) \div 4 + 1],
     channels |-> (h[3] % 4) * 4 + h[4] \div 64,
     length |-> (h[4] % 4) * 2048 + h[5] * 8 + h[6] \div 32 - 7]

\* FFmpeg's sample k of plane c: planar formats have a plane for each channel,
\* the others have all in plane 0.
SampleStored(format, channels, c, k) ==
    IF format = "FLTP" THEN <<c, k>> ELSE <<k % channels, k \div channels>>

\* Mutant: the channels of a planar frame follow each other.
PcmByPlane(format, channels, samples) ==
    [k \in 0 .. samples * channels - 1 |->
        IF format = "FLTP"
        THEN SampleStored(format, channels, k \div samples, k % samples)
        ELSE SampleStored(format, channels, 0, k)]

\* AacDecoder::decode, for the formats it knows: float32, channels interleaved.
Pcm(format, channels, samples) ==
    [k \in 0 .. samples * channels - 1 |->
        IF format = "FLTP"
        THEN SampleStored(format, channels, k % channels, k \div channels)
        ELSE SampleStored(format, channels, 0, k)]

\* The sample that OBS reads, one channel or two.
Speakers(channels) == IF channels = 1 THEN 1 ELSE 2
SampleRead(given, channel, time) ==
    given.pcm[time * Speakers(given.channels) + channel]
=============================================================================
