---------------------------- MODULE SourceOutput ----------------------------
(***************************************************************************)
(* The threads of a source and what they give to OBS.  All network threads *)
(* of a source use its one decoder, each with a decoder_needs_flush of its *)
(* own, and nothing but the life of the threads keeps them apart.          *)
(*                                                                         *)
(* One turn of the loop of runNetworkThread is one step: nobody else looks *)
(* at the decoder, and a turn that has begun goes on when running is       *)
(* cleared.  Frames are whole (RtpPath), and any of them may be missing.   *)
(***************************************************************************)
EXTENDS PhoneSource, MediaOutput, FiniteSets

CONSTANTS
    Lengths,       \* bytes of the AAC frames of the phone
    Samples        \* samples of one channel that FFmpeg decodes from a frame

\* ADTS has 13 bits for the length with its own 7 bytes; an AAC frame of one
\* channel has at most 768.
ASSUME OutputAssumption == Lengths \subseteq 0..8184 /\ Samples \subseteq Nat

VARIABLES
    decoder,       \* H264Decoder
    needsFlush,    \* decoder_needs_flush of each network thread
    given          \* what OBS was given last, since a network thread began

mvars == <<decoder, needsFlush, given>>

OutputInit ==
    /\ Init
    /\ decoder = NewDecoder
    /\ needsFlush = [n \in Nets |-> TRUE]
    /\ given = [kind |-> "none"]

\* All that was received so far was received by an earlier thread.
Aged(d) ==
    [sps |-> d.sps,
     ref |-> IF d.ref = Nothing THEN Nothing ELSE "earlier",
     held |-> IF d.held = Nothing THEN Nothing ELSE [d.held EXCEPT !.from = "earlier"]]

\* runNetworkThread begins.
Begins(n) == pc[n] # "loop" /\ pc'[n] = "loop"

Threading ==
    /\ Next
    /\ IF \E n \in Nets : Begins(n)
       THEN /\ decoder' = Aged(decoder)
            /\ needsFlush' = [n \in Nets |-> needsFlush[n] \/ Begins(n)]
            /\ given' = [kind |-> "none"]
       ELSE UNCHANGED <<decoder, needsFlush, given>>

\* Mutant: decoder_needs_flush is not looked at.
FlushesEachTime(n, frame) == frame.params

\* The first frame with parameter sets that the thread receives flushes.
Flushes(n, frame) == needsFlush[n] /\ frame.params

\* Mutant: any first frame clears decoder_needs_flush.
StillNeedsFlushNever(n, frame) == FALSE

StillNeedsFlush(n, frame) == needsFlush[n] /\ ~Flushes(n, frame)

ShowPicture(picture) ==
    IF picture # Nothing /\ BufferFits(picture.size)
    THEN given' = [kind |-> "picture", size |-> picture.size, from |-> picture.from,
                   buffer |-> I420(picture.size)]
    ELSE UNCHANGED given

\* A turn of the loop with a frame.
ShowFrame(n, frame) ==
    /\ At(n, "loop")
    /\ running /\ valid
    /\ bound # 0
    /\ \E r \in Decode(IF Flushes(n, frame) THEN Flush(decoder) ELSE decoder, frame) :
        /\ decoder' = r.next
        /\ ShowPicture(r.out)
    /\ needsFlush' = [needsFlush EXCEPT ![n] = StillNeedsFlush(n, frame)]
    /\ UNCHANGED vars

\* A turn of the loop of runAudioThread with a packet of the phone, which says
\* 44100 Hz and one channel.  AAC may hold two; a format the decoder does not
\* know, and a frame without samples, give nothing.
PlaySound(format, channels, samples, length) ==
    /\ fault = "none" /\ ~deleted
    /\ audio /\ valid
    /\ format # "other" /\ samples # 0
    /\ given' = [kind |-> "sound", channels |-> channels, samples |-> samples,
                 length |-> length, header |-> AdtsRead(AdtsHeader(length, 44100, 1)),
                 pcm |-> Pcm(format, channels, samples)]
    /\ UNCHANGED <<vars, decoder, needsFlush>>

Formats == {"FLTP", "FLT", "S16", "other"}

OutputNext ==
    \/ Threading
    \/ \E n \in Nets, f \in Frame : ShowFrame(n, f)
    \/ \E format \in Formats, channels \in 1..2, samples \in Samples, length \in Lengths :
            PlaySound(format, channels, samples, length)

ovars == <<vars, mvars>>

\* The phone's encoder puts parameter sets before each key frame
\* (KEY_PREPEND_HEADER_TO_SYNC_FRAMES), and not all of them are lost.
KeyFramesArrive ==
    \A n \in Nets :
        SF_ovars(\E f \in Frame : f.params /\ ShowFrame(n, f))

OutputSpec == OutputInit /\ [][OutputNext]_ovars /\ KeyFramesArrive

-----------------------------------------------------------------------------
(***************************************************************************)
(* Properties.                                                             *)
(***************************************************************************)
\* The decoder has no lock: no two network threads are ever in their loops, also
\* while one source is being replaced by the next stream.
OneDecoderUser ==
    \A m, n \in Nets : pc[m] = "loop" /\ pc[n] = "loop" => m = n

\* "flushing decoder for reconnect": from its first frame with parameter sets on a
\* network thread draws on nothing that an earlier one received.
FreshReferences ==
    \A n \in Nets :
        pc[n] = "loop" /\ ~needsFlush[n] =>
            /\ decoder.ref # "earlier"
            /\ decoder.held # Nothing => decoder.held.from = "this"

\* With the buffer, the offsets and the line sizes it is told, OBS reads every pixel
\* of the decoded picture where it was, and nothing of FFmpeg's padding.
PictureIsWhole ==
    given.kind = "picture" =>
        \A plane \in Planes :
            \A row \in 0 .. Height(plane, given.size) - 1,
               column \in 0 .. Width(plane, given.size) - 1 :
                PixelRead(given, plane, row, column) = <<plane, row, column>>

\* OBS reads every sample that was decoded, of its channel and in its time, and the
\* header that the phone wrote by hand says what the phone meant.
SoundIsWhole ==
    given.kind = "sound" =>
        /\ Cardinality(DOMAIN given.pcm) \div given.channels = given.samples
        /\ \A time \in 0 .. given.samples - 1, channel \in 0 .. given.channels - 1 :
               SampleRead(given, channel, time) = <<channel, time>>
        /\ given.header = [rate |-> 44100, channels |-> 1, length |-> given.length]

\* A network thread that goes on running shows a picture of its own.
PictureComes ==
    \A n \in Nets :
        pc[n] = "loop" ~>
            \/ pc[n] # "loop" \/ ~running
            \/ given.kind = "picture" /\ given.from = "this"
=============================================================================
