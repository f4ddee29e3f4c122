------------------------ MODULE SourceOutput_proofs ------------------------
(***************************************************************************)
(* For every set of thread ids and ports, every phone, picture size and    *)
(* padding: one user of the decoder, no picture drawn on an earlier        *)
(* stream's, and pictures and sounds whose every pixel and sample is where *)
(* OBS reads it.                                                           *)
(***************************************************************************)
EXTENDS SourceOutput, PhoneSource_proofs, FiniteSetTheorems

\* Forgetting decoder and output, a source with output is a source.
LEMMA OutputIsSource == OutputSpec => Spec
<1>1. OutputInit => Init
  BY DEF OutputInit
<1>2. [OutputNext]_ovars => [Next]_vars
  <2>1. Threading => Next
    BY DEF Threading
  <2>2. ASSUME NEW n \in Nets, NEW f \in Frame, ShowFrame(n, f)
        PROVE  UNCHANGED vars
    BY <2>2 DEF ShowFrame
  <2>3. ASSUME NEW format, NEW channels, NEW samples, NEW length,
               PlaySound(format, channels, samples, length)
        PROVE  UNCHANGED vars
    BY <2>3 DEF PlaySound
  <2>4. ovars' = ovars => vars' = vars
    BY DEF ovars
  <2>5. QED
    BY <2>1, <2>2, <2>3, <2>4 DEF OutputNext
<1>3. QED
  BY <1>1, <1>2, PTL DEF OutputSpec, Spec

\* The one decoder of a source, which has no lock, is never in use by two network
\* threads, however streams replace each other.
THEOREM DecoderHasOneUser == OutputSpec => []OneDecoderUser
<1>1. SInv => OneDecoderUser
  BY DEF SInv, TInv, Owned, OneDecoderUser
<1>2. QED
  BY <1>1, OutputIsSource, SourceInvariant, PTL

-----------------------------------------------------------------------------
(***************************************************************************)
(* FreshReferences.                                                        *)
(***************************************************************************)
Drawn == {"this", "earlier"}
Pictures == [size: Sizes, from: Drawn]
Decoders ==
    [sps: Sizes \cup {Nothing}, ref: Drawn \cup {Nothing}, held: Pictures \cup {Nothing}]

\* Nothing in the decoder is older than the network thread.
Fresh(d) == d.ref # "earlier" /\ (d.held # Nothing => d.held.from = "this")

FInv ==
    /\ decoder \in Decoders
    /\ needsFlush \in [Nets -> BOOLEAN]
    /\ \A n \in Nets : pc[n] = "loop" /\ ~needsFlush[n] => Fresh(decoder)

\* What FFmpeg and decode do to a decoder.
LEMMA GivesOutTyped ==
    ASSUME NEW d \in Decoders, NEW picture \in Pictures, NEW r \in GivesOut(d, picture)
    PROVE  /\ r.next \in Decoders /\ r.out \in Pictures \cup {Nothing}
           /\ r.next.sps = d.sps
           /\ Fresh(d) /\ picture.from = "this" => Fresh(r.next)
BY DEF GivesOut, Decoders, Fresh

LEMMA AvcodecTyped ==
    ASSUME NEW d \in Decoders, NEW f \in Frame, NEW r \in Avcodec(d, f)
    PROVE  /\ r.next \in Decoders /\ r.out \in Pictures \cup {Nothing}
           /\ Fresh(d) => Fresh(r.next)
<1> DEFINE set == [d EXCEPT !.sps = IF f.params THEN f.size ELSE @]
           from == IF f.kind = "key" THEN "this" ELSE set.ref
<1>1. f.size \in Sizes
  BY DEF Frame
<1>2. set \in Decoders /\ set.ref = d.ref /\ set.held = d.held
  BY <1>1 DEF Decoders
<1>3. CASE r = [next |-> set, out |-> Nothing]
  BY <1>2, <1>3 DEF Fresh
<1>4. ASSUME set.sps # Nothing, from # Nothing,
             r \in GivesOut([set EXCEPT !.ref = from], [size |-> set.sps, from |-> from])
      PROVE  /\ r.next \in Decoders /\ r.out \in Pictures \cup {Nothing}
             /\ Fresh(d) => Fresh(r.next)
  <2> DEFINE e == [set EXCEPT !.ref = from]
             picture == [size |-> set.sps, from |-> from]
  <2>1. from \in Drawn /\ set.sps \in Sizes
    BY <1>2, <1>4 DEF Decoders, Drawn
  <2>2. e \in Decoders /\ picture \in Pictures
    BY <1>2, <2>1 DEF Decoders, Pictures
  <2>3. Fresh(d) => from = "this"
    BY <1>2, <2>1 DEF Fresh, Drawn
  <2>4. Fresh(d) => Fresh(e)
    BY <1>2, <2>3 DEF Fresh, Decoders
  <2>5. QED
    BY <1>4, <2>2, <2>3, <2>4, GivesOutTyped
<1>5. QED
  BY <1>3, <1>4 DEF Avcodec

LEMMA FlushTyped ==
    ASSUME NEW d \in Decoders
    PROVE  Flush(d) \in Decoders /\ Fresh(Flush(d))
<1>1. Nothing # "earlier"
  BY MediaAssumption
<1>2. Flush(d).ref = Nothing /\ Flush(d).held = Nothing
  BY DEF Flush, Decoders
<1>3. Flush(d) \in Decoders
  BY DEF Flush, Decoders
<1>4. QED
  BY <1>1, <1>2, <1>3 DEF Fresh

LEMMA DecodeTyped ==
    ASSUME NEW d \in Decoders, NEW f \in Frame, NEW r \in Decode(d, f)
    PROVE  /\ r.next \in Decoders /\ r.out \in Pictures \cup {Nothing}
           /\ Fresh(d) => Fresh(r.next)
<1>1. PICK a \in Avcodec(d, f) :
          r = IF a.out # Nothing /\ a.out.size # a.next.sps
              THEN [a EXCEPT !.next = Flush(@)] ELSE a
  BY DEF Decode
<1>2. a = [next |-> a.next, out |-> a.out]
  BY DEF Avcodec, GivesOut
<1>3. (r.next = a.next \/ r.next = Flush(a.next)) /\ r.out = a.out
  BY <1>1, <1>2
<1>4. QED
  BY <1>3, AvcodecTyped, FlushTyped

LEMMA AgedTyped ==
    ASSUME NEW d \in Decoders
    PROVE  Aged(d) \in Decoders
BY DEF Aged, Decoders, Pictures, Drawn

-----------------------------------------------------------------------------
\* The threads' own steps, which leave the decoder to the one network thread there is.
LEMMA ThreadingFresh ==
    ASSUME FInv, OneDecoderUser', Threading
    PROVE  FInv'
<1>1. CASE \E n \in Nets : Begins(n)
  <2>1. PICK n \in Nets : Begins(n)
    BY <1>1
  <2>2. /\ decoder' = Aged(decoder)
        /\ needsFlush' = [m \in Nets |-> needsFlush[m] \/ Begins(m)]
    BY <1>1 DEF Threading
  <2>3. decoder' \in Decoders
    BY <2>2, AgedTyped DEF FInv
  <2>4. needsFlush' \in [Nets -> BOOLEAN]
    BY <2>2 DEF FInv, Begins
  <2>5. \A m \in Nets : pc'[m] = "loop" => m = n
    BY <2>1 DEF Begins, OneDecoderUser
  <2>6. needsFlush'[n]
    BY <2>1, <2>2
  <2>7. QED
    BY <2>3, <2>4, <2>5, <2>6 DEF FInv
<1>2. CASE ~ \E n \in Nets : Begins(n)
  <2>1. UNCHANGED <<decoder, needsFlush>>
    BY <1>2 DEF Threading
  <2>2. \A n \in Nets : pc'[n] = "loop" => pc[n] = "loop"
    BY <1>2 DEF Begins
  <2>3. QED
    BY <2>1, <2>2 DEF FInv
<1>3. QED
  BY <1>1, <1>2

\* One frame shown.
LEMMA ShowFresh ==
    ASSUME FInv, OneDecoderUser, NEW n \in Nets, NEW f \in Frame, ShowFrame(n, f)
    PROVE  FInv'
<1> DEFINE d == IF Flushes(n, f) THEN Flush(decoder) ELSE decoder
<1>1. PICK r \in Decode(d, f) : decoder' = r.next
  BY DEF ShowFrame
<1>2. pc' = pc /\ pc[n] = "loop"
  BY DEF ShowFrame, At, vars
<1>3. needsFlush' = [needsFlush EXCEPT ![n] = StillNeedsFlush(n, f)]
  BY DEF ShowFrame
<1>4. d \in Decoders
  BY FlushTyped DEF FInv
<1>5. decoder' \in Decoders
  BY <1>1, <1>4, DecodeTyped
<1>6. f.params \in BOOLEAN
  BY DEF Frame
<1>7. needsFlush' \in [Nets -> BOOLEAN]
  BY <1>3, <1>6 DEF FInv, StillNeedsFlush, Flushes
<1>8. ~needsFlush'[n] => Fresh(d)
  <2>1. needsFlush'[n] = (needsFlush[n] /\ ~(needsFlush[n] /\ f.params))
    BY <1>3 DEF FInv, StillNeedsFlush, Flushes
  <2>2. CASE Flushes(n, f)
    BY <2>2, FlushTyped DEF FInv
  <2>3. CASE ~Flushes(n, f)
    BY <1>2, <2>1, <2>3 DEF FInv, Flushes
  <2>4. QED
    BY <2>2, <2>3
<1>9. ASSUME NEW m \in Nets, pc'[m] = "loop", ~needsFlush'[m]
      PROVE  Fresh(decoder')
  <2>1. m = n
    BY <1>2, <1>9 DEF OneDecoderUser
  <2>2. QED
    BY <1>1, <1>4, <1>8, <1>9, <2>1, DecodeTyped
<1>10. QED
  BY <1>5, <1>7, <1>9 DEF FInv, Fresh

LEMMA DecoderInvariant == OutputSpec => []FInv
<1>1. OutputInit => FInv
  <2>1. OutputInit => \A n \in Nets : pc[n] = "free"
    BY SourceAssumption DEF OutputInit, Init, Threads, Actors
  <2>2. NewDecoder \in Decoders
    BY DEF NewDecoder, Decoders
  <2>3. QED
    BY <2>1, <2>2 DEF OutputInit, FInv
<1>2. FInv /\ OneDecoderUser /\ OneDecoderUser' /\ [OutputNext]_ovars => FInv'
  <2> SUFFICES ASSUME FInv, OneDecoderUser, OneDecoderUser', [OutputNext]_ovars
               PROVE  FInv'
    OBVIOUS
  <2>1. ASSUME NEW format, NEW channels, NEW samples, NEW length,
               PlaySound(format, channels, samples, length)
        PROVE  FInv'
    BY <2>1 DEF PlaySound, vars, FInv, Fresh
  <2>2. CASE UNCHANGED ovars
    BY <2>2 DEF ovars, mvars, vars, FInv, Fresh
  <2>3. QED
    BY <2>1, <2>2, ThreadingFresh, ShowFresh DEF OutputNext
<1>3. QED
  BY <1>1, <1>2, DecoderHasOneUser, PTL DEF OutputSpec

\* From its first frame with parameter sets on a network thread draws on nothing that an
\* earlier one received, though they share one decoder and one runs after the other.
THEOREM ReferencesAreFresh == OutputSpec => []FreshReferences
<1>1. FInv => FreshReferences
  BY DEF FInv, Fresh, FreshReferences
<1>2. QED
  BY <1>1, DecoderInvariant, PTL

-----------------------------------------------------------------------------
(***************************************************************************)
(* Tables in a buffer.                                                     *)
(***************************************************************************)
\* An element of a table of h rows of w.
LEMMA Within ==
    ASSUME NEW w \in Nat, NEW h \in Nat, NEW r \in 0..h-1, NEW c \in 0..w-1
    PROVE  r * w + c \in 0 .. w*h-1
<1>1. r + 1 <= h
  OBVIOUS
<1>2. (r+1) * w <= h * w
  BY <1>1
<1>3. (r+1)*w = r*w + w
  OBVIOUS
<1>4. r * w \in Nat
  OBVIOUS
<1>5. h * w = w * h
  OBVIOUS
<1>6. QED
  BY <1>2, <1>3, <1>4, <1>5

\* The row and the column of an element.
LEMMA DivRow ==
    ASSUME NEW w \in Nat, NEW r \in Nat, NEW c \in 0..w-1
    PROVE  (r * w + c) \div w = r /\ (r * w + c) % w = c
<1> DEFINE k == r * w + c
           q == k \div w
           m == k % w
<1>1. w > 0 /\ k \in Nat
  OBVIOUS
<1>2. q \in Int /\ m \in 0..w-1 /\ k = q * w + m
  BY <1>1
<1>3. (q - r) * w = c - m
  BY <1>2
<1>4. c - m < w /\ m - c < w
  BY <1>2
<1>5. q - r = 0
  <2>1. q - r >= 1 => (q - r) * w >= w
    BY <1>1, <1>2
  <2>2. q - r <= -1 => (q - r) * w <= -w
    BY <1>1, <1>2
  <2>3. QED
   BY <1>2, <1>3, <1>4, <2>1, <2>2
<1>6. QED
  BY <1>2, <1>3, <1>5

\* Half the width times half the height is at most a quarter of the area.
LEMMA Half ==
    ASSUME NEW a \in Nat, NEW b \in Nat
    PROVE  /\ a \div 2 \in Nat /\ b \div 2 \in Nat
           /\ (a * b) \div 4 \in Nat
           /\ (a \div 2) * (b \div 2) <= (a * b) \div 4
<1> DEFINE x == a \div 2
           y == b \div 2
<1>1. x \in Nat /\ y \in Nat /\ 2 * x <= a /\ 2 * y <= b
  OBVIOUS
<1>2. (2 * x) * (2 * y) <= a * b
  <2>1. (2*x) * (2*y) <= a * (2*y)
    BY <1>1
  <2>2. a * (2*y) <= a * b
    BY <1>1
  <2>3. QED
    BY <1>1, <2>1, <2>2
<1>3. 4 * (x * y) = (2*x)*(2*y) /\ x * y \in Nat /\ a * b \in Nat
  BY <1>1
<1> HIDE DEF x, y
<1>4. x * y <= (a * b) \div 4
  BY <1>2, <1>3
<1>5. QED
  BY <1>1, <1>3, <1>4 DEF x, y

\* Copying a plane puts its pixels at their offsets and touches nothing else.
LEMMA CopiesPlane ==
    ASSUME NEW size \in Sizes, NEW plane \in Planes, NEW N \in Nat, NEW buffer,
           DOMAIN buffer = 0 .. N - 1, NEW at \in Nat,
           at + Width(plane, size) * Height(plane, size) <= N
    PROVE  /\ DOMAIN CopyPlane(buffer, at, plane, size) = 0 .. N - 1
           /\ \A row \in 0 .. Height(plane, size) - 1, column \in 0 .. Width(plane, size) - 1 :
                 CopyPlane(buffer, at, plane, size)[at + row * Width(plane, size) + column]
                     = <<plane, row, column>>
           /\ \A k \in 0 .. N - 1 :
                 k < at \/ k >= at + Width(plane, size) * Height(plane, size) =>
                     CopyPlane(buffer, at, plane, size)[k] = buffer[k]
<1> DEFINE w == Width(plane, size)
           h == Height(plane, size)
           s == Stride(plane, size)
           copy == CopyPlane(buffer, at, plane, size)
           Pixel(k) == PlaneByte(plane, size, ((k - at) \div w) * s + ((k - at) % w))
<1>1. size[1] \in Nat \ {0} /\ size[2] \in Nat \ {0} /\ Padding \in Nat
  BY MediaAssumption
<1>2. w \in Nat /\ h \in Nat /\ s \in Nat /\ w <= s
  <2>1. \A a \in Nat : /\ a \div 2 \in Nat /\ (a + 1) \div 2 \in Nat
                       /\ a \div 2 <= (a + 1) \div 2
    OBVIOUS
  <2>2. w \in {size[1], size[1] \div 2} /\ h \in {size[2], size[2] \div 2}
    BY DEF Width, Height
  <2>3. CASE plane = "Y"
    BY <1>1, <2>1, <2>2, <2>3 DEF Width, Stride
  <2>4. CASE plane # "Y"
    <3>1. w = size[1] \div 2 /\ s = ((size[1] + 1) \div 2) + Padding
      BY <2>4 DEF Width, Stride
    <3>2. h \in Nat
      BY <1>1, <2>1, <2>2
    <3>3. /\ size[1] \div 2 \in Nat /\ ((size[1] + 1) \div 2) + Padding \in Nat
          /\ size[1] \div 2 <= ((size[1] + 1) \div 2) + Padding
      BY <1>1, <2>1
    <3> HIDE DEF w, h, s
    <3>4. QED
      BY <3>1, <3>2, <3>3
  <2>5. QED
    BY <2>3, <2>4
<1>3. copy = [k \in 0 .. N - 1 |-> IF k - at \in 0 .. w * h - 1 THEN Pixel(k) ELSE buffer[k]]
  BY DEF CopyPlane
<1>4. at + w * h <= N
  OBVIOUS
<1>5. \A k : Pixel(k) = LET j == ((k - at) \div w) * s + ((k - at) % w)
                        IN <<plane, j \div s, j % s>>
  BY DEF PlaneByte
<1> HIDE DEF w, h, s, copy, Pixel
<1>6. ASSUME NEW row \in 0 .. h - 1, NEW column \in 0 .. w - 1
      PROVE  copy[at + row * w + column] = <<plane, row, column>>
  <2> DEFINE j == row * w + column
             k == at + row * w + column
  <2>1. j \in 0 .. w * h - 1 /\ row * w \in Nat /\ w * h \in Nat
    BY <1>2, Within
  <2>2. k = at + j
    BY <2>1
  <2>3. k - at = j /\ k \in 0 .. N - 1
    BY <1>4, <2>1, <2>2
  <2>4. copy[k] = Pixel(k)
    BY <1>3, <2>1, <2>3
  <2>5. j \div w = row /\ j % w = column
    BY <1>2, DivRow
  <2>6. column \in 0 .. s - 1
    BY <1>2
  <2>7. (row * s + column) \div s = row /\ (row * s + column) % s = column
    BY <1>2, <2>6, DivRow
  <2>8. Pixel(k) = <<plane, row, column>>
    BY <1>5, <2>3, <2>5, <2>7
  <2>9. QED
    BY <2>4, <2>8
<1>7. ASSUME NEW k \in 0 .. N - 1, k < at \/ k >= at + w * h
      PROVE  copy[k] = buffer[k]
  <2>1. w * h \in Nat
    BY <1>2
  <2>2. k - at \notin 0 .. w * h - 1
    BY <1>7, <2>1
  <2>3. QED
    BY <1>3, <2>2
<1>8. QED
  BY <1>3, <1>6, <1>7 DEF w, h, copy

\* OBS reads every pixel, whatever the size and the padding.
LEMMA BufferHoldsPicture ==
    ASSUME NEW size \in Sizes, NEW plane \in Planes,
           NEW row \in 0 .. Height(plane, size) - 1,
           NEW column \in 0 .. Width(plane, size) - 1
    PROVE  I420(size)[Offset(plane, size) + row * Width(plane, size) + column]
               = <<plane, row, column>>
<1> DEFINE N == YSize(size) + 2 * USize(size)
           Area(p) == Width(p, size) * Height(p, size)
           Reads(b, p) == \A r \in 0 .. Height(p, size) - 1, c \in 0 .. Width(p, size) - 1 :
                             b[Offset(p, size) + r * Width(p, size) + c] = <<p, r, c>>
           Keeps(b, c, p) == \A k \in 0 .. N - 1 : k < Offset(p, size) => b[k] = c[k]
           zeros == [k \in 0 .. N - 1 |-> <<"none", 0, 0>>]
           y == CopyPlane(zeros, Offset("Y", size), "Y", size)
           u == CopyPlane(y, Offset("U", size), "U", size)
           v == CopyPlane(u, Offset("V", size), "V", size)
<1>1. size[1] \in Nat \ {0} /\ size[2] \in Nat \ {0}
  BY MediaAssumption
<1>2. /\ YSize(size) \in Nat /\ USize(size) \in Nat /\ N \in Nat
      /\ \A p \in Planes : Width(p, size) \in Nat /\ Height(p, size) \in Nat
  <2>1. YSize(size) \in Nat
    BY <1>1 DEF YSize
  <2>2. USize(size) \in Nat
    BY <1>1, Half DEF YSize, USize
  <2>3. \A p \in Planes : Width(p, size) \in Nat /\ Height(p, size) \in Nat
    BY <1>1 DEF Width, Height
  <2>4. QED
    BY <2>1, <2>2, <2>3
<1>3. /\ Area("Y") = YSize(size)
      /\ \A p \in {"U", "V"} : Area(p) \in Nat /\ Area(p) <= USize(size)
  <2>1. LET w == size[1] \div 2
            h == size[2] \div 2
        IN w * h <= USize(size) /\ w \in Nat /\ h \in Nat
    BY <1>1, Half DEF YSize, USize
  <2>2. QED
    BY <2>1 DEF Width, Height, YSize
<1>4. /\ Offset("Y", size) = 0
      /\ Offset("U", size) = YSize(size)
      /\ Offset("V", size) = YSize(size) + USize(size)
  BY DEF Offset
<1>5. \A p \in Planes : Offset(p, size) \in Nat /\ Offset(p, size) + Area(p) <= N
  BY <1>2, <1>3, <1>4 DEF Planes
<1>6. \A b, p : p \in Planes /\ DOMAIN b = 0 .. N - 1 =>
          LET c == CopyPlane(b, Offset(p, size), p, size)
          IN DOMAIN c = 0 .. N - 1 /\ Reads(c, p) /\ Keeps(c, b, p)
  <2> SUFFICES ASSUME NEW b, NEW p \in Planes, DOMAIN b = 0 .. N - 1
               PROVE  LET c == CopyPlane(b, Offset(p, size), p, size)
                      IN DOMAIN c = 0 .. N - 1 /\ Reads(c, p) /\ Keeps(c, b, p)
    OBVIOUS
  <2> DEFINE at == Offset(p, size)
  <2>1. at \in Nat /\ N \in Nat /\ at + Width(p, size) * Height(p, size) <= N
    BY <1>2, <1>5
  <2> HIDE DEF at, N
  <2>2. /\ DOMAIN CopyPlane(b, at, p, size) = 0 .. N - 1
        /\ \A r \in 0 .. Height(p, size) - 1, c \in 0 .. Width(p, size) - 1 :
              CopyPlane(b, at, p, size)[at + r * Width(p, size) + c] = <<p, r, c>>
        /\ \A k \in 0 .. N - 1 :
              k < at \/ k >= at + Width(p, size) * Height(p, size) =>
                  CopyPlane(b, at, p, size)[k] = b[k]
    BY <2>1, CopiesPlane
  <2>3. QED
    BY <2>2 DEF at
<1>7. I420(size) = v
  <2> DEFINE blank == [k \in 0 .. YSize(size) + 2 * USize(size) - 1 |-> <<"none", 0, 0>>]
  <2>1. zeros = blank
    <3>1. YSize(size) + 2 * USize(size) - 1 = N - 1
      BY <1>2
    <3>2. QED
      BY <3>1
  <2>2. I420(size) = CopyPlane(CopyPlane(CopyPlane(blank, Offset("Y", size), "Y", size),
                                         Offset("U", size), "U", size),
                               Offset("V", size), "V", size)
    BY DEF I420
  <2> HIDE DEF blank, zeros
  <2>3. QED
    BY <2>1, <2>2
<1>8. DOMAIN zeros = 0 .. N - 1
  OBVIOUS
<1> HIDE DEF zeros, N, Area
<1>9. {"Y", "U", "V"} \subseteq Planes
  BY DEF Planes
<1>10. DOMAIN y = 0 .. N - 1 /\ Reads(y, "Y")
  BY <1>6, <1>8, <1>9
<1> HIDE DEF y
<1>11. DOMAIN u = 0 .. N - 1 /\ Reads(u, "U") /\ Keeps(u, y, "U")
  BY <1>6, <1>9, <1>10
<1> HIDE DEF u
<1>12. Reads(v, "V") /\ Keeps(v, u, "V")
  BY <1>6, <1>9, <1>11
<1> HIDE DEF v
<1> DEFINE j == row * Width(plane, size) + column
           k == Offset(plane, size) + row * Width(plane, size) + column
<1>13. /\ j \in 0 .. Area(plane) - 1
       /\ k = Offset(plane, size) + j
  <2>1. Width(plane, size) \in Nat /\ Height(plane, size) \in Nat
    BY <1>2
  <2>2. j \in 0 .. Width(plane, size) * Height(plane, size) - 1
    BY <2>1, Within
  <2>3. row * Width(plane, size) \in Nat /\ Offset(plane, size) \in Nat
    BY <1>5, <2>1
  <2>4. QED
    BY <2>2, <2>3 DEF Area
<1>14. CASE plane = "Y"
  <2>1. y[k] = <<plane, row, column>>
    BY <1>10, <1>14
  <2> HIDE DEF k, j
  <2>2. k \in 0 .. N - 1 /\ k < Offset("U", size) /\ k < Offset("V", size)
    BY <1>2, <1>3, <1>4, <1>13, <1>14 DEF N
  <2>3. u[k] = y[k] /\ v[k] = u[k]
    BY <1>11, <1>12, <2>2
  <2>4. QED
    BY <1>7, <2>1, <2>3 DEF k
<1>15. CASE plane = "U"
  <2>1. u[k] = <<plane, row, column>>
    BY <1>11, <1>15
  <2> HIDE DEF k, j
  <2>2. v[k] = u[k]
    BY <1>2, <1>3, <1>4, <1>12, <1>13, <1>15 DEF N
  <2>3. QED
    BY <1>7, <2>1, <2>2 DEF k
<1>16. CASE plane = "V"
  BY <1>7, <1>12, <1>16
<1>17. QED
  BY <1>14, <1>15, <1>16 DEF Planes

-----------------------------------------------------------------------------
(***************************************************************************)
(* PictureIsWhole and SoundIsWhole.                                        *)
(***************************************************************************)
\* The header of makeAdtsHeader, read by the rules FFmpeg reads it.
LEMMA HeaderReadBack ==
    ASSUME NEW length \in Nat, length <= 8184
    PROVE  AdtsRead(AdtsHeader(length, 44100, 1)) =
               [rate |-> 44100, channels |-> 1, length |-> length]
<1> DEFINE index == IF \E i \in 1..12 : Rates[i] = 44100
                    THEN (CHOOSE i \in 1..12 : Rates[i] = 44100) - 1 ELSE 4
           frame == length + 7
           h3 == 64 + index * 4 + 1 \div 4
           h4 == (1 % 4) * 64 + frame \div 2048
           h5 == (frame \div 8) % 256
           h6 == (frame % 8) * 32 + 31
<1>1. index \in 0..11 /\ Rates[index + 1] = 44100
  <2>1. \E i \in 1..12 : Rates[i] = 44100
    BY MediaAssumption
  <2>2. PICK i \in 1..12 : i = (CHOOSE j \in 1..12 : Rates[j] = 44100) /\ Rates[i] = 44100
    BY <2>1
  <2>3. index = i - 1
    BY <2>1, <2>2
  <2> HIDE DEF index
  <2>4. index + 1 = i /\ index \in 0..11
    BY <2>3
  <2>5. Rates[i] = 44100
    BY <2>2
  <2>6. QED
    BY <2>4, <2>5
<1>2. AdtsHeader(length, 44100, 1) = << 255, 241, h3, h4, h5, h6, 252 >>
  BY DEF AdtsHeader
<1> HIDE DEF index
<1>3. (h3 % 64) \div 4 = index /\ h3 % 4 = 0
  BY <1>1
<1>4. frame \in 7..8191
  OBVIOUS
<1> HIDE DEF frame
<1>5. h4 \div 64 = 1 /\ h4 % 4 = frame \div 2048
  <2>1. frame \div 2048 \in 0..3
    BY <1>4
  <2>2. h4 = 64 + frame \div 2048
    BY <2>1
  <2> HIDE DEF h4
  <2>3. \A q \in 0..3 : (64 + q) \div 64 = 1 /\ (64 + q) % 4 = q
    OBVIOUS
  <2>4. QED
    BY <2>1, <2>2, <2>3
<1>6. (frame \div 2048) * 2048 + h5 * 8 + h6 \div 32 = frame
  BY <1>4
<1> HIDE DEF h3, h4, h5, h6
<1>7. AdtsRead(<< 255, 241, h3, h4, h5, h6, 252 >>) =
          [rate |-> Rates[(h3 % 64) \div 4 + 1],
           channels |-> (h3 % 4) * 4 + h4 \div 64,
           length |-> (h4 % 4) * 2048 + h5 * 8 + h6 \div 32 - 7]
  BY DEF AdtsRead
<1>8. /\ Rates[(h3 % 64) \div 4 + 1] = 44100
      /\ (h3 % 4) * 4 + h4 \div 64 = 1
  BY <1>1, <1>3, <1>5
<1>9. (h4 % 4) * 2048 + h5 * 8 + h6 \div 32 - 7 = length
  BY <1>4, <1>5, <1>6 DEF frame, h5, h6
<1>10. QED
  BY <1>2, <1>7, <1>8, <1>9

\* The samples of decode, counted, and each where OBS looks for it.
LEMMA SampleCount ==
    ASSUME NEW format, NEW channels \in Nat, channels # 0, NEW samples \in Nat, samples # 0
    PROVE  Cardinality(DOMAIN Pcm(format, channels, samples)) \div channels = samples
<1> DEFINE pcm == Pcm(format, channels, samples)
           last == samples * channels - 1
<1>1. samples * channels \in Nat \ {0} /\ samples * channels = channels * samples
  OBVIOUS
<1>2. pcm = [k \in 0 .. last |-> <<k % channels, k \div channels>>]
  BY DEF Pcm, SampleStored
<1>3. Cardinality(DOMAIN pcm) = samples * channels
  <2>1. last \in Nat /\ last + 1 = samples * channels
    BY <1>1
  <2>2. DOMAIN pcm = 0 .. last
    BY <1>2
  <2> HIDE DEF last, pcm
  <2>3. Cardinality(0 .. last) = last + 1
    BY <2>1, FS_Interval
  <2>4. QED
    BY <2>1, <2>2, <2>3
<1>4. (samples * channels + 0) \div channels = samples
  BY DivRow
<1>5. QED
  BY <1>1, <1>3, <1>4

LEMMA SampleReadBack ==
    ASSUME NEW g, NEW format, NEW channels \in Nat, channels = 1 \/ channels = 2,
           NEW samples \in Nat, samples # 0,
           g.channels = channels, g.samples = samples, g.pcm = Pcm(format, channels, samples)
    PROVE  /\ Cardinality(DOMAIN g.pcm) \div g.channels = g.samples
           /\ \A time \in 0 .. g.samples - 1, channel \in 0 .. g.channels - 1 :
                  SampleRead(g, channel, time) = <<channel, time>>
<1> DEFINE last == samples * channels - 1
<1>1. g.pcm = [i \in 0 .. last |-> <<i % channels, i \div channels>>]
  BY DEF Pcm, SampleStored
<1>2. ASSUME NEW time \in 0 .. samples - 1, NEW channel \in 0 .. channels - 1
      PROVE  SampleRead(g, channel, time) = <<channel, time>>
  <2> DEFINE k == time * channels + channel
  <2>1. k \in 0 .. last /\ k \div channels = time /\ k % channels = channel
    BY Within, DivRow
  <2>2. SampleRead(g, channel, time) = g.pcm[k]
    BY DEF SampleRead, Speakers
  <2> HIDE DEF k
  <2>3. g.pcm[k] = <<channel, time>>
    BY <1>1, <2>1
  <2>4. QED
    BY <2>2, <2>3
<1>3. Cardinality(DOMAIN g.pcm) \div g.channels = g.samples
  BY SampleCount
<1>4. QED
  BY <1>2, <1>3

\* What OBS was given last.
Pictured(g) ==
    \E p \in Pictures :
        g = [kind |-> "picture", size |-> p.size, from |-> p.from, buffer |-> I420(p.size)]
Sounded(g) ==
    \E format \in Formats, channels \in 1..2, samples \in Samples \ {0}, length \in Lengths :
        g = [kind |-> "sound", channels |-> channels, samples |-> samples,
             length |-> length, header |-> AdtsRead(AdtsHeader(length, 44100, 1)),
             pcm |-> Pcm(format, channels, samples)]
GInv == given = [kind |-> "none"] \/ Pictured(given) \/ Sounded(given)

LEMMA GivenInvariant == OutputSpec => []GInv
<1>1. OutputInit => GInv
  BY DEF OutputInit, GInv
<1>2. FInv /\ GInv /\ [OutputNext]_ovars => GInv'
  <2> SUFFICES ASSUME FInv, GInv, [OutputNext]_ovars
               PROVE  GInv'
    OBVIOUS
  <2>1. CASE UNCHANGED given
    BY <2>1 DEF GInv, Pictured, Sounded
  <2>2. CASE Threading
    BY <2>1, <2>2 DEF Threading, GInv
  <2>3. ASSUME NEW n \in Nets, NEW f \in Frame, ShowFrame(n, f)
        PROVE  GInv'
    <3> DEFINE d == IF Flushes(n, f) THEN Flush(decoder) ELSE decoder
    <3>1. PICK r \in Decode(d, f) : ShowPicture(r.out)
      BY <2>3 DEF ShowFrame
    <3>2. r.out \in Pictures \cup {Nothing}
      BY FlushTyped, DecodeTyped DEF FInv
    <3>3. QED
      BY <2>1, <3>1, <3>2 DEF ShowPicture, GInv, Pictured
  <2>4. ASSUME NEW format \in Formats, NEW channels \in 1..2, NEW samples \in Samples,
               NEW length \in Lengths, PlaySound(format, channels, samples, length)
        PROVE  GInv'
    BY <2>4 DEF PlaySound, GInv, Sounded
  <2>5. CASE UNCHANGED ovars
    BY <2>1, <2>5 DEF ovars, mvars
  <2>6. QED
    BY <2>2, <2>3, <2>4, <2>5 DEF OutputNext
<1>3. QED
  BY <1>1, <1>2, DecoderInvariant, PTL DEF OutputSpec

\* OBS reads every pixel of every picture where it was, for all sizes, odd ones too, and
\* any padding: the plane offsets it is told are those decode copied the planes to.
THEOREM PicturesAreWhole == OutputSpec => []PictureIsWhole
<1>1. GInv => PictureIsWhole
  <2> SUFFICES ASSUME GInv, given.kind = "picture", NEW plane \in Planes,
                      NEW row \in 0 .. Height(plane, given.size) - 1,
                      NEW column \in 0 .. Width(plane, given.size) - 1
               PROVE  PixelRead(given, plane, row, column) = <<plane, row, column>>
    BY DEF PictureIsWhole
  <2>1. Pictured(given)
    BY DEF GInv, Sounded
  <2>2. given.size \in Sizes /\ given.buffer = I420(given.size)
    BY <2>1 DEF Pictured, Pictures
  <2>3. QED
    BY <2>2, BufferHoldsPicture DEF PixelRead
<1>2. QED
  BY <1>1, GivenInvariant, PTL

\* OBS plays every sample of its channel in its time, for frames of any length, and
\* FFmpeg reads in the header that the phone wrote by hand what the phone meant.
THEOREM SoundsAreWhole == OutputSpec => []SoundIsWhole
<1>1. GInv => SoundIsWhole
  <2> SUFFICES ASSUME GInv, given.kind = "sound"
               PROVE  /\ Cardinality(DOMAIN given.pcm) \div given.channels = given.samples
                      /\ \A time \in 0 .. given.samples - 1,
                            channel \in 0 .. given.channels - 1 :
                            SampleRead(given, channel, time) = <<channel, time>>
                      /\ given.header = [rate |-> 44100, channels |-> 1,
                                         length |-> given.length]
    BY DEF SoundIsWhole
  <2>1. Sounded(given)
    BY DEF GInv, Pictured
  <2>2. PICK format, channels, samples, length :
         /\ channels \in 1..2 /\ samples \in Samples \ {0} /\ length \in Lengths
         /\ given = [kind |-> "sound", channels |-> channels, samples |-> samples,
                     length |-> length, header |-> AdtsRead(AdtsHeader(length, 44100, 1)),
                     pcm |-> Pcm(format, channels, samples)]
    BY <2>1 DEF Sounded
  <2>3. /\ given.channels = channels /\ given.samples = samples /\ given.length = length
        /\ given.header = AdtsRead(AdtsHeader(length, 44100, 1))
        /\ given.pcm = Pcm(format, channels, samples)
    BY <2>2
  <2>4. length \in Nat /\ length <= 8184
    <3>1. length \in Lengths
      BY <2>2
    <3>2. length \in 0..8184
      BY <3>1, OutputAssumption
    <3>3. QED
      BY <3>2
  <2>5. samples \in Nat /\ samples # 0
    <3>1. samples \in Samples \ {0}
      BY <2>2
    <3>2. QED
      BY <3>1, OutputAssumption
  <2>6. channels \in Nat /\ (channels = 1 \/ channels = 2)
    BY <2>2
  <2>7. /\ Cardinality(DOMAIN given.pcm) \div given.channels = given.samples
        /\ \A time \in 0 .. given.samples - 1, channel \in 0 .. given.channels - 1 :
               SampleRead(given, channel, time) = <<channel, time>>
    BY <2>3, <2>5, <2>6, SampleReadBack
  <2>8. given.header = [rate |-> 44100, channels |-> 1, length |-> given.length]
    BY <2>3, <2>4, HeaderReadBack
  <2>9. QED
    BY <2>7, <2>8
<1>2. QED
  BY <1>1, GivenInvariant, PTL
=============================================================================
