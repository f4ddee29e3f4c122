--------------------------- MODULE UdpPath_proofs ---------------------------
(***************************************************************************)
(* The UDP receiver returns whole frames, for every number of slots, every *)
(* size of frames and datagrams and every network; each of them once, when *)
(* no datagram is too late; and they show what the camera saw, for every   *)
(* size of images of an even width and height.                             *)
(***************************************************************************)
EXTENDS JpegPath, FiniteSetTheorems, TLAPS

-----------------------------------------------------------------------------
\* Where datagrams lie in a frame.

LEMMA Steps ==
    ASSUME NEW C \in Nat \ {0}, NEW i \in Nat, NEW j \in Nat, i < j
    PROVE  i * C + C <= j * C
BY SMT

LEMMA Products ==
    ASSUME NEW C \in Nat, NEW i \in Nat
    PROVE  i * C \in Nat
BY SMT

\* The number of datagrams is the quotient rounded up.
LEMMA Quotient ==
    ASSUME NEW C \in Nat \ {0}, NEW S \in Nat, NEW T, T = (S + C - 1) \div C
    PROVE  /\ T \in Nat
           /\ S <= T * C
           /\ S > 0 => T > 0 /\ (T - 1) * C < S
           /\ S = 0 => T = 0
BY SMT

LEMMA Places ==
    ASSUME NEW C \in Nat \ {0}, NEW k \in Nat
    PROVE  \E i \in Nat : i * C <= k /\ k < i * C + C
<1>1. (k \div C) \in Nat /\ (k \div C) * C <= k /\ k < (k \div C) * C + C
  BY SMT
<1> QED BY <1>1

\* Datagram i of a frame lies inside the frame, and only the last one is shorter.
LEMMA DatagramPlace ==
    ASSUME NEW f \in Frames, NEW i \in 0..TotalPackets(f)-1
    PROVE  /\ DataLen(f, i) \in 1..MaxDataSize
           /\ i * MaxDataSize + DataLen(f, i) <= Size[f]
           /\ i < TotalPackets(f) - 1 => DataLen(f, i) = MaxDataSize
           /\ i = TotalPackets(f) - 1 => i * MaxDataSize + DataLen(f, i) = Size[f]
<1> DEFINE T == TotalPackets(f)
<1>1. /\ Size[f] \in Nat /\ MaxDataSize \in Nat \ {0}
      /\ T = (Size[f] + MaxDataSize - 1) \div MaxDataSize
  BY SizeAssumption, FrameAssumption DEF Frames, TotalPackets
<1>2. /\ T \in Nat /\ Size[f] <= T * MaxDataSize
      /\ Size[f] > 0 => T > 0 /\ (T - 1) * MaxDataSize < Size[f]
      /\ Size[f] = 0 => T = 0
  BY <1>1, Quotient
<1>3. i \in Nat /\ T > 0 /\ i <= T - 1 /\ i * MaxDataSize \in Nat
  BY <1>1, <1>2, Products
<1> DEFINE p == i * MaxDataSize
<1>4. CASE i = T - 1
  <2>1. p < Size[f] /\ Size[f] <= p + MaxDataSize
    <3>1. i * MaxDataSize + MaxDataSize = T * MaxDataSize
      BY <1>1, <1>2, <1>3, <1>4
    <3> QED BY <1>1, <1>2, <1>3, <1>4, <3>1
  <2>2. DataLen(f, i) \in 1..MaxDataSize /\ p + DataLen(f, i) = Size[f]
    <3> HIDE DEF p
    <3>1. p \in Nat
      BY <1>3 DEF p
    <3>2. DataLen(f, i) = IF Size[f] - p <= MaxDataSize THEN Size[f] - p ELSE MaxDataSize
      BY DEF DataLen, p
    <3> QED BY <1>1, <2>1, <3>1, <3>2
  <2> QED BY <1>1, <1>4, <2>2
<1>5. CASE i < T - 1
  <2>1. p + MaxDataSize < Size[f]
    <3>1. i * MaxDataSize + MaxDataSize <= (T - 1) * MaxDataSize
      BY <1>1, <1>2, <1>3, <1>5, Steps
    <3> DEFINE q == (T - 1) * MaxDataSize
    <3>2. q \in Nat /\ q < Size[f] /\ p \in Nat /\ p + MaxDataSize <= q
      BY <1>1, <1>2, <1>3, <3>1, Products
    <3> HIDE DEF p, q
    <3> QED BY <1>1, <3>2
  <2>2. DataLen(f, i) = MaxDataSize
    <3> HIDE DEF p
    <3>1. p \in Nat
      BY <1>3 DEF p
    <3>2. DataLen(f, i) = IF Size[f] - p <= MaxDataSize THEN Size[f] - p ELSE MaxDataSize
      BY DEF DataLen, p
    <3> QED BY <1>1, <2>1, <3>1, <3>2
  <2>3. DataLen(f, i) \in 1..MaxDataSize
    BY <1>1, <2>2
  <2>4. p + DataLen(f, i) <= Size[f]
    <3> HIDE DEF p
    <3>1. p \in Nat
      BY <1>3 DEF p
    <3> QED BY <1>1, <2>1, <2>2, <3>1
  <2>5. i # T - 1
    BY <1>2, <1>3, <1>5
  <2> QED BY <2>2, <2>3, <2>4, <2>5
<1>6. i = T - 1 \/ i < T - 1
  BY <1>2, <1>3
<1> QED BY <1>4, <1>5, <1>6

\* Every byte of a frame is in a datagram.
LEMMA ByteInDatagram ==
    ASSUME NEW f \in Frames, NEW k \in 0..Size[f]-1
    PROVE  \E i \in 0..TotalPackets(f)-1 :
              k \in i * MaxDataSize .. i * MaxDataSize + DataLen(f, i) - 1
<1> DEFINE T == TotalPackets(f)
<1>1. /\ Size[f] \in Nat /\ MaxDataSize \in Nat \ {0} /\ k \in Nat
      /\ T = (Size[f] + MaxDataSize - 1) \div MaxDataSize
  BY SizeAssumption, FrameAssumption DEF Frames, TotalPackets
<1>2. T \in Nat /\ Size[f] <= T * MaxDataSize
  BY <1>1, Quotient
<1>3. PICK i \in Nat : i * MaxDataSize <= k /\ k < i * MaxDataSize + MaxDataSize
  BY <1>1, Places
<1>4. i * MaxDataSize \in Nat /\ T * MaxDataSize \in Nat
  BY <1>1, <1>2, Products
<1>5. i < T
  <2>1. SUFFICES ASSUME T <= i PROVE FALSE
    BY <1>2
  <2>2. T * MaxDataSize <= i * MaxDataSize
    <3>1. T < i => T * MaxDataSize + MaxDataSize <= i * MaxDataSize
      BY <1>1, <1>2, Steps
    <3> QED BY <2>1, <3>1, <1>1, <1>2, <1>4
  <2> QED BY <1>1, <1>2, <1>3, <1>4, <2>2
<1>6. /\ DataLen(f, i) \in Nat
      /\ i < T - 1 => DataLen(f, i) = MaxDataSize
      /\ i = T - 1 => i * MaxDataSize + DataLen(f, i) = Size[f]
  BY <1>2, <1>5, DatagramPlace, <1>1
<1> DEFINE p == i * MaxDataSize
<1>7. k \in p .. p + DataLen(f, i) - 1
  <2>1. p \in Nat /\ p <= k /\ k < p + MaxDataSize
    BY <1>3, <1>4
  <2>2. /\ i < T - 1 => DataLen(f, i) = MaxDataSize
        /\ i = T - 1 => p + DataLen(f, i) = Size[f]
    BY <1>6
  <2> HIDE DEF p
  <2>3. CASE i < T - 1
    BY <1>1, <2>1, <2>2, <2>3
  <2>4. CASE i = T - 1
    BY <1>1, <1>6, <2>1, <2>2, <2>4
  <2> QED BY <1>2, <1>5, <2>3, <2>4
<1> QED BY <1>5, <1>7, <1>2

-----------------------------------------------------------------------------
(***************************************************************************)
(* The inductive invariant: what a slot holds of the frame whose number it *)
(* has.  Bytes of datagrams that did not come yet may be of other frames.  *)
(***************************************************************************)
IsSlot(slot) ==
    /\ slot = [sequence |-> slot.sequence, received |-> slot.received, total |-> slot.total,
               actual |-> slot.actual, cap |-> slot.cap, data |-> slot.data, got |-> slot.got,
               complete |-> slot.complete]
    /\ slot.sequence \in Nat /\ slot.received \in Nat /\ slot.total \in Nat
    /\ slot.actual \in Nat /\ slot.cap \in Nat
    /\ slot.complete \in BOOLEAN
    /\ slot.data \in [0..slot.cap-1 -> (Frames \X Nat) \cup {Zero}]

\* Datagram i of frame f is in the slot.
Has(slot, f, i) ==
    /\ i * MaxDataSize + DataLen(f, i) <= slot.actual
    /\ \A k \in i * MaxDataSize .. i * MaxDataSize + DataLen(f, i) - 1 :
          slot.data[k] = Byte(f, k)

Holds(slot) ==
    LET f == slot.sequence IN
    /\ slot.total # 0 => f \in Frames /\ slot.total = TotalPackets(f) /\ slot.actual <= Size[f]
    /\ slot.got \subseteq 0..slot.total-1
    /\ \A i \in slot.got : Has(slot, f, i)

SlotOk(slot) ==
    /\ IsSlot(slot)
    /\ slot.actual <= slot.cap
    /\ slot.received = Cardinality(slot.got)
    /\ slot.total = 0 => slot.actual = 0
    /\ Holds(slot)

NetOk == \A d \in net : d[1] \in Frames /\ d[2] \in 0..TotalPackets(d[1])-1

IInv ==
    /\ open \in BOOLEAN
    /\ slots = [i \in 0..SlotCount-1 |-> slots[i]]
    /\ \A i \in 0..SlotCount-1 : SlotOk(slots[i])
    /\ sending \in 0..LastFrame+1 /\ next \in Nat
    /\ net \subseteq Frames \X Nat /\ NetOk
    /\ delivered \in [Frames -> 0..2] /\ newest \in Frames
    /\ arrived \in [Frames -> SUBSET Nat]
    /\ WholeFrames

-----------------------------------------------------------------------------
LEMMA NewSlotOk == SlotOk(NewSlot)
<1>1. IsSlot(NewSlot)
  BY FrameAssumption DEF NewSlot, IsSlot
<1>2. NewSlot.received = Cardinality(NewSlot.got) /\ NewSlot.actual <= NewSlot.cap
  BY FS_EmptySet DEF NewSlot
<1>3. Holds(NewSlot) /\ (NewSlot.total = 0 => NewSlot.actual = 0)
  BY DEF NewSlot, Holds
<1> QED BY <1>1, <1>2, <1>3 DEF SlotOk

\* What the header of a datagram says.
LEMMA PacketFields ==
    ASSUME NEW f \in Frames, NEW i \in 0..TotalPackets(f)-1
    PROVE  LET p == Packet(f, i) IN
           /\ p.seq = f /\ p.total = TotalPackets(f) /\ p.idx = i /\ p.chunk = MaxDataSize
           /\ p.len = DataLen(f, i) /\ p.len \in Nat \ {0}
           /\ Offset(p) = i * MaxDataSize /\ Offset(p) \in Nat
           /\ p.total \in Nat \ {0} /\ f \in Nat /\ p.chunk * p.total \in Nat
           /\ \A k \in Offset(p) .. Offset(p) + p.len - 1 : p.bytes[k - Offset(p)] = Byte(f, k)
<1> DEFINE p == Packet(f, i)
<1>1. /\ p.seq = f /\ p.total = TotalPackets(f) /\ p.idx = i /\ p.chunk = MaxDataSize
      /\ p.len = DataLen(f, i)
      /\ p.bytes = [k \in 0..DataLen(f, i)-1 |-> Byte(f, i * MaxDataSize + k)]
      /\ Offset(p) = i * MaxDataSize
  BY DEF Packet, Offset
<1>2. /\ MaxDataSize \in Nat \ {0} /\ Size[f] \in Nat /\ f \in Nat
      /\ TotalPackets(f) = (Size[f] + MaxDataSize - 1) \div MaxDataSize
  BY SizeAssumption, FrameAssumption DEF Frames, TotalPackets
<1>3. TotalPackets(f) \in Nat
  BY <1>2, Quotient
<1>4. i \in Nat /\ TotalPackets(f) > 0 /\ i * MaxDataSize \in Nat
  BY <1>2, <1>3, Products
<1>5. MaxDataSize * TotalPackets(f) \in Nat
  BY <1>2, <1>3, Products
<1>6. DataLen(f, i) \in Nat \ {0}
  BY <1>2, DatagramPlace
<1>7. ASSUME NEW k \in Offset(p) .. Offset(p) + p.len - 1
      PROVE  p.bytes[k - Offset(p)] = Byte(f, k)
  <2> DEFINE o == i * MaxDataSize
  <2>1. k \in o .. o + DataLen(f, i) - 1 /\ o \in Nat
    BY <1>1, <1>4
  <2> HIDE DEF o
  <2>2. k - o \in 0..DataLen(f, i)-1 /\ o + (k - o) = k
    BY <1>6, <2>1
  <2>3. p.bytes[k - o] = Byte(f, o + (k - o))
    BY <1>1, <2>2 DEF o
  <2> QED BY <1>1, <2>2, <2>3 DEF o
<1> QED BY <1>1, <1>2, <1>3, <1>4, <1>5, <1>6, <1>7

\* A sequence that enters a slot, or is there already.
LEMMA EnterOk ==
    ASSUME NEW slot, SlotOk(slot), NEW f \in Frames, NEW i \in 0..TotalPackets(f)-1
    PROVE  LET e == Enter(slot, Packet(f, i)) IN SlotOk(e) /\ e.sequence = f
<1> DEFINE p == Packet(f, i)
<1>1. CASE slot.sequence = p.seq
  BY <1>1, PacketFields DEF Enter
<1>2. CASE slot.sequence # p.seq
  <2> DEFINE e == Clear(slot, p)
             size == p.chunk * p.total
  <2>1. /\ p.seq = f /\ f \in Nat /\ p.total \in Nat \ {0} /\ size \in Nat
        /\ p.total = TotalPackets(f)
    BY PacketFields
  <2>2. IsSlot(slot)
    BY DEF SlotOk
  <2> HIDE DEF p, size
  <2>3. /\ e.sequence = p.seq /\ e.received = 0 /\ e.total = p.total /\ e.complete = FALSE
        /\ e.actual = 0 /\ e.got = {} /\ e.data = Resize(slot, size)
        /\ e.cap = Larger(slot.cap, size)
        /\ e = [sequence |-> e.sequence, received |-> e.received, total |-> e.total,
                actual |-> e.actual, cap |-> e.cap, data |-> e.data, got |-> e.got,
                complete |-> e.complete]
    BY DEF Clear, size
  <2> HIDE DEF e
  <2>4. Larger(slot.cap, size) \in Nat /\ slot.cap \in Nat
    BY <2>1, <2>2 DEF Larger, IsSlot
  <2>5. Resize(slot, size) \in [0..e.cap-1 -> (Frames \X Nat) \cup {Zero}]
    <3>1. slot.data \in [0..slot.cap-1 -> (Frames \X Nat) \cup {Zero}]
      BY <2>2 DEF IsSlot
    <3> QED BY <2>3, <2>4, <3>1 DEF Resize
  <2>6. IsSlot(e)
    <3>1. e.sequence \in Nat /\ e.received \in Nat /\ e.total \in Nat /\ e.actual \in Nat /\ e.cap \in Nat
      BY <2>1, <2>3, <2>4
    <3>2. e.complete \in BOOLEAN
      BY <2>3
    <3> QED BY <2>3, <2>5, <3>1, <3>2 DEF IsSlot
  <2>7. Size[f] \in Nat
    BY SizeAssumption DEF Frames
  <2>8. Holds(e)
    BY <2>1, <2>3, <2>7 DEF Holds
  <2>9. e.received = Cardinality(e.got)
    BY <2>3, FS_EmptySet
  <2> QED BY <1>2, <2>1, <2>3, <2>4, <2>6, <2>8, <2>9 DEF SlotOk, Enter, e, p
<1> QED BY <1>1, <1>2

\* A datagram is stored beside those that the slot has.
LEMMA StoreOk ==
    ASSUME NEW slot, SlotOk(slot), NEW f \in Frames, NEW i \in 0..TotalPackets(f)-1,
           slot.sequence = f, Fits(slot, Packet(f, i))
    PROVE  LET s == Store(slot, Packet(f, i)) IN
           SlotOk(s) /\ s.sequence = f /\ s.total = slot.total
<1> DEFINE p == Packet(f, i)
           o == i * MaxDataSize
           n == DataLen(f, i)
           s == Store(slot, p)
<1>1. /\ p.idx = i /\ p.len = n /\ Offset(p) = o /\ o \in Nat /\ n \in Nat \ {0}
      /\ p.total = TotalPackets(f) /\ p.total \in Nat \ {0} /\ i \in Nat
      /\ \A k \in o .. o + n - 1 : p.bytes[k - o] = Byte(f, k)
  <2>1. i \in Nat
    BY PacketFields
  <2> QED BY <2>1, PacketFields
<1>2. o + n <= slot.cap /\ slot.total = TotalPackets(f)
  BY <1>1 DEF Fits
<1>3. o + n <= Size[f] /\ Size[f] \in Nat
  BY DatagramPlace, SizeAssumption DEF Frames
<1>4. CASE i \in slot.got
  BY <1>1, <1>4 DEF Store
<1>5. CASE i \notin slot.got
  <2> HIDE DEF p, o, n
  <2> DEFINE data == [k \in DOMAIN slot.data |->
                        IF k \in o..o+n-1 THEN p.bytes[k - o] ELSE slot.data[k]]
  <2>1. /\ s = [sequence |-> slot.sequence, received |-> slot.received + 1, total |-> slot.total,
                actual |-> Larger(slot.actual, o + n), cap |-> slot.cap, data |-> data,
                got |-> slot.got \cup {i}, complete |-> slot.complete]
    <3>1. IsSlot(slot)
      BY DEF SlotOk
    <3> QED BY <1>1, <1>5, <3>1 DEF Store, IsSlot
  <2> HIDE DEF s
  <2>2. /\ slot.sequence \in Nat /\ slot.received \in Nat /\ slot.total \in Nat
        /\ slot.actual \in Nat /\ slot.cap \in Nat /\ slot.complete \in BOOLEAN
        /\ slot.data \in [0..slot.cap-1 -> (Frames \X Nat) \cup {Zero}]
        /\ slot.actual <= slot.cap /\ slot.actual <= Size[f]
        /\ slot.got \subseteq 0..slot.total-1 /\ slot.received = Cardinality(slot.got)
        /\ \A j \in slot.got : Has(slot, f, j)
    BY <1>1, <1>2 DEF SlotOk, IsSlot, Holds
  <2>3. /\ s.actual \in Nat /\ s.actual >= slot.actual /\ s.actual >= o + n
        /\ s.actual <= s.cap /\ s.actual <= Size[f]
    BY <1>1, <1>2, <1>3, <2>1, <2>2 DEF Larger
  <2>4. /\ s.data = data
        /\ \A k \in o..o+n-1 : k \in DOMAIN slot.data /\ s.data[k] = Byte(f, k)
        /\ \A k \in 0..slot.cap-1 : k \notin o..o+n-1 => s.data[k] = slot.data[k]
    <3>1. s.data = data
      BY <2>1
    <3>2. \A k \in o..o+n-1 : k \in 0..slot.cap-1
      BY <1>1, <1>2, <2>2
    <3>3. DOMAIN slot.data = 0..slot.cap-1
      BY <2>2
    <3> QED BY <1>1, <3>1, <3>2, <3>3
  <2>5. s.data \in [0..s.cap-1 -> (Frames \X Nat) \cup {Zero}]
    <3>1. \A k \in 0..slot.cap-1 : s.data[k] \in (Frames \X Nat) \cup {Zero}
      <4> TAKE k \in 0..slot.cap-1
      <4>1. CASE k \in o..o+n-1
        <5>1. s.data[k] = Byte(f, k) /\ k \in Nat
          BY <4>1, <2>4
        <5> QED BY <5>1 DEF Byte
      <4>2. CASE k \notin o..o+n-1
        BY <4>2, <2>2, <2>4
      <4> QED BY <4>1, <4>2
    <3> QED BY <2>1, <2>2, <2>4, <3>1
  <2>6. IsSlot(s)
    BY <2>1, <2>2, <2>3, <2>5 DEF IsSlot
  <2>7. s.received = Cardinality(s.got)
    <3>1. IsFiniteSet(0..slot.total-1)
      <4>1. 0 \in Int /\ slot.total - 1 \in Int
        BY <2>2
      <4> QED BY <4>1, FS_Interval
    <3>2. IsFiniteSet(slot.got)
      BY <2>2, <3>1, FS_Subset
    <3>3. Cardinality(slot.got \cup {i}) = Cardinality(slot.got) + 1
      BY <1>5, <3>2, FS_AddElement
    <3> QED BY <2>1, <2>2, <3>3
  <2>8. ASSUME NEW j \in s.got PROVE Has(s, f, j)
    <3>1. CASE j = i
      BY <2>3, <2>4, <3>1, <1>1 DEF Has, o, n
    <3>2. CASE j # i
      <4> DEFINE q == j * MaxDataSize
                 l == DataLen(f, j)
      <4>1. j \in slot.got /\ j \in 0..TotalPackets(f)-1
        BY <2>1, <2>2, <2>8, <3>2, <1>2
      <4>2. q + l <= slot.actual /\ \A k \in q .. q + l - 1 : slot.data[k] = Byte(f, k)
        BY <2>2, <4>1 DEF Has
      <4>3. l \in 1..MaxDataSize /\ n \in 1..MaxDataSize
        BY <4>1, DatagramPlace DEF n
      <4>4. j \in Nat /\ q \in Nat /\ MaxDataSize \in Nat \ {0}
        BY <1>1, <4>1, SizeAssumption, Products
      <4>5. q + MaxDataSize <= o \/ o + MaxDataSize <= q
        BY <1>1, <4>4, <3>2, Steps DEF o
      <4> HIDE DEF q, l
      <4>6. \A k \in q .. q + l - 1 : k \in 0..slot.cap-1 /\ k \notin o..o+n-1
        BY <1>1, <2>2, <4>2, <4>3, <4>4, <4>5
      <4>7. q + l <= s.actual
        BY <2>2, <2>3, <4>2, <4>3, <4>4
      <4>8. \A k \in q .. q + l - 1 : s.data[k] = Byte(f, k)
        BY <2>4, <4>2, <4>6
      <4> QED BY <4>7, <4>8 DEF Has, q, l
    <3> QED BY <3>1, <3>2
  <2>9. Holds(s)
    BY <1>1, <1>2, <2>1, <2>2, <2>3, <2>8 DEF Holds
  <2>10. s.total # 0 /\ s.sequence = f /\ s.total = slot.total
    BY <1>1, <1>2, <2>1
  <2>11. SlotOk(s)
    BY <2>3, <2>6, <2>7, <2>9, <2>10 DEF SlotOk
  <2> QED BY <2>10, <2>11 DEF s, p
<1> QED BY <1>4, <1>5

\* A slot with as many datagrams as its frame has holds the frame.
LEMMA WholeOutput ==
    ASSUME NEW slot, SlotOk(slot), slot.total # 0, slot.received = slot.total
    PROVE  Output(slot) = Bytes(slot.sequence)
<1> DEFINE f == slot.sequence
           T == slot.total
<1>1. /\ f \in Frames /\ T = TotalPackets(f) /\ slot.actual <= Size[f]
      /\ slot.actual \in Nat /\ T \in Nat \ {0} /\ Size[f] \in Nat
      /\ slot.got \subseteq 0..T-1 /\ Cardinality(slot.got) = T
      /\ \A i \in slot.got : Has(slot, f, i)
  BY SizeAssumption DEF SlotOk, IsSlot, Holds, Frames
<1>2. slot.got = 0..T-1
  <2>1. IsFiniteSet(0..T-1) /\ Cardinality(0..T-1) = T
    <3> DEFINE b == T - 1
    <3>1. 0 \in Int /\ b \in Int /\ 0 <= b /\ b - 0 + 1 = T
      BY <1>1
    <3> HIDE DEF b
    <3>2. IsFiniteSet(0..b) /\ Cardinality(0..b) = b - 0 + 1
      BY <3>1, FS_Interval
    <3> QED BY <3>1, <3>2 DEF b
  <2> QED BY <1>1, <2>1, FS_Subset
<1>3. slot.actual = Size[f]
  <2>1. T - 1 \in 0..T-1
    BY <1>1
  <2>2. Has(slot, f, T - 1)
    BY <1>1, <1>2, <2>1
  <2>3. (T - 1) * MaxDataSize + DataLen(f, T - 1) = Size[f]
    BY <1>1, <2>1, DatagramPlace
  <2> QED BY <1>1, <2>2, <2>3 DEF Has
<1>4. ASSUME NEW k \in 0..Size[f]-1 PROVE slot.data[k] = Byte(f, k)
  <2>1. PICK i \in 0..T-1 : k \in i * MaxDataSize .. i * MaxDataSize + DataLen(f, i) - 1
    BY <1>1, ByteInDatagram
  <2> QED BY <1>1, <1>2, <2>1 DEF Has
<1> QED BY <1>3, <1>4 DEF Output, Bytes

LEMMA CompleteOk ==
    ASSUME NEW slot, SlotOk(slot), NEW c \in BOOLEAN
    PROVE  LET s == [slot EXCEPT !.complete = c] IN
           SlotOk(s) /\ Output(s) = Output(slot)
<1> DEFINE s == [slot EXCEPT !.complete = c]
<1>1. /\ s = [sequence |-> slot.sequence, received |-> slot.received, total |-> slot.total,
              actual |-> slot.actual, cap |-> slot.cap, data |-> slot.data, got |-> slot.got,
              complete |-> c]
  <2>1. IsSlot(slot)
    BY DEF SlotOk
  <2> QED BY <2>1 DEF IsSlot
<1> HIDE DEF s
<1>2. IsSlot(s)
  BY <1>1 DEF SlotOk, IsSlot
<1>3. Holds(s) /\ Output(s) = Output(slot)
  BY <1>1 DEF SlotOk, Holds, Has, Output
<1> QED BY <1>1, <1>2, <1>3 DEF SlotOk, s

\* receive_frame with a datagram of ours.
LEMMA TakenOk ==
    ASSUME NEW slot, SlotOk(slot), NEW f \in Frames, NEW i \in 0..TotalPackets(f)-1
    PROVE  LET t == Taken(slot, Packet(f, i)) IN
           SlotOk(t.slot) /\ (t.done => Output(t.slot) = Bytes(f))
<1> DEFINE p == Packet(f, i)
           e == Enter(slot, p)
           s == Store(e, p)
           t == Taken(slot, p)
<1>1. SlotOk(e) /\ e.sequence = f
  BY EnterOk
<1>2. p.total = TotalPackets(f) /\ p.total \in Nat \ {0}
  BY PacketFields
<1>3. CASE ~Fits(e, p)
  BY <1>1, <1>3 DEF Taken
<1>4. CASE Fits(e, p)
  <2>1. SlotOk(s) /\ s.sequence = f /\ s.total = e.total /\ e.total = p.total
    <3>1. e.total = p.total
      BY <1>4 DEF Fits
    <3> HIDE DEF e
    <3> QED BY <1>1, <1>4, <3>1, StoreOk
  <2> DEFINE c == s.complete \/ Completes(s)
  <2>2. t.slot = [s EXCEPT !.complete = c] /\ t.done = Completes(s)
    BY <1>4 DEF Taken
  <2>3. c \in BOOLEAN
    BY <2>1 DEF SlotOk, IsSlot, Completes
  <2> HIDE DEF p, e, s, c, t
  <2>4. SlotOk(t.slot) /\ Output(t.slot) = Output(s)
    BY <2>1, <2>2, <2>3, CompleteOk
  <2>5. t.done => Output(s) = Bytes(f)
    BY <1>2, <2>1, <2>2, WholeOutput DEF Completes
  <2> QED BY <2>4, <2>5 DEF t, p
<1> QED BY <1>3, <1>4

-----------------------------------------------------------------------------
LEMMA InitInv == Init => IInv
<1> SUFFICES ASSUME Init PROVE IInv
  OBVIOUS
<1>1. \A i \in 0..SlotCount-1 : SlotOk(slots[i])
  BY NewSlotOk DEF Init, UdpInit
<1>2. 0 \in Frames
  BY FrameAssumption DEF Frames
<1>3. slots = [i \in 0..SlotCount-1 |-> slots[i]] /\ open \in BOOLEAN
  BY DEF Init, UdpInit
<1>4. sending \in 0..LastFrame+1 /\ next \in Nat
  BY FrameAssumption DEF Init
<1>5. net \subseteq Frames \X Nat /\ NetOk /\ WholeFrames
  BY DEF Init, NetOk, WholeFrames
<1>6. delivered \in [Frames -> 0..2] /\ newest \in Frames /\ arrived \in [Frames -> SUBSET Nat]
  BY <1>2 DEF Init, NoHistory
<1> QED BY <1>1, <1>3, <1>4, <1>5, <1>6 DEF IInv

LEMMA SendInv ==
    ASSUME IInv, Send \/ SendFails
    PROVE  IInv'
<1>1. open' = open /\ slots' = slots /\ out' = out /\ UNCHANGED history
  BY DEF Send, SendFails, uvars
<1>2. /\ sending' \in 0..LastFrame+1 /\ next' \in Nat
      /\ net' \subseteq Frames \X Nat /\ NetOk'
  <2>1. CASE Send
    <3>1. sending \in Frames /\ sending \in Nat /\ next \in Nat
      BY <2>1, FrameAssumption DEF Send, Frames, IInv
    <3>2. TotalPackets(sending) \in Nat
      BY <3>1, SizeAssumption, Quotient DEF TotalPackets, Frames
    <3> QED BY <2>1, <3>1, <3>2, FrameAssumption DEF Send, IInv, NetOk, Frames
  <2>2. CASE SendFails
    BY <2>2, FrameAssumption DEF SendFails, IInv, NetOk, Frames
  <2> QED BY <2>1, <2>2
<1> QED BY <1>1, <1>2 DEF IInv, WholeFrames, history

LEMMA ControlInv ==
    ASSUME IInv, Restart \/ Close
    PROVE  IInv'
<1>1. /\ open' \in BOOLEAN /\ out' = Nothing
      /\ sending' = sending /\ next' = next /\ net' = net
  BY DEF Restart, Close, UdpStart, UdpStop
<1>2. /\ slots' = [i \in 0..SlotCount-1 |-> slots'[i]]
      /\ \A i \in 0..SlotCount-1 : SlotOk(slots'[i])
  BY NewSlotOk DEF Restart, Close, UdpStart, UdpStop, IInv
<1>3. /\ delivered' \in [Frames -> 0..2] /\ newest' \in Frames
      /\ arrived' \in [Frames -> SUBSET Nat]
  <2>1. 0 \in Frames
    BY FrameAssumption DEF Frames
  <2> QED BY <2>1 DEF Restart, Close, IInv, history
<1> QED BY <1>1, <1>2, <1>3 DEF IInv, NetOk, WholeFrames

LEMMA ReceiveInv ==
    ASSUME IInv, NEW d \in net, NEW again \in BOOLEAN, Receive(d[1], d[2], again)
    PROVE  IInv'
<1> DEFINE f == d[1]
           i == d[2]
           p == Packet(f, i)
           t == Taken(slots[SlotOf(p)], p)
<1>1. f \in Frames /\ i \in 0..TotalPackets(f)-1 /\ i \in Nat
  BY DEF IInv, NetOk
<1>2. SlotOf(p) \in 0..SlotCount-1
  BY <1>1, PacketFields, SlotCountAssumption DEF SlotOf
<1>3. SlotOk(t.slot) /\ (t.done => Output(t.slot) = Bytes(f))
  BY <1>1, <1>2, TakenOk DEF IInv
<1> HIDE DEF f, i, p, t
<1>4. /\ UNCHANGED <<open, sending, next>>
      /\ slots' = slots \/ slots' = [slots EXCEPT ![SlotOf(p)] = t.slot]
      /\ out' = Nothing \/ (t.done /\ out' = Output(t.slot))
      /\ net' \subseteq net
      /\ arrived' = [arrived EXCEPT ![f] = @ \cup {i}]
      /\ \/ delivered' = [delivered EXCEPT ![f] = @ + 1] /\ delivered[f] < 2
         \/ delivered' = delivered
      /\ newest' = Larger(newest, f)
  BY DEF Receive, UdpReceive, Returns, f, i, p, t
<1>5. /\ slots' = [j \in 0..SlotCount-1 |-> slots'[j]]
      /\ \A j \in 0..SlotCount-1 : SlotOk(slots'[j])
  BY <1>2, <1>3, <1>4 DEF IInv
<1>6. net' \subseteq Frames \X Nat /\ NetOk'
  BY <1>4 DEF IInv, NetOk
<1>7. delivered' \in [Frames -> 0..2] /\ newest' \in Frames /\ arrived' \in [Frames -> SUBSET Nat]
  BY <1>1, <1>4 DEF IInv, Larger
<1>8. WholeFrames'
  BY <1>1, <1>3, <1>4 DEF WholeFrames
<1> QED BY <1>4, <1>5, <1>6, <1>7, <1>8 DEF IInv

LEMMA NextInv == IInv /\ [Next]_vars => IInv'
<1> SUFFICES ASSUME IInv, [Next]_vars PROVE IInv'
  OBVIOUS
<1>1. CASE Send \/ SendFails
  BY <1>1, SendInv
<1>2. CASE Restart \/ Close
  BY <1>2, ControlInv
<1>3. CASE \E d \in net, again \in BOOLEAN : Receive(d[1], d[2], again)
  BY <1>3, ReceiveInv
<1>4. CASE UNCHANGED vars
  BY <1>4 DEF vars, uvars, history, IInv, NetOk, WholeFrames
<1> QED BY <1>1, <1>2, <1>3, <1>4 DEF Next

LEMMA Invariance == Spec => []IInv
BY InitInv, NextInv, PTL DEF Spec

\* The variables of the receiver and the path have their types, and a slot
\* counts each datagram of its frame once.
THEOREM UdpTypeCorrect == Spec => []TypeOK
<1>1. IInv => TypeOK
  BY DEF IInv, TypeOK, SlotOk, IsSlot, Holds
<1> QED BY <1>1, Invariance, PTL

\* Whatever is lost, repeated or late, and however often the receiver is
\* started again, receive_frame returns nothing but frames that were sent.
THEOREM OnlyWholeFrames == Spec => []WholeFrames
<1>1. IInv => WholeFrames
  BY DEF IInv
<1> QED BY <1>1, Invariance, PTL

-----------------------------------------------------------------------------
(***************************************************************************)
(* The second invariant, for a network in which no datagram comes after    *)
(* one of the next frame of its slot: a frame has its slot, and was        *)
(* returned if it is whole; or it is passed, and nothing of it comes any   *)
(* more; or nothing of it was taken.                                       *)
(***************************************************************************)
SlotFor(f) == slots[f % SlotCount]

\* The frame has its slot.
InSlot(f) ==
    LET s == SlotFor(f) IN
    /\ s.total # 0 /\ s.total <= MaxPackets /\ s.cap >= Size[f]
    /\ s.got = arrived[f] /\ arrived[f] # {}
    /\ s.complete <=> s.received = s.total
    /\ delivered[f] = IF s.complete THEN 1 ELSE 0

\* The frame has the number of a slot never used.
Unusable(f) == f = UintMax /\ SlotFor(f).total = 0 /\ delivered[f] = 0

\* A newer frame had the slot.
Passed(f) ==
    /\ newest >= f + SlotCount
    /\ delivered[f] <= 1
    /\ (/\ arrived[f] = 0..TotalPackets(f)-1 /\ arrived[f] # {}
        /\ TotalPackets(f) <= MaxPackets
        /\ f # UintMax) => delivered[f] = 1

Untaken(f) == delivered[f] = 0 /\ (arrived[f] = {} \/ TotalPackets(f) > MaxPackets)

Account(f) ==
    /\ SlotFor(f).sequence = f => InSlot(f) \/ Unusable(f)
    /\ SlotFor(f).sequence # f => Passed(f) \/ Untaken(f)
    /\ arrived[f] # {} => newest >= f

AInv == \A f \in Frames : Account(f)

\* An unused slot has the number that none has.
UnusedInv == \A i \in 0..SlotCount-1 : slots[i].total = 0 => slots[i].sequence = UintMax

-----------------------------------------------------------------------------
\* Frames of one slot are at least SlotCount apart.
LEMMA SameSlot ==
    ASSUME NEW f \in Nat, NEW g \in Nat, f % SlotCount = g % SlotCount, f < g
    PROVE  f + SlotCount <= g
<1>1. SlotCount \in Nat \ {0}
  BY SlotCountAssumption
<1> DEFINE c == SlotCount
           a == f \div c
           b == g \div c
           r == f % c
<1>2. a \in Nat /\ b \in Nat /\ r \in Nat /\ f = c * a + r /\ g = c * b + r
  BY <1>1
<1> HIDE DEF a, b, r
<1>3. a < b
  <2>1. SUFFICES ASSUME b <= a PROVE FALSE
    BY <1>2
  <2>2. PICK d \in Nat : a = b + d
    BY <1>2, <2>1
  <2>3. c * a = c * b + c * d /\ c * d \in Nat /\ c * b \in Nat
    BY <1>1, <1>2, <2>2
  <2> QED BY <1>2, <2>3
<1>4. a * c + c <= b * c
  BY <1>1, <1>2, <1>3, Steps
<1>5. a * c = c * a /\ b * c = c * b /\ c * a \in Nat /\ c * b \in Nat
  BY <1>1, <1>2
<1> QED BY <1>1, <1>2, <1>4, <1>5

\* A slot has all datagrams of its frame when it has as many.
LEMMA WholeGot ==
    ASSUME NEW slot, SlotOk(slot)
    PROVE  slot.received = slot.total <=> slot.got = 0..slot.total-1
<1> DEFINE b == slot.total - 1
<1>1. /\ slot.total \in Nat /\ slot.got \subseteq 0..b
      /\ slot.received = Cardinality(slot.got)
  BY DEF SlotOk, IsSlot, Holds
<1>2. b \in Int /\ 0 \in Int /\ (0 <= b => b - 0 + 1 = slot.total) /\ (b < 0 => slot.total = 0)
  BY <1>1
<1> HIDE DEF b
<1>3. IsFiniteSet(0..b) /\ Cardinality(0..b) = slot.total
  <2>1. IsFiniteSet(0..b) /\ Cardinality(0..b) = IF 0 > b THEN 0 ELSE b - 0 + 1
    BY <1>2, FS_Interval
  <2> QED BY <1>2, <2>1
<1>4. slot.got = 0..b => slot.received = slot.total
  BY <1>1, <1>3
<1>5. slot.received = slot.total => slot.got = 0..b
  BY <1>1, <1>3, FS_Subset
<1> QED BY <1>4, <1>5 DEF b

\* The slot after a datagram of a frame that has it, or that it is free for.
LEMMA TakenCounts ==
    ASSUME NEW slot, SlotOk(slot), NEW f \in Frames, NEW i \in 0..TotalPackets(f)-1,
           slot.sequence = f =>
              slot.total # 0 /\ slot.cap >= Size[f] /\ (slot.complete <=> slot.received = slot.total)
    PROVE  LET t == Taken(slot, Packet(f, i)) IN
           /\ t.slot.sequence = f /\ t.slot.total = TotalPackets(f) /\ t.slot.total # 0
           /\ t.slot.cap >= Size[f]
           /\ t.slot.complete <=> t.slot.received = t.slot.total
           /\ t.slot.got = (IF slot.sequence = f THEN slot.got ELSE {}) \cup {i}
           /\ t.done <=> t.slot.complete /\ ~(slot.sequence = f /\ slot.complete)
<1> DEFINE p == Packet(f, i)
           e == Enter(slot, p)
           s == Store(e, p)
           t == Taken(slot, p)
<1>1. SlotOk(e) /\ e.sequence = f
  BY EnterOk
<1>2. /\ p.seq = f /\ p.idx = i /\ p.total = TotalPackets(f) /\ p.total \in Nat \ {0}
      /\ p.chunk = MaxDataSize /\ p.chunk * p.total \in Nat
      /\ Offset(p) = i * MaxDataSize /\ p.len = DataLen(f, i)
  BY PacketFields
<1>3. /\ e.got = IF slot.sequence = f THEN slot.got ELSE {}
      /\ slot.sequence = f => e = slot
      /\ slot.sequence # f => e.complete = FALSE /\ e.received = 0 /\ e.total = p.total
                              /\ e.cap = Larger(slot.cap, p.chunk * p.total)
  BY <1>2 DEF Enter, Clear
<1>4. e.total = TotalPackets(f)
  <2>1. CASE slot.sequence = f
    BY <1>3, <2>1 DEF SlotOk, Holds
  <2>2. CASE slot.sequence # f
    BY <1>2, <1>3, <2>2
  <2> QED BY <2>1, <2>2
<1>5. e.cap >= Size[f] /\ e.cap \in Nat /\ Size[f] \in Nat
  <2>1. /\ MaxDataSize \in Nat \ {0} /\ Size[f] \in Nat
        /\ TotalPackets(f) = (Size[f] + MaxDataSize - 1) \div MaxDataSize
    BY SizeAssumption, FrameAssumption DEF Frames, TotalPackets
  <2>2. Size[f] <= TotalPackets(f) * MaxDataSize
    BY <2>1, Quotient
  <2>3. e.cap \in Nat /\ slot.cap \in Nat
    BY <1>1 DEF SlotOk, IsSlot
  <2>4. CASE slot.sequence = f
    BY <1>3, <2>1, <2>3, <2>4
  <2>5. CASE slot.sequence # f
    <3>1. p.chunk * p.total = TotalPackets(f) * MaxDataSize
      BY <1>2, <2>1
    <3> DEFINE w == p.chunk * p.total
    <3>2. w \in Nat /\ w >= Size[f] /\ e.cap = Larger(slot.cap, w)
      BY <1>2, <1>3, <2>1, <2>2, <2>5, <3>1
    <3> HIDE DEF w
    <3> QED BY <2>1, <2>3, <3>2 DEF Larger
  <2> QED BY <2>1, <2>3, <2>4, <2>5
<1>6. Fits(e, p)
  <2>1. i * MaxDataSize + DataLen(f, i) <= Size[f] /\ DataLen(f, i) \in 1..MaxDataSize
    BY DatagramPlace
  <2>2. i \in Nat /\ MaxDataSize \in Nat /\ i * MaxDataSize \in Nat
    <3>1. i \in Nat /\ MaxDataSize \in Nat
      BY <1>2, SizeAssumption
    <3> QED BY <3>1, Products
  <2> DEFINE o == i * MaxDataSize
             n == DataLen(f, i)
  <2>3. o \in Nat /\ n \in Nat /\ o + n <= Size[f] /\ Offset(p) + p.len = o + n
    BY <1>2, <2>1, <2>2
  <2> HIDE DEF o, n
  <2> QED BY <1>2, <1>4, <1>5, <2>3 DEF Fits
<1>7. SlotOk(s) /\ s.sequence = f /\ s.total = e.total
  <2> HIDE DEF e
  <2> QED BY <1>1, <1>6, StoreOk
<1>8. s.got = e.got \cup {i} /\ s.cap = e.cap /\ s.complete = e.complete
  <2>1. IsSlot(e)
    BY <1>1 DEF SlotOk
  <2> HIDE DEF e, p
  <2> QED BY <1>2, <2>1 DEF Store, IsSlot
<1>9. e.complete => e.received = e.total
  BY <1>2, <1>3
<1>10. e.complete => s.received = s.total
  <2>1. SUFFICES ASSUME e.complete PROVE s.received = s.total
    OBVIOUS
  <2>2. e.got = 0..e.total-1
    <3> HIDE DEF e
    <3> QED BY <1>1, <1>9, <2>1, WholeGot
  <2>3. i \in e.got
    BY <1>4, <2>2
  <2>4. s = e
    BY <1>2, <2>3 DEF Store
  <2> QED BY <1>9, <2>1, <2>4
<1> DEFINE c == s.complete \/ Completes(s)
<1>11. t.slot = [s EXCEPT !.complete = c] /\ t.done = Completes(s)
  BY <1>6 DEF Taken
<1>12. IsSlot(s)
  BY <1>7 DEF SlotOk
<1> HIDE DEF s
<1>13. /\ t.slot.sequence = s.sequence /\ t.slot.total = s.total /\ t.slot.cap = s.cap
       /\ t.slot.received = s.received /\ t.slot.got = s.got /\ t.slot.complete = c
  BY <1>11, <1>12 DEF IsSlot
<1>14. c <=> s.received = s.total
  BY <1>8, <1>10 DEF Completes
<1>15. t.done <=> c /\ ~e.complete
  BY <1>8, <1>10, <1>11 DEF Completes
<1>16. e.complete <=> (slot.sequence = f /\ slot.complete)
  BY <1>3
<1> HIDE DEF t, c, e
<1>17. t.slot.sequence = f /\ t.slot.total = TotalPackets(f) /\ t.slot.total # 0 /\ t.slot.cap >= Size[f]
  BY <1>2, <1>4, <1>5, <1>7, <1>8, <1>13
<1>18. t.slot.complete <=> t.slot.received = t.slot.total
  BY <1>13, <1>14
<1>19. t.slot.got = (IF slot.sequence = f THEN slot.got ELSE {}) \cup {i}
  BY <1>3, <1>8, <1>13
<1>20. t.done <=> t.slot.complete /\ ~(slot.sequence = f /\ slot.complete)
  BY <1>13, <1>15, <1>16
<1> QED BY <1>17, <1>18, <1>19, <1>20 DEF t, p

\* A slot never used takes no datagram of its number.
LEMMA TakenUnused ==
    ASSUME NEW slot, SlotOk(slot), NEW f \in Frames, NEW i \in 0..TotalPackets(f)-1,
           slot.sequence = f, slot.total = 0
    PROVE  LET t == Taken(slot, Packet(f, i)) IN t.slot = slot /\ ~t.done
<1> DEFINE p == Packet(f, i)
<1>1. p.seq = f /\ p.total \in Nat \ {0}
  BY PacketFields
<1>2. Enter(slot, p) = slot
  BY <1>1 DEF Enter
<1>3. ~Fits(slot, p)
  BY <1>1 DEF Fits
<1> QED BY <1>2, <1>3 DEF Taken

-----------------------------------------------------------------------------
\* A step that leaves the account of a frame alone.
LEMMA AccountKept ==
    ASSUME IInv, IInv', NEW g \in Frames, Account(g),
           SlotFor(g)' = SlotFor(g) \/ (SlotFor(g).sequence # g /\ SlotFor(g)'.sequence # g),
           arrived'[g] = arrived[g], delivered'[g] = delivered[g], newest' >= newest
    PROVE  Account(g)'
<1>1. newest \in Nat /\ newest' \in Nat /\ g \in Nat /\ g + SlotCount \in Nat
  BY SlotCountAssumption, FrameAssumption DEF IInv, Frames
<1>2. InSlot(g) /\ SlotFor(g)' = SlotFor(g) => InSlot(g)'
  BY DEF InSlot
<1>3. Unusable(g) /\ SlotFor(g)' = SlotFor(g) => Unusable(g)'
  BY DEF Unusable
<1>4. Passed(g) => Passed(g)'
  BY <1>1 DEF Passed
<1>5. Untaken(g) => Untaken(g)'
  BY DEF Untaken
<1>6. arrived'[g] # {} => newest' >= g
  BY <1>1 DEF Account
<1> QED BY <1>2, <1>3, <1>4, <1>5, <1>6 DEF Account

\* A frame that loses its slot to a newer one is passed.
LEMMA GivenUp ==
    ASSUME IInv, AInv, NEW g \in Frames, SlotFor(g).sequence = g, InSlot(g)
    PROVE  /\ delivered[g] <= 1
           /\ arrived[g] = 0..TotalPackets(g)-1 => delivered[g] = 1
<1> DEFINE s == SlotFor(g)
<1>1. SlotOk(s)
  <2>1. g % SlotCount \in 0..SlotCount-1
    BY SlotCountAssumption, FrameAssumption DEF Frames
  <2> QED BY <2>1 DEF SlotFor, IInv
<1>2. /\ s.sequence = g /\ s.total # 0 /\ s.got = arrived[g]
      /\ s.complete <=> s.received = s.total
      /\ delivered[g] = IF s.complete THEN 1 ELSE 0
  BY DEF InSlot
<1>3. s.total = TotalPackets(g)
  BY <1>1, <1>2 DEF SlotOk, Holds
<1> HIDE DEF s
<1>4. s.received = s.total <=> s.got = 0..s.total-1
  BY <1>1, WholeGot
<1> QED BY <1>2, <1>3, <1>4

LEMMA ReceiveAccount ==
    ASSUME IInv, AInv, UnusedInv, MaxLate <= SlotCount,
           NEW d \in net, NEW again \in BOOLEAN, Receive(d[1], d[2], again)
    PROVE  AInv' /\ UnusedInv'
<1> DEFINE f == d[1]
           i == d[2]
           p == Packet(f, i)
           j == f % SlotCount
           t == Taken(slots[j], p)
<1>1. f \in Frames /\ i \in 0..TotalPackets(f)-1 /\ f \in Nat /\ i \in Nat
  BY FrameAssumption DEF IInv, NetOk, Frames
<1>2. /\ SlotOf(p) = j /\ j \in 0..SlotCount-1
      /\ TotalPackets(f) \in Nat /\ MaxPackets \in Nat
  <2>1. p.total = TotalPackets(f) /\ p.total \in Nat /\ SlotOf(p) = j
    BY <1>1, PacketFields DEF SlotOf
  <2> QED BY <1>1, <2>1, SlotCountAssumption, MaxPacketsAssumption
<1>3. IInv'
  BY ReceiveInv
<1>4. Plausible(p) <=> TotalPackets(f) <= MaxPackets
  <2>1. p.total = TotalPackets(f) /\ p.total \in Nat \ {0} /\ p.idx = i /\ p.chunk = MaxDataSize
    BY <1>1, PacketFields
  <2>2. MaxDataSize \in Nat \ {0} /\ MaxPackets \in Nat
    BY SizeAssumption, MaxPacketsAssumption
  <2> HIDE DEF p
  <2> QED BY <1>1, <2>1, <2>2 DEF Plausible
<1>5. SlotOk(slots[j])
  BY <1>2 DEF IInv
<1> HIDE DEF p
<1>6. /\ slots' = IF Plausible(p) THEN [slots EXCEPT ![j] = t.slot] ELSE slots
      /\ arrived' = [arrived EXCEPT ![f] = @ \cup {i}]
      /\ delivered' = IF Plausible(p) /\ t.done /\ delivered[f] < 2
                      THEN [delivered EXCEPT ![f] = @ + 1] ELSE delivered
      /\ newest' = Larger(newest, f) /\ newest < f + MaxLate
  BY <1>2 DEF Receive, UdpReceive, Returns, p
<1>7. /\ newest \in Nat /\ newest' \in Nat /\ newest' >= newest /\ newest' >= f
      /\ newest < f + SlotCount
  <2>1. SlotCount \in Nat /\ MaxLate \in Nat /\ newest \in Nat
    BY SlotCountAssumption, MaxLateAssumption, FrameAssumption DEF IInv, Frames
  <2> HIDE DEF f
  <2> QED BY <1>1, <1>6, <2>1 DEF Larger
<1>8. ~Passed(f)
  BY <1>1, <1>7, SlotCountAssumption DEF Passed
<1>9. SlotFor(f) = slots[j]
  BY DEF SlotFor
<1>10. /\ arrived \in [Frames -> SUBSET Nat] /\ delivered \in [Frames -> 0..2]
       /\ slots = [k \in 0..SlotCount-1 |-> slots[k]]
  BY DEF IInv
<1>11. ASSUME NEW g \in Frames, g # f PROVE arrived'[g] = arrived[g] /\ delivered'[g] = delivered[g]
  BY <1>1, <1>6, <1>10, <1>11
<1>12. ASSUME NEW g \in Frames PROVE g \in Nat /\ g % SlotCount \in 0..SlotCount-1
  BY SlotCountAssumption, FrameAssumption DEF Frames
<1>13. arrived'[f] = arrived[f] \cup {i}
  BY <1>1, <1>6, <1>10
<1>14. CASE ~Plausible(p)
  <2>1. slots' = slots /\ delivered' = delivered /\ TotalPackets(f) > MaxPackets
    BY <1>2, <1>4, <1>6, <1>14
  <2>2. ASSUME NEW g \in Frames, g # f PROVE Account(g)'
    BY <1>3, <1>7, <1>11, <2>1, <2>2, AccountKept DEF AInv, SlotFor
  <2>3. Account(f)'
    <3>1. ~(SlotFor(f).sequence = f /\ InSlot(f))
      <4>1. SUFFICES ASSUME SlotFor(f).sequence = f, InSlot(f) PROVE FALSE
        OBVIOUS
      <4>2. slots[j].total = TotalPackets(f) /\ slots[j].total <= MaxPackets
        BY <1>5, <1>9, <4>1 DEF InSlot, SlotOk, Holds
      <4> QED BY <1>2, <2>1, <4>2
    <3>2. Account(f)
      BY <1>1 DEF AInv
    <3>3. SlotFor(f)' = SlotFor(f) /\ delivered'[f] = delivered[f]
      BY <2>1 DEF SlotFor
    <3>4. SlotFor(f).sequence = f => Unusable(f)'
      BY <3>1, <3>2, <3>3 DEF Account, Unusable
    <3>5. SlotFor(f).sequence # f => Untaken(f)'
      BY <1>8, <2>1, <3>2, <3>3 DEF Account, Untaken
    <3> QED BY <1>7, <3>3, <3>4, <3>5 DEF Account
  <2> QED BY <2>1, <2>2, <2>3 DEF AInv, UnusedInv
<1>15. CASE Plausible(p) /\ slots[j].sequence = f /\ Unusable(f)
  <2>1. t.slot = slots[j] /\ ~t.done
    <3>1. slots[j].total = 0 /\ slots[j].sequence = f
      BY <1>9, <1>15 DEF Unusable
    <3> QED BY <1>1, <1>5, <3>1, TakenUnused DEF p
  <2>2. slots' = slots /\ delivered' = delivered
    BY <1>2, <1>6, <1>10, <1>15, <2>1
  <2>3. ASSUME NEW g \in Frames, g # f PROVE Account(g)'
    BY <1>3, <1>7, <1>11, <2>2, <2>3, AccountKept DEF AInv, SlotFor
  <2>4. Account(f)'
    <3>1. SlotFor(f)' = SlotFor(f) /\ Unusable(f)' /\ SlotFor(f).sequence = f
      BY <1>9, <1>15, <2>2 DEF Unusable, SlotFor
    <3> QED BY <1>7, <3>1 DEF Account
  <2> QED BY <2>2, <2>3, <2>4 DEF AInv, UnusedInv
<1>16. CASE Plausible(p) /\ ~(slots[j].sequence = f /\ Unusable(f))
  <2> DEFINE mine == slots[j].sequence = f
  <2>1. mine => InSlot(f)
    BY <1>1, <1>9, <1>16 DEF AInv, Account
  <2>2. ~mine => arrived[f] = {} /\ delivered[f] = 0
    <3>1. ~(TotalPackets(f) > MaxPackets)
      BY <1>2, <1>4, <1>16
    <3> QED BY <1>1, <1>8, <1>9, <3>1 DEF AInv, Account, Untaken
  <2>3. /\ t.slot.sequence = f /\ t.slot.total = TotalPackets(f) /\ t.slot.total # 0
        /\ t.slot.cap >= Size[f]
        /\ t.slot.complete <=> t.slot.received = t.slot.total
        /\ t.slot.got = (IF mine THEN slots[j].got ELSE {}) \cup {i}
        /\ t.done <=> t.slot.complete /\ ~(mine /\ slots[j].complete)
    <3>1. mine => slots[j].total # 0 /\ slots[j].cap >= Size[f]
                  /\ (slots[j].complete <=> slots[j].received = slots[j].total)
      BY <1>9, <2>1 DEF InSlot
    <3> QED BY <1>1, <1>5, <3>1, TakenCounts DEF p
  <2>4. SlotOk(t.slot)
    BY <1>1, <1>5, TakenOk DEF p
  <2>5. slots' = [slots EXCEPT ![j] = t.slot]
    BY <1>6, <1>16
  <2> HIDE DEF t
  <2>6. /\ slots'[j] = t.slot
        /\ \A k \in 0..SlotCount-1 : k # j => slots'[k] = slots[k]
    BY <1>2, <1>10, <2>5
  <2>7. UnusedInv'
    BY <2>3, <2>6 DEF UnusedInv
  <2>8. InSlot(f)'
    <3>1. SlotFor(f)' = t.slot
      BY <2>6 DEF SlotFor
    <3>2. t.slot.got = arrived'[f] /\ arrived'[f] # {}
      <4>1. mine => slots[j].got = arrived[f]
        BY <1>9, <2>1 DEF InSlot
      <4> QED BY <1>13, <2>2, <2>3, <4>1
    <3>3. mine /\ slots[j].complete => t.slot.complete
      <4>1. SUFFICES ASSUME mine, slots[j].complete PROVE t.slot.complete
        OBVIOUS
      <4>2. slots[j].received = slots[j].total /\ slots[j].total = TotalPackets(f)
        BY <1>5, <1>9, <2>1, <4>1 DEF InSlot, SlotOk, Holds
      <4>3. slots[j].got = 0..TotalPackets(f)-1
        BY <1>5, <4>2, WholeGot
      <4>4. t.slot.got = 0..t.slot.total-1
        BY <1>1, <2>3, <4>1, <4>3
      <4>5. t.slot.received = t.slot.total
        BY <2>4, <4>4, WholeGot
      <4> QED BY <2>3, <4>5
    <3>4. delivered[f] = IF mine /\ slots[j].complete THEN 1 ELSE 0
      <4>1. mine => delivered[f] = IF slots[j].complete THEN 1 ELSE 0
        BY <1>9, <2>1 DEF InSlot
      <4> QED BY <2>2, <4>1
    <3>5. delivered'[f] = IF t.slot.complete THEN 1 ELSE 0
      <4>1. delivered' = IF t.done THEN [delivered EXCEPT ![f] = @ + 1] ELSE delivered
        BY <1>6, <1>16, <3>4
      <4>2. delivered'[f] = IF t.done THEN delivered[f] + 1 ELSE delivered[f]
        BY <1>1, <1>10, <4>1
      <4>3. CASE mine /\ slots[j].complete
        BY <2>3, <3>3, <3>4, <4>2, <4>3
      <4>4. CASE ~(mine /\ slots[j].complete)
        BY <2>3, <3>4, <4>2, <4>4
      <4> QED BY <4>3, <4>4
    <3> QED BY <1>4, <1>16, <2>3, <3>1, <3>2, <3>5 DEF InSlot
  <2>9. Account(f)'
    <3>1. SlotFor(f)'.sequence = f
      BY <2>3, <2>6 DEF SlotFor
    <3> QED BY <1>7, <2>8, <3>1 DEF Account
  <2>10. ASSUME NEW g \in Frames, g # f PROVE Account(g)'
    <3>1. Account(g) /\ arrived'[g] = arrived[g] /\ delivered'[g] = delivered[g]
      BY <1>11, <2>10 DEF AInv
    <3>2. CASE g % SlotCount # j
      <4>1. SlotFor(g)' = SlotFor(g)
        BY <1>12, <2>6, <3>2 DEF SlotFor
      <4> QED BY <1>3, <1>7, <3>1, <4>1, AccountKept
    <3>3. CASE g % SlotCount = j /\ SlotFor(g).sequence # g
      <4>1. SlotFor(g)'.sequence # g
        BY <2>3, <2>6, <2>10, <3>3 DEF SlotFor
      <4> QED BY <1>3, <1>7, <3>1, <3>3, <4>1, AccountKept
    <3>4. CASE g % SlotCount = j /\ SlotFor(g).sequence = g
      <4>1. SlotFor(g)'.sequence # g
        BY <2>3, <2>6, <2>10, <3>4 DEF SlotFor
      <4>2. g < f => newest' >= g + SlotCount
        <5>1. g < f => g + SlotCount <= f
          BY <1>1, <1>12, <3>4, SameSlot
        <5> QED BY <1>1, <1>7, <1>12, <5>1, SlotCountAssumption
      <4>3. g > f => arrived[g] = {}
        <5>1. g > f => f + SlotCount <= g
          BY <1>1, <1>12, <3>4, SameSlot
        <5>2. arrived[g] # {} => newest >= g
          BY <3>1 DEF Account
        <5> QED BY <1>1, <1>7, <1>12, <5>1, <5>2, SlotCountAssumption
      <4>4. CASE InSlot(g)
        <5>1. g < f
          BY <1>1, <1>12, <2>10, <4>3, <4>4 DEF InSlot
        <5>2. Passed(g)'
          BY <3>1, <3>4, <4>2, <4>4, <5>1, GivenUp DEF Passed
        <5> QED BY <1>7, <3>1, <4>1, <4>2, <5>1, <5>2, <1>12, SlotCountAssumption DEF Account
      <4>5. CASE Unusable(g)
        <5>1. g > f
          BY <1>1, <1>12, <2>10, <4>5, FrameAssumption DEF Unusable, Frames
        <5>2. Untaken(g)' /\ arrived'[g] = {}
          BY <3>1, <4>3, <4>5, <5>1 DEF Unusable, Untaken
        <5> QED BY <4>1, <5>2 DEF Account
      <4> QED BY <3>1, <3>4, <4>4, <4>5 DEF Account
    <3> QED BY <3>2, <3>3, <3>4
  <2> QED BY <2>7, <2>9, <2>10 DEF AInv
<1> QED BY <1>14, <1>15, <1>16

LEMMA InitAccount == Init => AInv /\ UnusedInv
<1> SUFFICES ASSUME Init PROVE AInv /\ UnusedInv
  OBVIOUS
<1>1. \A k \in 0..SlotCount-1 : slots[k] = NewSlot
  BY DEF Init, UdpInit
<1>2. UnusedInv
  BY <1>1 DEF UnusedInv, NewSlot
<1>3. ASSUME NEW f \in Frames PROVE Account(f)
  <2>1. f % SlotCount \in 0..SlotCount-1
    BY SlotCountAssumption, FrameAssumption DEF Frames
  <2>2. SlotFor(f) = NewSlot
    BY <1>1, <2>1 DEF SlotFor
  <2>3. arrived[f] = {} /\ delivered[f] = 0
    BY DEF Init, NoHistory
  <2> QED BY <2>2, <2>3 DEF Account, Unusable, Untaken, NewSlot
<1> QED BY <1>2, <1>3 DEF AInv

\* The slots and the history are cleared together, or not at all.
LEMMA ControlAccount ==
    ASSUME AInv, UnusedInv, Restart \/ Close
    PROVE  AInv' /\ UnusedInv'
<1>1. CASE slots' = [k \in 0..SlotCount-1 |-> NewSlot]
           /\ arrived' = [f \in Frames |-> {}] /\ delivered' = [f \in Frames |-> 0]
  <2>1. UnusedInv'
    BY <1>1 DEF UnusedInv, NewSlot
  <2>2. ASSUME NEW f \in Frames PROVE Account(f)'
    <3>1. f % SlotCount \in 0..SlotCount-1
      BY SlotCountAssumption, FrameAssumption DEF Frames
    <3>2. SlotFor(f)' = NewSlot /\ arrived'[f] = {} /\ delivered'[f] = 0
      BY <1>1, <3>1 DEF SlotFor
    <3> QED BY <3>2 DEF Account, Unusable, Untaken, NewSlot
  <2> QED BY <2>1, <2>2 DEF AInv
<1>2. CASE UNCHANGED <<slots, history>>
  BY <1>2 DEF AInv, UnusedInv, Account, SlotFor, InSlot, Unusable, Passed, Untaken, history
<1> QED BY <1>1, <1>2 DEF Restart, Close, UdpStart, UdpStop

\* When no datagram comes after one of the next frame of its slot, each frame
\* of which all datagrams came is returned, and none is returned twice, for any
\* number of slots.
THEOREM FramesReturnedOnce ==
    ASSUME MaxLate <= SlotCount
    PROVE  Spec => []EachFrameOnce
<1> DEFINE Inv == IInv /\ AInv /\ UnusedInv
<1>1. Init => Inv
  BY InitInv, InitAccount
<1>2. Inv /\ [Next]_vars => Inv'
  <2> SUFFICES ASSUME Inv, [Next]_vars PROVE AInv' /\ UnusedInv'
    BY NextInv
  <2>1. CASE Send \/ SendFails \/ UNCHANGED vars
    <3>1. UNCHANGED <<slots, history>>
      BY <2>1 DEF Send, SendFails, vars, uvars, history
    <3> QED BY <3>1 DEF AInv, UnusedInv, Account, SlotFor, InSlot, Unusable, Passed, Untaken, history
  <2>2. CASE Restart \/ Close
    BY <2>2, ControlAccount
  <2>3. CASE \E d \in net, again \in BOOLEAN : Receive(d[1], d[2], again)
    BY <2>3, ReceiveAccount
  <2> QED BY <2>1, <2>2, <2>3 DEF Next
<1>3. Inv => EachFrameOnce
  <2> SUFFICES ASSUME Inv, NEW f \in Frames
               PROVE  /\ delivered[f] <= 1
                      /\ (/\ arrived[f] = 0..TotalPackets(f)-1 /\ arrived[f] # {}
                          /\ TotalPackets(f) <= MaxPackets
                          /\ f # UintMax) => delivered[f] = 1
    BY DEF EachFrameOnce
  <2>1. CASE SlotFor(f).sequence = f /\ InSlot(f)
    BY <2>1, GivenUp
  <2>2. CASE SlotFor(f).sequence = f /\ Unusable(f)
    BY <2>2 DEF Unusable
  <2>3. CASE SlotFor(f).sequence # f /\ Passed(f)
    BY <2>3 DEF Passed
  <2>4. CASE SlotFor(f).sequence # f /\ Untaken(f)
    <3>1. TotalPackets(f) \in Nat /\ MaxPackets \in Nat
      BY SizeAssumption, FrameAssumption, MaxPacketsAssumption, Quotient DEF TotalPackets, Frames
    <3> QED BY <2>4, <3>1 DEF Untaken
  <2> QED BY <2>1, <2>2, <2>3, <2>4 DEF AInv, Account
<1> QED BY <1>1, <1>2, <1>3, PTL DEF Spec

-----------------------------------------------------------------------------
(***************************************************************************)
(* Pictures.  Where a sample is in a plane whose rows are longer than the  *)
(* samples that count.                                                     *)
(***************************************************************************)
\* The row and the column of a place.
LEMMA DivRow ==
    ASSUME NEW w \in Nat, NEW r \in Nat, NEW c \in Nat, c < w
    PROVE  (r * w + c) \div w = r /\ (r * w + c) % w = c
<1> DEFINE k == r * w + c
           q == k \div w
           m == k % w
<1>1. w > 0 /\ k \in Nat
  OBVIOUS
<1>2. q \in Int /\ m \in 0..w-1 /\ k = q * w + m
  BY <1>1
<1>3. (q - r) * w = c - m
  BY <1>2
<1>4. c - m < w /\ m - c < w
  BY <1>2
<1>5. q - r = 0
  <2>1. q - r >= 1 => (q - r) * w >= w
    BY <1>1, <1>2
  <2>2. q - r <= -1 => (q - r) * w <= -w
    BY <1>1, <1>2
  <2> QED
    BY <1>2, <1>3, <1>4, <2>1, <2>2
<1> QED
  BY <1>2, <1>3, <1>5

\* A place in a table of rows of w, whose last row ends after e.
LEMMA InRows ==
    ASSUME NEW w \in Nat, NEW h \in Nat, NEW e \in Nat, NEW r \in Nat, NEW c \in Nat,
           r < h, c <= e
    PROVE  r * w + c \in 0 .. (h - 1) * w + e
<1>1. r * w \in Nat /\ (h - 1) * w \in Nat
  BY Products
<1>2. r * w <= (h - 1) * w
  <2>1. PICK d \in Nat : h - 1 = r + d
    OBVIOUS
  <2>2. (h - 1) * w = r * w + d * w /\ d * w \in Nat
    BY <2>1
  <2> QED BY <1>1, <2>2
<1> DEFINE a == r * w
           b == (h - 1) * w
<1>3. a \in Nat /\ b \in Nat /\ a <= b
  BY <1>1, <1>2
<1> HIDE DEF a, b
<1>4. a + c \in 0 .. b + e
  BY <1>3
<1> QED BY <1>4 DEF a, b

\* How the samples of a plane lie in it.
Step(image, plane) == IF plane = "Y" THEN 1 ELSE image.uvStep
Stride(image, plane) == IF plane = "Y" THEN image.yStride ELSE image.uvStride
Width(image, plane) == IF plane = "Y" THEN image.width ELSE image.width \div 2
Height(image, plane) == IF plane = "Y" THEN image.height ELSE image.height \div 2

LEMMA CameraSample ==
    ASSUME NEW image, NEW plane,
           Step(image, plane) \in {1, 2}, Stride(image, plane) \in Nat,
           Width(image, plane) \in Nat, Height(image, plane) \in Nat,
           Stride(image, plane) >= Step(image, plane) * Width(image, plane),
           NEW r \in Nat, NEW c \in Nat, r < Height(image, plane), c < Width(image, plane)
    PROVE  At(CameraPlane(image, plane), r * Stride(image, plane) + c * Step(image, plane))
           = <<plane, r, c>>
<1> DEFINE step == Step(image, plane)
           stride == Stride(image, plane)
           width == Width(image, plane)
           height == Height(image, plane)
           k == r * stride + c * step
           last == (height - 1) * stride + (width - 1) * step
           buffer == [n \in 0 .. last |->
                        IF (n % stride) % step = 0 /\ (n % stride) \div step < width
                        THEN <<plane, n \div stride, (n % stride) \div step>>
                        ELSE Between]
<1>1. CameraPlane(image, plane) = buffer
  BY DEF CameraPlane, Step, Stride, Width, Height
<1>2. /\ step \in {1, 2} /\ stride \in Nat /\ width \in Nat /\ height \in Nat
      /\ stride >= step * width /\ r < height /\ c < width
  OBVIOUS
<1> HIDE DEF step, stride, width, height
<1>3. /\ c * step \in Nat /\ c * step < stride /\ c * step <= (width - 1) * step
      /\ (width - 1) * step \in Nat
  BY <1>2, SMT
<1>4. k \in 0 .. last
  BY <1>2, <1>3, InRows
<1>5. k \div stride = r /\ k % stride = c * step
  BY <1>2, <1>3, DivRow
<1>6. (c * step) % step = 0 /\ (c * step) \div step = c
  BY <1>2, SMT
<1> HIDE DEF k, last
<1>7. buffer[k] = <<plane, r, c>>
  BY <1>2, <1>4, <1>5, <1>6
<1> HIDE DEF buffer
<1>8. DOMAIN buffer = 0 .. last
  BY DEF buffer
<1>9. At(buffer, k) = <<plane, r, c>>
  BY <1>4, <1>7, <1>8 DEF At
<1> QED BY <1>1, <1>9 DEF k, step, stride

\* What the description of an image says, when its size is even.
EvenImage(image) ==
    /\ image.width \in Nat /\ image.height \in Nat
    /\ image.yStride \in Nat /\ image.uvStride \in Nat /\ image.uvStep \in {1, 2}
    /\ image.width > 1 /\ image.height > 1
    /\ image.width % 2 = 0 /\ image.height % 2 = 0
    /\ image.yStride >= image.width
    /\ image.uvStride >= image.uvStep * (image.width \div 2)

\* Two by two pixels share a chroma sample, and none is beyond an even size.
LEMMA Halves ==
    ASSUME NEW n \in Nat, n % 2 = 0, NEW k \in Nat, k < n
    PROVE  k \div 2 \in Nat /\ n \div 2 \in Nat /\ k \div 2 < n \div 2
BY SMT

\* The chroma sample that TurboJPEG reads, interleaved with the other plane's or not.
LEMMA ChromaSample ==
    ASSUME NEW image, EvenImage(image), NEW plane \in {"U", "V"},
           NEW r \in Nat, NEW c \in Nat, r < ChromaH(image), c < ChromaW(image)
    PROVE  At(SrcPlane(image, plane), r * SrcStride(image, plane) + c) = <<plane, r, c>>
<1> DEFINE w == image.width \div 2
           h == image.height \div 2
<1>1. w \in Nat /\ h \in Nat /\ r < h /\ c < w /\ plane # "Y"
  BY DEF EvenImage, ChromaW, ChromaH
<1>2. image.uvStride \in Nat /\ image.uvStep \in {1, 2} /\ image.uvStride >= image.uvStep * w
  BY DEF EvenImage
<1>3. At(CameraPlane(image, plane), r * image.uvStride + c * image.uvStep) = <<plane, r, c>>
  <2>1. /\ Step(image, plane) = image.uvStep /\ Stride(image, plane) = image.uvStride
        /\ Width(image, plane) = w /\ Height(image, plane) = h
    BY <1>1 DEF Step, Stride, Width, Height
  <2> HIDE DEF w, h
  <2> QED BY <1>1, <1>2, <2>1, CameraSample
<1>4. CASE image.uvStep = 1
  <2>1. SrcPlane(image, plane) = CameraPlane(image, plane)
    BY <1>4 DEF SrcPlane
  <2>2. SrcStride(image, plane) = image.uvStride
    BY <1>1, <1>4 DEF SrcStride
  <2> QED BY <1>3, <1>4, <2>1, <2>2
<1>5. CASE image.uvStep = 2
  <2>1. SrcPlane(image, plane) = Deinterleave(image, plane)
    BY <1>1, <1>5 DEF SrcPlane
  <2>2. SrcStride(image, plane) = w
    BY <1>1, <1>5 DEF SrcStride, ChromaW
  <2> DEFINE k == r * w + c
             copy == [n \in 0 .. w * h - 1 |->
                        At(CameraPlane(image, plane), (n \div w) * image.uvStride + (n % w) * 2)]
  <2>3. Deinterleave(image, plane) = copy
    BY DEF Deinterleave, ChromaW, ChromaH
  <2>4. k \in 0 .. w * h - 1
    <3>1. k \in 0 .. (h - 1) * w + (w - 1)
      <4>1. w - 1 \in Nat /\ c <= w - 1
        BY <1>1
      <4> HIDE DEF w, h
      <4> QED BY <1>1, <4>1, InRows
    <3>2. (h - 1) * w + (w - 1) = w * h - 1
      <4> HIDE DEF w, h
      <4> QED BY <1>1
    <3> QED BY <3>1, <3>2
  <2>5. k \div w = r /\ k % w = c
    <3> HIDE DEF w, h
    <3> QED BY <1>1, DivRow
  <2> HIDE DEF k, w, h
  <2>6. copy[k] = At(CameraPlane(image, plane), r * image.uvStride + c * 2)
    BY <2>4, <2>5
  <2>7. copy[k] = <<plane, r, c>> /\ DOMAIN copy = 0 .. w * h - 1
    BY <1>3, <1>5, <2>6
  <2> HIDE DEF copy
  <2>8. At(copy, k) = <<plane, r, c>>
    BY <2>4, <2>7 DEF At
  <2> QED BY <2>1, <2>2, <2>3, <2>8 DEF k
<1> QED BY <1>2, <1>4, <1>5

\* The pixel that TurboJPEG makes is the camera's.
LEMMA CompressedPixel ==
    ASSUME NEW image, EvenImage(image),
           NEW row \in 0 .. image.height - 1, NEW column \in 0 .. image.width - 1
    PROVE  Compressed(image).pixel[<<row, column>>] = CameraPixel(image, row, column)
<1>1. row \in Nat /\ column \in Nat /\ row < image.height /\ column < image.width
  BY DEF EvenImage
<1>2. At(SrcPlane(image, "Y"), row * SrcStride(image, "Y") + column) = <<"Y", row, column>>
  <2>1. SrcPlane(image, "Y") = CameraPlane(image, "Y") /\ SrcStride(image, "Y") = image.yStride
    BY DEF SrcPlane, SrcStride
  <2>2. At(CameraPlane(image, "Y"), row * image.yStride + column * 1) = <<"Y", row, column>>
    <3>1. /\ Step(image, "Y") = 1 /\ Stride(image, "Y") = image.yStride
          /\ Width(image, "Y") = image.width /\ Height(image, "Y") = image.height
      BY DEF Step, Stride, Width, Height
    <3>2. /\ image.width \in Nat /\ image.height \in Nat /\ image.yStride \in Nat
          /\ image.yStride >= 1 * image.width
      BY DEF EvenImage
    <3> QED BY <1>1, <3>1, <3>2, CameraSample
  <2> QED BY <1>1, <2>1, <2>2
<1>3. ASSUME NEW plane \in {"U", "V"}
      PROVE  At(SrcPlane(image, plane),
                (row \div 2) * SrcStride(image, plane) + column \div 2)
             = <<plane, row \div 2, column \div 2>>
  <2> DEFINE r == row \div 2
             c == column \div 2
  <2>1. r \in Nat /\ c \in Nat /\ r < ChromaH(image) /\ c < ChromaW(image)
    BY <1>1, Halves DEF EvenImage, ChromaH, ChromaW
  <2> HIDE DEF r, c
  <2>2. At(SrcPlane(image, plane), r * SrcStride(image, plane) + c) = <<plane, r, c>>
    BY <2>1, ChromaSample
  <2> QED BY <2>2 DEF r, c
<1>4. Compressed(image).pixel[<<row, column>>] =
         [plane \in Planes |->
            At(SrcPlane(image, plane),
               IF plane = "Y" THEN row * SrcStride(image, plane) + column
               ELSE (row \div 2) * SrcStride(image, plane) + column \div 2)]
  BY DEF Compressed
<1>5. ASSUME NEW plane \in Planes
      PROVE  At(SrcPlane(image, plane),
                IF plane = "Y" THEN row * SrcStride(image, plane) + column
                ELSE (row \div 2) * SrcStride(image, plane) + column \div 2)
             = IF plane = "Y" THEN <<plane, row, column>>
               ELSE <<plane, row \div 2, column \div 2>>
  <2>1. CASE plane = "Y"
    BY <1>2, <2>1
  <2>2. CASE plane \in {"U", "V"}
    BY <1>3, <2>2
  <2> QED BY <2>1, <2>2 DEF Planes
<1> QED BY <1>4, <1>5 DEF CameraPixel

\* A frame's bytes are no other frame's.
LEMMA OneJpeg ==
    ASSUME NEW f \in Frames
    PROVE  Jpeg(Bytes(f)) = Compressed(Image[f]) /\ Bytes(f) # <<>>
<1>1. ASSUME NEW g \in Frames PROVE 0 \in DOMAIN Bytes(g) /\ Bytes(g)[0] = <<g, 0>>
  <2>1. Size[g] \in Nat /\ Size[g] > 0
    BY SizeAssumption, ImageAssumption DEF Frames
  <2> QED BY <2>1 DEF Bytes, Byte
<1>2. \A g \in Frames : Bytes(f) = Bytes(g) => g = f
  BY <1>1
<1>3. (CHOOSE g \in Frames : Bytes(f) = Bytes(g)) = f
  BY <1>2
<1>4. Bytes(f) # <<>>
  BY <1>1
<1> QED BY <1>3, <1>4 DEF Jpeg

\* Of an even size, each frame that is returned shows what the camera saw, for
\* every size of images and every padding of their planes.
THEOREM PicturesAreTheCameras == Spec => []PictureIsCameras
<1>1. PictureIsCameras
  <2> SUFFICES ASSUME NEW f \in Frames, out = Bytes(f),
                      Image[f].width % 2 = 0, Image[f].height % 2 = 0,
                      NEW row \in 0 .. Image[f].height - 1,
                      NEW column \in 0 .. Image[f].width - 1
               PROVE  Decoded(out)[row * Image[f].width + column]
                      = CameraPixel(Image[f], row, column)
    BY DEF PictureIsCameras
  <2> DEFINE image == Image[f]
             jpeg == Compressed(image)
             k == row * image.width + column
  <2>1. EvenImage(image)
    BY ImageAssumption DEF EvenImage
  <2>2. image.width \in Nat \ {0} /\ image.height \in Nat \ {0}
    BY <2>1 DEF EvenImage
  <2>3. Jpeg(out) = jpeg /\ out # <<>>
    BY OneJpeg
  <2>4. jpeg.width = image.width /\ jpeg.height = image.height
    BY DEF Compressed
  <2> HIDE DEF jpeg
  <2>5. Decoded(out) = [n \in 0 .. image.width * image.height - 1 |->
                          jpeg.pixel[<<n \div image.width, n % image.width>>]]
    BY <2>2, <2>3, <2>4 DEF Decoded
  <2>6. jpeg.pixel[<<row, column>>] = CameraPixel(image, row, column)
    BY <2>1, CompressedPixel DEF jpeg
  <2> DEFINE w == image.width
             h == image.height
  <2>7. /\ w \in Nat \ {0} /\ h \in Nat \ {0} /\ row \in Nat /\ column \in Nat
        /\ row < h /\ column < w /\ column <= w - 1 /\ w - 1 \in Nat
    BY <2>2
  <2>8. k \div w = row /\ k % w = column
    <3> HIDE DEF w, h
    <3>1. (row * w + column) \div w = row /\ (row * w + column) % w = column
      BY <2>7, DivRow
    <3> QED BY <3>1 DEF w
  <2>9. k \in 0 .. w * h - 1
    <3> HIDE DEF w, h
    <3>1. row * w + column \in 0 .. (h - 1) * w + (w - 1)
      BY <2>7, InRows
    <3>2. (h - 1) * w + (w - 1) = w * h - 1
      BY <2>7
    <3> QED BY <3>1, <3>2 DEF w
  <2> HIDE DEF k, image
  <2> QED BY <2>5, <2>6, <2>8, <2>9 DEF k, image
<1> QED BY <1>1, PTL

=============================================================================
