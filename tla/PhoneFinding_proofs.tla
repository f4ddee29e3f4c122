------------------------ MODULE PhoneFinding_proofs ------------------------
(***************************************************************************)
(* Discovery, for any adapters, ports and number of registrations, and any *)
(* names that Android gives them.                                          *)
(***************************************************************************)
EXTENDS PhoneFinding, TLAPS, WellFoundedInduction, SequenceTheorems
-----------------------------------------------------------------------------
(***************************************************************************)
(* WantedAdvertised.                                                       *)
(***************************************************************************)
Registration ==
    [port: TargetPorts \cup {0}, state: {"unused", "registered", "unregistering", "gone"}]
NInv == regs \in [Regs -> Registration] /\ WantedAdvertised

\* stopAdvertising touches one registration at most.
LEMMA StopKeepsRegistrations ==
    ASSUME regs \in [Regs -> Registration]
    PROVE  StopAdvertising.regs \in [Regs -> Registration] /\ StopAdvertising.listener = 0
<1> DEFINE stopped == [regs EXCEPT ![listener].state = "unregistering"]
<1>1. /\ StopAdvertising.regs = IF listener = 0 THEN regs ELSE stopped
      /\ StopAdvertising.listener = 0
  BY DEF StopAdvertising
<1>2. stopped \in [Regs -> Registration]
  BY DEF Registration
<1> HIDE DEF stopped
<1>3. QED
  BY <1>1, <1>2

\* A step of the phone.
LEMMA NetworkKeeps ==
    ASSUME NInv, NetworkNext
    PROVE  NInv'
<1>1. CASE \E p \in TargetPorts : Advertise(p)
  <2>1. PICK p \in TargetPorts : Advertise(p)
    BY <1>1
  <2> DEFINE stopped == StopAdvertising.regs
             new == [port |-> p, state |-> "registered"]
  <2>2. stopped \in [Regs -> Registration] /\ StopAdvertising.listener = 0
    BY StopKeepsRegistrations DEF NInv
  <2>3. wanted' = p /\ \E r \in Regs : regs' = [stopped EXCEPT ![r] = new]
    BY <2>1, <2>2 DEF Advertise
  <2>4. PICK r \in Regs : regs' = [stopped EXCEPT ![r] = new]
    BY <2>3
  <2>5. new \in Registration
    BY DEF Registration
  <2> HIDE DEF stopped, new
  <2>6. regs' \in [Regs -> Registration] /\ regs'[r] = new
    BY <2>2, <2>4, <2>5
  <2>7. QED
    BY <2>3, <2>6 DEF NInv, WantedAdvertised, new
<1>2. CASE Withdraw
  BY <1>2, StopKeepsRegistrations DEF Withdraw, NInv, WantedAdvertised
<1>3. CASE OnServiceUnregistered
  <2>1. PICK r \in Regs : /\ regs[r].state = "unregistering"
                          /\ regs' = [regs EXCEPT ![r].state = "gone"]
    BY <1>3 DEF OnServiceUnregistered
  <2>2. regs' \in [Regs -> Registration]
    BY <2>1 DEF NInv, Registration
  <2>3. \A q \in Regs : regs[q].state = "registered" => regs'[q] = regs[q]
    BY <2>1 DEF NInv
  <2>4. wanted' = wanted
    BY <1>3 DEF OnServiceUnregistered
  <2>5. QED
    BY <2>2, <2>3, <2>4 DEF NInv, WantedAdvertised
<1>4. QED
  BY <1>1, <1>2, <1>3 DEF NetworkNext

\* The port that was set last is advertised, in whatever order NsdManager reports the
\* end of however many old registrations.
THEOREM WantedIsAdvertised == Spec => []WantedAdvertised
<1>1. Init => NInv
  BY DEF Init, NetworkInit, NInv, Registration, WantedAdvertised
<1>2. NInv /\ [Next]_vars => NInv'
  <2> SUFFICES ASSUME NInv, [Next]_vars PROVE NInv'
    OBVIOUS
  <2>1. CASE PhoneSteps
    BY <2>1, NetworkKeeps DEF PhoneSteps
  <2>2. CASE UNCHANGED nvars
    BY <2>2 DEF nvars, NInv, WantedAdvertised
  <2>3. ThreadSteps \/ Clears \/ TimePasses \/ Controls \/ NetworkSteps \/ UNCHANGED vars
            => UNCHANGED nvars
    BY DEF ThreadSteps, Thread, Clears, TimePasses, Controls, NetworkSteps,
           Answer, Announce, Respond, LoseQuery, vars
  <2>4. QED
    BY <2>1, <2>2, <2>3 DEF Next
<1>3. NInv => WantedAdvertised
  BY DEF NInv
<1>4. QED
  BY <1>1, <1>2, <1>3, PTL DEF Spec

-----------------------------------------------------------------------------
(***************************************************************************)
(* Debounced.  While a service is on record, its age is the time since the *)
(* last acceptance; what the check of the debounce found stays true until  *)
(* the service is accepted, for the thread does not wait in between.       *)
(***************************************************************************)
Accepting == pc \in {"accept1", "accept2"}

OnRecord == lastHost # NoService /\ age = quiet /\ lastTaken = <<lastHost, lastPort>>

MayAccept == quiet >= Debounce /\ (lastTaken = <<targetHost, port>> => quiet >= StaleAfter)

DInv ==
    /\ quiet \in 0..StaleAfter /\ age \in 0..StaleAfter
    /\ ~Accepting /\ quiet < StaleAfter => OnRecord
    /\ Accepting /\ ~handled => MayAccept
    /\ pc = "accept2" => lastHost \in {targetHost, NoService}

\* A step of the thread that neither accepts a service nor is past accepting one.
LEMMA AsideKeeps ==
    ASSUME DInv, ~Accepting, ~Accepting', UNCHANGED <<quiet, lastTaken, last>>
    PROVE  DInv'
BY DEF DInv, Accepting, OnRecord, last

LEMMA ThreadKeeps ==
    ASSUME DInv, ThreadSteps
    PROVE  DInv'
<1>1. PICK found \in Lookups : ThreadNext(found)
  BY DEF ThreadSteps, Thread
<1>2. ~Accepts => UNCHANGED <<quiet, lastTaken>>
  BY DEF ThreadSteps
<1>3. CASE \/ OpenSocket \/ Query \/ LeaveLoop \/ ReadPtr \/ ReadSrv \/ ReadOther
           \/ Lookup(found) \/ CallbackPauses \/ CallbackEnds
  <2>1. ~Accepting /\ ~Accepting' /\ ~Accepts /\ UNCHANGED last
    BY <1>3 DEF OpenSocket, Query, LeaveLoop, ReadPtr, ReadSrv, ReadOther, Lookup, CallbackPauses,
                CallbackEnds, AtRecord, Accepting, Accepts
  <2>2. QED
    BY <1>2, <2>1, AsideKeeps
<1>4. CASE ReadA
  <2>1. /\ ~Accepting /\ UNCHANGED last /\ ~Accepts
        /\ UNCHANGED pc \/ (pc' = "accept1" /\ handled')
    BY <1>4 DEF ReadA, AtRecord, Accepting, Accepts
  <2>2. QED
    BY <1>2, <2>1 DEF DInv, Accepting, OnRecord, last
<1>5. CASE AfterRecords
  <2>1. ~Accepting /\ UNCHANGED last /\ ~Accepts
    BY <1>5 DEF AfterRecords, Accepting, Accepts
  <2>2. CASE pc' = "select"
    BY <1>2, <2>1, <2>2, AsideKeeps DEF Accepting
  <2>3. CASE pc' # "select"
    <3>1. pc' = "accept1" /\ ~Suppressed /\ UNCHANGED <<port, targetHost>>
      BY <1>5, <2>3 DEF AfterRecords, body
    <3>2. MayAccept
      BY <2>1, <3>1 DEF DInv, OnRecord, Suppressed, MayAccept, StaleAfter, Debounce
    <3>3. MayAccept'
      BY <1>2, <2>1, <3>1, <3>2 DEF MayAccept
    <3>4. QED
      BY <1>2, <2>1, <3>1, <3>3 DEF DInv, Accepting, last
  <2>4. QED
    BY <2>2, <2>3
<1>6. CASE AcceptHost
  <2>1. /\ Accepting /\ Accepting' /\ ~Accepts /\ lastHost' = targetHost
        /\ UNCHANGED <<age, handled, port, targetHost>>
    BY <1>6 DEF AcceptHost, Accepting, Accepts, body
  <2>2. QED
    BY <1>2, <2>1 DEF DInv, MayAccept
<1>7. CASE AcceptPort
  <2>1. /\ pc = "accept2" /\ ~Accepting' /\ Accepts /\ pc' # "accept2"
        /\ age' = 0 /\ lastPort' = port /\ lastHost' = lastHost
    BY <1>7 DEF AcceptPort, Accepting, Accepts
  <2>2. /\ quiet' = IF lastHost = NoService THEN StaleAfter ELSE 0
        /\ lastTaken' = IF quiet' < StaleAfter THEN <<targetHost, port>> ELSE <<>>
    BY <2>1 DEF ThreadSteps
  <2>3. QED
    BY <2>1, <2>2 DEF DInv, OnRecord, StaleAfter
<1>8. QED
  BY <1>1, <1>3, <1>4, <1>5, <1>6, <1>7 DEF ThreadNext

LEMMA DebounceInvariant == Spec => []DInv
<1>1. Init => DInv
  BY DEF Init, MdnsInit, DInv, Accepting, StaleAfter
<1>2. DInv /\ [Next]_vars => DInv'
  <2> SUFFICES ASSUME DInv, [Next]_vars PROVE DInv'
    OBVIOUS
  <2>1. CASE ThreadSteps
    BY <2>1, ThreadKeeps
  <2>2. CASE Clears
    <3>1. /\ UNCHANGED <<pc, age, handled, port, targetHost>> /\ quiet' = StaleAfter
          /\ lastHost' \in {lastHost, NoService}
      BY <2>2 DEF Clears, ClearHost, ClearPort, body, last
    <3>2. QED
      BY <3>1 DEF DInv, Accepting, MayAccept, StaleAfter, Debounce
  <2>3. CASE TimePasses
    <3>1. /\ ~Accepting /\ ~Accepting' /\ UNCHANGED <<lastHost, lastPort>>
          /\ age' = IF age < StaleAfter THEN age + 1 ELSE StaleAfter
          /\ quiet' = IF quiet < StaleAfter THEN quiet + 1 ELSE StaleAfter
          /\ lastTaken' = IF quiet' < StaleAfter THEN lastTaken ELSE <<>>
      BY <2>3 DEF TimePasses, Tick, Accepting
    <3>2. QED
      BY <3>1 DEF DInv, Accepting, OnRecord, StaleAfter
  <2>4. CASE Controls
    <3>1. CASE StartDiscovery \/ StopDiscovery
      <4>1. /\ UNCHANGED <<last, quiet, lastTaken, handled, port, targetHost>>
            /\ UNCHANGED pc \/ (~Accepting /\ ~Accepting')
        BY <2>4, <3>1 DEF Controls, StartDiscovery, StopDiscovery, JoinDiscovery, Accepting, body
      <4>2. QED
        BY <4>1 DEF DInv, Accepting, OnRecord, MayAccept, last
    <3>2. CASE JoinDiscovery
      <4>1. ~Accepting' /\ quiet' = StaleAfter /\ age' = StaleAfter /\ pc' # "accept2"
        BY <2>4, <3>2 DEF Controls, JoinDiscovery, StartDiscovery, StopDiscovery, Accepting
      <4>2. QED
        BY <4>1 DEF DInv, StaleAfter
    <3>3. QED
      BY <2>4, <3>1, <3>2 DEF Controls
  <2>5. CASE NetworkSteps
    <3>1. ~Accepting /\ ~Accepting' /\ UNCHANGED <<quiet, lastTaken, last>>
      BY <2>5 DEF NetworkSteps, Answer, Announce, Respond, TakeResponse, LoseQuery, Accepting
    <3>2. QED
      BY <3>1, AsideKeeps
  <2>6. CASE PhoneSteps \/ UNCHANGED vars
    <3>1. UNCHANGED <<mvars, quiet, lastTaken>>
      BY <2>6 DEF PhoneSteps, vars
    <3>2. QED
      BY <3>1 DEF DInv, Accepting, OnRecord, MayAccept, mvars, last, body
  <2>7. QED
    BY <2>1, <2>2, <2>3, <2>4, <2>5, <2>6 DEF Next
<1>3. QED
  BY <1>1, <1>2, PTL DEF Spec

\* The phone's SRV record without an A record is never accepted sooner after a service was
\* accepted than the debounce allows, whatever messages come, in whatever order, however
\* long a lookup or a callback takes, and whenever what was accepted is cleared.
THEOREM AcceptancesAreDebounced == Spec => Debounced
<1>1. DInv /\ [Next]_vars =>
          [Accepts /\ ~handled =>
              /\ quiet >= Debounce
              /\ lastTaken = <<targetHost, port>> => quiet >= StaleAfter]_vars
  <2> SUFFICES ASSUME DInv, Next, Accepts, ~handled
               PROVE  MayAccept
    BY DEF MayAccept
  <2>1. pc = "accept2"
    BY DEF Next, ThreadSteps, Thread, ThreadNext, OpenSocket, Query, LeaveLoop, ReadPtr, ReadSrv,
           ReadA, ReadOther, AfterRecords, AcceptHost, AcceptPort, Lookup, CallbackPauses,
           CallbackEnds, Clears, ClearHost, ClearPort, TimePasses, Tick, Controls, StartDiscovery,
           StopDiscovery, JoinDiscovery, PhoneSteps, mvars, NetworkSteps, Answer, Announce,
           Respond, TakeResponse, LoseQuery, Accepts
  <2>2. QED
    BY <2>1 DEF DInv, Accepting
<1>2. QED
  BY <1>1, DebounceInvariant, PTL DEF Spec, Debounced

-----------------------------------------------------------------------------
(***************************************************************************)
(* Induction, as a fact about sets of numbers.                             *)
(***************************************************************************)
\* A set of numbers has a least one.
LEMMA LeastNumber ==
    ASSUME NEW T, T \subseteq Nat, T # {}
    PROVE  \E m \in T : \A k \in T : m <= k
<1> DEFINE R == {ss \in Nat \X Nat : ss[1] < ss[2]}
<1>1. IsWellFoundedOn(R, Nat)
  BY NatLessThanWellFounded, Zenon DEF OpToRel
<1>2. PICK m \in T : \A k \in T : ~(<<k, m>> \in R)
  <2> HIDE DEF R
  <2> QED
    BY <1>1, WFMin
<1>3. \A k \in T : ~(k < m)
  <2>1. \A k \in T : <<k, m>> \in Nat \X Nat /\ <<k, m>>[1] = k /\ <<k, m>>[2] = m
    OBVIOUS
  <2> QED
    BY <1>2, <2>1
<1>4. QED
  BY <1>2, <1>3

\* Mathematical induction up to N, for the set of the numbers that have a property.
LEMMA InductionUpTo ==
    ASSUME NEW N \in Nat, NEW P, 0 \in P,
           \A n \in 1..N : n - 1 \in P => n \in P
    PROVE  \A n \in 0..N : n \in P
<1> DEFINE T == {n \in 0..N : n \notin P}
<1> SUFFICES ASSUME T # {} PROVE FALSE
  OBVIOUS
<1>1. T \subseteq Nat
  OBVIOUS
<1> HIDE DEF T
<1>2. PICK m \in T : \A k \in T : m <= k
  BY <1>1, LeastNumber
<1>3. m \in 1..N /\ m - 1 \in 0..N /\ m - 1 < m
  BY <1>2 DEF T
<1>4. QED
  BY <1>2, <1>3 DEF T

-----------------------------------------------------------------------------
(***************************************************************************)
(* Sequences of cells, of whatever kind.                                   *)
(***************************************************************************)
\* A sequence, of whatever cells.
AnySeq(s) == \E S : s \in Seq(S)

LEMMA AnySeqIs ==
    ASSUME NEW s, AnySeq(s)
    PROVE  Len(s) \in Nat /\ s \in [1..Len(s) -> {s[i] : i \in 1..Len(s)}]
<1>1. PICK S : s \in Seq(S)
  BY DEF AnySeq
<1>2. Len(s) \in Nat /\ s \in [1..Len(s) -> S]
  BY <1>1, LenProperties
<1>3. QED
  BY <1>2

\* What a sequence that is put together has in it.
LEMMA AnyConcat ==
    ASSUME NEW s, NEW t, AnySeq(s), AnySeq(t)
    PROVE  /\ AnySeq(s \o t)
           /\ Len(s) \in Nat /\ Len(t) \in Nat /\ Len(s \o t) = Len(s) + Len(t)
           /\ \A i \in 1..Len(s) : (s \o t)[i] = s[i]
           /\ \A i \in 1..Len(t) : (s \o t)[Len(s) + i] = t[i]
<1>1. PICK S, T : s \in Seq(S) /\ t \in Seq(T)
  BY DEF AnySeq
<1> DEFINE U == S \cup T
<1>2. s \in Seq(U) /\ t \in Seq(U)
  <2>1. S \subseteq U /\ T \subseteq U
    OBVIOUS
  <2> HIDE DEF U
  <2>2. QED
    BY <1>1, <2>1, SeqMonotonic
<1> HIDE DEF U
<1>3. /\ s \o t \in Seq(U)
      /\ Len(s \o t) = Len(s) + Len(t)
      /\ \A i \in 1 .. Len(s) + Len(t) : (s \o t)[i] = IF i <= Len(s) THEN s[i] ELSE t[i - Len(s)]
  BY <1>2, ConcatProperties
<1>4. Len(s) \in Nat /\ Len(t) \in Nat
  BY <1>2, LenProperties
<1>5. \A i \in 1..Len(s) : (s \o t)[i] = s[i]
  <2>1. \A i \in 1..Len(s) : i \in 1..Len(s) + Len(t) /\ i <= Len(s)
    BY <1>4
  <2>2. QED
    BY <1>3, <2>1
<1>6. \A i \in 1..Len(t) : (s \o t)[Len(s) + i] = t[i]
  <2>1. \A i \in 1..Len(t) : /\ Len(s) + i \in 1..Len(s) + Len(t) /\ ~(Len(s) + i <= Len(s))
                             /\ Len(s) + i - Len(s) = i
    BY <1>4
  <2>2. QED
    BY <1>3, <2>1
<1>7. QED
  BY <1>3, <1>4, <1>5, <1>6 DEF AnySeq

LEMMA AnyOne ==
    ASSUME NEW e
    PROVE  AnySeq(<<e>>) /\ Len(<<e>>) = 1 /\ <<e>>[1] = e
<1>1. <<e>> \in Seq({e})
  OBVIOUS
<1>2. QED
  BY <1>1 DEF AnySeq

LEMMA AnyAppend ==
    ASSUME NEW s, NEW e, AnySeq(s)
    PROVE  /\ AnySeq(Append(s, e))
           /\ Len(s) \in Nat /\ Len(Append(s, e)) = Len(s) + 1
           /\ \A i \in 1..Len(s) : Append(s, e)[i] = s[i]
           /\ Append(s, e)[Len(s) + 1] = e
<1>1. PICK S : s \in Seq(S)
  BY DEF AnySeq
<1> DEFINE U == S \cup {e}
<1>2. s \in Seq(U)
  <2>1. S \subseteq U
    OBVIOUS
  <2> HIDE DEF U
  <2>2. QED
    BY <1>1, <2>1, SeqMonotonic
<1>3. e \in U
  OBVIOUS
<1> HIDE DEF U
<1>4. /\ Append(s, e) \in Seq(U) /\ Len(s) \in Nat
      /\ Len(Append(s, e)) = Len(s) + 1
      /\ \A i \in 1..Len(s) : Append(s, e)[i] = s[i]
      /\ Append(s, e)[Len(s) + 1] = e
  BY <1>2, <1>3
<1>5. QED
  BY <1>4 DEF AnySeq

\* A function on 1..n is a sequence, and stays one when an element is replaced.
LEMMA AnyFunction ==
    ASSUME NEW n \in Nat, NEW s, s = [i \in 1..n |-> s[i]]
    PROVE  AnySeq(s) /\ Len(s) = n
<1> DEFINE S == {s[i] : i \in 1..n}
<1>1. s \in [1..n -> S]
  OBVIOUS
<1> HIDE DEF S
<1>2. s \in Seq(S) /\ Len(s) = n
  BY <1>1
<1>3. QED
  BY <1>2 DEF AnySeq

LEMMA AnyExcept ==
    ASSUME NEW s, AnySeq(s), NEW k \in 1..Len(s), NEW e, NEW t, t = [s EXCEPT ![k] = e]
    PROVE  /\ AnySeq(t) /\ Len(t) = Len(s)
           /\ \A i \in 1..Len(s) : t[i] = IF i = k THEN e ELSE s[i]
<1>1. Len(s) \in Nat /\ s \in [1..Len(s) -> {s[i] : i \in 1..Len(s)}]
  BY AnySeqIs
<1>2. t = [i \in 1..Len(s) |-> t[i]] /\ \A i \in 1..Len(s) : t[i] = IF i = k THEN e ELSE s[i]
  BY <1>1
<1>3. AnySeq(t) /\ Len(t) = Len(s)
  BY <1>1, <1>2, AnyFunction
<1>4. QED
  BY <1>2, <1>3

-----------------------------------------------------------------------------
(***************************************************************************)
(* Names. What readDnsName gets out of the cells of a message, by what is  *)
(* said of each cell alone: N and X have the name that starts at it and    *)
(* where that ends.                                                        *)
(***************************************************************************)
NameCells == {"label", "ptr", "end"}

\* What a name takes to be read: a step for each label, one for the zero, and one for
\* each pointer, of which a label is between two.
Steps(cells, N, i) == 2 * Len(N[i]) + (IF cells[i].cell = "ptr" THEN 2 ELSE 1)

LabelAt(cells, N, X, i) ==
    /\ i + 1 \in 1..Len(cells) /\ cells[i + 1].cell \in NameCells
    /\ N[i] = <<cells[i].label>> \o N[i + 1] /\ X[i] = X[i + 1]
    /\ Len(N[i]) = Len(N[i + 1]) + 1

PointerAt(cells, N, X, i) ==
    /\ cells[i].to \in 1..i-1 /\ cells[cells[i].to].cell = "label"
    /\ N[i] = N[cells[i].to] /\ X[i] = i + 1

\* N and X are the names that start at the cells and where they end.
Named(cells, N, X) ==
    \A i \in 1..Len(cells) : cells[i].cell \in NameCells =>
        /\ Len(N[i]) \in Nat /\ Steps(cells, N, i) <= SafetyLimit
        /\ cells[i].cell = "label" => LabelAt(cells, N, X, i)
        /\ cells[i].cell = "ptr" => PointerAt(cells, N, X, i)
        /\ cells[i].cell = "end" => N[i] = <<>> /\ X[i] = i + 1

\* Of no name there is less than one step.
LEMMA StepsRange ==
    ASSUME NEW cells, NEW N, NEW i, Len(N[i]) \in Nat
    PROVE  /\ Steps(cells, N, i) \in Nat
           /\ 1 <= Steps(cells, N, i) /\ Steps(cells, N, i) <= 2 * Len(N[i]) + 2
<1>1. Steps(cells, N, i) = 2 * Len(N[i]) + 1 \/ Steps(cells, N, i) = 2 * Len(N[i]) + 2
  <2>1. CASE cells[i].cell = "ptr"
    BY <2>1 DEF Steps
  <2>2. CASE cells[i].cell # "ptr"
    BY <2>2 DEF Steps
  <2>3. QED
    BY <2>1, <2>2
<1>2. QED
  BY <1>1

\* A step of readDnsName at pos, before which left steps are left; before is what one
\* less would read.
NameFrom(cells, before, left, pos) ==
    IF left = 0 \/ pos > Len(cells) THEN [name |-> <<>>, next |-> pos]
    ELSE CASE cells[pos].cell = "end" -> [name |-> <<>>, next |-> pos + 1]
           [] cells[pos].cell = "ptr" -> Followed(pos, before[cells[pos].to])
           [] OTHER -> [name |-> <<cells[pos].label>> \o before[pos + 1].name,
                        next |-> before[pos + 1].next]

\* readDnsName, a function that is defined by its value for one step less: there is one.
LEMMA ReadNameIs ==
    ASSUME NEW cells, SafetyLimit \in Nat
    PROVE  \E read :
              /\ \A off : ReadName(cells, off) = read[SafetyLimit][off]
              /\ \A left \in 0..SafetyLimit : \A pos \in Nat :
                    read[left][pos] = NameFrom(cells, read[left - 1], left, pos)
<1> DEFINE At(before, left) == [pos \in Nat |->
            IF left = 0 \/ pos > Len(cells) THEN [name |-> <<>>, next |-> pos]
            ELSE LET c == cells[pos]
                     behind == before[pos + 1]
                     there == before[c.to]
                 IN CASE c.cell = "end" -> [name |-> <<>>, next |-> pos + 1]
                      [] c.cell = "ptr" -> Followed(pos, there)
                      [] OTHER -> [name |-> <<c.label>> \o behind.name, next |-> behind.next]]
           read[left \in 0..SafetyLimit] == At(read[left - 1], left)
           Good(m, f) == f = [left \in 0..m |-> At(f[left - 1], left)]
<1>1. \A off : ReadName(cells, off) = read[SafetyLimit][off]
  BY DEF ReadName
<1>2. \A f, g : At(f, 0) = At(g, 0)
  OBVIOUS
<1>3. \A before, left : \A pos \in Nat :
          At(before, left)[pos] = NameFrom(cells, before, left, pos)
  BY DEF NameFrom
<1> HIDE DEF At
<1>4. \E f : Good(SafetyLimit, f)
  <2> DEFINE P == {m \in 0..SafetyLimit : \E f : Good(m, f)}
  <2>1. 0 \in P
    <3>1. Good(0, [left \in 0..0 |-> At(0, 0)])
      BY <1>2
    <3>2. QED
      BY <3>1
  <2>2. \A n \in 1..SafetyLimit : n - 1 \in P => n \in P
    <3> SUFFICES ASSUME NEW n \in 1..SafetyLimit, NEW f, Good(n - 1, f)
                 PROVE  \E g : Good(n, g)
      OBVIOUS
    <3> DEFINE g == [left \in 0..n |-> At(f[left - 1], left)]
    <3>1. \A left \in 0..n : left = 0 \/ g[left - 1] = f[left - 1]
      <4>1. \A left \in 0..n : left = 0 \/ left - 1 \in 0..n-1
        OBVIOUS
      <4>2. \A left \in 0..n-1 : f[left] = At(f[left - 1], left)
        OBVIOUS
      <4>3. \A left \in 0..n-1 : g[left] = At(f[left - 1], left)
        OBVIOUS
      <4> HIDE DEF g
      <4>4. QED
        BY <4>1, <4>2, <4>3
    <3>2. \A left \in 0..n : At(f[left - 1], left) = At(g[left - 1], left)
      BY <3>1, <1>2
    <3>3. Good(n, g)
      BY <3>2
    <3>4. QED
      BY <3>3
  <2> HIDE DEF P
  <2>3. SafetyLimit \in P
    BY <2>1, <2>2, InductionUpTo
  <2>4. QED
    BY <2>3 DEF P
<1>5. Good(SafetyLimit, read)
  BY <1>4, Zenon
<1>6. \A left \in 0..SafetyLimit : read[left] = At(read[left - 1], left)
  BY <1>5
<1> HIDE DEF read, Good
<1>7. \A left \in 0..SafetyLimit : \A pos \in Nat : read[left][pos] = At(read[left - 1], left)[pos]
  BY <1>6
<1>8. \A left \in 0..SafetyLimit : \A pos \in Nat :
          read[left][pos] = NameFrom(cells, read[left - 1], left, pos)
  BY <1>3, <1>7
<1>9. QED
  BY <1>1, <1>8

\* What is read of a name that was written: itself, and the offset behind it.
LEMMA ReadsNames ==
    ASSUME NEW cells, NEW N, NEW X, Named(cells, N, X), SafetyLimit \in Nat, Len(cells) \in Nat
    PROVE  \A i \in 1..Len(cells) : cells[i].cell \in NameCells =>
              ReadName(cells, i).name = N[i] /\ ReadName(cells, i).next = X[i]
<1>1. PICK read :
          /\ \A off : ReadName(cells, off) = read[SafetyLimit][off]
          /\ \A left \in 0..SafetyLimit : \A pos \in Nat :
                read[left][pos] = NameFrom(cells, read[left - 1], left, pos)
  BY ReadNameIs
<1> DEFINE Reads(left) ==
               \A i \in 1..Len(cells) :
                  cells[i].cell \in NameCells /\ Steps(cells, N, i) <= left =>
                      read[left][i].name = N[i] /\ read[left][i].next = X[i]
           P == {left \in 0..SafetyLimit : Reads(left)}
<1>2. 0 \in P
  <2>1. \A i \in 1..Len(cells) : cells[i].cell \in NameCells => Len(N[i]) \in Nat
    BY DEF Named
  <2>2. \A i \in 1..Len(cells) : cells[i].cell \in NameCells => ~(Steps(cells, N, i) <= 0)
    BY <2>1, StepsRange
  <2>3. QED
    BY <2>2
<1>3. \A n \in 1..SafetyLimit : n - 1 \in P => n \in P
  <2> SUFFICES ASSUME NEW n \in 1..SafetyLimit, Reads(n - 1),
                      NEW i \in 1..Len(cells), cells[i].cell \in NameCells,
                      Steps(cells, N, i) <= n
               PROVE  read[n][i].name = N[i] /\ read[n][i].next = X[i]
    OBVIOUS
  <2>1. /\ Len(N[i]) \in Nat /\ Steps(cells, N, i) <= SafetyLimit
        /\ cells[i].cell = "label" => LabelAt(cells, N, X, i)
        /\ cells[i].cell = "ptr" => PointerAt(cells, N, X, i)
        /\ cells[i].cell = "end" => N[i] = <<>> /\ X[i] = i + 1
    BY DEF Named
  <2>2. read[n][i] = NameFrom(cells, read[n - 1], n, i)
    BY <1>1
  <2>3. n # 0 /\ ~(i > Len(cells))
    OBVIOUS
  <2>4. CASE cells[i].cell = "end"
    <3>1. read[n][i] = [name |-> <<>>, next |-> i + 1]
      BY <2>2, <2>3, <2>4 DEF NameFrom
    <3>2. QED
      BY <2>1, <2>4, <3>1
  <2>5. CASE cells[i].cell = "ptr"
    <3>1. read[n][i] = Followed(i, read[n - 1][cells[i].to])
      BY <2>2, <2>3, <2>5 DEF NameFrom
    <3>2. PointerAt(cells, N, X, i)
      BY <2>1, <2>5
    <3> DEFINE j == cells[i].to
    <3>3. /\ j \in 1..Len(cells) /\ cells[j].cell = "label"
          /\ N[i] = N[j] /\ X[i] = i + 1
      BY <3>2 DEF PointerAt
    <3>4. Steps(cells, N, j) <= n - 1
      BY <2>1, <2>5, <3>3 DEF Steps
    <3>5. read[n - 1][j].name = N[j]
      BY <3>3, <3>4 DEF NameCells
    <3>6. QED
      BY <3>1, <3>3, <3>5 DEF Followed
  <2>6. CASE cells[i].cell = "label"
    <3>1. read[n][i] = [name |-> <<cells[i].label>> \o read[n - 1][i + 1].name,
                        next |-> read[n - 1][i + 1].next]
      BY <2>2, <2>3, <2>6 DEF NameFrom
    <3>2. LabelAt(cells, N, X, i)
      BY <2>1, <2>6
    <3>3. Len(N[i + 1]) \in Nat /\ Steps(cells, N, i + 1) <= n - 1
      <4>1. /\ i + 1 \in 1..Len(cells) /\ cells[i + 1].cell \in NameCells
            /\ Len(N[i]) = Len(N[i + 1]) + 1
        BY <3>2 DEF LabelAt
      <4>2. Len(N[i + 1]) \in Nat
        BY <4>1 DEF Named
      <4>3. Steps(cells, N, i) = 2 * Len(N[i]) + 1
        BY <2>6 DEF Steps
      <4>4. QED
        BY <4>1, <4>2, <4>3, StepsRange
    <3>4. read[n - 1][i + 1].name = N[i + 1] /\ read[n - 1][i + 1].next = X[i + 1]
      BY <3>2, <3>3 DEF LabelAt
    <3>5. QED
      BY <3>1, <3>2, <3>4 DEF LabelAt
  <2>7. QED
    BY <2>4, <2>5, <2>6 DEF NameCells
<1>4. SafetyLimit \in P
  <2> HIDE DEF P
  <2> QED
    BY <1>2, <1>3, InductionUpTo
<1>5. QED
  BY <1>1, <1>4 DEF Named

\* The rest of a name, from its label number m on.
LEMMA RestOfName ==
    ASSUME NEW L, NEW name \in Seq(L), NEW m \in 1..Len(name)
    PROVE  /\ SubSeq(name, m, Len(name)) = <<name[m]>> \o SubSeq(name, m + 1, Len(name))
           /\ Len(SubSeq(name, m, Len(name))) = Len(name) - m + 1
           /\ Len(SubSeq(name, m + 1, Len(name))) = Len(name) - m
<1>1. Len(name) \in Nat /\ \A i \in 1..Len(name) : name[i] \in L
  OBVIOUS
<1>2. m \in 1..Len(name) /\ Len(name) \in m..Len(name)
  BY <1>1
<1>3. SubSeq(name, m, Len(name)) = <<name[m]>> \o SubSeq(name, m + 1, Len(name))
  BY <1>2, SubSeqRecursiveFirst
<1>4. m \in Int /\ m + 1 \in Int /\ Len(name) \in Int
  BY <1>1
<1>5. Len(SubSeq(name, m, Len(name))) = Len(name) - m + 1
  <2>1. \A i \in m..Len(name) : name[i] \in L
    BY <1>1
  <2>2. Len(SubSeq(name, m, Len(name))) = IF m <= Len(name) THEN Len(name) - m + 1 ELSE 0
    BY <1>4, <2>1, SubSeqProperties
  <2>3. QED
    BY <1>2, <2>2
<1>6. Len(SubSeq(name, m + 1, Len(name))) = Len(name) - m
  <2>1. \A i \in m+1..Len(name) : name[i] \in L
    BY <1>1
  <2>2. Len(SubSeq(name, m + 1, Len(name))) = IF m + 1 <= Len(name) THEN Len(name) - (m + 1) + 1 ELSE 0
    BY <1>4, <2>1, SubSeqProperties
  <2>3. QED
    BY <1>1, <1>2, <2>2
<1>7. QED
  BY <1>3, <1>5, <1>6

\* What was in a message is still in it.
Beyond(full, N2, X2, cells, N, X) ==
    /\ Len(cells) <= Len(full)
    /\ \A i \in 1..Len(cells) : full[i] = cells[i] /\ N2[i] = N[i] /\ X2[i] = X[i]

\* A name starts at cell i.
HasName(full, N, X, i, name) ==
    i \in 1..Len(full) /\ full[i].cell \in NameCells /\ N[i] = name

\* A name was put behind what was there.
Follows(full, N2, X2, cells, N, X, name) ==
    /\ Named(full, N2, X2) /\ Beyond(full, N2, X2, cells, N, X)
    /\ HasName(full, N2, X2, Len(cells) + 1, name) /\ X2[Len(cells) + 1] = Len(full) + 1

\* Cells that are not of a name make no difference to those that are.
LEMMA OthersDiffer ==
    ASSUME NEW cells, NEW N, NEW X, Named(cells, N, X), NEW full,
           Len(cells) \in Nat, Len(full) \in Nat, Len(cells) <= Len(full),
           \A i \in 1..Len(cells) : \/ full[i] = cells[i]
                                    \/ cells[i].cell \notin NameCells /\ full[i].cell \notin NameCells,
           \A i \in Len(cells)+1..Len(full) : full[i].cell \notin NameCells
    PROVE  Named(full, N, X)
<1> SUFFICES ASSUME NEW i \in 1..Len(full), full[i].cell \in NameCells
             PROVE  /\ Len(N[i]) \in Nat /\ Steps(full, N, i) <= SafetyLimit
                    /\ full[i].cell = "label" => LabelAt(full, N, X, i)
                    /\ full[i].cell = "ptr" => PointerAt(full, N, X, i)
                    /\ full[i].cell = "end" => N[i] = <<>> /\ X[i] = i + 1
  BY DEF Named
<1>1. i \in 1..Len(cells) /\ full[i] = cells[i]
  OBVIOUS
<1>2. /\ Len(N[i]) \in Nat /\ Steps(cells, N, i) <= SafetyLimit
      /\ cells[i].cell = "label" => LabelAt(cells, N, X, i)
      /\ cells[i].cell = "ptr" => PointerAt(cells, N, X, i)
      /\ cells[i].cell = "end" => N[i] = <<>> /\ X[i] = i + 1
  BY <1>1 DEF Named
<1>3. Steps(full, N, i) = Steps(cells, N, i)
  BY <1>1 DEF Steps
<1>4. ASSUME cells[i].cell = "label" PROVE LabelAt(full, N, X, i)
  <2>1. LabelAt(cells, N, X, i)
    BY <1>2, <1>4
  <2>2. i + 1 \in 1..Len(cells) /\ full[i + 1] = cells[i + 1]
    BY <2>1 DEF LabelAt
  <2>3. QED
    BY <1>1, <2>1, <2>2 DEF LabelAt
<1>5. ASSUME cells[i].cell = "ptr" PROVE PointerAt(full, N, X, i)
  <2>1. PointerAt(cells, N, X, i)
    BY <1>2, <1>5
  <2>2. cells[i].to \in 1..Len(cells)
    BY <2>1 DEF PointerAt
  <2>3. full[cells[i].to] = cells[cells[i].to]
    BY <2>1, <2>2 DEF PointerAt, NameCells
  <2>4. QED
    BY <1>1, <2>1, <2>3 DEF PointerAt
<1>6. QED
  BY <1>1, <1>2, <1>3, <1>4, <1>5

\* A name behind what was there: k - 1 labels, then the zero or a pointer to the rest.
LEMMA NameAdded ==
    ASSUME NEW cells, NEW N, NEW X, Named(cells, N, X), Len(cells) \in Nat, SafetyLimit \in Nat,
           NEW L, NEW name \in Seq(L), 2 * Len(name) + 2 <= SafetyLimit,
           NEW k \in 1..Len(name)+1, NEW full, Len(full) = Len(cells) + k,
           \A i \in 1..Len(cells) : full[i] = cells[i],
           \A i \in 1..k-1 : full[Len(cells) + i] = Label(name[i]),
           \/ k = Len(name) + 1 /\ full[Len(cells) + k] = End
           \/ /\ k <= Len(name)
              /\ \E p \in 1..Len(cells) :
                    /\ cells[p].cell = "label" /\ N[p] = SubSeq(name, k, Len(name))
                    /\ full[Len(cells) + k] = Pointer(p)
    PROVE  \E N2, X2 : Follows(full, N2, X2, cells, N, X, name)
<1> DEFINE l == Len(cells)
           N2 == [i \in 1..Len(full) |-> IF i <= l THEN N[i] ELSE SubSeq(name, i - l, Len(name))]
           X2 == [i \in 1..Len(full) |-> IF i <= l THEN X[i] ELSE Len(full) + 1]
<1>1. l \in Nat /\ Len(name) \in Nat /\ k \in Nat /\ Len(full) = l + k
  OBVIOUS
<1>2. \A i \in 1..l : i \in 1..Len(full) /\ N2[i] = N[i] /\ X2[i] = X[i]
  BY <1>1
<1>3. \A m \in 1..k : /\ l + m \in 1..Len(full)
                      /\ N2[l + m] = SubSeq(name, m, Len(name)) /\ X2[l + m] = Len(full) + 1
  <2>1. \A m \in 1..k : l + m \in 1..Len(full) /\ ~(l + m <= l) /\ l + m - l = m
    BY <1>1
  <2>2. QED
    BY <2>1
<1> HIDE DEF N2, X2
<1>4. Len(SubSeq(name, Len(name) + 1, Len(name))) = 0 /\ SubSeq(name, Len(name) + 1, Len(name)) = <<>>
  <2>1. Len(name) + 1 \in Int /\ Len(name) \in Int /\ Len(name) < Len(name) + 1
    BY <1>1
  <2>2. SubSeq(name, Len(name) + 1, Len(name)) = <<>>
    BY <2>1, SubSeqEmpty
  <2>3. QED
    BY <2>2
<1>5. \A m \in 1..k : Len(N2[l + m]) = Len(name) - m + 1
  <2>1. \A m \in 1..Len(name) : Len(SubSeq(name, m, Len(name))) = Len(name) - m + 1
    BY RestOfName
  <2>2. \A m \in 1..k : m \in 1..Len(name) \/ m = Len(name) + 1
    BY <1>1
  <2>3. Len(name) - (Len(name) + 1) + 1 = 0
    BY <1>1
  <2>4. QED
    BY <1>3, <1>4, <2>1, <2>2, <2>3
<1>6. \A i \in 1..l : full[i].cell \in NameCells =>
          /\ Len(N2[i]) \in Nat /\ Steps(full, N2, i) <= SafetyLimit
          /\ full[i].cell = "label" => LabelAt(full, N2, X2, i)
          /\ full[i].cell = "ptr" => PointerAt(full, N2, X2, i)
          /\ full[i].cell = "end" => N2[i] = <<>> /\ X2[i] = i + 1
  <2> SUFFICES ASSUME NEW i \in 1..l, cells[i].cell \in NameCells
               PROVE  /\ Len(N2[i]) \in Nat /\ Steps(full, N2, i) <= SafetyLimit
                      /\ cells[i].cell = "label" => LabelAt(full, N2, X2, i)
                      /\ cells[i].cell = "ptr" => PointerAt(full, N2, X2, i)
                      /\ cells[i].cell = "end" => N2[i] = <<>> /\ X2[i] = i + 1
    OBVIOUS
  <2>1. /\ Len(N[i]) \in Nat /\ Steps(cells, N, i) <= SafetyLimit
        /\ cells[i].cell = "label" => LabelAt(cells, N, X, i)
        /\ cells[i].cell = "ptr" => PointerAt(cells, N, X, i)
        /\ cells[i].cell = "end" => N[i] = <<>> /\ X[i] = i + 1
    BY DEF Named
  <2>2. N2[i] = N[i] /\ X2[i] = X[i] /\ full[i] = cells[i] /\ Steps(full, N2, i) = Steps(cells, N, i)
    BY <1>2 DEF Steps
  <2>3. ASSUME cells[i].cell = "label" PROVE LabelAt(full, N2, X2, i)
    <3>1. LabelAt(cells, N, X, i)
      BY <2>1, <2>3
    <3>2. i + 1 \in 1..l
      BY <3>1 DEF LabelAt
    <3>3. i + 1 \in 1..Len(full) /\ N2[i + 1] = N[i + 1] /\ X2[i + 1] = X[i + 1] /\ full[i + 1] = cells[i + 1]
      BY <1>2, <3>2
    <3>4. QED
      BY <2>2, <3>1, <3>3 DEF LabelAt
  <2>4. ASSUME cells[i].cell = "ptr" PROVE PointerAt(full, N2, X2, i)
    <3>1. PointerAt(cells, N, X, i)
      BY <2>1, <2>4
    <3>2. cells[i].to \in 1..l
      BY <3>1 DEF PointerAt
    <3>3. N2[cells[i].to] = N[cells[i].to] /\ full[cells[i].to] = cells[cells[i].to]
      BY <1>2, <3>2
    <3>4. QED
      BY <2>2, <3>1, <3>3 DEF PointerAt
  <2>5. QED
    BY <2>1, <2>2, <2>3, <2>4
<1>7. \A m \in 1..k :
          /\ full[l + m].cell \in NameCells
          /\ Len(N2[l + m]) \in Nat /\ Steps(full, N2, l + m) <= SafetyLimit
          /\ full[l + m].cell = "label" => LabelAt(full, N2, X2, l + m)
          /\ full[l + m].cell = "ptr" => PointerAt(full, N2, X2, l + m)
          /\ full[l + m].cell = "end" => N2[l + m] = <<>> /\ X2[l + m] = l + m + 1
  <2> SUFFICES ASSUME NEW m \in 1..k
               PROVE  /\ full[l + m].cell \in NameCells
                      /\ Len(N2[l + m]) \in Nat /\ Steps(full, N2, l + m) <= SafetyLimit
                      /\ full[l + m].cell = "label" => LabelAt(full, N2, X2, l + m)
                      /\ full[l + m].cell = "ptr" => PointerAt(full, N2, X2, l + m)
                      /\ full[l + m].cell = "end" => N2[l + m] = <<>> /\ X2[l + m] = l + m + 1
    OBVIOUS
  <2>1. Len(N2[l + m]) \in Nat /\ Len(N2[l + m]) <= Len(name)
    <3>1. Len(N2[l + m]) = Len(name) - m + 1
      BY <1>5
    <3>2. Len(name) - m + 1 \in Nat /\ Len(name) - m + 1 <= Len(name)
      BY <1>1
    <3>3. QED
      BY <3>1, <3>2
  <2>2. Steps(full, N2, l + m) <= SafetyLimit
    BY <1>1, <2>1, StepsRange
  <2>3. CASE m < k
    <3>1. m \in 1..k-1 /\ m \in 1..Len(name) /\ m + 1 \in 1..k
      BY <1>1, <2>3
    <3>2. full[l + m].cell = "label" /\ full[l + m].label = name[m]
      <4>1. \A e : Label(e).cell = "label" /\ Label(e).label = e
        BY DEF Label
      <4>2. full[l + m] = Label(name[m])
        BY <3>1
      <4>3. QED
        BY <4>1, <4>2
    <3>3. N2[l + m] = <<name[m]>> \o N2[l + (m + 1)] /\ Len(N2[l + m]) = Len(N2[l + (m + 1)]) + 1
      <4>1. SubSeq(name, m, Len(name)) = <<name[m]>> \o SubSeq(name, m + 1, Len(name))
        BY <3>1, RestOfName
      <4>2. Len(name) - m + 1 = Len(name) - (m + 1) + 1 + 1
        BY <1>1
      <4>3. QED
        BY <1>3, <1>5, <3>1, <4>1, <4>2
    <3>4. l + m + 1 = l + (m + 1)
      BY <1>1
    <3>5. full[l + (m + 1)].cell \in NameCells
      <4>1. CASE m + 1 < k
        <5>1. m + 1 \in 1..k-1
          BY <1>1, <4>1
        <5>2. full[l + (m + 1)] = Label(name[m + 1])
          BY <5>1
        <5>3. \A e : Label(e).cell \in NameCells
          BY DEF Label, NameCells
        <5>4. QED
          BY <5>2, <5>3
      <4>2. CASE m + 1 = k
        <5>1. full[l + k].cell \in NameCells
          <6>1. End.cell \in NameCells /\ \A p : Pointer(p).cell \in NameCells
            BY DEF End, Pointer, NameCells
          <6>2. full[l + k] = End \/ \E p : full[l + k] = Pointer(p)
            OBVIOUS
          <6>3. QED
            BY <6>1, <6>2
        <5>2. QED
          BY <4>2, <5>1
      <4>3. QED
        BY <1>1, <3>1, <4>1, <4>2
    <3>6. LabelAt(full, N2, X2, l + m)
      BY <1>3, <3>1, <3>2, <3>3, <3>4, <3>5 DEF LabelAt
    <3>7. QED
      BY <2>1, <2>2, <3>2, <3>6 DEF NameCells
  <2>4. CASE m = k /\ k = Len(name) + 1 /\ full[l + k] = End
    BY <1>1, <1>3, <1>4, <2>1, <2>2, <2>4 DEF End, NameCells
  <2>5. CASE /\ m = k /\ k <= Len(name)
             /\ \E p \in 1..l : /\ cells[p].cell = "label" /\ N[p] = SubSeq(name, k, Len(name))
                                /\ full[l + k] = Pointer(p)
    <3>1. PICK p \in 1..l : /\ cells[p].cell = "label" /\ N[p] = SubSeq(name, k, Len(name))
                            /\ full[l + k] = Pointer(p)
      BY <2>5
    <3>2. full[l + k].cell = "ptr" /\ full[l + k].to = p
      BY <3>1 DEF Pointer
    <3>3. full[p] = cells[p] /\ N2[p] = N[p]
      BY <1>2
    <3>4. N2[l + k] = N2[p] /\ X2[l + k] = l + k + 1 /\ p \in 1..(l + k)-1
      BY <1>1, <1>3, <3>1, <3>3
    <3>5. PointerAt(full, N2, X2, l + k)
      BY <3>1, <3>2, <3>3, <3>4 DEF PointerAt
    <3>6. QED
      BY <2>1, <2>2, <2>5, <3>2, <3>5 DEF NameCells
  <2>6. QED
    BY <1>1, <2>3, <2>4, <2>5
<1>8. \A i \in 1..Len(full) : i \in 1..l \/ \E m \in 1..k : i = l + m
  <2>1. \A i \in 1..Len(full) : i \in 1..l \/ (i - l \in 1..k /\ i = l + (i - l))
    BY <1>1
  <2>2. QED
    BY <2>1
<1>9. Named(full, N2, X2)
  <2> SUFFICES ASSUME NEW i \in 1..Len(full), full[i].cell \in NameCells
               PROVE  /\ Len(N2[i]) \in Nat /\ Steps(full, N2, i) <= SafetyLimit
                      /\ full[i].cell = "label" => LabelAt(full, N2, X2, i)
                      /\ full[i].cell = "ptr" => PointerAt(full, N2, X2, i)
                      /\ full[i].cell = "end" => N2[i] = <<>> /\ X2[i] = i + 1
    BY DEF Named
  <2>1. CASE i \in 1..l
    BY <1>6, <2>1
  <2>2. ASSUME NEW m \in 1..k, i = l + m
        PROVE  /\ Len(N2[i]) \in Nat /\ Steps(full, N2, i) <= SafetyLimit
               /\ full[i].cell = "label" => LabelAt(full, N2, X2, i)
               /\ full[i].cell = "ptr" => PointerAt(full, N2, X2, i)
               /\ full[i].cell = "end" => N2[i] = <<>> /\ X2[i] = i + 1
    BY <1>7, <2>2
  <2>3. QED
    BY <1>8, <2>1, <2>2
<1>10. Beyond(full, N2, X2, cells, N, X)
  BY <1>1, <1>2 DEF Beyond
<1>11. HasName(full, N2, X2, l + 1, name) /\ X2[l + 1] = Len(full) + 1
  <2>1. 1 \in 1..k
    BY <1>1
  <2>2. SubSeq(name, 1, Len(name)) = name
    BY SubSeqFull
  <2>3. QED
    BY <1>3, <1>7, <2>1, <2>2 DEF HasName
<1>12. QED
  BY <1>9, <1>10, <1>11 DEF Follows

Labels == {"_phonewebcam", "_udp", "local", "phone", "adb", "_adb-tls-connect", "_tcp"}
            \cup {InstanceName[r] : r \in Regs}

\* Names that readDnsName gets to the end of.
ShortNames == {name \in Seq(Labels) : 2 * Len(name) + 2 <= SafetyLimit}

\* What the least of a set is.
LEMMA LeastIs ==
    ASSUME NEW T, T \subseteq Nat, T # {}
    PROVE  Min(T) \in T /\ \A k \in T : Min(T) <= k
<1>1. \E m \in T : \A k \in T : m <= k
  BY LeastNumber
<1>2. QED
  BY <1>1, Zenon DEF Min

\* The first place of a name is a label: a pointer's name is in an earlier place, too.
LEMMA FirstPlace ==
    ASSUME NEW cells, NEW N, NEW X, Named(cells, N, X), Len(cells) \in Nat, SafetyLimit \in Nat,
           NEW name, Places(cells, name) # {}
    PROVE  /\ Min(Places(cells, name)) \in 1..Len(cells)
           /\ cells[Min(Places(cells, name))].cell = "label"
           /\ N[Min(Places(cells, name))] = name
<1> DEFINE T == Places(cells, name)
           p == Min(T)
<1>1. T = {i \in 1..Len(cells) : cells[i].cell \in {"label", "ptr"} /\ N[i] = name}
  <2>1. \A i \in 1..Len(cells) : cells[i].cell \in NameCells => ReadName(cells, i).name = N[i]
    BY ReadsNames
  <2>2. QED
    BY <2>1 DEF Places, NameCells
<1>2. T \subseteq Nat
  BY <1>1
<1> HIDE DEF T
<1>3. T # {}
  BY DEF T
<1>4. p \in T /\ \A k \in T : p <= k
  BY <1>2, <1>3, LeastIs
<1> HIDE DEF p
<1>5. p \in 1..Len(cells) /\ cells[p].cell \in {"label", "ptr"} /\ N[p] = name
  BY <1>1, <1>4
<1>6. cells[p].cell # "ptr"
  <2> SUFFICES ASSUME cells[p].cell = "ptr" PROVE FALSE
    OBVIOUS
  <2>1. PointerAt(cells, N, X, p)
    BY <1>5 DEF Named, NameCells
  <2>2. cells[p].to \in 1..p-1 /\ cells[cells[p].to].cell = "label" /\ N[cells[p].to] = name
    BY <1>5, <2>1 DEF PointerAt
  <2>3. cells[p].to \in T
    BY <1>1, <1>5, <2>2
  <2>4. p <= cells[p].to
    BY <1>4, <2>3
  <2>5. QED
    BY <1>5, <2>2, <2>4
<1>7. QED
  BY <1>5, <1>6 DEF p, T

\* What EncodeName puts behind a message, with or without a pointer, is read as that name.
LEMMA EncodeNameAdds ==
    ASSUME NEW cells, NEW N, NEW X, Named(cells, N, X), AnySeq(cells), SafetyLimit \in Nat,
           NEW name \in ShortNames, NEW packed
    PROVE  /\ AnySeq(EncodeName(cells, name, packed))
           /\ \E N2, X2 : Follows(EncodeName(cells, name, packed), N2, X2, cells, N, X, name)
<1> DEFINE full == EncodeName(cells, name, packed)
           rest(k) == SubSeq(name, k, Len(name))
           tails == {k \in 1..Len(name) : packed /\ Places(cells, rest(k)) # {}}
           k == Min(tails)
           p == Min(Places(cells, rest(k)))
           labels == [i \in 1..k-1 |-> Label(name[i])]
<1>1. /\ Len(cells) \in Nat /\ Len(name) \in Nat /\ name \in Seq(Labels)
      /\ 2 * Len(name) + 2 <= SafetyLimit
  BY AnySeqIs DEF ShortNames
<1>2. full = IF tails = {} THEN cells \o WriteName(name) ELSE (cells \o labels) \o <<Pointer(p)>>
  BY DEF EncodeName
<1> HIDE DEF full, rest
<1>3. CASE tails = {}
  <2> DEFINE all == [i \in 1..Len(name) |-> Label(name[i])]
             m == Len(name) + 1
  <2>1. AnySeq(all) /\ Len(all) = Len(name) /\ \A i \in 1..Len(name) : all[i] = Label(name[i])
    <3>1. all = [i \in 1..Len(name) |-> all[i]] /\ \A i \in 1..Len(name) : all[i] = Label(name[i])
      OBVIOUS
    <3> HIDE DEF all
    <3>2. QED
      BY <1>1, <3>1, AnyFunction
  <2>2. full = cells \o Append(all, End)
    BY <1>2, <1>3 DEF WriteName
  <2> HIDE DEF all
  <2>3. /\ AnySeq(Append(all, End)) /\ Len(Append(all, End)) = m
        /\ \A i \in 1..Len(name) : Append(all, End)[i] = all[i]
        /\ Append(all, End)[m] = End
    BY <2>1, AnyAppend
  <2> DEFINE t == Append(all, End)
  <2> HIDE DEF t
  <2>4. AnySeq(t) /\ Len(t) = m /\ full = cells \o t
    BY <2>2, <2>3 DEF t
  <2>5. /\ AnySeq(full) /\ Len(full) = Len(cells) + m
        /\ \A i \in 1..Len(cells) : full[i] = cells[i]
        /\ \A i \in 1..m : full[Len(cells) + i] = t[i]
    BY <2>4, AnyConcat
  <2>6. \A i \in 1..m-1 : full[Len(cells) + i] = Label(name[i])
    <3>1. \A i \in 1..m-1 : i \in 1..m /\ i \in 1..Len(name)
      BY <1>1
    <3>2. QED
      BY <2>1, <2>3, <2>5, <3>1 DEF t
  <2>7. m \in 1..Len(name)+1 /\ m \in 1..m
    BY <1>1
  <2>8. m = Len(name) + 1 /\ full[Len(cells) + m] = End
    BY <2>3, <2>5, <2>7 DEF t
  <2> HIDE DEF m
  <2>9. \E N2, X2 : Follows(full, N2, X2, cells, N, X, name)
    <3>1. /\ Named(cells, N, X) /\ Len(cells) \in Nat /\ SafetyLimit \in Nat
          /\ name \in Seq(Labels) /\ 2 * Len(name) + 2 <= SafetyLimit
          /\ m \in 1..Len(name)+1 /\ Len(full) = Len(cells) + m
      BY <1>1, <2>5, <2>7
    <3>2. \A i \in 1..Len(cells) : full[i] = cells[i]
      BY <2>5
    <3>3. \/ m = Len(name) + 1 /\ full[Len(cells) + m] = End
          \/ /\ m <= Len(name)
             /\ \E q \in 1..Len(cells) :
                   /\ cells[q].cell = "label" /\ N[q] = SubSeq(name, m, Len(name))
                   /\ full[Len(cells) + m] = Pointer(q)
      BY <2>8
    <3>4. QED
      BY ONLY <3>1, <3>2, <2>6, <3>3, NameAdded
  <2>10. QED
    BY <2>5, <2>9 DEF full
<1>4. CASE tails # {}
  <2>1. tails \subseteq Nat
    BY <1>1
  <2> HIDE DEF tails
  <2>2. k \in tails
    BY <1>4, <2>1, LeastIs
  <2> HIDE DEF k
  <2>3. k \in 1..Len(name) /\ Places(cells, rest(k)) # {}
    BY <2>2 DEF tails
  <2>4. p \in 1..Len(cells) /\ cells[p].cell = "label" /\ N[p] = rest(k)
    BY <1>1, <2>3, FirstPlace
  <2> HIDE DEF p
  <2>5. full = (cells \o labels) \o <<Pointer(p)>>
    BY <1>2, <1>4
  <2>6. AnySeq(labels) /\ Len(labels) = k - 1 /\ \A i \in 1..k-1 : labels[i] = Label(name[i])
    <3>1. labels = [i \in 1..k-1 |-> labels[i]] /\ \A i \in 1..k-1 : labels[i] = Label(name[i])
      OBVIOUS
    <3> HIDE DEF labels
    <3>2. k - 1 \in Nat
      BY <1>1, <2>3
    <3>3. QED
      BY <3>1, <3>2, AnyFunction
  <2> HIDE DEF labels
  <2> DEFINE c == cells \o labels
  <2>7. /\ AnySeq(c) /\ Len(c) = Len(cells) + (k - 1)
        /\ \A i \in 1..Len(cells) : c[i] = cells[i]
        /\ \A i \in 1..k-1 : c[Len(cells) + i] = labels[i]
    BY <2>6, AnyConcat
  <2>8. full = c \o <<Pointer(p)>>
    BY <2>5
  <2> HIDE DEF c
  <2>9. AnySeq(<<Pointer(p)>>) /\ Len(<<Pointer(p)>>) = 1 /\ <<Pointer(p)>>[1] = Pointer(p)
    BY AnyOne
  <2> DEFINE o == <<Pointer(p)>>
  <2> HIDE DEF o
  <2>10. AnySeq(o) /\ Len(o) = 1 /\ o[1] = Pointer(p) /\ full = c \o o
    BY <2>8, <2>9 DEF o
  <2>11. /\ AnySeq(full) /\ Len(full) = Len(c) + Len(o)
         /\ \A i \in 1..Len(c) : full[i] = c[i]
         /\ \A i \in 1..Len(o) : full[Len(c) + i] = o[i]
    <3>1. AnySeq(c) /\ AnySeq(o)
      BY <2>7, <2>10
    <3>2. /\ AnySeq(c \o o)
          /\ Len(c) \in Nat /\ Len(o) \in Nat /\ Len(c \o o) = Len(c) + Len(o)
          /\ \A i \in 1..Len(c) : (c \o o)[i] = c[i]
          /\ \A i \in 1..Len(o) : (c \o o)[Len(c) + i] = o[i]
      BY ONLY <3>1, AnyConcat
    <3>3. QED
      BY <2>10, <3>2
  <2>12. /\ Len(full) = Len(cells) + k /\ k \in 1..Len(name)+1 /\ k <= Len(name)
         /\ Len(c) + 1 = Len(cells) + k
    BY <1>1, <2>3, <2>7, <2>10, <2>11
  <2>13. \A i \in 1..Len(cells) : full[i] = cells[i]
    <3>1. \A i \in 1..Len(cells) : i \in 1..Len(c)
      BY <1>1, <2>3, <2>7
    <3>2. QED
      BY <2>7, <2>11, <3>1
  <2>14. \A i \in 1..k-1 : full[Len(cells) + i] = Label(name[i])
    <3>1. \A i \in 1..k-1 : Len(cells) + i \in 1..Len(c)
      BY <1>1, <2>3, <2>7
    <3>2. QED
      BY <2>6, <2>7, <2>11, <3>1
  <2>15. full[Len(cells) + k] = Pointer(p)
    <3>1. 1 \in 1..Len(o)
      BY <2>10
    <3>2. full[Len(c) + 1] = o[1]
      BY <2>11, <3>1
    <3>3. QED
      BY <2>10, <2>12, <3>2
  <2>16. \/ k = Len(name) + 1 /\ full[Len(cells) + k] = End
         \/ /\ k <= Len(name)
            /\ \E q \in 1..Len(cells) :
                  /\ cells[q].cell = "label" /\ N[q] = SubSeq(name, k, Len(name))
                  /\ full[Len(cells) + k] = Pointer(q)
    BY <2>4, <2>12, <2>15 DEF rest
  <2>17. \E N2, X2 : Follows(full, N2, X2, cells, N, X, name)
    <3>1. /\ Named(cells, N, X) /\ Len(cells) \in Nat /\ SafetyLimit \in Nat
          /\ name \in Seq(Labels) /\ 2 * Len(name) + 2 <= SafetyLimit
          /\ k \in 1..Len(name)+1 /\ Len(full) = Len(cells) + k
      BY <1>1, <2>12
    <3>2. QED
      BY ONLY <3>1, <2>13, <2>14, <2>16, NameAdded
  <2>18. QED
    BY <2>11, <2>17 DEF full
<1>5. QED
  BY <1>3, <1>4

-----------------------------------------------------------------------------
(***************************************************************************)
(* Records: where one lies is where it is read.                            *)
(***************************************************************************)
\* A record of the kinds there are.
IsRecord(rr) ==
    \/ \E n \in ShortNames, t \in ShortNames : rr = PTR(n, t)
    \/ \E n \in ShortNames, t \in ShortNames : \E num : rr = SRV(n, t, num)
    \/ \E n \in ShortNames : \E ip : rr = A(n, ip)
    \/ \E n \in ShortNames : rr = Other(n)

\* The record rr lies in a message between start and stop.
Lies(cells, N, X, start, rr, stop) ==
    /\ HasName(cells, N, X, start, rr.name)
    /\ LET f == X[start] IN
       /\ f \in 1..Len(cells) /\ f + 1 \in 1..Len(cells)
       /\ cells[f].type = rr.type /\ f + 1 + cells[f].rdLen = stop
       /\ rr.type = "PTR" => HasName(cells, N, X, f + 1, rr.target)
       /\ rr.type = "SRV" => cells[f + 1].port = rr.port /\ HasName(cells, N, X, f + 2, rr.target)
       /\ rr.type = "A" => cells[f + 1].ip = rr.ip

\* The state of the loop over the records.
ReadSoFar(start, records) == [at |-> start, rrs |-> records]

\* A record is read where it lies, and the next offset is where it ends.
LEMMA RecordIsRead ==
    ASSUME NEW cells, NEW N, NEW X, Named(cells, N, X), Len(cells) \in Nat, SafetyLimit \in Nat,
           NEW start, NEW rr, NEW stop, IsRecord(rr), Lies(cells, N, X, start, rr, stop), NEW records
    PROVE  ReadRecord(cells, ReadSoFar(start, records)) = ReadSoFar(stop, Append(records, rr))
<1> DEFINE f == X[start]
           data == f + 1
           s == [at |-> start, rrs |-> records]
<1>1. \A i, name : HasName(cells, N, X, i, name) =>
          ReadName(cells, i).name = name /\ ReadName(cells, i).next = X[i]
  BY ReadsNames DEF HasName
<1>2. /\ HasName(cells, N, X, start, rr.name)
      /\ cells[f].type = rr.type /\ data + cells[f].rdLen = stop
      /\ rr.type = "PTR" => HasName(cells, N, X, data, rr.target)
      /\ rr.type = "SRV" => cells[data].port = rr.port /\ HasName(cells, N, X, data + 1, rr.target)
      /\ rr.type = "A" => cells[data].ip = rr.ip
  <2>1. f \in Nat
    BY DEF Lies
  <2>2. f + 2 = data + 1
    BY <2>1
  <2>3. QED
    BY <2>2 DEF Lies
<1>3. ReadName(cells, start).name = rr.name /\ ReadName(cells, start).next = f
  BY <1>1, <1>2
<1>4. ~(s.at > Len(cells)) /\ s.at = start /\ s.rrs = records
  BY <1>2 DEF HasName
<1> DEFINE got == CASE cells[f].type = "PTR" -> PTR(rr.name, ReadName(cells, data).name)
                    [] cells[f].type = "SRV" -> SRV(rr.name, ReadName(cells, data + 1).name,
                                                    cells[data].port)
                    [] cells[f].type = "A" -> A(rr.name, cells[data].ip)
                    [] OTHER -> Other(rr.name)
<1>5. ReadRecord(cells, s) = [at |-> data + cells[f].rdLen, rrs |-> Append(records, got)]
  BY <1>3, <1>4 DEF ReadRecord
<1>6. got = rr
  <2>1. CASE \E n \in ShortNames, t \in ShortNames : rr = PTR(n, t)
    <3>1. PICK n, t : rr = PTR(n, t)
      BY <2>1
    <3>2. rr.type = "PTR" /\ rr.name = n /\ rr.target = t
      BY <3>1 DEF PTR
    <3>3. ReadName(cells, data).name = rr.target
      BY <1>1, <1>2, <3>2
    <3>4. QED
      BY <1>2, <3>1, <3>2, <3>3
  <2>2. CASE \E n \in ShortNames, t \in ShortNames : \E num : rr = SRV(n, t, num)
    <3>1. PICK n, t, num : rr = SRV(n, t, num)
      BY <2>2
    <3>2. rr.type = "SRV" /\ rr.name = n /\ rr.target = t /\ rr.port = num
      BY <3>1 DEF SRV
    <3>3. ReadName(cells, data + 1).name = rr.target /\ cells[data].port = num
      BY <1>1, <1>2, <3>2
    <3>4. QED
      BY <1>2, <3>1, <3>2, <3>3
  <2>3. CASE \E n \in ShortNames : \E ip : rr = A(n, ip)
    <3>1. PICK n, ip : rr = A(n, ip)
      BY <2>3
    <3>2. rr.type = "A" /\ rr.name = n /\ rr.ip = ip
      BY <3>1 DEF A
    <3>3. QED
      BY <1>2, <3>1, <3>2
  <2>4. CASE \E n \in ShortNames : rr = Other(n)
    <3>1. PICK n : rr = Other(n)
      BY <2>4
    <3>2. rr.type = "other" /\ rr.name = n
      BY <3>1 DEF Other
    <3>3. QED
      BY <1>2, <3>1, <3>2
  <2>5. QED
    BY <2>1, <2>2, <2>3, <2>4 DEF IsRecord
<1> HIDE DEF got
<1>7. QED
  BY <1>2, <1>5, <1>6 DEF ReadSoFar

\* A record stays where it lies.
LEMMA StillLies ==
    ASSUME NEW full, NEW N2, NEW X2, NEW cells, NEW N, NEW X, Beyond(full, N2, X2, cells, N, X),
           Len(cells) \in Nat, Len(full) \in Nat, NEW rr, NEW start, NEW stop,
           Lies(cells, N, X, start, rr, stop)
    PROVE  Lies(full, N2, X2, start, rr, stop)
<1>1. \A i \in 1..Len(cells) : i \in 1..Len(full) /\ full[i] = cells[i] /\ N2[i] = N[i] /\ X2[i] = X[i]
  BY DEF Beyond
<1>2. \A i, name : HasName(cells, N, X, i, name) => HasName(full, N2, X2, i, name)
  BY <1>1 DEF HasName
<1>3. start \in 1..Len(cells) /\ X2[start] = X[start]
  BY <1>1 DEF Lies, HasName
<1> DEFINE f == X[start]
<1>4. f \in 1..Len(cells) /\ f + 1 \in 1..Len(cells)
  BY DEF Lies
<1>5. full[f] = cells[f] /\ full[f + 1] = cells[f + 1] /\ f \in 1..Len(full) /\ f + 1 \in 1..Len(full)
  BY <1>1, <1>4
<1>6. QED
  BY <1>2, <1>3, <1>5 DEF Lies

\* A cell that is not of a name, behind what was there.
LEMMA OtherAdded ==
    ASSUME NEW cells, NEW N, NEW X, Named(cells, N, X), AnySeq(cells), NEW e, e.cell \notin NameCells
    PROVE  /\ AnySeq(Append(cells, e)) /\ Named(Append(cells, e), N, X)
           /\ Len(cells) \in Nat /\ Len(Append(cells, e)) = Len(cells) + 1
           /\ \A i \in 1..Len(cells) : Append(cells, e)[i] = cells[i]
           /\ Append(cells, e)[Len(cells) + 1] = e
<1> DEFINE full == Append(cells, e)
<1>1. /\ AnySeq(full) /\ Len(cells) \in Nat /\ Len(full) = Len(cells) + 1
      /\ \A i \in 1..Len(cells) : full[i] = cells[i]
      /\ full[Len(cells) + 1] = e
  BY AnyAppend
<1> HIDE DEF full
<1>2. Len(cells) \in Nat /\ Len(full) \in Nat /\ Len(cells) <= Len(full)
  BY <1>1
<1>3. \A i \in 1..Len(cells) : \/ full[i] = cells[i]
                               \/ cells[i].cell \notin NameCells /\ full[i].cell \notin NameCells
  BY <1>1
<1>4. \A i \in Len(cells)+1..Len(full) : full[i].cell \notin NameCells
  <2>1. \A i \in Len(cells)+1..Len(full) : i = Len(cells) + 1
    BY <1>1
  <2>2. QED
    BY <1>1, <2>1
<1>5. Named(cells, N, X)
  OBVIOUS
<1>6. Named(full, N, X)
  BY ONLY <1>2, <1>3, <1>4, <1>5, OthersDiffer
<1>7. QED
  BY <1>1, <1>6 DEF full

\* The data of a record, of the length that is written before it, which is known last.
DataLies(full, N, X, f, rr) ==
    /\ AnySeq(full) /\ Named(full, N, X) /\ f + 1 \in 1..Len(full)
    /\ rr.type = "PTR" => HasName(full, N, X, f + 1, rr.target)
    /\ rr.type = "SRV" => full[f + 1].port = rr.port /\ HasName(full, N, X, f + 2, rr.target)
    /\ rr.type = "A" => full[f + 1].ip = rr.ip

EncodeData(fixed, rr, packed) ==
    CASE rr.type = "PTR" -> EncodeName(fixed, rr.target, packed)
      [] rr.type = "SRV" -> EncodeName(Append(fixed, [cell |-> "port", port |-> rr.port]), rr.target, packed)
      [] rr.type = "A" -> Append(fixed, [cell |-> "ip", ip |-> rr.ip])
      [] OTHER -> Append(fixed, [cell |-> "data"])

LEMMA DataAdded ==
    ASSUME NEW fixed, NEW N, NEW X, Named(fixed, N, X), AnySeq(fixed), SafetyLimit \in Nat,
           NEW rr, IsRecord(rr), NEW packed
    PROVE  \E N2, X2 : /\ DataLies(EncodeData(fixed, rr, packed), N2, X2, Len(fixed), rr)
                       /\ Beyond(EncodeData(fixed, rr, packed), N2, X2, fixed, N, X)
<1> DEFINE full == EncodeData(fixed, rr, packed)
<1>1. Len(fixed) \in Nat
  BY AnySeqIs
<1>2. CASE \E n \in ShortNames, t \in ShortNames : rr = PTR(n, t)
  <2>1. PICK n \in ShortNames, t \in ShortNames : rr = PTR(n, t)
    BY <1>2
  <2>2. rr.type = "PTR" /\ rr.target = t
    BY <2>1 DEF PTR
  <2>3. full = EncodeName(fixed, t, packed)
    BY <2>2 DEF EncodeData
  <2> HIDE DEF full
  <2>4. AnySeq(full) /\ \E N2, X2 : Follows(full, N2, X2, fixed, N, X, t)
    BY <2>3, EncodeNameAdds
  <2>5. PICK N2, X2 : Follows(full, N2, X2, fixed, N, X, t)
    BY <2>4
  <2>6. HasName(full, N2, X2, Len(fixed) + 1, t) /\ Len(fixed) + 1 \in 1..Len(full)
    BY <2>5 DEF Follows, HasName
  <2>7. DataLies(full, N2, X2, Len(fixed), rr) /\ Beyond(full, N2, X2, fixed, N, X)
    BY <2>2, <2>4, <2>5, <2>6 DEF DataLies, Follows
  <2>8. QED
    BY <2>7 DEF full
<1>3. CASE \E n \in ShortNames, t \in ShortNames : \E num : rr = SRV(n, t, num)
  <2>1. PICK n, t, num : n \in ShortNames /\ t \in ShortNames /\ rr = SRV(n, t, num)
    BY <1>3
  <2>2. rr.type = "SRV" /\ rr.target = t /\ rr.port = num
    BY <2>1 DEF SRV
  <2> DEFINE e == [cell |-> "port", port |-> num]
             c == Append(fixed, e)
  <2>3. full = EncodeName(c, t, packed)
    BY <2>2 DEF EncodeData
  <2>4. e.cell \notin NameCells /\ e.port = num
    BY DEF NameCells
  <2> HIDE DEF full, e
  <2>5. /\ AnySeq(c) /\ Named(c, N, X) /\ Len(c) = Len(fixed) + 1
        /\ \A i \in 1..Len(fixed) : c[i] = fixed[i]
        /\ c[Len(fixed) + 1] = e
    BY <2>4, OtherAdded
  <2> HIDE DEF c
  <2>6. AnySeq(full) /\ \E N2, X2 : Follows(full, N2, X2, c, N, X, t)
    BY <2>1, <2>3, <2>5, EncodeNameAdds
  <2>7. PICK N2, X2 : Follows(full, N2, X2, c, N, X, t)
    BY <2>6
  <2>8. /\ Len(c) <= Len(full) /\ \A i \in 1..Len(c) : full[i] = c[i] /\ N2[i] = N[i] /\ X2[i] = X[i]
        /\ HasName(full, N2, X2, Len(c) + 1, t) /\ Named(full, N2, X2)
    BY <2>7 DEF Follows, Beyond
  <2>9. Len(fixed) + 1 \in 1..Len(c) /\ Len(c) + 1 = Len(fixed) + 2 /\ Len(full) \in Nat
    BY <1>1, <2>5, <2>6, AnySeqIs
  <2>10. Len(fixed) + 1 \in 1..Len(full) /\ full[Len(fixed) + 1] = e
    BY <2>5, <2>8, <2>9
  <2>11. DataLies(full, N2, X2, Len(fixed), rr)
    BY <2>2, <2>4, <2>6, <2>8, <2>9, <2>10 DEF DataLies
  <2>12. Beyond(full, N2, X2, fixed, N, X)
    <3>1. \A i \in 1..Len(fixed) : i \in 1..Len(c)
      BY <1>1, <2>5
    <3>2. Len(fixed) <= Len(full)
      BY <1>1, <2>5, <2>8, <2>9
    <3>3. QED
      BY <2>5, <2>8, <3>1, <3>2 DEF Beyond
  <2>13. QED
    BY <2>11, <2>12 DEF full
<1>4. ASSUME NEW e, e.cell \notin NameCells, full = Append(fixed, e), rr.type \notin {"PTR", "SRV"},
             rr.type = "A" => e.ip = rr.ip
      PROVE  \E N2, X2 : DataLies(full, N2, X2, Len(fixed), rr) /\ Beyond(full, N2, X2, fixed, N, X)
  <2> HIDE DEF full
  <2>1. /\ AnySeq(full) /\ Named(full, N, X) /\ Len(full) = Len(fixed) + 1
        /\ \A i \in 1..Len(fixed) : full[i] = fixed[i]
        /\ full[Len(fixed) + 1] = e
    BY <1>4, OtherAdded
  <2>2. Len(fixed) + 1 \in 1..Len(full) /\ Len(fixed) <= Len(full)
    BY <1>1, <2>1
  <2>3. DataLies(full, N, X, Len(fixed), rr) /\ Beyond(full, N, X, fixed, N, X)
    BY <1>4, <2>1, <2>2 DEF DataLies, Beyond
  <2>4. QED
    BY <2>3
<1>5. CASE \E n \in ShortNames : \E ip : rr = A(n, ip)
  <2>1. PICK n, ip : n \in ShortNames /\ rr = A(n, ip)
    BY <1>5
  <2> DEFINE e == [cell |-> "ip", ip |-> ip]
  <2>2. rr.type = "A" /\ rr.ip = ip
    BY <2>1 DEF A
  <2>3. e.cell \notin NameCells /\ e.ip = ip
    BY DEF NameCells
  <2>4. full = Append(fixed, e)
    BY <2>2 DEF EncodeData
  <2> HIDE DEF e, full
  <2>5. QED
    BY <1>4, <2>2, <2>3, <2>4 DEF full
<1>6. CASE \E n \in ShortNames : rr = Other(n)
  <2>1. rr.type = "other"
    BY <1>6 DEF Other
  <2> DEFINE e == [cell |-> "data"]
  <2>2. e.cell \notin NameCells
    BY DEF NameCells
  <2>3. full = Append(fixed, e)
    BY <2>1 DEF EncodeData
  <2> HIDE DEF e, full
  <2>4. QED
    BY <1>4, <2>1, <2>2, <2>3 DEF full
<1>7. QED
  BY <1>2, <1>3, <1>5, <1>6 DEF IsRecord

\* What EncodeRecord puts behind a message lies there.
LEMMA RecordAdded ==
    ASSUME NEW cells, NEW N, NEW X, Named(cells, N, X), AnySeq(cells), SafetyLimit \in Nat,
           NEW rr, IsRecord(rr), NEW packed
    PROVE  /\ AnySeq(EncodeRecord(cells, rr, packed))
           /\ \E N2, X2 :
                 /\ Named(EncodeRecord(cells, rr, packed), N2, X2)
                 /\ Beyond(EncodeRecord(cells, rr, packed), N2, X2, cells, N, X)
                 /\ Lies(EncodeRecord(cells, rr, packed), N2, X2, Len(cells) + 1, rr,
                         Len(EncodeRecord(cells, rr, packed)) + 1)
<1> DEFINE owner == EncodeName(cells, rr.name, packed)
           l == Len(cells)
           f == Len(owner) + 1
           e == [cell |-> "fixed", type |-> rr.type, rdLen |-> 0]
           fixed == Append(owner, e)
           data == EncodeData(fixed, rr, packed)
           len == Len(data) - Len(owner) - 1
           full == [data EXCEPT ![f].rdLen = len]
<1>1. EncodeRecord(cells, rr, packed) = full
  BY DEF EncodeRecord, EncodeData
<1>2. rr.name \in ShortNames
  BY DEF IsRecord, PTR, SRV, A, Other
<1> HIDE DEF owner
<1>3. AnySeq(owner) /\ \E N1, X1 : Follows(owner, N1, X1, cells, N, X, rr.name)
  BY <1>2, EncodeNameAdds DEF owner
<1>4. PICK N1, X1 : Follows(owner, N1, X1, cells, N, X, rr.name)
  BY <1>3
<1>5. /\ Named(owner, N1, X1) /\ Beyond(owner, N1, X1, cells, N, X)
      /\ HasName(owner, N1, X1, l + 1, rr.name) /\ X1[l + 1] = f
  BY <1>4 DEF Follows
<1>6. e.cell \notin NameCells /\ e.type = rr.type
  BY DEF NameCells
<1>7. /\ AnySeq(fixed) /\ Named(fixed, N1, X1) /\ Len(owner) \in Nat /\ Len(fixed) = f
      /\ \A i \in 1..Len(owner) : fixed[i] = owner[i]
      /\ fixed[f] = e
  <2> HIDE DEF e
  <2>1. QED
    BY <1>3, <1>5, <1>6, OtherAdded
<1> HIDE DEF fixed
<1>8. PICK N2, X2 : DataLies(data, N2, X2, f, rr) /\ Beyond(data, N2, X2, fixed, N1, X1)
  BY <1>7, DataAdded
<1> HIDE DEF data
<1>9. /\ AnySeq(data) /\ Named(data, N2, X2) /\ f + 1 \in 1..Len(data) /\ Len(data) \in Nat
      /\ f \in 1..Len(data)
  BY <1>7, <1>8, AnySeqIs DEF DataLies
<1>10. data[f] = e /\ \A i \in 1..Len(owner) : data[i] = owner[i] /\ N2[i] = N1[i] /\ X2[i] = X1[i]
  <2>1. f \in 1..Len(fixed) /\ \A i \in 1..Len(owner) : i \in 1..Len(fixed)
    BY <1>7
  <2>2. \A i \in 1..Len(fixed) : data[i] = fixed[i] /\ N2[i] = N1[i] /\ X2[i] = X1[i]
    BY <1>8 DEF Beyond
  <2>3. QED
    BY <1>7, <2>1, <2>2
<1> DEFINE e2 == [e EXCEPT !.rdLen = len]
<1>11. full = [data EXCEPT ![f] = e2]
  BY <1>10
<1>12. e2.cell \notin NameCells /\ e2.type = rr.type /\ e2.rdLen = len
  BY DEF NameCells
<1> HIDE DEF full, e2, e
<1>13. /\ AnySeq(full) /\ Len(full) = Len(data)
       /\ \A i \in 1..Len(data) : full[i] = IF i = f THEN e2 ELSE data[i]
  <2>1. AnySeq(data) /\ f \in 1..Len(data)
    BY <1>9
  <2> HIDE DEF f
  <2>2. full = [data EXCEPT ![f] = e2]
    BY ONLY <1>11
  <2>3. AnySeq(full)
    BY ONLY <2>2, <2>1, AnyExcept
  <2>4. Len(full) = Len(data)
    BY ONLY <2>2, <2>1, AnyExcept
  <2>5. \A i \in 1..Len(data) : full[i] = IF i = f THEN e2 ELSE data[i]
    BY ONLY <2>2, <2>1, AnyExcept
  <2>6. QED
    BY <2>3, <2>4, <2>5
<1>14. full[f] = e2 /\ \A i \in 1..Len(data) : i # f => full[i] = data[i]
  BY <1>9, <1>13
<1>15. Named(full, N2, X2)
  <2>1. Named(data, N2, X2) /\ Len(data) \in Nat /\ Len(full) \in Nat /\ Len(data) <= Len(full)
    BY <1>9, <1>13
  <2>2. \A i \in 1..Len(data) : \/ full[i] = data[i]
                                \/ data[i].cell \notin NameCells /\ full[i].cell \notin NameCells
    BY <1>6, <1>10, <1>12, <1>14
  <2>3. \A i \in Len(data)+1..Len(full) : full[i].cell \notin NameCells
    BY <1>9, <1>13
  <2>4. QED
    BY ONLY <2>1, <2>2, <2>3, OthersDiffer
<1>16. \A i \in 1..Len(owner) : i \in 1..Len(full) /\ i # f /\ full[i] = owner[i]
                                /\ N2[i] = N1[i] /\ X2[i] = X1[i]
  <2>1. \A i \in 1..Len(owner) : i # f /\ i \in 1..Len(data)
    BY <1>7, <1>9
  <2>2. QED
    BY <1>10, <1>13, <1>14, <2>1
<1>17. Beyond(full, N2, X2, cells, N, X)
  <2>1. l \in Nat /\ l <= Len(owner) /\ \A i \in 1..l : owner[i] = cells[i] /\ N1[i] = N[i] /\ X1[i] = X[i]
    BY <1>5, AnySeqIs DEF Beyond
  <2>2. \A i \in 1..l : i \in 1..Len(owner)
    BY <1>7, <2>1
  <2>3. l <= Len(full)
    BY <1>7, <1>9, <1>13, <2>1
  <2>4. QED
    BY <1>16, <2>1, <2>2, <2>3 DEF Beyond
<1>18. Lies(full, N2, X2, l + 1, rr, Len(full) + 1)
  <2>1. HasName(full, N2, X2, l + 1, rr.name) /\ X2[l + 1] = f
    BY <1>5, <1>16 DEF HasName
  <2>2. f \in 1..Len(full) /\ f + 1 \in 1..Len(full) /\ full[f].type = rr.type
    BY <1>9, <1>12, <1>13, <1>14
  <2>3. f + 1 + full[f].rdLen = Len(full) + 1
    <3>1. full[f].rdLen = len
      BY <1>12, <1>14
    <3>2. f + 1 + len = Len(data) + 1
      BY <1>7, <1>9
    <3>3. QED
      BY <1>13, <3>1, <3>2
  <2>4. \A i, name : HasName(data, N2, X2, i, name) => HasName(full, N2, X2, i, name)
    BY <1>6, <1>10, <1>13, <1>14 DEF HasName
  <2>5. full[f + 1] = data[f + 1]
    <3>1. f + 1 # f
      BY <1>7
    <3>2. QED
      BY <1>9, <1>14, <3>1
  <2>6. /\ rr.type = "PTR" => HasName(full, N2, X2, f + 1, rr.target)
        /\ rr.type = "SRV" => full[f + 1].port = rr.port /\ HasName(full, N2, X2, f + 2, rr.target)
        /\ rr.type = "A" => full[f + 1].ip = rr.ip
    BY <1>8, <2>4, <2>5 DEF DataLies
  <2>7. QED
    BY <2>1, <2>2, <2>3, <2>6 DEF Lies
<1>19. QED
  BY <1>1, <1>13, <1>15, <1>17, <1>18

-----------------------------------------------------------------------------
(***************************************************************************)
(* Messages.                                                               *)
(***************************************************************************)
\* nq questions and the first nr of the records records lie in a message, in their order.
LaidOut(cells, N, X, a, nq, b, records, nr) ==
    /\ Named(cells, N, X) /\ AnySeq(cells)
    /\ a[0] = 1
    /\ \A q \in 1..nq : \E name : HasName(cells, N, X, a[q - 1], name) /\ a[q] = X[a[q - 1]] + 1
    /\ b[0] = a[nq]
    /\ \A n \in 1..nr : Lies(cells, N, X, b[n - 1], records[n], b[n])
    /\ b[nr] = Len(cells) + 1

Laid(cells, nq, records, nr) == \E N, X, a, b : LaidOut(cells, N, X, a, nq, b, records, nr)

\* Both loops of the parser, over a message that is laid out like that.
LEMMA LaidIsRead ==
    ASSUME NEW cells, NEW nq \in Nat, NEW S, NEW records \in Seq(S), SafetyLimit \in Nat,
           \A n \in 1..Len(records) : IsRecord(records[n]),
           Laid(cells, nq, records, Len(records))
    PROVE  ReadRecords(cells, nq, Len(records)) = records
<1> DEFINE nr == Len(records)
<1>1. PICK N, X, a, b : LaidOut(cells, N, X, a, nq, b, records, nr)
  BY DEF Laid
<1>2. Named(cells, N, X) /\ Len(cells) \in Nat /\ nr \in Nat
  BY <1>1, AnySeqIs DEF LaidOut
<1>3. SkipQuestions(cells, nq) = a[nq]
  <2> DEFINE after[q \in 0..nq] == IF q = 0 THEN 1 ELSE ReadName(cells, after[q - 1]).next + 1
             known == [q \in 0..nq |-> a[q]]
             P == {q \in 0..nq : after[q] = a[q]}
  <2>1. SkipQuestions(cells, nq) = after[nq]
    BY DEF SkipQuestions
  <2>2. a[0] = 1 /\ \A q \in 1..nq : a[q] = ReadName(cells, a[q - 1]).next + 1
    <3>1. \A i, name : HasName(cells, N, X, i, name) => ReadName(cells, i).next = X[i]
      BY <1>2, ReadsNames DEF HasName
    <3>2. QED
      BY <1>1, <3>1 DEF LaidOut
  <2>3. \E f : f = [q \in 0..nq |-> IF q = 0 THEN 1 ELSE ReadName(cells, f[q - 1]).next + 1]
    <3>1. \A q \in 0..nq : q = 0 \/ (q \in 1..nq /\ q - 1 \in 0..nq)
      OBVIOUS
    <3>2. \A q \in 0..nq : known[q] = IF q = 0 THEN 1 ELSE ReadName(cells, known[q - 1]).next + 1
      BY <2>2, <3>1
    <3>3. known = [q \in 0..nq |-> IF q = 0 THEN 1 ELSE ReadName(cells, known[q - 1]).next + 1]
      BY <3>2
    <3>4. QED
      BY <3>3
  <2>4. after = [q \in 0..nq |-> IF q = 0 THEN 1 ELSE ReadName(cells, after[q - 1]).next + 1]
    BY <2>3, Zenon
  <2> HIDE DEF after
  <2>5. 0 \in P
    BY <2>2, <2>4
  <2>6. \A q \in 1..nq : q - 1 \in P => q \in P
    BY <2>2, <2>4
  <2> HIDE DEF P
  <2>7. \A q \in 0..nq : q \in P
    BY <2>5, <2>6, InductionUpTo
  <2>8. QED
    BY <2>1, <2>7 DEF P
<1>4. ReadRecords(cells, nq, nr) = records
  <2> DEFINE after[n \in 0..nr] ==
                 IF n = 0 THEN [at |-> SkipQuestions(cells, nq), rrs |-> <<>>]
                 ELSE ReadRecord(cells, after[n - 1])
             first(n) == ReadSoFar(b[n], SubSeq(records, 1, n))
             known == [n \in 0..nr |-> first(n)]
             P == {n \in 0..nr : after[n] = first(n)}
  <2>1. ReadRecords(cells, nq, nr) = after[nr].rrs
    BY DEF ReadRecords
  <2>2. first(0) = [at |-> SkipQuestions(cells, nq), rrs |-> <<>>]
    BY <1>1, <1>3 DEF LaidOut, ReadSoFar
  <2>3. \A n \in 1..nr : first(n) = ReadRecord(cells, first(n - 1))
    <3> SUFFICES ASSUME NEW n \in 1..nr PROVE first(n) = ReadRecord(cells, first(n - 1))
      OBVIOUS
    <3>1. Lies(cells, N, X, b[n - 1], records[n], b[n]) /\ IsRecord(records[n])
      BY <1>1 DEF LaidOut
    <3>2. ReadRecord(cells, ReadSoFar(b[n - 1], SubSeq(records, 1, n - 1)))
            = ReadSoFar(b[n], Append(SubSeq(records, 1, n - 1), records[n]))
      <4>1. /\ Named(cells, N, X) /\ Len(cells) \in Nat /\ SafetyLimit \in Nat /\ IsRecord(records[n])
            /\ Lies(cells, N, X, b[n - 1], records[n], b[n])
        BY <1>2, <3>1
      <4>2. QED
        BY ONLY <4>1, RecordIsRead
    <3>3. Append(SubSeq(records, 1, n - 1), records[n]) = SubSeq(records, 1, n)
      OBVIOUS
    <3>4. QED
      BY <3>2, <3>3
  <2> HIDE DEF first
  <2>4. \E f : f = [n \in 0..nr |-> IF n = 0 THEN [at |-> SkipQuestions(cells, nq), rrs |-> <<>>]
                                    ELSE ReadRecord(cells, f[n - 1])]
    <3>1. \A n \in 0..nr : n = 0 \/ (n \in 1..nr /\ n - 1 \in 0..nr)
      BY <1>2
    <3>2. \A n \in 0..nr : known[n] = IF n = 0 THEN [at |-> SkipQuestions(cells, nq), rrs |-> <<>>]
                                      ELSE ReadRecord(cells, known[n - 1])
      BY <2>2, <2>3, <3>1
    <3>3. known = [n \in 0..nr |-> IF n = 0 THEN [at |-> SkipQuestions(cells, nq), rrs |-> <<>>]
                                   ELSE ReadRecord(cells, known[n - 1])]
      BY <3>2
    <3>4. QED
      BY <3>3
  <2>5. after = [n \in 0..nr |-> IF n = 0 THEN [at |-> SkipQuestions(cells, nq), rrs |-> <<>>]
                                 ELSE ReadRecord(cells, after[n - 1])]
    BY <2>4, Zenon
  <2> HIDE DEF after
  <2>6. 0 \in P
    BY <1>2, <2>2, <2>5
  <2>7. \A n \in 1..nr : n - 1 \in P => n \in P
    BY <1>2, <2>3, <2>5
  <2> HIDE DEF P
  <2>8. \A n \in 0..nr : n \in P
    BY <1>2, <2>6, <2>7, InductionUpTo
  <2>9. after[nr] = first(nr)
    BY <1>2, <2>8 DEF P
  <2>10. SubSeq(records, 1, nr) = records
    BY SubSeqFull
  <2>11. QED
    BY <2>1, <2>9, <2>10 DEF first, ReadSoFar
<1>5. QED
  BY <1>4

\* The empty message.
LEMMA NothingLaid ==
    ASSUME NEW records
    PROVE  Laid(<<>>, 0, records, 0)
<1> DEFINE a == [q \in {0} |-> 1]
<1>1. a[0] = 1
  OBVIOUS
<1> HIDE DEF a
<1>2. AnySeq(<<>>) /\ Len(<<>>) = 0
  <2>1. <<>> \in Seq({})
    OBVIOUS
  <2>2. QED
    BY <2>1 DEF AnySeq
<1>3. Named(<<>>, a, a)
  <2>1. 1..0 = {}
    OBVIOUS
  <2>2. QED
    BY <1>2, <2>1 DEF Named
<1>4. LaidOut(<<>>, a, a, a, 0, a, records, 0)
  BY <1>1, <1>2, <1>3 DEF LaidOut
<1>5. QED
  BY <1>4 DEF Laid

\* A question behind the questions.
LEMMA QuestionLaid ==
    ASSUME NEW cells, NEW nq \in Nat, NEW records, Laid(cells, nq, records, 0), SafetyLimit \in Nat,
           NEW name \in ShortNames, NEW packed
    PROVE  Laid(Append(EncodeName(cells, name, packed), [cell |-> "question"]), nq + 1, records, 0)
<1> DEFINE owner == EncodeName(cells, name, packed)
           e == [cell |-> "question"]
           full == Append(owner, e)
<1>1. PICK N, X, a, b : LaidOut(cells, N, X, a, nq, b, records, 0)
  BY DEF Laid
<1>2. Named(cells, N, X) /\ AnySeq(cells) /\ Len(cells) \in Nat /\ a[nq] = Len(cells) + 1 /\ a[0] = 1
  BY <1>1, AnySeqIs DEF LaidOut
<1> HIDE DEF owner
<1>3. AnySeq(owner) /\ \E N2, X2 : Follows(owner, N2, X2, cells, N, X, name)
  BY <1>2, EncodeNameAdds DEF owner
<1>4. PICK N2, X2 : Follows(owner, N2, X2, cells, N, X, name)
  BY <1>3
<1>5. e.cell \notin NameCells
  BY DEF NameCells
<1>6. /\ AnySeq(full) /\ Named(full, N2, X2) /\ Len(owner) \in Nat /\ Len(full) = Len(owner) + 1
      /\ \A i \in 1..Len(owner) : full[i] = owner[i]
  <2> HIDE DEF e
  <2>1. Named(owner, N2, X2)
    BY <1>4 DEF Follows
  <2>2. QED
    BY <1>3, <1>5, <2>1, OtherAdded
<1> HIDE DEF full
<1>7. /\ HasName(full, N2, X2, Len(cells) + 1, name) /\ X2[Len(cells) + 1] = Len(owner) + 1
      /\ \A i, n : HasName(cells, N, X, i, n) => HasName(full, N2, X2, i, n) /\ X2[i] = X[i]
  <2>1. \A i \in 1..Len(owner) : i \in 1..Len(full)
    BY <1>6
  <2>2. \A i \in 1..Len(cells) : i \in 1..Len(owner)
    BY <1>2, <1>4, <1>6 DEF Follows, Beyond
  <2>3. \A i, n : HasName(owner, N2, X2, i, n) => HasName(full, N2, X2, i, n)
    BY <1>6, <2>1 DEF HasName
  <2>4. \A i, n : HasName(cells, N, X, i, n) => HasName(owner, N2, X2, i, n) /\ X2[i] = X[i]
    BY <1>4, <2>2 DEF Follows, Beyond, HasName
  <2>5. HasName(owner, N2, X2, Len(cells) + 1, name) /\ X2[Len(cells) + 1] = Len(owner) + 1
    BY <1>4 DEF Follows
  <2>6. QED
    BY <2>3, <2>4, <2>5
<1> DEFINE stop == Len(full) + 1
           a2 == [q \in 0..nq+1 |-> IF q = nq + 1 THEN stop ELSE a[q]]
           b2 == [n \in {0} |-> stop]
<1>8. a2[nq + 1] = stop /\ \A q \in 0..nq : a2[q] = a[q]
  BY \A q \in 0..nq : q \in 0..nq+1 /\ q # nq + 1
<1>9. b2[0] = stop
  OBVIOUS
<1> HIDE DEF a2, b2
<1>10. \A q \in 1..nq+1 : \E m : HasName(full, N2, X2, a2[q - 1], m) /\ a2[q] = X2[a2[q - 1]] + 1
  <2> SUFFICES ASSUME NEW q \in 1..nq+1
               PROVE  \E m : HasName(full, N2, X2, a2[q - 1], m) /\ a2[q] = X2[a2[q - 1]] + 1
    OBVIOUS
  <2>1. CASE q = nq + 1
    <3>1. q - 1 = nq /\ nq \in 0..nq
      BY <2>1
    <3>2. a2[q - 1] = Len(cells) + 1
      BY <1>2, <1>8, <3>1
    <3>3. a2[q] = Len(owner) + 1 + 1
      BY <1>6, <1>8, <2>1
    <3>4. QED
      BY <1>7, <3>2, <3>3
  <2>2. CASE q # nq + 1
    <3>1. q \in 1..nq /\ q \in 0..nq /\ q - 1 \in 0..nq
      BY <2>2
    <3>2. PICK m : HasName(cells, N, X, a[q - 1], m) /\ a[q] = X[a[q - 1]] + 1
      BY <1>1, <3>1 DEF LaidOut
    <3>3. HasName(full, N2, X2, a[q - 1], m) /\ X2[a[q - 1]] = X[a[q - 1]]
      BY <1>7, <3>2
    <3>4. QED
      BY <1>8, <3>1, <3>2, <3>3
  <2>3. QED
    BY <2>1, <2>2
<1>11. LaidOut(full, N2, X2, a2, nq + 1, b2, records, 0)
  <2>1. a2[0] = 1
    BY <1>2, <1>8
  <2>2. \A n \in 1..0 : Lies(full, N2, X2, b2[n - 1], records[n], b2[n])
    OBVIOUS
  <2>3. QED
    BY <1>6, <1>8, <1>9, <1>10, <2>1, <2>2 DEF LaidOut
<1>12. QED
  BY <1>11 DEF Laid, full, owner

\* A record behind the records.
LEMMA RecordLaid ==
    ASSUME NEW cells, NEW nq \in Nat, NEW records, NEW nr \in Nat, Laid(cells, nq, records, nr),
           SafetyLimit \in Nat, IsRecord(records[nr + 1]), NEW packed
    PROVE  Laid(EncodeRecord(cells, records[nr + 1], packed), nq, records, nr + 1)
<1> DEFINE rr == records[nr + 1]
           full == EncodeRecord(cells, rr, packed)
<1>1. PICK N, X, a, b : LaidOut(cells, N, X, a, nq, b, records, nr)
  BY DEF Laid
<1>2. Named(cells, N, X) /\ AnySeq(cells) /\ Len(cells) \in Nat /\ b[nr] = Len(cells) + 1 /\ a[0] = 1
  BY <1>1, AnySeqIs DEF LaidOut
<1>3. /\ AnySeq(full)
      /\ \E N2, X2 : /\ Named(full, N2, X2) /\ Beyond(full, N2, X2, cells, N, X)
                     /\ Lies(full, N2, X2, Len(cells) + 1, rr, Len(full) + 1)
  <2> HIDE DEF rr
  <2>1. IsRecord(rr)
    BY DEF rr
  <2>2. QED
    BY <1>2, <2>1, RecordAdded
<1>4. PICK N2, X2 : /\ Named(full, N2, X2) /\ Beyond(full, N2, X2, cells, N, X)
                    /\ Lies(full, N2, X2, Len(cells) + 1, rr, Len(full) + 1)
  BY <1>3
<1> HIDE DEF full, rr
<1>5. Len(full) \in Nat
  BY <1>3, AnySeqIs
<1> DEFINE stop == Len(full) + 1
           b2 == [n \in 0..nr+1 |-> IF n = nr + 1 THEN stop ELSE b[n]]
<1>6. b2[nr + 1] = stop /\ \A n \in 0..nr : b2[n] = b[n]
  BY \A n \in 0..nr : n \in 0..nr+1 /\ n # nr + 1
<1> HIDE DEF b2
<1>7. \A n \in 1..nr+1 : Lies(full, N2, X2, b2[n - 1], records[n], b2[n])
  <2> SUFFICES ASSUME NEW n \in 1..nr+1 PROVE Lies(full, N2, X2, b2[n - 1], records[n], b2[n])
    OBVIOUS
  <2>1. CASE n = nr + 1
    <3>1. n - 1 = nr /\ nr \in 0..nr
      BY <2>1
    <3>2. b2[n - 1] = Len(cells) + 1 /\ b2[n] = stop /\ records[n] = rr
      BY <1>2, <1>6, <2>1, <3>1 DEF rr
    <3>3. QED
      BY <1>4, <3>2
  <2>2. CASE n # nr + 1
    <3>1. n \in 1..nr /\ n \in 0..nr /\ n - 1 \in 0..nr
      BY <2>2
    <3>2. Lies(cells, N, X, b[n - 1], records[n], b[n])
      BY <1>1, <3>1 DEF LaidOut
    <3>3. Lies(full, N2, X2, b[n - 1], records[n], b[n])
      BY <1>2, <1>4, <1>5, <3>2, StillLies
    <3>4. QED
      BY <1>6, <3>1, <3>3
  <2>3. QED
    BY <2>1, <2>2
<1>8. \A q \in 1..nq : \E m : HasName(full, N2, X2, a[q - 1], m) /\ a[q] = X2[a[q - 1]] + 1
  <2>1. \A i \in 1..Len(cells) : i \in 1..Len(full)
    BY <1>2, <1>4, <1>5 DEF Beyond
  <2>2. \A i, n : HasName(cells, N, X, i, n) => HasName(full, N2, X2, i, n) /\ X2[i] = X[i]
    BY <1>4, <2>1 DEF Beyond, HasName
  <2>3. \A q \in 1..nq : \E m : HasName(cells, N, X, a[q - 1], m) /\ a[q] = X[a[q - 1]] + 1
    BY <1>1 DEF LaidOut
  <2>4. QED
    BY <2>2, <2>3
<1>9. LaidOut(full, N2, X2, a, nq, b2, records, nr + 1)
  <2>1. b2[0] = a[nq]
    BY <1>1, <1>6 DEF LaidOut
  <2>2. QED
    BY <1>2, <1>3, <1>4, <1>6, <1>7, <1>8, <2>1 DEF LaidOut
<1>10. QED
  BY <1>9 DEF Laid, full, rr

-----------------------------------------------------------------------------
\* What the responder puts into a message with Encode.
LEMMA EncodeLays ==
    ASSUME SafetyLimit \in Nat, NEW questions \in Seq(ShortNames), NEW S, NEW records \in Seq(S),
           \A n \in 1..Len(records) : IsRecord(records[n]), NEW packed
    PROVE  Laid(Encode(questions, records, packed), Len(questions), records, Len(records))
<1> DEFINE nq == Len(questions)
           nr == Len(records)
           AskFor(cells, q) == Append(EncodeName(cells, questions[q], packed), [cell |-> "question"])
           asking[q \in 0..nq] == IF q = 0 THEN <<>> ELSE AskFor(asking[q - 1], q)
           Put(cells, n) == EncodeRecord(cells, records[n], packed)
           cells[n \in 0..nr] == IF n = 0 THEN asking[nq] ELSE Put(cells[n - 1], n)
<1>1. Encode(questions, records, packed) = cells[nr]
  BY DEF Encode
<1>2. nq \in Nat /\ nr \in Nat /\ \A q \in 1..nq : questions[q] \in ShortNames
  OBVIOUS
<1>3. \A c, q : Laid(c, q - 1, records, 0) /\ q \in 1..nq => Laid(AskFor(c, q), q, records, 0)
  <2> SUFFICES ASSUME NEW c, NEW q \in 1..nq, Laid(c, q - 1, records, 0)
               PROVE  Laid(AskFor(c, q), q, records, 0)
    OBVIOUS
  <2>1. q - 1 \in Nat /\ (q - 1) + 1 = q /\ questions[q] \in ShortNames
    BY <1>2
  <2>2. Laid(AskFor(c, q), (q - 1) + 1, records, 0)
    BY <2>1, QuestionLaid
  <2>3. QED
    BY <2>1, <2>2
<1>4. \A c, n : Laid(c, nq, records, n - 1) /\ n \in 1..nr => Laid(Put(c, n), nq, records, n)
  <2> SUFFICES ASSUME NEW c, NEW n \in 1..nr, Laid(c, nq, records, n - 1)
               PROVE  Laid(Put(c, n), nq, records, n)
    OBVIOUS
  <2> DEFINE m == n - 1
  <2>1. m \in Nat /\ n = m + 1 /\ IsRecord(records[m + 1]) /\ Laid(c, nq, records, m)
    BY <1>2
  <2> HIDE DEF m
  <2>2. Laid(EncodeRecord(c, records[m + 1], packed), nq, records, m + 1)
    BY <1>2, <2>1, RecordLaid
  <2>3. QED
    BY <2>1, <2>2
<1> HIDE DEF AskFor, Put, nq, nr
<1>5. Laid(asking[nq], nq, records, 0)
  <2> DEFINE Good(m, f) == f = [q \in 0..m |-> IF q = 0 THEN <<>> ELSE AskFor(f[q - 1], q)]
             P == {m \in 0..nq : \E f : Good(m, f)}
  <2>1. 0 \in P
    <3>1. Good(0, [q \in 0..0 |-> <<>>])
      OBVIOUS
    <3>2. QED
      <4> HIDE DEF Good
      <4>1. QED
        BY <1>2, <3>1
  <2>2. \A m \in 1..nq : m - 1 \in P => m \in P
    <3> SUFFICES ASSUME NEW m \in 1..nq, NEW f, Good(m - 1, f)
                 PROVE  \E g : Good(m, g)
      <4> HIDE DEF Good
      <4>1. QED
        BY <1>2
    <3> DEFINE g == [q \in 0..m |-> IF q = 0 THEN <<>> ELSE AskFor(f[q - 1], q)]
    <3>1. \A q \in 0..m : q = 0 \/ q - 1 \in 0..m-1
      OBVIOUS
    <3>2. \A q \in 0..m-1 : f[q] = IF q = 0 THEN <<>> ELSE AskFor(f[q - 1], q)
      OBVIOUS
    <3>3. \A q \in 0..m-1 : g[q] = IF q = 0 THEN <<>> ELSE AskFor(f[q - 1], q)
      OBVIOUS
    <3>4. \A q \in 0..m : g[q] = IF q = 0 THEN <<>> ELSE AskFor(f[q - 1], q)
      OBVIOUS
    <3>5. g = [q \in 0..m |-> g[q]]
      OBVIOUS
    <3> HIDE DEF g
    <3>6. \A q \in 0..m : g[q] = IF q = 0 THEN <<>> ELSE AskFor(g[q - 1], q)
      BY <3>1, <3>2, <3>3, <3>4
    <3>7. Good(m, g)
      BY <3>5, <3>6
    <3>8. QED
      BY <3>7
  <2> HIDE DEF P
  <2>3. \A m \in 0..nq : m \in P
    BY <1>2, <2>1, <2>2, InductionUpTo
  <2>4. PICK f : Good(nq, f)
    <3> HIDE DEF Good
    <3>1. QED
      BY <1>2, <2>3 DEF P
  <2>5. Good(nq, asking)
    BY <2>4, Zenon
  <2>6. \A q \in 0..nq : asking[q] = IF q = 0 THEN <<>> ELSE AskFor(asking[q - 1], q)
    BY <2>5
  <2> HIDE DEF asking, Good
  <2> DEFINE Q == {q \in 0..nq : Laid(asking[q], q, records, 0)}
  <2>7. 0 \in Q
    BY <1>2, <2>6, NothingLaid
  <2>8. \A q \in 1..nq : q - 1 \in Q => q \in Q
    BY <1>3, <2>6
  <2> HIDE DEF Q
  <2>9. \A q \in 0..nq : q \in Q
    BY <1>2, <2>7, <2>8, InductionUpTo
  <2>10. QED
    BY <1>2, <2>9 DEF Q
<1> HIDE DEF asking
<1>6. Laid(cells[nr], nq, records, nr)
  <2> DEFINE Good(m, f) == f = [n \in 0..m |-> IF n = 0 THEN asking[nq] ELSE Put(f[n - 1], n)]
             P == {m \in 0..nr : \E f : Good(m, f)}
  <2>1. 0 \in P
    <3>1. Good(0, [n \in 0..0 |-> asking[nq]])
      OBVIOUS
    <3>2. QED
      <4> HIDE DEF Good
      <4>1. QED
        BY <1>2, <3>1
  <2>2. \A m \in 1..nr : m - 1 \in P => m \in P
    <3> SUFFICES ASSUME NEW m \in 1..nr, NEW f, Good(m - 1, f)
                 PROVE  \E g : Good(m, g)
      <4> HIDE DEF Good
      <4>1. QED
        BY <1>2
    <3> DEFINE g == [n \in 0..m |-> IF n = 0 THEN asking[nq] ELSE Put(f[n - 1], n)]
    <3>1. \A n \in 0..m : n = 0 \/ n - 1 \in 0..m-1
      OBVIOUS
    <3>2. \A n \in 0..m-1 : f[n] = IF n = 0 THEN asking[nq] ELSE Put(f[n - 1], n)
      OBVIOUS
    <3>3. \A n \in 0..m-1 : g[n] = IF n = 0 THEN asking[nq] ELSE Put(f[n - 1], n)
      OBVIOUS
    <3>4. \A n \in 0..m : g[n] = IF n = 0 THEN asking[nq] ELSE Put(f[n - 1], n)
      OBVIOUS
    <3>5. g = [n \in 0..m |-> g[n]]
      OBVIOUS
    <3> HIDE DEF g
    <3>6. \A n \in 0..m : g[n] = IF n = 0 THEN asking[nq] ELSE Put(g[n - 1], n)
      BY <3>1, <3>2, <3>3, <3>4
    <3>7. Good(m, g)
      BY <3>5, <3>6
    <3>8. QED
      BY <3>7
  <2> HIDE DEF P
  <2>3. \A m \in 0..nr : m \in P
    BY <1>2, <2>1, <2>2, InductionUpTo
  <2>4. PICK f : Good(nr, f)
    BY <1>2, <2>3 DEF P
  <2>5. Good(nr, cells)
    BY <2>4, Zenon
  <2>6. \A n \in 0..nr : cells[n] = IF n = 0 THEN asking[nq] ELSE Put(cells[n - 1], n)
    BY <2>5
  <2> HIDE DEF cells, Good
  <2> DEFINE Q == {n \in 0..nr : Laid(cells[n], nq, records, n)}
  <2>7. 0 \in Q
    BY <1>2, <1>5, <2>6
  <2>8. \A n \in 1..nr : n - 1 \in Q => n \in Q
    BY <1>4, <2>6
  <2> HIDE DEF Q
  <2>9. \A n \in 0..nr : n \in Q
    BY <1>2, <2>7, <2>8, InductionUpTo
  <2>10. QED
    BY <1>2, <2>9 DEF Q
<1>7. QED
  BY <1>1, <1>6 DEF nq, nr

\* The parser reads in a message what the responder has put into it: whatever the questions
\* and the records, if readDnsName may take enough steps for every name.
THEOREM MessageIsRead ==
    ASSUME SafetyLimit \in Nat, NEW questions \in Seq(ShortNames), NEW S, NEW records \in Seq(S),
           \A n \in 1..Len(records) : IsRecord(records[n]), NEW packed
    PROVE  ReadRecords(Encode(questions, records, packed), Len(questions), Len(records)) = records
<1>1. Len(questions) \in Nat /\ Laid(Encode(questions, records, packed), Len(questions), records, Len(records))
  BY EncodeLays
<1>2. QED
  BY <1>1, LaidIsRead

-----------------------------------------------------------------------------
(***************************************************************************)
(* What the phone sends.                                                   *)
(***************************************************************************)
\* The records that the responder has of registration r.
RecordsOf(r, p) == {OurPtr(r), OurSrv(r, p), Other(Host), Wifi, Vpn, AdbSrv, AdbPtr}

\* Sequences of up to four.
LEMMA Tuples ==
    ASSUME NEW S
    PROVE  /\ <<>> \in Seq(S)
           /\ \A w \in S : <<w>> \in Seq(S) /\ Len(<<w>>) = 1
           /\ \A w, x \in S : <<w, x>> \in Seq(S) /\ Len(<<w, x>>) = 2
           /\ \A w, x, y \in S : <<w, x, y>> \in Seq(S) /\ Len(<<w, x, y>>) = 3
           /\ \A w, x, y, z \in S : <<w, x, y, z>> \in Seq(S) /\ Len(<<w, x, y, z>>) = 4
OBVIOUS

\* The names of the phone are read to their end.
LEMMA NamesAreShort ==
    /\ ServiceType \in ShortNames /\ Host \in ShortNames /\ Adb \in ShortNames
    /\ <<"_adb-tls-connect", "_tcp", "local">> \in ShortNames
    /\ \A r \in Regs : Instance(r) \in ShortNames
<1>1. SafetyLimit \in Nat /\ SafetyLimit >= 10
  BY SafetyAssumption
<1>2. \A name \in Seq(Labels) : Len(name) \in 0..4 => name \in ShortNames
  <2>1. \A n \in 0..4 : 2 * n + 2 <= SafetyLimit
    BY <1>1
  <2>2. QED
    BY <2>1 DEF ShortNames
<1>3. ServiceType \in Seq(Labels) /\ Len(ServiceType) = 3
  <2>1. "_phonewebcam" \in Labels /\ "_udp" \in Labels /\ "local" \in Labels
    BY DEF Labels
  <2>2. QED
    BY <2>1, Tuples DEF ServiceType
<1>4. Host \in Seq(Labels) /\ Len(Host) = 2
  <2>1. "phone" \in Labels /\ "local" \in Labels
    BY DEF Labels
  <2>2. QED
    BY <2>1, Tuples DEF Host
<1>5. Adb \in Seq(Labels) /\ Len(Adb) = 4
  <2>1. "adb" \in Labels /\ "_adb-tls-connect" \in Labels /\ "_tcp" \in Labels /\ "local" \in Labels
    BY DEF Labels
  <2>2. QED
    BY <2>1, Tuples DEF Adb
<1>6. <<"_adb-tls-connect", "_tcp", "local">> \in Seq(Labels) /\ Len(<<"_adb-tls-connect", "_tcp", "local">>) = 3
  <2>1. "_adb-tls-connect" \in Labels /\ "_tcp" \in Labels /\ "local" \in Labels
    BY DEF Labels
  <2>2. QED
    BY <2>1, Tuples
<1>7. \A r \in Regs : Instance(r) \in Seq(Labels) /\ Len(Instance(r)) = 4
  <2> SUFFICES ASSUME NEW r \in Regs PROVE Instance(r) \in Seq(Labels) /\ Len(Instance(r)) = 4
    OBVIOUS
  <2>1. <<InstanceName[r]>> \in Seq(Labels) /\ Len(<<InstanceName[r]>>) = 1
    BY Tuples DEF Labels
  <2> DEFINE first == <<InstanceName[r]>>
  <2> HIDE DEF first
  <2>2. first \in Seq(Labels) /\ Len(first) = 1 /\ Instance(r) = first \o ServiceType
    BY <2>1 DEF first, Instance
  <2>3. first \o ServiceType \in Seq(Labels) /\ Len(first \o ServiceType) = Len(first) + Len(ServiceType)
    BY <1>3, <2>2, ConcatProperties
  <2>4. QED
    BY <1>3, <2>2, <2>3
<1>8. 3 \in 0..4 /\ 2 \in 0..4 /\ 4 \in 0..4
  OBVIOUS
<1>9. QED
  BY <1>2, <1>3, <1>4, <1>5, <1>6, <1>7, <1>8

\* Every message holds such records.
LEMMA RecordsAreRecords ==
    ASSUME NEW r \in Regs, NEW p
    PROVE  \A rr \in RecordsOf(r, p) : IsRecord(rr)
BY NamesAreShort DEF RecordsOf, IsRecord, OurPtr, OurSrv, Wifi, Vpn, AdbSrv, AdbPtr

LEMMA SentRecords ==
    ASSUME NEW q, NEW r \in Regs, NEW p, NEW rs \in Sent(q, r, p)
    PROVE  rs \in Seq(RecordsOf(r, p))
<1> DEFINE S == RecordsOf(r, p)
           optr == OurPtr(r)
           osrv == OurSrv(r, p)
           other == Other(Host)
<1>1. {optr, osrv, other, Wifi, Vpn, AdbSrv, AdbPtr} \subseteq S
  BY DEF RecordsOf
<1>2. \/ rs \in {<<optr>>, <<optr, osrv, other, Wifi>>}
      \/ rs \in {<<osrv>>, <<osrv, Wifi>>}
      \/ rs \in {<<osrv>>, <<osrv, AdbSrv, Wifi>>, <<AdbSrv, Wifi, osrv>>,
                 <<osrv, Wifi, Vpn>>, <<>>, <<AdbSrv, Wifi>>, <<AdbPtr>>}
  BY DEF Sent
<1> DEFINE T == Seq(S)
<1>3. /\ <<optr>> \in T /\ <<optr, osrv, other, Wifi>> \in T /\ <<osrv>> \in T /\ <<osrv, Wifi>> \in T
      /\ <<osrv, AdbSrv, Wifi>> \in T /\ <<AdbSrv, Wifi, osrv>> \in T /\ <<osrv, Wifi, Vpn>> \in T
      /\ <<>> \in T /\ <<AdbSrv, Wifi>> \in T /\ <<AdbPtr>> \in T
  <2> HIDE DEF S, optr, osrv, other
  <2>1. QED
    BY <1>1, Tuples
<1> HIDE DEF S, T, optr, osrv, other
<1>4. rs \in T
  BY <1>2, <1>3
<1>5. QED
  BY <1>4 DEF S, T

\* A message of the responder, and what is read in it.
LEMMA ResponseIsRead ==
    ASSUME NEW response \in Responses
    PROVE  /\ response.reg \in Regs
           /\ response.message.rrs \in Seq(RecordsOf(response.reg, response.port))
           /\ response.message.read = response.message.rrs
<1>1. PICK r \in Regs, p \in TargetPorts, q \in {Unasked, ServiceType} \cup {Instance(s) : s \in Regs} :
          \E rs \in Sent(q, r, p) :
             response = [reg |-> r, port |-> p, question |-> q,
                         message |-> Message("sender", Repeated(q), rs, Len(rs) > 1)]
  BY DEF Responses
<1>2. PICK rs \in Sent(q, r, p) :
             response = [reg |-> r, port |-> p, question |-> q,
                         message |-> Message("sender", Repeated(q), rs, Len(rs) > 1)]
  BY <1>1
<1> DEFINE m == Message("sender", Repeated(q), rs, Len(rs) > 1)
<1>3. response.reg = r /\ response.port = p /\ response.message = m
  BY <1>2
<1>4. rs \in Seq(RecordsOf(r, p))
  BY SentRecords
<1>5. m.rrs = rs /\ m.read = ReadRecords(Encode(Repeated(q), rs, Len(rs) > 1), Len(Repeated(q)), Len(rs))
  BY DEF Message
<1>6. Repeated(q) \in Seq(ShortNames)
  BY NamesAreShort DEF Repeated
<1>7. \A n \in 1..Len(rs) : IsRecord(rs[n])
  BY <1>4, RecordsAreRecords, ElementOfSeq
<1>8. m.read = rs
  BY <1>4, <1>5, <1>6, <1>7, SafetyAssumption, MessageIsRead
<1>9. QED
  BY <1>3, <1>4, <1>5, <1>8

LEMMA NoMsgIsRead == NoMsg.rrs = <<>> /\ NoMsg.read = <<>>
<1>1. NoMsg.rrs = <<>> /\ NoMsg.read = ReadRecords(Encode(<<>>, <<>>, FALSE), Len(<<>>), Len(<<>>))
  BY DEF NoMsg, Message
<1>2. <<>> \in Seq(ShortNames) /\ <<>> \in Seq({}) /\ \A n \in 1..Len(<<>>) : IsRecord(<<>>[n])
  OBVIOUS
<1>3. QED
  BY <1>1, <1>2, SafetyAssumption, MessageIsRead

-----------------------------------------------------------------------------
(***************************************************************************)
(* ParsesMessages, OnlyOurs and TypeOK.                                    *)
(***************************************************************************)
Used(r) == regs[r].state # "unused"

\* A registration has a port of the user's from its start, and keeps it.
RegsOK ==
    /\ regs \in [Regs -> Registration]
    /\ listener \in 0..MaxRegs /\ wanted \in TargetPorts \cup {0}
    /\ listener # 0 => Used(listener)
    /\ \A r \in Regs : Used(r) => regs[r].port \in TargetPorts

\* A datagram is in.
Working == pc \in {"records", "accept1", "accept2", "lookup", "call", "called"}

BodyIdle ==
    /\ msg = NoMsg /\ rrs = <<>> /\ at = 1
    /\ port = 0 /\ targetHost = <<>> /\ ours = FALSE /\ handled = FALSE

\* What the last SRV record said, if there was one.
FromSrv ==
    \/ port = 0 /\ targetHost = <<>> /\ ours = FALSE
    \/ \E j \in 1..at-1 : /\ rrs[j].type = "SRV"
                          /\ port = rrs[j].port /\ targetHost = rrs[j].target
                          /\ ours = OurType(rrs[j].name)

\* What was accepted is ours, and its address that of an A record, if it was handled there.
Accepted ==
    /\ ours
    /\ handled => \E j \in 1..at-1 : rrs[j] = A(targetHost, callIp)

BodyBusy ==
    /\ \E r \in Regs : Used(r) /\ rrs \in Seq(RecordsOf(r, regs[r].port))
    /\ rrs = msg.rrs /\ at \in 1..Len(rrs)+1
    /\ FromSrv /\ handled \in BOOLEAN
    /\ pc # "records" => Accepted
    /\ pc = "lookup" => ~handled

BodyOK == IF Working THEN BodyBusy ELSE BodyIdle

FlagsOK ==
    /\ pc \in {"free", "open", "select", "records", "accept1", "accept2", "lookup", "call", "called",
              "done"}
    /\ mrunning \in BOOLEAN /\ mpaused \in BOOLEAN
    /\ clearing \in {"no", "reset", "resume"}
    /\ lastHost \in {NoService, Host} /\ age \in 0..StaleAfter /\ sinceQuery \in 0..1
    /\ lastPort \in TargetPorts \cup {0, AdbPort}
    /\ quiet \in 0..StaleAfter

FInv == RegsOK /\ BodyOK /\ FlagsOK

\* The other service on the phone has not our type.
LEMMA AdbIsNotOurs == ~OurType(Adb)
<1>1. Len(Adb) = 4 /\ Adb[1] = "adb" /\ Adb[2] = "_adb-tls-connect"
  BY DEF Adb
<1>2. ServiceType[1] = "_phonewebcam"
  BY DEF ServiceType
<1>3. \A i \in 1..2 : Adb[i] # ServiceType[1]
  BY <1>1, <1>2
<1>4. \A i \in 1..2 : SubSeq(Adb, i, i + 2)[1] = Adb[i]
  <2> SUFFICES ASSUME NEW i \in 1..2 PROVE SubSeq(Adb, i, i + 2)[1] = Adb[i]
    OBVIOUS
  <2> DEFINE S == {Adb[k] : k \in 1..4}
  <2>1. \A k \in i..i+2 : Adb[k] \in S
    OBVIOUS
  <2> HIDE DEF S
  <2>2. i \in Int /\ i + 2 \in Int /\ 1 \in 1..(i + 2)-i+1 /\ i + 1 - 1 = i
    OBVIOUS
  <2>3. \A k \in 1..(i + 2)-i+1 : SubSeq(Adb, i, i + 2)[k] = Adb[i + k - 1]
    BY <2>1, <2>2, SubSeqProperties
  <2>4. QED
    BY <2>2, <2>3
<1>5. QED
  BY <1>1, <1>3, <1>4 DEF OurType

\* What the locals of the loop body can be.
LEMMA BodyIs ==
    ASSUME RegsOK, BodyBusy
    PROVE  /\ ours \in BOOLEAN
           /\ \/ port = 0 /\ targetHost = <<>> /\ ours = FALSE
              \/ port \in TargetPorts \cup {AdbPort} /\ targetHost = Host
           /\ ours => \E r \in Regs : /\ Used(r) /\ port = regs[r].port
                                      /\ \E j \in 1..Len(rrs) : rrs[j] = OurSrv(r, regs[r].port)
<1>1. PICK r \in Regs : Used(r) /\ rrs \in Seq(RecordsOf(r, regs[r].port))
  BY DEF BodyBusy
<1>2. regs[r].port \in TargetPorts
  BY <1>1 DEF RegsOK
<1>3. CASE port = 0 /\ targetHost = <<>> /\ ours = FALSE
  BY <1>3
<1>4. ASSUME NEW j \in 1..at-1, rrs[j].type = "SRV",
             port = rrs[j].port, targetHost = rrs[j].target, ours = OurType(rrs[j].name)
      PROVE  /\ ours \in BOOLEAN
             /\ port \in TargetPorts \cup {AdbPort} /\ targetHost = Host
             /\ ours => port = regs[r].port /\ \E k \in 1..Len(rrs) : rrs[k] = OurSrv(r, regs[r].port)
  <2>1. Len(rrs) \in Nat /\ at \in 1..Len(rrs)+1
    BY <1>1 DEF BodyBusy
  <2>2. j \in 1..Len(rrs)
    BY <2>1
  <2>3. rrs[j] \in RecordsOf(r, regs[r].port)
    BY <1>1, <2>2, ElementOfSeq
  <2>4. rrs[j] = OurSrv(r, regs[r].port) \/ rrs[j] = AdbSrv
    BY <1>4, <2>3 DEF RecordsOf, OurPtr, PTR, Other, Wifi, Vpn, A, AdbPtr
  <2>5. CASE rrs[j] = OurSrv(r, regs[r].port)
    <3>1. rrs[j].port = regs[r].port /\ rrs[j].target = Host
      BY <2>5 DEF OurSrv, SRV
    <3>2. ours \in BOOLEAN
      BY <1>4 DEF OurType
    <3>3. QED
      BY <1>2, <1>4, <2>2, <2>5, <3>1, <3>2
  <2>6. CASE rrs[j] = AdbSrv
    <3>1. rrs[j].port = AdbPort /\ rrs[j].target = Host /\ rrs[j].name = Adb
      BY <2>6 DEF AdbSrv, SRV
    <3>2. ours = FALSE
      BY <1>4, <3>1, AdbIsNotOurs DEF OurType
    <3>3. QED
      BY <1>4, <3>1, <3>2
  <2>7. QED
    BY <2>4, <2>5, <2>6
<1>5. QED
  BY <1>1, <1>3, <1>4 DEF BodyBusy, FromSrv

\* A step of the phone.
LEMMA RegsKeep ==
    ASSUME RegsOK, NetworkNext
    PROVE  /\ RegsOK'
           /\ \A r \in Regs : Used(r) => Used(r)' /\ regs'[r].port = regs[r].port
<1> DEFINE stopped == StopAdvertising.regs
           Kept(f) == /\ f \in [Regs -> Registration]
                      /\ \A r \in Regs : /\ Used(r) => f[r].state # "unused" /\ f[r].port = regs[r].port
                                         /\ ~Used(r) => f[r] = regs[r]
<1>1. Kept(stopped) /\ StopAdvertising.listener = 0
  <2>1. StopAdvertising.listener = 0 /\ stopped = IF listener = 0 THEN regs ELSE [regs EXCEPT ![listener].state = "unregistering"]
    BY DEF StopAdvertising
  <2>2. CASE listener = 0
    BY <2>1, <2>2 DEF RegsOK, Used
  <2>3. CASE listener # 0
    <3>1. listener \in Regs /\ Used(listener)
      <4>1. MaxRegs \in Nat /\ listener \in 0..MaxRegs /\ Used(listener)
        BY <2>3, PortAssumption DEF RegsOK
      <4>2. listener \in 1..MaxRegs
        BY <2>3, <4>1
      <4>3. QED
        BY <4>1, <4>2 DEF Regs
    <3>2. stopped = [regs EXCEPT ![listener].state = "unregistering"] /\ regs \in [Regs -> Registration]
      BY <2>1, <2>3 DEF RegsOK
    <3> HIDE DEF stopped
    <3>3. stopped \in [Regs -> Registration]
      BY <3>2 DEF Registration
    <3>4. \A r \in Regs : /\ r = listener => stopped[r].state = "unregistering" /\ stopped[r].port = regs[r].port
                          /\ r # listener => stopped[r] = regs[r]
      BY <3>1, <3>2 DEF Registration
    <3>5. QED
      BY <2>1, <3>1, <3>3, <3>4 DEF Used
  <2>4. QED
    BY <2>2, <2>3
<1> HIDE DEF stopped
<1>2. CASE \E p \in TargetPorts : Advertise(p)
  <2>1. PICK p \in TargetPorts : Advertise(p)
    BY <1>2
  <2> DEFINE new == [port |-> p, state |-> "registered"]
  <2>2. wanted' = p /\ \E r \in Regs : /\ stopped[r].state = "unused" /\ listener' = r
                                       /\ regs' = [stopped EXCEPT ![r] = new]
    BY <1>1, <2>1 DEF Advertise, stopped
  <2>3. PICK r \in Regs : /\ stopped[r].state = "unused" /\ listener' = r
                          /\ regs' = [stopped EXCEPT ![r] = new]
    BY <2>2
  <2>4. new \in Registration /\ new.state # "unused" /\ new.port = p
    BY DEF Registration
  <2> HIDE DEF new
  <2>5. /\ regs' \in [Regs -> Registration] /\ regs'[r] = new
        /\ \A q \in Regs : q # r => regs'[q] = stopped[q]
    BY <1>1, <2>3, <2>4
  <2>6. ~Used(r)
    BY <1>1, <2>3
  <2>7. \A q \in Regs : q # r => (Used(q)' <=> Used(q)) /\ (Used(q) => regs'[q].port = regs[q].port)
    BY <1>1, <2>5 DEF Used
  <2>8. r \in 0..MaxRegs /\ Used(r)'
    <3>1. \A k \in 1..MaxRegs : k \in 0..MaxRegs
      BY PortAssumption
    <3>2. QED
      BY <2>4, <2>5, <3>1 DEF Regs, Used
  <2>9. \A q \in Regs : Used(q)' => regs'[q].port \in TargetPorts
    BY <2>4, <2>5, <2>7 DEF RegsOK
  <2>10. RegsOK'
    BY <2>2, <2>3, <2>5, <2>8, <2>9 DEF RegsOK, Used
  <2>11. QED
    BY <2>6, <2>7, <2>10
<1>3. CASE Withdraw
  <2>1. wanted' = 0 /\ listener' = 0 /\ regs' = stopped
    BY <1>1, <1>3 DEF Withdraw, stopped
  <2>2. \A q \in Regs : (Used(q)' <=> Used(q)) /\ (Used(q) => regs'[q].port = regs[q].port)
    BY <1>1, <2>1 DEF Used
  <2>3. 0 \in 0..MaxRegs
    BY PortAssumption
  <2>4. RegsOK'
    BY <1>1, <2>1, <2>2, <2>3 DEF RegsOK
  <2>5. QED
    BY <2>2, <2>4
<1>4. CASE OnServiceUnregistered
  <2>1. PICK r \in Regs : /\ regs[r].state = "unregistering"
                          /\ regs' = [regs EXCEPT ![r].state = "gone"]
    BY <1>4 DEF OnServiceUnregistered
  <2>2. wanted' = wanted /\ listener' = 0
    BY <1>4 DEF OnServiceUnregistered
  <2>3. regs' \in [Regs -> Registration]
    BY <2>1 DEF RegsOK, Registration
  <2>4. \A q \in Regs : (Used(q)' <=> Used(q)) /\ (Used(q) => regs'[q].port = regs[q].port)
    BY <2>1 DEF RegsOK, Registration, Used
  <2>5. 0 \in 0..MaxRegs
    BY PortAssumption
  <2>6. RegsOK'
    BY <2>2, <2>3, <2>4, <2>5 DEF RegsOK
  <2>7. QED
    BY <2>4, <2>6
<1>5. QED
  BY <1>2, <1>3, <1>4 DEF NetworkNext

\* The loop goes on to the next record.
LEMMA NextRecord ==
    ASSUME BodyBusy, UNCHANGED <<msg, rrs, regs>>, at <= Len(rrs), at' = at + 1,
           UNCHANGED <<port, targetHost, ours>> \/ FromSrv', handled' \in BOOLEAN,
           pc' # "records" => Accepted', pc' # "lookup"
    PROVE  BodyBusy'
<1>1. Len(rrs) \in Nat /\ at \in 1..Len(rrs)+1
  BY DEF BodyBusy
<1>2. at' \in 1..Len(rrs')+1 /\ \A j \in 1..at-1 : j \in 1..at'-1
  BY <1>1
<1>3. FromSrv'
  <2>1. CASE UNCHANGED <<port, targetHost, ours>>
    BY <1>2, <2>1 DEF FromSrv, BodyBusy
  <2>2. QED
    BY <2>1
<1>4. QED
  BY <1>2, <1>3 DEF BodyBusy, Used

\* Nothing that the loop body's locals depend on changes.
LEMMA BodyStays ==
    ASSUME BodyOK, UNCHANGED body, UNCHANGED pc \/ (~Working /\ ~Working')
                                   \/ (/\ Working /\ Working' /\ (pc # "records" \/ pc' = "records")
                                       /\ (pc' = "lookup" => ~handled)),
           \A r \in Regs : Used(r) => Used(r)' /\ regs'[r].port = regs[r].port
    PROVE  BodyOK'
<1>1. CASE ~Working
  BY <1>1 DEF BodyOK, BodyIdle, body, Working
<1>2. CASE Working
  <2>1. BodyBusy /\ Working'
    BY <1>2 DEF BodyOK, Working
  <2>2. \E r \in Regs : Used(r)' /\ rrs' \in Seq(RecordsOf(r, regs'[r].port))
    BY <2>1 DEF BodyBusy, body
  <2>3. FromSrv' /\ (pc' # "records" => Accepted')
    <3>1. FromSrv' /\ (pc # "records" => Accepted')
      BY <2>1 DEF BodyBusy, FromSrv, Accepted, body
    <3>2. pc' # "records" => pc # "records"
      BY <1>2 DEF Working
    <3>3. QED
      BY <3>1, <3>2
  <2>4. pc' = "lookup" => ~handled
    BY <1>2, <2>1 DEF BodyBusy
  <2>5. QED
    BY <2>1, <2>2, <2>3, <2>4 DEF BodyOK, BodyBusy, body
<1>3. QED
  BY <1>1, <1>2

\* A step of the thread.
LEMMA ThreadKeepsBody ==
    ASSUME RegsOK, BodyOK, ThreadSteps
    PROVE  BodyOK'
<1>1. PICK found \in Lookups : ThreadNext(found)
  BY DEF ThreadSteps, Thread
<1>2. UNCHANGED regs /\ \A r \in Regs : Used(r) => Used(r)' /\ regs'[r].port = regs[r].port
  BY DEF ThreadSteps, Thread, nvars, Used
<1>3. CASE OpenSocket \/ Query \/ LeaveLoop
  <2>1. UNCHANGED body /\ ~Working /\ ~Working'
    BY <1>3 DEF OpenSocket, Query, LeaveLoop, Working
  <2>2. QED
    BY <1>2, <2>1, BodyStays
<1>4. CASE AcceptHost \/ AcceptPort \/ CallbackPauses
  <2>1. /\ UNCHANGED body /\ Working /\ Working' /\ pc # "records"
        /\ pc' = "lookup" => ~handled
    BY <1>4 DEF AcceptHost, AcceptPort, CallbackPauses, Working
  <2>2. QED
    BY <1>2, <2>1, BodyStays
<1>5. CASE CallbackEnds
  <2>1. CASE handled
    <3>1. UNCHANGED body /\ Working /\ Working' /\ pc' = "records"
      BY <1>5, <2>1 DEF CallbackEnds, Working
    <3>2. QED
      BY <1>2, <3>1, BodyStays
  <2>2. CASE ~handled
    BY <1>5, <2>2 DEF CallbackEnds, BodyStarts, BodyOK, BodyIdle, Working
  <2>3. QED
    BY <2>1, <2>2
<1>6. CASE AfterRecords
  <2>1. CASE pc' = "accept1"
    <3>1. BodyBusy /\ ours /\ ~handled /\ UNCHANGED <<msg, rrs, at, port, targetHost, ours, handled>>
      BY <1>6, <2>1 DEF AfterRecords, BodyOK, Working, body
    <3>2. BodyBusy'
      BY <1>2, <2>1, <3>1 DEF BodyBusy, FromSrv, Accepted, Used
    <3>3. QED
      BY <2>1, <3>2 DEF BodyOK, Working
  <2>2. CASE pc' # "accept1"
    BY <1>6, <2>2 DEF AfterRecords, BodyStarts, BodyOK, BodyIdle, Working
  <2>3. QED
    BY <2>1, <2>2
<1>7. CASE ReadPtr \/ ReadSrv \/ ReadA \/ ReadOther
  <2>1. /\ pc = "records" /\ at <= Len(rrs) /\ at' = at + 1 /\ UNCHANGED <<msg, rrs, regs>>
    BY <1>2, <1>7 DEF ReadPtr, ReadSrv, ReadA, ReadOther, AtRecord
  <2>2. BodyBusy
    BY <2>1 DEF BodyOK, Working
  <2>3. Len(rrs) \in Nat /\ at \in 1..Len(rrs) /\ at \in 1..at'-1 /\ handled \in BOOLEAN
    <3>1. Len(rrs) \in Nat /\ at \in 1..Len(rrs)+1 /\ handled \in BOOLEAN
      BY <2>2 DEF BodyBusy
    <3>2. QED
      BY <2>1, <3>1
  <2>4. CASE ReadPtr \/ ReadOther
    <3>1. UNCHANGED <<pc, port, targetHost, ours, handled>>
      BY <2>4 DEF ReadPtr, ReadOther
    <3>2. BodyBusy'
      BY <2>1, <2>2, <2>3, <3>1, NextRecord
    <3>3. QED
      BY <2>1, <3>1, <3>2 DEF BodyOK, Working
  <2>5. CASE ReadSrv
    <3>1. /\ UNCHANGED <<pc, handled>> /\ rrs[at].type = "SRV"
          /\ port' = rrs[at].port /\ targetHost' = rrs[at].target /\ ours' = OurType(rrs[at].name)
      BY <2>5 DEF ReadSrv, AtRecord
    <3>2. FromSrv'
      BY <2>1, <2>3, <3>1 DEF FromSrv
    <3>3. BodyBusy'
      BY <2>1, <2>2, <2>3, <3>1, <3>2, NextRecord
    <3>4. QED
      BY <2>1, <3>1, <3>3 DEF BodyOK, Working
  <2>6. CASE ReadA
    <3>1. UNCHANGED <<port, targetHost, ours>> /\ rrs[at].type = "A"
      BY <2>6 DEF ReadA, AtRecord
    <3>2. CASE UNCHANGED <<pc, handled>>
      <4>1. BodyBusy'
        BY <2>1, <2>2, <2>3, <3>1, <3>2, NextRecord
      <4>2. QED
        BY <2>1, <3>2, <4>1 DEF BodyOK, Working
    <3>3. CASE ~UNCHANGED <<pc, handled>>
      <4>1. /\ rrs[at].name = targetHost /\ ours
            /\ pc' = "accept1" /\ handled' = TRUE /\ callIp' = rrs[at].ip
        BY <2>6, <3>3 DEF ReadA
      <4>2. PICK r \in Regs : rrs \in Seq(RecordsOf(r, regs[r].port))
        BY <2>2 DEF BodyBusy
      <4>3. rrs[at] \in RecordsOf(r, regs[r].port)
        BY <2>3, <4>2, ElementOfSeq
      <4>4. rrs[at] = A(targetHost, rrs[at].ip)
        BY <3>1, <4>1, <4>3 DEF RecordsOf, OurPtr, PTR, OurSrv, AdbSrv, SRV, Other, Wifi, Vpn, A, AdbPtr
      <4>5. Accepted'
        BY <2>1, <2>3, <3>1, <4>1, <4>4 DEF Accepted
      <4>6. BodyBusy'
        BY <2>1, <2>2, <3>1, <4>1, <4>5, NextRecord
      <4>7. QED
        BY <4>1, <4>6 DEF BodyOK, Working
    <3>4. QED
      BY <3>2, <3>3
  <2>7. QED
    BY <1>7, <2>4, <2>5, <2>6
<1>8. CASE Lookup(found)
  <2>1. BodyBusy /\ ours /\ ~handled
    BY <1>8 DEF Lookup, BodyOK, BodyBusy, Accepted, Working
  <2>2. /\ UNCHANGED <<msg, rrs, at, port, targetHost, ours, handled>>
        /\ pc' = "call"
    BY <1>8 DEF Lookup
  <2>3. BodyBusy'
    BY <1>2, <2>1, <2>2 DEF BodyBusy, FromSrv, Accepted, Used
  <2>4. QED
    BY <2>2, <2>3 DEF BodyOK, Working
<1>9. QED
  BY <1>1, <1>3, <1>4, <1>5, <1>6, <1>7, <1>8 DEF ThreadNext

\* A datagram comes in.
LEMMA NetworkKeepsBody ==
    ASSUME RegsOK, BodyOK, NetworkSteps
    PROVE  BodyOK'
<1>1. CASE LoseQuery
  <2>1. UNCHANGED <<body, pc, regs>>
    BY <1>1 DEF LoseQuery, nvars
  <2>2. QED
    BY <2>1, BodyStays DEF Used
<1>2. CASE Answer \/ Announce
  <2>1. \E r \in Advertised, response \in Responses : \E q : Respond(r, q, response)
    <3>1. CASE Answer
      BY <3>1 DEF Answer
    <3>2. CASE Announce
      BY <3>2 DEF Announce
    <3>3. QED
      BY <1>2, <3>1, <3>2
  <2>2. PICK r \in Advertised, response \in Responses : \E q : Respond(r, q, response)
    BY <2>1
  <2> DEFINE m == response.message
  <2>3. response.reg = r /\ response.port = regs[r].port /\ TakeResponse(m) /\ UNCHANGED regs
    BY <2>2 DEF Respond, nvars
  <2>4. /\ r \in Regs /\ m.rrs \in Seq(RecordsOf(r, regs[r].port)) /\ m.read = m.rrs
    BY <2>3, ResponseIsRead
  <2>5. Used(r)
    BY DEF Advertised, Used
  <2> HIDE DEF m
  <2>6. pc = "select" /\ BodyIdle
    BY <2>3 DEF TakeResponse, BodyOK, Working
  <2>7. CASE m.rrs = <<>>
    <3>1. UNCHANGED <<pc, body>>
      BY <2>3, <2>7 DEF TakeResponse
    <3>2. QED
      BY <2>3, <3>1, BodyStays DEF Used
  <2>8. CASE m.rrs # <<>>
    <3>1. /\ pc' = "records" /\ msg' = m /\ rrs' = m.rrs
          /\ UNCHANGED <<at, port, targetHost, ours, handled, callIp>>
      BY <2>3, <2>4, <2>8 DEF TakeResponse
    <3>2. Len(m.rrs) \in Nat /\ at' = 1 /\ at' \in 1..Len(m.rrs)+1
      BY <2>4, <2>6, <3>1 DEF BodyIdle
    <3>3. FromSrv' /\ handled' \in BOOLEAN
      BY <2>6, <3>1 DEF BodyIdle, FromSrv
    <3>4. \E s \in Regs : Used(s)' /\ rrs' \in Seq(RecordsOf(s, regs'[s].port))
      BY <2>3, <2>4, <2>5, <3>1 DEF Used
    <3>5. BodyBusy'
      BY <3>1, <3>2, <3>3, <3>4 DEF BodyBusy
    <3>6. QED
      BY <3>1, <3>5 DEF BodyOK, Working
  <2>9. QED
    BY <2>7, <2>8
<1>3. QED
  BY <1>1, <1>2 DEF NetworkSteps

\* The rest, in a step of any kind.
LEMMA FlagsKeep ==
    ASSUME RegsOK, BodyOK, FlagsOK, [Next]_vars
    PROVE  FlagsOK'
<1>1. 0 \in TargetPorts \cup {0, AdbPort} /\ {0, StaleAfter} \subseteq 0..StaleAfter
  BY DEF StaleAfter
<1>2. 0 \in 0..1 /\ 1 \in 0..1 /\ StaleAfter \in 0..StaleAfter
  BY DEF StaleAfter
<1>3. \A n \in 0..StaleAfter : (IF n < StaleAfter THEN n + 1 ELSE StaleAfter) \in 0..StaleAfter
  BY DEF StaleAfter
<1>4. CASE ThreadSteps
  <2>1. PICK found \in Lookups : ThreadNext(found)
    BY <1>4 DEF ThreadSteps, Thread
  <2>2. quiet' \in 0..StaleAfter
    BY <1>1, <1>4 DEF ThreadSteps, FlagsOK
  <2>3. CASE \/ OpenSocket \/ Query \/ LeaveLoop \/ ReadPtr \/ ReadSrv \/ ReadA \/ ReadOther
             \/ AfterRecords \/ Lookup(found) \/ CallbackPauses \/ CallbackEnds
    <3>1. /\ UNCHANGED <<last, mrunning, clearing>> /\ mpaused' \in {mpaused, TRUE}
          /\ sinceQuery' \in {sinceQuery, 0}
      BY <2>3 DEF OpenSocket, Query, LeaveLoop, ReadPtr, ReadSrv, ReadA, ReadOther,
                  AfterRecords, Lookup, CallbackPauses, CallbackEnds, mflags
    <3>2. pc' \in {pc, "done", "select", "accept1", "call", "called", "records"}
      BY <2>3 DEF OpenSocket, Query, LeaveLoop, ReadPtr, ReadSrv, ReadA, ReadOther,
                  AfterRecords, Lookup, CallbackPauses, CallbackEnds
    <3>3. mpaused' \in BOOLEAN /\ mrunning' \in BOOLEAN
      BY <3>1 DEF FlagsOK
    <3>4. /\ clearing' \in {"no", "reset", "resume"}
          /\ lastHost' \in {NoService, Host} /\ age' \in 0..StaleAfter /\ sinceQuery' \in 0..1
          /\ lastPort' \in TargetPorts \cup {0, AdbPort}
      BY <1>2, <3>1 DEF FlagsOK, last
    <3>5. QED
      BY <2>2, <3>2, <3>3, <3>4 DEF FlagsOK
  <2>4. CASE AcceptHost \/ AcceptPort
    <3>1. pc \in {"accept1", "accept2"} /\ UNCHANGED <<mflags, sinceQuery>>
      BY <2>4 DEF AcceptHost, AcceptPort
    <3>2. BodyBusy /\ ours
      BY <3>1 DEF BodyOK, Working, BodyBusy, Accepted
    <3>3. port \in TargetPorts \cup {AdbPort} /\ targetHost = Host
      BY <3>2, BodyIs
    <3>4. QED
      BY <1>1, <2>2, <2>4, <3>1, <3>3 DEF AcceptHost, AcceptPort, FlagsOK, mflags
  <2>5. QED
    BY <2>1, <2>3, <2>4 DEF ThreadNext
<1>5. CASE Clears
  BY <1>1, <1>5 DEF Clears, ClearHost, ClearPort, FlagsOK
<1>6. CASE TimePasses
  BY <1>1, <1>3, <1>6 DEF TimePasses, Tick, FlagsOK, mflags
<1>7. CASE Controls
  <2>1. CASE StartDiscovery \/ StopDiscovery
    BY <1>7, <2>1 DEF Controls, StartDiscovery, StopDiscovery, JoinDiscovery, FlagsOK, last
  <2>2. CASE JoinDiscovery
    <3>1. quiet' \in {quiet, StaleAfter}
      BY <1>7, <2>2 DEF Controls
    <3>2. QED
      BY <1>1, <1>2, <2>2, <3>1 DEF JoinDiscovery, FlagsOK
  <2>3. QED
    BY <1>7, <2>1, <2>2 DEF Controls
<1>8. CASE PhoneSteps \/ UNCHANGED vars
  BY <1>8 DEF PhoneSteps, vars, mvars, mflags, last, FlagsOK
<1>9. CASE NetworkSteps
  BY <1>9 DEF NetworkSteps, Answer, Announce, Respond, TakeResponse, LoseQuery, FlagsOK, mflags, last
<1>10. QED
  BY <1>4, <1>5, <1>6, <1>7, <1>8, <1>9 DEF Next

\* All of it holds always.
LEMMA FindingInvariant == Spec => []FInv
<1>1. Init => FInv
  <2> SUFFICES ASSUME Init PROVE FInv
    OBVIOUS
  <2>1. RegsOK
    <3>1. 0 \in 0..MaxRegs
      BY PortAssumption
    <3>2. QED
      BY <3>1 DEF Init, NetworkInit, RegsOK, Registration, Used
  <2>2. BodyOK
    BY DEF Init, MdnsInit, BodyOK, BodyIdle, Working
  <2>3. FlagsOK
    <3>1. 1 \in 0..1 /\ StaleAfter \in 0..StaleAfter
      BY DEF StaleAfter
    <3>2. QED
      BY <3>1 DEF Init, MdnsInit, FlagsOK
  <2>4. QED
    BY <2>1, <2>2, <2>3 DEF FInv
<1>2. FInv /\ [Next]_vars => FInv'
  <2> SUFFICES ASSUME RegsOK, BodyOK, FlagsOK, [Next]_vars PROVE RegsOK' /\ BodyOK'
    BY FlagsKeep DEF FInv
  <2>1. CASE ThreadSteps
    <3>1. UNCHANGED nvars
      BY <2>1 DEF ThreadSteps, Thread
    <3>2. QED
      BY <2>1, <3>1, ThreadKeepsBody DEF nvars, RegsOK, Used
  <2>2. CASE Clears \/ TimePasses \/ Controls
    <3>1. UNCHANGED <<body, nvars>> /\ (UNCHANGED pc \/ (~Working /\ ~Working'))
      BY <2>2 DEF Clears, ClearHost, ClearPort, TimePasses, Tick, Controls, StartDiscovery,
                  StopDiscovery, JoinDiscovery, Working
    <3>2. QED
      BY <3>1, BodyStays DEF nvars, RegsOK, Used
  <2>3. CASE PhoneSteps
    <3>1. NetworkNext /\ UNCHANGED <<pc, body>>
      BY <2>3 DEF PhoneSteps, mvars
    <3>2. QED
      BY <3>1, RegsKeep, BodyStays
  <2>4. CASE NetworkSteps
    <3>1. UNCHANGED nvars
      BY <2>4 DEF NetworkSteps, Answer, Announce, Respond, LoseQuery
    <3>2. QED
      BY <2>4, <3>1, NetworkKeepsBody DEF nvars, RegsOK, Used
  <2>5. CASE UNCHANGED vars
    <3>1. UNCHANGED <<body, nvars, pc>>
      BY <2>5 DEF vars, mvars
    <3>2. QED
      BY <3>1, BodyStays DEF nvars, RegsOK, Used
  <2>6. QED
    BY <2>1, <2>2, <2>3, <2>4, <2>5 DEF Next
<1>3. QED
  BY <1>1, <1>2, PTL DEF Spec

\* The parser reads in every message what the responder has put into it, whatever the
\* phone's services are called and whatever names end in pointers.
THEOREM MessagesAreParsed == Spec => []ParsesMessages
<1>1. FInv => ParsesMessages
  BY NoMsgIsRead DEF FInv, BodyOK, BodyBusy, BodyIdle, ParsesMessages
<1>2. QED
  BY <1>1, FindingInvariant, PTL

\* The callback gets the port of a registration of the phone's that it was told of, and an
\* address that goes with it, also if the phone has changed its registrations since.
THEOREM OnlyOursIsCalled == Spec => []OnlyOurs
<1>1. FInv => OnlyOurs
  <2> SUFFICES ASSUME FInv, pc = "call"
               PROVE  /\ \E r \in Advertised \cup {q \in Regs : regs[q].state = "gone"} :
                            /\ OurSrv(r, regs[r].port) \in {msg.rrs[i] : i \in 1..Len(msg.rrs)}
                            /\ port = regs[r].port
                      /\ handled => A(targetHost, callIp) \in {msg.rrs[i] : i \in 1..Len(msg.rrs)}
    BY DEF OnlyOurs
  <2>1. RegsOK /\ BodyBusy /\ ours /\ rrs = msg.rrs
    BY DEF FInv, BodyOK, Working, BodyBusy, Accepted
  <2>2. PICK r \in Regs : /\ Used(r) /\ port = regs[r].port
                          /\ \E j \in 1..Len(rrs) : rrs[j] = OurSrv(r, regs[r].port)
    BY <2>1, BodyIs
  <2>3. r \in Advertised \cup {q \in Regs : regs[q].state = "gone"}
    BY <2>1, <2>2 DEF RegsOK, Registration, Used, Advertised
  <2>4. ASSUME handled PROVE \E j \in 1..Len(rrs) : rrs[j] = A(targetHost, callIp)
    <3>1. PICK j \in 1..at-1 : rrs[j] = A(targetHost, callIp)
      BY <2>1, <2>4 DEF BodyBusy, Accepted
    <3>2. Len(rrs) \in Nat /\ at \in 1..Len(rrs)+1
      BY <2>1 DEF BodyBusy
    <3>3. QED
      BY <3>1, <3>2
  <2>5. QED
    BY <2>1, <2>2, <2>3, <2>4
<1>2. QED
  BY <1>1, FindingInvariant, PTL

\* The types of the variables of discovery.
THEOREM FindingTypesCorrect == Spec => []TypeOK
<1>1. FInv => TypeOK
  <2> SUFFICES ASSUME FInv PROVE TypeOK
    OBVIOUS
  <2>1. RegsOK /\ BodyOK /\ FlagsOK
    BY DEF FInv
  <2>2. /\ {ours, handled} \subseteq BOOLEAN
        /\ port \in TargetPorts \cup {0, AdbPort}
        /\ (targetHost = Host) = (port # 0)
        /\ at \in 1..Len(rrs)+1
    <3>1. CASE Working
      <4>1. BodyBusy
        BY <2>1, <3>1 DEF BodyOK
      <4>2. /\ ours \in BOOLEAN
            /\ \/ port = 0 /\ targetHost = <<>>
               \/ port \in TargetPorts \cup {AdbPort} /\ targetHost = Host
        BY <2>1, <4>1, BodyIs
      <4>3. <<>> # Host /\ 0 \notin TargetPorts \cup {AdbPort}
        BY PortAssumption DEF Host, AdbPort
      <4>4. QED
        BY <4>1, <4>2, <4>3 DEF BodyBusy
    <3>2. CASE ~Working
      <4>1. BodyIdle /\ <<>> # Host
        BY <2>1, <3>2 DEF BodyOK, Host
      <4>2. QED
        <5>1. Len(rrs) = 0 /\ at = 1 /\ 1 \in 1..0+1
          BY <4>1 DEF BodyIdle
        <5>2. QED
          BY <4>1, <5>1 DEF BodyIdle
    <3>3. QED
      BY <3>1, <3>2
  <2>3. QED
    BY <2>1, <2>2 DEF TypeOK, RegsOK, FlagsOK
<1>2. QED
  BY <1>1, FindingInvariant, PTL

=============================================================================
