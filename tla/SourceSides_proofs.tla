------------------------- MODULE SourceSides_proofs -------------------------
(***************************************************************************)
(* A source that is used from one side at a time, and is neither updated   *)
(* nor destroyed: nothing faults, what runs has its socket, and the        *)
(* discovery callback joins only a handshake that is over; for any threads *)
(* and ports.                                                              *)
(***************************************************************************)
EXTENDS SourceSides, PhoneSource_proofs

HandshakeBusy == {"hStart", "hLock", "hFail", "hJoinNet", "hResume", "hClear"}
RequestBusy == {"tJoinOld", "tStart", "tLock", "tCheck", "tJoinNet", "tRecheck", "tOpen",
                "tSpawnNet", "tSend"}
Over == {"free", "done"}

\* Nobody changes or ends the source, and a reconnect thread has its place.
Calm ==
    /\ valid /\ fault = "none" /\ ~deleted
    /\ pc["ui"] = "idle"
    /\ \A t \in Threads : pc[t] = "launchSpawn" => recThread = None

\* What is running has its socket.
Heard == running => bound = port /\ port # 0

\* The source finds the phone: one handshake at a time, which starts after the
\* last one is over.
Handshaking ==
    /\ pc["listen"] = "idle"
    /\ \A h \in Shakes : pc[h] \in HandshakeBusy \cup Over
    /\ \A h \in Shakes : pc[h] \in HandshakeBusy => inProgress
    /\ \A g, h \in Shakes : pc[g] \in HandshakeBusy /\ pc[h] \in HandshakeBusy => g = h
    /\ shakeThread # None => pc[shakeThread] # "free"
    /\ pc["disc"] \in {"dOpen", "dSpawnNet", "dFlag", "dJoinHs", "dSpawnHs"} =>
          \A h \in Shakes : pc[h] \in Over
    /\ pc["disc"] \in {"dJoinHs", "dSpawnHs"} => inProgress
    /\ pc["disc"] = "dSpawnHs" => shakeThread = None

\* A stream is stopped only by a thread that joins the network thread next.
Networking ==
    /\ pc["disc"] \in {"dGuard", "dOpen", "dSpawnNet"} => netThread = None
    /\ pc["disc"] \in {"dJoinNet", "dGuard", "dOpen"} => ~running
    /\ pc["disc"] = "dSpawnNet" => running
    /\ pc["disc"] = "dOpen" => port = arg["disc"]
    /\ \A r \in Recs : pc[r] = "rStop" => netThread = None
    /\ ~running /\ netThread # None =>
          pc["disc"] = "dJoinNet" \/ \E h \in Shakes : pc[h] = "hJoinNet"

FoundInv == Handshaking /\ Networking

\* The phone asks: one request at a time, whose thread stops and joins what ran.
AskedInv ==
    /\ pc["disc"] = "idle"
    /\ \A s \in Shakes : pc[s] \in RequestBusy \cup Over
    /\ \A s, t \in Shakes : pc[s] \in RequestBusy /\ pc[t] \in RequestBusy => s = t
    /\ pc["listen"] # "idle" => \A s \in Shakes : pc[s] \in Over
    /\ pc["listen"] \in {"lClose", "lMove", "lSpawn"} => ~running
    /\ pc["listen"] = "lSpawn" => shakeThread = None
    /\ \A t \in Shakes : pc[t] \in RequestBusy \ {"tSpawnNet", "tSend"} => ~running
    /\ \A t \in Shakes : pc[t] \in {"tRecheck", "tOpen", "tSpawnNet"} => netThread = None

SideInv ==
    /\ Calm /\ Heard
    /\ found => FoundInv
    /\ ~found => AskedInv

\* What is known of any source.
Known == SInv /\ TypeOK

\* Two threads in sections under op_mutex are one.
LEMMA OneInSection ==
    ASSUME Known, NEW s \in Threads, NEW t \in Threads, s # t, pc[t] \in Critical
    PROVE  pc[s] \notin Critical
BY OneOpens DEF Known

LEMMA Spawned ==
    ASSUME Known, NEW t \in Threads, NEW s \in Threads, NEW first, NEW to,
           Spawn(t, s, first, to), pc[t] # "free"
    PROVE  /\ pc[s] = "free" /\ pc'[s] = first /\ pc'[t] = to
           /\ \A u \in Threads \ {s, t} : pc'[u] = pc[u]
BY DEF Known, SInv, MInv, PcType, Spawn

-----------------------------------------------------------------------------
(***************************************************************************)
(* The source finds the phone.                                             *)
(***************************************************************************)
\* Labels of the discovery callback from the guard against a handshake in progress on.
Guarded == {"dOpen", "dSpawnNet", "dFlag", "dJoinHs", "dSpawnHs"}

\* The discovery thread goes on, and no handshake thread is touched.
LEMMA DiscWalks ==
    ASSUME Known, Handshaking, NEW to, Goto("disc", to),
           UNCHANGED <<shakeThread, inProgress>>,
           to \in Guarded => pc["disc"] \in Guarded \/ ~inProgress,
           to \notin {"dJoinHs", "dSpawnHs"}
    PROVE  Handshaking'
<1>1. /\ pc'["disc"] = to
      /\ \A t \in Threads \ {"disc"} : pc'[t] = pc[t]
  BY ThreadKinds DEF Known, SInv, MInv, PcType, Goto
<1>2. pc'["listen"] = pc["listen"] /\ \A h \in Shakes : pc'[h] = pc[h]
  BY <1>1, ThreadKinds
<1>3. shakeThread \in Shakes \cup {None}
  BY DEF Known, SInv, TInv, Handles
<1>4. to \in Guarded => \A h \in Shakes : pc[h] \in Over
  BY DEF Handshaking, Guarded
<1> QED BY <1>1, <1>2, <1>3, <1>4 DEF Handshaking, Guarded

LEMMA DiscKeepsHandshaking ==
    ASSUME Known, Calm, Handshaking, Disc \/ CallDisc
    PROVE  Handshaking'
<1> USE ThreadKinds DEF Known, SInv, MInv, TInv, PcType, Calm, Handshaking, At, Goto,
        HandshakeBusy, Over
<1>1. CASE CallDisc
  BY <1>1 DEF CallDisc, DiscFound, handles, flags
<1>2. CASE Acquire("disc", "dLock", "dCheck")
  BY <1>2 DEF Acquire, handles, flags
<1>3. CASE DiscCheck
  BY <1>3, DiscWalks DEF DiscCheck, DiscReturns, handles, Guarded
<1>4. CASE DiscStop
  BY <1>4, DiscWalks DEF DiscStop, handles, Guarded
<1>5. CASE JoinNet("disc", "dJoinNet", "dGuard")
  BY <1>5 DEF JoinNet, JoinThenGoto, Handles, flags
<1>6. CASE DiscGuard
  BY <1>6, DiscWalks DEF DiscGuard, DiscReturns, handles, Guarded
<1>7. CASE DiscOpen
  BY <1>7, DiscWalks DEF DiscOpen, DiscReturns, handles, Guarded
<1>8. CASE SpawnNet("disc", "dSpawnNet", "dFlag")
  <2>1. CASE Terminate
    BY <1>8, <2>1 DEF SpawnNet, Terminate, flags, handles
  <2>2. ASSUME NEW n \in Nets, Spawn("disc", n, "loop", "dFlag"), UNCHANGED shakeThread
        PROVE  Handshaking'
    <3>1. /\ pc'["disc"] = "dFlag" /\ pc'["listen"] = pc["listen"]
          /\ \A h \in Shakes : pc'[h] = pc[h]
      BY <1>8, <2>2, Spawned DEF SpawnNet
    <3>2. \A h \in Shakes : pc[h] \in {"free", "done"}
      BY <1>8 DEF SpawnNet
    <3>3. inProgress' = inProgress /\ shakeThread \in Shakes \cup {None}
      BY <1>8 DEF SpawnNet, flags, Handles
    <3> HIDE DEF Known, SInv, MInv, TInv, PcType, Calm, At, Goto
    <3> QED BY <2>2, <3>1, <3>2, <3>3
  <2> QED BY <1>8, <2>1, <2>2 DEF SpawnNet
<1>9. CASE DiscFlag
  BY <1>9 DEF DiscFlag, handles
<1>10. CASE JoinShake("disc", "dJoinHs", "dSpawnHs")
  BY <1>10 DEF JoinShake, JoinThenGoto, Handles, flags
<1>11. CASE DiscSpawnHs
  BY <1>11 DEF DiscSpawnHs, Spawn, flags
<1> QED
  BY <1>1, <1>2, <1>3, <1>4, <1>5, <1>6, <1>7, <1>8, <1>9, <1>10, <1>11 DEF Disc

LEMMA DiscKeepsNetworking ==
    ASSUME Known, Calm, Heard, Handshaking, Networking, Disc \/ CallDisc
    PROVE  Networking' /\ Heard'
<1> USE ThreadKinds DEF Known, SInv, MInv, TInv, PcType, Calm, Networking, Heard, At, Goto
<1>1. CASE CallDisc
  BY <1>1 DEF CallDisc, DiscFound, handles, socket
<1>2. CASE Acquire("disc", "dLock", "dCheck")
  BY <1>2 DEF Acquire, handles, flags, socket
<1>3. CASE DiscCheck
  BY <1>3 DEF DiscCheck, DiscReturns, handles, socket
<1>4. CASE DiscStop
  <2>1. /\ \A h \in Shakes : pc[h] # "hJoinNet"
        /\ \A r \in Recs : pc[r] # "rStop"
    BY <1>4, OneInSection DEF DiscStop, Critical
  <2> QED BY <1>4, <2>1 DEF DiscStop, handles
<1>5. CASE JoinNet("disc", "dJoinNet", "dGuard")
  BY <1>5 DEF JoinNet, JoinThenGoto, Handles, flags, socket
<1>6. CASE DiscGuard
  BY <1>6 DEF DiscGuard, DiscReturns, handles
<1>7. CASE DiscOpen
  BY <1>7, SourceAssumption DEF DiscOpen, Open, DiscReturns, handles, TypeOK
<1>8. CASE SpawnNet("disc", "dSpawnNet", "dFlag")
  <2>1. PICK n \in Nets : Spawn("disc", n, "loop", "dFlag") /\ netThread' = n
    BY <1>8 DEF SpawnNet
  <2>2. /\ pc'["disc"] = "dFlag" /\ pc["disc"] = "dSpawnNet"
        /\ \A t \in Shakes \cup Recs : pc'[t] = pc[t]
    BY <1>8, <2>1, Spawned DEF SpawnNet
  <2>3. \A r \in Recs : pc[r] # "rStop"
    BY <2>2, OneInSection DEF Critical
  <2> QED BY <1>8, <2>1, <2>2, <2>3 DEF SpawnNet, flags, socket
<1>9. CASE DiscFlag
  BY <1>9 DEF DiscFlag, handles, socket
<1>10. CASE JoinShake("disc", "dJoinHs", "dSpawnHs")
  BY <1>10 DEF JoinShake, JoinThenGoto, Handles, flags, socket
<1>11. CASE DiscSpawnHs
  BY <1>11 DEF DiscSpawnHs, Spawn, flags, socket, Terminate, handles
<1> QED
  BY <1>1, <1>2, <1>3, <1>4, <1>5, <1>6, <1>7, <1>8, <1>9, <1>10, <1>11 DEF Disc

-----------------------------------------------------------------------------
\* What a step of a handshake or request thread, of the listen thread, of the
\* discovery thread and of the calls leaves alone.
Aside ==
    /\ UNCHANGED <<valid, deleted, recThread>>
    /\ fault' = "none"
    /\ pc'["ui"] = pc["ui"]
    /\ \A t \in Threads : pc'[t] = "launchSpawn" => pc[t] = "launchSpawn"

LEMMA AsideKeepsCalm ==
    ASSUME Calm, Aside
    PROVE  Calm'
BY DEF Calm, Aside

LEMMA DiscAside ==
    ASSUME Known, Calm, Handshaking, Networking, Disc \/ CallDisc
    PROVE  Aside
<1> USE ThreadKinds DEF Known, SInv, MInv, TInv, PcType, Calm, Aside, At, Goto
<1>1. CASE CallDisc
  BY <1>1 DEF CallDisc, DiscFound, handles
<1>2. CASE Acquire("disc", "dLock", "dCheck")
  BY <1>2 DEF Acquire, handles, flags
<1>3. CASE DiscCheck
  BY <1>3 DEF DiscCheck, DiscReturns, handles
<1>4. CASE DiscStop
  BY <1>4 DEF DiscStop, handles
<1>5. CASE JoinNet("disc", "dJoinNet", "dGuard")
  BY <1>5 DEF JoinNet, JoinThenGoto, Handles, flags
<1>6. CASE DiscGuard
  BY <1>6 DEF DiscGuard, DiscReturns, handles
<1>7. CASE DiscOpen
  BY <1>7 DEF DiscOpen, DiscReturns, handles
<1>8. CASE SpawnNet("disc", "dSpawnNet", "dFlag")
  <2>1. netThread = None
    BY <1>8 DEF SpawnNet, Networking
  <2> QED BY <1>8, <2>1 DEF SpawnNet, Spawn, flags
<1>9. CASE DiscFlag
  BY <1>9 DEF DiscFlag, handles
<1>10. CASE JoinShake("disc", "dJoinHs", "dSpawnHs")
  BY <1>10 DEF JoinShake, JoinThenGoto, Handles, flags
<1>11. CASE DiscSpawnHs
  <2>1. shakeThread = None
    BY <1>11 DEF DiscSpawnHs, Handshaking
  <2> QED BY <1>11, <2>1 DEF DiscSpawnHs, Spawn, flags
<1> QED
  BY <1>1, <1>2, <1>3, <1>4, <1>5, <1>6, <1>7, <1>8, <1>9, <1>10, <1>11 DEF Disc

-----------------------------------------------------------------------------
(***************************************************************************)
(* The handshake thread of the discovery callback.                         *)
(***************************************************************************)
LEMMA ShakeAside ==
    ASSUME Known, Calm, NEW h \in Shakes, Shake(h)
    PROVE  Aside
<1> USE ThreadKinds DEF Known, SInv, MInv, TInv, PcType, Calm, Aside, At, Goto
<1>1. CASE ShakeSend(h)
  BY <1>1 DEF ShakeSend, handles, flags
<1>2. CASE Acquire(h, "hLock", "hFail")
  BY <1>2 DEF Acquire, handles, flags
<1>3. CASE ShakeFail(h)
  BY <1>3 DEF ShakeFail, handles
<1>4. CASE JoinNet(h, "hJoinNet", "hResume")
  BY <1>4 DEF JoinNet, JoinThenGoto, Handles, flags
<1>5. CASE ShakeResume(h)
  BY <1>5 DEF ShakeResume, handles
<1>6. CASE ShakeEnd(h)
  BY <1>6 DEF ShakeEnd, handles
<1> QED
  BY <1>1, <1>2, <1>3, <1>4, <1>5, <1>6 DEF Shake

\* The handshake thread goes on, as the only one that is not over.
LEMMA ShakeWalks ==
    ASSUME Known, Handshaking, NEW h \in Shakes, pc[h] \in HandshakeBusy,
           NEW to \in HandshakeBusy \cup {"done"}, pc'[h] = to,
           \A t \in Actors \cup Shakes : t # h => pc'[t] = pc[t],
           shakeThread' = shakeThread,
           inProgress' = inProgress \/ to = "done"
    PROVE  Handshaking'
<1>1. pc["disc"] \notin {"dOpen", "dSpawnNet", "dFlag", "dJoinHs", "dSpawnHs"}
  BY DEF Handshaking, HandshakeBusy, Over
<1>2. pc'["disc"] = pc["disc"] /\ pc'["listen"] = pc["listen"]
  BY ThreadKinds DEF Actors
<1>3. shakeThread \in Shakes \cup {None}
  BY DEF Known, SInv, TInv, Handles
<1>4. to # "free" /\ "done" \notin HandshakeBusy
  BY DEF HandshakeBusy
<1> QED BY <1>1, <1>2, <1>3, <1>4 DEF Handshaking, Over

LEMMA ShakeKeepsHandshaking ==
    ASSUME Known, Calm, Handshaking, NEW h \in Shakes, Shake(h)
    PROVE  Handshaking'
<1>1. PICK to \in HandshakeBusy \cup {"done"} :
        /\ pc[h] \in HandshakeBusy
        /\ pc'[h] = to
        /\ \A t \in Actors \cup Shakes : t # h => pc'[t] = pc[t]
        /\ shakeThread' = shakeThread
        /\ inProgress' = inProgress \/ to = "done"
  <2> USE ThreadKinds DEF Known, SInv, MInv, TInv, PcType, Calm, At, Goto, HandshakeBusy,
          Actors
  <2>1. CASE ShakeSend(h)
    BY <2>1 DEF ShakeSend, handles, flags
  <2>2. CASE Acquire(h, "hLock", "hFail")
    BY <2>2 DEF Acquire, handles, flags
  <2>3. CASE ShakeFail(h)
    BY <2>3 DEF ShakeFail, handles
  <2>4. CASE JoinNet(h, "hJoinNet", "hResume")
    BY <2>4 DEF JoinNet, JoinThenGoto, Handles, flags
  <2>5. CASE ShakeResume(h)
    BY <2>5 DEF ShakeResume, handles
  <2>6. CASE ShakeEnd(h)
    BY <2>6 DEF ShakeEnd, handles
  <2> QED
    BY <2>1, <2>2, <2>3, <2>4, <2>5, <2>6 DEF Shake
<1> QED BY <1>1, ShakeWalks

LEMMA ShakeKeepsNetworking ==
    ASSUME Known, Calm, Heard, Networking, NEW h \in Shakes, Shake(h)
    PROVE  Networking' /\ Heard'
<1> USE ThreadKinds DEF Known, SInv, MInv, TInv, PcType, Calm, Networking, Heard, At, Goto
<1>1. CASE ShakeSend(h)
  BY <1>1 DEF ShakeSend, handles, flags, socket
<1>2. CASE Acquire(h, "hLock", "hFail")
  BY <1>2 DEF Acquire, handles, flags, socket
<1>3. CASE ShakeFail(h)
  <2>1. pc["disc"] # "dSpawnNet"
    BY <1>3, OneInSection DEF ShakeFail, Critical
  <2> QED BY <1>3, <2>1 DEF ShakeFail, handles
<1>4. CASE JoinNet(h, "hJoinNet", "hResume")
  BY <1>4 DEF JoinNet, JoinThenGoto, Handles, flags, socket
<1>5. CASE ShakeResume(h)
  BY <1>5 DEF ShakeResume, handles, socket
<1>6. CASE ShakeEnd(h)
  BY <1>6 DEF ShakeEnd, handles, socket
<1> QED
  BY <1>1, <1>2, <1>3, <1>4, <1>5, <1>6 DEF Shake

-----------------------------------------------------------------------------
(***************************************************************************)
(* Network and reconnect threads, of a source of either side.              *)
(***************************************************************************)
\* A network or a reconnect thread does its own, joins the network thread, or
\* stops the stream when the network thread is joined.
Streams ==
    /\ UNCHANGED <<arg, old, valid, inProgress, port, shakeThread, deleted>>
    /\ \A t \in Actors \cup Shakes : pc'[t] = pc[t]
    /\ \/ /\ UNCHANGED <<running, bound, netThread>>
          /\ \A r \in Recs : pc'[r] = "rStop" => pc[r] = "rStop"
       \/ UNCHANGED <<running, bound>> /\ netThread' = None
       \/ /\ ~running' /\ UNCHANGED netThread
          /\ \E r \in Recs : pc[r] = "rStop"
          /\ \A r \in Recs : pc'[r] = "rStop" => pc[r] = "rStop"

LEMMA LaunchStreams ==
    ASSUME Known, Calm, NEW n \in Nets, Launch(n)
    PROVE  Streams /\ Calm'
<1> USE ThreadKinds DEF Known, SInv, MInv, TInv, PcType, Calm, At, Goto
<1>1. CASE LaunchBegin(n)
  BY <1>1 DEF LaunchBegin, handles, socket, Streams, Launched, Actors
<1>2. CASE LaunchCheck(n)
  BY <1>2 DEF LaunchCheck, handles, socket, Streams, Launched, Actors
<1>3. CASE JoinRec(n, "launchJoin", "launchSpawn")
  BY <1>3 DEF JoinRec, JoinThenGoto, Handles, flags, socket, Streams, Actors
<1>4. CASE LaunchSpawn(n)
  <2>1. PICK r \in Recs : Spawn(n, r, "rStart", "done") /\ recThread' = r
    BY <1>4 DEF LaunchSpawn, Launched
  <2>2. UNCHANGED <<arg, old, owner, netThread, shakeThread, fault, flags, socket, deleted>>
    BY <1>4 DEF LaunchSpawn
  <2>3. /\ pc'[n] = "done" /\ pc'[r] = "rStart"
        /\ \A t \in Threads \ {n, r} : pc'[t] = pc[t]
    BY <1>4, <2>1, Spawned DEF LaunchSpawn
  <2>4. \A t \in Threads : pc'[t] # "launchSpawn"
    BY <1>4, <2>3 DEF LaunchSpawn, OnePending, Pending
  <2> QED BY <2>2, <2>3, <2>4 DEF flags, socket, Streams, Actors
<1> QED BY <1>1, <1>2, <1>3, <1>4 DEF Launch

LEMMA StreamStep ==
    ASSUME Known, Calm, \/ \E n \in Nets : Net(n)
                        \/ \E r \in Recs : Rec(r)
    PROVE  Streams /\ Calm'
<1>1. ASSUME NEW n \in Nets, NetLoopEnds(n)
      PROVE  Streams /\ Calm'
  BY <1>1, ThreadKinds
     DEF Known, SInv, MInv, TInv, PcType, Calm, At, Goto, NetLoopEnds, handles, flags, socket,
         Streams, Actors
<1>2. ASSUME NEW r \in Recs, Rec(r)
      PROVE  Streams /\ Calm'
  <2> USE ThreadKinds DEF Known, SInv, MInv, TInv, PcType, Calm, At, Goto, Streams, Actors
  <2>1. CASE RecGivesUp(r)
    BY <2>1 DEF RecGivesUp, handles, socket
  <2>2. CASE RecGoesOn(r)
    BY <2>2 DEF RecGoesOn, handles, flags, socket
  <2>3. CASE Acquire(r, "rLock", "rCheck")
    BY <2>3 DEF Acquire, handles, flags, socket
  <2>4. CASE JoinNet(r, "rJoinNet", "rStop")
    BY <2>4 DEF JoinNet, JoinThenGoto, Handles, flags, socket
  <2>5. CASE RecStop(r)
    BY <2>5 DEF RecStop, handles
  <2>6. CASE RecEnd(r)
    BY <2>6 DEF RecEnd, handles, socket
  <2> QED
    BY <1>2, <2>1, <2>2, <2>3, <2>4, <2>5, <2>6 DEF Rec
<1> QED BY <1>1, <1>2, LaunchStreams DEF Net

LEMMA StreamsKeepHeard ==
    ASSUME Streams, Heard
    PROVE  Heard'
BY DEF Streams, Heard

LEMMA StreamsKeepFound ==
    ASSUME Known, FoundInv, Streams
    PROVE  FoundInv'
<1>1. /\ pc'["disc"] = pc["disc"] /\ pc'["listen"] = pc["listen"]
      /\ \A h \in Shakes : pc'[h] = pc[h]
  BY ThreadKinds DEF Streams, Actors
<1>2. shakeThread \in Shakes \cup {None}
  BY DEF Known, SInv, TInv, Handles
<1>3. Handshaking'
  BY <1>1, <1>2 DEF FoundInv, Handshaking, Streams
<1>4. (\E r \in Recs : pc[r] = "rStop") => pc["disc"] # "dSpawnNet"
  BY OneInSection, ThreadKinds DEF Critical
<1>5. Networking'
  BY <1>1, <1>4 DEF FoundInv, Networking, Streams
<1> QED BY <1>3, <1>5 DEF FoundInv

LEMMA StreamsKeepAsked ==
    ASSUME AskedInv, Streams
    PROVE  AskedInv'
<1>1. /\ pc'["disc"] = pc["disc"] /\ pc'["listen"] = pc["listen"]
      /\ \A h \in Shakes : pc'[h] = pc[h]
  BY ThreadKinds DEF Streams, Actors
<1> QED BY <1>1 DEF AskedInv, Streams

-----------------------------------------------------------------------------
(***************************************************************************)
(* The phone asks.                                                         *)
(***************************************************************************)
LEMMA RequestComes ==
    ASSUME Known, Calm, Heard, AskedInv, ListenRequest, \A s \in Shakes : pc[s] \in Over
    PROVE  AskedInv' /\ Heard' /\ Aside
<1>1. /\ pc'["listen"] = "lStop"
      /\ \A t \in Threads : t # "listen" => pc'[t] = pc[t]
      /\ UNCHANGED <<valid, running, bound, port, netThread, recThread, shakeThread, fault, deleted>>
  BY ThreadKinds
     DEF ListenRequest, Known, SInv, MInv, PcType, Goto, handles, flags, socket
<1> QED BY <1>1, ThreadKinds DEF AskedInv, Heard, Calm, Aside, Over, RequestBusy

LEMMA ListenKeepsAsked ==
    ASSUME Known, Calm, Heard, AskedInv, Listen
    PROVE  AskedInv' /\ Heard' /\ Aside
<1>0. \A s \in Shakes : pc[s] \in Over
  BY DEF AskedInv, Listen, StopStream, CloseReceiver, ListenMove, ListenSpawn, At
<1> USE ThreadKinds DEF Known, SInv, MInv, TInv, PcType, Calm, At, Goto, Heard, Aside, Over
<1>1. CASE StopStream("listen", "lStop", "lClose", "lMove")
  BY <1>0, <1>1 DEF StopStream, handles, socket, AskedInv, RequestBusy
<1>2. CASE CloseReceiver("listen", "lClose", "lMove")
  BY <1>0, <1>2 DEF CloseReceiver, handles, flags, AskedInv, RequestBusy
<1>3. CASE ListenMove
  BY <1>0, <1>3 DEF ListenMove, flags, socket, AskedInv, RequestBusy
<1>4. CASE ListenSpawn
  <2>1. shakeThread = None /\ pc["listen"] = "lSpawn" /\ ~running
    BY <1>4 DEF ListenSpawn, AskedInv
  <2>2. PICK s \in Shakes : Spawn("listen", s, "tJoinOld", "idle") /\ shakeThread' = s
    BY <1>4, <2>1 DEF ListenSpawn
  <2>3. UNCHANGED <<owner, netThread, recThread, fault, flags, socket, deleted>>
    BY <1>4, <2>1 DEF ListenSpawn
  <2>4. /\ pc'[s] = "tJoinOld" /\ pc'["listen"] = "idle"
        /\ \A t \in Threads \ {"listen", s} : pc'[t] = pc[t]
    BY <2>1, <2>2, Spawned
  <2>5. Aside /\ Heard'
    BY <2>3, <2>4 DEF flags, socket
  <2>6. AskedInv'
    BY <1>0, <2>1, <2>3, <2>4 DEF AskedInv, RequestBusy, flags
  <2> QED BY <2>5, <2>6
<1> QED BY <1>1, <1>2, <1>3, <1>4 DEF Listen

\* The thread of a request goes on, as the only one that is not over.
LEMMA RequestWalks ==
    ASSUME AskedInv, NEW t \in Shakes, pc[t] \in RequestBusy,
           NEW to \in RequestBusy \cup {"done"}, pc'[t] = to,
           pc'["disc"] = pc["disc"], pc'["listen"] = pc["listen"],
           \A s \in Shakes : s # t => pc'[s] = pc[s] \/ pc'[s] = "free",
           to \in RequestBusy \ {"tSpawnNet", "tSend"} => ~running',
           to \in {"tRecheck", "tOpen", "tSpawnNet"} => netThread' = None
    PROVE  AskedInv'
<1>1. "free" \notin RequestBusy /\ "done" \notin RequestBusy
  BY DEF RequestBusy
<1>2. pc["listen"] = "idle"
  BY <1>1 DEF AskedInv, Over
<1>3. \A s \in Shakes : pc'[s] \in RequestBusy => s = t
  BY <1>1 DEF AskedInv
<1>4. \A s \in Shakes : pc'[s] \in RequestBusy \cup Over
  BY DEF AskedInv, Over
<1>5. \A s \in Shakes : pc'[s] \in {"tRecheck", "tOpen", "tSpawnNet"} => pc'[s] \in RequestBusy
  BY DEF RequestBusy
<1> QED BY <1>2, <1>3, <1>4, <1>5 DEF AskedInv

LEMMA RequestKeepsAsked ==
    ASSUME Known, Calm, Heard, AskedInv, NEW t \in Shakes, Req(t)
    PROVE  AskedInv' /\ Heard' /\ Aside
<1> DEFINE GoesTo(to) ==
        /\ pc[t] \in RequestBusy /\ pc'[t] = to
        /\ pc'["disc"] = pc["disc"] /\ pc'["listen"] = pc["listen"]
        /\ \A s \in Shakes : s # t => pc'[s] = pc[s] \/ pc'[s] = "free"
        /\ to \in RequestBusy \ {"tSpawnNet", "tSend"} => ~running'
        /\ to \in {"tRecheck", "tOpen", "tSpawnNet"} => netThread' = None
<1>1. (\E to \in RequestBusy \cup {"done"} : GoesTo(to)) /\ Heard' /\ Aside
  <2> USE ThreadKinds DEF Known, SInv, MInv, TInv, PcType, Calm, At, Goto, Heard, Aside,
          AskedInv, RequestBusy
  <2>1. CASE ReqJoinOld(t)
    BY <2>1 DEF ReqJoinOld, JoinThenGoto, Handles, handles, flags, socket
  <2>2. CASE ReqGoesOn(t)
    BY <2>2 DEF ReqGoesOn, handles, flags, socket
  <2>3. CASE ReqGivesUp(t)
    BY <2>3 DEF ReqGivesUp
  <2>4. CASE Acquire(t, "tLock", "tCheck")
    BY <2>4 DEF Acquire, handles, flags, socket
  <2>5. CASE JoinNet(t, "tJoinNet", "tRecheck")
    BY <2>5 DEF JoinNet, JoinThenGoto, Handles, flags, socket
  <2>6. CASE ReqOpen(t)
    BY <2>6, SourceAssumption DEF ReqOpen, Open, ReqReturns, handles, TypeOK
  <2>7. CASE SpawnNet(t, "tSpawnNet", "tSend")
    <3>1. netThread = None
      BY <2>7 DEF SpawnNet
    <3>2. PICK n \in Nets : Spawn(t, n, "loop", "tSend")
      BY <2>7, <3>1 DEF SpawnNet
    <3>3. /\ pc'[t] = "tSend" /\ pc'[n] = "loop"
          /\ \A s \in Threads \ {n, t} : pc'[s] = pc[s]
      BY <2>7, <3>2, Spawned DEF SpawnNet
    <3> QED BY <2>7, <3>1, <3>3 DEF SpawnNet, flags, socket
  <2>8. CASE ReqSend(t)
    BY <2>8 DEF ReqSend, ReqReturns, handles, flags, socket
  <2> QED
    BY <2>1, <2>2, <2>3, <2>4, <2>5, <2>6, <2>7, <2>8 DEF Req
<1> QED BY <1>1, RequestWalks

-----------------------------------------------------------------------------
(***************************************************************************)
(* The invariant, and the properties of SourceSides.cfg.                   *)
(***************************************************************************)
\* Threads that have nothing to do.
LEMMA Resting ==
    /\ pc["disc"] = "idle" => ~Disc
    /\ pc["listen"] = "idle" => ~Listen
    /\ pc["ui"] = "idle" => ~Ui
    /\ \A t \in Shakes : pc[t] \in HandshakeBusy \cup Over => ~Req(t)
    /\ \A t \in Shakes : pc[t] \in RequestBusy \cup Over => ~Shake(t)
<1> USE DEF At, Acquire, JoinNet, JoinRec, JoinShake, StopStream, CloseReceiver
<1>1. pc["disc"] = "idle" => ~Disc
  BY DEF Disc, DiscCheck, DiscStop, DiscGuard, DiscOpen, SpawnNet, DiscFlag, DiscSpawnHs
<1>2. pc["listen"] = "idle" => ~Listen
  BY DEF Listen, ListenMove, ListenSpawn
<1>3. pc["ui"] = "idle" => ~Ui
  BY DEF Ui, Launch, LaunchBegin, LaunchCheck, LaunchSpawn, UiResume, UiStop, UiFree
<1>4. ASSUME NEW t \in Shakes, pc[t] \in HandshakeBusy \cup Over
      PROVE  ~Req(t)
  BY <1>4 DEF HandshakeBusy, Over, Req, ReqJoinOld, ReqGoesOn, ReqGivesUp, ReqOpen, SpawnNet,
              ReqSend
<1>5. ASSUME NEW t \in Shakes, pc[t] \in RequestBusy \cup Over
      PROVE  ~Shake(t)
  BY <1>5 DEF RequestBusy, Over, Shake, ShakeSend, ShakeFail, ShakeResume, ShakeEnd
<1> QED BY <1>1, <1>2, <1>3, <1>4, <1>5

LEMMA SideStep ==
    ASSUME ~Updates, ~Destroys, Known, SideInv, Next, ASideAtATime
    PROVE  SideInv'
<1>1. Calm /\ Heard /\ found' = found
  BY DEF SideInv, ASideAtATime
<1>2. ~CallUi
  BY DEF CallUi, UiDestroy, UiUpdate
<1>3. CASE (\E n \in Nets : Net(n)) \/ (\E r \in Recs : Rec(r))
  BY <1>1, <1>3, StreamStep, StreamsKeepHeard, StreamsKeepFound, StreamsKeepAsked DEF SideInv
<1>4. CASE found
  <2>1. FoundInv /\ Handshaking /\ Networking
    BY <1>4 DEF SideInv, FoundInv
  <2>2. CASE CallDisc \/ Disc
    <3>1. FoundInv' /\ Heard'
      BY <1>1, <2>1, <2>2, DiscKeepsHandshaking, DiscKeepsNetworking DEF FoundInv
    <3>2. Calm'
      BY <1>1, <2>1, <2>2, DiscAside, AsideKeepsCalm
    <3> QED BY <1>1, <1>4, <3>1, <3>2 DEF SideInv
  <2>3. ASSUME NEW h \in Shakes, Shake(h)
        PROVE  SideInv'
    <3>1. FoundInv' /\ Heard'
      BY <1>1, <2>1, <2>3, ShakeKeepsHandshaking, ShakeKeepsNetworking DEF FoundInv
    <3>2. Calm'
      BY <1>1, <2>3, ShakeAside, AsideKeepsCalm
    <3> QED BY <1>1, <1>4, <3>1, <3>2 DEF SideInv
  <2>4. ~Listen /\ ~Ui /\ \A t \in Shakes : ~Req(t)
    BY <1>1, <2>1, Resting DEF Handshaking, Calm
  <2>5. ~ListenRequest
    BY <1>4 DEF ASideAtATime
  <2> QED BY <1>2, <1>3, <2>2, <2>3, <2>4, <2>5 DEF Next, Step
<1>5. CASE ~found
  <2>1. AskedInv
    BY <1>5 DEF SideInv
  <2>2. ASSUME Listen \/ ListenRequest \/ \E t \in Shakes : Req(t)
        PROVE  SideInv'
    <3>1. AskedInv' /\ Heard' /\ Aside
      BY <1>1, <2>1, <2>2, ListenKeepsAsked, RequestKeepsAsked, RequestComes
         DEF ASideAtATime, Over
    <3> QED BY <1>1, <1>5, <3>1, AsideKeepsCalm DEF SideInv
  <2>3. ~Disc /\ ~Ui /\ \A t \in Shakes : ~Shake(t)
    BY <1>1, <2>1, Resting DEF AskedInv, Calm
  <2>4. ~CallDisc
    BY <1>5 DEF ASideAtATime
  <2> QED BY <1>2, <1>3, <2>2, <2>3, <2>4 DEF Next, Step
<1> QED BY <1>4, <1>5

LEMMA SideStart == SideInit => SideInv
<1> SUFFICES ASSUME SideInit
             PROVE  SideInv
  OBVIOUS
<1>1. /\ pc["disc"] = "idle" /\ pc["listen"] = "idle" /\ pc["ui"] = "idle"
      /\ \A t \in Threads : pc[t] \in {"idle", "free"}
      /\ \A s \in Shakes : pc[s] = "free"
  BY ThreadKinds DEF SideInit, Init, Actors
<1> QED
  BY <1>1, ThreadKinds
     DEF SideInit, Init, SideInv, Calm, Heard, FoundInv, Handshaking, Networking, AskedInv,
         HandshakeBusy, RequestBusy, Over

LEMMA SideIsSource == SideSpec => Spec
<1>1. SideInit => Init
  BY DEF SideInit
<1>2. [Next /\ ASideAtATime]_<<vars, found>> => [Next]_vars
  OBVIOUS
<1> QED BY <1>1, <1>2, PTL DEF SideSpec, Spec

LEMMA SideInvariant ==
    ASSUME ~Updates, ~Destroys
    PROVE  SideSpec => [](Known /\ SideInv)
<1>1. ASSUME Known, SideInv, [Next /\ ASideAtATime]_<<vars, found>>
      PROVE  SideInv'
  <2>1. CASE UNCHANGED <<vars, found>>
    BY <1>1, <2>1
       DEF vars, flags, handles, socket, SideInv, Calm, Heard, FoundInv, Handshaking,
           Networking, AskedInv
  <2> QED BY <1>1, <2>1, SideStep
<1>2. SideSpec => []Known
  BY SideIsSource, SourceInvariant, SourceTypesCorrect, PTL DEF Known
<1> QED BY <1>1, <1>2, SideStart, PTL DEF SideSpec

-----------------------------------------------------------------------------
\* NoFault of phone-source.cpp: when one side at a time uses a source that is
\* neither updated nor destroyed, no thread assigns to a std::thread that is
\* joinable, and no two use one at once.
THEOREM SidesDoNotFault ==
    ASSUME ~Updates, ~Destroys
    PROVE  SideSpec => []NoFault
<1>1. SideInv => NoFault
  BY DEF SideInv, Calm, NoFault
<1> QED BY <1>1, SideInvariant, PTL

\* StreamHasSocket: such a source that runs has a socket, on the port it shows.
THEOREM SidesHaveSockets ==
    ASSUME ~Updates, ~Destroys
    PROVE  SideSpec => []StreamHasSocket
<1>1. Known /\ SideInv => StreamHasSocket
  BY DEF SideInv, Heard, StreamHasSocket
<1> QED BY <1>1, SideInvariant, PTL

\* JoinsFinishedHandshake: the discovery callback of such a source, which holds
\* op_mutex, never waits for a handshake thread that is still at work.
THEOREM SidesJoinFinished ==
    ASSUME ~Updates, ~Destroys
    PROVE  SideSpec => []JoinsFinishedHandshake
<1>1. Known /\ SideInv => JoinsFinishedHandshake
  <2> SUFFICES ASSUME Known, SideInv, pc["disc"] = "dJoinHs", shakeThread # None
               PROVE  pc[shakeThread] = "done"
    BY DEF JoinsFinishedHandshake
  <2>1. Handshaking
    BY DEF SideInv, FoundInv, AskedInv
  <2>2. shakeThread \in Shakes
    BY DEF Known, SInv, TInv, Handles
  <2> QED BY <2>1, <2>2 DEF Handshaking, Over
<1> QED BY <1>1, SideInvariant, PTL

=============================================================================
