------------------------ MODULE PhoneSource_proofs -------------------------
(***************************************************************************)
(* NetThreadExclusive for every set of thread ids, ports and behaviours of *)
(* phone and user.  A thread in a section under op_mutex owns the mutex;   *)
(* all uses of network_thread are in such sections.  At the end TypeOK.    *)
(***************************************************************************)
EXTENDS PhoneSource, TLAPS

Critical ==
    {"rCheck", "rJoinNet", "rStop",
     "dCheck", "dStop", "dJoinNet", "dGuard", "dOpen", "dSpawnNet", "dFlag", "dJoinHs",
     "dSpawnHs",
     "hFail", "hJoinNet", "hResume",
     "tCheck", "tJoinNet", "tRecheck", "tOpen", "tSpawnNet", "tSend",
     "xStopDisc", "xStopListen", "xClose", "xJoinNet", "xJoinRec", "xJoinHs", "xFree"}

PcType == pc = [t \in Threads |-> pc[t]]
CriticalOwns == \A t \in Threads : pc[t] \in Critical => owner = t
MInv == PcType /\ CriticalOwns

\* Thread t goes to a label outside the sections, or to one inside while it
\* owns the mutex; others are where they were, or are freed or begin outside.
Moves(t, owns) ==
    /\ PcType'
    /\ \A s \in Threads : s # t => pc'[s] = pc[s] \/ pc'[s] \notin Critical
    /\ pc'[t] \in Critical => owns

LEMMA StaysIn ==
    ASSUME NEW t \in Threads, MInv, owner' = owner, Moves(t, owner = t)
    PROVE  MInv'
BY DEF MInv, PcType, CriticalOwns, Moves

LEMMA Enters ==
    ASSUME NEW t \in Threads, MInv, owner = None, owner' = t, None \notin Threads,
           Moves(t, TRUE)
    PROVE  MInv'
BY DEF MInv, PcType, CriticalOwns, Moves

LEMMA Leaves ==
    ASSUME NEW t \in Threads, MInv, Release(t), Moves(t, FALSE)
    PROVE  MInv'
BY DEF MInv, PcType, CriticalOwns, Moves, Release

-----------------------------------------------------------------------------
\* The building blocks as moves.
LEMMA GotoMoves ==
    ASSUME NEW t \in Threads, PcType, NEW label, Goto(t, label),
           NEW owns, label \in Critical => owns
    PROVE  Moves(t, owns)
BY DEF PcType, Goto, Moves

LEMMA JoinMoves ==
    ASSUME NEW t \in Threads, PcType, NEW joined, NEW label,
           JoinThenGoto(t, joined, label), NEW owns, label \in Critical => owns
    PROVE  Moves(t, owns)
<1>1. "free" \notin Critical
  BY DEF Critical
<1>2. QED
  BY <1>1 DEF PcType, JoinThenGoto, Moves

LEMMA SpawnMoves ==
    ASSUME NEW t \in Threads, PcType, NEW s, NEW first, NEW label,
           Spawn(t, s, first, label), first \notin Critical,
           NEW owns, label \in Critical => owns
    PROVE  Moves(t, owns)
BY DEF PcType, Spawn, Moves

LEMMA AcquireStep ==
    ASSUME NEW t \in Threads, MInv, NEW from, NEW to, Acquire(t, from, to)
    PROVE  MInv'
<1>1. Moves(t, TRUE)
  BY GotoMoves DEF Acquire, MInv
<1>2. QED
  BY <1>1, Enters, SourceAssumption DEF Acquire

\* A step that keeps the mutex, between labels of which the second is in a
\* section only if the first is.
LEMMA KeepStep ==
    ASSUME NEW t \in Threads, MInv, owner' = owner, NEW to, Goto(t, to),
           to \in Critical => pc[t] \in Critical
    PROVE  MInv'
<1>1. to \in Critical => owner = t
  BY DEF MInv, CriticalOwns
<1>2. Moves(t, owner = t)
  BY <1>1, GotoMoves DEF MInv
<1>3. QED
  BY <1>2, StaysIn

LEMMA ReleaseStep ==
    ASSUME NEW t \in Threads, MInv, Release(t), NEW to, Goto(t, to),
           to \notin Critical
    PROVE  MInv'
<1>1. Moves(t, FALSE)
  BY GotoMoves DEF MInv
<1>2. QED
  BY <1>1, Leaves

LEMMA JoinStep ==
    ASSUME NEW t \in Threads, MInv, owner' = owner, NEW joined, NEW to,
           JoinThenGoto(t, joined, to), to \in Critical => pc[t] \in Critical
    PROVE  MInv'
<1>1. to \in Critical => owner = t
  BY DEF MInv, CriticalOwns
<1>2. Moves(t, owner = t)
  BY <1>1, JoinMoves DEF MInv
<1>3. QED
  BY <1>2, StaysIn

LEMMA SpawnStep ==
    ASSUME NEW t \in Threads, MInv, owner' = owner, NEW s, NEW first,
           NEW to, Spawn(t, s, first, to), first \notin Critical,
           to \in Critical => pc[t] \in Critical
    PROVE  MInv'
<1>1. to \in Critical => owner = t
  BY DEF MInv, CriticalOwns
<1>2. Moves(t, owner = t)
  BY <1>1, SpawnMoves DEF MInv
<1>3. QED
  BY <1>2, StaysIn

LEMMA SpawnReleaseStep ==
    ASSUME NEW t \in Threads, MInv, Release(t), NEW s, NEW first,
           NEW to, Spawn(t, s, first, to), first \notin Critical,
           to \notin Critical
    PROVE  MInv'
<1>1. Moves(t, FALSE)
  BY SpawnMoves DEF MInv
<1>2. QED
  BY <1>1, Leaves

\* A fault stops everything where it is.
LEMMA FaultStep ==
    ASSUME MInv, UNCHANGED <<pc, owner>>
    PROVE  MInv'
BY DEF MInv, PcType, CriticalOwns

-----------------------------------------------------------------------------
LEMMA LaunchStep ==
    ASSUME NEW t \in Threads, MInv, Launch(t)
    PROVE  MInv'
<1>1. Launched(t) \notin Critical
  BY DEF Launched, Critical
<1>2. CASE LaunchBegin(t)
  BY <1>1, <1>2, KeepStep DEF LaunchBegin, At, Critical
<1>3. CASE LaunchCheck(t)
  BY <1>1, <1>3, KeepStep DEF LaunchCheck, At, Critical
<1>4. CASE JoinRec(t, "launchJoin", "launchSpawn")
  BY <1>4, JoinStep DEF JoinRec, At, Critical
<1>5. CASE LaunchSpawn(t)
  <2>1. CASE Terminate
    BY <2>1, FaultStep DEF Terminate
  <2>2. CASE /\ \E r \in Recs : Spawn(t, r, "rStart", Launched(t))
             /\ owner' = owner
    <3>1. "rStart" \notin Critical
      BY DEF Critical
    <3>2. QED
      BY <1>1, <2>2, <3>1, SpawnStep
  <2>3. QED
    BY <1>5, <2>1, <2>2 DEF LaunchSpawn
<1>6. QED
  BY <1>2, <1>3, <1>4, <1>5 DEF Launch

LEMMA NetStep ==
    ASSUME NEW n \in Nets, MInv, Net(n)
    PROVE  MInv'
<1> n \in Threads
  BY DEF Threads
<1>1. CASE NetLoopEnds(n)
  BY <1>1, KeepStep DEF NetLoopEnds, At, Critical
<1>2. CASE Launch(n)
  BY <1>2, LaunchStep
<1>3. QED
  BY <1>1, <1>2 DEF Net

LEMMA SpawnNetStep ==
    ASSUME NEW t \in Threads, MInv, NEW from, NEW to, SpawnNet(t, from, to),
           from \in Critical
    PROVE  MInv'
<1>1. CASE Terminate
  BY <1>1, FaultStep DEF Terminate
<1>2. CASE owner' = owner /\ \E n \in Nets : Spawn(t, n, "loop", to)
  <2>1. "loop" \notin Critical /\ pc[t] \in Critical
    BY DEF SpawnNet, At, Critical
  <2>2. QED
    BY <1>2, <2>1, SpawnStep
<1>3. QED
  BY <1>1, <1>2 DEF SpawnNet

LEMMA RecStep ==
    ASSUME NEW r \in Recs, MInv, Rec(r)
    PROVE  MInv'
<1> r \in Threads
  BY DEF Threads, Actors
<1>1. CASE RecGivesUp(r)
  BY <1>1, ReleaseStep DEF RecGivesUp, At, Critical
<1>2. CASE RecGoesOn(r)
  BY <1>2, KeepStep DEF RecGoesOn, At, Critical
<1>3. CASE Acquire(r, "rLock", "rCheck")
  BY <1>3, AcquireStep
<1>4. CASE JoinNet(r, "rJoinNet", "rStop")
  BY <1>4, JoinStep DEF JoinNet, At, Critical
<1>5. CASE RecStop(r)
  BY <1>5, ReleaseStep DEF RecStop, At, Critical
<1>6. CASE RecEnd(r)
  BY <1>6, KeepStep DEF RecEnd, At, Critical
<1>7. QED
  BY <1>1, <1>2, <1>3, <1>4, <1>5, <1>6 DEF Rec

LEMMA DiscStep ==
    ASSUME MInv, Disc
    PROVE  MInv'
<1> "disc" \in Threads
  BY DEF Threads, Actors
<1>1. CASE Acquire("disc", "dLock", "dCheck")
  BY <1>1, AcquireStep
<1>2. CASE DiscCheck
  <2>1. CASE DiscReturns(FALSE)
    BY <2>1, ReleaseStep DEF DiscReturns, Critical
  <2>2. CASE owner' = owner /\ Goto("disc", "dStop")
    BY <1>2, <2>2, KeepStep DEF DiscCheck, At, Critical
  <2>3. QED
    BY <1>2, <2>1, <2>2 DEF DiscCheck
<1>3. CASE DiscStop
  BY <1>3, KeepStep DEF DiscStop, At, Critical
<1>4. CASE JoinNet("disc", "dJoinNet", "dGuard")
  BY <1>4, JoinStep DEF JoinNet, At, Critical
<1>5. CASE DiscGuard
  <2>1. CASE DiscReturns(valid)
    BY <2>1, ReleaseStep DEF DiscReturns, Critical
  <2>2. CASE owner' = owner /\ Goto("disc", "dOpen")
    BY <1>5, <2>2, KeepStep DEF DiscGuard, At, Critical
  <2>3. QED
    BY <1>5, <2>1, <2>2 DEF DiscGuard
<1>6. CASE DiscOpen
  <2>1. CASE DiscReturns(TRUE)
    BY <2>1, ReleaseStep DEF DiscReturns, Critical
  <2>2. CASE owner' = owner /\ Goto("disc", "dSpawnNet")
    BY <1>6, <2>2, KeepStep DEF DiscOpen, At, Critical
  <2>3. QED
    BY <1>6, <2>1, <2>2 DEF DiscOpen
<1>7. CASE SpawnNet("disc", "dSpawnNet", "dFlag")
  BY <1>7, SpawnNetStep DEF Critical
<1>8. CASE DiscFlag
  BY <1>8, KeepStep DEF DiscFlag, At, Critical
<1>9. CASE JoinShake("disc", "dJoinHs", "dSpawnHs")
  BY <1>9, JoinStep DEF JoinShake, At, Critical
<1>10. CASE DiscSpawnHs
  <2>1. CASE Terminate
    BY <2>1, FaultStep DEF Terminate
  <2>2. CASE Release("disc") /\ \E h \in Shakes : Spawn("disc", h, "hStart", "idle")
    BY <2>2, SpawnReleaseStep DEF Critical
  <2>3. QED
    BY <1>10, <2>1, <2>2 DEF DiscSpawnHs
<1>11. QED
  BY <1>1, <1>2, <1>3, <1>4, <1>5, <1>6, <1>7, <1>8, <1>9, <1>10 DEF Disc

LEMMA ShakeStep ==
    ASSUME NEW h \in Shakes, MInv, Shake(h)
    PROVE  MInv'
<1> h \in Threads
  BY DEF Threads, Actors
<1>1. CASE ShakeSend(h)
  BY <1>1, KeepStep DEF ShakeSend, At, Critical
<1>2. CASE Acquire(h, "hLock", "hFail")
  BY <1>2, AcquireStep
<1>3. CASE ShakeFail(h)
  <2>1. CASE Release(h) /\ Goto(h, "done")
    BY <2>1, ReleaseStep DEF Critical
  <2>2. CASE owner' = owner /\ Goto(h, "hJoinNet")
    BY <1>3, <2>2, KeepStep DEF ShakeFail, At, Critical
  <2>3. QED
    BY <1>3, <2>1, <2>2 DEF ShakeFail
<1>4. CASE JoinNet(h, "hJoinNet", "hResume")
  BY <1>4, JoinStep DEF JoinNet, At, Critical
<1>5. CASE ShakeResume(h)
  BY <1>5, ReleaseStep DEF ShakeResume, At, Critical
<1>6. CASE ShakeEnd(h)
  BY <1>6, KeepStep DEF ShakeEnd, At, Critical
<1>7. QED
  BY <1>1, <1>2, <1>3, <1>4, <1>5, <1>6 DEF Shake

LEMMA ReqStep ==
    ASSUME NEW t \in Shakes, MInv, Req(t)
    PROVE  MInv'
<1> t \in Threads
  BY DEF Threads, Actors
<1>1. CASE ReqJoinOld(t)
  BY <1>1, JoinStep DEF ReqJoinOld, At, Critical
<1>2. CASE ReqGoesOn(t)
  BY <1>2, KeepStep DEF ReqGoesOn, At, Critical
<1>3. CASE ReqGivesUp(t)
  BY <1>3, ReleaseStep DEF ReqGivesUp, ReqReturns, At, Critical
<1>4. CASE Acquire(t, "tLock", "tCheck")
  BY <1>4, AcquireStep
<1>5. CASE JoinNet(t, "tJoinNet", "tRecheck")
  BY <1>5, JoinStep DEF JoinNet, At, Critical
<1>6. CASE ReqOpen(t)
  <2>1. CASE ReqReturns(t)
    BY <2>1, ReleaseStep DEF ReqReturns, Critical
  <2>2. CASE owner' = owner /\ Goto(t, "tSpawnNet")
    BY <1>6, <2>2, KeepStep DEF ReqOpen, At, Critical
  <2>3. QED
    BY <1>6, <2>1, <2>2 DEF ReqOpen
<1>7. CASE SpawnNet(t, "tSpawnNet", "tSend")
  BY <1>7, SpawnNetStep DEF Critical
<1>8. CASE ReqSend(t)
  BY <1>8, ReleaseStep DEF ReqSend, ReqReturns, At, Critical
<1>9. QED
  BY <1>1, <1>2, <1>3, <1>4, <1>5, <1>6, <1>7, <1>8 DEF Req

LEMMA ListenStep ==
    ASSUME MInv, Listen
    PROVE  MInv'
<1> "listen" \in Threads
  BY DEF Threads, Actors
<1>1. CASE StopStream("listen", "lStop", "lClose", "lMove")
  BY <1>1, KeepStep DEF StopStream, At, Critical
<1>2. CASE CloseReceiver("listen", "lClose", "lMove")
  BY <1>2, KeepStep DEF CloseReceiver, At, Critical
<1>3. CASE ListenMove
  <2>1. CASE UNCHANGED <<pc, owner>>
    BY <2>1, FaultStep
  <2>2. CASE owner' = owner /\ Goto("listen", "lSpawn")
    BY <2>2, KeepStep DEF Critical
  <2>3. QED
    BY <1>3, <2>1, <2>2 DEF ListenMove
<1>4. CASE ListenSpawn
  <2>1. CASE Terminate
    BY <2>1, FaultStep DEF Terminate
  <2>2. CASE owner' = owner /\ \E s \in Shakes : Spawn("listen", s, "tJoinOld", "idle")
    BY <2>2, SpawnStep DEF Critical
  <2>3. QED
    BY <1>4, <2>1, <2>2 DEF ListenSpawn
<1>5. QED
  BY <1>1, <1>2, <1>3, <1>4 DEF Listen

LEMMA UiStopStep ==
    ASSUME MInv, NEW actor \in Actors \ {"ui"}, NEW from \in Critical, NEW to,
           UiStop(actor, from, to)
    PROVE  MInv'
<1>1. "ui" \in Threads /\ actor \in Threads
  BY DEF Threads, Actors
<1>2. "done" \notin Critical
  BY DEF Critical
<1>3. owner' = owner /\ owner = "ui"
  BY <1>1 DEF UiStop, At, MInv, CriticalOwns
<1>4. Moves("ui", owner = "ui")
  BY <1>1, <1>2, <1>3 DEF UiStop, Moves, MInv, PcType
<1>5. QED
  BY <1>1, <1>3, <1>4, StaysIn

LEMMA UiStep ==
    ASSUME MInv, Ui
    PROVE  MInv'
<1> "ui" \in Threads
  BY DEF Threads, Actors
<1>1. CASE StopStream("ui", "uStop", "uClose", "uResume")
  BY <1>1, KeepStep DEF StopStream, At, Critical
<1>2. CASE CloseReceiver("ui", "uClose", "launch")
  BY <1>2, KeepStep DEF CloseReceiver, At, Critical
<1>3. CASE Launch("ui")
  BY <1>3, LaunchStep
<1>4. CASE UiResume
  BY <1>4, KeepStep DEF UiResume, At, Critical
<1>5. CASE Acquire("ui", "xLock", "xStopDisc")
  BY <1>5, AcquireStep
<1>6. CASE UiStop("disc", "xStopDisc", "xStopListen")
  BY <1>6, UiStopStep DEF Actors, Critical
<1>7. CASE UiStop("listen", "xStopListen", "xClose")
  BY <1>7, UiStopStep DEF Actors, Critical
<1>8. CASE CloseReceiver("ui", "xClose", "xJoinNet")
  BY <1>8, KeepStep DEF CloseReceiver, At, Critical
<1>9. CASE JoinNet("ui", "xJoinNet", "xJoinRec")
  BY <1>9, JoinStep DEF JoinNet, At, Critical
<1>10. CASE JoinRec("ui", "xJoinRec", "xJoinHs")
  BY <1>10, JoinStep DEF JoinRec, At, Critical
<1>11. CASE JoinShake("ui", "xJoinHs", "xFree")
  BY <1>11, JoinStep DEF JoinShake, At, Critical
<1>12. CASE UiFree
  BY <1>12, ReleaseStep DEF UiFree, At, Critical
<1>13. QED
  BY <1>1, <1>2, <1>3, <1>4, <1>5, <1>6, <1>7, <1>8, <1>9, <1>10, <1>11, <1>12 DEF Ui

\* The phone or the user calls.
LEMMA CallStep ==
    ASSUME MInv, CallDisc \/ ListenRequest \/ CallUi
    PROVE  MInv'
<1> Actors \subseteq Threads
  BY DEF Threads
<1>1. ASSUME NEW p \in Ports, DiscFound(p)
      PROVE  MInv'
  BY <1>1, KeepStep DEF DiscFound, Actors, Critical
<1>2. CASE ListenRequest
  BY <1>2, KeepStep DEF ListenRequest, Actors, Critical
<1>3. ASSUME NEW p \in Ports, UiUpdate(p)
      PROVE  MInv'
  BY <1>3, KeepStep DEF UiUpdate, Actors, Critical
<1>4. CASE UiDestroy
  BY <1>4, KeepStep DEF UiDestroy, Actors, Critical
<1>5. QED
  BY <1>1, <1>2, <1>3, <1>4 DEF CallDisc, CallUi

LEMMA MutexInvariant == Spec => []MInv
<1>1. Init => MInv
  BY DEF Init, MInv, PcType, CriticalOwns, Critical
<1>2. ASSUME MInv, [Next]_vars
      PROVE  MInv'
  <2>1. CASE CallDisc \/ ListenRequest \/ CallUi
    BY <1>2, <2>1, CallStep
  <2>2. ASSUME NEW t \in Threads, Step(t)
        PROVE  MInv'
    BY <1>2, <2>2, DiscStep, ListenStep, UiStep, NetStep, RecStep, ShakeStep, ReqStep
       DEF Step
  <2>3. CASE UNCHANGED vars
    BY <1>2, <2>3, FaultStep DEF vars
  <2>4. QED
    BY <1>2, <2>1, <2>2, <2>3 DEF Next
<1>3. QED
  BY <1>1, <1>2, PTL DEF Spec

\* network_thread is never about to be used by two threads: whatever the phone,
\* the user and OBS do, joining and assigning it stays under op_mutex.
THEOREM NetThreadIsExclusive == Spec => []NetThreadExclusive
<1>1. MInv => NetThreadExclusive
  <2>1. UsesNetThread \subseteq Critical
    BY DEF UsesNetThread, Critical
  <2>2. QED
    BY <2>1 DEF MInv, CriticalOwns, NetThreadExclusive
<1>2. QED
  BY <1>1, MutexInvariant, PTL

-----------------------------------------------------------------------------
(***************************************************************************)
(* TypeOK.  What needs more than its own step is the port: a callback or   *)
(* the thread of a request keeps a real one from its first label to start. *)
(***************************************************************************)
Working ==
    {"dLock", "dCheck", "dStop", "dJoinNet", "dGuard", "dOpen", "dSpawnNet", "dFlag",
     "dJoinHs", "dSpawnHs",
     "lStop", "lClose", "lMove", "lSpawn",
     "tJoinOld", "tStart", "tLock", "tCheck", "tJoinNet", "tRecheck", "tOpen",
     "tSpawnNet", "tSend"}

Armed == \A t \in Threads : pc[t] \in Working => arg[t] \in Ports

\* What TypeOK says of each group of variables.
Located == pc \in [Threads -> Labels] /\ arg \in [Threads -> Ports \cup {0}]
Named ==
    /\ old \in [Threads -> Shakes \cup {None}]
    /\ owner \in Threads \cup {None}
    /\ netThread \in Nets \cup {None}
    /\ recThread \in Recs \cup {None}
    /\ shakeThread \in Shakes \cup {None}
Switched ==
    /\ {valid, running, pending, inProgress, paused, audio, deleted} \subseteq BOOLEAN
    /\ {port, bound} \subseteq Ports \cup {0}
    /\ fault \in {"none", "terminate", "race"}

YInv == Located /\ Named /\ Switched /\ Armed

LEMMA YInvTypes == YInv => TypeOK
BY DEF YInv, Located, Named, Switched, Armed, TypeOK, Working

\* Thread t goes to a label, with the port it has, with a new one or with none.
LEMMA GoesTyped ==
    ASSUME YInv, NEW t \in Threads, NEW to \in Labels, Goto(t, to), Named', Switched',
           \/ arg' = arg /\ (to \in Working => pc[t] \in Working)
           \/ \E p \in Ports : arg' = [arg EXCEPT ![t] = p]
           \/ arg' = [arg EXCEPT ![t] = 0] /\ to \notin Working
    PROVE  YInv'
BY DEF YInv, Located, Armed, Goto

\* ... and another thread is freed.
LEMMA JoinsTyped ==
    ASSUME YInv, NEW t \in Threads, NEW to \in Labels, NEW j, JoinThenGoto(t, j, to),
           Named', Switched', arg' = arg, to \in Working => pc[t] \in Working
    PROVE  YInv'
<1>1. "free" \in Labels \ Working
  BY DEF Labels, Working
<1>2. Located'
  BY <1>1 DEF YInv, Located, JoinThenGoto
<1>3. Armed'
  BY <1>1 DEF YInv, Located, Armed, JoinThenGoto
<1>4. QED
  BY <1>2, <1>3 DEF YInv

\* ... and another thread begins, without a port.
LEMMA SpawnsTyped ==
    ASSUME YInv, NEW t \in Threads, NEW to \in Labels, NEW s \in Threads,
           NEW first \in Labels \ Working, Spawn(t, s, first, to), Named', Switched',
           \/ arg' = arg /\ (to \in Working => pc[t] \in Working)
           \/ arg' = [arg EXCEPT ![t] = 0] /\ to \notin Working
    PROVE  YInv'
<1>1. Located'
  BY DEF YInv, Located, Spawn
<1>2. Armed'
  BY DEF YInv, Located, Armed, Spawn
<1>3. QED
  BY <1>1, <1>2 DEF YInv

LEMMA RestsTyped ==
    ASSUME YInv, UNCHANGED <<pc, arg>>, Named', Switched'
    PROVE  YInv'
BY DEF YInv, Located, Armed

\* The mutex is taken by a thread or let go.
LEMMA OwnerTyped ==
    ASSUME YInv, NEW t \in Threads, UNCHANGED <<old, handles>>,
           owner' = owner \/ owner' = t \/ Release(t)
    PROVE  Named'
BY DEF YInv, Named, handles, Release

LEMMA SameSwitches ==
    ASSUME YInv, UNCHANGED <<flags, socket, deleted>>,
           fault' \in {fault, "terminate", "race"}
    PROVE  Switched'
BY DEF YInv, Switched, flags, socket

-----------------------------------------------------------------------------
LEMMA TypedAcquire ==
    ASSUME YInv, NEW t \in Threads, NEW from, NEW to \in Labels, Acquire(t, from, to),
           to \in Working => from \in Working
    PROVE  YInv'
BY OwnerTyped, SameSwitches, GoesTyped DEF Acquire, At

LEMMA TypedJoinNet ==
    ASSUME YInv, NEW t \in Threads, NEW from, NEW to \in Labels, JoinNet(t, from, to),
           to \in Working => from \in Working
    PROVE  YInv'
<1>1. Named'
  BY DEF YInv, Named, JoinNet
<1>2. QED
  BY <1>1, SameSwitches, JoinsTyped DEF JoinNet, At

LEMMA TypedJoinRec ==
    ASSUME YInv, NEW t \in Threads, NEW from, NEW to \in Labels, JoinRec(t, from, to),
           to \in Working => from \in Working
    PROVE  YInv'
<1>1. Named'
  BY DEF YInv, Named, JoinRec
<1>2. QED
  BY <1>1, SameSwitches, JoinsTyped DEF JoinRec, At

LEMMA TypedJoinShake ==
    ASSUME YInv, NEW t \in Threads, NEW from, NEW to \in Labels, JoinShake(t, from, to),
           to \in Working => from \in Working
    PROVE  YInv'
<1>1. Named'
  BY DEF YInv, Named, JoinShake
<1>2. QED
  BY <1>1, SameSwitches, JoinsTyped DEF JoinShake, At

LEMMA TypedTerminate ==
    ASSUME YInv, Terminate, UNCHANGED <<flags, socket, deleted>>
    PROVE  YInv'
<1>1. Named'
  BY DEF YInv, Named, Terminate, handles
<1>2. QED
  BY <1>1, SameSwitches, RestsTyped DEF Terminate

LEMMA TypedSpawnNet ==
    ASSUME YInv, NEW t \in Threads, NEW from, NEW to \in Labels, SpawnNet(t, from, to),
           to \in Working => from \in Working
    PROVE  YInv'
<1>1. CASE Terminate
  BY <1>1, TypedTerminate DEF SpawnNet
<1>2. ASSUME NEW n \in Nets, Spawn(t, n, "loop", to), netThread' = n,
             UNCHANGED <<arg, old, owner, recThread, shakeThread, fault>>
      PROVE  YInv'
  <2>1. Named'
    BY <1>2 DEF YInv, Named
  <2>2. "loop" \in Labels \ Working /\ n \in Threads
    BY DEF Labels, Working, Threads
  <2>3. QED
    BY <1>2, <2>1, <2>2, SameSwitches, SpawnsTyped DEF SpawnNet, At
<1>3. QED
  BY <1>1, <1>2 DEF SpawnNet

LEMMA TypedLaunch ==
    ASSUME YInv, NEW t \in Nets \cup {"ui"}, Launch(t)
    PROVE  YInv'
<1>1. t \in Threads
  BY DEF Threads, Actors
<1>2. Launched(t) \in Labels \ Working
  BY DEF Launched, Labels, Working
<1>3. {"launchCheck", "launchJoin", "launchSpawn", "rStart"} \subseteq Labels \ Working
  BY DEF Labels, Working
<1>4. CASE LaunchBegin(t)
  <2>1. Switched'
    BY <1>4 DEF LaunchBegin, YInv, Switched, socket
  <2>2. QED
    BY <1>1, <1>2, <1>3, <1>4, <2>1, OwnerTyped, GoesTyped DEF LaunchBegin
<1>5. CASE LaunchCheck(t)
  <2>1. Switched'
    BY <1>5 DEF LaunchCheck, YInv, Switched, socket
  <2>2. QED
    BY <1>1, <1>2, <1>3, <1>5, <2>1, OwnerTyped, GoesTyped DEF LaunchCheck
<1>6. CASE JoinRec(t, "launchJoin", "launchSpawn")
  BY <1>1, <1>3, <1>6, TypedJoinRec
<1>7. CASE LaunchSpawn(t)
  <2>1. CASE Terminate
    BY <1>7, <2>1, TypedTerminate DEF LaunchSpawn
  <2>2. ASSUME NEW r \in Recs, Spawn(t, r, "rStart", Launched(t)), recThread' = r,
               UNCHANGED <<arg, old, owner, netThread, shakeThread, fault>>
        PROVE  YInv'
    <3>1. Named' /\ r \in Threads
      BY <2>2 DEF YInv, Named, Threads
    <3>2. QED
      BY <1>1, <1>2, <1>3, <1>7, <2>2, <3>1, SameSwitches, SpawnsTyped DEF LaunchSpawn
  <2>3. QED
    BY <1>7, <2>1, <2>2 DEF LaunchSpawn
<1>8. QED
  BY <1>4, <1>5, <1>6, <1>7 DEF Launch

LEMMA TypedNet ==
    ASSUME YInv, NEW n \in Nets, Net(n)
    PROVE  YInv'
<1>1. n \in Threads /\ "launch" \in Labels \ Working
  BY DEF Threads, Labels, Working
<1>2. CASE NetLoopEnds(n)
  BY <1>1, <1>2, OwnerTyped, SameSwitches, GoesTyped DEF NetLoopEnds
<1>3. QED
  BY <1>2, TypedLaunch DEF Net

LEMMA TypedRec ==
    ASSUME YInv, NEW r \in Recs, Rec(r)
    PROVE  YInv'
<1>1. r \in Threads
  BY DEF Threads
<1>2. {"rLock", "rCheck", "rJoinNet", "rStop", "rEnd", "done"} \subseteq Labels \ Working
  BY DEF Labels, Working
<1>3. CASE RecGivesUp(r)
  <2>1. Switched'
    BY <1>3 DEF RecGivesUp, YInv, Switched, socket
  <2>2. QED
    BY <1>1, <1>2, <1>3, <2>1, OwnerTyped, GoesTyped DEF RecGivesUp
<1>4. CASE RecGoesOn(r)
  BY <1>1, <1>2, <1>4, OwnerTyped, SameSwitches, GoesTyped DEF RecGoesOn
<1>5. CASE Acquire(r, "rLock", "rCheck")
  BY <1>1, <1>2, <1>5, TypedAcquire
<1>6. CASE JoinNet(r, "rJoinNet", "rStop")
  BY <1>1, <1>2, <1>6, TypedJoinNet
<1>7. CASE RecStop(r)
  <2>1. Switched'
    BY <1>7 DEF RecStop, YInv, Switched
  <2>2. QED
    BY <1>1, <1>2, <1>7, <2>1, OwnerTyped, GoesTyped DEF RecStop
<1>8. CASE RecEnd(r)
  <2>1. Switched'
    BY <1>8 DEF RecEnd, YInv, Switched, socket
  <2>2. QED
    BY <1>1, <1>2, <1>8, <2>1, OwnerTyped, GoesTyped DEF RecEnd
<1>9. QED
  BY <1>3, <1>4, <1>5, <1>6, <1>7, <1>8 DEF Rec

LEMMA TypedReturn ==
    ASSUME YInv, NEW resumes \in BOOLEAN, DiscReturns(resumes), UNCHANGED <<old, handles>>,
           Switched'
    PROVE  YInv'
<1>1. "disc" \in Threads /\ "idle" \in Labels \ Working
  BY DEF Threads, Actors, Labels, Working
<1>2. QED
  BY <1>1, OwnerTyped, GoesTyped DEF DiscReturns

LEMMA TypedDisc ==
    ASSUME YInv, Disc
    PROVE  YInv'
<1>1. "disc" \in Threads
  BY DEF Threads, Actors
<1>2. {"dCheck", "dStop", "dJoinNet", "dGuard", "dOpen", "dSpawnNet", "dFlag", "dJoinHs",
       "dSpawnHs", "dLock"} \subseteq Labels \cap Working
  BY DEF Labels, Working
<1>3. arg["disc"] \in Ports \/ pc["disc"] \notin Working
  BY <1>1 DEF YInv, Armed
<1>4. valid \in BOOLEAN
  BY DEF YInv, Switched
<1>5. CASE Acquire("disc", "dLock", "dCheck")
  BY <1>1, <1>2, <1>5, TypedAcquire
<1>6. CASE DiscCheck
  <2>1. Switched'
    BY <1>6 DEF DiscCheck, DiscReturns, YInv, Switched, socket
  <2>2. CASE DiscReturns(FALSE)
    BY <1>6, <2>1, <2>2, TypedReturn DEF DiscCheck
  <2>3. CASE Goto("disc", "dStop") /\ UNCHANGED <<arg, owner>>
    BY <1>1, <1>2, <1>6, <2>1, <2>3, OwnerTyped, GoesTyped DEF DiscCheck, At
  <2>4. QED
    BY <1>6, <2>2, <2>3 DEF DiscCheck
<1>7. CASE DiscStop
  <2>1. Switched'
    BY <1>7 DEF DiscStop, YInv, Switched
  <2>2. QED
    BY <1>1, <1>2, <1>7, <2>1, OwnerTyped, GoesTyped DEF DiscStop, At
<1>8. CASE JoinNet("disc", "dJoinNet", "dGuard")
  BY <1>1, <1>2, <1>8, TypedJoinNet
<1>9. CASE DiscGuard
  <2>1. Switched'
    BY <1>2, <1>3, <1>9 DEF DiscGuard, DiscReturns, YInv, Switched, At
  <2>2. CASE DiscReturns(valid)
    BY <1>4, <1>9, <2>1, <2>2, TypedReturn DEF DiscGuard
  <2>3. CASE Goto("disc", "dOpen") /\ UNCHANGED <<arg, owner>>
    BY <1>1, <1>2, <1>9, <2>1, <2>3, OwnerTyped, GoesTyped DEF DiscGuard, At
  <2>4. QED
    BY <1>9, <2>2, <2>3 DEF DiscGuard
<1>10. CASE DiscOpen
  <2>1. Switched'
    BY <1>2, <1>3, <1>10 DEF DiscOpen, DiscReturns, Open, YInv, Switched, At
  <2>2. CASE DiscReturns(TRUE)
    BY <1>10, <2>1, <2>2, TypedReturn DEF DiscOpen
  <2>3. CASE Goto("disc", "dSpawnNet") /\ UNCHANGED <<arg, owner>>
    BY <1>1, <1>2, <1>10, <2>1, <2>3, OwnerTyped, GoesTyped DEF DiscOpen, At
  <2>4. QED
    BY <1>10, <2>2, <2>3 DEF DiscOpen
<1>11. CASE SpawnNet("disc", "dSpawnNet", "dFlag")
  BY <1>1, <1>2, <1>11, TypedSpawnNet
<1>12. CASE DiscFlag
  <2>1. Switched'
    BY <1>12 DEF DiscFlag, YInv, Switched, socket
  <2>2. QED
    BY <1>1, <1>2, <1>12, <2>1, OwnerTyped, GoesTyped DEF DiscFlag, At
<1>13. CASE JoinShake("disc", "dJoinHs", "dSpawnHs")
  BY <1>1, <1>2, <1>13, TypedJoinShake
<1>14. CASE DiscSpawnHs
  <2>1. CASE Terminate
    BY <1>14, <2>1, TypedTerminate DEF DiscSpawnHs
  <2>2. ASSUME NEW h \in Shakes, Spawn("disc", h, "hStart", "idle"), shakeThread' = h,
               arg' = [arg EXCEPT !["disc"] = 0], Release("disc"),
               UNCHANGED <<old, netThread, recThread, fault>>
        PROVE  YInv'
    <3>1. Named' /\ h \in Threads
      BY <1>1, <2>2 DEF YInv, Named, Release, Threads
    <3>2. "hStart" \in Labels \ Working /\ "idle" \in Labels \ Working
      BY DEF Labels, Working
    <3>3. QED
      BY <1>1, <1>14, <2>2, <3>1, <3>2, SameSwitches, SpawnsTyped DEF DiscSpawnHs
  <2>3. QED
    BY <1>14, <2>1, <2>2 DEF DiscSpawnHs
<1>15. QED
  BY <1>5, <1>6, <1>7, <1>8, <1>9, <1>10, <1>11, <1>12, <1>13, <1>14 DEF Disc

LEMMA TypedShake ==
    ASSUME YInv, NEW h \in Shakes, Shake(h)
    PROVE  YInv'
<1>1. h \in Threads
  BY DEF Threads
<1>2. {"hLock", "hFail", "hJoinNet", "hResume", "hClear", "done"} \subseteq Labels \ Working
  BY DEF Labels, Working
<1>3. CASE ShakeSend(h)
  BY <1>1, <1>2, <1>3, OwnerTyped, SameSwitches, GoesTyped DEF ShakeSend
<1>4. CASE Acquire(h, "hLock", "hFail")
  BY <1>1, <1>2, <1>4, TypedAcquire
<1>5. CASE ShakeFail(h)
  <2>1. Switched'
    BY <1>5 DEF ShakeFail, YInv, Switched
  <2>2. QED
    BY <1>1, <1>2, <1>5, <2>1, OwnerTyped, GoesTyped DEF ShakeFail
<1>6. CASE JoinNet(h, "hJoinNet", "hResume")
  BY <1>1, <1>2, <1>6, TypedJoinNet
<1>7. CASE ShakeResume(h)
  <2>1. Switched'
    BY <1>7 DEF ShakeResume, YInv, Switched, socket
  <2>2. QED
    BY <1>1, <1>2, <1>7, <2>1, OwnerTyped, GoesTyped DEF ShakeResume
<1>8. CASE ShakeEnd(h)
  <2>1. Switched'
    BY <1>8 DEF ShakeEnd, YInv, Switched, socket
  <2>2. QED
    BY <1>1, <1>2, <1>8, <2>1, OwnerTyped, GoesTyped DEF ShakeEnd
<1>9. QED
  BY <1>3, <1>4, <1>5, <1>6, <1>7, <1>8 DEF Shake

LEMMA TypedStopStream ==
    ASSUME YInv, NEW t \in Threads, NEW from, NEW streaming \in Labels,
           NEW stopped \in Labels, StopStream(t, from, streaming, stopped),
           streaming \in Working \/ stopped \in Working => from \in Working
    PROVE  YInv'
<1>1. Switched'
  BY DEF StopStream, YInv, Switched, socket
<1>2. PICK to \in {streaming, stopped} : Goto(t, to)
  BY DEF StopStream
<1>3. QED
  BY <1>1, <1>2, OwnerTyped, GoesTyped DEF StopStream, At

LEMMA TypedClose ==
    ASSUME YInv, NEW t \in Threads, NEW from, NEW to \in Labels, CloseReceiver(t, from, to),
           to \in Working => from \in Working
    PROVE  YInv'
<1>1. Switched'
  BY DEF CloseReceiver, YInv, Switched, flags
<1>2. QED
  BY <1>1, OwnerTyped, GoesTyped DEF CloseReceiver, At

LEMMA TypedListen ==
    ASSUME YInv, Listen
    PROVE  YInv'
<1>1. "listen" \in Threads
  BY DEF Threads, Actors
<1>2. {"lStop", "lClose", "lMove", "lSpawn"} \subseteq Labels \cap Working
  BY DEF Labels, Working
<1>3. CASE StopStream("listen", "lStop", "lClose", "lMove")
  BY <1>1, <1>2, <1>3, TypedStopStream
<1>4. CASE CloseReceiver("listen", "lClose", "lMove")
  BY <1>1, <1>2, <1>4, TypedClose
<1>5. CASE ListenMove
  <2>1. Named' /\ Switched'
    BY <1>5 DEF ListenMove, YInv, Named, Switched, flags, socket
  <2>2. QED
    BY <1>1, <1>2, <1>5, <2>1, RestsTyped, GoesTyped DEF ListenMove, At
<1>6. CASE ListenSpawn
  <2>1. CASE Terminate
    BY <1>6, <2>1, TypedTerminate DEF ListenSpawn
  <2>2. ASSUME NEW s \in Shakes, Spawn("listen", s, "tJoinOld", "idle"), shakeThread' = s,
               arg' = [arg EXCEPT ![s] = arg["listen"], !["listen"] = 0],
               old' = [old EXCEPT ![s] = old["listen"], !["listen"] = None],
               UNCHANGED <<owner, netThread, recThread, fault>>
        PROVE  YInv'
    <3>1. Named' /\ Switched'
      BY <1>1, <1>6, <2>2 DEF ListenSpawn, YInv, Named, Switched, flags, socket
    <3>2. "tJoinOld" \in Labels /\ "idle" \in Labels \ Working
      BY DEF Labels, Working
    <3>3. s \in Threads /\ s # "listen"
      BY SourceAssumption DEF Threads, Actors
    <3>4. arg["listen"] \in Ports
      BY <1>1, <1>2, <1>6 DEF ListenSpawn, At, YInv, Armed
    <3>5. Located'
      BY <1>1, <2>2, <3>2, <3>3, <3>4 DEF YInv, Located, Spawn
    <3>6. Armed'
      BY <1>1, <2>2, <3>2, <3>3, <3>4 DEF YInv, Located, Armed, Spawn
    <3>7. QED
      BY <3>1, <3>5, <3>6 DEF YInv
  <2>3. QED
    BY <1>6, <2>1, <2>2 DEF ListenSpawn
<1>7. QED
  BY <1>3, <1>4, <1>5, <1>6 DEF Listen

LEMMA TypedReq ==
    ASSUME YInv, NEW t \in Shakes, Req(t)
    PROVE  YInv'
<1>1. t \in Threads
  BY DEF Threads
<1>2. {"tJoinOld", "tStart", "tLock", "tCheck", "tJoinNet", "tRecheck", "tOpen",
       "tSpawnNet", "tSend"} \subseteq Labels \cap Working
  BY DEF Labels, Working
<1>3. "done" \in Labels \ Working
  BY DEF Labels, Working
<1>4. CASE ReqJoinOld(t)
  <2>1. Named'
    BY <1>4 DEF ReqJoinOld, YInv, Named, handles
  <2>2. QED
    BY <1>1, <1>2, <1>4, <2>1, SameSwitches, JoinsTyped DEF ReqJoinOld, At
<1>5. CASE ReqGoesOn(t)
  <2>1. PICK from \in {"tStart", "tCheck", "tRecheck"}, to \in {"tLock", "tJoinNet", "tOpen"} :
            At(t, from) /\ Goto(t, to)
    BY <1>5 DEF ReqGoesOn
  <2>2. QED
    BY <1>1, <1>2, <1>5, <2>1, OwnerTyped, SameSwitches, GoesTyped DEF ReqGoesOn, At
<1>6. CASE ReqGivesUp(t)
  BY <1>1, <1>3, <1>6, OwnerTyped, SameSwitches, GoesTyped DEF ReqGivesUp, ReqReturns
<1>7. CASE Acquire(t, "tLock", "tCheck")
  BY <1>1, <1>2, <1>7, TypedAcquire
<1>8. CASE JoinNet(t, "tJoinNet", "tRecheck")
  BY <1>1, <1>2, <1>8, TypedJoinNet
<1>9. CASE ReqOpen(t)
  <2>1. arg[t] \in Ports
    BY <1>1, <1>2, <1>9 DEF ReqOpen, At, YInv, Armed
  <2>2. Switched'
    BY <1>9, <2>1 DEF ReqOpen, Open, YInv, Switched
  <2>3. QED
    BY <1>1, <1>2, <1>3, <1>9, <2>2, OwnerTyped, GoesTyped DEF ReqOpen, ReqReturns, At
<1>10. CASE SpawnNet(t, "tSpawnNet", "tSend")
  BY <1>1, <1>2, <1>10, TypedSpawnNet
<1>11. CASE ReqSend(t)
  BY <1>1, <1>3, <1>11, OwnerTyped, SameSwitches, GoesTyped DEF ReqSend, ReqReturns
<1>12. QED
  BY <1>4, <1>5, <1>6, <1>7, <1>8, <1>9, <1>10, <1>11 DEF Req

LEMMA TypedUi ==
    ASSUME YInv, Ui
    PROVE  YInv'
<1>1. "ui" \in Threads
  BY DEF Threads, Actors
<1>2. {"uClose", "uResume", "launch", "xStopDisc", "xStopListen", "xClose", "xJoinNet",
       "xJoinRec", "xJoinHs", "xFree", "idle", "done"} \subseteq Labels \ Working
  BY DEF Labels, Working
<1>3. CASE StopStream("ui", "uStop", "uClose", "uResume")
  BY <1>1, <1>2, <1>3, TypedStopStream
<1>4. CASE CloseReceiver("ui", "uClose", "launch") \/ CloseReceiver("ui", "xClose", "xJoinNet")
  BY <1>1, <1>2, <1>4, TypedClose
<1>5. CASE Launch("ui")
  BY <1>5, TypedLaunch
<1>6. CASE UiResume
  <2>1. Switched'
    BY <1>6 DEF UiResume, YInv, Switched, socket
  <2>2. QED
    BY <1>1, <1>2, <1>6, <2>1, OwnerTyped, GoesTyped DEF UiResume
<1>7. CASE Acquire("ui", "xLock", "xStopDisc")
  BY <1>1, <1>2, <1>7, TypedAcquire
<1>8. ASSUME NEW actor \in Threads, NEW from, NEW to \in Labels \ Working,
             UiStop(actor, from, to)
      PROVE  YInv'
  <2>1. Named' /\ Switched'
    BY <1>1, <1>8, OwnerTyped, SameSwitches DEF UiStop
  <2>2. Located' /\ Armed'
    BY <1>1, <1>2, <1>8 DEF UiStop, YInv, Located, Armed
  <2>3. QED
    BY <2>1, <2>2 DEF YInv
<1>9. CASE JoinNet("ui", "xJoinNet", "xJoinRec")
  BY <1>1, <1>2, <1>9, TypedJoinNet
<1>10. CASE JoinRec("ui", "xJoinRec", "xJoinHs")
  BY <1>1, <1>2, <1>10, TypedJoinRec
<1>11. CASE JoinShake("ui", "xJoinHs", "xFree")
  BY <1>1, <1>2, <1>11, TypedJoinShake
<1>12. CASE UiFree
  <2>1. Switched'
    BY <1>12 DEF UiFree, YInv, Switched, flags
  <2>2. QED
    BY <1>1, <1>2, <1>12, <2>1, OwnerTyped, GoesTyped DEF UiFree
<1>13. {"disc", "listen"} \subseteq Threads
  BY DEF Threads, Actors
<1>14. QED
  BY <1>2, <1>3, <1>4, <1>5, <1>6, <1>7, <1>8, <1>9, <1>10, <1>11, <1>12, <1>13 DEF Ui

LEMMA TypedCalls ==
    ASSUME YInv, CallDisc \/ ListenRequest \/ CallUi
    PROVE  YInv'
<1>1. {"ui", "disc", "listen"} \subseteq Threads
  BY DEF Threads, Actors
<1>2. {"dLock", "lStop", "uStop", "xLock"} \subseteq Labels
  BY DEF Labels
<1>3. {"uStop", "xLock"} \cap Working = {}
  BY DEF Working
<1>4. ASSUME NEW p \in Ports, DiscFound(p)
      PROVE  YInv'
  <2>1. Switched'
    BY <1>4 DEF DiscFound, YInv, Switched, socket
  <2>2. QED
    BY <1>1, <1>2, <1>4, <2>1, OwnerTyped, GoesTyped DEF DiscFound
<1>5. CASE ListenRequest
  <2>1. PICK p \in Ports : arg' = [arg EXCEPT !["listen"] = p]
    BY <1>5, SourceAssumption DEF ListenRequest, YInv, Switched
  <2>2. QED
    BY <1>1, <1>2, <1>5, <2>1, OwnerTyped, SameSwitches, GoesTyped DEF ListenRequest
<1>6. ASSUME NEW p \in Ports, UiUpdate(p)
      PROVE  YInv'
  <2>1. Switched'
    BY <1>6 DEF UiUpdate, YInv, Switched, flags
  <2>2. QED
    BY <1>1, <1>2, <1>3, <1>6, <2>1, OwnerTyped, GoesTyped DEF UiUpdate
<1>7. CASE UiDestroy
  <2>1. Switched'
    BY <1>7 DEF UiDestroy, YInv, Switched, socket
  <2>2. QED
    BY <1>1, <1>2, <1>3, <1>7, <2>1, OwnerTyped, GoesTyped DEF UiDestroy
<1>8. QED
  BY <1>4, <1>5, <1>6, <1>7 DEF CallDisc, CallUi

\* The shared state of the source keeps its types, and only a real port is opened, for
\* every set of threads and ports.
THEOREM SourceTypesCorrect == Spec => []TypeOK
<1>1. Init => YInv
  <2>1. {"idle", "free"} \subseteq Labels \ Working
    BY DEF Labels, Working
  <2>2. QED
    BY <2>1 DEF Init, YInv, Located, Named, Switched, Armed
<1>2. YInv /\ [Next]_vars => YInv'
  <2> SUFFICES ASSUME YInv, [Next]_vars
               PROVE  YInv'
    OBVIOUS
  <2>1. CASE CallDisc \/ ListenRequest \/ CallUi
    BY <2>1, TypedCalls
  <2>2. ASSUME NEW t \in Threads, Step(t)
        PROVE  YInv'
    BY <2>2, TypedDisc, TypedListen, TypedUi, TypedNet, TypedRec, TypedShake, TypedReq
       DEF Step
  <2>3. CASE UNCHANGED vars
    <3>1. Named' /\ Switched'
      BY <2>3 DEF vars, handles, flags, socket, YInv, Named, Switched
    <3>2. QED
      BY <2>3, <3>1, RestsTyped DEF vars
  <2>4. QED
    BY <2>1, <2>2, <2>3 DEF Next
<1>3. QED
  BY <1>1, <1>2, YInvTypes, PTL DEF Spec

-----------------------------------------------------------------------------
(***************************************************************************)
(* RecThreadExclusive and StreamHasThread for every set of thread ids and  *)
(* ports.  reconnect_thread is used outside op_mutex: what keeps its users *)
(* apart is reconnect_pending (OnePending), and at destruction that the    *)
(* network thread, which might start a reconnect, was joined before        *)
(* (UiAlone).  Both rest on a handle naming the only thread of its kind    *)
(* (Owned).  At the end QuietAtDelete.                                     *)
(***************************************************************************)
Launching == {"launch", "launchCheck", "launchJoin", "launchSpawn"}
Reconnecting == {"rStart", "rLock", "rCheck", "rJoinNet", "rStop", "rEnd"}

\* Labels at which a thread has set reconnect_pending, or is a thread for which
\* it was set.
Pending == {"launchCheck", "launchJoin", "launchSpawn"} \cup Reconnecting

\* Labels between the opening of the socket and the start of the network thread.
Opening == {"dSpawnNet", "tSpawnNet"}

Handles ==
    /\ netThread \in Nets \cup {None}
    /\ recThread \in Recs \cup {None}
    /\ shakeThread \in Shakes \cup {None}
    /\ old \in [Threads -> Shakes \cup {None}]

\* No network or reconnect thread is outside its handle.
Owned ==
    /\ \A n \in Nets : pc[n] # "free" => netThread = n
    /\ \A r \in Recs : pc[r] # "free" => recThread = r

\* Which threads may be at the labels named above.
Placed ==
    \A t \in Threads :
        /\ pc[t] \in Launching => t \in Nets \cup {"ui"}
        /\ pc[t] \in Reconnecting => t \in Recs
        /\ pc[t] = "xJoinRec" => t = "ui"

\* One thread at a time, with reconnect_pending set.
OnePending ==
    /\ \A s, t \in Threads : pc[s] \in Pending /\ pc[t] \in Pending => s = t
    /\ \A t \in Threads : pc[t] \in Pending => pending

\* When the source is destroyed nobody is left who could start a reconnect.
UiAlone == pc["ui"] = "xJoinRec" => netThread = None

\* A live source that runs has its network thread, or is about to start it.
Runs ==
    valid /\ running =>
        \/ netThread # None /\ pc[netThread] = "loop"
        \/ \E t \in Threads : pc[t] \in Opening

TInv == Handles /\ Owned /\ Placed /\ OnePending /\ UiAlone /\ Runs
SInv == MInv /\ TInv

LEMMA ThreadKinds ==
    /\ "ui" \in Threads /\ "disc" \in Threads /\ "listen" \in Threads
    /\ None \notin Threads
    /\ Nets \subseteq Threads /\ Recs \subseteq Threads /\ Shakes \subseteq Threads
    /\ Nets \cap Recs = {} /\ Nets \cap Shakes = {} /\ Recs \cap Shakes = {}
    /\ \A t \in {"ui", "disc", "listen"} : t \notin Nets \cup Recs \cup Shakes
BY SourceAssumption DEF Threads, Actors

-----------------------------------------------------------------------------
(***************************************************************************)
(* The kinds of step.                                                      *)
(***************************************************************************)
\* What the step of thread t to label to does to reconnect_pending and running.
Orderly(t, to) ==
    /\ \/ (to \in Pending => pc[t] \in Pending) /\ pending' = pending
       \/ to \notin Pending /\ pc[t] \in Pending
       \/ ~pending /\ pending' = TRUE
    /\ \/ to \in Opening
       \/ valid' /\ running' =>
             valid /\ running /\ pc[t] \notin {"loop"} \cup Opening

LEMMA GoesOn ==
    ASSUME SInv, NEW t \in Threads, NEW to, Goto(t, to), pc[t] # "free",
           UNCHANGED <<netThread, recThread>>, Handles',
           to \in Launching => t \in Nets \cup {"ui"},
           to \in Reconnecting => t \in Recs,
           to # "xJoinRec",
           Orderly(t, to)
    PROVE  TInv'
<1> USE DEF SInv, MInv, TInv, PcType, Goto
<1>1. Owned'
  BY ThreadKinds DEF Owned
<1>2. Placed'
  BY DEF Placed
<1>3. OnePending'
  BY DEF OnePending, Orderly
<1>4. UiAlone'
  BY DEF UiAlone
<1>5. Runs'
  BY ThreadKinds DEF Runs, Orderly, Handles
<1> QED BY <1>1, <1>2, <1>3, <1>4, <1>5

\* A critical section has one thread, so that only its thread is at Opening.
LEMMA OneOpens ==
    ASSUME SInv, NEW s \in Threads, NEW t \in Threads,
           pc[s] \in Critical, pc[t] \in Critical
    PROVE  s = t
BY DEF SInv, MInv, CriticalOwns

LEMMA JoinsNet ==
    ASSUME SInv, NEW t \in Threads, NEW from, NEW to, JoinNet(t, from, to),
           from \in Critical \ Opening, to \notin Launching \cup Opening,
           to \in Reconnecting => from \in Reconnecting,
           to = "xJoinRec" => t = "ui"
    PROVE  TInv'
<1> USE DEF SInv, MInv, TInv, PcType, JoinNet, JoinThenGoto, At, flags
<1>1. \A s \in Threads : s # t => pc'[s] = pc[s] \/ pc'[s] = "free"
  OBVIOUS
<1>2. Handles'
  BY DEF Handles
<1>3. Owned'
  BY ThreadKinds, <1>1 DEF Owned, Critical
<1>4. Placed'
  BY <1>1 DEF Placed, Launching, Reconnecting
<1>5. OnePending'
  BY <1>1 DEF OnePending, Pending, Reconnecting, Launching, Critical
<1>6. UiAlone'
  BY DEF UiAlone
<1>7. Runs'
  BY OneOpens DEF Runs, Opening, Critical
<1> QED BY <1>2, <1>3, <1>4, <1>5, <1>6, <1>7

LEMMA JoinsRec ==
    ASSUME SInv, NEW t \in Threads, NEW from, NEW to, JoinRec(t, from, to),
           \/ from = "launchJoin" /\ to = "launchSpawn"
           \/ from = "xJoinRec" /\ to = "xJoinHs"
    PROVE  TInv'
<1> USE DEF SInv, MInv, TInv, PcType, JoinRec, JoinThenGoto, At, flags
<1>1. t \in Nets \cup {"ui"} /\ t \notin Recs /\ pc[t] \notin {"loop", "done"} \cup Opening
  BY ThreadKinds DEF Placed, Launching, Opening
<1>2. \A s \in Threads : s # t => pc'[s] = pc[s] \/ pc'[s] = "free"
  OBVIOUS
<1>3. Handles'
  BY DEF Handles
<1>4. Owned'
  BY ThreadKinds, <1>1 DEF Owned, Handles
<1>5. Placed'
  BY <1>1, <1>2 DEF Placed, Launching, Reconnecting
<1>6. OnePending'
  BY <1>2 DEF OnePending, Pending, Reconnecting
<1>7. UiAlone'
  BY ThreadKinds, <1>2 DEF UiAlone
<1>8. Runs'
  BY ThreadKinds, <1>1 DEF Runs, Opening, Handles
<1> QED BY <1>3, <1>4, <1>5, <1>6, <1>7, <1>8

\* Joining a handshake thread, the one in the handle or one moved away from it.
LEMMA JoinsShake ==
    ASSUME SInv, NEW t \in Threads \ (Nets \cup Recs), NEW h \in Shakes \cup {None},
           NEW to, JoinThenGoto(t, h, to), pc[t] \notin Opening,
           to \notin Pending \cup Launching \cup {"xJoinRec"},
           UNCHANGED <<flags, netThread, recThread>>, Handles'
    PROVE  TInv'
<1> USE DEF SInv, MInv, TInv, PcType, JoinThenGoto, flags
<1>1. \A s \in Threads : s # t => pc'[s] = pc[s] \/ pc'[s] = "free"
  OBVIOUS
<1>2. Owned'
  BY ThreadKinds DEF Owned
<1>3. Placed'
  BY <1>1 DEF Placed, Launching, Reconnecting, Pending
<1>4. OnePending'
  BY <1>1 DEF OnePending, Pending, Reconnecting
<1>5. UiAlone'
  BY ThreadKinds, <1>1 DEF UiAlone
<1>6. Runs'
  BY ThreadKinds DEF Runs, Opening, Handles
<1> QED BY <1>2, <1>3, <1>4, <1>5, <1>6

-----------------------------------------------------------------------------
LEMMA SpawnsNet ==
    ASSUME SInv, NEW t \in Threads \ Nets, NEW from \in Opening, NEW to,
           SpawnNet(t, from, to),
           to \notin Pending \cup Launching \cup {"xJoinRec"}
    PROVE  TInv'
<1> USE DEF SInv, MInv, TInv, PcType, SpawnNet, At
<1>1. CASE Terminate
  BY <1>1 DEF Terminate, handles, flags, Handles, Owned, Placed, OnePending, UiAlone, Runs
<1>2. ASSUME netThread = None, NEW n \in Nets, Spawn(t, n, "loop", to), netThread' = n,
             UNCHANGED <<flags, old, recThread, shakeThread>>
      PROVE  TInv'
  <2> USE <1>2, ThreadKinds DEF Spawn, flags
  <2>1. \A s \in Threads : s \notin {t, n} => pc'[s] = pc[s]
    OBVIOUS
  <2>2. pc'[n] = "loop" /\ pc'[t] = to
    OBVIOUS
  <2>3. pc["ui"] # "xJoinRec"
    BY OneOpens DEF Opening, Critical
  <2>4. Handles'
    BY DEF Handles
  <2>5. Owned'
    BY <2>1 DEF Owned, Opening
  <2>6. Placed'
    BY <2>1, <2>2 DEF Placed, Launching, Reconnecting, Pending
  <2>7. OnePending'
    BY <2>1, <2>2 DEF OnePending, Pending, Reconnecting
  <2>8. UiAlone'
    BY <2>1, <2>2, <2>3 DEF UiAlone
  <2>9. Runs'
    BY <2>2 DEF Runs
  <2> QED BY <2>4, <2>5, <2>6, <2>7, <2>8, <2>9
<1> QED BY <1>1, <1>2

LEMMA SpawnsRec ==
    ASSUME SInv, NEW t \in Nets \cup {"ui"}, LaunchSpawn(t)
    PROVE  TInv'
<1> USE DEF SInv, MInv, TInv, PcType, LaunchSpawn, At
<1>1. CASE Terminate
  BY <1>1 DEF Terminate, handles, flags, Handles, Owned, Placed, OnePending, UiAlone, Runs
<1>2. ASSUME recThread = None, NEW r \in Recs, Spawn(t, r, "rStart", Launched(t)),
             recThread' = r, UNCHANGED <<flags, old, netThread, shakeThread>>
      PROVE  TInv'
  <2> USE <1>2, ThreadKinds DEF Spawn, flags
  <2>1. t \in Threads /\ t \notin Recs /\ r \in Threads
    OBVIOUS
  <2>2. \A s \in Threads : s \notin {t, r} => pc'[s] = pc[s]
    OBVIOUS
  <2>3. pc'[r] = "rStart" /\ pc'[t] \in {"done", "uResume"}
    BY <2>1 DEF Launched
  <2>4. Handles'
    BY DEF Handles
  <2>5. Owned'
    BY <2>1, <2>2 DEF Owned
  <2>6. Placed'
    BY <2>2, <2>3 DEF Placed, Launching, Reconnecting
  <2>7. OnePending'
    BY <2>1, <2>2, <2>3 DEF OnePending, Pending, Reconnecting
  <2>8. UiAlone'
    BY <2>1, <2>2, <2>3 DEF UiAlone
  <2>9. Runs'
    BY <2>1, <2>2, <2>3 DEF Runs, Opening, Handles
  <2> QED BY <2>4, <2>5, <2>6, <2>7, <2>8, <2>9
<1> QED BY <1>1, <1>2

LEMMA SpawnsShake ==
    ASSUME SInv, NEW t \in {"disc", "listen"}, NEW h \in Shakes,
           NEW first \in {"hStart", "tJoinOld"}, Spawn(t, h, first, "idle"),
           pc[t] \notin Opening, UNCHANGED <<flags, netThread, recThread>>, Handles'
    PROVE  TInv'
<1> USE DEF SInv, MInv, TInv, PcType, Spawn, flags
<1> USE ThreadKinds
<1>1. \A s \in Threads : s \notin {t, h} => pc'[s] = pc[s]
  OBVIOUS
<1>2. pc'[h] \in {"hStart", "tJoinOld"} /\ pc'[t] = "idle"
  OBVIOUS
<1>3. Owned'
  BY <1>1 DEF Owned
<1>4. Placed'
  BY <1>1, <1>2 DEF Placed, Launching, Reconnecting
<1>5. OnePending'
  BY <1>1, <1>2 DEF OnePending, Pending, Reconnecting
<1>6. UiAlone'
  BY <1>1, <1>2 DEF UiAlone
<1>7. Runs'
  BY <1>1, <1>2 DEF Runs, Opening, Handles
<1> QED BY <1>3, <1>4, <1>5, <1>6, <1>7

-----------------------------------------------------------------------------
(***************************************************************************)
(* One step of each thread.                                                *)
(***************************************************************************)
\* A step within the labels that TInv says nothing of: from none of Opening, and
\* from "loop" only when the loop may end.
LEMMA Passes ==
    ASSUME SInv, NEW t \in Threads, NEW from, NEW to, At(t, from), Goto(t, to),
           from \notin {"free"} \cup Opening,
           from = "loop" => ~(valid /\ running),
           to \notin Pending \cup {"launch", "xJoinRec"},
           UNCHANGED <<pending, handles, old>>,
           \/ to \in Opening
           \/ valid' /\ running' => valid /\ running
    PROVE  TInv'
<1>1. Handles'
  BY DEF SInv, TInv, Handles, handles
<1>2. to \notin Launching \cup Reconnecting
  BY DEF Pending, Launching
<1>3. Orderly(t, to)
  BY DEF Orderly, At
<1>4. QED
  BY <1>1, <1>2, <1>3, GoesOn DEF handles, At

\* A fault, or nothing at all.
LEMMA Stays ==
    ASSUME SInv, UNCHANGED <<pc, old, netThread, recThread, flags>>, Handles'
    PROVE  TInv'
BY DEF SInv, TInv, flags, Handles, Owned, Placed, OnePending, UiAlone, Runs

LEMMA LaunchThreads ==
    ASSUME SInv, NEW t \in Nets \cup {"ui"}, Launch(t)
    PROVE  TInv'
<1> USE DEF At
<1>1. t \in Threads
  BY ThreadKinds
<1>2. UNCHANGED <<handles, old>> => Handles' /\ UNCHANGED <<netThread, recThread>>
  BY DEF SInv, TInv, Handles, handles
<1>3. Launched(t) \in {"done", "uResume"}
  BY DEF Launched
<1>4. CASE LaunchBegin(t)
  BY <1>1, <1>2, <1>3, <1>4, GoesOn
     DEF LaunchBegin, Orderly, Pending, Opening, Launching, Reconnecting
<1>5. CASE LaunchCheck(t)
  BY <1>1, <1>2, <1>3, <1>5, GoesOn
     DEF LaunchCheck, Orderly, Pending, Opening, Launching, Reconnecting
<1>6. CASE JoinRec(t, "launchJoin", "launchSpawn")
  BY <1>1, <1>6, JoinsRec
<1>7. CASE LaunchSpawn(t)
  BY <1>7, SpawnsRec
<1>8. QED
  BY <1>4, <1>5, <1>6, <1>7 DEF Launch

LEMMA NetThreads ==
    ASSUME SInv, NEW n \in Nets, Net(n)
    PROVE  TInv'
<1>1. CASE NetLoopEnds(n)
  <2>1. Handles' /\ UNCHANGED <<netThread, recThread>>
    BY <1>1 DEF NetLoopEnds, SInv, TInv, Handles, handles
  <2>2. Orderly(n, "launch")
    BY <1>1 DEF NetLoopEnds, Orderly, Pending, Reconnecting, flags
  <2>3. QED
    BY <1>1, <2>1, <2>2, GoesOn, ThreadKinds DEF NetLoopEnds, At, Launching, Reconnecting
<1>2. QED
  BY <1>1, LaunchThreads DEF Net

LEMMA RecThreads ==
    ASSUME SInv, NEW r \in Recs, Rec(r)
    PROVE  TInv'
<1> USE DEF At
<1> r \in Threads
  BY ThreadKinds
<1>1. UNCHANGED <<handles, old>> => Handles' /\ UNCHANGED <<netThread, recThread>>
  BY DEF SInv, TInv, Handles, handles
<1>2. Launching \cap (Reconnecting \cup {"done"}) = {}
  BY DEF Launching, Reconnecting
<1>3. CASE RecGivesUp(r)
  BY <1>1, <1>2, <1>3, GoesOn DEF RecGivesUp, Orderly, Pending, Reconnecting, Opening
<1>4. CASE RecGoesOn(r)
  BY <1>1, <1>2, <1>4, GoesOn
     DEF RecGoesOn, Orderly, Pending, Reconnecting, Opening, flags
<1>5. CASE Acquire(r, "rLock", "rCheck")
  BY <1>1, <1>2, <1>5, GoesOn
     DEF Acquire, Orderly, Pending, Reconnecting, Opening, flags
<1>6. CASE JoinNet(r, "rJoinNet", "rStop")
  BY <1>6, JoinsNet DEF Critical, Launching, Opening, Reconnecting
<1>7. CASE RecStop(r)
  BY <1>1, <1>2, <1>7, GoesOn DEF RecStop, Orderly, Pending, Reconnecting, Opening
<1>8. CASE RecEnd(r)
  BY <1>1, <1>2, <1>8, GoesOn DEF RecEnd, Orderly, Pending, Reconnecting, Opening
<1>9. QED
  BY <1>3, <1>4, <1>5, <1>6, <1>7, <1>8 DEF Rec

\* The joins and starts of handshake threads.
LEMMA JoinsHandle ==
    ASSUME SInv, NEW t \in {"ui", "disc"}, NEW from, NEW to, JoinShake(t, from, to),
           from \notin Opening, to \notin Pending \cup Launching \cup {"xJoinRec"}
    PROVE  TInv'
<1>1. Handles' /\ shakeThread \in Shakes \cup {None}
  BY DEF JoinShake, SInv, TInv, Handles
<1>2. t \in Threads \ (Nets \cup Recs)
  BY ThreadKinds
<1>3. QED
  BY <1>1, <1>2, JoinsShake DEF JoinShake, At

LEMMA DiscThread ==
    ASSUME SInv, Disc
    PROVE  TInv'
<1> DEFINE Outside == {"idle", "dStop", "dJoinNet", "dGuard", "dOpen", "dCheck",
                       "dFlag", "dJoinHs", "dSpawnHs", "dSpawnNet", "dLock"}
<1>1. "disc" \in Threads \ Nets
  BY ThreadKinds
<1>2. Outside \cap (Pending \cup Launching \cup {"xJoinRec"}) = {}
  BY DEF Pending, Launching, Reconnecting
<1>3. Outside \cap ({"free", "loop"} \cup Opening) = {"dSpawnNet"}
  BY DEF Opening
<1>4. CASE Acquire("disc", "dLock", "dCheck")
  BY <1>1, <1>2, <1>3, <1>4, Passes DEF Acquire, flags
<1>5. CASE DiscCheck
  <2>1. PICK to \in {"idle", "dStop"} : Goto("disc", to)
    BY <1>5 DEF DiscCheck, DiscReturns
  <2>2. QED
    BY <1>1, <1>2, <1>3, <1>5, <2>1, Passes DEF DiscCheck
<1>6. CASE DiscStop
  <2>1. PICK to \in {"dJoinNet", "dGuard"} : Goto("disc", to)
    BY <1>6 DEF DiscStop
  <2>2. valid' /\ running' => valid /\ running
    BY <1>6 DEF DiscStop
  <2>3. QED
    BY <1>1, <1>2, <1>3, <1>6, <2>1, <2>2, Passes DEF DiscStop
<1>7. CASE JoinNet("disc", "dJoinNet", "dGuard")
  BY <1>1, <1>7, JoinsNet DEF Critical, Launching, Opening, Reconnecting
<1>8. CASE DiscGuard
  <2>1. PICK to \in {"idle", "dOpen"} : Goto("disc", to)
    BY <1>8 DEF DiscGuard, DiscReturns
  <2>2. QED
    BY <1>1, <1>2, <1>3, <1>8, <2>1, Passes DEF DiscGuard
<1>9. CASE DiscOpen
  <2>1. PICK to \in {"idle", "dSpawnNet"} :
            /\ Goto("disc", to)
            /\ to = "dSpawnNet" \/ (valid' /\ running' => valid /\ running)
    BY <1>9 DEF DiscOpen, DiscReturns
  <2>2. "dSpawnNet" \in Opening
    BY DEF Opening
  <2>3. QED
    BY <1>1, <1>2, <1>3, <1>9, <2>1, <2>2, Passes DEF DiscOpen
<1>10. CASE SpawnNet("disc", "dSpawnNet", "dFlag")
  BY <1>1, <1>2, <1>3, <1>10, SpawnsNet
<1>11. CASE DiscFlag
  BY <1>1, <1>2, <1>3, <1>11, Passes DEF DiscFlag
<1>12. CASE JoinShake("disc", "dJoinHs", "dSpawnHs")
  BY <1>2, <1>3, <1>12, JoinsHandle
<1>13. CASE DiscSpawnHs
  <2>1. Handles'
    BY <1>13 DEF DiscSpawnHs, Terminate, SInv, TInv, Handles, handles
  <2>2. CASE Terminate
    BY <1>13, <2>1, <2>2, Stays DEF DiscSpawnHs, Terminate, handles
  <2>3. CASE /\ \E h \in Shakes : Spawn("disc", h, "hStart", "idle")
             /\ UNCHANGED <<netThread, recThread>>
    BY <1>3, <1>13, <2>1, <2>3, SpawnsShake DEF DiscSpawnHs, At
  <2>4. QED
    BY <1>13, <2>2, <2>3 DEF DiscSpawnHs
<1>14. QED
  BY <1>4, <1>5, <1>6, <1>7, <1>8, <1>9, <1>10, <1>11, <1>12, <1>13 DEF Disc

LEMMA ListenThread ==
    ASSUME SInv, Listen
    PROVE  TInv'
<1> DEFINE Outside == {"lStop", "lClose", "lMove", "lSpawn"}
<1>1. "listen" \in Threads
  BY ThreadKinds
<1>2. /\ Outside \cap (Pending \cup Launching \cup {"xJoinRec"}) = {}
      /\ Outside \cap ({"free", "loop"} \cup Opening) = {}
  BY DEF Pending, Launching, Reconnecting, Opening
<1>3. CASE StopStream("listen", "lStop", "lClose", "lMove")
  BY <1>1, <1>2, <1>3, Passes DEF StopStream
<1>4. CASE CloseReceiver("listen", "lClose", "lMove")
  BY <1>1, <1>2, <1>4, Passes DEF CloseReceiver, flags
<1>5. CASE ListenMove
  <2>1. Handles' /\ UNCHANGED <<netThread, recThread, flags>>
    BY <1>1, <1>5 DEF ListenMove, SInv, TInv, Handles
  <2>2. CASE UNCHANGED <<pc, old>>
    BY <2>1, <2>2, Stays
  <2>3. CASE Goto("listen", "lSpawn")
    <3>1. Orderly("listen", "lSpawn")
      BY <1>2, <1>5, <2>1 DEF ListenMove, Orderly, flags, At
    <3>2. "lSpawn" \notin Launching \cup Reconnecting
      BY <1>2 DEF Pending
    <3>3. QED
      BY <1>1, <1>5, <2>1, <2>3, <3>1, <3>2, GoesOn DEF ListenMove, At
  <2>4. QED
    BY <1>5, <2>2, <2>3 DEF ListenMove
<1>6. CASE ListenSpawn
  <2>1. Handles'
    BY <1>1, <1>6 DEF ListenSpawn, Terminate, SInv, TInv, Handles, handles
  <2>2. CASE Terminate
    BY <1>6, <2>1, <2>2, Stays DEF ListenSpawn, Terminate, handles
  <2>3. CASE /\ \E s \in Shakes : Spawn("listen", s, "tJoinOld", "idle")
             /\ UNCHANGED <<netThread, recThread>>
    BY <1>2, <1>6, <2>1, <2>3, SpawnsShake DEF ListenSpawn, At
  <2>4. QED
    BY <1>6, <2>2, <2>3 DEF ListenSpawn
<1>7. QED
  BY <1>3, <1>4, <1>5, <1>6 DEF Listen

LEMMA ShakeThreads ==
    ASSUME SInv, NEW h \in Shakes, Shake(h)
    PROVE  TInv'
<1> DEFINE Outside == {"hStart", "hLock", "hFail", "hJoinNet", "hResume", "hClear", "done"}
<1>1. h \in Threads
  BY ThreadKinds
<1>2. /\ Outside \cap (Pending \cup Launching \cup {"xJoinRec"}) = {}
      /\ Outside \cap ({"free", "loop"} \cup Opening) = {}
  BY DEF Pending, Launching, Reconnecting, Opening
<1>3. CASE ShakeSend(h)
  <2>1. PICK to \in {"hClear", "hLock"} : Goto(h, to)
    BY <1>3 DEF ShakeSend
  <2>2. QED
    BY <1>1, <1>2, <1>3, <2>1, Passes DEF ShakeSend, flags
<1>4. CASE Acquire(h, "hLock", "hFail")
  BY <1>1, <1>2, <1>4, Passes DEF Acquire, flags
<1>5. CASE ShakeFail(h)
  <2>1. PICK to \in {"done", "hJoinNet"} : Goto(h, to)
    BY <1>5 DEF ShakeFail
  <2>2. valid' /\ running' => valid /\ running
    BY <1>5 DEF ShakeFail
  <2>3. QED
    BY <1>1, <1>2, <1>5, <2>1, <2>2, Passes DEF ShakeFail
<1>6. CASE JoinNet(h, "hJoinNet", "hResume")
  BY <1>1, <1>6, JoinsNet DEF Critical, Launching, Opening, Reconnecting
<1>7. CASE ShakeResume(h)
  BY <1>1, <1>2, <1>7, Passes DEF ShakeResume
<1>8. CASE ShakeEnd(h)
  <2>1. PICK from \in {"hClear", "hStart"} : At(h, from)
    BY <1>8 DEF ShakeEnd
  <2>2. QED
    BY <1>1, <1>2, <1>8, <2>1, Passes DEF ShakeEnd
<1>9. QED
  BY <1>3, <1>4, <1>5, <1>6, <1>7, <1>8 DEF Shake

LEMMA ReqThreads ==
    ASSUME SInv, NEW t \in Shakes, Req(t)
    PROVE  TInv'
<1> DEFINE Outside == {"tJoinOld", "tStart", "tLock", "tCheck", "tJoinNet", "tRecheck",
                       "tOpen", "tSpawnNet", "tSend", "done"}
<1>1. t \in Threads \ (Nets \cup Recs)
  BY ThreadKinds
<1>2. /\ Outside \cap (Pending \cup Launching \cup {"xJoinRec"}) = {}
      /\ (Outside \ {"tSpawnNet"}) \cap ({"free", "loop"} \cup Opening) = {}
  BY DEF Pending, Launching, Reconnecting, Opening
<1>3. CASE ReqJoinOld(t)
  <2>1. old[t] \in Shakes \cup {None} /\ Handles' /\ UNCHANGED <<netThread, recThread>>
    BY <1>1, <1>3 DEF ReqJoinOld, SInv, TInv, Handles, handles
  <2>2. QED
    BY <1>1, <1>2, <1>3, <2>1, JoinsShake DEF ReqJoinOld, At
<1>4. CASE ReqGoesOn(t)
  <2>1. PICK from \in {"tStart", "tCheck", "tRecheck"}, to \in {"tLock", "tJoinNet", "tOpen"} :
            At(t, from) /\ Goto(t, to)
    BY <1>4 DEF ReqGoesOn
  <2>2. QED
    BY <1>1, <1>2, <1>4, <2>1, Passes DEF ReqGoesOn, flags
<1>5. CASE ReqGivesUp(t)
  <2>1. PICK from \in {"tStart", "tCheck", "tRecheck"} : At(t, from)
    BY <1>5 DEF ReqGivesUp
  <2>2. QED
    BY <1>1, <1>2, <1>5, <2>1, Passes DEF ReqGivesUp, ReqReturns, flags
<1>6. CASE Acquire(t, "tLock", "tCheck")
  <2>1. "tLock" \notin {"free", "loop"} \cup Opening
    BY <1>2
  <2>2. QED
    BY <1>1, <1>2, <1>6, <2>1, Passes DEF Acquire, flags
<1>7. CASE JoinNet(t, "tJoinNet", "tRecheck")
  BY <1>1, <1>7, JoinsNet DEF Critical, Launching, Opening, Reconnecting
<1>8. CASE ReqOpen(t)
  <2>1. PICK to \in {"done", "tSpawnNet"} :
            /\ Goto(t, to)
            /\ to = "tSpawnNet" \/ (valid' /\ running' => valid /\ running)
    BY <1>8 DEF ReqOpen, ReqReturns
  <2>2. "tSpawnNet" \in Opening
    BY DEF Opening
  <2>3. QED
    BY <1>1, <1>2, <1>8, <2>1, <2>2, Passes DEF ReqOpen
<1>9. CASE SpawnNet(t, "tSpawnNet", "tSend")
  BY <1>1, <1>2, <1>9, SpawnsNet DEF Opening
<1>10. CASE ReqSend(t)
  <2>1. "tSend" \notin {"free", "loop"} \cup Opening
    BY <1>2
  <2>2. QED
    BY <1>1, <1>2, <1>10, <2>1, Passes DEF ReqSend, ReqReturns, flags
<1>11. QED
  BY <1>3, <1>4, <1>5, <1>6, <1>7, <1>8, <1>9, <1>10 DEF Req

LEMMA UiStops ==
    ASSUME SInv, NEW actor \in {"disc", "listen"}, NEW from \in {"xStopDisc", "xStopListen"},
           NEW to \in {"xStopListen", "xClose"}, UiStop(actor, from, to)
    PROVE  TInv'
<1> USE DEF SInv, MInv, TInv, PcType, UiStop, At, flags, handles
<1>1. /\ \A s \in Threads \ {"ui", actor} : pc'[s] = pc[s]
      /\ pc'["ui"] \in {"xStopListen", "xClose"} /\ pc'[actor] = "done"
  BY ThreadKinds
<1>2. Handles'
  BY DEF Handles
<1>3. Owned'
  BY <1>1, ThreadKinds DEF Owned
<1>4. Placed'
  BY <1>1, ThreadKinds DEF Placed, Launching, Reconnecting
<1>5. OnePending'
  BY <1>1, ThreadKinds DEF OnePending, Pending, Reconnecting
<1>6. UiAlone'
  BY <1>1 DEF UiAlone
<1>7. Runs'
  BY <1>1, ThreadKinds DEF Runs, Opening, Handles
<1> QED BY <1>2, <1>3, <1>4, <1>5, <1>6, <1>7

LEMMA UiThread ==
    ASSUME SInv, Ui
    PROVE  TInv'
<1> DEFINE Outside == {"uStop", "uClose", "uResume", "xLock", "xStopDisc", "xClose",
                       "xJoinNet", "xJoinHs", "xFree", "idle", "done"}
<1>1. "ui" \in Threads /\ "ui" \in Nets \cup {"ui"}
  BY ThreadKinds
<1>2. /\ Outside \cap (Pending \cup Launching \cup {"xJoinRec"}) = {}
      /\ Outside \cap ({"free", "loop"} \cup Opening) = {}
  BY DEF Pending, Launching, Reconnecting, Opening
<1>3. CASE StopStream("ui", "uStop", "uClose", "uResume")
  BY <1>1, <1>2, <1>3, Passes DEF StopStream
<1>4. CASE CloseReceiver("ui", "uClose", "launch")
  <2>1. Handles' /\ UNCHANGED <<netThread, recThread, flags>>
    BY <1>4 DEF CloseReceiver, SInv, TInv, Handles, handles
  <2>2. Orderly("ui", "launch")
    BY <1>4, <2>1 DEF CloseReceiver, At, Orderly, Pending, Reconnecting, Opening, flags
  <2>3. QED
    BY <1>1, <1>4, <2>1, <2>2, GoesOn DEF CloseReceiver, At, Reconnecting
<1>5. CASE Launch("ui")
  BY <1>1, <1>5, LaunchThreads
<1>6. CASE UiResume
  BY <1>1, <1>2, <1>6, Passes DEF UiResume
<1>7. CASE Acquire("ui", "xLock", "xStopDisc")
  BY <1>1, <1>2, <1>7, Passes DEF Acquire, flags
<1>8. CASE UiStop("disc", "xStopDisc", "xStopListen")
  BY <1>8, UiStops
<1>9. CASE UiStop("listen", "xStopListen", "xClose")
  BY <1>9, UiStops
<1>10. CASE CloseReceiver("ui", "xClose", "xJoinNet")
  BY <1>1, <1>2, <1>10, Passes DEF CloseReceiver, flags
<1>11. CASE JoinNet("ui", "xJoinNet", "xJoinRec")
  BY <1>1, <1>11, JoinsNet DEF Critical, Launching, Opening, Reconnecting
<1>12. CASE JoinRec("ui", "xJoinRec", "xJoinHs")
  BY <1>1, <1>12, JoinsRec
<1>13. CASE JoinShake("ui", "xJoinHs", "xFree")
  BY <1>2, <1>13, JoinsHandle
<1>14. CASE UiFree
  BY <1>1, <1>2, <1>14, Passes DEF UiFree, flags
<1>15. QED
  BY <1>3, <1>4, <1>5, <1>6, <1>7, <1>8, <1>9, <1>10, <1>11, <1>12, <1>13, <1>14 DEF Ui

LEMMA Calls ==
    ASSUME SInv, CallDisc \/ ListenRequest \/ CallUi
    PROVE  TInv'
<1> DEFINE Outside == {"idle", "dLock", "lStop", "uStop", "xLock"}
<1>1. {"ui", "disc", "listen"} \subseteq Threads
  BY ThreadKinds
<1>2. /\ Outside \cap (Pending \cup Launching \cup {"xJoinRec"}) = {}
      /\ Outside \cap ({"free", "loop"} \cup Opening) = {}
  BY DEF Pending, Launching, Reconnecting, Opening
<1>3. ASSUME NEW p \in Ports, DiscFound(p)
      PROVE  TInv'
  BY <1>1, <1>2, <1>3, Passes DEF DiscFound
<1>4. CASE ListenRequest
  BY <1>1, <1>2, <1>4, Passes DEF ListenRequest, flags
<1>5. ASSUME NEW p \in Ports, UiUpdate(p)
      PROVE  TInv'
  BY <1>1, <1>2, <1>5, Passes DEF UiUpdate, flags
<1>6. CASE UiDestroy
  BY <1>1, <1>2, <1>6, Passes DEF UiDestroy
<1>7. QED
  BY <1>3, <1>4, <1>5, <1>6 DEF CallDisc, CallUi

LEMMA SourceInvariant == Spec => []SInv
<1>1. Init => SInv
  <2>1. ASSUME Init
        PROVE  /\ \A t \in Threads : pc[t] \in {"idle", "free"}
               /\ \A t \in Nets \cup Recs : pc[t] = "free"
    BY <2>1, ThreadKinds DEF Init, Actors
  <2>2. Init => MInv
    BY DEF Init, MInv, PcType, CriticalOwns, Critical
  <2>3. Init => Handles /\ Owned
    BY <2>1 DEF Init, Handles, Owned
  <2>4. Init => Placed /\ OnePending /\ UiAlone /\ Runs
    BY <2>1, ThreadKinds
       DEF Init, Placed, OnePending, UiAlone, Runs, Launching, Reconnecting, Pending
  <2>5. QED
    BY <2>2, <2>3, <2>4 DEF SInv, TInv
<1>2. SInv /\ MInv' /\ [Next]_vars => SInv'
  <2> SUFFICES ASSUME SInv, [Next]_vars
               PROVE  TInv'
    BY DEF SInv
  <2>1. CASE CallDisc \/ ListenRequest \/ CallUi
    BY <2>1, Calls
  <2>2. ASSUME NEW t \in Threads, Step(t)
        PROVE  TInv'
    BY <2>2, DiscThread, ListenThread, UiThread, NetThreads, RecThreads, ShakeThreads,
       ReqThreads DEF Step
  <2>3. CASE UNCHANGED vars
    <3>1. Handles'
      BY <2>3 DEF vars, handles, SInv, TInv, Handles
    <3>2. QED
      BY <2>3, <3>1, Stays DEF vars, handles
  <2>4. QED
    BY <2>1, <2>2, <2>3 DEF Next
<1>3. QED
  BY <1>1, <1>2, MutexInvariant, PTL DEF Spec

-----------------------------------------------------------------------------
\* reconnect_thread is never about to be used by two threads, though no mutex guards
\* it: reconnect_pending does, and in phone_source_destroy the order of the joins.
THEOREM RecThreadIsExclusive == Spec => []RecThreadExclusive
<1>1. SInv => RecThreadExclusive
  <2> SUFFICES ASSUME SInv
               PROVE  RecThreadExclusive
    OBVIOUS
  <2>1. ASSUME NEW t \in Threads, pc[t] = "xJoinRec"
        PROVE  \A s \in Threads : pc[s] \in UsesRecThread => s = "ui"
    BY <2>1, ThreadKinds
       DEF SInv, TInv, Placed, UiAlone, Owned, UsesRecThread, Launching
  <2>2. ASSUME NEW s \in Threads, NEW t \in Threads,
               pc[s] \in UsesRecThread, pc[t] \in UsesRecThread
        PROVE  s = t
    BY <2>1, <2>2 DEF SInv, TInv, OnePending, UsesRecThread, Pending
  <2>3. \A r \in Recs : pc[r] # "free" => r = recThread
    BY DEF SInv, TInv, Owned
  <2>4. QED
    BY <2>2, <2>3 DEF RecThreadExclusive
<1>2. QED
  BY <1>1, SourceInvariant, PTL

\* Whenever nobody is in a section under op_mutex, a live source that says it runs has
\* a network thread in its loop.
THEOREM StreamsHaveThreads == Spec => []StreamHasThread
<1>1. SInv => StreamHasThread
  <2>1. Opening \subseteq Critical
    BY DEF Opening, Critical
  <2>2. QED
    BY <2>1, ThreadKinds DEF SInv, MInv, CriticalOwns, TInv, Runs, StreamHasThread
<1>2. QED
  BY <1>1, SourceInvariant, PTL

-----------------------------------------------------------------------------
(***************************************************************************)
(* QuietAtDelete.  A handshake thread is joined by whoever comes next: the *)
(* discovery callback, the destroying thread, or the thread of a request,  *)
(* which took it over from handshake_thread and may itself be taken over   *)
(* by the thread of the next request, and so on.  phone_source_destroy     *)
(* joins the last of this chain only; that nobody is left further back is  *)
(* Rooted.                                                                 *)
(***************************************************************************)
\* Labels of phone_source_destroy.
Ending == {"xLock", "xStopDisc", "xStopListen", "xClose", "xJoinNet", "xJoinRec",
           "xJoinHs", "xFree", "done"}

\* Only a thread that is about to join it, or to give it to such a thread, holds
\* a thread that was moved away.
OldHeld ==
    /\ \A h \in Shakes : old[h] # None => pc[h] = "tJoinOld"
    /\ old["listen"] # None => pc["listen"] = "lSpawn"

\* Of any handshake threads that are there one is named from outside: by the handle,
\* by the listen thread or by another handshake thread.
Rooted ==
    \A S \in SUBSET Shakes :
        S # {} /\ (\A h \in S : pc[h] # "free") =>
            \E h \in S :
                \/ h \in {shakeThread, old["listen"]}
                \/ \E x \in Shakes \ S : pc[x] # "free" /\ old[x] = h

\* What phone_source_destroy has stopped and joined stays so.
Ended ==
    /\ pc["ui"] \in Ending \ {"xLock", "xStopDisc"} => pc["disc"] = "done"
    /\ pc["ui"] \in Ending \ {"xLock", "xStopDisc", "xStopListen"} => pc["listen"] = "done"
    /\ pc["ui"] \in {"xJoinRec", "xJoinHs", "xFree"} => netThread = None
    /\ pc["ui"] \in {"xJoinHs", "xFree"} => recThread = None
    /\ pc["ui"] = "xFree" => shakeThread = None

QInv == OldHeld /\ Rooted /\ Ended /\ QuietAtDelete

\* No handshake thread comes or goes.
LEMMA SameRoots ==
    ASSUME Rooted, UNCHANGED <<old, shakeThread>>,
           \A h \in Shakes : pc'[h] # "free" <=> pc[h] # "free"
    PROVE  Rooted'
BY DEF Rooted

\* A step that goes to another label and touches none of the handles.
LEMMA Walks ==
    ASSUME SInv, QInv, NEW t \in Threads, NEW from, NEW to, At(t, from), Goto(t, to),
           from \notin {"free", "done", "tJoinOld", "lSpawn"}, to # "free",
           UNCHANGED <<handles, old, deleted>>,
           t = "ui" =>
               \/ to \notin Ending \ {"xLock"}
               \/ from \in Ending /\ <<from, to>> \in
                      {<<"xLock", "xStopDisc">>, <<"xClose", "xJoinNet">>}
    PROVE  QInv'
<1> USE ThreadKinds DEF SInv, MInv, TInv, PcType, QInv, At, Goto, handles
<1>1. \A s \in Threads : s # t => pc'[s] = pc[s]
  OBVIOUS
<1>2. pc'[t] = to /\ pc[t] = from
  OBVIOUS
<1>3. OldHeld'
  BY <1>1, <1>2 DEF OldHeld
<1>4. Rooted'
  <2>1. \A h \in Shakes : pc'[h] # "free" <=> pc[h] # "free"
    BY <1>1, <1>2
  <2>2. QED
    BY <2>1, SameRoots
<1>5. Ended'
  BY <1>1, <1>2 DEF Ended, Ending
<1>6. QuietAtDelete'
  BY DEF QuietAtDelete
<1> QED BY <1>3, <1>4, <1>5, <1>6

\* A fault, or nothing at all.
LEMMA Rests ==
    ASSUME QInv, UNCHANGED <<pc, old, handles, deleted, audio>>
    PROVE  QInv'
<1>1. Rooted'
  BY SameRoots DEF QInv, handles
<1>2. QED
  BY <1>1 DEF QInv, OldHeld, Ended, QuietAtDelete, handles

\* Joining the network or the reconnect thread.
LEMMA JoinsOther ==
    ASSUME SInv, QInv, NEW t \in Threads, NEW j \in Nets \cup Recs \cup {None}, NEW from,
           NEW to, At(t, from), JoinThenGoto(t, j, to),
           from \notin {"free", "done", "tJoinOld", "lSpawn"}, to # "free",
           UNCHANGED <<old, shakeThread, deleted>>,
           netThread' \in {netThread, None}, recThread' \in {recThread, None},
           t = "ui" =>
               \/ to \notin Ending
               \/ from = "xJoinNet" /\ to = "xJoinRec" /\ netThread' = None
               \/ from = "xJoinRec" /\ to = "xJoinHs" /\ recThread' = None
    PROVE  QInv'
<1> USE ThreadKinds DEF SInv, MInv, TInv, PcType, QInv, At, JoinThenGoto
<1>1. \A s \in Actors \cup Shakes : s # t => pc'[s] = pc[s]
  BY DEF Actors, Threads
<1>2. pc[t] = from /\ (j # t => pc'[t] = to) /\ j # t
  OBVIOUS
<1>3. OldHeld'
  BY <1>1, <1>2 DEF OldHeld, Actors
<1>4. Rooted'
  <2>1. \A h \in Shakes : pc'[h] # "free" <=> pc[h] # "free"
    BY <1>1, <1>2
  <2>2. QED
    BY <2>1, SameRoots
<1>5. Ended'
  BY <1>1, <1>2 DEF Ended, Ending, Actors
<1>6. QuietAtDelete'
  BY DEF QuietAtDelete
<1> QED BY <1>3, <1>4, <1>5, <1>6

\* The thread in the handle is joined: it has no thread to join itself any more.
LEMMA JoinsLast ==
    ASSUME SInv, QInv, NEW t \in {"ui", "disc"}, NEW from, NEW to, JoinShake(t, from, to),
           from \notin {"free", "done"}, to # "free",
           t = "ui" => from = "xJoinHs" /\ to = "xFree",
           t = "disc" => to # "done"
    PROVE  QInv'
<1> USE ThreadKinds DEF SInv, MInv, TInv, PcType, QInv, At, JoinShake, JoinThenGoto
<1> DEFINE j == shakeThread
<1>1. j \in Shakes \cup {None} /\ t \notin Shakes
  BY DEF Handles
<1>2. /\ \A s \in Threads \ {t, j} : pc'[s] = pc[s]
      /\ j # None => pc[j] = "done" /\ pc'[j] = "free"
      /\ pc[t] = from /\ pc'[t] = to
  BY <1>1
<1>3. OldHeld'
  BY <1>1, <1>2 DEF OldHeld
<1>4. Rooted'
  <2> SUFFICES ASSUME NEW S \in SUBSET Shakes, S # {}, \A h \in S : pc'[h] # "free"
               PROVE  \E h \in S :
                          \/ h \in {shakeThread', old'["listen"]}
                          \/ \E x \in Shakes \ S : pc'[x] # "free" /\ old'[x] = h
    BY DEF Rooted
  <2>1. j \notin S /\ \A h \in S : pc[h] # "free"
    BY <1>1, <1>2
  <2>2. PICK h \in S :
            \/ h \in {shakeThread, old["listen"]}
            \/ \E x \in Shakes \ S : pc[x] # "free" /\ old[x] = h
    BY <2>1 DEF Rooted
  <2>3. CASE h \in {shakeThread, old["listen"]}
    BY <2>1, <2>3
  <2>4. ASSUME NEW x \in Shakes \ S, pc[x] # "free", old[x] = h
        PROVE  pc'[x] # "free" /\ old'[x] = h
    <3>1. pc[x] = "tJoinOld"
      BY <2>4 DEF OldHeld
    <3>2. QED
      BY <1>1, <1>2, <2>4, <3>1
  <2> QED BY <2>2, <2>3, <2>4
<1>5. Ended'
  BY <1>1, <1>2 DEF Ended, Ending
<1>6. QuietAtDelete'
  BY DEF QuietAtDelete
<1> QED BY <1>3, <1>4, <1>5, <1>6

\* The thread of a request joins the one before it.
LEMMA JoinsBefore ==
    ASSUME SInv, QInv, NEW t \in Shakes, ReqJoinOld(t)
    PROVE  QInv'
<1> USE ThreadKinds DEF SInv, MInv, TInv, PcType, QInv, At, ReqJoinOld, JoinThenGoto, handles
<1> DEFINE j == old[t]
<1>1. j \in Shakes \cup {None} /\ t \in Threads /\ old = [s \in Threads |-> old[s]]
  BY DEF Handles
<1>2. /\ j # None => pc[j] = "done" /\ pc'[j] = "free"
      /\ \A s \in Threads \ {t, j} : pc'[s] = pc[s] /\ old'[s] = old[s]
      /\ j # t /\ pc[t] = "tJoinOld" /\ pc'[t] = "tStart" /\ old'[t] = None
  BY <1>1
<1>3. OldHeld'
  BY <1>1, <1>2 DEF OldHeld
<1>4. Rooted'
  <2> SUFFICES ASSUME NEW S \in SUBSET Shakes, S # {}, \A h \in S : pc'[h] # "free"
               PROVE  \E h \in S :
                          \/ h \in {shakeThread', old'["listen"]}
                          \/ \E x \in Shakes \ S : pc'[x] # "free" /\ old'[x] = h
    BY DEF Rooted
  <2>1. j \notin S /\ \A h \in S : pc[h] # "free"
    BY <1>1, <1>2
  <2>2. PICK h \in S :
            \/ h \in {shakeThread, old["listen"]}
            \/ \E x \in Shakes \ S : pc[x] # "free" /\ old[x] = h
    BY <2>1 DEF Rooted
  <2>3. CASE h \in {shakeThread, old["listen"]}
    BY <1>1, <1>2, <2>3
  <2>4. ASSUME NEW x \in Shakes \ S, pc[x] # "free", old[x] = h
        PROVE  pc'[x] # "free" /\ old'[x] = h
    <3>1. pc[x] = "tJoinOld" /\ x # t /\ x # j
      BY <1>2, <2>1, <2>4 DEF OldHeld
    <3>2. QED
      BY <1>2, <2>4, <3>1
  <2> QED BY <2>2, <2>3, <2>4
<1>5. Ended'
  BY <1>1, <1>2 DEF Ended, Ending
<1>6. QuietAtDelete'
  BY DEF QuietAtDelete
<1> QED BY <1>3, <1>4, <1>5, <1>6

\* A network or reconnect thread begins, which no source that is destroyed does.
LEMMA BeginsOther ==
    ASSUME SInv, QInv, NEW t \in Threads, NEW s \in Nets \cup Recs, NEW from, NEW first,
           NEW to, At(t, from), Spawn(t, s, first, to), first # "free",
           from \notin {"free", "done", "tJoinOld", "lSpawn"} \cup Ending, to # "free",
           t = "ui" => to \notin Ending,
           UNCHANGED <<old, shakeThread, deleted>>,
           netThread' = netThread \/ from \in Opening,
           recThread' = recThread \/ from = "launchSpawn"
    PROVE  QInv'
<1> USE ThreadKinds DEF SInv, MInv, TInv, PcType, QInv, At, Spawn
<1>1. \A x \in Actors \cup Shakes : x # t => pc'[x] = pc[x]
  BY DEF Actors, Threads
<1>2. pc[t] = from /\ pc'[t] = to /\ s # t
  OBVIOUS
<1>3. OldHeld'
  BY <1>1, <1>2 DEF OldHeld, Actors
<1>4. Rooted'
  <2>1. \A h \in Shakes : pc'[h] # "free" <=> pc[h] # "free"
    BY <1>1, <1>2
  <2>2. QED
    BY <2>1, SameRoots
<1>5. Ended'
  <2>1. netThread' # netThread => pc["ui"] \notin {"xJoinRec", "xJoinHs", "xFree"}
    BY <1>2, OneOpens DEF Opening, Critical, Ending
  <2>2. pc["ui"] \in {"xJoinHs", "xFree"} => recThread' = recThread
    BY <1>2 DEF Ending, Placed, Launching, Owned, Ended
  <2>3. QED
    BY <1>1, <1>2, <2>1, <2>2 DEF Ended, Ending, Actors
<1>6. QuietAtDelete'
  BY DEF QuietAtDelete
<1> QED BY <1>3, <1>4, <1>5, <1>6

\* The listen thread moves the handshake thread away from its handle.
LEMMA MovesAway ==
    ASSUME SInv, QInv, ListenMove
    PROVE  QInv'
<1> USE ThreadKinds DEF SInv, MInv, TInv, PcType, QInv, At, ListenMove, Goto, handles
<1>1. CASE UNCHANGED <<pc, old, shakeThread>>
  BY <1>1, Rests DEF socket
<1>2. CASE ~(UNCHANGED <<pc, old, shakeThread>>)
  <2>1. /\ pc["listen"] = "lMove" /\ pc'["listen"] = "lSpawn"
        /\ old["listen"] = None /\ old'["listen"] = shakeThread /\ shakeThread' = None
        /\ \A x \in Threads \ {"listen"} : pc'[x] = pc[x] /\ old'[x] = old[x]
    BY <1>2 DEF OldHeld, Handles
  <2>2. OldHeld' /\ Ended' /\ QuietAtDelete'
    BY <2>1 DEF OldHeld, Ended, Ending, QuietAtDelete
  <2>3. Rooted'
    BY <2>1 DEF Rooted
  <2>4. QED
    BY <2>2, <2>3
<1>3. QED
  BY <1>1, <1>2

\* It starts the thread of the request, which has to join the one moved away.
LEMMA BeginsRequest ==
    ASSUME SInv, QInv, ListenSpawn
    PROVE  QInv'
<1> USE ThreadKinds DEF SInv, MInv, TInv, PcType, QInv, At, ListenSpawn, Spawn, handles
<1>1. CASE Terminate
  BY <1>1, Rests DEF Terminate, socket
<1>2. ASSUME shakeThread = None, NEW s \in Shakes, Spawn("listen", s, "tJoinOld", "idle"),
             shakeThread' = s, UNCHANGED <<netThread, recThread>>,
             old' = [old EXCEPT ![s] = old["listen"], !["listen"] = None]
      PROVE  QInv'
  <2>1. /\ pc["listen"] = "lSpawn" /\ pc'["listen"] = "idle" /\ old'["listen"] = None
        /\ pc[s] = "free" /\ pc'[s] = "tJoinOld" /\ old'[s] = old["listen"]
        /\ \A x \in Threads \ {"listen", s} : pc'[x] = pc[x] /\ old'[x] = old[x]
    BY <1>2 DEF Handles
  <2>2. OldHeld'
    BY <2>1 DEF OldHeld
  <2>3. Rooted'
    <3> SUFFICES ASSUME NEW S \in SUBSET Shakes, S # {}, \A h \in S : pc'[h] # "free"
                 PROVE  \E h \in S :
                            \/ h \in {shakeThread', old'["listen"]}
                            \/ \E x \in Shakes \ S : pc'[x] # "free" /\ old'[x] = h
      BY DEF Rooted
    <3>1. CASE s \in S
      BY <1>2, <3>1
    <3>2. CASE s \notin S
      <4>1. \A h \in S : pc[h] # "free"
        BY <2>1, <3>2
      <4>2. PICK h \in S :
                \/ h \in {shakeThread, old["listen"]}
                \/ \E x \in Shakes \ S : pc[x] # "free" /\ old[x] = h
        BY <4>1 DEF Rooted
      <4>3. CASE h \in {shakeThread, old["listen"]}
        <5>1. h = old'[s] /\ pc'[s] # "free"
          BY <1>2, <2>1, <4>3
        <5>2. QED
          BY <3>2, <5>1
      <4>4. ASSUME NEW x \in Shakes \ S, pc[x] # "free", old[x] = h
            PROVE  pc'[x] # "free" /\ old'[x] = h
        BY <2>1, <4>4
      <4>5. CASE \E x \in Shakes \ S : pc[x] # "free" /\ old[x] = h
        BY <4>4, <4>5
      <4>6. QED
        BY <4>2, <4>3, <4>5
    <3>3. QED
      BY <3>1, <3>2
  <2>4. Ended'
    BY <1>2, <2>1 DEF Ended, Ending
  <2>5. QuietAtDelete'
    BY DEF QuietAtDelete
  <2>6. QED
    BY <2>2, <2>3, <2>4, <2>5
<1>3. QED
  BY <1>1, <1>2 DEF ListenSpawn

\* The discovery callback starts a handshake thread.
LEMMA BeginsHandshake ==
    ASSUME SInv, QInv, DiscSpawnHs
    PROVE  QInv'
<1> USE ThreadKinds DEF SInv, MInv, TInv, PcType, QInv, At, DiscSpawnHs, Spawn, handles
<1>1. CASE Terminate
  BY <1>1, Rests DEF Terminate, socket
<1>2. ASSUME shakeThread = None, NEW h \in Shakes, Spawn("disc", h, "hStart", "idle"),
             shakeThread' = h, UNCHANGED <<old, netThread, recThread>>
      PROVE  QInv'
  <2>1. /\ pc["disc"] = "dSpawnHs" /\ pc'["disc"] = "idle"
        /\ pc[h] = "free" /\ pc'[h] = "hStart" /\ old[h] = None
        /\ \A x \in Threads \ {"disc", h} : pc'[x] = pc[x]
    BY <1>2 DEF OldHeld
  <2>2. OldHeld'
    BY <1>2, <2>1 DEF OldHeld
  <2>3. Rooted'
    <3> SUFFICES ASSUME NEW S \in SUBSET Shakes, S # {}, \A x \in S : pc'[x] # "free"
                 PROVE  \E x \in S :
                            \/ x \in {shakeThread', old'["listen"]}
                            \/ \E y \in Shakes \ S : pc'[y] # "free" /\ old'[y] = x
      BY DEF Rooted
    <3>1. CASE h \in S
      BY <1>2, <3>1
    <3>2. CASE h \notin S
      <4>1. \A x \in S : pc[x] # "free"
        BY <2>1, <3>2
      <4>2. PICK x \in S :
                \/ x \in {shakeThread, old["listen"]}
                \/ \E y \in Shakes \ S : pc[y] # "free" /\ old[y] = x
        BY <4>1 DEF Rooted
      <4>3. \A y \in Shakes \ S : pc[y] # "free" => pc'[y] # "free"
        BY <2>1
      <4>4. QED
        BY <1>2, <4>2, <4>3
    <3>3. QED
      BY <3>1, <3>2
  <2>4. Ended'
    BY <1>2, <2>1 DEF Ended, Ending
  <2>5. QuietAtDelete'
    BY DEF QuietAtDelete
  <2>6. QED
    BY <2>2, <2>3, <2>4, <2>5
<1>3. QED
  BY <1>1, <1>2 DEF DiscSpawnHs

\* Stopping the discovery or the listen thread.
LEMMA StopsActor ==
    ASSUME SInv, QInv,
           \/ UiStop("disc", "xStopDisc", "xStopListen")
           \/ UiStop("listen", "xStopListen", "xClose")
    PROVE  QInv'
<1> USE ThreadKinds DEF SInv, MInv, TInv, PcType, QInv, At, UiStop, handles
<1>1. PICK actor \in {"disc", "listen"} :
          /\ pc[actor] = "idle" /\ pc'[actor] = "done"
          /\ \A s \in Threads \ {"ui", actor} : pc'[s] = pc[s]
          /\ \/ actor = "disc" /\ pc["ui"] = "xStopDisc" /\ pc'["ui"] = "xStopListen"
             \/ actor = "listen" /\ pc["ui"] = "xStopListen" /\ pc'["ui"] = "xClose"
  OBVIOUS
<1>2. OldHeld'
  BY <1>1 DEF OldHeld
<1>3. Rooted'
  <2>1. \A h \in Shakes : pc'[h] # "free" <=> pc[h] # "free"
    BY <1>1
  <2>2. QED
    BY <2>1, SameRoots
<1>4. Ended' /\ QuietAtDelete'
  BY <1>1 DEF Ended, Ending, QuietAtDelete
<1> QED BY <1>2, <1>3, <1>4

\* The source is deleted: the joins before leave no thread.
LEMMA Deletes ==
    ASSUME SInv, QInv, UiFree
    PROVE  QInv'
<1> USE ThreadKinds DEF SInv, MInv, TInv, PcType, QInv, At, UiFree, Goto, handles
<1>1. pc["ui"] = "xFree" /\ pc'["ui"] = "done" /\ \A s \in Threads \ {"ui"} : pc'[s] = pc[s]
  OBVIOUS
<1>2. /\ pc["disc"] = "done" /\ pc["listen"] = "done"
      /\ netThread = None /\ recThread = None /\ shakeThread = None
  BY <1>1 DEF Ended, Ending
<1>3. \A t \in Nets \cup Recs : pc[t] = "free"
  BY <1>2 DEF Owned
<1>4. \A h \in Shakes : pc[h] = "free"
  <2> DEFINE S == {h \in Shakes : pc[h] # "free"}
  <2>1. old["listen"] = None
    BY <1>2 DEF OldHeld
  <2>2. S = {}
    <3>1. \A x \in Shakes \ S : pc[x] = "free"
      OBVIOUS
    <3>2. S \in SUBSET Shakes /\ \A h \in S : pc[h] # "free"
      OBVIOUS
    <3> HIDE DEF S
    <3>3. QED
      BY <1>2, <2>1, <3>1, <3>2 DEF Rooted
  <2>3. QED
    BY <2>2
<1>5. QuietAtDelete'
  BY <1>1, <1>2, <1>3, <1>4 DEF QuietAtDelete, Threads, Actors
<1>6. OldHeld' /\ Ended'
  BY <1>1, <1>2 DEF OldHeld, Ended, Ending
<1>7. Rooted'
  <2>1. \A h \in Shakes : pc'[h] # "free" <=> pc[h] # "free"
    BY <1>1
  <2>2. QED
    BY <2>1, SameRoots
<1> QED BY <1>5, <1>6, <1>7

LEMMA QuietLaunch ==
    ASSUME SInv, QInv, NEW t \in Nets \cup {"ui"}, Launch(t)
    PROVE  QInv'
<1> USE DEF At, Ending
<1>1. t \in Threads
  BY ThreadKinds
<1>2. Launched(t) \in {"done", "uResume"} /\ (t = "ui" => Launched(t) = "uResume")
  BY ThreadKinds DEF Launched
<1>3. CASE LaunchBegin(t)
  BY <1>1, <1>2, <1>3, Walks DEF LaunchBegin
<1>4. CASE LaunchCheck(t)
  BY <1>1, <1>2, <1>4, Walks DEF LaunchCheck
<1>5. CASE JoinRec(t, "launchJoin", "launchSpawn")
  <2>1. recThread \in Nets \cup Recs \cup {None}
    BY DEF SInv, TInv, Handles
  <2>2. QED
    BY <1>1, <1>5, <2>1, JoinsOther DEF JoinRec
<1>6. CASE LaunchSpawn(t)
  <2>1. CASE Terminate
    BY <1>6, <2>1, Rests DEF LaunchSpawn, Terminate, socket
  <2>2. CASE /\ \E r \in Recs : Spawn(t, r, "rStart", Launched(t))
             /\ UNCHANGED <<old, netThread, shakeThread>>
    BY <1>1, <1>2, <1>6, <2>2, BeginsOther DEF LaunchSpawn
  <2>3. QED
    BY <1>6, <2>1, <2>2 DEF LaunchSpawn
<1>7. QED
  BY <1>3, <1>4, <1>5, <1>6 DEF Launch

LEMMA QuietJoinNet ==
    ASSUME SInv, QInv, NEW t \in Threads, NEW from, NEW to, JoinNet(t, from, to),
           from \notin {"free", "done", "tJoinOld", "lSpawn"}, to # "free",
           to \in Ending => from = "xJoinNet" /\ to = "xJoinRec"
    PROVE  QInv'
<1>1. netThread \in Nets \cup Recs \cup {None}
  BY DEF SInv, TInv, Handles
<1>2. QED
  BY <1>1, JoinsOther DEF JoinNet

LEMMA QuietSpawnNet ==
    ASSUME SInv, QInv, NEW t \in Threads \ {"ui"}, NEW from \in Opening, NEW to,
           SpawnNet(t, from, to), to # "free"
    PROVE  QInv'
<1>1. CASE Terminate
  BY <1>1, Rests DEF SpawnNet, Terminate, socket
<1>2. CASE /\ \E n \in Nets : Spawn(t, n, "loop", to)
           /\ UNCHANGED <<old, recThread, shakeThread>>
  <2>1. from \notin {"free", "done", "tJoinOld", "lSpawn"} \cup Ending
    BY DEF Opening, Ending
  <2>2. QED
    BY <1>2, <2>1, BeginsOther DEF SpawnNet
<1>3. QED
  BY <1>1, <1>2 DEF SpawnNet

LEMMA QuietDisc ==
    ASSUME SInv, QInv, Disc
    PROVE  QInv'
<1>1. "disc" \in Threads \ {"ui"}
  BY ThreadKinds
<1>2. CASE Acquire("disc", "dLock", "dCheck")
  BY <1>1, <1>2, Walks DEF Acquire
<1>3. CASE DiscCheck
  BY <1>1, <1>3, Walks DEF DiscCheck, DiscReturns
<1>4. CASE DiscStop
  BY <1>1, <1>4, Walks DEF DiscStop
<1>5. CASE JoinNet("disc", "dJoinNet", "dGuard")
  BY <1>1, <1>5, QuietJoinNet DEF Ending
<1>6. CASE DiscGuard
  BY <1>1, <1>6, Walks DEF DiscGuard, DiscReturns
<1>7. CASE DiscOpen
  BY <1>1, <1>7, Walks DEF DiscOpen, DiscReturns
<1>8. CASE SpawnNet("disc", "dSpawnNet", "dFlag")
  BY <1>1, <1>8, QuietSpawnNet DEF Opening
<1>9. CASE DiscFlag
  BY <1>1, <1>9, Walks DEF DiscFlag
<1>10. CASE JoinShake("disc", "dJoinHs", "dSpawnHs")
  BY <1>10, JoinsLast
<1>11. CASE DiscSpawnHs
  BY <1>11, BeginsHandshake
<1>12. QED
  BY <1>2, <1>3, <1>4, <1>5, <1>6, <1>7, <1>8, <1>9, <1>10, <1>11 DEF Disc

LEMMA QuietListen ==
    ASSUME SInv, QInv, Listen
    PROVE  QInv'
<1>1. "listen" \in Threads \ {"ui"}
  BY ThreadKinds
<1>2. CASE StopStream("listen", "lStop", "lClose", "lMove")
  BY <1>1, <1>2, Walks DEF StopStream
<1>3. CASE CloseReceiver("listen", "lClose", "lMove")
  BY <1>1, <1>3, Walks DEF CloseReceiver
<1>4. QED
  BY <1>2, <1>3, MovesAway, BeginsRequest DEF Listen

LEMMA QuietRec ==
    ASSUME SInv, QInv, NEW r \in Recs, Rec(r)
    PROVE  QInv'
<1>1. r \in Threads \ {"ui"}
  BY ThreadKinds
<1>2. CASE RecGivesUp(r)
  <2>1. PICK from \in {"rStart", "rCheck"} : At(r, from)
    BY <1>2 DEF RecGivesUp
  <2>2. QED
    BY <1>1, <1>2, <2>1, Walks DEF RecGivesUp
<1>3. CASE RecGoesOn(r)
  <2>1. PICK from \in {"rStart", "rCheck"}, to \in {"rLock", "rJoinNet"} :
            At(r, from) /\ Goto(r, to)
    BY <1>3 DEF RecGoesOn
  <2>2. QED
    BY <1>1, <1>3, <2>1, Walks DEF RecGoesOn
<1>4. CASE Acquire(r, "rLock", "rCheck")
  BY <1>1, <1>4, Walks DEF Acquire
<1>5. CASE JoinNet(r, "rJoinNet", "rStop")
  BY <1>1, <1>5, QuietJoinNet DEF Ending
<1>6. CASE RecStop(r)
  BY <1>1, <1>6, Walks DEF RecStop
<1>7. CASE RecEnd(r)
  BY <1>1, <1>7, Walks DEF RecEnd
<1>8. QED
  BY <1>2, <1>3, <1>4, <1>5, <1>6, <1>7 DEF Rec

LEMMA QuietShake ==
    ASSUME SInv, QInv, NEW h \in Shakes, Shake(h)
    PROVE  QInv'
<1>1. h \in Threads \ {"ui"}
  BY ThreadKinds
<1>2. CASE ShakeSend(h)
  <2>1. PICK to \in {"hClear", "hLock"} : Goto(h, to)
    BY <1>2 DEF ShakeSend
  <2>2. QED
    BY <1>1, <1>2, <2>1, Walks DEF ShakeSend
<1>3. CASE Acquire(h, "hLock", "hFail")
  BY <1>1, <1>3, Walks DEF Acquire
<1>4. CASE ShakeFail(h)
  <2>1. PICK to \in {"done", "hJoinNet"} : Goto(h, to)
    BY <1>4 DEF ShakeFail
  <2>2. QED
    BY <1>1, <1>4, <2>1, Walks DEF ShakeFail
<1>5. CASE JoinNet(h, "hJoinNet", "hResume")
  BY <1>1, <1>5, QuietJoinNet DEF Ending
<1>6. CASE ShakeResume(h)
  BY <1>1, <1>6, Walks DEF ShakeResume
<1>7. CASE ShakeEnd(h)
  <2>1. PICK from \in {"hClear", "hStart"} : At(h, from)
    BY <1>7 DEF ShakeEnd
  <2>2. QED
    BY <1>1, <1>7, <2>1, Walks DEF ShakeEnd
<1>8. QED
  BY <1>2, <1>3, <1>4, <1>5, <1>6, <1>7 DEF Shake

LEMMA QuietReq ==
    ASSUME SInv, QInv, NEW t \in Shakes, Req(t)
    PROVE  QInv'
<1>1. t \in Threads \ {"ui"}
  BY ThreadKinds
<1>2. CASE ReqGoesOn(t)
  <2>1. PICK from \in {"tStart", "tCheck", "tRecheck"}, to \in {"tLock", "tJoinNet", "tOpen"} :
            At(t, from) /\ Goto(t, to)
    BY <1>2 DEF ReqGoesOn
  <2>2. QED
    BY <1>1, <1>2, <2>1, Walks DEF ReqGoesOn
<1>3. CASE ReqGivesUp(t)
  <2>1. PICK from \in {"tStart", "tCheck", "tRecheck"} : At(t, from)
    BY <1>3 DEF ReqGivesUp
  <2>2. QED
    BY <1>1, <1>3, <2>1, Walks DEF ReqGivesUp, ReqReturns
<1>4. CASE Acquire(t, "tLock", "tCheck")
  BY <1>1, <1>4, Walks DEF Acquire
<1>5. CASE JoinNet(t, "tJoinNet", "tRecheck")
  BY <1>1, <1>5, QuietJoinNet DEF Ending
<1>6. CASE ReqOpen(t)
  BY <1>1, <1>6, Walks DEF ReqOpen, ReqReturns
<1>7. CASE SpawnNet(t, "tSpawnNet", "tSend")
  BY <1>1, <1>7, QuietSpawnNet DEF Opening
<1>8. CASE ReqSend(t)
  BY <1>1, <1>8, Walks DEF ReqSend, ReqReturns
<1>9. QED
  BY <1>2, <1>3, <1>4, <1>5, <1>6, <1>7, <1>8, JoinsBefore DEF Req

LEMMA QuietUi ==
    ASSUME SInv, QInv, Ui
    PROVE  QInv'
<1> USE DEF Ending
<1>1. "ui" \in Threads
  BY ThreadKinds
<1>2. CASE StopStream("ui", "uStop", "uClose", "uResume")
  BY <1>1, <1>2, Walks DEF StopStream
<1>3. CASE CloseReceiver("ui", "uClose", "launch")
  BY <1>1, <1>3, Walks DEF CloseReceiver
<1>4. CASE Launch("ui")
  BY <1>4, QuietLaunch
<1>5. CASE UiResume
  BY <1>1, <1>5, Walks DEF UiResume
<1>6. CASE Acquire("ui", "xLock", "xStopDisc")
  BY <1>1, <1>6, Walks DEF Acquire
<1>7. CASE CloseReceiver("ui", "xClose", "xJoinNet")
  BY <1>1, <1>7, Walks DEF CloseReceiver
<1>8. CASE JoinNet("ui", "xJoinNet", "xJoinRec")
  BY <1>1, <1>8, QuietJoinNet
<1>9. CASE JoinRec("ui", "xJoinRec", "xJoinHs")
  <2>1. recThread \in Nets \cup Recs \cup {None}
    BY DEF SInv, TInv, Handles
  <2>2. QED
    BY <1>1, <1>9, <2>1, JoinsOther DEF JoinRec
<1>10. CASE JoinShake("ui", "xJoinHs", "xFree")
  BY <1>10, JoinsLast
<1>11. QED
  BY <1>2, <1>3, <1>4, <1>5, <1>6, <1>7, <1>8, <1>9, <1>10, StopsActor, Deletes DEF Ui

LEMMA QuietCalls ==
    ASSUME SInv, QInv, CallDisc \/ ListenRequest \/ CallUi
    PROVE  QInv'
<1>1. {"ui", "disc", "listen"} \subseteq Threads
  BY ThreadKinds
<1>2. ASSUME NEW p \in Ports, DiscFound(p)
      PROVE  QInv'
  BY <1>1, <1>2, Walks DEF DiscFound
<1>3. CASE ListenRequest
  BY <1>1, <1>3, Walks DEF ListenRequest
<1>4. ASSUME NEW p \in Ports, UiUpdate(p)
      PROVE  QInv'
  BY <1>1, <1>4, Walks DEF UiUpdate, Ending
<1>5. CASE UiDestroy
  BY <1>1, <1>5, Walks DEF UiDestroy, Ending
<1>6. QED
  BY <1>2, <1>3, <1>4, <1>5 DEF CallDisc, CallUi

LEMMA QuietNet ==
    ASSUME SInv, QInv, NEW n \in Nets, Net(n)
    PROVE  QInv'
<1>1. n \in Threads \ {"ui"}
  BY ThreadKinds
<1>2. CASE NetLoopEnds(n)
  BY <1>1, <1>2, Walks DEF NetLoopEnds
<1>3. QED
  BY <1>2, QuietLaunch DEF Net

\* When phone_source_destroy deletes the source, no thread of it is left, however many
\* requests came while handshakes were sent: each thread that one of them moved away
\* from handshake_thread was joined by the next.
THEOREM DeletedSourceIsQuiet == Spec => []QuietAtDelete
<1>1. Init => QInv
  <2>1. Init => \A t \in Shakes : pc[t] = "free"
    BY ThreadKinds DEF Init, Actors
  <2>2. Init => OldHeld /\ Ended /\ QuietAtDelete
    BY ThreadKinds DEF Init, OldHeld, Ended, Ending, QuietAtDelete, Actors
  <2>3. Init => Rooted
    BY <2>1 DEF Rooted
  <2>4. QED
    BY <2>2, <2>3 DEF QInv
<1>2. SInv /\ QInv /\ [Next]_vars => QInv'
  <2> SUFFICES ASSUME SInv, QInv, [Next]_vars
               PROVE  QInv'
    OBVIOUS
  <2>1. CASE CallDisc \/ ListenRequest \/ CallUi
    BY <2>1, QuietCalls
  <2>2. ASSUME NEW t \in Threads, Step(t)
        PROVE  QInv'
    BY <2>2, QuietDisc, QuietListen, QuietUi, QuietNet, QuietRec, QuietShake, QuietReq
       DEF Step
  <2>3. CASE UNCHANGED vars
    BY <2>3, Rests DEF vars, socket
  <2>4. QED
    BY <2>1, <2>2, <2>3 DEF Next
<1>3. QInv => QuietAtDelete
  BY DEF QInv
<1>4. QED
  BY <1>1, <1>2, <1>3, SourceInvariant, PTL DEF Spec
=============================================================================
