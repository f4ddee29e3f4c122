---------------------------- MODULE PhoneSource ----------------------------
(***************************************************************************)
(* phone-source.cpp: the threads of one OBS source and the state they      *)
(* share.                                                                  *)
(*                                                                         *)
(*   disc      the mDNS discovery thread, which runs the discovery callback*)
(*   listen    the listen thread of HandshakeServer, which runs its        *)
(*             callback                                                    *)
(*   ui        the OBS thread that calls phone_source_update and _destroy  *)
(*   Nets      network threads (runNetworkThread)                          *)
(*   Recs      reconnect threads (launchReconnectThread)                   *)
(*   Shakes    handshake threads, of the discovery callback (labels h...)  *)
(*             and of the handshake-server callback (labels t...)          *)
(*                                                                         *)
(* A step is one access to shared state, one blocking call, or one such    *)
(* access with the local computation around it.  Thread ids are used again *)
(* after a join.  The labels of pc are listed at the actions.              *)
(***************************************************************************)
EXTENDS Naturals, FiniteSets

CONSTANTS
    Nets, Recs, Shakes,  \* thread ids
    None,                \* a std::thread that is not joinable; no mutex owner
    Ports,               \* ports a phone may advertise or the user may set
    DefaultPort,         \* 9000
    Discovers,           \* phones are found by mDNS
    Requests,            \* phones ask for a handshake (HandshakeServer)
    Updates,             \* the user changes the properties
    Destroys,            \* OBS destroys the source
    OpenFails            \* RtpReceiver::start may fail to bind

Actors == {"disc", "listen", "ui"}
Threads == Actors \cup Nets \cup Recs \cup Shakes

ASSUME SourceAssumption ==
    /\ Ports \subseteq Nat \ {0} /\ DefaultPort \in Ports
    /\ {Discovers, Requests, Updates, Destroys, OpenFails} \subseteq BOOLEAN
    /\ None \notin Threads
    /\ Actors \cap (Nets \cup Recs \cup Shakes) = {}
    /\ Nets \cap Recs = {} /\ Nets \cap Shakes = {} /\ Recs \cap Shakes = {}

VARIABLES
    pc,             \* where each thread is
    arg,            \* the port each thread works on, a local variable; 0: none
    old,            \* the handshake thread that one moved away from its handle
    valid, running, pending, inProgress,  \* atomics: reconnect_pending,
                                          \* handshake_in_progress
    port,           \* ctx->port
    bound,          \* the port the receiver's socket is bound to; 0: closed
    audio,          \* audio_thread was started and not joined since
    paused,         \* discovery sends no queries
    owner,          \* of op_mutex
    netThread, recThread, shakeThread,    \* the std::thread members
    fault,          \* "terminate": a joinable std::thread was assigned to;
                    \* "race": one std::thread used by two threads at once
    deleted         \* the phone_source was deleted

flags == <<valid, running, pending, inProgress, paused>>
handles == <<netThread, recThread, shakeThread>>
socket == <<port, bound, audio>>
vars == <<pc, arg, old, flags, socket, owner, handles, fault, deleted>>

Init ==
    /\ pc = [t \in Threads |-> IF t \in Actors THEN "idle" ELSE "free"]
    /\ arg = [t \in Threads |-> 0]
    /\ old = [t \in Threads |-> None]
    /\ valid = TRUE
    /\ running = FALSE /\ pending = FALSE /\ inProgress = FALSE /\ paused = FALSE
    /\ port = 0 /\ bound = 0 /\ audio = FALSE
    /\ owner = None
    /\ netThread = None /\ recThread = None /\ shakeThread = None
    /\ fault = "none"
    /\ deleted = FALSE

-----------------------------------------------------------------------------
(***************************************************************************)
(* Building blocks: the mutex, joining and creating threads.               *)
(***************************************************************************)
At(t, label) == fault = "none" /\ ~deleted /\ pc[t] = label
Goto(t, label) == pc' = [pc EXCEPT ![t] = label]

Acquire(t, from, to) ==
    /\ At(t, from)
    /\ owner = None
    /\ owner' = t
    /\ Goto(t, to)
    /\ UNCHANGED <<arg, old, flags, socket, handles, fault, deleted>>

Release(t) == owner' = IF owner = t THEN None ELSE owner

\* The end of join: a thread that was joined may be used for another one.
JoinThenGoto(t, joined, label) ==
    /\ joined # None => pc[joined] = "done"
    /\ pc' = [s \in Threads |-> IF s = joined THEN "free"
                                ELSE IF s = t THEN label ELSE pc[s]]

\* Mutant: the thread is detached.
JoinNetDetaches(t, from, to) ==
    /\ At(t, from)
    /\ Goto(t, to)
    /\ netThread' = None
    /\ UNCHANGED <<arg, old, flags, socket, owner, recThread, shakeThread, fault, deleted>>

JoinNet(t, from, to) ==
    /\ At(t, from)
    /\ JoinThenGoto(t, netThread, to)
    /\ netThread' = None
    /\ UNCHANGED <<arg, old, flags, socket, owner, recThread, shakeThread, fault, deleted>>

JoinRec(t, from, to) ==
    /\ At(t, from)
    /\ JoinThenGoto(t, recThread, to)
    /\ recThread' = None
    /\ UNCHANGED <<arg, old, flags, socket, owner, netThread, shakeThread, fault, deleted>>

\* Mutant: the thread is detached.
JoinShakeDetaches(t, from, to) ==
    /\ At(t, from)
    /\ Goto(t, to)
    /\ shakeThread' = None
    /\ UNCHANGED <<arg, old, flags, socket, owner, netThread, recThread, fault, deleted>>

JoinShake(t, from, to) ==
    /\ At(t, from)
    /\ JoinThenGoto(t, shakeThread, to)
    /\ shakeThread' = None
    /\ UNCHANGED <<arg, old, flags, socket, owner, netThread, recThread, fault, deleted>>

\* t creates thread s, which begins at label first.
Spawn(t, s, first, to) ==
    /\ pc[s] = "free"
    /\ pc' = [pc EXCEPT ![s] = first, ![t] = to]

\* Assigning to a std::thread that is joinable calls std::terminate.
Terminate == fault' = "terminate" /\ UNCHANGED <<pc, arg, old, owner, handles>>

\* receiver->start(p) succeeds, running = true, startAudioThread(ctx, p).
Open(p) ==
    /\ bound' = p
    /\ audio' = TRUE
    /\ running' = TRUE

-----------------------------------------------------------------------------
(***************************************************************************)
(* The network thread: loop, then the labels of launchReconnectThread.     *)
(***************************************************************************)
\* Mutant: running is not looked at.
NetLoopEndsAtDestroy(n) ==
    /\ At(n, "loop")
    /\ ~valid
    /\ Goto(n, "launch")
    /\ UNCHANGED <<arg, old, flags, socket, owner, handles, fault, deleted>>

NetLoopEnds(n) ==
    /\ At(n, "loop")
    /\ ~(running /\ valid)
    /\ Goto(n, "launch")
    /\ UNCHANGED <<arg, old, flags, socket, owner, handles, fault, deleted>>

\* launchReconnectThread returns to its caller.
Launched(t) == IF t \in Nets THEN "done" ELSE "uResume"

\* Mutant: reconnect_pending is set, not exchanged.
LaunchBeginAgain(t) ==
    /\ At(t, "launch")
    /\ IF valid
       THEN pending' = TRUE /\ Goto(t, "launchCheck")
       ELSE UNCHANGED pending /\ Goto(t, Launched(t))
    /\ UNCHANGED <<arg, old, valid, running, inProgress, paused, socket, owner,
                   handles, fault, deleted>>

LaunchBegin(t) ==
    /\ At(t, "launch")
    /\ IF valid /\ ~pending
       THEN pending' = TRUE /\ Goto(t, "launchCheck")
       ELSE UNCHANGED pending /\ Goto(t, Launched(t))
    /\ UNCHANGED <<arg, old, valid, running, inProgress, paused, socket, owner,
                   handles, fault, deleted>>

LaunchCheck(t) ==
    /\ At(t, "launchCheck")
    /\ IF inProgress
       THEN pending' = FALSE /\ Goto(t, Launched(t))
       ELSE UNCHANGED pending /\ Goto(t, "launchJoin")
    /\ UNCHANGED <<arg, old, valid, running, inProgress, paused, socket, owner,
                   handles, fault, deleted>>

LaunchSpawn(t) ==
    /\ At(t, "launchSpawn")
    /\ \/ /\ recThread # None
          /\ Terminate
       \/ /\ recThread = None
          /\ \E r \in Recs : Spawn(t, r, "rStart", Launched(t)) /\ recThread' = r
          /\ UNCHANGED <<arg, old, owner, netThread, shakeThread, fault>>
    /\ UNCHANGED <<flags, socket, deleted>>

Launch(t) ==
    \/ LaunchBegin(t)
    \/ LaunchCheck(t)
    \/ JoinRec(t, "launchJoin", "launchSpawn")
    \/ LaunchSpawn(t)

Net(n) == NetLoopEnds(n) \/ Launch(n)

-----------------------------------------------------------------------------
(***************************************************************************)
(* The reconnect thread.  mdns_mode is always true, so after the old       *)
(* stream is torn down discovery takes over.                               *)
(***************************************************************************)
RecGivesUp(r) ==
    /\ At(r, "rStart") \/ At(r, "rCheck")
    /\ ~valid
    /\ pending' = FALSE
    /\ Release(r)
    /\ Goto(r, "done")
    /\ UNCHANGED <<arg, old, valid, running, inProgress, paused, socket, handles,
                   fault, deleted>>

\* Mutant: no lock_guard.
RecGoesOnUnlocked(r) ==
    /\ valid
    /\ At(r, "rStart") /\ Goto(r, "rJoinNet")
    /\ UNCHANGED <<arg, old, flags, socket, owner, handles, fault, deleted>>

RecGoesOn(r) ==
    /\ valid
    /\ \/ At(r, "rStart") /\ Goto(r, "rLock")
       \/ At(r, "rCheck") /\ Goto(r, "rJoinNet")
    /\ UNCHANGED <<arg, old, flags, socket, owner, handles, fault, deleted>>

RecStop(r) ==
    /\ At(r, "rStop")
    /\ bound' = 0
    /\ running' = FALSE
    /\ paused' = FALSE
    /\ Release(r)
    /\ Goto(r, "rEnd")
    /\ UNCHANGED <<arg, old, valid, pending, inProgress, port, audio, handles,
                   fault, deleted>>

RecEnd(r) ==
    /\ At(r, "rEnd")
    /\ pending' = FALSE
    /\ Goto(r, "done")
    /\ UNCHANGED <<arg, old, valid, running, inProgress, paused, socket, owner,
                   handles, fault, deleted>>

Rec(r) ==
    \/ RecGivesUp(r)
    \/ RecGoesOn(r)
    \/ Acquire(r, "rLock", "rCheck")
    \/ JoinNet(r, "rJoinNet", "rStop")
    \/ RecStop(r)
    \/ RecEnd(r)

-----------------------------------------------------------------------------
(***************************************************************************)
(* The discovery callback, on the discovery thread.                        *)
(***************************************************************************)
DiscFound(p) ==
    /\ Discovers
    /\ At("disc", "idle")
    /\ valid
    /\ paused' = TRUE
    /\ arg' = [arg EXCEPT !["disc"] = p]
    /\ Goto("disc", "dLock")
    /\ UNCHANGED <<old, valid, running, pending, inProgress, socket, owner, handles,
                   fault, deleted>>

\* The stream is already there: only a handshake is sent, by a detached thread.
Relinks == running /\ port = arg["disc"]

\* The callback returns, and with TRUE it resumes discovery first.
DiscReturns(resumes) ==
    /\ paused' = (paused /\ ~resumes)
    /\ arg' = [arg EXCEPT !["disc"] = 0]
    /\ Release("disc")
    /\ Goto("disc", "idle")

DiscCheck ==
    /\ At("disc", "dCheck")
    /\ \/ /\ ~valid \/ Relinks
          /\ DiscReturns(FALSE)
       \/ /\ valid /\ ~Relinks
          /\ Goto("disc", "dStop")
          /\ UNCHANGED <<arg, paused, owner>>
    /\ UNCHANGED <<old, valid, running, pending, inProgress, socket, handles,
                   fault, deleted>>

DiscStop ==
    /\ At("disc", "dStop")
    /\ IF running
       THEN running' = FALSE /\ bound' = 0 /\ Goto("disc", "dJoinNet")
       ELSE UNCHANGED <<running, bound>> /\ Goto("disc", "dGuard")
    /\ UNCHANGED <<arg, old, valid, pending, inProgress, paused, port, audio, owner,
                   handles, fault, deleted>>

\* Mutant: no guard against a handshake in progress.
DiscGuardAlways ==
    /\ At("disc", "dGuard")
    /\ \/ /\ ~valid
          /\ DiscReturns(FALSE)
          /\ UNCHANGED port
       \/ /\ valid
          /\ port' = arg["disc"]
          /\ Goto("disc", "dOpen")
          /\ UNCHANGED <<arg, paused, owner>>
    /\ UNCHANGED <<old, valid, running, pending, inProgress, bound, audio, handles,
                   fault, deleted>>

DiscGuard ==
    /\ At("disc", "dGuard")
    /\ \/ /\ ~valid \/ inProgress
          /\ DiscReturns(valid)
          /\ UNCHANGED port
       \/ /\ valid /\ ~inProgress
          /\ port' = arg["disc"]
          /\ Goto("disc", "dOpen")
          /\ UNCHANGED <<arg, paused, owner>>
    /\ UNCHANGED <<old, valid, running, pending, inProgress, bound, audio, handles,
                   fault, deleted>>

\* Mutant: running is set before the result of start is known.
DiscOpenRunsFirst ==
    /\ At("disc", "dOpen")
    /\ \/ /\ Open(arg["disc"])
          /\ Goto("disc", "dSpawnNet")
          /\ UNCHANGED <<arg, paused, owner>>
       \/ /\ OpenFails
          /\ bound' = 0
          /\ running' = TRUE
          /\ DiscReturns(TRUE)
          /\ UNCHANGED audio
    /\ UNCHANGED <<old, valid, pending, inProgress, port, handles, fault, deleted>>

DiscOpen ==
    /\ At("disc", "dOpen")
    /\ \/ /\ Open(arg["disc"])
          /\ Goto("disc", "dSpawnNet")
          /\ UNCHANGED <<arg, paused, owner>>
       \/ /\ OpenFails
          /\ bound' = 0
          /\ DiscReturns(TRUE)
          /\ UNCHANGED <<running, audio>>
    /\ UNCHANGED <<old, valid, pending, inProgress, port, handles, fault, deleted>>

\* network_thread = std::thread(runNetworkThread, ...)
SpawnNet(t, from, to) ==
    /\ At(t, from)
    /\ \/ /\ netThread # None
          /\ Terminate
       \/ /\ netThread = None
          /\ \E n \in Nets : Spawn(t, n, "loop", to) /\ netThread' = n
          /\ UNCHANGED <<arg, old, owner, recThread, shakeThread, fault>>
    /\ UNCHANGED <<flags, socket, deleted>>

DiscFlag ==
    /\ At("disc", "dFlag")
    /\ inProgress' = TRUE
    /\ Goto("disc", "dJoinHs")
    /\ UNCHANGED <<arg, old, valid, running, pending, paused, socket, owner, handles,
                   fault, deleted>>

DiscSpawnHs ==
    /\ At("disc", "dSpawnHs")
    /\ \/ /\ shakeThread # None
          /\ Terminate
       \/ /\ shakeThread = None
          /\ \E h \in Shakes : Spawn("disc", h, "hStart", "idle") /\ shakeThread' = h
          /\ arg' = [arg EXCEPT !["disc"] = 0]
          /\ Release("disc")
          /\ UNCHANGED <<old, netThread, recThread, fault>>
    /\ UNCHANGED <<flags, socket, deleted>>

Disc ==
    \/ Acquire("disc", "dLock", "dCheck")
    \/ DiscCheck
    \/ DiscStop
    \/ JoinNet("disc", "dJoinNet", "dGuard")
    \/ DiscGuard
    \/ DiscOpen
    \/ SpawnNet("disc", "dSpawnNet", "dFlag")
    \/ DiscFlag
    \/ JoinShake("disc", "dJoinHs", "dSpawnHs")
    \/ DiscSpawnHs

-----------------------------------------------------------------------------
(***************************************************************************)
(* The handshake thread of the discovery callback.                         *)
(***************************************************************************)
\* Both ends of the thread that clear handshake_in_progress.
ShakeEnd(h) ==
    /\ At(h, "hClear") \/ (At(h, "hStart") /\ ~valid)
    /\ inProgress' = FALSE
    /\ Goto(h, "done")
    /\ UNCHANGED <<arg, old, valid, running, pending, paused, socket, owner, handles,
                   fault, deleted>>

\* The phone answers the handshake or it does not.
ShakeSend(h) ==
    /\ At(h, "hStart")
    /\ valid
    /\ Goto(h, "hClear") \/ Goto(h, "hLock")
    /\ UNCHANGED <<arg, old, flags, socket, owner, handles, fault, deleted>>

\* Mutants: the network thread is not joined; it is not told to stop.
ShakeFailNoJoin(h) ==
    /\ At(h, "hFail")
    /\ running' = FALSE
    /\ bound' = 0
    /\ Goto(h, "hResume")
    /\ UNCHANGED <<arg, old, valid, pending, inProgress, paused, port, audio, owner,
                   handles, fault, deleted>>
ShakeFailKeepsRunning(h) ==
    /\ At(h, "hFail")
    /\ bound' = 0
    /\ Goto(h, "hJoinNet")
    /\ UNCHANGED <<arg, old, valid, running, pending, inProgress, paused, port, audio,
                   owner, handles, fault, deleted>>

ShakeFail(h) ==
    /\ At(h, "hFail")
    /\ \/ /\ ~valid
          /\ Release(h)
          /\ Goto(h, "done")
          /\ UNCHANGED <<running, bound>>
       \/ /\ valid
          /\ running' = FALSE
          /\ bound' = 0
          /\ Goto(h, "hJoinNet")
          /\ UNCHANGED owner
    /\ UNCHANGED <<arg, old, valid, pending, inProgress, paused, port, audio, handles,
                   fault, deleted>>

\* Mutant: discovery stays paused.
ShakeResumeForgets(h) ==
    /\ At(h, "hResume")
    /\ Release(h)
    /\ Goto(h, "hClear")
    /\ UNCHANGED <<arg, old, flags, socket, handles, fault, deleted>>

ShakeResume(h) ==
    /\ At(h, "hResume")
    /\ paused' = (paused /\ ~valid)
    /\ Release(h)
    /\ Goto(h, "hClear")
    /\ UNCHANGED <<arg, old, valid, running, pending, inProgress, socket, handles,
                   fault, deleted>>

Shake(h) ==
    \/ ShakeSend(h)
    \/ Acquire(h, "hLock", "hFail")
    \/ ShakeFail(h)
    \/ JoinNet(h, "hJoinNet", "hResume")
    \/ ShakeResume(h)
    \/ ShakeEnd(h)

-----------------------------------------------------------------------------
(***************************************************************************)
(* The handshake-server callback, on the listen thread.  Requests come     *)
(* only while a thread id is left for the thread the callback creates.     *)
(***************************************************************************)
\* Mutant: the port is used before any is known.
ListenRequestPort0 ==
    /\ Requests
    /\ At("listen", "idle")
    /\ valid
    /\ \E s \in Shakes : pc[s] = "free"
    /\ arg' = [arg EXCEPT !["listen"] = port]
    /\ Goto("listen", "lStop")
    /\ UNCHANGED <<old, flags, socket, owner, handles, fault, deleted>>

ListenRequest ==
    /\ Requests
    /\ At("listen", "idle")
    /\ valid
    /\ \E s \in Shakes : pc[s] = "free"
    /\ arg' = [arg EXCEPT !["listen"] = IF port = 0 THEN DefaultPort ELSE port]
    /\ Goto("listen", "lStop")
    /\ UNCHANGED <<old, flags, socket, owner, handles, fault, deleted>>

\* if (running) running = false, in the callback and in phone_source_update.
StopStream(t, from, streaming, stopped) ==
    /\ At(t, from)
    /\ running' = FALSE
    /\ Goto(t, IF running THEN streaming ELSE stopped)
    /\ UNCHANGED <<arg, old, valid, pending, inProgress, paused, socket, owner, handles,
                   fault, deleted>>

CloseReceiver(t, from, to) ==
    /\ At(t, from)
    /\ bound' = 0
    /\ Goto(t, to)
    /\ UNCHANGED <<arg, old, flags, port, audio, owner, handles, fault, deleted>>

\* old_thread = std::move(ctx->handshake_thread), while disc may be joining it.
ListenMove ==
    /\ At("listen", "lMove")
    /\ IF pc["disc"] = "dJoinHs" /\ shakeThread # None
       THEN fault' = "race" /\ UNCHANGED <<pc, old, shakeThread>>
       ELSE /\ old' = [old EXCEPT !["listen"] = shakeThread]
            /\ shakeThread' = None
            /\ Goto("listen", "lSpawn")
            /\ UNCHANGED fault
    /\ UNCHANGED <<arg, flags, socket, owner, netThread, recThread, deleted>>

ListenSpawn ==
    /\ At("listen", "lSpawn")
    /\ \/ /\ shakeThread # None
          /\ Terminate
       \/ /\ shakeThread = None
          /\ \E s \in Shakes :
                /\ Spawn("listen", s, "tJoinOld", "idle")
                /\ shakeThread' = s
                /\ arg' = [arg EXCEPT ![s] = arg["listen"], !["listen"] = 0]
                /\ old' = [old EXCEPT ![s] = old["listen"], !["listen"] = None]
          /\ UNCHANGED <<owner, netThread, recThread, fault>>
    /\ UNCHANGED <<flags, socket, deleted>>

Listen ==
    \/ StopStream("listen", "lStop", "lClose", "lMove")
    \/ CloseReceiver("listen", "lClose", "lMove")
    \/ ListenMove
    \/ ListenSpawn

-----------------------------------------------------------------------------
(***************************************************************************)
(* The thread of the handshake-server callback.                            *)
(***************************************************************************)
ReqJoinOld(t) ==
    /\ At(t, "tJoinOld")
    /\ JoinThenGoto(t, old[t], "tStart")
    /\ old' = [old EXCEPT ![t] = None]
    /\ UNCHANGED <<arg, flags, socket, owner, handles, fault, deleted>>

ReqReturns(t) ==
    /\ arg' = [arg EXCEPT ![t] = 0]
    /\ Release(t)
    /\ Goto(t, "done")

\* Three places where it looks at valid.
ReqGoesOn(t) ==
    /\ valid
    /\ \/ At(t, "tStart") /\ Goto(t, "tLock")
       \/ At(t, "tCheck") /\ Goto(t, "tJoinNet")
       \/ At(t, "tRecheck") /\ Goto(t, "tOpen")
    /\ UNCHANGED <<arg, old, flags, socket, owner, handles, fault, deleted>>

ReqGivesUp(t) ==
    /\ ~valid
    /\ At(t, "tStart") \/ At(t, "tCheck") \/ At(t, "tRecheck")
    /\ ReqReturns(t)
    /\ UNCHANGED <<old, flags, socket, handles, fault, deleted>>

\* Mutant: running is set before the result of start is known.
ReqOpenRunsFirst(t) ==
    /\ At(t, "tOpen")
    /\ \/ /\ Open(arg[t])
          /\ port' = arg[t]
          /\ Goto(t, "tSpawnNet")
          /\ UNCHANGED <<arg, owner>>
       \/ /\ OpenFails
          /\ bound' = 0
          /\ running' = TRUE
          /\ ReqReturns(t)
          /\ UNCHANGED <<port, audio>>
    /\ UNCHANGED <<old, valid, pending, inProgress, paused, handles, fault, deleted>>

ReqOpen(t) ==
    /\ At(t, "tOpen")
    /\ \/ /\ Open(arg[t])
          /\ port' = arg[t]
          /\ Goto(t, "tSpawnNet")
          /\ UNCHANGED <<arg, owner>>
       \/ /\ OpenFails
          /\ bound' = 0
          /\ ReqReturns(t)
          /\ UNCHANGED <<port, running, audio>>
    /\ UNCHANGED <<old, valid, pending, inProgress, paused, handles, fault, deleted>>

\* The handshake is sent with op_mutex held; its result is not looked at.
ReqSend(t) ==
    /\ At(t, "tSend")
    /\ ReqReturns(t)
    /\ UNCHANGED <<old, flags, socket, handles, fault, deleted>>

Req(t) ==
    \/ ReqJoinOld(t)
    \/ ReqGoesOn(t)
    \/ ReqGivesUp(t)
    \/ Acquire(t, "tLock", "tCheck")
    \/ JoinNet(t, "tJoinNet", "tRecheck")
    \/ ReqOpen(t)
    \/ SpawnNet(t, "tSpawnNet", "tSend")
    \/ ReqSend(t)

-----------------------------------------------------------------------------
(***************************************************************************)
(* OBS calls phone_source_update and phone_source_destroy.                 *)
(***************************************************************************)
\* A new port, a new password, or both.
UiUpdate(p) ==
    /\ Updates
    /\ At("ui", "idle")
    /\ valid
    /\ port' = p
    /\ Goto("ui", "uStop")
    /\ UNCHANGED <<arg, old, flags, bound, audio, owner, handles, fault, deleted>>

UiResume ==
    /\ At("ui", "uResume")
    /\ paused' = (paused /\ running)
    /\ Goto("ui", "idle")
    /\ UNCHANGED <<arg, old, valid, running, pending, inProgress, socket, owner, handles,
                   fault, deleted>>

UiDestroy ==
    /\ Destroys
    /\ At("ui", "idle")
    /\ valid' = FALSE
    /\ running' = FALSE
    /\ Goto("ui", "xLock")
    /\ UNCHANGED <<arg, old, pending, inProgress, paused, socket, owner, handles,
                   fault, deleted>>

\* stop of MdnsDiscovery and HandshakeServer joins the thread, which ends
\* when it is in no callback.
UiStop(actor, from, to) ==
    /\ At("ui", from)
    /\ pc[actor] = "idle"
    /\ pc' = [pc EXCEPT ![actor] = "done", !["ui"] = to]
    /\ UNCHANGED <<arg, old, flags, socket, owner, handles, fault, deleted>>

UiFree ==
    /\ At("ui", "xFree")
    /\ audio' = FALSE
    /\ Release("ui")
    /\ Goto("ui", "done")
    /\ deleted' = TRUE
    /\ UNCHANGED <<arg, old, flags, port, bound, handles, fault>>

Ui ==
    \/ StopStream("ui", "uStop", "uClose", "uResume")
    \/ CloseReceiver("ui", "uClose", "launch")
    \/ Launch("ui")
    \/ UiResume
    \/ Acquire("ui", "xLock", "xStopDisc")
    \/ UiStop("disc", "xStopDisc", "xStopListen")
    \/ UiStop("listen", "xStopListen", "xClose")
    \/ CloseReceiver("ui", "xClose", "xJoinNet")
    \/ JoinNet("ui", "xJoinNet", "xJoinRec")
    \/ JoinRec("ui", "xJoinRec", "xJoinHs")
    \/ JoinShake("ui", "xJoinHs", "xFree")
    \/ UiFree

-----------------------------------------------------------------------------
\* What a thread does by itself, once its callback has been called.
Step(t) ==
    \/ t = "disc" /\ Disc
    \/ t = "listen" /\ Listen
    \/ t = "ui" /\ Ui
    \/ t \in Nets /\ Net(t)
    \/ t \in Recs /\ Rec(t)
    \/ t \in Shakes /\ (Shake(t) \/ Req(t))

\* The phone and the user call when they like.
CallDisc == \E p \in Ports : DiscFound(p)
CallUi == UiDestroy \/ \E p \in Ports : UiUpdate(p)

Next ==
    \/ CallDisc
    \/ ListenRequest
    \/ CallUi
    \/ \E t \in Threads : Step(t)

Spec == Init /\ [][Next]_vars

\* Every thread is scheduled, and gets a mutex that is free again and again:
\* the callbacks that contend for op_mutex are seconds apart.
Fairness == \A t \in Threads : SF_vars(Step(t))
FairSpec == Spec /\ Fairness

-----------------------------------------------------------------------------
(***************************************************************************)
(* Properties.                                                             *)
(***************************************************************************)
Labels ==
    {"free", "idle", "done", "loop", "launch", "launchCheck", "launchJoin", "launchSpawn",
     "rStart", "rLock", "rCheck", "rJoinNet", "rStop", "rEnd",
     "dLock", "dCheck", "dStop", "dJoinNet", "dGuard", "dOpen", "dSpawnNet", "dFlag",
     "dJoinHs", "dSpawnHs",
     "hStart", "hLock", "hFail", "hJoinNet", "hResume", "hClear",
     "lStop", "lClose", "lMove", "lSpawn",
     "tJoinOld", "tStart", "tLock", "tCheck", "tJoinNet", "tRecheck", "tOpen",
     "tSpawnNet", "tSend",
     "uStop", "uClose", "uResume", "xLock", "xStopDisc", "xStopListen", "xClose",
     "xJoinNet", "xJoinRec", "xJoinHs", "xFree"}

\* The shared state of phone_source keeps its types, and only a real port is opened.
TypeOK ==
    /\ pc \in [Threads -> Labels]
    /\ arg \in [Threads -> Ports \cup {0}]
    /\ old \in [Threads -> Shakes \cup {None}]
    /\ {valid, running, pending, inProgress, paused, audio, deleted} \subseteq BOOLEAN
    /\ {port, bound} \subseteq Ports \cup {0}
    /\ \A t \in Threads : pc[t] \in {"tOpen", "dOpen"} => arg[t] \in Ports
    /\ owner \in Threads \cup {None}
    /\ netThread \in Nets \cup {None}
    /\ recThread \in Recs \cup {None}
    /\ shakeThread \in Shakes \cup {None}
    /\ fault \in {"none", "terminate", "race"}

UsesNetThread ==
    {"rJoinNet", "dJoinNet", "dSpawnNet", "hJoinNet", "tJoinNet", "tSpawnNet", "xJoinNet"}
UsesRecThread == {"launchJoin", "launchSpawn", "xJoinRec"}

\* network_thread is a plain std::thread that five threads join and assign:
\* no two of them are ever about to.
NetThreadExclusive ==
    \A s, t \in Threads :
        pc[s] \in UsesNetThread /\ pc[t] \in UsesNetThread => s = t

\* reconnect_thread is guarded by reconnect_pending in launchReconnectThread and
\* by nothing in phone_source_destroy: still no two threads are about to use it,
\* and none while a reconnect thread that is still at work is outside the handle.
RecThreadExclusive ==
    /\ \A s, t \in Threads :
          pc[s] \in UsesRecThread /\ pc[t] \in UsesRecThread => s = t
    /\ \A r \in Recs : pc[r] # "free" => r = recThread

\* When phone_source_destroy deletes the source no thread that uses it is left,
\* the handshake threads that were moved away from handshake_thread included.
QuietAtDelete ==
    deleted => /\ \A t \in Threads : pc[t] \in {"free", "done"}
               /\ ~audio

\* Outside the sections under op_mutex a live source that says it runs has a network
\* thread in its loop, so that frames are read.
StreamHasThread ==
    valid /\ running /\ owner = None => netThread # None /\ pc[netThread] = "loop"

\* ... and a socket for it to read from.
StreamHasSocket == running /\ owner = None => bound = port /\ bound # 0

\* "Join previous handshake thread if it finished but wasn't joined yet": the
\* discovery callback, which holds op_mutex, joins only a thread that is over.
JoinsFinishedHandshake ==
    pc["disc"] = "dJoinHs" /\ shakeThread # None => pc[shakeThread] = "done"

\* No joinable std::thread is assigned to, and none is used by two threads.
NoFault == fault = "none"

\* The discovery callback returns, so that a phone that advertises again later is
\* taken up again.
CallbackReturns == pc["disc"] = "dLock" ~> pc["disc"] = "idle"

\* After a handshake that failed discovery queries again, or the next callback
\* has already come.
FailedHandshakeRecovers ==
    \A h \in Shakes : pc[h] = "hLock" ~> ~paused \/ pc["disc"] = "dLock"

\* A request of the phone is answered: the old network thread, whose end starts a
\* reconnect thread, does not keep the new one from starting, and a handshake goes
\* back while the socket is open; or the source is stopped and waits for the next.
RequestStarts ==
    pc["listen"] = "lSpawn" ~>
        \/ \E t \in Shakes : pc[t] = "tSend" /\ bound = port
        \/ /\ ~running /\ pc["listen"] = "idle"
           /\ \A t \in Shakes : pc[t] \in {"free", "done"}
=============================================================================
