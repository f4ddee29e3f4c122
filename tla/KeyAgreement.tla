---------------------------- MODULE KeyAgreement ----------------------------
(***************************************************************************)
(* How a stream gets its key: the phone's StreamViewModel, HandshakeServer *)
(* and CameraStreamService on one side, phone-source.cpp with its two      *)
(* SrtpSessions on the other, and the handshakes between them.             *)
(*                                                                         *)
(* The threads of OBS are those of PhoneSource, here only with what they   *)
(* do to the sessions and with op_mutex, which some of them wait for.  The *)
(* discovery callback comes at any time, also while discovery is paused    *)
(* (mdns-discovery.cpp:276), so pauses are left out.  There is one OBS,    *)
(* with one port.                                                          *)
(***************************************************************************)
EXTENDS Handshake, SrtpSession

CONSTANTS
    Skews,          \* clock of OBS minus clock of the phone, in seconds
    Hosts,          \* what adapters a host of OBS may have
    Lan,            \* the address at which the phone reaches OBS
    MaxCalls,       \* bound: requests of the phone
    MaxEdits,       \* bound: times that the user edits a password or the port
    Nothing

ASSUME KeyAssumption ==
    /\ Empty \in Passwords /\ Skews \subseteq Int /\ MaxCalls \in Nat
    /\ Nothing \notin {BestLocalIp(h) : h \in Hosts} \cup {Lan, "default", Empty}
    /\ Nothing \notin [password : Passwords, at : {"send", "tear", "join"}]
    /\ NoKey \notin [password : Passwords, salt : 0..MaxCalls]

VARIABLES
    \* the phone
    phonePw,        \* uiState.password and the password of HandshakeServer
    wants,          \* userWantsToStream
    streaming,      \* uiState.isStreaming
    auto,           \* autoDiscoveryEnabled
    target,         \* targetIp
    calls, called,  \* coroutines of initiateHandshake, and how many there were
    phoneSalt,      \* currentSrtpSaltHex; 0: empty
    job,            \* the address that handshakeJob was started with
    service,        \* CameraStreamService
    redirect,       \* the address that a coroutine of redirectStream waits for
    \* the network
    requests, answers,
    \* OBS
    password,       \* ctx->password
    serverPw,       \* password_ of HandshakeServer
    saltHex,        \* srtp_salt_hex; 0: empty
    listen,         \* the listen thread: where it is in its callback
    shakes,         \* handshake threads of that callback, each joins the one before
    link,           \* handshake_in_progress: the handshake thread of the discovery
                    \* callback, or the callback while it joins one of shakes
    running,
    network,        \* the network thread: "none", "runs", or "ended" and not joined
    audio,          \* the audio thread runs and its socket is bound
    reconnecting,   \* the reconnect thread: "no", "waits" for op_mutex, "locked"
    updating,       \* phone_source_update is between its two steps
    audioSrtp, videoSrtp,
    srtpSet,        \* the receiver has a pointer to video_srtp
    \* what does not change, what OBS shows and plays, and if anything failed
    skew, adapters, picture, sound, failed, edits,
    \* history: OBS has taken the request of the last Start or address; the
    \* stream was launched before OBS had
    taken, ahead

pside == <<phonePw, wants, streaming, auto, target, calls, called, phoneSalt>>
phone == <<pside, job, service, redirect>>
net == <<requests, answers>>
threads == <<listen, shakes, link, running, network, audio, reconnecting, updating>>
srtp == <<audioSrtp, videoSrtp, srtpSet>>
obs == <<password, serverPw, saltHex, threads, srtp>>
heard == <<picture, sound>>
history == <<taken, ahead>>
env == <<skew, adapters, failed, edits, history>>
vars == <<phone, net, obs, heard, env>>

\* known: StreamViewModel is bound to it (streamService is not null).
NoService == [state |-> "none", ip |-> Empty, password |-> Empty, salt |-> 0,
              known |-> FALSE, sender |-> NoContext]

Init ==
    /\ phonePw \in Passwords /\ password \in Passwords /\ serverPw = password
    /\ auto \in BOOLEAN /\ target \in {Lan, "default"}
    /\ skew \in Skews /\ adapters \in Hosts
    /\ wants = FALSE /\ streaming = FALSE
    /\ calls = {} /\ called = 0 /\ phoneSalt = 0
    /\ job = Nothing /\ service = NoService /\ redirect = Nothing
    /\ requests = <<>> /\ answers = <<>>
    /\ saltHex = 0 /\ listen = [at |-> "accept", password |-> Empty]
    /\ shakes = <<>> /\ link = Nothing
    /\ running = FALSE /\ network = "none" /\ audio = FALSE
    /\ reconnecting = "no" /\ updating = FALSE
    /\ audioSrtp = NewSession /\ videoSrtp = NewSession /\ srtpSet = FALSE
    /\ picture = "none" /\ sound = "none"
    /\ failed = FALSE /\ edits = 0
    /\ taken = FALSE /\ ahead = FALSE

\* Two clocks, in seconds.
PhoneNow == 100
ObsNow == 100 + skew

-----------------------------------------------------------------------------
(***************************************************************************)
(* The phone: what the user does, and the request.                         *)
(***************************************************************************)
Call(ip) ==
    /\ called < MaxCalls
    /\ called' = called + 1
    /\ calls' = calls \cup {[n |-> called + 1, ip |-> ip, salt |-> 0, password |-> Empty]}

\* Mutant: a stream that runs is asked for again.
StartStreamingAgain ==
    /\ wants' = TRUE
    /\ IF phonePw # Empty THEN Call(target) ELSE UNCHANGED <<calls, called>>
    /\ failed' = FALSE /\ taken' = (taken /\ streaming)
    /\ UNCHANGED <<phonePw, streaming, auto, target, phoneSalt, job, service, redirect,
                   net, obs, heard, skew, adapters, edits, ahead>>

\* startStreaming of StreamViewModel.
StartStreaming ==
    /\ wants' = TRUE
    /\ IF ~streaming /\ phonePw # Empty THEN Call(target) ELSE UNCHANGED <<calls, called>>
    /\ failed' = FALSE /\ taken' = (taken /\ streaming)
    /\ UNCHANGED <<phonePw, streaming, auto, target, phoneSalt, job, service, redirect,
                   net, obs, heard, skew, adapters, edits, ahead>>

\* updateIp with the address of OBS, without auto-discovery.
UpdateIp ==
    /\ ~auto
    /\ target' = Lan
    /\ Call(Lan)
    /\ taken' = FALSE
    /\ UNCHANGED <<phonePw, wants, streaming, auto, phoneSalt, job, service, redirect,
                   net, obs, heard, skew, adapters, failed, edits, ahead>>

UpdatePassword(p) ==
    /\ edits < MaxEdits /\ edits' = edits + 1
    /\ phonePw' = p
    /\ UNCHANGED <<wants, streaming, auto, target, calls, called, phoneSalt, job, service,
                   redirect, net, obs, heard, skew, adapters, failed, history>>

\* The service tears the pipeline down (CameraStreamService).
StopStreaming ==
    /\ wants' = FALSE /\ streaming' = FALSE
    /\ service' = NoService
    /\ picture' = "none" /\ sound' = "none" /\ ahead' = FALSE
    /\ UNCHANGED <<phonePw, auto, target, calls, called, phoneSalt, job, redirect,
                   net, obs, skew, adapters, failed, edits, taken>>

Connected(c) == c.salt # 0

\* The salt is random: no other request has it.  It is kept before it is sent.
Connect(c) ==
    /\ ~Connected(c) /\ c.ip = Lan
    /\ calls' = (calls \ {c}) \cup {[c EXCEPT !.salt = c.n, !.password = phonePw]}
    /\ phoneSalt' = c.n
    /\ UNCHANGED <<phonePw, wants, streaming, auto, target, called, job, service, redirect,
                   net, obs, heard, env>>

SendRequest(c) ==
    /\ Connected(c)
    /\ calls' = calls \ {c}
    /\ requests' = Append(requests, Request(c.password, c.salt, PhoneNow))
    /\ UNCHANGED <<phonePw, wants, streaming, auto, target, called, phoneSalt, job, service,
                   redirect, answers, obs, heard, env>>

CallFails(c) ==
    /\ calls' = calls \ {c}
    /\ failed' = TRUE
    /\ UNCHANGED <<phonePw, wants, streaming, auto, target, called, phoneSalt, job, service,
                   redirect, net, obs, heard, skew, adapters, edits, history>>

-----------------------------------------------------------------------------
(***************************************************************************)
(* The phone: the handshake of OBS, and the stream.                        *)
(***************************************************************************)
\* HandshakeServer; a newer handshake cancels the job of an older one.
HandleClient ==
    /\ answers # <<>>
    /\ answers' = Tail(answers)
    /\ job' = IF PhoneAccepts(Head(answers), phonePw, PhoneNow) THEN Head(answers).ip ELSE job
    /\ UNCHANGED <<pside, service, redirect, requests, obs, heard, env>>

\* A service that the view model is not bound to is started, with the last salt.
LaunchStream(ip) ==
    IF service.known THEN service
    ELSE [service EXCEPT !.state = "starting", !.ip = ip, !.password = phonePw, !.salt = phoneSalt]

HandshakeJob ==
    /\ job # Nothing
    /\ job' = Nothing
    /\ IF auto \/ target = job
       THEN /\ target' = job
            /\ redirect' = IF streaming THEN job ELSE redirect
            /\ service' = IF ~streaming /\ wants THEN LaunchStream(job) ELSE service
            /\ ahead' = (ahead \/ (~streaming /\ wants /\ ~service.known /\ ~taken))
       ELSE UNCHANGED <<target, redirect, service, ahead>>
    /\ UNCHANGED <<phonePw, wants, streaming, auto, calls, called, phoneSalt,
                   net, obs, heard, skew, adapters, failed, edits, taken>>

\* An RtpSender has no SrtpContext if there is no password.
CreateRtpSender(s) ==
    IF s.password = Empty THEN [context |-> NoContext]
    ELSE [context |-> InitContext(DeriveKeys(s.password, s.salt))]

ServiceStarts ==
    /\ service.state = "starting"
    /\ service' = [service EXCEPT !.state = "streaming", !.sender = CreateRtpSender(service)]
    /\ UNCHANGED <<pside, job, redirect, net, obs, heard, env>>

ServiceConnected ==
    /\ service.state # "none" /\ ~service.known
    /\ service' = [service EXCEPT !.known = TRUE]
    /\ UNCHANGED <<pside, job, redirect, net, obs, heard, env>>

\* One round of startStatusPolling.
Poll ==
    /\ service.known /\ service.state = "streaming"
    /\ streaming' = TRUE
    /\ UNCHANGED <<phonePw, wants, auto, target, calls, called, phoneSalt, job, service,
                   redirect, net, obs, heard, env>>

\* The new sender has the service's password and salt.
RedirectStream ==
    /\ redirect # Nothing
    /\ redirect' = Nothing
    /\ service' = IF service.state # "streaming" THEN service
                  ELSE [service EXCEPT !.ip = redirect, !.sender = CreateRtpSender(service)]
    /\ UNCHANGED <<pside, job, net, obs, heard, env>>

-----------------------------------------------------------------------------
(***************************************************************************)
(* OBS: the request, in the listen thread and in a thread of its own.      *)
(***************************************************************************)
\* The callback begins: the salt is stored, the stream is stopped.
RequestReceived(message) ==
    /\ saltHex' = message.salt
    /\ running' = FALSE
    /\ listen' = [listen EXCEPT !.at = "stop"]

ListenLoop ==
    /\ listen.at = "accept" /\ requests # <<>>
    /\ requests' = Tail(requests)
    /\ LET message == Head(requests) IN
         IF ObsAccepts(message, serverPw, ObsNow)
         THEN RequestReceived(message)
         ELSE UNCHANGED <<saltHex, running, listen>>
    /\ UNCHANGED <<phone, answers, password, serverPw, shakes, link, network, audio,
                   reconnecting, updating, srtp, heard, env>>

StopSessions ==
    /\ listen.at = "stop"
    /\ listen' = [at |-> "start", password |-> password]
    /\ audioSrtp' = Stopped /\ videoSrtp' = Stopped
    /\ UNCHANGED <<phone, net, password, serverPw, saltHex, shakes, link, running, network,
                   audio, reconnecting, updating, srtpSet, heard, env>>

NewShake == [password |-> listen.password, at |-> "waits"]

\* Mutant: the receiver is not given the session.
StartSessionsUnset ==
    /\ listen.at = "start"
    /\ IF listen.password # Empty /\ saltHex # 0
       THEN /\ audioSrtp' = Started(listen.password, saltHex)
            /\ videoSrtp' = Started(listen.password, saltHex)
            /\ UNCHANGED srtpSet
       ELSE srtpSet' = FALSE /\ UNCHANGED <<audioSrtp, videoSrtp>>
    /\ shakes' = Append(shakes, NewShake)
    /\ listen' = [at |-> "accept", password |-> Empty]
    /\ taken' = TRUE
    /\ UNCHANGED <<phone, net, password, serverPw, saltHex, link, running, network, audio,
                   reconnecting, updating, heard, skew, adapters, failed, edits, ahead>>

StartSessions ==
    /\ listen.at = "start"
    /\ IF listen.password # Empty /\ saltHex # 0
       THEN /\ audioSrtp' = Started(listen.password, saltHex)
            /\ videoSrtp' = Started(listen.password, saltHex)
            /\ srtpSet' = TRUE
       ELSE srtpSet' = FALSE /\ UNCHANGED <<audioSrtp, videoSrtp>>
    /\ shakes' = Append(shakes, NewShake)
    /\ listen' = [at |-> "accept", password |-> Empty]
    /\ taken' = TRUE
    /\ UNCHANGED <<phone, net, password, serverPw, saltHex, link, running, network, audio,
                   reconnecting, updating, heard, skew, adapters, failed, edits, ahead>>

\* op_mutex: a handshake thread keeps it until its answer is sent, a reconnect
\* thread while it joins the network thread, the callback while it joins.
MutexFree ==
    /\ \A k \in DOMAIN shakes : shakes[k].at = "waits"
    /\ reconnecting # "locked"
    /\ link # Nothing => link.at # "join"

ShakeIs(at) == shakes # <<>> /\ Head(shakes).at = at
ShakeGoesTo(at) == shakes' = <<[Head(shakes) EXCEPT !.at = at]>> \o Tail(shakes)

\* The handshake thread before it was joined.
ShakeLocks ==
    /\ ShakeIs("waits") /\ link = Nothing /\ MutexFree
    /\ ShakeGoesTo("locked")
    /\ UNCHANGED <<phone, net, password, serverPw, saltHex, listen, link, running, network,
                   audio, reconnecting, updating, srtp, heard, env>>

\* The audio thread may find its port in use.
AudioBinds == audio' \in BOOLEAN

\* The socket is opened, running is set, both threads are started.
Open ==
    /\ running' = TRUE /\ network' = "runs"
    /\ AudioBinds

\* The network thread was joined.
ShakeOpens ==
    /\ ShakeIs("locked") /\ network # "runs"
    /\ Open
    /\ ShakeGoesTo("open")
    /\ UNCHANGED <<phone, net, password, serverPw, saltHex, listen, link, reconnecting,
                   updating, srtp, heard, env>>

ShakeOpenFails ==
    /\ ShakeIs("locked") /\ network # "runs"
    /\ network' = "none"
    /\ shakes' = Tail(shakes)
    /\ failed' = TRUE
    /\ UNCHANGED <<phone, net, password, serverPw, saltHex, listen, link, running, audio,
                   reconnecting, updating, srtp, heard, skew, adapters, edits, history>>

\* sendHandshake needs an address of its own.
Reachable == BestLocalIp(adapters) # Empty
Send(pw) == answers' = Append(answers, Answer(BestLocalIp(adapters), pw, ObsNow))

ShakeSends ==
    /\ ShakeIs("open") /\ Reachable
    /\ Send(Head(shakes).password)
    /\ shakes' = Tail(shakes)
    /\ UNCHANGED <<phone, requests, password, serverPw, saltHex, listen, link, running,
                   network, audio, reconnecting, updating, srtp, heard, env>>

\* What sendHandshake returns is not looked at.
ShakeSendFails ==
    /\ ShakeIs("open")
    /\ shakes' = Tail(shakes)
    /\ failed' = TRUE
    /\ UNCHANGED <<phone, net, password, serverPw, saltHex, listen, link, running, network,
                   audio, reconnecting, updating, srtp, heard, skew, adapters, edits, history>>

-----------------------------------------------------------------------------
(***************************************************************************)
(* OBS: the end of the network thread, discovery, and the properties.      *)
(***************************************************************************)
\* It ends in launchReconnectThread: not while the discovery callback's
\* handshake is in progress, nor if there is such a thread.
NetworkThreadEnds ==
    /\ network = "runs" /\ ~running
    /\ network' = "ended"
    /\ reconnecting' = IF link = Nothing /\ reconnecting = "no" THEN "waits" ELSE reconnecting
    /\ UNCHANGED <<phone, net, password, serverPw, saltHex, listen, shakes, link, running,
                   audio, updating, srtp, heard, env>>

ReconnectLocks ==
    /\ reconnecting = "waits" /\ MutexFree
    /\ reconnecting' = "locked"
    /\ UNCHANGED <<phone, net, password, serverPw, saltHex, listen, shakes, link, running,
                   network, audio, updating, srtp, heard, env>>

\* The network thread is joined and discovery resumed.
Reconnect ==
    /\ reconnecting = "locked" /\ network # "runs"
    /\ reconnecting' = "no"
    /\ network' = "none"
    /\ running' = FALSE
    /\ UNCHANGED <<phone, net, password, serverPw, saltHex, listen, shakes, link, audio,
                   updating, srtp, heard, env>>

\* The discovery callback.  A stream that runs is only sent a handshake, by a
\* thread of its own.  Else one is opened, unless a handshake is in progress,
\* and the thread before is joined with op_mutex, for ever if that thread waits
\* for it.  (std::thread ends the program if the network thread was not joined.)
Discovered ==
    /\ MutexFree
    /\ \/ /\ running /\ Reachable
          /\ Send(password)
          /\ UNCHANGED <<link, running, network, audio>>
       \/ /\ ~running /\ link = Nothing /\ network = "none"
          /\ Open
          /\ link' = [password |-> password, at |-> IF shakes = <<>> THEN "send" ELSE "join"]
          /\ UNCHANGED answers
    /\ UNCHANGED <<phone, requests, password, serverPw, saltHex, listen, shakes, reconnecting,
                   updating, srtp, heard, env>>

LinkIs(at) == link # Nothing /\ link.at = at

LinkSends ==
    /\ LinkIs("send") /\ Reachable
    /\ Send(link.password)
    /\ link' = Nothing
    /\ UNCHANGED <<phone, requests, password, serverPw, saltHex, listen, shakes, running,
                   network, audio, reconnecting, updating, srtp, heard, env>>

LinkSendFails ==
    /\ LinkIs("send")
    /\ link' = [link EXCEPT !.at = "tear"]
    /\ failed' = TRUE
    /\ UNCHANGED <<phone, net, password, serverPw, saltHex, listen, shakes, running, network,
                   audio, reconnecting, updating, srtp, heard, skew, adapters, edits, history>>

\* The stream is closed again, its network thread joined.
LinkTearsDown ==
    /\ LinkIs("tear") /\ MutexFree
    /\ link' = Nothing
    /\ running' = FALSE /\ network' = "none"
    /\ UNCHANGED <<phone, net, password, serverPw, saltHex, listen, shakes, audio,
                   reconnecting, updating, srtp, heard, env>>

\* phone_source_update with password p; if it is the same, the port is another.
UpdateStops(p) ==
    /\ ~updating
    /\ edits < MaxEdits /\ edits' = edits + 1
    /\ password' = p
    /\ audioSrtp' = Stopped /\ videoSrtp' = Stopped
    /\ srtpSet' = (srtpSet /\ p # Empty)
    /\ updating' = TRUE
    /\ taken' = FALSE
    /\ UNCHANGED <<phone, net, serverPw, saltHex, listen, shakes, link, running, network,
                   audio, reconnecting, heard, skew, adapters, failed, ahead>>

\* HandshakeServer::setPassword.
SetPassword(p) == serverPw' = p

\* It ends in launchReconnectThread, if a stream ran.
UpdateEnds ==
    /\ updating
    /\ updating' = FALSE
    /\ SetPassword(password)
    /\ running' = FALSE
    /\ reconnecting' = IF running /\ link = Nothing /\ reconnecting = "no"
                       THEN "waits" ELSE reconnecting
    /\ UNCHANGED <<phone, net, password, saltHex, listen, shakes, link, network, audio,
                   srtp, heard, env>>

-----------------------------------------------------------------------------
(***************************************************************************)
(* The stream: one packet of either kind, from the phone to the output.    *)
(***************************************************************************)
Sends == service.state = "streaming" /\ service.ip = Lan

Packet ==
    IF service.sender.context = NoContext THEN NoKey ELSE Protect(service.sender.context)

After(was, outcome) == IF outcome = "dropped" THEN was ELSE outcome

VideoPacket ==
    /\ Sends /\ network = "runs" /\ running
    /\ picture' = After(picture, Received(srtpSet, videoSrtp, Packet))
    /\ UNCHANGED <<phone, net, obs, sound, env>>

AudioPacket ==
    /\ Sends /\ audio
    /\ sound' = After(sound, Received(TRUE, audioSrtp, Packet))
    /\ UNCHANGED <<phone, net, obs, picture, env>>

-----------------------------------------------------------------------------
CallSteps == \E c \in calls : Connect(c) \/ SendRequest(c) \/ (c.ip # Lan /\ CallFails(c))

PhoneSteps ==
    \/ CallSteps
    \/ HandleClient \/ HandshakeJob \/ RedirectStream
    \/ ServiceStarts \/ ServiceConnected \/ Poll

ObsSteps ==
    \/ ListenLoop \/ StopSessions \/ StartSessions
    \/ ShakeLocks \/ ShakeOpens \/ ShakeSends
    \/ NetworkThreadEnds \/ ReconnectLocks \/ Reconnect
    \/ LinkSends \/ LinkTearsDown \/ UpdateEnds
    \/ VideoPacket \/ AudioPacket

User ==
    \/ StartStreaming \/ UpdateIp \/ StopStreaming
    \/ \E p \in Passwords : UpdatePassword(p) \/ UpdateStops(p)

Failures ==
    \/ \E c \in calls : CallFails(c)
    \/ ShakeOpenFails \/ ShakeSendFails \/ LinkSendFails

Next == PhoneSteps \/ ObsSteps \/ Discovered \/ User \/ Failures

\* Every thread goes on, and gets op_mutex if it is free again and again.
Fairness ==
    /\ WF_vars(CallSteps) /\ WF_vars(HandleClient) /\ WF_vars(HandshakeJob)
    /\ WF_vars(RedirectStream) /\ WF_vars(ServiceStarts)
    /\ WF_vars(ServiceConnected) /\ WF_vars(Poll)
    /\ WF_vars(ListenLoop \/ StopSessions \/ StartSessions)
    /\ SF_vars(ShakeLocks) /\ WF_vars(ShakeOpens \/ ShakeSends)
    /\ WF_vars(NetworkThreadEnds) /\ SF_vars(ReconnectLocks) /\ WF_vars(Reconnect)
    /\ WF_vars(LinkSends) /\ SF_vars(LinkTearsDown) /\ WF_vars(UpdateEnds)
    /\ WF_vars(VideoPacket) /\ WF_vars(AudioPacket)

Spec == Init /\ [][Next]_vars /\ Fairness

-----------------------------------------------------------------------------
Keys == [password : Passwords, salt : 0..MaxCalls]
Sessions == [session : Keys \cup {NoKey}, active : BOOLEAN]
Addresses == {BestLocalIp(h) : h \in Hosts} \cup {Lan, "default", Empty}

\* The variables have their types.
TypeOK ==
    /\ {phonePw, password, serverPw} \subseteq Passwords
    /\ {wants, streaming, auto, running, audio, updating, srtpSet, failed, taken, ahead}
          \subseteq BOOLEAN
    /\ network \in {"none", "runs", "ended"} /\ reconnecting \in {"no", "waits", "locked"}
    /\ {target, service.ip} \subseteq Addresses
    /\ {job, redirect} \subseteq Addresses \cup {Nothing}
    /\ calls \subseteq [n : 1..MaxCalls, ip : Addresses, salt : 0..MaxCalls, password : Passwords]
    /\ {called, phoneSalt, saltHex, service.salt} \subseteq 0..MaxCalls
    /\ service.state \in {"none", "starting", "streaming"}
    /\ listen \in [at : {"accept", "stop", "start"}, password : Passwords]
    /\ shakes \in Seq([password : Passwords, at : {"waits", "locked", "open"}])
    /\ link \in [password : Passwords, at : {"send", "tear", "join"}] \cup {Nothing}
    /\ {audioSrtp, videoSrtp} \subseteq Sessions
    /\ \A s \in {audioSrtp, videoSrtp} : s.active <=> s.session # NoKey
    /\ {picture, sound} \subseteq {"none", "clear", "noise"}

\* Both ends of the stream have one key, or neither end has one.
SameKeys ==
    IF service.password = Empty
    THEN ~srtpSet /\ service.sender.context = NoContext /\ ~audioSrtp.active /\ ~videoSrtp.active
    ELSE /\ srtpSet
         /\ {audioSrtp, videoSrtp} = {[session |-> service.sender.context.session, active |-> TRUE]}

\* While the phone streams, both sessions of OBS have the key that the phone
\* encrypts with, if OBS had taken the request when the stream was launched
\* (launchStream gives the service the salt of the last request).  It holds in
\* whatever order discovery, which may call back at any time, links the two
\* sides as well.  A stream that discovery launches before that (ahead) may have
\* a salt that OBS never gets.
KeysAgree == service.state = "streaming" /\ ~ahead => SameKeys

\* Nothing that is still encrypted is shown or played, unless the stream was
\* launched ahead of the request: the receivers take what comes as it is while
\* they have no session.
NothingEncryptedOut == ~ahead => picture # "noise" /\ sound # "noise"

\* No stream starts unless the phone has the password of OBS ("Make sure the
\* password in the app matches this one exactly or the stream won't start!").
OnlySamePassword == service.state # "none" => service.password = password

\* Start leads to a picture if the passwords are the same, the clocks are at
\* most 5 seconds apart, and nothing fails, whenever discovery calls back; but
\* not if it launches the stream ahead of the request, or waits for ever for a
\* handshake thread that waits for op_mutex.
Asked ==
    /\ wants /\ ~streaming /\ phonePw = password /\ skew \in -5..5
    /\ BestLocalIp(adapters) = Lan
    /\ \E c \in calls : c.ip = Lan

\* A change of the properties ends with sessions that have a new key, as
\* phone_source_update says of itself ("The reconnect triggered below will
\* re-handshake with Android, which will provide a fresh salt and start SRTP
\* properly").
UpdateRekeys ==
    (updating /\ password # Empty /\ service.state = "streaming") ~>
        (videoSrtp.active \/ ~wants \/ failed)
=============================================================================
