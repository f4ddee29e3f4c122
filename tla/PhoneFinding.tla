---------------------------- MODULE PhoneFinding ----------------------------
(***************************************************************************)
(* Discovery over the local network: the phone's NetworkDiscovery, the     *)
(* multicast messages of it and of other devices, and MdnsDiscovery in     *)
(* OBS.  The answers are those that Android's responder makes.             *)
(***************************************************************************)
EXTENDS MdnsDiscovery, NetworkDiscovery

CONSTANT InstanceName      \* of each registration, which Android may have renamed

VARIABLES
    quiet,       \* time since a service was last accepted, at most StaleAfter,
                 \* as it is also when what was accepted was cleared since
    lastTaken    \* that service, while quiet < StaleAfter

vars == <<mvars, nvars, quiet, lastTaken>>

Host == <<"phone", "local">>
Instance(r) == <<InstanceName[r]>> \o ServiceType
Adb == <<"adb", "_adb-tls-connect", "_tcp", "local">>
AdbPort == 1

OurPtr(r) == PTR(ServiceType, Instance(r))
OurSrv(r, p) == SRV(Instance(r), Host, p)
AdbSrv == SRV(Adb, Host, AdbPort)
AdbPtr == PTR(<<"_adb-tls-connect", "_tcp", "local">>, Adb)
Wifi == A(Host, "wifi")
Vpn == A(Host, "vpn")

\* What the responder sends for registration r with port p: to the question q,
\* to others (with other services of the phone), and what is not ours.  Names
\* end in pointers where they can, if there is more than one record.
Sent(q, r, p) ==
    CASE q = ServiceType -> {<<OurPtr(r)>>, <<OurPtr(r), OurSrv(r, p), Other(Host), Wifi>>}
      [] q = Instance(r) -> {<<OurSrv(r, p)>>, <<OurSrv(r, p), Wifi>>}
      [] OTHER -> {<<OurSrv(r, p)>>, <<OurSrv(r, p), AdbSrv, Wifi>>, <<AdbSrv, Wifi, OurSrv(r, p)>>,
                   <<OurSrv(r, p), Wifi, Vpn>>, <<>>, <<AdbSrv, Wifi>>, <<AdbPtr>>}

Unasked == <<>>
Repeated(q) == IF q = ServiceType THEN <<q>> ELSE <<>>

\* Every message there may be.
Responses ==
    UNION {{[reg |-> r, port |-> p, question |-> q,
             message |-> Message("sender", Repeated(q), rs, Len(rs) > 1)] : rs \in Sent(q, r, p)} :
              r \in Regs, p \in TargetPorts, q \in {Unasked, ServiceType} \cup {Instance(s) : s \in Regs}}

Advertised == {r \in Regs : regs[r].state \in {"registered", "unregistering"}}

\* The group was joined on the network of the phone.
Respond(r, q, response) ==
    /\ response.question = q /\ response.reg = r /\ response.port = regs[r].port
    /\ PhoneNet \in joined
    /\ TakeResponse(response.message)
    /\ UNCHANGED nvars

Answer ==
    /\ pc = "select"
    /\ \E q \in asked, r \in Advertised : \E response \in Responses :
          /\ Respond(r, q, response)
          /\ asked' = asked \ {q}

Announce ==
    /\ pc = "select"
    /\ \E r \in Advertised : \E response \in Responses : Respond(r, Unasked, response)
    /\ UNCHANGED asked

\* A question or its answer, at a time when the answer could have come.
LoseQuery ==
    /\ pc = "select" /\ ~QueryDue
    /\ \E q \in asked : asked' = asked \ {q}
    /\ UNCHANGED <<pc, mflags, last, sinceQuery, sock, body, nvars>>

Lookups == {<<>>, <<[family |-> "v6", ip |-> "ip6"], [family |-> "v4", ip |-> "wifi"]>>,
            <<[family |-> "v6", ip |-> "ip6"]>>}

Thread == (\E found \in Lookups : ThreadNext(found)) /\ UNCHANGED nvars

-----------------------------------------------------------------------------
Init ==
    /\ MdnsInit
    /\ NetworkInit
    /\ quiet = StaleAfter /\ lastTaken = <<>>

\* The service and its time are on record from here on, before its name is looked up.
Accepts == pc = "accept2" /\ pc' # "accept2"

\* What is accepted is recorded.
ThreadSteps ==
    /\ Thread
    /\ IF Accepts THEN /\ quiet' = IF lastHost = NoService THEN StaleAfter ELSE 0
                       /\ lastTaken' = IF quiet' < StaleAfter THEN <<targetHost, port>> ELSE <<>>
                  ELSE UNCHANGED <<quiet, lastTaken>>

Clears ==
    /\ (\E by \in {"reset", "resume"} : ClearHost(by)) \/ ClearPort
    /\ quiet' = StaleAfter
    /\ lastTaken' = IF quiet' < StaleAfter THEN lastTaken ELSE <<>>
    /\ UNCHANGED nvars

TimePasses ==
    /\ Tick
    /\ quiet' = IF quiet < StaleAfter THEN quiet + 1 ELSE StaleAfter
    /\ lastTaken' = IF quiet' < StaleAfter THEN lastTaken ELSE <<>>
    /\ UNCHANGED nvars

Controls ==
    /\ \/ (StartDiscovery \/ StopDiscovery) /\ UNCHANGED <<quiet, lastTaken>>
       \/ JoinDiscovery /\ quiet' = StaleAfter /\ lastTaken' = <<>>
    /\ UNCHANGED nvars

PhoneSteps == NetworkNext /\ UNCHANGED <<mvars, quiet, lastTaken>>

NetworkSteps ==
    /\ Answer \/ Announce \/ LoseQuery
    /\ UNCHANGED <<quiet, lastTaken>>

Next ==
    \/ ThreadSteps
    \/ Clears
    \/ TimePasses
    \/ Controls
    \/ PhoneSteps
    \/ NetworkSteps

Spec == Init /\ [][Next]_vars

\* The thread runs, and time passes while it waits again and again.  What is
\* cleared is cleared to the end.  A question that is asked again and again is
\* answered at last, in the shortest way and also at a time when nothing was
\* accepted for 6 seconds.
Answered(r, q) ==
    /\ pc = "select" /\ r \in Advertised /\ q \in asked
    /\ \E response \in Responses :
          /\ Len(response.message.rrs) = 1
          /\ q = ServiceType \/ age = StaleAfter
          /\ Respond(r, q, response)
    /\ asked' = asked \ {q}
    /\ UNCHANGED <<quiet, lastTaken>>

Fairness ==
    /\ WF_vars(ThreadSteps)
    /\ SF_vars(TimePasses)
    /\ WF_vars(ClearPort /\ Clears)
    /\ SF_vars(\E r \in Regs : Answered(r, ServiceType))
    /\ SF_vars(\E r \in Regs : Answered(r, Instance(r)))

FairSpec == Spec /\ Fairness

-----------------------------------------------------------------------------
TypeOK ==
    /\ pc \in {"free", "open", "select", "records", "accept1", "accept2",
               "lookup", "call", "called", "done"}
    /\ {mrunning, mpaused, ours, handled} \subseteq BOOLEAN
    /\ clearing \in {"no", "reset", "resume"}
    /\ lastHost \in {NoService, Host} /\ age \in 0..StaleAfter /\ sinceQuery \in 0..1
    /\ {lastPort, port} \subseteq TargetPorts \cup {0, AdbPort}
    /\ (targetHost = Host) = (port # 0)
    /\ at \in 1..Len(rrs)+1
    /\ listener \in 0..MaxRegs /\ wanted \in TargetPorts \cup {0}
    /\ quiet \in 0..StaleAfter

\* The parser gets the records out of a response that the responder put into
\* it, with names that end in pointers and with questions before them
\* (readDnsName, and the offset of each record behind the one before).
ParsesMessages == rrs = msg.rrs

\* The callback is given the port of an SRV record of our service type, and
\* the address of an A record of that SRV's target, not of a service that
\* was in the same message ("Only trust this SRV if it's under our service
\* type", mdns-discovery.cpp:357).
OnlyOurs ==
    pc = "call" =>
        /\ \E r \in Advertised \cup {q \in Regs : regs[q].state = "gone"} :
              /\ OurSrv(r, regs[r].port) \in {msg.rrs[i] : i \in 1..Len(msg.rrs)}
              /\ port = regs[r].port
        /\ handled => A(targetHost, callIp) \in {msg.rrs[i] : i \in 1..Len(msg.rrs)}

\* However often the phone repeats its SRV record, one without an A record is
\* not accepted within 2 seconds of the last service, and not the same service
\* within 6, whatever an A record made the thread accept in between and however
\* long getaddrinfo and the callback took, unless discovery was reset or
\* resumed ("If a previous service was accepted very recently, debounce rapid
\* changes", mdns-discovery.cpp:397).  It is not about the callbacks: each
\* comes when its lookup is done, and may follow the one before at once.
Debounced ==
    [][Accepts /\ ~handled =>
          /\ quiet >= Debounce
          /\ lastTaken = <<targetHost, port>> => quiet >= StaleAfter]_vars

\* A thread that looks for the phone, on the network where the phone answers,
\* finds it: it does not look for ever, whatever was accepted before, and
\* also after it was resumed.
Looking == pc = "select" /\ ~mpaused /\ out = PhoneNet /\ Advertised # {}
FindsPhone == Looking ~> (~mrunning \/ mpaused \/ pc = "call" \/ Advertised = {})

\* In whatever order NsdManager reports the end of old registrations, the port
\* that was set last is advertised (NetworkDiscovery.kt:26 returns early while
\* it has a listener).
WantedAdvertised ==
    wanted # 0 => \E r \in Regs : regs[r] = [port |-> wanted, state |-> "registered"]
=============================================================================
