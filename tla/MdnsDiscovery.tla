---------------------------- MODULE MdnsDiscovery ----------------------------
(***************************************************************************)
(* mdns-discovery.cpp: the thread that looks for the phone.                *)
(*                                                                         *)
(*   pc = "free"      no thread                                            *)
(*        "open"      before its socket                                    *)
(*        "select"    at the top of its loop, waiting for a datagram       *)
(*        "records"   at the record number at of the response msg          *)
(*        "accept1", "accept2"  storing the service it accepted            *)
(*        "lookup"    in getaddrinfo, for an SRV without an A record       *)
(*        "call"      the callback has begun; "called": it has paused us   *)
(*        "done"      it ended and was not joined                          *)
(*                                                                         *)
(* The other threads call start, stop, resume and resetDiscoveryState;     *)
(* clearing is where one of the last two is.  Time passes while the thread *)
(* waits for a datagram, for getaddrinfo or for the callback, in units of  *)
(* 2 seconds: a query is due after one (the code: half of one), another    *)
(* service may be accepted after one, the same after three.                *)
(***************************************************************************)
EXTENDS DnsMessage

CONSTANTS
    Adapters,      \* of the OBS host, in the order Windows lists them
    NoService,     \* no hostname was accepted
    PhoneNet       \* the interface of the network that the phone is on

VARIABLES
    pc, mrunning, mpaused, clearing,
    lastHost, lastPort,    \* last_service_hostname_, last_service_port_
    age,                   \* time since last_service_time_, at most StaleAfter
    sinceQuery,            \* time since lastQuery, at most 1
    joined, out,           \* interfaces the group was joined on; the one
                           \* that queries leave by
    asked,                 \* names asked for that the phone may still answer
    msg, rrs, at,          \* the response in work, its records, the next
    port, targetHost, ours, handled,   \* locals of the loop body; ours is
                                       \* srvIsPhoneWebcam
    callIp                 \* what the callback is called with, beside port

mflags == <<mrunning, mpaused, clearing>>
last == <<lastHost, lastPort, age>>
sock == <<joined, out>>
body == <<msg, rrs, at, port, targetHost, ours, handled, callIp>>
mvars == <<pc, mflags, last, sinceQuery, sock, asked, body>>

StaleAfter == 3      \* 6 s
Debounce == 1        \* DEBOUNCE_MS

\* A message: who sent it, the records the sender put in, those we read in it.
Message(sender, questions, records, packed) ==
    [from |-> sender, rrs |-> records,
     read |-> ReadRecords(Encode(questions, records, packed), Len(questions), Len(records))]
NoMsg == Message("nobody", <<>>, <<>>, FALSE)

\* Mutant: the port outlives the datagram.
BodyStartsKeepsPort ==
    /\ msg' = NoMsg /\ rrs' = <<>> /\ at' = 1
    /\ targetHost' = <<>> /\ ours' = FALSE /\ handled' = FALSE
    /\ callIp' = "none"
    /\ UNCHANGED port

\* The locals of the loop body, before a datagram is in.
BodyStarts ==
    /\ msg' = NoMsg /\ rrs' = <<>> /\ at' = 1
    /\ port' = 0 /\ targetHost' = <<>> /\ ours' = FALSE /\ handled' = FALSE
    /\ callIp' = "none"

MdnsInit ==
    /\ pc = "free" /\ mrunning = FALSE /\ mpaused = FALSE /\ clearing = "no"
    /\ lastHost = NoService /\ lastPort = 0 /\ age = StaleAfter /\ sinceQuery = 1
    /\ joined = {} /\ out = "none"
    /\ asked = {}
    /\ msg = NoMsg /\ rrs = <<>> /\ at = 1
    /\ port = 0 /\ targetHost = <<>> /\ ours = FALSE /\ handled = FALSE
    /\ callIp = "none"

-----------------------------------------------------------------------------
(***************************************************************************)
(* What other threads do.                                                  *)
(***************************************************************************)
\* start(): not while running_, even if the thread is gone.
StartDiscovery ==
    /\ ~mrunning /\ pc \in {"free", "done"}
    /\ mrunning' = TRUE
    /\ pc' = "open"
    /\ UNCHANGED <<mpaused, clearing, last, sinceQuery, sock, asked, body>>

StopDiscovery ==
    /\ mrunning
    /\ mrunning' = FALSE
    /\ UNCHANGED <<pc, mpaused, clearing, last, sinceQuery, sock, asked, body>>

\* The rest of stop(); the destructor of the source goes on to delete us.
JoinDiscovery ==
    /\ ~mrunning /\ pc = "done"
    /\ pc' = "free"
    /\ mpaused' = FALSE /\ clearing' = "no" /\ asked' = {}
    /\ lastHost' = NoService /\ lastPort' = 0 /\ age' = StaleAfter /\ sinceQuery' = 1
    /\ joined' = {} /\ out' = "none"
    /\ UNCHANGED <<mrunning, body>>

\* The host is cleared first, without a lock, then the port.
ClearHost(by) ==
    /\ pc # "free" /\ clearing = "no"
    /\ lastHost' = NoService
    /\ clearing' = by
    /\ UNCHANGED <<pc, mrunning, mpaused, lastPort, age, sinceQuery, sock, asked, body>>

ClearPort ==
    /\ clearing # "no"
    /\ lastPort' = 0
    /\ mpaused' = (mpaused /\ clearing = "reset")
    /\ clearing' = "no"
    /\ UNCHANGED <<pc, mrunning, lastHost, age, sinceQuery, sock, asked, body>>

-----------------------------------------------------------------------------
(***************************************************************************)
(* The thread.                                                             *)
(***************************************************************************)
\* Adapters worth joining on: not loopback, up, not 127.x.
Lan == SelectSeq(Adapters, LAMBDA a : ~a.loopback /\ a.up /\ ~a.local)

\* Queries leave by the first one that was joined.  With none, Windows picks
\* the loopback interface.
OpenSocket ==
    /\ pc = "open"
    /\ \/ \* socket or bind failed; mrunning stays
          pc' = "done" /\ UNCHANGED sock
       \/ \E ok \in SUBSET (1..Len(Lan)) :
             /\ joined' = IF ok = {} THEN {"loopback"} ELSE {Lan[i].net : i \in ok}
             /\ out' = IF ok = {} THEN "loopback" ELSE Lan[Min(ok)].net
             /\ pc' = "select"
    /\ sinceQuery' = 0
    /\ UNCHANGED <<mflags, last, asked, body>>

\* A question that does not leave by the phone's network is lost.
Ask(name) == IF out = PhoneNet THEN asked \cup {name} ELSE asked

QueryDue == ~mpaused /\ sinceQuery = 1

Query ==
    /\ pc = "select" /\ mrunning /\ QueryDue
    /\ asked' = Ask(ServiceType)
    /\ sinceQuery' = 0
    /\ UNCHANGED <<pc, mflags, last, sock, body>>

\* A datagram, paused or not; queries of others are skipped.  One that comes
\* while the thread works waits in the socket, as if it came later.
TakeResponse(m) ==
    /\ pc = "select" /\ mrunning /\ ~QueryDue
    /\ IF m.rrs = <<>> THEN UNCHANGED <<pc, body>>
       ELSE /\ pc' = "records"
            /\ msg' = m
            /\ rrs' = m.read
            /\ UNCHANGED <<at, port, targetHost, ours, handled, callIp>>
    /\ UNCHANGED <<mflags, last, sinceQuery, sock>>

LeaveLoop ==
    /\ pc = "select" /\ ~mrunning
    /\ pc' = "done"
    /\ UNCHANGED <<mflags, last, sinceQuery, sock, asked, body>>

AtRecord(type) == pc = "records" /\ at <= Len(rrs) /\ rrs[at].type = type

\* Mutant: the SRV is not asked for.
ReadPtrWaits ==
    /\ AtRecord("PTR")
    /\ at' = at + 1
    /\ UNCHANGED <<pc, mflags, last, sinceQuery, sock, asked, msg, rrs,
                   port, targetHost, ours, handled, callIp>>

\* A PTR of our type: ask for the SRV of its target at once.
ReadPtr ==
    /\ AtRecord("PTR")
    /\ LET rr == rrs[at] IN
       asked' = IF rr.target # <<>> /\ rr.name = ServiceType
                THEN Ask(rr.target)
                ELSE asked
    /\ at' = at + 1
    /\ UNCHANGED <<pc, mflags, last, sinceQuery, sock, msg, rrs,
                   port, targetHost, ours, handled, callIp>>

OurType(name) == \E i \in 1..Len(name) - 2 : SubSeq(name, i, i + 2) = ServiceType

\* Mutant: one SRV of ours vouches for the next.
ReadSrvTrusts ==
    /\ AtRecord("SRV")
    /\ LET rr == rrs[at] IN
       /\ port' = rr.port
       /\ targetHost' = rr.target
       /\ ours' = (ours \/ OurType(rr.name))
    /\ at' = at + 1
    /\ UNCHANGED <<pc, mflags, last, sinceQuery, sock, asked, msg, rrs,
                   handled, callIp>>

\* Every SRV replaces what the one before it said.
ReadSrv ==
    /\ AtRecord("SRV")
    /\ LET rr == rrs[at] IN
       /\ port' = rr.port
       /\ targetHost' = rr.target
       /\ ours' = OurType(rr.name)
    /\ at' = at + 1
    /\ UNCHANGED <<pc, mflags, last, sinceQuery, sock, asked, msg, rrs,
                   handled, callIp>>

\* An A record of that target is accepted whatever was accepted before.
ReadA ==
    /\ AtRecord("A")
    /\ LET rr == rrs[at] IN
       IF rr.name = targetHost /\ ours /\ port > 0
       THEN pc' = "accept1" /\ handled' = TRUE /\ callIp' = rr.ip
       ELSE UNCHANGED <<pc, handled, callIp>>
    /\ at' = at + 1
    /\ UNCHANGED <<mflags, last, sinceQuery, sock, asked, msg, rrs,
                   port, targetHost, ours>>

ReadOther ==
    /\ AtRecord("other")
    /\ at' = at + 1
    /\ UNCHANGED <<pc, mflags, last, sinceQuery, sock, asked, msg, rrs,
                   port, targetHost, ours, handled, callIp>>

\* Mutant: a service that goes on being advertised is let through every 2 s.
SuppressedBriefly == age < Debounce /\ lastHost # NoService

Suppressed ==
    \/ targetHost = lastHost /\ port = lastPort /\ age < StaleAfter
    \/ lastHost # NoService /\ age < Debounce

\* After the records: an SRV that no A record followed.
AfterRecords ==
    /\ pc = "records" /\ at > Len(rrs)
    /\ IF port > 0 /\ ~handled /\ ours /\ ~Suppressed
       THEN pc' = "accept1" /\ UNCHANGED body
       ELSE pc' = "select" /\ BodyStarts
    /\ UNCHANGED <<mflags, last, sinceQuery, sock, asked>>

AcceptHost ==
    /\ pc = "accept1"
    /\ lastHost' = targetHost
    /\ pc' = "accept2"
    /\ UNCHANGED <<mflags, lastPort, age, sinceQuery, sock, asked, body>>

\* An A record has the address; without one it is looked up.
AcceptPort ==
    /\ pc = "accept2"
    /\ lastPort' = port
    /\ age' = 0
    /\ pc' = IF handled THEN "call" ELSE "lookup"
    /\ UNCHANGED <<mflags, lastHost, sinceQuery, sock, asked, body>>

\* The first IPv4 address, else the first IPv6 one, else the sender's; found
\* is <<>> also when the lookup failed.
Resolve(found, sender) ==
    LET of(f) == SelectSeq(found, LAMBDA r : r.family = f) IN
    IF of("v4") # <<>> THEN Head(of("v4")).ip
    ELSE IF of("v6") # <<>> THEN Head(of("v6")).ip ELSE sender

\* getaddrinfo returns, after any time.
Lookup(found) ==
    /\ pc = "lookup"
    /\ callIp' = Resolve(found, msg.from)
    /\ pc' = "call"
    /\ UNCHANGED <<mflags, last, sinceQuery, sock, asked, msg, rrs, at,
                   port, targetHost, ours, handled>>

\* The callback pauses discovery first, and does no more if the source is
\* being destroyed.
CallbackPauses ==
    /\ pc = "call"
    /\ mpaused' = TRUE
    /\ pc' = "called"
    /\ UNCHANGED <<mrunning, clearing, last, sinceQuery, sock, asked, body>>

\* It may call resume itself (a socket that does not open), by ClearHost.
CallbackEnds ==
    /\ pc = "called"
    /\ IF handled THEN pc' = "records" /\ UNCHANGED body
                  ELSE pc' = "select" /\ BodyStarts
    /\ UNCHANGED <<mflags, last, sinceQuery, sock, asked>>

Tick ==
    /\ pc \in {"select", "lookup", "called"}
    /\ sinceQuery = 0 \/ age < StaleAfter
    /\ age' = IF age < StaleAfter THEN age + 1 ELSE StaleAfter
    /\ sinceQuery' = 1
    /\ UNCHANGED <<pc, mflags, lastHost, lastPort, sock, asked, body>>

ThreadNext(found) ==
    \/ OpenSocket
    \/ Query
    \/ LeaveLoop
    \/ ReadPtr
    \/ ReadSrv
    \/ ReadA
    \/ ReadOther
    \/ AfterRecords
    \/ AcceptHost
    \/ AcceptPort
    \/ Lookup(found)
    \/ CallbackPauses
    \/ CallbackEnds

\* resume also while the callback runs, from the thread that runs it.
OthersNext ==
    \/ StartDiscovery
    \/ StopDiscovery
    \/ JoinDiscovery
    \/ \E by \in {"reset", "resume"} : ClearHost(by)
    \/ ClearPort
=============================================================================
