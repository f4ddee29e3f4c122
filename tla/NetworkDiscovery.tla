-------------------------- MODULE NetworkDiscovery --------------------------
(***************************************************************************)
(* NetworkDiscovery.kt: the phone registers its service with Android's     *)
(* NsdManager, which reports the end of a registration later.  Each        *)
(* registration has a listener object of its own, numbered in order.       *)
(* restartAdvertising has no caller.                                       *)
(***************************************************************************)
EXTENDS Naturals

CONSTANTS
    MaxRegs,       \* bound: registrations
    TargetPorts    \* ports the user may have set

VARIABLES
    listener,      \* registrationListener; 0: null
    regs,          \* what NsdManager knows of each registration
    wanted         \* the port of the last startAdvertising; 0 after stop

nvars == <<listener, regs, wanted>>

Regs == 1..MaxRegs

\* updatePort takes no port 0.
ASSUME PortAssumption == MaxRegs \in Nat /\ TargetPorts \subseteq Nat \ {0}

NetworkInit ==
    /\ listener = 0
    /\ regs = [r \in Regs |-> [port |-> 0, state |-> "unused"]]
    /\ wanted = 0

\* Mutant: the listener is kept until onServiceUnregistered.
StopAdvertisingKeepsListener ==
    [listener |-> listener,
     regs |-> IF listener = 0 THEN regs
              ELSE [regs EXCEPT ![listener].state = "unregistering"]]

\* stopAdvertising() does not wait for NsdManager.
StopAdvertising ==
    [listener |-> 0,
     regs |-> IF listener = 0 THEN regs
              ELSE [regs EXCEPT ![listener].state = "unregistering"]]

\* Both calls of StreamViewModel.updateIp and toggleDiscoveryMode, one after
\* the other on the main thread; at the start of the app, stop has no effect.
Advertise(p) ==
    /\ wanted' = p
    /\ LET s == StopAdvertising
           free == {r \in Regs : s.regs[r].state = "unused"} IN
       IF s.listener # 0     \* "Already advertising"
       THEN listener' = s.listener /\ regs' = s.regs
       ELSE \E r \in free :
               /\ \A q \in free : r <= q
               /\ listener' = r
               /\ regs' = [s.regs EXCEPT ![r] = [port |-> p, state |-> "registered"]]

\* onCleared.
Withdraw ==
    /\ wanted # 0
    /\ wanted' = 0
    /\ listener' = StopAdvertising.listener
    /\ regs' = StopAdvertising.regs

\* The listener of the registration sets registrationListener to null, which
\* by then may be another one.
OnServiceUnregistered ==
    /\ \E r \in Regs :
          /\ regs[r].state = "unregistering"
          /\ regs' = [regs EXCEPT ![r].state = "gone"]
    /\ listener' = 0
    /\ UNCHANGED wanted

NetworkNext ==
    \/ \E p \in TargetPorts : Advertise(p)
    \/ Withdraw
    \/ OnServiceUnregistered
=============================================================================
