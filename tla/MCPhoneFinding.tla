--------------------------- MODULE MCPhoneFinding ---------------------------
(***************************************************************************)
(* A host with a loopback adapter, a virtual one and the local network.    *)
(***************************************************************************)
EXTENDS PhoneFinding

Adapter(net) == [net |-> net, loopback |-> net = "loopback", up |-> TRUE, local |-> FALSE]
HostAdapters == <<Adapter("loopback"), Adapter("vm"), Adapter("lan")>>

MCNames == <<"PhoneWebcam", "PhoneWebcam (2)", "PhoneWebcam (3)">>

\* Two sets of registrations that a phone can have: the one it starts with, and
\* what is left after its port was changed twice.
Reg(p, s) == [port |-> p, state |-> s]
FirstRegs == <<Reg(9000, "registered"), Reg(0, "unused"), Reg(0, "unused")>>
LaterRegs == <<Reg(9000, "gone"), Reg(9000, "registered"), Reg(9002, "registered")>>

\* What other threads do while a datagram is worked on is as if it was done
\* before or after, where the thread does not look at it.  Bound: the phone
\* changes its registrations only while OBS is not looking for it, and OBS
\* looks with one of the two sets above.
Undisturbed ==
    /\ pc \in {"records", "accept1", "accept2", "lookup", "call", "called"} => UNCHANGED mrunning
    /\ pc \in {"records", "call"} => UNCHANGED clearing
    /\ pc # "free" => UNCHANGED nvars
    /\ pc = "free" /\ pc' # "free" => regs \in {FirstRegs, LaterRegs}
MCSpec == Init /\ [][Next /\ Undisturbed]_vars /\ Fairness
=============================================================================
