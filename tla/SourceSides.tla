---------------------------- MODULE SourceSides ----------------------------
(***************************************************************************)
(* A source that is used from one side only: either it finds the phone by  *)
(* mDNS, or the phone asks, each time after its last request was served.   *)
(***************************************************************************)
EXTENDS PhoneSource

VARIABLE found        \* the source finds the phone

ASideAtATime ==
    /\ UNCHANGED found
    /\ CallDisc => found
    /\ ListenRequest => ~found /\ \A s \in Shakes : pc[s] \in {"free", "done"}

SideInit == Init /\ found \in BOOLEAN

SideSpec ==
    /\ SideInit
    /\ [][Next /\ ASideAtATime]_<<vars, found>>
    /\ Fairness
=============================================================================
