---------------------------- MODULE MCSourceAll ----------------------------
(***************************************************************************)
(* A source with everything at once, where the phone either asks for       *)
(* streams, always with one port, or moves between two and asks for none.  *)
(***************************************************************************)
EXTENDS MCPhoneSource

VARIABLE moves        \* the phone moves

MovesOrAsks ==
    /\ UNCHANGED moves
    /\ moves => ~ListenRequest
    /\ ~moves => /\ port' \in {0, DefaultPort}
                 /\ \A t \in Threads : arg'[t] \in {0, DefaultPort}

AllInit == Init /\ moves \in BOOLEAN

AllSpec ==
    /\ AllInit
    /\ [][Next /\ MovesOrAsks]_<<vars, moves>>
=============================================================================
