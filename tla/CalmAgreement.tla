--------------------------- MODULE CalmAgreement ----------------------------
(***************************************************************************)
(* The agreement on a key with a user who lets one thing end before the    *)
(* next begins.                                                            *)
(***************************************************************************)
EXTENDS KeyAgreement

\* No request is under way, in the phone, to OBS or in OBS, and no stream starts.
Idle ==
    /\ calls = {} /\ requests = <<>> /\ listen.at = "accept" /\ shakes = <<>>
    /\ ~updating
    /\ service.state # "none" => streaming

\* Nor is a handshake of OBS.
Quiet == Idle /\ link = Nothing /\ answers = <<>> /\ job = Nothing

\* Bound: what the user does, waits until what the user began has come to its
\* end.  Passwords are changed and an address is typed only while nothing
\* streams.  Discovery calls back at any time.
Calm ==
    /\ StartStreaming => Idle
    /\ UpdateIp => Idle /\ ~streaming
    /\ phonePw' # phonePw => Quiet /\ service = NoService
    /\ updating' /\ ~updating => Quiet /\ service = NoService
CalmSpec == Init /\ [][Next /\ Calm]_vars /\ Fairness
=============================================================================
