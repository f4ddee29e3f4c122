--------------------------- MODULE MCKeyAgreement ---------------------------
(***************************************************************************)
(* Small instances of the agreement on a key.                              *)
(***************************************************************************)
EXTENDS CalmAgreement, FiniteSets

\* Passwords up to one that is hashed before use and fills a block to the byte
\* where the length has no more room.
MCLength == [name \in Passwords |-> IF name = Empty THEN 0 ELSE IF name = "short" THEN 8 ELSE 120]

Adapter(up, loopback, kinds) ==
    [up |-> up, loopback |-> loopback,
     addresses |-> [k \in DOMAIN kinds |->
         [kind |-> kinds[k], ip |-> IF up /\ ~loopback /\ kinds[k] = "private" THEN Lan ELSE kinds[k]]]]
Loopback == Adapter(TRUE, TRUE, <<"private">>)
MCHosts ==
    {<<Loopback, Adapter(FALSE, FALSE, <<"private">>), Adapter(TRUE, FALSE, <<"link", "private">>)>>,
     <<Loopback, Adapter(TRUE, FALSE, <<"public", "link", "global">>)>>,
     <<Loopback>>}
MCSkews == {-6, 0, 10}
NoSkew == {0}
OneHost == {<<Adapter(TRUE, FALSE, <<"private">>)>>}

Ones(conditions) == Cardinality({k \in DOMAIN conditions : conditions[k]})

\* Bound: the two sides begin with one password, find each other by discovery,
\* have one time and an address that can be used, but for one of these at most.
\* A third password comes in by an edit, when only the passwords may differ.
Plain == auto /\ skew = 0 /\ BestLocalIp(adapters) = Lan
MCInit ==
    /\ Init
    /\ {phonePw, password} \subseteq {Empty, "long"}
    /\ Ones(<<{phonePw, password} # {"long"}, ~auto \/ target # Lan, skew # 0,
              BestLocalIp(adapters) # Lan>>) <= 1
EditsWhenPlain == edits' # edits => Plain

\* Bound: one handshake at a time is on its way to the phone or handled there.
\* The audio port is free.
InUse(v) == IF v = Nothing THEN 0 ELSE 1
FewAnswers == Len(answers') + InUse(job') + InUse(redirect') <= 1
AudioPortFree == network' = "runs" => audio'

\* Bound: what is shown and played of a stream that was launched ahead of the
\* request is not followed, since nothing is said of it.
NotFollowed == ahead => picture' \in {picture, "none"} /\ sound' \in {sound, "none"}

Bounds == EditsWhenPlain /\ FewAnswers /\ AudioPortFree /\ NotFollowed
MCSpec == MCInit /\ [][Next /\ Calm /\ Bounds]_vars /\ Fairness

\* The properties are changed while the phone streams, and OBS finds it again.
CalmWithUpdate ==
    /\ StartStreaming => Quiet
    /\ UpdateIp => FALSE
    /\ phonePw' # phonePw => updating
    /\ updating' /\ ~updating => Quiet /\ streaming
    /\ Discovered => (~wants /\ Quiet) \/ streaming
    /\ FewAnswers
UpdateSpec == Init /\ [][Next /\ CalmWithUpdate]_vars /\ Fairness /\ WF_vars(Discovered /\ CalmWithUpdate)
=============================================================================
