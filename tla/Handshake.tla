------------------------------ MODULE Handshake ------------------------------
(***************************************************************************)
(* The messages of the handshake on port 9001 and who accepts them:        *)
(* handshake-server.cpp and handshake-client.cpp in OBS, HandshakeServer.kt*)
(* and initiateHandshake on the phone.  A message is a record with the     *)
(* fields of the JSON object.                                              *)
(***************************************************************************)
EXTENDS Auth, Integers

CONSTANTS Passwords,     \* names of passwords; "" is none
          Length         \* of each password, in bytes

ASSUME PasswordAssumption ==
    Length \in [Passwords -> Nat] /\ \A p \in Passwords \ {Empty} : Length[p] > 0

\* A password's bytes in UTF-8, and those of a challenge.
Utf8(name) == [k \in 1..Length[name] |-> <<"char", name, k>>]
Challenge == [k \in 1..32 |-> <<"random", k>>]

\* The code of a password's authentication on each side.  A message has the
\* name of the password it was computed with.
ObsHmac == [name \in Passwords |-> ToHex(HmacSha256(Utf8(name), FromHex(ToHex(Challenge))))]
PhoneHmac == [name \in Passwords |-> ToHex(JavaHmac(Utf8(name), Challenge))]
Equal ==
    UNION {{<<name, same>> : same \in {p \in Passwords : PhoneHmac[p] = ObsHmac[name]}} : name \in Passwords}

Has(message, field) == field \in DOMAIN message

-----------------------------------------------------------------------------
\* What the phone sends, at a time of its clock.
Request(password, salt, now) ==
    IF password # Empty
    THEN [request |-> "handshake", challenge |-> "random", hmac |-> password, ts |-> now, salt |-> salt]
    ELSE [request |-> "handshake", ts |-> now, salt |-> salt]

\* What OBS answers, from HandshakeClient.
Answer(ip, password, now) ==
    IF password # Empty
    THEN [ip |-> ip, ts |-> now, challenge |-> "random", hmac |-> password]
    ELSE [ip |-> ip, ts |-> now]

\* At most 5 seconds of the future, at most 30 of the past.
Timely(message, now) == now - message.ts >= -5 /\ now - message.ts <= 30

-----------------------------------------------------------------------------
\* Authentication in the listen loop.
Authentic(message, password) ==
    \/ password = Empty
    \/ /\ Has(message, "challenge") /\ Has(message, "hmac")
       /\ <<password, message.hmac>> \in Equal

ObsAccepts(message, password, now) ==
    /\ Has(message, "request")
    /\ Authentic(message, password)
    /\ Timely(message, now)
    /\ Has(message, "salt")

\* Mutant: what has no token is let through.
TokenIfAny(message, password) ==
    Has(message, "hmac") => password # Empty /\ <<message.hmac, password>> \in Equal

\* handleClient: both sides have the password, or neither has one.
Token(message, password) ==
    \/ password # Empty /\ Has(message, "hmac") /\ <<message.hmac, password>> \in Equal
    \/ password = Empty /\ ~Has(message, "hmac")

PhoneAccepts(message, password, now) == Timely(message, now) /\ Token(message, password)

-----------------------------------------------------------------------------
(***************************************************************************)
(* getBestLocalIp.  An adapter is up or not, loopback or not, and has      *)
(* addresses of a kind: "private" and "public" are of IPv4, "link" is      *)
(* link-local of IPv6, "global" is of IPv6.                                *)
(***************************************************************************)
First(places) ==
    CHOOSE p \in places : \A q \in places : p[1] < q[1] \/ (p[1] = q[1] /\ p[2] <= q[2])

BestLocalIp(adapters) ==
    LET usable == {a \in DOMAIN adapters : adapters[a].up /\ ~adapters[a].loopback}
        at(p) == adapters[p[1]].addresses[p[2]]
        places(kind) == {p \in usable \X (1..4) :
                            p[2] \in DOMAIN adapters[p[1]].addresses /\ at(p).kind = kind}
    IN IF places("private") # {} THEN at(First(places("private"))).ip
       ELSE IF places("link") # {} THEN at(First(places("link"))).ip
       ELSE Empty
=============================================================================
