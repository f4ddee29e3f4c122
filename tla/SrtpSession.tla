----------------------------- MODULE SrtpSession -----------------------------
(***************************************************************************)
(* The two ends of SRTP: srtp-session.cpp in OBS and srtp_jni.cpp under the*)
(* phone's SrtpContext.  A packet is known by the key that protects it,    *)
(* NoKey if none does; libsrtp's own state is out of the model.            *)
(***************************************************************************)
EXTENDS Auth

CONSTANTS NoKey, NoContext

\* PBKDF2 of the password and the salt, on both sides with 7000 rounds.
DeriveKeys(password, salt) == [password |-> password, salt |-> salt]

-----------------------------------------------------------------------------
\* OBS: session_ with its master_key_, and active_.
NewSession == [session |-> NoKey, active |-> FALSE]

\* Mutant: active_ is left as it is.
StoppedActive == [session |-> NoKey, active |-> TRUE]

\* stop(): the session is deallocated.
Stopped == [session |-> NoKey, active |-> FALSE]

\* start(): stop() and, with a password, a session for any incoming stream.
Started(password, salt) ==
    IF password = Empty THEN Stopped
    ELSE [session |-> DeriveKeys(password, salt), active |-> TRUE]

\* -1 for a packet that does not authenticate.
Unprotect(srtp, packet) ==
    IF srtp.active /\ srtp.session # NoKey /\ packet = srtp.session
    THEN "clear" ELSE "dropped"

\* The receiver of a packet, which unprotects only with a session in use.  What
\* is encrypted is taken for a packet as it is.
Received(used, srtp, packet) ==
    IF used /\ srtp.active THEN Unprotect(srtp, packet)
    ELSE IF packet = NoKey THEN "clear" ELSE "noise"

-----------------------------------------------------------------------------
\* The phone: what nativePtr points to, an SrtpSession with a key, once it has
\* been initialised; an older key is deallocated.
InitContext(key) == [session |-> key]
CloseNative(context) == NoContext

\* The key of the packet that leaves; without a session there is no packet.
Protects(context) == context # NoContext /\ context.session # NoKey
Protect(context) == context.session
=============================================================================
