---------------------------- MODULE SessionStream ----------------------------
(***************************************************************************)
(* What the spec (§5, §6) promises of the push stream and the status cache *)
(* across a session: the stream is tied to an authenticated session, it is *)
(* closed (and not reopened) when the session ends, and the service status *)
(* is only written, from the poll or the stream, within a session; a new   *)
(* session starts from an empty cache.                                     *)
(***************************************************************************)

VARIABLES
    session,        \* "in" (a token is held) or "out"
    conn,           \* the stream connection: "live" (open or reconnecting) or "none"
    cached          \* the service status cache holds a value

absVars == <<session, conn, cached>>

AbsInit ==
    /\ session = "in"
    /\ conn \in {"live", "none"}
    /\ cached = FALSE

\* A session starts; its stream may be opened with it.
StartSession ==
    /\ session = "out"
    /\ session' = "in"
    /\ conn' \in {"live", "none"}
    /\ cached' = FALSE

\* Within a session a connection is opened or ends.
Connect ==
    /\ session = "in"
    /\ conn = "none"
    /\ conn' = "live"
    /\ UNCHANGED <<session, cached>>

Disconnect ==
    /\ conn = "live"
    /\ conn' = "none"
    /\ UNCHANGED <<session, cached>>

\* A status observation (poll answer or pushed message) is stored.
Observe ==
    /\ session = "in"
    /\ cached' = TRUE
    /\ UNCHANGED <<session, conn>>

\* The session ends: the stream is closed and the cache dropped.
EndSession ==
    /\ session = "in"
    /\ session' = "out"
    /\ conn' = "none"
    /\ cached' = FALSE

AbsNext == StartSession \/ Connect \/ Disconnect \/ Observe \/ EndSession

AbsSpec == AbsInit /\ [][AbsNext]_absVars

=============================================================================
