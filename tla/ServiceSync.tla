---------------------------- MODULE ServiceSync ----------------------------
(***************************************************************************)
(* The service status shown by the dashboard (src/web/src/pages/          *)
(* Dashboard.tsx): the ['service'] query, fetched with GET /service, and   *)
(* the EventSource on /api/v1/service/events whose messages are written    *)
(* into the same cache entry with setQueryData. Both write one value; the *)
(* spec (§4.2, §4.4) wants the most recent observation to win and a fresh *)
(* fetch after every reconnect of the stream.                              *)
(* The daemon's service status is abstracted to a version: the number of  *)
(* changes it has gone through. The daemon and the browser's EventSource  *)
(* (auto-reconnect, HTTP error closes it) are the environment.             *)
(***************************************************************************)
EXTENDS Naturals, Sequences

CONSTANTS
    None,           \* model value: no data in the cache
    Malformed,      \* model value: a message whose data is not JSON
    NotStatus,      \* model value: JSON that is no ServiceStatus ('null', '{}')
    MaxVersion,     \* bound on daemon status changes
    MaxStream,      \* bound on messages buffered in the stream
    MaxRetry        \* react-query's default retry count for a query

ASSUME ServiceConstAssumption ==
    /\ MaxVersion \in Nat
    /\ MaxStream \in Nat \ {0}
    /\ MaxRetry \in Nat
    /\ None \notin Nat
    /\ Malformed \notin Nat
    /\ NotStatus \notin Nat \cup {None, Malformed}

VARIABLES
    daemonVer,      \* the daemon's service status (its version)
    svcData,        \* the ['service'] query data: a version, or None
    svcFetch,       \* the query's in-flight fetch
    es,             \* EventSource readyState: "connecting", "open", "closed"
    stream,         \* messages sent on the open connection, not yet handled
    loggedIn,       \* an auth-token is stored and the dashboard is shown
    wasOpen         \* history: the stream has been open since the mount

svcVars == <<daemonVer, svcData, svcFetch, es, stream, loggedIn, wasOpen>>

Versions == 0..MaxVersion
IdleFetch == [phase |-> "idle", snapVer |-> 0, retries |-> 0]
NewFetch  == [phase |-> "sent", snapVer |-> 0, retries |-> 0]

\* The dashboard mounts: the query has no data and starts its first fetch;
\* the effect finds the token and opens the EventSource (connecting).
Mount ==
    /\ svcData = None
    /\ svcFetch = NewFetch
    /\ es = "connecting"
    /\ stream = <<>>
    /\ wasOpen = FALSE

-----------------------------------------------------------------------------
(* The daemon.                                                             *)

\* The service status changes; an open stream carries the new snapshot.
DaemonChange ==
    /\ daemonVer < MaxVersion
    /\ daemonVer' = daemonVer + 1
    /\ stream' = IF es = "open" /\ Len(stream) < MaxStream
                 THEN Append(stream, daemonVer + 1) ELSE stream
    /\ UNCHANGED <<svcData, svcFetch, es, loggedIn, wasOpen>>

\* The daemon (or a proxy on the way) sends a malformed payload: data that
\* is not JSON, or JSON that is not a service status.
DaemonSendsMalformed ==
    /\ es = "open"
    /\ Len(stream) < MaxStream
    /\ \E m \in {Malformed, NotStatus} : stream' = Append(stream, m)
    /\ UNCHANGED <<daemonVer, svcData, svcFetch, es, loggedIn, wasOpen>>

-----------------------------------------------------------------------------
(* The EventSource.                                                        *)

StreamOpens ==
    /\ loggedIn
    /\ es = "connecting"
    /\ es' = "open"
    /\ wasOpen' = TRUE
    /\ UNCHANGED <<daemonVer, svcData, svcFetch, stream, loggedIn>>

\* The connection is lost: messages not yet delivered are lost with it and
\* the browser starts reconnecting on its own (no onerror handler).
StreamDrops ==
    /\ es = "open"
    /\ es' = "connecting"
    /\ stream' = <<>>
    /\ UNCHANGED <<daemonVer, svcData, svcFetch, loggedIn, wasOpen>>

\* The reconnect is answered with an HTTP error (token rejected): the
\* EventSource closes for good and nothing is reported.
StreamRejected ==
    /\ es = "connecting"
    /\ es' = "closed"
    /\ UNCHANGED <<daemonVer, svcData, svcFetch, stream, loggedIn, wasOpen>>

\* eventSource.onmessage: JSON.parse the data and setQueryData(['service'])
\* with it; a parse error is logged and the message dropped, and whatever
\* JSON.parse returns is stored unchecked. setQueryData does not touch a
\* fetch in flight.
ServiceStreamMessage ==
    /\ loggedIn
    /\ stream # <<>>
    /\ svcData' = IF Head(stream) = Malformed THEN svcData ELSE Head(stream)
    /\ stream' = Tail(stream)
    /\ UNCHANGED <<daemonVer, svcFetch, es, loggedIn, wasOpen>>

-----------------------------------------------------------------------------
(* The ['service'] query.                                                  *)

\* Window focus or reconnect refetches the stale query unless a fetch is
\* already in flight (it has no refetchInterval).
ServiceRefetch ==
    /\ loggedIn
    /\ svcFetch.phase = "idle"
    /\ svcFetch' = NewFetch
    /\ UNCHANGED <<daemonVer, svcData, es, stream, loggedIn, wasOpen>>

\* The daemon handles GET /service: it reads its status now.
ServerReadsService ==
    /\ svcFetch.phase = "sent"
    /\ svcFetch' = [svcFetch EXCEPT !.phase = "answered", !.snapVer = daemonVer]
    /\ UNCHANGED <<daemonVer, svcData, es, stream, loggedIn, wasOpen>>

\* queryFn resolves with res.data.data, which replaces the cached data
\* whatever setQueryData wrote meanwhile.
ServiceFetchSucceeds ==
    /\ loggedIn
    /\ svcFetch.phase = "answered"
    /\ svcData' = svcFetch.snapVer
    /\ svcFetch' = IdleFetch
    /\ UNCHANGED <<daemonVer, es, stream, loggedIn, wasOpen>>

\* Mutant: one retry too many (retries <= MaxRetry).
ServiceFetchFailsExtraRetry ==
    /\ loggedIn
    /\ svcFetch.phase \in {"sent", "answered"}
    /\ svcFetch' = IF svcFetch.retries <= MaxRetry
                   THEN [NewFetch EXCEPT !.retries = svcFetch.retries + 1]
                   ELSE IdleFetch
    /\ UNCHANGED <<daemonVer, svcData, es, stream, loggedIn, wasOpen>>

\* queryFn rejects: retried up to MaxRetry times, then the query keeps its
\* data in the error state.
ServiceFetchFails ==
    /\ loggedIn
    /\ svcFetch.phase \in {"sent", "answered"}
    /\ svcFetch' = IF svcFetch.retries < MaxRetry
                   THEN [NewFetch EXCEPT !.retries = svcFetch.retries + 1]
                   ELSE IdleFetch
    /\ UNCHANGED <<daemonVer, svcData, es, stream, loggedIn, wasOpen>>

-----------------------------------------------------------------------------
(* The session.                                                            *)

\* Mutant: logout drops the token and the cache but leaves the EventSource
\* open (no close in the effect's cleanup).
LogoutKeepsStream ==
    /\ loggedIn
    /\ loggedIn' = FALSE
    /\ svcData' = None
    /\ svcFetch' = IdleFetch
    /\ UNCHANGED <<daemonVer, es, stream, wasOpen>>

\* handleLogout: remove the token and load /login; the page is unloaded,
\* which closes the EventSource and drops the query cache.
Logout ==
    /\ loggedIn
    /\ loggedIn' = FALSE
    /\ es' = "closed"
    /\ stream' = <<>>
    /\ svcData' = None
    /\ svcFetch' = IdleFetch
    /\ UNCHANGED <<daemonVer, wasOpen>>

\* Login.handleSubmit succeeds: the token is stored and the dashboard
\* mounts again, with the effect reading the new token.
Login ==
    /\ ~loggedIn
    /\ loggedIn' = TRUE
    /\ svcData' = None
    /\ svcFetch' = NewFetch
    /\ es' = "connecting"
    /\ stream' = <<>>
    /\ wasOpen' = FALSE
    /\ UNCHANGED daemonVer

ServiceInit ==
    /\ daemonVer = 0
    /\ loggedIn = TRUE
    /\ Mount

ServiceNext ==
    \/ DaemonChange
    \/ DaemonSendsMalformed
    \/ StreamOpens
    \/ StreamDrops
    \/ StreamRejected
    \/ ServiceStreamMessage
    \/ ServiceRefetch
    \/ ServerReadsService
    \/ ServiceFetchSucceeds
    \/ ServiceFetchFails
    \/ Logout
    \/ Login

ServiceSpec == ServiceInit /\ [][ServiceNext]_svcVars

-----------------------------------------------------------------------------
(* Properties.                                                             *)

ServiceTypeOK ==
    /\ daemonVer \in Versions
    /\ svcData \in Versions \cup {None, NotStatus}
    /\ svcFetch \in [phase : {"idle", "sent", "answered"}, snapVer : Versions,
                     retries : 0..MaxRetry]
    /\ es \in {"connecting", "open", "closed"}
    /\ stream \in Seq(Versions \cup {Malformed, NotStatus})
    /\ Len(stream) <= MaxStream
    /\ loggedIn \in BOOLEAN
    /\ wasOpen \in BOOLEAN

\* Spec §4.4: malformed payloads are logged and dropped, so the cache holds
\* either nothing or a status the daemon really had. onmessage only drops
\* what JSON.parse rejects; a payload such as 'null' is stored as the
\* service status.
MalformedPayloadDropped ==
    svcData \in Versions \cup {None}

\* Spec §4.2/§8: the cached service status never goes back to an older
\* observation, whichever of the poll (GET /service) and the push stream
\* delivers it, and in whatever order their answers arrive.
StatusNeverRegresses ==
    [][(svcData \in Versions /\ svcData' \in Versions) => svcData' >= svcData]_svcVars

\* Spec §4.4: when the stream reconnects, the reconciler issues one fresh
\* GET /service before relying on pushed updates again, so that changes
\* made while it was disconnected are not missed.
ReconnectRefetches ==
    [][(es = "connecting" /\ es' = "open" /\ wasOpen)
          => svcFetch'.phase = "sent"]_svcVars

-----------------------------------------------------------------------------
(* Refinement: the dashboard implements the session contract of the spec. *)

Session == INSTANCE SessionStream
               WITH session <- IF loggedIn THEN "in" ELSE "out",
                    conn <- IF es = "closed" THEN "none" ELSE "live",
                    cached <- svcData # None

\* Spec §5/§6: the EventSource lives only within an authenticated session
\* and is closed by logout, and the service status is only written (by
\* the query or by onmessage) while logged in, a new login starting from
\* an empty cache: every step of the dashboard is a step of SessionStream.
SessionContract == Session!AbsSpec

=============================================================================
