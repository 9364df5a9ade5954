----------------------------- MODULE RouteList -----------------------------
(***************************************************************************)
(* The route editor of the web console (src/web/src/components/           *)
(* RouteList.tsx) together with the parts of its environment it races     *)
(* against:                                                                *)
(*   - the ['routes'] query of the react-query cache: one fetch at a time, *)
(*     deduplicated, cancelled and restarted by refetch()/invalidate when  *)
(*     data is present, retried on failure;                                *)
(*   - the add and delete mutations with their onSuccess/onError handlers; *)
(*   - the add-route form (cidr, gateway auto-filled from the ['device']   *)
(*     query, metric) and its on-blur /32 completion;                      *)
(*   - the daemon's route table behind GET/POST/DELETE /routes, which is   *)
(*     not under src/ and is modelled from the spec (§3, §6).              *)
(* Route tables carry a version: the number of changes the daemon made, so *)
(* that a cached copy can be compared with what the client has confirmed. *)
(***************************************************************************)
EXTENDS Naturals

CONSTANTS
    Addrs,          \* address parts of a CIDR the user can type
    Prefixes,       \* explicit prefix lengths the user can type
    HostPrefix,     \* 32: the prefix appended when none is typed
    NoPrefix,       \* model value: the input has no '/'
    BadPrefix,      \* model value: a '/' followed by no valid length ('/', '/99')
    Gateways,       \* IP literals the device may have / a route may use
    DefaultGateway, \* '198.18.0.1', the form's initial gateway
    Metrics,        \* metrics the user can enter
    DefaultMetric,  \* 100
    None,           \* model value: undefined data / empty field
    Absent,         \* model value: no route for this CIDR on the daemon
    MaxVersion,     \* bound on the number of route-table changes
    MaxRetry        \* react-query's default retry count for a query (3)

ASSUME ConstAssumption ==
    /\ HostPrefix \in Prefixes
    /\ NoPrefix \notin Prefixes
    /\ BadPrefix \notin Prefixes \cup {NoPrefix}
    /\ DefaultGateway \in Gateways
    /\ DefaultMetric \in Metrics
    /\ None \notin Gateways
    /\ MaxVersion \in Nat
    /\ MaxRetry \in Nat

VARIABLES
    server,         \* the daemon's route table: [Cidrs -> Entry \cup {Absent}]
    serverVer,      \* number of changes the daemon has made to it
    data,           \* ['routes'] query data: a table, or None before the first load
    dataVer,        \* version of the table held in data
    isInvalidated,  \* query state isInvalidated
    routesFetch,    \* the query's single in-flight fetch (its retryer)
    add,            \* addMutation: phase, request, version it produced
    del,            \* deleteMutation: phase, cidr, version it produced
    isAddOpen,      \* the add-route modal is shown
    form,           \* formData: cidr input, gateway, metric
    deviceIp,       \* address part of the ['device'] query's ipAddress
    confirmedVer,   \* history: highest version a mutation's onSuccess saw
    loadedConfirmedVer \* history: same, counting onSuccess with data loaded

vars == <<server, serverVer, data, dataVer, isInvalidated, routesFetch, add,
          del, isAddOpen, form, deviceIp, confirmedVer, loadedConfirmedVer>>

Cidrs == [addr : Addrs, prefix : Prefixes]
CidrInputs == [addr : Addrs, prefix : Prefixes \cup {NoPrefix, BadPrefix}]
Entry == [gateway : Gateways, metric : Metrics]
Table == [Cidrs -> Entry \cup {Absent}]
EmptyTable == [c \in Cidrs |-> Absent]
Versions == 0..MaxVersion

\* The mutationFn's completion: an input without '/' gets '/32'; an input
\* with a '/' is sent as typed, whatever follows the '/'.
NormalizeCidr(c) ==
    IF c.prefix = NoPrefix THEN [c EXCEPT !.prefix = HostPrefix] ELSE c

Larger(a, b) == IF a >= b THEN a ELSE b

-----------------------------------------------------------------------------
(* The ['routes'] query's fetch.                                           *)

IdleFetch == [phase |-> "idle", snap |-> EmptyTable, snapVer |-> 0, retries |-> 0]
NewFetch  == [phase |-> "sent", snap |-> EmptyTable, snapVer |-> 0, retries |-> 0]

\* Mutant: the refetch after a mutation joins the fetch in flight instead
\* of cancelling it (cancelRefetch ignored).
QueryFetchJoin(cancelRefetch) ==
    IF routesFetch.phase = "idle" THEN NewFetch ELSE routesFetch

\* Query.fetch: a fetch already in flight is returned (deduplicated) unless
\* cancelRefetch is set AND data is already present, in which case it is
\* cancelled silently (its late result is ignored) and a new one starts.
QueryFetch(cancelRefetch) ==
    IF routesFetch.phase = "idle" \/ (cancelRefetch /\ data # None)
    THEN NewFetch
    ELSE routesFetch

\* invalidateQueries({queryKey: ['routes']}): mark stale, refetch the active
\* query with cancelRefetch = true.
InvalidateRoutes ==
    /\ isInvalidated' = TRUE
    /\ routesFetch' = QueryFetch(TRUE)

\* The Refresh button: refetch(), whose cancelRefetch defaults to true.
\* When no fetch is in flight this is also what a window-focus or
\* reconnect refetch of the (always stale) query does; when one is in
\* flight those join it, which changes nothing.
RefreshClick ==
    /\ routesFetch' = QueryFetch(TRUE)
    /\ routesFetch' # routesFetch
    /\ UNCHANGED <<server, serverVer, data, dataVer, isInvalidated, add, del,
                   isAddOpen, form, deviceIp, confirmedVer, loadedConfirmedVer>>

\* The daemon handles GET /routes: it reads its table now.
ServerReadsRoutes ==
    /\ routesFetch.phase = "sent"
    /\ routesFetch' = [routesFetch EXCEPT !.phase = "answered",
                                          !.snap = server, !.snapVer = serverVer]
    /\ UNCHANGED <<server, serverVer, data, dataVer, isInvalidated, add, del,
                   isAddOpen, form, deviceIp, confirmedVer, loadedConfirmedVer>>

\* queryFn resolves with res.data.data: the query stores it, clears
\* isInvalidated and goes idle.
FetchSucceeds ==
    /\ routesFetch.phase = "answered"
    /\ data' = routesFetch.snap
    /\ dataVer' = routesFetch.snapVer
    /\ isInvalidated' = FALSE
    /\ routesFetch' = IdleFetch
    /\ UNCHANGED <<server, serverVer, add, del, isAddOpen, form, deviceIp,
                   confirmedVer, loadedConfirmedVer>>

\* Mutant: one retry too many (retries <= MaxRetry).
FetchAttemptFailsExtraRetry ==
    /\ routesFetch.phase \in {"sent", "answered"}
    /\ routesFetch' = IF routesFetch.retries <= MaxRetry
                      THEN [NewFetch EXCEPT !.retries = routesFetch.retries + 1]
                      ELSE IdleFetch
    /\ UNCHANGED <<server, serverVer, data, dataVer, isInvalidated, add, del,
                   isAddOpen, form, deviceIp, confirmedVer, loadedConfirmedVer>>

\* queryFn rejects (request lost, HTTP error): the retryer sends the request
\* again until MaxRetry retries are spent, then the query goes idle in the
\* error state keeping its old data and its isInvalidated flag.
FetchAttemptFails ==
    /\ routesFetch.phase \in {"sent", "answered"}
    /\ routesFetch' = IF routesFetch.retries < MaxRetry
                      THEN [NewFetch EXCEPT !.retries = routesFetch.retries + 1]
                      ELSE IdleFetch
    /\ UNCHANGED <<server, serverVer, data, dataVer, isInvalidated, add, del,
                   isAddOpen, form, deviceIp, confirmedVer, loadedConfirmedVer>>

-----------------------------------------------------------------------------
(* The add-route form.                                                      *)

OpenAdd ==
    /\ ~isAddOpen
    /\ isAddOpen' = TRUE
    /\ UNCHANGED <<server, serverVer, data, dataVer, isInvalidated, routesFetch,
                   add, del, form, deviceIp, confirmedVer, loadedConfirmedVer>>

CloseAdd ==
    /\ isAddOpen
    /\ isAddOpen' = FALSE
    /\ UNCHANGED <<server, serverVer, data, dataVer, isInvalidated, routesFetch,
                   add, del, form, deviceIp, confirmedVer, loadedConfirmedVer>>

EditCidr(c) ==
    /\ isAddOpen
    /\ form' = [form EXCEPT !.cidr = c]
    /\ UNCHANGED <<server, serverVer, data, dataVer, isInvalidated, routesFetch,
                   add, del, isAddOpen, deviceIp, confirmedVer, loadedConfirmedVer>>

\* handleCidrBlur: a non-empty value without '/' gets '/32'.
BlurCidr ==
    /\ isAddOpen
    /\ form.cidr # None
    /\ form.cidr.prefix = NoPrefix
    /\ form' = [form EXCEPT !.cidr.prefix = HostPrefix]
    /\ UNCHANGED <<server, serverVer, data, dataVer, isInvalidated, routesFetch,
                   add, del, isAddOpen, deviceIp, confirmedVer, loadedConfirmedVer>>

EditMetric(m) ==
    /\ isAddOpen
    /\ form' = [form EXCEPT !.metric = m]
    /\ UNCHANGED <<server, serverVer, data, dataVer, isInvalidated, routesFetch,
                   add, del, isAddOpen, deviceIp, confirmedVer, loadedConfirmedVer>>

\* The ['device'] query (refetched every 5s by the dashboard) changes, and
\* the effect on deviceStatus copies the address part of ipAddress into
\* the gateway when there is one; otherwise the gateway is left as it was.
DeviceUpdate(ip) ==
    /\ ip # deviceIp
    /\ deviceIp' = ip
    /\ form' = IF ip # None THEN [form EXCEPT !.gateway = ip] ELSE form
    /\ UNCHANGED <<server, serverVer, data, dataVer, isInvalidated, routesFetch,
                   add, del, isAddOpen, confirmedVer, loadedConfirmedVer>>

-----------------------------------------------------------------------------
(* The mutations. A mutation is "sent", then the daemon either "applied"  *)
(* or "rejected" it; the client then runs onSuccess or onError. onError    *)
(* also covers a request lost before or after the daemon handled it.       *)

IdleMutation == [phase |-> "idle", cidr |-> None, gateway |-> DefaultGateway,
                 metric |-> DefaultMetric, ver |-> 0]

\* handleSubmit -> addMutation.mutate(formData). The submit button is
\* disabled while the mutation is pending and the cidr field is required.
\* mutationFn completes the cidr and POSTs {...data, cidr}.
SubmitAdd ==
    /\ isAddOpen
    /\ add.phase = "idle"
    /\ form.cidr # None
    /\ add' = [phase |-> "sent", cidr |-> NormalizeCidr(form.cidr),
               gateway |-> form.gateway, metric |-> form.metric, ver |-> 0]
    /\ UNCHANGED <<server, serverVer, data, dataVer, isInvalidated, routesFetch,
                   del, isAddOpen, form, deviceIp, confirmedVer, loadedConfirmedVer>>

\* Delete button of a displayed row; all delete buttons are disabled while
\* deleteMutation is pending. Rows are rendered from data.
SubmitDelete(c) ==
    /\ del.phase = "idle"
    /\ data # None
    /\ data[c] # Absent
    /\ del' = [IdleMutation EXCEPT !.phase = "sent", !.cidr = c]
    /\ UNCHANGED <<server, serverVer, data, dataVer, isInvalidated, routesFetch,
                   add, isAddOpen, form, deviceIp, confirmedVer, loadedConfirmedVer>>

\* POST /routes on the daemon: an add with an existing cidr replaces it; a
\* cidr the daemon cannot parse is rejected.
DaemonAddRoute ==
    /\ add.phase = "sent"
    /\ \/ /\ add.cidr \in Cidrs
          /\ serverVer < MaxVersion
          /\ server' = [server EXCEPT ![add.cidr] =
                            [gateway |-> add.gateway, metric |-> add.metric]]
          /\ serverVer' = serverVer + 1
          /\ add' = [add EXCEPT !.phase = "applied", !.ver = serverVer + 1]
       \/ /\ add' = [add EXCEPT !.phase = "rejected"]
          /\ UNCHANGED <<server, serverVer>>
    /\ UNCHANGED <<data, dataVer, isInvalidated, routesFetch, del, isAddOpen,
                   form, deviceIp, confirmedVer, loadedConfirmedVer>>

\* DELETE /routes/{cidr} on the daemon.
DaemonDeleteRoute ==
    /\ del.phase = "sent"
    /\ \/ /\ serverVer < MaxVersion
          /\ server[del.cidr] # Absent
          /\ server' = [server EXCEPT ![del.cidr] = Absent]
          /\ serverVer' = serverVer + 1
          /\ del' = [del EXCEPT !.phase = "applied", !.ver = serverVer + 1]
       \/ /\ del' = [del EXCEPT !.phase = "rejected"]
          /\ UNCHANGED <<server, serverVer>>
    /\ UNCHANGED <<data, dataVer, isInvalidated, routesFetch, add, isAddOpen,
                   form, deviceIp, confirmedVer, loadedConfirmedVer>>

\* History of what the client has seen confirmed, for the properties.
Confirm(ver) ==
    /\ confirmedVer' = Larger(confirmedVer, ver)
    /\ loadedConfirmedVer' = IF data # None
                             THEN Larger(loadedConfirmedVer, ver)
                             ELSE loadedConfirmedVer

\* addMutation onSuccess: invalidate ['routes'], close the modal, clear
\* the cidr field.
AddSuccess ==
    /\ add.phase = "applied"
    /\ InvalidateRoutes
    /\ isAddOpen' = FALSE
    /\ form' = [form EXCEPT !.cidr = None]
    /\ add' = IdleMutation
    /\ Confirm(add.ver)
    /\ UNCHANGED <<server, serverVer, data, dataVer, del, deviceIp>>

\* addMutation onError: a toast only; the form stays as it is.
AddError ==
    /\ add.phase # "idle"
    /\ add' = IdleMutation
    /\ UNCHANGED <<server, serverVer, data, dataVer, isInvalidated, routesFetch,
                   del, isAddOpen, form, deviceIp, confirmedVer, loadedConfirmedVer>>

\* deleteMutation onSuccess: invalidate ['routes'].
DeleteSuccess ==
    /\ del.phase = "applied"
    /\ InvalidateRoutes
    /\ del' = IdleMutation
    /\ Confirm(del.ver)
    /\ UNCHANGED <<server, serverVer, data, dataVer, add, isAddOpen, form, deviceIp>>

\* deleteMutation onError: a toast only.
DeleteError ==
    /\ del.phase # "idle"
    /\ del' = IdleMutation
    /\ UNCHANGED <<server, serverVer, data, dataVer, isInvalidated, routesFetch,
                   add, isAddOpen, form, deviceIp, confirmedVer, loadedConfirmedVer>>

-----------------------------------------------------------------------------
(* On mount the ['routes'] query starts its first fetch; the daemon's      *)
(* table is empty, the device address not yet known.                       *)
Init ==
    /\ server = EmptyTable
    /\ serverVer = 0
    /\ data = None
    /\ dataVer = 0
    /\ isInvalidated = FALSE
    /\ routesFetch = NewFetch
    /\ add = IdleMutation
    /\ del = IdleMutation
    /\ isAddOpen = FALSE
    /\ form = [cidr |-> None, gateway |-> DefaultGateway, metric |-> DefaultMetric]
    /\ deviceIp = None
    /\ confirmedVer = 0
    /\ loadedConfirmedVer = 0

Next ==
    \/ RefreshClick
    \/ ServerReadsRoutes
    \/ FetchSucceeds
    \/ FetchAttemptFails
    \/ OpenAdd
    \/ CloseAdd
    \/ \E c \in CidrInputs : EditCidr(c)
    \/ BlurCidr
    \/ \E m \in Metrics : EditMetric(m)
    \/ \E ip \in Gateways \cup {None} : DeviceUpdate(ip)
    \/ SubmitAdd
    \/ \E c \in Cidrs : SubmitDelete(c)
    \/ DaemonAddRoute
    \/ DaemonDeleteRoute
    \/ AddSuccess
    \/ AddError
    \/ DeleteSuccess
    \/ DeleteError

Spec == Init /\ [][Next]_vars

-----------------------------------------------------------------------------
(* Properties.                                                             *)

Mutation == [phase : {"idle", "sent", "applied", "rejected"},
             cidr : CidrInputs \cup {None}, gateway : Gateways,
             metric : Metrics, ver : Versions]

FetchState == [phase : {"idle", "sent", "answered"}, snap : Table,
               snapVer : Versions, retries : 0..MaxRetry]

TypeOK ==
    /\ server \in Table
    /\ serverVer \in Versions
    /\ data \in Table \cup {None}
    /\ dataVer \in Versions
    /\ isInvalidated \in BOOLEAN
    /\ routesFetch \in FetchState
    /\ add \in Mutation
    /\ del \in Mutation
    /\ isAddOpen \in BOOLEAN
    /\ form \in [cidr : CidrInputs \cup {None}, gateway : Gateways, metric : Metrics]
    /\ deviceIp \in Gateways \cup {None}
    /\ confirmedVer \in Versions
    /\ loadedConfirmedVer \in Versions

\* Once the list has loaded, the invalidation in a mutation's onSuccess
\* works: whenever the ['routes'] query is idle and not invalidated, its
\* data reflects every change the client has seen confirmed while loaded.
\* A fetch that read the table before the change must not land after it.
LoadedRefetchShowsConfirmed ==
    (routesFetch.phase = "idle" /\ ~isInvalidated /\ data # None)
        => dataVer >= loadedConfirmedVer

\* The same for every confirmation, including those that happen while the
\* first load of the list is still in flight (spec §4.5: after success the
\* store holds the server-confirmed state).
RefetchShowsConfirmed ==
    (routesFetch.phase = "idle" /\ ~isInvalidated /\ data # None)
        => dataVer >= confirmedVer

\* Spec §4.5: at most one add or delete per CIDR is outstanding; a second
\* one on the same CIDR is rejected client-side as busy.
AtMostOneMutationPerCidr ==
    ~(add.phase # "idle" /\ del.phase # "idle" /\ add.cidr = del.cidr)

=============================================================================
