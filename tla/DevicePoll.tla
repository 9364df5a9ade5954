----------------------------- MODULE DevicePoll -----------------------------
(***************************************************************************)
(* The ['device'] query and the two components that observe it: the       *)
(* dashboard's device card (DeviceStatus in src/web/src/pages/            *)
(* Dashboard.tsx), which polls it with refetchInterval 5000, and the route *)
(* editor (src/web/src/components/RouteList.tsx), whose effect copies the  *)
(* address part of ipAddress into the add form's read-only gateway.        *)
(* Timing is abstracted: the interval, the retry back-off and the window's *)
(* focus are events. The device is abstracted to the address part of its  *)
(* ipAddress, or NoIp when it has none. The daemon is modelled from the   *)
(* spec (§3, §6).                                                          *)
(***************************************************************************)
EXTENDS Naturals

CONSTANTS
    Ips,            \* address parts the device's ipAddress may have
    NoIp,           \* model value: the device reports no ipAddress
    DefaultGateway, \* '198.18.0.1', the form's initial gateway
    None,           \* model value: the query has no data yet
    MaxRetry,       \* react-query's default retry count for a query (3)
    MaxChange,      \* bound on the device's address changes
    MaxFail,        \* bound on failed GET /device requests
    MaxFocus        \* bound on focus changes of the window

ASSUME DeviceConstAssumption ==
    /\ NoIp \notin Ips
    /\ None \notin Ips \cup {NoIp}
    /\ MaxRetry \in Nat
    /\ MaxChange \in Nat
    /\ MaxFail \in Nat
    /\ MaxFocus \in Nat

VARIABLES
    deviceIp,       \* the daemon's device address (part before '/')
    changes,        \* number of address changes so far
    devData,        \* ['device'] query data: an address, NoIp or None
    devStatus,      \* query status: "pending", "success" or "error"
    devFetch,       \* the query's retryer: phase, answer read, retries
    focused,        \* the browser window has focus
    focusChanges,   \* number of focus changes so far
    failures,       \* number of failed requests so far
    gateway         \* RouteList formData.gateway

devVars == <<deviceIp, changes, devData, devStatus, devFetch, focused,
             focusChanges, failures, gateway>>

Devices == Ips \cup {NoIp}
IdleFetch == [phase |-> "idle", snap |-> None, retries |-> 0]
NewFetch  == [phase |-> "sent", snap |-> None, retries |-> 0]

-----------------------------------------------------------------------------
(* The daemon and the browser.                                             *)

\* The device gets, changes or loses its address.
DeviceChanges ==
    /\ changes < MaxChange
    /\ \E d \in Devices \ {deviceIp} : deviceIp' = d
    /\ changes' = changes + 1
    /\ UNCHANGED <<devData, devStatus, devFetch, focused, focusChanges,
                   failures, gateway>>

\* The window loses focus; polling and retries stop (refetchIntervalIn-
\* Background is false and the retryer only continues while focused).
WindowBlurs ==
    /\ focused
    /\ focusChanges < MaxFocus
    /\ focused' = FALSE
    /\ focusChanges' = focusChanges + 1
    /\ UNCHANGED <<deviceIp, changes, devData, devStatus, devFetch, failures,
                   gateway>>

\* The window regains focus: refetchOnWindowFocus refetches the (always
\* stale) query unless a fetch is in flight, which it joins.
WindowFocuses ==
    /\ ~focused
    /\ focusChanges < MaxFocus
    /\ focused' = TRUE
    /\ focusChanges' = focusChanges + 1
    /\ devFetch' = IF devFetch.phase = "idle" THEN NewFetch ELSE devFetch
    /\ UNCHANGED <<deviceIp, changes, devData, devStatus, failures, gateway>>

-----------------------------------------------------------------------------
(* The ['device'] query.                                                   *)

\* Mutant: polling stops once the query is in the error state.
IntervalTickStopsOnError ==
    /\ focused
    /\ devStatus # "error"
    /\ devFetch.phase = "idle"
    /\ devFetch' = NewFetch
    /\ UNCHANGED <<deviceIp, changes, devData, devStatus, focused,
                   focusChanges, failures, gateway>>

\* The 5 s interval fires while the window is focused; the refetch joins a
\* fetch in flight (a skipped tick changes nothing), else one starts.
IntervalTick ==
    /\ focused
    /\ devFetch.phase = "idle"
    /\ devFetch' = NewFetch
    /\ UNCHANGED <<deviceIp, changes, devData, devStatus, focused,
                   focusChanges, failures, gateway>>

\* The daemon handles GET /device: it reads the device now.
ServerReadsDevice ==
    /\ devFetch.phase = "sent"
    /\ devFetch' = [devFetch EXCEPT !.phase = "answered", !.snap = deviceIp]
    /\ UNCHANGED <<deviceIp, changes, devData, devStatus, focused,
                   focusChanges, failures, gateway>>

\* Mutant: the gateway effect runs only for the first device status.
GatewayEffectOnce(old, new) ==
    IF old = None /\ new \in Ips THEN new ELSE gateway

\* The effect on [deviceStatus]: it reruns only when the data object
\* changed (structural sharing keeps an equal one) and copies the address
\* part when ipAddress is set; otherwise the gateway stays as it was.
GatewayEffect(old, new) ==
    IF new # old /\ new \in Ips THEN new ELSE gateway

\* queryFn resolves with res.data.data.
DeviceFetchSucceeds ==
    /\ devFetch.phase = "answered"
    /\ devData' = devFetch.snap
    /\ devStatus' = "success"
    /\ devFetch' = IdleFetch
    /\ gateway' = GatewayEffect(devData, devFetch.snap)
    /\ UNCHANGED <<deviceIp, changes, focused, focusChanges, failures>>

\* Mutant: the retryer allows one retry more than its count.
DeviceFetchFailsExtraRetry ==
    /\ devFetch.phase \in {"sent", "answered"}
    /\ failures < MaxFail
    /\ failures' = failures + 1
    /\ IF devFetch.retries <= MaxRetry
       THEN /\ devFetch' = [phase |-> "backoff", snap |-> None,
                            retries |-> devFetch.retries + 1]
            /\ UNCHANGED devStatus
       ELSE /\ devFetch' = IdleFetch
            /\ devStatus' = "error"
    /\ UNCHANGED <<deviceIp, changes, devData, focused, focusChanges, gateway>>

\* The request fails: the retryer waits before the next attempt, or, with
\* its retries spent, the query goes to the error state keeping its data.
DeviceFetchFails ==
    /\ devFetch.phase \in {"sent", "answered"}
    /\ failures < MaxFail
    /\ failures' = failures + 1
    /\ IF devFetch.retries < MaxRetry
       THEN /\ devFetch' = [phase |-> "backoff", snap |-> None,
                            retries |-> devFetch.retries + 1]
            /\ UNCHANGED devStatus
       ELSE /\ devFetch' = IdleFetch
            /\ devStatus' = "error"
    /\ UNCHANGED <<deviceIp, changes, devData, focused, focusChanges, gateway>>

\* The back-off timer fires and the retryer sends the request again; while
\* the window is unfocused it stays paused.
RetryFires ==
    /\ devFetch.phase = "backoff"
    /\ focused
    /\ devFetch' = [devFetch EXCEPT !.phase = "sent"]
    /\ UNCHANGED <<deviceIp, changes, devData, devStatus, focused,
                   focusChanges, failures, gateway>>

-----------------------------------------------------------------------------
(* Both observers mount with the dashboard: one fetch starts (the second  *)
(* observer joins it); the form has its initial gateway.                  *)
DeviceInit ==
    /\ deviceIp \in Devices
    /\ changes = 0
    /\ devData = None
    /\ devStatus = "pending"
    /\ devFetch = NewFetch
    /\ focused = TRUE
    /\ focusChanges = 0
    /\ failures = 0
    /\ gateway = DefaultGateway

DeviceNext ==
    \/ DeviceChanges
    \/ WindowBlurs
    \/ WindowFocuses
    \/ IntervalTick
    \/ ServerReadsDevice
    \/ DeviceFetchSucceeds
    \/ DeviceFetchFails
    \/ RetryFires

\* The timers fire: setInterval's tick and the retryer's setTimeout. That a
\* request is eventually answered is not a property of this code: no
\* timeout is set on the GET (spec §5 leaves it to the HTTP transport, not
\* in this repository), so it is a hypothesis of DeviceEventuallyCurrent.
\* The daemon's changes and the user's focus are not required to happen.
DeviceFairness ==
    /\ WF_devVars(IntervalTick)
    /\ WF_devVars(RetryFires)

\* The transport's promise (spec §5): a request the daemon can read is read,
\* and a request read is eventually answered or fails.
RequestsSettle ==
    /\ WF_devVars(ServerReadsDevice)
    /\ WF_devVars(DeviceFetchSucceeds \/ DeviceFetchFails)

DeviceSpec == DeviceInit /\ [][DeviceNext]_devVars /\ DeviceFairness

-----------------------------------------------------------------------------
(* Properties.                                                             *)

DeviceTypeOK ==
    /\ deviceIp \in Devices
    /\ changes \in 0..MaxChange
    /\ devData \in Devices \cup {None}
    /\ devStatus \in {"pending", "success", "error"}
    /\ devFetch \in [phase : {"idle", "sent", "answered", "backoff"},
                     snap : Devices \cup {None}, retries : 0..MaxRetry]
    /\ focused \in BOOLEAN
    /\ focusChanges \in 0..MaxFocus
    /\ failures \in 0..MaxFail
    /\ gateway \in Ips \cup {DefaultGateway}

\* Spec §4.3/§4.5: if the window stays focused and the transport settles
\* every request, polling brings the device card and the route form up to
\* date with the device: eventually the cached device is the daemon's, and
\* the gateway the form would submit is its address whenever it has one,
\* whatever failures came before (the interval keeps firing after the
\* query went to the error state). A GET that hangs is joined by every
\* later tick (fetch dedupe), so without RequestsSettle nothing follows.
DeviceEventuallyCurrent ==
    <>[]focused /\ RequestsSettle =>
        <>[](/\ devData = deviceIp
             /\ (deviceIp \in Ips => gateway = deviceIp))

\* Spec §4.3: a failed poll is retried on the next scheduled interval only,
\* never mid-interval: a new GET /device starts only from an idle query.
NoRetryBetweenTicks ==
    [][devFetch'.phase = "sent" /\ devFetch.phase # "sent"
          => devFetch.phase = "idle"]_devVars

=============================================================================
