# TLA+ models of the tun2socks web console

These modules model the browser side of the tun2socks web console
(`src/web/src`, React + react-query + axios). They cover how the console's
caches, mutations, forms and the service event stream interleave with each
other and with the daemon's REST API. The daemon (the Go code behind
`/api/v1`) is not under `src/`. Where the console depends on it, it is
modelled from `spec.md` and marked `spec_modelled` in `PROJECT.json`.

## The system

| Part | Source | State | Operations that change state |
|---|---|---|---|
| Route editor | `components/RouteList.tsx` | the `['routes']` query (data, isInvalidated, one fetch with retries), `addMutation`, `deleteMutation`, the modal and `formData` | refresh click, query fetch success and failure, open and close the modal, edit the CIDR, blur completion to `/32`, edit the metric, device-IP auto-fill effect, submit add, delete a row, the mutations' onSuccess and onError |
| Service status view | `pages/Dashboard.tsx` | the `['service']` query, the EventSource | the fetch, its retries, stream messages written with `setQueryData` |
| Device polling | `pages/Dashboard.tsx` (`DeviceStatus`), `components/RouteList.tsx` | the `['device']` query (5 s interval), shared by both | interval ticks, focus refetches, retries with back-off, the gateway effect |
| Proxy settings | `components/ProxySettings.tsx` | its form, the `['proxy']` query, `saveProxyMutation` | edit, the sync-from-query effect, submit, the mutation's handlers |
| Session | `pages/Login.tsx`, `App.tsx` | the `auth-token` in localStorage | login, logout, the route guard |
| Status widgets | `ServiceControl.tsx`, `DeviceControl.tsx` | none of their own | rendering only |
| API types | `api/types.ts` | none | type declarations |

**How the parts interact.** The route editor reads the device query's IP
address to fill the form's gateway. Both the service view's fetch and its
event stream write the same cache entry. Logging out unloads the page, which
drops every cache and closes the stream.

**What makes them hard to get right:**
- A query fetch can be answered with a table the daemon read *before* a
  change whose onSuccess has already run.
- react-query joins an in-flight fetch instead of restarting it when the
  query has no data yet.
- Two mutations can be outstanding at once.
- Stream messages and fetch answers arrive in any order. The stream drops,
  reconnects on its own, or is closed for good by an HTTP error.
- Fetches are retried (3 times by default).

## Modules

### `RouteList.tla` models `RouteList.tsx` and the routes API

- **Data abstraction.** A route table is a function from CIDRs
  (`[addr, prefix]` records over small sets) to an entry or `Absent`. The
  daemon's table carries a version `serverVer`, the number of changes it
  has made. A cached copy carries the version it was read at (`dataVer`).
- **`routesFetch`** is react-query's single retryer for the query:
  - `sent`: the request has not been read yet;
  - `answered`: the daemon has read its table into `snap`;
  - `retries`: the number of retries used so far.
- **`QueryFetch(cancelRefetch)`** is `Query.fetch`'s dedupe rule. It starts a
  new fetch if none is running, or if `cancelRefetch` holds and data is
  present. Otherwise it joins the running fetch. `InvalidateRoutes` marks the
  query invalidated and calls it with `cancelRefetch = TRUE`, as
  `invalidateQueries` does. `RefreshClick` is `refetch()`. A window-focus
  refetch behaves like `RefreshClick` with dedupe and is the same step in
  the model.
- **The form actions** follow the handlers one for one:
  - `EditCidr`, `BlurCidr` (appends the host prefix when there is no `/`);
  - `EditMetric`;
  - `DeviceUpdate` (the effect that copies `device.ipAddress` into the
    gateway);
  - `OpenAdd`, `CloseAdd`.
- **The mutations:**
  - `SubmitAdd` is the form's `onSubmit`. It completes the CIDR again inside
    the `mutationFn` (`NormalizeCidr`): `/32` is appended to an input
    without `/`, and any other input is posted as typed. The CIDR inputs
    are an address with a valid prefix, no `/` (`NoPrefix`), or a `/`
    followed by no valid length (`BadPrefix`, e.g. `10.0.0.0/` or `/99`).
    A malformed prefix therefore reaches the daemon, against spec §4.1 and
    §7. This is listed as a hazard; the proxy form's missing validation
    is the run `proxy_address_validation`.
  - `SubmitDelete(c)` is a row's delete button. Each button is disabled only
    while its own mutation is pending.
  - The daemon's answer is `DaemonAddRoute` or `DaemonDeleteRoute`, which
    either apply the change (a new version) or reject it. The daemon
    applies an add only for a well-formed CIDR.
  - `AddSuccess` and `DeleteSuccess` run onSuccess: invalidate, and for add,
    close the modal and reset the form. `AddError` and `DeleteError` only
    alert.
- **Ghost variables.** `confirmedVer` and `loadedConfirmedVer` record the
  highest version a mutation's onSuccess confirmed. The second counts only
  confirmations made while the query already had data.

### `ServiceSync.tla` models `Dashboard.tsx`'s service status, plus login and logout

- The daemon's status is a version, `daemonVer`.
- The EventSource is `es` (`connecting`, `open` or `closed`) together with
  `stream`, the messages sent on the open connection and not yet handled. A
  drop loses those messages.
- `ServiceStreamMessage` is `onmessage`. It parses the message. Data that
  is not JSON (`Malformed`) is logged and dropped. Anything else goes to
  `setQueryData` unchecked, including JSON that is not a status
  (`NotStatus`, e.g. `null`). `DaemonSendsMalformed` sends either kind.
- `ServiceRefetch`, `ServerReadsService`, `ServiceFetchSucceeds` and
  `ServiceFetchFails` are the query's fetch. `Logout` is `handleLogout`.
  `Login` is `Login.handleSubmit` followed by the dashboard mounting again.
- `wasOpen` is a history variable: the stream has been open since the mount.

- `Session` is a refinement mapping onto `SessionStream` (below):
  `loggedIn` gives the session, `es` the connection, and `svcData # None`
  whether a status is cached. `SessionContract` is `SessionStream`'s
  specification under that mapping, checked as a `PROPERTY`.

### `SessionStream.tla` is the abstract session contract (spec §5, §6)

Three variables: `session` (`in`/`out`), `conn` (`live`/`none`) and
`cached`. A status is only stored within a session, and ending the
session closes the stream and drops the cache. A new session starts with
an empty cache. It has no counterpart in the code; `ServiceSync` is shown
to implement it.

### `ProxySettings.tla` models `ProxySettings.tsx`

- A configuration is a record `[type, address]`. The daemon's stored one
  may have an empty type (`NoType`) or an empty address (`EmptyAddr`).
  Username and password are left out: only the user changes them.
- `proxyFetch` is the query's retryer, as in `RouteList`. The daemon reads
  its configuration in `ServerReadsProxy`.
- `ProxyFetchSucceeds` is the `queryFn` resolving together with the effect
  on `[proxyResult.data]`. Structural sharing keeps an equal result, so the
  effect copies `ToForm(snap)` into the form only when the configuration
  changed. `ToForm` is the `|| 'socks5'` fallback. Because username,
  password and message are left out, "changed" compares type and address
  only. In the code, a change of one of the omitted fields alone also
  produces a new object and reruns the effect. The model never changes
  those fields, so that case does not arise.
- `HandleChange(name, value)`, `HandleSubmit` (blocked while loading, while
  the mutation is pending, and by `required` on an empty address),
  `DaemonSavesProxy`, `SaveSuccess` and `SaveError`.
- Ghost variables: `formFrom` is the daemon version the form was last
  copied from (or `Typed`). `confirmedVer` and `confirmedCfg` record the
  last save whose onSuccess ran.

### `DevicePoll.tla` models the `['device']` query

`DeviceStatus` in `Dashboard.tsx` polls it every 5 s. `RouteList.tsx`
observes the same query and copies its address into the form's gateway.
- Timing is abstracted to events: `IntervalTick`, `RetryFires` (the
  back-off timer), `WindowBlurs` and `WindowFocuses`.
- The interval and the retryer both stop while the window is unfocused.
- `DeviceFetchFails` moves to back-off until the retries are spent, and
  then to the `error` state, keeping the data.
- `GatewayEffect` is `RouteList`'s effect. It runs only when the data
  changed, and keeps the gateway when the device has no address. Addresses
  are model values without a prefix part, so the `|| '198.18.0.1'`
  fallback (taken only for an `ipAddress` that begins with `/`) is left
  out.
- The daemon's device address changes in `DeviceChanges`, at most
  `MaxChange` times.

### `RouteListProofs.tla`, `ServiceSyncProofs.tla`, `ProxySettingsProofs.tla`, `DevicePollProofs.tla`

These hold the TLAPS proofs (see *Proofs* below).

### `MC_*.tla` and `MC_*.cfg`

These instantiate the modules for TLC.

## Runs

| Run | Cfg | Expect | Shows |
|---|---|---|---|
| `routes_safety` | `MC_RouteList.cfg` | pass | `TypeOK`; `LoadedRefetchShowsConfirmed`: once the list has loaded, a fresh list is never older than a confirmed change, whatever the order of refetch, mutation and daemon steps |
| `routes_refetch_initial_load` | `MC_RouteList_RefetchShowsConfirmed.cfg` | violation | a mutation confirmed during the first load joins that fetch; its older answer clears the invalidation |
| `routes_busy_per_cidr` | `MC_RouteList_AtMostOneMutationPerCidr.cfg` | violation | an add and a delete of the same CIDR can be outstanding together |
| `service_safety` | `MC_ServiceSync.cfg` | pass | `ServiceTypeOK`; `SessionContract`: the dashboard refines `SessionStream`, so the stream lives and the status is written only within a session |
| `service_malformed_payload` | `MC_ServiceSync_MalformedPayloadDropped.cfg` | violation | `MalformedPayloadDropped` (spec §4.4): a message `null` parses and is stored as the service status |
| `service_stale_overwrite` | `MC_ServiceSync_StatusNeverRegresses.cfg` | violation | a GET /service answer read before a pushed update lands after it and wins |
| `service_reconnect` | `MC_ServiceSync_ReconnectRefetches.cfg` | violation | no fresh GET /service after the stream reconnects |
| `proxy_safety` | `MC_ProxySettings.cfg` | pass | `ProxyTypeOK`: the effect's conversion always yields a type the select offers |
| `proxy_address_validation` | `MC_ProxySettings_AddressValidatedBeforeSave.cfg` | violation | an address that is not host:port is posted |
| `proxy_saved_reverted` | `MC_ProxySettings_SavedConfigNotReverted.cfg` | violation | a GET /proxy read before a save lands after its onSuccess and reverts the form to the old configuration |
| `device_liveness` | `MC_DevicePoll.cfg` | pass | `DeviceTypeOK`; `DeviceEventuallyCurrent`: while the window stays focused and every request settles, the card and the route form's gateway eventually match the device, after any failures |
| `device_retry_mid_interval` | `MC_DevicePoll_NoRetryBetweenTicks.cfg` | violation | a failed poll is retried between ticks by the default back-off |

The eight violations are divergences between the code and `spec.md`. They
are listed with their lines under `findings` in `PROJECT.json`.

**Bounds.**
- `MC_RouteList.cfg` uses one address, prefixes `{24, 32}`, one gateway,
  metrics `{50, 100}`, `MaxVersion = 2` and `MaxRetry = 1`.
  - Two prefixes are enough for a typed prefix and a completed `/32` to
    differ. The inputs add `NoPrefix` and `BadPrefix`.
  - Two versions are enough for a fetch to read one change and miss the next.
  - One retry is enough for a retried fetch to read a newer table than the
    first attempt would have.
  - A second gateway only multiplies the states: no property tells gateways
    apart.
  - The run reaches about 2 * 10^6 distinct states in under a minute.
- `MC_ServiceSync.cfg` uses `MaxVersion = 3`, `MaxStream = 2` and
  `MaxRetry = 1`, and the model values `Malformed` and `NotStatus`. Three
  versions let a fetch read version 1 while the stream delivers 2 and 3.
- `MC_ProxySettings.cfg` uses two types, the addresses `{a1, bad}` (only
  `a1` is host:port), the empty address, `MaxVersion = 2` and
  `MaxRetry = 1`.
  - Two saves are enough for an answer read at one version to land after
    the next is confirmed.
  - The initial daemon configuration ranges over every stored form,
    including the empty type and the empty address.
  - About 2 * 10^5 distinct states.
- `MC_DevicePoll.cfg` uses two addresses and `NoIp`, `MaxRetry = 1`,
  `MaxFail = 2`, `MaxChange = 2` and `MaxFocus = 2`.
  - Two failures are enough to spend the retry and reach the `error`
    state.
  - Two changes let the device lose its address and get a new one.
  - The run does not check deadlock. Once the focus changes are spent
    with the window unfocused and no request in flight, nothing happens,
    which is what the browser does.

**Fairness.** Only `DevicePoll` states a liveness property.
`DeviceFairness`, part of `DeviceSpec`, is weak fairness of the two
timers the code sets:
- `IntervalTick` (`setInterval` keeps firing while the page is focused);
- `RetryFires` (the retryer's `setTimeout`).

That a request is eventually answered is *not* assumed in the
specification. No code in this repository sets a request timeout: spec §5
puts it in the HTTP transport, whose client module is not here. A GET
that hangs is joined by every later tick (fetch dedupe), so polling stops
for as long as it hangs. `DeviceEventuallyCurrent` therefore takes the
transport's promise as an explicit hypothesis, `RequestsSettle`: weak
fairness of `ServerReadsDevice` and of
`DeviceFetchSucceeds \/ DeviceFetchFails`. The property is
`<>[]focused /\ RequestsSettle => <>[](...)`. Without the hypothesis, TLC
finds it violated by a request that never settles.

The daemon's changes and the user's focus changes get no fairness.
Failures are bounded by `MaxFail`, so they cannot go on forever. The
property assumes `<>[]focused`, because the code stops polling while the
window is unfocused.

No liveness is claimed for the route editor. A POST with no timeout may
stay pending forever, and the code does nothing that would justify
fairness there.

**Mutants.** Every property of a passing run has a mutant in `PROJECT.json`
that TLC must catch:
- an invalidation that joins the running fetch;
- one retry too many;
- a logout that leaves the EventSource open (breaks `SessionContract`);
- the effect's type conversion without the `'socks5'` fallback;
- a device retryer with one retry too many;
- interval polling that stops once the query is in error.

## Proofs (TLAPS)

`RouteListProofs.tla` proves, for every value of the constants that
satisfies `ConstAssumption`:

- **`TypeCorrect`: `Spec => []TypeOK`.**
  - `TypeInit` covers the initial state. `TypeStep` takes one case per
    action; the daemon's cases split on applied and rejected.
  - The lemmas `ExceptType`, `QueryFetchType`, `NormalizeCidrType` and
    `IdleMutationType` carry the record and function updates.
- **`LoadedRefetchCorrect`: `Spec => []LoadedRefetchShowsConfirmed`.** The
  property is not inductive as it stands: an idle query could be left with
  an old table by a fetch that was answered before the change was confirmed.
  The inductive invariant `IInv` adds three facts:
  - `VersionsBounded`: confirmed versions and applied mutations' versions
    never exceed the daemon's.
  - `AnsweredAfterConfirmed`: a fetch in the `answered` phase read a table
    at least as new as every loaded confirmation. This holds because
    onSuccess, with data present, cancels the running fetch and starts a
    new one.
  - `FreshDataAfterConfirmed`: data that is not invalidated is at least
    that new. This holds because every confirmation with data present also
    invalidates.

  TLC checked `IInv` as an invariant of `routes_safety` before the proof was
  written. The proof consists of `IInvInit`, `IInvStep` (one case per
  action; `ConfirmStep` is shared by the two onSuccess handlers) and
  `IInvImpliesProperty`, combined with PTL.

`ServiceSyncProofs.tla` proves, assuming `ServiceConstAssumption`:
- **`ServiceTypeCorrect`: `ServiceSpec => []ServiceTypeOK`.**
  - The lemmas `AppendType` and `TailType` bound the stream of pending
    messages, using `SequenceTheorems`.
  - `ServiceTypeStep` takes one case per action.
- **`SessionRefinement`: `ServiceSpec => SessionContract`.**
  - `SessionInit` shows that the mapped initial state is `AbsInit`.
  - `SessionStep` maps each `ServiceNext` step:
    - `Login` maps to `StartSession`, and `Logout` to `EndSession`;
    - `StreamRejected` (the EventSource closed for good) maps to
      `Disconnect`;
    - a stored status (a fetch answer or a parsed message, also one that
      is not a status) maps to `Observe`;
    - every other step is a stutter, including the EventSource's own drops
      and reconnects, which keep the connection live.

`ProxySettingsProofs.tla` proves, assuming `ProxyConstAssumption`:
- **`ProxyTypeCorrect`: `ProxySpec => []ProxyTypeOK`.**
- `ProxyTypeOK` is not inductive alone. The strengthening `ProxyInv` adds:
  - `AnsweredHasSnap`: an answered fetch holds a configuration, which
    `ProxyFetchSucceeds` stores and converts;
  - `SaveHasCfg`: a save in flight holds the form it posted, which the
    daemon may then store.
- `ToFormType` shows that the conversion lands in the form's type.

`DevicePollProofs.tla` proves, assuming `DeviceConstAssumption`:
- **`DeviceTypeCorrect`: `DeviceSpec => []DeviceTypeOK`.** `DeviceTypeOK`
  is inductive as it stands. `GatewayEffectType` shows that the effect
  yields a device address or keeps the gateway.
- The fairness conjuncts of `DeviceSpec` play no part in the proof;
  `PTL` discards them.

**Only model-checked.**
- `DeviceEventuallyCurrent`. Liveness and `ENABLED` are outside TLAPS's
  reach.
- The eight violated properties. Each is refuted by a TLC trace, not
  proved.
- There are no recursive definitions.

## Not modelled

- **Status widgets and API types.** `ServiceControl`, `DeviceControl` and
  `DeviceStatus`'s JSX render the props or cache they are given and have no
  state or handlers. `DeviceControl` is not used by any page.
  - `formatBytes` and `formatUptime` are display conversions, and the spec
    says nothing about them.
  - `formatBytes` shows 1048575 B/s as `1024 KB`, and `undefined` as the
    unit from 1 TiB/s. These are listed as a hazard.
- **Username and password of the proxy form.** Only the user changes
  them, and they are posted as typed.
- **The login form's loading flag, and `ProtectedRoute`'s redirect.**
  `ServiceInit` starts inside the guard.
- **Pure rendering and layout.**
- **The daemon's internals.** Only its externally visible route table and
  status version are modelled.

## Plan for the next steps

1. A property for the gateway when the device loses its address, once the
   spec states what the form should do.
2. A liveness property for the route editor, if a request timeout is ever
   added to the API client. That would justify fairness of the mutations.
