--------------------------- MODULE ProxySettings ---------------------------
(***************************************************************************)
(* The proxy configuration card (src/web/src/components/ProxySettings.tsx): *)
(* the ['proxy'] query (GET /proxy), the effect that copies each new query  *)
(* result into the form, the form's change handler, and the save mutation   *)
(* (POST /proxy). The daemon's stored configuration is not under src/ and  *)
(* is modelled from the spec (§3, §6).                                     *)
(* A configuration is abstracted to its type and address; the username and *)
(* password fields are only ever changed by the user and are left out.    *)
(* Daemon configurations carry a version, the number of saves applied.    *)
(***************************************************************************)
EXTENDS Naturals

CONSTANTS
    Types,          \* the protocols of the <select>
    DefaultType,    \* 'socks5'
    Addrs,          \* non-empty address strings the user can type
    HostPorts,      \* those of Addrs that parse as host:port
    DefaultAddr,    \* '127.0.0.1:7891', the form's initial address
    EmptyAddr,      \* model value: the empty string
    NoType,         \* model value: a stored type that is '' or missing
    None,           \* model value: no query data
    Typed,          \* model value: the form holds what the user typed
    MaxVersion,     \* bound on the number of saves the daemon applies
    MaxRetry        \* react-query's default retry count for a query (3)

ASSUME ProxyConstAssumption ==
    /\ DefaultType \in Types
    /\ HostPorts \subseteq Addrs
    /\ DefaultAddr \in HostPorts
    /\ EmptyAddr \notin Addrs
    /\ NoType \notin Types
    /\ MaxVersion \in Nat
    /\ MaxRetry \in Nat

VARIABLES
    daemonCfg,      \* the daemon's stored configuration
    daemonVer,      \* number of saves it has applied
    proxyData,      \* ['proxy'] query data: [cfg, ver] or None
    proxyFetch,     \* the query's in-flight fetch (its retryer)
    form,           \* formData's type and address
    save,           \* saveProxyMutation: phase, submitted cfg, version made
    formFrom,       \* history: version the form was copied from, or Typed
    confirmedVer,   \* history: version of the last save whose onSuccess ran
    confirmedCfg    \* history: the configuration that save submitted

proxyVars == <<daemonCfg, daemonVer, proxyData, proxyFetch, form, save,
               formFrom, confirmedVer, confirmedCfg>>

Versions == 0..MaxVersion
FormCfgs == [type : Types, address : Addrs \cup {EmptyAddr}]
StoredCfgs == [type : Types \cup {NoType}, address : Addrs \cup {EmptyAddr}]

IdleFetch == [phase |-> "idle", snap |-> None, snapVer |-> 0, retries |-> 0]
NewFetch  == [phase |-> "sent", snap |-> None, snapVer |-> 0, retries |-> 0]
IdleSave  == [phase |-> "idle", cfg |-> None, ver |-> 0]

\* proxyResult.isLoading: no data yet and the first fetch still running;
\* the card renders a placeholder instead of the form.
IsLoading == proxyData = None /\ proxyFetch.phase # "idle"

\* Mutant: the effect copies config.type without the 'socks5' fallback.
ToFormNoFallback(c) == [type |-> c.type, address |-> c.address]

\* The effect's conversion: type: config.type || 'socks5',
\* address: config.address || '' (a missing address is the empty string).
ToForm(c) ==
    [type |-> IF c.type = NoType THEN DefaultType ELSE c.type,
     address |-> c.address]

-----------------------------------------------------------------------------
(* The ['proxy'] query.                                                    *)

\* A window-focus, reconnect or remount refetch of the (always stale)
\* query; one already in flight is joined.
ProxyRefetch ==
    /\ proxyFetch.phase = "idle"
    /\ proxyFetch' = NewFetch
    /\ UNCHANGED <<daemonCfg, daemonVer, proxyData, form, save, formFrom,
                   confirmedVer, confirmedCfg>>

\* The daemon handles GET /proxy: it reads its configuration now.
ServerReadsProxy ==
    /\ proxyFetch.phase = "sent"
    /\ proxyFetch' = [proxyFetch EXCEPT !.phase = "answered",
                                        !.snap = daemonCfg, !.snapVer = daemonVer]
    /\ UNCHANGED <<daemonCfg, daemonVer, proxyData, form, save, formFrom,
                   confirmedVer, confirmedCfg>>

\* queryFn resolves with res.data. Structural sharing keeps the old data
\* object when the new one is deep-equal, so the effect on
\* [proxyResult.data] runs only when the configuration differs; it then
\* copies type and address into the form (React flushes the effect before
\* the next input event is handled).
ProxyFetchSucceeds ==
    /\ proxyFetch.phase = "answered"
    /\ proxyData' = [cfg |-> proxyFetch.snap, ver |-> proxyFetch.snapVer]
    /\ proxyFetch' = IdleFetch
    /\ IF proxyData = None \/ proxyData.cfg # proxyFetch.snap
       THEN /\ form' = ToForm(proxyFetch.snap)
            /\ formFrom' = proxyFetch.snapVer
       ELSE UNCHANGED <<form, formFrom>>
    /\ UNCHANGED <<daemonCfg, daemonVer, save, confirmedVer, confirmedCfg>>

\* queryFn rejects: retried up to MaxRetry times, then the query keeps its
\* data (or none) in the error state.
ProxyFetchFails ==
    /\ proxyFetch.phase \in {"sent", "answered"}
    /\ proxyFetch' = IF proxyFetch.retries < MaxRetry
                     THEN [NewFetch EXCEPT !.retries = proxyFetch.retries + 1]
                     ELSE IdleFetch
    /\ UNCHANGED <<daemonCfg, daemonVer, proxyData, form, save, formFrom,
                   confirmedVer, confirmedCfg>>

-----------------------------------------------------------------------------
(* The form.                                                               *)

\* handleChange on the <select name="type"> or <input name="address">.
HandleChange(name, value) ==
    /\ ~IsLoading
    /\ form' = [form EXCEPT ![name] = value]
    /\ formFrom' = Typed
    /\ UNCHANGED <<daemonCfg, daemonVer, proxyData, proxyFetch, save,
                   confirmedVer, confirmedCfg>>

\* handleSubmit -> saveProxyMutation.mutate(formData). The browser refuses
\* to submit while the required address is empty, and the submit button
\* (also the target of Enter) is disabled while the mutation is pending.
HandleSubmit ==
    /\ ~IsLoading
    /\ save.phase = "idle"
    /\ form.address # EmptyAddr
    /\ save' = [phase |-> "sent", cfg |-> form, ver |-> 0]
    /\ UNCHANGED <<daemonCfg, daemonVer, proxyData, proxyFetch, form, formFrom,
                   confirmedVer, confirmedCfg>>

\* POST /proxy on the daemon: it stores the configuration or rejects it.
DaemonSavesProxy ==
    /\ save.phase = "sent"
    /\ \/ /\ daemonVer < MaxVersion
          /\ daemonCfg' = save.cfg
          /\ daemonVer' = daemonVer + 1
          /\ save' = [save EXCEPT !.phase = "applied", !.ver = daemonVer + 1]
       \/ /\ save' = [save EXCEPT !.phase = "rejected"]
          /\ UNCHANGED <<daemonCfg, daemonVer>>
    /\ UNCHANGED <<proxyData, proxyFetch, form, formFrom, confirmedVer, confirmedCfg>>

\* onSuccess: a toast only; the ['proxy'] query is neither updated nor
\* invalidated.
SaveSuccess ==
    /\ save.phase = "applied"
    /\ save' = IdleSave
    /\ confirmedVer' = save.ver
    /\ confirmedCfg' = save.cfg
    /\ UNCHANGED <<daemonCfg, daemonVer, proxyData, proxyFetch, form, formFrom>>

\* onError: a toast only (also a request lost after the daemon stored it).
SaveError ==
    /\ save.phase # "idle"
    /\ save' = IdleSave
    /\ UNCHANGED <<daemonCfg, daemonVer, proxyData, proxyFetch, form, formFrom,
                   confirmedVer, confirmedCfg>>

-----------------------------------------------------------------------------
(* The card mounts with the useState defaults and the query's first fetch; *)
(* the daemon may hold any configuration, including an empty one.         *)
ProxyInit ==
    /\ daemonCfg \in StoredCfgs
    /\ daemonVer = 0
    /\ proxyData = None
    /\ proxyFetch = NewFetch
    /\ form = [type |-> DefaultType, address |-> DefaultAddr]
    /\ save = IdleSave
    /\ formFrom = Typed
    /\ confirmedVer = 0
    /\ confirmedCfg = None

ProxyNext ==
    \/ ProxyRefetch
    \/ ServerReadsProxy
    \/ ProxyFetchSucceeds
    \/ ProxyFetchFails
    \/ \E t \in Types : HandleChange("type", t)
    \/ \E a \in Addrs \cup {EmptyAddr} : HandleChange("address", a)
    \/ HandleSubmit
    \/ DaemonSavesProxy
    \/ SaveSuccess
    \/ SaveError

ProxySpec == ProxyInit /\ [][ProxyNext]_proxyVars

-----------------------------------------------------------------------------
(* Properties.                                                             *)

ProxyTypeOK ==
    /\ daemonCfg \in StoredCfgs
    /\ daemonVer \in Versions
    /\ proxyData \in [cfg : StoredCfgs, ver : Versions] \cup {None}
    /\ proxyFetch \in [phase : {"idle", "sent", "answered"},
                       snap : StoredCfgs \cup {None}, snapVer : Versions,
                       retries : 0..MaxRetry]
    /\ form \in FormCfgs
    /\ save \in [phase : {"idle", "sent", "applied", "rejected"},
                 cfg : FormCfgs \cup {None}, ver : Versions]
    /\ formFrom \in Versions \cup {Typed}
    /\ confirmedVer \in Versions
    /\ confirmedCfg \in FormCfgs \cup {None}

\* Spec §3: the address must parse as host:port before the configuration
\* is sent for persistence.
AddressValidatedBeforeSave ==
    save.phase # "idle" => save.cfg.address \in HostPorts

\* Spec §4.5/§4.2: once a save is confirmed the console shows the saved
\* configuration: when the form was last filled by the effect from a
\* GET /proxy answer read before the confirmed save, it must still show
\* what that save stored (an older answer landing late must not revert it).
SavedConfigNotReverted ==
    (formFrom # Typed /\ formFrom < confirmedVer) => form = confirmedCfg

=============================================================================
