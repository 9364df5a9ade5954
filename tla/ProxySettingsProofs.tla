------------------------ MODULE ProxySettingsProofs ------------------------
(***************************************************************************)
(* Proofs about the proxy configuration card (ProxySettings): type         *)
(* correctness for every set of types and addresses and every bound on    *)
(* saves and retries.                                                      *)
(***************************************************************************)
EXTENDS ProxySettings, TLAPS

FetchType == [phase : {"idle", "sent", "answered"},
              snap : StoredCfgs \cup {None}, snapVer : Versions,
              retries : 0..MaxRetry]
SaveType == [phase : {"idle", "sent", "applied", "rejected"},
             cfg : FormCfgs \cup {None}, ver : Versions]

\* ProxyTypeOK is not inductive as it stands: an answered fetch must hold a
\* configuration (ProxyFetchSucceeds stores and converts it) and a save in
\* flight must hold the form it submitted (SaveSuccess records it).
AnsweredHasSnap == proxyFetch.phase = "answered" => proxyFetch.snap \in StoredCfgs
SaveHasCfg == save.phase # "idle" => save.cfg \in FormCfgs

ProxyInv ==
    /\ ProxyTypeOK
    /\ AnsweredHasSnap
    /\ SaveHasCfg

-----------------------------------------------------------------------------
(* Lemmas about the constant records and the conversion.                   *)

LEMMA ProxyConstType ==
    /\ IdleFetch \in FetchType
    /\ NewFetch \in FetchType
    /\ IdleSave \in SaveType
BY ProxyConstAssumption DEF IdleFetch, NewFetch, IdleSave, FetchType, SaveType,
                            Versions

\* The effect's conversion turns any stored configuration into one the
\* form can hold: the empty type falls back to the default.
LEMMA ToFormType ==
    ASSUME NEW c \in StoredCfgs
    PROVE  ToForm(c) \in FormCfgs
BY ProxyConstAssumption DEF ToForm, StoredCfgs, FormCfgs

\* A configuration the form holds is one the daemon can store.
LEMMA FormIsStored == FormCfgs \subseteq StoredCfgs
BY DEF FormCfgs, StoredCfgs

-----------------------------------------------------------------------------
(* The inductive invariant.                                                *)

LEMMA ProxyInvInit == ProxyInit => ProxyInv
<1> SUFFICES ASSUME ProxyInit PROVE ProxyInv
    OBVIOUS
<1>1. proxyFetch \in FetchType /\ save \in SaveType
    BY ProxyConstType DEF ProxyInit
<1>2. form \in FormCfgs
    BY ProxyConstAssumption DEF ProxyInit, FormCfgs
<1>3. /\ daemonCfg \in StoredCfgs /\ daemonVer \in Versions
      /\ proxyData = None /\ formFrom = Typed
      /\ confirmedVer \in Versions /\ confirmedCfg = None
    BY ProxyConstAssumption DEF ProxyInit, Versions
<1>4. AnsweredHasSnap /\ SaveHasCfg
    BY DEF ProxyInit, NewFetch, IdleSave, AnsweredHasSnap, SaveHasCfg
<1>5. QED
    BY <1>1, <1>2, <1>3, <1>4 DEF ProxyInv, ProxyTypeOK, FetchType, SaveType

LEMMA ProxyInvStep == ProxyInv /\ [ProxyNext]_proxyVars => ProxyInv'
<1> SUFFICES ASSUME ProxyInv, [ProxyNext]_proxyVars PROVE ProxyInv'
    OBVIOUS
<1> USE ProxyConstAssumption
<1> USE DEF ProxyInv, ProxyTypeOK, AnsweredHasSnap, SaveHasCfg, FetchType,
            SaveType
<1>1. CASE ProxyRefetch
    BY <1>1, ProxyConstType DEF ProxyRefetch, NewFetch
<1>2. CASE ServerReadsProxy
    BY <1>2 DEF ServerReadsProxy
<1>3. CASE ProxyFetchSucceeds
    <2>1. proxyFetch.snap \in StoredCfgs
        BY <1>3 DEF ProxyFetchSucceeds
    <2>2. ToForm(proxyFetch.snap) \in FormCfgs
        BY <2>1, ToFormType
    <2>3. proxyData' \in [cfg : StoredCfgs, ver : Versions]
        BY <1>3, <2>1 DEF ProxyFetchSucceeds
    <2>4. QED
        BY <1>3, <2>2, <2>3, ProxyConstType DEF ProxyFetchSucceeds, IdleFetch
<1>4. CASE ProxyFetchFails
    BY <1>4, ProxyConstType DEF ProxyFetchFails, NewFetch, IdleFetch
<1>5. CASE \E t \in Types : HandleChange("type", t)
    BY <1>5 DEF HandleChange, FormCfgs
<1>6. CASE \E a \in Addrs \cup {EmptyAddr} : HandleChange("address", a)
    BY <1>6 DEF HandleChange, FormCfgs
<1>7. CASE HandleSubmit
    BY <1>7 DEF HandleSubmit, Versions
<1>8. CASE DaemonSavesProxy
    <2>1. save.cfg \in FormCfgs
        BY <1>8 DEF DaemonSavesProxy
    <2>2. save.cfg \in StoredCfgs
        BY <2>1, FormIsStored
    <2>3. CASE /\ daemonVer < MaxVersion
               /\ daemonCfg' = save.cfg
               /\ daemonVer' = daemonVer + 1
               /\ save' = [save EXCEPT !.phase = "applied", !.ver = daemonVer + 1]
        <3>1. daemonVer + 1 \in Versions
            BY <2>3 DEF Versions
        <3>2. QED
            BY <1>8, <2>1, <2>2, <2>3, <3>1 DEF DaemonSavesProxy
    <2>4. CASE /\ save' = [save EXCEPT !.phase = "rejected"]
               /\ UNCHANGED <<daemonCfg, daemonVer>>
        BY <1>8, <2>1, <2>4 DEF DaemonSavesProxy
    <2>5. QED
        BY <1>8, <2>3, <2>4 DEF DaemonSavesProxy
<1>9. CASE SaveSuccess
    BY <1>9, ProxyConstType DEF SaveSuccess, IdleSave
<1>10. CASE SaveError
    BY <1>10, ProxyConstType DEF SaveError, IdleSave
<1>11. CASE UNCHANGED proxyVars
    BY <1>11 DEF proxyVars
<1>12. QED
    BY <1>1, <1>2, <1>3, <1>4, <1>5, <1>6, <1>7, <1>8, <1>9, <1>10, <1>11
       DEF ProxyNext

-----------------------------------------------------------------------------
(* The theorems.                                                           *)

\* Every reachable state of the card is well typed: the query, the form,
\* the save mutation and the daemon's configuration.
THEOREM ProxyTypeCorrect == ProxySpec => []ProxyTypeOK
<1>1. ProxyInv => ProxyTypeOK
    BY DEF ProxyInv
<1>2. QED
    BY <1>1, ProxyInvInit, ProxyInvStep, PTL DEF ProxySpec

=============================================================================
