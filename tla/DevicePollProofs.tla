-------------------------- MODULE DevicePollProofs --------------------------
(***************************************************************************)
(* Proofs about the ['device'] query (DevicePoll): type correctness.       *)
(* DeviceEventuallyCurrent is a liveness property and is only             *)
(* model-checked.                                                          *)
(***************************************************************************)
EXTENDS DevicePoll, TLAPS

FetchType == [phase : {"idle", "sent", "answered", "backoff"},
              snap : Devices \cup {None}, retries : 0..MaxRetry]

LEMMA DeviceConstType == IdleFetch \in FetchType /\ NewFetch \in FetchType
BY DeviceConstAssumption DEF IdleFetch, NewFetch, FetchType

\* The gateway effect yields a device address or leaves the gateway.
LEMMA GatewayEffectType ==
    ASSUME gateway \in Ips \cup {DefaultGateway}, NEW old, NEW new
    PROVE  GatewayEffect(old, new) \in Ips \cup {DefaultGateway}
BY DEF GatewayEffect

LEMMA DeviceTypeInit == DeviceInit => DeviceTypeOK
BY DeviceConstAssumption, DeviceConstType
   DEF DeviceInit, DeviceTypeOK, FetchType, Devices

LEMMA DeviceTypeStep == DeviceTypeOK /\ [DeviceNext]_devVars => DeviceTypeOK'
<1> SUFFICES ASSUME DeviceTypeOK, [DeviceNext]_devVars PROVE DeviceTypeOK'
    OBVIOUS
<1> USE DeviceConstAssumption DEF DeviceTypeOK
<1>1. CASE DeviceChanges
    BY <1>1 DEF DeviceChanges
<1>2. CASE WindowBlurs
    <2>1. focusChanges' = focusChanges + 1 /\ focusChanges < MaxFocus
          /\ focused' = FALSE
        BY <1>2, Zenon DEF WindowBlurs
    <2>4. focusChanges' \in 0..MaxFocus
        BY <2>1, SMT
    <2>5. focused' \in BOOLEAN
        BY <2>1, Zenon
    <2>2. UNCHANGED <<deviceIp, changes, devData, devStatus, devFetch, failures,
                      gateway>>
        BY <1>2 DEF WindowBlurs
    <2>3. QED
        BY <2>4, <2>5, <2>2
<1>3. CASE WindowFocuses
    BY <1>3, DeviceConstType DEF WindowFocuses, FetchType
<1>4. CASE IntervalTick
    BY <1>4, DeviceConstType DEF IntervalTick, FetchType
<1>5. CASE ServerReadsDevice
    BY <1>5 DEF ServerReadsDevice
<1>6. CASE DeviceFetchSucceeds
    <2>1. gateway' \in Ips \cup {DefaultGateway}
        BY <1>6, GatewayEffectType DEF DeviceFetchSucceeds
    <2>2. QED
        BY <1>6, <2>1, DeviceConstType DEF DeviceFetchSucceeds, FetchType
<1>7. CASE DeviceFetchFails
    <2>1. CASE devFetch.retries < MaxRetry
        BY <1>7, <2>1 DEF DeviceFetchFails
    <2>2. CASE ~(devFetch.retries < MaxRetry)
        BY <1>7, <2>2, DeviceConstType DEF DeviceFetchFails, FetchType
    <2>3. QED
        BY <2>1, <2>2
<1>8. CASE RetryFires
    BY <1>8 DEF RetryFires
<1>9. CASE UNCHANGED devVars
    BY <1>9 DEF devVars
<1>10. QED
    BY <1>1, <1>2, <1>3, <1>4, <1>5, <1>6, <1>7, <1>8, <1>9 DEF DeviceNext

\* Every reachable state of the device query is well typed; in particular
\* the retryer never counts past react-query's retry limit.
THEOREM DeviceTypeCorrect == DeviceSpec => []DeviceTypeOK
BY DeviceTypeInit, DeviceTypeStep, PTL DEF DeviceSpec

=============================================================================
