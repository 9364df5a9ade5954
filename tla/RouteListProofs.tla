-------------------------- MODULE RouteListProofs --------------------------
(***************************************************************************)
(* Proofs about the route editor (RouteList): type correctness, and that  *)
(* once the route list has loaded, a mutation's onSuccess refetch always   *)
(* leaves the list at least as new as the change it confirmed.             *)
(***************************************************************************)
EXTENDS RouteList, TLAPS

(***************************************************************************)
(* The inductive invariant behind LoadedRefetchShowsConfirmed. Versions   *)
(* the client holds (a mutation's result, a fetch's snapshot) never exceed *)
(* the daemon's; a fetch answered while the list is loaded read the table  *)
(* after the last change the client confirmed (onSuccess restarts any      *)
(* fetch in flight when data is present); and the list, when not           *)
(* invalidated, is at least that new.                                      *)
(***************************************************************************)
VersionsBounded ==
    /\ loadedConfirmedVer <= serverVer
    /\ add.phase = "applied" => add.ver <= serverVer
    /\ del.phase = "applied" => del.ver <= serverVer

AnsweredAfterConfirmed ==
    routesFetch.phase = "answered" => routesFetch.snapVer >= loadedConfirmedVer

FreshDataAfterConfirmed ==
    (data # None /\ ~isInvalidated) => dataVer >= loadedConfirmedVer

IInv ==
    /\ TypeOK
    /\ VersionsBounded
    /\ AnsweredAfterConfirmed
    /\ FreshDataAfterConfirmed

-----------------------------------------------------------------------------
(* Type correctness.                                                       *)

LEMMA EmptyTableType == EmptyTable \in Table
BY DEF EmptyTable, Table

LEMMA FetchConstType == IdleFetch \in FetchState /\ NewFetch \in FetchState
BY ConstAssumption, EmptyTableType DEF IdleFetch, NewFetch, FetchState, Versions

LEMMA IdleMutationType == IdleMutation \in Mutation
BY ConstAssumption DEF IdleMutation, Mutation, Versions

LEMMA NormalizeCidrType ==
    ASSUME NEW c \in CidrInputs
    PROVE  NormalizeCidr(c) \in CidrInputs
BY ConstAssumption DEF NormalizeCidr, CidrInputs

LEMMA QueryFetchType ==
    ASSUME TypeOK, NEW b \in BOOLEAN
    PROVE  QueryFetch(b) \in FetchState
BY FetchConstType DEF QueryFetch, TypeOK

\* Updating one point of a function keeps it in its function set, whether
\* or not the point is in the domain.
LEMMA ExceptType ==
    ASSUME NEW S, NEW T, NEW f \in [S -> T], NEW k, NEW v \in T
    PROVE  [f EXCEPT ![k] = v] \in [S -> T]
BY Zenon

LEMMA CidrsAreInputs == Cidrs \subseteq CidrInputs
BY DEF Cidrs, CidrInputs

LEMMA TypeInit == Init => TypeOK
<1> SUFFICES ASSUME Init PROVE TypeOK
    OBVIOUS
<1>1. server \in Table /\ data \in Table \cup {None}
    BY EmptyTableType DEF Init
<1>2. routesFetch \in FetchState /\ add \in Mutation /\ del \in Mutation
    BY FetchConstType, IdleMutationType DEF Init
<1>3. form \in [cidr : CidrInputs \cup {None}, gateway : Gateways, metric : Metrics]
    BY ConstAssumption DEF Init
<1>4. /\ serverVer \in Versions
      /\ dataVer \in Versions
      /\ confirmedVer \in Versions
      /\ loadedConfirmedVer \in Versions
    BY ConstAssumption DEF Init, Versions
<1>5. /\ isInvalidated \in BOOLEAN
      /\ isAddOpen \in BOOLEAN
      /\ deviceIp \in Gateways \cup {None}
    BY DEF Init
<1>6. QED
    BY <1>1, <1>2, <1>3, <1>4, <1>5 DEF TypeOK

LEMMA TypeStep == TypeOK /\ [Next]_vars => TypeOK'
<1> SUFFICES ASSUME TypeOK, [Next]_vars PROVE TypeOK'
    OBVIOUS
<1> USE ConstAssumption
<1>1. CASE RefreshClick
    BY <1>1, QueryFetchType DEF RefreshClick, TypeOK
<1>2. CASE ServerReadsRoutes
    BY <1>2 DEF ServerReadsRoutes, TypeOK, FetchState
<1>3. CASE FetchSucceeds
    BY <1>3, FetchConstType DEF FetchSucceeds, TypeOK, FetchState
<1>4. CASE FetchAttemptFails
    BY <1>4, FetchConstType DEF FetchAttemptFails, TypeOK, FetchState, NewFetch
<1>5. CASE OpenAdd \/ CloseAdd
    BY <1>5 DEF OpenAdd, CloseAdd, TypeOK
<1>6. CASE \E c \in CidrInputs : EditCidr(c)
    BY <1>6 DEF EditCidr, TypeOK
<1>7. CASE BlurCidr
    BY <1>7 DEF BlurCidr, TypeOK, CidrInputs
<1>8. CASE \E m \in Metrics : EditMetric(m)
    BY <1>8 DEF EditMetric, TypeOK
<1>9. CASE \E ip \in Gateways \cup {None} : DeviceUpdate(ip)
    BY <1>9 DEF DeviceUpdate, TypeOK
<1>10. CASE SubmitAdd
    <2>1. NormalizeCidr(form.cidr) \in CidrInputs
        BY <1>10, NormalizeCidrType DEF SubmitAdd, TypeOK
    <2>2. add' \in Mutation
        BY <1>10, <2>1 DEF SubmitAdd, TypeOK, Mutation, Versions
    <2>3. QED
        BY <1>10, <2>2 DEF SubmitAdd, TypeOK
<1>11. CASE \E c \in Cidrs : SubmitDelete(c)
    <2>1. PICK c \in Cidrs : SubmitDelete(c)
        BY <1>11
    <2>2. c \in CidrInputs
        BY CidrsAreInputs
    <2>3. del' = [phase |-> "sent", cidr |-> c, gateway |-> DefaultGateway,
                  metric |-> DefaultMetric, ver |-> 0]
        BY <2>1 DEF SubmitDelete, IdleMutation
    <2>4. del' \in Mutation
        BY <2>2, <2>3 DEF Mutation, Versions
    <2>5. QED
        BY <2>1, <2>4 DEF SubmitDelete, TypeOK
<1>12. CASE DaemonAddRoute
    <2>1. [gateway |-> add.gateway, metric |-> add.metric] \in Entry \cup {Absent}
        BY DEF TypeOK, Mutation, Entry
    <2>2. [server EXCEPT ![add.cidr] = [gateway |-> add.gateway, metric |-> add.metric]]
            \in Table
        BY <2>1, ExceptType, Zenon DEF TypeOK, Table
    <2>3. CASE /\ serverVer < MaxVersion
               /\ server' = [server EXCEPT ![add.cidr] =
                                [gateway |-> add.gateway, metric |-> add.metric]]
               /\ serverVer' = serverVer + 1
               /\ add' = [add EXCEPT !.phase = "applied", !.ver = serverVer + 1]
        <3>1. serverVer + 1 \in Versions
            BY <2>3 DEF TypeOK, Versions
        <3>2. add' \in Mutation
            BY <2>3, <3>1 DEF TypeOK, Mutation
        <3>3. QED
            BY <1>12, <2>2, <2>3, <3>1, <3>2 DEF DaemonAddRoute, TypeOK
    <2>4. CASE /\ add' = [add EXCEPT !.phase = "rejected"]
               /\ UNCHANGED <<server, serverVer>>
        <3>1. add' \in Mutation
            BY <2>4 DEF TypeOK, Mutation
        <3>2. QED
            BY <1>12, <2>4, <3>1 DEF DaemonAddRoute, TypeOK
    <2>5. QED
        BY <1>12, <2>3, <2>4 DEF DaemonAddRoute
<1>13. CASE DaemonDeleteRoute
    <2>1. Absent \in Entry \cup {Absent}
        OBVIOUS
    <2>2. [server EXCEPT ![del.cidr] = Absent] \in Table
        BY <2>1, ExceptType, Zenon DEF TypeOK, Table
    <2>3. CASE /\ serverVer < MaxVersion
               /\ server[del.cidr] # Absent
               /\ server' = [server EXCEPT ![del.cidr] = Absent]
               /\ serverVer' = serverVer + 1
               /\ del' = [del EXCEPT !.phase = "applied", !.ver = serverVer + 1]
        <3>1. serverVer + 1 \in Versions
            BY <2>3 DEF TypeOK, Versions
        <3>2. del' \in Mutation
            BY <2>3, <3>1 DEF TypeOK, Mutation
        <3>3. QED
            BY <1>13, <2>2, <2>3, <3>1, <3>2 DEF DaemonDeleteRoute, TypeOK
    <2>4. CASE /\ del' = [del EXCEPT !.phase = "rejected"]
               /\ UNCHANGED <<server, serverVer>>
        <3>1. del' \in Mutation
            BY <2>4 DEF TypeOK, Mutation
        <3>2. QED
            BY <1>13, <2>4, <3>1 DEF DaemonDeleteRoute, TypeOK
    <2>5. QED
        BY <1>13, <2>3, <2>4 DEF DaemonDeleteRoute
<1>14. CASE AddSuccess
    BY <1>14, QueryFetchType, IdleMutationType
       DEF AddSuccess, InvalidateRoutes, Confirm, Larger, TypeOK, Mutation, Versions
<1>15. CASE DeleteSuccess
    BY <1>15, QueryFetchType, IdleMutationType
       DEF DeleteSuccess, InvalidateRoutes, Confirm, Larger, TypeOK, Mutation, Versions
<1>16. CASE AddError \/ DeleteError
    BY <1>16, IdleMutationType DEF AddError, DeleteError, TypeOK
<1>17. CASE UNCHANGED vars
    BY <1>17 DEF vars, TypeOK
<1>18. QED
    BY <1>1, <1>2, <1>3, <1>4, <1>5, <1>6, <1>7, <1>8, <1>9, <1>10, <1>11,
       <1>12, <1>13, <1>14, <1>15, <1>16, <1>17 DEF Next

\* The route editor's state always has the types TypeOK gives it: in
\* particular a fetch's retry count never exceeds react-query's limit and
\* the daemon's table stays a function of canonical CIDRs.
THEOREM TypeCorrect == Spec => []TypeOK
BY TypeInit, TypeStep, PTL DEF Spec

-----------------------------------------------------------------------------
(* The refetch after a confirmed mutation, once the list has loaded.      *)

LEMMA QueryFetchCases ==
    /\ QueryFetch(TRUE) \in {NewFetch, routesFetch}
    /\ data # None => QueryFetch(TRUE) = NewFetch
    /\ NewFetch.phase = "sent"
BY DEF QueryFetch, NewFetch

LEMMA IInvInit == Init => IInv
<1> SUFFICES ASSUME Init PROVE IInv
    OBVIOUS
<1>1. TypeOK
    BY TypeInit
<1>2. VersionsBounded /\ AnsweredAfterConfirmed /\ FreshDataAfterConfirmed
    BY DEF Init, VersionsBounded, AnsweredAfterConfirmed, FreshDataAfterConfirmed,
           NewFetch, IdleMutation
<1>3. QED
    BY <1>1, <1>2 DEF IInv

\* A confirmation (onSuccess of either mutation) keeps the invariant: it
\* invalidates the query, and when data is present restarts the fetch.
LEMMA ConfirmStep ==
    ASSUME IInv, NEW v \in Versions, v <= serverVer,
           InvalidateRoutes, Confirm(v),
           UNCHANGED <<server, serverVer, data, dataVer>>,
           add'.phase # "applied" \/ add'.ver <= serverVer',
           del'.phase # "applied" \/ del'.ver <= serverVer'
    PROVE  VersionsBounded' /\ AnsweredAfterConfirmed' /\ FreshDataAfterConfirmed'
<1> USE DEF IInv, TypeOK, Versions
<1>1. VersionsBounded'
    BY DEF Confirm, Larger, VersionsBounded
<1>2. AnsweredAfterConfirmed'
    <2>1. CASE data # None
        BY <2>1, QueryFetchCases DEF InvalidateRoutes, AnsweredAfterConfirmed
    <2>2. CASE data = None
        BY <2>2, QueryFetchCases
           DEF InvalidateRoutes, Confirm, AnsweredAfterConfirmed
    <2>3. QED
        BY <2>1, <2>2
<1>3. FreshDataAfterConfirmed'
    BY DEF InvalidateRoutes, FreshDataAfterConfirmed
<1>4. QED
    BY <1>1, <1>2, <1>3

LEMMA IInvStep == IInv /\ [Next]_vars => IInv'
<1> SUFFICES ASSUME IInv, [Next]_vars PROVE IInv'
    OBVIOUS
<1>0. TypeOK'
    BY TypeStep DEF IInv
<1> DEFINE Rest == VersionsBounded /\ AnsweredAfterConfirmed /\ FreshDataAfterConfirmed
<1> SUFFICES Rest'
    BY <1>0 DEF IInv
<1> USE DEF IInv, TypeOK, Versions
<1>1. CASE RefreshClick
    BY <1>1, QueryFetchCases
       DEF RefreshClick, VersionsBounded, AnsweredAfterConfirmed, FreshDataAfterConfirmed
<1>2. CASE ServerReadsRoutes
    BY <1>2 DEF ServerReadsRoutes, VersionsBounded, AnsweredAfterConfirmed,
                FreshDataAfterConfirmed
<1>3. CASE FetchSucceeds
    BY <1>3 DEF FetchSucceeds, IdleFetch, VersionsBounded, AnsweredAfterConfirmed,
                FreshDataAfterConfirmed
<1>4. CASE FetchAttemptFails
    BY <1>4 DEF FetchAttemptFails, IdleFetch, NewFetch, VersionsBounded,
                AnsweredAfterConfirmed, FreshDataAfterConfirmed
<1>5. CASE \/ OpenAdd \/ CloseAdd \/ BlurCidr
           \/ \E c \in CidrInputs : EditCidr(c)
           \/ \E m \in Metrics : EditMetric(m)
           \/ \E ip \in Gateways \cup {None} : DeviceUpdate(ip)
    BY <1>5 DEF OpenAdd, CloseAdd, BlurCidr, EditCidr, EditMetric, DeviceUpdate,
                VersionsBounded, AnsweredAfterConfirmed, FreshDataAfterConfirmed
<1>6. CASE SubmitAdd
    BY <1>6 DEF SubmitAdd, VersionsBounded, AnsweredAfterConfirmed,
                FreshDataAfterConfirmed
<1>7. CASE \E c \in Cidrs : SubmitDelete(c)
    BY <1>7 DEF SubmitDelete, IdleMutation, VersionsBounded, AnsweredAfterConfirmed,
                FreshDataAfterConfirmed
<1>8. CASE DaemonAddRoute
    <2>1. UNCHANGED <<data, dataVer, isInvalidated, routesFetch, del, loadedConfirmedVer>>
        BY <1>8 DEF DaemonAddRoute
    <2>2. serverVer' >= serverVer
        BY <1>8 DEF DaemonAddRoute
    <2>3. add'.phase = "applied" => add'.ver <= serverVer'
        <3>1. CASE add' = [add EXCEPT !.phase = "applied", !.ver = serverVer + 1]
                   /\ serverVer' = serverVer + 1
            BY <3>1 DEF Mutation
        <3>2. CASE add' = [add EXCEPT !.phase = "rejected"]
            BY <3>2 DEF Mutation
        <3>3. QED
            BY <1>8, <3>1, <3>2 DEF DaemonAddRoute
    <2>4. VersionsBounded'
        BY <1>0, <2>1, <2>2, <2>3 DEF VersionsBounded, Mutation
    <2>5. AnsweredAfterConfirmed' /\ FreshDataAfterConfirmed'
        BY <2>1 DEF AnsweredAfterConfirmed, FreshDataAfterConfirmed
    <2>6. QED
        BY <2>4, <2>5
<1>9. CASE DaemonDeleteRoute
    <2>1. UNCHANGED <<data, dataVer, isInvalidated, routesFetch, add, loadedConfirmedVer>>
        BY <1>9 DEF DaemonDeleteRoute
    <2>2. serverVer' >= serverVer
        BY <1>9 DEF DaemonDeleteRoute
    <2>3. del'.phase = "applied" => del'.ver <= serverVer'
        <3>1. CASE del' = [del EXCEPT !.phase = "applied", !.ver = serverVer + 1]
                   /\ serverVer' = serverVer + 1
            BY <3>1 DEF Mutation
        <3>2. CASE del' = [del EXCEPT !.phase = "rejected"]
            BY <3>2 DEF Mutation
        <3>3. QED
            BY <1>9, <3>1, <3>2 DEF DaemonDeleteRoute
    <2>4. VersionsBounded'
        BY <1>0, <2>1, <2>2, <2>3 DEF VersionsBounded, Mutation
    <2>5. AnsweredAfterConfirmed' /\ FreshDataAfterConfirmed'
        BY <2>1 DEF AnsweredAfterConfirmed, FreshDataAfterConfirmed
    <2>6. QED
        BY <2>4, <2>5
<1>10. CASE AddSuccess
    <2>1. add.ver \in Versions /\ add.ver <= serverVer
        BY <1>10 DEF AddSuccess, VersionsBounded, Mutation
    <2>2. add'.phase # "applied" /\ del' = del
        BY <1>10 DEF AddSuccess, IdleMutation
    <2>3. QED
        BY <1>10, <2>1, <2>2, ConfirmStep DEF AddSuccess, VersionsBounded
<1>11. CASE DeleteSuccess
    <2>1. del.ver \in Versions /\ del.ver <= serverVer
        BY <1>11 DEF DeleteSuccess, VersionsBounded, Mutation
    <2>2. del'.phase # "applied" /\ add' = add
        BY <1>11 DEF DeleteSuccess, IdleMutation
    <2>3. QED
        BY <1>11, <2>1, <2>2, ConfirmStep DEF DeleteSuccess, VersionsBounded
<1>12. CASE AddError \/ DeleteError
    BY <1>12 DEF AddError, DeleteError, IdleMutation, VersionsBounded,
                 AnsweredAfterConfirmed, FreshDataAfterConfirmed
<1>13. CASE UNCHANGED vars
    BY <1>13 DEF vars, VersionsBounded, AnsweredAfterConfirmed, FreshDataAfterConfirmed
<1>14. QED
    BY <1>1, <1>2, <1>3, <1>4, <1>5, <1>6, <1>7, <1>8, <1>9, <1>10, <1>11,
       <1>12, <1>13 DEF Next

LEMMA IInvImpliesProperty == IInv => LoadedRefetchShowsConfirmed
BY DEF IInv, FreshDataAfterConfirmed, LoadedRefetchShowsConfirmed

\* Once the route list has loaded, whenever the ['routes'] query is idle
\* and not invalidated its data is at least as new as every change a
\* mutation's onSuccess confirmed: the invalidation in onSuccess cancels a
\* fetch that read the table before the change (RouteList.tsx:53, 69).
THEOREM LoadedRefetchCorrect == Spec => []LoadedRefetchShowsConfirmed
BY IInvInit, IInvStep, IInvImpliesProperty, PTL DEF Spec

=============================================================================
