------------------------- MODULE ServiceSyncProofs -------------------------
(***************************************************************************)
(* Proofs about the dashboard's service status (ServiceSync): type         *)
(* correctness, and that the dashboard implements the session contract    *)
(* SessionStream.                                                          *)
(***************************************************************************)
EXTENDS ServiceSync, SequenceTheorems, TLAPS

StreamItems == Versions \cup {Malformed, NotStatus}

-----------------------------------------------------------------------------
(* Type correctness.                                                       *)

LEMMA FetchConstType ==
    /\ IdleFetch \in [phase : {"idle", "sent", "answered"}, snapVer : Versions,
                      retries : 0..MaxRetry]
    /\ NewFetch \in [phase : {"idle", "sent", "answered"}, snapVer : Versions,
                     retries : 0..MaxRetry]
BY ServiceConstAssumption DEF IdleFetch, NewFetch, Versions

\* Appending a bounded item to the bounded stream keeps it typed.
LEMMA AppendType ==
    ASSUME NEW s \in Seq(StreamItems), NEW x \in StreamItems, Len(s) < MaxStream
    PROVE  /\ Append(s, x) \in Seq(StreamItems)
           /\ Len(Append(s, x)) <= MaxStream
<1>1. /\ Append(s, x) \in Seq(StreamItems)
      /\ Len(Append(s, x)) = Len(s) + 1
    BY AppendProperties
<1>2. Len(s) \in Nat
    BY LenProperties
<1>3. QED
    BY <1>1, <1>2, ServiceConstAssumption

\* Taking the head off the stream keeps it typed.
LEMMA TailType ==
    ASSUME NEW s \in Seq(StreamItems), s # <<>>, Len(s) <= MaxStream
    PROVE  /\ Tail(s) \in Seq(StreamItems)
           /\ Len(Tail(s)) <= MaxStream
           /\ Head(s) \in StreamItems
<1>1. /\ Head(s) \in StreamItems
      /\ Tail(s) \in Seq(StreamItems)
      /\ Len(Tail(s)) = Len(s) - 1
    BY HeadTailProperties
<1>2. Len(s) \in Nat
    BY LenProperties
<1>3. QED
    BY <1>1, <1>2, ServiceConstAssumption

LEMMA ServiceTypeInit == ServiceInit => ServiceTypeOK
<1> SUFFICES ASSUME ServiceInit PROVE ServiceTypeOK
    OBVIOUS
<1>1. stream \in Seq(StreamItems) /\ Len(stream) <= MaxStream
    <2>1. << >> \in Seq(StreamItems) /\ Len(<< >>) = 0
        BY EmptySeq
    <2>2. QED
        BY <2>1, ServiceConstAssumption DEF ServiceInit, Mount
<1>2. svcFetch \in [phase : {"idle", "sent", "answered"}, snapVer : Versions,
                    retries : 0..MaxRetry]
    BY FetchConstType DEF ServiceInit, Mount
<1>3. daemonVer \in Versions /\ svcData \in Versions \cup {None, NotStatus}
    BY ServiceConstAssumption DEF ServiceInit, Mount, Versions
<1>4. es \in {"connecting", "open", "closed"} /\ loggedIn \in BOOLEAN
      /\ wasOpen \in BOOLEAN
    BY DEF ServiceInit, Mount
<1>5. QED
    BY <1>1, <1>2, <1>3, <1>4 DEF ServiceTypeOK, StreamItems

LEMMA ServiceTypeStep == ServiceTypeOK /\ [ServiceNext]_svcVars => ServiceTypeOK'
<1> SUFFICES ASSUME ServiceTypeOK, [ServiceNext]_svcVars PROVE ServiceTypeOK'
    OBVIOUS
<1> USE ServiceConstAssumption
<1>1. CASE DaemonChange
    <2>1. daemonVer + 1 \in Versions
        BY <1>1 DEF DaemonChange, ServiceTypeOK, Versions
    <2>2. CASE es = "open" /\ Len(stream) < MaxStream
        BY <1>1, <2>1, <2>2, AppendType DEF DaemonChange, ServiceTypeOK, StreamItems
    <2>3. CASE ~(es = "open" /\ Len(stream) < MaxStream)
        BY <1>1, <2>1, <2>3 DEF DaemonChange, ServiceTypeOK
    <2>4. QED
        BY <2>2, <2>3
<1>2. CASE DaemonSendsMalformed
    BY <1>2, AppendType DEF DaemonSendsMalformed, ServiceTypeOK, StreamItems
<1>3. CASE StreamOpens \/ StreamDrops \/ StreamRejected
    <2>1. << >> \in Seq(StreamItems) /\ Len(<< >>) = 0
        BY EmptySeq
    <2>2. CASE StreamOpens
        BY <2>2 DEF StreamOpens, ServiceTypeOK
    <2>3. CASE StreamDrops
        BY <2>1, <2>3 DEF StreamDrops, ServiceTypeOK, StreamItems
    <2>4. CASE StreamRejected
        BY <2>4 DEF StreamRejected, ServiceTypeOK
    <2>5. QED
        BY <1>3, <2>2, <2>3, <2>4
<1>4. CASE ServiceStreamMessage
    <2>1. Tail(stream) \in Seq(StreamItems) /\ Len(Tail(stream)) <= MaxStream
          /\ Head(stream) \in StreamItems
        BY <1>4, TailType DEF ServiceStreamMessage, ServiceTypeOK, StreamItems
    <2>2. QED
        BY <1>4, <2>1 DEF ServiceStreamMessage, ServiceTypeOK, StreamItems
<1>5. CASE ServiceRefetch \/ ServerReadsService
    BY <1>5, FetchConstType DEF ServiceRefetch, ServerReadsService, ServiceTypeOK
<1>6. CASE ServiceFetchSucceeds
    BY <1>6, FetchConstType DEF ServiceFetchSucceeds, ServiceTypeOK
<1>7. CASE ServiceFetchFails
    BY <1>7, FetchConstType DEF ServiceFetchFails, ServiceTypeOK, NewFetch
<1>8. CASE Logout \/ Login
    <2>1. << >> \in Seq(StreamItems) /\ Len(<< >>) = 0
        BY EmptySeq
    <2>2. stream' \in Seq(StreamItems) /\ Len(stream') <= MaxStream
        <3>1. stream' = << >>
            BY <1>8, Zenon DEF Logout, Login
        <3>2. QED
            BY <2>1, <3>1
    <2>3. svcFetch' \in [phase : {"idle", "sent", "answered"}, snapVer : Versions,
                         retries : 0..MaxRetry]
        BY <1>8, FetchConstType DEF Logout, Login
    <2>4. /\ svcData' \in Versions \cup {None, NotStatus}
          /\ es' \in {"connecting", "open", "closed"}
          /\ loggedIn' \in BOOLEAN
          /\ daemonVer' \in Versions
          /\ wasOpen' \in BOOLEAN
        BY <1>8 DEF Logout, Login, ServiceTypeOK
    <2>5. QED
        BY <2>2, <2>3, <2>4 DEF ServiceTypeOK, StreamItems
<1>9. CASE UNCHANGED svcVars
    BY <1>9 DEF svcVars, ServiceTypeOK
<1>10. QED
    BY <1>1, <1>2, <1>3, <1>4, <1>5, <1>6, <1>7, <1>8, <1>9 DEF ServiceNext

\* Every reachable state of the dashboard model is well typed.
THEOREM ServiceTypeCorrect == ServiceSpec => []ServiceTypeOK
BY ServiceTypeInit, ServiceTypeStep, PTL DEF ServiceSpec

-----------------------------------------------------------------------------
(* Refinement of the session contract. Each step of the dashboard is a   *)
(* step of SessionStream under the mapping, or leaves its image unchanged. *)

LEMMA SessionInit == ServiceInit => Session!AbsInit
BY DEF ServiceInit, Mount, Session!AbsInit

LEMMA SessionStep ==
    ServiceTypeOK /\ [ServiceNext]_svcVars => [Session!AbsNext]_Session!absVars
<1> SUFFICES ASSUME ServiceTypeOK, [ServiceNext]_svcVars
             PROVE  [Session!AbsNext]_Session!absVars
    OBVIOUS
<1> USE ServiceConstAssumption
<1>1. CASE StreamRejected
    BY <1>1 DEF StreamRejected, Session!AbsNext, Session!Disconnect
<1>2. CASE ServiceStreamMessage
    <2>1. Head(stream) \in StreamItems
        BY <1>2, TailType DEF ServiceStreamMessage, ServiceTypeOK, StreamItems
    <2>2. CASE Head(stream) = Malformed
        BY <1>2, <2>2 DEF ServiceStreamMessage, Session!absVars
    <2>3. CASE Head(stream) # Malformed
        <3>1. svcData' \in Versions \cup {NotStatus}
            BY <1>2, <2>1, <2>3 DEF ServiceStreamMessage, StreamItems
        <3>2. svcData' # None
            BY <3>1 DEF Versions
        <3>3. QED
            BY <1>2, <3>2 DEF ServiceStreamMessage, Session!AbsNext, Session!Observe
    <2>4. QED
        BY <2>2, <2>3
<1>3. CASE ServiceFetchSucceeds
    <2>1. svcData' # None
        BY <1>3 DEF ServiceFetchSucceeds, ServiceTypeOK, Versions
    <2>2. QED
        BY <1>3, <2>1 DEF ServiceFetchSucceeds, Session!AbsNext, Session!Observe
<1>4. CASE Logout
    BY <1>4 DEF Logout, Session!AbsNext, Session!EndSession
<1>5. CASE Login
    BY <1>5 DEF Login, Session!AbsNext, Session!StartSession
<1>6. CASE \/ DaemonChange \/ DaemonSendsMalformed \/ StreamOpens \/ StreamDrops
           \/ ServiceRefetch \/ ServerReadsService \/ ServiceFetchFails
           \/ UNCHANGED svcVars
    BY <1>6 DEF DaemonChange, DaemonSendsMalformed, StreamOpens, StreamDrops,
                ServiceRefetch, ServerReadsService, ServiceFetchFails, svcVars,
                Session!absVars
<1>7. QED
    BY <1>1, <1>2, <1>3, <1>4, <1>5, <1>6 DEF ServiceNext

\* The dashboard implements the session contract of spec §5/§6: the
\* stream only lives, and the status is only written, within a session.
THEOREM SessionRefinement == ServiceSpec => SessionContract
<1>1. ServiceSpec => []ServiceTypeOK
    BY ServiceTypeCorrect
<1>2. QED
    BY <1>1, SessionInit, SessionStep, PTL
       DEF ServiceSpec, SessionContract, Session!AbsSpec

=============================================================================
