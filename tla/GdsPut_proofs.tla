--------------------------- MODULE GdsPut_proofs ---------------------------
(***************************************************************************)
(* Proofs about one PUT end to end, for every number of clients, attempts  *)
(* and deliveries: whatever is lost, resent, delayed or restarted, a       *)
(* verified success has transferred the data.                              *)
(***************************************************************************)
EXTENDS GdsPut, TLAPS

\* The pairs that stand for attempts and deliveries.
LEMMA PairFacts ==
  /\ \A a \in Attempts : a[1] \in Clients /\ a[2] \in 1 .. MaxAttempts
  /\ \A d \in Deliveries : d[1] \in Attempts /\ d[2] \in Copies
  /\ \A d \in Deliveries : d = <<d[1], d[2]>>
  /\ \A a \in Attempts, k \in Copies : <<a, k>> \in Deliveries
  /\ \A c \in Clients, k \in 1 .. MaxAttempts : <<c, k>> \in Attempts
BY DEF Attempts, Deliveries

LEMMA AttemptIdType ==
  ASSUME TypeOK, NEW c \in Clients
  PROVE  AttemptId(c) \in Attempts
BY PairFacts DEF AttemptId, TypeOK

-----------------------------------------------------------------------------
(* Types *)
LEMMA ClientTypes ==
  ASSUME TypeOK, NEW c \in Clients, Client(c) \/ Reuse(c)
  PROVE  TypeOK'
<1>1. AttemptId(c) \in Attempts
  BY AttemptIdType
<1>2. CASE \/ Refuse(c) \/ PutObject(c) \/ DeadlineExceeded(c)
           \/ OpenSessionOk(c) \/ OpenSessionFails(c) \/ ReturnFailed(c)
           \/ Reuse(c)
  BY <1>2
  DEF Refuse, PutObject, DeadlineExceeded, OpenSessionOk, OpenSessionFails,
      ReturnFailed, Reuse, netVars, backendVars, TypeOK, Contents
<1>3. CASE OpenSession(c)
  BY <1>1, <1>3 DEF OpenSession, backendVars, TypeOK
<1>4. CASE AcquireToken(c)
  BY <1>1, <1>4 DEF AcquireToken, backendVars, TypeOK
<1>5. CASE AttemptFails(c) \/ CrcMismatch(c)
  BY <1>1, <1>5
  DEF AttemptFails, CrcMismatch, backendVars, TypeOK
<1>6. CASE GdsPutOk(c)
  BY <1>1, <1>6 DEF GdsPutOk, netVars, backendVars, TypeOK
<1>7. CASE ReturnOk(c)
  BY <1>1, <1>7 DEF ReturnOk, netVars, backendVars, TypeOK
<1>8. CASE NextAttempt(c)
  <2>1. n' \in [Clients -> 1 .. MaxAttempts]
    BY <1>8, PutAssumption DEF NextAttempt, TypeOK
  <2> QED BY <1>8, <2>1 DEF NextAttempt, netVars, backendVars, TypeOK
<1> QED BY <1>2, <1>3, <1>4, <1>5, <1>6, <1>7, <1>8 DEF Client

LEMMA ProxyTypes ==
  ASSUME TypeOK, Proxy
  PROVE  TypeOK'
<1>1. ASSUME NEW a \in Attempts, ProxyOpen(a) PROVE TypeOK'
  BY <1>1 DEF ProxyOpen, Table!Open, clientVars, backendVars, TypeOK
<1>2. ASSUME NEW m \in reports, ProxyReport(m) PROVE TypeOK'
  <2>1. m[1] \in Attempts /\ m[2] \in Contents
    BY DEF TypeOK
  <2>2. session' \in [Attempts -> Contents \cup {Absent, Pending}]
    BY <1>2, <2>1 DEF ProxyReport, Table!Report, TypeOK
  <2> QED BY <1>2, <2>2
          DEF ProxyReport, clientVars, netVars, backendVars, TypeOK
<1>3. CASE ProxyRestart
  BY <1>3 DEF ProxyRestart, clientVars, netVars, backendVars, TypeOK
<1> QED BY <1>1, <1>2, <1>3 DEF Proxy

LEMMA BackendTypes ==
  ASSUME TypeOK, \A d \in Deliveries : HandlerKnows(d), Backend
  PROVE  TypeOK'
<1>1. ASSUME NEW d \in Deliveries, StartRead(d) \/ ReadFails(d) PROVE TypeOK'
  BY <1>1 DEF StartRead, ReadFails, clientVars, netVars, TypeOK
<1>2. ASSUME NEW d \in Deliveries, ReadOk(d) PROVE TypeOK'
  <2>1. memory[d[1][1]] \in Contents /\ "short" \in Contents
    BY PairFacts DEF TypeOK, Contents
  <2>2. received' \in [Deliveries -> Contents \cup {"nothing"}]
    BY <1>2, <2>1 DEF ReadOk, TypeOK
  <2> QED BY <1>2, <2>2 DEF ReadOk, clientVars, netVars, TypeOK
<1>3. ASSUME NEW d \in Deliveries, NotifyProxy(d) PROVE TypeOK'
  <2>1. <<d[1], received[d]>> \in Attempts \X Contents
    BY <1>3, PairFacts DEF NotifyProxy, HandlerKnows
  <2> QED BY <1>3, <2>1 DEF NotifyProxy, clientVars, TypeOK
<1>4. ASSUME NEW d \in Deliveries, ReplyGdsPut(d) PROVE TypeOK'
  <2>1. <<d[1], Crc32c(received[d])>> \in Attempts \X (Contents \cup {Zero})
    BY <1>4, PairFacts DEF ReplyGdsPut, HandlerKnows, Crc32c
  <2> QED BY <1>4, <2>1 DEF ReplyGdsPut, clientVars, TypeOK
<1>5. CASE BackendRestart
  BY <1>5 DEF BackendRestart, clientVars, netVars, TypeOK
<1> QED BY <1>1, <1>2, <1>3, <1>4, <1>5 DEF Backend

-----------------------------------------------------------------------------
(* The client *)

\* What has been read stays read, and a client does not touch it.
LEMMA ClientFrame ==
  ASSUME NEW c \in Clients, Client(c) \/ Reuse(c)
  PROVE  UNCHANGED <<session, replies, reports, hpc, received>>
BY DEF Client, Refuse, PutObject, DeadlineExceeded, OpenSession,
       OpenSessionOk, OpenSessionFails, AcquireToken, AttemptFails, GdsPutOk,
       CrcMismatch, ReturnOk, NextAttempt, ReturnFailed, Reuse, netVars,
       backendVars

\* A reply whose checksum is that of the data was computed from the data.
LEMMA DataReply ==
  ASSUME RepliesTrue, NEW a, <<a, "data">> \in replies
  PROVE  HasRead(a, "data")
<1>1. PICK x \in Contents : "data" = Crc32c(x) /\ HasRead(a, x)
  BY DEF RepliesTrue
<1>2. x = "data"
  BY <1>1 DEF Crc32c, Zero, Contents
<1> QED BY <1>1, <1>2

LEMMA ClientVerified ==
  ASSUME PutInv, NEW c \in Clients, Client(c) \/ Reuse(c)
  PROVE  (\A u \in Clients : ClientKnows(u)') /\ VerifiedIntact'
<1>0. TypeOK /\ ClientKnows(c) /\ RepliesTrue
  BY DEF PutInv
<1>1. UNCHANGED <<replies, received>>
  BY ClientFrame
<1>2. \A u \in Clients \ {c} :
        /\ cpc'[u] = cpc[u] /\ n'[u] = n[u] /\ result'[u] = result[u]
        /\ crc'[u] = crc[u] /\ memory'[u] = memory[u]
  BY <1>0
  DEF Client, Refuse, PutObject, DeadlineExceeded, OpenSession,
      OpenSessionOk, OpenSessionFails, AcquireToken, AttemptFails, GdsPutOk,
      CrcMismatch, ReturnOk, NextAttempt, ReturnFailed, Reuse, TypeOK
<1>3. \A u \in Clients \ {c} : ClientKnows(u)'
  BY <1>1, <1>2 DEF PutInv, ClientKnows, AttemptId
<1>4. /\ ClientKnows(c)'
      /\ Verify /\ result'[c] = "ok" => HasRead(<<c, n[c]>>, "data")
      /\ result'[c] = "ok" => n'[c] = n[c]
  <2>1. CASE GdsPutOk(c)
    BY <1>0, <1>1, <2>1
    DEF GdsPutOk, netVars, TypeOK, ClientKnows, AttemptId
  <2>2. CASE ReturnOk(c)
    <3>1. /\ cpc[c] = "verify" /\ cpc'[c] = "returned" /\ n' = n
          /\ Verify => memory[c] = crc[c]
      BY <1>0, <2>2 DEF ReturnOk, CrcMatches, TypeOK
    <3>2. memory[c] = "data" /\ <<<<c, n[c]>>, crc[c]>> \in replies
      BY <1>0, <3>1 DEF ClientKnows, AttemptId
    <3>3. Verify => HasRead(<<c, n[c]>>, "data")
      BY <1>0, <3>1, <3>2, DataReply
    <3> QED BY <3>1, <3>3 DEF ClientKnows
  <2>3. CASE Reuse(c)
    BY <1>0, <2>3 DEF Reuse, TypeOK, ClientKnows, PutInv, VerifiedIntact
  <2>4. CASE Refuse(c) \/ ReturnFailed(c)
    BY <1>0, <2>4 DEF Refuse, ReturnFailed, TypeOK, ClientKnows
  <2>5. CASE \/ PutObject(c) \/ DeadlineExceeded(c) \/ OpenSession(c)
             \/ OpenSessionOk(c) \/ OpenSessionFails(c) \/ AcquireToken(c)
             \/ AttemptFails(c) \/ CrcMismatch(c) \/ NextAttempt(c)
    <3>1. /\ cpc[c] # "returned" /\ cpc'[c] \notin {"verify", "returned"}
          /\ memory' = memory /\ result' = result
      BY <1>0, <2>5
      DEF PutObject, DeadlineExceeded, OpenSession, OpenSessionOk,
          OpenSessionFails, AcquireToken, AttemptFails, CrcMismatch,
          NextAttempt, TypeOK
    <3> QED BY <1>0, <3>1 DEF ClientKnows
  <2> QED BY <2>1, <2>2, <2>3, <2>4, <2>5 DEF Client
<1>5. ASSUME NEW u \in Clients, Verify, result'[u] = "ok"
      PROVE  \E k \in Copies : received'[<<<<u, n'[u]>>, k>>] = "data"
  <2>1. HasRead(<<u, n[u]>>, "data") /\ n'[u] = n[u]
    BY <1>2, <1>4, <1>5 DEF PutInv, VerifiedIntact
  <2> QED BY <1>1, <2>1 DEF HasRead
<1>6. VerifiedIntact'
  BY <1>5 DEF VerifiedIntact, HasRead
<1> QED BY <1>3, <1>4, <1>6

LEMMA ClientKeeps ==
  ASSUME PutInv, NEW c \in Clients, Client(c) \/ Reuse(c)
  PROVE  PutInv'
<1>1. UNCHANGED <<session, replies, reports, hpc, received>>
  BY ClientFrame
<1>2. /\ \A d \in Deliveries : HandlerKnows(d)'
      /\ ReportsTrue' /\ RepliesTrue' /\ CompletedHasTransfer'
  <2>1. /\ \A d \in Deliveries : HandlerKnows(d)
        /\ ReportsTrue /\ RepliesTrue /\ CompletedHasTransfer
    BY DEF PutInv
  <2>2. /\ session' = session /\ replies' = replies /\ reports' = reports
        /\ hpc' = hpc /\ received' = received
    BY <1>1
  <2>3. \A d \in Deliveries : HandlerKnows(d)'
    BY <2>1, <2>2 DEF HandlerKnows
  <2>4. ReportsTrue'
    BY <2>1, <2>2 DEF ReportsTrue, HasRead
  <2>5. RepliesTrue'
    BY <2>1, <2>2 DEF RepliesTrue, HasRead
  <2>6. CompletedHasTransfer'
    BY <2>1, <2>2 DEF CompletedHasTransfer, HasRead
  <2> QED BY <2>3, <2>4, <2>5, <2>6
<1>3. TypeOK'
  BY ClientTypes DEF PutInv
<1> QED BY <1>2, <1>3, ClientVerified DEF PutInv

-----------------------------------------------------------------------------
(* The proxy *)
LEMMA ProxyKeeps ==
  ASSUME PutInv, Proxy
  PROVE  PutInv'
<1>0. TypeOK /\ TypeOK' /\ CompletedHasTransfer /\ ReportsTrue
  BY ProxyTypes DEF PutInv
<1>1. UNCHANGED <<clientVars, replies, reports, hpc, received>>
  BY DEF Proxy, ProxyOpen, ProxyReport, ProxyRestart, netVars, backendVars
<1>2. CompletedHasTransfer'
  <2> SUFFICES ASSUME NEW a \in Attempts, session'[a] \in Contents
               PROVE  \E k \in Copies : received'[<<a, k>>] = session'[a]
    BY DEF CompletedHasTransfer, HasRead
  <2>1. ASSUME session'[a] = session[a]
        PROVE  \E k \in Copies : received'[<<a, k>>] = session'[a]
    BY <1>0, <1>1, <2>1 DEF CompletedHasTransfer, HasRead
  <2>2. ASSUME NEW b \in Attempts, ProxyOpen(b)
        PROVE  session'[a] = session[a]
    BY <1>0, <2>2 DEF ProxyOpen, Table!Open, TypeOK, Contents, Pending
  <2>3. ASSUME NEW m \in reports, ProxyReport(m), session'[a] # session[a]
        PROVE  \E k \in Copies : received'[<<a, k>>] = session'[a]
    <3>1. m[1] = a /\ session'[a] = m[2]
      BY <1>0, <2>3 DEF ProxyReport, Table!Report, TypeOK
    <3>2. HasRead(a, session'[a])
      BY <1>0, <3>1 DEF ReportsTrue
    <3> QED BY <1>1, <3>2 DEF HasRead
  <2>4. ~ProxyRestart
    BY DEF ProxyRestart, Contents, Absent
  <2> QED BY <2>1, <2>2, <2>3, <2>4 DEF Proxy
<1>3. /\ (\A d \in Deliveries : HandlerKnows(d)')
      /\ ReportsTrue' /\ RepliesTrue'
  BY <1>1 DEF PutInv, HandlerKnows, ReportsTrue, RepliesTrue, HasRead
<1>4. (\A c \in Clients : ClientKnows(c)') /\ VerifiedIntact'
  BY <1>1
  DEF PutInv, clientVars, ClientKnows, AttemptId, VerifiedIntact, HasRead
<1> QED BY <1>0, <1>2, <1>3, <1>4 DEF PutInv

-----------------------------------------------------------------------------
(* The backend *)

\* A handler reads once: what a delivery has read, it keeps.
LEMMA ReadsKept ==
  ASSUME PutInv, Backend
  PROVE  /\ \A d \in Deliveries : HandlerKnows(d)'
         /\ \A a \in Attempts, x \in Contents :
              HasRead(a, x) => HasRead(a, x)'
<1>0. TypeOK /\ \A d \in Deliveries : HandlerKnows(d)
  BY DEF PutInv
<1>1. ASSUME NEW d \in Deliveries, received[d] # "nothing"
      PROVE  received'[d] = received[d]
  BY <1>0, <1>1
  DEF Backend, StartRead, ReadOk, ReadFails, NotifyProxy, ReplyGdsPut,
      BackendRestart, HandlerKnows, TypeOK
<1>2. ASSUME NEW a \in Attempts, NEW x \in Contents, HasRead(a, x)
      PROVE  HasRead(a, x)'
  <2>1. PICK k \in Copies : received[<<a, k>>] = x
    BY <1>2 DEF HasRead
  <2>2. <<a, k>> \in Deliveries /\ x # "nothing"
    BY PairFacts DEF Contents
  <2>3. received'[<<a, k>>] = x
    BY <1>1, <2>1, <2>2
  <2> QED BY <2>3 DEF HasRead
<1>3. ASSUME NEW d \in Deliveries PROVE HandlerKnows(d)'
  <2>1. ASSUME NEW e \in Deliveries,
               \/ StartRead(e) \/ ReadFails(e) \/ NotifyProxy(e)
               \/ ReplyGdsPut(e)
        PROVE  HandlerKnows(d)'
    BY <1>0, <2>1
    DEF StartRead, ReadFails, NotifyProxy, ReplyGdsPut, HandlerKnows, TypeOK
  <2>2. ASSUME NEW e \in Deliveries, ReadOk(e)
        PROVE  HandlerKnows(d)'
    <3>1. memory[e[1][1]] \in Contents /\ "short" \in Contents
      BY <1>0, PairFacts DEF TypeOK, Contents
    <3> QED BY <1>0, <2>2, <3>1 DEF ReadOk, HandlerKnows, TypeOK
  <2>3. CASE BackendRestart
    BY <1>0, <2>3 DEF BackendRestart, HandlerKnows, TypeOK
  <2> QED BY <2>1, <2>2, <2>3 DEF Backend
<1> QED BY <1>2, <1>3

LEMMA BackendKeeps ==
  ASSUME PutInv, Backend
  PROVE  PutInv'
<1>0. TypeOK /\ TypeOK' /\ \A d \in Deliveries : HandlerKnows(d)
  BY BackendTypes DEF PutInv
<1>1. UNCHANGED <<clientVars, session>> /\ replies \subseteq replies'
  BY DEF Backend, StartRead, ReadOk, ReadFails, NotifyProxy, ReplyGdsPut,
         BackendRestart, netVars
<1>2. \A a \in Attempts, x \in Contents : HasRead(a, x) => HasRead(a, x)'
  BY ReadsKept
<1>3. ASSUME NEW d \in Deliveries, received[d] \in Contents
      PROVE  HasRead(d[1], received[d])
  BY <1>3, PairFacts DEF HasRead
<1>4. ReportsTrue'
  <2> SUFFICES ASSUME NEW m \in reports'
               PROVE  HasRead(m[1], m[2])'
    BY DEF ReportsTrue, HasRead
  <2>1. m[1] \in Attempts /\ m[2] \in Contents
    BY <1>0 DEF TypeOK
  <2>2. CASE m \in reports
    BY <1>2, <2>1, <2>2 DEF PutInv, ReportsTrue
  <2>3. CASE m \notin reports
    <3>1. PICK d \in Deliveries : NotifyProxy(d) /\ m = <<d[1], received[d]>>
      BY <2>3
      DEF Backend, StartRead, ReadOk, ReadFails, NotifyProxy, ReplyGdsPut,
          BackendRestart, netVars
    <3>2. HasRead(m[1], m[2])
      BY <1>3, <2>1, <3>1
    <3> QED BY <1>2, <2>1, <3>2
  <2> QED BY <2>2, <2>3
<1>5. RepliesTrue'
  <2> SUFFICES ASSUME NEW m \in replies'
               PROVE  \E x \in Contents :
                        m[2] = Crc32c(x) /\ HasRead(m[1], x)'
    BY DEF RepliesTrue, HasRead, Crc32c
  <2>1. m[1] \in Attempts
    BY <1>0 DEF TypeOK
  <2>2. CASE m \in replies
    BY <1>2, <2>1, <2>2 DEF PutInv, RepliesTrue
  <2>3. CASE m \notin replies
    <3>1. PICK d \in Deliveries :
            ReplyGdsPut(d) /\ m = <<d[1], Crc32c(received[d])>>
      BY <2>3
      DEF Backend, StartRead, ReadOk, ReadFails, NotifyProxy, ReplyGdsPut,
          BackendRestart, netVars
    <3>2. PICK x : x = received[d]
      OBVIOUS
    <3>3. x \in Contents
      BY <1>0, <3>1, <3>2 DEF ReplyGdsPut, HandlerKnows
    <3>4. HasRead(m[1], x) /\ m[2] = Crc32c(x)
      BY <1>3, <3>1, <3>2, <3>3
    <3> QED BY <1>2, <2>1, <3>3, <3>4
  <2> QED BY <2>2, <2>3
<1>6. CompletedHasTransfer'
  <2> SUFFICES ASSUME NEW a \in Attempts, session[a] \in Contents
               PROVE  HasRead(a, session[a])'
    BY <1>1 DEF CompletedHasTransfer, HasRead
  <2>1. PICK x \in Contents : x = session[a]
    OBVIOUS
  <2>2. HasRead(a, x)'
    BY <1>2, <2>1 DEF PutInv, CompletedHasTransfer
  <2> QED BY <1>1, <2>1, <2>2 DEF HasRead
<1>7. \A c \in Clients : ClientKnows(c)'
  BY <1>1 DEF PutInv, clientVars, ClientKnows, AttemptId
<1>8. VerifiedIntact'
  <2> SUFFICES ASSUME NEW c \in Clients, Verify, result[c] = "ok"
               PROVE  \E k \in Copies : received'[<<<<c, n[c]>>, k>>] = "data"
    BY <1>1 DEF clientVars, VerifiedIntact, HasRead
  <2>1. PICK a \in Attempts : a = <<c, n[c]>>
    BY <1>0, PairFacts DEF TypeOK
  <2>2. HasRead(a, "data")'
    BY <1>2, <2>1 DEF PutInv, VerifiedIntact, Contents
  <2> QED BY <2>1, <2>2 DEF HasRead
<1> QED BY <1>0, <1>4, <1>5, <1>6, <1>7, <1>8, ReadsKept DEF PutInv

-----------------------------------------------------------------------------
(* The theorems *)
LEMMA InitPutInv == Init => PutInv
<1> SUFFICES ASSUME Init PROVE PutInv
  OBVIOUS
<1>1. 1 \in 1 .. MaxAttempts
  BY PutAssumption
<1>2. TypeOK
  BY <1>1 DEF Init, Table!Init, TypeOK, Contents
<1>3. \A d \in Deliveries : HandlerKnows(d)
  BY DEF Init, HandlerKnows
<1>4. ReportsTrue /\ RepliesTrue
  BY DEF Init, ReportsTrue, RepliesTrue
<1>5. CompletedHasTransfer
  BY DEF Init, Table!Init, CompletedHasTransfer, Contents, Absent
<1>6. (\A c \in Clients : ClientKnows(c)) /\ VerifiedIntact
  BY DEF Init, ClientKnows, VerifiedIntact
<1> QED BY <1>2, <1>3, <1>4, <1>5, <1>6 DEF PutInv

LEMMA NextPutInv == PutInv /\ [Next]_vars => PutInv'
<1> SUFFICES ASSUME PutInv, [Next]_vars PROVE PutInv'
  OBVIOUS
<1>1. CASE UNCHANGED vars
  <2> USE <1>1 DEF vars, clientVars, netVars, backendVars, PutInv
  <2>1. TypeOK'
    BY DEF TypeOK
  <2>2. (\A d \in Deliveries : HandlerKnows(d))'
    BY DEF HandlerKnows, HasRead
  <2>3. ReportsTrue' /\ RepliesTrue'
    BY DEF ReportsTrue, RepliesTrue, HasRead
  <2>4. CompletedHasTransfer'
    BY DEF CompletedHasTransfer, HasRead
  <2>5. (\A c \in Clients : ClientKnows(c))'
    BY DEF ClientKnows, AttemptId, HasRead
  <2>6. VerifiedIntact'
    BY DEF VerifiedIntact, HasRead
  <2> QED BY <2>1, <2>2, <2>3, <2>4, <2>5, <2>6
<1> QED BY <1>1, ClientKeeps, ProxyKeeps, BackendKeeps DEF Next

\* The invariant holds in every reachable state.
THEOREM PutInvariant == Spec => []PutInv
<1> QED BY InitPutInv, NextPutInv, PTL DEF Spec

\* The variables keep their types.
THEOREM PutTypes == Spec => []TypeOK
<1>1. PutInv => TypeOK
  BY DEF PutInv
<1> QED BY PutInvariant, <1>1, PTL

\* With verify_crc32c a PUT that succeeds has transferred the data of the
\* buffer in its last attempt, whatever the network and the servers did.
THEOREM VerifiedPutIntact == Spec => []VerifiedIntact
<1>1. PutInv => VerifiedIntact
  BY DEF PutInv
<1> QED BY PutInvariant, <1>1, PTL

\* A completed session had a transfer of its own.
THEOREM CompletionsBacked == Spec => []CompletedHasTransfer
<1>1. PutInv => CompletedHasTransfer
  BY DEF PutInv
<1> QED BY PutInvariant, <1>1, PTL
=============================================================================
