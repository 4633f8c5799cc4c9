----------------------- MODULE SessionManager_proofs -----------------------
(***************************************************************************)
(* Proofs about the proxy's session table, for every number of workers,    *)
(* sessions and reports: the invariant behind SessionsConsistent, and that *)
(* the table implements the atomic SessionDirectory.                       *)
(***************************************************************************)
EXTENDS SessionManager, TLAPS

\* Generated ids are numbers, the clients' are not.
LEMMA IdFacts ==
  /\ Empty \notin Ids
  /\ \A i \in AutoIds : i \in Int /\ i \notin ClientIds
  /\ AutoIds \subseteq Ids /\ ClientIds \subseteq Ids
  /\ MaxSeq \in Nat /\ Ttl \in Nat /\ MaxTime \in Nat
  /\ \A n \in Nat : n < MaxSeq => n \in AutoIds
  /\ Nobody \notin Workers
<1>1. Empty \notin Ids /\ Nobody \notin Workers
  BY SessionAssumption
<1>2. MaxSeq \in Nat /\ Ttl \in Nat /\ MaxTime \in Nat
  BY SessionAssumption
<1>3. \A i \in ClientIds : i \notin Int
  BY SessionAssumption
<1> QED BY <1>1, <1>2, <1>3 DEF Ids, AutoIds

-----------------------------------------------------------------------------
(* Types *)
LEMMA RequestTypes ==
  ASSUME TypeOK, NEW t \in Workers, Request(t)
  PROVE  TypeOK'
<1>1. CASE RejectOpen(t)
  BY <1>1 DEF RejectOpen, vars, tableVars, localVars, TypeOK
<1>2. ASSUME NEW hint \in ClientIds \cup {Empty}, CreateSession(t, hint)
      PROVE  TypeOK'
  <2>1. SessionId(hint) \in Ids
    BY <1>2, IdFacts DEF CreateSession, SessionId, TypeOK
  <2>2. seq' \in 0 .. MaxSeq
    BY <1>2, IdFacts DEF CreateSession, TypeOK
  <2>3. now + Ttl \in Nat
    BY IdFacts DEF TypeOK
  <2> QED BY <1>2, <2>1, <2>2, <2>3
          DEF CreateSession, Goto, TypeOK, Storing
<1>3. ASSUME NEW i \in Ids, NEW r \in Reports, ReportGdsPut(t, i, r)
      PROVE  TypeOK'
  BY <1>3 DEF ReportGdsPut, Goto, tableVars, TypeOK, Completing
<1>4. ASSUME NEW i \in Ids, CompleteUpload(t, i) \/ AbortSession(t, i)
      PROVE  TypeOK'
  BY <1>4
  DEF CompleteUpload, AbortSession, Goto, vars, tableVars, localVars, TypeOK
<1> QED BY <1>1, <1>2, <1>3, <1>4 DEF Request

LEMMA StoreTypes ==
  ASSUME TypeOK, NEW i \in Ids, NEW s \in Session, Store(i, s)
  PROVE  /\ DOMAIN sessions' = DOMAIN sessions \cup {i}
         /\ DOMAIN sessions' \subseteq Ids
         /\ sessions' \in [DOMAIN sessions' -> Session]
         /\ sessions'[i] = s
         /\ \A j \in DOMAIN sessions \ {i} : sessions'[j] = sessions[j]
<1>1. DOMAIN sessions' = DOMAIN sessions \cup {i}
  BY DEF Store
<1>2. \A j \in DOMAIN sessions : sessions[j] \in Session
  BY DEF TypeOK
<1> QED BY <1>1, <1>2 DEF Store, TypeOK

LEMMA EntryTypes ==
  ASSUME TypeOK, NEW i \in Ids
  PROVE  Entry(i) \in Session
<1>1. CASE i \in DOMAIN sessions
  BY <1>1 DEF Entry, TypeOK
<1>2. CASE i \notin DOMAIN sessions
  BY <1>2 DEF Entry, Session
<1> QED BY <1>1, <1>2

\* What each assignment under mu_ leaves of the table.
LEMMA StoreSessionEffect ==
  ASSUME TypeOK, NEW t \in Workers, id[t] \in Ids, StoreSession(t)
  PROVE  /\ DOMAIN sessions' = DOMAIN sessions \cup {id[t]}
         /\ sessions' \in [DOMAIN sessions' -> Session]
         /\ sessions'[id[t]].status = "pending"
         /\ \A j \in DOMAIN sessions \ {id[t]} : sessions'[j] = sessions[j]
<1> DEFINE s == [Entry(id[t]) EXCEPT !.expire_at = exp[t],
                                    !.status = "pending"]
<1>1. Entry(id[t]) \in Session /\ exp[t] \in Nat
  BY EntryTypes DEF TypeOK
<1>2. s \in Session /\ s.status = "pending"
  BY <1>1 DEF Session
<1>3. Store(id[t], s)
  BY DEF StoreSession
<1> QED BY <1>2, <1>3, StoreTypes

LEMMA StoreRestEffect ==
  ASSUME TypeOK, NEW t \in Workers, id[t] \in DOMAIN sessions, StoreRest(t)
  PROVE  /\ DOMAIN sessions' = DOMAIN sessions
         /\ sessions' \in [DOMAIN sessions' -> Session]
         /\ sessions'[id[t]].status = sessions[id[t]].status
         /\ sessions'[id[t]].etag = Empty
         /\ sessions'[id[t]].crc32c = Empty
         /\ sessions'[id[t]].bytes = Empty
         /\ \A j \in DOMAIN sessions \ {id[t]} : sessions'[j] = sessions[j]
<1> DEFINE s == [sessions[id[t]] EXCEPT !.etag = Empty, !.crc32c = Empty,
                                       !.bytes = Empty]
<1>1. sessions[id[t]] \in Session /\ id[t] \in Ids
  BY DEF TypeOK
<1>2. /\ s \in Session /\ s.status = sessions[id[t]].status
      /\ s.etag = Empty /\ s.crc32c = Empty /\ s.bytes = Empty
  BY <1>1 DEF Session
<1>3. Store(id[t], s)
  BY DEF StoreRest
<1>4. /\ DOMAIN sessions' = DOMAIN sessions \cup {id[t]}
      /\ sessions' \in [DOMAIN sessions' -> Session]
      /\ sessions'[id[t]] = s
      /\ \A j \in DOMAIN sessions \ {id[t]} : sessions'[j] = sessions[j]
  BY <1>1, <1>2, <1>3, StoreTypes
<1> QED BY <1>2, <1>4

LEMMA CompleteSessionEffect ==
  ASSUME TypeOK, NEW t \in Workers, id[t] \in DOMAIN sessions,
         CompleteSession(t)
  PROVE  /\ DOMAIN sessions' = DOMAIN sessions
         /\ sessions' \in [DOMAIN sessions' -> Session]
         /\ sessions'[id[t]].status = "completed"
         /\ \A j \in DOMAIN sessions \ {id[t]} : sessions'[j] = sessions[j]
<1>1. \A j \in DOMAIN sessions : sessions[j] \in Session
  BY DEF TypeOK
<1> DEFINE s == [sessions[id[t]] EXCEPT !.status = "completed"]
<1>2. s \in Session /\ s.status = "completed"
  BY <1>1 DEF Session
<1>3. sessions' = [sessions EXCEPT ![id[t]] = s]
  BY DEF CompleteSession
<1> HIDE DEF s
<1> QED BY <1>1, <1>2, <1>3 DEF TypeOK

LEMMA CompleteEtagEffect ==
  ASSUME TypeOK, NEW t \in Workers, id[t] \in DOMAIN sessions,
         rep[t] \in Reports, CompleteEtag(t)
  PROVE  /\ DOMAIN sessions' = DOMAIN sessions
         /\ sessions' \in [DOMAIN sessions' -> Session]
         /\ sessions'[id[t]].status = sessions[id[t]].status
         /\ sessions'[id[t]].etag = rep[t]
         /\ \A j \in DOMAIN sessions \ {id[t]} : sessions'[j] = sessions[j]
<1>1. \A j \in DOMAIN sessions : sessions[j] \in Session
  BY DEF TypeOK
<1> QED BY <1>1 DEF CompleteEtag, Session

LEMMA CompleteRestEffect ==
  ASSUME TypeOK, NEW t \in Workers, id[t] \in DOMAIN sessions,
         rep[t] \in Reports, CompleteRest(t)
  PROVE  /\ DOMAIN sessions' = DOMAIN sessions
         /\ sessions' \in [DOMAIN sessions' -> Session]
         /\ sessions'[id[t]].status = sessions[id[t]].status
         /\ sessions'[id[t]].etag = sessions[id[t]].etag
         /\ sessions'[id[t]].crc32c = rep[t]
         /\ sessions'[id[t]].bytes = rep[t]
         /\ \A j \in DOMAIN sessions \ {id[t]} : sessions'[j] = sessions[j]
<1>1. \A j \in DOMAIN sessions : sessions[j] \in Session
  BY DEF TypeOK
<1> DEFINE s == [sessions[id[t]] EXCEPT !.crc32c = rep[t], !.bytes = rep[t]]
<1>2. /\ s \in Session
      /\ s.status = sessions[id[t]].status /\ s.etag = sessions[id[t]].etag
      /\ s.crc32c = rep[t] /\ s.bytes = rep[t]
  BY <1>1 DEF Session
<1>3. sessions' = [sessions EXCEPT ![id[t]] = s]
  BY <1>1 DEF CompleteRest, TypeOK
<1> HIDE DEF s
<1> QED BY <1>1, <1>2, <1>3 DEF TypeOK

LEMMA ServeTypes ==
  ASSUME TypeOK, NEW t \in Workers, WorkerKnows(t), Serve(t)
  PROVE  TypeOK'
<1>1. CASE StoreSession(t)
  <2>1. id[t] \in Ids
    BY <1>1 DEF StoreSession, WorkerKnows
  <2> QED BY <1>1, <2>1, StoreSessionEffect
          DEF StoreSession, Lock, Goto, TypeOK, Storing
<1>2. CASE StoreRest(t)
  <2>1. id[t] \in DOMAIN sessions
    BY <1>2 DEF StoreRest, WorkerKnows, Holding
  <2> QED BY <1>2, <2>1, StoreRestEffect
          DEF StoreRest, Unlock, Done, Goto, TypeOK
<1>3. CASE CompleteUnknown(t) \/ NotCompleted(t) \/ Reply(t)
  BY <1>3
  DEF CompleteUnknown, NotCompleted, Reply, Done, Goto, tableVars, TypeOK
<1>4. CASE CompleteSession(t)
  <2>1. id[t] \in DOMAIN sessions /\ rep[t] \in Reports
    BY <1>4 DEF CompleteSession, WorkerKnows, Completing
  <2>2. applied' \in [Ids -> SUBSET Reports]
    BY <1>4, <2>1 DEF CompleteSession, TypeOK
  <2> QED BY <1>4, <2>1, <2>2, CompleteSessionEffect
          DEF CompleteSession, Lock, Goto, TypeOK, Completing
<1>5. CASE CompleteEtag(t)
  <2>1. id[t] \in DOMAIN sessions /\ rep[t] \in Reports
    BY <1>5 DEF CompleteEtag, WorkerKnows, Completing, Holding
  <2> QED BY <1>5, <2>1, CompleteEtagEffect
          DEF CompleteEtag, Goto, TypeOK, Completing
<1>6. CASE CompleteRest(t)
  <2>1. id[t] \in DOMAIN sessions /\ rep[t] \in Reports
    BY <1>6 DEF CompleteRest, WorkerKnows, Completing, Holding
  <2> QED BY <1>6, <2>1, CompleteRestEffect
          DEF CompleteRest, Unlock, Done, Goto, TypeOK
<1>7. CASE GetCompletedSession(t)
  BY <1>7 DEF GetCompletedSession, Goto, tableVars, TypeOK
<1>8. CASE ReadEtag(t)
  <2>1. sessions[id[t]].etag \in Reports \cup {Empty}
    <3>1. id[t] \in DOMAIN sessions
      BY <1>8 DEF ReadEtag, WorkerKnows
    <3>2. sessions[id[t]] \in Session
      BY <3>1 DEF TypeOK
    <3> QED BY <3>2 DEF Session
  <2>2. rep' \in [Workers -> Reports \cup {Empty, Torn}]
    BY <1>8, <2>1 DEF ReadEtag, TypeOK
  <2> QED BY <1>8, <2>2 DEF ReadEtag, Goto, tableVars, TypeOK
<1> QED BY <1>1, <1>2, <1>3, <1>4, <1>5, <1>6, <1>7, <1>8 DEF Serve

-----------------------------------------------------------------------------
(* The invariant, for steps that leave the table alone and for those that  *)
(* assign to it under mu_                                                  *)
OthersSame(t) ==
  \A u \in Workers \ {t} :
    wpc'[u] = wpc[u] /\ id'[u] = id[u] /\ rep'[u] = rep[u]

LEMMA OnlyHolder ==
  ASSUME MutexHeld, NEW t \in Workers, NEW u \in Workers \ {t},
         mu = Nobody \/ mu = t
  PROVE  wpc[u] \notin Holding
BY IdFacts DEF MutexHeld

\* A step of one worker outside its critical section.
LEMMA LocalStep ==
  ASSUME SessionInv, NEW t \in Workers, OthersSame(t),
         UNCHANGED <<sessions, applied, mu>>,
         wpc[t] \notin Holding, wpc'[t] \notin Holding
  PROVE  /\ MutexHeld'
         /\ Settled'
         /\ \A u \in Workers \ {t} : WorkerKnows(u)'
<1>1. \A u \in Workers : wpc'[u] \in Holding <=> wpc[u] \in Holding
  BY DEF OthersSame
<1>2. MutexHeld'
  BY <1>1 DEF SessionInv, MutexHeld
<1>3. \A u \in Workers \ {t} : WorkerKnows(u)'
  BY DEF SessionInv, OthersSame, WorkerKnows, Completed
<1>4. ASSUME NEW i \in DOMAIN sessions, ~Serving(i, Holding)'
      PROVE  OneReport(i)'
  <2>1. ~Serving(i, Holding)
    BY <1>4 DEF Serving, OthersSame
  <2>2. OneReport(i)
    BY <2>1 DEF SessionInv, Settled
  <2> QED BY <2>2 DEF OneReport, Completed
<1>5. Settled'
  BY <1>4 DEF Settled
<1> QED BY <1>2, <1>3, <1>5

\* A step inside it: only the entry of the worker's session changes.
LEMMA TableStep ==
  ASSUME SessionInv, NEW t \in Workers, OthersSame(t),
         NEW k, k = id[t],
         mu = Nobody \/ mu = t,
         DOMAIN sessions' = DOMAIN sessions \cup {k},
         \A j \in DOMAIN sessions \ {k} :
           sessions'[j] = sessions[j] /\ applied'[j] = applied[j],
         \/ mu' = t /\ wpc'[t] \in Holding /\ id'[t] = k
         \/ mu' = Nobody /\ wpc'[t] \notin Holding /\ OneReport(k)'
  PROVE  /\ MutexHeld'
         /\ Settled'
         /\ \A u \in Workers \ {t} : WorkerKnows(u)'
<1>1. \A u \in Workers \ {t} : wpc[u] \notin Holding
  BY OnlyHolder DEF SessionInv
<1>2. MutexHeld'
  BY <1>1, IdFacts DEF MutexHeld, OthersSame
<1>3. ASSUME NEW u \in Workers \ {t}
      PROVE  WorkerKnows(u)'
  BY <1>1 DEF SessionInv, OthersSame, WorkerKnows, Holding
<1>4. ASSUME NEW i \in DOMAIN sessions', ~Serving(i, Holding)'
      PROVE  OneReport(i)'
  <2>1. CASE i = k
    BY <1>4, <2>1 DEF Serving
  <2>2. CASE i # k
    <3>1. ~Serving(i, Holding)
      BY <1>1, <2>2 DEF Serving
    <3>2. i \in DOMAIN sessions /\ OneReport(i)
      BY <2>2, <3>1 DEF SessionInv, Settled
    <3>3. sessions'[i] = sessions[i] /\ applied'[i] = applied[i]
      BY <2>2, <3>2
    <3> QED BY <3>2, <3>3 DEF OneReport, Completed
  <2> QED BY <2>1, <2>2
<1>5. Settled'
  BY <1>4 DEF Settled
<1> QED BY <1>2, <1>3, <1>5

\* A step that neither numbers nor stores a session.
LEMMA NumbersKept ==
  ASSUME SessionInv, NEW t \in Workers, OthersSame(t), seq' = seq,
         DOMAIN sessions' = DOMAIN sessions, wpc'[t] # "store",
         wpc'[t] \in Storing => wpc[t] \in Storing /\ id'[t] = id[t]
  PROVE  IdsBelowSeq' /\ AutoIdFresh'
<1>1. IdsBelowSeq'
  BY DEF SessionInv, IdsBelowSeq, OthersSame
<1>2. AutoIdFresh'
  BY DEF SessionInv, AutoIdFresh, OthersSame
<1> QED BY <1>1, <1>2

-----------------------------------------------------------------------------
(* The invariant, action by action *)
LEMMA InitSessionInv == Init => SessionInv
<1> SUFFICES ASSUME Init PROVE SessionInv
  OBVIOUS
<1>1. DOMAIN sessions = {}
  BY DEF Init
<1>2. TypeOK
  BY <1>1, IdFacts DEF Init, TypeOK
<1>3. MutexHeld
  BY IdFacts DEF Init, MutexHeld, Holding
<1>4. \A t \in Workers : WorkerKnows(t)
  BY DEF Init, WorkerKnows, Completing, Holding
<1>5. Settled /\ IdsBelowSeq /\ AutoIdFresh
  BY <1>1 DEF Init, Settled, IdsBelowSeq, AutoIdFresh, Storing
<1> QED BY <1>2, <1>3, <1>4, <1>5 DEF SessionInv

LEMMA CreateSessionKeeps ==
  ASSUME SessionInv, NEW t \in Workers, NEW hint \in ClientIds \cup {Empty},
         CreateSession(t, hint), TypeOK'
  PROVE  SessionInv'
<1>1. /\ OthersSame(t) /\ wpc[t] = "idle" /\ wpc'[t] = "store"
      /\ id'[t] = SessionId(hint)
      /\ UNCHANGED <<sessions, applied, mu>>
  BY DEF CreateSession, Goto, SessionInv, TypeOK, OthersSame
<1>2. MutexHeld' /\ Settled' /\ \A u \in Workers \ {t} : WorkerKnows(u)'
  BY <1>1, LocalStep DEF Holding
<1>3. SessionId(hint) \in Ids
  BY IdFacts DEF CreateSession, SessionId, SessionInv, TypeOK
<1>4. WorkerKnows(t)'
  BY <1>1, <1>3 DEF WorkerKnows, Completing, Holding
<1>5. seq \in Nat /\ seq' \in Nat /\ seq <= seq'
  BY IdFacts DEF CreateSession, SessionInv, TypeOK
<1>6. SessionId(hint) \in AutoIds => SessionId(hint) = seq /\ seq < seq'
  BY <1>5, IdFacts DEF CreateSession, SessionId
<1>7. \A i \in AutoIds : i \in Int /\ (i < seq => i < seq')
  BY <1>5, IdFacts
<1>8. IdsBelowSeq'
  BY <1>1, <1>5, <1>6, <1>7 DEF SessionInv, IdsBelowSeq, OthersSame
<1>9. SessionId(hint) \in AutoIds =>
        /\ SessionId(hint) \notin DOMAIN sessions
        /\ \A u \in Workers : wpc[u] \in Storing => id[u] # SessionId(hint)
  BY <1>5, <1>6 DEF SessionInv, IdsBelowSeq
<1>10. AutoIdFresh'
  BY <1>1, <1>9 DEF SessionInv, AutoIdFresh, OthersSame, Storing
<1> QED BY <1>2, <1>4, <1>8, <1>10 DEF SessionInv

\* RejectOpen, AbortSession, Tick and stuttering.
LEMMA NoStepKeeps ==
  ASSUME SessionInv, UNCHANGED <<sessions, applied, seq, mu, localVars>>,
         now' \in 0 .. MaxTime
  PROVE  SessionInv'
<1>1. TypeOK'
  BY DEF localVars, SessionInv, TypeOK
<1> QED BY <1>1
  DEF localVars, SessionInv, MutexHeld, WorkerKnows, Completed, Settled,
      OneReport, Serving, IdsBelowSeq, AutoIdFresh

LEMMA OtherRequestKeeps ==
  ASSUME SessionInv, NEW t \in Workers, NEW i \in Ids, TypeOK',
         CompleteUpload(t, i) \/ \E r \in Reports : ReportGdsPut(t, i, r)
  PROVE  SessionInv'
<1>1. /\ OthersSame(t) /\ wpc[t] = "idle" /\ wpc'[t] \in {"get", "complete"}
      /\ id'[t] = i /\ (wpc'[t] = "complete" => rep'[t] \in Reports)
      /\ UNCHANGED <<sessions, applied, mu, seq>>
  BY DEF CompleteUpload, ReportGdsPut, Goto, tableVars, SessionInv, TypeOK,
         OthersSame
<1>2. MutexHeld' /\ Settled' /\ \A u \in Workers \ {t} : WorkerKnows(u)'
  BY <1>1, LocalStep DEF Holding
<1>3. WorkerKnows(t)'
  BY <1>1 DEF WorkerKnows, Completing, Holding
<1>4. IdsBelowSeq' /\ AutoIdFresh'
  BY <1>1, NumbersKept DEF Storing
<1> QED BY <1>2, <1>3, <1>4 DEF SessionInv

LEMMA StoreSessionKeeps ==
  ASSUME SessionInv, NEW t \in Workers, StoreSession(t), TypeOK'
  PROVE  SessionInv'
<1>1. PICK k : k = id[t]
  OBVIOUS
<1>2. /\ OthersSame(t) /\ wpc[t] = "store" /\ wpc'[t] = "store_rest"
      /\ id'[t] = k /\ mu = Nobody /\ mu' = t
      /\ UNCHANGED <<applied, seq>>
  BY <1>1 DEF StoreSession, Lock, Goto, SessionInv, TypeOK, OthersSame
<1>3. k \in Ids
  BY <1>1, <1>2 DEF SessionInv, WorkerKnows
<1>4. /\ DOMAIN sessions' = DOMAIN sessions \cup {k}
      /\ sessions'[k].status = "pending"
      /\ \A j \in DOMAIN sessions \ {k} : sessions'[j] = sessions[j]
  BY <1>1, <1>3, StoreSessionEffect DEF SessionInv
<1>5. MutexHeld' /\ Settled' /\ \A u \in Workers \ {t} : WorkerKnows(u)'
  BY <1>1, <1>2, <1>4, TableStep DEF Holding
<1>6. WorkerKnows(t)'
  BY <1>2, <1>3, <1>4 DEF WorkerKnows, Completed, Completing, Holding
<1>7. k \in AutoIds => k < seq
  BY <1>1, <1>2 DEF SessionInv, IdsBelowSeq, Storing
<1>8. IdsBelowSeq'
  BY <1>2, <1>4, <1>7 DEF SessionInv, IdsBelowSeq, OthersSame
<1>9. \A u \in Workers \ {t} : wpc[u] \in Storing /\ k \in AutoIds => id[u] # k
  BY <1>1, <1>2 DEF SessionInv, AutoIdFresh
<1>10. AutoIdFresh'
  BY <1>2, <1>4, <1>9 DEF SessionInv, AutoIdFresh, OthersSame, Storing
<1> QED BY <1>5, <1>6, <1>8, <1>10 DEF SessionInv

LEMMA StoreRestKeeps ==
  ASSUME SessionInv, NEW t \in Workers, StoreRest(t), TypeOK'
  PROVE  SessionInv'
<1>1. PICK k : k = id[t]
  OBVIOUS
<1>2. /\ OthersSame(t) /\ wpc[t] = "store_rest" /\ wpc'[t] = "idle"
      /\ mu' = Nobody /\ UNCHANGED <<applied, seq>>
  BY DEF StoreRest, Unlock, Done, Goto, SessionInv, TypeOK, OthersSame
<1>3. k \in DOMAIN sessions /\ ~Completed(k) /\ mu = t
  BY <1>1, <1>2 DEF SessionInv, WorkerKnows, MutexHeld, Holding
<1>4. /\ DOMAIN sessions' = DOMAIN sessions
      /\ sessions'[k].status = sessions[k].status
      /\ sessions'[k].etag = Empty /\ sessions'[k].crc32c = Empty
      /\ sessions'[k].bytes = Empty
      /\ \A j \in DOMAIN sessions \ {k} : sessions'[j] = sessions[j]
  BY <1>1, <1>3, StoreRestEffect DEF SessionInv
<1>5. OneReport(k)'
  BY <1>3, <1>4 DEF OneReport, Completed
<1>6. DOMAIN sessions' = DOMAIN sessions \cup {k}
  BY <1>3, <1>4
<1>7. MutexHeld' /\ Settled' /\ \A u \in Workers \ {t} : WorkerKnows(u)'
  BY <1>1, <1>2, <1>3, <1>4, <1>5, <1>6, TableStep DEF Holding
<1>8. WorkerKnows(t)'
  BY <1>2 DEF WorkerKnows, Completing, Holding
<1>9. IdsBelowSeq' /\ AutoIdFresh'
  BY <1>2, <1>4, NumbersKept DEF Storing
<1> QED BY <1>7, <1>8, <1>9 DEF SessionInv

LEMMA CompleteSessionKeeps ==
  ASSUME SessionInv, NEW t \in Workers, CompleteSession(t), TypeOK'
  PROVE  SessionInv'
<1>1. PICK k : k = id[t]
  OBVIOUS
<1>2. /\ OthersSame(t) /\ wpc[t] = "complete" /\ wpc'[t] = "set_etag"
      /\ id'[t] = k /\ rep'[t] = rep[t] /\ mu = Nobody /\ mu' = t
      /\ seq' = seq /\ k \in DOMAIN sessions
  BY <1>1 DEF CompleteSession, Lock, Goto, SessionInv, TypeOK, OthersSame
<1>3. k \in Ids /\ rep[t] \in Reports
  BY <1>1, <1>2 DEF SessionInv, WorkerKnows, Completing
<1>4. /\ rep[t] \in applied'[k]
      /\ \A j \in Ids \ {k} : applied'[j] = applied[j]
  BY <1>1, <1>3 DEF CompleteSession, SessionInv, TypeOK
<1>5. /\ DOMAIN sessions' = DOMAIN sessions
      /\ sessions'[k].status = "completed"
      /\ \A j \in DOMAIN sessions \ {k} : sessions'[j] = sessions[j]
  BY <1>1, <1>2, CompleteSessionEffect DEF SessionInv
<1>6. DOMAIN sessions \subseteq Ids
  BY DEF SessionInv, TypeOK
<1>7. /\ DOMAIN sessions' = DOMAIN sessions \cup {k}
      /\ \A j \in DOMAIN sessions \ {k} :
           sessions'[j] = sessions[j] /\ applied'[j] = applied[j]
  BY <1>2, <1>4, <1>5, <1>6
<1>8. MutexHeld' /\ Settled' /\ \A u \in Workers \ {t} : WorkerKnows(u)'
  BY <1>1, <1>2, <1>7, TableStep DEF Holding
<1>9. WorkerKnows(t)'
  BY <1>2, <1>3, <1>4, <1>5 DEF WorkerKnows, Completed, Completing, Holding
<1>10. IdsBelowSeq' /\ AutoIdFresh'
  BY <1>2, <1>5, NumbersKept DEF Storing
<1> QED BY <1>8, <1>9, <1>10 DEF SessionInv

LEMMA CompleteEtagKeeps ==
  ASSUME SessionInv, NEW t \in Workers, CompleteEtag(t), TypeOK'
  PROVE  SessionInv'
<1>1. PICK k : k = id[t]
  OBVIOUS
<1>2. /\ OthersSame(t) /\ wpc[t] = "set_etag" /\ wpc'[t] = "set_rest"
      /\ id'[t] = k /\ rep'[t] = rep[t] /\ mu' = mu
      /\ UNCHANGED <<applied, seq>>
  BY <1>1 DEF CompleteEtag, Goto, SessionInv, TypeOK, OthersSame
<1>3. /\ k \in Ids /\ rep[t] \in Reports /\ k \in DOMAIN sessions
      /\ Completed(k) /\ rep[t] \in applied[k] /\ mu = t
  BY <1>1, <1>2 DEF SessionInv, WorkerKnows, MutexHeld, Completing, Holding
<1>4. /\ DOMAIN sessions' = DOMAIN sessions
      /\ sessions'[k].status = sessions[k].status
      /\ sessions'[k].etag = rep[t]
      /\ \A j \in DOMAIN sessions \ {k} : sessions'[j] = sessions[j]
  BY <1>1, <1>3, CompleteEtagEffect DEF SessionInv
<1>5. DOMAIN sessions' = DOMAIN sessions \cup {k}
  BY <1>3, <1>4
<1>6. MutexHeld' /\ Settled' /\ \A u \in Workers \ {t} : WorkerKnows(u)'
  BY <1>1, <1>2, <1>3, <1>4, <1>5, TableStep DEF Holding
<1>7. WorkerKnows(t)'
  BY <1>2, <1>3, <1>4 DEF WorkerKnows, Completed, Completing, Holding
<1>8. IdsBelowSeq' /\ AutoIdFresh'
  BY <1>2, <1>4, NumbersKept DEF Storing
<1> QED BY <1>6, <1>7, <1>8 DEF SessionInv

LEMMA CompleteRestKeeps ==
  ASSUME SessionInv, NEW t \in Workers, CompleteRest(t), TypeOK'
  PROVE  SessionInv'
<1>1. PICK k : k = id[t]
  OBVIOUS
<1>2. /\ OthersSame(t) /\ wpc[t] = "set_rest" /\ wpc'[t] = "idle"
      /\ mu' = Nobody /\ UNCHANGED <<applied, seq>>
  BY DEF CompleteRest, Unlock, Done, Goto, SessionInv, TypeOK, OthersSame
<1>3. /\ k \in DOMAIN sessions /\ Completed(k) /\ mu = t
      /\ rep[t] \in Reports /\ rep[t] \in applied[k]
      /\ sessions[k].etag = rep[t]
  BY <1>1, <1>2 DEF SessionInv, WorkerKnows, MutexHeld, Completing, Holding
<1>4. /\ DOMAIN sessions' = DOMAIN sessions
      /\ sessions'[k].status = sessions[k].status
      /\ sessions'[k].etag = sessions[k].etag
      /\ sessions'[k].crc32c = rep[t] /\ sessions'[k].bytes = rep[t]
      /\ \A j \in DOMAIN sessions \ {k} : sessions'[j] = sessions[j]
  BY <1>1, <1>3, CompleteRestEffect DEF SessionInv
<1>5. OneReport(k)'
  BY <1>2, <1>3, <1>4 DEF OneReport, Completed
<1>6. DOMAIN sessions' = DOMAIN sessions \cup {k}
  BY <1>3, <1>4
<1>7. MutexHeld' /\ Settled' /\ \A u \in Workers \ {t} : WorkerKnows(u)'
  BY <1>1, <1>2, <1>3, <1>4, <1>5, <1>6, TableStep DEF Holding
<1>8. WorkerKnows(t)'
  BY <1>2 DEF WorkerKnows, Completing, Holding
<1>9. IdsBelowSeq' /\ AutoIdFresh'
  BY <1>2, <1>4, NumbersKept DEF Storing
<1> QED BY <1>7, <1>8, <1>9 DEF SessionInv

\* The steps of CompleteUpload, and the early return of CompleteSession.
LEMMA ReadersKeep ==
  ASSUME SessionInv, NEW t \in Workers, TypeOK',
         \/ CompleteUnknown(t) \/ GetCompletedSession(t) \/ NotCompleted(t)
         \/ ReadEtag(t) \/ Reply(t)
  PROVE  SessionInv'
<1>1. /\ OthersSame(t) /\ UNCHANGED <<sessions, applied, mu, seq>>
      /\ wpc[t] \in {"complete", "get", "read_etag", "reply"}
      /\ \/ wpc'[t] = "idle"
         \/ wpc'[t] = "read_etag" /\ Completed(id[t]) /\ id'[t] = id[t]
         \/ wpc'[t] = "reply" /\ id'[t] = id[t]
  BY DEF CompleteUnknown, GetCompletedSession, NotCompleted, ReadEtag, Reply,
         Done, Goto, tableVars, SessionInv, TypeOK, OthersSame
<1>2. MutexHeld' /\ Settled' /\ \A u \in Workers \ {t} : WorkerKnows(u)'
  BY <1>1, LocalStep DEF Holding
<1>3. id[t] \in Ids
  BY <1>1 DEF SessionInv, WorkerKnows
<1>4. WorkerKnows(t)'
  BY <1>1, <1>3 DEF WorkerKnows, Completed, Completing, Holding
<1>5. IdsBelowSeq' /\ AutoIdFresh'
  BY <1>1, NumbersKept DEF Storing
<1> QED BY <1>2, <1>4, <1>5 DEF SessionInv

\* Every step of the proxy preserves the invariant.
LEMMA NextSessionInv == SessionInv /\ [Next]_vars => SessionInv'
<1> SUFFICES ASSUME SessionInv, [Next]_vars PROVE SessionInv'
  OBVIOUS
<1>1. ASSUME NEW t \in Workers, Request(t) PROVE SessionInv'
  <2>1. TypeOK'
    BY <1>1, RequestTypes DEF SessionInv
  <2>2. CASE RejectOpen(t) \/ \E i \in Ids : AbortSession(t, i)
    <3>1. UNCHANGED vars
      BY <2>2 DEF RejectOpen, AbortSession
    <3> QED BY <2>1, <3>1, NoStepKeeps DEF vars, tableVars, TypeOK
  <2>3. CASE \E hint \in ClientIds \cup {Empty} : CreateSession(t, hint)
    BY <2>1, <2>3, CreateSessionKeeps
  <2>4. CASE \E i \in Ids : \/ CompleteUpload(t, i)
                           \/ \E r \in Reports : ReportGdsPut(t, i, r)
    BY <2>1, <2>4, OtherRequestKeeps
  <2> QED BY <1>1, <2>2, <2>3, <2>4 DEF Request
<1>2. ASSUME NEW t \in Workers, Serve(t) PROVE SessionInv'
  <2>1. TypeOK'
    BY <1>2, ServeTypes DEF SessionInv
  <2> QED BY <1>2, <2>1, StoreSessionKeeps, StoreRestKeeps,
             CompleteSessionKeeps, CompleteEtagKeeps, CompleteRestKeeps,
             ReadersKeep
          DEF Serve
<1>3. CASE Tick
  <2>1. now' \in 0 .. MaxTime
    BY <1>3, IdFacts DEF Tick, SessionInv, TypeOK
  <2> QED BY <1>3, <2>1, NoStepKeeps DEF Tick
<1>4. CASE UNCHANGED vars
  BY <1>4, NoStepKeeps DEF vars, tableVars, SessionInv, TypeOK
<1> QED BY <1>1, <1>2, <1>3, <1>4 DEF Next

\* The invariant holds in every reachable state of the proxy.
THEOREM SessionInvariant == Spec => []SessionInv
<1> QED BY InitSessionInv, NextSessionInv, PTL DEF Spec

\* The variables keep their types.
THEOREM TableTypes == Spec => []TypeOK
<1>1. SessionInv => TypeOK
  BY DEF SessionInv
<1> QED BY SessionInvariant, <1>1, PTL

\* Whenever mu_ is free, every session holds the fields of one report.
THEOREM TableConsistent == Spec => []SessionsConsistent
<1>1. SessionInv => SessionsConsistent
  <2> SUFFICES ASSUME SessionInv, mu = Nobody, NEW i \in DOMAIN sessions
               PROVE  OneReport(i)
    BY DEF SessionsConsistent
  <2>1. ~Serving(i, Holding)
    BY IdFacts DEF SessionInv, MutexHeld, Serving
  <2> QED BY <2>1 DEF SessionInv, Settled
<1> QED BY SessionInvariant, <1>1, PTL

\* The ids that seq_ gives out collide with no session.
THEOREM GeneratedIdsFresh == Spec => []AutoIdFresh
<1>1. SessionInv => AutoIdFresh
  BY DEF SessionInv
<1> QED BY SessionInvariant, <1>1, PTL

\* The pointer that CompleteUpload uses without mu_ points to a session.
THEOREM PointersValid == Spec => []PointerStaysValid
<1>1. SessionInv => PointerStaysValid
  BY DEF SessionInv, WorkerKnows, PointerStaysValid
<1> QED BY SessionInvariant, <1>1, PTL

-----------------------------------------------------------------------------
(* The table implements SessionDirectory *)

\* DirectoryEntry without its CHOOSE: the worker at "set_etag" holds mu_, so
\* there is only one.
EntryIs(i) ==
  /\ i \notin DOMAIN sessions => DirectoryEntry(i) = Absent
  /\ i \in DOMAIN sessions /\ ~Completed(i) => DirectoryEntry(i) = Pending
  /\ Completed(i) /\ ~Serving(i, {"set_etag"}) =>
       DirectoryEntry(i) = sessions[i].etag
  /\ \A t \in Workers :
       wpc[t] = "set_etag" /\ id[t] = i => DirectoryEntry(i) = rep[t]

LEMMA EntryValue == SessionInv => \A i \in Ids : EntryIs(i)
<1> SUFFICES ASSUME SessionInv, NEW i \in Ids PROVE EntryIs(i)
  OBVIOUS
<1>1. i \notin DOMAIN sessions => DirectoryEntry(i) = Absent
  BY DEF DirectoryEntry
<1>2. i \in DOMAIN sessions =>
        sessions[i].status \in {"pending", "completed"}
  BY DEF SessionInv, TypeOK, Session
<1>3. i \in DOMAIN sessions /\ ~Completed(i) => DirectoryEntry(i) = Pending
  BY <1>2 DEF DirectoryEntry, Completed
<1>4. Completed(i) /\ ~Serving(i, {"set_etag"}) =>
        DirectoryEntry(i) = sessions[i].etag
  BY DEF DirectoryEntry, Completed
<1>5. ASSUME NEW t \in Workers, wpc[t] = "set_etag", id[t] = i
      PROVE  DirectoryEntry(i) = rep[t]
  <2>1. Completed(i)
    BY <1>5 DEF SessionInv, WorkerKnows
  <2>2. Serving(i, {"set_etag"})
    BY <1>5 DEF Serving
  <2>3. \A u \in Workers : id[u] = i /\ wpc[u] = "set_etag" => u = t
    BY <1>5 DEF SessionInv, MutexHeld, Holding
  <2>4. (CHOOSE u \in Workers : id[u] = i /\ wpc[u] = "set_etag") = t
    BY <1>5, <2>3
  <2> QED BY <2>1, <2>2, <2>4 DEF DirectoryEntry, Completed
<1> QED BY <1>1, <1>3, <1>4, <1>5 DEF EntryIs

LEMMA EntryValueNext == SessionInv' => (\A i \in Ids : EntryIs(i))'
BY EntryValue, PTL

\* An entry keeps its value when its status and, once completed, its etag
\* stay, and nobody comes to or leaves the assignment of its etag.
LEMMA EntryKept ==
  ASSUME SessionInv, SessionInv', NEW t \in Workers, OthersSame(t),
         NEW i \in Ids,
         wpc[t] = "set_etag" => id[t] # i,
         wpc'[t] = "set_etag" => id'[t] # i,
         i \in DOMAIN sessions' <=> i \in DOMAIN sessions,
         i \in DOMAIN sessions =>
           /\ sessions'[i].status = sessions[i].status
           /\ Completed(i) => sessions'[i].etag = sessions[i].etag
  PROVE  DirectoryEntry(i)' = DirectoryEntry(i)
<1>1. EntryIs(i) /\ EntryIs(i)'
  BY EntryValue, EntryValueNext
<1>2. Completed(i)' <=> Completed(i)
  BY DEF Completed
<1>3. CASE Serving(i, {"set_etag"})
  <2>1. PICK u \in Workers : id[u] = i /\ wpc[u] = "set_etag"
    BY <1>3 DEF Serving
  <2>2. id'[u] = i /\ wpc'[u] = "set_etag" /\ rep'[u] = rep[u]
    BY <2>1 DEF OthersSame
  <2> QED BY <1>1, <2>1, <2>2 DEF EntryIs
<1>4. CASE ~Serving(i, {"set_etag"})
  <2>1. ~Serving(i, {"set_etag"})'
    BY <1>4 DEF Serving, OthersSame
  <2>2. CASE Completed(i)
    BY <1>1, <1>2, <1>4, <2>1, <2>2 DEF EntryIs, Completed
  <2>3. CASE ~Completed(i)
    BY <1>1, <1>2, <2>3 DEF EntryIs
  <2> QED BY <2>2, <2>3
<1> QED BY <1>3, <1>4

\* The directory that the table stands for.
Dir == [i \in Ids |-> DirectoryEntry(i)]

LEMMA DirKept ==
  ASSUME \A i \in Ids : DirectoryEntry(i)' = DirectoryEntry(i)
  PROVE  Dir' = Dir
BY DEF Dir

\* Steps that do not change the table, or only fields it does not show.
LEMMA QuietStep ==
  ASSUME SessionInv, SessionInv', NEW t \in Workers, OthersSame(t),
         wpc[t] # "set_etag", wpc'[t] # "set_etag",
         DOMAIN sessions' = DOMAIN sessions,
         \A j \in DOMAIN sessions :
           /\ sessions'[j].status = sessions[j].status
           /\ Completed(j) => sessions'[j].etag = sessions[j].etag
  PROVE  Dir' = Dir
<1>1. ASSUME NEW i \in Ids PROVE DirectoryEntry(i)' = DirectoryEntry(i)
  BY <1>1, EntryKept
<1> QED BY <1>1, DirKept

LEMMA StoreSessionOpens ==
  ASSUME SessionInv, SessionInv', NEW t \in Workers, StoreSession(t)
  PROVE  \E i \in Ids : Dir' = [Dir EXCEPT ![i] = Pending]
<1>1. PICK k : k = id[t]
  OBVIOUS
<1>2. /\ OthersSame(t) /\ wpc[t] = "store" /\ wpc'[t] = "store_rest"
  BY DEF StoreSession, Goto, SessionInv, TypeOK, OthersSame
<1>3. k \in Ids
  BY <1>1, <1>2 DEF SessionInv, WorkerKnows
<1>4. /\ DOMAIN sessions' = DOMAIN sessions \cup {k}
      /\ sessions'[k].status = "pending"
      /\ \A j \in DOMAIN sessions \ {k} : sessions'[j] = sessions[j]
  BY <1>1, <1>3, StoreSessionEffect DEF SessionInv
<1>5. DirectoryEntry(k)' = Pending
  <2>1. EntryIs(k)'
    BY <1>3, EntryValueNext
  <2> QED BY <1>4, <2>1 DEF EntryIs, Completed
<1>6. \A i \in Ids \ {k} : DirectoryEntry(i)' = DirectoryEntry(i)
  BY <1>2, <1>4, EntryKept
<1>7. Dir' = [Dir EXCEPT ![k] = Pending]
  BY <1>3, <1>5, <1>6 DEF Dir
<1> QED BY <1>3, <1>7

LEMMA CompleteSessionReports ==
  ASSUME SessionInv, SessionInv', NEW t \in Workers, CompleteSession(t)
  PROVE  \E i \in Ids, r \in Reports :
           Dir[i] # Absent /\ Dir' = [Dir EXCEPT ![i] = r]
<1>1. PICK k : k = id[t]
  OBVIOUS
<1>2. PICK r : r = rep[t]
  OBVIOUS
<1>3. /\ OthersSame(t) /\ wpc[t] = "complete" /\ wpc'[t] = "set_etag"
      /\ id'[t] = k /\ rep'[t] = r /\ mu = Nobody /\ k \in DOMAIN sessions
  BY <1>1, <1>2
  DEF CompleteSession, Lock, Goto, SessionInv, TypeOK, OthersSame
<1>4. k \in Ids /\ r \in Reports
  BY <1>1, <1>2, <1>3 DEF SessionInv, WorkerKnows, Completing
<1>5. /\ DOMAIN sessions' = DOMAIN sessions
      /\ \A j \in DOMAIN sessions \ {k} : sessions'[j] = sessions[j]
  BY <1>1, <1>3, CompleteSessionEffect DEF SessionInv
<1>6. DirectoryEntry(k)' = r
  <2>1. EntryIs(k)'
    BY <1>4, EntryValueNext
  <2> QED BY <1>3, <2>1 DEF EntryIs
<1>7. \A i \in Ids \ {k} : DirectoryEntry(i)' = DirectoryEntry(i)
  BY <1>3, <1>5, EntryKept
<1>8. Dir' = [Dir EXCEPT ![k] = r]
  BY <1>4, <1>6, <1>7 DEF Dir
<1>9. DirectoryEntry(k) # Absent
  <2>1. EntryIs(k)
    BY <1>4, EntryValue
  <2>2. ~Serving(k, Holding) /\ ~Serving(k, {"set_etag"})
    BY <1>3, IdFacts DEF SessionInv, MutexHeld, Serving, Holding
  <2>3. CASE ~Completed(k)
    BY <1>3, <2>1, <2>3 DEF EntryIs, Absent, Pending
  <2>4. CASE Completed(k)
    <3>1. OneReport(k)
      BY <1>3, <2>2 DEF SessionInv, Settled
    <3>2. sessions[k].etag \in applied[k]
      BY <2>4, <3>1 DEF OneReport
    <3>3. sessions[k].etag \in Reports
      BY <1>4, <3>2 DEF SessionInv, TypeOK
    <3>4. Absent \notin Reports
      BY SessionAssumption
    <3> QED BY <2>1, <2>2, <2>4, <3>3, <3>4 DEF EntryIs
  <2> QED BY <2>3, <2>4
<1> QED BY <1>4, <1>8, <1>9 DEF Dir

LEMMA CompleteEtagQuiet ==
  ASSUME SessionInv, SessionInv', NEW t \in Workers, CompleteEtag(t)
  PROVE  Dir' = Dir
<1>1. PICK k : k = id[t]
  OBVIOUS
<1>2. /\ OthersSame(t) /\ wpc[t] = "set_etag" /\ wpc'[t] = "set_rest"
      /\ mu' = mu /\ id'[t] = k
  BY <1>1 DEF CompleteEtag, Goto, SessionInv, TypeOK, OthersSame
<1>3. /\ k \in Ids /\ rep[t] \in Reports /\ k \in DOMAIN sessions
      /\ Completed(k) /\ mu = t
  BY <1>1, <1>2 DEF SessionInv, WorkerKnows, MutexHeld, Completing, Holding
<1>4. /\ DOMAIN sessions' = DOMAIN sessions
      /\ sessions'[k].status = sessions[k].status
      /\ sessions'[k].etag = rep[t]
      /\ \A j \in DOMAIN sessions \ {k} : sessions'[j] = sessions[j]
  BY <1>1, <1>3, CompleteEtagEffect DEF SessionInv
<1>5. DirectoryEntry(k)' = DirectoryEntry(k)
  <2>1. EntryIs(k) /\ EntryIs(k)'
    BY <1>3, EntryValue, EntryValueNext
  <2>2. ~Serving(k, {"set_etag"})'
    BY <1>2, <1>3 DEF SessionInv, MutexHeld, Serving, Holding
  <2>3. Completed(k)'
    BY <1>3, <1>4 DEF Completed
  <2> QED BY <1>1, <1>2, <1>4, <2>1, <2>2, <2>3 DEF EntryIs
<1>6. \A i \in Ids \ {k} : DirectoryEntry(i)' = DirectoryEntry(i)
  BY <1>1, <1>2, <1>4, EntryKept
<1> QED BY <1>5, <1>6, DirKept

\* Every other step leaves the directory as it is.
LEMMA OtherServeQuiet ==
  ASSUME SessionInv, SessionInv', NEW t \in Workers, Serve(t),
         ~StoreSession(t), ~CompleteSession(t)
  PROVE  Dir' = Dir
<1>1. CASE StoreRest(t)
  <2>1. PICK k : k = id[t]
    OBVIOUS
  <2>2. OthersSame(t) /\ wpc[t] = "store_rest" /\ wpc'[t] = "idle"
    BY <1>1 DEF StoreRest, Done, Goto, SessionInv, TypeOK, OthersSame
  <2>3. k \in DOMAIN sessions /\ ~Completed(k)
    BY <2>1, <2>2 DEF SessionInv, WorkerKnows, Holding
  <2>4. /\ DOMAIN sessions' = DOMAIN sessions
        /\ sessions'[k].status = sessions[k].status
        /\ \A j \in DOMAIN sessions \ {k} : sessions'[j] = sessions[j]
    BY <1>1, <2>1, <2>3, StoreRestEffect DEF SessionInv
  <2> QED BY <2>2, <2>3, <2>4, QuietStep
<1>2. CASE CompleteRest(t)
  <2>1. PICK k : k = id[t]
    OBVIOUS
  <2>2. OthersSame(t) /\ wpc[t] = "set_rest" /\ wpc'[t] = "idle"
    BY <1>2 DEF CompleteRest, Done, Goto, SessionInv, TypeOK, OthersSame
  <2>3. k \in DOMAIN sessions /\ rep[t] \in Reports
    BY <2>1, <2>2 DEF SessionInv, WorkerKnows, Holding, Completing
  <2>4. /\ DOMAIN sessions' = DOMAIN sessions
        /\ sessions'[k].status = sessions[k].status
        /\ sessions'[k].etag = sessions[k].etag
        /\ \A j \in DOMAIN sessions \ {k} : sessions'[j] = sessions[j]
    BY <1>2, <2>1, <2>3, CompleteRestEffect DEF SessionInv
  <2> QED BY <2>2, <2>4, QuietStep
<1>3. CASE \/ CompleteUnknown(t) \/ GetCompletedSession(t)
           \/ NotCompleted(t) \/ ReadEtag(t) \/ Reply(t)
  <2>1. /\ OthersSame(t) /\ sessions' = sessions
        /\ wpc[t] # "set_etag" /\ wpc'[t] # "set_etag"
    BY <1>3
    DEF CompleteUnknown, GetCompletedSession, NotCompleted, ReadEtag, Reply,
        Done, Goto, tableVars, SessionInv, TypeOK, OthersSame
  <2> QED BY <2>1, QuietStep
<1> QED BY <1>1, <1>2, <1>3, CompleteEtagQuiet DEF Serve

LEMMA RequestQuiet ==
  ASSUME SessionInv, SessionInv', NEW t \in Workers, Request(t)
  PROVE  Dir' = Dir
<1>1. /\ OthersSame(t) /\ sessions' = sessions
      /\ wpc[t] # "set_etag" /\ wpc'[t] # "set_etag"
  BY DEF Request, RejectOpen, CreateSession, ReportGdsPut, CompleteUpload,
         AbortSession, Goto, vars, tableVars, localVars, SessionInv, TypeOK,
         OthersSame
<1> QED BY <1>1, QuietStep

LEMMA NextDirectory ==
  SessionInv /\ SessionInv' /\ [Next]_vars =>
    [Directory!Next]_Dir
<1> SUFFICES ASSUME SessionInv, SessionInv', [Next]_vars
             PROVE  [Directory!Next]_Dir
  OBVIOUS
<1>1. ASSUME NEW t \in Workers, Serve(t)
      PROVE  [Directory!Next]_Dir
  BY <1>1, StoreSessionOpens, CompleteSessionReports, OtherServeQuiet
  DEF Directory!Next, Directory!Open, Directory!Report, Dir
<1>2. ASSUME NEW t \in Workers, Request(t)
      PROVE  [Directory!Next]_Dir
  BY <1>2, RequestQuiet
<1>3. CASE Tick \/ UNCHANGED vars
  <2>1. UNCHANGED <<sessions, localVars>>
    BY <1>3 DEF Tick, vars, tableVars
  <2>2. Dir' = Dir
    BY <2>1 DEF Dir, DirectoryEntry, Serving, localVars
  <2> QED BY <2>2
<1> QED BY <1>1, <1>2, <1>3 DEF Next

\* To every other RPC, CreateSession and CompleteSession are atomic: the
\* table with its lock implements the directory without one.
THEOREM TableImplementsDirectory == Spec => ImplementsDirectory
<1>1. Init => Directory!Init
  BY DEF Init, Directory!Init, DirectoryEntry
<1>2. SessionInv /\ SessionInv' /\ [Next]_vars =>
        [Directory!Next]_[i \in Ids |-> DirectoryEntry(i)]
  BY NextDirectory DEF Dir
<1> QED BY SessionInvariant, <1>1, <1>2, PTL
        DEF Spec, ImplementsDirectory, Directory!Spec

-----------------------------------------------------------------------------
(* Sessions about which nothing is resent *)

\* What a step of t about session k leaves of what another worker knows.
LEMMA OtherOnceKnows ==
  ASSUME OnceInv, NEW t \in Workers, NEW u \in Workers \ {t}, NEW k,
         OthersSame(t),
         DOMAIN sessions' \subseteq DOMAIN sessions \cup {k},
         \A j \in DOMAIN sessions \ {k} : sessions'[j] = sessions[j],
         \A j \in Ids \ {k} : applied'[j] = applied[j],
         wpc'[t] \in Storing \cup Completing => id'[t] = k,
         wpc[u] = "store" /\ id[u] = k /\ k \notin Resent =>
           DOMAIN sessions' = DOMAIN sessions /\ wpc'[t] \notin Storing,
         wpc[u] = "complete" /\ id[u] = k /\ k \notin Resent =>
           applied' = applied /\ wpc'[t] \notin Completing,
         wpc[u] = "read_etag" /\ id[u] = k /\ k \notin Resent =>
           /\ sessions' = sessions /\ applied' = applied
           /\ wpc'[t] \notin Storing \cup Completing
  PROVE  OnceKnows(u)'
<1>1. OnceKnows(u) /\ WorkerKnows(u)
  BY DEF OnceInv, SessionInv
<1>2. wpc'[u] = wpc[u] /\ id'[u] = id[u]
  BY DEF OthersSame
<1>3. \A w \in Workers \ {t} : wpc'[w] = wpc[w] /\ id'[w] = id[w]
  BY DEF OthersSame
<1>4. ASSUME id[u] \notin Resent, wpc[u] = "store"
      PROVE  /\ id[u] \notin DOMAIN sessions'
             /\ \A w \in Workers \ {u} : wpc'[w] \in Storing => id'[w] # id[u]
  BY <1>1, <1>3, <1>4 DEF OnceKnows
<1>5. ASSUME id[u] \notin Resent, wpc[u] = "complete"
      PROVE  /\ applied'[id[u]] = {}
             /\ \A w \in Workers \ {u} :
                  wpc'[w] \in Completing => id'[w] # id[u]
  BY <1>1, <1>3, <1>5 DEF OnceKnows, WorkerKnows
<1>6. ASSUME id[u] \notin Resent, wpc[u] = "read_etag"
      PROVE  /\ \A w \in Workers : ~(id'[w] = id[u]
                                    /\ wpc'[w] \in Storing \cup Completing)
             /\ sessions'[id[u]].etag \in applied'[id[u]]
  <2>1. id[u] \in DOMAIN sessions /\ id[u] \in Ids
    BY <1>1, <1>6 DEF WorkerKnows
  <2>2. /\ ~Serving(id[u], Storing \cup Completing)
        /\ sessions[id[u]].etag \in applied[id[u]]
    BY <1>1, <1>6 DEF OnceKnows
  <2>3. ASSUME NEW w \in Workers
        PROVE  ~(id'[w] = id[u] /\ wpc'[w] \in Storing \cup Completing)
    BY <1>3, <1>6, <2>2 DEF Serving
  <2>4. sessions'[id[u]].etag \in applied'[id[u]]
    BY <1>6, <2>1, <2>2
  <2> QED BY <2>3, <2>4
<1> QED BY <1>2, <1>4, <1>5, <1>6 DEF OnceKnows, Serving

LEMMA OnceRequests ==
  ASSUME OnceInv, SessionInv', NEW t \in Workers, Request(t)
  PROVE  OnceInv'
<1>0. SessionInv /\ TypeOK
  BY DEF OnceInv, SessionInv
<1>1. CASE RejectOpen(t) \/ \E i \in Ids : AbortSession(t, i)
  <2>1. UNCHANGED <<sessions, applied, localVars>>
    BY <1>1 DEF RejectOpen, AbortSession, vars, tableVars
  <2> QED BY <2>1
          DEF OnceInv, OnceKnows, Serving, EtagReported, localVars
<1>2. ASSUME NEW hint \in ClientIds \cup {Empty}, OpenArrives(hint),
             CreateSession(t, hint)
      PROVE  OnceInv'
  <2>1. PICK k : k = SessionId(hint)
    OBVIOUS
  <2>2. /\ OthersSame(t) /\ wpc[t] = "idle" /\ wpc'[t] = "store" /\ id'[t] = k
        /\ UNCHANGED <<sessions, applied>>
    BY <1>0, <1>2, <2>1 DEF CreateSession, Goto, TypeOK, OthersSame
  <2>3. k \notin Resent \/ hint = Empty =>
          /\ k \notin DOMAIN sessions
          /\ \A u \in Workers : wpc[u] \in Storing => id[u] # k
    <3>1. CASE hint = Empty
      <4>1. k = seq /\ seq \in AutoIds /\ seq \in Nat
        BY <1>0, <1>2, <2>1, <3>1, IdFacts
        DEF CreateSession, SessionId, TypeOK
      <4> QED BY <1>0, <4>1 DEF SessionInv, IdsBelowSeq
    <3>2. CASE hint # Empty
      BY <1>2, <2>1, <3>2 DEF OpenArrives, CreateSession, SessionId, Serving
    <3> QED BY <3>1, <3>2
  <2>4. OnceKnows(t)'
    BY <2>2, <2>3 DEF OnceKnows, OthersSame
  <2>5. ASSUME NEW u \in Workers \ {t} PROVE OnceKnows(u)'
    <3>1. wpc[u] = "read_etag" => id[u] \in DOMAIN sessions
      BY <1>0 DEF SessionInv, WorkerKnows
    <3>2. k \notin Resent =>
            /\ wpc[u] = "store" => id[u] # k
            /\ wpc[u] = "read_etag" => id[u] # k
      BY <2>3, <3>1 DEF Storing
    <3> QED BY <2>2, <3>2, OtherOnceKnows DEF Storing, Completing
  <2>6. EtagReported'
    BY <2>2 DEF OnceInv, EtagReported, OthersSame
  <2> QED BY <2>4, <2>5, <2>6 DEF OnceInv
<1>3. ASSUME NEW i \in Ids, NEW r \in Reports, ReportArrives(i),
             ReportGdsPut(t, i, r)
      PROVE  OnceInv'
  <2>1. /\ OthersSame(t) /\ wpc[t] = "idle" /\ wpc'[t] = "complete"
        /\ id'[t] = i /\ UNCHANGED <<sessions, applied>>
        /\ i \notin Resent => applied[i] = {} /\ ~Serving(i, Completing)
    BY <1>0, <1>3
    DEF ReportArrives, ReportGdsPut, Goto, tableVars, TypeOK, OthersSame
  <2>2. OnceKnows(t)'
    BY <2>1 DEF OnceKnows, OthersSame, Serving
  <2>3. ASSUME NEW u \in Workers \ {t} PROVE OnceKnows(u)'
    <3>1. i \notin Resent =>
            /\ wpc[u] = "complete" => id[u] # i
            /\ wpc[u] = "read_etag" => id[u] # i
      BY <2>1 DEF OnceInv, OnceKnows, Serving, Completing
    <3> QED BY <2>1, <3>1, OtherOnceKnows DEF Storing, Completing
  <2>4. EtagReported'
    BY <2>1 DEF OnceInv, EtagReported, OthersSame
  <2> QED BY <2>2, <2>3, <2>4 DEF OnceInv
<1>4. ASSUME NEW i \in Ids, CompleteUpload(t, i)
      PROVE  OnceInv'
  <2>1. /\ OthersSame(t) /\ wpc'[t] = "get" /\ UNCHANGED <<sessions, applied>>
    BY <1>0, <1>4 DEF CompleteUpload, Goto, tableVars, TypeOK, OthersSame
  <2>2. OnceKnows(t)'
    BY <2>1 DEF OnceKnows
  <2>3. ASSUME NEW u \in Workers \ {t} PROVE OnceKnows(u)'
    BY <2>1, OtherOnceKnows DEF Storing, Completing
  <2>4. EtagReported'
    BY <2>1 DEF OnceInv, EtagReported, OthersSame
  <2> QED BY <2>2, <2>3, <2>4 DEF OnceInv
<1> QED BY <1>1, <1>2, <1>3, <1>4 DEF Request

\* A step on session k that is inside mu_ meets no reader of k.
LEMMA OnceWriters ==
  ASSUME OnceInv, SessionInv', NEW t \in Workers,
         \/ StoreSession(t) \/ StoreRest(t) \/ CompleteSession(t)
         \/ CompleteEtag(t) \/ CompleteRest(t)
  PROVE  OnceInv'
<1>0. SessionInv /\ TypeOK /\ WorkerKnows(t) /\ OnceKnows(t)
  BY DEF OnceInv, SessionInv
<1>1. PICK k : k = id[t]
  OBVIOUS
<1>2. /\ OthersSame(t) /\ wpc[t] \in Storing \cup Completing
      /\ wpc'[t] \in Holding \cup {"idle"}
      /\ wpc'[t] \in Holding => id'[t] = k
      /\ wpc'[t] \in Storing => wpc[t] = "store"
      /\ wpc'[t] \in Completing => wpc[t] \in Completing
  BY <1>0, <1>1
  DEF StoreSession, StoreRest, CompleteSession, CompleteEtag, CompleteRest,
      Done, Goto, TypeOK, OthersSame, Storing, Completing, Holding
<1>3. k \in Ids /\ (wpc[t] # "store" => k \in DOMAIN sessions)
  BY <1>0, <1>1, <1>2
  DEF StoreSession, StoreRest, CompleteSession, CompleteEtag, CompleteRest,
      WorkerKnows, Storing, Completing, Holding
<1>4. /\ \A j \in DOMAIN sessions \ {k} : sessions'[j] = sessions[j]
      /\ DOMAIN sessions' = DOMAIN sessions \cup {k}
  <2>1. CASE StoreSession(t)
    BY <1>0, <1>1, <1>3, <2>1, StoreSessionEffect
  <2>2. CASE StoreRest(t)
    <3>1. k \in DOMAIN sessions
      BY <1>3, <2>2 DEF StoreRest
    <3> QED BY <1>0, <1>1, <2>2, <3>1, StoreRestEffect
  <2>3. CASE CompleteSession(t)
    <3>1. k \in DOMAIN sessions
      BY <1>3, <2>3 DEF CompleteSession
    <3> QED BY <1>0, <1>1, <2>3, <3>1, CompleteSessionEffect
  <2>4. CASE CompleteEtag(t)
    <3>1. k \in DOMAIN sessions /\ rep[t] \in Reports
      BY <1>0, <1>3, <2>4 DEF CompleteEtag, WorkerKnows, Completing
    <3> QED BY <1>0, <1>1, <2>4, <3>1, CompleteEtagEffect
  <2>5. CASE CompleteRest(t)
    <3>1. k \in DOMAIN sessions /\ rep[t] \in Reports
      BY <1>0, <1>3, <2>5 DEF CompleteRest, WorkerKnows, Completing
    <3> QED BY <1>0, <1>1, <2>5, <3>1, CompleteRestEffect
  <2> QED BY <2>1, <2>2, <2>3, <2>4, <2>5
<1>5. /\ \A j \in Ids : applied[j] \subseteq applied'[j]
      /\ \A j \in Ids \ {k} : applied'[j] = applied[j]
      /\ applied' = applied \/ wpc[t] = "complete"
  BY <1>0, <1>1, <1>3
  DEF StoreSession, StoreRest, CompleteSession, CompleteEtag, CompleteRest,
      TypeOK
<1>6. OnceKnows(t)'
  BY <1>2 DEF OnceKnows, Holding
<1>7. ASSUME NEW u \in Workers \ {t} PROVE OnceKnows(u)'
  <2>1. OnceKnows(u)
    BY DEF OnceInv
  <2>2. wpc[u] = "read_etag" /\ k \notin Resent => id[u] # k
    BY <1>1, <1>2, <2>1 DEF OnceKnows, Serving
  <2>3. ASSUME wpc[u] = "store", id[u] = k, k \notin Resent
        PROVE  DOMAIN sessions' = DOMAIN sessions /\ wpc'[t] \notin Storing
    <3>1. wpc[t] \notin Storing
      BY <1>1, <2>1, <2>3 DEF OnceKnows
    <3>2. k \notin DOMAIN sessions
      BY <2>1, <2>3 DEF OnceKnows
    <3> QED BY <1>3, <3>1, <3>2 DEF Storing
  <2>4. ASSUME wpc[u] = "complete", id[u] = k, k \notin Resent
        PROVE  applied' = applied /\ wpc'[t] \notin Completing
    <3>1. wpc[t] \notin Completing
      BY <1>1, <2>1, <2>4 DEF OnceKnows
    <3> QED BY <1>2, <1>5, <3>1 DEF Completing
  <2>5. wpc'[t] \in Storing \cup Completing => id'[t] = k
    BY <1>2 DEF Storing, Completing, Holding
  <2> QED BY <1>2, <1>4, <1>5, <2>2, <2>3, <2>4, <2>5, OtherOnceKnows
<1>8. ASSUME NEW u \in Workers, wpc'[u] = "reply", id'[u] \notin Resent
      PROVE  rep'[u] \in applied'[id'[u]]
  <2>1. u # t
    BY <1>2, <1>8 DEF Holding
  <2>2. wpc[u] = "reply" /\ rep'[u] = rep[u] /\ id'[u] = id[u]
    BY <1>2, <1>8, <2>1 DEF OthersSame
  <2>3. id[u] \in Ids /\ rep[u] \in applied[id[u]]
    BY <1>8, <2>2 DEF OnceInv, EtagReported, SessionInv, WorkerKnows
  <2> QED BY <1>5, <2>2, <2>3
<1>9. EtagReported'
  BY <1>8 DEF EtagReported
<1> QED BY <1>6, <1>7, <1>9 DEF OnceInv

LEMMA OnceReaders ==
  ASSUME OnceInv, SessionInv', NEW t \in Workers,
         \/ CompleteUnknown(t) \/ GetCompletedSession(t) \/ NotCompleted(t)
         \/ ReadEtag(t) \/ Reply(t)
  PROVE  OnceInv'
<1>0. SessionInv /\ TypeOK /\ WorkerKnows(t) /\ OnceKnows(t)
  BY DEF OnceInv, SessionInv
<1>1. /\ OthersSame(t) /\ UNCHANGED <<sessions, applied, mu>>
      /\ wpc'[t] \in {"idle", "read_etag", "reply"}
  BY <1>0
  DEF CompleteUnknown, GetCompletedSession, NotCompleted, ReadEtag, Reply,
      Done, Goto, tableVars, TypeOK, OthersSame
<1>2. ASSUME NEW u \in Workers \ {t} PROVE OnceKnows(u)'
  BY <1>1, OtherOnceKnows DEF Storing, Completing
<1>3. CASE wpc'[t] = "idle"
  <2>1. OnceKnows(t)'
    BY <1>3 DEF OnceKnows
  <2>2. EtagReported'
    BY <1>1, <1>3 DEF OnceInv, EtagReported, OthersSame
  <2> QED BY <1>2, <2>1, <2>2 DEF OnceInv
<1>4. CASE wpc'[t] = "read_etag"
  <2>1. PICK k : k = id[t]
    OBVIOUS
  <2>2. id'[t] = k /\ mu = Nobody /\ Completed(k)
    BY <1>0, <1>4, <2>1
    DEF CompleteUnknown, GetCompletedSession, NotCompleted, ReadEtag, Reply,
        Done, Goto, TypeOK
  <2>3. \A w \in Workers : wpc[w] \notin Holding
    BY <1>0, <2>2, IdFacts DEF SessionInv, MutexHeld
  <2>4. sessions[k].etag \in applied[k]
    <3>1. OneReport(k)
      BY <1>0, <2>2, <2>3 DEF SessionInv, Settled, Serving, Completed
    <3> QED BY <2>2, <3>1 DEF OneReport
  <2>5. \A w \in Workers \ {t} :
          k \notin Resent => ~(id[w] = k /\ wpc[w] \in Storing \cup Completing)
    BY <2>2, <2>3, <2>4
    DEF OnceInv, OnceKnows, Completed, Storing, Completing, Holding
  <2>6. OnceKnows(t)'
    BY <1>1, <1>4, <2>2, <2>4, <2>5
    DEF OnceKnows, OthersSame, Serving, Storing, Completing
  <2>7. EtagReported'
    BY <1>1, <1>4 DEF OnceInv, EtagReported, OthersSame
  <2> QED BY <1>2, <2>6, <2>7 DEF OnceInv
<1>5. CASE wpc'[t] = "reply"
  <2>1. ReadEtag(t)
    BY <1>0, <1>5
    DEF CompleteUnknown, GetCompletedSession, NotCompleted, Reply, Done, Goto,
        TypeOK
  <2>2. id[t] \notin Resent =>
          /\ ~Serving(id[t], {"set_etag", "store_rest"})
          /\ sessions[id[t]].etag \in applied[id[t]]
    BY <1>0, <2>1 DEF ReadEtag, OnceKnows, Serving, Storing, Completing
  <2>3. /\ id'[t] = id[t]
        /\ id[t] \notin Resent => rep'[t] = sessions[id[t]].etag
    BY <1>0, <2>1, <2>2 DEF ReadEtag, TypeOK
  <2>4. EtagReported'
    BY <1>1, <2>2, <2>3 DEF OnceInv, EtagReported, OthersSame
  <2>5. OnceKnows(t)'
    BY <1>5 DEF OnceKnows
  <2> QED BY <1>2, <2>4, <2>5 DEF OnceInv
<1> QED BY <1>1, <1>3, <1>4, <1>5

LEMMA NextOnceInv == OnceInv /\ [Next]_vars => OnceInv'
<1> SUFFICES ASSUME OnceInv, [Next]_vars PROVE OnceInv'
  OBVIOUS
<1>1. SessionInv'
  BY NextSessionInv DEF OnceInv
<1>2. CASE Tick \/ UNCHANGED vars
  <2>1. UNCHANGED <<sessions, applied, localVars>>
    BY <1>2 DEF Tick, vars, tableVars
  <2> QED BY <1>1, <2>1
          DEF OnceInv, OnceKnows, Serving, EtagReported, localVars
<1> QED BY <1>1, <1>2, OnceRequests, OnceWriters, OnceReaders DEF Next, Serve

\* The stronger invariant, about sessions that nothing reaches twice.
THEOREM OnceInvariant == Spec => []OnceInv
<1>1. Init => OnceInv
  BY InitSessionInv DEF Init, OnceInv, OnceKnows, EtagReported
<1>2. OnceInv /\ [Next]_vars => OnceInv'
  BY NextOnceInv
<1> QED BY <1>1, <1>2, PTL DEF Spec

\* If no RPC about a session arrives twice, CompleteUpload replies with an
\* etag that was reported for the session, although it reads without mu_.
THEOREM EtagsReported == Spec => []EtagReported
<1>1. OnceInv => EtagReported
  BY DEF OnceInv
<1> QED BY OnceInvariant, <1>1, PTL
=============================================================================
