--------------------------- MODULE SessionManager ---------------------------
(***************************************************************************)
(* The proxy's control plane: the session table of                         *)
(* proxy/src/session/session_manager.cpp and the RPCs of                   *)
(* proxy_control_plane_service.cpp that use it.  brpc runs each RPC on a   *)
(* worker thread; mu_ is held inside CreateSession, CompleteSession and    *)
(* GetCompletedSession, but CompleteUpload uses the pointer it got after   *)
(* the lock is released.                                                   *)
(***************************************************************************)
EXTENDS Integers, FiniteSets

CONSTANTS
  Workers,     \* brpc worker threads of the proxy
  ClientIds,   \* session ids that clients choose ("ses-...")
  Reports,     \* results the backend reports; each names etag, crc and bytes
  Empty,       \* an empty string or a zero
  Torn,        \* what reading a string during its assignment may give
  Nobody,      \* no thread holds mu_
  Ttl,         \* ttl_sec_
  MaxSeq,      \* bound: sessions that get a generated id
  MaxTime,     \* bound: the last time the clock shows
  Resent       \* the sessions about which an RPC may arrive more than once

AutoIds == 0 .. MaxSeq - 1          \* "pxs-<seq>"
Ids == ClientIds \cup AutoIds

\* Of SessionDirectory: a session that does not exist, or has no report yet.
Absent == "absent"
Pending == "pending"

ASSUME SessionAssumption ==
  /\ \A i \in ClientIds : i \notin Int
  /\ Absent \notin Reports
  /\ Empty \notin Reports \cup Ids
  /\ Torn \notin Reports \cup {Empty}
  /\ Nobody \notin Workers
  /\ Ttl \in Nat /\ MaxSeq \in Nat /\ MaxTime \in Nat
  /\ Resent \subseteq Ids

VARIABLES
  sessions,  \* sessions_
  applied,   \* the reports that completed a session (history)
  seq,       \* seq_
  mu,        \* mu_: who holds it
  now,       \* the clock
  wpc,       \* where each worker is
  id,        \* the session its RPC is about
  rep,       \* the report it delivers, or the etag it is about to reply
  exp        \* expire_at of the session it creates

tableVars == <<sessions, applied, seq, mu, now>>
localVars == <<wpc, id, rep, exp>>
vars == <<tableVars, localVars>>

Session == [expire_at : Nat, status : {"pending", "completed"},
            etag : Reports \cup {Empty}, crc32c : Reports \cup {Empty},
            bytes : Reports \cup {Empty}]

Init ==
  /\ sessions = [i \in {} |-> Empty]
  /\ applied = [i \in Ids |-> {}]
  /\ seq = 0
  /\ mu = Nobody
  /\ now = 0
  /\ wpc = [t \in Workers |-> "idle"]
  /\ id = [t \in Workers |-> Empty]
  /\ rep = [t \in Workers |-> Empty]
  /\ exp = [t \in Workers |-> 0]

-----------------------------------------------------------------------------
Goto(t, label) == wpc' = [wpc EXCEPT ![t] = label]

\* The handler returns and done_guard sends the response.
Done(t) ==
  /\ Goto(t, "idle")
  /\ id' = [id EXCEPT ![t] = Empty]
  /\ rep' = [rep EXCEPT ![t] = Empty]
  /\ exp' = [exp EXCEPT ![t] = 0]

\* sessions_[i] = s
Store(i, s) ==
  sessions' = [j \in DOMAIN sessions \cup {i} |->
                 IF j = i THEN s ELSE sessions[j]]

\* What sessions_[i] finds, or default-constructs.
Entry(i) ==
  IF i \in DOMAIN sessions THEN sessions[i]
  ELSE [expire_at |-> 0, status |-> "pending", etag |-> Empty,
        crc32c |-> Empty, bytes |-> Empty]

Completed(i) == i \in DOMAIN sessions /\ sessions[i].status = "completed"

\* Some RPC of kind k about session i is being served.
Serving(i, k) == \E t \in Workers : id[t] = i /\ wpc[t] \in k

Storing == {"store", "store_rest"}
Completing == {"complete", "set_etag", "set_rest"}

-----------------------------------------------------------------------------
(* Variants of operations below with a plausible mistake in them.  The     *)
(* specification does not use them; they show that the properties notice.  *)

\* Ids are numbered by the size of the table.
SessionIdFromSize(hint) ==
  IF hint = Empty THEN Cardinality(DOMAIN sessions) ELSE hint

\* A method forgets to take mu_.
LockIgnored(t) == mu' = t

\* The session is found whether it is completed or not.
GetCompletedSessionAny(t) ==
  /\ wpc[t] = "get"
  /\ mu = Nobody
  /\ id[t] \in DOMAIN sessions
  /\ Goto(t, "read_etag")
  /\ UNCHANGED <<tableVars, id, rep, exp>>

\* AbortSession erases the session, as control_plane.proto suggests.
AbortSessionErases(t, i) ==
  /\ wpc[t] = "idle"
  /\ mu = Nobody
  /\ sessions' = [j \in DOMAIN sessions \ {i} |-> sessions[j]]
  /\ UNCHANGED <<applied, seq, mu, now, localVars>>

-----------------------------------------------------------------------------
Lock(t) == mu = Nobody /\ mu' = t
Unlock == mu' = Nobody

(* OpenSession *)

\* One of the checks of the request fails.
RejectOpen(t) ==
  /\ wpc[t] = "idle"
  /\ UNCHANGED vars

\* The client's id, or the next number of seq_.
SessionId(hint) == IF hint = Empty THEN seq ELSE hint

\* CreateSession up to the lock: seq_.fetch_add and the expiry time.
CreateSession(t, hint) ==
  /\ wpc[t] = "idle"
  /\ hint = Empty => seq < MaxSeq
  /\ id' = [id EXCEPT ![t] = SessionId(hint)]
  /\ seq' = IF hint = Empty THEN seq + 1 ELSE seq
  /\ exp' = [exp EXCEPT ![t] = now + Ttl]
  /\ Goto(t, "store")
  /\ UNCHANGED <<sessions, applied, mu, now, rep>>

\* Under mu_: the assignment of the new session, up to its status ...
StoreSession(t) ==
  /\ wpc[t] = "store"
  /\ Lock(t)
  /\ Store(id[t], [Entry(id[t]) EXCEPT !.expire_at = exp[t],
                                       !.status = "pending"])
  /\ Goto(t, "store_rest")
  /\ UNCHANGED <<applied, seq, now, id, rep, exp>>

\* ... and the empty fields after it.
StoreRest(t) ==
  /\ wpc[t] = "store_rest"
  /\ Store(id[t], [sessions[id[t]] EXCEPT !.etag = Empty, !.crc32c = Empty,
                                          !.bytes = Empty])
  /\ Unlock
  /\ Done(t)
  /\ UNCHANGED <<applied, seq, now>>

-----------------------------------------------------------------------------
(* ReportGdsPut *)
ReportGdsPut(t, i, r) ==
  /\ wpc[t] = "idle"
  /\ id' = [id EXCEPT ![t] = i]
  /\ rep' = [rep EXCEPT ![t] = r]
  /\ Goto(t, "complete")
  /\ UNCHANGED <<tableVars, exp>>

CompleteUnknown(t) ==
  /\ wpc[t] = "complete"
  /\ mu = Nobody
  /\ id[t] \notin DOMAIN sessions
  /\ Done(t)
  /\ UNCHANGED tableVars

\* CompleteSession sets its four fields one by one under mu_.
CompleteSession(t) ==
  /\ wpc[t] = "complete"
  /\ Lock(t)
  /\ id[t] \in DOMAIN sessions
  /\ sessions' = [sessions EXCEPT ![id[t]].status = "completed"]
  /\ applied' = [applied EXCEPT ![id[t]] = @ \cup {rep[t]}]
  /\ Goto(t, "set_etag")
  /\ UNCHANGED <<seq, now, id, rep, exp>>

CompleteEtag(t) ==
  /\ wpc[t] = "set_etag"
  /\ sessions' = [sessions EXCEPT ![id[t]].etag = rep[t]]
  /\ Goto(t, "set_rest")
  /\ UNCHANGED <<applied, seq, mu, now, id, rep, exp>>

CompleteRest(t) ==
  /\ wpc[t] = "set_rest"
  /\ sessions' = [sessions EXCEPT ![id[t]].crc32c = rep[t],
                                  ![id[t]].bytes = rep[t]]
  /\ Unlock
  /\ Done(t)
  /\ UNCHANGED <<applied, seq, now>>

-----------------------------------------------------------------------------
(* CompleteUpload: the ticket names the session, "tkt-" and its id *)
CompleteUpload(t, i) ==
  /\ wpc[t] = "idle"
  /\ id' = [id EXCEPT ![t] = i]
  /\ Goto(t, "get")
  /\ UNCHANGED <<tableVars, rep, exp>>

\* The search under mu_ gives a pointer into the table ...
GetCompletedSession(t) ==
  /\ wpc[t] = "get"
  /\ mu = Nobody
  /\ Completed(id[t])
  /\ Goto(t, "read_etag")
  /\ UNCHANGED <<tableVars, id, rep, exp>>

NotCompleted(t) ==
  /\ wpc[t] = "get"
  /\ mu = Nobody
  /\ ~Completed(id[t])
  /\ Done(t)
  /\ UNCHANGED tableVars

\* ... that is read without it, while others may assign the string.
ReadEtag(t) ==
  /\ wpc[t] = "read_etag"
  /\ \E e \in {sessions[id[t]].etag} \cup
              (IF Serving(id[t], {"set_etag", "store_rest"}) THEN {Torn}
               ELSE {}) :
       rep' = [rep EXCEPT ![t] = e]
  /\ Goto(t, "reply")
  /\ UNCHANGED <<tableVars, id, exp>>

Reply(t) ==
  /\ wpc[t] = "reply"
  /\ Done(t)
  /\ UNCHANGED tableVars

\* Not implemented in this version, like HeadObject, GdsGet, GdsPut,
\* StartUpload and AbortUpload.
AbortSession(t, i) ==
  /\ wpc[t] = "idle"
  /\ UNCHANGED vars

-----------------------------------------------------------------------------
(* What the network delivers.  The handlers above take whatever comes; an  *)
(* OpenSession or a report about a session outside Resent comes once.      *)
OpenArrives(hint) ==
  hint \in Resent \/ (hint \notin DOMAIN sessions /\ ~Serving(hint, Storing))

ReportArrives(i) ==
  i \in Resent \/ (applied[i] = {} /\ ~Serving(i, Completing))

Request(t) ==
  \/ RejectOpen(t)
  \/ \E hint \in ClientIds \cup {Empty} :
       OpenArrives(hint) /\ CreateSession(t, hint)
  \/ \E i \in Ids, r \in Reports : ReportArrives(i) /\ ReportGdsPut(t, i, r)
  \/ \E i \in Ids : CompleteUpload(t, i) \/ AbortSession(t, i)

Serve(t) ==
  \/ StoreSession(t) \/ StoreRest(t)
  \/ CompleteUnknown(t) \/ CompleteSession(t)
  \/ CompleteEtag(t) \/ CompleteRest(t)
  \/ GetCompletedSession(t) \/ NotCompleted(t) \/ ReadEtag(t) \/ Reply(t)

Tick ==
  /\ now < MaxTime
  /\ now' = now + 1
  /\ UNCHANGED <<sessions, applied, seq, mu, localVars>>

Next ==
  \/ \E t \in Workers : Request(t) \/ Serve(t)
  \/ Tick

Spec == Init /\ [][Next]_vars

\* A handler that can take a step takes one; mu_ itself promises no order.
FairSpec == Spec /\ \A t \in Workers : WF_vars(Serve(t))

-----------------------------------------------------------------------------
(* Properties *)

\* The variables have the types session_manager.h gives them.
TypeOK ==
  /\ DOMAIN sessions \subseteq Ids
  /\ sessions \in [DOMAIN sessions -> Session]
  /\ applied \in [Ids -> SUBSET Reports]
  /\ seq \in 0 .. MaxSeq
  /\ mu \in Workers \cup {Nobody}
  /\ now \in 0 .. MaxTime
  /\ wpc \in [Workers -> {"idle", "get", "read_etag", "reply"} \cup Storing
                         \cup Completing]
  /\ id \in [Workers -> Ids \cup {Empty}]
  /\ rep \in [Workers -> Reports \cup {Empty, Torn}]
  /\ exp \in [Workers -> Nat]

\* The etag, the checksum and the byte count of one report, or none of them.
OneReport(i) ==
  LET s == sessions[i]
  IN  /\ s.etag = s.crc32c /\ s.crc32c = s.bytes
      /\ IF Completed(i) THEN s.etag \in applied[i] ELSE s.etag = Empty

\* Whenever mu_ is free, a completed session holds the etag, the checksum
\* and the byte count of one and the same report, and a pending one holds
\* none: CreateSession and CompleteSession never mix their assignments.
SessionsConsistent ==
  mu = Nobody => \A i \in DOMAIN sessions : OneReport(i)

\* A generated id is new when its session is stored, although seq_ is
\* advanced outside mu_: CreateSession overwrites no other caller's session.
AutoIdFresh ==
  \A t \in Workers :
    wpc[t] = "store" /\ id[t] \in AutoIds =>
      /\ id[t] \notin DOMAIN sessions
      /\ \A u \in Workers \ {t} : wpc[u] \in Storing => id[u] # id[t]

\* The pointer that GetCompletedSession returns stays valid after mu_ is
\* released: nothing erases the session it points to.
PointerStaysValid ==
  \A t \in Workers : wpc[t] = "read_etag" => id[t] \in DOMAIN sessions

\* CompleteUpload replies with an etag that the backend reported for the
\* session, although it reads the table without mu_, if no RPC about the
\* session arrives twice.
EtagReported ==
  \A t \in Workers :
    wpc[t] = "reply" /\ id[t] \notin Resent => rep[t] \in applied[id[t]]

\* proxy_control_plane_service.h and session_manager.h claim it of every
\* session: mu_ protects whatever a handler reads of sessions_.
EtagAlwaysReported ==
  \A t \in Workers : wpc[t] = "reply" => rep[t] \in applied[id[t]]

\* session_manager.h: a report about an expired session is not accepted.
ExpiredIsRefused ==
  [][\A t \in Workers :
       wpc[t] = "complete" /\ wpc'[t] = "set_etag" =>
         now <= sessions[id[t]].expire_at]_vars

-----------------------------------------------------------------------------
(* The inductive invariant: mu_ is held exactly in the critical sections,  *)
(* what a worker knows of its session at each point, and how the generated *)
(* ids compare with seq_.                                                  *)
Holding == {"store_rest", "set_etag", "set_rest"}

MutexHeld == \A t \in Workers : mu = t <=> wpc[t] \in Holding

WorkerKnows(t) ==
  /\ wpc[t] # "idle" => id[t] \in Ids
  /\ wpc[t] \in Completing => rep[t] \in Reports
  /\ wpc[t] \in Holding \cup {"read_etag"} => id[t] \in DOMAIN sessions
  /\ wpc[t] = "store_rest" => ~Completed(id[t])
  /\ wpc[t] \in {"set_etag", "set_rest"} =>
       Completed(id[t]) /\ rep[t] \in applied[id[t]]
  /\ wpc[t] = "set_rest" => sessions[id[t]].etag = rep[t]

Settled ==
  \A i \in DOMAIN sessions : ~Serving(i, Holding) => OneReport(i)

IdsBelowSeq ==
  /\ \A i \in DOMAIN sessions : i \in AutoIds => i < seq
  /\ \A t \in Workers :
       wpc[t] \in Storing /\ id[t] \in AutoIds => id[t] < seq

\* Outside the critical section of its session every entry of the table is
\* whole, and every worker's next assignment finds the entry it relies on.
SessionInv ==
  /\ TypeOK
  /\ MutexHeld
  /\ \A t \in Workers : WorkerKnows(t)
  /\ Settled
  /\ IdsBelowSeq
  /\ AutoIdFresh

\* If nothing about a session arrives twice, it is stored once and reported
\* once, so nobody assigns to it when CompleteUpload is about to read it.
OnceKnows(t) ==
  id[t] \notin Resent =>
    /\ wpc[t] = "store" =>
         /\ id[t] \notin DOMAIN sessions
         /\ \A u \in Workers \ {t} : wpc[u] \in Storing => id[u] # id[t]
    /\ wpc[t] = "complete" =>
         /\ applied[id[t]] = {}
         /\ \A u \in Workers \ {t} : wpc[u] \in Completing => id[u] # id[t]
    /\ wpc[t] = "read_etag" =>
         /\ ~Serving(id[t], Storing \cup Completing)
         /\ sessions[id[t]].etag \in applied[id[t]]

OnceInv == SessionInv /\ (\A t \in Workers : OnceKnows(t)) /\ EtagReported

-----------------------------------------------------------------------------
(* The table behaves like the atomic directory: an assignment counts as    *)
(* made as soon as its first field is.                                     *)
DirectoryEntry(i) ==
  IF i \notin DOMAIN sessions THEN Absent
  ELSE IF sessions[i].status = "pending" THEN Pending
  ELSE IF Serving(i, {"set_etag"})
       THEN rep[CHOOSE t \in Workers : id[t] = i /\ wpc[t] = "set_etag"]
  ELSE sessions[i].etag

Directory == INSTANCE SessionDirectory
               WITH state <- [i \in Ids |-> DirectoryEntry(i)]

\* CreateSession and CompleteSession are atomic to every other RPC.
ImplementsDirectory == Directory!Spec
=============================================================================
