------------------------------- MODULE GdsPut -------------------------------
(***************************************************************************)
(* One PUT end to end: Client::PutObject and PutOnce of                    *)
(* client/src/client.cpp, the proxy's session table and the backend's      *)
(* GdsPut handler, connected by brpc.                                      *)
(*                                                                         *)
(* The session table is used through SessionDirectory, which               *)
(* SessionManager implements; of the handler this module keeps what        *)
(* BackendGdsSink does for one request: read, checksum, report, reply.     *)
(*                                                                         *)
(* brpc resends a request when a connection breaks (max_retry), so what    *)
(* has been sent may arrive late, more than once, or never, and every call *)
(* may fail at its caller whatever happens at the other end.               *)
(***************************************************************************)
EXTENDS Integers

CONSTANTS
  Clients,       \* threads that call PutObject once
  MaxAttempts,   \* max_attempts of RetryPolicy
  Copies,        \* the times one GdsPut request may reach the backend
  Verify,        \* options.verify_crc32c
  ComputeCrc     \* compute_crc32c_ of the backend

ASSUME PutAssumption ==
  /\ MaxAttempts \in Nat \ {0}
  /\ Verify \in BOOLEAN
  /\ ComputeCrc \in BOOLEAN

\* MakeId draws the session id of every attempt from 64 random bits: the ids
\* are taken to be distinct, so an attempt stands for its session id.
Attempts == Clients \X (1 .. MaxAttempts)
Deliveries == Attempts \X Copies

\* What the backend may find in the client's memory: the data of the PUT,
\* its beginning, or what the application put there after the call.
Contents == {"data", "short", "reused"}

\* The checksum tells the contents apart; 0 means that it was not computed.
Zero == "zero"
Crc32c(x) == IF ComputeCrc THEN x ELSE Zero
Absent == "absent"
Pending == "pending"

VARIABLES
  cpc,          \* where each client is in PutObject
  n,            \* its attempt, from 1
  result,       \* what PutObject returned
  crc,          \* result.crc32c of the attempt
  memory,       \* the contents of the client's buffer
  opens,        \* OpenSession requests that were sent
  opened,       \* OpenSession responses
  puts,         \* GdsPut requests that were sent
  replies,      \* GdsPut responses
  reports,      \* ReportGdsPut requests
  session,      \* the proxy's session table
  hpc,          \* where the backend handler of each delivery is
  received      \* what it has read

clientVars == <<cpc, n, result, crc, memory>>
netVars == <<opens, opened, puts, replies, reports>>
backendVars == <<hpc, received>>
vars == <<clientVars, netVars, session, backendVars>>

Table == INSTANCE SessionDirectory
           WITH Ids <- Attempts, Reports <- Contents, state <- session

Init ==
  /\ cpc = [c \in Clients |-> "call"]
  /\ n = [c \in Clients |-> 1]
  /\ result = [c \in Clients |-> "none"]
  /\ crc = [c \in Clients |-> Zero]
  /\ memory = [c \in Clients |-> "data"]
  /\ opens = {} /\ opened = {} /\ puts = {} /\ replies = {}
  /\ reports = {}
  /\ Table!Init
  /\ hpc = [d \in Deliveries |-> "none"]
  /\ received = [d \in Deliveries |-> "nothing"]

-----------------------------------------------------------------------------
(* Variants of operations below with a plausible mistake in them.  The     *)
(* specification does not use them; they show that the properties notice.  *)

\* The checksums are compared but the outcome is ignored.
CrcMatchesAlways(c) == TRUE

\* The report is sent before the outcome of the transfer is looked at.
ReadFailsReported(d) ==
  /\ hpc[d] = "reading"
  /\ reports' = reports \cup {<<d[1], "short">>}
  /\ hpc' = [hpc EXCEPT ![d] = "done"]
  /\ UNCHANGED <<clientVars, opens, opened, puts, replies, session, received>>

\* There is one attempt too many.
NextAttemptOneMore(c) ==
  /\ cpc[c] = "failed"
  /\ n[c] <= MaxAttempts
  /\ n' = [n EXCEPT ![c] = @ + 1]
  /\ cpc' = [cpc EXCEPT ![c] = "attempt"]
  /\ UNCHANGED <<result, crc, memory, netVars, session, backendVars>>

-----------------------------------------------------------------------------
(* The client *)

\* MakePutAttempt makes new ids for every attempt.
AttemptId(c) == <<c, n[c]>>

\* Not initialized, or the buffer is larger than put_single_max_bytes.
Refuse(c) ==
  /\ cpc[c] = "call"
  /\ cpc' = [cpc EXCEPT ![c] = "returned"]
  /\ result' = [result EXCEPT ![c] = "failed"]
  /\ UNCHANGED <<n, crc, memory, netVars, session, backendVars>>

PutObject(c) ==
  /\ cpc[c] = "call"
  /\ cpc' = [cpc EXCEPT ![c] = "attempt"]
  /\ UNCHANGED <<n, result, crc, memory, netVars, session, backendVars>>

\* The deadline, which only the beginning of an attempt looks at, is over.
DeadlineExceeded(c) ==
  /\ cpc[c] = "attempt"
  /\ cpc' = [cpc EXCEPT ![c] = "failed"]
  /\ UNCHANGED <<n, result, crc, memory, netVars, session, backendVars>>

OpenSession(c) ==
  /\ cpc[c] = "attempt"
  /\ cpc' = [cpc EXCEPT ![c] = "open"]
  /\ opens' = opens \cup {AttemptId(c)}
  /\ UNCHANGED <<n, result, crc, memory, opened, puts, replies,
                 reports, session, backendVars>>

\* The response must echo the ids of this attempt.
OpenSessionOk(c) ==
  /\ cpc[c] = "open"
  /\ AttemptId(c) \in opened
  /\ cpc' = [cpc EXCEPT ![c] = "token"]
  /\ UNCHANGED <<n, result, crc, memory, netVars, session, backendVars>>

\* Refused, failed or timed out; no AbortSession.
OpenSessionFails(c) ==
  /\ cpc[c] = "open"
  /\ cpc' = [cpc EXCEPT ![c] = "failed"]
  /\ UNCHANGED <<n, result, crc, memory, netVars, session, backendVars>>

\* AcquireToken, and then chunk.Put sends the request with the token.
AcquireToken(c) ==
  /\ cpc[c] = "token"
  /\ puts' = puts \cup {AttemptId(c)}
  /\ cpc' = [cpc EXCEPT ![c] = "put"]
  /\ UNCHANGED <<n, result, crc, memory, opens, opened, replies,
                 reports, session, backendVars>>

\* AcquireToken, GdsPut (an error or a timeout), or the copy to host memory
\* failed: AbortSession, which the proxy does not implement and which so
\* changes nothing there, and PutOnce returns false.
AttemptFails(c) ==
  /\ cpc[c] \in {"token", "put"} \/ (cpc[c] = "verify" /\ Verify)
  /\ cpc' = [cpc EXCEPT ![c] = "failed"]
  /\ UNCHANGED <<n, result, crc, memory, opens, opened, puts, replies, reports,
                 session, backendVars>>

GdsPutOk(c) ==
  /\ cpc[c] = "put"
  /\ \E x \in Contents \cup {Zero} :
       /\ <<AttemptId(c), x>> \in replies
       /\ crc' = [crc EXCEPT ![c] = x]
  /\ cpc' = [cpc EXCEPT ![c] = "verify"]
  /\ UNCHANGED <<n, result, memory, netVars, session, backendVars>>

\* local == remote
CrcMatches(c) == memory[c] = crc[c]

CrcMismatch(c) ==
  /\ cpc[c] = "verify"
  /\ Verify
  /\ ~CrcMatches(c)
  /\ cpc' = [cpc EXCEPT ![c] = "failed"]
  /\ UNCHANGED <<n, result, crc, memory, opens, opened, puts, replies, reports,
                 session, backendVars>>

ReturnOk(c) ==
  /\ cpc[c] = "verify"
  /\ Verify => CrcMatches(c)
  /\ cpc' = [cpc EXCEPT ![c] = "returned"]
  /\ result' = [result EXCEPT ![c] = "ok"]
  /\ UNCHANGED <<n, crc, memory, netVars, session, backendVars>>

\* RetryIfRetryable: another attempt after the backoff ...
NextAttempt(c) ==
  /\ cpc[c] = "failed"
  /\ n[c] < MaxAttempts
  /\ n' = [n EXCEPT ![c] = @ + 1]
  /\ cpc' = [cpc EXCEPT ![c] = "attempt"]
  /\ UNCHANGED <<result, crc, memory, netVars, session, backendVars>>

\* ... or the last one failed.
ReturnFailed(c) ==
  /\ cpc[c] = "failed"
  /\ n[c] = MaxAttempts
  /\ cpc' = [cpc EXCEPT ![c] = "returned"]
  /\ result' = [result EXCEPT ![c] = "failed"]
  /\ UNCHANGED <<n, crc, memory, netVars, session, backendVars>>

\* The application may use its buffer again once the call has returned.
Reuse(c) ==
  /\ cpc[c] = "returned"
  /\ memory' = [memory EXCEPT ![c] = "reused"]
  /\ UNCHANGED <<cpc, n, result, crc, netVars, session, backendVars>>

-----------------------------------------------------------------------------
(* The proxy *)
ProxyOpen(a) ==
  /\ a \in opens
  /\ Table!Open(a)
  /\ opened' = opened \cup {a}
  /\ UNCHANGED <<clientVars, opens, puts, replies, reports, backendVars>>

ProxyReport(m) ==
  /\ m \in reports
  /\ Table!Report(m[1], m[2])
  /\ UNCHANGED <<clientVars, netVars, backendVars>>

\* The sessions are in memory only.
ProxyRestart ==
  /\ session' = [a \in Attempts |-> Absent]
  /\ UNCHANGED <<clientVars, netVars, backendVars>>

-----------------------------------------------------------------------------
(* The backend: one handler per delivery of a GdsPut request *)

\* The transfer begins.  The client gives its token back when PutOnce
\* returns, but its buffer stays registered and nothing tells the backend:
\* a delivery that comes late reads all the same.
StartRead(d) ==
  /\ hpc[d] = "none"
  /\ d[1] \in puts
  /\ hpc' = [hpc EXCEPT ![d] = "reading"]
  /\ UNCHANGED <<clientVars, netVars, session, received>>

\* It ends, possibly after the client has given up, with what was there.
ReadOk(d) ==
  /\ hpc[d] = "reading"
  /\ \E x \in {memory[d[1][1]], "short"} :
       received' = [received EXCEPT ![d] = x]
  /\ hpc' = [hpc EXCEPT ![d] = "report"]
  /\ UNCHANGED <<clientVars, netVars, session>>

ReadFails(d) ==
  /\ hpc[d] = "reading"
  /\ hpc' = [hpc EXCEPT ![d] = "done"]
  /\ UNCHANGED <<clientVars, netVars, session, received>>

\* ReportGdsPut is waited for, but only until kNotifyTimeoutMs.
NotifyProxy(d) ==
  /\ hpc[d] = "report"
  /\ reports' = reports \cup {<<d[1], received[d]>>}
  /\ hpc' = [hpc EXCEPT ![d] = "reply"]
  /\ UNCHANGED <<clientVars, opens, opened, puts, replies, session, received>>

ReplyGdsPut(d) ==
  /\ hpc[d] = "reply"
  /\ replies' = replies \cup {<<d[1], Crc32c(received[d])>>}
  /\ hpc' = [hpc EXCEPT ![d] = "done"]
  /\ UNCHANGED <<clientVars, opens, opened, puts, reports, session, received>>

\* Handlers that run are lost.
BackendRestart ==
  /\ hpc' = [d \in Deliveries |-> IF hpc[d] = "none" THEN "none" ELSE "done"]
  /\ UNCHANGED <<clientVars, netVars, session, received>>

-----------------------------------------------------------------------------
Client(c) ==
  \/ Refuse(c) \/ PutObject(c) \/ DeadlineExceeded(c)
  \/ OpenSession(c) \/ OpenSessionOk(c) \/ OpenSessionFails(c)
  \/ AcquireToken(c) \/ AttemptFails(c)
  \/ GdsPutOk(c) \/ CrcMismatch(c) \/ ReturnOk(c)
  \/ NextAttempt(c) \/ ReturnFailed(c)

Proxy ==
  \/ \E a \in Attempts : ProxyOpen(a)
  \/ \E m \in reports : ProxyReport(m)
  \/ ProxyRestart

Backend ==
  \/ \E d \in Deliveries :
       \/ StartRead(d) \/ ReadOk(d) \/ ReadFails(d)
       \/ NotifyProxy(d) \/ ReplyGdsPut(d)
  \/ BackendRestart

Next ==
  \/ \E c \in Clients : Client(c) \/ Reuse(c)
  \/ Proxy
  \/ Backend

Spec == Init /\ [][Next]_vars

-----------------------------------------------------------------------------
(* Properties *)

\* The values of the variables.
TypeOK ==
  /\ cpc \in [Clients -> {"call", "attempt", "open", "token", "put",
                          "verify", "failed", "returned"}]
  /\ n \in [Clients -> 1 .. MaxAttempts]
  /\ result \in [Clients -> {"none", "ok", "failed"}]
  /\ crc \in [Clients -> Contents \cup {Zero}]
  /\ memory \in [Clients -> Contents]
  /\ opens \subseteq Attempts /\ opened \subseteq Attempts
  /\ puts \subseteq Attempts
  /\ replies \subseteq Attempts \X (Contents \cup {Zero})
  /\ reports \subseteq Attempts \X Contents
  /\ session \in [Attempts -> Contents \cup {Absent, Pending}]
  /\ hpc \in [Deliveries ->
                {"none", "reading", "report", "reply", "done"}]
  /\ received \in [Deliveries -> Contents \cup {"nothing"}]

\* A delivery of attempt a has read x.
HasRead(a, x) == \E k \in Copies : received[<<a, k>>] = x

\* With verify_crc32c, PutObject returns true only if the backend has read
\* the complete data of the buffer in the attempt that succeeded: no resent,
\* delayed or abandoned request of this or an earlier attempt can stand in.
VerifiedIntact ==
  Verify => \A c \in Clients :
              result[c] = "ok" => HasRead(<<c, n[c]>>, "data")

\* A session is completed only with something the backend has read for that
\* very session, across resends, restarts and late reports.
CompletedHasTransfer ==
  \A a \in Attempts : session[a] \in Contents => HasRead(a, session[a])

-----------------------------------------------------------------------------
(* The inductive invariant: what was reported or replied has been read,    *)
(* and the client verifies the reply to its present attempt against memory *)
(* that nobody has touched yet.                                            *)
HandlerKnows(d) ==
  /\ hpc[d] \in {"none", "reading"} => received[d] = "nothing"
  /\ hpc[d] \in {"report", "reply"} => received[d] \in Contents

ReportsTrue == \A m \in reports : HasRead(m[1], m[2])

RepliesTrue ==
  \A m \in replies :
    \E x \in Contents : m[2] = Crc32c(x) /\ HasRead(m[1], x)

ClientKnows(c) ==
  /\ cpc[c] # "returned" => memory[c] = "data" /\ result[c] = "none"
  /\ cpc[c] = "verify" => <<AttemptId(c), crc[c]>> \in replies

PutInv ==
  /\ TypeOK
  /\ \A d \in Deliveries : HandlerKnows(d)
  /\ ReportsTrue
  /\ RepliesTrue
  /\ CompletedHasTransfer
  /\ \A c \in Clients : ClientKnows(c)
  /\ VerifiedIntact
=============================================================================
