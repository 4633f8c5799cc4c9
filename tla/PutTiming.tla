------------------------------ MODULE PutTiming ------------------------------
(***************************************************************************)
(* How long Client::PutObject takes (client/src/client.cpp): the deadline, *)
(* the timeouts of its RPCs and the sleeps of RetryIfRetryable, on a clock *)
(* that counts from the call.                                              *)
(*                                                                         *)
(* A call of PutOnce opens a session, takes a token, has the backend read, *)
(* may check the bytes, and aborts the session when it fails.  Each of     *)
(* these may take as long as its own limit lets it; what they do is        *)
(* modelled in GdsPut.                                                     *)
(***************************************************************************)
EXTENDS Integers

CONSTANTS
  RequestTimeouts,  \* ClientOptions::request_timeout
  OwnTimeouts,      \* PutObjectRequest::timeout
  IntRange,         \* 2^32: what an int of the build can tell apart
  MaxAttempts,      \* RetryPolicy
  InitialBackoff,
  MaxBackoff,
  MaxLong,          \* the largest long long of the build
  MaxLocal,         \* bound: a call of cuObject, or copying and checking
  MaxWait           \* bound: a call without a timeout that returns after all

ASSUME TimingAssumption ==
  /\ RequestTimeouts \subseteq Nat
  /\ OwnTimeouts \subseteq Int
  /\ IntRange \in Nat \ {0}
  /\ MaxAttempts \in Nat \ {0}
  /\ InitialBackoff \in Nat \ {0} /\ MaxBackoff \in Nat \ {0}
  /\ MaxLong \in Nat
  /\ MaxLocal \in Nat /\ MaxWait \in Nat

\* initial_backoff * (1LL << (attempt - 1)) does not overflow.
ASSUME BackoffAssumption ==
  \A k \in 1 .. MaxAttempts : InitialBackoff * 2^(k - 1) \in 0 .. MaxLong

VARIABLES
  limit,    \* request_timeout of this client
  timeout,  \* PutAttempt::timeout, which every RPC is given
  tpc,      \* where PutObject is
  attempt,  \* how many times fn has been called
  now       \* the time since the call

timingVars == <<limit, timeout, tpc, attempt, now>>

\* static_cast<int>: modulo 2^32.
AsInt(n) ==
  LET m == n % IntRange IN IF 2 * m >= IntRange THEN m - IntRange ELSE m

\* brpc waits without a limit when timeout_ms is negative.
Unlimited == AsInt(timeout) < 0
Durations == 0 .. (IF Unlimited THEN MaxWait ELSE AsInt(timeout))

-----------------------------------------------------------------------------
(* Variants of operations below with a plausible mistake in them.  The     *)
(* specification does not use them; they show that the properties notice.  *)

\* Only a timeout of 0 counts as unset.
MakeContextIfZero(own, request_timeout) ==
  IF own = 0 THEN request_timeout ELSE own

\* Each attempt has request_timeout to itself.
InTimeAlways == TRUE

-----------------------------------------------------------------------------
\* A timeout that is not positive counts as unset.
MakeContext(own, request_timeout) ==
  IF own <= 0 THEN request_timeout ELSE own

TimingInit ==
  /\ limit \in RequestTimeouts
  /\ timeout \in {MakeContext(own, limit) : own \in OwnTimeouts}
  /\ tpc = "fn"
  /\ attempt = 1
  /\ now = 0

\* A step of the attempt that takes d and goes on at to.
Take(d, to) ==
  /\ now' = now + d
  /\ tpc' = to
  /\ UNCHANGED <<limit, timeout, attempt>>

\* The deadline is looked at here only.
InTime == now < limit

Begin == tpc = "fn" /\ InTime /\ Take(0, "open")

DeadlineExceeded == tpc = "fn" /\ ~InTime /\ Take(0, "failed")

\* A session that was not opened is not aborted.
OpenSession ==
  /\ tpc = "open"
  /\ \E d \in Durations, to \in {"token", "failed"} : Take(d, to)

AcquireToken ==
  /\ tpc = "token"
  /\ \E d \in 0 .. MaxLocal, to \in {"put", "abort"} : Take(d, to)

ChunkPut ==
  /\ tpc = "put"
  /\ \E d \in Durations, to \in {"verify", "abort"} : Take(d, to)

\* verify_crc32c copies the bytes back and checks them; it may be off.
Verify ==
  /\ tpc = "verify"
  /\ \E d \in 0 .. MaxLocal, to \in {"true", "abort"} : Take(d, to)

\* AbortSession is waited for, whatever it returns.
AbortSession ==
  /\ tpc = "abort"
  /\ \E d \in Durations : Take(d, "failed")

\* The backoff before attempt k + 1: doubled, clamped, then multiplied by a
\* number from 0.5 up to 1.5 and rounded down.
Backoff(k) ==
  LET doubled == InitialBackoff * 2^(k - 1)
      b == IF doubled > MaxBackoff THEN MaxBackoff ELSE doubled
  IN  (b \div 2) .. ((3 * b - 1) \div 2)

Sleep ==
  /\ tpc = "failed"
  /\ attempt < MaxAttempts
  /\ \E d \in Backoff(attempt) : now' = now + d
  /\ attempt' = attempt + 1
  /\ tpc' = "fn"
  /\ UNCHANGED <<limit, timeout>>

GiveUp == tpc = "failed" /\ attempt = MaxAttempts /\ Take(0, "false")

Returned == tpc \in {"true", "false"}

\* What the timeout limits, and what it does not.
Rpc == OpenSession \/ ChunkPut \/ AbortSession

Local ==
  Begin \/ DeadlineExceeded \/ AcquireToken \/ Verify \/ Sleep \/ GiveUp

TimingNext == Rpc \/ Local \/ (Returned /\ UNCHANGED timingVars)

\* The client's thread runs, and brpc ends a call at its timeout.
TimingSpec ==
  /\ TimingInit /\ [][TimingNext]_timingVars
  /\ WF_timingVars(Local)
  /\ WF_timingVars(~Unlimited /\ Rpc)

-----------------------------------------------------------------------------
(* Properties *)

\* The deadline that only the start of an attempt looks at still limits the
\* call: past request_timeout, PutObject takes no longer than the steps of
\* one attempt and the longest sleep before each attempt but the first.
OverrunBounded ==
  ~Unlimited =>
    now <= limit + 3 * AsInt(timeout) + 2 * MaxLocal
                 + (attempt - 1) * ((3 * MaxBackoff - 1) \div 2)

\* PutObject returns, whichever answer is lost, when the timeouts fit an int:
\* one that the request leaves unset never means that brpc waits for ever.
PutReturns ==
  (\A t \in OwnTimeouts \cup {limit} : 2 * t < IntRange) ~> Returned

\* options.h: request_timeout is the end-to-end limit of a PUT, OpenSession
\* and GdsPut together.
WithinRequestTimeout == Returned => now <= limit
=============================================================================
