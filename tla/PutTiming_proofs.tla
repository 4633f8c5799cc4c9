-------------------------- MODULE PutTiming_proofs --------------------------
(***************************************************************************)
(* Proofs about how long PutObject takes: how far past request_timeout an  *)
(* attempt can be at each of its steps, for every timeout and backoff.     *)
(***************************************************************************)
EXTENDS PutTiming, TLAPS

\* The longest sleep between two attempts: max_backoff times 1.5.
LongestSleep == (3 * MaxBackoff - 1) \div 2

\* The values of the variables.
TimingTypeOK ==
  /\ limit \in Nat
  /\ timeout \in Nat
  /\ tpc \in {"fn", "open", "token", "put", "verify", "abort", "failed",
              "true", "false"}
  /\ attempt \in 1 .. MaxAttempts
  /\ now \in Nat

\* When an attempt may at the latest be at each of its steps.  It begins
\* before the deadline; an RPC adds the timeout, a local step MaxLocal.
AttemptInTime ==
  /\ tpc = "open" => now <= limit
  /\ tpc = "token" => now <= limit + AsInt(timeout)
  /\ tpc = "put" => now <= limit + AsInt(timeout) + MaxLocal
  /\ tpc = "verify" => now <= limit + 2 * AsInt(timeout) + MaxLocal
  /\ tpc = "abort" => now <= limit + 2 * AsInt(timeout) + 2 * MaxLocal

TimingInv ==
  /\ TimingTypeOK
  /\ ~Unlimited => AttemptInTime
  /\ OverrunBounded

-----------------------------------------------------------------------------
(* The operators *)

\* The cast gives a number, one that is not negative when brpc sees a limit.
LEMMA CastTypes ==
  ASSUME TimingTypeOK
  PROVE  AsInt(timeout) \in Int /\ (~Unlimited => AsInt(timeout) \in Nat)
BY TimingAssumption DEF TimingTypeOK, AsInt, Unlimited

\* The timeout survives the cast of ApplyTimeout.
TimeoutFits == 2 * timeout < IntRange

\* A timeout that fits is the one that brpc applies.
LEMMA FittingTimeout ==
  ASSUME TimingTypeOK, TimeoutFits
  PROVE  AsInt(timeout) = timeout /\ ~Unlimited /\ Durations = 0 .. timeout
<1>1. timeout \in Nat /\ timeout % IntRange = timeout
  BY TimingAssumption DEF TimingTypeOK, TimeoutFits
<1>2. AsInt(timeout) = timeout
  BY <1>1, TimingAssumption DEF AsInt, TimeoutFits
<1> QED BY <1>1, <1>2 DEF Unlimited, Durations

\* A sleep is never negative, and never longer than 1.5 times max_backoff.
LEMMA BackoffBounded ==
  ASSUME NEW k \in 1 .. MaxAttempts, NEW d \in Backoff(k)
  PROVE  d \in Nat /\ d <= LongestSleep
<1> DEFINE doubled == InitialBackoff * 2^(k - 1)
           b == IF doubled > MaxBackoff THEN MaxBackoff ELSE doubled
<1>1. doubled \in Nat
  BY BackoffAssumption, TimingAssumption
<1>2. b \in Nat /\ b <= MaxBackoff
  BY <1>1, TimingAssumption
<1>3. d \in (b \div 2) .. ((3 * b - 1) \div 2)
  BY DEF Backoff
<1> HIDE DEF b
<1>4. b \div 2 \in Nat /\ (3 * b - 1) \div 2 \in Int
  BY <1>2
<1>5. d \in Nat /\ d <= (3 * b - 1) \div 2
  BY <1>3, <1>4
<1>6. (3 * b - 1) \div 2 <= (3 * MaxBackoff - 1) \div 2
  BY <1>2, TimingAssumption
<1> QED BY <1>2, <1>5, <1>6, TimingAssumption DEF LongestSleep

\* The sleeps so far, and with one more attempt.
LEMMA SleepsGrow ==
  ASSUME NEW k \in Nat \ {0}
  PROVE  /\ LongestSleep \in Nat
         /\ (k - 1) * LongestSleep \in Nat
         /\ k * LongestSleep = (k - 1) * LongestSleep + LongestSleep
<1>1. LongestSleep \in Nat
  BY TimingAssumption DEF LongestSleep
<1> HIDE DEF LongestSleep
<1> QED BY <1>1

-----------------------------------------------------------------------------
(* The steps *)

LEMMA TimingInitial == TimingInit => TimingInv
<1> SUFFICES ASSUME TimingInit PROVE TimingInv
  OBVIOUS
<1>1. limit \in Nat /\ timeout \in Nat
  <2>1. PICK own \in OwnTimeouts : timeout = MakeContext(own, limit)
    BY DEF TimingInit
  <2>2. limit \in Nat /\ own \in Int
    BY TimingAssumption DEF TimingInit
  <2> QED BY <2>1, <2>2 DEF MakeContext
<1>2. TimingTypeOK
  BY <1>1, TimingAssumption DEF TimingInit, TimingTypeOK
<1>3. AttemptInTime
  BY DEF TimingInit, AttemptInTime
<1>4. OverrunBounded
  <2>1. ~Unlimited => AsInt(timeout) \in Nat
    BY <1>2, CastTypes
  <2>2. now = 0 /\ attempt - 1 = 0
    BY DEF TimingInit
  <2>3. LongestSleep \in Nat /\ (attempt - 1) * LongestSleep = 0
    BY <2>2, TimingAssumption DEF LongestSleep
  <2> QED BY <1>1, <2>1, <2>2, <2>3, TimingAssumption
          DEF OverrunBounded, LongestSleep
<1> QED BY <1>2, <1>3, <1>4 DEF TimingInv

LEMMA TimingTypesKept ==
  ASSUME TimingTypeOK, [TimingNext]_timingVars
  PROVE  TimingTypeOK'
<1>1. ASSUME NEW d \in Nat, NEW to, Take(d, to),
             to \in {"open", "token", "put", "verify", "abort", "failed",
                     "true", "false"}
      PROVE  TimingTypeOK'
  BY <1>1 DEF TimingTypeOK, Take
<1>2. Durations \subseteq Nat
  BY CastTypes, TimingAssumption DEF Durations
<1>3. ASSUME Rpc PROVE TimingTypeOK'
  BY <1>1, <1>2, <1>3 DEF Rpc, OpenSession, ChunkPut, AbortSession
<1>4. 0 .. MaxLocal \subseteq Nat
  BY TimingAssumption
<1>5. ASSUME Sleep PROVE TimingTypeOK'
  <2>1. PICK d \in Backoff(attempt) : now' = now + d
    BY <1>5 DEF Sleep
  <2>2. d \in Nat
    BY <2>1, BackoffBounded DEF TimingTypeOK
  <2> QED BY <1>5, <2>1, <2>2, TimingAssumption DEF Sleep, TimingTypeOK
<1>6. ASSUME Local PROVE TimingTypeOK'
  BY <1>1, <1>4, <1>5, <1>6
  DEF Local, Begin, DeadlineExceeded, AcquireToken, Verify, GiveUp
<1> QED BY <1>3, <1>6 DEF TimingNext, timingVars, TimingTypeOK

\* A step of an attempt.  slack is what (attempt - 1) * LongestSleep stands
\* for, which such a step does not change.
LEMMA AttemptStep ==
  ASSUME TimingInv, Rpc \/ Begin \/ DeadlineExceeded \/ AcquireToken
                    \/ Verify \/ GiveUp
  PROVE  (~Unlimited => AttemptInTime)' /\ OverrunBounded'
<1> DEFINE T == AsInt(timeout)
           slack == (attempt - 1) * LongestSleep
<1>1. UNCHANGED <<limit, timeout, attempt>>
  BY DEF Rpc, Begin, DeadlineExceeded, AcquireToken, Verify, GiveUp,
         OpenSession, ChunkPut, AbortSession, Take
<1>2. T' = T /\ Unlimited' = Unlimited /\ slack' = slack
  BY <1>1 DEF AsInt, Unlimited, LongestSleep
<1> SUFFICES ASSUME ~Unlimited
             PROVE  /\ AttemptInTime'
                    /\ now' <= limit + 3 * T + 2 * MaxLocal + slack
  BY <1>1, <1>2 DEF OverrunBounded, LongestSleep
<1>3. /\ limit \in Nat /\ now \in Nat /\ T \in Nat /\ MaxLocal \in Nat
      /\ slack \in Nat
  BY CastTypes, SleepsGrow, TimingAssumption DEF TimingInv, TimingTypeOK
<1>4. AttemptInTime /\ now <= limit + 3 * T + 2 * MaxLocal + slack
  BY DEF TimingInv, OverrunBounded, LongestSleep
<1>5. Durations = 0 .. T
  BY DEF Durations
<1> HIDE DEF T, slack
<1>6. AttemptInTime' <=>
        /\ tpc' = "open" => now' <= limit
        /\ tpc' = "token" => now' <= limit + T
        /\ tpc' = "put" => now' <= limit + T + MaxLocal
        /\ tpc' = "verify" => now' <= limit + 2 * T + MaxLocal
        /\ tpc' = "abort" => now' <= limit + 2 * T + 2 * MaxLocal
  BY <1>1, <1>2 DEF AttemptInTime, T
<1>7. /\ tpc = "open" => now <= limit
      /\ tpc = "token" => now <= limit + T
      /\ tpc = "put" => now <= limit + T + MaxLocal
      /\ tpc = "verify" => now <= limit + 2 * T + MaxLocal
      /\ tpc = "abort" => now <= limit + 2 * T + 2 * MaxLocal
  BY <1>4 DEF AttemptInTime, T
<1>8. CASE OpenSession
  BY <1>3, <1>4, <1>5, <1>6, <1>7, <1>8 DEF OpenSession, Take
<1>9. CASE ChunkPut
  BY <1>3, <1>4, <1>5, <1>6, <1>7, <1>9 DEF ChunkPut, Take
<1>10. CASE AbortSession
  BY <1>3, <1>4, <1>5, <1>6, <1>7, <1>10 DEF AbortSession, Take
<1>11. CASE AcquireToken
  BY <1>3, <1>4, <1>6, <1>7, <1>11 DEF AcquireToken, Take
<1>12. CASE Verify
  BY <1>3, <1>4, <1>6, <1>7, <1>12 DEF Verify, Take
<1>13. CASE Begin \/ DeadlineExceeded \/ GiveUp
  BY <1>3, <1>4, <1>6, <1>13
  DEF Begin, DeadlineExceeded, GiveUp, InTime, Take
<1> QED BY <1>8, <1>9, <1>10, <1>11, <1>12, <1>13 DEF Rpc

\* A sleep lengthens the call by no more than it raises the bound.
LEMMA SleepStep ==
  ASSUME TimingInv, Sleep
  PROVE  AttemptInTime' /\ OverrunBounded'
<1>1. AttemptInTime'
  BY DEF Sleep, AttemptInTime
<1>2. PICK d \in Backoff(attempt) : now' = now + d
  BY DEF Sleep
<1>3. TimingTypeOK /\ attempt \in Nat \ {0}
  BY TimingAssumption DEF TimingInv, TimingTypeOK
<1>4. d \in Nat /\ d <= LongestSleep
  BY <1>2, <1>3, BackoffBounded DEF TimingTypeOK
<1>5. ASSUME ~Unlimited
      PROVE  now' <= limit + 3 * AsInt(timeout) + 2 * MaxLocal
                           + attempt * LongestSleep
  <2> DEFINE before == (attempt - 1) * LongestSleep
             after == attempt * LongestSleep
  <2>1. before \in Nat /\ LongestSleep \in Nat /\ after = before + LongestSleep
    BY <1>3, SleepsGrow
  <2>2. now <= limit + 3 * AsInt(timeout) + 2 * MaxLocal + before
    BY <1>5 DEF TimingInv, OverrunBounded, LongestSleep
  <2>3. now \in Nat /\ limit \in Nat /\ AsInt(timeout) \in Nat
        /\ MaxLocal \in Nat
    BY <1>3, <1>5, CastTypes, TimingAssumption DEF TimingTypeOK
  <2> HIDE DEF before, after
  <2>4. now' <= limit + 3 * AsInt(timeout) + 2 * MaxLocal + after
    BY <1>2, <1>4, <2>1, <2>2, <2>3
  <2> QED BY <2>4 DEF after
<1>6. UNCHANGED <<limit, timeout>> /\ attempt' - 1 = attempt
  BY <1>3 DEF Sleep
<1> QED BY <1>1, <1>5, <1>6 DEF OverrunBounded, Unlimited, AsInt, LongestSleep

-----------------------------------------------------------------------------
(* The theorems *)

\* TimingInv holds: each step of an attempt is reached in time, for every
\* timeout and every number of attempts.
THEOREM TimingInvariant == TimingSpec => []TimingInv
<1>1. TimingInv /\ [TimingNext]_timingVars => TimingInv'
  <2> SUFFICES ASSUME TimingInv, [TimingNext]_timingVars PROVE TimingInv'
    OBVIOUS
  <2>1. TimingTypeOK'
    BY TimingTypesKept DEF TimingInv
  <2>2. CASE UNCHANGED timingVars
    BY <2>2 DEF timingVars, TimingInv, TimingTypeOK, AttemptInTime,
                OverrunBounded, Unlimited, AsInt
  <2>3. CASE Rpc \/ Local
    BY <2>1, <2>3, AttemptStep, SleepStep DEF TimingInv, Local
  <2> QED BY <2>2, <2>3 DEF TimingNext
<1> QED BY <1>1, TimingInitial, PTL DEF TimingSpec

\* RetryIfRetryable: although only the start of an attempt looks at the
\* deadline, PutObject overruns request_timeout by no more than the steps of
\* one attempt and the longest sleeps, whatever the timeouts are.
THEOREM OverrunIsBounded == TimingSpec => []OverrunBounded
<1>1. TimingInv => OverrunBounded
  BY DEF TimingInv
<1> QED BY <1>1, TimingInvariant, PTL

\* ApplyTimeout: when every timeout fits an int the cast changes none of them,
\* so no RPC waits without a limit, and PutObject as a whole ends before a
\* time that its options determine.
THEOREM CallIsBounded ==
  ASSUME \A t \in OwnTimeouts \cup RequestTimeouts : 2 * t < IntRange
  PROVE  TimingSpec =>
           [](/\ ~Unlimited
              /\ now <= limit + 3 * timeout + 2 * MaxLocal
                              + (MaxAttempts - 1) * LongestSleep)
<1> DEFINE Bounded == /\ ~Unlimited
                      /\ now <= limit + 3 * timeout + 2 * MaxLocal
                                      + (MaxAttempts - 1) * LongestSleep
<1>1. TimingInit => TimeoutFits
  <2> SUFFICES ASSUME TimingInit PROVE TimeoutFits
    OBVIOUS
  <2>1. PICK own \in OwnTimeouts : timeout = MakeContext(own, limit)
    BY DEF TimingInit
  <2> QED BY <2>1 DEF TimingInit, MakeContext, TimeoutFits
<1>2. TimeoutFits /\ [TimingNext]_timingVars => TimeoutFits'
  BY DEF TimingNext, timingVars, Rpc, Local, OpenSession, ChunkPut,
         AbortSession, Begin, DeadlineExceeded, AcquireToken, Verify, Sleep,
         GiveUp, Take, TimeoutFits
<1>3. TimingInv /\ TimeoutFits => Bounded
  <2> SUFFICES ASSUME TimingInv, TimeoutFits PROVE Bounded
    OBVIOUS
  <2>1. /\ timeout \in Nat /\ limit \in Nat /\ now \in Nat
        /\ attempt \in 1 .. MaxAttempts
    BY DEF TimingInv, TimingTypeOK
  <2>2. AsInt(timeout) = timeout /\ ~Unlimited
    BY FittingTimeout DEF TimingInv
  <2> DEFINE before == (attempt - 1) * LongestSleep
             all == (MaxAttempts - 1) * LongestSleep
  <2>3. before <= all /\ before \in Int /\ all \in Int
    <3>1. LongestSleep \in Nat
      BY <2>1, SleepsGrow
    <3>2. attempt - 1 <= MaxAttempts - 1 /\ attempt - 1 \in Nat
          /\ MaxAttempts - 1 \in Nat
      BY <2>1, TimingAssumption
    <3>3. \A m, n, s \in Nat : m <= n => m * s <= n * s
      OBVIOUS
    <3> QED BY <3>1, <3>2, <3>3
  <2>4. now <= limit + 3 * timeout + 2 * MaxLocal + before
    BY <2>2 DEF TimingInv, OverrunBounded, LongestSleep
  <2> HIDE DEF before, all
  <2>5. now <= limit + 3 * timeout + 2 * MaxLocal + all
    BY <2>1, <2>3, <2>4, TimingAssumption
  <2> QED BY <2>2, <2>5 DEF all
<1> QED BY <1>1, <1>2, <1>3, TimingInvariant, PTL DEF TimingSpec

-----------------------------------------------------------------------------
(* When request_timeout is kept *)

\* What the steps of one attempt take at most, and what the attempts before
\* this one and the sleeps after them have taken at most.
AttemptCost == 3 * timeout + 2 * MaxLocal
Spent == (attempt - 1) * (AttemptCost + LongestSleep)

\* request_timeout has room for every attempt and every sleep.
Roomy ==
  MaxAttempts * AttemptCost + (MaxAttempts - 1) * LongestSleep <= limit

\* When an attempt may at the latest be at each of its steps, counted from the
\* call instead of from the deadline.
OnPace ==
  /\ tpc \in {"fn", "open"} => now <= Spent
  /\ tpc = "token" => now <= Spent + timeout
  /\ tpc = "put" => now <= Spent + timeout + MaxLocal
  /\ tpc = "verify" => now <= Spent + 2 * timeout + MaxLocal
  /\ tpc = "abort" => now <= Spent + 2 * timeout + 2 * MaxLocal
  /\ tpc \in {"failed", "true", "false"} => now <= Spent + AttemptCost

\* The cost of an attempt is a number, and so is that of several.
LEMMA CostTypes ==
  ASSUME TimingTypeOK
  PROVE  /\ AttemptCost \in Nat /\ LongestSleep \in Nat
         /\ Spent \in Nat
         /\ attempt * (AttemptCost + LongestSleep)
              = Spent + AttemptCost + LongestSleep
<1>1. AttemptCost \in Nat /\ attempt \in Nat \ {0}
  BY TimingAssumption DEF TimingTypeOK, AttemptCost
<1>2. LongestSleep \in Nat
  BY <1>1, SleepsGrow
<1> DEFINE c == AttemptCost + LongestSleep
<1>3. c \in Nat
  BY <1>1, <1>2
<1> HIDE DEF c
<1>4. (attempt - 1) * c \in Nat /\ attempt * c = (attempt - 1) * c + c
  BY <1>1, <1>3
<1>5. Spent = (attempt - 1) * c
  BY DEF Spent, c
<1>6. attempt * c = Spent + c /\ Spent \in Nat
  BY <1>4, <1>5
<1>7. c = AttemptCost + LongestSleep
  BY DEF c
<1> QED BY <1>1, <1>2, <1>6, <1>7

\* A step of an attempt changes the pace by its own duration.
LEMMA AttemptPace ==
  ASSUME TimingTypeOK, TimeoutFits, OnPace,
         Rpc \/ Begin \/ DeadlineExceeded \/ AcquireToken \/ Verify \/ GiveUp
  PROVE  OnPace'
<1>1. UNCHANGED <<limit, timeout, attempt>>
  BY DEF Rpc, Begin, DeadlineExceeded, AcquireToken, Verify, GiveUp,
         OpenSession, ChunkPut, AbortSession, Take
<1>2. Spent' = Spent /\ AttemptCost' = AttemptCost
  BY <1>1 DEF Spent, AttemptCost, LongestSleep
<1>3. /\ now \in Nat /\ timeout \in Nat /\ MaxLocal \in Nat /\ Spent \in Nat
      /\ AttemptCost = 3 * timeout + 2 * MaxLocal
  BY CostTypes, TimingAssumption DEF TimingTypeOK, AttemptCost
<1>4. Durations = 0 .. timeout
  BY FittingTimeout
<1>5. CASE OpenSession
  BY <1>1, <1>2, <1>3, <1>4, <1>5 DEF OpenSession, Take, OnPace
<1>6. CASE ChunkPut
  BY <1>1, <1>2, <1>3, <1>4, <1>6 DEF ChunkPut, Take, OnPace
<1>7. CASE AbortSession
  BY <1>1, <1>2, <1>3, <1>4, <1>7 DEF AbortSession, Take, OnPace
<1>8. CASE AcquireToken
  BY <1>1, <1>2, <1>3, <1>8 DEF AcquireToken, Take, OnPace
<1>9. CASE Verify
  BY <1>1, <1>2, <1>3, <1>9 DEF Verify, Take, OnPace
<1>10. CASE Begin \/ DeadlineExceeded \/ GiveUp
  BY <1>1, <1>2, <1>3, <1>10
  DEF Begin, DeadlineExceeded, GiveUp, Take, OnPace
<1> QED BY <1>5, <1>6, <1>7, <1>8, <1>9, <1>10 DEF Rpc

\* After a sleep the attempt that failed and the sleep count as spent.
LEMMA SleepPace ==
  ASSUME TimingTypeOK, OnPace, Sleep
  PROVE  OnPace'
<1>1. PICK d \in Backoff(attempt) : now' = now + d
  BY DEF Sleep
<1>2. d \in Nat /\ d <= LongestSleep
  BY <1>1, BackoffBounded DEF TimingTypeOK
<1>3. now \in Nat /\ now <= Spent + AttemptCost
  BY DEF OnPace, Sleep, TimingTypeOK
<1>4. attempt \in Nat /\ attempt' = attempt + 1 /\ timeout' = timeout
      /\ tpc' = "fn"
  BY TimingAssumption DEF Sleep, TimingTypeOK
<1>5. attempt' - 1 = attempt
  BY <1>4
<1>6. Spent' = attempt * (AttemptCost + LongestSleep)
  BY <1>4, <1>5 DEF Spent, AttemptCost, LongestSleep
<1>7. now' <= Spent'
  BY <1>1, <1>2, <1>3, <1>6, CostTypes
<1> QED BY <1>4, <1>7 DEF OnPace

\* options.h calls request_timeout the end-to-end limit of a PUT, which
\* PutObject does not keep in general.  It does keep it when the timeout
\* survives the cast and request_timeout has room for every attempt and every
\* sleep (the defaults have, while a local step takes less than 4 s): then no
\* step of the call, and so not its return, is past the limit, though only the
\* start of an attempt looks at it.
THEOREM DeadlineKept ==
  TimingSpec => [](TimeoutFits /\ Roomy => now <= limit)
<1> DEFINE Pace == TimingTypeOK /\ (TimeoutFits => OnPace)
<1>1. TimingInit => Pace
  <2> SUFFICES ASSUME TimingInit PROVE Pace
    OBVIOUS
  <2>1. TimingTypeOK
    BY TimingInitial DEF TimingInv
  <2>2. now <= Spent
    BY <2>1, CostTypes DEF TimingInit
  <2> QED BY <2>1, <2>2 DEF TimingInit, OnPace
<1>2. Pace /\ [TimingNext]_timingVars => Pace'
  <2> SUFFICES ASSUME Pace, [TimingNext]_timingVars, TimeoutFits'
               PROVE  OnPace'
    BY TimingTypesKept
  <2>1. TimeoutFits
    BY DEF TimingNext, timingVars, Rpc, Local, OpenSession, ChunkPut,
           AbortSession, Begin, DeadlineExceeded, AcquireToken, Verify, Sleep,
           GiveUp, Take, TimeoutFits
  <2>2. CASE UNCHANGED timingVars
    BY <2>1, <2>2 DEF timingVars, OnPace, Spent, AttemptCost, LongestSleep
  <2>3. CASE Rpc \/ Local
    BY <2>1, <2>3, AttemptPace, SleepPace DEF Local
  <2> QED BY <2>2, <2>3 DEF TimingNext
<1>3. Pace => (TimeoutFits /\ Roomy => now <= limit)
  <2> SUFFICES ASSUME TimingTypeOK, OnPace, Roomy PROVE now <= limit
    OBVIOUS
  <2> DEFINE c == AttemptCost + LongestSleep
             s == (MaxAttempts - 1) * LongestSleep
             a == (MaxAttempts - 1) * AttemptCost
  <2>1. /\ now \in Nat /\ limit \in Nat /\ timeout \in Nat
        /\ MaxLocal \in Nat /\ AttemptCost \in Nat /\ LongestSleep \in Nat
        /\ Spent \in Nat
    BY CostTypes, TimingAssumption DEF TimingTypeOK
  <2>2. now <= Spent + AttemptCost
    <3>1. AttemptCost = 3 * timeout + 2 * MaxLocal
      BY DEF AttemptCost
    <3> QED BY <2>1, <3>1 DEF OnPace, TimingTypeOK
  <2>3. Spent <= (MaxAttempts - 1) * c
    <3>1. attempt - 1 <= MaxAttempts - 1 /\ attempt - 1 \in Nat
          /\ MaxAttempts - 1 \in Nat
      BY TimingAssumption DEF TimingTypeOK
    <3>2. \A m, n, k \in Nat : m <= n => m * k <= n * k
      OBVIOUS
    <3>3. c \in Nat /\ Spent = (attempt - 1) * c
      BY <2>1 DEF Spent
    <3> HIDE DEF c
    <3> QED BY <3>1, <3>2, <3>3
  <2>4. (MaxAttempts - 1) * c = a + s /\ a \in Nat /\ s \in Nat
    <3>1. MaxAttempts - 1 \in Nat
      BY TimingAssumption
    <3>2. \A m, k, l \in Nat : /\ m * (k + l) = m * k + m * l
                               /\ m * k \in Nat
      OBVIOUS
    <3> QED BY <2>1, <3>1, <3>2
  <2>5. MaxAttempts * AttemptCost = a + AttemptCost
    <3>1. \A m \in Nat \ {0}, k \in Nat : m * k = (m - 1) * k + k
      OBVIOUS
    <3> QED BY <2>1, <3>1, TimingAssumption
  <2>6. a + AttemptCost + s <= limit
    BY <2>5 DEF Roomy
  <2> HIDE DEF a, s, c
  <2>7. Spent <= a + s
    BY <2>3, <2>4
  <2> QED BY <2>1, <2>2, <2>4, <2>6, <2>7
<1> QED BY <1>1, <1>2, <1>3, PTL DEF TimingSpec
=============================================================================
