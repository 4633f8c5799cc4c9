# Us3Turbo: TLA+ models, checks and proofs

Us3Turbo writes objects from GPU memory to a storage backend without copying
them through the client's host memory. A client opens a session at a proxy,
hands the backend an RDMA token for its GPU buffer, and the backend reads the
buffer itself through cuObject. This directory holds TLA+ models of the parts
that keep state and run concurrently, the TLC configurations that check small
instances of them, and TLAPS proofs for instances of every size.

## The system

| Part | Source | State | Operations |
|---|---|---|---|
| `PinnedBufferPool` | `backend/src/gds/buffer_pool.{h,cpp}` | one free list and mutex per size class, the atomic `shutdown_`; leases own a buffer and its memory region | `Acquire`, `Release` (the lease's destructor), `Dispose`, `Shutdown` |
| `BackendGdsSink`, data-plane service, `main` | `backend/src/backend_gds_sink.cpp`, `backend_data_plane_service.cpp`, `main.cpp`, `gds/cuobj_resources.*` | `server_`, `pool_`, RDMA channels, one running handler per request | `GdsPut` / `ReceiveAndDiscard`, `Start`, `Stop`, start-up and exit of the process |
| `SessionManager`, control-plane service | `proxy/src/session/session_manager.*`, `proxy/src/service/proxy_control_plane_service.*` | `sessions_` under `mu_`, the atomic `seq_` | `OpenSession`, `ReportGdsPut`, `CompleteUpload`; the other RPCs answer "not implemented" |
| Proxy process | `proxy/src/main.cpp` | the session table, in memory only | start, exit |
| `Client::PutObject` with `MetaRpc`, `ChunkRpc` | `client/src/client.cpp`, `control/`, `data/`, `contracts/`, `common/rpc_base.h` | the attempt, its ids and its token | up to three attempts of open, token, transfer, verify |
| `Client` object | `client/src/client.cpp` | `initialized_`, two channels, the memory manager | `Initialize`, `Shutdown` |
| `GdsMemoryManager` | `client/src/gds_transport/` | registered buffers under a mutex; what cuObject has pinned | `RegisterBuffer`, `UnregisterBuffer`, `AcquireToken`, the destructor |
| CRC32C | `client/src/data/crc32c.cpp`, `backend/src/common/crc32c.cpp` | none | the checksum, table driven, twice |
| Benchmark and example | `examples/gds/` | worker threads with a barrier, a shared counter and tallies of their own | parse, initialize, spawn, upload, join, report |

How they interact. The client calls the proxy (`OpenSession`) and the backend
(`GdsPut`) over brpc; the backend calls the proxy (`ReportGdsPut`) before it
replies, waits a bounded time and only logs the outcome. Every brpc worker runs
one handler at a time; handlers share the pool, the session table and the
cuObject server. `main` of the backend joins the handlers before it stops the
sink.

What is hard. The pool decides on `shutdown_` outside the mutex it acts under.
Server and pool are used without a lock and destroyed by `Stop`. A failure in
the middle of a transfer must give back a channel, a region and host memory, in
that order. `CompleteUpload` uses a pointer into the session table after the
lock is gone. Requests are resent by brpc (`max_retry`), overtake one another
and outlive the attempt that sent them; a transfer may still run when the
client has given up. Sessions are lost when the proxy restarts. `AcquireToken`
looks a buffer up, registers it and takes the token under two locks and none.
`Client::Shutdown` is not synchronised with `PutObject`. Several limits of time
are nested in `PutObject`, and only one place looks at the outermost. The
benchmark's workers meet at a barrier that counts those that failed, too.

What makes each part correct:

- pool: every buffer has one owner; a leased buffer is registered and long
  enough; nothing becomes unreachable, nothing is freed while it is registered; the
  cache is bounded; a lease that comes back after `Shutdown` is destroyed;
- sink: the server and the pool live as long as somebody uses them; a channel
  has one owner and comes back on every path; a checksum covers the bytes of its
  own transfer; no request is pinned outside the size classes; every request is
  answered; the process exits with nothing left;
- session table: a completed session holds the fields of one report; generated
  ids collide with nothing; the table behaves like an atomic one;
- PUT: a verified success means that the backend read the data; a completed
  session had a transfer of its own; `PutObject` returns, and not much later than
  its deadline;
- memory manager: the map agrees with what is pinned; a token's memory is pinned
  while it is used, if the application does not unregister it then; nothing is
  pinned when it is freed;
- client and benchmark: no call meets a client that is shut down; every object is
  uploaded by one worker and the exit code tells whether all of them were;
- CRC32C: both copies compute the checksum that the standard defines.

## The modules

| Module | Models | Role |
|---|---|---|
| `BufferLeasing` | what the pool promises to handlers | abstract specification |
| `PinnedBufferPool` | the pool | detailed specification, implements `BufferLeasing` |
| `BackendGdsSink` | handlers, sink and `main` of the backend | extends `PinnedBufferPool`: handlers and `main` take the pool's steps |
| `SessionDirectory` | an atomic table of sessions | abstract specification |
| `SessionManager` | the proxy's handlers with `mu_` and the table | detailed, implements `SessionDirectory` |
| `GdsPut` | client, proxy and backend of one PUT, and the network | composition; uses the table through `SessionDirectory` |
| `PutTiming` | deadline, timeouts and backoff of `PutObject` | a PUT on a clock |
| `GdsMemoryManager` | the registry and the tokens, threads in `PutObject`, the application's buffers | component |
| `GdsBench` | `main` and workers of the benchmark with the `Client` they share | extends `GdsMemoryManager`: workers take its steps |
| `Crc32c` | both copies of the checksum, and a transfer with errors | algorithm and its reference definition |
| `MC...` | | size classes, inputs and symmetry sets for TLC |
| `..._proofs` | | theorems and proofs |

### PinnedBufferPool

`shutdown`, `free_list` stand for `shutdown_` and `buckets_[i]->free_list`.
`allocated`, `registered` and `capacity` are what cuObjServer knows: the host
buffers, those with a memory region, and the length they were made with. `pc`,
`buf`, `cls`, `want` are the locals of a worker in `Acquire` or `Release` and the
fields of its lease; `spc`, `sidx`, `to_destroy` those of the thread in
`Shutdown`, which has returned when `spc` is `"returned"`. `early` is history: the
buffers whose `Release` had passed its check of `shutdown_` when `Shutdown` set it. A
critical section, an access to `shutdown_` and a call of
cuObjServer are one step each: `Acquire` reads `shutdown_` and picks the class,
`PopCached`/`PopMiss` run under the bucket's mutex, `AllocHostBuffer` and
`RegisterBuffer` (and their failures) follow one by one, `Release` reads
`shutdown_`, `PushCached`/`PushFull` run under the mutex, `DisposeDeregister` and
`DisposeFree` after it. `Shutdown` drains one bucket per step. Locks that are
taken and released within one step need no variable. The hit and miss counters
are left out, and so are two branches no caller takes: `Acquire(0)`, since the sink
refuses empty requests first, and a lease without a pool.

### BackendGdsSink

`phase` is the position of `main`, `server_up`, `pool_ref` and `pool_up` the
objects `Stop` destroys (`pool_` is moved out before the pool is destroyed), `h`
the position of a handler, `req` the fields of the request the code looks at,
`chan`/`channels` the `ChannelGuard`s and what cuObjServer has handed out, `got`
the result of `handlePutObject`. `filled` and `crc` describe contents: whose
transfer wrote a buffer, and which bytes a checksum was taken over. While a
handler is in the pool's code (`Acquiring`, `Releasing`) it takes the steps of
`PinnedBufferPool`; `ShutdownPool` does the same for `main`, and `ResetPool` follows
when that call has returned, whatever is left in the pool. `Dispatch` is brpc:
a request reaches a free worker while the server runs. Locals are destroyed in
reverse order of their declaration, so the channel is freed before the lease.
`NotifyAndReply` includes `ReportGdsPut`, whose failure is only logged.

### SessionManager

`sessions` is `sessions_`, with the fields the RPCs write; `seq` is `seq_`; `mu`
says who holds `mu_`; `now` is the clock `expire_at` is computed from.
`applied` is a history variable: the reports that completed a session. Unlike in
the pool, the lock is explicit here and the assignments under it are steps of
their own, because `CompleteUpload` reads the table without the lock
(`ReadEtag`) and can see them half done: reading a string that another thread is
assigning gives the old value, the new one, or `Torn`. `RejectOpen` and
`AbortSession` are the requests that change nothing. The handlers take whatever
arrives; what arrives is the environment's (`OpenArrives`, `ReportArrives`): RPCs
about a session of `Resent` may arrive again, any other session is opened and
reported at most once.

### GdsPut

An attempt `<<c, n>>` stands for the ids `MakePutAttempt` makes. `opens`,
`opened`, `puts`, `replies` and `reports` are sets of messages that were sent:
nothing is removed, so any of them may be delivered late, again, or never, and
`OpenSessionFails` and `AttemptFails` may happen at any time (an RPC timeout, a
lost reply, an error). A `GdsPut` request is delivered up to `Copies` times, each
to a handler of its own. `Contents` abstracts the bytes to what matters: the data
of the PUT, a transfer that ended early, or what the application wrote after the
call. The proxy is `SessionDirectory`; `ProxyRestart` empties it, `BackendRestart`
loses the running handlers. A delivery reads whenever it comes: the client gives
its token back when an attempt is over, but nothing in the repository tells the
backend, and the buffer stays registered, so a late delivery may read while the next
attempt runs, or after the call has returned and the application has written to the
buffer. `AbortSession` appears in the failing actions
of the client only as a comment, since the proxy does nothing for it.

### PutTiming

`now` counts from the call of `PutObject`, `limit` is `request_timeout`, `timeout`
what `MakeContext` makes of `request.timeout` and the RPCs are given. Every step of
`PutOnce` takes as long as its own limit allows, and may fail; `AsInt` is the
narrowing to `int` in `ApplyTimeout`, with `IntRange` values, and a negative
result is a call that brpc never ends. `Sleep` is the backoff: doubled, clamped,
then multiplied by a number from 0.5 up to 1.5. `BackoffAssumption` says that the
doubling does not leave the `long long` it is computed in (with three attempts and
100 ms it is far from it); an overflow would be undefined. The deadline appears where the
code looks at it, in `Begin` and `DeadlineExceeded`. What the steps do is not
repeated here; `GdsPut` has it.

### GdsMemoryManager

`registered` is `registered_`, with 0 for "no entry"; `pins` and `pinned` are what
cuObject holds of an address and how many bytes; `leaked` remembers the buffers
of which `cuMemObjPutDescriptor` failed. `mpc`, `ptr`, `size` and `attempt` are a
thread's position and arguments in `PutObject`. `AcquireToken` is `Find` (first
lock), `LazyRegister` (second lock) and `GetRDMAToken` (no lock), or it fails at
any of them. `memory` is what `cudaMalloc` gave out, and `unsettled` the buffers
the application still has to unregister. `Destroy` is the destructor at the end
of the process. Buffers in `Whole` are passed whole, any other with any size.

Every buffer may be unregistered at any time, also under an upload, where
`UnregisterBuffer` takes the descriptor away without looking at the tokens; `dropped`
is history and marks the calls that happens to. Of the application only the order
before `cudaFree` is assumed, which `gds_memory_manager.h` asks for, in the sense
that the code needs: the last `UnregisterBuffer` comes when no upload of the buffer
is running. One that comes earlier is not enough, since the upload may register the
buffer again.

### GdsBench

`args` are the command line, `main` and `wpc` the positions of `main` and the
workers, `live` and `initialized` the fields of the shared `Client`. `arrived` and
`started` are the barrier and what its completion function stores; the last
worker to arrive runs it. `next` is the atomic counter. `dev` is a worker's buffer,
at whatever free address `cudaMalloc` picks, also one that another worker has
freed. Of the tallies only "ready" and "some upload failed" are kept, which is
what the exit code depends on. `puts` and `uploaded` are history. The calls a
worker makes are the steps of `GdsMemoryManager`, and none of them is guarded by
what its specification asks of the application: that this is obeyed is the
property `UsesManager`.

### Crc32c

A word is the set of its bits, so that exclusive-or is the symmetric difference
and no number exceeds TLC's integers. The client's copy (`kPoly`, `MakeTable`,
`Crc32c...`) and the backend's (`Gateway...`) are separate, as they are in the
source, down to the rounds that fill their tables. The eight rounds of `MakeTable` are written as two times two times two.
`local` and `remote` are the variable `state` of the two `Crc32cUpdate` loops, which
take a byte each in a step: the client's over its buffer, the backend's over what
arrived. (The client really runs its loop after the transfer, over the same bytes;
nothing else reads its state.) `Crc32cUpdate` and `GatewayUpdate` are those loops as
recursive functions of the number of bytes taken. `Reference` is written from the
definition of the checksum, not from the code: it makes a polynomial of the message
and divides it by 0x1EDC6F41 bit by bit; an assumption of `MCCrc32c` compares it with
the published check value. `Transfer` sends a buffer whose bits may be inverted within
a window of 32.

Assumed of code outside the repository: brpc resends a request (`max_retry = 2`
in `rpc_base.h`) and gives every call a timeout; cuObject may transfer fewer bytes
than were asked for, and gives out tokens for pinned bytes only; in `GdsPut`, CRC32C
tells the contents apart; 64-bit random ids are distinct. A negative timeout means none
to brpc.

## The runs

| Run | Expectation | What it shows |
|---|---|---|
| `pool_safety` | pass | three workers and `Shutdown` in a pool with two classes: ownership, usability, every buffer reachable, the bound of the cache, what may be left in a drained class, and the refinement of `BufferLeasing` |
| `sink` | pass | the backend from start to exit with two handlers and one channel: lifetimes, channels, checksums, clean exit, no oversize lease, and, under fairness, that requests are answered and a backend asked to quit exits |
| `session` | pass | three workers, one session whose RPCs are resent and others whose are not: one report per completed session, fresh ids, valid pointers, refinement of `SessionDirectory`; of sessions without resends, only reported etags are replied |
| `session_etag_race` | violation | with resends, the etag `CompleteUpload` reads after the lock can be empty or torn |
| `session_expiry` | violation | `session_manager.h` says an expired session is refused; it is completed |
| `put_safety` | pass | two attempts, two copies of each request, restarts, short reads: a verified success has read the data, a completed session had its own transfer |
| `put_timing` | pass | past `request_timeout`, `PutObject` takes at most the steps of one attempt and the sleeps; it returns if its timeouts fit an `int` |
| `put_timeout` | violation | `options.h` calls `request_timeout` the end-to-end limit of a PUT; RPCs that keep to their own timeouts exceed it |
| `memory` | pass | two threads and the application: the map and cuObject agree, a running transfer's memory is pinned unless its own buffer was unregistered under it, nothing pinned is freed, what is not registered is registered lazily, an `UnregisterBuffer` between the two locks included |
| `bench` | pass | up to two workers: no call meets a dead client, every object is uploaded once and the exit code says whether all succeeded, the registry is used as it asks, and the benchmark ends if all workers reach the barrier |
| `bench_stuck` | violation | `main` has code for workers that are not ready; with one that is and one that is not it never gets there |
| `crc` | pass | both copies compute CRC-32C, at once and byte by byte; a transfer with errors in at most 32 bits in a row never passes |

### Bounds

- `pool_safety`: three workers, three buffers, two classes of capacity one. A
  worker can find its class full, empty, or emptied by another while a third is
  between two calls; sizes 1 to 4 hit a class exactly, lie between two, and lie
  beyond the last. The proofs cover all other values.
- `sink`: two handlers, one channel and two buffers, so that a handler runs out
  of channels; lengths 0 to 3 with a limit of 2 take every check of
  `ReceiveAndDiscard`. Again the proofs cover the rest, except for liveness.
- `session*`: three workers suffice for a writer, another writer and a reader;
  one client id makes every conflict possible, `MaxSeq` generated ids (two in
  `session`) may collide with one another. `MaxTime` is at most one: the clock
  matters only for "before or after the expiry".
- `put_safety`: one client, as clients share only the session table and their ids
  are distinct. Two attempts give a current and an abandoned one, two copies an
  original and a resent one.
- `put_timing`: units of 50 ms, so a first backoff of 2; the clamp is put at 3,
  where the second backoff meets it (with the code's 2000 ms and three attempts it
  never does). `MaxLong` is 127, a `long long` of 8 bits, which the backoff fits. Limits of 0, 1, 4 and 9 and an `int` of 4 bits: at once, shorter
  and longer than an attempt, and too large for an `int`.
- `memory`: two threads race for one buffer, of either kind; sizes 1 and 2 make a
  registration that is shorter than the view; the code's three attempts; two
  descriptors of an address, the leaked one and the next.
- `bench`: up to two workers and two addresses, up to three objects and one
  warm-up each, so that workers share the objects unevenly and one address may be
  used twice. Two attempts per upload, as they only repeat.
- `crc`: two buffers of five bytes, which is enough for windows of 32 bits that
  begin and end inside a byte; a byte is changed in one of eight ways.

Deadlock is checked in every run but `memory`, `bench` and `bench_stuck`, where a
process ends (and in the last one is stuck, which is the finding). The pool and
the proxy never stop; an exited backend, a returned PUT and a complete transfer
stutter explicitly.

### Fairness

Weak fairness on every handler of the backend and on `main` (no call blocks for
ever: mutexes are held for bounded code, cuObject and RPC calls return), on every
handler of the proxy once it runs. In `PutTiming` on the client's own steps and on
an RPC, which ends with a response or its timeout, unless its timeout is
negative: such a call may never end. In `GdsBench` on `main` and on each worker;
a worker at the barrier has no step, so fairness does not free it. No fairness is
assumed of clients sending requests, of the operator who asks the backend to quit,
or of the network. `std::mutex` promises no order among waiters, so nothing is claimed
about when a particular handler of the proxy gets the lock.

## What is proved

The eight `..._proofs` modules are checked by TLAPS for every set of threads,
buffers, channels, sessions, clients, messages and attempts, and for every timeout
and size. They rest on nothing but the named assumptions of the modules:

| Assumption | Says |
|---|---|
| `PoolAssumption` | sorted positive size classes; a null pointer is no buffer |
| `SinkAssumption` | the largest class has at least `kMaxChunkBytes`, and requests the sink admits are sizes the pool knows |
| `SessionAssumption` | generated and chosen ids differ; markers are no values |
| `PutAssumption` | at least one attempt |
| `TimingAssumption`, `BackoffAssumption` | limits and backoff are numbers, at least one attempt; the doubled backoff does not overflow |
| `MemoryAssumption`, `BenchAssumption` | at least one attempt, size and object; the buffers passed whole are buffers |
| `CrcAssumption` | messages are sequences of bytes, errors invert bits of a byte |

- The safety properties of `pool_safety` follow from `PoolInv`. They are not
  inductive by themselves: that a lease is usable needs that whatever is cached is
  registered and as long as its class (`CachedReady`), that nothing is lost needs
  that a worker's position tells which of allocation and registration it has
  done (`OwnerKnows`), and that `Shutdown` frees only what it deregistered needs the
  same of its list (`DrainReady`). `PoolInv` is the conjunction; the proof has one
  step per action.
- `LateLeasesDestroyed`: `buffer_pool.h` says that a lease which comes back after
  `Shutdown` is destroyed. The code keeps this with one exception, and the theorem
  names it: a drained class holds only buffers whose `Release` had read `shutdown_`
  before `Shutdown` set it. Its invariant `LateInv` adds that whoever is between that
  check and the free list was there when the flag was set (`PushIsEarly`).
- `PoolImplementsLeasing`: a lease exists from the end of `Acquire` to the begin
  of `Release`; every step of the pool maps to a step of `BufferLeasing` or a
  stutter.
- `EveryRequestFits`: a request that passes the checks of `ReceiveAndDiscard` fits a
  class, at the limit too, so no handler pins memory outside the pool's bound.
- The safety properties of `sink` follow from `SinkInv` together with `PoolInv`:
  where a handler is relative to the pool's code (`HandlerInPool`), which objects
  exist in which phase (`Lifecycle`), how far `Shutdown` has come
  (`DrainProgress`), who holds a channel (`ChannelHeld`) and what is in the
  buffer when the checksum is taken (`TransferDone`). `CleanShutdown` is the
  interesting one: the pool alone may keep a buffer after `Shutdown`
  (see the findings), and it is `server.Join()` that excludes it.
- `SessionInv` says that `mu_` is held exactly between the assignments of a
  session (`MutexHeld`), what a worker knows of its session there
  (`WorkerKnows`), that every entry nobody is assigning to is whole (`Settled`),
  and that generated ids in use are below `seq_` (`IdsBelowSeq`).
  `TableConsistent`, `GeneratedIdsFresh` and `PointersValid` follow for any
  delivery, resends included, and `TableImplementsDirectory` maps a table to a
  directory in which an assignment counts as made with its first field. Since
  `GdsPut` uses the proxy through `SessionDirectory`, this is what justifies that
  step.
- `EtagsReported` is about the sessions outside `Resent`. Its invariant `OnceInv` adds that such a session is stored once and reported
  once, so nobody assigns to the entry `CompleteUpload` reads;
  `session_etag_race` shows that the restriction is needed.
- `PutInv`: everything in `reports` and `replies` was read by a delivery of that
  attempt (`ReportsTrue`, `RepliesTrue`), and until the call returns the memory is
  untouched and a reply that is being verified belongs to the present attempt
  (`ClientKnows`). `VerifiedPutIntact` then follows from the checksum telling the data
  apart. It needs `verify_crc32c`: without it a short or late read goes unnoticed.
- `TimingInv` adds to `OverrunBounded` the type of the variables and
  `AttemptInTime`: how far past `request_timeout` the client can be at each step of
  an attempt, which is one timeout more after each RPC. Without it the bound is not
  inductive, since it holds of a state in which an attempt has used it up and is
  about to send another RPC. The sleeps need `BackoffBounded` (never negative, never
  longer than 1.5 times `max_backoff`). `CallIsBounded` says what the options
  promise: if all timeouts fit an `int`, the narrowing changes none of them, no RPC
  waits for ever, and `PutObject` is over at a time that they determine.
- `DeadlineKept` says when the comment in `options.h` that `put_timeout` refutes is
  true: if the timeout fits an `int` and `request_timeout` has room for
  `MaxAttempts` attempts of three RPCs and two local steps and for the sleeps between
  them (`Roomy`), the call never is past it. It needs an invariant of its own,
  `OnPace`, which counts from the call where `AttemptInTime` counts from the
  deadline.
- `MemoryInv` relates the three parties of `AcquireToken`. `RegistryAgrees` alone
  does not say that an entry of `registered_` is pinned with its own size when an
  earlier descriptor of the address was leaked (`EntryPinned`), that the application
  has yet to unregister whatever has an entry, lazy ones included (`EntryKnown`,
  `MemoryHeld`), and that a call from the token on has its entry, and under the token
  its bytes, unless it is marked as dropped (`CallBacked`; `WholeView` and
  `ViewNotEmpty` are about the sizes). From these, `FreedIsUnpinned`,
  `TransfersArePinned` and `LazyRegistration` follow, for every buffer and with
  `UnregisterBuffer` at any time. What `TransfersArePinned` excepts is real:
  `UnregisterBuffer` does not look at the tokens, and the run reaches transfers
  without a pin, all of them over a buffer that the application unregistered under
  the upload.
- `BenchInv` is `MemoryInv` and what the benchmark adds: threads run only while
  `main` is between the first `emplace_back` and the last `join`, and the client is
  whole then (`Lifetimes`); a buffer is one worker's, and known to the registry only
  between that worker's register and unregister (`BuffersOwned`); an object below
  `next` is at one worker or was uploaded once (`ObjectsClaimed`), and an upload that
  failed was counted (`OutcomesCounted`). From `BuffersOwned`, a step of a worker is a
  step that the registry's specification allows (`BenchUsesManager`), although no
  step of `GdsBench` has its guards; with the initial states this is
  `BenchImplementsManager`, so the theorems of the previous item hold in the
  benchmark. `JoinedIsUnpinned`: after the last join nothing is registered.
  `UploadsArePinned`: no worker unregisters a buffer under an upload, so the exception
  of `TransfersArePinned` never occurs.
- `BarrierInv` adds the barrier to `BenchInv`: who has arrived, that it is open when
  the whole crew has, and that nobody is past it and no object claimed before. It
  describes the hang of `bench_stuck` for every number of workers.
  `WaitersWaitForSomeone`: a worker is held only by one that has yet to arrive or gave
  up. `GivingUpClosesBarrier`: once a worker gave up, the barrier stays closed for
  ever, so nothing is uploaded. `AllOrNoneReady`: `main` comes to its summary only with
  all workers ready or none, so the message for some that were not, next to a report
  of the others, cannot appear.
- `CrcInv` is about the difference of the two running states. A lookup in the table
  is eight rounds of the whole word (`ByteIsRounds`), rounds are linear
  (`EightLinear`), so the difference after a byte depends on the one before it and
  on the inverted bits only (`DifferenceStep`). `ErrorVisible` says what an error
  leaves behind: either the first inverted bit is still the lowest of the difference,
  or a bit is set that lies beyond all bits which a burst of 32 may still invert.
  A round keeps this, because whenever a bit is shifted out, the polynomial
  sets bit 31 (`RoundSurvives`). `BurstsAreDetected` follows for messages of every
  length, where the run has five bytes.
- `ChecksumIsReference`: for every sequence of bytes both copies return what
  `Reference` defines. The code holds the remainder reflected and takes the low bit
  first; `Dividend` is the polynomial that a state stands for, with the bits of the
  byte still to come. A round of the code is then a step of the division
  (`RoundDivides`, with `PolyReflected`: `kPoly` is 0x1EDC6F41 with its bits
  reversed), a byte is eight of them (`EightDivide`, `ByteDivides`), and the message
  is an induction over its bytes. The library's induction theorems take the induction
  hypothesis as an operator, which the provers cannot instantiate; `SetInduction`
  states induction of a set of numbers instead, from `WFMin`, and is also what shows
  that the recursive functions of the loops exist (`LoopExists`, `DivisionExists`).
- `StreamsAreCrc`: the states of the two running loops are `Crc32cUpdate` and
  `GatewayUpdate` of the bytes so far (`StatesAreUpdates`, by `UpdateAppend`), so a
  checksum taken in pieces is the one taken at once, and both are the reference.

With this, every safety property and every action property of the passing runs is a
theorem. Only model-checked are the liveness properties (`RequestsAnswered`,
`QuitExits`, `PutReturns`, `BenchEnds`), as the prover does not do fairness, and the
published check value. The four expected violations are of instances.

## Findings

1. `CompleteUpload` copies the etag through a pointer after `mu_` was released
   (`proxy_control_plane_service.cpp:125`): a data race with a resent
   `OpenSession` or `ReportGdsPut` (`session_etag_race`).
2. `CompleteSession` never looks at `expire_at` (`session_manager.cpp:73`), against
   `session_manager.h:53` (`session_expiry`).
3. `request_timeout` is no end-to-end limit (`client.cpp:196`, against
   `options.h:21`): the deadline is looked at only when an attempt begins, and each
   RPC has a timeout of its own (`put_timeout`). With the defaults (5 minutes, and
   30 s for an RPC) it is not exceeded as long as a local step takes less than 4 s
   (`DeadlineKept`); with a `request_timeout` below that of the
   RPCs, or `request.timeout` unset, it is. `OverrunBounded` says by how much.
4. A benchmark worker that fails to get its buffer never arrives at the barrier
   (`gds_bench_example.cpp:186`, `192`, `197`); if another was ready, the benchmark
   hangs (`bench_stuck`). `AllOrNoneReady` draws the consequence: the summary's case
   of some workers ready and some not (`gds_bench_example.cpp:296`) is never reached.

Seen while modelling, without a run of their own:

- `Release` reads `shutdown_` before it locks the bucket (`buffer_pool.cpp:164`), so
  a buffer may be cached after `Shutdown` drained its class, against
  `buffer_pool.h:74-75`. It happens to such a `Release` only (`LateReturnsDestroyed`),
  and it is harmless in this process, as `main` joins the handlers first (`CleanExit`).
- A client that verifies rejects every transfer of a backend that computes no
  checksums (`client.cpp:106`), though `control_plane.proto:84` says that 0 means
  "not computed".
- An entry of `registered_` counts whatever its size (`gds_memory_manager.cpp:124`):
  a view that is longer than the one registered first gets no token until it is
  unregistered. `LazilyRegistered` therefore promises the whole view only for buffers
  that are always passed whole.
- `UnregisterBuffer` removes the descriptor under a running transfer, and an
  `UnregisterBuffer` that comes while an upload is between its lookup and its
  registration is undone by the upload. `gds_memory_manager.h:49` asks only for
  `UnregisterBuffer` before `cudaFree`; the application also has to wait for its
  uploads.
- Nothing keeps a delivery of `GdsPut` that comes late from reading the buffer after
  `PutObject` has returned.
- Warm-up uploads of the benchmark go through `do_put` and are counted, though
  usage and comment say they are not (`gds_bench_example.cpp:96`, `220`).
- A `request_timeout` of 0 makes
  `PutObject` fail three times, with both sleeps, and send nothing.

## Not modelled

Left out: the vendored libraries (brpc, cuObject and others), which
appear only as the calls the code makes; flags, formatting, logging and metrics,
the numbers the benchmark prints among them; `gds_put_example`, which is the
benchmark with one worker and one object; `ParseBase64Crc32c` and `GetSession`,
which nothing calls; the RPCs of the backend that only answer "not implemented".

Two abstractions could be made finer. `GdsPut` takes the checksum to tell all contents
apart, where `BurstsAreDetected` shows it of errors of up to 32 bits; and the sizes
the backend admits and the bytes the client registers are checked on each side by
itself.
