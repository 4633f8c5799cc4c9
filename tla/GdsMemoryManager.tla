-------------------------- MODULE GdsMemoryManager --------------------------
(***************************************************************************)
(* The registry of device buffers and RDMA tokens of the client process,   *)
(* client/src/gds_transport/gds_memory_manager.cpp, under an application   *)
(* whose threads call PutObject, RegisterDeviceBuffer and                  *)
(* UnregisterDeviceBuffer.                                                 *)
(*                                                                         *)
(* A critical section of registration_mu_ is one step, a call of cuObject  *)
(* outside it another: AcquireToken looks the buffer up, registers it and  *)
(* takes the token in three steps.                                         *)
(***************************************************************************)
EXTENDS Integers

CONSTANTS
  Threads,
  Buffers,      \* addresses of device memory
  MaxAttempts,  \* RetryPolicy::max_attempts
  MaxSize,      \* bound: the largest buffer
  MaxPins,      \* bound: descriptors of one address
  Whole         \* the buffers that the application always passes whole

ASSUME MemoryAssumption ==
  /\ MaxAttempts \in Nat \ {0}
  /\ MaxSize \in Nat \ {0}
  /\ MaxPins \in Nat \ {0}
  /\ Whole \subseteq Buffers

VARIABLES
  memory,      \* bytes cudaMalloc gave out at each address, 0 if none
  unsettled,   \* buffers passed to the client of which the application has
               \* not called UnregisterDeviceBuffer after the last upload
  registered,  \* registered_: the size of each entry, 0 if there is none
  pins,        \* descriptors cuObject holds of an address
  pinned,      \* bytes the latest of them covers
  leaked,      \* buffers of which cuMemObjPutDescriptor failed (history)
  alive,       \* the static GdsMemoryManager exists
  mpc,         \* where each thread is in PutObject
  ptr, size,   \* its view
  attempt,     \* how many times it has called PutOnce
  dropped      \* threads whose buffer was unregistered after AcquireToken
               \* had seen it registered, in this attempt (history)

registryVars == <<registered, pins, pinned, leaked>>
appVars == <<memory, unsettled, alive>>
viewVars == <<ptr, size>>
callVars == <<mpc, viewVars, attempt, dropped>>
memoryVars == <<registryVars, appVars, callVars>>

MemoryInit ==
  /\ memory = [b \in Buffers |-> 0]
  /\ unsettled = {}
  /\ registered = [b \in Buffers |-> 0]
  /\ pins = [b \in Buffers |-> 0]
  /\ pinned = [b \in Buffers |-> 0]
  /\ leaked = {}
  /\ alive = TRUE
  /\ mpc = [t \in Threads |-> "idle"]
  /\ ptr \in [Threads -> Buffers] /\ \A t, u \in Threads : ptr[t] = ptr[u]
  /\ size = [t \in Threads |-> 0]
  /\ attempt = [t \in Threads |-> 0]
  /\ dropped = {}

\* A call of PutObject with b as its buffer runs.
InUse(b) == \E t \in Threads : mpc[t] # "idle" /\ ptr[t] = b

\* The calls that rely on b being registered.
Relying(b) ==
  {t \in Threads : mpc[t] \in {"get_token", "transfer"} /\ ptr[t] = b}

\* cuMemObjGetDescriptor succeeds ...
GetDescriptor(b, s) ==
  /\ pins[b] < MaxPins
  /\ pins' = [pins EXCEPT ![b] = @ + 1]
  /\ pinned' = [pinned EXCEPT ![b] = s]

\* ... and the buffer is entered into the map.
Emplace(b, s) == registered' = [registered EXCEPT ![b] = s]
Erase(b) == registered' = [registered EXCEPT ![b] = 0]

-----------------------------------------------------------------------------
(* Variants of operations below with a plausible mistake in them.  The     *)
(* specification does not use them; they show that the properties notice.  *)

\* A buffer that was not found is registered without a second look.
RegisterUnchecked(b, s) == GetDescriptor(b, s) /\ Emplace(b, s)

\* The lookup of AcquireToken is trusted: nothing is registered lazily.
FindNothing(t) ==
  /\ mpc[t] = "acquire"
  /\ mpc' = [mpc EXCEPT ![t] = "get_token"]
  /\ UNCHANGED <<registryVars, appVars, viewVars, attempt, dropped>>

\* The end of an attempt drops the registration that it has made.
EndAttemptUnregisters(t) ==
  /\ mpc[t] = "transfer"
  /\ Erase(ptr[t])
  /\ pins' = [pins EXCEPT ![ptr[t]] = IF @ = 0 THEN 0 ELSE @ - 1]
  /\ mpc' = [mpc EXCEPT ![t] = "failed"]
  /\ UNCHANGED <<pinned, leaked, appVars, viewVars, attempt, dropped>>

\* The retries are counted without the first call of PutOnce.
RetryOnceMore(t) ==
  /\ mpc[t] = "failed"
  /\ attempt[t] <= MaxAttempts
  /\ attempt' = [attempt EXCEPT ![t] = @ + 1]
  /\ mpc' = [mpc EXCEPT ![t] = "acquire"]
  /\ dropped' = dropped \ {t}
  /\ UNCHANGED <<registryVars, appVars, viewVars>>

-----------------------------------------------------------------------------
(* RegisterBuffer and UnregisterBuffer *)

\* RegisterBufferUnderLock: an entry, whatever its size, is good enough.
RegisterUnderLock(b, s) ==
  IF registered[b] # 0 THEN UNCHANGED <<registered, pins, pinned>>
  ELSE GetDescriptor(b, s) /\ Emplace(b, s)

\* The sizes the application passes with b.
View(b) == IF b \in Whole THEN {memory[b]} ELSE 0 .. memory[b]

RegisterBuffer(b, s) ==
  /\ memory[b] # 0
  /\ s # 0
  /\ RegisterUnderLock(b, s)
  /\ unsettled' = unsettled \cup {b}
  /\ UNCHANGED <<leaked, memory, alive, callVars>>

\* An empty buffer, or cuMemObjGetDescriptor fails.
RegisterFails(b) == memory[b] # 0 /\ UNCHANGED memoryVars

\* The application has called UnregisterDeviceBuffer, at any time: calls of
\* PutObject that have found the entry go on without it, and those under way
\* may make a new one.
Unregistered(b) ==
  /\ unsettled' = IF InUse(b) THEN unsettled ELSE unsettled \ {b}
  /\ dropped' = dropped \cup Relying(b)
  /\ UNCHANGED <<pinned, memory, alive, mpc, viewVars, attempt>>

\* The descriptor goes first, then the entry.
UnregisterBuffer(b) ==
  /\ Unregistered(b)
  /\ IF registered[b] = 0 THEN UNCHANGED <<registered, pins>>
     ELSE pins' = [pins EXCEPT ![b] = @ - 1] /\ Erase(b)
  /\ UNCHANGED leaked

\* cuMemObjPutDescriptor fails; the entry is erased all the same.
UnregisterFails(b) ==
  /\ registered[b] # 0
  /\ Erase(b)
  /\ leaked' = leaked \cup {b}
  /\ Unregistered(b)
  /\ UNCHANGED pins

-----------------------------------------------------------------------------
(* PutObject: each call of PutOnce acquires a token and gives it back *)
PutObject(t, b, s) ==
  /\ mpc[t] = "idle"
  /\ memory[b] # 0
  /\ mpc' = [mpc EXCEPT ![t] = "acquire"]
  /\ ptr' = [ptr EXCEPT ![t] = b]
  /\ size' = [size EXCEPT ![t] = s]
  /\ attempt' = [attempt EXCEPT ![t] = 1]
  /\ unsettled' = unsettled \cup {b}
  /\ dropped' = dropped \ {t}
  /\ UNCHANGED <<registryVars, memory, alive>>

PutStep(t, from, to) ==
  /\ mpc[t] = from
  /\ mpc' = [mpc EXCEPT ![t] = to]
  /\ UNCHANGED <<appVars, viewVars, attempt, dropped>>

\* AcquireToken under the first lock; an empty view is refused before it.
Find(t) ==
  /\ size[t] # 0
  /\ PutStep(t, "acquire",
       IF registered[ptr[t]] = 0 THEN "register" ELSE "get_token")
  /\ UNCHANGED registryVars

\* Under the second lock.
LazyRegister(t) ==
  /\ PutStep(t, "register", "get_token")
  /\ RegisterUnderLock(ptr[t], size[t])
  /\ UNCHANGED leaked

\* Without a lock.  cuObject gives out a token for pinned bytes only.
GetRDMAToken(t) ==
  /\ pins[ptr[t]] > 0 /\ pinned[ptr[t]] >= size[t]
  /\ PutStep(t, "get_token", "transfer")
  /\ UNCHANGED registryVars

\* The deadline has passed, OpenSession fails, the view is empty, or the
\* descriptor or the token is refused: PutOnce returns false.
AcquireFails(t) ==
  /\ \E from \in {"acquire", "register", "get_token"} :
       PutStep(t, from, "failed")
  /\ UNCHANGED registryVars

\* PutOnce returns false after the transfer; ~Token gives the token back.
EndAttempt(t) == PutStep(t, "transfer", "failed") /\ UNCHANGED registryVars

Retry(t) ==
  /\ mpc[t] = "failed"
  /\ attempt[t] < MaxAttempts
  /\ attempt' = [attempt EXCEPT ![t] = @ + 1]
  /\ mpc' = [mpc EXCEPT ![t] = "acquire"]
  /\ dropped' = dropped \ {t}
  /\ UNCHANGED <<registryVars, appVars, viewVars>>

\* After a transfer, or when the attempts are used up.
Return(t) ==
  /\ mpc[t] \in {"transfer", "failed"}
  /\ mpc[t] = "failed" => attempt[t] >= MaxAttempts
  /\ mpc' = [mpc EXCEPT ![t] = "idle"]
  /\ size' = [size EXCEPT ![t] = 0]
  /\ attempt' = [attempt EXCEPT ![t] = 0]
  /\ dropped' = dropped \ {t}
  /\ UNCHANGED <<registryVars, appVars, ptr>>

-----------------------------------------------------------------------------
(* The application's device memory *)
Malloc(b, s) ==
  /\ memory[b] = 0
  /\ memory' = [memory EXCEPT ![b] = s]
  /\ UNCHANGED <<unsettled, alive, registryVars, callVars>>

Free(b) ==
  /\ memory[b] # 0
  /\ memory' = [memory EXCEPT ![b] = 0]
  /\ UNCHANGED <<unsettled, alive, registryVars, callVars>>

-----------------------------------------------------------------------------
(* The process ends: ~GdsMemoryManager drops what is still registered, and *)
(* does not look at what cuMemObjPutDescriptor returns for the lost ones.  *)
Destroy(lost) ==
  LET left == {b \in Buffers : registered[b] # 0} IN
  /\ \A t \in Threads : mpc[t] = "idle"
  /\ lost \subseteq left
  /\ alive' = FALSE
  /\ pins' = [b \in Buffers |->
                IF b \in left \ lost THEN pins[b] - 1 ELSE pins[b]]
  /\ leaked' = leaked \cup lost
  /\ registered' = [b \in Buffers |-> 0]
  /\ UNCHANGED <<pinned, memory, unsettled, callVars>>

-----------------------------------------------------------------------------
Acquire(t) ==
  Find(t) \/ LazyRegister(t) \/ GetRDMAToken(t) \/ AcquireFails(t)

Put(t) == Acquire(t) \/ EndAttempt(t) \/ Retry(t)

\* gds_memory_manager.h: UnregisterBuffer comes before cudaFree.  Memory is
\* freed only after an UnregisterBuffer that no upload outlasts.
Application(b) ==
  \/ \E s \in View(b) : RegisterBuffer(b, s)
  \/ RegisterFails(b)
  \/ UnregisterBuffer(b) \/ UnregisterFails(b)
  \/ \E s \in 1 .. MaxSize : Malloc(b, s)
  \/ b \notin unsettled /\ Free(b)

MemoryNext ==
  /\ alive
  /\ \/ \E t \in Threads :
          \/ Put(t) \/ Return(t)
          \/ \E b \in Buffers : \E s \in View(b) : PutObject(t, b, s)
     \/ \E b \in Buffers : Application(b)
     \/ \E lost \in SUBSET Buffers : Destroy(lost)

MemorySpec == MemoryInit /\ [][MemoryNext]_memoryVars

-----------------------------------------------------------------------------
(* Properties *)

\* The values of the variables.
MemoryTypeOK ==
  /\ memory \in [Buffers -> 0 .. MaxSize]
  /\ unsettled \subseteq Buffers /\ leaked \subseteq Buffers
  /\ dropped \subseteq Threads
  /\ registered \in [Buffers -> 0 .. MaxSize]
  /\ pinned \in [Buffers -> 0 .. MaxSize]
  /\ pins \in [Buffers -> 0 .. MaxPins]
  /\ mpc \in [Threads -> {"idle", "acquire", "register", "get_token",
                          "transfer", "failed"}]
  /\ ptr \in [Threads -> Buffers]
  /\ size \in [Threads -> 0 .. MaxSize]
  /\ attempt \in [Threads -> 0 .. MaxAttempts]
  /\ alive \in BOOLEAN

\* registered_ and cuObject agree: a buffer in the map has one descriptor of
\* that size, any other has none, although AcquireToken decides under one
\* lock and registers under another.  Only a failed cuMemObjPutDescriptor
\* leaves a descriptor behind.
RegistryAgrees ==
  \A b \in Buffers \ leaked :
    /\ pins[b] = IF registered[b] = 0 THEN 0 ELSE 1
    /\ registered[b] # 0 => pinned[b] = registered[b]

\* Memory that the application has unregistered after its last upload, and
\* then freed, is not pinned: the lazy registrations of calls that ran while
\* it was unregistered before have all been found.
NothingPinnedIsFreed ==
  \A b \in Buffers \ leaked : memory[b] = 0 => pins[b] = 0

\* The memory under the token of a running transfer is pinned, all the bytes
\* of the view, until the token is given back, whatever other threads
\* register, upload and leak.  UnregisterBuffer does not look at the tokens:
\* a transfer loses its pin only if the application has unregistered that very
\* buffer since AcquireToken found or made its entry.
TokenCovered ==
  \A t \in Threads \ dropped :
    mpc[t] = "transfer" => pins[ptr[t]] > 0 /\ pinned[ptr[t]] >= size[t]

\* gds_memory_manager.h: a buffer that is not registered is registered
\* lazily, also when it was unregistered between the two locks of
\* AcquireToken: it has an entry when the token is asked for, and the entry
\* is the whole view if the application passes whole buffers only.
LazilyRegistered ==
  \A t \in Threads \ dropped :
    mpc[t] = "get_token" =>
      /\ registered[ptr[t]] # 0
      /\ ptr[t] \in Whole => registered[ptr[t]] = size[t]
=============================================================================
