----------------------- MODULE GdsMemoryManager_proofs -----------------------
(***************************************************************************)
(* Proofs about the registry of device buffers: what the map, cuObject and *)
(* a thread inside PutObject know of one another between the two locks of  *)
(* AcquireToken, for every set of threads and buffers.                     *)
(***************************************************************************)
EXTENDS GdsMemoryManager, TLAPS

\* Memory that the client may still use is not freed, that of the running
\* calls is among it.
MemoryHeld ==
  /\ \A b \in unsettled : memory[b] # 0
  /\ \A t \in Threads : mpc[t] # "idle" => ptr[t] \in unsettled

\* An entry has a descriptor, the latest one of its buffer, also when an
\* earlier descriptor was leaked.
EntryPinned ==
  \A b \in Buffers :
    registered[b] # 0 => pins[b] > 0 /\ pinned[b] = registered[b]

\* The application has yet to unregister every buffer in the map; one that it
\* passes whole is registered whole.
EntryKnown ==
  \A b \in Buffers :
    registered[b] # 0 =>
      b \in unsettled /\ (b \in Whole => registered[b] = memory[b])

\* A call with a buffer that is passed whole has the whole of it as its view.
WholeView ==
  \A t \in Threads :
    mpc[t] # "idle" /\ ptr[t] \in Whole => size[t] = memory[ptr[t]]

\* From the token on the buffer of a call is in the map, and under the token
\* the descriptor covers the view, unless the buffer was unregistered since.
CallBacked ==
  \A t \in Threads \ dropped :
    /\ mpc[t] \in {"get_token", "transfer"} => registered[ptr[t]] # 0
    /\ mpc[t] = "transfer" => pinned[ptr[t]] >= size[t]

\* An empty view is refused before the first lock.
ViewNotEmpty == \A t \in Threads : mpc[t] = "register" => size[t] # 0

MemoryInv ==
  /\ MemoryTypeOK
  /\ RegistryAgrees
  /\ MemoryHeld
  /\ EntryPinned
  /\ EntryKnown
  /\ WholeView
  /\ CallBacked
  /\ ViewNotEmpty

-----------------------------------------------------------------------------
(* The operators *)

\* What RegisterBufferUnderLock leaves behind, found or made.
LEMMA Registered ==
  ASSUME MemoryInv, NEW b \in Buffers, NEW s \in 1 .. MaxSize,
         RegisterUnderLock(b, s), leaked' = leaked
  PROVE  /\ registered' \in [Buffers -> 0 .. MaxSize]
         /\ pinned' \in [Buffers -> 0 .. MaxSize]
         /\ pins' \in [Buffers -> 0 .. MaxPins]
         /\ RegistryAgrees' /\ EntryPinned'
         /\ registered'[b] = IF registered[b] = 0 THEN s ELSE registered[b]
         /\ \A c \in Buffers \ {b} : registered'[c] = registered[c]
         /\ \A c \in Buffers :
              registered[c] # 0 =>
                registered'[c] = registered[c] /\ pinned'[c] = pinned[c]
<1>1. CASE registered[b] # 0
  BY <1>1
  DEF RegisterUnderLock, MemoryInv, MemoryTypeOK, RegistryAgrees, EntryPinned
<1>2. CASE registered[b] = 0
  <2>1. /\ registered' = [registered EXCEPT ![b] = s]
        /\ pinned' = [pinned EXCEPT ![b] = s]
        /\ pins' = [pins EXCEPT ![b] = pins[b] + 1]
        /\ pins[b] < MaxPins
    BY <1>2 DEF RegisterUnderLock, GetDescriptor, Emplace
  <2>2. /\ registered \in [Buffers -> 0 .. MaxSize]
        /\ pinned \in [Buffers -> 0 .. MaxSize]
        /\ pins \in [Buffers -> 0 .. MaxPins]
        /\ RegistryAgrees /\ EntryPinned
    BY DEF MemoryInv, MemoryTypeOK
  <2>3. /\ registered' \in [Buffers -> 0 .. MaxSize]
        /\ pinned' \in [Buffers -> 0 .. MaxSize]
        /\ pins' \in [Buffers -> 0 .. MaxPins]
    BY <2>1, <2>2, MemoryAssumption
  <2>4. RegistryAgrees'
    BY <1>2, <2>1, <2>2, MemoryAssumption DEF RegistryAgrees
  <2>5. EntryPinned'
    BY <2>1, <2>2, MemoryAssumption DEF EntryPinned
  <2> QED BY <1>2, <2>1, <2>2, <2>3, <2>4, <2>5
<1> QED BY <1>1, <1>2

\* A size that the application passes with a buffer.
LEMMA ViewTypes ==
  ASSUME MemoryTypeOK, NEW b \in Buffers, NEW s \in View(b)
  PROVE  /\ s \in 0 .. MaxSize
         /\ b \in Whole => s = memory[b]
<1>1. memory[b] \in 0 .. MaxSize
  BY DEF MemoryTypeOK
<1> QED BY <1>1, MemoryAssumption DEF View

-----------------------------------------------------------------------------
(* The application *)

LEMMA RegisterKeeps ==
  ASSUME MemoryInv, NEW b \in Buffers, NEW s \in View(b), RegisterBuffer(b, s)
  PROVE  MemoryInv'
<1>1. /\ s \in 1 .. MaxSize /\ (b \in Whole => s = memory[b])
      /\ memory[b] # 0 /\ unsettled' = unsettled \cup {b}
      /\ UNCHANGED <<leaked, memory, alive, mpc, ptr, size, attempt, dropped>>
  BY ViewTypes, MemoryAssumption
  DEF MemoryInv, RegisterBuffer, callVars, viewVars
<1>2. RegisterUnderLock(b, s)
  BY DEF RegisterBuffer
<1>3. /\ registered' \in [Buffers -> 0 .. MaxSize]
      /\ pinned' \in [Buffers -> 0 .. MaxSize]
      /\ pins' \in [Buffers -> 0 .. MaxPins]
      /\ RegistryAgrees' /\ EntryPinned'
      /\ registered'[b] = IF registered[b] = 0 THEN s ELSE registered[b]
      /\ \A c \in Buffers \ {b} : registered'[c] = registered[c]
      /\ \A c \in Buffers :
           registered[c] # 0 =>
             registered'[c] = registered[c] /\ pinned'[c] = pinned[c]
  BY <1>1, <1>2, Registered
<1>4. MemoryTypeOK'
  BY <1>1, <1>3 DEF MemoryInv, MemoryTypeOK
<1>5. MemoryHeld'
  BY <1>1 DEF MemoryInv, MemoryHeld
<1>6. EntryKnown'
  BY <1>1, <1>3 DEF MemoryInv, EntryKnown
<1>7. WholeView' /\ CallBacked'
  BY <1>1, <1>3 DEF MemoryInv, WholeView, CallBacked, MemoryTypeOK
<1>8. ViewNotEmpty'
  BY <1>1 DEF MemoryInv, ViewNotEmpty
<1> QED BY <1>3, <1>4, <1>5, <1>6, <1>7, <1>8 DEF MemoryInv

\* The entry of b goes, and with it the descriptor or b's good name; the calls
\* that rely on it are marked.
LEMMA UnregisterKeeps ==
  ASSUME MemoryInv, NEW b \in Buffers,
         UnregisterBuffer(b) \/ UnregisterFails(b)
  PROVE  MemoryInv'
<1>1. /\ UNCHANGED <<pinned, memory, alive, mpc, ptr, size, attempt>>
      /\ unsettled' = IF InUse(b) THEN unsettled ELSE unsettled \ {b}
      /\ dropped' = dropped \cup Relying(b)
      /\ registered' = [registered EXCEPT ![b] = 0]
  <2>1. registered[b] = 0 => registered = [registered EXCEPT ![b] = 0]
    BY DEF MemoryInv, MemoryTypeOK
  <2> QED BY <2>1 DEF UnregisterBuffer, UnregisterFails, Unregistered, Erase,
                      viewVars
<1>2. /\ \A c \in Buffers \ {b} : pins'[c] = pins[c]
      /\ pins' \in [Buffers -> 0 .. MaxPins]
      /\ leaked \subseteq leaked' /\ leaked' \subseteq leaked \cup {b}
      /\ b \in leaked' \/ pins'[b] = 0
  <2>1. CASE UnregisterFails(b)
    BY <2>1 DEF UnregisterFails, MemoryInv, MemoryTypeOK
  <2>2. CASE UnregisterBuffer(b) /\ registered[b] = 0
    BY <2>2 DEF UnregisterBuffer, MemoryInv, MemoryTypeOK, RegistryAgrees
  <2>3. CASE UnregisterBuffer(b) /\ registered[b] # 0
    BY <2>3, MemoryAssumption
    DEF UnregisterBuffer, MemoryInv, MemoryTypeOK, RegistryAgrees, EntryPinned
  <2> QED BY <2>1, <2>2, <2>3
<1>3. /\ registered \in [Buffers -> 0 .. MaxSize]
      /\ registered' \in [Buffers -> 0 .. MaxSize]
  BY <1>1, MemoryAssumption DEF MemoryInv, MemoryTypeOK
<1>4. MemoryTypeOK'
  BY <1>1, <1>2, <1>3 DEF MemoryInv, MemoryTypeOK, Relying
<1>5. RegistryAgrees'
  BY <1>1, <1>2, <1>3 DEF MemoryInv, RegistryAgrees
<1>6. MemoryHeld'
  BY <1>1 DEF MemoryInv, MemoryHeld, InUse
<1>7. EntryPinned'
  BY <1>1, <1>2, <1>3 DEF MemoryInv, EntryPinned
<1>8. EntryKnown' /\ WholeView'
  BY <1>1, <1>3 DEF MemoryInv, EntryKnown, WholeView
<1>9. CallBacked'
  BY <1>1, <1>3 DEF MemoryInv, CallBacked, Relying, MemoryTypeOK
<1>10. ViewNotEmpty'
  BY <1>1 DEF MemoryInv, ViewNotEmpty
<1> QED BY <1>4, <1>5, <1>6, <1>7, <1>8, <1>9, <1>10 DEF MemoryInv

LEMMA MallocKeeps ==
  ASSUME MemoryInv, NEW b \in Buffers, NEW s \in 1 .. MaxSize, Malloc(b, s)
  PROVE  MemoryInv'
<1>1. /\ UNCHANGED <<unsettled, alive, registered, pins, pinned, leaked, mpc,
                     ptr, size, attempt, dropped>>
      /\ memory[b] = 0 /\ memory' = [memory EXCEPT ![b] = s]
  BY DEF Malloc, registryVars, callVars, viewVars
<1>2. memory \in [Buffers -> 0 .. MaxSize] /\ unsettled \subseteq Buffers
  BY DEF MemoryInv, MemoryTypeOK
<1>3. MemoryTypeOK'
  BY <1>1, <1>2, MemoryAssumption DEF MemoryInv, MemoryTypeOK
<1>4. RegistryAgrees' /\ EntryPinned'
  BY <1>1 DEF MemoryInv, RegistryAgrees, EntryPinned
<1>5. MemoryHeld'
  BY <1>1, <1>2 DEF MemoryInv, MemoryHeld, MemoryTypeOK
<1>6. EntryKnown'
  BY <1>1, <1>2 DEF MemoryInv, EntryKnown, MemoryHeld
<1>7. WholeView' /\ CallBacked'
  BY <1>1, <1>2
  DEF MemoryInv, WholeView, CallBacked, MemoryHeld, MemoryTypeOK
<1>8. ViewNotEmpty'
  BY <1>1 DEF MemoryInv, ViewNotEmpty
<1> QED BY <1>3, <1>4, <1>5, <1>6, <1>7, <1>8 DEF MemoryInv

LEMMA FreeKeeps ==
  ASSUME MemoryInv, NEW b \in Buffers, b \notin unsettled, Free(b)
  PROVE  MemoryInv'
<1>1. /\ UNCHANGED <<unsettled, alive, registered, pins, pinned, leaked, mpc,
                     ptr, size, attempt, dropped>>
      /\ memory' = [memory EXCEPT ![b] = 0]
  BY DEF Free, registryVars, callVars, viewVars
<1>2. memory \in [Buffers -> 0 .. MaxSize] /\ unsettled \subseteq Buffers
  BY DEF MemoryInv, MemoryTypeOK
<1>3. MemoryTypeOK'
  BY <1>1, <1>2, MemoryAssumption DEF MemoryInv, MemoryTypeOK
<1>4. RegistryAgrees' /\ EntryPinned'
  BY <1>1 DEF MemoryInv, RegistryAgrees, EntryPinned
<1>5. MemoryHeld'
  BY <1>1, <1>2 DEF MemoryInv, MemoryHeld, MemoryTypeOK
<1>6. EntryKnown'
  BY <1>1, <1>2 DEF MemoryInv, EntryKnown
<1>7. WholeView' /\ CallBacked'
  BY <1>1, <1>2
  DEF MemoryInv, WholeView, CallBacked, MemoryHeld, MemoryTypeOK
<1>8. ViewNotEmpty'
  BY <1>1 DEF MemoryInv, ViewNotEmpty
<1> QED BY <1>3, <1>4, <1>5, <1>6, <1>7, <1>8 DEF MemoryInv

LEMMA ApplicationKeeps ==
  ASSUME MemoryInv, NEW b \in Buffers, Application(b)
  PROVE  MemoryInv'
<1>1. CASE RegisterFails(b)
  BY <1>1
  DEF RegisterFails, memoryVars, registryVars, appVars, callVars, viewVars,
      MemoryInv, MemoryTypeOK, RegistryAgrees, MemoryHeld, EntryPinned,
      EntryKnown, WholeView, CallBacked, ViewNotEmpty
<1> QED BY <1>1, RegisterKeeps, UnregisterKeeps, MallocKeeps, FreeKeeps
        DEF Application

-----------------------------------------------------------------------------
(* PutObject *)

LEMMA PutObjectKeeps ==
  ASSUME MemoryInv, NEW t \in Threads, NEW b \in Buffers, NEW s \in View(b),
         PutObject(t, b, s)
  PROVE  MemoryInv'
<1>1. /\ UNCHANGED <<registered, pins, pinned, leaked, memory, alive>>
      /\ memory[b] # 0
      /\ mpc' = [mpc EXCEPT ![t] = "acquire"]
      /\ ptr' = [ptr EXCEPT ![t] = b]
      /\ size' = [size EXCEPT ![t] = s]
      /\ attempt' = [attempt EXCEPT ![t] = 1]
      /\ unsettled' = unsettled \cup {b}
      /\ dropped' = dropped \ {t}
  BY DEF PutObject, registryVars
<1>2. s \in 0 .. MaxSize /\ (b \in Whole => s = memory[b])
  BY ViewTypes DEF MemoryInv
<1>3. MemoryTypeOK
  BY DEF MemoryInv
<1>4. MemoryTypeOK'
  BY <1>1, <1>2, <1>3, MemoryAssumption DEF MemoryTypeOK
<1>5. RegistryAgrees' /\ EntryPinned'
  BY <1>1 DEF MemoryInv, RegistryAgrees, EntryPinned
<1>6. MemoryHeld'
  BY <1>1, <1>3 DEF MemoryInv, MemoryHeld, MemoryTypeOK
<1>7. EntryKnown'
  BY <1>1 DEF MemoryInv, EntryKnown
<1>8. WholeView' /\ CallBacked'
  BY <1>1, <1>2, <1>3 DEF MemoryInv, WholeView, CallBacked, MemoryTypeOK
<1>9. ViewNotEmpty'
  BY <1>1, <1>3 DEF MemoryInv, ViewNotEmpty, MemoryTypeOK
<1> QED BY <1>4, <1>5, <1>6, <1>7, <1>8, <1>9 DEF MemoryInv

\* A step of a call that leaves the registry alone.
LEMMA MoveKeeps ==
  ASSUME MemoryInv, NEW t \in Threads, mpc[t] # "idle",
         NEW to \in {"idle", "acquire", "register", "get_token", "transfer",
                     "failed"},
         mpc' = [mpc EXCEPT ![t] = to],
         \/ to = "idle" /\ size' = [size EXCEPT ![t] = 0]
         \/ to # "idle" /\ size' = size,
         attempt' \in [Threads -> 0 .. MaxAttempts],
         UNCHANGED <<registryVars, appVars, ptr>>,
         \/ dropped' = dropped
         \/ dropped' = dropped \ {t} /\ to \in {"idle", "acquire"},
         t \notin dropped /\ to \in {"get_token", "transfer"} =>
           registered[ptr[t]] # 0,
         to = "transfer" => pinned[ptr[t]] >= size[t],
         to = "register" => size[t] # 0
  PROVE  MemoryInv'
<1>1. UNCHANGED <<registered, pins, pinned, leaked, memory, unsettled, alive,
                  ptr>>
  BY DEF registryVars, appVars
<1>2. MemoryTypeOK
  BY DEF MemoryInv
<1>3. MemoryTypeOK'
  BY <1>1, <1>2, MemoryAssumption DEF MemoryTypeOK
<1>4. RegistryAgrees' /\ EntryPinned'
  BY <1>1 DEF MemoryInv, RegistryAgrees, EntryPinned
<1>5. MemoryHeld'
  BY <1>1, <1>2 DEF MemoryInv, MemoryHeld, MemoryTypeOK
<1>6. EntryKnown' /\ WholeView'
  BY <1>1, <1>2 DEF MemoryInv, EntryKnown, WholeView, MemoryTypeOK
<1>7. CallBacked'
  BY <1>1, <1>2 DEF MemoryInv, CallBacked, MemoryTypeOK
<1>8. ViewNotEmpty'
  BY <1>1, <1>2 DEF MemoryInv, ViewNotEmpty, MemoryTypeOK
<1> QED BY <1>3, <1>4, <1>5, <1>6, <1>7, <1>8 DEF MemoryInv

\* Under the second lock of AcquireToken.
LEMMA LazyRegisterKeeps ==
  ASSUME MemoryInv, NEW t \in Threads, LazyRegister(t)
  PROVE  MemoryInv'
<1> DEFINE b == ptr[t]
           s == size[t]
<1>1. MemoryTypeOK /\ b \in Buffers /\ s \in 1 .. MaxSize
  BY MemoryAssumption
  DEF MemoryInv, MemoryTypeOK, ViewNotEmpty, LazyRegister, PutStep
<1>2. /\ UNCHANGED <<leaked, memory, unsettled, alive, ptr, size, attempt,
                     dropped>>
      /\ mpc[t] = "register"
      /\ mpc' = [mpc EXCEPT ![t] = "get_token"]
  BY DEF LazyRegister, PutStep, appVars, viewVars
<1>3. RegisterUnderLock(b, s)
  BY DEF LazyRegister
<1>4. /\ registered' \in [Buffers -> 0 .. MaxSize]
      /\ pinned' \in [Buffers -> 0 .. MaxSize]
      /\ pins' \in [Buffers -> 0 .. MaxPins]
      /\ RegistryAgrees' /\ EntryPinned'
      /\ registered'[b] = IF registered[b] = 0 THEN s ELSE registered[b]
      /\ \A c \in Buffers \ {b} : registered'[c] = registered[c]
      /\ \A c \in Buffers :
           registered[c] # 0 =>
             registered'[c] = registered[c] /\ pinned'[c] = pinned[c]
  BY <1>1, <1>2, <1>3, Registered
<1>5. MemoryTypeOK'
  BY <1>1, <1>2, <1>4 DEF MemoryTypeOK
<1>6. MemoryHeld'
  BY <1>1, <1>2 DEF MemoryInv, MemoryHeld, MemoryTypeOK
<1>7. b \in unsettled /\ (b \in Whole => s = memory[b])
  BY <1>2 DEF MemoryInv, MemoryHeld, WholeView
<1>8. EntryKnown'
  BY <1>1, <1>2, <1>4, <1>7 DEF MemoryInv, EntryKnown
<1>9. WholeView' /\ CallBacked'
  BY <1>1, <1>2, <1>4, <1>7
  DEF MemoryInv, WholeView, CallBacked, MemoryTypeOK
<1>10. ViewNotEmpty'
  BY <1>1, <1>2 DEF MemoryInv, ViewNotEmpty, MemoryTypeOK
<1> QED BY <1>4, <1>5, <1>6, <1>8, <1>9, <1>10 DEF MemoryInv

\* The other steps of a call move it on.
LEMMA PutKeeps ==
  ASSUME MemoryInv, NEW t \in Threads, Put(t) \/ Return(t)
  PROVE  MemoryInv'
<1>0. MemoryTypeOK
  BY DEF MemoryInv
<1>1. CASE Find(t)
  <2> DEFINE to == IF registered[ptr[t]] = 0 THEN "register" ELSE "get_token"
  <2>1. /\ mpc[t] = "acquire" /\ size[t] # 0
        /\ mpc' = [mpc EXCEPT ![t] = to]
        /\ UNCHANGED <<registryVars, appVars, ptr, size, attempt, dropped>>
    BY <1>1 DEF Find, PutStep, viewVars
  <2>2. attempt' \in [Threads -> 0 .. MaxAttempts]
    BY <1>0, <2>1 DEF MemoryTypeOK
  <2> QED BY <2>1, <2>2, MoveKeeps
<1>2. CASE GetRDMAToken(t)
  <2>1. /\ mpc[t] = "get_token"
        /\ mpc' = [mpc EXCEPT ![t] = "transfer"]
        /\ UNCHANGED <<registryVars, appVars, ptr, size, attempt, dropped>>
    BY <1>2 DEF GetRDMAToken, PutStep, viewVars
  <2>2. attempt' \in [Threads -> 0 .. MaxAttempts]
    BY <1>0, <2>1 DEF MemoryTypeOK
  <2>3. t \notin dropped => registered[ptr[t]] # 0
    BY <2>1 DEF MemoryInv, CallBacked
  <2>4. pinned[ptr[t]] >= size[t]
    BY <1>2 DEF GetRDMAToken
  <2> QED BY <2>1, <2>2, <2>3, <2>4, MoveKeeps
<1>3. CASE AcquireFails(t) \/ EndAttempt(t)
  <2>1. /\ mpc[t] # "idle"
        /\ mpc' = [mpc EXCEPT ![t] = "failed"]
        /\ UNCHANGED <<registryVars, appVars, ptr, size, attempt, dropped>>
    BY <1>3 DEF AcquireFails, EndAttempt, PutStep, viewVars
  <2>2. attempt' \in [Threads -> 0 .. MaxAttempts]
    BY <1>0, <2>1 DEF MemoryTypeOK
  <2> QED BY <2>1, <2>2, MoveKeeps
<1>4. CASE Retry(t)
  <2>1. /\ mpc[t] = "failed" /\ attempt[t] < MaxAttempts
        /\ mpc' = [mpc EXCEPT ![t] = "acquire"]
        /\ attempt' = [attempt EXCEPT ![t] = attempt[t] + 1]
        /\ dropped' = dropped \ {t}
        /\ UNCHANGED <<registryVars, appVars, ptr, size>>
    BY <1>4 DEF Retry, viewVars
  <2>2. attempt' \in [Threads -> 0 .. MaxAttempts]
    BY <1>0, <2>1, MemoryAssumption DEF MemoryTypeOK
  <2> QED BY <2>1, <2>2, MoveKeeps
<1>5. CASE Return(t)
  <2>1. /\ mpc[t] # "idle"
        /\ mpc' = [mpc EXCEPT ![t] = "idle"]
        /\ size' = [size EXCEPT ![t] = 0]
        /\ attempt' = [attempt EXCEPT ![t] = 0]
        /\ dropped' = dropped \ {t}
        /\ UNCHANGED <<registryVars, appVars, ptr>>
    BY <1>5 DEF Return
  <2>2. attempt' \in [Threads -> 0 .. MaxAttempts]
    BY <1>0, <2>1, MemoryAssumption DEF MemoryTypeOK
  <2> QED BY <2>1, <2>2, MoveKeeps
<1> QED BY <1>1, <1>2, <1>3, <1>4, <1>5, LazyRegisterKeeps DEF Put, Acquire

-----------------------------------------------------------------------------
(* The end of the process *)

LEMMA DestroyKeeps ==
  ASSUME MemoryInv, NEW lost \in SUBSET Buffers, Destroy(lost)
  PROVE  MemoryInv'
<1> DEFINE left == {b \in Buffers : registered[b] # 0}
<1>1. /\ UNCHANGED <<pinned, memory, unsettled, mpc, ptr, size, attempt,
                     dropped>>
      /\ \A t \in Threads : mpc[t] = "idle"
      /\ alive' = FALSE
      /\ pins' = [b \in Buffers |->
                    IF b \in left \ lost THEN pins[b] - 1 ELSE pins[b]]
      /\ leaked' = leaked \cup lost
      /\ registered' = [b \in Buffers |-> 0]
  BY DEF Destroy, callVars, viewVars
<1>2. MemoryTypeOK
  BY DEF MemoryInv
<1>3. \A b \in Buffers : pins[b] \in 0 .. MaxPins /\ (b \in left => pins[b] > 0)
  BY <1>2 DEF MemoryInv, EntryPinned, MemoryTypeOK
<1>4. MemoryTypeOK'
  <2>1. pins' \in [Buffers -> 0 .. MaxPins]
    BY <1>1, <1>3, MemoryAssumption
  <2>2. registered' \in [Buffers -> 0 .. MaxSize]
    BY <1>1, MemoryAssumption
  <2> QED BY <1>1, <1>2, <2>1, <2>2 DEF MemoryTypeOK
<1>5. RegistryAgrees'
  <2> SUFFICES ASSUME NEW b \in Buffers, b \notin leaked'
               PROVE  pins'[b] = 0 /\ registered'[b] = 0
    BY DEF RegistryAgrees
  <2>1. b \notin leaked /\ b \notin lost
    BY <1>1
  <2>2. pins[b] = IF b \in left THEN 1 ELSE 0
    BY <2>1 DEF MemoryInv, RegistryAgrees
  <2> QED BY <1>1, <2>1, <2>2
<1>6. MemoryHeld'
  BY <1>1 DEF MemoryInv, MemoryHeld
<1>7. EntryPinned' /\ EntryKnown'
  BY <1>1 DEF EntryPinned, EntryKnown
<1>8. WholeView' /\ CallBacked' /\ ViewNotEmpty'
  BY <1>1 DEF WholeView, CallBacked, ViewNotEmpty
<1> QED BY <1>4, <1>5, <1>6, <1>7, <1>8 DEF MemoryInv

-----------------------------------------------------------------------------
(* The theorems *)

LEMMA MemoryInitial == MemoryInit => MemoryInv
<1> SUFFICES ASSUME MemoryInit PROVE MemoryInv
  OBVIOUS
<1>1. MemoryTypeOK
  BY MemoryAssumption DEF MemoryInit, MemoryTypeOK
<1>2. RegistryAgrees /\ EntryPinned
  BY DEF MemoryInit, RegistryAgrees, EntryPinned
<1>3. MemoryHeld /\ EntryKnown /\ WholeView /\ CallBacked /\ ViewNotEmpty
  BY DEF MemoryInit, MemoryHeld, EntryKnown, WholeView, CallBacked,
         ViewNotEmpty
<1> QED BY <1>1, <1>2, <1>3 DEF MemoryInv

LEMMA MemoryStep ==
  ASSUME MemoryInv, [MemoryNext]_memoryVars
  PROVE  MemoryInv'
<1>1. CASE UNCHANGED memoryVars
  BY <1>1
  DEF memoryVars, registryVars, appVars, callVars, viewVars, MemoryInv,
      MemoryTypeOK, RegistryAgrees, MemoryHeld, EntryPinned, EntryKnown,
      WholeView, CallBacked, ViewNotEmpty
<1> QED BY <1>1, PutKeeps, PutObjectKeeps, ApplicationKeeps, DestroyKeeps
        DEF MemoryNext

\* What the properties say follows from the invariant.
LEMMA MemoryInvImplies ==
  ASSUME MemoryInv
  PROVE  NothingPinnedIsFreed /\ TokenCovered /\ LazilyRegistered
<1>1. NothingPinnedIsFreed
  BY DEF MemoryInv, NothingPinnedIsFreed, RegistryAgrees, EntryKnown,
         MemoryHeld
<1>2. TokenCovered
  BY DEF MemoryInv, MemoryTypeOK, TokenCovered, CallBacked, EntryPinned
<1>3. LazilyRegistered
  BY DEF MemoryInv, MemoryTypeOK, LazilyRegistered, CallBacked, EntryKnown,
         WholeView
<1> QED BY <1>1, <1>2, <1>3

\* The inductive invariant of the registry.
THEOREM MemoryInvariant == MemorySpec => []MemoryInv
BY MemoryInitial, MemoryStep, PTL DEF MemorySpec

\* The variables keep their values; no call makes more than max_attempts
\* attempts and no descriptor is given back twice.
THEOREM MemoryTypes == MemorySpec => []MemoryTypeOK
<1>1. MemoryInv => MemoryTypeOK
  BY DEF MemoryInv
<1> QED BY <1>1, MemoryInvariant, PTL

\* registration_mu_: registered_ and cuObject agree on every buffer, although
\* AcquireToken looks up and registers under two locks.
THEOREM MapMatchesCuObject == MemorySpec => []RegistryAgrees
<1>1. MemoryInv => RegistryAgrees
  BY DEF MemoryInv
<1> QED BY <1>1, MemoryInvariant, PTL

\* UnregisterBuffer after the last upload and before cudaFree is all that it
\* takes, whatever else was unregistered in between: memory that is freed is
\* not pinned.
THEOREM FreedIsUnpinned == MemorySpec => []NothingPinnedIsFreed
<1>1. MemoryInv => NothingPinnedIsFreed
  BY MemoryInvImplies
<1> QED BY <1>1, MemoryInvariant, PTL

\* ~Token: until the token is given back the memory under it is pinned, for as
\* long as the application does not unregister that buffer; nothing that other
\* threads do with the client takes the pin away.
THEOREM TransfersArePinned == MemorySpec => []TokenCovered
<1>1. MemoryInv => TokenCovered
  BY MemoryInvImplies
<1> QED BY <1>1, MemoryInvariant, PTL

\* AcquireToken: when the token is asked for, the buffer has an entry, also
\* when it was unregistered between the lookup and the registration.
THEOREM LazyRegistration == MemorySpec => []LazilyRegistered
<1>1. MemoryInv => LazilyRegistered
  BY MemoryInvImplies
<1> QED BY <1>1, MemoryInvariant, PTL
=============================================================================
