------------------------- MODULE PinnedBufferPool -------------------------
(***************************************************************************)
(* backend/src/gds/buffer_pool.{h,cpp}: the pool of host buffers that are  *)
(* pinned and registered with cuObjServer, cached per size class.          *)
(*                                                                         *)
(* brpc worker threads call Acquire and, through the destructor of the     *)
(* lease, Release; one other thread calls Shutdown.  Each class has its    *)
(* own mutex and shutdown_ is an atomic outside all of them, so every      *)
(* critical section, every atomic access and every call of cuObjServer is  *)
(* a step of its own and the steps of different threads interleave.        *)
(***************************************************************************)
EXTENDS Integers, Sequences, Functions

CONSTANTS
  Threads,      \* brpc workers; each runs one ReceiveAndDiscard at a time
  Buffers,      \* addresses allocHostBuffer can return
  SizeClasses,  \* size_classes_, as the constructor's std::sort leaves it
  MaxPerClass,  \* max_per_class_
  Sizes,        \* the lengths handlers ask for
  NoBuf         \* a null data pointer

ClassIdx == 1 .. Len(SizeClasses)
Oversize == Len(SizeClasses) + 1

ASSUME PoolAssumption ==
  /\ SizeClasses \in Seq(Nat \ {0})
  /\ \A i, j \in ClassIdx : i < j => SizeClasses[i] <= SizeClasses[j]
  /\ MaxPerClass \in Nat
  /\ Sizes \subseteq Nat \ {0}
  /\ NoBuf \notin Buffers

VARIABLES
  shutdown,    \* shutdown_
  free_list,   \* buckets_[i]->free_list, a stack: the back is the last entry
  allocated,   \* buffers obtained from allocHostBuffer and not yet freed
  registered,  \* buffers whose memory region is registered with the NIC
  capacity,    \* the length a buffer was allocated and registered with
  pc,          \* where each worker is inside Acquire or Release
  buf,         \* data_/mr_ of the lease (or the local) of each worker
  cls,         \* size_class_ of that lease
  want,        \* the size passed to Acquire
  spc,         \* where the thread that runs Shutdown is
  sidx,        \* the bucket its drain loop is at
  to_destroy,  \* the local vector of Shutdown
  early        \* history: the buffers whose Release had already found
               \* shutdown_ false when Shutdown set it

poolVars == <<shutdown, free_list, allocated, registered, capacity>>
workerVars == <<pc, buf, cls, want>>
stopVars == <<spc, sidx, to_destroy, early>>
vars == <<poolVars, workerVars, stopVars>>

WorkerPC == {"idle", "pop", "alloc", "register", "leased", "push",
             "deregister", "free"}
\* Shutdown has "returned" when it has disposed of all it drained.
StopPC == {"running", "drain", "deregister", "free", "returned"}

Init ==
  /\ shutdown = FALSE
  /\ free_list = [c \in ClassIdx |-> <<>>]
  /\ allocated = {}
  /\ registered = {}
  /\ capacity = [b \in Buffers |-> 0]
  /\ pc = [t \in Threads |-> "idle"]
  /\ buf = [t \in Threads |-> NoBuf]
  /\ cls = [t \in Threads |-> Oversize]
  /\ want = [t \in Threads |-> 0]
  /\ spc = "running"
  /\ sidx = 1
  /\ to_destroy = <<>>
  /\ early = {}

-----------------------------------------------------------------------------
\* The classes that are large enough.
Fits(size) == {i \in ClassIdx : SizeClasses[i] >= size}

Goto(t, label) == pc' = [pc EXCEPT ![t] = label]

\* The worker leaves the pool with no buffer: Acquire returned an empty lease
\* or the destructor of the lease has reset its fields.
Leave(t) ==
  /\ Goto(t, "idle")
  /\ buf' = [buf EXCEPT ![t] = NoBuf]
  /\ cls' = [cls EXCEPT ![t] = Oversize]
  /\ want' = [want EXCEPT ![t] = 0]

-----------------------------------------------------------------------------
(* Variants of operations below with a plausible mistake in them.  The     *)
(* specification does not use them; they show that the properties notice.  *)

\* The allocation is for the requested size, not for the whole class.
LengthOfRequest(c, size) == size

\* The class counted from 0, as in the code, in a table that starts at 1.
PickClassFromZero(size) ==
  IF Fits(size) = {} THEN Oversize
  ELSE (CHOOSE i \in Fits(size) : \A j \in Fits(size) : i <= j) - 1

\* The lease is handed out although registerBuffer failed.
RegisterBufferUnchecked(t) ==
  /\ pc[t] = "register"
  /\ Goto(t, "leased")
  /\ UNCHANGED <<poolVars, buf, cls, want, stopVars>>

\* std::free is forgotten when registerBuffer fails.
RegisterFailsKeepsMemory(t) ==
  /\ pc[t] = "register"
  /\ Leave(t)
  /\ UNCHANGED <<poolVars, stopVars>>

\* The bound is compared with <= instead of <.
PushCachedOneTooMany(t) ==
  /\ pc[t] = "push"
  /\ Len(free_list[cls[t]]) <= MaxPerClass
  /\ free_list' = [free_list EXCEPT ![cls[t]] = Append(@, buf[t])]
  /\ Leave(t)
  /\ UNCHANGED <<shutdown, allocated, registered, capacity, stopVars>>

\* free_list.clear() is forgotten.
ShutdownDrainNoClear ==
  /\ spc = "drain"
  /\ sidx \in ClassIdx
  /\ to_destroy' = to_destroy \o free_list[sidx]
  /\ sidx' = sidx + 1
  /\ UNCHANGED <<poolVars, workerVars, spc, early>>

\* Release no longer looks at shutdown_.
ReleaseUnchecked(t) ==
  /\ pc[t] = "leased"
  /\ Goto(t, IF cls[t] = Oversize THEN "deregister" ELSE "push")
  /\ UNCHANGED <<poolVars, buf, cls, want, stopVars>>

-----------------------------------------------------------------------------
(* Acquire *)

\* The first class that is large enough, or one past the end.
PickClass(size) ==
  IF Fits(size) = {} THEN Oversize
  ELSE CHOOSE i \in Fits(size) : \A j \in Fits(size) : i <= j

\* The length to allocate: that of the class, or the exact size beyond them.
Length(c, size) == IF c = Oversize THEN size ELSE SizeClasses[c]

\* Up to and including the load of shutdown_.  A request for 0 bytes returns
\* an empty lease and changes nothing; Sizes leaves it out.
Acquire(t, size) ==
  /\ pc[t] = "idle"
  /\ cls' = [cls EXCEPT ![t] = PickClass(size)]
  /\ want' = [want EXCEPT ![t] = size]
  /\ Goto(t, IF PickClass(size) = Oversize \/ shutdown THEN "alloc" ELSE "pop")
  /\ UNCHANGED <<poolVars, buf, stopVars>>

\* The critical section under the mutex of the class: a hit ...
PopCached(t) ==
  LET list == free_list[cls[t]]
  IN  /\ pc[t] = "pop"
      /\ list # <<>>
      /\ buf' = [buf EXCEPT ![t] = list[Len(list)]]
      /\ free_list' = [free_list EXCEPT
                         ![cls[t]] = SubSeq(list, 1, Len(list) - 1)]
      /\ Goto(t, "leased")
      /\ UNCHANGED <<shutdown, allocated, registered, capacity, cls, want,
                     stopVars>>

\* ... or a miss.
PopMiss(t) ==
  /\ pc[t] = "pop"
  /\ free_list[cls[t]] = <<>>
  /\ Goto(t, "alloc")
  /\ UNCHANGED <<poolVars, buf, cls, want, stopVars>>

\* cuObjServer::allocHostBuffer, outside every lock.
AllocHostBuffer(t) ==
  /\ pc[t] = "alloc"
  /\ \E b \in Buffers \ allocated :
       /\ allocated' = allocated \cup {b}
       /\ capacity' = [capacity EXCEPT ![b] = Length(cls[t], want[t])]
       /\ buf' = [buf EXCEPT ![t] = b]
  /\ Goto(t, "register")
  /\ UNCHANGED <<shutdown, free_list, registered, cls, want, stopVars>>

AllocFails(t) ==
  /\ pc[t] = "alloc"
  /\ Leave(t)
  /\ UNCHANGED <<poolVars, stopVars>>

\* cuObjServer::registerBuffer.
RegisterBuffer(t) ==
  /\ pc[t] = "register"
  /\ registered' = registered \cup {buf[t]}
  /\ Goto(t, "leased")
  /\ UNCHANGED <<shutdown, free_list, allocated, capacity, buf, cls, want,
                 stopVars>>

\* registerBuffer returned null: the buffer is freed again.
RegisterFails(t) ==
  /\ pc[t] = "register"
  /\ allocated' = allocated \ {buf[t]}
  /\ capacity' = [capacity EXCEPT ![buf[t]] = 0]
  /\ Leave(t)
  /\ UNCHANGED <<shutdown, free_list, registered, stopVars>>

-----------------------------------------------------------------------------
(* Release, called by the destructor of the lease *)

\* Up to and including the load of shutdown_.
Release(t) ==
  /\ pc[t] = "leased"
  /\ Goto(t, IF shutdown \/ cls[t] = Oversize THEN "deregister" ELSE "push")
  /\ UNCHANGED <<poolVars, buf, cls, want, stopVars>>

\* The critical section: the buffer goes back to its class ...
PushCached(t) ==
  /\ pc[t] = "push"
  /\ Len(free_list[cls[t]]) < MaxPerClass
  /\ free_list' = [free_list EXCEPT ![cls[t]] = Append(@, buf[t])]
  /\ Leave(t)
  /\ UNCHANGED <<shutdown, allocated, registered, capacity, stopVars>>

\* ... or is to be destroyed because the class is full.
PushFull(t) ==
  /\ pc[t] = "push"
  /\ Len(free_list[cls[t]]) >= MaxPerClass
  /\ Goto(t, "deregister")
  /\ UNCHANGED <<poolVars, buf, cls, want, stopVars>>

\* Dispose: deRegisterBuffer, then std::free.
DisposeDeregister(t) ==
  /\ pc[t] = "deregister"
  /\ registered' = registered \ {buf[t]}
  /\ Goto(t, "free")
  /\ UNCHANGED <<shutdown, free_list, allocated, capacity, buf, cls, want,
                 stopVars>>

DisposeFree(t) ==
  /\ pc[t] = "free"
  /\ allocated' = allocated \ {buf[t]}
  /\ capacity' = [capacity EXCEPT ![buf[t]] = 0]
  /\ Leave(t)
  /\ UNCHANGED <<shutdown, free_list, registered, stopVars>>

-----------------------------------------------------------------------------
(* Shutdown *)

\* compare_exchange_strong; a second call returns here and changes nothing.
ShutdownCas ==
  /\ spc = "running"
  /\ ~shutdown
  /\ shutdown' = TRUE
  /\ spc' = "drain"
  /\ early' = {buf[t] : t \in {u \in Threads : pc[u] = "push"}}
  /\ UNCHANGED <<free_list, allocated, registered, capacity, workerVars,
                 sidx, to_destroy>>

\* One round of the loop over the buckets, under that bucket's mutex.
ShutdownDrain ==
  /\ spc = "drain"
  /\ sidx \in ClassIdx
  /\ to_destroy' = to_destroy \o free_list[sidx]
  /\ free_list' = [free_list EXCEPT ![sidx] = <<>>]
  /\ sidx' = sidx + 1
  /\ UNCHANGED <<shutdown, allocated, registered, capacity, workerVars, spc,
                 early>>

ShutdownDrained ==
  /\ spc = "drain"
  /\ sidx \notin ClassIdx
  /\ spc' = IF to_destroy = <<>> THEN "returned" ELSE "deregister"
  /\ UNCHANGED <<poolVars, workerVars, sidx, to_destroy, early>>

\* Dispose of the entries that were drained.
ShutdownDeregister ==
  /\ spc = "deregister"
  /\ registered' = registered \ {Head(to_destroy)}
  /\ spc' = "free"
  /\ UNCHANGED <<shutdown, free_list, allocated, capacity, workerVars, sidx,
                 to_destroy, early>>

ShutdownFree ==
  /\ spc = "free"
  /\ allocated' = allocated \ {Head(to_destroy)}
  /\ capacity' = [capacity EXCEPT ![Head(to_destroy)] = 0]
  /\ to_destroy' = Tail(to_destroy)
  /\ spc' = IF Tail(to_destroy) = <<>> THEN "returned" ELSE "deregister"
  /\ UNCHANGED <<shutdown, free_list, registered, workerVars, sidx, early>>

-----------------------------------------------------------------------------
\* The steps a worker takes by itself once it has entered the pool.
AcquireStep(t) ==
  \/ PopCached(t) \/ PopMiss(t)
  \/ AllocHostBuffer(t) \/ AllocFails(t)
  \/ RegisterBuffer(t) \/ RegisterFails(t)

ReleaseStep(t) ==
  \/ PushCached(t) \/ PushFull(t)
  \/ DisposeDeregister(t) \/ DisposeFree(t)

Worker(t) == AcquireStep(t) \/ Release(t) \/ ReleaseStep(t)

ShutdownStep ==
  \/ ShutdownDrain \/ ShutdownDrained
  \/ ShutdownDeregister \/ ShutdownFree

Next ==
  \/ \E t \in Threads, size \in Sizes : Acquire(t, size)
  \/ \E t \in Threads : Worker(t)
  \/ ShutdownCas
  \/ ShutdownStep

Spec == Init /\ [][Next]_vars

-----------------------------------------------------------------------------
(* Properties *)

\* The variables have the values the declarations in buffer_pool.h allow.
TypeOK ==
  /\ shutdown \in BOOLEAN
  /\ free_list \in [ClassIdx -> Seq(Buffers)]
  /\ allocated \subseteq Buffers
  /\ registered \subseteq Buffers
  /\ capacity \in [Buffers -> Nat]
  /\ pc \in [Threads -> WorkerPC]
  /\ buf \in [Threads -> Buffers \cup {NoBuf}]
  /\ cls \in [Threads -> ClassIdx \cup {Oversize}]
  /\ want \in [Threads -> Nat]
  /\ spc \in StopPC
  /\ sidx \in ClassIdx \cup {Oversize}
  /\ to_destroy \in Seq(Buffers)
  /\ early \subseteq Buffers

Cached(c) == Range(free_list[c])
Draining == Range(to_destroy)

\* Each part of ExclusiveOwner rules out one pair of owners.
DistinctLeases ==
  \A t, u \in Threads : t # u /\ buf[t] # NoBuf => buf[t] # buf[u]

DistinctCached ==
  /\ \A c \in ClassIdx : IsInjective(free_list[c])
  /\ \A c, d \in ClassIdx : c # d => Cached(c) \cap Cached(d) = {}
  /\ IsInjective(to_destroy)

LeasedNotCached ==
  /\ \A t \in Threads, c \in ClassIdx : buf[t] \notin Cached(c)
  /\ \A t \in Threads : buf[t] \notin Draining
  /\ \A c \in ClassIdx : Cached(c) \cap Draining = {}

\* A buffer has one owner at a time: one lease, one entry of one free list,
\* or one entry of Shutdown's vector.  Otherwise two PUTs would receive into
\* the same memory, or Dispose would free it twice (Acquire, Release and
\* Shutdown take different locks or none).
ExclusiveOwner == DistinctLeases /\ DistinctCached /\ LeasedNotCached

\* The buffer a handler gives to handlePutObject is registered and at least
\* as long as the transfer, whichever class it was cached in before.
LeaseUsable ==
  \A t \in Threads :
    pc[t] = "leased" => /\ buf[t] \in registered
                        /\ capacity[buf[t]] >= want[t]

\* The host memory of a registered region is not freed (Dispose deregisters
\* first), and every allocated buffer can still be reached from a lease, a
\* free list or Shutdown's vector: no failed registration, full class or
\* drain drops the only pointer to one.  A free list may be one that Shutdown
\* has already visited; LateReturnsDestroyed is about those.
NoDanglingNoLeak ==
  /\ registered \subseteq allocated
  /\ \A b \in allocated :
       \/ \E t \in Threads : buf[t] = b
       \/ \E c \in ClassIdx : b \in Cached(c)
       \/ b \in Draining

\* A class never caches more than max_per_class_ buffers, although workers
\* decide under the lock what they do after it.
CacheBounded == \A c \in ClassIdx : Len(free_list[c]) <= MaxPerClass

\* "A lease returned after Shutdown is destroyed at once" (buffer_pool.h):
\* once Shutdown has visited a class, the only buffers that can appear in its
\* free list, where nothing will destroy them any more, are those whose
\* Release had loaded shutdown_ before Shutdown set it and took the mutex
\* after the drain.  No lease that was still out can be stranded.
LateReturnsDestroyed ==
  \A c \in ClassIdx : c < sidx => Cached(c) \subseteq early

-----------------------------------------------------------------------------
(* The inductive invariant: the properties above with what each owner      *)
(* knows about the state of its buffer at each point of the code.          *)
OwnerKnows(t) ==
  /\ buf[t] = NoBuf <=> pc[t] \in {"idle", "pop", "alloc"}
  /\ buf[t] # NoBuf => /\ buf[t] \in allocated
                       /\ capacity[buf[t]] = Length(cls[t], want[t])
  /\ buf[t] \in registered <=> pc[t] \in {"leased", "push", "deregister"}
  /\ pc[t] \in {"pop", "push"} => cls[t] \in ClassIdx
  /\ pc[t] # "idle" => want[t] <= Length(cls[t], want[t])

WorkerOwns == \A t \in Threads : OwnerKnows(t)

CachedReady ==
  \A c \in ClassIdx : \A b \in Cached(c) :
    b \in allocated /\ b \in registered /\ capacity[b] = SizeClasses[c]

DrainReady ==
  /\ \A b \in Draining : b \in allocated
  /\ spc # "free" => \A b \in Draining : b \in registered
  /\ spc = "free" => /\ Head(to_destroy) \notin registered
                     /\ \A b \in Range(Tail(to_destroy)) : b \in registered
  /\ spc \in {"deregister", "free"} => to_destroy # <<>>

\* Every owner of a buffer finds it in the state its next step relies on:
\* what is cached or drained is allocated, registered and as long as its
\* class, and a worker between two calls knows which of them it has made.
PoolInv ==
  /\ TypeOK
  /\ ExclusiveOwner
  /\ NoDanglingNoLeak
  /\ CacheBounded
  /\ WorkerOwns
  /\ CachedReady
  /\ DrainReady

\* Release reads shutdown_ once: whoever is on its way to a free list after
\* Shutdown began had read it before.
PushIsEarly ==
  /\ shutdown <=> spc # "running"
  /\ ~shutdown => sidx = 1
  /\ shutdown => \A t \in Threads : pc[t] = "push" => buf[t] \in early

LateInv == PushIsEarly /\ LateReturnsDestroyed

-----------------------------------------------------------------------------
(* The pool implements the leasing contract: a lease exists from the end   *)
(* of Acquire to the beginning of Release.                                 *)
Held == [t \in Threads |-> IF pc[t] = "leased" THEN buf[t] ELSE NoBuf]

Leasing == INSTANCE BufferLeasing WITH pinned <- registered, held <- Held

\* Every behaviour of the pool is one of the leasing contract.
ImplementsLeasing == Leasing!Spec
=============================================================================
