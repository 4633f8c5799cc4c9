--------------------------- MODULE GdsBench_proofs ---------------------------
(***************************************************************************)
(* Proofs about the benchmark, for every number of workers, objects and    *)
(* buffers: its threads use the registry the way GdsMemoryManager asks for *)
(* (so the theorems about the registry hold in it), the client outlives    *)
(* every call, the exit code tells what was uploaded, and the barrier      *)
(* opens for the whole crew or for nobody.                                 *)
(***************************************************************************)
EXTENDS GdsBench, GdsMemoryManager_proofs

\* Where a worker has a device buffer, where the registry may know of it, and
\* where it is inside PutObject.
Putting == {"warmup_put", "put"}
Using == {"warmup", "waiting", "loop", "claimed", "unregister"} \cup Putting
Holding == {"memcpy", "register", "free", "clean_up"} \cup Using

Positions == {"absent", "malloc"} \cup Holding \cup Over
MainPositions == {"parse", "initialize", "spawn", "join", "summary",
                  "shutdown", "exit", "gone"}

\* The values of the variables of the benchmark's own.
BenchTypeOK ==
  /\ main \in MainPositions
  /\ args \in Args
  /\ code \in -1 .. 2
  /\ live \subseteq Parts /\ initialized \in BOOLEAN
  /\ next \in Nat
  /\ wpc \in [Threads -> Positions]
  /\ dev \in [Threads -> Buffers]
  /\ idx \in [Threads -> Nat]
  /\ ready \subseteq Threads /\ failed \subseteq Threads
  /\ puts \in [Objects -> Nat]

\* Threads run between the first emplace_back and the last join, and while
\* they do the client is whole.
Lifetimes ==
  /\ main \in {"initialize", "spawn", "join"} => args.size # 0
  /\ main \in {"spawn", "join"} => initialized /\ live = Parts
  /\ main # "gone" => alive
  /\ \A w \in Threads :
       /\ wpc[w] # "absent" =>
            w \in Crew /\ main \notin {"parse", "initialize"}
       /\ wpc[w] \notin Over \cup {"absent"} => main \in {"spawn", "join"}

\* Each buffer is one worker's, and the registry knows of it only while that
\* worker is between RegisterDeviceBuffer and UnregisterDeviceBuffer.
BuffersOwned ==
  /\ \A w \in Threads : wpc[w] \in Holding => memory[dev[w]] = args.size
  /\ \A v, w \in Threads :
       wpc[v] \in Holding /\ wpc[w] \in Holding /\ dev[v] = dev[w] => v = w
  /\ \A b \in Buffers :
       memory[b] # 0 => \E w \in Threads : wpc[w] \in Holding /\ dev[w] = b
  /\ \A b \in unsettled :
       \E w \in Threads : wpc[w] \in Using /\ dev[w] = b
  /\ \A w \in Threads :
       /\ mpc[w] # "idle" <=> wpc[w] \in Putting
       /\ mpc[w] # "idle" => ptr[w] = dev[w]

\* An object from next on is untouched; one below it is at the worker that
\* claimed it or was uploaded, by one worker.
ObjectsClaimed ==
  /\ \A w \in Threads :
       wpc[w] \in {"claimed", "put"} => idx[w] < next /\ idx[w] < args.count
  /\ \A v, w \in Threads :
       wpc[v] = "claimed" /\ wpc[w] = "claimed" /\ idx[v] = idx[w] => v = w
  /\ \A i \in 0 .. args.count - 1 :
       \/ i >= next /\ puts[i] = 0
       \/ /\ i < next /\ puts[i] = 0
          /\ \E w \in Threads : wpc[w] = "claimed" /\ idx[w] = i
       \/ /\ i < next /\ puts[i] = 1
          /\ \A w \in Threads : ~(wpc[w] = "claimed" /\ idx[w] = i)
  /\ \A w \in Threads :
       wpc[w] \in {"unregister", "free", "done"} => next >= args.count

\* A worker that was ready leaves the loop by its end, and an upload that is
\* not under way has succeeded or was counted.
OutcomesCounted ==
  /\ \A w \in Threads : wpc[w] \in Using => w \in ready
  /\ \A w \in ready : wpc[w] \in Using \cup {"free", "done"}
  /\ uploaded \subseteq 0 .. args.count - 1
  /\ \A i \in 0 .. args.count - 1 :
       puts[i] = 1 =>
         \/ i \in uploaded
         \/ \E w \in Threads : wpc[w] = "put" /\ idx[w] = i
         \/ failed \cap ready # {}

\* Before the first thread nothing is claimed; main reports after the last.
Reported ==
  /\ main = "parse" => args.count = 0
  /\ main \in {"parse", "initialize"} =>
       next = 0 /\ uploaded = {} /\ \A i \in Objects : puts[i] = 0
  /\ code \in {0, 2} => main \in {"shutdown", "exit", "gone"}
  /\ ReportComplete

BenchInv ==
  /\ MemoryInv
  /\ BenchTypeOK
  /\ Lifetimes
  /\ BuffersOwned
  /\ ObjectsClaimed
  /\ OutcomesCounted
  /\ Reported

-----------------------------------------------------------------------------
(* The benchmark and the registry *)

\* What a worker with a buffer may do with it.
LEMMA OwnBuffer ==
  ASSUME BenchInv, NEW w \in Threads, wpc[w] \in Holding
  PROVE  /\ dev[w] \in Buffers
         /\ memory[dev[w]] = args.size /\ args.size \in 1 .. MaxSize
         /\ args.size \in View(dev[w])
         /\ wpc[w] \notin Putting => ~InUse(dev[w])
         /\ wpc[w] \notin Using => dev[w] \notin unsettled
         /\ alive
<1>1. main \in {"spawn", "join"}
  BY DEF BenchInv, Lifetimes, Holding, Using, Putting, Over
<1>2. args.size \in 1 .. MaxSize
  BY <1>1, MemoryAssumption DEF BenchInv, Lifetimes, BenchTypeOK, Args
<1>3. dev[w] \in Buffers /\ memory[dev[w]] = args.size
  BY DEF BenchInv, BenchTypeOK, BuffersOwned
<1>4. args.size \in View(dev[w])
  BY <1>2, <1>3 DEF View
<1>5. ASSUME wpc[w] \notin Putting PROVE ~InUse(dev[w])
  BY <1>5 DEF InUse, BenchInv, BuffersOwned, Holding, Using
<1>6. ASSUME wpc[w] \notin Using PROVE dev[w] \notin unsettled
  BY <1>6 DEF BenchInv, BuffersOwned, Holding
<1>7. alive
  BY <1>1 DEF BenchInv, Lifetimes
<1> QED BY <1>2, <1>3, <1>4, <1>5, <1>6, <1>7

\* Whatever a thread of the benchmark does is a step of the registry and its
\* application, or leaves them alone.
LEMMA BenchStepIsMemoryStep ==
  ASSUME BenchInv, [BenchNext]_benchAllVars
  PROVE  [MemoryNext]_memoryVars
<1>1. ASSUME NEW w \in Threads, NEW b \in Buffers, CudaMalloc(w, b)
      PROVE  MemoryNext
  <2>1. main \in {"spawn", "join"}
    BY <1>1 DEF CudaMalloc, Step, BenchInv, Lifetimes, Over
  <2>2. args.size \in 1 .. MaxSize /\ alive
    BY <2>1, MemoryAssumption DEF BenchInv, Lifetimes, BenchTypeOK, Args
  <2> QED BY <1>1, <2>2 DEF CudaMalloc, MemoryNext, Application
<1>2. ASSUME NEW w \in Threads,
             RegisterDeviceBuffer(w) \/ RegisterDeviceBufferFails(w)
      PROVE  MemoryNext
  <2>1. wpc[w] \in Holding
    BY <1>2 DEF RegisterDeviceBuffer, RegisterDeviceBufferFails, Step, Holding
  <2> QED BY <1>2, <2>1, OwnBuffer
          DEF RegisterDeviceBuffer, RegisterDeviceBufferFails, MemoryNext,
              Application
<1>3. ASSUME NEW w \in Threads, UnregisterDeviceBuffer(w)
      PROVE  MemoryNext
  <2>1. wpc[w] \in Holding /\ wpc[w] \notin Putting
    BY <1>3 DEF UnregisterDeviceBuffer, Step, Holding, Using, Putting
  <2> QED BY <1>3, <2>1, OwnBuffer
          DEF UnregisterDeviceBuffer, MemoryNext, Application
<1>4. ASSUME NEW w \in Threads, CudaFree(w)
      PROVE  MemoryNext
  <2>1. wpc[w] \in Holding \ Using /\ wpc[w] \notin Putting
    BY <1>4 DEF CudaFree, Step, Holding, Using, Putting
  <2> QED BY <1>4, <2>1, OwnBuffer DEF CudaFree, MemoryNext, Application
<1>5. ASSUME NEW w \in Threads, Warmup(w) \/ Upload(w)
      PROVE  MemoryNext
  <2>1. wpc[w] \in Holding
    BY <1>5 DEF Warmup, Upload, Step, Holding, Using
  <2> QED BY <1>5, <2>1, OwnBuffer DEF Warmup, Upload, MemoryNext
<1>6. ASSUME NEW w \in Threads, InPut(w) \/ DoPut(w)
      PROVE  MemoryNext
  <2>1. mpc[w] # "idle"
    BY <1>6
    DEF InPut, DoPut, Put, Acquire, Find, LazyRegister, GetRDMAToken,
        AcquireFails, EndAttempt, Retry, Return, PutStep
  <2>2. wpc[w] \in Holding
    BY <2>1 DEF BenchInv, BuffersOwned, Holding, Using
  <2> QED BY <1>6, <2>2, OwnBuffer DEF InPut, DoPut, MemoryNext
<1>7. ASSUME Exit PROVE MemoryNext
  BY <1>7 DEF Exit, MainStep, MemoryNext, BenchInv, Lifetimes
<1>8. ASSUME NEW w \in Threads,
             \/ CudaMallocFails(w) \/ CudaMemcpy(w) \/ CudaMemcpyFails(w)
             \/ Arrive(w) \/ Pass(w) \/ Claim(w) \/ Spawn(w)
      PROVE  UNCHANGED memoryVars
  BY <1>8
  DEF CudaMallocFails, CudaMemcpy, CudaMemcpyFails, Arrive, Pass, Claim, Spawn
<1>9. ASSUME \/ \E a \in Args : ParseArgs(a)
             \/ NoRun(0) \/ NoRun(1)
             \/ \E broken \in {{}} \cup {{part} : part \in Parts} :
                  Initialize(broken)
             \/ Spawned \/ JoinAll \/ Summary \/ Shutdown
      PROVE  UNCHANGED memoryVars
  BY <1>9
  DEF ParseArgs, NoRun, Initialize, Spawned, JoinAll, Summary, Shutdown
<1>10. CASE UNCHANGED benchAllVars
  BY <1>10 DEF benchAllVars
<1>11. ASSUME NEW w \in Threads, Worker(w) PROVE [MemoryNext]_memoryVars
  BY <1>1, <1>2, <1>3, <1>4, <1>5, <1>6, <1>8, <1>11 DEF Worker
<1>12. ASSUME Main PROVE [MemoryNext]_memoryVars
  BY <1>7, <1>8, <1>9, <1>12 DEF Main
<1> QED BY <1>10, <1>11, <1>12 DEF BenchNext

-----------------------------------------------------------------------------
(* The workers *)

\* A worker's step moves only the worker, and only while it runs.
LEMMA WorkerMoves ==
  ASSUME BenchInv, NEW w \in Threads, Worker(w)
  PROVE  /\ UNCHANGED mainVars /\ alive' = alive
         /\ wpc[w] \notin Over \cup {"absent"}
         /\ \E to \in Positions \ {"absent"} : wpc' = [wpc EXCEPT ![w] = to]
<1>0. wpc \in [Threads -> Positions]
  BY DEF BenchInv, BenchTypeOK
<1>1. CASE InPut(w)
  <2>1. mpc[w] # "idle" /\ alive' = alive
    BY <1>1
    DEF InPut, Put, Acquire, Find, LazyRegister, GetRDMAToken, AcquireFails,
        EndAttempt, Retry, PutStep, appVars
  <2>2. wpc[w] \in Putting
    BY <2>1 DEF BenchInv, BuffersOwned
  <2>3. wpc' = wpc /\ UNCHANGED mainVars
    BY <1>1 DEF InPut, benchVars
  <2>4. wpc' = [wpc EXCEPT ![w] = wpc[w]]
    BY <1>0, <2>3
  <2> QED BY <2>1, <2>2, <2>3, <2>4 DEF Putting, Positions, Holding, Using, Over
<1>2. ASSUME NEW from \in Positions \ (Over \cup {"absent"}),
             NEW to \in Positions \ {"absent"}, Step(w, from, to)
      PROVE  /\ UNCHANGED mainVars
             /\ wpc[w] \notin Over \cup {"absent"}
             /\ \E x \in Positions \ {"absent"} : wpc' = [wpc EXCEPT ![w] = x]
  BY <1>2 DEF Step
<1>3. CASE \/ \E b \in Buffers : CudaMalloc(w, b)
           \/ CudaMallocFails(w) \/ CudaMemcpy(w) \/ CudaMemcpyFails(w)
           \/ RegisterDeviceBuffer(w) \/ RegisterDeviceBufferFails(w)
           \/ UnregisterDeviceBuffer(w) \/ CudaFree(w)
  <2>1. alive' = alive
    BY <1>3
    DEF CudaMalloc, CudaMallocFails, CudaMemcpy, CudaMemcpyFails,
        RegisterDeviceBuffer, RegisterDeviceBufferFails,
        UnregisterDeviceBuffer, CudaFree, Malloc, Free, RegisterBuffer,
        RegisterFails, UnregisterBuffer, UnregisterFails, Unregistered,
        memoryVars, appVars
  <2>2. \E from \in Positions \ (Over \cup {"absent"}),
           to \in Positions \ {"absent"} : Step(w, from, to)
    BY <1>3
    DEF CudaMalloc, CudaMallocFails, CudaMemcpy, CudaMemcpyFails,
        RegisterDeviceBuffer, RegisterDeviceBufferFails,
        UnregisterDeviceBuffer, CudaFree, Positions, Holding, Using, Over
  <2> QED BY <1>2, <2>1, <2>2
<1>4. CASE \/ Warmup(w) \/ Arrive(w) \/ Pass(w) \/ Claim(w) \/ Upload(w)
           \/ DoPut(w)
  <2>1. alive' = alive
    BY <1>4
    DEF Warmup, Arrive, Pass, Claim, Upload, DoPut, PutObject, Return,
        memoryVars, appVars
  <2>2. \E from \in Positions \ (Over \cup {"absent"}),
           to \in Positions \ {"absent"} : Step(w, from, to)
    BY <1>4
    DEF Warmup, Arrive, Pass, Claim, Upload, DoPut, Positions, Holding, Using,
        Putting, Over
  <2> QED BY <1>2, <2>1, <2>2
<1> QED BY <1>1, <1>3, <1>4 DEF Worker

LEMMA WorkerTypes ==
  ASSUME BenchInv, NEW w \in Threads, Worker(w)
  PROVE  BenchTypeOK'
<1>0. BenchTypeOK
  BY DEF BenchInv
<1>1. /\ main' \in MainPositions /\ args' \in Args /\ code' \in -1 .. 2
      /\ live' \subseteq Parts /\ initialized' \in BOOLEAN
      /\ wpc' \in [Threads -> Positions]
  BY <1>0, WorkerMoves DEF BenchTypeOK, mainVars
<1>2. /\ next' \in Nat
      /\ dev' \in [Threads -> Buffers]
      /\ ready' \subseteq Threads /\ failed' \subseteq Threads
  BY <1>0
  DEF BenchTypeOK, Worker, CudaMalloc, CudaMallocFails, CudaMemcpy,
      CudaMemcpyFails, RegisterDeviceBuffer, RegisterDeviceBufferFails,
      UnregisterDeviceBuffer, CudaFree, Warmup, Arrive, Pass, Claim, Upload,
      InPut, DoPut, sharedVars, statVars, benchVars
<1>3. idx' \in [Threads -> Nat]
  BY <1>0
  DEF BenchTypeOK, Worker, CudaMalloc, CudaMallocFails, CudaMemcpy,
      CudaMemcpyFails, RegisterDeviceBuffer, RegisterDeviceBufferFails,
      UnregisterDeviceBuffer, CudaFree, Warmup, Arrive, Pass, Claim, Upload,
      InPut, DoPut, benchVars
<1>4. puts' \in [Objects -> Nat]
  BY <1>0
  DEF BenchTypeOK, Worker, CudaMalloc, CudaMallocFails, CudaMemcpy,
      CudaMemcpyFails, RegisterDeviceBuffer, RegisterDeviceBufferFails,
      UnregisterDeviceBuffer, CudaFree, Warmup, Arrive, Pass, Claim, Upload,
      InPut, DoPut, statVars, benchVars
<1> QED BY <1>1, <1>2, <1>3, <1>4 DEF BenchTypeOK

LEMMA WorkerLifetimes ==
  ASSUME BenchInv, NEW w \in Threads, Worker(w)
  PROVE  Lifetimes'
<1>1. PICK to \in Positions \ {"absent"} : wpc' = [wpc EXCEPT ![w] = to]
  BY WorkerMoves
<1>2. UNCHANGED mainVars /\ alive' = alive /\ wpc[w] \notin Over \cup {"absent"}
  BY WorkerMoves
<1>3. wpc \in [Threads -> Positions]
  BY DEF BenchInv, BenchTypeOK
<1> QED BY <1>1, <1>2, <1>3 DEF BenchInv, Lifetimes, mainVars, Crew

\* main has not reported while a worker runs, and nothing is reported by one.
LEMMA WorkerReported ==
  ASSUME BenchInv, NEW w \in Threads, Worker(w)
  PROVE  Reported'
<1>1. UNCHANGED mainVars /\ wpc[w] \notin Over \cup {"absent"}
  BY WorkerMoves
<1>2. main \in {"spawn", "join"}
  BY <1>1 DEF BenchInv, Lifetimes
<1>3. code \notin {0, 2}
  BY <1>2 DEF BenchInv, Reported
<1> QED BY <1>1, <1>2, <1>3 DEF Reported, ReportComplete, mainVars

-----------------------------------------------------------------------------
(* The workers' buffers *)

\* A step on the same side of every call, with memory and calls left alone.
LEMMA SideKept ==
  ASSUME BenchInv, NEW w \in Threads, NEW from, NEW to, Step(w, from, to),
         from \in Holding <=> to \in Holding,
         from \in Using <=> to \in Using,
         from \in Putting <=> to \in Putting,
         UNCHANGED <<memory, unsettled, mpc, ptr, dev>>
  PROVE  BuffersOwned'
<1>1. wpc \in [Threads -> Positions]
  BY DEF BenchInv, BenchTypeOK
<1>2. /\ wpc[w] = from /\ wpc' = [wpc EXCEPT ![w] = to]
      /\ args' = args
  BY DEF Step, mainVars
<1>3. \A v \in Threads :
        /\ wpc'[v] \in Holding <=> wpc[v] \in Holding
        /\ wpc'[v] \in Using <=> wpc[v] \in Using
        /\ wpc'[v] \in Putting <=> wpc[v] \in Putting
  BY <1>1, <1>2
<1> QED BY <1>2, <1>3 DEF BenchInv, BuffersOwned

LEMMA WorkerBuffers ==
  ASSUME BenchInv, NEW w \in Threads, Worker(w)
  PROVE  BuffersOwned'
<1>0. /\ wpc \in [Threads -> Positions]
      /\ dev \in [Threads -> Buffers]
      /\ memory \in [Buffers -> 0 .. MaxSize]
      /\ unsettled \subseteq Buffers
      /\ mpc \in [Threads -> {"idle", "acquire", "register", "get_token",
                              "transfer", "failed"}]
      /\ ptr \in [Threads -> Buffers]
      /\ BuffersOwned
  BY DEF BenchInv, BenchTypeOK, MemoryInv, MemoryTypeOK
<1>1. CASE CudaMallocFails(w) \/ CudaMemcpy(w) \/ CudaMemcpyFails(w)
           \/ RegisterDeviceBufferFails(w)
  <2>1. UNCHANGED <<memory, unsettled, mpc, ptr, dev>>
    BY <1>1
    DEF CudaMallocFails, CudaMemcpy, CudaMemcpyFails,
        RegisterDeviceBufferFails, RegisterFails, memoryVars, appVars,
        callVars, viewVars
  <2> QED BY <1>1, <2>1, SideKept
          DEF CudaMallocFails, CudaMemcpy, CudaMemcpyFails,
              RegisterDeviceBufferFails, Holding, Using, Putting
<1>2. CASE Arrive(w) \/ Pass(w) \/ Claim(w)
  <2>1. UNCHANGED <<memory, unsettled, mpc, ptr, dev>>
    BY <1>2 DEF Arrive, Pass, Claim, memoryVars, appVars, callVars, viewVars
  <2> QED BY <1>2, <2>1, SideKept
          DEF Arrive, Pass, Claim, Holding, Using, Putting
<1>3. ASSUME NEW b \in Buffers, CudaMalloc(w, b)
      PROVE  BuffersOwned'
  <2>1. /\ wpc[w] = "malloc" /\ wpc' = [wpc EXCEPT ![w] = "memcpy"]
        /\ memory[b] = 0 /\ memory' = [memory EXCEPT ![b] = args.size]
        /\ dev' = [dev EXCEPT ![w] = b]
        /\ UNCHANGED <<args, unsettled, mpc, ptr>>
    BY <1>3 DEF CudaMalloc, Step, Malloc, mainVars, callVars, viewVars
  <2>2. /\ "malloc" \notin Holding /\ "memcpy" \in Holding
        /\ "memcpy" \notin Using /\ Using \subseteq Holding
        /\ Putting \subseteq Using
    BY DEF Holding, Using, Putting
  <2>3. \A v \in Threads \ {w} :
          /\ wpc'[v] = wpc[v] /\ dev'[v] = dev[v]
          /\ wpc[v] \in Holding => dev[v] # b
    <3>1. args.size # 0
      BY <2>1, MemoryAssumption
      DEF BenchInv, Lifetimes, Over
    <3> QED BY <1>0, <2>1, <3>1 DEF BuffersOwned
  <2>4. wpc'[w] = "memcpy" /\ dev'[w] = b
    BY <1>0, <2>1
  <2>5. \A c \in Buffers : memory'[c] = IF c = b THEN args.size ELSE memory[c]
    BY <1>0, <2>1
  <2>6. \A v \in Threads : wpc'[v] \in Holding => memory'[dev'[v]] = args.size
    BY <1>0, <2>3, <2>4, <2>5 DEF BuffersOwned
  <2>7. \A u, v \in Threads :
          wpc'[u] \in Holding /\ wpc'[v] \in Holding /\ dev'[u] = dev'[v]
            => u = v
    BY <1>0, <2>3, <2>4 DEF BuffersOwned
  <2>8. \A c \in Buffers : memory'[c] # 0 =>
          \E v \in Threads : wpc'[v] \in Holding /\ dev'[v] = c
    BY <1>0, <2>1, <2>2, <2>3, <2>4, <2>5 DEF BuffersOwned
  <2>9. \A c \in unsettled' :
          \E v \in Threads : wpc'[v] \in Using /\ dev'[v] = c
    BY <1>0, <2>1, <2>2, <2>3 DEF BuffersOwned
  <2>10. \A v \in Threads :
           /\ mpc'[v] # "idle" <=> wpc'[v] \in Putting
           /\ mpc'[v] # "idle" => ptr'[v] = dev'[v]
    BY <1>0, <2>1, <2>2, <2>3, <2>4 DEF BuffersOwned
  <2> QED BY <2>1, <2>6, <2>7, <2>8, <2>9, <2>10 DEF BuffersOwned
<1>4. CASE RegisterDeviceBuffer(w)
  <2>1. /\ wpc[w] = "register" /\ wpc' = [wpc EXCEPT ![w] = "warmup"]
        /\ unsettled' = unsettled \cup {dev[w]}
        /\ UNCHANGED <<args, memory, mpc, ptr, dev>>
    BY <1>4 DEF RegisterDeviceBuffer, Step, RegisterBuffer, mainVars, callVars,
                viewVars
  <2> QED BY <1>0, <2>1 DEF BuffersOwned, Holding, Using, Putting
<1>5. CASE UnregisterDeviceBuffer(w)
  <2>1. /\ wpc[w] = "unregister" /\ wpc' = [wpc EXCEPT ![w] = "free"]
        /\ Unregistered(dev[w])
        /\ UNCHANGED <<args, memory, mpc, ptr, dev>>
    BY <1>5
    DEF UnregisterDeviceBuffer, Step, UnregisterBuffer, UnregisterFails,
        Unregistered, mainVars, viewVars
  <2>2. wpc[w] \in Holding /\ wpc[w] \notin Putting
    BY <2>1 DEF Holding, Using, Putting
  <2>3. unsettled' = unsettled \ {dev[w]}
    BY <2>1, <2>2, OwnBuffer DEF Unregistered
  <2> QED BY <1>0, <2>1, <2>3 DEF BuffersOwned, Holding, Using, Putting
<1>6. CASE CudaFree(w)
  <2>1. /\ \/ wpc[w] = "free" /\ wpc' = [wpc EXCEPT ![w] = "done"]
           \/ wpc[w] = "clean_up" /\ wpc' = [wpc EXCEPT ![w] = "gave_up"]
        /\ memory' = [memory EXCEPT ![dev[w]] = 0]
        /\ UNCHANGED <<args, unsettled, mpc, ptr, dev>>
    BY <1>6 DEF CudaFree, Step, Free, mainVars, callVars, viewVars
  <2>2. wpc[w] \in Holding \ Using /\ wpc'[w] \notin Holding
    BY <1>0, <2>1 DEF Holding, Using, Putting
  <2>3. Using \subseteq Holding /\ Putting \subseteq Using
    BY DEF Holding, Using
  <2>4. \A v \in Threads \ {w} : wpc'[v] = wpc[v]
    BY <1>0, <2>1
  <2> QED BY <1>0, <2>1, <2>2, <2>3, <2>4 DEF BuffersOwned
<1>7. CASE Warmup(w) \/ Upload(w)
  <2>1. /\ wpc[w] \in Using \ Putting
        /\ \E to \in Putting : wpc' = [wpc EXCEPT ![w] = to]
        /\ mpc' = [mpc EXCEPT ![w] = "acquire"]
        /\ ptr' = [ptr EXCEPT ![w] = dev[w]]
        /\ unsettled' = unsettled \cup {dev[w]}
        /\ UNCHANGED <<args, memory, dev>>
    BY <1>7 DEF Warmup, Upload, Step, PutObject, mainVars, Using, Putting
  <2>2. Using \subseteq Holding /\ Putting \subseteq Using
    BY DEF Holding, Using
  <2>3. /\ wpc'[w] \in Putting /\ mpc'[w] = "acquire" /\ ptr'[w] = dev[w]
        /\ \A v \in Threads \ {w} :
             wpc'[v] = wpc[v] /\ mpc'[v] = mpc[v] /\ ptr'[v] = ptr[v]
    BY <1>0, <2>1
  <2>4. \A v \in Threads : /\ wpc'[v] \in Holding <=> wpc[v] \in Holding
                           /\ wpc'[v] \in Using <=> wpc[v] \in Using
    BY <2>1, <2>2, <2>3
  <2> QED BY <1>0, <2>1, <2>3, <2>4 DEF BuffersOwned
<1>8. CASE InPut(w)
  <2>1. /\ mpc[w] # "idle"
        /\ \E to \in {"acquire", "register", "get_token", "transfer",
                      "failed"} : mpc' = [mpc EXCEPT ![w] = to]
        /\ UNCHANGED <<args, memory, unsettled, ptr, wpc, dev>>
    BY <1>8
    DEF InPut, Put, Acquire, Find, LazyRegister, GetRDMAToken, AcquireFails,
        EndAttempt, Retry, PutStep, appVars, viewVars, benchVars, mainVars
  <2> QED BY <1>0, <2>1 DEF BuffersOwned
<1>9. CASE DoPut(w)
  <2>1. /\ wpc[w] \in Putting
        /\ \E to \in Using \ Putting : wpc' = [wpc EXCEPT ![w] = to]
        /\ mpc' = [mpc EXCEPT ![w] = "idle"]
        /\ UNCHANGED <<args, memory, unsettled, ptr, dev>>
    BY <1>9 DEF DoPut, Return, Step, appVars, mainVars, Using, Putting
  <2>2. Using \subseteq Holding /\ Putting \subseteq Using
    BY DEF Holding, Using
  <2>3. /\ wpc'[w] \in Using \ Putting /\ mpc'[w] = "idle"
        /\ \A v \in Threads \ {w} : wpc'[v] = wpc[v] /\ mpc'[v] = mpc[v]
    BY <1>0, <2>1
  <2>4. \A v \in Threads : /\ wpc'[v] \in Holding <=> wpc[v] \in Holding
                           /\ wpc'[v] \in Using <=> wpc[v] \in Using
    BY <2>1, <2>2, <2>3
  <2> QED BY <1>0, <2>1, <2>3, <2>4 DEF BuffersOwned
<1> QED BY <1>1, <1>2, <1>3, <1>4, <1>5, <1>6, <1>7, <1>8, <1>9 DEF Worker

-----------------------------------------------------------------------------
(* The workers' objects *)

\* A step that neither claims nor uploads an object nor ends the loop.
LEMMA ClaimsKept ==
  ASSUME BenchInv, NEW w \in Threads, NEW from, NEW to, Step(w, from, to),
         from # "claimed", to \notin {"claimed", "put"},
         to \in {"unregister", "free", "done"} =>
           from \in {"unregister", "free", "done"},
         \A v \in Threads \ {w} : idx'[v] = idx[v],
         UNCHANGED <<next, puts>>
  PROVE  ObjectsClaimed'
<1>1. wpc \in [Threads -> Positions]
  BY DEF BenchInv, BenchTypeOK
<1>2. wpc[w] = from /\ wpc'[w] = to /\ args' = args
  BY <1>1 DEF Step, mainVars
<1>3. \A v \in Threads \ {w} : wpc'[v] = wpc[v]
  BY <1>1 DEF Step
<1> QED BY <1>2, <1>3 DEF BenchInv, ObjectsClaimed

LEMMA WorkerClaims ==
  ASSUME BenchInv, NEW w \in Threads, Worker(w)
  PROVE  ObjectsClaimed'
<1>0. /\ wpc \in [Threads -> Positions] /\ idx \in [Threads -> Nat]
      /\ next \in Nat /\ args.count \in 0 .. MaxCount
      /\ puts \in [Objects -> Nat]
      /\ ObjectsClaimed
  BY DEF BenchInv, BenchTypeOK, Args
<1>1. CASE \/ \E b \in Buffers : CudaMalloc(w, b)
           \/ CudaMallocFails(w) \/ CudaMemcpy(w) \/ CudaMemcpyFails(w)
           \/ RegisterDeviceBuffer(w) \/ RegisterDeviceBufferFails(w)
           \/ UnregisterDeviceBuffer(w) \/ CudaFree(w)
  <2>1. UNCHANGED <<next, puts, idx>>
    BY <1>1
    DEF CudaMalloc, CudaMallocFails, CudaMemcpy, CudaMemcpyFails,
        RegisterDeviceBuffer, RegisterDeviceBufferFails,
        UnregisterDeviceBuffer, CudaFree, sharedVars, statVars
  <2> QED BY <1>1, <2>1, ClaimsKept
          DEF CudaMalloc, CudaMallocFails, CudaMemcpy, CudaMemcpyFails,
              RegisterDeviceBuffer, RegisterDeviceBufferFails,
              UnregisterDeviceBuffer, CudaFree
<1>2. CASE Warmup(w) \/ Arrive(w) \/ Pass(w) \/ DoPut(w)
  <2>1. /\ UNCHANGED <<next, puts>>
        /\ \A v \in Threads \ {w} : idx'[v] = idx[v]
    BY <1>0, <1>2 DEF Warmup, Arrive, Pass, DoPut, sharedVars, statVars
  <2> QED BY <1>2, <2>1, ClaimsKept DEF Warmup, Arrive, Pass, DoPut
<1>3. CASE InPut(w)
  BY <1>0, <1>3
  DEF InPut, benchVars, mainVars, sharedVars, statVars, ObjectsClaimed
<1>4. CASE Claim(w) /\ next < args.count
  <2>1. /\ wpc[w] = "loop" /\ wpc' = [wpc EXCEPT ![w] = "claimed"]
        /\ idx' = [idx EXCEPT ![w] = next] /\ next' = next + 1
        /\ UNCHANGED <<args, puts>>
    BY <1>4 DEF Claim, Step, mainVars, statVars
  <2>2. /\ wpc'[w] = "claimed" /\ idx'[w] = next
        /\ \A v \in Threads \ {w} : wpc'[v] = wpc[v] /\ idx'[v] = idx[v]
    BY <1>0, <2>1
  <2>3. \A v \in Threads : wpc'[v] \in {"claimed", "put"} =>
          idx'[v] < next' /\ idx'[v] < args'.count
    BY <1>0, <1>4, <2>1, <2>2 DEF ObjectsClaimed
  <2>4. \A u, v \in Threads :
          wpc'[u] = "claimed" /\ wpc'[v] = "claimed" /\ idx'[u] = idx'[v]
            => u = v
    BY <1>0, <2>2 DEF ObjectsClaimed
  <2>5. ASSUME NEW i \in 0 .. args'.count - 1
        PROVE  \/ i >= next' /\ puts'[i] = 0
               \/ /\ i < next' /\ puts'[i] = 0
                  /\ \E v \in Threads : wpc'[v] = "claimed" /\ idx'[v] = i
               \/ /\ i < next' /\ puts'[i] = 1
                  /\ \A v \in Threads : ~(wpc'[v] = "claimed" /\ idx'[v] = i)
    <3>1. CASE i = next
      BY <1>0, <2>1, <2>2, <2>5, <3>1 DEF ObjectsClaimed
    <3>2. CASE i # next
      BY <1>0, <2>1, <2>2, <2>5, <3>2 DEF ObjectsClaimed
    <3> QED BY <3>1, <3>2
  <2>6. \A v \in Threads :
          wpc'[v] \in {"unregister", "free", "done"} => next' >= args'.count
    BY <1>0, <2>1, <2>2 DEF ObjectsClaimed
  <2> QED BY <2>3, <2>4, <2>5, <2>6 DEF ObjectsClaimed
<1>5. CASE Claim(w) /\ ~(next < args.count)
  <2>1. /\ wpc[w] = "loop" /\ wpc' = [wpc EXCEPT ![w] = "unregister"]
        /\ idx' = [idx EXCEPT ![w] = next] /\ next' = next + 1
        /\ UNCHANGED <<args, puts>>
    BY <1>5 DEF Claim, Step, mainVars, statVars
  <2>2. /\ wpc'[w] = "unregister"
        /\ \A v \in Threads \ {w} : wpc'[v] = wpc[v] /\ idx'[v] = idx[v]
    BY <1>0, <2>1
  <2>3. next >= args.count /\ next' > next
    BY <1>0, <1>5, <2>1
  <2> QED BY <1>0, <2>1, <2>2, <2>3 DEF ObjectsClaimed
<1>6. CASE Upload(w)
  <2>1. /\ wpc[w] = "claimed" /\ wpc' = [wpc EXCEPT ![w] = "put"]
        /\ puts' = [puts EXCEPT ![idx[w]] = puts[idx[w]] + 1]
        /\ UNCHANGED <<args, next, idx>>
    BY <1>6 DEF Upload, Step, mainVars, sharedVars
  <2>2. /\ wpc'[w] = "put"
        /\ \A v \in Threads \ {w} : wpc'[v] = wpc[v]
    BY <1>0, <2>1
  <2>3. /\ idx[w] \in 0 .. args.count - 1 /\ idx[w] < next
        /\ 0 .. args.count - 1 \subseteq Objects
    BY <1>0, <2>1, BenchAssumption DEF ObjectsClaimed, Objects
  <2>4. puts[idx[w]] = 0
    BY <1>0, <2>1, <2>3 DEF ObjectsClaimed
  <2>5. ASSUME NEW i \in 0 .. args'.count - 1
        PROVE  \/ i >= next' /\ puts'[i] = 0
               \/ /\ i < next' /\ puts'[i] = 0
                  /\ \E v \in Threads : wpc'[v] = "claimed" /\ idx'[v] = i
               \/ /\ i < next' /\ puts'[i] = 1
                  /\ \A v \in Threads : ~(wpc'[v] = "claimed" /\ idx'[v] = i)
    <3>1. CASE i = idx[w]
      BY <1>0, <2>1, <2>2, <2>3, <2>4, <3>1 DEF ObjectsClaimed
    <3>2. CASE i # idx[w]
      <4>1. puts'[i] = puts[i]
        BY <1>0, <2>1, <2>3, <3>2
      <4> QED BY <1>0, <2>1, <2>2, <2>5, <3>2, <4>1 DEF ObjectsClaimed
    <3> QED BY <3>1, <3>2
  <2>6. \A v \in Threads : wpc'[v] \in {"claimed", "put"} =>
          idx'[v] < next' /\ idx'[v] < args'.count
    BY <1>0, <2>1, <2>2 DEF ObjectsClaimed
  <2>7. \A u, v \in Threads :
          wpc'[u] = "claimed" /\ wpc'[v] = "claimed" /\ idx'[u] = idx'[v]
            => u = v
    BY <1>0, <2>1, <2>2 DEF ObjectsClaimed
  <2>8. \A v \in Threads :
          wpc'[v] \in {"unregister", "free", "done"} => next' >= args'.count
    BY <1>0, <2>1, <2>2 DEF ObjectsClaimed
  <2> QED BY <2>5, <2>6, <2>7, <2>8 DEF ObjectsClaimed
<1> QED BY <1>1, <1>2, <1>3, <1>4, <1>5, <1>6 DEF Worker

\* A step outside the uploads, and not the one that makes a worker ready.
LEMMA OutcomesKept ==
  ASSUME BenchInv, NEW w \in Threads, NEW from, NEW to, Step(w, from, to),
         from # "put",
         to \in Using => from \in Using,
         from \in Using \cup {"free", "done"} =>
           to \in Using \cup {"free", "done"},
         \A v \in Threads \ {w} : idx'[v] = idx[v],
         UNCHANGED <<ready, failed, puts, uploaded>>
  PROVE  OutcomesCounted'
<1>1. wpc \in [Threads -> Positions]
  BY DEF BenchInv, BenchTypeOK
<1>2. wpc[w] = from /\ wpc'[w] = to /\ args' = args
  BY <1>1 DEF Step, mainVars
<1>3. \A v \in Threads \ {w} : wpc'[v] = wpc[v]
  BY <1>1 DEF Step
<1>4. \A v \in Threads : wpc[v] = "put" => v # w
  BY <1>2
<1> QED BY <1>2, <1>3, <1>4 DEF BenchInv, BenchTypeOK, OutcomesCounted

LEMMA WorkerOutcomes ==
  ASSUME BenchInv, NEW w \in Threads, Worker(w)
  PROVE  OutcomesCounted'
<1>0. /\ wpc \in [Threads -> Positions] /\ idx \in [Threads -> Nat]
      /\ args.count \in 0 .. MaxCount
      /\ puts \in [Objects -> Nat] /\ ready \subseteq Threads
      /\ OutcomesCounted
  BY DEF BenchInv, BenchTypeOK, Args
<1>1. CASE \/ \E b \in Buffers : CudaMalloc(w, b)
           \/ CudaMallocFails(w) \/ CudaMemcpy(w) \/ CudaMemcpyFails(w)
           \/ RegisterDeviceBufferFails(w)
           \/ UnregisterDeviceBuffer(w) \/ CudaFree(w)
  <2>1. UNCHANGED <<ready, failed, puts, uploaded, idx>>
    BY <1>1
    DEF CudaMalloc, CudaMallocFails, CudaMemcpy, CudaMemcpyFails,
        RegisterDeviceBufferFails, UnregisterDeviceBuffer, CudaFree, statVars
  <2> QED BY <1>1, <2>1, OutcomesKept
          DEF CudaMalloc, CudaMallocFails, CudaMemcpy, CudaMemcpyFails,
              RegisterDeviceBufferFails, UnregisterDeviceBuffer, CudaFree,
              Using, Putting
<1>2. CASE Warmup(w) \/ Arrive(w) \/ Pass(w) \/ Claim(w)
  <2>1. /\ UNCHANGED <<ready, failed, puts, uploaded>>
        /\ \A v \in Threads \ {w} : idx'[v] = idx[v]
    BY <1>0, <1>2 DEF Warmup, Arrive, Pass, Claim, statVars
  <2> QED BY <1>2, <2>1, OutcomesKept
          DEF Warmup, Arrive, Pass, Claim, Using, Putting
<1>3. CASE InPut(w)
  BY <1>0, <1>3 DEF InPut, benchVars, mainVars, statVars, OutcomesCounted
<1>4. CASE RegisterDeviceBuffer(w)
  <2>1. /\ wpc[w] = "register" /\ wpc' = [wpc EXCEPT ![w] = "warmup"]
        /\ ready' = ready \cup {w}
        /\ UNCHANGED <<args, failed, puts, uploaded, idx>>
    BY <1>4 DEF RegisterDeviceBuffer, Step, mainVars
  <2> QED BY <1>0, <2>1 DEF OutcomesCounted, Using, Putting
<1>5. CASE Upload(w)
  <2>1. /\ wpc[w] = "claimed" /\ wpc' = [wpc EXCEPT ![w] = "put"]
        /\ puts' = [puts EXCEPT ![idx[w]] = puts[idx[w]] + 1]
        /\ UNCHANGED <<args, ready, failed, uploaded, idx>>
    BY <1>5 DEF Upload, Step, mainVars
  <2>2. idx[w] \in 0 .. args.count - 1 /\ 0 .. args.count - 1 \subseteq Objects
    BY <1>0, <2>1, BenchAssumption DEF BenchInv, ObjectsClaimed, Objects
  <2>3. ASSUME NEW i \in 0 .. args.count - 1, puts'[i] = 1
        PROVE  \/ i \in uploaded
               \/ \E v \in Threads : wpc'[v] = "put" /\ idx[v] = i
               \/ failed \cap ready # {}
    BY <1>0, <2>1, <2>2, <2>3 DEF OutcomesCounted
  <2> QED BY <1>0, <2>1, <2>3 DEF OutcomesCounted, Using, Putting
<1>6. CASE DoPut(w) /\ wpc[w] = "warmup_put"
  <2>1. /\ wpc' = [wpc EXCEPT ![w] = "warmup"]
        /\ idx' = [idx EXCEPT ![w] = idx[w] + 1]
        /\ failed \subseteq failed'
        /\ UNCHANGED <<args, ready, puts, uploaded>>
    BY <1>6 DEF DoPut, Step, mainVars
  <2>2. /\ wpc'[w] = "warmup"
        /\ \A v \in Threads \ {w} : wpc'[v] = wpc[v] /\ idx'[v] = idx[v]
    BY <1>0, <2>1
  <2>3. \A v \in Threads : wpc[v] = "put" => v # w
    BY <1>6
  <2> QED BY <1>0, <1>6, <2>1, <2>2, <2>3 DEF OutcomesCounted, Using, Putting
<1>7. CASE DoPut(w) /\ wpc[w] = "put"
  <2>1. /\ wpc' = [wpc EXCEPT ![w] = "loop"]
        /\ failed \subseteq failed' /\ uploaded \subseteq uploaded'
        /\ uploaded' \subseteq uploaded \cup {idx[w]}
        /\ idx[w] \in uploaded' \/ w \in failed'
        /\ UNCHANGED <<args, ready, puts, idx>>
    BY <1>7 DEF DoPut, Step, mainVars
  <2>2. w \in ready /\ idx[w] \in 0 .. args.count - 1
    BY <1>0, <1>7 DEF OutcomesCounted, Using, Putting, BenchInv, ObjectsClaimed
  <2>3. wpc'[w] = "loop" /\ \A v \in Threads \ {w} : wpc'[v] = wpc[v]
    BY <1>0, <2>1
  <2>4. ASSUME NEW i \in 0 .. args.count - 1, puts[i] = 1
        PROVE  \/ i \in uploaded'
               \/ \E v \in Threads : wpc'[v] = "put" /\ idx[v] = i
               \/ failed' \cap ready # {}
    BY <1>0, <2>1, <2>2, <2>3, <2>4 DEF OutcomesCounted
  <2>5. uploaded' \subseteq 0 .. args.count - 1
    BY <1>0, <2>1, <2>2 DEF OutcomesCounted
  <2>6. /\ \A v \in Threads : wpc'[v] \in Using => v \in ready
        /\ \A v \in ready : wpc'[v] \in Using \cup {"free", "done"}
    BY <1>0, <2>2, <2>3 DEF OutcomesCounted, Using
  <2> QED BY <2>1, <2>4, <2>5, <2>6 DEF OutcomesCounted
<1>8. DoPut(w) => wpc[w] \in {"warmup_put", "put"}
  BY DEF DoPut, Step
<1> QED BY <1>1, <1>2, <1>3, <1>4, <1>5, <1>6, <1>7, <1>8 DEF Worker

LEMMA WorkerKeeps ==
  ASSUME BenchInv, NEW w \in Threads, Worker(w)
  PROVE  BenchInv'
<1>1. [BenchNext]_benchAllVars
  BY DEF BenchNext
<1>2. MemoryInv'
  BY <1>1, BenchStepIsMemoryStep, MemoryStep DEF BenchInv
<1> QED BY <1>2, WorkerTypes, WorkerLifetimes, WorkerBuffers, WorkerClaims,
           WorkerOutcomes, WorkerReported
        DEF BenchInv

-----------------------------------------------------------------------------
(* main *)

\* What a step of main leaves alone when it starts no thread and is not the
\* end of the process.
MainOnly ==
  UNCHANGED <<next, wpc, dev, idx, ready, failed, puts, uploaded, memoryVars>>

\* Before main parses its arguments there is nothing.
LEMMA NothingBegun ==
  ASSUME BenchInv, main \in {"parse", "initialize"}
  PROVE  /\ \A w \in Threads : wpc[w] = "absent"
         /\ \A b \in Buffers : memory[b] = 0
         /\ unsettled = {}
         /\ next = 0 /\ uploaded = {} /\ \A i \in Objects : puts[i] = 0
         /\ ready = {} /\ alive
<1>1. \A w \in Threads : wpc[w] = "absent"
  BY DEF BenchInv, Lifetimes
<1>2. "absent" \notin Holding /\ "absent" \notin Using
  BY DEF Holding, Using, Putting
<1>3. \A b \in Buffers : memory[b] = 0
  BY <1>1, <1>2 DEF BenchInv, BuffersOwned
<1>4. unsettled = {}
  BY <1>1, <1>2 DEF BenchInv, BuffersOwned
<1>5. ready = {}
  BY <1>1, <1>2 DEF BenchInv, OutcomesCounted, BenchTypeOK
<1> QED BY <1>1, <1>3, <1>4, <1>5 DEF BenchInv, Reported, Lifetimes

\* The parts of the invariant about workers see of main only args.
LEMMA MainOnlyKeeps ==
  ASSUME BenchInv, MainOnly, args' = args
  PROVE  BuffersOwned' /\ ObjectsClaimed' /\ OutcomesCounted'
<1>1. UNCHANGED <<next, wpc, dev, idx, ready, failed, puts, uploaded, memory,
                  unsettled, mpc, ptr>>
  BY DEF MainOnly, memoryVars, appVars, callVars, viewVars
<1>2. BuffersOwned'
  BY <1>1 DEF BenchInv, BuffersOwned
<1>3. ObjectsClaimed'
  BY <1>1 DEF BenchInv, ObjectsClaimed
<1>4. OutcomesCounted'
  BY <1>1 DEF BenchInv, OutcomesCounted
<1> QED BY <1>2, <1>3, <1>4

LEMMA ParseKeeps ==
  ASSUME BenchInv, \/ \E a \in Args : ParseArgs(a)
                   \/ NoRun(0) \/ NoRun(1)
  PROVE  /\ BenchTypeOK' /\ Lifetimes' /\ BuffersOwned'
         /\ ObjectsClaimed' /\ OutcomesCounted' /\ Reported'
<1>0. BenchTypeOK
  BY DEF BenchInv
<1>1. /\ main = "parse" /\ main' \in {"initialize", "exit"}
      /\ args' \in Args
      /\ main' = "initialize" => args'.size # 0
      /\ code' \in {code, 0, 1} /\ (code' # code => main' = "exit")
      /\ code' = 0 => code = 0 \/ args' = args
      /\ UNCHANGED <<live, initialized, next, wpc, dev, idx, ready, failed,
                     puts, uploaded, memory, unsettled, mpc, ptr, alive>>
  BY <1>0
  DEF ParseArgs, NoRun, MainStep, BenchTypeOK, sharedVars, statVars,
      memoryVars, appVars, callVars, viewVars
<1>2. /\ \A w \in Threads : wpc[w] = "absent"
      /\ \A b \in Buffers : memory[b] = 0
      /\ unsettled = {}
      /\ next = 0 /\ uploaded = {} /\ \A i \in Objects : puts[i] = 0
      /\ ready = {} /\ alive
  BY <1>1, NothingBegun
<1>3. /\ args'.count \in Nat /\ 0 .. args'.count - 1 \subseteq Objects
      /\ code \notin {0, 2} /\ args.count = 0
  BY <1>1, BenchAssumption DEF Args, Objects, BenchInv, Reported
<1>4. BenchTypeOK'
  BY <1>0, <1>1 DEF BenchTypeOK, MainPositions
<1>5. Lifetimes'
  BY <1>1, <1>2 DEF Lifetimes
<1>6. BuffersOwned'
  <2>1. "absent" \notin Holding /\ "absent" \notin Putting
    BY DEF Holding, Using, Putting
  <2> QED BY <1>1, <1>2, <2>1 DEF BenchInv, BuffersOwned
<1>7. ObjectsClaimed'
  BY <1>1, <1>2, <1>3 DEF ObjectsClaimed
<1>8. OutcomesCounted'
  <2>1. "absent" \notin Using
    BY DEF Using, Putting
  <2> QED BY <1>1, <1>2, <1>3, <2>1 DEF OutcomesCounted
<1>9. Reported'
  <2>1. code' = 0 => args'.count = 0
    BY <1>1, <1>3
  <2>2. code' # 2
    BY <1>1, <1>3
  <2>3. 0 .. 0 - 1 = {}
    OBVIOUS
  <2> QED BY <1>1, <1>2, <1>3, <2>1, <2>2, <2>3 DEF Reported, ReportComplete
<1> QED BY <1>4, <1>5, <1>6, <1>7, <1>8, <1>9

LEMMA InitializeKeeps ==
  ASSUME BenchInv, NEW broken, Initialize(broken)
  PROVE  /\ BenchTypeOK' /\ Lifetimes' /\ BuffersOwned'
         /\ ObjectsClaimed' /\ OutcomesCounted' /\ Reported'
<1>1. /\ main = "initialize" /\ args' = args
      /\ \/ /\ main' = "spawn" /\ live' = Parts /\ initialized' = TRUE
            /\ code' = code
         \/ /\ main' = "exit" /\ code' = 1
            /\ UNCHANGED <<live, initialized>>
  BY DEF Initialize, MainStep
<1>2. MainOnly /\ alive' = alive
  BY DEF Initialize, MainOnly, sharedVars, statVars, memoryVars, appVars
<1>3. /\ \A w \in Threads : wpc[w] = "absent"
      /\ alive
  BY <1>1, NothingBegun
<1>4. BenchTypeOK'
  <2>1. initialized' \in BOOLEAN
    BY <1>1, Zenon DEF BenchInv, BenchTypeOK
  <2>2. live' \subseteq Parts /\ code' \in -1 .. 2
    BY <1>1 DEF BenchInv, BenchTypeOK
  <2> QED BY <1>1, <1>2, <2>1, <2>2
          DEF BenchInv, BenchTypeOK, MainPositions, MainOnly
<1>5. Lifetimes'
  BY <1>1, <1>2, <1>3 DEF BenchInv, Lifetimes, MainOnly
<1>6. Reported'
  BY <1>1, <1>2 DEF BenchInv, Reported, ReportComplete
<1> QED BY <1>1, <1>2, <1>4, <1>5, <1>6, MainOnlyKeeps

LEMMA SpawnKeeps ==
  ASSUME BenchInv, NEW w \in Threads, Spawn(w)
  PROVE  /\ BenchTypeOK' /\ Lifetimes' /\ BuffersOwned'
         /\ ObjectsClaimed' /\ OutcomesCounted' /\ Reported'
<1>1. /\ main = "spawn" /\ w \in Crew /\ wpc[w] = "absent"
      /\ wpc' = [wpc EXCEPT ![w] = "malloc"]
      /\ UNCHANGED <<main, args, code, live, initialized, next, dev, idx,
                     ready, failed, puts, uploaded, memory, unsettled, mpc,
                     ptr, alive>>
  BY DEF Spawn, Step, mainVars, sharedVars, statVars, memoryVars, appVars,
         callVars, viewVars
<1>2. wpc \in [Threads -> Positions]
  BY DEF BenchInv, BenchTypeOK
<1>3. BenchTypeOK'
  BY <1>1, <1>2 DEF BenchInv, BenchTypeOK, Positions
<1>4. Lifetimes'
  BY <1>1, <1>2 DEF BenchInv, Lifetimes, Crew
<1>5. Step(w, "absent", "malloc")
  BY DEF Spawn
<1>6. BuffersOwned'
  BY <1>1, <1>5, SideKept DEF Holding, Using, Putting
<1>7. ObjectsClaimed'
  BY <1>1, <1>5, ClaimsKept
<1>8. OutcomesCounted'
  BY <1>1, <1>5, OutcomesKept DEF Using, Putting
<1>9. Reported'
  BY <1>1 DEF BenchInv, Reported, ReportComplete
<1> QED BY <1>3, <1>4, <1>6, <1>7, <1>8, <1>9

\* After the last join, what main is about to report is true.
LEMMA JoinedComplete ==
  ASSUME BenchInv, \A w \in Threads : wpc[w] \in Over \cup {"absent"}
  PROVE  /\ \A b \in Buffers : memory[b] = 0
         /\ ready # {} => \A i \in 0 .. args.count - 1 : puts[i] = 1
         /\ ready # {} /\ failed \cap ready = {} =>
              uploaded = 0 .. args.count - 1
<1>1. /\ \A x \in Over \cup {"absent"} :
           x \notin Holding /\ x \notin Using /\ x \notin {"claimed", "put"}
  BY DEF Over, Holding, Using, Putting
<1>2. \A b \in Buffers : memory[b] = 0
  BY <1>1 DEF BenchInv, BuffersOwned
<1>3. ASSUME ready # {}, NEW i \in 0 .. args.count - 1
      PROVE  puts[i] = 1
  <2>1. PICK w \in ready : TRUE
    BY <1>3
  <2>2. w \in Threads /\ wpc[w] = "done"
    BY <1>1, <2>1
    DEF BenchInv, BenchTypeOK, OutcomesCounted, Over
  <2>3. next >= args.count
    BY <2>2 DEF BenchInv, ObjectsClaimed
  <2>4. next \in Nat /\ args.count \in Nat
    BY BenchAssumption DEF BenchInv, BenchTypeOK, Args
  <2>5. ~(i >= next)
    BY <1>3, <2>3, <2>4
  <2>6. \A v \in Threads : wpc[v] # "claimed"
    BY <1>1
  <2> QED BY <1>3, <2>5, <2>6 DEF BenchInv, ObjectsClaimed
<1>4. ASSUME ready # {}, failed \cap ready = {}
      PROVE  uploaded = 0 .. args.count - 1
  <2>1. \A v \in Threads : wpc[v] # "put"
    BY <1>1
  <2> QED BY <1>3, <1>4, <2>1 DEF BenchInv, OutcomesCounted
<1> QED BY <1>2, <1>3, <1>4

LEMMA JoinKeeps ==
  ASSUME BenchInv, Spawned \/ JoinAll \/ Summary \/ Shutdown
  PROVE  /\ BenchTypeOK' /\ Lifetimes' /\ BuffersOwned'
         /\ ObjectsClaimed' /\ OutcomesCounted' /\ Reported'
<1>0. BenchTypeOK /\ Lifetimes /\ Reported
  BY DEF BenchInv
<1>1. MainOnly /\ args' = args /\ alive' = alive /\ memory' = memory
  BY DEF Spawned, JoinAll, Summary, Shutdown, MainOnly, sharedVars, statVars,
         memoryVars, appVars
<1>2. BenchTypeOK'
  <2>1. initialized' \in BOOLEAN
    <3>1. initialized' = initialized \/ initialized' = FALSE
      BY DEF Spawned, JoinAll, Summary, Shutdown
    <3> QED BY <1>0, <3>1, Zenon DEF BenchTypeOK
  <2>2. /\ main' \in MainPositions /\ live' \subseteq Parts
        /\ code' \in -1 .. 2
    BY <1>0
    DEF Spawned, JoinAll, Summary, Shutdown, MainStep, BenchTypeOK,
        MainPositions
  <2> QED BY <1>0, <1>1, <2>1, <2>2 DEF BenchTypeOK, MainOnly
<1>3. UNCHANGED <<wpc, puts, uploaded, ready, failed, next>>
  BY <1>1 DEF MainOnly
<1>4. CASE Spawned
  <2>1. /\ main = "spawn" /\ main' = "join"
        /\ UNCHANGED <<code, live, initialized>>
    BY <1>4 DEF Spawned, MainStep
  <2>2. Lifetimes'
    BY <1>0, <1>1, <1>3, <2>1 DEF Lifetimes, Crew
  <2>3. Reported'
    BY <1>0, <1>1, <1>3, <2>1 DEF Reported, ReportComplete
  <2> QED BY <1>1, <1>2, <2>2, <2>3, MainOnlyKeeps
<1>5. CASE JoinAll
  <2>1. /\ main = "join" /\ main' = "summary"
        /\ \A w \in Crew : wpc[w] \in Over
        /\ UNCHANGED <<code, live, initialized>>
    BY <1>5 DEF JoinAll, MainStep
  <2>2. \A w \in Threads : wpc[w] \in Over \cup {"absent"}
    BY <1>0, <2>1 DEF Lifetimes
  <2>3. Lifetimes'
    BY <1>0, <1>1, <1>3, <2>1, <2>2 DEF Lifetimes, Crew
  <2>4. Reported'
    BY <1>0, <1>1, <1>3, <2>1 DEF Reported, ReportComplete
  <2> QED BY <1>1, <1>2, <2>3, <2>4, MainOnlyKeeps
<1>6. CASE Summary
  <2>1. /\ main = "summary" /\ main' = "shutdown"
        /\ code' = IF ready = {} THEN 1
                   ELSE IF failed \cap ready = {} THEN 0 ELSE 2
        /\ UNCHANGED <<live, initialized>>
    BY <1>6 DEF Summary, MainStep
  <2>2. Lifetimes'
    BY <1>0, <1>1, <1>3, <2>1 DEF Lifetimes, Crew
  <2>3. \A w \in Threads : wpc[w] \in Over \cup {"absent"}
    BY <1>0, <2>1 DEF Lifetimes
  <2>4. ReportComplete'
    BY <1>1, <1>3, <2>1, <2>3, JoinedComplete DEF ReportComplete
  <2>5. Reported'
    BY <2>1, <2>4 DEF Reported
  <2> QED BY <1>1, <1>2, <2>2, <2>5, MainOnlyKeeps
<1>7. CASE Shutdown
  <2>1. main = "shutdown" /\ main' = "exit" /\ code' = code
    BY <1>7 DEF Shutdown, MainStep
  <2>2. Lifetimes'
    BY <1>0, <1>1, <1>3, <2>1 DEF Lifetimes, Crew
  <2>3. Reported'
    BY <1>0, <1>1, <1>3, <2>1 DEF Reported, ReportComplete
  <2> QED BY <1>1, <1>2, <2>2, <2>3, MainOnlyKeeps
<1> QED BY <1>4, <1>5, <1>6, <1>7

LEMMA ExitKeeps ==
  ASSUME BenchInv, Exit
  PROVE  /\ BenchTypeOK' /\ Lifetimes' /\ BuffersOwned'
         /\ ObjectsClaimed' /\ OutcomesCounted' /\ Reported'
<1>1. /\ main = "exit" /\ main' = "gone"
      /\ UNCHANGED <<args, code, live, initialized, next, wpc, dev, idx, ready,
                     failed, puts, uploaded, memory, unsettled, mpc, ptr>>
  BY DEF Exit, MainStep, Destroy, sharedVars, statVars, callVars, viewVars
<1>2. BenchTypeOK'
  BY <1>1 DEF BenchInv, BenchTypeOK, MainPositions
<1>3. Lifetimes'
  BY <1>1 DEF BenchInv, Lifetimes, Crew
<1>4. BuffersOwned'
  BY <1>1 DEF BenchInv, BuffersOwned
<1>5. ObjectsClaimed'
  BY <1>1 DEF BenchInv, ObjectsClaimed
<1>6. OutcomesCounted'
  BY <1>1 DEF BenchInv, OutcomesCounted
<1>7. Reported'
  BY <1>1 DEF BenchInv, Reported, ReportComplete
<1> QED BY <1>2, <1>3, <1>4, <1>5, <1>6, <1>7

LEMMA MainKeeps ==
  ASSUME BenchInv, Main
  PROVE  BenchInv'
<1>1. [BenchNext]_benchAllVars
  BY DEF BenchNext
<1>2. MemoryInv'
  BY <1>1, BenchStepIsMemoryStep, MemoryStep DEF BenchInv
<1>3. /\ BenchTypeOK' /\ Lifetimes' /\ BuffersOwned'
      /\ ObjectsClaimed' /\ OutcomesCounted' /\ Reported'
  BY ParseKeeps, InitializeKeeps, SpawnKeeps, JoinKeeps, ExitKeeps DEF Main
<1> QED BY <1>2, <1>3 DEF BenchInv

-----------------------------------------------------------------------------
(* The theorems *)

LEMMA BenchInitial == BenchInit => BenchInv
<1> SUFFICES ASSUME BenchInit PROVE BenchInv
  OBVIOUS
<1>1. MemoryInv
  BY MemoryInitial DEF BenchInit
<1>2. args.count = 0 /\ args.size = 0 /\ args \in Args
  BY MemoryAssumption, BenchAssumption DEF BenchInit, Args
<1>3. BenchTypeOK
  <2>1. dev \in [Threads -> Buffers]
    BY DEF BenchInit, MemoryInit
  <2>2. initialized \in BOOLEAN
    BY Zenon DEF BenchInit
  <2>3. /\ wpc \in [Threads -> Positions] /\ idx \in [Threads -> Nat]
        /\ puts \in [Objects -> Nat]
    BY DEF BenchInit, Positions
  <2> QED BY <1>2, <2>1, <2>2, <2>3 DEF BenchInit, BenchTypeOK, MainPositions
<1>4. Lifetimes
  BY DEF BenchInit, MemoryInit, Lifetimes, Over
<1>5. BuffersOwned
  BY DEF BenchInit, MemoryInit, BuffersOwned, Holding, Using, Putting
<1>6. ObjectsClaimed
  <2>1. 0 .. args.count - 1 = {}
    BY <1>2
  <2> QED BY <2>1 DEF BenchInit, ObjectsClaimed
<1>7. OutcomesCounted
  <2>1. 0 .. args.count - 1 = {}
    BY <1>2
  <2> QED BY <2>1 DEF BenchInit, OutcomesCounted, Using, Putting
<1>8. Reported
  BY <1>2 DEF BenchInit, Reported, ReportComplete
<1> QED BY <1>1, <1>3, <1>4, <1>5, <1>6, <1>7, <1>8 DEF BenchInv

LEMMA BenchStep ==
  ASSUME BenchInv, [BenchNext]_benchAllVars
  PROVE  BenchInv'
<1>1. CASE UNCHANGED benchAllVars
  <2>1. MemoryInv'
    BY <1>1, MemoryStep DEF BenchInv, benchAllVars
  <2>2. MainOnly /\ UNCHANGED <<main, args, code, live, initialized>>
    BY <1>1
    DEF benchAllVars, benchVars, mainVars, sharedVars, statVars, MainOnly
  <2>3. alive' = alive /\ memory' = memory
    BY <1>1 DEF benchAllVars, memoryVars, appVars
  <2>4. BenchTypeOK' /\ Lifetimes' /\ Reported'
    BY <2>2, <2>3
    DEF BenchInv, BenchTypeOK, Lifetimes, Crew, Reported, ReportComplete,
        MainOnly
  <2> QED BY <2>1, <2>2, <2>4, MainOnlyKeeps DEF BenchInv
<1> QED BY <1>1, WorkerKeeps, MainKeeps DEF BenchNext

\* The inductive invariant of the benchmark and the registry in it.
THEOREM BenchInvariant == BenchSpec => []BenchInv
BY BenchInitial, BenchStep, PTL DEF BenchSpec

\* The workers are an application as gds_memory_manager.h wants it, for every
\* number of them: each passes its whole buffer, and unregisters it before
\* cudaFree and not during an upload.
THEOREM BenchUsesManager == BenchSpec => UsesManager
<1>1. BenchInv /\ [BenchNext]_benchAllVars => [MemoryNext]_memoryVars
  BY BenchStepIsMemoryStep
<1> QED BY <1>1, BenchInvariant, PTL DEF BenchSpec, UsesManager

\* So the benchmark implements the specification of the registry, and what is
\* proved of that holds in it.
THEOREM BenchImplementsManager == BenchSpec => MemorySpec
<1>1. BenchInit => MemoryInit
  BY DEF BenchInit
<1> QED BY <1>1, BenchUsesManager, PTL DEF BenchSpec, MemorySpec, UsesManager

\* client.cpp: no PutObject meets a client that Shutdown has taken apart, nor
\* a registry that is destroyed; main joins every worker first.
THEOREM CallsFindTheClient == BenchSpec => []ClientOutlivesCalls
<1>1. BenchInv => ClientOutlivesCalls
  <2> SUFFICES ASSUME BenchInv, NEW w \in Threads, mpc[w] # "idle"
               PROVE  initialized /\ live = Parts /\ alive
    BY DEF ClientOutlivesCalls
  <2>1. wpc[w] \in Putting
    BY DEF BenchInv, BuffersOwned
  <2>2. main \in {"spawn", "join"}
    BY <2>1 DEF BenchInv, Lifetimes, Putting, Over
  <2> QED BY <2>2 DEF BenchInv, Lifetimes
<1> QED BY <1>1, BenchInvariant, PTL

\* main's summary: an exit code other than 1 means that every object was
\* uploaded once, 0 that each upload succeeded, and that no buffer is left.
THEOREM ReportIsTrue == BenchSpec => []ReportComplete
<1>1. BenchInv => ReportComplete
  BY DEF BenchInv, Reported
<1> QED BY <1>1, BenchInvariant, PTL

\* When the last worker is joined, registered_ has no entry, so that the static
\* manager's destructor finds nothing to do, and cuObject has no descriptor left
\* of any buffer but those that cuMemObjPutDescriptor has failed for.
THEOREM JoinedIsUnpinned ==
  BenchSpec => [](main \in {"summary", "shutdown", "exit"} =>
                    \A b \in Buffers : /\ registered[b] = 0
                                       /\ b \notin leaked => pins[b] = 0)
<1>1. BenchInv =>
        (main \in {"summary", "shutdown", "exit"} =>
           \A b \in Buffers : /\ registered[b] = 0
                              /\ b \notin leaked => pins[b] = 0)
  <2> SUFFICES ASSUME BenchInv, main \in {"summary", "shutdown", "exit"},
                      NEW b \in Buffers
               PROVE  registered[b] = 0 /\ (b \notin leaked => pins[b] = 0)
    OBVIOUS
  <2>1. \A w \in Threads : wpc[w] \in Over \cup {"absent"}
    BY DEF BenchInv, Lifetimes
  <2>2. memory[b] = 0
    BY <2>1, JoinedComplete
  <2>3. registered[b] = 0
    BY <2>2 DEF BenchInv, MemoryInv, EntryKnown, MemoryHeld
  <2> QED BY <2>2, <2>3 DEF BenchInv, MemoryInv, RegistryAgrees
<1> QED BY <1>1, BenchInvariant, PTL

\* No call has lost its registration.
NoneDropped == dropped = {}

\* UnregisterBuffer takes the pin from under a transfer if the application lets
\* it; each worker unregisters its own buffer, between its own uploads, so in
\* the benchmark every transfer runs over pinned memory.
THEOREM UploadsArePinned ==
  BenchSpec => [](\A t \in Threads :
                    mpc[t] = "transfer" =>
                      pins[ptr[t]] > 0 /\ pinned[ptr[t]] >= size[t])
<1>1. BenchInit => NoneDropped
  BY DEF BenchInit, MemoryInit, NoneDropped
<1>2. BenchInv /\ NoneDropped /\ [BenchNext]_benchAllVars => NoneDropped'
  <2> SUFFICES ASSUME BenchInv, dropped = {}, [BenchNext]_benchAllVars
               PROVE  dropped' = {}
    BY DEF NoneDropped
  <2>1. ASSUME NEW w \in Threads, UnregisterDeviceBuffer(w)
        PROVE  dropped' = {}
    <3>1. wpc[w] \in Holding /\ wpc[w] \notin Putting
      BY <2>1 DEF UnregisterDeviceBuffer, Step, Holding, Using, Putting
    <3>2. ~InUse(dev[w])
      BY <3>1, OwnBuffer
    <3>3. Relying(dev[w]) = {}
      BY <3>2 DEF Relying, InUse
    <3>4. dropped' = dropped \cup Relying(dev[w])
      BY <2>1 DEF UnregisterDeviceBuffer, UnregisterBuffer, UnregisterFails,
                  Unregistered
    <3> QED BY <3>3, <3>4
  <2>2. ASSUME NEW w \in Threads, Worker(w), ~UnregisterDeviceBuffer(w)
        PROVE  dropped' = {}
    BY <2>2
    DEF Worker, CudaMalloc, CudaMallocFails, CudaMemcpy, CudaMemcpyFails,
        RegisterDeviceBuffer, RegisterDeviceBufferFails, CudaFree, Warmup,
        Arrive, Pass, Claim, Upload, InPut, DoPut, Malloc, Free,
        RegisterBuffer, RegisterFails, PutObject, Put, Acquire, Find,
        LazyRegister, GetRDMAToken, AcquireFails, EndAttempt, Retry, Return,
        PutStep, memoryVars, callVars
  <2>3. ASSUME Main PROVE dropped' = {}
    BY <2>3
    DEF Main, ParseArgs, NoRun, Initialize, Spawn, Spawned, JoinAll, Summary,
        Shutdown, Exit, Destroy, memoryVars, callVars
  <2>4. UNCHANGED benchAllVars => dropped' = {}
    BY DEF benchAllVars, memoryVars, callVars
  <2> QED BY <2>1, <2>2, <2>3, <2>4 DEF BenchNext
<1>3. BenchInv /\ NoneDropped =>
        \A t \in Threads :
          mpc[t] = "transfer" => pins[ptr[t]] > 0 /\ pinned[ptr[t]] >= size[t]
  BY MemoryInvImplies DEF BenchInv, TokenCovered, NoneDropped
<1> QED BY <1>1, <1>2, <1>3, BenchInvariant, PTL DEF BenchSpec

-----------------------------------------------------------------------------
(* The barrier *)

\* Where a worker is once the barrier has let it go, or once it has arrived.
Released == {"loop", "claimed", "put", "unregister", "free", "done"}
AtBarrier == {"waiting"} \cup Released

SomeoneGaveUp == \E w \in Threads : wpc[w] = "gave_up"

\* The barrier opens when the whole crew has arrived, and lets nobody go
\* before; no object is claimed as long as it is closed.
BarrierKept ==
  /\ arrived = {w \in Threads : wpc[w] \in AtBarrier}
  /\ started <=> arrived = Crew /\ Crew # {}
  /\ ~started => next = 0
  /\ \A w \in Threads : wpc[w] \in Released => started /\ w \in ready
  /\ main \in {"initialize", "spawn", "join", "summary"} => Crew # {}
  /\ main \in {"join", "summary"} => \A w \in Crew : wpc[w] # "absent"

BarrierInv == BenchInv /\ BarrierKept

\* A step that stays on its side of the barrier, or is let go by it.
LEMMA SideOfBarrier ==
  ASSUME BarrierInv, NEW w \in Threads, NEW to,
         wpc' = [wpc EXCEPT ![w] = to], to # "absent",
         wpc[w] \in AtBarrier <=> to \in AtBarrier,
         to \in Released => started /\ w \in ready,
         ready \subseteq ready', started \/ next' = next,
         UNCHANGED <<main, args, arrived, started>>
  PROVE  BarrierKept'
<1>1. wpc \in [Threads -> Positions]
  BY DEF BarrierInv, BenchInv, BenchTypeOK
<1>2. \A v \in Threads : wpc'[v] = IF v = w THEN to ELSE wpc[v]
  BY <1>1
<1>3. \A v \in Threads : wpc'[v] \in AtBarrier <=> wpc[v] \in AtBarrier
  BY <1>2
<1>4. arrived' = {v \in Threads : wpc'[v] \in AtBarrier}
  BY <1>3 DEF BarrierInv, BarrierKept
<1>5. \A v \in Threads : wpc'[v] \in Released => started' /\ v \in ready'
  BY <1>2 DEF BarrierInv, BarrierKept
<1>6. Crew' = Crew /\ \A v \in Crew : v \in Threads
  BY DEF Crew, BarrierInv, BenchInv, BenchTypeOK, Args
<1>7. main' \in {"join", "summary"} => \A v \in Crew : wpc'[v] # "absent"
  BY <1>2, <1>6 DEF BarrierInv, BarrierKept
<1> QED BY <1>4, <1>5, <1>6, <1>7 DEF BarrierInv, BarrierKept

\* The last to arrive opens the barrier; those before it leave it closed.
LEMMA ArriveKeeps ==
  ASSUME BarrierInv, NEW w \in Threads, Arrive(w)
  PROVE  BarrierKept'
<1>1. /\ wpc[w] = "warmup" /\ wpc' = [wpc EXCEPT ![w] = "waiting"]
      /\ arrived' = arrived \cup {w}
      /\ started' = (arrived' = Crew)
      /\ UNCHANGED <<main, args, next, ready>>
  BY DEF Arrive, Step, mainVars, statVars
<1>2. wpc \in [Threads -> Positions]
  BY DEF BarrierInv, BenchInv, BenchTypeOK
<1>3. \A v \in Threads : wpc'[v] = IF v = w THEN "waiting" ELSE wpc[v]
  BY <1>1, <1>2
<1>4. w \in Crew /\ Crew' = Crew
  BY <1>1 DEF BarrierInv, BenchInv, Lifetimes, Crew
<1>5. w \notin arrived
  BY <1>1 DEF BarrierInv, BarrierKept, AtBarrier, Released
<1>6. ~started
  BY <1>4, <1>5 DEF BarrierInv, BarrierKept
<1>7. started' <=> arrived' = Crew'
  BY <1>1, <1>4
<1>8. arrived' = {v \in Threads : wpc'[v] \in AtBarrier}
  BY <1>1, <1>3 DEF BarrierInv, BarrierKept, AtBarrier
<1>9. \A v \in Threads : wpc'[v] \notin Released
  BY <1>3, <1>6 DEF BarrierInv, BarrierKept, Released
<1>10. next' = 0
  BY <1>1, <1>6 DEF BarrierInv, BarrierKept
<1>11. \A v \in Crew : v \in Threads
  BY DEF Crew, BarrierInv, BenchInv, BenchTypeOK, Args
<1>12. main' \in {"join", "summary"} => \A v \in Crew : wpc'[v] # "absent"
  BY <1>1, <1>3, <1>11 DEF BarrierInv, BarrierKept
<1>13. main' \in {"initialize", "spawn", "join", "summary"} => Crew # {}
  BY <1>4
<1> QED BY <1>4, <1>7, <1>8, <1>9, <1>10, <1>12, <1>13 DEF BarrierKept

LEMMA WorkerKeepsBarrier ==
  ASSUME BarrierInv, NEW w \in Threads, Worker(w)
  PROVE  BarrierKept'
<1>0. wpc \in [Threads -> Positions]
  BY DEF BarrierInv, BenchInv, BenchTypeOK
<1>1. CASE \/ \E b \in Buffers : CudaMalloc(w, b)
           \/ CudaMallocFails(w) \/ CudaMemcpy(w) \/ CudaMemcpyFails(w)
           \/ RegisterDeviceBuffer(w) \/ RegisterDeviceBufferFails(w)
           \/ Warmup(w)
  <2>1. PICK to \in {"gave_up", "memcpy", "register", "clean_up", "warmup",
                     "warmup_put"} : wpc' = [wpc EXCEPT ![w] = to]
    BY <1>1
    DEF CudaMalloc, CudaMallocFails, CudaMemcpy, CudaMemcpyFails,
        RegisterDeviceBuffer, RegisterDeviceBufferFails, Warmup, Step
  <2>2. /\ wpc[w] \notin AtBarrier /\ ready \subseteq ready'
        /\ UNCHANGED <<main, args, arrived, started, next>>
    BY <1>1
    DEF CudaMalloc, CudaMallocFails, CudaMemcpy, CudaMemcpyFails,
        RegisterDeviceBuffer, RegisterDeviceBufferFails, Warmup, Step,
        mainVars, sharedVars, statVars, AtBarrier, Released
  <2> QED BY <2>1, <2>2, SideOfBarrier DEF AtBarrier, Released
<1>2. CASE InPut(w)
  <2>1. UNCHANGED <<wpc, main, args, arrived, started, ready, next>>
    BY <1>2 DEF InPut, benchVars, mainVars, sharedVars, statVars
  <2> QED BY <2>1 DEF BarrierInv, BarrierKept, Crew
<1>3. CASE Pass(w)
  <2>1. /\ wpc[w] = "waiting" /\ wpc' = [wpc EXCEPT ![w] = "loop"]
        /\ started
        /\ UNCHANGED <<main, args, arrived, started, ready, next>>
    BY <1>3 DEF Pass, Step, mainVars, sharedVars, statVars
  <2>2. w \in ready
    BY <2>1 DEF BarrierInv, BenchInv, OutcomesCounted, Using
  <2> QED BY <2>1, <2>2, SideOfBarrier DEF AtBarrier, Released
<1>4. CASE \/ Claim(w) \/ Upload(w) \/ UnregisterDeviceBuffer(w)
           \/ (DoPut(w) /\ wpc[w] = "put") \/ (CudaFree(w) /\ wpc[w] = "free")
  <2>1. PICK to \in Released : wpc' = [wpc EXCEPT ![w] = to]
    BY <1>4
    DEF Claim, Upload, UnregisterDeviceBuffer, DoPut, CudaFree, Step,
        Released
  <2>2. /\ wpc[w] \in Released
        /\ UNCHANGED <<main, args, arrived, started, ready>>
    BY <1>4
    DEF Claim, Upload, UnregisterDeviceBuffer, DoPut, CudaFree, Step,
        mainVars, sharedVars, statVars, Released
  <2>3. started /\ w \in ready
    BY <2>2 DEF BarrierInv, BarrierKept
  <2> QED BY <2>1, <2>2, <2>3, SideOfBarrier DEF AtBarrier, Released
<1>5. CASE \/ (DoPut(w) /\ wpc[w] = "warmup_put")
           \/ (CudaFree(w) /\ wpc[w] = "clean_up")
  <2>1. PICK to \in {"warmup", "gave_up"} : wpc' = [wpc EXCEPT ![w] = to]
    BY <1>5 DEF DoPut, CudaFree, Step
  <2>2. /\ wpc[w] \notin AtBarrier
        /\ UNCHANGED <<main, args, arrived, started, ready, next>>
    BY <1>5
    DEF DoPut, CudaFree, Step, mainVars, sharedVars, statVars, AtBarrier,
        Released
  <2> QED BY <2>1, <2>2, SideOfBarrier DEF AtBarrier, Released
<1>6. /\ DoPut(w) => wpc[w] \in {"warmup_put", "put"}
      /\ CudaFree(w) => wpc[w] \in {"free", "clean_up"}
  BY DEF DoPut, CudaFree, Step
<1> QED BY <1>1, <1>2, <1>3, <1>4, <1>5, <1>6, ArriveKeeps DEF Worker

LEMMA MainKeepsBarrier ==
  ASSUME BarrierInv, Main
  PROVE  BarrierKept'
<1>0. BenchInv /\ BarrierKept
  BY DEF BarrierInv
<1>1. CASE \/ \E a \in Args : ParseArgs(a)
           \/ NoRun(0) \/ NoRun(1)
  <2>1. /\ main = "parse" /\ main' \in {"initialize", "exit"}
        /\ main' = "initialize" => args'.crew # {}
        /\ UNCHANGED <<wpc, arrived, started, next, ready>>
    BY <1>1 DEF ParseArgs, NoRun, MainStep, sharedVars, statVars
  <2>2. \A w \in Threads : wpc[w] = "absent"
    BY <1>0, <2>1, NothingBegun
  <2>3. arrived = {}
    BY <1>0, <2>2 DEF BarrierKept, AtBarrier, Released
  <2>4. ~started /\ next = 0
    BY <1>0, <2>3 DEF BarrierKept
  <2>5. ~(arrived' = Crew' /\ Crew' # {})
    BY <2>1, <2>3
  <2>6. main' = "initialize" => Crew' # {}
    BY <2>1 DEF Crew
  <2>7. \A w \in Threads : wpc'[w] \notin AtBarrier
    BY <2>1, <2>2 DEF AtBarrier, Released
  <2> QED BY <2>1, <2>3, <2>4, <2>5, <2>6, <2>7 DEF BarrierKept, AtBarrier
<1>2. CASE \E w \in Threads : Spawn(w)
  <2>1. PICK w \in Threads : Spawn(w)
    BY <1>2
  <2>2. /\ wpc[w] = "absent" /\ wpc' = [wpc EXCEPT ![w] = "malloc"]
        /\ UNCHANGED <<main, args, arrived, started, ready, next>>
    BY <2>1 DEF Spawn, Step, mainVars, sharedVars, statVars
  <2> QED BY <2>2, SideOfBarrier DEF AtBarrier, Released
<1>3. CASE \/ Spawned \/ JoinAll \/ Summary \/ Shutdown \/ Exit
           \/ \E broken \in {{}} \cup {{part} : part \in Parts} :
                Initialize(broken)
  <2>1. UNCHANGED <<args, wpc, arrived, started, ready, next>>
    BY <1>3
    DEF Spawned, JoinAll, Summary, Shutdown, Exit, Initialize, sharedVars,
        statVars
  <2>2. /\ main' \in {"initialize", "spawn", "join", "summary"} =>
             main \in {"initialize", "spawn", "join"}
        /\ main' \in {"join", "summary"} =>
             main = "join" \/ \A w \in Crew : wpc[w] # "absent"
    BY <1>3
    DEF Spawned, JoinAll, Summary, Shutdown, Exit, Initialize, MainStep
  <2> QED BY <1>0, <2>1, <2>2 DEF BarrierKept, Crew
<1> QED BY <1>1, <1>2, <1>3 DEF Main

\* The barrier's invariant, next to that of the rest of the benchmark.
THEOREM BarrierInvariant == BenchSpec => []BarrierInv
<1>1. BenchInit => BarrierKept
  BY DEF BenchInit, BarrierKept, Crew, AtBarrier, Released
<1>2. BarrierInv /\ [BenchNext]_benchAllVars => BarrierInv'
  <2> SUFFICES ASSUME BarrierInv, [BenchNext]_benchAllVars PROVE BarrierInv'
    OBVIOUS
  <2>1. BenchInv'
    BY BenchStep DEF BarrierInv
  <2>2. CASE UNCHANGED benchAllVars
    <3>1. UNCHANGED <<wpc, main, args, arrived, started, ready, next>>
      BY <2>2 DEF benchAllVars, benchVars, mainVars, sharedVars, statVars
    <3> QED BY <2>1, <3>1 DEF BarrierInv, BarrierKept, Crew
  <2> QED BY <2>1, <2>2, WorkerKeepsBarrier, MainKeepsBarrier
          DEF BenchNext, BarrierInv
<1> QED BY <1>1, <1>2, BenchInitial, PTL DEF BenchSpec, BarrierInv

\* sync.arrive_and_wait: a worker is kept waiting only by a member of the crew
\* that has yet to arrive or has given up, never by workers that wait for it.
THEOREM WaitersWaitForSomeone ==
  BenchSpec =>
    [](\A w \in Threads :
         wpc[w] = "waiting" /\ ~started =>
           \E v \in Crew : wpc[v] \notin AtBarrier)
<1>1. BarrierInv =>
        \A w \in Threads :
          wpc[w] = "waiting" /\ ~started =>
            \E v \in Crew : wpc[v] \notin AtBarrier
  <2> SUFFICES ASSUME BarrierInv, NEW w \in Threads, wpc[w] = "waiting",
                      \A v \in Crew : wpc[v] \in AtBarrier
               PROVE  started
    OBVIOUS
  <2>1. w \in Crew
    BY DEF BarrierInv, BenchInv, Lifetimes
  <2>2. \A v \in Threads : wpc[v] \in AtBarrier => v \in Crew
    BY DEF BarrierInv, BenchInv, Lifetimes, AtBarrier, Released
  <2>3. Crew \subseteq Threads
    BY DEF Crew, BarrierInv, BenchInv, BenchTypeOK, Args
  <2> QED BY <2>1, <2>2, <2>3 DEF BarrierInv, BarrierKept
<1> QED BY <1>1, BarrierInvariant, PTL

\* A worker that gives up has not arrived and never will: from then on the
\* barrier stays closed for good, so that no object is ever uploaded and a
\* worker that waits at it is not let go.
THEOREM GivingUpClosesBarrier ==
  BenchSpec => [](SomeoneGaveUp => [](~started /\ next = 0))
<1>1. BarrierInv /\ SomeoneGaveUp => ~started /\ next = 0
  <2> SUFFICES ASSUME BarrierInv, NEW w \in Threads, wpc[w] = "gave_up"
               PROVE  ~started /\ next = 0
    BY DEF SomeoneGaveUp
  <2>1. w \in Crew /\ w \notin arrived
    BY DEF BarrierInv, BarrierKept, BenchInv, Lifetimes, AtBarrier, Released
  <2> QED BY <2>1 DEF BarrierInv, BarrierKept
<1>2. BarrierInv /\ SomeoneGaveUp /\ [BenchNext]_benchAllVars
        => SomeoneGaveUp'
  <2> SUFFICES ASSUME BarrierInv, NEW w \in Threads, wpc[w] = "gave_up",
                      [BenchNext]_benchAllVars
               PROVE  wpc'[w] = "gave_up"
    BY DEF SomeoneGaveUp
  <2>0. BenchInv /\ wpc \in [Threads -> Positions]
    BY DEF BarrierInv, BenchInv, BenchTypeOK
  <2>1. ASSUME NEW v \in Threads, Worker(v) PROVE wpc'[w] = "gave_up"
    <3>1. wpc[v] \notin Over
      BY <2>0, <2>1, WorkerMoves
    <3>2. v # w
      BY <3>1 DEF Over
    <3>3. PICK to \in Positions : wpc' = [wpc EXCEPT ![v] = to]
      BY <2>0, <2>1, WorkerMoves
    <3> QED BY <2>0, <3>2, <3>3
  <2>2. ASSUME Main PROVE wpc'[w] = "gave_up"
    <3>1. wpc' = wpc \/ \E v \in Threads : Spawn(v)
      BY <2>2
      DEF Main, ParseArgs, NoRun, Initialize, Spawned, JoinAll, Summary,
          Shutdown, Exit
    <3>2. ASSUME NEW v \in Threads, Spawn(v) PROVE wpc'[w] = "gave_up"
      BY <2>0, <3>2 DEF Spawn, Step
    <3> QED BY <3>1, <3>2
  <2>3. UNCHANGED benchAllVars => wpc'[w] = "gave_up"
    BY DEF benchAllVars, benchVars
  <2> QED BY <2>1, <2>2, <2>3 DEF BenchNext
<1> QED BY <1>1, <1>2, BarrierInvariant, PTL DEF BenchSpec

\* The summary distinguishes workers that were ready from others that were not,
\* but when main comes to it either all were or none: with both kinds the
\* workers that were ready are at the barrier for good.
THEOREM AllOrNoneReady ==
  BenchSpec => [](main = "summary" => ready = {} \/ ready = Crew)
<1>1. BarrierInv => (main = "summary" => ready = {} \/ ready = Crew)
  <2> SUFFICES ASSUME BarrierInv, main = "summary", NEW w \in ready
               PROVE  ready = Crew
    OBVIOUS
  <2>0. Crew \subseteq Threads /\ ready \subseteq Threads
    BY DEF Crew, BarrierInv, BenchInv, BenchTypeOK, Args
  <2>1. \A v \in Threads : wpc[v] \in Over \cup {"absent"}
    BY DEF BarrierInv, BenchInv, Lifetimes
  <2>2. \A v \in ready : wpc[v] = "done"
    BY <2>0, <2>1
    DEF BarrierInv, BenchInv, OutcomesCounted, Over, Using, Putting
  <2>3. \A v \in ready : v \in Crew
    BY <2>0, <2>2 DEF BarrierInv, BenchInv, Lifetimes
  <2>4. arrived = Crew
    BY <2>0, <2>2 DEF BarrierInv, BarrierKept, Released
  <2>5. \A v \in Crew : wpc[v] = "done"
    BY <2>0, <2>1, <2>4
    DEF BarrierInv, BarrierKept, AtBarrier, Released, Over
  <2>6. \A v \in Crew : v \in ready
    BY <2>0, <2>5 DEF BarrierInv, BarrierKept, Released
  <2> QED BY <2>3, <2>6
<1> QED BY <1>1, BarrierInvariant, PTL
=============================================================================
