------------------------------ MODULE GdsBench ------------------------------
(***************************************************************************)
(* The benchmark, examples/gds/gds_bench_example.cpp: main and its worker  *)
(* threads share one Client (client/src/client.cpp) and its                *)
(* GdsMemoryManager; each worker uploads from a device buffer of its own.  *)
(*                                                                         *)
(* The steps of PutObject, of the registry and of cuObject are those of    *)
(* GdsMemoryManager; a worker runs them from do_put.                       *)
(***************************************************************************)
EXTENDS GdsMemoryManager

CONSTANTS
  MaxCount,   \* bound: the largest --count
  MaxWarmup   \* bound: the largest --warmup

ASSUME BenchAssumption == MaxCount \in Nat \ {0} /\ MaxWarmup \in Nat

VARIABLES
  main,        \* where main is
  args,        \* Args; the crew are the threads --concurrency asks for
  code,        \* what main returns, -1 before
  live,        \* the parts of Client that exist: meta_, chunk_, gds_mgr_
  initialized, \* initialized_
  next,        \* the next object to upload
  arrived,     \* the workers that have come to the barrier
  started,     \* its completion has stored the start
  wpc,         \* where each worker is
  dev,         \* its device buffer
  idx,         \* the warm-up or the object it is at
  ready,       \* workers with stats.ready set
  failed,      \* workers with stats.fail above 0
  puts,        \* how many workers have uploaded each object (history)
  uploaded     \* the objects of which PutObject has returned true (history)

mainVars == <<main, args, code, live, initialized>>
sharedVars == <<next, arrived, started>>
statVars == <<ready, failed, puts, uploaded>>
benchVars == <<mainVars, sharedVars, wpc, dev, idx, statVars>>
benchAllVars == <<benchVars, memoryVars>>

Parts == {"meta", "chunk", "gds_mgr"}
Args == [size : 0 .. MaxSize, count : 0 .. MaxCount, warmup : 0 .. MaxWarmup,
         crew : SUBSET Threads]
Objects == 0 .. MaxCount - 1
Crew == args.crew
Over == {"done", "gave_up"}

BenchInit ==
  /\ MemoryInit
  /\ main = "parse"
  /\ args = [size |-> 0, count |-> 0, warmup |-> 0, crew |-> {}]
  /\ code = -1
  /\ live = {} /\ initialized = FALSE
  /\ next = 0 /\ arrived = {} /\ started = FALSE
  /\ wpc = [w \in Threads |-> "absent"]
  /\ dev = ptr
  /\ idx = [w \in Threads |-> 0]
  /\ ready = {} /\ failed = {}
  /\ puts = [i \in Objects |-> 0]
  /\ uploaded = {}

\* main and a worker at their place in the code.
MainStep(from, to) == main = from /\ main' = to
Step(w, from, to) ==
  /\ wpc[w] = from
  /\ wpc' = [wpc EXCEPT ![w] = to]
  /\ UNCHANGED mainVars

-----------------------------------------------------------------------------
(* Variants of operations below with a plausible mistake in them.  The     *)
(* specification does not use them; they show that the properties notice.  *)

\* main does not wait for a thread that has passed the barrier.
JoinStarted ==
  /\ MainStep("join", "summary")
  /\ started \/ \A w \in Crew : wpc[w] \in Over
  /\ UNCHANGED <<args, code, live, initialized, sharedVars, wpc, dev, idx,
                 statVars, memoryVars>>

\* A load and a store in place of fetch_add: an update can be lost.
ClaimTorn(w) ==
  /\ Step(w, "loop", IF next < args.count THEN "claimed" ELSE "unregister")
  /\ idx' = [idx EXCEPT ![w] = next]
  /\ \/ next' = next + 1
     \/ next' = next /\ \E v \in Crew \ {w} : wpc[v] = "loop"
  /\ UNCHANGED <<arrived, started, dev, statVars, memoryVars>>

\* The worker frees its buffer and leaves it registered.
UnregisterSkipped(w) ==
  /\ Step(w, "unregister", "free")
  /\ UNCHANGED <<sharedVars, dev, idx, statVars, memoryVars>>

\* The barrier counts main, which never arrives.
ArriveWithMain(w) ==
  /\ idx[w] = args.warmup
  /\ Step(w, "warmup", "waiting")
  /\ arrived' = arrived \cup {w}
  /\ UNCHANGED <<next, started, dev, idx, statVars, memoryVars>>

-----------------------------------------------------------------------------
(* Worker: the device buffer *)
CudaMalloc(w, b) ==
  /\ Step(w, "malloc", "memcpy")
  /\ Malloc(b, args.size)
  /\ dev' = [dev EXCEPT ![w] = b]
  /\ UNCHANGED <<sharedVars, idx, statVars>>

CudaMallocFails(w) ==
  /\ Step(w, "malloc", "gave_up")
  /\ UNCHANGED <<sharedVars, dev, idx, statVars, memoryVars>>

CudaMemcpy(w) ==
  /\ Step(w, "memcpy", "register")
  /\ UNCHANGED <<sharedVars, dev, idx, statVars, memoryVars>>

CudaMemcpyFails(w) ==
  /\ Step(w, "memcpy", "clean_up")
  /\ UNCHANGED <<sharedVars, dev, idx, statVars, memoryVars>>

RegisterDeviceBuffer(w) ==
  /\ Step(w, "register", "warmup")
  /\ RegisterBuffer(dev[w], args.size)
  /\ ready' = ready \cup {w}
  /\ UNCHANGED <<sharedVars, dev, idx, failed, puts, uploaded>>

RegisterDeviceBufferFails(w) ==
  /\ Step(w, "register", "clean_up")
  /\ RegisterFails(dev[w])
  /\ UNCHANGED <<sharedVars, dev, idx, statVars>>

\* What the call returns is ignored.
UnregisterDeviceBuffer(w) ==
  /\ Step(w, "unregister", "free")
  /\ UnregisterBuffer(dev[w]) \/ UnregisterFails(dev[w])
  /\ UNCHANGED <<sharedVars, dev, idx, statVars>>

CudaFree(w) ==
  /\ Step(w, "free", "done") \/ Step(w, "clean_up", "gave_up")
  /\ Free(dev[w])
  /\ UNCHANGED <<sharedVars, dev, idx, statVars>>

-----------------------------------------------------------------------------
(* Worker: the uploads *)
Warmup(w) ==
  /\ idx[w] < args.warmup
  /\ Step(w, "warmup", "warmup_put")
  /\ PutObject(w, dev[w], args.size)
  /\ UNCHANGED <<sharedVars, dev, idx, statVars>>

\* sync.arrive_and_wait: the last to arrive runs StartSetter.
Arrive(w) ==
  /\ idx[w] = args.warmup
  /\ Step(w, "warmup", "waiting")
  /\ arrived' = arrived \cup {w}
  /\ started' = (arrived' = Crew)
  /\ UNCHANGED <<next, dev, idx, statVars, memoryVars>>

Pass(w) ==
  /\ started
  /\ Step(w, "waiting", "loop")
  /\ UNCHANGED <<sharedVars, dev, idx, statVars, memoryVars>>

\* next.fetch_add
Claim(w) ==
  /\ Step(w, "loop", IF next < args.count THEN "claimed" ELSE "unregister")
  /\ idx' = [idx EXCEPT ![w] = next]
  /\ next' = next + 1
  /\ UNCHANGED <<arrived, started, dev, statVars, memoryVars>>

Upload(w) ==
  /\ Step(w, "claimed", "put")
  /\ PutObject(w, dev[w], args.size)
  /\ puts' = [puts EXCEPT ![idx[w]] = @ + 1]
  /\ UNCHANGED <<sharedVars, dev, idx, ready, failed, uploaded>>

\* PutObject at work.
InPut(w) == Put(w) /\ UNCHANGED benchVars

\* PutObject returns to do_put, which warm-ups use as well.
DoPut(w) ==
  LET ok == mpc[w] = "transfer" IN
  /\ Return(w)
  /\ failed' = IF ok THEN failed ELSE failed \cup {w}
  /\ \/ /\ Step(w, "warmup_put", "warmup")
        /\ idx' = [idx EXCEPT ![w] = @ + 1]
        /\ UNCHANGED uploaded
     \/ /\ Step(w, "put", "loop")
        /\ uploaded' = IF ok THEN uploaded \cup {idx[w]} ELSE uploaded
        /\ UNCHANGED idx
  /\ UNCHANGED <<sharedVars, dev, ready, puts>>

Worker(w) ==
  \/ \E b \in Buffers : CudaMalloc(w, b)
  \/ CudaMallocFails(w)
  \/ CudaMemcpy(w) \/ CudaMemcpyFails(w)
  \/ RegisterDeviceBuffer(w) \/ RegisterDeviceBufferFails(w)
  \/ Warmup(w) \/ Arrive(w) \/ Pass(w)
  \/ Claim(w) \/ Upload(w) \/ InPut(w) \/ DoPut(w)
  \/ UnregisterDeviceBuffer(w) \/ CudaFree(w)

-----------------------------------------------------------------------------
(* main *)

\* ParseArgs: a zero is refused.
ParseArgs(a) ==
  /\ args' = a
  /\ IF a.size = 0 \/ a.count = 0 \/ a.crew = {}
     THEN MainStep("parse", "exit") /\ code' = 1
     ELSE MainStep("parse", "initialize") /\ UNCHANGED code
  /\ UNCHANGED <<live, initialized, sharedVars, wpc, dev, idx, statVars,
                 memoryVars>>

\* --help ends the process with 0; a missing value, an unknown option or text
\* that is not a number ends it with 1.
NoRun(status) ==
  /\ MainStep("parse", "exit")
  /\ code' = status
  /\ UNCHANGED <<args, live, initialized, sharedVars, wpc, dev, idx, statVars,
                 memoryVars>>

\* Client::Initialize.  What was made before the broken part is reset.
Initialize(broken) ==
  /\ IF broken = {}
     THEN /\ MainStep("initialize", "spawn")
          /\ live' = Parts /\ initialized' = TRUE
          /\ UNCHANGED code
     ELSE /\ MainStep("initialize", "exit")
          /\ code' = 1
          /\ UNCHANGED <<live, initialized>>
  /\ UNCHANGED <<args, sharedVars, wpc, dev, idx, statVars, memoryVars>>

\* threads.emplace_back
Spawn(w) ==
  /\ main = "spawn" /\ w \in Crew
  /\ Step(w, "absent", "malloc")
  /\ UNCHANGED <<sharedVars, dev, idx, statVars, memoryVars>>

Spawned ==
  /\ \A w \in Crew : wpc[w] # "absent"
  /\ MainStep("spawn", "join")
  /\ UNCHANGED <<args, code, live, initialized, sharedVars, wpc, dev, idx,
                 statVars, memoryVars>>

JoinAll ==
  /\ \A w \in Crew : wpc[w] \in Over
  /\ MainStep("join", "summary")
  /\ UNCHANGED <<args, code, live, initialized, sharedVars, wpc, dev, idx,
                 statVars, memoryVars>>

\* Workers that were not ready do not count.
Summary ==
  /\ MainStep("summary", "shutdown")
  /\ code' = IF ready = {} THEN 1
             ELSE IF failed \cap ready = {} THEN 0 ELSE 2
  /\ UNCHANGED <<args, live, initialized, sharedVars, wpc, dev, idx, statVars,
                 memoryVars>>

\* Client::Shutdown
Shutdown ==
  /\ MainStep("shutdown", "exit")
  /\ live' = {} /\ initialized' = FALSE
  /\ UNCHANGED <<args, code, sharedVars, wpc, dev, idx, statVars, memoryVars>>

\* After main: the static GdsMemoryManager is destroyed.
Exit ==
  /\ MainStep("exit", "gone")
  /\ \E lost \in SUBSET Buffers : Destroy(lost)
  /\ UNCHANGED <<args, code, live, initialized, sharedVars, wpc, dev, idx,
                 statVars>>

Main ==
  \/ \E a \in Args : ParseArgs(a)
  \/ NoRun(0)
  \/ NoRun(1)
  \/ \E broken \in {{}} \cup {{part} : part \in Parts} : Initialize(broken)
  \/ \E w \in Threads : Spawn(w)
  \/ Spawned \/ JoinAll \/ Summary \/ Shutdown \/ Exit

BenchNext == Main \/ \E w \in Threads : Worker(w)

BenchSpec == BenchInit /\ [][BenchNext]_benchAllVars

\* The operating system runs every thread that can run, and PutObject uses
\* its attempts up.
BenchFairSpec ==
  /\ BenchSpec
  /\ WF_benchAllVars(Main)
  /\ \A w \in Threads : WF_benchAllVars(Worker(w))

-----------------------------------------------------------------------------
(* Properties *)

\* client.cpp: Shutdown resets the channels without a lock while PutObject
\* uses them without one.  main joins the workers first, so a call always
\* finds an initialized client with every part of it in place.
ClientOutlivesCalls ==
  \A w \in Threads :
    mpc[w] # "idle" => initialized /\ live = Parts /\ alive

\* What main reports is about the whole benchmark: when it does not return 1
\* every object was uploaded by exactly one worker, and when it returns 0
\* every upload succeeded and no buffer of a worker is left allocated.
ReportComplete ==
  code \in {0, 2} =>
    /\ \A i \in 0 .. args.count - 1 : puts[i] = 1
    /\ code = 0 => uploaded = 0 .. args.count - 1
    /\ \A b \in Buffers : memory[b] = 0

\* The workers use the registry the way its header asks for: they pass whole
\* buffers, of memory that exists, and unregister after the last upload and
\* before cudaFree, so what is shown of GdsMemoryManager holds for the
\* benchmark.
UsesManager == [][MemoryNext]_memoryVars

\* When no worker gives up before the barrier the benchmark comes to its end.
BenchEnds ==
  (\A w \in Threads : [](wpc[w] # "gave_up")) => <>(main = "gone")

\* main has code for workers that were not ready, "not ready (buffer
\* alloc/register failed)" and "no worker was ready": the benchmark comes to
\* its end whether they are or not.
AlwaysReports == <>(main = "gone")
=============================================================================
