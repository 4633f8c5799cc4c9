----------------------- MODULE BackendGdsSink_proofs -----------------------
(***************************************************************************)
(* Proofs about the backend process, built on those about the pool: the    *)
(* backend only takes steps of PinnedBufferPool, so the pool's invariant   *)
(* holds in it, and with it the order of main()'s steps gives CleanExit.   *)
(***************************************************************************)
EXTENDS BackendGdsSink, PinnedBufferPool_proofs

\* Whatever a handler or main() does is a step of the pool or leaves it alone.
LEMMA SinkStepIsPoolStep ==
  ASSUME SinkTypeOK, [SinkNext]_sinkVars
  PROVE  [Next]_vars
<1>1. ASSUME NEW t \in Threads, AcquireLease(t)
      PROVE  [Next]_vars
  <2>1. CASE pool_ref
    <3>1. req[t] \in Requests \cup {NoRequest} /\ req[t].length > 0
      BY <1>1 DEF AcquireLease, SinkTypeOK
    <3>2. req[t].length \in Lengths
      BY <3>1 DEF Requests, NoRequest
    <3>3. req[t].length \in Sizes
      BY <1>1, <3>1, <3>2, SinkAssumption DEF AcquireLease, WithinLimit
    <3> QED BY <1>1, <2>1, <3>3 DEF AcquireLease, Next
  <2>2. CASE ~pool_ref
    BY <1>1, <2>2 DEF AcquireLease, Reply
  <2> QED BY <2>1, <2>2
<1>2. ASSUME NEW t \in Threads, Dispatch(t) \/ Handler(t)
      PROVE  [Next]_vars
  BY <1>1, <1>2
  DEF Dispatch, Handler, Reject, Accept, TooLong, EmptyTransfer, Acquiring,
      LeaseNotOk, AllocateChannelId, NoChannelLeft, HandlePutObject,
      ComputeCrc32c, FreeChannelId, ReleaseLease, Releasing, Returned,
      ReplyFailed, NotifyAndReply, Reply, Next, Worker
<1>3. CASE Main \/ Quit \/ Exited
  BY <1>3
  DEF Main, Quit, Exited, Start, StartFails, Bind, Join, MovePool,
      ShutdownPool, ResetPool, ResetServer, sinkVars, Next
<1> QED BY <1>2, <1>3 DEF SinkNext, sinkVars

-----------------------------------------------------------------------------
(* The inductive invariant *)

\* The records of requests, transfers and checksums.
LEMMA RecordTypes ==
  /\ NoRequest \in Requests \cup {NoRequest}
  /\ \A r \in Requests \cup {NoRequest} : r.length \in Nat
  /\ Nothing \in Transfers
  /\ NoCrc \in Checksums
  /\ \A t \in Threads, n \in Nat : [by |-> t, len |-> n] \in Transfers
  /\ \A f \in Transfers, n \in Int : [of |-> f, over |-> n] \in Checksums
<1>1. \A r \in Requests \cup {NoRequest} : r.length \in Nat
  <2>1. Lengths \subseteq Nat
    BY SinkAssumption
  <2>2. \A r \in Requests : r.length \in Lengths
    BY DEF Requests
  <2>3. NoRequest.length \in Nat
    BY DEF NoRequest
  <2> QED BY <2>1, <2>2, <2>3
<1>2. Nothing \in Transfers
  BY DEF Transfers, Nothing
<1>3. NoCrc \in Checksums
  BY <1>2 DEF Checksums, NoCrc
<1>4. \A t \in Threads, n \in Nat : [by |-> t, len |-> n] \in Transfers
  BY DEF Transfers
<1>5. \A f \in Transfers, n \in Int : [of |-> f, over |-> n] \in Checksums
  BY DEF Checksums
<1> QED BY <1>1, <1>2, <1>3, <1>4, <1>5

\* The process starts with no server, no pool and no request.
LEMMA InitSinkInv == SinkInit => SinkInv
<1> SUFFICES ASSUME SinkInit PROVE SinkInv
  OBVIOUS
<1> USE DEF SinkInit, Init
<1>1. SinkTypeOK
  <2>1. filled \in [Buffers -> Transfers] /\ crc \in [Threads -> Checksums]
    BY RecordTypes
  <2>2. h \in [Threads -> HandlerPC] /\ phase \in Phases
    BY DEF HandlerPC, Phases
  <2>3. /\ req \in [Threads -> Requests \cup {NoRequest}]
        /\ chan \in [Threads -> Channels \cup {NoChannel}]
        /\ got \in [Threads -> Int]
    OBVIOUS
  <2> QED BY <2>1, <2>2, <2>3 DEF SinkTypeOK
<1>2. \A t \in Threads : HandlerInPool(t) /\ ChannelHeld(t) /\ TransferDone(t)
  BY DEF HandlerInPool, ChannelHeld, TransferDone
<1>3. ChannelOwned /\ CrcOfOwnBytes /\ NeverOversize
  BY DEF ChannelOwned, CrcOfOwnBytes, NeverOversize
<1>4. Lifecycle /\ DrainProgress
  BY DEF Lifecycle, DrainProgress
<1> QED BY <1>1, <1>2, <1>3, <1>4 DEF SinkInv

\* Every step of a handler keeps the sink's variables in their types.
LEMMA HandlerTypes ==
  ASSUME PoolInv, SinkInv, NEW t \in Threads, Dispatch(t) \/ Handler(t)
  PROVE  SinkTypeOK'
<1> USE DEF SinkInv, SinkTypeOK, HGoto, lifeVars, handlerVars, HandlerPC
<1>1. Reply(t) => SinkTypeOK'
  <2> SUFFICES ASSUME Reply(t) PROVE SinkTypeOK'
    OBVIOUS
  <2>1. filled' \in [Buffers -> Transfers]
    BY RecordTypes DEF Reply
  <2> QED BY <2>1, RecordTypes DEF Reply
<1>2. CASE HandlePutObject(t)
  <2>1. PICK n \in 0 .. req[t].length, ok \in BOOLEAN :
          /\ filled' = [filled EXCEPT ![buf[t]] = [by |-> t, len |-> n]]
          /\ got' = [got EXCEPT ![t] = IF ok THEN n ELSE -1]
          /\ h' = [h EXCEPT ![t] = IF ok /\ ComputeCrc THEN "crc"
                                   ELSE "free_channel"]
    BY <1>2 DEF HandlePutObject
  <2>2. n \in Nat
    BY RecordTypes
  <2>3. filled' \in [Buffers -> Transfers]
    BY <2>1, <2>2, RecordTypes
  <2>4. got' \in [Threads -> Int] /\ h' \in [Threads -> HandlerPC]
    BY <2>1, <2>2
  <2> QED BY <1>2, <2>3, <2>4 DEF HandlePutObject
<1>3. CASE ComputeCrc32c(t)
  <2>1. buf[t] \in Buffers
    BY <1>3
    DEF ComputeCrc32c, HandlerInPool, PoolInv, TypeOK, WorkerOwns, OwnerKnows
  <2>2. crc' \in [Threads -> Checksums]
    BY <1>3, <2>1, RecordTypes DEF ComputeCrc32c
  <2> QED BY <1>3, <2>2 DEF ComputeCrc32c
<1>4. CASE Dispatch(t)
  BY <1>4 DEF Dispatch
<1>5. CASE AcquireLease(t)
  BY <1>1, <1>5 DEF AcquireLease
<1>6. CASE Acquiring(t) \/ Releasing(t)
  BY <1>6 DEF Acquiring, Releasing
<1>7. CASE AllocateChannelId(t) \/ NoChannelLeft(t) \/ FreeChannelId(t)
  BY <1>7 DEF AllocateChannelId, NoChannelLeft, FreeChannelId
<1>8. CASE Accept(t) \/ EmptyTransfer(t) \/ ReleaseLease(t) \/ Returned(t)
  BY <1>8 DEF Accept, EmptyTransfer, ReleaseLease, Returned
<1>9. CASE \/ Reject(t) \/ TooLong(t) \/ LeaseNotOk(t) \/ ReplyFailed(t)
           \/ NotifyAndReply(t)
  BY <1>1, <1>9
  DEF Reject, TooLong, LeaseNotOk, ReplyFailed, NotifyAndReply
<1> QED
  BY <1>2, <1>3, <1>4, <1>5, <1>6, <1>7, <1>8, <1>9 DEF Handler

\* A handler's place in ReceiveAndDiscard matches its place in the pool.
LEMMA HandlerSteps ==
  ASSUME PoolInv, SinkInv, NEW t \in Threads, Dispatch(t) \/ Handler(t)
  PROVE  \A u \in Threads : HandlerInPool(u)'
<1> USE DEF SinkInv, SinkTypeOK, HGoto, HandlerInPool, PoolInv, TypeOK, vars,
            workerVars, stopVars, poolVars, Goto, Leave
<1> SUFFICES ASSUME NEW u \in Threads PROVE HandlerInPool(u)'
  OBVIOUS
<1>1. CASE Acquiring(t)
  BY <1>1
  DEF Acquiring, handlerVars, AcquireStep, PopCached, PopMiss,
      AllocHostBuffer, AllocFails, RegisterBuffer, RegisterFails
<1>2. CASE Releasing(t)
  BY <1>2
  DEF Releasing, handlerVars, ReleaseStep, PushCached, PushFull,
      DisposeDeregister, DisposeFree
<1>3. CASE AcquireLease(t)
  BY <1>3 DEF AcquireLease, Acquire, Reply
<1>4. CASE ReleaseLease(t)
  BY <1>4 DEF ReleaseLease, Release
<1>5. CASE HandlePutObject(t)
  BY <1>5 DEF HandlePutObject
<1>6. CASE \/ Dispatch(t) \/ Accept(t) \/ EmptyTransfer(t) \/ Returned(t)
           \/ AllocateChannelId(t) \/ NoChannelLeft(t) \/ ComputeCrc32c(t)
           \/ FreeChannelId(t)
  BY <1>6
  DEF Dispatch, Accept, EmptyTransfer, Returned, AllocateChannelId,
      NoChannelLeft, ComputeCrc32c, FreeChannelId
<1>7. CASE \/ Reject(t) \/ TooLong(t) \/ LeaseNotOk(t) \/ ReplyFailed(t)
           \/ NotifyAndReply(t)
  BY <1>7
  DEF Reject, TooLong, LeaseNotOk, ReplyFailed, NotifyAndReply, Reply
<1> QED
  BY <1>1, <1>2, <1>3, <1>4, <1>5, <1>6, <1>7 DEF Handler

\* A request within kMaxChunkBytes fits a size class.
LEMMA LimitFitsClass ==
  ASSUME NEW n \in Nat, n <= MaxChunkBytes
  PROVE  PickClass(n) \in ClassIdx
<1>1. PICK c \in ClassIdx : SizeClasses[c] >= MaxChunkBytes
  BY SinkAssumption
<1>2. MaxChunkBytes \in Nat /\ SizeClasses[c] \in Nat
  BY ClassFacts, SinkAssumption
<1>3. c \in Fits(n)
  BY <1>1, <1>2 DEF Fits
<1> QED BY <1>3, PickClassFits

\* No handler is on the path of Acquire that bypasses the size classes.
LEMMA HandlerClasses ==
  ASSUME PoolInv, SinkInv, NEW t \in Threads, Dispatch(t) \/ Handler(t)
  PROVE  NeverOversize'
<1> USE DEF SinkInv, SinkTypeOK, PoolInv, TypeOK, vars, workerVars, stopVars,
            poolVars, Goto, Leave, NeverOversize
<1>1. CASE Acquiring(t)
  BY <1>1
  DEF Acquiring, AcquireStep, PopCached, PopMiss, AllocHostBuffer, AllocFails,
      RegisterBuffer, RegisterFails
<1>2. CASE Releasing(t)
  BY <1>2
  DEF Releasing, ReleaseStep, PushCached, PushFull, DisposeDeregister,
      DisposeFree
<1>3. CASE AcquireLease(t)
  <2>1. CASE pool_ref
    <3>1. PickClass(req[t].length) \in ClassIdx
      BY <1>3, RecordTypes, LimitFitsClass DEF AcquireLease, WithinLimit
    <3> QED BY <1>3, <2>1, <3>1 DEF AcquireLease, Acquire
  <2>2. CASE ~pool_ref
    BY <1>3, <2>2 DEF AcquireLease, Reply
  <2> QED BY <2>1, <2>2
<1>4. CASE ReleaseLease(t)
  BY <1>4 DEF ReleaseLease, Release
<1>5. CASE ~(\/ Acquiring(t) \/ Releasing(t) \/ AcquireLease(t)
             \/ ReleaseLease(t))
  BY <1>5
  DEF Dispatch, Handler, Reject, Accept, TooLong, EmptyTransfer, LeaseNotOk,
      AllocateChannelId, NoChannelLeft, HandlePutObject, ComputeCrc32c,
      FreeChannelId, Returned, ReplyFailed, NotifyAndReply, Reply
<1> QED BY <1>1, <1>2, <1>3, <1>4, <1>5

\* A handler moves only its own program counters and its own variables.
LEMMA OtherHandlers ==
  ASSUME PoolInv, SinkInv, NEW t \in Threads, Dispatch(t) \/ Handler(t),
         NEW u \in Threads, u # t
  PROVE  /\ h'[u] = h[u] /\ got'[u] = got[u] /\ crc'[u] = crc[u]
         /\ buf'[u] = buf[u]
<1> USE DEF SinkInv, SinkTypeOK, HGoto, handlerVars, PoolInv, TypeOK, vars,
            workerVars, Goto, Leave
<1>1. CASE Acquiring(t)
  BY <1>1
  DEF Acquiring, AcquireStep, PopCached, PopMiss, AllocHostBuffer, AllocFails,
      RegisterBuffer, RegisterFails
<1>2. CASE Releasing(t)
  BY <1>2
  DEF Releasing, ReleaseStep, PushCached, PushFull, DisposeDeregister,
      DisposeFree
<1>3. CASE AcquireLease(t)
  BY <1>3 DEF AcquireLease, Acquire, Reply
<1>4. CASE ReleaseLease(t)
  BY <1>4 DEF ReleaseLease, Release
<1>5. CASE HandlePutObject(t)
  BY <1>5 DEF HandlePutObject
<1>6. CASE \/ Dispatch(t) \/ Accept(t) \/ EmptyTransfer(t) \/ Returned(t)
           \/ AllocateChannelId(t) \/ NoChannelLeft(t) \/ ComputeCrc32c(t)
           \/ FreeChannelId(t)
  BY <1>6
  DEF Dispatch, Accept, EmptyTransfer, Returned, AllocateChannelId,
      NoChannelLeft, ComputeCrc32c, FreeChannelId
<1>7. CASE \/ Reject(t) \/ TooLong(t) \/ LeaseNotOk(t) \/ ReplyFailed(t)
           \/ NotifyAndReply(t)
  BY <1>7
  DEF Reject, TooLong, LeaseNotOk, ReplyFailed, NotifyAndReply, Reply
<1> QED
  BY <1>1, <1>2, <1>3, <1>4, <1>5, <1>6, <1>7 DEF Handler

\* A channel id is handed to one handler and comes back from it.
LEMMA HandlerChannels ==
  ASSUME PoolInv, SinkInv, NEW t \in Threads, Dispatch(t) \/ Handler(t)
  PROVE  ChannelOwned' /\ \A u \in Threads : ChannelHeld(u)'
<1> USE DEF SinkInv, SinkTypeOK, HGoto, lifeVars, handlerVars, ChannelOwned,
            ChannelHeld
<1>1. CASE AllocateChannelId(t)
  <2>1. PICK c \in Channels \ channels :
          /\ channels' = channels \cup {c}
          /\ chan' = [chan EXCEPT ![t] = c]
    BY <1>1 DEF AllocateChannelId
  <2>2. c # NoChannel
    <3>1. NoChannel \notin Channels
      BY SinkAssumption
    <3> QED BY <3>1
  <2>3. chan[t] = NoChannel
    BY <1>1 DEF AllocateChannelId
  <2>4. \A u \in Threads : chan[u] # c
    BY <2>2
  <2>5. UNCHANGED <<got, crc>> /\ h' = [h EXCEPT ![t] = "put"]
    BY <1>1 DEF AllocateChannelId
  <2>6. ChannelOwned'
    <3>1. \A u \in Threads : chan'[u] = IF u = t THEN c ELSE chan[u]
      BY <2>1
    <3>2. \A d \in channels' : \E u \in Threads : chan'[u] = d
      <4>1. ASSUME NEW d \in channels PROVE \E u \in Threads : chan'[u] = d
        <5>1. PICK u \in Threads : chan[u] = d
          OBVIOUS
        <5>2. d # NoChannel
          BY SinkAssumption
        <5> QED BY <2>3, <3>1, <5>1, <5>2
      <4> QED BY <2>1, <3>1, <4>1
    <3>3. \A u, v \in Threads :
            u # v /\ chan'[u] # NoChannel => chan'[u] # chan'[v]
      BY <2>4, <3>1
    <3> QED BY <3>2, <3>3
  <2>7. \A u \in Threads : ChannelHeld(u)'
    BY <2>1, <2>2, <2>5
  <2> QED BY <2>6, <2>7
<1>2. CASE FreeChannelId(t)
  BY <1>2 DEF FreeChannelId
<1>3. CASE ~AllocateChannelId(t) /\ ~FreeChannelId(t)
  <2>1. UNCHANGED <<chan, channels>>
    BY <1>3
    DEF Dispatch, Handler, Reject, Accept, TooLong, EmptyTransfer,
        AcquireLease, Acquiring, LeaseNotOk, NoChannelLeft, HandlePutObject,
        ComputeCrc32c, ReleaseLease, Releasing, Returned, ReplyFailed,
        NotifyAndReply, Reply
  <2>2. \A u \in Threads \ {t} : h'[u] = h[u]
    BY OtherHandlers
  <2>3. h[t] \in {"put", "crc", "free_channel"} =>
          h'[t] \in {"put", "crc", "free_channel"}
    <3> SUFFICES ASSUME h[t] \in {"put", "crc", "free_channel"}
                 PROVE  h'[t] \in {"put", "crc", "free_channel"}
      OBVIOUS
    <3>1. HandlePutObject(t) \/ ComputeCrc32c(t)
      BY <1>3
      DEF Dispatch, Handler, Reject, Accept, TooLong, EmptyTransfer,
          AcquireLease, Acquiring, LeaseNotOk, NoChannelLeft, ReleaseLease,
          Releasing, Returned, ReplyFailed, NotifyAndReply, FreeChannelId
    <3> QED BY <3>1 DEF HandlePutObject, ComputeCrc32c
  <2>5. ChannelOwned'
    BY <2>1
  <2>6. \A u \in Threads : ChannelHeld(u)'
    BY <2>1, <2>2, <2>3
  <2> QED BY <2>5, <2>6
<1> QED BY <1>1, <1>2, <1>3

\* The bytes a handler's checksum is computed from are those its transfer
\* wrote: the lease keeps every other transfer out of the buffer.
LEMMA HandlerTransfers ==
  ASSUME PoolInv, SinkInv, NEW t \in Threads, Dispatch(t) \/ Handler(t)
  PROVE  CrcOfOwnBytes' /\ \A u \in Threads : TransferDone(u)'
<1> USE DEF SinkInv, SinkTypeOK, HGoto, lifeVars, handlerVars
<1>1. \A u \in Threads : h[u] \in {"put", "crc"} =>
        /\ buf[u] \in Buffers
        /\ \A v \in Threads \ {u} : buf[v] # buf[u]
  BY DEF HandlerInPool, PoolInv, TypeOK, WorkerOwns, OwnerKnows,
         ExclusiveOwner, DistinctLeases
<1>2. ASSUME NEW u \in Threads, u # t, h[u] = "crc"
      PROVE  filled'[buf[u]] = filled[buf[u]]
  <2>1. buf[u] \in Buffers /\ buf[t] # buf[u]
    BY <1>1, <1>2
  <2>0. filled[buf[u]].by = u
    <3>1. filled[buf[u]] = [by |-> u, len |-> got[u]]
      BY <1>2 DEF TransferDone
    <3> QED BY <3>1
  <2>2. CASE HandlePutObject(t)
    BY <2>1, <2>2 DEF HandlePutObject
  <2>3. CASE Reply(t)
    BY <1>2, <2>0, <2>1, <2>3 DEF Reply
  <2>4. CASE ~HandlePutObject(t) /\ ~Reply(t)
    BY <2>4
    DEF Dispatch, Handler, Reject, Accept, TooLong, EmptyTransfer,
        AcquireLease, Acquiring, LeaseNotOk, AllocateChannelId, NoChannelLeft,
        ComputeCrc32c, FreeChannelId, ReleaseLease, Releasing, Returned,
        ReplyFailed, NotifyAndReply
  <2> QED BY <2>2, <2>3, <2>4
<1> DEFINE Done(u) == TransferDone(u)
           Own(u) ==
             /\ ComputeCrc
             /\ h[u] \in {"free_channel", "release", "releasing", "notify"}
             /\ got[u] > 0
             => crc[u] = [of |-> [by |-> u, len |-> got[u]], over |-> got[u]]
<1>3. ASSUME NEW u \in Threads, u # t
      PROVE  Done(u)' /\ Own(u)'
  <2>1. Done(u) /\ Own(u)
    BY DEF CrcOfOwnBytes
  <2>2. /\ h'[u] = h[u] /\ got'[u] = got[u] /\ crc'[u] = crc[u]
        /\ buf'[u] = buf[u]
    BY <1>3, OtherHandlers
  <2>3. h[u] = "crc" => filled'[buf[u]] = filled[buf[u]]
    BY <1>2, <1>3
  <2> QED BY <2>1, <2>2, <2>3 DEF TransferDone
<1>4. Done(t)' /\ Own(t)'
  <2>1. Done(t) /\ Own(t)
    BY DEF CrcOfOwnBytes
  <2>2. CASE Reply(t)
    BY <2>2 DEF Reply, TransferDone
  <2>3. CASE HandlePutObject(t)
    <3>1. PICK n \in 0 .. req[t].length, ok \in BOOLEAN :
            /\ filled' = [filled EXCEPT ![buf[t]] = [by |-> t, len |-> n]]
            /\ got' = [got EXCEPT ![t] = IF ok THEN n ELSE -1]
            /\ h' = [h EXCEPT ![t] = IF ok /\ ComputeCrc THEN "crc"
                                     ELSE "free_channel"]
      BY <2>3 DEF HandlePutObject
    <3>2. n \in Nat /\ buf[t] \in Buffers /\ buf' = buf
      BY <1>1, <2>3, RecordTypes DEF HandlePutObject, vars, workerVars
    <3>3. CASE ok /\ ComputeCrc
      BY <3>1, <3>2, <3>3 DEF TransferDone
    <3>4. CASE ~(ok /\ ComputeCrc)
      BY <3>1, <3>2, <3>4 DEF TransferDone
    <3> QED BY <3>3, <3>4
  <2>4. CASE ComputeCrc32c(t)
    BY <2>1, <2>4 DEF ComputeCrc32c, TransferDone
  <2>5. CASE Acquiring(t) \/ Releasing(t)
    BY <2>1, <2>5 DEF Acquiring, Releasing, TransferDone, HandlerInPool
  <2>6. CASE NoChannelLeft(t)
    BY <2>6 DEF NoChannelLeft, TransferDone
  <2>7. CASE \/ Dispatch(t) \/ Accept(t) \/ EmptyTransfer(t)
             \/ AllocateChannelId(t)
             \/ AcquireLease(t) /\ ~Reply(t)
    BY <2>1, <2>7
    DEF Dispatch, Accept, EmptyTransfer, AllocateChannelId, AcquireLease,
        TransferDone
  <2>8. CASE FreeChannelId(t) \/ ReleaseLease(t) \/ Returned(t)
    BY <2>1, <2>8 DEF FreeChannelId, ReleaseLease, Returned, TransferDone
  <2> QED
    BY <2>2, <2>3, <2>4, <2>5, <2>6, <2>7, <2>8
    DEF Handler, Reject, TooLong, LeaseNotOk, ReplyFailed, NotifyAndReply
<1> QED BY <1>3, <1>4 DEF CrcOfOwnBytes

\* Handlers run only between server.Start and the end of server.Join.
LEMMA HandlerLifecycle ==
  ASSUME PoolInv, SinkInv, NEW t \in Threads, Dispatch(t) \/ Handler(t)
  PROVE  Lifecycle' /\ DrainProgress'
<1> USE DEF SinkInv, SinkTypeOK, HGoto, lifeVars, handlerVars, vars,
            workerVars, stopVars, poolVars, Goto, Leave
<1>1. phase \in {"serving", "stopping"}
  <2>1. phase = "serving" \/ h[t] # "none"
    BY DEF Dispatch, Handler, Reject, Accept, TooLong, EmptyTransfer,
           AcquireLease, Acquiring, LeaseNotOk, AllocateChannelId,
           NoChannelLeft, HandlePutObject, ComputeCrc32c, FreeChannelId,
           ReleaseLease, Releasing, Returned, ReplyFailed, NotifyAndReply
  <2> QED BY <2>1 DEF Lifecycle
<1>2. UNCHANGED lifeVars
  BY DEF Dispatch, Handler, Reject, Accept, TooLong, EmptyTransfer,
         AcquireLease, Acquiring, LeaseNotOk, AllocateChannelId,
         NoChannelLeft, HandlePutObject, ComputeCrc32c, FreeChannelId,
         ReleaseLease, Releasing, Returned, ReplyFailed, NotifyAndReply, Reply
<1>3. UNCHANGED stopVars
  <2>1. CASE Acquiring(t)
    BY <2>1
    DEF Acquiring, AcquireStep, PopCached, PopMiss, AllocHostBuffer,
        AllocFails, RegisterBuffer, RegisterFails
  <2>2. CASE Releasing(t)
    BY <2>2
    DEF Releasing, ReleaseStep, PushCached, PushFull, DisposeDeregister,
        DisposeFree
  <2>3. CASE AcquireLease(t) \/ ReleaseLease(t)
    BY <2>3 DEF AcquireLease, ReleaseLease, Acquire, Release, Reply
  <2>4. CASE ~(\/ Acquiring(t) \/ Releasing(t) \/ AcquireLease(t)
               \/ ReleaseLease(t))
    BY <2>4
    DEF Dispatch, Handler, Reject, Accept, TooLong, EmptyTransfer, LeaseNotOk,
        AllocateChannelId, NoChannelLeft, HandlePutObject, ComputeCrc32c,
        FreeChannelId, Returned, ReplyFailed, NotifyAndReply, Reply
  <2> QED BY <2>1, <2>2, <2>3, <2>4
<1>4. Lifecycle'
  BY <1>1, <1>2 DEF Lifecycle
<1>5. DrainProgress'
  BY <1>1, <1>2, <1>3 DEF DrainProgress
<1> QED BY <1>4, <1>5

\* What does not touch the handlers or the workers keeps what relates them.
LEMMA HandlersUntouched ==
  ASSUME SinkInv, UNCHANGED <<workerVars, handlerVars>>
  PROVE  /\ ChannelOwned' /\ CrcOfOwnBytes' /\ NeverOversize'
         /\ \A t \in Threads : /\ HandlerInPool(t)' /\ ChannelHeld(t)'
                               /\ TransferDone(t)'
<1>1. ChannelOwned' /\ \A t \in Threads : ChannelHeld(t)'
  BY DEF SinkInv, handlerVars, ChannelOwned, ChannelHeld
<1>2. CrcOfOwnBytes' /\ \A t \in Threads : TransferDone(t)'
  BY DEF SinkInv, handlerVars, workerVars, CrcOfOwnBytes, TransferDone
<1>3. NeverOversize' /\ \A t \in Threads : HandlerInPool(t)'
  BY DEF SinkInv, handlerVars, workerVars, NeverOversize, HandlerInPool
<1> QED BY <1>1, <1>2, <1>3

\* While main() runs Shutdown no worker is in the pool, so what Shutdown has
\* drained stays drained.
LEMMA MainSteps ==
  ASSUME PoolInv, PoolInv', SinkInv, Main \/ Quit \/ Exited
  PROVE  SinkInv'
<1> USE DEF SinkInv, lifeVars, handlerVars, vars, workerVars, stopVars,
            poolVars, Phases
<1>0. UNCHANGED <<workerVars, handlerVars>>
  BY DEF Main, Quit, Exited, Start, StartFails, Bind, Join, MovePool,
         ShutdownPool, ResetPool, ResetServer, sinkVars, ShutdownCas,
         ShutdownStep, ShutdownDrain, ShutdownDrained, ShutdownDeregister,
         ShutdownFree
<1>1. CASE Start \/ StartFails \/ Bind \/ Quit \/ Join \/ MovePool
  <2>1. SinkTypeOK'
    BY <1>1
    DEF Start, StartFails, Bind, Quit, Join, MovePool, SinkTypeOK
  <2>3. Lifecycle'
    BY <1>1
    DEF Start, StartFails, Bind, Quit, Join, MovePool, Lifecycle
  <2>4. DrainProgress'
    <3>1. phase' \in {"shutdown", "exited"} => spc = "running"
      BY <1>1
      DEF Start, StartFails, Bind, Quit, Join, MovePool, DrainProgress
    <3>2. \A c \in ClassIdx : ~(c < 1)
      BY ClassFacts DEF ClassIdx
    <3> QED BY <1>1, <3>1, <3>2
      DEF Start, StartFails, Bind, Quit, Join, MovePool, DrainProgress
  <2> QED BY <1>0, <2>1, <2>3, <2>4, HandlersUntouched
<1>2. CASE ShutdownPool
  <2>1. /\ phase = "shutdown" /\ UNCHANGED <<lifeVars, handlerVars, workerVars>>
        /\ ShutdownCas \/ ShutdownStep
    BY <1>2
    DEF ShutdownPool, ShutdownCas, ShutdownStep, ShutdownDrain,
        ShutdownDrained, ShutdownDeregister, ShutdownFree
  <2>2. SinkTypeOK' /\ Lifecycle'
    BY <2>1 DEF SinkTypeOK, Lifecycle
  <2>3. DrainProgress'
    <3>1. CASE ShutdownCas
      BY <2>1, <3>1 DEF ShutdownCas, DrainProgress
    <3>2. CASE ShutdownDrain
      <4>1. \A c \in ClassIdx : c < sidx' => free_list'[c] = <<>>
        BY <2>1, <3>2, ClassFacts
        DEF ShutdownDrain, DrainProgress, PoolInv, TypeOK
      <4> QED BY <2>1, <3>2, <4>1 DEF ShutdownDrain, DrainProgress
    <3>3. CASE ShutdownDrained
      <4>1. sidx = Oversize
        BY <3>3 DEF ShutdownDrained, PoolInv, TypeOK
      <4> QED BY <2>1, <3>3, <4>1 DEF ShutdownDrained, DrainProgress
    <3>4. CASE ShutdownDeregister
      BY <2>1, <3>4 DEF ShutdownDeregister, DrainProgress
    <3>5. CASE ShutdownFree
      BY <2>1, <3>5 DEF ShutdownFree, DrainProgress
    <3> QED BY <2>1, <3>1, <3>2, <3>3, <3>4, <3>5 DEF ShutdownStep
  <2> QED BY <1>0, <2>2, <2>3, HandlersUntouched
<1>3. CASE ResetPool
  <2>1. allocated = {}
    <3>1. \A c \in ClassIdx : free_list[c] = <<>>
      <4>1. \A c \in ClassIdx : c < Oversize
        BY ClassFacts DEF ClassIdx, Oversize
      <4> QED BY <1>3, <4>1 DEF ResetPool, DrainProgress
    <3>2. (\A c \in ClassIdx : Cached(c) = {}) /\ Draining = {}
      BY <1>3, <3>1, EmptyHasNoMember
      DEF ResetPool, DrainProgress, Cached, Draining
    <3>3. \A t \in Threads : buf[t] = NoBuf
      BY <1>3
      DEF ResetPool, Lifecycle, HandlerInPool, PoolInv, WorkerOwns, OwnerKnows
    <3>4. NoBuf \notin allocated
      BY PoolAssumption DEF PoolInv, TypeOK
    <3> QED BY <3>2, <3>3, <3>4 DEF PoolInv, NoDanglingNoLeak
  <2>2. SinkTypeOK'
    BY <1>3 DEF ResetPool, SinkTypeOK
  <2>3. Lifecycle' /\ DrainProgress'
    BY <1>3, <2>1 DEF ResetPool, Lifecycle, DrainProgress
  <2> QED BY <1>0, <2>2, <2>3, HandlersUntouched
<1>4. CASE ResetServer
  <2>1. SinkTypeOK' /\ Lifecycle' /\ DrainProgress'
    BY <1>4 DEF ResetServer, SinkTypeOK, Lifecycle, DrainProgress
  <2> QED BY <1>0, <2>1, HandlersUntouched
<1>5. CASE Exited
  <2>1. SinkTypeOK' /\ Lifecycle' /\ DrainProgress'
    BY <1>5 DEF Exited, sinkVars, SinkTypeOK, Lifecycle, DrainProgress
  <2> QED BY <1>0, <2>1, HandlersUntouched
<1> QED BY <1>1, <1>2, <1>3, <1>4, <1>5 DEF Main

\* Every step of the backend preserves the invariant.
LEMMA NextSinkInv == PoolInv /\ SinkInv /\ [SinkNext]_sinkVars => SinkInv'
<1> SUFFICES ASSUME PoolInv, SinkInv, [SinkNext]_sinkVars PROVE SinkInv'
  OBVIOUS
<1>1. PoolInv'
  BY SinkStepIsPoolStep, NextPoolInv DEF SinkInv
<1>2. ASSUME NEW t \in Threads, Dispatch(t) \/ Handler(t)
      PROVE  SinkInv'
  BY <1>2, HandlerTypes, HandlerSteps, HandlerClasses, HandlerChannels,
     HandlerTransfers, HandlerLifecycle
  DEF SinkInv
<1>3. CASE UNCHANGED sinkVars
  <2>1. UNCHANGED <<workerVars, handlerVars>>
    BY <1>3 DEF sinkVars, vars
  <2>2. SinkTypeOK' /\ Lifecycle' /\ DrainProgress'
    BY <1>3
    DEF sinkVars, vars, lifeVars, handlerVars, poolVars, workerVars, stopVars,
        SinkInv, SinkTypeOK, Lifecycle, DrainProgress
  <2> QED BY <2>1, <2>2, HandlersUntouched DEF SinkInv
<1> QED BY <1>1, <1>2, <1>3, MainSteps DEF SinkNext

\* The pool's invariant and the backend's hold together.
THEOREM SinkInvariant == SinkSpec => [](PoolInv /\ SinkInv)
<1>1. SinkInit => PoolInv /\ SinkInv
  BY InitPoolInv, InitSinkInv DEF SinkInit
<1>2. PoolInv /\ SinkInv /\ [SinkNext]_sinkVars => PoolInv' /\ SinkInv'
  BY NextSinkInv, NextPoolInv, SinkStepIsPoolStep DEF SinkInv
<1> QED BY <1>1, <1>2, PTL DEF SinkSpec

-----------------------------------------------------------------------------
(* What follows *)

\* A behaviour of the backend is one of the pool, so that the theorems of
\* PinnedBufferPool_proofs can be used in it.
LEMMA BackendUsesPool == SinkSpec => Spec
<1>1. SinkInit => Init
  BY DEF SinkInit
<1>2. SinkInv /\ [SinkNext]_sinkVars => [Next]_vars
  BY SinkStepIsPoolStep DEF SinkInv
<1> QED BY SinkInvariant, <1>1, <1>2, PTL DEF SinkSpec, Spec

\* No handler meets a server or pool that Stop() has destroyed.
THEOREM ServerAndPoolAlive == SinkSpec => []AliveWhileUsed
<1>1. PoolInv /\ SinkInv => AliveWhileUsed
  <2> SUFFICES ASSUME PoolInv, SinkInv PROVE AliveWhileUsed
    OBVIOUS
  <2>1. registered # {} => phase \notin {"starting", "reset", "exited"}
    BY DEF PoolInv, NoDanglingNoLeak, SinkInv, Lifecycle
  <2> QED BY <2>1 DEF SinkInv, SinkTypeOK, Phases, Lifecycle, AliveWhileUsed
<1> QED BY SinkInvariant, <1>1, PTL

\* main() leaves no registered region, no host buffer and no channel behind.
THEOREM CleanShutdown == SinkSpec => []CleanExit
<1>1. PoolInv /\ SinkInv => CleanExit
  <2> SUFFICES ASSUME PoolInv, SinkInv, phase = "exited"
               PROVE  registered = {} /\ allocated = {} /\ channels = {}
    BY DEF CleanExit
  <2>1. allocated = {} /\ registered = {}
    BY DEF SinkInv, Lifecycle, PoolInv, NoDanglingNoLeak
  <2>2. \A t \in Threads : chan[t] = NoChannel
    BY DEF SinkInv, Lifecycle, ChannelHeld
  <2>3. NoChannel \notin channels
    <3>1. NoChannel \notin Channels
      BY SinkAssumption
    <3> QED BY <3>1 DEF SinkInv, SinkTypeOK
  <2> QED BY <2>1, <2>2, <2>3 DEF SinkInv, ChannelOwned
<1> QED BY SinkInvariant, <1>1, PTL

\* Every channel id in use belongs to exactly one handler.
THEOREM ChannelsOwned == SinkSpec => []ChannelOwned
<1>1. SinkInv => ChannelOwned
  BY DEF SinkInv
<1> QED BY SinkInvariant, <1>1, PTL

\* The variables of the handlers and of main keep their types.
THEOREM SinkTypes == SinkSpec => []SinkTypeOK
<1>1. SinkInv => SinkTypeOK
  BY DEF SinkInv
<1> QED BY SinkInvariant, <1>1, PTL

\* A reported checksum is that of the bytes of the handler's own transfer.
THEOREM ChecksumOfOwnBytes == SinkSpec => []CrcOfOwnBytes
<1>1. SinkInv => CrcOfOwnBytes
  BY DEF SinkInv
<1> QED BY SinkInvariant, <1>1, PTL

\* No request takes the path of Acquire that bypasses the size classes.
THEOREM EveryRequestFits == SinkSpec => []NeverOversize
<1>1. SinkInv => NeverOversize
  BY DEF SinkInv
<1> QED BY SinkInvariant, <1>1, PTL

=============================================================================
