--------------------------- MODULE BackendGdsSink ---------------------------
(***************************************************************************)
(* The backend process: main() of backend/src/main.cpp starts and stops    *)
(* the sink of backend_gds_sink.cpp, and brpc runs one GdsPut handler of   *)
(* backend_data_plane_service.cpp per worker thread.  A handler leases a   *)
(* buffer from PinnedBufferPool, lets cuObjServer read the client's GPU    *)
(* memory into it over a channel, and computes the CRC32C of what came.    *)
(*                                                                         *)
(* The steps inside the pool are those of PinnedBufferPool; this module    *)
(* says when a handler and main() take them.                               *)
(***************************************************************************)
EXTENDS PinnedBufferPool

CONSTANTS
  Channels,       \* the ids allocateChannelId can return
  NoChannel,      \* INVALID_CHANNEL_ID
  Lengths,        \* chunk_size values clients send
  MaxChunkBytes,  \* kMaxChunkBytes
  ComputeCrc      \* compute_crc32c_

\* BufferSizeClasses() ends with a class of kMaxChunkBytes.
ASSUME SinkAssumption ==
  /\ NoChannel \notin Channels
  /\ Lengths \subseteq Nat
  /\ MaxChunkBytes \in Nat
  /\ \A n \in Lengths : 0 < n /\ n <= MaxChunkBytes => n \in Sizes
  /\ \E c \in ClassIdx : SizeClasses[c] >= MaxChunkBytes
  /\ ComputeCrc \in BOOLEAN

VARIABLES
  phase,       \* where main() is
  server_up,   \* server_ # nullptr
  pool_ref,    \* pool_ # nullptr, as handlers see it
  pool_up,     \* the pool object exists
  h,           \* where each handler is
  req,         \* the request of each handler
  chan,        \* the channel its ChannelGuard owns
  channels,    \* the channel ids cuObjServer has handed out
  got,         \* transferred: the bytes read, -1 for a failed transfer
  filled,      \* whose transfer wrote to a buffer last, and how many bytes
  crc          \* what outcome.crc32c was computed from, and over how much

lifeVars == <<phase, server_up, pool_ref, pool_up>>
handlerVars == <<h, req, chan, channels, got, filled, crc>>
sinkVars == <<vars, lifeVars, handlerVars>>

Phases == {"starting", "binding", "serving", "stopping", "stop", "shutdown",
           "reset", "exited"}
HandlerPC == {"none", "gdsput", "receive", "acquiring", "leased", "put", "crc",
              "free_channel", "release", "releasing", "notify"}

Requests == [upload_id : BOOLEAN, rdma_token : BOOLEAN, length : Lengths]
NoRequest == [upload_id |-> FALSE, rdma_token |-> FALSE, length |-> 0]

\* The first len bytes of a buffer were written by the transfer of by; a
\* checksum is taken over the first bytes of a buffer that was so filled.
Transfers == [by : Threads \cup {NoBuf}, len : Nat]
Checksums == [of : Transfers, over : Int]
Nothing == [by |-> NoBuf, len |-> 0]
NoCrc == [of |-> Nothing, over |-> 0]

SinkInit ==
  /\ Init
  /\ phase = "starting"
  /\ server_up = FALSE /\ pool_ref = FALSE /\ pool_up = FALSE
  /\ h = [t \in Threads |-> "none"]
  /\ req = [t \in Threads |-> NoRequest]
  /\ chan = [t \in Threads |-> NoChannel]
  /\ channels = {}
  /\ got = [t \in Threads |-> 0]
  /\ filled = [b \in Buffers |-> Nothing]
  /\ crc = [t \in Threads |-> NoCrc]

HGoto(t, label) == h' = [h EXCEPT ![t] = label]

\* done_guard runs; bytes the transfer left in a buffer are stale from now on.
Reply(t) ==
  /\ HGoto(t, "none")
  /\ req' = [req EXCEPT ![t] = NoRequest]
  /\ got' = [got EXCEPT ![t] = 0]
  /\ crc' = [crc EXCEPT ![t] = NoCrc]
  /\ filled' = [b \in Buffers |->
                  IF filled[b].by = t THEN Nothing ELSE filled[b]]
  /\ UNCHANGED <<vars, lifeVars, chan, channels>>

-----------------------------------------------------------------------------
(* Variants of operations below with a plausible mistake in them.  The     *)
(* specification does not use them; they show that the properties notice.  *)

\* The size check is left to cuObjServer.
WithinLimitUnchecked(n) == TRUE

\* The channel is freed only when the transfer succeeded.
FreeChannelIdOnSuccess(t) ==
  /\ h[t] = "free_channel"
  /\ channels' = IF got[t] < 0 THEN channels ELSE channels \ {chan[t]}
  /\ chan' = [chan EXCEPT ![t] = NoChannel]
  /\ HGoto(t, "release")
  /\ UNCHANGED <<vars, lifeVars, req, got, filled, crc>>

\* The checksum covers the requested length instead of the bytes read.
ComputeCrc32cOfLength(t) ==
  /\ h[t] = "crc"
  /\ crc' = [crc EXCEPT ![t] = [of |-> filled[buf[t]],
                                over |-> req[t].length]]
  /\ HGoto(t, "free_channel")
  /\ UNCHANGED <<vars, lifeVars, req, chan, channels, got, filled>>

\* server.Join() is forgotten.
JoinDoesNotWait ==
  /\ phase = "stopping"
  /\ phase' = "stop"
  /\ UNCHANGED <<vars, server_up, pool_ref, pool_up, handlerVars>>

\* INVALID_CHANNEL_ID is used like any other channel.
NoChannelLeftUnchecked(t) ==
  /\ h[t] = "acquiring"
  /\ pc[t] = "leased"
  /\ channels' = channels \cup {NoChannel}
  /\ HGoto(t, "put")
  /\ UNCHANGED <<vars, lifeVars, req, chan, got, filled, crc>>

\* A handler without a channel tries again until it gets one.
NoChannelLeftRetries(t) ==
  /\ h[t] = "acquiring"
  /\ pc[t] = "leased"
  /\ UNCHANGED sinkVars

\* server.Stop(0) is forgotten: main() joins a server that still accepts.
DispatchUntilJoined(t) ==
  /\ phase \in {"serving", "stopping"}
  /\ h[t] = "none"
  /\ req' \in {[req EXCEPT ![t] = r] : r \in Requests}
  /\ HGoto(t, "gdsput")
  /\ UNCHANGED <<vars, lifeVars, chan, channels, got, filled, crc>>

\* The pool goes away without Shutdown.
ResetPoolUndrained ==
  /\ phase = "shutdown"
  /\ pool_up' = FALSE
  /\ phase' = "reset"
  /\ UNCHANGED <<vars, server_up, pool_ref, handlerVars>>

-----------------------------------------------------------------------------
(* One request: BackendDataPlaneService::GdsPut and                        *)
(* BackendGdsSink::ReceiveAndDiscard                                       *)

\* brpc dispatches a request; it accepts none after server.Stop(0).
Dispatch(t) ==
  /\ phase = "serving"
  /\ h[t] = "none"
  /\ req' \in {[req EXCEPT ![t] = r] : r \in Requests}
  /\ HGoto(t, "gdsput")
  /\ UNCHANGED <<vars, lifeVars, chan, channels, got, filled, crc>>

\* Whether isConnected() holds is up to the device, so any request may be
\* rejected; multipart requests and those without a token always are.
Reject(t) ==
  /\ h[t] = "gdsput"
  /\ Reply(t)

Accept(t) ==
  /\ h[t] = "gdsput"
  /\ ~req[t].upload_id
  /\ req[t].rdma_token
  /\ server_up
  /\ HGoto(t, "receive")
  /\ UNCHANGED <<vars, lifeVars, req, chan, channels, got, filled, crc>>

WithinLimit(n) == n <= MaxChunkBytes

TooLong(t) ==
  /\ h[t] = "receive"
  /\ ~WithinLimit(req[t].length)
  /\ Reply(t)

\* An empty transfer succeeds without buffer or channel.
EmptyTransfer(t) ==
  /\ h[t] = "receive"
  /\ WithinLimit(req[t].length)
  /\ req[t].length = 0
  /\ HGoto(t, "notify")
  /\ UNCHANGED <<vars, lifeVars, req, chan, channels, got, filled, crc>>

\* if (pool_) ...; without a pool the default lease is not ok().
AcquireLease(t) ==
  /\ h[t] = "receive"
  /\ WithinLimit(req[t].length)
  /\ req[t].length > 0
  /\ IF pool_ref
     THEN /\ Acquire(t, req[t].length)
          /\ HGoto(t, "acquiring")
          /\ UNCHANGED <<lifeVars, req, chan, channels, got, filled, crc>>
     ELSE Reply(t)

Acquiring(t) ==
  /\ h[t] = "acquiring"
  /\ pc[t] \notin {"leased", "idle"}
  /\ AcquireStep(t)
  /\ UNCHANGED <<lifeVars, handlerVars>>

\* Acquire returned an empty lease.
LeaseNotOk(t) ==
  /\ h[t] = "acquiring"
  /\ pc[t] = "idle"
  /\ Reply(t)

\* Acquire returned a lease.
AllocateChannelId(t) ==
  /\ h[t] = "acquiring"
  /\ pc[t] = "leased"
  /\ \E c \in Channels \ channels :
       /\ channels' = channels \cup {c}
       /\ chan' = [chan EXCEPT ![t] = c]
  /\ HGoto(t, "put")
  /\ UNCHANGED <<vars, lifeVars, req, got, filled, crc>>

\* INVALID_CHANNEL_ID: no ChannelGuard, but the lease is given back.
NoChannelLeft(t) ==
  /\ h[t] = "acquiring"
  /\ pc[t] = "leased"
  /\ got' = [got EXCEPT ![t] = -1]
  /\ HGoto(t, "release")
  /\ UNCHANGED <<vars, lifeVars, req, chan, channels, filled, crc>>

\* handlePutObject reads n bytes into the buffer and succeeds or fails.
HandlePutObject(t) ==
  /\ h[t] = "put"
  /\ \E n \in 0 .. req[t].length, ok \in BOOLEAN :
       /\ filled' = [filled EXCEPT ![buf[t]] = [by |-> t, len |-> n]]
       /\ got' = [got EXCEPT ![t] = IF ok THEN n ELSE -1]
       /\ HGoto(t, IF ok /\ ComputeCrc THEN "crc" ELSE "free_channel")
  /\ UNCHANGED <<vars, lifeVars, req, chan, channels, crc>>

ComputeCrc32c(t) ==
  /\ h[t] = "crc"
  /\ crc' = [crc EXCEPT ![t] = [of |-> filled[buf[t]], over |-> got[t]]]
  /\ HGoto(t, "free_channel")
  /\ UNCHANGED <<vars, lifeVars, req, chan, channels, got, filled>>

\* The locals are destroyed in reverse order: the channel ...
FreeChannelId(t) ==
  /\ h[t] = "free_channel"
  /\ channels' = channels \ {chan[t]}
  /\ chan' = [chan EXCEPT ![t] = NoChannel]
  /\ HGoto(t, "release")
  /\ UNCHANGED <<vars, lifeVars, req, got, filled, crc>>

\* ... and then the lease.
ReleaseLease(t) ==
  /\ h[t] = "release"
  /\ Release(t)
  /\ HGoto(t, "releasing")
  /\ UNCHANGED <<lifeVars, req, chan, channels, got, filled, crc>>

Releasing(t) ==
  /\ h[t] = "releasing"
  /\ ReleaseStep(t)
  /\ UNCHANGED <<lifeVars, handlerVars>>

\* ReceiveAndDiscard returned: a failure is reported at once, after a success
\* the proxy is notified first.
Returned(t) ==
  /\ h[t] = "releasing"
  /\ pc[t] = "idle"
  /\ got[t] >= 0
  /\ HGoto(t, "notify")
  /\ UNCHANGED <<vars, lifeVars, req, chan, channels, got, filled, crc>>

ReplyFailed(t) ==
  /\ h[t] = "releasing"
  /\ pc[t] = "idle"
  /\ got[t] < 0
  /\ Reply(t)

\* ReportGdsPut, whose outcome is only logged, and the reply.
NotifyAndReply(t) ==
  /\ h[t] = "notify"
  /\ Reply(t)

-----------------------------------------------------------------------------
(* main() *)

\* sink.Start() constructs the server and the pool before brpc serves.
Start ==
  /\ phase = "starting"
  /\ server_up' = TRUE /\ pool_ref' = TRUE /\ pool_up' = TRUE
  /\ phase' = "binding"
  /\ UNCHANGED <<vars, handlerVars>>

StartFails ==
  /\ phase = "starting"
  /\ phase' = "exited"
  /\ UNCHANGED <<vars, server_up, pool_ref, pool_up, handlerVars>>

\* server.AddService and server.Start; a failure returns from main and the
\* destructor of the sink calls Stop().
Bind ==
  /\ phase = "binding"
  /\ phase' \in {"serving", "stop"}
  /\ UNCHANGED <<vars, server_up, pool_ref, pool_up, handlerVars>>

\* RunUntilAskedToQuit() returns and server.Stop(0) is called.
Quit ==
  /\ phase = "serving"
  /\ phase' = "stopping"
  /\ UNCHANGED <<vars, server_up, pool_ref, pool_up, handlerVars>>

\* server.Join() waits for the handlers that run.
Join ==
  /\ phase = "stopping"
  /\ \A t \in Threads : h[t] = "none"
  /\ phase' = "stop"
  /\ UNCHANGED <<vars, server_up, pool_ref, pool_up, handlerVars>>

\* sink.Stop(): the pool is moved out of pool_ ...
MovePool ==
  /\ phase = "stop"
  /\ pool_ref' = FALSE
  /\ phase' = "shutdown"
  /\ UNCHANGED <<vars, server_up, pool_up, handlerVars>>

\* ... shut down ...
ShutdownPool ==
  /\ phase = "shutdown"
  /\ ShutdownCas \/ ShutdownStep
  /\ UNCHANGED <<lifeVars, handlerVars>>

\* ... and, when Shutdown has returned, destroyed whatever it drained (the
\* destructor calls Shutdown again, which finds shutdown_ set) ...
ResetPool ==
  /\ phase = "shutdown"
  /\ spc = "returned"
  /\ pool_up' = FALSE
  /\ phase' = "reset"
  /\ UNCHANGED <<vars, server_up, pool_ref, handlerVars>>

\* ... and then the server.  The destructor's second Stop() finds nothing.
ResetServer ==
  /\ phase = "reset"
  /\ server_up' = FALSE
  /\ phase' = "exited"
  /\ UNCHANGED <<vars, pool_ref, pool_up, handlerVars>>

-----------------------------------------------------------------------------
Handler(t) ==
  \/ Reject(t) \/ Accept(t)
  \/ TooLong(t) \/ EmptyTransfer(t) \/ AcquireLease(t)
  \/ Acquiring(t) \/ LeaseNotOk(t)
  \/ AllocateChannelId(t) \/ NoChannelLeft(t)
  \/ HandlePutObject(t) \/ ComputeCrc32c(t)
  \/ FreeChannelId(t) \/ ReleaseLease(t) \/ Releasing(t)
  \/ Returned(t) \/ ReplyFailed(t) \/ NotifyAndReply(t)

Main ==
  \/ Start \/ StartFails \/ Bind \/ Join
  \/ MovePool \/ ShutdownPool \/ ResetPool \/ ResetServer

Exited == phase = "exited" /\ UNCHANGED sinkVars

SinkNext ==
  \/ \E t \in Threads : Dispatch(t) \/ Handler(t)
  \/ Main
  \/ Quit
  \/ Exited

SinkSpec == SinkInit /\ [][SinkNext]_sinkVars

\* main() and the handlers run on; clients and the operator need not.
FairSinkSpec ==
  /\ SinkSpec
  /\ \A t \in Threads : WF_sinkVars(Handler(t))
  /\ WF_sinkVars(Main)

-----------------------------------------------------------------------------
(* Properties *)

\* The variables of the sink have the values their declarations allow.
SinkTypeOK ==
  /\ phase \in Phases
  /\ server_up \in BOOLEAN /\ pool_ref \in BOOLEAN /\ pool_up \in BOOLEAN
  /\ h \in [Threads -> HandlerPC]
  /\ req \in [Threads -> Requests \cup {NoRequest}]
  /\ chan \in [Threads -> Channels \cup {NoChannel}]
  /\ channels \subseteq Channels
  /\ got \in [Threads -> Int]
  /\ filled \in [Buffers -> Transfers]
  /\ crc \in [Threads -> Checksums]

\* backend_gds_sink.h: server_ and pool_ stay the same while requests are
\* served, so ReceiveAndDiscard reads them without a lock.  As long as a
\* handler runs, or the pool still has a region to deregister, both objects
\* exist.
AliveWhileUsed ==
  /\ \A t \in Threads : h[t] # "none" => server_up /\ pool_ref /\ pool_up
  /\ registered # {} => server_up /\ pool_up

\* After Stop() the backend leaves no registered region, no host buffer and
\* no channel behind, although Release may cache a buffer in a bucket that
\* Shutdown has already drained: server.Join() keeps the two apart.
CleanExit ==
  phase = "exited" => registered = {} /\ allocated = {} /\ channels = {}

\* Every channel id belongs to exactly one handler, on every return path of
\* ReceiveAndDiscard.
ChannelOwned ==
  /\ \A c \in channels : \E t \in Threads : chan[t] = c
  /\ \A t, u \in Threads : t # u /\ chan[t] # NoChannel => chan[t] # chan[u]

\* The checksum a handler reports covers exactly the bytes its own transfer
\* wrote, whatever other transfers left in the recycled buffer before.
CrcOfOwnBytes ==
  \A t \in Threads :
    /\ ComputeCrc
    /\ h[t] \in {"free_channel", "release", "releasing", "notify"}
    /\ got[t] > 0
    => crc[t] = [of |-> [by |-> t, len |-> got[t]], over |-> got[t]]

\* BufferSizeClasses() ends with kMaxChunkBytes and ReceiveAndDiscard refuses
\* what is longer, so every lease has a class: no transfer, not even one of
\* exactly the limit, takes the path of Acquire that pins host memory of the
\* client's choosing and caches nothing.
NeverOversize == \A t \in Threads : pc[t] # "idle" => cls[t] \in ClassIdx

\* Every request is answered, on whichever path it leaves GdsPut, with all
\* channels and buffers taken by others too.
RequestsAnswered == \A t \in Threads : h[t] = "gdsput" ~> h[t] = "none"

\* A backend that is asked to quit exits: server.Stop(0) keeps new requests
\* away, so Join() sees the last handler end.
QuitExits == phase = "stopping" ~> phase = "exited"

-----------------------------------------------------------------------------
(* The inductive invariant: where a handler is in the pool's code, which   *)
(* objects exist in which phase, and how far Shutdown has come.            *)
HandlerInPool(t) ==
  /\ h[t] \in {"none", "gdsput", "receive", "notify"} => pc[t] = "idle"
  /\ h[t] = "acquiring" =>
       pc[t] \in {"pop", "alloc", "register", "leased", "idle"}
  /\ h[t] \in {"put", "crc", "free_channel", "release"} => pc[t] = "leased"
  /\ h[t] = "releasing" => pc[t] \in {"push", "deregister", "free", "idle"}

ChannelHeld(t) ==
  /\ h[t] \notin {"put", "crc", "free_channel"} => chan[t] = NoChannel
  /\ chan[t] # NoChannel => chan[t] \in channels

TransferDone(t) ==
  /\ h[t] \in {"none", "gdsput", "receive", "acquiring", "put"} => got[t] = 0
  /\ h[t] = "crc" => filled[buf[t]] = [by |-> t, len |-> got[t]]

Lifecycle ==
  /\ phase \in {"binding", "serving", "stopping", "stop"} =>
       server_up /\ pool_ref /\ pool_up
  /\ phase = "shutdown" => server_up /\ pool_up
  /\ phase = "reset" => server_up
  /\ phase \notin {"serving", "stopping"} => \A t \in Threads : h[t] = "none"
  /\ phase \in {"starting", "reset", "exited"} => allocated = {}

DrainProgress ==
  /\ phase \notin {"shutdown", "reset", "exited"} => spc = "running"
  /\ spc = "running" => sidx = 1 /\ to_destroy = <<>>
  /\ phase \in {"shutdown", "reset", "exited"} =>
       \A c \in ClassIdx : c < sidx => free_list[c] = <<>>
  /\ spc \in {"deregister", "free", "returned"} => sidx = Oversize
  /\ spc = "returned" => to_destroy = <<>>

SinkInv ==
  /\ SinkTypeOK
  /\ \A t \in Threads : HandlerInPool(t)
  /\ ChannelOwned
  /\ \A t \in Threads : ChannelHeld(t)
  /\ CrcOfOwnBytes
  /\ \A t \in Threads : TransferDone(t)
  /\ NeverOversize
  /\ Lifecycle
  /\ DrainProgress
=============================================================================
