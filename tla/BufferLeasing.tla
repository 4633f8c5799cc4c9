--------------------------- MODULE BufferLeasing ---------------------------
(***************************************************************************)
(* What a pool of pinned RDMA buffers promises to the request handlers     *)
(* that use it, with no free lists, size classes or shutdown flag in       *)
(* sight.  A handler leases at most one buffer, nobody else has that       *)
(* buffer meanwhile, and the memory region of a leased buffer stays        *)
(* registered with the RDMA NIC until the lease is returned.               *)
(*                                                                         *)
(* PinnedBufferPool implements this specification.                         *)
(***************************************************************************)
CONSTANTS Threads, Buffers, NoBuf

VARIABLES
  pinned,   \* buffers that are registered with the NIC
  held      \* held[t]: the buffer handler t may hand to the NIC, or NoBuf

vars == <<pinned, held>>

Init ==
  /\ pinned = {}
  /\ held = [t \in Threads |-> NoBuf]

\* Buffers come and go behind the scenes, but never under a lease.
Unpin(b) ==
  /\ \A t \in Threads : held[t] # b
  /\ pinned' = pinned \ {b}
  /\ UNCHANGED held

\* A lease is granted on a buffer that was pinned before, or is pinned now.
Lease(t, b) ==
  /\ held[t] = NoBuf
  /\ \A u \in Threads : held[u] # b
  /\ pinned' = pinned \cup {b}
  /\ held' = [held EXCEPT ![t] = b]

Return(t) ==
  /\ held[t] # NoBuf
  /\ held' = [held EXCEPT ![t] = NoBuf]
  /\ UNCHANGED pinned

Next ==
  \/ \E b \in Buffers : Unpin(b)
  \/ \E t \in Threads, b \in Buffers : Lease(t, b)
  \/ \E t \in Threads : Return(t)

Spec == Init /\ [][Next]_vars
=============================================================================
