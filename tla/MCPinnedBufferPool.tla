----------------------- MODULE MCPinnedBufferPool -----------------------
(***************************************************************************)
(* Small instances of PinnedBufferPool.  Two classes so that drains and    *)
(* returns under different mutexes interleave; sizes 2 and 3 share a class *)
(* and size 4 is beyond the largest one.                                   *)
(***************************************************************************)
EXTENDS PinnedBufferPool, TLC

MCSizeClasses == <<1, 3>>

\* Workers and addresses are interchangeable.
PoolSymmetry == Permutations(Threads) \cup Permutations(Buffers)
=============================================================================
