------------------------- MODULE MCGdsMemoryManager -------------------------
(***************************************************************************)
(* Small instances of GdsMemoryManager.                                    *)
(***************************************************************************)
EXTENDS GdsMemoryManager, TLC

\* Threads are interchangeable, buffers are not: parts of one are uploaded too.
MemorySymmetry == Permutations(Threads)
=============================================================================
