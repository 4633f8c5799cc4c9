---------------------------- MODULE MCPutTiming ----------------------------
(***************************************************************************)
(* Small instances of PutTiming, in units of 50 ms with an int of 4 bits.  *)
(***************************************************************************)
EXTENDS PutTiming

\* Unset, negative, and set.
MCOwnTimeouts == {-1, 0, 2}
=============================================================================
