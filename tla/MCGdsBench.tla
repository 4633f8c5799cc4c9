----------------------------- MODULE MCGdsBench -----------------------------
(***************************************************************************)
(* Small instances of GdsBench.  The workers are the application and pass  *)
(* whole buffers.                                                          *)
(***************************************************************************)
EXTENDS GdsBench
=============================================================================
