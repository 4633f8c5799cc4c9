------------------------ MODULE MCBackendGdsSink ------------------------
(***************************************************************************)
(* Small instances of BackendGdsSink: classes of one and two units, chunks *)
(* from empty to one beyond the limit, fewer channels than handlers.       *)
(***************************************************************************)
EXTENDS BackendGdsSink

MCSizeClasses == <<1, 2>>
=============================================================================
