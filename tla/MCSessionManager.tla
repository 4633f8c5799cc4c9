-------------------------- MODULE MCSessionManager --------------------------
(***************************************************************************)
(* Small instances of SessionManager.                                      *)
(***************************************************************************)
EXTENDS SessionManager, TLC

\* Workers are interchangeable, and so are reports.
SessionSymmetry == Permutations(Workers) \cup Permutations(Reports)
=============================================================================
