------------------------------ MODULE MCGdsPut ------------------------------
(***************************************************************************)
(* Small instances of GdsPut.                                              *)
(***************************************************************************)
EXTENDS GdsPut, TLC

\* The copies of a request are interchangeable.
PutSymmetry == Permutations(Copies)
=============================================================================
