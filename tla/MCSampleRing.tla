--------------------------- MODULE MCSampleRing ---------------------------
(***************************************************************************)
(* TLC instances of SampleRing.                                            *)
(***************************************************************************)
EXTENDS SampleRing, TLC

Symmetry == Permutations(Client)
=============================================================================
