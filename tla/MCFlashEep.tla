---------------------------- MODULE MCFlashEep ----------------------------
(***************************************************************************)
(* TLC instances of FlashEep.                                              *)
(***************************************************************************)
EXTENDS FlashEep, TLC

CONSTANTS empty, a, b, c   \* the objects that are saved

MCObject == {empty, a, b, c}
MCWords == empty :> 0 @@ a :> 1 @@ b :> 1 @@ c :> 2
Symmetry == Permutations(Id) \union Permutations({a, b})
=============================================================================
