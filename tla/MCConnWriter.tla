--------------------------- MODULE MCConnWriter ---------------------------
(***************************************************************************)
(* Small instances of ConnWriter for TLC.                                  *)
(***************************************************************************)
EXTENDS ConnWriter, TLC

(* The continuation slots are interchangeable.                             *)
ContSymmetry == Permutations(Conts)
=============================================================================
