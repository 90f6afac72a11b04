------------------------------ MODULE MCTrashBin ------------------------------
(***************************************************************************)
(* Two library paths that get the same name in the bin, because they lie   *)
(* under different roots, or because one is found again and again.         *)
(***************************************************************************)
EXTENDS TrashBin, TLC

CONSTANTS movie, show, name

SameName == (movie :> name) @@ (show :> name)
=============================================================================
