----------------------------- MODULE MCKeyFiles -----------------------------
(***************************************************************************)
(* The instances of KeyFiles that TLC checks.  Runs of the tool are all    *)
(* alike.                                                                  *)
(***************************************************************************)
EXTENDS KeyFilesInvariant, TLC

RunSymmetry == Permutations(Runs)
=============================================================================
