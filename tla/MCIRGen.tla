------------------------------ MODULE MCIRGen ------------------------------
(* The instances of IRGen that TLC checks. *)
EXTENDS IRTextProps, TLC

CONSTANTS x, y, p
Symmetry == Permutations(VarNames)
=============================================================================
