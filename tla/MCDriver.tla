-------------------------------- MODULE MCDriver --------------------------------
(* Instance of Driver for TLC: the names of files are interchangeable. *)
EXTENDS DriverProps, TLC

PathSymmetry == Permutations(Path)
=============================================================================
