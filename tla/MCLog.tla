------------------------------- MODULE MCLog --------------------------------
(***************************************************************************)
(* Log for TLC.  No definition tells two processes apart, or two blocks    *)
(* that are not inodestart.                                                *)
(***************************************************************************)
EXTENDS Log, TLC

Symmetry == Permutations(Procs) \cup Permutations(Blocks \ {inodestart})
=============================================================================
