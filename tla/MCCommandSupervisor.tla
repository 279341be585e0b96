------------------------ MODULE MCCommandSupervisor ------------------------
(* Model checking of CommandSupervisor: browsers and maps are              *)
(* interchangeable.                                                        *)
EXTENDS CommandSupervisor, TLC

Symmetry == Permutations(Sessions) \cup Permutations(Maps)
=============================================================================
