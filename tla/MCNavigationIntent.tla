------------------------ MODULE MCNavigationIntent ------------------------
(* NavigationIntent with poses that are interchangeable. *)
EXTENDS NavigationIntent, TLC

Symmetry == Permutations(Poses)

=============================================================================
