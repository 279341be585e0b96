-------------------------- MODULE MCPaddockGateway --------------------------
(* Model checking of the web process: its connections, parameter owners and *)
(* bags are interchangeable.                                                *)
EXTENDS PaddockGateway

Symmetry ==
    Permutations(Connections) \cup Permutations(Owners) \cup Permutations(Bags)
=============================================================================
