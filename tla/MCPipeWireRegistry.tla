------------------------- MODULE MCPipeWireRegistry -------------------------
(* An instance of PipeWireRegistry in which names are interchangeable.     *)
EXTENDS PipeWireRegistry, TLC

Symmetry == Permutations(Names)
=============================================================================
