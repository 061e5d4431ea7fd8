---------------------------- MODULE MCDagWalker -----------------------------
(* The graphs that Validate accepts and TransitiveReduction leaves alone,  *)
(* on N vertices numbered along their edges: up to renaming, every graph   *)
(* the parsers can hand to the walker.                                     *)
EXTENDS DagWalker

CONSTANT N

MCVertices == 1..N

MCGraphs ==
  {E \in SUBSET {e \in MCVertices \X MCVertices : e[1] < e[2]} :
     /\ Validate(MCVertices, E)
     /\ TransitiveReduction(MCVertices, E) = E}
=============================================================================
