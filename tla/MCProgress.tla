----------------------------- MODULE MCProgress -----------------------------
(* Graphs on N resources numbered along their edges, and previews that     *)
(* found any of them, or all but one.                                      *)
EXTENDS Progress

CONSTANT N

MCKeys == 1..N
MCGraphs == SUBSET {e \in MCKeys \X MCKeys : e[1] < e[2]}
MCAny == SUBSET MCKeys
MCStale == {MCKeys \ {k} : k \in MCKeys}
=============================================================================
