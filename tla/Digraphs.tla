------------------------------ MODULE Digraphs ------------------------------
(***************************************************************************)
(* Directed graphs as third_party/terraform/dag keeps them: a set of       *)
(* vertices V and a set E of pairs <<source, target>>.  The operators are  *)
(* those of dag.AcyclicGraph that Kusion's engine calls.  The depth-first  *)
(* walks and Tarjan's algorithm are replaced by what they compute, stated  *)
(* with quantifiers so that the proof modules can use them.                *)
(***************************************************************************)
EXTENDS FiniteSets

(* The sources of the edges that end in v, and the targets of those that   *)
(* start from it.                                                          *)
UpEdges(E, v) == {e[1] : e \in {f \in E : f[2] = v}}

DownEdges(E, v) == {e[2] : e \in {f \in E : f[1] = v}}

(* Every cycle, self references included, keeps a set of vertices in which *)
(* each vertex has a source; a graph is acyclic when no set does.          *)
Acyclic(V, E) ==
  \A S \in SUBSET V :
    S # {} => {v \in S : UpEdges(E, v) \cap S = {}} # {}

(* The vertices that a walk down from the targets of u visits: the least   *)
(* set that holds them and is closed under E.                              *)
Below(V, E, u) ==
  {v \in V : \A C \in SUBSET V :
               (/\ DownEdges(E, u) \subseteq C
                /\ \A w \in C : DownEdges(E, w) \subseteq C) => v \in C}

Roots(V, E) == {v \in V : UpEdges(E, v) = {}}

(* Validate: a single root and no cycle.                                   *)
Validate(V, E) == Cardinality(Roots(V, E)) = 1 /\ Acyclic(V, E)

(* Each edge from u to a vertex that lies below another target of u goes.  *)
TransitiveReduction(V, E) ==
  {e \in E : \A w \in DownEdges(E, e[1]) : e[2] \notin Below(V, E, w)}
=============================================================================
