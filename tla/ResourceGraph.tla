--------------------------- MODULE ResourceGraph ----------------------------
(***************************************************************************)
(* The graph the engine walks (pkg/engine/operation/parser): SpecParser    *)
(* adds the resources of the spec, DeleteResourceParser those that only    *)
(* the recorded state still has, and LinkRefNodes the edges between them.  *)
(* Both range over a Go map, so each takes the resources in any order: one *)
(* step is one turn of the loop.  A resource is its key and the set of the *)
(* keys it depends on, explicitly or by reference.  NewApplyGraph runs the *)
(* two parsers, NewDestroyGraph the second alone.                          *)
(***************************************************************************)
EXTENDS Digraphs

CONSTANTS Keys,      \* the resource keys
          Root,      \* the vertex that stands for no resource
          Specs,     \* the specs to parse, each [keys -> SUBSET Keys]
          Priors     \* the recorded states, likewise

ASSUME RootAssumption == Root \notin Keys

(* A spec and a state are finite maps.                                     *)
ASSUME KeysAssumption == IsFiniteSet(Keys)

ASSUME ResourcesAssumption ==
  \A R \in Specs \cup Priors :
    DOMAIN R \subseteq Keys /\ R \in [DOMAIN R -> SUBSET Keys]

VARIABLES spec,      \* the resources of the request
          prior,     \* the resources of the latest state
          phase,     \* which parser runs, then "walk" or why there is no graph
          todo,      \* the resources its loop has not reached
          manifest,  \* manifestGraphMap: the resources the spec put in the graph
          vertices,  \* the vertices of the graph
          edges,     \* its edges
          action     \* the action each node was created with

vars == <<spec, prior, phase, todo, manifest, vertices, edges, action>>

Refused == {"missing", "circle", "needed"}

Init ==
  /\ prior \in Priors
  /\ \/ spec \in Specs /\ phase = "spec"          \* NewApplyGraph
     \/ spec = <<>> /\ phase = "prior"            \* NewDestroyGraph
  /\ todo = IF phase = "spec" THEN DOMAIN spec ELSE DOMAIN prior
  /\ manifest = {}
  /\ vertices = {Root}
  /\ edges = {}
  /\ action = [k \in Keys |-> "none"]

Refuse(reason) ==
  /\ phase' = reason
  /\ UNCHANGED <<spec, prior, todo, manifest, vertices, edges, action>>

(* Mutant: the last node added under a key wins.                           *)
ReplaceNodes(new, a) ==
  /\ vertices' = vertices \cup new
  /\ action' = [k \in Keys |-> IF k \in new THEN a ELSE action[k]]

(* Add: a node that is already there is kept, with the action it has.      *)
AddNodes(new, a) ==
  /\ vertices' = vertices \cup new
  /\ action' = [k \in Keys |-> IF k \in new \ vertices THEN a ELSE action[k]]

-----------------------------------------------------------------------------
(* LinkRefNodes for an apply: what k depends on comes first.               *)
ApplyEdges(k) == spec[k] \X {k}

(* SpecParser.Parse, one resource: the node, its edge from the root, and   *)
(* an edge from each resource it depends on.                               *)
ParseSpecResource(k) ==
  /\ phase = "spec"
  /\ k \in todo
  /\ IF spec[k] \subseteq DOMAIN spec
     THEN /\ AddNodes({k} \cup spec[k], "Update")
          /\ edges' = edges \cup {<<Root, k>>} \cup ApplyEdges(k)
          /\ todo' = todo \ {k}
          /\ UNCHANGED <<spec, prior, phase, manifest>>
     ELSE Refuse("missing")

(* manifestGraphMap: the nodes of the graph that are resources.            *)
ResourceNodes == vertices \ {Root}

(* The end of its Parse and the start of DeleteResourceParser.Parse.       *)
FinishSpec ==
  /\ phase = "spec"
  /\ todo = {}
  /\ IF Validate(vertices, edges)
     THEN /\ phase' = "prior"
          /\ todo' = DOMAIN prior
          /\ manifest' = ResourceNodes
          /\ edges' = TransitiveReduction(vertices, edges)
          /\ UNCHANGED <<spec, prior, vertices, action>>
     ELSE Refuse("circle")

-----------------------------------------------------------------------------
(* Mutant: priorDependsOn the wrong way round.                             *)
PriorDependencies(k) == prior[k] \cap DOMAIN prior

(* priorDependsOn: the recorded resources that depend on k.                *)
PriorDependents(k) == {j \in DOMAIN prior : k \in prior[j]}

NewDelete(k) == k \notin vertices /\ k \notin manifest

(* "we cannot delete this node if any node dependsOn this node"            *)
Needed(k) == NewDelete(k) /\ PriorDependents(k) \cap manifest # {}

(* Mutant: what goes waits for all that stays.                             *)
SerialEdges(k) ==
  ({k} \X (prior[k] \ manifest)) \cup ((prior[k] \cap manifest) \X {k})
  \cup (manifest \X ({k} \ manifest))

(* LinkRefNodes for a delete: a resource that goes too goes after k; one   *)
(* that stays comes before k.                                              *)
DeleteEdges(k) ==
  ({k} \X (prior[k] \ manifest)) \cup ((prior[k] \cap manifest) \X {k})

(* DeleteResourceParser.Parse, one recorded resource.                      *)
ParsePriorResource(k) ==
  /\ phase = "prior"
  /\ k \in todo
  /\ IF Needed(k) THEN Refuse("needed")
     ELSE IF prior[k] \subseteq DOMAIN prior
     THEN /\ AddNodes({k} \cup prior[k], "Delete")
          /\ edges' = edges \cup DeleteEdges(k)
                      \cup (IF NewDelete(k) THEN {<<Root, k>>} ELSE {})
          /\ todo' = todo \ {k}
          /\ UNCHANGED <<spec, prior, phase, manifest>>
     ELSE Refuse("missing")

(* Mutant: no TransitiveReduction.                                         *)
FinishUnreduced ==
  /\ phase = "prior"
  /\ todo = {}
  /\ IF Validate(vertices, edges)
     THEN /\ phase' = "walk"
          /\ UNCHANGED <<spec, prior, todo, manifest, vertices, edges, action>>
     ELSE Refuse("circle")

(* The end of its Parse.                                                   *)
FinishPrior ==
  /\ phase = "prior"
  /\ todo = {}
  /\ IF Validate(vertices, edges)
     THEN /\ phase' = "walk"
          /\ edges' = TransitiveReduction(vertices, edges)
          /\ UNCHANGED <<spec, prior, todo, manifest, vertices, action>>
     ELSE Refuse("circle")

Done == phase \in {"walk"} \cup Refused /\ UNCHANGED vars

Next ==
  \/ \E k \in Keys : ParseSpecResource(k) \/ ParsePriorResource(k)
  \/ FinishSpec
  \/ FinishPrior
  \/ Done

Spec == Init /\ [][Next]_vars

-----------------------------------------------------------------------------
TypeOK ==
  /\ spec \in Specs \cup {<<>>}
  /\ prior \in Priors
  /\ phase \in {"spec", "prior", "walk"} \cup Refused
  /\ todo \subseteq Keys
  /\ manifest \subseteq Keys
  /\ vertices \subseteq Keys \cup {Root}
  /\ edges \subseteq vertices \X vertices
  /\ action \in [Keys -> {"none", "Update", "Delete"}]

Walk == phase = "walk"
Before(u, v) == v \in Below(vertices, edges, u)
Deleted == DOMAIN prior \ DOMAIN spec
RecordedDependents(k) == {j \in DOMAIN prior : k \in prior[j]}

(* Nothing is forgotten and nothing deleted by mistake: the graph that is  *)
(* walked holds exactly the resources of the spec and of the state, all    *)
(* below the root, and those to delete are those the spec dropped.         *)
GraphComplete ==
  Walk =>
    /\ vertices = {Root} \cup DOMAIN spec \cup DOMAIN prior
    /\ \A k \in vertices \ {Root} : Before(Root, k)
    /\ \A k \in vertices \ {Root} : action[k] = "Delete" <=> k \in Deleted

(* What is to be ordered: a resource is applied after all it depends on,   *)
(* and deleted after all that were recorded as depending on it, after      *)
(* their deletion or, for those that stay, their update.                   *)
WantedEdges ==
  (UNION {spec[k] \X {k} : k \in DOMAIN spec})
  \cup (UNION {(prior[k] \cap DOMAIN spec) \X {k} : k \in DOMAIN prior})
  \cup (UNION {{k} \X (prior[k] \ DOMAIN spec) : k \in DOMAIN prior})

(* This and nothing else is ordered, the rest runs in parallel: the graph  *)
(* orders resources as the one that ApplyEngine works with.                *)
OrderExact ==
  Walk => \A u, v \in Keys : Before(u, v) <=> v \in Below(Keys, WantedEdges, u)

(* What the walker takes for granted: a graph without cycle, and with no   *)
(* edge that a longer path implies.                                        *)
GraphReduced ==
  Walk =>
    /\ Acyclic(vertices, edges)
    /\ \A e \in edges : ~ \E w \in vertices : Before(e[1], w) /\ Before(w, e[2])

(* The graph is well built, at every step and for the walker at the end.   *)
WellBuilt == TypeOK /\ GraphReduced

PriorEdges == UNION {prior[k] \X {k} : k \in DOMAIN prior}
SpecEdges == UNION {spec[k] \X {k} : k \in DOMAIN spec}

(* The recorded dependencies among resources that stay.                    *)
KeptEdges ==
  UNION {(prior[k] \cap DOMAIN spec) \X {k} : k \in DOMAIN prior \cap DOMAIN spec}

(* A request is refused for what it says: as needed only if a resource     *)
(* that stays is recorded as depending on one that goes, as missing only   *)
(* if the spec or the state names a resource it lacks, as circular only if *)
(* the spec, with the recorded dependencies between kept resources, is, or *)
(* the state by itself.  Deletions never make a graph circular.            *)
RefusalJustified ==
  /\ phase = "needed" =>
       \E k \in Deleted : RecordedDependents(k) \cap DOMAIN spec # {}
  /\ phase = "missing" =>
       \E R \in {spec, prior} : \E k \in DOMAIN R : ~(R[k] \subseteq DOMAIN R)
  /\ phase = "circle" =>
       ~Acyclic(Keys, SpecEdges \cup KeptEdges) \/ ~Acyclic(Keys, PriorEdges)

(* "we cannot delete this node if any node dependsOn this node": a graph   *)
(* that deletes a resource the state says a kept one depends on is never   *)
(* walked.                                                                 *)
NoNeededDelete ==
  Walk => \A k \in Deleted : RecordedDependents(k) \cap DOMAIN spec = {}
=============================================================================
