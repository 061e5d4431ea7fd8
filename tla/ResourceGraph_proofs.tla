------------------------ MODULE ResourceGraph_proofs ------------------------
(***************************************************************************)
(* Proofs about ResourceGraph, for any resources, specs and recorded       *)
(* states.  Reachability is reasoned about through closed sets: what is    *)
(* below a vertex is the least set that is closed under the edges, and two *)
(* sets of edges with the same closed sets order alike.  So an edge that   *)
(* TransitiveReduction takes away, or one more that a later resource adds, *)
(* is seen to matter or not without following a path.                      *)
(***************************************************************************)
EXTENDS ResourceGraph, TLAPS, FiniteSetTheorems, WellFoundedInduction

(* No edge leads out of C.                                                 *)
ClosedUnder(E, C) == \A e \in E : e[1] \in C => e[2] \in C

-----------------------------------------------------------------------------
(* Below is the least closed set that holds the targets of u.              *)
LEMMA BelowLeast ==
  ASSUME NEW V, NEW E \in SUBSET (V \X V), NEW u
  PROVE  /\ Below(V, E, u) \subseteq V
         /\ \A v : <<u, v>> \in E => v \in Below(V, E, u)
         /\ ClosedUnder(E, Below(V, E, u))
         /\ \A C \in SUBSET V :
              (\A v : <<u, v>> \in E => v \in C) /\ ClosedUnder(E, C)
              => Below(V, E, u) \subseteq C
<1>1. \A w, v : v \in DownEdges(E, w) <=> <<w, v>> \in E
  BY DEF DownEdges
<1>2. \A v : <<u, v>> \in E => v \in Below(V, E, u)
  BY <1>1 DEF Below
<1>3. ClosedUnder(E, Below(V, E, u))
  <2> SUFFICES ASSUME NEW e \in E, e[1] \in Below(V, E, u)
               PROVE  e[2] \in Below(V, E, u)
    BY DEF ClosedUnder
  <2>1. e = <<e[1], e[2]>> /\ e[2] \in V
    OBVIOUS
  <2>2. ASSUME NEW C \in SUBSET V, DownEdges(E, u) \subseteq C,
               \A w \in C : DownEdges(E, w) \subseteq C
        PROVE  e[2] \in C
    <3>1. e[1] \in C
      BY <2>2 DEF Below
    <3> QED BY <1>1, <2>1, <2>2, <3>1
  <2> QED BY <2>1, <2>2 DEF Below
<1>4. ASSUME NEW C \in SUBSET V, \A v : <<u, v>> \in E => v \in C, ClosedUnder(E, C)
      PROVE  Below(V, E, u) \subseteq C
  <2>1. DownEdges(E, u) \subseteq C
    BY <1>1, <1>4
  <2>2. \A w \in C : DownEdges(E, w) \subseteq C
    <3> SUFFICES ASSUME NEW w \in C, NEW v, <<w, v>> \in E PROVE v \in C
      BY <1>1
    <3>1. <<w, v>>[1] = w /\ <<w, v>>[2] = v
      OBVIOUS
    <3> QED BY <1>4, <3>1 DEF ClosedUnder
  <2> QED BY <2>1, <2>2 DEF Below
<1> QED BY <1>2, <1>3, <1>4 DEF Below

(* A closed set holds all that is below its members.                       *)
LEMMA ClosedHoldsBelow ==
  ASSUME NEW V, NEW E \in SUBSET (V \X V), NEW C \in SUBSET V, ClosedUnder(E, C),
         NEW u \in C
  PROVE  Below(V, E, u) \subseteq C
<1>1. \A v : <<u, v>> \in E => v \in C
  <2> SUFFICES ASSUME NEW v, <<u, v>> \in E PROVE v \in C
    OBVIOUS
  <2>1. <<u, v>>[1] = u /\ <<u, v>>[2] = v
    OBVIOUS
  <2> QED BY <2>1 DEF ClosedUnder
<1> QED BY <1>1, BelowLeast

LEMMA BelowTransitive ==
  ASSUME NEW V, NEW E \in SUBSET (V \X V), NEW u, NEW w \in Below(V, E, u)
  PROVE  Below(V, E, w) \subseteq Below(V, E, u)
<1>1. Below(V, E, u) \in SUBSET V /\ ClosedUnder(E, Below(V, E, u))
  BY BelowLeast
<1> QED BY <1>1, ClosedHoldsBelow

(* The last step of the way from u to what is below it, and the first.     *)
LEMMA LastStep ==
  ASSUME NEW V, NEW E \in SUBSET (V \X V), NEW u, NEW v \in Below(V, E, u)
  PROVE  \E w : (w = u \/ w \in Below(V, E, u)) /\ <<w, v>> \in E
<1> SUFFICES ASSUME \A w : w = u \/ w \in Below(V, E, u) => <<w, v>> \notin E
             PROVE  FALSE
  OBVIOUS
<1> DEFINE C == Below(V, E, u) \ {v}
<1>1. C \in SUBSET V /\ \A x : <<u, x>> \in E => x \in C
  BY BelowLeast
<1>2. ClosedUnder(E, C)
  <2> SUFFICES ASSUME NEW e \in E, e[1] \in C PROVE e[2] \in C
    BY DEF ClosedUnder
  <2>1. e = <<e[1], e[2]>>
    OBVIOUS
  <2>2. e[2] \in Below(V, E, u)
    BY BelowLeast DEF ClosedUnder
  <2> QED BY <2>1, <2>2
<1>3. v \in C
  BY <1>1, <1>2, BelowLeast
<1> QED BY <1>3

LEMMA FirstStep ==
  ASSUME NEW V, NEW E \in SUBSET (V \X V), NEW u, NEW v \in Below(V, E, u)
  PROVE  \E w : <<u, w>> \in E /\ (w = v \/ v \in Below(V, E, w))
<1> DEFINE C == {x \in V : \E w : <<u, w>> \in E /\ (w = x \/ x \in Below(V, E, w))}
<1>1. \A x : <<u, x>> \in E => x \in C
  OBVIOUS
<1>2. ClosedUnder(E, C)
  <2> SUFFICES ASSUME NEW e \in E, e[1] \in C PROVE e[2] \in C
    BY DEF ClosedUnder
  <2>1. e = <<e[1], e[2]>> /\ e[2] \in V
    OBVIOUS
  <2>2. PICK w : <<u, w>> \in E /\ (w = e[1] \/ e[1] \in Below(V, E, w))
    OBVIOUS
  <2>3. e[2] \in Below(V, E, w)
    BY <2>1, <2>2, BelowLeast DEF ClosedUnder
  <2> QED BY <2>1, <2>2, <2>3
<1>3. C \in SUBSET V
  OBVIOUS
<1> HIDE DEF C
<1>4. v \in C
  BY <1>1, <1>2, <1>3, BelowLeast
<1> QED BY <1>4 DEF C

(* Validate's cycles: without one nothing is below itself.                 *)
LEMMA AcyclicIrreflexive ==
  ASSUME NEW V, NEW E \in SUBSET (V \X V), Acyclic(V, E), NEW u
  PROVE  u \notin Below(V, E, u)
<1> SUFFICES ASSUME u \in Below(V, E, u) PROVE FALSE
  OBVIOUS
<1> DEFINE S == {w \in Below(V, E, u) : u \in Below(V, E, w)}
<1>1. S \in SUBSET V /\ u \in S
  BY BelowLeast
<1> HIDE DEF S
<1>2. PICK w \in S : UpEdges(E, w) \cap S = {}
  BY <1>1 DEF Acyclic
<1>3. w \in Below(V, E, u) /\ u \in Below(V, E, w)
  BY <1>2 DEF S
<1>4. PICK x : (x = u \/ x \in Below(V, E, u)) /\ <<x, w>> \in E
  BY <1>3, LastStep
<1>5. w \in Below(V, E, x)
  BY <1>4, BelowLeast
<1>6. x \in Below(V, E, u) /\ u \in Below(V, E, x)
  BY <1>3, <1>4, <1>5, BelowTransitive
<1>7. x \in UpEdges(E, w)
  BY <1>4 DEF UpEdges
<1> QED BY <1>2, <1>6, <1>7 DEF S

(* A finite set has a member with no other member below it.                *)
LEMMA Deepest ==
  ASSUME NEW V, IsFiniteSet(V), NEW E \in SUBSET (V \X V), Acyclic(V, E),
         NEW Y \in SUBSET V, Y # {}
  PROVE  \E y \in Y : Y \cap Below(V, E, y) = {}
<1> DEFINE B(y) == Below(V, E, y)
           T == {B(y) : y \in Y}
<1>1. T \subseteq FiniteSubsetsOf(V)
  <2>1. \A y \in Y : B(y) \in SUBSET V
    BY BelowLeast
  <2>2. \A X \in SUBSET V : IsFiniteSet(X)
    BY FS_Subset
  <2> QED BY <2>1, <2>2 DEF FiniteSubsetsOf
<1>2. T # {}
  OBVIOUS
<1>3. IsWellFoundedOn(StrictSubsetOrdering(V), FiniteSubsetsOf(V))
  BY FS_StrictSubsetOrderingWellFounded
<1> HIDE DEF T
<1>4. PICK t \in T : \A s \in T : ~(<<s, t>> \in StrictSubsetOrdering(V))
  BY <1>1, <1>2, <1>3, WFMin
<1>5. PICK y \in Y : t = B(y)
  BY <1>4 DEF T
<1>6. ASSUME NEW z \in Y, z \in B(y) PROVE FALSE
  <2>1. B(z) \subseteq B(y)
    BY <1>6, BelowTransitive
  <2>2. z \notin B(z)
    BY AcyclicIrreflexive
  <2>3. B(z) \in T /\ B(z) \in SUBSET V /\ B(y) \in SUBSET V
    BY BelowLeast DEF T
  <2>4. <<B(z), B(y)>> \in StrictSubsetOrdering(V)
    BY <1>6, <2>1, <2>2, <2>3 DEF StrictSubsetOrdering
  <2> QED BY <1>4, <1>5, <2>3, <2>4
<1> QED BY <1>6

-----------------------------------------------------------------------------
(* TransitiveReduction leaves the order as it is: what is closed under the *)
(* edges it keeps is closed under those it takes away.                     *)
LEMMA ReductionCloses ==
  ASSUME NEW V, IsFiniteSet(V), NEW E \in SUBSET (V \X V), Acyclic(V, E),
         NEW C \in SUBSET V, ClosedUnder(TransitiveReduction(V, E), C)
  PROVE  ClosedUnder(E, C)
<1> SUFFICES ASSUME NEW e \in E, e[1] \in C, e[2] \notin C PROVE FALSE
  BY DEF ClosedUnder
<1> DEFINE R == C \cup {v \in V : \E u \in C : v \in Below(V, E, u)}
           D == R \ C
<1>1. D \in SUBSET V /\ e[2] \in D
  <2>1. e = <<e[1], e[2]>> /\ e[2] \in V
    OBVIOUS
  <2> QED BY <2>1, BelowLeast
<1>2. ASSUME NEW y \in R PROVE Below(V, E, y) \subseteq R
  BY <1>2, BelowTransitive, BelowLeast
<1>3. \A v \in D : \E u \in C : v \in Below(V, E, u)
  OBVIOUS
<1>4. \A u \in C : Below(V, E, u) \subseteq R
  BY BelowLeast
<1>5. C \subseteq R /\ R \in SUBSET V
  OBVIOUS
<1> HIDE DEF R
<1>6. PICK v \in D : UpEdges(E, v) \cap D = {}
  BY <1>1 DEF Acyclic
<1> DEFINE Y == {y \in R : <<y, v>> \in E}
<1>7. Y # {}
  <2>1. PICK u \in C : v \in Below(V, E, u)
    BY <1>3
  <2>2. PICK w : (w = u \/ w \in Below(V, E, u)) /\ <<w, v>> \in E
    BY <2>1, LastStep
  <2> QED BY <2>2, <1>4, <1>5
<1>8. Y \subseteq C
  BY <1>6 DEF UpEdges
<1>9. PICK y \in Y : Y \cap Below(V, E, y) = {}
  <2>1. Y \in SUBSET V
    BY <1>5
  <2> HIDE DEF Y
  <2> QED BY <1>7, <2>1, Deepest
<1>10. <<y, v>> \notin TransitiveReduction(V, E)
  <2>1. <<y, v>>[1] = y /\ <<y, v>>[2] = v
    OBVIOUS
  <2> QED BY <1>8, <1>6, <2>1 DEF ClosedUnder
<1>11. PICK w : <<y, w>> \in E /\ v \in Below(V, E, w)
  BY <1>10 DEF TransitiveReduction, DownEdges
<1>12. PICK z : (z = w \/ z \in Below(V, E, w)) /\ <<z, v>> \in E
  BY <1>11, LastStep
<1>13. z \in Below(V, E, y)
  BY <1>11, <1>12, BelowLeast, BelowTransitive
<1>14. z \in R
  BY <1>2, <1>13
<1> QED BY <1>9, <1>12, <1>13, <1>14

LEMMA ReductionIsPart ==
  ASSUME NEW V, NEW E PROVE TransitiveReduction(V, E) \subseteq E
BY DEF TransitiveReduction

LEMMA FewerEdgesAcyclic ==
  ASSUME NEW V, NEW E, NEW F \in SUBSET E, Acyclic(V, E)
  PROVE  Acyclic(V, F)
<1>1. \A v : UpEdges(F, v) \subseteq UpEdges(E, v)
  BY DEF UpEdges
<1> SUFFICES ASSUME NEW S \in SUBSET V, S # {}
             PROVE  {v \in S : UpEdges(F, v) \cap S = {}} # {}
  BY DEF Acyclic
<1>2. PICK v \in S : UpEdges(E, v) \cap S = {}
  BY DEF Acyclic
<1> QED BY <1>1, <1>2

(* More vertices, without an edge, change nothing.                         *)
LEMMA MoreVerticesAcyclic ==
  ASSUME NEW V, NEW U, V \subseteq U, NEW E \in SUBSET (V \X V), Acyclic(V, E)
  PROVE  Acyclic(U, E)
<1> SUFFICES ASSUME NEW S \in SUBSET U, S # {}
             PROVE  \E v \in S : UpEdges(E, v) \cap S = {}
  BY DEF Acyclic
<1>1. CASE S \cap V = {}
  <2>1. \A v \in S : UpEdges(E, v) = {}
    BY <1>1 DEF UpEdges
  <2> QED BY <2>1
<1>2. CASE S \cap V # {}
  <2>1. PICK v \in S \cap V : UpEdges(E, v) \cap (S \cap V) = {}
    BY <1>2 DEF Acyclic
  <2>2. UpEdges(E, v) \subseteq V
    BY DEF UpEdges
  <2> QED BY <2>1, <2>2
<1> QED BY <1>1, <1>2

LEMMA MoreVerticesBelow ==
  ASSUME NEW V, NEW U, V \subseteq U, NEW E \in SUBSET (V \X V), NEW u
  PROVE  Below(U, E, u) = Below(V, E, u)
<1>1. E \in SUBSET (U \X U) /\ \A v : <<u, v>> \in E => v \in V
  OBVIOUS
<1>2. Below(U, E, u) \subseteq Below(V, E, u)
  <2>1. Below(V, E, u) \in SUBSET U
    BY BelowLeast
  <2> QED BY <1>1, <2>1, BelowLeast
<1>3. Below(V, E, u) \subseteq Below(U, E, u)
  <2>1. ClosedUnder(E, Below(U, E, u) \cap V)
    <3>1. \A e \in E : e[2] \in V
      OBVIOUS
    <3> QED BY <1>1, <3>1, BelowLeast DEF ClosedUnder
  <2>2. \A v : <<u, v>> \in E => v \in Below(U, E, u) \cap V
    BY <1>1, BelowLeast
  <2> QED BY <2>1, <2>2, BelowLeast
<1> QED BY <1>2, <1>3

(* What is closed says what is below: two sets of edges with the same      *)
(* closed sets order alike, if one has no cycle and the other no edge from *)
(* a vertex to itself.                                                     *)
LEMMA SameClosedSameBelow ==
  ASSUME NEW V, NEW W \in SUBSET V,
         NEW E \in SUBSET (V \X W), NEW F \in SUBSET (W \X W),
         Acyclic(V, E), \A v : <<v, v>> \notin F,
         \A C \in SUBSET W : ClosedUnder(E, C) <=> ClosedUnder(F, C),
         NEW u \in W
  PROVE  Below(V, E, u) = Below(W, F, u)
<1>1. E \in SUBSET (V \X V)
  OBVIOUS
<1>2. ASSUME NEW x \in W PROVE Below(W, F, x) \subseteq {x} \cup Below(V, E, x)
  <2>1. Below(V, E, x) \subseteq W
    <3>1. \A v \in Below(V, E, x) : \E w : <<w, v>> \in E
      BY <1>1, LastStep
    <3> QED BY <3>1
  <2>2. ClosedUnder(E, {x} \cup Below(V, E, x))
    <3> SUFFICES ASSUME NEW e \in E, e[1] \in {x} \cup Below(V, E, x)
                 PROVE  e[2] \in Below(V, E, x)
      BY DEF ClosedUnder
    <3>1. e = <<e[1], e[2]>>
      OBVIOUS
    <3> QED BY <1>1, <3>1, BelowLeast DEF ClosedUnder
  <2>3. ClosedUnder(F, {x} \cup Below(V, E, x))
    BY <2>1, <2>2
  <2> QED BY <1>2, <2>1, <2>3, ClosedHoldsBelow
<1>3. Below(V, E, u) \subseteq {u} \cup Below(W, F, u)
  <2>1. Below(W, F, u) \subseteq W
    BY BelowLeast
  <2>2. ClosedUnder(F, {u} \cup Below(W, F, u))
    <3> SUFFICES ASSUME NEW e \in F, e[1] \in {u} \cup Below(W, F, u)
                 PROVE  e[2] \in Below(W, F, u)
      BY DEF ClosedUnder
    <3>1. e = <<e[1], e[2]>>
      OBVIOUS
    <3> QED BY <3>1, BelowLeast DEF ClosedUnder
  <2>3. ClosedUnder(E, {u} \cup Below(W, F, u))
    BY <2>1, <2>2
  <2>4. {u} \cup Below(W, F, u) \in SUBSET V /\ u \in {u} \cup Below(W, F, u)
    BY <2>1
  <2> QED BY <1>1, <2>3, <2>4, ClosedHoldsBelow
<1>4. u \notin Below(V, E, u)
  BY <1>1, AcyclicIrreflexive
<1>5. u \notin Below(W, F, u)
  <2> SUFFICES ASSUME u \in Below(W, F, u) PROVE FALSE
    OBVIOUS
  <2>1. PICK w : (w = u \/ w \in Below(W, F, u)) /\ <<w, u>> \in F
    BY LastStep
  <2>2. w \in W /\ w \in Below(V, E, u)
    BY <1>2, <2>1
  <2>3. u \in Below(V, E, w)
    BY <1>2, <2>1, <2>2, BelowLeast
  <2> QED BY <1>1, <1>4, <2>2, <2>3, BelowTransitive
<1> QED BY <1>2, <1>3, <1>4, <1>5

(* What makes an acyclic graph reduced: no edge is implied by a longer way.*)
LEMMA ReductionIsReduced ==
  ASSUME NEW V, IsFiniteSet(V), NEW E \in SUBSET (V \X V), Acyclic(V, E),
         NEW e \in TransitiveReduction(V, E),
         NEW w \in Below(V, TransitiveReduction(V, E), e[1])
  PROVE  e[2] \notin Below(V, TransitiveReduction(V, E), w)
<1> DEFINE R == TransitiveReduction(V, E)
<1>1. R \subseteq E
  BY ReductionIsPart
<1>2. ASSUME NEW x PROVE Below(V, R, x) \subseteq Below(V, E, x)
  <2>1. ClosedUnder(R, Below(V, E, x))
    BY <1>1, BelowLeast DEF ClosedUnder
  <2>2. R \in SUBSET (V \X V)
    BY <1>1
  <2> HIDE DEF R
  <2> QED BY <1>1, <2>1, <2>2, BelowLeast
<1>3. w \in Below(V, E, e[1])
  BY <1>2
<1>4. PICK x : <<e[1], x>> \in E /\ (x = w \/ w \in Below(V, E, x))
  BY <1>3, FirstStep
<1>5. e[2] \notin Below(V, E, x)
  BY <1>4 DEF TransitiveReduction, DownEdges
<1>6. Below(V, E, w) \subseteq Below(V, E, x)
  BY <1>4, BelowTransitive
<1> QED BY <1>2, <1>5, <1>6

-----------------------------------------------------------------------------
(* The resources whose dependencies are in the graph, and the edges that   *)
(* they asked for.                                                         *)
Applied == IF phase = "spec" THEN DOMAIN spec \ todo ELSE DOMAIN spec
Removed == IF phase = "spec" THEN {} ELSE DOMAIN prior \ todo

Asked ==
  {e \in Keys \X Keys :
     (\E k \in Applied : e \in ApplyEdges(k)) \/ (\E k \in Removed : e \in DeleteEdges(k))}

(* How far the loops are, and the nodes they have added.                   *)
NodesInv ==
  /\ todo \subseteq (IF phase = "spec" THEN DOMAIN spec ELSE DOMAIN prior)
  /\ phase = "walk" => todo = {}
  /\ manifest = (IF phase = "spec" THEN {} ELSE DOMAIN spec)
  /\ {Root} \cup Applied \cup Removed \subseteq vertices
  /\ \A k \in Applied : spec[k] \subseteq DOMAIN spec
  /\ vertices \subseteq {Root} \cup DOMAIN spec
                        \cup (IF phase = "spec" THEN {} ELSE DOMAIN prior)
  /\ action = [k \in Keys |-> IF k \notin vertices THEN "none"
                              ELSE IF k \in DOMAIN spec THEN "Update" ELSE "Delete"]

(* The edges say what was asked for: none is made up, and what the first   *)
(* reduction took away still follows.                                      *)
EdgesInv ==
  /\ edges \subseteq vertices \X (vertices \ {Root})
  /\ edges \subseteq ({Root} \X Keys) \cup Asked
  /\ \A C \in SUBSET Keys : ClosedUnder(edges, C) => ClosedUnder(Asked, C)
  /\ \A k \in Keys : <<k, k>> \in Asked => <<k, k>> \in edges

(* The root leads everywhere, once a resource's turn has come.             *)
RootInv ==
  \A C \in SUBSET (Keys \cup {Root}) :
    Root \in C /\ ClosedUnder(edges, C) =>
      (IF phase = "spec" THEN Applied ELSE vertices) \subseteq C

GraphInv ==
  /\ TypeOK
  /\ RefusalJustified
  /\ GraphReduced
  /\ phase \notin Refused => NodesInv /\ EdgesInv /\ RootInv

-----------------------------------------------------------------------------
LEMMA ResourceTypes ==
  ASSUME TypeOK
  PROVE  /\ DOMAIN spec \subseteq Keys
         /\ \A k \in DOMAIN spec : spec[k] \subseteq Keys
         /\ DOMAIN prior \subseteq Keys
         /\ \A k \in DOMAIN prior : prior[k] \subseteq Keys
<1>1. prior \in Priors /\ (spec \in Specs \/ spec = <<>>)
  BY DEF TypeOK
<1>2. DOMAIN <<>> = {}
  OBVIOUS
<1> QED BY <1>1, <1>2, ResourcesAssumption

(* Closed under edges, one by one.                                         *)
LEMMA ClosedPairs ==
  ASSUME NEW S, NEW T, NEW E \in SUBSET (S \X T), NEW C
  PROVE  ClosedUnder(E, C) <=> \A u, v : <<u, v>> \in E /\ u \in C => v \in C
<1>1. \A e \in E : e = <<e[1], e[2]>>
  OBVIOUS
<1>2. \A u, v : <<u, v>>[1] = u /\ <<u, v>>[2] = v
  OBVIOUS
<1> QED BY <1>1, <1>2 DEF ClosedUnder

LEMMA GraphTypes ==
  ASSUME TypeOK
  PROVE  /\ vertices \in SUBSET (Keys \cup {Root})
         /\ IsFiniteSet(vertices)
         /\ edges \in SUBSET (vertices \X vertices)
<1>1. vertices \in SUBSET (Keys \cup {Root}) /\ edges \in SUBSET (vertices \X vertices)
  BY DEF TypeOK
<1>2. IsFiniteSet(Keys \cup {Root})
  BY KeysAssumption, FS_AddElement
<1> QED BY <1>1, <1>2, FS_Subset

LEMMA GraphInit == Init => GraphInv
<1> SUFFICES ASSUME Init PROVE GraphInv
  OBVIOUS
<1>1. TypeOK
  <2>1. DOMAIN spec \subseteq Keys /\ DOMAIN prior \subseteq Keys
    <3>1. DOMAIN <<>> = {}
      OBVIOUS
    <3> QED BY <3>1, ResourcesAssumption DEF Init
  <2> QED BY <2>1 DEF Init, TypeOK, Refused
<1>2. phase \in {"spec", "prior"} /\ DOMAIN <<>> = {}
  BY DEF Init
<1>3. RefusalJustified /\ GraphReduced
  BY <1>2 DEF RefusalJustified, GraphReduced, Walk
<1>4. Applied = {} /\ Removed = {}
  BY <1>2 DEF Init, Applied, Removed
<1>5. NodesInv
  BY <1>2, <1>4, RootAssumption DEF Init, NodesInv
<1>6. Asked = {}
  BY <1>4 DEF Asked
<1>7. EdgesInv
  BY <1>6 DEF Init, EdgesInv, ClosedUnder
<1>8. RootInv
  BY <1>4 DEF Init, RootInv
<1> QED BY <1>1, <1>3, <1>5, <1>7, <1>8 DEF GraphInv

(* A refusal, for a good reason, keeps the invariant.                      *)
LEMMA RefuseKeeps ==
  ASSUME GraphInv, NEW reason \in Refused, Refuse(reason), RefusalJustified'
  PROVE  GraphInv'
<1>1. TypeOK'
  BY DEF GraphInv, TypeOK, Refuse
<1>2. GraphReduced'
  BY DEF Refuse, GraphReduced, Walk, Refused
<1> QED BY <1>1, <1>2 DEF GraphInv, Refuse

(* Nodes that are added are typed and keep their action.                   *)
LEMMA AddNodesKeeps ==
  ASSUME TypeOK, NEW new \in SUBSET Keys, NEW a \in {"Update", "Delete"}, AddNodes(new, a)
  PROVE  /\ vertices' \in SUBSET (Keys \cup {Root})
         /\ vertices' = vertices \cup new
         /\ action' \in [Keys -> {"none", "Update", "Delete"}]
         /\ \A k \in Keys : action'[k] = IF k \in new \ vertices THEN a ELSE action[k]
BY DEF AddNodes, TypeOK

LEMMA SpecResourceKeeps ==
  ASSUME GraphInv, NEW k \in Keys, ParseSpecResource(k)
  PROVE  GraphInv'
<1>1. /\ TypeOK /\ NodesInv /\ EdgesInv /\ RootInv
      /\ phase = "spec" /\ k \in todo /\ k \in DOMAIN spec /\ todo \subseteq DOMAIN spec
  BY DEF GraphInv, ParseSpecResource, Refused, NodesInv
<1>2. CASE ~(spec[k] \subseteq DOMAIN spec)
  <2>1. Refuse("missing")
    BY <1>2 DEF ParseSpecResource
  <2>2. RefusalJustified'
    BY <1>1, <1>2, <2>1 DEF Refuse, RefusalJustified
  <2> QED BY <2>1, <2>2, RefuseKeeps DEF Refused
<1>3. CASE spec[k] \subseteq DOMAIN spec
  <2>1. /\ AddNodes({k} \cup spec[k], "Update")
        /\ edges' = edges \cup {<<Root, k>>} \cup ApplyEdges(k)
        /\ todo' = todo \ {k}
        /\ spec' = spec /\ prior' = prior /\ phase' = phase /\ manifest' = manifest
    BY <1>3 DEF ParseSpecResource
  <2>2. DOMAIN spec \subseteq Keys /\ spec[k] \in SUBSET Keys
    BY <1>1, ResourceTypes
  <2>3. /\ vertices' \in SUBSET (Keys \cup {Root})
        /\ vertices' = vertices \cup {k} \cup spec[k]
        /\ action' \in [Keys -> {"none", "Update", "Delete"}]
        /\ \A j \in Keys : action'[j] = IF j \in ({k} \cup spec[k]) \ vertices
                                        THEN "Update" ELSE action[j]
    BY <1>1, <2>1, <2>2, AddNodesKeeps
  <2>4. Applied' = Applied \cup {k} /\ Removed' = {} /\ Removed = {}
    BY <1>1, <2>1 DEF Applied, Removed
  <2>5. \A u, v : <<u, v>> \in ApplyEdges(k) <=> u \in spec[k] /\ v = k
    BY DEF ApplyEdges
  <2>6. Asked' = Asked \cup ApplyEdges(k)
    <3>1. ApplyEdges(k) \subseteq Keys \X Keys
      BY <2>2 DEF ApplyEdges
    <3>2. \A j : ApplyEdges(j)' = ApplyEdges(j)
      BY <2>1 DEF ApplyEdges
    <3> QED BY <2>4, <3>1, <3>2 DEF Asked
  <2>7. Root \in vertices /\ Root \notin Keys
    BY <1>1, RootAssumption DEF NodesInv
  <2>8. edges' \subseteq vertices' \X (vertices' \ {Root})
    <3>1. ApplyEdges(k) \subseteq vertices' \X (vertices' \ {Root})
      BY <2>2, <2>3, <2>7 DEF ApplyEdges
    <3>2. edges \subseteq vertices \X (vertices \ {Root})
      BY <1>1 DEF EdgesInv
    <3> QED BY <2>1, <2>3, <2>7, <3>1, <3>2
  <2>9. TypeOK'
    BY <1>1, <2>1, <2>3, <2>8 DEF TypeOK
  <2>10. NodesInv'
    BY <1>1, <1>3, <2>1, <2>2, <2>3, <2>4 DEF NodesInv
  <2>11. EdgesInv'
    <3>1. edges' \subseteq ({Root} \X Keys) \cup Asked'
      BY <1>1, <2>1, <2>6 DEF EdgesInv
    <3>2. ASSUME NEW C \in SUBSET Keys, ClosedUnder(edges', C) PROVE ClosedUnder(Asked', C)
      BY <1>1, <2>1, <2>6, <3>2 DEF EdgesInv, ClosedUnder
    <3>3. \A j \in Keys : <<j, j>> \in Asked' => <<j, j>> \in edges'
      BY <1>1, <2>1, <2>6 DEF EdgesInv
    <3> QED BY <2>8, <3>1, <3>2, <3>3 DEF EdgesInv
  <2>12. RootInv'
    <3> SUFFICES ASSUME NEW C \in SUBSET (Keys \cup {Root}), Root \in C,
                        ClosedUnder(edges', C)
                 PROVE  Applied' \subseteq C
      BY <1>1, <2>1 DEF RootInv
    <3>1. ClosedUnder(edges, C)
      BY <2>1 DEF ClosedUnder
    <3>2. Applied \subseteq C
      BY <1>1, <3>1 DEF RootInv
    <3>3. <<Root, k>> \in edges' /\ <<Root, k>>[1] = Root /\ <<Root, k>>[2] = k
      BY <2>1
    <3>4. k \in C
      BY <3>3 DEF ClosedUnder
    <3> QED BY <2>4, <3>2, <3>4
  <2>13. RefusalJustified' /\ GraphReduced'
    BY <1>1, <2>1 DEF RefusalJustified, GraphReduced, Walk
  <2> QED BY <2>9, <2>10, <2>11, <2>12, <2>13 DEF GraphInv
<1> QED BY <1>2, <1>3

-----------------------------------------------------------------------------
LEMMA AskedEdge ==
  ASSUME NEW u, NEW v, <<u, v>> \in Asked
  PROVE  \/ v \in Applied /\ u \in spec[v]
         \/ u \in Removed /\ v \in prior[u] \ manifest
         \/ v \in Removed /\ u \in prior[v] \cap manifest
BY DEF Asked, ApplyEdges, DeleteEdges

(* Validate never finds a second root.                                     *)
LEMMA SingleRoot ==
  ASSUME GraphInv, phase \in {"spec", "prior"}, todo = {}
  PROVE  Cardinality(Roots(vertices, edges)) = 1
<1>1. NodesInv /\ EdgesInv /\ RootInv /\ TypeOK
  BY DEF GraphInv, Refused
<1>2. vertices \ {Root} \subseteq (IF phase = "spec" THEN Applied ELSE vertices)
  BY <1>1 DEF NodesInv, Applied
<1>3. Root \in vertices /\ UpEdges(edges, Root) = {}
  BY <1>1 DEF NodesInv, EdgesInv, UpEdges
<1>4. ASSUME NEW k \in vertices \ {Root}, UpEdges(edges, k) = {} PROVE FALSE
  <2>1. ClosedUnder(edges, vertices \ {k})
    <3> SUFFICES ASSUME NEW e \in edges PROVE e[2] \in vertices \ {k}
      BY DEF ClosedUnder
    <3> QED BY <1>1, <1>4 DEF EdgesInv, UpEdges
  <2>2. Root \in vertices \ {k} /\ vertices \ {k} \in SUBSET (Keys \cup {Root})
    BY <1>1, <1>3, GraphTypes
  <2>3. k \in vertices \ {k}
    BY <1>1, <1>2, <2>1, <2>2 DEF RootInv
  <2> QED BY <2>3
<1>5. Roots(vertices, edges) = {Root}
  BY <1>3, <1>4 DEF Roots
<1> QED BY <1>5, FS_Singleton

(* A circle in the graph is one in the request or in the state.            *)
LEMMA CircleJustified ==
  ASSUME GraphInv, phase \in {"spec", "prior"}, todo = {},
         Acyclic(Keys, SpecEdges \cup KeptEdges), Acyclic(Keys, PriorEdges)
  PROVE  Acyclic(vertices, edges)
<1>1. NodesInv /\ EdgesInv /\ TypeOK
  BY DEF GraphInv, Refused
<1>2. ASSUME NEW x, NEW v, <<x, v>> \in edges, x # Root
      PROVE  \/ v \in DOMAIN spec /\ x \in spec[v] \cap DOMAIN spec
             \/ x \in DOMAIN prior /\ v \in prior[x] \ DOMAIN spec
             \/ v \in DOMAIN prior /\ x \in prior[v] \cap DOMAIN spec
  <2>1. <<x, v>> \in Asked
    BY <1>1, <1>2 DEF EdgesInv
  <2>2. Applied \subseteq DOMAIN spec /\ Removed \subseteq DOMAIN prior
    BY DEF Applied, Removed
  <2>3. Removed # {} => manifest = DOMAIN spec
    BY <1>1 DEF NodesInv, Removed
  <2> QED BY <1>1, <2>1, <2>2, <2>3, AskedEdge DEF NodesInv
<1> SUFFICES ASSUME NEW S \in SUBSET vertices, S # {}
             PROVE  \E v \in S : UpEdges(edges, v) \cap S = {}
  BY DEF Acyclic
<1>3. CASE Root \in S
  BY <1>1, <1>3 DEF EdgesInv, UpEdges
<1>4. CASE Root \notin S /\ S \cap DOMAIN spec # {}
  <2>1. S \cap DOMAIN spec \in SUBSET Keys
    BY <1>1, ResourceTypes
  <2>2. PICK v \in S \cap DOMAIN spec :
               UpEdges(SpecEdges \cup KeptEdges, v) \cap (S \cap DOMAIN spec) = {}
    BY <1>4, <2>1 DEF Acyclic
  <2>3. ASSUME NEW x \in S, <<x, v>> \in edges PROVE FALSE
    <3>1. x # Root
      BY <1>4
    <3>2. x \in DOMAIN spec /\ (x \in spec[v] \/ (v \in DOMAIN prior /\ x \in prior[v]))
      BY <1>2, <2>2, <2>3, <3>1
    <3>3. <<x, v>> \in SpecEdges \cup KeptEdges
      BY <2>2, <3>2 DEF SpecEdges, KeptEdges
    <3>4. x \in UpEdges(SpecEdges \cup KeptEdges, v)
      BY <3>3 DEF UpEdges
    <3> QED BY <2>2, <3>2, <3>4
  <2>4. edges \in SUBSET (vertices \X vertices)
    BY <1>1, GraphTypes
  <2>5. UpEdges(edges, v) \cap S = {}
    BY <2>3, <2>4 DEF UpEdges
  <2> QED BY <2>5
<1>5. CASE Root \notin S /\ S \cap DOMAIN spec = {}
  <2>1. S \in SUBSET Keys
    BY <1>1, <1>5, GraphTypes
  <2>2. PriorEdges \in SUBSET (Keys \X Keys)
    BY <1>1, ResourceTypes DEF PriorEdges
  <2>3. PICK v \in S : S \cap Below(Keys, PriorEdges, v) = {}
    BY <2>1, <2>2, Deepest, KeysAssumption
  <2>4. ASSUME NEW x \in S, <<x, v>> \in edges PROVE FALSE
    <3>1. x \in DOMAIN prior /\ v \in prior[x]
      BY <1>2, <1>5, <2>4
    <3>2. <<v, x>> \in PriorEdges
      BY <3>1 DEF PriorEdges
    <3> QED BY <2>2, <2>3, <3>2, BelowLeast
  <2>5. edges \in SUBSET (vertices \X vertices)
    BY <1>1, GraphTypes
  <2>6. UpEdges(edges, v) \cap S = {}
    BY <2>4, <2>5 DEF UpEdges
  <2> QED BY <2>6
<1> QED BY <1>3, <1>4, <1>5

LEMMA CircleKeeps ==
  ASSUME GraphInv, phase \in {"spec", "prior"}, todo = {},
         ~Validate(vertices, edges), Refuse("circle")
  PROVE  GraphInv'
<1>1. ~Acyclic(vertices, edges)
  BY SingleRoot DEF Validate
<1>2. ~Acyclic(Keys, SpecEdges \cup KeptEdges) \/ ~Acyclic(Keys, PriorEdges)
  BY <1>1, CircleJustified
<1>3. spec' = spec /\ prior' = prior /\ phase' = "circle"
  BY DEF Refuse
<1>4. (SpecEdges \cup KeptEdges)' = SpecEdges \cup KeptEdges /\ PriorEdges' = PriorEdges
  BY <1>3 DEF SpecEdges, KeptEdges, PriorEdges
<1>5. RefusalJustified'
  BY <1>2, <1>3, <1>4 DEF RefusalJustified
<1> QED BY <1>5, RefuseKeeps DEF Refused

(* A reduction keeps what is known of the edges.                           *)
LEMMA ReductionKeeps ==
  ASSUME GraphInv, phase \in {"spec", "prior"}, todo = {}, Acyclic(vertices, edges),
         edges' = TransitiveReduction(vertices, edges), Asked' = Asked,
         vertices' = vertices
  PROVE  /\ EdgesInv'
         /\ \A C \in SUBSET (Keys \cup {Root}) :
              Root \in C /\ ClosedUnder(edges', C) => vertices \subseteq C
         /\ edges' \subseteq edges
<1>1. NodesInv /\ EdgesInv /\ RootInv /\ TypeOK
  BY DEF GraphInv, Refused
<1>2. edges' \subseteq edges
  BY ReductionIsPart
<1>3. /\ vertices \in SUBSET (Keys \cup {Root}) /\ IsFiniteSet(vertices)
      /\ edges \in SUBSET (vertices \X vertices)
  BY <1>1, GraphTypes
<1>4. ASSUME NEW C, ClosedUnder(edges', C) PROVE ClosedUnder(edges, C)
  <2>1. ClosedUnder(edges', C \cap vertices)
    <3>1. \A e \in edges' : e[2] \in vertices
      BY <1>2, <1>3
    <3> QED BY <1>4, <3>1 DEF ClosedUnder
  <2>2. ClosedUnder(edges, C \cap vertices)
    <3>1. ClosedUnder(TransitiveReduction(vertices, edges), C \cap vertices)
      BY <2>1
    <3>2. C \cap vertices \in SUBSET vertices
      OBVIOUS
    <3> QED BY <1>3, <3>1, <3>2, ReductionCloses
  <2>3. \A e \in edges : e[1] \in vertices
    BY <1>3
  <2> QED BY <2>2, <2>3 DEF ClosedUnder
<1>5. \A j : <<j, j>> \notin edges
  <2> SUFFICES ASSUME NEW j, <<j, j>> \in edges PROVE FALSE
    OBVIOUS
  <2>1. j \in Below(vertices, edges, j)
    BY <1>3, BelowLeast
  <2> QED BY <1>3, <2>1, AcyclicIrreflexive
<1>6. EdgesInv'
  BY <1>1, <1>2, <1>4, <1>5 DEF EdgesInv
<1>7. vertices \ {Root} \subseteq (IF phase = "spec" THEN Applied ELSE vertices)
  BY <1>1 DEF NodesInv, Applied
<1>8. \A C \in SUBSET (Keys \cup {Root}) :
        Root \in C /\ ClosedUnder(edges', C) => vertices \subseteq C
  BY <1>1, <1>4, <1>7 DEF RootInv
<1> QED BY <1>2, <1>6, <1>8

LEMMA FinishSpecKeeps ==
  ASSUME GraphInv, FinishSpec
  PROVE  GraphInv'
<1>1. /\ NodesInv /\ EdgesInv /\ RootInv /\ TypeOK
      /\ phase = "spec" /\ todo = {}
  BY DEF GraphInv, Refused, FinishSpec
<1>2. CASE ~Validate(vertices, edges)
  BY <1>1, <1>2, CircleKeeps DEF FinishSpec
<1>3. CASE Validate(vertices, edges)
  <2>1. /\ phase' = "prior" /\ todo' = DOMAIN prior /\ manifest' = ResourceNodes
        /\ edges' = TransitiveReduction(vertices, edges)
        /\ spec' = spec /\ prior' = prior /\ vertices' = vertices /\ action' = action
    BY <1>3 DEF FinishSpec
  <2>2. /\ Applied = DOMAIN spec /\ Applied' = DOMAIN spec
        /\ Removed = {} /\ Removed' = {}
    BY <1>1, <2>1 DEF Applied, Removed
  <2>3. Asked' = Asked
    <3>1. \A j : ApplyEdges(j)' = ApplyEdges(j)
      BY <2>1 DEF ApplyEdges
    <3> QED BY <2>2, <3>1 DEF Asked
  <2>4. /\ EdgesInv'
        /\ \A C \in SUBSET (Keys \cup {Root}) :
             Root \in C /\ ClosedUnder(edges', C) => vertices \subseteq C
        /\ edges' \subseteq edges
    BY <1>1, <1>3, <2>1, <2>3, ReductionKeeps DEF Validate
  <2>5. RootInv'
    BY <2>1, <2>4 DEF RootInv
  <2>6. DOMAIN spec \subseteq Keys /\ DOMAIN prior \subseteq Keys
    BY <1>1, ResourceTypes
  <2>7. manifest' = DOMAIN spec
    BY <1>1, <2>1, <2>2, <2>6, RootAssumption DEF ResourceNodes, NodesInv
  <2>8. NodesInv'
    BY <1>1, <2>1, <2>2, <2>7 DEF NodesInv
  <2>9. TypeOK'
    BY <1>1, <2>1, <2>4, <2>6, <2>7 DEF TypeOK
  <2>10. RefusalJustified' /\ GraphReduced'
    BY <2>1 DEF RefusalJustified, GraphReduced, Walk
  <2> QED BY <2>4, <2>5, <2>8, <2>9, <2>10 DEF GraphInv
<1> QED BY <1>2, <1>3

LEMMA FinishPriorKeeps ==
  ASSUME GraphInv, FinishPrior
  PROVE  GraphInv'
<1>1. /\ NodesInv /\ EdgesInv /\ RootInv /\ TypeOK
      /\ phase = "prior" /\ todo = {}
  BY DEF GraphInv, Refused, FinishPrior
<1>2. CASE ~Validate(vertices, edges)
  BY <1>1, <1>2, CircleKeeps DEF FinishPrior
<1>3. CASE Validate(vertices, edges)
  <2>1. /\ phase' = "walk" /\ edges' = TransitiveReduction(vertices, edges)
        /\ spec' = spec /\ prior' = prior /\ vertices' = vertices /\ action' = action
        /\ todo' = todo /\ manifest' = manifest
    BY <1>3 DEF FinishPrior
  <2>2. Applied' = Applied /\ Removed' = Removed
    BY <1>1, <2>1 DEF Applied, Removed
  <2>3. Asked' = Asked
    <3>1. \A j : ApplyEdges(j)' = ApplyEdges(j) /\ DeleteEdges(j)' = DeleteEdges(j)
      BY <2>1 DEF ApplyEdges, DeleteEdges
    <3> QED BY <2>2, <3>1 DEF Asked
  <2>4. /\ EdgesInv'
        /\ \A C \in SUBSET (Keys \cup {Root}) :
             Root \in C /\ ClosedUnder(edges', C) => vertices \subseteq C
        /\ edges' \subseteq edges
    BY <1>1, <1>3, <2>1, <2>3, ReductionKeeps DEF Validate
  <2>5. RootInv'
    BY <2>1, <2>4 DEF RootInv
  <2>6. NodesInv'
    BY <1>1, <2>1, <2>2 DEF NodesInv
  <2>7. TypeOK'
    BY <1>1, <2>1, <2>4 DEF TypeOK
  <2>8. RefusalJustified'
    BY <2>1 DEF RefusalJustified
  <2>9. GraphReduced'
    <3>1. IsFiniteSet(vertices) /\ edges \in SUBSET (vertices \X vertices)
      BY <1>1, GraphTypes
    <3>2. Acyclic(vertices, edges)
      BY <1>3 DEF Validate
    <3>3. Acyclic(vertices', edges')
      BY <2>1, <2>4, <3>2, FewerEdgesAcyclic
    <3>4. ASSUME NEW e \in edges', NEW w \in vertices', Before(e[1], w)', Before(w, e[2])'
          PROVE  FALSE
      BY <2>1, <3>1, <3>2, <3>4, ReductionIsReduced DEF Before
    <3> QED BY <3>3, <3>4 DEF GraphReduced
  <2> QED BY <2>4, <2>5, <2>6, <2>7, <2>8, <2>9 DEF GraphInv
<1> QED BY <1>2, <1>3

LEMMA PriorResourceKeeps ==
  ASSUME GraphInv, NEW k \in Keys, ParsePriorResource(k)
  PROVE  GraphInv'
<1>1. /\ TypeOK /\ NodesInv /\ EdgesInv /\ RootInv
      /\ phase = "prior" /\ k \in todo /\ k \in DOMAIN prior /\ manifest = DOMAIN spec
      /\ DOMAIN spec \subseteq vertices
  BY DEF GraphInv, ParsePriorResource, Refused, NodesInv, Applied
<1>2. CASE Needed(k)
  <2>1. Refuse("needed")
    BY <1>2 DEF ParsePriorResource
  <2>2. k \in Deleted /\ RecordedDependents(k) \cap DOMAIN spec # {}
    BY <1>1, <1>2 DEF Needed, NewDelete, PriorDependents, RecordedDependents, Deleted
  <2>3. spec' = spec /\ prior' = prior /\ phase' = "needed"
    BY <2>1 DEF Refuse
  <2>4. RefusalJustified'
    BY <2>2, <2>3 DEF RefusalJustified, Deleted, RecordedDependents
  <2> QED BY <2>1, <2>4, RefuseKeeps DEF Refused
<1>3. CASE ~Needed(k) /\ ~(prior[k] \subseteq DOMAIN prior)
  <2>1. Refuse("missing")
    BY <1>3 DEF ParsePriorResource
  <2>2. RefusalJustified'
    BY <1>1, <1>3, <2>1 DEF Refuse, RefusalJustified
  <2> QED BY <2>1, <2>2, RefuseKeeps DEF Refused
<1>4. CASE ~Needed(k) /\ prior[k] \subseteq DOMAIN prior
  <2> DEFINE FromRoot == IF NewDelete(k) THEN {<<Root, k>>} ELSE {}
  <2>1. /\ AddNodes({k} \cup prior[k], "Delete")
        /\ edges' = edges \cup DeleteEdges(k) \cup FromRoot
        /\ todo' = todo \ {k}
        /\ spec' = spec /\ prior' = prior /\ phase' = phase /\ manifest' = manifest
    BY <1>4 DEF ParsePriorResource
  <2>2. DOMAIN prior \subseteq Keys /\ prior[k] \in SUBSET Keys /\ DOMAIN spec \subseteq Keys
    BY <1>1, ResourceTypes
  <2>3. /\ vertices' \in SUBSET (Keys \cup {Root})
        /\ vertices' = vertices \cup {k} \cup prior[k]
        /\ action' \in [Keys -> {"none", "Update", "Delete"}]
        /\ \A j \in Keys : action'[j] = IF j \in ({k} \cup prior[k]) \ vertices
                                        THEN "Delete" ELSE action[j]
    BY <1>1, <2>1, <2>2, AddNodesKeeps
  <2>4. Removed' = Removed \cup {k} /\ Applied' = Applied
    BY <1>1, <2>1 DEF Applied, Removed
  <2>5. DeleteEdges(k) \subseteq Keys \X Keys
    BY <2>2 DEF DeleteEdges
  <2>6. Asked' = Asked \cup DeleteEdges(k)
    <3>1. \A j : ApplyEdges(j)' = ApplyEdges(j) /\ DeleteEdges(j)' = DeleteEdges(j)
      BY <2>1 DEF ApplyEdges, DeleteEdges
    <3> QED BY <2>4, <2>5, <3>1 DEF Asked
  <2>7. Root \in vertices /\ Root \notin Keys
    BY <1>1, RootAssumption DEF NodesInv
  <2>8. edges' \subseteq vertices' \X (vertices' \ {Root})
    <3>1. DeleteEdges(k) \subseteq vertices' \X (vertices' \ {Root})
      BY <2>2, <2>3, <2>7 DEF DeleteEdges
    <3>2. edges \subseteq vertices \X (vertices \ {Root})
      BY <1>1 DEF EdgesInv
    <3> QED BY <2>1, <2>3, <2>7, <3>1, <3>2
  <2>9. TypeOK'
    BY <1>1, <2>1, <2>3, <2>8 DEF TypeOK
  <2>10. NodesInv'
    BY <1>1, <1>4, <2>1, <2>2, <2>3, <2>4 DEF NodesInv
  <2>11. EdgesInv'
    <3>1. edges' \subseteq ({Root} \X Keys) \cup Asked'
      BY <1>1, <2>1, <2>6 DEF EdgesInv
    <3>2. ASSUME NEW C \in SUBSET Keys, ClosedUnder(edges', C) PROVE ClosedUnder(Asked', C)
      <4>1. ClosedUnder(edges, C) /\ ClosedUnder(DeleteEdges(k), C)
        BY <2>1, <3>2 DEF ClosedUnder
      <4>2. ClosedUnder(Asked, C)
        BY <1>1, <4>1 DEF EdgesInv
      <4> QED BY <2>6, <4>1, <4>2 DEF ClosedUnder
    <3>3. \A j \in Keys : <<j, j>> \in Asked' => <<j, j>> \in edges'
      BY <1>1, <2>1, <2>6 DEF EdgesInv
    <3> QED BY <2>8, <3>1, <3>2, <3>3 DEF EdgesInv
  <2>12. RootInv'
    <3> SUFFICES ASSUME NEW C \in SUBSET (Keys \cup {Root}), Root \in C,
                        ClosedUnder(edges', C)
                 PROVE  vertices' \subseteq C
      BY <1>1, <2>1 DEF RootInv
    <3>1. ClosedUnder(edges, C)
      BY <2>1 DEF ClosedUnder
    <3>2. vertices \subseteq C
      BY <1>1, <3>1 DEF RootInv
    <3>3. \A u, v : <<u, v>> \in edges' /\ u \in C => v \in C
      <4>1. \A u, v : <<u, v>>[1] = u /\ <<u, v>>[2] = v
        OBVIOUS
      <4> QED BY <4>1 DEF ClosedUnder
    <3>4. k \in C
      <4>1. CASE NewDelete(k)
        BY <2>1, <3>3, <4>1
      <4>2. CASE ~NewDelete(k)
        BY <1>1, <3>2, <4>2 DEF NewDelete
      <4> QED BY <4>1, <4>2
    <3>5. \A j \in prior[k] \ manifest : <<k, j>> \in edges'
      BY <2>1 DEF DeleteEdges
    <3> QED BY <1>1, <2>3, <3>2, <3>3, <3>4, <3>5
  <2>13. RefusalJustified' /\ GraphReduced'
    BY <1>1, <2>1 DEF RefusalJustified, GraphReduced, Walk
  <2> QED BY <2>9, <2>10, <2>11, <2>12, <2>13 DEF GraphInv
<1> QED BY <1>2, <1>3, <1>4

LEMMA GraphStep == GraphInv /\ [Next]_vars => GraphInv'
<1> SUFFICES ASSUME GraphInv, [Next]_vars PROVE GraphInv'
  OBVIOUS
<1>1. ASSUME NEW k \in Keys, ParseSpecResource(k) PROVE GraphInv'
  BY <1>1, SpecResourceKeeps
<1>2. ASSUME NEW k \in Keys, ParsePriorResource(k) PROVE GraphInv'
  BY <1>2, PriorResourceKeeps
<1>3. CASE FinishSpec
  BY <1>3, FinishSpecKeeps
<1>4. CASE FinishPrior
  BY <1>4, FinishPriorKeeps
<1>5. CASE UNCHANGED vars
  <2>1. TypeOK' /\ RefusalJustified' /\ GraphReduced'
    BY <1>5 DEF vars, GraphInv, TypeOK, RefusalJustified, GraphReduced, Walk, Before,
                SpecEdges, KeptEdges, PriorEdges, Deleted, RecordedDependents
  <2>2. Applied' = Applied /\ Removed' = Removed /\ Asked' = Asked
    BY <1>5 DEF vars, Applied, Removed, Asked, ApplyEdges, DeleteEdges
  <2>3. NodesInv => NodesInv'
    BY <1>5, <2>2 DEF vars, NodesInv
  <2>4. EdgesInv => EdgesInv'
    BY <1>5, <2>2 DEF vars, EdgesInv
  <2>5. RootInv => RootInv'
    BY <1>5, <2>2 DEF vars, RootInv
  <2> QED BY <1>5, <2>1, <2>3, <2>4, <2>5 DEF vars, GraphInv
<1> QED BY <1>1, <1>2, <1>3, <1>4, <1>5 DEF Next, Done

-----------------------------------------------------------------------------
(* What the parsers keep, in whatever order they meet the resources.       *)
THEOREM GraphInvariant == Spec => []GraphInv
BY GraphInit, GraphStep, PTL DEF Spec

(* The graph is typed at every step, and the walker gets one without cycle *)
(* and without an edge that a longer way implies.                          *)
THEOREM WellBuiltHolds == Spec => []WellBuilt
<1>1. GraphInv => WellBuilt
  BY DEF GraphInv, WellBuilt
<1> QED BY <1>1, GraphInvariant, PTL

(* A request is refused for what it says, or for a circle in the state.    *)
THEOREM RefusalJustifiedHolds == Spec => []RefusalJustified
<1>1. GraphInv => RefusalJustified
  BY DEF GraphInv
<1> QED BY <1>1, GraphInvariant, PTL

(* No resource is forgotten or out of the root's reach, and only those the *)
(* spec dropped are deleted.                                               *)
THEOREM GraphCompleteHolds == Spec => []GraphComplete
<1>1. ASSUME GraphInv, Walk PROVE GraphComplete
  <2>1. NodesInv /\ EdgesInv /\ RootInv /\ TypeOK /\ todo = {} /\ phase = "walk"
    BY <1>1 DEF GraphInv, Walk, Refused, NodesInv
  <2>2. vertices = {Root} \cup DOMAIN spec \cup DOMAIN prior
    BY <2>1 DEF NodesInv, Applied, Removed
  <2>3. ASSUME NEW k \in vertices \ {Root} PROVE Before(Root, k)
    <3> DEFINE C == {Root} \cup Below(vertices, edges, Root)
    <3>1. edges \in SUBSET (vertices \X vertices) /\ vertices \in SUBSET (Keys \cup {Root})
      BY <2>1, GraphTypes
    <3>2. ClosedUnder(edges, C)
      <4> SUFFICES ASSUME NEW e \in edges, e[1] \in C PROVE e[2] \in C
        BY DEF ClosedUnder
      <4>1. e = <<e[1], e[2]>>
        BY <3>1
      <4> QED BY <3>1, <4>1, BelowLeast DEF ClosedUnder
    <3>3. C \in SUBSET (Keys \cup {Root}) /\ Root \in C
      BY <3>1, BelowLeast
    <3>4. vertices \subseteq C
      BY <2>1, <3>2, <3>3 DEF RootInv
    <3> QED BY <2>3, <3>4 DEF Before
  <2>4. ASSUME NEW k \in vertices \ {Root} PROVE action[k] = "Delete" <=> k \in Deleted
    <3>1. k \in Keys
      BY <2>1 DEF TypeOK
    <3> QED BY <2>1, <2>2, <2>4, <3>1 DEF NodesInv, Deleted
  <2> QED BY <2>2, <2>3, <2>4 DEF GraphComplete
<1>2. GraphInv => GraphComplete
  BY <1>1 DEF GraphComplete
<1> QED BY <1>2, GraphInvariant, PTL

(* The graph orders what the dependencies order, and nothing else: the two *)
(* reductions and the order in which edges were added leave no trace.      *)
THEOREM OrderExactHolds == Spec => []OrderExact
<1>1. ASSUME GraphInv, Walk, NEW u \in Keys
      PROVE  Below(vertices, edges, u) = Below(Keys, WantedEdges, u)
  <2>1. /\ NodesInv /\ EdgesInv /\ TypeOK /\ todo = {} /\ phase = "walk"
        /\ manifest = DOMAIN spec
    BY <1>1 DEF GraphInv, Walk, Refused, NodesInv
  <2>2. Asked = WantedEdges
    <3>1. \A e \in WantedEdges : e \in Keys \X Keys
      BY <2>1, ResourceTypes DEF WantedEdges
    <3>2. Applied = DOMAIN spec /\ Removed = DOMAIN prior
      BY <2>1 DEF Applied, Removed
    <3>3. \A e : e \in WantedEdges <=>
            \/ \E k \in DOMAIN spec : e \in ApplyEdges(k)
            \/ \E k \in DOMAIN prior : e \in DeleteEdges(k)
      BY <2>1 DEF WantedEdges, ApplyEdges, DeleteEdges
    <3> QED BY <3>1, <3>2, <3>3 DEF Asked
  <2>3. /\ vertices \in SUBSET (Keys \cup {Root})
        /\ edges \in SUBSET (vertices \X vertices)
        /\ edges \in SUBSET ((Keys \cup {Root}) \X Keys)
    BY <2>1, GraphTypes DEF EdgesInv
  <2>4. Acyclic(vertices, edges)
    BY <1>1 DEF GraphInv, GraphReduced
  <2>5. Acyclic(Keys \cup {Root}, edges)
    BY <2>3, <2>4, MoreVerticesAcyclic
  <2>6. \A v : <<v, v>> \notin WantedEdges
    <3> SUFFICES ASSUME NEW v, <<v, v>> \in WantedEdges PROVE FALSE
      OBVIOUS
    <3>1. v \in Keys /\ <<v, v>> \in edges
      BY <2>1, <2>2 DEF EdgesInv, Asked
    <3>2. v \in Below(vertices, edges, v)
      BY <2>3, <3>1, BelowLeast
    <3> QED BY <2>3, <2>4, <3>2, AcyclicIrreflexive
  <2>7. ASSUME NEW C \in SUBSET Keys
        PROVE  ClosedUnder(edges, C) <=> ClosedUnder(WantedEdges, C)
    <3>1. ClosedUnder(edges, C) => ClosedUnder(WantedEdges, C)
      BY <2>1, <2>2 DEF EdgesInv
    <3>2. \A e \in edges : e[1] \in C => e \in WantedEdges
      BY <2>1, <2>2, RootAssumption DEF EdgesInv
    <3> QED BY <3>1, <3>2 DEF ClosedUnder
  <2>8. WantedEdges \in SUBSET (Keys \X Keys)
    BY <2>2 DEF Asked
  <2>9. Below(Keys \cup {Root}, edges, u) = Below(Keys, WantedEdges, u)
    BY <2>3, <2>5, <2>6, <2>7, <2>8, SameClosedSameBelow
  <2> QED BY <2>3, <2>9, MoreVerticesBelow
<1>2. GraphInv => OrderExact
  BY <1>1 DEF OrderExact, Before
<1> QED BY <1>2, GraphInvariant, PTL
=============================================================================
