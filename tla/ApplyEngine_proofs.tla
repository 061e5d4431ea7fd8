------------------------- MODULE ApplyEngine_proofs -------------------------
(***************************************************************************)
(* Proofs about ApplyEngine, for any resources, fields, specs and faults.  *)
(***************************************************************************)
EXTENDS ApplyEngine, TLAPS

(* A resource or a set of fields is not the absence of one.                *)
LEMMA AbsentIsNothing ==
  \A r \in Resource \cup SUBSET Fields : r # Absent
BY SpecsAssumption

(* What the running operation was asked for.                               *)
LEMMA SpecType ==
  ASSUME TypeOK PROVE spec \in [Keys -> {Absent} \cup Resource]
<1>1. Specs \subseteq [Keys -> {Absent} \cup Resource] BY SpecsAssumption
<1>2. Nothing \in [Keys -> {Absent} \cup Resource] BY DEF Nothing
<1> QED BY <1>1, <1>2 DEF TypeOK

(* The merge of a resource of the spec is a resource.                      *)
LEMMA MergedType ==
  ASSUME TypeOK, NEW k \in Keys, spec[k] # Absent
  PROVE  Merged(k) \in SUBSET Fields /\ Merged(k) # Absent
<1>1. spec[k] \in Resource BY SpecType
<1>2. spec[k].fields \in SUBSET Fields BY <1>1 DEF Resource
<1>3. infra[k] \in {Absent} \cup SUBSET Fields BY DEF TypeOK
<1>4. Merged(k) \in SUBSET Fields BY <1>2, <1>3 DEF Merged
<1> QED BY <1>4, AbsentIsNothing

(* Of a resource that the spec or the state has: it is deleted if and only *)
(* if the spec lacks it, and unchanged only if it is there.                *)
LEMMA ActionTypeIs ==
  ASSUME TypeOK, NEW k \in Keys, spec[k] # Absent \/ prior[k] # Absent
  PROVE  /\ ActionType(k) \in {"Create", "Update", "UnChange", "Delete"}
         /\ ActionType(k) = "Delete" <=> spec[k] = Absent
         /\ ActionType(k) = "Create" => prior[k] = Absent
         /\ ActionType(k) = "UnChange" => infra[k] # Absent
BY MergedType DEF ActionType

(* What is known of the action of a node between its plan and its end.     *)
PlannedWell(k) ==
  /\ act[k] \in {"Create", "Update", "UnChange", "Delete"}
  /\ act[k] # "Delete" => spec[k] # Absent
  /\ act[k] = "UnChange" => infra[k] # Absent

(* The invariant says it of every node in those stages.                    *)
LEMMA PlannedWellIs ==
  ASSUME TypeOK, NEW k \in Keys, NodeInv(k), stage[k] \in Planned
  PROVE  PlannedWell(k)
BY DEF TypeOK, NodeInv, PlannedWell

(* A call that takes effect removes a resource if and only if it deletes.  *)
LEMMA EffectIs ==
  ASSUME TypeOK, NEW k \in Keys, PlannedWell(k)
  PROVE  /\ Effect(k) \in {Absent} \cup SUBSET Fields
         /\ Effect(k) = Absent <=> act[k] = "Delete"
<1>1. infra[k] \in {Absent} \cup SUBSET Fields BY DEF TypeOK
<1>2. CASE act[k] \in {"Create", "Update"}
  <2>1. Effect(k) = Merged(k) BY <1>2 DEF Effect
  <2> QED BY <1>2, <2>1, MergedType DEF PlannedWell
<1>3. CASE act[k] = "UnChange"
  <2>1. Effect(k) = infra[k] BY <1>3 DEF Effect
  <2> QED BY <1>1, <1>3, <2>1 DEF PlannedWell
<1>4. CASE act[k] = "Delete" BY <1>4 DEF Effect
<1> QED BY <1>2, <1>3, <1>4 DEF PlannedWell

(* And so does the entry of the index that goes with it.                   *)
LEMMA OutcomeIs ==
  ASSUME TypeOK, NEW k \in Keys, PlannedWell(k)
  PROVE  /\ Outcome(k) \in {Absent} \cup Resource
         /\ Outcome(k) = Absent <=> act[k] = "Delete"
<1>1. act[k] # "Delete" => spec[k] \in Resource BY SpecType DEF PlannedWell
<1>2. CASE act[k] \in {"Create", "Update"}
  <2>1. Outcome(k) = spec[k] BY <1>2 DEF Outcome
  <2> QED BY <1>1, <1>2, <2>1, AbsentIsNothing
<1>3. CASE act[k] = "UnChange"
  <2>1. Outcome(k) = IF prior[k] # Absent THEN prior[k]
                     ELSE [fields |-> infra[k], deps |-> spec[k].deps]
    BY <1>3 DEF Outcome
  <2>2. prior[k] \in {Absent} \cup Resource BY DEF TypeOK
  <2>3. infra[k] \in SUBSET Fields BY <1>3 DEF TypeOK, PlannedWell
  <2>4. spec[k].deps \in SUBSET Keys BY <1>1, <1>3 DEF Resource
  <2>5. [fields |-> infra[k], deps |-> spec[k].deps] \in Resource
    BY <2>3, <2>4 DEF Resource
  <2> QED BY <1>3, <2>1, <2>2, <2>5, AbsentIsNothing
<1>4. CASE act[k] = "Delete" BY <1>4 DEF Outcome
<1> QED BY <1>2, <1>3, <1>4 DEF PlannedWell

-----------------------------------------------------------------------------
(* The invariant holds at first.                                           *)
LEMMA EngineInit == Init => EngineInv
<1> SUFFICES ASSUME Init PROVE EngineInv OBVIOUS
<1>1. TypeOK BY DEF Init, TypeOK, Nothing, Over
<1>2. OnlyDoubtfulDiverge BY DEF Init, OnlyDoubtfulDiverge, Nothing
<1>3. ASSUME NEW k \in Keys PROVE NodeInv(k)
  BY DEF Init, NodeInv, Planned, Nothing
<1> QED BY <1>1, <1>2, <1>3 DEF EngineInv

(* Every step keeps the types.                                             *)
LEMMA TypeStep == EngineInv /\ [Next]_vars => TypeOK'
<1> SUFFICES ASSUME TypeOK, \A k \in Keys : NodeInv(k), [Next]_vars
             PROVE  TypeOK'
  BY DEF EngineInv
<1>1. ASSUME NEW m \in Specs \cup {Nothing}, Start(m) PROVE TypeOK'
  <2>1. Nothing \in [Keys -> {Absent} \cup Resource] BY DEF Nothing
  <2> QED BY <1>1, <2>1 DEF Start, TypeOK
<1>2. ASSUME NEW k \in Keys, Plan(k) PROVE TypeOK'
  <2>1. spec[k] # Absent \/ prior[k] # Absent BY <1>2 DEF Plan, NodeInv
  <2> QED BY <1>2, <2>1, ActionTypeIs DEF Plan, Enter, TypeOK, Over
<1>3. ASSUME NEW k \in Keys, Invoke(k) PROVE TypeOK'
  <2>1. Effect(k) \in {Absent} \cup SUBSET Fields
    BY <1>3, PlannedWellIs, EffectIs DEF Invoke, Planned
  <2> QED BY <1>3, <2>1 DEF Invoke, Call, Enter, TypeOK
<1>4. ASSUME NEW k \in Keys, InvokeFails(k) PROVE TypeOK'
  <2>1. Effect(k) \in {Absent} \cup SUBSET Fields
    BY <1>4, PlannedWellIs, EffectIs DEF InvokeFails, Planned
  <2> QED BY <1>4, <2>1 DEF InvokeFails, Call, Enter, TypeOK, Over
<1>5. ASSUME NEW k \in Keys, DeletePanics(k) PROVE TypeOK'
  <2>1. Effect(k) \in {Absent} \cup SUBSET Fields
    BY <1>5, PlannedWellIs, EffectIs DEF DeletePanics, Planned
  <2> QED BY <1>5, <2>1 DEF DeletePanics, Call, Enter, TypeOK, Over
<1>6. ASSUME NEW k \in Keys, RefreshResourceIndex(k) PROVE TypeOK'
  <2>1. Outcome(k) \in {Absent} \cup Resource
    BY <1>6, PlannedWellIs, OutcomeIs DEF RefreshResourceIndex, Planned
  <2> QED BY <1>6, <2>1 DEF RefreshResourceIndex, Enter, TypeOK
<1>7. ASSUME NEW k \in Keys, UpdateState(k) PROVE TypeOK'
  BY <1>7 DEF UpdateState, Enter, TypeOK, Over
<1>8. ASSUME NEW k \in Keys, Skip(k) PROVE TypeOK'
  BY <1>8 DEF Skip, Enter, TypeOK, Over
<1>9. CASE Finish BY <1>9 DEF Finish, TypeOK
<1>10. CASE Crash
  <2>1. Nothing \in [Keys -> {Absent} \cup Resource] BY DEF Nothing
  <2> QED BY <1>10, <2>1 DEF Crash, InFlight, TypeOK
<1>11. CASE UNCHANGED vars BY <1>11 DEF vars, TypeOK
<1> QED
  BY <1>1, <1>2, <1>3, <1>4, <1>5, <1>6, <1>7, <1>8, <1>9, <1>10, <1>11
  DEF Next, Destroy, NodeStep, Rest

(* Every step keeps what is known of every node.                           *)
LEMMA NodeInvStep ==
  ASSUME EngineInv, [Next]_vars, NEW j \in Keys PROVE NodeInv(j)'
<1> SUFFICES ASSUME TypeOK, \A k \in Keys : NodeInv(k) PROVE NodeInv(j)'
  BY DEF EngineInv
<1>0. NodeInv(j) OBVIOUS
<1> USE DEF NodeInv, Planned, Over
<1>1. ASSUME NEW m \in Specs \cup {Nothing}, Start(m) PROVE NodeInv(j)'
  BY <1>0, <1>1 DEF Start, Present, TypeOK
<1>2. ASSUME NEW k \in Keys, Plan(k) PROVE NodeInv(j)'
  <2>1. spec[k] # Absent \/ prior[k] # Absent BY <1>2 DEF Plan
  <2> QED BY <1>0, <1>2, <2>1, ActionTypeIs DEF Plan, Enter, TypeOK
<1>3. ASSUME NEW k \in Keys, Invoke(k) PROVE NodeInv(j)'
  <2>1. Effect(k) = Absent <=> act[k] = "Delete"
    BY <1>3, PlannedWellIs, EffectIs DEF Invoke
  <2> QED BY <1>0, <1>3, <2>1 DEF Invoke, Call, Enter, TypeOK
<1>4. ASSUME NEW k \in Keys, InvokeFails(k) PROVE NodeInv(j)'
  BY <1>0, <1>4 DEF InvokeFails, Call, Enter, TypeOK
<1>5. ASSUME NEW k \in Keys, DeletePanics(k) PROVE NodeInv(j)'
  BY <1>0, <1>5 DEF DeletePanics, Call, Enter, TypeOK
<1>6. ASSUME NEW k \in Keys, RefreshResourceIndex(k) PROVE NodeInv(j)'
  <2>1. Outcome(k) = Absent <=> act[k] = "Delete"
    BY <1>6, PlannedWellIs, OutcomeIs DEF RefreshResourceIndex
  <2> QED BY <1>0, <1>6, <2>1 DEF RefreshResourceIndex, Enter, TypeOK
<1>7. ASSUME NEW k \in Keys, UpdateState(k) PROVE NodeInv(j)'
  BY <1>0, <1>7 DEF UpdateState, Enter, TypeOK
<1>8. ASSUME NEW k \in Keys, Skip(k) PROVE NodeInv(j)'
  BY <1>0, <1>8 DEF Skip, Enter, TypeOK
<1>9. CASE Finish BY <1>0, <1>9 DEF Finish
<1>10. CASE Crash BY <1>10 DEF Crash
<1>11. CASE UNCHANGED vars BY <1>0, <1>11 DEF vars
<1> QED
  BY <1>1, <1>2, <1>3, <1>4, <1>5, <1>6, <1>7, <1>8, <1>9, <1>10, <1>11
  DEF Next, Destroy, NodeStep, Rest

(* Every step keeps the state and the infrastructure together.  The save   *)
(* of one node writes the entries of all: those of the others are what the *)
(* storage has, or their nodes have not saved yet, or they are in doubt.   *)
LEMMA DivergeStep == EngineInv /\ [Next]_vars => OnlyDoubtfulDiverge'
<1> SUFFICES ASSUME EngineInv, [Next]_vars, NEW j \in Keys,
                    j \notin doubt', j \notin InFlight'
             PROVE  recorded'[j] = Absent <=> infra'[j] = Absent
  BY DEF OnlyDoubtfulDiverge
<1>0. /\ TypeOK
      /\ NodeInv(j)
      /\ j \notin doubt \cup InFlight => (recorded[j] = Absent <=> infra[j] = Absent)
  BY DEF EngineInv, OnlyDoubtfulDiverge
<1> USE DEF InFlight
<1>1. ASSUME NEW m \in Specs \cup {Nothing}, Start(m)
      PROVE  recorded'[j] = Absent <=> infra'[j] = Absent
  BY <1>0, <1>1 DEF Start, NodeInv, Over
<1>2. ASSUME NEW k \in Keys, Plan(k)
      PROVE  recorded'[j] = Absent <=> infra'[j] = Absent
  BY <1>0, <1>2 DEF Plan, Enter, TypeOK
<1>3. ASSUME NEW k \in Keys, Invoke(k)
      PROVE  recorded'[j] = Absent <=> infra'[j] = Absent
  BY <1>0, <1>3 DEF Invoke, Call, Enter, TypeOK
<1>4. ASSUME NEW k \in Keys, InvokeFails(k)
      PROVE  recorded'[j] = Absent <=> infra'[j] = Absent
  BY <1>0, <1>4 DEF InvokeFails, Call, Enter, TypeOK
<1>5. ASSUME NEW k \in Keys, DeletePanics(k)
      PROVE  recorded'[j] = Absent <=> infra'[j] = Absent
  BY <1>0, <1>5 DEF DeletePanics, Call, Enter, TypeOK
<1>6. ASSUME NEW k \in Keys, RefreshResourceIndex(k)
      PROVE  recorded'[j] = Absent <=> infra'[j] = Absent
  BY <1>0, <1>6 DEF RefreshResourceIndex, Enter, TypeOK
<1>7. ASSUME NEW k \in Keys, UpdateState(k)
      PROVE  recorded'[j] = Absent <=> infra'[j] = Absent
  BY <1>0, <1>7 DEF UpdateState, Enter, TypeOK, NodeInv
<1>8. ASSUME NEW k \in Keys, Skip(k)
      PROVE  recorded'[j] = Absent <=> infra'[j] = Absent
  BY <1>0, <1>8 DEF Skip, Enter, TypeOK
<1>9. CASE Finish BY <1>0, <1>9 DEF Finish
<1>10. CASE Crash BY <1>0, <1>10 DEF Crash
<1>11. CASE UNCHANGED vars BY <1>0, <1>11 DEF vars
<1> QED
  BY <1>1, <1>2, <1>3, <1>4, <1>5, <1>6, <1>7, <1>8, <1>9, <1>10, <1>11
  DEF Next, Destroy, NodeStep, Rest

-----------------------------------------------------------------------------
(* What each node, the index and the storage know of each other, over any  *)
(* sequence of runs, with any faults.                                      *)
THEOREM EngineInvariant == Spec => []EngineInv
<1>1. EngineInv /\ [Next]_vars => EngineInv'
  BY TypeStep, NodeInvStep, DivergeStep DEF EngineInv
<1> QED BY EngineInit, <1>1, PTL DEF Spec

(* Type correctness; a resource is created only if the state lacks it, and *)
(* deleted only if the spec does and the state does not.                   *)
THEOREM TypeCorrect == Spec => []TypeOK
<1>1. EngineInv => TypeOK BY DEF EngineInv
<1> QED BY <1>1, EngineInvariant, PTL

(* The state loses track of no resource but one whose call or save a fault *)
(* interrupted.                                                            *)
THEOREM OnlyDoubtfulDivergeHolds == Spec => []OnlyDoubtfulDiverge
<1>1. EngineInv => OnlyDoubtfulDiverge BY DEF EngineInv
<1> QED BY <1>1, EngineInvariant, PTL

-----------------------------------------------------------------------------
(* From here on: the order of a run, and what its success means.           *)

(* The sources of an edge.                                                 *)
LEMMA UpEdgesMember ==
  ASSUME NEW E, NEW u, NEW v, <<u, v>> \in E PROVE u \in UpEdges(E, v)
<1>1. <<u, v>>[1] = u /\ <<u, v>>[2] = v OBVIOUS
<1> QED BY <1>1 DEF UpEdges

(* A resource of the spec waits for what it depends on.                    *)
LEMMA DepsComeBefore ==
  ASSUME NEW k \in Keys, NEW j \in Deps(spec, k) PROVE j \in Before(k)
<1>1. <<j, k>> \in Deps(spec, k) \X {k} OBVIOUS
<1>2. <<j, k>> \in Edges(spec, prior) BY <1>1 DEF Edges
<1> QED BY <1>2, UpEdgesMember DEF Before

(* One to delete waits for those recorded as depending on it.              *)
LEMMA DependentsComeBefore ==
  ASSUME NEW k \in Keys, NEW j \in Keys, k \in Deps(prior, j), spec[k] = Absent
  PROVE  j \in Before(k)
<1>1. k \in Deps(prior, j) \ Present(spec) BY DEF Present
<1>2. <<j, k>> \in {j} \X (Deps(prior, j) \ Present(spec)) BY <1>1
<1>3. <<j, k>> \in Edges(spec, prior) BY <1>2 DEF Edges
<1> QED BY <1>3, UpEdgesMember DEF Before

(* Nodes wait for nodes.                                                   *)
LEMMA BeforeAreKeys ==
  ASSUME TypeOK, NEW k PROVE Before(k) \subseteq Keys
<1>1. ASSUME NEW r \in [Keys -> {Absent} \cup Resource], NEW j \in Keys
      PROVE  Deps(r, j) \subseteq Keys
  <2>1. r[j] # Absent => r[j] \in Resource OBVIOUS
  <2> QED BY <2>1 DEF Deps, Resource
<1>2. \A j \in Keys : Deps(spec, j) \subseteq Keys /\ Deps(prior, j) \subseteq Keys
  BY <1>1, SpecType DEF TypeOK
<1>3. ASSUME NEW e \in Edges(spec, prior) PROVE e[1] \in Keys
  <2>1. PICK i \in Keys :
          \/ e \in Deps(spec, i) \X {i}
          \/ e \in (Deps(prior, i) \cap Present(spec)) \X {i}
          \/ e \in {i} \X (Deps(prior, i) \ Present(spec))
    BY DEF Edges
  <2> QED BY <1>2, <2>1
<1> QED BY <1>3 DEF Before, UpEdges

(* The planned call leaves the resource as the run wants it.               *)
LEMMA EffectReaches ==
  ASSUME EngineInv, NEW k \in Keys, ReachInv(k), stage[k] = "invoke",
         infra'[k] = Effect(k), spec' = spec
  PROVE  Reached(k)'
<1>1. TypeOK /\ NodeInv(k) /\ PlannedWell(k)
  BY PlannedWellIs DEF EngineInv, Planned
<1>2. CASE act[k] = "Delete"
  <2>1. spec[k] = Absent BY <1>1, <1>2 DEF TypeOK
  <2>2. Effect(k) = Absent BY <1>2 DEF Effect
  <2> QED BY <2>1, <2>2 DEF Reached
<1>3. CASE act[k] # "Delete"
  <2>1. spec[k] # Absent BY <1>1, <1>3 DEF PlannedWell
  <2>2. Effect(k) = Merged(k)
    BY <1>1, <1>3 DEF Effect, PlannedWell, ReachInv
  <2>3. Merged(k) # Absent BY <1>1, <2>1, MergedType
  <2>4. spec[k].fields \subseteq Merged(k) BY DEF Merged
  <2> QED BY <2>1, <2>2, <2>3, <2>4 DEF Reached
<1> QED BY <1>2, <1>3

(* The invariants of the order hold at first.                              *)
LEMMA TurnsInit == Init => TurnsInv
BY DEF Init, TurnsInv, RunInv, TurnInv, Success, Planned

LEMMA OrderInit == Init => OrderInv
BY TurnsInit DEF Init, OrderInv, ReachInv

(* Each step keeps the turn of each node, whatever fails.                  *)
LEMMA TurnStep ==
  ASSUME EngineInv, TurnsInv, [Next]_vars, NEW j \in Keys PROVE TurnInv(j)'
<1>0. TypeOK /\ NodeInv(j) /\ TurnInv(j) /\ Before(j) \subseteq Keys
  BY BeforeAreKeys DEF EngineInv, TurnsInv
<1>a. ASSUME spec' = spec, prior' = prior PROVE Before(j)' = Before(j)
  BY <1>a DEF Before
<1> USE DEF TurnInv, Unwanted, Success, Planned, Over, TypeOK
<1>1. ASSUME NEW m \in Specs \cup {Nothing}, Start(m) PROVE TurnInv(j)'
  BY <1>0, <1>1 DEF Start, Present
<1>2. ASSUME NEW k \in Keys, Plan(k) PROVE TurnInv(j)'
  <2>1. Before(j)' = Before(j) BY <1>2, <1>a DEF Plan
  <2> QED BY <1>0, <1>2, <2>1 DEF Plan, Enter
<1>3. ASSUME NEW k \in Keys, Invoke(k) PROVE TurnInv(j)'
  <2>1. Before(j)' = Before(j) BY <1>3, <1>a DEF Invoke
  <2> QED BY <1>0, <1>3, <2>1 DEF Invoke, Enter
<1>4. ASSUME NEW k \in Keys, InvokeFails(k) PROVE TurnInv(j)'
  <2>1. Before(j)' = Before(j) BY <1>4, <1>a DEF InvokeFails
  <2> QED BY <1>0, <1>4, <2>1 DEF InvokeFails, Enter
<1>5. ASSUME NEW k \in Keys, DeletePanics(k) PROVE TurnInv(j)'
  <2>1. Before(j)' = Before(j) BY <1>5, <1>a DEF DeletePanics
  <2> QED BY <1>0, <1>5, <2>1 DEF DeletePanics, Enter
<1>6. ASSUME NEW k \in Keys, RefreshResourceIndex(k) PROVE TurnInv(j)'
  <2>1. Before(j)' = Before(j) BY <1>6, <1>a DEF RefreshResourceIndex
  <2> QED BY <1>0, <1>6, <2>1 DEF RefreshResourceIndex, Enter
<1>7. ASSUME NEW k \in Keys, UpdateState(k) PROVE TurnInv(j)'
  <2>1. Before(j)' = Before(j) BY <1>7, <1>a DEF UpdateState
  <2> QED BY <1>0, <1>7, <2>1 DEF UpdateState, Enter
<1>8. ASSUME NEW k \in Keys, Skip(k) PROVE TurnInv(j)'
  <2>1. Before(j)' = Before(j) BY <1>8, <1>a DEF Skip
  <2>2. Before(k) \subseteq Keys BY <1>0, BeforeAreKeys
  <2> QED BY <1>0, <1>8, <2>1, <2>2 DEF Skip, Enter
<1>9. CASE Finish
  <2>1. Before(j)' = Before(j) BY <1>9, <1>a DEF Finish
  <2> QED BY <1>0, <1>9, <2>1 DEF Finish
<1>10. CASE Crash BY <1>10 DEF Crash
<1>11. CASE UNCHANGED vars
  <2>1. Before(j)' = Before(j) BY <1>11, <1>a DEF vars
  <2> QED BY <1>0, <1>11, <2>1 DEF vars
<1> QED
  BY <1>1, <1>2, <1>3, <1>4, <1>5, <1>6, <1>7, <1>8, <1>9, <1>10, <1>11
  DEF Next, Destroy, NodeStep, Rest

(* Each step keeps what each node has reached.                             *)
LEMMA ReachStep ==
  ASSUME EngineInv, OrderInv, [Next]_vars, "delete" \notin Faults, NEW j \in Keys
  PROVE  ReachInv(j)'
<1>0. TypeOK /\ NodeInv(j) /\ ReachInv(j) /\ TurnInv(j)
  BY DEF EngineInv, OrderInv, TurnsInv
<1> USE DEF ReachInv, Reached, Success, Over, Merged, PriorFields, TypeOK
<1>1. ASSUME NEW m \in Specs \cup {Nothing}, Start(m) PROVE ReachInv(j)'
  BY <1>0, <1>1 DEF Start, Present
<1>2. ASSUME NEW k \in Keys, Plan(k) PROVE ReachInv(j)'
  <2>1. act'[k] = "UnChange" /\ stage'[k] = "invoke" => Merged(k) = infra[k]
    BY <1>0, <1>2 DEF Plan, Enter, ActionType
  <2> QED BY <1>0, <1>2, <2>1 DEF Plan, Enter
<1>3. ASSUME NEW k \in Keys, Invoke(k) PROVE ReachInv(j)'
  <2>2. CASE k = j
    <3>1. Reached(j)' BY <1>0, <1>3, <2>2, EffectReaches DEF Invoke, Call
    <3> QED BY <1>0, <1>3, <2>2, <3>1 DEF Invoke, Enter
  <2>3. CASE k # j BY <1>0, <1>3, <2>3 DEF Invoke, Call, Enter
  <2> QED BY <2>2, <2>3
<1>4. ASSUME NEW k \in Keys, InvokeFails(k) PROVE ReachInv(j)'
  <2>2. CASE k = j BY <1>0, <1>4, <2>2 DEF InvokeFails, Enter
  <2>3. CASE k # j
    <3>1. infra'[j] = infra[j] BY <1>0, <1>4, <2>3 DEF InvokeFails, Call
    <3> QED BY <1>0, <1>4, <2>3, <3>1 DEF InvokeFails, Enter
  <2> QED BY <2>2, <2>3
<1>5. ASSUME NEW k \in Keys, DeletePanics(k) PROVE ReachInv(j)'
  BY <1>5 DEF DeletePanics
<1>6. ASSUME NEW k \in Keys, RefreshResourceIndex(k) PROVE ReachInv(j)'
  <2>2. NodeInv(k) /\ PlannedWell(k)
    BY <1>6, PlannedWellIs DEF EngineInv, RefreshResourceIndex, Planned
  <2>3. Outcome(k) = Absent <=> spec[k] = Absent
    BY <1>0, <2>2, OutcomeIs DEF PlannedWell
  <2> QED BY <1>0, <1>6, <2>3 DEF RefreshResourceIndex, Enter
<1>7. ASSUME NEW k \in Keys, UpdateState(k) PROVE ReachInv(j)'
  BY <1>0, <1>7 DEF UpdateState, Enter
<1>8. ASSUME NEW k \in Keys, Skip(k) PROVE ReachInv(j)'
  BY <1>0, <1>8 DEF Skip, Enter
<1>9. CASE Finish BY <1>0, <1>9 DEF Finish
<1>10. CASE Crash BY <1>10 DEF Crash
<1>11. CASE UNCHANGED vars BY <1>0, <1>11 DEF vars
<1> QED
  BY <1>1, <1>2, <1>3, <1>4, <1>5, <1>6, <1>7, <1>8, <1>9, <1>10, <1>11
  DEF Next, Destroy, NodeStep, Rest

(* A run in which a node was skipped has one that failed: no set of nodes  *)
(* can blame one another all around, for the graph is acyclic.             *)
LEMMA SkippedByFailure ==
  ASSUME EngineInv, TurnsInv, running, NEW k \in Keys, stage[k] = "skipped"
  PROVE  AnyFailed
<1> DEFINE S == {i \in Keys : stage[i] = "skipped"}
<1>1. Acyclic(Keys, Edges(spec, prior)) BY DEF TurnsInv, RunInv
<1>2. S \in SUBSET Keys /\ S # {} OBVIOUS
<1>3. {i \in S : UpEdges(Edges(spec, prior), i) \cap S = {}} # {}
  BY <1>1, <1>2 DEF Acyclic
<1>4. PICK i \in S : Before(i) \cap S = {} BY <1>3 DEF Before
<1>5. TurnInv(i) BY DEF TurnsInv
<1>6. PICK j \in Before(i) : stage[j] \in {"failed", "skipped"}
  BY <1>5 DEF TurnInv
<1>7. j \in Keys BY BeforeAreKeys DEF EngineInv
<1> QED BY <1>4, <1>6, <1>7 DEF AnyFailed

(* Each step keeps what is known of the run.                               *)
LEMMA RunStep == EngineInv /\ TurnsInv /\ [Next]_vars => RunInv'
<1> SUFFICES ASSUME EngineInv, TurnsInv, [Next]_vars PROVE RunInv' OBVIOUS
<1>0. TypeOK /\ RunInv BY DEF EngineInv, TurnsInv
<1> USE DEF RunInv, Success
<1>1. ASSUME NEW m \in Specs \cup {Nothing}, Start(m) PROVE RunInv'
  BY <1>1 DEF Start, Accepted
<1>2. ASSUME NEW k \in Keys, NodeStep(k) PROVE RunInv'
  <2>1. running /\ running' = running /\ spec' = spec /\ prior' = prior
    BY <1>2 DEF NodeStep, Plan, Invoke, InvokeFails, DeletePanics,
                RefreshResourceIndex, UpdateState, Skip
  <2> QED BY <1>0, <2>1
<1>3. CASE Finish
  <2>1. running' = FALSE /\ stage' = stage BY <1>3 DEF Finish
  <2>2. result' = "success" => ~AnyFailed BY <1>3 DEF Finish
  <2>3. ASSUME result' = "success", NEW k \in Keys
        PROVE  stage[k] \in {"succeeded", "out"}
    <3>1. stage[k] \in Over \cup {"out"} BY <1>3 DEF Finish
    <3>2. stage[k] # "failed" BY <2>2, <2>3 DEF AnyFailed
    <3>3. stage[k] # "skipped"
      BY <1>3, <2>2, <2>3, SkippedByFailure DEF Finish
    <3> QED BY <3>1, <3>2, <3>3 DEF Over
  <2> QED BY <2>1, <2>3
<1>4. CASE Crash BY <1>4 DEF Crash
<1>5. CASE UNCHANGED vars BY <1>0, <1>5 DEF vars
<1> QED BY <1>1, <1>2, <1>3, <1>4, <1>5 DEF Next, Destroy, Rest

-----------------------------------------------------------------------------
(* Whatever fails, nodes run after those before them, a run that skips a   *)
(* node has one that failed, and a success has every node succeed.         *)
THEOREM TurnsInvariant == Spec => [](EngineInv /\ TurnsInv)
<1>1. Init => EngineInv /\ TurnsInv BY EngineInit, TurnsInit
<1>2. EngineInv /\ TurnsInv /\ [Next]_vars => (EngineInv /\ TurnsInv)'
  BY TypeStep, NodeInvStep, DivergeStep, TurnStep, RunStep
  DEF EngineInv, TurnsInv
<1> QED BY <1>1, <1>2, PTL DEF Spec

(* While a failed delete is not taken for a success, what the nodes have   *)
(* reached stays reached.                                                  *)
THEOREM OrderInvariant ==
  ASSUME "delete" \notin Faults PROVE Spec => [](EngineInv /\ OrderInv)
<1>1. Init => EngineInv /\ OrderInv BY EngineInit, OrderInit
<1>2. EngineInv /\ OrderInv /\ [Next]_vars => (EngineInv /\ OrderInv)'
  BY TypeStep, NodeInvStep, DivergeStep, TurnStep, ReachStep, RunStep
  DEF EngineInv, OrderInv, TurnsInv
<1> QED BY <1>1, <1>2, PTL DEF Spec

(* Success means that all was applied and deleted, and that the state says *)
(* so, whatever else fails or crashes before or in the run.                *)
THEOREM SuccessCoversHolds ==
  ASSUME "delete" \notin Faults PROVE Spec => []SuccessCovers
<1>1. ASSUME EngineInv, OrderInv PROVE SuccessCovers
  <2> SUFFICES ASSUME Success, NEW k \in Keys
               PROVE  IF spec[k] = Absent
                      THEN /\ recorded[k] = Absent
                           /\ prior[k] # Absent => infra[k] = Absent
                      ELSE /\ recorded[k] # Absent
                           /\ infra[k] # Absent
                           /\ spec[k].fields \subseteq infra[k]
    BY DEF SuccessCovers
  <2>1. stage[k] \in {"succeeded", "out"} BY <1>1 DEF OrderInv, TurnsInv, RunInv
  <2>2. ReachInv(k) /\ TurnInv(k) BY <1>1 DEF OrderInv, TurnsInv
  <2> QED BY <2>1, <2>2 DEF ReachInv, TurnInv, Reached, Unwanted
<1> QED BY <1>1, OrderInvariant, PTL

(* A step that changes a resource in the infrastructure is the call of its *)
(* node, and the nodes before it have succeeded.                           *)
LEMMA ChangeIsCall ==
  ASSUME EngineInv, TurnsInv, [Next]_vars, NEW k \in Keys, infra'[k] # infra[k]
  PROVE  /\ stage[k] = "invoke" /\ running
         /\ infra'[k] = Effect(k)
         /\ \A j \in Before(k) : stage[j] = "succeeded"
<1>0. TypeOK /\ TurnInv(k) BY DEF EngineInv, TurnsInv
<1>1. CASE \E i \in Keys : Invoke(i) \/ InvokeFails(i) \/ DeletePanics(i)
  <2>1. PICK i \in Keys : /\ running /\ stage[i] = "invoke"
                          /\ infra' = infra \/ Call(i)
    BY <1>1 DEF Invoke, InvokeFails, DeletePanics
  <2>2. i = k /\ infra'[k] = Effect(k) BY <1>0, <2>1 DEF Call, TypeOK
  <2> QED BY <1>0, <2>1, <2>2 DEF TurnInv, Planned
<1>2. CASE ~ \E i \in Keys : Invoke(i) \/ InvokeFails(i) \/ DeletePanics(i)
  <2>1. infra' = infra
    BY <1>2 DEF Next, Destroy, Start, NodeStep, Plan, RefreshResourceIndex, UpdateState,
                Skip, Finish, Crash, Rest, vars
  <2> QED BY <2>1
<1> QED BY <1>1, <1>2

(* A resource is touched only when all it depends on is as the spec says.  *)
THEOREM ApplyOrderHolds ==
  ASSUME "delete" \notin Faults PROVE Spec => ApplyOrder
<1>1. ASSUME EngineInv, OrderInv, [Next]_vars, NEW k \in Keys, NEW j \in Keys,
             infra'[k] # infra[k], j \in Deps(spec, k)
      PROVE  infra[j] # Absent /\ spec[j].fields \subseteq infra[j]
  <2>1. stage[j] = "succeeded" /\ running
    BY <1>1, ChangeIsCall, DepsComeBefore DEF OrderInv
  <2>2. spec[j] # Absent
    BY <1>1, <2>1 DEF OrderInv, TurnsInv, RunInv, Closed, Present
  <2>3. ReachInv(j) BY <1>1 DEF OrderInv
  <2> QED BY <2>1, <2>2, <2>3 DEF ReachInv, Reached
<1>2. EngineInv /\ OrderInv /\ [Next]_vars =>
        [\A k, j \in Keys :
           /\ infra'[k] # infra[k]
           /\ j \in Deps(spec, k)
           => infra[j] # Absent /\ spec[j].fields \subseteq infra[j]]_vars
  BY <1>1
<1> QED BY <1>2, OrderInvariant, PTL DEF Spec, ApplyOrder

(* A resource is deleted only when those recorded as depending on it are   *)
(* gone, or stay and have been applied.                                    *)
THEOREM DeleteOrderHolds ==
  ASSUME "delete" \notin Faults PROVE Spec => DeleteOrder
<1>1. ASSUME EngineInv, OrderInv, [Next]_vars, NEW k \in Keys, NEW j \in Keys,
             infra[k] # Absent, infra'[k] = Absent, k \in Deps(prior, j)
      PROVE  infra[j] = Absent \/ (spec[j] # Absent /\ stage[j] = "succeeded")
  <2>1. /\ stage[k] = "invoke" /\ Effect(k) = Absent
        /\ \A i \in Before(k) : stage[i] = "succeeded"
    BY <1>1, ChangeIsCall DEF OrderInv
  <2>2. TypeOK /\ PlannedWell(k)
    BY <1>1, <2>1, PlannedWellIs DEF EngineInv, Planned
  <2>3. act[k] = "Delete" BY <2>1, <2>2, EffectIs
  <2>4. spec[k] = Absent BY <2>2, <2>3 DEF TypeOK
  <2>5. stage[j] = "succeeded" BY <1>1, <2>1, <2>4, DependentsComeBefore
  <2>6. ReachInv(j) BY <1>1 DEF OrderInv
  <2> QED BY <2>5, <2>6 DEF ReachInv, Reached
<1>2. EngineInv /\ OrderInv /\ [Next]_vars =>
        [\A k, j \in Keys :
           /\ infra[k] # Absent
           /\ infra'[k] = Absent
           /\ k \in Deps(prior, j)
           => infra[j] = Absent \/ (spec[j] # Absent /\ stage[j] = "succeeded")]_vars
  BY <1>1
<1> QED BY <1>2, OrderInvariant, PTL DEF Spec, DeleteOrder

(* Under the same assumption nothing happens to the infrastructure out of  *)
(* order, whatever the runtime refuses and wherever the process dies.      *)
THEOREM DependencyOrderHolds ==
  ASSUME "delete" \notin Faults PROVE Spec => DependencyOrder
BY ApplyOrderHolds, DeleteOrderHolds DEF DependencyOrder

-----------------------------------------------------------------------------
(* From here on: the fields.  Calls may be refused and deletes fail, but   *)
(* none is lost, no save is refused and no process killed.                 *)
NothingLost == {"lost", "save", "crash"} \cap Faults = {}

(* The merge then gives a resource the fields of the spec and no other.    *)
LEMMA MergeIsExact ==
  ASSUME TypeOK, NEW k \in Keys, spec[k] # Absent,
         infra[k] # Absent => FieldsOf(prior[k], infra[k])
  PROVE  Merged(k) = spec[k].fields
<1>1. CASE infra[k] = Absent BY <1>1 DEF Merged
<1>2. CASE infra[k] # Absent
  <2>1. PriorFields(k) = infra[k] BY <1>2 DEF FieldsOf, PriorFields
  <2> QED BY <1>2, <2>1 DEF Merged
<1> QED BY <1>1, <1>2

(* Before its call, a node finds the recorded fields in the infrastructure.*)
LEMMA PlanSeesPrior ==
  ASSUME NEW k \in Keys, FieldsInv(k), running, stage[k] \in {"pending", "invoke"}
  PROVE  infra[k] # Absent => FieldsOf(prior[k], infra[k])
BY DEF FieldsInv

(* Its call leaves a wanted resource with the fields of the spec, and one  *)
(* that is not wanted absent.                                              *)
LEMMA EffectIsExact ==
  ASSUME EngineInv, NEW k \in Keys, FieldsInv(k), running, stage[k] = "invoke"
  PROVE  IF spec[k] = Absent THEN Effect(k) = Absent
         ELSE Effect(k) # Absent /\ FieldsOf(spec[k], Effect(k))
<1>1. TypeOK /\ NodeInv(k) /\ PlannedWell(k)
  BY PlannedWellIs DEF EngineInv, Planned
<1>2. CASE act[k] = "Delete"
  BY <1>1, <1>2 DEF TypeOK, Effect
<1>3. CASE act[k] = "UnChange"
  BY <1>1, <1>3 DEF PlannedWell, FieldsInv, FieldsOf, Effect
<1>4. CASE act[k] \in {"Create", "Update"}
  <2>1. spec[k] # Absent BY <1>1, <1>4 DEF PlannedWell
  <2>2. Merged(k) = spec[k].fields BY <1>1, <2>1, PlanSeesPrior, MergeIsExact
  <2> QED BY <1>1, <1>4, <2>1, <2>2, MergedType DEF Effect, FieldsOf
<1> QED BY <1>1, <1>2, <1>3, <1>4 DEF PlannedWell

(* The fields agree at first: there are none.                              *)
LEMMA ConvergeInit == Init => ConvergeInv
<1> SUFFICES ASSUME Init PROVE ConvergeInv OBVIOUS
<1>1. ASSUME NEW k \in Keys PROVE FieldsInv(k)
  BY DEF Init, FieldsInv, Nothing
<1> QED BY <1>1, TurnsInit DEF ConvergeInv

(* Each step keeps them so for each resource.                              *)
LEMMA FieldsStep ==
  ASSUME EngineInv, ConvergeInv, [Next]_vars, NothingLost, NEW j \in Keys
  PROVE  FieldsInv(j)'
<1>0. TypeOK /\ NodeInv(j) /\ FieldsInv(j)
  BY DEF EngineInv, ConvergeInv
<1> USE DEF FieldsInv, FieldsOf, Over, TypeOK, NothingLost
<1>1. ASSUME NEW m \in Specs \cup {Nothing}, Start(m) PROVE FieldsInv(j)'
  BY <1>0, <1>1 DEF Start, NodeInv
<1>2. ASSUME NEW k \in Keys, Plan(k) PROVE FieldsInv(j)'
  <2>1. ASSUME k = j, act'[j] = "UnChange", stage'[j] = "invoke"
        PROVE  FieldsOf(spec[j], infra[j])
    <3>1. spec[j] # Absent /\ Merged(j) = infra[j]
      BY <1>0, <1>2, <2>1 DEF Plan, Enter, ActionType
    <3>2. Merged(j) = spec[j].fields
      BY <1>0, <1>2, <2>1, <3>1, PlanSeesPrior, MergeIsExact DEF Plan
    <3> QED BY <3>1, <3>2
  <2> QED BY <1>0, <1>2, <2>1 DEF Plan, Enter
<1>3. ASSUME NEW k \in Keys, Invoke(k) PROVE FieldsInv(j)'
  <2>1. CASE k = j
    <3>1. IF spec[j] = Absent THEN Effect(j) = Absent
          ELSE Effect(j) # Absent /\ FieldsOf(spec[j], Effect(j))
      BY <1>3, <2>1, EffectIsExact DEF Invoke, ConvergeInv
    <3>2. ASSUME act[j] = "UnChange"
          PROVE  /\ infra[j] # Absent => FieldsOf(prior[j], infra[j])
                 /\ infra[j] # Absent /\ Effect(j) = infra[j]
      BY <1>0, <1>3, <2>1, <3>2, PlanSeesPrior DEF Invoke, NodeInv, Planned, Effect
    <3> QED BY <1>0, <1>3, <2>1, <3>1, <3>2 DEF Invoke, Call, Enter
  <2>2. CASE k # j BY <1>0, <1>3, <2>2 DEF Invoke, Call, Enter
  <2> QED BY <2>1, <2>2
<1>4. ASSUME NEW k \in Keys, InvokeFails(k) PROVE FieldsInv(j)'
  <2>1. UNCHANGED infra BY <1>4 DEF InvokeFails
  <2> QED BY <1>0, <1>4, <2>1 DEF InvokeFails, Enter
<1>5. ASSUME NEW k \in Keys, DeletePanics(k) PROVE FieldsInv(j)'
  <2>1. CASE k = j
    <3>1. spec[j] = Absent /\ Effect(j) = Absent
      BY <1>0, <1>5, <2>1 DEF DeletePanics, Effect
    <3> QED BY <1>0, <1>5, <2>1, <3>1 DEF DeletePanics, Call, Enter
  <2>2. CASE k # j BY <1>0, <1>5, <2>2 DEF DeletePanics, Call, Enter
  <2> QED BY <2>1, <2>2
<1>6. ASSUME NEW k \in Keys, RefreshResourceIndex(k) PROVE FieldsInv(j)'
  <2>1. CASE k = j
    <3>1. PlannedWell(j)
      BY <1>6, <2>1, PlannedWellIs DEF EngineInv, RefreshResourceIndex, Planned
    <3>2. infra[j] # Absent => FieldsOf(Outcome(j), infra[j])
      <4>1. CASE act[j] = "Delete"
        BY <1>0, <1>6, <2>1, <4>1 DEF NodeInv, RefreshResourceIndex
      <4>2. CASE act[j] \in {"Create", "Update"}
        BY <1>0, <1>6, <2>1, <3>1, <4>2 DEF PlannedWell, Outcome, RefreshResourceIndex
      <4>3. CASE act[j] = "UnChange"
        BY <1>0, <1>6, <2>1, <4>3 DEF Outcome, RefreshResourceIndex
      <4> QED BY <3>1, <4>1, <4>2, <4>3 DEF PlannedWell
    <3> QED BY <1>0, <1>6, <2>1, <3>2 DEF RefreshResourceIndex, Enter
  <2>2. CASE k # j BY <1>0, <1>6, <2>2 DEF RefreshResourceIndex, Enter
  <2> QED BY <2>1, <2>2
<1>7. ASSUME NEW k \in Keys, UpdateState(k) PROVE FieldsInv(j)'
  <2>1. recorded' = index /\ Enter(k, "succeeded") BY <1>7 DEF UpdateState
  <2> QED BY <1>0, <1>7, <2>1 DEF UpdateState, Enter
<1>8. ASSUME NEW k \in Keys, Skip(k) PROVE FieldsInv(j)'
  BY <1>0, <1>8 DEF Skip, Enter
<1>9. CASE Finish BY <1>0, <1>9 DEF Finish
<1>10. CASE Crash BY <1>10 DEF Crash
<1>11. CASE UNCHANGED vars BY <1>0, <1>11 DEF vars
<1> QED
  BY <1>1, <1>2, <1>3, <1>4, <1>5, <1>6, <1>7, <1>8, <1>9, <1>10, <1>11
  DEF Next, Destroy, NodeStep, Rest

(* Over any sequence of runs, a run that reports success leaves each       *)
(* wanted resource with the fields of the spec and no other, while calls   *)
(* may be refused and deletes fail: the record that the merge goes by is   *)
(* then never behind the infrastructure.                                   *)
THEOREM ConvergedHolds ==
  ASSUME NothingLost PROVE Spec => []Converged
<1>1. Init => EngineInv /\ ConvergeInv BY EngineInit, ConvergeInit
<1>2. EngineInv /\ ConvergeInv /\ [Next]_vars => (EngineInv /\ ConvergeInv)'
  BY TypeStep, NodeInvStep, DivergeStep, TurnStep, RunStep, FieldsStep
  DEF EngineInv, TurnsInv, ConvergeInv
<1>3. ASSUME EngineInv, ConvergeInv PROVE Converged
  <2> SUFFICES ASSUME Success, NEW k \in Keys, spec[k] # Absent
               PROVE  infra[k] = spec[k].fields
    BY DEF Converged, Present
  <2>1. stage[k] \in {"succeeded", "out"} /\ TurnInv(k) /\ FieldsInv(k)
    BY <1>3 DEF ConvergeInv, TurnsInv, RunInv
  <2> QED BY <2>1 DEF TurnInv, Unwanted, FieldsInv, FieldsOf
<1> QED BY <1>1, <1>2, <1>3, PTL DEF Spec
=============================================================================
