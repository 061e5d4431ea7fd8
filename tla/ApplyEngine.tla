---------------------------- MODULE ApplyEngine -----------------------------
(***************************************************************************)
(* The engine applying one stack again and again: each run reads the       *)
(* latest state, builds the resource graph of a new spec (ResourceGraph),  *)
(* walks it in parallel (OrderedExecution) and executes a ResourceNode     *)
(* per resource, which calls the runtime and saves the whole state after   *)
(* every change (pkg/engine/operation, its graph and models packages).     *)
(* Destroy is a run with an empty spec.  Between two steps of a node any   *)
(* other node may move, and the process may die.                           *)
(*                                                                         *)
(* A resource is the set of its fields and the keys it depends on.  The    *)
(* infrastructure is a Kubernetes one, whose Apply merges three ways and   *)
(* which only Kusion changes.                                              *)
(***************************************************************************)
EXTENDS Digraphs

CONSTANTS Keys,     \* the resource keys
          Fields,   \* the fields a resource can have
          Specs,    \* the specs users may write, each [Keys -> Resource or Absent]
          Absent,   \* no such resource
          Faults    \* what may go wrong, among AllFaults

AllFaults == {"reject",   \* the runtime refuses, nothing happens
              "lost",     \* the runtime does it and the answer is an error
              "delete",   \* as both, for a delete
              "save",     \* the state storage refuses
              "crash"}    \* the process dies

ASSUME FaultsAssumption == Faults \subseteq AllFaults

Resource == [fields : SUBSET Fields, deps : SUBSET Keys]

ASSUME SpecsAssumption ==
  /\ \A r \in Resource \cup SUBSET Fields : r # Absent
  /\ Specs \subseteq [Keys -> {Absent} \cup Resource]

VARIABLES recorded,  \* the resources of the state in the storage
          infra,     \* the fields of each resource in the infrastructure
          running,   \* whether an operation is in progress
          spec,      \* its request
          prior,     \* PriorStateResourceIndex
          index,     \* StateResourceIndex
          stage,     \* how far the node of each resource is
          act,       \* its action, once computed
          result,    \* how the last operation ended
          doubt      \* history: resources whose last call was interrupted

vars == <<recorded, infra, running, spec, prior, index, stage, act, result, doubt>>

Nothing == [k \in Keys |-> Absent]
Present(r) == {k \in Keys : r[k] # Absent}
Deps(r, k) == IF r[k] = Absent THEN {} ELSE r[k].deps

-----------------------------------------------------------------------------
(* Mutant: a deleted resource is not ordered after its dependents.         *)
EdgesIgnoringDeletes(m, p) ==
  (UNION {Deps(m, k) \X {k} : k \in Keys})
  \cup (UNION {(Deps(p, k) \cap Present(m)) \X {k} : k \in Keys})

(* The graph of a spec m over a state p, without the root (ResourceGraph). *)
(* What stays comes after its dependencies, the recorded ones included; a  *)
(* resource to delete comes after those recorded as depending on it and    *)
(* after its recorded dependencies that stay.                              *)
Edges(m, p) ==
  (UNION {Deps(m, k) \X {k} : k \in Keys})
  \cup (UNION {(Deps(p, k) \cap Present(m)) \X {k} : k \in Keys})
  \cup (UNION {{k} \X (Deps(p, k) \ Present(m)) : k \in Keys})

Closed(r) == \A k \in Keys : Deps(r, k) \subseteq Present(r)

(* The check that a kept resource does not need a deleted one is passed or *)
(* not according to the order of a map, so it keeps no request out.        *)
Accepted(m, p) ==
  /\ Closed(m)
  /\ Acyclic(Keys, UNION {Deps(m, k) \X {k} : k \in Keys})
  /\ Closed(p)
  /\ Acyclic(Keys, Edges(m, p))

(* What the node of k waits for.                                           *)
Before(k) == UpEdges(Edges(spec, prior), k)

Over == {"succeeded", "failed", "skipped"}

-----------------------------------------------------------------------------
Init ==
  /\ recorded = Nothing
  /\ infra = Nothing
  /\ running = FALSE
  /\ spec = Nothing
  /\ prior = Nothing
  /\ index = Nothing
  /\ stage = [k \in Keys |-> "out"]
  /\ act = [k \in Keys |-> "none"]
  /\ result = "none"
  /\ doubt = {}

(* Apply or Destroy up to walker.Update: InitStates and the graph.         *)
Start(m) ==
  /\ ~running
  /\ Accepted(m, recorded)
  /\ running' = TRUE
  /\ spec' = m
  /\ prior' = recorded
  /\ index' = recorded
  /\ stage' = [k \in Keys |->
                 IF k \in Present(m) \cup Present(recorded) THEN "pending" ELSE "out"]
  /\ act' = [k \in Keys |-> "none"]
  /\ result' = "none"
  /\ UNCHANGED <<recorded, infra, doubt>>

(* The operation Destroy is a run that wants no resource.                  *)
Destroy == Start(Nothing)

-----------------------------------------------------------------------------
(* Mutant: a two-way merge.                                                *)
NoFields(k) == {}

(* KubernetesRuntime.Apply: fields that only the recorded resource has go, *)
(* those of the plan come, the others stay.                                *)
PriorFields(k) == IF prior[k] = Absent THEN {} ELSE prior[k].fields

Merged(k) ==
  IF infra[k] = Absent THEN spec[k].fields
  ELSE (infra[k] \ (PriorFields(k) \ spec[k].fields)) \cup spec[k].fields

(* computeActionType                                                       *)
ActionType(k) ==
  IF spec[k] = Absent THEN "Delete"
  ELSE IF prior[k] = Absent /\ infra[k] = Absent THEN "Create"
  ELSE IF Merged(k) = infra[k] THEN "UnChange" ELSE "Update"

Enter(k, s) == stage' = [stage EXCEPT ![k] = s]

(* Execute up to computeActionType: read, dry-run and compare.             *)
Plan(k) ==
  /\ running
  /\ stage[k] = "pending"
  /\ \A j \in Before(k) : stage[j] = "succeeded"
  /\ \/ Enter(k, "invoke") /\ act' = [act EXCEPT ![k] = ActionType(k)]
     \/ "reject" \in Faults /\ Enter(k, "failed") /\ UNCHANGED act
  /\ UNCHANGED <<recorded, infra, running, spec, prior, index, result, doubt>>

Effect(k) ==
  CASE act[k] \in {"Create", "Update"} -> Merged(k)
    [] act[k] = "UnChange" -> infra[k]
    [] act[k] = "Delete" -> Absent

Call(k) == infra' = [infra EXCEPT ![k] = Effect(k)]

(* applyResource, the call of the runtime.                                 *)
Invoke(k) ==
  /\ running
  /\ stage[k] = "invoke"
  /\ Call(k)
  /\ Enter(k, "refresh")
  /\ UNCHANGED <<recorded, running, spec, prior, index, act, result, doubt>>

(* Mutant: a refused call is tried again, for ever.                        *)
InvokeRetries(k) ==
  /\ running
  /\ stage[k] = "invoke"
  /\ act[k] # "Delete"
  /\ act[k] = "UnChange" => prior[k] = Absent
  /\ "reject" \in Faults
  /\ Enter(k, "pending")
  /\ UNCHANGED <<recorded, infra, running, spec, prior, index, act, result, doubt>>

(* The call fails, with or without effect, and so does the node.           *)
InvokeFails(k) ==
  /\ running
  /\ stage[k] = "invoke"
  /\ act[k] # "Delete"
  /\ act[k] = "UnChange" => prior[k] = Absent
  /\ \/ "reject" \in Faults /\ UNCHANGED <<infra, doubt>>
     \/ "lost" \in Faults /\ Call(k) /\ doubt' = doubt \cup {k}
  /\ Enter(k, "failed")
  /\ UNCHANGED <<recorded, running, spec, prior, index, act, result>>

(* After a failed delete, logging the ID of the absent plan panics; the    *)
(* recover of applyWalkFun sets a status that nobody reads any more, and   *)
(* the walker takes the nil diagnostics for success.                       *)
DeletePanics(k) ==
  /\ running
  /\ stage[k] = "invoke"
  /\ act[k] = "Delete"
  /\ "delete" \in Faults
  /\ \/ UNCHANGED <<infra, doubt>>
     \/ Call(k) /\ doubt' = doubt \cup {k}
  /\ Enter(k, "succeeded")
  /\ UNCHANGED <<recorded, running, spec, prior, index, act, result>>

(* Mutant: a deleted resource stays in the index.                          *)
OutcomeKeepingDeleted(k) ==
  CASE act[k] \in {"Create", "Update"} -> spec[k]
    [] act[k] \in {"Delete", "UnChange"} ->
         IF prior[k] # Absent THEN prior[k]
         ELSE [fields |-> infra[k], deps |-> spec[k].deps]

(* What applyResource keeps of a resource: the plan that was applied, the  *)
(* recorded resource if nothing changed, or the live one it imports.       *)
Outcome(k) ==
  CASE act[k] \in {"Create", "Update"} -> spec[k]
    [] act[k] = "Delete" -> Absent
    [] act[k] = "UnChange" ->
         IF prior[k] # Absent THEN prior[k]
         ELSE [fields |-> infra[k], deps |-> spec[k].deps]

RefreshResourceIndex(k) ==
  /\ running
  /\ stage[k] = "refresh"
  /\ index' = [index EXCEPT ![k] = Outcome(k)]
  /\ Enter(k, "save")
  /\ UNCHANGED <<recorded, infra, running, spec, prior, act, result, doubt>>

(* UpdateState saves every entry of the index, other nodes' included.      *)
UpdateState(k) ==
  /\ running
  /\ stage[k] = "save"
  /\ \/ /\ recorded' = index
        /\ Enter(k, "succeeded")
        /\ doubt' = doubt \ {k}
     \/ /\ "save" \in Faults
        /\ Enter(k, "failed")
        /\ doubt' = doubt \cup {k}
        /\ UNCHANGED recorded
  /\ UNCHANGED <<infra, running, spec, prior, index, act, result>>

(* The walker, for a node that must not run.                               *)
Skip(k) ==
  /\ running
  /\ stage[k] = "pending"
  /\ \A j \in Before(k) : stage[j] \in Over
  /\ \E j \in Before(k) : stage[j] # "succeeded"
  /\ Enter(k, "skipped")
  /\ UNCHANGED <<recorded, infra, running, spec, prior, index, act, result, doubt>>

(* Mutant: only a node with dependents makes the run fail.                 *)
AnySkipped == \E k \in Keys : stage[k] = "skipped"

(* diags.HasErrors: Wait drops the diagnostics of skipped nodes.           *)
AnyFailed == \E k \in Keys : stage[k] = "failed"

(* Apply returns: an error if a node has failed.                           *)
Finish ==
  /\ running
  /\ \A k \in Keys : stage[k] \in Over \cup {"out"}
  /\ running' = FALSE
  /\ result' = IF AnyFailed THEN "error" ELSE "success"
  /\ UNCHANGED <<recorded, infra, spec, prior, index, stage, act, doubt>>

InFlight == {k \in Keys : stage[k] \in {"refresh", "save"}}

(* The process dies; only the storage and the infrastructure survive.      *)
Crash ==
  /\ running
  /\ "crash" \in Faults
  /\ running' = FALSE
  /\ result' = "none"
  /\ doubt' = doubt \cup InFlight
  /\ spec' = Nothing
  /\ prior' = Nothing
  /\ index' = Nothing
  /\ stage' = [k \in Keys |-> "out"]
  /\ act' = [k \in Keys |-> "none"]
  /\ UNCHANGED <<recorded, infra>>

NodeStep(k) ==
  \/ Plan(k) \/ Invoke(k) \/ InvokeFails(k) \/ DeletePanics(k)
  \/ RefreshResourceIndex(k) \/ UpdateState(k) \/ Skip(k)

(* A user, or a build system, that has nothing more to apply.              *)
Rest == ~running /\ UNCHANGED vars

Next ==
  \/ \E m \in Specs : Start(m)
  \/ Destroy
  \/ \E k \in Keys : NodeStep(k)
  \/ Finish
  \/ Crash
  \/ Rest

Spec == Init /\ [][Next]_vars

(* A node that can move does, and Apply returns.                           *)
FairSpec == Spec /\ WF_vars(Finish) /\ \A k \in Keys : WF_vars(NodeStep(k))

-----------------------------------------------------------------------------
TypeOK ==
  /\ recorded \in [Keys -> {Absent} \cup Resource]
  /\ infra \in [Keys -> {Absent} \cup SUBSET Fields]
  /\ running \in BOOLEAN
  /\ spec \in Specs \cup {Nothing}
  /\ prior \in [Keys -> {Absent} \cup Resource]
  /\ index \in [Keys -> {Absent} \cup Resource]
  /\ stage \in [Keys -> {"out", "pending", "invoke", "refresh", "save"} \cup Over]
  /\ act \in [Keys -> {"none", "Create", "Update", "UnChange", "Delete"}]
  /\ \A k \in Keys :
       /\ act[k] = "Create" => spec[k] # Absent /\ prior[k] = Absent
       /\ act[k] = "Delete" => spec[k] = Absent /\ prior[k] # Absent
  /\ result \in {"none", "success", "error"}
  /\ doubt \subseteq Keys

Success == ~running /\ result = "success"

(* A run that reports success has applied every field of every resource of *)
(* the spec and deleted every recorded resource that is not in it, and the *)
(* state says so.                                                          *)
SuccessCovers ==
  Success =>
    \A k \in Keys :
      IF spec[k] = Absent
      THEN recorded[k] = Absent /\ (prior[k] # Absent => infra[k] = Absent)
      ELSE recorded[k] # Absent /\ infra[k] # Absent /\ spec[k].fields \subseteq infra[k]

(* "Apply means turn all actual infra resources into the desired state":   *)
(* after success each resource of the spec has the fields of the spec and  *)
(* no other, for nobody but Kusion ever added one.                         *)
Converged ==
  Success => \A k \in Present(spec) : infra[k] = spec[k].fields

(* The state and the infrastructure hold the same resources, those in the  *)
(* middle of a call apart and those whose call a fault interrupted: a      *)
(* crash can lose track of nothing else, and a later run of the resource   *)
(* finds it again.                                                         *)
OnlyDoubtfulDiverge ==
  \A k \in Keys \ (doubt \cup InFlight) : recorded[k] = Absent <=> infra[k] = Absent

(* The state always names resources it has: otherwise no later apply or    *)
(* destroy gets past the construction of the graph.                        *)
StateClosed == ~running => Closed(recorded)

(* A resource is removed from the infrastructure only when those recorded  *)
(* as depending on it are gone, or stay and have been applied.             *)
DeleteOrder ==
  [][\A k, j \in Keys :
       /\ infra[k] # Absent
       /\ infra'[k] = Absent
       /\ k \in Deps(prior, j)
       => infra[j] = Absent \/ (spec[j] # Absent /\ stage[j] = "succeeded")]_vars

(* A resource is touched only when all it depends on is as the spec says.  *)
ApplyOrder ==
  [][\A k, j \in Keys :
       /\ infra'[k] # infra[k]
       /\ j \in Deps(spec, k)
       => infra[j] # Absent /\ spec[j].fields \subseteq infra[j]]_vars

(* Nothing happens to the infrastructure out of order.                     *)
DependencyOrder == ApplyOrder /\ DeleteOrder

(* An accepted graph can be walked to its end.                             *)
RunEnds == running ~> ~running

-----------------------------------------------------------------------------
(* Why the state can be trusted: between the call of the runtime and the   *)
(* save, a resource is in one of two stages, and the index of a resource   *)
(* that is in neither, nor in doubt, is what the storage has, so that      *)
(* another node may save it at any time.                                   *)
Planned == {"invoke", "refresh", "save"}

NodeInv(k) ==
  /\ running /\ stage[k] # "out" => spec[k] # Absent \/ prior[k] # Absent
  /\ ~running => stage[k] \in Over \cup {"out"}
  /\ act[k] \in {"Create", "Update", "UnChange"} => spec[k] # Absent
  /\ stage[k] \in Planned => act[k] # "none"
  /\ stage[k] \in Planned /\ act[k] = "UnChange" => infra[k] # Absent
  /\ stage[k] \in {"refresh", "save"} => (infra[k] = Absent <=> act[k] = "Delete")
  /\ stage[k] = "save" => (index[k] = Absent <=> act[k] = "Delete")
  /\ running /\ k \notin doubt /\ stage[k] # "save" => index[k] = recorded[k]

EngineInv == TypeOK /\ OnlyDoubtfulDiverge /\ \A k \in Keys : NodeInv(k)

(* What the walk makes sure of whatever fails: a node runs after those     *)
(* before it, no node is skipped without another that failed, and what has *)
(* no node is neither wanted nor recorded.                                 *)
Unwanted(k) ==
  spec[k] = Absent /\ prior[k] = Absent /\ index[k] = Absent /\ recorded[k] = Absent

TurnInv(k) ==
  /\ stage[k] \in Planned => \A j \in Before(k) : stage[j] = "succeeded"
  /\ stage[k] = "skipped" => \E j \in Before(k) : stage[j] \in {"failed", "skipped"}
  /\ stage[k] = "out" /\ (running \/ Success) => Unwanted(k)

RunInv ==
  /\ running => Closed(spec) /\ Acyclic(Keys, Edges(spec, prior))
  /\ Success => \A k \in Keys : stage[k] \in {"succeeded", "out"}

TurnsInv == RunInv /\ \A k \in Keys : TurnInv(k)

(* Why a success can be believed, when a failed delete is not taken for    *)
(* one: what a node has reached stays reached.                             *)
Reached(k) ==
  IF spec[k] = Absent THEN infra[k] = Absent
  ELSE infra[k] # Absent /\ spec[k].fields \subseteq infra[k]

ReachInv(k) ==
  /\ stage[k] \in {"refresh", "save", "succeeded"} => Reached(k)
  /\ stage[k] \in {"save", "succeeded"} => (index[k] = Absent <=> spec[k] = Absent)
  /\ stage[k] = "succeeded" => recorded[k] = index[k]
  /\ stage[k] = "invoke" /\ act[k] = "UnChange" => Merged(k) = infra[k]

OrderInv == TurnsInv /\ \A k \in Keys : ReachInv(k)

(* Why the three-way merge leaves no field behind, when no call is lost,   *)
(* no save refused and no process killed: what is in the infrastructure    *)
(* has the recorded fields, but while its own node is between the call and *)
(* the save, and what the node of a wanted resource has called has those   *)
(* of the spec.                                                            *)
FieldsOf(r, fs) == r # Absent /\ r.fields = fs

FieldsInv(k) ==
  /\ running /\ stage[k] # "save" => index[k] = recorded[k]
  /\ running /\ stage[k] \notin {"save", "succeeded"} => recorded[k] = prior[k]
  /\ stage[k] \notin {"refresh", "save"} /\ infra[k] # Absent => FieldsOf(recorded[k], infra[k])
  /\ stage[k] = "save" /\ infra[k] # Absent => FieldsOf(index[k], infra[k])
  /\ stage[k] = "invoke" /\ act[k] = "UnChange" => FieldsOf(spec[k], infra[k])
  /\ stage[k] = "refresh" /\ act[k] = "UnChange" => FieldsOf(prior[k], infra[k])
  /\ stage[k] \in {"refresh", "save", "succeeded"} /\ spec[k] # Absent => FieldsOf(spec[k], infra[k])

ConvergeInv == TurnsInv /\ \A k \in Keys : FieldsInv(k)
=============================================================================
