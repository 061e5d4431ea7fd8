------------------------------ MODULE Session -------------------------------
(***************************************************************************)
(* A user applying and destroying one stack: preview, question, operation  *)
(* (pkg/cmd/apply, destroy and preview, operation/preview.go).  Preview    *)
(* and operation walk the same graph with the same ResourceNode, each over *)
(* its own CtxResourceIndex, in which a node looks up the attributes that  *)
(* it refers to.  The preview replaces references and secrets in the spec  *)
(* itself, and the operation works on what is left of it.                  *)
(*                                                                         *)
(* A resource has an attribute of its own, the computed id that the        *)
(* infrastructure gives it, and a link: a value, a reference to another    *)
(* resource, or a secret.  What the runtime refuses and what the storage   *)
(* loses is in ApplyEngine and StateStorage.                               *)
(***************************************************************************)
EXTENDS Digraphs, Integers, Sequences, FiniteSets

CONSTANTS Keys,      \* the resource keys
          Specs,     \* the specs users write
          Absent,    \* no such resource
          MaxCommands, \* bound on the commands
          MaxDrift   \* bound on the changes others make

VARIABLES kind,      \* the runtime, Kubernetes or Terraform
          infra,     \* the live resources
          vault,     \* the value of the secret
          recorded,  \* the latest state
          phase,     \* where the command is
          request,   \* the spec as the user wrote it
          spec,      \* the spec as the nodes have left it
          ignore,    \* whether the preview ignores the field own
          prior,     \* PriorStateResourceIndex
          ctx,       \* CtxResourceIndex
          stage,     \* how far each node is
          outcome,   \* what its node puts in the index
          act,       \* its action
          steps,     \* the steps of the preview, in their order
          result,    \* how the last command ended
          drifted,   \* history: somebody else changed something since the preview
          settled,   \* history: the spec that succeeded, if nothing changed since
          ids,       \* how many ids were given
          drifts,    \* how much drift there was
          commands   \* how many commands there were

node == <<ctx, stage, outcome, act>>
world == <<kind, infra, vault, recorded>>
bounds == <<ids, drifts, commands>>
seen == <<drifted, settled>>
vars == <<world, phase, request, spec, ignore, prior, node, steps, result, seen, bounds>>

None == <<"none">>
Secret == <<"secret">>
Ref(j, attr) == <<"ref", j, attr>>
Value(x) == <<"value", x>>
IsRef(link) == link[1] = "ref"

Links ==
  {None, Secret} \cup {Ref(j, attr) : j \in Keys, attr \in {"own", "id"}}
  \cup {"value"} \X Nat

Resources == [own : Nat, link : Links, on : SUBSET Keys, id : Nat]
Indexes == [Keys -> Resources \cup {Absent}]

ASSUME AbsentAssumption == Absent \notin Resources

(* The id is no part of what users write.                                  *)
ASSUME SpecsAssumption ==
  Specs \subseteq [Keys -> {r \in Resources : r.id = 0} \cup {Absent}]

Nothing == [k \in Keys |-> Absent]
Present(r) == {k \in Keys : r[k] # Absent}
Resource(own, link, on, id) == [own |-> own, link |-> link, on |-> on, id |-> id]

-----------------------------------------------------------------------------
(* Mutant: references are not looked for.                                  *)
ExplicitOnly(k, r) == {}

(* updateDependencies: the resource a link refers to is added to DependsOn *)
(* and stays there when the reference is replaced.                         *)
DependsOn(k, r) == r[k].on \cup (IF IsRef(r[k].link) THEN {r[k].link[2]} ELSE {})

Deps(k, r) == IF r[k] = Absent THEN {} ELSE DependsOn(k, r)

(* The graph of a spec over a state (ResourceGraph).                       *)
Edges(m, p) ==
  (UNION {Deps(k, m) \X {k} : k \in Keys})
  \cup (UNION {(Deps(k, p) \cap Present(m)) \X {k} : k \in Keys})
  \cup (UNION {{k} \X (Deps(k, p) \ Present(m)) : k \in Keys})

Closed(r) == \A k \in Keys : Deps(k, r) \subseteq Present(r)

Accepted(m, p) ==
  /\ Closed(m)
  /\ Closed(p)
  /\ Acyclic(Keys, Edges(m, p))

Over == {"done", "failed", "skipped"}
Walking == phase \in {"preview", "operation"}
Destroying == request = Nothing

-----------------------------------------------------------------------------
Init ==
  /\ kind \in {"Kubernetes", "Terraform"}
  /\ infra = Nothing
  /\ vault = 1
  /\ recorded = Nothing
  /\ phase = "idle"
  /\ request = Nothing
  /\ spec = Nothing
  /\ ignore = FALSE
  /\ prior = Nothing
  /\ ctx = Nothing
  /\ stage = [k \in Keys |-> "out"]
  /\ outcome = Nothing
  /\ act = [k \in Keys |-> "none"]
  /\ steps = <<>>
  /\ result = "none"
  /\ drifted = FALSE
  /\ settled = {}
  /\ ids = 0 /\ drifts = 0 /\ commands = 0

(* InitStates, the indexes and the graph, for the preview and again for    *)
(* the operation.                                                          *)
Begin(m) ==
  /\ Accepted(m, recorded)
  /\ prior' = recorded
  /\ spec' = [k \in Keys |->
       IF m[k] = Absent THEN Absent ELSE [m[k] EXCEPT !.on = DependsOn(k, m)]]
  /\ ctx' = Nothing
  /\ outcome' = Nothing
  /\ act' = [k \in Keys |-> "none"]
  /\ stage' = [k \in Keys |->
       IF k \in Present(m) \cup Present(recorded) THEN "pending" ELSE "out"]

(* The command, up to the walk of its preview.                             *)
Command(m) ==
  /\ phase = "idle"
  /\ commands < MaxCommands
  /\ m = Nothing => recorded # Nothing
  /\ Begin(m)
  /\ phase' = "preview"
  /\ request' = m
  /\ ignore' \in BOOLEAN
  /\ steps' = <<>>
  /\ result' = "none"
  /\ drifted' = FALSE
  /\ commands' = commands + 1
  /\ UNCHANGED <<world, settled, ids, drifts>>

Enter(k, s) == stage' = [stage EXCEPT ![k] = s]

Ready(k) ==
  /\ Walking
  /\ stage[k] = "pending"
  /\ \A j \in UpEdges(Edges(spec, prior), k) : stage[j] = "done"

Quiet == UNCHANGED <<world, phase, request, ignore, prior, steps, result, seen, bounds>>

(* Mutant: no preview replaces references.                                 *)
ReplacesLate == phase = "operation" /\ ~Destroying

(* PreExecute: "first time apply. Do not replace implicit dependency ref". *)
Replaces == ~Destroying /\ (phase = "preview" => prior # Nothing)

(* ImplicitReplaceFun finds the resource in the index and the attribute    *)
(* in the resource.                                                        *)
Missing(link) ==
  \/ ctx[link[2]] = Absent
  \/ link[3] = "id" /\ ctx[link[2]].id = 0

(* Mutant: the value is what was recorded before the walk.                 *)
ResolvedFromPrior(link) ==
  CASE IsRef(link) /\ Replaces ->
         LET r == IF prior[link[2]] = Absent THEN ctx[link[2]] ELSE prior[link[2]]
         IN  Value(IF link[3] = "id" THEN r.id ELSE r.own)
    [] link = Secret -> Value(vault)
    [] OTHER -> link

Resolved(link) ==
  CASE IsRef(link) /\ Replaces ->
         Value(IF link[3] = "id" THEN ctx[link[2]].id ELSE ctx[link[2]].own)
    [] link = Secret -> Value(vault)
    [] OTHER -> link

(* PreExecute replaces in the resource of the spec, which the operation    *)
(* will get after the preview.                                             *)
PreExecute(k) ==
  /\ Ready(k)
  /\ IF spec[k] = Absent THEN Enter(k, "compute") /\ UNCHANGED spec
     ELSE IF IsRef(spec[k].link) /\ Replaces /\ Missing(spec[k].link)
     THEN Enter(k, "failed") /\ UNCHANGED spec
     ELSE /\ Enter(k, "compute")
          /\ spec' = [spec EXCEPT ![k].link = Resolved(@)]
  /\ UNCHANGED <<ctx, outcome, act>>
  /\ Quiet

(* Runtime.Read: Terraform knows only what is recorded.                    *)
Live(k) == IF kind = "Terraform" /\ prior[k] = Absent THEN Absent ELSE infra[k]

(* Runtime.Apply: what becomes of the live resource, whose id changes if   *)
(* Terraform must replace it.  A dry run does not know a new id.           *)
Applied(k, newId) ==
  [spec[k] EXCEPT !.id =
     IF Live(k) = Absent \/ (kind = "Terraform" /\ Live(k).own # spec[k].own)
     THEN newId ELSE Live(k).id]

Same(r, s) == r.link = s.link /\ (r.own = s.own \/ (ignore /\ phase = "preview"))

Action(k) ==
  IF spec[k] = Absent THEN "Delete"
  ELSE IF prior[k] = Absent /\ Live(k) = Absent THEN "Create"
  ELSE IF Live(k) # Absent /\ Same(Live(k), Applied(k, 0)) THEN "UnChange"
  ELSE "Update"

(* A preview that ignores fields panics on a recorded resource that is     *)
(* gone; the walker takes that for a success.                              *)
Panics(k) ==
  /\ ignore /\ phase = "preview"
  /\ spec[k] # Absent /\ prior[k] # Absent /\ Live(k) = Absent

Dry(k) ==
  CASE Action(k) = "Delete" -> Absent
    [] Action(k) = "Create" -> spec[k]
    [] OTHER -> Applied(k, 0)

(* Mutant: a preview calls the runtime like an operation.                  *)
ComputeInvokes(k) ==
  /\ Walking
  /\ stage[k] = "compute"
  /\ act' = [act EXCEPT ![k] = Action(k)]
  /\ Enter(k, "invoke")
  /\ UNCHANGED <<spec, ctx, outcome>>
  /\ Quiet

(* Execute up to the call of the runtime; the runtime may refuse.          *)
Compute(k) ==
  /\ Walking
  /\ stage[k] = "compute"
  /\ \/ Enter(k, "failed") /\ UNCHANGED <<outcome, act>>
     \/ Panics(k) /\ Enter(k, "done") /\ UNCHANGED <<outcome, act>>
     \/ /\ ~Panics(k)
        /\ act' = [act EXCEPT ![k] = Action(k)]
        /\ IF phase = "preview"
           THEN Enter(k, "refresh") /\ outcome' = [outcome EXCEPT ![k] = Dry(k)]
           ELSE Enter(k, "invoke") /\ UNCHANGED outcome
  /\ UNCHANGED <<spec, ctx>>
  /\ Quiet

(* What applyResource keeps: Kubernetes answers with the plan, Terraform   *)
(* with all it knows; what did not change stays as recorded, or is         *)
(* imported.                                                               *)
Kept(k, new) ==
  CASE act[k] = "Delete" -> Absent
    [] act[k] = "UnChange" /\ prior[k] # Absent -> prior[k]
    [] OTHER -> IF kind = "Terraform" THEN new ELSE [new EXCEPT !.id = 0]

(* applyResource, the call of the runtime.                                 *)
Invoke(k) ==
  /\ phase = "operation"
  /\ stage[k] = "invoke"
  /\ LET new == IF act[k] = "Delete" THEN Absent ELSE Applied(k, ids + 1)
     IN  /\ infra' = [infra EXCEPT ![k] = IF act[k] = "UnChange" THEN @ ELSE new]
         /\ ids' = IF new # Absent /\ new.id = ids + 1 THEN ids + 1 ELSE ids
         /\ outcome' = [outcome EXCEPT ![k] = Kept(k, new)]
  /\ Enter(k, "refresh")
  /\ UNCHANGED <<kind, vault, recorded, phase, request, spec, ignore, prior, ctx, act,
                 steps, result, seen, drifts, commands>>

(* RefreshResourceIndex, then updateChangeOrder or UpdateState.            *)
Refresh(k) ==
  /\ Walking
  /\ stage[k] = "refresh"
  /\ ctx' = [ctx EXCEPT ![k] = outcome[k]]
  /\ Enter(k, "done")
  /\ IF phase = "preview"
     THEN steps' = Append(steps, <<k, act[k]>>) /\ UNCHANGED recorded
     ELSE recorded' = [recorded EXCEPT ![k] = outcome[k]] /\ UNCHANGED steps
  /\ UNCHANGED <<kind, infra, vault, phase, request, spec, ignore, prior, outcome, act,
                 result, seen, bounds>>

Skip(k) ==
  /\ Walking
  /\ stage[k] = "pending"
  /\ \E j \in UpEdges(Edges(spec, prior), k) : stage[j] \in {"failed", "skipped"}
  /\ Enter(k, "skipped")
  /\ UNCHANGED <<spec, ctx, outcome, act>>
  /\ Quiet

(* PreExecute reads the index without the lock that Refresh holds: if the  *)
(* read of a node meets the write of another, Go ends the process.         *)
Reading == {k \in Keys : Ready(k) /\ spec[k] # Absent /\ IsRef(spec[k].link) /\ Replaces}
Writing == {k \in Keys : stage[k] = "refresh"}

Leave(r) ==
  /\ phase' = "idle"
  /\ result' = r
  /\ UNCHANGED <<world, request, spec, ignore, prior, node, steps, drifted, bounds>>

FatalRace ==
  /\ Walking
  /\ Reading # {} /\ Writing # {}
  /\ Leave("crashed")
  /\ UNCHANGED settled

Walked == Walking /\ \A k \in Keys : stage[k] \in Over \cup {"out"}
AnyFailed == \E k \in Keys : stage[k] = "failed"

(* Preview returns.  An apply without a change ends here.                  *)
AllUnChange == \A i \in DOMAIN steps : steps[i][2] = "UnChange"

EndPreview ==
  /\ Walked
  /\ phase = "preview"
  /\ IF AnyFailed THEN Leave("error") /\ UNCHANGED settled
     ELSE IF AllUnChange /\ ~Destroying THEN Leave("reconciled") /\ UNCHANGED settled
     ELSE /\ phase' = "confirm"
          /\ UNCHANGED <<world, request, spec, ignore, prior, node, steps, result,
                         seen, bounds>>

(* The user says no, or only wanted a preview or a dry run.                *)
Cancel == phase = "confirm" /\ Leave("cancelled") /\ UNCHANGED settled

(* The operation, on the spec that the preview has worked on.              *)
Proceed ==
  /\ phase = "confirm"
  /\ Begin(spec)
  /\ phase' = "operation"
  /\ settled' = {}
  /\ UNCHANGED <<world, request, ignore, steps, result, drifted, bounds>>

EndOperation ==
  /\ Walked
  /\ phase = "operation"
  /\ Leave(IF AnyFailed THEN "error" ELSE "success")
  /\ settled' = IF AnyFailed \/ drifted THEN {} ELSE {request}

(* Somebody else deletes a resource, makes one, or rotates the secret.     *)
Drift ==
  /\ phase \in {"idle", "confirm"}
  /\ drifts < MaxDrift
  /\ drifts' = drifts + 1
  /\ drifted' = TRUE
  /\ settled' = {}
  /\ \/ \E k \in Keys : infra[k] # Absent /\ infra' = [infra EXCEPT ![k] = Absent]
                        /\ UNCHANGED <<vault, ids>>
     \/ \E k \in Keys : /\ infra[k] = Absent
                        /\ infra' = [infra EXCEPT ![k] = Resource(0, None, {}, ids + 1)]
                        /\ ids' = ids + 1
                        /\ UNCHANGED vault
     \/ vault' = vault + 1 /\ UNCHANGED <<infra, ids>>
  /\ UNCHANGED <<kind, recorded, phase, request, spec, ignore, prior, node, steps,
                 result, commands>>

NodeStep(k) == PreExecute(k) \/ Compute(k) \/ Invoke(k) \/ Refresh(k) \/ Skip(k)

Rest == phase = "idle" /\ UNCHANGED vars

Next ==
  \/ \E m \in Specs \cup {Nothing} : Command(m)
  \/ \E k \in Keys : NodeStep(k)
  \/ FatalRace \/ EndPreview \/ Cancel \/ Proceed \/ EndOperation \/ Drift \/ Rest

Spec == Init /\ [][Next]_vars

-----------------------------------------------------------------------------
Actions == {"Create", "Update", "UnChange", "Delete"}

(* The live resources, the state and the indexes hold whole resources, an  *)
(* operation is the only one to come to the runtime's Apply and Delete, and *)
(* what is not in the graph is not in the index.                           *)
TypeOK ==
  /\ kind \in {"Kubernetes", "Terraform"}
  /\ {infra, recorded, request, spec, prior, ctx, outcome} \cup settled \subseteq Indexes
  /\ vault \in Nat /\ ids \in Nat
  /\ {ignore, drifted} \subseteq BOOLEAN
  /\ phase \in {"idle", "preview", "confirm", "operation"}
  /\ stage \in [Keys -> {"out", "pending", "compute", "invoke", "refresh"} \cup Over]
  /\ act \in [Keys -> Actions \cup {"none"}]
  /\ \A k \in Keys : stage[k] \in {"invoke", "refresh"} => act[k] # "none"
  /\ phase = "preview" => \A k \in Keys : stage[k] # "invoke"
  /\ steps \in Seq(Keys \X Actions)
  /\ \A k \in Keys : stage[k] = "out" => ctx[k] = Absent
  /\ result \in {"none", "error", "crashed", "reconciled", "cancelled", "success"}

Linked(r, k) ==
  LET link == r[k].link
  IN  CASE IsRef(link) /\ link[3] = "id" -> Value(infra[link[2]].id)
        [] IsRef(link) /\ link[3] = "own" -> Value(infra[link[2]].own)
        [] link = Secret -> Value(vault)
        [] OTHER -> link

(* An apply that succeeds, with nobody else at work, leaves every resource *)
(* of the spec alive with what the user wrote, and each reference holds    *)
(* what its target has at the end, although the preview replaced it.       *)
ReferencesHold ==
  result = "success" /\ ~drifted =>
    \A k \in Keys :
      /\ request[k] = Absent => (recorded[k] = Absent)
      /\ request[k] # Absent =>
           infra[k] # Absent /\ infra[k].link = Linked(request, k) /\ infra[k].own = request[k].own

(* Applying again what has just succeeded, with no change in between, has  *)
(* nothing to confirm: the operation converges in one apply.               *)
Idempotent == phase = "confirm" => request \notin settled

HasReferences == \E k \in Present(request) : IsRef(request[k].link)

Foretold(k) == \E i \in DOMAIN steps : steps[i] = <<k, act[k]>>

(* The operation does to each resource what the preview has told the user, *)
(* unless somebody interferes, fields are ignored or the references of a   *)
(* first apply were left alone.                                            *)
PreviewForetells ==
  phase = "operation" /\ ~drifted /\ ~ignore
  /\ (HasReferences => prior # Nothing) =>
    \A k \in Keys : act[k] # "none" => Foretold(k)

(* What the user confirms is complete, without repetition and in an order  *)
(* in which no resource comes before one that it depends on.               *)
StepsComplete ==
  phase = "confirm" /\ ~ignore =>
    LET At(k) == {i \in DOMAIN steps : steps[i][1] = k}
        Before(j, k) == \A i \in At(j), n \in At(k) : i < n
    IN  /\ \A k \in Present(request) \cup Present(recorded) : Cardinality(At(k)) = 1
        /\ \A k \in Present(request) :
             /\ IsRef(request[k].link) => Before(request[k].link[2], k)
             /\ \A j \in request[k].on : Before(j, k)
        /\ \A k \in Present(recorded) :
             \A j \in recorded[k].on \ Present(request) : Before(k, j)

(* What the user confirms is what is there and what is done.               *)
ShownIsDone == TypeOK /\ StepsComplete /\ PreviewForetells

(* A reference is looked up when the node of its target is over, so it is  *)
(* never the entry of an earlier walk or none at all.                      *)
LookupsAreSettled ==
  [][\A k \in Keys :
       stage[k] = "pending" /\ stage'[k] \in {"compute", "failed"}
       /\ spec[k] # Absent /\ IsRef(spec[k].link) /\ Replaces
       => stage[spec[k].link[2]] = "done"]_vars

=============================================================================
