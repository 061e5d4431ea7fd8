--------------------------- MODULE Session_proofs ---------------------------
(***************************************************************************)
(* Previews and operations of any stack, for any specs, commands and       *)
(* changes by others.  References are replaced while the nodes walk, so    *)
(* the edge that makes a node wait must be that of the reference it still  *)
(* has; and they are replaced in the spec, which two walks share, so a     *)
(* value that the preview found must be the one that the operation leaves. *)
(***************************************************************************)
EXTENDS Session, TLAPS, FiniteSetTheorems

Stages == {"out", "pending", "compute", "invoke", "refresh"} \cup Over

StagesInv == stage \in [Keys -> Stages]

(* What a step may do to a node that waits.                                *)
Settled ==
  \A k \in Keys :
    stage[k] = "pending" /\ stage'[k] \in {"compute", "failed"}
    /\ spec[k] # Absent /\ IsRef(spec[k].link) /\ Replaces
    => stage[spec[k].link[2]] = "done"

-----------------------------------------------------------------------------
LEMMA BeginStages ==
  ASSUME NEW m, Begin(m)
  PROVE  StagesInv' /\ Settled
<1>1. \A k \in Keys : stage'[k] \in {"pending", "out"}
  BY DEF Begin
<1>2. StagesInv'
  BY DEF Begin, StagesInv, Stages
<1> QED BY <1>1, <1>2 DEF Settled

(* A node waits for the one that its reference names.                      *)
LEMMA ReferenceIsEdge ==
  ASSUME NEW k \in Keys, spec[k] # Absent, IsRef(spec[k].link)
  PROVE  spec[k].link[2] \in UpEdges(Edges(spec, prior), k)
<1>1. spec[k].link[2] \in Deps(k, spec)
  BY DEF Deps, DependsOn
<1>2. <<spec[k].link[2], k>> \in Edges(spec, prior)
  BY <1>1 DEF Edges
<1> QED BY <1>2 DEF UpEdges

LEMMA NodeSettles ==
  ASSUME StagesInv, NEW k \in Keys, NodeStep(k)
  PROVE  StagesInv' /\ Settled
<1>1. PICK s \in Stages : stage' = [stage EXCEPT ![k] = s]
  <2>1. CASE PreExecute(k)
    <3>1. Enter(k, "compute") \/ Enter(k, "failed")
      BY <2>1 DEF PreExecute
    <3> QED BY <3>1 DEF Enter, Stages, Over
  <2>2. CASE Compute(k)
    <3>1. Enter(k, "failed") \/ Enter(k, "done") \/ Enter(k, "refresh") \/ Enter(k, "invoke")
      BY <2>2 DEF Compute
    <3> QED BY <3>1 DEF Enter, Stages, Over
  <2>3. CASE Invoke(k)
    BY <2>3 DEF Invoke, Enter, Stages
  <2>4. CASE Refresh(k)
    BY <2>4 DEF Refresh, Enter, Stages, Over
  <2>5. CASE Skip(k)
    BY <2>5 DEF Skip, Enter, Stages, Over
  <2> QED BY <2>1, <2>2, <2>3, <2>4, <2>5 DEF NodeStep
<1>2. StagesInv'
  BY <1>1 DEF StagesInv
<1>3. \A j \in Keys \ {k} : stage'[j] = stage[j]
  BY <1>1 DEF StagesInv
<1>4. ASSUME stage[k] = "pending", stage'[k] \in {"compute", "failed"},
             spec[k] # Absent, IsRef(spec[k].link)
      PROVE  stage[spec[k].link[2]] = "done"
  <2>1. ~Compute(k) /\ ~Invoke(k) /\ ~Refresh(k)
    BY <1>4 DEF Compute, Invoke, Refresh
  <2>2. ~Skip(k)
    BY <1>4 DEF Skip, Enter, StagesInv
  <2>3. Ready(k)
    BY <2>1, <2>2 DEF NodeStep, PreExecute
  <2> QED BY <1>4, <2>3, ReferenceIsEdge DEF Ready
<1> QED BY <1>2, <1>3, <1>4 DEF Settled

LEMMA StepSettles == StagesInv /\ [Next]_vars => StagesInv' /\ [Settled]_vars
<1> SUFFICES ASSUME StagesInv, [Next]_vars PROVE StagesInv' /\ [Settled]_vars
  OBVIOUS
<1>1. ASSUME NEW m, Command(m) PROVE StagesInv' /\ Settled
  BY <1>1, BeginStages DEF Command
<1>2. CASE Proceed
  BY <1>2, BeginStages DEF Proceed
<1>3. ASSUME NEW k \in Keys, NodeStep(k) PROVE StagesInv' /\ Settled
  BY <1>3, NodeSettles
<1>4. ASSUME UNCHANGED stage PROVE StagesInv' /\ Settled
  BY <1>4 DEF StagesInv, Settled
<1>5. CASE FatalRace \/ EndPreview \/ Cancel \/ EndOperation \/ Drift \/ UNCHANGED vars
  <2>1. UNCHANGED stage
    BY <1>5 DEF FatalRace, EndPreview, Cancel, EndOperation, Leave, Drift, vars, node
  <2> QED BY <1>4, <2>1
<1> QED BY <1>1, <1>2, <1>3, <1>5 DEF Next, Rest

-----------------------------------------------------------------------------
(* In any graph that Validate accepts, PreExecute resolves a reference     *)
(* only when the node of its target is over, also on the second walk, when *)
(* the preview has replaced some references and kept others.               *)
THEOREM LookupsAreSettledHolds == Spec => LookupsAreSettled
<1>1. Init => StagesInv
  BY DEF Init, StagesInv, Stages
<1>2. [Settled]_vars =>
       [\A k \in Keys :
          stage[k] = "pending" /\ stage'[k] \in {"compute", "failed"}
          /\ spec[k] # Absent /\ IsRef(spec[k].link) /\ Replaces
          => stage[spec[k].link[2]] = "done"]_vars
  BY DEF Settled
<1> QED BY <1>1, <1>2, StepSettles, PTL DEF Spec, LookupsAreSettled

-----------------------------------------------------------------------------
(* Why references hold, why an apply converges, and why what is shown is   *)
(* done.  The invariant follows a value from where a node looks it up to   *)
(* the success of the operation: the spec holds what the user wrote or     *)
(* what the target has and keeps, an index what the target has, the steps  *)
(* what the nodes will do.                                                 *)
Going == phase # "idle"
Up(k) == UpEdges(Edges(request, prior), k)

(* The node has looked its references up, and what it depends on is over.  *)
Begun == {"compute", "invoke", "refresh", "done"}
Written == {"refresh", "done"}

PhaseInv ==
  /\ Going => result = "none" /\ (request = Nothing => prior # Nothing)
  /\ Going => Closed(request) /\ Closed(prior)
  /\ Going => \A k \in Keys : request[k] # Absent => request[k].id = 0
  /\ phase \in {"preview", "confirm"} => prior = recorded
  /\ phase = "operation" => settled = {}
  /\ settled # {} => ~drifted

(* Others than this node leave its live resource alone, and it keeps the   *)
(* id unless Terraform replaces it.                                        *)
KeepsId(j) == Live(j) # Absent /\ (kind = "Terraform" => infra[j].own = request[j].own)

(* The target of a link is there, and its id will not change any more.     *)
Fixed(j) ==
  /\ infra[j] # Absent
  /\ (phase = "operation" /\ stage[j] \in Written) \/ KeepsId(j)

(* What the nodes replace in the spec.                                     *)
Replaced(k) ==
  LET link == request[k].link
      now == spec[k].link
  IN  /\ now \in {"value"} \X Nat
      /\ \/ IsRef(link) /\ link[3] = "own" /\ now = Value(request[link[2]].own)
         \/ IsRef(link) /\ link[3] = "id"
            /\ (~drifted => now = Value(infra[link[2]].id) /\ Fixed(link[2]))
         \/ link = Secret /\ (~drifted => now = Value(vault))

SpecInv ==
  Going => \A k \in Keys :
    /\ spec[k] = Absent <=> request[k] = Absent
    /\ spec[k] # Absent =>
         /\ spec[k].own = request[k].own
         /\ spec[k].id = 0
         /\ spec[k].on = DependsOn(k, request)
         /\ spec[k].link = request[k].link \/ Replaced(k)

(* References outlive a preview only if there was no state.                *)
LinkInv ==
  Going => \A k \in Keys : spec[k] # Absent =>
    /\ phase # "preview" \/ stage[k] \in Begun =>
         spec[k].link # Secret /\ (IsRef(spec[k].link) => prior = Nothing)
    /\ phase = "operation" /\ stage[k] \in Begun => ~IsRef(spec[k].link)

(* The nodes of the walk, and what has to be over before each.             *)
OrderInv ==
  Going => \A k \in Keys :
    /\ stage[k] = "out" <=> spec[k] = Absent /\ prior[k] = Absent
    /\ stage[k] \in Begun => \A j \in Up(k) : stage[j] = "done"
    /\ stage[k] = "skipped" => \E j \in Up(k) : stage[j] \in {"failed", "skipped"}

WalkInv ==
  /\ Going => Acyclic(Keys, Edges(request, prior))
  /\ phase = "confirm" => \A k \in Keys : stage[k] \in {"done", "out"}

(* What an index tells of a resource, if references are looked up in it.   *)
Known(k, r) ==
  r # Absent =>
    /\ spec[k] # Absent
    /\ phase = "preview" \/ prior = Nothing =>
         /\ r.own = request[k].own
         /\ r.id # 0 => infra[k] # Absent /\ r.id = infra[k].id
                        /\ (phase = "preview" => KeepsId(k))

IndexInv ==
  Walking => \A k \in Keys :
    /\ stage[k] \notin Written => outcome[k] = Absent
    /\ ctx[k] = IF stage[k] = "done" THEN outcome[k] ELSE Absent
    /\ Known(k, outcome[k])

(* The action is the one for the state that the walk began with.           *)
ActionInv ==
  Walking => \A k \in Keys :
    /\ stage[k] \notin {"invoke"} \cup Written => act[k] = "none"
    /\ phase = "preview" /\ act[k] # "none" => act[k] = Action(k)
    /\ stage[k] = "invoke" => act[k] = Action(k)

(* What a node has done is there.                                          *)
DoneInv ==
  phase = "operation" => \A k \in Keys :
    /\ stage[k] \in Written =>
         IF spec[k] = Absent THEN outcome[k] = Absent
         ELSE /\ infra[k] # Absent /\ outcome[k] # Absent
              /\ infra[k].own = spec[k].own /\ infra[k].link = spec[k].link
    /\ stage[k] = "done" => recorded[k] = outcome[k]
    /\ stage[k] = "out" => recorded[k] = Absent

(* The state and the live resources are those of the spec r.               *)
Reached(r) ==
  \A k \in Keys :
    IF r[k] = Absent THEN recorded[k] = Absent
    ELSE /\ recorded[k] # Absent /\ infra[k] # Absent
         /\ infra[k].own = r[k].own /\ infra[k].link = Linked(r, k)

SuccessInv ==
  /\ result = "success" /\ ~drifted => Reached(request)
  /\ \A r \in settled : Closed(r) /\ Reached(r)

ConvergedInv ==
  phase \in {"preview", "confirm"} /\ request \in settled =>
    /\ \A k \in Keys : act[k] \in {"none", "UnChange"}
    /\ AllUnChange
    /\ phase = "preview"

(* The steps: one for each node that is over, after those it waits for.    *)
At(k) == {i \in DOMAIN steps : steps[i][1] = k}
Before(j, k) == \A i \in At(j), n \in At(k) : i < n

StepsInv ==
  phase \in {"preview", "confirm"} /\ ~ignore => \A k \in Keys :
    /\ IF stage[k] = "done" THEN \E n \in DOMAIN steps : At(k) = {n} ELSE At(k) = {}
    /\ stage[k] = "done" => \A j \in Up(k) : Before(j, k)

(* Of a node with none yet, the action it will get.                        *)
ForetoldInv ==
  Going /\ ~drifted /\ ~ignore /\ (HasReferences => prior # Nothing) =>
    \A k \in Keys :
      /\ phase \in {"preview", "confirm"} /\ stage[k] = "done" =>
           \E i \in DOMAIN steps : steps[i] = <<k, Action(k)>>
      /\ phase = "operation" /\ stage[k] \in {"pending", "compute"} =>
           \E i \in DOMAIN steps : steps[i] = <<k, Action(k)>>
      /\ phase = "operation" /\ act[k] # "none" => Foretold(k)

SessionInv ==
  /\ TypeOK
  /\ PhaseInv
  /\ SpecInv
  /\ LinkInv
  /\ OrderInv
  /\ WalkInv
  /\ IndexInv
  /\ ActionInv
  /\ DoneInv
  /\ SuccessInv
  /\ ConvergedInv
  /\ StepsInv
  /\ ForetoldInv

-----------------------------------------------------------------------------
(* Values, references and secrets are told apart.                          *)
LEMMA LinkKinds ==
  /\ ~IsRef(None) /\ ~IsRef(Secret) /\ None # Secret
  /\ \A x : ~IsRef(Value(x)) /\ Value(x) # Secret
  /\ \A x \in Nat : Value(x) \in {"value"} \X Nat
  /\ \A v \in {"value"} \X Nat : ~IsRef(v) /\ v # Secret
  /\ \A link \in Links : IsRef(link) => link[2] \in Keys /\ link[3] \in {"own", "id"}
  /\ {"value"} \X Nat \subseteq Links
<1>1. ~IsRef(None) /\ ~IsRef(Secret) /\ None # Secret
  BY DEF IsRef, None, Secret
<1>2. \A x : ~IsRef(Value(x)) /\ Value(x) # Secret
  BY DEF IsRef, Value, Secret
<1>3. \A x \in Nat : Value(x) \in {"value"} \X Nat
  BY DEF Value
<1>4. \A v \in {"value"} \X Nat : ~IsRef(v) /\ v # Secret
  BY DEF IsRef, Secret
<1>5. ASSUME NEW link \in Links, IsRef(link)
      PROVE  link[2] \in Keys /\ link[3] \in {"own", "id"}
  <2>1. PICK j \in Keys, attr \in {"own", "id"} : link = Ref(j, attr)
    BY <1>1, <1>4, <1>5 DEF Links
  <2> QED BY <2>1 DEF Ref
<1> QED BY <1>1, <1>2, <1>3, <1>4, <1>5 DEF Links

LEMMA ResourceParts ==
  ASSUME NEW f \in Indexes, NEW k \in Keys, f[k] # Absent
  PROVE  /\ f[k] \in Resources
         /\ f[k].own \in Nat /\ f[k].link \in Links /\ f[k].on \subseteq Keys
         /\ f[k].id \in Nat
BY DEF Indexes, Resources

LEMMA IndexWith ==
  ASSUME NEW f \in Indexes, NEW k \in Keys, NEW r \in Resources \cup {Absent}
  PROVE  /\ [f EXCEPT ![k] = r] \in Indexes
         /\ [f EXCEPT ![k] = r][k] = r
         /\ \A j \in Keys \ {k} : [f EXCEPT ![k] = r][j] = f[j]
BY DEF Indexes

LEMMA ResourceWith ==
  ASSUME NEW r \in Resources
  PROVE  /\ r # Absent
         /\ \A link \in Links :
              /\ [r EXCEPT !.link = link] \in Resources
              /\ [r EXCEPT !.link = link].link = link
              /\ [r EXCEPT !.link = link].own = r.own
              /\ [r EXCEPT !.link = link].on = r.on
              /\ [r EXCEPT !.link = link].id = r.id
         /\ \A id \in Nat :
              /\ [r EXCEPT !.id = id] \in Resources
              /\ [r EXCEPT !.id = id].link = r.link
              /\ [r EXCEPT !.id = id].own = r.own
              /\ [r EXCEPT !.id = id].on = r.on
              /\ [r EXCEPT !.id = id].id = id
         /\ \A on \in SUBSET Keys :
              /\ [r EXCEPT !.on = on] \in Resources
              /\ [r EXCEPT !.on = on].link = r.link
              /\ [r EXCEPT !.on = on].own = r.own
              /\ [r EXCEPT !.on = on].on = on
              /\ [r EXCEPT !.on = on].id = r.id
BY AbsentAssumption DEF Resources

LEMMA TypeFacts ==
  ASSUME TypeOK
  PROVE  /\ infra \in Indexes /\ recorded \in Indexes /\ request \in Indexes
         /\ spec \in Indexes /\ prior \in Indexes /\ ctx \in Indexes
         /\ outcome \in Indexes /\ settled \subseteq Indexes
         /\ ignore \in BOOLEAN /\ drifted \in BOOLEAN
         /\ vault \in Nat /\ ids \in Nat
BY DEF TypeOK

LEMMA NothingThere ==
  Nothing \in Indexes /\ \A k \in Keys : Nothing[k] = Absent
BY DEF Nothing, Indexes

(* What the nodes replace leaves the graph alone.                          *)
LEMMA DependsOnTypes ==
  ASSUME NEW f \in Indexes, NEW k \in Keys, f[k] # Absent
  PROVE  DependsOn(k, f) \subseteq Keys
BY ResourceParts, LinkKinds DEF DependsOn

LEMMA SameGraph ==
  ASSUME TypeOK, SpecInv, Going
  PROVE  /\ \A k \in Keys : Deps(k, spec) = Deps(k, request)
         /\ Present(spec) = Present(request)
         /\ \A p : Edges(spec, p) = Edges(request, p)
<1>1. ASSUME NEW k \in Keys PROVE Deps(k, spec) = Deps(k, request)
  <2>1. CASE spec[k] = Absent
    BY <2>1 DEF SpecInv, Deps
  <2>2. CASE spec[k] # Absent
    <3>1. request[k] # Absent /\ spec[k].on = DependsOn(k, request)
      BY <2>2 DEF SpecInv
    <3>2. CASE spec[k].link = request[k].link
      BY <2>2, <3>1, <3>2 DEF Deps, DependsOn
    <3>3. CASE Replaced(k)
      <4>1. ~IsRef(spec[k].link)
        BY <3>3, LinkKinds DEF Replaced
      <4> QED BY <2>2, <3>1, <4>1 DEF Deps, DependsOn
    <3> QED BY <2>2, <3>2, <3>3 DEF SpecInv
  <2> QED BY <2>1, <2>2
<1>2. Present(spec) = Present(request)
  BY DEF SpecInv, Present
<1>3. \A p : Edges(spec, p) = Edges(request, p)
  <2> SUFFICES ASSUME NEW p PROVE Edges(spec, p) = Edges(request, p)
    OBVIOUS
  <2>1. (UNION {Deps(k, spec) \X {k} : k \in Keys})
        = (UNION {Deps(k, request) \X {k} : k \in Keys})
    BY <1>1
  <2> QED BY <1>2, <2>1 DEF Edges
<1> QED BY <1>1, <1>2, <1>3


-----------------------------------------------------------------------------
(* The operators as long as what they read stays.                          *)
LEMMA SameUp ==
  ASSUME UNCHANGED <<request, prior>>
  PROVE  /\ \A k : Up(k)' = Up(k)
         /\ Acyclic(Keys, Edges(request, prior))' = Acyclic(Keys, Edges(request, prior))
BY DEF Up

LEMMA SameReached ==
  ASSUME UNCHANGED <<infra, recorded, vault>>, NEW r PROVE Reached(r)' = Reached(r)
BY DEF Reached, Linked

LEMMA AppliedParts ==
  ASSUME TypeOK, NEW k \in Keys, spec[k] # Absent, NEW n \in Nat
  PROVE  /\ Applied(k, n) \in Resources
         /\ Applied(k, n).own = spec[k].own /\ Applied(k, n).link = spec[k].link
         /\ Applied(k, n).on = spec[k].on
         /\ Applied(k, n).id =
              IF Live(k) = Absent \/ (kind = "Terraform" /\ Live(k).own # spec[k].own)
              THEN n ELSE Live(k).id
<1>1. spec[k] \in Resources /\ infra \in Indexes
  BY TypeFacts, ResourceParts
<1>2. Live(k) # Absent => Live(k) = infra[k] /\ Live(k).id \in Nat
  BY <1>1, ResourceParts DEF Live
<1> DEFINE i == IF Live(k) = Absent \/ (kind = "Terraform" /\ Live(k).own # spec[k].own)
                THEN n ELSE Live(k).id
<1>3. i \in Nat
  BY <1>2
<1>4. Applied(k, n) = [spec[k] EXCEPT !.id = i]
  BY DEF Applied
<1> HIDE DEF i
<1>5. /\ Applied(k, n) \in Resources
      /\ Applied(k, n).own = spec[k].own /\ Applied(k, n).link = spec[k].link
      /\ Applied(k, n).on = spec[k].on /\ Applied(k, n).id = i
  BY <1>1, <1>3, <1>4, ResourceWith
<1> QED BY <1>5 DEF i

LEMMA ActionIs ==
  ASSUME TypeOK, NEW k \in Keys
  PROVE  Action(k) =
           IF spec[k] = Absent THEN "Delete"
           ELSE IF prior[k] = Absent /\ Live(k) = Absent THEN "Create"
           ELSE IF Live(k) # Absent /\ Live(k).link = spec[k].link
                   /\ (Live(k).own = spec[k].own \/ (ignore /\ phase = "preview"))
           THEN "UnChange" ELSE "Update"
BY AppliedParts DEF Action, Same

(* The action does not depend on more of a resource than own and link.     *)
LEMMA SameAction ==
  ASSUME TypeOK, TypeOK', NEW k \in Keys,
         kind' = kind, prior' = prior, infra'[k] = infra[k],
         spec'[k] = Absent <=> spec[k] = Absent,
         spec[k] # Absent => spec'[k].own = spec[k].own /\ spec'[k].link = spec[k].link,
         (~ignore /\ ~ignore') \/ UNCHANGED <<ignore, phase>>
  PROVE  Action(k)' = Action(k)
<1>1. Live(k)' = Live(k)
  BY DEF Live
<1>2. ASSUME spec'[k] # Absent
      PROVE  Applied(k, 0)'.own = spec'[k].own /\ Applied(k, 0)'.link = spec'[k].link
  <2>1. spec'[k] \in Resources /\ infra' \in Indexes
    BY <1>2, ResourceParts DEF TypeOK
  <2> DEFINE i == IF Live(k)' = Absent \/ (kind' = "Terraform" /\ Live(k)'.own # spec'[k].own)
                  THEN 0 ELSE Live(k)'.id
  <2>2. i \in Nat
    BY <2>1, ResourceParts DEF Live
  <2>3. Applied(k, 0)' = [spec'[k] EXCEPT !.id = i]
    BY DEF Applied
  <2> HIDE DEF i
  <2>4. [spec'[k] EXCEPT !.id = i].own = spec'[k].own
        /\ [spec'[k] EXCEPT !.id = i].link = spec'[k].link
    BY <2>1, <2>2, ResourceWith
  <2> QED BY <2>3, <2>4
<1>3. Action(k)' =
        IF spec'[k] = Absent THEN "Delete"
        ELSE IF prior'[k] = Absent /\ Live(k)' = Absent THEN "Create"
        ELSE IF Live(k)' # Absent /\ Live(k)'.link = spec'[k].link
                /\ (Live(k)'.own = spec'[k].own \/ (ignore' /\ phase' = "preview"))
        THEN "UnChange" ELSE "Update"
  BY <1>2 DEF Action, Same
<1> QED BY <1>1, <1>3, ActionIs

(* A node waits for nodes.                                                 *)
LEMMA UpAreKeys ==
  ASSUME TypeOK, NEW k \in Keys
  PROVE  Up(k) \subseteq Keys
<1>1. \A j \in Keys : Deps(j, request) \subseteq Keys /\ Deps(j, prior) \subseteq Keys
  BY TypeFacts, DependsOnTypes DEF Deps
<1> SUFFICES ASSUME NEW e \in Edges(request, prior) PROVE e[1] \in Keys
  BY DEF Up, UpEdges
<1> QED BY <1>1 DEF Edges

(* What a step of a node leaves alone.                                     *)
LEMMA NodeFrame ==
  ASSUME TypeOK, NEW k \in Keys, NodeStep(k)
  PROVE  /\ Walking
         /\ UNCHANGED <<kind, vault, phase, request, ignore, prior, result, drifted, settled>>
         /\ \A j \in Keys \ {k} :
              /\ stage'[j] = stage[j] /\ spec'[j] = spec[j] /\ ctx'[j] = ctx[j]
              /\ outcome'[j] = outcome[j] /\ act'[j] = act[j] /\ infra'[j] = infra[j]
              /\ recorded'[j] = recorded[j]
<1> USE TypeFacts, IndexWith DEF TypeOK
<1>1. CASE PreExecute(k)
  BY <1>1 DEF PreExecute, Quiet, world, seen, bounds, Ready, Enter, Indexes
<1>2. CASE Compute(k)
  BY <1>2 DEF Compute, Quiet, world, seen, bounds, Enter, Indexes
<1>3. CASE Invoke(k)
  BY <1>3 DEF Invoke, seen, Enter, Walking, Indexes
<1>4. CASE Refresh(k)
  BY <1>4 DEF Refresh, seen, bounds, Enter, Indexes
<1>5. CASE Skip(k)
  BY <1>5 DEF Skip, Quiet, world, seen, bounds, Enter, Indexes
<1> QED BY <1>1, <1>2, <1>3, <1>4, <1>5 DEF NodeStep

-----------------------------------------------------------------------------
LEMMA InitInv == Init => SessionInv
<1> SUFFICES ASSUME Init PROVE SessionInv
  OBVIOUS
<1>1. /\ phase = "idle" /\ settled = {} /\ result = "none" /\ stage = [k \in Keys |-> "out"]
      /\ steps = <<>>
      /\ \A k \in Keys : act[k] = "none"
  BY DEF Init
<1>2. TypeOK
  <2>1. {infra, recorded, request, spec, prior, ctx, outcome} \cup settled \subseteq Indexes
    BY NothingThere DEF Init
  <2>2. \A k \in Keys : ctx[k] = Absent
    BY NothingThere DEF Init
  <2>3. steps \in Seq(Keys \X Actions)
    BY <1>1
  <2> QED BY <1>1, <2>1, <2>2, <2>3 DEF Init, TypeOK, Over
<1>3. PhaseInv
  BY <1>1 DEF PhaseInv, Going
<1>4. SpecInv /\ LinkInv /\ OrderInv /\ WalkInv
  BY <1>1 DEF SpecInv, LinkInv, OrderInv, WalkInv, Going
<1>5. IndexInv /\ ActionInv /\ DoneInv
  BY <1>1 DEF IndexInv, ActionInv, DoneInv, Walking
<1>6. SuccessInv /\ ConvergedInv /\ StepsInv /\ ForetoldInv
  BY <1>1 DEF SuccessInv, ConvergedInv, StepsInv, ForetoldInv, Going
<1> QED BY <1>2, <1>3, <1>4, <1>5, <1>6 DEF SessionInv

(* The walk that Begin prepares.                                           *)
Starts(m) ==
  /\ Closed(m) /\ Closed(recorded) /\ Acyclic(Keys, Edges(m, recorded))
  /\ prior' = recorded
  /\ spec' \in Indexes
  /\ \A k \in Keys :
       /\ m[k] = Absent => spec'[k] = Absent
       /\ m[k] # Absent => /\ spec'[k] # Absent
                           /\ spec'[k].own = m[k].own /\ spec'[k].link = m[k].link
                           /\ spec'[k].on = DependsOn(k, m) /\ spec'[k].id = m[k].id
  /\ ctx' = Nothing /\ outcome' = Nothing
  /\ act' = [k \in Keys |-> "none"]
  /\ stage' \in [Keys -> {"pending", "out"}]
  /\ \A k \in Keys : stage'[k] = "out" <=> m[k] = Absent /\ recorded[k] = Absent

LEMMA BeginStarts ==
  ASSUME TypeOK, NEW m \in Indexes, Begin(m)
  PROVE  Starts(m)
<1>1. \A k \in Keys : spec'[k] = IF m[k] = Absent THEN Absent
                                 ELSE [m[k] EXCEPT !.on = DependsOn(k, m)]
  BY DEF Begin
<1>2. ASSUME NEW k \in Keys, m[k] # Absent
      PROVE  /\ [m[k] EXCEPT !.on = DependsOn(k, m)] \in Resources
             /\ [m[k] EXCEPT !.on = DependsOn(k, m)] # Absent
             /\ [m[k] EXCEPT !.on = DependsOn(k, m)].own = m[k].own
             /\ [m[k] EXCEPT !.on = DependsOn(k, m)].link = m[k].link
             /\ [m[k] EXCEPT !.on = DependsOn(k, m)].on = DependsOn(k, m)
             /\ [m[k] EXCEPT !.on = DependsOn(k, m)].id = m[k].id
  <2>1. m[k] \in Resources /\ DependsOn(k, m) \in SUBSET Keys
    BY <1>2, ResourceParts, DependsOnTypes
  <2> HIDE DEF DependsOn
  <2> QED BY <2>1, ResourceWith
<1>3. spec' \in Indexes
  <2>1. spec' = [k \in Keys |-> IF m[k] = Absent THEN Absent
                                ELSE [m[k] EXCEPT !.on = DependsOn(k, m)]]
    BY DEF Begin
  <2> QED BY <2>1, <1>2 DEF Indexes
<1>4. ASSUME NEW k \in Keys, m[k] # Absent
      PROVE  /\ spec'[k] # Absent
             /\ spec'[k].own = m[k].own /\ spec'[k].link = m[k].link
             /\ spec'[k].on = DependsOn(k, m) /\ spec'[k].id = m[k].id
  BY <1>1, <1>2, <1>4
<1>5. Closed(m) /\ Closed(recorded) /\ Acyclic(Keys, Edges(m, recorded))
  BY DEF Begin, Accepted
<1>6. /\ stage' \in [Keys -> {"pending", "out"}]
      /\ \A k \in Keys : stage'[k] = "out" <=> m[k] = Absent /\ recorded[k] = Absent
  BY DEF Begin, Present
<1> QED BY <1>1, <1>3, <1>4, <1>5, <1>6 DEF Begin, Starts

LEMMA CommandKeeps ==
  ASSUME SessionInv, NEW m \in Specs \cup {Nothing}, Command(m)
  PROVE  SessionInv'
<1>1. m \in Indexes /\ \A k \in Keys : m[k] # Absent => m[k].id = 0
  BY SpecsAssumption, NothingThere DEF Indexes
<1>2. /\ phase' = "preview" /\ request' = m /\ steps' = <<>> /\ result' = "none"
      /\ drifted' = FALSE /\ ignore' \in BOOLEAN /\ (m = Nothing => recorded # Nothing)
      /\ UNCHANGED <<kind, infra, vault, recorded, settled, ids>>
      /\ Begin(m)
  BY DEF Command, world
<1>3. TypeOK
  BY DEF SessionInv
<1>4. Starts(m)
  BY <1>1, <1>2, <1>3, BeginStarts
<1>5. TypeOK'
  <2>1. ({infra, recorded, request, spec, prior, ctx, outcome} \cup settled)' \subseteq Indexes
    BY <1>1, <1>2, <1>3, <1>4, TypeFacts, NothingThere DEF Starts
  <2>2. steps' \in Seq(Keys \X Actions)
    BY <1>2
  <2> QED BY <1>2, <1>3, <1>4, <2>1, <2>2, NothingThere DEF Starts, TypeOK
<1>6. PhaseInv'
  BY <1>1, <1>2, <1>4 DEF Starts, PhaseInv, Going
<1>7. SpecInv'
  BY <1>1, <1>2, <1>4 DEF Starts, SpecInv
<1>8. LinkInv' /\ OrderInv' /\ WalkInv'
  BY <1>2, <1>4 DEF Starts, LinkInv, OrderInv, WalkInv, Begun
<1>9. IndexInv' /\ ActionInv' /\ DoneInv'
  BY <1>2, <1>4, NothingThere DEF Starts, IndexInv, ActionInv, DoneInv, Known, Written
<1>10. SuccessInv'
  BY <1>2, SameReached DEF SessionInv, SuccessInv
<1>11. ConvergedInv' /\ StepsInv' /\ ForetoldInv'
  <2>1. DOMAIN steps' = {}
    BY <1>2
  <2> QED BY <1>2, <1>4, <2>1 DEF Starts, ConvergedInv, StepsInv, ForetoldInv, AllUnChange, At
<1> QED
  BY <1>5, <1>6, <1>7, <1>8, <1>9, <1>10, <1>11 DEF SessionInv

LEMMA ProceedKeeps ==
  ASSUME SessionInv, Proceed
  PROVE  SessionInv'
<1>1. /\ TypeOK /\ PhaseInv /\ SpecInv /\ LinkInv /\ OrderInv /\ WalkInv /\ ForetoldInv
      /\ SuccessInv
  BY DEF SessionInv
<1>2. /\ phase = "confirm" /\ phase' = "operation" /\ settled' = {} /\ Going
      /\ UNCHANGED <<kind, infra, vault, recorded, request, ignore, steps, result, drifted, ids>>
      /\ Begin(spec) /\ spec \in Indexes
  BY <1>1, TypeFacts DEF Proceed, world, bounds, Going
<1>3. Starts(spec)
  BY <1>1, <1>2, BeginStarts
<1>4. prior = recorded /\ prior' = prior
  BY <1>1, <1>2, <1>3 DEF PhaseInv, Starts
<1>5. \A k \in Keys :
        /\ spec'[k] = Absent <=> spec[k] = Absent
        /\ spec[k] # Absent => /\ spec'[k].own = spec[k].own /\ spec'[k].link = spec[k].link
                               /\ spec'[k].id = spec[k].id /\ spec'[k].on = DependsOn(k, spec)
        /\ stage'[k] \in {"pending", "out"}
  BY <1>3 DEF Starts
<1>6. TypeOK'
  <2>1. ({infra, recorded, request, spec, prior, ctx, outcome} \cup settled)' \subseteq Indexes
    BY <1>1, <1>2, <1>3, TypeFacts, NothingThere DEF Starts
  <2> QED BY <1>1, <1>2, <1>3, <2>1, NothingThere DEF TypeOK, Starts, Actions
<1>7. PhaseInv'
  BY <1>1, <1>2, <1>4 DEF PhaseInv
<1>8. SpecInv'
  <2> SUFFICES ASSUME NEW k \in Keys
               PROVE  (/\ spec[k] = Absent <=> request[k] = Absent
                       /\ spec[k] # Absent =>
                            /\ spec[k].own = request[k].own
                            /\ spec[k].id = 0
                            /\ spec[k].on = DependsOn(k, request)
                            /\ spec[k].link = request[k].link \/ Replaced(k))'
    BY DEF SpecInv
  <2>1. CASE spec[k] = Absent
    BY <1>1, <1>2, <1>5, <2>1 DEF SpecInv
  <2>2. CASE spec[k] # Absent
    <3>1. /\ request[k] # Absent /\ spec[k].own = request[k].own /\ spec[k].id = 0
          /\ spec[k].link = request[k].link \/ Replaced(k)
      BY <1>1, <1>2, <2>2 DEF SpecInv
    <3>2. DependsOn(k, spec) = DependsOn(k, request)
      <4>1. Deps(k, spec) = Deps(k, request)
        BY <1>1, <1>2, SameGraph
      <4> QED BY <2>2, <3>1, <4>1 DEF Deps
    <3>3. ASSUME Replaced(k) PROVE Replaced(k)'
      <4>1. ASSUME NEW j, Fixed(j) PROVE Fixed(j)'
        <5>1. KeepsId(j)
          BY <1>2, <4>1 DEF Fixed
        <5>2. KeepsId(j)'
          BY <1>2, <1>4, <5>1 DEF KeepsId, Live
        <5> QED BY <1>2, <4>1, <5>2 DEF Fixed
      <4> QED BY <1>2, <1>5, <2>2, <3>3, <4>1 DEF Replaced
    <3>4. (DependsOn(k, request))' = DependsOn(k, request)
      BY <1>2
    <3> QED BY <1>2, <1>5, <2>2, <3>1, <3>2, <3>3, <3>4
  <2> QED BY <2>1, <2>2
<1>9. LinkInv'
  BY <1>1, <1>2, <1>4, <1>5 DEF LinkInv, Begun
<1>10. OrderInv'
  BY <1>2, <1>3, <1>4, <1>5 DEF OrderInv, Begun, Starts
<1>11. WalkInv'
  BY <1>1, <1>2, <1>4, SameUp DEF WalkInv
<1>12. IndexInv' /\ ActionInv'
  BY <1>2, <1>3, <1>5, NothingThere DEF IndexInv, ActionInv, Known, Written, Starts
<1>13. DoneInv'
  BY <1>2, <1>3, <1>5 DEF DoneInv, Written, Starts
<1>14. SuccessInv'
  BY <1>1, <1>2 DEF SuccessInv, PhaseInv
<1>15. ConvergedInv' /\ StepsInv'
  BY <1>2 DEF ConvergedInv, StepsInv
<1>16. ForetoldInv'
  <2> SUFFICES ASSUME ~drifted, ~ignore, HasReferences => prior # Nothing, NEW k \in Keys,
                      stage'[k] = "pending"
               PROVE  \E i \in DOMAIN steps : steps[i] = <<k, Action(k)'>>
    <3>1. HasReferences' = HasReferences
      BY <1>2 DEF HasReferences
    <3> QED BY <1>2, <1>3, <1>4, <1>5, <3>1 DEF ForetoldInv, Starts
  <2>1. stage[k] = "done"
    BY <1>1, <1>2, <1>3, <1>4 DEF OrderInv, WalkInv, Starts
  <2>2. Action(k)' = Action(k)
    BY <1>1, <1>2, <1>4, <1>5, <1>6, SameAction
  <2> QED BY <1>1, <1>2, <2>1, <2>2 DEF ForetoldInv
<1> QED
  BY <1>6, <1>7, <1>8, <1>9, <1>10, <1>11, <1>12, <1>13, <1>14, <1>15, <1>16 DEF SessionInv

(* The command is over without success.                                    *)
LEMMA LeaveKeeps ==
  ASSUME SessionInv, NEW r \in {"error", "crashed", "reconciled", "cancelled"}, Leave(r),
         settled' = settled
  PROVE  SessionInv'
<1>1. /\ phase' = "idle" /\ result' = r
      /\ UNCHANGED <<kind, infra, vault, recorded, request, spec, ignore, prior, ctx, stage,
                     outcome, act, steps, drifted, ids>>
  BY DEF Leave, world, node, bounds
<1>2. TypeOK'
  BY <1>1 DEF SessionInv, TypeOK
<1>3. SuccessInv'
  BY <1>1, SameReached DEF SessionInv, SuccessInv
<1>4. PhaseInv'
  BY <1>1 DEF SessionInv, PhaseInv, Going
<1>5. SpecInv' /\ LinkInv' /\ OrderInv' /\ WalkInv' /\ ForetoldInv'
  BY <1>1 DEF SpecInv, LinkInv, OrderInv, WalkInv, ForetoldInv, Going
<1>6. IndexInv' /\ ActionInv' /\ DoneInv' /\ ConvergedInv' /\ StepsInv'
  BY <1>1 DEF IndexInv, ActionInv, DoneInv, ConvergedInv, StepsInv, Walking
<1> QED BY <1>2, <1>3, <1>4, <1>5, <1>6 DEF SessionInv

(* Without a cycle a node is skipped only if another one has failed.       *)
LEMMA AllDone ==
  ASSUME TypeOK, OrderInv, WalkInv, Walked, ~AnyFailed
  PROVE  \A k \in Keys : stage[k] \in {"done", "out"}
<1>1. Going
  BY DEF Walked, Walking, Going
<1> DEFINE S == {k \in Keys : stage[k] = "skipped"}
<1>2. CASE S = {}
  BY <1>2 DEF Walked, AnyFailed, Over
<1>3. CASE S # {}
  <2>1. PICK k \in S : Up(k) \cap S = {}
    BY <1>1, <1>3 DEF WalkInv, Acyclic, Up
  <2>2. PICK j \in Up(k) : stage[j] \in {"failed", "skipped"}
    BY <1>1, <2>1 DEF OrderInv
  <2>3. j \in Keys
    BY <1>1, <2>2, UpAreKeys
  <2> QED BY <2>1, <2>2, <2>3 DEF AnyFailed
<1> QED BY <1>2, <1>3

LEMMA ConfirmKeeps ==
  ASSUME SessionInv, EndPreview, phase' = "confirm"
  PROVE  SessionInv'
<1>1. /\ TypeOK /\ PhaseInv /\ SpecInv /\ LinkInv /\ OrderInv /\ WalkInv /\ ForetoldInv
      /\ SuccessInv /\ ConvergedInv /\ StepsInv
  BY DEF SessionInv
<1>2. /\ phase = "preview" /\ Walked /\ ~AnyFailed /\ ~(AllUnChange /\ ~Destroying)
      /\ UNCHANGED <<kind, infra, vault, recorded, request, spec, ignore, prior, ctx, stage,
                     outcome, act, steps, result, drifted, settled, ids>>
  BY DEF EndPreview, Leave, world, node, seen, bounds
<1>3. \A k \in Keys : stage[k] \in {"done", "out"}
  BY <1>1, <1>2, AllDone
<1>4. TypeOK'
  BY <1>1, <1>2 DEF TypeOK
<1>5. PhaseInv'
  BY <1>1, <1>2 DEF PhaseInv, Going
<1>6. SpecInv'
  <2>1. \A j : Fixed(j) => Fixed(j)'
    BY <1>2 DEF Fixed, KeepsId, Live
  <2>2. \A k : Replaced(k) => Replaced(k)'
    BY <1>2, <2>1 DEF Replaced
  <2>3. \A k : (DependsOn(k, request))' = DependsOn(k, request)
    BY <1>2
  <2> QED BY <1>1, <1>2, <2>2, <2>3 DEF SpecInv, Going
<1>7. LinkInv'
  BY <1>1, <1>2, <1>3 DEF LinkInv, OrderInv, Begun, Going
<1>8. OrderInv' /\ WalkInv'
  BY <1>1, <1>2, <1>3, SameUp DEF OrderInv, WalkInv, Going
<1>9. IndexInv' /\ ActionInv' /\ DoneInv'
  BY <1>2 DEF IndexInv, ActionInv, DoneInv, Walking
<1>10. SuccessInv'
  BY <1>1, <1>2, SameReached DEF SuccessInv
<1>11. request \notin settled
  <2> SUFFICES ASSUME request \in settled PROVE FALSE
    OBVIOUS
  <2>1. AllUnChange /\ request = Nothing
    BY <1>1, <1>2 DEF ConvergedInv, Destroying
  <2>2. prior # Nothing /\ prior = recorded /\ recorded \in Indexes
    BY <1>1, <1>2, <2>1, TypeFacts DEF PhaseInv, Going
  <2>3. \A k \in Keys : recorded[k] = Absent
    BY <1>1, <2>1, NothingThere DEF SuccessInv, Reached
  <2> QED BY <2>2, <2>3 DEF Indexes, Nothing
<1>12. ConvergedInv'
  BY <1>2, <1>11 DEF ConvergedInv
<1>13. StepsInv'
  BY <1>1, <1>2, SameUp DEF StepsInv, At, Before
<1>14. ForetoldInv'
  <2> SUFFICES ASSUME ~drifted, ~ignore, HasReferences => prior # Nothing, NEW k \in Keys,
                      stage[k] = "done"
               PROVE  \E i \in DOMAIN steps : steps[i] = <<k, Action(k)'>>
    <3>1. HasReferences' = HasReferences
      BY <1>2 DEF HasReferences
    <3> QED BY <1>2, <3>1 DEF ForetoldInv
  <2>1. Action(k)' = Action(k)
    BY <1>1, <1>2, <1>4, SameAction
  <2> QED BY <1>1, <1>2, <2>1 DEF ForetoldInv, Going
<1> QED
  BY <1>4, <1>5, <1>6, <1>7, <1>8, <1>9, <1>10, <1>12, <1>13, <1>14 DEF SessionInv

(* Success is what has been asked for.                                     *)
LEMMA EndOperationKeeps ==
  ASSUME SessionInv, EndOperation
  PROVE  SessionInv'
<1>1. TypeOK /\ PhaseInv /\ SpecInv /\ LinkInv /\ OrderInv /\ WalkInv /\ DoneInv
  BY DEF SessionInv
<1>2. /\ phase = "operation" /\ Walked /\ phase' = "idle" /\ Going
      /\ result' = IF AnyFailed THEN "error" ELSE "success"
      /\ settled' = IF AnyFailed \/ drifted THEN {} ELSE {request}
      /\ UNCHANGED <<kind, infra, vault, recorded, request, spec, ignore, prior, ctx, stage,
                     outcome, act, steps, drifted, ids>>
  BY DEF EndOperation, Leave, world, node, bounds, Going
<1>3. ASSUME ~AnyFailed, ~drifted PROVE Closed(request) /\ Reached(request)
  <2>1. \A k \in Keys : stage[k] \in {"done", "out"}
    BY <1>1, <1>2, <1>3, AllDone
  <2>2. Closed(request)
    BY <1>1, <1>2 DEF PhaseInv
  <2>3. ASSUME NEW k \in Keys, request[k] = Absent PROVE recorded[k] = Absent
    BY <1>1, <1>2, <2>1, <2>3 DEF SpecInv, DoneInv, Written
  <2>4. ASSUME NEW k \in Keys, request[k] # Absent
        PROVE  /\ spec[k] # Absent /\ spec[k].own = request[k].own
               /\ spec[k].link = request[k].link \/ Replaced(k)
               /\ spec[k].link # Secret /\ ~IsRef(spec[k].link)
               /\ infra[k] # Absent /\ recorded[k] # Absent
               /\ infra[k].own = request[k].own /\ infra[k].link = spec[k].link
    <3>1. /\ spec[k] # Absent /\ spec[k].own = request[k].own
          /\ spec[k].link = request[k].link \/ Replaced(k)
      BY <1>1, <1>2, <2>4 DEF SpecInv
    <3>2. stage[k] = "done"
      BY <1>1, <1>2, <2>1, <3>1 DEF OrderInv
    <3> QED BY <1>1, <1>2, <3>1, <3>2 DEF LinkInv, DoneInv, Written, Begun
  <2>5. ASSUME NEW k \in Keys, request[k] # Absent
        PROVE  infra[k].link = Linked(request, k)
    <3>1. request[k].link \in Links
      BY <1>1, <2>5, TypeFacts, ResourceParts
    <3>2. CASE spec[k].link = request[k].link
      BY <2>4, <2>5, <3>2 DEF Linked
    <3>3. CASE Replaced(k) /\ IsRef(request[k].link)
      <4> DEFINE j == request[k].link[2]
      <4>1. j \in Keys /\ request[j] # Absent
        BY <2>2, <2>5, <3>1, <3>3, LinkKinds DEF Closed, Deps, DependsOn, Present
      <4>2. infra[j].own = request[j].own
        BY <2>4, <4>1
      <4>3. request[k].link # Secret
        BY <3>3, LinkKinds
      <4> QED BY <1>3, <2>4, <2>5, <3>3, <4>2, <4>3 DEF Replaced, Linked
    <3>4. CASE Replaced(k) /\ ~IsRef(request[k].link)
      BY <1>3, <2>4, <2>5, <3>4 DEF Replaced, Linked
    <3> QED BY <2>4, <2>5, <3>2, <3>3, <3>4
  <2> QED BY <2>2, <2>3, <2>4, <2>5 DEF Reached
<1>4. TypeOK'
  BY <1>1, <1>2 DEF TypeOK
<1>5. SuccessInv'
  <2>1. Reached(request)' = Reached(request)
    BY <1>2 DEF Reached, Linked
  <2>2. \A r \in settled' : r = request /\ ~AnyFailed /\ ~drifted
    BY <1>2
  <2> QED BY <1>2, <1>3, <2>1, <2>2, SameReached DEF SuccessInv
<1>6. PhaseInv'
  BY <1>2 DEF PhaseInv, Going
<1>7. SpecInv' /\ LinkInv' /\ OrderInv' /\ WalkInv' /\ ForetoldInv'
  BY <1>2 DEF SpecInv, LinkInv, OrderInv, WalkInv, ForetoldInv, Going
<1>8. IndexInv' /\ ActionInv' /\ DoneInv' /\ ConvergedInv' /\ StepsInv'
  BY <1>2 DEF IndexInv, ActionInv, DoneInv, ConvergedInv, StepsInv, Walking
<1> QED BY <1>4, <1>5, <1>6, <1>7, <1>8 DEF SessionInv

LEMMA DriftKeeps ==
  ASSUME SessionInv, Drift
  PROVE  SessionInv'
<1>1. TypeOK /\ PhaseInv /\ SpecInv /\ LinkInv /\ OrderInv /\ WalkInv /\ StepsInv
  BY DEF SessionInv
<1>2. /\ phase \in {"idle", "confirm"} /\ drifted' = TRUE /\ settled' = {}
      /\ UNCHANGED <<kind, recorded, phase, request, spec, ignore, prior, ctx, stage,
                     outcome, act, steps, result>>
  BY DEF Drift, node
<1>3. infra' \in Indexes /\ vault' \in Nat /\ ids' \in Nat
  <2>1. infra \in Indexes /\ vault \in Nat /\ ids \in Nat
    BY <1>1, TypeFacts
  <2>2. Resource(0, None, {}, ids + 1) \in Resources
    BY <2>1 DEF Resource, Resources, Links
  <2> QED BY <2>1, <2>2, IndexWith DEF Drift
<1>4. TypeOK'
  <2>1. ({infra, recorded, request, spec, prior, ctx, outcome} \cup settled)' \subseteq Indexes
    BY <1>1, <1>2, <1>3, TypeFacts
  <2> QED BY <1>1, <1>2, <1>3, <2>1 DEF TypeOK
<1>5. PhaseInv'
  BY <1>1, <1>2 DEF PhaseInv, Going
<1>6. SpecInv'
  <2>1. \A k : Replaced(k) => Replaced(k)'
    BY <1>2 DEF Replaced
  <2>2. \A k : (DependsOn(k, request))' = DependsOn(k, request)
    BY <1>2
  <2> QED BY <1>1, <1>2, <2>1, <2>2 DEF SpecInv, Going
<1>7. LinkInv' /\ OrderInv' /\ WalkInv'
  BY <1>1, <1>2, SameUp DEF LinkInv, OrderInv, WalkInv, Going
<1>8. IndexInv' /\ ActionInv' /\ DoneInv'
  BY <1>2 DEF IndexInv, ActionInv, DoneInv, Walking
<1>9. SuccessInv' /\ ConvergedInv' /\ ForetoldInv'
  BY <1>2 DEF SuccessInv, ConvergedInv, ForetoldInv
<1>10. StepsInv'
  BY <1>1, <1>2, SameUp DEF StepsInv, At, Before
<1> QED BY <1>4, <1>5, <1>6, <1>7, <1>8, <1>9, <1>10 DEF SessionInv

-----------------------------------------------------------------------------
(* The walk orders its nodes by the graph that its edges make.             *)
LEMMA ReadyUp ==
  ASSUME TypeOK, SpecInv, NEW k \in Keys
  PROVE  /\ Ready(k) => \A j \in Up(k) : stage[j] = "done"
         /\ Skip(k) => \E j \in Up(k) : stage[j] \in {"failed", "skipped"}
<1>1. Walking => Edges(spec, prior) = Edges(request, prior)
  BY SameGraph DEF Walking, Going
<1> QED BY <1>1 DEF Ready, Skip, Up

(* What a step that leaves the live resources alone, and no node over that *)
(* was not, cannot disturb.                                                *)
LEMMA SpecStays ==
  ASSUME TypeOK, SpecInv, UNCHANGED <<kind, vault, phase, request, infra, prior, drifted>>,
         \A j \in Keys : stage[j] \in Written => stage'[j] \in Written,
         NEW k \in Keys, spec'[k] = spec[k]
  PROVE  (Going => /\ spec[k] = Absent <=> request[k] = Absent
                   /\ spec[k] # Absent =>
                        /\ spec[k].own = request[k].own
                        /\ spec[k].id = 0
                        /\ spec[k].on = DependsOn(k, request)
                        /\ spec[k].link = request[k].link \/ Replaced(k))'
<1>1. \A j \in Keys : Fixed(j) => Fixed(j)'
  BY DEF Fixed, KeepsId, Live
<1>2. request[k] # Absent /\ Replaced(k) => Replaced(k)'
  <2>1. request[k] # Absent /\ IsRef(request[k].link) => request[k].link[2] \in Keys
    BY TypeFacts, ResourceParts, LinkKinds
  <2> QED BY <1>1, <2>1 DEF Replaced
<1>3. (DependsOn(k, request))' = DependsOn(k, request)
  OBVIOUS
<1> QED BY <1>2, <1>3 DEF SpecInv, Going

LEMMA SkipKeeps ==
  ASSUME SessionInv, NEW k \in Keys, Skip(k)
  PROVE  SessionInv'
<1>1. /\ TypeOK /\ PhaseInv /\ SpecInv /\ LinkInv /\ OrderInv /\ WalkInv /\ IndexInv
      /\ ActionInv /\ DoneInv /\ SuccessInv /\ ConvergedInv /\ StepsInv /\ ForetoldInv
  BY DEF SessionInv
<1>2. /\ Walking /\ Going /\ stage[k] = "pending"
      /\ stage' = [stage EXCEPT ![k] = "skipped"]
      /\ UNCHANGED <<kind, infra, vault, recorded, phase, request, spec, ignore, prior, ctx,
                     outcome, act, steps, result, drifted, settled, ids>>
  BY DEF Skip, Quiet, Enter, world, seen, bounds, Walking, Going
<1>3. /\ stage'[k] = "skipped"
      /\ \A j \in Keys \ {k} : stage'[j] = stage[j]
  BY <1>1, <1>2 DEF TypeOK
<1>4. TypeOK'
  BY <1>1, <1>2 DEF TypeOK, Over
<1>5. PhaseInv'
  BY <1>1, <1>2 DEF PhaseInv, Going
<1>6. SpecInv'
  <2>1. \A j \in Keys : stage[j] \in Written => stage'[j] \in Written
    BY <1>2, <1>3 DEF Written
  <2> QED BY <1>1, <1>2, <2>1, SpecStays DEF SpecInv
<1>7. LinkInv'
  BY <1>1, <1>2, <1>3 DEF LinkInv, Begun, Going
<1>8. OrderInv'
  <2>1. \E j \in Up(k) : stage[j] \in {"failed", "skipped"}
    BY <1>1, ReadyUp
  <2> QED BY <1>1, <1>2, <1>3, <2>1, SameUp, UpAreKeys DEF OrderInv, Begun, Going
<1>9. WalkInv'
  BY <1>1, <1>2, SameUp DEF WalkInv, Walking
<1>10. IndexInv'
  BY <1>1, <1>2, <1>3 DEF IndexInv, Known, KeepsId, Live, Written
<1>11. ActionInv'
  BY <1>1, <1>2, <1>3 DEF ActionInv, Action, Applied, Same, Live, Written
<1>12. DoneInv'
  BY <1>1, <1>2, <1>3 DEF DoneInv, Written
<1>13. SuccessInv' /\ ConvergedInv'
  BY <1>1, <1>2, SameReached DEF SuccessInv, ConvergedInv, AllUnChange
<1>14. StepsInv'
  BY <1>1, <1>2, <1>3, SameUp DEF StepsInv, At, Before
<1>15. ForetoldInv'
  <2>1. \A j : Action(j)' = Action(j) /\ Foretold(j)' = Foretold(j)
    BY <1>2 DEF Action, Applied, Same, Live, Foretold
  <2> QED BY <1>1, <1>2, <1>3, <2>1 DEF ForetoldInv, Going, HasReferences
<1> QED
  BY <1>4, <1>5, <1>6, <1>7, <1>8, <1>9, <1>10, <1>11, <1>12, <1>13, <1>14, <1>15 DEF SessionInv

(* What PreExecute looks up is there, and will not change any more.        *)
LEMMA LookupIsKnown ==
  ASSUME SessionInv, NEW k \in Keys, Ready(k), spec[k] # Absent, IsRef(spec[k].link), Replaces,
         ~Missing(spec[k].link)
  PROVE  LET link == spec[k].link
             j == link[2]
         IN  /\ link = request[k].link
             /\ j \in Keys /\ link[3] \in {"own", "id"}
             /\ ctx[j] # Absent
             /\ ctx[j].own \in Nat /\ ctx[j].id \in Nat
             /\ ctx[j].own = request[j].own
             /\ link[3] = "id" => ctx[j].id = infra[j].id /\ Fixed(j)
<1>1. /\ TypeOK /\ SpecInv /\ LinkInv /\ IndexInv /\ OrderInv /\ Walking /\ Going
      /\ ctx \in Indexes
  BY TypeFacts DEF SessionInv, Ready, Walking, Going
<1> DEFINE link == spec[k].link
           j == link[2]
<1>2. link = request[k].link
  BY <1>1, LinkKinds DEF SpecInv, Replaced
<1>3. j \in Keys /\ link[3] \in {"own", "id"}
  BY <1>1, TypeFacts, ResourceParts, LinkKinds
<1>4. ctx[j] # Absent /\ (link[3] = "id" => ctx[j].id # 0)
  BY DEF Missing
<1>5. ctx[j].own \in Nat /\ ctx[j].id \in Nat
  BY <1>1, <1>3, <1>4, ResourceParts
<1>6. stage[j] = "done" /\ Known(j, ctx[j])
  BY <1>1, <1>3, <1>4 DEF IndexInv
<1>7. phase = "preview" \/ prior = Nothing
  BY <1>1 DEF LinkInv, Walking
<1>8. /\ ctx[j].own = request[j].own
      /\ ctx[j].id # 0 => infra[j] # Absent /\ ctx[j].id = infra[j].id
                          /\ (phase = "preview" => KeepsId(j))
  BY <1>4, <1>6, <1>7 DEF Known
<1>9. link[3] = "id" => ctx[j].id = infra[j].id /\ Fixed(j)
  BY <1>1, <1>4, <1>6, <1>8 DEF Fixed, Walking, Written
<1> QED BY <1>2, <1>3, <1>4, <1>5, <1>8, <1>9

(* What PreExecute makes of the link of its resource.                      *)
LEMMA PreExecuteLink ==
  ASSUME SessionInv, NEW k \in Keys, PreExecute(k), spec[k] # Absent, stage'[k] = "compute"
  PROVE  /\ spec'[k] \in Resources
         /\ spec'[k] # Absent /\ spec'[k].own = spec[k].own /\ spec'[k].id = spec[k].id
         /\ spec'[k].on = spec[k].on /\ spec'[k].link = Resolved(spec[k].link)
         /\ Resolved(spec[k].link) = request[k].link \/ Replaced(k)'
         /\ Resolved(spec[k].link) # Secret
         /\ IsRef(Resolved(spec[k].link)) => ~Replaces
<1>1. /\ TypeOK /\ SpecInv /\ Ready(k) /\ Walking /\ Going
      /\ UNCHANGED <<kind, infra, vault, phase, request, prior, drifted>>
      /\ request[k] # Absent
      /\ stage[k] = "pending"
  BY DEF SessionInv, PreExecute, Ready, Quiet, world, seen, Walking, Going, SpecInv
<1> DEFINE link == spec[k].link
<1>2. /\ IsRef(link) /\ Replaces => ~Missing(link)
      /\ spec' = [spec EXCEPT ![k].link = Resolved(@)]
      /\ stage' = [stage EXCEPT ![k] = "compute"]
  <2>1. ~Enter(k, "failed")
    BY <1>1 DEF Enter, TypeOK
  <2> QED BY <2>1 DEF PreExecute, Enter
<1>3. /\ spec[k] \in Resources /\ link \in Links /\ vault \in Nat
      /\ link = request[k].link \/ Replaced(k)
  BY <1>1, TypeFacts, ResourceParts DEF SpecInv
<1>4. ASSUME NEW j \in Keys, Fixed(j) PROVE Fixed(j)'
  <2>1. stage[j] \in Written => stage'[j] \in Written
    BY <1>1, <1>2 DEF TypeOK, Written
  <2> QED BY <1>1, <1>4, <2>1 DEF Fixed, KeepsId, Live
<1>5. CASE IsRef(link) /\ Replaces
  <2>0. PICK j \in Keys : j = link[2]
    BY <1>3, <1>5, LinkKinds
  <2>1. /\ link = request[k].link /\ link[3] \in {"own", "id"}
        /\ ctx[j].own \in Nat /\ ctx[j].id \in Nat
        /\ ctx[j].own = request[j].own
        /\ link[3] = "id" => ctx[j].id = infra[j].id /\ Fixed(j)
    BY <1>1, <1>2, <1>5, <2>0, LookupIsKnown
  <2>2. Resolved(link) = Value(IF link[3] = "id" THEN ctx[j].id ELSE ctx[j].own)
    BY <1>5, <2>0, LinkKinds DEF Resolved
  <2>3. /\ Resolved(link) \in {"value"} \X Nat /\ Resolved(link) \in Links
        /\ ~IsRef(Resolved(link)) /\ Resolved(link) # Secret
    BY <2>1, <2>2, LinkKinds
  <2>4. /\ spec'[k] \in Resources /\ spec'[k] # Absent /\ spec'[k].own = spec[k].own
        /\ spec'[k].id = spec[k].id /\ spec'[k].on = spec[k].on
        /\ spec'[k].link = Resolved(link)
    <3>1. spec'[k] = [spec[k] EXCEPT !.link = Resolved(link)]
      BY <1>1, <1>2, TypeFacts DEF Indexes
    <3> QED BY <1>3, <2>3, <3>1, ResourceWith
  <2>5. Replaced(k)'
    <3>1. CASE link[3] = "own"
      <4>1. spec'[k].link = Value(request[j].own)
        BY <2>1, <2>2, <2>4, <3>1
      <4> QED BY <1>1, <1>5, <2>0, <2>1, <2>3, <2>4, <3>1, <4>1 DEF Replaced
    <3>2. CASE link[3] = "id"
      <4>1. spec'[k].link = Value(infra[j].id) /\ Fixed(j)'
        BY <1>4, <2>1, <2>2, <2>4, <3>2
      <4> QED BY <1>1, <1>5, <2>0, <2>1, <2>3, <2>4, <3>2, <4>1 DEF Replaced
    <3> QED BY <2>1, <3>1, <3>2
  <2> QED BY <2>3, <2>4, <2>5
<1>6. CASE ~(IsRef(link) /\ Replaces)
  <2>1. Resolved(link) = IF link = Secret THEN Value(vault) ELSE link
    BY <1>6 DEF Resolved
  <2>2. /\ Resolved(link) \in Links /\ Resolved(link) # Secret
        /\ IsRef(Resolved(link)) => ~Replaces
        /\ link = Secret => Resolved(link) \in {"value"} \X Nat
    BY <1>3, <1>6, <2>1, LinkKinds
  <2>3. /\ spec'[k] \in Resources /\ spec'[k] # Absent /\ spec'[k].own = spec[k].own
        /\ spec'[k].id = spec[k].id /\ spec'[k].on = spec[k].on
        /\ spec'[k].link = Resolved(link)
    <3>1. spec'[k] = [spec[k] EXCEPT !.link = Resolved(link)]
      BY <1>1, <1>2, TypeFacts DEF Indexes
    <3> QED BY <1>3, <2>2, <3>1, ResourceWith
  <2>4. Resolved(link) = request[k].link \/ Replaced(k)'
    <3>1. CASE Replaced(k)
      <4>1. link # Secret /\ ~IsRef(link)
        BY <3>1, LinkKinds DEF Replaced
      <4>2. spec'[k].link = spec[k].link
        BY <2>1, <2>3, <4>1
      <4>3. IsRef(request[k].link) => request[k].link[2] \in Keys
        BY <1>1, TypeFacts, ResourceParts, LinkKinds
      <4> QED BY <1>1, <1>4, <3>1, <4>2, <4>3 DEF Replaced
    <3>2. CASE link = request[k].link /\ link # Secret
      BY <2>1, <3>2
    <3>3. CASE link = request[k].link /\ link = Secret
      BY <1>1, <2>1, <2>2, <2>3, <3>3 DEF Replaced
    <3> QED BY <1>3, <3>1, <3>2, <3>3
  <2> QED BY <2>2, <2>3, <2>4
<1> QED BY <1>5, <1>6

LEMMA PreExecuteKeeps ==
  ASSUME SessionInv, NEW k \in Keys, PreExecute(k)
  PROVE  SessionInv'
<1>1. /\ TypeOK /\ PhaseInv /\ SpecInv /\ LinkInv /\ OrderInv /\ WalkInv /\ IndexInv
      /\ ActionInv /\ DoneInv /\ SuccessInv /\ ConvergedInv /\ StepsInv /\ ForetoldInv
  BY DEF SessionInv
<1>2. /\ Walking /\ Going /\ Ready(k) /\ stage[k] = "pending"
      /\ UNCHANGED <<kind, infra, vault, recorded, phase, request, ignore, prior, ctx,
                     outcome, act, steps, result, drifted, settled, ids>>
  BY DEF PreExecute, Quiet, Ready, world, seen, bounds, Walking, Going
<1>3. /\ stage'[k] \in {"compute", "failed"}
      /\ stage' \in [Keys -> {"out", "pending", "compute", "invoke", "refresh"} \cup Over]
      /\ \A j \in Keys \ {k} : stage'[j] = stage[j] /\ spec'[j] = spec[j]
      /\ stage'[k] = "failed" \/ spec[k] = Absent => spec' = spec
  BY <1>1, TypeFacts DEF PreExecute, Enter, TypeOK, Over, Indexes
<1>4. spec' \in Indexes
  <2>1. CASE spec' = spec
    BY <1>1, <2>1, TypeFacts
  <2>2. CASE spec' # spec
    <3>1. spec'[k] \in Resources
      BY <1>3, <2>2, PreExecuteLink
    <3>2. spec' = [spec EXCEPT ![k] = spec'[k]]
      BY <1>1, <1>3, <2>2, TypeFacts DEF PreExecute, Indexes
    <3> QED BY <1>1, <3>1, <3>2, TypeFacts, IndexWith
  <2> QED BY <2>1, <2>2
<1>5. TypeOK'
  <2>1. ({infra, recorded, request, spec, prior, ctx, outcome} \cup settled)' \subseteq Indexes
    BY <1>1, <1>2, <1>4, TypeFacts
  <2> QED BY <1>1, <1>2, <1>3, <2>1 DEF TypeOK
<1>6. PhaseInv'
  BY <1>1, <1>2 DEF PhaseInv, Going
<1>7. SpecInv'
  <2>1. \A j \in Keys : stage[j] \in Written => stage'[j] \in Written
    BY <1>2, <1>3 DEF Written
  <2>2. ASSUME NEW j \in Keys, spec'[j] = spec[j]
        PROVE  (Going => /\ spec[j] = Absent <=> request[j] = Absent
                         /\ spec[j] # Absent =>
                              /\ spec[j].own = request[j].own
                              /\ spec[j].id = 0
                              /\ spec[j].on = DependsOn(j, request)
                              /\ spec[j].link = request[j].link \/ Replaced(j))'
    BY <1>1, <1>2, <2>1, <2>2, SpecStays
  <2>3. ASSUME spec'[k] # spec[k]
        PROVE  (Going => /\ spec[k] = Absent <=> request[k] = Absent
                         /\ spec[k] # Absent =>
                              /\ spec[k].own = request[k].own
                              /\ spec[k].id = 0
                              /\ spec[k].on = DependsOn(k, request)
                              /\ spec[k].link = request[k].link \/ Replaced(k))'
    <3>1. spec[k] # Absent /\ stage'[k] = "compute"
      BY <1>3, <2>3
    <3>2. /\ spec'[k] # Absent /\ spec'[k].own = spec[k].own /\ spec'[k].id = spec[k].id
          /\ spec'[k].on = spec[k].on
          /\ spec'[k].link = request[k].link \/ Replaced(k)'
      BY <3>1, PreExecuteLink
    <3>3. (DependsOn(k, request))' = DependsOn(k, request)
      BY <1>2
    <3> QED BY <1>1, <1>2, <3>1, <3>2, <3>3 DEF SpecInv
  <2> QED BY <1>3, <2>2, <2>3 DEF SpecInv
<1>8. LinkInv'
  <2>1. ASSUME stage'[k] = "compute", spec[k] # Absent
        PROVE  /\ spec'[k].link # Secret
               /\ IsRef(spec'[k].link) => phase = "preview" /\ prior = Nothing
    <3>1. spec'[k].link # Secret /\ (IsRef(spec'[k].link) => ~Replaces)
      BY <2>1, PreExecuteLink
    <3>2. request[k] # Absent
      BY <1>1, <1>2, <2>1 DEF SpecInv
    <3>3. ~Destroying
      BY <3>2, NothingThere DEF Destroying
    <3> QED BY <1>2, <3>1, <3>3 DEF Replaces, Walking
  <2> QED BY <1>1, <1>2, <1>3, <2>1 DEF LinkInv, Begun, Going
<1>9. OrderInv'
  <2>1. spec'[k] = Absent <=> spec[k] = Absent
    BY <1>3, PreExecuteLink
  <2>2. \A j \in Up(k) : stage[j] = "done"
    BY <1>1, <1>2, ReadyUp
  <2> QED BY <1>1, <1>2, <1>3, <2>1, <2>2, SameUp, UpAreKeys DEF OrderInv, Begun, Going
<1>10. WalkInv'
  BY <1>1, <1>2, SameUp DEF WalkInv, Walking
<1>11. IndexInv'
  <2>1. \A j \in Keys : spec'[j] = Absent <=> spec[j] = Absent
    BY <1>3, PreExecuteLink
  <2>2. \A j : KeepsId(j)' = KeepsId(j)
    BY <1>2 DEF KeepsId, Live
  <2> QED BY <1>1, <1>2, <1>3, <2>1, <2>2 DEF IndexInv, Known, Written
<1>12. \A j \in Keys \ {k} : Action(j)' = Action(j)
  BY <1>1, <1>2, <1>3, <1>5, SameAction
<1>13. ActionInv'
  BY <1>1, <1>2, <1>3, <1>12 DEF ActionInv, Written
<1>14. DoneInv'
  BY <1>1, <1>2, <1>3 DEF DoneInv, Written
<1>15. SuccessInv' /\ ConvergedInv'
  BY <1>1, <1>2, SameReached DEF SuccessInv, ConvergedInv, AllUnChange
<1>16. StepsInv'
  BY <1>1, <1>2, <1>3, SameUp DEF StepsInv, At, Before
<1>17. ForetoldInv'
  <2> SUFFICES ASSUME ~drifted, ~ignore, HasReferences => prior # Nothing
               PROVE  ForetoldInv'
    BY <1>2 DEF ForetoldInv, HasReferences
  <2>1. \A j : Foretold(j)' = Foretold(j)
    BY <1>2 DEF Foretold
  <2>2. ASSUME phase = "operation", stage'[k] = "compute" PROVE Action(k)' = Action(k)
    <3>1. ASSUME spec[k] # Absent
          PROVE  spec'[k] # Absent /\ spec'[k].own = spec[k].own /\ spec'[k].link = spec[k].link
      <4>1. spec[k].link # Secret /\ (IsRef(spec[k].link) => prior = Nothing)
        BY <1>1, <1>2, <2>2, <3>1 DEF LinkInv
      <4>2. ~IsRef(spec[k].link)
        <5> SUFFICES ASSUME IsRef(spec[k].link) PROVE FALSE
          OBVIOUS
        <5>1. IsRef(request[k].link) /\ request[k] # Absent
          BY <1>1, <1>2, <3>1, LinkKinds DEF SpecInv, Replaced
        <5> QED BY <4>1, <5>1 DEF HasReferences, Present
      <4>3. Resolved(spec[k].link) = spec[k].link
        BY <4>1, <4>2 DEF Resolved
      <4> QED BY <2>2, <3>1, <4>3, PreExecuteLink
    <3> QED BY <1>1, <1>2, <1>3, <1>5, <3>1, SameAction
  <2> QED BY <1>1, <1>2, <1>3, <1>12, <2>1, <2>2 DEF ForetoldInv, ActionInv, Going, Written
<1> QED
  BY <1>5, <1>6, <1>7, <1>8, <1>9, <1>10, <1>11, <1>13, <1>14, <1>15, <1>16, <1>17 DEF SessionInv

-----------------------------------------------------------------------------
(* An attribute of a plan or an answer is the one that was asked for.      *)
LEMMA DryFacts ==
  ASSUME SessionInv, Walking, NEW k \in Keys, phase = "preview"
  PROVE  Dry(k) \in Resources \cup {Absent} /\ Known(k, Dry(k))
<1>1. TypeOK /\ SpecInv /\ Going
  BY DEF SessionInv, Walking, Going
<1>2. CASE Action(k) = "Delete"
  BY <1>2 DEF Dry, Known
<1>3. CASE Action(k) # "Delete"
  <2>1. spec[k] # Absent /\ spec[k] \in Resources
    BY <1>1, <1>3, ActionIs, TypeFacts, ResourceParts
  <2>2. spec[k].own = request[k].own /\ spec[k].id = 0
    BY <1>1, <2>1 DEF SpecInv
  <2>3. /\ Applied(k, 0) \in Resources
        /\ Applied(k, 0).own = spec[k].own
        /\ Applied(k, 0).id =
             IF Live(k) = Absent \/ (kind = "Terraform" /\ Live(k).own # spec[k].own)
             THEN 0 ELSE Live(k).id
    BY <1>1, <2>1, AppliedParts
  <2>4. Applied(k, 0).id # 0 => infra[k] # Absent /\ Applied(k, 0).id = infra[k].id
                                /\ KeepsId(k)
    BY <2>2, <2>3 DEF KeepsId, Live
  <2>5. Dry(k) = IF Action(k) = "Create" THEN spec[k] ELSE Applied(k, 0)
    BY <1>3 DEF Dry
  <2> QED BY <2>1, <2>2, <2>3, <2>4, <2>5 DEF Known
<1> QED BY <1>2, <1>3

(* What has just succeeded does not change.                                *)
LEMMA NothingToDo ==
  ASSUME SessionInv, NEW k \in Keys, phase = "preview", stage[k] = "compute", request \in settled
  PROVE  Action(k) = "UnChange" /\ ~Panics(k)
<1>1. /\ TypeOK /\ PhaseInv /\ SpecInv /\ LinkInv /\ OrderInv /\ Going
      /\ prior = recorded /\ ~drifted /\ Closed(request) /\ Reached(request)
  BY DEF SessionInv, PhaseInv, SuccessInv, Going
<1>2. /\ spec[k] # Absent /\ request[k] # Absent
      /\ spec[k].own = request[k].own
      /\ spec[k].link = request[k].link \/ Replaced(k)
  BY <1>1 DEF OrderInv, Reached, SpecInv
<1>3. /\ prior[k] # Absent /\ infra[k] # Absent /\ infra[k].own = request[k].own
      /\ infra[k].link = Linked(request, k) /\ prior # Nothing
  BY <1>1, <1>2, NothingThere DEF Reached
<1>4. spec[k].link # Secret /\ ~IsRef(spec[k].link)
  BY <1>1, <1>2, <1>3 DEF LinkInv, Begun
<1>5. spec[k].link = Linked(request, k)
  <2>1. CASE spec[k].link = request[k].link
    BY <1>4, <2>1 DEF Linked
  <2>2. CASE Replaced(k) /\ ~IsRef(request[k].link)
    BY <1>1, <2>2 DEF Replaced, Linked
  <2>3. CASE Replaced(k) /\ IsRef(request[k].link)
    <3>1. PICK j \in Keys : j = request[k].link[2]
      BY <1>1, <1>2, <2>3, TypeFacts, ResourceParts, LinkKinds
    <3>2. request[j] # Absent
      BY <1>1, <1>2, <2>3, <3>1 DEF Closed, Deps, DependsOn, Present
    <3>3. infra[j].own = request[j].own /\ request[k].link # Secret
      BY <1>1, <2>3, <3>2, LinkKinds DEF Reached
    <3> QED BY <1>1, <2>3, <3>1, <3>3 DEF Replaced, Linked
  <2> QED BY <1>2, <2>1, <2>2, <2>3
<1>6. Live(k) = infra[k]
  BY <1>3 DEF Live
<1> QED BY <1>1, <1>2, <1>3, <1>5, <1>6, ActionIs DEF Panics

LEMMA ComputeKeeps ==
  ASSUME SessionInv, NEW k \in Keys, Compute(k)
  PROVE  SessionInv'
<1>1. /\ TypeOK /\ PhaseInv /\ SpecInv /\ LinkInv /\ OrderInv /\ WalkInv /\ IndexInv
      /\ ActionInv /\ DoneInv /\ SuccessInv /\ ConvergedInv /\ StepsInv /\ ForetoldInv
  BY DEF SessionInv
<1>2. /\ Walking /\ Going /\ stage[k] = "compute"
      /\ UNCHANGED <<kind, infra, vault, recorded, phase, request, spec, ignore, prior, ctx,
                     steps, result, drifted, settled, ids>>
  BY DEF Compute, Quiet, world, seen, bounds, Walking, Going
<1>3. /\ \A j \in Keys \ {k} : /\ stage'[j] = stage[j] /\ outcome'[j] = outcome[j]
                               /\ act'[j] = act[j]
      /\ \/ stage'[k] = "failed" /\ UNCHANGED <<outcome, act>>
         \/ Panics(k) /\ stage'[k] = "done" /\ UNCHANGED <<outcome, act>>
         \/ /\ ~Panics(k) /\ act'[k] = Action(k)
            /\ \/ phase = "preview" /\ stage'[k] = "refresh" /\ outcome'[k] = Dry(k)
               \/ phase # "preview" /\ stage'[k] = "invoke" /\ UNCHANGED outcome
  BY <1>1, TypeFacts DEF Compute, Enter, TypeOK, Indexes
<1>4. Action(k) \in Actions
  BY <1>1, ActionIs DEF Actions
<1>5. outcome' \in Indexes
  <2>1. CASE UNCHANGED outcome
    BY <1>1, <2>1, TypeFacts
  <2>2. CASE outcome' = [outcome EXCEPT ![k] = Dry(k)] /\ phase = "preview"
    BY <1>1, <1>2, <2>2, DryFacts, TypeFacts, IndexWith
  <2> QED BY <2>1, <2>2 DEF Compute
<1>6. TypeOK'
  <2>1. ({infra, recorded, request, spec, prior, ctx, outcome} \cup settled)' \subseteq Indexes
    BY <1>1, <1>2, <1>5, TypeFacts
  <2>2. stage' \in [Keys -> {"out", "pending", "compute", "invoke", "refresh"} \cup Over]
    BY <1>1 DEF Compute, Enter, TypeOK, Over
  <2>3. act' \in [Keys -> Actions \cup {"none"}]
    BY <1>1, <1>4 DEF Compute, TypeOK
  <2>4. "none" \notin Actions
    BY DEF Actions
  <2> QED BY <1>1, <1>2, <1>3, <1>4, <2>1, <2>2, <2>3, <2>4 DEF TypeOK
<1>7. PhaseInv'
  BY <1>1, <1>2 DEF PhaseInv, Going
<1>8. SpecInv'
  <2>1. \A j \in Keys : stage[j] \in Written => stage'[j] \in Written
    BY <1>2, <1>3 DEF Written
  <2> QED BY <1>1, <1>2, <2>1, SpecStays DEF SpecInv
<1>9. LinkInv'
  BY <1>1, <1>2, <1>3 DEF LinkInv, Begun, Going
<1>10. OrderInv'
  BY <1>1, <1>2, <1>3, SameUp, UpAreKeys DEF OrderInv, Begun, Going
<1>11. WalkInv'
  BY <1>1, <1>2, SameUp DEF WalkInv, Walking
<1>12. IndexInv'
  <2>1. phase = "preview" => Known(k, Dry(k))
    BY <1>2, DryFacts
  <2>2. ASSUME NEW j \in Keys
        PROVE  /\ stage'[j] \notin Written => outcome'[j] = Absent
               /\ ctx'[j] = IF stage'[j] = "done" THEN outcome'[j] ELSE Absent
    BY <1>1, <1>2, <1>3 DEF IndexInv, Written
  <2>3. ASSUME NEW j \in Keys PROVE Known(j, outcome[j])'
    <3>1. CASE outcome'[j] = outcome[j]
      BY <1>1, <1>2, <3>1 DEF IndexInv, Known, KeepsId, Live
    <3>2. CASE outcome'[j] # outcome[j]
      <4>1. j = k /\ outcome'[k] = Dry(k) /\ phase = "preview"
        BY <1>3, <3>2
      <4> QED BY <1>2, <2>1, <4>1 DEF Known, KeepsId, Live
    <3> QED BY <3>1, <3>2
  <2> QED BY <2>2, <2>3 DEF IndexInv
<1>13. \A j \in Keys : Action(j)' = Action(j)
  BY <1>1, <1>2, <1>6, SameAction
<1>14. ActionInv'
  BY <1>1, <1>2, <1>3, <1>13 DEF ActionInv, Written
<1>15. DoneInv'
  BY <1>1, <1>2, <1>3 DEF DoneInv, Written, Panics
<1>16. SuccessInv'
  BY <1>1, <1>2, SameReached DEF SuccessInv
<1>17. ConvergedInv'
  BY <1>1, <1>2, <1>3, NothingToDo DEF ConvergedInv, AllUnChange, Walking
<1>18. StepsInv'
  BY <1>1, <1>2, <1>3, SameUp DEF StepsInv, At, Before, Panics
<1>19. ForetoldInv'
  <2> SUFFICES ASSUME ~drifted, ~ignore, HasReferences => prior # Nothing
               PROVE  ForetoldInv'
    BY <1>2 DEF ForetoldInv, HasReferences
  <2>1. \A j \in Keys \ {k} : Foretold(j)' = Foretold(j)
    BY <1>2, <1>3 DEF Foretold
  <2>2. phase = "operation" /\ act'[k] = Action(k) => Foretold(k)'
    BY <1>1, <1>2 DEF ForetoldInv, Foretold, Going
  <2>3. UNCHANGED act => Foretold(k)' = Foretold(k)
    BY <1>2 DEF Foretold
  <2> QED BY <1>1, <1>2, <1>3, <1>13, <2>1, <2>2, <2>3
          DEF ForetoldInv, Panics, Going
<1> QED
  BY <1>6, <1>7, <1>8, <1>9, <1>10, <1>11, <1>12, <1>14, <1>15, <1>16, <1>17, <1>18, <1>19
  DEF SessionInv

-----------------------------------------------------------------------------
(* What the runtime answers to the operation, and what it leaves.          *)
LEMMA InvokeFacts ==
  ASSUME SessionInv, NEW k \in Keys, Invoke(k)
  PROVE  /\ infra'[k] \in Resources \cup {Absent}
         /\ outcome'[k] \in Resources \cup {Absent}
         /\ ids' \in Nat
         /\ spec[k] = Absent => outcome'[k] = Absent
         /\ spec[k] # Absent =>
              /\ infra'[k] # Absent /\ outcome'[k] # Absent
              /\ infra'[k].own = spec[k].own /\ infra'[k].link = spec[k].link
              /\ KeepsId(k) => infra'[k].id = infra[k].id
              /\ prior = Nothing => /\ outcome'[k].own = spec[k].own
                                    /\ outcome'[k].id # 0 => outcome'[k].id = infra'[k].id
<1>1. /\ TypeOK /\ SpecInv /\ Going /\ ids \in Nat
      /\ infra \in Indexes /\ outcome \in Indexes /\ prior \in Indexes
      /\ act[k] = Action(k) /\ phase = "operation"
  BY TypeFacts DEF SessionInv, Invoke, ActionInv, Walking, Going
<1> DEFINE new == IF act[k] = "Delete" THEN Absent ELSE Applied(k, ids + 1)
<1>2. /\ infra'[k] = IF act[k] = "UnChange" THEN infra[k] ELSE new
      /\ outcome'[k] = Kept(k, new)
      /\ ids' \in Nat
  BY <1>1 DEF Invoke, Indexes
<1>3. CASE spec[k] = Absent
  <2>1. act[k] = "Delete"
    BY <1>1, <1>3, ActionIs
  <2> QED BY <1>2, <1>3, <2>1 DEF Kept
<1>4. CASE spec[k] # Absent
  <2>1. /\ act[k] # "Delete"
        /\ act[k] = "UnChange" => /\ Live(k) # Absent /\ Live(k).link = spec[k].link
                                  /\ Live(k).own = spec[k].own
    BY <1>1, <1>4, ActionIs
  <2>2. /\ new \in Resources /\ new # Absent
        /\ new.own = spec[k].own /\ new.link = spec[k].link
        /\ new.id = IF Live(k) = Absent \/ (kind = "Terraform" /\ Live(k).own # spec[k].own)
                    THEN ids + 1 ELSE Live(k).id
    BY <1>1, <1>4, <2>1, AppliedParts, ResourceWith
  <2>3. Live(k) # Absent => Live(k) = infra[k] /\ infra[k] \in Resources
    BY <1>1, ResourceParts DEF Live
  <2>4. spec[k].own = request[k].own
    BY <1>1, <1>4 DEF SpecInv
  <2> HIDE DEF new
  <2>5. /\ infra'[k] \in Resources /\ infra'[k] # Absent
        /\ infra'[k].own = spec[k].own /\ infra'[k].link = spec[k].link
        /\ infra'[k].id = new.id
        /\ KeepsId(k) => infra'[k].id = infra[k].id
    BY <1>2, <2>1, <2>2, <2>3, <2>4 DEF KeepsId
  <2>6. Kept(k, new) = IF act[k] = "UnChange" /\ prior[k] # Absent THEN prior[k]
                       ELSE IF kind = "Terraform" THEN new ELSE [new EXCEPT !.id = 0]
    BY <2>1 DEF Kept
  <2>7. /\ [new EXCEPT !.id = 0] \in Resources /\ [new EXCEPT !.id = 0] # Absent
        /\ [new EXCEPT !.id = 0].own = new.own /\ [new EXCEPT !.id = 0].id = 0
    BY <2>2, ResourceWith
  <2>8. /\ outcome'[k] \in Resources /\ outcome'[k] # Absent
    BY <1>1, <1>2, <2>2, <2>6, <2>7, ResourceParts
  <2>9. ASSUME prior = Nothing
        PROVE  /\ outcome'[k].own = spec[k].own
               /\ outcome'[k].id # 0 => outcome'[k].id = infra'[k].id
    BY <1>2, <2>2, <2>5, <2>6, <2>7, <2>9, NothingThere
  <2> QED BY <1>2, <1>4, <2>5, <2>8, <2>9
<1> QED BY <1>3, <1>4

LEMMA InvokeKeeps ==
  ASSUME SessionInv, NEW k \in Keys, Invoke(k)
  PROVE  SessionInv'
<1>1. /\ TypeOK /\ PhaseInv /\ SpecInv /\ LinkInv /\ OrderInv /\ WalkInv /\ IndexInv
      /\ ActionInv /\ DoneInv /\ SuccessInv /\ ConvergedInv /\ StepsInv /\ ForetoldInv
  BY DEF SessionInv
<1>2. /\ Walking /\ Going /\ phase = "operation" /\ stage[k] = "invoke"
      /\ stage' = [stage EXCEPT ![k] = "refresh"]
      /\ UNCHANGED <<kind, vault, recorded, phase, request, spec, ignore, prior, ctx, act,
                     steps, result, drifted, settled>>
  BY DEF Invoke, Enter, seen, Walking, Going
<1>3. /\ stage'[k] = "refresh"
      /\ \A j \in Keys \ {k} : /\ stage'[j] = stage[j] /\ outcome'[j] = outcome[j]
                               /\ infra'[j] = infra[j]
  BY <1>1, <1>2, TypeFacts DEF Invoke, TypeOK, Indexes
<1>4. /\ infra'[k] \in Resources \cup {Absent}
      /\ outcome'[k] \in Resources \cup {Absent}
      /\ ids' \in Nat
      /\ spec[k] = Absent => outcome'[k] = Absent
      /\ spec[k] # Absent =>
           /\ infra'[k] # Absent /\ outcome'[k] # Absent
           /\ infra'[k].own = spec[k].own /\ infra'[k].link = spec[k].link
           /\ KeepsId(k) => infra'[k].id = infra[k].id
           /\ prior = Nothing => /\ outcome'[k].own = spec[k].own
                                 /\ outcome'[k].id # 0 => outcome'[k].id = infra'[k].id
  BY InvokeFacts
<1>5. infra' \in Indexes /\ outcome' \in Indexes
  <2>1. infra' = [infra EXCEPT ![k] = infra'[k]] /\ outcome' = [outcome EXCEPT ![k] = outcome'[k]]
    BY <1>1, TypeFacts DEF Invoke, Indexes
  <2> QED BY <1>1, <1>4, <2>1, TypeFacts, IndexWith
<1>6. TypeOK'
  <2>1. ({infra, recorded, request, spec, prior, ctx, outcome} \cup settled)' \subseteq Indexes
    BY <1>1, <1>2, <1>5, TypeFacts
  <2> QED BY <1>1, <1>2, <1>3, <1>4, <2>1 DEF TypeOK
<1>7. PhaseInv'
  BY <1>1, <1>2 DEF PhaseInv, Going
<1>8. SpecInv'
  <2>1. ASSUME NEW j \in Keys, request[j] # Absent, Fixed(j)
        PROVE  Fixed(j)' /\ infra'[j].id = infra[j].id
    <3>1. CASE j = k
      <4>1. KeepsId(k) /\ spec[k] # Absent
        BY <1>1, <1>2, <2>1, <3>1 DEF Fixed, SpecInv, Written
      <4> QED BY <1>2, <1>3, <1>4, <3>1, <4>1 DEF Fixed, Written
    <3>2. CASE j # k
      BY <1>2, <1>3, <2>1, <3>2 DEF Fixed, KeepsId, Live
    <3> QED BY <3>1, <3>2
  <2>2. ASSUME NEW j \in Keys, request[j] # Absent, Replaced(j) PROVE Replaced(j)'
    <3>1. CASE IsRef(request[j].link)
      <4>1. PICK i \in Keys : i = request[j].link[2]
        BY <1>1, <2>2, <3>1, TypeFacts, ResourceParts, LinkKinds
      <4>2. request[i] # Absent
        BY <1>1, <1>2, <2>2, <3>1, <4>1 DEF PhaseInv, Closed, Deps, DependsOn, Present
      <4> QED BY <1>2, <2>1, <2>2, <3>1, <4>1, <4>2, LinkKinds DEF Replaced
    <3>2. CASE ~IsRef(request[j].link)
      BY <1>2, <2>2, <3>2 DEF Replaced
    <3> QED BY <3>1, <3>2
  <2>3. \A j : (DependsOn(j, request))' = DependsOn(j, request)
    BY <1>2
  <2> QED BY <1>1, <1>2, <2>2, <2>3 DEF SpecInv
<1>9. LinkInv'
  BY <1>1, <1>2, <1>3 DEF LinkInv, Begun, Going
<1>10. OrderInv'
  BY <1>1, <1>2, <1>3, SameUp, UpAreKeys DEF OrderInv, Begun, Going
<1>11. WalkInv'
  BY <1>1, <1>2, SameUp DEF WalkInv, Walking
<1>12. IndexInv'
  <2>1. Known(k, outcome[k])'
    <3>1. spec[k] # Absent => spec[k].own = request[k].own
      BY <1>1, <1>2 DEF SpecInv
    <3> QED BY <1>2, <1>4, <3>1 DEF Known
  <2>2. \A j \in Keys \ {k} : Known(j, outcome[j])'
    BY <1>1, <1>2, <1>3 DEF IndexInv, Known
  <2> QED BY <1>1, <1>2, <1>3, <2>1, <2>2 DEF IndexInv, Written
<1>13. \A j \in Keys \ {k} : Action(j)' = Action(j)
  BY <1>1, <1>2, <1>3, <1>6, SameAction
<1>14. ActionInv'
  BY <1>1, <1>2, <1>3, <1>13 DEF ActionInv, Written
<1>15. DoneInv'
  BY <1>1, <1>2, <1>3, <1>4 DEF DoneInv, Written
<1>16. SuccessInv' /\ ConvergedInv' /\ StepsInv'
  BY <1>1, <1>2 DEF SuccessInv, ConvergedInv, StepsInv, PhaseInv
<1>17. ForetoldInv'
  <2>1. \A j : Foretold(j)' = Foretold(j)
    BY <1>2 DEF Foretold
  <2> QED BY <1>1, <1>2, <1>3, <1>13, <2>1 DEF ForetoldInv, Going, HasReferences
<1> QED
  BY <1>6, <1>7, <1>8, <1>9, <1>10, <1>11, <1>12, <1>14, <1>15, <1>16, <1>17 DEF SessionInv

(* A step more of the preview.                                             *)
LEMMA MoreSteps ==
  ASSUME TypeOK, NEW k \in Keys, act[k] # "none", steps' = Append(steps, <<k, act[k]>>)
  PROVE  /\ steps' \in Seq(Keys \X Actions)
         /\ DOMAIN steps' = DOMAIN steps \cup {Len(steps) + 1}
         /\ \A i \in DOMAIN steps : i \in Nat /\ i < Len(steps) + 1 /\ steps'[i] = steps[i]
         /\ steps'[Len(steps) + 1] = <<k, act[k]>>
<1>1. steps \in Seq(Keys \X Actions) /\ act[k] \in Actions
  BY DEF TypeOK
<1>2. <<k, act[k]>> \in Keys \X Actions
  BY <1>1
<1> QED BY <1>1, <1>2

LEMMA RefreshKeeps ==
  ASSUME SessionInv, NEW k \in Keys, Refresh(k)
  PROVE  SessionInv'
<1>1. /\ TypeOK /\ PhaseInv /\ SpecInv /\ LinkInv /\ OrderInv /\ WalkInv /\ IndexInv
      /\ ActionInv /\ DoneInv /\ SuccessInv /\ ConvergedInv /\ StepsInv /\ ForetoldInv
  BY DEF SessionInv
<1>2. /\ Walking /\ Going /\ stage[k] = "refresh" /\ act[k] # "none"
      /\ stage' = [stage EXCEPT ![k] = "done"]
      /\ UNCHANGED <<kind, infra, vault, phase, request, spec, ignore, prior, outcome, act,
                     result, drifted, settled, ids>>
  BY <1>1 DEF Refresh, Enter, seen, bounds, Walking, Going, TypeOK
<1>3. /\ stage'[k] = "done" /\ ctx'[k] = outcome[k]
      /\ \A j \in Keys \ {k} : stage'[j] = stage[j] /\ ctx'[j] = ctx[j]
      /\ ctx' \in Indexes
  BY <1>1, <1>2, TypeFacts, IndexWith DEF Refresh, TypeOK, Indexes
<1>4. \/ phase = "preview" /\ steps' = Append(steps, <<k, act[k]>>) /\ recorded' = recorded
      \/ /\ phase = "operation" /\ steps' = steps /\ recorded' \in Indexes
         /\ recorded'[k] = outcome[k]
         /\ \A j \in Keys \ {k} : recorded'[j] = recorded[j]
  BY <1>1, <1>2, TypeFacts, IndexWith DEF Refresh, Walking, Indexes
<1>5. TypeOK'
  <2>1. ({infra, recorded, request, spec, prior, ctx, outcome} \cup settled)' \subseteq Indexes
    BY <1>1, <1>2, <1>3, <1>4, TypeFacts
  <2>2. steps' \in Seq(Keys \X Actions)
    BY <1>1, <1>2, <1>4, MoreSteps DEF TypeOK
  <2> QED BY <1>1, <1>2, <1>3, <2>1, <2>2 DEF TypeOK, Over
<1>6. PhaseInv'
  BY <1>1, <1>2, <1>4 DEF PhaseInv, Going
<1>7. SpecInv'
  <2>1. \A j \in Keys : stage[j] \in Written => stage'[j] \in Written
    BY <1>3 DEF Written
  <2> QED BY <1>1, <1>2, <2>1, SpecStays DEF SpecInv
<1>8. LinkInv'
  BY <1>1, <1>2, <1>3 DEF LinkInv, Begun, Going
<1>9. OrderInv'
  BY <1>1, <1>2, <1>3, SameUp, UpAreKeys DEF OrderInv, Begun, Going
<1>10. WalkInv'
  BY <1>1, <1>2, SameUp DEF WalkInv, Walking
<1>11. IndexInv'
  BY <1>1, <1>2, <1>3 DEF IndexInv, Known, KeepsId, Live, Written
<1>12. \A j \in Keys : Action(j)' = Action(j)
  BY <1>1, <1>2, <1>5, SameAction
<1>13. ActionInv'
  BY <1>1, <1>2, <1>3, <1>12 DEF ActionInv, Written
<1>14. DoneInv'
  BY <1>1, <1>2, <1>3, <1>4 DEF DoneInv, Written
<1>15. SuccessInv'
  BY <1>1, <1>2, <1>4, SameReached DEF SuccessInv, PhaseInv
<1>16. ConvergedInv'
  <2> SUFFICES ASSUME phase = "preview", request \in settled PROVE AllUnChange'
    BY <1>1, <1>2 DEF ConvergedInv, Walking
  <2>1. act[k] = "UnChange" /\ AllUnChange
    BY <1>1, <1>2 DEF ConvergedInv
  <2>2. <<k, act[k]>>[2] = "UnChange"
    BY <2>1
  <2> QED BY <1>1, <1>2, <1>4, <2>1, <2>2, MoreSteps DEF AllUnChange
<1>17. StepsInv'
  <2> SUFFICES ASSUME phase = "preview", ~ignore PROVE StepsInv'
    BY <1>2 DEF StepsInv, Walking
  <2> DEFINE n == Len(steps) + 1
  <2>1. /\ DOMAIN steps' = DOMAIN steps \cup {n} /\ n \notin DOMAIN steps
        /\ \A i \in DOMAIN steps : i \in Nat /\ i < n /\ steps'[i] = steps[i]
        /\ steps'[n] = <<k, act[k]>> /\ steps'[n][1] = k
    <3>1. <<k, act[k]>>[1] = k
      OBVIOUS
    <3> QED BY <1>1, <1>2, <1>4, <3>1, MoreSteps
  <2> HIDE DEF n
  <2>2. At(k) = {} /\ At(k)' = {n}
    BY <1>1, <1>2, <2>1 DEF StepsInv, At
  <2>3. \A j \in Keys \ {k} : At(j)' = At(j)
    BY <2>1 DEF At
  <2>4. ASSUME NEW j \in Up(k) PROVE Before(j, k)' /\ j \in Keys
    <3>1. j \in Keys /\ stage[j] = "done"
      BY <1>1, <1>2, UpAreKeys DEF OrderInv, Begun
    <3>2. At(j)' = At(j) /\ At(j) \subseteq DOMAIN steps
      BY <1>2, <2>3, <3>1 DEF At
    <3> QED BY <2>1, <2>2, <3>1, <3>2 DEF Before
  <2>5. ASSUME NEW i \in Keys \ {k}, stage[i] = "done", NEW j \in Up(i)
        PROVE  Before(j, i)'
    <3>1. j \in Keys \ {k}
      BY <1>1, <1>2, <2>5, UpAreKeys DEF OrderInv, Begun
    <3>2. Before(j, i)
      BY <1>1, <2>5 DEF StepsInv
    <3> QED BY <2>3, <2>5, <3>1, <3>2 DEF Before
  <2>6. \A j \in Keys : IF stage'[j] = "done" THEN \E i \in DOMAIN steps' : At(j)' = {i}
                        ELSE At(j)' = {}
    BY <1>1, <1>3, <2>1, <2>2, <2>3 DEF StepsInv
  <2> QED BY <1>2, <1>3, <2>4, <2>5, <2>6, SameUp DEF StepsInv
<1>18. ForetoldInv'
  <2> SUFFICES ASSUME ~drifted, ~ignore, HasReferences => prior # Nothing
               PROVE  ForetoldInv'
    BY <1>2 DEF ForetoldInv, HasReferences
  <2>1. CASE phase = "operation"
    <3>1. \A j : Foretold(j)' = Foretold(j)
      BY <1>2, <1>4, <2>1 DEF Foretold
    <3> QED BY <1>1, <1>2, <1>3, <1>4, <1>12, <2>1, <3>1 DEF ForetoldInv, Going
  <2>2. CASE phase = "preview"
    <3>1. act[k] = Action(k)
      BY <1>1, <1>2, <2>2 DEF ActionInv
    <3> QED BY <1>1, <1>2, <1>3, <1>4, <1>12, <2>2, <3>1, MoreSteps DEF ForetoldInv, Going
  <2> QED BY <1>4, <2>1, <2>2
<1> QED
  BY <1>5, <1>6, <1>7, <1>8, <1>9, <1>10, <1>11, <1>13, <1>14, <1>15, <1>16, <1>17, <1>18
  DEF SessionInv

-----------------------------------------------------------------------------
LEMMA NextKeeps == SessionInv /\ [Next]_vars => SessionInv'
<1> SUFFICES ASSUME SessionInv, [Next]_vars PROVE SessionInv'
  OBVIOUS
<1>1. ASSUME NEW m \in Specs \cup {Nothing}, Command(m) PROVE SessionInv'
  BY <1>1, CommandKeeps
<1>2. ASSUME NEW k \in Keys, NodeStep(k) PROVE SessionInv'
  BY <1>2, PreExecuteKeeps, ComputeKeeps, InvokeKeeps, RefreshKeeps, SkipKeeps DEF NodeStep
<1>3. CASE FatalRace
  BY <1>3, LeaveKeeps DEF FatalRace
<1>4. CASE EndPreview
  <2>1. CASE phase' = "confirm"
    BY <1>4, <2>1, ConfirmKeeps
  <2>2. CASE phase' # "confirm"
    BY <1>4, <2>2, LeaveKeeps DEF EndPreview
  <2> QED BY <2>1, <2>2
<1>5. CASE Cancel
  BY <1>5, LeaveKeeps DEF Cancel
<1>6. CASE Proceed
  BY <1>6, ProceedKeeps
<1>7. CASE EndOperation
  BY <1>7, EndOperationKeeps
<1>8. CASE Drift
  BY <1>8, DriftKeeps
<1>9. CASE UNCHANGED vars
  <2>1. UNCHANGED <<kind, infra, vault, recorded, phase, request, spec, ignore, prior, ctx,
                    stage, outcome, act, steps, result, drifted, settled, ids>>
    BY <1>9 DEF vars, world, node, seen, bounds
  <2>2. TypeOK' /\ PhaseInv' /\ OrderInv' /\ WalkInv' /\ SuccessInv'
    BY <2>1, SameUp, SameReached DEF SessionInv, TypeOK, PhaseInv, OrderInv, WalkInv, SuccessInv, Going
  <2>3. SpecInv' /\ LinkInv'
    BY <2>1 DEF SessionInv, SpecInv, LinkInv, Replaced, Fixed, KeepsId, Live, Going
  <2>4. IndexInv' /\ DoneInv'
    BY <2>1 DEF SessionInv, IndexInv, DoneInv, Known, KeepsId, Live, Walking
  <2>5. \A k : Action(k)' = Action(k) /\ Foretold(k)' = Foretold(k)
    BY <2>1 DEF Action, Applied, Same, Live, Foretold
  <2>6. ActionInv' /\ ConvergedInv' /\ ForetoldInv'
    BY <2>1, <2>5 DEF SessionInv, ActionInv, ConvergedInv, ForetoldInv, AllUnChange, Going, Walking,
                      HasReferences
  <2>7. StepsInv'
    BY <2>1, SameUp DEF SessionInv, StepsInv, At, Before
  <2> QED BY <2>2, <2>3, <2>4, <2>6, <2>7 DEF SessionInv
<1> QED
  BY <1>1, <1>2, <1>3, <1>4, <1>5, <1>6, <1>7, <1>8, <1>9 DEF Next, Rest

(* The invariant of a stack that is applied and destroyed.                 *)
THEOREM SessionInvariant == Spec => []SessionInv
BY InitInv, NextKeeps, PTL DEF Spec

(* An apply that says success has made all that the user wrote: no preview *)
(* that is walked on the same resources, and no order in which the nodes   *)
(* run, leaves a reference with what its target had before.                *)
THEOREM ReferencesHoldHolds == Spec => []ReferencesHold
<1>1. SessionInv => ReferencesHold
  BY DEF SessionInv, SuccessInv, Reached, ReferencesHold
<1> QED BY <1>1, SessionInvariant, PTL

(* What has been applied has nothing to confirm.                           *)
THEOREM IdempotentHolds == Spec => []Idempotent
<1>1. SessionInv => Idempotent
  BY DEF SessionInv, ConvergedInv, Idempotent
<1> QED BY <1>1, SessionInvariant, PTL

(* The steps that are confirmed.                                           *)
LEMMA StepsAreComplete == SessionInv => StepsComplete
<1> SUFFICES ASSUME SessionInv, phase = "confirm", ~ignore PROVE StepsComplete
  BY DEF StepsComplete
<1>1. /\ TypeOK /\ PhaseInv /\ SpecInv /\ OrderInv /\ WalkInv /\ StepsInv /\ Going
      /\ prior = recorded /\ Closed(prior)
  BY DEF SessionInv, PhaseInv, Going
<1>2. ASSUME NEW k \in Present(request) \cup Present(recorded)
      PROVE  /\ stage[k] = "done" /\ k \in Keys
             /\ \E n \in DOMAIN steps : At(k) = {n}
             /\ \A j \in Up(k) : Before(j, k)
  <2>1. k \in Keys /\ (spec[k] # Absent \/ prior[k] # Absent)
    BY <1>1 DEF Present, SpecInv
  <2>2. stage[k] = "done"
    BY <1>1, <2>1 DEF OrderInv, WalkInv
  <2> QED BY <1>1, <2>1, <2>2 DEF StepsInv
<1>3. ASSUME NEW k \in Present(request) \cup Present(recorded) PROVE Cardinality(At(k)) = 1
  BY <1>2, FS_Singleton
<1>4. ASSUME NEW k \in Present(request), NEW j \in DependsOn(k, request) PROVE Before(j, k)
  <2>1. j \in Deps(k, request)
    BY DEF Deps, Present
  <2>2. <<j, k>> \in Edges(request, prior)
    BY <2>1 DEF Edges, Present
  <2>3. j \in Up(k)
    BY <2>2 DEF Up, UpEdges
  <2> QED BY <1>2, <2>3
<1>5. ASSUME NEW k \in Present(recorded), NEW j \in recorded[k].on \ Present(request)
      PROVE  Before(k, j)
  <2>1. j \in Deps(k, prior) \ Present(request)
    BY <1>1 DEF Deps, DependsOn, Present
  <2>2. <<k, j>> \in Edges(request, prior)
    BY <2>1 DEF Edges, Present
  <2>3. k \in Up(j)
    BY <2>2 DEF Up, UpEdges
  <2>4. j \in Present(recorded)
    BY <1>1, <2>1 DEF Closed, Present
  <2> QED BY <1>2, <2>3, <2>4
<1>6. \A k \in Present(request) :
         /\ IsRef(request[k].link) => Before(request[k].link[2], k)
         /\ \A j \in request[k].on : Before(j, k)
  BY <1>4 DEF DependsOn
<1> QED BY <1>3, <1>5, <1>6 DEF StepsComplete, At, Before

(* The user sees all that the operation will do, in its order, and it does *)
(* what the user saw.                                                      *)
THEOREM ShownIsDoneHolds == Spec => []ShownIsDone
<1>1. SessionInv => PreviewForetells
  BY DEF SessionInv, ForetoldInv, PreviewForetells, Going
<1>2. SessionInv => ShownIsDone
  BY <1>1, StepsAreComplete DEF SessionInv, ShownIsDone
<1> QED BY <1>2, SessionInvariant, PTL
=============================================================================
