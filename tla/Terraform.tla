----------------------------- MODULE Terraform ------------------------------
(***************************************************************************)
(* The Terraform runtime (runtime/terraform, tfops) under the nodes of an  *)
(* operation or its preview.  Every resource has a directory of its own in *)
(* the stack, with a configuration, the lock file of the provider and a    *)
(* Terraform state; one workspace object, whose fields say which directory *)
(* and resource it is about, serves all nodes under a mutex.  The terraform*)
(* command is external.  It may fail, or be killed; kusion may crash.      *)
(***************************************************************************)
EXTENDS Integers, FiniteSets

CONSTANTS Keys,        \* the resource keys
          Specs,       \* the specs: for a key the value of an attribute and the
                       \* version of the provider, both positive
          Absent,      \* no resource, instance or directory
          Faults,      \* "error", "kill", "crash", "lose"
          MaxCommands, \* bound on the commands
          MaxFaults    \* bound on the faults

Wanteds == [own : Nat \ {0}, version : Nat \ {0}]
Records == [id : Nat, own : Nat, version : Nat]
Notes == [id : Nat, own : Nat]
Directories == [own : Nat, version : Nat, lock : Nat, tfstate : {Absent} \cup Notes]

ASSUME SpecsAssumption == Specs \subseteq [Keys -> {Absent} \cup Wanteds]
ASSUME AbsentAssumption ==
  /\ Absent \notin Keys
  /\ Absent \notin Wanteds
  /\ Absent \notin Records
  /\ Absent \notin Notes
  /\ Absent \notin Directories

VARIABLES live,     \* the instances in the infrastructure
          dir,      \* the directories
          recorded, \* the latest state of kusion
          mode,     \* "idle", "preview" or "operation"
          spec,     \* the spec of the command
          pc,       \* the call each node is to make
          at,       \* how far it is in the call
          mu,       \* the owner of the mutex
          ws,       \* the fields of the workspace
          seen,     \* the live resource as read
          ids,      \* the ids that were given
          excused,  \* history: the keys with an instance that nobody noted
          silent,   \* history: the keys whose terraform was killed in this command
          commands, \* how many commands there were
          faults    \* how many faults

node == <<pc, at, seen>>
lock == <<mu, ws>>
history == <<excused, silent>>
vars == <<live, dir, recorded, mode, spec, node, lock, ids, history, commands, faults>>

Instance(k, id, own) == [key |-> k, id |-> id, own |-> own]
Noted(id, own) == [id |-> id, own |-> own]
Empty == Noted(0, 0)                  \* a state without attributes
Fresh == [own |-> 0, version |-> 0, lock |-> 0, tfstate |-> Absent]

Of(k) == {i \in live : i.key = k}
Calls == {"read", "plan", "apply", "delete"}

Init ==
  /\ live = {}
  /\ dir = [k \in Keys |-> Absent]
  /\ recorded = [k \in Keys |-> Absent]
  /\ mode = "idle"
  /\ spec = [k \in Keys |-> Absent]
  /\ pc = [k \in Keys |-> "out"]
  /\ at = [k \in Keys |-> "out"]
  /\ mu = Absent
  /\ ws = [key |-> Absent, own |-> 0, version |-> 0]
  /\ seen = [k \in Keys |-> Absent]
  /\ ids = 0
  /\ excused = {} /\ silent = {}
  /\ commands = 0 /\ faults = 0

-----------------------------------------------------------------------------
Command(s) ==
  /\ mode = "idle"
  /\ commands < MaxCommands
  /\ commands' = commands + 1
  /\ spec' = s
  /\ mode' \in {"preview", "operation"}
  /\ pc' = [k \in Keys |-> IF s[k] = Absent /\ recorded[k] = Absent THEN "out" ELSE "read"]
  /\ seen' = [k \in Keys |-> Absent]
  /\ silent' = {}
  /\ UNCHANGED <<live, dir, recorded, at, lock, ids, excused, faults>>

(* A fault may happen where the next action offers it.                     *)
Fault(f) ==
  /\ f \in Faults
  /\ faults < MaxFaults
  /\ faults' = faults + 1

(* The action of a node: a resource without a record and a live instance   *)
(* is created, and a plan tells the changed from the unchanged.            *)
AfterRead(k, resource) ==
  IF spec[k] = Absent THEN IF mode = "preview" THEN "done" ELSE "delete"
  ELSE IF recorded[k] = Absent /\ resource = Absent
  THEN IF mode = "preview" THEN "done" ELSE "apply"
  ELSE "plan"

AfterPlan(k) ==
  IF mode = "preview" \/ (seen[k] # Absent /\ seen[k].own = spec[k].own)
  THEN "done" ELSE "apply"

(* Read without a record does not look anywhere.                           *)
ReadNothing(k) ==
  /\ pc[k] = "read"
  /\ recorded[k] = Absent
  /\ pc' = [pc EXCEPT ![k] = AfterRead(k, Absent)]
  /\ UNCHANGED <<live, dir, recorded, mode, spec, at, lock, seen, ids, history, commands, faults>>

(* Mutant: the calls do not lock.                                          *)
AcquireFreely(k) ==
  /\ pc[k] \in Calls
  /\ pc[k] = "read" => recorded[k] # Absent
  /\ at[k] = "out"
  /\ mu' = k
  /\ ws' = IF spec[k] = Absent THEN [key |-> k, own |-> 0, version |-> recorded[k].version]
           ELSE [key |-> k, own |-> spec[k].own, version |-> spec[k].version]
  /\ at' = [at EXCEPT ![k] = IF pc[k] = "delete" THEN "run" ELSE "hcl"]
  /\ UNCHANGED <<live, dir, recorded, mode, spec, pc, seen, ids, history, commands, faults>>

(* Every call locks the mutex and sets the fields of the workspace.  What  *)
(* is to be deleted is read without attributes.                            *)
Acquire(k) ==
  /\ pc[k] \in Calls
  /\ pc[k] = "read" => recorded[k] # Absent
  /\ at[k] = "out"
  /\ mu = Absent
  /\ mu' = k
  /\ ws' = IF spec[k] = Absent THEN [key |-> k, own |-> 0, version |-> recorded[k].version]
           ELSE [key |-> k, own |-> spec[k].own, version |-> spec[k].version]
  /\ at' = [at EXCEPT ![k] = IF pc[k] = "delete" THEN "run" ELSE "hcl"]
  /\ UNCHANGED <<live, dir, recorded, mode, spec, pc, seen, ids, history, commands, faults>>

Work == UNCHANGED <<live, recorded, mode, spec, pc, lock, seen, ids, history, commands>>

AfterInit(k) == IF pc[k] = "read" THEN "state" ELSE "version"

(* WriteHCL makes the directory and main.tf.json; a directory without a    *)
(* lock file is to be initialised.                                         *)
WriteHCL(k) ==
  /\ at[k] = "hcl"
  /\ LET d == IF dir[ws.key] = Absent THEN Fresh ELSE dir[ws.key]
     IN  /\ dir' = [dir EXCEPT ![ws.key] = [d EXCEPT !.own = ws.own, !.version = ws.version]]
         /\ at' = [at EXCEPT ![k] = IF d.lock = 0 THEN "init" ELSE AfterInit(k)]
  /\ Work /\ UNCHANGED faults

(* Mutant: a workspace is checked again after its second initialisation,   *)
(* for which the lock file is not written.                                 *)
InitAgain(k) ==
  /\ at[k] \in {"init", "reinit"}
  /\ dir' = IF at[k] = "init" THEN [dir EXCEPT ![ws.key].lock = dir[ws.key].version] ELSE dir
  /\ at' = [at EXCEPT ![k] = IF @ = "init" THEN AfterInit(k) ELSE "version"]
  /\ Work /\ UNCHANGED faults

(* terraform init locks the version of the configuration.                  *)
InitWorkSpace(k) ==
  /\ at[k] \in {"init", "reinit"}
  /\ dir' = [dir EXCEPT ![ws.key].lock = dir[ws.key].version]
  /\ at' = [at EXCEPT ![k] = IF @ = "init" THEN AfterInit(k) ELSE "run"]
  /\ Work /\ UNCHANGED faults

(* WriteTFState puts what kusion has recorded over the Terraform state.    *)
WriteTFState(k) ==
  /\ at[k] = "state"
  /\ dir' = [dir EXCEPT ![ws.key].tfstate = Noted(recorded[k].id, recorded[k].own)]
  /\ at' = [at EXCEPT ![k] = "version"]
  /\ excused' = excused \cup
       {i.key : i \in {i \in Of(ws.key) : dir[ws.key].tfstate # Absent
                                          /\ i.id = dir[ws.key].tfstate.id
                                          /\ i.id # recorded[k].id}}
  /\ UNCHANGED <<live, recorded, mode, spec, pc, lock, seen, ids, silent, commands, faults>>

(* CleanAndInitWorkspace: another version than the locked one makes it     *)
(* remove the lock file and initialise again.                              *)
CleanAndInit(k) ==
  /\ at[k] = "version"
  /\ IF dir[ws.key].lock = ws.version
     THEN at' = [at EXCEPT ![k] = "run"] /\ UNCHANGED dir
     ELSE /\ at' = [at EXCEPT ![k] = "reinit"]
          /\ dir' = [dir EXCEPT ![ws.key].lock = 0]
  /\ Work /\ UNCHANGED faults

Return(k, next) ==
  /\ pc' = [pc EXCEPT ![k] = next]
  /\ at' = [at EXCEPT ![k] = "out"]
  /\ mu' = Absent
  /\ UNCHANGED <<mode, spec, ws, commands>>

(* RefreshResourceIndex and UpdateState, after the call has returned.      *)
Record(k, r) == recorded' = [recorded EXCEPT ![k] = r]

Here == dir[ws.key]
Held == {i \in live : Here.tfstate # Absent /\ i.key = ws.key /\ i.id = Here.tfstate.id}

(* terraform apply -refresh-only.                                          *)
Refreshed ==
  IF Held = {} THEN Absent ELSE LET i == CHOOSE i \in Held : TRUE IN Noted(i.id, i.own)

RunRead(k) ==
  /\ pc[k] = "read" /\ at[k] = "run"
  /\ dir' = [dir EXCEPT ![ws.key].tfstate = Refreshed]
  /\ seen' = [seen EXCEPT ![k] = Refreshed]
  /\ Return(k, AfterRead(k, Refreshed))
  /\ UNCHANGED <<live, recorded, ids, history, faults>>

RunPlan(k) ==
  /\ pc[k] = "plan" /\ at[k] = "run"
  /\ Return(k, AfterPlan(k))
  /\ UNCHANGED <<live, dir, recorded, seen, ids, history, faults>>

(* terraform apply: what the Terraform state has is updated or replaced,   *)
(* and made if there is no such instance.                                  *)
Made == Instance(ws.key, ids + 1, Here.own)

Outcomes ==
  IF \E i \in Held : i.own = Here.own THEN {live}
  ELSE {(live \ Held) \cup {Made}}
       \cup (IF Held = {} THEN {}
             ELSE {(live \ Held) \cup {[i EXCEPT !.own = Here.own] : i \in Held}})

Applying ==
  /\ live' \in Outcomes
  /\ LET i == CHOOSE i \in live' :
                i.key = ws.key /\ (i = Made \/ (Made \notin live' /\ i.id = Here.tfstate.id))
     IN  /\ dir' = [dir EXCEPT ![ws.key].tfstate = Noted(i.id, i.own)]
         /\ ids' = IF i = Made THEN ids + 1 ELSE ids

RunApply(k) ==
  /\ pc[k] = "apply" /\ at[k] = "run"
  /\ Applying
  /\ seen' = [seen EXCEPT ![k] = dir'[ws.key].tfstate]
  /\ Return(k, "save")
  /\ UNCHANGED <<recorded, history, faults>>

(* Mutant: a failed destroy removes the directory, too.                    *)
RunDeleteAlways(k) ==
  /\ pc[k] = "delete" /\ at[k] = "run"
  /\ live' \in {live \ Held, live}
  /\ dir' = [dir EXCEPT ![ws.key] = Absent]
  /\ seen' = [seen EXCEPT ![k] = Absent]
  /\ Return(k, "save")
  /\ UNCHANGED <<recorded, ids, history, faults>>

(* terraform destroy, and the directory is removed after its success.      *)
RunDelete(k) ==
  /\ pc[k] = "delete" /\ at[k] = "run"
  /\ live' = live \ Held
  /\ dir' = [dir EXCEPT ![ws.key] = Absent]
  /\ seen' = [seen EXCEPT ![k] = Absent]
  /\ Return(k, "save")
  /\ UNCHANGED <<recorded, ids, history, faults>>

(* Mutant: what was deleted stays recorded.                                *)
SaveKeeping(k) ==
  /\ pc[k] = "save"
  /\ pc' = [pc EXCEPT ![k] = "done"]
  /\ Record(k, IF spec[k] = Absent THEN recorded[k]
               ELSE [id |-> seen[k].id, own |-> seen[k].own, version |-> spec[k].version])
  /\ UNCHANGED <<live, dir, mode, spec, at, lock, seen, ids, history, commands, faults>>

Save(k) ==
  /\ pc[k] = "save"
  /\ pc' = [pc EXCEPT ![k] = "done"]
  /\ Record(k, IF spec[k] = Absent THEN Absent
               ELSE [id |-> seen[k].id, own |-> seen[k].own, version |-> spec[k].version])
  /\ UNCHANGED <<live, dir, mode, spec, at, lock, seen, ids, history, commands, faults>>

(* A call that fails, with a message, before terraform has done anything.  *)
ErrorBefore(k) ==
  /\ at[k] \in {"init", "reinit", "run"}
  /\ pc[k] # "delete"
  /\ Return(k, "failed")
  /\ UNCHANGED <<live, dir, ids>>

(* One that fails after it, since terraform does a part only, or since     *)
(* what kusion reads then cannot be read.  The Terraform state is kept.    *)
ErrorAfter(k) ==
  /\ at[k] = "run"
  /\ \/ /\ pc[k] = "read"
        /\ dir' = [dir EXCEPT ![ws.key].tfstate = Refreshed]
        /\ UNCHANGED <<live, ids>>
     \/ /\ pc[k] = "apply"
        /\ \A i \in Held : i.own # Here.own
        /\ live' = live \ Held
        /\ dir' = [dir EXCEPT ![ws.key].tfstate = Absent]
        /\ UNCHANGED ids
     \/ pc[k] = "apply" /\ Applying
  /\ Return(k, "failed")

(* A destroy that fails, or after which the directory cannot be removed,   *)
(* is logged with the planned resource, which is nil: the node panics,     *)
(* which counts as success, and saves nothing.                             *)
DestroyFails(k) ==
  /\ pc[k] = "delete" /\ at[k] = "run"
  /\ \/ UNCHANGED <<live, dir>>
     \/ /\ live' = live \ Held
        /\ \E l \in {0, Here.lock} :
             dir' = [dir EXCEPT ![ws.key].tfstate = Absent, ![ws.key].lock = l]
  /\ Return(k, "swallowed")
  /\ UNCHANGED ids

Error(k) ==
  /\ Fault("error")
  /\ ErrorBefore(k) \/ ErrorAfter(k) \/ DestroyFails(k)
  /\ UNCHANGED <<recorded, seen, history>>

(* A command that is killed has no error in its output, for which TFError  *)
(* returns no error: a read finds nothing, a plan is nil and makes the node*)
(* panic, which counts as success, an apply returns a resource without     *)
(* attributes, and a destroy has succeeded.                                *)
Killed(k) ==
  /\ at[k] = "run"
  /\ Fault("kill")
  /\ silent' = silent \cup {k}
  /\ CASE pc[k] = "read" ->
            /\ seen' = [seen EXCEPT ![k] = Absent]
            /\ Return(k, AfterRead(k, Absent))
            /\ UNCHANGED <<live, dir, ids, excused>>
       [] pc[k] = "plan" ->
            /\ Return(k, "done")
            /\ UNCHANGED <<live, dir, seen, ids, excused>>
       [] pc[k] = "apply" ->
            /\ live' \in Outcomes \cup {live}
            /\ ids' = IF Made \in live' THEN ids + 1 ELSE ids
            /\ excused' = excused \cup {ws.key}
            /\ seen' = [seen EXCEPT ![k] = Empty]
            /\ Return(k, "save")
            /\ UNCHANGED dir
       [] pc[k] = "delete" ->
            /\ dir' = [dir EXCEPT ![ws.key] = Absent]
            /\ excused' = excused \cup {ws.key}
            /\ seen' = [seen EXCEPT ![k] = Absent]
            /\ live' \in {live, live \ Held}
            /\ Return(k, "save")
            /\ UNCHANGED ids
  /\ UNCHANGED recorded

Succeeded(k) == pc[k] \in {"done", "swallowed"}

Walked == mode # "idle" /\ \A k \in Keys : pc[k] \in {"out", "failed"} \/ Succeeded(k)

Reset ==
  /\ mode' = "idle"
  /\ pc' = [k \in Keys |-> "out"]
  /\ at' = [k \in Keys |-> "out"]
  /\ mu' = Absent
  /\ UNCHANGED <<live, recorded, spec, ws, seen, ids, silent, commands>>

End == Walked /\ Reset /\ UNCHANGED <<dir, excused, faults>>

(* kusion ends between two steps.                                          *)
Crash ==
  /\ mode # "idle"
  /\ Fault("crash")
  /\ Reset
  /\ UNCHANGED <<dir, excused>>

(* Somebody cleans the stack or goes on in another copy of it.             *)
Lose(k) ==
  /\ mode = "idle"
  /\ dir[k] # Absent
  /\ Fault("lose")
  /\ dir' = [dir EXCEPT ![k] = Absent]
  /\ excused' = excused \cup
       {i.key : i \in {i \in Of(k) : recorded[k] = Absent \/ recorded[k].id # i.id}}
  /\ UNCHANGED <<live, recorded, mode, spec, node, lock, ids, silent, commands>>

Step(k) ==
  \/ ReadNothing(k) \/ Acquire(k) \/ WriteHCL(k) \/ InitWorkSpace(k) \/ WriteTFState(k)
  \/ CleanAndInit(k) \/ RunRead(k) \/ RunPlan(k) \/ RunApply(k) \/ RunDelete(k) \/ Save(k)

Rest == mode = "idle" /\ UNCHANGED vars

Next ==
  \/ \E s \in Specs : Command(s)
  \/ \E k \in Keys : Step(k) \/ Error(k) \/ Killed(k) \/ Lose(k)
  \/ End \/ Crash \/ Rest

Spec == Init /\ [][Next]_vars
FairSpec == Spec /\ (\A k \in Keys : WF_vars(Step(k))) /\ WF_vars(End)

-----------------------------------------------------------------------------
(* One node is in a call, the one that has the mutex, and what it works on *)
(* is its own directory.                                                   *)
TypeOK ==
  /\ \A i, j \in live : i.key \in Keys /\ i.id \in 1..ids /\ (i.id = j.id => i = j)
  /\ \A k \in Keys :
       /\ at[k] \in {"out", "hcl", "init", "reinit", "state", "version", "run"}
       /\ at[k] # "out" => mu = k /\ ws.key = k
       /\ at[k] # "out" => pc[k] \in Calls
       /\ pc[k] \in Calls \cup {"out", "save", "done", "swallowed", "failed"}
       /\ at[k] \in {"init", "reinit", "state", "version"} => dir[k] # Absent
  /\ mode \in {"idle", "preview", "operation"}

(* Every instance can be found again: kusion has recorded it, or it is in  *)
(* the Terraform state of its directory, also after a crash or an error.   *)
(* What loses it is in excused: a killed command, a lost directory, and    *)
(* the record of an instance that has been replaced.                       *)
EveryInstanceIsKnown ==
  \A i \in live :
    i.key \notin excused =>
      \/ recorded[i.key] # Absent /\ recorded[i.key].id = i.id
      \/ dir[i.key] # Absent /\ dir[i.key].tfstate # Absent /\ dir[i.key].tfstate.id = i.id

(* A resource has one instance, whatever nodes work in parallel and where- *)
(* ever the operation before has ended.                                    *)
OneInstance == \A k \in Keys \ excused : Cardinality(Of(k)) <= 1

Applied(k) ==
  IF spec[k] = Absent THEN Of(k) = {} /\ recorded[k] = Absent
  ELSE \E i \in Of(k) : /\ i.own = spec[k].own
                        /\ recorded[k] # Absent /\ recorded[k].id = i.id

(* A node that succeeds has done what the spec says, and the record is of  *)
(* the instance that does it; its attributes may be those before a crash.  *)
(* Not so where a terraform was killed, and where a destroy failed: then   *)
(* the panic over the nil resource that resource_node.go:217 logs, and     *)
(* apply.go:139 recovers, counts as success.  What was to be destroyed is  *)
(* still recorded, for the next command to delete.                         *)
SuccessIsApplied ==
  mode = "operation" =>
    \A k \in Keys : Succeeded(k) =>
      \/ Applied(k)
      \/ k \in excused \cup silent
      \/ pc[k] = "swallowed" /\ spec[k] = Absent /\ recorded[k] # Absent

(* tferrors.go:95: "return error with given infos".                        *)
FailuresAreErrors ==
  mode = "operation" => \A k \in Keys : Succeeded(k) => Applied(k)

(* Terraform changes an instance with the version of the provider that its *)
(* resource asks for, although the directory may be locked to another.     *)
VersionAgrees ==
  \A k \in Keys :
    at[k] = "run" /\ pc[k] \in {"plan", "apply"} => dir[k].lock = spec[k].version

(* One node at a time works, in its own directory, with its own version.   *)
CallsGuarded == TypeOK /\ VersionAgrees

(* No instance is lost or doubled.                                         *)
InstancesTracked == EveryInstanceIsKnown /\ OneInstance

(* No node waits for the mutex for ever.                                   *)
CommandEnds == mode # "idle" ~> mode = "idle"

-----------------------------------------------------------------------------
(* Why they hold.  Once a node has read, the Terraform state is the one    *)
(* that knows the instance, so that nothing is made twice; what is in a    *)
(* directory agrees with the workspace while the mutex is held; and a node *)
(* that plans or saves knows the instance by the id that is recorded.      *)
DataInv ==
  /\ live \subseteq [key : Keys, id : Nat, own : Nat]
  /\ ids \in Nat
  /\ dir \in [Keys -> {Absent} \cup Directories]
  /\ recorded \in [Keys -> {Absent} \cup Records]
  /\ spec \in [Keys -> {Absent} \cup Wanteds]
  /\ seen \in [Keys -> {Absent} \cup Notes]
  /\ ws \in [key : Keys \cup {Absent}, own : Nat, version : Nat]
  /\ pc \in [Keys -> Calls \cup {"out", "save", "done", "swallowed", "failed"}]
  /\ at \in [Keys -> {"out", "hcl", "init", "reinit", "state", "version", "run"}]
  /\ mode = "idle" => \A k \in Keys : pc[k] = "out"

CallInv(k) ==
  /\ pc[k] = "read" => spec[k] # Absent \/ recorded[k] # Absent
  /\ pc[k] = "read" /\ at[k] # "out" => recorded[k] # Absent
  /\ pc[k] \in {"plan", "apply"} => spec[k] # Absent
  /\ pc[k] = "delete" =>
       spec[k] = Absent /\ recorded[k] # Absent /\ dir[k] # Absent /\ at[k] \in {"out", "run"}
  /\ pc[k] = "swallowed" => spec[k] = Absent /\ recorded[k] # Absent
  /\ pc[k] = "save" /\ spec[k] # Absent => seen[k] # Absent
  /\ at[k] = "run" => dir[k] # Absent
  /\ at[k] = "state" => pc[k] = "read"
  /\ at[k] # "out" /\ spec[k] # Absent => ws.own = spec[k].own /\ ws.version = spec[k].version
  /\ at[k] \in {"init", "reinit", "state", "version"} =>
       dir[k].own = ws.own /\ dir[k].version = ws.version
  /\ at[k] = "run" /\ pc[k] \in {"plan", "apply"} =>
       dir[k].own = spec[k].own /\ dir[k].lock = spec[k].version
  /\ pc[k] = "read" /\ at[k] \in {"version", "reinit", "run"} =>
       dir[k].tfstate = Noted(recorded[k].id, recorded[k].own)

InState(i) ==
  dir[i.key] # Absent /\ dir[i.key].tfstate # Absent /\ dir[i.key].tfstate.id = i.id

InstanceInv(k) ==
  k \notin excused =>
    /\ \A i, j \in Of(k) : i = j
    /\ \A i \in Of(k) : InState(i) \/ (recorded[k] # Absent /\ recorded[k].id = i.id)
    /\ pc[k] \in {"plan", "apply", "delete", "save"} => \A i \in Of(k) : InState(i)

SuccessInv(k) ==
  k \notin excused \cup silent =>
    /\ pc[k] = "plan" /\ seen[k] # Absent =>
         /\ recorded[k] # Absent
         /\ \E i \in Of(k) : i.own = seen[k].own /\ i.id = recorded[k].id
    /\ pc[k] = "save" =>
         IF spec[k] = Absent THEN Of(k) = {}
         ELSE \E i \in Of(k) : i.own = spec[k].own /\ i.id = seen[k].id
    /\ mode = "operation" /\ pc[k] = "done" => Applied(k)

TerraformInv ==
  /\ TypeOK /\ DataInv
  /\ \A k \in Keys : CallInv(k) /\ InstanceInv(k) /\ SuccessInv(k)

=============================================================================
