-------------------------- MODULE Terraform_proofs --------------------------
(***************************************************************************)
(* The Terraform runtime, for any resources, specs, faults and bounds: one *)
(* node at a time uses the workspace, no instance is lost or made twice,   *)
(* and a node that succeeds has done what its spec says.                   *)
(***************************************************************************)
EXTENDS Terraform, FiniteSetTheorems, TLAPS

USE SpecsAssumption

(* Nothing is there at the start. *)
LEMMA InitInv == Init => TerraformInv
<1> SUFFICES ASSUME Init PROVE TerraformInv
  OBVIOUS
<1>1. TypeOK
  BY DEF Init, TypeOK, Calls
<1>2. DataInv
  BY DEF Init, DataInv, Calls
<1>3. ASSUME NEW k \in Keys PROVE CallInv(k) /\ InstanceInv(k) /\ SuccessInv(k)
  BY DEF Init, CallInv, InstanceInv, SuccessInv, Of
<1> QED BY <1>1, <1>2, <1>3 DEF TerraformInv

(* What a node does not touch stays as it was for the others: who is in a  *)
(* call has the mutex.                                                     *)
LEMMA Others ==
  ASSUME TerraformInv, NEW k \in Keys,
         at[k] # "out" \/ mu = Absent \/ ws' = ws,
         spec' = spec, mode' = mode, excused \subseteq excused', silent \subseteq silent',
         \A j \in Keys \ {k} :
           /\ dir'[j] = dir[j] /\ recorded'[j] = recorded[j] /\ pc'[j] = pc[j]
           /\ at'[j] = at[j] /\ seen'[j] = seen[j] /\ Of(j)' = Of(j),
         TypeOK', DataInv', CallInv(k)', InstanceInv(k)', SuccessInv(k)'
  PROVE  TerraformInv'
<1>1. ASSUME NEW j \in Keys \ {k} PROVE CallInv(j)' /\ InstanceInv(j)' /\ SuccessInv(j)'
  <2>1. at[j] # "out" => ws' = ws
    BY AbsentAssumption DEF TerraformInv, TypeOK
  <2>2. CallInv(j)'
    <3>1. CallInv(j)
      BY DEF TerraformInv
    <3> QED BY <2>1, <3>1 DEF CallInv
  <2>3. \A i \in Of(j) : InState(i)' = InState(i)
    BY DEF Of, InState
  <2>4. InstanceInv(j)'
    <3>1. InstanceInv(j)
      BY DEF TerraformInv
    <3> QED BY <2>3, <3>1 DEF InstanceInv
  <2>5. SuccessInv(j)'
    <3>1. SuccessInv(j)
      BY DEF TerraformInv
    <3> QED BY <3>1 DEF SuccessInv, Applied
  <2> QED BY <2>2, <2>4, <2>5
<1> QED BY <1>1 DEF TerraformInv

(* A node that has read: what it does next, and with what. *)
LEMMA AfterReadFact ==
  ASSUME NEW k \in Keys, NEW r, spec[k] # Absent \/ recorded[k] # Absent
  PROVE  /\ AfterRead(k, r) \in {"done", "delete", "apply", "plan"}
         /\ AfterRead(k, r) = "done" => mode = "preview"
         /\ AfterRead(k, r) = "delete" => spec[k] = Absent /\ recorded[k] # Absent
         /\ AfterRead(k, r) \in {"plan", "apply"} => spec[k] # Absent
         /\ AfterRead(k, r) = "plan" => recorded[k] # Absent \/ r # Absent
         /\ AfterRead(k, r) = "apply" => recorded[k] = Absent
BY DEF AfterRead

LEMMA ReadNothingStep ==
  ASSUME TerraformInv, NEW k \in Keys, ReadNothing(k) PROVE TerraformInv'
<1>0. TypeOK /\ DataInv /\ CallInv(k) /\ InstanceInv(k)
  BY DEF TerraformInv
<1>1. /\ pc[k] = "read" /\ recorded[k] = Absent /\ spec[k] # Absent /\ at[k] = "out"
      /\ pc' = [pc EXCEPT ![k] = AfterRead(k, Absent)]
      /\ UNCHANGED <<live, dir, recorded, mode, spec, at, mu, ws, seen, ids, excused, silent>>
  BY <1>0 DEF ReadNothing, lock, history, CallInv
<1>2. AfterRead(k, Absent) \in {"done", "apply"} /\ (AfterRead(k, Absent) = "done" => mode = "preview")
  BY <1>1, AfterReadFact DEF AfterRead
<1>3. pc'[k] = AfterRead(k, Absent) /\ \A j \in Keys \ {k} : pc'[j] = pc[j]
  BY <1>0, <1>1 DEF DataInv
<1>4. TypeOK'
  BY <1>0, <1>1, <1>2, <1>3 DEF TypeOK, Calls, DataInv
<1>5. DataInv'
  BY <1>0, <1>1, <1>2 DEF DataInv, Calls
<1>6. CallInv(k)'
  BY <1>0, <1>1, <1>2, <1>3 DEF CallInv
<1>7. InstanceInv(k)'
  BY <1>0, <1>1, <1>3 DEF InstanceInv, Of, InState
<1>8. SuccessInv(k)'
  BY <1>1, <1>2, <1>3 DEF SuccessInv
<1>9. \A j \in Keys : Of(j)' = Of(j)
  BY <1>1 DEF Of
<1> QED BY <1>1, <1>3, <1>4, <1>5, <1>6, <1>7, <1>8, <1>9, Others

LEMMA AcquireStep ==
  ASSUME TerraformInv, NEW k \in Keys, Acquire(k) PROVE TerraformInv'
<1>0. TypeOK /\ DataInv /\ CallInv(k) /\ InstanceInv(k) /\ SuccessInv(k)
  BY DEF TerraformInv
<1>1. /\ pc[k] \in Calls /\ at[k] = "out" /\ mu = Absent /\ mu' = k
      /\ pc[k] = "read" => recorded[k] # Absent
      /\ at' = [at EXCEPT ![k] = IF pc[k] = "delete" THEN "run" ELSE "hcl"]
      /\ UNCHANGED <<live, dir, recorded, mode, spec, pc, seen, ids, excused, silent>>
  BY DEF Acquire, history
<1>2. /\ ws'.key = k
      /\ spec[k] # Absent => ws'.own = spec[k].own /\ ws'.version = spec[k].version
      /\ ws' \in [key : Keys \cup {Absent}, own : Nat, version : Nat]
  <2>1. CASE spec[k] = Absent
    <3>1. recorded[k] \in Records
      BY <1>0, <1>1, <2>1 DEF CallInv, DataInv, Calls
    <3>2. ws' = [key |-> k, own |-> 0, version |-> recorded[k].version]
      BY <2>1 DEF Acquire
    <3> QED BY <2>1, <3>1, <3>2 DEF Records
  <2>2. CASE spec[k] # Absent
    <3>1. spec[k] \in Wanteds
      BY <1>0, <2>2 DEF DataInv
    <3>2. ws' = [key |-> k, own |-> spec[k].own, version |-> spec[k].version]
      BY <2>2 DEF Acquire
    <3> QED BY <3>1, <3>2 DEF Wanteds
  <2> QED BY <2>1, <2>2
<1>3. /\ at'[k] = IF pc[k] = "delete" THEN "run" ELSE "hcl"
      /\ \A j \in Keys \ {k} : at'[j] = at[j] /\ at[j] = "out"
  BY <1>0, <1>1, AbsentAssumption DEF DataInv, TypeOK
<1>4. TypeOK'
  BY <1>0, <1>1, <1>2, <1>3 DEF TypeOK
<1>5. DataInv'
  BY <1>0, <1>1, <1>2 DEF DataInv
<1>6. CallInv(k)'
  BY <1>0, <1>1, <1>2, <1>3 DEF CallInv
<1>7. InstanceInv(k)'
  BY <1>0, <1>1 DEF InstanceInv, Of, InState
<1>8. SuccessInv(k)'
  BY <1>0, <1>1 DEF SuccessInv, Of, Applied
<1>9. \A j \in Keys : Of(j)' = Of(j)
  BY <1>1 DEF Of
<1> QED BY <1>1, <1>3, <1>4, <1>5, <1>6, <1>7, <1>8, <1>9, Others

(* A change of the directory within a call, before terraform runs. *)
LEMMA DirectoryStep ==
  ASSUME TerraformInv, NEW k \in Keys, at[k] # "out", NEW new \in Directories,
         NEW next \in {"init", "reinit", "state", "version", "run"},
         dir' = [dir EXCEPT ![k] = new], at' = [at EXCEPT ![k] = next],
         UNCHANGED <<live, recorded, mode, spec, pc, lock, seen, ids, silent>>,
         excused \subseteq excused', CallInv(k)', InstanceInv(k)'
  PROVE  TerraformInv'
<1>0. TypeOK /\ DataInv /\ SuccessInv(k)
  BY DEF TerraformInv
<1>1. /\ dir'[k] = new /\ at'[k] = next
      /\ \A j \in Keys \ {k} : dir'[j] = dir[j] /\ at'[j] = at[j]
  BY <1>0 DEF DataInv
<1>2. TypeOK'
  BY <1>0, <1>1, AbsentAssumption DEF TypeOK, lock
<1>3. DataInv'
  BY <1>0 DEF DataInv, lock
<1>4. SuccessInv(k)'
  BY <1>0 DEF SuccessInv, Of, Applied
<1>5. \A j \in Keys : Of(j)' = Of(j)
  BY DEF Of
<1> QED BY <1>1, <1>2, <1>3, <1>4, <1>5, Others

LEMMA WriteHCLStep ==
  ASSUME TerraformInv, NEW k \in Keys, WriteHCL(k) PROVE TerraformInv'
<1>0. TypeOK /\ DataInv /\ CallInv(k) /\ InstanceInv(k)
  BY DEF TerraformInv
<1>1. /\ at[k] = "hcl" /\ ws.key = k /\ pc[k] \in Calls \ {"delete"}
      /\ ws.own \in Nat /\ ws.version \in Nat
      /\ UNCHANGED <<live, recorded, mode, spec, pc, mu, ws, seen, ids, excused, silent>>
  BY <1>0 DEF WriteHCL, Work, lock, history, TypeOK, DataInv, CallInv
<1> DEFINE d == IF dir[k] = Absent THEN Fresh ELSE dir[k]
           new == [d EXCEPT !.own = ws.own, !.version = ws.version]
           next == IF d.lock = 0 THEN "init" ELSE AfterInit(k)
<1>2. d \in Directories /\ (dir[k] = Absent => d.tfstate = Absent)
  BY <1>0 DEF DataInv, Fresh, Directories
<1>3. /\ new \in Directories /\ new.own = ws.own /\ new.version = ws.version
      /\ new.tfstate = d.tfstate
  BY <1>1, <1>2 DEF Directories
<1>4. dir' = [dir EXCEPT ![k] = new] /\ at' = [at EXCEPT ![k] = next]
  BY <1>1 DEF WriteHCL
<1>5. next \in {"init", "state", "version"} /\ (next = "state" => pc[k] = "read")
      /\ (next = "version" => pc[k] # "read")
  BY DEF AfterInit
<1> HIDE DEF d, new, next
<1>6. dir'[k] = new /\ at'[k] = next
  BY <1>0, <1>4 DEF DataInv
<1>7. CallInv(k)'
  BY <1>0, <1>1, <1>3, <1>5, <1>6 DEF CallInv, Calls
<1>8. \A i \in Of(k) : InState(i) => InState(i)'
  <2>1. dir[k] # Absent => d = dir[k]
    BY DEF d
  <2> QED BY <1>3, <1>6, <2>1, AbsentAssumption DEF Of, InState
<1>9. InstanceInv(k)'
  BY <1>0, <1>1, <1>8 DEF InstanceInv, Of
<1> QED BY <1>1, <1>3, <1>4, <1>5, <1>7, <1>9, DirectoryStep DEF lock

LEMMA InitWorkSpaceStep ==
  ASSUME TerraformInv, NEW k \in Keys, InitWorkSpace(k) PROVE TerraformInv'
<1>0. TypeOK /\ DataInv /\ CallInv(k) /\ InstanceInv(k)
  BY DEF TerraformInv
<1>1. /\ at[k] \in {"init", "reinit"} /\ ws.key = k /\ pc[k] \in Calls \ {"delete"}
      /\ dir[k] \in Directories
      /\ UNCHANGED <<live, recorded, mode, spec, pc, mu, ws, seen, ids, excused, silent>>
  BY <1>0 DEF InitWorkSpace, Work, lock, history, TypeOK, DataInv, CallInv
<1> DEFINE new == [dir[k] EXCEPT !.lock = dir[k].version]
           next == IF at[k] = "init" THEN AfterInit(k) ELSE "run"
<1>3. /\ new \in Directories /\ new.own = dir[k].own /\ new.version = dir[k].version
      /\ new.tfstate = dir[k].tfstate /\ new.lock = dir[k].version
  BY <1>1 DEF Directories
<1>4. dir' = [dir EXCEPT ![k] = new] /\ at' = [at EXCEPT ![k] = next]
  BY <1>0, <1>1 DEF InitWorkSpace, DataInv
<1>5. /\ next \in {"run", "state", "version"} /\ (next = "state" => pc[k] = "read")
      /\ (next = "version" => pc[k] # "read") /\ (next = "run" => at[k] = "reinit")
  BY <1>1 DEF AfterInit
<1> HIDE DEF new, next
<1>6. dir'[k] = new /\ at'[k] = next
  BY <1>0, <1>4 DEF DataInv
<1>7. CallInv(k)'
  BY <1>0, <1>1, <1>3, <1>5, <1>6, AbsentAssumption DEF CallInv, Calls
<1>8. \A i \in Of(k) : InState(i) => InState(i)'
  BY <1>3, <1>6, AbsentAssumption DEF Of, InState
<1>9. InstanceInv(k)'
  BY <1>0, <1>1, <1>8 DEF InstanceInv, Of
<1> QED BY <1>1, <1>3, <1>4, <1>5, <1>7, <1>9, DirectoryStep DEF lock

(* The instance that the Terraform state had and kusion has not recorded   *)
(* is excused, so that the one that is recorded is in the state now.       *)
LEMMA WriteTFStateStep ==
  ASSUME TerraformInv, NEW k \in Keys, WriteTFState(k) PROVE TerraformInv'
<1>0. TypeOK /\ DataInv /\ CallInv(k) /\ InstanceInv(k)
  BY DEF TerraformInv
<1>1. /\ at[k] = "state" /\ ws.key = k /\ pc[k] = "read" /\ recorded[k] \in Records
      /\ dir[k] \in Directories
      /\ UNCHANGED <<live, recorded, mode, spec, pc, mu, ws, seen, ids, silent>>
  BY <1>0 DEF WriteTFState, lock, TypeOK, DataInv, CallInv
<1> DEFINE note == Noted(recorded[k].id, recorded[k].own)
           new == [dir[k] EXCEPT !.tfstate = note]
<1>2. note \in Notes /\ note # Absent /\ note.id = recorded[k].id
  BY <1>1, AbsentAssumption DEF Noted, Notes, Records
<1>3. /\ new \in Directories /\ new.own = dir[k].own /\ new.version = dir[k].version
      /\ new.tfstate = note /\ new # Absent
  BY <1>1, <1>2, AbsentAssumption DEF Directories
<1>4. dir' = [dir EXCEPT ![k] = new] /\ at' = [at EXCEPT ![k] = "version"]
  BY <1>1 DEF WriteTFState
<1>5. dir'[k] = new /\ at'[k] = "version"
  BY <1>0, <1>4 DEF DataInv
<1>6. CallInv(k)'
  BY <1>0, <1>1, <1>3, <1>5 DEF CallInv
<1>7. /\ excused \subseteq excused'
      /\ \A i \in Of(k) : k \in excused' \/ ~(dir[k].tfstate # Absent
                                    /\ i.id = dir[k].tfstate.id /\ i.id # recorded[k].id)
  BY <1>1 DEF WriteTFState, Of
<1>8. InstanceInv(k)'
  <2> SUFFICES ASSUME k \notin excused' PROVE InstanceInv(k)'
    BY DEF InstanceInv
  <2>1. \A i \in Of(k) : i.id = recorded[k].id /\ i.key = k
    BY <1>0, <1>7 DEF InstanceInv, InState, Of
  <2>2. \A i \in Of(k) : InState(i)'
    BY <1>2, <1>3, <1>5, <2>1 DEF InState
  <2> QED BY <1>0, <1>1, <1>7, <2>2 DEF InstanceInv, Of
<1> QED BY <1>1, <1>3, <1>4, <1>6, <1>7, <1>8, DirectoryStep DEF lock

LEMMA CleanAndInitStep ==
  ASSUME TerraformInv, NEW k \in Keys, CleanAndInit(k) PROVE TerraformInv'
<1>0. TypeOK /\ DataInv /\ CallInv(k) /\ InstanceInv(k)
  BY DEF TerraformInv
<1>1. /\ at[k] = "version" /\ ws.key = k /\ pc[k] \in Calls \ {"delete"}
      /\ dir[k] \in Directories
      /\ UNCHANGED <<live, recorded, mode, spec, pc, mu, ws, seen, ids, excused, silent>>
  BY <1>0 DEF CleanAndInit, Work, lock, history, TypeOK, DataInv, CallInv
<1>2. CASE dir[k].lock = ws.version
  <2>1. at' = [at EXCEPT ![k] = "run"] /\ dir' = [dir EXCEPT ![k] = dir[k]]
    BY <1>0, <1>1, <1>2 DEF CleanAndInit, DataInv
  <2>2. dir' = dir /\ at'[k] = "run"
    BY <1>0, <2>1 DEF DataInv
  <2>3. CallInv(k)'
    BY <1>0, <1>1, <1>2, <2>2, AbsentAssumption DEF CallInv, Calls
  <2>4. InstanceInv(k)'
    BY <1>0, <1>1, <2>2 DEF InstanceInv, Of, InState
  <2> QED BY <1>1, <2>1, <2>3, <2>4, DirectoryStep DEF lock
<1>3. CASE dir[k].lock # ws.version
  <2> DEFINE new == [dir[k] EXCEPT !.lock = 0]
  <2>1. /\ new \in Directories /\ new.own = dir[k].own /\ new.version = dir[k].version
        /\ new.tfstate = dir[k].tfstate /\ new # Absent
    BY <1>1, AbsentAssumption DEF Directories
  <2>2. at' = [at EXCEPT ![k] = "reinit"] /\ dir' = [dir EXCEPT ![k] = new]
    BY <1>0, <1>1, <1>3 DEF CleanAndInit, DataInv
  <2> HIDE DEF new
  <2>3. dir'[k] = new /\ at'[k] = "reinit"
    BY <1>0, <2>2 DEF DataInv
  <2>4. CallInv(k)'
    BY <1>0, <1>1, <2>1, <2>3 DEF CallInv, Calls
  <2>5. \A i \in Of(k) : InState(i) => InState(i)'
    BY <2>1, <2>3 DEF Of, InState
  <2>6. InstanceInv(k)'
    BY <1>0, <1>1, <2>5 DEF InstanceInv, Of
  <2> QED BY <1>1, <2>1, <2>2, <2>4, <2>6, DirectoryStep DEF lock
<1> QED BY <1>2, <1>3

-----------------------------------------------------------------------------
(* A call that returns releases the mutex and changes its own resource only. *)
LEMMA ReturnStep ==
  ASSUME TerraformInv, NEW k \in Keys, at[k] = "run",
         NEW next \in {"plan", "apply", "delete", "save", "done", "swallowed", "failed"},
         Return(k, next),
         NEW new \in {Absent} \cup Directories, dir' = [dir EXCEPT ![k] = new],
         NEW note \in {Absent} \cup Notes, seen' = [seen EXCEPT ![k] = note],
         recorded' = recorded, excused \subseteq excused', silent \subseteq silent',
         live' \subseteq [key : Keys, id : Nat, own : Nat], ids' \in Nat,
         \A i, j \in live' : i.id \in 1..ids' /\ (i.id = j.id => i = j),
         \A j \in Keys \ {k} : Of(j)' = Of(j),
         next \in {"plan", "apply"} => spec[k] # Absent,
         next = "delete" => spec[k] = Absent /\ recorded[k] # Absent /\ new # Absent,
         next = "save" /\ spec[k] # Absent => note # Absent,
         next = "swallowed" => spec[k] = Absent /\ recorded[k] # Absent,
         InstanceInv(k)', SuccessInv(k)'
  PROVE  TerraformInv'
<1>0. TypeOK /\ DataInv
  BY DEF TerraformInv
<1>1. /\ pc' = [pc EXCEPT ![k] = next] /\ at' = [at EXCEPT ![k] = "out"] /\ mu' = Absent
      /\ UNCHANGED <<mode, spec, ws>>
  BY DEF Return
<1>2. /\ pc'[k] = next /\ at'[k] = "out" /\ dir'[k] = new /\ seen'[k] = note
      /\ \A j \in Keys \ {k} : /\ pc'[j] = pc[j] /\ at'[j] = at[j] /\ dir'[j] = dir[j]
                               /\ seen'[j] = seen[j]
  BY <1>0, <1>1 DEF DataInv
<1>3. \A j \in Keys : at'[j] = "out"
  BY <1>0, <1>2 DEF TypeOK
<1>4. TypeOK'
  <2>1. \A j \in Keys : pc'[j] \in Calls \cup {"out", "save", "done", "swallowed", "failed"}
    BY <1>0, <1>2 DEF TypeOK, Calls
  <2>2. \A i \in live' : i.key \in Keys
    OBVIOUS
  <2>3. mode' \in {"idle", "preview", "operation"}
    BY <1>0, <1>1 DEF TypeOK
  <2> QED BY <1>3, <2>1, <2>2, <2>3 DEF TypeOK
<1>5. DataInv'
  <2>1. mode' # "idle"
    BY <1>0, <1>1 DEF TypeOK, DataInv, Calls
  <2> QED BY <1>0, <1>1, <2>1 DEF DataInv, Calls
<1>6. CallInv(k)'
  BY <1>1, <1>2 DEF CallInv
<1> QED BY <1>1, <1>2, <1>4, <1>5, <1>6, Others

(* What is known of a resource when terraform runs for it. *)
LEMMA Running ==
  ASSUME TerraformInv, NEW k \in Keys, at[k] = "run"
  PROVE  /\ ws.key = k /\ dir[k] \in Directories /\ pc[k] \in Calls
         /\ Here = dir[k]
         /\ Held = {i \in Of(k) : InState(i)}
         /\ Held \subseteq live
         /\ \A i \in Held : i.key = k /\ i.id \in Nat /\ i.own \in Nat /\ i.id = dir[k].tfstate.id
<1>0. TypeOK /\ DataInv /\ CallInv(k)
  BY DEF TerraformInv
<1>1. ws.key = k /\ dir[k] \in Directories /\ pc[k] \in Calls
  BY <1>0 DEF TypeOK, DataInv, CallInv
<1>2. dir[k] # Absent
  BY <1>1, AbsentAssumption
<1>3. Here = dir[k] /\ Held = {i \in Of(k) : InState(i)}
  BY <1>1, <1>2 DEF Here, Held, Of, InState
<1>4. \A i \in Held : i \in live /\ i.key = k /\ i.id = dir[k].tfstate.id
  BY <1>3 DEF Of, InState
<1> QED BY <1>0, <1>1, <1>3, <1>4 DEF DataInv

(* What is read of an instance is what the Terraform state then has.       *)
LEMMA RefreshedFact ==
  ASSUME TerraformInv, NEW k \in Keys, at[k] = "run"
  PROVE  /\ Refreshed \in {Absent} \cup Notes
         /\ Refreshed # Absent => \E i \in Held : Refreshed.id = i.id /\ Refreshed.own = i.own
         /\ Held # {} => Refreshed # Absent
<1>1. \A i \in Held : i.id \in Nat /\ i.own \in Nat
  BY Running
<1>2. /\ Held = {} => Refreshed = Absent
      /\ Held # {} => \E i \in Held : Refreshed = Noted(i.id, i.own)
  BY DEF Refreshed
<1> QED BY <1>1, <1>2, AbsentAssumption DEF Noted, Notes

LEMMA RunReadStep ==
  ASSUME TerraformInv, NEW k \in Keys, RunRead(k) PROVE TerraformInv'
<1>0. TypeOK /\ DataInv /\ CallInv(k) /\ InstanceInv(k)
  BY DEF TerraformInv
<1>1. /\ at[k] = "run" /\ pc[k] = "read" /\ recorded[k] # Absent
      /\ Return(k, AfterRead(k, Refreshed))
      /\ UNCHANGED <<live, recorded, ids, excused, silent, mode, spec>>
      /\ seen' = [seen EXCEPT ![k] = Refreshed]
  BY <1>0 DEF RunRead, CallInv, history, Return
<1>2. /\ ws.key = k /\ dir[k] \in Directories
      /\ Held = {i \in Of(k) : InState(i)}
      /\ \A i \in Held : i.id \in Nat /\ i.own \in Nat /\ i.id = dir[k].tfstate.id
  BY <1>1, Running
<1>3. recorded[k] \in Records /\ dir[k].tfstate = Noted(recorded[k].id, recorded[k].own)
  BY <1>0, <1>1 DEF DataInv, CallInv
<1>4. dir[k].tfstate.id = recorded[k].id /\ dir[k].tfstate \in Notes /\ dir[k].tfstate # Absent
  BY <1>3, AbsentAssumption DEF Noted, Notes, Records
<1>6. /\ Refreshed \in {Absent} \cup Notes
      /\ Refreshed # Absent => \E i \in Held : Refreshed.id = i.id /\ Refreshed.own = i.own
      /\ Held # {} => Refreshed # Absent
  BY <1>1, RefreshedFact
<1> DEFINE new == [dir[k] EXCEPT !.tfstate = Refreshed]
<1>7. new \in Directories /\ new # Absent /\ new.tfstate = Refreshed
  BY <1>2, <1>6, AbsentAssumption DEF Directories
<1>8. dir' = [dir EXCEPT ![k] = new]
  BY <1>2 DEF RunRead
<1> HIDE DEF new
<1>9. dir'[k] = new /\ seen'[k] = Refreshed /\ pc'[k] = AfterRead(k, Refreshed)
  BY <1>0, <1>1, <1>8 DEF DataInv, Return
<1>10. InstanceInv(k)'
  <2> SUFFICES ASSUME k \notin excused PROVE InstanceInv(k)'
    BY <1>1 DEF InstanceInv
  <2>1. \A i, j \in Of(k) : i = j
    BY <1>0 DEF InstanceInv
  <2>2. \A i \in Of(k) : i \in Held
    BY <1>0, <1>2, <1>4, AbsentAssumption DEF InstanceInv, InState, Of
  <2>3. \A i \in Of(k) : InState(i)'
    BY <1>2, <1>6, <1>7, <1>9, <2>1, <2>2 DEF InState, Of
  <2> QED BY <1>1, <2>1, <2>3 DEF InstanceInv, Of
<1>11. AfterRead(k, Refreshed) \in {"done", "delete", "apply", "plan"}
       /\ (AfterRead(k, Refreshed) = "done" => mode = "preview")
  BY <1>1, AfterReadFact
<1>12. SuccessInv(k)'
  <2>1. Refreshed # Absent => \E i \in Of(k) : i.own = Refreshed.own /\ i.id = recorded[k].id
    BY <1>2, <1>4, <1>6
  <2> QED BY <1>1, <1>9, <1>11, <2>1 DEF SuccessInv, Of
<1>13. /\ AfterRead(k, Refreshed) = "delete" => spec[k] = Absent
       /\ AfterRead(k, Refreshed) \in {"plan", "apply"} => spec[k] # Absent
  BY <1>1, AfterReadFact
<1>14. /\ live' \subseteq [key : Keys, id : Nat, own : Nat] /\ ids' \in Nat
       /\ \A i, j \in live' : i.id \in 1..ids' /\ (i.id = j.id => i = j)
       /\ \A j \in Keys \ {k} : Of(j)' = Of(j)
  BY <1>0, <1>1 DEF DataInv, TypeOK, Of
<1> QED BY <1>1, <1>6, <1>7, <1>8, <1>10, <1>11, <1>12, <1>13, <1>14, ReturnStep

LEMMA RunPlanStep ==
  ASSUME TerraformInv, NEW k \in Keys, RunPlan(k) PROVE TerraformInv'
<1>0. TypeOK /\ DataInv /\ CallInv(k) /\ InstanceInv(k) /\ SuccessInv(k)
  BY DEF TerraformInv
<1>1. /\ at[k] = "run" /\ pc[k] = "plan" /\ spec[k] # Absent
      /\ Return(k, AfterPlan(k))
      /\ UNCHANGED <<live, dir, recorded, seen, ids, excused, silent, mode, spec>>
  BY <1>0 DEF RunPlan, CallInv, history, Return
<1>2. dir[k] \in Directories
  BY <1>1, Running
<1>3. /\ dir' = [dir EXCEPT ![k] = dir[k]] /\ seen' = [seen EXCEPT ![k] = seen[k]]
      /\ pc'[k] = AfterPlan(k)
  BY <1>0, <1>1 DEF DataInv, Return
<1>4. AfterPlan(k) \in {"done", "apply"}
  BY DEF AfterPlan
<1>5. InstanceInv(k)'
  BY <1>0, <1>1 DEF InstanceInv, Of, InState
<1>6. SuccessInv(k)'
  <2> SUFFICES ASSUME k \notin excused \cup silent, mode = "operation", AfterPlan(k) = "done"
               PROVE  Applied(k)'
    BY <1>1, <1>3, <1>4 DEF SuccessInv
  <2>1. seen[k] # Absent /\ seen[k].own = spec[k].own
    BY DEF AfterPlan
  <2> QED BY <1>0, <1>1, <2>1 DEF SuccessInv, Applied, Of
<1>7. /\ live' \subseteq [key : Keys, id : Nat, own : Nat] /\ ids' \in Nat
      /\ \A i, j \in live' : i.id \in 1..ids' /\ (i.id = j.id => i = j)
      /\ \A j \in Keys \ {k} : Of(j)' = Of(j)
      /\ seen[k] \in {Absent} \cup Notes
  BY <1>0, <1>1 DEF DataInv, TypeOK, Of
<1> QED BY <1>1, <1>2, <1>3, <1>4, <1>5, <1>6, <1>7, ReturnStep

(* terraform apply: there is one instance that it leaves in its state, it  *)
(* has what the configuration says, and it is the only one if the state    *)
(* knew them all.                                                          *)
LEMMA OutcomeFact ==
  ASSUME TerraformInv, NEW k \in Keys, at[k] = "run", NEW after \in Outcomes
  PROVE  /\ after \subseteq [key : Keys, id : Nat, own : Nat]
         /\ \A i \in after : i.id \in 1..ids \/ i = Made
         /\ \A i, j \in after : i.id = j.id => i = j
         /\ \A j \in Keys \ {k} : {i \in after : i.key = j} = Of(j)
         /\ Made.id = ids + 1 /\ Made.own = dir[k].own /\ Made.key = k
         /\ \E x \in after :
              /\ x.key = k /\ x.own = dir[k].own
              /\ x = Made \/ (Made \notin after /\ x.id = dir[k].tfstate.id)
              /\ \A y \in after : y.key = k /\ (y = Made \/ (Made \notin after
                                                  /\ y.id = dir[k].tfstate.id)) => y = x
              /\ (\A i \in Of(k) : InState(i)) => {i \in after : i.key = k} = {x}
<1>0. TypeOK /\ DataInv
  BY DEF TerraformInv
<1>1. /\ ws.key = k /\ dir[k] \in Directories /\ Here = dir[k]
      /\ Held = {i \in Of(k) : InState(i)} /\ Held \subseteq live
      /\ \A i \in Held : i.key = k /\ i.id \in Nat /\ i.own \in Nat /\ i.id = dir[k].tfstate.id
  BY Running
<1>2. ids \in Nat /\ dir[k].own \in Nat
  BY <1>0, <1>1 DEF DataInv, Directories
<1>3. /\ Made = [key |-> k, id |-> ids + 1, own |-> dir[k].own]
      /\ Made \in [key : Keys, id : Nat, own : Nat]
      /\ Made.id = ids + 1 /\ Made.own = dir[k].own /\ Made.key = k
  BY <1>1, <1>2 DEF Made, Instance
<1>4. \A i, j \in live : i.id \in 1..ids /\ (i.id = j.id => i = j)
  BY <1>0 DEF TypeOK
<1>5. Made \notin live /\ \A i \in live : i.id # Made.id
  BY <1>2, <1>3, <1>4
<1>6. live \subseteq [key : Keys, id : Nat, own : Nat]
  BY <1>0 DEF DataInv
<1> HIDE DEF Made
<1>7. CASE after = live /\ \E i \in Held : i.own = dir[k].own
  <2>1. PICK x \in Held : x.own = dir[k].own
    BY <1>7
  <2>2. x \in after /\ x.key = k /\ x.id = dir[k].tfstate.id /\ Made \notin after
    BY <1>1, <1>5, <1>7, <2>1
  <2>3. \A y \in after : y.id = x.id => y = x
    BY <1>4, <1>7, <2>2
  <2>4. (\A i \in Of(k) : InState(i)) => {i \in after : i.key = k} = {x}
    BY <1>1, <1>7, <2>2, <2>3 DEF Of
  <2>5. \A j \in Keys \ {k} : {i \in after : i.key = j} = Of(j)
    BY <1>7 DEF Of
  <2> QED BY <1>3, <1>4, <1>6, <1>7, <2>1, <2>2, <2>3, <2>4, <2>5
<1>8. CASE after = (live \ Held) \cup {Made}
  <2>1. \A j \in Keys \ {k} : {i \in after : i.key = j} = Of(j)
    BY <1>1, <1>3, <1>8 DEF Of
  <2>2. (\A i \in Of(k) : InState(i)) => {i \in after : i.key = k} = {Made}
    BY <1>1, <1>3, <1>8 DEF Of
  <2>3. \A i, j \in after : i.id = j.id => i = j
    BY <1>4, <1>5, <1>8
  <2>4. Made \in after /\ after \subseteq [key : Keys, id : Nat, own : Nat]
    BY <1>3, <1>6, <1>8
  <2>5. \A i \in after : i.id \in 1..ids \/ i = Made
    BY <1>4, <1>8
  <2> QED BY <1>3, <2>1, <2>2, <2>3, <2>4, <2>5
<1>9. CASE /\ Held # {}
           /\ after = (live \ Held) \cup {[i EXCEPT !.own = dir[k].own] : i \in Held}
  <2>1. PICK h \in Held : TRUE
    BY <1>9
  <2>2. Held = {h} /\ h \in live /\ h.key = k /\ h.id = dir[k].tfstate.id /\ h.id \in 1..ids
    BY <1>1, <1>4, <2>1
  <2> DEFINE x == [h EXCEPT !.own = dir[k].own]
  <2>3. /\ x \in [key : Keys, id : Nat, own : Nat]
        /\ x.key = k /\ x.id = h.id /\ x.own = dir[k].own
    BY <1>2, <1>6, <2>2
  <2>4. after = (live \ {h}) \cup {x}
    BY <1>9, <2>2
  <2> HIDE DEF x
  <2>5. \A i \in live \ {h} : i.id # x.id
    BY <1>4, <2>2, <2>3
  <2>6. Made \notin after /\ after \subseteq [key : Keys, id : Nat, own : Nat]
    BY <1>2, <1>3, <1>5, <1>6, <2>2, <2>3, <2>4
  <2>7. \A i \in after : i.id \in 1..ids
    BY <1>4, <2>2, <2>3, <2>4
  <2>8. \A i, j \in after : i.id = j.id => i = j
    BY <1>4, <2>4, <2>5
  <2>9. \A j \in Keys \ {k} : {i \in after : i.key = j} = Of(j)
    BY <2>2, <2>3, <2>4 DEF Of
  <2>10. (\A i \in Of(k) : InState(i)) => {i \in after : i.key = k} = {x}
    BY <1>1, <2>2, <2>3, <2>4 DEF Of
  <2>11. x \in after /\ x.id = dir[k].tfstate.id
    BY <2>2, <2>3, <2>4
  <2>12. \A y \in after : y.key = k /\ (y = Made \/ y.id = dir[k].tfstate.id) => y = x
    BY <2>6, <2>8, <2>11
  <2> QED BY <1>3, <2>3, <2>6, <2>7, <2>8, <2>9, <2>10, <2>11, <2>12
<1> QED BY <1>1, <1>7, <1>8, <1>9 DEF Outcomes

(* After it the Terraform state has that instance. *)
LEMMA ApplyingFact ==
  ASSUME TerraformInv, NEW k \in Keys, at[k] = "run", Applying, UNCHANGED <<recorded, excused>>
  PROVE  /\ live' \subseteq [key : Keys, id : Nat, own : Nat]
         /\ ids' \in Nat /\ \A i, j \in live' : i.id \in 1..ids' /\ (i.id = j.id => i = j)
         /\ \A j \in Keys \ {k} : Of(j)' = Of(j)
         /\ \E x \in Of(k)', new \in Directories :
              /\ dir' = [dir EXCEPT ![k] = new] /\ dir'[k] = new
              /\ new # Absent /\ new.tfstate \in Notes /\ new.tfstate # Absent
              /\ new.tfstate.id = x.id /\ x.own = dir[k].own
              /\ (\A i \in Of(k) : InState(i)) => InstanceInv(k)'
<1>0. TypeOK /\ DataInv
  BY DEF TerraformInv
<1>2. ws.key = k /\ dir[k] \in Directories /\ Here = dir[k]
  BY Running
<1>3. /\ live' \subseteq [key : Keys, id : Nat, own : Nat]
      /\ \A i \in live' : i.id \in 1..ids \/ i = Made
      /\ \A i, j \in live' : i.id = j.id => i = j
      /\ \A j \in Keys \ {k} : {i \in live' : i.key = j} = Of(j)
      /\ Made.id = ids + 1
  BY OutcomeFact DEF Applying
<1>4. PICK x \in live' :
              /\ x.key = k /\ x.own = dir[k].own
              /\ x = Made \/ (Made \notin live' /\ x.id = dir[k].tfstate.id)
              /\ \A y \in live' : y.key = k /\ (y = Made \/ (Made \notin live'
                                                  /\ y.id = dir[k].tfstate.id)) => y = x
              /\ (\A i \in Of(k) : InState(i)) => {i \in live' : i.key = k} = {x}
  BY OutcomeFact DEF Applying
<1>5. x = CHOOSE i \in live' :
                i.key = ws.key /\ (i = Made \/ (Made \notin live' /\ i.id = Here.tfstate.id))
  BY <1>2, <1>4
<1>6. /\ dir' = [dir EXCEPT ![ws.key].tfstate = Noted(x.id, x.own)]
      /\ ids' = IF x = Made THEN ids + 1 ELSE ids
  BY <1>5 DEF Applying
<1> DEFINE note == Noted(x.id, x.own)
           new == [dir[k] EXCEPT !.tfstate = note]
<1>7. note \in Notes /\ note # Absent /\ note.id = x.id /\ note.own = x.own
  BY <1>3, <1>4, AbsentAssumption DEF Noted, Notes
<1>8. new \in Directories /\ new # Absent /\ new.tfstate = note
  BY <1>2, <1>7, AbsentAssumption DEF Directories
<1>9. dir' = [dir EXCEPT ![k] = new]
  BY <1>2, <1>6
<1> HIDE DEF note, new
<1>10. dir'[k] = new
  BY <1>0, <1>9 DEF DataInv
<1>11. \A j \in Keys \ {k} : Of(j)' = Of(j)
  BY <1>3 DEF Of
<1>12. ids' \in Nat /\ \A i, j \in live' : i.id \in 1..ids' /\ (i.id = j.id => i = j)
  <2>1. ids \in Nat
    BY <1>0 DEF DataInv
  <2>2. CASE x = Made
    BY <1>3, <1>6, <2>1, <2>2
  <2>3. CASE x # Made
    <3>1. Made \notin live'
      BY <1>4, <2>3
    <3> QED BY <1>3, <1>6, <2>1, <2>3, <3>1
  <2> QED BY <2>2, <2>3
<1>13. ASSUME \A i \in Of(k) : InState(i) PROVE InstanceInv(k)'
  <2>1. Of(k)' = {x}
    BY <1>4, <1>13 DEF Of
  <2>2. InState(x)'
    BY <1>4, <1>7, <1>8, <1>10 DEF InState
  <2> QED BY <2>1, <2>2 DEF InstanceInv
<1>14. x \in Of(k)'
  BY <1>4 DEF Of
<1> QED BY <1>3, <1>4, <1>7, <1>8, <1>9, <1>10, <1>11, <1>12, <1>13, <1>14

LEMMA RunApplyStep ==
  ASSUME TerraformInv, NEW k \in Keys, RunApply(k) PROVE TerraformInv'
<1>0. TypeOK /\ DataInv /\ CallInv(k) /\ InstanceInv(k)
  BY DEF TerraformInv
<1>1. /\ at[k] = "run" /\ pc[k] = "apply" /\ spec[k] # Absent /\ dir[k].own = spec[k].own
      /\ Return(k, "save") /\ Applying
      /\ UNCHANGED <<recorded, excused, silent, mode, spec>>
      /\ seen' = [seen EXCEPT ![k] = dir'[k].tfstate]
  BY <1>0, Running DEF RunApply, CallInv, history, Return
<1>2. /\ live' \subseteq [key : Keys, id : Nat, own : Nat]
      /\ ids' \in Nat /\ \A i, j \in live' : i.id \in 1..ids' /\ (i.id = j.id => i = j)
      /\ \A j \in Keys \ {k} : Of(j)' = Of(j)
  BY <1>1, ApplyingFact
<1>3. PICK x \in Of(k)', new \in Directories :
              /\ dir' = [dir EXCEPT ![k] = new] /\ dir'[k] = new
              /\ new # Absent /\ new.tfstate \in Notes /\ new.tfstate # Absent
              /\ new.tfstate.id = x.id /\ x.own = dir[k].own
              /\ (\A i \in Of(k) : InState(i)) => InstanceInv(k)'
  BY <1>1, ApplyingFact
<1>4. seen' = [seen EXCEPT ![k] = new.tfstate] /\ seen'[k] = new.tfstate /\ pc'[k] = "save"
  BY <1>0, <1>1, <1>3 DEF DataInv, Return
<1>5. InstanceInv(k)'
  BY <1>0, <1>1, <1>3 DEF InstanceInv
<1>6. SuccessInv(k)'
  BY <1>1, <1>3, <1>4 DEF SuccessInv
<1> QED BY <1>1, <1>2, <1>3, <1>4, <1>5, <1>6, ReturnStep

LEMMA RunDeleteStep ==
  ASSUME TerraformInv, NEW k \in Keys, RunDelete(k) PROVE TerraformInv'
<1>0. TypeOK /\ DataInv /\ CallInv(k) /\ InstanceInv(k) /\ SuccessInv(k)
  BY DEF TerraformInv
<1>1. /\ at[k] = "run" /\ pc[k] = "delete" /\ spec[k] = Absent
      /\ Return(k, "save")
      /\ UNCHANGED <<recorded, ids, excused, silent, mode, spec>>
      /\ live' = live \ Held /\ seen' = [seen EXCEPT ![k] = Absent]
  BY <1>0 DEF RunDelete, CallInv, history, Return
<1>2. /\ ws.key = k /\ Held = {i \in Of(k) : InState(i)}
  BY <1>1, Running
<1>3. dir' = [dir EXCEPT ![k] = Absent]
  BY <1>2 DEF RunDelete
<1>4. pc'[k] = "save"
  BY <1>0, <1>1 DEF DataInv, Return
<1>5. \A j \in Keys \ {k} : Of(j)' = Of(j)
  BY <1>1, <1>2 DEF Of
<1>6. k \notin excused => Of(k)' = {}
  BY <1>0, <1>1, <1>2 DEF InstanceInv, Of
<1>7. InstanceInv(k)' /\ SuccessInv(k)'
  BY <1>1, <1>4, <1>6 DEF InstanceInv, SuccessInv
<1>8. /\ live' \subseteq [key : Keys, id : Nat, own : Nat] /\ ids' \in Nat
      /\ \A i, j \in live' : i.id \in 1..ids' /\ (i.id = j.id => i = j)
  BY <1>0, <1>1 DEF DataInv, TypeOK
<1> QED BY <1>1, <1>3, <1>5, <1>7, <1>8, ReturnStep

LEMMA SaveStep ==
  ASSUME TerraformInv, NEW k \in Keys, Save(k) PROVE TerraformInv'
<1>0. TypeOK /\ DataInv /\ CallInv(k) /\ InstanceInv(k) /\ SuccessInv(k)
  BY DEF TerraformInv
<1> DEFINE r == IF spec[k] = Absent THEN Absent
                ELSE [id |-> seen[k].id, own |-> seen[k].own, version |-> spec[k].version]
<1>1. /\ pc[k] = "save" /\ pc' = [pc EXCEPT ![k] = "done"]
      /\ recorded' = [recorded EXCEPT ![k] = r]
      /\ UNCHANGED <<live, dir, mode, spec, at, mu, ws, seen, ids, excused, silent>>
  BY DEF Save, Record, lock, history
<1>2. /\ r \in {Absent} \cup Records
      /\ spec[k] # Absent => r # Absent /\ r.id = seen[k].id
  <2>1. CASE spec[k] # Absent
    <3>1. spec[k] \in Wanteds /\ seen[k] \in Notes
      BY <1>0, <1>1, <2>1 DEF DataInv, CallInv
    <3> QED BY <2>1, <3>1, AbsentAssumption DEF Wanteds, Notes, Records
  <2> QED BY <2>1
<1> HIDE DEF r
<1>3. /\ pc'[k] = "done" /\ recorded'[k] = r /\ at[k] = "out" /\ mode # "idle"
      /\ \A j \in Keys \ {k} : pc'[j] = pc[j] /\ recorded'[j] = recorded[j]
  BY <1>0, <1>1 DEF DataInv, TypeOK, Calls
<1>4. TypeOK'
  BY <1>0, <1>1, <1>3 DEF TypeOK, Calls
<1>5. DataInv'
  BY <1>0, <1>1, <1>2, <1>3 DEF DataInv
<1>6. CallInv(k)'
  BY <1>0, <1>1, <1>3 DEF CallInv
<1>7. InstanceInv(k)'
  BY <1>0, <1>1, <1>3 DEF InstanceInv, Of, InState
<1>8. SuccessInv(k)'
  <2> SUFFICES ASSUME k \notin excused \cup silent PROVE Applied(k)'
    BY <1>1, <1>3 DEF SuccessInv
  <2>1. IF spec[k] = Absent THEN Of(k) = {}
        ELSE \E i \in Of(k) : i.own = spec[k].own /\ i.id = seen[k].id
    BY <1>0, <1>1 DEF SuccessInv
  <2>2. Of(k)' = Of(k) /\ (spec[k] = Absent => r = Absent)
    BY <1>1 DEF Of, r
  <2> QED BY <1>1, <1>2, <1>3, <2>1, <2>2 DEF Applied
<1>9. \A j \in Keys : Of(j)' = Of(j)
  BY <1>1 DEF Of
<1> QED BY <1>1, <1>3, <1>4, <1>5, <1>6, <1>7, <1>8, <1>9, Others

LEMMA ErrorBeforeStep ==
  ASSUME TerraformInv, NEW k \in Keys, ErrorBefore(k), UNCHANGED <<recorded, seen, history>>
  PROVE  TerraformInv'
<1>0. TypeOK /\ DataInv /\ InstanceInv(k)
  BY DEF TerraformInv
<1>1. /\ at[k] \in {"init", "reinit", "run"}
      /\ pc' = [pc EXCEPT ![k] = "failed"] /\ at' = [at EXCEPT ![k] = "out"] /\ mu' = Absent
      /\ UNCHANGED <<live, dir, recorded, seen, ids, excused, silent, mode, spec, ws>>
  BY DEF ErrorBefore, Return, history
<1>2. /\ pc'[k] = "failed" /\ at'[k] = "out" /\ mode # "idle"
      /\ \A j \in Keys \ {k} : pc'[j] = pc[j] /\ at'[j] = at[j]
  BY <1>0, <1>1 DEF DataInv, TypeOK, Calls
<1>3. \A j \in Keys : at'[j] = "out"
  BY <1>0, <1>1, <1>2 DEF TypeOK
<1>4. TypeOK'
  BY <1>0, <1>1, <1>2, <1>3 DEF TypeOK
<1>5. DataInv'
  BY <1>0, <1>1, <1>2 DEF DataInv
<1>6. CallInv(k)' /\ SuccessInv(k)'
  BY <1>2 DEF CallInv, SuccessInv
<1>7. InstanceInv(k)'
  BY <1>0, <1>1, <1>2 DEF InstanceInv, Of, InState
<1>8. \A j \in Keys : Of(j)' = Of(j)
  BY <1>1 DEF Of
<1> QED BY <1>1, <1>2, <1>4, <1>5, <1>6, <1>7, <1>8, Others

(* A call that fails late leaves its instance in the Terraform state, or   *)
(* none.                                                                   *)
LEMMA ErrorAfterStep ==
  ASSUME TerraformInv, NEW k \in Keys, ErrorAfter(k), UNCHANGED <<recorded, seen, history>>
  PROVE  TerraformInv'
<1>0. TypeOK /\ DataInv /\ CallInv(k) /\ InstanceInv(k)
  BY DEF TerraformInv
<1>1. /\ at[k] = "run" /\ Return(k, "failed")
      /\ UNCHANGED <<recorded, excused, silent, mode, spec>>
      /\ seen' = [seen EXCEPT ![k] = seen[k]] /\ seen[k] \in {Absent} \cup Notes
  BY <1>0 DEF ErrorAfter, Return, history, DataInv
<1>2. /\ ws.key = k /\ dir[k] \in Directories /\ Here = dir[k]
      /\ Held = {i \in Of(k) : InState(i)}
      /\ \A i \in Held : i.id \in Nat /\ i.own \in Nat /\ i.id = dir[k].tfstate.id
  BY <1>1, Running
<1>3. pc'[k] = "failed"
  BY <1>0, <1>1 DEF DataInv, Return
<1>4. SuccessInv(k)'
  BY <1>3 DEF SuccessInv
<1>5. CASE pc[k] = "read" /\ dir' = [dir EXCEPT ![ws.key].tfstate = Refreshed]
           /\ UNCHANGED <<live, ids>>
  <2> DEFINE new == [dir[k] EXCEPT !.tfstate = Refreshed]
  <2>1. /\ Refreshed \in {Absent} \cup Notes
        /\ Refreshed # Absent => \E i \in Held : Refreshed.id = i.id
        /\ Held # {} => Refreshed # Absent
    BY <1>1, RefreshedFact
  <2>2. new \in Directories /\ new # Absent /\ new.tfstate = Refreshed
    BY <1>2, <2>1, AbsentAssumption DEF Directories
  <2>3. dir' = [dir EXCEPT ![k] = new]
    BY <1>2, <1>5
  <2> HIDE DEF new
  <2>4. dir'[k] = new
    BY <1>0, <2>3 DEF DataInv
  <2>5. \A i \in Of(k) : InState(i) => InState(i)'
    BY <1>2, <2>1, <2>2, <2>4 DEF InState, Of
  <2>6. InstanceInv(k)'
    BY <1>0, <1>1, <1>3, <1>5, <2>5 DEF InstanceInv, Of
  <2>7. /\ live' \subseteq [key : Keys, id : Nat, own : Nat] /\ ids' \in Nat
        /\ \A i, j \in live' : i.id \in 1..ids' /\ (i.id = j.id => i = j)
        /\ \A j \in Keys \ {k} : Of(j)' = Of(j)
    BY <1>0, <1>5 DEF DataInv, TypeOK, Of
  <2> QED BY <1>1, <1>4, <2>2, <2>3, <2>6, <2>7, ReturnStep
<1>6. CASE /\ pc[k] = "apply" /\ live' = live \ Held
           /\ dir' = [dir EXCEPT ![ws.key].tfstate = Absent] /\ UNCHANGED ids
  <2> DEFINE new == [dir[k] EXCEPT !.tfstate = Absent]
  <2>1. new \in Directories
    BY <1>2 DEF Directories
  <2>2. dir' = [dir EXCEPT ![k] = new]
    BY <1>2, <1>6
  <2>3. k \notin excused => Of(k)' = {}
    BY <1>0, <1>2, <1>6 DEF InstanceInv, Of
  <2>4. InstanceInv(k)'
    BY <1>1, <1>3, <2>3 DEF InstanceInv
  <2>5. /\ live' \subseteq [key : Keys, id : Nat, own : Nat] /\ ids' \in Nat
        /\ \A i, j \in live' : i.id \in 1..ids' /\ (i.id = j.id => i = j)
        /\ \A j \in Keys \ {k} : Of(j)' = Of(j)
    BY <1>0, <1>2, <1>6 DEF DataInv, TypeOK, Of
  <2> HIDE DEF new
  <2> QED BY <1>1, <1>4, <2>1, <2>2, <2>4, <2>5, ReturnStep
<1>7. CASE pc[k] = "apply" /\ Applying
  <2>1. /\ live' \subseteq [key : Keys, id : Nat, own : Nat]
        /\ ids' \in Nat /\ \A i, j \in live' : i.id \in 1..ids' /\ (i.id = j.id => i = j)
        /\ \A j \in Keys \ {k} : Of(j)' = Of(j)
    BY <1>1, <1>7, ApplyingFact
  <2>2. PICK new \in Directories :
              /\ dir' = [dir EXCEPT ![k] = new] /\ new # Absent
              /\ (\A i \in Of(k) : InState(i)) => InstanceInv(k)'
    BY <1>1, <1>7, ApplyingFact
  <2>3. InstanceInv(k)'
    BY <1>0, <1>1, <1>7, <2>2 DEF InstanceInv
  <2> QED BY <1>1, <1>4, <2>1, <2>2, <2>3, ReturnStep
<1> QED BY <1>5, <1>6, <1>7 DEF ErrorAfter

(* A destroy that fails leaves the instance where it was, or none, and the *)
(* record in any case.                                                     *)
LEMMA DestroyFailsStep ==
  ASSUME TerraformInv, NEW k \in Keys, DestroyFails(k), UNCHANGED <<recorded, seen, history>>
  PROVE  TerraformInv'
<1>0. TypeOK /\ DataInv /\ CallInv(k) /\ InstanceInv(k)
  BY DEF TerraformInv
<1>1. /\ at[k] = "run" /\ pc[k] = "delete" /\ Return(k, "swallowed")
      /\ spec[k] = Absent /\ recorded[k] # Absent
      /\ UNCHANGED <<recorded, excused, silent, mode, spec, ids>>
      /\ seen' = [seen EXCEPT ![k] = seen[k]] /\ seen[k] \in {Absent} \cup Notes
  BY <1>0 DEF DestroyFails, Return, history, DataInv, CallInv
<1>2. /\ ws.key = k /\ dir[k] \in Directories /\ Here = dir[k]
      /\ Held = {i \in Of(k) : InState(i)}
  BY <1>1, Running
<1>3. pc'[k] = "swallowed"
  BY <1>0, <1>1 DEF DataInv, Return
<1>4. SuccessInv(k)'
  BY <1>3 DEF SuccessInv
<1>5. CASE UNCHANGED <<live, dir>>
  <2>1. InstanceInv(k)'
    BY <1>0, <1>1, <1>3, <1>5 DEF InstanceInv, Of, InState
  <2>2. dir' = [dir EXCEPT ![k] = dir[k]]
    BY <1>0, <1>5 DEF DataInv
  <2>3. /\ live' \subseteq [key : Keys, id : Nat, own : Nat] /\ ids' \in Nat
        /\ \A i, j \in live' : i.id \in 1..ids' /\ (i.id = j.id => i = j)
        /\ \A j \in Keys \ {k} : Of(j)' = Of(j)
    BY <1>0, <1>1, <1>5 DEF DataInv, TypeOK, Of
  <2> QED BY <1>1, <1>2, <1>4, <2>1, <2>2, <2>3, ReturnStep
<1>6. ASSUME live' = live \ Held, NEW l \in {0, Here.lock},
             dir' = [dir EXCEPT ![ws.key].tfstate = Absent, ![ws.key].lock = l]
      PROVE  TerraformInv'
  <2> DEFINE new == [dir[k] EXCEPT !.tfstate = Absent, !.lock = l]
  <2>0. l \in Nat
    BY <1>2, <1>6 DEF Directories
  <2>1. new \in Directories
    BY <1>2, <2>0 DEF Directories
  <2>2. dir' = [dir EXCEPT ![k] = new]
    BY <1>0, <1>2, <1>6 DEF DataInv
  <2>3. k \notin excused => Of(k)' = {}
    BY <1>0, <1>1, <1>2, <1>6 DEF InstanceInv, Of
  <2>4. InstanceInv(k)'
    BY <1>1, <1>3, <2>3 DEF InstanceInv
  <2>5. /\ live' \subseteq [key : Keys, id : Nat, own : Nat] /\ ids' \in Nat
        /\ \A i, j \in live' : i.id \in 1..ids' /\ (i.id = j.id => i = j)
        /\ \A j \in Keys \ {k} : Of(j)' = Of(j)
    BY <1>0, <1>1, <1>2, <1>6 DEF DataInv, TypeOK, Of
  <2> HIDE DEF new
  <2> QED BY <1>1, <1>4, <2>1, <2>2, <2>4, <2>5, ReturnStep
<1> QED BY <1>5, <1>6 DEF DestroyFails

LEMMA ErrorStep ==
  ASSUME TerraformInv, NEW k \in Keys, Error(k) PROVE TerraformInv'
BY ErrorBeforeStep, ErrorAfterStep, DestroyFailsStep DEF Error

(* A killed apply or destroy is excused and silent, a killed read or plan  *)
(* is silent.                                                              *)
LEMMA KilledStep ==
  ASSUME TerraformInv, NEW k \in Keys, Killed(k) PROVE TerraformInv'
<1>0. TypeOK /\ DataInv /\ CallInv(k) /\ InstanceInv(k)
  BY DEF TerraformInv
<1>1. /\ at[k] = "run" /\ silent' = silent \cup {k} /\ recorded' = recorded
  BY DEF Killed
<1>2. ws.key = k /\ dir[k] \in Directories /\ pc[k] \in Calls /\ dir[k] # Absent
  BY <1>1, Running, AbsentAssumption
<1>3. SuccessInv(k)'
  BY <1>1 DEF SuccessInv
<1>4. ASSUME UNCHANGED <<live, ids>>
      PROVE  /\ live' \subseteq [key : Keys, id : Nat, own : Nat] /\ ids' \in Nat
             /\ \A i, j \in live' : i.id \in 1..ids' /\ (i.id = j.id => i = j)
             /\ \A j \in Keys \ {k} : Of(j)' = Of(j)
  BY <1>0, <1>4 DEF DataInv, TypeOK, Of
<1>5. CASE pc[k] = "read"
  <2>1. /\ seen' = [seen EXCEPT ![k] = Absent] /\ Return(k, AfterRead(k, Absent))
        /\ UNCHANGED <<live, dir, ids, excused>>
    BY <1>5 DEF Killed
  <2>2. recorded[k] \in Records /\ dir[k].tfstate = Noted(recorded[k].id, recorded[k].own)
    BY <1>0, <1>1, <1>5 DEF DataInv, CallInv
  <2>3. dir[k].tfstate.id = recorded[k].id /\ dir[k].tfstate # Absent /\ recorded[k] # Absent
    BY <2>2, AbsentAssumption DEF Noted, Notes, Records
  <2>4. InstanceInv(k)'
    <3>1. k \notin excused => \A i \in Of(k) : InState(i)
      BY <1>0, <1>2, <2>3 DEF InstanceInv, InState, Of
    <3> QED BY <1>0, <1>1, <2>1, <3>1 DEF InstanceInv, Of, InState
  <2>5. /\ AfterRead(k, Absent) \in {"plan", "apply", "delete", "done"}
        /\ AfterRead(k, Absent) \in {"plan", "apply"} => spec[k] # Absent
        /\ AfterRead(k, Absent) = "delete" => spec[k] = Absent
    BY <2>3, AfterReadFact
  <2>6. dir' = [dir EXCEPT ![k] = dir[k]]
    BY <1>0, <2>1 DEF DataInv
  <2> QED BY <1>1, <1>2, <1>3, <1>4, <2>1, <2>3, <2>4, <2>5, <2>6, ReturnStep
<1>6. CASE pc[k] = "plan"
  <2>1. Return(k, "done") /\ UNCHANGED <<live, dir, seen, ids, excused>>
    BY <1>6 DEF Killed
  <2>2. InstanceInv(k)'
    BY <1>0, <1>1, <1>6, <2>1 DEF InstanceInv, Of, InState
  <2>3. /\ dir' = [dir EXCEPT ![k] = dir[k]] /\ seen' = [seen EXCEPT ![k] = seen[k]]
        /\ seen[k] \in {Absent} \cup Notes
    BY <1>0, <2>1 DEF DataInv
  <2> QED BY <1>1, <1>2, <1>3, <1>4, <2>1, <2>2, <2>3, ReturnStep
<1>7. CASE pc[k] = "apply"
  <2>1. /\ live' \in Outcomes \cup {live} /\ ids' = (IF Made \in live' THEN ids + 1 ELSE ids)
        /\ excused' = excused \cup {k} /\ seen' = [seen EXCEPT ![k] = Empty]
        /\ Return(k, "save") /\ dir' = dir
    BY <1>2, <1>7 DEF Killed
  <2>2. InstanceInv(k)' /\ dir' = [dir EXCEPT ![k] = dir[k]]
    BY <1>0, <2>1 DEF InstanceInv, DataInv
  <2>3. Empty \in Notes /\ Empty # Absent
    BY AbsentAssumption DEF Empty, Noted, Notes
  <2>4. Made.id = ids + 1
    BY DEF Made, Instance
  <2>5. /\ live' \subseteq [key : Keys, id : Nat, own : Nat] /\ ids' \in Nat
        /\ \A i, j \in live' : i.id \in 1..ids' /\ (i.id = j.id => i = j)
        /\ \A j \in Keys \ {k} : Of(j)' = Of(j)
    <3>0. ids \in Nat
      BY <1>0 DEF DataInv
    <3>1. CASE live' \in Outcomes
      <4>1. /\ live' \subseteq [key : Keys, id : Nat, own : Nat]
            /\ \A i \in live' : i.id \in 1..ids \/ i = Made
            /\ \A i, j \in live' : i.id = j.id => i = j
            /\ \A j \in Keys \ {k} : {i \in live' : i.key = j} = Of(j)
        BY <1>1, <3>1, OutcomeFact
      <4>2. \A i \in live' : i.id \in 1..ids'
        BY <2>1, <2>4, <3>0, <4>1
      <4> QED BY <2>1, <3>0, <4>1, <4>2 DEF Of
    <3>2. CASE live' = live
      <4>1. Made \notin live
        BY <1>0, <2>4, <3>0 DEF TypeOK
      <4> QED BY <1>4, <2>1, <3>2, <4>1
    <3> QED BY <2>1, <3>1, <3>2
  <2> QED BY <1>1, <1>2, <1>3, <2>1, <2>2, <2>3, <2>5, ReturnStep
<1>8. CASE pc[k] = "delete"
  <2>1. /\ dir' = [dir EXCEPT ![k] = Absent] /\ excused' = excused \cup {k}
        /\ seen' = [seen EXCEPT ![k] = Absent] /\ Return(k, "save") /\ UNCHANGED ids
        /\ live' \in {live, live \ Held}
    BY <1>2, <1>8 DEF Killed
  <2>2. InstanceInv(k)' /\ spec[k] = Absent
    BY <1>0, <1>8, <2>1 DEF InstanceInv, CallInv
  <2>3. \A i \in Held : i.key = k
    BY <1>1, Running
  <2>4. /\ live' \subseteq [key : Keys, id : Nat, own : Nat] /\ ids' \in Nat
        /\ \A i, j \in live' : i.id \in 1..ids' /\ (i.id = j.id => i = j)
        /\ \A j \in Keys \ {k} : Of(j)' = Of(j)
    BY <1>0, <2>1, <2>3 DEF DataInv, TypeOK, Of
  <2> QED BY <1>1, <1>2, <1>3, <2>1, <2>2, <2>4, ReturnStep
<1> QED BY <1>2, <1>5, <1>6, <1>7, <1>8 DEF Calls

-----------------------------------------------------------------------------
LEMMA CommandStep ==
  ASSUME TerraformInv, NEW s \in Specs, Command(s) PROVE TerraformInv'
<1>0. TypeOK /\ DataInv
  BY DEF TerraformInv
<1>1. /\ mode = "idle" /\ spec' = s /\ mode' \in {"preview", "operation"}
      /\ pc' = [k \in Keys |-> IF s[k] = Absent /\ recorded[k] = Absent THEN "out" ELSE "read"]
      /\ seen' = [k \in Keys |-> Absent]
      /\ UNCHANGED <<live, dir, recorded, at, mu, ws, ids, excused>>
  BY DEF Command, lock
<1>2. \A k \in Keys : at[k] = "out"
  BY <1>0, <1>1 DEF TypeOK, DataInv, Calls
<1>3. TypeOK'
  BY <1>0, <1>1, <1>2 DEF TypeOK, Calls
<1>4. DataInv'
  BY <1>0, <1>1 DEF DataInv, Calls
<1>5. ASSUME NEW k \in Keys PROVE CallInv(k)' /\ InstanceInv(k)' /\ SuccessInv(k)'
  <2>1. InstanceInv(k)
    BY DEF TerraformInv
  <2> QED BY <1>1, <1>2, <2>1 DEF CallInv, InstanceInv, SuccessInv, Of, InState
<1> QED BY <1>3, <1>4, <1>5 DEF TerraformInv

LEMMA ResetStep ==
  ASSUME TerraformInv, Reset, dir' = dir, excused' = excused PROVE TerraformInv'
<1>0. TypeOK /\ DataInv
  BY DEF TerraformInv
<1>1. /\ mode' = "idle" /\ pc' = [k \in Keys |-> "out"] /\ at' = [k \in Keys |-> "out"]
      /\ UNCHANGED <<live, recorded, spec, ws, seen, ids, silent>>
  BY DEF Reset
<1>2. TypeOK' /\ DataInv'
  BY <1>0, <1>1 DEF TypeOK, DataInv
<1>3. ASSUME NEW k \in Keys PROVE CallInv(k)' /\ InstanceInv(k)' /\ SuccessInv(k)'
  <2>1. InstanceInv(k)
    BY DEF TerraformInv
  <2> QED BY <1>1, <2>1 DEF CallInv, InstanceInv, SuccessInv, Of, InState
<1> QED BY <1>2, <1>3 DEF TerraformInv

LEMMA LoseStep ==
  ASSUME TerraformInv, NEW k \in Keys, Lose(k) PROVE TerraformInv'
<1>0. TypeOK /\ DataInv /\ InstanceInv(k)
  BY DEF TerraformInv
<1>1. /\ mode = "idle" /\ dir' = [dir EXCEPT ![k] = Absent]
      /\ UNCHANGED <<live, recorded, mode, spec, pc, at, seen, mu, ws, ids, silent>>
      /\ excused \subseteq excused'
      /\ k \notin excused' => \A i \in Of(k) : recorded[k] # Absent /\ recorded[k].id = i.id
  BY DEF Lose, node, lock, Of
<1>2. \A j \in Keys : pc[j] = "out" /\ at[j] = "out"
  BY <1>0, <1>1 DEF TypeOK, DataInv, Calls
<1>3. TypeOK' /\ DataInv'
  BY <1>0, <1>1, <1>2 DEF TypeOK, DataInv
<1>4. CallInv(k)' /\ SuccessInv(k)'
  BY <1>1, <1>2 DEF CallInv, SuccessInv
<1>5. InstanceInv(k)'
  BY <1>0, <1>1, <1>2 DEF InstanceInv, Of
<1>6. \A j \in Keys \ {k} : dir'[j] = dir[j] /\ Of(j)' = Of(j)
  BY <1>0, <1>1 DEF DataInv, Of
<1> QED BY <1>1, <1>3, <1>4, <1>5, <1>6, Others

(* The invariant is inductive. *)
LEMMA NextInv == TerraformInv /\ [Next]_vars => TerraformInv'
<1> SUFFICES ASSUME TerraformInv, [Next]_vars PROVE TerraformInv'
  OBVIOUS
<1>1. CASE UNCHANGED vars
  <2>1. UNCHANGED <<live, dir, recorded, mode, spec, pc, at, seen, mu, ws, ids, excused, silent>>
    BY <1>1 DEF vars, node, lock, history
  <2>2. TypeOK' /\ DataInv'
    BY <2>1 DEF TerraformInv, TypeOK, DataInv
  <2>3. ASSUME NEW k \in Keys PROVE CallInv(k)' /\ InstanceInv(k)' /\ SuccessInv(k)'
    BY <2>1 DEF TerraformInv, CallInv, InstanceInv, SuccessInv, Of, InState, Applied
  <2> QED BY <2>2, <2>3 DEF TerraformInv
<1>2. ASSUME NEW s \in Specs, Command(s) PROVE TerraformInv'
  BY <1>2, CommandStep
<1>3. ASSUME NEW k \in Keys, Step(k) PROVE TerraformInv'
  BY <1>3, ReadNothingStep, AcquireStep, WriteHCLStep, InitWorkSpaceStep, WriteTFStateStep,
     CleanAndInitStep, RunReadStep, RunPlanStep, RunApplyStep, RunDeleteStep, SaveStep DEF Step
<1>4. ASSUME NEW k \in Keys, Error(k) \/ Killed(k) \/ Lose(k) PROVE TerraformInv'
  BY <1>4, ErrorStep, KilledStep, LoseStep
<1>5. CASE End \/ Crash
  BY <1>5, ResetStep DEF End, Crash
<1> QED BY <1>1, <1>2, <1>3, <1>4, <1>5 DEF Next, Rest

LEMMA TerraformInvariant == Spec => []TerraformInv
BY InitInv, NextInv, PTL DEF Spec

-----------------------------------------------------------------------------
(* The mutex of the workspace serves any number of nodes: its fields and   *)
(* the directory are those of the node in the call, and terraform runs     *)
(* with the version of the provider that the resource asks for.            *)
THEOREM CallsGuardedHolds == Spec => []CallsGuarded
<1>1. TerraformInv => CallsGuarded
  BY DEF TerraformInv, CallInv, CallsGuarded, VersionAgrees
<1> QED BY <1>1, TerraformInvariant, PTL

(* No node that runs beside others, no error and no crash loses or doubles *)
(* an instance.                                                            *)
THEOREM InstancesTrackedHolds == Spec => []InstancesTracked
<1>1. TerraformInv => EveryInstanceIsKnown
  BY DEF TerraformInv, DataInv, InstanceInv, EveryInstanceIsKnown, InState, Of
<1>2. TerraformInv => OneInstance
  <2> SUFFICES ASSUME TerraformInv, NEW k \in Keys \ excused PROVE Cardinality(Of(k)) <= 1
    BY DEF OneInstance
  <2>1. \A i, j \in Of(k) : i = j
    BY DEF TerraformInv, InstanceInv
  <2>2. CASE Of(k) = {}
    BY <2>2, FS_EmptySet
  <2>3. CASE Of(k) # {}
    <3>1. PICK i \in Of(k) : Of(k) = {i}
      BY <2>1, <2>3
    <3> QED BY <3>1, FS_Singleton
  <2> QED BY <2>2, <2>3
<1> QED BY <1>1, <1>2, TerraformInvariant, PTL DEF InstancesTracked

(* A node that reports success has done what its spec says, and recorded   *)
(* the instance that does it, unless its terraform was killed, or its      *)
(* destroy failed: then the record is still there.                         *)
THEOREM SuccessIsAppliedHolds == Spec => []SuccessIsApplied
<1>1. TerraformInv => SuccessIsApplied
  BY DEF TerraformInv, SuccessInv, CallInv, SuccessIsApplied, Succeeded
<1> QED BY <1>1, TerraformInvariant, PTL
=============================================================================
