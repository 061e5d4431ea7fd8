# Kusion in TLA+

Kusion turns a *spec* (Kubernetes and Terraform resources, compiled from KCL) into
live resources and keeps in a *state* what it has created. This directory models the
program from `kusion init`, which writes a project, over the preview and the operation
on a stack, to the watch that follows the result: the graph of resources, the parallel
walk, the node that applies one resource on either runtime, the storages of the state,
and the channels between them. TLC checks every module on small instances; TLAPS proves
most of the properties for instances of any size.

## 1. The system

### Components, their state and their operations

| component (source below `src/`) | state it keeps | operations | module |
|---|---|---|---|
| graph algorithms (`third_party/terraform/dag`) | vertices, edges | Validate, TransitiveReduction, up and down edges | `Digraphs` |
| walker (`dag/walk.go`) | a DoneCh, a DepsCh and two goroutines per vertex, diagsMap, a WaitGroup | Update, walkVertex, waitDeps, Wait | `DagWalker`; abstractly `OrderedExecution` |
| graph parsers (`pkg/engine/operation/parser`) | the graph, the Go maps they range over | SpecParser, DeleteResourceParser, LinkRefNodes | `ResourceGraph` |
| apply, destroy (`operation/{apply,destory}.go`, `graph/resource_node.go`, `models/operation_context.go`) | PriorState-, State- and CtxResourceIndex, the result state, a lock | Execute, computeActionType, applyResource, RefreshResourceIndex, UpdateState | `ApplyEngine` |
| preview, references, secrets (`operation/preview.go`, `resource_node.go`, `pkg/vals`) | the change steps, the spec it rewrites | Preview, PreExecute, ReplaceRef | `Session` |
| commands (`cmd/apply`, `cmd/destroy`) | MsgCh, the WaitGroup, the summary | the receiver of messages, wait and print; the prompt | `Progress`, `Session` |
| state storages (`pkg/engine/states`) | file, database rows, object, remote resource | GetLatestState, Apply | `StateStorage`; abstractly `StateRegister` |
| Kubernetes runtime | none; the cluster | Read, Apply, Import, Delete, Watch | in `ApplyEngine`, `Session`, `Watch` |
| Terraform runtime (`runtime/terraform`, `tfops`) | a directory per resource, one workspace object, a mutex | Read, Apply, Delete | `Terraform` |
| watch and printers (`operation/watch.go`, `engine/printers`) | watchers, a channel and a table per resource | Watch, doWatch, AllCompleted, printTables, Generate | `Watch`, `Readiness` |
| project and stack loading (`pkg/projectstack`) | none; the tree | Find..., Get..., DetectProjectAndStack | `ProjectTree` |
| backends (`pkg/engine/backend`, `*_backend.go`) | none; project.yaml and flags | BackendFromConfig, MergeConfig, Configure | `Backends` |
| commands before their work, `deps` (`cmd/deps`) | the focus files, the index of entrances | detect, set up, visit, ask | `Workspace` |
| scaffolding (`pkg/scaffold`, `cmd/init`) | the shelves of templates under the home, temporary directories, the project | retrieve, generate, list, read, render, write | `Scaffold` |
| diff, spec generation, CLI frame, log, version | none that lasts | | section 7 |

`kusion apply` detects the project and the stack (`ProjectTree`), sets up the storage
(`Backends`), previews and asks (`Session`), then operates (`ApplyEngine`, on the graph
of `ResourceGraph`, walked by `DagWalker`), calls a runtime for each resource
(`Terraform`, or the cluster), saves the *whole* state after each (`StateStorage`),
tells the command on MsgCh (`Progress`), and watches at last (`Watch`).

### What is hard in it

* *Concurrency.* Two goroutines per vertex that meet only through channels; N nodes that
  share one index and overwrite one state; a receiver that adds itself to the WaitGroup
  others wait for; one workspace object under a mutex; a printing loop that reads tables
  while goroutines write them; two commands over one home, one project or one state.
* *Order.* The parsers range over Go maps, the watch selects any ready channel, the steps
  of a preview are appended in the order in which nodes end.
* *Failure.* A refused call, a call that took effect but answered with an error, a state
  that cannot be saved, a crash between the runtime and the storage or in the middle of a
  file, a killed `terraform`, a panic inside a callback.
* *Staleness.* The recorded resource decides the action, the merge and the order of
  deletes; the preview decides what the receiver can handle and rewrites the spec; a
  directory keeps the provider and the Terraform state of an earlier run.

`PROJECT.json` lists each hazard at its line with the properties that cover it.

## 2. The modules

```
Digraphs <- OrderedExecution <-(implements, proved)- DagWalker
         <- ResourceGraph, ApplyEngine, Progress, Session
StateRegister <-(implements, proved)- StateStorage
Readiness <- Watch          ProjectTree, Backends, Digraphs <- Workspace
Terraform, Scaffold
M_proofs extends M; MCM extends M with the instance of the cfg
```

The layers stand on each other by contract rather than by one product of all states.
`ResourceGraph!OrderExact` shows that the walked graph orders two resources exactly when
`WantedEdges` does; `Edges` in `ApplyEngine` and `Session` is that relation. The guards
of `Plan` and `Skip` in `ApplyEngine`, of `Call` and `Skip` in `Progress` and of `Ready`
and `Skip` in `Session` are those of `OrderedExecution!Run` and `Skip`. `ApplyEngine` saves
into one register, which `StateStorage` shows its storage to be while commands do not
overlap.

Every module ends its actions with a stutter (`Terminated`, `Done`, `Rest`, `Exited`,
`Finished`) that is allowed only where the program is over or waits for somebody else, so
that TLC's deadlock check finds any other stop. A definition under a comment that begins
with *Mutant* is a plausible bug of the definition after it: no specification uses it, it
is put in that definition's place to see that a property notices.

**Digraphs** says what Tarjan's algorithm, the depth-first walks and the reduction
compute, with quantifiers over sets of vertices, because proofs cannot use recursion. The
target of an edge waits for its source.

**OrderedExecution** is the promise of a walk: `Run`, `Finish`, `Skip` per node, `Report`.

**DagWalker.** `Init` is `Update` up to its two loops of `go` statements; `StartWaiter`,
`StartVertex` are their turns. `pc[v]` is the place of `walkVertex`: *load*, *await* (on
DepsCh), *gate* (the branch on depsSuccess), *callback*, *record* (under diagsLock),
*close* and *lower* (its deferred calls), *exit*. `WaitDeps` is `waitDeps` from the last
DoneCh it needs to its send. The five-second timer only logs.

**ResourceGraph.** One step per turn of each parser's loop, in any order of the map;
requests are all functions from keys to sets of keys, illegal ones included. `AddNodes`
keeps the node that is there with its action; `DeleteEdges` are the two directions of
`LinkRefNodes`; `Needed` is its guard against deleting what others need.

**ApplyEngine.** Any sequence of runs over one stack; `Destroy` is one that wants nothing.
A node goes through *pending*, *invoke* (planned), *refresh* (the runtime has acted),
*save* (the index has it); nodes of other resources, a crash and every fault come between.
`Merged` is the three-way merge, `Outcome` what is kept in the index (the recorded
resource, old dependencies included, if nothing changed), `UpdateState` saves all of the
index, `DeletePanics` is what a failed delete does. `doubt` is history: the resources whose
last call a fault interrupted.

**Session.** A user previews, is asked, and operates, again and again, on either kind of
runtime. A resource has an attribute of its own, a computed id, and a link: nothing, a
reference to an attribute of another, or a secret. `PreExecute` replaces the link *in the
spec*, from which the operation starts; `Compute` is Execute up to the runtime, `Invoke`
the call, `Refresh` the index and the step or the saved state. `FatalRace` is the map read
without the lock while another node writes: Go then ends the process. `Drift` is somebody
else at the infrastructure or the secret. The layout of the summary is left out.

**Progress.** `applyWalkFun` announces, executes and reports a resource; `Receive` is the
rendezvous on MsgCh, `Handle` the rest of the receiver's turn, where a resource without
ChangeStep ends it with a panic. `StartReceiver` is the goroutine's `wg.Add(1)`, at
whatever time it is scheduled. `--dry-run`, which sends the messages itself, is left out.

**StateStorage.** Commands of several operators and clusters over one of the five
storages. `Found` is the query of each: the local file does not look at it, the table of
the database takes the newest row, of all clusters if none is named, the objects have no
cluster in their name, the URL does. `ReadOld`, `Truncate`, `Write` are the three steps of
`FileSystemState.Apply`, between which a crash or another command may come. `SaveFails` is a
save that fails at any of its calls; one that fails, or a command that dies, in the middle of
the write leaves the file empty or with a part of the text (`CutOff`). `raced` and `cut` are
history: two commands overlapped; the last write was not finished. A state is its set of
resources, its serial number, its cluster and its time of creation (`CreateTime`): the local
file keeps it, the database gives each row one of its own, the others have none.

**StateRegister** is what the engine asks of a storage: per cluster one state, whose serial
number grows and, in a storage that is dated, whose creation time stays; where clusters are
told apart the save of one leaves the others alone; a fragile one may forget.

**Terraform.** A node makes the calls read, plan, apply or delete; each locks the mutex,
sets the workspace's fields (`Acquire`), writes the configuration, initialises when there is
no lock file, writes the recorded state over the Terraform state, compares the provider
version (`CleanAndInit`), runs terraform, and unlocks. terraform is external: it may update
or replace an instance, fail with an error before or after it has acted (`ErrorBefore`,
`ErrorAfter`; so may the reading of its state afterwards), and be killed with no error in its
output (which `TFError` takes for success). `DestroyFails` ends in the panic that the engine
recovers: its node is *swallowed*, a success for the walker with nothing saved. kusion may
die, and the directory may be lost. `excused` and `silent` are history: instances nobody
noted, and nodes whose terraform was killed.

**Watch.** `Filter` and the collection of watchers (`Open`, `Forward` while it awaits the
first event), which goes from an object to its dependent kind; doWatch (`Forward`), the
goroutine of a table (`Receive`), the main loop (`Check`, `Tick`). A watch has a buffer of
one event, which stands for doWatch and its channel together. Objects have lives, sequences
of statuses; the server may close one stream. **Readiness** gives for every kind that the
printers know when its row is READY, and when its printer follows a nil pointer (a Job
without completions, a running Application without a workflow status).

**Scaffold.** `kusion init` in several terminals: the internal templates, generated into
the home when their directory is missing (`MakeShelf`, `GenerateOpen`, `GenerateWrite`); the
official ones in the clone that all commands share, which `Inspect` looks at, `Cleanup`
removes file by file if it is not the clone, and `Fetch`, `CheckoutOpen`, `CheckoutWrite`
clone, reset or pull file by file; or a download into a temporary directory; then the listing,
the reading into memory, the rendering, and the writing of directories and files, each
opened with O_EXCL or, under `--force`, truncated. A write may fail, the process may die,
and the user edits the project. What a field without a value renders as is "no value". What
git does in its directory is external: any set of files may have changed upstream, a hard
reset makes good what differs from the commit, and a file is empty between its creation and
its write. `overlapped` is history: another command changed the shelf that this one reads.

**ProjectTree, Backends, Workspace.** Trees of directories whose project and stack files are
absent, bad or good; the searches at, below and above a path. The merge of configuration and
flags, the schema of each storage type, and each `Configure` with its checks, its panics,
and the path that a local storage takes if it is given none or an empty one, which is
relative to the process (`ProcessPath`), while the default of a project without backend is
in the directory of the command. `Workspace` composes them into what a command does before
it works, and models `deps`: stacks in lexical order (`Rank`), the files that a visited
stack cuts off (`Under`: by the prefix of its relative path, so none for a stack at the
root), the question to KCL (external; which files import which is any relation, `Imports`)
at the end. What a command runs on are the `Operations`, what `deps` is asked the
`Questions`.

## 3. What is checked

| run | instance | distinct states | shows |
|---|---|---|---|
| `DagWalker` | every reduced single-root graph on 4 vertices | 30 458 | `OrderedSpec`: it implements `OrderedExecution`; `SkippedHasCause`, `WaitIsFinal`, `WaitReturns`, `NoHeadOfLineBlocking` |
| `ResourceGraph` | every spec and acyclic state over 3 symmetric keys, all orders | 69 268 | `GraphComplete`, `OrderExact`, `WellBuilt` (typed, reduced, with a single root), `RefusalJustified` |
| `ApplyEngine` | 2 keys, 2 fields, every spec, refusals and failed deletes | 219 811 | `Converged`, `RunEnds` |
| `ApplyEngineFaults` | 3 keys in chains and joins, refusals, lost answers and saves, crashes | 972 788 | `OnlyDoubtfulDiverge`, `SuccessCovers`, `DependencyOrder` |
| `Progress` | every graph on 3 resources, every preview | 13 611 | `SummaryTrue`, `NoSendAfterClose`, `ForeseenReturns` |
| `StateStorage` | 2 operators, 2 clusters, 5 storages, 3 commands, 2 losses | 193 057 | `RegisterSpec`: it implements `StateRegister`; `ShownIsUsed`, `ReadsItsWrites`, `LostOnlyInWrites`, `OperationEnds` |
| `StateStorageClusters` | the same, local and S3 | | `ClustersApart` is violated (section 4) |
| `Session` | 3 keys in three specs, 2 commands, 1 drift, both runtimes | 272 063 | `ReferencesHold`, `Idempotent`, `ShownIsDone`, `LookupsAreSettled` |
| `Watch` | fifteen clusters of up to five objects, 2 resources | 183 902 | `FinishedIsComplete`, `WiresHold`, `PanicsExplained`, `WatchReturns` |
| `Terraform` | 2 keys, 3 commands, 1 fault | 544 725 | `CallsGuarded`, `InstancesTracked`, `SuccessIsApplied`, `CommandEnds` |
| `Scaffold` | 2 terminals, 2 commands, 1 fault or edit, 4 files | 720 678 | `DiskIsTidy`, `ShortOnlyIfDisturbed`, `UserFilesSurvive` |
| `Workspace` | every tree of 4 directories, every split of every configuration, every set of files | 208 300 | `DetectionRight`, `StorageRight`, `DepsRight` |

Some properties are conjunctions of named parts, which one run checks together:
`WellBuilt`, `DependencyOrder` (`ApplyOrder`, `DeleteOrder`), `ShownIsDone` (`StepsComplete`,
`PreviewForetells`), `WiresHold` (`NoUpdateLost`), `CallsGuarded` (`VersionAgrees`),
`InstancesTracked` (`EveryInstanceIsKnown`, `OneInstance`), `DiskIsTidy` (`CreatedIsWritten`,
`TempsRemoved`), `DetectionRight`, `StorageRight` (`StorageAsAsked`, `CompleteOrRefused`) and
`DepsRight` (`OnlyDownstream`, `UncutFilesCount`). Where a module's `TypeOK` says more than
types, it is part of one of these.

*Why the bounds are enough.* Four vertices below one root hold what a walk can meet: a
chain, a fork, a join, a skipped vertex below a skipped one. The graph of a real spec has
the root, so three resources are four vertices, and three keys suffice for a deleted
resource between a kept dependency and a deleted dependent. Two fields are needed for a
merge that drops one and keeps one. The runs of `ApplyEngine` over a stack are not bounded.
In `StateStorage` three commands let an operator save, be overtaken and read again, and two
losses let a write be cut off before and after another; `MaxCommands` bounds the commands
and `MaxLost` the failed saves and crashes. In `Session` two commands (`MaxCommands`) are a
first apply with everything after it, where a preview leaves references alone the first time
only; `MaxDrift` bounds what others change. In `Terraform` three commands make a resource,
change or replace it, and recover from the one fault (`MaxFaults`) that came before; two
keys are needed for the mutex. In `Scaffold` two commands (`MaxCommands`) with one fault or
edit (`MaxFaults`) give a reader during a generation or a checkout and a project that is
there already; the template has a file of each sort. The clusters of `Watch` have each
dependent kind and every printer that waits for something. In `Workspace` nothing is bounded
but the number of directories: one project beside another and one below, with the root, are
all relations two can have.

*Fairness.* `DagWalker!FairSpec` is weak fairness of every goroutine and of `Wait`: the Go
scheduler runs what can run. It says nothing of callbacks, that is, of runtimes and
networks; `WaitReturns` assumes in its own statement that they return,
`NoHeadOfLineBlocking` does not. `ApplyEngine`, `Progress` and `Terraform` add that a call of
the runtime ends, with or without success. `StateStorage!FairSpec` is fair to what an
operation does by itself (`Progress`), not to the user, who may leave a prompt open for
ever. `Watch!FairSpec` is fair to the goroutines, the main loop and the life of the objects,
not to failures and closed streams. A crash, a new command and the kind of a failure are
never fair. `ResourceGraph`, `Session`, `Scaffold` and `Workspace` state safety only.

Only `Progress` turns off the deadlock check, because there a resource that the preview has
missed really stops the program.

Every property of these runs is violated under its run's own configuration by the mutant
that `PROJECT.json` names for it.

## 4. Where code and words disagree

`StateStorageClusters` is the finding of `PROJECT.json`: `states/state.go:52` says that the
cluster separates the states of one stack, but the local file and the S3 object are shared
by all its clusters, so that an apply on one replaces the state of the others, and deletes
their resources as no longer wanted.

The others were met on the way. Each is stated as a definition of the module; adding it to
the cfg named makes TLC show how it fails.

| property | cfg | what the code does |
|---|---|---|
| `NoNeededDelete` | `ResourceGraph` | The guard "we cannot delete this node if any node dependsOn this node" (`delete_resource_parser.go:60`) only looks when the node is not in the graph yet, and `LinkRefNodes` adds it when the dependent comes first in the map. |
| `SuccessIsApplied` without its last disjunct | `Terraform` | A `terraform destroy` that fails is logged with the nil planned resource (`resource_node.go:217`); the panic is recovered at `apply.go:139`, where the diagnostics can no longer be set, and the node counts as a success with its instance and its record there. |
| `SuccessCovers` | `ApplyEngineFaults`, with `"delete"` in `Faults` | When a delete fails, `applyResource` logs `planed.ID` of a nil `planed`; the panic is recovered too late to change what is returned, and the run says success with the resource there. |
| `Converged` | `ApplyEngine`, with `"crash"`, `"lost"` or `"save"` in `Faults` | The record is then older than the cluster, and the three-way merge never removes a field that the lost run added; the next run reports success (against `apply.go:50`). |
| `StateClosed` | `ApplyEngine` | A resource that does not change keeps its recorded dependencies (`resource_node.go:229`), also on one that the same run deletes; no graph can be built from that state, and every later apply and destroy is refused. No fault is needed. |
| `CommandReturns` | `Progress` | A resource that the preview did not meet ends the receiver; the unbuffered MsgCh then blocks the walk and the command for ever. |
| `ChannelsCompleted` | `Watch` | "All channels are isCompleted" (`watch.go:161`): the table counts rows, those of unlisted objects too. |
| `PanicsExplained` without its Application | `Watch` | `printApplication` reads `Status.Workflow.Finished` of a running Application (`oam_printer.go:61`), and the workflow status is optional: without one the watch panics. |
| `FailuresAreErrors` | `Terraform` | A destroy that fails is one of them, see above; besides, `TFError` has no error for a command that was killed (`tferrors.go:95`): a destroy then removes the directory and the record of an instance that lives. |
| `GeneratedBeforeUse` | `Scaffold` | "Generate" before use (`init/options.go:292`) asks only whether the directory exists: after a crash in the generation, or during that of another terminal, templates are read short. |
| `Downstream` of all files in place of `OutsideStacks` in `UncutFilesCount` | `Workspace` | The comment at `deps/options.go:164-166` names a stack if its entrance files are downstream of the focus, or if files under its directory are in it. A file under the directory of a visited stack is cut off and not asked about any more, so a stack visited later that imports it is missed; and no file counts as under a stack at the root, whose prefix is `./`. |
| `DefaultOnlyWhenUndeclared` | `Workspace` | `docs/backend.md:47` makes local the default if nothing is declared. With a type given by flag alone its `path` is still merged in, which the schema of any other type refuses. |

`RefusalJustified` states the weaker truth about circles: recorded dependencies between
resources that stay are edges too, so a spec that turns one round is refused; and so is every
request once the state itself has a circle.
`StorageAsAsked` has two default paths: that of a local backend declared without one is in
the directory where the process runs, that of no backend at all in the directory of the
command, and `--workdir` makes them differ. `CompleteOrRefused` names the two configurations
that end in a panic and the one that goes on without a bucket. `WatchReturns` names the
streams that never end: a closed one, a dependent that never comes, a row that never becomes
READY.

## 5. What is proved

Eight modules hold proofs, each for every value of the constants that the named
assumptions allow. Each theorem is of the specification without fairness.

| module | theorems | assumptions |
|---|---|---|
| `DagWalker_proofs` | `WalkInvariant`, `TypeCorrect`, `CallbackOrderHolds`, `SkippedHasCauseHolds`, `WaitIsFinalHolds`, `WalkImplementsOrder` | finitely many vertices; acyclic graphs, as `Validate` makes sure |
| `ResourceGraph_proofs` | `WellBuiltHolds`, `GraphCompleteHolds`, `OrderExactHolds`, `RefusalJustifiedHolds` | finitely many resources; the root is none of them; specs and states are maps to sets of resources, circles and unknown names included |
| `ApplyEngine_proofs` | `EngineInvariant`, `TurnsInvariant`, `TypeCorrect`, `OnlyDoubtfulDivergeHolds`; unless deletes fail: `SuccessCoversHolds`, `DependencyOrderHolds`; unless answers or saves are lost or the process dies (`NothingLost`): `ConvergedHolds` | what a resource is, and that its absence is something else |
| `Session_proofs` | `SessionInvariant`, `LookupsAreSettledHolds`, `ReferencesHoldHolds`, `IdempotentHolds`, `ShownIsDoneHolds` | its absence is no resource; users write no ids |
| `StateStorage_proofs` | `TypeCorrect`, `LostOnlyInWritesHolds`, `ShownIsUsedHolds`, `ReadsItsWritesHolds`, `StorageImplementsRegister` | `StorageAssumption` (the kinds are the five, no cluster is no name), `NoStateAssumption` |
| `Terraform_proofs` | `CallsGuardedHolds`, `InstancesTrackedHolds`, `SuccessIsAppliedHolds` | `SpecsAssumption` (attributes and versions are positive numbers), `AbsentAssumption` |
| `Watch_proofs` | `RouteInvariant`, `FinishedIsCompleteHolds`, `WiresHoldHolds`, `PanicsExplainedHolds` | at least one resource; clusters of finitely many objects, each created at some point of its life |
| `Commands_proofs`, of `Progress` | `ReportTypeCorrect`, `NoSendAfterCloseHolds`, `SummaryTrueHolds` | at least one resource; without one both commands return at once |
| `Commands_proofs`, of `Scaffold` | `ScaffoldInvariant`, `UserFilesSurviveHolds`, `TempsRemovedHolds`, `DiskIsTidyHolds`, `ShortOnlyIfDisturbedHolds` | the command lines are such, and there is one; a directory comes before what it holds, and a file refers to fields of the project or of its own stack (`TemplateAssumption`) |
| `Commands_proofs`, of `Workspace` | `WorkspaceInvariant`, `DetectionRightHolds`, `StorageRightHolds`, `DepsRightHolds` | a finite tree with the directories above each of its own; no two directories in the same place of a walk; what project.yaml and what the flags say is marked as theirs; trees, files and entrances are such |

*Walker.* `WalkInv` strengthens the properties with what each vertex knows: a value in
DepsCh, or a depsSuccess that has arrived, says what the direct dependencies recorded, and a
dependency records before it closes DoneCh, after which nothing about it changes; the
WaitGroup counts the vertices that have not left. From one level to all: the vertices
without a started callback are closed under the edges from an unfinished or failed one, and
`Below` is the least closed set; were there skipped vertices without a cause, one of them
would have no such vertex before it, as the graph is acyclic, and the failure it saw would
be its cause or have one. The refinement maps a vertex by `status`; a step of the walker is
a step of one node there or a stutter.

*Graph.* `OrderExact` speaks of paths, in a graph that a reduction has thinned out between
two parsers and that lost edges which later ones would have implied. `GraphInv` therefore
compares closed sets: every set closed under the edges there are is closed under the edges
asked for so far, and no edge is there that was not asked for, or comes from the root. Two
relations with the same closed sets have the same `Below`, and a reduction keeps the closed
sets of an acyclic graph, which is shown by well-founded induction on what is below a
vertex. For a refusal the edges at hand are among those that `RefusalJustified` names.

*Engine.* `EngineInv` says when the index of a resource is what the storage has: always,
but between its refresh and its save or in doubt; this is why a node may save the entries
of all others at any time. `TurnsInv` adds that a planned node has all before it succeeded
and that a skipped one has a failed or skipped one before it, whatever fails; `OrderInv`
that what a succeeded node reached stays reached. Without the assumption on deletes the
second row of section 4 is the counterexample; the other faults, crashes included, are
allowed. For `Converged`, `ConvergeInv` says that a resource has exactly the fields
recorded, but while its node is between the call and the save, so that the three-way merge
removes all that it should; the third row of section 4 is why a lost answer, a refused save
or a crash ends that.

*Session.* The two walks share the spec that `PreExecute` rewrites, so what a preview has
found must be what the operation leaves. `SpecInv` says what each link has become: itself,
or the value of its target, and then the id of the target can no longer change (`Fixed`);
`LinkInv` that references outlive a preview only if there was no state; `OrderInv` that the
target of the reference a node still has is over, also when the preview has replaced others
(which keeps the target in DependsOn). `IndexInv`, `ActionInv` and `DoneInv` say what the
index, the action and the infrastructure of a node are at each stage, `SuccessInv` and
`ConvergedInv` what is true once a spec has been reached, and `StepsInv` and `ForetoldInv`
that every finished node of a preview has one step, after those of the nodes it waited for,
with the action that the operation will compute again.

*Report.* Until the receiver has counted itself no node gets past its first message; from
then on the WaitGroup holds the command until the receiver has seen the channel closed; a
success is on its way, being handled, or counted.

*Storage.* None of the properties is inductive. `StorageInv` says that at most one command
is at work until two overlap; that the states its query has to do with are no newer than its
session, and older once it is to save; and that two rows of one cluster differ in their
serial number, so that the newest of a table is one and is the one just saved. The file is
whole once something was written, unless a command is between truncation and write, or was
cut off there. For the refinement, `Visible` is what a query of each cluster returns, and
what a command is about to write while the file is truncated: a truncation is then the save,
the write a stutter, and a crash in between a `Forget`.

*Terraform.* `TerraformInv` says per node what holds in each call (`CallInv`): while it has
the mutex the workspace and its directory have its own configuration, so nobody else's
directory is written; once it has read, the Terraform state knows the instance
(`InstanceInv`), hence nothing is made twice and a crash loses nothing; and a node that plans
or saves knows the instance by the id that is recorded (`SuccessInv`).

*Watch.* A goroutine runs exactly as long as its table is incomplete, so a table that counts
as finished no longer changes, and the printing loop, which would follow the nil row of a
missing object, has been through since (`TablesInv`). The collection leaves at least one
object for each resource, so no table is complete at the start (`CollectInv`). Each level of
a collection watches a kind nearer to the end of the chain of dependents (`Depth`), so there
are at most three and the events of one object come to a table over one wire (`ChainInv`):
they stay in order, and the last one on its way, or else the row, is up to date
(`FreshInv`). A listed object has a row or an event on its way (`ListedInv`), which leaves
the reasons of `PanicsExplained` for a missing row when a table is printed.

*Scaffolding.* A file is written only after it was opened, opened without `--force` only
when it was absent, and the deferred removal runs on every way out but a failed retrieval
(`TidyInv`). `WriteInv` says that what the walk has left behind it is on the disk, unless
others wrote it: directories come before what they hold, so a file is only opened below a
directory that is there. `ReadInv` says what a reader that no generation has disturbed has
in memory: all files, whole, and a value for every field; it stands on `ShelfInv`, by which
a file of the internal shelf that is not whole is about to be written by some generation, or
one stopped early, and on `PulledInv`: of the official files those that are not whole are
the ones that the command itself still has to check out, unless another disturbed it. TLC
has checked `ScaffoldInv` too, on the instance of the run.

*Before the work.* The projects around a directory lie one within the other, so the closest
is within all of them, and the only project at or below it is itself; the stack is the only
one at or below the directory. A storage is set up from the merged keys once the type's
schema has let them through, so `Configure` meets no key but those, and the `path` of the
default reaches no type but local; who gave each key (`Giver`) is read off the merge, and a
path that is missing or empty in it is the process's (`ProcessGives`). For `deps` the hard
half is that nothing is missed while stacks cut files off: `Walks` keeps the files outside
all stacks among those asked about, and of every visited stack that it was named or has all
its entrance files in the index, none of which is such a file; what imports one is then
found at the end. TLC has checked `WorkspaceInv` on the instance of the run.

## 6. What is only model-checked

Liveness (`WaitReturns`, `NoHeadOfLineBlocking`, `RunEnds`, `ForeseenReturns`,
`OperationEnds`, `WatchReturns`, `CommandEnds`), which is out of the prover's reach. Every
safety property of the passing runs is a theorem.

## 7. What is not modelled

* A second `Update` of the walker, with its cancel channels: nothing in the repository
  calls it.
* The loops of the graph algorithms, specified by their results; the printing and hashing
  of graphs.
* The contents of attributes beyond fields, own values and links; the merge of nested
  Kubernetes objects, the discovery of API resources, the choice of the patch type.
* `diff`, which reads two files or the state and prints; the KCL compiler and the generation
  of specs, which are external; the command tables, flags, `compile`, `check`, `ls`, `env`,
  version, log, colours and layout.
* `Delete` of the storages, which only their tests call, and connections to databases and
  object stores beyond requests that succeed or fail.
* The text of the rows that the printers make, and of the templates that scaffolding
  renders, beyond which files lack a value.
* That Go may end the process on a concurrent write to the map of tables in the watch; the
  reads and writes are steps that interleave.
