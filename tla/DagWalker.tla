----------------------------- MODULE DagWalker ------------------------------
(***************************************************************************)
(* dag.Walker, the parallel walk under every operation of the engine       *)
(* (third_party/terraform/dag/walk.go), for one Update with the whole      *)
(* graph followed by Wait, as apply, destroy and preview use it.  Every    *)
(* vertex has a goroutine of its own (walkVertex) and, if it has           *)
(* dependencies, a second one that waits for them (waitDeps).  They meet   *)
(* through the DoneCh of a vertex (doneCh holds the vertices whose channel *)
(* is closed), the one-value channel DepsCh, diagsMap and the WaitGroup.   *)
(***************************************************************************)
EXTENDS Digraphs, Integers

CONSTANTS Vertices,     \* the vertices of the graph
          Graphs        \* the sets of edges Update may be given

ASSUME VerticesAssumption == IsFiniteSet(Vertices)

(* The parsers only hand over graphs that Validate accepted.               *)
ASSUME GraphsAssumption ==
  \A E \in Graphs : E \subseteq Vertices \X Vertices /\ Acyclic(Vertices, E)

VARIABLES edges,          \* the edges of the graph being walked
          toWait,         \* Update: vertices whose waitDeps is not started yet
          waiting,        \* the vertices whose waitDeps is running
          pc,             \* where the goroutine of each vertex is
          depsCh,         \* the value in each vertex's DepsCh
          depsSuccess,    \* each walkVertex's copy of what it received
          diags,          \* each walkVertex's diagnostics, not yet recorded
          diagsMap,       \* the recorded diagnostics
          upstreamFailed, \* the vertices recorded as skipped
          doneCh,         \* the vertices whose DoneCh is closed
          wait,           \* the counter of the WaitGroup
          returned,       \* whether Wait has returned
          report          \* the vertices whose diagnostics Wait returned

vars == <<edges, toWait, waiting, pc, depsCh, depsSuccess, diags, diagsMap,
          upstreamFailed, doneCh, wait, returned, report>>

(* edgeParts, with Reverse unset: the target waits for the source.         *)
Deps(v) == UpEdges(edges, v)

Stages == {"new", "load", "await", "gate", "callback", "record", "close",
           "lower", "exit"}

-----------------------------------------------------------------------------
(* Mutant: only the vertices that have dependencies are counted.           *)
CountOnlyWaiters == {v \in Vertices : UpEdges(edges, v) # {}}
(* Update adds one to the WaitGroup for each of these.                     *)
Counted == Vertices

(* Update: no goroutine runs before its two loops of go statements.        *)
Init ==
  /\ edges \in Graphs
  /\ toWait = {v \in Vertices : UpEdges(edges, v) # {}}
  /\ waiting = {}
  /\ pc = [v \in Vertices |-> "new"]
  /\ depsCh = [v \in Vertices |-> "empty"]
  /\ depsSuccess = [v \in Vertices |-> FALSE]
  /\ diags = [v \in Vertices |-> "none"]
  /\ diagsMap = [v \in Vertices |-> "none"]
  /\ upstreamFailed = {}
  /\ doneCh = {}
  /\ wait = Cardinality(Counted)
  /\ returned = FALSE
  /\ report = {}

StartWaiter(v) ==
  /\ v \in toWait
  /\ toWait' = toWait \ {v}
  /\ waiting' = waiting \cup {v}
  /\ UNCHANGED <<edges, pc, depsCh, depsSuccess, diags, diagsMap,
                 upstreamFailed, doneCh, wait, returned, report>>

StartVertex(v) ==
  /\ toWait = {}
  /\ pc[v] = "new"
  /\ pc' = [pc EXCEPT ![v] = "load"]
  /\ UNCHANGED <<edges, toWait, waiting, depsCh, depsSuccess, diags, diagsMap,
                 upstreamFailed, doneCh, wait, returned, report>>

-----------------------------------------------------------------------------
(* waitDeps: wait for the DoneCh of every dependency, whatever the order,  *)
(* then read their diagnostics under diagsLock and send one value.         *)
AllDone(v) == Deps(v) \subseteq doneCh

WaitDeps(v) ==
  /\ v \in waiting
  /\ AllDone(v)
  /\ waiting' = waiting \ {v}
  /\ depsCh' = [depsCh EXCEPT ![v] =
                  IF \E u \in Deps(v) : diagsMap[u] = "error"
                  THEN "false" ELSE "true"]
  /\ UNCHANGED <<edges, toWait, pc, depsSuccess, diags, diagsMap,
                 upstreamFailed, doneCh, wait, returned, report>>

-----------------------------------------------------------------------------
(* Mutant: the DepsCh that Update left is not loaded.                      *)
LoadNoDeps(v) ==
  /\ pc[v] = "load"
  /\ depsSuccess' = [depsSuccess EXCEPT ![v] = TRUE]
  /\ pc' = [pc EXCEPT ![v] = "gate"]
  /\ UNCHANGED <<edges, toWait, waiting, depsCh, diags, diagsMap,
                 upstreamFailed, doneCh, wait, returned, report>>

(* walkVertex, first turn of its loop: the channel it made itself yields   *)
(* true at once; a second turn follows if Update left a DepsCh.            *)
LoadDeps(v) ==
  /\ pc[v] = "load"
  /\ depsSuccess' = [depsSuccess EXCEPT ![v] = TRUE]
  /\ pc' = [pc EXCEPT ![v] = IF Deps(v) = {} THEN "gate" ELSE "await"]
  /\ UNCHANGED <<edges, toWait, waiting, depsCh, diags, diagsMap,
                 upstreamFailed, doneCh, wait, returned, report>>

ReceiveDeps(v) ==
  /\ pc[v] = "await"
  /\ depsCh[v] # "empty"
  /\ depsSuccess' = [depsSuccess EXCEPT ![v] = (depsCh[v] = "true")]
  /\ depsCh' = [depsCh EXCEPT ![v] = "empty"]
  /\ pc' = [pc EXCEPT ![v] = "gate"]
  /\ UNCHANGED <<edges, toWait, waiting, diags, diagsMap, upstreamFailed,
                 doneCh, wait, returned, report>>

(* Mutant: one callback at a time.                                         *)
RunCallbackAlone(v) ==
  /\ pc[v] = "gate"
  /\ depsSuccess[v]
  /\ \A u \in Vertices : pc[u] # "callback"
  /\ pc' = [pc EXCEPT ![v] = "callback"]
  /\ UNCHANGED <<edges, toWait, waiting, depsCh, depsSuccess, diags, diagsMap,
                 upstreamFailed, doneCh, wait, returned, report>>

RunCallback(v) ==
  /\ pc[v] = "gate"
  /\ depsSuccess[v]
  /\ pc' = [pc EXCEPT ![v] = "callback"]
  /\ UNCHANGED <<edges, toWait, waiting, depsCh, depsSuccess, diags, diagsMap,
                 upstreamFailed, doneCh, wait, returned, report>>

(* Mutant: a callback that failed is called again.                         *)
CallbackRetries(v) ==
  /\ pc[v] = "callback"
  /\ \E d \in {"ok", "error"} :
       /\ diags' = [diags EXCEPT ![v] = d]
       /\ pc' = [pc EXCEPT ![v] = IF d = "ok" THEN "record" ELSE "gate"]
  /\ UNCHANGED <<edges, toWait, waiting, depsCh, depsSuccess, diagsMap,
                 upstreamFailed, doneCh, wait, returned, report>>

CallbackReturns(v) ==
  /\ pc[v] = "callback"
  /\ \E d \in {"ok", "error"} : diags' = [diags EXCEPT ![v] = d]
  /\ pc' = [pc EXCEPT ![v] = "record"]
  /\ UNCHANGED <<edges, toWait, waiting, depsCh, depsSuccess, diagsMap,
                 upstreamFailed, doneCh, wait, returned, report>>

SkipCallback(v) ==
  /\ pc[v] = "gate"
  /\ ~depsSuccess[v]
  /\ diags' = [diags EXCEPT ![v] = "error"]
  /\ pc' = [pc EXCEPT ![v] = "record"]
  /\ UNCHANGED <<edges, toWait, waiting, depsCh, depsSuccess, diagsMap,
                 upstreamFailed, doneCh, wait, returned, report>>

(* Mutant: the vertex whose own callback failed is taken for skipped.      *)
AnyError(v) == diags[v] = "error"

(* The local variable upstreamFailed of walkVertex.                        *)
UpstreamError(v) == ~depsSuccess[v]

Record(v) ==
  /\ pc[v] = "record"
  /\ diagsMap' = [diagsMap EXCEPT ![v] = diags[v]]
  /\ upstreamFailed' =
       IF UpstreamError(v) THEN upstreamFailed \cup {v} ELSE upstreamFailed
  /\ pc' = [pc EXCEPT ![v] = "close"]
  /\ UNCHANGED <<edges, toWait, waiting, depsCh, depsSuccess, diags, doneCh,
                 wait, returned, report>>

(* The deferred calls, last in first out: close(DoneCh), then wait.Done(). *)
CloseDone(v) ==
  /\ pc[v] = "close"
  /\ doneCh' = doneCh \cup {v}
  /\ pc' = [pc EXCEPT ![v] = "lower"]
  /\ UNCHANGED <<edges, toWait, waiting, depsCh, depsSuccess, diags, diagsMap,
                 upstreamFailed, wait, returned, report>>

LowerWait(v) ==
  /\ pc[v] = "lower"
  /\ wait' = wait - 1
  /\ pc' = [pc EXCEPT ![v] = "exit"]
  /\ UNCHANGED <<edges, toWait, waiting, depsCh, depsSuccess, diags, diagsMap,
                 upstreamFailed, doneCh, returned, report>>

-----------------------------------------------------------------------------
(* Wait, which the callers reach only after Update has returned.           *)
Wait ==
  /\ ~returned
  /\ \A v \in Vertices : pc[v] # "new"
  /\ wait = 0
  /\ returned' = TRUE
  /\ report' = {v \in Vertices : diagsMap[v] = "error"} \ upstreamFailed
  /\ UNCHANGED <<edges, toWait, waiting, pc, depsCh, depsSuccess, diags,
                 diagsMap, upstreamFailed, doneCh, wait>>

(* The steps of v's goroutines other than the return of its callback.      *)
WalkStep(v) ==
  \/ StartWaiter(v) \/ StartVertex(v) \/ WaitDeps(v)
  \/ LoadDeps(v) \/ ReceiveDeps(v) \/ RunCallback(v) \/ SkipCallback(v)
  \/ Record(v) \/ CloseDone(v) \/ LowerWait(v)

(* Wait has returned: nothing is left to do, and anything else that stops  *)
(* the walk is a deadlock.                                                 *)
Terminated == returned /\ UNCHANGED vars

Next ==
  \/ Wait
  \/ \E v \in Vertices : WalkStep(v) \/ CallbackReturns(v)
  \/ Terminated

Spec == Init /\ [][Next]_vars

(* Goroutines that can run are run; nothing is said of the callbacks.      *)
FairSpec ==
  Spec /\ WF_vars(Wait) /\ \A v \in Vertices : WF_vars(WalkStep(v))

(* Every callback returns as well.                                         *)
CallbacksReturn == \A v \in Vertices : WF_vars(CallbackReturns(v))

-----------------------------------------------------------------------------
TypeOK ==
  /\ edges \in Graphs
  /\ toWait \subseteq Vertices
  /\ waiting \subseteq Vertices
  /\ pc \in [Vertices -> Stages]
  /\ depsCh \in [Vertices -> {"empty", "true", "false"}]
  /\ depsSuccess \in [Vertices -> BOOLEAN]
  /\ diags \in [Vertices -> {"none", "ok", "error"}]
  /\ diagsMap \in [Vertices -> {"none", "ok", "error"}]
  /\ upstreamFailed \subseteq Vertices
  /\ doneCh \subseteq Vertices
  /\ wait \in Nat
  /\ returned \in BOOLEAN
  /\ report \subseteq Vertices

(* A resource is never touched before everything it depends on, directly   *)
(* or through other resources, is done and succeeded: while the callback   *)
(* of v runs, and ever after, no vertex above v is unfinished or failed.   *)
Started(v) ==
  \/ pc[v] = "callback"
  \/ pc[v] \in {"record", "close", "lower", "exit"} /\ depsSuccess[v]

CallbackOrder ==
  \A u, v \in Vertices :
    Started(v) /\ v \in Below(Vertices, edges, u) =>
      u \in doneCh /\ diagsMap[u] = "ok"

(* Wait hides the diagnostics of skipped vertices; none of them hides the  *)
(* cause: above each one is a vertex whose own callback failed.            *)
SkippedHasCause ==
  \A v \in upstreamFailed :
    \E u \in Vertices \ upstreamFailed :
      v \in Below(Vertices, edges, u) /\ diagsMap[u] = "error"

(* Wait returns after the last vertex and tells the truth: no goroutine is *)
(* left behind, and no error means that every callback ran and succeeded.  *)
WaitIsFinal ==
  returned =>
    /\ waiting = {}
    /\ \A v \in Vertices : pc[v] = "exit" /\ diagsMap[v] # "none"
    /\ report = {} => \A v \in Vertices : Started(v) /\ diagsMap[v] = "ok"
    /\ \A v \in Vertices :
         ~Started(v) => \E u \in report : v \in Below(Vertices, edges, u)

(* "If two vertices can be walked at the same time, they will be": once    *)
(* everything above v succeeded v's callback is called, even if callbacks  *)
(* of other vertices never return.                                         *)
NoHeadOfLineBlocking ==
  \A v \in Vertices :
    (\A u \in Deps(v) : diagsMap[u] = "ok") ~> Started(v)

(* Wait returns if the callbacks do: whichever fail, no goroutine waits    *)
(* for a channel that nobody closes or a value that nobody sends.          *)
WaitReturns == CallbacksReturn => <>returned

-----------------------------------------------------------------------------
(* Why it works: the inductive invariant behind the properties above.      *)
Arrived(v) == pc[v] \in {"gate", "callback", "record", "close", "lower", "exit"}
Recorded(v) == pc[v] \in {"close", "lower", "exit"}

DepsOk(v) == \A u \in Deps(v) : u \in doneCh /\ diagsMap[u] = "ok"

DepsBad(v) ==
  /\ Deps(v) \subseteq doneCh
  /\ \E u \in Deps(v) : diagsMap[u] = "error"

(* A channel is written before it is read and says what the dependencies   *)
(* have recorded; diagnostics are recorded before DoneCh is closed.        *)
VertexInv(v) ==
  /\ Deps(v) = {} => v \notin toWait \cup waiting /\ depsCh[v] = "empty"
  /\ v \in toWait => v \notin waiting
  /\ v \in toWait \cup waiting => ~Arrived(v) /\ depsCh[v] = "empty"
  /\ Arrived(v) => depsCh[v] = "empty"
  /\ depsCh[v] = "true" => DepsOk(v)
  /\ depsCh[v] = "false" => DepsBad(v)
  /\ Arrived(v) => IF depsSuccess[v] THEN DepsOk(v) ELSE DepsBad(v)
  /\ pc[v] = "callback" => depsSuccess[v]
  /\ pc[v] = "record" => diags[v] # "none" /\ (diags[v] = "ok" => depsSuccess[v])
  /\ diagsMap[v] # "none" <=> Recorded(v)
  /\ diagsMap[v] = "ok" => depsSuccess[v]
  /\ v \in upstreamFailed <=> Recorded(v) /\ ~depsSuccess[v]
  /\ v \in doneCh <=> pc[v] \in {"lower", "exit"}

CountInv == wait = Cardinality({v \in Vertices : pc[v] # "exit"})

ReportInv ==
  returned => /\ \A v \in Vertices : pc[v] = "exit"
              /\ report = {v \in Vertices : diagsMap[v] = "error"} \ upstreamFailed

WalkInv == TypeOK /\ (\A v \in Vertices : VertexInv(v)) /\ CountInv /\ ReportInv

-----------------------------------------------------------------------------
(* The walk implements the abstract execution.  A vertex is over, for the  *)
(* others, when its DoneCh is closed; it runs from the call of its         *)
(* callback until its diagnostics are recorded and the channel is closed.  *)
status ==
  [v \in Vertices |->
     IF v \notin doneCh
     THEN IF Started(v) THEN "running" ELSE "pending"
     ELSE IF v \in upstreamFailed THEN "skipped"
     ELSE IF diagsMap[v] = "ok" THEN "succeeded" ELSE "failed"]

Ordered ==
  INSTANCE OrderedExecution
    WITH Vertices <- Vertices, Graphs <- Graphs, edges <- edges,
         status <- status, returned <- returned, report <- report

OrderedSpec == Ordered!Spec
=============================================================================
