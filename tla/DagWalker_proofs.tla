-------------------------- MODULE DagWalker_proofs --------------------------
(***************************************************************************)
(* Proofs about DagWalker, for every set of vertices and every family of   *)
(* acyclic graphs on it.                                                   *)
(***************************************************************************)
EXTENDS DagWalker, FiniteSetTheorems, TLAPS

(* u is a source of v exactly when <<u, v>> is an edge.                    *)
LEMMA UpEdgesMember ==
  ASSUME NEW V, NEW E \in SUBSET (V \X V), NEW u, NEW v
  PROVE  u \in UpEdges(E, v) <=> <<u, v>> \in E
<1>1. \A e \in E : e = <<e[1], e[2]>> OBVIOUS
<1>2. ASSUME u \in UpEdges(E, v) PROVE <<u, v>> \in E
  BY <1>1, <1>2 DEF UpEdges
<1>3. ASSUME <<u, v>> \in E PROVE u \in UpEdges(E, v)
  <2>1. <<u, v>> \in {f \in E : f[2] = v} BY <1>3
  <2>2. <<u, v>>[1] = u OBVIOUS
  <2> QED BY <2>1, <2>2 DEF UpEdges
<1> QED BY <1>2, <1>3

(* The dependencies of a vertex are vertices.                              *)
LEMMA DepsAreVertices ==
  ASSUME TypeOK, NEW v PROVE Deps(v) \subseteq Vertices
<1>1. edges \subseteq Vertices \X Vertices BY GraphsAssumption DEF TypeOK
<1> QED BY <1>1 DEF Deps, UpEdges

(* Every step keeps the types; the WaitGroup still counts the vertex that  *)
(* lowers it.                                                              *)
LEMMA TypeStep == TypeOK /\ CountInv /\ [Next]_vars => TypeOK'
<1> SUFFICES ASSUME TypeOK, CountInv, [Next]_vars PROVE TypeOK' OBVIOUS
<1>1. CASE Wait BY <1>1 DEF Wait, TypeOK
<1>2. ASSUME NEW v \in Vertices, WalkStep(v) PROVE TypeOK'
  <2>1. CASE StartWaiter(v) BY <2>1 DEF StartWaiter, TypeOK
  <2>2. CASE StartVertex(v) BY <2>2 DEF StartVertex, TypeOK, Stages
  <2>3. CASE WaitDeps(v) BY <2>3 DEF WaitDeps, TypeOK
  <2>4. CASE LoadDeps(v) BY <2>4 DEF LoadDeps, TypeOK, Stages
  <2>5. CASE ReceiveDeps(v) BY <2>5 DEF ReceiveDeps, TypeOK, Stages
  <2>6. CASE RunCallback(v) BY <2>6 DEF RunCallback, TypeOK, Stages
  <2>7. CASE SkipCallback(v) BY <2>7 DEF SkipCallback, TypeOK, Stages
  <2>8. CASE Record(v) BY <2>8 DEF Record, UpstreamError, TypeOK, Stages
  <2>9. CASE CloseDone(v) BY <2>9 DEF CloseDone, TypeOK, Stages
  <2>10. CASE LowerWait(v)
    <3>1. IsFiniteSet({u \in Vertices : pc[u] # "exit"})
      BY VerticesAssumption, FS_Subset
    <3>2. {u \in Vertices : pc[u] # "exit"} # {} BY <1>2, <2>10 DEF LowerWait
    <3>3. wait # 0 BY <3>1, <3>2, FS_EmptySet DEF CountInv
    <3>4. wait - 1 \in Nat BY <3>3 DEF TypeOK
    <3> QED BY <2>10, <3>4 DEF LowerWait, TypeOK, Stages
  <2> QED
    BY <1>2, <2>1, <2>2, <2>3, <2>4, <2>5, <2>6, <2>7, <2>8, <2>9, <2>10
    DEF WalkStep
<1>3. ASSUME NEW v \in Vertices, CallbackReturns(v) PROVE TypeOK'
  BY <1>3 DEF CallbackReturns, TypeOK, Stages
<1>4. CASE UNCHANGED vars BY <1>4 DEF vars, TypeOK
<1> QED BY <1>1, <1>2, <1>3, <1>4 DEF Next, Terminated

-----------------------------------------------------------------------------
(* What a step may do to the vertices that are done: nothing; and the      *)
(* graph stays.                                                            *)
LEMMA DoneIsStable ==
  ASSUME WalkInv, [Next]_vars
  PROVE  /\ edges' = edges
         /\ doneCh \subseteq doneCh'
         /\ \A u \in doneCh : diagsMap'[u] = diagsMap[u]
<1> USE DEF WalkInv, TypeOK
<1>1. ASSUME NEW v \in Vertices, Record(v)
      PROVE  \A u \in doneCh : diagsMap'[u] = diagsMap[u]
  <2>1. VertexInv(v) OBVIOUS
  <2>2. v \notin doneCh BY <1>1, <2>1 DEF VertexInv, Record
  <2> QED BY <1>1, <2>2 DEF Record
<1>2. CASE Wait BY <1>2 DEF Wait
<1>3. ASSUME NEW v \in Vertices, WalkStep(v) \/ CallbackReturns(v)
      PROVE  /\ edges' = edges
             /\ doneCh \subseteq doneCh'
             /\ \A u \in doneCh : diagsMap'[u] = diagsMap[u]
  BY <1>1, <1>3 DEF WalkStep, StartWaiter, StartVertex, WaitDeps, LoadDeps,
     ReceiveDeps, RunCallback, SkipCallback, Record, CloseDone, LowerWait,
     CallbackReturns
<1>4. CASE UNCHANGED vars BY <1>4 DEF vars
<1> QED BY <1>2, <1>3, <1>4 DEF Next, Terminated

(* So what a vertex has learnt of its dependencies stays true.             *)
LEMMA DepsAreStable ==
  ASSUME WalkInv, [Next]_vars, NEW v \in Vertices
  PROVE  /\ Deps(v)' = Deps(v)
         /\ DepsOk(v) => DepsOk(v)'
         /\ DepsBad(v) => DepsBad(v)'
<1>1. Deps(v)' = Deps(v) BY DoneIsStable DEF Deps
<1>2. DepsOk(v) => DepsOk(v)' BY <1>1, DoneIsStable DEF DepsOk
<1>3. DepsBad(v) => DepsBad(v)' BY <1>1, DoneIsStable DEF DepsBad
<1> QED BY <1>1, <1>2, <1>3

(* A step of v's goroutines keeps the invariant of every vertex w.         *)
LEMMA VertexInvStep ==
  ASSUME WalkInv, NEW v \in Vertices, WalkStep(v) \/ CallbackReturns(v),
         NEW w \in Vertices
  PROVE  VertexInv(w)'
<1>1. [Next]_vars BY DEF Next
<1>2. /\ Deps(w)' = Deps(w)
      /\ DepsOk(w) => DepsOk(w)'
      /\ DepsBad(w) => DepsBad(w)'
  BY <1>1, DepsAreStable
<1>3. TypeOK /\ VertexInv(v) /\ VertexInv(w) BY DEF WalkInv
<1> USE DEF Arrived, Recorded
<1>4. CASE StartWaiter(v) BY <1>2, <1>3, <1>4 DEF StartWaiter, VertexInv, TypeOK
<1>5. CASE StartVertex(v) BY <1>2, <1>3, <1>5 DEF StartVertex, VertexInv, TypeOK
<1>6. CASE WaitDeps(v)
  <2>1. \A u \in Deps(v) : u \in Vertices BY <1>3, DepsAreVertices
  <2>2. \A u \in Vertices : VertexInv(u) BY DEF WalkInv
  <2>3. \A u \in Deps(v) : diagsMap[u] \in {"ok", "error"}
    BY <1>3, <1>6, <2>1, <2>2 DEF WaitDeps, AllDone, VertexInv, TypeOK
  <2>4. IF \E u \in Deps(v) : diagsMap[u] = "error" THEN DepsBad(v) ELSE DepsOk(v)
    BY <1>6, <2>3 DEF WaitDeps, AllDone, DepsBad, DepsOk
  <2>5. CASE w = v
    <3>1. Deps(v) # {} /\ ~Arrived(v) BY <1>3, <1>6 DEF WaitDeps, VertexInv
    <3>2. depsCh'[v] = "true" => DepsOk(v)
      BY <1>3, <1>6, <2>4 DEF WaitDeps, TypeOK
    <3>3. depsCh'[v] = "false" => DepsBad(v)
      BY <1>3, <1>6, <2>4 DEF WaitDeps, TypeOK
    <3> QED BY <1>2, <1>3, <1>6, <2>5, <3>1, <3>2, <3>3 DEF WaitDeps, VertexInv, TypeOK
  <2>6. CASE w # v BY <1>2, <1>3, <1>6, <2>6 DEF WaitDeps, VertexInv, TypeOK
  <2> QED BY <2>5, <2>6
<1>7. CASE LoadDeps(v)
  <2>1. Deps(v) = {} => DepsOk(v) BY DEF DepsOk
  <2> QED BY <1>2, <1>3, <1>7, <2>1 DEF LoadDeps, VertexInv, TypeOK
<1>8. CASE ReceiveDeps(v) BY <1>2, <1>3, <1>8 DEF ReceiveDeps, VertexInv, TypeOK
<1>9. CASE RunCallback(v) BY <1>2, <1>3, <1>9 DEF RunCallback, VertexInv, TypeOK
<1>10. CASE SkipCallback(v) BY <1>2, <1>3, <1>10 DEF SkipCallback, VertexInv, TypeOK
<1>11. CASE Record(v)
  BY <1>2, <1>3, <1>11 DEF Record, UpstreamError, VertexInv, TypeOK
<1>12. CASE CloseDone(v) BY <1>2, <1>3, <1>12 DEF CloseDone, VertexInv, TypeOK
<1>13. CASE LowerWait(v) BY <1>2, <1>3, <1>13 DEF LowerWait, VertexInv, TypeOK
<1>14. CASE CallbackReturns(v) BY <1>2, <1>3, <1>14 DEF CallbackReturns, VertexInv, TypeOK
<1> QED BY <1>4, <1>5, <1>6, <1>7, <1>8, <1>9, <1>10, <1>11, <1>12, <1>13, <1>14 DEF WalkStep

(* Initially no vertex has moved.                                          *)
LEMMA InitInv == Init => WalkInv
<1> SUFFICES ASSUME Init PROVE WalkInv OBVIOUS
<1>1. TypeOK
  <2>1. Cardinality(Vertices) \in Nat
    BY VerticesAssumption, FS_CardinalityType
  <2> QED BY <2>1 DEF Init, Counted, TypeOK, Stages
<1>2. ASSUME NEW v \in Vertices PROVE VertexInv(v)
  BY <1>2 DEF Init, VertexInv, Arrived, Recorded, Deps
<1>3. CountInv
  <2>1. {v \in Vertices : pc[v] # "exit"} = Vertices BY DEF Init
  <2> QED BY <2>1 DEF Init, Counted, CountInv
<1>4. ReportInv BY DEF Init, ReportInv
<1> QED BY <1>1, <1>2, <1>3, <1>4 DEF WalkInv

(* The WaitGroup counts the vertices that have not left walkVertex.        *)
LEMMA CountStep == WalkInv /\ [Next]_vars => CountInv'
<1> SUFFICES ASSUME WalkInv, [Next]_vars PROVE CountInv' OBVIOUS
<1> DEFINE Left == {v \in Vertices : pc[v] # "exit"}
<1>1. TypeOK /\ CountInv BY DEF WalkInv
<1>2. IsFiniteSet(Left) BY VerticesAssumption, FS_Subset
<1>3. ASSUME NEW v \in Vertices, LowerWait(v) PROVE CountInv'
  <2>1. Left' = Left \ {v} BY <1>1, <1>3 DEF LowerWait, TypeOK
  <2>2. v \in Left BY <1>3 DEF LowerWait
  <2>3. Cardinality(Left \ {v}) = Cardinality(Left) - 1
    BY <1>2, <2>2, FS_RemoveElement
  <2> QED BY <1>1, <1>3, <2>1, <2>3 DEF LowerWait, CountInv
<1>4. ASSUME UNCHANGED wait,
             \A v \in Vertices : pc'[v] = "exit" <=> pc[v] = "exit"
      PROVE  CountInv'
  <2>1. Left' = Left BY <1>4
  <2> QED BY <1>1, <1>4, <2>1 DEF CountInv
<1>5. ASSUME NEW v \in Vertices, WalkStep(v) \/ CallbackReturns(v), ~LowerWait(v)
      PROVE  /\ UNCHANGED wait
             /\ \A u \in Vertices : pc'[u] = "exit" <=> pc[u] = "exit"
  BY <1>1, <1>5 DEF WalkStep, StartWaiter, StartVertex, WaitDeps, LoadDeps,
     ReceiveDeps, RunCallback, SkipCallback, Record, CloseDone, CallbackReturns,
     TypeOK, Stages
<1>6. CASE Wait BY <1>4, <1>6 DEF Wait
<1>7. CASE UNCHANGED vars BY <1>4, <1>7 DEF vars
<1> QED BY <1>3, <1>4, <1>5, <1>6, <1>7 DEF Next, Terminated

(* Wait returns when the count is down to zero, and nothing moves after.   *)
LEMMA ReportStep == WalkInv /\ [Next]_vars => ReportInv'
<1> SUFFICES ASSUME WalkInv, [Next]_vars PROVE ReportInv' OBVIOUS
<1>1. TypeOK /\ CountInv /\ ReportInv BY DEF WalkInv
<1>2. CASE Wait
  <2>1. IsFiniteSet({v \in Vertices : pc[v] # "exit"})
    BY VerticesAssumption, FS_Subset
  <2>2. {v \in Vertices : pc[v] # "exit"} = {}
    BY <1>1, <1>2, <2>1, FS_EmptySet DEF Wait, CountInv
  <2> QED BY <1>2, <2>2 DEF Wait, ReportInv
<1>3. ASSUME NEW v \in Vertices, WalkStep(v) \/ CallbackReturns(v)
      PROVE  ReportInv'
  <2>1. UNCHANGED returned
    BY <1>3 DEF WalkStep, StartWaiter, StartVertex, WaitDeps, LoadDeps,
       ReceiveDeps, RunCallback, SkipCallback, Record, CloseDone, LowerWait,
       CallbackReturns
  <2>2. pc[v] = "exit" => v \notin toWait \cup waiting
    BY DEF WalkInv, VertexInv, Arrived
  <2>3. pc[v] # "exit"
    BY <1>3, <2>2 DEF WalkStep, StartWaiter, StartVertex, WaitDeps, LoadDeps,
       ReceiveDeps, RunCallback, SkipCallback, Record, CloseDone, LowerWait,
       CallbackReturns
  <2> QED BY <1>1, <2>1, <2>3 DEF ReportInv
<1>4. CASE UNCHANGED vars BY <1>1, <1>4 DEF vars, ReportInv
<1> QED BY <1>2, <1>3, <1>4 DEF Next, Terminated

(* The invariant is inductive.                                             *)
LEMMA InvStep == WalkInv /\ [Next]_vars => WalkInv'
<1>1. ASSUME WalkInv, [Next]_vars, NEW v \in Vertices PROVE VertexInv(v)'
  <2>1. ASSUME NEW u \in Vertices, WalkStep(u) \/ CallbackReturns(u)
        PROVE  VertexInv(v)'
    BY <1>1, <2>1, VertexInvStep
  <2>2. CASE Wait
    BY <1>1, <2>2 DEF Wait, WalkInv, VertexInv, Arrived, Recorded, DepsOk, DepsBad, Deps
  <2>3. CASE UNCHANGED vars
    BY <1>1, <2>3 DEF vars, WalkInv, VertexInv, Arrived, Recorded, DepsOk, DepsBad, Deps
  <2> QED BY <1>1, <2>1, <2>2, <2>3 DEF Next, Terminated
<1> QED BY <1>1, TypeStep, CountStep, ReportStep DEF WalkInv

(* It holds of every walk.                                                 *)
THEOREM WalkInvariant == Spec => []WalkInv
BY InitInv, InvStep, PTL DEF Spec

(* Values keep their types.                                                *)
THEOREM TypeCorrect == Spec => []TypeOK
<1>1. WalkInv => TypeOK BY DEF WalkInv
<1> QED BY WalkInvariant, <1>1, PTL

-----------------------------------------------------------------------------
(* An edge seen from its two ends.                                         *)
LEMMA UpIsDown ==
  ASSUME NEW V, NEW E \in SUBSET (V \X V), NEW u, NEW v
  PROVE  v \in DownEdges(E, u) <=> u \in UpEdges(E, v)
<1>1. \A e \in E : e = <<e[1], e[2]>> OBVIOUS
<1>2. ASSUME v \in DownEdges(E, u) PROVE <<u, v>> \in E
  BY <1>1, <1>2 DEF DownEdges
<1>3. ASSUME <<u, v>> \in E PROVE v \in DownEdges(E, u)
  <2>1. <<u, v>> \in {f \in E : f[1] = u} BY <1>3
  <2>2. <<u, v>>[2] = v OBVIOUS
  <2> QED BY <2>1, <2>2 DEF DownEdges
<1> QED BY <1>2, <1>3, UpEdgesMember

(* What is below a vertex: its targets, and the targets of what is below.  *)
LEMMA BelowStep ==
  ASSUME NEW V, NEW E, NEW u, NEW v \in V
  PROVE  /\ v \in DownEdges(E, u) => v \in Below(V, E, u)
         /\ \A w \in Below(V, E, u) :
              v \in DownEdges(E, w) => v \in Below(V, E, u)
BY DEF Below

(* Whoever is started has dependencies that succeeded, after their own.    *)
LEMMA StartedDeps ==
  ASSUME WalkInv, NEW v \in Vertices, Started(v), NEW u \in Deps(v)
  PROVE  u \in Vertices /\ u \in doneCh /\ diagsMap[u] = "ok" /\ Started(u)
<1>1. u \in Vertices BY DepsAreVertices DEF WalkInv
<1>2. VertexInv(u) /\ VertexInv(v) BY <1>1 DEF WalkInv
<1>3. DepsOk(v) BY <1>2 DEF VertexInv, Started, Arrived
<1>4. u \in doneCh /\ diagsMap[u] = "ok" BY <1>3 DEF DepsOk
<1>5. depsSuccess[u] /\ pc[u] \in {"lower", "exit"} BY <1>2, <1>4 DEF VertexInv
<1> QED BY <1>1, <1>4, <1>5 DEF Started

(* The vertices that are not started are closed under the edges, so what   *)
(* lies below a vertex that has not succeeded is among them.               *)
LEMMA OrderFromInv == WalkInv => CallbackOrder
<1> SUFFICES ASSUME WalkInv, NEW u \in Vertices, NEW v \in Vertices,
                    v \in Below(Vertices, edges, u), Started(v),
                    ~(u \in doneCh /\ diagsMap[u] = "ok")
             PROVE  FALSE
  BY DEF CallbackOrder
<1> DEFINE C == {w \in Vertices : ~Started(w)}
<1>1. edges \in SUBSET (Vertices \X Vertices)
  BY GraphsAssumption DEF WalkInv, TypeOK
<1>2. \A x, w : x \in DownEdges(edges, w) => x \in Vertices /\ w \in Deps(x)
  <2>1. ASSUME NEW x, NEW w, x \in DownEdges(edges, w)
        PROVE  x \in Vertices /\ w \in Deps(x)
    <3>1. x \in Vertices BY <1>1, <2>1 DEF DownEdges
    <3>2. w \in Deps(x) BY <1>1, <2>1, UpIsDown DEF Deps
    <3> QED BY <3>1, <3>2
  <2> QED BY <2>1
<1>3. DownEdges(edges, u) \subseteq C BY <1>2, StartedDeps
<1>4. \A w \in C : DownEdges(edges, w) \subseteq C BY <1>2, StartedDeps
<1>5. v \in C
  <2>1. C \in SUBSET Vertices OBVIOUS
  <2> QED BY <1>3, <1>4, <2>1 DEF Below
<1> QED BY <1>5

(* No resource is touched before all it depends on succeeded.              *)
THEOREM CallbackOrderHolds == Spec => []CallbackOrder
BY WalkInvariant, OrderFromInv, PTL

(* Among the skipped vertices without a cause, were there any, one would   *)
(* have no dependency of the kind: the failure it saw is its cause or has  *)
(* one.                                                                    *)
LEMMA CauseFromInv == WalkInv => SkippedHasCause
<1> SUFFICES ASSUME WalkInv PROVE SkippedHasCause OBVIOUS
<1> DEFINE Cause(u, v) == /\ u \in Vertices \ upstreamFailed
                          /\ v \in Below(Vertices, edges, u)
                          /\ diagsMap[u] = "error"
           S == {v \in upstreamFailed : \A u \in Vertices : ~Cause(u, v)}
<1>1. edges \in SUBSET (Vertices \X Vertices) /\ Acyclic(Vertices, edges)
  BY GraphsAssumption DEF WalkInv, TypeOK
<1>2. ASSUME S # {} PROVE FALSE
  <2>1. S \in SUBSET Vertices BY DEF WalkInv, TypeOK
  <2>2. {v \in S : UpEdges(edges, v) \cap S = {}} # {}
    BY <1>1, <1>2, <2>1 DEF Acyclic
  <2>3. PICK v \in S : UpEdges(edges, v) \cap S = {} BY <2>2
  <2>4. v \in Vertices /\ VertexInv(v) BY <2>1, <2>3 DEF WalkInv
  <2>5. DepsBad(v) BY <2>3, <2>4 DEF VertexInv, Arrived, Recorded
  <2>6. PICK u \in Deps(v) : diagsMap[u] = "error" BY <2>5 DEF DepsBad
  <2>7. u \in Vertices BY <2>6, DepsAreVertices DEF WalkInv
  <2>8. v \in DownEdges(edges, u) BY <1>1, <2>6, UpIsDown DEF Deps
  <2>9. CASE u \notin upstreamFailed
    <3>1. Cause(u, v) BY <2>4, <2>6, <2>7, <2>8, <2>9, BelowStep
    <3> QED BY <2>3, <2>7, <3>1
  <2>10. CASE u \in upstreamFailed
    <3>1. u \notin S BY <2>3, <2>6 DEF Deps
    <3>2. PICK c \in Vertices : Cause(c, u) BY <2>10, <3>1
    <3>3. Cause(c, v) BY <2>4, <2>8, <3>2, BelowStep
    <3> QED BY <2>3, <3>3
  <2> QED BY <2>9, <2>10
<1> QED BY <1>2 DEF SkippedHasCause, WalkInv, TypeOK

(* A vertex is skipped because the callback of another failed.             *)
THEOREM SkippedHasCauseHolds == Spec => []SkippedHasCause
BY WalkInvariant, CauseFromInv, PTL

(* When Wait has returned every goroutine is gone, and a vertex that did   *)
(* not run is below one that the report names.                             *)
LEMMA FinalFromInv == WalkInv => WaitIsFinal
<1> SUFFICES ASSUME WalkInv, returned PROVE WaitIsFinal BY DEF WaitIsFinal
<1>1. /\ \A v \in Vertices : pc[v] = "exit" /\ VertexInv(v)
      /\ report = {v \in Vertices : diagsMap[v] = "error"} \ upstreamFailed
      /\ waiting \subseteq Vertices
      /\ diagsMap \in [Vertices -> {"none", "ok", "error"}]
  BY DEF WalkInv, ReportInv, TypeOK
<1>2. waiting = {} BY <1>1 DEF VertexInv, Arrived
<1>3. \A v \in Vertices : diagsMap[v] # "none" BY <1>1 DEF VertexInv, Recorded
<1>4. \A v \in upstreamFailed : \E u \in report : v \in Below(Vertices, edges, u)
  BY <1>1, CauseFromInv DEF SkippedHasCause
<1>5. \A v \in Vertices : ~Started(v) => v \in upstreamFailed
  BY <1>1 DEF Started, VertexInv, Recorded
<1>6. ASSUME report = {}, NEW v \in Vertices
      PROVE  Started(v) /\ diagsMap[v] = "ok"
  <2>1. v \notin upstreamFailed BY <1>4, <1>6
  <2>2. diagsMap[v] # "error" BY <1>1, <1>6, <2>1
  <2> QED BY <1>1, <1>3, <1>5, <2>1, <2>2
<1> QED BY <1>1, <1>2, <1>3, <1>4, <1>5, <1>6 DEF WaitIsFinal

(* Wait returns last, and what it returns accounts for every vertex.       *)
THEOREM WaitIsFinalHolds == Spec => []WaitIsFinal
BY WalkInvariant, FinalFromInv, PTL

-----------------------------------------------------------------------------
(* A step that leaves these alone leaves the status of all vertices alone. *)
LEMMA SameStatus ==
  ASSUME doneCh' = doneCh,
         \A v \in Vertices : Started(v)' <=> Started(v),
         \A v \in doneCh : /\ v \in upstreamFailed' <=> v \in upstreamFailed
                           /\ diagsMap'[v] = diagsMap[v]
  PROVE  status' = status
BY DEF status

(* The status of a vertex whose DoneCh is closed.                          *)
LEMMA DoneStatus ==
  ASSUME WalkInv, NEW v \in Vertices, v \in doneCh
  PROVE  /\ status[v] \in Ordered!Over
         /\ status[v] = "succeeded" <=> diagsMap[v] = "ok"
         /\ status[v] = "failed" <=> diagsMap[v] = "error" /\ v \notin upstreamFailed
<1>1. VertexInv(v) /\ diagsMap[v] \in {"none", "ok", "error"}
  BY DEF WalkInv, TypeOK
<1>2. pc[v] \in {"lower", "exit"} BY <1>1 DEF VertexInv
<1>3. diagsMap[v] # "none" BY <1>1, <1>2 DEF VertexInv, Recorded
<1>4. diagsMap[v] = "ok" => v \notin upstreamFailed BY <1>1 DEF VertexInv
<1> QED BY <1>1, <1>3, <1>4 DEF status, Ordered!Over

(* The walk starts as the abstract execution does.                         *)
LEMMA OrderedInit == Init => Ordered!Init
BY DEF Init, Ordered!Init, status, Started

(* Each step of the walk is a step of the abstract execution or none.      *)
LEMMA OrderedStep == WalkInv /\ [Next]_vars => [Ordered!Next]_Ordered!vars
<1> SUFFICES ASSUME WalkInv, [Next]_vars PROVE [Ordered!Next]_Ordered!vars
  OBVIOUS
<1>1. TypeOK /\ \A v \in Vertices : VertexInv(v) BY DEF WalkInv
<1>2. \A v \in Vertices : Ordered!Deps(v) = Deps(v) /\ Deps(v) \subseteq Vertices
  <2>1. \A v \in Vertices : Ordered!Deps(v) = Deps(v)
    BY DEF Ordered!Deps, Deps, Ordered!UpEdges, UpEdges
  <2>2. \A v \in Vertices : Deps(v) \subseteq Vertices BY <1>1, DepsAreVertices
  <2> QED BY <2>1, <2>2
<1>3. CASE Wait
  <2>1. \A v \in Vertices : v \in doneCh
    BY <1>3, ReportStep DEF Wait, ReportInv, WalkInv, VertexInv
  <2>2. status' = status BY <1>3, SameStatus DEF Wait, Started
  <2>3. {v \in Vertices : diagsMap[v] = "error"} \ upstreamFailed
        = {v \in Vertices : status[v] = "failed"}
    BY <2>1, DoneStatus
  <2>4. \A v \in Vertices : status[v] \in Ordered!Over BY <2>1, DoneStatus
  <2>5. Ordered!Report BY <1>3, <2>2, <2>3, <2>4 DEF Wait, Ordered!Report
  <2> QED BY <2>5 DEF Ordered!Next
<1>4. ASSUME NEW v \in Vertices, RunCallback(v) PROVE Ordered!Run(v)
  <2>1. VertexInv(v) /\ v \notin doneCh /\ DepsOk(v)
    BY <1>1, <1>4 DEF RunCallback, VertexInv, Arrived
  <2>2. \A u \in Ordered!Deps(v) : status[u] = "succeeded"
    BY <1>2, <2>1, DoneStatus DEF DepsOk
  <2>3. status[v] = "pending" BY <1>4, <2>1 DEF status, Started, RunCallback
  <2>4. status' = [status EXCEPT ![v] = "running"]
    BY <1>1, <1>4, <2>1 DEF status, Started, RunCallback, TypeOK
  <2> QED BY <1>4, <2>2, <2>3, <2>4 DEF Ordered!Run, RunCallback
<1>5. ASSUME NEW v \in Vertices, CloseDone(v)
      PROVE  Ordered!Finish(v) \/ Ordered!Skip(v)
  <2> DEFINE s == IF v \in upstreamFailed THEN "skipped"
                  ELSE IF diagsMap[v] = "ok" THEN "succeeded" ELSE "failed"
  <2>1. /\ v \notin doneCh /\ pc[v] = "close"
        /\ v \in upstreamFailed <=> ~depsSuccess[v]
        /\ ~depsSuccess[v] => DepsBad(v)
    BY <1>1, <1>5 DEF CloseDone, VertexInv, Arrived, Recorded
  <2>2. status' = [status EXCEPT ![v] = s]
    BY <1>1, <1>5, <2>1 DEF CloseDone, status, Started, TypeOK
  <2>3. CASE depsSuccess[v]
    <3>1. status[v] = "running" BY <2>1, <2>3 DEF status, Started
    <3>2. s \in {"succeeded", "failed"} BY <2>1, <2>3
    <3> QED BY <1>5, <2>2, <3>1, <3>2 DEF Ordered!Finish, CloseDone
  <2>4. CASE ~depsSuccess[v]
    <3>1. status[v] = "pending" /\ s = "skipped"
      BY <2>1, <2>4 DEF status, Started
    <3>2. \A u \in Deps(v) : status[u] \in Ordered!Over
      BY <1>2, <2>1, <2>4, DoneStatus DEF DepsBad
    <3>3. \E u \in Deps(v) : status[u] # "succeeded"
      BY <1>2, <2>1, <2>4, DoneStatus DEF DepsBad
    <3> QED BY <1>2, <1>5, <2>2, <3>1, <3>2, <3>3 DEF Ordered!Skip, CloseDone
  <2> QED BY <2>3, <2>4
<1>6. ASSUME NEW v \in Vertices, WalkStep(v) \/ CallbackReturns(v),
             ~RunCallback(v), ~CloseDone(v)
      PROVE  UNCHANGED Ordered!vars
  <2>1. VertexInv(v) BY <1>1
  <2>2. /\ doneCh' = doneCh
        /\ UNCHANGED <<edges, returned, report>>
    BY <1>6 DEF WalkStep, StartWaiter, StartVertex, WaitDeps, LoadDeps,
       ReceiveDeps, SkipCallback, Record, LowerWait, CallbackReturns
  <2>3. \A u \in Vertices : Started(u)' <=> Started(u)
    BY <1>1, <1>6, <2>1 DEF WalkStep, StartWaiter, StartVertex, WaitDeps, LoadDeps,
       ReceiveDeps, SkipCallback, Record, LowerWait, CallbackReturns, Started,
       VertexInv, TypeOK
  <2>4. \A u \in doneCh : /\ u \in upstreamFailed' <=> u \in upstreamFailed
                          /\ diagsMap'[u] = diagsMap[u]
    BY <1>1, <1>6, <2>1 DEF WalkStep, StartWaiter, StartVertex, WaitDeps, LoadDeps,
       ReceiveDeps, SkipCallback, Record, LowerWait, CallbackReturns, VertexInv,
       TypeOK
  <2>5. status' = status BY <2>2, <2>3, <2>4, SameStatus
  <2> QED BY <2>2, <2>5 DEF Ordered!vars
<1>7. CASE UNCHANGED vars
  <2>1. status' = status BY <1>7, SameStatus DEF vars, Started
  <2> QED BY <1>7, <2>1 DEF vars, Ordered!vars
<1> QED BY <1>3, <1>4, <1>5, <1>6, <1>7 DEF Next, Terminated, Ordered!Next

(* The parallel walk implements the ordered execution of the graph.        *)
THEOREM WalkImplementsOrder == Spec => OrderedSpec
<1>1. WalkInv /\ [Next]_vars => [Ordered!Next]_Ordered!vars BY OrderedStep
<1> QED BY OrderedInit, <1>1, WalkInvariant, PTL DEF Spec, OrderedSpec, Ordered!Spec
=============================================================================
