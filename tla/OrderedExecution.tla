-------------------------- MODULE OrderedExecution --------------------------
(***************************************************************************)
(* What the engine asks of a walk of the resource graph, whatever walks    *)
(* it: a node runs once, after every node it depends on succeeded; a node  *)
(* with a failed or skipped dependency is skipped when all of its          *)
(* dependencies are over; the walk is over when every node is, and reports *)
(* the nodes that failed and no other.                                     *)
(***************************************************************************)
EXTENDS Digraphs

CONSTANTS Vertices,  \* the nodes of the graph
          Graphs     \* the sets of edges to walk

VARIABLES edges,     \* the dependencies: <<u, v>> when v depends on u
          status,    \* what became of each node
          returned,  \* whether the walk is over
          report     \* the nodes it reports as failed

vars == <<edges, status, returned, report>>

Deps(v) == UpEdges(edges, v)

Over == {"succeeded", "failed", "skipped"}

Init ==
  /\ edges \in Graphs
  /\ status = [v \in Vertices |-> "pending"]
  /\ returned = FALSE
  /\ report = {}

Run(v) ==
  /\ status[v] = "pending"
  /\ \A u \in Deps(v) : status[u] = "succeeded"
  /\ status' = [status EXCEPT ![v] = "running"]
  /\ UNCHANGED <<edges, returned, report>>

Finish(v) ==
  /\ status[v] = "running"
  /\ \E s \in {"succeeded", "failed"} : status' = [status EXCEPT ![v] = s]
  /\ UNCHANGED <<edges, returned, report>>

Skip(v) ==
  /\ status[v] = "pending"
  /\ \A u \in Deps(v) : status[u] \in Over
  /\ \E u \in Deps(v) : status[u] # "succeeded"
  /\ status' = [status EXCEPT ![v] = "skipped"]
  /\ UNCHANGED <<edges, returned, report>>

Report ==
  /\ ~returned
  /\ \A v \in Vertices : status[v] \in Over
  /\ returned' = TRUE
  /\ report' = {v \in Vertices : status[v] = "failed"}
  /\ UNCHANGED <<edges, status>>

Next == Report \/ \E v \in Vertices : Run(v) \/ Finish(v) \/ Skip(v)

Spec == Init /\ [][Next]_vars
=============================================================================
