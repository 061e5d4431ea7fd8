------------------------------ MODULE Progress ------------------------------
(***************************************************************************)
(* The progress report of kusion apply and kusion destroy                  *)
(* (pkg/cmd/apply/options.go, pkg/cmd/destroy/options.go).  The command    *)
(* calls the engine, whose walk sends two messages per resource on the     *)
(* unbuffered MsgCh, from a goroutine per resource, while a goroutine of   *)
(* the command receives them, looks the resource up among the changes that *)
(* the preview found, and counts.  The command waits for it and prints.    *)
(***************************************************************************)
EXTENDS Digraphs, Integers

CONSTANTS Keys,     \* the resources of the graph being walked
          Graphs,   \* the dependencies it may have, each a subset of Keys \X Keys
          Previews  \* the sets of resources the preview may have found

(* Both commands return at once when there is no resource.                 *)
ASSUME KeysAssumption == Keys # {}

ASSUME GraphsAssumption ==
  \A E \in Graphs : E \subseteq Keys \X Keys /\ Acyclic(Keys, E)

ASSUME PreviewsAssumption == \A P \in Previews : P \subseteq Keys

VARIABLES edges,     \* the dependencies
          steps,     \* the resources with a ChangeStep
          node,      \* where applyWalkFun is, for each resource
          effect,    \* history: the resources whose execution succeeded
          main,      \* the command: walking, waiting for wg, or returned
          error,     \* whether it returned an error
          closed,    \* whether MsgCh is closed
          receiver,  \* the goroutine that receives
          message,   \* the message it handles, if any
          wg,        \* the counter of the WaitGroup
          counted    \* the resources in its summary

reportVars == <<edges, steps, node, effect, main, error, closed, receiver, message,
          wg, counted>>

Over == {"succeeded", "failed", "skipped"}

ReportInit ==
  /\ edges \in Graphs
  /\ steps \in Previews
  /\ node = [k \in Keys |-> "pending"]
  /\ effect = {}
  /\ main = "walking"
  /\ error = FALSE
  /\ closed = FALSE
  /\ receiver = "new"
  /\ message = {}
  /\ wg = 0
  /\ counted = {}

Enter(k, s) == node' = [node EXCEPT ![k] = s]

-----------------------------------------------------------------------------
(* applyWalkFun: it sends a message, executes the node and sends another.  *)
Call(k) ==
  /\ node[k] = "pending"
  /\ \A j \in UpEdges(edges, k) : node[j] = "succeeded"
  /\ Enter(k, "announce")
  /\ UNCHANGED <<edges, steps, effect, main, error, closed, receiver, message,
                 wg, counted>>

(* Mutant: a failed execution is tried again without an end.               *)
ExecuteRetries(k) ==
  /\ node[k] = "execute"
  /\ \/ Enter(k, "success") /\ effect' = effect \cup {k}
     \/ Enter(k, "announce") /\ UNCHANGED effect
  /\ UNCHANGED <<edges, steps, main, error, closed, receiver, message, wg, counted>>

(* A panic is recovered: no second message, and no diagnostics.            *)
Execute(k) ==
  /\ node[k] = "execute"
  /\ \/ Enter(k, "success") /\ effect' = effect \cup {k}
     \/ Enter(k, "failure") /\ UNCHANGED effect
     \/ Enter(k, "succeeded") /\ UNCHANGED effect
  /\ UNCHANGED <<edges, steps, main, error, closed, receiver, message, wg, counted>>

Skip(k) ==
  /\ node[k] = "pending"
  /\ \A j \in UpEdges(edges, k) : node[j] \in Over
  /\ \E j \in UpEdges(edges, k) : node[j] # "succeeded"
  /\ Enter(k, "skipped")
  /\ UNCHANGED <<edges, steps, effect, main, error, closed, receiver, message,
                 wg, counted>>

-----------------------------------------------------------------------------
(* The goroutine of the command adds itself to wg when it is scheduled.    *)
StartReceiver ==
  /\ receiver = "new"
  /\ receiver' = "receiving"
  /\ wg' = wg + 1
  /\ UNCHANGED <<edges, steps, node, effect, main, error, closed, message, counted>>

Sending == {"announce", "success", "failure"}

Sent(s) ==
  CASE s = "announce" -> "execute"
    [] s = "success" -> "succeeded"
    [] s = "failure" -> "failed"

(* A send and a receive on MsgCh, which has no buffer.                     *)
Receive(k) ==
  /\ receiver = "receiving"
  /\ node[k] \in Sending
  /\ message' = {[key |-> k, of |-> node[k]]}
  /\ Enter(k, Sent(node[k]))
  /\ receiver' = "handling"
  /\ UNCHANGED <<edges, steps, effect, main, error, closed, wg, counted>>

(* Mutant: the message that announces a resource is counted as well.       *)
AnyMessage(of) == of # "failure"

(* ls.Count, deleted++                                                     *)
CountedMessage(of) == of = "success"

(* Every message needs the ChangeStep, and Get gives nil if there is none. *)
Handle ==
  /\ receiver = "handling"
  /\ \E m \in message :
       /\ receiver' = IF m.key \in steps THEN "receiving" ELSE "dead"
       /\ counted' = IF m.key \in steps /\ CountedMessage(m.of)
                     THEN counted \cup {m.key} ELSE counted
  /\ message' = {}
  /\ UNCHANGED <<edges, steps, node, effect, main, error, closed, wg>>

EndReceiver ==
  /\ receiver = "receiving"
  /\ closed
  /\ receiver' = "gone"
  /\ wg' = wg - 1
  /\ UNCHANGED <<edges, steps, node, effect, main, error, closed, message, counted>>

-----------------------------------------------------------------------------
(* Mutant: the walk is taken for finished when every node was reached.     *)
WalkStarted == \A k \in Keys : node[k] # "pending"

(* walker.Wait                                                             *)
WalkOver == \A k \in Keys : node[k] \in Over

(* The engine returns, its deferred call closes MsgCh; the command returns *)
(* at once on an error.                                                    *)
CloseMsgCh ==
  /\ main = "walking"
  /\ WalkOver
  /\ closed' = TRUE
  /\ error' = \E k \in Keys : node[k] = "failed"
  /\ main' = IF error' THEN "returned" ELSE "waiting"
  /\ UNCHANGED <<edges, steps, node, effect, receiver, message, wg, counted>>

(* wg.Wait                                                                 *)
Return ==
  /\ main = "waiting"
  /\ wg = 0
  /\ main' = "returned"
  /\ UNCHANGED <<edges, steps, node, effect, error, closed, receiver, message,
                 wg, counted>>

Exited == main = "returned" /\ UNCHANGED reportVars

NodeStep(k) == Call(k) \/ Execute(k) \/ Skip(k)

ReportNext ==
  \/ \E k \in Keys : NodeStep(k) \/ Receive(k)
  \/ StartReceiver \/ Handle \/ EndReceiver
  \/ CloseMsgCh \/ Return
  \/ Exited

ReportSpec == ReportInit /\ [][ReportNext]_reportVars

(* Goroutines that can run do, and an execution ends.                      *)
FairReportSpec ==
  /\ ReportSpec
  /\ \A k \in Keys : WF_reportVars(NodeStep(k)) /\ WF_reportVars(Receive(k))
  /\ WF_reportVars(StartReceiver) /\ WF_reportVars(Handle) /\ WF_reportVars(EndReceiver)
  /\ WF_reportVars(CloseMsgCh) /\ WF_reportVars(Return)

-----------------------------------------------------------------------------
ReportTypeOK ==
  /\ edges \in Graphs
  /\ steps \in Previews
  /\ node \in [Keys -> {"pending", "execute"} \cup Sending \cup Over]
  /\ effect \subseteq Keys
  /\ main \in {"walking", "waiting", "returned"}
  /\ error \in BOOLEAN
  /\ closed \in BOOLEAN
  /\ receiver \in {"new", "receiving", "handling", "gone", "dead"}
  /\ message \subseteq [key : Keys, of : Sending]
  /\ wg \in {0, 1}
  /\ counted \subseteq Keys

(* "Wait for msgCh closed", then print: although wg.Add is called by the   *)
(* goroutine itself, the command cannot overtake it, and the summary has   *)
(* every resource whose execution succeeded and no other.                  *)
SummaryTrue ==
  main = "returned" /\ ~error => receiver = "gone" /\ counted = effect

(* Nothing is sent on MsgCh after it is closed, which would panic.         *)
NoSendAfterClose == closed => \A k \in Keys : node[k] \notin Sending

(* "Wait for msgCh closed": the command ends.                              *)
CommandReturns == <>(main = "returned")

(* It does if the preview found every resource, whatever the walk does.    *)
ForeseenReturns == steps = Keys => CommandReturns

-----------------------------------------------------------------------------
(* Why it works.  Until the receiver counts itself no node gets past its   *)
(* first message, so neither the walk nor the command ends before it does; *)
(* and a success is on its way, being handled, or counted.                 *)
Unreported ==
  {k \in Keys : node[k] = "success"} \cup {m.key : m \in {n \in message : n.of = "success"}}

ReceiverInv ==
  /\ receiver = "new" => \A k \in Keys : node[k] \in {"pending", "announce"}
  /\ wg = IF receiver \in {"new", "gone"} THEN 0 ELSE 1
  /\ receiver # "handling" => message = {}
  /\ receiver = "handling" => \E m \in message : message = {m}
  /\ receiver # "dead" => effect = counted \cup Unreported

ClosedInv ==
  /\ closed <=> main # "walking"
  /\ closed => WalkOver
  /\ main = "returned" /\ ~error => receiver = "gone" /\ message = {}

ProgressInv == ReportTypeOK /\ ReceiverInv /\ ClosedInv
=============================================================================
