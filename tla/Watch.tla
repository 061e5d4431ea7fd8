------------------------------- MODULE Watch --------------------------------
(***************************************************************************)
(* kusion apply --watch (cmd/apply Watch, operation/watch.go, the Watch of *)
(* the Kubernetes runtime, printers/table.go).  For every resource that    *)
(* the apply has changed the runtime opens a watch on its kind and, once   *)
(* that has shown the object, on the kind of its dependents, one after the *)
(* other.  A goroutine per watch (doWatch) passes the events that match    *)
(* into a channel of one place, a goroutine per resource turns them into   *)
(* rows of its table, and the main goroutine prints all tables every       *)
(* second until they are complete.                                         *)
(*                                                                         *)
(* The cluster is external: an object goes through a given life, a         *)
(* sequence of statuses, and an event carries one of them.                 *)
(***************************************************************************)
EXTENDS Readiness, FiniteSets

CONSTANTS Worlds,    \* the clusters: objects with kind, owner, begin, life, and
                     \* whether that ends with the deletion
          Resources, \* the resources of the spec, by the names of their objects
          None,      \* no object
          Missing    \* a change step that the preview lacks

ASSUME ResourcesAssumption == Len(Resources) \in Nat \ {0}
ASSUME WorldsAssumption ==
  \A m \in Worlds :
    /\ IsFiniteSet(DOMAIN m)
    /\ \A o \in DOMAIN m : Len(m[o].life) \in Nat /\ m[o].begin \in 0..Len(m[o].life)

VARIABLES world,    \* the objects of the cluster
          at,       \* how far each object is in its life, 0 before it exists
          steps,    \* the actions of the preview
          phase,    \* where the main goroutine is
          turn,     \* the resource whose watchers are collected
          wanted,   \* the kind and the owner of the watch to open
          listed,   \* SequentialWatchers.IDs of each resource
          stream,   \* what the server has sent and doWatch not taken
          closed,   \* the watches that the server has closed
          channel,  \* resultCh of each watch
          rows,     \* Table.Rows: the event last seen of each object
          running,  \* the goroutines of the tables
          finished, \* finished
          printed   \* whether the tables were printed

main == <<phase, turn, wanted, listed>>
wires == <<stream, closed, channel>>
vars == <<world, at, steps, main, wires, rows, running, finished, printed>>

Objects == DOMAIN world
Turns == 1..Len(Resources)
Watches == Turns \X (1..3)

(* getDependentGVK and getNamedGVK; None stands for the empty GVK.         *)
DependentKind(kind) ==
  CASE kind = "Deployment" -> "ReplicaSet"
    [] kind \in {"DaemonSet", "StatefulSet"} -> "ControllerRevision"
    [] kind = "CronJob" -> "Job"
    [] kind \in {"ReplicaSet", "Job", "ReplicationController", "ControllerRevision"} -> "Pod"
    [] kind = "Service" -> IF \E o \in Objects : world[o].kind = "EndpointSlice"
                           THEN "EndpointSlice" ELSE "Endpoints"
    [] OTHER -> None

Deleted(o, i) == world[o].dies /\ i = Len(world[o].life)
Exists(o) == at[o] > 0 /\ ~Deleted(o, at[o])
Orders(S) == {f \in [1..Cardinality(S) -> S] : \A i, j \in DOMAIN f : f[i] = f[j] => i = j}

Init ==
  /\ world \in Worlds
  /\ at = [o \in Objects |-> world[o].begin]
  /\ steps \in [Turns -> {"Update", "UnChange", Missing}]
  /\ phase = "filter"
  /\ turn = 1
  /\ wanted = <<None, None>>
  /\ listed = [r \in Turns |-> <<>>]
  /\ stream = [w \in Watches |-> <<>>]
  /\ closed = {}
  /\ channel = [w \in Watches |-> <<>>]
  /\ rows = [r \in Turns |-> [o \in Objects |-> 0]]
  /\ running = {}
  /\ finished = {}
  /\ printed = FALSE

-----------------------------------------------------------------------------
Terraform(r) == Resources[r] \notin Objects

(* The resources that are to be watched: those that changed, and of them   *)
(* those with a runtime that can.                                          *)
Watched == {r \in Turns : steps[r] = "Update" /\ ~Terraform(r)}

After(r) == {s \in Watched : s > r}
Least(S) == CHOOSE r \in S : \A s \in S : r <= s

(* The collection goes to the next resource, or the tables start.          *)
Advance(S) ==
  IF S # {}
  THEN /\ phase' = "open"
       /\ turn' = Least(S)
       /\ wanted' = <<world[Resources[Least(S)]].kind, None>>
  ELSE /\ phase' = "start"
       /\ UNCHANGED <<turn, wanted>>

(* cmd/apply Watch looks every resource up in the change steps, where a    *)
(* preview that panicked on a node has none: a nil pointer.                *)
Filter ==
  /\ phase = "filter"
  /\ IF \E r \in Turns : steps[r] = Missing
     THEN phase' = "panicked" /\ UNCHANGED <<turn, wanted>>
     ELSE Advance(Watched)
  /\ UNCHANGED <<world, at, steps, listed, wires, rows, running, finished, printed>>

Level == Len(listed[turn]) + 1
Current == <<turn, Level>>

(* A watch starts with an event for each object that is there.             *)
Open ==
  /\ phase = "open"
  /\ \E order \in Orders({o \in Objects : world[o].kind = wanted[1] /\ Exists(o)}) :
       stream' = [stream EXCEPT ![Current] = [i \in DOMAIN order |-> <<order[i], at[order[i]]>>]]
  /\ phase' = "await"
  /\ UNCHANGED <<world, at, steps, turn, wanted, listed, closed, channel, rows, running,
                 finished, printed>>

OpenFails ==
  /\ phase = "open"
  /\ phase' = "failed"
  /\ UNCHANGED <<world, at, steps, turn, wanted, listed, wires, rows, running, finished,
                 printed>>

(* The owner that the objects of a watch must have: the root is found by   *)
(* its name, the others by the listed object of the level before.          *)
Matches(w, o) ==
  IF w[2] = 1 THEN o = Resources[w[1]] ELSE world[o].owner = listed[w[1]][w[2] - 1]

Relevant(w) == {i \in DOMAIN stream[w] : Matches(w, stream[w][i][1])}

Opened == {w \in Watches : w[2] <= Len(listed[w[1]]) \/ (phase = "await" /\ w = Current)}

(* Mutant: doWatch keeps what fits and drops the rest.                     *)
TakeDropping(w) ==
  /\ Relevant(w) # {}
  /\ LET i == Least(Relevant(w))
     IN  /\ channel' = [channel EXCEPT ![w] = IF @ = <<>> THEN <<stream[w][i]>> ELSE @]
         /\ stream' = [stream EXCEPT ![w] = SubSeq(@, i + 1, Len(@))]

(* doWatch passes the next event that matches, when its channel has room.  *)
Take(w) ==
  /\ Relevant(w) # {}
  /\ channel[w] = <<>>
  /\ LET i == Least(Relevant(w))
     IN  /\ channel' = [channel EXCEPT ![w] = <<stream[w][i]>>]
         /\ stream' = [stream EXCEPT ![w] = SubSeq(@, i + 1, Len(@))]

(* The first event of a watch is awaited.  The dependent is then read from *)
(* a variable that the goroutine sets at every match, so that it may be    *)
(* the next one already.                                                   *)
Forward(w) ==
  /\ w \in Opened
  /\ phase \in {"open", "await", "start", "watch", "tick"}
  /\ Take(w)
  /\ IF phase = "await" /\ w = Current
     THEN \E o \in {channel'[w][1][1]}
                   \cup {e[1] : e \in {stream'[w][i] : i \in {i \in DOMAIN stream'[w] :
                           Matches(w, stream'[w][i][1])
                           /\ \A j \in 1..(i - 1) : ~Matches(w, stream'[w][j][1])}}} :
            LET next == DependentKind(world[o].kind)
            IN  /\ listed' = [listed EXCEPT ![turn] = Append(@, o)]
                /\ IF next # None
                   THEN /\ phase' = "open"
                        /\ wanted' = <<next, o>>
                        /\ UNCHANGED turn
                   ELSE Advance(After(turn))
     ELSE UNCHANGED main
  /\ UNCHANGED <<world, at, steps, closed, rows, running, finished, printed>>

(* Without anything to watch the tables are printed at once.               *)
Start ==
  /\ phase = "start"
  /\ phase' = IF Watched = {} THEN "finished" ELSE "watch"
  /\ running' = Watched
  /\ UNCHANGED <<world, at, steps, turn, wanted, listed, wires, rows, finished, printed>>

-----------------------------------------------------------------------------
Status(o, i) == world[o].life[i]
Ready(o, i) == Deleted(o, i) \/ Generate(world[o].kind, Status(o, i))
Crashes(o, i) ==
  /\ ~Deleted(o, i)
  /\ \/ world[o].kind = "Job" /\ JobCrashes(Status(o, i))
     \/ world[o].kind = "Application" /\ ApplicationCrashes(Status(o, i))

Rows(t) == {o \in Objects : t[o] # 0}
Ids(r) == {listed[r][l] : l \in DOMAIN listed[r]}

(* Mutant: one READY row is enough.                                        *)
AnyCompleted(r, t) ==
  /\ Cardinality(Rows(t)) >= Len(listed[r])
  /\ \E o \in Rows(t) : Ready(o, t[o])

(* Mutant: the missing rows are not counted.                               *)
SeenCompleted(r, t) == \A o \in Rows(t) : Ready(o, t[o])

(* Mutant: a table has as many rows as ids.                                *)
ExactlyCompleted(r, t) ==
  /\ Cardinality(Rows(t)) = Len(listed[r])
  /\ \A o \in Rows(t) : Ready(o, t[o])

(* AllCompleted counts the rows, those of unlisted objects among them.     *)
AllCompleted(r, t) ==
  /\ Cardinality(Rows(t)) >= Len(listed[r])
  /\ \A o \in Rows(t) : Ready(o, t[o])

(* The goroutine of a table: an event of any channel becomes a row, and a  *)
(* complete table ends it.                                                 *)
Receive(r, l) ==
  /\ phase \in {"watch", "tick"}
  /\ r \in running
  /\ <<r, l>> \in Watches /\ channel[<<r, l>>] # <<>>
  /\ LET e == channel[<<r, l>>][1]
         t == [rows[r] EXCEPT ![e[1]] = e[2]]
     IN  /\ channel' = [channel EXCEPT ![<<r, l>>] = <<>>]
         /\ IF Crashes(e[1], e[2])
            THEN phase' = "panicked" /\ UNCHANGED <<rows, running>>
            ELSE /\ rows' = [rows EXCEPT ![r] = t]
                 /\ running' = IF AllCompleted(r, t) THEN running \ {r} ELSE running
                 /\ UNCHANGED phase
  /\ UNCHANGED <<world, at, steps, turn, wanted, listed, stream, closed, finished, printed>>

(* The main loop.  A second is enough for the goroutines to turn into rows *)
(* what was there at the start.                                            *)
Check ==
  /\ phase = "watch"
  /\ IF finished = Watched
     THEN phase' = "finished" /\ UNCHANGED finished
     ELSE /\ phase' = "tick"
          /\ finished' = finished \cup {r \in Watched : AllCompleted(r, rows[r])}
  /\ UNCHANGED <<world, at, steps, turn, wanted, listed, wires, rows, running, printed>>

Settled ==
  \A w \in Opened : w[1] \in running => channel[w] = <<>> /\ Relevant(w) = {}

(* printTables follows the pointer of every listed row.                    *)
Tick ==
  /\ phase = "tick"
  /\ printed \/ Settled
  /\ phase' = IF \E r \in Watched : \E o \in Ids(r) : rows[r][o] = 0
              THEN "panicked" ELSE "watch"
  /\ printed' = TRUE
  /\ UNCHANGED <<world, at, steps, turn, wanted, listed, wires, rows, running, finished>>

-----------------------------------------------------------------------------
Over == phase \in {"finished", "panicked", "failed"}

WatchKind(w) ==
  IF w[2] = 1 THEN world[Resources[w[1]]].kind
  ELSE DependentKind(world[listed[w[1]][w[2] - 1]].kind)

(* The cluster: an object moves on in its life, dependents after their     *)
(* owner has begun its own, and every open watch hears of it.              *)
Live(o) ==
  /\ ~Over
  /\ at[o] < Len(world[o].life)
  /\ world[o].owner # None => at[world[o].owner] > 0
  /\ at' = [at EXCEPT ![o] = @ + 1]
  /\ stream' = [w \in Watches |->
       IF w \in Opened \ closed /\ WatchKind(w) = world[o].kind
       THEN Append(stream[w], <<o, at[o] + 1>>) ELSE stream[w]]
  /\ UNCHANGED <<world, steps, main, closed, channel, rows, running, finished, printed>>

(* The server ends a watch; doWatch spins and nobody opens it again.       *)
Close(w) ==
  /\ ~Over
  /\ w \in Opened \ closed
  /\ closed = {}
  /\ closed' = {w}
  /\ UNCHANGED <<world, at, steps, main, stream, channel, rows, running, finished, printed>>

(* Over, or waiting for an event.                                          *)
Rest == (Over \/ phase = "await") /\ UNCHANGED vars

Next ==
  \/ Filter \/ Open \/ OpenFails \/ Start \/ Check \/ Tick
  \/ \E w \in Watches : Forward(w) \/ Close(w)
  \/ \E r \in Turns, l \in 1..3 : Receive(r, l)
  \/ \E o \in Objects : Live(o)
  \/ Rest

Spec == Init /\ [][Next]_vars

(* The goroutines and the main loop go on, and so does the cluster.        *)
Fairness ==
  /\ WF_vars(Filter) /\ WF_vars(Open) /\ WF_vars(Start) /\ WF_vars(Check) /\ WF_vars(Tick)
  /\ \A w \in Watches : WF_vars(Forward(w))
  /\ \A r \in Turns, l \in 1..3 : WF_vars(Receive(r, l))
  /\ \A o \in UNION {DOMAIN m : m \in Worlds} : WF_vars(o \in Objects /\ Live(o))

FairSpec == Spec /\ Fairness

-----------------------------------------------------------------------------
(* The tables of the resources hold what exists, a chain has at most three *)
(* members, the resource itself and each owned by the one before, and only *)
(* a watched resource has a goroutine or is finished.                      *)
TypeOK ==
  /\ phase \in {"filter", "open", "await", "start", "watch", "tick", "finished", "panicked",
                "failed"}
  /\ turn \in Turns
  /\ \A o \in Objects : at[o] \in 0..Len(world[o].life)
  /\ \A r \in Turns :
       /\ Len(listed[r]) <= 3
       /\ \A l \in DOMAIN listed[r] : Matches(<<r, l>>, listed[r][l])
       /\ \A o \in Objects : rows[r][o] \in 0..at[o]
  /\ \A w \in Watches : Len(channel[w]) <= 1
  /\ running \cup finished \subseteq Watched

(* "Watch Finish!" is said only when every listed object has a row, and    *)
(* that row is READY.                                                      *)
FinishedIsComplete ==
  phase = "finished" =>
    \A r \in Watched : \A o \in Ids(r) : rows[r][o] # 0 /\ Ready(o, rows[r][o])

(* No update is lost between the server and the table: what the last event *)
(* of an object said is its row or on its way.                             *)
NoUpdateLost ==
  \A w \in Opened \ closed : \A o \in Objects :
    phase # "panicked" /\ world[o].kind = WatchKind(w) /\ Matches(w, o) /\ at[o] > 0 =>
      LET coming == channel[w] \o stream[w]
          of == {i \in DOMAIN coming : coming[i][1] = o}
      IN  IF of = {} THEN rows[w[1]][o] = at[o] \/ Deleted(o, at[o])
          ELSE \A i \in of : (\A j \in of : j <= i) => coming[i][2] = at[o]

(* The wires from the server to the tables hold what was sent and no more. *)
WiresHold == TypeOK /\ NoUpdateLost

(* The program ends with a nil pointer only if the preview has left out a  *)
(* step, a Job once had no completions, an Application once ran without a  *)
(* workflow status, or a table has rows of objects that it does not list.  *)
PanicsExplained ==
  phase = "panicked" =>
    \/ \E r \in Turns : steps[r] = Missing
    \/ \E o \in Objects : \E i \in 1..at[o] : Crashes(o, i)
    \/ \E r \in Watched : ~(Rows(rows[r]) \subseteq Ids(r))

(* The watch waits for a dependent that never comes: the pods of a         *)
(* StatefulSet are not the revision's, and an old ReplicaSet has none.     *)
Childless ==
  /\ phase = "await"
  /\ Relevant(Current) = {}
  /\ \A o \in Objects :
       world[o].kind = wanted[1] /\ Matches(Current, o) => at[o] = Len(world[o].life)

(* A row has its last status, which is not READY: the pod of a done Job.   *)
NeverReady ==
  \E r \in Watched : \E o \in Rows(rows[r]) :
    rows[r][o] = Len(world[o].life) /\ ~Ready(o, rows[r][o])

(* With these exceptions the watch returns if the server ends no stream:   *)
(* no goroutine waits for another one, and no table misses its completion. *)
WatchReturns == phase = "filter" ~> Over \/ closed # {} \/ Childless \/ NeverReady

(* watch.go:161: "All channels are isCompleted".                           *)
ChannelsCompleted ==
  phase \in {"watch", "tick"} =>
    \A r \in Watched :
      AllCompleted(r, rows[r]) => \A o \in Ids(r) : rows[r][o] # 0

=============================================================================
