---------------------------- MODULE Watch_proofs ----------------------------
(***************************************************************************)
(* The watch of any resources in any cluster: what "Watch Finish!" means,  *)
(* that no update is lost on the way to a table, and why the program can   *)
(* end with a nil pointer.  The first needs the printing loop as well as   *)
(* the tables, for a table counts its rows without looking whose they are; *)
(* the others need the way of an event, and that the events of an object   *)
(* come to a table over one watch only.                                    *)
(***************************************************************************)
EXTENDS Watch, TLAPS, FiniteSetTheorems, SequenceTheorems, WellFoundedInduction

Events == Objects \X (Nat \ {0})

(* What travels is an event of an object that exists.                      *)
WiresInv ==
  /\ world \in Worlds
  /\ at \in [Objects -> Nat]
  /\ stream \in [Watches -> Seq(Events)]
  /\ channel \in [Watches -> Seq(Events)]
  /\ rows \in [Turns -> [Objects -> Nat]]

Collecting == {"filter", "open", "await", "start"}
Printing == {"watch", "tick"}

(* The collection goes through the watched resources in their order and    *)
(* leaves an object for each.                                              *)
CollectInv ==
  /\ listed \in [Turns -> Seq(Objects)]
  /\ phase \in {"open", "await"} =>
       turn \in Watched /\ \A r \in Watched : r < turn => listed[r] # <<>>
  /\ phase = "start" => \A r \in Watched : listed[r] # <<>>
  /\ phase \in Collecting =>
       running = {} /\ finished = {} /\ \A r \in Turns, o \in Objects : rows[r][o] = 0

(* A goroutine runs exactly as long as its table is incomplete, and once   *)
(* a table counts as finished the tables have been printed.                *)
TablesInv ==
  phase \in Printing =>
    /\ Watched # {}
    /\ running \subseteq Watched
    /\ finished \subseteq Watched \ running
    /\ \A r \in Watched : r \in running <=> ~AllCompleted(r, rows[r])
    /\ phase = "watch" /\ finished # {} =>
         \A r \in Watched : \A o \in Ids(r) : rows[r][o] # 0

WatchInv == WiresInv /\ CollectInv /\ TablesInv /\ FinishedIsComplete

-----------------------------------------------------------------------------
LEMMA TurnsAreNat == Turns \subseteq Nat \ {0}
BY ResourcesAssumption DEF Turns

LEMMA LeastIsLeast ==
  ASSUME NEW S \in SUBSET Nat, S # {}
  PROVE  Least(S) \in S /\ \A s \in S : Least(S) <= s
<1>1. S \subseteq Nat
  OBVIOUS
<1> DEFINE Less == {p \in Nat \X Nat : p[1] < p[2]}
<1>2. IsWellFoundedOn(Less, Nat)
  BY NatLessThanWellFounded, Zenon DEF OpToRel
<1>3. \A a, b \in Nat : <<a, b>> \in Less <=> a < b
  OBVIOUS
<1> HIDE DEF Less
<1>4. PICK m \in S : \A s \in S : ~(<<s, m>> \in Less)
  BY <1>1, <1>2, WFMin
<1>5. \A s \in S : m \in Nat /\ s \in Nat /\ ~(s < m)
  BY <1>1, <1>3, <1>4, Zenon
<1>6. \A s \in S : m <= s
  BY <1>5
<1> QED BY <1>6 DEF Least

LEMMA IdsAreObjects == CollectInv => \A r \in Turns : Ids(r) \subseteq Objects
BY DEF CollectInv, Ids

(* A table without a row is incomplete.                                    *)
LEMMA EmptyTable ==
  ASSUME WatchInv, NEW r \in Turns, listed[r] # <<>>, \A o \in Objects : rows[r][o] = 0
  PROVE  ~AllCompleted(r, rows[r])
<1>1. Rows(rows[r]) = {}
  BY DEF Rows
<1>2. Len(listed[r]) \in Nat /\ Len(listed[r]) # 0
  BY EmptySeq, LenProperties DEF WatchInv, CollectInv
<1> QED BY <1>1, <1>2, FS_EmptySet DEF AllCompleted

LEMMA InitInv == Init => WatchInv
<1> SUFFICES ASSUME Init PROVE WatchInv
  OBVIOUS
<1>1. at \in [Objects -> Nat]
  BY WorldsAssumption DEF Init, Objects
<1>2. WiresInv
  BY <1>1 DEF Init, WiresInv
<1>3. CollectInv
  BY DEF Init, CollectInv
<1> QED BY <1>2, <1>3 DEF Init, TablesInv, Printing, FinishedIsComplete, WatchInv

(* What a step of the collection does.                                     *)
LEMMA AdvanceCollects ==
  ASSUME WatchInv, phase \in Collecting, NEW S \in SUBSET Watched, Advance(S),
         UNCHANGED <<world, at, steps, rows, running, finished>>,
         listed' \in [Turns -> Seq(Objects)], WiresInv',
         \A r \in Watched : (\A s \in S : r < s) => listed'[r] # <<>>
  PROVE  WatchInv'
<1>1. Watched' = Watched /\ Watched \subseteq Turns /\ Objects' = Objects
  BY DEF Watched, Terraform, Objects, Turns
<1>2. phase' \in {"open", "start"}
  BY DEF Advance
<1>3. CollectInv'
  <2>1. CASE S # {}
    <3>1. phase' = "open" /\ turn' = Least(S)
      BY <2>1 DEF Advance
    <3>2. turn' \in S /\ \A s \in S : turn' <= s
      BY <1>1, <2>1, <3>1, LeastIsLeast, TurnsAreNat
    <3>3. \A r \in Watched : r < turn' => listed'[r] # <<>>
      <4> SUFFICES ASSUME NEW r \in Watched, r < turn' PROVE \A s \in S : r < s
        OBVIOUS
      <4> QED BY <1>1, <3>2, TurnsAreNat
    <3> QED BY <1>1, <3>1, <3>2, <3>3 DEF CollectInv, Collecting, WatchInv, Turns
  <2>2. CASE S = {}
    <3>1. phase' = "start"
      BY <2>2 DEF Advance
    <3> QED BY <1>1, <2>2, <3>1 DEF CollectInv, Collecting, WatchInv, Turns
  <2> QED BY <2>1, <2>2
<1> QED BY <1>2, <1>3 DEF WatchInv, TablesInv, Printing, FinishedIsComplete

-----------------------------------------------------------------------------
LEMMA FilterStep == WatchInv /\ Filter => WatchInv'
<1> SUFFICES ASSUME WatchInv, Filter PROVE WatchInv'
  OBVIOUS
<1>1. Objects' = Objects /\ Watched \subseteq Turns
  BY DEF Filter, Objects, Watched
<1>2. WiresInv'
  BY <1>1 DEF Filter, wires, WatchInv, WiresInv, Events
<1>3. CASE phase' = "panicked"
  BY <1>1, <1>2, <1>3 DEF Filter, WatchInv, CollectInv, TablesInv, FinishedIsComplete,
     Collecting, Printing
<1>4. CASE Advance(Watched)
  <2>1. \A r \in Watched : ~(\A s \in Watched : r < s)
    BY <1>1, TurnsAreNat
  <2>2. listed' \in [Turns -> Seq(Objects)]
    BY <1>1 DEF Filter, WatchInv, CollectInv
  <2> QED BY <1>2, <1>4, <2>1, <2>2, AdvanceCollects DEF Filter, Collecting
<1> QED BY <1>3, <1>4 DEF Filter

LEMMA OpenStep == WatchInv /\ (Open \/ OpenFails) => WatchInv'
<1> SUFFICES ASSUME WatchInv, Open \/ OpenFails PROVE WatchInv'
  OBVIOUS
<1>1. UNCHANGED <<world, at, steps, turn, listed, channel, rows, running, finished>>
  BY DEF Open, OpenFails, wires
<1>2. Objects' = Objects /\ Watched' = Watched
  BY <1>1 DEF Objects, Watched, Terraform
<1>3. stream' \in [Watches -> Seq(Events)]
  <2>1. CASE Open
    <3> DEFINE S == {o \in Objects : world[o].kind = wanted[1] /\ Exists(o)}
    <3>1. PICK order \in Orders(S) :
            stream' = [stream EXCEPT ![Current] =
                         [i \in DOMAIN order |-> <<order[i], at[order[i]]>>]]
      BY <2>1 DEF Open
    <3>2. Cardinality(S) \in Nat
      BY FS_Subset, FS_CardinalityType, WorldsAssumption DEF WatchInv, WiresInv, Objects
    <3>3. order \in [1..Cardinality(S) -> S]
      BY <3>1 DEF Orders
    <3>4. \A o \in S : <<o, at[o]>> \in Events
      BY DEF Exists, Events, WatchInv, WiresInv
    <3> HIDE DEF S
    <3>5. [i \in DOMAIN order |-> <<order[i], at[order[i]]>>] \in Seq(Events)
      BY <3>2, <3>3, <3>4
    <3> QED BY <3>1, <3>5 DEF WatchInv, WiresInv
  <2>2. CASE OpenFails
    BY <2>2 DEF OpenFails, wires, WatchInv, WiresInv
  <2> QED BY <2>1, <2>2
<1>4. WiresInv'
  BY <1>1, <1>2, <1>3 DEF WatchInv, WiresInv, Events
<1>5. phase = "open" /\ phase' \in {"await", "failed"}
  BY DEF Open, OpenFails
<1>6. CollectInv'
  BY <1>1, <1>2, <1>5 DEF WatchInv, CollectInv, Collecting
<1> QED BY <1>4, <1>5, <1>6 DEF WatchInv, TablesInv, Printing, FinishedIsComplete

(* doWatch hands on what it was sent.                                      *)
LEMMA TakeMoves ==
  ASSUME WatchInv, NEW w \in Watches, Take(w)
  PROVE  /\ stream' \in [Watches -> Seq(Events)]
         /\ channel' \in [Watches -> Seq(Events)]
         /\ channel'[w][1] \in Events
<1>1. PICK i \in DOMAIN stream[w] :
        /\ channel' = [channel EXCEPT ![w] = <<stream[w][i]>>]
        /\ stream' = [stream EXCEPT ![w] = SubSeq(@, i + 1, Len(@))]
  <2>1. Relevant(w) \subseteq DOMAIN stream[w] /\ Relevant(w) # {}
    BY DEF Take, Relevant
  <2>2. stream[w] \in Seq(Events)
    BY DEF WatchInv, WiresInv
  <2>3. Least(Relevant(w)) \in Relevant(w)
    BY <2>1, <2>2, LeastIsLeast
  <2> QED BY <2>1, <2>3 DEF Take
<1>2. stream[w] \in Seq(Events) /\ channel \in [Watches -> Seq(Events)]
      /\ stream \in [Watches -> Seq(Events)]
  BY DEF WatchInv, WiresInv
<1>3. stream[w][i] \in Events
  BY <1>2
<1>4. SubSeq(stream[w], i + 1, Len(stream[w])) \in Seq(Events)
  BY <1>2
<1> QED BY <1>1, <1>2, <1>3, <1>4

LEMMA ForwardStep ==
  ASSUME WatchInv, NEW w \in Watches, Forward(w)
  PROVE  WatchInv'
<1>1. UNCHANGED <<world, at, steps, rows, running, finished>>
  BY DEF Forward
<1>2. Objects' = Objects /\ Watched' = Watched /\ Watched \subseteq Turns
  BY <1>1 DEF Objects, Watched, Terraform
<1>3. WiresInv'
  BY <1>1, <1>2, TakeMoves DEF Forward, WatchInv, WiresInv, Events
<1>4. CASE UNCHANGED main
  <2>1. CollectInv'
    BY <1>1, <1>2, <1>4 DEF main, WatchInv, CollectInv, Collecting
  <2>2. TablesInv' /\ FinishedIsComplete'
    BY <1>1, <1>2, <1>4 DEF main, WatchInv, TablesInv, FinishedIsComplete, Printing,
       AllCompleted, Ids, Rows, Ready, Status, Deleted
  <2> QED BY <1>3, <2>1, <2>2 DEF WatchInv
<1>5. CASE phase = "await" /\ w = Current /\ ~UNCHANGED main
  <2>1. PICK o \in Objects :
          /\ listed' = [listed EXCEPT ![turn] = Append(@, o)]
          /\ \/ phase' = "open" /\ UNCHANGED turn
             \/ Advance(After(turn))
    <3> DEFINE Later == {i \in DOMAIN stream'[w] :
                           Matches(w, stream'[w][i][1])
                           /\ \A j \in 1..(i - 1) : ~Matches(w, stream'[w][j][1])}
               Heard == {channel'[w][1][1]} \cup {e[1] : e \in {stream'[w][i] : i \in Later}}
    <3>1. PICK o \in Heard :
            LET next == DependentKind(world[o].kind)
            IN  /\ listed' = [listed EXCEPT ![turn] = Append(@, o)]
                /\ IF next # None
                   THEN /\ phase' = "open"
                        /\ wanted' = <<next, o>>
                        /\ UNCHANGED turn
                   ELSE Advance(After(turn))
      BY <1>5 DEF Forward
    <3>2. \A i \in Later : stream'[w][i] \in Events
      BY TakeMoves DEF Forward
    <3> HIDE DEF Later
    <3>3. o \in Objects
      BY <3>2, TakeMoves DEF Events, Forward
    <3> QED BY <3>1, <3>3
  <2>2. turn \in Turns /\ turn \in Watched
        /\ \A r \in Watched : r < turn => listed[r] # <<>>
    BY <1>2, <1>5 DEF WatchInv, CollectInv
  <2>3. /\ listed' \in [Turns -> Seq(Objects)]
        /\ listed'[turn] # <<>>
        /\ \A r \in Turns \ {turn} : listed'[r] = listed[r]
    BY <2>1, <2>2, AppendProperties DEF WatchInv, CollectInv
  <2>4. CASE phase' = "open" /\ UNCHANGED turn
    <3>1. CollectInv'
      BY <1>1, <1>2, <1>5, <2>2, <2>3, <2>4, TurnsAreNat DEF WatchInv, CollectInv, Collecting
    <3> QED BY <1>3, <2>4, <3>1 DEF WatchInv, TablesInv, Printing, FinishedIsComplete
  <2>5. CASE Advance(After(turn))
    <3>1. After(turn) \subseteq Watched
      BY DEF After
    <3>2. ASSUME NEW r \in Watched, \A s \in After(turn) : r < s
          PROVE  listed'[r] # <<>>
      <4>1. r \notin After(turn)
        BY <1>2, <3>2, TurnsAreNat
      <4>2. r < turn \/ r = turn
        BY <1>2, <2>2, <4>1, TurnsAreNat DEF After
      <4> QED BY <1>2, <2>2, <2>3, <4>2, TurnsAreNat
    <3> QED BY <1>1, <1>3, <1>5, <2>3, <2>5, <3>1, <3>2, AdvanceCollects DEF Collecting
  <2> QED BY <2>1, <2>4, <2>5
<1> QED BY <1>4, <1>5 DEF Forward

LEMMA StartStep == WatchInv /\ Start => WatchInv'
<1> SUFFICES ASSUME WatchInv, Start PROVE WatchInv'
  OBVIOUS
<1>1. UNCHANGED <<world, at, steps, turn, listed, stream, channel, rows, finished>>
  BY DEF Start, wires
<1>2. Objects' = Objects /\ Watched' = Watched /\ Watched \subseteq Turns
  BY <1>1 DEF Objects, Watched, Terraform
<1>3. phase = "start" /\ running' = Watched
      /\ phase' = IF Watched = {} THEN "finished" ELSE "watch"
  BY DEF Start
<1>4. WiresInv'
  BY <1>1, <1>2 DEF WatchInv, WiresInv, Events
<1>5. CollectInv'
  BY <1>1, <1>2, <1>3 DEF WatchInv, CollectInv, Collecting
<1>6. \A r \in Watched : ~AllCompleted(r, rows[r])
  BY <1>2, <1>3, EmptyTable DEF WatchInv, CollectInv, Collecting
<1>7. \A r \in Watched : ~AllCompleted(r, rows[r])'
  BY <1>1, <1>2, <1>6 DEF AllCompleted, Rows, Ready, Status, Deleted, Objects
<1>8. finished' = {}
  BY <1>1, <1>3 DEF WatchInv, CollectInv, Collecting
<1>9. TablesInv'
  BY <1>2, <1>3, <1>7, <1>8 DEF TablesInv, Printing
<1>10. FinishedIsComplete'
  BY <1>2, <1>3 DEF FinishedIsComplete
<1> QED BY <1>4, <1>5, <1>9, <1>10 DEF WatchInv

(* A table with one row more.                                              *)
LEMMA ReceiveStep ==
  ASSUME WatchInv, NEW r \in Turns, NEW l \in 1..3, Receive(r, l)
  PROVE  WatchInv'
<1> DEFINE e == channel[<<r, l>>][1]
           t == [rows[r] EXCEPT ![e[1]] = e[2]]
<1>1. UNCHANGED <<world, at, steps, turn, listed, stream, finished>>
  BY DEF Receive
<1>2. Objects' = Objects /\ Watched' = Watched
  BY <1>1 DEF Objects, Watched, Terraform
<1>3. /\ phase \in Printing /\ r \in running
      /\ channel' = [channel EXCEPT ![<<r, l>>] = <<>>]
      /\ <<r, l>> \in Watches /\ channel[<<r, l>>] # <<>>
  BY DEF Receive, Printing
<1>4. e \in Events
  BY <1>3 DEF WatchInv, WiresInv
<1>5. t \in [Objects -> Nat] /\ \A o \in Objects : rows[r][o] # 0 => t[o] # 0
  BY <1>4 DEF WatchInv, WiresInv, Events
<1>6. \/ phase' = "panicked" /\ UNCHANGED <<rows, running>>
      \/ /\ rows' = [rows EXCEPT ![r] = t]
         /\ running' = IF AllCompleted(r, t) THEN running \ {r} ELSE running
         /\ UNCHANGED phase
  BY DEF Receive
<1> HIDE DEF e, t
<1>7. WiresInv'
  <2>1. channel' \in [Watches -> Seq(Events)]
    BY <1>3 DEF WatchInv, WiresInv
  <2>2. rows' \in [Turns -> [Objects -> Nat]]
    BY <1>5, <1>6 DEF WatchInv, WiresInv
  <2>3. at' = at
    BY DEF Receive
  <2> QED BY <1>1, <1>2, <2>1, <2>2, <2>3 DEF WatchInv, WiresInv, Events
<1>8. CollectInv'
  BY <1>1, <1>2, <1>3, <1>6 DEF WatchInv, CollectInv, Collecting, Printing
<1>9. FinishedIsComplete'
  BY <1>3, <1>6 DEF FinishedIsComplete, Printing
<1>10. TablesInv'
  <2>1. CASE phase' = "panicked"
    BY <2>1 DEF TablesInv, Printing
  <2>2. CASE /\ rows' = [rows EXCEPT ![r] = t]
             /\ running' = IF AllCompleted(r, t) THEN running \ {r} ELSE running
             /\ UNCHANGED phase
    <3>1. rows'[r] = t /\ \A q \in Turns \ {r} : rows'[q] = rows[q]
      BY <2>2 DEF WatchInv, WiresInv
    <3>2. \A q \in Turns : AllCompleted(q, rows[q])' <=> AllCompleted(q, rows'[q])
      BY <1>1, <1>2 DEF AllCompleted, Rows, Ready, Status, Deleted
    <3>3. \A q \in Watched : q \in running' <=> ~AllCompleted(q, rows'[q])
      BY <1>3, <2>2, <3>1 DEF WatchInv, TablesInv, Watched
    <3>4. \A q \in Watched : \A o \in Ids(q) : rows[q][o] # 0 => rows'[q][o] # 0
      BY <1>5, <3>1, IdsAreObjects DEF WatchInv, Watched
    <3>5. \A q \in Turns : Ids(q)' = Ids(q)
      BY <1>1 DEF Ids
    <3>6. running' \subseteq running
      BY <2>2
    <3> QED BY <1>1, <1>2, <2>2, <3>2, <3>3, <3>4, <3>5, <3>6 DEF WatchInv, TablesInv,
               Watched, Printing
  <2> QED BY <1>6, <2>1, <2>2
<1> QED BY <1>7, <1>8, <1>9, <1>10 DEF WatchInv

(* The main loop finishes a table only after it has completed; when every  *)
(* one has, all the listed rows were printed, and none of them changes.    *)
LEMMA CheckStep == WatchInv /\ Check => WatchInv'
<1> SUFFICES ASSUME WatchInv, Check PROVE WatchInv'
  OBVIOUS
<1>1. UNCHANGED <<world, at, steps, turn, listed, stream, channel, rows, running>>
  BY DEF Check, wires
<1>2. Objects' = Objects /\ Watched' = Watched /\ Watched \subseteq Turns
  BY <1>1 DEF Objects, Watched, Terraform
<1>3. phase = "watch" /\ phase' \in {"tick", "finished"}
  BY DEF Check
<1>4. WiresInv'
  BY <1>1, <1>2 DEF WatchInv, WiresInv, Events
<1>5. CollectInv'
  BY <1>1, <1>2, <1>3 DEF WatchInv, CollectInv, Collecting
<1>6. CASE finished = Watched
  <2>1. phase' = "finished"
    BY <1>6 DEF Check
  <2>2. ASSUME NEW r \in Watched, NEW o \in Ids(r)
        PROVE  rows[r][o] # 0 /\ Ready(o, rows[r][o])
    <3>1. rows[r][o] # 0 /\ AllCompleted(r, rows[r])
      BY <1>3, <1>6 DEF WatchInv, TablesInv, Printing
    <3>2. o \in Rows(rows[r])
      BY <1>2, <3>1, IdsAreObjects DEF Rows, WatchInv
    <3> QED BY <3>1, <3>2 DEF AllCompleted
  <2>3. FinishedIsComplete'
    BY <1>1, <1>2, <2>2 DEF FinishedIsComplete, Ids, Ready, Status, Deleted
  <2> QED BY <1>4, <1>5, <2>1, <2>3 DEF WatchInv, TablesInv, Printing
<1>7. CASE finished # Watched
  <2>1. /\ phase' = "tick"
        /\ finished' = finished \cup {r \in Watched : AllCompleted(r, rows[r])}
    BY <1>7 DEF Check
  <2>2. finished' \subseteq Watched \ running
    BY <1>3, <2>1 DEF WatchInv, TablesInv, Printing
  <2>3. \A r \in Watched : AllCompleted(r, rows[r])' <=> AllCompleted(r, rows[r])
    BY <1>1, <1>2 DEF AllCompleted, Rows, Ready, Status, Deleted
  <2>4. TablesInv'
    BY <1>1, <1>2, <1>3, <2>1, <2>2, <2>3 DEF WatchInv, TablesInv, Printing
  <2> QED BY <1>4, <1>5, <2>1, <2>4 DEF WatchInv, FinishedIsComplete
<1> QED BY <1>6, <1>7

(* Printing gets through only if every listed object has its row.          *)
LEMMA TickStep == WatchInv /\ Tick => WatchInv'
<1> SUFFICES ASSUME WatchInv, Tick PROVE WatchInv'
  OBVIOUS
<1>1. UNCHANGED <<world, at, steps, turn, listed, stream, channel, rows, running, finished>>
  BY DEF Tick, wires
<1>2. Objects' = Objects /\ Watched' = Watched
  BY <1>1 DEF Objects, Watched, Terraform
<1>3. phase = "tick" /\ phase' \in {"panicked", "watch"}
  BY DEF Tick
<1>4. phase' = "watch" => \A r \in Watched : \A o \in Ids(r) : rows[r][o] # 0
  BY DEF Tick
<1>5. WiresInv'
  BY <1>1, <1>2 DEF WatchInv, WiresInv, Events
<1>6. CollectInv'
  BY <1>1, <1>2, <1>3 DEF WatchInv, CollectInv, Collecting
<1>7. \A r \in Watched : /\ AllCompleted(r, rows[r])' <=> AllCompleted(r, rows[r])
                         /\ Ids(r)' = Ids(r)
  BY <1>1, <1>2 DEF AllCompleted, Rows, Ready, Status, Deleted, Ids
<1>8. TablesInv'
  BY <1>1, <1>2, <1>3, <1>4, <1>7 DEF WatchInv, TablesInv, Printing
<1> QED BY <1>3, <1>5, <1>6, <1>8 DEF WatchInv, FinishedIsComplete

(* What the cluster and the server do changes no table.                    *)
LEMMA QuietStep ==
  ASSUME WatchInv, WiresInv',
         UNCHANGED <<world, steps, phase, turn, listed, rows, running, finished>>
  PROVE  WatchInv'
<1>1. Objects' = Objects /\ Watched' = Watched
  BY DEF Objects, Watched, Terraform
<1>2. CollectInv'
  BY <1>1 DEF WatchInv, CollectInv
<1>3. \A r \in Watched : /\ AllCompleted(r, rows[r])' <=> AllCompleted(r, rows[r])
                         /\ Ids(r)' = Ids(r)
  BY <1>1 DEF AllCompleted, Rows, Ready, Status, Deleted, Ids
<1>4. TablesInv'
  BY <1>1, <1>3 DEF WatchInv, TablesInv
<1>5. FinishedIsComplete'
  BY <1>1 DEF WatchInv, FinishedIsComplete, Ids, Ready, Status, Deleted
<1> QED BY <1>2, <1>4, <1>5 DEF WatchInv

LEMMA LiveStep ==
  ASSUME WatchInv, NEW o \in Objects, Live(o)
  PROVE  WatchInv'
<1>1. at' = [at EXCEPT ![o] = @ + 1] /\ UNCHANGED <<world, channel, rows>>
  BY DEF Live
<1>2. <<o, at[o] + 1>> \in Events
  BY DEF Events, WatchInv, WiresInv
<1>3. stream' \in [Watches -> Seq(Events)]
  <2>1. \A w \in Watches : Append(stream[w], <<o, at[o] + 1>>) \in Seq(Events)
    BY <1>2, AppendProperties DEF WatchInv, WiresInv
  <2> QED BY <2>1 DEF Live, WatchInv, WiresInv
<1>4. WiresInv'
  BY <1>1, <1>3 DEF WatchInv, WiresInv, Events, Objects
<1> QED BY <1>4, QuietStep DEF Live, main

LEMMA NextInv == WatchInv /\ [Next]_vars => WatchInv'
<1> SUFFICES ASSUME WatchInv, [Next]_vars PROVE WatchInv'
  OBVIOUS
<1>1. CASE UNCHANGED vars
  <2>1. WiresInv'
    BY <1>1 DEF vars, wires, WatchInv, WiresInv, Events, Objects
  <2> QED BY <1>1, <2>1, QuietStep DEF vars, main
<1>2. ASSUME NEW w \in Watches, Close(w) PROVE WatchInv'
  <2>1. WiresInv'
    BY <1>2 DEF Close, WatchInv, WiresInv, Events, Objects
  <2> QED BY <1>2, <2>1, QuietStep DEF Close, main
<1> QED BY <1>1, <1>2, FilterStep, OpenStep, StartStep, CheckStep, TickStep, ForwardStep,
           ReceiveStep, LiveStep DEF Next, Rest

-----------------------------------------------------------------------------
(* Whatever the objects, their lives and the order of the events, "Watch   *)
(* Finish!" is said of resources whose listed objects all have a READY row.*)
THEOREM FinishedIsCompleteHolds == Spec => []FinishedIsComplete
<1>1. WatchInv => FinishedIsComplete
  BY DEF WatchInv
<1> QED BY <1>1, InitInv, NextInv, PTL DEF Spec

-----------------------------------------------------------------------------
(* The wires between the server and the tables.  The kinds of the watches  *)
(* of a resource get nearer to the end of a chain from level to level, so  *)
(* that there are at most three and the events of an object come over one. *)
Depth(kind) ==
  CASE kind \in {"Deployment", "DaemonSet", "StatefulSet", "CronJob"} -> 3
    [] kind \in {"ReplicaSet", "Job", "ReplicationController", "ControllerRevision",
                 "Service"} -> 2
    [] OTHER -> 1

(* A kind that the watch of a level can have.                              *)
FitsLevel(w, kind) == w[2] + Depth(kind) <= 4 /\ (w[2] > 1 => kind # None)

ChainInv ==
  /\ \A r \in Turns : \A l \in DOMAIN listed[r] :
       /\ Matches(<<r, l>>, listed[r][l])
       /\ world[listed[r][l]].kind = WatchKind(<<r, l>>)
       /\ FitsLevel(<<r, l>>, WatchKind(<<r, l>>))
  /\ phase = "filter" => \A r \in Turns : listed[r] = <<>>
  /\ phase \in {"open", "await"} =>
       /\ wanted[1] = WatchKind(Current)
       /\ FitsLevel(Current, wanted[1])
       /\ \A r \in Turns : r > turn => listed[r] = <<>>

(* A watch carries events of its kind that have happened, and none before  *)
(* it is open; the rows show what has happened.                            *)
Carries(s, w) ==
  \A i \in DOMAIN s : world[s[i][1]].kind = WatchKind(w) /\ s[i][2] <= at[s[i][1]]

WireInv(w) ==
  /\ w \notin Opened => stream[w] = <<>> /\ channel[w] = <<>>
  /\ Carries(stream[w], w)
  /\ Carries(channel[w], w)
  /\ Len(channel[w]) <= 1

StreamInv ==
  /\ \A o \in Objects : at[o] <= Len(world[o].life)
  /\ \A w \in Watches : WireInv(w)
  /\ \A r \in Turns : \A o \in Objects : rows[r][o] <= at[o]
  /\ running \cup finished \subseteq Watched

(* The last that is on its way of an object, or else its row, is up to     *)
(* date, on any stream that is still open.                                 *)
Lacks(s, o) == \A i \in DOMAIN s : s[i][1] # o
LastIs(s, o, n) ==
  \E i \in DOMAIN s : s[i] = <<o, n>> /\ \A j \in DOMAIN s : j > i => s[j][1] # o

Fresh(w, o) ==
  \/ LastIs(stream[w], o, at[o])
  \/ Lacks(stream[w], o) /\ LastIs(channel[w], o, at[o])
  \/ /\ Lacks(stream[w], o)
     /\ Lacks(channel[w], o)
     /\ rows[w[1]][o] = at[o] \/ Deleted(o, at[o])

FreshInv ==
  phase # "panicked" =>
    \A w \in Opened \ closed : \A o \in Objects :
      world[o].kind = WatchKind(w) /\ Matches(w, o) /\ at[o] > 0 => Fresh(w, o)

MainInv ==
  /\ phase \in {"filter", "open", "await", "start", "watch", "tick", "finished", "panicked",
                "failed"}
  /\ turn \in Turns

(* A listed object has a row or an event on its way to it.                 *)
Comes(w, o) == rows[w[1]][o] # 0 \/ ~Lacks(channel[w], o) \/ ~Lacks(stream[w], o)

ListedInv ==
  /\ phase # "panicked" =>
       \A r \in Turns : \A l \in DOMAIN listed[r] : Comes(<<r, l>>, listed[r][l])
  /\ phase \in Collecting => ~printed
  /\ phase \in Printing /\ printed => \A r \in Watched : \A o \in Ids(r) : rows[r][o] # 0

RouteInv ==
  /\ WatchInv
  /\ MainInv
  /\ ChainInv
  /\ StreamInv
  /\ FreshInv
  /\ ListedInv
  /\ PanicsExplained

-----------------------------------------------------------------------------
(* Sequences of events.                                                    *)
LEMMA AppendLast ==
  ASSUME NEW S, NEW s \in Seq(S), NEW o, NEW n, <<o, n>> \in S
  PROVE  LastIs(Append(s, <<o, n>>), o, n)
<1> DEFINE t == Append(s, <<o, n>>)
<1>1. t[Len(s) + 1] = <<o, n>> /\ DOMAIN t = 1..(Len(s) + 1) /\ Len(s) \in Nat
  BY AppendProperties
<1> HIDE DEF t
<1>2. \A j \in DOMAIN t : ~(j > Len(s) + 1)
  BY <1>1
<1>3. Len(s) + 1 \in DOMAIN t
  BY <1>1
<1>4. LastIs(t, o, n)
  BY <1>1, <1>2, <1>3 DEF LastIs
<1> QED BY <1>4 DEF t

LEMMA AppendOther ==
  ASSUME NEW S, NEW s \in Seq(S), NEW e \in S, NEW o, NEW n, e[1] # o
  PROVE  /\ LastIs(s, o, n) => LastIs(Append(s, e), o, n)
         /\ Lacks(s, o) => Lacks(Append(s, e), o)
<1> DEFINE t == Append(s, e)
<1>1. /\ DOMAIN t = 1..(Len(s) + 1) /\ Len(s) \in Nat /\ DOMAIN s = 1..Len(s)
      /\ \A i \in 1..Len(s) : t[i] = s[i]
      /\ t[Len(s) + 1] = e
  BY AppendProperties
<1> HIDE DEF t
<1>2. \A j \in DOMAIN t : j \in DOMAIN s \/ t[j] = e
  BY <1>1
<1>3. LastIs(s, o, n) => LastIs(t, o, n)
  BY <1>1, <1>2 DEF LastIs
<1>4. Lacks(s, o) => Lacks(t, o)
  BY <1>1, <1>2 DEF Lacks
<1> QED BY <1>3, <1>4 DEF t

LEMMA AppendKeeps ==
  ASSUME NEW S, NEW s \in Seq(S), NEW e \in S, NEW o, ~Lacks(s, o)
  PROVE  ~Lacks(Append(s, e), o)
<1>1. PICK i \in DOMAIN s : s[i][1] = o
  BY DEF Lacks
<1>2. i \in DOMAIN Append(s, e) /\ Append(s, e)[i] = s[i]
  BY AppendProperties
<1> QED BY <1>1, <1>2 DEF Lacks

(* What is behind the i-th event, if none before it is of the object.      *)
LEMMA SuffixIs ==
  ASSUME NEW S, NEW s \in Seq(S), NEW i \in DOMAIN s
  PROVE  LET t == SubSeq(s, i + 1, Len(s))
         IN  /\ t \in Seq(S)
             /\ i \in Nat /\ i >= 1 /\ Len(s) \in Nat
             /\ DOMAIN s = 1..Len(s)
             /\ DOMAIN t = 1..(Len(s) - i)
             /\ \A j \in 1..(Len(s) - i) : t[j] = s[i + j]
<1>1. i \in 1..Len(s) /\ Len(s) \in Nat /\ DOMAIN s = 1..Len(s)
  OBVIOUS
<1>2. \A j \in (i + 1)..Len(s) : s[j] \in S
  BY <1>1
<1> DEFINE t == SubSeq(s, i + 1, Len(s))
<1>3. /\ t \in Seq(S)
      /\ Len(t) = IF i + 1 <= Len(s) THEN Len(s) - (i + 1) + 1 ELSE 0
      /\ \A j \in 1..(Len(s) - (i + 1) + 1) : t[j] = s[i + 1 + j - 1]
  BY <1>1, <1>2, SubSeqProperties
<1>4. DOMAIN t = 1..Len(t)
  BY <1>3
<1> HIDE DEF t
<1>5. Len(t) = Len(s) - i
  BY <1>1, <1>3
<1>6. ASSUME NEW j \in 1..(Len(s) - i) PROVE t[j] = s[i + j]
  <2>1. j \in 1..(Len(s) - (i + 1) + 1) /\ i + 1 + j - 1 = i + j
    BY <1>1
  <2>2. t[j] = s[i + 1 + j - 1]
    BY <1>3, <2>1
  <2> QED BY <2>1, <2>2
<1> QED BY <1>1, <1>3, <1>4, <1>5, <1>6 DEF t

LEMMA SuffixLast ==
  ASSUME NEW S, NEW s \in Seq(S), NEW i \in DOMAIN s, NEW o, NEW n,
         \A j \in 1..(i - 1) : s[j][1] # o
  PROVE  LET t == SubSeq(s, i + 1, Len(s))
         IN  /\ LastIs(s, o, n) => LastIs(t, o, n) \/ (Lacks(t, o) /\ s[i] = <<o, n>>)
             /\ Lacks(s, o) => Lacks(t, o) /\ s[i][1] # o
             /\ ~Lacks(s, o) => ~Lacks(t, o) \/ s[i][1] = o
<1> DEFINE t == SubSeq(s, i + 1, Len(s))
<1>1. /\ i \in Nat /\ i >= 1 /\ Len(s) \in Nat
      /\ DOMAIN s = 1..Len(s)
      /\ DOMAIN t = 1..(Len(s) - i)
      /\ \A j \in 1..(Len(s) - i) : t[j] = s[i + j]
  BY SuffixIs
<1> HIDE DEF t
<1>2. \A j \in DOMAIN t : i + j \in DOMAIN s /\ t[j] = s[i + j] /\ i + j > i
  BY <1>1
<1>3. \A k \in DOMAIN s : k > i => k - i \in DOMAIN t /\ t[k - i] = s[k] /\ k = i + (k - i)
  BY <1>1
<1>4. \A k \in DOMAIN s : s[k][1] = o => k = i \/ k > i
  BY <1>1
<1>5. Lacks(s, o) => Lacks(t, o) /\ s[i][1] # o
  BY <1>2 DEF Lacks
<1>6. ~Lacks(s, o) => ~Lacks(t, o) \/ s[i][1] = o
  BY <1>3, <1>4 DEF Lacks
<1>7. ASSUME LastIs(s, o, n) PROVE LastIs(t, o, n) \/ (Lacks(t, o) /\ s[i] = <<o, n>>)
  <2>1. PICK k \in DOMAIN s : s[k] = <<o, n>> /\ \A j \in DOMAIN s : j > k => s[j][1] # o
    BY <1>7 DEF LastIs
  <2>2. s[k][1] = o
    BY <2>1
  <2>3. CASE k = i
    BY <1>2, <2>1, <2>3 DEF Lacks
  <2>4. CASE k > i
    <3>1. k - i \in DOMAIN t /\ t[k - i] = <<o, n>>
      BY <1>3, <2>1, <2>4
    <3>2. ASSUME NEW j \in DOMAIN t, j > k - i PROVE t[j][1] # o
      <4>1. i + j > k /\ i + j \in DOMAIN s /\ t[j] = s[i + j]
        BY <1>1, <1>2, <3>2
      <4> QED BY <2>1, <4>1
    <3> QED BY <3>1, <3>2 DEF LastIs
  <2> QED BY <1>4, <2>2, <2>3, <2>4
<1> QED BY <1>5, <1>6, <1>7 DEF t

(* A channel has room for one event.                                       *)
LEMMA ShortSequence ==
  ASSUME NEW S, NEW s \in Seq(S), Len(s) <= 1, s # <<>>
  PROVE  DOMAIN s = {1}
<1>1. Len(s) \in Nat /\ Len(s) # 0 /\ DOMAIN s = 1..Len(s)
  BY EmptySeq
<1>2. Len(s) = 1
  BY <1>1
<1> QED BY <1>1, <1>2

-----------------------------------------------------------------------------
(* Kinds, levels and open watches.                                         *)
LEMMA DepthIs == \A kind : Depth(kind) \in 1..3
BY DEF Depth

LEMMA DepthDecreases ==
  ASSUME NEW kind, DependentKind(kind) # None
  PROVE  Depth(DependentKind(kind)) < Depth(kind)
<1>1. CASE kind = "Deployment"
  BY <1>1 DEF DependentKind, Depth
<1>2. CASE kind \in {"DaemonSet", "StatefulSet"}
  BY <1>2 DEF DependentKind, Depth
<1>3. CASE kind = "CronJob"
  BY <1>3 DEF DependentKind, Depth
<1>4. CASE kind \in {"ReplicaSet", "Job", "ReplicationController", "ControllerRevision"}
  BY <1>4 DEF DependentKind, Depth
<1>5. CASE kind = "Service"
  BY <1>5 DEF DependentKind, Depth
<1> QED BY <1>1, <1>2, <1>3, <1>4, <1>5 DEF DependentKind

(* A listed resource has its watches, and so has the one being collected.  *)
LEMMA LevelsAre ==
  ASSUME WatchInv, ChainInv
  PROVE  /\ \A r \in Turns : /\ listed[r] \in Seq(Objects)
                             /\ Len(listed[r]) \in 0..3
                             /\ DOMAIN listed[r] = 1..Len(listed[r])
         /\ phase \in {"open", "await"} => turn \in Turns /\ Level \in 1..3 /\ Current \in Watches
<1>1. \A r \in Turns : listed[r] \in Seq(Objects)
  BY DEF WatchInv, CollectInv
<1>2. ASSUME NEW r \in Turns PROVE Len(listed[r]) \in 0..3 /\ DOMAIN listed[r] = 1..Len(listed[r])
  <2>1. Len(listed[r]) \in Nat /\ DOMAIN listed[r] = 1..Len(listed[r])
    BY <1>1
  <2>2. CASE Len(listed[r]) = 0
    BY <2>1, <2>2
  <2>3. CASE Len(listed[r]) # 0
    <3>1. FitsLevel(<<r, Len(listed[r])>>, WatchKind(<<r, Len(listed[r])>>))
      BY <2>1, <2>3 DEF ChainInv
    <3> DEFINE n == Len(listed[r])
               d == Depth(WatchKind(<<r, n>>))
    <3>2. n + d <= 4
      BY <3>1 DEF FitsLevel
    <3>3. d \in 1..3
      BY DepthIs
    <3>4. n \in Nat
      BY <2>1
    <3> HIDE DEF n, d
    <3>5. n \in 0..3
      BY <3>2, <3>3, <3>4
    <3> QED BY <2>1, <3>5 DEF n
  <2> QED BY <2>2, <2>3
<1>3. ASSUME phase \in {"open", "await"} PROVE turn \in Turns /\ Level \in 1..3
  <2>1. turn \in Turns
    BY <1>3 DEF WatchInv, CollectInv, Watched
  <2>2. Level + Depth(wanted[1]) <= 4
    BY <1>3 DEF ChainInv, FitsLevel, Current
  <2>3. Level \in Nat /\ Level >= 1
    BY <1>2, <2>1 DEF Level
  <2> QED BY <2>1, <2>2, <2>3, DepthIs
<1> QED BY <1>1, <1>2, <1>3 DEF Current, Watches

(* A resource with one more listed object: nothing else changes.           *)
LEMMA ListedExtends ==
  ASSUME WatchInv, ChainInv, turn \in Turns, NEW o \in Objects, world' = world,
         listed' = [listed EXCEPT ![turn] = Append(@, o)]
  PROVE  /\ DOMAIN listed'[turn] = 1..Level
         /\ Len(listed'[turn]) = Level
         /\ \A l \in 1..(Level - 1) : listed'[turn][l] = listed[turn][l]
         /\ listed'[turn][Level] = o
         /\ \A r \in Turns : r # turn => listed'[r] = listed[r]
         /\ \A r \in Turns : \A l \in 1..(Len(listed[r]) + 1) :
              /\ WatchKind(<<r, l>>)' = WatchKind(<<r, l>>)
              /\ \A x : Matches(<<r, l>>, x)' <=> Matches(<<r, l>>, x)
<1>1. /\ listed \in [Turns -> Seq(Objects)]
      /\ listed'[turn] = Append(listed[turn], o)
      /\ \A r \in Turns : r # turn => listed'[r] = listed[r]
  BY DEF WatchInv, CollectInv
<1>2. /\ Len(listed[turn]) \in Nat /\ Level = Len(listed[turn]) + 1
      /\ DOMAIN listed'[turn] = 1..Len(listed'[turn])
      /\ Len(listed'[turn]) = Level
      /\ \A l \in 1..Len(listed[turn]) : listed'[turn][l] = listed[turn][l]
      /\ listed'[turn][Level] = o
  BY <1>1, AppendProperties DEF Level
<1>3. ASSUME NEW r \in Turns, NEW l \in 1..(Len(listed[r]) + 1), l # 1
      PROVE  listed'[r][l - 1] = listed[r][l - 1]
  <2>1. CASE r = turn
    <3>1. l - 1 \in 1..Len(listed[turn])
      BY <1>2, <1>3, <2>1
    <3> QED BY <1>2, <2>1, <3>1
  <2>2. CASE r # turn
    BY <1>1, <2>2
  <2> QED BY <2>1, <2>2
<1>4. \A kind : DependentKind(kind)' = DependentKind(kind)
  BY DEF DependentKind, Objects
<1>5. ASSUME NEW r \in Turns, NEW l \in 1..(Len(listed[r]) + 1)
      PROVE  /\ WatchKind(<<r, l>>)' = WatchKind(<<r, l>>)
             /\ \A x : Matches(<<r, l>>, x)' <=> Matches(<<r, l>>, x)
  <2>1. CASE l = 1
    BY <2>1 DEF WatchKind, Matches
  <2>2. CASE l # 1
    BY <1>3, <1>4, <2>2 DEF WatchKind, Matches
  <2> QED BY <2>1, <2>2
<1> QED BY <1>1, <1>2, <1>5

(* While nothing is listed, no watch changes its kind or its owner.        *)
LEMMA SameLists ==
  ASSUME UNCHANGED <<world, listed>>
  PROVE  /\ \A w \in Watches : WatchKind(w)' = WatchKind(w)
         /\ \A w \in Watches : \A x : Matches(w, x)' <=> Matches(w, x)
<1>1. \A kind : DependentKind(kind)' = DependentKind(kind)
  BY DEF DependentKind, Objects
<1> QED BY <1>1 DEF WatchKind, Matches

(* doWatch hands on the first event that matches.                          *)
LEMMA TakeIs ==
  ASSUME WatchInv, NEW w \in Watches, Take(w)
  PROVE  \E i \in DOMAIN stream[w] :
           /\ Matches(w, stream[w][i][1])
           /\ \A j \in 1..(i - 1) : ~Matches(w, stream[w][j][1])
           /\ channel[w] = <<>>
           /\ channel' = [channel EXCEPT ![w] = <<stream[w][i]>>]
           /\ stream' = [stream EXCEPT ![w] = SubSeq(@, i + 1, Len(@))]
<1> DEFINE i == Least(Relevant(w))
<1>1. /\ Relevant(w) # {} /\ Relevant(w) \subseteq DOMAIN stream[w]
      /\ stream[w] \in Seq(Events)
  BY DEF Take, Relevant, WatchInv, WiresInv
<1>2. DOMAIN stream[w] = 1..Len(stream[w]) /\ Len(stream[w]) \in Nat
  BY <1>1
<1>3. i \in Relevant(w) /\ \A j \in Relevant(w) : i <= j
  BY <1>1, <1>2, LeastIsLeast
<1>4. /\ channel[w] = <<>>
      /\ channel' = [channel EXCEPT ![w] = <<stream[w][i]>>]
      /\ stream' = [stream EXCEPT ![w] = SubSeq(@, i + 1, Len(@))]
  BY DEF Take
<1> HIDE DEF i
<1>5. i \in 1..Len(stream[w])
  BY <1>1, <1>2, <1>3
<1>6. ASSUME NEW j \in 1..(i - 1) PROVE ~Matches(w, stream[w][j][1])
  <2>1. j \in DOMAIN stream[w] /\ j < i
    BY <1>2, <1>5
  <2>2. j \notin Relevant(w)
    BY <1>2, <1>3, <1>5, <2>1
  <2> QED BY <2>1, <2>2 DEF Relevant
<1> QED BY <1>1, <1>3, <1>4, <1>6 DEF Relevant

(* The first event of a watch: an object that fits it is listed.           *)
LEMMA ForwardAwaits ==
  ASSUME WatchInv, ChainInv, StreamInv, NEW w \in Watches, Forward(w), ~UNCHANGED main
  PROVE  /\ phase = "await" /\ w = Current
         /\ \E o \in Objects :
              /\ Matches(w, o) /\ world[o].kind = WatchKind(w)
              /\ ~Lacks(channel'[w], o) \/ ~Lacks(stream'[w], o)
              /\ listed' = [listed EXCEPT ![turn] = Append(@, o)]
              /\ \/ /\ DependentKind(world[o].kind) # None
                    /\ phase' = "open" /\ wanted' = <<DependentKind(world[o].kind), o>>
                    /\ UNCHANGED turn
                 \/ Advance(After(turn))
<1>1. phase = "await" /\ w = Current /\ Take(w)
  BY DEF Forward
<1>2. PICK i \in DOMAIN stream[w] :
        /\ Matches(w, stream[w][i][1])
        /\ channel' = [channel EXCEPT ![w] = <<stream[w][i]>>]
        /\ stream' = [stream EXCEPT ![w] = SubSeq(@, i + 1, Len(@))]
  BY <1>1, TakeIs
<1>3. /\ stream \in [Watches -> Seq(Events)] /\ channel \in [Watches -> Seq(Events)]
      /\ stream[w] \in Seq(Events)
  BY DEF WatchInv, WiresInv
<1> DEFINE t == SubSeq(stream[w], i + 1, Len(stream[w]))
<1>4. channel'[w] = <<stream[w][i]>> /\ stream'[w] = t
  BY <1>2, <1>3
<1>5. \A k \in DOMAIN t : \E j \in DOMAIN stream[w] : t[k] = stream[w][j]
  <2>1. /\ i \in Nat /\ i >= 1 /\ Len(stream[w]) \in Nat
        /\ DOMAIN stream[w] = 1..Len(stream[w])
        /\ DOMAIN t = 1..(Len(stream[w]) - i)
        /\ \A j \in 1..(Len(stream[w]) - i) : t[j] = stream[w][i + j]
    BY <1>3, SuffixIs
  <2> HIDE DEF t
  <2> QED BY <2>1
<1> HIDE DEF t
<1> DEFINE Later == {k \in DOMAIN stream'[w] :
                       Matches(w, stream'[w][k][1])
                       /\ \A j \in 1..(k - 1) : ~Matches(w, stream'[w][j][1])}
           Heard == {channel'[w][1][1]} \cup {e[1] : e \in {stream'[w][k] : k \in Later}}
<1>6. PICK o \in Heard :
        LET next == DependentKind(world[o].kind)
        IN  /\ listed' = [listed EXCEPT ![turn] = Append(@, o)]
            /\ IF next # None
               THEN /\ phase' = "open"
                    /\ wanted' = <<next, o>>
                    /\ UNCHANGED turn
               ELSE Advance(After(turn))
  BY <1>1 DEF Forward
<1>7. \E j \in DOMAIN stream[w] : stream[w][j][1] = o /\ Matches(w, o)
  <2>1. CASE o = channel'[w][1][1]
    BY <1>2, <1>4, <2>1
  <2>2. CASE \E k \in Later : o = stream'[w][k][1]
    BY <1>4, <1>5, <2>2
  <2> QED BY <2>1, <2>2
<1>8. ~Lacks(channel'[w], o) \/ ~Lacks(stream'[w], o)
  <2>1. CASE o = channel'[w][1][1]
    <3>1. 1 \in DOMAIN channel'[w]
      BY <1>4
    <3> QED BY <2>1, <3>1 DEF Lacks
  <2>2. CASE \E k \in Later : o = stream'[w][k][1]
    BY <2>2 DEF Lacks
  <2> QED BY <2>1, <2>2
<1>9. o \in Objects /\ world[o].kind = WatchKind(w)
  <2>1. PICK j \in DOMAIN stream[w] : stream[w][j][1] = o
    BY <1>7
  <2>2. stream[w][j] \in Events
    BY <1>3
  <2> QED BY <2>1, <2>2 DEF Events, StreamInv, WireInv, Carries
<1> QED BY <1>1, <1>6, <1>7, <1>8, <1>9

-----------------------------------------------------------------------------
(* Every step keeps the chains.                                            *)
LEMMA ChainInit == Init => ChainInv
BY DEF Init, ChainInv

LEMMA QuietChain ==
  ASSUME WatchInv, ChainInv, UNCHANGED <<world, listed>>,
         \/ phase' \notin {"filter", "open", "await"}
         \/ phase' = phase /\ UNCHANGED <<turn, wanted>>
         \/ phase = "open" /\ phase' = "await" /\ UNCHANGED <<turn, wanted>>
  PROVE  ChainInv'
<1>1. \A r \in Turns : \A l \in DOMAIN listed[r] :
        /\ WatchKind(<<r, l>>)' = WatchKind(<<r, l>>)
        /\ \A x : Matches(<<r, l>>, x)' <=> Matches(<<r, l>>, x)
  BY LevelsAre, SameLists DEF Watches
<1>2. ASSUME NEW r \in Turns, NEW l \in DOMAIN listed'[r]
      PROVE  /\ Matches(<<r, l>>, listed[r][l])'
             /\ world'[listed'[r][l]].kind = WatchKind(<<r, l>>)'
             /\ FitsLevel(<<r, l>>, WatchKind(<<r, l>>)')
  <2>1. PICK o : o = listed[r][l]
    OBVIOUS
  <2>2. o = listed'[r][l] /\ l \in DOMAIN listed[r]
    BY <2>1
  <2>3. Matches(<<r, l>>, o) /\ world[o].kind = WatchKind(<<r, l>>)
        /\ FitsLevel(<<r, l>>, WatchKind(<<r, l>>))
    BY <2>1, <2>2 DEF ChainInv
  <2>4. Matches(<<r, l>>, o)' /\ WatchKind(<<r, l>>)' = WatchKind(<<r, l>>)
    BY <1>1, <2>2, <2>3
  <2>5. Matches(<<r, l>>, listed[r][l])'
    BY <2>2, <2>4
  <2> QED BY <2>2, <2>3, <2>4, <2>5
<1>3. phase' = "filter" => \A r \in Turns : listed'[r] = <<>>
  BY DEF ChainInv
<1>4. ASSUME phase' \in {"open", "await"}
      PROVE  /\ wanted'[1] = WatchKind(Current)'
             /\ FitsLevel(Current', wanted'[1])
             /\ \A r \in Turns : r > turn' => listed'[r] = <<>>
  <2>1. phase \in {"open", "await"} /\ UNCHANGED <<turn, wanted>>
    BY <1>4
  <2>2. Current' = Current /\ Current \in Watches
    BY <2>1, LevelsAre DEF Current, Level
  <2>3. WatchKind(Current)' = WatchKind(Current)
    <3>1. \A w \in Watches : WatchKind(w)' = WatchKind(w)
      BY SameLists
    <3>2. PICK c : c = Current
      OBVIOUS
    <3>3. WatchKind(c)' = WatchKind(c)
      BY <2>2, <3>1, <3>2
    <3>4. c = Current'
      BY <2>2, <3>2
    <3>5. WatchKind(Current)' = WatchKind(c)'
      BY <3>4 DEF WatchKind
    <3> QED BY <3>2, <3>3, <3>5
  <2> QED BY <2>1, <2>2, <2>3 DEF ChainInv
<1> QED BY <1>2, <1>3, <1>4 DEF ChainInv

(* Where the collection goes next nothing is listed yet.                   *)
LEMMA AdvanceChain ==
  ASSUME WatchInv, NEW S \in SUBSET Watched, Advance(S), world' = world,
         S # {} => \A r \in Turns : r >= Least(S) => listed'[r] = <<>>
  PROVE  /\ phase' \in {"open", "start"}
         /\ phase' = "open" =>
              /\ wanted'[1] = WatchKind(Current)'
              /\ FitsLevel(Current', wanted'[1])
              /\ \A r \in Turns : r > turn' => listed'[r] = <<>>
<1>1. CASE S = {}
  BY <1>1 DEF Advance
<1>2. CASE S # {}
  <2>1. /\ phase' = "open" /\ turn' = Least(S)
        /\ wanted'[1] = world[Resources[turn']].kind
    BY <1>2 DEF Advance
  <2>2. S \subseteq Nat /\ S \subseteq Turns
    BY TurnsAreNat DEF Watched
  <2>3. turn' \in Turns /\ turn' \in Nat
    BY <1>2, <2>1, <2>2, LeastIsLeast
  <2>4. listed'[turn'] = <<>> /\ \A r \in Turns : r > turn' => listed'[r] = <<>>
    BY <1>2, <2>1, <2>2, <2>3, TurnsAreNat
  <2>5. Len(<<>>) = 0
    BY EmptySeq
  <2>6. Level' = 1
    BY <2>4, <2>5 DEF Level
  <2>7. Current' = <<turn', 1>>
    BY <2>6 DEF Current
  <2>8. WatchKind(Current)' = world'[Resources[turn']].kind
    BY <2>7 DEF WatchKind
  <2>9. FitsLevel(Current', wanted'[1])
    <3>1. Depth(wanted'[1]) \in 1..3
      BY DepthIs
    <3>2. 1 + Depth(wanted'[1]) <= 4
      BY <3>1
    <3> QED BY <2>7, <3>2 DEF FitsLevel
  <2> QED BY <2>1, <2>4, <2>8, <2>9
<1> QED BY <1>1, <1>2

LEMMA ChainForward ==
  ASSUME WatchInv, ChainInv, StreamInv, NEW w \in Watches, Forward(w), ~UNCHANGED main
  PROVE  ChainInv'
<1>1. phase = "await" /\ w = Current /\ world' = world
  BY ForwardAwaits DEF Forward
<1>2. PICK o \in Objects :
        /\ Matches(w, o) /\ world[o].kind = WatchKind(w)
        /\ listed' = [listed EXCEPT ![turn] = Append(@, o)]
        /\ \/ /\ DependentKind(world[o].kind) # None
              /\ phase' = "open" /\ wanted' = <<DependentKind(world[o].kind), o>>
              /\ UNCHANGED turn
           \/ Advance(After(turn))
  BY ForwardAwaits
<1>3. turn \in Turns /\ Level \in 1..3 /\ w = <<turn, Level>>
  BY <1>1, LevelsAre DEF Current
<1>4. /\ DOMAIN listed'[turn] = 1..Level /\ Len(listed'[turn]) = Level
      /\ \A l \in 1..(Level - 1) : listed'[turn][l] = listed[turn][l]
      /\ listed'[turn][Level] = o
      /\ \A r \in Turns : r # turn => listed'[r] = listed[r]
      /\ \A r \in Turns : \A l \in 1..(Len(listed[r]) + 1) :
           /\ WatchKind(<<r, l>>)' = WatchKind(<<r, l>>)
           /\ \A x : Matches(<<r, l>>, x)' <=> Matches(<<r, l>>, x)
  BY <1>1, <1>2, <1>3, ListedExtends
<1>5. \A r \in Turns : Len(listed[r]) \in 0..3 /\ DOMAIN listed[r] = 1..Len(listed[r])
  BY LevelsAre
<1>6. wanted[1] = WatchKind(w) /\ FitsLevel(w, wanted[1])
      /\ \A r \in Turns : r > turn => listed[r] = <<>>
  BY <1>1 DEF ChainInv
<1>7. Level = Len(listed[turn]) + 1
  BY DEF Level
<1>8. ASSUME NEW r \in Turns, NEW l \in DOMAIN listed'[r]
      PROVE  /\ Matches(<<r, l>>, listed[r][l])'
             /\ world'[listed'[r][l]].kind = WatchKind(<<r, l>>)'
             /\ FitsLevel(<<r, l>>, WatchKind(<<r, l>>)')
  <2>1. CASE r = turn /\ l = Level
    <3>1. /\ WatchKind(<<r, l>>)' = WatchKind(w) /\ listed'[r][l] = o
          /\ \A x : Matches(<<r, l>>, x)' <=> Matches(w, x)
      BY <1>3, <1>4, <1>5, <1>7, <2>1
    <3> QED BY <1>1, <1>2, <1>3, <1>6, <2>1, <3>1
  <2>2. CASE ~(r = turn /\ l = Level)
    <3>1. l \in DOMAIN listed[r] /\ listed'[r][l] = listed[r][l] /\ l \in 1..(Len(listed[r]) + 1)
      <4>1. CASE r = turn
        BY <1>3, <1>4, <1>5, <1>7, <2>2, <4>1
      <4>2. CASE r # turn
        BY <1>4, <1>5, <4>2
      <4> QED BY <4>1, <4>2
    <3>2. /\ WatchKind(<<r, l>>)' = WatchKind(<<r, l>>)
          /\ \A x : Matches(<<r, l>>, x)' <=> Matches(<<r, l>>, x)
      BY <1>4, <3>1
    <3> QED BY <1>1, <3>1, <3>2 DEF ChainInv
  <2> QED BY <2>1, <2>2
<1>9. CASE /\ DependentKind(world[o].kind) # None
           /\ phase' = "open" /\ wanted' = <<DependentKind(world[o].kind), o>>
           /\ UNCHANGED turn
  <2>1. Level' = Level + 1 /\ Current' = <<turn, Level + 1>>
    BY <1>4, <1>9 DEF Current, Level
  <2>2. WatchKind(Current)' = DependentKind(world[o].kind)
    <3>1. PICK q \in Turns, v \in 1..3 : q = turn /\ v = Level
      BY <1>3
    <3>2. Current' = <<q, v + 1>> /\ listed'[q][v] = o
      BY <1>4, <2>1, <3>1
    <3>3. v + 1 # 1 /\ v + 1 - 1 = v
      BY <3>1
    <3>4. WatchKind(<<q, v + 1>>)' = DependentKind(world[listed[q][v + 1 - 1]].kind)'
      BY <3>3 DEF WatchKind
    <3>5. \A kind : DependentKind(kind)' = DependentKind(kind)
      BY <1>1 DEF DependentKind, Objects
    <3>6. WatchKind(<<q, v + 1>>)' = DependentKind(world[o].kind)
      BY <1>1, <3>2, <3>3, <3>4, <3>5
    <3>7. WatchKind(Current)' = WatchKind(<<q, v + 1>>)'
      BY <3>2
    <3> QED BY <3>6, <3>7
  <2>3. FitsLevel(Current', wanted'[1])
    <3> DEFINE d == Depth(WatchKind(w))
               n == Depth(DependentKind(world[o].kind))
               v == Level
    <3>1. n < d
      BY <1>2, <1>9, DepthDecreases
    <3>2. v + d <= 4
      BY <1>3, <1>6 DEF FitsLevel
    <3>3. n \in 1..3 /\ d \in 1..3 /\ v \in 1..3
      BY <1>3, DepthIs
    <3>4. wanted'[1] = DependentKind(world[o].kind)
      BY <1>9
    <3>5. Current' = <<turn, v + 1>>
      BY <2>1
    <3>6. FitsLevel(<<turn, v + 1>>, DependentKind(world[o].kind)) <=>
            v + 1 + n <= 4 /\ (v + 1 > 1 => DependentKind(world[o].kind) # None)
      BY DEF FitsLevel
    <3> HIDE DEF d, n, v
    <3>7. v + 1 + n <= 4
      BY <3>1, <3>2, <3>3
    <3> QED BY <1>9, <3>4, <3>5, <3>6, <3>7
  <2>4. \A r \in Turns : r > turn' => listed'[r] = <<>>
    BY <1>3, <1>4, <1>6, <1>9, TurnsAreNat
  <2> QED BY <1>8, <1>9, <2>2, <2>3, <2>4 DEF ChainInv
<1>10. CASE Advance(After(turn))
  <2>1. After(turn) \in SUBSET Watched
    BY DEF After
  <2>2. ASSUME After(turn) # {}, NEW r \in Turns, r >= Least(After(turn))
        PROVE  listed'[r] = <<>>
    <3>1. After(turn) \subseteq Turns /\ After(turn) \subseteq Nat
      BY TurnsAreNat DEF After, Watched
    <3>2. Least(After(turn)) \in After(turn)
      BY <2>2, <3>1, LeastIsLeast
    <3>3. Least(After(turn)) > turn
      BY <3>2 DEF After
    <3>4. r > turn
      BY <1>3, <2>2, <3>1, <3>2, <3>3, TurnsAreNat
    <3> QED BY <1>3, <1>4, <1>6, <3>4, TurnsAreNat
  <2>3. /\ phase' \in {"open", "start"}
        /\ phase' = "open" =>
             /\ wanted'[1] = WatchKind(Current)'
             /\ FitsLevel(Current', wanted'[1])
             /\ \A r \in Turns : r > turn' => listed'[r] = <<>>
    BY <1>1, <1>10, <2>1, <2>2, AdvanceChain
  <2> QED BY <1>8, <2>3 DEF ChainInv
<1> QED BY <1>2, <1>9, <1>10

LEMMA ChainStep ==
  ASSUME WatchInv, ChainInv, StreamInv, [Next]_vars PROVE ChainInv'
<1>1. CASE Filter
  <2>1. UNCHANGED <<world, listed>> /\ phase = "filter"
    BY <1>1 DEF Filter
  <2>2. CASE phase' = "panicked"
    BY <2>1, <2>2, QuietChain
  <2>3. CASE Advance(Watched)
    <3>1. \A r \in Turns : listed'[r] = <<>>
      BY <2>1 DEF ChainInv
    <3>2. /\ phase' \in {"open", "start"}
          /\ phase' = "open" =>
               /\ wanted'[1] = WatchKind(Current)'
               /\ FitsLevel(Current', wanted'[1])
               /\ \A r \in Turns : r > turn' => listed'[r] = <<>>
      BY <2>1, <2>3, <3>1, AdvanceChain
    <3> QED BY <3>1, <3>2 DEF ChainInv
  <2> QED BY <1>1, <2>2, <2>3 DEF Filter
<1>2. CASE Open \/ OpenFails
  BY <1>2, QuietChain DEF Open, OpenFails
<1>3. ASSUME NEW w \in Watches, Forward(w) PROVE ChainInv'
  <2>1. CASE UNCHANGED main
    BY <1>3, <2>1, QuietChain DEF Forward, main
  <2>2. CASE ~UNCHANGED main
    BY <1>3, <2>2, ChainForward
  <2> QED BY <2>1, <2>2
<1>4. CASE Start \/ Check \/ Tick
  BY <1>4, QuietChain DEF Start, Check, Tick
<1>5. ASSUME NEW w \in Watches, Close(w) PROVE ChainInv'
  BY <1>5, QuietChain DEF Close, main
<1>6. ASSUME NEW r \in Turns, NEW l \in 1..3, Receive(r, l) PROVE ChainInv'
  BY <1>6, QuietChain DEF Receive
<1>7. ASSUME NEW o \in Objects, Live(o) PROVE ChainInv'
  BY <1>7, QuietChain DEF Live, main
<1>8. CASE UNCHANGED vars
  BY <1>8, QuietChain DEF vars, main
<1> QED BY <1>1, <1>2, <1>3, <1>4, <1>5, <1>6, <1>7, <1>8 DEF Next, Rest

-----------------------------------------------------------------------------
(* Only Open opens a watch, none is given up, and an open one keeps its    *)
(* kind and its owner.                                                     *)
Framed ==
  /\ world' = world
  /\ Opened' = Opened
  /\ \A w \in Opened : /\ WatchKind(w)' = WatchKind(w)
                       /\ \A x : Matches(w, x)' <=> Matches(w, x)

LEMMA QuietFrame ==
  ASSUME UNCHANGED <<world, listed>>,
         \/ phase' = phase /\ turn' = turn
         \/ phase # "await" /\ phase' # "await"
  PROVE  Framed
<1>1. Current' = Current \/ (phase # "await" /\ phase' # "await")
  BY DEF Current, Level
<1>2. Opened' = Opened
  BY <1>1 DEF Opened
<1>3. Opened \subseteq Watches
  BY DEF Opened
<1> QED BY <1>2, <1>3, SameLists DEF Framed

LEMMA ForwardFrame ==
  ASSUME WatchInv, ChainInv, StreamInv, NEW w \in Watches, Forward(w) PROVE Framed
<1>1. CASE UNCHANGED main
  BY <1>1, QuietFrame DEF Forward, main
<1>2. CASE ~UNCHANGED main
  <2>1. phase = "await" /\ w = Current /\ world' = world
    BY <1>2, ForwardAwaits DEF Forward
  <2>2. PICK o \in Objects :
          /\ listed' = [listed EXCEPT ![turn] = Append(@, o)]
          /\ phase' = "open" \/ Advance(After(turn))
    BY <1>2, ForwardAwaits
  <2>3. turn \in Turns /\ Level \in 1..3 /\ Level = Len(listed[turn]) + 1
    BY <2>1, LevelsAre DEF Level
  <2>4. /\ Len(listed'[turn]) = Level
        /\ \A r \in Turns : r # turn => listed'[r] = listed[r]
        /\ \A r \in Turns : \A l \in 1..(Len(listed[r]) + 1) :
             /\ WatchKind(<<r, l>>)' = WatchKind(<<r, l>>)
             /\ \A x : Matches(<<r, l>>, x)' <=> Matches(<<r, l>>, x)
    BY <2>1, <2>2, <2>3, ListedExtends
  <2>5. \A r \in Turns : Len(listed[r]) \in 0..3
    BY LevelsAre
  <2>6. phase' # "await"
    BY <2>2 DEF Advance
  <2>7. ASSUME NEW r \in Turns, NEW l \in 1..3
        PROVE  <<r, l>> \in Opened' <=> <<r, l>> \in Opened
    <3>1. <<r, l>> \in Opened' <=> l <= Len(listed'[r])
      BY <2>6 DEF Opened, Watches
    <3>2. <<r, l>> \in Opened <=> l <= Len(listed[r]) \/ (r = turn /\ l = Level)
      BY <2>1 DEF Opened, Watches, Current
    <3>3. CASE r = turn
      BY <2>3, <2>4, <2>5, <3>1, <3>2, <3>3
    <3>4. CASE r # turn
      BY <2>4, <3>1, <3>2, <3>4
    <3> QED BY <3>3, <3>4
  <2>8. Opened' = Opened
    <3>1. Opened \subseteq Turns \X (1..3) /\ Opened' \subseteq Turns \X (1..3)
      BY DEF Opened, Watches
    <3>2. ASSUME NEW v \in Turns \X (1..3) PROVE v \in Opened' <=> v \in Opened
      <4>1. PICK r \in Turns, l \in 1..3 : v = <<r, l>>
        OBVIOUS
      <4>2. <<r, l>> \in Opened' <=> <<r, l>> \in Opened
        BY <2>7
      <4> QED BY <4>1, <4>2
    <3> QED BY <3>1, <3>2
  <2>9. ASSUME NEW v \in Opened
        PROVE  /\ WatchKind(v)' = WatchKind(v)
               /\ \A x : Matches(v, x)' <=> Matches(v, x)
    <3>1. PICK r \in Turns, l \in 1..3 : v = <<r, l>>
      BY DEF Opened, Watches
    <3>2. l <= Len(listed[r]) \/ (r = turn /\ l = Level)
      BY <2>1, <3>1 DEF Opened, Watches, Current
    <3>3. l \in 1..(Len(listed[r]) + 1)
      BY <2>3, <2>5, <3>2
    <3> QED BY <2>4, <3>1, <3>3
  <2> QED BY <2>1, <2>8, <2>9 DEF Framed
<1> QED BY <1>1, <1>2

LEMMA OpenFrame ==
  ASSUME WatchInv, ChainInv, Open
  PROVE  /\ UNCHANGED <<world, listed, turn>> /\ phase = "open" /\ phase' = "await"
         /\ Current \in Watches /\ Current \notin Opened /\ Current' = Current
         /\ Opened' = Opened \cup {Current}
         /\ \A w \in Watches : /\ WatchKind(w)' = WatchKind(w)
                               /\ \A x : Matches(w, x)' <=> Matches(w, x)
<1>1. UNCHANGED <<world, listed, turn>> /\ phase = "open" /\ phase' = "await"
  BY DEF Open
<1>2. Current \in Watches /\ Current' = Current
  BY <1>1, LevelsAre DEF Current, Level
<1>3. Current \notin Opened
  <2>1. Len(listed[turn]) \in 0..3 /\ Level = Len(listed[turn]) + 1
    BY <1>1, LevelsAre DEF Level
  <2>2. ~(Level <= Len(listed[turn]))
    BY <2>1
  <2> QED BY <1>1, <2>2 DEF Opened, Current
<1>4. Opened' = Opened \cup {Current}
  BY <1>1, <1>2 DEF Opened
<1> QED BY <1>1, <1>2, <1>3, <1>4, SameLists

-----------------------------------------------------------------------------
(* What Open finds: an event of each object of the kind that exists, in    *)
(* some order.                                                             *)
LEMMA OpenSends ==
  ASSUME WatchInv, ChainInv, StreamInv, Open
  PROVE  /\ \A w \in Watches : w # Current => stream'[w] = stream[w]
         /\ Carries(stream'[Current], Current)
         /\ \A o \in Objects : world[o].kind = WatchKind(Current) =>
              IF Exists(o) THEN LastIs(stream'[Current], o, at[o])
              ELSE Lacks(stream'[Current], o)
<1> DEFINE S == {o \in Objects : world[o].kind = wanted[1] /\ Exists(o)}
<1>1. PICK order \in Orders(S) :
        stream' = [stream EXCEPT ![Current] =
                     [i \in DOMAIN order |-> <<order[i], at[order[i]]>>]]
  BY DEF Open
<1>2. IsFiniteSet(S) /\ Cardinality(S) \in Nat
  BY FS_Subset, FS_CardinalityType, WorldsAssumption DEF WatchInv, WiresInv, Objects
<1>3. /\ order \in [1..Cardinality(S) -> S]
      /\ \A i, j \in DOMAIN order : order[i] = order[j] => i = j
  BY <1>1 DEF Orders
<1>4. \A o \in S : \E i \in DOMAIN order : order[i] = o
  <2>1. order \in Injection(1..Cardinality(S), S)
    BY <1>3 DEF Injection, IsInjective
  <2>2. Cardinality(1..Cardinality(S)) = Cardinality(S)
    BY <1>2, FS_Interval
  <2>3. order \in Surjection(1..Cardinality(S), S)
    BY <1>2, <2>1, <2>2, FS_Injection
  <2> QED BY <1>3, <2>3 DEF Surjection
<1>5. Current \in Watches /\ wanted[1] = WatchKind(Current)
  BY OpenFrame DEF ChainInv
<1> DEFINE s == [i \in DOMAIN order |-> <<order[i], at[order[i]]>>]
<1>6. stream'[Current] = s /\ \A w \in Watches : w # Current => stream'[w] = stream[w]
  BY <1>1, <1>5 DEF WatchInv, WiresInv
<1>7. \A o \in S : o \in Objects /\ world[o].kind = wanted[1] /\ Exists(o) /\ at[o] \in Nat
  BY DEF WatchInv, WiresInv
<1>8. \A o \in Objects : world[o].kind = wanted[1] /\ Exists(o) => o \in S
  OBVIOUS
<1> HIDE DEF S
<1>9. Carries(s, Current)
  <2>1. ASSUME NEW i \in DOMAIN s
        PROVE  world[s[i][1]].kind = WatchKind(Current) /\ s[i][2] <= at[s[i][1]]
    <3>1. s[i] = <<order[i], at[order[i]]>> /\ order[i] \in S
      BY <1>3
    <3> QED BY <1>5, <1>7, <3>1
  <2> QED BY <2>1 DEF Carries
<1>10. ASSUME NEW o \in Objects, world[o].kind = WatchKind(Current), Exists(o)
       PROVE  LastIs(s, o, at[o])
  <2>1. PICK i \in DOMAIN order : order[i] = o
    BY <1>4, <1>5, <1>8, <1>10
  <2>2. i \in DOMAIN s /\ s[i] = <<o, at[o]>>
    BY <2>1
  <2>3. ASSUME NEW j \in DOMAIN s, j > i PROVE s[j][1] # o
    <3>1. j # i
      BY <1>2, <1>3, <2>1, <2>3
    <3> QED BY <1>3, <2>1, <3>1
  <2> HIDE DEF s
  <2> QED BY <2>2, <2>3 DEF LastIs
<1>11. ASSUME NEW o \in Objects, world[o].kind = WatchKind(Current), ~Exists(o)
       PROVE  Lacks(s, o)
  <2>1. \A i \in DOMAIN s : s[i][1] \in S
    BY <1>3
  <2> HIDE DEF s
  <2> QED BY <1>7, <1>11, <2>1 DEF Lacks
<1> QED BY <1>6, <1>9, <1>10, <1>11

-----------------------------------------------------------------------------
(* Every step keeps what the wires carry.                                  *)
LEMMA StreamInit == Init => StreamInv
<1> SUFFICES ASSUME Init PROVE StreamInv
  OBVIOUS
<1>1. \A o \in Objects : at[o] = world[o].begin /\ at[o] \in 0..Len(world[o].life)
      /\ Len(world[o].life) \in Nat
  BY WorldsAssumption DEF Init, Objects
<1>2. \A w \in Watches : WireInv(w)
  BY EmptySeq DEF Init, WireInv, Carries
<1> QED BY <1>1, <1>2 DEF Init, StreamInv

(* Events that were there already go on being right while the cluster only *)
(* goes on.                                                                *)
LEMMA CarriesOn ==
  ASSUME WatchInv, WiresInv', world' = world, \A o \in Objects : at[o] <= at'[o],
         NEW w \in Watches, WatchKind(w)' = WatchKind(w),
         NEW s \in Seq(Events), Carries(s, w), NEW t,
         \A i \in DOMAIN t : \E j \in DOMAIN s : t[i] = s[j]
  PROVE  Carries(t, w)'
<1>1. ASSUME NEW i \in DOMAIN t
      PROVE  world'[t[i][1]].kind = WatchKind(w)' /\ t[i][2] <= at'[t[i][1]]
  <2>1. PICK j \in DOMAIN s : t[i] = s[j]
    OBVIOUS
  <2>2. s[j] \in Events
    OBVIOUS
  <2>3. s[j][1] \in Objects /\ s[j][2] \in Nat
    BY <2>2 DEF Events
  <2>4. at[s[j][1]] \in Nat /\ at'[s[j][1]] \in Nat /\ at[s[j][1]] <= at'[s[j][1]]
    BY <2>3 DEF WatchInv, WiresInv, Objects
  <2>5. world[s[j][1]].kind = WatchKind(w) /\ s[j][2] <= at[s[j][1]]
    BY DEF Carries
  <2> QED BY <2>1, <2>3, <2>4, <2>5
<1> QED BY <1>1 DEF Carries

(* A watch of which nothing changes.                                       *)
LEMMA WireKept ==
  ASSUME WatchInv, WiresInv', world' = world, \A o \in Objects : at[o] <= at'[o],
         NEW w \in Watches, WireInv(w), w \in Opened' <=> w \in Opened,
         w \in Opened => WatchKind(w)' = WatchKind(w),
         stream'[w] = stream[w], channel'[w] = channel[w]
  PROVE  WireInv(w)'
<1>1. CASE w \notin Opened
  <2>1. stream'[w] = <<>> /\ channel'[w] = <<>>
    BY <1>1 DEF WireInv
  <2>2. DOMAIN <<>> = {} /\ Len(<<>>) = 0
    OBVIOUS
  <2> QED BY <2>1, <2>2 DEF WireInv, Carries
<1>2. CASE w \in Opened
  <2>1. PICK s, t : s = stream[w] /\ t = channel[w]
    OBVIOUS
  <2>2. s \in Seq(Events) /\ t \in Seq(Events) /\ Carries(s, w) /\ Carries(t, w)
    BY <2>1 DEF WatchInv, WiresInv, WireInv
  <2>3. Carries(s, w)' /\ Carries(t, w)'
    BY <1>2, <2>2, CarriesOn
  <2>4. Carries(stream[w], w)' /\ Carries(channel[w], w)'
    BY <2>1, <2>3
  <2> QED BY <1>2, <2>4 DEF WireInv
<1> QED BY <1>1, <1>2

LEMMA WireOpen ==
  ASSUME WatchInv, WatchInv', ChainInv, StreamInv, Open, NEW w \in Watches PROVE WireInv(w)'
<1>1. /\ world' = world /\ at' = at /\ channel' = channel
      /\ WatchKind(w)' = WatchKind(w)
      /\ Opened' = Opened \cup {Current}
      /\ Current \notin Opened /\ Current \in Watches
  BY OpenFrame DEF Open
<1>2. WireInv(w)
  BY DEF StreamInv
<1>3. \A o \in Objects : at[o] <= at'[o]
  BY <1>1 DEF WatchInv, WiresInv
<1>4. CASE w # Current
  <2>1. stream'[w] = stream[w]
    BY <1>4, OpenSends
  <2> QED BY <1>1, <1>2, <1>3, <1>4, <2>1, WireKept DEF WatchInv
<1>5. CASE w = Current
  <2>1. PICK s : s = stream'[w]
    OBVIOUS
  <2>2. s \in Seq(Events) /\ Carries(s, w)
    BY <1>5, <2>1, OpenSends DEF WatchInv, WiresInv, Events, Objects, Open
  <2>3. Carries(s, w)'
    BY <1>1, <1>3, <2>2, CarriesOn DEF WatchInv
  <2>4. channel'[w] = <<>>
    BY <1>1, <1>2, <1>5 DEF WireInv
  <2>5. DOMAIN <<>> = {} /\ Len(<<>>) = 0
    OBVIOUS
  <2>6. Carries(channel[w], w)'
    BY <2>4, <2>5 DEF Carries
  <2>7. Carries(stream[w], w)'
    BY <2>1, <2>3
  <2> QED BY <1>1, <1>5, <2>4, <2>5, <2>6, <2>7 DEF WireInv
<1> QED BY <1>4, <1>5

LEMMA WireForward ==
  ASSUME WatchInv, WatchInv', ChainInv, StreamInv, NEW v \in Watches, Forward(v),
         NEW w \in Watches
  PROVE  WireInv(w)'
<1>1. /\ world' = world /\ at' = at /\ Framed /\ Take(v) /\ v \in Opened
  BY ForwardFrame DEF Forward
<1>2. WireInv(w) /\ Opened' = Opened /\ (w \in Opened => WatchKind(w)' = WatchKind(w))
  BY <1>1 DEF StreamInv, Framed
<1>3. \A o \in Objects : at[o] <= at'[o]
  BY <1>1 DEF WatchInv, WiresInv
<1>4. PICK i \in DOMAIN stream[v] :
        /\ channel' = [channel EXCEPT ![v] = <<stream[v][i]>>]
        /\ stream' = [stream EXCEPT ![v] = SubSeq(@, i + 1, Len(@))]
  BY <1>1, TakeIs
<1>5. CASE w # v
  <2>1. stream'[w] = stream[w] /\ channel'[w] = channel[w]
    BY <1>4, <1>5 DEF WatchInv, WiresInv
  <2> QED BY <1>1, <1>2, <1>3, <2>1, WireKept DEF WatchInv
<1>6. CASE w = v
  <2>1. PICK s : s = stream[w]
    OBVIOUS
  <2>2. s \in Seq(Events) /\ Carries(s, w) /\ i \in DOMAIN s
    BY <1>2, <1>4, <1>6, <2>1 DEF WatchInv, WiresInv, WireInv
  <2> DEFINE t == SubSeq(s, i + 1, Len(s))
             c == <<s[i]>>
  <2>3. stream'[w] = t /\ channel'[w] = c
    BY <1>4, <1>6, <2>1 DEF WatchInv, WiresInv
  <2>4. /\ i \in Nat /\ i >= 1 /\ Len(s) \in Nat
        /\ DOMAIN s = 1..Len(s)
        /\ DOMAIN t = 1..(Len(s) - i)
        /\ \A j \in 1..(Len(s) - i) : t[j] = s[i + j]
    BY <2>2, SuffixIs
  <2>5. DOMAIN c = {1} /\ c[1] = s[i] /\ Len(c) = 1
    OBVIOUS
  <2> HIDE DEF t, c
  <2>6. \A k \in DOMAIN t : \E j \in DOMAIN s : t[k] = s[j]
    BY <2>4
  <2>7. Carries(t, w)' /\ Carries(c, w)'
    <3>1. \A k \in DOMAIN c : \E j \in DOMAIN s : c[k] = s[j]
      BY <2>2, <2>5
    <3> QED BY <1>1, <1>2, <1>3, <1>6, <2>2, <2>6, <3>1, CarriesOn DEF WatchInv
  <2>8. Carries(stream[w], w)' /\ Carries(channel[w], w)'
    BY <2>3, <2>7
  <2> QED BY <1>1, <1>2, <1>6, <2>3, <2>5, <2>8 DEF WireInv
<1> QED BY <1>5, <1>6

LEMMA WireReceive ==
  ASSUME WatchInv, WatchInv', ChainInv, StreamInv, NEW r \in Turns, NEW l \in 1..3,
         Receive(r, l), NEW w \in Watches
  PROVE  WireInv(w)'
<1>1. /\ UNCHANGED <<world, at, listed, stream>>
      /\ channel' = [channel EXCEPT ![<<r, l>>] = <<>>]
  BY DEF Receive
<1>2. Framed
  BY QuietFrame DEF Receive
<1>3. WireInv(w) /\ Opened' = Opened /\ (w \in Opened => WatchKind(w)' = WatchKind(w))
  BY <1>2 DEF StreamInv, Framed
<1>4. \A o \in Objects : at[o] <= at'[o]
  BY <1>1 DEF WatchInv, WiresInv
<1>5. CASE w # <<r, l>>
  <2>1. channel'[w] = channel[w]
    BY <1>1, <1>5 DEF WatchInv, WiresInv
  <2> QED BY <1>1, <1>3, <1>4, <2>1, WireKept DEF WatchInv
<1>6. CASE w = <<r, l>>
  <2>1. channel'[w] = <<>> /\ channel[w] # <<>>
    BY <1>1, <1>6 DEF WatchInv, WiresInv, Receive
  <2>2. w \in Opened
    BY <1>3, <2>1 DEF WireInv
  <2>3. PICK s : s = stream[w]
    OBVIOUS
  <2>4. s \in Seq(Events) /\ Carries(s, w)
    BY <1>3, <2>3 DEF WatchInv, WiresInv, WireInv
  <2>5. Carries(s, w)'
    BY <1>1, <1>3, <1>4, <2>2, <2>4, CarriesOn DEF WatchInv
  <2>6. DOMAIN <<>> = {} /\ Len(<<>>) = 0
    OBVIOUS
  <2>7. Carries(channel[w], w)'
    BY <2>1, <2>6 DEF Carries
  <2>8. Carries(stream[w], w)'
    BY <1>1, <2>3, <2>5
  <2> QED BY <1>3, <2>1, <2>2, <2>6, <2>7, <2>8 DEF WireInv
<1> QED BY <1>5, <1>6

LEMMA WireLive ==
  ASSUME WatchInv, WatchInv', ChainInv, StreamInv, NEW o \in Objects, Live(o),
         NEW w \in Watches
  PROVE  WireInv(w)'
<1>1. /\ UNCHANGED <<world, main, channel>>
      /\ at' = [at EXCEPT ![o] = @ + 1]
      /\ stream' = [v \in Watches |->
           IF v \in Opened \ closed /\ WatchKind(v) = world[o].kind
           THEN Append(stream[v], <<o, at[o] + 1>>) ELSE stream[v]]
  BY DEF Live
<1>2. Framed
  BY <1>1, QuietFrame DEF main
<1>3. WireInv(w) /\ Opened' = Opened /\ (w \in Opened => WatchKind(w)' = WatchKind(w))
  BY <1>2 DEF StreamInv, Framed
<1>4. at'[o] = at[o] + 1 /\ \A x \in Objects : at[x] <= at'[x]
  BY <1>1 DEF WatchInv, WiresInv
<1>5. CASE stream'[w] = stream[w]
  BY <1>1, <1>3, <1>4, <1>5, WireKept DEF WatchInv
<1>6. CASE w \in Opened /\ WatchKind(w) = world[o].kind
           /\ stream'[w] = Append(stream[w], <<o, at[o] + 1>>)
  <2>1. PICK s, c, e : s = stream[w] /\ c = channel[w] /\ e = <<o, at[o] + 1>>
    OBVIOUS
  <2>2. /\ s \in Seq(Events) /\ Carries(s, w) /\ c \in Seq(Events) /\ Carries(c, w)
        /\ e \in Events
    BY <1>3, <2>1 DEF WatchInv, WiresInv, WireInv, Events
  <2>3. Carries(s, w)' /\ Carries(c, w)'
    BY <1>1, <1>3, <1>4, <1>6, <2>2, CarriesOn DEF WatchInv
  <2> DEFINE t == Append(s, e)
  <2>4. /\ DOMAIN t = 1..(Len(s) + 1) /\ Len(s) \in Nat /\ DOMAIN s = 1..Len(s)
        /\ \A i \in 1..Len(s) : t[i] = s[i]
        /\ t[Len(s) + 1] = e
    BY <2>2, AppendProperties
  <2>5. stream'[w] = t
    BY <1>6, <2>1
  <2> HIDE DEF t
  <2>6. \A i \in DOMAIN t : (i \in DOMAIN s /\ t[i] = s[i]) \/ t[i] = e
    BY <2>4
  <2>7. world'[e[1]].kind = WatchKind(w)' /\ e[2] <= at'[e[1]]
    <3>1. e[1] = o /\ e[2] = at[o] + 1 /\ at[o] + 1 \in Nat
      BY <2>1 DEF WatchInv, WiresInv
    <3> QED BY <1>1, <1>3, <1>4, <1>6, <3>1
  <2>8. Carries(t, w)'
    BY <2>3, <2>6, <2>7 DEF Carries
  <2>9. Carries(stream[w], w)' /\ Carries(channel[w], w)'
    BY <1>1, <2>1, <2>3, <2>5, <2>8
  <2> QED BY <1>1, <1>3, <1>6, <2>9 DEF WireInv
<1> QED BY <1>1, <1>5, <1>6

(* The steps of the main loop, the failures and the server's closing of a  *)
(* watch leave the wires alone.                                            *)
Idle ==
  \/ Filter \/ OpenFails \/ Start \/ Check \/ Tick
  \/ \E w \in Watches : Close(w)
  \/ UNCHANGED vars

LEMMA IdleFrame ==
  ASSUME Idle
  PROVE  /\ UNCHANGED <<world, at, listed, stream, channel, rows>> /\ Framed
         /\ closed \subseteq closed'
<1>1. CASE Filter
  BY <1>1, QuietFrame DEF Filter, Advance, wires
<1>2. CASE OpenFails
  BY <1>2, QuietFrame DEF OpenFails, wires
<1>3. CASE Start
  BY <1>3, QuietFrame DEF Start, wires
<1>4. CASE Check
  BY <1>4, QuietFrame DEF Check, wires
<1>5. CASE Tick
  BY <1>5, QuietFrame DEF Tick, wires
<1>6. ASSUME NEW w \in Watches, Close(w)
      PROVE  /\ UNCHANGED <<world, at, listed, stream, channel, rows>> /\ Framed
             /\ closed \subseteq closed'
  BY <1>6, QuietFrame DEF Close, main
<1>7. CASE UNCHANGED vars
  BY <1>7, QuietFrame DEF vars, main, wires
<1> QED BY <1>1, <1>2, <1>3, <1>4, <1>5, <1>6, <1>7 DEF Idle

LEMMA NextIs ==
  ASSUME [Next]_vars
  PROVE  \/ Idle \/ Open
         \/ \E w \in Watches : Forward(w)
         \/ \E r \in Turns, l \in 1..3 : Receive(r, l)
         \/ \E o \in Objects : Live(o)
BY DEF Next, Rest, Idle

LEMMA WireStep ==
  ASSUME WatchInv, WatchInv', ChainInv, StreamInv, [Next]_vars, NEW w \in Watches
  PROVE  WireInv(w)'
<1>1. CASE Idle
  <2>1. /\ world' = world /\ stream'[w] = stream[w] /\ channel'[w] = channel[w]
        /\ \A o \in Objects : at[o] <= at'[o]
        /\ w \in Opened' <=> w \in Opened
        /\ w \in Opened => WatchKind(w)' = WatchKind(w)
    BY <1>1, IdleFrame DEF Framed, WatchInv, WiresInv
  <2> QED BY <2>1, WireKept DEF StreamInv, WatchInv
<1> QED BY <1>1, NextIs, WireOpen, WireForward, WireReceive, WireLive

(* The rows show what has happened.                                        *)
LEMMA RowsStep ==
  ASSUME WatchInv, WatchInv', ChainInv, StreamInv, [Next]_vars,
         NEW q \in Turns, NEW o \in Objects'
  PROVE  rows'[q][o] <= at'[o] /\ at'[o] <= Len(world'[o].life)
<1>1. world' = world /\ Objects' = Objects
  BY NextIs, IdleFrame, OpenFrame, ForwardFrame DEF Framed, Objects, Receive, Live
<1>2. rows[q][o] <= at[o] /\ at[o] <= Len(world[o].life)
  BY <1>1 DEF StreamInv
<1>3. /\ at[o] \in Nat /\ rows[q][o] \in Nat
      /\ at \in [Objects -> Nat] /\ rows \in [Turns -> [Objects -> Nat]]
      /\ channel \in [Watches -> Seq(Events)]
  BY <1>1 DEF WatchInv, WiresInv
<1>4. CASE UNCHANGED <<at, rows>>
  BY <1>1, <1>2, <1>4
<1>5. ASSUME NEW r \in Turns, NEW l \in 1..3, Receive(r, l), ~UNCHANGED rows
      PROVE  rows'[q][o] <= at'[o]
  <2>1. PICK w, c, e : w = <<r, l>> /\ c = channel[w] /\ e = c[1]
    OBVIOUS
  <2>2. /\ w \in Watches /\ c # <<>> /\ at' = at
        /\ rows' = [rows EXCEPT ![r] = [rows[r] EXCEPT ![e[1]] = e[2]]]
    BY <1>5, <2>1 DEF Receive
  <2>3. WireInv(w) /\ c \in Seq(Events)
    BY <1>3, <2>1, <2>2 DEF StreamInv
  <2>4. e \in Events /\ 1 \in DOMAIN c
    BY <2>1, <2>2, <2>3
  <2>5. e[2] <= at[e[1]]
    BY <2>1, <2>3, <2>4 DEF WireInv, Carries
  <2>6. rows'[q][o] = IF q = r /\ o = e[1] THEN e[2] ELSE rows[q][o]
    BY <1>1, <1>3, <2>2
  <2> QED BY <1>2, <2>2, <2>5, <2>6
<1>6. ASSUME NEW x \in Objects, Live(x)
      PROVE  rows'[q][o] <= at'[o] /\ at'[o] <= Len(world'[o].life)
  <2>1. /\ at[x] < Len(world[x].life) /\ at' = [at EXCEPT ![x] = @ + 1] /\ rows' = rows
    BY <1>6 DEF Live
  <2>2. Len(world[o].life) \in Nat
    BY <1>1, WorldsAssumption DEF WatchInv, WiresInv, Objects
  <2>3. at'[o] = IF o = x THEN at[o] + 1 ELSE at[o]
    BY <1>1, <1>3, <2>1
  <2>4. CASE o = x
    BY <1>1, <1>2, <1>3, <2>1, <2>2, <2>3, <2>4
  <2>5. CASE o # x
    BY <1>1, <1>2, <1>3, <2>1, <2>2, <2>3, <2>5
  <2> QED BY <2>4, <2>5
<1>7. CASE Idle
  BY <1>4, <1>7, IdleFrame
<1>8. CASE Open
  BY <1>4, <1>8 DEF Open
<1>9. ASSUME NEW w \in Watches, Forward(w) PROVE UNCHANGED <<at, rows>>
  BY <1>9 DEF Forward
<1>10. ASSUME NEW r \in Turns, NEW l \in 1..3, Receive(r, l) PROVE at' = at
  BY <1>10 DEF Receive
<1> QED BY <1>1, <1>2, <1>4, <1>5, <1>6, <1>7, <1>8, <1>9, <1>10, NextIs

LEMMA RunningStep ==
  ASSUME WatchInv, WatchInv', ChainInv, StreamInv, [Next]_vars
  PROVE  (running \cup finished \subseteq Watched)'
<1>1. world' = world /\ steps' = steps
  BY NextIs, IdleFrame, OpenFrame, ForwardFrame
  DEF Framed, Idle, Filter, Open, OpenFails, Start, Check, Tick, Close, Forward, Receive, Live,
      vars
<1>2. Watched' = Watched
  BY <1>1 DEF Watched, Terraform, Objects
<1>3. running' \subseteq running \cup Watched
  BY DEF Next, Rest, Filter, Open, OpenFails, Start, Check, Tick, Close, Forward, Receive, Live,
      vars
<1>4. finished' \subseteq finished \cup Watched
  BY DEF Next, Rest, Filter, Open, OpenFails, Start, Check, Tick, Close, Forward, Receive, Live,
      vars
<1> QED BY <1>2, <1>3, <1>4 DEF StreamInv

LEMMA StreamStep ==
  ASSUME WatchInv, WatchInv', ChainInv, StreamInv, [Next]_vars PROVE StreamInv'
<1>1. \A w \in Watches : WireInv(w)'
  BY WireStep
<1>2. \A r \in Turns : \A o \in Objects' : rows'[r][o] <= at'[o]
  BY RowsStep
<1>3. \A o \in Objects' : at'[o] <= Len(world'[o].life)
  <2>1. 1 \in Turns
    BY ResourcesAssumption DEF Turns
  <2> QED BY <2>1, RowsStep
<1> QED BY <1>1, <1>2, <1>3, RunningStep DEF StreamInv

-----------------------------------------------------------------------------
(* The kinds of the open watches of a resource are all different, for each *)
(* is nearer to the end of the chain than the one before.                  *)
LEMMA KindsGoDown ==
  ASSUME WatchInv, ChainInv, NEW r \in Turns, NEW l \in 1..2, <<r, l + 1>> \in Opened
  PROVE  <<r, l>> \in Opened /\ Depth(WatchKind(<<r, l + 1>>)) < Depth(WatchKind(<<r, l>>))
<1>1. l + 1 <= Len(listed[r]) \/ (phase = "await" /\ r = turn /\ l + 1 = Level)
  BY DEF Opened, Current
<1>2. Len(listed[r]) \in 0..3 /\ DOMAIN listed[r] = 1..Len(listed[r])
  BY LevelsAre
<1>3. l \in DOMAIN listed[r]
  BY <1>1, <1>2 DEF Level
<1>4. FitsLevel(<<r, l + 1>>, WatchKind(<<r, l + 1>>))
  <2>1. CASE l + 1 <= Len(listed[r])
    <3>1. l + 1 \in DOMAIN listed[r]
      BY <1>2, <2>1
    <3> QED BY <3>1 DEF ChainInv
  <2>2. CASE phase = "await" /\ r = turn /\ l + 1 = Level
    <3>1. Current = <<r, l + 1>>
      BY <2>2 DEF Current
    <3> QED BY <2>2, <3>1 DEF ChainInv
  <2> QED BY <1>1, <2>1, <2>2
<1>5. WatchKind(<<r, l + 1>>) # None
  <2>1. <<r, l + 1>>[2] > 1
    OBVIOUS
  <2> QED BY <1>4, <2>1 DEF FitsLevel
<1>6. WatchKind(<<r, l + 1>>) = DependentKind(WatchKind(<<r, l>>))
  <2>1. l + 1 # 1 /\ l + 1 - 1 = l
    OBVIOUS
  <2>2. WatchKind(<<r, l + 1>>) = DependentKind(world[listed[r][l]].kind)
    BY <2>1 DEF WatchKind
  <2>3. world[listed[r][l]].kind = WatchKind(<<r, l>>)
    BY <1>3 DEF ChainInv
  <2> QED BY <2>2, <2>3
<1>7. <<r, l>> \in Opened
  BY <1>2, <1>3 DEF Opened, Watches
<1> QED BY <1>5, <1>6, <1>7, DepthDecreases

LEMMA KindsDiffer ==
  ASSUME WatchInv, ChainInv, NEW r \in Turns, NEW l \in 1..3, NEW k \in 1..3, l < k,
         <<r, k>> \in Opened
  PROVE  WatchKind(<<r, l>>) # WatchKind(<<r, k>>)
<1> DEFINE D(i) == Depth(WatchKind(<<r, i>>))
<1>1. <<r, 2>> \in Opened => <<r, 1>> \in Opened /\ D(2) < D(1)
  <2>1. 1 + 1 = 2 /\ 1 \in 1..2
    OBVIOUS
  <2>2. <<r, 1 + 1>> \in Opened => <<r, 1>> \in Opened /\ D(1 + 1) < D(1)
    BY <2>1, KindsGoDown
  <2> QED BY <2>1, <2>2
<1>2. <<r, 3>> \in Opened => <<r, 2>> \in Opened /\ D(3) < D(2)
  <2>1. 2 + 1 = 3 /\ 2 \in 1..2
    OBVIOUS
  <2>2. <<r, 2 + 1>> \in Opened => <<r, 2>> \in Opened /\ D(2 + 1) < D(2)
    BY <2>1, KindsGoDown
  <2> QED BY <2>1, <2>2
<1>3. D(1) \in 1..3 /\ D(2) \in 1..3 /\ D(3) \in 1..3
  BY DepthIs
<1> HIDE DEF D
<1>4. (l = 1 /\ k = 2) \/ (l = 2 /\ k = 3) \/ (l = 1 /\ k = 3)
  OBVIOUS
<1>5. D(l) # D(k)
  BY <1>1, <1>2, <1>3, <1>4
<1> QED BY <1>5 DEF D

-----------------------------------------------------------------------------
(* Every step keeps what is known of an object: no update is lost.         *)
LEMMA FreshInit == Init => FreshInv
<1> SUFFICES ASSUME Init PROVE FreshInv
  OBVIOUS
<1>1. Opened = {}
  <2>1. \A r \in Turns : Len(listed[r]) = 0
    BY EmptySeq DEF Init
  <2> QED BY <2>1 DEF Init, Opened, Watches
<1> QED BY <1>1 DEF FreshInv

LEMMA FreshKept ==
  ASSUME NEW w, NEW o, world' = world, stream'[w] = stream[w], channel'[w] = channel[w],
         rows'[w[1]][o] = rows[w[1]][o], at'[o] = at[o]
  PROVE  Fresh(w, o)' <=> Fresh(w, o)
BY DEF Fresh, Deleted

(* The conclusion of FreshInv for one watch and one object.                *)
FreshFor(w, o) ==
  w \in Opened \ closed /\ world[o].kind = WatchKind(w) /\ Matches(w, o) /\ at[o] > 0 =>
    Fresh(w, o)

LEMMA FreshOpen ==
  ASSUME WatchInv, WatchInv', ChainInv, StreamInv, Open,
         NEW w \in Watches, NEW o \in Objects, FreshFor(w, o)
  PROVE  FreshFor(w, o)'
<1>1. /\ UNCHANGED <<world, at, closed, channel, rows>>
      /\ WatchKind(w)' = WatchKind(w) /\ (Matches(w, o)' <=> Matches(w, o))
      /\ Opened' = Opened \cup {Current}
      /\ Current \notin Opened /\ Current \in Watches
  BY OpenFrame DEF Open
<1>2. CASE w # Current
  <2>1. stream'[w] = stream[w]
    BY <1>2, OpenSends
  <2>2. Fresh(w, o)' <=> Fresh(w, o)
    BY <1>1, <2>1, FreshKept
  <2> QED BY <1>1, <1>2, <2>2 DEF FreshFor
<1>3. CASE w = Current
  <2> SUFFICES ASSUME world[o].kind = WatchKind(w), at[o] > 0 PROVE Fresh(w, o)'
    BY <1>1 DEF FreshFor
  <2>1. IF Exists(o) THEN LastIs(stream'[w], o, at[o]) ELSE Lacks(stream'[w], o)
    BY <1>3, OpenSends
  <2>2. channel'[w] = <<>>
    BY <1>1, <1>3 DEF StreamInv, WireInv
  <2>3. DOMAIN <<>> = {}
    OBVIOUS
  <2>4. Lacks(channel'[w], o)
    BY <2>2, <2>3 DEF Lacks
  <2>5. ~Exists(o) => Deleted(o, at[o])
    BY DEF Exists
  <2>6. Deleted(o, at[o]) => Deleted(o, at[o])'
    BY <1>1 DEF Deleted
  <2> QED BY <1>1, <2>1, <2>4, <2>5, <2>6 DEF Fresh
<1> QED BY <1>2, <1>3

LEMMA FreshForward ==
  ASSUME WatchInv, WatchInv', ChainInv, StreamInv, NEW v \in Watches, Forward(v),
         NEW w \in Watches, NEW o \in Objects, FreshFor(w, o)
  PROVE  FreshFor(w, o)'
<1>1. /\ UNCHANGED <<world, at, closed, rows>> /\ Framed /\ Take(v)
  BY ForwardFrame DEF Forward
<1>2. SUFFICES ASSUME w \in Opened \ closed, world[o].kind = WatchKind(w), Matches(w, o),
                      at[o] > 0, Fresh(w, o)
               PROVE  Fresh(w, o)'
  BY <1>1 DEF FreshFor, Framed
<1>3. PICK i \in DOMAIN stream[v] :
        /\ \A j \in 1..(i - 1) : ~Matches(v, stream[v][j][1])
        /\ channel[v] = <<>>
        /\ channel' = [channel EXCEPT ![v] = <<stream[v][i]>>]
        /\ stream' = [stream EXCEPT ![v] = SubSeq(@, i + 1, Len(@))]
  BY <1>1, TakeIs
<1>4. CASE w # v
  <2>1. stream'[w] = stream[w] /\ channel'[w] = channel[w]
    BY <1>3, <1>4 DEF WatchInv, WiresInv
  <2> QED BY <1>1, <1>2, <2>1, FreshKept
<1>5. CASE w = v
  <2>1. PICK s, n : s = stream[v] /\ n = at[o]
    OBVIOUS
  <2>2. s \in Seq(Events) /\ i \in DOMAIN s /\ \A j \in 1..(i - 1) : s[j][1] # o
    BY <1>2, <1>3, <1>5, <2>1 DEF WatchInv, WiresInv
  <2> DEFINE t == SubSeq(s, i + 1, Len(s))
             c == <<s[i]>>
  <2>3. stream'[w] = t /\ channel'[w] = c
    BY <1>3, <1>5, <2>1 DEF WatchInv, WiresInv
  <2>4. /\ LastIs(s, o, n) => LastIs(t, o, n) \/ (Lacks(t, o) /\ s[i] = <<o, n>>)
        /\ Lacks(s, o) => Lacks(t, o) /\ s[i][1] # o
    BY <2>2, SuffixLast
  <2>5. DOMAIN c = {1} /\ c[1] = s[i]
    OBVIOUS
  <2>6. DOMAIN <<>> = {}
    OBVIOUS
  <2>7. LastIs(s, o, n)
        \/ (Lacks(s, o) /\ (rows[w[1]][o] = n \/ Deleted(o, n)))
    BY <1>2, <1>3, <1>5, <2>1, <2>6 DEF Fresh, LastIs
  <2> HIDE DEF t, c
  <2>8. s[i] = <<o, n>> => LastIs(c, o, n)
    BY <2>5 DEF LastIs
  <2>9. s[i][1] # o => Lacks(c, o)
    BY <2>5 DEF Lacks
  <2>10. Deleted(o, n) => Deleted(o, n)'
    BY <1>1 DEF Deleted
  <2> QED BY <1>1, <2>1, <2>3, <2>4, <2>7, <2>8, <2>9, <2>10 DEF Fresh
<1> QED BY <1>4, <1>5

LEMMA FreshReceive ==
  ASSUME WatchInv, WatchInv', ChainInv, StreamInv, NEW r \in Turns, NEW l \in 1..3,
         Receive(r, l), phase' # "panicked",
         NEW w \in Watches, NEW o \in Objects, FreshFor(w, o)
  PROVE  FreshFor(w, o)'
<1>1. PICK v, c, e : v = <<r, l>> /\ c = channel[v] /\ e = c[1]
  OBVIOUS
<1>2. /\ UNCHANGED <<world, at, listed, stream, closed>>
      /\ channel' = [channel EXCEPT ![v] = <<>>]
      /\ v \in Watches /\ c # <<>>
      /\ rows' = [rows EXCEPT ![r] = [rows[r] EXCEPT ![e[1]] = e[2]]]
  BY <1>1 DEF Receive
<1>3. Framed
  BY QuietFrame DEF Receive
<1>4. SUFFICES ASSUME w \in Opened \ closed, world[o].kind = WatchKind(w), Matches(w, o),
                      at[o] > 0, Fresh(w, o)
               PROVE  Fresh(w, o)'
  BY <1>2, <1>3 DEF FreshFor, Framed
<1>5. WireInv(v) /\ c \in Seq(Events) /\ v \in Opened
  BY <1>1, <1>2 DEF StreamInv, WireInv, WatchInv, WiresInv
<1>6. DOMAIN c = {1} /\ e \in Events
  BY <1>1, <1>2, <1>5, ShortSequence DEF WireInv
<1>7. e[1] \in Objects /\ world[e[1]].kind = WatchKind(v)
  BY <1>1, <1>5, <1>6 DEF WireInv, Carries, Events
<1>8. \A q \in Turns : rows'[q][o] = IF q = r /\ o = e[1] THEN e[2] ELSE rows[q][o]
  BY <1>2 DEF WatchInv, WiresInv
<1>9. w[1] \in Turns /\ w[2] \in 1..3 /\ w = <<w[1], w[2]>>
  BY DEF Watches
<1>10. CASE w # v
  <2>1. stream'[w] = stream[w] /\ channel'[w] = channel[w]
    BY <1>2, <1>10 DEF WatchInv, WiresInv
  <2>2. rows'[w[1]][o] = rows[w[1]][o]
    <3>1. CASE w[1] # r
      BY <1>8, <1>9, <3>1
    <3>2. CASE w[1] = r
      <4>1. w = <<r, w[2]>> /\ w[2] # l /\ (w[2] < l \/ l < w[2])
        BY <1>1, <1>9, <1>10, <3>2
      <4>2. WatchKind(w) # WatchKind(v)
        <5>1. CASE w[2] < l
          <6>1. WatchKind(<<r, w[2]>>) # WatchKind(<<r, l>>)
            BY <1>1, <1>5, <1>9, <5>1, KindsDiffer
          <6> QED BY <1>1, <4>1, <6>1
        <5>2. CASE l < w[2]
          <6>1. <<r, w[2]>> \in Opened
            BY <1>4, <4>1
          <6>2. WatchKind(<<r, l>>) # WatchKind(<<r, w[2]>>)
            BY <1>9, <5>2, <6>1, KindsDiffer
          <6> QED BY <1>1, <4>1, <6>2
        <5> QED BY <4>1, <5>1, <5>2
      <4>3. o # e[1]
        BY <1>4, <1>7, <4>2
      <4> QED BY <1>8, <1>9, <4>3
    <3> QED BY <3>1, <3>2
  <2> QED BY <1>2, <1>4, <2>1, <2>2, FreshKept
<1>11. CASE w = v
  <2>1. PICK s, n : s = stream[v] /\ n = at[o]
    OBVIOUS
  <2>2. stream'[w] = s /\ channel'[w] = <<>> /\ w[1] = r
    BY <1>1, <1>2, <1>11, <2>1 DEF WatchInv, WiresInv
  <2>3. DOMAIN <<>> = {}
    OBVIOUS
  <2>4. Lacks(channel'[w], o)
    BY <2>2, <2>3 DEF Lacks
  <2>5. LastIs(c, o, n) => rows'[r][o] = n
    <3>1. ASSUME LastIs(c, o, n) PROVE e = <<o, n>>
      BY <1>1, <1>6, <3>1 DEF LastIs
    <3> QED BY <1>8, <3>1
  <2>6. Lacks(c, o) => rows'[r][o] = rows[r][o]
    <3>1. ASSUME Lacks(c, o) PROVE e[1] # o
      BY <1>1, <1>6, <3>1 DEF Lacks
    <3> QED BY <1>8, <3>1
  <2>7. Deleted(o, n) => Deleted(o, n)'
    BY <1>2 DEF Deleted
  <2>8. \/ LastIs(s, o, n)
        \/ Lacks(s, o) /\ LastIs(c, o, n)
        \/ Lacks(s, o) /\ Lacks(c, o) /\ (rows[r][o] = n \/ Deleted(o, n))
    BY <1>1, <1>4, <1>11, <2>1, <2>2 DEF Fresh
  <2> QED BY <1>2, <2>1, <2>2, <2>4, <2>5, <2>6, <2>7, <2>8 DEF Fresh
<1> QED BY <1>10, <1>11

LEMMA FreshLive ==
  ASSUME WatchInv, WatchInv', ChainInv, StreamInv, NEW x \in Objects, Live(x),
         NEW w \in Watches, NEW o \in Objects, FreshFor(w, o)
  PROVE  FreshFor(w, o)'
<1>1. /\ UNCHANGED <<world, main, channel, rows, closed>>
      /\ at' = [at EXCEPT ![x] = @ + 1]
      /\ stream' = [v \in Watches |->
           IF v \in Opened \ closed /\ WatchKind(v) = world[x].kind
           THEN Append(stream[v], <<x, at[x] + 1>>) ELSE stream[v]]
  BY DEF Live
<1>2. Framed
  BY <1>1, QuietFrame DEF main
<1>3. SUFFICES ASSUME w \in Opened \ closed, world[o].kind = WatchKind(w), Matches(w, o),
                      at'[o] > 0
               PROVE  Fresh(w, o)'
  BY <1>1, <1>2 DEF FreshFor, Framed
<1>4. PICK s, n, m : s = stream[w] /\ n = at[o] /\ m = at[x] + 1
  OBVIOUS
<1>5. s \in Seq(Events) /\ <<x, m>> \in Events /\ at \in [Objects -> Nat]
  BY <1>4 DEF WatchInv, WiresInv, Events
<1>6. stream'[w] = IF WatchKind(w) = world[x].kind THEN Append(s, <<x, m>>) ELSE s
  BY <1>1, <1>3, <1>4
<1>7. CASE o = x
  <2>1. at'[o] = m /\ stream'[w] = Append(s, <<o, m>>)
    BY <1>1, <1>3, <1>4, <1>5, <1>6, <1>7
  <2>2. LastIs(Append(s, <<o, m>>), o, m)
    BY <1>5, <1>7, AppendLast
  <2> QED BY <2>1, <2>2 DEF Fresh
<1>8. CASE o # x
  <2>1. at'[o] = n /\ Fresh(w, o)
    BY <1>1, <1>3, <1>4, <1>5, <1>8 DEF FreshFor
  <2>2. /\ LastIs(s, o, n) => LastIs(Append(s, <<x, m>>), o, n)
        /\ Lacks(s, o) => Lacks(Append(s, <<x, m>>), o)
    <3>1. <<x, m>>[1] # o
      BY <1>8
    <3> QED BY <1>5, <3>1, AppendOther
  <2>3. PICK t : t = stream'[w]
    OBVIOUS
  <2>4. (LastIs(s, o, n) => LastIs(t, o, n)) /\ (Lacks(s, o) => Lacks(t, o))
    BY <1>6, <2>2, <2>3
  <2>5. Deleted(o, n) => Deleted(o, n)'
    BY <1>1 DEF Deleted
  <2> QED BY <1>1, <1>4, <2>1, <2>3, <2>4, <2>5 DEF Fresh
<1> QED BY <1>7, <1>8

LEMMA PanicsForGood == [Next]_vars /\ phase = "panicked" => phase' = "panicked"
BY DEF Next, Rest, Filter, Open, OpenFails, Start, Check, Tick, Close, Forward, Receive, Live,
   vars, main, Over

LEMMA FreshStep ==
  ASSUME WatchInv, WatchInv', ChainInv, StreamInv, FreshInv, [Next]_vars PROVE FreshInv'
<1>1. world' = world /\ Objects' = Objects
  BY NextIs, IdleFrame, OpenFrame, ForwardFrame DEF Framed, Objects, Receive, Live
<1>2. Opened \subseteq Watches /\ Opened' \subseteq Watches
  BY DEF Opened
<1> SUFFICES ASSUME phase' # "panicked", NEW w \in Watches, NEW o \in Objects
             PROVE  FreshFor(w, o)'
  BY <1>1, <1>2 DEF FreshInv, FreshFor
<1>3. FreshFor(w, o)
  BY PanicsForGood DEF FreshInv, FreshFor
<1>4. CASE Idle
  <2>1. /\ UNCHANGED <<world, at, stream, channel, rows>> /\ Framed
        /\ closed \subseteq closed'
    BY <1>4, IdleFrame
  <2>2. Fresh(w, o)' <=> Fresh(w, o)
    BY <2>1, FreshKept
  <2> QED BY <1>3, <2>1, <2>2 DEF FreshFor, Framed
<1> QED BY <1>3, <1>4, NextIs, FreshOpen, FreshForward, FreshReceive, FreshLive

-----------------------------------------------------------------------------
(* Every step keeps the place of the main goroutine.                       *)
LEMMA MainInit == Init => MainInv
<1>1. 1 \in Turns
  BY ResourcesAssumption DEF Turns
<1> QED BY <1>1 DEF Init, MainInv

LEMMA AdvanceMain ==
  ASSUME MainInv, NEW S \in SUBSET Watched, Advance(S) PROVE MainInv'
<1>1. S # {} => Least(S) \in Turns
  <2>1. S \subseteq Nat /\ S \subseteq Turns
    BY TurnsAreNat DEF Watched
  <2> QED BY <2>1, LeastIsLeast
<1> QED BY <1>1 DEF Advance, MainInv, Turns

LEMMA MainStep == MainInv /\ [Next]_vars => MainInv'
<1> SUFFICES ASSUME MainInv, [Next]_vars PROVE MainInv'
  OBVIOUS
<1>1. CASE Filter
  BY <1>1, AdvanceMain DEF Filter, MainInv
<1>2. ASSUME NEW w \in Watches, Forward(w) PROVE MainInv'
  <2>1. UNCHANGED main \/ Advance(After(turn)) \/ (phase' = "open" /\ turn' = turn)
    BY <1>2 DEF Forward
  <2>2. After(turn) \in SUBSET Watched
    BY DEF After
  <2> QED BY <2>1, <2>2, AdvanceMain DEF MainInv, main
<1>3. CASE Open \/ OpenFails \/ Start \/ Check \/ Tick
  BY <1>3 DEF Open, OpenFails, Start, Check, Tick, MainInv
<1>4. ASSUME NEW w \in Watches, Close(w) PROVE MainInv'
  BY <1>4 DEF Close, main, MainInv
<1>5. ASSUME NEW r \in Turns, NEW l \in 1..3, Receive(r, l) PROVE MainInv'
  BY <1>5 DEF Receive, MainInv
<1>6. ASSUME NEW o \in Objects, Live(o) PROVE MainInv'
  BY <1>6 DEF Live, main, MainInv
<1>7. CASE UNCHANGED vars
  BY <1>7 DEF vars, main, MainInv
<1> QED BY <1>1, <1>2, <1>3, <1>4, <1>5, <1>6, <1>7 DEF Next, Rest

-----------------------------------------------------------------------------
(* Every step keeps the rows that are there, and those to come.            *)
LEMMA ListedInit == Init => ListedInv
<1>1. DOMAIN <<>> = {}
  OBVIOUS
<1> QED BY <1>1 DEF Init, ListedInv, Printing

LEMMA RowsStay ==
  ASSUME WatchInv, [Next]_vars, NEW q \in Turns, NEW o \in Objects, rows[q][o] # 0
  PROVE  rows'[q][o] # 0
<1>1. ASSUME NEW r \in Turns, NEW l \in 1..3, Receive(r, l) PROVE rows'[q][o] # 0
  <2>1. PICK w, e : w = <<r, l>> /\ e = channel[w][1]
    OBVIOUS
  <2>2. /\ w \in Watches /\ channel[w] # <<>>
        /\ rows' = rows \/ rows' = [rows EXCEPT ![r] = [rows[r] EXCEPT ![e[1]] = e[2]]]
    BY <1>1, <2>1 DEF Receive
  <2>3. e \in Events
    BY <2>1, <2>2 DEF WatchInv, WiresInv
  <2>4. rows \in [Turns -> [Objects -> Nat]] /\ e[2] # 0
    BY <2>3 DEF WatchInv, WiresInv, Events
  <2> DEFINE t == [rows[r] EXCEPT ![e[1]] = e[2]]
  <2>5. rows[r][o] # 0 => t[o] # 0
    BY <2>4
  <2>6. rows' = rows \/ rows' = [rows EXCEPT ![r] = t]
    BY <2>2
  <2> HIDE DEF t
  <2> QED BY <2>4, <2>5, <2>6
<1>2. CASE \A r \in Turns, l \in 1..3 : ~Receive(r, l)
  <2>1. rows' = rows
    BY <1>2 DEF Next, Rest, Filter, Open, OpenFails, Start, Check, Tick, Close, Forward, Live,
       vars
  <2> QED BY <2>1
<1> QED BY <1>1, <1>2

LEMMA ComesForward ==
  ASSUME WatchInv, ChainInv, StreamInv, NEW v \in Watches, Forward(v),
         NEW w \in Watches, NEW o \in Objects, Matches(w, o), Comes(w, o)
  PROVE  Comes(w, o)'
<1>1. rows' = rows /\ Take(v)
  BY DEF Forward
<1>2. PICK i \in DOMAIN stream[v] :
        /\ \A j \in 1..(i - 1) : ~Matches(v, stream[v][j][1])
        /\ channel[v] = <<>>
        /\ channel' = [channel EXCEPT ![v] = <<stream[v][i]>>]
        /\ stream' = [stream EXCEPT ![v] = SubSeq(@, i + 1, Len(@))]
  BY <1>1, TakeIs
<1>3. CASE w # v
  <2>1. stream'[w] = stream[w] /\ channel'[w] = channel[w]
    BY <1>2, <1>3 DEF WatchInv, WiresInv
  <2> QED BY <1>1, <2>1 DEF Comes
<1>4. CASE w = v
  <2>1. PICK s : s = stream[v]
    OBVIOUS
  <2>2. s \in Seq(Events) /\ i \in DOMAIN s /\ \A j \in 1..(i - 1) : s[j][1] # o
    BY <1>2, <1>4, <2>1 DEF WatchInv, WiresInv
  <2> DEFINE t == SubSeq(s, i + 1, Len(s))
             c == <<s[i]>>
  <2>3. stream'[w] = t /\ channel'[w] = c
    BY <1>2, <1>4, <2>1 DEF WatchInv, WiresInv
  <2>4. ~Lacks(s, o) => ~Lacks(t, o) \/ s[i][1] = o
    BY <2>2, SuffixLast
  <2>5. DOMAIN c = {1} /\ c[1] = s[i] /\ DOMAIN <<>> = {}
    OBVIOUS
  <2> HIDE DEF t, c
  <2>6. s[i][1] = o => ~Lacks(c, o)
    BY <2>5 DEF Lacks
  <2>7. rows[w[1]][o] # 0 \/ ~Lacks(s, o)
    BY <1>2, <1>4, <2>1, <2>5 DEF Comes, Lacks
  <2> QED BY <1>1, <2>3, <2>4, <2>6, <2>7 DEF Comes
<1> QED BY <1>3, <1>4

LEMMA ComesReceive ==
  ASSUME WatchInv, [Next]_vars, ChainInv, StreamInv, NEW r \in Turns, NEW l \in 1..3,
         Receive(r, l), phase' # "panicked",
         NEW w \in Watches, NEW o \in Objects, Comes(w, o)
  PROVE  Comes(w, o)'
<1>1. PICK v, c, e : v = <<r, l>> /\ c = channel[v] /\ e = c[1]
  OBVIOUS
<1>2. /\ stream' = stream
      /\ channel' = [channel EXCEPT ![v] = <<>>]
      /\ v \in Watches /\ c # <<>>
      /\ rows' = [rows EXCEPT ![r] = [rows[r] EXCEPT ![e[1]] = e[2]]]
  BY <1>1 DEF Receive
<1>3. w[1] \in Turns
  BY DEF Watches
<1>4. rows[w[1]][o] # 0 => rows'[w[1]][o] # 0
  BY <1>3, RowsStay
<1>5. CASE w # v
  <2>1. channel'[w] = channel[w]
    BY <1>2, <1>5 DEF WatchInv, WiresInv
  <2> QED BY <1>2, <1>4, <2>1 DEF Comes
<1>6. CASE w = v
  <2>1. c \in Seq(Events) /\ WireInv(v)
    BY <1>1, <1>2 DEF WatchInv, WiresInv, StreamInv
  <2>2. DOMAIN c = {1} /\ e \in Events
    BY <1>1, <1>2, <2>1, ShortSequence DEF WireInv
  <2>3. ~Lacks(c, o) => rows'[r][o] # 0
    <3>1. ASSUME ~Lacks(c, o) PROVE e[1] = o
      BY <1>1, <2>2, <3>1 DEF Lacks
    <3>2. rows \in [Turns -> [Objects -> Nat]] /\ e[2] # 0
      BY <2>2 DEF WatchInv, WiresInv, Events
    <3> QED BY <1>2, <3>1, <3>2
  <2>4. w[1] = r
    BY <1>1, <1>6
  <2> QED BY <1>1, <1>2, <1>4, <1>6, <2>3, <2>4 DEF Comes
<1> QED BY <1>5, <1>6

LEMMA ComesLive ==
  ASSUME WatchInv, NEW x \in Objects, Live(x), NEW w \in Watches, NEW o \in Objects, Comes(w, o)
  PROVE  Comes(w, o)'
<1>1. rows' = rows /\ channel' = channel
  BY DEF Live
<1>2. stream'[w] = stream[w] \/ stream'[w] = Append(stream[w], <<x, at[x] + 1>>)
  BY DEF Live
<1>3. stream[w] \in Seq(Events) /\ <<x, at[x] + 1>> \in Events
  BY DEF WatchInv, WiresInv, Events
<1>4. ~Lacks(stream[w], o) => ~Lacks(stream'[w], o)
  BY <1>2, <1>3, AppendKeeps
<1> QED BY <1>1, <1>4 DEF Comes

(* What is listed after a step has its watch too.                          *)
LEMMA LevelsLater ==
  ASSUME WatchInv, ChainInv, StreamInv, [Next]_vars,
         NEW r \in Turns, NEW l \in DOMAIN listed'[r]
  PROVE  l \in 1..3
<1>1. CASE listed' = listed
  BY <1>1, LevelsAre
<1>2. ASSUME NEW w \in Watches, Forward(w), ~UNCHANGED main PROVE l \in 1..3
  <2>1. phase = "await" /\ w = Current /\ world' = world
    BY <1>2, ForwardAwaits DEF Forward
  <2>2. turn \in Turns /\ Level \in 1..3
    BY <2>1, LevelsAre
  <2>3. DOMAIN listed'[turn] = 1..Level /\ \A q \in Turns : q # turn => listed'[q] = listed[q]
    BY <1>2, <2>1, <2>2, ForwardAwaits, ListedExtends
  <2>4. CASE r = turn
    BY <2>2, <2>3, <2>4
  <2>5. CASE r # turn
    BY <2>3, <2>5, LevelsAre
  <2> QED BY <2>4, <2>5
<1>3. \/ listed' = listed
      \/ \E w \in Watches : Forward(w) /\ ~UNCHANGED main
  BY NextIs, IdleFrame DEF Open, Forward, Receive, Live, main
<1> QED BY <1>1, <1>2, <1>3

LEMMA ComesStep ==
  ASSUME WatchInv, WatchInv', ChainInv, ChainInv', StreamInv, ListedInv, [Next]_vars,
         phase' # "panicked", NEW r \in Turns, NEW l \in DOMAIN listed'[r]
  PROVE  Comes(<<r, l>>, listed[r][l])'
<1>1. phase # "panicked"
  BY PanicsForGood
<1>2. PICK w, o : w = <<r, l>> /\ o = listed'[r][l]
  OBVIOUS
<1>3. w \in Watches /\ o \in Objects'
  <2>1. listed'[r] \in Seq(Objects')
    BY DEF WatchInv, CollectInv
  <2>2. l \in 1..3
    BY LevelsLater
  <2> QED BY <1>2, <2>1, <2>2 DEF Watches
<1>4. SUFFICES Comes(w, o)'
  BY <1>2
<1>5. Objects' = Objects
  BY NextIs, IdleFrame, OpenFrame, ForwardFrame DEF Framed, Objects, Receive, Live
<1>6. ASSUME l \in DOMAIN listed[r], o = listed[r][l] PROVE Matches(w, o) /\ Comes(w, o)
  BY <1>1, <1>2, <1>6 DEF ChainInv, ListedInv
<1>7. CASE Idle
  <2>1. UNCHANGED <<stream, channel, rows, listed>>
    BY <1>7, IdleFrame
  <2> QED BY <1>2, <1>6, <2>1 DEF Comes
<1>8. CASE Open
  <2>1. UNCHANGED <<channel, rows, listed>>
    BY <1>8 DEF Open
  <2>2. w # Current
    <3>1. w \in Opened /\ Current \notin Opened
      BY <1>2, <1>3, <1>8, <2>1, LevelsAre, OpenFrame DEF Opened
    <3> QED BY <3>1
  <2>3. stream'[w] = stream[w]
    BY <1>3, <1>8, <2>2, OpenSends
  <2> QED BY <1>2, <1>6, <2>1, <2>3 DEF Comes
<1>9. ASSUME NEW v \in Watches, Forward(v) PROVE Comes(w, o)'
  <2>1. CASE UNCHANGED main
    <3>1. listed' = listed
      BY <2>1 DEF main
    <3> QED BY <1>2, <1>3, <1>5, <1>6, <1>9, <3>1, ComesForward
  <2>2. CASE ~UNCHANGED main
    <3>1. phase = "await" /\ v = Current /\ world' = world
      BY <1>9, <2>2, ForwardAwaits DEF Forward
    <3>2. PICK x \in Objects :
            /\ ~Lacks(channel'[v], x) \/ ~Lacks(stream'[v], x)
            /\ listed' = [listed EXCEPT ![turn] = Append(@, x)]
      BY <1>9, <2>2, ForwardAwaits
    <3>3. turn \in Turns /\ Level \in 1..3 /\ v = <<turn, Level>>
      BY <3>1, LevelsAre DEF Current
    <3>4. /\ DOMAIN listed'[turn] = 1..Level
          /\ \A i \in 1..(Level - 1) : listed'[turn][i] = listed[turn][i]
          /\ listed'[turn][Level] = x
          /\ \A q \in Turns : q # turn => listed'[q] = listed[q]
      BY <3>1, <3>2, <3>3, ListedExtends
    <3>5. CASE r = turn /\ l = Level
      BY <1>2, <3>2, <3>3, <3>4, <3>5 DEF Comes
    <3>6. CASE ~(r = turn /\ l = Level)
      <4>1. l \in DOMAIN listed[r] /\ o = listed[r][l]
        <5>1. CASE r # turn
          BY <1>2, <3>4, <5>1
        <5>2. CASE r = turn
          <6>1. DOMAIN listed[turn] = 1..(Level - 1)
            BY <3>3, LevelsAre DEF Level
          <6>2. l \in 1..(Level - 1)
            BY <3>3, <3>4, <3>6, <5>2
          <6> QED BY <1>2, <3>4, <5>2, <6>1, <6>2
        <5> QED BY <5>1, <5>2
      <4> QED BY <1>3, <1>5, <1>6, <1>9, <4>1, ComesForward
    <3> QED BY <3>5, <3>6
  <2> QED BY <2>1, <2>2
<1>10. ASSUME NEW q \in Turns, NEW k \in 1..3, Receive(q, k) PROVE Comes(w, o)'
  <2>1. listed' = listed
    BY <1>10 DEF Receive
  <2> QED BY <1>2, <1>3, <1>5, <1>6, <1>10, <2>1, ComesReceive
<1>11. ASSUME NEW x \in Objects, Live(x) PROVE Comes(w, o)'
  <2>1. listed' = listed
    BY <1>11 DEF Live, main
  <2> QED BY <1>2, <1>3, <1>5, <1>6, <1>11, <2>1, ComesLive
<1> QED BY <1>7, <1>8, <1>9, <1>10, <1>11, NextIs

LEMMA ListedStep ==
  ASSUME WatchInv, WatchInv', ChainInv, ChainInv', StreamInv, ListedInv, [Next]_vars
  PROVE  ListedInv'
<1>1. ASSUME phase' # "panicked", NEW r \in Turns, NEW l \in DOMAIN listed'[r]
      PROVE  Comes(<<r, l>>, listed[r][l])'
  BY <1>1, ComesStep
<1>2. phase' \in Collecting => ~printed'
  <2>1. phase' \in Collecting => phase \in Collecting /\ printed' = printed
    BY DEF Next, Rest, Filter, Open, OpenFails, Start, Check, Tick, Close, Forward, Receive, Live,
       vars, main, Over, Collecting
  <2> QED BY <2>1 DEF ListedInv
<1>3. ASSUME phase' \in Printing, printed', NEW r \in Watched', NEW o \in Ids(r)'
      PROVE  rows'[r][o] # 0
  <2>1. world' = world /\ steps' = steps
    BY DEF Next, Rest, Filter, Open, OpenFails, Start, Check, Tick, Close, Forward, Receive, Live,
       vars
  <2>2. Watched' = Watched /\ Watched \subseteq Turns
    BY <2>1 DEF Watched, Terraform, Objects
  <2>3. CASE Tick
    <3>1. listed' = listed /\ rows' = rows /\ phase' = "watch"
      BY <1>3, <2>3 DEF Tick, Printing
    <3>2. ~\E q \in Watched : \E x \in Ids(q) : rows[q][x] = 0
      BY <2>3, <3>1 DEF Tick
    <3>3. Ids(r)' = Ids(r)
      BY <3>1 DEF Ids
    <3> QED BY <1>3, <2>2, <3>1, <3>2, <3>3
  <2>4. CASE ~Tick
    <3>1. /\ printed' = printed
          /\ phase \in Printing \/ phase = "start"
          /\ phase \in Printing => listed' = listed
      BY <1>3, <2>4 DEF Next, Rest, Filter, Open, OpenFails, Start, Check, Close, Forward,
         Receive, Live, Advance, vars, main, Over, Printing
    <3>2. phase \in Printing /\ printed
      BY <1>3, <3>1 DEF ListedInv, Collecting
    <3>3. Ids(r)' = Ids(r)
      BY <3>1, <3>2 DEF Ids
    <3>4. o \in Objects /\ rows[r][o] # 0
      BY <1>3, <2>2, <3>2, <3>3, IdsAreObjects DEF ListedInv, WatchInv
    <3> QED BY <2>2, <3>4, RowsStay
  <2> QED BY <2>3, <2>4
<1> QED BY <1>1, <1>2, <1>3 DEF ListedInv

-----------------------------------------------------------------------------
(* A table that is complete, and has rows of listed objects only, has one  *)
(* of each.                                                                *)
LEMMA IdsCount ==
  ASSUME WatchInv, NEW r \in Turns
  PROVE  IsFiniteSet(Ids(r)) /\ Cardinality(Ids(r)) <= Len(listed[r])
<1>1. listed[r] \in Seq(Objects) /\ Len(listed[r]) \in Nat
      /\ DOMAIN listed[r] = 1..Len(listed[r])
  BY DEF WatchInv, CollectInv
<1> DEFINE f == [l \in 1..Len(listed[r]) |-> listed[r][l]]
<1>2. f \in Surjection(1..Len(listed[r]), Ids(r))
  BY <1>1 DEF Surjection, Ids
<1>3. /\ IsFiniteSet(1..Len(listed[r]))
      /\ Cardinality(1..Len(listed[r])) = Len(listed[r])
  BY <1>1, FS_Interval
<1> HIDE DEF f
<1> QED BY <1>2, <1>3, FS_Surjection

LEMMA CompleteHasAll ==
  ASSUME WatchInv, NEW r \in Turns, AllCompleted(r, rows[r]), Rows(rows[r]) \subseteq Ids(r)
  PROVE  \A o \in Ids(r) : rows[r][o] # 0
<1>1. IsFiniteSet(Ids(r)) /\ Cardinality(Ids(r)) <= Len(listed[r])
  BY IdsCount
<1>2. IsFiniteSet(Rows(rows[r])) /\ Cardinality(Rows(rows[r])) <= Cardinality(Ids(r))
  BY <1>1, FS_Subset
<1>3. Cardinality(Rows(rows[r])) >= Len(listed[r])
  BY DEF AllCompleted
<1>4. Len(listed[r]) \in Nat
  BY DEF WatchInv, CollectInv
<1>5. Cardinality(Rows(rows[r])) \in Nat /\ Cardinality(Ids(r)) \in Nat
  BY <1>1, <1>2, FS_CardinalityType
<1>6. Cardinality(Ids(r)) = Cardinality(Rows(rows[r]))
  BY <1>1, <1>2, <1>3, <1>4, <1>5
<1>7. Ids(r) = Rows(rows[r])
  BY <1>1, <1>6, FS_Subset
<1> QED BY <1>7 DEF Rows

(* A second after the start the goroutine of a table has nothing left to   *)
(* take: what is missing then will not come.                               *)
LEMMA SettledTable ==
  ASSUME WatchInv, ChainInv, ListedInv, phase = "tick", Settled,
         NEW r \in Watched, NEW o \in Ids(r), rows[r][o] = 0
  PROVE  ~(Rows(rows[r]) \subseteq Ids(r))
<1>1. r \in Turns
  BY DEF Watched
<1>2. CASE r \in running
  <2>1. PICK l \in DOMAIN listed[r] : o = listed[r][l]
    BY DEF Ids
  <2>2. PICK w : w = <<r, l>>
    OBVIOUS
  <2>3. l \in 1..3 /\ l <= Len(listed[r])
    BY <1>1, LevelsAre
  <2>4. w \in Opened /\ w[1] = r
    BY <1>1, <2>2, <2>3 DEF Opened, Watches
  <2>5. channel[w] = <<>> /\ Relevant(w) = {}
    BY <1>2, <2>4 DEF Settled
  <2>6. Matches(w, o) /\ Comes(w, o)
    BY <1>1, <2>1, <2>2 DEF ChainInv, ListedInv
  <2>7. DOMAIN <<>> = {}
    OBVIOUS
  <2>8. Lacks(channel[w], o)
    BY <2>5, <2>7 DEF Lacks
  <2>9. PICK i \in DOMAIN stream[w] : stream[w][i][1] = o
    BY <2>4, <2>6, <2>8 DEF Comes, Lacks
  <2>10. i \in Relevant(w)
    BY <2>6, <2>9 DEF Relevant
  <2> QED BY <2>5, <2>10
<1>3. CASE r \notin running
  <2>1. AllCompleted(r, rows[r])
    BY <1>3 DEF WatchInv, TablesInv, Printing
  <2> QED BY <1>1, <2>1, CompleteHasAll
<1> QED BY <1>2, <1>3

LEMMA PanicReceive ==
  ASSUME WatchInv, StreamInv, NEW r \in Turns, NEW l \in 1..3, Receive(r, l),
         phase' = "panicked"
  PROVE  PanicsExplained'
<1>1. PICK v, c, e : v = <<r, l>> /\ c = channel[v] /\ e = c[1]
  OBVIOUS
<1>2. /\ UNCHANGED <<world, at>>
      /\ v \in Watches /\ c # <<>>
      /\ Crashes(e[1], e[2])
  BY <1>1 DEF Receive
<1>3. c \in Seq(Events) /\ Len(c) <= 1 /\ Carries(c, v)
  BY <1>1, <1>2 DEF WatchInv, WiresInv, StreamInv, WireInv
<1>4. 1 \in DOMAIN c /\ e \in Events
  BY <1>1, <1>2, <1>3, ShortSequence
<1>5. e[2] <= at[e[1]]
  BY <1>1, <1>3, <1>4 DEF Carries
<1>6. e[1] \in Objects /\ e[2] \in 1..at[e[1]]
  BY <1>4, <1>5 DEF Events, WatchInv, WiresInv
<1>7. Crashes(e[1], e[2])' /\ Objects' = Objects
  BY <1>2 DEF Crashes, Status, Deleted, Objects
<1> QED BY <1>2, <1>6, <1>7 DEF PanicsExplained

LEMMA PanicStep ==
  ASSUME WatchInv, ChainInv, StreamInv, ListedInv, PanicsExplained, [Next]_vars
  PROVE  PanicsExplained'
<1> SUFFICES ASSUME phase' = "panicked" PROVE PanicsExplained'
  BY DEF PanicsExplained
<1>1. CASE Filter
  <2>1. steps' = steps /\ \E r \in Turns : steps[r] = Missing
    BY <1>1 DEF Filter, Advance
  <2> QED BY <2>1 DEF PanicsExplained
<1>2. CASE Tick
  <2>0. PICK r \in Watched : \E o \in Ids(r) : rows[r][o] = 0
    BY <1>2 DEF Tick
  <2>1. PICK o \in Ids(r) : rows[r][o] = 0
    BY <2>0
  <2>2. ~printed /\ Settled /\ phase = "tick"
    BY <1>2, <2>1 DEF Tick, ListedInv, Printing
  <2>3. ~(Rows(rows[r]) \subseteq Ids(r))
    BY <2>1, <2>2, SettledTable
  <2>4. UNCHANGED <<world, steps, listed, rows>>
    BY <1>2 DEF Tick
  <2>5. Rows(rows[r])' = Rows(rows[r]) /\ Ids(r)' = Ids(r) /\ r \in Watched'
    BY <2>4 DEF Rows, Ids, Watched, Terraform, Objects
  <2> QED BY <2>3, <2>5 DEF PanicsExplained
<1>3. CASE phase = "panicked"
  <2>1. UNCHANGED vars
    BY <1>3 DEF Next, Rest, Filter, Open, OpenFails, Start, Check, Tick, Close, Forward, Receive,
       Live, Over
  <2> QED BY <2>1 DEF vars, main, PanicsExplained, Objects, Crashes, Status, Deleted, Watched,
             Terraform, Rows, Ids
<1>4. ASSUME NEW r \in Turns, NEW l \in 1..3, Receive(r, l) PROVE PanicsExplained'
  BY <1>4, PanicReceive
<1>5. CASE Open \/ OpenFails \/ Start \/ Check
  BY <1>5 DEF Open, OpenFails, Start, Check
<1>6. ASSUME phase # "panicked",
             \/ \E w \in Watches : Forward(w) \/ Close(w)
             \/ \E o \in Objects : Live(o)
             \/ Rest
             \/ UNCHANGED vars
      PROVE  FALSE
  BY <1>6 DEF Forward, Close, Live, Rest, Advance, main, vars
<1> QED BY <1>1, <1>2, <1>3, <1>4, <1>5, <1>6 DEF Next

-----------------------------------------------------------------------------
(* The wires and the tables, whatever the resources and the clusters.      *)
THEOREM RouteInvariant == Spec => []RouteInv
<1>1. Init => RouteInv
  BY InitInv, MainInit, ChainInit, StreamInit, FreshInit, ListedInit
  DEF RouteInv, Init, PanicsExplained
<1>2. RouteInv /\ [Next]_vars => RouteInv'
  <2> SUFFICES ASSUME RouteInv, [Next]_vars PROVE RouteInv'
    OBVIOUS
  <2>1. WatchInv'
    BY NextInv DEF RouteInv
  <2>2. ChainInv'
    BY ChainStep DEF RouteInv
  <2>3. StreamInv' /\ FreshInv'
    BY <2>1, StreamStep, FreshStep DEF RouteInv
  <2>4. ListedInv'
    BY <2>1, <2>2, ListedStep DEF RouteInv
  <2>5. MainInv' /\ PanicsExplained'
    BY MainStep, PanicStep DEF RouteInv
  <2> QED BY <2>1, <2>2, <2>3, <2>4, <2>5 DEF RouteInv
<1> QED BY <1>1, <1>2, PTL DEF Spec

LEMMA JoinedLast ==
  ASSUME NEW S, NEW c \in Seq(S), NEW s \in Seq(S), NEW o, NEW n
  PROVE  /\ LastIs(s, o, n) \/ (Lacks(s, o) /\ LastIs(c, o, n)) => LastIs(c \o s, o, n)
         /\ Lacks(s, o) /\ Lacks(c, o) => Lacks(c \o s, o)
<1> DEFINE t == c \o s
<1>1. /\ Len(c) \in Nat /\ Len(s) \in Nat
      /\ DOMAIN c = 1..Len(c) /\ DOMAIN s = 1..Len(s)
      /\ DOMAIN t = 1..(Len(c) + Len(s))
      /\ \A i \in 1..Len(c) : t[i] = c[i]
      /\ \A i \in 1..Len(s) : t[Len(c) + i] = s[i]
  BY ConcatProperties
<1> HIDE DEF t
<1>2. \A j \in DOMAIN t : j \in 1..Len(c) \/ j - Len(c) \in 1..Len(s)
  BY <1>1
<1>3. \A j \in DOMAIN t : j \in 1..Len(c) \/ t[j] = s[j - Len(c)]
  <2> SUFFICES ASSUME NEW j \in DOMAIN t, j \notin 1..Len(c) PROVE t[j] = s[j - Len(c)]
    OBVIOUS
  <2>1. j - Len(c) \in 1..Len(s) /\ Len(c) + (j - Len(c)) = j
    BY <1>1, <1>2
  <2> QED BY <1>1, <2>1
<1>4. ASSUME LastIs(s, o, n) PROVE LastIs(t, o, n)
  <2>1. PICK i \in DOMAIN s : s[i] = <<o, n>> /\ \A j \in DOMAIN s : j > i => s[j][1] # o
    BY <1>4 DEF LastIs
  <2>2. Len(c) + i \in DOMAIN t /\ t[Len(c) + i] = <<o, n>>
    BY <1>1, <2>1
  <2>3. ASSUME NEW j \in DOMAIN t, j > Len(c) + i PROVE t[j][1] # o
    <3>1. j \notin 1..Len(c) /\ j - Len(c) \in 1..Len(s) /\ j - Len(c) > i
      BY <1>1, <1>2, <2>1, <2>3
    <3> QED BY <1>1, <1>3, <2>1, <3>1
  <2> QED BY <2>2, <2>3 DEF LastIs
<1>5. ASSUME Lacks(s, o), LastIs(c, o, n) PROVE LastIs(t, o, n)
  <2>1. PICK i \in DOMAIN c : c[i] = <<o, n>> /\ \A j \in DOMAIN c : j > i => c[j][1] # o
    BY <1>5 DEF LastIs
  <2>2. i \in DOMAIN t /\ t[i] = <<o, n>>
    BY <1>1, <2>1
  <2>3. \A j \in DOMAIN t : j > i => t[j][1] # o
    BY <1>1, <1>2, <1>3, <1>5, <2>1 DEF Lacks
  <2> QED BY <2>2, <2>3 DEF LastIs
<1>6. Lacks(s, o) /\ Lacks(c, o) => Lacks(t, o)
  BY <1>1, <1>2, <1>3 DEF Lacks
<1> QED BY <1>4, <1>5, <1>6 DEF t

LEMMA RouteHolds == RouteInv => WiresHold
<1> SUFFICES ASSUME RouteInv PROVE WiresHold
  OBVIOUS
<1>1. TypeOK
  <2>1. \A o \in Objects : at[o] \in 0..Len(world[o].life)
    <3>1. \A o \in Objects : Len(world[o].life) \in Nat /\ at[o] \in Nat
      BY WorldsAssumption DEF RouteInv, WatchInv, WiresInv, Objects
    <3> QED BY <3>1 DEF RouteInv, StreamInv
  <2>2. ASSUME NEW r \in Turns
        PROVE  /\ Len(listed[r]) <= 3
               /\ \A l \in DOMAIN listed[r] : Matches(<<r, l>>, listed[r][l])
               /\ \A o \in Objects : rows[r][o] \in 0..at[o]
    <3>1. WatchInv /\ ChainInv
      BY DEF RouteInv
    <3>2. Len(listed[r]) \in 0..3
      BY <3>1, LevelsAre
    <3>3. \A o \in Objects : rows[r][o] \in Nat /\ at[o] \in Nat /\ rows[r][o] <= at[o]
      BY DEF RouteInv, WatchInv, WiresInv, StreamInv
    <3>4. \A l \in DOMAIN listed[r] : Matches(<<r, l>>, listed[r][l])
      BY <3>1 DEF ChainInv
    <3>5. \A o \in Objects : rows[r][o] \in 0..at[o]
      BY <3>3
    <3>6. Len(listed[r]) <= 3
      <4>1. \A n \in 0..3 : n <= 3
        OBVIOUS
      <4> QED BY <3>2, <4>1, Zenon
    <3> QED BY <3>4, <3>5, <3>6
  <2>3. \A w \in Watches : Len(channel[w]) <= 1
    BY DEF RouteInv, StreamInv, WireInv
  <2> QED BY <2>1, <2>2, <2>3 DEF TypeOK, RouteInv, MainInv, StreamInv
<1>2. NoUpdateLost
  <2> SUFFICES ASSUME NEW w \in Opened \ closed, NEW o \in Objects, phase # "panicked",
                      world[o].kind = WatchKind(w), Matches(w, o), at[o] > 0
               PROVE  LET coming == channel[w] \o stream[w]
                          of == {i \in DOMAIN coming : coming[i][1] = o}
                      IN  IF of = {} THEN rows[w[1]][o] = at[o] \/ Deleted(o, at[o])
                          ELSE \A i \in of : (\A j \in of : j <= i) => coming[i][2] = at[o]
    BY DEF NoUpdateLost
  <2> DEFINE coming == channel[w] \o stream[w]
             of == {i \in DOMAIN coming : coming[i][1] = o}
  <2>1. Fresh(w, o)
    BY DEF RouteInv, FreshInv
  <2>2. channel[w] \in Seq(Events) /\ stream[w] \in Seq(Events)
    BY DEF RouteInv, WatchInv, WiresInv, Opened
  <2>3. \/ LastIs(coming, o, at[o])
        \/ Lacks(coming, o) /\ (rows[w[1]][o] = at[o] \/ Deleted(o, at[o]))
    <3>1. PICK c, s : c = channel[w] /\ s = stream[w]
      OBVIOUS
    <3>2. /\ LastIs(s, o, at[o]) \/ (Lacks(s, o) /\ LastIs(c, o, at[o]))
               => LastIs(c \o s, o, at[o])
          /\ Lacks(s, o) /\ Lacks(c, o) => Lacks(c \o s, o)
      BY <2>2, <3>1, JoinedLast
    <3> QED BY <2>1, <3>1, <3>2 DEF Fresh
  <2>4. coming \in Seq(Events)
    BY <2>2, ConcatProperties
  <2> HIDE DEF coming
  <2>7. DOMAIN coming \subseteq Nat
    BY <2>4
  <2>5. CASE LastIs(coming, o, at[o])
    <3>1. PICK k \in DOMAIN coming :
            coming[k] = <<o, at[o]>> /\ \A j \in DOMAIN coming : j > k => coming[j][1] # o
      BY <2>5 DEF LastIs
    <3>2. k \in of /\ \A j \in of : j \in Nat /\ ~(j > k)
      BY <2>7, <3>1
    <3>3. ASSUME NEW i \in of, \A j \in of : j <= i PROVE coming[i][2] = at[o]
      <4>1. i = k
        BY <2>7, <3>2, <3>3
      <4> QED BY <3>1, <4>1
    <3> QED BY <3>2, <3>3 DEF coming
  <2>6. CASE Lacks(coming, o) /\ (rows[w[1]][o] = at[o] \/ Deleted(o, at[o]))
    <3>1. of = {}
      BY <2>6 DEF Lacks
    <3> QED BY <2>6, <3>1 DEF coming
  <2> QED BY <2>3, <2>5, <2>6
<1> QED BY <1>1, <1>2 DEF WiresHold

(* Between the server and a table nothing is lost, dropped or overtaken:   *)
(* what the last event of an object said is its row or on its way to it.   *)
THEOREM WiresHoldHolds == Spec => []WiresHold
BY RouteInvariant, RouteHolds, PTL

(* The program ends with a nil pointer only for the reasons given: a table *)
(* that has rows of listed objects only is printed without one.            *)
THEOREM PanicsExplainedHolds == Spec => []PanicsExplained
<1>1. RouteInv => PanicsExplained
  BY DEF RouteInv
<1> QED BY <1>1, RouteInvariant, PTL
=============================================================================
