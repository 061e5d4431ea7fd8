---------------------------- MODULE StateStorage ----------------------------
(***************************************************************************)
(* The state storages (pkg/engine/states) under the commands that use      *)
(* them: preview, prompt, then an operation that reads the latest state    *)
(* again and saves the whole of it after every resource.  Commands of      *)
(* several operators on one stack interleave, and may die between any two  *)
(* steps, in the middle of the write of a local file included; that write  *)
(* may also fail in the middle.                                            *)
(***************************************************************************)
EXTENDS Integers

CONSTANTS Operators,  \* people, or pipelines, that run commands
          Clusters,   \* the clusters an apply may name
          NoCluster,  \* the cluster of a command that names none
          Keys,       \* the resource keys
          NoState,    \* what GetLatestState returns when there is none
          Kinds,      \* the storages to consider, among AllKinds
          MaxCommands, \* bound on the commands
          MaxLost     \* bound on the saves that fail and the commands that die

AllKinds == {"local", "s3", "oss", "db", "http"}

ASSUME StorageAssumption ==
  /\ Kinds \subseteq AllKinds
  /\ MaxCommands \in Nat
  /\ MaxLost \in Nat
  /\ NoCluster \notin Clusters

Named == Clusters \cup {NoCluster}

VARIABLES kind,     \* the storage of the stack
          saved,    \* the states it has
          file,     \* of a local storage: what the file looks like
          cut,      \* of a local storage: its last write was not finished
          births,   \* how many creation times were given
          pc,       \* where the command of each operator is
          session,  \* what that command remembers
          raced,    \* history: two commands overlapped
          commands, \* counts what MaxCommands bounds
          lost      \* counts what MaxLost bounds

vars == <<kind, saved, file, cut, births, pc, session, raced, commands, lost>>

Idle == [cluster |-> NoCluster, spec |-> {}, seen |-> {}, index |-> {},
         prior |-> {}, left |-> {}, serial |-> 0, created |-> 0]

Saved(s, time) ==
  [cluster |-> s.cluster, serial |-> s.serial, resources |-> s.index, created |-> time]

-----------------------------------------------------------------------------
(* The local file does not look at the query.                              *)
FoundInFile == IF file = "whole" THEN saved ELSE {}

(* The rows a query of the database asks for: without a cluster, all.      *)
Rows(c) == {state \in saved : c = NoCluster \/ state.cluster = c}

(* Mutant: the newest row is the one with the lowest serial.               *)
Oldest(rows) == {state \in rows : \A other \in rows : state.serial <= other.serial}

(* "serial desc": of two rows with one serial either may come first.       *)
Newest(rows) == {state \in rows : \A other \in rows : state.serial >= other.serial}

FoundInTable(c) == Newest(Rows(c))

(* The names of the objects in S3 and OSS have no cluster ...              *)
FoundInS3 == saved
FoundInOSS == saved

(* ... while the URL of the service has it.                                *)
FoundAtURL(c) == {state \in saved : state.cluster = c}

(* What GetLatestState may return for a query of cluster c.                *)
Found(c) ==
  CASE kind = "local" -> FoundInFile
    [] kind = "db" -> FoundInTable(c)
    [] kind = "s3" -> FoundInS3
    [] kind = "oss" -> FoundInOSS
    [] kind = "http" -> FoundAtURL(c)

(* An empty file and an answer of 404 are no state.                        *)
Latest(c) == IF Found(c) = {} THEN {NoState} ELSE Found(c)

(* A file that cannot be parsed is an error, and so is the part of it that *)
(* a command reads while another one writes.                               *)
Readable == file # "garbled"
Unreadable(o) == ~Readable \/ \E p \in Operators \ {o} : pc[p] = "write"

Resources(state) == IF state = NoState THEN {} ELSE state.resources
Serial(state) == IF state = NoState THEN 0 ELSE state.serial

(* What the storage has beside the state it is given: the table of a       *)
(* database only grows, and a POST replaces what its URL had.              *)
KeptByTable == saved
KeptByURL(c) == {state \in saved : state.cluster # c}

(* A file and an object are replaced.                                      *)
Kept(c) ==
  CASE kind = "db" -> KeptByTable
    [] kind = "http" -> KeptByURL(c)
    [] OTHER -> {}

Put(new) == saved' = Kept(new.cluster) \cup {new}

-----------------------------------------------------------------------------
Init ==
  /\ kind \in Kinds
  /\ saved = {}
  /\ file = "empty"
  /\ cut = FALSE
  /\ births = 0
  /\ pc = [o \in Operators |-> "idle"]
  /\ session = [o \in Operators |-> Idle]
  /\ raced = FALSE
  /\ commands = 0
  /\ lost = 0

Goto(o, l) == pc' = [pc EXCEPT ![o] = l]

End(o) ==
  /\ Goto(o, "idle")
  /\ session' = [session EXCEPT ![o] = Idle]

Unsaved == UNCHANGED <<kind, saved, file, cut, births>>

(* The command reads the state for its preview and asks the user.  Destroy *)
(* names no cluster and wants a state with resources.                      *)
Preview(o, c, spec) ==
  /\ pc[o] = "idle"
  /\ Readable
  /\ spec = {} => c = NoCluster
  /\ \E state \in Latest(c) :
       /\ spec = {} => Resources(state) # {}
       /\ session' = [session EXCEPT ![o] =
            [Idle EXCEPT !.cluster = c, !.spec = spec, !.seen = Resources(state)]]
  /\ Goto(o, "confirm")
  /\ raced' = (raced \/ \E p \in Operators \ {o} : pc[p] # "idle")
  /\ commands < MaxCommands
  /\ commands' = commands + 1
  /\ Unsaved
  /\ UNCHANGED lost

Cancel(o) ==
  /\ pc[o] = "confirm"
  /\ End(o)
  /\ Unsaved
  /\ UNCHANGED <<raced, commands, lost>>

InitFrom(o, c) ==
  /\ pc[o] = "confirm"
  /\ Readable
  /\ \E state \in Latest(c) :
       session' = [session EXCEPT
         ![o].prior = Resources(state),
         ![o].index = Resources(state),
         ![o].left = Resources(state) \cup session[o].spec,
         ![o].serial = Serial(state)]
  /\ Goto(o, "work")
  /\ Unsaved
  /\ UNCHANGED <<raced, commands, lost>>

(* Mutant: the request of the operation has no cluster.                    *)
InitUnnamed(o) == InitFrom(o, NoCluster)

(* InitStates of the operation reads the state again.                      *)
InitStates(o) == InitFrom(o, session[o].cluster)

(* Either read fails on what cannot be parsed.                             *)
ReadFails(o) ==
  /\ pc[o] = "confirm"
  /\ Unreadable(o)
  /\ End(o)
  /\ Unsaved
  /\ UNCHANGED <<raced, commands, lost>>

(* UpdateState for one resource that was applied or deleted; the lock of   *)
(* the operation makes it one at a time.                                   *)
UpdateState(o, k) ==
  /\ pc[o] = "work"
  /\ k \in session[o].left
  /\ session' = [session EXCEPT
       ![o].index = IF k \in session[o].spec THEN @ \cup {k} ELSE @ \ {k},
       ![o].left = @ \ {k},
       ![o].serial = @ + 1]
  /\ Goto(o, IF kind = "local" THEN "old" ELSE "put")
  /\ Unsaved
  /\ UNCHANGED <<raced, commands, lost>>

(* DBState.Apply deletes the time of the state, for the database to give   *)
(* each row one of its own; the object and HTTP storages never set it.     *)
CreateTime(o) == IF kind = "db" THEN births + 1 ELSE session[o].created

(* Apply of the object, database and HTTP storages: one request, whose     *)
(* answer may be lost.                                                     *)
PutState(o) ==
  /\ pc[o] = "put"
  /\ Put(Saved(session[o], CreateTime(o)))
  /\ births' = IF kind = "db" THEN births + 1 ELSE births
  /\ Goto(o, "work")
  /\ UNCHANGED <<kind, file, cut, session, raced, commands, lost>>

(* Mutant: every save has a CreateTime of its own.                         *)
ReadOldForgetful(o) ==
  /\ pc[o] = "old"
  /\ Readable
  /\ session' = [session EXCEPT ![o].created = births + 1]
  /\ births' = births + 1
  /\ Goto(o, "truncate")
  /\ UNCHANGED <<kind, saved, file, cut, raced, commands, lost>>

(* Mutant: the file is opened for writing before it is read.               *)
ReadOldTruncated(o) ==
  /\ pc[o] = "old"
  /\ file' = "empty"
  /\ session' = [session EXCEPT ![o].created = births + 1]
  /\ births' = births + 1
  /\ Goto(o, "truncate")
  /\ UNCHANGED <<kind, saved, cut, raced, commands, lost>>

(* FileSystemState.Apply first reads the file for its CreateTime ...       *)
ReadOld(o) ==
  /\ pc[o] = "old"
  /\ Readable
  /\ \E old \in Latest(session[o].cluster) :
       IF old = NoState
       THEN /\ session' = [session EXCEPT ![o].created = births + 1]
            /\ births' = births + 1
       ELSE /\ session' = [session EXCEPT ![o].created = old.created]
            /\ UNCHANGED births
  /\ Goto(o, "truncate")
  /\ UNCHANGED <<kind, saved, file, cut, raced, commands, lost>>

(* ... then os.WriteFile truncates it ...                                  *)
Truncate(o) ==
  /\ pc[o] = "truncate"
  /\ file' = "empty"
  /\ Goto(o, "write")
  /\ UNCHANGED <<kind, saved, cut, births, session, raced, commands, lost>>

(* ... and writes.  Over the text of another command, that text may stick  *)
(* out at the end.                                                         *)
Write(o) ==
  /\ pc[o] = "write"
  /\ Put(Saved(session[o], CreateTime(o)))
  /\ cut' = FALSE
  /\ file' \in IF file = "empty" THEN {"whole"} ELSE {"whole", "garbled"}
  /\ Goto(o, "work")
  /\ UNCHANGED <<kind, births, session, raced, commands, lost>>

(* A write that does not finish leaves the file as it found it, empty if   *)
(* nobody else wrote, or with a part of the text.                          *)
CutOff(o) ==
  /\ IF pc[o] = "write"
     THEN cut' = TRUE /\ file' \in {file, "garbled"}
     ELSE UNCHANGED <<cut, file>>
  /\ UNCHANGED <<kind, saved, births>>

(* A save may fail at each of its calls, and does on what cannot be read.  *)
Fails(o) ==
  /\ pc[o] \in {"put", "old", "truncate", "write"}
  /\ \/ pc[o] = "old" /\ Unreadable(o) /\ UNCHANGED lost
     \/ lost < MaxLost /\ lost' = lost + 1
  /\ CutOff(o)
  /\ UNCHANGED <<session, raced, commands>>

(* Mutant: a file that cannot be parsed is read again, for ever.           *)
SaveFailsAlone(o) == Fails(o) /\ Goto(o, IF Readable THEN "work" ELSE pc[o])

(* A save that fails fails its node only; the serial number is used up.    *)
SaveFails(o) == Fails(o) /\ Goto(o, "work")

Finish(o) ==
  /\ pc[o] = "work"
  /\ session[o].left = {}
  /\ End(o)
  /\ Unsaved
  /\ UNCHANGED <<raced, commands, lost>>

Crash(o) ==
  /\ pc[o] # "idle"
  /\ lost < MaxLost
  /\ lost' = lost + 1
  /\ End(o)
  /\ CutOff(o)
  /\ UNCHANGED <<raced, commands>>

(* What the operation does by itself; the rest is up to the user.          *)
Progress(o) ==
  \/ \E k \in Keys : UpdateState(o, k)
  \/ PutState(o) \/ ReadOld(o) \/ Truncate(o) \/ Write(o)
  \/ SaveFails(o) \/ Finish(o)

Step(o) ==
  \/ \E c \in Named, spec \in SUBSET Keys : Preview(o, c, spec)
  \/ Cancel(o) \/ InitStates(o) \/ ReadFails(o) \/ Progress(o) \/ Crash(o)

Rest == (\A o \in Operators : pc[o] = "idle") /\ UNCHANGED vars

Next == (\E o \in Operators : Step(o)) \/ Rest

Spec == Init /\ [][Next]_vars

FairSpec == Spec /\ \A o \in Operators : WF_vars(Progress(o))

-----------------------------------------------------------------------------
State == [cluster : Named, serial : Nat, resources : SUBSET Keys, created : Nat]

ASSUME NoStateAssumption == NoState \notin State

Session ==
  [cluster : Named, spec : SUBSET Keys, seen : SUBSET Keys, index : SUBSET Keys,
   prior : SUBSET Keys, left : SUBSET Keys, serial : Nat, created : Nat]

Labels == {"idle", "confirm", "work", "put", "old", "truncate", "write"}

(* Overwriting storages have one state per place, a whole file has a state *)
(* that was saved, and only a local storage writes in steps.               *)
TypeOK ==
  /\ kind \in Kinds
  /\ saved \subseteq State
  /\ file \in {"empty", "whole", "garbled"}
  /\ file = "whole" => saved # {}
  /\ cut \in BOOLEAN
  /\ births \in Nat
  /\ pc \in [Operators -> Labels]
  /\ session \in [Operators -> Session]
  /\ \A o \in Operators :
       /\ pc[o] \in {"old", "truncate", "write"} => kind = "local"
       /\ pc[o] = "put" => kind # "local"
  /\ kind # "db" =>
       \A s, t \in saved : s = t \/ (kind = "http" /\ s.cluster # t.cluster)
  /\ raced \in BOOLEAN
  /\ commands \in 0..MaxCommands
  /\ lost \in 0..MaxLost

(* While commands do not overlap, what a command has just saved is what    *)
(* its query finds, and nothing else, whatever was saved and lost before.  *)
ReadsItsWrites ==
  [][\A o \in Operators :
       /\ pc[o] \in {"put", "write"}
       /\ saved' # saved
       /\ pc'[o] = "work"
       /\ ~raced
       => Latest(session[o].cluster)' = {Saved(session[o], CreateTime(o))}]_vars

(* "only destroy resources we managed": while commands do not overlap, an  *)
(* operation starts from the resources that the user was shown, although   *)
(* it reads the state again.  Only a database has to choose when it is     *)
(* asked for no cluster and has several.                                   *)
Ambiguous(c) == kind = "db" /\ c = NoCluster /\ \E s \in saved : s.cluster # NoCluster

ShownIsUsed ==
  \A o \in Operators :
    /\ pc[o] \notin {"idle", "confirm"}
    /\ ~raced
    /\ ~Ambiguous(session[o].cluster)
    => session[o].prior = session[o].seen

(* A state file is empty or cannot be parsed only while it is written, or  *)
(* since its last write was cut off, for which one command that fails or   *)
(* dies in the middle is enough.  Without that, it takes two that write at *)
(* once to make it unreadable.                                             *)
LostOnlyInWrites ==
  /\ file = "garbled" => raced \/ cut
  /\ kind = "local" /\ file = "empty" /\ saved # {} =>
       cut \/ \E o \in Operators : pc[o] = "write"

(* "Cluster is a logical concept to separate states in one stack": the     *)
(* command of one cluster changes no state that another one reads.         *)
ClustersApart ==
  [][\A o \in Operators, c \in Clusters :
       /\ Step(o)
       /\ session[o].cluster # c
       => Latest(c)' = Latest(c)]_vars

(* A confirmed operation ends, even on a file that cannot be parsed.       *)
OperationEnds == \A o \in Operators : pc[o] = "work" ~> pc[o] = "idle"

-----------------------------------------------------------------------------
(* The storage as a register.  Nobody else looks while a file is written,  *)
(* unless commands overlap, so that the write takes effect at once.        *)
Writing == {o \in Operators : pc[o] = "write" /\ ~raced}

Visible ==
  [c \in Clusters |->
     IF Writing = {} THEN Latest(c)
     ELSE {Saved(session[o], session[o].created) : o \in Writing}]

Register ==
  INSTANCE StateRegister
    WITH latest <- Visible, shared <- raced,
         separate <- kind \in {"db", "http"}, fragile <- kind = "local",
         dated <- kind # "db"

(* Every storage is a register, forgetful if it is a file, and with the    *)
(* creation time of the last save if it is a table.                        *)
RegisterSpec == Register!Spec

-----------------------------------------------------------------------------
(* Why it is one.  As long as commands do not overlap only one is at work; *)
(* the states that its query has to do with are no newer than its session, *)
(* older once it is to save, and those of one cluster differ in serial, so *)
(* that the newest is one.                                                 *)
Working(o) == pc[o] \notin {"idle", "confirm"}
Saving(o) == pc[o] \in {"put", "old", "truncate", "write"}

Rivals(c) == IF kind = "db" THEN Rows(c) ELSE Found(c)

OneAtATime ==
  ~raced => \A o, p \in Operators : pc[o] # "idle" /\ pc[p] # "idle" => o = p

TableInv ==
  kind = "db" =>
    /\ \A c \in Named : Rows(c) # {} => Newest(Rows(c)) # {}
    /\ ~raced =>
         \A s, t \in saved : s.cluster = t.cluster /\ s.serial = t.serial => s = t

TimesInv ==
  /\ kind # "local" => \A o \in Operators : session[o].created = 0
  /\ kind \notin {"local", "db"} => \A s \in saved : s.created = 0

SessionInv(o) ==
  /\ pc[o] = "confirm" /\ ~Ambiguous(session[o].cluster) =>
       \A s \in Latest(session[o].cluster) : Resources(s) = session[o].seen
  /\ Working(o) /\ ~Ambiguous(session[o].cluster) => session[o].prior = session[o].seen
  /\ Working(o) => \A s \in Rivals(session[o].cluster) : s.serial <= session[o].serial
  /\ Saving(o) => \A s \in Rivals(session[o].cluster) : s.serial < session[o].serial
  /\ pc[o] = "truncate" => \A s \in FoundInFile : s.created = session[o].created
  /\ pc[o] = "write" => file = "empty"

StorageInv ==
  /\ TypeOK /\ LostOnlyInWrites
  /\ OneAtATime /\ TableInv /\ TimesInv
  /\ ~raced => \A o \in Operators : SessionInv(o)
=============================================================================
