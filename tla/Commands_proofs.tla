------------------------- MODULE Commands_proofs --------------------------
(***************************************************************************)
(* What the commands find out, leave behind and tell.  `kusion init`, for  *)
(* any template, terminals, commands and faults: what becomes of a file    *)
(* that the user wrote and of a temporary directory, that a project said   *)
(* to be created is on the disk as rendered, and when one can come out     *)
(* short.  `kusion apply` and `kusion destroy`, for any resources,         *)
(* dependencies and previews: what the report of the run says and that it  *)
(* cannot panic.  Every command, for any tree of directories, storages,    *)
(* flags and files: what it works on and where the state is kept, and what *)
(* `kusion deps` answers.                                                  *)
(***************************************************************************)
EXTENDS Scaffold, Progress, Workspace, TLAPS, WellFoundedInduction, FiniteSetTheorems

(* The variables are the functions that the steps take them for. *)
DiskShape ==
    /\ disk = [p \in Projects |-> disk[p]]
    /\ \A p \in Projects :
        /\ disk[p] = [dirs |-> disk[p].dirs, file |-> disk[p].file]
        /\ disk[p].file = [f \in Files |-> disk[p].file[f]]

ProcessShape ==
    /\ cmd \in [Terminals -> Commands]
    /\ pc = [t \in Terminals |-> pc[t]]
    /\ temp \in [Terminals -> BOOLEAN]
    /\ failedAt = [t \in Terminals |-> failedAt[t]]

(* Inductive: TempsRemoved needs the shapes of what a command notes. *)
TidyInv == DiskShape /\ ProcessShape /\ TempsRemoved

LEMMA InitTidy == Init => TidyInv
<1> SUFFICES ASSUME Init PROVE TidyInv
  OBVIOUS
<1>1. (CHOOSE c \in Commands : TRUE) \in Commands
  BY CommandsAssumption
<1>2. ProcessShape /\ TempsRemoved
  BY <1>1 DEF Init, ProcessShape, TempsRemoved
<1>3. DiskShape
  BY DEF Init, DiskShape, Blank
<1> QED BY <1>2, <1>3 DEF TidyInv

(* How a command may end, and what it leaves. *)
LEMMA EndTidy ==
  ASSUME ProcessShape, TempsRemoved, NEW t \in Terminals, NEW where, NEW keeps \in BOOLEAN,
         EndWith(t, where, keeps), keeps => where \in {"fetch", "crash"}, cmd' = cmd
  PROVE  ProcessShape' /\ TempsRemoved'
<1>1. /\ pc' = [pc EXCEPT ![t] = "ended"]
      /\ failedAt' = [failedAt EXCEPT ![t] = where]
      /\ temp' = [temp EXCEPT ![t] = temp[t] /\ keeps]
  BY DEF EndWith, Goto
<1>2. temp' \in [Terminals -> BOOLEAN]
  BY <1>1 DEF ProcessShape
<1>3. ProcessShape'
  BY <1>1, <1>2 DEF ProcessShape
<1>4. /\ temp'[t] => keeps
      /\ \A v \in Terminals \ {t} : temp'[v] = temp[v]
  BY <1>1 DEF ProcessShape
<1>5. /\ failedAt'[t] = where
      /\ \A v \in Terminals \ {t} : failedAt'[v] = failedAt[v] /\ pc'[v] = pc[v]
  BY <1>1 DEF ProcessShape
<1>6. TempsRemoved'
  BY <1>4, <1>5 DEF TempsRemoved
<1> QED BY <1>3, <1>6

(* A command that goes on owes nothing yet. *)
LEMMA GoTidy ==
  ASSUME ProcessShape, TempsRemoved, NEW t \in Terminals, NEW where, where # "ended",
         Goto(t, where), temp' \in [Terminals -> BOOLEAN],
         \A v \in Terminals \ {t} : temp'[v] = temp[v] /\ failedAt'[v] = failedAt[v],
         failedAt' = [v \in Terminals |-> failedAt'[v]], cmd' \in [Terminals -> Commands]
  PROVE  ProcessShape' /\ TempsRemoved'
<1>1. pc' = [pc EXCEPT ![t] = where]
  BY DEF Goto
<1>2. pc'[t] = where /\ \A v \in Terminals \ {t} : pc'[v] = pc[v]
  BY <1>1 DEF ProcessShape
<1>3. ProcessShape'
  BY <1>1 DEF ProcessShape
<1>4. TempsRemoved'
  BY <1>2 DEF TempsRemoved
<1> QED BY <1>3, <1>4

(* A step that leaves these alone. *)
LEMMA SameTidy ==
  ASSUME ProcessShape, TempsRemoved, UNCHANGED <<cmd, pc, temp, failedAt>>
  PROVE  ProcessShape' /\ TempsRemoved'
BY DEF ProcessShape, TempsRemoved

(* How a step changes the disk. *)
SetsFile(p, f, new) == disk' = [disk EXCEPT ![p].file[f] = new]
SetsDirs(p, new) == disk' = [disk EXCEPT ![p].dirs = new]

(* A file that changes leaves the disk in shape, and the other files alone. *)
LEMMA FileShape ==
  ASSUME DiskShape, NEW p \in Projects, NEW f, NEW new, SetsFile(p, f, new)
  PROVE  /\ DiskShape'
         /\ f \in Files => disk'[p].file[f] = new
         /\ \A q \in Projects, g \in Files :
              q # p \/ g # f => disk'[q].file[g] = disk[q].file[g]
         /\ \A q \in Projects : disk'[q].dirs = disk[q].dirs
<1> DEFINE file == [disk[p].file EXCEPT ![f] = new]
           place == [disk[p] EXCEPT !.file = file]
<1>1. disk' = [disk EXCEPT ![p] = place]
  BY DEF SetsFile
<1>2. place = [dirs |-> disk[p].dirs, file |-> file]
  <2>1. ASSUME NEW old, NEW d, NEW g, old = [dirs |-> d, file |-> g]
        PROVE  [old EXCEPT !.file = file] = [dirs |-> d, file |-> file]
    <3> HIDE DEF file
    <3> QED BY <2>1
  <2>2. disk[p] = [dirs |-> disk[p].dirs, file |-> disk[p].file]
    BY DEF DiskShape
  <2> HIDE DEF file
  <2> QED BY <2>1, <2>2 DEF place
<1>3. file = [g \in Files |-> file[g]] /\ \A g \in Files \ {f} : file[g] = disk[p].file[g]
  BY DEF DiskShape
<1>7. f \in Files => file[f] = new
  BY DEF DiskShape
<1> HIDE DEF file, place
<1>4. disk'[p] = place /\ \A q \in Projects \ {p} : disk'[q] = disk[q]
  BY <1>1 DEF DiskShape
<1>5. place.dirs = disk[p].dirs /\ place.file = file
  BY <1>2
<1>6. DiskShape'
  <2>1. disk' = [q \in Projects |-> disk'[q]]
    BY <1>1 DEF DiskShape
  <2>2. place = [dirs |-> place.dirs, file |-> place.file]
    BY <1>2, <1>5
  <2>3. place.file = [g \in Files |-> place.file[g]]
    BY <1>3, <1>5
  <2>4. ASSUME NEW q \in Projects
        PROVE  /\ disk'[q] = [dirs |-> disk'[q].dirs, file |-> disk'[q].file]
               /\ disk'[q].file = [g \in Files |-> disk'[q].file[g]]
    <3>1. CASE q = p
      BY <1>4, <2>2, <2>3, <3>1
    <3>2. CASE q # p
      BY <1>4, <3>2 DEF DiskShape
    <3> QED BY <3>1, <3>2
  <2> QED BY <2>1, <2>4 DEF DiskShape
<1> QED BY <1>3, <1>4, <1>5, <1>6, <1>7

(* A directory that is made changes no file. *)
LEMMA DirShape ==
  ASSUME DiskShape, NEW p \in Projects, NEW new, SetsDirs(p, new)
  PROVE  /\ DiskShape'
         /\ \A q \in Projects, g \in Files : disk'[q].file[g] = disk[q].file[g]
         /\ disk'[p].dirs = new
         /\ \A q \in Projects \ {p} : disk'[q].dirs = disk[q].dirs
<1> DEFINE place == [disk[p] EXCEPT !.dirs = new]
<1>1. disk' = [disk EXCEPT ![p] = place]
  BY DEF SetsDirs
<1>2. place = [dirs |-> new, file |-> disk[p].file]
  <2>1. ASSUME NEW old, NEW d, NEW g, old = [dirs |-> d, file |-> g]
        PROVE  [old EXCEPT !.dirs = new] = [dirs |-> new, file |-> g]
    BY <2>1
  <2>2. disk[p] = [dirs |-> disk[p].dirs, file |-> disk[p].file]
    BY DEF DiskShape
  <2> QED BY <2>1, <2>2 DEF place
<1> HIDE DEF place
<1>3. disk'[p] = place /\ \A q \in Projects \ {p} : disk'[q] = disk[q]
  BY <1>1 DEF DiskShape
<1>4. place.dirs = new /\ place.file = disk[p].file
  BY <1>2
<1>5. DiskShape'
  <2>1. disk' = [q \in Projects |-> disk'[q]]
    BY <1>1 DEF DiskShape
  <2>2. place = [dirs |-> place.dirs, file |-> place.file]
    BY <1>2, <1>4
  <2>3. ASSUME NEW q \in Projects
        PROVE  /\ disk'[q] = [dirs |-> disk'[q].dirs, file |-> disk'[q].file]
               /\ disk'[q].file = [g \in Files |-> disk'[q].file[g]]
    <3>1. CASE q = p
      BY <1>3, <1>4, <2>2, <3>1 DEF DiskShape
    <3>2. CASE q # p
      BY <1>3, <3>2 DEF DiskShape
    <3> QED BY <3>1, <3>2
  <2> QED BY <2>1, <2>3 DEF DiskShape
<1> QED BY <1>3, <1>4, <1>5

(* What a step of a command may do to a file that the user wrote. *)
Survives ==
    \A p \in Projects, f \in Files :
        disk[p].file[f] = "user" /\ disk'[p].file[f] # "user" =>
            \E t \in Terminals : /\ (pc[t] = "write" /\ cmd[t].project = p)
                                 /\ (cmd[t].force \/ opened[t] = f)

(* The steps that write files: without --force only a file that was not    *)
(* there is opened, and only what was opened is written.                   *)
LEMMA WriteStep ==
  ASSUME TidyInv, NEW t \in Terminals, WriteDir(t) \/ WriteOpen(t) \/ WriteFile(t)
  PROVE  DiskShape' /\ Survives
<1>0. DiskShape /\ cmd[t].project \in Projects /\ pc[t] = "write"
  BY CommandsAssumption DEF TidyInv, ProcessShape, WriteDir, WriteOpen, WriteFile
<1>1. CASE WriteDir(t)
  <2>1. disk' = disk \/ SetsDirs(cmd[t].project,
                                    disk[cmd[t].project].dirs \cup {First(todo[t])})
    BY <1>1 DEF WriteDir, SetsDirs
  <2>2. DiskShape' /\ \A q \in Projects, g \in Files : disk'[q].file[g] = disk[q].file[g]
    BY <1>0, <2>1, DirShape DEF DiskShape
  <2> QED BY <2>2 DEF Survives
<1>2. CASE WriteOpen(t)
  <2>1. \/ disk' = disk
        \/ /\ cmd[t].force \/ disk[cmd[t].project].file[First(todo[t])] = "absent"
           /\ SetsFile(cmd[t].project, First(todo[t]), "empty")
    BY <1>2 DEF WriteOpen, CanCreate, SetsFile
  <2>2. CASE disk' = disk
    BY <1>0, <2>2 DEF DiskShape, Survives
  <2>3. CASE disk' # disk
    <3>1. /\ DiskShape'
          /\ \A q \in Projects, g \in Files :
               q # cmd[t].project \/ g # First(todo[t]) => disk'[q].file[g] = disk[q].file[g]
      BY <1>0, <2>1, <2>3, FileShape
    <3> QED BY <1>0, <2>1, <2>3, <3>1 DEF Survives
  <2> QED BY <2>2, <2>3
<1>3. CASE WriteFile(t)
  <2>1. SetsFile(cmd[t].project, opened[t], out[t][opened[t]])
    BY <1>3 DEF WriteFile, SetsFile
  <2>2. /\ DiskShape'
        /\ \A q \in Projects, g \in Files :
             q # cmd[t].project \/ g # opened[t] => disk'[q].file[g] = disk[q].file[g]
    BY <1>0, <2>1, FileShape
  <2> QED BY <1>0, <2>2 DEF Survives
<1> QED BY <1>1, <1>2, <1>3

(* The user only ever makes files the user's. *)
LEMMA EditStep ==
  ASSUME TidyInv, Edit PROVE DiskShape' /\ Survives
<1>1. PICK p \in Projects, f \in Files \ {Manifest} :
        SetsFile(p, f, "user")
  BY DEF Edit, SetsFile
<1>2. /\ DiskShape' /\ disk'[p].file[f] = "user"
      /\ \A q \in Projects, g \in Files : q # p \/ g # f => disk'[q].file[g] = disk[q].file[g]
  BY <1>1, FileShape DEF TidyInv
<1> QED BY <1>2 DEF Survives

(* The other steps of a command write no project. *)
LEMMA OtherDisk ==
  ASSUME TidyInv, NEW t \in Terminals,
         Step(t) \/ Start(t) \/ Refuse(t) \/ FetchFails(t) \/ WriteFails(t) \/ Crash(t),
         ~WriteDir(t), ~WriteOpen(t), ~WriteFile(t)
  PROVE  DiskShape' /\ Survives
<1>1. disk' = disk
  <2>1. CASE ValidateOptions(t) \/ MakeShelf(t) \/ GenerateOpen(t) \/ GenerateWrite(t)
    BY <2>1 DEF ValidateOptions, MakeShelf, GenerateOpen, GenerateWrite
  <2>2. CASE Download(t) \/ Inspect(t) \/ Cleanup(t) \/ Cleaned(t) \/ Fetch(t)
    BY <2>2 DEF Download, Inspect, Cleanup, Cleaned, Fetch, shelves
  <2>7. CASE CheckoutOpen(t) \/ CheckoutWrite(t)
    BY <2>7 DEF CheckoutOpen, CheckoutWrite
  <2>3. CASE List(t) \/ Choose(t)
    BY <2>3 DEF List, Choose
  <2>4. CASE Read(t)
    BY <2>4 DEF Read
  <2>5. CASE Render(t) \/ Finish(t)
    BY <2>5 DEF Render, Finish
  <2>6. CASE Start(t) \/ Refuse(t) \/ FetchFails(t) \/ WriteFails(t) \/ Crash(t)
    BY <2>6 DEF Start, Refuse, FetchFails, WriteFails, Crash
  <2> QED BY <2>1, <2>2, <2>3, <2>4, <2>5, <2>6, <2>7 DEF Step
<1> QED BY <1>1 DEF TidyInv, DiskShape, Survives

(* Every step notes how its command ended, and removes its download. *)
LEMMA ProcessStep ==
  ASSUME TidyInv, NEW t \in Terminals,
         Step(t) \/ Start(t) \/ Refuse(t) \/ FetchFails(t) \/ WriteFails(t) \/ Crash(t)
  PROVE  ProcessShape' /\ TempsRemoved'
<1>0. ProcessShape /\ TempsRemoved /\ pc = [v \in Terminals |-> pc[v]]
  BY DEF TidyInv, ProcessShape
<1>1. ASSUME NEW where, where # "ended", Goto(t, where), UNCHANGED <<cmd, temp, failedAt>>
      PROVE  ProcessShape' /\ TempsRemoved'
  BY <1>0, <1>1, GoTidy DEF ProcessShape
<1>2. ASSUME NEW where, Quit(t, where), cmd' = cmd PROVE ProcessShape' /\ TempsRemoved'
  BY <1>0, <1>2, EndTidy DEF Quit
<1>3. ASSUME NEW where \in {"fetch", "crash"}, Leave(t, where), cmd' = cmd
      PROVE  ProcessShape' /\ TempsRemoved'
  BY <1>0, <1>3, EndTidy DEF Leave
<1>4. CASE ValidateOptions(t)
  <2>1. PICK where \in {"mkdir", "list"} : Goto(t, where) /\ UNCHANGED <<cmd, temp, failedAt>>
    BY <1>4 DEF ValidateOptions
  <2> QED BY <1>1, <2>1
<1>5. CASE MakeShelf(t)
  BY <1>1, <1>5 DEF MakeShelf
<1>6. CASE GenerateOpen(t)
  BY <1>0, <1>6, SameTidy DEF GenerateOpen
<1>7. CASE GenerateWrite(t)
  <2>1. PICK where \in {"gen", "list"} : Goto(t, where) /\ UNCHANGED <<cmd, temp, failedAt>>
    BY <1>7 DEF GenerateWrite
  <2> QED BY <1>1, <2>1
<1>8. CASE Download(t)
  <2>1. /\ temp' = [temp EXCEPT ![t] = TRUE] /\ Goto(t, "fetch")
        /\ UNCHANGED <<cmd, failedAt>>
    BY <1>8 DEF Download
  <2>2. temp' \in [Terminals -> BOOLEAN] /\ \A v \in Terminals \ {t} : temp'[v] = temp[v]
    BY <1>0, <2>1 DEF ProcessShape
  <2> QED BY <1>0, <2>1, <2>2, GoTidy DEF ProcessShape
<1>9. CASE Inspect(t)
  BY <1>1, <1>9 DEF Inspect
<1>10. CASE Cleaned(t)
  BY <1>1, <1>10 DEF Cleaned
<1>11. CASE Fetch(t) \/ CheckoutWrite(t)
  <2>1. PICK where \in {"checkout", "list"} : Goto(t, where) /\ UNCHANGED <<cmd, temp, failedAt>>
    BY <1>11 DEF Fetch, CheckoutWrite
  <2> QED BY <1>1, <2>1
<1>22. CASE Cleanup(t) \/ CheckoutOpen(t)
  BY <1>0, <1>22, SameTidy DEF Cleanup, CheckoutOpen
<1>12. CASE List(t)
  <2>1. \/ \E where : Quit(t, where) /\ cmd' = cmd
        \/ Goto(t, "choose") /\ UNCHANGED <<cmd, temp, failedAt>>
    BY <1>12 DEF List, NoTemplates
  <2> QED BY <1>1, <1>2, <2>1
<1>13. CASE Choose(t)
  <2>1. CASE Goto(t, "read") /\ UNCHANGED <<cmd, temp, failedAt>>
    BY <1>1, <2>1
  <2>2. CASE /\ Goto(t, "ended") /\ temp' = [temp EXCEPT ![t] = FALSE]
             /\ failedAt' = [failedAt EXCEPT ![t] = "choose"] /\ cmd' = cmd
    <3>1. /\ pc' = [pc EXCEPT ![t] = "ended"]
          /\ temp' \in [Terminals -> BOOLEAN] /\ temp'[t] = FALSE
          /\ \A v \in Terminals \ {t} : temp'[v] = temp[v]
      BY <1>0, <2>2 DEF ProcessShape, Goto
    <3>2. ProcessShape'
      BY <1>0, <2>2, <3>1 DEF ProcessShape
    <3>3. \A v \in Terminals \ {t} : pc'[v] = pc[v] /\ failedAt'[v] = failedAt[v]
      BY <1>0, <2>2, <3>1 DEF ProcessShape
    <3>4. TempsRemoved'
      BY <1>0, <3>1, <3>3 DEF TempsRemoved
    <3> QED BY <3>2, <3>4
  <2> QED BY <1>13, <2>1, <2>2 DEF Choose
<1>14. CASE Read(t)
  <2>1. \/ Quit(t, "read") /\ cmd' = cmd
        \/ \E where \in {"render", "read"} : Goto(t, where) /\ UNCHANGED <<cmd, temp, failedAt>>
    BY <1>14 DEF Read
  <2> QED BY <1>1, <1>2, <2>1
<1>15. CASE Render(t)
  <2>1. \/ Quit(t, "render") /\ cmd' = cmd
        \/ Goto(t, "write") /\ UNCHANGED <<cmd, temp, failedAt>>
    BY <1>15 DEF Render
  <2> QED BY <1>1, <1>2, <2>1
<1>16. CASE WriteDir(t) \/ WriteOpen(t)
  <2>1. \/ Quit(t, "write") /\ cmd' = cmd
        \/ UNCHANGED <<cmd, pc, temp, failedAt>>
    BY <1>16 DEF WriteDir, WriteOpen
  <2> QED BY <1>0, <1>2, <2>1, SameTidy
<1>17. CASE WriteFile(t)
  <2>1. PICK where \in {"done", "write"} : Goto(t, where) /\ UNCHANGED <<cmd, temp, failedAt>>
    BY <1>17 DEF WriteFile, AfterWrite
  <2> QED BY <1>1, <2>1
<1>18. CASE Finish(t)
  BY <1>2, <1>18 DEF Finish
<1>19. CASE Start(t)
  <2>1. PICK c \in Commands : /\ cmd' = [cmd EXCEPT ![t] = c]
                              /\ Goto(t, IF c.source = "internal" THEN "validate" ELSE "retrieve")
    BY <1>19 DEF Start
  <2>2. PICK where \in {"validate", "retrieve"} : Goto(t, where)
    BY <2>1
  <2>3. /\ failedAt' = [failedAt EXCEPT ![t] = "none"]
        /\ temp' = [temp EXCEPT ![t] = FALSE]
    BY <1>19 DEF Start
  <2>4. /\ temp' \in [Terminals -> BOOLEAN] /\ cmd' \in [Terminals -> Commands]
        /\ failedAt' = [v \in Terminals |-> failedAt'[v]]
        /\ \A v \in Terminals \ {t} : temp'[v] = temp[v] /\ failedAt'[v] = failedAt[v]
    BY <1>0, <2>1, <2>3 DEF ProcessShape
  <2> QED BY <1>0, <2>2, <2>4, GoTidy
<1>20. CASE Refuse(t) \/ WriteFails(t)
  <2>1. \E where : Quit(t, where) /\ cmd' = cmd
    BY <1>20 DEF Refuse, WriteFails
  <2> QED BY <1>2, <2>1
<1>21. CASE FetchFails(t) \/ Crash(t)
  <2>1. \E where \in {"fetch", "crash"} : Leave(t, where) /\ cmd' = cmd
    BY <1>21 DEF FetchFails, Crash
  <2> QED BY <1>3, <2>1
<1> QED BY <1>4, <1>5, <1>6, <1>7, <1>8, <1>9, <1>10, <1>11, <1>12, <1>13, <1>14, <1>15, <1>16,
           <1>17, <1>18, <1>19, <1>20, <1>21, <1>22 DEF Step

LEMMA NextTidy == TidyInv /\ [Next]_vars => TidyInv' /\ [Survives]_vars
<1> SUFFICES ASSUME TidyInv, [Next]_vars PROVE TidyInv' /\ [Survives]_vars
  OBVIOUS
<1>1. CASE UNCHANGED vars
  BY <1>1 DEF vars, TidyInv, DiskShape, ProcessShape, TempsRemoved
<1>2. ASSUME NEW t \in Terminals,
             Step(t) \/ Start(t) \/ Refuse(t) \/ FetchFails(t) \/ WriteFails(t) \/ Crash(t)
      PROVE  TidyInv' /\ Survives
  <2>1. DiskShape' /\ Survives
    BY <1>2, WriteStep, OtherDisk
  <2> QED BY <1>2, <2>1, ProcessStep DEF TidyInv
<1>3. CASE Edit
  <2>1. UNCHANGED <<cmd, pc, temp, failedAt>>
    BY <1>3 DEF Edit
  <2> QED BY <1>3, <2>1, EditStep, SameTidy DEF TidyInv
<1> QED BY <1>1, <1>2, <1>3 DEF Next, Rest

-----------------------------------------------------------------------------
(* Run's deferred clean-up removes a download however its command returned,*)
(* but for a failed retrieval and a crash.                                 *)
THEOREM TempsRemovedHolds == Spec => []TempsRemoved
<1>1. TidyInv => TempsRemoved
  BY DEF TidyInv
<1> QED BY <1>1, InitTidy, NextTidy, PTL DEF Spec

(* os.O_EXCL keeps every file that the user wrote, for any number of       *)
(* commands and edits in the same project.                                 *)
THEOREM UserFilesSurviveHolds == Spec => UserFilesSurvive
<1>1. [Survives]_vars => [\A p \in Projects, f \in Files :
    disk[p].file[f] = "user" /\ disk'[p].file[f] # "user" =>
        \E t \in Terminals : /\ (pc[t] = "write" /\ cmd[t].project = p)
                            /\ (cmd[t].force \/ opened[t] = f)]_vars
  BY DEF Survives
<1> QED BY <1>1, InitTidy, NextTidy, PTL DEF Spec, UserFilesSurvive

-----------------------------------------------------------------------------
(* What is left to do, per place.                                          *)
StageInv(t) ==
    /\ pc[t] \notin {"gen", "checkout", "read", "write"} => todo[t] = {}
    /\ pc[t] \notin {"gen", "checkout", "write"} => opened[t] = "none"
    /\ pc[t] \in {"gen", "checkout", "read"} => todo[t] \subseteq Files
    /\ pc[t] = "read" => todo[t] # {}
    /\ pc[t] = "write" => todo[t] \subseteq WalkOf(out[t])
    /\ pc[t] = "write" /\ opened[t] # "none" => out[t][opened[t]] # "absent"
    /\ pc[t] \in {"validate", "mkdir", "gen"} => cmd[t].source = "internal"
    /\ pc[t] \in {"retrieve", "cleanup", "fetch"} => cmd[t].source # "internal"
    /\ pc[t] = "checkout" => cmd[t].source = "official"
    /\ pc[t] \in {"gen", "list", "choose", "read"} /\ cmd[t].source = "internal" => shelfDir

(* Unless a generation stopped early, what is not whole on the internal    *)
(* shelf is being written.                                                 *)
ShelfInv ==
    shelfDir /\ ~ broken => \A f \in Files :
        \/ shelf[f] = "full"
        \/ \E t \in Terminals : pc[t] = "gen" /\ (f \in todo[t] \/ opened[t] = f)

(* Unless another command removed or rewrote some of them, the official    *)
(* templates become whole by a checkout and stay so.                       *)
PulledInv(t) ==
    cmd[t].source = "official" /\ ~ overlapped[t] =>
        /\ pc[t] = "checkout" => \A f \in Files :
             \/ external[f] = "full"
             \/ f \in todo[t]
             \/ opened[t] = f /\ external[f] # "absent"
        /\ pc[t] \in {"list", "choose", "read"} => \A f \in Files : external[f] = "full"

(* What a command reads is whole, and it has a value for every field.      *)
Excused(t) ==
    \/ cmd[t].source = "internal" /\ (broken \/ overlapped[t])
    \/ cmd[t].source = "official" /\ overlapped[t]

ReadInv(t) ==
    cmd[t].params = {"prompted"} /\ ~ Excused(t) =>
        /\ pc[t] \in {"choose", "read", "render"} => levels[t] = Levels
        /\ pc[t] \in {"read", "render"} => \A f \in Files \ todo[t] : mem[t][f] = "full"
        /\ pc[t] \in {"write", "done"} \/ Succeeded(t) => Whole(t)

(* What the walk has left behind it is on the disk.                        *)
WriteInv(t) ==
    pc[t] \in {"write", "done"} \/ Succeeded(t) =>
        /\ \A d \in Dirs \ todo[t] : d \in WalkOf(out[t]) => d \in disk[cmd[t].project].dirs
        /\ \A f \in Files \ (touched[t] \cup todo[t]) :
             f # opened[t] /\ out[t][f] # "absent" => disk[cmd[t].project].file[f] = out[t][f]
        /\ pc[t] = "write" /\ opened[t] # "none" =>
             DirOf[opened[t]] \in disk[cmd[t].project].dirs

ScaffoldInv ==
    /\ TypeOK
    /\ TidyInv
    /\ ShelfInv
    /\ \A t \in Terminals : StageInv(t) /\ ReadInv(t) /\ WriteInv(t)
    /\ \A t \in Terminals : PulledInv(t)

-----------------------------------------------------------------------------
LEMMA FirstIs ==
  ASSUME NEW S \in SUBSET (Files \cup Dirs), S # {}
  PROVE  First(S) \in S /\ \A y \in S : Place[First(S)] <= Place[y]
<1>1. \A x \in S : Place[x] \in Nat
  BY TemplateAssumption
<1> DEFINE Places == {Place[x] : x \in S}
           Less == {p \in Nat \X Nat : p[1] < p[2]}
<1>2. IsWellFoundedOn(Less, Nat)
  BY NatLessThanWellFounded, Zenon DEF OpToRel
<1>3. \A a, b \in Nat : <<a, b>> \in Less <=> a < b
  OBVIOUS
<1>4. Places \in SUBSET Nat /\ Places # {}
  BY <1>1
<1> HIDE DEF Less
<1>5. PICK m \in Places : \A n \in Places : ~(<<n, m>> \in Less)
  BY <1>2, <1>4, WFMin
<1>6. PICK x \in S : m = Place[x]
  OBVIOUS
<1>7. ASSUME NEW y \in S PROVE Place[x] <= Place[y]
  <2>1. Place[y] \in Places /\ Place[x] \in Nat /\ Place[y] \in Nat
    BY <1>1
  <2>2. ~(Place[y] < Place[x])
    BY <1>3, <1>5, <1>6, <2>1, Zenon
  <2> QED BY <2>1, <2>2
<1> QED BY <1>7 DEF First

(* What a step of another process leaves of a terminal.                    *)
Unmoved(v) ==
    /\ pc'[v] = pc[v] /\ cmd'[v] = cmd[v] /\ todo'[v] = todo[v] /\ opened'[v] = opened[v]
    /\ levels'[v] = levels[v] /\ mem'[v] = mem[v] /\ out'[v] = out[v]
    /\ overlapped[v] => overlapped'[v]
    /\ failedAt'[v] = failedAt[v]

Grows ==
    /\ shelfDir => shelfDir'
    /\ broken => broken'
    /\ \A p \in Projects : disk[p].dirs \subseteq disk'[p].dirs

(* Files of its project that change are noted as touched.                  *)
Notes(v) ==
    /\ touched[v] \subseteq touched'[v]
    /\ \A f \in Files \ touched'[v] :
         disk'[cmd[v].project].file[f] = disk[cmd[v].project].file[f]

TerminalInv(t) == StageInv(t) /\ ReadInv(t) /\ WriteInv(t)

LEMMA CommandIs ==
  ASSUME NEW c \in Commands
  PROVE  /\ c.project \in Projects
         /\ c.source \in {"internal", "url", "official"}
         /\ c.params \in (SUBSET Levels) \cup {{"prompted"}}
<1>1. c \in [list : BOOLEAN, source : {"internal", "url", "official"}, project : Projects,
             force : BOOLEAN, params : (SUBSET Levels) \cup {{"prompted"}}]
  BY CommandsAssumption
<1> QED BY <1>1

LEMMA ProjectIs == TypeOK => \A t \in Terminals : cmd[t].project \in Projects
BY CommandIs DEF TypeOK

LEMMA UnmovedInv ==
  ASSUME TypeOK, NEW v \in Terminals, Unmoved(v), Grows, Notes(v), TerminalInv(v)
  PROVE  TerminalInv(v)'
<1>1. cmd[v].project \in Projects
  BY ProjectIs
<1>2. Succeeded(v)' <=> Succeeded(v)
  BY DEF Unmoved, Succeeded
<1>3. WalkOf(out[v])' = WalkOf(out[v])
  BY DEF Unmoved, WalkOf
<1>4. StageInv(v)'
  BY <1>3 DEF StageInv, TerminalInv, Unmoved, Grows
<1>5. ReadInv(v)'
  BY <1>2 DEF ReadInv, TerminalInv, Unmoved, Grows, Excused, Whole
<1>6. WriteInv(v)'
  <2> SUFFICES ASSUME pc[v] \in {"write", "done"} \/ Succeeded(v) PROVE WriteInv(v)'
    BY <1>2 DEF WriteInv, Unmoved
  <2>1. \A d \in Dirs \ todo[v] : d \in WalkOf(out[v]) => d \in disk'[cmd[v].project].dirs
    BY <1>1 DEF TerminalInv, WriteInv, Grows
  <2>2. \A f \in Files \ (touched'[v] \cup todo[v]) :
          f # opened[v] /\ out[v][f] # "absent" => disk'[cmd[v].project].file[f] = out[v][f]
    BY DEF TerminalInv, WriteInv, Notes
  <2>3. pc[v] = "write" /\ opened[v] # "none" =>
          DirOf[opened[v]] \in disk'[cmd[v].project].dirs
    BY <1>1 DEF TerminalInv, WriteInv, Grows
  <2> QED BY <1>3, <2>1, <2>2, <2>3 DEF WriteInv, Unmoved
<1> QED BY <1>4, <1>5, <1>6 DEF TerminalInv

-----------------------------------------------------------------------------
(* TypeOK in two parts.                                                    *)
RestOK ==
    /\ shelf \in [Files -> {"absent", "empty", "full"}] /\ shelfDir \in BOOLEAN
    /\ broken \in BOOLEAN
    /\ external \in [Files -> {"absent", "empty", "full"}] /\ cloned \in BOOLEAN
    /\ pc \in [Terminals -> {"ended", "validate", "mkdir", "gen", "retrieve", "cleanup", "fetch",
                             "checkout", "list", "choose", "read", "render", "write", "done"}]
    /\ cmd \in [Terminals -> Commands]
    /\ opened \in [Terminals -> Files \cup {"none"}]
    /\ todo \in [Terminals -> SUBSET (Files \cup Dirs)]
    /\ wipe \in [Terminals -> BOOLEAN] /\ temp \in [Terminals -> BOOLEAN]
    /\ levels \in [Terminals -> SUBSET Levels]
    /\ mem \in [Terminals -> [Files -> {"absent", "empty", "full"}]]
    /\ out \in [Terminals -> [Files -> {"absent", "empty", "rendered", "no value"}]]
    /\ overlapped \in [Terminals -> BOOLEAN] /\ touched \in [Terminals -> SUBSET Files]

DiskOK ==
    \A p \in Projects :
        /\ disk[p].dirs \subseteq Dirs
        /\ \A f \in Files : disk[p].file[f] \in
                {"absent", "empty", "rendered", "no value", "user"}
        /\ \A f \in Files : disk[p].file[f] # "absent" => DirOf[f] \in disk[p].dirs

LEMMA TypeIs == TypeOK <=> RestOK /\ DiskOK
BY DEF TypeOK, RestOK, DiskOK

(* What a step of a terminal has to do for the invariant.                  *)
Result(t) ==
    /\ RestOK' /\ DiskOK' /\ ShelfInv' /\ TerminalInv(t)'
    /\ Grows
    /\ \A v \in Terminals \ {t} : Unmoved(v) /\ Notes(v)

LEMMA QuietDisk ==
  ASSUME DiskOK, disk' = disk
  PROVE  /\ DiskOK'
         /\ \A p \in Projects : disk[p].dirs \subseteq disk'[p].dirs
         /\ \A v \in Terminals : touched'[v] = touched[v] => Notes(v)
BY DEF DiskOK, Notes

LEMMA ShelfKept ==
  ASSUME ShelfInv, UNCHANGED <<shelf, shelfDir>>, broken => broken', NEW t \in Terminals,
         pc[t] # "gen" \/ broken', \A v \in Terminals \ {t} : Unmoved(v)
  PROVE  ShelfInv'
<1> SUFFICES ASSUME shelfDir, ~ broken', NEW f \in Files, shelf[f] # "full"
             PROVE  \E v \in Terminals : pc'[v] = "gen" /\ (f \in todo'[v] \/ opened'[v] = f)
  BY DEF ShelfInv
<1>1. PICK v \in Terminals : pc[v] = "gen" /\ (f \in todo[v] \/ opened[v] = f)
  BY DEF ShelfInv
<1>2. Unmoved(v)
  BY <1>1
<1> QED BY <1>1, <1>2 DEF Unmoved

(* A command that ends, however.                                           *)
Ends(t, where) ==
    /\ pc' = [pc EXCEPT ![t] = "ended"]
    /\ failedAt' = [failedAt EXCEPT ![t] = where]
    /\ todo' = [todo EXCEPT ![t] = {}] /\ opened' = [opened EXCEPT ![t] = "none"]
    /\ temp' \in [Terminals -> BOOLEAN] /\ wipe' \in [Terminals -> BOOLEAN]

LEMMA EndsSo ==
  ASSUME ScaffoldInv, NEW t \in Terminals, NEW where, Quit(t, where) \/ Leave(t, where)
  PROVE  Ends(t, where)
<1>1. PICK keeps \in BOOLEAN : EndWith(t, where, keeps)
  BY DEF Quit, Leave
<1>2. wipe' \in [Terminals -> BOOLEAN] /\ temp' \in [Terminals -> BOOLEAN]
  BY <1>1 DEF EndWith, ScaffoldInv, TypeOK
<1> QED BY <1>1, <1>2 DEF Ends, EndWith, Goto

LEMMA EndResult ==
  ASSUME ScaffoldInv, NEW t \in Terminals, NEW where, Ends(t, where),
         UNCHANGED <<cmd, shelf, shelfDir, external, cloned, disk, touched>>,
         broken' \in BOOLEAN, broken => broken', pc[t] = "gen" => broken',
         levels' \in [Terminals -> SUBSET Levels],
         mem' \in [Terminals -> [Files -> {"absent", "empty", "full"}]],
         out' \in [Terminals -> [Files -> {"absent", "empty", "rendered", "no value"}]],
         overlapped' \in [Terminals -> BOOLEAN],
         \A v \in Terminals \ {t} : /\ levels'[v] = levels[v] /\ mem'[v] = mem[v]
                                    /\ out'[v] = out[v] /\ overlapped'[v] = overlapped[v],
         where = "none" =>
             \/ cmd[t].list
             \/ pc[t] = "done" /\ out'[t] = out[t] /\ overlapped'[t] = overlapped[t]
  PROVE  Result(t)
<1>1. RestOK /\ DiskOK /\ TidyInv /\ ShelfInv /\ TerminalInv(t)
  BY TypeIs DEF ScaffoldInv, TerminalInv
<1>2. /\ pc' = [pc EXCEPT ![t] = "ended"]
      /\ failedAt' = [failedAt EXCEPT ![t] = where]
      /\ todo' = [todo EXCEPT ![t] = {}] /\ opened' = [opened EXCEPT ![t] = "none"]
  BY DEF Ends
<1>3. failedAt = [v \in Terminals |-> failedAt[v]]
  BY <1>1 DEF TidyInv, ProcessShape
<1>4. temp' \in [Terminals -> BOOLEAN] /\ wipe' \in [Terminals -> BOOLEAN]
  BY DEF Ends
<1>5. RestOK'
  BY <1>1, <1>2, <1>4 DEF RestOK
<1>6. \A v \in Terminals \ {t} : Unmoved(v)
  BY <1>1, <1>2, <1>3 DEF Unmoved, RestOK
<1>7. /\ pc'[t] = "ended" /\ failedAt'[t] = where /\ todo'[t] = {} /\ opened'[t] = "none"
      /\ cmd'[t] = cmd[t]
  BY <1>1, <1>2, <1>3 DEF RestOK
<1>8. ShelfInv'
  BY <1>1, <1>6, ShelfKept
<1>9. StageInv(t)'
  BY <1>7 DEF StageInv
<1>10. Succeeded(t)' => pc[t] = "done" /\ out'[t] = out[t] /\ overlapped'[t] = overlapped[t]
  BY <1>7 DEF Succeeded
<1>11. ReadInv(t)'
  BY <1>1, <1>7, <1>10 DEF ReadInv, TerminalInv, Excused, Whole
<1>12. WriteInv(t)'
  <2> SUFFICES ASSUME Succeeded(t)' PROVE WriteInv(t)'
    BY <1>7 DEF WriteInv
  <2>1. pc[t] = "done" /\ out'[t] = out[t]
    BY <1>10
  <2>2. todo[t] = {} /\ opened[t] = "none" /\ WalkOf(out[t])' = WalkOf(out[t])
    BY <1>1, <2>1 DEF TerminalInv, StageInv, WalkOf
  <2> QED BY <1>1, <1>7, <2>1, <2>2 DEF WriteInv, TerminalInv
<1>13. Grows /\ DiskOK' /\ \A v \in Terminals \ {t} : Notes(v)
  BY <1>1, QuietDisk DEF Grows
<1> QED BY <1>5, <1>6, <1>8, <1>9, <1>11, <1>12, <1>13 DEF Result, TerminalInv

(* A command that goes on, and writes neither a shelf nor a project.       *)
LEMMA GoResult ==
  ASSUME ScaffoldInv, NEW t \in Terminals, NEW where, where # "ended", Goto(t, where),
         UNCHANGED <<cmd, shelf, shelfDir, broken, disk, touched, opened, failedAt>>,
         pc[t] # "gen", pc[t] # "write", where \notin {"write", "done"},
         RestOK', StageInv(t)', ReadInv(t)',
         \A v \in Terminals \ {t} :
             /\ todo'[v] = todo[v] /\ levels'[v] = levels[v] /\ mem'[v] = mem[v]
             /\ out'[v] = out[v]
             /\ overlapped[v] => overlapped'[v]
  PROVE  Result(t)
<1>1. RestOK /\ DiskOK /\ ShelfInv
  BY TypeIs DEF ScaffoldInv
<1>2. pc' = [pc EXCEPT ![t] = where]
  BY DEF Goto
<1>3. \A v \in Terminals \ {t} : Unmoved(v)
  BY <1>1, <1>2 DEF Unmoved, RestOK
<1>4. pc'[t] = where
  BY <1>1, <1>2 DEF RestOK
<1>5. ShelfInv'
  BY <1>1, <1>3, ShelfKept
<1>6. WriteInv(t)'
  BY <1>4 DEF WriteInv, Succeeded
<1>7. Grows /\ DiskOK' /\ \A v \in Terminals \ {t} : Notes(v)
  BY <1>1, QuietDisk DEF Grows
<1> QED BY <1>3, <1>5, <1>6, <1>7 DEF Result, TerminalInv

-----------------------------------------------------------------------------
(* What a command reads.                                                   *)
LEMMA ReaderStays ==
  ASSUME ScaffoldInv, NEW t \in Terminals,
         Quit(t, "list") \/ Quit(t, "none") \/ Quit(t, "read") \/ Quit(t, "choose"),
         UNCHANGED <<cmd, shelves, disk, out, touched>>, pc[t] # "gen",
         levels' = levels \/ levels' = [levels EXCEPT ![t] = {}],
         mem' = mem, overlapped' \in [Terminals -> BOOLEAN],
         \A v \in Terminals \ {t} : overlapped'[v] = overlapped[v],
         Quit(t, "none") => cmd[t].list
  PROVE  Result(t)
<1>1. PICK where : Quit(t, where) /\ (where = "none" => Quit(t, "none"))
  OBVIOUS
<1>2. Ends(t, where)
  BY <1>1, EndsSo
<1>3. RestOK
  BY TypeIs DEF ScaffoldInv
<1>4. levels' \in [Terminals -> SUBSET Levels]
      /\ \A v \in Terminals \ {t} : levels'[v] = levels[v]
  BY <1>3 DEF RestOK
<1> QED BY <1>1, <1>2, <1>3, <1>4, EndResult DEF RestOK, shelves

LEMMA SeenIs ==
  ASSUME ScaffoldInv, NEW t \in Terminals, NEW f \in Files
  PROVE  Seen(t, f) \in {"absent", "empty", "full"}
<1>1. /\ shelf[f] \in {"absent", "empty", "full"} /\ external[f] \in {"absent", "empty", "full"}
      /\ cmd[t] \in Commands
  BY DEF ScaffoldInv, TypeOK
<1>2. cmd[t].source \in {"internal", "url", "official"}
  BY <1>1, CommandIs
<1> QED BY <1>1, <1>2 DEF Seen

(* All of a shelf is there or nothing, unless it is being changed.         *)
LEMMA SeenWhole ==
  ASSUME ScaffoldInv, NEW t \in Terminals, pc[t] \in {"list", "choose", "read"},
         ~ (cmd[t].source = "internal" /\ (broken \/ Meets(t))),
         ~ (cmd[t].source = "official" /\ overlapped[t])
  PROVE  \/ \A f \in Files : Seen(t, f) = "full"
         \/ \A f \in Files : Seen(t, f) = "absent"
<1>1. cmd[t] \in Commands
  BY DEF ScaffoldInv, TypeOK
<1>2. cmd[t].source \in {"internal", "url", "official"}
  BY <1>1, CommandIs
<1>3. CASE cmd[t].source = "internal"
  <2>1. shelfDir /\ ~ broken /\ ~ Meets(t)
    BY <1>3 DEF ScaffoldInv, StageInv
  <2>2. ~ \E v \in Terminals : pc[v] = "gen"
    BY <2>1 DEF Meets, Generating
  <2> QED BY <1>3, <2>1, <2>2 DEF ScaffoldInv, ShelfInv, Seen
<1>4. CASE cmd[t].source = "official"
  BY <1>4 DEF ScaffoldInv, PulledInv, Seen
<1>5. CASE cmd[t].source = "url"
  BY <1>5 DEF Seen
<1> QED BY <1>2, <1>3, <1>4, <1>5

LEMMA OverlapIs ==
  ASSUME ScaffoldInv, NEW t \in Terminals,
         overlapped' = [overlapped EXCEPT ![t] = @ \/ (cmd[t].source = "internal" /\ Meets(t))]
  PROVE  /\ overlapped' \in [Terminals -> BOOLEAN]
         /\ \A v \in Terminals \ {t} : overlapped'[v] = overlapped[v]
         /\ overlapped'[t] <=> (overlapped[t] \/ (cmd[t].source = "internal" /\ Meets(t)))
<1>1. overlapped \in [Terminals -> BOOLEAN]
  BY DEF ScaffoldInv, TypeOK
<1>2. \A x : (overlapped[t] \/ x) \in BOOLEAN
  BY <1>1
<1> QED BY <1>1, <1>2

LEMMA ListResult ==
  ASSUME ScaffoldInv, NEW t \in Terminals, List(t) PROVE Result(t)
<1>1. /\ RestOK /\ TerminalInv(t)
      /\ pc[t] = "list" /\ UNCHANGED <<shelves, disk, cmd, mem, out, touched>>
      /\ overlapped' = [overlapped EXCEPT ![t] = @ \/ (cmd[t].source = "internal" /\ Meets(t))]
  BY TypeIs DEF List, ScaffoldInv, TerminalInv
<1>2. /\ overlapped' \in [Terminals -> BOOLEAN]
      /\ \A v \in Terminals \ {t} : overlapped'[v] = overlapped[v]
      /\ overlapped'[t] <=> (overlapped[t] \/ (cmd[t].source = "internal" /\ Meets(t)))
  BY <1>1, OverlapIs
<1>3. CASE Seen(t, Manifest) = "absent"
  <2>1. Quit(t, "list") /\ levels' = levels
    BY <1>3 DEF List, NoTemplates
  <2>2. ~ Quit(t, "none")
    BY <1>1, <2>1, EndsSo DEF ScaffoldInv, TidyInv, ProcessShape, Ends
  <2> QED BY <1>1, <1>2, <2>1, <2>2, ReaderStays
<1>4. CASE Seen(t, Manifest) # "absent" /\ cmd[t].list
  <2>1. Quit(t, "none") /\ levels' = levels
    BY <1>4 DEF List
  <2> QED BY <1>1, <1>2, <1>4, <2>1, ReaderStays
<1>5. CASE Seen(t, Manifest) # "absent" /\ ~ cmd[t].list
  <2>1. /\ levels' = [levels EXCEPT ![t] = Answers(t)] /\ Goto(t, "choose")
        /\ UNCHANGED <<walk, wipe, temp, failedAt>>
    BY <1>5 DEF List
  <2>2. Answers(t) \in SUBSET Levels
    <3>1. cmd[t] \in Commands
      BY <1>1 DEF RestOK
    <3>2. cmd[t].params \in (SUBSET Levels) \cup {{"prompted"}}
      BY <3>1, CommandIs
    <3>3. Answers(t) \in {cmd[t].params, Levels, {}}
      BY DEF Answers
    <3>4. cmd[t].params = {"prompted"} => Answers(t) \in {Levels, {}}
      BY DEF Answers
    <3>5. cmd[t].params = {"prompted"} \/ cmd[t].params \in SUBSET Levels
      BY <3>2, Zenon
    <3> QED BY <3>3, <3>4, <3>5
  <2>3. RestOK'
    BY <1>1, <1>2, <2>1, <2>2 DEF RestOK, Goto, shelves, walk
  <2>4. /\ pc'[t] = "choose" /\ todo'[t] = todo[t] /\ opened'[t] = opened[t]
        /\ levels'[t] = Answers(t)
        /\ \A v \in Terminals \ {t} : levels'[v] = levels[v]
    BY <1>1, <2>1 DEF RestOK, Goto, walk
  <2>5. StageInv(t)'
    BY <1>1, <2>4 DEF StageInv, TerminalInv, shelves
  <2>6. ReadInv(t)'
    <3> SUFFICES ASSUME cmd[t].params = {"prompted"}, ~ Excused(t)' PROVE levels'[t] = Levels
      BY <1>1, <2>4 DEF ReadInv, Succeeded
    <3>1. /\ ~ (cmd[t].source = "internal" /\ (broken \/ Meets(t)))
          /\ ~ (cmd[t].source = "official" /\ overlapped[t])
      BY <1>1, <1>2 DEF Excused, shelves
    <3>2. Seen(t, Manifest) = "full"
      BY <1>1, <1>5, <3>1, SeenWhole, TemplateAssumption
    <3> QED BY <2>4, <3>2 DEF Answers
  <2> QED BY <1>1, <1>2, <2>1, <2>3, <2>4, <2>5, <2>6, GoResult DEF shelves, walk
<1> QED BY <1>3, <1>4, <1>5

LEMMA ChooseResult ==
  ASSUME ScaffoldInv, NEW t \in Terminals, Choose(t) PROVE Result(t)
<1>1. /\ RestOK /\ TerminalInv(t)
      /\ pc[t] = "choose"
      /\ UNCHANGED <<shelves, disk, cmd, opened, wipe, levels, mem, out, touched>>
      /\ overlapped' = [overlapped EXCEPT ![t] = @ \/ (cmd[t].source = "internal" /\ Meets(t))]
      /\ todo' = [todo EXCEPT ![t] = {f \in Files : Seen(t, f) # "absent"}]
  BY TypeIs DEF Choose, ScaffoldInv, TerminalInv
<1>2. /\ overlapped' \in [Terminals -> BOOLEAN]
      /\ \A v \in Terminals \ {t} : overlapped'[v] = overlapped[v]
      /\ overlapped'[t] <=> (overlapped[t] \/ (cmd[t].source = "internal" /\ Meets(t)))
  BY <1>1, OverlapIs
<1>3. /\ todo'[t] = {f \in Files : Seen(t, f) # "absent"}
      /\ \A v \in Terminals \ {t} : todo'[v] = todo[v]
      /\ todo' \in [Terminals -> SUBSET (Files \cup Dirs)]
  BY <1>1 DEF RestOK
<1>4. CASE todo'[t] = {}
  <2>1. /\ pc' = [pc EXCEPT ![t] = "ended"] /\ failedAt' = [failedAt EXCEPT ![t] = "choose"]
        /\ temp' = [temp EXCEPT ![t] = FALSE]
    BY <1>4 DEF Choose, Goto
  <2>2. todo' = [todo EXCEPT ![t] = {}]
    BY <1>1, <1>3, <1>4
  <2>3. opened' = [opened EXCEPT ![t] = "none"]
    BY <1>1 DEF TerminalInv, StageInv, RestOK
  <2>4. temp' \in [Terminals -> BOOLEAN] /\ wipe' \in [Terminals -> BOOLEAN]
    BY <1>1, <2>1 DEF RestOK
  <2>5. Ends(t, "choose")
    BY <2>1, <2>2, <2>3, <2>4 DEF Ends
  <2> QED BY <1>1, <1>2, <2>5, EndResult DEF RestOK, shelves
<1>5. CASE todo'[t] # {}
  <2>1. Goto(t, "read") /\ UNCHANGED <<temp, failedAt>>
    BY <1>5 DEF Choose
  <2>2. RestOK'
    BY <1>1, <1>2, <1>3, <2>1 DEF RestOK, Goto, shelves
  <2>3. pc'[t] = "read"
    BY <1>1, <2>1 DEF RestOK, Goto
  <2>4. StageInv(t)'
    BY <1>1, <1>3, <1>5, <2>3 DEF StageInv, TerminalInv, shelves
  <2>5. ReadInv(t)'
    <3> SUFFICES ASSUME cmd[t].params = {"prompted"}, ~ Excused(t)'
                 PROVE  levels[t] = Levels /\ todo'[t] = Files
      BY <1>1, <2>3 DEF ReadInv, Succeeded
    <3>1. /\ ~ (cmd[t].source = "internal" /\ (broken \/ Meets(t))) /\ ~ Excused(t)
          /\ ~ (cmd[t].source = "official" /\ overlapped[t])
      BY <1>1, <1>2 DEF Excused, shelves
    <3>2. \A f \in Files : Seen(t, f) = "full"
      BY <1>1, <1>3, <1>5, <3>1, SeenWhole
    <3> QED BY <1>1, <1>3, <3>1, <3>2 DEF TerminalInv, ReadInv
  <2> QED BY <1>1, <1>2, <1>3, <2>1, <2>2, <2>4, <2>5, GoResult DEF shelves
<1> QED BY <1>4, <1>5

LEMMA ReadResult ==
  ASSUME ScaffoldInv, NEW t \in Terminals, Read(t) PROVE Result(t)
<1>1. /\ RestOK /\ TerminalInv(t)
      /\ pc[t] = "read" /\ UNCHANGED <<shelves, disk, cmd, levels, out, touched>>
      /\ overlapped' = [overlapped EXCEPT ![t] = @ \/ (cmd[t].source = "internal" /\ Meets(t))]
  BY TypeIs DEF Read, ScaffoldInv, TerminalInv
<1>2. /\ overlapped' \in [Terminals -> BOOLEAN]
      /\ \A v \in Terminals \ {t} : overlapped'[v] = overlapped[v]
      /\ overlapped'[t] <=> (overlapped[t] \/ (cmd[t].source = "internal" /\ Meets(t)))
  BY <1>1, OverlapIs
<1>3. PICK f : f = First(todo[t])
  OBVIOUS
<1>4. todo[t] # {} /\ todo[t] \subseteq Files /\ f \in todo[t]
  <2>1. todo[t] # {} /\ todo[t] \subseteq Files
    BY <1>1 DEF TerminalInv, StageInv
  <2> QED BY <1>3, <2>1, FirstIs
<1>5. CASE Seen(t, f) = "absent"
  <2>1. Quit(t, "read") /\ mem' = mem
    BY <1>3, <1>5 DEF Read
  <2>2. ~ Quit(t, "none")
    BY <1>1, <2>1, EndsSo DEF ScaffoldInv, TidyInv, ProcessShape, Ends
  <2> QED BY <1>1, <1>2, <2>1, <2>2, ReaderStays
<1>6. CASE Seen(t, f) # "absent"
  <2>1. /\ mem' = [mem EXCEPT ![t][f] = Seen(t, f)]
        /\ todo' = [todo EXCEPT ![t] = @ \ {f}]
        /\ Goto(t, IF todo[t] = {f} THEN "render" ELSE "read")
        /\ UNCHANGED <<opened, wipe, temp, failedAt>>
    BY <1>3, <1>6 DEF Read
  <2>2. PICK where \in {"read", "render"} :
          Goto(t, where) /\ (where = "render" <=> todo[t] = {f})
    BY <2>1
  <2>3. /\ mem' \in [Terminals -> [Files -> {"absent", "empty", "full"}]]
        /\ \A v \in Terminals \ {t} : mem'[v] = mem[v]
        /\ \A g \in Files : mem'[t][g] = IF g = f THEN Seen(t, f) ELSE mem[t][g]
    BY <1>1, <1>4, <2>1, SeenIs DEF RestOK
  <2>4. /\ todo'[t] = todo[t] \ {f} /\ todo' \in [Terminals -> SUBSET (Files \cup Dirs)]
        /\ \A v \in Terminals \ {t} : todo'[v] = todo[v]
    BY <1>1, <2>1 DEF RestOK
  <2>5. RestOK'
    BY <1>1, <1>2, <2>1, <2>2, <2>3, <2>4 DEF RestOK, Goto, shelves
  <2>6. pc'[t] = where
    BY <1>1, <2>2 DEF RestOK, Goto
  <2>7. StageInv(t)'
    BY <1>1, <1>4, <2>1, <2>2, <2>4, <2>6 DEF StageInv, TerminalInv, shelves
  <2>8. ReadInv(t)'
    <3> SUFFICES ASSUME cmd[t].params = {"prompted"}, ~ Excused(t)'
                 PROVE  levels[t] = Levels /\ \A g \in Files \ todo'[t] : mem'[t][g] = "full"
      BY <1>1, <2>6 DEF ReadInv, Succeeded
    <3>1. /\ ~ (cmd[t].source = "internal" /\ (broken \/ Meets(t))) /\ ~ Excused(t)
          /\ ~ (cmd[t].source = "official" /\ overlapped[t])
      BY <1>1, <1>2 DEF Excused, shelves
    <3>2. Seen(t, f) = "full"
      BY <1>1, <1>4, <1>6, <3>1, SeenWhole
    <3>3. levels[t] = Levels /\ \A g \in Files \ todo[t] : mem[t][g] = "full"
      BY <1>1, <3>1 DEF TerminalInv, ReadInv
    <3>4. \A g \in Files \ todo'[t] : mem'[t][g] = "full"
      BY <2>3, <2>4, <3>2, <3>3
    <3> QED BY <3>3, <3>4
  <2> QED BY <1>1, <1>2, <2>1, <2>2, <2>3, <2>4, <2>5, <2>7, <2>8, GoResult DEF shelves
<1> QED BY <1>5, <1>6

-----------------------------------------------------------------------------
(* What a command renders.                                                 *)
LEMMA RenderedIs ==
  ASSUME NEW t
  PROVE  Rendered(t) \in [Files -> {"absent", "empty", "rendered", "no value"}]
<1>1. \A f \in Files : Rendered(t)[f] \in {"absent", "empty", "rendered", "no value"}
  BY DEF Rendered
<1>2. Rendered(t) = [f \in Files |-> Rendered(t)[f]]
  BY DEF Rendered
<1> QED BY <1>1, <1>2

LEMMA RenderedWhole ==
  ASSUME NEW t, levels[t] = Levels, \A f \in Files : mem[t][f] = "full",
         NEW f \in Files \ {Manifest}
  PROVE  Rendered(t)[f] = "rendered"
<1>1. DirOf[f] \in Dirs
  BY DEF Dirs
<1>2. ~ Skipped(t, f)
  BY <1>1 DEF Skipped, IsStackDir, Levels
<1>3. Needs[f] \subseteq LevelsAt(t, DirOf[f])
  <2> SUFFICES ASSUME NEW n \in Needs[f] PROVE n \in LevelsAt(t, DirOf[f])
    OBVIOUS
  <2>1. n = "project" \/ (n = DirOf[f] /\ n # Root /\ \E s \in StackFiles : DirOf[s] = n)
    BY TemplateAssumption
  <2>2. CASE n = "project"
    BY <2>2 DEF LevelsAt, Levels
  <2>3. CASE n = DirOf[f] /\ n # Root /\ \E s \in StackFiles : DirOf[s] = n
    <3>1. IsStackDir(t, DirOf[f])
      BY <2>3, TemplateAssumption DEF IsStackDir
    <3> QED BY <1>1, <2>3, <3>1 DEF LevelsAt, Levels
  <2> QED BY <2>1, <2>2, <2>3
<1> QED BY <1>2, <1>3 DEF Rendered

LEMMA WalkIs ==
  ASSUME NEW result
  PROVE  /\ WalkOf(result) \in SUBSET (Files \cup Dirs)
         /\ \A f \in Files : f \in WalkOf(result) => result[f] # "absent"
         /\ \A f \in Files : result[f] # "absent" => DirOf[f] \in WalkOf(result)
<1>1. \A f \in Files : DirOf[f] \in Dirs /\ DirOf[f] \notin Files
  BY TemplateAssumption DEF Dirs
<1>2. Root \in Dirs /\ Root \notin Files
  BY TemplateAssumption DEF Dirs
<1> QED BY <1>1, <1>2 DEF WalkOf

LEMMA RenderResult ==
  ASSUME ScaffoldInv, NEW t \in Terminals, Render(t) PROVE Result(t)
<1>1. /\ RestOK /\ TerminalInv(t) /\ DiskOK /\ ShelfInv
      /\ pc[t] = "render" /\ UNCHANGED <<shelves, disk, cmd, overlapped, touched>>
      /\ out' = [out EXCEPT ![t] = Rendered(t)]
      /\ mem' = [mem EXCEPT ![t] = Blank] /\ levels' = [levels EXCEPT ![t] = {}]
  BY TypeIs DEF Render, ScaffoldInv, TerminalInv
<1>2. /\ out' \in [Terminals -> [Files -> {"absent", "empty", "rendered", "no value"}]]
      /\ out'[t] = Rendered(t)
      /\ \A v \in Terminals \ {t} : out'[v] = out[v]
  BY <1>1, RenderedIs DEF RestOK
<1>3. Blank \in [Files -> {"absent", "empty", "full"}]
  BY DEF Blank
<1>4. /\ mem' \in [Terminals -> [Files -> {"absent", "empty", "full"}]]
      /\ levels' \in [Terminals -> SUBSET Levels]
      /\ \A v \in Terminals \ {t} : mem'[v] = mem[v] /\ levels'[v] = levels[v]
  BY <1>1, <1>3 DEF RestOK
<1>5. CASE Rendered(t) = Blank
  <2>1. Ends(t, "render")
    BY <1>5, EndsSo DEF Render
  <2> QED BY <1>1, <1>2, <1>4, <2>1, EndResult DEF RestOK, shelves
<1>6. CASE Rendered(t) # Blank
  <2>1. /\ todo' = [todo EXCEPT ![t] = WalkOf(Rendered(t))] /\ Goto(t, "write")
        /\ UNCHANGED <<opened, wipe, temp, failedAt>>
    BY <1>6 DEF Render
  <2>2. /\ todo' \in [Terminals -> SUBSET (Files \cup Dirs)]
        /\ todo'[t] = WalkOf(out'[t])
        /\ \A v \in Terminals \ {t} : todo'[v] = todo[v]
    BY <1>1, <1>2, <2>1, WalkIs DEF RestOK
  <2>3. pc' = [pc EXCEPT ![t] = "write"] /\ pc'[t] = "write" /\ opened'[t] = "none"
    BY <1>1, <2>1 DEF RestOK, Goto, TerminalInv, StageInv
  <2>4. RestOK'
    BY <1>1, <1>2, <1>4, <2>1, <2>2, <2>3 DEF RestOK, shelves
  <2>5. \A v \in Terminals \ {t} : Unmoved(v)
    BY <1>1, <1>2, <1>4, <2>1, <2>2, <2>3 DEF Unmoved, RestOK
  <2>6. ShelfInv'
    BY <1>1, <2>5, ShelfKept DEF shelves
  <2>7. StageInv(t)'
    BY <2>2, <2>3 DEF StageInv
  <2>8. ReadInv(t)'
    <3> SUFFICES ASSUME cmd[t].params = {"prompted"}, ~ Excused(t)' PROVE Whole(t)'
      BY <1>1, <2>3 DEF ReadInv
    <3>1. ~ Excused(t)
      BY <1>1 DEF Excused, shelves
    <3>2. levels[t] = Levels /\ \A f \in Files : mem[t][f] = "full"
      BY <1>1, <3>1 DEF TerminalInv, ReadInv, StageInv
    <3> QED BY <1>2, <3>2, RenderedWhole DEF Whole
  <2>9. WriteInv(t)'
    <3>1. \A d \in Dirs \ todo'[t] : d \notin WalkOf(out'[t])
      BY <2>2
    <3>2. \A f \in Files \ todo'[t] : out'[t][f] = "absent"
      <4>1. \A f \in Files : out'[t][f] # "absent" => f \in WalkOf(out'[t])
        BY DEF WalkOf
      <4> QED BY <2>2, <4>1
    <3>3. WalkOf(out[t])' = WalkOf(out'[t])
      BY DEF WalkOf
    <3> QED BY <2>3, <3>1, <3>2, <3>3 DEF WriteInv
  <2>10. Grows /\ DiskOK' /\ \A v \in Terminals \ {t} : Notes(v)
    BY <1>1, QuietDisk DEF Grows, shelves
  <2> QED BY <2>4, <2>5, <2>6, <2>7, <2>8, <2>9, <2>10 DEF Result, TerminalInv
<1> QED BY <1>5, <1>6

-----------------------------------------------------------------------------
(* The shelves.                                                            *)
LEMMA RetrieveResult ==
  ASSUME ScaffoldInv, NEW t \in Terminals,
         ValidateOptions(t) \/ Download(t) \/ Inspect(t) \/ Cleaned(t)
  PROVE  Result(t)
<1>1. RestOK /\ TerminalInv(t)
  BY TypeIs DEF ScaffoldInv, TerminalInv
<1>2. /\ UNCHANGED <<cmd, shelf, shelfDir, external, cloned, broken, disk, touched, opened, failedAt,
                     todo, levels, mem, out, overlapped>>
      /\ pc[t] \in {"validate", "retrieve", "cleanup"}
      /\ \E where \in {"mkdir", "list", "fetch", "cleanup"} :
           /\ Goto(t, where)
           /\ where = "mkdir" => pc[t] = "validate"
           /\ where \in {"cleanup", "fetch"} => pc[t] \in {"retrieve", "cleanup"}
           /\ where = "list" => shelfDir
  <2>1. CASE ValidateOptions(t)
    BY <2>1 DEF ValidateOptions, NeedsGeneration, shelves, walk, memory
  <2>2. CASE Download(t)
    BY <2>2 DEF Download, shelves, walk, memory
  <2>3. CASE Inspect(t)
    BY <2>3 DEF Inspect, shelves, walk
  <2>4. CASE Cleaned(t)
    BY <2>4 DEF Cleaned, shelves, walk
  <2> QED BY <2>1, <2>2, <2>3, <2>4
<1>3. PICK where \in {"mkdir", "list", "fetch", "cleanup"} :
        /\ Goto(t, where)
        /\ where = "mkdir" => pc[t] = "validate"
        /\ where \in {"cleanup", "fetch"} => pc[t] \in {"retrieve", "cleanup"}
        /\ where = "list" => shelfDir
  BY <1>2
<1>4. pc' = [pc EXCEPT ![t] = where] /\ pc'[t] = where
  BY <1>1, <1>3 DEF Goto, RestOK
<1>5. temp' \in [Terminals -> BOOLEAN] /\ wipe' \in [Terminals -> BOOLEAN]
  BY <1>1 DEF ValidateOptions, Download, Inspect, Cleaned, RestOK, memory
<1>6. RestOK'
  BY <1>1, <1>2, <1>4, <1>5 DEF RestOK
<1>7. StageInv(t)' /\ ReadInv(t)'
  BY <1>1, <1>2, <1>3, <1>4 DEF StageInv, ReadInv, TerminalInv, Succeeded
<1> QED BY <1>2, <1>3, <1>6, <1>7, GoResult

(* A step of the removal or the checkout of the official templates.        *)
LEMMA OfficialResult ==
  ASSUME ScaffoldInv, NEW t \in Terminals, NEW where \in {"cleanup", "checkout", "list"},
         Goto(t, where), pc[t] \in {"cleanup", "fetch", "checkout"},
         UNCHANGED <<cmd, shelf, shelfDir, broken, disk, wipe, levels, mem, out, temp, failedAt,
                     touched>>,
         external' \in [Files -> {"absent", "empty", "full"}], cloned' \in BOOLEAN,
         todo' \in [Terminals -> SUBSET (Files \cup Dirs)], todo'[t] \subseteq Files,
         opened' \in [Terminals -> Files \cup {"none"}],
         overlapped' \in [Terminals -> BOOLEAN],
         \A v \in Terminals \ {t} : /\ todo'[v] = todo[v] /\ opened'[v] = opened[v]
                                    /\ overlapped[v] => overlapped'[v],
         where # "checkout" => todo'[t] = {} /\ opened'[t] = "none",
         where = "cleanup" => pc[t] = "cleanup",
         where = "checkout" => cmd[t].source = "official"
  PROVE  Result(t)
<1>1. RestOK /\ DiskOK /\ TerminalInv(t) /\ ShelfInv
      /\ failedAt = [v \in Terminals |-> failedAt[v]]
  BY TypeIs DEF ScaffoldInv, TerminalInv, TidyInv, ProcessShape
<1>2. pc' = [pc EXCEPT ![t] = where] /\ pc'[t] = where
  BY <1>1 DEF Goto, RestOK
<1>3. RestOK'
  BY <1>1, <1>2 DEF RestOK
<1>4. \A v \in Terminals \ {t} : Unmoved(v)
  BY <1>1, <1>2 DEF Unmoved, RestOK
<1>5. ShelfInv'
  BY <1>1, <1>4, ShelfKept
<1>6. cmd[t].source # "internal"
  BY <1>1 DEF TerminalInv, StageInv
<1>7. StageInv(t)' /\ ReadInv(t)' /\ WriteInv(t)'
  BY <1>1, <1>2, <1>6 DEF StageInv, ReadInv, WriteInv, TerminalInv, Succeeded
<1>8. Grows /\ DiskOK' /\ \A v \in Terminals \ {t} : Notes(v)
  BY <1>1, QuietDisk DEF Grows
<1> QED BY <1>3, <1>4, <1>5, <1>7, <1>8 DEF Result, TerminalInv

LEMMA DisturbedIs ==
  ASSUME RestOK, NEW t \in Terminals, overlapped' = Disturbed(t)
  PROVE  /\ overlapped' \in [Terminals -> BOOLEAN]
         /\ overlapped'[t] = overlapped[t]
         /\ \A v \in Terminals \ {t} : /\ overlapped[v] => overlapped'[v]
                                       /\ Counts(v) => overlapped'[v]
<1>1. \A v \in Terminals : overlapped[v] \in BOOLEAN
  BY DEF RestOK
<1>2. \A v \in Terminals : (overlapped[v] \/ (v # t /\ Counts(v))) \in BOOLEAN
  OBVIOUS
<1> QED BY <1>1, <1>2 DEF Disturbed

LEMMA CleanupResult ==
  ASSUME ScaffoldInv, NEW t \in Terminals, Cleanup(t) PROVE Result(t)
<1>1. RestOK /\ TerminalInv(t) /\ pc[t] = "cleanup"
  BY TypeIs DEF ScaffoldInv, TerminalInv, Cleanup
<1>2. Goto(t, "cleanup")
  BY <1>1 DEF Cleanup, Goto, RestOK
<1>3. external' \in [Files -> {"absent", "empty", "full"}] /\ cloned' \in BOOLEAN
  BY <1>1 DEF Cleanup, RestOK
<1>4. UNCHANGED <<cmd, shelf, shelfDir, broken, disk, wipe, levels, mem, out, temp, failedAt,
                  touched, todo, opened>>
  BY DEF Cleanup, walk
<1>5. todo[t] = {} /\ opened[t] = "none"
  BY <1>1 DEF TerminalInv, StageInv
<1>6. overlapped' = Disturbed(t)
  BY DEF Cleanup
<1> QED BY <1>1, <1>2, <1>3, <1>4, <1>5, <1>6, DisturbedIs, OfficialResult DEF RestOK

LEMMA FetchResult ==
  ASSUME ScaffoldInv, NEW t \in Terminals, Fetch(t) PROVE Result(t)
<1>1. RestOK /\ TerminalInv(t) /\ pc[t] = "fetch"
  BY TypeIs DEF ScaffoldInv, TerminalInv, Fetch
<1>2. UNCHANGED <<cmd, shelf, shelfDir, external, broken, disk, wipe, levels, mem, out, temp,
                  failedAt, touched, opened, overlapped>>
  BY DEF Fetch, memory
<1>3. todo[t] = {} /\ opened[t] = "none"
  BY <1>1 DEF TerminalInv, StageInv
<1>4. CASE cmd[t].source = "official"
  <2>1. PICK upstream \in SUBSET Files : todo' = [todo EXCEPT ![t] = CheckoutPlan(upstream)]
    BY <1>4 DEF Fetch
  <2>2. CheckoutPlan(upstream) \in SUBSET Files
    BY DEF CheckoutPlan
  <2>3. /\ todo' \in [Terminals -> SUBSET (Files \cup Dirs)] /\ todo'[t] \subseteq Files
        /\ \A v \in Terminals \ {t} : todo'[v] = todo[v]
    BY <1>1, <2>1, <2>2 DEF RestOK
  <2>4. PICK where \in {"checkout", "list"} :
          Goto(t, where) /\ (where = "list" <=> todo'[t] = {})
    BY <1>4 DEF Fetch
  <2>5. cloned' \in BOOLEAN
    BY <1>4 DEF Fetch
  <2> QED BY <1>1, <1>2, <1>3, <1>4, <2>3, <2>4, <2>5, OfficialResult DEF RestOK
<1>5. CASE cmd[t].source # "official"
  <2>1. Goto(t, "list") /\ UNCHANGED <<todo, cloned>>
    BY <1>5 DEF Fetch
  <2> QED BY <1>1, <1>2, <1>3, <2>1, OfficialResult DEF RestOK
<1> QED BY <1>4, <1>5

LEMMA CheckoutResult ==
  ASSUME ScaffoldInv, NEW t \in Terminals, CheckoutOpen(t) \/ CheckoutWrite(t) PROVE Result(t)
<1>1. /\ RestOK /\ TerminalInv(t) /\ pc[t] = "checkout"
      /\ todo[t] \subseteq Files /\ cmd[t].source = "official"
  BY TypeIs DEF ScaffoldInv, TerminalInv, StageInv, CheckoutOpen, CheckoutWrite
<1>2. CASE CheckoutOpen(t)
  <2>1. PICK f : f = First(todo[t])
    OBVIOUS
  <2>2. /\ todo[t] # {}
        /\ external' = [external EXCEPT ![f] = "empty"]
        /\ opened' = [opened EXCEPT ![t] = f]
        /\ todo' = [todo EXCEPT ![t] = @ \ {f}]
        /\ overlapped' = Disturbed(t)
        /\ UNCHANGED <<shelf, shelfDir, cloned, broken, disk, pc, cmd, wipe, levels, mem, out, temp,
                       failedAt, touched>>
    BY <1>2, <2>1 DEF CheckoutOpen
  <2>3. f \in todo[t] /\ f \in Files
    BY <1>1, <2>1, <2>2, FirstIs
  <2>4. Goto(t, "checkout")
    BY <1>1, <2>2 DEF Goto, RestOK
  <2>5. /\ todo' \in [Terminals -> SUBSET (Files \cup Dirs)] /\ todo'[t] \subseteq Files
        /\ opened' \in [Terminals -> Files \cup {"none"}]
        /\ external' \in [Files -> {"absent", "empty", "full"}]
        /\ \A v \in Terminals \ {t} : todo'[v] = todo[v] /\ opened'[v] = opened[v]
    BY <1>1, <2>2, <2>3 DEF RestOK
  <2> QED BY <1>1, <2>2, <2>4, <2>5, DisturbedIs, OfficialResult DEF RestOK
<1>3. CASE CheckoutWrite(t)
  <2>1. PICK f : f = opened[t]
    OBVIOUS
  <2>2. /\ external' = [external EXCEPT ![f] = IF @ = "absent" THEN @ ELSE "full"]
        /\ opened' = [opened EXCEPT ![t] = "none"] /\ f # "none"
        /\ UNCHANGED <<shelf, shelfDir, cloned, broken, disk, cmd, todo, wipe, levels, mem, out,
                       overlapped, temp, failedAt, touched>>
    BY <1>3, <2>1 DEF CheckoutWrite, memory
  <2>3. PICK where \in {"checkout", "list"} :
          Goto(t, where) /\ (where = "list" <=> todo[t] = {})
    BY <1>3 DEF CheckoutWrite
  <2>4. f \in Files
    BY <1>1, <2>1, <2>2 DEF RestOK
  <2>5. /\ opened' \in [Terminals -> Files \cup {"none"}] /\ opened'[t] = "none"
        /\ external' \in [Files -> {"absent", "empty", "full"}]
        /\ \A v \in Terminals \ {t} : opened'[v] = opened[v]
    BY <1>1, <2>2, <2>4 DEF RestOK
  <2>6. /\ todo' \in [Terminals -> SUBSET (Files \cup Dirs)] /\ todo'[t] \subseteq Files
        /\ cloned' \in BOOLEAN /\ overlapped' \in [Terminals -> BOOLEAN]
        /\ \A v \in Terminals \ {t} : todo'[v] = todo[v] /\ overlapped'[v] = overlapped[v]
    BY <1>1, <2>2 DEF RestOK
  <2>7. where # "checkout" => todo'[t] = {} /\ opened'[t] = "none"
    BY <2>2, <2>3, <2>5
  <2> QED BY <1>1, <2>2, <2>3, <2>5, <2>6, <2>7, OfficialResult
<1> QED BY <1>2, <1>3

(* A step of a generation: every file is covered by who has it to write.   *)
LEMMA ShelfResult ==
  ASSUME ScaffoldInv, NEW t \in Terminals, NEW where \in {"gen", "list"}, Goto(t, where),
         pc[t] \in {"mkdir", "gen"},
         UNCHANGED <<external, cloned, broken, disk, cmd, memory, temp, failedAt, touched>>,
         shelf' \in [Files -> {"absent", "empty", "full"}], shelfDir' = TRUE,
         todo' \in [Terminals -> SUBSET (Files \cup Dirs)], todo'[t] \subseteq Files,
         opened' \in [Terminals -> Files \cup {"none"}],
         \A v \in Terminals \ {t} : todo'[v] = todo[v] /\ opened'[v] = opened[v],
         where = "list" => todo'[t] = {} /\ opened'[t] = "none",
         \A f \in Files :
           \/ shelf'[f] = "full"
           \/ where = "gen" /\ (f \in todo'[t] \/ opened'[t] = f)
           \/ /\ shelf'[f] = shelf[f] /\ shelfDir
              /\ pc[t] = "gen" => f \notin todo[t] /\ opened[t] # f
  PROVE  Result(t)
<1>1. RestOK /\ DiskOK /\ TerminalInv(t) /\ ShelfInv
      /\ failedAt = [v \in Terminals |-> failedAt[v]]
  BY TypeIs DEF ScaffoldInv, TerminalInv, TidyInv, ProcessShape
<1>2. pc' = [pc EXCEPT ![t] = where] /\ pc'[t] = where
  BY <1>1 DEF Goto, RestOK
<1>3. RestOK'
  BY <1>1, <1>2 DEF RestOK, memory
<1>4. \A v \in Terminals \ {t} : Unmoved(v)
  BY <1>1, <1>2 DEF Unmoved, RestOK, memory
<1>5. ShelfInv'
  <2> SUFFICES ASSUME ~ broken', NEW f \in Files, shelf'[f] # "full"
               PROVE  \E v \in Terminals : pc'[v] = "gen" /\ (f \in todo'[v] \/ opened'[v] = f)
    BY DEF ShelfInv
  <2>1. CASE where = "gen" /\ (f \in todo'[t] \/ opened'[t] = f)
    BY <1>2, <2>1
  <2>2. CASE /\ shelf'[f] = shelf[f] /\ shelfDir
             /\ pc[t] = "gen" => f \notin todo[t] /\ opened[t] # f
    <3>1. PICK v \in Terminals : pc[v] = "gen" /\ (f \in todo[v] \/ opened[v] = f)
      BY <1>1, <2>2 DEF ShelfInv
    <3>2. v # t
      BY <2>2, <3>1
    <3> QED BY <1>4, <3>1, <3>2 DEF Unmoved
  <2> QED BY <2>1, <2>2
<1>6. StageInv(t)' /\ ReadInv(t)' /\ WriteInv(t)'
  BY <1>1, <1>2 DEF StageInv, ReadInv, WriteInv, TerminalInv, Succeeded
<1>7. Grows /\ DiskOK' /\ \A v \in Terminals \ {t} : Notes(v)
  BY <1>1, QuietDisk DEF Grows
<1> QED BY <1>3, <1>4, <1>5, <1>6, <1>7 DEF Result, TerminalInv

LEMMA GenerateResult ==
  ASSUME ScaffoldInv, NEW t \in Terminals,
         MakeShelf(t) \/ GenerateOpen(t) \/ GenerateWrite(t)
  PROVE  Result(t)
<1>1. RestOK /\ TerminalInv(t)
  BY TypeIs DEF ScaffoldInv, TerminalInv
<1>2. CASE MakeShelf(t)
  <2>1. /\ todo' = [todo EXCEPT ![t] = Files] /\ Goto(t, "gen") /\ pc[t] = "mkdir"
        /\ UNCHANGED <<shelf, external, cloned, broken, disk, cmd, opened, memory, temp, failedAt,
                       touched>>
        /\ shelfDir' = TRUE
    BY <1>2 DEF MakeShelf, GenerationPlan
  <2>2. /\ todo' \in [Terminals -> SUBSET (Files \cup Dirs)] /\ todo'[t] = Files
        /\ \A v \in Terminals \ {t} : todo'[v] = todo[v] /\ opened'[v] = opened[v]
    BY <1>1, <2>1 DEF RestOK
  <2> QED BY <1>1, <2>1, <2>2, ShelfResult DEF RestOK
<1>3. CASE GenerateOpen(t)
  <2>1. PICK f : f = First(todo[t])
    OBVIOUS
  <2>2. /\ pc[t] = "gen" /\ opened[t] = "none" /\ todo[t] # {} /\ todo[t] \subseteq Files
        /\ shelfDir
        /\ shelf' = [shelf EXCEPT ![f] = "empty"]
        /\ opened' = [opened EXCEPT ![t] = f]
        /\ todo' = [todo EXCEPT ![t] = @ \ {f}]
        /\ UNCHANGED <<shelfDir, external, cloned, broken, disk, pc, cmd, memory, temp, failedAt,
                       touched>>
    BY <1>1, <1>3, <2>1 DEF GenerateOpen, TerminalInv, StageInv
  <2>3. f \in todo[t] /\ f \in Files
    BY <2>1, <2>2, FirstIs
  <2>4. Goto(t, "gen")
    BY <1>1, <2>2 DEF Goto, RestOK
  <2>5. /\ todo' \in [Terminals -> SUBSET (Files \cup Dirs)]
        /\ opened' \in [Terminals -> Files \cup {"none"}]
        /\ shelf' \in [Files -> {"absent", "empty", "full"}]
        /\ todo'[t] = todo[t] \ {f} /\ opened'[t] = f
        /\ \A v \in Terminals \ {t} : todo'[v] = todo[v] /\ opened'[v] = opened[v]
        /\ \A g \in Files \ {f} : shelf'[g] = shelf[g]
    BY <1>1, <2>2, <2>3 DEF RestOK
  <2>6. shelfDir' = TRUE
    BY <1>1, <2>2 DEF RestOK
  <2>7. \A g \in Files :
          \/ g \in todo'[t] \/ opened'[t] = g
          \/ shelf'[g] = shelf[g] /\ g \notin todo[t] /\ opened[t] # g
    BY <2>2, <2>5, TemplateAssumption
  <2> QED BY <2>2, <2>4, <2>5, <2>6, <2>7, ShelfResult
<1>4. CASE GenerateWrite(t)
  <2>1. PICK f : f = opened[t]
    OBVIOUS
  <2>2. /\ pc[t] = "gen" /\ f # "none" /\ todo[t] \subseteq Files /\ shelfDir
        /\ shelf' = [shelf EXCEPT ![f] = "full"]
        /\ opened' = [opened EXCEPT ![t] = "none"]
        /\ UNCHANGED <<shelfDir, external, cloned, broken, disk, cmd, todo, memory, temp, failedAt,
                       touched>>
    BY <1>1, <1>4, <2>1 DEF GenerateWrite, TerminalInv, StageInv
  <2>3. PICK where \in {"gen", "list"} : Goto(t, where) /\ (where = "list" <=> todo[t] = {})
    BY <1>4 DEF GenerateWrite
  <2>4. f \in Files
    BY <1>1, <2>1, <2>2 DEF RestOK
  <2>5. /\ opened' \in [Terminals -> Files \cup {"none"}]
        /\ shelf' \in [Files -> {"absent", "empty", "full"}]
        /\ opened'[t] = "none" /\ todo'[t] = todo[t]
        /\ \A v \in Terminals \ {t} : todo'[v] = todo[v] /\ opened'[v] = opened[v]
        /\ shelf'[f] = "full" /\ \A g \in Files \ {f} : shelf'[g] = shelf[g]
        /\ todo' \in [Terminals -> SUBSET (Files \cup Dirs)]
    BY <1>1, <2>2, <2>4 DEF RestOK
  <2>6. shelfDir' = TRUE
    BY <1>1, <2>2 DEF RestOK
  <2>7. \A g \in Files :
          \/ shelf'[g] = "full"
          \/ where = "gen" /\ g \in todo'[t]
          \/ shelf'[g] = shelf[g] /\ g \notin todo[t] /\ opened[t] # g
    BY <2>1, <2>3, <2>5
  <2> QED BY <2>2, <2>3, <2>5, <2>6, <2>7, ShelfResult
<1> QED BY <1>2, <1>3, <1>4

-----------------------------------------------------------------------------
(* The project as it is written.                                           *)
LEMMA WriteResult ==
  ASSUME ScaffoldInv, NEW t \in Terminals, NEW where \in {"write", "done"}, Goto(t, where),
         pc[t] = "write", UNCHANGED <<shelves, cmd, memory, temp, failedAt>>,
         touched' \in [Terminals -> SUBSET Files],
         todo' \in [Terminals -> SUBSET (Files \cup Dirs)], todo'[t] \subseteq todo[t],
         opened' \in [Terminals -> Files \cup {"none"}],
         opened'[t] # "none" => out[t][opened'[t]] # "absent",
         \A v \in Terminals \ {t} : todo'[v] = todo[v] /\ opened'[v] = opened[v] /\ Notes(v),
         where = "done" => todo'[t] = {} /\ opened'[t] = "none",
         DiskOK', \A p \in Projects : disk[p].dirs \subseteq disk'[p].dirs,
         \A d \in Dirs \ todo'[t] : d \in WalkOf(out[t]) => d \in disk'[cmd[t].project].dirs,
         \A f \in Files \ (touched'[t] \cup todo'[t]) :
             f # opened'[t] /\ out[t][f] # "absent" =>
                 disk'[cmd[t].project].file[f] = out[t][f],
         opened'[t] # "none" => DirOf[opened'[t]] \in disk'[cmd[t].project].dirs
  PROVE  Result(t)
<1>1. RestOK /\ DiskOK /\ TerminalInv(t) /\ ShelfInv
      /\ failedAt = [v \in Terminals |-> failedAt[v]]
  BY TypeIs DEF ScaffoldInv, TerminalInv, TidyInv, ProcessShape
<1>2. pc' = [pc EXCEPT ![t] = where] /\ pc'[t] = where
  BY <1>1 DEF Goto, RestOK
<1>3. RestOK'
  BY <1>1, <1>2 DEF RestOK, memory, shelves
<1>4. \A v \in Terminals \ {t} : Unmoved(v)
  BY <1>1, <1>2 DEF Unmoved, RestOK, memory
<1>5. ShelfInv'
  BY <1>1, <1>4, ShelfKept DEF shelves
<1>6. WalkOf(out[t])' = WalkOf(out[t]) /\ out'[t] = out[t]
  BY DEF memory, WalkOf
<1>7. StageInv(t)'
  BY <1>1, <1>2, <1>6 DEF StageInv, TerminalInv
<1>8. ReadInv(t)'
  BY <1>1, <1>2, <1>6 DEF ReadInv, TerminalInv, Excused, Whole, shelves, memory
<1>9. WriteInv(t)'
  BY <1>6 DEF WriteInv
<1>10. Grows
  BY DEF Grows, shelves
<1> QED BY <1>3, <1>4, <1>5, <1>7, <1>8, <1>9, <1>10 DEF Result, TerminalInv

LEMMA DiskStep ==
  ASSUME DiskOK, NEW p \in Projects, NEW f \in Files,
         NEW new \in {"absent", "empty", "rendered", "no value", "user"},
         DirOf[f] \in disk[p].dirs, disk'[p].file[f] = new,
         \A q \in Projects, g \in Files : q # p \/ g # f => disk'[q].file[g] = disk[q].file[g],
         \A q \in Projects : disk'[q].dirs = disk[q].dirs
  PROVE  DiskOK' /\ \A q \in Projects : disk[q].dirs \subseteq disk'[q].dirs
<1>1. ASSUME NEW q \in Projects, NEW g \in Files
      PROVE  /\ disk'[q].file[g] \in {"absent", "empty", "rendered", "no value", "user"}
             /\ disk'[q].file[g] # "absent" => DirOf[g] \in disk'[q].dirs
  <2>1. CASE q = p /\ g = f
    BY <2>1
  <2>2. CASE q # p \/ g # f
    BY <2>2 DEF DiskOK
  <2> QED BY <2>1, <2>2
<1>2. \A q \in Projects : disk'[q].dirs \subseteq Dirs /\ disk[q].dirs \subseteq disk'[q].dirs
  BY DEF DiskOK
<1> QED BY <1>1, <1>2 DEF DiskOK

LEMMA WriteStops ==
  ASSUME ScaffoldInv, NEW t \in Terminals, pc[t] = "write", Quit(t, "write"),
         UNCHANGED <<shelves, cmd, disk, touched, levels, mem, out, overlapped>>
  PROVE  Result(t)
<1>1. Ends(t, "write") /\ RestOK
  BY EndsSo, TypeIs DEF ScaffoldInv
<1> QED BY <1>1, EndResult DEF RestOK, shelves

LEMMA WriteDirResult ==
  ASSUME ScaffoldInv, NEW t \in Terminals, WriteDir(t) PROVE Result(t)
<1>1. /\ RestOK /\ DiskOK /\ TerminalInv(t) /\ DiskShape
      /\ pc[t] = "write" /\ opened[t] = "none" /\ todo[t] # {}
      /\ cmd[t].project \in Projects
      /\ UNCHANGED <<shelves, cmd, levels, mem, out, overlapped, touched>>
  BY TypeIs, ProjectIs DEF WriteDir, ScaffoldInv, TerminalInv, TidyInv
<1>2. PICK d \in Dirs : d = First(todo[t])
  BY DEF WriteDir
<1>3. PICK p \in Projects : p = cmd[t].project
  BY <1>1
<1>4. CASE Quit(t, "write") /\ disk' = disk
  BY <1>1, <1>4, WriteStops
<1>5. CASE /\ SetsDirs(p, disk[p].dirs \cup {d})
           /\ todo' = [todo EXCEPT ![t] = @ \ {d}]
           /\ UNCHANGED <<pc, opened, wipe, temp, failedAt>>
  <2>1. /\ \A q \in Projects, g \in Files : disk'[q].file[g] = disk[q].file[g]
        /\ disk'[p].dirs = disk[p].dirs \cup {d}
        /\ \A q \in Projects \ {p} : disk'[q].dirs = disk[q].dirs
    BY <1>1, <1>5, DirShape
  <2>2. DiskOK' /\ \A q \in Projects : disk[q].dirs \subseteq disk'[q].dirs
    <3>1. ASSUME NEW q \in Projects, NEW g \in Files
          PROVE  /\ disk'[q].file[g] \in {"absent", "empty", "rendered", "no value", "user"}
                 /\ disk'[q].file[g] # "absent" => DirOf[g] \in disk'[q].dirs
      <4>1. disk[q].dirs \subseteq disk'[q].dirs
        BY <2>1
      <4> QED BY <1>1, <2>1, <4>1 DEF DiskOK
    <3>2. ASSUME NEW q \in Projects
          PROVE  disk'[q].dirs \subseteq Dirs /\ disk[q].dirs \subseteq disk'[q].dirs
      <4>1. disk[q].dirs \subseteq Dirs
        BY <1>1 DEF DiskOK
      <4>2. CASE q = p
        BY <2>1, <4>1, <4>2
      <4>3. CASE q # p
        BY <2>1, <4>1, <4>3
      <4> QED BY <4>2, <4>3
    <3>3. DiskOK'
      BY <3>1, <3>2 DEF DiskOK
    <3> QED BY <3>2, <3>3
  <2>3. /\ todo' \in [Terminals -> SUBSET (Files \cup Dirs)] /\ todo'[t] = todo[t] \ {d}
        /\ \A v \in Terminals \ {t} : todo'[v] = todo[v]
    BY <1>1, <1>5 DEF RestOK
  <2>4. Goto(t, "write")
    BY <1>1, <1>5 DEF Goto, RestOK
  <2>5. \A v \in Terminals : cmd[v].project \in Projects
    BY ProjectIs DEF ScaffoldInv
  <2>6. \A v \in Terminals \ {t} : Notes(v)
    BY <1>1, <2>1, <2>5 DEF Notes
  <2>7. \A e \in Dirs \ todo'[t] : e \in WalkOf(out[t]) => e \in disk'[cmd[t].project].dirs
    BY <1>1, <1>3, <2>1, <2>3 DEF TerminalInv, WriteInv
  <2>8. \A f \in Files \ (touched'[t] \cup todo'[t]) :
          f # opened'[t] /\ out[t][f] # "absent" => disk'[cmd[t].project].file[f] = out[t][f]
    <3>1. d \notin Files
      BY TemplateAssumption
    <3> QED BY <1>1, <1>5, <2>1, <2>3, <3>1 DEF TerminalInv, WriteInv
  <2> QED BY <1>1, <1>5, <2>2, <2>3, <2>4, <2>6, <2>7, <2>8, WriteResult DEF RestOK, memory
<1> QED BY <1>2, <1>3, <1>4, <1>5 DEF WriteDir, SetsDirs

(* Who else has a command in the project has the file down as touched.     *)
LEMMA TouchesNotes ==
  ASSUME ScaffoldInv, NEW t \in Terminals, NEW p \in Projects, NEW f \in Files, NEW new,
         SetsFile(p, f, new), touched' = Touches(t, p, f)
  PROVE  /\ touched' \in [Terminals -> SUBSET Files] /\ touched'[t] = touched[t]
         /\ \A v \in Terminals \ {t} : Notes(v)
<1>1. /\ touched \in [Terminals -> SUBSET Files] /\ DiskShape
      /\ \A v \in Terminals : cmd[v].project \in Projects
  BY ProjectIs DEF ScaffoldInv, TypeOK, TidyInv
<1>2. \A q \in Projects, g \in Files : q # p \/ g # f => disk'[q].file[g] = disk[q].file[g]
  BY <1>1, FileShape
<1> QED BY <1>1, <1>2 DEF Touches, Notes

LEMMA WriteOpenResult ==
  ASSUME ScaffoldInv, NEW t \in Terminals, WriteOpen(t) PROVE Result(t)
<1>1. /\ RestOK /\ DiskOK /\ TerminalInv(t) /\ DiskShape
      /\ pc[t] = "write" /\ opened[t] = "none" /\ todo[t] # {}
      /\ cmd[t].project \in Projects
      /\ UNCHANGED <<shelves, cmd, levels, mem, out, overlapped>>
  BY TypeIs, ProjectIs DEF WriteOpen, ScaffoldInv, TerminalInv, TidyInv
<1>2. PICK f \in Files : f = First(todo[t])
  BY DEF WriteOpen
<1>3. PICK p \in Projects : p = cmd[t].project
  BY <1>1
<1>4. CASE Quit(t, "write") /\ UNCHANGED <<disk, touched>>
  BY <1>1, <1>4, WriteStops
<1>5. CASE /\ SetsFile(p, f, "empty")
           /\ opened' = [opened EXCEPT ![t] = f]
           /\ todo' = [todo EXCEPT ![t] = @ \ {f}]
           /\ touched' = Touches(t, p, f)
           /\ UNCHANGED <<pc, wipe, temp, failedAt>>
  <2>1. /\ disk'[p].file[f] = "empty"
        /\ \A q \in Projects, g \in Files : q # p \/ g # f => disk'[q].file[g] = disk[q].file[g]
        /\ \A q \in Projects : disk'[q].dirs = disk[q].dirs
    BY <1>1, <1>5, FileShape
  <2>2. /\ touched' \in [Terminals -> SUBSET Files] /\ touched'[t] = touched[t]
        /\ \A v \in Terminals \ {t} : Notes(v)
    BY <1>5, TouchesNotes
  <2>3. todo[t] \in SUBSET (Files \cup Dirs)
    BY <1>1 DEF RestOK
  <2>4. f \in todo[t] /\ \A y \in todo[t] : Place[f] <= Place[y]
    BY <1>1, <1>2, <2>3, FirstIs
  <2>5. out[t][f] # "absent" /\ DirOf[f] \in WalkOf(out[t]) /\ DirOf[f] \in Dirs
    BY <1>1, <2>4, WalkIs DEF TerminalInv, StageInv, Dirs
  <2>6. DirOf[f] \notin todo[t]
    BY <2>4, <2>5, TemplateAssumption
  <2>7. DirOf[f] \in disk[p].dirs
    BY <1>1, <1>3, <2>5, <2>6 DEF TerminalInv, WriteInv
  <2>8. DiskOK' /\ \A q \in Projects : disk[q].dirs \subseteq disk'[q].dirs
    BY <1>1, <2>1, <2>7, DiskStep
  <2>9. /\ todo' \in [Terminals -> SUBSET (Files \cup Dirs)] /\ todo'[t] = todo[t] \ {f}
        /\ opened' \in [Terminals -> Files \cup {"none"}] /\ opened'[t] = f
        /\ \A v \in Terminals \ {t} : todo'[v] = todo[v] /\ opened'[v] = opened[v]
    BY <1>1, <1>5 DEF RestOK
  <2>10. Goto(t, "write")
    BY <1>1, <1>5 DEF Goto, RestOK
  <2>11. \A d \in Dirs \ todo'[t] : d \in WalkOf(out[t]) => d \in disk'[cmd[t].project].dirs
    <3>1. f \notin Dirs
      BY TemplateAssumption
    <3> QED BY <1>1, <2>1, <2>9, <3>1 DEF TerminalInv, WriteInv
  <2>12. \A g \in Files \ (touched'[t] \cup todo'[t]) :
          g # opened'[t] /\ out[t][g] # "absent" => disk'[cmd[t].project].file[g] = out[t][g]
    <3> SUFFICES ASSUME NEW g \in Files \ (touched[t] \cup todo[t]), g # f,
                        out[t][g] # "absent"
                 PROVE  disk'[cmd[t].project].file[g] = out[t][g]
      BY <2>2, <2>9
    <3>1. g # opened[t]
      BY <1>1, TemplateAssumption
    <3> QED BY <1>1, <2>1, <3>1 DEF TerminalInv, WriteInv
  <2>13. DirOf[opened'[t]] \in disk'[cmd[t].project].dirs
    BY <1>3, <2>1, <2>7, <2>9
  <2> QED BY <1>1, <1>5, <2>2, <2>5, <2>8, <2>9, <2>10, <2>11, <2>12, <2>13, WriteResult
          DEF memory
<1> QED BY <1>2, <1>3, <1>4, <1>5 DEF WriteOpen, SetsFile

LEMMA WriteFileResult ==
  ASSUME ScaffoldInv, NEW t \in Terminals, WriteFile(t) PROVE Result(t)
<1>1. /\ RestOK /\ DiskOK /\ TerminalInv(t) /\ DiskShape
      /\ pc[t] = "write" /\ opened[t] # "none" /\ opened[t] \in Files
      /\ cmd[t].project \in Projects
      /\ UNCHANGED <<shelves, cmd, todo, memory, temp, failedAt>>
  BY TypeIs, ProjectIs DEF WriteFile, ScaffoldInv, TerminalInv, TidyInv, RestOK
<1>2. PICK f \in Files : f = opened[t]
  BY <1>1
<1>3. PICK p \in Projects : p = cmd[t].project
  BY <1>1
<1>4. PICK new \in {"absent", "empty", "rendered", "no value"} : new = out[t][f]
  <2>1. out \in [Terminals -> [Files -> {"absent", "empty", "rendered", "no value"}]]
    BY <1>1 DEF RestOK
  <2> QED BY <2>1
<1>5. /\ SetsFile(p, f, new) /\ touched' = Touches(t, p, f)
      /\ opened' = [opened EXCEPT ![t] = "none"]
  BY <1>2, <1>3, <1>4 DEF WriteFile, SetsFile
<1>6. PICK where \in {"write", "done"} : Goto(t, where) /\ (where = "done" => todo[t] = {})
  BY DEF WriteFile, AfterWrite
<1>7. /\ disk'[p].file[f] = new
      /\ \A q \in Projects, g \in Files : q # p \/ g # f => disk'[q].file[g] = disk[q].file[g]
      /\ \A q \in Projects : disk'[q].dirs = disk[q].dirs
  BY <1>1, <1>5, FileShape
<1>8. /\ touched' \in [Terminals -> SUBSET Files] /\ touched'[t] = touched[t]
      /\ \A v \in Terminals \ {t} : Notes(v)
  BY <1>5, TouchesNotes
<1>9. DirOf[f] \in disk[p].dirs
  BY <1>1, <1>2, <1>3 DEF TerminalInv, WriteInv
<1>10. DiskOK' /\ \A q \in Projects : disk[q].dirs \subseteq disk'[q].dirs
  <2>1. new \in {"absent", "empty", "rendered", "no value", "user"}
    OBVIOUS
  <2> QED BY <1>1, <1>7, <1>9, <2>1, DiskStep
<1>11. /\ opened' \in [Terminals -> Files \cup {"none"}] /\ opened'[t] = "none"
       /\ \A v \in Terminals \ {t} : todo'[v] = todo[v] /\ opened'[v] = opened[v]
       /\ todo' \in [Terminals -> SUBSET (Files \cup Dirs)] /\ todo'[t] = todo[t]
  BY <1>1, <1>5 DEF RestOK
<1>12. \A d \in Dirs \ todo'[t] : d \in WalkOf(out[t]) => d \in disk'[cmd[t].project].dirs
  BY <1>1, <1>7, <1>11 DEF TerminalInv, WriteInv
<1>13. \A g \in Files \ (touched'[t] \cup todo'[t]) :
         out[t][g] # "absent" => disk'[cmd[t].project].file[g] = out[t][g]
  BY <1>1, <1>2, <1>3, <1>4, <1>7, <1>8, <1>11 DEF TerminalInv, WriteInv
<1> QED BY <1>1, <1>6, <1>8, <1>10, <1>11, <1>12, <1>13, WriteResult

-----------------------------------------------------------------------------
(* The ends of a command, its start, and the user.                         *)
LEMMA StopResult ==
  ASSUME ScaffoldInv, NEW t \in Terminals,
         Finish(t) \/ Refuse(t) \/ FetchFails(t) \/ WriteFails(t) \/ Crash(t)
  PROVE  Result(t)
<1>1. /\ RestOK
      /\ UNCHANGED <<shelf, shelfDir, external, cloned, disk, cmd, levels, mem, out, overlapped,
                     touched>>
  BY TypeIs DEF ScaffoldInv, Finish, Refuse, FetchFails, WriteFails, Crash, shelves
<1>2. /\ broken' \in BOOLEAN
      /\ broken => broken'
      /\ pc[t] = "gen" => broken'
  BY <1>1 DEF Finish, Refuse, FetchFails, WriteFails, Crash, shelves, RestOK, Generating
<1>3. \E where : /\ Quit(t, where) \/ Leave(t, where)
                 /\ where = "none" => pc[t] = "done"
  BY DEF Finish, Refuse, FetchFails, WriteFails, Crash
<1>4. PICK where : /\ Quit(t, where) \/ Leave(t, where)
                   /\ where = "none" => pc[t] = "done"
  BY <1>3
<1>5. Ends(t, where)
  BY <1>4, EndsSo
<1>6. where = "none" => pc[t] = "done" /\ out'[t] = out[t] /\ overlapped'[t] = overlapped[t]
  BY <1>1, <1>4
<1>7. /\ levels' \in [Terminals -> SUBSET Levels]
      /\ mem' \in [Terminals -> [Files -> {"absent", "empty", "full"}]]
      /\ out' \in [Terminals -> [Files -> {"absent", "empty", "rendered", "no value"}]]
      /\ overlapped' \in [Terminals -> BOOLEAN]
      /\ \A v \in Terminals \ {t} : /\ levels'[v] = levels[v] /\ mem'[v] = mem[v]
                                    /\ out'[v] = out[v] /\ overlapped'[v] = overlapped[v]
  BY <1>1 DEF RestOK
<1> QED BY <1>1, <1>2, <1>5, <1>6, <1>7, EndResult

LEMMA StartResult ==
  ASSUME ScaffoldInv, NEW t \in Terminals, Start(t) PROVE Result(t)
<1>1. /\ RestOK /\ DiskOK /\ TerminalInv(t) /\ ShelfInv
      /\ failedAt = [v \in Terminals |-> failedAt[v]]
  BY TypeIs DEF ScaffoldInv, TerminalInv, TidyInv, ProcessShape
<1>2. PICK c \in Commands :
        /\ cmd' = [cmd EXCEPT ![t] = c]
        /\ Goto(t, IF c.source = "internal" THEN "validate" ELSE "retrieve")
  BY DEF Start
<1>3. PICK where \in {"validate", "retrieve"} :
        pc' = [pc EXCEPT ![t] = where] /\ (where = "validate" <=> c.source = "internal")
  BY <1>2 DEF Goto
<1>4. /\ pc[t] = "ended"
      /\ failedAt' = [failedAt EXCEPT ![t] = "none"]
      /\ mem' = [mem EXCEPT ![t] = Blank] /\ out' = [out EXCEPT ![t] = Blank]
      /\ levels' = [levels EXCEPT ![t] = {}]
      /\ overlapped' = [overlapped EXCEPT ![t] = FALSE]
      /\ touched' = [touched EXCEPT ![t] = {}]
      /\ temp' = [temp EXCEPT ![t] = FALSE]
      /\ UNCHANGED <<shelf, shelfDir, external, cloned, broken, disk, todo, opened, wipe>>
  BY DEF Start, Running, shelves, walk
<1>5. Blank \in [Files -> {"absent", "empty", "full"}]
      /\ Blank \in [Files -> {"absent", "empty", "rendered", "no value"}]
  BY DEF Blank
<1>6. RestOK'
  BY <1>1, <1>2, <1>3, <1>4, <1>5 DEF RestOK
<1>7. \A v \in Terminals \ {t} : Unmoved(v) /\ touched'[v] = touched[v]
  BY <1>1, <1>2, <1>3, <1>4 DEF Unmoved, RestOK
<1>8. pc'[t] = where /\ cmd'[t] = c
  BY <1>1, <1>2, <1>3 DEF RestOK
<1>9. ShelfInv'
  BY <1>1, <1>4, <1>7, ShelfKept
<1>10. StageInv(t)' /\ ReadInv(t)' /\ WriteInv(t)'
  BY <1>1, <1>3, <1>4, <1>8 DEF StageInv, ReadInv, WriteInv, TerminalInv, Succeeded
<1>11. Grows /\ DiskOK' /\ \A v \in Terminals \ {t} : Notes(v)
  BY <1>1, <1>4, <1>7, QuietDisk DEF Grows
<1> QED BY <1>6, <1>7, <1>9, <1>10, <1>11 DEF Result, TerminalInv

(* What happens to the official templates while a command counts on them.  *)
LEMMA QuietPulled ==
  ASSUME NEW v \in Terminals, PulledInv(v), Unmoved(v),
         \A f \in Files : external'[f] # external[f] =>
             external[f] # "absent" /\ external'[f] = "full"
  PROVE  PulledInv(v)'
BY DEF PulledInv, Unmoved

LEMMA EditResult ==
  ASSUME ScaffoldInv, Edit
  PROVE  /\ RestOK' /\ DiskOK' /\ ShelfInv' /\ \A v \in Terminals : TerminalInv(v)'
         /\ \A v \in Terminals : PulledInv(v)'
<1>1. /\ RestOK /\ DiskOK /\ ShelfInv /\ DiskShape /\ TypeOK
      /\ \A v \in Terminals : TerminalInv(v) /\ cmd[v].project \in Projects
  BY TypeIs, ProjectIs DEF ScaffoldInv, TerminalInv, TidyInv
<1>2. UNCHANGED <<shelves, pc, cmd, walk, memory, temp, failedAt>>
  BY DEF Edit
<1>3. PICK p \in Projects, f \in Files :
        /\ DirOf[f] \in disk[p].dirs
        /\ SetsFile(p, f, "user")
        /\ touched' = [v \in Terminals |->
                        IF cmd[v].project = p THEN touched[v] \cup {f} ELSE touched[v]]
  BY DEF Edit, SetsFile
<1>4. /\ disk'[p].file[f] = "user"
      /\ \A q \in Projects, g \in Files : q # p \/ g # f => disk'[q].file[g] = disk[q].file[g]
      /\ \A q \in Projects : disk'[q].dirs = disk[q].dirs
  BY <1>1, <1>3, FileShape
<1>5. DiskOK'
  BY <1>1, <1>3, <1>4, DiskStep
<1>6. touched' \in [Terminals -> SUBSET Files]
  BY <1>1, <1>3 DEF RestOK
<1>7. RestOK' /\ ShelfInv'
  BY <1>1, <1>2, <1>6 DEF RestOK, ShelfInv, shelves, walk, memory
<1>8. Grows
  BY <1>2, <1>4 DEF Grows, shelves
<1>9. \A v \in Terminals : Unmoved(v) /\ Notes(v)
  <2>1. \A v \in Terminals : Unmoved(v)
    BY <1>2 DEF Unmoved, walk, memory
  <2>2. ASSUME NEW v \in Terminals PROVE Notes(v)
    <3>1. touched'[v] = IF cmd[v].project = p THEN touched[v] \cup {f} ELSE touched[v]
      BY <1>3
    <3> QED BY <1>1, <1>4, <3>1 DEF Notes
  <2> QED BY <2>1, <2>2
<1>10. \A v \in Terminals : TerminalInv(v)'
  BY <1>1, <1>8, <1>9, UnmovedInv
<1>11. external' = external /\ \A v \in Terminals : PulledInv(v)
  BY <1>2 DEF shelves, ScaffoldInv
<1>12. \A v \in Terminals : PulledInv(v)'
  BY <1>9, <1>11, QuietPulled
<1> QED BY <1>5, <1>7, <1>10, <1>12

-----------------------------------------------------------------------------
LEMMA InitScaffold == Init => ScaffoldInv
<1> SUFFICES ASSUME Init PROVE ScaffoldInv
  OBVIOUS
<1>1. (CHOOSE c \in Commands : TRUE) \in Commands
  BY CommandsAssumption
<1>2. Blank \in [Files -> {"absent", "empty", "full"}]
      /\ Blank \in [Files -> {"absent", "empty", "rendered", "no value"}]
  BY DEF Blank
<1>3. cmd \in [Terminals -> Commands]
  BY <1>1 DEF Init
<1>4. RestOK
  BY <1>2, <1>3 DEF Init, RestOK
<1>5. DiskOK
  BY DEF Init, DiskOK, Blank
<1>6. ShelfInv
  BY DEF Init, ShelfInv
<1>7. ASSUME NEW t \in Terminals PROVE StageInv(t) /\ ReadInv(t) /\ WriteInv(t) /\ PulledInv(t)
  BY DEF Init, StageInv, ReadInv, WriteInv, PulledInv, Succeeded
<1> QED BY <1>4, <1>5, <1>6, <1>7, InitTidy, TypeIs DEF ScaffoldInv

LEMMA StepResult ==
  ASSUME ScaffoldInv, NEW t \in Terminals,
         Step(t) \/ Start(t) \/ Refuse(t) \/ FetchFails(t) \/ WriteFails(t) \/ Crash(t)
  PROVE  Result(t)
BY RetrieveResult, CleanupResult, FetchResult, CheckoutResult, GenerateResult, ListResult,
   ChooseResult, ReadResult, RenderResult, WriteDirResult, WriteOpenResult, WriteFileResult,
   StopResult, StartResult DEF Step

LEMMA DisturbedPulled ==
  ASSUME RestOK, NEW t \in Terminals, NEW v \in Terminals \ {t}, Unmoved(v),
         overlapped' = Disturbed(t)
  PROVE  PulledInv(v)'
<1>1. Counts(v) => overlapped'[v]
  BY DisturbedIs
<1> QED BY <1>1 DEF Counts, PulledInv, Unmoved

LEMMA PulledStep ==
  ASSUME ScaffoldInv, NEW t \in Terminals,
         Step(t) \/ Start(t) \/ Refuse(t) \/ FetchFails(t) \/ WriteFails(t) \/ Crash(t)
  PROVE  \A v \in Terminals : PulledInv(v)'
<1>1. /\ RestOK /\ TerminalInv(t)
      /\ \A v \in Terminals \ {t} : Unmoved(v)
      /\ \A v \in Terminals : PulledInv(v)
  BY StepResult, TypeIs DEF Result, ScaffoldInv, TerminalInv
<1>7. \A where : Goto(t, where) => pc'[t] = where
  BY <1>1 DEF Goto, RestOK
<1>8. /\ todo = [v \in Terminals |-> todo[v]] /\ opened = [v \in Terminals |-> opened[v]]
      /\ opened[t] \in Files \cup {"none"} /\ todo[t] \in SUBSET (Files \cup Dirs)
      /\ external = [f \in Files |-> external[f]]
  BY <1>1 DEF RestOK
<1>2. CASE Cleanup(t)
  <2>1. overlapped' = Disturbed(t) /\ pc'[t] = "cleanup"
    BY <1>2 DEF Cleanup
  <2>2. PulledInv(t)'
    BY <2>1 DEF PulledInv
  <2> QED BY <1>1, <2>1, <2>2, DisturbedPulled
<1>3. CASE Fetch(t)
  <2>1. external' = external /\ cmd' = cmd /\ pc[t] = "fetch" /\ overlapped' = overlapped
    BY <1>3 DEF Fetch, memory
  <2>2. \A v \in Terminals \ {t} : PulledInv(v)'
    BY <1>1, <2>1, QuietPulled
  <2>3. ASSUME cmd[t].source = "official" PROVE PulledInv(t)'
    <3>1. PICK upstream \in SUBSET Files : todo' = [todo EXCEPT ![t] = CheckoutPlan(upstream)]
      BY <1>3, <2>3 DEF Fetch
    <3>2. todo'[t] = CheckoutPlan(upstream)
      BY <1>8, <3>1
    <3>3. \A f \in Files : external[f] = "full" \/ f \in todo'[t]
      BY <3>2 DEF CheckoutPlan
    <3>4. pc'[t] \in {"list", "choose", "read"} => todo'[t] = {}
      BY <1>3, <1>7, <2>3 DEF Fetch
    <3> QED BY <2>1, <3>3, <3>4 DEF PulledInv
  <2>4. PulledInv(t)'
    BY <2>1, <2>3 DEF PulledInv
  <2> QED BY <2>2, <2>4
<1>4. CASE CheckoutOpen(t)
  <2>1. PICK f : f = First(todo[t])
    OBVIOUS
  <2>2. /\ pc[t] = "checkout" /\ opened[t] = "none" /\ todo[t] # {} /\ todo[t] \subseteq Files
        /\ external' = [external EXCEPT ![f] = "empty"]
        /\ opened' = [opened EXCEPT ![t] = f]
        /\ todo' = [todo EXCEPT ![t] = @ \ {f}]
        /\ overlapped' = Disturbed(t) /\ pc' = pc /\ cmd' = cmd
    BY <1>1, <1>4, <2>1 DEF CheckoutOpen, TerminalInv, StageInv
  <2>3. f \in todo[t] /\ f \in Files
    BY <2>1, <2>2, FirstIs
  <2>4. /\ opened'[t] = f /\ todo'[t] = todo[t] \ {f} /\ external'[f] = "empty"
        /\ \A g \in Files \ {f} : external'[g] = external[g]
        /\ overlapped'[t] = overlapped[t]
    BY <1>1, <1>8, <2>2, <2>3, DisturbedIs
  <2>5. \A g \in Files : opened[t] # g
    BY <2>2, TemplateAssumption
  <2>6. PulledInv(t)'
    BY <1>1, <2>2, <2>4, <2>5 DEF PulledInv
  <2> QED BY <1>1, <2>2, <2>6, DisturbedPulled
<1>5. CASE CheckoutWrite(t)
  <2>1. PICK f : f = opened[t]
    OBVIOUS
  <2>2. /\ pc[t] = "checkout" /\ f # "none"
        /\ external' = [external EXCEPT ![f] = IF @ = "absent" THEN @ ELSE "full"]
        /\ opened' = [opened EXCEPT ![t] = "none"] /\ todo' = todo
        /\ Goto(t, IF todo[t] = {} THEN "list" ELSE "checkout")
        /\ overlapped' = overlapped /\ cmd' = cmd
    BY <1>5, <2>1 DEF CheckoutWrite, memory
  <2>3. f \in Files
    BY <1>8, <2>1, <2>2
  <2>4. /\ external'[f] = IF external[f] = "absent" THEN "absent" ELSE "full"
        /\ \A g \in Files \ {f} : external'[g] = external[g]
        /\ pc'[t] = (IF todo[t] = {} THEN "list" ELSE "checkout")
    BY <1>7, <1>8, <2>2, <2>3
  <2>5. \A g \in Files : external'[g] # external[g] =>
          external[g] # "absent" /\ external'[g] = "full"
    BY <2>4
  <2>6. PulledInv(t)'
    BY <1>1, <2>1, <2>2, <2>4 DEF PulledInv
  <2> QED BY <1>1, <2>5, <2>6, QuietPulled
<1>6. CASE ~ (Cleanup(t) \/ Fetch(t) \/ CheckoutOpen(t) \/ CheckoutWrite(t))
  <2>1. external' = external
    <3>1. CASE ValidateOptions(t) \/ MakeShelf(t) \/ GenerateOpen(t) \/ GenerateWrite(t)
      BY <3>1 DEF ValidateOptions, MakeShelf, GenerateOpen, GenerateWrite, shelves
    <3>2. CASE Download(t) \/ Inspect(t) \/ Cleaned(t)
      BY <3>2 DEF Download, Inspect, Cleaned, shelves
    <3>3. CASE List(t) \/ Choose(t) \/ Read(t) \/ Render(t)
      BY <3>3 DEF List, Choose, Read, Render, shelves
    <3>4. CASE WriteDir(t) \/ WriteOpen(t) \/ WriteFile(t) \/ Finish(t)
      BY <3>4 DEF WriteDir, WriteOpen, WriteFile, Finish, shelves
    <3>5. CASE Start(t) \/ Refuse(t) \/ FetchFails(t) \/ WriteFails(t) \/ Crash(t)
      BY <3>5 DEF Start, Refuse, FetchFails, WriteFails, Crash, shelves
    <3> QED BY <1>6, <3>1, <3>2, <3>3, <3>4, <3>5 DEF Step
  <2>2. \/ pc'[t] \notin {"checkout", "list", "choose", "read"}
        \/ cmd'[t].source = "internal"
        \/ /\ pc[t] \in {"list", "choose", "read"} /\ pc'[t] \in {"choose", "read"} /\ cmd' = cmd
           /\ overlapped[t] => overlapped'[t]
    <3>1. CASE ValidateOptions(t) \/ GenerateWrite(t)
      BY <1>1, <3>1 DEF ValidateOptions, GenerateWrite, TerminalInv, StageInv
    <3>2. CASE MakeShelf(t) \/ GenerateOpen(t) \/ Download(t) \/ Inspect(t) \/ Cleaned(t)
      BY <1>7, <3>2 DEF MakeShelf, GenerateOpen, Download, Inspect, Cleaned
    <3>3. CASE List(t)
      BY <1>7, <3>3, OverlapIs DEF List, NoTemplates, Quit, EndWith
    <3>4. CASE Choose(t)
      BY <1>7, <3>4, OverlapIs DEF Choose
    <3>5. CASE Read(t)
      <4>1. /\ pc[t] = "read" /\ cmd' = cmd
            /\ overlapped' = [overlapped EXCEPT ![t] = @ \/ (cmd[t].source = "internal" /\ Meets(t))]
            /\ \/ Goto(t, "ended")
               \/ Goto(t, IF todo[t] = {First(todo[t])} THEN "render" ELSE "read")
        BY <3>5 DEF Read, Quit, EndWith
      <4> QED BY <1>7, <4>1, OverlapIs
    <3>6. CASE Render(t) \/ Finish(t)
      BY <1>7, <3>6 DEF Render, Finish, Quit, EndWith
    <3>7. CASE WriteDir(t) \/ WriteOpen(t)
      <4>1. pc[t] = "write" /\ (pc' = pc \/ Goto(t, "ended"))
        BY <3>7 DEF WriteDir, WriteOpen, Quit, EndWith
      <4> QED BY <1>7, <4>1
    <3>8. CASE WriteFile(t)
      <4>1. \E where \in {"done", "write"} : Goto(t, where)
        BY <3>8 DEF WriteFile, AfterWrite
      <4> QED BY <1>7, <4>1
    <3>9. CASE Start(t)
      <4>1. \E where \in {"validate", "retrieve"} : Goto(t, where)
        BY <3>9 DEF Start
      <4> QED BY <1>7, <4>1
    <3>10. CASE Refuse(t) \/ FetchFails(t) \/ WriteFails(t) \/ Crash(t)
      BY <1>7, <3>10 DEF Refuse, FetchFails, WriteFails, Crash, Quit, Leave, EndWith
    <3> QED BY <1>6, <3>1, <3>2, <3>3, <3>4, <3>5, <3>6, <3>7, <3>8, <3>9, <3>10 DEF Step
  <2>3. PulledInv(t)'
    BY <1>1, <2>1, <2>2 DEF PulledInv
  <2> QED BY <1>1, <2>1, <2>3, QuietPulled
<1> QED BY <1>2, <1>3, <1>4, <1>5, <1>6

LEMMA TerminalStep ==
  ASSUME ScaffoldInv, NEW t \in Terminals,
         Step(t) \/ Start(t) \/ Refuse(t) \/ FetchFails(t) \/ WriteFails(t) \/ Crash(t)
  PROVE  /\ RestOK' /\ DiskOK' /\ ShelfInv' /\ \A v \in Terminals : TerminalInv(v)'
         /\ \A v \in Terminals : PulledInv(v)'
<1>1. Result(t)
  BY StepResult
<1>2. \A v \in Terminals : TerminalInv(v)
  BY DEF ScaffoldInv, TerminalInv
<1>3. ASSUME NEW v \in Terminals \ {t} PROVE TerminalInv(v)'
  BY <1>1, <1>2, UnmovedInv DEF Result, ScaffoldInv
<1> QED BY <1>1, <1>3, PulledStep DEF Result

LEMMA ScaffoldStep == ScaffoldInv /\ [Next]_vars => ScaffoldInv'
<1> SUFFICES ASSUME ScaffoldInv, [Next]_vars PROVE ScaffoldInv'
  OBVIOUS
<1>1. TidyInv'
  BY NextTidy DEF ScaffoldInv
<1>2. CASE UNCHANGED vars
  <2>1. RestOK /\ DiskOK /\ ShelfInv /\ \A t \in Terminals : TerminalInv(t)
    BY TypeIs DEF ScaffoldInv, TerminalInv
  <2>2. UNCHANGED <<shelves, disk, pc, cmd, walk, memory, temp, failedAt, touched>>
    BY <1>2 DEF vars
  <2>3. RestOK' /\ DiskOK' /\ ShelfInv'
    BY <2>1, <2>2 DEF RestOK, DiskOK, ShelfInv, shelves, walk, memory
  <2>4. Grows /\ \A t \in Terminals : Unmoved(t) /\ Notes(t)
    BY <2>2 DEF Grows, Unmoved, Notes, shelves, walk, memory
  <2>5. \A t \in Terminals : TerminalInv(t)'
    BY <2>1, <2>4, UnmovedInv DEF ScaffoldInv
  <2>6. TypeOK'
    BY <2>3, TypeIs DEF TypeOK, RestOK, DiskOK
  <2>7. \A t \in Terminals : PulledInv(t)'
    BY <2>2, <2>4, QuietPulled DEF ScaffoldInv, shelves
  <2> QED BY <1>1, <2>3, <2>5, <2>6, <2>7 DEF ScaffoldInv, TerminalInv
<1>3. CASE Next /\ vars' # vars
  <2>1. /\ RestOK' /\ DiskOK' /\ ShelfInv' /\ \A v \in Terminals : TerminalInv(v)'
        /\ \A v \in Terminals : PulledInv(v)'
    <3>1. CASE Edit
      BY <3>1, EditResult
    <3>2. ASSUME NEW t \in Terminals,
                 Step(t) \/ Start(t) \/ Refuse(t) \/ FetchFails(t) \/ WriteFails(t) \/ Crash(t)
          PROVE  /\ RestOK' /\ DiskOK' /\ ShelfInv' /\ \A v \in Terminals : TerminalInv(v)'
                 /\ \A v \in Terminals : PulledInv(v)'
      BY <3>2, TerminalStep
    <3>3. ~ Rest
      BY <1>3 DEF Rest
    <3> QED BY <1>3, <3>1, <3>2, <3>3 DEF Next
  <2>2. TypeOK'
    BY <2>1 DEF TypeOK, RestOK, DiskOK
  <2> QED BY <1>1, <2>1, <2>2 DEF ScaffoldInv, TerminalInv
<1> QED BY <1>2, <1>3

-----------------------------------------------------------------------------
(* Where a command is, what it has read and what it has written agree, and *)
(* what is not whole on a shelf is being written, or was spoilt by another *)
(* command or a broken generation, whatever the commands, the faults and   *)
(* the edits.                                                              *)
THEOREM ScaffoldInvariant == Spec => []ScaffoldInv
BY InitScaffold, ScaffoldStep, PTL DEF Spec

(* A command that says it created its project has every file of it on the  *)
(* disk as rendered, but for those that others wrote since, and leaves no  *)
(* download behind.                                                        *)
THEOREM DiskIsTidyHolds == Spec => []DiskIsTidy
<1>1. ScaffoldInv => DiskIsTidy
  <2> SUFFICES ASSUME ScaffoldInv PROVE CreatedIsWritten
    BY DEF ScaffoldInv, DiskIsTidy, TidyInv
  <2>1. ASSUME NEW t \in Terminals, Succeeded(t), NEW f \in Files \ touched[t],
               out[t][f] # "absent"
        PROVE  disk[cmd[t].project].file[f] = out[t][f]
    <3>1. todo[t] = {} /\ opened[t] = "none"
      BY <2>1 DEF ScaffoldInv, StageInv, Succeeded
    <3>2. f # opened[t] /\ f \notin todo[t]
      BY <3>1, TemplateAssumption
    <3> QED BY <2>1, <3>2 DEF ScaffoldInv, WriteInv
  <2> QED BY <2>1 DEF CreatedIsWritten
<1> QED BY <1>1, ScaffoldInvariant, PTL

(* A project that comes out short of a file, or with an empty one, was     *)
(* read from an internal shelf whose generation had stopped early or was   *)
(* under way, or from official templates that another command removed or   *)
(* rewrote meanwhile: what any number of crashes left of those is made     *)
(* good by the checkout.                                                   *)
THEOREM ShortOnlyIfDisturbedHolds == Spec => []ShortOnlyIfDisturbed
<1>1. ScaffoldInv => ShortOnlyIfDisturbed
  BY DEF ScaffoldInv, ReadInv, Excused, ShortOnlyIfDisturbed
<1> QED BY <1>1, ScaffoldInvariant, PTL

---------------------------------------------------------------------------
(* The report of kusion apply and destroy.                                 *)

(* The invariant holds at first.                                           *)
LEMMA ProgressInit == ReportInit => ProgressInv
<1> SUFFICES ASSUME ReportInit PROVE ProgressInv OBVIOUS
<1>1. ReportTypeOK BY DEF ReportInit, ReportTypeOK, Sending, Over
<1>2. ReceiverInv BY DEF ReportInit, ReceiverInv, Unreported
<1>3. ClosedInv BY DEF ReportInit, ClosedInv
<1> QED BY <1>1, <1>2, <1>3 DEF ProgressInv

(* Every step keeps the types; the WaitGroup is never lowered below zero.  *)
LEMMA ReportTypeStep == ProgressInv /\ [ReportNext]_reportVars => ReportTypeOK'
<1> SUFFICES ASSUME ReportTypeOK, ReceiverInv, [ReportNext]_reportVars PROVE ReportTypeOK'
  BY DEF ProgressInv
<1> USE DEF ReportTypeOK, Over, Sending
<1>1. ASSUME NEW k \in Keys, Call(k) PROVE ReportTypeOK' BY <1>1 DEF Call, Enter
<1>2. ASSUME NEW k \in Keys, Execute(k) PROVE ReportTypeOK' BY <1>2 DEF Execute, Enter
<1>3. ASSUME NEW k \in Keys, Skip(k) PROVE ReportTypeOK' BY <1>3 DEF Skip, Enter
<1>4. ASSUME NEW k \in Keys, Receive(k) PROVE ReportTypeOK'
  BY <1>4 DEF Receive, Enter, Sent
<1>5. CASE StartReceiver BY <1>5 DEF StartReceiver, ReceiverInv
<1>6. CASE Handle BY <1>6 DEF Handle
<1>7. CASE EndReceiver BY <1>7 DEF EndReceiver, ReceiverInv
<1>8. CASE CloseMsgCh BY <1>8 DEF CloseMsgCh
<1>9. CASE Return BY <1>9 DEF Return
<1>10. CASE UNCHANGED reportVars BY <1>10 DEF reportVars
<1> QED
  BY <1>1, <1>2, <1>3, <1>4, <1>5, <1>6, <1>7, <1>8, <1>9, <1>10
  DEF ReportNext, NodeStep, Exited

(* A node waits for nodes.                                                 *)
LEMMA DependenciesAreKeys ==
  ASSUME ReportTypeOK, NEW k PROVE UpEdges(edges, k) \subseteq Keys
<1>1. edges \subseteq Keys \X Keys BY GraphsAssumption DEF ReportTypeOK
<1> QED BY <1>1 DEF UpEdges

(* Every step keeps the receiver's account of the successes.               *)
LEMMA ReceiverStep == ProgressInv /\ [ReportNext]_reportVars => ReceiverInv'
<1> SUFFICES ASSUME ReportTypeOK, ReceiverInv, ClosedInv, [ReportNext]_reportVars
             PROVE  ReceiverInv'
  BY DEF ProgressInv
<1> USE DEF ReportTypeOK, ReceiverInv, Unreported
<1>1. ASSUME NEW k \in Keys, Call(k) PROVE ReceiverInv' BY <1>1 DEF Call, Enter
<1>2. ASSUME NEW k \in Keys, Execute(k) PROVE ReceiverInv'
  BY <1>2 DEF Execute, Enter
<1>3. ASSUME NEW k \in Keys, Skip(k) PROVE ReceiverInv'
  <2>1. receiver # "new"
    BY <1>3, DependenciesAreKeys DEF Skip, Over
  <2> QED BY <1>3, <2>1 DEF Skip, Enter
<1>4. ASSUME NEW k \in Keys, Receive(k) PROVE ReceiverInv'
  <2>1. node' = [node EXCEPT ![k] = Sent(node[k])] /\ node[k] \in Sending
    BY <1>4 DEF Receive, Enter
  <2>2. Sent(node[k]) # "success" BY <2>1 DEF Sent, Sending
  <2>3. {j \in Keys : node'[j] = "success"} = {j \in Keys : node[j] = "success"} \ {k}
    BY <2>1, <2>2
  <2>4. message = {} /\ message' = {[key |-> k, of |-> node[k]]}
    BY <1>4 DEF Receive
  <2>5. {m.key : m \in {n \in message' : n.of = "success"}}
          = IF node[k] = "success" THEN {k} ELSE {}
    <3>1. {n \in message' : n.of = "success"}
            = IF node[k] = "success" THEN message' ELSE {}
      BY <2>4
    <3>2. {m.key : m \in message'} = {k} BY <2>4
    <3> QED BY <3>1, <3>2
  <2>6. Unreported' = Unreported
    <3>1. node[k] = "success" <=> k \in {j \in Keys : node[j] = "success"}
      OBVIOUS
    <3> QED BY <2>3, <2>4, <2>5, <3>1
  <2> QED BY <1>4, <2>4, <2>6 DEF Receive
<1>5. CASE StartReceiver BY <1>5 DEF StartReceiver
<1>6. CASE Handle BY <1>6 DEF Handle, CountedMessage
<1>7. CASE EndReceiver BY <1>7 DEF EndReceiver
<1>8. CASE CloseMsgCh BY <1>8 DEF CloseMsgCh
<1>9. CASE Return BY <1>9 DEF Return
<1>10. CASE UNCHANGED reportVars BY <1>10 DEF reportVars
<1> QED
  BY <1>1, <1>2, <1>3, <1>4, <1>5, <1>6, <1>7, <1>8, <1>9, <1>10
  DEF ReportNext, NodeStep, Exited

(* Every step keeps the order of the ends: walk, channel, receiver, command. *)
LEMMA ClosedStep == ProgressInv /\ [ReportNext]_reportVars => ClosedInv'
<1> SUFFICES ASSUME ReportTypeOK, ReceiverInv, ClosedInv, [ReportNext]_reportVars
             PROVE  ClosedInv'
  BY DEF ProgressInv
<1> USE DEF ReportTypeOK, ClosedInv, WalkOver, Over
<1>1. ASSUME NEW k \in Keys, Call(k) PROVE ClosedInv' BY <1>1 DEF Call, Enter
<1>2. ASSUME NEW k \in Keys, Execute(k) PROVE ClosedInv'
  BY <1>2 DEF Execute, Enter
<1>3. ASSUME NEW k \in Keys, Skip(k) PROVE ClosedInv' BY <1>3 DEF Skip, Enter
<1>4. ASSUME NEW k \in Keys, Receive(k) PROVE ClosedInv'
  BY <1>4 DEF Receive, Enter, Sending
<1>5. CASE StartReceiver BY <1>5 DEF StartReceiver
<1>6. CASE Handle BY <1>6 DEF Handle
<1>7. CASE EndReceiver BY <1>7 DEF EndReceiver, ReceiverInv
<1>8. CASE CloseMsgCh BY <1>8 DEF CloseMsgCh
<1>9. CASE Return
  <2>1. receiver # "new" BY <1>9, KeysAssumption DEF Return, ReceiverInv
  <2>2. receiver = "gone" BY <1>9, <2>1 DEF Return, ReceiverInv
  <2> QED BY <1>9, <2>2 DEF Return, ReceiverInv
<1>10. CASE UNCHANGED reportVars BY <1>10 DEF reportVars
<1> QED
  BY <1>1, <1>2, <1>3, <1>4, <1>5, <1>6, <1>7, <1>8, <1>9, <1>10
  DEF ReportNext, NodeStep, Exited

-----------------------------------------------------------------------------
(* What the command, the receiver and the nodes know of each other.        *)
THEOREM ProgressInvariant == ReportSpec => []ProgressInv
<1>1. ProgressInv /\ [ReportNext]_reportVars => ProgressInv'
  BY ReportTypeStep, ReceiverStep, ClosedStep DEF ProgressInv
<1> QED BY ProgressInit, <1>1, PTL DEF ReportSpec

(* Type correctness; the WaitGroup of the command stays between 0 and 1.   *)
THEOREM ReportTypeCorrect == ReportSpec => []ReportTypeOK
<1>1. ProgressInv => ReportTypeOK BY DEF ProgressInv
<1> QED BY <1>1, ProgressInvariant, PTL

(* Closing MsgCh never makes a node's send panic.                          *)
THEOREM NoSendAfterCloseHolds == ReportSpec => []NoSendAfterClose
<1>1. ProgressInv => NoSendAfterClose
  BY DEF ProgressInv, ClosedInv, NoSendAfterClose, WalkOver, Over, Sending
<1> QED BY <1>1, ProgressInvariant, PTL

(* A summary that is printed names the resources that succeeded.           *)
THEOREM SummaryTrueHolds == ReportSpec => []SummaryTrue
<1>1. ASSUME ProgressInv PROVE SummaryTrue
  <2> SUFFICES ASSUME main = "returned", ~error
               PROVE  receiver = "gone" /\ counted = effect
    BY DEF SummaryTrue
  <2>1. receiver = "gone" /\ message = {} BY <1>1 DEF ProgressInv, ClosedInv
  <2>2. \A k \in Keys : node[k] # "success"
    BY <1>1 DEF ProgressInv, ClosedInv, WalkOver, Over
  <2>3. Unreported = {} BY <2>1, <2>2 DEF Unreported
  <2> QED BY <1>1, <2>1, <2>3 DEF ProgressInv, ReceiverInv
<1> QED BY <1>1, ProgressInvariant, PTL

-----------------------------------------------------------------------------
(* What a command finds out before it works.  First the directories: the   *)
(* projects around a directory lie one within the other.                   *)
LEMMA PrefixOrder ==
  ASSUME NEW a \in Tree, NEW b \in Tree, NEW c \in Tree
  PROVE  /\ IsPrefix(a, a)
         /\ IsPrefix(a, b) /\ IsPrefix(b, c) => IsPrefix(a, c)
         /\ IsPrefix(a, c) /\ IsPrefix(b, c) /\ Len(a) <= Len(b) => IsPrefix(a, b)
<1>1. a \in Seq(STRING) /\ b \in Seq(STRING) /\ c \in Seq(STRING)
  BY TreeAssumption
<1>2. IsPrefix(a, a)
  BY <1>1 DEF IsPrefix
<1>3. IsPrefix(a, b) /\ IsPrefix(b, c) => IsPrefix(a, c)
  BY <1>1 DEF IsPrefix
<1>4. IsPrefix(a, c) /\ IsPrefix(b, c) /\ Len(a) <= Len(b) => IsPrefix(a, b)
  BY <1>1 DEF IsPrefix
<1> QED BY <1>2, <1>3, <1>4

LEMMA Longest ==
  ASSUME NEW path \in Tree, NEW S \in SUBSET AtOrAbove(path), S # {}
  PROVE  \E d \in S : \A e \in S : Len(e) <= Len(d)
<1> DEFINE Short == {Len(path) - Len(d) : d \in S}
           Less == {p \in Nat \X Nat : p[1] < p[2]}
<1>1. \A d \in S : Len(d) \in Nat /\ Len(path) - Len(d) \in Nat
  <2>1. \A d \in Tree : Len(d) \in Nat
    BY TreeAssumption
  <2> QED BY <2>1 DEF AtOrAbove, IsPrefix
<1>2. IsWellFoundedOn(Less, Nat)
  BY NatLessThanWellFounded, Zenon DEF OpToRel
<1>3. \A a, b \in Nat : <<a, b>> \in Less <=> a < b
  OBVIOUS
<1>4. Short \in SUBSET Nat /\ Short # {}
  BY <1>1
<1> HIDE DEF Less
<1>5. PICK m \in Short : \A n \in Short : ~(<<n, m>> \in Less)
  BY <1>2, <1>4, WFMin
<1>6. PICK d \in S : m = Len(path) - Len(d)
  OBVIOUS
<1>7. ASSUME NEW e \in S PROVE Len(e) <= Len(d)
  <2>1. Len(path) - Len(e) \in Short
    OBVIOUS
  <2>2. ~(Len(path) - Len(e) < Len(path) - Len(d))
    BY <1>1, <1>3, <1>5, <1>6, <2>1
  <2>3. Len(path) \in Nat
    BY TreeAssumption
  <2> QED BY <1>1, <2>2, <2>3
<1> QED BY <1>7

(* The project that a directory belongs to is within all that are around.  *)
LEMMA ProjectPathIs ==
  ASSUME NEW tree, NEW path \in Tree, NEW cwd \in Tree,
         NEW around, around = {d \in AtOrAbove(path) : IsProject(tree, d)}
  PROVE  /\ FindProjectPathFrom(tree, path, cwd) \in Tree
         /\ around # {} =>
              /\ FindProjectPathFrom(tree, path, cwd) \in around
              /\ \A e \in around : IsPrefix(e, FindProjectPathFrom(tree, path, cwd))
<1>1. CASE around = {}
  BY <1>1 DEF FindProjectPathFrom
<1>2. CASE around # {}
  <2>1. around \subseteq AtOrAbove(path) /\ around \subseteq Tree
    BY DEF AtOrAbove
  <2>2. \E d \in around : \A e \in around : Len(e) <= Len(d)
    BY <1>2, <2>1, Longest
  <2>3. FindProjectPathFrom(tree, path, cwd)
          = CHOOSE d \in around : \A e \in around : Len(e) <= Len(d)
    BY <1>2 DEF FindProjectPathFrom
  <2>4. PICK p : p = FindProjectPathFrom(tree, path, cwd)
    OBVIOUS
  <2>5. p \in around /\ \A e \in around : Len(e) <= Len(p)
    BY <2>2, <2>3, <2>4
  <2>6. \A e \in around : IsPrefix(e, p)
    BY <2>1, <2>5, PrefixOrder DEF AtOrAbove
  <2> QED BY <2>1, <2>4, <2>5, <2>6
<1> QED BY <1>1, <1>2

LEMMA TheOnlyIs ==
  ASSUME NEW S \in SUBSET Tree, TheOnly(S) # {}
  PROVE  \E x \in Tree : S = {x} /\ TheOnly(S) = {x}
<1>1. IsFiniteSet(S)
  BY TreeAssumption, FS_Subset
<1>2. Cardinality(S) = 1 /\ TheOnly(S) = S
  BY DEF TheOnly
<1>3. PICK x : S = {x}
  BY <1>1, <1>2, FS_Singleton
<1> QED BY <1>2, <1>3

LEMMA SmallSet ==
  ASSUME NEW x PROVE Cardinality({x}) = 1 /\ Cardinality({}) = 0
BY FS_Singleton, FS_EmptySet

(* What is detected, if anything is.                                       *)
LEMMA DetectedIs ==
  ASSUME NEW op \in Operations, NEW p, p = FindProjectPathFrom(op.tree, op.dir, op.cwd),
         NEW d, d = Detected(op.tree, op.dir, op.cwd), d.project # {}, d.stack # {}
  PROVE  /\ p \in Tree /\ d.project = {p}
         /\ {q \in AtOrBelow(p) : IsProject(op.tree, q)} = {p}
         /\ \E s \in Tree : d.stack = {s} /\ FindAllStacksFrom(op.tree, op.dir) = {s}
<1>1. op.tree \in Trees /\ op.dir \in Tree /\ op.cwd \in Tree
  BY OperationsAssumption
<1>2. p \in Tree
  BY <1>1, ProjectPathIs
<1>3. d.project = GetProjectFrom(op.tree, p) /\ d.stack = GetStackFrom(op.tree, op.dir)
  BY DEF Detected
<1>4. IsProject(op.tree, p) /\ TheOnly(FindAllProjectsFrom(op.tree, p)) # {}
      /\ d.project = TheOnly(FindAllProjectsFrom(op.tree, p))
  BY <1>3 DEF GetProjectFrom
<1>5. FindAllProjectsFrom(op.tree, p) \in SUBSET Tree
  BY DEF FindAllProjectsFrom, AtOrBelow
<1>6. PICK q \in Tree : FindAllProjectsFrom(op.tree, p) = {q} /\ d.project = {q}
  BY <1>4, <1>5, TheOnlyIs
<1>7. FindAllProjectsFrom(op.tree, p) = {r \in AtOrBelow(p) : IsProject(op.tree, r)}
  BY <1>6 DEF FindAllProjectsFrom
<1>8. p \in AtOrBelow(p)
  BY <1>2, PrefixOrder DEF AtOrBelow
<1>9. q = p
  BY <1>4, <1>6, <1>7, <1>8
<1>10. TheOnly(FindAllStacksFrom(op.tree, op.dir)) # {}
       /\ d.stack = TheOnly(FindAllStacksFrom(op.tree, op.dir))
  BY <1>3 DEF GetStackFrom
<1>11. FindAllStacksFrom(op.tree, op.dir) \in SUBSET Tree
  BY DEF FindAllStacksFrom, AtOrBelow
<1>12. \E s \in Tree : d.stack = {s} /\ FindAllStacksFrom(op.tree, op.dir) = {s}
  BY <1>10, <1>11, TheOnlyIs
<1> QED BY <1>2, <1>6, <1>7, <1>9, <1>12

Around(op) == {d \in AtOrAbove(op.dir) : IsProject(op.tree, d)}
ProjectsBelow(op, p) == {d \in AtOrBelow(p) : IsProject(op.tree, d)}

DetectedWell(op, d) ==
    /\ op.tree.stack[op.dir] = "good" => d.stack = {op.dir}
    /\ Around(op) # {} => \A p \in d.project :
            /\ p \in Around(op) /\ \A e \in Around(op) : IsPrefix(e, p)
            /\ d.stack \subseteq FindAllStacksFrom(op.tree, p)
    /\ \A p \in d.project : ProjectsBelow(op, p) = {p}

LEMMA DetectedFits ==
  ASSUME NEW op \in Operations,
         NEW d, d = Detected(op.tree, op.dir, op.cwd), d.project # {}, d.stack # {}
  PROVE  DetectedWell(op, d)
<1>1. PICK p : p = FindProjectPathFrom(op.tree, op.dir, op.cwd)
  OBVIOUS
<1>2. /\ p \in Tree /\ d.project = {p}
      /\ {q \in AtOrBelow(p) : IsProject(op.tree, q)} = {p}
      /\ \E s \in Tree : d.stack = {s} /\ FindAllStacksFrom(op.tree, op.dir) = {s}
  BY <1>1, DetectedIs
<1>3. PICK s \in Tree : d.stack = {s} /\ FindAllStacksFrom(op.tree, op.dir) = {s}
  BY <1>2
<1>4. op.dir \in Tree /\ op.cwd \in Tree
  BY OperationsAssumption
<1>5. ASSUME op.tree.stack[op.dir] = "good" PROVE d.stack = {op.dir}
  <2>1. op.dir \in FindAllStacksFrom(op.tree, op.dir)
    BY <1>4, <1>5, PrefixOrder DEF FindAllStacksFrom, AtOrBelow
  <2> QED BY <1>3, <2>1
<1>6. ASSUME Around(op) # {}
      PROVE  /\ p \in Around(op) /\ \A e \in Around(op) : IsPrefix(e, p)
             /\ d.stack \subseteq FindAllStacksFrom(op.tree, p)
  <2>1. p \in Around(op) /\ \A e \in Around(op) : IsPrefix(e, p)
    BY <1>1, <1>4, <1>6, ProjectPathIs DEF Around
  <2>2. IsPrefix(p, op.dir)
    BY <2>1 DEF Around, AtOrAbove
  <2>3. s \in AtOrBelow(op.dir) /\ op.tree.stack[s] = "good"
    BY <1>3 DEF FindAllStacksFrom
  <2>4. s \in AtOrBelow(p)
    BY <1>2, <1>4, <2>2, <2>3, PrefixOrder DEF AtOrBelow
  <2> QED BY <1>3, <2>1, <2>3, <2>4 DEF FindAllStacksFrom
<1> QED BY <1>2, <1>5, <1>6 DEF ProjectsBelow, DetectedWell

-----------------------------------------------------------------------------
(* The configuration of a storage.                                         *)
LEMMA ConfigureIs ==
  ASSUME NEW type \in StorageTypes, NEW config, DOMAIN config \subseteq Schema[type],
         NEW c, c = Configure(type, config)
  PROVE  \/ c = ConfigureLocal(config) /\ type = "local"
         \/ c = Works("ok", type, config) /\ type # "local" /\ DOMAIN config = Schema[type]
         \/ c = Works("noBucket", type, config) /\ type = "oss"
         \/ c = Fails("error")
         \/ /\ c = Fails("panic")
            /\ \/ type = "s3" /\ Schema.s3 \ DOMAIN config = {"accessKeyID"}
               \/ type = "http" /\ Schema.http \ DOMAIN config = {"getLatestURLFormat"}
<1>1. CASE type = "local"
  <2>1. c = ConfigureLocal(config)
    BY <1>1 DEF Configure
  <2> QED BY <1>1, <2>1
<1>2. CASE type = "db"
  <2>1. c = ConfigureDB(config)
    BY <1>2 DEF Configure
  <2>2. CASE \E key \in Schema.db : Null(config, key) \/ Malformed(config, key)
    <3>1. c = Fails("error")
      BY <2>1, <2>2 DEF ConfigureDB
    <3> QED BY <3>1
  <2>3. CASE ~ \E key \in Schema.db : Null(config, key) \/ Malformed(config, key)
    <3>1. c = Works("ok", type, config)
      BY <1>2, <2>1, <2>3 DEF ConfigureDB
    <3>2. Schema[type] \subseteq DOMAIN config
      BY <1>2, <2>3 DEF Null
    <3> QED BY <1>2, <3>1, <3>2
  <2> QED BY <2>2, <2>3
<1>3. CASE type = "s3"
  <2>1. c = ConfigureS3(config)
    BY <1>3 DEF Configure
  <2>2. CASE \E key \in Schema.s3 \ {"accessKeyID"} : Null(config, key)
    <3>1. c = Fails("error")
      BY <2>1, <2>2 DEF ConfigureS3
    <3> QED BY <3>1
  <2>3. CASE ~ (\E key \in Schema.s3 \ {"accessKeyID"} : Null(config, key))
    <3>1. \A key \in Schema.s3 \ {"accessKeyID"} : key \in DOMAIN config
      BY <2>3 DEF Null
    <3>2. CASE Null(config, "accessKeyID")
      <4>1. c = Fails("panic")
        BY <2>1, <2>3, <3>2 DEF ConfigureS3
      <4>2. "accessKeyID" \in Schema.s3
        BY DEF Schema
      <4>3. Schema.s3 \ DOMAIN config = {"accessKeyID"}
        BY <3>1, <3>2, <4>2 DEF Null
      <4> QED BY <1>3, <4>1, <4>3
    <3>3. CASE ~ Null(config, "accessKeyID")
      <4>1. c = Works("ok", type, config)
        BY <1>3, <2>1, <2>3, <3>3 DEF ConfigureS3
      <4>2. Schema[type] \subseteq DOMAIN config
        BY <1>3, <3>1, <3>3 DEF Null
      <4> QED BY <1>3, <4>1, <4>2
    <3> QED BY <3>2, <3>3
  <2> QED BY <2>2, <2>3
<1>4. CASE type = "oss"
  <2>1. c = ConfigureOSS(config)
    BY <1>4 DEF Configure
  <2>2. \/ c = Fails("error")
        \/ c = Works("noBucket", type, config)
        \/ /\ c = Works("ok", type, config)
           /\ ~ \E key \in Schema.oss : Null(config, key)
    BY <1>4, <2>1 DEF ConfigureOSS
  <2>3. (~ \E key \in Schema.oss : Null(config, key)) => Schema[type] \subseteq DOMAIN config
    BY <1>4 DEF Null
  <2> QED BY <1>4, <2>2, <2>3
<1>5. CASE type = "http"
  <2>1. c = ConfigureHTTP(config)
    BY <1>5 DEF Configure
  <2> DEFINE needs == {"urlPrefix", "applyURLFormat"}
             refused == \/ \E key \in needs : Null(config, key) \/ Malformed(config, key)
                        \/ Malformed(config, "getLatestURLFormat")
  <2>2. Schema.http = needs \cup {"getLatestURLFormat"}
    BY DEF Schema
  <2>3. CASE refused
    <3>1. c = Fails("error")
      BY <2>1, <2>3 DEF ConfigureHTTP
    <3> QED BY <3>1
  <2>4. CASE ~ refused
    <3>1. \A key \in needs : key \in DOMAIN config
      BY <2>4 DEF Null
    <3>2. CASE Null(config, "getLatestURLFormat")
      <4>1. c = Fails("panic")
        BY <2>1, <2>4, <3>2 DEF ConfigureHTTP
      <4>2. Schema.http \ DOMAIN config = {"getLatestURLFormat"}
        BY <2>2, <3>1, <3>2 DEF Null
      <4> QED BY <1>5, <4>1, <4>2
    <3>3. CASE ~ Null(config, "getLatestURLFormat")
      <4>1. c = Works("ok", type, config)
        BY <1>5, <2>1, <2>4, <3>3 DEF ConfigureHTTP
      <4>2. Schema[type] \subseteq DOMAIN config
        BY <1>5, <2>2, <3>1, <3>3 DEF Null
      <4> QED BY <1>5, <4>1, <4>2
    <3> QED BY <3>2, <3>3
  <2> QED BY <2>3, <2>4
<1> QED BY <1>1, <1>2, <1>3, <1>4, <1>5 DEF StorageTypes

(* The default storage knows one key, and only the local type takes it.    *)
LEMMA SchemaFacts ==
  /\ \A type \in StorageTypes : Schema[type] \subseteq ConfigKeys
  /\ Schema["s3"] = Schema.s3 /\ Schema["http"] = Schema.http
  /\ Schema["local"] = {"path"}
  /\ \A type \in StorageTypes : type # "local" => "path" \notin Schema[type]
<1>1. \A type \in StorageTypes : Schema[type] \subseteq ConfigKeys
  BY DEF ConfigKeys
<1>2. Schema["s3"] = Schema.s3 /\ Schema["http"] = Schema.http
  OBVIOUS
<1>3. Schema["local"] = {"path"}
  BY DEF Schema
<1>4. \A type \in StorageTypes : type # "local" => "path" \notin Schema[type]
  BY DEF Schema, StorageTypes
<1> QED BY <1>1, <1>2, <1>3, <1>4

LEMMA NoStorageIs ==
  /\ NoStorage.type = "undeclared" /\ NoStorage.config = NoConfig /\ DOMAIN NoConfig = {}
  /\ NewDefaultBackend.type = "local" /\ DOMAIN NewDefaultBackend.config = {"path"}
  /\ NewDefaultBackend.config["path"] = Given("default", "text")
BY DEF NoStorage, NoConfig, NewDefaultBackend

(* The pieces of what a command sets up: what it starts from, the type and *)
(* the merged configuration.                                               *)
Base(op) == IF op.storage = NoStorage THEN NewDefaultBackend ELSE op.storage
TypeOf(op) == IF op.flags.type # "" THEN op.flags.type ELSE Base(op).type
Merged(op) == MergeConfig(Base(op).config, op.flags.config)
GivenKeys(op) == DOMAIN op.flags.config \cup DOMAIN op.storage.config

LEMMA MergedIs ==
  ASSUME NEW op \in Operations
  PROVE  /\ TypeOf(op) = AskedType(op)
         /\ GivenKeys(op) \subseteq DOMAIN Merged(op)
         /\ \A key \in DOMAIN Merged(op) :
              /\ key \in DOMAIN op.flags.config =>
                    Merged(op)[key] = op.flags.config[key] /\ Merged(op)[key].by = "flag"
              /\ key \in DOMAIN op.storage.config \ DOMAIN op.flags.config =>
                    /\ Merged(op)[key] = op.storage.config[key]
                    /\ Merged(op)[key].by = "project"
              /\ key \notin GivenKeys(op) =>
                    /\ op.storage = NoStorage /\ key = "path"
                    /\ Merged(op)[key] = Given("default", "text")
         /\ op.storage = NoStorage => "path" \in DOMAIN Merged(op)
<1> DEFINE base == Base(op).config   flags == op.flags.config
<1>1. Merged(op) = [key \in DOMAIN base \cup DOMAIN flags |->
                      IF key \in DOMAIN flags THEN flags[key] ELSE base[key]]
  BY DEF Merged, MergeConfig
<1>2. \A key \in DOMAIN flags : flags[key].by = "flag"
  BY OperationsAssumption
<1>3. CASE op.storage = NoStorage
  <2>1. Base(op) = NewDefaultBackend /\ op.storage.config = NoConfig
    BY <1>3, NoStorageIs DEF Base
  <2>2. /\ DOMAIN base = {"path"} /\ base["path"] = Given("default", "text")
        /\ DOMAIN op.storage.config = {} /\ Base(op).type = "local"
    BY <2>1, NoStorageIs
  <2>3. TypeOf(op) = AskedType(op)
    BY <1>3, <2>2 DEF TypeOf, AskedType
  <2>4. DOMAIN Merged(op) = GivenKeys(op) \cup {"path"} /\ GivenKeys(op) = DOMAIN flags
    BY <1>1, <2>2 DEF GivenKeys
  <2>5. \A key \in DOMAIN flags : Merged(op)[key] = flags[key] /\ Merged(op)[key].by = "flag"
    BY <1>1, <1>2
  <2>6. \A key \in DOMAIN Merged(op) : key \notin GivenKeys(op) =>
            key = "path" /\ Merged(op)[key] = Given("default", "text")
    BY <1>1, <2>2, <2>4
  <2> QED BY <1>3, <2>2, <2>3, <2>4, <2>5, <2>6
<1>4. CASE op.storage # NoStorage
  <2>1. Base(op) = op.storage
    BY <1>4 DEF Base
  <2>2. TypeOf(op) = AskedType(op)
    BY <1>4, <2>1 DEF TypeOf, AskedType
  <2>3. DOMAIN Merged(op) = GivenKeys(op)
    BY <1>1, <2>1 DEF GivenKeys
  <2>4. \A key \in DOMAIN op.storage.config : op.storage.config[key].by = "project"
    BY OperationsAssumption
  <2>5. \A key \in DOMAIN flags : Merged(op)[key] = flags[key] /\ Merged(op)[key].by = "flag"
    BY <1>1, <1>2
  <2>6. \A key \in DOMAIN op.storage.config \ DOMAIN flags :
           Merged(op)[key] = op.storage.config[key] /\ Merged(op)[key].by = "project"
    BY <1>1, <2>1, <2>4
  <2> QED BY <1>4, <2>2, <2>3, <2>5, <2>6
<1> QED BY <1>3, <1>4

LEMMA BackendIs ==
  ASSUME NEW op \in Operations, NEW s, s = BackendFromConfig(op.storage, op.flags)
  PROVE  \/ s = Fails("error")
         \/ /\ TypeOf(op) \in StorageTypes /\ DOMAIN Merged(op) \subseteq Schema[TypeOf(op)]
            /\ s = Configure(TypeOf(op), Merged(op))
BY DEF BackendFromConfig, Base, TypeOf, Merged

(* What the properties say of a storage s, for what a command runs on.     *)
AsAsked(op, s) == s.outcome \in {"ok", "noBucket"} =>
    /\ s.type = AskedType(op)
    /\ GivenKeys(op) \subseteq DOMAIN s.config
    /\ \A key \in DOMAIN s.config : s.config[key].by = Giver(op, key)

NothingShort(op, s) ==
    /\ s.outcome = "ok" => DOMAIN s.config = Schema[s.type]
    /\ s.outcome = "noBucket" => op.storage.type = "oss" \/ op.flags.type = "oss"
    /\ s.outcome = "panic" =>
        \/ AskedType(op) = "s3" /\ Schema.s3 \ GivenKeys(op) = {"accessKeyID"}
        \/ AskedType(op) = "http" /\ Schema.http \ GivenKeys(op) = {"getLatestURLFormat"}

StorageShape(s) ==
    /\ s.outcome \in {"ok", "noBucket", "error", "panic"}
    /\ s.type \in StorageTypes \cup {""} /\ DOMAIN s.config \subseteq ConfigKeys

StorageFits(op, s) == StorageShape(s) /\ AsAsked(op, s) /\ NothingShort(op, s)

LEMMA FailsFits ==
  ASSUME NEW op, NEW s, s = Fails("error")
  PROVE  StorageFits(op, s)
<1>1. s.outcome = "error" /\ s.type = "" /\ s.config = NoConfig
  BY DEF Fails
<1>2. DOMAIN s.config = {}
  BY <1>1, NoStorageIs
<1> QED BY <1>1, <1>2 DEF StorageFits, StorageShape, AsAsked, NothingShort

(* Every key but an empty path is given by the one who spoke last.         *)
LEMMA GiverIs ==
  ASSUME NEW op \in Operations, NEW key \in DOMAIN Merged(op),
         key = "path" => Merged(op)[key].form # "malformed"
  PROVE  Merged(op)[key].by = Giver(op, key)
<1>1. CASE key \in DOMAIN op.flags.config
  <2>1. Merged(op)[key] = op.flags.config[key] /\ Merged(op)[key].by = "flag"
    BY <1>1, MergedIs
  <2>2. ~ EmptyPath(op.flags.config, key)
    BY <2>1 DEF EmptyPath, Malformed
  <2> QED BY <1>1, <2>1, <2>2 DEF Giver
<1>2. CASE key \in DOMAIN op.storage.config \ DOMAIN op.flags.config
  <2>1. Merged(op)[key] = op.storage.config[key] /\ Merged(op)[key].by = "project"
    BY <1>2, MergedIs
  <2>2. ~ EmptyPath(op.storage.config, key)
    BY <2>1 DEF EmptyPath, Malformed
  <2> QED BY <1>2, <2>1, <2>2 DEF Giver
<1>3. CASE key \notin GivenKeys(op)
  <2>1. /\ op.storage = NoStorage /\ key = "path"
        /\ Merged(op)[key] = Given("default", "text")
    BY <1>3, MergedIs
  <2>2. Merged(op)[key].by = "default"
    BY <2>1 DEF Given
  <2>3. Giver(op, key) = "default"
    BY <1>3, <2>1 DEF Giver, GivenKeys
  <2> QED BY <2>2, <2>3
<1> QED BY <1>1, <1>2, <1>3 DEF GivenKeys

(* A path that nobody gives, or an empty one, is that of the process.      *)
LEMMA ProcessGives ==
  ASSUME NEW op \in Operations,
         Null(Merged(op), "path") \/ Malformed(Merged(op), "path")
  PROVE  Giver(op, "path") = "process"
<1>1. CASE "path" \in DOMAIN op.flags.config
  <2>1. "path" \in DOMAIN Merged(op) /\ Merged(op)["path"] = op.flags.config["path"]
    BY <1>1, MergedIs DEF GivenKeys
  <2>2. EmptyPath(op.flags.config, "path")
    BY <1>1, <2>1 DEF EmptyPath, Malformed, Null
  <2> QED BY <1>1, <2>2 DEF Giver
<1>2. CASE "path" \in DOMAIN op.storage.config \ DOMAIN op.flags.config
  <2>1. "path" \in DOMAIN Merged(op) /\ Merged(op)["path"] = op.storage.config["path"]
    BY <1>2, MergedIs DEF GivenKeys
  <2>2. EmptyPath(op.storage.config, "path")
    BY <1>2, <2>1 DEF EmptyPath, Malformed, Null
  <2> QED BY <1>2, <2>2 DEF Giver
<1>3. CASE "path" \notin GivenKeys(op)
  <2>1. op.storage # NoStorage
    <3>1. SUFFICES ASSUME op.storage = NoStorage PROVE FALSE
      OBVIOUS
    <3>2. "path" \in DOMAIN Merged(op) /\ Merged(op)["path"] = Given("default", "text")
      BY <1>3, <3>1, MergedIs
    <3>3. Merged(op)["path"].form = "text"
      BY <3>2 DEF Given
    <3> QED BY <3>2, <3>3 DEF Null, Malformed
  <2> QED BY <1>3, <2>1 DEF Giver, GivenKeys
<1> QED BY <1>1, <1>2, <1>3 DEF GivenKeys

LEMMA LocalFits ==
  ASSUME NEW op \in Operations, NEW config, config = Merged(op), TypeOf(op) = "local",
         DOMAIN config \subseteq Schema["local"], NEW s, s = ConfigureLocal(config)
  PROVE  StorageFits(op, s)
<1>1. /\ AskedType(op) = "local"
      /\ GivenKeys(op) \subseteq {"path"} /\ DOMAIN config \subseteq {"path"}
  BY MergedIs, SchemaFacts
<1>2. "local" \in StorageTypes /\ {"path"} \subseteq ConfigKeys
  BY SchemaFacts DEF StorageTypes
<1> DEFINE unset == Null(config, "path") \/ Malformed(config, "path")
<1>3. CASE unset
  <2>1. s = Works("ok", "local", ProcessPath)
    BY <1>3 DEF ConfigureLocal
  <2>2. s.outcome = "ok" /\ s.type = "local" /\ s.config = ProcessPath
    BY <2>1 DEF Works
  <2>3. DOMAIN s.config = {"path"} /\ s.config["path"].by = "process"
    BY <2>2 DEF ProcessPath, Given
  <2>4. Giver(op, "path") = "process"
    BY <1>3, ProcessGives
  <2>5. StorageShape(s)
    BY <1>2, <2>2, <2>3 DEF StorageShape
  <2>6. AsAsked(op, s)
    BY <1>1, <2>2, <2>3, <2>4 DEF AsAsked
  <2>7. NothingShort(op, s)
    BY <2>2, <2>3, SchemaFacts DEF NothingShort
  <2> QED BY <2>5, <2>6, <2>7 DEF StorageFits
<1>4. CASE ~ unset
  <2>1. s = Works("ok", "local", config)
    BY <1>4 DEF ConfigureLocal
  <2>2. s.outcome = "ok" /\ s.type = "local" /\ s.config = config
    BY <2>1 DEF Works
  <2>3. DOMAIN config = {"path"} /\ config["path"].form # "malformed"
    BY <1>1, <1>4 DEF Null, Malformed
  <2>4. \A key \in DOMAIN config : config[key].by = Giver(op, key)
    BY <2>3, GiverIs
  <2>5. StorageShape(s)
    BY <1>2, <2>2, <2>3 DEF StorageShape
  <2>6. AsAsked(op, s)
    BY <1>1, <2>2, <2>3, <2>4 DEF AsAsked
  <2>7. NothingShort(op, s)
    BY <2>2, <2>3, SchemaFacts DEF NothingShort
  <2> QED BY <2>5, <2>6, <2>7 DEF StorageFits
<1> QED BY <1>3, <1>4

LEMMA ConfiguredFits ==
  ASSUME NEW op \in Operations, NEW type, type = TypeOf(op), NEW config, config = Merged(op),
         type \in StorageTypes, DOMAIN config \subseteq Schema[type], NEW s,
         \/ s = ConfigureLocal(config) /\ type = "local"
         \/ s = Works("ok", type, config) /\ type # "local" /\ DOMAIN config = Schema[type]
         \/ s = Works("noBucket", type, config) /\ type = "oss"
         \/ s = Fails("error")
         \/ /\ s = Fails("panic")
            /\ \/ type = "s3" /\ Schema.s3 \ DOMAIN config = {"accessKeyID"}
               \/ type = "http" /\ Schema.http \ DOMAIN config = {"getLatestURLFormat"}
  PROVE  StorageFits(op, s)
<1>1. type = AskedType(op)
  BY MergedIs
<1>2. DOMAIN config \subseteq ConfigKeys
  <2>1. Schema[type] \subseteq ConfigKeys
    BY SchemaFacts
  <2> QED BY <2>1
<1>3. GivenKeys(op) \subseteq DOMAIN config
  BY MergedIs
<1>4. type # "local" => "path" \notin DOMAIN config
  BY SchemaFacts
<1>5. type = "oss" => op.storage.type = "oss" \/ op.flags.type = "oss"
  BY NoStorageIs DEF TypeOf, Base
<1>6. type # "local" => /\ DOMAIN config = GivenKeys(op)
                        /\ \A key \in DOMAIN config : config[key].by = Giver(op, key)
  <2> SUFFICES ASSUME type # "local"
               PROVE  /\ DOMAIN config = GivenKeys(op)
                      /\ \A key \in DOMAIN config : config[key].by = Giver(op, key)
    OBVIOUS
  <2>1. \A key \in DOMAIN Merged(op) : key \notin GivenKeys(op) => key = "path"
    BY MergedIs
  <2>2. DOMAIN config = GivenKeys(op)
    BY <1>3, <1>4, <2>1
  <2>3. \A key \in DOMAIN Merged(op) : key # "path"
    BY <1>4
  <2>4. \A key \in DOMAIN Merged(op) : Merged(op)[key].by = Giver(op, key)
    BY <2>3, GiverIs
  <2> QED BY <2>2, <2>4
<1>7. CASE s = ConfigureLocal(config) /\ type = "local"
  BY <1>7, LocalFits
<1>8. CASE s = Works("ok", type, config) /\ type # "local" /\ DOMAIN config = Schema[type]
  <2>0. s = Works("ok", type, config)
    BY <1>8
  <2>1. s.outcome = "ok" /\ s.type = type /\ s.config = config
    BY <2>0 DEF Works
  <2>2. StorageShape(s)
    BY <1>2, <2>1 DEF StorageShape
  <2>3. AsAsked(op, s)
    BY <1>1, <1>3, <1>6, <1>8, <2>1 DEF AsAsked
  <2>4. NothingShort(op, s)
    BY <1>8, <2>1 DEF NothingShort
  <2> QED BY <2>2, <2>3, <2>4 DEF StorageFits
<1>9. CASE s = Works("noBucket", type, config) /\ type = "oss"
  <2>0. s = Works("noBucket", type, config)
    BY <1>9
  <2>1. s.outcome = "noBucket" /\ s.type = type /\ s.config = config
    BY <2>0 DEF Works
  <2>2. StorageShape(s)
    BY <1>2, <2>1 DEF StorageShape
  <2>3. AsAsked(op, s)
    BY <1>1, <1>3, <1>6, <1>9, <2>1 DEF AsAsked
  <2>4. NothingShort(op, s)
    BY <1>5, <1>9, <2>1 DEF NothingShort
  <2> QED BY <2>2, <2>3, <2>4 DEF StorageFits
<1>10. CASE s = Fails("error")
  BY <1>10, FailsFits
<1>11. CASE /\ s = Fails("panic")
            /\ \/ type = "s3" /\ Schema.s3 \ DOMAIN config = {"accessKeyID"}
               \/ type = "http" /\ Schema.http \ DOMAIN config = {"getLatestURLFormat"}
  <2>0. s = Fails("panic")
    BY <1>11
  <2>1. s.outcome = "panic" /\ s.type = "" /\ s.config = NoConfig
    BY <2>0 DEF Fails
  <2>2. StorageShape(s)
    BY <2>1, NoStorageIs DEF StorageShape
  <2>3. AsAsked(op, s)
    BY <2>1 DEF AsAsked
  <2>4. NothingShort(op, s)
    BY <1>1, <1>6, <1>11, <2>1 DEF NothingShort
  <2> QED BY <2>2, <2>3, <2>4 DEF StorageFits
<1> QED BY <1>7, <1>8, <1>9, <1>10, <1>11

LEMMA BackendFits ==
  ASSUME NEW op \in Operations, NEW s, s = BackendFromConfig(op.storage, op.flags)
  PROVE  StorageFits(op, s)
<1>1. CASE s = Fails("error")
  BY <1>1, FailsFits
<1>2. CASE /\ TypeOf(op) \in StorageTypes /\ DOMAIN Merged(op) \subseteq Schema[TypeOf(op)]
           /\ s = Configure(TypeOf(op), Merged(op))
  <2>1. PICK type, config : type = TypeOf(op) /\ config = Merged(op)
    OBVIOUS
  <2>2. type \in StorageTypes /\ DOMAIN config \subseteq Schema[type] /\ s = Configure(type, config)
    BY <1>2, <2>1
  <2>3. \/ s = ConfigureLocal(config) /\ type = "local"
        \/ s = Works("ok", type, config) /\ type # "local" /\ DOMAIN config = Schema[type]
        \/ s = Works("noBucket", type, config) /\ type = "oss"
        \/ s = Fails("error")
        \/ /\ s = Fails("panic")
           /\ \/ type = "s3" /\ Schema.s3 \ DOMAIN config = {"accessKeyID"}
              \/ type = "http" /\ Schema.http \ DOMAIN config = {"getLatestURLFormat"}
    BY <2>2, ConfigureIs
  <2> QED BY <2>1, <2>2, <2>3, ConfiguredFits
<1> QED BY <1>1, <1>2, BackendIs

-----------------------------------------------------------------------------
(* What deps answers.  The operators below are those of the module, of a   *)
(* question q instead of the input.                                        *)
Asked(q) == q.focus \ q.ignore
EntrancesOf(q, stack) == q.entrances[stack] \ q.ignore
NameOf(q, v) == IF q.projectOnly THEN v.project ELSE v.stack
Outside(q) == {f \in Asked(q) : \A v \in VisitsOf(q.tree) : f \notin Under(v.stack)}
Reached(q, v, files) ==
    \/ files \cap Under(v.stack) # {}
    \/ \E e \in EntrancesOf(q, v.stack) : e \in files \/ Imported(e) \cap files # {}
DownstreamOf(q, files) == {NameOf(q, v) : v \in {w \in VisitsOf(q.tree) : Reached(q, w, files)}}

LEMMA QuestionTypes ==
  ASSUME NEW q \in Questions
  PROVE  /\ "focus" \in DOMAIN q /\ Asked(q) \subseteq KclFiles
         /\ \A v \in VisitsOf(q.tree) :
              /\ v.project \in Tree /\ v.stack \in Tree /\ NameOf(q, v) \in Tree
              /\ EntrancesOf(q, v.stack) \subseteq KclFiles \ q.ignore
<1>1. /\ "focus" \in DOMAIN q /\ q.focus \subseteq KclFiles
      /\ q.entrances \in [Tree -> SUBSET KclFiles]
  BY QuestionsAssumption
<1>2. FindAllProjectsFrom(q.tree, <<>>) \subseteq Tree
  BY DEF FindAllProjectsFrom, AtOrBelow
<1>3. \A v \in VisitsOf(q.tree) : v.project \in Tree /\ v.stack \in Tree
  BY <1>2 DEF VisitsOf
<1>4. \A v \in VisitsOf(q.tree) : NameOf(q, v) \in Tree
  BY <1>3 DEF NameOf
<1>5. \A v \in VisitsOf(q.tree) : EntrancesOf(q, v.stack) \subseteq KclFiles \ q.ignore
  BY <1>1, <1>3 DEF EntrancesOf
<1>6. Asked(q) \subseteq KclFiles
  BY <1>1 DEF Asked
<1> QED BY <1>1, <1>3, <1>4, <1>5, <1>6

(* A nonempty set of directories has a first one in the lexical order.     *)
LEMMA FirstDir ==
  ASSUME NEW S \in SUBSET Tree, S # {}
  PROVE  \E d \in S : \A e \in S : Rank[d] <= Rank[e]
<1> DEFINE Ranks == {Rank[d] : d \in S}
           Less == {p \in Nat \X Nat : p[1] < p[2]}
<1>1. \A d \in S : Rank[d] \in Nat
  BY RankAssumption
<1>2. IsWellFoundedOn(Less, Nat)
  BY NatLessThanWellFounded, Zenon DEF OpToRel
<1>3. \A a, b \in Nat : <<a, b>> \in Less <=> a < b
  OBVIOUS
<1>4. Ranks \in SUBSET Nat /\ Ranks # {}
  BY <1>1
<1> HIDE DEF Less
<1>5. PICK m \in Ranks : \A n \in Ranks : ~(<<n, m>> \in Less)
  BY <1>2, <1>4, WFMin
<1>6. PICK d \in S : m = Rank[d]
  OBVIOUS
<1>7. ASSUME NEW e \in S PROVE Rank[d] <= Rank[e]
  <2>1. Rank[e] \in Ranks
    OBVIOUS
  <2>2. ~(Rank[e] < Rank[d])
    BY <1>1, <1>3, <1>5, <1>6, <2>1
  <2> QED BY <1>1, <2>2
<1> QED BY <1>7

(* So a walk that has not ended has a next visit.                          *)
LEMMA NextVisitIs ==
  ASSUME NEW q \in Questions, NEW vs \in SUBSET VisitsOf(q.tree), vs # {}
  PROVE  NextVisit(vs) \in vs
<1>1. \A v \in vs : v.project \in Tree /\ v.stack \in Tree
  BY QuestionTypes
<1>2. PICK p \in {v.project : v \in vs} : \A r \in {v.project : v \in vs} : Rank[p] <= Rank[r]
  <2>1. {v.project : v \in vs} \in SUBSET Tree /\ {v.project : v \in vs} # {}
    BY <1>1
  <2> QED BY <2>1, FirstDir
<1> DEFINE ofFirst == {v \in vs : v.project = p}
<1>3. PICK s \in {v.stack : v \in ofFirst} : \A r \in {v.stack : v \in ofFirst} : Rank[s] <= Rank[r]
  <2>1. {v.stack : v \in ofFirst} \in SUBSET Tree /\ {v.stack : v \in ofFirst} # {}
    BY <1>1
  <2> QED BY <2>1, FirstDir
<1>4. PICK v \in vs : v.project = p /\ v.stack = s
  OBVIOUS
<1>5. ASSUME NEW w \in vs
      PROVE  \/ Rank[v.project] < Rank[w.project]
             \/ v.project = w.project /\ Rank[v.stack] <= Rank[w.stack]
  <2>1. CASE w.project = p
    BY <1>3, <1>4, <2>1
  <2>2. CASE w.project # p
    <3>1. Rank[p] <= Rank[w.project]
      BY <1>2
    <3>2. p \in Tree /\ w.project \in Tree
      BY <1>1, <1>4
    <3>3. Rank[p] \in Nat /\ Rank[w.project] \in Nat /\ Rank[p] # Rank[w.project]
      BY <2>2, <3>2, RankAssumption
    <3> QED BY <1>4, <3>1, <3>3
  <2> QED BY <2>1, <2>2
<1> QED BY <1>4, <1>5 DEF NextVisit

(* What the walk knows: of what it visited it has told that it is          *)
(* downstream, or it has noted all its entrance files for the end.         *)
IndexedFrom(q, ix) == \A entry \in ix : \E v \in VisitsOf(q.tree) :
    \E e \in EntrancesOf(q, v.stack) : entry = <<e, NameOf(q, v)>> /\ e \notin Outside(q)

AnswersFit(q, f, ix, ds) ==
    f \subseteq Asked(q) /\ IndexedFrom(q, ix) /\ ds \subseteq DownstreamOf(q, Asked(q))

Settled(q, v, ix, ds) ==
    \/ NameOf(q, v) \in ds
    \/ \A e \in EntrancesOf(q, v.stack) : <<e, NameOf(q, v)>> \in ix

Walks(q, vs, f, ix, ds) ==
    /\ vs \subseteq VisitsOf(q.tree) /\ Outside(q) \subseteq f
    /\ \A v \in VisitsOf(q.tree) \ vs : Settled(q, v, ix, ds)

LEMMA CutsWell ==
  ASSUME NEW q \in Questions, NEW v \in VisitsOf(q.tree), NEW f, f \subseteq Asked(q),
         Outside(q) \subseteq f
  PROVE  f \ Under(v.stack) \subseteq Asked(q) /\ Outside(q) \subseteq f \ Under(v.stack)
BY DEF Outside

LEMMA NamesWell ==
  ASSUME NEW q \in Questions, NEW v \in VisitsOf(q.tree), NEW f, f \subseteq Asked(q),
         f \cap Under(v.stack) # {} \/ EntrancesOf(q, v.stack) \cap f # {}
  PROVE  NameOf(q, v) \in DownstreamOf(q, Asked(q))
<1>1. Reached(q, v, Asked(q))
  BY DEF Reached
<1> QED BY <1>1 DEF DownstreamOf

(* A stack told to be downstream. *)
LEMMA VisitNames ==
  ASSUME NEW q \in Questions, NEW vs, NEW f, NEW ix, NEW ds, NEW v \in vs,
         AnswersFit(q, f, ix, ds), Walks(q, vs, f, ix, ds),
         f \cap Under(v.stack) # {} \/ EntrancesOf(q, v.stack) \cap f # {}
  PROVE  /\ AnswersFit(q, f \ Under(v.stack), ix, ds \cup {NameOf(q, v)})
         /\ Walks(q, vs \ {v}, f \ Under(v.stack), ix, ds \cup {NameOf(q, v)})
<1>1. v \in VisitsOf(q.tree) /\ f \subseteq Asked(q) /\ Outside(q) \subseteq f
  BY DEF Walks, AnswersFit
<1>2. NameOf(q, v) \in DownstreamOf(q, Asked(q))
  BY <1>1, NamesWell
<1>3. f \ Under(v.stack) \subseteq Asked(q) /\ Outside(q) \subseteq f \ Under(v.stack)
  BY <1>1, CutsWell
<1>4. AnswersFit(q, f \ Under(v.stack), ix, ds \cup {NameOf(q, v)})
  BY <1>2, <1>3 DEF AnswersFit
<1>5. Settled(q, v, ix, ds \cup {NameOf(q, v)})
  BY DEF Settled
<1>6. \A w \in VisitsOf(q.tree) \ vs : Settled(q, w, ix, ds \cup {NameOf(q, v)})
  BY DEF Walks, Settled
<1>7. vs \ {v} \subseteq VisitsOf(q.tree)
  BY DEF Walks
<1> QED BY <1>3, <1>4, <1>5, <1>6, <1>7 DEF Walks

(* A stack whose entrance files are noted. *)
LEMMA VisitNotes ==
  ASSUME NEW q \in Questions, NEW vs, NEW f, NEW ix, NEW ds, NEW v \in vs,
         AnswersFit(q, f, ix, ds), Walks(q, vs, f, ix, ds),
         EntrancesOf(q, v.stack) \cap f = {},
         NEW jx, jx = ix \cup (EntrancesOf(q, v.stack) \X {NameOf(q, v)})
  PROVE  /\ AnswersFit(q, f \ Under(v.stack), jx, ds)
         /\ Walks(q, vs \ {v}, f \ Under(v.stack), jx, ds)
<1>1. v \in VisitsOf(q.tree) /\ f \subseteq Asked(q) /\ Outside(q) \subseteq f
  BY DEF Walks, AnswersFit
<1>2. f \ Under(v.stack) \subseteq Asked(q) /\ Outside(q) \subseteq f \ Under(v.stack)
  BY <1>1, CutsWell
<1>3. ASSUME NEW entry \in EntrancesOf(q, v.stack) \X {NameOf(q, v)}
      PROVE  \E e \in EntrancesOf(q, v.stack) : entry = <<e, NameOf(q, v)>> /\ e \notin Outside(q)
  <2>1. PICK e \in EntrancesOf(q, v.stack) : entry = <<e, NameOf(q, v)>>
    OBVIOUS
  <2>2. e \notin Outside(q)
    BY <1>1, <2>1
  <2> QED BY <2>1, <2>2
<1>4. IndexedFrom(q, jx)
  <2> SUFFICES ASSUME NEW entry \in jx
               PROVE  \E w \in VisitsOf(q.tree) : \E e \in EntrancesOf(q, w.stack) :
                        entry = <<e, NameOf(q, w)>> /\ e \notin Outside(q)
    BY DEF IndexedFrom
  <2>1. CASE entry \in ix
    BY <2>1 DEF AnswersFit, IndexedFrom
  <2>2. CASE entry \in EntrancesOf(q, v.stack) \X {NameOf(q, v)}
    BY <1>1, <1>3, <2>2
  <2> QED BY <2>1, <2>2
<1>5. AnswersFit(q, f \ Under(v.stack), jx, ds)
  BY <1>2, <1>4 DEF AnswersFit
<1>6. Settled(q, v, jx, ds)
  BY DEF Settled
<1>7. \A w \in VisitsOf(q.tree) \ vs : Settled(q, w, jx, ds)
  BY DEF Walks, Settled
<1>8. vs \ {v} \subseteq VisitsOf(q.tree)
  BY DEF Walks
<1> QED BY <1>2, <1>5, <1>6, <1>7, <1>8 DEF Walks

(* At the end the noted ones that import what is left are told too; of     *)
(* what is reached from outside the stacks nothing is missing then.        *)
Noted(ix) == {entry[1] : entry \in ix}
NotedFor(ix, files) == {entry[2] : entry \in {e \in ix : e[1] \in files}}

LEMMA AskTells ==
  ASSUME NEW q \in Questions, NEW f, NEW ix, NEW ds,
         AnswersFit(q, f, ix, ds), Walks(q, {}, f, ix, ds),
         NEW files, files = ListDownStreamFiles(Noted(ix), f),
         NEW es, es = ds \cup NotedFor(ix, files)
  PROVE  AnswersFit(q, f, ix, es) /\ DownstreamOf(q, Outside(q)) \subseteq es
<1>1. f \subseteq Asked(q) /\ Outside(q) \subseteq f /\ IndexedFrom(q, ix)
  BY DEF Walks, AnswersFit
<1>2. ASSUME NEW entry \in ix, entry[1] \in files
      PROVE  entry[2] \in DownstreamOf(q, Asked(q))
  <2>0. PICK v \in VisitsOf(q.tree) :
           \E e \in EntrancesOf(q, v.stack) : entry = <<e, NameOf(q, v)>> /\ e \notin Outside(q)
    BY <1>1 DEF IndexedFrom
  <2>1. PICK e \in EntrancesOf(q, v.stack) : entry = <<e, NameOf(q, v)>>
    BY <2>0
  <2>2. Imported(e) \cap f # {}
    BY <1>2, <2>1 DEF ListDownStreamFiles
  <2>3. Reached(q, v, Asked(q))
    BY <1>1, <2>1, <2>2 DEF Reached
  <2> QED BY <2>1, <2>3 DEF DownstreamOf
<1>3. AnswersFit(q, f, ix, es)
  BY <1>2 DEF AnswersFit, NotedFor
<1>4. ASSUME NEW v \in VisitsOf(q.tree), Reached(q, v, Outside(q)) PROVE NameOf(q, v) \in es
  <2>1. Outside(q) \cap Under(v.stack) = {}
    BY DEF Outside
  <2>2. PICK e \in EntrancesOf(q, v.stack) : e \in Outside(q) \/ Imported(e) \cap Outside(q) # {}
    BY <1>4, <2>1 DEF Reached
  <2>3. CASE NameOf(q, v) \in ds
    BY <2>3
  <2>4. CASE NameOf(q, v) \notin ds
    <3>1. <<e, NameOf(q, v)>> \in ix
      BY <2>4 DEF Walks, Settled
    <3>2. e \notin Outside(q)
      BY <1>1, <3>1 DEF IndexedFrom
    <3>3. Imported(e) \cap f # {}
      BY <1>1, <2>2, <3>2
    <3>4. PICK entry \in ix : entry = <<e, NameOf(q, v)>>
      BY <3>1
    <3>5. entry[1] = e /\ entry[2] = NameOf(q, v)
      BY <3>4
    <3>6. e \in Noted(ix)
      BY <3>5 DEF Noted
    <3>7. e \in files
      BY <3>3, <3>6 DEF ListDownStreamFiles
    <3>8. NameOf(q, v) \in NotedFor(ix, files)
      BY <3>5, <3>7 DEF NotedFor
    <3> QED BY <3>8
  <2> QED BY <2>3, <2>4
<1>5. DownstreamOf(q, Outside(q)) \subseteq es
  BY <1>4, Zenon DEF DownstreamOf
<1> QED BY <1>3, <1>5

-----------------------------------------------------------------------------
(* The invariant: an operation has detected what it should have and has    *)
(* the storage that it should have, and a question is asked, walked over   *)
(* or answered.  Inductive.                                                *)
OperationInv(op, at, detected, s, vs, f, ix, ds) ==
    /\ at \in {"detect", "configure", "done", "failed"}
    /\ \/ detected = Nothing
       \/ /\ detected = Detected(op.tree, op.dir, op.cwd)
          /\ detected.project # {} /\ detected.stack # {}
    /\ StorageFits(op, s)
    /\ at = "done" => s.outcome \in {"ok", "noBucket"}
    /\ vs = {} /\ f = {} /\ ix = {} /\ ds = {}

QuestionInv(q, at, detected, s, vs, f, ix, ds) ==
    /\ at \in {"find", "visit", "done", "failed"}
    /\ detected = Nothing /\ s = Fails("error")
    /\ AnswersFit(q, f, ix, ds)
    /\ at = "find" => ix = {} /\ ds = {}
    /\ at = "visit" => Walks(q, vs, f, ix, ds)
    /\ at = "done" => DownstreamOf(q, Outside(q)) \subseteq ds

WorkspaceInv ==
    \/ /\ input \in Operations
       /\ OperationInv(input, phase, found, storage, visits, focus, index, downs)
    \/ /\ input \in Questions
       /\ QuestionInv(input, phase, found, storage, visits, focus, index, downs)

LEMMA Nothings ==
  ASSUME NEW q
  PROVE  /\ AnswersFit(q, {}, {}, {}) /\ Nothing.project = {} /\ Nothing.stack = {}
         /\ Asked(q) = {} => DownstreamOf(q, Outside(q)) = {}
<1>1. AnswersFit(q, {}, {}, {})
  BY DEF AnswersFit, IndexedFrom
<1>2. Nothing.project = {} /\ Nothing.stack = {}
  BY DEF Nothing
<1>3. ASSUME Asked(q) = {} PROVE DownstreamOf(q, Outside(q)) = {}
  <2>1. Outside(q) = {}
    BY <1>3 DEF Outside
  <2>2. \A v \in VisitsOf(q.tree) : ~ Reached(q, v, Outside(q))
    BY <2>1 DEF Reached
  <2> QED BY <2>2 DEF DownstreamOf
<1> QED BY <1>1, <1>2, <1>3

LEMMA WorkspaceStarts == WorkspaceInit => WorkspaceInv
<1> SUFFICES ASSUME WorkspaceInit PROVE WorkspaceInv
  OBVIOUS
<1>1. /\ found = Nothing /\ storage = Fails("error")
      /\ visits = {} /\ focus = {} /\ index = {} /\ downs = {}
  BY DEF WorkspaceInit
<1>2. CASE input \in Operations /\ phase = "detect"
  <2>1. StorageFits(input, storage)
    BY <1>1, FailsFits
  <2> QED BY <1>1, <1>2, <2>1 DEF WorkspaceInv, OperationInv
<1>3. CASE input \in Questions /\ phase = "find"
  <2>1. AnswersFit(input, focus, index, downs)
    BY <1>1, Nothings
  <2> QED BY <1>1, <1>3, <2>1 DEF WorkspaceInv, QuestionInv
<1> QED BY <1>2, <1>3 DEF WorkspaceInit

LEMMA DetectKeeps == WorkspaceInv /\ Detect => WorkspaceInv'
<1> SUFFICES ASSUME WorkspaceInv, Detect PROVE WorkspaceInv'
  OBVIOUS
<1> DEFINE detected == Detected(input.tree, input.dir, input.cwd)
<1>1. /\ phase = "detect"
      /\ \/ phase' = "failed" /\ found' = found
         \/ /\ phase' = "configure" /\ found' = detected
            /\ detected.project # {} /\ detected.stack # {}
      /\ UNCHANGED <<input, storage, visits, focus, index, downs>>
  BY DEF Detect
<1>2. /\ input \in Operations
      /\ OperationInv(input, phase, found, storage, visits, focus, index, downs)
  BY <1>1 DEF WorkspaceInv, QuestionInv
<1> HIDE DEF detected
<1>3. OperationInv(input, phase', found', storage, visits, focus, index, downs)
  BY <1>1, <1>2 DEF OperationInv, detected
<1> QED BY <1>1, <1>2, <1>3 DEF WorkspaceInv

LEMMA SetUpKeeps == WorkspaceInv /\ SetUpStorage => WorkspaceInv'
<1> SUFFICES ASSUME WorkspaceInv, SetUpStorage PROVE WorkspaceInv'
  OBVIOUS
<1>1. /\ phase = "configure" /\ storage' = BackendFromConfig(input.storage, input.flags)
      /\ \/ phase' = "done" /\ storage'.outcome \in {"ok", "noBucket"}
         \/ phase' = "failed"
      /\ UNCHANGED <<input, found, visits, focus, index, downs>>
  BY DEF SetUpStorage
<1>2. /\ input \in Operations
      /\ OperationInv(input, phase, found, storage, visits, focus, index, downs)
  BY <1>1 DEF WorkspaceInv, QuestionInv
<1>3. StorageFits(input, storage')
  BY <1>1, <1>2, BackendFits
<1>4. OperationInv(input, phase', found, storage', visits, focus, index, downs)
  BY <1>1, <1>2, <1>3 DEF OperationInv
<1> QED BY <1>1, <1>2, <1>4 DEF WorkspaceInv

LEMMA FindKeeps == WorkspaceInv /\ Find => WorkspaceInv'
<1> SUFFICES ASSUME WorkspaceInv, Find PROVE WorkspaceInv'
  OBVIOUS
<1>1. phase = "find" /\ UNCHANGED <<input, found, storage, index, downs>>
  BY DEF Find
<1>2. /\ input \in Questions
      /\ QuestionInv(input, phase, found, storage, visits, focus, index, downs)
  BY <1>1 DEF WorkspaceInv, OperationInv
<1>3. CASE input.focus \subseteq input.ignore /\ phase' = "done" /\ UNCHANGED <<visits, focus>>
  <2>1. Asked(input) = {}
    BY <1>3 DEF Asked
  <2>2. DownstreamOf(input, Outside(input)) \subseteq downs
    BY <2>1, Nothings
  <2>3. QuestionInv(input, phase', found, storage, visits, focus, index, downs)
    BY <1>2, <1>3, <2>2 DEF QuestionInv
  <2> QED BY <1>1, <1>2, <1>3, <2>3 DEF WorkspaceInv
<1>4. CASE phase' = "failed" /\ UNCHANGED <<visits, focus>>
  <2>1. QuestionInv(input, phase', found, storage, visits, focus, index, downs)
    BY <1>2, <1>4 DEF QuestionInv
  <2> QED BY <1>1, <1>2, <1>4, <2>1 DEF WorkspaceInv
<1>5. CASE focus' = Asked(input) /\ visits' = VisitsOf(input.tree) /\ phase' = "visit"
  <2>1. index = {} /\ downs = {}
    BY <1>1, <1>2 DEF QuestionInv
  <2>2. AnswersFit(input, focus', index, downs)
    BY <1>5, <2>1 DEF AnswersFit, IndexedFrom
  <2>3. Walks(input, visits', focus', index, downs)
    BY <1>5 DEF Walks, Outside
  <2>4. QuestionInv(input, phase', found, storage, visits', focus', index, downs)
    BY <1>2, <1>5, <2>2, <2>3 DEF QuestionInv
  <2> QED BY <1>1, <1>2, <2>4 DEF WorkspaceInv
<1> QED BY <1>3, <1>4, <1>5 DEF Find, Asked

LEMMA VisitKeeps == WorkspaceInv /\ Visit => WorkspaceInv'
<1> SUFFICES ASSUME WorkspaceInv, Visit PROVE WorkspaceInv'
  OBVIOUS
<1>1. phase = "visit" /\ visits # {} /\ UNCHANGED <<input, found, storage>>
  BY DEF Visit
<1>2. /\ input \in Questions
      /\ QuestionInv(input, phase, found, storage, visits, focus, index, downs)
  BY <1>1 DEF WorkspaceInv, OperationInv
<1>3. AnswersFit(input, focus, index, downs) /\ Walks(input, visits, focus, index, downs)
  BY <1>1, <1>2 DEF QuestionInv
<1>4. PICK v : v = NextVisit(visits)
  OBVIOUS
<1>5. v \in visits
  BY <1>1, <1>2, <1>3, <1>4, NextVisitIs DEF Walks
<1> DEFINE entrances == EntrancesOf(input, v.stack)   name == NameOf(input, v)
<1>6. /\ focus' = focus \ Under(v.stack)
      /\ \/ /\ focus \cap Under(v.stack) # {} \/ entrances \cap focus # {}
            /\ downs' = downs \cup {name} /\ visits' = visits \ {v}
            /\ UNCHANGED <<phase, index>>
         \/ phase' = "failed" /\ UNCHANGED <<visits, index, downs>>
         \/ /\ entrances \cap focus = {}
            /\ index' = index \cup (entrances \X {name}) /\ visits' = visits \ {v}
            /\ UNCHANGED <<phase, downs>>
  BY <1>4, Zenon DEF Visit, Entrances, EntrancesOf, NamedBy, NameOf, Uncut
<1>7. CASE /\ focus \cap Under(v.stack) # {} \/ entrances \cap focus # {}
           /\ downs' = downs \cup {name} /\ visits' = visits \ {v}
           /\ UNCHANGED <<phase, index>>
  <2>1. AnswersFit(input, focus', index, downs') /\ Walks(input, visits', focus', index, downs')
    BY <1>2, <1>3, <1>5, <1>6, <1>7, VisitNames
  <2>2. QuestionInv(input, phase, found, storage, visits', focus', index, downs')
    BY <1>1, <1>2, <2>1 DEF QuestionInv
  <2> QED BY <1>1, <1>2, <1>7, <2>2 DEF WorkspaceInv
<1>8. CASE phase' = "failed" /\ UNCHANGED <<visits, index, downs>>
  <2>1. AnswersFit(input, focus', index, downs)
    BY <1>3, <1>6 DEF AnswersFit
  <2>2. QuestionInv(input, phase', found, storage, visits, focus', index, downs)
    BY <1>2, <1>8, <2>1 DEF QuestionInv
  <2> QED BY <1>1, <1>2, <1>8, <2>2 DEF WorkspaceInv
<1>9. CASE /\ entrances \cap focus = {}
           /\ index' = index \cup (entrances \X {name}) /\ visits' = visits \ {v}
           /\ UNCHANGED <<phase, downs>>
  <2>1. AnswersFit(input, focus', index', downs) /\ Walks(input, visits', focus', index', downs)
    BY <1>2, <1>3, <1>5, <1>6, <1>9, VisitNotes
  <2>2. QuestionInv(input, phase, found, storage, visits', focus', index', downs)
    BY <1>1, <1>2, <2>1 DEF QuestionInv
  <2> QED BY <1>1, <1>2, <1>9, <2>2 DEF WorkspaceInv
<1> QED BY <1>6, <1>7, <1>8, <1>9

LEMMA AskKeeps == WorkspaceInv /\ Ask => WorkspaceInv'
<1> SUFFICES ASSUME WorkspaceInv, Ask PROVE WorkspaceInv'
  OBVIOUS
<1>1. /\ phase = "visit" /\ visits = {} /\ phase' = "done"
      /\ UNCHANGED <<input, found, storage, visits, focus, index>>
  BY DEF Ask
<1>2. /\ input \in Questions
      /\ QuestionInv(input, phase, found, storage, visits, focus, index, downs)
  BY <1>1 DEF WorkspaceInv, OperationInv
<1>3. AnswersFit(input, focus, index, downs) /\ Walks(input, {}, focus, index, downs)
  BY <1>1, <1>2 DEF QuestionInv
<1>4. PICK files : files = ListDownStreamFiles(Noted(index), focus)
  OBVIOUS
<1>5. PICK es : es = downs \cup NotedFor(index, files)
  OBVIOUS
<1>6. downs' = es
  BY <1>4, <1>5 DEF Ask, Noted, NotedFor
<1>7. AnswersFit(input, focus, index, es) /\ DownstreamOf(input, Outside(input)) \subseteq es
  BY <1>2, <1>3, <1>4, <1>5, AskTells
<1>8. QuestionInv(input, phase', found, storage, visits, focus, index, downs')
  BY <1>1, <1>2, <1>6, <1>7 DEF QuestionInv
<1> QED BY <1>1, <1>2, <1>8 DEF WorkspaceInv

(* Whatever directory, storage and flags a command is given, and whatever  *)
(* files deps is asked about, what it has found out so far is right        *)
(* (project.go:25-86, util.go:25-123, deps/options.go:66-302).             *)
THEOREM WorkspaceInvariant == WorkspaceSpec => []WorkspaceInv
<1>1. WorkspaceInv /\ [WorkspaceNext]_workspaceVars => WorkspaceInv'
  <2> SUFFICES ASSUME WorkspaceInv, [WorkspaceNext]_workspaceVars PROVE WorkspaceInv'
    OBVIOUS
  <2>1. CASE UNCHANGED workspaceVars
    BY <2>1 DEF WorkspaceInv, workspaceVars
  <2>2. CASE WorkspaceNext
    BY <2>1, <2>2, DetectKeeps, SetUpKeeps, FindKeeps, VisitKeeps, AskKeeps
       DEF WorkspaceNext, Finished
  <2> QED BY <2>1, <2>2
<1> QED BY <1>1, WorkspaceStarts, PTL DEF WorkspaceSpec

(* An input is one or the other. *)
LEMMA InputIs ==
  ASSUME WorkspaceInv
  PROVE  \/ /\ input \in Operations /\ ~ IsQuestion
            /\ OperationInv(input, phase, found, storage, visits, focus, index, downs)
         \/ /\ input \in Questions /\ IsQuestion
            /\ QuestionInv(input, phase, found, storage, visits, focus, index, downs)
<1>1. input \in Operations => ~ IsQuestion
  BY OperationsAssumption DEF IsQuestion
<1>2. input \in Questions => IsQuestion
  BY QuestionTypes DEF IsQuestion
<1> QED BY <1>1, <1>2 DEF WorkspaceInv

LEMMA FoundFits ==
  ASSUME WorkspaceInv
  PROVE  /\ Cardinality(found.project) <= 1 /\ found.project \subseteq Tree
         /\ Cardinality(found.stack) <= 1 /\ found.stack \subseteq Tree
         /\ DetectsTheStackGiven
<1>1. CASE found = Nothing
  <2>1. found.project = {} /\ found.stack = {}
    BY <1>1, Nothings
  <2>2. DetectsTheStackGiven
    BY <1>1 DEF DetectsTheStackGiven
  <2>3. Cardinality({}) = 0
    BY SmallSet
  <2> QED BY <2>1, <2>2, <2>3
<1>2. CASE found # Nothing
  <2>1. /\ input \in Operations /\ found = Detected(input.tree, input.dir, input.cwd)
        /\ found.project # {} /\ found.stack # {}
    BY <1>2 DEF WorkspaceInv, OperationInv, QuestionInv
  <2>2. PICK p : p = FindProjectPathFrom(input.tree, input.dir, input.cwd)
    OBVIOUS
  <2>3. p \in Tree /\ found.project = {p} /\ \E s \in Tree : found.stack = {s}
    BY <2>1, <2>2, DetectedIs
  <2>4. PICK s \in Tree : found.stack = {s}
    BY <2>3
  <2>5. Cardinality({p}) = 1 /\ Cardinality({s}) = 1
    BY SmallSet
  <2>6. DetectsTheStackGiven
    <3>1. DetectedWell(input, found)
      BY <2>1, DetectedFits
    <3> QED BY <3>1 DEF DetectsTheStackGiven, DetectedWell, Around, ProjectsBelow
  <2> QED BY <2>3, <2>4, <2>5, <2>6
<1> QED BY <1>1, <1>2

LEMMA SameReach ==
  \A files : Downstream(files) = DownstreamOf(input, files)
<1>1. ASSUME NEW files, NEW v
      PROVE  StackReached(input.tree, v.stack, files) <=> Reached(input, v, files)
  BY DEF StackReached, Reached, EntrancesOf
<1>2. ASSUME NEW files
      PROVE  {v \in VisitsOf(input.tree) : StackReached(input.tree, v.stack, files)}
               = {v \in VisitsOf(input.tree) : Reached(input, v, files)}
  BY <1>1
<1>3. ASSUME NEW files, NEW stacks,
             stacks = {v \in VisitsOf(input.tree) : Reached(input, v, files)}
      PROVE  {IF input.projectOnly THEN v.project ELSE v.stack : v \in stacks}
               = {NameOf(input, v) : v \in stacks}
  BY DEF NameOf
<1>4. ASSUME NEW files PROVE Downstream(files) = DownstreamOf(input, files)
  BY <1>2, <1>3, Zenon DEF Downstream, DownstreamOf
<1> QED BY <1>4

LEMMA AnswersTypes ==
  ASSUME NEW q \in Questions, NEW f, NEW ix, NEW ds, AnswersFit(q, f, ix, ds)
  PROVE  /\ f \subseteq KclFiles /\ f \subseteq q.focus \ q.ignore
         /\ ix \subseteq (KclFiles \ q.ignore) \X Tree /\ ds \subseteq Tree
<1>1. f \subseteq Asked(q) /\ ds \subseteq DownstreamOf(q, Asked(q)) /\ IndexedFrom(q, ix)
  BY DEF AnswersFit
<1>2. DownstreamOf(q, Asked(q)) \subseteq Tree
  BY QuestionTypes DEF DownstreamOf
<1>3. ASSUME NEW entry \in ix PROVE entry \in (KclFiles \ q.ignore) \X Tree
  <2>1. PICK v \in VisitsOf(q.tree) :
           \E e \in EntrancesOf(q, v.stack) : entry = <<e, NameOf(q, v)>> /\ e \notin Outside(q)
    BY <1>1 DEF IndexedFrom
  <2> QED BY <2>1, QuestionTypes
<1>4. f \subseteq KclFiles
  BY <1>1, QuestionTypes
<1> QED BY <1>1, <1>2, <1>3, <1>4 DEF Asked

LEMMA WorkspaceTyped ==
  ASSUME WorkspaceInv PROVE WorkspaceTypeOK
<1>1. StorageShape(storage)
  BY FailsFits DEF WorkspaceInv, OperationInv, QuestionInv, StorageFits
<1>2. phase \in {"detect", "configure", "find", "visit", "done", "failed"}
  BY DEF WorkspaceInv, OperationInv, QuestionInv
<1>3. CASE /\ input \in Operations /\ ~ IsQuestion
           /\ OperationInv(input, phase, found, storage, visits, focus, index, downs)
  <2>1. focus = {}
    BY <1>3 DEF OperationInv
  <2> QED BY <1>1, <1>2, <1>3, <2>1, FoundFits DEF WorkspaceTypeOK, StorageShape
<1>4. CASE /\ input \in Questions /\ IsQuestion
           /\ QuestionInv(input, phase, found, storage, visits, focus, index, downs)
  <2>1. AnswersFit(input, focus, index, downs)
    BY <1>4 DEF QuestionInv
  <2>2. /\ focus \subseteq KclFiles /\ focus \subseteq input.focus \ input.ignore
        /\ index \subseteq (KclFiles \ input.ignore) \X Tree /\ downs \subseteq Tree
    BY <1>4, <2>1, AnswersTypes
  <2> QED BY <1>1, <1>2, <2>2, FoundFits DEF WorkspaceTypeOK, StorageShape
<1> QED BY <1>3, <1>4, InputIs

(* DetectionRight, for every tree: a command works on the stack of the     *)
(* directory it was given and on the closest project around it, and on no  *)
(* other project's (project.go:143-184, stack.go:136-152).                 *)
THEOREM DetectionRightHolds == WorkspaceSpec => []DetectionRight
<1>1. WorkspaceInv => DetectionRight
  BY WorkspaceTyped, FoundFits DEF DetectionRight
<1> QED BY <1>1, WorkspaceInvariant, PTL

(* StorageRight, for every configuration and flags: the state is kept      *)
(* where the flags, then project.yaml, then a default path say, in a       *)
(* storage that has all it needs (backend.go:45-128, each Configure).      *)
THEOREM StorageRightHolds == WorkspaceSpec => []StorageRight
<1>1. ASSUME WorkspaceInv PROVE StorageRight
  <2>1. CASE IsQuestion
    BY <2>1 DEF StorageRight, StorageAsAsked, CompleteOrRefused
  <2>2. CASE ~ IsQuestion
    <3>1. /\ OperationInv(input, phase, found, storage, visits, focus, index, downs)
      BY <1>1, <2>2, InputIs
    <3>2. AsAsked(input, storage) /\ NothingShort(input, storage)
      BY <3>1 DEF OperationInv, StorageFits
    <3>3. phase = "done" => storage.outcome \in {"ok", "noBucket"}
      BY <3>1 DEF OperationInv
    <3>4. CompleteOrRefused
      BY <3>2 DEF CompleteOrRefused, NothingShort, GivenKeys
    <3>5. StorageAsAsked
      <4> SUFFICES ASSUME phase = "done" PROVE StorageAsAsked
        BY DEF StorageAsAsked
      <4>1. /\ storage.type = AskedType(input)
            /\ GivenKeys(input) \subseteq DOMAIN storage.config
        BY <3>2, <3>3 DEF AsAsked
      <4>2. \A key \in DOMAIN storage.config : storage.config[key].by = Giver(input, key)
        BY <3>2, <3>3 DEF AsAsked
      <4> QED BY <4>1, <4>2 DEF StorageAsAsked, GivenKeys
    <3> QED BY <3>4, <3>5 DEF StorageRight
  <2> QED BY <2>1, <2>2
<1> QED BY <1>1, WorkspaceInvariant, PTL

(* DepsRight, for every tree, import relation and order of the stacks:     *)
(* deps names only what the files reach, and all that is reached from one  *)
(* outside every stack (deps/options.go:164-302).                          *)
THEOREM DepsRightHolds == WorkspaceSpec => []DepsRight
<1>1. ASSUME WorkspaceInv PROVE DepsRight
  <2>1. CASE ~ IsQuestion
    BY <2>1 DEF DepsRight, OnlyDownstream, UncutFilesCount
  <2>2. CASE IsQuestion
    <3>1. QuestionInv(input, phase, found, storage, visits, focus, index, downs)
      BY <1>1, <2>2, InputIs
    <3>2. downs \subseteq DownstreamOf(input, Asked(input))
      BY <3>1 DEF QuestionInv, AnswersFit
    <3>3. phase = "done" => DownstreamOf(input, Outside(input)) \subseteq downs
      BY <3>1 DEF QuestionInv
    <3>4. OnlyDownstream
      BY <3>2, SameReach DEF OnlyDownstream, Asked
    <3>5. Outside(input) = OutsideStacks(input.focus \ input.ignore)
      BY DEF Outside, OutsideStacks, Asked
    <3>6. UncutFilesCount
      BY <3>3, <3>5, SameReach DEF UncutFilesCount
    <3> QED BY <3>4, <3>6 DEF DepsRight
  <2> QED BY <2>1, <2>2
<1> QED BY <1>1, WorkspaceInvariant, PTL
=============================================================================
