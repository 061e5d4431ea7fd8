------------------------------ MODULE Scaffold ------------------------------
(***************************************************************************)
(* `kusion init`: a command takes a shelf of templates (the ones embedded  *)
(* in the binary and copied under the user's home on first use, a clone    *)
(* of the official repository, or a download made for this command), reads *)
(* one template into memory, renders it there, and only then writes the    *)
(* project.  Commands of several terminals share the home and the working  *)
(* directory, and the user edits the projects that are there already.      *)
(*                                                                         *)
(* One template is on each shelf.  A file is absent, empty (opened or      *)
(* truncated and not written yet) or has its content, so a write that      *)
(* stops half way through one file counts as one that wrote nothing.       *)
(***************************************************************************)
EXTENDS Naturals, FiniteSets

CONSTANTS
    Terminals,      \* each runs one command after the other
    Projects,       \* the names of destination directories
    Files,          \* the files of the template
    StackFiles,     \* of them, the stack.yaml of each stack
    DirOf,          \* the directory of each file, Root included
    Place,          \* of each file and directory in the lexical order of the paths
    Needs,          \* the levels of configuration that a file's text refers to
    Root,
    Commands,       \* the command lines given
    MaxCommands,    \* bound on the commands
    MaxFaults       \* bound on the faults and the edits together

Dirs == {DirOf[f] : f \in Files} \cup {Root}
Manifest == "kusion.yaml"
Levels == {"project"} \cup (Dirs \ {Root})      \* project fields, and those of each stack

(* A directory comes before what it holds, and what the files of a stack   *)
(* refer to is a field of the project or of that stack.                    *)
ASSUME TemplateAssumption ==
    /\ Manifest \in Files /\ DirOf[Manifest] = Root /\ StackFiles \subseteq Files
    /\ "none" \notin Files /\ Files \cap Dirs = {}
    /\ Place \in [Files \cup Dirs -> Nat]
    /\ \A x, y \in Files \cup Dirs : Place[x] = Place[y] => x = y
    /\ \A f \in Files :
        /\ Place[DirOf[f]] < Place[f]
        /\ Needs[f] \subseteq {"project"} \cup
             {d \in {DirOf[f]} : d # Root /\ \E s \in StackFiles : DirOf[s] = d}

ASSUME CommandsAssumption ==
    /\ Commands # {}
    /\ Commands \subseteq [list : BOOLEAN, source : {"internal", "url", "official"},
                           project : Projects, force : BOOLEAN,
                           params : (SUBSET Levels) \cup {{"prompted"}}]

VARIABLES
    shelf, shelfDir,    \* ~/.kusion/templates/internal: its files, and whether it is there
    external, cloned,   \* ~/.kusion/templates/external: its files, and whether it is the clone
                        \* of the official repository
    disk,               \* the working directory: per project its directories and files
    pc, cmd,            \* per terminal: where its command is, and the command line
    todo, opened,       \* what the walk in progress has left, and the file it has open
    wipe,               \* whether the external directory was found not to be the clone
    levels,             \* the levels of configuration that the command has values for
    mem, out,           \* the template as read, and the project as rendered, in memory
    temp,               \* whether the command's temporary directory is there
    failedAt,           \* where an ended command gave up, "none" when it did not
    overlapped,         \* its reading met another command's change of the same shelf
    broken,             \* a generation of the internal shelf stopped early
    touched,            \* files of its project that others changed since it started
    commands, faults    \* commands started; faults and edits there were

shelves == <<shelf, shelfDir, external, cloned, broken>>
walk == <<todo, opened>>
memory == <<wipe, levels, mem, out, overlapped>>
budget == <<commands, faults>>
vars == <<shelves, disk, pc, cmd, walk, memory, temp, failedAt, touched, budget>>

Blank == [f \in Files |-> "absent"]

\* Every walk takes what it has left in the lexical order.
First(S) == CHOOSE x \in S : \A y \in S : Place[x] <= Place[y]

Init ==
    /\ shelf = Blank /\ shelfDir = FALSE /\ broken = FALSE
    /\ external = Blank /\ cloned = FALSE    \* what is there otherwise goes first
    /\ disk = [p \in Projects |-> [dirs |-> {}, file |-> Blank]]
    /\ pc = [t \in Terminals |-> "ended"]
    /\ cmd \in [Terminals -> {CHOOSE c \in Commands : TRUE}]
    /\ todo = [t \in Terminals |-> {}] /\ opened = [t \in Terminals |-> "none"]
    /\ wipe = [t \in Terminals |-> FALSE] /\ levels = [t \in Terminals |-> {}]
    /\ mem = [t \in Terminals |-> Blank] /\ out = [t \in Terminals |-> Blank]
    /\ temp = [t \in Terminals |-> FALSE]
    /\ failedAt = [t \in Terminals |-> "idle"]
    /\ overlapped = [t \in Terminals |-> FALSE]
    /\ touched = [t \in Terminals |-> {}]
    /\ commands = 0 /\ faults = 0

-----------------------------------------------------------------------------
(* The ways a command ends.  Run defers the removal of the temporary       *)
(* directory once the shelf was retrieved, so any later return removes it. *)

Goto(t, where) == pc' = [pc EXCEPT ![t] = where]

EndWith(t, where, keepsTemp) ==
    /\ Goto(t, "ended")
    /\ failedAt' = [failedAt EXCEPT ![t] = where]
    /\ temp' = [temp EXCEPT ![t] = @ /\ keepsTemp]
    /\ todo' = [todo EXCEPT ![t] = {}] /\ opened' = [opened EXCEPT ![t] = "none"]
    /\ wipe' = [wipe EXCEPT ![t] = FALSE]

Quit(t, where) == EndWith(t, where, FALSE)
Leave(t, where) == EndWith(t, where, TRUE)

Running(t) == pc[t] # "ended"
Generating(t) == pc[t] \in {"mkdir", "gen"}

Start(t) ==
    /\ ~ Running(t) /\ commands < MaxCommands
    /\ \E c \in Commands :
        /\ cmd' = [cmd EXCEPT ![t] = c]
        /\ Goto(t, IF c.source = "internal" THEN "validate" ELSE "retrieve")
    /\ commands' = commands + 1
    /\ failedAt' = [failedAt EXCEPT ![t] = "none"]
    /\ mem' = [mem EXCEPT ![t] = Blank] /\ out' = [out EXCEPT ![t] = Blank]
    /\ levels' = [levels EXCEPT ![t] = {}]
    /\ overlapped' = [overlapped EXCEPT ![t] = FALSE]
    /\ touched' = [touched EXCEPT ![t] = {}]
    /\ temp' = [temp EXCEPT ![t] = FALSE]
    /\ UNCHANGED <<shelves, disk, walk, wipe, faults>>

-----------------------------------------------------------------------------
(* The internal shelf: generated when its directory is not there, and only *)
(* then, one file after the other, each truncated and written.             *)

NeedsGeneration == ~ shelfDir

ValidateOptions(t) ==
    /\ pc[t] = "validate"
    /\ Goto(t, IF NeedsGeneration THEN "mkdir" ELSE "list")
    /\ UNCHANGED <<shelves, disk, cmd, walk, memory, temp, failedAt, touched, budget>>

\* Mutant of GenerationPlan: the walk leaves out the last file of the embedded tree.
GenerationPlanShort == Files \ {CHOOSE f \in Files : \A g \in Files : Place[g] <= Place[f]}

GenerationPlan == Files

MakeShelf(t) ==
    /\ pc[t] = "mkdir"
    /\ shelfDir' = TRUE
    /\ todo' = [todo EXCEPT ![t] = GenerationPlan]
    /\ Goto(t, "gen")
    /\ UNCHANGED <<shelf, external, cloned, broken, disk, cmd, opened, memory, temp, failedAt,
                   touched, budget>>

GenerateOpen(t) ==
    /\ pc[t] = "gen" /\ opened[t] = "none" /\ todo[t] # {}
    /\ LET f == First(todo[t]) IN
        /\ shelf' = [shelf EXCEPT ![f] = "empty"]
        /\ opened' = [opened EXCEPT ![t] = f]
        /\ todo' = [todo EXCEPT ![t] = @ \ {f}]
    /\ UNCHANGED <<shelfDir, external, cloned, broken, disk, pc, cmd, memory, temp, failedAt,
                   touched, budget>>

GenerateWrite(t) ==
    /\ pc[t] = "gen" /\ opened[t] # "none"
    /\ shelf' = [shelf EXCEPT ![opened[t]] = "full"]
    /\ opened' = [opened EXCEPT ![t] = "none"]
    /\ Goto(t, IF todo[t] = {} THEN "list" ELSE "gen")
    /\ UNCHANGED <<shelfDir, external, cloned, broken, disk, cmd, todo, memory, temp, failedAt,
                   touched, budget>>

-----------------------------------------------------------------------------
(* The other shelves.  A download gets a temporary directory, which only a *)
(* retrieval that succeeds hands over for removal.  The official templates *)
(* are kept in one directory: whatever is found there that is not their    *)
(* clone is removed, then they are cloned or pulled, one file after the    *)
(* other, for every command that looks at the directory to see.            *)

Download(t) ==
    /\ pc[t] = "retrieve" /\ cmd[t].source = "url"
    /\ temp' = [temp EXCEPT ![t] = TRUE]
    /\ Goto(t, "fetch")
    /\ UNCHANGED <<shelves, disk, cmd, walk, memory, failedAt, touched, budget>>

Inspect(t) ==
    /\ pc[t] = "retrieve" /\ cmd[t].source = "official"
    /\ wipe' = [wipe EXCEPT ![t] = ~ cloned]
    /\ Goto(t, "cleanup")
    /\ UNCHANGED <<shelves, disk, cmd, walk, levels, mem, out, overlapped, temp, failedAt,
                   touched, budget>>

\* The commands that count on the official templates, from their own retrieval on.
Counts(t) == cmd[t].source = "official" /\ pc[t] \in {"checkout", "list", "choose", "read"}
Disturbed(t) == [v \in Terminals |-> overlapped[v] \/ (v # t /\ Counts(v))]

\* RemoveAll takes what it finds, in the order of the directory, the clone's .git included,
\* although another command may have put it there since.
Cleanup(t) ==
    /\ pc[t] = "cleanup" /\ wipe[t]
    /\ \/ \E f \in Files : /\ external[f] # "absent"
                           /\ external' = [external EXCEPT ![f] = "absent"]
                           /\ UNCHANGED cloned
       \/ cloned /\ cloned' = FALSE /\ UNCHANGED external
    /\ overlapped' = Disturbed(t)
    /\ UNCHANGED <<shelf, shelfDir, broken, disk, pc, cmd, walk, wipe, levels, mem, out, temp,
                   failedAt, touched, budget>>

Cleaned(t) ==
    /\ pc[t] = "cleanup" /\ (wipe[t] => external = Blank /\ ~ cloned)
    /\ wipe' = [wipe EXCEPT ![t] = FALSE]
    /\ Goto(t, "fetch")
    /\ UNCHANGED <<shelves, disk, cmd, walk, levels, mem, out, overlapped, temp, failedAt,
                   touched, budget>>

\* A clone writes every file. A hard reset and a pull write those that are not as committed
\* and those that have changed upstream.
CheckoutPlan(upstream) ==
    IF cloned THEN upstream \cup {f \in Files : external[f] # "full"} ELSE Files

Fetch(t) ==
    /\ pc[t] = "fetch"
    /\ IF cmd[t].source = "official"
       THEN /\ \E upstream \in SUBSET Files : todo' = [todo EXCEPT ![t] = CheckoutPlan(upstream)]
            /\ cloned' = TRUE
            /\ Goto(t, IF todo'[t] = {} THEN "list" ELSE "checkout")
       ELSE Goto(t, "list") /\ UNCHANGED <<todo, cloned>>
    /\ UNCHANGED <<shelf, shelfDir, external, broken, disk, cmd, opened, memory, temp, failedAt,
                   touched, budget>>

CheckoutOpen(t) ==
    /\ pc[t] = "checkout" /\ opened[t] = "none" /\ todo[t] # {}
    /\ LET f == First(todo[t]) IN
        /\ external' = [external EXCEPT ![f] = "empty"]
        /\ opened' = [opened EXCEPT ![t] = f]
        /\ todo' = [todo EXCEPT ![t] = @ \ {f}]
    /\ overlapped' = Disturbed(t)
    /\ UNCHANGED <<shelf, shelfDir, cloned, broken, disk, pc, cmd, wipe, levels, mem, out, temp,
                   failedAt, touched, budget>>

\* What is written to a file that another command has removed is gone with it.
CheckoutWrite(t) ==
    /\ pc[t] = "checkout" /\ opened[t] # "none"
    /\ external' = [external EXCEPT ![opened[t]] = IF @ = "absent" THEN @ ELSE "full"]
    /\ opened' = [opened EXCEPT ![t] = "none"]
    /\ Goto(t, IF todo[t] = {} THEN "list" ELSE "checkout")
    /\ UNCHANGED <<shelf, shelfDir, cloned, broken, disk, cmd, todo, memory, temp, failedAt,
                   touched, budget>>

\* The network or the directory fails: a temporary one was never handed over and stays, and
\* the official one keeps what has come of it.
FetchFails(t) ==
    /\ pc[t] \in {"cleanup", "fetch", "checkout"} /\ faults < MaxFaults
    /\ faults' = faults + 1
    /\ Leave(t, "fetch")
    /\ UNCHANGED <<shelves, disk, cmd, levels, mem, out, overlapped, touched, commands>>

-----------------------------------------------------------------------------
(* Listing loads the manifest of the template, then the user chooses and   *)
(* answers, then the files are read.                                       *)

Seen(t, f) ==
    CASE cmd[t].source = "internal" -> shelf[f]
      [] cmd[t].source = "official" -> external[f]
      [] cmd[t].source = "url"      -> "full"

Meets(t) == \E other \in Terminals \ {t} : Generating(other)

\* The values a command has: those of its JSON parameters, else one for each field that
\* the manifest declares, and an empty manifest declares none.
Answers(t) ==
    IF cmd[t].params # {"prompted"} THEN cmd[t].params
    ELSE IF Seen(t, Manifest) = "full" THEN Levels ELSE {}

NoTemplates(t) == Quit(t, "list") /\ UNCHANGED levels

List(t) ==
    /\ pc[t] = "list"
    /\ overlapped' = [overlapped EXCEPT ![t] = @ \/ (cmd[t].source = "internal" /\ Meets(t))]
    /\ IF Seen(t, Manifest) = "absent" THEN NoTemplates(t)
       ELSE IF cmd[t].list THEN Quit(t, "none") /\ UNCHANGED levels
       ELSE /\ levels' = [levels EXCEPT ![t] = Answers(t)]
            /\ Goto(t, "choose")
            /\ UNCHANGED <<walk, wipe, temp, failedAt>>
    /\ UNCHANGED <<shelves, disk, cmd, mem, out, touched, budget>>

\* The user picks the template and a project name, and the directory is read: which files
\* are there is settled first.
Choose(t) ==
    /\ pc[t] = "choose"
    /\ overlapped' = [overlapped EXCEPT ![t] = @ \/ (cmd[t].source = "internal" /\ Meets(t))]
    /\ todo' = [todo EXCEPT ![t] = {f \in Files : Seen(t, f) # "absent"}]
    /\ IF todo'[t] = {}
       THEN /\ Goto(t, "ended") /\ temp' = [temp EXCEPT ![t] = FALSE]
            /\ failedAt' = [failedAt EXCEPT ![t] = "choose"]
       ELSE Goto(t, "read") /\ UNCHANGED <<temp, failedAt>>
    /\ UNCHANGED <<shelves, disk, cmd, opened, wipe, levels, mem, out, touched, budget>>

\* No such template, a bad name, an interrupted prompt, parameters that are not JSON.
Refuse(t) ==
    /\ pc[t] = "choose"
    /\ Quit(t, "choose")
    /\ UNCHANGED <<shelves, disk, cmd, levels, mem, out, overlapped, touched, budget>>

\* A listed file that has gone since is an error.
Read(t) ==
    /\ pc[t] = "read"
    /\ LET f == First(todo[t]) IN
        /\ overlapped' = [overlapped EXCEPT ![t] = @ \/ (cmd[t].source = "internal" /\ Meets(t))]
        /\ IF Seen(t, f) = "absent" THEN Quit(t, "read") /\ UNCHANGED mem
           ELSE /\ mem' = [mem EXCEPT ![t][f] = Seen(t, f)]
                /\ todo' = [todo EXCEPT ![t] = @ \ {f}]
                /\ Goto(t, IF todo[t] = {f} THEN "render" ELSE "read")
                /\ UNCHANGED <<opened, wipe, temp, failedAt>>
    /\ UNCHANGED <<shelves, disk, cmd, levels, out, touched, budget>>

-----------------------------------------------------------------------------
(* Rendering, in memory: the manifest is left out, and so is a directory   *)
(* with a stack file that has no values; a directory without one is taken  *)
(* for a part of the project.  A field without a value renders as          *)
(* "<no value>", without an error.                                         *)

IsStackDir(t, d) == d # Root /\ \E f \in StackFiles : DirOf[f] = d /\ mem[t][f] # "absent"

LevelsAt(t, d) ==
    levels[t] \cap ({"project"} \cup (IF IsStackDir(t, d) THEN {d} ELSE {}))

Skipped(t, f) == IsStackDir(t, DirOf[f]) /\ DirOf[f] \notin levels[t]

Rendered(t) == [f \in Files |->
    IF f = Manifest \/ Skipped(t, f) \/ mem[t][f] = "absent" THEN "absent"
    ELSE IF mem[t][f] = "empty" THEN "empty"
    ELSE IF Needs[f] \subseteq LevelsAt(t, DirOf[f]) THEN "rendered" ELSE "no value"]


\* The walk over what was rendered: the files and the directories that hold them.
WalkOf(result) ==
    LET kept == {f \in Files : result[f] # "absent"}
    IN  {Root} \cup kept \cup {DirOf[f] : f \in kept}

Render(t) ==
    /\ pc[t] = "render"
    /\ out' = [out EXCEPT ![t] = Rendered(t)]
    /\ mem' = [mem EXCEPT ![t] = Blank] /\ levels' = [levels EXCEPT ![t] = {}]
    /\ IF Rendered(t) = Blank THEN Quit(t, "render")
       ELSE /\ todo' = [todo EXCEPT ![t] = WalkOf(Rendered(t))]
            /\ Goto(t, "write")
            /\ UNCHANGED <<opened, wipe, temp, failedAt>>
    /\ UNCHANGED <<shelves, disk, cmd, overlapped, touched, budget>>

-----------------------------------------------------------------------------
(* Writing: without --force a directory or a file that is there already is *)
(* an error, also half way; with it, files are truncated.                  *)

Touches(t, p, f) == [v \in Terminals |->
    IF v # t /\ cmd[v].project = p
    THEN touched[v] \cup {f} ELSE touched[v]]

\* Mutant of CanCreate: os.O_EXCL is not among the flags.
CanCreateAlways(t, there) == TRUE

CanCreate(t, there) == cmd[t].force \/ ~ there

WriteDir(t) ==
    /\ pc[t] = "write" /\ opened[t] = "none" /\ todo[t] # {} /\ First(todo[t]) \in Dirs
    /\ LET p == cmd[t].project d == First(todo[t]) IN
        IF CanCreate(t, d \in disk[p].dirs)
        THEN /\ disk' = [disk EXCEPT ![p].dirs = @ \cup {d}]
             /\ todo' = [todo EXCEPT ![t] = @ \ {d}]
             /\ UNCHANGED <<pc, opened, wipe, temp, failedAt>>
        ELSE Quit(t, "write") /\ UNCHANGED disk
    /\ UNCHANGED <<shelves, cmd, levels, mem, out, overlapped, touched, budget>>

WriteOpen(t) ==
    /\ pc[t] = "write" /\ opened[t] = "none" /\ todo[t] # {} /\ First(todo[t]) \in Files
    /\ LET p == cmd[t].project f == First(todo[t]) IN
        IF CanCreate(t, disk[p].file[f] # "absent")
        THEN /\ disk' = [disk EXCEPT ![p].file[f] = "empty"]
             /\ opened' = [opened EXCEPT ![t] = f]
             /\ todo' = [todo EXCEPT ![t] = @ \ {f}]
             /\ touched' = Touches(t, p, f)
             /\ UNCHANGED <<pc, wipe, temp, failedAt>>
        ELSE Quit(t, "write") /\ UNCHANGED <<disk, touched>>
    /\ UNCHANGED <<shelves, cmd, levels, mem, out, overlapped, budget>>

\* Mutant of AfterWrite: the walk stops before the last file.
AfterWriteEarly(t) == IF Cardinality(todo[t]) <= 1 THEN "done" ELSE "write"

AfterWrite(t) == IF todo[t] = {} THEN "done" ELSE "write"

WriteFile(t) ==
    /\ pc[t] = "write" /\ opened[t] # "none"
    /\ LET p == cmd[t].project f == opened[t] IN
        /\ disk' = [disk EXCEPT ![p].file[f] = out[t][f]]
        /\ touched' = Touches(t, p, f)
    /\ opened' = [opened EXCEPT ![t] = "none"]
    /\ Goto(t, AfterWrite(t))
    /\ UNCHANGED <<shelves, cmd, todo, memory, temp, failedAt, budget>>

Finish(t) ==
    /\ pc[t] = "done"
    /\ Quit(t, "none")
    /\ UNCHANGED <<shelves, disk, cmd, levels, mem, out, overlapped, touched, budget>>

-----------------------------------------------------------------------------
(* Faults: a write that fails ends the command with an error, a crash ends *)
(* it without removing anything.  The user edits a project between steps.  *)

WriteFails(t) ==
    /\ pc[t] \in {"mkdir", "gen", "write"} /\ faults < MaxFaults
    /\ faults' = faults + 1
    /\ broken' = (broken \/ Generating(t))
    /\ Quit(t, pc[t])
    /\ UNCHANGED <<shelf, shelfDir, external, cloned, disk, cmd, levels, mem, out, overlapped,
                   touched, commands>>

Crash(t) ==
    /\ Running(t) /\ faults < MaxFaults
    /\ faults' = faults + 1
    /\ broken' = (broken \/ Generating(t))
    /\ Leave(t, "crash")
    /\ UNCHANGED <<shelf, shelfDir, external, cloned, disk, cmd, levels, mem, out, overlapped,
                   touched, commands>>

Edit ==
    /\ faults < MaxFaults
    /\ faults' = faults + 1
    /\ \E p \in Projects, f \in Files \ {Manifest} :
        /\ DirOf[f] \in disk[p].dirs
        /\ disk' = [disk EXCEPT ![p].file[f] = "user"]
        /\ touched' = [v \in Terminals |->
                        IF cmd[v].project = p THEN touched[v] \cup {f} ELSE touched[v]]
    /\ UNCHANGED <<shelves, pc, cmd, walk, memory, temp, failedAt, commands>>

Step(t) ==
    \/ ValidateOptions(t) \/ MakeShelf(t) \/ GenerateOpen(t) \/ GenerateWrite(t)
    \/ Download(t) \/ Inspect(t) \/ Cleanup(t) \/ Cleaned(t)
    \/ Fetch(t) \/ CheckoutOpen(t) \/ CheckoutWrite(t)
    \/ List(t) \/ Choose(t) \/ Read(t) \/ Render(t)
    \/ WriteDir(t) \/ WriteOpen(t) \/ WriteFile(t) \/ Finish(t)

Rest == (\A t \in Terminals : ~ Running(t)) /\ UNCHANGED vars

Next ==
    \/ \E t \in Terminals : Step(t)
    \/ \E t \in Terminals : Start(t)
    \/ \E t \in Terminals : Refuse(t)
    \/ \E t \in Terminals : FetchFails(t)
    \/ \E t \in Terminals : WriteFails(t)
    \/ \E t \in Terminals : Crash(t)
    \/ Edit \/ Rest

Spec == Init /\ [][Next]_vars

-----------------------------------------------------------------------------
TypeOK ==
    /\ shelf \in [Files -> {"absent", "empty", "full"}] /\ shelfDir \in BOOLEAN
    /\ broken \in BOOLEAN
    /\ external \in [Files -> {"absent", "empty", "full"}] /\ cloned \in BOOLEAN
    /\ \A p \in Projects :
        /\ disk[p].dirs \subseteq Dirs
        /\ \A f \in Files : disk[p].file[f] \in
                {"absent", "empty", "rendered", "no value", "user"}
        /\ \A f \in Files : disk[p].file[f] # "absent" => DirOf[f] \in disk[p].dirs
    /\ pc \in [Terminals -> {"ended", "validate", "mkdir", "gen", "retrieve", "cleanup", "fetch",
                             "checkout", "list", "choose", "read", "render", "write", "done"}]
    /\ cmd \in [Terminals -> Commands]
    /\ opened \in [Terminals -> Files \cup {"none"}]
    /\ todo \in [Terminals -> SUBSET (Files \cup Dirs)]
    /\ wipe \in [Terminals -> BOOLEAN] /\ temp \in [Terminals -> BOOLEAN]
    /\ levels \in [Terminals -> SUBSET Levels]
    /\ mem \in [Terminals -> [Files -> {"absent", "empty", "full"}]]
    /\ out \in [Terminals -> [Files -> {"absent", "empty", "rendered", "no value"}]]
    /\ overlapped \in [Terminals -> BOOLEAN] /\ touched \in [Terminals -> SUBSET Files]

Succeeded(t) == pc[t] = "ended" /\ failedAt[t] = "none" /\ ~ cmd[t].list

(* "Created project" is true: every file of the rendered template is on disk as rendered,  *)
(* whatever a crash, a failed write or an earlier command had left in its place, unless    *)
(* another command or the user wrote that very file since (options.go:196).                *)
CreatedIsWritten == \A t \in Terminals : Succeeded(t) =>
    \A f \in Files \ touched[t] :
        out[t][f] # "absent" => disk[cmd[t].project].file[f] = out[t][f]

(* A project comes out short of a file, with an empty one or with "<no value>" in it only  *)
(* when a generation of the internal templates stopped early or was under way in another   *)
(* terminal, or when another command removed or rewrote official templates after its own   *)
(* retrieval had begun. What a crash or a failure left of the official ones, unlike of the *)
(* internal ones, the next command makes good (the clone or pull of templates.go:219).     *)
Whole(t) == \A f \in Files \ {Manifest} : out[t][f] = "rendered"
ShortOnlyIfDisturbed == \A t \in Terminals :
    Succeeded(t) /\ ~ Whole(t) /\ cmd[t].params = {"prompted"} =>
        \/ cmd[t].source = "internal" /\ (broken \/ overlapped[t])
        \/ cmd[t].source = "official" /\ overlapped[t]

(* A file the user wrote changes only under a command that was given --force for that      *)
(* project, or under one that had created the very file and not written it yet, however    *)
(* commands and edits interleave (the O_EXCL of templates.go:625).                         *)
UserFilesSurvive == [][\A p \in Projects, f \in Files :
    disk[p].file[f] = "user" /\ disk'[p].file[f] # "user" =>
        \E t \in Terminals : /\ (pc[t] = "write" /\ cmd[t].project = p)
                            /\ (cmd[t].force \/ opened[t] = f)]_vars

(* The temporary directory of a download is gone once the command returned, unless it was  *)
(* the retrieval that failed (it is never handed over for removal) or the process died.    *)
TempsRemoved == \A t \in Terminals :
    pc[t] = "ended" /\ temp[t] => failedAt[t] \in {"fetch", "crash"}

(* What commands leave on the disk: what they say they created, and no download.           *)
DiskIsTidy == TypeOK /\ CreatedIsWritten /\ TempsRemoved

(* What the comment at options.go:292 says: the internal templates are generated before    *)
(* they are used, so a command reads each of their files whole.                            *)
GeneratedBeforeUse == \A t \in Terminals :
    pc[t] = "render" /\ cmd[t].source = "internal" => \A f \in Files : mem[t][f] = "full"

=============================================================================
