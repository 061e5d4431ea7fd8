----------------------------- MODULE Workspace ------------------------------
(***************************************************************************)
(* What the commands find out before they work: apply, preview and destroy *)
(* detect the project and the stack of a directory and set up the storage  *)
(* of its state; deps walks over every stack of every project to tell      *)
(* which ones a change of some files reaches.                              *)
(***************************************************************************)
EXTENDS ProjectTree, Backends, Digraphs

CONSTANTS
    KclFiles,       \* KCL files
    KclDirOf,       \* the directory of each
    Imports,        \* the pairs of a file and one it imports
    Rank,           \* the place of each directory in a lexical walk
    Operations,     \* what apply is run on: tree, directory, storage, flags
    Questions       \* what deps is run on: tree, entrance files, focus, ignored files

ASSUME RankAssumption ==
    Rank \in [Tree -> Nat] /\ \A d, e \in Tree : Rank[d] = Rank[e] => d = e

(* What project.yaml and what the flags say is marked as theirs.           *)
ASSUME OperationsAssumption == \A op \in Operations :
    /\ "focus" \notin DOMAIN op
    /\ op.tree \in Trees /\ op.dir \in Tree /\ op.cwd \in Tree
    /\ \A key \in DOMAIN op.storage.config : op.storage.config[key].by = "project"
    /\ \A key \in DOMAIN op.flags.config : op.flags.config[key].by = "flag"

ASSUME QuestionsAssumption ==
    Questions \subseteq [tree : Trees, entrances : [Tree -> SUBSET KclFiles],
                         focus : SUBSET KclFiles, ignore : SUBSET KclFiles,
                         projectOnly : BOOLEAN, badSettings : SUBSET Tree]

VARIABLES
    input,      \* the operation or the question
    phase,      \* "detect", "configure", "find", "visit", "done" or "failed"
    found,      \* what was detected
    storage,    \* what was configured
    visits,     \* the pairs of a project and one of its stacks still to visit
    focus,      \* the files asked about that no visited stack directory holds
    index,      \* pairs of an entrance file and what it is an entrance of
    downs       \* the stacks, or projects, found to be downstream

workspaceVars == <<input, phase, found, storage, visits, focus, index, downs>>

Nothing == [project |-> {}, stack |-> {}]

WorkspaceInit ==
    /\ \/ input \in Operations /\ phase = "detect"
       \/ input \in Questions /\ phase = "find"
    /\ found = Nothing /\ storage = Fails("error")
    /\ visits = {} /\ focus = {} /\ index = {} /\ downs = {}

-----------------------------------------------------------------------------
Detect ==
    /\ phase = "detect"
    /\ LET detected == Detected(input.tree, input.dir, input.cwd) IN
        IF detected.project = {} \/ detected.stack = {}
        THEN phase' = "failed" /\ UNCHANGED found
        ELSE phase' = "configure" /\ found' = detected
    /\ UNCHANGED <<input, storage, visits, focus, index, downs>>

SetUpStorage ==
    /\ phase = "configure"
    /\ storage' = BackendFromConfig(input.storage, input.flags)
    /\ phase' = IF storage'.outcome \in {"ok", "noBucket"} THEN "done" ELSE "failed"
    /\ UNCHANGED <<input, found, visits, focus, index, downs>>

-----------------------------------------------------------------------------
VisitsOf(tree) ==
    {v \in [project : FindAllProjectsFrom(tree, <<>>), stack : Tree] :
        v.stack \in FindAllStacksFrom(tree, v.project)}

\* The projects in the order of a lexical walk, and the stacks of each in that order.
NextVisit(visitsLeft) ==
    CHOOSE v \in visitsLeft : \A w \in visitsLeft :
        \/ Rank[v.project] < Rank[w.project]
        \/ v.project = w.project /\ Rank[v.stack] <= Rank[w.stack]

\* Ignored files are not asked about; with none left deps prints nothing.
Find ==
    /\ phase = "find"
    /\ IF input.focus \subseteq input.ignore THEN phase' = "done" /\ UNCHANGED <<visits, focus>>
       ELSE IF ProjectsUnreadable(input.tree, <<>>)
       THEN phase' = "failed" /\ UNCHANGED <<visits, focus>>
       ELSE /\ focus' = input.focus \ input.ignore
            /\ visits' = VisitsOf(input.tree)
            /\ phase' = "visit"
    /\ UNCHANGED <<input, found, storage, index, downs>>

\* By the prefix of their relative path.  That of the root is "./", which no path has.
Under(dir) == IF dir = <<>> THEN {} ELSE {f \in KclFiles : IsPrefix(dir, KclDirOf[f])}

NamedBy(visit) == IF input.projectOnly THEN visit.project ELSE visit.stack

Entrances(stack) == input.entrances[stack] \ input.ignore

\* Mutant of Uncut: a file is cut off together with the files of its directory's siblings.
UncutSiblings(stack) == IF focus \cap Under(stack) = {} THEN focus ELSE {}

\* The files under the directory of a stack are not looked for in the others.
Uncut(stack) == focus \ Under(stack)

Visit ==
    /\ phase = "visit" /\ visits # {}
    /\ LET visit == NextVisit(visits) stack == visit.stack IN
        /\ focus' = Uncut(stack)
        /\ IF focus \cap Under(stack) # {}
           THEN /\ downs' = downs \cup {NamedBy(visit)}
                /\ visits' = visits \ {visit}
                /\ UNCHANGED <<phase, index>>
           ELSE IF stack \in input.badSettings
           THEN phase' = "failed" /\ UNCHANGED <<visits, index, downs>>
           ELSE /\ visits' = visits \ {visit}
                /\ UNCHANGED phase
                /\ IF Entrances(stack) \cap focus # {}
                   THEN downs' = downs \cup {NamedBy(visit)} /\ UNCHANGED index
                   ELSE /\ index' = index \cup (Entrances(stack) \X {NamedBy(visit)})
                        /\ UNCHANGED downs
    /\ UNCHANGED <<input, found, storage>>

\* KCL's ListDownStreamFiles: those of the files that import one of the others, directly
\* or not.  It is the KCL compiler's.
Imported(file) == Below(KclFiles, Imports, file)
ListDownStreamFiles(files, upstreams) == {f \in files : Imported(f) \cap upstreams # {}}

Ask ==
    /\ phase = "visit" /\ visits = {}
    /\ LET files == ListDownStreamFiles({entry[1] : entry \in index}, focus)
       IN  downs' = downs \cup {entry[2] : entry \in {e \in index : e[1] \in files}}
    /\ phase' = "done"
    /\ UNCHANGED <<input, found, storage, visits, focus, index>>

Finished == phase \in {"done", "failed"} /\ UNCHANGED workspaceVars

WorkspaceNext == Detect \/ SetUpStorage \/ Find \/ Visit \/ Ask \/ Finished

WorkspaceSpec == WorkspaceInit /\ [][WorkspaceNext]_workspaceVars

-----------------------------------------------------------------------------
IsQuestion == "focus" \in DOMAIN input

WorkspaceTypeOK ==
    /\ phase \in {"detect", "configure", "find", "visit", "done", "failed"}
    /\ Cardinality(found.project) <= 1 /\ found.project \subseteq Tree
    /\ Cardinality(found.stack) <= 1 /\ found.stack \subseteq Tree
    /\ storage.outcome \in {"ok", "noBucket", "error", "panic"}
    /\ storage.type \in StorageTypes \cup {""} /\ DOMAIN storage.config \subseteq ConfigKeys
    /\ focus \subseteq KclFiles
    /\ IsQuestion => /\ focus \subseteq input.focus \ input.ignore
                     /\ index \subseteq (KclFiles \ input.ignore) \X Tree
                     /\ downs \subseteq Tree

(* A command works on the stack of the directory it was given, and on the closest project  *)
(* around it, which holds that stack and no other project.  It works on others only when   *)
(* the stack file does not parse and one stack is nested below it, and only when there is  *)
(* no project around: the working directory's is taken then (project.go:50, 59).           *)
DetectsTheStackGiven == found # Nothing =>
    LET around == {d \in AtOrAbove(input.dir) : IsProject(input.tree, d)}
    IN  /\ input.tree.stack[input.dir] = "good" => found.stack = {input.dir}
        /\ around # {} => \A p \in found.project :
                /\ p \in around /\ \A d \in around : IsPrefix(d, p)
                /\ found.stack \subseteq FindAllStacksFrom(input.tree, p)
        /\ \A p \in found.project : {d \in AtOrBelow(p) : IsProject(input.tree, d)} = {p}

(* At most one project and stack are detected, and they are those of the directory.        *)
DetectionRight == WorkspaceTypeOK /\ DetectsTheStackGiven

AskedType(op) == CASE op.flags.type # "" -> op.flags.type
                   [] op.flags.type = "" /\ op.storage = NoStorage -> "local"
                   [] OTHER -> op.storage.type

\* Who is to give the value of a key: the last to speak, or the code for the path only.
EmptyPath(config, key) == key = "path" /\ Malformed(config, key)
Giver(op, key) ==
    CASE key \in DOMAIN op.flags.config ->
            IF EmptyPath(op.flags.config, key) THEN "process" ELSE "flag"
      [] key \in DOMAIN op.storage.config \ DOMAIN op.flags.config ->
            IF EmptyPath(op.storage.config, key) THEN "process" ELSE "project"
      [] key = "path" /\ key \notin DOMAIN op.flags.config \cup DOMAIN op.storage.config ->
            IF op.storage = NoStorage THEN "default" ELSE "process"
      [] OTHER -> "nobody"

(* The state is kept where it was asked to be: a flag wins over project.yaml for the type  *)
(* and for each key.  Only the path of a local storage may come from elsewhere: without    *)
(* one, the state is in the directory of the command if project.yaml names no backend, and *)
(* in that of the process if it names one; and in that of the process also if the path     *)
(* that counts is empty (local/backend.go:29).                                             *)
StorageAsAsked == phase = "done" /\ ~ IsQuestion =>
    /\ storage.type = AskedType(input)
    /\ DOMAIN input.flags.config \cup DOMAIN input.storage.config \subseteq DOMAIN storage.config
    /\ \A key \in DOMAIN storage.config : storage.config[key].by = Giver(input, key)

(* A storage is set up only with everything it needs, except one of OSS with a malformed   *)
(* endpoint, which is set up without a bucket; a configuration short of one key is refused *)
(* with an error, and the only ones that end in a panic lack the accessKeyID of S3         *)
(* (s3_backend.go:44) or the getLatestURLFormat (http_backend.go:51).                      *)
CompleteOrRefused == ~ IsQuestion =>
    /\ storage.outcome = "ok" => DOMAIN storage.config = Schema[storage.type]
    /\ storage.outcome = "noBucket" => input.storage.type = "oss" \/ input.flags.type = "oss"
    /\ storage.outcome = "panic" =>
        LET given == DOMAIN input.flags.config \cup DOMAIN input.storage.config
        IN  \/ AskedType(input) = "s3" /\ Schema.s3 \ given = {"accessKeyID"}
            \/ AskedType(input) = "http" /\ Schema.http \ given = {"getLatestURLFormat"}

(* The storage is the one that was asked for, whole, or none.                              *)
StorageRight == StorageAsAsked /\ CompleteOrRefused

\* What the comment at deps/options.go:164 calls downstream, for some of the files.  The
\* directory of a stack at the root holds every file there, and none counts as under it.
StackReached(tree, stack, files) ==
    \/ files \cap Under(stack) # {}
    \/ \E e \in input.entrances[stack] \ input.ignore :
        e \in files \/ Imported(e) \cap files # {}
Downstream(files) ==
    LET stacks == {v \in VisitsOf(input.tree) : StackReached(input.tree, v.stack, files)}
    IN  {IF input.projectOnly THEN v.project ELSE v.stack : v \in stacks}

(* deps never names a stack or project that the files do not reach.                        *)
OnlyDownstream == IsQuestion => downs \subseteq Downstream(input.focus \ input.ignore)

(* When it ends, it named every one that is reached from a file outside all stack          *)
(* directories, in whatever order the stacks were visited and the files cut off.  A stack  *)
(* that imports a file cut off under another one may be missed.                            *)
OutsideStacks(files) ==
    {f \in files : \A v \in VisitsOf(input.tree) : f \notin Under(v.stack)}
UncutFilesCount == IsQuestion /\ phase = "done" =>
    Downstream(OutsideStacks(input.focus \ input.ignore)) \subseteq downs

(* What deps names is between the two.                                                     *)
DepsRight == OnlyDownstream /\ UncutFilesCount

(* What docs/backend.md:47 says: local is the default when neither project.yaml nor the    *)
(* command declares a backend.  So with a type declared by flag its keys are enough.       *)
DefaultOnlyWhenUndeclared == phase = "failed" /\ ~ IsQuestion /\ found # Nothing =>
    ~ /\ input.storage = NoStorage /\ input.flags.type \in StorageTypes
      /\ input.flags.wellFormed /\ Converts(input.flags.config)
      /\ Configure(input.flags.type, input.flags.config).outcome = "ok"
      /\ DOMAIN input.flags.config = Schema[input.flags.type]
=============================================================================
