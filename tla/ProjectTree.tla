---------------------------- MODULE ProjectTree -----------------------------
(***************************************************************************)
(* What pkg/projectstack finds in a tree of directories: the projects and  *)
(* stacks at and below a path, the closest project above it, and the one   *)
(* project and stack that a command works on.                              *)
(*                                                                         *)
(* A directory is the sequence of names that leads to it.  A tree gives    *)
(* for each whether its project.yaml and its stack.yaml is there, and      *)
(* whether it parses: "none", "bad" or "good".  What a search returns is a *)
(* set, empty when it is an error.                                         *)
(***************************************************************************)
EXTENDS Naturals, SequencesExt

CONSTANT Tree       \* the directories of the tree, the root <<>> among them
ASSUME TreeAssumption ==
    /\ Tree \subseteq Seq(STRING) /\ IsFiniteSet(Tree) /\ <<>> \in Tree
    /\ \A d \in Tree : \A i \in 0..Len(d) : SubSeq(d, 1, i) \in Tree

FileStates == {"none", "bad", "good"}
Trees == [project : [Tree -> FileStates], stack : [Tree -> FileStates]]

AtOrBelow(path) == {d \in Tree : IsPrefix(path, d)}
AtOrAbove(path) == {d \in Tree : IsPrefix(d, path)}

IsProject(tree, path) == tree.project[path] # "none"
IsStack(tree, path) == tree.stack[path] # "none"

\* A stack file that does not parse is logged and passed over.
FindAllStacksFrom(tree, path) == {d \in AtOrBelow(path) : tree.stack[d] = "good"}

\* A project file that does not parse ends the search with an error.
ProjectsUnreadable(tree, path) == \E d \in AtOrBelow(path) : tree.project[d] = "bad"
FindAllProjectsFrom(tree, path) ==
    IF ProjectsUnreadable(tree, path) THEN {}
    ELSE {d \in AtOrBelow(path) : IsProject(tree, d)}

TheOnly(found) == IF Cardinality(found) = 1 THEN found ELSE {}

GetStackFrom(tree, path) ==
    IF IsStack(tree, path) THEN TheOnly(FindAllStacksFrom(tree, path)) ELSE {}

\* The directory of the file that WalkUp found.  Without one that is the directory of the
\* empty path, ".", which the callers then take for a path: the working directory.
FindProjectPathFrom(tree, path, cwd) ==
    LET above == {d \in AtOrAbove(path) : IsProject(tree, d)}
    IN  IF above = {} THEN cwd ELSE CHOOSE d \in above : \A e \in above : Len(e) <= Len(d)

\* Mutant of GetProjectFrom: a project may hold others.
GetProjectLoosely(tree, path) ==
    IF IsProject(tree, path) /\ ~ ProjectsUnreadable(tree, path) THEN {path} ELSE {}

GetProjectFrom(tree, path) ==
    IF IsProject(tree, path) THEN TheOnly(FindAllProjectsFrom(tree, path)) ELSE {}

\* DetectProjectAndStack: the pairs are none or one.
Detected(tree, stackDir, cwd) ==
    [project |-> GetProjectFrom(tree, FindProjectPathFrom(tree, stackDir, cwd)),
     stack |-> GetStackFrom(tree, stackDir)]
=============================================================================
