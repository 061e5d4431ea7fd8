----------------------------- MODULE MCScaffold -----------------------------
(* A template with one stack: a stack file and a program in the stack directory, *)
(* the manifest and the project file in the root.                                *)
EXTENDS Scaffold, TLC

CONSTANTS t1, t2

MCFiles == {"main.k", "stack.yaml", "kusion.yaml", "project.yaml"}
MCDirOf == [f \in MCFiles |-> IF f \in {"main.k", "stack.yaml"} THEN "dev" ELSE "root"]
MCPlace == [root |-> 0, dev |-> 1] @@ ("main.k" :> 2 @@ "stack.yaml" :> 3)
             @@ ("kusion.yaml" :> 4 @@ "project.yaml" :> 5)
MCNeeds == [f \in MCFiles |->
    CASE f = "main.k" -> {"dev"} [] f = "project.yaml" -> {"project"} [] OTHER -> {}]

Command(source, force, params, list) ==
    [list |-> list, source |-> source, project |-> "p", force |-> force, params |-> params]

MCCommands ==
    {Command("internal", force, {"prompted"}, FALSE) : force \in BOOLEAN}
    \cup {Command("official", FALSE, {"prompted"}, TRUE),
          Command("official", TRUE, {"prompted"}, FALSE),
          Command("url", FALSE, {"project"}, FALSE)}
=============================================================================
