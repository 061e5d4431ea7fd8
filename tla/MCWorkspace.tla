---------------------------- MODULE MCWorkspace -----------------------------
(* Every tree over two directories side by side and one below the first; on one plain   *)
(* tree, every way to give or not to give each key of each storage; and questions about *)
(* every set of files, with an import from one stack into another.                      *)
EXTENDS Workspace

P == <<"p">>
S == <<"p", "s">>
Q == <<"q">>
MCTree == {<<>>, P, S, Q}
MCRank == [d \in MCTree |-> CASE d = <<>> -> 0 [] d = P -> 1 [] d = S -> 2 [] d = Q -> 3]

MCKclFiles == {"lib.k", "p.k", "s.k", "q.k"}
MCKclDirOf == [f \in MCKclFiles |->
    CASE f = "lib.k" -> <<>> [] f = "p.k" -> P [] f = "s.k" -> S [] f = "q.k" -> Q]
MCImports == {<<"s.k", "lib.k">>, <<"q.k", "s.k">>}

NoFlags == [type |-> "", wellFormed |-> TRUE, config |-> NoConfig]
Operation(tree, dir, cwd, store, flags) ==
    [tree |-> tree, dir |-> dir, cwd |-> cwd, storage |-> store, flags |-> flags]

Detections ==
    {Operation(tree, dir, cwd, NoStorage, NoFlags) :
        tree \in Trees, dir \in {P, S}, cwd \in {<<>>, Q}}

PlainTree == [project |-> [d \in MCTree |-> IF d = P THEN "good" ELSE "none"],
              stack |-> [d \in MCTree |-> IF d = S THEN "good" ELSE "none"]]

FromProject(keys, malformed) ==
    [k \in keys |-> Given("project", IF k \in malformed THEN "malformed"
                                     ELSE IF k = "dbPort" THEN "number" ELSE "text")]
Empty(by) == [k \in {"path"} |-> Given(by, "malformed")]
FromFlags(keys) == [k \in keys |-> Given("flag", "text")]
InProject(type, config) == [type |-> type, config |-> config]
Flags(type, keys) == [type |-> type, wellFormed |-> TRUE, config |-> FromFlags(keys)]
SetUp(store, flags) == Operation(PlainTree, S, <<>>, store, flags)

Split(type) ==
    {SetUp(InProject(type, FromProject(mine, {})), Flags("", yours)) :
        mine \in SUBSET Schema[type], yours \in SUBSET Schema[type]}
ByFlag(type) ==
    {SetUp(store, Flags(type, keys)) : keys \in SUBSET Schema[type],
        store \in {NoStorage, InProject("s3", FromProject({"region"}, {})),
                   InProject("", NoConfig)}}
OneMalformed(type) ==
    {SetUp(InProject(type, FromProject(Schema[type], {k})), NoFlags) : k \in Schema[type]}
SetUps ==
    (UNION {Split(type) \cup ByFlag(type) \cup OneMalformed(type) : type \in StorageTypes})
    \cup {SetUp(store, [NoFlags EXCEPT !.config = Empty("flag")]) :
            store \in {NoStorage, InProject("local", NoConfig),
                       InProject("local", FromProject({"path"}, {}))}}
    \cup {SetUp(NoStorage, [NoFlags EXCEPT !.wellFormed = FALSE]),
          SetUp(NoStorage, Flags("", {"path"})), SetUp(NoStorage, Flags("etcd", {"path"}))}

MCOperations == Detections \cup SetUps

GoodTrees == {tree \in Trees :
    \A d \in MCTree : tree.project[d] # "bad" /\ tree.stack[d] # "bad"}
UnreadableTree == [PlainTree EXCEPT !.project[Q] = "bad"]
MCEntrances == [d \in MCTree |-> CASE d = <<>> -> {"lib.k"} [] d = P -> {"p.k", "s.k"}
                                  [] d = S -> {"s.k"} [] d = Q -> {"q.k"}]
MCQuestions ==
    [tree : GoodTrees \cup {UnreadableTree}, entrances : {MCEntrances},
     focus : SUBSET MCKclFiles \ {{}}, ignore : {{}, {"s.k"}},
     projectOnly : BOOLEAN, badSettings : {{}, {Q}}]
=============================================================================
