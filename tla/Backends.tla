------------------------------ MODULE Backends ------------------------------
(***************************************************************************)
(* The choice of the state storage (pkg/engine/backend and the Configure   *)
(* of each storage): the configuration in project.yaml and the flags of    *)
(* the command are merged, checked against the schema of the storage type, *)
(* converted, and handed to the storage.                                   *)
(*                                                                         *)
(* A configuration maps some keys to values.  A value says who gave it and *)
(* its form: "text", "number" or "malformed", a text of no use to the      *)
(* storage: empty, a format without its four placeholders, an endpoint     *)
(* that is not one.  Values are given by the "project", by a "flag", or,   *)
(* for the path of the local storage only, by the code: "default" is       *)
(* kusion_state.json in the directory of the command, "process" is that    *)
(* name alone, in the directory in which the process runs.                 *)
(***************************************************************************)
EXTENDS Naturals

StorageTypes == {"local", "db", "s3", "oss", "http"}
Schema == [
    local |-> {"path"},
    db    |-> {"dbName", "dbUser", "dbPassword", "dbHost", "dbPort"},
    s3    |-> {"endpoint", "bucket", "accessKeyID", "accessKeySecret", "region"},
    oss   |-> {"endpoint", "bucket", "accessKeyID", "accessKeySecret"},
    http  |-> {"urlPrefix", "applyURLFormat", "getLatestURLFormat"}]
ConfigKeys == UNION {Schema[type] : type \in StorageTypes}

Given(by, form) == [by |-> by, form |-> form]
NoConfig == [k \in {} |-> Given("default", "text")]
NoStorage == [type |-> "undeclared", config |-> NoConfig]    \* project.yaml names no backend

\* Mutant of MergeConfig: the file has the last word.
MergeConfigReversed(config, override) ==
    [key \in DOMAIN config \cup DOMAIN override |->
        IF key \in DOMAIN config THEN config[key] ELSE override[key]]

MergeConfig(config, override) ==
    [key \in DOMAIN config \cup DOMAIN override |->
        IF key \in DOMAIN override THEN override[key] ELSE config[key]]

NewDefaultBackend ==
    [type |-> "local", config |-> [key \in {"path"} |-> Given("default", "text")]]

Fails(outcome) == [outcome |-> outcome, type |-> "", config |-> NoConfig]
Works(outcome, type, config) == [outcome |-> outcome, type |-> type, config |-> config]

Null(config, key) == key \notin DOMAIN config
Malformed(config, key) == ~ Null(config, key) /\ config[key].form = "malformed"

\* gocty.ToCtyValue: the port is a number and everything else a text.
Converts(config) ==
    \A key \in DOMAIN config : (config[key].form = "number") = (key = "dbPort")

\* Opening the database pings it, so a wrong name is an error here already.
ConfigureDB(config) ==
    IF \E key \in Schema.db : Null(config, key) \/ Malformed(config, key)
    THEN Fails("error") ELSE Works("ok", "db", config)

\* The check of accessKeyID tests the bucket again: AsString of a null then panics.
ConfigureS3(config) ==
    IF \E key \in Schema.s3 \ {"accessKeyID"} : Null(config, key) THEN Fails("error")
    ELSE IF Null(config, "accessKeyID") THEN Fails("panic")
    ELSE Works("ok", "s3", config)

\* The error of the client's constructor is dropped: the storage has no bucket then.
ConfigureOSS(config) ==
    IF \E key \in Schema.oss : Null(config, key) THEN Fails("error")
    ELSE IF Malformed(config, "endpoint") THEN Works("noBucket", "oss", config)
    ELSE IF Malformed(config, "bucket") THEN Fails("error")
    ELSE Works("ok", "oss", config)

\* The null check of getLatestURLFormat goes on to read the null.
ConfigureHTTP(config) ==
    IF \/ \E key \in {"urlPrefix", "applyURLFormat"} : Null(config, key) \/ Malformed(config, key)
       \/ Malformed(config, "getLatestURLFormat")
    THEN Fails("error")
    ELSE IF Null(config, "getLatestURLFormat") THEN Fails("panic")
    ELSE Works("ok", "http", config)

ProcessPath == [key \in {"path"} |-> Given("process", "text")]

\* Without a path, or with an empty one, the name of the file alone is the path.
ConfigureLocal(config) ==
    IF Null(config, "path") \/ Malformed(config, "path") THEN Works("ok", "local", ProcessPath)
    ELSE Works("ok", "local", config)

Configure(type, config) ==
    CASE type = "local" -> ConfigureLocal(config)
      [] type = "db"    -> ConfigureDB(config)
      [] type = "s3"    -> ConfigureS3(config)
      [] type = "oss"   -> ConfigureOSS(config)
      [] type = "http"  -> ConfigureHTTP(config)

\* The storage of project.yaml, if any, and the flags: a type, if any, and keys.
BackendFromConfig(storage, flags) ==
    LET base == IF storage = NoStorage THEN NewDefaultBackend ELSE storage
        type == IF flags.type # "" THEN flags.type ELSE base.type
        config == MergeConfig(base.config, flags.config)
    IN  IF ~ flags.wellFormed \/ type \notin StorageTypes THEN Fails("error")
        ELSE IF ~ DOMAIN config \subseteq Schema[type] \/ ~ Converts(config) THEN Fails("error")
        ELSE Configure(type, config)
=============================================================================
