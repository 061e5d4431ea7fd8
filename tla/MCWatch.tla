------------------------------ MODULE MCWatch -------------------------------
(* Clusters for the two resources x and y, of which Terraform has those    *)
(* that are not in the cluster.                                            *)
EXTENDS Watch, TLC

CONSTANTS x, y, r, s, p, q

MCResources == <<x, y>>

Object(kind, owner, begin, life) ==
  [kind |-> kind, owner |-> owner, begin |-> begin, life |-> life, dies |-> FALSE]
Dying(object) == [object EXCEPT !.dies = TRUE]

Available(n) == [desired |-> 1, available |-> n]
Ready1(d, n) == [desired |-> d, ready |-> n]
Pod1(init, container) == [inits |-> <<init>>, containers |-> <<container>>]
Slice(n) == [endpoints |-> n]
Load(b) == [type |-> "LoadBalancer", balanced |-> b, external |-> FALSE]
Done(n, m) == [completions |-> n, succeeded |-> m]
Phase(f) == [phase |-> f]
App(f, w) == [phase |-> f, workflow |-> w]

(* A Deployment that is made.                                              *)
Rollout ==
  (x :> Object("Deployment", None, 1, <<Available(0), Available(1)>>))
  @@ (r :> Object("ReplicaSet", x, 0, <<Ready1(1, 0), Ready1(1, 1)>>))
  @@ (p :> Object("Pod", r, 0, <<Pod1("waiting", "waiting"), Pod1("completed", "ready")>>))

(* One that gets a second ReplicaSet for the first.                        *)
Replacement ==
  (x :> Object("Deployment", None, 1, <<Available(1)>>))
  @@ (r :> Object("ReplicaSet", x, 1, <<Ready1(1, 1), Ready1(0, 0)>>))
  @@ (s :> Object("ReplicaSet", x, 0, <<Ready1(1, 0), Ready1(1, 1)>>))
  @@ (p :> Dying(Object("Pod", r, 1, <<Pod1("completed", "ready"), Pod1("completed", "ready")>>)))
  @@ (q :> Object("Pod", s, 0, <<Pod1("completed", "ready")>>))

(* One with two pods that are ready already.                               *)
Replicas ==
  (x :> Object("Deployment", None, 1, <<Available(1)>>))
  @@ (r :> Object("ReplicaSet", x, 1, <<Ready1(1, 1)>>))
  @@ (p :> Object("Pod", r, 1, <<Pod1("completed", "ready")>>))
  @@ (q :> Object("Pod", r, 1, <<Pod1("completed", "ready")>>))

Front ==
  (x :> Object("Service", None, 1, <<Load(FALSE), Load(TRUE)>>))
  @@ (s :> Object("EndpointSlice", x, 0, <<Slice(0), Slice(1)>>))
  @@ (y :> Object("Namespace", None, 1, <<Phase(""), Phase("Active")>>))

Batch(n) ==
  (x :> Object("Job", None, 1, <<Done(n, 0), Done(n, 1)>>))
  @@ (p :> Object("Pod", x, 0, <<Pod1("completed", "ready"), Pod1("completed", "terminated")>>))
  @@ (y :> Object("ConfigMap", None, 1, <<Slice(0)>>))

Stateful ==
  (x :> Object("StatefulSet", None, 1, <<Ready1(1, 0), Ready1(1, 1)>>))
  @@ (r :> Object("ControllerRevision", x, 0, <<[controlled |-> TRUE]>>))
  @@ (p :> Object("Pod", None, 0, <<Pod1("completed", "ready")>>))

(* A Service where the cluster has Endpoints only.                         *)
Named ==
  (x :> Object("Service", None, 1, <<Load(TRUE)>>))
  @@ (s :> Object("Endpoints", x, 0, <<[subsets |-> <<0>>], [subsets |-> <<0, 1>>]>>))

Controlled ==
  (x :> Object("ReplicationController", None, 1, <<Ready1(1, 0), Ready1(1, 1)>>))
  @@ (p :> Object("Pod", x, 1, <<Pod1("waiting", "waiting"), Pod1("completed", "ready")>>))

Scheduled ==
  (x :> Object("CronJob", None, 1, <<[scheduled |-> FALSE], [scheduled |-> TRUE]>>))
  @@ (r :> Object("Job", x, 0, <<Done(1, 0), Done(1, 1)>>))
  @@ (p :> Object("Pod", r, 0, <<Pod1("completed", "ready"), Pod1("completed", "terminated")>>))

Daemons ==
  (x :> Object("DaemonSet", None, 1, <<Ready1(1, 1)>>))
  @@ (r :> Object("ControllerRevision", x, 1, <<[controlled |-> TRUE]>>))

Pair(kx, lx, ky, ly) == (x :> Object(kx, None, 1, lx)) @@ (y :> Object(ky, None, 1, ly))

Pairs ==
  {Pair("Node", <<[ready |-> TRUE, schedulable |-> FALSE], [ready |-> TRUE, schedulable |-> TRUE]>>,
        "ComponentStatus", <<[healthy |-> FALSE], [healthy |-> TRUE]>>),
   Pair("Ingress", <<[balanced |-> FALSE], [balanced |-> TRUE]>>,
        "Application", <<App("rendering", NoWorkflow), App("running", "going"),
                         App("running", "finished")>>),
   Pair("PersistentVolume", <<Phase("")>>,
        "Application", <<App("rendering", NoWorkflow), App("running", NoWorkflow)>>),
   Pair("Secret", <<Phase("")>>, "VirtualService", <<Phase(""), Phase("")>>)}

MCWorlds ==
  {Rollout, Replacement, Replicas, Front, Named, Controlled, Scheduled, Daemons,
   Batch(1), Batch(NoCompletions), Stateful} \cup Pairs
=============================================================================
