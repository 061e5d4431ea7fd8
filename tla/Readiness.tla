----------------------------- MODULE Readiness ------------------------------
(***************************************************************************)
(* What the printers make of an object of the cluster: whether its row is  *)
(* READY (pkg/engine/printers).  An object has a kind and a status, which  *)
(* holds the numbers and conditions that its printer looks at; the texts   *)
(* of the rows are left out.                                               *)
(***************************************************************************)
EXTENDS Integers, Sequences

(* Replicated: the status of what runs replicas, of which the printer of a *)
(* Deployment asks for the available ones and of the others for the ready. *)
DeploymentReady(s) == s.desired = s.available
ReplicaSetReady(s) == s.desired = s.ready
ReplicationControllerReady(s) == s.desired = s.ready
StatefulSetReady(s) == s.desired = s.ready
DaemonSetReady(s) == s.desired = s.ready

ControllerRevisionReady(s) == s.controlled

(* A container is waiting, running and ready or not, or terminated; while  *)
(* an init container is not through, none counts.                          *)
Initializing(s) == \E i \in DOMAIN s.inits : s.inits[i] # "completed"

ReadyContainers(s) ==
  IF Initializing(s) THEN {} ELSE {i \in DOMAIN s.containers : s.containers[i] = "ready"}

PodReady(s) == ReadyContainers(s) = DOMAIN s.containers

(* A Job without completions, which Kubernetes allows, makes the printer   *)
(* follow a nil pointer.                                                   *)
NoCompletions == -1
JobCrashes(s) == s.completions = NoCompletions
JobReady(s) == s.succeeded = s.completions

CronJobReady(s) == s.scheduled

(* A service is pending only as a load balancer without any address.       *)
ServiceExternalIP(s) ==
  IF s.type = "LoadBalancer" /\ ~s.balanced /\ ~s.external THEN "<pending>" ELSE "address"

ServiceReady(s) == ServiceExternalIP(s) # "<pending>"

EndpointsReady(s) == \E i \in DOMAIN s.subsets : s.subsets[i] > 0
EndpointSliceReady(s) == s.endpoints > 0
IngressReady(s) == s.balanced

NamespaceReady(s) == s.phase = "Active"
NodeReady(s) == s.ready /\ s.schedulable
ComponentReady(s) == s.healthy

(* A running Application whose status has no workflow, an optional part,   *)
(* makes the printer follow a nil pointer too.                             *)
NoWorkflow == "none"
ApplicationCrashes(s) == s.phase = "running" /\ s.workflow = NoWorkflow
ApplicationReady(s) == s.phase = "running" /\ s.workflow = "finished"

(* The kinds that convertor and printers know, and whose row is READY      *)
(* whatever their status.                                                  *)
AlwaysReady ==
  {"ConfigMap", "Event", "PersistentVolumeClaim", "PersistentVolume", "PodTemplate",
   "ResourceQuota", "Secret", "ServiceAccount"}

(* Generate of a converted object; a kind that is not known is skipped.    *)
Generate(kind, s) ==
  CASE kind = "Deployment" -> DeploymentReady(s)
    [] kind = "ReplicaSet" -> ReplicaSetReady(s)
    [] kind = "ReplicationController" -> ReplicationControllerReady(s)
    [] kind = "StatefulSet" -> StatefulSetReady(s)
    [] kind = "DaemonSet" -> DaemonSetReady(s)
    [] kind = "ControllerRevision" -> ControllerRevisionReady(s)
    [] kind = "Pod" -> PodReady(s)
    [] kind = "Job" -> JobReady(s)
    [] kind = "CronJob" -> CronJobReady(s)
    [] kind = "Service" -> ServiceReady(s)
    [] kind = "Endpoints" -> EndpointsReady(s)
    [] kind = "EndpointSlice" -> EndpointSliceReady(s)
    [] kind = "Ingress" -> IngressReady(s)
    [] kind = "Namespace" -> NamespaceReady(s)
    [] kind = "Node" -> NodeReady(s)
    [] kind = "ComponentStatus" -> ComponentReady(s)
    [] kind = "Application" -> ApplicationReady(s)
    [] kind \in AlwaysReady -> TRUE
    [] OTHER -> TRUE

=============================================================================
