---------------------------- MODULE ClusterState ----------------------------
(***************************************************************************)
(* The part of the registry (src/internal/storage/memory.go) that the      *)
(* reconciliation controllers share: the Deployment, ReplicaSet and Pod    *)
(* objects, keyed as the API server keys them (/registry/<kind>/<name>).   *)
(* Every HTTP call a controller makes is one atomic registry operation:    *)
(* MemoryStore serialises writes under its RWMutex.                        *)
(*                                                                         *)
(* Data abstraction.  A pod template is a model value of Templates; its    *)
(* labels are TemplateLabels[t], a set of <<key, value>> pairs.  The       *)
(* template hash of deployment/controller.go is injective on templates, so *)
(* a ReplicaSet created for deployment d and template t is named <<d, t>>. *)
(* A ReplicaSet's selector, template and labels are fixed at creation and  *)
(* never rewritten with other values, so only its replica count is state.  *)
(* A pod keeps the template it was created from; generated pod names are  *)
(* drawn from PodIds, never reusing a name any controller still holds.     *)
(***************************************************************************)
EXTENDS Naturals, FiniteSets, Sequences

CONSTANTS
  Deployments,      \* deployment names (model values)
  Templates,        \* pod templates (model values)
  TemplateLabels,   \* [Templates -> SUBSET label pairs]
  Selector,         \* [Deployments -> SUBSET label pairs], spec.selector.matchLabels
  PodIds,           \* pool of generated pod names
  MaxReplicas,      \* largest spec.replicas a client writes
  MaxFailures       \* how many HTTP calls of the controllers may fail

VARIABLES
  deployments,      \* /registry/deployments: d -> [template, replicas]
  replicasets,      \* /registry/replicasets: <<d, t>> -> spec.replicas
  pods,             \* /registry/pods: pod name -> template it was created from
  failures          \* HTTP calls that have failed so far

storeVars == <<deployments, replicasets, pods, failures>>

DeploymentRecord == [template : Templates, replicas : 0..MaxReplicas]
RSNames == Deployments \X Templates

(* ObjectMeta of a ReplicaSet created by createNewReplicaSet: its labels   *)
(* are the template's labels, its selector the deployment's selector.      *)
RSLabels(rs) == TemplateLabels[rs[2]]
RSSelector(rs) == Selector[rs[1]]

(* replicaset/controller.go labelsMatch: an empty selector matches nothing. *)
RSLabelsMatch(selector, labels) == selector # {} /\ selector \subseteq labels

(* deployment/controller.go labelsMatch: an empty selector matches all.    *)
DeployLabelsMatch(selector, labels) == selector \subseteq labels

(* Failure of one HTTP call, bounded by MaxFailures.                       *)
CanFail == failures < MaxFailures
Fail == failures' = failures + 1

(* Add or replace one key of a partial function.                           *)
Put(f, k, v) == [x \in DOMAIN f \cup {k} |-> IF x = k THEN v ELSE f[x]]
(* Remove one key of a partial function.                                   *)
Drop(f, k) == [x \in DOMAIN f \ {k} |-> f[x]]

StoreTypeOK ==
  /\ DOMAIN deployments \subseteq Deployments
  /\ \A d \in DOMAIN deployments : deployments[d] \in DeploymentRecord
  /\ DOMAIN replicasets \subseteq RSNames
  /\ \A rs \in DOMAIN replicasets : replicasets[rs] \in 0..MaxReplicas
  /\ DOMAIN pods \subseteq PodIds
  /\ \A p \in DOMAIN pods : pods[p] \in Templates
  /\ failures \in 0..MaxFailures
=============================================================================
