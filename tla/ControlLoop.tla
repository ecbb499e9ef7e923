----------------------------- MODULE ControlLoop -----------------------------
(***************************************************************************)
(* The controller-manager of src/cmd/controller-manager/main.go without    *)
(* --leader-elect: the ReplicaSet and Deployment reconcilers run as two    *)
(* goroutines over the same registry, while clients create, update and     *)
(* delete Deployments through the API server (apiserver/server.go          *)
(* handleCreate / handleUpdate / handleDelete).                            *)
(***************************************************************************)
EXTENDS ReplicaSetController, DeploymentController

CONSTANTS
  ClientOps,       \* subset of {"create", "update", "delete"} clients issue
  ClientReplicas,  \* spec.replicas values clients write
  MaxEdits         \* how many client writes happen in a behaviour

VARIABLE edits     \* client writes so far

vars == <<storeVars, rcVars, dcVars, edits>>

-----------------------------------------------------------------------------
(* Clients.  A Deployment's selector is fixed; its spec.template and       *)
(* spec.replicas are what clients change.  Each write is one registry op. *)

ClientWrite == edits < MaxEdits /\ edits' = edits + 1

(* POST /apis/apps/v1/deployments: Create, Conflict if the name exists.    *)
CreateDeployment ==
  /\ "create" \in ClientOps
  /\ ClientWrite
  /\ \E d \in Deployments \ DOMAIN deployments, t \in Templates, n \in ClientReplicas :
       deployments' = Put(deployments, d, [template |-> t, replicas |-> n])
  /\ UNCHANGED <<replicasets, pods, failures>>

(* PUT /apis/apps/v1/deployments/{name}: the body replaces the object.     *)
UpdateDeployment ==
  /\ "update" \in ClientOps
  /\ ClientWrite
  /\ \E d \in DOMAIN deployments, t \in Templates, n \in ClientReplicas :
       /\ deployments[d] # [template |-> t, replicas |-> n]
       /\ deployments' = Put(deployments, d, [template |-> t, replicas |-> n])
  /\ UNCHANGED <<replicasets, pods, failures>>

(* DELETE /apis/apps/v1/deployments/{name}.                                *)
DeleteDeployment ==
  /\ "delete" \in ClientOps
  /\ ClientWrite
  /\ \E d \in DOMAIN deployments : deployments' = Drop(deployments, d)
  /\ UNCHANGED <<replicasets, pods, failures>>

-----------------------------------------------------------------------------
Init ==
  /\ deployments = <<>>
  /\ replicasets = <<>>
  /\ pods = <<>>
  /\ failures = 0
  /\ edits = 0
  /\ RCInit
  /\ DCInit

Next ==
  \/ RCListReplicaSets /\ UNCHANGED <<dcVars, edits>>
  \/ RCListPods /\ UNCHANGED <<dcVars, edits>>
  \/ RCListPodsFails /\ UNCHANGED <<dcVars, edits>>
  \/ RCCreatePod /\ UNCHANGED <<dcVars, edits>>
  \/ RCDeletePod /\ UNCHANGED <<dcVars, edits>>
  \/ RCCallFails /\ UNCHANGED <<dcVars, edits>>
  \/ DCListDeployments /\ UNCHANGED <<rcVars, edits>>
  \/ DCSyncDeployment /\ UNCHANGED <<rcVars, edits>>
  \/ DCListReplicaSetsFails /\ UNCHANGED <<rcVars, edits>>
  \/ DCCreateReplicaSet /\ UNCHANGED <<rcVars, edits>>
  \/ DCScaleReplicaSet /\ UNCHANGED <<rcVars, edits>>
  \/ DCCallFails /\ UNCHANGED <<rcVars, edits>>
  \/ CreateDeployment /\ UNCHANGED <<rcVars, dcVars>>
  \/ UpdateDeployment /\ UNCHANGED <<rcVars, dcVars>>
  \/ DeleteDeployment /\ UNCHANGED <<rcVars, dcVars>>

(* Both reconcilers are driven by a time.Ticker and make blocking HTTP     *)
(* calls that return (failures are bounded by MaxFailures), so each of     *)
(* their successful steps is weakly fair.  Clients are not.                *)
Fairness ==
  /\ WF_vars(RCListReplicaSets /\ UNCHANGED <<dcVars, edits>>)
  /\ WF_vars(RCListPods /\ UNCHANGED <<dcVars, edits>>)
  /\ WF_vars(RCCreatePod /\ UNCHANGED <<dcVars, edits>>)
  /\ WF_vars(RCDeletePod /\ UNCHANGED <<dcVars, edits>>)
  /\ WF_vars(DCListDeployments /\ UNCHANGED <<rcVars, edits>>)
  /\ WF_vars(DCSyncDeployment /\ UNCHANGED <<rcVars, edits>>)
  /\ WF_vars(DCCreateReplicaSet /\ UNCHANGED <<rcVars, edits>>)
  /\ WF_vars(DCScaleReplicaSet /\ UNCHANGED <<rcVars, edits>>)

Spec == Init /\ [][Next]_vars /\ Fairness

-----------------------------------------------------------------------------
TypeOK ==
  /\ StoreTypeOK
  /\ RCTypeOK
  /\ DCTypeOK
  /\ edits \in 0..MaxEdits

(* Deployment reconciler (spec 4.5 steps 3-5): once clients stop writing,  *)
(* every Deployment eventually and for good has a ReplicaSet for its       *)
(* current template with its replica count, and every other ReplicaSet    *)
(* its selector owns is scaled to 0.                                       *)
DeploymentRolledOut ==
  <>[](\A d \in DOMAIN deployments :
         LET cur == <<d, deployments[d].template>> IN
         /\ cur \in DOMAIN replicasets
         /\ replicasets[cur] = deployments[d].replicas
         /\ \A rs \in OwnedRS(d, replicasets) \ {cur} : replicasets[rs] = 0)

(* ReplicaSet convergence (spec 8.5): without further client writes, the   *)
(* number of pods matching each ReplicaSet's selector eventually equals    *)
(* its spec.replicas, and stays so.                                        *)
ReplicaSetConvergence ==
  <>[](\A rs \in DOMAIN replicasets :
         Cardinality(Owned(rs, pods)) = replicasets[rs])
(* Deployment deletion (spec 4.5 step 5 and scenario S4): once clients     *)
(* stop writing, every ReplicaSet eventually and for good has the replicas *)
(* its Deployment wants: the Deployment's count for the ReplicaSet of its  *)
(* current template, 0 for every other, and 0 for every ReplicaSet of a    *)
(* Deployment that was deleted.  reconcile visits only listed Deployments. *)
ReplicaSetsFollowDeployments ==
  <>[](\A rs \in DOMAIN replicasets :
         LET d == rs[1] IN
         replicasets[rs] = IF d \in DOMAIN deployments /\ deployments[d].template = rs[2]
                           THEN deployments[d].replicas ELSE 0)
=============================================================================
