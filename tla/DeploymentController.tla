------------------------- MODULE DeploymentController -------------------------
(***************************************************************************)
(* The Deployment reconciler, src/internal/controller/deployment/          *)
(* controller.go.  Every tick, reconcile() lists the Deployments; for each *)
(* (in map order) syncDeployment lists the ReplicaSets, picks the ones     *)
(* whose labels match the deployment's selector, looks for the one whose   *)
(* revision annotation is the template hash, creates it if missing, sets   *)
(* its replicas to the deployment's, and sets every other owned            *)
(* ReplicaSet with replicas > 0 to 0.  Each HTTP call is one step.         *)
(***************************************************************************)
EXTENDS ClusterState, SequencesExt

VARIABLES
  dcPc,    \* "Idle", "Syncing" (deployments left to sync), "Acting"
  dcList,  \* deployments of the current pass not yet synced: d -> record
  dcOps    \* the create/update calls still to make for the current one

dcVars == <<dcPc, dcList, dcOps>>

DCOp == [kind : {"create", "scale"}, rs : RSNames, replicas : 0..MaxReplicas]

(* syncDeployment on the ReplicaSet list rsList for deployment d whose     *)
(* listed spec is rec: the calls it makes, in order.  oldOrder is the map  *)
(* order of the old ReplicaSets.                                           *)
OwnedRS(d, rsList) ==
  {rs \in DOMAIN rsList : DeployLabelsMatch(Selector[d], RSLabels(rs))}

(* The "new" ReplicaSet: an owned one whose revision annotation equals the *)
(* hash of the deployment's template; the first in list order wins.       *)
NewRSCandidates(d, rec, rsList) ==
  {rs \in OwnedRS(d, rsList) : rs[2] = rec.template}

(* Mutants: the new ReplicaSet created with one replica too many; the new  *)
(* ReplicaSet only ever scaled up.                                         *)
SyncDeploymentSurge(d, rec, rsList, newRS, created, oldOrder) ==
  LET createCall == IF created
                    THEN <<[kind |-> "create", rs |-> newRS, replicas |-> rec.replicas + 1]>>
                    ELSE <<>>
      scaleNew == IF ~created /\ rsList[newRS] # rec.replicas
                  THEN <<[kind |-> "scale", rs |-> newRS, replicas |-> rec.replicas]>>
                  ELSE <<>>
      scaleOld == [i \in 1..Len(oldOrder) |-> [kind |-> "scale", rs |-> oldOrder[i], replicas |-> 0]]
  IN createCall \o scaleNew \o scaleOld

SyncDeploymentUpOnly(d, rec, rsList, newRS, created, oldOrder) ==
  LET createCall == IF created
                    THEN <<[kind |-> "create", rs |-> newRS, replicas |-> rec.replicas]>>
                    ELSE <<>>
      scaleNew == IF ~created /\ rsList[newRS] < rec.replicas
                  THEN <<[kind |-> "scale", rs |-> newRS, replicas |-> rec.replicas]>>
                  ELSE <<>>
      scaleOld == [i \in 1..Len(oldOrder) |-> [kind |-> "scale", rs |-> oldOrder[i], replicas |-> 0]]
  IN createCall \o scaleNew \o scaleOld

SyncDeployment(d, rec, rsList, newRS, created, oldOrder) ==
  LET createCall == IF created
                    THEN <<[kind |-> "create", rs |-> newRS, replicas |-> rec.replicas]>>
                    ELSE <<>>
      scaleNew == IF ~created /\ rsList[newRS] # rec.replicas
                  THEN <<[kind |-> "scale", rs |-> newRS, replicas |-> rec.replicas]>>
                  ELSE <<>>
      scaleOld == [i \in 1..Len(oldOrder) |-> [kind |-> "scale", rs |-> oldOrder[i], replicas |-> 0]]
  IN createCall \o scaleNew \o scaleOld

(* Mutant: the scale-down test off by one.                                 *)
OldToScaleAboveOne(d, rsList, newRS) ==
  {rs \in OwnedRS(d, rsList) \ {newRS} : rsList[rs] > 1}

(* The old ReplicaSets the scale-down loop writes: owned, not named like   *)
(* the new one, listed with replicas > 0.                                  *)
OldToScale(d, rsList, newRS) ==
  {rs \in OwnedRS(d, rsList) \ {newRS} : rsList[rs] > 0}

DCInit ==
  /\ dcPc = "Idle"
  /\ dcList = <<>>
  /\ dcOps = <<>>

DCNextPc(list) == IF DOMAIN list = {} THEN "Idle" ELSE "Syncing"

(* reconcile: ListDeployments on a tick of Start.                          *)
DCListDeployments ==
  /\ dcPc = "Idle"
  /\ DOMAIN deployments # {}
  /\ dcPc' = "Syncing"
  /\ dcList' = deployments
  /\ UNCHANGED <<dcOps>>
  /\ UNCHANGED storeVars

(* syncDeployment(d): ListReplicaSets and decide the calls.                *)
DCSyncDeployment ==
  /\ dcPc = "Syncing"
  /\ \E d \in DOMAIN dcList :
       LET rec == dcList[d]
           cands == NewRSCandidates(d, rec, replicasets)
           rest == Drop(dcList, d)
       IN \E newRS \in IF cands = {} THEN {<<d, rec.template>>} ELSE cands :
            \E oldOrder \in SetToSeqs(OldToScale(d, replicasets, newRS)) :
              LET ops == SyncDeployment(d, rec, replicasets, newRS, cands = {}, oldOrder)
              IN /\ dcOps' = ops
                 /\ dcList' = rest
                 /\ dcPc' = IF ops = <<>> THEN DCNextPc(rest) ELSE "Acting"
  /\ UNCHANGED storeVars

(* syncDeployment(d) failing at ListReplicaSets: logged, next deployment.  *)
DCListReplicaSetsFails ==
  /\ dcPc = "Syncing"
  /\ CanFail /\ Fail
  /\ \E d \in DOMAIN dcList :
       /\ dcList' = Drop(dcList, d)
       /\ dcPc' = DCNextPc(dcList')
  /\ UNCHANGED <<dcOps, deployments, replicasets, pods>>

DCAfterCall(rest) == /\ dcOps' = rest
                     /\ dcPc' = IF rest = <<>> THEN DCNextPc(dcList) ELSE "Acting"

(* createNewReplicaSet: POST the ReplicaSet <d>-<hash[:10]>.  If the name  *)
(* is taken the registry answers Conflict and syncDeployment returns       *)
(* before scaling anything.                                                *)
DCCreateReplicaSet ==
  /\ dcPc = "Acting"
  /\ Head(dcOps).kind = "create"
  /\ LET op == Head(dcOps) IN
       IF op.rs \notin DOMAIN replicasets
       THEN /\ replicasets' = Put(replicasets, op.rs, op.replicas)
            /\ DCAfterCall(Tail(dcOps))
       ELSE /\ UNCHANGED replicasets
            /\ DCAfterCall(<<>>)
  /\ UNCHANGED <<dcList, deployments, pods, failures>>

(* UpdateReplicaSet: PUT the listed ReplicaSet with the new replica count; *)
(* NotFound is logged and the loop goes on.                                *)
DCScaleReplicaSet ==
  /\ dcPc = "Acting"
  /\ Head(dcOps).kind = "scale"
  /\ LET op == Head(dcOps) IN
       replicasets' = IF op.rs \in DOMAIN replicasets
                      THEN Put(replicasets, op.rs, op.replicas) ELSE replicasets
  /\ DCAfterCall(Tail(dcOps))
  /\ UNCHANGED <<dcList, deployments, pods, failures>>

(* A call fails: a failed create ends syncDeployment, a failed update is   *)
(* logged and the next one is made.                                        *)
DCCallFails ==
  /\ dcPc = "Acting"
  /\ CanFail /\ Fail
  /\ DCAfterCall(IF Head(dcOps).kind = "create" THEN <<>> ELSE Tail(dcOps))
  /\ UNCHANGED <<dcList, deployments, replicasets, pods>>

DCNext ==
  \/ DCListDeployments
  \/ DCSyncDeployment
  \/ DCListReplicaSetsFails
  \/ DCCreateReplicaSet
  \/ DCScaleReplicaSet
  \/ DCCallFails

DCTypeOK ==
  /\ dcPc \in {"Idle", "Syncing", "Acting"}
  /\ DOMAIN dcList \subseteq Deployments
  /\ dcOps \in Seq(DCOp)
=============================================================================
