------------------------- MODULE ReplicaSetController -------------------------
(***************************************************************************)
(* The ReplicaSet reconciler, src/internal/controller/replicaset/          *)
(* controller.go.  Every tick, reconcile() lists all ReplicaSets, then     *)
(* lists all pods, then for each ReplicaSet (in the registry's map order)  *)
(* creates or deletes pods one HTTP call at a time, all computed from that *)
(* one pod list.  The two lists and every call are separate steps, so the  *)
(* other controllers and clients interleave between them.                  *)
(***************************************************************************)
EXTENDS ClusterState, SequencesExt

VARIABLES
  rcPc,    \* "Idle", "ListedRS" (RS list held), "Acting" (calls pending)
  rcRS,    \* the ReplicaSet list of the current pass: name -> spec.replicas
  rcOps    \* the create/delete calls still to make in this pass

rcVars == <<rcPc, rcRS, rcOps>>

(* A create call carries the ReplicaSet whose template it copies; a delete *)
(* call the pod it names.  Pod names are naturals; 0 stands for "none".    *)
RCOp == [kind : {"create", "delete"}, rs : RSNames, pod : PodIds \cup {0}]

(* reconcileRS: the pods of the list whose labels match the selector.      *)
Owned(rs, podList) ==
  {p \in DOMAIN podList : RSLabelsMatch(RSSelector(rs), TemplateLabels[podList[p]])}

Excess(rs, podList) == Cardinality(Owned(rs, podList)) - rcRS[rs]

(* The pods the scale-down loop deletes, ownedPods[0..diff-1]: the list    *)
(* order is Go map order, so any diff of the owned pods.                   *)
DeleteChoices(podList) ==
  {f \in [DOMAIN rcRS -> SUBSET DOMAIN podList] :
     \A rs \in DOMAIN rcRS :
        /\ f[rs] \subseteq Owned(rs, podList)
        /\ Cardinality(f[rs]) = IF Excess(rs, podList) > 0
                                THEN Excess(rs, podList) ELSE 0}

(* reconcileRS for one ReplicaSet: desired - current creates, or deletes   *)
(* of the chosen pods, or nothing.                                         *)
ReconcileRS(rs, podList, victims) ==
  LET current == Cardinality(Owned(rs, podList))
      doomed == SetToSeq(victims)
  IN IF current < rcRS[rs]
     THEN [i \in 1..(rcRS[rs] - current) |-> [kind |-> "create", rs |-> rs, pod |-> 0]]
     ELSE [i \in 1..Len(doomed) |-> [kind |-> "delete", rs |-> rs, pod |-> doomed[i]]]

(* Pod names nobody holds: not stored, and not named by a pending delete.  *)
(* A fresh uuid suffix in createPod is modelled by such a name.            *)
FreePodIds ==
  PodIds \ (DOMAIN pods \cup {rcOps[i].pod : i \in 1..Len(rcOps)})

RCInit ==
  /\ rcPc = "Idle"
  /\ rcRS = <<>>
  /\ rcOps = <<>>

(* reconcile, step 1: ListReplicaSets on a tick of Start.                  *)
RCListReplicaSets ==
  /\ rcPc = "Idle"
  /\ rcPc' = "ListedRS"
  /\ rcRS' = replicasets
  /\ UNCHANGED <<rcOps>>
  /\ UNCHANGED storeVars

(* reconcile, step 2: ListPods, then reconcileRS for every ReplicaSet of   *)
(* the list in map order, which decides every call of the pass.            *)
RCListPods ==
  /\ rcPc = "ListedRS"
  /\ \E order \in SetToSeqs(DOMAIN rcRS), victims \in DeleteChoices(pods) :
       LET ops == FlattenSeq([i \in 1..Len(order) |->
                                ReconcileRS(order[i], pods, victims[order[i]])])
       IN /\ rcOps' = ops
          /\ rcPc' = IF ops = <<>> THEN "Idle" ELSE "Acting"
  /\ UNCHANGED <<rcRS>>
  /\ UNCHANGED storeVars

(* reconcile, step 2 failing: ListPods returns an error; the pass ends.    *)
RCListPodsFails ==
  /\ rcPc = "ListedRS"
  /\ CanFail /\ Fail
  /\ rcPc' = "Idle"
  /\ UNCHANGED <<rcRS, rcOps>>
  /\ UNCHANGED <<deployments, replicasets, pods>>

RCAfterCall == /\ rcOps' = Tail(rcOps)
               /\ rcPc' = IF Tail(rcOps) = <<>> THEN "Idle" ELSE "Acting"

(* createPod: POST a pod named <rs>-<random> from the template.  The name  *)
(* is fresh, so the registry's Create never reports a conflict.            *)
RCCreatePod ==
  /\ rcPc = "Acting"
  /\ Head(rcOps).kind = "create"
  /\ \E p \in FreePodIds : pods' = Put(pods, p, Head(rcOps).rs[2])
  /\ RCAfterCall
  /\ UNCHANGED <<rcRS, deployments, replicasets, failures>>

(* Mutant: the DELETE names a pod that does not exist; the 404 is taken    *)
(* for success.                                                            *)
RCDeletePodMissed ==
  /\ rcPc = "Acting"
  /\ Head(rcOps).kind = "delete"
  /\ UNCHANGED pods
  /\ RCAfterCall
  /\ UNCHANGED <<rcRS, deployments, replicasets, failures>>

(* DeletePod: DELETE the pod; a 404 is reported as success by the client.  *)
RCDeletePod ==
  /\ rcPc = "Acting"
  /\ Head(rcOps).kind = "delete"
  /\ pods' = IF Head(rcOps).pod \in DOMAIN pods THEN Drop(pods, Head(rcOps).pod) ELSE pods
  /\ RCAfterCall
  /\ UNCHANGED <<rcRS, deployments, replicasets, failures>>

(* A create or delete call fails: the error is logged and the loop moves   *)
(* on to the next call.                                                    *)
RCCallFails ==
  /\ rcPc = "Acting"
  /\ CanFail /\ Fail
  /\ RCAfterCall
  /\ UNCHANGED <<rcRS, deployments, replicasets, pods>>

RCNext ==
  \/ RCListReplicaSets
  \/ RCListPods
  \/ RCListPodsFails
  \/ RCCreatePod
  \/ RCDeletePod
  \/ RCCallFails

RCTypeOK ==
  /\ rcPc \in {"Idle", "ListedRS", "Acting"}
  /\ DOMAIN rcRS \subseteq RSNames
  /\ rcOps \in Seq(RCOp)
=============================================================================
