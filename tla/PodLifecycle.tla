----------------------------- MODULE PodLifecycle -----------------------------
(***************************************************************************)
(* A pod's way from creation to a running container: the scheduler         *)
(* (src/internal/scheduler/scheduler.go) binds unscheduled pods to nodes,  *)
(* and each node's kubelet (src/internal/kubelet/agent.go) starts the      *)
(* containers of the pods bound to it through the docker runtime           *)
(* (kubelet/runtime.go), stops containers of pods no longer bound to it,   *)
(* and writes the pod's phase and IP back.                                 *)
(*                                                                         *)
(* Both write a pod with a full-object PUT (client.UpdatePod) built from   *)
(* the copy they listed; the registry's Update replaces whatever object    *)
(* has that name, or answers NotFound.  A pod is [gen, node, phase, ip]:   *)
(* gen stands for the spec the client created it with (each create by a    *)
(* client is a new gen), ip for "status.podIP is non-empty".  A runtime    *)
(* container is named after its pod and records the gen it was started     *)
(* from, and docker's state, "running" or "exited".                        *)
(***************************************************************************)
EXTENDS Naturals, FiniteSets

CONSTANTS
  Nodes,       \* node names, one kubelet each
  PodNames,    \* pod names clients use
  NoNode,      \* spec.nodeName = ""
  MaxGen,      \* number of pod creates in a behaviour
  MaxExits,    \* number of container exits in a behaviour
  ReuseNames,  \* whether a client re-creates a pod under a deleted name
  Probed,      \* the pod specs (gens) with a container livenessProbe
  AddrAnswers, \* for an exited container, whether the probed address still
               \* answers: TRUE \in it for a reused pod IP, FALSE for localhost
  MaxDockerFailures \* docker commands of the kubelets that fail in a behaviour

Gens == 1..MaxGen
Phases == {"Pending", "Running"}
Pod == [gen : Gens, node : Nodes \cup {NoNode}, phase : Phases, ip : BOOLEAN]
DockerStates == {"running", "exited"}
Container == [gen : Gens, state : DockerStates]

VARIABLES
  pods,        \* /registry/pods: name -> Pod
  nodes,       \* /registry/nodes: registered node names (Ready=True)
  containers,  \* node -> (pod name -> Container): the docker daemon
  sPc,         \* scheduler: "Idle", "ListedPods", "Binding"
  sPods,       \* scheduler: listed unscheduled pods, name -> Pod
  sNodes,      \* scheduler: listed nodes
  kPc,         \* kubelet: "Down", "Idle", "ListedPods", "Reconciling"
  kPods,       \* kubelet: listed pods bound to it, not yet reconciled
  kCtr,        \* kubelet: listed containers, not yet handled
  nextGen,     \* gen of the next pod a client creates
  exits,       \* container exits so far
  used,        \* ghost: pod names clients have created
  live,        \* ghost: pod names created by a client and not deleted since
  latest,      \* ghost: name -> gen of the client's latest create
  dockerFails  \* docker commands that have failed so far

vars == <<pods, nodes, containers, sPc, sPods, sNodes, kPc, kPods, kCtr,
          nextGen, exits, used, live, latest, dockerFails>>

(* Add, replace or remove one key of a partial function.                   *)
Put(f, k, v) == [x \in DOMAIN f \cup {k} |-> IF x = k THEN v ELSE f[x]]
Drop(f, k) == [x \in DOMAIN f \ {k} |-> f[x]]
Restrict(f, S) == [x \in DOMAIN f \cap S |-> f[x]]

(* Mutant: Update creates the object when the key is missing.             *)
Upsert(f, k, v) == Put(f, k, v)

(* The registry's Update through handleUpdate: replace if the key exists,  *)
(* else NotFound and no change.                                            *)
UpdateIfExists(f, k, v) == IF k \in DOMAIN f THEN Put(f, k, v) ELSE f

(* reconcilePod tests strings.HasPrefix(rc.State, "Exit"); ListContainers  *)
(* fills State from docker's {{.State}}, whose values are lower case.      *)
StartsWithExit == [s \in DockerStates |-> FALSE]

(* Mutant: no probe when status.podIP is empty.                           *)
LivenessFailsWithIP(gen, state, hasIP) ==
  /\ gen \in Probed
  /\ state = "exited"
  /\ hasIP
  /\ hasIP \notin AddrAnswers

(* The liveness probe of a container the Exit test let through            *)
(* (prober.go Probe): an HTTP GET or TCP dial to status.podIP as listed,   *)
(* or to localhost on the node when it is empty.  A running container     *)
(* answers at its own IP; an exited one fails unless something else now    *)
(* answers at that address.                                                *)
LivenessFails(gen, state, hasIP) ==
  /\ gen \in Probed
  /\ state = "exited"
  /\ hasIP \notin AddrAnswers

(* GetContainerIP: docker inspect gives the bridge network's address of a  *)
(* running container and an empty one once it has exited.                  *)
ContainerIP(state) == state = "running"

(* The docker commands of kubelet/runtime.go on one node's containers     *)
(* ctrs, as sets of <<containers after, whether a command failed>>.        *)
(* RunContainer: docker run --name k8s-lite-<pod>-<ctr>, or its failure.  *)
RunResults(ctrs, p, fresh) == {<<Put(ctrs, p, fresh), FALSE>>, <<ctrs, TRUE>>}

(* StopContainer: docker stop, whose failure returns before anything else; *)
(* then docker rm, whose error is ignored and leaves the container         *)
(* stopped in docker ps -a.                                                *)
StopResults(ctrs, p) ==
  {<<Drop(ctrs, p), FALSE>>, <<ctrs, TRUE>>,
   <<Put(ctrs, p, [ctrs[p] EXCEPT !.state = "exited"]), TRUE>>}

(* StopContainer then RunContainer, as reconcilePod restarts: the run      *)
(* follows whatever the stop left, and fails on a name still taken.        *)
RestartResults(ctrs, p, fresh) ==
  UNION {IF p \in DOMAIN r[1]
         THEN {<<r[1], r[2]>>}
         ELSE {<<q[1], r[2] \/ q[2]>> : q \in RunResults(r[1], p, fresh)}
         : r \in StopResults(ctrs, p)}

(* The containers of node n after the docker commands of one step, at most *)
(* MaxDockerFailures of which fail in a behaviour.                          *)
DockerStep(n, r) ==
  /\ r[2] => dockerFails < MaxDockerFailures
  /\ containers' = [containers EXCEPT ![n] = r[1]]
  /\ dockerFails' = IF r[2] THEN dockerFails + 1 ELSE dockerFails

Init ==
  /\ pods = <<>>
  /\ nodes = {}
  /\ containers = [n \in Nodes |-> <<>>]
  /\ sPc = "Idle"
  /\ sPods = <<>>
  /\ sNodes = {}
  /\ kPc = [n \in Nodes |-> "Down"]
  /\ kPods = [n \in Nodes |-> <<>>]
  /\ kCtr = [n \in Nodes |-> <<>>]
  /\ nextGen = 1
  /\ exits = 0
  /\ used = {}
  /\ live = {}
  /\ latest = <<>>
  /\ dockerFails = 0

-----------------------------------------------------------------------------
(* Scheduler, scheduleOneRound on each tick.                               *)

(* scheduleOneRound, step 2: the pods whose spec.nodeName is "".           *)
Unscheduled(podList) == {p \in DOMAIN podList : podList[p].node = NoNode}

(* ListPods; with no unscheduled pod the round ends.                       *)
SchedListPods ==
  /\ sPc = "Idle"
  /\ sPods' = Restrict(pods, Unscheduled(pods))
  /\ sPc' = IF Unscheduled(pods) = {} THEN "Idle" ELSE "ListedPods"
  /\ UNCHANGED <<pods, nodes, containers, sNodes, kPc, kPods, kCtr, nextGen, exits, used, live, latest, dockerFails>>

(* ListNodes; with no node the round ends.                                 *)
SchedListNodes ==
  /\ sPc = "ListedPods"
  /\ sNodes' = nodes
  /\ sPc' = IF nodes = {} THEN "Idle" ELSE "Binding"
  /\ UNCHANGED <<pods, nodes, containers, sPods, kPc, kPods, kCtr, nextGen, exits, used, live, latest, dockerFails>>

(* selectNode: podFitsResources keeps nodes with Ready=True (every         *)
(* registered node; nothing clears it) whose parsed CPU capacity is at     *)
(* least getRequest's, which is always "0": every listed node is feasible. *)
(* One is picked at random.  bind sets spec.nodeName on the listed copy    *)
(* and PUTs it.                                                            *)
SchedBind ==
  /\ sPc = "Binding"
  /\ \E p \in DOMAIN sPods, n \in sNodes :
       /\ pods' = UpdateIfExists(pods, p, [sPods[p] EXCEPT !.node = n])
       /\ sPods' = Drop(sPods, p)
       /\ sPc' = IF DOMAIN sPods' = {} THEN "Idle" ELSE "Binding"
  /\ UNCHANGED <<nodes, containers, sNodes, kPc, kPods, kCtr, nextGen, exits, used, live, latest, dockerFails>>

-----------------------------------------------------------------------------
(* Kubelet of node n.                                                      *)

(* Start: registerNode POSTs the node with Ready=True; Conflict counts as  *)
(* success.  Then the sync loop starts.                                    *)
Register(n) ==
  /\ kPc[n] = "Down"
  /\ nodes' = nodes \cup {n}
  /\ kPc' = [kPc EXCEPT ![n] = "Idle"]
  /\ UNCHANGED <<pods, containers, sPc, sPods, sNodes, kPods, kCtr, nextGen, exits, used, live, latest, dockerFails>>

(* Mutant: the kubelet keeps every listed pod.                             *)
MyPodsAll(n, podList) == DOMAIN podList

(* runSync: the listed pods whose spec.nodeName is this node.              *)
MyPods(n, podList) == {p \in DOMAIN podList : podList[p].node = n}

(* Mutant: newPhase starts empty instead of "Pending".                      *)
NewPhaseUnset(found) == IF found THEN "Running" ELSE ""

(* reconcilePod: Running if any runtime container was found for the pod.   *)
NewPhase(found) == IF found THEN "Running" ELSE "Pending"

(* runSync, step 1: ListPods, keeping the pods bound to this node.         *)
KubeletListPods(n) ==
  /\ kPc[n] = "Idle"
  /\ kPods' = [kPods EXCEPT ![n] = Restrict(pods, MyPods(n, pods))]
  /\ kPc' = [kPc EXCEPT ![n] = "ListedPods"]
  /\ UNCHANGED <<pods, nodes, containers, sPc, sPods, sNodes, kCtr, nextGen, exits, used, live, latest, dockerFails>>

(* Mutant: the containers listed with docker ps, without -a.               *)
KubeletListContainersRunning(n) ==
  /\ kPc[n] = "ListedPods"
  /\ kCtr' = [kCtr EXCEPT ![n] = [p \in {q \in DOMAIN containers[n] :
                                     containers[n][q].state = "running"} |-> containers[n][p]]]
  /\ kPc' = [kPc EXCEPT ![n] = "Reconciling"]
  /\ UNCHANGED <<pods, nodes, containers, sPc, sPods, sNodes, kPods, nextGen, exits, used, live, latest, dockerFails>>

(* runSync, step 2: Runtime.ListContainers (docker ps -a, so stopped       *)
(* containers too), grouped by pod name.                                   *)
KubeletListContainers(n) ==
  /\ kPc[n] = "ListedPods"
  /\ kCtr' = [kCtr EXCEPT ![n] = containers[n]]
  /\ kPc' = [kPc EXCEPT ![n] = "Reconciling"]
  /\ UNCHANGED <<pods, nodes, containers, sPc, sPods, sNodes, kPods, nextGen, exits, used, live, latest, dockerFails>>

(* reconcilePod for one listed pod, then delete(runningPods, pod.Name).    *)
(* The container k8s-lite-<pod>-<ctr> is looked up by name only.  Not      *)
(* found: RunContainer (docker run fails if the name is taken by now).     *)
(* Found and State starting with "Exit": stop and run again.  Otherwise    *)
(* GetContainerIP, non-empty for a running container, then the liveness    *)
(* probe; a failed probe stops (docker stop, rm) and runs the container    *)
(* again.  The phase is                                                    *)
(* Running if any container was found; the listed pod is PUT if the phase *)
(* changed or the IP is non-empty.                                         *)
KubeletReconcilePod(n) ==
  /\ kPc[n] = "Reconciling"
  /\ \E p \in DOMAIN kPods[n] :
       LET rec == kPods[n][p]
           found == p \in DOMAIN kCtr[n]
           fresh == [gen |-> rec.gen, state |-> "running"]
           exitTest == found /\ StartsWithExit[kCtr[n][p].state]
           ip == IF found /\ ~exitTest /\ ContainerIP(kCtr[n][p].state) THEN TRUE ELSE rec.ip
           restart == \/ exitTest
                      \/ found /\ LivenessFails(rec.gen, kCtr[n][p].state, ip)
           phase == NewPhase(found)
           ctrs == containers[n]
       IN /\ \E r \in CASE restart -> RestartResults(ctrs, p, fresh)
                        [] ~found /\ p \notin DOMAIN ctrs -> RunResults(ctrs, p, fresh)
                        [] OTHER -> {<<ctrs, FALSE>>} :
               DockerStep(n, r)
          /\ pods' = IF rec.phase # phase \/ ip
                     THEN UpdateIfExists(pods, p, [rec EXCEPT !.phase = phase, !.ip = ip])
                     ELSE pods
          /\ kPods' = [kPods EXCEPT ![n] = Drop(@, p)]
          /\ kCtr' = [kCtr EXCEPT ![n] = Drop(@, p)]
  /\ UNCHANGED <<nodes, kPc, sPc, sPods, sNodes, nextGen, exits, used, live, latest>>

(* runSync, step B: a listed container whose pod is not bound here is      *)
(* stopped and removed.                                                    *)
KubeletStopOrphan(n) ==
  /\ kPc[n] = "Reconciling"
  /\ DOMAIN kPods[n] = {}
  /\ \E p \in DOMAIN kCtr[n] :
       /\ IF p \in DOMAIN containers[n]
          THEN \E r \in StopResults(containers[n], p) : DockerStep(n, r)
          ELSE UNCHANGED <<containers, dockerFails>>
       /\ kCtr' = [kCtr EXCEPT ![n] = Drop(@, p)]
  /\ UNCHANGED <<pods, nodes, kPc, kPods, sPc, sPods, sNodes, nextGen, exits, used, live, latest>>

KubeletSyncDone(n) ==
  /\ kPc[n] = "Reconciling"
  /\ DOMAIN kPods[n] = {}
  /\ DOMAIN kCtr[n] = {}
  /\ kPc' = [kPc EXCEPT ![n] = "Idle"]
  /\ UNCHANGED <<pods, nodes, containers, sPc, sPods, sNodes, kPods, kCtr, nextGen, exits, used, live, latest, dockerFails>>

-----------------------------------------------------------------------------
(* Environment: clients (or the ReplicaSet controller) create and delete   *)
(* pods; a container's process ends.                                       *)

CreatePod ==
  /\ nextGen <= MaxGen
  /\ \E p \in PodNames \ DOMAIN pods :
       /\ ReuseNames \/ p \notin used
       /\ pods' = Put(pods, p, [gen |-> nextGen, node |-> NoNode, phase |-> "Pending", ip |-> FALSE])
       /\ used' = used \cup {p}
       /\ live' = live \cup {p}
       /\ latest' = Put(latest, p, nextGen)
  /\ nextGen' = nextGen + 1
  /\ UNCHANGED <<nodes, containers, sPc, sPods, sNodes, kPc, kPods, kCtr, exits, dockerFails>>

DeletePod ==
  /\ \E p \in DOMAIN pods : /\ pods' = Drop(pods, p)
                            /\ live' = live \ {p}
  /\ UNCHANGED <<nodes, containers, sPc, sPods, sNodes, kPc, kPods, kCtr, nextGen, exits, used, latest, dockerFails>>

ContainerExits ==
  /\ exits < MaxExits
  /\ \E n \in Nodes, p \in PodNames :
       /\ p \in DOMAIN containers[n]
       /\ containers[n][p].state = "running"
       /\ containers' = [containers EXCEPT ![n][p].state = "exited"]
  /\ exits' = exits + 1
  /\ UNCHANGED <<pods, nodes, sPc, sPods, sNodes, kPc, kPods, kCtr, nextGen, used, live, latest, dockerFails>>

(* The steps of the scheduler, the kubelets and the clients; Next adds     *)
(* docker containers exiting on their own.                                 *)
ClusterStep ==
  \/ SchedListPods \/ SchedListNodes \/ SchedBind
  \/ \E n \in Nodes :
       \/ Register(n) \/ KubeletListPods(n) \/ KubeletListContainers(n)
       \/ KubeletReconcilePod(n) \/ KubeletStopOrphan(n) \/ KubeletSyncDone(n)
  \/ CreatePod \/ DeletePod

Next == ClusterStep \/ ContainerExits

(* The scheduler and every kubelet loop on a ticker and their calls        *)
(* return; clients and container exits are not fair.                      *)
Fairness ==
  /\ WF_vars(SchedListPods) /\ WF_vars(SchedListNodes) /\ WF_vars(SchedBind)
  /\ \A n \in Nodes :
       /\ WF_vars(Register(n)) /\ WF_vars(KubeletListPods(n))
       /\ WF_vars(KubeletListContainers(n)) /\ WF_vars(KubeletReconcilePod(n))
       /\ WF_vars(KubeletStopOrphan(n)) /\ WF_vars(KubeletSyncDone(n))

Spec == Init /\ [][Next]_vars /\ Fairness

-----------------------------------------------------------------------------
TypeOK ==
  /\ DOMAIN pods \subseteq PodNames /\ \A p \in DOMAIN pods : pods[p] \in Pod
  /\ nodes \subseteq Nodes
  /\ \A n \in Nodes : DOMAIN containers[n] \subseteq PodNames
                      /\ \A p \in DOMAIN containers[n] : containers[n][p] \in Container
  /\ sPc \in {"Idle", "ListedPods", "Binding"}
  /\ kPc \in [Nodes -> {"Down", "Idle", "ListedPods", "Reconciling"}]
  /\ nextGen \in 1..MaxGen + 1
  /\ exits \in 0..MaxExits
  /\ dockerFails \in 0..MaxDockerFailures

(* The registry holds exactly the pods clients created and have not        *)
(* deleted, each with the spec of the client's latest create: no write the *)
(* scheduler or a kubelet makes from an earlier list brings back a deleted *)
(* pod or an earlier pod of the same name (spec 4.2, 4.3 bind, 4.7).       *)
ClientStateRespected ==
  /\ DOMAIN pods = live
  /\ \A p \in DOMAIN pods : pods[p].gen = latest[p]

(* Pod lifecycle (scenarios S1, S2): once clients stop, eventually and for *)
(* good every pod is bound, Running with a pod IP, and has a running       *)
(* container of its own spec on its node, and no node runs a container    *)
(* for a pod not bound to it.                                              *)
PodsConverge ==
  <>[](/\ \A p \in DOMAIN pods :
          LET n == pods[p].node IN
          /\ n # NoNode
          /\ pods[p].phase = "Running" /\ pods[p].ip
          /\ p \in DOMAIN containers[n]
          /\ containers[n][p] = [gen |-> pods[p].gen, state |-> "running"]
      /\ \A n \in Nodes : DOMAIN containers[n] = {p \in DOMAIN pods : pods[p].node = n})
=============================================================================
