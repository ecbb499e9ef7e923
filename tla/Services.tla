------------------------------- MODULE Services -------------------------------
(***************************************************************************)
(* Services on top of the pod lifecycle: the Service/Endpoints reconciler  *)
(* (src/internal/controller/service/service_controller.go) derives each    *)
(* Service's Endpoints from the pods the kubelets report Running with an   *)
(* IP, and the proxy (src/internal/proxy/proxier.go) opens a listener per  *)
(* nodePort and keeps a cache of each Service's Endpoints.                 *)
(*                                                                         *)
(* A Service is [sel, port]: its selector, a set of label pairs, and its   *)
(* nodePort (0 for none); ports and target ports of the Endpoints are a    *)
(* function of the Service spec alone and are left out.  An Endpoints      *)
(* object is its subsets as the registry returns them after a JSON         *)
(* round-trip: [isNil, list], list a sequence of address sets; an address  *)
(* is <<pod, node>> (the pod's IP and spec.nodeName).  Addresses are       *)
(* sorted by IP before the comparison, so a set loses nothing.             *)
(***************************************************************************)
EXTENDS PodLifecycle, Sequences

CONSTANTS
  SvcNames,     \* Service names (an Endpoints object has its Service's name)
  PodLabels,    \* pod name -> its labels, a set of label pairs
  Selectors,    \* selectors clients give Services
  SvcPorts,     \* Service name -> the nodePorts clients give it (0: none)
  MaxSvcEdits,  \* client writes of Services in a behaviour
  NoEndpoints   \* GetEndpoints answered NotFound (nil, nil)

Service == [sel : Selectors, port : UNION {SvcPorts[s] : s \in SvcNames}]
Addr == PodNames \X Nodes
Subsets == [isNil : BOOLEAN, list : Seq(SUBSET Addr)]

VARIABLES
  services,    \* /registry/services: name -> Service
  endpoints,   \* /registry/endpoints: name -> Subsets
  cPc,         \* service controller: "Idle", "Syncing", "Listed", "Got"
  cSvcs,       \* listed Services not yet reconciled
  cCur,        \* the Service being reconciled
  cDesired,    \* its desired subsets, from the pod list
  cExisting,   \* the Endpoints GetEndpoints returned, or NoEndpoints
  listeners,   \* proxy: nodePort -> Service name its accept loop serves
  cache,       \* proxy: Service name -> Endpoints
  pPc,         \* proxy: "Idle" or "Refreshing"
  pSvcs,       \* proxy: listed Services not yet visited
  pDesired,    \* proxy: desiredPorts built so far
  svcEdits     \* client writes of Services so far

svcVars == <<services, endpoints, cPc, cSvcs, cCur, cDesired, cExisting,
             listeners, cache, pPc, pSvcs, pDesired, svcEdits>>
podVars == vars
allVars == <<podVars, svcVars>>

-----------------------------------------------------------------------------
(* isMatch: every pair of the selector is among the pod's labels.          *)
IsMatch(labels, sel) == sel \subseteq labels

(* reconcileService, steps 1 and 2: the matching pods that are Running     *)
(* with an IP, as addresses; one subset if there is any, else an empty     *)
(* (non-nil) list.                                                         *)
Ready(sel, podList) ==
  {<<p, podList[p].node>> : p \in {q \in DOMAIN podList :
      IsMatch(PodLabels[q], sel) /\ podList[q].phase = "Running" /\ podList[q].ip}}

DesiredSubsets(sel, podList) ==
  LET addrs == Ready(sel, podList)
  IN [isNil |-> FALSE, list |-> IF addrs = {} THEN <<>> ELSE <<addrs>>]

(* json.Marshal omits `subsets` when the slice is empty (omitempty), so    *)
(* what GetEndpoints decodes from the registry is then a nil slice.        *)
RoundTrip(ep) == IF ep.list = <<>> THEN [isNil |-> TRUE, list |-> <<>>] ELSE ep

(* Mutant: the comparison looks only at whether the slices are nil.        *)
DeepEqualNilOnly(a, b) == a.isNil = b.isNil

(* reflect.DeepEqual on the Subsets slices: nil differs from empty.        *)
DeepEqual(a, b) == a.isNil = b.isNil /\ a.list = b.list

(* Values of the per-pass locals outside a pass.                          *)
NoSvc == CHOOSE s \in SvcNames : TRUE
NoSubsets == [isNil |-> TRUE, list |-> <<>>]

ServicesInit ==
  /\ Init
  /\ services = <<>>
  /\ endpoints = <<>>
  /\ cPc = "Idle"
  /\ cSvcs = <<>>
  /\ cCur = NoSvc
  /\ cDesired = NoSubsets
  /\ cExisting = NoEndpoints
  /\ listeners = <<>>
  /\ cache = <<>>
  /\ pPc = "Idle"
  /\ pSvcs = <<>>
  /\ pDesired = <<>>
  /\ svcEdits = 0
-----------------------------------------------------------------------------
(* Service controller, syncServices on each tick.                          *)

ctlVars == <<cPc, cSvcs, cCur, cDesired, cExisting>>
proxyVars == <<listeners, cache, pPc, pSvcs, pDesired>>

(* ListServices.                                                           *)
SvcListServices ==
  /\ cPc = "Idle"
  /\ cSvcs' = services
  /\ cPc' = "Syncing"
  /\ UNCHANGED <<services, endpoints, cCur, cDesired, cExisting, proxyVars, svcEdits>>

(* reconcileService of a listed Service with an empty selector returns.    *)
SvcSkipNoSelector ==
  /\ cPc = "Syncing"
  /\ \E s \in DOMAIN cSvcs :
       /\ cSvcs[s].sel = {}
       /\ cSvcs' = Drop(cSvcs, s)
  /\ UNCHANGED <<services, endpoints, cPc, cCur, cDesired, cExisting, proxyVars, svcEdits>>

(* reconcileService, steps 1-2: ListPods, then the desired subsets.        *)
SvcListPods ==
  /\ cPc = "Syncing"
  /\ \E s \in DOMAIN cSvcs :
       /\ cSvcs[s].sel # {}
       /\ cCur' = s
       /\ cDesired' = DesiredSubsets(cSvcs[s].sel, pods)
  /\ cPc' = "Listed"
  /\ UNCHANGED <<services, endpoints, cSvcs, cExisting, proxyVars, svcEdits>>

(* Step 3: GetEndpoints; NotFound is (nil, nil).                           *)
SvcGetEndpoints ==
  /\ cPc = "Listed"
  /\ cExisting' = IF cCur \in DOMAIN endpoints THEN endpoints[cCur] ELSE NoEndpoints
  /\ cPc' = "Got"
  /\ UNCHANGED <<services, endpoints, cSvcs, cCur, cDesired, proxyVars, svcEdits>>

(* reconcileService returns, its locals go out of scope, and the loop      *)
(* moves to the next Service.                                              *)
SvcReconciled ==
  /\ cSvcs' = Drop(cSvcs, cCur)
  /\ cPc' = "Syncing"
  /\ cCur' = NoSvc
  /\ cDesired' = NoSubsets
  /\ cExisting' = NoEndpoints
  /\ UNCHANGED <<services, proxyVars, svcEdits>>

(* Not found: CreateEndpoints with the desired object (Conflict if the     *)
(* name exists by now).                                                    *)
SvcCreateEndpoints ==
  /\ cPc = "Got"
  /\ cExisting = NoEndpoints
  /\ endpoints' = IF cCur \in DOMAIN endpoints THEN endpoints
                  ELSE Put(endpoints, cCur, RoundTrip(cDesired))
  /\ SvcReconciled

(* Found and !reflect.DeepEqual(existing.Subsets, desired.Subsets): set    *)
(* the subsets on the fetched object and UpdateEndpoints.                  *)
SvcUpdateEndpoints ==
  /\ cPc = "Got"
  /\ cExisting # NoEndpoints
  /\ ~DeepEqual(cExisting, cDesired)
  /\ endpoints' = UpdateIfExists(endpoints, cCur, RoundTrip(cDesired))
  /\ SvcReconciled

(* Found and equal: nothing to write.                                      *)
SvcEndpointsEqual ==
  /\ cPc = "Got"
  /\ cExisting # NoEndpoints
  /\ DeepEqual(cExisting, cDesired)
  /\ UNCHANGED endpoints
  /\ SvcReconciled

SvcSyncDone ==
  /\ cPc = "Syncing"
  /\ DOMAIN cSvcs = {}
  /\ cPc' = "Idle"
  /\ UNCHANGED <<services, endpoints, cSvcs, cCur, cDesired, cExisting, proxyVars, svcEdits>>

-----------------------------------------------------------------------------
(* Proxy, sync on each tick.                                               *)

(* Step 1: ListServices; desiredPorts starts empty.                        *)
ProxyListServices ==
  /\ pPc = "Idle"
  /\ pSvcs' = services
  /\ pPc' = "Refreshing"
  /\ UNCHANGED <<services, endpoints, ctlVars, listeners, cache, pDesired, svcEdits>>

(* One listed Service: a nodePort is recorded as desired (a later Service  *)
(* with the same port overwrites it), and its Endpoints, if GetEndpoints   *)
(* finds them, replace the cached copy under the lock.                     *)
ProxyRefresh ==
  /\ pPc = "Refreshing"
  /\ \E s \in DOMAIN pSvcs :
       /\ IF pSvcs[s].port # 0
          THEN /\ pDesired' = Put(pDesired, pSvcs[s].port, s)
               /\ cache' = IF s \in DOMAIN endpoints THEN Put(cache, s, endpoints[s]) ELSE cache
          ELSE UNCHANGED <<pDesired, cache>>
       /\ pSvcs' = Drop(pSvcs, s)
  /\ UNCHANGED <<services, endpoints, ctlVars, listeners, pPc, svcEdits>>

(* Mutant: listeners of ports no longer desired are left open.            *)
ProxyApplyNoClose ==
  /\ pPc = "Refreshing"
  /\ DOMAIN pSvcs = {}
  /\ listeners' = [port \in DOMAIN pDesired \cup DOMAIN listeners |->
                     IF port \in DOMAIN listeners THEN listeners[port] ELSE pDesired[port]]
  /\ pPc' = "Idle"
  /\ pDesired' = <<>>
  /\ UNCHANGED <<services, endpoints, ctlVars, cache, pSvcs, svcEdits>>

(* Steps 2-3 under the lock: open a listener, serving the Service named in *)
(* desiredPorts, for each desired port without one; close every listener   *)
(* whose port is not desired.  An existing listener keeps the Service name *)
(* its accept loop was started with.                                       *)
ProxyApply ==
  /\ pPc = "Refreshing"
  /\ DOMAIN pSvcs = {}
  /\ listeners' = [port \in DOMAIN pDesired |->
                     IF port \in DOMAIN listeners THEN listeners[port] ELSE pDesired[port]]
  /\ pPc' = "Idle"
  /\ pDesired' = <<>>
  /\ UNCHANGED <<services, endpoints, ctlVars, cache, pSvcs, svcEdits>>

-----------------------------------------------------------------------------
(* Clients write Services through the API server.                          *)

SvcClientWrite == svcEdits < MaxSvcEdits /\ svcEdits' = svcEdits + 1

CreateService ==
  /\ SvcClientWrite
  /\ \E s \in SvcNames \ DOMAIN services, sel \in Selectors :
       \E port \in SvcPorts[s] : services' = Put(services, s, [sel |-> sel, port |-> port])
  /\ UNCHANGED <<endpoints, ctlVars, proxyVars>>

UpdateService ==
  /\ SvcClientWrite
  /\ \E s \in DOMAIN services, sel \in Selectors :
       \E port \in SvcPorts[s] :
         /\ services[s] # [sel |-> sel, port |-> port]
         /\ services' = Put(services, s, [sel |-> sel, port |-> port])
  /\ UNCHANGED <<endpoints, ctlVars, proxyVars>>

DeleteService ==
  /\ SvcClientWrite
  /\ \E s \in DOMAIN services : services' = Drop(services, s)
  /\ UNCHANGED <<endpoints, ctlVars, proxyVars>>

-----------------------------------------------------------------------------
ServicesNext ==
  \/ SchedListPods /\ UNCHANGED svcVars
  \/ SchedListNodes /\ UNCHANGED svcVars
  \/ SchedBind /\ UNCHANGED svcVars
  \/ \E n \in Nodes :
       \/ Register(n) /\ UNCHANGED svcVars
       \/ KubeletListPods(n) /\ UNCHANGED svcVars
       \/ KubeletListContainers(n) /\ UNCHANGED svcVars
       \/ KubeletReconcilePod(n) /\ UNCHANGED svcVars
       \/ KubeletStopOrphan(n) /\ UNCHANGED svcVars
       \/ KubeletSyncDone(n) /\ UNCHANGED svcVars
  \/ CreatePod /\ UNCHANGED svcVars
  \/ DeletePod /\ UNCHANGED svcVars
  \/ ContainerExits /\ UNCHANGED svcVars
  \/ SvcListServices /\ UNCHANGED podVars
  \/ SvcSkipNoSelector /\ UNCHANGED podVars
  \/ SvcListPods /\ UNCHANGED podVars
  \/ SvcGetEndpoints /\ UNCHANGED podVars
  \/ SvcCreateEndpoints /\ UNCHANGED podVars
  \/ SvcUpdateEndpoints /\ UNCHANGED podVars
  \/ SvcEndpointsEqual /\ UNCHANGED podVars
  \/ SvcSyncDone /\ UNCHANGED podVars
  \/ ProxyListServices /\ UNCHANGED podVars
  \/ ProxyRefresh /\ UNCHANGED podVars
  \/ ProxyApply /\ UNCHANGED podVars
  \/ CreateService /\ UNCHANGED podVars
  \/ UpdateService /\ UNCHANGED podVars
  \/ DeleteService /\ UNCHANGED podVars

(* As in PodLifecycle, every loop that runs on a ticker and whose calls    *)
(* return is weakly fair: the scheduler, the kubelets, the service         *)
(* controller and the proxy.  Clients and container exits are not.         *)
ServicesFairness ==
  /\ WF_allVars(SchedListPods /\ UNCHANGED svcVars)
  /\ WF_allVars(SchedListNodes /\ UNCHANGED svcVars)
  /\ WF_allVars(SchedBind /\ UNCHANGED svcVars)
  /\ \A n \in Nodes :
       /\ WF_allVars(Register(n) /\ UNCHANGED svcVars)
       /\ WF_allVars(KubeletListPods(n) /\ UNCHANGED svcVars)
       /\ WF_allVars(KubeletListContainers(n) /\ UNCHANGED svcVars)
       /\ WF_allVars(KubeletReconcilePod(n) /\ UNCHANGED svcVars)
       /\ WF_allVars(KubeletStopOrphan(n) /\ UNCHANGED svcVars)
       /\ WF_allVars(KubeletSyncDone(n) /\ UNCHANGED svcVars)
  /\ WF_allVars((\/ SvcListServices \/ SvcSkipNoSelector \/ SvcListPods \/ SvcGetEndpoints
                 \/ SvcCreateEndpoints \/ SvcUpdateEndpoints \/ SvcEndpointsEqual
                 \/ SvcSyncDone) /\ UNCHANGED podVars)
  /\ WF_allVars((ProxyListServices \/ ProxyRefresh \/ ProxyApply) /\ UNCHANGED podVars)

ServicesSpec == ServicesInit /\ [][ServicesNext]_allVars /\ ServicesFairness

-----------------------------------------------------------------------------
ServicesTypeOK ==
  /\ TypeOK
  /\ DOMAIN services \subseteq SvcNames /\ \A s \in DOMAIN services : services[s] \in Service
  /\ DOMAIN endpoints \subseteq SvcNames /\ \A s \in DOMAIN endpoints : endpoints[s] \in Subsets
  /\ cPc \in {"Idle", "Syncing", "Listed", "Got"}
  /\ cExisting \in Subsets \cup {NoEndpoints}
  /\ pPc \in {"Idle", "Refreshing"}
  /\ \A port \in DOMAIN listeners : listeners[port] \in SvcNames
  /\ svcEdits \in 0..MaxSvcEdits

(* The Endpoints a Service with a selector should have: its Running pods   *)
(* with an IP, as the registry stores them.                                *)
EndpointsFor(s) == RoundTrip(DesiredSubsets(services[s].sel, pods))

(* Endpoints convergence (spec 4.6): once clients stop, eventually and for *)
(* good every Service with a non-empty selector has an Endpoints object    *)
(* whose addresses are exactly its selected pods that are Running with an  *)
(* IP, on their nodes, although every pass decides from a pod list that   *)
(* the scheduler and kubelets may have changed before its write.           *)
EndpointsConverge ==
  <>[](\A s \in DOMAIN services :
         services[s].sel # {} => s \in DOMAIN endpoints /\ endpoints[s] = EndpointsFor(s))

(* Proxy convergence (spec 4.9): once clients stop, eventually and for     *)
(* good the proxy listens on exactly the nodePorts of the Services, each   *)
(* listener serves the Service that owns its port, and the cached          *)
(* Endpoints of that Service are the registry's.                           *)
ProxyConverges ==
  <>[](/\ DOMAIN listeners = {services[s].port : s \in {t \in DOMAIN services : services[t].port # 0}}
       /\ \A port \in DOMAIN listeners :
            LET s == listeners[port] IN
            /\ s \in DOMAIN services /\ services[s].port = port
            /\ s \in DOMAIN endpoints => s \in DOMAIN cache /\ cache[s] = endpoints[s])
=============================================================================
