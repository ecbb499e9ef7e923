\* One node, one pod (app=web) created once; a Service whose selector
\* (none or app=web) and nodePort clients set and change, or delete;
\* a container may exit once.
CONSTANTS
  n1 = n1  n2 = n2  a = a  b = b  s1 = s1  s2 = s2
  NoNode = NoNode
  NoEndpoints = NoEndpoints
  Nodes = {n1}
  PodNames = {a}
  MaxGen = 1
  MaxExits = 1
  ReuseNames = FALSE
  Probed = {}
  AddrAnswers = {}
  MaxDockerFailures = 0
  SvcNames = {s1}
  PodLabels <- MCPodLabels
  Selectors <- MCSelectors
  SvcPorts <- MCOwnPorts
  MaxSvcEdits = 2
SPECIFICATION ServicesSpec
INVARIANT ServicesTypeOK
PROPERTY EndpointsConverge
PROPERTY ProxyConverges
