\* No pods; clients create, delete and create Services, and a nodePort freed
\* by one Service is given to the other.
CONSTANTS
  n1 = n1  n2 = n2  a = a  b = b  s1 = s1  s2 = s2
  NoNode = NoNode
  NoEndpoints = NoEndpoints
  Nodes = {n1}
  PodNames = {a}
  MaxGen = 0
  MaxExits = 0
  ReuseNames = FALSE
  Probed = {}
  AddrAnswers = {}
  MaxDockerFailures = 0
  SvcNames = {s1, s2}
  PodLabels <- MCPodLabels
  Selectors <- MCSelectors
  SvcPorts <- MCSharedPort
  MaxSvcEdits = 3
SPECIFICATION ServicesSpec
PROPERTY ProxyConverges
