\* Two nodes, two pod names that clients create and delete, never reusing a
\* name; every pod has a liveness probe, one container may exit, one docker
\* command may fail, and no other process answers at an exited container's
\* address.
CONSTANTS
  n1 = n1  n2 = n2  a = a  b = b
  NoNode = NoNode
  Nodes = {n1, n2}
  PodNames = {a, b}
  MaxGen = 2
  MaxExits = 1
  ReuseNames = FALSE
  Probed = {1, 2}
  AddrAnswers = {}
  MaxDockerFailures = 1
SPECIFICATION Spec
PROPERTY PodsConverge
