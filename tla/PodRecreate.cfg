\* One pod name that a client deletes and creates again.
CONSTANTS
  n1 = n1  n2 = n2  a = a  b = b
  NoNode = NoNode
  Nodes = {n1}
  PodNames = {a}
  MaxGen = 2
  MaxExits = 0
  ReuseNames = TRUE
  Probed = {}
  AddrAnswers = {}
  MaxDockerFailures = 0
SPECIFICATION Spec
INVARIANT ClientStateRespected
