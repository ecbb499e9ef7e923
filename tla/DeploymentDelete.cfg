\* One Deployment of one replica that a client creates and then deletes.
CONSTANTS
  d1 = d1  d2 = d2  t1 = t1  t2 = t2
  Deployments = {d1}
  Templates = {t1}
  TemplateLabels <- MCTemplateLabels
  Selector <- MCSelector
  PodIds <- MCPodIds
  MaxReplicas = 1
  MaxFailures = 0
  ClientOps = {"create", "delete"}
  ClientReplicas = {1}
  MaxEdits = 2
SPECIFICATION Spec
PROPERTY ReplicaSetsFollowDeployments
