\* One Deployment that clients create, scale and delete; no template change.
CONSTANTS
  d1 = d1  d2 = d2  t1 = t1  t2 = t2
  Deployments = {d1}
  Templates = {t1}
  TemplateLabels <- MCTemplateLabels
  Selector <- MCSelector
  PodIds <- MCPodIds
  MaxReplicas = 2
  MaxFailures = 1
  ClientOps = {"create", "update", "delete"}
  ClientReplicas = {1, 2}
  MaxEdits = 2
SPECIFICATION Spec
INVARIANT TypeOK
PROPERTY DeploymentRolledOut ReplicaSetConvergence
