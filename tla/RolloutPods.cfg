\* A rolling update: the old ReplicaSet, scaled to 0, keeps the selector of the new one.
CONSTANTS
  d1 = d1  d2 = d2  t1 = t1  t2 = t2
  Deployments = {d1}
  Templates = {t1, t2}
  TemplateLabels <- MCTemplateLabels
  Selector <- MCSelector
  PodIds <- MCPodIds
  MaxReplicas = 2
  MaxFailures = 0
  ClientOps = {"create", "update"}
  ClientReplicas = {1, 2}
  MaxEdits = 2
SPECIFICATION Spec
PROPERTY ReplicaSetConvergence
