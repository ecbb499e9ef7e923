---------------------------- MODULE MCPodLifecycle ----------------------------
EXTENDS PodLifecycle

CONSTANTS n1, n2, a, b
=============================================================================
