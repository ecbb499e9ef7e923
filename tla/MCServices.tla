------------------------------ MODULE MCServices ------------------------------
EXTENDS Services

CONSTANTS n1, n2, a, b, s1, s2

(* Pod a carries app=web, pod b app=db; a Service selects app=web, or has  *)
(* no selector.                                                            *)
MCPodLabels == [p \in {a, b} |-> IF p = a THEN {"app=web"} ELSE {"app=db"}]
MCSelectors == {{}, {"app=web"}}

(* Each Service has a nodePort of its own, or none.                        *)
MCOwnPorts == [s \in {s1, s2} |-> IF s = s1 THEN {0, 30080} ELSE {0, 30081}]

(* Both Services may be given node port 30080, one after the other.        *)
MCSharedPort == [s \in {s1, s2} |-> {30080}]
=============================================================================
