---------------------------- MODULE MCControlLoop ----------------------------
(***************************************************************************)
(* Model-checking instance of ControlLoop: one or two Deployments selecting *)
(* app=web, pod templates that differ only in their image (same labels),   *)
(* as in a rolling update.                                                 *)
(***************************************************************************)
EXTENDS ControlLoop

CONSTANTS d1, d2, t1, t2

Web == {<<"app", "web">>}

MCTemplateLabels == [t \in {t1, t2} |-> Web]
MCSelector == [d \in {d1, d2} |-> Web]
MCPodIds == 1..4

=============================================================================
