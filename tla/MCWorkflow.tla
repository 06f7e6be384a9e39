----------------------------- MODULE MCWorkflow -----------------------------
(***************************************************************************)
(* Instances of Workflow for TLC.                                          *)
(***************************************************************************)
EXTENDS Workflow

BareRoute == [design |-> FALSE, architecture |-> FALSE, implementation |-> TRUE,
              review |-> FALSE, qa |-> FALSE, audience |-> FALSE,
              frontend |-> FALSE, low |-> FALSE, fast |-> FALSE]

(* A task that asks for no evidence; a frontend task that the target        *)
(* audience looks at, with a QA phase of its own or when a revision brings  *)
(* it there.                                                                *)
BareRoutes == {BareRoute}
AudienceRoute == [BareRoute EXCEPT !.frontend = TRUE, !.qa = TRUE, !.audience = TRUE]
AudienceRoutes == {AudienceRoute}
QuickRoutes == {[AudienceRoute EXCEPT !.qa = FALSE]}

NoStatus == {}
LateStatus == {"awaiting_delivery", "refining", "blocked"}

VisualChange == {"implementation-output", "visual-output"}

NoRequest == {}
NoHint == {{}}
AudienceSignal == {{"audience-comprehension"}}
VisualFiles == {VisualChange}
=============================================================================
