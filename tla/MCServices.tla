----------------------------- MODULE MCServices -----------------------------
(***************************************************************************)
(* The services around the workflow, each on a small instance of its own.  *)
(* A behaviour is of one service, the focus; PhaseBoundary and             *)
(* ProductReviews have their own variables, and the two instances of       *)
(* GatePresentation share the slots v1, v2, ...                            *)
(***************************************************************************)
EXTENDS PhaseBoundary, ProductReviews, TLC

VARIABLES focus, v1, v2, v3, v4, v5, v6, v7, v8, v9, v10, v11, v12, v13, v14, v15

slots == <<v1, v2, v3, v4, v5, v6, v7, v8, v9, v10, v11, v12, v13, v14, v15>>
Unused == 0
NoSlot ==
    /\ v1 = Unused /\ v2 = Unused /\ v3 = Unused /\ v4 = Unused /\ v5 = Unused
    /\ v6 = Unused /\ v7 = Unused /\ v8 = Unused /\ v9 = Unused /\ v10 = Unused
    /\ v11 = Unused /\ v12 = Unused /\ v13 = Unused /\ v14 = Unused /\ v15 = Unused

AnySession == Permutations(Sessions)

(* What the users of the phase boundary do: a task that is returned, one    *)
(* that never is but may stay in its chat, one that is blocked, and two     *)
(* that sessions race for.                                                  *)
WithReturns == {"enter", "return", "fresh-chat", "reset", "next"}
SerialCommands == {WithReturns, {"enter", "continue-current", "fresh-chat", "reset", "next"},
                   {"enter", "return", "fresh-chat", "block"}}
SideBySide == {{"enter", "return", "fresh-chat"}, {"enter", "continue-current", "block"}}

-----------------------------------------------------------------------------
(* The levels of autonomy that differ.                                     *)
TwoLevels == {"guided", "autonomous"}

(* The presentation of the gates: two chats at the result; one chat that   *)
(* visualizes the specification.                                           *)
CONSTANTS Writers, Rendering

Item(k) == [kind |-> k, expected |-> TRUE]

Shown == INSTANCE GatePresentation WITH
    phase <- v1, amended <- v2, waived <- v3, events <- v4, evidence <- v5, bytes <- v6,
    bundle <- v7, acks <- v8, pending <- v9, plan <- v10, run <- v11, skill <- v12,
    host <- v13, seen <- v14, decided <- v15,
    Registrable <- {Item("after")},
    Start <- [phase |-> "final-approval", evidence |-> <<Item("after")>>],
    Visualize <- FALSE, MaxEvents <- 1, MaxEdits <- 1

Rendered == INSTANCE GatePresentation WITH
    phase <- v1, amended <- v2, waived <- v3, events <- v4, evidence <- v5, bytes <- v6,
    bundle <- v7, acks <- v8, pending <- v9, plan <- v10, run <- v11, skill <- v12,
    host <- v13, seen <- v14, decided <- v15, Sessions <- Rendering,
    Registrable <- {},
    Start <- [phase |-> "spec-approval", evidence |-> <<Item("proposal")>>],
    Visualize <- TRUE, MaxEvents <- 1, MaxEdits <- 1

ASSUME Shown!GatePresentationAssumption /\ Rendered!GatePresentationAssumption

-----------------------------------------------------------------------------
ServicesInit ==
    /\ focus \in {"boundary", "product", "shown", "rendered"}
    /\ Init /\ ReviewsInit
    /\ focus # "boundary" => serial /\ offered = WithReturns
    /\ focus # "product" => inTurn /\ policy = [level |-> "guided", audience |-> FALSE]
    /\ \/ focus \in {"boundary", "product"} /\ NoSlot
       \/ focus = "shown" /\ Shown!Init
       \/ focus = "rendered" /\ Rendered!Init

ServicesNext ==
    /\ focus' = focus
    /\ \/ focus = "boundary" /\ Next /\ UNCHANGED <<reviewVars, slots>>
       \/ focus = "product" /\ ReviewsNext /\ UNCHANGED <<vars, slots>>
       \/ focus = "shown" /\ Shown!Next /\ UNCHANGED <<vars, reviewVars>>
       \/ focus = "rendered" /\ Rendered!Next /\ UNCHANGED <<vars, reviewVars>>

ServicesSpec == ServicesInit /\ [][ServicesNext]_<<focus, vars, reviewVars, slots>>

-----------------------------------------------------------------------------
(* Those of PhaseBoundary and ProductReviews are their own.  Here each      *)
(* states that of an instance, for the behaviours that are of it.           *)

\* The type invariants of the services other than PhaseBoundary.
ServiceTypes ==
    /\ ReviewTypes
    /\ focus = "shown" => Shown!TypeOK
    /\ focus = "rendered" => Rendered!TypeOK

\* What a user decides at a gate was shown to the same chat, with the content it has
\* at the decision (assertApprovalPresented and recordPresentationAction).
ApprovedIsSeen == /\ focus = "shown" => Shown!ApprovedIsSeen
                  /\ focus = "rendered" => Rendered!ApprovedIsSeen

\* A visualization recorded as rendered shows each required image with the content of
\* its file at that moment (recordVisualizationRun).
RenderedIsCurrent == [][focus = "rendered" => Rendered!RendersCurrent]_<<focus, slots>>
=============================================================================
