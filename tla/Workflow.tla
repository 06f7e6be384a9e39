------------------------------ MODULE Workflow ------------------------------
(***************************************************************************)
(* The life of one task: workflow.ts with the parts it calls (questions,   *)
(* amendments, revisions, evidence, waivers, repairs).  Every command is   *)
(* an action; a command that writes more than one file may also be         *)
(* interrupted between two writes.  Reservations, leases and authority are *)
(* those of ConcurrencyScheduler and TaskLease.  Checks that only refuse a *)
(* command because of a document's contents (lint, acceptance coverage,    *)
(* scope, presentation, learning, product reviews) are left out: here the  *)
(* command may be called whenever they would let it pass.                  *)
(***************************************************************************)
EXTENDS Artifacts, FiniteSets

CONSTANTS
    Routes,            \* the routes a specification may get
    Declarable,        \* the signals that the request of a revision may carry
    FileSignals,       \* the signals that a set of changed files may carry
    Waivable,          \* the gates the user may waive
    HasWorktree,       \* the task is implemented in a worktree
    RepairLimit,       \* the repair attempts at which the workflow stops
    Producible,        \* bound: the kinds of evidence collected
    Stoppable,         \* bound: the statuses in which the agent stops or asks
    MaxSpec,           \* bound: contents of the specification
    MaxGen,            \* bound: implementation generations
    MaxQuestions,      \* bound: open questions
    MaxAmendments,     \* bound: amendments of the task
    MaxInterruptions   \* bound: interrupted commands

Gate == {"design", "technical-architecture", "technical-review", "qa",
         "target-audience", "final-evidence", "delivery"}
Kind == {"architecture", "review", "visual", "targeted", "customer", "report"}

SpecPhase == {"product-specifier", "ux-ui-designer", "technical-architecture"}
ExecutionPhase == {"builder", "technical-reviewer", "qa-engineer", "final-customer"}
Phase == SpecPhase \cup ExecutionPhase
         \cup {"spec-approval", "final-approval", "delivery", "done"}
GateStatus == {"awaiting_spec_approval", "awaiting_final_approval", "awaiting_delivery"}
Status == {"draft", "refining", "ready", "active", "review", "qa", "customer_validation",
           "blocked", "done", "rejected"} \cup GateStatus
Closed == {"done", "rejected"}
ReturnTarget == SpecPhase \cup (ExecutionPhase \ {"final-customer"})

RouteType == [design : BOOLEAN, architecture : BOOLEAN, implementation : BOOLEAN,
              review : BOOLEAN, qa : BOOLEAN, audience : BOOLEAN,
              frontend : BOOLEAN, low : BOOLEAN, fast : BOOLEAN]

ASSUME WorkflowAssumption ==
    /\ Routes \subseteq RouteType
    /\ Routes # {}
    /\ \A r \in Routes : r.fast => r.low
    /\ Declarable \subseteq SUBSET Signal
    /\ FileSignals \subseteq SUBSET Signal
    /\ Waivable \subseteq Gate
    /\ HasWorktree \in BOOLEAN
    /\ RepairLimit \in Nat \ {0}
    /\ Producible \subseteq Kind
    /\ Stoppable \subseteq Status
    /\ {MaxSpec, MaxGen, MaxQuestions, MaxAmendments, MaxInterruptions} \subseteq Nat
    /\ MaxSpec > 0

VARIABLES
    status, phase, resume,             \* where the task is, and where a stop came from
    route, designed, architected, waived,
    approval, sealed, effective,       \* the specification's approval and its two hashes
    spec, pending, amended,            \* its content; amendments proposed and approved
    rev, gen, evidence,                \* latest revision, generation, generation of each proof
    final, openq, attempts,            \* final approval, open questions, repair attempts
    accepted,                          \* history: what the user accepted at the final gate
    interruptions                      \* how many commands were interrupted

position == <<status, phase, resume>>
plan == <<route, designed, architected, waived>>
seal == <<approval, sealed, effective>>
content == <<spec, pending, amended>>
work == <<rev, gen, evidence>>
outcome == <<final, accepted>>
counts == <<openq, attempts, interruptions>>
vars == <<position, plan, seal, content, work, outcome, counts>>

None == -1
NoResume == [status |-> "none", phase |-> "none"]
NoRevision == [status |-> "none", declared |-> {}, files |-> {}, delta |-> {},
               signals |-> {}, gen |-> 0]
NotAccepted == [gen |-> None, spec |-> None]

StatusForPhase(p) ==
    CASE p = "builder" -> "active"
      [] p = "technical-reviewer" -> "review"
      [] p = "qa-engineer" -> "qa"
      [] p = "final-customer" -> "customer_validation"
      [] p = "final-approval" -> "awaiting_final_approval"
      [] OTHER -> "refining"

----------------------------------------------------------------------------
(* Where the route leads.  A waived gate is passed over.                    *)

NeedsAudience(r) == r.audience /\ "target-audience" \notin waived
NeedsQA(r) == r.qa /\ "qa" \notin waived
NeedsReview(r) == r.review /\ "technical-review" \notin waived

PreApprovalPhase(r, hasDesign, hasArchitecture) ==
    CASE r.design /\ ~hasDesign /\ "design" \notin waived -> "ux-ui-designer"
      [] /\ ~(r.design /\ ~hasDesign /\ "design" \notin waived)
         /\ r.architecture /\ ~hasArchitecture
         /\ "technical-architecture" \notin waived -> "technical-architecture"
      [] OTHER -> "spec-approval"

AfterQA(r) == IF NeedsAudience(r) THEN "final-customer" ELSE "final-approval"
AfterReview(r) == IF NeedsQA(r) THEN "qa-engineer" ELSE AfterQA(r)
AfterBuilder(r) == IF NeedsReview(r) THEN "technical-reviewer" ELSE AfterReview(r)
AfterApproval(r) == IF r.implementation THEN "builder" ELSE AfterReview(r)

----------------------------------------------------------------------------
(* Revisions and evidence.                                                  *)

RevisionActive == rev.status \in {"active", "implemented", "validated"}
RevisionKinds == RevalidateKinds(rev.signals)
RevisionPhases == RequiredPhases(rev.signals)

(* The signals of a request and of files; a visual change, or one of        *)
(* correctness, if there is no hint at all.                                 *)
DeriveSignals(declared, files) ==
    IF declared \cup files # {} THEN declared \cup files
    ELSE {"implementation-output",
          IF route.frontend THEN "visual-output" ELSE "implementation-correctness"}
Material(signals) == signals \cap MaterialSignal # {}

(* Mutant: evidence of any generation will do.                              *)
EverProven(k) == evidence[k] # None

(* Evidence that the active revision asks for again counts only if it is of *)
(* the present generation.                                                  *)
Proven(k) ==
    /\ evidence[k] # None
    /\ RevisionActive /\ k \in RevisionKinds /\ gen > 0 => evidence[k] = gen

If(condition, kinds) == IF condition THEN kinds ELSE {}

ReviewStageKinds == If(NeedsReview(route), {"review"})
QAStageKinds ==
    IF "qa" \in waived THEN {}
    ELSE If(route.frontend /\ route.implementation, {"visual"})
         \cup If(/\ route.architecture /\ route.implementation
                 /\ "technical-architecture" \notin waived, {"architecture"})
         \cup ReviewStageKinds
         \cup If(route.qa, {"report"})
FinalStageKinds == QAStageKinds \cup If(NeedsAudience(route), {"customer"})

(* Mutant: a stage is content with one of its kinds.                        *)
SomeProven(kinds) == kinds = {} \/ \E k \in kinds : Proven(k)

AllProven(kinds) == \A k \in kinds : Proven(k)

----------------------------------------------------------------------------
(* Mutant: amendments that are not decided yet do not count.                *)
SealUnchanged ==
    /\ approval = "approved"
    /\ sealed = spec
    /\ effective \in {None, amended}

(* The approved specification: approved, no amendment undecided, and its    *)
(* hashes those of the present contents.                                    *)

SpecUnchanged ==
    /\ approval = "approved"
    /\ pending = 0
    /\ sealed = spec
    /\ effective \in {None, amended}

Unseal(verdict) ==
    /\ approval' = verdict
    /\ sealed' = None
    /\ effective' = None

(* Mutant: the effective hash is sealed without the amendments.             *)
SealBase ==
    /\ approval' = "approved"
    /\ sealed' = spec
    /\ effective' = 0

Seal ==
    /\ approval' = "approved"
    /\ sealed' = spec
    /\ effective' = amended

MoveTo(s, p) == status' = s /\ phase' = p /\ UNCHANGED resume
Enter(p) == MoveTo(StatusForPhase(p), p)
AwaitSpec == MoveTo("awaiting_spec_approval", "spec-approval")

Init ==
    /\ status = "draft"
    /\ phase = "product-specifier"
    /\ resume = NoResume
    /\ route \in Routes
    /\ designed = FALSE
    /\ architected = FALSE
    /\ waived = {}
    /\ approval = "pending"
    /\ sealed = None
    /\ effective = None
    /\ spec = 1
    /\ pending = 0
    /\ amended = 0
    /\ rev = NoRevision
    /\ gen = 0
    /\ evidence = [k \in Kind |-> None]
    /\ final = "pending"
    /\ accepted = NotAccepted
    /\ openq = 0
    /\ attempts = 0
    /\ interruptions = 0

----------------------------------------------------------------------------
(* The specification.                                                       *)

(* Someone edits the task's file: the specification has other contents.     *)
EditSpecification ==
    /\ spec' \in (1..MaxSpec) \ {spec}
    /\ UNCHANGED <<position, plan, seal, pending, amended, work, outcome, counts>>

StartRefinement ==
    /\ status \in {"draft", "refining", "blocked"}
    /\ MoveTo("refining", "product-specifier")
    /\ Unseal("pending")
    /\ UNCHANGED <<plan, content, work, outcome, counts>>

(* The specification is complete.  Its control profile decides the route;   *)
(* an approved specification's profile is never lowered.  The fast mode     *)
(* seals it at once, otherwise the next phase before the approval follows.  *)
CompleteSpecification ==
    /\ phase = "product-specifier"
    /\ openq = 0
    /\ route' \in {r \in Routes : approval = "approved" /\ r.low => route.low}
    /\ IF route'.fast
       THEN LET next == AfterApproval(route')
            IN  /\ Seal
                /\ MoveTo(IF next = "builder" THEN "ready" ELSE StatusForPhase(next), next)
       ELSE LET next == PreApprovalPhase(route', designed, architected)
            IN  /\ IF next = "spec-approval" THEN AwaitSpec ELSE MoveTo("refining", next)
                /\ UNCHANGED seal
    /\ UNCHANGED <<designed, architected, waived, content, work, outcome, counts>>

CompleteDesign ==
    /\ phase = "ux-ui-designer"
    /\ openq = 0
    /\ designed' = TRUE
    /\ LET next == PreApprovalPhase(route, TRUE, architected)
       IN  IF next = "spec-approval" THEN AwaitSpec ELSE MoveTo(status, next)
    /\ UNCHANGED <<route, architected, waived, seal, content, work, outcome, counts>>

CompleteArchitecture ==
    /\ phase = "technical-architecture"
    /\ openq = 0
    /\ architected' = TRUE
    /\ AwaitSpec
    /\ UNCHANGED <<route, designed, waived, seal, content, work, outcome, counts>>

ApproveSpecification ==
    /\ status = "awaiting_spec_approval"
    /\ phase = "spec-approval"
    /\ openq = 0
    /\ Seal
    /\ MoveTo("ready", AfterApproval(route))
    /\ UNCHANGED <<plan, content, work, outcome, counts>>

RequestSpecChanges ==
    /\ status = "awaiting_spec_approval"
    /\ Unseal("changes_requested")
    /\ MoveTo("refining", "product-specifier")
    /\ UNCHANGED <<plan, content, work, outcome, counts>>

RejectTask ==
    /\ status \in {"draft", "refining", "awaiting_spec_approval", "blocked"}
    /\ approval' = "rejected"
    /\ sealed' = None
    /\ final' = "not_applicable"
    /\ MoveTo("rejected", "done")
    /\ UNCHANGED <<plan, effective, content, work, accepted, counts>>

(* A command that needs the approved specification finds other contents: it *)
(* withdraws the approval, saves the task and fails.  The start of the      *)
(* execution looks at nothing else before.                                  *)
InvalidateChangedApproval ==
    /\ approval = "approved"
    /\ pending = 0
    /\ sealed # spec
    /\ Unseal("changes_requested")
    /\ AwaitSpec
    /\ UNCHANGED <<plan, content, work, outcome, counts>>

----------------------------------------------------------------------------
(* The execution.                                                           *)

StartExecution ==
    /\ SpecUnchanged
    /\ status = "ready"
    /\ MoveTo(StatusForPhase(phase), phase)
    /\ UNCHANGED <<plan, seal, content, work, outcome, counts>>

(* What completePhase asks in an execution phase, whatever the status.      *)
Completing(p) == phase = p /\ openq = 0 /\ SpecUnchanged

(* The build of a revision: its signals are derived again from the files    *)
(* that changed since its baseline, and they decide the phases to pass.     *)
(* Changes are not undone: the delta of a revision only grows.              *)
Implemented(changed) ==
    LET delta == rev.delta \cup changed
        files == IF delta = {} THEN rev.files ELSE delta
    IN  [rev EXCEPT !.status = "implemented", !.gen = gen + 1, !.delta = delta,
                    !.signals = DeriveSignals(rev.declared, files)]

CompleteBuild ==
    /\ Completing("builder")
    /\ gen < MaxGen
    /\ gen' = gen + 1
    /\ \/ /\ ~RevisionActive
          /\ Enter(AfterBuilder(route))
          /\ UNCHANGED rev
       \/ \E changed \in FileSignals :
            /\ RevisionActive
            /\ rev' = Implemented(changed)
            /\ ~Material(rev'.signals)
            /\ Enter(FirstValidationPhase(RequiredPhases(rev'.signals)))
    /\ UNCHANGED <<plan, seal, content, evidence, outcome, counts>>

CompleteReview ==
    /\ Completing("technical-reviewer")
    /\ AllProven(ReviewStageKinds)
    /\ Enter(IF RevisionActive
             THEN NextValidationPhase(RevisionPhases, "technical-reviewer")
             ELSE AfterReview(route))
    /\ UNCHANGED <<plan, seal, content, work, outcome, counts>>

(* The QA phase of a revision that nothing else is asked of validates it.   *)
CompleteQA ==
    /\ Completing("qa-engineer")
    /\ \/ /\ ~RevisionActive
          /\ AllProven(QAStageKinds)
          /\ Enter(AfterQA(route))
          /\ UNCHANGED rev
       \/ LET next == NextValidationPhase(RevisionPhases, "qa-engineer")
          IN  /\ RevisionActive
              /\ AllProven(RevisionKinds)
              /\ IF next = "final-approval"
                 THEN rev.status = "implemented" /\ rev' = [rev EXCEPT !.status = "validated"]
                 ELSE UNCHANGED rev
              /\ Enter(next)
    /\ UNCHANGED <<plan, seal, content, gen, evidence, outcome, counts>>

CompleteAudience ==
    /\ Completing("final-customer")
    /\ AllProven(FinalStageKinds)
    /\ Enter("final-approval")
    /\ UNCHANGED <<plan, seal, content, work, outcome, counts>>

(* Evidence of the implementation is bound to its present generation.       *)
AddEvidence(k) ==
    /\ evidence[k] # gen
    /\ evidence' = [evidence EXCEPT ![k] = gen]
    /\ UNCHANGED <<position, plan, seal, content, rev, gen, outcome, counts>>

----------------------------------------------------------------------------
(* Stops, questions and returns.                                            *)

Stop(from) == status' = "blocked" /\ resume' = from

(* Mutant: a resume point that is recorded already is kept.                 *)
BlockKeeping ==
    /\ status \in Stoppable \ {"done"}
    /\ Stop(IF resume = NoResume THEN [status |-> status, phase |-> phase] ELSE resume)
    /\ UNCHANGED <<phase, plan, seal, content, work, outcome, counts>>

BlockTask ==
    /\ status \in Stoppable \ {"done"}
    /\ Stop([status |-> status, phase |-> phase])
    /\ UNCHANGED <<phase, plan, seal, content, work, outcome, counts>>

(* Mutant: the resume point is taken as it is, recorded or not.             *)
ResumeAnyway ==
    /\ status = "blocked"
    /\ openq = 0
    /\ status' = resume.status
    /\ phase' = resume.phase
    /\ resume' = NoResume
    /\ UNCHANGED <<plan, seal, content, work, outcome, counts>>

(* Back to where the stop came from; to the start if that is not known.     *)
ResumeTask ==
    /\ status = "blocked"
    /\ openq = 0
    /\ IF resume = NoResume
       THEN status' = "refining" /\ phase' = "product-specifier"
       ELSE status' = resume.status /\ phase' = resume.phase
    /\ resume' = NoResume
    /\ UNCHANGED <<plan, seal, content, work, outcome, counts>>

AddQuestion ==
    /\ openq < MaxQuestions
    /\ status \in Stoppable
    /\ openq' = openq + 1
    /\ IF status \in {"draft", "refining", "awaiting_spec_approval"}
       THEN UNCHANGED <<status, resume>>
       ELSE Stop([status |-> status, phase |-> phase])
    /\ UNCHANGED <<phase, plan, seal, content, work, outcome, attempts, interruptions>>

(* The last answer resumes the task, unless no resume point is recorded.    *)
AnswerQuestion ==
    /\ openq > 0
    /\ openq' = openq - 1
    /\ IF openq = 1 /\ status = "blocked" /\ resume # NoResume
       THEN status' = resume.status /\ phase' = resume.phase /\ resume' = NoResume
       ELSE UNCHANGED position
    /\ UNCHANGED <<plan, seal, content, work, outcome, attempts, interruptions>>

(* A return is a repair attempt.  At the limit the task stops instead.      *)
CountAttempt ==
    attempts' = IF attempts < RepairLimit THEN attempts + 1 ELSE attempts
Exhausted == attempts' >= RepairLimit

StopExhausted(to) ==
    /\ Stop([status |-> StatusForPhase(to), phase |-> to])
    /\ UNCHANGED <<phase, plan, seal>>

ReturnTo(to) ==
    /\ status \notin Closed
    /\ CountAttempt
    /\ \/ Exhausted /\ StopExhausted(to)
       \/ /\ ~Exhausted
          /\ Enter(to)
          /\ IF to \in SpecPhase
             THEN /\ Unseal("changes_requested")
                  /\ designed' = (designed /\ to # "ux-ui-designer")
                  /\ architected' = (architected /\ to # "technical-architecture")
                  /\ UNCHANGED <<route, waived>>
             ELSE UNCHANGED <<seal, plan>>
    /\ UNCHANGED <<content, work, outcome, openq, interruptions>>

ReturnTask(to) == status \notin GateStatus /\ ReturnTo(to)

(* The user's decision on a Product Owner's final review, which may be      *)
(* taken at a gate.                                                         *)
ResolveFinalProductOwnerDecision(to) ==
    to \in {"builder", "product-specifier"} /\ ReturnTo(to)

(* All attempts are forgotten, or those of one phase.                       *)
ResetRepairBudget ==
    /\ attempts' \in 0..attempts
    /\ UNCHANGED <<position, plan, seal, content, work, outcome, openq, interruptions>>

----------------------------------------------------------------------------
(* The final gate and the delivery.                                         *)

FinalGate == status = "awaiting_final_approval" /\ phase = "final-approval"

(* What approveFinal asks before it writes anything.                        *)
FinalChecks ==
    /\ FinalGate
    /\ SpecUnchanged
    /\ "final-evidence" \in waived \/ AllProven(FinalStageKinds)
    /\ RevisionActive => rev.status = "validated"

(* Mutant: the task is accepted, its revision is not.                       *)
AcceptTaskOnly == UNCHANGED rev

AcceptRevision ==
    rev' = IF RevisionActive THEN [rev EXCEPT !.status = "accepted"] ELSE rev

ApproveFinal ==
    /\ FinalChecks
    /\ AcceptRevision
    /\ final' = "approved"
    /\ accepted' = [gen |-> gen, spec |-> spec]
    /\ IF HasWorktree THEN MoveTo("awaiting_delivery", "delivery") ELSE MoveTo("done", "done")
    /\ UNCHANGED <<plan, seal, content, gen, evidence, counts>>

CompleteDelivery ==
    /\ status = "awaiting_delivery"
    /\ phase = "delivery"
    /\ MoveTo("done", "done")
    /\ UNCHANGED <<plan, seal, content, work, outcome, counts>>

(* Feedback becomes a revision: it replaces the active one and goes to the  *)
(* builder, from wherever the execution is.                                 *)
RevisionOf(declared, files) ==
    [status |-> "active", declared |-> declared, files |-> files, delta |-> {},
     signals |-> DeriveSignals(declared, files), gen |-> 0]

RevisionChecks(declared, files) ==
    /\ status \notin Closed
    /\ SpecUnchanged
    /\ phase \notin SpecPhase \cup {"spec-approval"}
    /\ ~Material(DeriveSignals(declared, files))

StartIncrementalRevision(declared, files) ==
    /\ RevisionChecks(declared, files)
    /\ rev' = RevisionOf(declared, files)
    /\ final' = IF phase \in {"final-approval", "delivery"} THEN "changes_requested" ELSE final
    /\ MoveTo("ready", "builder")
    /\ UNCHANGED <<plan, seal, content, gen, evidence, accepted, counts>>

(* The user's full return from the final gate: a repair attempt, but it     *)
(* leaves the approval of the specification as it is.                       *)
RejectFinal(to) ==
    /\ status = "awaiting_final_approval"
    /\ final' = "changes_requested"
    /\ CountAttempt
    /\ \/ Exhausted /\ StopExhausted(to)
       \/ ~Exhausted /\ Enter(to) /\ UNCHANGED <<seal, plan>>
    /\ UNCHANGED <<content, work, accepted, openq, interruptions>>

----------------------------------------------------------------------------
(* The user's overrides.                                                    *)

GatePhase(g) ==
    CASE g = "design" -> "ux-ui-designer"
      [] g = "technical-architecture" -> "technical-architecture"
      [] g = "technical-review" -> "technical-reviewer"
      [] g = "qa" -> "qa-engineer"
      [] g = "target-audience" -> "final-customer"
      [] g = "delivery" -> "delivery"
      [] OTHER -> "none"

(* The phase after a waived one.  Only this and the route count, not what a *)
(* revision requires.                                                       *)
AfterWaived(g) ==
    CASE g = "design" -> PreApprovalPhase(route, TRUE, architected)
      [] g = "technical-architecture" -> "spec-approval"
      [] g = "technical-review" -> AfterReview(route)
      [] g = "qa" -> AfterQA(route)
      [] OTHER -> "final-approval"

(* A waiver for another phase is recorded.  So is one that should lead to   *)
(* the approval while a question is open, which then fails.                 *)
WaivePasses(g) ==
    /\ GatePhase(g) = phase
    /\ AfterWaived(g) = "spec-approval" => openq = 0

WaiveWorkflowStep(g) ==
    /\ g \in Waivable
    /\ status \notin Closed
    /\ waived' = waived \cup {g}
    /\ \/ /\ ~WaivePasses(g)
          /\ UNCHANGED <<position, designed, architected>>
       \/ /\ WaivePasses(g)
          /\ g = "delivery"
          /\ MoveTo("done", "done")
          /\ UNCHANGED <<designed, architected>>
       \/ /\ WaivePasses(g)
          /\ g # "delivery"
          /\ designed' = (designed \/ g = "design")
          /\ architected' = (architected \/ g = "technical-architecture")
          /\ IF AfterWaived(g) = "spec-approval" THEN AwaitSpec ELSE Enter(AfterWaived(g))
    /\ UNCHANGED <<route, seal, content, work, outcome, counts>>

CancelRevision ==
    rev' = IF RevisionActive THEN [rev EXCEPT !.status = "cancelled"] ELSE rev

CloseTaskByUserOverride ==
    /\ status \notin Closed
    /\ CancelRevision
    /\ final' = "overridden"
    /\ MoveTo("done", "done")
    /\ UNCHANGED <<plan, seal, content, gen, evidence, accepted, counts>>

----------------------------------------------------------------------------
(* Amendments of an approved specification.                                 *)

ProposeAmendment ==
    /\ status \notin Closed
    /\ approval = "approved"
    /\ pending + amended < MaxAmendments
    /\ pending' = pending + 1
    /\ UNCHANGED <<position, plan, seal, spec, amended, work, outcome, counts>>

(* The decision asks nothing of the task.                                   *)
ApproveAmendment ==
    /\ pending > 0
    /\ pending' = pending - 1
    /\ amended' = amended + 1
    /\ effective' = amended + 1
    /\ UNCHANGED <<position, plan, approval, sealed, spec, work, outcome, counts>>

RejectAmendment ==
    /\ pending > 0
    /\ pending' = pending - 1
    /\ UNCHANGED <<position, plan, seal, spec, amended, work, outcome, counts>>

----------------------------------------------------------------------------
(* Commands interrupted between two writes: what is written stays.          *)

Interrupted ==
    /\ interruptions < MaxInterruptions
    /\ interruptions' = interruptions + 1
    /\ UNCHANGED <<position, plan, seal, spec, outcome, openq>>

(* The revision is implemented, the task and its generation are not saved.  *)
InterruptedBuild ==
    /\ Completing("builder")
    /\ gen < MaxGen
    /\ RevisionActive
    /\ \E changed \in FileSignals : rev' = Implemented(changed)
    /\ ~Material(rev'.signals)
    /\ Interrupted
    /\ UNCHANGED <<gen, evidence, pending, amended, attempts>>

(* The active revision is superseded, or the new one is stored as well.     *)
InterruptedRevision(declared, files) ==
    /\ RevisionChecks(declared, files)
    /\ \/ RevisionActive /\ rev' = [rev EXCEPT !.status = "superseded"]
       \/ rev' = RevisionOf(declared, files)
    /\ Interrupted
    /\ UNCHANGED <<gen, evidence, pending, amended, attempts>>

(* The revision is accepted or cancelled, the task is not.                  *)
InterruptedEnd ==
    /\ RevisionActive
    /\ \/ FinalChecks /\ AcceptRevision
       \/ status \notin Closed /\ CancelRevision
    /\ Interrupted
    /\ UNCHANGED <<gen, evidence, pending, amended, attempts>>

(* The amendment is approved, its hash is not in the task.                  *)
InterruptedDecision ==
    /\ pending > 0
    /\ pending' = pending - 1
    /\ amended' = amended + 1
    /\ Interrupted
    /\ UNCHANGED <<work, attempts>>

(* The attempt is counted, the task has not moved.                          *)
InterruptedReturn ==
    /\ status \notin Closed
    /\ CountAttempt
    /\ Interrupted
    /\ UNCHANGED <<work, pending, amended>>

----------------------------------------------------------------------------
SpecificationStep ==
    \/ EditSpecification \/ StartRefinement
    \/ CompleteSpecification \/ CompleteDesign \/ CompleteArchitecture
    \/ ApproveSpecification \/ RequestSpecChanges \/ RejectTask
    \/ InvalidateChangedApproval

ExecutionStep ==
    \/ StartExecution \/ CompleteBuild \/ CompleteReview \/ CompleteQA \/ CompleteAudience
    \/ \E k \in Producible : AddEvidence(k)

StopStep ==
    \/ BlockTask \/ ResumeTask \/ AddQuestion \/ AnswerQuestion \/ ResetRepairBudget
    \/ \E to \in ReturnTarget : ReturnTask(to) \/ ResolveFinalProductOwnerDecision(to)

FinalStep ==
    \/ ApproveFinal \/ CompleteDelivery \/ CloseTaskByUserOverride
    \/ \E to \in ReturnTarget : RejectFinal(to)
    \/ \E declared \in Declarable, files \in FileSignals : StartIncrementalRevision(declared, files)
    \/ \E g \in Gate : WaiveWorkflowStep(g)

AmendmentStep == ProposeAmendment \/ ApproveAmendment \/ RejectAmendment

InterruptedStep ==
    \/ InterruptedBuild \/ InterruptedEnd \/ InterruptedDecision \/ InterruptedReturn
    \/ \E declared \in Declarable, files \in FileSignals : InterruptedRevision(declared, files)

Next ==
    \/ SpecificationStep \/ ExecutionStep \/ StopStep
    \/ FinalStep \/ AmendmentStep \/ InterruptedStep

Spec == Init /\ [][Next]_vars

----------------------------------------------------------------------------
(* Properties.                                                              *)

RevisionType ==
    [status : {"none", "active", "implemented", "validated", "accepted",
               "superseded", "cancelled"},
     declared : SUBSET Signal, files : SUBSET Signal, delta : SUBSET Signal,
     signals : SUBSET Signal, gen : Nat]

(* Every variable has a value of its type.                                  *)
TypeOK ==
    /\ status \in Status /\ phase \in Phase
    /\ resume \in [status : Status, phase : Phase] \cup {NoResume}
    /\ route \in Routes /\ waived \subseteq Gate
    /\ designed \in BOOLEAN /\ architected \in BOOLEAN
    /\ approval \in {"pending", "approved", "changes_requested", "rejected"}
    /\ sealed \in Nat \cup {None} /\ effective \in Nat \cup {None}
    /\ spec \in Nat /\ pending \in Nat /\ amended \in Nat
    /\ rev \in RevisionType /\ gen \in Nat
    /\ evidence \in [Kind -> Nat \cup {None}]
    /\ final \in {"pending", "approved", "changes_requested", "not_applicable", "overridden"}
    /\ accepted \in [gen : Nat \cup {None}, spec : Nat \cup {None}]
    /\ openq \in Nat /\ attempts \in Nat /\ interruptions \in Nat

Delivered ==
    status = "awaiting_delivery" \/ (status = "done" /\ final # "overridden")

(* What is delivered, or done without the user's override, is the           *)
(* implementation generation and the specification that the user accepted   *)
(* at the final gate, however the task was stopped, resumed, returned and   *)
(* revised before and after: no stop or resume brings back an acceptance of *)
(* something else, and no other command ends a task.                        *)
DeliveredIsAccepted ==
    Delivered => accepted.gen = gen /\ accepted.spec = sealed

(* What is delivered carries the evidence that its final route asks for,    *)
(* unless the user waived it, although the route may have changed, and      *)
(* waivers and returns may have led past the phases that collect it.        *)
DeliveredIsProved ==
    Delivered /\ "final-evidence" \notin waived =>
        \A k \in FinalStageKinds : evidence[k] # None

(* A delivered task has no revision left open: whatever was asked of it was *)
(* validated and accepted, or replaced, or cancelled.  A command that dies  *)
(* between the new revision and the task leaves one to a task that awaits   *)
(* its delivery.                                                            *)
DeliveredIsSettled == interruptions = 0 /\ Delivered => ~RevisionActive

(* A revision that counts as validated was proved: every kind of evidence   *)
(* its final signals ask for again was collected from the generation that   *)
(* implements it, or a later one.  A build interrupted between the revision *)
(* and the task breaks this: the task's generation stays the old one.       *)
ValidatedIsProved ==
    rev.status \in {"validated", "accepted"} =>
        \A k \in RevisionKinds : evidence[k] >= rev.gen
RevisionProved == interruptions = 0 => ValidatedIsProved

(* An approved specification is sealed, and its effective hash is always    *)
(* that of the amendments approved so far: the error "changed outside the   *)
(* approved amendment flow" is never raised by the flow itself.  A decision *)
(* interrupted before the hash is stored breaks this.                       *)
SealStands ==
    /\ approval = "approved" <=> sealed # None
    /\ approval = "approved" => effective = amended
ApprovalIsSealed == interruptions = 0 => SealStands

(* While an amendment is undecided no build is completed and no result is   *)
(* accepted, by whatever command.                                           *)
AmendmentBlocks ==
    [][pending > 0 => gen' = gen /\ accepted' = accepted]_vars

(* What the documentation says, and the code does not keep: a revision that *)
(* awaits the final approval can be accepted, because it has been validated *)
(* on its way through the phases it requires.                               *)
FinalGateIsPassable ==
    FinalGate /\ RevisionActive => rev.status = "validated"

=============================================================================
