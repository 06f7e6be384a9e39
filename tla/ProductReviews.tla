---------------------------- MODULE ProductReviews ---------------------------
(***************************************************************************)
(* The product judgments of a task: the Product Owner before the           *)
(* specification, the target audience after QA and the Product Owner again *)
(* before the final approval; what the user decides about them; and what   *)
(* `next' and the readiness report advise.                                 *)
(*                                                                         *)
(* A review is a file, and the task holds its seal, a digest of it.  Each  *)
(* is bound to its inputs by another digest.  A digest is the value it is  *)
(* made of; two reviews with the same content are the same here, as if     *)
(* their time stamps were.  A command is a list of steps, one for each     *)
(* file it writes (what it read before is of the first), and may die       *)
(* between them; what autonomy looks at, the approval of the specification *)
(* that follows and its save are three.  The commands of the agent and of  *)
(* the user come one after the other or side by side.                      *)
(*                                                                         *)
(* Sessions, leases and boundaries are in PhaseBoundary; the phases        *)
(* between specification and the audience, waivers and what a revision     *)
(* invalidates are in Workflow.                                            *)
(***************************************************************************)
EXTENDS Naturals, FiniteSets, Sequences

CONSTANTS
    Profiles,       \* primary audience profiles of the project
    MinPrimary,     \* how many of them must look at the result
    Levels,         \* autonomy levels that a project may have
    MaxChanges,     \* bound: changes of the product context and of the result
    MaxTurns,       \* bound: decisions that turn the work back or decide, and edits
    CommandsDie     \* whether a command may die between two steps

ASSUME ProductReviewsAssumption ==
    /\ MinPrimary \in 1 .. Cardinality(Profiles) /\ IsFiniteSet(Profiles)
    /\ Levels \subseteq {"guided", "autonomous", "headless"}
    /\ MaxChanges \in Nat /\ MaxTurns \in Nat /\ CommandsDie \in BOOLEAN

VARIABLES
    task,           \* the saved task: its phase, its seals, its revision
    file,           \* the review files
    inputs,         \* versions of what the reviews judge
    pending,        \* pending[a]: the steps that an actor's command has left
    policy,         \* the policy of the project, chosen at first
    inTurn,         \* whether commands come one after the other, chosen at first
    turns,          \* how many decisions and edits there were
    outcome         \* history, see below

reviewVars == <<task, file, inputs, pending, policy, inTurn, turns, outcome>>

Actors == {"agent", "user"}
Versions == 0 .. MaxChanges
TaskPhases == {"product-specifier", "spec-approval", "execution", "final-customer",
               "final-approval", "done", "rejected"}

NoReview == [verdict |-> "none"]
NotApproved == [verdict |-> "not approved"]
\* "revise" stands for every review that asks for a judgment of the user.
OwnerReviews == [verdict : {"build", "revise"}, product : Versions,
                 decision : {"none", "proceed", "reject"}]
Sealed == OwnerReviews \cup {NoReview, NotApproved}
Judged == [product : Versions, result : Versions, spec : Sealed]
AudienceReviews == [verdict : {"pass", "revise", "tradeoff"}, of : Judged,
                    decision : {"none", "accept", "revise"}]
Batches == [Profiles -> AudienceReviews \cup {NoReview}]
NoBatch == [p \in Profiles |-> NoReview]
FinalReviews == [verdict : {"ship", "revise"},
                 decision : {"none", "proceed", "revise", "revisit"},
                 of : Judged, owner : OwnerReviews \cup {NoReview}, audience : Batches]

\* History: what was delivered, and who approved the specification: "overtaken" is the
\* autonomy that approves another review than the one it had looked at.
NotDelivered == [by |-> "nobody"]

-----------------------------------------------------------------------------
(* Status of the three judgments, of a task t and files f. *)

Batch(f) == {f.audience[p] : p \in Profiles} \ {NoReview}

OwnerIntegral == file.owner # NoReview /\ task.owner = file.owner
OwnerStale == file.owner # NoReview /\ file.owner.product # inputs.product
OwnerTerminal == file.owner # NoReview /\ file.owner.decision = "reject"
OwnerUnresolved ==
    file.owner # NoReview /\
    (OwnerTerminal \/ (file.owner.verdict # "build" /\ file.owner.decision # "proceed"))
OwnerValid == OwnerIntegral /\ ~OwnerStale /\ ~OwnerUnresolved
OwnerNeedsUser == OwnerIntegral /\ ~OwnerStale /\ OwnerUnresolved /\ ~OwnerTerminal

Accepted(r) == r.verdict = "tradeoff" /\ r.decision = "accept"

AudienceIntegral == Batch(file) = {} \/ task.audience = file.audience
\* What the audience and the final review judge: the approved specification, which
\* the rendered Product Owner review is a section of, is part of it.
Source == [product |-> inputs.product, result |-> inputs.result, spec |-> task.sealed]
AudienceStale == \E r \in Batch(file) : r.of # Source
AudienceTradeoff == \E r \in Batch(file) : r.verdict = "tradeoff" /\ r.decision # "accept"
AudienceFailed == \E r \in Batch(file) : r.verdict # "pass" /\ ~Accepted(r)
NeedsMoreProfiles == Cardinality({p \in Profiles : file.audience[p] # NoReview}) < MinPrimary
AudienceValid ==
    AudienceIntegral /\ ~AudienceStale /\ ~NeedsMoreProfiles /\ ~AudienceFailed /\ ~AudienceTradeoff
AudienceDecision == AudienceIntegral /\ ~AudienceStale /\ AudienceTradeoff

FinalIntegral == file.final # NoReview /\ task.final = file.final
\* Mutant: the digest leaves the implementation and its evidence out.
FinalStaleReviews ==
    file.final # NoReview /\ task.phase # "done" /\
    (file.final.owner # task.owner \/ file.final.audience # task.audience)
FinalStale ==
    /\ file.final # NoReview /\ task.phase # "done"
    /\ \/ file.final.of # Source
       \/ file.final.owner # task.owner \/ file.final.audience # task.audience

FinalTerminal == file.final # NoReview /\ file.final.decision \in {"revise", "revisit"}
FinalUnresolved ==
    file.final # NoReview /\
    (FinalTerminal \/ (file.final.verdict # "ship" /\ file.final.decision # "proceed"))
FinalValid == FinalIntegral /\ ~FinalStale /\ ~FinalUnresolved
FinalNeedsUser == FinalIntegral /\ ~FinalStale /\ FinalUnresolved /\ ~FinalTerminal

Guided == policy.level = "guided"
Preserves == task.revision = "validated" /\ file.final # NoReview

-----------------------------------------------------------------------------
ReviewsInit ==
    /\ task = [phase |-> "product-specifier", owner |-> NoReview, audience |-> NoBatch,
               final |-> NoReview, sealed |-> NotApproved, revision |-> "none"]
    /\ file = [owner |-> NoReview, audience |-> NoBatch, final |-> NoReview]
    /\ inputs = [product |-> 0, result |-> 0]
    /\ pending = [a \in Actors |-> <<>>]
    /\ policy \in [level : Levels, audience : BOOLEAN]
    /\ inTurn \in BOOLEAN
    /\ turns = 0
    /\ outcome = [delivered |-> NotDelivered, approver |-> "nobody"]

Finished(a) == pending[a] = <<>>
AllFinished == \A a \in Actors : Finished(a)
MayStart(a) == Finished(a) /\ task.phase # "rejected" /\ (inTurn => AllFinished)

\* A command's first step is over, these are left.
Then(a, steps) == pending' = [pending EXCEPT ![a] = steps]
Unchanged == UNCHANGED <<inputs, policy, inTurn, turns, outcome>>
Turn == turns < MaxTurns /\ turns' = turns + 1 /\ UNCHANGED <<policy, inTurn, outcome>>

Save(t) == [do |-> "save", task |-> t]
Seal(which, value) == [do |-> "seal", which |-> which, value |-> value]
Drop(which) == [do |-> "drop", which |-> which]
Go(to, from) == [do |-> "go", phase |-> to, from |-> from]
\* What autonomy does after it looked; the save of an approval.
Advance(gate) == [do |-> "advance", gate |-> gate, looked |-> task.owner]
Approve(looked) ==
    [do |-> "approve", looked |-> looked,
     task |-> [task EXCEPT !.phase = "execution", !.sealed = task.owner]]

\* rejectTask refuses a task that executes, returnTask one that is closed, and one
\* at an approval unless its caller is the final decision.
Open == TaskPhases \ {"done", "rejected"}
Refining == {"product-specifier", "spec-approval"}
NoGate == Open \ {"spec-approval", "final-approval"}

\* Mutant: a reset empties the batch as it does a review.
EmptyBatch == [owner |-> NoReview, audience |-> NoReview, final |-> NoReview]
Empty == [owner |-> NoReview, audience |-> NoBatch, final |-> NoReview]

\* A task that goes back to its specification loses the approval.
InPhase(to) ==
    [task EXCEPT !.phase = to,
                 !.sealed = IF to = "product-specifier" THEN NotApproved ELSE @]

\* saveTask of the task as it was loaded at the start, of the task as it is now
\* with a new seal (decide...), with a review removed (invalidate..., reset...), or
\* in another phase (returnTask, rejectTask).
ContinueCommand(a) ==
    /\ ~Finished(a) /\ Head(pending[a]).do \in {"save", "seal", "drop", "go"}
    /\ LET s == Head(pending[a])
       IN /\ task' = CASE s.do = "save" -> s.task
                       [] s.do = "seal" -> [task EXCEPT ![s.which] = s.value]
                       [] s.do = "drop" -> [task EXCEPT ![s.which] = Empty[s.which]]
                       [] s.do = "go" -> IF task.phase \in s.from THEN InPhase(s.phase) ELSE task
          /\ file' = IF s.do = "drop" THEN [file EXCEPT ![s.which] = Empty[s.which]] ELSE file
    /\ Then(a, Tail(pending[a]))
    /\ Unchanged

-----------------------------------------------------------------------------
(* The Product Owner before the specification. *)

MayRecordOwner == task.phase = "product-specifier"

RecordOwner(v) ==
    /\ MayStart("agent") /\ MayRecordOwner
    /\ LET r == [verdict |-> v, decision |-> "none", product |-> inputs.product]
       IN /\ file' = [file EXCEPT !.owner = r]
          /\ Then("agent", <<Save([task EXCEPT !.owner = r])>>)
    /\ UNCHANGED task /\ Unchanged

MayDecideOwner == OwnerIntegral /\ ~OwnerStale

\* "proceed" and "reject" have no guard on the phase; the call that rejects closes
\* the task at the end, when it still may.
DecideOwner(d) ==
    /\ MayStart("user") /\ MayDecideOwner
    /\ LET r == [file.owner EXCEPT !.decision = d]
       IN /\ file' = [file EXCEPT !.owner = r]
          /\ Then("user", IF d = "reject" THEN <<Seal("owner", r), Go("rejected", Refining)>>
                          ELSE <<Seal("owner", r)>>)
    /\ UNCHANGED task /\ UNCHANGED inputs /\ Turn

\* "rework" removes the seal first and then the file.
ReworkOwner ==
    /\ MayStart("user") /\ file.owner # NoReview
    /\ task' = [task EXCEPT !.owner = NoReview]
    /\ Then("user", <<Drop("owner")>>)
    /\ UNCHANGED file /\ UNCHANGED inputs /\ Turn

\* resetProductOwnerReview, resetFinalProductOwnerReview, resetTargetAudienceReviews,
\* the last with --force when the batch does not match its seal.
ResetReview(which) ==
    /\ MayStart("user")
    /\ task' = [task EXCEPT ![which] = Empty[which]]
    /\ file' = [file EXCEPT ![which] = Empty[which]]
    /\ UNCHANGED pending /\ UNCHANGED inputs /\ Turn

\* completePhase in the phase product-specifier
MayCompleteSpecification ==
    /\ task.phase = "product-specifier" /\ OwnerValid
    /\ Guided => file.owner.decision # "none"

CompleteSpecification ==
    /\ MayStart("agent") /\ MayCompleteSpecification
    /\ task' = [task EXCEPT !.phase = "spec-approval"]
    /\ UNCHANGED <<file, pending>> /\ Unchanged

\* What the readiness report blocks the specification on, of the judgments.
\* Mutant: a review that is gone blocks nothing.
OwnerBlocksStale == OwnerStale \/ OwnerUnresolved
OwnerBlocks == OwnerStale \/ ~OwnerValid

\* requestSpecChanges
RequestSpecChanges ==
    /\ MayStart("user") /\ task.phase = "spec-approval"
    /\ Then("user", <<Drop("owner"), Go("product-specifier", TaskPhases)>>)
    /\ UNCHANGED <<task, file>> /\ UNCHANGED inputs /\ Turn

\* ensureApprovedSpecUnchanged: a review that was decided, reset or replaced after
\* the approval changes the specification, and whatever command finds it out
\* takes the task back to the approval.
SpecUnchanged == task.sealed = task.owner
Executing == task.phase \in {"execution", "final-customer", "final-approval"}
FindChangedSpec ==
    /\ MayStart("agent") /\ Executing /\ task.sealed # NotApproved /\ ~SpecUnchanged
    /\ task' = [task EXCEPT !.phase = "spec-approval", !.sealed = NotApproved]
    /\ UNCHANGED <<file, pending>> /\ Unchanged

\* startRefinement of a task that is not approved yet.
Refine ==
    /\ MayStart("agent") /\ task.phase = "product-specifier" /\ file.owner # NoReview
    /\ Then("agent", <<Drop("owner"), Go("product-specifier", TaskPhases)>>)
    /\ UNCHANGED <<task, file>> /\ UNCHANGED inputs /\ Turn

-----------------------------------------------------------------------------
(* The work, and the target audience. *)

\* QA is over.  A revision goes on to the audience, or is validated and goes to the
\* final approval with the judgments it preserves.
CompleteExecution(validated) ==
    /\ MayStart("agent") /\ task.phase = "execution" /\ SpecUnchanged
    /\ validated => task.revision = "active"
    /\ task' = IF validated
               THEN [task EXCEPT !.phase = "final-approval", !.revision = "validated"]
               ELSE [task EXCEPT !.phase = IF policy.audience \/ task.revision = "active"
                                           THEN "final-customer" ELSE "final-approval"]
    /\ UNCHANGED <<file, pending>> /\ Unchanged

MayRecordAudience == task.phase = "final-customer" /\ (AudienceStale => AudienceIntegral)

\* A stale batch is cleared first.  The seal is that of the files there are then.
RecordTargetAudience(p, v) ==
    /\ MayStart("agent") /\ policy.audience /\ MayRecordAudience
    /\ LET batch == IF AudienceStale THEN NoBatch ELSE file.audience
           new == [batch EXCEPT ![p] = [verdict |-> v, of |-> Source, decision |-> "none"]]
       IN /\ file' = [file EXCEPT !.audience = new]
          /\ task' = IF AudienceStale THEN [task EXCEPT !.audience = NoBatch] ELSE task
          /\ Then("agent", <<Save([task EXCEPT !.audience = new])>>)
    /\ Unchanged

MayDecideAudience == AudienceDecision

\* resolveTargetAudienceDecision: accept, revise or revisit the product.  The task
\* that is at an approval stays there, with the decision recorded.
DecideAudience(d) ==
    /\ MayStart("user") /\ MayDecideAudience
    /\ LET new == [p \in Profiles |->
                     LET r == file.audience[p]
                     IN IF r = NoReview \/ (d = "accept" /\ r.verdict # "tradeoff") THEN r
                        ELSE [r EXCEPT !.decision = IF d = "accept" THEN d ELSE "revise"]]
       IN /\ file' = [file EXCEPT !.audience = new]
          /\ Then("user", <<Seal("audience", new)>> \o
                 CASE d = "accept" -> <<>>
                   [] d = "revise" -> <<Go("execution", NoGate)>>
                   [] d = "revisit" -> <<Drop("owner"), Go("product-specifier", NoGate)>>)
    /\ UNCHANGED task /\ UNCHANGED inputs /\ Turn

\* routeTargetAudienceRevision
MayRouteAudience ==
    /\ task.phase = "final-customer"
    /\ AudienceIntegral /\ ~AudienceStale /\ ~NeedsMoreProfiles /\ ~AudienceTradeoff
    /\ ~AudienceValid /\ \E r \in Batch(file) : r.verdict # "pass"

RouteAudience ==
    /\ MayStart("agent") /\ policy.audience /\ MayRouteAudience
    /\ task' = [task EXCEPT !.phase = "execution"]
    /\ UNCHANGED <<file, pending>> /\ Unchanged

MayCompleteAudience ==
    task.phase = "final-customer" /\ SpecUnchanged /\ (policy.audience => AudienceValid)

CompleteAudiencePhase ==
    /\ MayStart("agent") /\ MayCompleteAudience
    /\ task' = [task EXCEPT !.phase = "final-approval"]
    /\ UNCHANGED <<file, pending>> /\ Unchanged

-----------------------------------------------------------------------------
(* The Product Owner again, and the final approval. *)

MayRecordFinal ==
    /\ task.phase = "final-approval" /\ task.sealed # NotApproved
    /\ policy.audience => AudienceValid

RecordFinal(v) ==
    /\ MayStart("agent") /\ MayRecordFinal
    /\ LET r == [verdict |-> v, decision |-> "none", of |-> Source, owner |-> task.owner,
                 audience |-> task.audience]
       IN /\ file' = [file EXCEPT !.final = r]
          /\ Then("agent", <<Save([task EXCEPT !.final = r])>>)
    /\ UNCHANGED task /\ Unchanged

MayDecideFinal == FinalIntegral /\ ~FinalStale

\* resolveFinalProductOwnerDecision, on a task that is done as well.
DecideFinal(d) ==
    /\ MayStart("user") /\ MayDecideFinal
    /\ LET r == [file.final EXCEPT !.decision = d]
       IN /\ file' = [file EXCEPT !.final = r]
          /\ Then("user", <<Seal("final", r)>> \o
                 CASE d = "proceed" -> <<>>
                   [] d = "revise" -> <<Drop("final"), Go("execution", Open)>>
                   [] d = "revisit" ->
                        <<Drop("final"), Drop("owner"), Go("product-specifier", Open)>>)
    /\ UNCHANGED task /\ UNCHANGED inputs /\ Turn

\* approveFinal; the revision must be validated to be accepted with the task.
MayApproveFinal ==
    /\ task.phase = "final-approval"
    /\ FinalValid \/ Preserves
    /\ SpecUnchanged
    /\ Guided /\ ~Preserves => file.final.decision # "none"
    /\ task.revision # "active"

\* Mutant: the report does not wait for the acknowledgement of guided autonomy.
FinalBlockersValid ==
    IF ~Preserves /\ ~FinalValid THEN {"product-owner-final-review"} ELSE {}

\* What the readiness report blocks on, of the judgments.
FinalBlockers ==
    {g \in {"target-audience-review", "product-owner-final-review"} :
        /\ g = "target-audience-review" =>
             policy.audience /\ AudienceStale /\ task.revision # "validated"
        /\ g = "product-owner-final-review" =>
             /\ ~Preserves
             /\ ~FinalValid \/ (Guided /\ file.final.decision = "none")}

-----------------------------------------------------------------------------
(* Autonomy, and the two approvals. *)

\* advanceAutonomy, until it calls an approval: the report blocks on nothing.
AdvanceAutonomy ==
    /\ MayStart("agent") /\ ~Guided
    /\ \/ task.phase = "spec-approval" /\ ~OwnerBlocks
       \/ task.phase = "final-approval" /\ FinalBlockers = {}
    /\ Then("agent", <<Advance(task.phase)>>)
    /\ UNCHANGED <<task, file>> /\ Unchanged

\* Who calls an approval: the user, or autonomy that has looked.
Advancing == ~Finished("agent") /\ Head(pending["agent"]).do = "advance"
Calls(a, gate) ==
    IF a = "user" THEN MayStart(a) ELSE Advancing /\ Head(pending[a]).gate = gate

\* approveSpecification loads the task again and never looks at the Product Owner's
\* review; it saves the task that it loaded, with the approval.
MayApproveSpecification == task.phase = "spec-approval"

CallApproveSpecification(a) ==
    /\ Calls(a, "spec-approval") /\ MayApproveSpecification
    /\ Then(a, <<Approve(IF a = "user" THEN task.owner ELSE Head(pending[a]).looked)>>)
    /\ UNCHANGED <<task, file>> /\ Unchanged

ApproveSpecification(a) ==
    /\ ~Finished(a) /\ Head(pending[a]).do = "approve"
    /\ LET s == Head(pending[a])
       IN /\ task' = s.task
          /\ outcome' = [outcome EXCEPT !.approver =
                           IF a = "agent" /\ s.task.sealed # s.looked THEN "overtaken" ELSE a]
    /\ Then(a, <<>>)
    /\ UNCHANGED <<file, inputs, policy, inTurn, turns>>

\* approveFinal checks everything itself.
ApproveFinal(a) ==
    /\ Calls(a, "final-approval") /\ MayApproveFinal
    /\ task' = [task EXCEPT !.phase = "done"]
    /\ outcome' = [outcome EXCEPT !.delivered =
                   [by |-> a, approver |-> outcome.approver, preserved |-> Preserves,
                    of |-> Source, final |-> file.final]]
    /\ Then(a, <<>>)
    /\ UNCHANGED <<file, inputs, policy, inTurn, turns>>

\* The approval that autonomy calls refuses what has changed since.
AdvanceRefused ==
    /\ Advancing
    /\ LET gate == Head(pending["agent"]).gate
       IN /\ gate = "spec-approval" => ~MayApproveSpecification
          /\ gate = "final-approval" => ~MayApproveFinal
    /\ Then("agent", <<>>)
    /\ UNCHANGED <<task, file>> /\ Unchanged

-----------------------------------------------------------------------------
(* Closing, edits and crashes. *)

\* rejectFinal and startIncrementalRevision
RejectFinal(to) ==
    /\ MayStart("user") /\ task.phase \in {"final-approval", "final-customer"}
    /\ \/ to = "revision" /\ task' = [task EXCEPT !.phase = "execution", !.revision = "active"]
          /\ SpecUnchanged
       \/ /\ to \in {"product-specifier", "execution"} /\ task.phase = "final-approval"
          /\ task' = InPhase(to)
    /\ UNCHANGED <<file, pending>> /\ UNCHANGED inputs /\ Turn

\* The Need, the product context or its learnings change.  After the specification
\* was approved the governance seal stops the task: that is in Workflow.
EditProduct ==
    /\ task.phase \in {"product-specifier", "spec-approval"}
    /\ inputs.product + inputs.result < MaxChanges
    /\ inputs' = [inputs EXCEPT !.product = @ + 1]
    /\ UNCHANGED <<task, file, pending>> /\ Turn

\* The implementation or its evidence changes, in whatever phase.
EditResult ==
    /\ Executing /\ inputs.product + inputs.result < MaxChanges
    /\ inputs' = [inputs EXCEPT !.result = @ + 1]
    /\ UNCHANGED <<task, file, pending>> /\ Turn

\* A command dies; nothing runs beside it then.
CommandDies(a) ==
    /\ CommandsDie /\ inTurn /\ ~Finished(a)
    /\ Then(a, <<>>)
    /\ UNCHANGED <<task, file>> /\ Unchanged

ReviewsNext ==
    \/ \E a \in Actors : ContinueCommand(a) \/ CommandDies(a)
    \/ \E a \in Actors : CallApproveSpecification(a) \/ ApproveSpecification(a) \/ ApproveFinal(a)
    \/ AdvanceAutonomy \/ AdvanceRefused
    \/ \E v \in {"build", "revise"} : RecordOwner(v)
    \/ \E d \in {"proceed", "reject"} : DecideOwner(d)
    \/ \E which \in {"owner", "audience", "final"} : ResetReview(which)
    \/ ReworkOwner \/ CompleteSpecification \/ Refine \/ RequestSpecChanges \/ FindChangedSpec
    \/ \E validated \in BOOLEAN : CompleteExecution(validated)
    \/ \E p \in Profiles, v \in {"pass", "revise", "tradeoff"} : RecordTargetAudience(p, v)
    \/ \E d \in {"accept", "revise", "revisit"} : DecideAudience(d)
    \/ RouteAudience \/ CompleteAudiencePhase
    \/ \E v \in {"ship", "revise"} : RecordFinal(v)
    \/ \E d \in {"proceed", "revise", "revisit"} : DecideFinal(d)
    \/ \E to \in {"revision", "execution", "product-specifier"} : RejectFinal(to)
    \/ EditProduct \/ EditResult

ReviewsSpec == ReviewsInit /\ [][ReviewsNext]_reviewVars

-----------------------------------------------------------------------------
(* What `next' advises, and whether the command it stands for is accepted. *)

Acknowledge(r, integral, stale) == Guided /\ r # NoReview /\ integral /\ ~stale /\ r.decision = "none"

SpecificationAdvice ==
    CASE OwnerStale -> "product-owner-review"
      [] ~OwnerStale /\ OwnerNeedsUser -> "decide-product-owner"
      [] ~OwnerStale /\ ~OwnerNeedsUser ->
           IF Acknowledge(file.owner, OwnerIntegral, OwnerStale) THEN "decide-product-owner"
           ELSE IF ~OwnerValid THEN "product-owner-review" ELSE "continue"

AudienceAdvice ==
    IF ~AudienceIntegral \/ AudienceStale THEN "target-audience-review"
    ELSE IF AudienceDecision THEN "decide-target-audience"
    ELSE IF NeedsMoreProfiles THEN "target-audience-review"
    ELSE IF ~AudienceValid THEN "route-target-audience-revision" ELSE "continue"

\* Mutant: a review that became stale is judged as if it were not.
FinalAdviceStale ==
    IF FinalUnresolved THEN "decide-final"
    ELSE IF file.final = NoReview THEN "final-product-owner-review" ELSE "approve"
FinalAdvice ==
    IF FinalStale /\ Preserves THEN "approve"
    ELSE IF FinalStale THEN "final-product-owner-review"
    ELSE IF FinalNeedsUser THEN "decide-final"
    ELSE IF Acknowledge(file.final, FinalIntegral, FinalStale) THEN "decide-final"
    ELSE IF ~FinalValid THEN "final-product-owner-review" ELSE "approve"

nextAction ==
    CASE task.phase = "product-specifier" -> SpecificationAdvice
      [] task.phase = "final-customer" /\ policy.audience -> AudienceAdvice
      [] task.phase = "final-approval" -> FinalAdvice
      [] OTHER -> "continue"

Accepts(action) ==
    CASE action = "product-owner-review" -> MayRecordOwner
      [] action = "decide-product-owner" -> MayDecideOwner
      [] action = "target-audience-review" -> MayRecordAudience
      [] action = "decide-target-audience" -> MayDecideAudience
      [] action = "route-target-audience-revision" -> MayRouteAudience
      [] action = "final-product-owner-review" -> MayRecordFinal
      [] action = "decide-final" -> MayDecideFinal
      [] action = "approve" -> MayApproveFinal
      [] action = "continue" ->
           /\ task.phase = "product-specifier" => MayCompleteSpecification
           /\ task.phase = "final-customer" => MayCompleteAudience

-----------------------------------------------------------------------------
(* Properties *)

\* Type invariant.
ReviewTypes ==
    /\ task \in [phase : TaskPhases, owner : OwnerReviews \cup {NoReview}, audience : Batches,
                 final : FinalReviews \cup {NoReview}, sealed : Sealed,
                 revision : {"none", "active", "validated"}]
    /\ file \in [owner : OwnerReviews \cup {NoReview}, audience : Batches,
                 final : FinalReviews \cup {NoReview}]
    /\ inputs \in [product : Versions, result : Versions]
    /\ \A a \in Actors : Len(pending[a]) <= 4
    /\ policy \in [level : Levels, audience : BOOLEAN]
    /\ inTurn \in BOOLEAN
    /\ turns \in 0 .. MaxTurns

Good(r) == r.verdict \in {"build", "ship"} \/ r.decision = "proceed"

\* What is delivered was judged as it is: the final review is of the delivered
\* result and lets it ship, and it was made after the required number of audience
\* profiles had judged the same result and passed it, or the user had accepted what
\* they found.  approveFinal asks for neither: it follows from the digests.
DeliveredIsJudged ==
    outcome.delivered.by # "nobody" /\ ~outcome.delivered.preserved =>
        LET r == outcome.delivered.final
        IN /\ r.of = outcome.delivered.of /\ Good(r)
           /\ policy.audience =>
                /\ Cardinality({p \in Profiles : r.audience[p] # NoReview}) >= MinPrimary
                /\ \A p \in Profiles : r.audience[p] # NoReview =>
                      /\ r.audience[p].of = outcome.delivered.of
                      /\ r.audience[p].verdict = "pass" \/ Accepted(r.audience[p])

\* What autonomy approves, the Product Owner had agreed to build or the user had, when
\* autonomy looked; and that is what is delivered, unless a command beside it changed
\* the review before approveSpecification loaded the task.  With commands in turn there
\* is no such command.
AutonomousIsAgreed ==
    /\ outcome.delivered.by # "nobody" /\ outcome.delivered.approver = "agent" =>
          outcome.delivered.of.spec \in OwnerReviews /\ Good(outcome.delivered.of.spec)
    /\ inTurn => outcome.approver # "overtaken"

\* No command is running, and none would find that the specification had changed.
Settled == AllFinished /\ (Executing => SpecUnchanged)

\* The command that `next' advises is accepted.  Three states are left out, in which
\* only another command helps: an audience batch that does not match its seal; a task
\* at the final approval whose result the audience has not judged, because it changed
\* or a revision skipped the audience; and a revision that went through the audience,
\* which nothing validates (Workflow has it).
BrokenBatch == ~AudienceIntegral
Unjudged == task.phase = "final-approval" /\ policy.audience /\ ~AudienceValid
Unvalidated == task.phase = "final-approval" /\ task.revision = "active"
AdviceIsPossible ==
    Settled /\ ~BrokenBatch /\ ~Unjudged /\ ~Unvalidated => Accepts(nextAction)

\* The readiness report and the final gate agree.
ReadinessAgrees ==
    Settled /\ task.phase = "final-approval" /\ ~Unvalidated
    => (FinalBlockers = {} <=> MayApproveFinal)

=============================================================================
