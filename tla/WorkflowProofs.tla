--------------------------- MODULE WorkflowProofs ---------------------------
(***************************************************************************)
(* What holds of Workflow for every set of routes, signals, waivers and    *)
(* stops and every bound: the types; that what is delivered is what the    *)
(* user accepted and carries the evidence its route asks for; and, when no *)
(* command is interrupted, that no revision is left open by the delivery,  *)
(* validated revisions are proved and approvals sealed.                    *)
(***************************************************************************)
EXTENDS Workflow, SequenceTheorems, TLAPS

ValidationPhase == {"technical-reviewer", "qa-engineer", "final-customer"}

-----------------------------------------------------------------------------
(* Lemmas about the operators.                                              *)

(* A revision asks for kinds of evidence only.                              *)
LEMMA KindsAreKinds ==
    ASSUME NEW signals
    PROVE  RevalidateKinds(signals) \subseteq Kind
<1> DEFINE kinds == {a.kind : a \in Invalidated(signals)} \ {NoKind}
<1>1. \A i \in DOMAIN DependencyGraph : DependencyGraph[i].kind \in Kind \cup {NoKind}
  BY DEF DependencyGraph, Kind, NoKind
<1>2. kinds \subseteq Kind
  BY <1>1 DEF Invalidated
<1> HIDE DEF kinds
<1>3. RevalidateKinds(signals) = IF kinds = {} THEN {"targeted"} ELSE kinds
  BY DEF RevalidateKinds, kinds
<1> QED
  BY <1>2, <1>3 DEF Kind

(* A sequence of one element, or of none.                                   *)
LEMMA OneOrNone ==
    ASSUME NEW S, NEW x \in S, NEW c \in BOOLEAN
    PROVE  /\ (IF c THEN <<x>> ELSE <<>>) \in Seq(S)
           /\ Len(IF c THEN <<x>> ELSE <<>>) = IF c THEN 1 ELSE 0
<1>1. CASE c
  BY <1>1
<1>2. CASE ~c
  BY <1>2
<1> QED
  BY <1>1, <1>2

(* The phases a revision requires: one to three validation phases.          *)
LEMMA RequiredPhasesType ==
    ASSUME NEW signals
    PROVE  /\ RequiredPhases(signals) \in Seq(ValidationPhase)
           /\ Len(RequiredPhases(signals)) \in 1 .. 3
<1> DEFINE phases == {a.phase : a \in Invalidated(signals)}
           Only(p) == IF p \in phases THEN <<p>> ELSE <<>>
           last == IF "qa-engineer" \in phases THEN <<>> ELSE <<"qa-engineer">>
<1>1. RequiredPhases(signals)
        = Only("technical-reviewer") \o Only("qa-engineer") \o Only("final-customer") \o last
  BY DEF RequiredPhases
<1> HIDE DEF phases
<1>2. ASSUME NEW p \in ValidationPhase
      PROVE  /\ Only(p) \in Seq(ValidationPhase)
             /\ Len(Only(p)) = IF p \in phases THEN 1 ELSE 0
  BY OneOrNone
<1>3. /\ last \in Seq(ValidationPhase)
      /\ Len(last) = IF "qa-engineer" \in phases THEN 0 ELSE 1
  <2>1. "qa-engineer" \in ValidationPhase
    BY DEF ValidationPhase
  <2> QED
    BY <2>1
<1>4. /\ Only("technical-reviewer") \in Seq(ValidationPhase)
      /\ Only("qa-engineer") \in Seq(ValidationPhase)
      /\ Only("final-customer") \in Seq(ValidationPhase)
      /\ Len(Only("technical-reviewer")) \in 0 .. 1
      /\ Len(Only("final-customer")) \in 0 .. 1
      /\ Len(Only("qa-engineer")) + Len(last) = 1
      /\ Len(Only("qa-engineer")) \in 0 .. 1
      /\ Len(last) \in 0 .. 1
  <2> HIDE DEF Only, last
  <2> QED
    BY <1>2, <1>3 DEF ValidationPhase
<1> DEFINE reviewed == Only("technical-reviewer")
           tested == reviewed \o Only("qa-engineer")
           judged == tested \o Only("final-customer")
<1> HIDE DEF Only, last
<1>5. /\ tested \in Seq(ValidationPhase)
      /\ Len(tested) = Len(reviewed) + Len(Only("qa-engineer"))
  BY <1>4, ConcatProperties
<1>6. /\ judged \in Seq(ValidationPhase)
      /\ Len(judged) = Len(tested) + Len(Only("final-customer"))
  <2> HIDE DEF tested
  <2> QED
    BY <1>4, <1>5, ConcatProperties
<1>7. /\ judged \o last \in Seq(ValidationPhase)
      /\ Len(judged \o last) = Len(judged) + Len(last)
  <2> HIDE DEF judged
  <2> QED
    BY <1>3, <1>6, ConcatProperties
<1>8. RequiredPhases(signals) = judged \o last
  BY <1>1
<1> HIDE DEF judged, tested, reviewed
<1> QED
  <2>1. Len(judged \o last) \in 1 .. 3
    BY <1>4, <1>5, <1>6, <1>7 DEF reviewed
  <2> QED
    BY <1>7, <1>8, <2>1

(* The first phase after a build of a revision is one of validation.        *)
LEMMA FirstIsValidation ==
    ASSUME NEW signals
    PROVE  FirstValidationPhase(RequiredPhases(signals)) \in ValidationPhase
BY RequiredPhasesType DEF FirstValidationPhase

(* The phase after a validation is another one, or the final gate.          *)
LEMMA NextIsValidation ==
    ASSUME NEW signals, NEW after
    PROVE  NextValidationPhase(RequiredPhases(signals), after)
             \in ValidationPhase \cup {"final-approval"}
<1> DEFINE phases == RequiredPhases(signals)
           later == {i \in DOMAIN phases : PhaseOrder[phases[i]] > PhaseOrder[after]}
           first == CHOOSE i \in later : \A j \in later : i <= j
<1>1. later \subseteq 1 .. 3 /\ later \subseteq DOMAIN phases
  BY RequiredPhasesType
<1>2. ASSUME later # {} PROVE first \in later
  <2> HIDE DEF later
  <2>1. \E i \in later : \A j \in later : i <= j
    <3>1. CASE 1 \in later
      BY <1>1, <3>1
    <3>2. CASE 1 \notin later /\ 2 \in later
      BY <1>1, <3>2
    <3>3. CASE 1 \notin later /\ 2 \notin later
      <4>1. \A i \in later : i = 3
        BY <1>1, <3>3
      <4> QED
        BY <1>2, <4>1
    <3> QED
      BY <3>1, <3>2, <3>3
  <2> QED
    BY <2>1
<1>3. NextValidationPhase(phases, after) = IF later = {} THEN "final-approval" ELSE phases[first]
  BY DEF NextValidationPhase
<1>4. phases \in Seq(ValidationPhase)
  BY RequiredPhasesType
<1> HIDE DEF later, first, phases
<1>5. ASSUME later # {} PROVE phases[first] \in ValidationPhase
  <2>1. first \in 1 .. Len(phases)
    BY <1>1, <1>2, <1>4, <1>5, LenProperties
  <2> QED
    BY <1>4, <2>1, ElementOfSeq
<1> QED
  <2>1. NextValidationPhase(phases, after) \in ValidationPhase \cup {"final-approval"}
    BY <1>3, <1>5
  <2> QED
    BY <2>1 DEF phases

(* Where the route leads from each phase.                                   *)
LEMMA RouteLeadsOn ==
    ASSUME NEW r, NEW hasDesign, NEW hasArchitecture
    PROVE  /\ PreApprovalPhase(r, hasDesign, hasArchitecture)
                \in {"ux-ui-designer", "technical-architecture", "spec-approval"}
           /\ AfterQA(r) \in {"final-customer", "final-approval"}
           /\ AfterReview(r) \in {"qa-engineer", "final-customer", "final-approval"}
           /\ AfterBuilder(r) \in ValidationPhase \cup {"final-approval"}
           /\ AfterApproval(r) \in {"builder", "qa-engineer", "final-customer", "final-approval"}
BY DEF PreApprovalPhase, AfterQA, AfterReview, AfterBuilder, AfterApproval, ValidationPhase

(* No phase's own status is that of a task delivered or stopped.            *)
WorkStatus == {"active", "review", "qa", "customer_validation",
               "awaiting_final_approval", "refining"}
LEMMA PhaseStatus ==
    ASSUME NEW p
    PROVE  StatusForPhase(p) \in WorkStatus
BY DEF StatusForPhase, WorkStatus

-----------------------------------------------------------------------------
(* Types.                                                                   *)

PositionOK == /\ status \in Status /\ phase \in Phase
              /\ resume \in [status : Status, phase : Phase] \cup {NoResume}
PlanOK == /\ route \in Routes /\ waived \subseteq Gate
          /\ designed \in BOOLEAN /\ architected \in BOOLEAN
SealOK == /\ approval \in {"pending", "approved", "changes_requested", "rejected"}
          /\ sealed \in Nat \cup {None} /\ effective \in Nat \cup {None}
ContentOK == spec \in Nat /\ pending \in Nat /\ amended \in Nat
WorkOK == /\ rev \in RevisionType /\ gen \in Nat
          /\ evidence \in [Kind -> Nat \cup {None}]
OutcomeOK == /\ final \in {"pending", "approved", "changes_requested", "not_applicable", "overridden"}
             /\ accepted \in [gen : Nat \cup {None}, spec : Nat \cup {None}]
CountsOK == openq \in Nat /\ attempts \in Nat /\ interruptions \in Nat

(* The type invariant is the conjunction of the parts by group of           *)
(* variables.                                                               *)
LEMMA TypeParts ==
    /\ TypeOK <=> /\ PositionOK /\ PlanOK /\ SealOK /\ ContentOK
                  /\ WorkOK /\ OutcomeOK /\ CountsOK
    /\ TypeOK' <=> /\ PositionOK' /\ PlanOK' /\ SealOK' /\ ContentOK'
                   /\ WorkOK' /\ OutcomeOK' /\ CountsOK'
BY DEF TypeOK, PositionOK, PlanOK, SealOK, ContentOK, WorkOK, OutcomeOK, CountsOK

(* What is left alone keeps its type.                                       *)
LEMMA Unchanged ==
    /\ PositionOK /\ UNCHANGED position => PositionOK'
    /\ PlanOK /\ UNCHANGED plan => PlanOK'
    /\ SealOK /\ UNCHANGED seal => SealOK'
    /\ ContentOK /\ UNCHANGED content => ContentOK'
    /\ WorkOK /\ UNCHANGED work => WorkOK'
    /\ OutcomeOK /\ UNCHANGED outcome => OutcomeOK'
    /\ CountsOK /\ UNCHANGED counts => CountsOK'
BY DEF PositionOK, PlanOK, SealOK, ContentOK, WorkOK, OutcomeOK, CountsOK,
       position, plan, seal, content, work, outcome, counts

(* A move to a status and a phase keeps the position typed.                 *)
LEMMA Moves ==
    ASSUME PositionOK, NEW s \in Status, NEW p \in Phase, MoveTo(s, p)
    PROVE  PositionOK'
BY DEF PositionOK, MoveTo

(* So does entering a phase, with the status that belongs to it.            *)
LEMMA Enters ==
    ASSUME PositionOK, NEW p \in Phase, Enter(p)
    PROVE  PositionOK'
<1>1. StatusForPhase(p) \in Status
  BY PhaseStatus DEF WorkStatus, Status, GateStatus
<1> QED
  BY <1>1, Moves DEF Enter

(* Where a task may enter.                                                  *)
LEMMA ValidPhases ==
    /\ ValidationPhase \cup {"builder", "final-approval", "spec-approval"} \subseteq Phase
    /\ SpecPhase \subseteq Phase /\ ReturnTarget \subseteq Phase
BY DEF ValidationPhase, Phase, SpecPhase, ExecutionPhase, ReturnTarget

(* So does waiting at the specification gate.                               *)
LEMMA AwaitsSpec ==
    ASSUME PositionOK, AwaitSpec
    PROVE  PositionOK'
BY Moves DEF AwaitSpec, Status, GateStatus, Phase

(* A stop with a resume point keeps the position typed.                     *)
LEMMA Stops ==
    ASSUME PositionOK, NEW from \in [status : Status, phase : Phase], Stop(from),
           phase' = phase
    PROVE  PositionOK'
BY DEF PositionOK, Stop, Status

(* Sealing the specification keeps its approval and hashes typed.           *)
LEMMA Seals ==
    ASSUME SealOK, ContentOK, Seal
    PROVE  SealOK'
BY DEF SealOK, ContentOK, Seal

(* So does withdrawing the approval.                                        *)
LEMMA Unseals ==
    ASSUME NEW verdict \in {"pending", "changes_requested", "rejected"}, Unseal(verdict)
    PROVE  SealOK'
BY DEF SealOK, Unseal

(* What is derived from signals is a set of signals.                        *)
LEMMA Signals ==
    ASSUME NEW declared \in SUBSET Signal, NEW files \in SUBSET Signal
    PROVE  DeriveSignals(declared, files) \in SUBSET Signal
BY DEF DeriveSignals, Signal

(* Each operation on the active revision makes a revision.                  *)
LEMMA ImplementedType ==
    ASSUME WorkOK, NEW changed \in FileSignals
    PROVE  Implemented(changed) \in RevisionType
<1> DEFINE delta == rev.delta \cup changed
           files == IF delta = {} THEN rev.files ELSE delta
<1>1. rev \in RevisionType /\ gen \in Nat /\ changed \in SUBSET Signal
  BY WorkflowAssumption DEF WorkOK
<1>2. delta \in SUBSET Signal /\ files \in SUBSET Signal /\ rev.declared \in SUBSET Signal
  BY <1>1 DEF RevisionType
<1>3. DeriveSignals(rev.declared, files) \in SUBSET Signal
  <2> HIDE DEF files
  <2> QED
    BY <1>2, Signals
<1>4. Implemented(changed)
        = [rev EXCEPT !.status = "implemented", !.gen = gen + 1, !.delta = delta,
                      !.signals = DeriveSignals(rev.declared, files)]
  BY DEF Implemented
<1> HIDE DEF delta, files
<1>5. ASSUME NEW r \in RevisionType, NEW g \in Nat,
             NEW d \in SUBSET Signal, NEW signals \in SUBSET Signal
      PROVE  [r EXCEPT !.status = "implemented", !.gen = g, !.delta = d,
                       !.signals = signals] \in RevisionType
  BY DEF RevisionType
<1> QED
  <2>1. gen + 1 \in Nat
    BY <1>1
  <2>2. [rev EXCEPT !.status = "implemented", !.gen = gen + 1, !.delta = delta,
                    !.signals = DeriveSignals(rev.declared, files)] \in RevisionType
    BY <1>1, <1>2, <1>3, <1>5, <2>1, Zenon
  <2> QED
    BY <1>4, <2>2

(* A new revision is a revision.                                            *)
LEMMA RevisionOfType ==
    ASSUME SealOK, NEW declared \in Declarable, NEW files \in FileSignals
    PROVE  RevisionOf(declared, files) \in RevisionType
<1>1. declared \in SUBSET Signal /\ files \in SUBSET Signal
  BY WorkflowAssumption
<1>2. DeriveSignals(declared, files) \in SUBSET Signal
  BY <1>1, Signals
<1> QED
  BY <1>1, <1>2 DEF RevisionOf, RevisionType, SealOK

(* A revision with another status is a revision.                            *)
LEMMA RestatusedType ==
    ASSUME WorkOK,
           NEW s \in {"validated", "accepted", "superseded", "cancelled"}
    PROVE  [rev EXCEPT !.status = s] \in RevisionType
BY DEF WorkOK, RevisionType

(* The initial values are of their types.                                   *)
LEMMA InitTyped == Init => TypeOK
<1> SUFFICES ASSUME Init PROVE TypeOK
  OBVIOUS
<1>1. PositionOK /\ PlanOK /\ SealOK /\ ContentOK
  BY WorkflowAssumption
     DEF Init, PositionOK, PlanOK, SealOK, ContentOK, Status, GateStatus, Phase, SpecPhase,
         NoResume, None
<1>2. rev \in RevisionType
  BY DEF Init, NoRevision, RevisionType, None
<1>3. WorkOK
  BY <1>2 DEF Init, WorkOK, None
<1>4. OutcomeOK /\ CountsOK
  BY DEF Init, OutcomeOK, CountsOK, NotAccepted, None
<1> QED
  BY <1>1, <1>3, <1>4, TypeParts

(* One lemma per group of actions, one step per action.                     *)
LEMMA SpecificationTyped == TypeOK /\ SpecificationStep => TypeOK'
<1> SUFFICES ASSUME TypeOK, SpecificationStep PROVE TypeOK'
  OBVIOUS
<1>0. PositionOK /\ PlanOK /\ SealOK /\ ContentOK /\ WorkOK /\ OutcomeOK /\ CountsOK
  BY TypeParts
<1>1. CASE EditSpecification
  <2>1. ContentOK'
    BY <1>0, <1>1, WorkflowAssumption DEF EditSpecification, ContentOK
  <2> QED
    BY <1>0, <1>1, <2>1, TypeParts, Unchanged DEF EditSpecification
<1>2. CASE StartRefinement
  <2>1. PositionOK'
    BY <1>0, <1>2, Moves DEF StartRefinement, Status, Phase, SpecPhase
  <2>2. SealOK'
    BY <1>2, Unseals DEF StartRefinement
  <2> QED
    BY <1>0, <1>2, <2>1, <2>2, TypeParts, Unchanged DEF StartRefinement
<1>3. CASE CompleteSpecification
  <2>1. PlanOK'
    BY <1>0, <1>3 DEF CompleteSpecification, PlanOK
  <2>2. ContentOK' /\ WorkOK' /\ OutcomeOK' /\ CountsOK'
    BY <1>0, <1>3, Unchanged DEF CompleteSpecification
  <2>3. CASE route'.fast
    <3> DEFINE next == AfterApproval(route')
               s == IF next = "builder" THEN "ready" ELSE StatusForPhase(next)
    <3>1. next \in Phase
      BY RouteLeadsOn DEF Phase, ExecutionPhase
    <3>2. s \in Status
      BY PhaseStatus DEF WorkStatus, Status, GateStatus
    <3>3. Seal /\ MoveTo(s, next)
      BY <1>3, <2>3 DEF CompleteSpecification
    <3> HIDE DEF next, s
    <3> QED
      BY <1>0, <2>1, <2>2, <3>1, <3>2, <3>3, Moves, Seals, TypeParts
  <2>4. CASE ~route'.fast
    <3> DEFINE next == PreApprovalPhase(route', designed, architected)
    <3>1. next \in Phase
      BY RouteLeadsOn DEF Phase, SpecPhase
    <3>2. /\ UNCHANGED seal
          /\ IF next = "spec-approval" THEN AwaitSpec ELSE MoveTo("refining", next)
      BY <1>3, <2>4 DEF CompleteSpecification
    <3>3. "refining" \in Status
      BY DEF Status
    <3> HIDE DEF next
    <3>4. PositionOK'
      BY <1>0, <3>1, <3>2, <3>3, Moves, AwaitsSpec
    <3> QED
      BY <1>0, <2>1, <2>2, <3>2, <3>4, TypeParts, Unchanged
  <2> QED
    BY <2>3, <2>4
<1>4. CASE CompleteDesign
  <2> DEFINE next == PreApprovalPhase(route, TRUE, architected)
  <2>1. next \in Phase
    BY RouteLeadsOn DEF Phase, SpecPhase
  <2>2. IF next = "spec-approval" THEN AwaitSpec ELSE MoveTo(status, next)
    BY <1>4 DEF CompleteDesign
  <2>3. status \in Status
    BY <1>0 DEF PositionOK
  <2> HIDE DEF next
  <2>4. PositionOK'
    BY <1>0, <2>1, <2>2, <2>3, Moves, AwaitsSpec
  <2>5. PlanOK'
    BY <1>0, <1>4 DEF CompleteDesign, PlanOK
  <2> QED
    BY <1>0, <1>4, <2>4, <2>5, TypeParts, Unchanged DEF CompleteDesign
<1>5. CASE CompleteArchitecture
  <2>1. PlanOK'
    BY <1>0, <1>5 DEF CompleteArchitecture, PlanOK
  <2> QED
    BY <1>0, <1>5, <2>1, AwaitsSpec, TypeParts, Unchanged DEF CompleteArchitecture
<1>6. CASE ApproveSpecification
  <2>1. AfterApproval(route) \in Phase
    BY RouteLeadsOn DEF Phase, ExecutionPhase
  <2>2. PositionOK'
    BY <1>0, <1>6, <2>1, Moves DEF ApproveSpecification, Status
  <2> QED
    BY <1>0, <1>6, <2>2, Seals, TypeParts, Unchanged DEF ApproveSpecification
<1>7. CASE RequestSpecChanges
  <2>1. PositionOK'
    BY <1>0, <1>7, Moves DEF RequestSpecChanges, Status, Phase, SpecPhase
  <2>2. SealOK'
    BY <1>7, Unseals DEF RequestSpecChanges
  <2> QED
    BY <1>0, <1>7, <2>1, <2>2, TypeParts, Unchanged DEF RequestSpecChanges
<1>8. CASE RejectTask
  <2>1. PositionOK'
    BY <1>0, <1>8, Moves DEF RejectTask, Status, Phase
  <2>2. SealOK' /\ OutcomeOK'
    BY <1>0, <1>8 DEF RejectTask, SealOK, OutcomeOK
  <2> QED
    BY <1>0, <1>8, <2>1, <2>2, TypeParts, Unchanged DEF RejectTask
<1>9. CASE InvalidateChangedApproval
  <2>1. SealOK'
    BY <1>9, Unseals DEF InvalidateChangedApproval
  <2> QED
    BY <1>0, <1>9, <2>1, AwaitsSpec, TypeParts, Unchanged DEF InvalidateChangedApproval
<1> QED
  BY <1>1, <1>2, <1>3, <1>4, <1>5, <1>6, <1>7, <1>8, <1>9 DEF SpecificationStep

(* The steps of the execution keep the types.                               *)
LEMMA ExecutionTyped == TypeOK /\ ExecutionStep => TypeOK'
<1> SUFFICES ASSUME TypeOK, ExecutionStep PROVE TypeOK'
  OBVIOUS
<1>0. PositionOK /\ PlanOK /\ SealOK /\ ContentOK /\ WorkOK /\ OutcomeOK /\ CountsOK
  BY TypeParts
<1>1. CASE StartExecution
  <2>1. PositionOK'
    BY <1>0, <1>1, Enters DEF StartExecution, Enter, PositionOK
  <2> QED
    BY <1>0, <1>1, <2>1, TypeParts, Unchanged DEF StartExecution
<1>2. CASE CompleteBuild
  <2>1. PlanOK' /\ SealOK' /\ ContentOK' /\ OutcomeOK' /\ CountsOK'
    BY <1>0, <1>2, Unchanged DEF CompleteBuild
  <2>2. gen' \in Nat /\ evidence' = evidence
    BY <1>0, <1>2 DEF CompleteBuild, WorkOK
  <2>3. CASE Enter(AfterBuilder(route)) /\ UNCHANGED rev
    <3>1. AfterBuilder(route) \in Phase
      BY RouteLeadsOn, ValidPhases
    <3> QED
      BY <1>0, <2>1, <2>2, <2>3, <3>1, Enters, TypeParts DEF WorkOK
  <2>4. ASSUME NEW changed \in FileSignals,
               rev' = Implemented(changed),
               Enter(FirstValidationPhase(RequiredPhases(rev'.signals)))
        PROVE  TypeOK'
    <3>1. rev' \in RevisionType
      BY <1>0, <2>4, ImplementedType
    <3>3. PositionOK'
      BY <1>0, <2>4, FirstIsValidation, ValidPhases, Enters
    <3> QED
      BY <1>0, <2>1, <2>2, <3>1, <3>3, TypeParts DEF WorkOK
  <2> QED
    BY <1>2, <2>3, <2>4 DEF CompleteBuild
<1>3. CASE CompleteReview
  <2> DEFINE next == IF RevisionActive
                     THEN NextValidationPhase(RevisionPhases, "technical-reviewer")
                     ELSE AfterReview(route)
  <2>1. next \in Phase
    BY NextIsValidation, RouteLeadsOn, ValidPhases DEF RevisionPhases, ValidationPhase
  <2>2. Enter(next)
    BY <1>3 DEF CompleteReview
  <2> HIDE DEF next
  <2> QED
    BY <1>0, <1>3, <2>1, <2>2, Enters, TypeParts, Unchanged DEF CompleteReview
<1>4. CASE CompleteQA
  <2>1. rev' \in RevisionType
    BY <1>0, <1>4, RestatusedType DEF CompleteQA, WorkOK
  <2>2. WorkOK'
    BY <1>0, <1>4, <2>1 DEF CompleteQA, WorkOK
  <2>3. PositionOK'
    <3>1. AfterQA(route) \in Phase
      BY RouteLeadsOn, ValidPhases DEF ValidationPhase
    <3>2. NextValidationPhase(RevisionPhases, "qa-engineer") \in Phase
      BY NextIsValidation, ValidPhases DEF RevisionPhases
    <3> QED
      BY <1>0, <1>4, <3>1, <3>2, Enters DEF CompleteQA
  <2> QED
    BY <1>0, <1>4, <2>2, <2>3, TypeParts, Unchanged DEF CompleteQA
<1>5. CASE CompleteAudience
  <2>1. PositionOK'
    BY <1>0, <1>5, Enters, ValidPhases DEF CompleteAudience
  <2> QED
    BY <1>0, <1>5, <2>1, TypeParts, Unchanged DEF CompleteAudience
<1>6. ASSUME NEW k \in Producible, AddEvidence(k) PROVE TypeOK'
  <2>1. WorkOK'
    BY <1>0, <1>6 DEF AddEvidence, WorkOK
  <2> QED
    BY <1>0, <1>6, <2>1, TypeParts, Unchanged DEF AddEvidence
<1> QED
  BY <1>1, <1>2, <1>3, <1>4, <1>5, <1>6 DEF ExecutionStep

(* A return or a counted repair: the task enters the phase or stops.        *)
LEMMA CountsAttempt ==
    ASSUME CountsOK, CountAttempt, UNCHANGED <<openq, interruptions>>
    PROVE  CountsOK'
BY WorkflowAssumption DEF CountsOK, CountAttempt

(* A stop at the repair limit keeps the position typed.                     *)
LEMMA StopsExhausted ==
    ASSUME PositionOK, NEW to \in ReturnTarget, StopExhausted(to)
    PROVE  PositionOK'
<1>1. [status |-> StatusForPhase(to), phase |-> to] \in [status : Status, phase : Phase]
  BY PhaseStatus, ValidPhases DEF WorkStatus, Status, GateStatus
<1> QED
  BY <1>1, Stops DEF StopExhausted

(* A return keeps the types, at the repair limit and below it.              *)
LEMMA ReturnTyped ==
    ASSUME TypeOK, NEW to \in ReturnTarget, ReturnTo(to)
    PROVE  TypeOK'
<1>0. PositionOK /\ PlanOK /\ SealOK /\ ContentOK /\ WorkOK /\ OutcomeOK /\ CountsOK
  BY TypeParts
<1>1. ContentOK' /\ WorkOK' /\ OutcomeOK' /\ CountsOK'
  BY <1>0, CountsAttempt, Unchanged DEF ReturnTo
<1>2. CASE StopExhausted(to)
  BY <1>0, <1>1, <1>2, StopsExhausted, TypeParts, Unchanged DEF StopExhausted
<1>3. CASE ~ StopExhausted(to)
  <2>1. PositionOK'
    BY <1>0, <1>3, Enters, ValidPhases DEF ReturnTo
  <2>2. SealOK' /\ PlanOK'
    <3>1. CASE to \in SpecPhase
      BY <1>0, <1>3, <3>1, Unseals DEF ReturnTo, PlanOK
    <3>2. CASE to \notin SpecPhase
      BY <1>0, <1>3, <3>2, Unchanged DEF ReturnTo
    <3> QED
      BY <3>1, <3>2
  <2> QED
    BY <1>1, <2>1, <2>2, TypeParts
<1> QED
  BY <1>2, <1>3

(* Stops, questions, returns and resumptions keep the types.                *)
LEMMA StopTyped == TypeOK /\ StopStep => TypeOK'
<1> SUFFICES ASSUME TypeOK, StopStep PROVE TypeOK'
  OBVIOUS
<1>0. PositionOK /\ PlanOK /\ SealOK /\ ContentOK /\ WorkOK /\ OutcomeOK /\ CountsOK
  BY TypeParts
<1>here. [status |-> status, phase |-> phase] \in [status : Status, phase : Phase]
  BY <1>0 DEF PositionOK
<1>1. CASE BlockTask
  <2>1. PositionOK'
    BY <1>0, <1>here, <1>1, Stops DEF BlockTask
  <2> QED
    BY <1>0, <1>1, <2>1, TypeParts, Unchanged DEF BlockTask
<1>2. CASE ResumeTask
  <2>1. PositionOK'
    <3>1. CASE resume = NoResume
      BY <1>0, <1>2, <3>1 DEF ResumeTask, PositionOK, Status, Phase, SpecPhase
    <3>2. CASE resume # NoResume
      BY <1>0, <1>2, <3>2 DEF ResumeTask, PositionOK
    <3> QED
      BY <3>1, <3>2
  <2> QED
    BY <1>0, <1>2, <2>1, TypeParts, Unchanged DEF ResumeTask
<1>3. CASE AddQuestion
  <2>1. PositionOK'
    <3>1. CASE status \in {"draft", "refining", "awaiting_spec_approval"}
      BY <1>0, <1>3, <3>1 DEF AddQuestion, PositionOK
    <3>2. CASE status \notin {"draft", "refining", "awaiting_spec_approval"}
      BY <1>0, <1>here, <1>3, <3>2, Stops DEF AddQuestion
    <3> QED
      BY <3>1, <3>2
  <2>2. CountsOK'
    BY <1>0, <1>3 DEF AddQuestion, CountsOK
  <2> QED
    BY <1>0, <1>3, <2>1, <2>2, TypeParts, Unchanged DEF AddQuestion
<1>4. CASE AnswerQuestion
  <2>1. PositionOK'
    BY <1>0, <1>4 DEF AnswerQuestion, PositionOK, position
  <2>2. CountsOK'
    BY <1>0, <1>4 DEF AnswerQuestion, CountsOK
  <2> QED
    BY <1>0, <1>4, <2>1, <2>2, TypeParts, Unchanged DEF AnswerQuestion
<1>5. CASE ResetRepairBudget
  <2>1. CountsOK'
    BY <1>0, <1>5 DEF ResetRepairBudget, CountsOK
  <2> QED
    BY <1>0, <1>5, <2>1, TypeParts, Unchanged DEF ResetRepairBudget
<1>6. ASSUME NEW to \in ReturnTarget, ReturnTask(to) \/ ResolveFinalProductOwnerDecision(to)
      PROVE  TypeOK'
  BY <1>6, ReturnTyped DEF ReturnTask, ResolveFinalProductOwnerDecision
<1> QED
  BY <1>1, <1>2, <1>3, <1>4, <1>5, <1>6 DEF StopStep

(* The final gate, the delivery and the overrides keep the types.           *)
LEMMA FinalTyped == TypeOK /\ FinalStep => TypeOK'
<1> SUFFICES ASSUME TypeOK, FinalStep PROVE TypeOK'
  OBVIOUS
<1>0. PositionOK /\ PlanOK /\ SealOK /\ ContentOK /\ WorkOK /\ OutcomeOK /\ CountsOK
  BY TypeParts
<1>1. CASE ApproveFinal
  <2>1. PositionOK'
    BY <1>0, <1>1, Moves DEF ApproveFinal, Status, GateStatus, Phase
  <2>2. rev' \in RevisionType
    BY <1>0, <1>1, RestatusedType DEF ApproveFinal, AcceptRevision, WorkOK
  <2>3. WorkOK'
    BY <1>0, <1>1, <2>2 DEF ApproveFinal, WorkOK
  <2>4. OutcomeOK'
    BY <1>0, <1>1 DEF ApproveFinal, OutcomeOK, WorkOK, ContentOK
  <2> QED
    BY <1>0, <1>1, <2>1, <2>3, <2>4, TypeParts, Unchanged DEF ApproveFinal
<1>2. CASE CompleteDelivery
  <2>1. PositionOK'
    BY <1>0, <1>2, Moves DEF CompleteDelivery, Status, Phase
  <2> QED
    BY <1>0, <1>2, <2>1, TypeParts, Unchanged DEF CompleteDelivery
<1>3. CASE CloseTaskByUserOverride
  <2>1. PositionOK'
    BY <1>0, <1>3, Moves DEF CloseTaskByUserOverride, Status, Phase
  <2>2. rev' \in RevisionType
    BY <1>0, <1>3, RestatusedType DEF CloseTaskByUserOverride, CancelRevision, WorkOK
  <2>3. WorkOK' /\ OutcomeOK'
    BY <1>0, <1>3, <2>2 DEF CloseTaskByUserOverride, WorkOK, OutcomeOK
  <2> QED
    BY <1>0, <1>3, <2>1, <2>3, TypeParts, Unchanged DEF CloseTaskByUserOverride
<1>4. ASSUME NEW to \in ReturnTarget, RejectFinal(to) PROVE TypeOK'
  <2>1. PositionOK'
    BY <1>0, <1>4, StopsExhausted, Enters, ValidPhases DEF RejectFinal
  <2>2. CountsOK' /\ OutcomeOK'
    BY <1>0, <1>4, CountsAttempt DEF RejectFinal, OutcomeOK
  <2>3. UNCHANGED <<seal, plan>>
    BY <1>4 DEF RejectFinal, StopExhausted
  <2> QED
    BY <1>0, <1>4, <2>1, <2>2, <2>3, TypeParts, Unchanged DEF RejectFinal
<1>5. ASSUME NEW declared \in Declarable, NEW files \in FileSignals,
             StartIncrementalRevision(declared, files)
      PROVE  TypeOK'
  <2>1. PositionOK'
    BY <1>0, <1>5, Moves, ValidPhases DEF StartIncrementalRevision, Status
  <2>2. WorkOK'
    BY <1>0, <1>5, RevisionOfType DEF StartIncrementalRevision, WorkOK
  <2>3. OutcomeOK'
    BY <1>0, <1>5 DEF StartIncrementalRevision, OutcomeOK
  <2> QED
    BY <1>0, <1>5, <2>1, <2>2, <2>3, TypeParts, Unchanged DEF StartIncrementalRevision
<1>6. ASSUME NEW g \in Gate, WaiveWorkflowStep(g) PROVE TypeOK'
  <2>1. AfterWaived(g) \in Phase
    BY RouteLeadsOn, ValidPhases DEF AfterWaived, Phase, SpecPhase, ExecutionPhase
  <2>2. PositionOK' /\ PlanOK'
    <3>1. CASE UNCHANGED <<position, designed, architected>>
      BY <1>0, <1>6, <3>1, Unchanged DEF WaiveWorkflowStep, PlanOK
    <3>2. CASE MoveTo("done", "done") /\ UNCHANGED <<designed, architected>>
      BY <1>0, <1>6, <3>2, Moves DEF WaiveWorkflowStep, PlanOK, Status, Phase
    <3>3. CASE /\ designed' = (designed \/ g = "design")
               /\ architected' = (architected \/ g = "technical-architecture")
               /\ IF AfterWaived(g) = "spec-approval" THEN AwaitSpec ELSE Enter(AfterWaived(g))
      <4>1. PositionOK'
        BY <1>0, <2>1, <3>3, AwaitsSpec, Enters
      <4>2. PlanOK'
        BY <1>0, <1>6, <3>3 DEF WaiveWorkflowStep, PlanOK
      <4> QED
        BY <4>1, <4>2
    <3> QED
      BY <1>6, <3>1, <3>2, <3>3 DEF WaiveWorkflowStep
  <2> QED
    BY <1>0, <1>6, <2>2, TypeParts, Unchanged DEF WaiveWorkflowStep
<1> QED
  BY <1>1, <1>2, <1>3, <1>4, <1>5, <1>6 DEF FinalStep

(* Amendments keep the types.                                               *)
LEMMA AmendmentTyped == TypeOK /\ AmendmentStep => TypeOK'
<1> SUFFICES ASSUME TypeOK, AmendmentStep PROVE TypeOK'
  OBVIOUS
<1>0. PositionOK /\ PlanOK /\ SealOK /\ ContentOK /\ WorkOK /\ OutcomeOK /\ CountsOK
  BY TypeParts
<1>1. CASE ProposeAmendment
  <2>1. ContentOK'
    BY <1>0, <1>1 DEF ProposeAmendment, ContentOK
  <2> QED
    BY <1>0, <1>1, <2>1, TypeParts, Unchanged DEF ProposeAmendment
<1>2. CASE ApproveAmendment
  <2>1. ContentOK' /\ SealOK'
    BY <1>0, <1>2 DEF ApproveAmendment, ContentOK, SealOK
  <2> QED
    BY <1>0, <1>2, <2>1, TypeParts, Unchanged DEF ApproveAmendment
<1>3. CASE RejectAmendment
  <2>1. ContentOK'
    BY <1>0, <1>3 DEF RejectAmendment, ContentOK
  <2> QED
    BY <1>0, <1>3, <2>1, TypeParts, Unchanged DEF RejectAmendment
<1> QED
  BY <1>1, <1>2, <1>3 DEF AmendmentStep

(* Interrupted commands keep the types.                                     *)
LEMMA InterruptedTyped == TypeOK /\ InterruptedStep => TypeOK'
<1> SUFFICES ASSUME TypeOK, InterruptedStep PROVE TypeOK'
  OBVIOUS
<1>0. PositionOK /\ PlanOK /\ SealOK /\ ContentOK /\ WorkOK /\ OutcomeOK /\ CountsOK
  BY TypeParts
<1>left. ASSUME Interrupted
         PROVE  /\ PositionOK' /\ PlanOK' /\ SealOK' /\ OutcomeOK' /\ spec' \in Nat
                /\ interruptions' \in Nat /\ openq' \in Nat
  BY <1>0, <1>left, Unchanged DEF Interrupted, CountsOK, ContentOK
<1>1. CASE InterruptedBuild
  <2>1. PICK changed \in FileSignals : rev' = Implemented(changed)
    BY <1>1 DEF InterruptedBuild
  <2>2. rev' \in RevisionType
    BY <1>0, <2>1, ImplementedType
  <2>3. WorkOK'
    BY <1>0, <1>1, <2>2, KindsAreKinds DEF InterruptedBuild, WorkOK
  <2> QED
    BY <1>0, <1>left, <1>1, <2>3, TypeParts DEF InterruptedBuild, ContentOK, CountsOK
<1>2. CASE InterruptedEnd
  <2>1. rev' \in RevisionType
    BY <1>0, <1>2, RestatusedType DEF InterruptedEnd, AcceptRevision, CancelRevision
  <2>2. WorkOK'
    BY <1>0, <1>2, <2>1 DEF InterruptedEnd, WorkOK
  <2> QED
    BY <1>0, <1>left, <1>2, <2>2, TypeParts DEF InterruptedEnd, ContentOK, CountsOK
<1>3. CASE InterruptedDecision
  BY <1>0, <1>left, <1>3, TypeParts, Unchanged DEF InterruptedDecision, ContentOK, CountsOK
<1>4. CASE InterruptedReturn
  <2>1. attempts' \in Nat
    BY <1>0, <1>4, WorkflowAssumption DEF InterruptedReturn, CountAttempt, CountsOK
  <2> QED
    BY <1>0, <1>left, <1>4, <2>1, TypeParts, Unchanged DEF InterruptedReturn, ContentOK, CountsOK
<1>5. ASSUME NEW declared \in Declarable, NEW files \in FileSignals,
             InterruptedRevision(declared, files)
      PROVE  TypeOK'
  <2>1. rev' \in RevisionType
    BY <1>0, <1>5, RestatusedType, RevisionOfType DEF InterruptedRevision
  <2>2. WorkOK'
    BY <1>0, <1>5, <2>1 DEF InterruptedRevision, WorkOK
  <2> QED
    BY <1>0, <1>left, <1>5, <2>2, TypeParts DEF InterruptedRevision, ContentOK, CountsOK
<1> QED
  BY <1>1, <1>2, <1>3, <1>4, <1>5 DEF InterruptedStep

(* Every step keeps the types.                                              *)
LEMMA StepTyped == TypeOK /\ [Next]_vars => TypeOK'
<1>1. TypeOK /\ UNCHANGED vars => TypeOK'
  BY TypeParts, Unchanged DEF vars
<1> QED
  BY <1>1, SpecificationTyped, ExecutionTyped, StopTyped, FinalTyped, AmendmentTyped,
     InterruptedTyped DEF Next

(* The variables keep their types: among others, a task that resumes where  *)
(* nothing was recorded is refined, and never in a place that is none.      *)
THEOREM WorkflowTyping == Spec => []TypeOK
BY InitTyped, StepTyped, PTL DEF Spec

-----------------------------------------------------------------------------
(* The end of a task.  The properties of what is delivered say nothing of a *)
(* stopped task, but a stop may record the delivery or the end as the place *)
(* to resume: for as long as the task is blocked, what the delivery rests   *)
(* on must stand.                                                           *)

AtEnd(s, p) == s = "awaiting_delivery" \/ p = "delivery" \/ (s = "done" /\ final # "overridden")

Arrived == \/ AtEnd(status, phase)
           \/ status = "blocked" /\ AtEnd(resume.status, resume.phase)

(* What a delivery rests on is only added to; no revision is opened unless  *)
(* a command is interrupted.                                                *)
Kept ==
    /\ gen' = gen /\ sealed' = sealed /\ accepted' = accepted
    /\ route' = route /\ waived \subseteq waived'
    /\ \A k \in Kind : evidence[k] # None => evidence'[k] # None
    /\ InterruptedStep \/ (RevisionActive' => RevisionActive)

LEMMA EndDelivered == Delivered => Arrived
BY DEF Delivered, Arrived, AtEnd

(* A new task is delivered nowhere.                                         *)
LEMMA InitNotArrived == Init => ~Arrived
BY DEF Init, Arrived, AtEnd

(* The steps that lead to work: into a phase that is not the delivery, with *)
(* a status that is neither an end nor a stop.                              *)
LEMMA AtWork ==
    ASSUME status' \notin {"awaiting_delivery", "done", "blocked"}, phase' # "delivery"
    PROVE  ~Arrived'
BY DEF Arrived, AtEnd

(* Entering a phase of work is such a step.                                 *)
LEMMA EntersWork ==
    ASSUME NEW p, p # "delivery", Enter(p)
    PROVE  ~Arrived'
<1>1. status' \in WorkStatus /\ phase' # "delivery"
  BY PhaseStatus DEF Enter, MoveTo
<1> QED
  BY <1>1, AtWork DEF WorkStatus

(* So is waiting at the specification gate.                                 *)
LEMMA AwaitsWork ==
    ASSUME AwaitSpec
    PROVE  ~Arrived'
BY AtWork DEF AwaitSpec, MoveTo

(* A stop at the repair limit resumes in a phase of work.                   *)
LEMMA StopsForWork ==
    ASSUME NEW to \in ReturnTarget, StopExhausted(to), Arrived'
    PROVE  Arrived
<1>1. /\ status' = "blocked" /\ phase' = phase
      /\ resume' = [status |-> StatusForPhase(to), phase |-> to]
  BY DEF StopExhausted, Stop
<1>2. StatusForPhase(to) \notin {"awaiting_delivery", "done"} /\ to # "delivery"
  BY PhaseStatus DEF WorkStatus, ReturnTarget, SpecPhase, ExecutionPhase
<1>3. ~ AtEnd(resume.status, resume.phase)'
  BY <1>1, <1>2 DEF AtEnd
<1>4. AtEnd(status, phase)' => AtEnd(status, phase)
  BY <1>1 DEF AtEnd
<1> QED
  BY <1>3, <1>4 DEF Arrived

(* Steps that leave the task where it is.                                   *)
LEMMA StaysPut ==
    ASSUME UNCHANGED <<position, final>>, Arrived'
    PROVE  Arrived
BY DEF Arrived, AtEnd, position

(* Steps that leave alone what a delivery rests on.                         *)
LEMMA LeftAlone ==
    ASSUME UNCHANGED <<gen, sealed, accepted, route, waived, evidence, rev>>
    PROVE  Kept
BY DEF Kept, RevisionActive

(* One lemma per group of actions: which of them lead to the end, and what  *)
(* they leave of what it rests on.                                          *)
LEMMA SpecificationEnds ==
    ASSUME SpecificationStep, Arrived'
    PROVE  Arrived /\ Kept
<1>1. CASE EditSpecification
  BY <1>1, StaysPut, LeftAlone DEF EditSpecification, plan, seal, work, outcome
<1>2. CASE StartRefinement
  BY <1>2, AtWork DEF StartRefinement, MoveTo
<1>3. CASE CompleteSpecification
  <2>1. CASE route'.fast
    <3> DEFINE next == AfterApproval(route')
               s == IF next = "builder" THEN "ready" ELSE StatusForPhase(next)
    <3>1. next # "delivery" /\ s \in WorkStatus \cup {"ready"}
      BY RouteLeadsOn, PhaseStatus
    <3>2. MoveTo(s, next)
      BY <1>3, <2>1 DEF CompleteSpecification
    <3> HIDE DEF next, s
    <3> QED
      BY <3>1, <3>2, AtWork DEF MoveTo, WorkStatus
  <2>2. CASE ~route'.fast
    <3> DEFINE next == PreApprovalPhase(route', designed, architected)
    <3>1. next # "delivery"
      BY RouteLeadsOn
    <3>2. IF next = "spec-approval" THEN AwaitSpec ELSE MoveTo("refining", next)
      BY <1>3, <2>2 DEF CompleteSpecification
    <3> HIDE DEF next
    <3> QED
      BY <3>1, <3>2, AtWork, AwaitsWork DEF MoveTo
  <2> QED
    BY <2>1, <2>2
<1>4. CASE CompleteDesign
  <2> DEFINE next == PreApprovalPhase(route, TRUE, architected)
  <2>1. next # "delivery"
    BY RouteLeadsOn
  <2>2. IF next = "spec-approval" THEN AwaitSpec ELSE MoveTo(status, next)
    BY <1>4 DEF CompleteDesign
  <2>3. UNCHANGED <<gen, sealed, accepted, final, route, waived, evidence, rev>>
    BY <1>4 DEF CompleteDesign, seal, work, outcome
  <2> HIDE DEF next
  <2> QED
    BY <2>1, <2>2, <2>3, AwaitsWork, LeftAlone DEF MoveTo, Arrived, AtEnd
<1>5. CASE CompleteArchitecture
  BY <1>5, AwaitsWork DEF CompleteArchitecture
<1>6. CASE ApproveSpecification
  <2>1. AfterApproval(route) # "delivery"
    BY RouteLeadsOn
  <2> QED
    BY <1>6, <2>1, AtWork DEF ApproveSpecification, MoveTo
<1>7. CASE RequestSpecChanges
  BY <1>7, AtWork DEF RequestSpecChanges, MoveTo
<1>8. CASE RejectTask
  BY <1>8, AtWork DEF RejectTask, MoveTo
<1>9. CASE InvalidateChangedApproval
  BY <1>9, AwaitsWork DEF InvalidateChangedApproval
<1> QED
  BY <1>1, <1>2, <1>3, <1>4, <1>5, <1>6, <1>7, <1>8, <1>9 DEF SpecificationStep

LEMMA ExecutionEnds ==
    ASSUME TypeOK, ExecutionStep, Arrived'
    PROVE  Arrived /\ Kept
<1>1. CASE StartExecution
  <2>1. UNCHANGED <<phase, gen, sealed, accepted, final, route, waived, evidence, rev>>
    BY <1>1 DEF StartExecution, MoveTo, plan, seal, work, outcome
  <2>2. status' \in WorkStatus
    BY <1>1, PhaseStatus DEF StartExecution, MoveTo
  <2> QED
    BY <2>1, <2>2, LeftAlone DEF Arrived, AtEnd, WorkStatus
<1>2. CASE CompleteBuild
  <2>1. AfterBuilder(route) # "delivery"
    BY RouteLeadsOn DEF ValidationPhase
  <2>2. FirstValidationPhase(RequiredPhases(rev'.signals)) # "delivery"
    BY FirstIsValidation DEF ValidationPhase
  <2> QED
    BY <1>2, <2>1, <2>2, EntersWork DEF CompleteBuild
<1>3. CASE CompleteReview
  <2>1. AfterReview(route) # "delivery"
    BY RouteLeadsOn
  <2>2. NextValidationPhase(RevisionPhases, "technical-reviewer") # "delivery"
    BY NextIsValidation DEF RevisionPhases, ValidationPhase
  <2> QED
    BY <1>3, <2>1, <2>2, EntersWork DEF CompleteReview
<1>4. CASE CompleteQA
  <2>1. AfterQA(route) # "delivery"
    BY RouteLeadsOn
  <2>2. NextValidationPhase(RevisionPhases, "qa-engineer") # "delivery"
    BY NextIsValidation DEF RevisionPhases, ValidationPhase
  <2> QED
    BY <1>4, <2>1, <2>2, EntersWork DEF CompleteQA
<1>5. CASE CompleteAudience
  BY <1>5, EntersWork DEF CompleteAudience
<1>6. ASSUME NEW k \in Producible, AddEvidence(k) PROVE Arrived /\ Kept
  <2>1. Arrived
    BY <1>6, StaysPut DEF AddEvidence, outcome
  <2>2. \A j \in Kind : evidence[j] # None => evidence'[j] # None
    BY <1>6, WorkflowAssumption DEF AddEvidence, TypeOK, None
  <2> QED
    BY <1>6, <2>1, <2>2 DEF AddEvidence, Kept, RevisionActive, plan, seal, outcome
<1> QED
  BY <1>1, <1>2, <1>3, <1>4, <1>5, <1>6 DEF ExecutionStep

LEMMA ReturnEnds ==
    ASSUME NEW to \in ReturnTarget, ReturnTo(to), Arrived'
    PROVE  Arrived /\ Kept
<1>1. CASE StopExhausted(to)
  <2>1. UNCHANGED <<gen, sealed, accepted, route, waived, evidence, rev>>
    BY <1>1 DEF ReturnTo, StopExhausted, plan, seal, work, outcome
  <2> QED
    BY <1>1, <2>1, StopsForWork, LeftAlone
<1>2. CASE ~ StopExhausted(to)
  <2>1. to # "delivery"
    BY DEF ReturnTarget, SpecPhase, ExecutionPhase
  <2> QED
    BY <1>2, <2>1, EntersWork DEF ReturnTo
<1> QED
  BY <1>1, <1>2

(* Stops record a resume point, and resumptions use it.                     *)
LEMMA StopEnds ==
    ASSUME StopStep, Arrived'
    PROVE  Arrived /\ Kept
<1>stop. ASSUME Stop([status |-> status, phase |-> phase]), phase' = phase, final' = final
         PROVE  Arrived
  BY <1>stop DEF Stop, Arrived, AtEnd
<1>back. ASSUME status = "blocked", status' = resume.status, phase' = resume.phase,
                resume' = NoResume, final' = final
         PROVE  Arrived
  BY <1>back DEF Arrived, AtEnd, NoResume
<1>1. CASE BlockTask
  BY <1>stop, <1>1, LeftAlone DEF BlockTask, plan, seal, work, outcome
<1>2. CASE ResumeTask
  <2>1. CASE resume = NoResume
    BY <1>2, <2>1, AtWork DEF ResumeTask
  <2>2. CASE resume # NoResume
    BY <1>back, <1>2, <2>2, LeftAlone DEF ResumeTask, plan, seal, work, outcome
  <2> QED
    BY <2>1, <2>2
<1>3. CASE AddQuestion
  <2>0. Kept
    BY <1>3, LeftAlone DEF AddQuestion, plan, seal, work, outcome
  <2>1. CASE status \in {"draft", "refining", "awaiting_spec_approval"}
    BY <1>3, <2>0, <2>1, StaysPut DEF AddQuestion, outcome, position
  <2>2. CASE status \notin {"draft", "refining", "awaiting_spec_approval"}
    BY <1>stop, <1>3, <2>0, <2>2 DEF AddQuestion, outcome
  <2> QED
    BY <2>1, <2>2
<1>4. CASE AnswerQuestion
  <2>0. Kept
    BY <1>4, LeftAlone DEF AnswerQuestion, plan, seal, work, outcome
  <2>1. CASE openq = 1 /\ status = "blocked" /\ resume # NoResume
    BY <1>back, <1>4, <2>0, <2>1 DEF AnswerQuestion, outcome
  <2>2. CASE ~ (openq = 1 /\ status = "blocked" /\ resume # NoResume)
    BY <1>4, <2>0, <2>2, StaysPut DEF AnswerQuestion, outcome
  <2> QED
    BY <2>1, <2>2
<1>5. CASE ResetRepairBudget
  BY <1>5, StaysPut, LeftAlone DEF ResetRepairBudget, plan, seal, work, outcome
<1>6. ASSUME NEW to \in ReturnTarget, ReturnTask(to) \/ ResolveFinalProductOwnerDecision(to)
      PROVE  Arrived /\ Kept
  BY <1>6, ReturnEnds DEF ReturnTask, ResolveFinalProductOwnerDecision
<1> QED
  BY <1>1, <1>2, <1>3, <1>4, <1>5, <1>6 DEF StopStep

LEMMA FinalEnds ==
    ASSUME FinalStep, Arrived', ~ApproveFinal
    PROVE  Arrived /\ Kept
<1>1. CASE CompleteDelivery
  <2>1. Kept
    BY <1>1, LeftAlone DEF CompleteDelivery, plan, seal, work, outcome
  <2> QED
    BY <1>1, <2>1 DEF CompleteDelivery, Arrived, AtEnd
<1>2. CASE CloseTaskByUserOverride
  BY <1>2 DEF CloseTaskByUserOverride, MoveTo, Arrived, AtEnd
<1>3. ASSUME NEW to \in ReturnTarget, RejectFinal(to) PROVE Arrived /\ Kept
  <2>1. to # "delivery"
    BY DEF ReturnTarget, SpecPhase, ExecutionPhase
  <2>2. UNCHANGED <<gen, sealed, accepted, route, waived, evidence, rev>>
    BY <1>3 DEF RejectFinal, StopExhausted, plan, seal, work
  <2> QED
    BY <1>3, <2>1, <2>2, StopsForWork, EntersWork, LeftAlone DEF RejectFinal
<1>4. ASSUME NEW declared \in Declarable, NEW files \in FileSignals,
             StartIncrementalRevision(declared, files)
      PROVE  Arrived /\ Kept
  BY <1>4, AtWork DEF StartIncrementalRevision, MoveTo
<1>5. ASSUME NEW g \in Gate, WaiveWorkflowStep(g) PROVE Arrived /\ Kept
  <2>0. Kept /\ final' = final
    BY <1>5 DEF WaiveWorkflowStep, seal, work, outcome, Kept, RevisionActive
  <2>1. CASE UNCHANGED position
    BY <2>0, <2>1, StaysPut
  <2>2. CASE WaivePasses(g) /\ g = "delivery" /\ MoveTo("done", "done")
    <3>1. phase = "delivery"
      BY <2>2 DEF WaivePasses, GatePhase
    <3> QED
      BY <2>0, <3>1 DEF Arrived, AtEnd
  <2>3. CASE IF AfterWaived(g) = "spec-approval" THEN AwaitSpec ELSE Enter(AfterWaived(g))
    <3>1. AfterWaived(g) # "delivery"
      BY RouteLeadsOn DEF AfterWaived
    <3> QED
      BY <2>3, <3>1, AwaitsWork, EntersWork
  <2> QED
    BY <1>5, <2>1, <2>2, <2>3 DEF WaiveWorkflowStep
<1> QED
  BY <1>1, <1>2, <1>3, <1>4, <1>5 DEF FinalStep

LEMMA OthersEnd ==
    ASSUME AmendmentStep \/ InterruptedStep \/ UNCHANGED vars, Arrived'
    PROVE  Arrived /\ Kept
<1>1. CASE AmendmentStep
  BY <1>1, StaysPut, LeftAlone
     DEF AmendmentStep, ProposeAmendment, ApproveAmendment, RejectAmendment, plan, seal, work,
         outcome
<1>2. CASE InterruptedStep
  <2>1. Interrupted
    BY <1>2 DEF InterruptedStep, InterruptedBuild, InterruptedEnd, InterruptedDecision,
                InterruptedReturn, InterruptedRevision
  <2>2. gen' = gen /\ evidence' = evidence
    BY <1>2 DEF InterruptedStep, InterruptedBuild, InterruptedEnd, InterruptedDecision,
                InterruptedReturn, InterruptedRevision, work
  <2> QED
    BY <1>2, <2>1, <2>2, StaysPut DEF Interrupted, Kept, plan, seal, outcome
<1>3. CASE UNCHANGED vars
  BY <1>3, StaysPut, LeftAlone DEF vars, plan, seal, work, outcome
<1> QED
  BY <1>1, <1>2, <1>3

(* Only the final gate leads to the end; a task that is there, or that may  *)
(* resume there, keeps all that its delivery rests on.                      *)
LEMMA EndStep ==
    ASSUME TypeOK, [Next]_vars, Arrived', ~ApproveFinal
    PROVE  Arrived /\ Kept
BY SpecificationEnds, ExecutionEnds, StopEnds, FinalEnds, OthersEnd DEF Next

(* What is delivered, or done without an override, is the generation and    *)
(* the specification accepted at the final gate, with any number of stops,  *)
(* questions, returns, revisions, waivers and interruptions.                *)
THEOREM AcceptanceSafety == Spec => []DeliveredIsAccepted
<1> DEFINE Match == accepted.gen = gen /\ accepted.spec = sealed
           AInv == Arrived => Match
<1>1. ASSUME TypeOK, AInv, [Next]_vars PROVE AInv'
  <2>1. CASE ApproveFinal
    <3>1. sealed' = spec /\ gen' = gen
      BY <2>1 DEF ApproveFinal, FinalChecks, SpecUnchanged, seal
    <3> QED
      BY <2>1, <3>1 DEF ApproveFinal
  <2>2. CASE ~ApproveFinal
    BY <1>1, <2>2, EndStep DEF Kept
  <2> QED
    BY <2>1, <2>2
<1>2. AInv => DeliveredIsAccepted
  BY EndDelivered DEF DeliveredIsAccepted
<1>3. Init => AInv
  BY InitNotArrived
<1> QED
  BY <1>1, <1>2, <1>3, WorkflowTyping, PTL DEF Spec

(* Waivers only take kinds of evidence away from what a route asks for.     *)
LEMMA WaiversRelax ==
    ASSUME route' = route, waived \subseteq waived'
    PROVE  FinalStageKinds' \subseteq FinalStageKinds
<1>1. /\ NeedsReview(route)' => NeedsReview(route)
      /\ NeedsAudience(route)' => NeedsAudience(route)
  BY DEF NeedsReview, NeedsAudience
<1>2. QAStageKinds' \subseteq QAStageKinds
  BY <1>1 DEF QAStageKinds, ReviewStageKinds, If
<1> QED
  BY <1>1, <1>2 DEF FinalStageKinds, If

(* The final stage asks for kinds of evidence only.                         *)
LEMMA FinalKindsAreKinds == FinalStageKinds \subseteq Kind
BY DEF FinalStageKinds, QAStageKinds, ReviewStageKinds, If, Kind

(* What is delivered carries the evidence that its final route asks for,    *)
(* unless the user waived it, whatever waivers, stops, returns and routes   *)
(* led past the phases that collect it, interruptions included.             *)
THEOREM EvidenceSafety == Spec => []DeliveredIsProved
<1> DEFINE Proof == "final-evidence" \notin waived => \A k \in FinalStageKinds : evidence[k] # None
           PInv == Arrived => Proof
<1>1. ASSUME TypeOK, PInv, [Next]_vars PROVE PInv'
  <2>1. CASE ApproveFinal
    <3>1. Proof
      BY <2>1 DEF ApproveFinal, FinalChecks, AllProven, Proven
    <3>2. UNCHANGED <<route, waived, evidence>>
      BY <2>1 DEF ApproveFinal, plan
    <3>3. FinalStageKinds' = FinalStageKinds
      BY <3>2 DEF FinalStageKinds, QAStageKinds, ReviewStageKinds, NeedsReview, NeedsAudience
    <3> QED
      BY <3>1, <3>2, <3>3
  <2>2. CASE ~ApproveFinal
    BY <1>1, <2>2, EndStep, WaiversRelax, FinalKindsAreKinds DEF Kept
  <2> QED
    BY <2>1, <2>2
<1>2. PInv => DeliveredIsProved
  BY EndDelivered DEF DeliveredIsProved
<1>3. Init => PInv
  BY InitNotArrived
<1> QED
  BY <1>1, <1>2, <1>3, WorkflowTyping, PTL DEF Spec

-----------------------------------------------------------------------------
(* What holds until a command is interrupted between two writes.            *)

(* An interrupted command is counted.                                       *)
LEMMA NotInterrupted ==
    ASSUME TypeOK, InterruptedStep
    PROVE  interruptions' # 0
<1>1. interruptions \in Nat
  BY DEF TypeOK
<1>2. Interrupted
  BY DEF InterruptedStep, InterruptedBuild, InterruptedEnd, InterruptedDecision,
         InterruptedReturn, InterruptedRevision
<1> QED
  BY <1>1, <1>2 DEF Interrupted

(* Only interrupted commands change the count.                              *)
LEMMA InterruptionsStay ==
    ASSUME [Next]_vars, ~InterruptedStep
    PROVE  interruptions' = interruptions
<1>1. CASE SpecificationStep
  BY <1>1
     DEF SpecificationStep, EditSpecification, StartRefinement, CompleteSpecification,
         CompleteDesign, CompleteArchitecture, ApproveSpecification, RequestSpecChanges,
         RejectTask, InvalidateChangedApproval, counts
<1>2. CASE ExecutionStep
  BY <1>2
     DEF ExecutionStep, StartExecution, CompleteBuild, CompleteReview, CompleteQA,
         CompleteAudience, AddEvidence, counts
<1>3. CASE StopStep
  BY <1>3
     DEF StopStep, BlockTask, ResumeTask, AddQuestion, AnswerQuestion, ResetRepairBudget,
         ReturnTask, ResolveFinalProductOwnerDecision, ReturnTo, counts
<1>4. CASE FinalStep
  BY <1>4
     DEF FinalStep, ApproveFinal, CompleteDelivery, CloseTaskByUserOverride, RejectFinal,
         StartIncrementalRevision, WaiveWorkflowStep, counts
<1>5. CASE AmendmentStep
  BY <1>5 DEF AmendmentStep, ProposeAmendment, ApproveAmendment, RejectAmendment, counts
<1>6. CASE UNCHANGED vars
  BY <1>6 DEF vars, counts
<1> QED
  BY <1>1, <1>2, <1>3, <1>4, <1>5, <1>6 DEF Next

(* A delivered task has no open revision, whatever was revised, resumed,    *)
(* returned or closed before, until some command has been interrupted: then *)
(* a revision may be stored of a task that still awaits its delivery.       *)
THEOREM SettledSafety == Spec => []DeliveredIsSettled
<1> DEFINE SInv == interruptions = 0 /\ Arrived => ~RevisionActive
<1>1. ASSUME TypeOK, SInv, [Next]_vars, interruptions' = 0, Arrived'
      PROVE  ~RevisionActive'
  <2>1. ~InterruptedStep /\ interruptions = 0
    BY <1>1, NotInterrupted, InterruptionsStay
  <2>2. CASE ApproveFinal
    BY <1>1, <2>2 DEF ApproveFinal, AcceptRevision, RevisionActive, TypeOK, RevisionType
  <2>3. CASE ~ApproveFinal
    BY <1>1, <2>1, <2>3, EndStep DEF Kept
  <2> QED
    BY <2>2, <2>3
<1>2. SInv => DeliveredIsSettled
  BY EndDelivered DEF DeliveredIsSettled
<1>3. Init => SInv
  BY InitNotArrived
<1>4. ASSUME TypeOK, SInv, [Next]_vars PROVE SInv'
  BY <1>1, <1>4
<1> QED
  BY <1>2, <1>3, <1>4, WorkflowTyping, PTL DEF Spec

(* A new task has no approval and no seal.                                  *)
LEMMA SealInit == Init => SealStands
BY DEF Init, SealStands

(* Steps that leave the seal and the amendments alone keep the seal's       *)
(* invariant.                                                               *)
LEMMA SealKept ==
    ASSUME SealStands, UNCHANGED <<seal, amended>>
    PROVE  SealStands'
BY DEF SealStands, seal

(* An approval seals the hash of the amendments approved so far.            *)
LEMMA SealMade ==
    ASSUME TypeOK, Seal, amended' = amended
    PROVE  SealStands'
<1>1. spec # None
  BY DEF TypeOK, None
<1> QED
  BY <1>1 DEF Seal, SealStands

(* A withdrawal of the approval leaves no seal.                             *)
LEMMA SealBroken ==
    ASSUME NEW verdict, verdict # "approved", Unseal(verdict)
    PROVE  SealStands'
BY DEF Unseal, SealStands

(* Every step keeps the seal's invariant.                                   *)
LEMMA SealStep ==
    ASSUME TypeOK, SealStands, [Next]_vars, ~InterruptedStep
    PROVE  SealStands'
<1>1. CASE SpecificationStep
  <2>1. CASE EditSpecification
    BY <2>1, SealKept DEF EditSpecification
  <2>2. CASE StartRefinement
    BY <2>2, SealBroken DEF StartRefinement
  <2>3. CASE CompleteSpecification
    BY <2>3, SealMade, SealKept DEF CompleteSpecification, content
  <2>4. CASE CompleteDesign \/ CompleteArchitecture
    BY <2>4, SealKept DEF CompleteDesign, CompleteArchitecture, content
  <2>5. CASE ApproveSpecification
    BY <2>5, SealMade DEF ApproveSpecification, content
  <2>6. CASE RequestSpecChanges \/ InvalidateChangedApproval
    BY <2>6, SealBroken DEF RequestSpecChanges, InvalidateChangedApproval
  <2>7. CASE RejectTask
    BY <2>7 DEF RejectTask, SealStands
  <2> QED
    BY <1>1, <2>1, <2>2, <2>3, <2>4, <2>5, <2>6, <2>7 DEF SpecificationStep
<1>2. CASE ExecutionStep
  BY <1>2, SealKept
     DEF ExecutionStep, StartExecution, CompleteBuild, CompleteReview, CompleteQA,
         CompleteAudience, AddEvidence, content
<1>3. CASE StopStep
  <2>1. ASSUME NEW to \in ReturnTarget, ReturnTo(to) PROVE SealStands'
    <3>1. UNCHANGED seal \/ Unseal("changes_requested")
      BY <2>1 DEF ReturnTo, StopExhausted
    <3>2. amended' = amended
      BY <2>1 DEF ReturnTo, content
    <3> QED
      BY <3>1, <3>2, SealKept, SealBroken
  <2>2. CASE BlockTask \/ ResumeTask \/ AddQuestion \/ AnswerQuestion \/ ResetRepairBudget
    BY <2>2, SealKept
       DEF BlockTask, ResumeTask, AddQuestion, AnswerQuestion, ResetRepairBudget, content
  <2> QED
    BY <1>3, <2>1, <2>2 DEF StopStep, ReturnTask, ResolveFinalProductOwnerDecision
<1>4. CASE FinalStep
  <2>1. ASSUME NEW to \in ReturnTarget, RejectFinal(to) PROVE SealStands'
    BY <2>1, SealKept DEF RejectFinal, StopExhausted, content
  <2>2. ASSUME NEW g \in Gate, WaiveWorkflowStep(g) PROVE SealStands'
    BY <2>2, SealKept DEF WaiveWorkflowStep, content
  <2>3. ASSUME NEW declared, NEW files, StartIncrementalRevision(declared, files)
        PROVE  SealStands'
    BY <2>3, SealKept DEF StartIncrementalRevision, content
  <2>4. CASE ApproveFinal \/ CompleteDelivery \/ CloseTaskByUserOverride
    BY <2>4, SealKept DEF ApproveFinal, CompleteDelivery, CloseTaskByUserOverride, content
  <2> QED
    BY <1>4, <2>1, <2>2, <2>3, <2>4 DEF FinalStep
<1>5. CASE AmendmentStep
  <2>1. CASE ProposeAmendment \/ RejectAmendment
    BY <2>1, SealKept DEF ProposeAmendment, RejectAmendment
  <2>2. CASE ApproveAmendment
    BY <2>2 DEF ApproveAmendment, SealStands
  <2> QED
    BY <1>5, <2>1, <2>2 DEF AmendmentStep
<1>6. CASE UNCHANGED vars
  BY <1>6, SealKept DEF vars, content
<1> QED
  BY <1>1, <1>2, <1>3, <1>4, <1>5, <1>6 DEF Next

(* The seal of the specification and the hash of its amendments go together *)
(* through every approval, withdrawal and amendment: the workflow itself    *)
(* never causes the error of an amendment outside of its flow, until some   *)
(* command has been interrupted.                                            *)
THEOREM SealSafety == Spec => []ApprovalIsSealed
<1>1. Init => ApprovalIsSealed
  BY SealInit DEF ApprovalIsSealed
<1>2. ASSUME TypeOK, ApprovalIsSealed, [Next]_vars PROVE ApprovalIsSealed'
  BY <1>2, SealStep, NotInterrupted, InterruptionsStay DEF ApprovalIsSealed
<1> QED
  BY <1>1, <1>2, WorkflowTyping, PTL DEF Spec

-----------------------------------------------------------------------------
(* Revisions.  While a revision is open the present generation is the one   *)
(* that implements it, and generations only grow: evidence of the present   *)
(* generation, which its validation asks for, stays good enough for it.     *)

RevisionInv ==
    /\ rev.gen <= gen
    /\ rev.status \in {"implemented", "validated"} => rev.gen = gen
    /\ ValidatedIsProved

(* There is no revision at first.                                           *)
LEMMA RevisionInit == Init => RevisionInv
BY DEF Init, RevisionInv, ValidatedIsProved, NoRevision

(* Steps that leave the revision and its evidence alone keep its invariant. *)
LEMMA RevisionKept ==
    ASSUME RevisionInv, UNCHANGED <<rev, gen, evidence>>
    PROVE  RevisionInv'
BY DEF RevisionInv, ValidatedIsProved, RevisionKinds

(* A revision that ends otherwise than by acceptance is of no account.      *)
LEMMA RevisionStatus ==
    ASSUME TypeOK, RevisionInv, UNCHANGED <<gen, evidence>>,
           NEW s, rev' = [rev EXCEPT !.status = s],
           \/ s = "cancelled"
           \/ s = "accepted" /\ rev.status = "validated"
           \/ s = "validated" /\ rev.status = "implemented" /\ AllProven(RevisionKinds)
    PROVE  RevisionInv'
<1>1. rev'.status = s /\ rev'.gen = rev.gen /\ rev'.signals = rev.signals
  BY DEF TypeOK, RevisionType
<1>2. RevisionKinds' = RevisionKinds
  BY <1>1 DEF RevisionKinds
<1>3. CASE s = "cancelled"
  BY <1>1, <1>3 DEF RevisionInv, ValidatedIsProved
<1>4. CASE s = "accepted" /\ rev.status = "validated"
  BY <1>1, <1>2, <1>4 DEF RevisionInv, ValidatedIsProved
<1>5. CASE s = "validated" /\ rev.status = "implemented" /\ AllProven(RevisionKinds)
  <2>1. rev.gen = gen /\ gen \in Nat
    BY <1>5 DEF RevisionInv, TypeOK
  <2>2. ASSUME NEW k \in RevisionKinds PROVE evidence[k] >= gen
    <3>1. k \in Kind
      BY KindsAreKinds DEF RevisionKinds
    <3>2. evidence[k] \in Nat
      BY <1>5, <3>1 DEF AllProven, Proven, TypeOK
    <3>3. gen > 0 => evidence[k] = gen
      BY <1>5 DEF AllProven, Proven, RevisionActive
    <3> QED
      BY <2>1, <3>2, <3>3
  <2> QED
    BY <1>1, <1>2, <1>5, <2>1, <2>2 DEF RevisionInv, ValidatedIsProved
<1> QED
  BY <1>3, <1>4, <1>5

(* Every step keeps the revision's invariant.                               *)
LEMMA RevisionStep ==
    ASSUME TypeOK, RevisionInv, [Next]_vars, ~InterruptedStep
    PROVE  RevisionInv'
<1>1. CASE SpecificationStep
  BY <1>1, RevisionKept
     DEF SpecificationStep, EditSpecification, StartRefinement, CompleteSpecification,
         CompleteDesign, CompleteArchitecture, ApproveSpecification, RequestSpecChanges,
         RejectTask, InvalidateChangedApproval, work
<1>2. CASE ExecutionStep
  <2>1. CASE StartExecution \/ CompleteReview \/ CompleteAudience
    BY <2>1, RevisionKept DEF StartExecution, CompleteReview, CompleteAudience, work
  <2>2. CASE CompleteBuild
    <3>0. gen \in Nat /\ gen' = gen + 1 /\ evidence' = evidence /\ rev \in RevisionType
      BY <2>2 DEF CompleteBuild, TypeOK
    <3>1. CASE ~RevisionActive /\ rev' = rev
      <4>1. rev.gen \in Nat
        BY <3>0 DEF RevisionType
      <4>2. ValidatedIsProved'
        BY <3>0, <3>1 DEF RevisionInv, ValidatedIsProved, RevisionKinds
      <4> QED
        BY <3>0, <3>1, <4>1, <4>2 DEF RevisionInv, RevisionActive
    <3>2. ASSUME NEW changed \in FileSignals, rev' = Implemented(changed)
          PROVE  RevisionInv'
      <4>1. rev'.status = "implemented" /\ rev'.gen = gen + 1
        BY <3>0, <3>2 DEF Implemented, RevisionType
      <4> QED
        BY <3>0, <4>1 DEF RevisionInv, ValidatedIsProved
    <3> QED
      BY <2>2, <3>1, <3>2 DEF CompleteBuild
  <2>3. CASE CompleteQA
    <3>1. UNCHANGED <<gen, evidence>>
      BY <2>3 DEF CompleteQA
    <3>2. \/ UNCHANGED rev
          \/ /\ rev.status = "implemented" /\ AllProven(RevisionKinds)
             /\ rev' = [rev EXCEPT !.status = "validated"]
      BY <2>3 DEF CompleteQA
    <3> QED
      BY <3>1, <3>2, RevisionKept, RevisionStatus
  <2>4. ASSUME NEW k \in Producible, AddEvidence(k) PROVE RevisionInv'
    <3>1. /\ rev' = rev /\ gen' = gen /\ evidence \in [Kind -> Nat \cup {None}]
          /\ evidence' = [evidence EXCEPT ![k] = gen]
      BY <2>4 DEF AddEvidence, TypeOK
    <3>2. RevisionKinds' = RevisionKinds /\ RevisionKinds \subseteq Kind
      BY <3>1, KindsAreKinds DEF RevisionKinds
    <3>3. gen \in Nat /\ rev.gen \in Nat
      BY DEF TypeOK, RevisionType
    <3>4. ASSUME rev.status \in {"validated", "accepted"}, NEW j \in RevisionKinds
          PROVE  evidence'[j] >= rev.gen
      <4>1. CASE j = k
        BY <3>1, <3>2, <3>3, <3>4, <4>1 DEF RevisionInv
      <4>2. CASE j # k
        BY <3>1, <3>2, <3>4, <4>2 DEF RevisionInv, ValidatedIsProved
      <4> QED
        BY <4>1, <4>2
    <3> QED
      BY <3>1, <3>2, <3>4 DEF RevisionInv, ValidatedIsProved
  <2> QED
    BY <1>2, <2>1, <2>2, <2>3, <2>4 DEF ExecutionStep
<1>3. CASE StopStep
  BY <1>3, RevisionKept
     DEF StopStep, BlockTask, ResumeTask, AddQuestion, AnswerQuestion, ResetRepairBudget,
         ReturnTask, ResolveFinalProductOwnerDecision, ReturnTo, work
<1>4. CASE FinalStep
  <2>1. ASSUME NEW to \in ReturnTarget, RejectFinal(to) PROVE RevisionInv'
    BY <2>1, RevisionKept DEF RejectFinal, work
  <2>2. ASSUME NEW g \in Gate, WaiveWorkflowStep(g) PROVE RevisionInv'
    BY <2>2, RevisionKept DEF WaiveWorkflowStep, work
  <2>3. ASSUME NEW declared, NEW files, StartIncrementalRevision(declared, files)
        PROVE  RevisionInv'
    <3>1. rev'.status = "active" /\ rev'.gen = 0
      BY <2>3 DEF StartIncrementalRevision, RevisionOf
    <3>2. gen' = gen /\ gen \in Nat
      BY <2>3 DEF StartIncrementalRevision, TypeOK
    <3> QED
      BY <3>1, <3>2 DEF RevisionInv, ValidatedIsProved
  <2>4. CASE ApproveFinal
    <3>1. UNCHANGED <<gen, evidence>>
      BY <2>4 DEF ApproveFinal
    <3>2. \/ UNCHANGED rev
          \/ rev.status = "validated" /\ rev' = [rev EXCEPT !.status = "accepted"]
      BY <2>4 DEF ApproveFinal, AcceptRevision, FinalChecks
    <3> QED
      BY <3>1, <3>2, RevisionKept, RevisionStatus
  <2>5. CASE CompleteDelivery
    BY <2>5, RevisionKept DEF CompleteDelivery, work
  <2>6. CASE CloseTaskByUserOverride
    <3>1. UNCHANGED <<gen, evidence>>
      BY <2>6 DEF CloseTaskByUserOverride
    <3>2. UNCHANGED rev \/ rev' = [rev EXCEPT !.status = "cancelled"]
      BY <2>6 DEF CloseTaskByUserOverride, CancelRevision
    <3> QED
      BY <3>1, <3>2, RevisionKept, RevisionStatus
  <2> QED
    BY <1>4, <2>1, <2>2, <2>3, <2>4, <2>5, <2>6 DEF FinalStep
<1>5. CASE AmendmentStep
  BY <1>5, RevisionKept
     DEF AmendmentStep, ProposeAmendment, ApproveAmendment, RejectAmendment, work
<1>6. CASE UNCHANGED vars
  BY <1>6, RevisionKept DEF vars, work
<1> QED
  BY <1>1, <1>2, <1>3, <1>4, <1>5, <1>6 DEF Next

(* A validated or accepted revision has all the evidence it invalidated     *)
(* collected anew from its own implementation, until some command has been  *)
(* interrupted.                                                             *)
THEOREM RevisionSafety == Spec => []RevisionProved
<1> DEFINE RInv == interruptions = 0 => RevisionInv
<1>1. Init => RInv
  BY RevisionInit
<1>2. ASSUME TypeOK, RInv, [Next]_vars PROVE RInv'
  BY <1>2, RevisionStep, NotInterrupted, InterruptionsStay
<1>3. RInv => RevisionProved
  BY DEF RevisionInv, RevisionProved
<1> QED
  BY <1>1, <1>2, <1>3, WorkflowTyping, PTL DEF Spec

-----------------------------------------------------------------------------
(* No step builds or accepts while an amendment is undecided.               *)
LEMMA BlocksStep ==
    ASSUME [Next]_vars, pending > 0
    PROVE  gen' = gen /\ accepted' = accepted
<1>0. ~ SpecUnchanged
  BY DEF SpecUnchanged
<1>1. ~ CompleteBuild /\ ~ ApproveFinal
  BY <1>0 DEF CompleteBuild, Completing, ApproveFinal, FinalChecks
<1>2. CASE SpecificationStep
  BY <1>2
     DEF SpecificationStep, EditSpecification, StartRefinement, CompleteSpecification,
         CompleteDesign, CompleteArchitecture, ApproveSpecification, RequestSpecChanges,
         RejectTask, InvalidateChangedApproval, work, outcome
<1>3. CASE ExecutionStep
  BY <1>1, <1>3
     DEF ExecutionStep, StartExecution, CompleteReview, CompleteQA, CompleteAudience,
         AddEvidence, work, outcome
<1>4. CASE StopStep
  BY <1>4
     DEF StopStep, BlockTask, ResumeTask, AddQuestion, AnswerQuestion, ResetRepairBudget,
         ReturnTask, ResolveFinalProductOwnerDecision, ReturnTo, work, outcome
<1>5. CASE FinalStep
  BY <1>1, <1>5
     DEF FinalStep, CompleteDelivery, CloseTaskByUserOverride, RejectFinal,
         StartIncrementalRevision, WaiveWorkflowStep, work, outcome
<1>6. CASE AmendmentStep
  BY <1>6 DEF AmendmentStep, ProposeAmendment, ApproveAmendment, RejectAmendment, work, outcome
<1>7. CASE InterruptedStep
  BY <1>7 DEF InterruptedStep, InterruptedBuild, InterruptedEnd, InterruptedDecision,
              InterruptedReturn, InterruptedRevision, Interrupted, work, outcome
<1>8. CASE UNCHANGED vars
  BY <1>8 DEF vars, work, outcome
<1> QED
  BY <1>2, <1>3, <1>4, <1>5, <1>6, <1>7, <1>8 DEF Next

(* Nothing is built or accepted while an amendment awaits its decision, by  *)
(* whatever command.                                                        *)
THEOREM AmendmentSafety == Spec => AmendmentBlocks
<1>1. [Next]_vars => [pending > 0 => gen' = gen /\ accepted' = accepted]_vars
  BY BlocksStep
<1> QED
  BY <1>1, PTL DEF Spec, AmendmentBlocks
=============================================================================
