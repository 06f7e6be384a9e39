-------------------------- MODULE GatePresentation --------------------------
(***************************************************************************)
(* What the user is shown before an approval.  Every command that touches  *)
(* a gate builds its presentation anew: the review bundle, the attachments *)
(* with the digest of each file, and the host actions, one for each image. *)
(* The host shows the images in the conversation of its session and        *)
(* records what came of each; a user's decision needs every one shown, of  *)
(* the content that the gate has now.                                      *)
(*                                                                         *)
(* A digest is the value it is made of.  The contents of a file and what   *)
(* the bundle tells of the task (its trace, its evidence, git) never come  *)
(* back once changed, so a number stands for each.                         *)
(*                                                                         *)
(* Environment: the host records "presented" only for an image it showed   *)
(* after it last fetched the presentation, and fetches again when what it  *)
(* records is stored.  What an HTML fragment is made of beyond the images  *)
(* it embeds is left out.                                                  *)
(***************************************************************************)
EXTENDS Naturals, Sequences, FiniteSets

CONSTANTS
    Sessions,       \* chats with a stable session id
    Writers,        \* commands that record an outcome, side by side
    Registrable,    \* the evidence that agents register
    Start,          \* the evidence and the phase to begin with
    Visualize,      \* config.visualize.enabled
    MaxEvents,      \* bound: what changes the bundle: events, evidence, decisions
    MaxEdits        \* bound: files overwritten

Gates == {"spec-approval", "final-approval"}
Phases == {"refining", "spec-approval", "execution", "final-approval", "done", "rejected"}
Visual == {"before", "proposal", "after"}
Images == Visual \cup {"diagram"}
Evidence == [kind : Images \cup {"report"}, expected : BOOLEAN]
Outcomes == {"pending", "presented", "failed"}      \* "failed": or unavailable
Closed == {"done", "rejected"}

GatePresentationAssumption ==
    /\ Registrable \subseteq Evidence /\ Visualize \in BOOLEAN
    /\ MaxEvents \in Nat /\ MaxEdits \in Nat
    /\ Start.phase \in Phases /\ Start.evidence \in Seq(Evidence)

VARIABLES
    phase,          \* the phase of the task; a gate's name while it awaits the user
    amended,        \* whether an amendment is pending
    waived,         \* whether the user waived host-presentation
    events,         \* version of everything the bundle tells
    evidence,       \* the registered evidence, in order
    bytes,          \* bytes[i]: version of the file of evidence i
    bundle,         \* bundle[g]: version of the bundle last written for gate g
    acks,           \* acks[g][s]: the acknowledgements stored for gate and session
    pending,        \* pending[w]: the acknowledgements that a recorder is about to store
    plan,           \* plan[g][s]: the stored visualization plan
    run,            \* run[g][s]: the stored visualization run
    skill,          \* skill[s]: whether the session says it has the Visualize skill
    host,           \* host[s]: what the host of the session fetched and did since
    seen,           \* history: seen[s]: image contents shown in the conversation
    decided         \* history: the last decision of the user at a gate, see TypeOK

task == <<phase, amended, waived>>
files == <<events, evidence, bytes>>
vars == <<task, files, bundle, acks, pending, plan, run, skill, host, seen, decided>>

Ids == DOMAIN evidence
None == [gate |-> "none"]

-----------------------------------------------------------------------------
(* The presentation of a gate. *)

\* A visual is listed if its context is expected and nothing later has its kind;
\* a specification lists no results.
evidenceForStage(g) ==
    {i \in Ids :
        /\ g = "spec-approval" => evidence[i].kind # "after"
        /\ evidence[i].kind \in Visual =>
              /\ evidence[i].expected
              /\ \A j \in Ids : j > i => evidence[j] # evidence[i]}

Required(g) == {i \in evidenceForStage(g) : evidence[i].kind \in Images}

presentationDigest(g) ==
    [gate |-> g, bundle |-> events, files |-> [i \in evidenceForStage(g) |-> bytes[i]]]

NoAcks == [digest |-> None, outcome |-> <<>>]

\* Mutant: whatever was stored counts, for the images it names.
AcknowledgedStale(g, s) ==
    [i \in Required(g) |-> IF i \in DOMAIN acks[g][s].outcome
                           THEN acks[g][s].outcome[i] ELSE "pending"]

\* Stored acknowledgements count for the digest they were made for only.
Acknowledged(g, s) ==
    IF acks[g][s].digest = presentationDigest(g)
    THEN acks[g][s].outcome ELSE [i \in Required(g) |-> "pending"]

approvalReady(g, s) == \A i \in Required(g) : Acknowledged(g, s)[i] = "presented"

NoPlan == [sources |-> <<>>, bundle |-> 0, required |-> {}, fetched |-> FALSE]

\* What the plan is made of: every attachment, and the images that must be embedded.
visualization(g) == [sources |-> presentationDigest(g).files, required |-> Required(g)]

\* A new plan has the time in its digest, so a digest that was fetched before names
\* the plan no more.
newPlan(g, fetched) ==
    [sources |-> visualization(g).sources, bundle |-> events,
     required |-> visualization(g).required, fetched |-> fetched]

writeReviewBundle(g) == bundle' = [bundle EXCEPT ![g] = events]

\* Nothing but a visualization reads back what was written.
build(g, s, fetched) ==
    IF Visualize
    THEN writeReviewBundle(g) /\ plan' = [plan EXCEPT ![g][s] = newPlan(g, fetched)]
    ELSE UNCHANGED <<bundle, plan>>

-----------------------------------------------------------------------------
NoHost == [gate |-> "none", digest |-> None, todo |-> {}, shown |-> {}]

Init ==
    /\ phase = Start.phase /\ evidence = Start.evidence
    /\ amended = FALSE /\ waived = FALSE /\ events = 0
    /\ bytes = [i \in DOMAIN Start.evidence |-> 0]
    /\ bundle = [g \in Gates |-> MaxEvents + 1]
    /\ acks = [g \in Gates |-> [s \in Sessions |-> NoAcks]]
    /\ pending = [w \in Writers |-> None]
    /\ plan = [g \in Gates |-> [s \in Sessions |-> NoPlan]]
    /\ run = [g \in Gates |-> [s \in Sessions |-> None]]
    /\ skill = [s \in Sessions |-> FALSE]
    /\ host = [s \in Sessions |-> NoHost]
    /\ seen = [s \in Sessions |-> {}]
    /\ decided = [by |-> "nobody", unseen |-> {}]

-----------------------------------------------------------------------------
(* The host: it fetches a presentation (next, interaction), with the       *)
(* actions that are not done, shows images, and records what came of each. *)

Open(g) == phase = g \/ (amended /\ g = "spec-approval")
HostActionsPending(g, s) ==                     \* Mutant: what failed is not retried
    {i \in Required(g) : Acknowledged(g, s)[i] = "pending"}
presentationHostActions(g, s) == {i \in Required(g) : Acknowledged(g, s)[i] # "presented"}

Fetch(s, g) ==
    /\ Open(g) /\ \A w \in Writers : pending[w] # None => pending[w].session # s
    /\ build(g, s, TRUE)
    /\ host' = [host EXCEPT ![s] = [gate |-> g, digest |-> presentationDigest(g),
                                    todo |-> presentationHostActions(g, s), shown |-> {}]]
    /\ UNCHANGED <<task, files, acks, pending, run, skill, seen, decided>>

Show(s, i) ==
    /\ i \in host[s].todo
    /\ host' = [host EXCEPT ![s].shown = @ \cup {i}]
    /\ seen' = [seen EXCEPT ![s] = @ \cup {<<i, bytes[i]>>}]
    /\ UNCHANGED <<task, files, bundle, acks, pending, plan, run, skill, decided>>

\* The check of the digest, and the read of what was recorded so far.
RecordRead(w, s, i, o) ==
    LET g == host[s].gate IN
    /\ pending[w] = None /\ i \in host[s].todo
    /\ build(g, s, FALSE)
    /\ host[s].digest = presentationDigest(g)
    /\ o = "presented" => i \in host[s].shown
    /\ pending' = [pending EXCEPT ![w] =
                      [gate |-> g, session |-> s, digest |-> presentationDigest(g),
                       outcome |-> [Acknowledged(g, s) EXCEPT ![i] = o]]]
    /\ host' = [host EXCEPT ![s].todo = @ \ {i}]
    /\ UNCHANGED <<task, files, acks, run, skill, seen, decided>>

RecordWrite(w) ==
    /\ pending[w] # None
    /\ acks' = [acks EXCEPT ![pending[w].gate][pending[w].session] =
                   [digest |-> pending[w].digest, outcome |-> pending[w].outcome]]
    /\ pending' = [pending EXCEPT ![w] = None]
    /\ UNCHANGED <<task, files, bundle, plan, run, skill, host, seen, decided>>

recordPresentationAction ==
    \/ \E w \in Writers, s \in Sessions, i \in Ids, o \in Outcomes \ {"pending"} :
          RecordRead(w, s, i, o)
    \/ \E w \in Writers : RecordWrite(w)

-----------------------------------------------------------------------------
(* The world: evidence is registered, files are overwritten, the trace     *)
(* grows, and agents bring the task to a gate.                             *)

Told == events < MaxEvents /\ events' = events + 1 /\ phase \notin Closed

Register(item) ==
    /\ Told /\ evidence' = Append(evidence, item)
    /\ bytes' = Append(bytes, 0)
    /\ UNCHANGED <<task, bundle, acks, pending, plan, run, skill, host, seen, decided>>

\* How often all files together were overwritten.
Edits == Cardinality({e \in Ids \X (1 .. MaxEdits) : e[2] <= bytes[e[1]]})

Overwrite(i) ==
    /\ Edits < MaxEdits /\ phase \notin Closed
    /\ bytes' = [bytes EXCEPT ![i] = @ + 1]
    /\ UNCHANGED <<task, events, evidence, bundle, acks, pending, plan, run, skill, host, seen,
                   decided>>

Event ==
    /\ Told
    /\ \/ UNCHANGED task                                   \* the trace, or git
       \/ phase = "refining" /\ phase' = "spec-approval" /\ UNCHANGED <<amended, waived>>
       \/ phase = "execution" /\ phase' = "final-approval" /\ UNCHANGED <<amended, waived>>
       \/ phase \in {"execution", "final-approval"} /\ amended' = TRUE /\ UNCHANGED <<phase, waived>>
       \/ ~waived /\ waived' = TRUE /\ UNCHANGED <<phase, amended>>
    /\ UNCHANGED <<evidence, bytes, bundle, acks, pending, plan, run, skill, host, seen, decided>>

-----------------------------------------------------------------------------
(* The decisions.  Each builds the presentation and fails, having changed  *)
(* only the bundle and the plan, if the user has not been shown it.        *)

\* Images of the gate that the session's conversation never showed as they are now.
Unseen(g, s) == {i \in Required(g) : <<i, bytes[i]>> \notin seen[s]}

assertGatePresentationReady(g, s) == Required(g) = {} \/ approvalReady(g, s)

Refused(s, g) ==
    /\ Open(g) /\ ~assertGatePresentationReady(g, s) /\ build(g, s, FALSE)
    /\ UNCHANGED <<task, files, acks, pending, run, skill, host, seen, decided>>

\* A decision of the user at gate g that moves the task.
Decision(s, g, to) ==
    /\ phase' = to /\ Told
    /\ build(g, s, FALSE)
    /\ decided' = [by |-> s, unseen |-> Unseen(g, s)]
    /\ UNCHANGED <<waived, evidence, bytes, acks, pending, run, skill, host, seen>>

approveSpecification(s) ==
    /\ phase = "spec-approval" /\ assertGatePresentationReady("spec-approval", s)
    /\ Decision(s, "spec-approval", "execution") /\ UNCHANGED amended

requestSpecChanges(s) ==
    /\ phase = "spec-approval" /\ assertGatePresentationReady("spec-approval", s)
    /\ Decision(s, "spec-approval", "refining") /\ UNCHANGED amended

\* Only the task that awaits the approval needs the presentation.
rejectTask(s) ==
    \/ /\ phase = "spec-approval" /\ assertGatePresentationReady("spec-approval", s)
       /\ Decision(s, "spec-approval", "rejected") /\ UNCHANGED amended
    \/ /\ phase = "refining" /\ phase' = "rejected"
       /\ UNCHANGED <<amended, waived, files, bundle, acks, pending, plan, run, skill, host, seen,
                      decided>>

\* approveAmendmentDecision and rejectAmendmentDecision.
AmendmentDecision(s) ==
    /\ amended /\ assertGatePresentationReady("spec-approval", s)
    /\ amended' = FALSE /\ Decision(s, "spec-approval", phase)

approveFinal(s) ==
    /\ phase = "final-approval" /\ ~amended /\ ~waived
    /\ assertGatePresentationReady("final-approval", s)
    /\ Decision(s, "final-approval", "done") /\ UNCHANGED amended

\* The autonomous approval, and the user's under a waiver.
approveFinalUnseen ==
    /\ phase = "final-approval" /\ ~amended /\ Told
    /\ phase' = "done"
    /\ UNCHANGED <<amended, waived, evidence, bytes, bundle, acks, pending, plan, run, skill, host,
                   seen, decided>>

\* Neither asks for the waiver.  rejectFinal to the builder is the former.
startIncrementalRevision(s) ==
    /\ phase = "final-approval" /\ assertGatePresentationReady("final-approval", s) /\ ~amended
    /\ Decision(s, "final-approval", "execution") /\ UNCHANGED amended

rejectFinal(s) ==
    /\ phase = "final-approval" /\ assertGatePresentationReady("final-approval", s)
    /\ \E to \in {"execution", "refining"} : Decision(s, "final-approval", to)
    /\ UNCHANGED amended

UserDecides(s) ==
    \/ approveSpecification(s) \/ requestSpecChanges(s) \/ rejectTask(s)
    \/ AmendmentDecision(s) \/ approveFinal(s)
    \/ startIncrementalRevision(s) \/ rejectFinal(s)

-----------------------------------------------------------------------------
(* Visualization: what the session's skill rendered of a plan. *)

recordVisualizationCapability(s, a) ==
    /\ Visualize /\ skill' = [skill EXCEPT ![s] = a]
    /\ UNCHANGED <<task, files, bundle, acks, pending, plan, run, host, seen, decided>>

\* The files of the plan, the bundle among them, as they are now.
SourcesStandBundle(g, p) == bundle[g] = p.bundle      \* Mutant: of the bundle only
SourcesStand(g, p) ==
    bundle[g] = p.bundle /\ \A i \in DOMAIN p.sources : bytes[i] = p.sources[i]

\* A rendered fragment embeds every required image, with the bytes the plan gives.
Embedded(p) == {<<i, p.sources[i]>> : i \in p.required}

\* A fallback or a failure embeds nothing and claims no quality.
recordVisualizationRun(s, g, o) ==
    LET p == plan[g][s] IN
    /\ Visualize /\ p.fetched /\ SourcesStand(g, p)
    /\ o = "rendered" => skill[s]
    /\ run' = [run EXCEPT ![g][s] =
                  [gate |-> g, outcome |-> o,
                   displayed |-> IF o = "rendered" THEN Embedded(p) ELSE {}]]
    /\ UNCHANGED <<task, files, bundle, acks, pending, plan, skill, host, seen, decided>>

-----------------------------------------------------------------------------
Next ==
    \/ \E s \in Sessions, g \in Gates : Fetch(s, g) \/ Refused(s, g)
    \/ \E s \in Sessions, i \in Ids : Show(s, i)
    \/ recordPresentationAction
    \/ \E item \in Registrable : Register(item)
    \/ \E i \in Ids : Overwrite(i)
    \/ Event
    \/ \E s \in Sessions : UserDecides(s)
    \/ approveFinalUnseen
    \/ \E s \in Sessions, a \in BOOLEAN : recordVisualizationCapability(s, a)
    \/ \E s \in Sessions, g \in Gates, o \in {"rendered", "fallback"} :
          recordVisualizationRun(s, g, o)

Spec == Init /\ [][Next]_vars

\* A host that goes on: it fetches again when nothing is left to do or the digest is
\* refused, shows what it was asked to, and now and then succeeds; commands end.
FetchAgain(s) ==
    /\ phase \in Gates
    /\ \/ host[s].gate # phase \/ host[s].todo = {}
       \/ host[s].digest # presentationDigest(phase)
    /\ Fetch(s, phase)
ShowNew(s, i) == i \in Ids /\ i \notin host[s].shown /\ Show(s, i)
Succeed(s, i) == i \in Ids /\ \E w \in Writers : RecordRead(w, s, i, "presented")

HostGoesOn(s) ==
    /\ WF_vars(FetchAgain(s))
    /\ \A i \in 1 .. Len(Start.evidence) + MaxEvents :
          SF_vars(ShowNew(s, i)) /\ SF_vars(Succeed(s, i))
    /\ \A w \in Writers : WF_vars(RecordWrite(w))

FairSpec == Spec /\ \A s \in Sessions : HostGoesOn(s)

-----------------------------------------------------------------------------
(* Properties. *)

\* Types, and what only evolves: an acknowledgement was made for a digest the gate had.
TypeOK ==
    /\ phase \in Phases /\ amended \in BOOLEAN /\ waived \in BOOLEAN
    /\ events \in 0 .. MaxEvents /\ evidence \in Seq(Evidence)
    /\ bytes \in [Ids -> 0 .. MaxEdits]
    /\ bundle \in [Gates -> 0 .. MaxEvents + 1]
    /\ \A g \in Gates, s \in Sessions :
          /\ \/ acks[g][s] = NoAcks
             \/ acks[g][s].digest.gate = g /\ acks[g][s].digest.bundle <= events /\
                DOMAIN acks[g][s].outcome \subseteq DOMAIN acks[g][s].digest.files
          /\ plan[g][s].required \subseteq DOMAIN plan[g][s].sources
          /\ run[g][s] = None \/ run[g][s].displayed \subseteq Ids \X (0 .. MaxEdits)
    /\ \A w \in Writers : pending[w] = None \/ pending[w].session \in Sessions
    /\ skill \in [Sessions -> BOOLEAN]
    /\ \A s \in Sessions : /\ host[s].gate \in Gates \cup {"none"}
                             /\ host[s].shown \cup host[s].todo \subseteq Ids
                             /\ seen[s] \subseteq Ids \X (0 .. MaxEdits)
    /\ decided.by \in Sessions \cup {"nobody"} /\ decided.unseen \subseteq Ids

(* A decision of the user at a visual gate, approval or refusal, is only    *)
(* taken when every image the gate requires was shown in the conversation   *)
(* of that session with the content it has at the decision: not one that    *)
(* was registered or overwritten since, not in another chat, not one whose  *)
(* presentation failed (presentation-state.ts:77-105, workflow.ts:43-49).   *)
ApprovedIsSeen == decided.unseen = {}

(* A visualization that is recorded as rendered shows each image its plan   *)
(* requires with the content of the file at that moment, whatever was       *)
(* overwritten while it was rendered (capabilities.ts:276-365).             *)
RendersCurrent ==
    \A g \in Gates, s \in Sessions :
        run'[g][s] # run[g][s] /\ run'[g][s].outcome = "rendered" =>
           \A i \in plan[g][s].required : <<i, bytes[i]>> \in run'[g][s].displayed
RenderedIsCurrent == [][RendersCurrent]_vars

(* The presentation does not chase its own tail: building, showing and      *)
(* recording never make what was recorded stale, so a host that goes on     *)
(* brings an open gate to the question, unless the gate closes.             *)
GateOpens ==
    \A s \in Sessions, g \in Gates : phase = g ~> (phase # g \/ approvalReady(g, s))

=============================================================================
