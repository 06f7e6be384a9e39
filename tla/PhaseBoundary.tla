---------------------------- MODULE PhaseBoundary ---------------------------
(***************************************************************************)
(* The boundary between two phases of a task: a capsule is compiled for    *)
(* the next role, the user chooses who goes on, a session enters and takes *)
(* the lease, and from then on the record says whose phase it is.          *)
(*                                                                         *)
(* No lock protects record, capsule and task: a command is a few steps on  *)
(* them, and those of other sessions come in between.  A session runs one  *)
(* command at a time.  The lease is the atomic one of LeaseAuthority; the  *)
(* lanes of a plan are those of ConcurrencyScheduler and left out.         *)
(***************************************************************************)
EXTENDS Naturals, FiniteSets

CONSTANTS
    Sessions, NoSession,
    MaxEdits,       \* bound: changes of what the capsules are compiled from
    MaxAttempts,    \* bound: repair attempts, and so returns
    Commands,       \* bound: the sets of commands that are run one after the other,
    RacedCommands,  \* and those of which each session may run one at a time
    Crashes         \* whether a command may die between two steps (of those in sequence)

ASSUME PhaseBoundaryAssumption ==
    /\ MaxEdits \in Nat /\ MaxAttempts \in Nat /\ Crashes \in BOOLEAN
    /\ NoSession \notin Sessions

VARIABLES
    phase,          \* the phase of the task
    blocked,        \* whether it is stopped in that phase
    source,         \* version of what the capsules are compiled from
    record,         \* record[p]: the boundary record of a phase
    capsule,        \* capsule[p]: the handoff file
    lease,          \* who has the live lease of the task
    audience,       \* sessions the task remembers for the target audience
    cmd,            \* cmd[s]: the command of a session
    attempts,       \* repair attempts that were counted
    past,           \* history, see below
    serial,         \* whether commands come one after the other, chosen in Init
    offered         \* the commands that the users give, chosen in Init

chosen == <<serial, offered>>
vars == <<phase, blocked, source, record, capsule, lease, audience, cmd, attempts, past, chosen>>

BoundaryPhases == {"builder", "technical-reviewer", "final-customer"}
Phases == BoundaryPhases \cup {"qa-engineer", "final-approval"}
SessionOrNone == Sessions \cup {NoSession}
Choices == {"continue-current", "pause-model-change", "fresh-chat"}

Digests == [of : BoundaryPhases, version : 0 .. MaxEdits]
NoRecord == [status |-> "none"]
Records ==
    [status : {"required", "chosen", "entered"}, digest : Digests,
     choice : Choices \cup {"none"}, chooser : SessionOrNone, entered : SessionOrNone,
     origin : SessionOrNone, forbidden : SUBSET Sessions]

NoCommand == [op |-> "none"]
CommandNames == {"next", "enter", "return"} \cup Choices

\* History of this review cycle and of the task.  source: who completed QA last;
\* judges: who gave the audience's review since; resumer: who resumed the audience's
\* phase last since; returns: how many were done; crashed: a command died.
History == [source : SessionOrNone, judges : SUBSET Sessions, resumer : SessionOrNone,
            returns : 0 .. MaxAttempts, crashed : BOOLEAN]

-----------------------------------------------------------------------------
(* Records *)

boundaryRole(p) == CASE p = "builder" -> "implementer"
                     [] p = "technical-reviewer" -> "reviewer"
                     [] p = "final-customer" -> "target-audience"

IsAudience(p) == boundaryRole(p) = "target-audience"

\* The sessions of a set that may hold "no session".
Stable(S) == S \ {NoSession}

\* Mutant: only the origin is kept out of the audience.
newRecordOpen(p, d, origin) ==
    [status |-> IF IsAudience(p) THEN "chosen" ELSE "required", digest |-> d,
     choice |-> IF IsAudience(p) THEN "fresh-chat" ELSE "none",
     chooser |-> IF IsAudience(p) THEN origin ELSE NoSession, entered |-> NoSession,
     origin |-> IF IsAudience(p) THEN origin ELSE NoSession, forbidden |-> {}]

\* A new record; the audience's is chosen from the start, for a fresh chat (only its
\* origin is ever looked at).
newRecord(p, d, origin) ==
    IF IsAudience(p)
    THEN [status |-> "chosen", digest |-> d, choice |-> "fresh-chat", chooser |-> origin,
          entered |-> NoSession, origin |-> origin,
          forbidden |-> Stable(audience.forbidden \cup {audience.origin, origin})]
    ELSE [status |-> "required", digest |-> d, choice |-> "none", chooser |-> NoSession,
          entered |-> NoSession, origin |-> NoSession, forbidden |-> {}]

Entered(p) == IF record[p] = NoRecord THEN NoSession ELSE record[p].entered

\* invalidatePhaseBoundary removes the file and then releases the lease of the
\* session that entered.  The release throws when another session has it.
InvalidateThrows(p) == Entered(p) # NoSession /\ lease \notin {NoSession, Entered(p)}
\* Mutant: the record goes and the lease stays.
LeaseKept(p) == lease

LeaseAfterInvalidate(p) == IF Entered(p) = NoSession \/ InvalidateThrows(p) THEN lease
                           ELSE NoSession

Current(p, d) == record[p] # NoRecord /\ record[p].digest = d

\* phaseBoundaryStatus, when it does not throw: the record as it is afterwards.
StatusRecord(p, d, origin) == IF Current(p, d) THEN record[p] ELSE newRecord(p, d, origin)

\* The files that phaseBoundaryStatus leaves.
Status(p, d, origin) ==
    /\ record' = [record EXCEPT ![p] = IF Current(p, d) \/ ~InvalidateThrows(p)
                                       THEN StatusRecord(p, d, origin) ELSE NoRecord]
    /\ lease' = IF Current(p, d) THEN lease ELSE LeaseAfterInvalidate(p)

StatusThrows(p, d) == ~Current(p, d) /\ InvalidateThrows(p)

-----------------------------------------------------------------------------
Init ==
    /\ phase = "builder" /\ blocked = FALSE
    /\ source = 0
    /\ record = [p \in BoundaryPhases |-> NoRecord]
    /\ capsule = [p \in BoundaryPhases |-> NoRecord]
    /\ lease = NoSession
    /\ audience = [origin |-> NoSession, forbidden |-> {}]
    /\ cmd = [s \in Sessions |-> NoCommand]
    /\ attempts = 0
    /\ past = [source |-> NoSession, judges |-> {}, resumer |-> NoSession, returns |-> 0,
               crashed |-> FALSE]
    /\ serial \in BOOLEAN
    /\ offered \in IF serial THEN Commands ELSE RacedCommands

EndCommand(s) == cmd' = [cmd EXCEPT ![s] = NoCommand]
Continue(s, c) == cmd' = [cmd EXCEPT ![s] = c]
Idle(s) == cmd[s] = NoCommand
AtStep(s, step) == cmd[s] # NoCommand /\ cmd[s].step = step

\* Mutant: the capsule is compiled anew although it is sealed.
Recompile(s, op) ==
    /\ Idle(s) /\ phase \in BoundaryPhases
    /\ LET d == [of |-> phase, version |-> source]
       IN /\ capsule' = [capsule EXCEPT ![phase] = d]
          /\ Continue(s, [op |-> op, step |-> "prepare", phase |-> phase, digest |-> d])
    /\ UNCHANGED <<phase, blocked, source, record, lease, audience, attempts, past>>

\* Every command begins with writeRuntimeHandoff: a sealed capsule is compared
\* with its record, and the command throws when it has changed (the audience's
\* is compiled anew each time).
Compile(s, op) ==
    /\ Idle(s) /\ phase \in BoundaryPhases
    /\ LET sealed == record[phase] # NoRecord /\ ~IsAudience(phase)
           d == IF sealed THEN capsule[phase] ELSE [of |-> phase, version |-> source]
       IN /\ sealed => capsule[phase] = record[phase].digest
          /\ capsule' = [capsule EXCEPT ![phase] = d]
          /\ Continue(s, [op |-> op, step |-> "prepare", phase |-> phase, digest |-> d])
    /\ UNCHANGED <<phase, blocked, source, record, lease, audience, attempts, past>>

\* runtimeRecommendation: the record is kept if it has these digests, otherwise
\* it is invalidated and a new one is written.
Prepare(s) ==
    /\ AtStep(s, "prepare")
    /\ LET c == cmd[s]
           origin == IF IsAudience(c.phase) /\ audience.origin # NoSession
                     THEN audience.origin ELSE s
       IN /\ Status(c.phase, c.digest, origin)
          /\ IF StatusThrows(c.phase, c.digest) \/ c.op = "next" THEN EndCommand(s)
             ELSE Continue(s, [c EXCEPT !.step = "judge"])
    /\ UNCHANGED <<phase, blocked, source, capsule, audience, attempts, past>>

\* choosePhaseBoundary and enterPhaseBoundary call phaseBoundaryStatus again, for
\* the phase the task has by now, and judge the record it returns.
MayChoose(s, r) ==
    /\ r.status # "chosen"
    /\ r.status = "entered" => r.entered # s /\ lease \in {NoSession, s}

\* Mutant: a fresh chat may be entered by the session that asked for it.
MayEnterAgain(s, p, r) ==
    /\ r.status # "required"
    /\ IF IsAudience(p) THEN s \notin r.forbidden \cup {r.origin}
       ELSE r.choice = "continue-current" => r.chooser = s

MayEnter(s, p, r) ==
    /\ r.status # "required"
    /\ IF IsAudience(p)
       THEN r.origin # NoSession /\ s \notin r.forbidden \cup {r.origin} /\ r.choice = "fresh-chat"
       ELSE /\ r.choice = "continue-current" => r.chooser = s
            /\ r.choice = "fresh-chat" => r.chooser # s

Judge(s) ==
    /\ AtStep(s, "judge")
    /\ IF phase \notin BoundaryPhases
       THEN EndCommand(s) /\ UNCHANGED <<record, lease>>
       ELSE LET c == cmd[s]
                r == StatusRecord(phase, c.digest, s)
            IN /\ Status(phase, c.digest, s)
               /\ IF StatusThrows(phase, c.digest) THEN EndCommand(s)
                  ELSE \/ /\ c.op \in Choices /\ MayChoose(s, r)
                          /\ Continue(s, [op |-> c.op, step |-> "write", phase |-> phase,
                                 record |-> [r EXCEPT !.status = "chosen", !.choice = c.op,
                                                      !.chooser = s, !.entered = NoSession]])
                       \/ /\ c.op = "enter" /\ MayEnter(s, phase, r)
                          /\ Continue(s, [op |-> c.op, step |-> "acquire", phase |-> phase,
                                 record |-> [r EXCEPT !.status = "entered", !.entered = s]])
                       \/ /\ ~(c.op \in Choices /\ MayChoose(s, r))
                          /\ ~(c.op = "enter" /\ MayEnter(s, phase, r))
                          /\ EndCommand(s)
    /\ UNCHANGED <<phase, blocked, source, capsule, audience, attempts, past>>

\* Ownership is acquired before entered is persisted.
Acquire(s) ==
    /\ AtStep(s, "acquire")
    /\ IF lease \in {NoSession, s}
       THEN lease' = s /\ Continue(s, [cmd[s] EXCEPT !.step = "write"])
       ELSE lease' = lease /\ EndCommand(s)
    /\ UNCHANGED <<phase, blocked, source, record, capsule, audience, attempts, past>>

Write(s) ==
    /\ AtStep(s, "write")
    /\ LET c == cmd[s]
       IN /\ record' = [record EXCEPT ![c.phase] = c.record]
          /\ IF c.op = "enter" /\ IsAudience(c.phase)
             THEN Continue(s, [c EXCEPT !.step = "remember"]) ELSE EndCommand(s)
    /\ UNCHANGED <<phase, blocked, source, capsule, lease, audience, attempts, past>>

\* Mutant: the origin that is missing at first is remembered too.
RememberAll(s, updateOrigin) ==
    [origin |-> IF updateOrigin THEN s ELSE audience.origin,
     forbidden |-> audience.forbidden \cup {audience.origin, s}]

\* rememberTargetAudienceSession
Remembered(s, updateOrigin) ==
    [origin |-> IF updateOrigin THEN s ELSE audience.origin,
     forbidden |-> Stable(audience.forbidden \cup {audience.origin, s})]

Remember(s) ==
    /\ AtStep(s, "remember")
    /\ audience' = Remembered(s, FALSE)
    /\ EndCommand(s)
    /\ UNCHANGED <<phase, blocked, source, record, capsule, lease, attempts, past>>

\* boundary reset --force trusts nothing.
Reset(s) ==
    /\ "reset" \in offered
    /\ Idle(s) /\ phase \in BoundaryPhases
    /\ record' = [record EXCEPT ![phase] = NoRecord]
    /\ lease' = NoSession
    /\ UNCHANGED <<phase, blocked, source, capsule, audience, cmd, attempts, past>>

-----------------------------------------------------------------------------
(* What the workflow does with the boundary. *)

\* completePhase asks for the entered boundary and the lease.
MayComplete(s) ==
    /\ Idle(s)
    /\ phase \in BoundaryPhases => Entered(phase) = s
    /\ lease \in {NoSession, s}

\* The lease that assertTaskLease leaves is the session's, so the record of an
\* earlier review that another session entered makes invalidate throw.
CompleteBuilder(s) ==
    /\ phase = "builder" /\ MayComplete(s)
    /\ record' = [record EXCEPT !["technical-reviewer"] = NoRecord]
    /\ IF Entered("technical-reviewer") \in {NoSession, s}
       THEN phase' = "technical-reviewer" /\ blocked' = FALSE /\ lease' = NoSession
       ELSE lease' = s /\ UNCHANGED <<phase, blocked>>
    /\ UNCHANGED <<source, capsule, audience, cmd, attempts, past>>

CompleteReview(s) ==
    /\ phase = "technical-reviewer" /\ MayComplete(s)
    /\ phase' = "qa-engineer" /\ blocked' = FALSE /\ lease' = s
    /\ UNCHANGED <<source, record, capsule, audience, cmd, attempts, past>>

\* Two saves of the task: the phase, and then the session as source.
CompleteQa(s) ==
    /\ phase = "qa-engineer" /\ MayComplete(s)
    /\ phase' = "final-customer" /\ blocked' = FALSE
    /\ \/ /\ audience' = Remembered(s, TRUE)
          /\ lease' = NoSession
          /\ past' = [past EXCEPT !.source = s, !.judges = {}, !.resumer = NoSession]
       \/ /\ Crashes /\ serial
          /\ lease' = s
          /\ past' = [past EXCEPT !.source = s, !.judges = {}, !.resumer = NoSession,
                                 !.crashed = TRUE]
          /\ UNCHANGED audience
    /\ UNCHANGED <<source, record, capsule, cmd, attempts>>

\* The review of one persona, when another must follow: its session becomes the
\* origin of the next, and the boundary is invalidated.  Nobody looks at the lease
\* before that.
RecordAudience(s) ==
    /\ phase = "final-customer" /\ Idle(s) /\ Entered(phase) = s
    /\ audience' = Remembered(s, TRUE)
    /\ record' = [record EXCEPT !["final-customer"] = NoRecord]
    /\ lease' = LeaseAfterInvalidate("final-customer")
    /\ past' = [past EXCEPT !.judges = @ \cup {s}]
    /\ UNCHANGED <<phase, blocked, source, capsule, cmd, attempts>>

CompleteAudience(s) ==
    /\ phase = "final-customer" /\ MayComplete(s)
    /\ phase' = "final-approval" /\ blocked' = FALSE /\ lease' = NoSession
    /\ past' = [past EXCEPT !.judges = @ \cup {s}]
    /\ UNCHANGED <<source, record, capsule, audience, cmd, attempts>>

\* returnTask to the builder: the attempt is counted first, then the builder's
\* boundary is invalidated, then the task is saved and every lease released.
ReturnTask(s) ==
    /\ "return" \in offered
    /\ Idle(s) /\ phase \in Phases \ {"builder", "final-approval"}
    /\ attempts < MaxAttempts
    /\ attempts' = attempts + 1
    /\ record' = [record EXCEPT !["builder"] = NoRecord]
    /\ IF InvalidateThrows("builder")
       THEN UNCHANGED <<phase, blocked, lease, past>>
       ELSE /\ phase' = "builder" /\ blocked' = FALSE /\ lease' = NoSession
            /\ past' = [past EXCEPT !.returns = @ + 1]
    /\ UNCHANGED <<source, capsule, audience, cmd>>

\* blockTask: nobody's boundary is asked for, and the lease is released by force.
\* (A task that is blocked twice resumes as one to refine, which is Workflow's.)
BlockTask(s) ==
    /\ "block" \in offered
    /\ Idle(s) /\ ~blocked
    /\ blocked' = TRUE /\ lease' = NoSession
    /\ UNCHANGED <<phase, source, record, capsule, audience, cmd, attempts, past>>

\* The phases whose boundary a resumed task needs: not the audience's.
requiresPhaseBoundary(p) == p \in {"builder", "technical-reviewer"}

\* resumeTask in a phase that is executed: the lease is acquired whoever resumes the
\* audience's phase, or QA.
ResumeTask(s) ==
    /\ Idle(s) /\ blocked /\ phase # "final-approval"
    /\ requiresPhaseBoundary(phase) => Entered(phase) = s
    /\ lease \in {NoSession, s}
    /\ blocked' = FALSE /\ lease' = s
    /\ past' = IF phase = "final-customer" THEN [past EXCEPT !.resumer = s] ELSE past
    /\ UNCHANGED <<phase, source, record, capsule, audience, cmd, attempts>>

-----------------------------------------------------------------------------
(* Time, edits and crashes. *)

\* Half an hour passes without a command of the owner.
Expire ==
    /\ lease # NoSession /\ Idle(lease)
    /\ lease' = NoSession
    /\ UNCHANGED <<phase, blocked, source, record, capsule, audience, cmd, attempts, past, chosen>>

\* Something the capsules are compiled from changes.
EditSource ==
    /\ source < MaxEdits
    /\ source' = source + 1
    /\ UNCHANGED <<phase, blocked, record, capsule, lease, audience, cmd, attempts, past, chosen>>

Crash(s) ==
    /\ Crashes /\ serial /\ ~Idle(s)
    /\ EndCommand(s)
    /\ past' = [past EXCEPT !.crashed = TRUE]
    /\ UNCHANGED <<phase, blocked, source, record, capsule, lease, audience, attempts>>

Step(s) ==
    /\ serial => \A t \in Sessions \ {s} : Idle(t)
    /\ UNCHANGED chosen
    /\ \/ \E op \in offered \cap ({"next", "enter"} \cup Choices) : Compile(s, op)
       \/ Prepare(s) \/ Judge(s) \/ Acquire(s) \/ Write(s) \/ Remember(s)
       \/ Reset(s)
       \/ CompleteBuilder(s) \/ CompleteReview(s) \/ CompleteQa(s)
       \/ RecordAudience(s) \/ CompleteAudience(s) \/ ReturnTask(s)
       \/ BlockTask(s) \/ ResumeTask(s)
       \/ Crash(s)

Next == (\E s \in Sessions : Step(s)) \/ Expire \/ EditSource

Spec == Init /\ [][Next]_vars

-----------------------------------------------------------------------------
(* Properties *)

\* Type invariant.
TypeOK ==
    /\ phase \in Phases /\ blocked \in BOOLEAN
    /\ source \in 0 .. MaxEdits
    /\ record \in [BoundaryPhases -> Records \cup {NoRecord}]
    /\ capsule \in [BoundaryPhases -> Digests \cup {NoRecord}]
    /\ lease \in SessionOrNone
    /\ audience \in [origin : SessionOrNone, forbidden : SUBSET Sessions]
    /\ cmd \in [Sessions ->
           {NoCommand}
           \cup [op : CommandNames, step : {"prepare", "judge"}, phase : BoundaryPhases,
                 digest : Digests]
           \cup [op : CommandNames, step : {"acquire", "write", "remember"},
                 phase : BoundaryPhases, record : Records]]
    /\ attempts \in 0 .. MaxAttempts
    /\ past \in History
    /\ serial \in BOOLEAN
    /\ offered \in Commands \cup RacedCommands

Seated == IF phase = "final-customer" THEN Entered("final-customer") ELSE NoSession

\* The session in the audience's seat did not complete the QA of this review cycle
\* and gave none of its reviews, until the task is returned for the first time or a
\* command dies between the two saves of a completed QA; of the earlier judges only
\* when commands come one after the other.  The message at phase-boundary.ts 249 asks
\* for more, "a fresh session distinct from every implementation/QA or prior audience
\* session in this review cycle", but nothing remembers who built or reviewed:
\* nothing keeps those out of the seat.
FirstAudienceIsFresh ==
    Seated # NoSession /\ past.returns = 0 /\ ~past.crashed
    => /\ Seated # past.source
       /\ serial => Seated \notin past.judges

Quiet == \A s \in Sessions : Idle(s)
Orderly == Quiet /\ serial /\ ~past.crashed

\* When commands come one after the other, a boundary that is to be entered finds
\* no lease of an earlier session in its way: the comment at phase-boundary.ts
\* 132-134, "otherwise a required fresh session cannot enter".  Two commands are no
\* part of it: a session that resumed the blocked task in the audience's phase was
\* given the lease without a boundary (workflow.ts 303-306), and keeps it; and
\* `lease acquire' and `lease take' give it to whoever asks.
FreshSessionCanEnter ==
    Orderly /\ phase \in BoundaryPhases /\ Entered(phase) = NoSession
    => \/ lease = NoSession
       \/ phase = "final-customer" /\ lease = past.resumer

\* A record that is entered was entered as the user chose: by the session that asked
\* to continue, by another one than asked for a fresh chat; and the audience's by none
\* of the sessions that the record keeps out.  (That the audience's is not entered by
\* the session that asked anew for a fresh chat is not so: with a third session, one
\* that chooses over an expired entry may enter itself.)
Honoured(p, r) ==
    IF IsAudience(p) THEN r.choice = "fresh-chat" /\ r.entered \notin r.forbidden \cup {r.origin}
    ELSE /\ r.choice = "continue-current" => r.entered = r.chooser
         /\ r.choice = "fresh-chat" => r.entered # r.chooser
ChoiceIsHonoured ==
    \A p \in BoundaryPhases : Entered(p) # NoSession => Honoured(p, record[p])

\* What the user chose for a phase, and who entered it, outlives every change of
\* what the capsule was compiled from, when commands come one after the other: only
\* a reset or a return asks the user again.
ChoiceStands ==
    [][serial => \A p \in BoundaryPhases \ {"final-customer"} :
           phase = p /\ record[p].status \in {"chosen", "entered"}
           => record'[p].status # "required"]_vars

=============================================================================
