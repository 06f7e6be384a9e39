------------------------ MODULE PhaseBoundaryProofs ------------------------
(***************************************************************************)
(* PhaseBoundary for every set of sessions, every choice of commands and   *)
(* every bound.  First the types; then, from what records and commands may *)
(* hold, the three safety properties that the runs check.                  *)
(***************************************************************************)
EXTENDS PhaseBoundary, TLAPS

EarlyCommands == [op : CommandNames, step : {"prepare", "judge"}, phase : BoundaryPhases,
                  digest : Digests]
LateCommands == [op : CommandNames, step : {"acquire", "write", "remember"},
                 phase : BoundaryPhases, record : Records]

(* What is true of the types beyond TypeOK: a return was counted before.    *)
Typed == TypeOK /\ past.returns <= attempts

-----------------------------------------------------------------------------
(* Records and commands.                                                    *)

LEMMA AudiencePhase ==
    ASSUME NEW p \in BoundaryPhases
    PROVE  IsAudience(p) <=> p = "final-customer"
BY DEF IsAudience, boundaryRole, BoundaryPhases

LEMMA NoneIsNoRecord == NoRecord \notin Records /\ NoRecord \notin Digests
<1>1. NoRecord \notin Records
  <2> SUFFICES ASSUME NoRecord \in Records PROVE FALSE
    OBVIOUS
  <2>1. NoRecord.status \in {"required", "chosen", "entered"}
    BY DEF Records
  <2> QED
    BY <2>1 DEF NoRecord
<1>2. NoRecord \notin Digests
  BY DEF NoRecord, Digests
<1> QED
  BY <1>1, <1>2

LEMMA NoneIsNotLate == NoCommand \notin LateCommands
<1> SUFFICES ASSUME NoCommand \in LateCommands PROVE FALSE
  OBVIOUS
<1>1. NoCommand.op \in CommandNames
  BY DEF LateCommands
<1> QED
  BY <1>1 DEF NoCommand, CommandNames, Choices

(* A command between compiling and judging has a digest; after that, the    *)
(* record it is going to write.                                             *)
LEMMA CommandKinds ==
    ASSUME TypeOK, NEW s \in Sessions
    PROVE  /\ AtStep(s, "prepare") \/ AtStep(s, "judge") => cmd[s] \in EarlyCommands
           /\ AtStep(s, "acquire") \/ AtStep(s, "write") \/ AtStep(s, "remember")
              => cmd[s] \in LateCommands
<1>1. cmd[s] \in {NoCommand} \cup EarlyCommands \cup LateCommands
  BY DEF TypeOK, EarlyCommands, LateCommands
<1>2. cmd[s] \in EarlyCommands => cmd[s].step \in {"prepare", "judge"}
  BY DEF EarlyCommands
<1>3. cmd[s] \in LateCommands => cmd[s].step \in {"acquire", "write", "remember"}
  BY DEF LateCommands
<1> QED
  BY <1>1, <1>2, <1>3 DEF AtStep

LEMMA NewRecordType ==
    ASSUME TypeOK, NEW p \in BoundaryPhases, NEW d \in Digests, NEW o \in SessionOrNone
    PROVE  newRecord(p, d, o) \in Records
<1>1. Stable(audience.forbidden \cup {audience.origin, o}) \subseteq Sessions
  BY DEF TypeOK, Stable, SessionOrNone
<1> QED
  BY <1>1 DEF newRecord, Records, SessionOrNone, Choices

LEMMA StatusTypes ==
    ASSUME TypeOK, NEW p \in BoundaryPhases, NEW d \in Digests, NEW o \in SessionOrNone
    PROVE  /\ StatusRecord(p, d, o) \in Records
           /\ Status(p, d, o) => /\ record' \in [BoundaryPhases -> Records \cup {NoRecord}]
                                 /\ lease' \in SessionOrNone
<1>1. record[p] \in Records \cup {NoRecord}
  BY DEF TypeOK
<1>2. StatusRecord(p, d, o) \in Records
  BY <1>1, NewRecordType DEF StatusRecord, Current
<1>3. ASSUME Status(p, d, o)
      PROVE  record' \in [BoundaryPhases -> Records \cup {NoRecord}]
  BY <1>2, <1>3 DEF Status, TypeOK
<1>4. ASSUME Status(p, d, o) PROVE lease' \in SessionOrNone
  BY <1>4 DEF Status, TypeOK, LeaseAfterInvalidate, SessionOrNone
<1> QED
  BY <1>2, <1>3, <1>4

-----------------------------------------------------------------------------
(* Types.                                                                   *)

Commanding == [Sessions -> {NoCommand} \cup EarlyCommands \cup LateCommands]

LEMMA Types ==
    TypeOK <=>
    /\ phase \in Phases /\ blocked \in BOOLEAN /\ source \in 0 .. MaxEdits
    /\ record \in [BoundaryPhases -> Records \cup {NoRecord}]
    /\ capsule \in [BoundaryPhases -> Digests \cup {NoRecord}]
    /\ lease \in SessionOrNone
    /\ audience \in [origin : SessionOrNone, forbidden : SUBSET Sessions]
    /\ cmd \in Commanding
    /\ attempts \in 0 .. MaxAttempts
    /\ past \in History
    /\ serial \in BOOLEAN /\ offered \in Commands \cup RacedCommands
<1>1. Commanding = [Sessions -> {NoCommand} \cup (EarlyCommands \cup LateCommands)]
  BY DEF Commanding
<1> QED
  BY <1>1 DEF TypeOK, EarlyCommands, LateCommands

(* The same of the next state.                                              *)
LEMMA TypesNext ==
    /\ phase' \in Phases /\ blocked' \in BOOLEAN /\ source' \in 0 .. MaxEdits
    /\ record' \in [BoundaryPhases -> Records \cup {NoRecord}]
    /\ capsule' \in [BoundaryPhases -> Digests \cup {NoRecord}]
    /\ lease' \in SessionOrNone
    /\ audience' \in [origin : SessionOrNone, forbidden : SUBSET Sessions]
    /\ cmd' \in Commanding
    /\ attempts' \in 0 .. MaxAttempts
    /\ past' \in History
    /\ serial' \in BOOLEAN /\ offered' \in Commands \cup RacedCommands
    => TypeOK'
<1>1. Commanding = [Sessions -> {NoCommand} \cup (EarlyCommands \cup LateCommands)]
  BY DEF Commanding
<1> QED
  BY <1>1 DEF TypeOK, EarlyCommands, LateCommands

LEMMA InitTyped == Init => Typed
<1> SUFFICES ASSUME Init PROVE Typed
  OBVIOUS
<1> USE PhaseBoundaryAssumption DEF Init
<1>1. past \in History /\ past.returns <= attempts
  BY DEF History, SessionOrNone
<1>2. cmd \in Commanding
  BY DEF Commanding
<1>3. phase \in Phases
  BY DEF Phases, BoundaryPhases
<1>4. blocked \in BOOLEAN
  OBVIOUS
<1> QED
  BY <1>1, <1>2, <1>3, <1>4, Types DEF Typed, SessionOrNone

(* A command goes on as one of the two kinds, or ends.                      *)
LEMMA CommandTypes ==
    ASSUME TypeOK, NEW s \in Sessions
    PROVE  /\ EndCommand(s) => cmd' \in Commanding
           /\ \A c \in EarlyCommands \cup LateCommands : Continue(s, c) => cmd' \in Commanding
<1>1. cmd \in Commanding
  BY Types
<1> QED
  BY <1>1 DEF Commanding, EndCommand, Continue

LEMMA CompileTypes ==
    ASSUME TypeOK, NEW s \in Sessions, NEW op \in {"next", "enter"} \cup Choices, Compile(s, op)
    PROVE  capsule' \in [BoundaryPhases -> Digests \cup {NoRecord}] /\ cmd' \in Commanding
<1> DEFINE sealed == record[phase] # NoRecord /\ ~IsAudience(phase)
<1> DEFINE d == IF sealed THEN capsule[phase] ELSE [of |-> phase, version |-> source]
<1>1. phase \in BoundaryPhases /\ (sealed => capsule[phase] = record[phase].digest)
  BY DEF Compile
<1>2. d \in Digests
  <2>1. CASE sealed
    <3>1. record[phase] \in Records
      BY <1>1, <2>1, Types
    <3> QED
      BY <1>1, <2>1, <3>1 DEF Records
  <2>2. CASE ~sealed
    BY <1>1, <2>2, Types DEF Digests
  <2> QED
    BY <2>1, <2>2
<1>3. capsule' = [capsule EXCEPT ![phase] = d]
      /\ Continue(s, [op |-> op, step |-> "prepare", phase |-> phase, digest |-> d])
  BY DEF Compile
<1> HIDE DEF d, sealed
<1>4. capsule' \in [BoundaryPhases -> Digests \cup {NoRecord}]
  BY <1>1, <1>2, <1>3, Types
<1>5. [op |-> op, step |-> "prepare", phase |-> phase, digest |-> d] \in EarlyCommands
  BY <1>1, <1>2 DEF EarlyCommands, CommandNames
<1> QED
  BY <1>3, <1>4, <1>5, CommandTypes

LEMMA PrepareTypes ==
    ASSUME TypeOK, NEW s \in Sessions, Prepare(s)
    PROVE  /\ record' \in [BoundaryPhases -> Records \cup {NoRecord}]
           /\ lease' \in SessionOrNone /\ cmd' \in Commanding
<1> DEFINE c == cmd[s]
<1> DEFINE origin == IF IsAudience(c.phase) /\ audience.origin # NoSession
                     THEN audience.origin ELSE s
<1>1. c \in EarlyCommands
  BY CommandKinds DEF Prepare
<1>2. origin \in SessionOrNone
  BY DEF TypeOK, SessionOrNone
<1>3. c.phase \in BoundaryPhases /\ c.digest \in Digests
  BY <1>1 DEF EarlyCommands
<1>4. [c EXCEPT !.step = "judge"] \in EarlyCommands
  BY <1>1 DEF EarlyCommands
<1>5. Status(c.phase, c.digest, origin)
  BY DEF Prepare
<1>6. EndCommand(s) \/ Continue(s, [c EXCEPT !.step = "judge"])
  BY DEF Prepare
<1> HIDE DEF c, origin
<1> QED
  BY <1>2, <1>3, <1>4, <1>5, <1>6, StatusTypes, CommandTypes

LEMMA JudgeTypes ==
    ASSUME TypeOK, NEW s \in Sessions, Judge(s)
    PROVE  /\ record' \in [BoundaryPhases -> Records \cup {NoRecord}]
           /\ lease' \in SessionOrNone /\ cmd' \in Commanding
<1> DEFINE c == cmd[s]
<1> DEFINE r == StatusRecord(phase, c.digest, s)
<1>1. c \in EarlyCommands
  BY CommandKinds DEF Judge
<1>2. CASE phase \notin BoundaryPhases
  BY <1>2, Types, CommandTypes DEF Judge
<1>3. CASE phase \in BoundaryPhases
  <2>1. c.digest \in Digests /\ c.op \in CommandNames /\ s \in SessionOrNone
    BY <1>1 DEF EarlyCommands, SessionOrNone
  <2>2. r \in Records
    BY <1>3, <2>1, StatusTypes
  <2>3. Status(phase, c.digest, s)
    BY <1>3 DEF Judge
  <2>4. ASSUME c.op \in Choices
        PROVE  [op |-> c.op, step |-> "write", phase |-> phase,
                record |-> [r EXCEPT !.status = "chosen", !.choice = c.op,
                                     !.chooser = s, !.entered = NoSession]] \in LateCommands
    <3>1. [r EXCEPT !.status = "chosen", !.choice = c.op, !.chooser = s,
                    !.entered = NoSession] \in Records
      BY <2>1, <2>2, <2>4 DEF Records, SessionOrNone
    <3> QED
      BY <1>3, <2>1, <3>1 DEF LateCommands
  <2>5. [op |-> c.op, step |-> "acquire", phase |-> phase,
         record |-> [r EXCEPT !.status = "entered", !.entered = s]] \in LateCommands
    <3>1. [r EXCEPT !.status = "entered", !.entered = s] \in Records
      BY <2>1, <2>2 DEF Records
    <3> QED
      BY <1>3, <2>1, <3>1 DEF LateCommands
  <2>6. \/ EndCommand(s)
        \/ /\ c.op \in Choices
           /\ Continue(s, [op |-> c.op, step |-> "write", phase |-> phase,
                   record |-> [r EXCEPT !.status = "chosen", !.choice = c.op,
                                        !.chooser = s, !.entered = NoSession]])
        \/ Continue(s, [op |-> c.op, step |-> "acquire", phase |-> phase,
                   record |-> [r EXCEPT !.status = "entered", !.entered = s]])
    BY <1>3 DEF Judge
  <2> HIDE DEF c, r
  <2> QED
    BY <1>3, <2>1, <2>3, <2>4, <2>5, <2>6, StatusTypes, CommandTypes
<1> QED
  BY <1>2, <1>3

LEMMA AcquireTypes ==
    ASSUME TypeOK, NEW s \in Sessions, Acquire(s)
    PROVE  lease' \in SessionOrNone /\ cmd' \in Commanding
<1>1. cmd[s] \in LateCommands
  BY CommandKinds DEF Acquire
<1>2. [cmd[s] EXCEPT !.step = "write"] \in LateCommands
  BY <1>1 DEF LateCommands
<1>3. lease' \in SessionOrNone
  BY Types DEF Acquire, SessionOrNone
<1>4. EndCommand(s) \/ Continue(s, [cmd[s] EXCEPT !.step = "write"])
  BY DEF Acquire
<1> QED
  BY <1>2, <1>3, <1>4, CommandTypes

LEMMA WriteTypes ==
    ASSUME TypeOK, NEW s \in Sessions, Write(s)
    PROVE  record' \in [BoundaryPhases -> Records \cup {NoRecord}] /\ cmd' \in Commanding
<1>1. cmd[s] \in LateCommands
  BY CommandKinds DEF Write
<1>2. cmd[s].record \in Records /\ [cmd[s] EXCEPT !.step = "remember"] \in LateCommands
  BY <1>1 DEF LateCommands
<1>3. EndCommand(s) \/ Continue(s, [cmd[s] EXCEPT !.step = "remember"])
  BY DEF Write
<1>4. record' = [record EXCEPT ![cmd[s].phase] = cmd[s].record]
  BY DEF Write
<1> QED
  BY <1>2, <1>3, <1>4, CommandTypes, Types

LEMMA RememberedType ==
    ASSUME TypeOK, NEW s \in Sessions, NEW b \in BOOLEAN
    PROVE  Remembered(s, b) \in [origin : SessionOrNone, forbidden : SUBSET Sessions]
BY DEF TypeOK, Remembered, Stable, SessionOrNone

(* What the workflow does keeps the types.                                  *)
LEMMA WorkflowTypes ==
    ASSUME Typed, NEW s \in Sessions, UNCHANGED chosen,
           \/ Reset(s) \/ CompleteBuilder(s) \/ CompleteReview(s) \/ CompleteQa(s)
           \/ RecordAudience(s) \/ CompleteAudience(s) \/ ReturnTask(s)
           \/ BlockTask(s) \/ ResumeTask(s)
    PROVE  Typed'
<1> USE Types, TypesNext, PhaseBoundaryAssumption DEF Typed, chosen
<1> DEFINE Unrecorded(p) == [record EXCEPT ![p] = NoRecord]
<1>1. \A p \in BoundaryPhases :
          Unrecorded(p) \in [BoundaryPhases -> Records \cup {NoRecord}]
  OBVIOUS
<1>2. s \in SessionOrNone /\ NoSession \in SessionOrNone
  BY DEF SessionOrNone
<1>3. /\ "builder" \in BoundaryPhases /\ "technical-reviewer" \in BoundaryPhases
      /\ "final-customer" \in BoundaryPhases
  BY DEF BoundaryPhases
<1>4. {"builder", "technical-reviewer", "qa-engineer", "final-customer", "final-approval"}
          \subseteq Phases
  BY DEF Phases, BoundaryPhases
<1>5. CASE Reset(s)
  BY <1>1, <1>2, <1>5 DEF Reset
<1>6. CASE CompleteBuilder(s)
  BY <1>1, <1>2, <1>3, <1>4, <1>6 DEF CompleteBuilder
<1>7. CASE CompleteReview(s)
  BY <1>2, <1>4, <1>7 DEF CompleteReview
<1>8. CASE CompleteQa(s)
  <2>1. past' \in History /\ past'.returns = past.returns
    BY <1>2, <1>8 DEF CompleteQa, History
  <2>2. audience' \in [origin : SessionOrNone, forbidden : SUBSET Sessions]
    BY <1>8, RememberedType DEF CompleteQa
  <2> QED
    BY <1>2, <1>4, <1>8, <2>1, <2>2 DEF CompleteQa
<1>9. CASE RecordAudience(s)
  <2>1. past' \in History /\ past'.returns = past.returns
    BY <1>9 DEF RecordAudience, History
  <2>2. audience' \in [origin : SessionOrNone, forbidden : SUBSET Sessions]
    BY <1>9, RememberedType DEF RecordAudience
  <2>3. lease' \in SessionOrNone
    BY <1>2, <1>9 DEF RecordAudience, LeaseAfterInvalidate
  <2> QED
    BY <1>1, <1>3, <1>9, <2>1, <2>2, <2>3 DEF RecordAudience
<1>10. CASE CompleteAudience(s)
  <2>1. past' \in History /\ past'.returns = past.returns
    BY <1>10 DEF CompleteAudience, History
  <2> QED
    BY <1>2, <1>4, <1>10, <2>1 DEF CompleteAudience
<1>11. CASE ReturnTask(s)
  <2>1. attempts' \in 0 .. MaxAttempts /\ attempts' = attempts + 1
    BY <1>11 DEF ReturnTask
  <2>2. past' = past \/ past' = [past EXCEPT !.returns = @ + 1]
    BY <1>11 DEF ReturnTask
  <2>3. past' \in History /\ past'.returns <= attempts'
    BY <2>1, <2>2 DEF History
  <2>4. record' = Unrecorded("builder")
    BY <1>11 DEF ReturnTask
  <2>5. phase' \in Phases /\ blocked' \in BOOLEAN /\ lease' \in SessionOrNone
    BY <1>2, <1>4, <1>11 DEF ReturnTask
  <2>6. UNCHANGED <<source, capsule, audience, cmd>>
    BY <1>11 DEF ReturnTask
  <2> QED
    BY <1>1, <1>3, <2>1, <2>3, <2>4, <2>5, <2>6
<1>12. CASE BlockTask(s)
  BY <1>2, <1>12 DEF BlockTask
<1>13. CASE ResumeTask(s)
  <2>1. past' \in History /\ past'.returns = past.returns
    BY <1>2, <1>13 DEF ResumeTask, History
  <2> QED
    BY <1>2, <1>13, <2>1 DEF ResumeTask
<1> QED
  BY <1>5, <1>6, <1>7, <1>8, <1>9, <1>10, <1>11, <1>12, <1>13

LEMMA StepTyped == Typed /\ [Next]_vars => Typed'
<1> SUFFICES ASSUME Typed, [Next]_vars PROVE Typed'
  OBVIOUS
<1> USE Types, TypesNext DEF Typed, chosen
<1>1. ASSUME NEW s \in Sessions, Step(s) PROVE Typed'
  <2>1. UNCHANGED chosen
    BY <1>1 DEF Step
  <2>2. ASSUME NEW op \in {"next", "enter"} \cup Choices, Compile(s, op) PROVE Typed'
    BY <2>1, <2>2, CompileTypes DEF Compile
  <2>3. CASE Prepare(s)
    BY <2>1, <2>3, PrepareTypes DEF Prepare
  <2>4. CASE Judge(s)
    BY <2>1, <2>4, JudgeTypes DEF Judge
  <2>5. CASE Acquire(s)
    BY <2>1, <2>5, AcquireTypes DEF Acquire
  <2>6. CASE Write(s)
    BY <2>1, <2>6, WriteTypes DEF Write
  <2>7. CASE Remember(s)
    BY <2>1, <2>7, RememberedType, CommandTypes DEF Remember
  <2>8. CASE Crash(s)
    <3>1. past' \in History /\ past'.returns = past.returns
      BY <2>8 DEF Crash, History
    <3> QED
      BY <2>1, <2>8, <3>1, CommandTypes DEF Crash
  <2> QED
    BY <1>1, <2>1, <2>2, <2>3, <2>4, <2>5, <2>6, <2>7, <2>8, WorkflowTypes DEF Step
<1>2. CASE Expire
  BY <1>2 DEF Expire, SessionOrNone
<1>3. CASE EditSource
  BY <1>3, PhaseBoundaryAssumption DEF EditSource
<1>4. CASE UNCHANGED vars
  BY <1>4 DEF vars
<1> QED
  BY <1>1, <1>2, <1>3, <1>4 DEF Next

LEMMA AlwaysTyped == Spec => []Typed
BY InitTyped, StepTyped, PTL DEF Spec

(* Records, capsules, commands and sessions keep their types (phase-        *)
(* boundary.ts), and no more returns are done than were counted.            *)
THEOREM BoundaryTyping == Spec => []TypeOK
<1>1. Typed => TypeOK
  BY DEF Typed
<1> QED
  BY <1>1, AlwaysTyped, PTL

-----------------------------------------------------------------------------
(* Faithful records: what a record, or a command that is about to write     *)
(* one, says of its entry and of the choice.                                *)

Good(p, r) == /\ r.status = "entered" <=> r.entered # NoSession
              /\ r.entered # NoSession => Honoured(p, r)

GoodCommand(s, c) ==
    c # NoCommand /\ c.step \in {"acquire", "write", "remember"}
    => /\ c.record.status # "required" /\ Good(c.phase, c.record)
       /\ IF c.op = "enter" THEN c.record.entered = s
          ELSE c.record.entered = NoSession /\ c.step = "write"

Faithful == /\ \A p \in BoundaryPhases : record[p] # NoRecord => Good(p, record[p])
            /\ \A s \in Sessions : GoodCommand(s, cmd[s])

(* What a step of a command does to the commands.                           *)
LEMMA CommandMoves ==
    ASSUME TypeOK, NEW s \in Sessions
    PROVE  /\ EndCommand(s) => /\ cmd'[s] = NoCommand
                               /\ \A t \in Sessions \ {s} : cmd'[t] = cmd[t]
           /\ \A c : Continue(s, c) => /\ cmd'[s] = c
                                       /\ \A t \in Sessions \ {s} : cmd'[t] = cmd[t]
<1>1. cmd \in Commanding
  BY Types
<1> QED
  BY <1>1 DEF Commanding, EndCommand, Continue

LEMMA NoCommandIsGood == \A s : GoodCommand(s, NoCommand)
BY DEF GoodCommand

LEMMA NewRecordIsGood ==
    ASSUME NEW p, NEW d, NEW o
    PROVE  Good(p, newRecord(p, d, o)) /\ newRecord(p, d, o).digest = d
BY DEF Good, newRecord

LEMMA StatusIsGood ==
    ASSUME TypeOK, Faithful, NEW p \in BoundaryPhases, NEW d \in Digests, NEW o \in SessionOrNone,
           Status(p, d, o)
    PROVE  /\ Good(p, StatusRecord(p, d, o))
           /\ record'[p] \in {StatusRecord(p, d, o), NoRecord}
           /\ \A q \in BoundaryPhases \ {p} : record'[q] = record[q]
<1>1. Good(p, StatusRecord(p, d, o))
  BY NewRecordIsGood DEF Faithful, StatusRecord, Current
<1>2. record \in [BoundaryPhases -> Records \cup {NoRecord}]
  BY Types
<1> QED
  BY <1>1, <1>2 DEF Status

(* The three ways in which judging a record ends.                           *)
LEMMA JudgeMoves ==
    ASSUME TypeOK, NEW s \in Sessions, Judge(s), phase \in BoundaryPhases
    PROVE  LET c == cmd[s]
               r == StatusRecord(phase, c.digest, s)
           IN /\ Status(phase, c.digest, s)
              /\ \/ EndCommand(s)
                 \/ /\ c.op \in Choices /\ MayChoose(s, r) /\ ~StatusThrows(phase, c.digest)
                    /\ Continue(s, [op |-> c.op, step |-> "write", phase |-> phase,
                           record |-> [r EXCEPT !.status = "chosen", !.choice = c.op,
                                                !.chooser = s, !.entered = NoSession]])
                 \/ /\ c.op = "enter" /\ MayEnter(s, phase, r) /\ ~StatusThrows(phase, c.digest)
                    /\ Continue(s, [op |-> c.op, step |-> "acquire", phase |-> phase,
                           record |-> [r EXCEPT !.status = "entered", !.entered = s]])
BY DEF Judge

LEMMA ChosenIsGood ==
    ASSUME NEW r \in Records, NEW s \in Sessions, NEW p \in BoundaryPhases, NEW op \in Choices
    PROVE  GoodCommand(s, [op |-> op, step |-> "write", phase |-> p,
                           record |-> [r EXCEPT !.status = "chosen", !.choice = op,
                                                !.chooser = s, !.entered = NoSession]])
<1> DEFINE n == [r EXCEPT !.status = "chosen", !.choice = op, !.chooser = s,
                          !.entered = NoSession]
<1>1. n.status = "chosen" /\ n.entered = NoSession
  BY DEF Records
<1>2. op # "enter"
  BY DEF Choices
<1> SUFFICES GoodCommand(s, [op |-> op, step |-> "write", phase |-> p, record |-> n])
  OBVIOUS
<1> HIDE DEF n
<1> QED
  BY <1>1, <1>2 DEF GoodCommand, Good

LEMMA EnteredIsGood ==
    ASSUME NEW r \in Records, NEW s \in Sessions, NEW p \in BoundaryPhases, MayEnter(s, p, r)
    PROVE  GoodCommand(s, [op |-> "enter", step |-> "acquire", phase |-> p,
                           record |-> [r EXCEPT !.status = "entered", !.entered = s]])
<1> DEFINE n == [r EXCEPT !.status = "entered", !.entered = s]
<1>1. /\ n.status = "entered" /\ n.entered = s /\ n.choice = r.choice
      /\ n.chooser = r.chooser /\ n.forbidden = r.forbidden /\ n.origin = r.origin
  BY DEF Records
<1>2. s # NoSession
  BY PhaseBoundaryAssumption
<1> SUFFICES GoodCommand(s, [op |-> "enter", step |-> "acquire", phase |-> p, record |-> n])
  OBVIOUS
<1> HIDE DEF n
<1>3. Honoured(p, n)
  BY <1>1 DEF MayEnter, Honoured
<1> QED
  BY <1>1, <1>2, <1>3 DEF GoodCommand, Good

LEMMA JudgeFaithful ==
    ASSUME TypeOK, Faithful, NEW s \in Sessions, Judge(s)
    PROVE  Faithful'
<1> DEFINE c == cmd[s]
<1> DEFINE r == StatusRecord(phase, c.digest, s)
<1>1. c.digest \in Digests /\ s \in SessionOrNone
  BY CommandKinds DEF Judge, EarlyCommands, SessionOrNone
<1>2. CASE phase \notin BoundaryPhases
  BY <1>2, CommandMoves, NoCommandIsGood DEF Judge, Faithful
<1>3. CASE phase \in BoundaryPhases
  <2>1. Status(phase, c.digest, s)
    BY <1>3, JudgeMoves
  <2>2. r \in Records
    BY <1>1, <1>3, StatusTypes
  <2>3. \A p \in BoundaryPhases : record'[p] # NoRecord => Good(p, record'[p])
    BY <1>1, <1>3, <2>1, StatusIsGood DEF Faithful
  <2>4. CASE EndCommand(s)
    BY <2>3, <2>4, CommandMoves, NoCommandIsGood DEF Faithful
  <2>5. CASE /\ c.op \in Choices
             /\ Continue(s, [op |-> c.op, step |-> "write", phase |-> phase,
                    record |-> [r EXCEPT !.status = "chosen", !.choice = c.op,
                                         !.chooser = s, !.entered = NoSession]])
    <3> DEFINE k == [op |-> c.op, step |-> "write", phase |-> phase,
                     record |-> [r EXCEPT !.status = "chosen", !.choice = c.op,
                                          !.chooser = s, !.entered = NoSession]]
    <3>1. Continue(s, k)
      BY <2>5
    <3>2. GoodCommand(s, k)
      BY <1>3, <2>2, <2>5, ChosenIsGood
    <3> HIDE DEF k
    <3> QED
      BY <2>3, <3>1, <3>2, CommandMoves DEF Faithful
  <2>6. CASE /\ c.op = "enter" /\ MayEnter(s, phase, r)
             /\ Continue(s, [op |-> c.op, step |-> "acquire", phase |-> phase,
                    record |-> [r EXCEPT !.status = "entered", !.entered = s]])
    <3> DEFINE k == [op |-> "enter", step |-> "acquire", phase |-> phase,
                     record |-> [r EXCEPT !.status = "entered", !.entered = s]]
    <3>1. Continue(s, k)
      BY <2>6
    <3>2. GoodCommand(s, k)
      BY <1>3, <2>2, <2>6, EnteredIsGood
    <3> HIDE DEF k
    <3> QED
      BY <2>3, <3>1, <3>2, CommandMoves DEF Faithful
  <2> QED
    BY <1>3, <2>4, <2>5, <2>6, JudgeMoves
<1> QED
  BY <1>2, <1>3

LEMMA PrepareFaithful ==
    ASSUME TypeOK, Faithful, NEW s \in Sessions, Prepare(s)
    PROVE  Faithful'
<1> DEFINE c == cmd[s]
<1> DEFINE origin == IF IsAudience(c.phase) /\ audience.origin # NoSession
                     THEN audience.origin ELSE s
<1>1. c \in EarlyCommands /\ origin \in SessionOrNone
  BY CommandKinds DEF Prepare, TypeOK, SessionOrNone
<1>2. c.phase \in BoundaryPhases /\ c.digest \in Digests
  BY <1>1 DEF EarlyCommands
<1>3. Status(c.phase, c.digest, origin)
  BY DEF Prepare
<1>4. EndCommand(s) \/ Continue(s, [c EXCEPT !.step = "judge"])
  BY DEF Prepare
<1>5. GoodCommand(s, [c EXCEPT !.step = "judge"])
  BY <1>1 DEF GoodCommand, EarlyCommands
<1> HIDE DEF c, origin
<1>6. \A p \in BoundaryPhases : record'[p] # NoRecord => Good(p, record'[p])
  BY <1>1, <1>2, <1>3, StatusIsGood DEF Faithful
<1> QED
  BY <1>4, <1>5, <1>6, CommandMoves, NoCommandIsGood DEF Faithful

LEMMA LateFaithful ==
    ASSUME TypeOK, Faithful, NEW s \in Sessions, Acquire(s) \/ Write(s)
    PROVE  Faithful'
<1> DEFINE c == cmd[s]
<1>1. c \in LateCommands /\ GoodCommand(s, c) /\ c # NoCommand
  BY CommandKinds DEF Acquire, Write, AtStep, Faithful
<1>2. c.phase \in BoundaryPhases /\ Good(c.phase, c.record)
  BY <1>1 DEF LateCommands, GoodCommand
<1>3. ASSUME NEW step \in {"write", "remember"}, c.op = "enter"
      PROVE  GoodCommand(s, [c EXCEPT !.step = step])
  BY <1>1, <1>3 DEF GoodCommand, LateCommands
<1>4. CASE Acquire(s)
  <2>1. c.step = "acquire" /\ c.op = "enter"
    BY <1>1, <1>4 DEF Acquire, AtStep, GoodCommand
  <2>2. EndCommand(s) \/ Continue(s, [c EXCEPT !.step = "write"])
    BY <1>4 DEF Acquire
  <2>3. record' = record
    BY <1>4 DEF Acquire
  <2> HIDE DEF c
  <2> QED
    BY <1>3, <2>1, <2>2, <2>3, CommandMoves, NoCommandIsGood DEF Faithful
<1>5. CASE Write(s)
  <2>1. EndCommand(s) \/ (c.op = "enter" /\ Continue(s, [c EXCEPT !.step = "remember"]))
    BY <1>5 DEF Write
  <2>2. record' = [record EXCEPT ![c.phase] = c.record]
    BY <1>5 DEF Write
  <2>3. record \in [BoundaryPhases -> Records \cup {NoRecord}]
    BY Types
  <2> HIDE DEF c
  <2>4. \A p \in BoundaryPhases : record'[p] # NoRecord => Good(p, record'[p])
    BY <1>2, <2>2, <2>3 DEF Faithful
  <2> QED
    BY <1>3, <2>1, <2>4, CommandMoves, NoCommandIsGood DEF Faithful
<1> QED
  BY <1>4, <1>5

(* The workflow only removes records.                                       *)
LEMMA WorkflowMoves ==
    ASSUME TypeOK, NEW s \in Sessions,
           \/ Reset(s) \/ CompleteBuilder(s) \/ CompleteReview(s) \/ CompleteQa(s)
           \/ RecordAudience(s) \/ CompleteAudience(s) \/ ReturnTask(s)
           \/ BlockTask(s) \/ ResumeTask(s)
    PROVE  /\ \A p \in BoundaryPhases : record'[p] \in {record[p], NoRecord}
           /\ cmd' = cmd /\ Idle(s)
<1>1. record \in [BoundaryPhases -> Records \cup {NoRecord}]
  BY Types
<1> QED
  BY <1>1 DEF Reset, CompleteBuilder, CompleteReview, CompleteQa, RecordAudience,
              CompleteAudience, ReturnTask, BlockTask, ResumeTask, MayComplete

LEMMA StepFaithful == Typed /\ Faithful /\ [Next]_vars => Faithful'
<1> SUFFICES ASSUME TypeOK, Faithful, [Next]_vars PROVE Faithful'
  BY DEF Typed
<1>1. ASSUME NEW s \in Sessions, Step(s) PROVE Faithful'
  <2>1. ASSUME NEW op, Compile(s, op) PROVE Faithful'
    <3>1. PICK d : Continue(s, [op |-> op, step |-> "prepare", phase |-> phase, digest |-> d])
      BY <2>1 DEF Compile
    <3>2. GoodCommand(s, [op |-> op, step |-> "prepare", phase |-> phase, digest |-> d])
      BY DEF GoodCommand
    <3>3. record' = record
      BY <2>1 DEF Compile
    <3> QED
      BY <3>1, <3>2, <3>3, CommandMoves DEF Faithful
  <2>2. CASE Remember(s) \/ Crash(s)
    BY <2>2, CommandMoves, NoCommandIsGood DEF Remember, Crash, Faithful
  <2>3. CASE \/ Reset(s) \/ CompleteBuilder(s) \/ CompleteReview(s) \/ CompleteQa(s)
             \/ RecordAudience(s) \/ CompleteAudience(s) \/ ReturnTask(s)
             \/ BlockTask(s) \/ ResumeTask(s)
    BY <2>3, WorkflowMoves DEF Faithful
  <2> QED
    BY <1>1, <2>1, <2>2, <2>3, PrepareFaithful, JudgeFaithful, LateFaithful DEF Step
<1>2. CASE Expire \/ EditSource \/ UNCHANGED vars
  BY <1>2 DEF Expire, EditSource, vars, Faithful
<1> QED
  BY <1>1, <1>2 DEF Next

LEMMA AlwaysFaithful == Spec => []Faithful
<1>1. Init => Faithful
  BY NoCommandIsGood DEF Init, Faithful
<1> QED
  BY <1>1, AlwaysTyped, StepFaithful, PTL DEF Spec

(* A boundary is entered only as the user chose (phase-boundary.ts 230-275):*)
(* of any sessions, in any order of their commands, with crashes between    *)
(* the steps.                                                               *)
THEOREM EntryHonoursChoice == Spec => []ChoiceIsHonoured
<1>1. Typed /\ Faithful => ChoiceIsHonoured
  BY DEF Typed, Faithful, Good, ChoiceIsHonoured, Entered
<1> QED
  BY <1>1, AlwaysTyped, AlwaysFaithful, PTL

-----------------------------------------------------------------------------
(* The first audience: while nothing was returned and nothing crashed, the  *)
(* session that completed QA, and in sequence also those that judged since, *)
(* are kept out by what the task remembers, by the record and by every      *)
(* command that is about to write one.                                      *)

Kept(a) == a.forbidden \cup {a.origin}

Barred == {past.source}
          \cup (IF serial /\ phase = "final-customer" THEN past.judges ELSE {})

KeepsOut(B, c) ==
    c # NoCommand /\ c.phase = "final-customer" /\ c.step \in {"acquire", "write", "remember"}
    => B \subseteq Kept(c.record)

KeptOut(B) ==
    /\ B \subseteq Kept(audience)
    /\ record["final-customer"] # NoRecord => B \subseteq Kept(record["final-customer"])
    /\ \A s \in Sessions : KeepsOut(B, cmd[s])

Untouched ==
    /\ record["final-customer"] = NoRecord
    /\ \A s \in Sessions : cmd[s] # NoCommand => cmd[s].phase # "final-customer"

AudienceIsFresh ==
    past.returns = 0 /\ ~past.crashed
    => IF phase \in {"final-customer", "final-approval"}
       THEN past.source \in Sessions /\ KeptOut(Barred)
       ELSE Untouched

CommandStep(s) ==
    \/ \E op \in {"next", "enter"} \cup Choices : Compile(s, op)
    \/ Prepare(s) \/ Judge(s) \/ Acquire(s) \/ Write(s) \/ Remember(s)

LEMMA NewRecordKeepsOut ==
    ASSUME TypeOK, NEW B \in SUBSET Sessions, B \subseteq Kept(audience),
           NEW d, NEW o
    PROVE  B \subseteq Kept(newRecord("final-customer", d, o))
<1>1. NoSession \notin B
  BY PhaseBoundaryAssumption
<1>2. IsAudience("final-customer")
  BY AudiencePhase DEF BoundaryPhases
<1>3. newRecord("final-customer", d, o).forbidden
      = Stable(audience.forbidden \cup {audience.origin, o})
  BY <1>2 DEF newRecord
<1> QED
  BY <1>1, <1>3 DEF Kept, Stable

LEMMA StatusKeepsOut ==
    ASSUME TypeOK, NEW B \in SUBSET Sessions, KeptOut(B),
           NEW p \in BoundaryPhases, NEW d \in Digests, NEW o \in SessionOrNone, Status(p, d, o)
    PROVE  /\ p = "final-customer" => B \subseteq Kept(StatusRecord(p, d, o))
           /\ record'["final-customer"] # NoRecord
              => B \subseteq Kept(record'["final-customer"])
<1>1. p = "final-customer" => B \subseteq Kept(StatusRecord(p, d, o))
  BY NewRecordKeepsOut DEF StatusRecord, KeptOut, Current
<1>2. record \in [BoundaryPhases -> Records \cup {NoRecord}]
      /\ "final-customer" \in BoundaryPhases
  BY Types DEF BoundaryPhases
<1>3. CASE p = "final-customer"
  <2>1. record'["final-customer"] \in {StatusRecord(p, d, o), NoRecord}
    BY <1>2, <1>3 DEF Status
  <2> QED
    BY <1>1, <1>3, <2>1
<1>4. CASE p # "final-customer"
  <2>1. record'["final-customer"] = record["final-customer"]
    BY <1>2, <1>4 DEF Status
  <2> QED
    BY <1>4, <2>1 DEF KeptOut
<1> QED
  BY <1>1, <1>3, <1>4

LEMMA RememberedKeeps ==
    ASSUME TypeOK, NEW B \in SUBSET Sessions, B \subseteq Kept(audience),
           NEW s \in Sessions, NEW b \in BOOLEAN
    PROVE  B \cup {s} \subseteq Kept(Remembered(s, b))
<1>1. NoSession \notin B /\ s # NoSession
  BY PhaseBoundaryAssumption
<1> QED
  BY <1>1 DEF Kept, Remembered, Stable

LEMMA JudgeKeepsOut ==
    ASSUME TypeOK, NEW B \in SUBSET Sessions, KeptOut(B), NEW s \in Sessions, Judge(s)
    PROVE  KeptOut(B)'
<1> DEFINE c == cmd[s]
<1> DEFINE r == StatusRecord(phase, c.digest, s)
<1>1. c.digest \in Digests /\ s \in SessionOrNone
  BY CommandKinds DEF Judge, EarlyCommands, SessionOrNone
<1>2. audience' = audience
  BY DEF Judge
<1>3. CASE phase \notin BoundaryPhases
  <2>1. EndCommand(s) /\ record' = record
    BY <1>3 DEF Judge
  <2> QED
    BY <1>2, <2>1, CommandMoves DEF KeptOut, KeepsOut
<1>4. CASE phase \in BoundaryPhases
  <2>1. Status(phase, c.digest, s)
    BY <1>4, JudgeMoves
  <2>2. r \in Records
    BY <1>1, <1>4, StatusTypes
  <2>3. /\ phase = "final-customer" => B \subseteq Kept(r)
        /\ record'["final-customer"] # NoRecord => B \subseteq Kept(record'["final-customer"])
    BY <1>1, <1>4, <2>1, StatusKeepsOut
  <2>4. ASSUME NEW op, NEW step, NEW n, phase = "final-customer" => B \subseteq Kept(n),
               Continue(s, [op |-> op, step |-> step, phase |-> phase, record |-> n])
        PROVE  KeptOut(B)'
    <3>1. KeepsOut(B, [op |-> op, step |-> step, phase |-> phase, record |-> n])
      BY <2>4 DEF KeepsOut
    <3> QED
      BY <1>2, <2>3, <2>4, <3>1, CommandMoves DEF KeptOut
  <2>5. ASSUME NEW op
        PROVE  Kept([r EXCEPT !.status = "chosen", !.choice = op, !.chooser = s,
                              !.entered = NoSession]) = Kept(r)
    BY <2>2 DEF Kept, Records
  <2>6. Kept([r EXCEPT !.status = "entered", !.entered = s]) = Kept(r)
    BY <2>2 DEF Kept, Records
  <2>7. CASE EndCommand(s)
    BY <1>2, <2>3, <2>7, CommandMoves DEF KeptOut, KeepsOut
  <2>8. CASE Continue(s, [op |-> c.op, step |-> "write", phase |-> phase,
                record |-> [r EXCEPT !.status = "chosen", !.choice = c.op,
                                     !.chooser = s, !.entered = NoSession]])
    BY <2>3, <2>4, <2>5, <2>8
  <2>9. CASE Continue(s, [op |-> c.op, step |-> "acquire", phase |-> phase,
                record |-> [r EXCEPT !.status = "entered", !.entered = s]])
    BY <2>3, <2>4, <2>6, <2>9
  <2> QED
    BY <1>4, <2>7, <2>8, <2>9, JudgeMoves
<1> QED
  BY <1>3, <1>4

LEMMA CommandKeepsOut ==
    ASSUME TypeOK, NEW B \in SUBSET Sessions, KeptOut(B), NEW s \in Sessions, CommandStep(s)
    PROVE  KeptOut(B)'
<1> DEFINE c == cmd[s]
<1>1. ASSUME NEW op, Compile(s, op) PROVE KeptOut(B)'
  <2>1. PICK d : Continue(s, [op |-> op, step |-> "prepare", phase |-> phase, digest |-> d])
    BY <1>1 DEF Compile
  <2>2. KeepsOut(B, [op |-> op, step |-> "prepare", phase |-> phase, digest |-> d])
    BY DEF KeepsOut
  <2>3. UNCHANGED <<record, audience>>
    BY <1>1 DEF Compile
  <2> QED
    BY <2>1, <2>2, <2>3, CommandMoves DEF KeptOut
<1>2. CASE Prepare(s)
  <2> DEFINE origin == IF IsAudience(c.phase) /\ audience.origin # NoSession
                       THEN audience.origin ELSE s
  <2>1. c \in EarlyCommands /\ origin \in SessionOrNone
    BY <1>2, CommandKinds DEF Prepare, TypeOK, SessionOrNone
  <2>2. c.phase \in BoundaryPhases /\ c.digest \in Digests
    BY <2>1 DEF EarlyCommands
  <2>3. Status(c.phase, c.digest, origin) /\ audience' = audience
    BY <1>2 DEF Prepare
  <2>4. EndCommand(s) \/ Continue(s, [c EXCEPT !.step = "judge"])
    BY <1>2 DEF Prepare
  <2>5. KeepsOut(B, [c EXCEPT !.step = "judge"]) /\ KeepsOut(B, NoCommand)
    BY <2>1 DEF KeepsOut, EarlyCommands
  <2> HIDE DEF c, origin
  <2>6. record'["final-customer"] # NoRecord => B \subseteq Kept(record'["final-customer"])
    BY <2>1, <2>2, <2>3, StatusKeepsOut
  <2> QED
    BY <2>3, <2>4, <2>5, <2>6, CommandMoves DEF KeptOut
<1>3. CASE Acquire(s) \/ Write(s)
  <2>1. c \in LateCommands /\ c # NoCommand /\ KeepsOut(B, c)
    BY <1>3, CommandKinds DEF Acquire, Write, AtStep, KeptOut
  <2>2. KeepsOut(B, NoCommand)
        /\ \A step \in {"write", "remember"} : KeepsOut(B, [c EXCEPT !.step = step])
    BY <2>1 DEF KeepsOut, LateCommands
  <2>3. \/ EndCommand(s)
        \/ \E step \in {"write", "remember"} : Continue(s, [c EXCEPT !.step = step])
    BY <1>3 DEF Acquire, Write
  <2>4. c.phase = "final-customer" => B \subseteq Kept(c.record)
    BY <2>1 DEF KeepsOut, LateCommands
  <2>5. record' = record \/ record' = [record EXCEPT ![c.phase] = c.record]
    BY <1>3 DEF Acquire, Write
  <2>6. audience' = audience
    BY <1>3 DEF Acquire, Write
  <2>7. record \in [BoundaryPhases -> Records \cup {NoRecord}]
        /\ "final-customer" \in BoundaryPhases
    BY Types DEF BoundaryPhases
  <2> HIDE DEF c
  <2>8. record'["final-customer"] # NoRecord => B \subseteq Kept(record'["final-customer"])
    BY <2>4, <2>5, <2>7 DEF KeptOut
  <2> QED
    BY <2>2, <2>3, <2>6, <2>8, CommandMoves DEF KeptOut
<1>4. CASE Remember(s)
  <2>1. B \subseteq Kept(audience')
    BY <1>4, RememberedKeeps DEF Remember, KeptOut
  <2>2. EndCommand(s) /\ record' = record
    BY <1>4 DEF Remember
  <2> QED
    BY <2>1, <2>2, CommandMoves DEF KeptOut, KeepsOut
<1> QED
  BY <1>1, <1>2, <1>3, <1>4, JudgeKeepsOut DEF CommandStep

LEMMA CommandUntouched ==
    ASSUME TypeOK, Untouched, phase # "final-customer", NEW s \in Sessions, CommandStep(s)
    PROVE  Untouched'
<1> DEFINE c == cmd[s]
<1>1. record \in [BoundaryPhases -> Records \cup {NoRecord}]
      /\ "final-customer" \in BoundaryPhases
  BY Types DEF BoundaryPhases
<1>2. ASSUME NEW op, Compile(s, op) PROVE Untouched'
  BY <1>2, CommandMoves DEF Compile, Untouched
<1>3. CASE Prepare(s)
  <2>1. c \in EarlyCommands /\ c.phase # "final-customer"
    BY <1>3, CommandKinds DEF Prepare, AtStep, Untouched
  <2>2. [c EXCEPT !.step = "judge"].phase = c.phase
    BY <2>1 DEF EarlyCommands
  <2>3. EndCommand(s) \/ Continue(s, [c EXCEPT !.step = "judge"])
    BY <1>3 DEF Prepare
  <2>4. \E r : record' = [record EXCEPT ![c.phase] = r]
    BY <1>3 DEF Prepare, Status
  <2> HIDE DEF c
  <2> QED
    BY <1>1, <2>1, <2>2, <2>3, <2>4, CommandMoves DEF Untouched
<1>4. CASE Judge(s)
  <2>1. \/ record' = record
        \/ \E r : record' = [record EXCEPT ![phase] = r]
    BY <1>4 DEF Judge, Status
  <2>2. \/ EndCommand(s)
        \/ \E op, step, r :
              Continue(s, [op |-> op, step |-> step, phase |-> phase, record |-> r])
    BY <1>4, JudgeMoves DEF Judge
  <2>3. record'["final-customer"] = NoRecord
    BY <1>1, <2>1 DEF Untouched
  <2>4. /\ cmd'[s] # NoCommand => cmd'[s].phase = phase
        /\ \A t \in Sessions \ {s} : cmd'[t] = cmd[t]
    <3>1. CASE EndCommand(s)
      BY <3>1, CommandMoves
    <3>2. ASSUME NEW op, NEW step, NEW r,
                 Continue(s, [op |-> op, step |-> step, phase |-> phase, record |-> r])
          PROVE  /\ cmd'[s].phase = phase
                 /\ \A t \in Sessions \ {s} : cmd'[t] = cmd[t]
      BY <3>2, CommandMoves
    <3> QED
      BY <2>2, <3>1, <3>2
  <2> QED
    BY <1>4, <2>3, <2>4 DEF Untouched
<1>5. CASE Acquire(s) \/ Write(s)
  <2>1. c \in LateCommands /\ c.phase # "final-customer"
    BY <1>5, CommandKinds DEF Acquire, Write, AtStep, Untouched
  <2>2. \A step : [c EXCEPT !.step = step].phase = c.phase
    BY <2>1 DEF LateCommands
  <2>3. EndCommand(s) \/ \E step : Continue(s, [c EXCEPT !.step = step])
    BY <1>5 DEF Acquire, Write
  <2>4. record' = record \/ \E r : record' = [record EXCEPT ![c.phase] = r]
    BY <1>5 DEF Acquire, Write
  <2> HIDE DEF c
  <2>5. record'["final-customer"] = NoRecord
    BY <1>1, <2>1, <2>4 DEF Untouched
  <2>6. /\ cmd'[s] # NoCommand => cmd'[s].phase = c.phase
        /\ \A t \in Sessions \ {s} : cmd'[t] = cmd[t]
    <3>1. CASE EndCommand(s)
      BY <3>1, CommandMoves
    <3>2. ASSUME NEW step, Continue(s, [c EXCEPT !.step = step])
          PROVE  /\ cmd'[s].phase = c.phase
                 /\ \A t \in Sessions \ {s} : cmd'[t] = cmd[t]
      <4> DEFINE k == [c EXCEPT !.step = step]
      <4>1. Continue(s, k) /\ k.phase = c.phase
        BY <2>2, <3>2
      <4> HIDE DEF k
      <4> QED
        BY <4>1, CommandMoves
    <3> QED
      BY <2>3, <3>1, <3>2
  <2> QED
    BY <2>1, <2>5, <2>6 DEF Untouched
<1>6. CASE Remember(s)
  BY <1>6, CommandMoves DEF Remember, Untouched
<1> QED
  BY <1>2, <1>3, <1>4, <1>5, <1>6 DEF CommandStep

LEMMA BarredSessions ==
    ASSUME TypeOK, past.source \in Sessions
    PROVE  Barred \in SUBSET Sessions
BY Types DEF Barred, History

LEMMA CommandIsFresh ==
    ASSUME TypeOK, AudienceIsFresh, NEW s \in Sessions, CommandStep(s), UNCHANGED chosen
    PROVE  AudienceIsFresh'
<1> SUFFICES ASSUME past'.returns = 0, ~past'.crashed
             PROVE  IF phase' \in {"final-customer", "final-approval"}
                    THEN past'.source \in Sessions /\ KeptOut(Barred)' ELSE Untouched'
  BY DEF AudienceIsFresh
<1>1. UNCHANGED <<phase, past, serial>>
  BY DEF CommandStep, Compile, Prepare, Judge, Acquire, Write, Remember, chosen
<1>2. CASE phase \in {"final-customer", "final-approval"}
  <2>1. past.source \in Sessions /\ KeptOut(Barred)
    BY <1>1, <1>2 DEF AudienceIsFresh
  <2>2. PICK B \in SUBSET Sessions : B = Barred
    BY <2>1, BarredSessions
  <2>3. KeptOut(B)'
    BY <2>1, <2>2, CommandKeepsOut
  <2>4. Barred' = B
    BY <1>1, <2>2 DEF Barred
  <2> QED
    BY <1>1, <1>2, <2>1, <2>3, <2>4 DEF KeptOut
<1>3. CASE phase \notin {"final-customer", "final-approval"}
  BY <1>1, <1>3, CommandUntouched DEF AudienceIsFresh
<1> QED
  BY <1>2, <1>3

(* A set that is kept out stays so when records go and the task remembers   *)
(* more.                                                                    *)
LEMMA KeptOutStays ==
    ASSUME NEW B, KeptOut(B), cmd' = cmd, B \subseteq Kept(audience'),
           record'["final-customer"] \in {record["final-customer"], NoRecord}
    PROVE  KeptOut(B)'
BY DEF KeptOut

LEMMA WorkflowIsFresh ==
    ASSUME Typed, AudienceIsFresh, NEW s \in Sessions, UNCHANGED chosen,
           serial => \A t \in Sessions \ {s} : Idle(t),
           \/ Reset(s) \/ CompleteBuilder(s) \/ CompleteReview(s) \/ CompleteQa(s)
           \/ RecordAudience(s) \/ CompleteAudience(s) \/ ReturnTask(s)
           \/ BlockTask(s) \/ ResumeTask(s)
    PROVE  AudienceIsFresh'
<1> SUFFICES ASSUME past'.returns = 0, ~past'.crashed
             PROVE  IF phase' \in {"final-customer", "final-approval"}
                    THEN past'.source \in Sessions /\ KeptOut(Barred)' ELSE Untouched'
  BY DEF AudienceIsFresh
<1>1. TypeOK /\ cmd' = cmd /\ Idle(s) /\ serial' = serial
  BY WorkflowMoves DEF Typed, chosen
<1>2. record'["final-customer"] \in {record["final-customer"], NoRecord}
  BY <1>1, WorkflowMoves DEF BoundaryPhases
<1>3. past \in History /\ past.returns \in Nat
  BY <1>1, Types, PhaseBoundaryAssumption DEF History
<1>4. ASSUME Untouched PROVE Untouched'
  BY <1>1, <1>2, <1>4 DEF Untouched
<1>5. ASSUME UNCHANGED <<past.source, past.judges, past.returns, past.crashed, audience>>,
             phase' = phase \/ {phase, phase'} \cap {"final-customer", "final-approval"} = {}
      PROVE  IF phase' \in {"final-customer", "final-approval"}
             THEN past'.source \in Sessions /\ KeptOut(Barred)' ELSE Untouched'
  <2>1. CASE phase \in {"final-customer", "final-approval"}
    <3>1. past.source \in Sessions /\ KeptOut(Barred) /\ phase' = phase
      BY <1>5, <2>1 DEF AudienceIsFresh
    <3>2. PICK B : B = Barred
      OBVIOUS
    <3>3. KeptOut(B)'
      BY <1>1, <1>2, <1>5, <3>1, <3>2, KeptOutStays DEF KeptOut
    <3>4. Barred' = B
      BY <1>1, <1>5, <3>1, <3>2 DEF Barred
    <3> QED
      BY <1>5, <2>1, <3>1, <3>3, <3>4 DEF KeptOut
  <2>2. CASE phase \notin {"final-customer", "final-approval"}
    BY <1>4, <1>5, <2>2 DEF AudienceIsFresh
  <2> QED
    BY <2>1, <2>2
<1>6. CASE Reset(s) \/ CompleteBuilder(s) \/ CompleteReview(s)
  <2>1. UNCHANGED <<past, audience>>
    BY <1>6 DEF Reset, CompleteBuilder, CompleteReview
  <2>2. phase' = phase \/ {phase, phase'} \cap {"final-customer", "final-approval"} = {}
    BY <1>6 DEF Reset, CompleteBuilder, CompleteReview
  <2> QED
    BY <1>5, <2>1, <2>2
<1>7. CASE CompleteQa(s)
  <2>1. /\ phase = "qa-engineer" /\ phase' = "final-customer" /\ record' = record
        /\ past' \in {[past EXCEPT !.source = s, !.judges = {}, !.resumer = NoSession],
                      [past EXCEPT !.source = s, !.judges = {}, !.resumer = NoSession,
                                   !.crashed = TRUE]}
    BY <1>7 DEF CompleteQa
  <2>2. past' = [past EXCEPT !.source = s, !.judges = {}, !.resumer = NoSession]
    BY <1>3, <2>1 DEF History
  <2>3. past.returns = 0 /\ ~past.crashed /\ past'.source = s /\ past'.judges = {}
    BY <1>3, <2>2 DEF History
  <2>4. Untouched
    BY <2>1, <2>3 DEF AudienceIsFresh
  <2>5. audience' = Remembered(s, TRUE)
    BY <1>3, <1>7, <2>2 DEF CompleteQa, History
  <2>6. Barred' = {s}
    BY <2>3 DEF Barred
  <2>7. s \in Kept(audience')
    BY <2>5 DEF Kept, Remembered
  <2>8. KeptOut({s})'
    BY <1>1, <2>1, <2>4, <2>7 DEF KeptOut, KeepsOut, Untouched
  <2> QED
    BY <2>1, <2>3, <2>6, <2>8 DEF KeptOut
<1>8. CASE RecordAudience(s)
  <2>1. /\ phase = "final-customer" /\ phase' = phase
        /\ past' = [past EXCEPT !.judges = @ \cup {s}] /\ audience' = Remembered(s, TRUE)
        /\ record' = [record EXCEPT !["final-customer"] = NoRecord]
    BY <1>8 DEF RecordAudience
  <2>2. /\ past.returns = 0 /\ ~past.crashed
        /\ past'.source = past.source /\ past'.judges = past.judges \cup {s}
    BY <1>3, <2>1 DEF History
  <2>3. past.source \in Sessions /\ KeptOut(Barred)
    BY <2>1, <2>2 DEF AudienceIsFresh
  <2>4. PICK B \in SUBSET Sessions : B = Barred
    BY <1>1, <2>3, BarredSessions
  <2>5. B \cup {s} \subseteq Kept(audience')
    BY <1>1, <2>1, <2>3, <2>4, RememberedKeeps DEF KeptOut
  <2>6. record'["final-customer"] = NoRecord
    BY <1>1, <2>1, Types DEF BoundaryPhases
  <2>7. CASE serial
    <3>1. \A t \in Sessions : cmd[t] = NoCommand
      BY <1>1, <2>7 DEF Idle
    <3>2. Barred' = B \cup {s}
      BY <1>1, <2>1, <2>2, <2>4, <2>7 DEF Barred
    <3>3. KeptOut(B \cup {s})'
      BY <1>1, <2>5, <2>6, <3>1 DEF KeptOut, KeepsOut
    <3> QED
      BY <2>1, <2>2, <2>3, <3>2, <3>3 DEF KeptOut
  <2>8. CASE ~serial
    <3>1. Barred' = B
      BY <1>1, <2>1, <2>2, <2>4, <2>8 DEF Barred
    <3>2. KeptOut(B)'
      BY <1>1, <1>2, <2>3, <2>4, <2>5, KeptOutStays DEF KeptOut
    <3> QED
      BY <2>1, <2>2, <2>3, <3>1, <3>2 DEF KeptOut
  <2> QED
    BY <2>7, <2>8
<1>9. CASE CompleteAudience(s)
  <2>1. /\ phase = "final-customer" /\ phase' = "final-approval"
        /\ past' = [past EXCEPT !.judges = @ \cup {s}] /\ UNCHANGED <<record, audience>>
    BY <1>9 DEF CompleteAudience
  <2>2. past.returns = 0 /\ ~past.crashed /\ past'.source = past.source
    BY <1>3, <2>1 DEF History
  <2>3. past.source \in Sessions /\ KeptOut(Barred)
    BY <2>1, <2>2 DEF AudienceIsFresh
  <2>4. Barred' = {past.source} /\ {past.source} \subseteq Barred
    BY <2>1, <2>2 DEF Barred
  <2>5. KeptOut({past.source})'
    BY <1>1, <2>1, <2>3, <2>4 DEF KeptOut, KeepsOut
  <2> QED
    BY <2>1, <2>2, <2>3, <2>4, <2>5 DEF KeptOut
<1>10. CASE ReturnTask(s)
  <2>1. \/ UNCHANGED <<phase, past, audience>>
        \/ past' = [past EXCEPT !.returns = @ + 1]
    BY <1>10 DEF ReturnTask
  <2>2. past' # [past EXCEPT !.returns = @ + 1]
    BY <1>3 DEF History
  <2> QED
    BY <1>5, <2>1, <2>2
<1>11. CASE BlockTask(s) \/ ResumeTask(s)
  <2>1. UNCHANGED <<past.source, past.judges, past.returns, past.crashed>>
    BY <1>3, <1>11 DEF BlockTask, ResumeTask, History
  <2>2. UNCHANGED <<phase, audience>>
    BY <1>11 DEF BlockTask, ResumeTask
  <2> QED
    BY <1>5, <2>1, <2>2
<1> QED
  BY <1>6, <1>7, <1>8, <1>9, <1>10, <1>11

LEMMA StepIsFresh == Typed /\ AudienceIsFresh /\ [Next]_vars => AudienceIsFresh'
<1> SUFFICES ASSUME Typed, AudienceIsFresh, [Next]_vars PROVE AudienceIsFresh'
  OBVIOUS
<1>1. ASSUME NEW s \in Sessions, Step(s) PROVE AudienceIsFresh'
  <2>1. /\ TypeOK /\ UNCHANGED chosen
        /\ serial => \A t \in Sessions \ {s} : Idle(t)
    BY <1>1 DEF Step, Typed
  <2>2. CASE CommandStep(s)
    BY <2>1, <2>2, CommandIsFresh
  <2>3. CASE Crash(s)
    <3>1. past'.crashed
      BY <2>1, <2>3, Types DEF Crash, History
    <3> QED
      BY <3>1 DEF AudienceIsFresh
  <2>4. CASE \/ Reset(s) \/ CompleteBuilder(s) \/ CompleteReview(s) \/ CompleteQa(s)
             \/ RecordAudience(s) \/ CompleteAudience(s) \/ ReturnTask(s)
             \/ BlockTask(s) \/ ResumeTask(s)
    BY <2>1, <2>4, WorkflowIsFresh
  <2> QED
    BY <1>1, <2>2, <2>3, <2>4 DEF Step, CommandStep
<1>2. CASE Expire \/ EditSource \/ UNCHANGED vars
  <2>1. UNCHANGED <<phase, past, record, cmd, audience, serial>>
    BY <1>2 DEF Expire, EditSource, vars, chosen
  <2> QED
    BY <2>1 DEF AudienceIsFresh, KeptOut, Kept, KeepsOut, Barred, Untouched
<1> QED
  BY <1>1, <1>2 DEF Next

LEMMA AlwaysFresh == Spec => []AudienceIsFresh
<1>1. Init => AudienceIsFresh
  BY DEF Init, AudienceIsFresh, Untouched, BoundaryPhases
<1> QED
  BY <1>1, AlwaysTyped, StepIsFresh, PTL DEF Spec

(* Until a return or a crash, no session judges as the audience what it     *)
(* tested itself, however the commands of the sessions are interleaved; nor *)
(* a second time, when they come in sequence (phase-boundary.ts 249-262,    *)
(* workflow.ts 231-239).                                                    *)
THEOREM AudienceIsIndependent == Spec => []FirstAudienceIsFresh
<1>1. Typed /\ Faithful /\ AudienceIsFresh => FirstAudienceIsFresh
  <2> SUFFICES ASSUME Typed, Faithful, AudienceIsFresh,
                      Seated # NoSession, past.returns = 0, ~past.crashed
               PROVE  Seated # past.source /\ (serial => Seated \notin past.judges)
    BY DEF FirstAudienceIsFresh
  <2> DEFINE r == record["final-customer"]
  <2>1. phase = "final-customer" /\ r # NoRecord /\ Seated = r.entered
    BY DEF Seated, Entered
  <2>2. Honoured("final-customer", r) /\ IsAudience("final-customer")
    BY <2>1, AudiencePhase DEF Faithful, Good, BoundaryPhases
  <2>3. Barred \subseteq Kept(r)
    BY <2>1 DEF AudienceIsFresh, KeptOut
  <2>4. Seated \notin Kept(r)
    BY <2>1, <2>2 DEF Honoured, Kept
  <2>5. Seated \notin Barred
    BY <2>3, <2>4
  <2> QED
    BY <2>1, <2>5 DEF Barred
<1> QED
  BY <1>1, AlwaysTyped, AlwaysFaithful, AlwaysFresh, PTL

-----------------------------------------------------------------------------
(* Commands in sequence.                                                    *)

(* A command works on the phase of the task, and on the record that is      *)
(* there, with the capsule the record was made for.                         *)
Fits(c) ==
    c # NoCommand
    => /\ c.phase = phase
       /\ c.step \in {"prepare", "judge"} /\ ~IsAudience(phase) /\ record[phase] # NoRecord
          => c.digest = record[phase].digest

InSequence ==
    serial => /\ \A s \in Sessions : Idle(s) \/ \A t \in Sessions \ {s} : Idle(t)
              /\ \A s \in Sessions : Fits(cmd[s])

Alone(s) == \A t \in Sessions \ {s} : Idle(t)

(* A command in sequence: what its own part of InSequence comes to.         *)
LEMMA AloneInSequence ==
    ASSUME NEW s \in Sessions, Alone(s)',
           Fits(cmd[s])'
    PROVE  InSequence'
BY DEF InSequence, Alone, Idle, Fits

LEMMA CommandInSequence ==
    ASSUME TypeOK, NEW s \in Sessions, serial, Alone(s), Fits(cmd[s]), CommandStep(s)
    PROVE  Alone(s)' /\ Fits(cmd[s])'
<1> DEFINE c == cmd[s]
<1>1. phase' = phase
  BY DEF CommandStep, Compile, Prepare, Judge, Acquire, Write, Remember
<1>2. ASSUME EndCommand(s) PROVE Alone(s)' /\ Fits(cmd[s])'
  BY <1>2, CommandMoves DEF Alone, Idle, Fits
<1>3. ASSUME NEW k, Continue(s, k), k.phase = phase,
             k.step \in {"prepare", "judge"} /\ ~IsAudience(phase) /\ record'[phase] # NoRecord
             => k.digest = record'[phase].digest
      PROVE  Alone(s)' /\ Fits(cmd[s])'
  BY <1>1, <1>3, CommandMoves DEF Alone, Idle, Fits
<1>4. ASSUME NEW op \in {"next", "enter"} \cup Choices, Compile(s, op)
      PROVE  Alone(s)' /\ Fits(cmd[s])'
  <2> DEFINE sealed == record[phase] # NoRecord /\ ~IsAudience(phase)
  <2> DEFINE d == IF sealed THEN capsule[phase] ELSE [of |-> phase, version |-> source]
  <2>1. /\ sealed => d = record[phase].digest
        /\ Continue(s, [op |-> op, step |-> "prepare", phase |-> phase, digest |-> d])
        /\ record' = record
    BY <1>4 DEF Compile
  <2> HIDE DEF d
  <2> DEFINE k == [op |-> op, step |-> "prepare", phase |-> phase, digest |-> d]
  <2>2. k.phase = phase /\ k.digest = d /\ Continue(s, k)
    BY <2>1
  <2> HIDE DEF k
  <2> QED
    BY <1>3, <2>1, <2>2
<1>5. CASE Prepare(s)
  <2>1. c \in EarlyCommands /\ c.phase = phase
    BY <1>5, CommandKinds DEF Prepare, AtStep, Fits
  <2>2. phase \in BoundaryPhases /\ c.digest \in Digests
    BY <2>1 DEF EarlyCommands
  <2>3. \/ EndCommand(s)
        \/ ~StatusThrows(phase, c.digest) /\ Continue(s, [c EXCEPT !.step = "judge"])
    BY <1>5, <2>1 DEF Prepare
  <2>4. ASSUME ~StatusThrows(phase, c.digest) PROVE record'[phase].digest = c.digest
    <3>1. \E o : record' = [record EXCEPT ![phase] = StatusRecord(phase, c.digest, o)]
      BY <1>5, <2>1, <2>4 DEF Prepare, Status, StatusThrows
    <3>2. \A o : StatusRecord(phase, c.digest, o).digest = c.digest
      BY NewRecordIsGood DEF StatusRecord, Current
    <3> QED
      BY <2>2, <3>1, <3>2, Types
  <2>5. [c EXCEPT !.step = "judge"].phase = phase
        /\ [c EXCEPT !.step = "judge"].digest = c.digest
    BY <2>1 DEF EarlyCommands
  <2> DEFINE k == [c EXCEPT !.step = "judge"]
  <2> HIDE DEF k
  <2> QED
    BY <1>2, <1>3, <2>3, <2>4, <2>5 DEF k
<1>6. CASE Judge(s)
  <2>1. CASE EndCommand(s)
    BY <1>2, <2>1
  <2>2. ASSUME NEW op, NEW step \in {"acquire", "write"}, NEW r,
               Continue(s, [op |-> op, step |-> step, phase |-> phase, record |-> r])
        PROVE  Alone(s)' /\ Fits(cmd[s])'
    BY <1>3, <2>2
  <2> QED
    BY <1>6, <2>1, <2>2, JudgeMoves DEF Judge
<1>7. CASE Acquire(s) \/ Write(s)
  <2>1. c \in LateCommands /\ c.phase = phase
    BY <1>7, CommandKinds DEF Acquire, Write, AtStep, Fits
  <2>2. EndCommand(s) \/ \E step \in {"write", "remember"} : Continue(s, [c EXCEPT !.step = step])
    BY <1>7 DEF Acquire, Write
  <2>3. ASSUME NEW step \in {"write", "remember"}, Continue(s, [c EXCEPT !.step = step])
        PROVE  Alone(s)' /\ Fits(cmd[s])'
    <3>1. [c EXCEPT !.step = step].phase = phase /\ [c EXCEPT !.step = step].step = step
      BY <2>1 DEF LateCommands
    <3> DEFINE k == [c EXCEPT !.step = step]
    <3>2. Continue(s, k) /\ k.phase = phase /\ k.step \notin {"prepare", "judge"}
      BY <2>3, <3>1
    <3> HIDE DEF k
    <3> QED
      BY <1>3, <3>2
  <2> QED
    BY <1>2, <2>2, <2>3
<1>8. CASE Remember(s)
  BY <1>2, <1>8 DEF Remember
<1> QED
  BY <1>4, <1>5, <1>6, <1>7, <1>8 DEF CommandStep

LEMMA StepInSequence == Typed /\ InSequence /\ [Next]_vars => InSequence'
<1> SUFFICES ASSUME TypeOK, InSequence, [Next]_vars, serial' PROVE InSequence'
  BY DEF Typed, InSequence
<1>1. ASSUME NEW s \in Sessions, Step(s) PROVE InSequence'
  <2>1. serial /\ Alone(s) /\ Fits(cmd[s])
    BY <1>1 DEF Step, chosen, Alone, InSequence
  <2>2. CASE CommandStep(s)
    BY <2>1, <2>2, CommandInSequence, AloneInSequence
  <2>3. CASE Crash(s)
    BY <2>1, <2>3, CommandMoves, AloneInSequence DEF Crash, Alone, Idle, Fits
  <2>4. CASE \/ Reset(s) \/ CompleteBuilder(s) \/ CompleteReview(s) \/ CompleteQa(s)
             \/ RecordAudience(s) \/ CompleteAudience(s) \/ ReturnTask(s)
             \/ BlockTask(s) \/ ResumeTask(s)
    BY <2>1, <2>4, WorkflowMoves, AloneInSequence DEF Alone, Idle, Fits
  <2> QED
    BY <1>1, <2>2, <2>3, <2>4 DEF Step, CommandStep
<1>2. CASE Expire \/ EditSource \/ UNCHANGED vars
  <2>1. UNCHANGED <<phase, record, cmd, serial>>
    BY <1>2 DEF Expire, EditSource, vars, chosen
  <2> QED
    BY <2>1 DEF InSequence, Fits, Idle
<1> QED
  BY <1>1, <1>2 DEF Next

LEMMA AlwaysInSequence == Spec => []InSequence
<1>1. Init => InSequence
  BY DEF Init, InSequence, Idle, Fits
<1> QED
  BY <1>1, AlwaysTyped, StepInSequence, PTL DEF Spec

(* In sequence, neither a change of what the capsule was compiled from nor  *)
(* a crash undoes a choice or an entry (phase-boundary.ts 105-160; the      *)
(* capsule stays sealed, phase-handoff.ts).                                 *)
THEOREM ChoicesStand == Spec => ChoiceStands
<1>1. ASSUME TypeOK, Faithful, InSequence, [Next]_vars, serial,
             NEW p \in BoundaryPhases \ {"final-customer"},
             phase = p, record[p].status \in {"chosen", "entered"}
      PROVE  record'[p].status # "required"
  <2>1. record[p] # NoRecord /\ NoRecord.status # "required" /\ ~IsAudience(p)
    BY <1>1, AudiencePhase DEF NoRecord
  <2>2. ASSUME record'[p] \in {record[p], NoRecord} PROVE record'[p].status # "required"
    BY <1>1, <2>1, <2>2
  <2>3. ASSUME NEW s \in Sessions, Step(s) PROVE record'[p].status # "required"
    <3> DEFINE c == cmd[s]
    <3>1. Fits(c) /\ GoodCommand(s, c)
      BY <1>1 DEF InSequence, Faithful
    <3>2. ASSUME NEW o, Status(p, c.digest, o), c.digest = record[p].digest
          PROVE  record'[p] = record[p]
      BY <1>1, <2>1, <3>2, Types DEF Status, StatusRecord, Current
    <3>3. CASE Prepare(s) \/ Judge(s)
      <4>1. c.phase = p /\ c.digest = record[p].digest
        BY <1>1, <2>1, <3>1, <3>3 DEF Prepare, Judge, AtStep, Fits
      <4>2. \E o : Status(p, c.digest, o)
        BY <1>1, <3>3, <4>1 DEF Prepare, Judge
      <4> QED
        BY <2>2, <3>2, <4>1, <4>2
    <3>4. CASE Write(s)
      <4>1. c \in LateCommands /\ c.phase = p /\ c.record.status # "required"
        BY <1>1, <3>1, <3>4, CommandKinds DEF Write, AtStep, Fits, GoodCommand, LateCommands
      <4> QED
        BY <1>1, <3>4, <4>1, Types DEF Write
    <3>5. CASE \/ Reset(s) \/ CompleteBuilder(s) \/ CompleteReview(s) \/ CompleteQa(s)
               \/ RecordAudience(s) \/ CompleteAudience(s) \/ ReturnTask(s)
               \/ BlockTask(s) \/ ResumeTask(s)
      BY <1>1, <2>2, <3>5, WorkflowMoves
    <3>6. ASSUME record' = record PROVE record'[p].status # "required"
      BY <2>2, <3>6
    <3> QED
      BY <2>3, <3>3, <3>4, <3>5, <3>6 DEF Step, Compile, Acquire, Remember, Crash
  <2>4. CASE Expire \/ EditSource \/ UNCHANGED vars
    BY <2>2, <2>4 DEF Expire, EditSource, vars
  <2> QED
    BY <1>1, <2>3, <2>4 DEF Next
<1>2. Typed /\ Faithful /\ InSequence /\ [Next]_vars
      => [serial => \A p \in BoundaryPhases \ {"final-customer"} :
             phase = p /\ record[p].status \in {"chosen", "entered"}
             => record'[p].status # "required"]_vars
  BY <1>1 DEF Typed
<1> QED
  BY <1>2, AlwaysTyped, AlwaysFaithful, AlwaysInSequence, PTL DEF Spec, ChoiceStands

-----------------------------------------------------------------------------
(* The lease in sequence: it belongs to the session that entered, or to the *)
(* one that is about to write that it entered.                              *)

Entering(s) == AtStep(s, "write") /\ cmd[s].op = "enter"

(* Or, in the audience's phase, to the session that resumed the task there. *)
Resumed == phase = "final-customer" /\ lease # NoSession /\ lease = past.resumer

LeaseFollows ==
    serial /\ ~past.crashed
    => /\ phase \in BoundaryPhases /\ lease # NoSession
          => Entered(phase) = lease \/ Entering(lease) \/ Resumed
       /\ \A s \in Sessions : AtStep(s, "write")
              => IF cmd[s].op = "enter" THEN lease = s ELSE lease = NoSession \/ Resumed

(* What is to be shown after a step of the only command.                    *)
LEMMA LeaseOfOne ==
    ASSUME NEW s \in Sessions, Alone(s)',
           phase' \in BoundaryPhases /\ lease' # NoSession
           => Entered(phase)' = lease' \/ (lease' = s /\ Entering(s)'),
           AtStep(s, "write")' => lease' = IF cmd'[s].op = "enter" THEN s ELSE NoSession
    PROVE  LeaseFollows'
<1>1. \A t \in Sessions \ {s} : ~AtStep(t, "write")'
  BY DEF Alone, Idle, AtStep
<1> QED
  BY <1>1 DEF LeaseFollows

LEMMA LeaseOfResumer ==
    ASSUME NEW s \in Sessions, Alone(s)', lease' = NoSession \/ Resumed',
           AtStep(s, "write")' /\ cmd'[s].op = "enter" => lease' = s
    PROVE  LeaseFollows'
<1>1. \A t \in Sessions \ {s} : ~AtStep(t, "write")'
  BY DEF Alone, Idle, AtStep
<1> QED
  BY <1>1 DEF LeaseFollows

(* A session that runs another step than a write finds the lease free or    *)
(* with the session that entered, so invalidating never throws and frees it.*)
LEMMA InvalidateFrees ==
    ASSUME TypeOK, NEW s \in Sessions, LeaseFollows, ~Resumed, serial, ~past.crashed,
           Alone(s),
           ~AtStep(s, "write"), phase \in BoundaryPhases
    PROVE  /\ lease # NoSession => Entered(phase) = lease
           /\ ~InvalidateThrows(phase) /\ LeaseAfterInvalidate(phase) = NoSession
<1>1. lease # NoSession => Entered(phase) = lease
  BY DEF LeaseFollows, Entering, Alone, Idle, AtStep, TypeOK, SessionOrNone
<1> QED
  BY <1>1 DEF InvalidateThrows, LeaseAfterInvalidate

LEMMA StatusFrees ==
    ASSUME TypeOK, NEW s \in Sessions, LeaseFollows, ~Resumed, serial, ~past.crashed,
           Alone(s),
           ~AtStep(s, "write"), phase \in BoundaryPhases, NEW d \in Digests,
           NEW o \in SessionOrNone, Status(phase, d, o)
    PROVE  /\ record'[phase] = StatusRecord(phase, d, o)
           /\ lease' # NoSession => record'[phase] # NoRecord /\ record'[phase].entered = lease'
<1>1. record \in [BoundaryPhases -> Records \cup {NoRecord}]
  BY Types
<1>2. record'[phase] = StatusRecord(phase, d, o)
  BY <1>1, InvalidateFrees DEF Status
<1>3. lease' = IF Current(phase, d) THEN lease ELSE NoSession
  BY InvalidateFrees DEF Status
<1>4. lease' # NoSession => record'[phase] # NoRecord /\ record'[phase].entered = lease'
  BY <1>2, <1>3, InvalidateFrees DEF StatusRecord, Current, Entered
<1> QED
  BY <1>2, <1>4

LEMMA JudgeLease ==
    ASSUME TypeOK, Faithful, NEW s \in Sessions, LeaseFollows, ~Resumed, serial, ~past.crashed,
           Alone(s),
           Judge(s)
    PROVE  LeaseFollows'
<1> DEFINE c == cmd[s]
<1> DEFINE r == StatusRecord(phase, c.digest, s)
<1>1. c \in EarlyCommands /\ c.digest \in Digests /\ s \in SessionOrNone /\ c # NoCommand
  BY CommandKinds DEF Judge, EarlyCommands, SessionOrNone, AtStep
<1>2. ~AtStep(s, "write") /\ phase' = phase
  BY DEF Judge, AtStep
<1>3. CASE phase \notin BoundaryPhases
  <2>1. EndCommand(s)
    BY <1>3 DEF Judge
  <2> QED
    BY <1>2, <1>3, <2>1, CommandMoves, LeaseOfOne DEF Alone, Idle, AtStep
<1>4. CASE phase \in BoundaryPhases
  <2>1. Status(phase, c.digest, s)
    BY <1>4, JudgeMoves
  <2>2. /\ record'[phase] = r /\ r \in Records
        /\ lease' # NoSession => r.entered = lease' /\ record'[phase] # NoRecord
    BY <1>1, <1>2, <1>4, <2>1, StatusFrees, StatusTypes
  <2>3. phase' \in BoundaryPhases /\ lease' # NoSession => Entered(phase)' = lease'
    BY <1>2, <2>2 DEF Entered
  <2>4. CASE EndCommand(s)
    BY <2>3, <2>4, CommandMoves, LeaseOfOne DEF Alone, Idle, AtStep
  <2>5. ASSUME MayChoose(s, r), c.op \in Choices, NEW n,
               Continue(s, [op |-> c.op, step |-> "write", phase |-> phase, record |-> n])
        PROVE  LeaseFollows'
    <3>1. Good(phase, r)
      BY <1>1, <1>4, <2>1, StatusIsGood
    <3>2. lease' # NoSession => r.status = "entered" /\ r.entered = lease'
      BY <2>2, <3>1 DEF Good
    <3>3. r.status = "entered" => lease \in {NoSession, s} /\ r.entered # s
      BY <2>5 DEF MayChoose
    <3>4. lease' = NoSession \/ lease' = lease
      BY <1>2, <1>4, <2>1, InvalidateFrees DEF Status
    <3>5. lease' = NoSession
      BY <3>2, <3>3, <3>4
    <3>6. c.op # "enter"
      BY <2>5 DEF Choices
    <3> DEFINE k == [op |-> c.op, step |-> "write", phase |-> phase, record |-> n]
    <3>7. Continue(s, k) /\ k.op = c.op
      BY <2>5
    <3> HIDE DEF k
    <3>8. cmd'[s].op # "enter"
      BY <3>6, <3>7, CommandMoves
    <3>9. Alone(s)'
      BY <3>7, CommandMoves DEF Alone, Idle
    <3> QED
      BY <3>5, <3>8, <3>9, LeaseOfOne
  <2>6. ASSUME NEW op, NEW n,
               Continue(s, [op |-> op, step |-> "acquire", phase |-> phase, record |-> n])
        PROVE  LeaseFollows'
    <3>1. cmd'[s].step = "acquire"
      BY <2>6, CommandMoves
    <3>2. Alone(s)'
      BY <2>6, CommandMoves DEF Alone, Idle
    <3> QED
      BY <2>3, <3>1, <3>2, LeaseOfOne DEF AtStep
  <2> QED
    BY <1>4, <2>4, <2>5, <2>6, JudgeMoves
<1> QED
  BY <1>3, <1>4

LEMMA CommandLease ==
    ASSUME TypeOK, Faithful, NEW s \in Sessions, LeaseFollows, ~Resumed, serial, ~past.crashed,
           Alone(s),
           Fits(cmd[s]), CommandStep(s)
    PROVE  LeaseFollows'
<1> DEFINE c == cmd[s]
<1>1. Alone(s)'
  BY CommandInSequence
<1>2. phase' = phase
  BY DEF CommandStep, Compile, Prepare, Judge, Acquire, Write, Remember
<1>3. ASSUME NEW op, Compile(s, op) PROVE LeaseFollows'
  <2>1. ~AtStep(s, "write") /\ record' = record /\ lease' = lease
    BY <1>3 DEF Compile, Idle, AtStep
  <2>2. ~AtStep(s, "write")'
    <3>1. PICK d : Continue(s, [op |-> op, step |-> "prepare", phase |-> phase, digest |-> d])
      BY <1>3 DEF Compile
    <3> QED
      BY <3>1, CommandMoves DEF AtStep
  <2> QED
    BY <1>1, <1>2, <2>1, <2>2, InvalidateFrees, LeaseOfOne DEF Entered
<1>4. CASE Prepare(s)
  <2> DEFINE origin == IF IsAudience(c.phase) /\ audience.origin # NoSession
                       THEN audience.origin ELSE s
  <2>1. /\ c \in EarlyCommands /\ origin \in SessionOrNone /\ c.phase = phase
        /\ ~AtStep(s, "write")
    BY <1>4, CommandKinds DEF Prepare, TypeOK, SessionOrNone, AtStep, Fits
  <2>2. phase \in BoundaryPhases /\ c.digest \in Digests
    BY <2>1 DEF EarlyCommands
  <2>3. Status(phase, c.digest, origin)
    BY <1>4, <2>1 DEF Prepare
  <2>4. EndCommand(s) \/ Continue(s, [c EXCEPT !.step = "judge"])
    BY <1>4 DEF Prepare
  <2>5. [c EXCEPT !.step = "judge"].step = "judge"
    BY <2>1 DEF EarlyCommands
  <2> HIDE DEF c, origin
  <2>6. lease' # NoSession => Entered(phase)' = lease'
    BY <1>2, <2>1, <2>2, <2>3, StatusFrees DEF Entered
  <2>7. ~AtStep(s, "write")'
    BY <2>4, <2>5, CommandMoves DEF AtStep
  <2> QED
    BY <1>1, <2>6, <2>7, LeaseOfOne
<1>5. CASE Acquire(s)
  <2>1. c \in LateCommands /\ ~AtStep(s, "write") /\ c.op = "enter" /\ c.phase = phase
    BY <1>5, CommandKinds DEF Acquire, AtStep, Faithful, GoodCommand, Fits
  <2>2. phase \in BoundaryPhases /\ record' = record
    BY <1>5, <2>1 DEF Acquire, LateCommands
  <2>3. CASE lease \in {NoSession, s}
    <3>1. lease' = s /\ cmd'[s] = [c EXCEPT !.step = "write"]
      BY <1>5, <2>3, CommandMoves DEF Acquire
    <3>2. cmd'[s].op = "enter" /\ cmd'[s].step = "write" /\ cmd'[s] # NoCommand
      BY <2>1, <3>1, NoneIsNotLate DEF LateCommands
    <3> QED
      BY <1>1, <3>1, <3>2, LeaseOfOne DEF Entering, AtStep
  <2>4. CASE lease \notin {NoSession, s}
    <3>1. lease' = lease /\ cmd'[s] = NoCommand
      BY <1>5, <2>4, CommandMoves DEF Acquire
    <3> QED
      BY <1>1, <1>2, <2>1, <2>2, <3>1, InvalidateFrees, LeaseOfOne DEF AtStep, Entered
  <2> QED
    BY <2>3, <2>4
<1>6. CASE Write(s)
  <2>1. c \in LateCommands /\ c.phase = phase /\ GoodCommand(s, c) /\ c # NoCommand
    BY <1>6, CommandKinds DEF Write, AtStep, Faithful, Fits
  <2>2. phase \in BoundaryPhases /\ c.record \in Records
    BY <2>1 DEF LateCommands
  <2>3. lease = IF c.op = "enter" THEN s ELSE NoSession
    BY <1>6 DEF Write, LeaseFollows
  <2>4. record'[phase] = c.record /\ lease' = lease
    BY <1>6, <2>1, <2>2, Types DEF Write
  <2>5. lease' # NoSession => Entered(phase)' = lease'
    <3>1. c.step = "write"
      BY <1>6 DEF Write, AtStep
    <3>2. c.op = "enter" => c.record.entered = s
      BY <2>1, <3>1 DEF GoodCommand
    <3> QED
      BY <1>2, <2>2, <2>3, <2>4, <3>2, NoneIsNoRecord DEF Entered
  <2>6. EndCommand(s) \/ Continue(s, [c EXCEPT !.step = "remember"])
    BY <1>6 DEF Write
  <2>7. [c EXCEPT !.step = "remember"].step = "remember"
    BY <2>1 DEF LateCommands
  <2> HIDE DEF c
  <2>8. ~AtStep(s, "write")'
    BY <2>6, <2>7, CommandMoves DEF AtStep
  <2> QED
    BY <1>1, <2>5, <2>8, LeaseOfOne
<1>7. CASE Remember(s)
  <2>1. ~AtStep(s, "write") /\ cmd'[s] = NoCommand /\ UNCHANGED <<record, lease>>
    BY <1>7, CommandMoves DEF Remember, AtStep
  <2> QED
    BY <1>1, <1>2, <2>1, InvalidateFrees, LeaseOfOne DEF AtStep, Entered
<1> QED
  BY <1>3, <1>4, <1>5, <1>6, <1>7, JudgeLease DEF CommandStep

(* A command of whoever it is leaves the lease with the session that resumed, *)
(* or frees it.                                                             *)
LEMMA CommandAfterResume ==
    ASSUME TypeOK, Resumed, NEW s \in Sessions, serial, Alone(s), Fits(cmd[s]),
           CommandStep(s)
    PROVE  LeaseFollows'
<1>1. Alone(s)'
  BY CommandInSequence
<1>2. UNCHANGED <<phase, past>>
  BY DEF CommandStep, Compile, Prepare, Judge, Acquire, Write, Remember
<1>3. \A p, d, o : Status(p, d, o) => lease' \in {lease, NoSession}
  BY DEF Status, LeaseAfterInvalidate
<1>4. ASSUME NEW op, Compile(s, op) PROVE lease' = lease /\ ~AtStep(s, "write")'
  <2>1. PICK d : Continue(s, [op |-> op, step |-> "prepare", phase |-> phase, digest |-> d])
    BY <1>4 DEF Compile
  <2> QED
    BY <1>4, <2>1, CommandMoves DEF Compile, AtStep
<1>5. CASE Prepare(s)
  <2>1. cmd[s] \in EarlyCommands
    BY <1>5, CommandKinds DEF Prepare
  <2>2. EndCommand(s) \/ Continue(s, [cmd[s] EXCEPT !.step = "judge"])
    BY <1>5 DEF Prepare
  <2>3. [cmd[s] EXCEPT !.step = "judge"].step = "judge"
    BY <2>1 DEF EarlyCommands
  <2>4. ~AtStep(s, "write")'
    BY <2>2, <2>3, CommandMoves DEF AtStep
  <2> QED
    BY <1>1, <1>2, <1>3, <1>5, <2>4, LeaseOfResumer DEF Prepare, Resumed
<1>6. CASE Judge(s)
  <2>1. phase \in BoundaryPhases
    BY DEF Resumed, BoundaryPhases
  <2>2. lease' \in {lease, NoSession}
    BY <1>3, <1>6, <2>1, JudgeMoves
  <2>3. ASSUME NEW op \in Choices, NEW n,
               Continue(s, [op |-> op, step |-> "write", phase |-> phase, record |-> n])
        PROVE  cmd'[s].op # "enter"
    BY <2>3, CommandMoves DEF Choices
  <2>4. ASSUME NEW op, NEW n,
               Continue(s, [op |-> op, step |-> "acquire", phase |-> phase, record |-> n])
        PROVE  ~AtStep(s, "write")'
    BY <2>4, CommandMoves DEF AtStep
  <2>5. AtStep(s, "write")' => cmd'[s].op # "enter"
    BY <1>6, <2>1, <2>3, <2>4, CommandMoves, JudgeMoves DEF AtStep
  <2> QED
    BY <1>1, <1>2, <2>2, <2>5, LeaseOfResumer DEF Resumed
<1>7. CASE Acquire(s)
  <2>1. lease' = lease /\ (lease = s \/ EndCommand(s))
    BY <1>7 DEF Acquire, Resumed
  <2>2. AtStep(s, "write")' => lease' = s
    BY <2>1, CommandMoves DEF AtStep
  <2> QED
    BY <1>1, <1>2, <2>1, <2>2, LeaseOfResumer DEF Resumed
<1>8. CASE Write(s) \/ Remember(s)
  <2>1. Write(s) => cmd[s] \in LateCommands
    BY CommandKinds DEF Write
  <2>2. cmd[s] \in LateCommands => [cmd[s] EXCEPT !.step = "remember"].step = "remember"
    BY DEF LateCommands
  <2>3. EndCommand(s) \/ (Write(s) /\ Continue(s, [cmd[s] EXCEPT !.step = "remember"]))
    BY <1>8 DEF Write, Remember
  <2>4. ~AtStep(s, "write")'
    BY <2>1, <2>2, <2>3, CommandMoves DEF AtStep
  <2>5. lease' = lease
    BY <1>8 DEF Write, Remember
  <2> QED
    BY <1>1, <1>2, <2>4, <2>5, LeaseOfResumer DEF Resumed
<1> QED
  BY <1>1, <1>2, <1>4, <1>5, <1>6, <1>7, <1>8, LeaseOfResumer DEF CommandStep, Resumed

(* Who completes a phase has the lease or finds it free; a session that is  *)
(* not the one that entered does not get that far.                          *)
LEMMA WorkflowLease ==
    ASSUME TypeOK, NEW s \in Sessions, LeaseFollows, serial, ~past.crashed, Alone(s),
           \/ Reset(s) \/ CompleteBuilder(s) \/ CompleteReview(s) \/ CompleteQa(s)
           \/ RecordAudience(s) \/ CompleteAudience(s) \/ ReturnTask(s)
           \/ BlockTask(s) \/ ResumeTask(s)
    PROVE  LeaseFollows'
<1>1. cmd' = cmd /\ Idle(s) /\ ~AtStep(s, "write") /\ Alone(s)' /\ ~AtStep(s, "write")'
  BY WorkflowMoves DEF Alone, Idle, AtStep
<1>2. record \in [BoundaryPhases -> Records \cup {NoRecord}] /\ past \in History
  BY Types
<1>3. ASSUME lease' = NoSession \/ phase' \notin BoundaryPhases PROVE LeaseFollows'
  BY <1>1, <1>3, LeaseOfOne
<1>4. ASSUME phase' = phase, past' = past, lease' = lease \/ lease' = Entered(phase),
             record'[phase] = record[phase]
      PROVE  LeaseFollows'
  <2>1. CASE Resumed /\ lease' = lease
    BY <1>1, <1>4, <2>1, LeaseOfResumer DEF Resumed
  <2>2. CASE ~Resumed \/ lease' = Entered(phase)
    BY <1>1, <1>4, <2>2, InvalidateFrees, LeaseOfOne DEF Entered
  <2> QED
    BY <1>4, <2>1, <2>2
<1>5. CASE Reset(s) \/ CompleteReview(s) \/ CompleteAudience(s) \/ BlockTask(s)
  BY <1>3, <1>5 DEF Reset, CompleteReview, CompleteAudience, BlockTask, BoundaryPhases
<1>6. CASE CompleteBuilder(s)
  <2>1. phase = "builder" /\ Entered(phase) = s /\ record'["builder"] = record["builder"]
    BY <1>2, <1>6 DEF CompleteBuilder, MayComplete, BoundaryPhases
  <2>2. lease' = NoSession \/ (phase' = phase /\ lease' = s /\ past' = past)
    BY <1>6 DEF CompleteBuilder
  <2> QED
    BY <1>3, <1>4, <2>1, <2>2
<1>7. CASE CompleteQa(s)
  <2>1. \/ lease' = NoSession
        \/ past' = [past EXCEPT !.source = s, !.judges = {}, !.resumer = NoSession,
                                !.crashed = TRUE]
    BY <1>7 DEF CompleteQa
  <2>2. ASSUME past' = [past EXCEPT !.source = s, !.judges = {}, !.resumer = NoSession,
                                    !.crashed = TRUE]
        PROVE  past'.crashed
    BY <1>2, <2>2 DEF History
  <2> QED
    BY <1>3, <2>1, <2>2 DEF LeaseFollows
<1>8. CASE ReturnTask(s)
  <2>1. lease' = NoSession \/ UNCHANGED <<phase, lease, past>>
    BY <1>8 DEF ReturnTask
  <2>2. phase \in BoundaryPhases => record'[phase] = record[phase]
    BY <1>2, <1>8 DEF ReturnTask, Phases, BoundaryPhases
  <2> QED
    BY <1>3, <1>4, <2>1, <2>2
<1>9. CASE RecordAudience(s)
  <2>1. /\ phase = "final-customer" /\ phase' = phase /\ phase \in BoundaryPhases
        /\ past' = [past EXCEPT !.judges = @ \cup {s}]
        /\ lease' = LeaseAfterInvalidate(phase)
    BY <1>9 DEF RecordAudience, BoundaryPhases
  <2>2. past'.resumer = past.resumer
    BY <1>2, <2>1 DEF History
  <2>3. CASE Resumed
    BY <1>1, <1>3, <2>1, <2>2, <2>3, LeaseOfResumer DEF Resumed, LeaseAfterInvalidate
  <2>4. CASE ~Resumed
    BY <1>1, <1>3, <2>1, <2>4, InvalidateFrees
  <2> QED
    BY <2>3, <2>4
<1>10. CASE ResumeTask(s)
  <2>1. phase' = phase /\ lease' = s /\ record' = record
    BY <1>10 DEF ResumeTask
  <2>2. CASE requiresPhaseBoundary(phase)
    <3>1. lease' = Entered(phase) /\ past' = past
      BY <1>10, <2>1, <2>2 DEF ResumeTask, requiresPhaseBoundary
    <3> QED
      BY <1>4, <2>1, <3>1
  <2>3. CASE phase = "final-customer"
    <3>1. past'.resumer = s
      BY <1>2, <1>10, <2>3 DEF ResumeTask, History
    <3> QED
      BY <1>1, <1>3, <2>1, <2>3, <3>1, LeaseOfResumer DEF Resumed
  <2> QED
    BY <1>3, <2>1, <2>2, <2>3 DEF requiresPhaseBoundary, BoundaryPhases
<1> QED
  BY <1>5, <1>6, <1>7, <1>8, <1>9, <1>10

LEMMA StepLease ==
    Typed /\ Faithful /\ InSequence /\ LeaseFollows /\ [Next]_vars => LeaseFollows'
<1> SUFFICES ASSUME TypeOK, Faithful, InSequence, LeaseFollows, [Next]_vars,
                    serial', ~past'.crashed
             PROVE  LeaseFollows'
  BY DEF Typed, LeaseFollows
<1>1. ASSUME NEW s \in Sessions, Step(s) PROVE LeaseFollows'
  <2>1. serial /\ Alone(s) /\ Fits(cmd[s])
    BY <1>1 DEF Step, chosen, Alone, InSequence
  <2>2. CASE Crash(s)
    BY <2>2, Types DEF Crash, History
  <2>3. ~past.crashed \/ Crash(s)
    <3>1. /\ [past EXCEPT !.judges = @ \cup {s}].crashed = past.crashed
          /\ [past EXCEPT !.source = s, !.judges = {}, !.resumer = NoSession].crashed = past.crashed
          /\ [past EXCEPT !.source = s, !.judges = {}, !.resumer = NoSession,
                          !.crashed = TRUE].crashed
          /\ [past EXCEPT !.returns = @ + 1].crashed = past.crashed
          /\ [past EXCEPT !.resumer = s].crashed = past.crashed
      BY Types DEF History
    <3>2. CASE RecordAudience(s) \/ CompleteAudience(s)
      BY <3>1, <3>2 DEF RecordAudience, CompleteAudience
    <3>3. CASE CompleteQa(s)
      BY <3>1, <3>3 DEF CompleteQa
    <3>4. CASE ReturnTask(s)
      BY <3>1, <3>4 DEF ReturnTask
    <3>5. CASE \/ CommandStep(s) \/ Reset(s) \/ CompleteBuilder(s) \/ CompleteReview(s)
               \/ BlockTask(s)
      BY <3>5 DEF CommandStep, Compile, Prepare, Judge, Acquire, Write, Remember, Reset,
           CompleteBuilder, CompleteReview, BlockTask
    <3>6. CASE ResumeTask(s)
      BY <3>1, <3>6 DEF ResumeTask
    <3> QED
      BY <1>1, <3>2, <3>3, <3>4, <3>5, <3>6 DEF Step, CommandStep
  <2>4. CASE ~past.crashed /\ CommandStep(s)
    BY <2>1, <2>4, CommandLease, CommandAfterResume
  <2>5. CASE /\ ~past.crashed
             /\ \/ Reset(s) \/ CompleteBuilder(s) \/ CompleteReview(s) \/ CompleteQa(s)
                \/ RecordAudience(s) \/ CompleteAudience(s) \/ ReturnTask(s)
                \/ BlockTask(s) \/ ResumeTask(s)
    BY <2>1, <2>5, WorkflowLease
  <2> QED
    BY <1>1, <2>2, <2>3, <2>4, <2>5 DEF Step, CommandStep
<1>2. CASE Expire
  <2>1. lease' = NoSession /\ Idle(lease) /\ lease # NoSession
        /\ UNCHANGED <<phase, record, cmd, past, serial>>
    BY <1>2 DEF Expire, chosen
  <2>2. ASSUME NEW s \in Sessions, AtStep(s, "write"), cmd[s].op = "enter", LeaseFollows,
               serial, ~past.crashed
        PROVE  FALSE
    BY <2>1, <2>2 DEF LeaseFollows, AtStep, Idle
  <2>3. serial /\ ~past.crashed /\ lease' = NoSession
    BY <2>1
  <2> QED
    BY <2>1, <2>2, <2>3 DEF LeaseFollows, AtStep
<1>3. CASE EditSource \/ UNCHANGED vars
  <2>1. UNCHANGED <<phase, record, cmd, past, lease, serial>>
    BY <1>3 DEF EditSource, vars, chosen
  <2> QED
    BY <2>1 DEF LeaseFollows, AtStep, Entered, Entering, Resumed
<1> QED
  BY <1>1, <1>2, <1>3 DEF Next

LEMMA AlwaysFollows == Spec => []LeaseFollows
<1>1. Init => LeaseFollows
  BY DEF Init, LeaseFollows, AtStep
<1> QED
  BY <1>1, AlwaysTyped, AlwaysFaithful, AlwaysInSequence, StepLease, PTL DEF Spec

(* In sequence, no lease of an earlier session is in the way of a boundary  *)
(* that is to be entered (phase-boundary.ts 125-140), whatever was reset,   *)
(* returned, blocked, refused or recompiled before: but for the lease that  *)
(* resuming the audience's phase gives without a boundary.                  *)
THEOREM EntryFindsNoLease == Spec => []FreshSessionCanEnter
<1>1. Typed /\ LeaseFollows => FreshSessionCanEnter
  <2> SUFFICES ASSUME TypeOK, LeaseFollows, Orderly, phase \in BoundaryPhases,
                      Entered(phase) = NoSession, lease # NoSession, ~Resumed
               PROVE  FALSE
    BY DEF Typed, FreshSessionCanEnter, Resumed
  <2>1. lease \in Sessions
    BY DEF TypeOK, SessionOrNone
  <2>2. Entering(lease)
    BY DEF LeaseFollows, Orderly
  <2> QED
    BY <2>1, <2>2 DEF Entering, AtStep, Orderly, Quiet, Idle
<1> QED
  BY <1>1, AlwaysTyped, AlwaysFollows, PTL
=============================================================================
