--------------------------- MODULE RuntimesProofs ---------------------------
(***************************************************************************)
(* What runs beside the workflow for longer than a command, for any number *)
(* of calls, decisions, launchers, runtimes, edits and deaths: the gates   *)
(* of a Pi chat, and the resident runtime with its launchers.              *)
(***************************************************************************)
EXTENDS RuntimeGates, ResidentRuntime, TLAPS

-----------------------------------------------------------------------------
(* The runtime gates.                                                       *)

LEMMA NoToolIsNoTool ==
    ASSUME NEW names, NEW kept, NEW trees, "none" \notin names
    PROVE  NoTool \notin [name : names, state : kept, before : trees]
<1> SUFFICES ASSUME NoTool \in [name : names, state : kept, before : trees] PROVE FALSE
  OBVIOUS
<1>1. NoTool.name \in names
  OBVIOUS
<1> QED
  BY <1>1 DEF NoTool

(* A tool that awaits something holds a state of the gates.                 *)
RunningTools == [name : Tools, state : States, before : 0 .. MaxEdits]

LEMMA ToolKinds ==
    ASSUME GatesTypes
    PROVE  /\ tool # NoTool => tool \in RunningTools
           /\ tool.name \in Tools => tool \in RunningTools
BY DEF GatesTypes, NoTool, Tools, RunningTools

LEMMA EmptyStateTyped == emptyState \in States
BY RuntimeGatesAssumption DEF emptyState, States, Trust, Fingerprints, NoSnapshot

LEMMA ClonedStateTyped ==
    ASSUME NEW s \in States
    PROVE  /\ cloneState(s) \in States
           /\ cloneState(s).route = s.route /\ cloneState(s).mutated = s.mutated
           /\ ~cloneState(s).authorized /\ ~cloneState(s).passed
           /\ cloneState(s).verified =>
                s.verified /\ ~(s.route = "direct_verify" /\ s.mutated)
BY EmptyStateTyped DEF cloneState, emptyState, States

(* What a tool saves, and what the end of a write does, are states again.   *)
LEMMA SavedStatesTyped ==
    ASSUME NEW s \in States, NEW f \in Fingerprints, NEW proved \in BOOLEAN
    PROVE  /\ [s EXCEPT !.authorized = FALSE] \in States
           /\ [s EXCEPT !.authorized = FALSE, !.mutated = TRUE, !.snapshot = f,
                        !.passed = FALSE, !.followUps = 0, !.verified = proved] \in States
           /\ [s EXCEPT !.snapshot = f, !.passed = FALSE, !.followUps = 0] \in States
           /\ [s EXCEPT !.passed = TRUE, !.followUps = 0] \in States
           /\ [s EXCEPT !.verified = TRUE, !.followUps = 0] \in States
<1>1. 0 \in 0 .. 1
  OBVIOUS
<1> QED
  BY <1>1 DEF States

LEMMA GatesBegin == GatesInit => GatesTypes
<1> SUFFICES ASSUME GatesInit PROVE GatesTypes
  OBVIOUS
<1> QED
  BY EmptyStateTyped, RuntimeGatesAssumption DEF GatesInit, GatesTypes, History, NoTool

(* Every step of a chat keeps the types.                                    *)
LEMMA GatesTyped == GatesTypes /\ [GatesNext]_gatesVars => GatesTypes'
<1> SUFFICES ASSUME GatesTypes, [GatesNext]_gatesVars PROVE GatesTypes'
  OBVIOUS
<1> USE RuntimeGatesAssumption DEF GatesTypes
<1>1. ASSUME NEW r \in Routes \cup {"none"}, selectRoute(r)
      PROVE  st' \in States /\ known' \in History
  BY <1>1, EmptyStateTyped DEF selectRoute, States, History
<1>2. ASSUME NEW r \in Routes \cup {"none"}, Prompt(r) PROVE GatesTypes'
  BY <1>2, <1>1 DEF Prompt
<1>3. ASSUME NEW r \in Routes, EntryGate(r) PROVE GatesTypes'
  BY <1>3, <1>1 DEF EntryGate
<1>4. ASSUME NEW m \in Modes, SetMode(m) PROVE GatesTypes'
  BY <1>4 DEF SetMode
<1>5. ASSUME NEW D \in SUBSET Decisions, NEW a \in Answers, request_user_input(D, a)
      PROVE  GatesTypes'
  <2>1. [d \in Decisions |-> IF d \in D THEN a ELSE st.trusted[d]] \in Trust
    BY DEF States, Trust
  <2> QED
    BY <1>5, <2>1 DEF request_user_input, rememberUserAnswers, States
<1>6. ASSUME NEW d \in Decisions, NEW a \in Answers, DecisionEvidence(d, a) PROVE GatesTypes'
  BY <1>6 DEF DecisionEvidence, States, Trust
<1>7. ASSUME Attest PROVE GatesTypes'
  BY <1>7 DEF Attest, States
<1>8. ASSUME NEW D \in SUBSET Decisions, NEW claim \in [D -> Answers], MutationGate(claim)
      PROVE  GatesTypes'
  BY <1>8 DEF MutationGate, States, History
<1>9. ASSUME NEW c \in Calls, CallWrite(c) PROVE GatesTypes'
  BY <1>9 DEF CallWrite
<1>10. ASSUME NEW c \in Calls, RunWrite(c) PROVE GatesTypes'
  BY <1>10 DEF RunWrite, History
<1>11. ASSUME NEW c \in Calls, EndWrite(c) PROVE GatesTypes'
  <2> DEFINE proved == st.verified /\ st.route # "direct_verify"
  <2>1. proved \in BOOLEAN /\ NoSnapshot \in Fingerprints
    BY DEF Fingerprints, NoSnapshot
  <2>2. st' \in States
    <3>1. [st EXCEPT !.authorized = FALSE, !.mutated = TRUE, !.snapshot = NoSnapshot,
                     !.passed = FALSE, !.followUps = 0, !.verified = proved] \in States
      <4> HIDE DEF proved
      <4> QED
        BY <2>1, SavedStatesTyped
    <3>2. [st EXCEPT !.authorized = FALSE] \in States
      BY <2>1, SavedStatesTyped
    <3>3. CASE write[c] = "failed"
      BY <1>11, <3>2, <3>3 DEF EndWrite
    <3>4. CASE write[c] = "done"
      BY <1>11, <3>1, <3>4 DEF EndWrite
    <3> QED
      BY <1>11, <3>3, <3>4 DEF EndWrite
  <2> QED
    BY <1>11, <2>2 DEF EndWrite, History
<1>12. ASSUME EditElsewhere PROVE GatesTypes'
  BY <1>12 DEF EditElsewhere
<1>13. ASSUME NEW name \in Tools, BeginTool(name) PROVE GatesTypes'
  BY <1>13 DEF BeginTool
<1>14. ASSUME EndReview PROVE GatesTypes'
  <2>1. tool \in RunningTools
    BY <1>14, ToolKinds DEF EndReview, Tools
  <2>2. tool.state \in States
    BY <2>1 DEF RunningTools
  <2>3. tree \in Fingerprints
    BY DEF Fingerprints, NoSnapshot
  <2>4. st' \in States
    BY <1>14, <2>2, <2>3, SavedStatesTyped DEF EndReview
  <2> QED
    BY <1>14, <2>4 DEF EndReview, History
<1>15. ASSUME EndResult PROVE GatesTypes'
  <2>1. tool \in RunningTools
    BY <1>15, ToolKinds DEF EndResult, Tools
  <2>2. tool.state \in States
    BY <2>1 DEF RunningTools
  <2>3. tree \in Fingerprints
    BY DEF Fingerprints, NoSnapshot
  <2>4. st' \in States
    BY <1>15, <2>2, <2>3, SavedStatesTyped DEF EndResult
  <2> QED
    BY <1>15, <2>4 DEF EndResult, History
<1>16. ASSUME EndVerify PROVE GatesTypes'
  <2>1. tool \in RunningTools
    BY <1>16, ToolKinds DEF EndVerify, Tools
  <2>2. tool.state \in States
    BY <2>1 DEF RunningTools
  <2>3. tree \in Fingerprints
    BY DEF Fingerprints, NoSnapshot
  <2>4. st' \in States
    BY <1>16, <2>2, <2>3, SavedStatesTyped DEF EndVerify
  <2> QED
    BY <1>16, <2>4 DEF EndVerify, History
<1>17. ASSUME FailTool PROVE GatesTypes'
  BY <1>17 DEF FailTool
<1>18. ASSUME AgentEnd PROVE GatesTypes'
  BY <1>18 DEF AgentEnd, States
<1>19. ASSUME Restart PROVE GatesTypes'
  BY <1>19, ClonedStateTyped DEF Restart, History
<1>20. CASE UNCHANGED gatesVars
  BY <1>20 DEF gatesVars
<1> HIDE DEF GatesTypes
<1> QED
  BY <1>2, <1>3, <1>4, <1>5, <1>6, <1>7, <1>8, <1>9, <1>10, <1>11, <1>12, <1>13, <1>14, <1>15,
     <1>16, <1>17, <1>18, <1>19, <1>20 DEF GatesNext

(* For any calls, decisions, answers and number of edits, the variables of  *)
(* the gates keep their types (RuntimeGates).                               *)
THEOREM GatesTyping == GatesSpec => []GatesTypes
BY GatesBegin, GatesTyped, PTL DEF GatesSpec

-----------------------------------------------------------------------------
(* Nothing runs when the agent does not work.  While a tool of the gates    *)
(* awaits git, no write is under way, and the state that it read is still   *)
(* the saved one: so it saves nothing back that was taken away meanwhile.   *)
Calm == turn # "busy" => tool = NoTool /\ \A c \in Calls : write[c] = "none"
ToolStands ==
    tool # NoTool => turn = "busy" /\ tool.state = st /\ \A c \in Calls : write[c] = "none"

(* An authority is that of a gate of this route and process.                *)
AuthorityIsFresh == st.authorized => known.fresh

OneAtATime == Calm /\ ToolStands /\ AuthorityIsFresh

LEMMA OneAtATimeBegins == GatesInit => OneAtATime
BY DEF GatesInit, OneAtATime, Calm, ToolStands, AuthorityIsFresh, emptyState, NoTool

LEMMA OneAtATimeKept == GatesTypes /\ OneAtATime /\ [GatesNext]_gatesVars => OneAtATime'
<1> SUFFICES ASSUME GatesTypes, OneAtATime, [GatesNext]_gatesVars PROVE OneAtATime'
  OBVIOUS
<1> USE DEF OneAtATime, Calm, ToolStands, AuthorityIsFresh
<1>1. ASSUME NEW r \in Routes \cup {"none"}, Prompt(r) PROVE OneAtATime'
  BY <1>1 DEF Prompt, selectRoute, emptyState
<1>2. ASSUME NEW r \in Routes, EntryGate(r) PROVE OneAtATime'
  BY <1>2 DEF EntryGate, selectRoute, emptyState, Alone
<1>3. ASSUME NEW m \in Modes, SetMode(m) PROVE OneAtATime'
  BY <1>3 DEF SetMode
<1>4. ASSUME NEW D \in SUBSET Decisions, NEW a \in Answers, request_user_input(D, a)
      PROVE  OneAtATime'
  BY <1>4 DEF request_user_input, rememberUserAnswers, Alone, GatesTypes, States
<1>5. ASSUME NEW d \in Decisions, NEW a \in Answers, DecisionEvidence(d, a) PROVE OneAtATime'
  BY <1>5 DEF DecisionEvidence, Alone, GatesTypes, States
<1>6. ASSUME Attest PROVE OneAtATime'
  BY <1>6 DEF Attest, Alone, GatesTypes, States
<1>7. ASSUME NEW D \in SUBSET Decisions, NEW claim \in [D -> Answers], MutationGate(claim)
      PROVE  OneAtATime'
  BY <1>7 DEF MutationGate, Alone, GatesTypes, History
<1>8. ASSUME NEW c \in Calls, CallWrite(c) PROVE OneAtATime'
  BY <1>8 DEF CallWrite, GatesTypes
<1>9. ASSUME NEW c \in Calls, RunWrite(c) PROVE OneAtATime'
  BY <1>9 DEF RunWrite, GatesTypes, History
<1>10. ASSUME NEW c \in Calls, EndWrite(c) PROVE OneAtATime'
  BY <1>10 DEF EndWrite, GatesTypes, States, History
<1>11. ASSUME EditElsewhere PROVE OneAtATime'
  BY <1>11 DEF EditElsewhere
<1>12. ASSUME NEW name \in Tools, BeginTool(name) PROVE OneAtATime'
  BY <1>12 DEF BeginTool, Alone
<1>13. ASSUME EndReview PROVE OneAtATime'
  <2>1. tool # NoTool
    BY <1>13 DEF EndReview, NoTool
  <2>2. st'.authorized = st.authorized /\ known'.fresh = known.fresh
    BY <1>13, <2>1 DEF EndReview, GatesTypes, States, History
  <2> QED
    BY <1>13, <2>1, <2>2 DEF EndReview
<1>14. ASSUME EndResult PROVE OneAtATime'
  <2>1. tool # NoTool
    BY <1>14 DEF EndResult, NoTool
  <2>2. st'.authorized = st.authorized /\ known'.fresh = known.fresh
    BY <1>14, <2>1 DEF EndResult, GatesTypes, States, History
  <2> QED
    BY <1>14, <2>1, <2>2 DEF EndResult
<1>15. ASSUME EndVerify PROVE OneAtATime'
  <2>1. tool # NoTool
    BY <1>15 DEF EndVerify, NoTool
  <2>2. st'.authorized = st.authorized /\ known'.fresh = known.fresh
    BY <1>15, <2>1 DEF EndVerify, GatesTypes, States, History
  <2> QED
    BY <1>15, <2>1, <2>2 DEF EndVerify
<1>16. ASSUME FailTool PROVE OneAtATime'
  BY <1>16 DEF FailTool
<1>17. ASSUME AgentEnd PROVE OneAtATime'
  BY <1>17 DEF AgentEnd, Alone, GatesTypes, States
<1>18. ASSUME Restart PROVE OneAtATime'
  BY <1>18, ClonedStateTyped DEF Restart, GatesTypes
<1>19. CASE UNCHANGED gatesVars
  BY <1>19 DEF gatesVars
<1> HIDE DEF OneAtATime
<1> QED
  BY <1>1, <1>2, <1>3, <1>4, <1>5, <1>6, <1>7, <1>8, <1>9, <1>10, <1>11, <1>12, <1>13, <1>14,
     <1>15, <1>16, <1>17, <1>18, <1>19 DEF GatesNext

(* A write passes the hook only with an authority of its own route and      *)
(* process, since which no write has ended, for any number of calls that    *)
(* run beside each other, of restarts and of changes of the route.          *)
THEOREM AuthoritySafety == GatesSpec => AuthorityIsSpent
<1>1. GatesTypes /\ OneAtATime /\ [GatesNext]_gatesVars => [SpendsAuthority]_gatesVars
  <2> SUFFICES ASSUME GatesTypes, OneAtATime, GatesNext,
                      NEW c \in Calls, write[c] = "none", write'[c] = "called"
               PROVE  known.fresh /\ mode = "full"
    BY DEF SpendsAuthority
  <2>1. PICK b \in Calls : CallWrite(b) \/ RunWrite(b) \/ EndWrite(b)
    BY DEF GatesNext, Prompt, EntryGate, SetMode, request_user_input, DecisionEvidence, Attest,
           MutationGate, EditElsewhere, BeginTool, EndReview, EndResult, EndVerify, FailTool,
           AgentEnd, Restart
  <2>2. ~RunWrite(b) /\ ~EndWrite(b)
    BY DEF RunWrite, EndWrite, GatesTypes
  <2> QED
    BY <2>1, <2>2 DEF CallWrite, OneAtATime, AuthorityIsFresh
<1> QED
  BY <1>1, GatesBegin, GatesTyped, OneAtATimeBegins, OneAtATimeKept, PTL
     DEF GatesSpec, AuthorityIsSpent

-----------------------------------------------------------------------------
(* CompletionIsProved is not inductive: what a turn relies on when it ends  *)
(* was proved before the turn, and may have been saved again by other       *)
(* tools, a restart or the end of a write that failed.  Between writes the  *)
(* saved state tells what was reached: a write that succeeded is known, a   *)
(* PASS and a verification are not older than the last one.                 *)
Pending == \E c \in Calls : write[c] = "done"

Reached ==
    ~known.lost /\ ~Pending =>
        /\ st.mutated \/ known.lastWrite = 0
        /\ st.passed => known.lastWrite <= known.reviewed
        /\ st.verified /\ st.route = "direct_verify" => known.lastWrite <= known.verified

Proved == known.lastWrite <= tree /\ Reached /\ CompletionIsProved

LEMMA ProvedBegins == GatesInit => Proved
BY DEF GatesInit, Proved, Reached, CompletionIsProved, emptyState

(* A step after which neither a write nor a completed turn is other than    *)
(* before, and the state tells no more, keeps all of it.                    *)
LEMMA NothingNew ==
    ASSUME GatesTypes, Proved, known' \in History, tree' \in Nat,
           tree <= tree',
           known'.lastWrite = known.lastWrite,
           known'.reviewed = known.reviewed, known'.verified = known.verified,
           known.lost => known'.lost,
           Pending => Pending' \/ known'.lost,
           st.mutated => st'.mutated,
           st'.passed => st.passed,
           st'.route = st.route,
           st'.route = "direct_verify" /\ st'.verified => st.verified,
           turn' = "complete" => turn = "complete"
    PROVE  Proved'
BY DEF Proved, Reached, CompletionIsProved, GatesTypes, History

(* A route begins with nothing written, proved or completed.                *)
LEMMA RouteProved ==
    ASSUME GatesTypes, NEW r \in Routes, selectRoute(r), tree' = tree, turn' # "complete"
    PROVE  Proved'
BY DEF selectRoute, emptyState, Proved, Reached, CompletionIsProved, GatesTypes, History

LEMMA ProvedKept == GatesTypes /\ OneAtATime /\ Proved /\ [GatesNext]_gatesVars => Proved'
<1> SUFFICES ASSUME GatesTypes, OneAtATime, Proved, [GatesNext]_gatesVars PROVE Proved'
  OBVIOUS
<1>0. GatesTypes' /\ known' \in History /\ tree \in Nat /\ tree' \in Nat
  BY GatesTyped DEF GatesTypes
<1>1. ASSUME NEW r \in Routes \cup {"none"}, Prompt(r) PROVE Proved'
  <2>1. CASE r = "none"
    BY <1>0, <1>1, <2>1, NothingNew DEF Prompt, Pending
  <2>2. CASE r # "none"
    BY <1>1, <2>2, RouteProved DEF Prompt
  <2> QED
    BY <2>1, <2>2
<1>2. ASSUME NEW r \in Routes, EntryGate(r) PROVE Proved'
  BY <1>2, RouteProved DEF EntryGate, Alone
<1>3. ASSUME NEW m \in Modes, SetMode(m) PROVE Proved'
  BY <1>0, <1>3, NothingNew DEF SetMode, Pending
<1>4. ASSUME NEW D \in SUBSET Decisions, NEW a \in Answers, request_user_input(D, a)
      PROVE  Proved'
  BY <1>0, <1>4, NothingNew
     DEF request_user_input, rememberUserAnswers, Pending, GatesTypes, States
<1>5. ASSUME NEW d \in Decisions, NEW a \in Answers, DecisionEvidence(d, a) PROVE Proved'
  BY <1>0, <1>5, NothingNew DEF DecisionEvidence, Pending, GatesTypes, States
<1>6. ASSUME Attest PROVE Proved'
  BY <1>0, <1>6, NothingNew DEF Attest, Pending, GatesTypes, States
<1>7. ASSUME NEW D \in SUBSET Decisions, NEW claim \in [D -> Answers], MutationGate(claim)
      PROVE  Proved'
  BY <1>0, <1>7, NothingNew DEF MutationGate, Pending, GatesTypes, States, History
<1>8. ASSUME NEW c \in Calls, CallWrite(c) PROVE Proved'
  <2>1. Pending => Pending'
    BY <1>8 DEF CallWrite, Pending, GatesTypes
  <2> QED
    BY <1>0, <1>8, <2>1, NothingNew DEF CallWrite
<1>9. ASSUME NEW c \in Calls, RunWrite(c) PROVE Proved'
  <2>1. turn = "busy"
    BY <1>9 DEF RunWrite, OneAtATime, Calm
  <2>2. CASE write'[c] = "done"
    <3>1. Pending'
      BY <2>2 DEF Pending
    <3>2. known'.lastWrite <= tree'
      BY <1>9, <2>2 DEF RunWrite, GatesTypes, History
    <3> QED
      BY <1>9, <2>1, <3>1, <3>2 DEF RunWrite, Proved, Reached, CompletionIsProved
  <2>3. CASE write'[c] # "done"
    <3>1. Pending => Pending'
      BY <1>9, <2>3 DEF RunWrite, Pending, GatesTypes
    <3>2. known' = known /\ tree <= tree'
      BY <1>0, <1>9, <2>3 DEF RunWrite, GatesTypes
    <3> QED
      BY <1>0, <1>9, <2>1, <3>1, <3>2, NothingNew DEF RunWrite
  <2> QED
    BY <2>2, <2>3
<1>10. ASSUME NEW c \in Calls, EndWrite(c) PROVE Proved'
  <2>1. turn' = "busy"
    BY <1>10 DEF EndWrite, OneAtATime, Calm
  <2>2. /\ known'.lastWrite = known.lastWrite /\ known'.reviewed = known.reviewed
        /\ known'.verified = known.verified /\ known'.lost = known.lost
    BY <1>10 DEF EndWrite, GatesTypes, History
  <2>3. CASE write[c] = "failed"
    <3>1. Pending => Pending'
      BY <1>10, <2>3 DEF EndWrite, Pending, GatesTypes
    <3>2. /\ st'.mutated = st.mutated /\ st'.passed = st.passed
          /\ st'.route = st.route /\ st'.verified = st.verified
      BY <1>10, <2>3 DEF EndWrite, GatesTypes, States
    <3> QED
      BY <1>0, <1>10, <2>1, <2>2, <3>1, <3>2, NothingNew DEF EndWrite
  <2>4. CASE write[c] = "done"
    <3>1. /\ st'.mutated /\ ~st'.passed
          /\ st'.route = "direct_verify" => ~st'.verified
      BY <1>10, <2>4 DEF EndWrite, GatesTypes, States
    <3>2. known'.lastWrite <= tree'
      BY <1>10, <2>2 DEF EndWrite, Proved
    <3> QED
      BY <2>1, <3>1, <3>2 DEF Proved, Reached, CompletionIsProved
  <2> QED
    BY <1>10, <2>3, <2>4 DEF EndWrite
<1>11. ASSUME EditElsewhere PROVE Proved'
  BY <1>0, <1>11, NothingNew DEF EditElsewhere, Pending
<1>12. ASSUME NEW name \in Tools, BeginTool(name) PROVE Proved'
  BY <1>0, <1>12, NothingNew DEF BeginTool, Pending
<1>13. ASSUME EndReview PROVE Proved'
  <2>1. tool # NoTool
    BY <1>13 DEF EndReview, NoTool
  <2>2. tool.state = st
    BY <2>1 DEF OneAtATime, ToolStands
  <2>3. /\ st'.mutated = st.mutated /\ ~st'.passed
        /\ st'.route = st.route /\ st'.verified = st.verified
    BY <1>13, <2>2 DEF EndReview, GatesTypes, States
  <2> QED
    BY <1>0, <1>13, <2>3, NothingNew DEF EndReview, Pending
<1>14. ASSUME EndResult PROVE Proved'
  <2>1. tool # NoTool
    BY <1>14 DEF EndResult, NoTool
  <2>2. tool.state = st /\ turn' = "busy"
    BY <1>14, <2>1 DEF EndResult, OneAtATime, ToolStands
  <2>3. /\ st'.mutated = st.mutated
        /\ st'.route = st.route /\ st'.verified = st.verified
    BY <1>14, <2>2 DEF EndResult, GatesTypes, States
  <2>4. /\ known'.lastWrite = known.lastWrite /\ known'.reviewed = tree
        /\ known'.verified = known.verified /\ known'.lost = known.lost
    BY <1>14, <2>2 DEF EndResult, GatesTypes, History
  <2>5. Pending' <=> Pending
    BY <1>14 DEF EndResult, Pending
  <2> QED
    BY <1>14, <2>2, <2>3, <2>4, <2>5 DEF EndResult, Proved, Reached, CompletionIsProved
<1>15. ASSUME EndVerify PROVE Proved'
  <2>1. tool # NoTool
    BY <1>15 DEF EndVerify, NoTool
  <2>2. tool.state = st /\ turn' = "busy"
    BY <1>15, <2>1 DEF EndVerify, OneAtATime, ToolStands
  <2>3. /\ st'.mutated = st.mutated /\ st'.passed = st.passed /\ st'.route = st.route
    BY <1>15, <2>2 DEF EndVerify, GatesTypes, States
  <2>4. /\ known'.lastWrite = known.lastWrite /\ known'.reviewed = known.reviewed
        /\ known'.verified = tree /\ known'.lost = known.lost
    BY <1>15, <2>2 DEF EndVerify, GatesTypes, History
  <2>5. Pending' <=> Pending
    BY <1>15 DEF EndVerify, Pending
  <2> QED
    BY <1>15, <2>2, <2>3, <2>4, <2>5 DEF EndVerify, Proved, Reached, CompletionIsProved
<1>16. ASSUME FailTool PROVE Proved'
  BY <1>0, <1>16, NothingNew DEF FailTool, Pending
<1>17. ASSUME AgentEnd PROVE Proved'
  <2>1. ~Pending /\ known' = known /\ tree' = tree /\ (Pending' <=> Pending)
    BY <1>17 DEF AgentEnd, Alone, Pending
  <2>2. /\ st'.mutated = st.mutated /\ st'.passed = st.passed
        /\ st'.route = st.route /\ st'.verified = st.verified
    BY <1>17 DEF AgentEnd, GatesTypes, States
  <2>3. CASE turn' # "complete"
    BY <1>0, <2>1, <2>2, <2>3, NothingNew
  <2>4. CASE turn' = "complete"
    <3>1. blockers = {}
      BY <1>17, <2>4 DEF AgentEnd
    <3>2. st.mutated => st.passed /\ (st.route = "direct_verify" => st.verified)
      BY <3>1 DEF blockers
    <3>3. ~known.lost => /\ known.lastWrite <= known.reviewed
                         /\ st.route = "direct_verify" => known.lastWrite <= known.verified
      BY <2>1, <3>2 DEF Proved, Reached, GatesTypes, History
    <3> QED
      BY <2>1, <2>2, <3>3 DEF Proved, Reached, CompletionIsProved
  <2> QED
    BY <2>3, <2>4
<1>18. ASSUME Restart PROVE Proved'
  <2>1. /\ known'.lastWrite = known.lastWrite /\ known'.reviewed = known.reviewed
        /\ known'.verified = known.verified
        /\ known.lost \/ Pending => known'.lost
    BY <1>18 DEF Restart, GatesTypes, History, Pending
  <2>2. /\ st'.mutated = st.mutated /\ ~st'.passed /\ st'.route = st.route
        /\ st'.verified => st.verified
    BY <1>18, ClonedStateTyped DEF Restart, GatesTypes
  <2> QED
    BY <1>0, <1>18, <2>1, <2>2, NothingNew DEF Restart
<1>19. CASE UNCHANGED gatesVars
  BY <1>0, <1>19, NothingNew DEF gatesVars, Pending
<1> QED
  BY <1>1, <1>2, <1>3, <1>4, <1>5, <1>6, <1>7, <1>8, <1>9, <1>10, <1>11, <1>12, <1>13, <1>14,
     <1>15, <1>16, <1>17, <1>18, <1>19 DEF GatesNext

(* A turn ends as complete only on a PASS, and on the route with            *)
(* verification a verification, of a repository that has the last           *)
(* successful write in it, whatever ran beside it, failed, was edited       *)
(* elsewhere or was restarted, unless a crash took the end of a write.      *)
THEOREM CompletionSafety == GatesSpec => []CompletionIsProved
<1>1. Proved => CompletionIsProved
  BY DEF Proved
<1> QED
  BY <1>1, GatesBegin, GatesTyped, OneAtATimeBegins, OneAtATimeKept, ProvedBegins, ProvedKept, PTL
     DEF GatesSpec

-----------------------------------------------------------------------------
(* The resident runtime.                                                    *)

LauncherStates == [at : Steps, tries : 0 .. MaxTries - 1, to : Runtimes \cup {Nobody}]
ProcessStates == [state : RuntimeStates, loaded : 0 .. 1, queue : Seq(Launchers),
                  running : BOOLEAN]
Queue(r) == runtime[r].queue

LEMMA Moves ==
    ASSUME ResidentTypes, NEW l \in Launchers, NEW step \in Steps,
           Go(l, step) \/ Again(l, step)
    PROVE  /\ launcher' \in [Launchers -> LauncherStates]
           /\ \A k \in Launchers \ {l} : launcher'[k] = launcher[k]
           /\ launcher'[l].at \in {launcher[l].at, step}
           /\ Go(l, step) => launcher'[l].at = step
<1>0. launcher \in [Launchers -> LauncherStates] /\ MaxTries \in Nat \ {0}
  BY ResidentRuntimeAssumption DEF ResidentTypes, LauncherStates
<1>1. CASE Go(l, step)
  <2>1. [launcher[l] EXCEPT !.at = step, !.tries = 0] \in LauncherStates
    <3>1. 0 \in 0 .. MaxTries - 1
      BY <1>0
    <3>2. launcher[l] \in LauncherStates
      BY <1>0
    <3> QED
      BY <3>1, <3>2 DEF LauncherStates
  <2>2. launcher' = [launcher EXCEPT ![l] = [launcher[l] EXCEPT !.at = step, !.tries = 0]]
    BY <1>0, <1>1 DEF Go, LauncherStates
  <2> QED
    BY <1>0, <2>1, <2>2 DEF LauncherStates
<1>2. CASE ~Go(l, step)
  <2>1. /\ launcher[l].tries + 1 < MaxTries
        /\ launcher' = [launcher EXCEPT ![l].tries = @ + 1]
    BY <1>2 DEF Again
  <2> QED
    BY <1>0, <1>2, <2>1 DEF LauncherStates
<1> QED
  BY <1>1, <1>2

LEMMA Becomes ==
    ASSUME ResidentTypes, NEW r \in Runtimes, NEW state \in RuntimeStates, Become(r, state)
    PROVE  /\ runtime' \in [Runtimes -> ProcessStates]
           /\ \A q \in Runtimes : Queue(q)' = Queue(q) /\ Busy(q)' = Busy(q)
           /\ Is(r, state)' /\ \A q \in Runtimes \ {r} : runtime'[q] = runtime[q]
BY DEF ResidentTypes, ProcessStates, Become, Queue, Busy, Is

(* What a launcher's step does: it moves its own launcher, never back to    *)
(* before its request from after it, and touches no queue.                  *)
Ahead == Steps \ {"queued", "done", "dead"}

QueuesStand == \A r \in Runtimes : Queue(r)' = Queue(r) /\ Busy(r)' = Busy(r)

OthersStand(l) == \A k \in Launchers \ {l} : launcher'[k] = launcher[k]

LEMMA LauncherMoves ==
    ASSUME ResidentTypes, NEW l \in Launchers, LauncherStep(l)
    PROVE  /\ launcher' \in [Launchers -> LauncherStates]
           /\ runtime' \in [Runtimes -> ProcessStates]
           /\ lock' \in [made : BOOLEAN, pid : Launchers \cup {Nobody}]
           /\ socket' \in Runtimes \cup {Nobody} /\ meta' \in Runtimes \cup {Nobody}
           /\ QueuesStand /\ OthersStand(l)
           /\ launcher'[l].at \in Ahead => launcher[l].at \in Ahead
           /\ \/ runs' = runs
              \/ /\ LauncherAt(l, "cli") /\ LauncherAt(l, "done")'
                 /\ runs' = [runs EXCEPT ![l] = @ + 1]
<1> USE DEF QueuesStand, OthersStand, Ahead, Steps
<1>0. /\ launcher \in [Launchers -> LauncherStates] /\ runtime \in [Runtimes -> ProcessStates]
      /\ lock \in [made : BOOLEAN, pid : Launchers \cup {Nobody}]
      /\ NoLock \in [made : BOOLEAN, pid : Launchers \cup {Nobody}]
      /\ socket \in Runtimes \cup {Nobody} /\ meta \in Runtimes \cup {Nobody}
  BY DEF ResidentTypes, LauncherStates, ProcessStates, NoLock
<1>1. CASE BeginLauncher(l)
  BY <1>0, <1>1, Moves DEF BeginLauncher, files, LauncherAt, Queue, Busy
<1>2. CASE Probe(l)
  BY <1>0, <1>2, Moves DEF Probe, files, LauncherAt, Queue, Busy
<1>3. CASE Lock(l)
  <2>1. lock' \in [made : BOOLEAN, pid : Launchers \cup {Nobody}]
    <3>1. lock' = lock \/ lock' = [made |-> TRUE, pid |-> Nobody]
      BY <1>3 DEF Lock
    <3>2. [made |-> TRUE, pid |-> Nobody] \in [made : BOOLEAN, pid : Launchers \cup {Nobody}]
      OBVIOUS
    <3> QED
      BY <1>0, <3>1, <3>2
  <2> QED
    BY <1>0, <1>3, <2>1, Moves DEF Lock, LauncherAt, Queue, Busy
<1>4. CASE RemoveLock(l)
  BY <1>0, <1>4, Moves DEF RemoveLock, LauncherAt, Queue, Busy
<1>5. CASE WritePid(l)
  <2>1. lock' \in [made : BOOLEAN, pid : Launchers \cup {Nobody}]
    BY <1>0, <1>5 DEF WritePid
  <2> QED
    BY <1>0, <1>5, <2>1, Moves DEF WritePid, LauncherAt, Queue, Busy
<1>6. CASE Start(l)
  <2>1. PICK r \in Runtimes : Become(r, "spawned")
    BY <1>6 DEF Start, Become
  <2> QED
    BY <1>0, <1>6, <2>1, Moves, Becomes DEF Start, LauncherAt, RuntimeStates
<1>7. CASE Health(l)
  <2>1. lock' \in [made : BOOLEAN, pid : Launchers \cup {Nobody}]
    BY <1>0, <1>7 DEF Health, ReleaseOwn
  <2> QED
    BY <1>0, <1>7, <2>1, Moves DEF Health, LauncherAt, Queue, Busy
<1>8. CASE Wait(l)
  BY <1>0, <1>8, Moves DEF Wait, files, LauncherAt, Queue, Busy
<1>9. CASE Post(l)
  <2>1. CASE Go(l, "done")
    BY <1>0, <1>9, <2>1, Moves DEF Post, files, LauncherAt, Queue, Busy
  <2>2. CASE ~Go(l, "done")
    BY <1>0, <1>9, <2>2 DEF Post, files, LauncherAt, Queue, Busy, LauncherStates
  <2> QED
    BY <2>1, <2>2
<1>10. CASE TimeOut(l)
  BY <1>0, <1>10, Moves DEF TimeOut, files, LauncherAt, Queue, Busy
<1>11. CASE Broken(l)
  BY <1>0, <1>11, Moves DEF Broken, files, LauncherAt, Queue, Busy
<1>12. CASE Refused(l)
  BY <1>0, <1>12, Moves DEF Refused, LauncherAt, Queue, Busy
<1>13. CASE Direct(l)
  BY <1>0, <1>13, Moves DEF Direct, files, LauncherAt, Queue, Busy
<1> QED
  BY <1>1, <1>2, <1>3, <1>4, <1>5, <1>6, <1>7, <1>8, <1>9, <1>10, <1>11, <1>12, <1>13
     DEF LauncherStep

(* The steps of a runtime that touch no queue change no launcher either.    *)
Plain(r) == LoadBuild(r) \/ Listen(r) \/ Publish(r) \/ Retire(r) \/ Exit(r)

LEMMA PlainSteps ==
    ASSUME ResidentTypes, NEW r \in Runtimes, Plain(r)
    PROVE  /\ runtime' \in [Runtimes -> ProcessStates]
           /\ socket' \in Runtimes \cup {Nobody} /\ meta' \in Runtimes \cup {Nobody}
           /\ QueuesStand /\ UNCHANGED <<launcher, lock, runs>>
<1> USE DEF QueuesStand, RuntimeStates
<1>0. /\ runtime \in [Runtimes -> ProcessStates] /\ build \in 0 .. 1
      /\ socket \in Runtimes \cup {Nobody} /\ meta \in Runtimes \cup {Nobody}
  BY DEF ResidentTypes, ProcessStates
<1>1. CASE LoadBuild(r)
  BY <1>0, <1>1 DEF LoadBuild, ProcessStates, Queue, Busy
<1>2. CASE Listen(r)
  BY <1>0, <1>2, Becomes DEF Listen
<1>3. CASE Publish(r)
  BY <1>0, <1>3, Becomes DEF Publish
<1>4. CASE Retire(r)
  BY <1>0, <1>4, Becomes DEF Retire
<1>5. CASE Exit(r)
  BY <1>0, <1>5, Becomes DEF Exit
<1> QED
  BY <1>1, <1>2, <1>3, <1>4, <1>5 DEF Plain

(* A request that is taken: it is put at the end of the queue, or refused.  *)
LEMMA AcceptedOrRefused ==
    ASSUME ResidentTypes, NEW r \in Runtimes, NEW l \in Launchers, Accept(r, l)
    PROVE  /\ launcher' \in [Launchers -> LauncherStates]
           /\ runtime' \in [Runtimes -> ProcessStates]
           /\ LauncherAt(l, "sent") /\ OthersStand(l) /\ UNCHANGED <<files, runs>>
           /\ \A q \in Runtimes : Busy(q)' = Busy(q)
           /\ \A q \in Runtimes \ {r} : Queue(q)' = Queue(q)
           /\ \/ LauncherAt(l, "refused")' /\ Queue(r)' = Queue(r)
              \/ LauncherAt(l, "queued")' /\ Queue(r)' = Append(Queue(r), l)
<1>0. launcher \in [Launchers -> LauncherStates] /\ runtime \in [Runtimes -> ProcessStates]
  BY DEF ResidentTypes, LauncherStates, ProcessStates
<1>1. CASE Current(r)
  <2>1. /\ runtime' = [runtime EXCEPT ![r].queue = Append(@, l)]
        /\ launcher' = [launcher EXCEPT ![l].at = "queued"]
        /\ LauncherAt(l, "sent") /\ UNCHANGED <<files, runs>>
    BY <1>1 DEF Accept
  <2>2. Queue(r) \in Seq(Launchers) /\ Append(Queue(r), l) \in Seq(Launchers)
    BY <1>0 DEF Queue, ProcessStates
  <2>3. /\ launcher' \in [Launchers -> LauncherStates] /\ OthersStand(l) /\ LauncherAt(l, "queued")'
    BY <1>0, <2>1 DEF LauncherStates, OthersStand, LauncherAt, Steps
  <2>4. /\ runtime' \in [Runtimes -> ProcessStates]
        /\ \A q \in Runtimes : Busy(q)' = Busy(q)
        /\ \A q \in Runtimes \ {r} : Queue(q)' = Queue(q)
        /\ Queue(r)' = Append(Queue(r), l)
    BY <1>0, <2>1, <2>2 DEF ProcessStates, Queue, Busy
  <2> QED
    BY <2>1, <2>3, <2>4
<1>2. CASE ~Current(r)
  BY <1>0, <1>2, Moves DEF Accept, OthersStand, Steps, Queue, Busy, LauncherAt
<1> QED
  BY <1>1, <1>2

LEMMA Executes ==
    ASSUME ResidentTypes, NEW r \in Runtimes, Execute(r)
    PROVE  /\ runtime' \in [Runtimes -> ProcessStates]
           /\ Queue(r) \in Seq(Launchers) \ {<<>>} /\ ~Busy(r)
           /\ runs' = [runs EXCEPT ![Head(Queue(r))] = @ + 1]
           /\ \A q \in Runtimes : Queue(q)' = Queue(q)
           /\ Busy(r)' /\ \A q \in Runtimes \ {r} : Busy(q)' = Busy(q)
           /\ UNCHANGED <<launcher, files>>
BY DEF Execute, ResidentTypes, ProcessStates, Queue, Busy

LEMMA Answered ==
    ASSUME ResidentTypes, NEW r \in Runtimes, Answer(r)
    PROVE  /\ launcher' \in [Launchers -> LauncherStates]
           /\ runtime' \in [Runtimes -> ProcessStates]
           /\ \A k \in Launchers : launcher'[k] = launcher[k] \/ LauncherAt(k, "done")'
           /\ Queue(r) \in Seq(Launchers) \ {<<>>} /\ Queue(r)' = Tail(Queue(r))
           /\ \A q \in Runtimes \ {r} : Queue(q)' = Queue(q) /\ Busy(q)' = Busy(q)
           /\ ~Busy(r)' /\ UNCHANGED <<files, runs>>
<1>0. launcher \in [Launchers -> LauncherStates] /\ runtime \in [Runtimes -> ProcessStates]
  BY DEF ResidentTypes, LauncherStates, ProcessStates
<1>1. Queue(r) \in Seq(Launchers) /\ Queue(r) # <<>>
  BY DEF Answer, ResidentTypes, Queue, Busy, ProcessStates
<1>2. Head(Queue(r)) \in Launchers /\ Tail(Queue(r)) \in Seq(Launchers)
  BY <1>1
<1>3. /\ runtime' = [runtime EXCEPT ![r].queue = Tail(@), ![r].running = FALSE]
      /\ UNCHANGED <<files, runs>>
  BY DEF Answer
<1>4. /\ launcher' \in [Launchers -> LauncherStates]
      /\ \A k \in Launchers : launcher'[k] = launcher[k] \/ LauncherAt(k, "done")'
  <2>1. \/ launcher' = launcher
        \/ launcher' = [launcher EXCEPT ![Head(Queue(r))].at = "done"]
    BY DEF Answer, Queue
  <2> QED
    BY <1>0, <1>2, <2>1 DEF LauncherStates, LauncherAt, Steps
<1>5. /\ runtime' \in [Runtimes -> ProcessStates]
      /\ Queue(r)' = Tail(Queue(r)) /\ ~Busy(r)'
      /\ \A q \in Runtimes \ {r} : Queue(q)' = Queue(q) /\ Busy(q)' = Busy(q)
  BY <1>0, <1>2, <1>3 DEF ProcessStates, Queue, Busy
<1> QED
  BY <1>1, <1>3, <1>4, <1>5

LEMMA Kills ==
    ASSUME ResidentTypes, NEW l \in Launchers, KillLauncher(l)
    PROVE  /\ launcher' \in [Launchers -> LauncherStates] /\ OthersStand(l)
           /\ LauncherAt(l, "dead")' /\ launcher[l].at \notin {"idle", "done", "dead"}
           /\ killed' \in 0 .. MaxKilled /\ UNCHANGED <<runtime, files, build, runs>>
BY Moves, ResidentRuntimeAssumption
   DEF KillLauncher, OthersStand, LauncherAt, Steps, ResidentTypes

(* The kinds of step, with the queues and the counts that they leave.       *)
LEMMA ResidentKinds ==
    ASSUME ResidentNext
    PROVE  \/ \E l \in Launchers : LauncherStep(l)
           \/ \E r \in Runtimes : Plain(r)
           \/ \E r \in Runtimes, l \in Launchers : Accept(r, l)
           \/ \E r \in Runtimes : Execute(r)
           \/ \E r \in Runtimes : Answer(r)
           \/ \E l \in Launchers : KillLauncher(l)
           \/ \E r \in Runtimes : KillRuntime(r)
           \/ NewBuild
BY DEF ResidentNext, RuntimeStep, Plain

LEMMA ResidentBegins == ResidentInit => ResidentTypes
BY ResidentRuntimeAssumption
   DEF ResidentInit, ResidentTypes, Steps, RuntimeStates, NoLock, Busy

LEMMA ResidentTyped == ResidentTypes /\ [ResidentNext]_residentVars => ResidentTypes'
<1> SUFFICES ASSUME ResidentTypes, [ResidentNext]_residentVars PROVE ResidentTypes'
  OBVIOUS
<1> DEFINE Sorts ==
      /\ launcher \in [Launchers -> LauncherStates] /\ runtime \in [Runtimes -> ProcessStates]
      /\ \A r \in Runtimes : Busy(r) => Queue(r) # <<>>
      /\ lock \in [made : BOOLEAN, pid : Launchers \cup {Nobody}]
      /\ socket \in Runtimes \cup {Nobody} /\ meta \in Runtimes \cup {Nobody}
<1>0. (ResidentTypes <=> /\ Sorts /\ build \in 0 .. 1 /\ killed \in 0 .. MaxKilled
                         /\ since \subseteq Launchers)
      /\ (ResidentTypes' <=> /\ Sorts' /\ build' \in 0 .. 1 /\ killed' \in 0 .. MaxKilled
                           /\ since' \subseteq Launchers)
  BY DEF ResidentTypes, LauncherStates, ProcessStates, Queue
<1>1. CASE UNCHANGED residentVars
  BY <1>1 DEF residentVars, files, ResidentTypes, Busy
<1>2. CASE ResidentNext
  <2>1. since' \subseteq Launchers
    BY <1>0, <1>2 DEF ResidentNext, Began
  <2>2. ASSUME NEW l \in Launchers, LauncherStep(l), UNCHANGED <<build, killed>>
        PROVE  ResidentTypes'
    BY <1>0, <2>1, <2>2, LauncherMoves DEF QueuesStand
  <2>3. ASSUME NEW r \in Runtimes, RuntimeStep(r), UNCHANGED <<build, killed>>
        PROVE  ResidentTypes'
    <3>1. CASE Plain(r)
      BY <1>0, <2>1, <2>3, <3>1, PlainSteps DEF QueuesStand
    <3>2. ASSUME NEW l \in Launchers, Accept(r, l) PROVE ResidentTypes'
      <4>1. Queue(r) \in Seq(Launchers)
        BY <1>0 DEF ProcessStates, Queue
      <4>2. Append(Queue(r), l) # <<>>
        <5>1. Len(Append(Queue(r), l)) = Len(Queue(r)) + 1 /\ Len(Queue(r)) \in Nat
          BY <4>1
        <5>2. Len(<<>>) = 0
          OBVIOUS
        <5> QED
          BY <5>1, <5>2
      <4>3. \A q \in Runtimes : Busy(q)' => Queue(q)' # <<>>
        BY <1>0, <3>2, <4>2, AcceptedOrRefused
      <4> QED
        BY <1>0, <2>1, <2>3, <3>2, <4>3, AcceptedOrRefused DEF files
    <3>3. CASE Execute(r)
      <4>1. \A q \in Runtimes : Busy(q)' => Queue(q)' # <<>>
        BY <1>0, <3>3, Executes
      <4> QED
        BY <1>0, <2>1, <2>3, <3>3, <4>1, Executes DEF files
    <3>4. CASE Answer(r)
      <4>1. \A q \in Runtimes : Busy(q)' => Queue(q)' # <<>>
        BY <1>0, <3>4, Answered
      <4> QED
        BY <1>0, <2>1, <2>3, <3>4, <4>1, Answered DEF files
    <3> QED
      BY <2>3, <3>1, <3>2, <3>3, <3>4 DEF RuntimeStep, Plain
  <2>4. ASSUME NEW l \in Launchers, KillLauncher(l) PROVE ResidentTypes'
    BY <1>0, <2>1, <2>4, Kills DEF files, Queue, Busy
  <2>5. ASSUME NEW r \in Runtimes, KillRuntime(r) PROVE ResidentTypes'
    <3>1. killed' \in 0 .. MaxKilled
      BY <1>0, <2>5, ResidentRuntimeAssumption DEF KillRuntime
    <3> QED
      BY <1>0, <2>1, <2>5, <3>1, Becomes DEF KillRuntime, files, RuntimeStates
  <2>6. CASE NewBuild
    BY <1>0, <2>1, <2>6 DEF NewBuild, files, Queue, Busy
  <2> QED
    BY <1>2, <2>2, <2>3, <2>4, <2>5, <2>6 DEF ResidentNext
<1> QED
  BY <1>1, <1>2

(* For any launchers, runtimes, deaths and length of the loops, the         *)
(* variables keep their types, and a runtime that is busy has the command   *)
(* at the head of its queue (runtime-server.ts, specrail-fast.sh).          *)
THEOREM ResidentTyping == ResidentSpec => []ResidentTypes
BY ResidentBegins, ResidentTyped, PTL DEF ResidentSpec

-----------------------------------------------------------------------------
(* LauncherAt most once.  A launcher whose request was not taken has nothing run    *)
(* and nothing queued; what is queued is there once, in one queue, and has  *)
(* not run, but for the head of a busy runtime.                             *)
NotTaken ==
    \A l \in Launchers : launcher[l].at \in Ahead =>
        runs[l] = 0 /\ \A r \in Runtimes : \A i \in 1 .. Len(Queue(r)) : Queue(r)[i] # l

QueuedOnce ==
    \A r, q \in Runtimes : \A i \in 1 .. Len(Queue(r)), j \in 1 .. Len(Queue(q)) :
        Queue(r)[i] = Queue(q)[j] => r = q /\ i = j

NotYetRun ==
    \A r \in Runtimes : \A i \in 1 .. Len(Queue(r)) :
        runs[Queue(r)[i]] = 0 \/ (i = 1 /\ Busy(r))

AtMostOnce == runs \in [Launchers -> 0 .. 1] /\ NotTaken /\ QueuedOnce /\ NotYetRun

LEMMA AtMostOnceBegins == ResidentInit => AtMostOnce
BY DEF ResidentInit, AtMostOnce, NotTaken, QueuedOnce, NotYetRun, Queue

(* A step that leaves the queues and the counts alone, and brings no        *)
(* launcher back before its request, keeps this.                            *)
LEMMA AtMostOnceStands ==
    ASSUME AtMostOnce, QueuesStand, runs' = runs,
           \A l \in Launchers : launcher'[l].at \in Ahead => launcher[l].at \in Ahead
    PROVE  AtMostOnce'
BY DEF AtMostOnce, NotTaken, QueuedOnce, NotYetRun, QueuesStand

LEMMA AtMostOnceKept ==
    ResidentTypes /\ AtMostOnce /\ [ResidentNext]_residentVars => AtMostOnce'
<1> SUFFICES ASSUME ResidentTypes, AtMostOnce, [ResidentNext]_residentVars PROVE AtMostOnce'
  OBVIOUS
<1>0. \A r \in Runtimes : Queue(r) \in Seq(Launchers)
  BY DEF ResidentTypes, Queue
<1>1. CASE UNCHANGED residentVars
  BY <1>1, AtMostOnceStands DEF residentVars, QueuesStand, Queue, Busy
<1>2. ASSUME NEW l \in Launchers, LauncherStep(l) PROVE AtMostOnce'
  <2>1. CASE runs' = runs
    BY <1>2, <2>1, LauncherMoves, AtMostOnceStands DEF OthersStand
  <2>2. CASE LauncherAt(l, "cli") /\ LauncherAt(l, "done")' /\ runs' = [runs EXCEPT ![l] = @ + 1]
    <3>1. launcher[l].at \in Ahead /\ launcher'[l].at \notin Ahead
      BY <2>2 DEF LauncherAt, Ahead, Steps
    <3>2. /\ runs[l] = 0 /\ runs' \in [Launchers -> 0 .. 1]
          /\ \A k \in Launchers \ {l} : runs'[k] = runs[k]
          /\ \A r \in Runtimes : \A i \in 1 .. Len(Queue(r)) : Queue(r)[i] # l
      BY <2>2, <3>1 DEF AtMostOnce, NotTaken
    <3>3. \A r \in Runtimes : Queue(r)' = Queue(r) /\ Busy(r)' = Busy(r)
      BY <1>2, LauncherMoves DEF QueuesStand
    <3>4. NotTaken'
      BY <1>2, <3>1, <3>2, <3>3, LauncherMoves DEF OthersStand, AtMostOnce, NotTaken
    <3>5. QueuedOnce'
      BY <3>3 DEF AtMostOnce, QueuedOnce
    <3>6. NotYetRun'
      <4>1. \A r \in Runtimes : \A i \in 1 .. Len(Queue(r)) : Queue(r)[i] \in Launchers \ {l}
        BY <1>0, <3>2
      <4> QED
        BY <3>2, <3>3, <4>1 DEF AtMostOnce, NotYetRun
    <3> QED
      BY <3>2, <3>4, <3>5, <3>6 DEF AtMostOnce
  <2> QED
    BY <1>2, <2>1, <2>2, LauncherMoves
<1>3. ASSUME NEW r \in Runtimes, Plain(r) PROVE AtMostOnce'
  BY <1>3, PlainSteps, AtMostOnceStands
<1>4. ASSUME NEW r \in Runtimes, NEW l \in Launchers, Accept(r, l) PROVE AtMostOnce'
  <2>1. \A k \in Launchers : launcher'[k].at \in Ahead => launcher[k].at \in Ahead
    BY <1>4, AcceptedOrRefused DEF OthersStand, LauncherAt, Ahead, Steps
  <2>2. CASE Queue(r)' = Queue(r)
    BY <1>4, <2>1, <2>2, AcceptedOrRefused, AtMostOnceStands DEF QueuesStand
  <2>3. CASE LauncherAt(l, "queued")' /\ Queue(r)' = Append(Queue(r), l)
    <3>1. /\ runs[l] = 0
          /\ \A q \in Runtimes : \A i \in 1 .. Len(Queue(q)) : Queue(q)[i] # l
      BY <1>4, AcceptedOrRefused DEF AtMostOnce, NotTaken, LauncherAt, Ahead, Steps
    <3>2. /\ Len(Queue(r)') = Len(Queue(r)) + 1 /\ Len(Queue(r)) \in Nat
          /\ Queue(r)'[Len(Queue(r)) + 1] = l
          /\ \A i \in 1 .. Len(Queue(r)) : Queue(r)'[i] = Queue(r)[i]
      BY <1>0, <2>3
    <3>3. /\ runs' = runs /\ \A q \in Runtimes : Busy(q)' = Busy(q)
          /\ \A q \in Runtimes \ {r} : Queue(q)' = Queue(q)
      BY <1>4, AcceptedOrRefused
    <3>4. NotTaken'
      <4> SUFFICES ASSUME NEW k \in Launchers, launcher'[k].at \in Ahead,
                          NEW q \in Runtimes, NEW i \in 1 .. Len(Queue(q)')
                   PROVE  runs'[k] = 0 /\ Queue(q)'[i] # k
        BY <1>4, <2>1, <3>3 DEF NotTaken, AtMostOnce
      <4>1. k # l
        BY <2>3 DEF LauncherAt, Ahead
      <4>2. runs[k] = 0 /\ \A j \in 1 .. Len(Queue(q)) : Queue(q)[j] # k
        BY <2>1 DEF AtMostOnce, NotTaken
      <4>3. CASE q = r
        BY <3>2, <3>3, <4>1, <4>2, <4>3
      <4>4. CASE q # r
        BY <3>3, <4>2, <4>4
      <4> QED
        BY <4>3, <4>4
    <3>5. QueuedOnce'
      <4> SUFFICES ASSUME NEW p \in Runtimes, NEW q \in Runtimes,
                          NEW i \in 1 .. Len(Queue(p)'), NEW j \in 1 .. Len(Queue(q)'),
                          Queue(p)'[i] = Queue(q)'[j]
                   PROVE  p = q /\ i = j
        BY DEF QueuedOnce
      <4>1. CASE Queue(p)'[i] = l
        <5>1. p = r /\ i = Len(Queue(r)) + 1
          BY <3>1, <3>2, <3>3, <4>1
        <5>2. Queue(q)'[j] = l
          BY <4>1
        <5>3. q = r /\ j = Len(Queue(r)) + 1
          BY <3>1, <3>2, <3>3, <5>2
        <5> QED
          BY <5>1, <5>3
      <4>2. CASE Queue(p)'[i] # l
        <5>1. i \in 1 .. Len(Queue(p)) /\ Queue(p)'[i] = Queue(p)[i]
          BY <3>2, <3>3, <4>2
        <5>2. Queue(q)'[j] # l
          BY <4>2
        <5>3. j \in 1 .. Len(Queue(q)) /\ Queue(q)'[j] = Queue(q)[j]
          BY <3>2, <3>3, <5>2
        <5>4. Queue(p)[i] = Queue(q)[j]
          BY <5>1, <5>3
        <5> QED
          BY <5>1, <5>3, <5>4 DEF AtMostOnce, QueuedOnce
      <4> QED
        BY <4>1, <4>2
    <3>6. NotYetRun'
      <4> SUFFICES ASSUME NEW q \in Runtimes, NEW i \in 1 .. Len(Queue(q)')
                   PROVE  runs'[Queue(q)'[i]] = 0 \/ (i = 1 /\ Busy(q)')
        BY DEF NotYetRun
      <4>1. CASE Queue(q)'[i] = l
        BY <3>1, <3>3, <4>1
      <4>2. CASE Queue(q)'[i] # l
        <5>1. i \in 1 .. Len(Queue(q)) /\ Queue(q)'[i] = Queue(q)[i]
          BY <3>2, <3>3, <4>2
        <5> QED
          BY <3>3, <5>1 DEF AtMostOnce, NotYetRun
      <4> QED
        BY <4>1, <4>2
    <3> QED
      BY <3>3, <3>4, <3>5, <3>6 DEF AtMostOnce
  <2> QED
    BY <1>4, <2>2, <2>3, AcceptedOrRefused
<1>5. ASSUME NEW r \in Runtimes, Execute(r) PROVE AtMostOnce'
  <2> DEFINE h == Head(Queue(r))
  <2>1. /\ h \in Launchers /\ 1 \in 1 .. Len(Queue(r)) /\ h = Queue(r)[1]
    BY <1>5, Executes
  <2>2. runs[h] = 0
    BY <1>5, <2>1, Executes DEF AtMostOnce, NotYetRun
  <2>3. /\ runs' \in [Launchers -> 0 .. 1] /\ \A k \in Launchers \ {h} : runs'[k] = runs[k]
    BY <1>5, <2>1, <2>2, Executes DEF AtMostOnce
  <2>4. /\ \A q \in Runtimes : Queue(q)' = Queue(q)
        /\ Busy(r)' /\ \A q \in Runtimes : Busy(q) => Busy(q)'
        /\ launcher' = launcher
    BY <1>5, Executes
  <2> HIDE DEF h
  <2>5. NotTaken'
    <3>1. launcher[h].at \notin Ahead
      BY <2>1 DEF AtMostOnce, NotTaken
    <3> QED
      BY <2>3, <2>4, <3>1 DEF AtMostOnce, NotTaken
  <2>6. QueuedOnce'
    BY <2>4 DEF AtMostOnce, QueuedOnce
  <2>7. NotYetRun'
    <3> SUFFICES ASSUME NEW q \in Runtimes, NEW i \in 1 .. Len(Queue(q))
                 PROVE  runs'[Queue(q)[i]] = 0 \/ (i = 1 /\ Busy(q)')
      BY <2>4 DEF NotYetRun
    <3>1. CASE Queue(q)[i] = h
      <4>1. q = r /\ i = 1
        BY <2>1, <3>1 DEF AtMostOnce, QueuedOnce
      <4> QED
        BY <2>4, <4>1
    <3>2. CASE Queue(q)[i] # h
      <4>1. Queue(q)[i] \in Launchers \ {h}
        BY <1>0, <3>2
      <4> QED
        BY <2>3, <2>4, <4>1 DEF AtMostOnce, NotYetRun
    <3> QED
      BY <3>1, <3>2
  <2> QED
    BY <2>3, <2>5, <2>6, <2>7 DEF AtMostOnce
<1>6. ASSUME NEW r \in Runtimes, Answer(r) PROVE AtMostOnce'
  <2>1. /\ Queue(r)' = Tail(Queue(r)) /\ runs' = runs /\ ~Busy(r)'
        /\ \A q \in Runtimes \ {r} : Queue(q)' = Queue(q) /\ Busy(q)' = Busy(q)
    BY <1>6, Answered
  <2>2. /\ Len(Queue(r)) \in Nat \ {0} /\ Len(Queue(r)') = Len(Queue(r)) - 1
        /\ \A i \in 1 .. Len(Queue(r)') :
              i + 1 \in 2 .. Len(Queue(r)) /\ Queue(r)'[i] = Queue(r)[i + 1]
    BY <1>6, Answered
  <2>3. \A k \in Launchers : launcher'[k].at \in Ahead => launcher[k].at \in Ahead
    BY <1>6, Answered DEF LauncherAt, Ahead
  <2>4. NotTaken'
    <3> SUFFICES ASSUME NEW k \in Launchers, launcher'[k].at \in Ahead,
                        NEW q \in Runtimes, NEW i \in 1 .. Len(Queue(q)')
                 PROVE  runs'[k] = 0 /\ Queue(q)'[i] # k
      BY <2>1, <2>3 DEF NotTaken, AtMostOnce
    <3>1. runs[k] = 0 /\ \A j \in 1 .. Len(Queue(q)) : Queue(q)[j] # k
      BY <2>3 DEF AtMostOnce, NotTaken
    <3> QED
      BY <2>1, <2>2, <3>1
  <2>5. QueuedOnce'
    <3> DEFINE Was(q, i) == IF q = r THEN i + 1 ELSE i
    <3>1. \A q \in Runtimes : \A i \in 1 .. Len(Queue(q)') :
             Was(q, i) \in 1 .. Len(Queue(q)) /\ Queue(q)'[i] = Queue(q)[Was(q, i)]
      BY <2>1, <2>2
    <3> SUFFICES ASSUME NEW p \in Runtimes, NEW q \in Runtimes,
                        NEW i \in 1 .. Len(Queue(p)'), NEW j \in 1 .. Len(Queue(q)'),
                        Queue(p)'[i] = Queue(q)'[j]
                 PROVE  p = q /\ i = j
      BY DEF QueuedOnce
    <3>2. p = q /\ Was(p, i) = Was(q, j)
      <4> HIDE DEF Was
      <4> QED
        BY <3>1 DEF AtMostOnce, QueuedOnce
    <3>3. i \in Nat /\ j \in Nat
      OBVIOUS
    <3> QED
      BY <3>2, <3>3
  <2>6. NotYetRun'
    <3> SUFFICES ASSUME NEW q \in Runtimes, NEW i \in 1 .. Len(Queue(q)')
                 PROVE  runs'[Queue(q)'[i]] = 0 \/ (i = 1 /\ Busy(q)')
      BY DEF NotYetRun
    <3>1. CASE q = r
      BY <2>1, <2>2, <3>1 DEF AtMostOnce, NotYetRun
    <3>2. CASE q # r
      BY <2>1, <3>2 DEF AtMostOnce, NotYetRun
    <3> QED
      BY <3>1, <3>2
  <2> QED
    BY <2>1, <2>4, <2>5, <2>6 DEF AtMostOnce
<1>7. ASSUME NEW l \in Launchers, KillLauncher(l) PROVE AtMostOnce'
  <2>1. QueuesStand
    BY <1>7, Kills DEF QueuesStand, Queue, Busy
  <2>2. \A k \in Launchers : launcher'[k].at \in Ahead => launcher[k].at \in Ahead
    BY <1>7, Kills DEF OthersStand, LauncherAt, Ahead
  <2> QED
    BY <1>7, <2>1, <2>2, Kills, AtMostOnceStands
<1>8. ASSUME NEW r \in Runtimes, KillRuntime(r) PROVE AtMostOnce'
  BY <1>8, Becomes, AtMostOnceStands DEF KillRuntime, QueuesStand, RuntimeStates
<1>9. CASE NewBuild
  BY <1>9, AtMostOnceStands DEF NewBuild, QueuesStand, Queue, Busy
<1> QED
  BY <1>1, <1>2, <1>3, <1>4, <1>5, <1>6, <1>7, <1>8, <1>9, ResidentKinds

(* The command of a launcher is executed at most once, by a runtime or      *)
(* directly, for any number of launchers and runtimes, however many are     *)
(* killed, late, refused or retired.                                        *)
THEOREM OnceSafety == ResidentSpec => []ExecutedOnce
<1>1. AtMostOnce => ExecutedOnce
  BY DEF AtMostOnce, ExecutedOnce
<1> QED
  BY <1>1, ResidentBegins, ResidentTyped, AtMostOnceBegins, AtMostOnceKept, PTL DEF ResidentSpec

-----------------------------------------------------------------------------
(* While a runtime is available its record is published, so a launcher that *)
(* began since then finds it, busy or not, and goes on to its request.      *)
OnItsWay == {"probe", "post", "sent", "queued", "refused", "cli", "done", "dead"}
FoundSince ==
    /\ since # {} => Available
    /\ \A l \in since : launcher[l].at \in OnItsWay

LEMMA AvailableIsFound == Available => Recorded
BY ResidentRuntimeAssumption DEF Available, Recorded, Is

LEMMA FoundSinceKept ==
    ResidentTypes /\ FoundSince /\ [ResidentNext]_residentVars => FoundSince'
<1> SUFFICES ASSUME ResidentTypes, FoundSince, [ResidentNext]_residentVars PROVE FoundSince'
  OBVIOUS
<1>1. CASE UNCHANGED residentVars
  BY <1>1 DEF residentVars, files, FoundSince, Available, Is
<1>2. CASE ResidentNext
  <2>1. since' # {} => Available'
    BY <1>2 DEF ResidentNext
  <2>2. since' \subseteq since \cup Began
    BY <1>2 DEF ResidentNext
  <2>3. ASSUME NEW l \in Launchers, LauncherStep(l), l \in since
        PROVE  launcher'[l].at \in OnItsWay
    <3>1. ~Misses
      BY <2>3, AvailableIsFound DEF FoundSince, Misses
    <3>2. launcher \in [Launchers -> LauncherStates] /\ launcher[l].at \in OnItsWay
      BY <2>3 DEF ResidentTypes, LauncherStates, FoundSince
    <3>3. CASE Probe(l)
      BY <3>1, <3>2, <3>3, Moves DEF Probe, OnItsWay, Steps
    <3>4. CASE Post(l)
      <4>1. CASE Go(l, "done")
        BY <3>2, <4>1, Moves DEF OnItsWay, Steps
      <4>2. CASE ~Go(l, "done")
        BY <3>2, <3>4, <4>2 DEF Post, OnItsWay, LauncherStates
      <4> QED
        BY <4>1, <4>2
    <3>5. CASE TimeOut(l) \/ Broken(l) \/ Refused(l) \/ Direct(l)
      BY <3>2, <3>5, Moves DEF TimeOut, Broken, Refused, Direct, OnItsWay, Steps
    <3>6. ~BeginLauncher(l) /\ ~Lock(l) /\ ~RemoveLock(l) /\ ~WritePid(l) /\ ~Start(l)
          /\ ~Health(l) /\ ~Wait(l)
      BY <3>2 DEF BeginLauncher, Lock, RemoveLock, WritePid, Start, Health, Wait, LauncherAt,
             OnItsWay
    <3> QED
      BY <2>3, <3>3, <3>4, <3>5, <3>6 DEF LauncherStep
  <2>4. ASSUME NEW l \in Launchers, l \in Began PROVE launcher'[l].at \in OnItsWay
    <3>1. LauncherAt(l, "idle") /\ launcher'[l] # launcher[l]
      BY <2>4 DEF Began, LauncherAt
    <3>2. ASSUME NEW k \in Launchers, LauncherStep(k) PROVE launcher'[l].at \in OnItsWay
      <4>1. k = l
        BY <3>1, <3>2, LauncherMoves DEF OthersStand
      <4>2. BeginLauncher(l)
        BY <3>1, <3>2, <4>1
           DEF LauncherStep, Probe, Lock, RemoveLock, WritePid, Start, Health, Wait, Post,
               TimeOut, Broken, Refused, Direct, Connected, LauncherAt
      <4> QED
        BY <4>2, Moves DEF BeginLauncher, OnItsWay, Steps
    <3>3. ASSUME NEW r \in Runtimes, NEW k \in Launchers, Accept(r, k) PROVE FALSE
      BY <3>1, <3>3, AcceptedOrRefused DEF OthersStand, LauncherAt
    <3>4. ASSUME NEW r \in Runtimes, Answer(r) PROVE launcher'[l].at \in OnItsWay
      BY <3>1, <3>4, Answered DEF LauncherAt, OnItsWay
    <3>5. ASSUME NEW k \in Launchers, KillLauncher(k) PROVE FALSE
      BY <3>1, <3>5, Kills DEF OthersStand, LauncherAt
    <3>6. /\ \A r \in Runtimes : Plain(r) \/ Execute(r) => launcher' = launcher
          /\ \A r \in Runtimes : KillRuntime(r) => launcher' = launcher
          /\ NewBuild => launcher' = launcher
      BY PlainSteps, Executes DEF KillRuntime, NewBuild
    <3> QED
      BY <1>2, <3>1, <3>2, <3>3, <3>4, <3>5, <3>6, ResidentKinds
  <2>5. ASSUME NEW l \in since, l \in Launchers PROVE launcher'[l].at \in OnItsWay
    <3>1. launcher[l].at \in OnItsWay
      BY <2>5 DEF FoundSince
    <3>2. ASSUME NEW k \in Launchers, LauncherStep(k) PROVE launcher'[l].at \in OnItsWay
      BY <2>3, <2>5, <3>1, <3>2, LauncherMoves DEF OthersStand
    <3>3. ASSUME NEW r \in Runtimes, NEW k \in Launchers, Accept(r, k)
          PROVE  launcher'[l].at \in OnItsWay
      BY <2>5, <3>1, <3>3, AcceptedOrRefused DEF OthersStand, LauncherAt, OnItsWay
    <3>4. ASSUME NEW r \in Runtimes, Answer(r) PROVE launcher'[l].at \in OnItsWay
      BY <2>5, <3>1, <3>4, Answered DEF LauncherAt, OnItsWay
    <3>5. ASSUME NEW k \in Launchers, KillLauncher(k) PROVE launcher'[l].at \in OnItsWay
      BY <2>5, <3>1, <3>5, Kills DEF OthersStand, LauncherAt, OnItsWay
    <3>6. /\ \A r \in Runtimes : Plain(r) \/ Execute(r) => launcher' = launcher
          /\ \A r \in Runtimes : KillRuntime(r) => launcher' = launcher
          /\ NewBuild => launcher' = launcher
      BY PlainSteps, Executes DEF KillRuntime, NewBuild
    <3> QED
      BY <1>2, <3>1, <3>2, <3>3, <3>4, <3>5, <3>6, ResidentKinds
  <2>6. since \subseteq Launchers /\ Began \subseteq Launchers
    BY DEF ResidentTypes, Began
  <2> QED
    BY <2>1, <2>2, <2>4, <2>5, <2>6 DEF FoundSince
<1> QED
  BY <1>1, <1>2

(* A launcher that began when a runtime was available, and for as long as   *)
(* it is, does not set about starting another, for any number of launchers  *)
(* and runtimes, and although a busy runtime does not answer in time.       *)
THEOREM BusySafety == ResidentSpec => []BusyIsNotDead
<1>1. ResidentInit => FoundSince
  BY DEF ResidentInit, FoundSince
<1>2. FoundSince => BusyIsNotDead
  BY DEF FoundSince, BusyIsNotDead, OnItsWay
<1> QED
  BY <1>1, <1>2, ResidentBegins, ResidentTyped, FoundSinceKept, PTL DEF ResidentSpec

=============================================================================
