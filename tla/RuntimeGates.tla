---------------------------- MODULE RuntimeGates ----------------------------
(***************************************************************************)
(* The runtime gates that SpecRail adds to a Pi chat: which process route  *)
(* the work follows, the authority a write needs, and the review and the   *)
(* verification that the end of a turn asks for.                           *)
(*                                                                         *)
(* The model has one chat.  Pi itself is external: it runs a batch of tool *)
(* calls in parallel unless one of them is declared sequential (as every   *)
(* gate is), and then one at a time.  So writes run beside each other, a   *)
(* gate runs alone, and anybody else may edit the repository at any time.  *)
(*                                                                         *)
(* Fields that nothing reads (completionBlocked, ponytailMode, summaries,  *)
(* the list of runs) are left out; materialDecisionsCleared is always set  *)
(* together with mutationAuthorized, and ponytailReviewStarted with the    *)
(* fingerprint, so one field stands for each pair.                         *)
(***************************************************************************)
EXTENDS Naturals

CONSTANTS
    Calls,       \* tool calls that write
    Decisions,   \* material decisions of the work
    Answers,     \* what is known of a decision: the reference of its evidence
    NoAnswer,    \* no evidence
    MaxEdits     \* bound: how often the repository changes

ASSUME RuntimeGatesAssumption == MaxEdits \in Nat /\ NoAnswer \notin Answers

VARIABLES
    st,          \* the state of the gates
    mode,        \* the last ponytail-mode entry of the chat
    tree,        \* the repository; a new number for each change
    write,       \* write[c]: the state of a call that passed the hook
    tool,        \* the sequential tool that awaits something
    turn,        \* "busy" while the agent works; else how its turn ended
    known         \* history, see below

gatesVars == <<st, mode, tree, write, tool, turn, known>>

Routes == {"specrail", "direct", "direct_verify"}
Modes == {"full", "other"}                  \* "other": off, lite, ultra, or none
Trust == [Decisions -> Answers \cup {NoAnswer}]
NoSnapshot == MaxEdits + 1
Fingerprints == 0 .. NoSnapshot             \* excludes nothing but .specrail

States == [route : Routes \cup {"none"}, attested : BOOLEAN, authorized : BOOLEAN,
           trusted : Trust, mutated : BOOLEAN, snapshot : Fingerprints,
           passed : BOOLEAN, verified : BOOLEAN, followUps : 0 .. 1]

\* History: lastWrite is the repository after the last write of the route that
\* succeeded, reviewed and verified the repository of the last PASS and of the
\* last verification; fresh: a gate was passed and no write has ended since, in
\* this route and this process; lost: a crash took the end of a write.
History == [lastWrite : 0 .. MaxEdits, reviewed : 0 .. MaxEdits, verified : 0 .. MaxEdits,
            fresh : BOOLEAN, lost : BOOLEAN]

NoTool == [name |-> "none"]
Tools == {"review", "result", "verify"}

-----------------------------------------------------------------------------
(* The state a route begins with, and the one a restarted chat is given. *)

emptyState ==
    [route |-> "none", attested |-> FALSE, authorized |-> FALSE,
     trusted |-> [d \in Decisions |-> NoAnswer], mutated |-> FALSE, snapshot |-> NoSnapshot,
     passed |-> FALSE, verified |-> FALSE, followUps |-> 0]

\* Mutant: a restarted chat keeps the authority it had.
cloneStateAuthorized(s) ==
    [emptyState EXCEPT !.route = s.route, !.mutated = s.mutated,
        !.verified = s.verified /\ ~(s.route = "direct_verify" /\ s.mutated),
        !.attested = s.attested, !.authorized = s.authorized]

cloneState(s) ==
    [emptyState EXCEPT !.route = s.route, !.mutated = s.mutated,
        !.verified = s.verified /\ ~(s.route = "direct_verify" /\ s.mutated)]

GatesInit ==
    /\ st = emptyState
    /\ mode \in Modes
    /\ tree = 0
    /\ write = [c \in Calls |-> "none"]
    /\ tool = NoTool
    /\ turn = "idle"
    /\ known = [lastWrite |-> 0, reviewed |-> 0, verified |-> 0, fresh |-> FALSE, lost |-> FALSE]

selectRoute(r) ==
    /\ st' = [emptyState EXCEPT !.route = r]
    /\ known' = [lastWrite |-> 0, reviewed |-> 0, verified |-> 0, fresh |-> FALSE,
                lost |-> known.lost]

\* A sequential tool runs when no other tool of the chat does.
Alone == turn = "busy" /\ tool = NoTool /\ \A c \in Calls : write[c] = "none"

-----------------------------------------------------------------------------
(* Prompts and routes. *)

\* before_agent_start: a prompt may name its route.
Prompt(r) ==
    /\ turn # "busy"
    /\ turn' = "busy"
    /\ IF r = "none" THEN UNCHANGED <<st, known>> ELSE selectRoute(r)
    /\ UNCHANGED <<mode, tree, write, tool>>

\* specrail_entry_gate; a cancelled question and free text select nothing.
EntryGate(r) ==
    /\ Alone
    /\ selectRoute(r)
    /\ UNCHANGED <<mode, tree, write, tool, turn>>

\* A person changes the mode of Ponytail.
SetMode(m) ==
    /\ m # mode
    /\ mode' = m
    /\ UNCHANGED <<st, tree, write, tool, turn, known>>

-----------------------------------------------------------------------------
(* Evidence of decisions, and the gate before a write. *)

rememberUserAnswers(D, a) ==
    st' = [st EXCEPT !.trusted = [d \in Decisions |-> IF d \in D THEN a ELSE @[d]]]

\* What was answered before the user cancels is remembered as well.
request_user_input(D, a) ==
    /\ Alone
    /\ rememberUserAnswers(D, a)
    /\ UNCHANGED <<mode, tree, write, tool, turn, known>>

\* Evidence of another source: a quote that the repository or the result of a
\* trusted tool has.
DecisionEvidence(d, a) ==
    /\ Alone
    /\ st' = [st EXCEPT !.trusted[d] = a]
    /\ UNCHANGED <<mode, tree, write, tool, turn, known>>

\* specrail_ponytail, action load
Attest ==
    /\ Alone
    /\ st.route # "none" /\ mode = "full"
    /\ st' = [st EXCEPT !.attested = TRUE]
    /\ UNCHANGED <<mode, tree, write, tool, turn, known>>

\* claim[d]: the reference the agent gives for a decision; the decisions it
\* does not name, or calls immaterial, are not checked.
decisionBlockers(claim) ==
    {d \in DOMAIN claim : st.trusted[d] = NoAnswer \/ claim[d] # st.trusted[d]}

MutationGate(claim) ==
    /\ Alone
    /\ st.route # "none" /\ st.attested /\ mode = "full"
    /\ decisionBlockers(claim) = {}
    /\ st' = [st EXCEPT !.authorized = TRUE]
    /\ known' = [known EXCEPT !.fresh = TRUE]
    /\ UNCHANGED <<mode, tree, write, tool, turn>>

-----------------------------------------------------------------------------
(* Writes. *)

\* The tool_call hook lets the call pass.
CallWrite(c) ==
    /\ turn = "busy" /\ tool = NoTool
    /\ write[c] = "none"
    /\ st.route # "none" /\ st.authorized
    /\ st.attested /\ mode = "full"
    /\ write' = [write EXCEPT ![c] = "called"]
    /\ UNCHANGED <<st, mode, tree, tool, turn, known>>

\* The tool does its work; one that fails may have changed the repository.
RunWrite(c) ==
    /\ write[c] = "called"
    /\ \/ /\ tree < MaxEdits
          /\ tree' = tree + 1
          /\ \/ /\ write' = [write EXCEPT ![c] = "done"]
                /\ known' = [known EXCEPT !.lastWrite = tree + 1]
             \/ /\ write' = [write EXCEPT ![c] = "failed"]
                /\ UNCHANGED known
       \/ /\ write' = [write EXCEPT ![c] = "failed"]
          /\ UNCHANGED <<tree, known>>
    /\ UNCHANGED <<st, mode, tool, turn>>

\* Mutant: the PASS of the review before the write stays.
EndWriteKeeps(c) ==
    /\ \/ /\ write[c] = "failed"
          /\ st' = [st EXCEPT !.authorized = FALSE]
       \/ /\ write[c] = "done"
          /\ st' = [st EXCEPT !.authorized = FALSE, !.mutated = TRUE, !.followUps = 0,
                              !.verified = @ /\ st.route # "direct_verify"]
    /\ write' = [write EXCEPT ![c] = "none"]
    /\ known' = [known EXCEPT !.fresh = FALSE]
    /\ UNCHANGED <<mode, tree, tool, turn>>

\* tool_execution_end
EndWrite(c) ==
    /\ \/ /\ write[c] = "failed"
          /\ st' = [st EXCEPT !.authorized = FALSE]
       \/ /\ write[c] = "done"
          /\ st' = [st EXCEPT !.authorized = FALSE, !.mutated = TRUE, !.snapshot = NoSnapshot,
                              !.passed = FALSE, !.followUps = 0,
                              !.verified = @ /\ st.route # "direct_verify"]
    /\ write' = [write EXCEPT ![c] = "none"]
    /\ known' = [known EXCEPT !.fresh = FALSE]
    /\ UNCHANGED <<mode, tree, tool, turn>>

\* Another process, or a person, edits the repository.
EditElsewhere ==
    /\ tree < MaxEdits
    /\ tree' = tree + 1
    /\ UNCHANGED <<st, mode, write, tool, turn, known>>

-----------------------------------------------------------------------------
(* Review and verification: each reads the state, awaits git, and saves the *)
(* state it read with its result.                                           *)

BeginTool(name) ==
    /\ Alone
    /\ st.mutated
    /\ name = "review" => st.route # "none" /\ mode = "full"
    /\ name = "result" => st.snapshot # NoSnapshot /\ mode = "full"
    /\ name = "verify" => st.route = "direct_verify"
    /\ tool' = [name |-> name, state |-> st, before |-> tree]
    /\ UNCHANGED <<st, mode, tree, write, turn, known>>

\* specrail_ponytail, action review: the snapshot is that of the time it is taken.
EndReview ==
    /\ tool.name = "review"
    /\ st' = [tool.state EXCEPT !.snapshot = tree, !.passed = FALSE, !.followUps = 0]
    /\ tool' = NoTool
    /\ UNCHANGED <<mode, tree, write, turn, known>>

\* specrail_ponytail_review_result with status pass
EndResult ==
    /\ tool.name = "result"
    /\ tree = tool.state.snapshot
    /\ st' = [tool.state EXCEPT !.passed = TRUE, !.followUps = 0]
    /\ known' = [known EXCEPT !.reviewed = tool.state.snapshot]
    /\ tool' = NoTool
    /\ UNCHANGED <<mode, tree, write, turn>>

\* specrail_verify: the command succeeded between two equal fingerprints.
EndVerify ==
    /\ tool.name = "verify"
    /\ tree = tool.before
    /\ st' = [tool.state EXCEPT !.verified = TRUE, !.followUps = 0]
    /\ known' = [known EXCEPT !.verified = tree]
    /\ tool' = NoTool
    /\ UNCHANGED <<mode, tree, write, turn>>

\* A tool throws: git or the command failed, was killed, or the snapshot is stale.
FailTool ==
    /\ tool # NoTool
    /\ tool' = NoTool
    /\ UNCHANGED <<st, mode, tree, write, turn, known>>

-----------------------------------------------------------------------------
(* The end of a turn, and a restart. *)

blockers ==
    {b \in {"review", "verify"} :
        /\ st.mutated
        /\ b = "review" => ~st.passed
        /\ b = "verify" => st.route = "direct_verify" /\ ~st.verified}

\* Mutant: a blocked turn is continued again and again.
AgentEndAgain ==
    /\ Alone
    /\ blockers # {}
    /\ st' = [st EXCEPT !.followUps = @ + 1]
    /\ turn' = "continued"
    /\ UNCHANGED <<mode, tree, write, tool, known>>

\* agent_end: a blocked turn is continued once by a message of the extension.
AgentEnd ==
    /\ Alone
    /\ \/ /\ blockers = {}
          /\ st' = [st EXCEPT !.followUps = 0]
          /\ turn' = "complete"
       \/ /\ blockers # {} /\ st.followUps < 1
          /\ st' = [st EXCEPT !.followUps = 1]
          /\ turn' = "continued"
       \/ /\ blockers # {} /\ st.followUps >= 1
          /\ turn' = "blocked"
          /\ UNCHANGED st
    /\ UNCHANGED <<mode, tree, write, tool, known>>

\* session_start after the process ended at any point: the last saved state is
\* the current one, since every change of a state with a route is saved.
Restart ==
    /\ turn' = "idle"
    /\ st' = cloneState(st)
    /\ write' = [c \in Calls |-> "none"]
    /\ tool' = NoTool
    /\ known' = [known EXCEPT !.fresh = FALSE,
                            !.lost = @ \/ \E c \in Calls : write[c] = "done"]
    /\ UNCHANGED <<mode, tree>>

GatesNext ==
    \/ \E r \in Routes \cup {"none"} : Prompt(r)
    \/ \E r \in Routes : EntryGate(r)
    \/ \E m \in Modes : SetMode(m)
    \/ \E D \in SUBSET Decisions, a \in Answers : request_user_input(D, a)
    \/ \E d \in Decisions, a \in Answers : DecisionEvidence(d, a)
    \/ Attest
    \/ \E D \in SUBSET Decisions : \E claim \in [D -> Answers] : MutationGate(claim)
    \/ \E c \in Calls : CallWrite(c) \/ RunWrite(c) \/ EndWrite(c)
    \/ EditElsewhere
    \/ \E name \in Tools : BeginTool(name)
    \/ EndReview \/ EndResult \/ EndVerify \/ FailTool
    \/ AgentEnd \/ Restart

GatesSpec == GatesInit /\ [][GatesNext]_gatesVars

-----------------------------------------------------------------------------
(* Properties *)

\* Type invariant.
GatesTypes ==
    /\ st \in States
    /\ mode \in Modes
    /\ tree \in 0 .. MaxEdits
    /\ write \in [Calls -> {"none", "called", "done", "failed"}]
    /\ tool \in {NoTool} \cup [name : Tools, state : States, before : 0 .. MaxEdits]
    /\ turn \in {"idle", "busy", "complete", "continued", "blocked"}
    /\ known \in History

\* A turn that ends as complete has a PASS, and on the route with verification
\* a verification, that was given after the last write of the route succeeded:
\* a write by the chat is never newer than the PASS, whatever ran beside it or
\* was restarted in between (runtime gates, 393-425).  Only the crash that takes
\* the end of a write with it is excepted.  What changes the repository without
\* being such a write, an edit elsewhere or a write that failed half-way, is not
\* noticed: see CompleteIsAsReviewed.
CompletionIsProved ==
    turn = "complete" /\ ~known.lost =>
        /\ known.lastWrite <= known.reviewed
        /\ st.route = "direct_verify" => known.lastWrite <= known.verified

\* "Review completion is bound to a repository fingerprint; any subsequent
\* repository change invalidates the review and requires a fresh one"
\* (docs/ENTRY-GOVERNANCE.md 46): when a turn with a write ends as complete, the
\* repository is the one that was reviewed.  The code compares the fingerprint
\* when the PASS is given and never again.
EndsAsReviewed ==
    turn = "busy" /\ turn' = "complete" /\ st.mutated => tree = known.reviewed
CompleteIsAsReviewed == [][EndsAsReviewed]_gatesVars

\* A call passes the hook only after a gate of this process and route, since
\* which no write has ended: the authority is not restored, not carried over
\* to another route, and not saved again by a tool that read it earlier
\* (ENTRY-GOVERNANCE.md section 6).  Calls that pass beside each other share one
\* authority: see OneWritePerGate.
SpendsAuthority ==
    \A c \in Calls : write[c] = "none" /\ write'[c] = "called" => known.fresh /\ mode = "full"
AuthorityIsSpent == [][SpendsAuthority]_gatesVars

\* "Mutation authorization is one-use: after a successful write, another write
\* requires a fresh No-Assumption gate" (docs/ENTRY-GOVERNANCE.md 72): after a
\* write of the route has succeeded and ended, a call writes only if a gate was
\* passed since.  A call that passed the hook beside the first one is not asked.
WritesOnce ==
    \A c \in Calls : write[c] = "called" /\ write'[c] = "done" /\ st.mutated => known.fresh
OneWritePerGate == [][WritesOnce]_gatesVars

=============================================================================
