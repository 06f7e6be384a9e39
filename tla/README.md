# SpecRail in TLA+

A verification development kept beside the code of SpecRail: a workflow for
software tasks whose whole state is files under `.ai/` in a repository, changed
by short commands that people, chats and subagents run at the same time, with
no server between them. What makes it correct is therefore the order in which
commands read and write these files. That is what the modules here are about.

Paths are those of the repository (`src/lib/...` in its `src/` directory).

## 1. The system

### Parts, their state, their operations

| Part | Source | State | Operations |
|---|---|---|---|
| Directory locks | `concurrency.ts` 25-103, `concurrency-state.ts` 218-243 | a lock directory with `owner.json` per plan, and one for the scheduler | acquire, judge stale, remove, release |
| Task lease | `lease.ts` | one JSON file per task (owner, expiry), a mutex directory beside it | acquire, assert, take, release, forced release |
| Scheduler | `concurrency.ts`, `concurrency-state.ts` | one sealed plan per parent task: task set, limit, reservations | plan, prepare a wave, heartbeat, release, cancel, yield at a phase end |
| Workflow engine | `workflow.ts`, `questions.ts`, `repairs.ts`, `user-overrides.ts`, `workflow-gates.ts` | phase, status and approvals of a task, in the front matter of its file | refine, start, complete a phase, block, return, ask, answer, approve, reject, waive, close, revise |
| Task store | `task.ts`, `frontmatter.ts`, `slices.ts` | one Markdown file per task, in a folder named for its status; a counter | create, find, load, save and move, subtasks, dependencies, slices |
| Revisions | `revisions.ts`, `revision-delta.ts`, `artifact-dependencies.ts`, `implementation-generation.ts` | the active revision of a task, baseline snapshots, generations | start, implement, validate, accept, cancel |
| Amendments | `amendments.ts` | amendments of an approved specification | propose, approve, reject |
| Phase boundary | `phase-boundary.ts`, `phase-handoff.ts`, `phase-role.ts` | a boundary record and a capsule per phase, the audience's sessions in the task | prepare, choose, enter, invalidate, reset |
| Product intelligence | `product-intelligence.ts`, `autonomy.ts`, `readiness.ts` | Owner, audience and final reviews as files, their seals in the task | record, decide, reset, route; the advice of `next`, the blockers of a gate |
| Presentation | `presentation.ts`, `presentation-state.ts`, `interactions.ts`, `capabilities.ts` | what each chat acknowledged of a gate, visualization plans and runs | build, show, record, decide |
| Resident runtime | `runtime-server.ts`, `scripts/specrail-fast.sh` | socket, metadata file, start lock, a queue | start, execute, retire, fall back to the CLI |
| Runtime gates | `extensions/*.js` | route, authority, review and verification of a Pi chat | hooks on tool calls, gate tools |
| Views, metrics, installation | `cockpit.ts`, `trace.ts`, `update.ts`, ... | append-only records; nothing | render, record, copy files |

`PROJECT.json` lists every file of the implementation under one component, with
what is left out of it and why.

### How they interact

Every command is a process. It loads the files it needs, decides, and writes
them back; it shares nothing with other commands but the files. The scheduler
runs under a lock directory per plan and, for everything that touches
reservations, one for the project; it acquires task leases while it holds them.
The workflow engine takes no scheduler lock. When an agent's phase ends it saves
the task, calls the scheduler to remove the reservation (which takes the locks),
and releases the lease after that. A person's decision does the same in another
order. An agent's command first proves its authority: the plans that contain the
task reserve it for this session, and the live lease names it. At a phase that a
new chat should take over, a boundary stands between them; at a gate, the reviews
and what the user was shown do.

### What is hard, and what correctness means

* **Locks.** Two contenders may judge the same lock stale; a process may die
  inside, or between making the directory and writing its owner. Correct: two
  processes are never inside together, a live process's lock is not removed,
  every wait ends.
* **Lease.** The mutex has no owner and is removed after ten seconds; the lease
  is read before it is taken; leases expire. Correct: each operation is as if
  atomic, and a granted lease stands until it is given back, expires or is taken.
* **Scheduler.** A wave is prepared in steps while people decide, leases expire
  and other parents are planned; a failure must undo the steps; plans may be
  corrupt; a child may belong to several parents. Correct: one session per task,
  no handover without an end, no session used twice, the limits of plan and
  project, no two writers with overlapping scopes, no lease left without a
  reservation, no task taken from behind a human gate.
* **Workflow.** A task is stopped, questioned, returned, waived, amended and
  revised in any order, by commands that each look at a part of its record; a
  command that writes two files may end between them. Correct: what is delivered
  is the implementation and the specification that were accepted, with the
  evidence its route asks for; no revision and no amendment is passed over.
* **Store.** Nothing is locked: commands overwrite each other's saves, and a save
  that moves a file may end, or meet another, between its two calls. Correct: in
  turn they see a table of tasks; when they race, every number and slug keeps a
  file. (Two creations with one number and one slug are not kept apart: one is lost.)
* **Boundary.** Record, capsule, task and lease are four files that the commands
  of several chats read and write. Correct: a phase is entered as the user chose,
  the audience is neither the session of the QA nor an earlier judge, nobody is
  locked out by an old lease. (Who built or reviewed is remembered nowhere.)
* **Reviews and presentation.** A review is sealed by digests of what it judges,
  and is written before its seal; a result is overwritten while a host shows it.
  Correct: what is decided was judged, and shown, as it is at the decision.
* **Runtimes.** Writes run beside each other and end after their authority was
  looked at; a request that was late is not sent again. Correct: a turn that ends
  as complete has a PASS since the chat's last successful write, no call passes on an
  authority since which a write has ended, a command is executed at most once. (The
  documentation promises more of the first two: section 3.)

The hazards, each at its line, are in `PROJECT.json` under `hazards`, with the
properties that cover them or the reason why none does.

## 2. The modules

| Module | Models | Kind |
|---|---|---|
| `DirectoryLock` | both copies of the directory lock, one step per file-system call | core |
| `LeaseAuthority` | what a lease promises: atomic operations | abstract |
| `TaskLease` | `lease.ts`, one step per file-system call | core |
| `Dispatch` | what the scheduler promises, without plans, leases or locks | abstract |
| `ConcurrencyScheduler` | plans, reservations, prepare with rollback, and the workflow operations on the tasks as the scheduler sees them | core |
| `Artifacts` | the dependency graph of artifacts: what a change invalidates | operators |
| `Workflow` | the life of one task with its revisions, amendments, evidence, waivers and stops | core |
| `TaskTable` | a table of tasks with versions | abstract |
| `TaskStore` | the task files and the counter, one step per file-system call | core |
| `PhaseBoundary` | records, capsules, sessions and the lease between two phases, each command in steps | core |
| `ProductReviews` | the three product judgments, the approvals that ask for them, the advice and the blockers | core |
| `GatePresentation` | what a gate shows, what a chat was shown, decisions, visualizations | core |
| `RuntimeGates` | the gates of a Pi chat with parallel writes and restarts | core |
| `ResidentRuntime` | launchers, the start lock, runtimes and their queues | core |
| `MCDirectoryLock`, `MCProgress`, `MCProcesses`, `MCScheduler`, `MCWavesAndMoves`, `MCWorkflow`, `MCServices` | instances for TLC | |
| `DirectoryLockProofs`, `TaskProofs`, `ConcurrencySchedulerProofs`, `WorkflowProofs`, `PhaseBoundaryProofs`, `GatePresentationProofs`, `ProductReviewsProofs`, `RuntimesProofs` | theorems | |

### DirectoryLock

`lock` is the directory: who made it, whom `owner.json` names, and whether it is
five minutes old. `pc[p]` is the call a process makes next. Processes in
`RuntimeProc` run `withRuntimeLock` (owner first, then age; an error of the
owner's write is thrown), the others `acquireDirectoryLock` (age first, then
owner; that error is swallowed). `MakeDirectory`, `FindDirectory`, `WriteOwner`,
`StatAge`, `ReadOwner`, `ProbeOwner`, `RemoveStale`, `Poll` and `Release` are the
calls, in the order of the code. A removal removes whatever directory is there
by then. Two history variables: `stolen`, a removal hit the lock of a process that
was alive and inside, and `stalled`, a process slept for five minutes between two
calls. `Stalls` says whether one may.

### TaskLease and LeaseAuthority

`owner` and `live` are the lease file; `mutex` is the mutex directory with its
age; `seen` is the lease a process read inside the mutex, on which its write is
based. `assert` looks at the lease before it enters (`Status`). The number of
attempts is a constant. `granted` is a history variable: a session was granted
the lease and nothing has ended that. `LeaseAuthority` has one atomic step per
operation on the lease and the grants; `TaskLease` implements it with the same
variables. Its steps say whose grants an operation may end: an acquisition nobody's,
a release its own, a take-over everybody else's. `Stalls` lets a process be suspended
for ten seconds anywhere. `stolen` is history: a removal hit the mutex of a process
that was inside. That happens when the holder was suspended, and also when two have
found a mutex left behind to be old and the slower removes the quicker one's. Grants
and the refinement are stated up to that step: after it two sessions write on what
each has read, and the lease promises nothing.

### Dispatch and ConcurrencyScheduler

`plan[p]` and `held[p]` are the plan file of a parent and its reservations,
`job` is the prepare that holds the scheduler lock with the snapshot it selected
on, `op[t]` is a workflow operation under way on a task. A prepare is
`BeginPrepare` (selection), one `ReserveLane` per lane (snapshot check, lease),
`SaveWorktree` when `git worktree add` is over (the task as loaded before it is
saved), then `CommitWave` or `RollBackWave`. An operation of the workflow begins with
its checks on the task it loads, and goes on with a script of steps in the order of
the code: `assert` (the lease is acquired, when it is gone as well), `recheck` (of the
authority, in `startExecution` alone), `seal` (an approved scope), `save` (the task as
loaded at first), `remove` (the reservation, under the locks), `lease` (the session's,
after them), `force` (any lease). Anything may happen between two steps. `revoked`
(history) has the tasks whose reservation was released, cancelled or planned away by
somebody else under an operation or over a live lease.

`stage` is what the scheduler can tell of a task's phase and status. A save writes
the file where it was loaded and moves it to the folder of its new status, so a
stale save makes a second file; `hidden` holds the files `findTask` does not reach.

`Dispatch` has two variables: which session each task is dispatched to, and the
sessions used so far. The refinement maps a task's holder to its reservation
(there is at most one: `OnePlanPerTask`) and counts a session as used when its
wave is committed or rolled back.

Abstractions of this module, beyond formatting and files' contents:

* the scheduler lock is exclusive (DirectoryLock says when it is); a plan lock is
  held for one step, and by a prepare from its beginning to its end;
* an agent's authority check and the checks of its command on the task it loads are
  one step; asserting the lease, saving and releasing are steps of their own;
* one workflow operation runs on a task at a time, any number on different ones;
* a blocked task's agent does not complete a phase; the agents of ended lanes act
  as outsiders from then on;
* a draft with open questions counts as a refining task with open questions; a
  return of a task with open questions is left out;
* an approval leads to the builder phase; the final Product Owner's review is not
  a lane;
* an implicit plan made by prepare is `NewPlan` and then `BeginPrepare`;
  `assertParentDispatchReady` is left out, which only adds behaviours;
* an approved write scope is a set of areas; two scopes conflict when they meet;
* `staticWaves` and the recommendation are advice nobody reads back.

### Artifacts and Workflow

`Artifacts` is `artifact-dependencies.ts`: the signals of a change, the artifacts
that depend on them, and from these the kinds of evidence to collect again and
the phases that do it. Kinds that one artifact always asks for together are one
kind. The technical architecture is never among the required phases, as in the
code.

`Workflow` is one task. Its variables are the fields of the front matter that
commands decide on, with the files kept beside it:

| Variables | In the code |
|---|---|
| `status`, `phase`, `resume` | `status`, `phase`, `resume_status` with `resume_phase` |
| `route`, `designed`, `architected`, `waived` | `route`, `completed_design`, `completed_architecture`, the waivers in `.ai/overrides` |
| `approval`, `sealed`, `effective` | `spec_approval`, `spec_approval_hash`, `spec_effective_hash` (the latter as the number of amendments it was made with) |
| `spec`, `pending`, `amended` | the contents of the specification; amendments proposed and approved |
| `rev`, `gen`, `evidence` | the latest revision's file, `implementation_generation`, the generation each kind of evidence was recorded under |
| `final`, `openq`, `attempts` | `final_approval`, `open_questions`, the repair file |
| `accepted`, `interruptions` | history: the result accepted; how many commands were interrupted |

One action per command, named for the function; `completePhase` is one action per
phase (`CompleteSpecification`, `CompleteBuild`, ...). Nothing asks for the status
in `CompleteBuild` and its like because the code does not. A command that writes
more than one file has a second action, `Interrupted...`, for its end between two
writes; `FinalChecks`, `RevisionChecks` and `Implemented` are shared by both.

Parameters: `Routes` are the routes a specification may get (the policy tables
that choose one are not modelled), `Declarable` and `FileSignals` the signals that
a request and a set of changed files may carry, `Waivable` the gates a user waives.
`Producible` and `Stoppable` bound the evidence collected and the statuses in
which an agent stops the task or asks a question; each `Max...` bounds a count.

Left out, because they only refuse a command on account of a document or a host:
lint of the specification, acceptance coverage, scope guard, learning, the
governance hash and the QA mission's hash, evidence of a proposal; the reviews and
the presentation have modules of their own. Each makes the model do more than the
code, so a safety property that holds here holds there. Left out for good: the
re-approval of a seal of the first format, `waiting_for` and `delivery_status` (no
guard reads them), the undoing of changes during a revision.

### TaskStore and TaskTable

`file` maps a path (number, slug, folder) to the task in it. `Slug` says what a
title leaves in a path, and several titles may leave the same, so two creations that
were given one number may write one file. A task is its title, status, its parent, dependencies and slices, and a version that each save raises.
A command is a list of calls of the store (`Make`, `Find`, `Update`, `Save`,
`Seal`), the ones that `addDependency`, `createSubtask` and `materializeSlices`
make, and a call is a list of file-system calls: the counter is read, written, the
file made; the folders are listed one by one and every file listed is read; a save
writes where it loaded and then moves. A process may die at any of them. `TaskTable`
is one entry per number that is only replaced by its next version. With commands in
turn the files implement it, mapped by what `findTask` returns.

### PhaseBoundary

`record[p]` and `capsule[p]` are the files of a phase, `lease` the atomic lease,
`audience` what the task remembers of the audience's sessions, `cmd[s]` what a
session's command has left to do. A command prepares (`Status`: the record as it is,
or a new one, the old one invalidated with its lease), judges, acquires the lease,
writes, and remembers the session in the task. `source` is a version of all that a
capsule is compiled from. Commands come in turn, and may die, or run side by side
(`serial`, chosen at first). `blocked` says that the task is stopped: `BlockTask`
releases the lease by force, and `ResumeTask` acquires one, for which the builder's
and the reviewer's phase ask for an entered boundary and the audience's does not.
`past` is history: who completed QA, who judged in this cycle, and who resumed the
audience's phase. Not here: `startExecution`, which asks for the boundary and acquires
the lease that its session already has, and the commands `lease acquire`, `take` and
`release`, which ask for no boundary at all; the lanes of a plan are in
`ConcurrencyScheduler`.

### ProductReviews

`task` holds the phase and the seals, `file` the reviews, `inputs` a version of the
product context and one of the result; a digest is the value it is made of. The
file of a review is written first and the task is saved after it: `pending[a]` are
the saves, seals, removals and moves an actor's command has left, and between them
the other actor's commands run or the command dies. Autonomy looks (`AdvanceAutonomy`,
on the readiness report) and then calls an approval: `CallApproveSpecification` loads
the task again, without a look at the Product Owner's review, and `ApproveSpecification`
saves what was loaded; `ApproveFinal` checks everything itself. The other commands
judge and write their first file in one step. `nextAction` with `Accepts`
states the advice of `next` and whether the command it names would be accepted;
`FinalBlockers` the readiness report. `outcome` is history: the delivery, and who
approved the specification: "overtaken" is the autonomy that approved another review
than it had looked at.

### GatePresentation

`evidence` and `bytes` are the registered files with a version of each, `events` a
version of everything else the bundle tells. `presentationDigest` is the record of
these for a gate, so a digest is stale when any of them changed. `host[s]` is what
a chat fetched, has to show and showed, `acks` what it recorded, `pending` a
recorder between its read and its write, `seen` (history) the contents that appeared
in the conversation, `decided` (history) the last decision with what it had not
seen. The host is external: it records "presented" for images it showed since it
fetched. `plan` and `run` are the visualization's.

### RuntimeGates and ResidentRuntime

`st` is the state the extension keeps, `tree` a version of the repository, `write`
the writes that passed the hook and run beside each other, `tool` the gate tool that
awaits something, `turn` how the agent's turn stands. Pi is external: it runs writes
in parallel and gates alone, and may restart the chat between any two steps. A write that
fails may have changed files before, and anybody may edit the repository
(`EditElsewhere`). `known` is history: the versions reviewed, verified and last
written, and whether a gate was passed since a write has ended (`fresh`).

`launcher[l]` is where the shell script is, `runtime[r]` a server with its queue,
`lock`, `socket` and `meta` the files. Loops have `MaxTries` rounds, a request may be
late whenever the runtime is busy, and any process may be killed at any point.
`runs` (history) counts executions of a launcher's command, `since` (history) holds
the launchers since whose start a runtime has been available.

## 3. The runs

Components that do not interact share a run: its module has a variable `focus`, and
a behaviour is of one component, chosen in the initial state; the others stay as
they began. Where a run extends the modules of several components, as `processes` does
`TaskLease`, `TaskStore`, `RuntimeGates` and `ResidentRuntime`, and `services` does
`PhaseBoundary` and `ProductReviews`, those after the first have names of their own for
what every module has (`StoreInit`, `GatesNext`, `residentVars`, `ReviewsSpec`). Properties of a component then read `focus = ... => ...`, or hold for
the others trivially because they do not move.

| Run | Instance | Question | Result |
|---|---|---|---|
| `progress` | 2 commands at a lock, 1 crash, stalls, fair; 2 sessions at the mutex of a lease, 2 operations, 1 crash, stalls, fair; 1 chat at a gate with 2 images, 1 event, 1 edit, fair | the directory is its holder's until one is stolen; only a stalled process steals; waits and lease operations end; a gate whose host goes on opens | holds |
| `lock_stolen` | 3 commands, no crash, no stall | can a live lock be removed? | yes: finding |
| `processes` | 3 sessions at a lease, 2 attempts, 3 operations, 1 crash, stalls; 2 processes at the store with 3 titles of 2 slugs, 3 commands in turn that may die or 2 that race; 2 parallel writes, 3 changes, 1 decision; 2 launchers, 2 runtimes, 1 killed | grants stand and `LeaseAuthority` is implemented until the mutex of a session inside is removed; tasks are kept; implements `TaskTable`; complete means passed since the last write; authority ends with a write; executed once; busy is not dead | holds |
| `scheduler` | 2 parents sharing a child, 1 fault; 3 sessions with plans that change, or 2 with 1 workflow operation at a gate, at the end of a phase or on a prerequisite | types, one plan per task, implements `Dispatch`; no wave puts clashing writers to work; a live lane lease stands for something, unless its reservation was taken from under a command | holds |
| `scheduler_replan` | 1 parent, two task sets | is a reservation kept when the plan is replaced? | no: finding |
| `scheduler_gate` | 1 parent, 2 children, 1 workflow operation | does a prepare respect a gate decided meanwhile? | no: finding |
| `workflow_stops` | no evidence, stops and a question in 3 statuses, 2 contents, 1 amendment, 1 interruption | what is delivered was accepted; seal and hash agree; an undecided amendment stops the work | holds |
| `workflow_revisions` | a frontend task for an audience that may be waived, 2 generations, 1 interruption | validated means proved; nothing is left open; the evidence is there | holds |
| `workflow_unpassable` | a revision for the target audience | can every revision be accepted? | no: finding |
| `gates_completion` | 1 chat, edits elsewhere | is what ends as complete what was reviewed? | no: finding |
| `gates_authority` | 1 chat, 2 parallel writes | does one gate permit one write? | no: finding |
| `services` | boundary with 2 sessions, in turn or racing, returned or stopped; reviews with 1 profile, 1 change, 2 turns, crashes; gates in 2 chats and with a visualization | the audience is not who tested, choices are honoured and stand, nobody is locked out but by the one who resumed the audience's phase; judged, agreed, advised outside three states, and shown as it is | holds |

### Bounds

`MaxUses` and `MaxCrashes` bound operations and deaths: the protocol of a lock
forgets a process when it leaves, and three commands are what the removal of a live
lock takes (one leaves, one judges, one enters). `Attempts` is 2 for the hundred
attempts of the code: nothing depends on the number. `MaxTasks`, `MaxCommands` and
`MaxRaced` bound the store: four numbers are a task, its two slices and one more;
three commands in turn let one repeat what another left half-done, and a race for a
task is one of two. Two of the three titles have one slug, so a race for a number may
be one for a file. Three sessions at the lease are what the removal of a live mutex
takes without a stall (one dies, two find its mutex old), and each begins one of the
three operations or one begins them all.

`MaxSessions` bounds the sessions ever minted; with three, a lane is dispatched, ends
and is dispatched again while another is held. `MaxMoves` bounds workflow operations,
which otherwise go on for ever, and `MaxFaults` crashes and corruptions. Children 1
and 2 write the same area and child 3 another, so waves have a clash and a free lane;
children are shared by the parents, so limits, exclusion and scopes cross plans.
`scheduler_gate` starts with builders at work, the stage a repair limit blocks.
In `scheduler`, a behaviour has waves only (three sessions, plans that are replaced,
a crash or a corrupt plan), or one operation on a task, which with its steps meets
prepares, releases and cancellations at each of theirs (two sessions, one task set and
one limit per parent): at a gate with a crash, at the end of a phase, or on a task that
others depend on. `MCWavesAndMoves` says which stages the tasks start in. The fourth
task is a prerequisite of a lane.

The workflow has one task and small counts, with a run for each group of features,
because they multiply: the run with edits, questions and stops has neither revisions
nor evidence, the one with revisions has two kinds of evidence and no stop. A question
can stop a stopped task; one amendment is proposed and decided at any time, before and
after a new approval; the statuses in which the task is stopped are those from which a
stale resume point would bring an acceptance back and those it would come back over.
Each run has one route only. All routes, and stops together with revisions and
evidence, are where the theorems below go beyond the runs.

`MaxEdits` of the boundary is one recompiled capsule and `MaxAttempts` one return, so
one audience judges after another, or a task that is stopped and resumed; which commands the users give is a set per
behaviour (`Commands`, `RacedCommands`). `MaxChanges` and `MaxTurns` of the reviews
allow one stale review and a decision before and after it. One event, one registered
file and one overwritten one make each part of a presentation stale once, in the
middle of any recording. Three changes of a repository are two writes and an edit of
somebody else. `MaxTries` of two lets each loop of the launcher go round and give up.

Symmetry is used for the sessions of `services` and of the lease in `processes`, where
no property is a liveness property.

Deadlock is checked in the two passing runs of the workflow, where there is always
something to do. Elsewhere it is not: commands end, sessions and moves are used up,
and a system nobody touches may stay as it is.

### Fairness

`DirectoryLock`, `TaskLease` and their runs assume only that a live process takes its
next step (each wait is a sleep of milliseconds and each call returns), and that time
passes. Nothing makes a command start, crash or stall. `GateOpens` assumes a host that
goes on: it fetches again when there is nothing left to do or the digest is refused,
shows what it was asked to, and a recording that can succeed again and again does once;
commands end. What the code contributes is that building, showing and recording never
make what was recorded stale. All other properties are safety and need none: no
schedule makes a person or an agent give the next command.

### Mutants

For every property of a passing run `PROJECT.json` names a plausible bug (a forgotten
check, a lost reset, a wrong order) that makes TLC find the property violated in the
same instance.

### What the violations show

* **A live lock can be removed** (`lock_stolen`). The staleness test calls
  `statSync`; when the lock was released just before, the call throws and the
  test answers "stale". The contender then removes the directory, which by then
  may be the next holder's. The documentation says a live process is not mistaken
  for a stale lock. With two commands it takes a stall of five minutes, as
  `progress` shows.
* **A reservation can be dropped by planning again** (`scheduler_replan`). Another
  task set is refused only while a lane shows as reserved or active; when the
  lease has run out the lane shows as blocked, the new plan starts without
  reservations, and the child can be dispatched again while its agent is at work.
* **A prepare can undo a gate** (`scheduler_gate`). The copy loaded before
  `git worktree add` is saved after it.
* **A revision that cannot be accepted** (`workflow_unpassable`). Only the QA phase
  marks a revision validated, and only when nothing follows it.
* **Complete is not reviewed as it is** (`gates_completion`). The fingerprint of the
  repository is compared when a PASS is given, and a PASS is taken back by a write of
  the chat that succeeds. A file that somebody edits after the PASS, or that a failing
  write has changed, is not noticed at the end of the turn, although
  `docs/ENTRY-GOVERNANCE.md` 46 says that any subsequent change invalidates the review.
* **One gate, two writes** (`gates_authority`). Calls that run in parallel pass the hook
  on the same authority, which the first to end takes away; the others write after
  that. `docs/ENTRY-GOVERNANCE.md` 72 calls the authorization one-use.

Reading the code for the model showed more of the kind, which no run states. A
revision that replaces a built but unvalidated one takes its changes into the new
baseline, so nobody asks for the evidence they made stale (`revisions.ts` 97-98).
A stop of a stopped task overwrites the resume point (`questions.ts` 41,
`workflow.ts` 297), a question blocks a completed task. An amendment can be approved
between the acceptance and the delivery. A revision outlives a return to the
specification. A build interrupted between the revision's file and the task leaves
the old generation, whose evidence then validates the revision. And four cases that a
property names as an exception, so that it holds of the rest:

* a reservation that is released, cancelled or planned away under a command of its lane
  leaves a lease: `assertTaskLease` acquires it again (`workflow.ts` 170), there is no
  reservation to remove any more (`concurrency.ts` 614), and it stays until it expires
  (`NoOrphanLease`);
* a session that resumes a blocked task in the audience's phase is given the lease
  without a boundary (`workflow.ts` 303-306), and the session that the boundary requires
  cannot enter until it is released or expires, which the comment at
  `phase-boundary.ts` 132-134 wants to prevent (`FreshSessionCanEnter`);
* a review that is reset or made anew between autonomy's look and the load of
  `approveSpecification` is sealed unseen, and may be one that nobody agreed to
  (`AutonomousIsAgreed`);
* `next` advises a command that is refused when the audience's batch does not match its
  seal, when a task at the final approval has no audience of the present result, and
  when a revision there was not validated (`AdviceIsPossible`): an agent that follows
  the advice goes in a circle there, and the property shows that it does nowhere else.

Three properties are therefore stated until the first interruption: `RevisionProved`
for that reason, `ApprovalIsSealed` because a decision may end before its hash is
saved, and `DeliveredIsSettled` because a revision may be stored of a task whose move
back to the work is not. The last was first stated without the qualification; its
proof failed at the interrupted revision of an accepted task, and rightly so.

## 4. The theorems

The proofs hold for every value of the constants that satisfies the named assumptions
of a module: any number of processes, sessions, tasks, parents and candidate sets, any
dependencies, slices, profiles, scopes, routes, signals and bounds. `GatePresentation`
is instantiated twice by one run, so its assumption is an operator and a hypothesis of
the theorem, and the run's module assumes it of each instance. Every proof has one step per action; where two actions share their effect
(a command and its interruption, the steps of several commands) a lemma says once
what the effect preserves.

| Module | Theorem | States |
|---|---|---|
| `DirectoryLockProofs` | `Typing`, `HolderSafety`, `ExclusionUntilStolen` | types; until a lock is stolen, its holder is the one inside, and alone |
| `TaskProofs` | `LeaseTyping`, `GrantSafety`, `LeaseRefinement` | types; until the mutex of a session inside is removed, grants stand and `LeaseAuthority` is implemented |
| | `StoreKeeps`, `StoreIsTable` | types, tasks with their dependencies are kept, a materialized plan is whole; commands in turn implement `TaskTable` |
| `ConcurrencySchedulerProofs` | `SchedulerTyping`, `SchedulerExclusion`, `DispatchRefinement` | types; one plan per task; implements `Dispatch` |
| | `WriterSafety`, `LaneLeaseSafety` | no wave clashes with what is held; until a fault, a live lane lease stands for something, unless its reservation was taken from under a command |
| `WorkflowProofs` | `WorkflowTyping` | types |
| | `AcceptanceSafety`, `EvidenceSafety`, `SettledSafety` | what is delivered was accepted, is proved, and is not under revision |
| | `SealSafety`, `RevisionSafety`, `AmendmentSafety` | seal and amendments agree; validated means proved; an undecided amendment stops the work |
| `PhaseBoundaryProofs` | `BoundaryTyping`, `EntryHonoursChoice`, `ChoicesStand` | types; entered as chosen; neither a choice nor an entry is undone |
| | `AudienceIsIndependent`, `EntryFindsNoLease` | the audience neither tested nor, in turn, judged before; nobody is locked out but by the one who resumed the audience's phase |
| `RuntimesProofs` | `GatesTyping`, `AuthoritySafety`, `CompletionSafety` | types; no call passes on an authority since which a write has ended; complete means passed since the chat's last successful write |
| | `ResidentTyping`, `OnceSafety`, `BusySafety` | types; executed once; busy is not taken for dead |
| `GatePresentationProofs` | `DecisionSafety`, `RenderSafety` | a decision follows the present contents; rendered means rendered as it is |
| `ProductReviewsProofs` | `ReviewsTyping`, `JudgmentSafety`, `AutonomySafety` | types; delivered as judged; what autonomy approved and is delivered was agreed when it looked, and in turn it approves nothing else |
| | `ReportsAgree`, `AdviceStands` | the readiness report and the final gate agree; what `next` advises is not refused, but in three states |

### The arguments

**The directory lock.** `HolderUntilStolen` is inductive together with the types: a
process between `mkdirSync` and its `finally` made the directory that is there, since
only its own release and a removal take it away, and a removal that hits a live holder
raises `stolen`. From then on the theorem says nothing; that it holds until then is
the point: the late removal is the only way the protocol fails.

**The lease.** Whoever writes the lease file is inside the mutex and has read the
lease as it still is (`MutexInv`), until the mutex of a session inside has been removed.
So a grant is ended only by its own session, by force, or when it has run out. Every
step that leaves the mutex with whoever is inside is one of `LeaseAuthority` or a
stutter, whatever crashed or slept before: there is no hypothesis on deaths, sleeps or
contenders. The step that removes a live mutex changes no lease, but what follows it
may, and nothing is claimed of it.

**The store.** Two invariants. `StoreFits` holds whatever races or dies: a file is never
removed but by a move to another folder, and each command stands in the list of calls
it began with (`Placed` in a `Planned` list), so that a reference to a task it made
comes after the call that makes it, a dependency is added only after it was found, and
the copy that is about to be written depends on stored tasks only. Each file that was ever made keeps a path of its number and slug for that reason
alone, and dependencies with it; nothing is said about which save wins a race, nor
which title a file has that two creations wrote. `SerialFits` is inductive with it when commands come in turn: each number has one
file, below the counter (a death between the counter's write and the file's loses a
number and no task), and the running command holds the next version of what is stored,
or of the file it is about to move (`StepFits`). About `materializeSlices` it says how
far the command is (`MaterializesAt`): a slice it made is stored as its copy has it,
the second save of the n-th gives it its dependency, the last update gives the parent
the slices, and only then is the plan sealed. The calls of all slices are one function
of the index of a call, without recursion, so this holds for any number of slices.
Later commands keep `Stand`: they only add to dependencies, never change a parent and
leave slices as they are. `StoreIsTable` compares the table before and after each call:
a made file adds a row, a write makes a row its next version, and a move, although it
changes the folder under which the task is found, changes none.

**The scheduler.** `WaveInv` relates the prepare under way to the plans: its lanes
were free when it read them and nobody else can reserve meanwhile (`JobClear`), the sessions
it minted are its own, one per lane (`JobFresh`), and the reservations of the project
together with its lanes are within the limit (`JobRoom`, by a lemma on the cardinality
of what a step leaves). Reservations otherwise only go away (`Shrinks`). The exclusion
of plans, the refinement of `Dispatch` and `WavesDoNotClash` follow: the commit looks
once more at every pair of writers of the plan that anybody holds. `LaneLeaseSafety`
needs more. `LeaseInv` says a live lease of a lane session has its reservation, or the
prepare that has just taken it, or an operation whose next step is to release it; what
the operation of a lane's session may still do with the lease at each place of its
script, where an `assert` may acquire it again; and that a plan that cannot be read
takes a fault. It has no hypothesis on plans: a task from which a reservation was taken
under an operation or a live lease (`revoked`) is excepted by the property, because the
code leaves a lease there.

**The workflow.** Properties of what was delivered are not inductive: a stopped task
may have been about to be delivered and come back. `Arrived` says that the task is at
the end, or would be when it resumes, and a lemma splits the steps into those that
bring it there (`EndStep`: the final approvals and the closing) and those that keep
what its acceptance rests on (`Kept`). Acceptance, evidence and the settled revision
are three uses of that split. `RevisionInv` says that the generation of a revision is
at most the task's, and exactly the task's once it is implemented, so that evidence of
the present generation, which its validation asks for, is good enough for it; it holds
until the first interruption, as the seal does. `AmendmentSafety` needs no invariant:
every guard asks.

**The boundary.** `Faithful` says of every record what a choice or an entry implies
about it and about the command that is still to write it. `AudienceIsFresh` follows
the session that may sit in the audience's seat through the steps of its commands: the
sessions of QA and of the judges are kept out (`Barred`) until the task is returned.
`InSequence` says that with commands in turn at most one has steps left, that it works
on the phase of the task and that its capsule is the record's, and `LeaseFollows` that
until a crash a lease at a boundary belongs to the session that entered it or is about
to write that it did: whatever makes a record required again invalidates its lease
first. The exception is the session that resumed the audience's phase (`Resumed`): it
holds a lease that no boundary gave it.

**The runtimes.** `OneAtATime`: nothing runs when the agent does not work, what a
gate's tool read before it awaited still stands, and an authority that is there has
not been overtaken by a write. `Proved` says how far each stage of a turn is supported
by what was reviewed, and that no write has succeeded since. `AtMostOnce` is a chain:
a request that is not taken is in no queue, one that is queued is so once and of one
runtime, and one that is queued has not run. `FoundSince` says that while a launcher
counts as begun with a runtime available, one is, so its record is published and the
launcher is on its way to a request, not to the start lock.

**The presentation.** `PresentationInv`: an acknowledgement that says "presented"
means that this chat was shown this content, because what the host shows lies between
the digest it fetched and now (contents only grow), and a digest that is still current
pins both ends. A recorder's report is checked under the digest it names. For a
visualization `PlanFits` is enough (a plan gives the content of every image that it
requires): the completion compares those contents with the files.

**The reviews.** `ProductInv`: what an approver has left to write, seal or move is one
of the lists a command starts with or the rest of one (`PendingFits` with `Steps`),
and the delivered result carries the review that its approver read. A final review's
file is always of a result that enough profiles had let pass (`WellJudged`), however
the actors' commands interleave, so it does not matter which of them delivers.
`GateInv` is for the two ways of asking whether the task may be delivered: the report
asks for an audience that judged the present result, `approveFinal` only for a final
review that did. Inputs only grow, so reviews lie in order (`ReviewsFit`): the
audience's are of inputs between those of the final review and the present ones; a
final review of the present result pins them to it (`BatchIsCurrent`). A task that
waits for the final approval without a revision has an audience of the specification
that is sealed (`GateFits`), and so has the task that the agent's command is about to
save there (`SavesFit`). With that, `ReportsAgree` compares the two guards.
`TurnInv` is for autonomy: with commands in turn nothing lies between its look, the load
and the save, so the review that is sealed is the one that was looked at; otherwise
`AutonomySafety` rests on the history variable, which records at the save whether it is.
`AdviceStands` goes through the phases and needs `ProductInv` alone: when no command
runs, the seals that the advice looks at are those its command asks for.

### Only model-checked

* **Liveness** (`WaitEnds`, `OperationEnds`, `GateOpens`): fairness and ENABLED are
  out of reach of the proofs here. That something can always happen (deadlock) is
  checked too, not proved.
* **`OnlyStallsSteal`** is true of two commands and false of three (`lock_stolen`): no
  theorem for every number of processes exists.
* **`ServiceTypes`** joins the types of the reviews, which are proved (`ReviewsTyping`),
  with those of both instances of `GatePresentation`, which are proved as the part
  `Shape` of `PresentationInv`, without a theorem of their own.

`services` checks `ApprovedIsSeen` and `RenderedIsCurrent` under names of its own, for
the two instances of `GatePresentation`; `DecisionSafety` and `RenderSafety` state the
properties of the module that they are instances of. Routes beyond the one of a
workflow run, more than one child shared by two parents, more than two sessions at a
boundary, more than two slices and longer races at the store rest on the theorems.

## 5. The plan

Done, in this order: the locks and the lease; the scheduler with its contract; the
workflow with artifacts, revisions and amendments; the store; the boundary; the
reviews and the presentation; the runtimes; and the theorems above.

What is left, the most important first:

1. An abstract specification of the workflow (accepted once, delivered once) that
   `Workflow` implements.
2. `staticWaves` and `scopesOverlap` as operators against their definitions, which
   only the recommendation reads.
3. The boundaries of a plan's lanes, composed with the scheduler; the runtime gates
   composed with the boundary.

Not modelled, and why: tracing, metrics and learning (append-only, never read for a
decision), set-up and updates (one person, once, files), cockpits (renderings), the
automation of git beyond the worktree, and the parsing of arguments and documents.

## 6. Running it

```
tlc -workers 2 -config MCProgress.cfg MCProgress
tlapm ConcurrencySchedulerProofs.tla
```

A run takes from seconds to four minutes, a proof module from seconds to several
minutes. `PROJECT.json` lists the runs, the mutants, which lines of the source each
definition models, the hazards and the theorems.
