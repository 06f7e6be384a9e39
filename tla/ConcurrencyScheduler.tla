------------------------ MODULE ConcurrencyScheduler ------------------------
(***************************************************************************)
(* The multi-agent scheduler (concurrency.ts, concurrency-state.ts): one   *)
(* sealed plan per parent task, a reservation per dispatched lane, the     *)
(* task leases that go with them, and what happens to the tasks meanwhile. *)
(*                                                                         *)
(* The scheduler lock is taken as exclusive (see DirectoryLock for when it *)
(* is).  While prepareConcurrencyWave holds it, everything that does not   *)
(* take it goes on: people decide gates, agents finish phases, leases      *)
(* expire, another parent is planned.  So a wave is prepared in steps, and *)
(* an operation of the workflow that checks its authority, acquires the    *)
(* lease again, saves the task, removes its reservation and releases the   *)
(* lease does each of these in a step of its own.  One operation runs on a *)
(* task at a time; any number run on different tasks.                      *)
(***************************************************************************)
EXTENDS Naturals, FiniteSets, Sequences

CONSTANTS
    Task,          \* child tasks, numbered in the order of their identifiers
    Parent,        \* parent tasks: one plan each
    Candidates,    \* Candidates[p]: the task sets p may be planned with
    Depends,       \* Depends[t]: the tasks t depends on
    Scopes,        \* Scopes[t]: the write scopes t may be approved with
    Starts,        \* Starts[t]: the stages t may be in when planning begins
    MaxParallel,   \* subagents.maxParallel of the project, at most 16
    NoSession,     \* nobody
    Outsider,      \* a chat that no scheduler dispatched
    MaxSessions,   \* bound: sessions ever minted
    MaxMoves,      \* bound: operations that move a task
    MaxFaults      \* bound: crashes and corrupted plan files

(* draft and build wait to be started; refine, active and review run, and a *)
(* live lease then shows as an active lane; the gates wait for a person:    *)
(* asked (refining with open questions), approve (of the specification),    *)
(* final (approval or delivery) and blocked.                                *)
Stages == {"draft", "refine", "asked", "approve", "build", "active", "review",
           "final", "blocked", "done", "rejected"}
Gates == {"asked", "approve", "final", "blocked"}
Decisions == {"approve", "final"}            \* only a decision moves on from here
Closed == {"done", "rejected"}
Running == {"refine", "active", "review"}
Writing == {"build", "active"}               \* phase builder
Phase(s) == IF s \in {"draft", "refine"} THEN "specify"
            ELSE IF s \in Writing THEN "builder" ELSE s

ASSUME TaskAssumption == Task \subseteq Nat /\ IsFiniteSet(Task)
ASSUME CandidatesAssumption ==
    Candidates \in [Parent -> SUBSET SUBSET Task]
ASSUME DependsAssumption == Depends \in [Task -> SUBSET Task]
ASSUME ScopesAssumption == DOMAIN Scopes = Task
ASSUME StartsAssumption == Starts \in [Task -> SUBSET Stages]
ASSUME ParallelAssumption == MaxParallel \in 1 .. 16
ASSUME BoundAssumption ==
    MaxSessions \in Nat /\ MaxMoves \in Nat /\ MaxFaults \in Nat

(* A lane session is minted for one parent and never twice (a UUID).        *)
Sid == [parent : Parent, n : 1 .. MaxSessions]
ASSUME SessionAssumption ==
    NoSession \notin Sid /\ Outsider \notin Sid /\ Outsider # NoSession

VARIABLES
    stage,         \* where each task is in the workflow, as its file says
    hidden,        \* other files of the task, which findTask does not reach
    scope,         \* its approved bounded write scope, {} when there is none
    tree,          \* has it a worktree?
    owner, live,   \* its lease: whom the file names, and is it unexpired
    plan,          \* the plan file of each parent, without its reservations
    held,          \* held[p][t]: the reservation of t in p's plan
    job,           \* the prepare that holds the scheduler lock
    op,            \* op[t]: the workflow operation under way on t: the steps it
                   \* still has to do, for which session, what it loaded and saves
    minted,        \* sessions minted so far
    moves, faults, \* moves and faults so far
    revoked        \* history: tasks of which a reservation was taken from outside,
                   \* by a release, a cancellation or another plan, while an
                   \* operation was under way or the lease was left behind

tasks == <<stage, hidden, scope, tree>>
leases == <<owner, live>>
plans == <<plan, held>>
spent == <<moves, faults, revoked>>
vars == <<tasks, leases, plans, job, op, minted, spent>>

NoPlan == [status |-> "none", ids |-> {}, limit |-> 1]
NoJob == [at |-> "none"]
NoOp == [todo |-> << >>, by |-> NoSession, from |-> "draft", to |-> "draft",
         tree |-> FALSE]

-----------------------------------------------------------------------------
(* Reading the plans. *)

Readable(p) == plan[p].status # "corrupt"
AllReadable == \A p \in Parent : Readable(p)
PlansOf(t) == {p \in Parent : plan[p].status = "ok" /\ t \in plan[p].ids}
Holding(t) == {p \in PlansOf(t) : held[p][t] # NoSession}
ReservedTasks == {t \in Task : Holding(t) # {}}

(* reservationAuthoritative: the reservation and the live lease agree.      *)
Backed(t, s) == live[t] /\ owner[t] = s

(* assertConcurrencyMutationAuthority; a task in no plan is nobody's lane.  *)
Authority(t, s) ==
    /\ AllReadable
    /\ PlansOf(t) # {} => /\ Holding(t) # {}
                          /\ \A p \in Holding(t) : held[p][t] = s
                          /\ Backed(t, s)

-----------------------------------------------------------------------------
(* Lanes: laneAccess, baseLaneState and buildLanes for the reservations h.  *)

IsolatedWrite(t) == stage[t] \in Writing /\ scope[t] # {}
BlockedWrite(t) == stage[t] \in Writing /\ scope[t] = {}
Unfinished(t) == {u \in Depends[t] : stage[u] # "done"}

Base(t) ==
    IF stage[t] \in Closed THEN "terminal"
    ELSE IF stage[t] \in Gates THEN "blocked"
    ELSE IF Unfinished(t) # {} THEN "waiting"
    ELSE IF BlockedWrite(t) THEN "blocked"
    ELSE IF stage[t] \in Running /\ live[t] THEN "active" ELSE "ready"

Foreign(p, t) == Holding(t) \ {p}

(* Mutant: the reservations of other parents' plans are not looked at.      *)
OwnSessions(p, h, t) == IF h[t] # NoSession THEN {h[t]} ELSE {}

LaneSessions(p, h, t) ==
    IF h[t] # NoSession THEN {h[t]} ELSE {held[q][t] : q \in Foreign(p, t)}

LaneState(p, h, t) ==
    IF \E s \in LaneSessions(p, h, t) : ~Backed(t, s) THEN "blocked"
    ELSE IF Base(t) = "ready" /\ LaneSessions(p, h, t) # {} THEN "reserved"
    ELSE Base(t)

Occupied(p, h) ==
    {t \in plan[p].ids : \/ LaneState(p, h, t) \in {"active", "reserved"}
                         \/ LaneSessions(p, h, t) # {}}
Conflict(t, u) ==
    t # u /\ IsolatedWrite(t) /\ IsolatedWrite(u) /\ scope[t] \cap scope[u] # {}
Ready(p) == {t \in plan[p].ids : LaneState(p, held[p], t) = "ready"}

(* buildPlan reads the other plans only for lanes p does not hold itself.   *)
CanBuild(p, h) == AllReadable \/ \A t \in plan[p].ids : h[t] # NoSession
-----------------------------------------------------------------------------
(* The initial state and the types. *)

Init ==
    /\ stage \in [Task -> Stages] /\ \A t \in Task : stage[t] \in Starts[t]
    /\ hidden = [t \in Task |-> {}]
    /\ scope \in [Task -> UNION {Scopes[t] : t \in Task}]
    /\ \A t \in Task : scope[t] \in Scopes[t]
    /\ tree = [t \in Task |-> FALSE]
    /\ owner = [t \in Task |-> NoSession]
    /\ live = [t \in Task |-> FALSE]
    /\ plan = [p \in Parent |-> NoPlan]
    /\ held = [p \in Parent |-> [t \in Task |-> NoSession]]
    /\ job = NoJob
    /\ op = [t \in Task |-> NoOp]
    /\ minted = 0
    /\ moves = 0
    /\ faults = 0
    /\ revoked = {}

(* A prepare: its parent, the lanes still to be reserved, the sessions      *)
(* reserved so far, the worktrees it made, and the snapshot it selected on. *)
Jobs == [at : {"lanes", "tree"}, parent : Parent, todo : SUBSET Task,
         done : SUBSET [task : Task, sid : Sid], made : SUBSET Task,
         stage : [Task -> Stages], scope : [Task -> UNION {Scopes[t] : t \in Task}],
         task : Task, copy : Stages]

(* A workflow operation: assert acquires the lease for the session, recheck  *)
(* looks at its authority once more, seal stores an approved scope, save     *)
(* writes the task as it was loaded at first, moved to another stage, remove *)
(* takes the reservation out of the plan, lease releases the lease that went *)
(* with it, force deletes whatever lease there is.  The session is nobody's  *)
(* when a person acts.                                                       *)
Ops == [todo : Seq({"assert", "recheck", "seal", "save", "remove", "lease", "force"}),
        by : Sid \cup {Outsider, NoSession},
        from : Stages, to : Stages, tree : BOOLEAN]
Files == [stage : Stages, tree : BOOLEAN]

TypeOK ==
    /\ stage \in [Task -> Stages]
    /\ hidden \in [Task -> SUBSET Files]
    /\ scope \in [Task -> UNION {Scopes[t] : t \in Task}]
    /\ tree \in [Task -> BOOLEAN]
    /\ owner \in [Task -> Sid \cup {Outsider, NoSession}]
    /\ live \in [Task -> BOOLEAN]
    /\ plan \in [Parent -> [status : {"none", "ok", "corrupt"},
                            ids : SUBSET Task, limit : 1 .. MaxParallel]]
    /\ held \in [Parent -> [Task -> Sid \cup {NoSession}]]
    /\ job \in Jobs \cup {NoJob}
    /\ op \in [Task -> Ops]
    /\ minted \in 0 .. MaxSessions
    /\ moves \in 0 .. MaxMoves
    /\ faults \in 0 .. MaxFaults
    /\ revoked \subseteq Task
    /\ \A p \in Parent, t \in Task : held[p][t] # NoSession => t \in plan[p].ids

LockFree == job = NoJob              \* the scheduler lock
PlanLockFree(p) == job # NoJob => job.parent # p
None(p) == [held EXCEPT ![p] = [t \in Task |-> NoSession]]
Without(t) == [p \in Parent |-> [held[p] EXCEPT ![t] = NoSession]]
DropLeases(S) ==
    /\ owner' = [t \in Task |-> IF t \in S THEN NoSession ELSE owner[t]]
    /\ live' = [t \in Task |-> live[t] /\ t \notin S]

(* The folder of a task file, by its place in the order of their names:     *)
(* active, blocked, done, inbox, ready, refining, review.                   *)
Folder(s) == CASE s = "active" -> 1
               [] s = "blocked" -> 2
               [] s \in {"done", "rejected"} -> 3
               [] s = "draft" -> 4
               [] s \in {"approve", "build"} -> 5
               [] s \in {"refine", "asked"} -> 6
               [] s \in {"review", "final"} -> 7

(* saveTask writes the file where it was loaded and moves it to the folder  *)
(* of its new status.  When somebody else has moved it in the meantime the  *)
(* task has two files, of which findTask returns the one in the first       *)
(* folder.                                                                  *)
Save(t, from, to, worktree) ==
    LET files == {f \in hidden[t] \cup {[stage |-> stage[t], tree |-> tree[t]]} :
                     Folder(f.stage) \notin {Folder(from), Folder(to)}}
                 \cup {[stage |-> to, tree |-> worktree]}
    IN  \E first \in files :
            /\ \A f \in files : Folder(first.stage) <= Folder(f.stage)
            /\ stage' = [stage EXCEPT ![t] = first.stage]
            /\ tree' = [tree EXCEPT ![t] = first.tree]
            /\ hidden' = [hidden EXCEPT ![t] = files \ {first}]

Idle(t) == op[t] = NoOp

(* The reservations of S are taken away by nobody's operation on the task.  *)
Revoke(S) == revoked' = revoked \cup {t \in S : ~Idle(t) \/ live'[t]}

-----------------------------------------------------------------------------
(* Planning: createConcurrencyPlan takes only the lock of its own plan.     *)

NewPlan(p, ids, n) ==
    /\ PlanLockFree(p)
    /\ plan[p].status = "none"
    /\ AllReadable
    /\ Cardinality(ids) >= 2
    /\ plan' = [plan EXCEPT ![p] = [status |-> "ok", ids |-> ids, limit |-> n]]
    /\ UNCHANGED <<tasks, leases, held, job, op, minted, spent>>

AnyLive(p) ==
    \E t \in plan[p].ids : LaneState(p, held[p], t) \in {"reserved", "active"}

(* The same task set keeps its reservations.  A live plan keeps its limit   *)
(* unless none is asked for, and then takes the project's.                  *)
Refresh(p, n) ==
    /\ PlanLockFree(p)
    /\ plan[p].status = "ok"
    /\ CanBuild(p, held[p])
    /\ AnyLive(p) => n \in {plan[p].limit, MaxParallel}
    /\ plan' = [plan EXCEPT ![p].limit = n]
    /\ UNCHANGED <<tasks, leases, held, job, op, minted, spent>>

(* Mutant: the reservations of the old task set are kept.                   *)
ReplanCarrying(p, ids, n) ==
    /\ PlanLockFree(p)
    /\ plan[p].status = "ok"
    /\ AllReadable
    /\ ids # plan[p].ids
    /\ Cardinality(ids) >= 2
    /\ ~AnyLive(p)
    /\ plan' = [plan EXCEPT ![p] = [status |-> "ok", ids |-> ids, limit |-> n]]
    /\ UNCHANGED <<tasks, leases, held, job, op, minted, spent>>

(* Another task set is refused while a lane is reserved or active; it       *)
(* starts without reservations.                                             *)
Replan(p, ids, n) ==
    /\ PlanLockFree(p)
    /\ plan[p].status = "ok"
    /\ AllReadable
    /\ ids # plan[p].ids
    /\ Cardinality(ids) >= 2
    /\ ~AnyLive(p)
    /\ plan' = [plan EXCEPT ![p] = [status |-> "ok", ids |-> ids, limit |-> n]]
    /\ held' = None(p)
    /\ UNCHANGED <<tasks, leases, job, op, minted, moves, faults>>
    /\ Revoke({t \in Task : held[p][t] # NoSession})

-----------------------------------------------------------------------------
(* Preparing a wave: prepareConcurrencyWave, under the scheduler lock.      *)

Monus(a, b) == IF a > b THEN a - b ELSE 0
Least(S) == CHOOSE t \in S : \A u \in S : t <= u

(* Mutant: the limit of the project is forgotten.                           *)
PlanSlots(p) == Monus(plan[p].limit, Cardinality(Occupied(p, held[p])))

Slots(p) ==
    LET inPlan == Monus(plan[p].limit, Cardinality(Occupied(p, held[p])))
        inProject == Monus(MaxParallel, Cardinality(ReservedTasks))
    IN  IF inPlan < inProject THEN inPlan ELSE inProject

(* The lanes taken in the order of their identifiers: as many as there are  *)
(* slots, passing over those that conflict with a held or chosen writer.    *)
Chosen(p, S) ==
    /\ S \subseteq Ready(p)
    /\ Cardinality(S) <= Slots(p)
    /\ \A t \in Ready(p) :
          LET before == {u \in S : u < t}
              clash == \E u \in before \cup Occupied(p, held[p]) : Conflict(t, u)
          IN  t \in S <=> ~clash /\ Cardinality(before) < Slots(p)

(* When the host is not attested to run lanes in parallel, only the first   *)
(* lane of several is dispatched.                                           *)
BeginPrepare(p) ==
    /\ LockFree
    /\ plan[p].status = "ok"
    /\ AllReadable
    /\ \E S \in (SUBSET plan[p].ids) \ {{}} :
         /\ Chosen(p, S)
         /\ minted + Cardinality(S) <= MaxSessions
         /\ \E wave \in {S, {Least(S)}} :
              job' = [at |-> "lanes", parent |-> p, todo |-> wave, done |-> {},
                      made |-> {}, stage |-> stage, scope |-> scope,
                      task |-> Least(S), copy |-> "draft"]
    /\ UNCHANGED <<tasks, leases, plans, op, minted, spent>>

(* assertSelectedLaneSnapshot and acquireTaskLease for the next lane.       *)
LaneOpen(t) ==
    /\ stage[t] = job.stage[t]
    /\ scope[t] = job.scope[t]
    /\ Base(t) = "ready"
    /\ ~live[t]

ReserveLane ==
    /\ job.at = "lanes"
    /\ job.todo # {}
    /\ LET t == Least(job.todo)
           s == [parent |-> job.parent, n |-> minted + 1]
       IN  /\ LaneOpen(t)
           /\ owner' = [owner EXCEPT ![t] = s]
           /\ live' = [live EXCEPT ![t] = TRUE]
           /\ job' = [job EXCEPT !.todo = @ \ {t},
                                 !.done = @ \cup {[task |-> t, sid |-> s]},
                                 !.at = IF IsolatedWrite(t) /\ ~tree[t]
                                          THEN "tree" ELSE "lanes",
                                 !.task = t, !.copy = stage[t]]
    /\ minted' = minted + 1
    /\ UNCHANGED <<tasks, plans, op, spent>>

(* git worktree add is over, and the task as it was loaded before it is     *)
(* saved with the path of the worktree.                                     *)
SaveWorktree ==
    /\ job.at = "tree"
    /\ Save(job.task, job.copy, job.copy, TRUE)
    /\ job' = [job EXCEPT !.at = "lanes", !.made = @ \cup {job.task}]
    /\ UNCHANGED <<scope, leases, plans, op, minted, spent>>

Reservations ==
    [t \in Task |-> IF \E d \in job.done : d.task = t
                     THEN (CHOOSE d \in job.done : d.task = t).sid
                     ELSE held[job.parent][t]]

(* Mutant: the scopes of the held writers are not compared again.           *)
LanesStand ==
    /\ CanBuild(job.parent, Reservations)
    /\ \A d \in job.done :
          /\ LaneState(job.parent, Reservations, d.task) \in {"reserved", "active"}
          /\ Phase(stage[d.task]) = Phase(job.stage[d.task])

(* The rebuilt plan must still show every lane reserved or active, in the   *)
(* phase it was selected in, and no two held writers in conflict.           *)
WaveStands ==
    LET p == job.parent
        h == Reservations
        writers == {t \in plan[p].ids : LaneSessions(p, h, t) # {} /\ IsolatedWrite(t)}
    IN  /\ CanBuild(p, h)
        /\ \A d \in job.done :
              /\ LaneState(p, h, d.task) \in {"reserved", "active"}
              /\ Phase(stage[d.task]) = Phase(job.stage[d.task])
        /\ \A t, u \in writers : ~Conflict(t, u)

CommitWave ==
    /\ job.at = "lanes"
    /\ job.todo = {}
    /\ WaveStands
    /\ held' = [held EXCEPT ![job.parent] = Reservations]
    /\ job' = NoJob
    /\ UNCHANGED <<tasks, leases, plan, op, minted, spent>>

(* Mutant: the leases of a failed wave are left to run out.                 *)
ForgetWave ==
    /\ \/ job.at = "tree"
       \/ job.at = "lanes" /\ job.todo # {} /\ ~LaneOpen(Least(job.todo))
       \/ job.at = "lanes" /\ job.todo = {} /\ ~WaveStands
    /\ tree' = [t \in Task |-> tree[t] /\ t \notin job.made]
    /\ job' = NoJob
    /\ UNCHANGED <<stage, hidden, scope, leases, plans, op, minted, spent>>

(* Any failure, of the worktree command too, removes the worktrees made,    *)
(* restores their metadata and gives back the leases still held.            *)
RollBackWave ==
    /\ \/ job.at = "tree"
       \/ job.at = "lanes" /\ job.todo # {} /\ ~LaneOpen(Least(job.todo))
       \/ job.at = "lanes" /\ job.todo = {} /\ ~WaveStands
    /\ tree' = [t \in Task |-> tree[t] /\ t \notin job.made]
    /\ DropLeases({d.task : d \in {e \in job.done :
                                     ~live[e.task] \/ owner[e.task] = e.sid}})
    /\ job' = NoJob
    /\ UNCHANGED <<stage, hidden, scope, plans, op, minted, spent>>

-----------------------------------------------------------------------------
(* Heartbeat, release and cancellation: whole under the scheduler lock.     *)

(* The exact session renews its lease, an expired one too.                  *)
Heartbeat(p, t) ==
    /\ LockFree
    /\ plan[p].status = "ok"
    /\ held[p][t] # NoSession
    /\ ~live[t] \/ owner[t] = held[p][t]
    /\ owner' = [owner EXCEPT ![t] = held[p][t]]
    /\ live' = [live EXCEPT ![t] = TRUE]
    /\ UNCHANGED <<tasks, plans, job, op, minted, spent>>

(* The lease goes first.  The reservation follows when the plan can be      *)
(* rebuilt without it, which reads all the others; otherwise the command    *)
(* fails with the lease already gone.                                       *)
ReleaseLane(p, t, force) ==
    /\ LockFree
    /\ plan[p].status = "ok"
    /\ held[p][t] # NoSession
    /\ force \/ ~live[t] \/ owner[t] = held[p][t]
    /\ DropLeases({t})
    /\ held' = IF AllReadable THEN [held EXCEPT ![p][t] = NoSession] ELSE held
    /\ Revoke({t})
    /\ UNCHANGED <<tasks, plan, job, op, minted, moves, faults>>

Cancel(p, force) ==
    /\ LockFree
    /\ plan[p].status = "ok"
    /\ LET kept == {t \in Task : held[p][t] # NoSession}
       IN  (kept = {} \/ force) /\ DropLeases(kept) /\ Revoke(kept)
    /\ plan' = [plan EXCEPT ![p] = NoPlan]
    /\ held' = None(p)
    /\ UNCHANGED <<tasks, job, op, minted, moves, faults>>

(* A corrupt plan is not believed: the live leases of sessions minted for   *)
(* its parent are what is released.                                         *)
CancelCorrupt(p) ==
    /\ LockFree
    /\ plan[p].status = "corrupt"
    /\ DropLeases({t \in Task : live[t] /\ owner[t] \in Sid /\ owner[t].parent = p})
    /\ plan' = [plan EXCEPT ![p] = NoPlan]
    /\ held' = None(p)
    /\ UNCHANGED <<tasks, job, op, minted, spent>>

-----------------------------------------------------------------------------
(* What happens to the tasks: agents and people run workflow operations.    *)

Move == moves < MaxMoves /\ moves' = moves + 1 /\ UNCHANGED revoked

(* The sessions that run commands on t: the lanes that exist and outsiders, *)
(* with whom the agents of ended lanes are counted from then on.            *)
Sessions(t) == ({held[p][t] : p \in Parent} \ {NoSession}) \cup {Outsider}

(* An operation begins: what it has to do, for whom, and the task as it is  *)
(* loaded; nothing else changes yet.                                        *)
Begin(t, steps, s, to) ==
    /\ Move /\ Idle(t)
    /\ op' = [op EXCEPT ![t] = [todo |-> steps, by |-> s, from |-> stage[t],
                                to |-> to, tree |-> tree[t]]]
    /\ UNCHANGED <<tasks, leases, plans, job, minted, faults>>

(* assertConcurrencyMutationAuthority ends by acquiring the lease of a lane *)
(* (assertTaskLease), after it has looked at reservation and lease; a task  *)
(* in no plan is left alone.                                                *)
Script(s, steps) == IF s = Outsider THEN steps ELSE <<"assert">> \o steps

(* From a blocked task with open questions the refinement still waits for   *)
(* the answers.  Without a session any lease goes first.                    *)
StartRefinement(t, s) ==
    /\ Authority(t, s)
    /\ stage[t] \in {"draft", "refine", "asked", "blocked"}
    /\ \E to \in {"refine", "asked"} :
          /\ stage[t] \in {"draft", "refine"} => to = "refine"
          /\ stage[t] = "asked" => to = "asked"
          /\ \/ Begin(t, Script(s, <<"save">>), s, to)
             \/ s = Outsider /\ Begin(t, <<"force", "save">>, s, to)

(* The lease is acquired, then the authority is looked at again.            *)
StartExecution(t, s) ==
    /\ Authority(t, s)
    /\ stage[t] = "build"
    /\ Unfinished(t) = {}
    /\ Begin(t, IF s = Outsider THEN <<"assert", "recheck", "save">>
                ELSE <<"assert", "recheck", "assert", "save">>, s, "active")

(* Where the end of a phase leads; SpecRail Fast seals a specification      *)
(* without a gate.                                                          *)
NextStages(x) ==
    CASE x \in {"draft", "refine"} -> {"refine", "approve", "build", "review", "final"}
      [] x \in Writing \cup {"review"} -> {"review", "final"}
      [] OTHER -> {}

(* The end of a script: the last lease is deleted, whosoever it is, when a  *)
(* person is next, and when the reviewer or the target audience is.         *)
Endings(to) ==
    CASE to = "build" -> {<<"seal", "save", "remove", "lease">>}
      [] to \in Gates -> {<<"save", "remove", "lease", "force">>}
      [] to = "review" -> {<<"save", "remove", "lease">>, <<"save", "remove", "lease", "force">>}
      [] OTHER -> {<<"save", "remove", "lease">>}

(* completePhase looks at the authority (167), asserts the lease in the     *)
(* phases that execute (170), which acquires one that is gone, saves the    *)
(* task (237), has its reservation removed and the lease that went with it  *)
(* released (244), and does not look at the authority again.                *)
CompletePhase(t, s, to) ==
    /\ Authority(t, s)
    /\ to \in NextStages(stage[t])
    /\ \E steps \in Endings(to) :
          Begin(t, IF stage[t] \in {"draft", "refine"} THEN Script(s, steps)
                  ELSE <<"assert">> \o steps, s, to)

(* blockTask, and returnTask to an earlier phase while repairs are left.    *)
BlockOrReturn(t, s, to) ==
    /\ Authority(t, s)
    /\ \/ to = "blocked" /\ stage[t] # "done"
       \/ to \in {"refine", "active", "review"}
            /\ stage[t] \notin Closed \cup Decisions \cup {"asked"}
    /\ Begin(t, Script(s, <<"save", "remove", "lease", "force">>), s, to)

(* addQuestion, in any stage; a request for more context than the policy    *)
(* allows, which leaves the task as it is.                                  *)
Questioned(x) == CASE x \in {"draft", "refine", "asked"} -> "asked"
                   [] x = "approve" -> "approve"
                   [] OTHER -> "blocked"
Ask(t, s) ==
    /\ Authority(t, s)
    /\ \/ Begin(t, Script(s, <<"save", "remove", "lease">>), s, Questioned(stage[t]))
       \/ Begin(t, Script(s, <<"remove", "lease">>), s, stage[t])

(* registerReturn at the repair limit: the lease goes before the task is    *)
(* saved as blocked.                                                        *)
ExhaustRepairs(t, s) ==
    /\ Authority(t, s)
    /\ stage[t] \notin Closed \cup Decisions
    /\ Begin(t, Script(s, <<"force", "save", "remove", "lease">>), s, "blocked")

(* startIncrementalRevision keeps the reservation and drops the lease.      *)
StartRevision(t, s) ==
    /\ Authority(t, s)
    /\ stage[t] \in Writing \cup {"review", "final", "blocked"}
    /\ Begin(t, Script(s, <<"force", "save">>), s, "build")

(* approveSpecification leaves the lane alone, and approves a scope.        *)
ApproveSpecification(t) ==
    stage[t] = "approve" /\ Begin(t, <<"seal", "save">>, NoSession, "build")

(* requestSpecChanges, and the decisions on the opinions of the audience    *)
(* and the Product Owner that return a task: the task is saved, then its    *)
(* lane is forced free.  At the repair limit the lease goes first.          *)
RequestChanges(t, to) ==
    /\ \/ stage[t] = "approve" /\ to = "refine"
       \/ stage[t] \in {"review", "final"} /\ to \in {"refine", "active", "blocked"}
    /\ Begin(t, IF to = "blocked" THEN <<"force", "save", "remove", "lease">>
                ELSE <<"save", "remove", "lease", "force">>, NoSession, to)

(* answerQuestion, resumeTask and rejectTask: the lane is forced free       *)
(* first, and the task as it was loaded before is saved last.               *)
AnswerQuestion(t, to) ==
    /\ \/ stage[t] = "asked" /\ to = "refine"
       \/ stage[t] = "blocked" /\ to \notin {"asked", "blocked"}
    /\ Begin(t, <<"remove", "lease", "save">>, NoSession, to)

ResumeTask(t, to) ==
    /\ stage[t] = "blocked" /\ to \notin {"asked", "blocked"}
    /\ Begin(t, <<"remove", "lease", "force", "save">>, NoSession, to)

RejectTask(t) ==
    /\ stage[t] \in {"draft", "refine", "asked", "approve", "blocked"}
    /\ Begin(t, <<"remove", "lease", "force", "save">>, NoSession, "rejected")

(* closeTaskByUserOverride, from any stage.                                 *)
CloseTask(t) ==
    /\ stage[t] \notin Closed
    /\ Begin(t, <<"force", "remove", "lease", "save">>, NoSession, "done")

(* approveFinal, completeDelivery and rejectFinal, and waiveWorkflowStep,   *)
(* which ends a phase that an agent may be in: the lease is dropped, not    *)
(* the reservation, and the task as it was loaded before is saved.          *)
DecideGate(t, to) ==
    /\ \/ stage[t] = "final"
            /\ to \in {"refine", "active", "review", "final", "blocked", "done"}
       \/ stage[t] = "refine" /\ to \in {"refine", "approve"}
       \/ stage[t] = "review" /\ to \in {"review", "final"}
    /\ Begin(t, <<"force", "save">>, NoSession, to)

At(t, step) == op[t].todo # << >> /\ Head(op[t].todo) = step
Ended(o) == IF o.todo = << >> THEN NoOp ELSE o
Rest(o, n) == [o EXCEPT !.todo = SubSeq(o.todo, n + 1, Len(o.todo))]
Skip(t, n) == op' = [op EXCEPT ![t] = Ended(Rest(op[t], n))]
Stop(t) == op' = [op EXCEPT ![t] = NoOp]

(* assertTaskLease fails at a lease of another, and otherwise writes one of *)
(* this session, where one is missing too: the reservation is not asked for.*)
OpAssert(t) ==
    /\ At(t, "assert")
    /\ \/ /\ ~live[t] \/ owner[t] = op[t].by
          /\ owner' = [owner EXCEPT ![t] = op[t].by]
          /\ live' = [live EXCEPT ![t] = TRUE]
          /\ Skip(t, 1)
       \/ live[t] /\ owner[t] # op[t].by /\ Stop(t) /\ UNCHANGED leases
    /\ UNCHANGED <<tasks, plans, job, minted, spent>>

(* startExecution gives the lease back when the authority is gone.          *)
OpRecheck(t) ==
    /\ At(t, "recheck")
    /\ IF Authority(t, op[t].by) THEN Skip(t, 1) /\ UNCHANGED leases
       ELSE /\ Stop(t)
            /\ DropLeases(IF ~live[t] \/ owner[t] = op[t].by THEN {t} ELSE {})
    /\ UNCHANGED <<tasks, plans, job, minted, spent>>

OpSeal(t) ==
    /\ At(t, "seal")
    /\ \E a \in Scopes[t] : scope' = [scope EXCEPT ![t] = a]
    /\ Skip(t, 1)
    /\ UNCHANGED <<stage, hidden, tree, leases, plans, job, minted, spent>>

(* releaseConcurrencyTaskReservation under its locks.  A session removes    *)
(* only its own reservation, and nobody can while a plan is corrupt: the    *)
(* command then fails, the agent's with the task already saved.             *)
OpRemove(t) ==
    /\ At(t, "remove")
    /\ LockFree
    /\ \/ /\ AllReadable
          /\ op[t].by = NoSession \/ \A p \in Holding(t) : held[p][t] = op[t].by
          /\ held' = Without(t)
          /\ Skip(t, IF Holding(t) = {} THEN 2 ELSE 1)
       \/ /\ \/ ~AllReadable
             \/ op[t].by # NoSession /\ \E p \in Holding(t) : held[p][t] # op[t].by
          /\ Stop(t)
          /\ UNCHANGED held
    /\ UNCHANGED <<tasks, leases, plan, job, minted, spent>>

(* After the locks: a person deletes the lease, whosoever it is by now; a   *)
(* session fails at another's.                                              *)
OpLease(t) ==
    /\ At(t, "lease")
    /\ \/ /\ op[t].by = NoSession \/ ~live[t] \/ owner[t] = op[t].by
          /\ IF live[t] THEN DropLeases({t}) ELSE UNCHANGED leases
          /\ Skip(t, 1)
       \/ /\ op[t].by # NoSession /\ live[t] /\ owner[t] # op[t].by
          /\ Stop(t)
          /\ UNCHANGED leases
    /\ UNCHANGED <<tasks, plans, job, minted, spent>>

OpForce(t) ==
    /\ At(t, "force")
    /\ DropLeases({t})
    /\ Skip(t, 1)
    /\ UNCHANGED <<tasks, plans, job, minted, spent>>

OpSave(t) ==
    /\ At(t, "save")
    /\ Save(t, op[t].from, op[t].to, op[t].tree)
    /\ Skip(t, 1)
    /\ UNCHANGED <<scope, leases, plans, job, minted, spent>>

-----------------------------------------------------------------------------
(* The environment. *)

ExpireLease(t) ==
    /\ live[t]
    /\ live' = [live EXCEPT ![t] = FALSE]
    /\ UNCHANGED <<tasks, owner, plans, job, op, minted, spent>>

(* lease acquire and lease take: no reservation is asked for.               *)
OutsiderLease(t) ==
    /\ Move
    /\ owner' = [owner EXCEPT ![t] = Outsider]
    /\ live' = [live EXCEPT ![t] = TRUE]
    /\ UNCHANGED <<tasks, plans, job, op, minted, faults>>

Fault == faults < MaxFaults /\ faults' = faults + 1 /\ UNCHANGED revoked

(* A process dies in a prepare or between the steps of an operation.        *)
CrashPrepare ==
    /\ Fault
    /\ job # NoJob
    /\ job' = NoJob
    /\ UNCHANGED <<tasks, leases, plans, op, minted, moves>>

CrashOp(t) ==
    /\ Fault
    /\ op[t] # NoOp
    /\ Stop(t)
    /\ UNCHANGED <<tasks, leases, plans, job, minted, moves>>

CorruptPlan(p) ==
    /\ Fault
    /\ PlanLockFree(p)
    /\ plan[p].status = "ok"
    /\ plan' = [plan EXCEPT ![p].status = "corrupt"]
    /\ UNCHANGED <<tasks, leases, held, job, op, minted, moves>>

-----------------------------------------------------------------------------
PlanStep(p) ==
    \/ \E n \in 1 .. MaxParallel :
          \/ Refresh(p, n)
          \/ \E ids \in Candidates[p] : NewPlan(p, ids, n) \/ Replan(p, ids, n)
    \/ BeginPrepare(p)
    \/ \E force \in BOOLEAN : Cancel(p, force)
    \/ CancelCorrupt(p)
    \/ CorruptPlan(p)
    \/ \E t \in Task : \/ Heartbeat(p, t)
                       \/ \E force \in BOOLEAN : ReleaseLane(p, t, force)

WaveStep == ReserveLane \/ SaveWorktree \/ CommitWave \/ RollBackWave

OpStep(t) ==
    \/ OpAssert(t) \/ OpRecheck(t) \/ OpSeal(t) \/ OpSave(t)
    \/ OpRemove(t) \/ OpLease(t) \/ OpForce(t)

AgentStep(t, s) ==
    \/ StartRefinement(t, s) \/ StartExecution(t, s)
    \/ \E to \in Stages : CompletePhase(t, s, to) \/ BlockOrReturn(t, s, to)
    \/ Ask(t, s) \/ ExhaustRepairs(t, s) \/ StartRevision(t, s)

HumanStep(t) ==
    \/ ApproveSpecification(t) \/ RejectTask(t) \/ CloseTask(t)
    \/ \E to \in Stages : \/ RequestChanges(t, to) \/ AnswerQuestion(t, to)
                          \/ ResumeTask(t, to) \/ DecideGate(t, to)

TaskStep(t) ==
    \/ \E s \in Sessions(t) : AgentStep(t, s)
    \/ HumanStep(t)
    \/ ExpireLease(t) \/ OutsiderLease(t) \/ CrashOp(t)

Next ==
    \/ \E p \in Parent : PlanStep(p)
    \/ WaveStep
    \/ CrashPrepare
    \/ \E t \in Task : TaskStep(t) \/ OpStep(t)

Spec == Init /\ [][Next]_vars

-----------------------------------------------------------------------------
(* Properties. *)

HolderOf(t) ==
    IF Holding(t) = {} THEN NoSession ELSE held[CHOOSE p \in Holding(t) : TRUE][t]
InFlight == IF job = NoJob THEN {} ELSE {d.sid.n : d \in job.done}

(* Across all plans, prepares, replans, rollbacks, crashes and corrupt      *)
(* files, the scheduler does what Dispatch promises: one session per task,  *)
(* never handed over, never used twice, at most MaxParallel in the project. *)
Contract == INSTANCE Dispatch WITH
    holder <- [t \in Task |-> HolderOf(t)],
    used <- 1 .. minted \ InFlight
ImplementsDispatch == Contract!Spec

(* A task is never reserved in two plans at once, though each plan is kept  *)
(* in a file of its own and planned without the scheduler lock.             *)
OnePlanPerTask ==
    \A p, q \in Parent, t \in Task :
        held[p][t] # NoSession /\ held[q][t] # NoSession => p = q

(* No wave puts two writers with overlapping scopes at work in one plan,    *)
(* those included that another parent dispatched: prepareConcurrencyWave    *)
(* looks at the scopes when it selects and again when it commits.           *)
NewReservation(p, t) == held[p][t] = NoSession /\ held'[p][t] # NoSession
WavesDoNotClash ==
    [][\A p \in Parent, t, u \in Task :
          NewReservation(p, t) /\ u \in plan[p].ids /\ Holding(u)' # {}
              => ~Conflict(t, u)]_vars

(* While nothing has crashed, a live lease of a lane session stands for a   *)
(* reservation, a prepare that is running, or an operation that is about to *)
(* release the lease, unless the reservation was taken away (released by    *)
(* force, cancelled, planned anew) under an operation of the lane: that one *)
(* may acquire the lease again, finds no reservation to remove, and leaves  *)
(* the lease to run out (releaseConcurrencyTaskReservation returns at 614). *)
NoOrphanLease ==
    faults = 0 =>
        \A t \in Task \ revoked :
            live[t] /\ owner[t] \in Sid =>
                \/ \E p \in Holding(t) : held[p][t] = owner[t]
                \/ job # NoJob /\ \E d \in job.done : d = [task |-> t, sid |-> owner[t]]
                \/ At(t, "lease")

(* A plan's task set changes only when none of its reservations is held:    *)
(* "the persisted reservation remains held even if its independently        *)
(* persisted task lease expires".                                           *)
ReplanKeepsReservations ==
    [][\A p \in Parent :
          plan[p].status = "ok" /\ plan'[p].status = "ok" /\ plan'[p].ids # plan[p].ids
              => \A t \in Task : held[p][t] = NoSession]_vars

(* No step of a prepare takes a task from behind a human gate: "a stale     *)
(* ready decision cannot be committed after a product/workflow transition". *)
GatesStand ==
    [][\A t \in Task : stage[t] \in Gates \cup Closed /\ job # NoJob /\ job' # job
          => stage'[t] = stage[t]]_vars
=============================================================================
