--------------------- MODULE ConcurrencySchedulerProofs ---------------------
(***************************************************************************)
(* What holds of ConcurrencyScheduler for every set of tasks and parents,  *)
(* every way to plan them and every limit: its types, that no task is      *)
(* reserved in two plans, that it implements Dispatch, that no wave sets   *)
(* two writers on one scope, and when a lane's lease stands for something. *)
(***************************************************************************)
EXTENDS ConcurrencyScheduler, FiniteSetTheorems, SequenceTheorems,
        WellFoundedInduction, TLAPS

-----------------------------------------------------------------------------
(* Lemmas about the operators. *)

(* A set of tasks that is not empty has a least member, and Least returns   *)
(* it: the lane that a prepare takes next is one of the lanes to do.        *)
LEMMA LeastMember ==
    ASSUME NEW S \in SUBSET Task, S # {}
    PROVE  Least(S) \in S
<1> DEFINE Below == {pair \in Nat \X Nat : pair[1] < pair[2]}
<1>1. S \subseteq Nat
  BY TaskAssumption
<1>2. IsWellFoundedOn(Below, Nat)
  BY NatLessThanWellFounded, Zenon DEF OpToRel
<1>3. \E x \in S : \A y \in S : ~ (<<y, x>> \in Below)
  <2> HIDE DEF Below
  <2> QED
    BY <1>1, <1>2, WFMin
<1>4. \A x, y \in Nat : <<y, x>> \notin Below => x <= y
  OBVIOUS
<1>5. \E x \in S : \A y \in S : x <= y
  <2> HIDE DEF Below
  <2> QED
    BY <1>1, <1>3, <1>4
<1> QED
  BY <1>5 DEF Least

(* A lane that is ready has a free task: no plan at all reserves it.        *)
LEMMA ReadyIsUnheld ==
    ASSUME NEW p \in Parent, NEW t \in Ready(p)
    PROVE  /\ held[p][t] = NoSession
           /\ Holding(t) \subseteq {p}
           /\ t \in plan[p].ids
<1>1. t \in plan[p].ids /\ LaneState(p, held[p], t) = "ready"
  BY DEF Ready
<1>2. LaneSessions(p, held[p], t) = {}
  BY <1>1 DEF LaneState
<1>3. held[p][t] = NoSession
  BY <1>2 DEF LaneSessions
<1>4. Foreign(p, t) = {}
  BY <1>2, <1>3 DEF LaneSessions
<1> QED
  BY <1>1, <1>3, <1>4 DEF Foreign

-----------------------------------------------------------------------------
(* Types. *)

Scope == UNION {Scopes[t] : t \in Task}
TasksOK == /\ stage \in [Task -> Stages] /\ hidden \in [Task -> SUBSET Files]
           /\ scope \in [Task -> Scope] /\ tree \in [Task -> BOOLEAN]
LeasesOK == owner \in [Task -> Sid \cup {Outsider, NoSession}] /\ live \in [Task -> BOOLEAN]
Plans == [status : {"none", "ok", "corrupt"}, ids : SUBSET Task, limit : 1 .. MaxParallel]
PlansOK == plan \in [Parent -> Plans] /\ held \in [Parent -> [Task -> Sid \cup {NoSession}]]
HeldInPlan ==
    \A p \in Parent : /\ plan[p].status = "none" => plan[p].ids = {}
                      /\ \A t \in Task : held[p][t] # NoSession => t \in plan[p].ids
JobOK == job \in Jobs \cup {NoJob}
OpsOK == op \in [Task -> Ops]
CountsOK == /\ minted \in 0 .. MaxSessions /\ moves \in 0 .. MaxMoves
            /\ faults \in 0 .. MaxFaults /\ revoked \subseteq Task

(* A prepare works on the plan it has locked, and its lanes are lanes of    *)
(* that plan.                                                               *)
DoneTasks == {d.task : d \in job.done}
JobFits ==
    job # NoJob =>
        /\ plan[job.parent].status = "ok"
        /\ job.todo \cup DoneTasks \subseteq plan[job.parent].ids
        /\ minted + Cardinality(job.todo) <= MaxSessions

TypeInv == /\ TasksOK /\ LeasesOK /\ PlansOK /\ HeldInPlan
           /\ JobOK /\ OpsOK /\ CountsOK /\ JobFits

LEMMA TypesByPart == TypeInv => TypeOK
BY DEF TypeInv, TypeOK, TasksOK, LeasesOK, PlansOK, HeldInPlan, JobOK, OpsOK, CountsOK, Plans, Scope

LEMMA InitTypes == Init => TypeInv
<1> SUFFICES ASSUME Init PROVE TypeInv
  OBVIOUS
<1>1. TasksOK
  BY DEF Init, TasksOK, Scope
<1>2. LeasesOK
  BY DEF Init, LeasesOK
<1>3. PlansOK
  BY ParallelAssumption DEF Init, PlansOK, Plans, NoPlan
<1>4. HeldInPlan
  BY DEF Init, HeldInPlan, NoPlan
<1>5. OpsOK
  <2>1. << >> \in Seq({"assert", "recheck", "seal", "save", "remove", "lease", "force"})
    OBVIOUS
  <2> QED
    BY <2>1 DEF Init, OpsOK, Ops, NoOp, Stages
<1>6. CountsOK
  BY BoundAssumption DEF Init, CountsOK
<1> QED
  BY <1>1, <1>2, <1>3, <1>4, <1>5, <1>6 DEF Init, JobOK, JobFits, TypeInv

(* Saving a task, from whatever copy, leaves it a file of a known stage,    *)
(* and the other files are files.                                           *)
LEMMA SaveTypes ==
    ASSUME TasksOK, NEW t \in Task, NEW from \in Stages, NEW to \in Stages,
           NEW worktree \in BOOLEAN, Save(t, from, to, worktree), scope' \in [Task -> Scope]
    PROVE  TasksOK'
<1> DEFINE files == {f \in hidden[t] \cup {[stage |-> stage[t], tree |-> tree[t]]} :
                       Folder(f.stage) \notin {Folder(from), Folder(to)}}
                    \cup {[stage |-> to, tree |-> worktree]}
<1>1. files \subseteq Files
  <2>1. [stage |-> stage[t], tree |-> tree[t]] \in Files
    BY DEF TasksOK, Files
  <2>2. [stage |-> to, tree |-> worktree] \in Files
    BY DEF Files
  <2>3. hidden[t] \subseteq Files
    BY DEF TasksOK
  <2> QED
    BY <2>1, <2>2, <2>3
<1>2. PICK first \in files : /\ stage' = [stage EXCEPT ![t] = first.stage]
                            /\ tree' = [tree EXCEPT ![t] = first.tree]
                            /\ hidden' = [hidden EXCEPT ![t] = files \ {first}]
  BY DEF Save
<1> HIDE DEF files
<1>3. first.stage \in Stages /\ first.tree \in BOOLEAN
  BY <1>1, <1>2 DEF Files
<1> QED
  BY <1>1, <1>2, <1>3 DEF TasksOK

(* A step on the plan file of p keeps the types: who is planned, reserved.  *)
LEMMA PlanStepTypes ==
    ASSUME NEW p \in Parent, TypeInv, PlanStep(p)
    PROVE  TypeInv'
<1>1. TasksOK /\ LeasesOK /\ PlansOK /\ HeldInPlan /\ JobOK /\ OpsOK /\ CountsOK /\ JobFits
  BY DEF TypeInv
<1>2. job # NoJob => job.parent \in Parent
  BY <1>1 DEF JobOK, Jobs
<1>3. ASSUME NEW S \in SUBSET Task, DropLeases(S) PROVE LeasesOK'
  BY <1>1, <1>3 DEF LeasesOK, DropLeases
<1>4. NoPlan \in Plans
  BY ParallelAssumption DEF NoPlan, Plans
<1>5. ASSUME NEW n \in 1 .. MaxParallel, Refresh(p, n) PROVE TypeInv'
  <2>1. PlansOK' /\ HeldInPlan'
    BY <1>1, <1>5 DEF Refresh, PlansOK, Plans, HeldInPlan
  <2>2. JobFits'
    BY <1>1, <1>5, <1>2 DEF Refresh, PlansOK, Plans, JobFits, DoneTasks, PlanLockFree
  <2> QED
    BY <1>1, <1>5, <2>1, <2>2
    DEF Refresh, tasks, leases, spent, TypeInv, TasksOK, LeasesOK, JobOK, OpsOK, CountsOK
<1>6. ASSUME NEW n \in 1 .. MaxParallel, NEW ids \in Candidates[p], NewPlan(p, ids, n)
      PROVE  TypeInv'
  <2>1. ids \subseteq Task
    BY CandidatesAssumption
  <2>2. PlansOK'
    BY <1>1, <1>6, <2>1 DEF NewPlan, PlansOK, Plans
  <2>3. HeldInPlan'
    BY <1>1, <1>6 DEF NewPlan, PlansOK, Plans, HeldInPlan
  <2>4. JobFits'
    BY <1>1, <1>6, <1>2 DEF NewPlan, PlansOK, Plans, JobFits, DoneTasks, PlanLockFree
  <2> QED
    BY <1>1, <1>6, <2>2, <2>3, <2>4
    DEF NewPlan, tasks, leases, spent, TypeInv, TasksOK, LeasesOK, JobOK, OpsOK, CountsOK
<1>7. ASSUME NEW n \in 1 .. MaxParallel, NEW ids \in Candidates[p], Replan(p, ids, n)
      PROVE  TypeInv'
  <2>1. ids \subseteq Task
    BY CandidatesAssumption
  <2>2. PlansOK'
    BY <1>1, <1>7, <2>1 DEF Replan, None, PlansOK, Plans
  <2>3. HeldInPlan'
    BY <1>1, <1>7 DEF Replan, None, PlansOK, Plans, HeldInPlan
  <2>4. JobFits'
    BY <1>1, <1>7, <1>2 DEF Replan, PlansOK, Plans, JobFits, DoneTasks, PlanLockFree
  <2>5. CountsOK'
    BY <1>1, <1>7 DEF Replan, Revoke, CountsOK
  <2> QED
    BY <1>1, <1>7, <2>2, <2>3, <2>4, <2>5
    DEF Replan, tasks, leases, TypeInv, TasksOK, LeasesOK, JobOK, OpsOK
<1>8. ASSUME NEW force \in BOOLEAN, Cancel(p, force) PROVE TypeInv'
  <2>1. PlansOK'
    BY <1>1, <1>4, <1>8 DEF Cancel, None, PlansOK
  <2>2. HeldInPlan'
    BY <1>1, <1>8 DEF Cancel, None, NoPlan, PlansOK, HeldInPlan
  <2>3. LeasesOK'
    BY <1>3, <1>8 DEF Cancel
  <2>4. JobFits'
    BY <1>8 DEF Cancel, JobFits, LockFree
  <2>5. CountsOK'
    BY <1>1, <1>8 DEF Cancel, Revoke, CountsOK
  <2> QED
    BY <1>1, <1>8, <2>1, <2>2, <2>3, <2>4, <2>5
    DEF Cancel, tasks, TypeInv, TasksOK, JobOK, OpsOK
<1>9. ASSUME CancelCorrupt(p) PROVE TypeInv'
  <2>1. PlansOK'
    BY <1>1, <1>4, <1>9 DEF CancelCorrupt, None, PlansOK
  <2>2. HeldInPlan'
    BY <1>1, <1>9 DEF CancelCorrupt, None, NoPlan, PlansOK, HeldInPlan
  <2>3. LeasesOK'
    BY <1>3, <1>9 DEF CancelCorrupt
  <2>4. JobFits'
    BY <1>9 DEF CancelCorrupt, JobFits, LockFree
  <2> QED
    BY <1>1, <1>9, <2>1, <2>2, <2>3, <2>4
    DEF CancelCorrupt, tasks, spent, TypeInv, TasksOK, JobOK, OpsOK, CountsOK
<1>10. ASSUME CorruptPlan(p) PROVE TypeInv'
  <2>1. PlansOK' /\ HeldInPlan'
    BY <1>1, <1>10 DEF CorruptPlan, PlansOK, Plans, HeldInPlan
  <2>2. JobFits'
    BY <1>1, <1>10, <1>2 DEF CorruptPlan, PlansOK, Plans, JobFits, DoneTasks, PlanLockFree
  <2>3. CountsOK'
    BY <1>1, <1>10, BoundAssumption DEF CorruptPlan, Fault, CountsOK
  <2> QED
    BY <1>1, <1>10, <2>1, <2>2, <2>3
    DEF CorruptPlan, tasks, leases, TypeInv, TasksOK, LeasesOK, JobOK, OpsOK
<1>11. ASSUME NEW t \in Task, Heartbeat(p, t) PROVE TypeInv'
  <2>1. LeasesOK'
    BY <1>1, <1>11 DEF Heartbeat, LeasesOK, PlansOK
  <2>2. JobFits'
    BY <1>11 DEF Heartbeat, JobFits, LockFree
  <2> QED
    BY <1>1, <1>11, <2>1, <2>2
    DEF Heartbeat, tasks, plans, spent, TypeInv, TasksOK, PlansOK, HeldInPlan, JobOK, OpsOK, CountsOK
<1>12. ASSUME NEW t \in Task, NEW force \in BOOLEAN, ReleaseLane(p, t, force) PROVE TypeInv'
  <2>1. PlansOK' /\ HeldInPlan'
    BY <1>1, <1>12 DEF ReleaseLane, PlansOK, HeldInPlan
  <2>2. LeasesOK'
    BY <1>3, <1>12 DEF ReleaseLane
  <2>3. JobFits'
    BY <1>12 DEF ReleaseLane, JobFits, LockFree
  <2>4. CountsOK'
    BY <1>1, <1>12 DEF ReleaseLane, Revoke, CountsOK
  <2> QED
    BY <1>1, <1>12, <2>1, <2>2, <2>3, <2>4
    DEF ReleaseLane, tasks, TypeInv, TasksOK, JobOK, OpsOK
<1>13. ASSUME BeginPrepare(p) PROVE TypeInv'
  <2>0. PICK S \in (SUBSET plan[p].ids) \ {{}} :
           /\ minted + Cardinality(S) <= MaxSessions
           /\ \E wave \in {S, {Least(S)}} :
                job' = [at |-> "lanes", parent |-> p, todo |-> wave, done |-> {},
                        made |-> {}, stage |-> stage, scope |-> scope,
                        task |-> Least(S), copy |-> "draft"]
    BY <1>13 DEF BeginPrepare
  <2>1. PICK wave \in {S, {Least(S)}} :
           job' = [at |-> "lanes", parent |-> p, todo |-> wave, done |-> {},
                      made |-> {}, stage |-> stage, scope |-> scope,
                      task |-> Least(S), copy |-> "draft"]
    BY <2>0
  <2>2. S \subseteq Task /\ S # {} /\ plan[p].ids \subseteq Task
    <3>1. plan[p].ids \subseteq Task
      BY <1>1 DEF PlansOK, Plans
    <3> QED
      BY <3>1
  <2>3. Least(S) \in S /\ wave \subseteq S
    BY <2>2, LeastMember
  <2>4. JobOK'
    <3>1. stage \in [Task -> Stages] /\ scope \in [Task -> UNION {Scopes[t] : t \in Task}]
      BY <1>1 DEF TasksOK, Scope
    <3>2. "draft" \in Stages
      BY DEF Stages
    <3> QED
      BY <2>1, <2>2, <2>3, <3>1, <3>2 DEF JobOK, Jobs
  <2>5. Cardinality(wave) <= Cardinality(S) /\ Cardinality(S) \in Nat /\ Cardinality(wave) \in Nat
    <3>1. IsFiniteSet(S) /\ IsFiniteSet(wave)
      BY <2>2, <2>3, TaskAssumption, FS_Subset
    <3> QED
      BY <2>3, <3>1, FS_Subset, FS_CardinalityType
  <2>6. JobFits'
    <3>1. plan' = plan /\ minted' = minted
      BY <1>13 DEF BeginPrepare, plans
    <3>2. plan[p].status = "ok"
      BY <1>13 DEF BeginPrepare
    <3>3. job'.parent = p /\ job'.todo = wave /\ DoneTasks' = {}
      BY <2>1 DEF DoneTasks
    <3>4. minted + Cardinality(wave) <= MaxSessions
      BY <1>1, <2>0, <2>5, BoundAssumption DEF CountsOK
    <3> QED
      BY <2>3, <3>1, <3>2, <3>3, <3>4 DEF JobFits
  <2> QED
    BY <1>1, <1>13, <2>4, <2>6
    DEF BeginPrepare, tasks, leases, plans, spent, TypeInv,
        TasksOK, LeasesOK, PlansOK, HeldInPlan, OpsOK, CountsOK
<1> QED
  BY <1>5, <1>6, <1>7, <1>8, <1>9, <1>10, <1>11, <1>12, <1>13 DEF PlanStep

(* A step of a prepare keeps the types.  Each lane it reserves is one of    *)
(* those to do, under a session number that was still free.                 *)
LEMMA WaveStepTypes ==
    ASSUME TypeInv, WaveStep
    PROVE  TypeInv'
<1>1. TasksOK /\ LeasesOK /\ PlansOK /\ HeldInPlan /\ JobOK /\ OpsOK /\ CountsOK /\ JobFits
  BY DEF TypeInv
<1>2. job \in Jobs /\ job # NoJob
  <2>1. job.at \in {"lanes", "tree"}
    BY DEF WaveStep, ReserveLane, SaveWorktree, CommitWave, RollBackWave
  <2>2. job # NoJob
    BY <2>1 DEF NoJob
  <2> QED
    BY <1>1, <2>2 DEF JobOK
<1>3. /\ job.parent \in Parent /\ job.todo \subseteq Task /\ job.task \in Task
      /\ job.copy \in Stages /\ job.done \subseteq [task : Task, sid : Sid]
      /\ job.made \subseteq Task
  BY <1>2 DEF Jobs
<1>4. ASSUME ReserveLane PROVE TypeInv'
  <2> DEFINE t == Least(job.todo)
             s == [parent |-> job.parent, n |-> minted + 1]
  <2>1. t \in job.todo /\ t \in Task
    BY <1>3, <1>4, LeastMember DEF ReserveLane
  <2>2. IsFiniteSet(job.todo) /\ Cardinality(job.todo) \in Nat
    BY <1>3, TaskAssumption, FS_Subset, FS_CardinalityType
  <2>3. Cardinality(job.todo) >= 1 /\ Cardinality(job.todo \ {t}) = Cardinality(job.todo) - 1
    BY <2>1, <2>2, FS_RemoveElement, FS_EmptySet
  <2>4. minted + 1 \in 1 .. MaxSessions
    BY <1>1, <1>2, <2>2, <2>3, BoundAssumption DEF JobFits, CountsOK
  <2>5. s \in Sid
    BY <1>3, <2>4 DEF Sid
  <2>6. LeasesOK'
    BY <1>1, <1>4, <2>1, <2>5 DEF ReserveLane, LeasesOK
  <2>7. job' \in Jobs /\ job'.parent = job.parent /\ job'.todo = job.todo \ {t}
           /\ job'.done = job.done \cup {[task |-> t, sid |-> s]}
    <3>1. stage[t] \in Stages
      BY <1>1, <2>1 DEF TasksOK
    <3> DEFINE todo == job.todo \ {t}
               done == job.done \cup {[task |-> t, sid |-> s]}
               place == IF IsolatedWrite(t) /\ ~tree[t] THEN "tree" ELSE "lanes"
    <3>2. job' = [job EXCEPT !.todo = todo, !.done = done, !.at = place,
                             !.task = t, !.copy = stage[t]]
      BY <1>4 DEF ReserveLane
    <3>3. todo \subseteq Task /\ done \subseteq [task : Task, sid : Sid]
      <4> HIDE DEF t, s
      <4> QED
        BY <1>3, <2>1, <2>5
    <3>4. place \in {"lanes", "tree"}
      OBVIOUS
    <3>5. job' \in Jobs /\ job'.parent = job.parent /\ job'.todo = todo /\ job'.done = done
      <4> HIDE DEF t, s, todo, done, place
      <4> QED
        BY <1>2, <2>1, <3>1, <3>2, <3>3, <3>4 DEF Jobs
    <3> QED
      BY <3>5
  <2>8. JobFits'
    <3>1. plan' = plan /\ minted' = minted + 1
      BY <1>4 DEF ReserveLane, plans
    <3>2. DoneTasks' \subseteq DoneTasks \cup {t}
      BY <2>7 DEF DoneTasks
    <3>3. minted' + Cardinality(job'.todo) <= MaxSessions
      BY <1>1, <1>2, <2>2, <2>3, <2>7, <3>1, BoundAssumption DEF JobFits, CountsOK
    <3> QED
      BY <1>1, <1>2, <2>1, <2>7, <3>1, <3>2, <3>3 DEF JobFits
  <2> QED
    BY <1>1, <1>4, <2>4, <2>6, <2>7, <2>8
    DEF ReserveLane, tasks, plans, spent, TypeInv, TasksOK, PlansOK, HeldInPlan,
        JobOK, OpsOK, CountsOK
<1>5. ASSUME SaveWorktree PROVE TypeInv'
  <2>1. TasksOK'
    <3>1. job.task \in Task /\ job.copy \in Stages
      BY <1>2, <1>3, <1>5 DEF SaveWorktree, Jobs
    <3>2. Save(job.task, job.copy, job.copy, TRUE) /\ scope' \in [Task -> Scope]
      BY <1>1, <1>5 DEF SaveWorktree, TasksOK
    <3> QED
      BY <1>1, <3>1, <3>2, SaveTypes
  <2>2. job' \in Jobs /\ job'.parent = job.parent /\ job'.todo = job.todo /\ job'.done = job.done
    <3>1. job' = [job EXCEPT !.at = "lanes", !.made = job.made \cup {job.task}]
      BY <1>5 DEF SaveWorktree
    <3> QED
      BY <1>2, <1>3, <3>1 DEF Jobs
  <2>3. JobFits'
    BY <1>1, <1>2, <1>5, <2>2 DEF SaveWorktree, plans, JobFits, DoneTasks
  <2> QED
    BY <1>1, <1>5, <2>1, <2>2, <2>3
    DEF SaveWorktree, leases, plans, spent, TypeInv, LeasesOK, PlansOK, HeldInPlan,
        JobOK, OpsOK, CountsOK
<1>6. ASSUME CommitWave PROVE TypeInv'
  <2>1. ASSUME NEW t \in Task
        PROVE  /\ Reservations[t] \in Sid \cup {NoSession}
               /\ Reservations[t] # NoSession => t \in plan[job.parent].ids
    <3>1. CASE \E d \in job.done : d.task = t
      <4>1. (CHOOSE d \in job.done : d.task = t) \in job.done
        BY <3>1
      <4>2. t \in DoneTasks
        BY <3>1 DEF DoneTasks
      <4> QED
        BY <1>1, <1>2, <1>3, <2>1, <3>1, <4>1, <4>2 DEF Reservations, JobFits
    <3>2. CASE ~ \E d \in job.done : d.task = t
      BY <1>1, <1>3, <2>1, <3>2 DEF Reservations, PlansOK, HeldInPlan
    <3> QED
      BY <3>1, <3>2
  <2>2. Reservations \in [Task -> Sid \cup {NoSession}]
    <3>1. Reservations = [t \in Task |-> Reservations[t]]
      BY DEF Reservations
    <3> HIDE DEF Reservations
    <3> QED
      BY <2>1, <3>1
  <2>3. held' = [held EXCEPT ![job.parent] = Reservations] /\ plan' = plan
    BY <1>6 DEF CommitWave
  <2>4. PlansOK' /\ HeldInPlan'
    BY <1>1, <1>3, <2>1, <2>2, <2>3 DEF PlansOK, HeldInPlan
  <2>5. JobFits'
    BY <1>6 DEF CommitWave, JobFits
  <2> QED
    BY <1>1, <1>6, <2>4, <2>5
    DEF CommitWave, tasks, leases, spent, TypeInv, TasksOK, LeasesOK, JobOK, OpsOK, CountsOK
<1>7. ASSUME RollBackWave PROVE TypeInv'
  <2>1. TasksOK'
    BY <1>1, <1>7 DEF RollBackWave, TasksOK
  <2>2. LeasesOK'
    BY <1>1, <1>7 DEF RollBackWave, DropLeases, LeasesOK
  <2>3. JobFits'
    BY <1>7 DEF RollBackWave, JobFits
  <2> QED
    BY <1>1, <1>7, <2>1, <2>2, <2>3
    DEF RollBackWave, plans, spent, TypeInv, PlansOK, HeldInPlan, JobOK, OpsOK, CountsOK
<1> QED
  BY <1>4, <1>5, <1>6, <1>7 DEF WaveStep

(* An operation of the workflow is one of a few scripts.  In each a         *)
(* reservation that is removed has its lease released next, and no lease is *)
(* acquired after that.                                                     *)
Steps == {"assert", "recheck", "seal", "save", "remove", "lease", "force"}
Paired(todo) ==
    \A i \in 1 .. Len(todo) :
        todo[i] = "remove" => /\ i < Len(todo) /\ todo[i + 1] = "lease"
                              /\ \A j \in i + 1 .. Len(todo) : todo[j] # "assert"
Good(steps) == steps \in Seq(Steps) /\ Paired(steps)

LEMMA ScriptsGood ==
    /\ Good(<< >>) /\ Good(<<"save">>) /\ Good(<<"force", "save">>) /\ Good(<<"seal", "save">>)
    /\ Good(<<"remove", "lease">>) /\ Good(<<"save", "remove", "lease">>)
    /\ Good(<<"seal", "save", "remove", "lease">>)
    /\ Good(<<"save", "remove", "lease", "force">>)
    /\ Good(<<"force", "save", "remove", "lease">>)
    /\ Good(<<"remove", "lease", "save">>) /\ Good(<<"remove", "lease", "force", "save">>)
    /\ Good(<<"force", "remove", "lease", "save">>)
    /\ Good(<<"assert", "recheck", "save">>)
    /\ Good(<<"assert", "recheck", "assert", "save">>)
<1>1. Good(<< >>) /\ Good(<<"save">>) /\ Good(<<"force", "save">>) /\ Good(<<"seal", "save">>)
  BY DEF Good, Paired, Steps
<1>2. Good(<<"remove", "lease">>) /\ Good(<<"save", "remove", "lease">>)
  BY DEF Good, Paired, Steps
<1>3. Good(<<"seal", "save", "remove", "lease">>)
  BY DEF Good, Paired, Steps
<1>4. Good(<<"save", "remove", "lease", "force">>)
  BY DEF Good, Paired, Steps
<1>5. Good(<<"force", "save", "remove", "lease">>)
  BY DEF Good, Paired, Steps
<1>6. Good(<<"remove", "lease", "save">>)
  BY DEF Good, Paired, Steps
<1>7. Good(<<"remove", "lease", "force", "save">>)
  BY DEF Good, Paired, Steps
<1>8. Good(<<"force", "remove", "lease", "save">>)
  BY DEF Good, Paired, Steps
<1>9. Good(<<"assert", "recheck", "save">>)
  BY DEF Good, Paired, Steps
<1>10. Good(<<"assert", "recheck", "assert", "save">>)
  BY DEF Good, Paired, Steps
<1> QED
  BY <1>1, <1>2, <1>3, <1>4, <1>5, <1>6, <1>7, <1>8, <1>9, <1>10

LEMMA AssertFirst == ASSUME NEW steps, Good(steps) PROVE Good(<<"assert">> \o steps)
<1> DEFINE one == <<"assert">>
           all == one \o steps
<1>1. one \in Seq(Steps) /\ Len(one) = 1 /\ one[1] = "assert"
  BY DEF Steps
<1>2. steps \in Seq(Steps) /\ Paired(steps) /\ Len(steps) \in Nat
  BY DEF Good
<1> HIDE DEF one
<1>3. /\ Len(all) = Len(one) + Len(steps)
      /\ \A i \in 1 .. Len(one) + Len(steps) :
            all[i] = IF i <= Len(one) THEN one[i] ELSE steps[i - Len(one)]
  BY <1>1, <1>2, ConcatProperties, Zenon
<1>4. all \in Seq(Steps)
  BY <1>1, <1>2
<1> HIDE DEF all
<1>5. /\ Len(all) = 1 + Len(steps) /\ all[1] = "assert"
      /\ \A i \in 1 .. Len(steps) : all[i + 1] = steps[i]
  BY <1>1, <1>2, <1>3
<1>6. ASSUME NEW i \in 1 .. Len(all), all[i] = "remove"
      PROVE  /\ i < Len(all) /\ all[i + 1] = "lease"
             /\ \A j \in i + 1 .. Len(all) : all[j] # "assert"
  <2>1. PICK k \in 1 .. Len(steps) : i = k + 1
    <3>1. i # 1
      BY <1>5, <1>6
    <3>2. i - 1 \in 1 .. Len(steps) /\ i = (i - 1) + 1
      BY <1>2, <1>5, <3>1
    <3> QED
      BY <3>2
  <2>2. /\ steps[k] = "remove" /\ k < Len(steps) /\ steps[k + 1] = "lease"
        /\ \A j \in k + 1 .. Len(steps) : steps[j] # "assert"
    BY <1>2, <1>5, <1>6, <2>1 DEF Paired
  <2>3. ASSUME NEW j \in i + 1 .. Len(all) PROVE all[j] # "assert"
    <3>1. PICK m \in k + 1 .. Len(steps) : j = m + 1
      <4>1. j - 1 \in k + 1 .. Len(steps) /\ j = (j - 1) + 1
        BY <1>2, <1>5, <2>1, <2>3
      <4> QED
        BY <4>1
    <3> QED
      BY <1>2, <1>5, <2>2, <3>1
  <2>4. i < Len(all) /\ all[i + 1] = "lease"
    BY <1>2, <1>5, <2>1, <2>2
  <2> QED
    BY <2>3, <2>4
<1>7. Paired(all)
  BY <1>6 DEF Paired
<1>8. Good(all)
  BY <1>4, <1>7 DEF Good
<1> QED
  BY <1>8 DEF all, one

LEMMA ScriptGood == ASSUME NEW s, NEW steps, Good(steps) PROVE Good(Script(s, steps))
BY AssertFirst DEF Script

LEMMA EndingsGood == ASSUME NEW to, NEW steps \in Endings(to) PROVE Good(steps)
BY ScriptsGood DEF Endings

LEMMA StageNames ==
    /\ "refine" \in Stages /\ "asked" \in Stages /\ "active" \in Stages /\ "build" \in Stages
    /\ "blocked" \in Stages /\ "rejected" \in Stages /\ "done" \in Stages
    /\ "draft" \in Stages /\ "approve" \in Stages
BY DEF Stages

(* Every command of an agent begins an operation it has the authority for,  *)
(* and every decision of a person one for nobody's session.                 *)
LEMMA AgentBegins ==
    ASSUME TasksOK, NEW t \in Task, NEW s, AgentStep(t, s)
    PROVE  /\ Authority(t, s)
           /\ \E steps, to : Good(steps) /\ to \in Stages /\ Begin(t, steps, s, to)
<1>a. ASSUME NEW steps, NEW to \in Stages, Good(steps), Begin(t, steps, s, to)
      PROVE  \E x, y : Good(x) /\ y \in Stages /\ Begin(t, x, s, y)
  BY <1>a
<1>b. ASSUME NEW steps, NEW to \in Stages, Good(steps), Begin(t, Script(s, steps), s, to)
      PROVE  \E x, y : Good(x) /\ y \in Stages /\ Begin(t, x, s, y)
  BY <1>b, ScriptGood
<1>c. ASSUME NEW steps, NEW to \in Stages, Good(steps), Begin(t, <<"assert">> \o steps, s, to)
      PROVE  \E x, y : Good(x) /\ y \in Stages /\ Begin(t, x, s, y)
  BY <1>c, AssertFirst
<1>1. CASE StartRefinement(t, s)
  BY <1>1, <1>a, <1>b, ScriptsGood, StageNames DEF StartRefinement
<1>2. CASE StartExecution(t, s)
  <2>1. Begin(t, <<"assert", "recheck", "save">>, s, "active")
          \/ Begin(t, <<"assert", "recheck", "assert", "save">>, s, "active")
    BY <1>2 DEF StartExecution
  <2> QED
    BY <1>2, <1>a, <2>1, ScriptsGood, StageNames DEF StartExecution
<1>3. ASSUME NEW to \in Stages, CompletePhase(t, s, to)
      PROVE  /\ Authority(t, s)
             /\ \E x, y : Good(x) /\ y \in Stages /\ Begin(t, x, s, y)
  <2>1. PICK steps \in Endings(to) : \/ Begin(t, Script(s, steps), s, to)
                                     \/ Begin(t, <<"assert">> \o steps, s, to)
    BY <1>3 DEF CompletePhase
  <2>2. Good(steps)
    BY EndingsGood
  <2> QED
    BY <1>3, <1>b, <1>c, <2>1, <2>2 DEF CompletePhase
<1>4. ASSUME NEW to \in Stages, BlockOrReturn(t, s, to)
      PROVE  /\ Authority(t, s)
             /\ \E x, y : Good(x) /\ y \in Stages /\ Begin(t, x, s, y)
  BY <1>4, <1>b, ScriptsGood DEF BlockOrReturn
<1>5. CASE Ask(t, s)
  <2>1. stage[t] \in Stages /\ Questioned(stage[t]) \in Stages
    BY StageNames DEF TasksOK, Questioned
  <2> QED
    BY <1>5, <1>b, <2>1, ScriptsGood DEF Ask
<1>6. CASE ExhaustRepairs(t, s)
  BY <1>6, <1>b, ScriptsGood, StageNames DEF ExhaustRepairs
<1>7. CASE StartRevision(t, s)
  BY <1>7, <1>b, ScriptsGood, StageNames DEF StartRevision
<1> QED
  BY <1>1, <1>2, <1>3, <1>4, <1>5, <1>6, <1>7 DEF AgentStep

LEMMA HumanBegins ==
    ASSUME NEW t \in Task, HumanStep(t)
    PROVE  \E steps, to : Good(steps) /\ to \in Stages /\ Begin(t, steps, NoSession, to)
<1>1. CASE ApproveSpecification(t)
  BY <1>1, ScriptsGood, StageNames DEF ApproveSpecification
<1>2. CASE RejectTask(t) \/ CloseTask(t)
  BY <1>2, ScriptsGood, StageNames DEF RejectTask, CloseTask
<1>3. ASSUME NEW to \in Stages, RequestChanges(t, to)
      PROVE  \E steps, y : Good(steps) /\ y \in Stages /\ Begin(t, steps, NoSession, y)
  BY <1>3, ScriptsGood DEF RequestChanges
<1>4. ASSUME NEW to \in Stages, AnswerQuestion(t, to) \/ ResumeTask(t, to) \/ DecideGate(t, to)
      PROVE  \E steps, y : Good(steps) /\ y \in Stages /\ Begin(t, steps, NoSession, y)
  BY <1>4, ScriptsGood DEF AnswerQuestion, ResumeTask, DecideGate
<1> QED
  BY <1>1, <1>2, <1>3, <1>4 DEF HumanStep

LEMMA NoOpTypes == NoOp \in Ops
<1>1. << >> \in Seq(Steps)
  BY ScriptsGood DEF Good
<1> QED
  BY <1>1, StageNames DEF NoOp, Ops, Steps

LEMMA StopTypes == ASSUME OpsOK, NEW t \in Task, Stop(t) PROVE OpsOK'
BY NoOpTypes DEF Stop, OpsOK

(* What is left of a script is a script.                                   *)
LEMMA SkipTypes == ASSUME OpsOK, NEW t \in Task, NEW n \in {1, 2}, Skip(t, n) PROVE OpsOK'
<1> DEFINE rest == SubSeq(op[t].todo, n + 1, Len(op[t].todo))
           o == Rest(op[t], n)
<1>1. op[t] \in Ops /\ op[t].todo \in Seq(Steps)
  BY DEF OpsOK, Ops, Steps
<1>2. rest \in Seq(Steps)
  <2>1. \A i \in n + 1 .. Len(op[t].todo) : op[t].todo[i] \in Steps
    BY <1>1
  <2>2. Len(op[t].todo) \in Int /\ n + 1 \in Int
    BY <1>1
  <2> QED
    BY <2>1, <2>2, SubSeqProperties
<1>r. o = [op[t] EXCEPT !.todo = rest]
  BY DEF Rest
<1>3. o \in Ops
  <2> HIDE DEF rest, o
  <2> QED
    BY <1>1, <1>2, <1>r DEF Ops, Steps
<1>4. NoOp \in Ops
  BY NoOpTypes
<1>5. Ended(o) \in Ops
  <2> HIDE DEF o
  <2> QED
    BY <1>3, <1>4 DEF Ended
<1>6. op' = [op EXCEPT ![t] = Ended(o)]
  BY DEF Skip
<1> QED
  <2> HIDE DEF o
  <2> QED
    BY <1>5, <1>6 DEF OpsOK

(* A move leaves the plans and the prepare alone and is counted.            *)
LEMMA MoveTypes ==
    ASSUME TypeInv, UNCHANGED <<plans, job, minted>>
    PROVE  /\ PlansOK' /\ HeldInPlan' /\ JobOK' /\ JobFits'
           /\ Move /\ UNCHANGED faults => CountsOK'
<1>1. PlansOK' /\ HeldInPlan' /\ JobOK' /\ JobFits'
  BY DEF TypeInv, plans, PlansOK, HeldInPlan, JobOK, JobFits, DoneTasks
<1>2. Move /\ UNCHANGED faults => CountsOK'
  BY BoundAssumption DEF TypeInv, Move, CountsOK
<1> QED
  BY <1>1, <1>2

(* A command that begins an operation keeps the types.                      *)
LEMMA BeginTypes ==
    ASSUME TypeInv, NEW t \in Task, NEW steps, Good(steps),
           NEW s \in Sid \cup {Outsider, NoSession}, NEW to \in Stages, Begin(t, steps, s, to)
    PROVE  TypeInv'
<1>1. [todo |-> steps, by |-> s, from |-> stage[t], to |-> to, tree |-> tree[t]] \in Ops
  BY DEF Good, Ops, Steps, TypeInv, TasksOK
<1>2. OpsOK'
  BY <1>1 DEF Begin, TypeInv, OpsOK
<1> QED
  BY <1>2, MoveTypes DEF Begin, TypeInv, tasks, TasksOK, leases, LeasesOK

(* What agents and people do, and the end of a lease, keep the types.       *)
LEMMA TaskStepTypes ==
    ASSUME NEW t \in Task, TypeInv, TaskStep(t)
    PROVE  TypeInv'
<1>1. TasksOK /\ LeasesOK /\ PlansOK /\ OpsOK /\ CountsOK
  BY DEF TypeInv
<1>2. Sessions(t) \subseteq Sid \cup {Outsider}
  BY <1>1 DEF Sessions, PlansOK
<1>3. ASSUME ExpireLease(t) PROVE TypeInv'
  <2>1. LeasesOK'
    BY <1>1, <1>3 DEF ExpireLease, LeasesOK
  <2> QED
    BY <1>1, <1>3, <2>1, MoveTypes
    DEF ExpireLease, TypeInv, tasks, TasksOK, OpsOK, spent, CountsOK
<1>4. ASSUME OutsiderLease(t) PROVE TypeInv'
  <2>1. LeasesOK'
    BY <1>1, <1>4 DEF OutsiderLease, LeasesOK
  <2> QED
    BY <1>1, <1>4, <2>1, MoveTypes DEF OutsiderLease, TypeInv, tasks, TasksOK, OpsOK
<1>5. ASSUME CrashOp(t) PROVE TypeInv'
  <2>1. OpsOK'
    BY <1>1, <1>5, StopTypes DEF CrashOp
  <2>2. CountsOK'
    BY <1>1, <1>5, BoundAssumption DEF CrashOp, Fault, CountsOK
  <2> QED
    BY <1>1, <1>5, <2>1, <2>2, MoveTypes
    DEF CrashOp, TypeInv, tasks, TasksOK, leases, LeasesOK
<1>6. ASSUME NEW s \in Sessions(t), AgentStep(t, s) PROVE TypeInv'
  <2>1. PICK steps, to : Good(steps) /\ to \in Stages /\ Begin(t, steps, s, to)
    BY <1>1, <1>6, AgentBegins
  <2> QED
    BY <1>2, <2>1, BeginTypes
<1>7. CASE HumanStep(t)
  <2>1. PICK steps, to : Good(steps) /\ to \in Stages /\ Begin(t, steps, NoSession, to)
    BY <1>7, HumanBegins
  <2> QED
    BY <2>1, BeginTypes
<1> QED
  BY <1>3, <1>4, <1>5, <1>6, <1>7 DEF TaskStep

(* So does each step of an operation of the workflow.                       *)
LEMMA OpStepTypes ==
    ASSUME NEW t \in Task, TypeInv, OpStep(t)
    PROVE  TypeInv'
<1>1. TasksOK /\ LeasesOK /\ PlansOK /\ HeldInPlan /\ JobOK /\ OpsOK /\ CountsOK /\ JobFits
  BY DEF TypeInv
<1>2. ASSUME DropLeases({t}) PROVE LeasesOK'
  BY <1>1, <1>2 DEF LeasesOK, DropLeases
<1>3. ASSUME OpRemove(t) PROVE TypeInv'
  <2>1. OpsOK'
    BY <1>1, <1>3, SkipTypes, StopTypes DEF OpRemove
  <2>2. held' = Without(t) \/ held' = held
    BY <1>3 DEF OpRemove
  <2>3. PlansOK'
    BY <1>1, <1>3, <2>2 DEF OpRemove, Without, PlansOK
  <2>4. HeldInPlan'
    BY <1>1, <1>3, <2>2 DEF OpRemove, Without, PlansOK, HeldInPlan
  <2>5. JobFits'
    BY <1>1, <1>3 DEF OpRemove, JobFits, DoneTasks
  <2> QED
    BY <1>1, <1>3, <2>1, <2>3, <2>4, <2>5
    DEF OpRemove, TypeInv, tasks, TasksOK, leases, LeasesOK, JobOK, spent, CountsOK
<1>4. ASSUME OpLease(t) PROVE TypeInv'
  <2>1. OpsOK'
    BY <1>1, <1>4, SkipTypes, StopTypes DEF OpLease
  <2>2. LeasesOK'
    BY <1>1, <1>2, <1>4 DEF OpLease, leases, LeasesOK
  <2> QED
    BY <1>1, <1>4, <2>1, <2>2
    DEF OpLease, TypeInv, tasks, TasksOK, plans, PlansOK, HeldInPlan, JobOK, JobFits,
        DoneTasks, spent, CountsOK
<1>5. ASSUME OpForce(t) PROVE TypeInv'
  <2>1. OpsOK' /\ LeasesOK'
    BY <1>1, <1>2, <1>5, SkipTypes DEF OpForce
  <2> QED
    BY <1>1, <1>5, <2>1
    DEF OpForce, TypeInv, tasks, TasksOK, plans, PlansOK, HeldInPlan, JobOK, JobFits,
        DoneTasks, spent, CountsOK
<1>6. ASSUME OpSave(t) PROVE TypeInv'
  <2>1. op[t].from \in Stages /\ op[t].to \in Stages /\ op[t].tree \in BOOLEAN
    BY <1>1 DEF OpsOK, Ops
  <2>2. TasksOK'
    <3>1. scope' \in [Task -> Scope] /\ Save(t, op[t].from, op[t].to, op[t].tree)
      BY <1>1, <1>6 DEF OpSave, TasksOK
    <3> QED
      BY <1>1, <2>1, <3>1, SaveTypes
  <2>3. OpsOK'
    BY <1>1, <1>6, SkipTypes DEF OpSave
  <2> QED
    BY <1>1, <1>6, <2>2, <2>3
    DEF OpSave, TypeInv, leases, LeasesOK, plans, PlansOK, HeldInPlan, JobOK, JobFits,
        DoneTasks, spent, CountsOK
<1>7. ASSUME OpAssert(t) PROVE TypeInv'
  <2>1. OpsOK'
    BY <1>1, <1>7, SkipTypes, StopTypes DEF OpAssert
  <2>2. LeasesOK'
    <3>1. op[t].by \in Sid \cup {Outsider, NoSession}
      BY <1>1 DEF OpsOK, Ops
    <3> QED
      BY <1>1, <1>7, <3>1 DEF OpAssert, leases, LeasesOK
  <2> QED
    BY <1>1, <1>7, <2>1, <2>2
    DEF OpAssert, TypeInv, tasks, TasksOK, plans, PlansOK, HeldInPlan, JobOK, JobFits,
        DoneTasks, spent, CountsOK
<1>8. ASSUME OpRecheck(t) PROVE TypeInv'
  <2>1. OpsOK'
    BY <1>1, <1>8, SkipTypes, StopTypes DEF OpRecheck
  <2>2. LeasesOK'
    <3>1. ASSUME DropLeases({}) PROVE LeasesOK'
      BY <1>1, <3>1 DEF LeasesOK, DropLeases
    <3> QED
      BY <1>1, <1>2, <1>8, <3>1 DEF OpRecheck, leases, LeasesOK
  <2> QED
    BY <1>1, <1>8, <2>1, <2>2
    DEF OpRecheck, TypeInv, tasks, TasksOK, plans, PlansOK, HeldInPlan, JobOK, JobFits,
        DoneTasks, spent, CountsOK
<1>9. ASSUME OpSeal(t) PROVE TypeInv'
  <2>1. PICK a \in Scopes[t] : scope' = [scope EXCEPT ![t] = a]
    BY <1>9 DEF OpSeal
  <2>2. a \in Scope
    BY DEF Scope
  <2>3. TasksOK' /\ OpsOK'
    BY <1>1, <1>9, <2>1, <2>2, SkipTypes DEF OpSeal, TasksOK
  <2> QED
    BY <1>1, <1>9, <2>3
    DEF OpSeal, TypeInv, leases, LeasesOK, plans, PlansOK, HeldInPlan, JobOK, JobFits,
        DoneTasks, spent, CountsOK
<1> QED
  BY <1>3, <1>4, <1>5, <1>6, <1>7, <1>8, <1>9 DEF OpStep

LEMMA CrashTypes == ASSUME TypeInv, CrashPrepare PROVE TypeInv'
<1>1. TasksOK /\ LeasesOK /\ PlansOK /\ HeldInPlan /\ JobOK /\ OpsOK /\ CountsOK /\ JobFits
  BY DEF TypeInv
<1>2. CountsOK'
  BY <1>1, BoundAssumption DEF CrashPrepare, Fault, CountsOK
<1>3. JobOK' /\ JobFits'
  BY DEF CrashPrepare, JobOK, JobFits
<1> QED
  BY <1>1, <1>2, <1>3
  DEF CrashPrepare, TypeInv, tasks, TasksOK, leases, LeasesOK, plans, PlansOK, HeldInPlan, OpsOK

LEMMA NextTypes == TypeInv /\ [Next]_vars => TypeInv'
<1> SUFFICES ASSUME TypeInv, [Next]_vars PROVE TypeInv'
  OBVIOUS
<1>1. CASE UNCHANGED vars
  BY <1>1 DEF vars, tasks, leases, plans, spent, TypeInv, TasksOK, LeasesOK, PlansOK,
              HeldInPlan, JobOK, OpsOK, CountsOK, JobFits, DoneTasks
<1>2. CASE Next
  BY <1>2, PlanStepTypes, WaveStepTypes, CrashTypes, TaskStepTypes, OpStepTypes DEF Next
<1> QED
  BY <1>1, <1>2

(* Every state of the scheduler has its types: a reservation is always for  *)
(* a task of its plan, whatever is planned, moved, crashed or corrupted.    *)
THEOREM SchedulerTyping == Spec => []TypeOK
<1>1. Spec => []TypeInv
  BY InitTypes, NextTypes, PTL DEF Spec
<1> QED
  BY <1>1, TypesByPart, PTL

-----------------------------------------------------------------------------
(* Dispatch.  What makes a commit safe is settled when the wave is selected *)
(* and must stand until the wave is committed: nobody else reserves its     *)
(* lanes, and the places in the project are kept.                           *)

JobClear ==
    job # NoJob =>
        \A t \in job.todo \cup DoneTasks, q \in Parent : held[q][t] = NoSession
JobFresh ==
    job # NoJob =>
        /\ job.todo \cap DoneTasks = {}
        /\ \A d \in job.done : d.sid.parent = job.parent /\ d.sid.n \in 1 .. minted
        /\ \A d, e \in job.done : d.task = e.task \/ d.sid.n = e.sid.n => d = e
JobRoom ==
    job # NoJob =>
        Cardinality(ReservedTasks \cup job.todo \cup DoneTasks) <= MaxParallel
WaveInv == OnePlanPerTask /\ JobClear /\ JobFresh /\ JobRoom

(* All that a step other than a commit does to the reservations.            *)
Shrinks ==
    /\ \A q \in Parent, t \in Task : held'[q][t] \in {held[q][t], NoSession}
    /\ \A t \in Task : Holding(t)' \subseteq Holding(t)

LEMMA SamePlansShrink ==
    ASSUME UNCHANGED plans
    PROVE  Shrinks
BY DEF plans, Shrinks, Holding, PlansOf

(* Whatever is done to the plan of p, a reservation stands or ends.         *)
LEMMA PlanStepShrinks ==
    ASSUME NEW p \in Parent, TypeInv, PlanStep(p)
    PROVE  Shrinks
<1>1. PlansOK /\ HeldInPlan
  BY DEF TypeInv
<1>2. ASSUME NEW n \in 1 .. MaxParallel, Refresh(p, n) PROVE Shrinks
  BY <1>1, <1>2 DEF Refresh, PlansOK, Plans, Shrinks, Holding, PlansOf
<1>3. ASSUME NEW n \in 1 .. MaxParallel, NEW ids \in Candidates[p], NewPlan(p, ids, n)
      PROVE  Shrinks
  BY <1>1, <1>3 DEF NewPlan, PlansOK, Plans, HeldInPlan, Shrinks, Holding, PlansOf
<1>4. ASSUME NEW n \in 1 .. MaxParallel, NEW ids \in Candidates[p], Replan(p, ids, n)
      PROVE  Shrinks
  BY <1>1, <1>4 DEF Replan, None, PlansOK, Plans, Shrinks, Holding, PlansOf
<1>5. ASSUME NEW force \in BOOLEAN, Cancel(p, force) PROVE Shrinks
  BY <1>1, <1>5 DEF Cancel, None, NoPlan, PlansOK, Shrinks, Holding, PlansOf
<1>6. ASSUME CancelCorrupt(p) PROVE Shrinks
  BY <1>1, <1>6 DEF CancelCorrupt, None, NoPlan, PlansOK, Shrinks, Holding, PlansOf
<1>7. ASSUME CorruptPlan(p) PROVE Shrinks
  BY <1>1, <1>7 DEF CorruptPlan, PlansOK, Plans, Shrinks, Holding, PlansOf
<1>8. ASSUME NEW t \in Task, NEW force \in BOOLEAN, ReleaseLane(p, t, force) PROVE Shrinks
  BY <1>1, <1>8 DEF ReleaseLane, PlansOK, Shrinks, Holding, PlansOf
<1>9. ASSUME NEW t \in Task, Heartbeat(p, t) PROVE Shrinks
  BY <1>9, SamePlansShrink DEF Heartbeat
<1>10. ASSUME BeginPrepare(p) PROVE Shrinks
  BY <1>10, SamePlansShrink DEF BeginPrepare
<1> QED
  BY <1>2, <1>3, <1>4, <1>5, <1>6, <1>7, <1>8, <1>9, <1>10 DEF PlanStep

(* So it is with the steps of the workflow.                                 *)
LEMMA OpStepShrinks ==
    ASSUME NEW t \in Task, TypeInv, OpStep(t)
    PROVE  Shrinks
<1>1. PlansOK
  BY DEF TypeInv
<1>2. ASSUME OpRemove(t) PROVE Shrinks
  <2>1. plan' = plan /\ (held' = Without(t) \/ held' = held)
    BY <1>2 DEF OpRemove
  <2> QED
    BY <1>1, <2>1 DEF Without, PlansOK, Shrinks, Holding, PlansOf
<1> QED
  BY <1>2, SamePlansShrink
  DEF OpStep, OpAssert, OpRecheck, OpSeal, OpLease, OpForce, OpSave

LEMMA TaskStepShrinks ==
    ASSUME NEW t \in Task, TypeInv, TaskStep(t)
    PROVE  Shrinks /\ UNCHANGED <<job, minted>>
<1>1. UNCHANGED <<plans, job, minted>>
  <2>1. ASSUME NEW steps, NEW s, NEW to, Begin(t, steps, s, to) PROVE UNCHANGED <<plans, job, minted>>
    BY <2>1 DEF Begin
  <2>2. TasksOK
    BY DEF TypeInv
  <2> QED
    BY <2>1, <2>2, AgentBegins, HumanBegins DEF TaskStep, ExpireLease, OutsiderLease, CrashOp
<1> QED
  BY <1>1, SamePlansShrink

-----------------------------------------------------------------------------
(* A wave that was safe stays safe while reservations only end.             *)
LEMMA WaveKept ==
    ASSUME TypeInv, WaveInv, Shrinks, UNCHANGED <<job, minted>>
    PROVE  WaveInv'
<1>1. JobOK
  BY DEF TypeInv
<1>2. OnePlanPerTask'
  BY DEF WaveInv, OnePlanPerTask, Shrinks
<1>3. ASSUME job # NoJob PROVE job.todo \subseteq Task /\ DoneTasks \subseteq Task
  BY <1>1, <1>3 DEF JobOK, Jobs, DoneTasks
<1>4. JobClear'
  BY <1>3 DEF WaveInv, JobClear, Shrinks, DoneTasks
<1>5. JobFresh'
  BY DEF WaveInv, JobFresh, DoneTasks
<1>6. JobRoom'
  <2> SUFFICES ASSUME job # NoJob
               PROVE  Cardinality(ReservedTasks' \cup job.todo \cup DoneTasks) <= MaxParallel
    BY DEF JobRoom, DoneTasks
  <2> DEFINE before == ReservedTasks \cup job.todo \cup DoneTasks
             after == ReservedTasks' \cup job.todo \cup DoneTasks
  <2>1. ReservedTasks' \subseteq ReservedTasks
    BY DEF ReservedTasks, Shrinks
  <2>2. before \subseteq Task
    BY <1>3 DEF ReservedTasks
  <2>3. after \subseteq before
    BY <2>1
  <2>4. IsFiniteSet(before)
    BY <2>2, TaskAssumption, FS_Subset
  <2>5. IsFiniteSet(after) /\ Cardinality(after) <= Cardinality(before)
    <3> HIDE DEF before, after
    <3> QED
      BY <2>3, <2>4, FS_Subset
  <2>6. Cardinality(before) \in Nat /\ Cardinality(after) \in Nat
    BY <2>4, <2>5, FS_CardinalityType
  <2>7. Cardinality(before) <= MaxParallel
    BY DEF WaveInv, JobRoom
  <2>8. MaxParallel \in Nat
    BY ParallelAssumption
  <2> QED
    <3> HIDE DEF before
    <3>1. Cardinality(after) <= MaxParallel
      <4> HIDE DEF after
      <4> QED
        BY <2>5, <2>6, <2>7, <2>8
    <3> QED
      BY <3>1
<1> QED
  BY <1>2, <1>4, <1>5, <1>6 DEF WaveInv

(* Two finite sets together have at most as many members as each has.       *)
LEMMA Together ==
    ASSUME NEW A, NEW B, IsFiniteSet(A), IsFiniteSet(B)
    PROVE  /\ IsFiniteSet(A \cup B)
           /\ Cardinality(A \cup B) <= Cardinality(A) + Cardinality(B)
           /\ Cardinality(A) \in Nat /\ Cardinality(B) \in Nat
           /\ Cardinality(A \cup B) \in Nat
<1>1. IsFiniteSet(A \cup B)
      /\ Cardinality(A \cup B) = Cardinality(A) + Cardinality(B) - Cardinality(A \cap B)
  BY FS_Union
<1>2. IsFiniteSet(A \cap B)
  BY FS_Intersection
<1>3. /\ Cardinality(A) \in Nat /\ Cardinality(B) \in Nat
      /\ Cardinality(A \cap B) \in Nat /\ Cardinality(A \cup B) \in Nat
  BY <1>1, <1>2, FS_CardinalityType
<1> QED
  BY <1>1, <1>3

(* A wave is selected among tasks that nobody reserves, and within the      *)
(* slots that the project has left.                                         *)
LEMMA BeginSafe ==
    ASSUME NEW p \in Parent, TypeInv, WaveInv, BeginPrepare(p)
    PROVE  WaveInv'
<1>1. PlansOK /\ HeldInPlan /\ CountsOK
  BY DEF TypeInv
<1>2. UNCHANGED plans /\ UNCHANGED minted /\ AllReadable /\ job = NoJob
  BY DEF BeginPrepare, LockFree
<1>3. PICK S \in (SUBSET plan[p].ids) \ {{}} :
         /\ Chosen(p, S)
         /\ \E wave \in {S, {Least(S)}} :
              job' = [at |-> "lanes", parent |-> p, todo |-> wave, done |-> {},
                      made |-> {}, stage |-> stage, scope |-> scope,
                      task |-> Least(S), copy |-> "draft"]
  BY DEF BeginPrepare
<1>4. PICK wave \in {S, {Least(S)}} :
         job' = [at |-> "lanes", parent |-> p, todo |-> wave, done |-> {},
                      made |-> {}, stage |-> stage, scope |-> scope,
                      task |-> Least(S), copy |-> "draft"]
  BY <1>3
<1>5. S \subseteq Task /\ S # {} /\ wave \subseteq S
  <2>1. plan[p].ids \subseteq Task
    BY <1>1 DEF PlansOK, Plans
  <2> QED
    BY <2>1, LeastMember
<1>6. job'.todo = wave /\ job'.done = {} /\ DoneTasks' = {}
  BY <1>4 DEF DoneTasks
<1>7. OnePlanPerTask'
  BY <1>2 DEF plans, WaveInv, OnePlanPerTask
<1>8. JobClear'
  <2>1. ASSUME NEW t \in S, NEW q \in Parent PROVE held[q][t] = NoSession
    <3>1. t \in Ready(p) /\ t \in Task
      BY <1>3, <1>5 DEF Chosen
    <3>2. held[p][t] = NoSession /\ Holding(t) \subseteq {p}
      BY <3>1, ReadyIsUnheld
    <3>3. plan[q].status \in {"none", "ok", "corrupt"}
      BY <1>1 DEF PlansOK, Plans
    <3>4. held[q][t] # NoSession => plan[q].status = "ok" /\ t \in plan[q].ids
      BY <1>1, <1>2, <3>1, <3>3 DEF HeldInPlan, AllReadable, Readable
    <3> QED
      BY <3>2, <3>4 DEF Holding, PlansOf
  <2> QED
    BY <1>2, <1>5, <1>6, <2>1 DEF JobClear, plans
<1>9. JobFresh'
  BY <1>6 DEF JobFresh
<1>10. JobRoom'
  <2>1. IsFiniteSet(S) /\ IsFiniteSet(wave) /\ IsFiniteSet(ReservedTasks)
        /\ IsFiniteSet(Occupied(p, held[p]))
    <3>1. ReservedTasks \subseteq Task /\ Occupied(p, held[p]) \subseteq Task
      BY <1>1 DEF ReservedTasks, Occupied, PlansOK, Plans
    <3> QED
      BY <1>5, <3>1, TaskAssumption, FS_Subset
  <2>2. /\ Cardinality(S) \in Nat /\ Cardinality(wave) \in Nat
        /\ Cardinality(ReservedTasks) \in Nat /\ Cardinality(Occupied(p, held[p])) \in Nat
    BY <2>1, FS_CardinalityType
  <2>3. Cardinality(wave) <= Cardinality(S) /\ Cardinality(S) # 0
    BY <1>5, <2>1, FS_Subset, FS_EmptySet
  <2>4. Cardinality(S) <= Slots(p)
    BY <1>3 DEF Chosen
  <2>5. Slots(p) <= Monus(MaxParallel, Cardinality(ReservedTasks)) /\ Slots(p) \in Nat
    <3>1. plan[p].limit \in Nat /\ MaxParallel \in Nat
      BY <1>1, ParallelAssumption DEF PlansOK, Plans
    <3> DEFINE a == Cardinality(Occupied(p, held[p]))
               b == Cardinality(ReservedTasks)
    <3>2. a \in Nat /\ b \in Nat
      BY <2>2
    <3>3. Slots(p) = IF Monus(plan[p].limit, a) < Monus(MaxParallel, b)
                       THEN Monus(plan[p].limit, a) ELSE Monus(MaxParallel, b)
      BY DEF Slots
    <3> QED
      <4>1. Slots(p) <= Monus(MaxParallel, b) /\ Slots(p) \in Nat
        <5> HIDE DEF a, b
        <5> QED
          BY <3>1, <3>2, <3>3 DEF Monus
      <4> QED
        BY <4>1
  <2>6. Cardinality(wave) + Cardinality(ReservedTasks) <= MaxParallel
    BY <2>2, <2>3, <2>4, <2>5, ParallelAssumption DEF Monus
  <2>7. Cardinality(ReservedTasks \cup wave) <= MaxParallel
    BY <2>1, <2>2, <2>6, Together, ParallelAssumption
  <2>8. ReservedTasks' = ReservedTasks
    BY <1>2 DEF plans, ReservedTasks, Holding, PlansOf
  <2>9. ReservedTasks' \cup job'.todo \cup DoneTasks' = ReservedTasks \cup wave
    BY <1>6, <2>8
  <2> QED
    BY <2>7, <2>9 DEF JobRoom
<1> QED
  BY <1>7, <1>8, <1>9, <1>10 DEF WaveInv

(* A lane that is reserved leaves the lanes to do and joins those done,     *)
(* with the number after every number minted before.                        *)
LEMMA ReserveSafe ==
    ASSUME TypeInv, WaveInv, ReserveLane
    PROVE  WaveInv'
<1> DEFINE t == Least(job.todo)
           s == [parent |-> job.parent, n |-> minted + 1]
<1>1. JobOK /\ CountsOK
  BY DEF TypeInv
<1>2. job \in Jobs /\ job # NoJob
  BY <1>1 DEF ReserveLane, JobOK, Jobs, NoJob
<1>3. job.todo \subseteq Task /\ job.done \subseteq [task : Task, sid : Sid]
  BY <1>2 DEF Jobs
<1>4. t \in job.todo
  BY <1>3, LeastMember DEF ReserveLane
<1>5. UNCHANGED plans /\ minted' = minted + 1
  BY DEF ReserveLane
<1>6. /\ job'.todo = job.todo \ {t} /\ job'.parent = job.parent
      /\ job'.done = job.done \cup {[task |-> t, sid |-> s]}
  <2>1. job' = [job EXCEPT !.todo = job.todo \ {t},
                           !.done = job.done \cup {[task |-> t, sid |-> s]},
                           !.at = IF IsolatedWrite(t) /\ ~tree[t] THEN "tree" ELSE "lanes",
                           !.task = t, !.copy = stage[t]]
    BY DEF ReserveLane
  <2> QED
    <3> HIDE DEF t, s
    <3> QED
      BY <1>2, <2>1 DEF Jobs
<1>7. DoneTasks' = DoneTasks \cup {t}
  <2> DEFINE lane == [task |-> t, sid |-> s]
  <2>1. lane.task = t
    OBVIOUS
  <2>2. DoneTasks' = {d.task : d \in job.done \cup {lane}}
    BY <1>6 DEF DoneTasks
  <2>3. DoneTasks' = {d.task : d \in job.done} \cup {lane.task}
    <3> HIDE DEF lane, t, s
    <3> QED
      BY <2>2
  <2> QED
    BY <2>1, <2>3 DEF DoneTasks
<1>8. job'.todo \cup DoneTasks' = job.todo \cup DoneTasks
  BY <1>4, <1>6, <1>7
<1>9. OnePlanPerTask'
  BY <1>5 DEF plans, WaveInv, OnePlanPerTask
<1>10. JobClear'
  BY <1>2, <1>5, <1>8 DEF plans, WaveInv, JobClear
<1>11. JobFresh'
  <2>1. /\ job.todo \cap DoneTasks = {}
        /\ \A d \in job.done : d.sid.parent = job.parent /\ d.sid.n \in 1 .. minted
        /\ \A d, e \in job.done : d.task = e.task \/ d.sid.n = e.sid.n => d = e
    BY <1>2 DEF WaveInv, JobFresh
  <2>2. minted \in Nat
    BY <1>1, BoundAssumption DEF CountsOK
  <2>3. job'.todo \cap DoneTasks' = {}
    BY <1>6, <1>7, <2>1
  <2>4. \A d \in job.done : d.task # t
    BY <1>4, <2>1 DEF DoneTasks
  <2>5. \A d \in job.done : d.sid.n # minted + 1 /\ d.sid.n \in 1 .. minted + 1
    BY <2>1, <2>2
  <2>6. \A d \in job'.done : d.sid.parent = job.parent /\ d.sid.n \in 1 .. minted + 1
    BY <1>6, <2>1, <2>2, <2>5
  <2>7. \A d, e \in job'.done : d.task = e.task \/ d.sid.n = e.sid.n => d = e
    <3> HIDE DEF t
    <3> QED
      BY <1>6, <2>1, <2>4, <2>5
  <2> QED
    BY <1>5, <1>6, <2>3, <2>6, <2>7 DEF JobFresh
<1>12. JobRoom'
  <2>1. ReservedTasks' = ReservedTasks
    BY <1>5 DEF plans, ReservedTasks, Holding, PlansOf
  <2>2. ReservedTasks' \cup job'.todo \cup DoneTasks' = ReservedTasks \cup job.todo \cup DoneTasks
    BY <1>8, <2>1
  <2> QED
    BY <1>2, <2>2 DEF WaveInv, JobRoom
<1> QED
  BY <1>9, <1>10, <1>11, <1>12 DEF WaveInv

LEMMA SaveSafe ==
    ASSUME TypeInv, WaveInv, SaveWorktree
    PROVE  WaveInv'
<1>1. job \in Jobs /\ job # NoJob
  BY DEF TypeInv, JobOK, SaveWorktree, Jobs, NoJob
<1>2. job' = [job EXCEPT !.at = "lanes", !.made = job.made \cup {job.task}]
  BY DEF SaveWorktree
<1>3. job'.todo = job.todo /\ job'.done = job.done /\ job'.parent = job.parent
  BY <1>1, <1>2 DEF Jobs
<1>4. UNCHANGED <<plan, held, minted>>
  BY DEF SaveWorktree, plans
<1> QED
  BY <1>1, <1>3, <1>4
  DEF WaveInv, OnePlanPerTask, JobClear, JobFresh, JobRoom, DoneTasks, ReservedTasks,
      Holding, PlansOf

(* A commit writes what the wave has reserved into the plan it has locked,  *)
(* and leaves every other reservation of every plan as it is.               *)
LEMMA CommitWrites ==
    ASSUME TypeInv, WaveInv, CommitWave
    PROVE  /\ \A t \in Task \ DoneTasks, q \in Parent : held'[q][t] = held[q][t]
           /\ \A t \in DoneTasks, q \in Parent \ {job.parent} : held'[q][t] = NoSession
           /\ \A d \in job.done : held'[job.parent][d.task] = d.sid
           /\ UNCHANGED <<plan, minted>> /\ job' = NoJob /\ job # NoJob
           /\ job.parent \in Parent /\ job.done \subseteq [task : Task, sid : Sid]
           /\ DoneTasks \subseteq Task
<1>1. job \in Jobs /\ job # NoJob /\ PlansOK
  BY DEF TypeInv, JobOK, CommitWave, Jobs, NoJob
<1>2. job.parent \in Parent /\ job.done \subseteq [task : Task, sid : Sid]
  BY <1>1 DEF Jobs
<1>3. DoneTasks \subseteq Task
  BY <1>2 DEF DoneTasks
<1>4. held' = [held EXCEPT ![job.parent] = Reservations]
  BY DEF CommitWave
<1>5. /\ held'[job.parent] = Reservations
      /\ \A q \in Parent \ {job.parent} : held'[q] = held[q]
  <2> HIDE DEF Reservations
  <2> QED
    BY <1>1, <1>2, <1>4 DEF PlansOK
<1>6. ASSUME NEW t \in Task \ DoneTasks PROVE Reservations[t] = held[job.parent][t]
  BY <1>6 DEF Reservations, DoneTasks
<1>7. ASSUME NEW d \in job.done PROVE Reservations[d.task] = d.sid
  <2>1. \A e \in job.done : e.task = d.task => e = d
    BY <1>1 DEF WaveInv, JobFresh
  <2>2. (CHOOSE e \in job.done : e.task = d.task) = d
    BY <2>1
  <2>3. d.task \in Task
    BY <1>2
  <2> QED
    BY <2>2, <2>3 DEF Reservations
<1>8. \A t \in DoneTasks, q \in Parent : held[q][t] = NoSession
  BY <1>1 DEF WaveInv, JobClear
<1>9. \A t \in Task \ DoneTasks, q \in Parent : held'[q][t] = held[q][t]
  BY <1>5, <1>6
<1>10. \A t \in DoneTasks, q \in Parent \ {job.parent} : held'[q][t] = NoSession
  BY <1>5, <1>8
<1>11. \A d \in job.done : held'[job.parent][d.task] = d.sid
  BY <1>5, <1>7
<1>12. UNCHANGED <<plan, minted>> /\ job' = NoJob
  BY DEF CommitWave
<1> QED
  BY <1>1, <1>2, <1>3, <1>9, <1>10, <1>11, <1>12

LEMMA CommitSafe ==
    ASSUME TypeInv, WaveInv, CommitWave
    PROVE  WaveInv'
<1>1. ASSUME NEW p \in Parent, NEW q \in Parent, NEW t \in Task,
             held'[p][t] # NoSession, held'[q][t] # NoSession
      PROVE  p = q
  <2>1. CASE t \in DoneTasks
    BY <1>1, <2>1, CommitWrites
  <2>2. CASE t \notin DoneTasks
    BY <1>1, <2>2, CommitWrites DEF WaveInv, OnePlanPerTask
  <2> QED
    BY <2>1, <2>2
<1> QED
  BY <1>1, CommitWrites DEF WaveInv, OnePlanPerTask, JobClear, JobFresh, JobRoom

LEMMA WaveNext == TypeInv /\ WaveInv /\ [Next]_vars => WaveInv'
<1> SUFFICES ASSUME TypeInv, WaveInv, [Next]_vars PROVE WaveInv'
  OBVIOUS
<1>1. CASE UNCHANGED vars
  BY <1>1, SamePlansShrink, WaveKept DEF vars
<1>2. ASSUME NEW p \in Parent, PlanStep(p) PROVE WaveInv'
  <2>1. BeginPrepare(p) \/ UNCHANGED <<job, minted>>
    BY <1>2 DEF PlanStep, Refresh, NewPlan, Replan, Cancel, CancelCorrupt, CorruptPlan,
                Heartbeat, ReleaseLane
  <2> QED
    BY <1>2, <2>1, PlanStepShrinks, BeginSafe, WaveKept
<1>3. ASSUME job' = NoJob, UNCHANGED plans PROVE WaveInv'
  BY <1>3 DEF WaveInv, plans, OnePlanPerTask, JobClear, JobFresh, JobRoom
<1>4. CASE WaveStep \/ CrashPrepare
  BY <1>3, <1>4, ReserveSafe, SaveSafe, CommitSafe DEF WaveStep, RollBackWave, CrashPrepare
<1>5. ASSUME NEW t \in Task, TaskStep(t) \/ OpStep(t) PROVE WaveInv'
  <2>1. UNCHANGED <<job, minted>>
    BY <1>5, TaskStepShrinks
    DEF OpStep, OpAssert, OpRecheck, OpSeal, OpRemove, OpLease, OpForce, OpSave
  <2> QED
    BY <1>5, <2>1, TaskStepShrinks, OpStepShrinks, WaveKept
<1> QED
  BY <1>1, <1>2, <1>4, <1>5 DEF Next

LEMMA WaveInit == Init => WaveInv
BY DEF Init, WaveInv, OnePlanPerTask, JobClear, JobFresh, JobRoom

LEMMA SchedulerInvariants == Spec => [](TypeInv /\ WaveInv)
<1>1. Spec => []TypeInv
  BY InitTypes, NextTypes, PTL DEF Spec
<1> QED
  BY <1>1, WaveInit, WaveNext, PTL DEF Spec

(* A task is never reserved in the plans of two parents, though no lock     *)
(* keeps a task for a plan: a wave takes a task only when no plan of any    *)
(* parent reserves it, and holds the scheduler lock until it has committed. *)
THEOREM SchedulerExclusion == Spec => []OnePlanPerTask
<1>1. TypeInv /\ WaveInv => OnePlanPerTask
  BY DEF WaveInv
<1> QED
  BY <1>1, SchedulerInvariants, PTL

-----------------------------------------------------------------------------
(* Refinement.  A commit is a wave of Dispatch, the end of a failed prepare *)
(* wastes its sessions, and every other step at most ends dispatches.       *)

Holders == [t \in Task |-> HolderOf(t)]
Used == 1 .. minted \ InFlight

(* The holder of a task is the session of its one reservation.              *)
LEMMA HolderEnds ==
    ASSUME WaveInv, Shrinks, NEW t \in Task
    PROVE  HolderOf(t)' \in {HolderOf(t), NoSession}
<1>1. CASE Holding(t)' = {}
  BY <1>1 DEF HolderOf
<1>2. CASE Holding(t)' # {}
  <2> DEFINE c == CHOOSE p \in Holding(t) : TRUE
             d == CHOOSE p \in Holding(t)' : TRUE
  <2>1. d \in Holding(t)'
    BY <1>2
  <2>2. d \in Holding(t) /\ Holding(t) # {}
    BY <2>1 DEF Shrinks
  <2>3. c \in Holding(t)
    BY <2>2
  <2>4. c = d
    <3> HIDE DEF c, d
    <3> QED
      BY <2>2, <2>3 DEF WaveInv, OnePlanPerTask, Holding, PlansOf
  <2>5. HolderOf(t)' = held'[d][t] /\ HolderOf(t) = held[c][t]
    BY <1>2, <2>2 DEF HolderOf
  <2>6. held'[d][t] = held[d][t]
    <3> HIDE DEF d
    <3> QED
      BY <2>1 DEF Shrinks, Holding, PlansOf
  <2> QED
    BY <2>4, <2>5, <2>6
<1> QED
  BY <1>1, <1>2

LEMMA EndRefines ==
    ASSUME WaveInv, Shrinks, Used' = Used
    PROVE  Contract!Next
<1> DEFINE ended == {t \in Task : HolderOf(t)' = NoSession}
<1>1. Holders' = [t \in Task |-> IF t \in ended THEN NoSession ELSE Holders[t]]
  <2>1. Holders' = [t \in Task |-> HolderOf(t)']
    BY DEF Holders
  <2>2. \A t \in Task : HolderOf(t)' = IF t \in ended THEN NoSession ELSE HolderOf(t)
    BY HolderEnds
  <2> QED
    BY <2>1, <2>2 DEF Holders
<1>2. Contract!End(ended)
  BY <1>1 DEF Contract!End, Holders, Used
<1> QED
  BY <1>2 DEF Contract!Next

(* A prepare that fails or dies: no reservation was written, and the        *)
(* numbers it minted are spent.                                             *)
LEMMA WasteRefines ==
    ASSUME TypeInv, WaveInv, UNCHANGED plans, UNCHANGED minted, job' = NoJob
    PROVE  Contract!Next
<1>1. Holders' = Holders
  BY DEF Holders, HolderOf, Holding, PlansOf, plans
<1>2. Used \subseteq Used'
  BY DEF Used, InFlight
<1>3. Contract!Waste
  BY <1>1, <1>2 DEF Contract!Waste, Holders, Used
<1> QED
  BY <1>3 DEF Contract!Next

LEMMA CommitRefines ==
    ASSUME TypeInv, WaveInv, CommitWave
    PROVE  Contract!Next
<1>1. /\ job # NoJob /\ job' = NoJob /\ UNCHANGED <<plan, minted>>
      /\ job.parent \in Parent /\ job.done \subseteq [task : Task, sid : Sid]
      /\ DoneTasks \subseteq Task
  BY CommitWrites
<1>2. CountsOK /\ JobFits /\ PlansOK
  BY DEF TypeInv
<1>3. ASSUME NEW d \in job.done
      PROVE  /\ HolderOf(d.task) = NoSession /\ HolderOf(d.task)' = d.sid
             /\ d.task \in Task /\ d.sid \in Sid
  <2>1. d.task \in Task /\ d.sid \in Sid /\ d.task \in DoneTasks
    BY <1>1 DEF DoneTasks
  <2>2. Holding(d.task) = {}
    BY <1>1, <2>1 DEF WaveInv, JobClear, Holding, PlansOf
  <2>3. Holding(d.task)' = {job.parent}
    <3>1. held'[job.parent][d.task] = d.sid /\ d.sid # NoSession
      BY <2>1, CommitWrites, SessionAssumption
    <3>2. plan[job.parent].status = "ok" /\ d.task \in plan[job.parent].ids
      BY <1>1, <1>2, <2>1 DEF JobFits
    <3>3. \A q \in Parent \ {job.parent} : held'[q][d.task] = NoSession
      BY <2>1, CommitWrites
    <3>4. Holding(d.task)' = {q \in Parent : /\ plan[q].status = "ok" /\ d.task \in plan[q].ids
                                             /\ held'[q][d.task] # NoSession}
      BY <1>1 DEF Holding, PlansOf
    <3> QED
      BY <1>1, <3>1, <3>2, <3>3, <3>4
  <2>4. HolderOf(d.task)' = held'[job.parent][d.task]
    BY <2>3 DEF HolderOf
  <2> QED
    BY <2>1, <2>2, <2>4, CommitWrites DEF HolderOf
<1>4. ASSUME NEW t \in Task \ DoneTasks
      PROVE  HolderOf(t)' = HolderOf(t) /\ (t \in ReservedTasks' => t \in ReservedTasks)
  <2>1. \A q \in Parent : held'[q][t] = held[q][t]
    BY CommitWrites
  <2>2. Holding(t)' = Holding(t)
    BY <1>1, <2>1 DEF Holding, PlansOf
  <2>3. \A q \in Holding(t) : held'[q][t] = held[q][t]
    BY <2>1 DEF Holding, PlansOf
  <2> QED
    BY <2>2, <2>3 DEF HolderOf, ReservedTasks
<1>5. ASSUME NEW t \in DoneTasks PROVE \E d \in job.done : d.task = t
  BY <1>5 DEF DoneTasks
<1>6. Used' = 1 .. minted /\ Used = 1 .. minted \ {d.sid.n : d \in job.done}
  BY <1>1 DEF Used, InFlight
<1> DEFINE Session == [parent : Parent, n : Nat]
<1>7. Sid \subseteq Session
  BY DEF Sid
<1>8. Holders' \in [Task -> Session \cup {NoSession}]
  <2>1. ASSUME NEW t \in Task PROVE HolderOf(t)' \in Sid \cup {NoSession}
    <3>1. CASE t \in DoneTasks
      BY <1>3, <1>5, <3>1
    <3>2. CASE t \notin DoneTasks
      <4>1. HolderOf(t)' = HolderOf(t)
        BY <1>4, <3>2
      <4> QED
        BY <1>2, <4>1 DEF HolderOf, Holding, PlansOf, PlansOK
    <3> QED
      BY <3>1, <3>2
  <2> QED
    BY <1>7, <2>1 DEF Holders
<1>9. \A t \in Task \ DoneTasks : Holders'[t] = Holders[t]
  BY <1>4 DEF Holders
<1>10. ASSUME NEW t \in DoneTasks
       PROVE  /\ Holders[t] = NoSession /\ Holders'[t] \in Session
              /\ Holders'[t].n \in Used' \ Used
  <2>1. PICK d \in job.done : d.task = t
    BY <1>5
  <2>2. Holders[t] = NoSession /\ Holders'[t] = d.sid /\ d.sid \in Sid
    BY <1>3, <2>1 DEF Holders
  <2>3. d.sid.n \in 1 .. minted
    BY <1>1 DEF WaveInv, JobFresh
  <2> QED
    BY <1>6, <1>7, <2>2, <2>3
<1>11. ASSUME NEW t \in DoneTasks, NEW u \in DoneTasks
       PROVE  /\ Holders'[t].parent = Holders'[u].parent
              /\ Holders'[t].n = Holders'[u].n => t = u
  <2>1. PICK d \in job.done : d.task = t
    BY <1>5
  <2>2. PICK e \in job.done : e.task = u
    BY <1>5
  <2>3. Holders'[t] = d.sid /\ Holders'[u] = e.sid
    BY <1>3, <2>1, <2>2 DEF Holders
  <2> QED
    BY <1>1, <2>1, <2>2, <2>3 DEF WaveInv, JobFresh
<1>12. Cardinality({t \in Task : Holders'[t] # NoSession}) <= MaxParallel
  <2> DEFINE new == {t \in Task : Holders'[t] # NoSession}
             room == ReservedTasks \cup job.todo \cup DoneTasks
  <2>1. new \subseteq room
    BY <1>4 DEF Holders, HolderOf, ReservedTasks
  <2>2. room \subseteq Task
    <3>1. job.todo \subseteq Task
      BY <1>1 DEF TypeInv, JobOK, Jobs
    <3> QED
      BY <1>1, <3>1 DEF ReservedTasks
  <2>3. IsFiniteSet(room) /\ Cardinality(room) <= MaxParallel
    BY <1>1, <2>2, TaskAssumption, FS_Subset DEF WaveInv, JobRoom
  <2>4. IsFiniteSet(new) /\ Cardinality(new) <= Cardinality(room)
    <3> HIDE DEF new, room
    <3> QED
      BY <2>1, <2>3, FS_Subset
  <2>5. Cardinality(new) \in Nat /\ Cardinality(room) \in Nat /\ MaxParallel \in Nat
    BY <2>3, <2>4, FS_CardinalityType, ParallelAssumption
  <2>6. Cardinality(new) <= MaxParallel
    <3> HIDE DEF new, room
    <3> QED
      BY <2>3, <2>4, <2>5
  <2> QED
    BY <2>6
<1>13. Used \subseteq Used'
  BY <1>6
<1>14. Contract!Assign(DoneTasks)
  <2>1. Holders' \in [Task -> Contract!Session \cup {NoSession}]
    BY <1>8 DEF Contract!Session
  <2>2. \A t \in DoneTasks : /\ Holders[t] = NoSession
                             /\ Holders'[t] \in Contract!Session
                             /\ Holders'[t].n \in Used' \ Used
    BY <1>10 DEF Contract!Session
  <2>3. \A t, u \in DoneTasks : /\ Holders'[t].parent = Holders'[u].parent
                                /\ Holders'[t].n = Holders'[u].n => t = u
    BY <1>11
  <2>4. Contract!Dispatched' = {t \in Task : Holders'[t] # NoSession}
    BY DEF Contract!Dispatched, Holders
  <2>5. Cardinality(Contract!Dispatched') <= MaxParallel
    BY <1>12, <2>4
  <2>6. Contract!Cardinality(Contract!Dispatched') <= MaxParallel
    BY <2>5 DEF Contract!Cardinality, Contract!IsFiniteSet, Cardinality, IsFiniteSet
  <2> QED
    BY <1>9, <1>13, <2>1, <2>2, <2>3, <2>6, Zenon DEF Contract!Assign, Holders, Used
<1> QED
  BY <1>1, <1>14 DEF Contract!Next

LEMMA NextRefines ==
    ASSUME TypeInv, WaveInv, [Next]_vars
    PROVE  [Contract!Next]_(Contract!vars)
<1>1. ASSUME Shrinks, UNCHANGED <<job, minted>> PROVE Contract!Next
  BY <1>1, EndRefines DEF Used, InFlight
<1>2. CASE UNCHANGED vars
  BY <1>1, <1>2, SamePlansShrink DEF vars
<1>3. ASSUME NEW p \in Parent, PlanStep(p) PROVE Contract!Next
  <2>1. CASE BeginPrepare(p)
    <3>1. job = NoJob /\ job'.done = {} /\ UNCHANGED minted
      BY <2>1 DEF BeginPrepare, LockFree
    <3>2. InFlight = {} /\ InFlight' = {}
      BY <3>1 DEF InFlight
    <3> QED
      BY <1>3, <3>1, <3>2, PlanStepShrinks, EndRefines DEF Used
  <2>2. CASE ~BeginPrepare(p)
    <3>1. UNCHANGED <<job, minted>>
      BY <1>3, <2>2 DEF PlanStep, Refresh, NewPlan, Replan, Cancel, CancelCorrupt,
                        CorruptPlan, Heartbeat, ReleaseLane
    <3> QED
      BY <1>1, <1>3, <3>1, PlanStepShrinks
  <2> QED
    BY <2>1, <2>2
<1>4. CASE ReserveLane
  <2> DEFINE t == Least(job.todo)
             s == [parent |-> job.parent, n |-> minted + 1]
  <2>1. job \in Jobs /\ job # NoJob /\ minted \in Nat
    BY <1>4, BoundAssumption DEF ReserveLane, TypeInv, JobOK, CountsOK, Jobs, NoJob
  <2>2. job'.done = job.done \cup {[task |-> t, sid |-> s]} /\ job' # NoJob
    <3>1. job' = [job EXCEPT !.todo = job.todo \ {t},
                             !.done = job.done \cup {[task |-> t, sid |-> s]},
                             !.at = IF IsolatedWrite(t) /\ ~tree[t] THEN "tree" ELSE "lanes",
                             !.task = t, !.copy = stage[t]]
      BY <1>4 DEF ReserveLane
    <3> QED
      <4> HIDE DEF t, s
      <4> QED
        BY <2>1, <3>1 DEF Jobs, NoJob
  <2>3. InFlight' = InFlight \cup {minted + 1}
    <3> DEFINE lane == [task |-> t, sid |-> s]
    <3>1. lane.sid.n = minted + 1
      OBVIOUS
    <3>2. InFlight' = {d.sid.n : d \in job.done \cup {lane}}
      BY <2>2 DEF InFlight
    <3>3. InFlight' = {d.sid.n : d \in job.done} \cup {lane.sid.n}
      <4> HIDE DEF lane, t, s
      <4> QED
        BY <3>2
    <3> QED
      BY <2>1, <3>1, <3>3 DEF InFlight
  <2>4. Used' = Used
    <3>1. minted' = minted + 1
      BY <1>4 DEF ReserveLane
    <3> QED
      BY <2>1, <2>3, <3>1 DEF Used
  <2> QED
    BY <1>4, <2>4, SamePlansShrink, EndRefines DEF ReserveLane
<1>5. CASE SaveWorktree
  <2>1. job \in Jobs /\ job # NoJob
    BY <1>5 DEF SaveWorktree, TypeInv, JobOK, Jobs, NoJob
  <2>2. job' = [job EXCEPT !.at = "lanes", !.made = job.made \cup {job.task}]
    BY <1>5 DEF SaveWorktree
  <2>3. job'.done = job.done /\ job' # NoJob
    BY <2>1, <2>2 DEF Jobs, NoJob
  <2>4. InFlight' = InFlight
    BY <2>1, <2>3 DEF InFlight
  <2>5. Used' = Used
    BY <1>5, <2>4 DEF Used, SaveWorktree
  <2> QED
    BY <1>5, <2>5, SamePlansShrink, EndRefines DEF SaveWorktree
<1>6. CASE RollBackWave \/ CrashPrepare
  BY <1>6, WasteRefines DEF RollBackWave, CrashPrepare
<1>7. ASSUME NEW t \in Task, TaskStep(t) \/ OpStep(t) PROVE Contract!Next
  <2>1. UNCHANGED <<job, minted>>
    BY <1>7, TaskStepShrinks
    DEF OpStep, OpAssert, OpRecheck, OpSeal, OpRemove, OpLease, OpForce, OpSave
  <2> QED
    BY <1>1, <1>7, <2>1, TaskStepShrinks, OpStepShrinks
<1>8. CASE Next
  <2>1. CASE \E p \in Parent : PlanStep(p)
    BY <1>3, <2>1
  <2>2. CASE WaveStep \/ CrashPrepare
    BY <1>4, <1>5, <1>6, <2>2, CommitRefines DEF WaveStep
  <2>3. CASE \E t \in Task : TaskStep(t) \/ OpStep(t)
    BY <1>7, <2>3
  <2> QED
    BY <1>8, <2>1, <2>2, <2>3 DEF Next
<1> QED
  BY <1>2, <1>8

LEMMA InitRefines == Init => Contract!Init
<1> SUFFICES ASSUME Init PROVE Contract!Init
  OBVIOUS
<1>1. \A t \in Task : HolderOf(t) = NoSession
  BY DEF Init, HolderOf, Holding, PlansOf
<1>2. Used = {}
  BY DEF Init, Used
<1> QED
  BY <1>1, <1>2 DEF Contract!Init, Used

(* The scheduler implements Dispatch for any tasks, parents, task sets and  *)
(* limit, with prepares that fail or die at any step, plan files that are   *)
(* corrupted, and people and agents who move the tasks meanwhile: no        *)
(* dispatch is ever handed over to another session, no session is used      *)
(* twice, and the project never has more than MaxParallel dispatches.       *)
THEOREM DispatchRefinement == Spec => ImplementsDispatch
<1>1. TypeInv /\ WaveInv /\ [Next]_vars => [Contract!Next]_(Contract!vars)
  BY NextRefines
<1> QED
  BY <1>1, InitRefines, SchedulerInvariants, PTL DEF Spec, ImplementsDispatch, Contract!Spec

-----------------------------------------------------------------------------
(* Writers.  Only a commit makes reservations, and it has looked at every   *)
(* writer of the plan that is reserved, here or elsewhere, when it does.    *)

LEMMA CommitParts ==
    ASSUME TypeInv, WaveInv, CommitWave, NEW p \in Parent, NEW t \in Task, NEW u \in Task,
           NewReservation(p, t), u \in plan[p].ids, Holding(u)' # {}
    PROVE  ~Conflict(t, u)
<1>1. job.parent = p /\ t \in DoneTasks
  <2>1. held'[p][t] # held[p][t]
    BY DEF NewReservation
  <2>2. t \in DoneTasks
    BY <2>1, CommitWrites
  <2>3. held'[p][t] # NoSession
    BY DEF NewReservation
  <2> QED
    BY <2>2, <2>3, CommitWrites
<1>2. /\ held'[p] = Reservations /\ plan' = plan
      /\ \A q \in Parent \ {p} : held'[q] = held[q]
  <2>1. held' = [held EXCEPT ![job.parent] = Reservations] /\ plan' = plan
    BY DEF CommitWave
  <2>2. PlansOK
    BY DEF TypeInv
  <2> HIDE DEF Reservations
  <2> QED
    BY <1>1, <2>1, <2>2 DEF PlansOK
<1>3. t \in plan[p].ids
  BY <1>1, CommitWrites DEF TypeInv, JobFits
<1>4. LaneSessions(p, Reservations, t) # {}
  <2> HIDE DEF Reservations
  <2> QED
    BY <1>2 DEF NewReservation, LaneSessions
<1>5. LaneSessions(p, Reservations, u) # {}
  <2>1. PICK q \in Holding(u)' : q \in Parent
    BY DEF Holding, PlansOf
  <2>2. held'[q][u] # NoSession /\ q \in PlansOf(u)
    BY <1>2, <2>1 DEF Holding, PlansOf
  <2> HIDE DEF Reservations
  <2>3. CASE q = p
    BY <1>2, <2>2, <2>3 DEF LaneSessions
  <2>4. CASE q # p
    <3>1. q \in Foreign(p, u)
      BY <1>2, <2>1, <2>2, <2>4 DEF Foreign, Holding
    <3> QED
      BY <3>1 DEF LaneSessions
  <2> QED
    BY <2>3, <2>4
<1>6. CASE IsolatedWrite(t) /\ IsolatedWrite(u)
  <2> DEFINE writers ==
        {x \in plan[p].ids : LaneSessions(p, Reservations, x) # {} /\ IsolatedWrite(x)}
  <2>1. \A x, y \in writers : ~Conflict(x, y)
    BY <1>1 DEF CommitWave, WaveStands
  <2>2. t \in writers /\ u \in writers
    BY <1>3, <1>4, <1>5, <1>6
  <2> QED
    BY <2>1, <2>2
<1> QED
  BY <1>6 DEF Conflict

LEMMA ReservationsShrink ==
    ASSUME TypeInv, [Next]_vars
    PROVE  CommitWave \/ \A q \in Parent, t \in Task : ~NewReservation(q, t)
<1>1. ASSUME Shrinks PROVE \A q \in Parent, t \in Task : ~NewReservation(q, t)
  BY <1>1 DEF Shrinks, NewReservation
<1>2. CASE UNCHANGED vars
  BY <1>1, <1>2, SamePlansShrink DEF vars
<1>3. CASE WaveStep \/ CrashPrepare
  BY <1>1, <1>3, SamePlansShrink DEF WaveStep, ReserveLane, SaveWorktree, RollBackWave, CrashPrepare
<1> QED
  BY <1>1, <1>2, <1>3, PlanStepShrinks, TaskStepShrinks, OpStepShrinks DEF Next

(* No wave puts a writer to work in a plan whose scope overlaps that of     *)
(* another lane of the plan which is reserved, by this parent or another,   *)
(* whatever became of the tasks between the selection and the commit        *)
(* (prepareConcurrencyWave).                                                *)
THEOREM WriterSafety == Spec => WavesDoNotClash
<1> DEFINE Clear == \A p \in Parent, t, u \in Task :
                      NewReservation(p, t) /\ u \in plan[p].ids /\ Holding(u)' # {}
                        => ~Conflict(t, u)
<1>1. ASSUME TypeInv, WaveInv, [Next]_vars PROVE Clear
  BY <1>1, ReservationsShrink, CommitParts
<1>2. Spec => [][Clear]_vars
  <2> HIDE DEF Clear
  <2> QED
    BY <1>1, SchedulerInvariants, PTL DEF Spec
<1> QED
  BY <1>2 DEF WavesDoNotClash

-----------------------------------------------------------------------------
(* Leases.  Until something crashes every plan can be read, an operation    *)
(* that removes a reservation releases the lease next, and a live lease of  *)
(* a lane is accounted for, unless the reservation was taken away from      *)
(* outside while an operation was under way or the lease stayed.            *)
NoneCorrupt == faults = 0 => AllReadable
Coupled == \A t \in Task : Paired(op[t].todo)

(* By its reservation, by the prepare that has taken it, or by an operation *)
(* that is about to release it and may.                                     *)
Accounted(t) ==
    \/ \E p \in Holding(t) : held[p][t] = owner[t]
    \/ job # NoJob /\ [task |-> t, sid |-> owner[t]] \in job.done
    \/ At(t, "lease") /\ op[t].by \in {NoSession, owner[t]}
LeaseFits(t) == live[t] /\ owner[t] \in Sid => Accounted(t)
FitInv == NoneCorrupt /\ Coupled /\ (faults = 0 => \A t \in Task \ revoked : LeaseFits(t))

(* A lane's operation that has still to acquire the lease holds the         *)
(* reservation which it looked at when it began.                            *)
Claims(t) == \E i \in 1 .. Len(op[t].todo) : op[t].todo[i] = "assert"
Claimed(t) == Claims(t) /\ op[t].by \in Sid => \E p \in Holding(t) : held[p][t] = op[t].by
ClaimInv == faults = 0 => \A t \in Task \ revoked : Claimed(t)
LeaseInv == FitInv /\ ClaimInv

LEMMA LeaseBegins == Init => LeaseInv
<1> SUFFICES ASSUME Init PROVE LeaseInv
  OBVIOUS
<1>1. NoneCorrupt /\ \A t \in Task : LeaseFits(t)
  BY DEF Init, NoneCorrupt, AllReadable, Readable, NoPlan, LeaseFits
<1>2. Coupled
  BY ScriptsGood DEF Init, Coupled, NoOp, Good
<1>3. \A t \in Task : ~Claims(t)
  BY DEF Init, NoOp, Claims
<1> QED
  BY <1>1, <1>2, <1>3 DEF LeaseInv, FitInv, ClaimInv, Claimed

(* A step that takes a lease from nobody to nobody, and leaves what         *)
(* accounts for it.                                                         *)
Carried(t) ==
    live'[t] =>
        /\ live[t] /\ owner'[t] = owner[t]
        /\ \A p \in Holding(t) : held[p][t] = owner[t] => p \in Holding(t)' /\ held'[p][t] = held[p][t]
        /\ job # NoJob => job' # NoJob /\ job.done \subseteq job'.done
        /\ At(t, "lease") => At(t, "lease")' /\ op'[t].by = op[t].by

LEMMA CarriedFits == ASSUME NEW t \in Task, LeaseFits(t), Carried(t) PROVE LeaseFits(t)'
BY DEF LeaseFits, Carried, Accounted

(* Coupling is kept by what is left of a script.                            *)
LEMMA CoupledKept ==
    ASSUME OpsOK, Coupled, NEW t \in Task, NEW o, op' = [op EXCEPT ![t] = o], Paired(o.todo)
    PROVE  Coupled'
BY DEF OpsOK, Coupled

LEMMA BeginPaired ==
    ASSUME OpsOK, Coupled, NEW t \in Task, NEW steps, NEW s, NEW to, Good(steps),
           Begin(t, steps, s, to)
    PROVE  Coupled'
<1> DEFINE o == [todo |-> steps, by |-> s, from |-> stage[t], to |-> to, tree |-> tree[t]]
<1>1. o.todo = steps
  OBVIOUS
<1>2. op' = [op EXCEPT ![t] = o]
  BY DEF Begin
<1> QED
  <2> HIDE DEF o
  <2> QED
    BY <1>1, <1>2, CoupledKept DEF Good

LEMMA StopPaired ==
    ASSUME OpsOK, Coupled, NEW t \in Task, Stop(t)
    PROVE  Coupled' /\ ~Claims(t)'
<1>1. Paired(NoOp.todo)
  BY ScriptsGood DEF NoOp, Good
<1>2. ~Claims(t)'
  BY DEF Stop, OpsOK, Claims, NoOp
<1> QED
  BY <1>1, <1>2, CoupledKept DEF Stop

LEMMA SkipPaired ==
    ASSUME OpsOK, Coupled, NEW t \in Task, NEW n \in {1, 2}, Skip(t, n)
    PROVE  /\ Coupled'
           /\ n = 1 /\ At(t, "remove") => At(t, "lease")' /\ op'[t].by = op[t].by
           /\ At(t, "remove") => ~Claims(t)'
           /\ Claims(t)' => Claims(t) /\ op'[t].by = op[t].by
<1> DEFINE todo == op[t].todo
           rest == SubSeq(todo, n + 1, Len(todo))
           o == Rest(op[t], n)
<1>1. todo \in Seq(Steps) /\ op[t] \in Ops
  BY DEF OpsOK, Ops, Steps
<1>2. /\ rest \in Seq(Steps)
      /\ Len(rest) = IF Len(todo) >= n THEN Len(todo) - n ELSE 0
      /\ \A i \in 1 .. Len(rest) : rest[i] = todo[i + n]
  <2>1. \A i \in n + 1 .. Len(todo) : todo[i] \in Steps
    BY <1>1
  <2>2. Len(todo) \in Nat /\ n + 1 \in Int
    BY <1>1
  <2> QED
    <3> HIDE DEF todo
    <3> QED
      BY <2>1, <2>2, SubSeqProperties
<1>3. Paired(todo)
  BY DEF Coupled
<1>4. Paired(rest)
  <2>1. Len(todo) \in Nat /\ Len(rest) \in Nat
    BY <1>1, <1>2
  <2> HIDE DEF todo, rest
  <2>2. ASSUME NEW i \in 1 .. Len(rest), rest[i] = "remove"
        PROVE  /\ i < Len(rest) /\ rest[i + 1] = "lease"
               /\ \A j \in i + 1 .. Len(rest) : rest[j] # "assert"
    <3>1. i + n \in 1 .. Len(todo) /\ todo[i + n] = "remove" /\ Len(rest) = Len(todo) - n
      BY <1>2, <2>1, <2>2
    <3>2. /\ i + n < Len(todo) /\ todo[(i + n) + 1] = "lease"
          /\ \A j \in (i + n) + 1 .. Len(todo) : todo[j] # "assert"
      BY <1>3, <3>1 DEF Paired
    <3>3. i < Len(rest) /\ rest[i + 1] = "lease"
      <4>1. i + 1 \in 1 .. Len(rest) /\ (i + 1) + n = (i + n) + 1
        BY <2>1, <3>1, <3>2
      <4> QED
        BY <1>2, <2>1, <3>1, <3>2, <4>1
    <3>4. ASSUME NEW j \in i + 1 .. Len(rest) PROVE rest[j] # "assert"
      <4>1. j \in 1 .. Len(rest) /\ j + n \in (i + n) + 1 .. Len(todo)
        BY <2>1, <3>1, <3>4
      <4> QED
        BY <1>2, <3>2, <4>1
    <3> QED
      BY <3>3, <3>4
  <2> QED
    BY <2>2 DEF Paired
<1>5. o = [op[t] EXCEPT !.todo = rest]
  BY DEF Rest
<1>6. o.todo = rest /\ o.by = op[t].by
  <2> HIDE DEF rest, o
  <2> QED
    BY <1>1, <1>5 DEF Ops
<1>7. op' = [op EXCEPT ![t] = Ended(o)]
  BY DEF Skip
<1>8. Paired(Ended(o).todo)
  <2> HIDE DEF rest, o
  <2> QED
    BY <1>4, <1>6, ScriptsGood DEF Ended, NoOp, Good
<1>9. Coupled'
  <2> HIDE DEF o
  <2> QED
    BY <1>7, <1>8, CoupledKept
<1>10. ASSUME n = 1, At(t, "remove") PROVE At(t, "lease")' /\ op'[t].by = op[t].by
  <2>1. todo # << >> /\ todo[1] = "remove"
    BY <1>1, <1>10 DEF At
  <2>2. Len(todo) \in Nat /\ Len(todo) >= 1
    BY <1>1, <2>1
  <2>3. 1 < Len(todo) /\ todo[2] = "lease"
    BY <1>3, <2>1, <2>2 DEF Paired
  <2>4. rest # << >> /\ rest[1] = "lease"
    <3> HIDE DEF todo, rest
    <3> QED
      BY <1>2, <1>10, <2>2, <2>3
  <2>5. Ended(o) = o
    <3> HIDE DEF o, rest
    <3> QED
      BY <1>6, <2>4 DEF Ended
  <2>6. op'[t] = o
    <3> HIDE DEF o
    <3> QED
      BY <1>7, <2>5 DEF OpsOK
  <2> QED
    <3> HIDE DEF o, rest
    <3> QED
      BY <1>2, <1>6, <2>4, <2>6 DEF At
<1>11. op'[t] = Ended(o)
  <2> HIDE DEF o
  <2> QED
    BY <1>7 DEF OpsOK
<1>12. ASSUME Claims(t)' PROVE op'[t] = o
  <2>1. op'[t] # NoOp
    BY <1>12 DEF Claims, NoOp
  <2> QED
    <3> HIDE DEF o
    <3> QED
      BY <1>11, <2>1 DEF Ended
<1>13. ASSUME Claims(t)'
       PROVE  \E i \in 1 .. Len(rest) : todo[i + n] = "assert" /\ i + n \in 1 .. Len(todo)
  <2>1. PICK i \in 1 .. Len(rest) : rest[i] = "assert"
    <3>1. op'[t].todo = rest
      <4> HIDE DEF o, rest
      <4> QED
        BY <1>6, <1>12, <1>13
    <3> HIDE DEF rest
    <3> QED
      BY <1>13, <3>1 DEF Claims
  <2>2. Len(todo) \in Nat
    BY <1>1
  <2> HIDE DEF rest, todo
  <2>3. todo[i + n] = "assert" /\ i + n \in 1 .. Len(todo)
    BY <1>2, <2>1, <2>2
  <2> QED
    BY <2>3
<1>14. ASSUME At(t, "remove") PROVE ~Claims(t)'
  <2>1. todo # << >> /\ todo[1] = "remove"
    BY <1>1, <1>14 DEF At
  <2>2. Len(todo) \in Nat /\ Len(todo) >= 1
    BY <1>1, <2>1
  <2>3. \A j \in 2 .. Len(todo) : todo[j] # "assert"
    <3> HIDE DEF todo
    <3> QED
      BY <1>3, <2>1, <2>2 DEF Paired
  <2>4. ASSUME Claims(t)' PROVE FALSE
    <3>1. PICK i \in 1 .. Len(rest) : todo[i + n] = "assert" /\ i + n \in 1 .. Len(todo)
      BY <1>13, <2>4
    <3>2. i + n \in 2 .. Len(todo)
      <4> HIDE DEF todo, rest
      <4> QED
        BY <1>2, <2>2, <3>1
    <3> QED
      <4> HIDE DEF todo, rest
      <4> QED
        BY <2>3, <3>1, <3>2
  <2> QED
    BY <2>4
<1>15. Claims(t)' => Claims(t) /\ op'[t].by = op[t].by
  <2> SUFFICES ASSUME Claims(t)' PROVE Claims(t) /\ op'[t].by = op[t].by
    OBVIOUS
  <2>1. op'[t].by = op[t].by
    <3> HIDE DEF o, rest
    <3> QED
      BY <1>6, <1>12
  <2>2. Claims(t)
    BY <1>13 DEF Claims
  <2> QED
    BY <2>1, <2>2
<1> QED
  BY <1>9, <1>10, <1>14, <1>15

-----------------------------------------------------------------------------
(* The steps on the plans.  Only a heartbeat gives a lease, to the session  *)
(* that is reserved.                                                        *)
LEMMA PlanStepFits ==
    ASSUME NEW p \in Parent, TypeInv, FitInv, PlanStep(p)
    PROVE  FitInv'
<1>1. /\ PlansOK /\ HeldInPlan /\ LeasesOK /\ OpsOK /\ JobOK
      /\ faults \in 0 .. MaxFaults /\ MaxFaults \in Nat
  BY BoundAssumption DEF TypeInv, CountsOK
<1>2. /\ faults = 0 => AllReadable
      /\ \A t \in Task \ revoked : faults = 0 => LeaseFits(t)
  BY DEF FitInv, NoneCorrupt
<1>c. ASSUME op' = op PROVE Coupled'
  BY <1>c DEF FitInv, Coupled
<1>f. ASSUME op' = op, faults' = faults, faults = 0 => AllReadable', revoked \subseteq revoked',
             \A t \in Task \ revoked' : faults = 0 => Carried(t)
      PROVE  FitInv'
  BY <1>2, <1>c, <1>f, CarriedFits DEF FitInv, NoneCorrupt
<1>d. ASSUME NEW S \in SUBSET Task, DropLeases(S)
      PROVE  \A t \in Task : live'[t] => live[t] /\ owner'[t] = owner[t] /\ t \notin S
  BY <1>1, <1>d DEF DropLeases, LeasesOK
<1>a. ASSUME NEW q \in Parent, plan' = [plan EXCEPT ![p] = plan'[p]], plan'[p].status # "corrupt",
             AllReadable
      PROVE  AllReadable'
  BY <1>1, <1>a DEF AllReadable, Readable, PlansOK
<1>3. ASSUME NEW n \in 1 .. MaxParallel, Refresh(p, n) PROVE FitInv'
  <2>1. /\ plan' = [plan EXCEPT ![p].limit = n] /\ plan[p].status = "ok"
        /\ held' = held /\ owner' = owner /\ live' = live /\ job' = job /\ op' = op
        /\ faults' = faults /\ revoked' = revoked
    BY <1>3 DEF Refresh, leases, spent
  <2>2. \A q \in Parent : plan'[q].status = plan[q].status /\ plan'[q].ids = plan[q].ids
    BY <1>1, <2>1 DEF PlansOK, Plans
  <2>3. \A t \in Task : Holding(t)' = Holding(t)
    BY <2>1, <2>2 DEF Holding, PlansOf
  <2>4. faults = 0 => AllReadable'
    BY <1>2, <2>2 DEF AllReadable, Readable
  <2> QED
    BY <1>f, <2>1, <2>3, <2>4 DEF Carried, At
<1>4. ASSUME NEW n \in 1 .. MaxParallel, NEW ids \in Candidates[p], NewPlan(p, ids, n)
      PROVE  FitInv'
  <2>1. /\ plan' = [plan EXCEPT ![p] = [status |-> "ok", ids |-> ids, limit |-> n]]
        /\ plan[p].status = "none"
        /\ held' = held /\ owner' = owner /\ live' = live /\ job' = job /\ op' = op
        /\ faults' = faults /\ revoked' = revoked
    BY <1>4 DEF NewPlan, leases, spent
  <2>2. /\ \A q \in Parent \ {p} : plan'[q] = plan[q]
        /\ plan'[p].status = "ok"
    BY <1>1, <2>1 DEF PlansOK
  <2>3. \A t \in Task : Holding(t) \subseteq Holding(t)'
    BY <2>1, <2>2 DEF Holding, PlansOf
  <2>4. faults = 0 => AllReadable'
    BY <1>2, <2>2 DEF AllReadable, Readable
  <2> QED
    BY <1>f, <2>1, <2>3, <2>4 DEF Carried, At
<1>5. ASSUME NEW n \in 1 .. MaxParallel, NEW ids \in Candidates[p], Replan(p, ids, n)
      PROVE  FitInv'
  <2>1. /\ plan' = [plan EXCEPT ![p] = [status |-> "ok", ids |-> ids, limit |-> n]]
        /\ held' = None(p) /\ owner' = owner /\ live' = live /\ job' = job /\ op' = op
        /\ faults' = faults
        /\ revoked' = revoked \cup {t \in {u \in Task : held[p][u] # NoSession} : ~Idle(t) \/ live'[t]}
    BY <1>5 DEF Replan, Revoke, leases
  <2>2. /\ \A q \in Parent \ {p} : plan'[q] = plan[q] /\ held'[q] = held[q]
        /\ plan'[p].status = "ok"
    BY <1>1, <2>1 DEF PlansOK, None
  <2>3. faults = 0 => AllReadable'
    BY <1>2, <2>2 DEF AllReadable, Readable
  <2>4. ASSUME NEW t \in Task \ revoked', live'[t], NEW q \in Holding(t)
        PROVE  q \in Holding(t)' /\ held'[q][t] = held[q][t]
    <3>1. q # p
      BY <2>1, <2>4 DEF Holding
    <3> QED
      BY <2>2, <2>4, <3>1 DEF Holding, PlansOf
  <2> QED
    BY <1>f, <2>1, <2>3, <2>4 DEF Carried, At
<1>6. ASSUME NEW force \in BOOLEAN, Cancel(p, force) PROVE FitInv'
  <2> DEFINE kept == {t \in Task : held[p][t] # NoSession}
  <2>1. /\ plan' = [plan EXCEPT ![p] = NoPlan] /\ held' = None(p) /\ DropLeases(kept)
        /\ job' = job /\ op' = op /\ faults' = faults /\ revoked \subseteq revoked'
    BY <1>6 DEF Cancel, Revoke
  <2>2. /\ \A q \in Parent \ {p} : plan'[q] = plan[q] /\ held'[q] = held[q]
        /\ plan'[p].status = "none"
    BY <1>1, <2>1 DEF PlansOK, None, NoPlan
  <2>3. faults = 0 => AllReadable'
    BY <1>2, <2>2 DEF AllReadable, Readable
  <2>4. \A t \in Task : live'[t] => live[t] /\ owner'[t] = owner[t] /\ t \notin kept
    BY <1>d, <2>1
  <2>5. ASSUME NEW t \in Task, live'[t], NEW q \in Holding(t)
        PROVE  q \in Holding(t)' /\ held'[q][t] = held[q][t]
    <3>1. q # p
      BY <2>4, <2>5 DEF Holding
    <3> QED
      BY <2>2, <2>5, <3>1 DEF Holding, PlansOf
  <2> QED
    <3> HIDE DEF kept
    <3> QED
      BY <1>f, <2>1, <2>3, <2>4, <2>5 DEF Carried, At
<1>7. ASSUME CancelCorrupt(p) PROVE FitInv'
  <2>1. faults # 0
    BY <1>2, <1>7 DEF CancelCorrupt, AllReadable, Readable
  <2>2. op' = op /\ faults' = faults
    BY <1>7 DEF CancelCorrupt, spent
  <2> QED
    BY <1>c, <2>1, <2>2 DEF FitInv, NoneCorrupt
<1>8. ASSUME CorruptPlan(p) PROVE FitInv'
  <2>1. faults' # 0 /\ op' = op
    BY <1>1, <1>8 DEF CorruptPlan, Fault
  <2> QED
    BY <1>c, <2>1 DEF FitInv, NoneCorrupt
<1>9. ASSUME NEW t \in Task, NEW force \in BOOLEAN, ReleaseLane(p, t, force) PROVE FitInv'
  <2>1. /\ plan' = plan /\ DropLeases({t}) /\ job' = job /\ op' = op /\ faults' = faults
        /\ held' = IF AllReadable THEN [held EXCEPT ![p][t] = NoSession] ELSE held
        /\ revoked \subseteq revoked'
    BY <1>9 DEF ReleaseLane, Revoke
  <2>2. \A q \in Parent, u \in Task \ {t} : held'[q][u] = held[q][u]
    BY <1>1, <2>1 DEF PlansOK
  <2>3. faults = 0 => AllReadable'
    BY <1>2, <2>1 DEF AllReadable, Readable
  <2>4. \A u \in Task : live'[u] => live[u] /\ owner'[u] = owner[u] /\ u # t
    BY <1>d, <2>1
  <2>5. \A u \in Task \ {t} : Holding(u)' = Holding(u)
    BY <2>1, <2>2 DEF Holding, PlansOf
  <2>6. \A u \in Task : \A q \in Holding(u) : q \in Parent
    BY DEF Holding, PlansOf
  <2> QED
    BY <1>f, <2>1, <2>2, <2>3, <2>4, <2>5, <2>6 DEF Carried, At
<1>10. ASSUME NEW t \in Task, Heartbeat(p, t) PROVE FitInv'
  <2>1. /\ plan' = plan /\ held' = held /\ job' = job /\ op' = op /\ faults' = faults
        /\ revoked' = revoked /\ plan[p].status = "ok" /\ held[p][t] # NoSession
        /\ owner' = [owner EXCEPT ![t] = held[p][t]] /\ live' = [live EXCEPT ![t] = TRUE]
    BY <1>10 DEF Heartbeat, plans, spent
  <2>2. faults = 0 => AllReadable'
    BY <1>2, <2>1 DEF AllReadable, Readable
  <2>3. p \in Holding(t)
    BY <1>1, <2>1 DEF Holding, PlansOf, HeldInPlan
  <2>4. \A u \in Task : Holding(u)' = Holding(u)
    BY <2>1 DEF Holding, PlansOf
  <2>5. LeaseFits(t)'
    BY <1>1, <2>1, <2>3, <2>4 DEF LeaseFits, Accounted, LeasesOK
  <2>6. \A u \in Task \ {t} : Carried(u)
    BY <1>1, <2>1, <2>4 DEF Carried, At, LeasesOK
  <2> QED
    BY <1>2, <1>c, <2>1, <2>2, <2>5, <2>6, CarriedFits DEF FitInv, NoneCorrupt
<1>11. ASSUME BeginPrepare(p) PROVE FitInv'
  <2>1. /\ plan' = plan /\ held' = held /\ op' = op /\ faults' = faults /\ job = NoJob
        /\ owner' = owner /\ live' = live /\ revoked' = revoked
    BY <1>11 DEF BeginPrepare, LockFree, leases, plans, spent
  <2>2. faults = 0 => AllReadable'
    BY <1>2, <2>1 DEF AllReadable, Readable
  <2>3. \A t \in Task : Carried(t)
    BY <2>1 DEF Carried, At, Holding, PlansOf
  <2> QED
    BY <1>f, <2>1, <2>2, <2>3
<1> QED
  BY <1>3, <1>4, <1>5, <1>6, <1>7, <1>8, <1>9, <1>10, <1>11 DEF PlanStep

(* The steps of a prepare.  A lease that it takes is on its list until it   *)
(* is reserved, or given back.                                              *)
LEMMA WaveStepFits ==
    ASSUME TypeInv, WaveInv, FitInv, WaveStep
    PROVE  FitInv'
<1>0. job # NoJob
  <2>1. job.at \in {"lanes", "tree"}
    BY DEF WaveStep, ReserveLane, SaveWorktree, CommitWave, RollBackWave
  <2> QED
    BY <2>1 DEF NoJob
<1>1. /\ PlansOK /\ HeldInPlan /\ LeasesOK /\ JobFits
      /\ job \in Jobs /\ job # NoJob /\ op' = op /\ faults' = faults /\ plan' = plan
      /\ revoked' = revoked
  <2>1. op' = op /\ faults' = faults /\ plan' = plan /\ revoked' = revoked
    BY DEF WaveStep, ReserveLane, SaveWorktree, CommitWave, RollBackWave, spent, plans
  <2> QED
    BY <1>0, <2>1 DEF TypeInv, JobOK
<1>2. /\ NoneCorrupt' /\ Coupled'
      /\ \A t \in Task \ revoked : faults = 0 => LeaseFits(t)
  BY <1>1 DEF FitInv, NoneCorrupt, AllReadable, Readable, Coupled
<1>3. CASE ReserveLane
  <2>1. PICK t \in Task : t = Least(job.todo)
    <3>1. job.todo \subseteq Task
      BY <1>1 DEF Jobs
    <3> QED
      BY <1>3, <3>1, LeastMember DEF ReserveLane
  <2>0. PICK s : s = [parent |-> job.parent, n |-> minted + 1]
    OBVIOUS
  <2>2. /\ owner' = [owner EXCEPT ![t] = s] /\ live' = [live EXCEPT ![t] = TRUE]
        /\ held' = held
    BY <1>3, <2>0, <2>1 DEF ReserveLane, plans
  <2>3. job'.done = job.done \cup {[task |-> t, sid |-> s]} /\ job' # NoJob
    <3>1. job' = [job EXCEPT !.todo = job.todo \ {t},
                             !.done = job.done \cup {[task |-> t, sid |-> s]},
                             !.at = IF IsolatedWrite(t) /\ ~tree[t] THEN "tree" ELSE "lanes",
                             !.task = t, !.copy = stage[t]]
      BY <1>3, <2>0, <2>1 DEF ReserveLane
    <3>2. job'.done = job.done \cup {[task |-> t, sid |-> s]} /\ job'.at \in {"tree", "lanes"}
      BY <1>1, <3>1 DEF Jobs
    <3> QED
      BY <3>2 DEF NoJob
  <2>4. /\ owner'[t] = s
        /\ \A u \in Task \ {t} : owner'[u] = owner[u] /\ live'[u] = live[u]
        /\ \A u \in Task : Holding(u)' = Holding(u)
    BY <1>1, <2>1, <2>2 DEF LeasesOK, Holding, PlansOf
  <2>5. LeaseFits(t)'
    BY <2>3, <2>4 DEF LeaseFits, Accounted
  <2>6. \A u \in Task \ {t} : Carried(u)
    BY <1>1, <2>2, <2>3, <2>4 DEF Carried, At
  <2> QED
    BY <1>1, <1>2, <2>5, <2>6, CarriedFits DEF FitInv
<1>4. CASE SaveWorktree
  <2>1. owner' = owner /\ live' = live /\ held' = held
    BY <1>4 DEF SaveWorktree, leases, plans
  <2>2. job'.done = job.done /\ job' # NoJob
    <3>1. job' = [job EXCEPT !.at = "lanes", !.made = job.made \cup {job.task}]
      BY <1>4 DEF SaveWorktree
    <3>2. job'.done = job.done /\ job'.at = "lanes"
      BY <1>1, <3>1 DEF Jobs
    <3> QED
      BY <3>2 DEF NoJob
  <2>3. \A u \in Task : Carried(u)
    BY <1>1, <2>1, <2>2 DEF Carried, At, Holding, PlansOf
  <2> QED
    BY <1>1, <1>2, <2>3, CarriedFits DEF FitInv
<1>5. CASE CommitWave
  <2>1. owner' = owner /\ live' = live
    BY <1>5 DEF CommitWave, leases
  <2> SUFFICES ASSUME NEW t \in Task \ revoked, LeaseFits(t), live[t], owner[t] \in Sid
               PROVE  Accounted(t)'
    BY <1>1, <1>2, <2>1 DEF FitInv, LeaseFits
  <2>2. CASE \E p \in Holding(t) : held[p][t] = owner[t]
    <3>1. PICK p \in Parent : p \in PlansOf(t) /\ held[p][t] = owner[t] /\ held[p][t] # NoSession
      BY <2>2 DEF Holding, PlansOf
    <3>2. t \notin DoneTasks
      BY <1>1, <3>1 DEF WaveInv, JobClear
    <3>3. held'[p][t] = held[p][t]
      BY <1>5, <3>2, CommitWrites
    <3> QED
      BY <1>1, <2>1, <3>1, <3>3 DEF Accounted, Holding, PlansOf
  <2>3. CASE [task |-> t, sid |-> owner[t]] \in job.done
    <3> DEFINE d == [task |-> t, sid |-> owner[t]]
    <3>1. d.task = t /\ d.sid = owner[t] /\ d \in job.done
      BY <2>3
    <3> HIDE DEF d
    <3>2. held'[job.parent][t] = owner[t] /\ job.parent \in Parent
      BY <1>5, <3>1, CommitWrites
    <3>3. plan[job.parent].status = "ok" /\ t \in plan[job.parent].ids
      BY <1>1, <3>1 DEF JobFits, DoneTasks
    <3>4. job.parent \in Holding(t)'
      BY <1>1, <3>2, <3>3, SessionAssumption DEF Holding, PlansOf
    <3> QED
      BY <2>1, <3>2, <3>4 DEF Accounted
  <2>4. CASE At(t, "lease") /\ op[t].by \in {NoSession, owner[t]}
    BY <1>1, <2>1, <2>4 DEF Accounted, At
  <2> QED
    BY <2>2, <2>3, <2>4 DEF LeaseFits, Accounted
<1>6. CASE RollBackWave
  <2> DEFINE back == {d.task : d \in {e \in job.done : ~live[e.task] \/ owner[e.task] = e.sid}}
  <2>1. DropLeases(back) /\ held' = held
    BY <1>6 DEF RollBackWave, plans
  <2> SUFFICES ASSUME NEW t \in Task \ revoked, LeaseFits(t), live'[t], owner'[t] \in Sid
               PROVE  Accounted(t)'
    BY <1>1, <1>2 DEF FitInv, LeaseFits
  <2>2. live[t] /\ owner'[t] = owner[t] /\ t \notin back
    BY <1>1, <2>1 DEF DropLeases, LeasesOK
  <2>3. [task |-> t, sid |-> owner[t]] \notin job.done
    <3> DEFINE d == [task |-> t, sid |-> owner[t]]
    <3>1. d.task = t /\ d.sid = owner[t]
      OBVIOUS
    <3> HIDE DEF d
    <3>2. d \notin job.done
      BY <2>2, <3>1
    <3> QED
      BY <3>2 DEF d
  <2>4. CASE \E p \in Holding(t) : held[p][t] = owner[t]
    BY <1>1, <2>1, <2>2, <2>4 DEF Accounted, Holding, PlansOf
  <2>5. CASE At(t, "lease") /\ op[t].by \in {NoSession, owner[t]}
    BY <1>1, <2>2, <2>5 DEF Accounted, At
  <2> QED
    BY <2>2, <2>3, <2>4, <2>5 DEF LeaseFits, Accounted
<1> QED
  BY <1>3, <1>4, <1>5, <1>6 DEF WaveStep

-----------------------------------------------------------------------------
(* The steps of the workflow.  A command that begins needs an idle task,    *)
(* so no other was about to release the lease.                              *)
LEMMA TaskStepParts ==
    ASSUME NEW t \in Task, TypeInv, TaskStep(t)
    PROVE  /\ plan' = plan /\ held' = held /\ job' = job /\ revoked' = revoked
           /\ faults' = 0 => faults = 0
           /\ \A u \in Task \ {t} : live'[u] = live[u] /\ owner'[u] = owner[u] /\ op'[u] = op[u]
           /\ \/ \E steps, to : \E s \in Sessions(t) \cup {NoSession} :
                    /\ s # NoSession => Authority(t, s)
                    /\ Good(steps) /\ Begin(t, steps, s, to)
              \/ op' = op /\ (live'[t] => owner'[t] = Outsider)
              \/ faults' # 0 /\ Stop(t)
<1>1. LeasesOK /\ OpsOK /\ TasksOK /\ faults \in Nat
  BY BoundAssumption DEF TypeInv, CountsOK
<1>2. ASSUME NEW steps, NEW s, NEW to, Begin(t, steps, s, to)
      PROVE  /\ plan' = plan /\ held' = held /\ job' = job /\ revoked' = revoked
             /\ faults' = faults
             /\ \A u \in Task \ {t} : live'[u] = live[u] /\ owner'[u] = owner[u] /\ op'[u] = op[u]
  BY <1>1, <1>2 DEF Begin, Move, leases, plans, OpsOK
<1>3. ASSUME NEW s \in Sessions(t), AgentStep(t, s)
      PROVE  \E steps, to : Authority(t, s) /\ Good(steps) /\ Begin(t, steps, s, to)
  BY <1>1, <1>3, AgentBegins
<1>4. CASE HumanStep(t)
  <2>1. PICK steps, to : Good(steps) /\ Begin(t, steps, NoSession, to)
    BY <1>4, HumanBegins
  <2> QED
    BY <1>2, <2>1
<1>5. CASE ExpireLease(t)
  <2>1. ~live'[t]
    BY <1>1, <1>5 DEF ExpireLease, LeasesOK
  <2> QED
    BY <1>1, <1>5, <2>1 DEF ExpireLease, LeasesOK, plans, spent
<1>6. CASE OutsiderLease(t)
  BY <1>1, <1>6 DEF OutsiderLease, Move, LeasesOK, plans
<1>7. CASE CrashOp(t)
  <2>1. faults' # 0
    BY <1>1, <1>7 DEF CrashOp, Fault
  <2> QED
    BY <1>1, <1>7, <2>1 DEF CrashOp, Fault, Stop, OpsOK, plans, leases
<1>8. CASE \E s \in Sessions(t) : AgentStep(t, s)
  <2>1. PICK s \in Sessions(t) : AgentStep(t, s)
    BY <1>8
  <2>2. PICK steps, to : Authority(t, s) /\ Good(steps) /\ Begin(t, steps, s, to)
    BY <1>3, <2>1
  <2> QED
    BY <1>2, <2>2
<1> QED
  BY <1>4, <1>5, <1>6, <1>7, <1>8 DEF TaskStep

LEMMA TaskStepFits ==
    ASSUME NEW t \in Task, TypeInv, FitInv, TaskStep(t)
    PROVE  FitInv'
<1>1. /\ PlansOK /\ LeasesOK /\ OpsOK /\ Coupled
      /\ plan' = plan /\ held' = held /\ job' = job /\ revoked' = revoked
      /\ faults' = 0 => faults = 0
      /\ \A u \in Task : Holding(u)' = Holding(u)
  BY TaskStepParts DEF TypeInv, FitInv, Holding, PlansOf
<1>2. NoneCorrupt'
  BY <1>1 DEF FitInv, NoneCorrupt, AllReadable, Readable
<1>3. ASSUME NEW u \in Task \ revoked, u # t, faults' = 0 PROVE LeaseFits(u)'
  <2>1. live'[u] = live[u] /\ owner'[u] = owner[u] /\ op'[u] = op[u]
    BY <1>3, TaskStepParts
  <2>2. Carried(u) /\ LeaseFits(u)
    BY <1>1, <1>3, <2>1 DEF Carried, At, LeasesOK, Holding, PlansOf, FitInv
  <2> QED
    BY <2>2, CarriedFits
<1>4. ASSUME NEW steps, NEW to, NEW s, Good(steps), Begin(t, steps, s, to)
      PROVE  Coupled' /\ (t \notin revoked /\ faults' = 0 => LeaseFits(t)')
  <2>1. Coupled'
    BY <1>1, <1>4, BeginPaired
  <2>2. ~At(t, "lease")
    BY <1>4 DEF Begin, Idle, NoOp, At
  <2>3. Carried(t)
    BY <1>1, <1>4, <2>2 DEF Begin, leases, Carried, LeasesOK, Holding, PlansOf
  <2> QED
    BY <1>1, <2>1, <2>3, CarriedFits DEF FitInv
<1>5. CASE op' = op /\ (live'[t] => owner'[t] = Outsider)
  <2>1. LeaseFits(t)' /\ Coupled'
    BY <1>1, <1>5, SessionAssumption DEF LeaseFits, Coupled
  <2> QED
    BY <1>1, <1>2, <1>3, <2>1 DEF FitInv
<1>6. CASE faults' # 0 /\ Stop(t)
  BY <1>1, <1>2, <1>6, StopPaired DEF FitInv
<1>7. CASE \E steps, to : \E s \in Sessions(t) \cup {NoSession} :
                 Good(steps) /\ Begin(t, steps, s, to)
  <2>1. Coupled' /\ (t \notin revoked /\ faults' = 0 => LeaseFits(t)')
    BY <1>4, <1>7
  <2> QED
    BY <1>1, <1>2, <1>3, <2>1 DEF FitInv
<1> QED
  BY <1>5, <1>6, <1>7, TaskStepParts

(* Each step of an operation.  One that acquires the lease for a lane still *)
(* has its reservation, unless that was taken away.                         *)
LEMMA OpStepFits ==
    ASSUME NEW t \in Task, TypeInv, FitInv, ClaimInv, OpStep(t)
    PROVE  FitInv'
<1>1. /\ PlansOK /\ LeasesOK /\ OpsOK /\ Coupled
      /\ plan' = plan /\ job' = job /\ faults' = faults /\ revoked' = revoked
  BY DEF TypeInv, FitInv, OpStep, OpAssert, OpRecheck, OpSeal, OpRemove, OpLease, OpForce, OpSave,
         plans, spent
<1>2. NoneCorrupt' /\ (faults = 0 => AllReadable /\ \A u \in Task \ revoked : LeaseFits(u))
  BY <1>1 DEF FitInv, NoneCorrupt, AllReadable, Readable
<1>3. Coupled'
  BY <1>1, SkipPaired, StopPaired
  DEF OpStep, OpAssert, OpRecheck, OpSeal, OpRemove, OpLease, OpForce, OpSave
<1>d. ASSUME NEW S \in SUBSET Task, DropLeases(S)
      PROVE  \A u \in Task : /\ u \in S => ~live'[u]
                             /\ u \notin S => owner'[u] = owner[u] /\ live'[u] = live[u]
  BY <1>1, <1>d DEF DropLeases, LeasesOK
<1>4. ASSUME NEW u \in Task \ revoked, u # t, faults = 0 PROVE LeaseFits(u)'
  <2>1. op'[u] = op[u]
    BY <1>1, <1>4
    DEF OpStep, OpAssert, OpRecheck, OpSeal, OpRemove, OpLease, OpForce, OpSave, Skip, Stop, OpsOK
  <2>2. owner'[u] = owner[u] /\ live'[u] = live[u]
    <3>1. CASE OpAssert(t)
      BY <1>1, <1>4, <3>1 DEF OpAssert, leases, LeasesOK
    <3>2. CASE OpRecheck(t)
      <4>1. {t} \subseteq Task /\ {} \subseteq Task
        OBVIOUS
      <4> QED
        BY <1>d, <1>4, <3>2, <4>1 DEF OpRecheck, leases
    <3>3. CASE OpLease(t) \/ OpForce(t)
      BY <1>d, <1>4, <3>3 DEF OpLease, OpForce, leases
    <3> QED
      BY <3>1, <3>2, <3>3 DEF OpStep, OpSeal, OpRemove, OpSave, leases
  <2>3. \A p \in Parent : held'[p][u] = held[p][u]
    BY <1>1, <1>4 DEF OpStep, OpAssert, OpRecheck, OpSeal, OpRemove, OpLease, OpForce, OpSave,
                      Without, plans, PlansOK
  <2>4. Carried(u)
    BY <1>1, <2>1, <2>2, <2>3 DEF Carried, At, Holding, PlansOf, LeasesOK
  <2> QED
    BY <1>2, <1>4, <2>4, CarriedFits
<1>5. ASSUME faults = 0, t \notin revoked PROVE LeaseFits(t)'
  <2>0. LeaseFits(t) /\ AllReadable
    BY <1>2, <1>5
  <2>e. ASSUME ~At(t, "lease"), held' = held, owner' = owner, live' = live PROVE LeaseFits(t)'
    <3>1. Carried(t)
      BY <1>1, <2>e DEF Carried, Holding, PlansOf, LeasesOK
    <3> QED
      BY <2>0, <3>1, CarriedFits
  <2>1. CASE OpRemove(t)
    <3>1. owner' = owner /\ live' = live /\ At(t, "remove") /\ ~At(t, "lease")
      BY <2>1 DEF OpRemove, leases, At
    <3>2. CASE held' = held
      BY <2>e, <3>1, <3>2
    <3>3. CASE Holding(t) = {}
      <4>1. Carried(t)
        BY <1>1, <3>1, <3>3 DEF Carried, LeasesOK
      <4> QED
        BY <2>0, <4>1, CarriedFits
    <3>4. CASE /\ op[t].by = NoSession \/ \A p \in Holding(t) : held[p][t] = op[t].by
               /\ Skip(t, 1)
      <4>1. At(t, "lease")' /\ op'[t].by = op[t].by
        BY <1>1, <3>1, <3>4, SkipPaired
      <4>2. ASSUME NEW p \in Holding(t), held[p][t] = owner[t]
            PROVE  op[t].by \in {NoSession, owner[t]}
        BY <3>4, <4>2
      <4> QED
        BY <1>1, <2>0, <3>1, <4>1, <4>2 DEF LeaseFits, Accounted
    <3> QED
      BY <2>1, <3>2, <3>3, <3>4 DEF OpRemove
  <2>2. CASE OpLease(t)
    <3>1. CASE live[t] /\ op[t].by # NoSession /\ owner[t] # op[t].by /\ UNCHANGED leases
      <4>1. held' = held
        BY <2>2 DEF OpLease, plans
      <4>2. LeaseFits(t) => (live[t] /\ owner[t] \in Sid =>
                  \/ \E p \in Holding(t) : held[p][t] = owner[t]
                  \/ job # NoJob /\ [task |-> t, sid |-> owner[t]] \in job.done)
        BY <3>1 DEF LeaseFits, Accounted
      <4> QED
        BY <1>1, <2>0, <3>1, <4>1, <4>2 DEF LeaseFits, Accounted, Holding, PlansOf, leases
    <3>2. CASE ~live'[t]
      BY <3>2 DEF LeaseFits
    <3> QED
      BY <1>1, <2>2, <3>1, <3>2 DEF OpLease, DropLeases, leases, LeasesOK
  <2>3. CASE OpForce(t)
    <3>1. ~live'[t]
      BY <1>1, <2>3 DEF OpForce, DropLeases, LeasesOK
    <3> QED
      BY <3>1 DEF LeaseFits
  <2>4. CASE OpSave(t) \/ OpSeal(t)
    <3>1. owner' = owner /\ live' = live /\ held' = held /\ ~At(t, "lease")
      BY <2>4 DEF OpSave, OpSeal, leases, plans, At
    <3> QED
      BY <2>e, <3>1
  <2>5. CASE OpAssert(t)
    <3>1. held' = held /\ ~At(t, "lease") /\ At(t, "assert")
      BY <2>5 DEF OpAssert, plans, At
    <3>2. CASE UNCHANGED leases
      BY <2>e, <3>1, <3>2 DEF leases
    <3>3. CASE owner' = [owner EXCEPT ![t] = op[t].by]
      <4>1. Claims(t)
        <5>1. op[t].todo \in Seq(Steps)
          BY <1>1 DEF OpsOK, Ops, Steps
        <5>2. 1 \in 1 .. Len(op[t].todo) /\ op[t].todo[1] = "assert"
          BY <3>1, <5>1 DEF At
        <5> QED
          BY <5>2 DEF Claims
      <4>2. Claimed(t)
        BY <1>5 DEF ClaimInv
      <4>3. owner'[t] = op[t].by
        BY <1>1, <3>3 DEF LeasesOK
      <4> QED
        BY <1>1, <3>1, <4>1, <4>2, <4>3 DEF Claimed, LeaseFits, Accounted, Holding, PlansOf
    <3> QED
      BY <2>5, <3>2, <3>3 DEF OpAssert
  <2>6. CASE OpRecheck(t)
    <3>1. held' = held /\ ~At(t, "lease")
      BY <2>6 DEF OpRecheck, plans, At
    <3>2. CASE UNCHANGED leases
      BY <2>e, <3>1, <3>2 DEF leases
    <3>3. CASE DropLeases({})
      <4>1. Carried(t)
        BY <1>1, <1>d, <3>1, <3>3 DEF Carried, Holding, PlansOf
      <4> QED
        BY <2>0, <4>1, CarriedFits
    <3>4. CASE DropLeases({t})
      BY <1>d, <3>4 DEF LeaseFits
    <3> QED
      BY <2>6, <3>2, <3>3, <3>4 DEF OpRecheck
  <2> QED
    BY <2>1, <2>2, <2>3, <2>4, <2>5, <2>6 DEF OpStep
<1> QED
  BY <1>1, <1>2, <1>3, <1>4, <1>5 DEF FitInv

(* A claim stands as long as its reservation does and the operation is the  *)
(* same.                                                                    *)
Standing(t) ==
    Claims(t)' =>
        /\ Claims(t) /\ op'[t].by = op[t].by
        /\ \A p \in Holding(t) :
              held[p][t] = op[t].by => p \in Holding(t)' /\ held'[p][t] = held[p][t]

LEMMA StandingClaims == ASSUME NEW t \in Task, Claimed(t), Standing(t) PROVE Claimed(t)'
BY DEF Claimed, Standing

(* Reservations end from outside only for a task that is then set apart, or *)
(* that no operation works on.                                              *)
LEMMA PlanStepStands ==
    ASSUME NEW p \in Parent, TypeInv, faults = 0, faults' = 0, NoneCorrupt, PlanStep(p)
    PROVE  revoked \subseteq revoked' /\ \A t \in Task \ revoked' : Standing(t)
<1>1. PlansOK /\ HeldInPlan /\ AllReadable /\ op' = op
  BY DEF TypeInv, NoneCorrupt, PlanStep, Refresh, NewPlan, Replan, Cancel, CancelCorrupt,
         CorruptPlan, Heartbeat, ReleaseLane, BeginPrepare
<1>2. ASSUME NEW t \in Task, \A q \in Holding(t) : q \in Holding(t)' /\ held'[q][t] = held[q][t]
      PROVE  Standing(t)
  BY <1>1, <1>2 DEF Standing, Claims
<1>3. ASSUME NEW t \in Task, Idle(t) PROVE Standing(t)
  BY <1>1, <1>3 DEF Idle, NoOp, Standing, Claims
<1>4. CASE \E n \in 1 .. MaxParallel : Refresh(p, n)
  <2>1. PICK n \in 1 .. MaxParallel : Refresh(p, n)
    BY <1>4
  <2>2. \A t \in Task : Holding(t)' = Holding(t)
    BY <1>1, <2>1 DEF Refresh, PlansOK, Plans, Holding, PlansOf
  <2> QED
    BY <1>2, <2>1, <2>2 DEF Refresh, spent
<1>5. ASSUME NEW n, NEW ids, NewPlan(p, ids, n)
      PROVE  revoked \subseteq revoked' /\ \A t \in Task \ revoked' : Standing(t)
  <2>1. \A t \in Task : \A q \in Holding(t) : q \in Holding(t)'
    BY <1>1, <1>5 DEF NewPlan, PlansOK, Plans, Holding, PlansOf
  <2> QED
    BY <1>2, <1>5, <2>1 DEF NewPlan, spent
<1>6. ASSUME UNCHANGED plans, UNCHANGED spent
      PROVE  revoked \subseteq revoked' /\ \A t \in Task \ revoked' : Standing(t)
  BY <1>2, <1>6 DEF plans, spent, Holding, PlansOf
<1>7. ASSUME NEW S \in SUBSET Task, Revoke(S),
             \A t \in Task \ S : \A q \in Holding(t) : q \in Holding(t)' /\ held'[q][t] = held[q][t]
      PROVE  revoked \subseteq revoked' /\ \A t \in Task \ revoked' : Standing(t)
  BY <1>2, <1>3, <1>7 DEF Revoke
<1>8. ASSUME plan' = [plan EXCEPT ![p] = plan'[p]], held' = None(p),
             Revoke({t \in Task : held[p][t] # NoSession})
      PROVE  revoked \subseteq revoked' /\ \A t \in Task \ revoked' : Standing(t)
  <2>1. \A q \in Parent \ {p} : plan'[q] = plan[q] /\ held'[q] = held[q]
    BY <1>1, <1>8 DEF PlansOK, None
  <2>2. ASSUME NEW t \in Task, held[p][t] = NoSession, NEW q \in Holding(t)
        PROVE  q \in Holding(t)' /\ held'[q][t] = held[q][t]
    BY <2>1, <2>2 DEF Holding, PlansOf
  <2> QED
    BY <1>7, <1>8, <2>2
<1>9. ASSUME NEW n, NEW ids, Replan(p, ids, n)
      PROVE  revoked \subseteq revoked' /\ \A t \in Task \ revoked' : Standing(t)
  <2>1. plan' = [plan EXCEPT ![p] = plan'[p]]
    BY <1>1, <1>9 DEF Replan, PlansOK
  <2> QED
    BY <1>8, <1>9, <2>1 DEF Replan
<1>10. ASSUME NEW force, Cancel(p, force)
       PROVE  revoked \subseteq revoked' /\ \A t \in Task \ revoked' : Standing(t)
  <2>1. plan' = [plan EXCEPT ![p] = plan'[p]]
    BY <1>1, <1>10 DEF Cancel, PlansOK
  <2> QED
    BY <1>8, <1>10, <2>1 DEF Cancel
<1>11. ASSUME NEW u \in Task, NEW force, ReleaseLane(p, u, force)
       PROVE  revoked \subseteq revoked' /\ \A t \in Task \ revoked' : Standing(t)
  <2>1. plan' = plan /\ held' = [held EXCEPT ![p][u] = NoSession] /\ Revoke({u})
    BY <1>1, <1>11 DEF ReleaseLane
  <2>2. ASSUME NEW t \in Task \ {u}, NEW q \in Holding(t)
        PROVE  q \in Holding(t)' /\ held'[q][t] = held[q][t]
    BY <1>1, <2>1, <2>2 DEF PlansOK, Holding, PlansOf
  <2> QED
    BY <1>7, <2>1, <2>2
<1>12. ~CancelCorrupt(p) /\ ~CorruptPlan(p)
  BY <1>1, BoundAssumption DEF CancelCorrupt, CorruptPlan, Fault, AllReadable, Readable, TypeInv, CountsOK
<1> QED
  BY <1>4, <1>5, <1>6, <1>9, <1>10, <1>11, <1>12 DEF PlanStep, BeginPrepare, Heartbeat

LEMMA ClaimsKept ==
    ASSUME TypeInv, WaveInv, FitInv, ClaimInv, Next
    PROVE  ClaimInv'
<1>1. PlansOK /\ HeldInPlan /\ OpsOK /\ NoneCorrupt /\ Coupled /\ faults \in Nat
  BY BoundAssumption DEF TypeInv, FitInv, CountsOK
<1>2. ASSUME faults' = 0 => faults = 0, revoked \subseteq revoked',
             faults' = 0 => \A t \in Task \ revoked' : Standing(t)
      PROVE  ClaimInv'
  <2>1. ASSUME faults' = 0, NEW t \in Task \ revoked' PROVE Claimed(t)'
    <3>1. Claimed(t) /\ Standing(t)
      BY <1>2, <2>1 DEF ClaimInv
    <3> QED
      BY <3>1, StandingClaims
  <2> QED
    BY <2>1 DEF ClaimInv
<1>3. ASSUME NEW p \in Parent, PlanStep(p) PROVE ClaimInv'
  <2>1. faults' = 0 => faults = 0
    <3>1. CorruptPlan(p) => faults' # 0
      BY <1>1 DEF CorruptPlan, Fault
    <3>2. ~CorruptPlan(p) => faults' = faults
      BY <1>3 DEF PlanStep, Refresh, NewPlan, Replan, Cancel, CancelCorrupt, Heartbeat,
                  ReleaseLane, BeginPrepare, spent
    <3> QED
      BY <3>1, <3>2
  <2>2. CASE faults' = 0
    BY <1>1, <1>2, <1>3, <2>1, <2>2, PlanStepStands
  <2> QED
    BY <2>2 DEF ClaimInv
<1>4. CASE WaveStep
  <2>1. op' = op /\ plan' = plan /\ faults' = faults /\ revoked' = revoked
    BY <1>4 DEF WaveStep, ReserveLane, SaveWorktree, CommitWave, RollBackWave, spent, plans
  <2>2. ASSUME NEW t \in Task, NEW p \in Holding(t) PROVE held'[p][t] = held[p][t]
    <3>1. p \in Parent /\ held[p][t] # NoSession
      BY <2>2 DEF Holding, PlansOf
    <3>2. CASE CommitWave
      <4>1. job # NoJob
        BY <3>2 DEF CommitWave, NoJob
      <4>2. t \notin DoneTasks
        BY <3>1, <4>1 DEF WaveInv, JobClear
      <4> QED
        BY <3>1, <3>2, <4>2, CommitWrites
    <3>3. CASE held' = held
      BY <3>3
    <3> QED
      BY <1>4, <3>2, <3>3 DEF WaveStep, ReserveLane, SaveWorktree, RollBackWave, plans
  <2>3. \A t \in Task : Standing(t)
    BY <2>1, <2>2 DEF Standing, Claims, Holding, PlansOf
  <2> QED
    BY <1>2, <2>1, <2>3
<1>5. CASE CrashPrepare
  <2>1. faults' # 0
    BY <1>1, <1>5 DEF CrashPrepare, Fault
  <2> QED
    BY <2>1 DEF ClaimInv
<1>6. ASSUME NEW t \in Task, TaskStep(t) PROVE ClaimInv'
  <2>1. /\ plan' = plan /\ held' = held /\ revoked' = revoked /\ (faults' = 0 => faults = 0)
        /\ \A u \in Task \ {t} : op'[u] = op[u]
        /\ \A u \in Task : Holding(u)' = Holding(u)
    BY <1>6, TaskStepParts DEF Holding, PlansOf
  <2>2. ASSUME NEW u \in Task \ revoked, op'[u] = op[u], faults' = 0 PROVE Claimed(u)'
    BY <2>1, <2>2 DEF ClaimInv, Claimed, Claims
  <2>3. ASSUME NEW steps, NEW to, NEW s \in Sessions(t) \cup {NoSession},
               s # NoSession => Authority(t, s), Begin(t, steps, s, to)
        PROVE  Claimed(t)'
    <3>1. op'[t].by = s
      BY <1>1, <2>3 DEF Begin, OpsOK
    <3>2. CASE s \in {NoSession, Outsider}
      BY <3>1, <3>2, SessionAssumption DEF Claimed
    <3>3. CASE s \notin {NoSession, Outsider}
      <4>1. PICK p \in Parent : held[p][t] = s /\ s # NoSession
        BY <2>3, <3>3 DEF Sessions
      <4>2. AllReadable
        BY <2>3, <3>3 DEF Authority
      <4>3. p \in Holding(t)
        <5>1. t \in plan[p].ids /\ plan[p].status # "none" /\ plan[p].status # "corrupt"
          BY <1>1, <4>1, <4>2 DEF HeldInPlan, AllReadable, Readable
        <5>2. plan[p].status \in {"none", "ok", "corrupt"}
          BY <1>1 DEF PlansOK, Plans
        <5> QED
          BY <4>1, <5>1, <5>2 DEF Holding, PlansOf
      <4> QED
        BY <2>1, <3>1, <4>1, <4>3 DEF Claimed
    <3> QED
      BY <3>2, <3>3
  <2>4. CASE op' = op
    BY <2>1, <2>2, <2>4 DEF ClaimInv
  <2>5. CASE faults' # 0
    BY <2>5 DEF ClaimInv
  <2>6. CASE \E steps, to : \E s \in Sessions(t) \cup {NoSession} :
                 (s # NoSession => Authority(t, s)) /\ Begin(t, steps, s, to)
    <3>1. Claimed(t)'
      BY <2>3, <2>6
    <3> QED
      BY <2>1, <2>2, <3>1 DEF ClaimInv
  <2> QED
    BY <1>6, <2>4, <2>5, <2>6, TaskStepParts
<1>7. ASSUME NEW t \in Task, OpStep(t) PROVE ClaimInv'
  <2>1. /\ plan' = plan /\ revoked' = revoked /\ faults' = faults
        /\ \A u \in Task \ {t} : op'[u] = op[u] /\ \A p \in Parent : held'[p][u] = held[p][u]
    BY <1>1, <1>7
    DEF OpStep, OpAssert, OpRecheck, OpSeal, OpRemove, OpLease, OpForce, OpSave, Skip, Stop,
        OpsOK, Without, plans, spent, PlansOK
  <2>2. \A u \in Task \ {t} : Standing(u)
    BY <2>1 DEF Standing, Claims, Holding, PlansOf
  <2>3. Standing(t)
    <3>1. CASE OpRemove(t)
      <4>1. ~Claims(t)'
        BY <1>1, <3>1, SkipPaired, StopPaired DEF OpRemove
      <4> QED
        BY <4>1 DEF Standing
    <3>2. CASE ~OpRemove(t)
      <4>1. held' = held /\ ((\E n \in {1, 2} : Skip(t, n)) \/ Stop(t))
        BY <1>7, <3>2 DEF OpStep, OpAssert, OpRecheck, OpSeal, OpLease, OpForce, OpSave, plans
      <4>2. Claims(t)' => Claims(t) /\ op'[t].by = op[t].by
        BY <1>1, <4>1, SkipPaired, StopPaired
      <4> QED
        BY <2>1, <4>1, <4>2 DEF Standing, Holding, PlansOf
    <3> QED
      BY <3>1, <3>2
  <2> QED
    BY <1>2, <2>1, <2>2, <2>3
<1> QED
  BY <1>3, <1>4, <1>5, <1>6, <1>7 DEF Next

LEMMA LeaseKept == TypeInv /\ WaveInv /\ LeaseInv /\ [Next]_vars => LeaseInv'
<1> SUFFICES ASSUME TypeInv, WaveInv, LeaseInv, [Next]_vars PROVE LeaseInv'
  OBVIOUS
<1>0. FitInv /\ ClaimInv
  BY DEF LeaseInv
<1>1. CASE UNCHANGED vars
  <2>1. /\ plan' = plan /\ held' = held /\ job' = job /\ op' = op /\ owner' = owner
        /\ live' = live /\ faults' = faults /\ revoked' = revoked
    BY <1>1 DEF vars, plans, leases, spent
  <2> QED
    BY <1>0, <2>1 DEF LeaseInv, FitInv, ClaimInv, NoneCorrupt, AllReadable, Readable, Coupled,
       LeaseFits, Accounted, At, Holding, PlansOf, Claimed, Claims
<1>2. CASE CrashPrepare
  <2>1. faults' # 0 /\ op' = op
    BY <1>2, BoundAssumption DEF CrashPrepare, Fault, TypeInv, CountsOK
  <2> QED
    BY <1>0, <2>1 DEF LeaseInv, FitInv, ClaimInv, NoneCorrupt, Coupled
<1>3. CASE Next
  <2>1. FitInv'
    <3>1. CASE CrashPrepare
      BY <1>2, <3>1 DEF LeaseInv
    <3> QED
      BY <1>0, <1>3, <3>1, PlanStepFits, WaveStepFits, TaskStepFits, OpStepFits DEF Next
  <2> QED
    BY <1>0, <1>3, <2>1, ClaimsKept DEF LeaseInv
<1> QED
  BY <1>1, <1>3

(* While nothing has crashed, a live lease of a lane has its reservation,   *)
(* or a prepare or an operation that sees to it, whoever cancels, releases, *)
(* plans anew, blocks, decides, rolls back or commits, and wherever the     *)
(* steps of their operations fall between each other and those of a         *)
(* prepare.  It fails only for a task whose reservation was taken away from *)
(* under an operation, which acquires the lease again when it asserts it    *)
(* (completePhase, assertTaskLease), or while its lease stood               *)
(* (releaseConcurrencyTaskReservation, releaseConcurrencyLane).             *)
THEOREM LaneLeaseSafety == Spec => []NoOrphanLease
<1>1. LeaseInv => NoOrphanLease
  <2> SUFFICES ASSUME LeaseInv, faults = 0, NEW t \in Task \ revoked, live[t], owner[t] \in Sid
               PROVE  \/ \E p \in Holding(t) : held[p][t] = owner[t]
                      \/ job # NoJob /\ \E d \in job.done : d = [task |-> t, sid |-> owner[t]]
                      \/ At(t, "lease")
    BY DEF NoOrphanLease
  <2> QED
    BY DEF LeaseInv, FitInv, LeaseFits, Accounted
<1> QED
  BY <1>1, LeaseBegins, LeaseKept, SchedulerInvariants, PTL DEF Spec
=============================================================================
