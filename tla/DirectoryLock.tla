--------------------------- MODULE DirectoryLock ---------------------------
(***************************************************************************)
(* The directory lock that serialises the concurrency scheduler: one       *)
(* .scheduler.lock per project and one <plan>.lock per parent task.  The   *)
(* lock is a directory.  mkdir takes it, owner.json inside it records the  *)
(* PID of the process that made it, a contender that finds it judges       *)
(* whether it is stale and removes it when it is, and the holder removes   *)
(* it when its operation ends.                                             *)
(*                                                                         *)
(* The repository has two copies of the protocol, acquireDirectoryLock in  *)
(* concurrency.ts and withRuntimeLock in concurrency-state.ts, and both    *)
(* run on the same lock files.  Processes in RuntimeProc run the second.   *)
(* Each file-system call is a step of its own: every other process may run *)
(* between any two of them.                                                *)
(***************************************************************************)
EXTENDS Naturals

CONSTANTS
    Proc,          \* the processes (CLI commands) that use the lock
    RuntimeProc,   \* those that run withRuntimeLock
    NoProc,        \* "nobody": no owner record
    Stalls,        \* may a process be suspended for five minutes between two calls?
    MaxUses,       \* bound: operations each process runs under the lock
    MaxCrashes     \* bound: processes that die without running their finally

ASSUME ProcAssumption == RuntimeProc \subseteq Proc /\ NoProc \notin Proc
ASSUME BoundAssumption == MaxUses \in Nat /\ MaxCrashes \in Nat
ASSUME StallsAssumption == Stalls \in BOOLEAN

VARIABLES
    lock,      \* the lock directory: who made it, whom owner.json names, its age
    pc,        \* where each process is in the protocol
    sawOld,    \* the age each contender read with statSync
    sawOwner,  \* the PID each contender read from owner.json
    late,      \* has this wait lasted waitMs (30 s)?
    uses,      \* operations each process has begun
    crashes,   \* processes that have died so far
    stolen,    \* history: a removal hit the lock of a live process
    stalled    \* history: a process was suspended for five minutes between two calls

vars == <<lock, pc, sawOld, sawOwner, late, uses, crashes, stolen, stalled>>

Free == [made |-> NoProc, owner |-> NoProc, old |-> FALSE]
Locks == [made : Proc \cup {NoProc}, owner : Proc \cup {NoProc}, old : BOOLEAN]

(* idle: outside; mkdir: about to call mkdirSync; own: made it, owner.json  *)
(* not written yet; busy: inside the operation; stat, read and probe: the   *)
(* three calls of the staleness test; remove: judged stale; poll: judged    *)
(* alive; gone: exited, timed out, failed or crashed.                       *)
Places == {"idle", "mkdir", "own", "busy", "stat", "read", "probe",
           "remove", "poll", "gone"}

TypeOK ==
    /\ lock \in Locks
    /\ lock.made = NoProc => lock = Free       \* no owner record without a directory
    /\ pc \in [Proc -> Places]
    /\ sawOld \in [Proc -> BOOLEAN]
    /\ sawOwner \in [Proc -> Proc \cup {NoProc}]
    /\ late \in [Proc -> BOOLEAN]
    /\ uses \in [Proc -> 0 .. MaxUses]
    /\ crashes \in 0 .. MaxCrashes
    /\ stolen \in BOOLEAN /\ stalled \in BOOLEAN

Exists == lock.made # NoProc
Alive(p) == pc[p] # "gone"
Holds(p) == pc[p] \in {"own", "busy"}       \* mkdirSync has returned to p
Waits(p) == pc[p] \in {"mkdir", "stat", "read", "probe", "remove", "poll"}

Init ==
    /\ lock = Free
    /\ pc = [p \in Proc |-> "idle"]
    /\ sawOld = [p \in Proc |-> FALSE]
    /\ sawOwner = [p \in Proc |-> NoProc]
    /\ late = [p \in Proc |-> FALSE]
    /\ uses = [p \in Proc |-> 0]
    /\ crashes = 0
    /\ stolen = FALSE
    /\ stalled = FALSE

Goto(p, place) == pc' = [pc EXCEPT ![p] = place]

(* rmSync(lock, {recursive, force}): whatever directory is there now goes.  *)
RemoveDirectory(p) ==
    /\ lock' = Free
    /\ stolen' = (stolen \/ (Exists /\ lock.made # p /\ Holds(lock.made)))

-----------------------------------------------------------------------------
(* Taking the lock. *)

Begin(p) ==
    /\ pc[p] = "idle"
    /\ uses[p] < MaxUses
    /\ Goto(p, "mkdir")
    /\ uses' = [uses EXCEPT ![p] = @ + 1]
    /\ late' = [late EXCEPT ![p] = FALSE]
    /\ UNCHANGED <<lock, sawOld, sawOwner, crashes, stolen, stalled>>

(* Mutant: mkdirSync(lock, {recursive: true}) succeeds on an existing one.  *)
MakeDirectoryRecursively(p) ==
    /\ pc[p] = "mkdir"
    /\ lock' = [made |-> p, owner |-> NoProc, old |-> FALSE]
    /\ Goto(p, "own")
    /\ UNCHANGED <<sawOld, sawOwner, late, uses, crashes, stolen, stalled>>

MakeDirectory(p) ==
    /\ pc[p] = "mkdir"
    /\ ~Exists
    /\ lock' = [made |-> p, owner |-> NoProc, old |-> FALSE]
    /\ Goto(p, "own")
    /\ UNCHANGED <<sawOld, sawOwner, late, uses, crashes, stolen, stalled>>

(* EEXIST: concurrency.ts reads the age first, concurrency-state.ts the     *)
(* owner first.                                                             *)
FindDirectory(p) ==
    /\ pc[p] = "mkdir"
    /\ Exists
    /\ Goto(p, IF p \in RuntimeProc THEN "read" ELSE "stat")
    /\ UNCHANGED <<lock, sawOld, sawOwner, late, uses, crashes, stolen, stalled>>

(* Mutant: the owner record is written whether or not the directory exists. *)
WriteOwnerAnyway(p) ==
    /\ pc[p] = "own"
    /\ lock' = [lock EXCEPT !.owner = p]
    /\ Goto(p, "busy")
    /\ UNCHANGED <<sawOld, sawOwner, late, uses, crashes, stolen, stalled>>

(* The owner record lands in whatever directory is there now.  When there   *)
(* is none, writeLockOwner swallows the error and withRuntimeLock throws.   *)
(* A new file in it makes the directory young again.                        *)
WriteOwner(p) ==
    /\ pc[p] = "own"
    /\ \/ Exists /\ Goto(p, "busy")
                 /\ lock' = [lock EXCEPT !.owner = p,
                                         !.old = @ /\ lock.owner # NoProc]
       \/ ~Exists /\ lock' = lock
                  /\ Goto(p, IF p \in RuntimeProc THEN "gone" ELSE "busy")
    /\ UNCHANGED <<sawOld, sawOwner, late, uses, crashes, stolen, stalled>>

-----------------------------------------------------------------------------
(* The staleness test: removableStaleLock and lockStale.                    *)

(* statSync throws when the directory is gone, and the catch answers stale. *)
(* The age decides at once in lockStale, which looks at the owner first.    *)
StatAge(p) ==
    /\ pc[p] = "stat"
    /\ sawOld' = [sawOld EXCEPT ![p] = lock.old]
    /\ \/ ~Exists /\ Goto(p, "remove")
       \/ Exists /\ p \notin RuntimeProc /\ Goto(p, "read")
       \/ Exists /\ p \in RuntimeProc /\ lock.old /\ Goto(p, "remove")
       \/ Exists /\ p \in RuntimeProc /\ ~lock.old /\ Goto(p, "poll")
    /\ UNCHANGED <<lock, sawOwner, late, uses, crashes, stolen, stalled>>

(* Without a readable owner.json the verdict falls back to the age.         *)
ReadOwner(p) ==
    /\ pc[p] = "read"
    /\ sawOwner' = [sawOwner EXCEPT ![p] = lock.owner]
    /\ \/ lock.owner # NoProc /\ Goto(p, "probe")
       \/ lock.owner = NoProc /\ p \in RuntimeProc /\ Goto(p, "stat")
       \/ lock.owner = NoProc /\ p \notin RuntimeProc
            /\ Goto(p, IF sawOld[p] THEN "remove" ELSE "poll")
    /\ UNCHANGED <<lock, sawOld, late, uses, crashes, stolen, stalled>>

(* Mutant: an owner that is on record is taken for a dead one.              *)
ProbeNobody(p) ==
    /\ pc[p] = "probe"
    /\ Goto(p, "remove")
    /\ UNCHANGED <<lock, sawOld, sawOwner, late, uses, crashes, stolen, stalled>>

(* process.kill(pid, 0) on the PID that was read.                           *)
ProbeOwner(p) ==
    /\ pc[p] = "probe"
    /\ Goto(p, IF Alive(sawOwner[p]) THEN "poll" ELSE "remove")
    /\ UNCHANGED <<lock, sawOld, sawOwner, late, uses, crashes, stolen, stalled>>

(* The verdict is carried out, and mkdirSync is tried again at once.        *)
RemoveStale(p) ==
    /\ pc[p] = "remove"
    /\ RemoveDirectory(p)
    /\ Goto(p, "mkdir")
    /\ UNCHANGED <<sawOld, sawOwner, late, uses, crashes, stalled>>

(* Mutant: the deadline is never looked at.                                 *)
PollForEver(p) ==
    /\ pc[p] = "poll"
    /\ Goto(p, "mkdir")
    /\ UNCHANGED <<lock, sawOld, sawOwner, late, uses, crashes, stolen, stalled>>

(* sleep(20), unless waitMs have passed: then the command fails.            *)
Poll(p) ==
    /\ pc[p] = "poll"
    /\ Goto(p, IF late[p] THEN "gone" ELSE "mkdir")
    /\ UNCHANGED <<lock, sawOld, sawOwner, late, uses, crashes, stolen, stalled>>

-----------------------------------------------------------------------------
(* The end of an operation, and the environment.                            *)

(* finally: the directory goes, whoever made the one that is there now.     *)
Release(p) ==
    /\ pc[p] = "busy"
    /\ RemoveDirectory(p)
    /\ Goto(p, "idle")
    /\ UNCHANGED <<sawOld, sawOwner, late, uses, crashes, stalled>>

(* A command that has done its work exits: its PID is no longer alive.      *)
Exit(p) ==
    /\ pc[p] = "idle"
    /\ uses[p] > 0
    /\ Goto(p, "gone")
    /\ UNCHANGED <<lock, sawOld, sawOwner, late, uses, crashes, stolen, stalled>>

Crash(p) ==
    /\ crashes < MaxCrashes
    /\ Holds(p)
    /\ crashes' = crashes + 1
    /\ Goto(p, "gone")
    /\ UNCHANGED <<lock, sawOld, sawOwner, late, uses, stolen, stalled>>

(* Where minutes may pass without anybody being suspended.                  *)
Pausing == {"idle", "mkdir", "busy", "poll", "gone"}

(* Five minutes pass since mkdir: only then may an unowned lock be removed. *)
Age ==
    /\ Exists
    /\ ~lock.old
    /\ stalled' = (stalled \/ \E p \in Proc : pc[p] \notin Pausing)
    /\ stalled' => Stalls
    /\ lock' = [lock EXCEPT !.old = TRUE]
    /\ UNCHANGED <<pc, sawOld, sawOwner, late, uses, crashes, stolen>>

(* Thirty seconds pass in one wait.                                         *)
RunLate(p) ==
    /\ Waits(p)
    /\ ~late[p]
    /\ late' = [late EXCEPT ![p] = TRUE]
    /\ UNCHANGED <<lock, pc, sawOld, sawOwner, uses, crashes, stolen, stalled>>

Advance(p) ==
    \/ MakeDirectory(p) \/ FindDirectory(p) \/ WriteOwner(p)
    \/ StatAge(p) \/ ReadOwner(p) \/ ProbeOwner(p) \/ RemoveStale(p)
    \/ Poll(p) \/ Release(p) \/ Exit(p)

Next ==
    \/ \E p \in Proc : Begin(p) \/ Advance(p) \/ Crash(p) \/ RunLate(p)
    \/ Age

Spec == Init /\ [][Next]_vars

(* A process that is alive keeps running (each wait is a 20 ms sleep), and  *)
(* clocks advance.  Nothing makes a command start or crash.                 *)
Fairness == \A p \in Proc : WF_vars(Advance(p)) /\ WF_vars(RunLate(p))
FairSpec == Spec /\ Fairness

-----------------------------------------------------------------------------
(* Properties. *)

(* Two processes are never inside the locked operation together: what the   *)
(* scheduler's read-modify-write of plans, reservations and leases relies   *)
(* on (withSchedulerLock, withPlanLock, withRuntimeLock).                   *)
MutualExclusion == \A p, q \in Proc : pc[p] = "busy" /\ pc[q] = "busy" => p = q

(* While no removal has hit the lock of a live holder, the directory is the *)
(* holder's own, so at most one process is inside, whatever the waits,      *)
(* crashes, exits and half-written owner records: only a verdict carried    *)
(* out too late can take the lock from a live process.                      *)
HolderUntilStolen == ~stolen => \A p \in Proc : Holds(p) => lock.made = p

(* A live holder's directory is never removed by somebody else: "a slow but *)
(* live process is not mistaken for a stale lock".                          *)
LiveLockKept == ~stolen

(* Of two commands, only one that is suspended for minutes between two      *)
(* calls, or whose rival is, loses its lock: a slow operation, a crash or   *)
(* a late contender does not suffice.                                       *)
OnlyStallsSteal == stolen => stalled

(* Nobody waits for ever: a wait ends in the operation or in an error, even *)
(* when the process that held the lock died inside it.                      *)
WaitEnds == \A p \in Proc : Waits(p) ~> ~Waits(p)
=============================================================================
