----------------------------- MODULE TaskLease -----------------------------
(***************************************************************************)
(* The lease of one task as lease.ts keeps it: a JSON file under           *)
(* .ai/runtime/leases, read and rewritten inside a mutex directory.  The   *)
(* mutex records no owner.  A contender removes it when it is more than    *)
(* ten seconds old and gives up after a hundred attempts.  Each call on    *)
(* the file system is a step of its own.                                   *)
(***************************************************************************)
EXTENDS Naturals

CONSTANTS
    Session,       \* the sessions (chats, lanes) that use the task's lease
    NoSession,     \* nobody
    Attempts,      \* attempts of withMutex before it gives up (100 in the code)
    Stalls,        \* may a process be suspended for ten seconds between two calls?
    MaxCrashes     \* bound: processes that die inside the mutex

ASSUME SessionAssumption == NoSession \notin Session
ASSUME BoundAssumption == Attempts \in Nat \ {0} /\ MaxCrashes \in Nat
ASSUME StallsAssumption == Stalls \in BOOLEAN

VARIABLES
    owner, live,   \* the lease file: whom it names, and whether it is unexpired
    mutex,         \* the mutex directory: who made it, and is it ten seconds old
    pc,            \* where each session is
    op,            \* the operation it runs
    tries,         \* attempts at the mutex so far
    seen,          \* the lease it read, as the pair of owner and live
    granted,       \* history: the lease was granted to it and nothing ended it
    crashes,       \* processes that have died so far
    stolen         \* history: the mutex of a live process was removed

vars == <<owner, live, mutex, pc, op, tries, seen, granted, crashes, stolen>>
lease == <<owner, live>>

Ops == {"acquire", "assert", "take", "release", "revoke"}
Places == {"idle", "status", "mkdir", "stat", "remove", "read", "write",
           "finally", "dead"}
Free == [made |-> NoSession, old |-> FALSE]
Exists == mutex.made # NoSession
Inside(s) == pc[s] \in {"read", "write", "finally"}

TypeOK ==
    /\ owner \in Session \cup {NoSession}
    /\ live \in BOOLEAN
    /\ live => owner # NoSession                  \* an unexpired lease names somebody
    /\ mutex \in [made : Session \cup {NoSession}, old : BOOLEAN]
    /\ pc \in [Session -> Places]
    /\ op \in [Session -> Ops]
    /\ tries \in [Session -> 0 .. Attempts]
    /\ \A s \in Session : pc[s] \in {"status", "mkdir"} => tries[s] < Attempts
    /\ seen \in [Session -> [owner : Session \cup {NoSession}, live : BOOLEAN]]
    /\ granted \in [Session -> BOOLEAN]
    /\ crashes \in 0 .. MaxCrashes
    /\ stolen \in BOOLEAN

Init ==
    /\ owner = NoSession
    /\ live = FALSE
    /\ mutex = Free
    /\ pc = [s \in Session |-> "idle"]
    /\ op = [s \in Session |-> "acquire"]
    /\ tries = [s \in Session |-> 0]
    /\ seen = [s \in Session |-> [owner |-> NoSession, live |-> FALSE]]
    /\ granted = [s \in Session |-> FALSE]
    /\ crashes = 0
    /\ stolen = FALSE

Goto(s, place) == pc' = [pc EXCEPT ![s] = place]

-----------------------------------------------------------------------------
(* Entering withMutex. *)

(* assertTaskLease looks at the lease before it enters the mutex.           *)
Begin(s, o) ==
    /\ pc[s] = "idle"
    /\ op' = [op EXCEPT ![s] = o]
    /\ tries' = [tries EXCEPT ![s] = 0]
    /\ Goto(s, IF o = "assert" THEN "status" ELSE "mkdir")
    /\ UNCHANGED <<lease, mutex, seen, granted, crashes, stolen>>

Status(s) ==
    /\ pc[s] = "status"
    /\ Goto(s, IF live /\ owner # s THEN "idle" ELSE "mkdir")
    /\ UNCHANGED <<lease, mutex, op, tries, seen, granted, crashes, stolen>>

(* mkdirSync succeeds, or fails with EEXIST and costs an attempt.           *)
MakeMutex(s) ==
    /\ pc[s] = "mkdir"
    /\ ~Exists
    /\ mutex' = [made |-> s, old |-> FALSE]
    /\ Goto(s, "read")
    /\ UNCHANGED <<lease, op, tries, seen, granted, crashes, stolen>>

(* Mutant: an attempt is not counted.                                       *)
FindUncounted(s) ==
    /\ pc[s] = "mkdir"
    /\ Exists
    /\ Goto(s, "stat")
    /\ UNCHANGED <<lease, mutex, op, tries, seen, granted, crashes, stolen>>

FindMutex(s) ==
    /\ pc[s] = "mkdir"
    /\ Exists
    /\ tries' = [tries EXCEPT ![s] = @ + 1]
    /\ Goto(s, "stat")
    /\ UNCHANGED <<lease, mutex, op, seen, granted, crashes, stolen>>

TryAgain(s) == Goto(s, IF tries[s] < Attempts THEN "mkdir" ELSE "idle")

StatMutex(s) ==
    /\ pc[s] = "stat"
    /\ IF mutex.old THEN Goto(s, "remove") ELSE TryAgain(s)
    /\ UNCHANGED <<lease, mutex, op, tries, seen, granted, crashes, stolen>>

RemoveDirectory(s) ==
    /\ mutex' = Free
    /\ stolen' = (stolen \/ (Exists /\ mutex.made # s /\ Inside(mutex.made)))

RemoveOldMutex(s) ==
    /\ pc[s] = "remove"
    /\ RemoveDirectory(s)
    /\ TryAgain(s)
    /\ UNCHANGED <<lease, op, tries, seen, granted, crashes>>

-----------------------------------------------------------------------------
(* Inside the mutex: read, then write or remove the file, then leave.       *)

Read(s) ==
    /\ pc[s] = "read"
    /\ seen' = [seen EXCEPT ![s] = [owner |-> owner, live |-> live]]
    /\ Goto(s, "write")
    /\ UNCHANGED <<lease, mutex, op, tries, granted, crashes, stolen>>

(* "Task is locked by another session"                                      *)
Conflict(s) == seen[s].live /\ seen[s].owner # s

Refuse(s) ==
    /\ pc[s] = "write"
    /\ op[s] \in {"acquire", "assert", "release"}
    /\ Conflict(s)
    /\ Goto(s, "finally")
    /\ UNCHANGED <<lease, mutex, op, tries, seen, granted, crashes, stolen>>

(* A stored lease of nobody makes a release return without touching it.     *)
NothingToRelease(s) ==
    /\ pc[s] = "write"
    /\ op[s] \in {"release", "revoke"}
    /\ seen[s].owner = NoSession
    /\ Goto(s, "finally")
    /\ UNCHANGED <<lease, mutex, op, tries, seen, granted, crashes, stolen>>

(* Mutant: the lease of another session is overwritten as if it were one's own. *)
StoreOverConflict(s) ==
    /\ pc[s] = "write"
    /\ op[s] \in {"take", "acquire", "assert"}
    /\ owner' = s
    /\ live' = TRUE
    /\ granted' = [t \in Session |->
                     t = s \/ (granted[t] /\ op[s] # "take")]
    /\ Goto(s, "finally")
    /\ UNCHANGED <<mutex, op, tries, seen, crashes, stolen>>

StoreLease(s) ==
    /\ pc[s] = "write"
    /\ op[s] = "take" \/ (op[s] \in {"acquire", "assert"} /\ ~Conflict(s))
    /\ owner' = s
    /\ live' = TRUE
    /\ granted' = [t \in Session |->
                     t = s \/ (granted[t] /\ op[s] # "take")]
    /\ Goto(s, "finally")
    /\ UNCHANGED <<mutex, op, tries, seen, crashes, stolen>>

(* Mutant: the owner is cleared and expiresAt left in the file.             *)
ClearOwner(s) ==
    /\ pc[s] = "write"
    /\ seen[s].owner # NoSession
    /\ op[s] = "revoke" \/ (op[s] = "release" /\ ~Conflict(s))
    /\ owner' = NoSession
    /\ Goto(s, "finally")
    /\ UNCHANGED <<live, mutex, op, tries, seen, granted, crashes, stolen>>

(* Mutant: releaseTaskLease does not ask whose lease it is.                 *)
DeleteUnasked(s) ==
    /\ pc[s] = "write"
    /\ seen[s].owner # NoSession
    /\ op[s] \in {"revoke", "release"}
    /\ owner' = NoSession
    /\ live' = FALSE
    /\ granted' = [t \in Session |->
                     granted[t] /\ t # s /\ op[s] # "revoke"]
    /\ Goto(s, "finally")
    /\ UNCHANGED <<mutex, op, tries, seen, crashes, stolen>>

DeleteLease(s) ==
    /\ pc[s] = "write"
    /\ seen[s].owner # NoSession
    /\ op[s] = "revoke" \/ (op[s] = "release" /\ ~Conflict(s))
    /\ owner' = NoSession
    /\ live' = FALSE
    /\ granted' = [t \in Session |->
                     granted[t] /\ t # s /\ op[s] # "revoke"]
    /\ Goto(s, "finally")
    /\ UNCHANGED <<mutex, op, tries, seen, crashes, stolen>>

Leave(s) ==
    /\ pc[s] = "finally"
    /\ RemoveDirectory(s)
    /\ Goto(s, "idle")
    /\ UNCHANGED <<lease, op, tries, seen, granted, crashes>>

-----------------------------------------------------------------------------
(* The environment. *)

(* expiresAt passes: every grant so far is over.                            *)
Expire ==
    /\ live
    /\ live' = FALSE
    /\ granted' = [s \in Session |-> FALSE]
    /\ UNCHANGED <<owner, mutex, pc, op, tries, seen, crashes, stolen>>

(* Ten seconds pass since mkdir.  Without stalls no process is then inside  *)
(* the mutex or between its stat and its removal.                           *)
Age ==
    /\ Exists
    /\ ~mutex.old
    /\ Stalls \/ \A s \in Session : pc[s] \notin {"remove"} /\ ~Inside(s)
    /\ mutex' = [mutex EXCEPT !.old = TRUE]
    /\ UNCHANGED <<lease, pc, op, tries, seen, granted, crashes, stolen>>

Crash(s) ==
    /\ crashes < MaxCrashes
    /\ Inside(s)
    /\ crashes' = crashes + 1
    /\ Goto(s, "dead")
    /\ UNCHANGED <<lease, mutex, op, tries, seen, granted, stolen>>

Advance(s) ==
    \/ Status(s) \/ MakeMutex(s) \/ FindMutex(s) \/ StatMutex(s)
    \/ RemoveOldMutex(s) \/ Read(s) \/ Refuse(s) \/ NothingToRelease(s)
    \/ StoreLease(s) \/ DeleteLease(s) \/ Leave(s)

Next ==
    \/ \E s \in Session : Advance(s) \/ Crash(s) \/ \E o \in Ops : Begin(s, o)
    \/ Expire
    \/ Age

Spec == Init /\ [][Next]_vars

(* A running command keeps running.  Nothing obliges a session to begin     *)
(* one, a lease to expire or a process to die.                              *)
Fairness == \A s \in Session : WF_vars(Advance(s))
FairSpec == Spec /\ Fairness

-----------------------------------------------------------------------------
(* Properties. *)

(* A session to which the lease was granted, and whose grant nothing has    *)
(* ended, is the one the file names: nobody else was let in silently        *)
(* (acquireTaskLease), until the mutex of a live process has been removed.  *)
GrantsStand == ~stolen => \A s \in Session : granted[s] => live /\ owner = s

(* The operations together are the atomic ones of LeaseAuthority: whoever   *)
(* is granted the lease stays alone with it until the grant is given back,  *)
(* expires, is taken over or revoked (lease.ts, read and write in withMutex). *)
(* It holds of contenders, crashes and suspended processes up to the step   *)
(* in which one of them removes the mutex of a process that is still inside, *)
(* which lease.ts allows when that process stalls, or when two have found a *)
(* mutex left behind to be old and the slower removes the quicker one's; it *)
(* claims nothing after.                                                    *)
Authority == INSTANCE LeaseAuthority
StepsAuthority == ~stolen' => Authority!Next \/ UNCHANGED <<owner, live, granted>>
RefinesAuthority == Authority!Init /\ [][StepsAuthority]_vars

(* Every operation ends, in the lease, a refusal or an error, though the    *)
(* mutex may have been left behind by a process that died.                  *)
OperationEnds == \A s \in Session : pc[s] # "idle" ~> pc[s] \in {"idle", "dead"}
=============================================================================
