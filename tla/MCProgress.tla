----------------------------- MODULE MCProgress -----------------------------
(***************************************************************************)
(* What waits comes to an end: the commands at a lock, the operations at   *)
(* the mutex of a lease, and the user at a gate.  A behaviour is of one of *)
(* the three, the focus; the others stay as they began.                    *)
(***************************************************************************)
EXTENDS DirectoryLock, Sequences

CONSTANTS
    Sessions, Writers, Visualize, MaxEvents, MaxEdits,     \* of GatePresentation
    Session, NoSession, Attempts,                          \* of TaskLease
    MaxOperations      \* bound: lease operations that begin

VARIABLES
    focus,
    phase, amended, waived, events, evidence, bytes, bundle, acks, pending, plan, run, skill,
    host, seen, decided,
    lease, live, mutex, at, op, tries, read, granted, dead, taken, operations

gateVars == <<phase, amended, waived, events, evidence, bytes, bundle, acks, pending, plan, run,
              skill, host, seen, decided>>
leaseVars == <<lease, live, mutex, at, op, tries, read, granted, dead, taken, operations>>

Registrable == {[kind |-> "proposal", expected |-> TRUE]}
Start == [phase |-> "spec-approval",
          evidence |-> <<[kind |-> "proposal", expected |-> TRUE],
                         [kind |-> "diagram", expected |-> TRUE]>>]

Gate == INSTANCE GatePresentation
Lease == INSTANCE TaskLease
         WITH owner <- lease, pc <- at, seen <- read, crashes <- dead, stolen <- taken

ASSUME Gate!GatePresentationAssumption
ASSUME Lease!SessionAssumption /\ Lease!BoundAssumption /\ Lease!StallsAssumption

ProgressInit ==
    focus \in {"lock", "lease", "gate"} /\ Init /\ Gate!Init /\ Lease!Init /\ operations = 0

LeaseNext ==
    /\ Lease!Next
    /\ operations' = operations
                     + (IF \E s \in Session : at[s] = "idle" /\ at'[s] # "idle" THEN 1 ELSE 0)
    /\ operations' <= MaxOperations

ProgressNext ==
    /\ focus' = focus
    /\ \/ focus = "lock" /\ Next /\ UNCHANGED <<gateVars, leaseVars>>
       \/ focus = "lease" /\ LeaseNext /\ UNCHANGED <<vars, gateVars>>
       \/ focus = "gate" /\ Gate!Next /\ UNCHANGED <<vars, leaseVars>>

progressVars == <<focus, vars, gateVars, leaseVars>>

(* The fairness of the three specifications, for the behaviours of each.   *)
AtLock(action) == focus = "lock" /\ focus' = focus /\ action /\ UNCHANGED <<gateVars, leaseVars>>
AtLease(action) ==
    focus = "lease" /\ focus' = focus /\ action /\ UNCHANGED <<vars, gateVars, operations>>
AtGate(action) == focus = "gate" /\ focus' = focus /\ action /\ UNCHANGED <<vars, leaseVars>>

LockFairness ==
    \A p \in Proc : WF_progressVars(AtLock(Advance(p))) /\ WF_progressVars(AtLock(RunLate(p)))

LeaseFairness == \A s \in Session : WF_progressVars(AtLease(Lease!Advance(s)))

HostGoesOn(s) ==
    /\ WF_progressVars(AtGate(Gate!FetchAgain(s)))
    /\ \A i \in 1 .. Len(Start.evidence) + MaxEvents :
          /\ SF_progressVars(AtGate(Gate!ShowNew(s, i)))
          /\ SF_progressVars(AtGate(Gate!Succeed(s, i)))
    /\ \A w \in Writers : WF_progressVars(AtGate(Gate!RecordWrite(w)))

ProgressSpec ==
    /\ ProgressInit /\ [][ProgressNext]_progressVars
    /\ LockFairness /\ LeaseFairness /\ \A s \in Sessions : HostGoesOn(s)

(* OperationEnds of TaskLease: every lease operation ends, in the lease, a  *)
(* refusal or an error, though a process may have died in the mutex and     *)
(* others been suspended (withMutex gives up after its last attempt).       *)
OperationEnds == Lease!OperationEnds

(* GateOpens of GatePresentation, for the behaviours of the gate: building, *)
(* showing and recording never make what was recorded stale, so a host that *)
(* goes on brings an open gate to the question, unless the gate closes.     *)
GateOpens ==
    \A s \in Sessions, g \in Gate!Gates :
        (focus = "gate" /\ phase = g) ~> (phase # g \/ Gate!approvalReady(g, s))
=============================================================================
