------------------------------ MODULE Dispatch ------------------------------
(***************************************************************************)
(* What the concurrency scheduler promises about dispatches, without       *)
(* plans, leases, locks or worktrees.  A task has at most one dispatched   *)
(* session, under however many parents it is planned.  A dispatch that     *)
(* stands is never handed to another session: it must end first.  Every    *)
(* dispatch gets a session of its own that was never used before.  The     *)
(* project has at most MaxParallel dispatches at a time.                   *)
(***************************************************************************)
EXTENDS Naturals, FiniteSets

CONSTANTS Task, Parent, NoSession, MaxParallel

VARIABLES
    holder,    \* the session each task is dispatched to
    used       \* the numbers of the sessions minted so far and not in preparation

vars == <<holder, used>>

Session == [parent : Parent, n : Nat]
Dispatched == {t \in Task : holder[t] # NoSession}

Init ==
    /\ holder = [t \in Task |-> NoSession]
    /\ used = {}

(* A wave: tasks that have no dispatch get a fresh session each, minted for *)
(* one parent.                                                              *)
Assign(wave) ==
    /\ holder' \in [Task -> Session \cup {NoSession}]
    /\ \A t \in Task \ wave : holder'[t] = holder[t]
    /\ \A t \in wave : /\ holder[t] = NoSession
                       /\ holder'[t] \in Session
                       /\ holder'[t].n \in used' \ used
    /\ \A t, u \in wave : /\ holder'[t].parent = holder'[u].parent
                          /\ holder'[t].n = holder'[u].n => t = u
    /\ used \subseteq used'
    /\ Cardinality(Dispatched') <= MaxParallel

(* Dispatches end: released, yielded, cancelled, or their plan is gone.     *)
End(tasks) ==
    /\ holder' = [t \in Task |-> IF t \in tasks THEN NoSession ELSE holder[t]]
    /\ UNCHANGED used

(* The sessions of a wave that is rolled back are never used.               *)
Waste == used \subseteq used' /\ UNCHANGED holder

Next ==
    \/ \E tasks \in SUBSET Task : Assign(tasks) \/ End(tasks)
    \/ Waste

Spec == Init /\ [][Next]_vars
=============================================================================
