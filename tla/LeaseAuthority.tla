--------------------------- MODULE LeaseAuthority ---------------------------
(***************************************************************************)
(* What the lease of one task promises to the sessions that work on it: at *)
(* any time at most one of them has the authority to change the task, and  *)
(* it loses that authority only by giving it back, by letting it expire,   *)
(* or to somebody who takes it on purpose.  Each operation of lease.ts is  *)
(* one atomic step here.                                                   *)
(***************************************************************************)
CONSTANTS Session, NoSession

VARIABLES
    owner,     \* the session the stored lease names, NoSession if none is stored
    live,      \* has that lease not expired yet?
    granted    \* granted[s]: s was given the lease and nothing has ended that

vars == <<owner, live, granted>>

Init ==
    /\ owner = NoSession
    /\ live = FALSE
    /\ granted = [s \in Session |-> FALSE]

(* acquireTaskLease: free, expired, or a heartbeat of one's own lease.  It  *)
(* ends nobody's grant.                                                     *)
Grant(s) ==
    /\ ~live \/ owner = s
    /\ owner' = s
    /\ live' = TRUE
    /\ granted' = [granted EXCEPT ![s] = TRUE]

(* takeTaskLease: the user transfers the lease to another chat.             *)
Take(s) ==
    /\ owner' = s
    /\ live' = TRUE
    /\ granted' = [t \in Session |-> t = s]

(* releaseTaskLease by the owner, or by anybody once the lease has expired. *)
Drop(s) ==
    /\ ~live \/ owner = s
    /\ owner' = NoSession
    /\ live' = FALSE
    /\ granted' = [granted EXCEPT ![s] = FALSE]

(* releaseTaskLease with force: phase transitions and human decisions.      *)
Revoke ==
    /\ owner' = NoSession
    /\ live' = FALSE
    /\ granted' = [s \in Session |-> FALSE]

Expire ==
    /\ live
    /\ live' = FALSE
    /\ granted' = [s \in Session |-> FALSE]
    /\ UNCHANGED owner

Next ==
    \/ \E s \in Session : Grant(s) \/ Take(s) \/ Drop(s)
    \/ Revoke
    \/ Expire

Spec == Init /\ [][Next]_vars
=============================================================================
