-------------------------- MODULE MCWavesAndMoves --------------------------
(* A behaviour has one of four focuses: waves, with plans that change and   *)
(* more sessions; a gate that is decided and a phase that is ended while    *)
(* waves are prepared, with one operation on a task; and a prerequisite of  *)
(* a lane that is decided.                                                  *)
EXTENDS MCScheduler

VARIABLE focus

Focuses == {"waves", "gate", "phase", "prerequisite"}
StartsOf(f, t) ==
    CASE t = 1 -> IF f = "gate" THEN {"approve"} ELSE {"review"}
      [] t = 2 -> {"build"}
      [] t = 3 -> IF f \in {"gate", "phase"} THEN {"done"} ELSE {"build", "approve"}
      [] t = 4 -> IF f = "prerequisite" THEN {"approve", "blocked"} ELSE {"done"}
AnyStart == [t \in Task |-> UNION {StartsOf(f, t) : f \in Focuses}]

FocusInit ==
    /\ Init
    /\ focus \in Focuses
    /\ \A t \in Task : stage[t] \in StartsOf(focus, t)

\* Bounds of each focus.  With an operation, each parent has one task set and one limit;
\* no fault strikes where a phase is ended, and only a crash where a gate is decided.
WithinFocus ==
    \/ focus = "waves" /\ moves' = 0
    \/ /\ focus # "waves"
       /\ minted' <= 2
       /\ plan'[P].ids \in IF focus = "prerequisite" THEN {{}} ELSE {{}, {1, 2}}
       /\ plan'[Q].ids \in IF focus = "phase" THEN {{}} ELSE {{}, {2, 3}}
       /\ \A p \in Parent : /\ plan'[p].ids # {} => plan'[p].limit = 2
                            /\ plan'[p].status = "corrupt" => focus = "prerequisite"
       /\ IF focus = "prerequisite" THEN \A t \in 1 .. 3 : Idle(t)' /\ owner'[t] # Outsider
          ELSE focus = "phase" => faults' = 0

FocusNext == Next /\ WithinFocus /\ focus' = focus

FocusSpec == FocusInit /\ [][FocusNext]_<<vars, focus>>
=============================================================================
