------------------------------ MODULE TaskTable -----------------------------
(***************************************************************************)
(* What the task store promises to commands that run one after the other:  *)
(* a table with one entry for each task, under a number of its own, that   *)
(* is only ever replaced by its next version.                              *)
(***************************************************************************)
EXTENDS Naturals

VARIABLE tasks      \* tasks[id]: the task with this number

Add(id, t) ==
    /\ id \notin DOMAIN tasks
    /\ t.status = "draft" /\ t.version = 0
    /\ tasks' = [i \in DOMAIN tasks \cup {id} |-> IF i = id THEN t ELSE tasks[i]]

\* Its title and its parent stay, and a dependency is never taken back.
Change(id, t) ==
    /\ t.version = tasks[id].version + 1
    /\ t.title = tasks[id].title /\ t.parent = tasks[id].parent
    /\ tasks[id].deps \subseteq t.deps
    /\ tasks' = [tasks EXCEPT ![id] = t]

Next ==
    \/ \E id \in DOMAIN tasks' : Add(id, tasks'[id])
    \/ \E id \in DOMAIN tasks \cap DOMAIN tasks' : Change(id, tasks'[id])
=============================================================================
