---------------------------- MODULE MCProcesses -----------------------------
(***************************************************************************)
(* What several processes share beside the workflow of a task: its lease,  *)
(* the store of the task files, the gates of a Pi chat, and the resident   *)
(* runtime with its launchers.  A behaviour is of one of the four, the     *)
(* focus; the others stay as they began.                                   *)
(***************************************************************************)
EXTENDS TaskLease, TaskStore, RuntimeGates, ResidentRuntime, TLC

CONSTANTS
    s1, s2, s3, cart, Cart, checkout,
    MaxOperations     \* bound: lease operations that begin

VARIABLES focus, operations

Three == {s1, s2, s3}
Alike == Permutations(Three)
\* Three titles, two of which are written alike but for the capital: one slug.
ThreeTitles == {cart, Cart, checkout}
TwoSlugs == {cart, checkout}
Lowercase == [title \in ThreeTitles |-> IF title = Cart THEN cart ELSE title]
CartFirst == <<cart, checkout>>

ProcessesInit ==
    /\ focus \in {"lease", "store", "gates", "resident"}
    /\ Init /\ operations = 0
    /\ StoreInit /\ (focus # "store" => serial)
    /\ GatesInit /\ (focus # "gates" => mode = "full")
    /\ ResidentInit

LeaseNext ==
    /\ Next
    /\ operations' = operations
                     + (IF \E s \in Session : pc[s] = "idle" /\ pc'[s] # "idle" THEN 1 ELSE 0)
    /\ operations' <= MaxOperations

leaseVars == <<vars, operations>>

ProcessesNext ==
    /\ focus' = focus
    /\ \/ focus = "lease" /\ LeaseNext /\ UNCHANGED <<storeVars, gatesVars, residentVars>>
       \/ focus = "store" /\ StoreNext /\ UNCHANGED <<leaseVars, gatesVars, residentVars>>
       \/ focus = "gates" /\ GatesNext /\ UNCHANGED <<leaseVars, storeVars, residentVars>>
       \/ focus = "resident" /\ ResidentNext /\ UNCHANGED <<leaseVars, storeVars, gatesVars>>

processesVars == <<focus, leaseVars, storeVars, gatesVars, residentVars>>

ProcessesSpec == ProcessesInit /\ [][ProcessesNext]_processesVars
=============================================================================
