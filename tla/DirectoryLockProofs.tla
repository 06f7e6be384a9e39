------------------------ MODULE DirectoryLockProofs ------------------------
(***************************************************************************)
(* What holds of DirectoryLock for every set of processes: its types, and  *)
(* that a live process inside the lock has its own directory around it     *)
(* until a removal has hit a live holder's lock, so that exclusion is lost *)
(* in no other way.                                                        *)
(***************************************************************************)
EXTENDS DirectoryLock, TLAPS

(* Every reachable state has the types of TypeOK: places, ages and owner    *)
(* records, and no owner record outlives its directory (rmSync, mkdirSync). *)
THEOREM Typing == Spec => []TypeOK
<1>1. Init => TypeOK
  <2> SUFFICES ASSUME Init PROVE TypeOK
    OBVIOUS
  <2>1. lock \in Locks /\ (lock.made = NoProc => lock = Free)
    BY DEF Init, Free, Locks
  <2>2. pc \in [Proc -> Places] /\ sawOwner \in [Proc -> Proc \cup {NoProc}]
    BY DEF Init, Places
  <2>3. sawOld \in [Proc -> BOOLEAN] /\ late \in [Proc -> BOOLEAN]
    BY DEF Init
  <2>4. uses \in [Proc -> 0 .. MaxUses] /\ crashes \in 0 .. MaxCrashes
    BY BoundAssumption DEF Init
  <2>5. stolen \in BOOLEAN /\ stalled \in BOOLEAN
    BY DEF Init
  <2> QED
    BY <2>1, <2>2, <2>3, <2>4, <2>5 DEF TypeOK
<1>2. TypeOK /\ [Next]_vars => TypeOK'
  <2> SUFFICES ASSUME TypeOK, [Next]_vars PROVE TypeOK'
    OBVIOUS
  <2> USE ProcAssumption, BoundAssumption DEF TypeOK, Locks, Places, Goto, Free
  <2>1. ASSUME NEW p \in Proc, Begin(p) PROVE TypeOK'
    BY <2>1 DEF Begin
  <2>2. ASSUME NEW p \in Proc, MakeDirectory(p) PROVE TypeOK'
    BY <2>2 DEF MakeDirectory, Exists
  <2>3. ASSUME NEW p \in Proc, FindDirectory(p) PROVE TypeOK'
    BY <2>3 DEF FindDirectory
  <2>4. ASSUME NEW p \in Proc, WriteOwner(p) PROVE TypeOK'
    <3>1. CASE Exists
      <4>1. lock.old \in BOOLEAN /\ (lock.old /\ lock.owner # NoProc) \in BOOLEAN
        OBVIOUS
      <4>2. lock' \in Locks /\ lock'.made = lock.made
        BY <2>4, <3>1, <4>1 DEF WriteOwner, Exists
      <4>3. pc' \in [Proc -> Places]
        BY <2>4, <3>1 DEF WriteOwner
      <4> QED
        BY <2>4, <3>1, <4>2, <4>3 DEF WriteOwner, Exists
    <3>2. CASE ~Exists
      BY <2>4, <3>2 DEF WriteOwner
    <3> QED
      BY <3>1, <3>2
  <2>5. ASSUME NEW p \in Proc, StatAge(p) PROVE TypeOK'
    BY <2>5 DEF StatAge
  <2>6. ASSUME NEW p \in Proc, ReadOwner(p) PROVE TypeOK'
    BY <2>6 DEF ReadOwner
  <2>7. ASSUME NEW p \in Proc, ProbeOwner(p) PROVE TypeOK'
    BY <2>7 DEF ProbeOwner
  <2>8. ASSUME NEW p \in Proc, RemoveStale(p) PROVE TypeOK'
    BY <2>8 DEF RemoveStale, RemoveDirectory
  <2>9. ASSUME NEW p \in Proc, Poll(p) PROVE TypeOK'
    BY <2>9 DEF Poll
  <2>10. ASSUME NEW p \in Proc, Release(p) PROVE TypeOK'
    BY <2>10 DEF Release, RemoveDirectory
  <2>11. ASSUME NEW p \in Proc, Exit(p) PROVE TypeOK'
    BY <2>11 DEF Exit
  <2>12. ASSUME NEW p \in Proc, Crash(p) PROVE TypeOK'
    BY <2>12 DEF Crash
  <2>13. ASSUME NEW p \in Proc, RunLate(p) PROVE TypeOK'
    BY <2>13 DEF RunLate
  <2>14. CASE Age
    BY <2>14 DEF Age, Exists
  <2>15. CASE UNCHANGED vars
    BY <2>15 DEF vars
  <2> QED
    BY <2>1, <2>2, <2>3, <2>4, <2>5, <2>6, <2>7, <2>8, <2>9, <2>10, <2>11,
       <2>12, <2>13, <2>14, <2>15 DEF Next, Advance
<1> QED
  BY <1>1, <1>2, PTL DEF Spec

(* The inductive invariant: until a removal hits a live holder's lock, the  *)
(* directory that is there is the one each live holder made.                *)
Inv == TypeOK /\ HolderUntilStolen

(* Until a verdict carried out too late takes a live lock, every process    *)
(* between mkdirSync and its finally holds the directory it made itself,    *)
(* with any number of contenders, crashes, exits and timeouts.              *)
THEOREM HolderSafety == Spec => []HolderUntilStolen
<1>1. Init => HolderUntilStolen
  BY DEF Init, HolderUntilStolen, Holds
<1>2. Inv /\ TypeOK' /\ [Next]_vars => HolderUntilStolen'
  <2> SUFFICES ASSUME Inv, TypeOK', [Next]_vars, ~stolen',
                      NEW q \in Proc, Holds(q)'
               PROVE  lock.made' = q
    BY DEF HolderUntilStolen
  <2> USE ProcAssumption DEF Inv, TypeOK, HolderUntilStolen, Holds, Goto
  <2>1. CASE UNCHANGED <<lock, stolen>> /\ (Holds(q)' => Holds(q))
    BY <2>1
  <2>2. ASSUME NEW p \in Proc, Begin(p) \/ FindDirectory(p) \/ StatAge(p)
               \/ ReadOwner(p) \/ ProbeOwner(p) \/ Poll(p) \/ Exit(p)
               \/ Crash(p) \/ RunLate(p)
        PROVE  UNCHANGED <<lock, stolen>> /\ (Holds(q)' => Holds(q))
    BY <2>2 DEF Begin, FindDirectory, StatAge, ReadOwner, ProbeOwner, Poll,
                Exit, Crash, RunLate, Places
  <2>3. ASSUME NEW p \in Proc, MakeDirectory(p) PROVE lock.made' = q
    BY <2>3 DEF MakeDirectory, Exists
  <2>4. ASSUME NEW p \in Proc, WriteOwner(p) PROVE lock.made' = q
    BY <2>4 DEF WriteOwner, Exists, Locks
  <2>5. ASSUME NEW p \in Proc, RemoveStale(p) PROVE lock.made' = q
    BY <2>5 DEF RemoveStale, RemoveDirectory, Exists
  <2>6. ASSUME NEW p \in Proc, Release(p) PROVE lock.made' = q
    BY <2>6 DEF Release, RemoveDirectory, Exists
  <2>7. CASE Age
    BY <2>7 DEF Age, Locks
  <2>8. CASE UNCHANGED vars
    BY <2>8 DEF vars
  <2> QED
    BY <2>1, <2>2, <2>3, <2>4, <2>5, <2>6, <2>7, <2>8 DEF Next, Advance
<1> QED
  BY <1>1, <1>2, Typing, PTL DEF Spec, Inv

(* Two processes are inside together only after such a removal: the         *)
(* scheduler's read-modify-write is exclusive until then.                   *)
THEOREM ExclusionUntilStolen == Spec => [](~stolen => MutualExclusion)
<1>1. HolderUntilStolen => (~stolen => MutualExclusion)
  BY DEF HolderUntilStolen, MutualExclusion, Holds
<1> QED
  BY <1>1, HolderSafety, PTL
=============================================================================
