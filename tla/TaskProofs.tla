----------------------------- MODULE TaskProofs ----------------------------
(***************************************************************************)
(* TaskLease and TaskStore for every value of their constants.             *)
(*                                                                         *)
(* The lease: its types; that a grant stands until something ends it; and  *)
(* that the operations are the atomic ones of LeaseAuthority; both as long *)
(* as the mutex of no process inside it was removed.                       *)
(*                                                                         *)
(* The store: StoreFits is inductive whatever races or dies.  It places    *)
(* each command in the calls it began with, so that a call refers only to  *)
(* what its command has made or found, and a copy that is about to be      *)
(* written depends on stored tasks.  SerialFits is inductive with it when  *)
(* commands run one after the other.  It says how far Materialize is and   *)
(* that the running command holds the next version of what is stored.      *)
(* From both: tasks and their dependencies are kept, a materialized plan   *)
(* has its slices, and the store implements TaskTable.                     *)
(***************************************************************************)
EXTENDS TaskLease, TaskStore, SequenceTheorems, TLAPS

-----------------------------------------------------------------------------
(* The lease.                                                               *)
(* Every reachable state has the types of TypeOK, and an unexpired lease    *)
(* always names a session (acquireTaskLease, releaseTaskLease).             *)
THEOREM LeaseTyping == Spec => []TypeOK
<1> USE SessionAssumption, BoundAssumption
<1>1. Init => TypeOK
  <2> SUFFICES ASSUME Init PROVE TypeOK
    OBVIOUS
  <2>1. /\ owner \in Session \cup {NoSession} /\ live \in BOOLEAN
        /\ (live => owner # NoSession) /\ stolen \in BOOLEAN
    BY DEF Init
  <2>2. mutex \in [made : Session \cup {NoSession}, old : BOOLEAN]
    BY DEF Init, Free
  <2>3. pc \in [Session -> Places] /\ op \in [Session -> Ops]
    BY DEF Init, Places, Ops
  <2>4. /\ tries \in [Session -> 0 .. Attempts] /\ crashes \in 0 .. MaxCrashes
        /\ \A s \in Session : pc[s] \in {"status", "mkdir"} => tries[s] < Attempts
    BY DEF Init
  <2>5. /\ seen \in [Session -> [owner : Session \cup {NoSession}, live : BOOLEAN]]
        /\ granted \in [Session -> BOOLEAN]
    BY DEF Init
  <2> QED
    BY <2>1, <2>2, <2>3, <2>4, <2>5 DEF TypeOK
<1>2. TypeOK /\ [Next]_vars => TypeOK'
  <2> SUFFICES ASSUME TypeOK, [Next]_vars PROVE TypeOK'
    OBVIOUS
  <2> USE DEF TypeOK, Places, Goto, lease
  <2>1. ASSUME NEW s \in Session, NEW o \in Ops, Begin(s, o) PROVE TypeOK'
    BY <2>1 DEF Begin
  <2>2. ASSUME NEW s \in Session, Status(s) PROVE TypeOK'
    BY <2>2 DEF Status
  <2>3. ASSUME NEW s \in Session, MakeMutex(s) PROVE TypeOK'
    BY <2>3 DEF MakeMutex, Exists
  <2>4. ASSUME NEW s \in Session, FindMutex(s) PROVE TypeOK'
    BY <2>4 DEF FindMutex, Exists
  <2>5. ASSUME NEW s \in Session, StatMutex(s) PROVE TypeOK'
    BY <2>5 DEF StatMutex, TryAgain
  <2>6. ASSUME NEW s \in Session, RemoveOldMutex(s) PROVE TypeOK'
    BY <2>6 DEF RemoveOldMutex, RemoveDirectory, TryAgain, Free
  <2>7. ASSUME NEW s \in Session, Read(s) PROVE TypeOK'
    BY <2>7 DEF Read
  <2>8. ASSUME NEW s \in Session, Refuse(s) \/ NothingToRelease(s) PROVE TypeOK'
    BY <2>8 DEF Refuse, NothingToRelease
  <2>9. ASSUME NEW s \in Session, StoreLease(s) PROVE TypeOK'
    BY <2>9 DEF StoreLease
  <2>10. ASSUME NEW s \in Session, DeleteLease(s) PROVE TypeOK'
    BY <2>10 DEF DeleteLease
  <2>11. ASSUME NEW s \in Session, Leave(s) PROVE TypeOK'
    BY <2>11 DEF Leave, RemoveDirectory, Free
  <2>12. ASSUME NEW s \in Session, Crash(s) PROVE TypeOK'
    BY <2>12 DEF Crash
  <2>13. CASE Expire
    BY <2>13 DEF Expire
  <2>14. CASE Age
    BY <2>14 DEF Age
  <2>15. CASE UNCHANGED vars
    BY <2>15 DEF vars
  <2> QED
    BY <2>1, <2>2, <2>3, <2>4, <2>5, <2>6, <2>7, <2>8, <2>9, <2>10, <2>11,
       <2>12, <2>13, <2>14, <2>15 DEF Next, Advance
<1> QED
  BY <1>1, <1>2, PTL DEF Spec

-----------------------------------------------------------------------------
(* The mutex does its work until one of a live process is removed: whoever  *)
(* is inside made the directory, and what it read is still in the file      *)
(* (an unexpired lease it read may have expired since).                     *)
InsideOwnMutex == \A s \in Session : Inside(s) => mutex.made = s
SeenIsCurrent ==
    \A s \in Session :
        pc[s] = "write" => /\ seen[s].owner = owner
                           /\ live => seen[s].live
MutexInv == ~stolen => InsideOwnMutex /\ SeenIsCurrent

LEMMA MutexInvariant == Spec => []MutexInv
<1>1. Init => MutexInv
  BY DEF Init, MutexInv, InsideOwnMutex, SeenIsCurrent, Inside
<1>2. TypeOK /\ TypeOK' /\ MutexInv /\ [Next]_vars => MutexInv'
  <2> SUFFICES ASSUME TypeOK, TypeOK', MutexInv, [Next]_vars, ~stolen',
                      NEW t \in Session
               PROVE  /\ Inside(t)' => mutex.made' = t
                      /\ pc'[t] = "write" => /\ seen'[t].owner = owner'
                                             /\ live' => seen'[t].live
    BY DEF MutexInv, InsideOwnMutex, SeenIsCurrent
  <2> USE SessionAssumption
      DEF TypeOK, MutexInv, InsideOwnMutex, SeenIsCurrent, Inside, Goto, lease
  <2>1. ASSUME NEW s \in Session,
               \/ \E o \in Ops : Begin(s, o)
               \/ Status(s) \/ FindMutex(s) \/ StatMutex(s)
        PROVE  /\ Inside(t)' => mutex.made' = t
               /\ pc'[t] = "write" => /\ seen'[t].owner = owner'
                                      /\ live' => seen'[t].live
    BY <2>1 DEF Begin, Status, FindMutex, StatMutex, TryAgain, Places
  <2>2. ASSUME NEW s \in Session, MakeMutex(s)
        PROVE  /\ Inside(t)' => mutex.made' = t
               /\ pc'[t] = "write" => /\ seen'[t].owner = owner'
                                      /\ live' => seen'[t].live
    BY <2>2 DEF MakeMutex, Exists, Places
  <2>3. ASSUME NEW s \in Session, RemoveOldMutex(s)
        PROVE  /\ Inside(t)' => mutex.made' = t
               /\ pc'[t] = "write" => /\ seen'[t].owner = owner'
                                      /\ live' => seen'[t].live
    BY <2>3 DEF RemoveOldMutex, RemoveDirectory, TryAgain, Exists, Places
  <2>4. ASSUME NEW s \in Session, Read(s)
        PROVE  /\ Inside(t)' => mutex.made' = t
               /\ pc'[t] = "write" => /\ seen'[t].owner = owner'
                                      /\ live' => seen'[t].live
    BY <2>4 DEF Read, Places
  <2>5. ASSUME NEW s \in Session,
               \/ Refuse(s) \/ NothingToRelease(s) \/ StoreLease(s)
               \/ DeleteLease(s) \/ Crash(s)
        PROVE  /\ Inside(t)' => mutex.made' = t
               /\ pc'[t] = "write" => /\ seen'[t].owner = owner'
                                      /\ live' => seen'[t].live
    BY <2>5 DEF Refuse, NothingToRelease, StoreLease, DeleteLease, Crash, Places
  <2>6. ASSUME NEW s \in Session, Leave(s)
        PROVE  /\ Inside(t)' => mutex.made' = t
               /\ pc'[t] = "write" => /\ seen'[t].owner = owner'
                                      /\ live' => seen'[t].live
    BY <2>6 DEF Leave, RemoveDirectory, Exists, Places
  <2>7. CASE Expire
    BY <2>7 DEF Expire
  <2>8. CASE Age
    BY <2>8 DEF Age
  <2>9. CASE UNCHANGED vars
    BY <2>9 DEF vars
  <2> QED
    BY <2>1, <2>2, <2>3, <2>4, <2>5, <2>6, <2>7, <2>8, <2>9 DEF Next, Advance
<1> QED
  BY <1>1, <1>2, LeaseTyping, PTL DEF Spec

(* A granted session that nothing has ended is the one in the file, for any *)
(* number of sessions, crashes and attempts, until the mutex of a live      *)
(* process is removed.                                                      *)
THEOREM GrantSafety == Spec => []GrantsStand
<1>1. Init => GrantsStand
  BY DEF Init, GrantsStand
<1>2. TypeOK /\ MutexInv /\ GrantsStand /\ [Next]_vars => GrantsStand'
  <2> SUFFICES ASSUME TypeOK, MutexInv, GrantsStand, [Next]_vars, ~stolen',
                      NEW t \in Session, granted'[t]
               PROVE  live' /\ owner' = t
    BY DEF GrantsStand
  <2> USE DEF TypeOK, GrantsStand, lease
  <2>1. ASSUME UNCHANGED <<lease, granted>>, stolen => stolen'
        PROVE  live' /\ owner' = t
    BY <2>1
  <2>2. ASSUME NEW s \in Session,
               \/ \E o \in Ops : Begin(s, o)
               \/ Status(s) \/ MakeMutex(s) \/ FindMutex(s) \/ StatMutex(s)
               \/ RemoveOldMutex(s) \/ Read(s) \/ Refuse(s)
               \/ NothingToRelease(s) \/ Leave(s) \/ Crash(s)
        PROVE  UNCHANGED <<lease, granted>> /\ (stolen => stolen')
    BY <2>2 DEF Begin, Status, MakeMutex, FindMutex, StatMutex, RemoveOldMutex,
                Read, Refuse, NothingToRelease, Leave, Crash, RemoveDirectory
  <2>3. ASSUME NEW s \in Session, StoreLease(s)
        PROVE  live' /\ owner' = t
    BY <2>3 DEF StoreLease, MutexInv, SeenIsCurrent, Conflict
  <2>4. ASSUME NEW s \in Session, DeleteLease(s)
        PROVE  live' /\ owner' = t
    BY <2>4 DEF DeleteLease, MutexInv, SeenIsCurrent, Conflict
  <2>5. CASE Expire
    BY <2>5 DEF Expire
  <2>6. CASE Age
    BY <2>6 DEF Age
  <2>7. CASE UNCHANGED vars
    BY <2>7 DEF vars
  <2> QED
    BY <2>1, <2>2, <2>3, <2>4, <2>5, <2>6, <2>7 DEF Next, Advance
<1> QED
  BY <1>1, <1>2, LeaseTyping, MutexInvariant, PTL DEF Spec

-----------------------------------------------------------------------------
(* Read and write inside the mutex make one operation: every step is a step *)
(* of the atomic lease, or leaves the file alone, with any number of        *)
(* sessions that contend, die and are suspended for as long as they like,   *)
(* until one of them removes the mutex of another that is still inside.     *)
THEOREM LeaseRefinement == Spec => RefinesAuthority
<1>1. Init => Authority!Init
  BY DEF Init, Authority!Init
<1>2. TypeOK /\ MutexInv /\ [Next]_vars => [StepsAuthority]_vars
  <2> SUFFICES ASSUME TypeOK, MutexInv, [Next]_vars, ~stolen'
               PROVE  Authority!Next \/ UNCHANGED <<lease, granted>>
    BY DEF StepsAuthority, lease
  <2>1. ASSUME NEW s \in Session,
               \/ \E o \in Ops : Begin(s, o)
               \/ Status(s) \/ MakeMutex(s) \/ FindMutex(s) \/ StatMutex(s)
               \/ RemoveOldMutex(s) \/ Read(s) \/ Refuse(s)
               \/ NothingToRelease(s) \/ Leave(s) \/ Crash(s)
        PROVE  UNCHANGED <<lease, granted>>
    BY <2>1 DEF Begin, Status, MakeMutex, FindMutex, StatMutex, RemoveOldMutex,
                Read, Refuse, NothingToRelease, Leave, Crash
  <2>2. ASSUME NEW s \in Session, StoreLease(s)
        PROVE  Authority!Grant(s) \/ Authority!Take(s)
    <3>1. ~stolen
      BY <2>2 DEF StoreLease
    <3>2. CASE op[s] = "take"
      BY <2>2, <3>2 DEF StoreLease, Authority!Take
    <3>3. CASE op[s] # "take"
      BY <2>2, <3>1, <3>3 DEF StoreLease, Authority!Grant, TypeOK, MutexInv,
                              SeenIsCurrent, Conflict
    <3> QED
      BY <3>2, <3>3
  <2>3. ASSUME NEW s \in Session, DeleteLease(s)
        PROVE  Authority!Drop(s) \/ Authority!Revoke
    <3>1. ~stolen
      BY <2>3 DEF DeleteLease
    <3> QED
      BY <2>3, <3>1 DEF DeleteLease, Authority!Drop, Authority!Revoke, TypeOK,
                        MutexInv, SeenIsCurrent, Conflict
  <2>4. CASE Expire
    BY <2>4 DEF Expire, Authority!Next, Authority!Expire
  <2>5. CASE Age
    BY <2>5 DEF Age
  <2>6. CASE UNCHANGED vars
    BY <2>6 DEF vars, lease
  <2> QED
    BY <2>1, <2>2, <2>3, <2>4, <2>5, <2>6 DEF Next, Advance, Authority!Next
<1> QED
  BY <1>1, <1>2, LeaseTyping, MutexInvariant, PTL DEF Spec, RefinesAuthority

-----------------------------------------------------------------------------
(* Sequences of calls, whose first is done.                                  *)
LEMMA NotEmpty ==
    ASSUME NEW S, NEW s \in Seq(S)
    PROVE  s # <<>> <=> Len(s) # 0
BY EmptySeq

LEMMA TailIs ==
    ASSUME NEW S, NEW s \in Seq(S), Len(s) # 0, Len(s) # 1
    PROVE  /\ Tail(s) \in Seq(S) /\ Tail(s) # <<>>
           /\ Len(s) \in Nat /\ Len(s) >= 2 /\ Len(Tail(s)) = Len(s) - 1
           /\ \A j \in 1 .. Len(Tail(s)) : Tail(s)[j] = s[j + 1]
<1>1. Len(s) \in Nat /\ Len(s) >= 2
  <2>1. PICK n \in Nat : n = Len(s)
    BY LenProperties
  <2>2. n # 0 /\ n # 1
    BY <2>1
  <2>3. n >= 2
    BY <2>2
  <2> QED
    BY <2>1, <2>3
<1>2. /\ Tail(s) \in Seq(S) /\ Len(Tail(s)) = Len(s) - 1
      /\ \A j \in 1 .. Len(Tail(s)) : Tail(s)[j] = s[j + 1]
  BY NotEmpty, HeadTailProperties
<1>3. Len(Tail(s)) # 0
  BY <1>1, <1>2
<1>4. Tail(s) # <<>>
  <2>1. PICK t : t = Tail(s)
    OBVIOUS
  <2>2. Len(t) # 0
    BY <1>3, <2>1
  <2>3. t # <<>>
    BY <2>2
  <2> QED
    BY <2>1, <2>3
<1> QED
  BY <1>1, <1>2, <1>4

LEMMA NextPlace ==
    ASSUME NEW S, NEW s \in Seq(S), Len(s) # 0, Len(s) # 1,
           NEW w, NEW k \in Nat, k + Len(s) = Len(w), \A j \in 1 .. Len(s) : s[j] = w[k + j],
           NEW t, t = Tail(s)
    PROVE  /\ (k + 1) + Len(t) = Len(w) /\ \A j \in 1 .. Len(t) : t[j] = w[(k + 1) + j]
           /\ k + 1 \in 1 .. Len(w) /\ k + 2 \in 1 .. Len(w)
           /\ s[1] = w[k + 1] /\ t[1] = w[k + 2]
<1>1. /\ Len(s) \in Nat /\ Len(s) >= 2 /\ Len(t) = Len(s) - 1
      /\ \A j \in 1 .. Len(t) : t[j] = s[j + 1]
  BY TailIs
<1>2. /\ (k + 1) + Len(t) = Len(w) /\ k + 1 \in 1 .. Len(w) /\ k + 2 \in 1 .. Len(w)
  BY <1>1
<1>3. ASSUME NEW j \in 1 .. Len(t) PROVE t[j] = w[(k + 1) + j]
  BY <1>1
<1>4. s[1] = w[k + 1] /\ t[1] = w[(k + 1) + 1] /\ (k + 1) + 1 = k + 2
  BY <1>1, <1>3
<1> QED
  BY <1>2, <1>3, <1>4
-----------------------------------------------------------------------------
(* The task store.  What a command is made of.                              *)
Folders == {"active", "blocked", "done", "inbox"}
Direct == [by : {"id"}, of : Ids] \cup [by : {"made"}, of : Nat \ {0}]
Refs == Direct \cup [by : {"title"}, of : Slugs]
Creates == [do : {"create"}, title : Titles, parent : {0} \cup Ids]
Finds == [do : {"find"}, ref : Refs]
Updates == [do : {"update"}, ref : Refs, change : {"log"}, with : {{}}] \cup
           [do : {"update"}, ref : Refs, change : {"depend", "slices"}, with : SUBSET Direct] \cup
           [do : {"update"}, ref : Refs, change : {"status"}, with : Statuses]
Saves == [do : {"save"}, n : Nat \ {0}, deps : SUBSET (Nat \ {0})]
Calls == Creates \cup Finds \cup Updates \cup Saves \cup {Seal}

Copies == {m \in [path : Paths, copy : Tasks] : Slug[m.copy.title] = m.path.slug}
StoreSteps == {"start", "count", "file", "load", "write", "move"}
Commands == [calls : Seq(Calls), step : StoreSteps, number : {0} \cup Ids, listed : 0 .. 4,
             seen : SUBSET Paths, path : Paths \cup {NoPath}, copy : Tasks \cup {0},
             made : Seq(Copies)]

LEMMA StoreConstants ==
    /\ Statuses = {"draft", "active", "blocked", "done"}
    /\ \A s \in Statuses : FolderOf[s] \in Folders
    /\ FolderOf["draft"] = "inbox"
    /\ Len(Listing) = 4 /\ \A i \in 1 .. 4 : Listing[i] \in Folders
    /\ \A f \in Folders : \E i \in 1 .. 4 : Listing[i] = f
    /\ 1 \in Ids /\ Ids \subseteq Nat \ {0}
<1>1. Statuses = {"draft", "active", "blocked", "done"}
  BY DEF Statuses, FolderOf
<1>2. /\ FolderOf["draft"] = "inbox" /\ FolderOf["active"] = "active"
      /\ FolderOf["blocked"] = "blocked" /\ FolderOf["done"] = "done"
  BY DEF FolderOf
<1>3. Len(Listing) = 4 /\ \A i \in 1 .. 4 : Listing[i] \in Folders
  BY DEF Listing, Folders
<1>4. \A f \in Folders : \E i \in 1 .. 4 : Listing[i] = f
  <2>1. /\ Listing[1] = "active" /\ Listing[2] = "blocked" /\ Listing[3] = "done"
        /\ Listing[4] = "inbox"
    BY DEF Listing
  <2> QED
    BY <2>1 DEF Folders
<1>5. 1 \in Ids /\ Ids \subseteq Nat \ {0}
  BY TaskStoreAssumption DEF Ids
<1> QED
  BY <1>1, <1>2, <1>3, <1>4, <1>5 DEF Folders

(* The calls of materializeSlices, one by one.                              *)
LEMMA SlicingIs ==
    ASSUME NEW n \in Slices
    PROVE  /\ Len(Slicing(n)) = 5
           /\ Slicing(n)[1] = Make(SliceTitles[n], 1)
           /\ Slicing(n)[2] = Find(Made(n))
           /\ Slicing(n)[3] = Update(ById(1), "depend", {Made(n)})
           /\ Slicing(n)[4] = Update(ById(1), "log", {})
           /\ Slicing(n)[5] = Save(n, {})
<1>1. PICK a, b, c, d, e : /\ a = Make(SliceTitles[n], 1) /\ b = Find(Made(n))
                           /\ c = Update(ById(1), "depend", {Made(n)})
                           /\ d = Update(ById(1), "log", {}) /\ e = Save(n, {})
  OBVIOUS
<1>2. Slicing(n) = (<<a>> \o <<b, c>> \o <<d>>) \o <<e>>
  BY <1>1 DEF Slicing, Subtask, addDependency
<1> QED
  BY <1>1, <1>2

Total == Len(SliceTitles)

LEMMA TotalIs == Total \in Nat \ {0} /\ Slices = 1 .. Total /\ \A n \in Slices : SliceTitles[n] \in Titles
BY TaskStoreAssumption DEF Total, Slices

LEMMA SliceCallsAre ==
    /\ SliceCalls \in [1 .. 5 * Total -> {Slicing(n)[k] : n \in Slices, k \in 1 .. 5}]
    /\ \A n \in Slices, k \in 1 .. 5 : SliceCalls[5 * (n - 1) + k] = Slicing(n)[k]
<1>1. 1 \in Slices /\ Total \in Nat /\ Slices = 1 .. Total
  BY TotalIs
<1>2. Len(Slicing(1)) = 5
  BY <1>1, SlicingIs
<1> DEFINE Slice(i) == 1 + ((i - 1) \div 5)
<1>3. SliceCalls = [i \in 1 .. 5 * Total |-> Slicing(Slice(i))[i - 5 * (Slice(i) - 1)]]
  BY <1>2 DEF SliceCalls, Total
<1>4. ASSUME NEW i \in 1 .. 5 * Total
      PROVE  Slice(i) \in Slices /\ i - 5 * (Slice(i) - 1) \in 1 .. 5
  BY <1>1
<1>5. ASSUME NEW n \in Slices, NEW k \in 1 .. 5
      PROVE  Slice(5 * (n - 1) + k) = n /\ 5 * (n - 1) + k \in 1 .. 5 * Total
  BY <1>1
<1> HIDE DEF Slice
<1>6. SliceCalls \in [1 .. 5 * Total -> {Slicing(n)[k] : n \in Slices, k \in 1 .. 5}]
  BY <1>3, <1>4
<1>7. ASSUME NEW n \in Slices, NEW k \in 1 .. 5
      PROVE  SliceCalls[5 * (n - 1) + k] = Slicing(n)[k]
  <2>1. (5 * (n - 1) + k) - 5 * (n - 1) = k
    BY <1>1
  <2> QED
    BY <1>3, <1>5, <2>1
<1> QED
  BY <1>6, <1>7

(* The calls of commands are calls.                                         *)
LEMMA CallsAre ==
    /\ \A t \in Titles, id \in {0} \cup Ids : Make(t, id) \in Creates
    /\ \A r \in Refs : /\ Find(r) \in Finds
                       /\ Update(r, "log", {}) \in Updates
                       /\ \A with \in SUBSET Direct : /\ Update(r, "depend", with) \in Updates
                                                      /\ Update(r, "slices", with) \in Updates
                       /\ \A s \in Statuses : Update(r, "status", s) \in Updates
    /\ \A n \in Nat \ {0}, deps \in SUBSET (Nat \ {0}) : Save(n, deps) \in Saves
    /\ \A id \in Ids : ById(id) \in Direct
    /\ \A n \in Nat \ {0} : Made(n) \in Direct
    /\ \A s \in Slugs : ByTitle(s) \in Refs
<1>1. \A t \in Titles, id \in {0} \cup Ids : Make(t, id) \in Creates
  BY DEF Make, Creates
<1>2. \A r \in Refs : Find(r) \in Finds
  BY DEF Find, Finds
<1>3. ASSUME NEW r \in Refs
      PROVE  /\ Update(r, "log", {}) \in Updates
             /\ \A with \in SUBSET Direct : /\ Update(r, "depend", with) \in Updates
                                            /\ Update(r, "slices", with) \in Updates
             /\ \A s \in Statuses : Update(r, "status", s) \in Updates
  BY DEF Update, Updates
<1>4. \A n \in Nat \ {0}, deps \in SUBSET (Nat \ {0}) : Save(n, deps) \in Saves
  BY DEF Save, Saves
<1>5. /\ \A id \in Ids : ById(id) \in Direct
      /\ \A n \in Nat \ {0} : Made(n) \in Direct
      /\ \A s \in Slugs : ByTitle(s) \in Refs
  BY DEF ById, Made, ByTitle, Direct, Refs
<1> QED
  BY <1>1, <1>2, <1>3, <1>4, <1>5

(* Materialize has a search, five calls for each slice, a save for each     *)
(* slice, the parent's slices and the plan.                                 *)
SecondSave(n) == Save(n, {m \in Slices : m + 1 = n})
OwnSlices == Update(ById(1), "slices", {Made(n) : n \in Slices})

LEMMA MaterializeIs ==
    /\ Materialize \in Seq(Calls) /\ Len(Materialize) = 6 * Total + 3
    /\ Materialize[1] = Find(ById(1))
    /\ \A n \in Slices : /\ \A k \in 1 .. 5 : Materialize[5 * n - 4 + k] = Slicing(n)[k]
                         /\ Materialize[5 * Total + 1 + n] = SecondSave(n)
    /\ Materialize[6 * Total + 2] = OwnSlices
    /\ Materialize[6 * Total + 3] = Seal
<1>1. Total \in Nat \ {0} /\ Slices = 1 .. Total /\ \A n \in Slices : SliceTitles[n] \in Titles
  BY TotalIs
<1>2. ASSUME NEW n \in Slices, NEW k \in 1 .. 5 PROVE Slicing(n)[k] \in Calls
  <2>1. ById(1) \in Refs /\ Made(n) \in Direct /\ Made(n) \in Refs /\ n \in Nat \ {0}
    BY <1>1, CallsAre, StoreConstants DEF Refs
  <2>2. /\ Make(SliceTitles[n], 1) \in Calls /\ Find(Made(n)) \in Calls
        /\ Update(ById(1), "depend", {Made(n)}) \in Calls
        /\ Update(ById(1), "log", {}) \in Calls /\ Save(n, {}) \in Calls
    BY <1>1, <2>1, CallsAre, StoreConstants DEF Calls
  <2>3. k = 1 \/ k = 2 \/ k = 3 \/ k = 4 \/ k = 5
    OBVIOUS
  <2> QED
    BY <2>2, <2>3, SlicingIs
<1>3. ASSUME NEW n \in Slices PROVE SecondSave(n) \in Calls
  <2>1. n \in Nat \ {0} /\ {m \in Slices : m + 1 = n} \in SUBSET (Nat \ {0})
    BY <1>1
  <2> QED
    BY <2>1, CallsAre DEF SecondSave, Calls
<1>4. OwnSlices \in Calls /\ Find(ById(1)) \in Calls /\ Seal \in Calls
  <2>1. {Made(n) : n \in Slices} \in SUBSET Direct
    BY <1>1, CallsAre
  <2>2. ById(1) \in Refs
    BY CallsAre, StoreConstants DEF Refs
  <2> QED
    BY <2>1, <2>2, CallsAre DEF OwnSlices, Calls
<1>5. PICK S : S = Calls
  OBVIOUS
<1>6. PICK first, saves, last :
        /\ first = <<Find(ById(1))>> /\ saves = [n \in Slices |-> SecondSave(n)]
        /\ last = <<OwnSlices, Seal>>
  OBVIOUS
<1>7. first \in Seq(S) /\ Len(first) = 1
  BY <1>4, <1>5, <1>6
<1>8. saves \in Seq(S) /\ Len(saves) = Total
  BY <1>1, <1>3, <1>5, <1>6
<1>9. SliceCalls \in Seq(S) /\ Len(SliceCalls) = 5 * Total
  <2>1. {Slicing(n)[k] : n \in Slices, k \in 1 .. 5} \subseteq S
    BY <1>2, <1>5
  <2>2. SliceCalls \in [1 .. 5 * Total -> S]
    BY <2>1, SliceCallsAre
  <2>3. 5 * Total \in Nat
    BY <1>1
  <2> QED
    BY <2>2, <2>3
<1>10. last \in Seq(S) /\ Len(last) = 2
  BY <1>4, <1>5, <1>6
<1>11. PICK x : x = first \o SliceCalls
  OBVIOUS
<1>12. x \in Seq(S) /\ Len(x) = 1 + 5 * Total
  <2>1. x \in Seq(S) /\ Len(x) = Len(first) + Len(SliceCalls)
    BY <1>7, <1>9, <1>11, ConcatProperties
  <2> QED
    BY <1>7, <1>9, <2>1
<1>13. PICK y : y = x \o saves
  OBVIOUS
<1>14. y \in Seq(S) /\ Len(y) = 6 * Total + 1
  <2>1. y \in Seq(S) /\ Len(y) = Len(x) + Len(saves)
    BY <1>8, <1>12, <1>13, ConcatProperties
  <2> QED
    BY <1>1, <1>8, <1>12, <2>1
<1>15. PICK z : z = y \o last
  OBVIOUS
<1>16. z \in Seq(S) /\ Len(z) = 6 * Total + 3
  <2>1. z \in Seq(S) /\ Len(z) = Len(y) + Len(last)
    BY <1>10, <1>14, <1>15, ConcatProperties
  <2> QED
    BY <1>1, <1>10, <1>14, <2>1
<1>17. Materialize = z
  BY <1>6, <1>11, <1>13, <1>15 DEF Materialize, SecondSave, OwnSlices
<1>18. ASSUME NEW i \in 1 .. 6 * Total + 1 PROVE z[i] = y[i]
  BY <1>10, <1>14, <1>15
<1>19. ASSUME NEW i \in 1 .. 5 * Total + 1 PROVE y[i] = x[i]
  BY <1>1, <1>8, <1>12, <1>13
<1>20. ASSUME NEW n \in Slices, NEW k \in 1 .. 5 PROVE z[5 * n - 4 + k] = Slicing(n)[k]
  <2>1. /\ 5 * (n - 1) + k \in 1 .. 5 * Total /\ 5 * n - 4 + k = 1 + (5 * (n - 1) + k)
        /\ 5 * n - 4 + k \in 1 .. 5 * Total + 1 /\ 5 * n - 4 + k \in 1 .. 6 * Total + 1
    BY <1>1
  <2>2. z[5 * n - 4 + k] = x[1 + (5 * (n - 1) + k)]
    BY <1>18, <1>19, <2>1
  <2>3. x[1 + (5 * (n - 1) + k)] = SliceCalls[5 * (n - 1) + k]
    <3>1. 5 * (n - 1) + k \in 1 .. Len(SliceCalls)
      BY <1>9, <2>1
    <3>2. PICK j : j = 5 * (n - 1) + k
      OBVIOUS
    <3>3. j \in 1 .. Len(SliceCalls)
      BY <3>1, <3>2
    <3>4. x[Len(first) + j] = SliceCalls[j]
      <4>1. first \in Seq(S) /\ SliceCalls \in Seq(S)
        BY <1>7, <1>9
      <4>2. /\ Len(first) + j \in 1 .. Len(first) + Len(SliceCalls)
            /\ ~(Len(first) + j <= Len(first)) /\ Len(first) + j - Len(first) = j
        BY <1>7, <1>9, <3>3
      <4> QED
        <5>1. \A i \in 1 .. Len(first) + Len(SliceCalls) :
                x[i] = IF i <= Len(first) THEN first[i] ELSE SliceCalls[i - Len(first)]
          BY <1>11, <4>1, ConcatProperties
        <5>2. PICK i : i = Len(first) + j
          OBVIOUS
        <5>3. i \in 1 .. Len(first) + Len(SliceCalls) /\ ~(i <= Len(first)) /\ i - Len(first) = j
          BY <1>7, <1>9, <3>3, <5>2
        <5>4. x[i] = SliceCalls[i - Len(first)]
          BY <5>1, <5>3
        <5> QED
          BY <5>2, <5>3, <5>4
    <3> QED
      BY <1>7, <3>2, <3>4
  <2> QED
    BY <2>2, <2>3, SliceCallsAre
<1>21. ASSUME NEW n \in Slices PROVE z[5 * Total + 1 + n] = SecondSave(n)
  <2>1. 5 * Total + 1 + n \in 1 .. 6 * Total + 1 /\ n \in 1 .. Total /\ 5 * Total + 1 \in Nat
    BY <1>1
  <2>2. y[(1 + 5 * Total) + n] = saves[n]
    <3>1. n \in 1 .. Len(saves)
      BY <1>8, <2>1
    <3>2. y[Len(x) + n] = saves[n]
      BY <1>8, <1>12, <1>13, <3>1, ConcatProperties
    <3> QED
      BY <1>12, <3>2
  <2>3. saves[n] = SecondSave(n)
    BY <1>6
  <2> QED
    BY <1>1, <1>18, <2>1, <2>2, <2>3
<1>22. z[1] = Find(ById(1))
  <2>1. z[1] = x[1]
    BY <1>1, <1>18, <1>19
  <2>2. x[1] = Find(ById(1))
    BY <1>6, <1>9, <1>11
  <2> QED
    BY <2>1, <2>2
<1>23. z[6 * Total + 2] = OwnSlices /\ z[6 * Total + 3] = Seal
  <2>1. /\ z[(6 * Total + 1) + 1] = last[1] /\ z[(6 * Total + 1) + 2] = last[2]
    <3>1. /\ z[Len(y) + 1] = last[1] /\ z[Len(y) + 2] = last[2]
      BY <1>10, <1>14, <1>15, ConcatProperties
    <3> QED
      BY <1>14, <3>1
  <2>2. last[1] = OwnSlices /\ last[2] = Seal
    BY <1>6
  <2>3. (6 * Total + 1) + 1 = 6 * Total + 2 /\ (6 * Total + 1) + 2 = 6 * Total + 3
    BY <1>1
  <2> QED
    BY <2>1, <2>2, <2>3
<1> QED
  BY <1>5, <1>16, <1>17, <1>20, <1>21, <1>22, <1>23

-----------------------------------------------------------------------------
(* A command, and where it is in its calls.  have[i] is how many tasks it    *)
(* has made after i calls: a call refers to no later ones, and a dependency  *)
(* is added after a search for it.                                          *)
Planned(whole, have) ==
    /\ whole \in Seq(Calls) /\ Len(whole) \in Nat \ {0}
    /\ have \in [0 .. Len(whole) -> Nat] /\ have[0] = 0
    /\ \A i \in 1 .. Len(whole) :
          /\ have[i] = IF whole[i].do = "create" THEN have[i - 1] + 1 ELSE have[i - 1]
          /\ whole[i].do \in {"find", "update"} /\ whole[i].ref.by = "made" =>
                whole[i].ref.of <= have[i - 1]
          /\ whole[i].do = "update" /\ whole[i].change \in {"depend", "slices"} =>
                \A r \in whole[i].with : r.by = "made" => r.of <= have[i - 1]
          /\ whole[i].do = "update" /\ whole[i].change = "depend" =>
                i > 1 /\ \E r \in Direct : whole[i].with = {r} /\ whole[i - 1] = Find(r)
          /\ whole[i].do = "save" =>
                whole[i].n <= have[i - 1] /\ \A m \in whole[i].deps : m <= have[i - 1]

Placed(c, whole, have, k) ==
    /\ k \in Nat /\ k + Len(c.calls) = Len(whole)
    /\ \A j \in 1 .. Len(c.calls) : c.calls[j] = whole[k + j]
    /\ Len(c.made) = have[k]

NumberIn(c, ref) == IF ref.by = "made" THEN c.made[ref.of].path.id ELSE ref.of

\* A command, when S are the numbers of the tasks that are stored.
CommandFits(c, S) ==
    /\ c \in Commands
    /\ Len(c.calls) = 0 => c = NoCommand
    /\ \A i \in 1 .. Len(c.made) : c.made[i].path.id \in S
    /\ Len(c.calls) # 0 =>
          /\ \E whole, have, k : Planned(whole, have) /\ Placed(c, whole, have, k)
          /\ c.calls[1].do = "update" /\ c.calls[1].change = "depend" =>
                \A r \in c.calls[1].with : NumberIn(c, r) \in S
          /\ c.step \in {"count", "file"} => c.calls[1].do = "create" /\ c.number \in Ids
          /\ c.step = "load" => c.calls[1].do = "update" /\ c.path \in Paths
          /\ c.step \in {"write", "move"} =>
                /\ c.calls[1].do \in {"update", "save"} /\ c.path \in Paths
                /\ c.copy \in Tasks /\ c.copy.deps \subseteq S /\ Slug[c.copy.title] = c.path.slug

StoredIds == {x.id : x \in DOMAIN file}
FilesFit ==
    /\ counter \in 1 .. MaxTasks + 1
    /\ DOMAIN file \subseteq Paths
    /\ \A x \in DOMAIN file : file[x] \in Tasks /\ file[x].deps \subseteq StoredIds
    /\ \A x \in DOMAIN file : Slug[file[x].title] = x.slug
    /\ plan \in {"draft", "materialized"}
    /\ born \subseteq Ids \X Titles
    /\ \A b \in born : \E x \in DOMAIN file : x.id = b[1] /\ x.slug = Slug[b[2]]
    /\ begun \in Nat /\ serial \in BOOLEAN
StoreFits ==
    /\ FilesFit
    /\ command \in [Processes -> Commands]
    /\ \A p \in Processes : CommandFits(command[p], StoredIds)

LEMMA NoCommandFits == \A S : CommandFits(NoCommand, S)
<1>1. NoCommand \in Commands
  BY DEF NoCommand, Commands, StoreSteps
<1>2. NoCommand.calls = <<>> /\ NoCommand.made = <<>>
  BY DEF NoCommand
<1> QED
  BY <1>1, <1>2 DEF CommandFits

LEMMA StartsAreCommands ==
    ASSUME NEW calls \in Seq(Calls), NEW made \in Seq(Copies)
    PROVE  /\ [NoCommand EXCEPT !.calls = calls] \in Commands
           /\ [NoCommand EXCEPT !.calls = calls, !.made = made] \in Commands
<1>1. NoCommand \in Commands
  BY NoCommandFits DEF CommandFits
<1> QED
  BY <1>1 DEF Commands

LEMMA MoreFits ==
    ASSUME NEW c, NEW S, NEW T, CommandFits(c, S), S \subseteq T
    PROVE  CommandFits(c, T)
BY DEF CommandFits

\* A command that has its calls before it.
LEMMA BeginFits ==
    ASSUME NEW whole, NEW have, NEW S, Planned(whole, have)
    PROVE  CommandFits([NoCommand EXCEPT !.calls = whole], S)
<1> DEFINE c == [NoCommand EXCEPT !.calls = whole]
<1>1. /\ whole \in Seq(Calls) /\ Len(whole) \in Nat \ {0} /\ whole # <<>>
      /\ have[0] = 0
  BY DEF Planned
<1>2. c.calls = whole /\ c.made = <<>> /\ c.step = "start"
  BY DEF NoCommand
<1>3. c \in Commands
  BY <1>1, StartsAreCommands, NoCommandFits DEF CommandFits, Commands
<1> HIDE DEF c
<1>4. Placed(c, whole, have, 0)
  BY <1>1, <1>2 DEF Placed
<1>5. ~(whole[1].do = "update" /\ whole[1].change = "depend")
  BY <1>1 DEF Planned
<1>6. CommandFits(c, S)
  BY <1>1, <1>2, <1>3, <1>4, <1>5 DEF CommandFits
<1> QED
  BY <1>6 DEF c

\* A command with its first call done, which made tasks if it is a creation.
LEMMA RestFits ==
    ASSUME NEW c, NEW S, CommandFits(c, S), Len(c.calls) # 0,
           NEW made \in Seq(Copies), \A i \in 1 .. Len(made) : made[i].path.id \in S,
           IF c.calls[1].do = "create" THEN Len(made) = Len(c.made) + 1 ELSE made = c.made,
           c.calls[1].do = "find" /\ c.calls[1].ref.by # "title" =>
               NumberIn(c, c.calls[1].ref) \in S
    PROVE  CommandFits(Rest([c EXCEPT !.made = made]), S)
<1> DEFINE d == [c EXCEPT !.made = made]
           e == [NoCommand EXCEPT !.calls = Tail(c.calls), !.made = made]
<1>1. c \in Commands /\ c.calls \in Seq(Calls) /\ c.made \in Seq(Copies)
  BY DEF CommandFits, Commands
<1>2. d.calls = c.calls /\ d.made = made
  BY <1>1 DEF Commands
<1>3. CASE Len(c.calls) = 1
  BY <1>2, <1>3, NoCommandFits DEF Rest
<1>4. CASE Len(c.calls) # 1
  <2>1. Rest(d) = e
    BY <1>2, <1>4 DEF Rest
  <2>2. Tail(c.calls) \in Seq(Calls) /\ Len(Tail(c.calls)) # 0
    BY <1>1, <1>4, TailIs, NotEmpty
  <2>3. e.calls = Tail(c.calls) /\ e.made = made /\ e.step = "start" /\ e \in Commands
    <3>1. NoCommand \in Commands /\ NoCommand.step = "start"
      BY NoCommandFits DEF CommandFits, NoCommand
    <3>2. e \in Commands
      BY <2>2, StartsAreCommands
    <3> QED
      BY <3>1, <3>2 DEF Commands
  <2> HIDE DEF d, e
  <2>4. PICK whole, have, k : Planned(whole, have) /\ Placed(c, whole, have, k)
    BY DEF CommandFits
  <2>5. /\ k \in Nat /\ k + Len(c.calls) = Len(whole)
        /\ \A j \in 1 .. Len(c.calls) : c.calls[j] = whole[k + j]
        /\ Len(c.made) = have[k]
    BY <2>4 DEF Placed
  <2>6. /\ (k + 1) + Len(e.calls) = Len(whole)
        /\ \A j \in 1 .. Len(e.calls) : e.calls[j] = whole[(k + 1) + j]
        /\ k + 1 \in 1 .. Len(whole) /\ k + 2 \in 1 .. Len(whole)
        /\ c.calls[1] = whole[k + 1] /\ e.calls[1] = whole[k + 2]
    <3>1. PICK s, t : s = c.calls /\ t = e.calls
      OBVIOUS
    <3>2. s \in Seq(Calls) /\ Len(s) # 0 /\ Len(s) # 1 /\ t = Tail(s)
      BY <1>1, <1>4, <2>3, <3>1
    <3>3. k \in Nat /\ k + Len(s) = Len(whole) /\ \A j \in 1 .. Len(s) : s[j] = whole[k + j]
      BY <2>5, <3>1
    <3>4. /\ (k + 1) + Len(t) = Len(whole) /\ \A j \in 1 .. Len(t) : t[j] = whole[(k + 1) + j]
          /\ k + 1 \in 1 .. Len(whole) /\ k + 2 \in 1 .. Len(whole)
          /\ s[1] = whole[k + 1] /\ t[1] = whole[k + 2]
      BY <3>2, <3>3, NextPlace
    <3> QED
      BY <3>1, <3>4
  <2>7. Placed(e, whole, have, k + 1)
    <3>1. have[k + 1] = IF whole[k + 1].do = "create" THEN have[k] + 1 ELSE have[k]
      <4>1. (k + 1) - 1 = k
        BY <2>5
      <4> QED
        BY <2>4, <2>6, <4>1 DEF Planned
    <3>2. Len(made) = have[k + 1]
      BY <2>5, <2>6, <3>1
    <3>3. k + 1 \in Nat
      BY <2>5
    <3> QED
      BY <2>3, <2>6, <3>2, <3>3 DEF Placed
  <2>8. ASSUME e.calls[1].do = "update", e.calls[1].change = "depend", NEW r \in e.calls[1].with
        PROVE  NumberIn(e, r) \in S
    <3>1. \E q \in Direct : whole[k + 2].with = {q} /\ whole[(k + 2) - 1] = Find(q)
      BY <2>4, <2>6, <2>8 DEF Planned
    <3>2. (k + 2) - 1 = k + 1
      BY <2>5
    <3>3. r \in Direct /\ c.calls[1] = Find(r)
      BY <2>6, <2>8, <3>1, <3>2
    <3>4. c.calls[1].do = "find" /\ c.calls[1].ref = r /\ r.by # "title"
      BY <3>3 DEF Find, Direct
    <3> QED
      BY <2>3, <3>4 DEF NumberIn
  <2>9. CommandFits(e, S)
    <3>1. \A i \in 1 .. Len(e.made) : e.made[i].path.id \in S
      BY <2>3
    <3>2. Len(e.calls) # 0
      BY <2>2, <2>3
    <3> QED
      BY <2>3, <2>4, <2>7, <2>8, <3>1, <3>2 DEF CommandFits
  <2> QED
    BY <2>1, <2>9 DEF d
<1> QED
  BY <1>3, <1>4

-----------------------------------------------------------------------------
(* The sequences of calls that commands begin with.                         *)
\* What Planned says of the call after those that have made so many tasks.
CallGoes(whole, i, before, after) ==
    /\ after = IF whole[i].do = "create" THEN before + 1 ELSE before
    /\ whole[i].do \in {"find", "update"} /\ whole[i].ref.by = "made" => whole[i].ref.of <= before
    /\ whole[i].do = "update" /\ whole[i].change \in {"depend", "slices"} =>
          \A r \in whole[i].with : r.by = "made" => r.of <= before
    /\ whole[i].do = "update" /\ whole[i].change = "depend" =>
          i > 1 /\ \E r \in Direct : whole[i].with = {r} /\ whole[i - 1] = Find(r)
    /\ whole[i].do = "save" => whole[i].n <= before /\ \A m \in whole[i].deps : m <= before

LEMMA PlannedIs ==
    ASSUME NEW whole \in Seq(Calls), NEW n \in Nat \ {0}, Len(whole) = n,
           NEW have \in [0 .. n -> Nat], have[0] = 0,
           \A i \in 1 .. n : CallGoes(whole, i, have[i - 1], have[i])
    PROVE  Planned(whole, have)
BY DEF Planned, CallGoes

LEMMA OneCall ==
    ASSUME NEW call \in Creates \cup [do : {"update"}, ref : Refs, change : {"log"}, with : {{}}]
                        \cup [do : {"update"}, ref : Refs, change : {"status"}, with : Statuses],
           call.do = "update" => call.ref.by # "made"
    PROVE  \E have : Planned(<<call>>, have)
<1> DEFINE have == [i \in 0 .. 1 |-> IF i = 1 /\ call.do = "create" THEN 1 ELSE 0]
<1>1. PICK whole : whole = <<call>>
  OBVIOUS
<1>2. call \in Calls /\ call.do \in {"create", "update"}
  BY DEF Calls, Creates, Updates
<1>3. whole \in Seq(Calls) /\ Len(whole) = 1 /\ whole[1] = call
  BY <1>1, <1>2
<1>4. have \in [0 .. 1 -> Nat] /\ have[0] = 0
  OBVIOUS
<1>5. have[1] = IF call.do = "create" THEN 1 ELSE 0
  OBVIOUS
<1> HIDE DEF have
<1>6. call.do = "update" => call.change \in {"log", "status"}
  BY DEF Creates
<1>7. CallGoes(whole, 1, have[0], have[1])
  BY <1>2, <1>3, <1>4, <1>5, <1>6 DEF CallGoes
<1>8. Planned(whole, have)
  <2>1. \A i \in 1 .. 1 : CallGoes(whole, i, have[i - 1], have[i])
    BY <1>7
  <2>2. PICK n : n = 1
    OBVIOUS
  <2>3. n \in Nat \ {0}
    BY <2>2
  <2> QED
    BY <1>3, <1>4, <2>1, <2>2, <2>3, PlannedIs
<1> QED
  BY <1>1, <1>8

\* addDependency looks for the dependency first.
LEMMA DependencyIs ==
    ASSUME NEW id \in Ids, NEW dep \in Ids
    PROVE  \E have : Planned(addDependency(ById(id), ById(dep)), have)
<1> DEFINE have == [i \in 0 .. 2 |-> 0]
<1>1. PICK a, b : a = Find(ById(dep)) /\ b = Update(ById(id), "depend", {ById(dep)})
  OBVIOUS
<1>2. ById(id) \in Direct /\ ById(dep) \in Direct /\ ById(id) \in Refs /\ ById(dep) \in Refs
  BY CallsAre DEF Refs
<1>3. a \in Calls /\ b \in Calls
  BY <1>1, <1>2, CallsAre DEF Calls
<1>4. PICK whole : whole = <<a, b>>
  OBVIOUS
<1>5. whole \in Seq(Calls) /\ Len(whole) = 2 /\ whole[1] = a /\ whole[2] = b
  BY <1>3, <1>4
<1>6. have \in [0 .. 2 -> Nat] /\ have[0] = 0 /\ have[1] = 0 /\ have[2] = 0
  OBVIOUS
<1> HIDE DEF have
<1>7. CallGoes(whole, 1, have[0], have[1])
  BY <1>1, <1>5, <1>6 DEF CallGoes, Find, ById
<1>8. CallGoes(whole, 2, have[1], have[2])
  <2>1. b.do = "update" /\ b.ref = ById(id) /\ b.change = "depend" /\ b.with = {ById(dep)}
    BY <1>1 DEF Update
  <2>2. ById(id).by = "id" /\ ById(dep).by = "id"
    BY DEF ById
  <2>3. \E r \in Direct : whole[2].with = {r} /\ whole[2 - 1] = Find(r)
    <3>1. whole[2].with = {ById(dep)}
      BY <1>5, <2>1
    <3>2. 2 - 1 = 1
      OBVIOUS
    <3>3. whole[2 - 1] = Find(ById(dep))
      BY <1>1, <1>5, <3>2
    <3> QED
      BY <1>2, <3>1, <3>3
  <2> QED
    <3>1. /\ whole[2].do = "update" /\ whole[2].ref.by = "id" /\ whole[2].change = "depend"
          /\ \A r \in whole[2].with : r.by = "id"
      BY <1>5, <2>1, <2>2
    <3>2. 2 > 1
      OBVIOUS
    <3> QED
      BY <1>6, <2>3, <3>1, <3>2 DEF CallGoes
<1>9. Planned(whole, have)
  <2>1. \A i \in 1 .. 2 : CallGoes(whole, i, have[i - 1], have[i])
    <3> SUFFICES ASSUME NEW i \in 1 .. 2 PROVE CallGoes(whole, i, have[i - 1], have[i])
      OBVIOUS
    <3>1. i = 1 \/ i = 2
      OBVIOUS
    <3> QED
      BY <1>7, <1>8, <3>1
  <2>2. PICK n \in Nat \ {0} : n = 2
    OBVIOUS
  <2>3. /\ whole \in Seq(Calls) /\ Len(whole) = n /\ have \in [0 .. n -> Nat] /\ have[0] = 0
        /\ \A i \in 1 .. n : CallGoes(whole, i, have[i - 1], have[i])
    BY <1>5, <1>6, <2>1, <2>2
  <2> QED
    BY <2>3, PlannedIs
<1>10. whole = addDependency(ById(id), ById(dep))
  BY <1>1, <1>4 DEF addDependency
<1> QED
  BY <1>9, <1>10

\* What the calls about a new task n do, after they made n - 1 tasks.
LEMMA SubtaskGoes ==
    ASSUME NEW whole, NEW i \in Nat \ {0}, NEW n \in Nat \ {0}, NEW id \in Ids, NEW title,
           whole[i] = Make(title, id), whole[i + 1] = Find(Made(n)),
           whole[i + 2] = Update(ById(id), "depend", {Made(n)}),
           whole[i + 3] = Update(ById(id), "log", {})
    PROVE  /\ CallGoes(whole, i, n - 1, n) /\ CallGoes(whole, i + 1, n, n)
           /\ CallGoes(whole, i + 2, n, n) /\ CallGoes(whole, i + 3, n, n)
<1>1. /\ Made(n).by = "made" /\ Made(n).of = n /\ ById(id).by = "id" /\ Made(n) \in Direct
  BY CallsAre DEF Made, ById
<1>2. CallGoes(whole, i, n - 1, n)
  BY DEF CallGoes, Make
<1>3. CallGoes(whole, i + 1, n, n)
  BY <1>1 DEF CallGoes, Find
<1>4. CallGoes(whole, i + 2, n, n)
  <2>1. whole[(i + 2) - 1] = Find(Made(n))
    <3>1. (i + 2) - 1 = i + 1
      OBVIOUS
    <3> QED
      BY <3>1
  <2>2. /\ whole[i + 2].do = "update" /\ whole[i + 2].ref = ById(id)
        /\ whole[i + 2].change = "depend" /\ whole[i + 2].with = {Made(n)}
    BY DEF Update
  <2>3. i + 2 > 1
    OBVIOUS
  <2> QED
    BY <1>1, <2>1, <2>2, <2>3 DEF CallGoes
<1>5. CallGoes(whole, i + 3, n, n)
  BY <1>1 DEF CallGoes, Update
<1> QED
  BY <1>2, <1>3, <1>4, <1>5

LEMMA SubtaskIs ==
    ASSUME NEW id \in Ids, NEW title \in Titles
    PROVE  \E have : Planned(Subtask(ById(id), id, title, 1), have)
<1> DEFINE have == [i \in 0 .. 4 |-> IF i = 0 THEN 0 ELSE 1]
<1>1. PICK a, b, c, d : /\ a = Make(title, id) /\ b = Find(Made(1))
                        /\ c = Update(ById(id), "depend", {Made(1)})
                        /\ d = Update(ById(id), "log", {})
  OBVIOUS
<1>2. ById(id) \in Refs /\ Made(1) \in Refs /\ Made(1) \in Direct
  BY CallsAre DEF Refs
<1>3. a \in Calls /\ b \in Calls /\ c \in Calls /\ d \in Calls
  BY <1>1, <1>2, CallsAre DEF Calls
<1>4. PICK whole : whole = <<a, b, c, d>>
  OBVIOUS
<1>5. /\ whole \in Seq(Calls) /\ Len(whole) = 4
      /\ whole[1] = a /\ whole[2] = b /\ whole[3] = c /\ whole[4] = d
  BY <1>3, <1>4
<1>6. /\ have \in [0 .. 4 -> Nat] /\ have[0] = 0
      /\ have[1] = 1 /\ have[2] = 1 /\ have[3] = 1 /\ have[4] = 1
  OBVIOUS
<1> HIDE DEF have
<1>7. /\ CallGoes(whole, 1, 0, 1) /\ CallGoes(whole, 2, 1, 1)
      /\ CallGoes(whole, 3, 1, 1) /\ CallGoes(whole, 4, 1, 1)
  <2>1. /\ whole[1] = Make(title, id) /\ whole[1 + 1] = Find(Made(1))
        /\ whole[1 + 2] = Update(ById(id), "depend", {Made(1)})
        /\ whole[1 + 3] = Update(ById(id), "log", {})
    BY <1>1, <1>5
  <2>2. /\ CallGoes(whole, 1, 1 - 1, 1) /\ CallGoes(whole, 1 + 1, 1, 1)
        /\ CallGoes(whole, 1 + 2, 1, 1) /\ CallGoes(whole, 1 + 3, 1, 1)
    BY <2>1, SubtaskGoes
  <2> QED
    BY <2>2
<1>8. Planned(whole, have)
  <2>1. \A i \in 1 .. 4 : CallGoes(whole, i, have[i - 1], have[i])
    <3> SUFFICES ASSUME NEW i \in 1 .. 4 PROVE CallGoes(whole, i, have[i - 1], have[i])
      OBVIOUS
    <3>1. i = 1 \/ i = 2 \/ i = 3 \/ i = 4
      OBVIOUS
    <3> QED
      BY <1>6, <1>7, <3>1
  <2>2. PICK n \in Nat \ {0} : n = 4
    OBVIOUS
  <2>3. /\ whole \in Seq(Calls) /\ Len(whole) = n /\ have \in [0 .. n -> Nat] /\ have[0] = 0
        /\ \A i \in 1 .. n : CallGoes(whole, i, have[i - 1], have[i])
    BY <1>5, <1>6, <2>1, <2>2
  <2> QED
    BY <2>3, PlannedIs
<1>9. whole = Subtask(ById(id), id, title, 1)
  BY <1>1, <1>4 DEF Subtask, addDependency
<1> QED
  BY <1>8, <1>9

\* Where a call of Materialize stands, and how many tasks are made by then.
LEMMA MaterializePlaces ==
    /\ 5 * Total + 1 \in Nat /\ 6 * Total + 3 \in Nat \ {0}
    /\ \A i \in 1 .. 6 * Total + 3 :
          \/ i = 1
          \/ \E n \in Slices, k \in 1 .. 5 : i = 5 * n - 4 + k
          \/ \E n \in Slices : i = 5 * Total + 1 + n
          \/ i = 6 * Total + 2
          \/ i = 6 * Total + 3
<1>1. Total \in Nat \ {0} /\ Slices = 1 .. Total
  BY TotalIs
<1>2. ASSUME NEW i \in 1 .. 6 * Total + 3, i # 1, i <= 5 * Total + 1
      PROVE  \E n \in Slices, k \in 1 .. 5 : i = 5 * n - 4 + k
  <2> DEFINE n == (i + 3) \div 5
             k == i + 4 - 5 * n
  <2>1. n \in 1 .. Total /\ k \in 1 .. 5
    BY <1>1, <1>2
  <2>2. i = 5 * n - 4 + k
    BY <1>1
  <2> QED
    BY <1>1, <2>1, <2>2
<1>3. ASSUME NEW i \in 1 .. 6 * Total + 3, i > 5 * Total + 1, i <= 6 * Total + 1
      PROVE  \E n \in Slices : i = 5 * Total + 1 + n
  <2>1. i - (5 * Total + 1) \in 1 .. Total /\ i = 5 * Total + 1 + (i - (5 * Total + 1))
    BY <1>1, <1>3
  <2> QED
    BY <1>1, <2>1
<1>4. /\ 5 * Total + 1 \in Nat /\ 6 * Total + 3 \in Nat \ {0}
      /\ \A i \in 1 .. 6 * Total + 3 :
            i <= 5 * Total + 1 \/ (i > 5 * Total + 1 /\ i <= 6 * Total + 1)
               \/ i = 6 * Total + 2 \/ i = 6 * Total + 3
  BY <1>1
<1> QED
  BY <1>2, <1>3, <1>4

MaterializeHas == [i \in 0 .. 6 * Total + 3 |-> IF i <= 5 * Total + 1 THEN (i + 3) \div 5 ELSE Total]

LEMMA MaterializeHave ==
    /\ MaterializeHas \in [0 .. 6 * Total + 3 -> Nat]
    /\ MaterializeHas[0] = 0 /\ MaterializeHas[1] = 0
    /\ \A n \in Slices : /\ \A k \in 1 .. 5 : MaterializeHas[5 * n - 4 + k] = n
                         /\ MaterializeHas[5 * n - 4] = n - 1
                         /\ MaterializeHas[5 * Total + 1 + n] = Total
                         /\ MaterializeHas[5 * Total + n] = Total
    /\ MaterializeHas[6 * Total + 1] = Total /\ MaterializeHas[6 * Total + 2] = Total
    /\ MaterializeHas[6 * Total + 3] = Total
<1>1. Total \in Nat \ {0} /\ Slices = 1 .. Total
  BY TotalIs
<1> DEFINE H(i) == IF i <= 5 * Total + 1 THEN (i + 3) \div 5 ELSE Total
<1>2. MaterializeHas = [i \in 0 .. 6 * Total + 3 |-> H(i)]
  BY DEF MaterializeHas
<1>3. \A i \in 0 .. 6 * Total + 3 : H(i) \in Nat
  BY <1>1
<1>4. /\ H(0) = 0 /\ H(1) = 0 /\ 0 \in 0 .. 6 * Total + 3 /\ 1 \in 0 .. 6 * Total + 3
  BY <1>1
<1>5. ASSUME NEW n \in Slices, NEW k \in 1 .. 5
      PROVE  H(5 * n - 4 + k) = n /\ 5 * n - 4 + k \in 0 .. 6 * Total + 3
  BY <1>1
<1>6. ASSUME NEW n \in Slices
      PROVE  H(5 * n - 4) = n - 1 /\ 5 * n - 4 \in 0 .. 6 * Total + 3
  BY <1>1
<1>7. ASSUME NEW n \in Slices
      PROVE  /\ H(5 * Total + 1 + n) = Total /\ 5 * Total + 1 + n \in 0 .. 6 * Total + 3
             /\ H(5 * Total + n) = Total /\ 5 * Total + n \in 0 .. 6 * Total + 3
  <2>1. (5 * Total + 4) \div 5 = Total
    BY <1>1
  <2> QED
    BY <1>1, <2>1
<1>8. /\ H(6 * Total + 1) = Total /\ H(6 * Total + 2) = Total /\ H(6 * Total + 3) = Total
      /\ 6 * Total + 1 \in 0 .. 6 * Total + 3 /\ 6 * Total + 2 \in 0 .. 6 * Total + 3
      /\ 6 * Total + 3 \in 0 .. 6 * Total + 3
  BY <1>1
<1> HIDE DEF H
<1>9. MaterializeHas \in [0 .. 6 * Total + 3 -> Nat]
  BY <1>2, <1>3
<1>10. MaterializeHas[0] = 0 /\ MaterializeHas[1] = 0
  BY <1>2, <1>4
<1>11. \A n \in Slices : \A k \in 1 .. 5 : MaterializeHas[5 * n - 4 + k] = n
  BY <1>2, <1>5
<1>12. \A n \in Slices : MaterializeHas[5 * n - 4] = n - 1
  BY <1>2, <1>6
<1>13. \A n \in Slices : /\ MaterializeHas[5 * Total + 1 + n] = Total
                         /\ MaterializeHas[5 * Total + n] = Total
  BY <1>2, <1>7
<1>14. /\ MaterializeHas[6 * Total + 1] = Total /\ MaterializeHas[6 * Total + 2] = Total
       /\ MaterializeHas[6 * Total + 3] = Total
  BY <1>2, <1>8
<1> QED
  BY <1>9, <1>10, <1>11, <1>12, <1>13, <1>14

LEMMA MaterializePlanned == Planned(Materialize, MaterializeHas)
<1>1. Total \in Nat \ {0} /\ Slices = 1 .. Total
  BY TotalIs
<1> DEFINE Goes(i) == CallGoes(Materialize, i, MaterializeHas[i - 1], MaterializeHas[i])
<1>2. Goes(1)
  <2>1. 1 - 1 = 0
    OBVIOUS
  <2> QED
    BY <2>1, MaterializeIs, MaterializeHave DEF CallGoes, Find, ById
<1>3. ASSUME NEW n \in Slices, NEW k \in 1 .. 5 PROVE Goes(5 * n - 4 + k)
  <2> DEFINE i == 5 * n - 4 + 1
  <2>1. /\ i \in Nat \ {0} /\ n \in Nat \ {0} /\ i + 1 = 5 * n - 4 + 2 /\ i + 2 = 5 * n - 4 + 3
        /\ i + 3 = 5 * n - 4 + 4 /\ i + 4 = 5 * n - 4 + 5 /\ i = 5 * n - 4 + 1
        /\ 1 \in 1 .. 5 /\ 2 \in 1 .. 5 /\ 3 \in 1 .. 5 /\ 4 \in 1 .. 5 /\ 5 \in 1 .. 5
    BY <1>1
  <2> HIDE DEF i
  <2>2. /\ Materialize[i] = Slicing(n)[1] /\ Materialize[i + 1] = Slicing(n)[2]
        /\ Materialize[i + 2] = Slicing(n)[3] /\ Materialize[i + 3] = Slicing(n)[4]
        /\ Materialize[i + 4] = Slicing(n)[5]
    BY <2>1, MaterializeIs
  <2>3. /\ Materialize[i] = Make(SliceTitles[n], 1) /\ Materialize[i + 1] = Find(Made(n))
        /\ Materialize[i + 2] = Update(ById(1), "depend", {Made(n)})
        /\ Materialize[i + 3] = Update(ById(1), "log", {})
        /\ Materialize[i + 4] = Save(n, {})
    BY <2>2, SlicingIs
  <2>4. /\ CallGoes(Materialize, i, n - 1, n) /\ CallGoes(Materialize, i + 1, n, n)
        /\ CallGoes(Materialize, i + 2, n, n) /\ CallGoes(Materialize, i + 3, n, n)
    BY <2>1, <2>3, StoreConstants, SubtaskGoes
  <2>5. CallGoes(Materialize, i + 4, n, n)
    BY <2>1, <2>3 DEF CallGoes, Save
  <2>6. /\ MaterializeHas[i] = n /\ MaterializeHas[i + 1] = n /\ MaterializeHas[i + 2] = n
        /\ MaterializeHas[i + 3] = n /\ MaterializeHas[i + 4] = n
        /\ MaterializeHas[i - 1] = n - 1
    <3>1. i - 1 = 5 * n - 4
      BY <1>1, <2>1
    <3> QED
      BY <2>1, <3>1, MaterializeHave
  <2>7. Goes(i) /\ Goes(i + 1) /\ Goes(i + 2) /\ Goes(i + 3) /\ Goes(i + 4)
    <3>1. (i + 1) - 1 = i /\ (i + 2) - 1 = i + 1 /\ (i + 3) - 1 = i + 2 /\ (i + 4) - 1 = i + 3
      BY <2>1
    <3> QED
      BY <2>4, <2>5, <2>6, <3>1
  <2> HIDE DEF Goes
  <2>8. k = 1 \/ k = 2 \/ k = 3 \/ k = 4 \/ k = 5
    OBVIOUS
  <2> QED
    BY <2>1, <2>7, <2>8
<1>4. ASSUME NEW n \in Slices PROVE Goes(5 * Total + 1 + n)
  <2>1. /\ Materialize[5 * Total + 1 + n] = SecondSave(n)
        /\ MaterializeHas[5 * Total + 1 + n] = Total /\ MaterializeHas[5 * Total + n] = Total
    BY MaterializeIs, MaterializeHave
  <2>2. (5 * Total + 1 + n) - 1 = 5 * Total + n
    BY <1>1
  <2>3. /\ SecondSave(n).do = "save" /\ SecondSave(n).n = n
        /\ SecondSave(n).deps = {m \in Slices : m + 1 = n}
    BY DEF SecondSave, Save
  <2>4. n <= Total /\ \A m \in Slices : m <= Total
    BY <1>1
  <2> QED
    BY <2>1, <2>2, <2>3, <2>4 DEF CallGoes
<1>5. Goes(6 * Total + 2)
  <2>1. /\ Materialize[6 * Total + 2] = OwnSlices
        /\ MaterializeHas[6 * Total + 2] = Total /\ MaterializeHas[6 * Total + 1] = Total
    BY MaterializeIs, MaterializeHave
  <2>2. (6 * Total + 2) - 1 = 6 * Total + 1
    BY <1>1
  <2>3. /\ OwnSlices.do = "update" /\ OwnSlices.ref.by = "id" /\ OwnSlices.change = "slices"
        /\ OwnSlices.with = {Made(n) : n \in Slices}
    BY DEF OwnSlices, Update, ById
  <2>4. \A n \in Slices : Made(n).of = n /\ n <= Total
    BY <1>1 DEF Made
  <2> QED
    BY <2>1, <2>2, <2>3, <2>4 DEF CallGoes
<1>6. Goes(6 * Total + 3)
  <2>1. /\ Materialize[6 * Total + 3] = Seal
        /\ MaterializeHas[6 * Total + 3] = Total /\ MaterializeHas[6 * Total + 2] = Total
    BY MaterializeIs, MaterializeHave
  <2>2. (6 * Total + 3) - 1 = 6 * Total + 2
    BY <1>1
  <2> QED
    BY <2>1, <2>2 DEF CallGoes, Seal
<1>7. \A i \in 1 .. 6 * Total + 3 : Goes(i)
  <2> HIDE DEF Goes
  <2> QED
    BY <1>2, <1>3, <1>4, <1>5, <1>6, MaterializePlaces
<1>8. PICK n \in Nat \ {0} : n = 6 * Total + 3
  BY MaterializePlaces
<1>9. /\ Materialize \in Seq(Calls) /\ Len(Materialize) = n /\ MaterializeHas \in [0 .. n -> Nat]
      /\ MaterializeHas[0] = 0
      /\ \A i \in 1 .. n : CallGoes(Materialize, i, MaterializeHas[i - 1], MaterializeHas[i])
  BY <1>7, <1>8, MaterializeIs, MaterializeHave
<1> QED
  BY <1>9, PlannedIs

-----------------------------------------------------------------------------
(* Every step keeps the invariant.  First, what it does to the files, and to *)
(* the command of its process.                                              *)
LEMMA FitsNext ==
    ASSUME StoreFits, FilesFit', StoredIds \subseteq StoredIds',
           NEW p \in Processes, NEW c, command' = [command EXCEPT ![p] = c],
           CommandFits(c, StoredIds')
    PROVE  StoreFits'
<1>1. c \in Commands
  BY DEF CommandFits
<1>2. command' \in [Processes -> Commands] /\ command'[p] = c
  BY <1>1 DEF StoreFits
<1>3. ASSUME NEW q \in Processes PROVE CommandFits(command'[q], StoredIds')
  <2>1. CASE q = p
    BY <1>2, <2>1
  <2>2. CASE q # p
    <3>1. command'[q] = command[q] /\ CommandFits(command[q], StoredIds)
      BY <2>2 DEF StoreFits
    <3> QED
      BY <3>1, MoreFits
  <2> QED
    BY <2>1, <2>2
<1> QED
  BY <1>2, <1>3 DEF StoreFits

LEMMA FilesKept ==
    ASSUME FilesFit, UNCHANGED <<file, born, serial>>, counter' \in 1 .. MaxTasks + 1,
           plan' \in {"draft", "materialized"}, begun' \in Nat
    PROVE  FilesFit' /\ StoredIds' = StoredIds
BY DEF FilesFit, StoredIds

\* A task that is written where it may be, and depends on tasks that are there.
LEMMA StoringFits ==
    ASSUME FilesFit, NEW path \in Paths, NEW t \in Tasks, t.deps \subseteq StoredIds,
           Slug[t.title] = path.slug,
           file' = Stored(file, path, t), counter' = counter, UNCHANGED <<plan, begun, serial>>,
           born' \in {born, born \cup {<<path.id, t.title>>}}
    PROVE  FilesFit' /\ StoredIds \subseteq StoredIds' /\ path.id \in StoredIds'
<1>1. /\ DOMAIN file' = DOMAIN file \cup {path}
      /\ \A x \in DOMAIN file' : file'[x] = IF x = path THEN t ELSE file[x]
  BY DEF Stored
<1>2. StoredIds \subseteq StoredIds' /\ path.id \in StoredIds'
  BY <1>1 DEF StoredIds
<1>3. \A x \in DOMAIN file' : file'[x] \in Tasks /\ file'[x].deps \subseteq StoredIds'
  BY <1>1, <1>2 DEF FilesFit
<1>4. born' \subseteq Ids \X Titles
  BY DEF FilesFit, Paths, Tasks
<1>5. ASSUME NEW b \in born' PROVE \E x \in DOMAIN file' : x.id = b[1] /\ x.slug = Slug[b[2]]
  <2>1. b \in born \/ b = <<path.id, t.title>>
    OBVIOUS
  <2> QED
    BY <1>1, <2>1 DEF FilesFit
<1>6. DOMAIN file' \subseteq Paths
  BY <1>1 DEF FilesFit
<1>7. \A x \in DOMAIN file' : Slug[file'[x].title] = x.slug
  BY <1>1 DEF FilesFit
<1> QED
  BY <1>2, <1>3, <1>4, <1>5, <1>6, <1>7 DEF FilesFit

\* A file that is moved to another folder.
LEMMA MovingFits ==
    ASSUME FilesFit, NEW from \in DOMAIN file, NEW folder \in Folders,
           file' = Stored(Removed(file, from), At(from, folder), file[from]),
           counter' = counter, UNCHANGED <<plan, born, begun, serial>>
    PROVE  FilesFit' /\ StoredIds \subseteq StoredIds'
<1> DEFINE to == At(from, folder)
<1>1. to \in Paths /\ to.id = from.id /\ to.slug = from.slug
  BY DEF At, FilesFit, Paths, Folders
<1> HIDE DEF to
<1>2. /\ DOMAIN file' = (DOMAIN file \ {from}) \cup {to}
      /\ \A x \in DOMAIN file' : file'[x] = IF x = to THEN file[from] ELSE file[x]
  BY DEF Stored, Removed, to
<1>3. \A x \in DOMAIN file : \E y \in DOMAIN file' : y.id = x.id /\ y.slug = x.slug
  BY <1>1, <1>2
<1>4. StoredIds \subseteq StoredIds'
  BY <1>3 DEF StoredIds
<1>5. \A x \in DOMAIN file' : file'[x] \in Tasks /\ file'[x].deps \subseteq StoredIds'
  BY <1>2, <1>4 DEF FilesFit
<1>6. ASSUME NEW b \in born' PROVE \E x \in DOMAIN file' : x.id = b[1] /\ x.slug = Slug[b[2]]
  <2>1. PICK x \in DOMAIN file : x.id = b[1] /\ x.slug = Slug[b[2]]
    BY DEF FilesFit
  <2> QED
    BY <1>3, <2>1
<1>7. DOMAIN file' \subseteq Paths
  BY <1>1, <1>2 DEF FilesFit
<1>8. \A x \in DOMAIN file' : Slug[file'[x].title] = x.slug
  BY <1>1, <1>2 DEF FilesFit
<1> QED
  BY <1>4, <1>5, <1>6, <1>7, <1>8 DEF FilesFit

\* A command within its first call.
LEMMA WithinFits ==
    ASSUME NEW c, NEW S, CommandFits(c, S), Len(c.calls) # 0,
           NEW d \in Commands, d.calls = c.calls, d.made = c.made,
           d.step \in {"count", "file"} => c.calls[1].do = "create" /\ d.number \in Ids,
           d.step = "load" => c.calls[1].do = "update" /\ d.path \in Paths,
           d.step \in {"write", "move"} =>
               /\ c.calls[1].do \in {"update", "save"} /\ d.path \in Paths
               /\ d.copy \in Tasks /\ d.copy.deps \subseteq S /\ Slug[d.copy.title] = d.path.slug
    PROVE  CommandFits(d, S)
<1>1. PICK whole, have, k : Planned(whole, have) /\ Placed(c, whole, have, k)
  BY DEF CommandFits
<1>2. Placed(d, whole, have, k)
  BY <1>1 DEF Placed
<1>3. \A r : NumberIn(d, r) = NumberIn(c, r)
  BY DEF NumberIn
<1> QED
  BY <1>1, <1>2, <1>3 DEF CommandFits

\* A command that returns from its first call, which made nothing.
LEMMA ReturnFits ==
    ASSUME NEW c, NEW S, CommandFits(c, S), Len(c.calls) # 0, c.calls[1].do # "create",
           c.calls[1].do = "find" /\ c.calls[1].ref.by # "title" =>
               NumberIn(c, c.calls[1].ref) \in S
    PROVE  CommandFits(Rest(c), S)
<1>1. c \in Commands /\ c.made \in Seq(Copies) /\ \A i \in 1 .. Len(c.made) : c.made[i].path.id \in S
  BY DEF CommandFits, Commands
<1>2. PICK made : made = c.made
  OBVIOUS
<1>3. CommandFits(Rest([c EXCEPT !.made = made]), S)
  BY <1>1, <1>2, RestFits
<1>4. [c EXCEPT !.made = made] = c
  BY <1>1, <1>2 DEF Commands
<1> QED
  BY <1>3, <1>4

\* The first call of a command, and the tasks it refers to.
LEMMA FirstCall ==
    ASSUME NEW c, NEW S, CommandFits(c, S), Len(c.calls) # 0
    PROVE  /\ c.calls[1] \in Calls /\ Head(c.calls) = c.calls[1]
           /\ c.calls[1].do \in {"find", "update"} /\ c.calls[1].ref.by = "made" =>
                 c.calls[1].ref.of \in 1 .. Len(c.made)
           /\ c.calls[1].do = "update" /\ c.calls[1].change \in {"depend", "slices"} =>
                 \A r \in c.calls[1].with : NumberIn(c, r) \in Ids
           /\ c.calls[1].do = "save" =>
                 /\ c.calls[1].n \in 1 .. Len(c.made)
                 /\ \A m \in c.calls[1].deps : m \in 1 .. Len(c.made)
<1>1. c \in Commands /\ c.calls \in Seq(Calls) /\ c.made \in Seq(Copies)
  BY DEF CommandFits, Commands
<1>2. c.calls[1] \in Calls /\ Head(c.calls) = c.calls[1]
  BY <1>1, NotEmpty, HeadTailProperties
<1>3. PICK whole, have, k : Planned(whole, have) /\ Placed(c, whole, have, k)
  BY DEF CommandFits
<1>4. /\ k \in Nat /\ k + Len(c.calls) = Len(whole) /\ Len(c.made) = have[k]
      /\ c.calls[1] = whole[k + 1] /\ k + 1 \in 1 .. Len(whole) /\ (k + 1) - 1 = k
  <2>1. PICK n \in Nat : n = Len(c.calls)
    BY <1>1, LenProperties
  <2>2. n # 0
    BY <2>1
  <2>3. 1 \in 1 .. n
    BY <2>2
  <2>4. k \in Nat /\ k + n = Len(whole) /\ Len(c.made) = have[k] /\ c.calls[1] = whole[k + 1]
    BY <1>3, <2>1, <2>3 DEF Placed
  <2>5. k + 1 \in 1 .. Len(whole) /\ (k + 1) - 1 = k
    BY <2>2, <2>4
  <2> QED
    BY <2>1, <2>4, <2>5
<1>5. PICK call : call = c.calls[1]
  OBVIOUS
<1>6. PICK n \in Nat : n = Len(c.made)
  BY <1>1, LenProperties
<1>7. /\ call.do \in {"find", "update"} /\ call.ref.by = "made" => call.ref.of <= n
      /\ call.do = "update" /\ call.change \in {"depend", "slices"} =>
            \A r \in call.with : r.by = "made" => r.of <= n
      /\ call.do = "save" => call.n <= n /\ \A m \in call.deps : m <= n
  BY <1>3, <1>4, <1>5, <1>6 DEF Planned
<1>8. call \in Calls
  BY <1>2, <1>5
<1>9. call.do \in {"find", "update"} /\ call.ref.by = "made" => call.ref.of \in 1 .. n
  <2>1. call.do \in {"find", "update"} => call.ref \in Refs
    BY <1>8 DEF Calls, Creates, Finds, Updates, Saves, Seal
  <2>2. \A r \in Refs : r.by = "made" => r.of \in Nat \ {0}
    BY DEF Refs, Direct
  <2> QED
    BY <1>7, <2>1, <2>2
<1>10. ASSUME call.do = "update", call.change \in {"depend", "slices"}, NEW r \in call.with
       PROVE  NumberIn(c, r) \in Ids
  <2>1. r \in Direct
    BY <1>8, <1>10 DEF Calls, Creates, Finds, Updates, Saves, Seal
  <2>2. CASE r.by = "made"
    <3>1. r.of \in 1 .. n
      BY <1>7, <1>10, <2>1, <2>2 DEF Direct
    <3>2. c.made[r.of] \in Copies
      BY <1>1, <1>6, <3>1
    <3> QED
      BY <2>2, <3>2 DEF NumberIn, Copies, Paths
  <2>3. CASE r.by # "made"
    BY <2>1, <2>3 DEF NumberIn, Direct
  <2> QED
    BY <2>2, <2>3
<1>11. call.do = "save" => call.n \in 1 .. n /\ \A m \in call.deps : m \in 1 .. n
  <2>1. call.do = "save" => call.n \in Nat \ {0} /\ \A m \in call.deps : m \in Nat \ {0}
    BY <1>8 DEF Calls, Creates, Finds, Updates, Saves, Seal
  <2> QED
    BY <1>7, <2>1
<1> QED
  BY <1>2, <1>5, <1>6, <1>9, <1>10, <1>11

-----------------------------------------------------------------------------
(* The steps.                                                               *)
\* What is known of a process in the call that its step belongs to.
LEMMA InCall ==
    ASSUME StoreFits, NEW p \in Processes, command[p].calls # <<>>
    PROVE  /\ command[p] \in Commands /\ CommandFits(command[p], StoredIds)
           /\ Len(command[p].calls) # 0 /\ Call(p) = command[p].calls[1] /\ Call(p) \in Calls
           /\ \A r : Number(p, r) = NumberIn(command[p], r)
<1>1. command[p] \in Commands /\ CommandFits(command[p], StoredIds)
  BY DEF StoreFits
<1>2. command[p].calls \in Seq(Calls)
  BY <1>1 DEF Commands
<1>3. Len(command[p].calls) # 0
  BY <1>2, NotEmpty
<1>4. command[p].calls[1] \in Calls /\ Call(p) = command[p].calls[1]
  BY <1>1, <1>3, FirstCall DEF Call
<1>5. \A r : Number(p, r) = NumberIn(command[p], r)
  BY DEF Number, NumberIn
<1> QED
  BY <1>1, <1>3, <1>4, <1>5

\* A step of the command only.
LEMMA CommandNext ==
    ASSUME StoreFits, NEW p \in Processes, NEW c, Keep(p, c), CommandFits(c, StoredIds),
           UNCHANGED <<file, born, serial>>, counter' \in 1 .. MaxTasks + 1,
           plan' \in {"draft", "materialized"}, begun' \in Nat
    PROVE  StoreFits'
<1>1. FilesFit' /\ StoredIds' = StoredIds
  BY FilesKept DEF StoreFits
<1> QED
  BY <1>1, FitsNext DEF Keep

LEMMA Unchanging ==
    ASSUME StoreFits, UNCHANGED <<counter, file, plan, born, begun, serial>>
    PROVE  /\ UNCHANGED <<file, born, serial>> /\ counter' \in 1 .. MaxTasks + 1
           /\ plan' \in {"draft", "materialized"} /\ begun' \in Nat
BY DEF StoreFits, FilesFit

LEMMA StoreStart == StoreInit => StoreFits
<1> SUFFICES ASSUME StoreInit PROVE StoreFits
  OBVIOUS
<1>1. command \in [Processes -> Commands] /\ \A p \in Processes : CommandFits(command[p], StoredIds)
  BY NoCommandFits DEF StoreInit, CommandFits
<1>2. 1 \in Ids /\ MaxTasks \in Nat \ {0} /\ SliceTitles[1] \in Titles
  BY TaskStoreAssumption, StoreConstants, TotalIs
<1>3. plan = "draft" /\ begun = 0 /\ serial \in BOOLEAN
  BY DEF StoreInit
<1>4. CASE serial /\ counter = 1 /\ file = <<>> /\ born = {}
  <2>1. DOMAIN file = {}
    BY <1>4
  <2> QED
    BY <1>1, <1>2, <1>3, <1>4, <2>1 DEF StoreFits, FilesFit
<1>5. CASE counter # 1
  <2> DEFINE path == [id |-> 1, slug |-> Slug[SliceTitles[1]], folder |-> "active"]
             t == [NewTask(SliceTitles[1], 0) EXCEPT !.status = "active"]
  <2>1. counter = 2 /\ file = Stored(<<>>, path, t) /\ born = {<<1, SliceTitles[1]>>}
    BY <1>5 DEF StoreInit
  <2>2. path \in Paths /\ path.id = 1 /\ path.slug = Slug[SliceTitles[1]]
    BY <1>2, TaskStoreAssumption DEF Paths
  <2>3. t \in Tasks /\ t.deps = {} /\ t.title = SliceTitles[1]
    BY <1>2, StoreConstants DEF NewTask, Tasks
  <2> HIDE DEF path, t
  <2>4. DOMAIN file = {path} /\ file[path] = t
    BY <2>1 DEF Stored
  <2>5. 2 \in 1 .. MaxTasks + 1
    BY <1>2
  <2>6. FilesFit
    BY <1>2, <1>3, <2>1, <2>2, <2>3, <2>4, <2>5 DEF FilesFit
  <2> QED
    BY <1>1, <2>6 DEF StoreFits
<1> QED
  BY <1>4, <1>5 DEF StoreInit

\* A command begins with calls that are planned.
LEMMA BeginKeeps ==
    ASSUME StoreFits, NEW p \in Processes, NEW calls, NEW have, Planned(calls, have),
           BeginCalls(p, calls)
    PROVE  StoreFits'
<1>1. CommandFits([NoCommand EXCEPT !.calls = calls], StoredIds)
  BY BeginFits
<1>2. /\ Keep(p, [NoCommand EXCEPT !.calls = calls]) /\ UNCHANGED <<counter, file, plan, born, serial>>
      /\ begun' = begun + 1
  BY DEF BeginCalls
<1>3. counter' \in 1 .. MaxTasks + 1 /\ plan' \in {"draft", "materialized"} /\ begun' \in Nat
  BY <1>2 DEF StoreFits, FilesFit
<1> QED
  BY <1>1, <1>2, <1>3, CommandNext

LEMMA BeginCommandKeeps ==
    ASSUME StoreFits, NEW p \in Processes, BeginCommand(p)
    PROVE  StoreFits'
<1>1. Given \subseteq Ids /\ \A r \in References : r \in Refs /\ r.by # "made"
  <2>1. \A id \in Given : ById(id) \in Refs /\ ById(id).by = "id"
    BY CallsAre DEF Refs, ById, Given
  <2>2. \A slug \in Slugs : ByTitle(slug) \in Refs /\ ByTitle(slug).by = "title"
    BY CallsAre DEF ByTitle
  <2> QED
    BY <2>1, <2>2 DEF References, Given
<1>2. CASE \E title \in Titles : BeginCalls(p, <<Make(title, 0)>>)
  <2>1. PICK title \in Titles : BeginCalls(p, <<Make(title, 0)>>)
    BY <1>2
  <2>2. Make(title, 0) \in Creates /\ Make(title, 0).do = "create"
    BY CallsAre DEF Make
  <2>3. \E have : Planned(<<Make(title, 0)>>, have)
    BY <2>2, OneCall
  <2> QED
    BY <2>1, <2>3, BeginKeeps
<1>3. ASSUME NEW r \in References, BeginCalls(p, <<Update(r, "log", {})>>)
      PROVE  StoreFits'
  <2>1. /\ Update(r, "log", {}) \in [do : {"update"}, ref : Refs, change : {"log"}, with : {{}}]
        /\ Update(r, "log", {}).ref = r
    BY <1>1 DEF Update
  <2>2. \E have : Planned(<<Update(r, "log", {})>>, have)
    BY <1>1, <2>1, OneCall
  <2> QED
    BY <1>3, <2>2, BeginKeeps
<1>4. ASSUME NEW r \in References, NEW s \in Statuses, BeginCalls(p, <<Update(r, "status", s)>>)
      PROVE  StoreFits'
  <2>1. /\ Update(r, "status", s) \in
              [do : {"update"}, ref : Refs, change : {"status"}, with : Statuses]
        /\ Update(r, "status", s).ref = r
    BY <1>1 DEF Update
  <2>2. \E have : Planned(<<Update(r, "status", s)>>, have)
    BY <1>1, <2>1, OneCall
  <2> QED
    BY <1>4, <2>2, BeginKeeps
<1>5. ASSUME NEW id \in Given, NEW dep \in Given, BeginCalls(p, addDependency(ById(id), ById(dep)))
      PROVE  StoreFits'
  <2>1. \E have : Planned(addDependency(ById(id), ById(dep)), have)
    BY <1>1, DependencyIs
  <2> QED
    BY <1>5, <2>1, BeginKeeps
<1>6. ASSUME NEW id \in Given, NEW title \in Titles, BeginCalls(p, Subtask(ById(id), id, title, 1))
      PROVE  StoreFits'
  <2>1. \E have : Planned(Subtask(ById(id), id, title, 1), have)
    BY <1>1, SubtaskIs
  <2> QED
    BY <1>6, <2>1, BeginKeeps
<1>7. CASE BeginCalls(p, Materialize)
  BY <1>7, BeginKeeps, MaterializePlanned
<1> QED
  BY <1>2, <1>3, <1>4, <1>5, <1>6, <1>7 DEF BeginCommand

LEMMA ReadCounterKeeps ==
    ASSUME StoreFits, NEW p \in Processes, ReadCounter(p)
    PROVE  StoreFits'
<1> DEFINE c == command[p]
           d == [c EXCEPT !.step = "count", !.number = counter]
<1>1. /\ c.calls # <<>> /\ Call(p).do = "create" /\ counter \in Ids /\ Keep(p, d)
      /\ UNCHANGED <<counter, file, plan, born, begun, serial>>
  BY DEF ReadCounter, AtStep
<1>2. c \in Commands /\ CommandFits(c, StoredIds) /\ Len(c.calls) # 0 /\ Call(p) = c.calls[1]
  BY <1>1, InCall
<1>3. /\ d \in Commands /\ d.calls = c.calls /\ d.made = c.made /\ d.step = "count"
      /\ d.number = counter
  BY <1>1, <1>2 DEF Commands, StoreSteps
<1> HIDE DEF c, d
<1>4. CommandFits(d, StoredIds)
  BY <1>1, <1>2, <1>3, WithinFits
<1> QED
  BY <1>1, <1>4, CommandNext, Unchanging

LEMMA WriteCounterKeeps ==
    ASSUME StoreFits, NEW p \in Processes, WriteCounter(p)
    PROVE  StoreFits'
<1> DEFINE c == command[p]
           d == [c EXCEPT !.step = "file"]
<1>1. /\ c.calls # <<>> /\ c.step = "count" /\ Call(p).do = "create" /\ Keep(p, d)
      /\ counter' = c.number + 1 /\ UNCHANGED <<file, plan, born, begun, serial>>
  BY DEF WriteCounter, AtStep
<1>2. c \in Commands /\ CommandFits(c, StoredIds) /\ Len(c.calls) # 0 /\ Call(p) = c.calls[1]
  BY <1>1, InCall
<1>3. /\ d \in Commands /\ d.calls = c.calls /\ d.made = c.made /\ d.step = "file"
      /\ d.number = c.number
  BY <1>2 DEF Commands, StoreSteps
<1> HIDE DEF c, d
<1>4. c.number \in Ids
  BY <1>1, <1>2 DEF CommandFits
<1>5. CommandFits(d, StoredIds)
  BY <1>1, <1>2, <1>3, <1>4, WithinFits
<1>6. counter' \in 1 .. MaxTasks + 1
  BY <1>1, <1>4, TaskStoreAssumption DEF Ids
<1>7. plan' \in {"draft", "materialized"} /\ begun' \in Nat
  BY <1>1 DEF StoreFits, FilesFit
<1> QED
  BY <1>1, <1>5, <1>6, <1>7, CommandNext

LEMMA CreateFileKeeps ==
    ASSUME StoreFits, NEW p \in Processes, CreateFile(p)
    PROVE  StoreFits'
<1> DEFINE c == command[p]
           path == [id |-> c.number, slug |-> Slug[Call(p).title], folder |-> "inbox"]
           t == NewTask(Call(p).title, Call(p).parent)
           made == Append(c.made, [path |-> path, copy |-> t])
<1>1. /\ c.calls # <<>> /\ c.step = "file" /\ Call(p).do = "create"
      /\ Keep(p, Rest([c EXCEPT !.made = made]))
      /\ file' = Stored(file, path, t) /\ born' = born \cup {<<path.id, t.title>>}
      /\ UNCHANGED <<counter, plan, begun, serial>>
  BY DEF CreateFile, AtStep
<1>2. /\ c \in Commands /\ CommandFits(c, StoredIds) /\ Len(c.calls) # 0
      /\ Call(p) = c.calls[1] /\ Call(p) \in Calls
  BY <1>1, InCall
<1>3. c.number \in Ids /\ Call(p).title \in Titles /\ Call(p).parent \in {0} \cup Ids
  BY <1>1, <1>2 DEF CommandFits, Calls, Creates, Finds, Updates, Saves, Seal
<1>4. path \in Paths /\ path.id = c.number /\ path.slug = Slug[Call(p).title]
  BY <1>3, TaskStoreAssumption DEF Paths
<1>5. t \in Tasks /\ t.deps = {} /\ t.title = Call(p).title
  BY <1>3, StoreConstants DEF NewTask, Tasks
<1>6. c.made \in Seq(Copies) /\ \A i \in 1 .. Len(c.made) : c.made[i].path.id \in StoredIds
  BY <1>2 DEF CommandFits, Commands
<1> HIDE DEF c, path, t
<1>7. FilesFit' /\ StoredIds \subseteq StoredIds' /\ path.id \in StoredIds'
  BY <1>1, <1>4, <1>5, StoringFits DEF StoreFits
<1>8. /\ made \in Seq(Copies) /\ Len(made) = Len(c.made) + 1
      /\ \A i \in 1 .. Len(made) : made[i].path.id \in StoredIds'
  <2>1. PICK m : m = [path |-> path, copy |-> t]
    OBVIOUS
  <2>2. m \in Copies /\ m.path = path
    BY <1>4, <1>5, <2>1 DEF Copies
  <2>3. /\ Append(c.made, m) \in Seq(Copies) /\ Len(Append(c.made, m)) = Len(c.made) + 1
        /\ \A i \in 1 .. Len(c.made) : Append(c.made, m)[i] = c.made[i]
        /\ Append(c.made, m)[Len(c.made) + 1] = m
    BY <1>6, <2>2, AppendProperties
  <2>4. PICK n \in Nat : n = Len(c.made)
    BY <1>6, LenProperties
  <2>5. \A i \in 1 .. n + 1 : i \in 1 .. n \/ i = n + 1
    BY <2>4
  <2> QED
    BY <1>6, <1>7, <2>1, <2>2, <2>3, <2>4, <2>5
<1>9. CommandFits(c, StoredIds')
  BY <1>2, <1>7, MoreFits
<1> HIDE DEF made
<1>10. CommandFits(Rest([c EXCEPT !.made = made]), StoredIds')
  BY <1>1, <1>2, <1>8, <1>9, RestFits
<1> QED
  BY <1>1, <1>7, <1>10, FitsNext DEF Keep

LEMMA ListKeeps ==
    ASSUME StoreFits, NEW p \in Processes, List(p)
    PROVE  StoreFits'
<1> DEFINE c == command[p]
           upto == IF serial THEN Len(Listing) ELSE c.listed + 1
           now == {Listing[i] : i \in c.listed + 1 .. upto}
           found == {x \in DOMAIN file : x.folder \in now}
           d == [c EXCEPT !.listed = upto, !.seen = @ \cup found]
<1>1. /\ c.calls # <<>> /\ c.step = "start" /\ c.listed < 4 /\ Keep(p, d)
      /\ UNCHANGED <<counter, file, plan, born, begun, serial>>
  BY StoreConstants DEF List, AtStep
<1>2. c \in Commands /\ CommandFits(c, StoredIds) /\ Len(c.calls) # 0
  BY <1>1, InCall
<1>3. upto \in 0 .. 4
  BY <1>1, <1>2, StoreConstants DEF Commands
<1>4. found \subseteq Paths
  BY DEF StoreFits, FilesFit
<1> HIDE DEF upto, found
<1>5. /\ d \in Commands /\ d.calls = c.calls /\ d.made = c.made /\ d.step = "start"
  BY <1>1, <1>2, <1>3, <1>4 DEF Commands
<1> HIDE DEF c, d
<1>6. CommandFits(d, StoredIds)
  BY <1>1, <1>2, <1>5, WithinFits
<1> QED
  BY <1>1, <1>6, CommandNext, Unchanging

LEMMA ThrowKeeps ==
    ASSUME StoreFits, NEW p \in Processes, Throw(p),
           UNCHANGED <<counter, file, plan, born, begun, serial>>
    PROVE  StoreFits'
BY NoCommandFits, CommandNext, Unchanging DEF Throw

LEMMA MatchesAre ==
    ASSUME StoreFits, NEW p \in Processes, NEW r, NEW x \in Matches(p, r)
    PROVE  x \in command[p].seen /\ (r.by # "title" => x.id = Number(p, r))
BY DEF Matches

LEMMA MatchKeeps ==
    ASSUME StoreFits, NEW p \in Processes, Match(p)
    PROVE  StoreFits'
<1> DEFINE c == command[p]
<1>1. /\ c.calls # <<>> /\ Call(p).do \in {"find", "update"} /\ c.step = "start"
      /\ UNCHANGED <<counter, file, plan, born, begun, serial>>
  BY DEF Match, AtStep
<1>2. /\ c \in Commands /\ CommandFits(c, StoredIds) /\ Len(c.calls) # 0
      /\ Call(p) = c.calls[1] /\ \A r : Number(p, r) = NumberIn(c, r)
  BY <1>1, InCall
<1>3. ASSUME c.seen \subseteq DOMAIN file, NEW x \in Matches(p, Call(p).ref),
             IF Call(p).do = "find" THEN Return(p)
             ELSE Keep(p, [c EXCEPT !.step = "load", !.path = x])
      PROVE  StoreFits'
  <2>1. x \in DOMAIN file /\ x \in Paths /\ (Call(p).ref.by # "title" => x.id = Number(p, Call(p).ref))
    BY <1>3, MatchesAre DEF StoreFits, FilesFit
  <2>2. CASE Call(p).do = "find"
    <3>1. c.calls[1].ref.by # "title" => NumberIn(c, c.calls[1].ref) \in StoredIds
      BY <1>2, <2>1 DEF StoredIds
    <3>2. c.calls[1].do # "create"
      BY <1>2, <2>2
    <3> HIDE DEF c
    <3>3. CommandFits(Rest(c), StoredIds)
      BY <1>2, <3>1, <3>2, ReturnFits
    <3>4. Keep(p, Rest(c))
      BY <1>3, <2>2 DEF Return, c
    <3> QED
      BY <1>1, <3>3, <3>4, CommandNext, Unchanging
  <2>3. CASE Call(p).do # "find"
    <3> DEFINE d == [c EXCEPT !.step = "load", !.path = x]
    <3>1. /\ d \in Commands /\ d.calls = c.calls /\ d.made = c.made /\ d.step = "load"
          /\ d.path = x
      BY <1>2, <2>1 DEF Commands, StoreSteps
    <3>2. Keep(p, d) /\ c.calls[1].do = "update"
      BY <1>1, <1>2, <1>3, <2>3
    <3> HIDE DEF c, d
    <3>3. CommandFits(d, StoredIds)
      BY <1>2, <2>1, <3>1, <3>2, WithinFits
    <3> QED
      BY <1>1, <3>2, <3>3, CommandNext, Unchanging
  <2> QED
    BY <2>2, <2>3
<1>4. CASE Throw(p)
  BY <1>1, <1>4, ThrowKeeps
<1> QED
  BY <1>3, <1>4 DEF Match

\* What an update makes of a task.
LEMMA ChangedFits ==
    ASSUME StoreFits, NEW p \in Processes, command[p].calls # <<>>, Call(p).do = "update",
           NEW x \in DOMAIN file
    PROVE  /\ Changed(p, file[x]) \in Tasks /\ Changed(p, file[x]).deps \subseteq StoredIds
           /\ Changed(p, file[x]).title = file[x].title
<1> DEFINE c == command[p]
           numbers == {Number(p, r) : r \in Call(p).with}
<1>1. /\ c \in Commands /\ CommandFits(c, StoredIds) /\ Len(c.calls) # 0
      /\ Call(p) = c.calls[1] /\ Call(p) \in Calls /\ \A r : Number(p, r) = NumberIn(c, r)
  BY InCall
<1>2. Call(p).change \in {"depend", "slices"} => numbers \subseteq Ids
  BY <1>1, FirstCall
<1>3. Call(p).change = "depend" => numbers \subseteq StoredIds
  BY <1>1 DEF CommandFits
<1>4. /\ Call(p).change \in {"log", "depend", "slices", "status"}
      /\ Call(p).change = "status" => Call(p).with \in Statuses
  BY <1>1 DEF Calls, Creates, Finds, Updates, Saves, Seal
<1>5. file[x] \in Tasks /\ file[x].deps \subseteq StoredIds
  BY DEF StoreFits, FilesFit
<1> HIDE DEF c, numbers
<1>6. PICK ids : ids = IF Call(p).change \in {"depend", "slices"} THEN numbers ELSE {}
  OBVIOUS
<1>7. /\ ids \subseteq Ids
      /\ Call(p).change = "depend" => ids \subseteq StoredIds
  BY <1>2, <1>3, <1>6
<1>8. Changed(p, file[x]) =
        [file[x] EXCEPT !.version = @ + 1,
                        !.deps = IF Call(p).change = "depend" THEN @ \cup ids ELSE @,
                        !.slices = IF Call(p).change = "slices" THEN ids ELSE @,
                        !.status = IF Call(p).change = "status" THEN Call(p).with ELSE @]
  BY <1>6 DEF Changed, numbers
<1>9. PICK t, u : t = file[x] /\ u = Changed(p, file[x])
  OBVIOUS
<1>10. /\ t \in Tasks /\ t.deps \subseteq StoredIds
       /\ u = [t EXCEPT !.version = @ + 1,
                        !.deps = IF Call(p).change = "depend" THEN @ \cup ids ELSE @,
                        !.slices = IF Call(p).change = "slices" THEN ids ELSE @,
                        !.status = IF Call(p).change = "status" THEN Call(p).with ELSE @]
  BY <1>5, <1>8, <1>9
<1>11. u \in Tasks
  <2>1. PICK version, deps, slices, status :
          /\ version = t.version + 1
          /\ deps = IF Call(p).change = "depend" THEN t.deps \cup ids ELSE t.deps
          /\ slices = IF Call(p).change = "slices" THEN ids ELSE t.slices
          /\ status = IF Call(p).change = "status" THEN Call(p).with ELSE t.status
    OBVIOUS
  <2>2. u = [t EXCEPT !.version = version, !.deps = deps, !.slices = slices, !.status = status]
    BY <1>10, <2>1
  <2>3. version \in Nat /\ deps \subseteq Ids /\ slices \subseteq Ids /\ status \in Statuses
    BY <1>4, <1>7, <1>10, <2>1 DEF Tasks
  <2> QED
    BY <1>10, <2>2, <2>3 DEF Tasks
<1>12. u.deps \subseteq StoredIds
  BY <1>7, <1>10 DEF Tasks
<1>13. u.title = t.title
  BY <1>10 DEF Tasks
<1> QED
  BY <1>9, <1>11, <1>12, <1>13

LEMMA LoadKeeps ==
    ASSUME StoreFits, NEW p \in Processes, Load(p)
    PROVE  StoreFits'
<1> DEFINE c == command[p]
           t == Changed(p, file[c.path])
           d == [c EXCEPT !.step = "write", !.copy = t]
<1>1. /\ c.calls # <<>> /\ Call(p).do = "update" /\ c.step = "load"
      /\ UNCHANGED <<counter, file, plan, born, begun, serial>>
      /\ IF c.path \in DOMAIN file THEN Keep(p, d) ELSE Throw(p)
  BY DEF Load, AtStep
<1>2. /\ c \in Commands /\ CommandFits(c, StoredIds) /\ Len(c.calls) # 0
      /\ Call(p) = c.calls[1]
  BY <1>1, InCall
<1>3. CASE c.path \in DOMAIN file
  <2>1. t \in Tasks /\ t.deps \subseteq StoredIds /\ Slug[t.title] = c.path.slug
    BY <1>1, <1>3, ChangedFits DEF StoreFits, FilesFit
  <2>2. c.path \in Paths
    BY <1>3 DEF StoreFits, FilesFit
  <2>3. Keep(p, d)
    BY <1>1, <1>3
  <2> HIDE DEF t
  <2>4. /\ d \in Commands /\ d.calls = c.calls /\ d.made = c.made /\ d.step = "write"
        /\ d.copy = t /\ d.path = c.path
    BY <1>2, <2>1 DEF Commands, StoreSteps
  <2> HIDE DEF c, d
  <2>5. CommandFits(d, StoredIds)
    BY <1>1, <1>2, <2>1, <2>2, <2>4, WithinFits
  <2> QED
    BY <1>1, <2>3, <2>5, CommandNext, Unchanging
<1>4. CASE c.path \notin DOMAIN file
  BY <1>1, <1>4, ThrowKeeps
<1> QED
  BY <1>3, <1>4

LEMMA TakeCopyKeeps ==
    ASSUME StoreFits, NEW p \in Processes, TakeCopy(p)
    PROVE  StoreFits'
<1> DEFINE c == command[p]
           n == Call(p).n
           own == c.made[n]
           ids == {c.made[m].path.id : m \in Call(p).deps}
           t == [own.copy EXCEPT !.version = @ + 1, !.deps = ids]
           d == [c EXCEPT !.step = "write", !.path = own.path, !.copy = t, !.made[n].copy = t]
<1>1. /\ c.calls # <<>> /\ Call(p).do = "save" /\ c.step = "start" /\ Keep(p, d)
      /\ UNCHANGED <<counter, file, plan, born, begun, serial>>
  BY DEF TakeCopy, AtStep
<1>2. /\ c \in Commands /\ CommandFits(c, StoredIds) /\ Len(c.calls) # 0
      /\ Call(p) = c.calls[1]
  BY <1>1, InCall
<1>3. n \in 1 .. Len(c.made) /\ \A m \in Call(p).deps : m \in 1 .. Len(c.made)
  BY <1>1, <1>2, FirstCall
<1>4. c.made \in Seq(Copies) /\ \A i \in 1 .. Len(c.made) : c.made[i].path.id \in StoredIds
  BY <1>2 DEF CommandFits, Commands
<1>5. \A i \in 1 .. Len(c.made) : c.made[i] \in Copies
  BY <1>4
<1>6. ids \subseteq StoredIds /\ ids \subseteq Ids
  BY <1>3, <1>4, <1>5 DEF Copies, Paths
<1>7. /\ own \in Copies /\ own.copy \in Tasks /\ own.path \in Paths
      /\ Slug[own.copy.title] = own.path.slug /\ DOMAIN own = {"path", "copy"}
  <2>1. own \in Copies
    BY <1>3, <1>5
  <2> QED
    BY <2>1 DEF Copies
<1> HIDE DEF ids
<1>8. t \in Tasks /\ t.deps = ids /\ t.title = own.copy.title
  <2>1. PICK copy, version : copy = own.copy /\ version = own.copy.version + 1
    OBVIOUS
  <2>2. copy \in Tasks /\ t = [copy EXCEPT !.version = version, !.deps = ids]
    BY <1>7, <2>1
  <2>3. version \in Nat
    BY <1>7, <2>1 DEF Tasks
  <2> HIDE DEF t
  <2>4. t \in Tasks
    BY <1>6, <2>2, <2>3 DEF Tasks
  <2>5. DOMAIN copy = {"title", "status", "version", "parent", "deps", "slices"}
    BY <2>2 DEF Tasks
  <2>6. t.deps = ids /\ t.title = copy.title
    BY <2>2, <2>5
  <2> QED
    BY <2>1, <2>4, <2>6
<1> HIDE DEF t
<1>9. PICK made : made = [c.made EXCEPT ![n].copy = t]
  OBVIOUS
<1>10. /\ made \in Seq(Copies) /\ Len(made) = Len(c.made)
       /\ \A i \in 1 .. Len(c.made) : made[i].path = c.made[i].path
  <2>1. PICK old, m : old = c.made /\ m = [own EXCEPT !.copy = t]
    OBVIOUS
  <2>2. m \in Copies /\ m.path = own.path
    <3>1. PICK path, copy : path = own.path /\ copy = own.copy
      OBVIOUS
    <3>2. /\ m = [path |-> path, copy |-> t] /\ path \in Paths
          /\ Slug[t.title] = path.slug
      BY <1>7, <1>8, <2>1, <3>1 DEF Copies
    <3> QED
      BY <1>8, <3>1, <3>2 DEF Copies
  <2>3. made = [old EXCEPT ![n] = m]
    BY <1>9, <2>1
  <2>4. old \in Seq(Copies) /\ n \in 1 .. Len(old)
    BY <1>3, <1>4, <2>1
  <2>5. /\ made \in Seq(Copies) /\ Len(made) = Len(old)
        /\ \A i \in 1 .. Len(old) : made[i] = IF i = n THEN m ELSE old[i]
    BY <2>2, <2>3, <2>4
  <2> QED
    BY <2>1, <2>2, <2>5
<1>11. d = [c EXCEPT !.step = "write", !.path = own.path, !.copy = t, !.made = made]
  BY <1>9
<1>12. /\ d \in Commands /\ d.calls = c.calls /\ d.made = made /\ d.step = "write"
       /\ d.copy = t /\ d.path = own.path
  <2>1. PICK path \in Paths : path = own.path
    BY <1>7
  <2>2. d = [c EXCEPT !.step = "write", !.path = path, !.copy = t, !.made = made]
    BY <1>11, <2>1
  <2> HIDE DEF c, d, own
  <2> QED
    BY <1>2, <1>8, <1>10, <2>1, <2>2 DEF Commands, StoreSteps
<1> HIDE DEF c, d, own
<1>13. CommandFits(d, StoredIds)
  <2>1. PICK whole, have, k : Planned(whole, have) /\ Placed(c, whole, have, k)
    BY <1>2 DEF CommandFits
  <2>2. Placed(d, whole, have, k)
    BY <1>10, <1>12, <2>1 DEF Placed
  <2>3. \A i \in 1 .. Len(made) : made[i].path.id \in StoredIds
    BY <1>4, <1>10
  <2>4. c.calls[1].do = "save"
    BY <1>1, <1>2
  <2> QED
    BY <1>2, <1>6, <1>7, <1>8, <1>12, <2>1, <2>2, <2>3, <2>4 DEF CommandFits
<1> QED
  BY <1>1, <1>13, CommandNext, Unchanging

LEMMA WriteKeeps ==
    ASSUME StoreFits, NEW p \in Processes, Write(p)
    PROVE  StoreFits'
<1> DEFINE c == command[p]
           d == [c EXCEPT !.step = "move"]
<1>1. /\ c.step = "write" /\ file' = Stored(file, c.path, c.copy)
      /\ Keep(p, Rest(c)) \/ Keep(p, d)
      /\ UNCHANGED <<counter, plan, born, begun, serial>>
  BY DEF Write, Return
<1>2. c \in Commands /\ CommandFits(c, StoredIds)
  BY DEF StoreFits
<1>3. Len(c.calls) # 0
  BY <1>1, <1>2 DEF CommandFits, NoCommand
<1>4. /\ c.calls[1].do \in {"update", "save"} /\ c.path \in Paths
      /\ c.copy \in Tasks /\ c.copy.deps \subseteq StoredIds /\ Slug[c.copy.title] = c.path.slug
  BY <1>1, <1>2, <1>3 DEF CommandFits
<1>5. /\ d \in Commands /\ d.calls = c.calls /\ d.made = c.made /\ d.step = "move"
      /\ d.copy = c.copy /\ d.path = c.path
  BY <1>2 DEF Commands, StoreSteps
<1> HIDE DEF c, d
<1>6. FilesFit' /\ StoredIds \subseteq StoredIds'
  BY <1>1, <1>4, StoringFits DEF StoreFits
<1>7. CommandFits(Rest(c), StoredIds) /\ CommandFits(d, StoredIds)
  BY <1>2, <1>3, <1>4, <1>5, ReturnFits, WithinFits
<1>8. CommandFits(Rest(c), StoredIds') /\ CommandFits(d, StoredIds')
  BY <1>6, <1>7, MoreFits
<1> QED
  BY <1>1, <1>6, <1>8, FitsNext DEF Keep

LEMMA MoveKeeps ==
    ASSUME StoreFits, NEW p \in Processes, Move(p)
    PROVE  StoreFits'
<1> DEFINE c == command[p]
           folder == FolderOf[c.copy.status]
<1>1. /\ c.step = "move" /\ UNCHANGED <<counter, plan, born, begun, serial>>
      /\ IF c.path \in DOMAIN file
         THEN /\ file' = Stored(Removed(file, c.path), At(c.path, folder), file[c.path])
              /\ Keep(p, Rest(c))
         ELSE file' = file /\ Throw(p)
  BY DEF Move, Return
<1>2. c \in Commands /\ CommandFits(c, StoredIds)
  BY DEF StoreFits
<1>3. Len(c.calls) # 0
  BY <1>1, <1>2 DEF CommandFits, NoCommand
<1>4. /\ c.calls[1].do \in {"update", "save"} /\ c.path \in Paths /\ c.copy \in Tasks
  BY <1>1, <1>2, <1>3 DEF CommandFits
<1>5. folder \in Folders
  BY <1>4, StoreConstants DEF Tasks
<1>6. CASE c.path \in DOMAIN file
  <2> HIDE DEF c, folder
  <2>1. FilesFit' /\ StoredIds \subseteq StoredIds'
    BY <1>1, <1>5, <1>6, MovingFits DEF StoreFits
  <2>2. CommandFits(Rest(c), StoredIds')
    BY <1>2, <1>3, <1>4, <2>1, ReturnFits, MoreFits
  <2> QED
    BY <1>1, <1>6, <2>1, <2>2, FitsNext DEF Keep
<1>7. CASE c.path \notin DOMAIN file
  BY <1>1, <1>7, ThrowKeeps
<1> QED
  BY <1>6, <1>7

LEMMA SealPlanKeeps ==
    ASSUME StoreFits, NEW p \in Processes, SealPlan(p)
    PROVE  StoreFits'
<1> DEFINE c == command[p]
<1>1. /\ c.calls # <<>> /\ Call(p).do = "seal" /\ Keep(p, Rest(c)) /\ plan' = "materialized"
      /\ UNCHANGED <<counter, file, born, begun, serial>>
  BY DEF SealPlan, AtStep, Return
<1>2. CommandFits(c, StoredIds) /\ Len(c.calls) # 0 /\ Call(p) = c.calls[1]
  BY <1>1, InCall
<1> HIDE DEF c
<1>3. CommandFits(Rest(c), StoredIds)
  BY <1>1, <1>2, ReturnFits
<1>4. counter' \in 1 .. MaxTasks + 1 /\ plan' \in {"draft", "materialized"} /\ begun' \in Nat
  BY <1>1 DEF StoreFits, FilesFit
<1> QED
  BY <1>1, <1>3, <1>4, CommandNext

LEMMA StoreStep == StoreFits /\ [StoreNext]_storeVars => StoreFits'
<1> SUFFICES ASSUME StoreFits, [StoreNext]_storeVars PROVE StoreFits'
  OBVIOUS
<1>1. ASSUME NEW p \in Processes, CommandDies(p) PROVE StoreFits'
  BY <1>1, ThrowKeeps DEF CommandDies
<1>2. CASE UNCHANGED storeVars
  BY <1>2 DEF storeVars, StoreFits, FilesFit, StoredIds
<1> QED
  BY <1>1, <1>2, BeginCommandKeeps, ReadCounterKeeps, WriteCounterKeeps, CreateFileKeeps,
     ListKeeps, MatchKeeps, LoadKeeps, TakeCopyKeeps, WriteKeeps, MoveKeeps, SealPlanKeeps
     DEF StoreNext

LEMMA StoreAlways == StoreSpec => []StoreFits
BY StoreStart, StoreStep, PTL DEF StoreSpec

FileStays ==
    \A b \in born : \E x \in DOMAIN file : /\ x.id = b[1] /\ x.slug = Slug[b[2]]
                                          /\ Slug[file[x].title] = x.slug
DependenciesStay ==
    \A x \in DOMAIN file : \A d \in file[x].deps : \E y \in DOMAIN file : y.id = d

LEMMA FitsAreKept == StoreFits => StoreTypes /\ FileStays /\ DependenciesStay
<1> SUFFICES ASSUME StoreFits PROVE StoreTypes /\ FileStays /\ DependenciesStay
  OBVIOUS
<1>1. FilesFit /\ \A p \in Processes : command[p] \in Commands /\ CommandFits(command[p], StoredIds)
  BY DEF StoreFits
<1>2. ASSUME NEW p \in Processes
      PROVE  /\ command[p].step \in {"start", "count", "file", "load", "write", "move"}
             /\ command[p].step \in {"write", "move"} =>
                   command[p].path \in Paths /\ command[p].copy \in Tasks
             /\ command[p].seen \subseteq Paths
  <2>1. command[p].step \in {"write", "move"} => Len(command[p].calls) # 0
    BY <1>1 DEF CommandFits, NoCommand
  <2> QED
    BY <1>1, <2>1 DEF CommandFits, Commands, StoreSteps
<1>3. StoreTypes
  BY <1>1, <1>2 DEF StoreTypes, FilesFit
<1>4. ASSUME NEW b \in born
      PROVE  \E x \in DOMAIN file : /\ x.id = b[1] /\ x.slug = Slug[b[2]]
                                    /\ Slug[file[x].title] = x.slug
  BY <1>1 DEF FilesFit
<1>5. ASSUME NEW x \in DOMAIN file, NEW d \in file[x].deps
      PROVE  \E y \in DOMAIN file : y.id = d
  BY <1>1 DEF FilesFit, StoredIds
<1> QED
  BY <1>3, <1>4, <1>5 DEF FileStays, DependenciesStay

-----------------------------------------------------------------------------
(* Commands that come one after the other.  Each number has one file, below *)
(* the counter, and the one process that runs writes the next version of    *)
(* what is there.                                                           *)
Chosen == CHOOSE q \in Processes : TRUE
Numbers(f) == {x.id : x \in DOMAIN f}
OneEach(f) == \A x, y \in DOMAIN f : x.id = y.id => x = y
Follows(t, u) ==
    /\ u.version = t.version + 1
    /\ u.title = t.title /\ u.parent = t.parent /\ t.deps \subseteq u.deps

\* The slices of the first task, all of them (SlicesAreWhole).
Stand(f) ==
    \E x \in DOMAIN f : x.id = 1 /\
        \E child \in [Slices -> f[x].slices] :
            \A n \in Slices : \E y \in DOMAIN f :
                /\ y.id = child[n] /\ f[y].title = SliceTitles[n] /\ f[y].parent = 1
                /\ n > 1 => child[n - 1] \in f[y].deps

\* Materialize after k of its calls.  A slice is stored as the command has it, but for
\* the one that it saves; its second save gives it its dependency; the last update gives
\* the first task its slices.
Saving(c, n) == c.step = "write" /\ c.calls[1].do = "save" /\ c.calls[1].n = n
Taken(c, k, n) == k > 5 * Total + n \/ (k = 5 * Total + n /\ c.step = "write")
Earlier(c, n) == {c.made[m].path.id : m \in {m \in Slices : m + 1 = n}}
Own(c) == {c.made[n].path.id : n \in Slices}
SliceFits(c, f, k, n) ==
    LET path == c.made[n].path
        copy == c.made[n].copy
    IN /\ path \in DOMAIN f /\ copy.title = SliceTitles[n] /\ path.folder = "inbox" /\ path.id # 1
       /\ copy.status = "draft" /\ copy.parent = 1
       /\ copy.deps = IF Taken(c, k, n) THEN Earlier(c, n) ELSE {}
       /\ IF Saving(c, n) THEN c.path = path /\ c.copy = copy /\ Follows(f[path], copy)
          ELSE f[path] = copy
       /\ \A m \in 1 .. Len(c.made) : c.made[m].path.id = path.id => m = n
MaterializesAt(c, f, k) ==
    /\ k + Len(c.calls) = 6 * Total + 3
    /\ \A j \in 1 .. Len(c.calls) : c.calls[j] = Materialize[k + j]
    /\ Len(c.made) = MaterializeHas[k]
    /\ k >= 1 => 1 \in Numbers(f)
    /\ c.calls[1].do = "update" /\ c.step \in {"load", "write", "move"} => c.path.id = 1
    /\ k >= 6 * Total + 2 \/ (k = 6 * Total + 1 /\ c.step = "move") =>
          \A x \in DOMAIN f : x.id = 1 => f[x].slices = Own(c)
    /\ \A n \in 1 .. Len(c.made) : SliceFits(c, f, k, n)

\* The running command, when f are the files, next the counter and state the plan.
StepFits(c, f, next) ==
    /\ c.step = "count" => c.number = next
    /\ c.step = "file" => c.number < next /\ \A x \in DOMAIN f : x.id < c.number
    /\ c.step = "move" => c.calls[1].do = "update"
    /\ c.step = "write" /\ c.calls[1].do = "update" =>
          /\ c.path \in DOMAIN f /\ Follows(f[c.path], c.copy)
          /\ c.copy.slices = IF c.calls[1].change = "slices"
                             THEN {NumberIn(c, r) : r \in c.calls[1].with}
                             ELSE f[c.path].slices
PlainCall(call) == call.do \notin {"save", "seal"} /\ (call.do = "update" => call.change # "slices")
Plain(c) == \A j \in 1 .. Len(c.calls) : PlainCall(c.calls[j])
Materializes(c, f) == \E k \in 0 .. 6 * Total + 2 : MaterializesAt(c, f, k)
TurnFits(c, f, next, state) ==
    Len(c.calls) # 0 =>
        StepFits(c, f, next) /\ (Plain(c) \/ (state = "draft" /\ Materializes(c, f)))

SerialFits ==
    serial =>
        /\ OneEach(file) /\ \A x \in DOMAIN file : x.id < counter
        /\ plan = "materialized" => Stand(file)
        /\ \A p \in Processes :
              /\ command[p] # NoCommand => p = Chosen
              /\ TurnFits(command[p], file, counter, plan)

-----------------------------------------------------------------------------
(* What a change of the files does to the table, and to the slices.         *)
FoundIn(f, id) ==
    LET of == {x \in DOMAIN f : x.id = id}
        Place(x) == CHOOSE i \in DOMAIN Listing : Listing[i] = x.folder
    IN f[CHOOSE x \in of : \A y \in of : Place(x) <= Place(y)]
TableOf(f) == [id \in Numbers(f) |-> FoundIn(f, id)]
WithRow(table, id, t) == [i \in DOMAIN table \cup {id} |-> IF i = id THEN t ELSE table[i]]

\* Every task of f is in g, with what its parent needs of it.
Kept(f, g) ==
    \A y \in DOMAIN f : \E z \in DOMAIN g :
        /\ z.id = y.id /\ g[z].title = f[y].title /\ g[z].parent = f[y].parent
        /\ f[y].deps \subseteq g[z].deps /\ g[z].slices = f[y].slices

LEMMA AsTableIs == AsTable = TableOf(file) /\ AsTable' = TableOf(file')
BY DEF AsTable, Found, TableOf, FoundIn, Numbers

LEMMA FoundIs ==
    ASSUME NEW f, DOMAIN f \subseteq Paths, OneEach(f), NEW x \in DOMAIN f
    PROVE  FoundIn(f, x.id) = f[x] /\ x.id \in Numbers(f)
<1> DEFINE of == {y \in DOMAIN f : y.id = x.id}
           Place(y) == CHOOSE i \in DOMAIN Listing : Listing[i] = y.folder
<1>1. of = {x}
  BY DEF OneEach
<1>2. x.folder \in Folders
  BY DEF Paths, Folders
<1>3. DOMAIN Listing = 1 .. 4
  BY DEF Listing
<1>4. \E i \in DOMAIN Listing : Listing[i] = x.folder
  BY <1>2, <1>3, StoreConstants
<1>5. Place(x) \in 1 .. 4
  BY <1>3, <1>4
<1> HIDE DEF Place
<1>6. Place(x) <= Place(x)
  BY <1>5
<1>7. (CHOOSE z \in of : \A y \in of : Place(z) <= Place(y)) = x
  BY <1>1, <1>6
<1> QED
  BY <1>7 DEF FoundIn, Place, Numbers

\* A file for a task of its own: a row is added.
LEMMA NewRow ==
    ASSUME NEW f, DOMAIN f \subseteq Paths, OneEach(f), NEW path \in Paths, NEW t, NEW g,
           path.id \notin Numbers(f), g = Stored(f, path, t)
    PROVE  /\ OneEach(g) /\ DOMAIN g \subseteq Paths /\ Kept(f, g)
           /\ Numbers(g) = Numbers(f) \cup {path.id} /\ g[path] = t
           /\ \A x \in DOMAIN g : x \in DOMAIN f \/ x = path
           /\ \A x \in DOMAIN f : g[x] = f[x]
<1>1. /\ DOMAIN g = DOMAIN f \cup {path} /\ path \notin DOMAIN f /\ g[path] = t
      /\ \A x \in DOMAIN f : g[x] = f[x]
  BY DEF Stored, Numbers
<1>2. OneEach(g) /\ DOMAIN g \subseteq Paths /\ Numbers(g) = Numbers(f) \cup {path.id}
  BY <1>1 DEF OneEach, Numbers
<1>3. Kept(f, g)
  BY <1>1 DEF Kept
<1> QED
  BY <1>1, <1>2, <1>3

LEMMA NewRowInTable ==
    ASSUME NEW f, DOMAIN f \subseteq Paths, OneEach(f), NEW path \in Paths, NEW t, NEW g,
           path.id \notin Numbers(f), g = Stored(f, path, t)
    PROVE  TableOf(g) = WithRow(TableOf(f), path.id, t)
<1>1. /\ OneEach(g) /\ DOMAIN g \subseteq Paths /\ \A x \in DOMAIN g : x \in DOMAIN f \/ x = path
      /\ Numbers(g) = Numbers(f) \cup {path.id} /\ g[path] = t
      /\ \A x \in DOMAIN f : g[x] = f[x]
  BY NewRow
<1>4. ASSUME NEW i \in Numbers(g)
      PROVE  FoundIn(g, i) = IF i = path.id THEN t ELSE TableOf(f)[i]
  <2>1. PICK x \in DOMAIN g : x.id = i
    BY DEF Numbers
  <2>2. FoundIn(g, i) = g[x]
    BY <1>1, <2>1, FoundIs
  <2>3. CASE x = path
    BY <1>1, <2>1, <2>2, <2>3
  <2>4. CASE x \in DOMAIN f
    <3>1. i \in Numbers(f) /\ FoundIn(f, i) = f[x] /\ i # path.id
      BY <2>1, <2>4, FoundIs
    <3> QED
      BY <1>1, <2>2, <2>4, <3>1 DEF TableOf
  <2> QED
    BY <1>1, <2>3, <2>4
<1>5. DOMAIN TableOf(f) = Numbers(f)
  BY DEF TableOf
<1>6. TableOf(g) = [i \in Numbers(g) |-> FoundIn(g, i)]
  BY DEF TableOf
<1> QED
  BY <1>1, <1>4, <1>5, <1>6 DEF WithRow

\* The next version of a task in its file: its row is changed.
LEMMA NextRow ==
    ASSUME NEW f, DOMAIN f \subseteq Paths, OneEach(f), NEW path \in DOMAIN f, NEW t, NEW g,
           g = Stored(f, path, t), Follows(f[path], t)
    PROVE  /\ OneEach(g) /\ DOMAIN g = DOMAIN f /\ g[path] = t
           /\ \A x \in DOMAIN f : x # path => g[x] = f[x]
           /\ t.slices = f[path].slices => Kept(f, g)
           /\ TableOf(g) = [TableOf(f) EXCEPT ![path.id] = t]
           /\ path.id \in DOMAIN TableOf(f) /\ TableOf(f)[path.id] = f[path]
<1>1. /\ DOMAIN g = DOMAIN f /\ g[path] = t /\ \A x \in DOMAIN f : x # path => g[x] = f[x]
  BY DEF Stored
<1>2. OneEach(g) /\ DOMAIN g \subseteq Paths /\ Numbers(g) = Numbers(f)
  BY <1>1 DEF OneEach, Numbers
<1>3. t.slices = f[path].slices => Kept(f, g)
  BY <1>1 DEF Kept, Follows
<1>4. /\ DOMAIN TableOf(f) = Numbers(f) /\ path.id \in Numbers(f)
      /\ TableOf(f)[path.id] = f[path]
  BY FoundIs DEF TableOf
<1>5. ASSUME NEW i \in Numbers(g)
      PROVE  FoundIn(g, i) = IF i = path.id THEN t ELSE TableOf(f)[i]
  <2>1. PICK x \in DOMAIN f : x.id = i
    BY <1>2 DEF Numbers
  <2>2. FoundIn(g, i) = g[x] /\ FoundIn(f, i) = f[x] /\ i \in Numbers(f)
    BY <1>1, <1>2, <2>1, FoundIs
  <2>3. x = path <=> i = path.id
    BY <2>1 DEF OneEach
  <2> QED
    BY <1>1, <2>2, <2>3 DEF TableOf
<1>6. TableOf(g) = [TableOf(f) EXCEPT ![path.id] = t]
  <2>1. TableOf(g) = [i \in Numbers(f) |-> FoundIn(g, i)] /\ TableOf(f) = [i \in Numbers(f) |-> FoundIn(f, i)]
    BY <1>2 DEF TableOf
  <2> QED
    BY <1>2, <1>4, <1>5, <2>1
<1> QED
  BY <1>1, <1>2, <1>3, <1>4, <1>6

\* A file in another folder: the table stays.
LEMMA MovedRow ==
    ASSUME NEW f, DOMAIN f \subseteq Paths, OneEach(f), NEW from \in DOMAIN f, NEW to \in Paths,
           to.id = from.id, NEW g, g = Stored(Removed(f, from), to, f[from])
    PROVE  /\ OneEach(g) /\ Kept(f, g) /\ TableOf(g) = TableOf(f) /\ Numbers(g) = Numbers(f)
           /\ \A x \in DOMAIN f : x # from => x \in DOMAIN g /\ g[x] = f[x]
           /\ \A x \in DOMAIN g : x.id = from.id => g[x] = f[from]
<1>1. /\ DOMAIN g = (DOMAIN f \ {from}) \cup {to}
      /\ \A x \in DOMAIN g : g[x] = IF x = to THEN f[from] ELSE f[x]
  BY DEF Stored, Removed
<1>2. OneEach(g) /\ DOMAIN g \subseteq Paths
  BY <1>1 DEF OneEach
<1>3. Numbers(g) = Numbers(f)
  BY <1>1 DEF Numbers
<1>4. \A x \in DOMAIN f : x # from => x \in DOMAIN g /\ g[x] = f[x]
  BY <1>1 DEF OneEach
<1>5. \A x \in DOMAIN g : x.id = from.id => g[x] = f[from]
  BY <1>1 DEF OneEach
<1>6. Kept(f, g)
  <2> SUFFICES ASSUME NEW y \in DOMAIN f
               PROVE  \E z \in DOMAIN g : z.id = y.id /\ g[z] = f[y]
    BY DEF Kept
  <2>1. CASE y = from
    BY <1>1, <2>1
  <2>2. CASE y # from
    BY <1>4, <2>2
  <2> QED
    BY <2>1, <2>2
<1>7. ASSUME NEW i \in Numbers(f) PROVE FoundIn(g, i) = FoundIn(f, i)
  <2>1. PICK x \in DOMAIN f : x.id = i
    BY DEF Numbers
  <2>2. PICK z \in DOMAIN g : z.id = i /\ g[z] = f[x]
    <3>1. CASE x = from
      BY <1>1, <2>1, <3>1
    <3>2. CASE x # from
      BY <1>4, <2>1, <3>2
    <3> QED
      BY <3>1, <3>2
  <2>3. FoundIn(g, i) = g[z] /\ FoundIn(f, i) = f[x]
    BY <1>2, <2>1, <2>2, FoundIs
  <2> QED
    BY <2>2, <2>3
<1>8. TableOf(g) = TableOf(f)
  BY <1>3, <1>7 DEF TableOf
<1> QED
  BY <1>2, <1>3, <1>4, <1>5, <1>6, <1>8

LEMMA StandsOn ==
    ASSUME NEW f, NEW g, Stand(f), Kept(f, g)
    PROVE  Stand(g)
<1>1. PICK x \in DOMAIN f :
        /\ x.id = 1
        /\ \E child \in [Slices -> f[x].slices] :
              \A n \in Slices : \E y \in DOMAIN f :
                  /\ y.id = child[n] /\ f[y].title = SliceTitles[n] /\ f[y].parent = 1
                  /\ n > 1 => child[n - 1] \in f[y].deps
  BY DEF Stand
<1>2. PICK child \in [Slices -> f[x].slices] :
        \A n \in Slices : \E y \in DOMAIN f :
            /\ y.id = child[n] /\ f[y].title = SliceTitles[n] /\ f[y].parent = 1
            /\ n > 1 => child[n - 1] \in f[y].deps
  BY <1>1
<1>3. PICK z \in DOMAIN g : z.id = 1 /\ g[z].slices = f[x].slices
  BY <1>1 DEF Kept
<1>4. ASSUME NEW n \in Slices
      PROVE  \E y \in DOMAIN g : /\ y.id = child[n] /\ g[y].title = SliceTitles[n] /\ g[y].parent = 1
                                 /\ n > 1 => child[n - 1] \in g[y].deps
  <2>1. PICK y \in DOMAIN f : /\ y.id = child[n] /\ f[y].title = SliceTitles[n] /\ f[y].parent = 1
                              /\ n > 1 => child[n - 1] \in f[y].deps
    BY <1>2
  <2>2. PICK v \in DOMAIN g : /\ v.id = y.id /\ g[v].title = f[y].title /\ g[v].parent = f[y].parent
                              /\ f[y].deps \subseteq g[v].deps
    BY DEF Kept
  <2> QED
    BY <2>1, <2>2
<1>5. child \in [Slices -> g[z].slices]
  BY <1>3
<1> QED
  BY <1>3, <1>4, <1>5 DEF Stand

\* The steps of the table.
LEMMA SameTable ==
    ASSUME TableOf(file') = TableOf(file)
    PROVE  StepsTable
BY AsTableIs DEF StepsTable

LEMMA RowAdded ==
    ASSUME NEW id, NEW t, id \notin DOMAIN TableOf(file), t.status = "draft", t.version = 0,
           TableOf(file') = WithRow(TableOf(file), id, t)
    PROVE  StepsTable
<1>1. /\ AsTable' = [i \in DOMAIN AsTable \cup {id} |-> IF i = id THEN t ELSE AsTable[i]]
      /\ id \notin DOMAIN AsTable
  <2>1. AsTable' = WithRow(AsTable, id, t) /\ id \notin DOMAIN AsTable
    BY AsTableIs
  <2> QED
    BY <2>1 DEF WithRow
<1>2. id \in DOMAIN AsTable' /\ AsTable'[id] = t
  BY <1>1
<1>3. Table!Add(id, AsTable'[id])
  BY <1>1, <1>2 DEF Table!Add
<1> QED
  BY <1>2, <1>3 DEF StepsTable, Table!Next

LEMMA RowChanged ==
    ASSUME NEW id \in DOMAIN TableOf(file), NEW t, Follows(TableOf(file)[id], t),
           TableOf(file') = [TableOf(file) EXCEPT ![id] = t]
    PROVE  StepsTable
<1>1. id \in DOMAIN AsTable /\ AsTable' = [AsTable EXCEPT ![id] = t] /\ Follows(AsTable[id], t)
  BY AsTableIs
<1>2. id \in DOMAIN AsTable \cap DOMAIN AsTable' /\ AsTable'[id] = t
  <2>1. PICK now, then : now = AsTable /\ then = AsTable' /\ now = TableOf(file)
    BY AsTableIs
  <2>2. now = [i \in Numbers(file) |-> FoundIn(file, i)]
    BY <2>1 DEF TableOf
  <2>3. id \in DOMAIN now /\ then = [now EXCEPT ![id] = t]
    BY <1>1, <2>1
  <2>4. DOMAIN then = DOMAIN now /\ then[id] = t
    BY <2>2, <2>3
  <2> QED
    BY <2>1, <2>3, <2>4
<1>3. Table!Change(id, AsTable'[id])
  BY <1>1, <1>2 DEF Table!Change, Follows
<1> QED
  BY <1>2, <1>3 DEF StepsTable, Table!Next

\* Each call of Materialize, by what it does.
LEMMA MaterializeCall ==
    ASSUME NEW k \in 0 .. 6 * Total + 2, NEW call, call = Materialize[k + 1]
    PROVE  /\ call.do \in {"create", "find", "update", "save", "seal"}
           /\ call.do = "create" =>
                 \E n \in Slices : /\ k = 5 * n - 4 /\ call = Make(SliceTitles[n], 1)
                                   /\ MaterializeHas[k] = n - 1 /\ MaterializeHas[k + 1] = n
           /\ call.do # "create" => MaterializeHas[k + 1] = MaterializeHas[k]
           /\ k = 0 => call = Find(ById(1))
           /\ call.do = "update" =>
                 /\ call.ref = ById(1) /\ \A n \in Slices : k # 5 * Total + n
                 /\ IF call.change = "slices"
                    THEN k = 6 * Total + 1 /\ call.with = {Made(n) : n \in Slices}
                    ELSE k # 6 * Total + 1
           /\ call.do = "save" =>
                 \E n \in Slices :
                     /\ call.n = n
                     /\ \/ k = 5 * n /\ call.deps = {}
                        \/ k = 5 * Total + n /\ call.deps = {m \in Slices : m + 1 = n}
           /\ call.do = "seal" <=> k = 6 * Total + 2
           /\ k # 6 * Total + 1 \/ call = OwnSlices
           /\ \A n \in Slices : k = 5 * Total + n => call.do = "save" /\ call.n = n
<1>1. Total \in Nat \ {0} /\ Slices = 1 .. Total
  BY TotalIs
<1>2. PICK i \in 1 .. 6 * Total + 3 : i = k + 1 /\ i - 1 = k
  BY <1>1
<1>3. MaterializeHas[i] = IF call.do = "create" THEN MaterializeHas[k] + 1 ELSE MaterializeHas[k]
  <2>1. Len(Materialize) = 6 * Total + 3
    BY MaterializeIs
  <2>2. i \in 1 .. Len(Materialize)
    BY <1>2, <2>1
  <2>3. MaterializeHas[i] = IF Materialize[i].do = "create" THEN MaterializeHas[i - 1] + 1
                            ELSE MaterializeHas[i - 1]
    BY <2>2, MaterializePlanned DEF Planned
  <2> QED
    BY <1>2, <2>3
<1>4. ASSUME k = 0
      PROVE  call = Find(ById(1)) /\ call.do = "find"
  BY <1>4, MaterializeIs DEF Find
<1>5. ASSUME NEW n \in Slices, NEW j \in 1 .. 5, i = 5 * n - 4 + j
      PROVE  call = Slicing(n)[j] /\ k = 5 * n - 5 + j
  <2>1. Materialize[5 * n - 4 + j] = Slicing(n)[j]
    BY MaterializeIs
  <2>2. call = Materialize[5 * n - 4 + j]
    BY <1>2, <1>5
  <2>3. k = 5 * n - 5 + j
    BY <1>1, <1>2, <1>5
  <2> QED
    BY <2>1, <2>2, <2>3
<1>6. ASSUME NEW n \in Slices, k = 5 * n - 4
      PROVE  call = Make(SliceTitles[n], 1) /\ call.do = "create" /\ MaterializeHas[k] = n - 1
  <2>1. i = 5 * n - 4 + 1 /\ 1 \in 1 .. 5
    BY <1>1, <1>2, <1>6
  <2>2. call = Slicing(n)[1]
    BY <1>5, <2>1
  <2>3. call = Make(SliceTitles[n], 1)
    BY <2>2, SlicingIs
  <2> QED
    BY <1>6, <2>3, MaterializeHave DEF Make
<1>7. ASSUME NEW n \in Slices, k = 5 * n - 3 PROVE call.do = "find"
  <2>1. i = 5 * n - 4 + 2 /\ 2 \in 1 .. 5
    BY <1>1, <1>2, <1>7
  <2>2. call = Slicing(n)[2]
    BY <1>5, <2>1
  <2> QED
    <3>1. call = Find(Made(n))
      BY <2>2, SlicingIs
    <3> QED
      BY <3>1 DEF Find
<1>8. ASSUME NEW n \in Slices, k = 5 * n - 2 \/ k = 5 * n - 1
      PROVE  call.do = "update" /\ call.ref = ById(1) /\ call.change # "slices"
  <2>1. (i = 5 * n - 4 + 3 \/ i = 5 * n - 4 + 4) /\ 3 \in 1 .. 5 /\ 4 \in 1 .. 5
    BY <1>1, <1>2, <1>8
  <2>2. call = Slicing(n)[3] \/ call = Slicing(n)[4]
    BY <1>5, <2>1
  <2> QED
    <3>1. call = Update(ById(1), "depend", {Made(n)}) \/ call = Update(ById(1), "log", {})
      BY <2>2, SlicingIs
    <3> QED
      BY <3>1 DEF Update
<1>9. ASSUME NEW n \in Slices, k = 5 * n PROVE call.do = "save" /\ call.n = n /\ call.deps = {}
  <2>1. i = 5 * n - 4 + 5 /\ 5 \in 1 .. 5
    BY <1>1, <1>2, <1>9
  <2>2. call = Slicing(n)[5]
    BY <1>5, <2>1
  <2> QED
    <3>1. call = Save(n, {})
      BY <2>2, SlicingIs
    <3> QED
      BY <3>1 DEF Save
<1>10. ASSUME NEW n \in Slices, k = 5 * Total + n
       PROVE  call.do = "save" /\ call.n = n /\ call.deps = {m \in Slices : m + 1 = n}
  <2>1. i = 5 * Total + 1 + n
    BY <1>1, <1>2, <1>10
  <2>2. call = SecondSave(n)
    BY <1>2, <2>1, MaterializeIs
  <2> QED
    BY <2>2 DEF SecondSave, Save
<1>11. ASSUME k = 6 * Total + 1
       PROVE  /\ call = OwnSlices /\ call.do = "update" /\ call.ref = ById(1)
              /\ call.change = "slices" /\ call.with = {Made(n) : n \in Slices}
  <2>1. i = 6 * Total + 2
    BY <1>1, <1>2, <1>11
  <2>2. call = OwnSlices
    BY <1>2, <2>1, MaterializeIs
  <2> QED
    BY <2>2 DEF OwnSlices, Update
<1>12. ASSUME k = 6 * Total + 2 PROVE call.do = "seal"
  <2>1. i = 6 * Total + 3
    BY <1>1, <1>2, <1>12
  <2> QED
    BY <1>2, <2>1, MaterializeIs DEF Seal
<1>13. \/ k = 0
       \/ \E n \in Slices : k = 5 * n - 4 \/ k = 5 * n - 3 \/ k = 5 * n - 2 \/ k = 5 * n - 1 \/ k = 5 * n
       \/ \E n \in Slices : k = 5 * Total + n
       \/ k = 6 * Total + 1
       \/ k = 6 * Total + 2
  <2>1. CASE \E n \in Slices, j \in 1 .. 5 : i = 5 * n - 4 + j
    <3>1. PICK n \in Slices, j \in 1 .. 5 : i = 5 * n - 4 + j
      BY <2>1
    <3>2. j = 1 \/ j = 2 \/ j = 3 \/ j = 4 \/ j = 5
      OBVIOUS
    <3>3. k = 5 * n - 4 \/ k = 5 * n - 3 \/ k = 5 * n - 2 \/ k = 5 * n - 1 \/ k = 5 * n
      BY <1>1, <1>2, <3>1, <3>2
    <3> QED
      BY <3>3
  <2>2. CASE \E n \in Slices : i = 5 * Total + 1 + n
    <3>1. PICK n \in Slices : i = 5 * Total + 1 + n
      BY <2>2
    <3>2. k = 5 * Total + n
      BY <1>1, <1>2, <3>1
    <3> QED
      BY <3>2
  <2>3. (i = 1 => k = 0) /\ (i = 6 * Total + 2 => k = 6 * Total + 1)
        /\ (i = 6 * Total + 3 => k = 6 * Total + 2)
    BY <1>1, <1>2
  <2>4. \/ i = 1
        \/ \E n \in Slices, j \in 1 .. 5 : i = 5 * n - 4 + j
        \/ \E n \in Slices : i = 5 * Total + 1 + n
        \/ i = 6 * Total + 2
        \/ i = 6 * Total + 3
    BY MaterializePlaces
  <2> QED
    BY <2>1, <2>2, <2>3, <2>4
<1>14. ASSUME NEW n \in Slices
       PROVE  /\ 5 * n < 5 * Total + 1 /\ \A m \in Slices : 5 * n < 5 * Total + m
              /\ 5 * Total + n < 6 * Total + 1
  BY <1>1
<1>15. (k = 6 * Total + 1 => k # 6 * Total + 2) /\ 0 # 6 * Total + 2
  BY <1>1
<1>16. /\ call.do \in {"create", "find", "update", "save", "seal"}
       /\ call.do = "create" => \E n \in Slices : k = 5 * n - 4
       /\ call.do = "save" => \E n \in Slices : k = 5 * n \/ k = 5 * Total + n
       /\ call.do = "seal" => k = 6 * Total + 2
       /\ call.do = "update" => \/ k = 6 * Total + 1
                                \/ \E n \in Slices : k = 5 * n - 2 \/ k = 5 * n - 1
  BY <1>4, <1>6, <1>7, <1>8, <1>9, <1>10, <1>11, <1>12, <1>13
<1>17. call.do = "create" =>
          \E n \in Slices : /\ k = 5 * n - 4 /\ call = Make(SliceTitles[n], 1)
                            /\ MaterializeHas[k] = n - 1 /\ MaterializeHas[k + 1] = n
  <2> SUFFICES ASSUME call.do = "create"
               PROVE  \E n \in Slices : /\ k = 5 * n - 4 /\ call = Make(SliceTitles[n], 1)
                                        /\ MaterializeHas[k] = n - 1 /\ MaterializeHas[k + 1] = n
    OBVIOUS
  <2>1. PICK n \in Slices : k = 5 * n - 4
    BY <1>16
  <2>2. call = Make(SliceTitles[n], 1) /\ MaterializeHas[k] = n - 1
    BY <1>6, <2>1
  <2>3. MaterializeHas[k + 1] = n
    BY <1>1, <1>2, <1>3, <2>2
  <2> QED
    BY <2>1, <2>2, <2>3
<1>18. call.do = "update" =>
          /\ call.ref = ById(1) /\ \A n \in Slices : k # 5 * Total + n
          /\ IF call.change = "slices"
             THEN k = 6 * Total + 1 /\ call.with = {Made(n) : n \in Slices}
             ELSE k # 6 * Total + 1
  BY <1>8, <1>10, <1>11, <1>16
<1>19. call.do = "save" =>
          \E n \in Slices :
              /\ call.n = n
              /\ \/ k = 5 * n /\ call.deps = {}
                 \/ k = 5 * Total + n /\ call.deps = {m \in Slices : m + 1 = n}
  BY <1>9, <1>10, <1>16
<1>20. call.do # "create" => MaterializeHas[k + 1] = MaterializeHas[k]
  BY <1>2, <1>3
<1> QED
  BY <1>4, <1>10, <1>11, <1>12, <1>16, <1>17, <1>18, <1>19, <1>20

LEMMA MadeSoFar == \A k \in 0 .. 6 * Total + 3 : MaterializeHas[k] \in 0 .. Total
<1>1. Total \in Nat \ {0}
  BY TotalIs
<1>2. ASSUME NEW k \in 0 .. 6 * Total + 3 PROVE MaterializeHas[k] \in 0 .. Total
  <2>1. MaterializeHas[k] = IF k <= 5 * Total + 1 THEN (k + 3) \div 5 ELSE Total
    BY DEF MaterializeHas
  <2>2. CASE k <= 5 * Total + 1
    <3>1. (k + 3) \div 5 \in 0 .. Total
      BY <1>1, <2>2
    <3> QED
      BY <2>1, <2>2, <3>1
  <2>3. CASE ~(k <= 5 * Total + 1)
    BY <1>1, <2>1, <2>3
  <2> QED
    BY <2>2, <2>3
<1> QED
  BY <1>2

\* The call that a command of Materialize is in.
LEMMA MaterializesCall ==
    ASSUME NEW c \in Commands, Len(c.calls) # 0, NEW f, NEW k \in 0 .. 6 * Total + 2,
           MaterializesAt(c, f, k)
    PROVE  c.calls[1] = Materialize[k + 1] /\ Len(c.calls) = 6 * Total + 3 - k
<1>1. PICK n \in Nat : n = Len(c.calls)
  BY LenProperties DEF Commands
<1>2. n # 0
  BY <1>1
<1>3. 1 \in 1 .. n
  BY <1>2
<1>4. c.calls[1] = Materialize[k + 1]
  <2>1. \A j \in 1 .. n : c.calls[j] = Materialize[k + j]
    BY <1>1 DEF MaterializesAt
  <2> QED
    BY <1>3, <2>1
<1>5. k + n = 6 * Total + 3
  BY <1>1 DEF MaterializesAt
<1>7. n = 6 * Total + 3 - k
  BY <1>5, TotalIs
<1> QED
  BY <1>1, <1>4, <1>7

\* A step within a call, that leaves the files.
LEMMA MaterializesWithin ==
    ASSUME NEW c \in Commands, Len(c.calls) # 0, NEW f, NEW k \in 0 .. 6 * Total + 2,
           MaterializesAt(c, f, k), NEW d, d.calls = c.calls, d.made = c.made,
           c.step \notin {"write", "move"}, d.step # "move",
           d.step = "write" => c.calls[1].do = "update",
           c.calls[1].do = "update" /\ d.step \in {"load", "write"} => d.path.id = 1
    PROVE  MaterializesAt(d, f, k)
<1>1. c.calls[1] = Materialize[k + 1]
  BY MaterializesCall
<1>2. \A n \in 1 .. Len(c.made) : ~Saving(c, n) /\ ~Saving(d, n)
  BY DEF Saving
<1>3. \A n \in Slices : k = 5 * Total + n => c.calls[1].do = "save"
  BY <1>1, MaterializeCall
<1>4. \A n \in Slices : Taken(d, k, n) <=> Taken(c, k, n)
  BY <1>3 DEF Taken
<1>5. \A n \in 1 .. Len(c.made) : n \in Slices
  <2>1. PICK m : m = Len(c.made)
    OBVIOUS
  <2>2. m = MaterializeHas[k]
    BY <2>1 DEF MaterializesAt
  <2>3. m \in 0 .. Total
    <3>1. k \in 0 .. 6 * Total + 3
      BY TotalIs
    <3> QED
      BY <2>2, <3>1, MadeSoFar
  <2>4. \A n \in 1 .. m : n \in Slices
    BY <2>3, TotalIs
  <2> QED
    BY <2>1, <2>4
<1>6. ASSUME NEW n \in 1 .. Len(c.made), SliceFits(c, f, k, n) PROVE SliceFits(d, f, k, n)
  BY <1>2, <1>4, <1>5, <1>6 DEF SliceFits, Earlier
<1>7. Own(d) = Own(c)
  BY DEF Own
<1> QED
  BY <1>6, <1>7 DEF MaterializesAt

\* The command that is left when a call returns, and there are more.
LEMMA RestIs ==
    ASSUME NEW c \in Commands, Len(c.calls) # 0, Len(c.calls) # 1, NEW made \in Seq(Copies),
           NEW e, e = Rest([c EXCEPT !.made = made])
    PROVE  /\ e \in Commands /\ e.calls = Tail(c.calls) /\ e.made = made /\ e.step = "start"
           /\ Len(e.calls) # 0 /\ Len(e.calls) = Len(c.calls) - 1
           /\ \A j \in 1 .. Len(e.calls) : e.calls[j] = c.calls[j + 1]
<1>1. c.calls \in Seq(Calls)
  BY DEF Commands
<1>2. [c EXCEPT !.made = made].calls = c.calls /\ [c EXCEPT !.made = made].made = made
  BY DEF Commands
<1>3. e = [NoCommand EXCEPT !.calls = Tail(c.calls), !.made = made]
  BY <1>2 DEF Rest
<1>4. Tail(c.calls) \in Seq(Calls) /\ Len(Tail(c.calls)) # 0
  BY <1>1, TailIs, NotEmpty
<1>5. NoCommand \in Commands /\ NoCommand.step = "start"
  BY NoCommandFits DEF CommandFits, NoCommand
<1>6. e \in Commands
  BY <1>3, <1>4, StartsAreCommands
<1>7. e.calls = Tail(c.calls) /\ e.made = made /\ e.step = "start"
  BY <1>3, <1>5 DEF Commands
<1>8. /\ Len(Tail(c.calls)) = Len(c.calls) - 1
      /\ \A j \in 1 .. Len(Tail(c.calls)) : Tail(c.calls)[j] = c.calls[j + 1]
  BY <1>1, TailIs
<1> QED
  BY <1>4, <1>6, <1>7, <1>8

LEMMA RestIsSame ==
    ASSUME NEW c \in Commands, Len(c.calls) # 0, Len(c.calls) # 1, NEW e, e = Rest(c)
    PROVE  /\ e \in Commands /\ e.calls = Tail(c.calls) /\ e.made = c.made /\ e.step = "start"
           /\ Len(e.calls) # 0 /\ Len(e.calls) = Len(c.calls) - 1
           /\ \A j \in 1 .. Len(e.calls) : e.calls[j] = c.calls[j + 1]
<1>1. PICK made : made = c.made
  OBVIOUS
<1>2. made \in Seq(Copies) /\ [c EXCEPT !.made = made] = c
  BY <1>1 DEF Commands
<1>3. e = Rest([c EXCEPT !.made = made])
  BY <1>2
<1> QED
  BY <1>1, <1>2, <1>3, RestIs

LEMMA MaterializesNext ==
    ASSUME NEW c \in Commands, Len(c.calls) # 0, Len(c.calls) # 1, NEW f,
           NEW k \in 0 .. 6 * Total + 2, MaterializesAt(c, f, k)
    PROVE  /\ k + 1 \in 0 .. 6 * Total + 2 /\ k # 6 * Total + 2
           /\ (k + 1) + Len(Tail(c.calls)) = 6 * Total + 3
           /\ \A j \in 1 .. Len(Tail(c.calls)) : Tail(c.calls)[j] = Materialize[(k + 1) + j]
<1>1. PICK s, t : s = c.calls /\ t = Tail(c.calls)
  OBVIOUS
<1>2. s \in Seq(Calls) /\ Len(s) # 0 /\ Len(s) # 1 /\ t = Tail(s)
  BY <1>1 DEF Commands
<1>3. k \in Nat /\ 6 * Total + 3 \in Nat
  BY TotalIs
<1>4. k + Len(s) = 6 * Total + 3 /\ \A j \in 1 .. Len(s) : s[j] = Materialize[k + j]
  BY <1>1 DEF MaterializesAt
<1>5. Len(Materialize) = 6 * Total + 3
  BY MaterializeIs
<1>6. /\ (k + 1) + Len(t) = Len(Materialize)
      /\ \A j \in 1 .. Len(t) : t[j] = Materialize[(k + 1) + j]
      /\ k + 1 \in 1 .. Len(Materialize) /\ k + 2 \in 1 .. Len(Materialize)
  <2>1. PICK w : w = Materialize
    OBVIOUS
  <2>2. k + Len(s) = Len(w) /\ \A j \in 1 .. Len(s) : s[j] = w[k + j]
    BY <1>4, <1>5, <2>1
  <2>3. s \in Seq(Calls) /\ Len(s) # 0 /\ Len(s) # 1 /\ k \in Nat
    BY <1>2, <1>3
  <2>4. \A j \in 1 .. Len(t) : t[j] = w[(k + 1) + j]
    BY <1>2, <2>2, <2>3, NextPlace
  <2>5. (k + 1) + Len(t) = Len(w)
    BY <1>2, <2>2, <2>3, NextPlace
  <2>6. k + 1 \in 1 .. Len(w) /\ k + 2 \in 1 .. Len(w)
    BY <1>2, <2>2, <2>3, NextPlace
  <2> QED
    BY <2>1, <2>4, <2>5, <2>6
<1>7. PICK n \in Nat : n = 6 * Total + 3
  BY <1>3
<1>8. k + 2 \in 1 .. n
  BY <1>5, <1>6, <1>7
<1>9. k + 1 \in 0 .. 6 * Total + 2 /\ k # 6 * Total + 2
  BY <1>3, <1>7, <1>8, TotalIs
<1> QED
  BY <1>1, <1>5, <1>6, <1>9

LEMMA MadeAreSlices ==
    ASSUME NEW c, NEW f, NEW k \in 0 .. 6 * Total + 2, MaterializesAt(c, f, k)
    PROVE  /\ Len(c.made) \in 0 .. Total /\ Len(c.made) = MaterializeHas[k]
           /\ \A n \in 1 .. Len(c.made) : n \in Slices
<1>1. PICK m : m = Len(c.made)
  OBVIOUS
<1>2. m = MaterializeHas[k]
  BY <1>1 DEF MaterializesAt
<1>3. m \in 0 .. Total
  <2>1. k \in 0 .. 6 * Total + 3
    BY TotalIs
  <2> QED
    BY <1>2, <2>1, MadeSoFar
<1>4. \A n \in 1 .. m : n \in Slices
  BY <1>3, TotalIs
<1> QED
  BY <1>1, <1>2, <1>3, <1>4

\* A call that neither makes nor saves a slice returns; what it wrote is the first task.
LEMMA MaterializesRest ==
    ASSUME NEW c \in Commands, Len(c.calls) # 0, Len(c.calls) # 1, NEW f, NEW g,
           NEW k \in 0 .. 6 * Total + 2, MaterializesAt(c, f, k),
           c.calls[1].do \notin {"create", "save"},
           \A x \in DOMAIN f : x.id # 1 => x \in DOMAIN g /\ g[x] = f[x],
           Numbers(f) \subseteq Numbers(g), k = 0 => 1 \in Numbers(f),
           c.calls[1].do = "update" /\ c.calls[1].change = "slices" =>
               \A x \in DOMAIN g : x.id = 1 => g[x].slices = Own(c)
    PROVE  k + 1 \in 0 .. 6 * Total + 2 /\ MaterializesAt(Rest(c), g, k + 1)
<1>1. PICK e : e = Rest(c)
  OBVIOUS
<1>2. e.calls = Tail(c.calls) /\ e.made = c.made /\ e.step = "start"
  BY <1>1, RestIsSame
<1>3. /\ k + 1 \in 0 .. 6 * Total + 2 /\ k # 6 * Total + 2
      /\ (k + 1) + Len(e.calls) = 6 * Total + 3
      /\ \A j \in 1 .. Len(e.calls) : e.calls[j] = Materialize[(k + 1) + j]
  <2>1. /\ k + 1 \in 0 .. 6 * Total + 2 /\ k # 6 * Total + 2
        /\ (k + 1) + Len(Tail(c.calls)) = 6 * Total + 3
        /\ \A j \in 1 .. Len(Tail(c.calls)) : Tail(c.calls)[j] = Materialize[(k + 1) + j]
    BY MaterializesNext
  <2>2. PICK s : s = e.calls /\ s = Tail(c.calls)
    BY <1>2
  <2>3. (k + 1) + Len(s) = 6 * Total + 3 /\ \A j \in 1 .. Len(s) : s[j] = Materialize[(k + 1) + j]
    BY <2>1, <2>2
  <2> QED
    BY <2>1, <2>2, <2>3
<1>4. PICK call : call = c.calls[1] /\ call = Materialize[k + 1]
  BY MaterializesCall
<1>5. Len(e.made) = MaterializeHas[k + 1]
  <2>1. MaterializeHas[k + 1] = MaterializeHas[k]
    BY <1>4, MaterializeCall
  <2> QED
    BY <1>2, <2>1 DEF MaterializesAt
<1>6. 1 \in Numbers(g)
  <2>1. k \in Nat
    BY TotalIs
  <2>2. k = 0 \/ k >= 1
    BY <2>1
  <2> QED
    BY <2>2 DEF MaterializesAt
<1>7. k + 1 >= 6 * Total + 2 => \A x \in DOMAIN g : x.id = 1 => g[x].slices = Own(e)
  <2> SUFFICES ASSUME k + 1 >= 6 * Total + 2
               PROVE  \A x \in DOMAIN g : x.id = 1 => g[x].slices = Own(e)
    OBVIOUS
  <2>1. k = 6 * Total + 1
    BY <1>3, TotalIs
  <2>2. call = OwnSlices
    BY <1>4, <2>1, MaterializeCall
  <2>3. call.do = "update" /\ call.change = "slices"
    BY <2>2 DEF OwnSlices, Update
  <2>4. Own(e) = Own(c)
    BY <1>2 DEF Own
  <2> QED
    BY <1>4, <2>3, <2>4
<1>8. ASSUME NEW n \in 1 .. Len(e.made) PROVE SliceFits(e, g, k + 1, n)
  <2>1. n \in 1 .. Len(c.made) /\ n \in Slices
    BY <1>2, MadeAreSlices
  <2>2. SliceFits(c, f, k, n)
    BY <2>1 DEF MaterializesAt
  <2>3. ~Saving(c, n) /\ ~Saving(e, n)
    BY <1>2 DEF Saving
  <2>4. Taken(e, k + 1, n) <=> Taken(c, k, n)
    <3>1. k # 5 * Total + n
      BY <1>4, <2>1, MaterializeCall
    <3>2. k \in Int /\ 5 * Total + n \in Int
      BY <2>1, TotalIs
    <3>3. k + 1 > 5 * Total + n <=> k > 5 * Total + n
      BY <3>1, <3>2
    <3> QED
      BY <1>2, <3>1, <3>3 DEF Taken
  <2>5. Earlier(e, n) = Earlier(c, n)
    BY <1>2 DEF Earlier
  <2> QED
    BY <1>2, <2>2, <2>3, <2>4, <2>5 DEF SliceFits
<1>9. MaterializesAt(e, g, k + 1)
  BY <1>2, <1>3, <1>5, <1>6, <1>7, <1>8 DEF MaterializesAt
<1> QED
  BY <1>1, <1>3, <1>9

\* A slice is saved: first its copy is taken, with its dependencies.
SecondCopy(c, call, t) ==
    LET copy == c.made[call.n].copy
    IN /\ t.version = copy.version + 1 /\ t.title = copy.title /\ t.status = copy.status /\ t.parent = copy.parent
       /\ t.deps = {c.made[m].path.id : m \in call.deps}
Taking(c, call, t, d) ==
    /\ d.calls = c.calls /\ d.step = "write" /\ d.path = c.made[call.n].path /\ d.copy = t
    /\ Len(d.made) = Len(c.made)
    /\ \A i \in 1 .. Len(c.made) : /\ d.made[i].path = c.made[i].path
                                   /\ i = call.n => d.made[i].copy = t
                                   /\ i # call.n => d.made[i].copy = c.made[i].copy

LEMMA MaterializesTake ==
    ASSUME NEW c \in Commands, Len(c.calls) # 0, NEW f, NEW k \in 0 .. 6 * Total + 2,
           MaterializesAt(c, f, k), NEW call, call = c.calls[1], call.do = "save", c.step = "start",
           NEW t, SecondCopy(c, call, t), NEW d, Taking(c, call, t, d)
    PROVE  MaterializesAt(d, f, k)
<1>10. /\ t.version = c.made[call.n].copy.version + 1
       /\ t.title = c.made[call.n].copy.title /\ t.status = c.made[call.n].copy.status /\ t.parent = c.made[call.n].copy.parent
  BY DEF SecondCopy
<1>11. t.deps = {c.made[m].path.id : m \in call.deps}
  BY DEF SecondCopy
<1>12. /\ d.calls = c.calls /\ d.step = "write" /\ d.path = c.made[call.n].path /\ d.copy = t
       /\ Len(d.made) = Len(c.made)
  BY DEF Taking
<1>13. \A i \in 1 .. Len(c.made) : /\ d.made[i].path = c.made[i].path
                                   /\ i = call.n => d.made[i].copy = t
                                   /\ i # call.n => d.made[i].copy = c.made[i].copy
  BY DEF Taking
<1>1. call = Materialize[k + 1]
  BY MaterializesCall
<1>2. Total \in Nat \ {0} /\ Slices = 1 .. Total /\ k \in Nat
  BY TotalIs
<1>3. PICK n \in Slices :
        /\ call.n = n
        /\ \/ k = 5 * n /\ call.deps = {}
           \/ k = 5 * Total + n /\ call.deps = {m \in Slices : m + 1 = n}
  BY <1>1, MaterializeCall
<1>4. PICK have : have = Len(c.made)
  OBVIOUS
<1>5. have \in 0 .. Total /\ \A i \in 1 .. have : i \in Slices
  BY <1>4, MadeAreSlices
<1>6. \A i \in 1 .. have : Earlier(d, i) = Earlier(c, i)
  <2> SUFFICES ASSUME NEW i \in 1 .. have PROVE Earlier(d, i) = Earlier(c, i)
    OBVIOUS
  <2>1. ASSUME NEW m \in {m \in Slices : m + 1 = i}
        PROVE  d.made[m].path.id = c.made[m].path.id
    <3>1. m \in 1 .. have
      BY <1>2, <1>5
    <3> QED
      BY <1>4, <1>13, <3>1
  <2>2. PICK S : S = {m \in Slices : m + 1 = i}
    OBVIOUS
  <2>3. \A m \in S : d.made[m].path.id = c.made[m].path.id
    BY <2>1, <2>2
  <2>4. {d.made[m].path.id : m \in S} = {c.made[m].path.id : m \in S}
    <3>1. ASSUME NEW m \in S PROVE d.made[m].path.id \in {c.made[j].path.id : j \in S}
      BY <2>3, Zenon
    <3>2. ASSUME NEW m \in S PROVE c.made[m].path.id \in {d.made[j].path.id : j \in S}
      BY <2>3, Zenon
    <3> QED
      BY <3>1, <3>2, Zenon
  <2> QED
    BY <2>2, <2>4 DEF Earlier
<1>7. ASSUME NEW i \in 1 .. have PROVE SliceFits(d, f, k, i)
  <2>1. SliceFits(c, f, k, i) /\ i \in Slices
    BY <1>4, <1>5 DEF MaterializesAt
  <2>2. ~Saving(c, i) /\ f[c.made[i].path] = c.made[i].copy
    BY <2>1 DEF SliceFits, Saving
  <2>3. \A j \in 1 .. have : d.made[j].path.id = d.made[i].path.id => j = i
    BY <1>4, <1>13, <2>1 DEF SliceFits
  <2>4. CASE i = n
    <3>1. d.made[i].path = c.made[i].path /\ d.made[i].copy = t /\ d.path = c.made[i].path
      BY <1>3, <1>4, <1>12, <1>13, <2>4
    <3>2. c.made[i].copy.deps = {}
      <4>1. ~(k > 5 * Total + n)
        BY <1>2, <1>3
      <4>2. ~Taken(c, k, i)
        BY <2>4, <4>1 DEF Taken
      <4> QED
        BY <2>1, <4>2 DEF SliceFits
    <3>3. t.deps = IF Taken(d, k, i) THEN Earlier(d, i) ELSE {}
      <4>1. CASE k = 5 * n /\ call.deps = {}
        <5>1. k < 5 * Total + n
          BY <1>2, <4>1
        <5>2. ~Taken(d, k, i)
          BY <1>2, <2>4, <5>1 DEF Taken
        <5> QED
          BY <1>11, <4>1, <5>2
      <4>2. CASE k = 5 * Total + n /\ call.deps = {m \in Slices : m + 1 = n}
        <5>1. Taken(d, k, i)
          BY <1>12, <2>4, <4>2 DEF Taken
        <5>2. t.deps = Earlier(c, i)
          BY <1>11, <2>4, <4>2 DEF Earlier
        <5> QED
          BY <1>6, <5>1, <5>2
      <4> QED
        BY <1>3, <4>1, <4>2
    <3>4. Saving(d, i)
      BY <1>1, <1>3, <1>12, <2>4 DEF Saving
    <3>5. Follows(f[c.made[i].path], t)
      BY <1>3, <1>10, <2>2, <2>4, <3>2 DEF Follows
    <3>6. /\ c.made[i].path \in DOMAIN f /\ t.title = SliceTitles[i]
          /\ c.made[i].path.folder = "inbox" /\ c.made[i].path.id # 1
          /\ t.status = "draft" /\ t.parent = 1
      BY <1>3, <1>10, <2>1, <2>4 DEF SliceFits
    <3> QED
      BY <1>4, <1>12, <2>3, <3>1, <3>3, <3>4, <3>5, <3>6 DEF SliceFits
  <2>5. CASE i # n
    <3>1. d.made[i].path = c.made[i].path /\ d.made[i].copy = c.made[i].copy
      BY <1>3, <1>4, <1>13, <2>5
    <3>2. ~Saving(d, i)
      BY <1>3, <1>12, <2>5 DEF Saving
    <3>3. Taken(d, k, i) <=> Taken(c, k, i)
      <4>1. k # 5 * Total + i
        BY <1>1, <1>3, <2>1, <2>5, MaterializeCall
      <4> QED
        BY <4>1 DEF Taken
    <3> QED
      BY <1>4, <1>6, <1>12, <2>1, <2>2, <2>3, <3>1, <3>2, <3>3 DEF SliceFits
  <2> QED
    BY <2>4, <2>5
<1>8. ~(k >= 6 * Total + 2)
  <2>1. k # 6 * Total + 2
    BY <1>1, MaterializeCall
  <2> QED
    BY <1>2, <2>1
<1>9. /\ k + Len(d.calls) = 6 * Total + 3
      /\ \A j \in 1 .. Len(d.calls) : d.calls[j] = Materialize[k + j]
      /\ Len(d.made) = MaterializeHas[k] /\ (k >= 1 => 1 \in Numbers(f))
      /\ d.calls[1].do # "update"
  <2>1. PICK s : s = c.calls /\ s = d.calls
    BY <1>12
  <2>2. k + Len(s) = 6 * Total + 3 /\ \A j \in 1 .. Len(s) : s[j] = Materialize[k + j]
    BY <2>1 DEF MaterializesAt
  <2>3. Len(c.made) = MaterializeHas[k] /\ (k >= 1 => 1 \in Numbers(f))
    BY DEF MaterializesAt
  <2> QED
    BY <1>12, <2>1, <2>2, <2>3
<1> QED
  BY <1>4, <1>7, <1>8, <1>9, <1>12 DEF MaterializesAt

\* What a save is about to write: the next version, where the slice is.
LEMMA SaveWrites ==
    ASSUME NEW c \in Commands, Len(c.calls) # 0, NEW f, NEW k \in 0 .. 6 * Total + 2,
           MaterializesAt(c, f, k), c.calls[1].do = "save", c.step = "write",
           CommandFits(c, Numbers(f))
    PROVE  \E n \in 1 .. Len(c.made) :
              /\ c.calls[1].n = n /\ c.path = c.made[n].path /\ c.copy = c.made[n].copy
              /\ c.path \in DOMAIN f /\ c.path.id # 1 /\ Follows(f[c.path], c.copy)
              /\ FolderOf[c.copy.status] = c.path.folder
<1>1. PICK n \in 1 .. Len(c.made) : n = c.calls[1].n
  BY FirstCall
<1>2. SliceFits(c, f, k, n) /\ Saving(c, n)
  BY <1>1 DEF MaterializesAt, Saving
<1>3. /\ c.path = c.made[n].path /\ c.copy = c.made[n].copy /\ c.path \in DOMAIN f
      /\ c.path.id # 1 /\ Follows(f[c.path], c.copy)
      /\ c.copy.status = "draft" /\ c.path.folder = "inbox"
  BY <1>2 DEF SliceFits
<1> QED
  BY <1>1, <1>3, StoreConstants

LEMMA MaterializesSaved ==
    ASSUME NEW c \in Commands, Len(c.calls) # 0, NEW f, NEW k \in 0 .. 6 * Total + 2,
           MaterializesAt(c, f, k), c.calls[1].do = "save", c.step = "write",
           CommandFits(c, Numbers(f)), NEW g, g = Stored(f, c.path, c.copy)
    PROVE  k + 1 \in 0 .. 6 * Total + 2 /\ Len(c.calls) # 1 /\ MaterializesAt(Rest(c), g, k + 1)
<1>1. PICK call : call = c.calls[1] /\ call = Materialize[k + 1]
  BY MaterializesCall
<1>2. Total \in Nat \ {0} /\ Slices = 1 .. Total /\ k \in Nat
  BY TotalIs
<1>3. Len(c.calls) # 1
  <2>1. k # 6 * Total + 2
    BY <1>1, MaterializeCall
  <2>2. PICK s : s = Len(c.calls) /\ s = 6 * Total + 3 - k
    BY MaterializesCall
  <2>3. s # 1
    BY <1>2, <2>1, <2>2
  <2> QED
    BY <2>2, <2>3
<1>4. PICK e : e = Rest(c)
  OBVIOUS
<1>5. e.calls = Tail(c.calls) /\ e.made = c.made /\ e.step = "start"
  BY <1>3, <1>4, RestIsSame
<1>6. /\ k + 1 \in 0 .. 6 * Total + 2
      /\ (k + 1) + Len(e.calls) = 6 * Total + 3
      /\ \A j \in 1 .. Len(e.calls) : e.calls[j] = Materialize[(k + 1) + j]
  <2>1. /\ k + 1 \in 0 .. 6 * Total + 2
        /\ (k + 1) + Len(Tail(c.calls)) = 6 * Total + 3
        /\ \A j \in 1 .. Len(Tail(c.calls)) : Tail(c.calls)[j] = Materialize[(k + 1) + j]
    BY <1>3, MaterializesNext
  <2>2. PICK s : s = e.calls /\ s = Tail(c.calls)
    BY <1>5
  <2>3. (k + 1) + Len(s) = 6 * Total + 3 /\ \A j \in 1 .. Len(s) : s[j] = Materialize[(k + 1) + j]
    BY <2>1, <2>2
  <2> QED
    BY <2>1, <2>2, <2>3
<1>7. PICK n \in 1 .. Len(c.made) :
        /\ call.n = n /\ c.path = c.made[n].path /\ c.copy = c.made[n].copy /\ c.path \in DOMAIN f
  BY <1>1, SaveWrites
<1>8. /\ DOMAIN g = DOMAIN f /\ g[c.path] = c.copy /\ Numbers(g) = Numbers(f)
      /\ \A x \in DOMAIN f : x # c.path => g[x] = f[x]
  BY <1>7 DEF Stored, Numbers
<1>9. Len(e.made) = MaterializeHas[k + 1]
  <2>1. MaterializeHas[k + 1] = MaterializeHas[k]
    BY <1>1, MaterializeCall
  <2> QED
    BY <1>5, <2>1 DEF MaterializesAt
<1>10. 1 \in Numbers(g)
  <2>1. k # 0
    <3>1. Find(ById(1)).do = "find"
      BY DEF Find
    <3> QED
      BY <1>1, <3>1, MaterializeCall
  <2>2. k >= 1
    BY <1>2, <2>1
  <2> QED
    BY <1>8, <2>2 DEF MaterializesAt
<1>11. ~(k + 1 >= 6 * Total + 2)
  <2>1. k # 6 * Total + 2 /\ k # 6 * Total + 1
    <3>1. OwnSlices.do = "update"
      BY DEF OwnSlices, Update
    <3> QED
      BY <1>1, <3>1, MaterializeCall
  <2> QED
    BY <1>2, <2>1
<1>12. ASSUME NEW i \in 1 .. Len(e.made) PROVE SliceFits(e, g, k + 1, i)
  <2>1. i \in 1 .. Len(c.made) /\ i \in Slices
    BY <1>5, MadeAreSlices
  <2>2. SliceFits(c, f, k, i) /\ SliceFits(c, f, k, n)
    BY <1>7, <2>1 DEF MaterializesAt
  <2>3. ~Saving(e, i)
    BY <1>5 DEF Saving
  <2>4. Taken(e, k + 1, i) <=> Taken(c, k, i)
    <3>1. k \in Int /\ 5 * Total + i \in Int
      BY <1>2, <2>1
    <3>2. k + 1 > 5 * Total + i <=> k > 5 * Total + i \/ k = 5 * Total + i
      BY <3>1
    <3> QED
      BY <1>5, <3>2 DEF Taken
  <2>5. Earlier(e, i) = Earlier(c, i)
    BY <1>5 DEF Earlier
  <2>6. g[c.made[i].path] = c.made[i].copy
    <3>1. CASE i = n
      BY <1>7, <1>8, <3>1
    <3>2. CASE i # n
      <4>1. c.made[i].path # c.path
        BY <1>7, <2>1, <2>2, <3>2 DEF SliceFits
      <4>2. ~Saving(c, i)
        BY <1>1, <1>7, <3>2 DEF Saving
      <4>3. f[c.made[i].path] = c.made[i].copy /\ c.made[i].path \in DOMAIN f
        BY <2>2, <4>2 DEF SliceFits
      <4> QED
        BY <1>8, <4>1, <4>3
    <3> QED
      BY <3>1, <3>2
  <2> QED
    BY <1>5, <1>8, <2>2, <2>3, <2>4, <2>5, <2>6 DEF SliceFits
<1>13. MaterializesAt(e, g, k + 1)
  BY <1>5, <1>6, <1>9, <1>10, <1>11, <1>12 DEF MaterializesAt
<1> QED
  BY <1>3, <1>4, <1>6, <1>13

\* A slice is made.
Making(c, call, path, made) ==
    /\ made \in Seq(Copies) /\ Len(made) = Len(c.made) + 1
    /\ made[Len(c.made) + 1] = [path |-> path, copy |-> NewTask(call.title, call.parent)]
    /\ \A i \in 1 .. Len(c.made) : made[i] = c.made[i]

LEMMA MaterializesMade ==
    ASSUME NEW c \in Commands, Len(c.calls) # 0, NEW f, NEW k \in 0 .. 6 * Total + 2,
           MaterializesAt(c, f, k), NEW call, call = c.calls[1], call.do = "create",
           NEW path \in Paths, path.folder = "inbox",
           path.id \notin Numbers(f), NEW g, g = Stored(f, path, NewTask(call.title, call.parent)),
           NEW made, Making(c, call, path, made), c.step = "file"
    PROVE  /\ k + 1 \in 0 .. 6 * Total + 2 /\ Len(c.calls) # 1
           /\ MaterializesAt(Rest([c EXCEPT !.made = made]), g, k + 1)
<1>0. /\ made \in Seq(Copies) /\ Len(made) = Len(c.made) + 1
      /\ made[Len(c.made) + 1] = [path |-> path, copy |-> NewTask(call.title, call.parent)]
      /\ \A i \in 1 .. Len(c.made) : made[i] = c.made[i]
  BY DEF Making
<1>1. call = Materialize[k + 1]
  BY MaterializesCall
<1>2. Total \in Nat \ {0} /\ Slices = 1 .. Total /\ k \in Nat
  BY TotalIs
<1>3. PICK n \in Slices : /\ k = 5 * n - 4 /\ call = Make(SliceTitles[n], 1)
                          /\ MaterializeHas[k] = n - 1 /\ MaterializeHas[k + 1] = n
  BY <1>1, MaterializeCall
<1>4. call.title = SliceTitles[n] /\ call.parent = 1
  BY <1>3 DEF Make
<1>5. PICK t : t = NewTask(call.title, call.parent)
  OBVIOUS
<1>6. t.title = SliceTitles[n] /\ t.status = "draft" /\ t.parent = 1 /\ t.deps = {}
  BY <1>4, <1>5 DEF NewTask
<1>7. Len(c.calls) # 1
  <2>1. PICK s : s = Len(c.calls) /\ s = 6 * Total + 3 - k
    BY MaterializesCall
  <2>2. s # 1
    BY <1>2, <1>3, <2>1
  <2> QED
    BY <2>1, <2>2
<1>8. PICK e : e = Rest([c EXCEPT !.made = made])
  OBVIOUS
<1>9. e.calls = Tail(c.calls) /\ e.made = made /\ e.step = "start"
  BY <1>0, <1>7, <1>8, RestIs
<1>10. /\ k + 1 \in 0 .. 6 * Total + 2
       /\ (k + 1) + Len(e.calls) = 6 * Total + 3
       /\ \A j \in 1 .. Len(e.calls) : e.calls[j] = Materialize[(k + 1) + j]
  <2>1. /\ k + 1 \in 0 .. 6 * Total + 2
        /\ (k + 1) + Len(Tail(c.calls)) = 6 * Total + 3
        /\ \A j \in 1 .. Len(Tail(c.calls)) : Tail(c.calls)[j] = Materialize[(k + 1) + j]
    BY <1>7, MaterializesNext
  <2>2. PICK s : s = e.calls /\ s = Tail(c.calls)
    BY <1>9
  <2>3. (k + 1) + Len(s) = 6 * Total + 3 /\ \A j \in 1 .. Len(s) : s[j] = Materialize[(k + 1) + j]
    BY <2>1, <2>2
  <2> QED
    BY <2>1, <2>2, <2>3
<1>11. Len(c.made) = n - 1 /\ Len(made) = n
  <2>1. PICK have : have = Len(c.made) /\ have = MaterializeHas[k]
    BY MadeAreSlices
  <2>2. have = n - 1 /\ have + 1 = n
    BY <1>2, <1>3, <2>1
  <2> QED
    BY <1>0, <2>1, <2>2
<1>12. /\ DOMAIN g = DOMAIN f \cup {path} /\ path \notin DOMAIN f /\ g[path] = t
       /\ \A x \in DOMAIN f : g[x] = f[x]
  BY <1>5 DEF Stored, Numbers
<1>13. 1 \in Numbers(f) /\ 1 \in Numbers(g) /\ path.id # 1
  <2>1. k >= 1
    BY <1>2, <1>3
  <2>2. 1 \in Numbers(f)
    BY <2>1 DEF MaterializesAt
  <2> QED
    BY <1>12, <2>2 DEF Numbers
<1>14. ~(k + 1 >= 6 * Total + 2)
  BY <1>2, <1>3
<1>15. ASSUME NEW i \in Slices PROVE ~Taken(c, k, i) /\ ~Taken(e, k + 1, i)
  <2>1. /\ ~(k > 5 * Total + i) /\ k # 5 * Total + i
        /\ ~(k + 1 > 5 * Total + i) /\ k + 1 # 5 * Total + i
    BY <1>2, <1>3
  <2> QED
    BY <2>1 DEF Taken
<1>16. made[n] = [path |-> path, copy |-> t]
  <2>1. PICK m : m = Len(c.made) + 1 /\ m = n
    BY <1>2, <1>11
  <2>2. made[m] = [path |-> path, copy |-> t]
    BY <1>0, <1>5, <2>1
  <2> QED
    BY <2>1, <2>2
<1>17. ASSUME NEW i \in 1 .. n, i # n
       PROVE  /\ made[i] = c.made[i] /\ i \in 1 .. Len(c.made) /\ i \in Slices
              /\ SliceFits(c, f, k, i)
  <2>1. i \in 1 .. n - 1 /\ i \in Slices
    BY <1>2, <1>17
  <2>2. i \in 1 .. Len(c.made)
    BY <1>11, <2>1
  <2> QED
    BY <1>0, <2>1, <2>2 DEF MaterializesAt
<1>18. \A i \in 1 .. n : ~Saving(c, i) /\ ~Saving(e, i)
  BY <1>9 DEF Saving
<1>19. ASSUME NEW i \in 1 .. n, i # n
       PROVE  /\ made[i].path \in DOMAIN f /\ f[made[i].path] = made[i].copy
              /\ made[i].path.id # path.id
  <2>1. made[i].path \in DOMAIN f /\ f[made[i].path] = made[i].copy
    BY <1>17, <1>18, <1>19 DEF SliceFits
  <2> QED
    BY <2>1 DEF Numbers
<1>20. ASSUME NEW i \in 1 .. n PROVE SliceFits(e, g, k + 1, i)
  <2>1. ASSUME NEW j \in 1 .. n, made[j].path.id = made[i].path.id PROVE j = i
    <3>1. CASE i = n
      BY <1>16, <1>19, <2>1, <3>1
    <3>2. CASE j = n
      BY <1>16, <1>19, <2>1, <3>2
    <3>3. CASE i # n /\ j # n
      <4>1. made[i] = c.made[i] /\ made[j] = c.made[j] /\ j \in 1 .. Len(c.made)
        BY <1>17, <3>3
      <4>2. SliceFits(c, f, k, i)
        BY <1>17, <3>3
      <4> QED
        BY <2>1, <4>1, <4>2 DEF SliceFits
    <3> QED
      BY <3>1, <3>2, <3>3
  <2>2. i \in Slices /\ ~Saving(e, i)
    BY <1>2, <1>18
  <2>3. ~Taken(e, k + 1, i)
    BY <1>15, <2>2
  <2>4. /\ made[i].path \in DOMAIN g /\ made[i].copy.title = SliceTitles[i]
        /\ made[i].path.folder = "inbox" /\ made[i].path.id # 1
        /\ made[i].copy.status = "draft" /\ made[i].copy.parent = 1 /\ made[i].copy.deps = {}
        /\ g[made[i].path] = made[i].copy
    <3>1. CASE i = n
      BY <1>4, <1>6, <1>12, <1>13, <1>16, <3>1
    <3>2. CASE i # n
      <4>1. SliceFits(c, f, k, i) /\ made[i] = c.made[i] /\ ~Taken(c, k, i)
        BY <1>15, <1>17, <2>2, <3>2
      <4>2. made[i].path \in DOMAIN f /\ f[made[i].path] = made[i].copy
        BY <1>19, <3>2
      <4> QED
        BY <1>12, <4>1, <4>2 DEF SliceFits
    <3> QED
      BY <3>1, <3>2
  <2> QED
    BY <1>9, <1>11, <2>1, <2>2, <2>3, <2>4 DEF SliceFits
<1>21. MaterializesAt(e, g, k + 1)
  BY <1>3, <1>9, <1>10, <1>11, <1>13, <1>14, <1>20 DEF MaterializesAt
<1> QED
  BY <1>7, <1>8, <1>10, <1>21

\* The numbers that the last update gives to the first task.
LEMMA OwnAre ==
    ASSUME NEW c \in Commands, Len(c.calls) # 0, NEW f, NEW k \in 0 .. 6 * Total + 2,
           MaterializesAt(c, f, k), c.calls[1].do = "update", c.calls[1].change = "slices"
    PROVE  {NumberIn(c, r) : r \in c.calls[1].with} = Own(c) /\ k = 6 * Total + 1
<1>1. PICK call : call = c.calls[1] /\ call = Materialize[k + 1]
  BY MaterializesCall
<1>2. call.with = {Made(n) : n \in Slices} /\ k = 6 * Total + 1
  <2>1. call.do = "update" /\ call.change = "slices"
    BY <1>1
  <2>2. IF call.change = "slices"
        THEN k = 6 * Total + 1 /\ call.with = {Made(n) : n \in Slices} ELSE k # 6 * Total + 1
    BY <1>1, <2>1, MaterializeCall
  <2> QED
    BY <2>1, <2>2
<1>3. \A n \in Slices : NumberIn(c, Made(n)) = c.made[n].path.id
  BY DEF NumberIn, Made
<1>4. {NumberIn(c, r) : r \in call.with} = Own(c)
  BY <1>2, <1>3 DEF Own
<1> QED
  BY <1>1, <1>2, <1>4

\* The first task is written, and has yet to be moved.
LEMMA MaterializesMoving ==
    ASSUME NEW c \in Commands, Len(c.calls) # 0, NEW f, OneEach(f),
           NEW k \in 0 .. 6 * Total + 2, MaterializesAt(c, f, k), c.calls[1].do = "update",
           c.step = "write", NEW d, d.calls = c.calls, d.made = c.made, d.step = "move",
           d.path = c.path, c.path \in DOMAIN f, NEW g, g = Stored(f, c.path, c.copy),
           c.calls[1].change = "slices" =>
               c.copy.slices = {NumberIn(c, r) : r \in c.calls[1].with}
    PROVE  MaterializesAt(d, g, k)
<1>1. PICK call : call = c.calls[1] /\ call = Materialize[k + 1]
  BY MaterializesCall
<1>2. c.path.id = 1
  BY DEF MaterializesAt
<1>3. /\ DOMAIN g = DOMAIN f /\ g[c.path] = c.copy /\ Numbers(g) = Numbers(f)
      /\ \A x \in DOMAIN f : x # c.path => g[x] = f[x]
  BY DEF Stored, Numbers
<1>4. \A x \in DOMAIN g : x.id = 1 => x = c.path
  BY <1>2, <1>3 DEF OneEach
<1>5. ~(k >= 6 * Total + 2)
  <2>1. k # 6 * Total + 2
    BY <1>1, MaterializeCall
  <2> QED
    BY <2>1, TotalIs
<1>6. k = 6 * Total + 1 => \A x \in DOMAIN g : x.id = 1 => g[x].slices = Own(d)
  <2> SUFFICES ASSUME k = 6 * Total + 1, NEW x \in DOMAIN g, x.id = 1
               PROVE  g[x].slices = Own(d)
    OBVIOUS
  <2>1. call = OwnSlices
    BY <1>1, MaterializeCall
  <2>2. c.calls[1].change = "slices"
    BY <1>1, <2>1 DEF OwnSlices, Update
  <2>3. c.copy.slices = Own(c)
    BY <2>2, OwnAre
  <2>4. Own(d) = Own(c)
    BY DEF Own
  <2> QED
    BY <1>3, <1>4, <2>3, <2>4
<1>7. ASSUME NEW n \in 1 .. Len(c.made) PROVE SliceFits(d, g, k, n)
  <2>1. SliceFits(c, f, k, n) /\ n \in Slices
    BY MadeAreSlices DEF MaterializesAt
  <2>2. ~Saving(c, n) /\ ~Saving(d, n)
    BY DEF Saving
  <2>3. Taken(d, k, n) <=> Taken(c, k, n)
    <3>1. k # 5 * Total + n
      BY <1>1, <2>1, MaterializeCall
    <3> QED
      BY <3>1 DEF Taken
  <2>4. Earlier(d, n) = Earlier(c, n)
    BY DEF Earlier
  <2>5. g[c.made[n].path] = f[c.made[n].path] /\ c.made[n].path \in DOMAIN g
    BY <1>2, <1>3, <2>1 DEF SliceFits
  <2> QED
    BY <2>1, <2>2, <2>3, <2>4, <2>5 DEF SliceFits
<1>8. /\ k + Len(d.calls) = 6 * Total + 3
      /\ \A j \in 1 .. Len(d.calls) : d.calls[j] = Materialize[k + j]
      /\ Len(d.made) = MaterializeHas[k] /\ (k >= 1 => 1 \in Numbers(g))
  BY <1>3 DEF MaterializesAt
<1> QED
  BY <1>2, <1>5, <1>6, <1>7, <1>8 DEF MaterializesAt

\* When everything is done, the slices stand.
LEMMA SealedStands ==
    ASSUME NEW c \in Commands, Len(c.calls) # 0, NEW f, NEW k \in 0 .. 6 * Total + 2,
           MaterializesAt(c, f, k), c.calls[1].do = "seal", c.step = "start"
    PROVE  Stand(f) /\ Len(c.calls) = 1
<1>1. Total \in Nat \ {0} /\ Slices = 1 .. Total
  BY TotalIs
<1>2. k = 6 * Total + 2
  BY MaterializesCall, MaterializeCall
<1>3. Len(c.made) = Total
  BY <1>2, MaterializeHave DEF MaterializesAt
<1>4. Len(c.calls) = 1
  <2>1. PICK s : s = Len(c.calls) /\ s = 6 * Total + 3 - k
    BY MaterializesCall
  <2>2. s = 1
    BY <1>1, <1>2, <2>1
  <2> QED
    BY <2>1, <2>2
<1>5. PICK x \in DOMAIN f : x.id = 1 /\ f[x].slices = Own(c)
  <2>1. k >= 1 /\ k >= 6 * Total + 2
    BY <1>1, <1>2
  <2>2. 1 \in Numbers(f) /\ \A x \in DOMAIN f : x.id = 1 => f[x].slices = Own(c)
    BY <2>1 DEF MaterializesAt
  <2> QED
    BY <2>2 DEF Numbers
<1> DEFINE child == [n \in Slices |-> c.made[n].path.id]
<1>6. child \in [Slices -> f[x].slices]
  BY <1>5 DEF Own
<1>7. ASSUME NEW n \in Slices
      PROVE  \E y \in DOMAIN f : /\ y.id = child[n] /\ f[y].title = SliceTitles[n] /\ f[y].parent = 1
                                 /\ n > 1 => child[n - 1] \in f[y].deps
  <2>1. SliceFits(c, f, k, n) /\ ~Saving(c, n)
    BY <1>1, <1>3 DEF MaterializesAt, Saving
  <2>2. Taken(c, k, n)
    BY <1>1, <1>2 DEF Taken
  <2>3. /\ c.made[n].path \in DOMAIN f /\ f[c.made[n].path].title = SliceTitles[n]
        /\ f[c.made[n].path].parent = 1 /\ f[c.made[n].path].deps = Earlier(c, n)
    BY <2>1, <2>2 DEF SliceFits
  <2>4. n > 1 => child[n - 1] \in Earlier(c, n)
    <3> SUFFICES ASSUME n > 1 PROVE child[n - 1] \in Earlier(c, n)
      OBVIOUS
    <3>1. n - 1 \in Slices /\ (n - 1) + 1 = n
      BY <1>1
    <3> QED
      BY <3>1 DEF Earlier
  <2> QED
    BY <2>3, <2>4
<1> HIDE DEF child
<1>8. Stand(f)
  BY <1>5, <1>6, <1>7 DEF Stand
<1> QED
  BY <1>4, <1>8

-----------------------------------------------------------------------------
(* Every step of the running command keeps its turn, and is one of the table. *)
LEMMA TurnNext ==
    ASSUME StoreFits, SerialFits, serial, NEW p \in Processes, p = Chosen, NEW c,
           Keep(p, c), serial' = serial, OneEach(file'), \A x \in DOMAIN file' : x.id < counter',
           plan' = "materialized" => Stand(file'), TurnFits(c, file', counter', plan')
    PROVE  SerialFits'
<1>1. command \in [Processes -> Commands]
  BY DEF StoreFits
<1>2. command'[p] = c /\ \A q \in Processes : q # p => command'[q] = command[q]
  BY <1>1 DEF Keep
<1>3. \A q \in Processes : q # p => command[q] = NoCommand
  BY DEF SerialFits
<1>4. TurnFits(NoCommand, file', counter', plan')
  BY DEF TurnFits, NoCommand
<1>5. \A q \in Processes : /\ command'[q] # NoCommand => q = Chosen
                           /\ TurnFits(command'[q], file', counter', plan')
  BY <1>2, <1>3, <1>4
<1> QED
  BY <1>5 DEF SerialFits

\* A step that leaves the files.
LEMMA TurnKept ==
    ASSUME StoreFits, SerialFits, serial, NEW p \in Processes, p = Chosen, NEW c, Keep(p, c),
           UNCHANGED <<counter, file, plan, serial>>, TurnFits(c, file, counter, plan)
    PROVE  SerialFits' /\ StepsTable
<1>1. /\ OneEach(file) /\ \A x \in DOMAIN file : x.id < counter
      /\ plan = "materialized" => Stand(file)
  BY DEF SerialFits
<1>2. SerialFits'
  BY <1>1, TurnNext
<1> QED
  BY <1>2, SameTable

\* What is known of the process that takes a step.
LEMMA TurnIs ==
    ASSUME StoreFits, SerialFits, serial, NEW p \in Processes, Len(command[p].calls) # 0
    PROVE  /\ p = Chosen /\ StepFits(command[p], file, counter)
           /\ Plain(command[p]) \/ (plan = "draft" /\ Materializes(command[p], file))
           /\ OneEach(file) /\ \A x \in DOMAIN file : x.id < counter
           /\ DOMAIN file \subseteq Paths /\ StoredIds = Numbers(file)
           /\ plan = "materialized" => Stand(file)
<1>1. command[p] # NoCommand
  BY DEF NoCommand
<1> QED
  BY <1>1 DEF SerialFits, TurnFits, StoreFits, FilesFit, StoredIds, Numbers

LEMMA PlainRest ==
    ASSUME NEW c \in Commands, Len(c.calls) # 0, Len(c.calls) # 1, Plain(c),
           NEW e, e.calls = Tail(c.calls)
    PROVE  Plain(e)
<1>1. PICK s, t : s = c.calls /\ t = Tail(s)
  OBVIOUS
<1>2. s \in Seq(Calls) /\ Len(s) # 0
  BY <1>1 DEF Commands
<1>3. Len(t) = Len(s) - 1 /\ \A j \in 1 .. Len(t) : t[j] = s[j + 1]
  BY <1>1, <1>2, TailIs
<1>4. PICK n \in Nat : n = Len(s)
  BY <1>2, LenProperties
<1>5. \A j \in 1 .. Len(t) : j + 1 \in 1 .. n
  BY <1>3, <1>4
<1>6. \A j \in 1 .. n : PlainCall(s[j])
  BY <1>1, <1>4 DEF Plain
<1>7. \A j \in 1 .. Len(t) : PlainCall(t[j])
  BY <1>3, <1>5, <1>6
<1> QED
  BY <1>1, <1>7 DEF Plain

LEMMA StartFits ==
    ASSUME NEW c, c.step = "start", NEW f, NEW next
    PROVE  StepFits(c, f, next)
BY DEF StepFits

LEMMA NoTurn == \A f, next, state : TurnFits(NoCommand, f, next, state)
BY DEF TurnFits, NoCommand

\* A call returns that neither makes nor saves a task of the command.
LEMMA TurnRest ==
    ASSUME NEW c \in Commands, Len(c.calls) # 0, NEW f, NEW g, NEW next, NEW state,
           Plain(c) \/ (state = "draft" /\ Materializes(c, f)),
           c.calls[1].do \notin {"create", "save"},
           Materializes(c, f) =>
               /\ \A x \in DOMAIN f : x.id # 1 => x \in DOMAIN g /\ g[x] = f[x]
               /\ Numbers(f) \subseteq Numbers(g)
               /\ c.calls[1] = Find(ById(1)) => 1 \in Numbers(f)
               /\ c.calls[1].do = "update" /\ c.calls[1].change = "slices" =>
                      \A x \in DOMAIN g : x.id = 1 => g[x].slices = Own(c)
    PROVE  TurnFits(Rest(c), g, next, state)
<1>1. CASE Len(c.calls) = 1
  <2>1. Rest(c) = NoCommand
    BY <1>1 DEF Rest
  <2> QED
    BY <2>1, NoTurn
<1>2. CASE Len(c.calls) # 1
  <2>1. PICK e : e = Rest(c)
    OBVIOUS
  <2>2. e.step = "start" /\ e.calls = Tail(c.calls)
    BY <1>2, <2>1, RestIsSame
  <2>3. StepFits(e, g, next)
    BY <2>2, StartFits
  <2>4. CASE Plain(c)
    <3>1. Plain(e)
      BY <1>2, <2>2, <2>4, PlainRest
    <3> QED
      BY <2>1, <2>3, <3>1 DEF TurnFits
  <2>5. CASE state = "draft" /\ Materializes(c, f)
    <3>1. PICK k \in 0 .. 6 * Total + 2 : MaterializesAt(c, f, k)
      BY <2>5 DEF Materializes
    <3>2. k = 0 => c.calls[1] = Find(ById(1))
      BY <3>1, MaterializesCall, MaterializeCall
    <3>3. k + 1 \in 0 .. 6 * Total + 2 /\ MaterializesAt(Rest(c), g, k + 1)
      BY <1>2, <2>5, <3>1, <3>2, MaterializesRest
    <3>4. Materializes(e, g)
      BY <2>1, <3>3 DEF Materializes
    <3> QED
      BY <2>1, <2>3, <2>5, <3>4 DEF TurnFits
  <2> QED
    BY <2>4, <2>5
<1> QED
  BY <1>1, <1>2

\* A step within a call, that leaves the files.
LEMMA TurnWithin ==
    ASSUME NEW c \in Commands, Len(c.calls) # 0, NEW f, NEW next, NEW state,
           Plain(c) \/ (state = "draft" /\ Materializes(c, f)),
           NEW d, d.calls = c.calls, d.made = c.made, StepFits(d, f, next),
           c.step \notin {"write", "move"}, d.step # "move",
           d.step = "write" => c.calls[1].do = "update",
           Materializes(c, f) /\ c.calls[1].do = "update" /\ d.step \in {"load", "write"} =>
               d.path.id = 1
    PROVE  TurnFits(d, f, next, state)
<1>1. CASE Plain(c)
  BY <1>1 DEF Plain, TurnFits
<1>2. CASE state = "draft" /\ Materializes(c, f)
  <2>1. PICK k \in 0 .. 6 * Total + 2 : MaterializesAt(c, f, k)
    BY <1>2 DEF Materializes
  <2>2. MaterializesAt(d, f, k)
    BY <1>2, <2>1, MaterializesWithin
  <2> QED
    BY <1>2, <2>2 DEF TurnFits, Materializes
<1> QED
  BY <1>1, <1>2


\* A command begins.
LEMMA TurnBegins ==
    ASSUME StoreFits, SerialFits, serial, NEW p \in Processes, NEW calls \in Seq(Calls),
           BeginCalls(p, calls), Len(calls) # 0,
           \/ \A j \in 1 .. Len(calls) : PlainCall(calls[j])
           \/ plan = "draft" /\ calls = Materialize
    PROVE  SerialFits' /\ StepsTable
<1>1. PICK c : c = [NoCommand EXCEPT !.calls = calls]
  OBVIOUS
<1>2. p = Chosen /\ Keep(p, c) /\ UNCHANGED <<counter, file, plan, serial>>
  BY <1>1 DEF BeginCalls, Chosen
<1>3. c \in Commands /\ c.calls = calls /\ Len(c.made) = 0 /\ c.step = "start"
  <2>1. NoCommand \in Commands /\ NoCommand.step = "start" /\ Len(NoCommand.made) = 0
    BY NoCommandFits DEF CommandFits, NoCommand
  <2>2. c \in Commands
    BY <1>1, <2>1 DEF Commands
  <2>3. c.calls = calls /\ c.made = NoCommand.made /\ c.step = NoCommand.step
    BY <1>1, <2>1 DEF Commands
  <2> QED
    BY <2>1, <2>2, <2>3
<1>4. StepFits(c, file, counter)
  BY <1>3, StartFits
<1>5. CASE \A j \in 1 .. Len(calls) : PlainCall(calls[j])
  <2>1. TurnFits(c, file, counter, plan)
    BY <1>3, <1>4, <1>5 DEF TurnFits, Plain
  <2> QED
    BY <1>2, <2>1, TurnKept
<1>6. CASE plan = "draft" /\ calls = Materialize
  <2>1. Total \in Nat \ {0}
    BY TotalIs
  <2>2. ~(0 >= 6 * Total + 2) /\ 0 # 6 * Total + 1 /\ 0 \in 0 .. 6 * Total + 2
    BY <2>1
  <2>3. 0 + Len(c.calls) = 6 * Total + 3 /\ \A j \in 1 .. Len(c.calls) : c.calls[j] = Materialize[0 + j]
    <3>1. PICK w : w = Materialize
      OBVIOUS
    <3>2. Len(w) = 6 * Total + 3 /\ c.calls = w
      BY <1>3, <1>6, <3>1, MaterializeIs
    <3>3. \A j \in 1 .. Len(w) : 0 + j = j
      BY <2>1, <3>2
    <3>4. 0 + Len(w) = 6 * Total + 3
      BY <2>1, <3>2
    <3> QED
      BY <3>1, <3>2, <3>3, <3>4
  <2>4. Len(c.made) = MaterializeHas[0] /\ \A n \in 1 .. Len(c.made) : SliceFits(c, file, 0, n)
    BY <1>3, MaterializeHave
  <2>5. MaterializesAt(c, file, 0)
    BY <1>3, <2>2, <2>3, <2>4 DEF MaterializesAt
  <2>6. TurnFits(c, file, counter, plan)
    BY <1>4, <1>6, <2>2, <2>5 DEF TurnFits, Materializes
  <2> QED
    BY <1>2, <2>6, TurnKept
<1> QED
  BY <1>5, <1>6

LEMMA BeginTurns ==
    ASSUME StoreFits, SerialFits, serial, NEW p \in Processes, BeginCommand(p)
    PROVE  SerialFits' /\ StepsTable
<1>1. Given \subseteq Ids /\ \A r \in References : r \in Refs
  BY CallsAre DEF References, Given, Refs
<1>2. \A title \in Titles, id \in {0} \cup Ids :
          Make(title, id) \in Calls /\ PlainCall(Make(title, id))
  BY CallsAre DEF Calls, Make, PlainCall
<1>3. \A r \in Refs :
          /\ Find(r) \in Calls /\ PlainCall(Find(r))
          /\ Update(r, "log", {}) \in Calls /\ PlainCall(Update(r, "log", {}))
          /\ \A s \in Statuses : Update(r, "status", s) \in Calls /\ PlainCall(Update(r, "status", s))
          /\ \A d \in Direct : Update(r, "depend", {d}) \in Calls /\ PlainCall(Update(r, "depend", {d}))
  BY CallsAre DEF Calls, Find, Update, PlainCall
<1>4. ASSUME NEW a \in Calls, PlainCall(a), BeginCalls(p, <<a>>) PROVE SerialFits' /\ StepsTable
  <2>1. PICK s : s = <<a>>
    OBVIOUS
  <2>2. s \in Seq(Calls) /\ Len(s) = 1 /\ s[1] = a
    BY <2>1
  <2>3. Len(s) # 0 /\ \A j \in 1 .. Len(s) : PlainCall(s[j])
    BY <1>4, <2>2
  <2> QED
    BY <1>4, <2>1, <2>2, <2>3, TurnBegins
<1>5. ASSUME NEW id \in Given, NEW dep \in Given, BeginCalls(p, addDependency(ById(id), ById(dep)))
      PROVE  SerialFits' /\ StepsTable
  <2>1. PICK a, b : a = Find(ById(dep)) /\ b = Update(ById(id), "depend", {ById(dep)})
    OBVIOUS
  <2>2. a \in Calls /\ b \in Calls /\ PlainCall(a) /\ PlainCall(b)
    BY <1>1, <1>3, <2>1, CallsAre DEF Refs
  <2>3. PICK s : s = addDependency(ById(id), ById(dep))
    OBVIOUS
  <2>4. s = <<a, b>>
    BY <2>1, <2>3 DEF addDependency
  <2>5. s \in Seq(Calls) /\ Len(s) = 2 /\ s[1] = a /\ s[2] = b
    BY <2>2, <2>4
  <2>6. Len(s) # 0 /\ \A j \in 1 .. Len(s) : PlainCall(s[j])
    <3>1. \A j \in 1 .. 2 : j = 1 \/ j = 2
      OBVIOUS
    <3> QED
      BY <2>2, <2>5, <3>1
  <2> QED
    BY <1>5, <2>3, <2>5, <2>6, TurnBegins
<1>6. ASSUME NEW id \in Given, NEW title \in Titles, BeginCalls(p, Subtask(ById(id), id, title, 1))
      PROVE  SerialFits' /\ StepsTable
  <2>1. PICK a, b, c, d : /\ a = Make(title, id) /\ b = Find(Made(1))
                          /\ c = Update(ById(id), "depend", {Made(1)})
                          /\ d = Update(ById(id), "log", {})
    OBVIOUS
  <2>2. ById(id) \in Refs /\ Made(1) \in Refs /\ Made(1) \in Direct
    BY <1>1, CallsAre DEF Refs
  <2>3. a \in Calls /\ b \in Calls /\ c \in Calls /\ d \in Calls
    BY <1>1, <1>2, <1>3, <2>1, <2>2
  <2>4. PlainCall(a) /\ PlainCall(b) /\ PlainCall(c) /\ PlainCall(d)
    BY <1>1, <1>2, <1>3, <2>1, <2>2
  <2>5. PICK s : s = <<a, b, c, d>>
    OBVIOUS
  <2>6. s = Subtask(ById(id), id, title, 1)
    BY <2>1, <2>5 DEF Subtask, addDependency
  <2>7. s \in Seq(Calls) /\ Len(s) = 4 /\ s[1] = a /\ s[2] = b /\ s[3] = c /\ s[4] = d
    BY <2>3, <2>5
  <2>8. Len(s) # 0 /\ \A j \in 1 .. Len(s) : PlainCall(s[j])
    <3>1. \A j \in 1 .. 4 : j = 1 \/ j = 2 \/ j = 3 \/ j = 4
      OBVIOUS
    <3> QED
      BY <2>4, <2>7, <3>1
  <2> QED
    BY <1>6, <2>6, <2>7, <2>8, TurnBegins
<1>7. ASSUME plan = "draft", BeginCalls(p, Materialize) PROVE SerialFits' /\ StepsTable
  <2>1. PICK s : s = Materialize
    OBVIOUS
  <2>2. s \in Seq(Calls) /\ Len(s) = 6 * Total + 3
    BY <2>1, MaterializeIs
  <2>3. Len(s) # 0
    BY <2>2, TotalIs
  <2> QED
    BY <1>7, <2>1, <2>2, <2>3, TurnBegins
<1>8. \A title \in Titles : BeginCalls(p, <<Make(title, 0)>>) => SerialFits' /\ StepsTable
  BY <1>2, <1>4
<1>9. \A r \in References : /\ BeginCalls(p, <<Update(r, "log", {})>>) => SerialFits' /\ StepsTable
                            /\ \A s \in Statuses : BeginCalls(p, <<Update(r, "status", s)>>) =>
                                                       SerialFits' /\ StepsTable
  BY <1>1, <1>3, <1>4
<1> QED
  BY <1>5, <1>6, <1>7, <1>8, <1>9 DEF BeginCommand

\* A command that ends where it is.
LEMMA ThrowTurns ==
    ASSUME StoreFits, SerialFits, serial, NEW p \in Processes, p = Chosen, Throw(p),
           UNCHANGED <<counter, file, plan, serial>>
    PROVE  SerialFits' /\ StepsTable
BY NoTurn, TurnKept DEF Throw


LEMMA ReadCounterTurns ==
    ASSUME StoreFits, SerialFits, serial, NEW p \in Processes, ReadCounter(p)
    PROVE  SerialFits' /\ StepsTable
<1> DEFINE c == command[p]
           d == [c EXCEPT !.step = "count", !.number = counter]
<1>1. /\ c.calls # <<>> /\ c.step = "start" /\ Keep(p, d)
      /\ UNCHANGED <<counter, file, plan, serial>>
  BY DEF ReadCounter, AtStep
<1>2. c \in Commands /\ Len(c.calls) # 0
  BY <1>1, InCall
<1>3. Plain(c) \/ (plan = "draft" /\ Materializes(c, file))
  BY <1>2, TurnIs
<1>4. d.calls = c.calls /\ d.made = c.made /\ d.step = "count" /\ d.number = counter
  BY <1>2 DEF Commands
<1> HIDE DEF c, d
<1>5. StepFits(d, file, counter)
  BY <1>4 DEF StepFits
<1>6. TurnFits(d, file, counter, plan)
  BY <1>1, <1>2, <1>3, <1>4, <1>5, TurnWithin
<1>7. p = Chosen
  BY <1>2, TurnIs DEF c
<1> QED
  BY <1>1, <1>6, <1>7, TurnKept

LEMMA WriteCounterTurns ==
    ASSUME StoreFits, SerialFits, serial, NEW p \in Processes, WriteCounter(p)
    PROVE  SerialFits' /\ StepsTable
<1> DEFINE c == command[p]
           d == [c EXCEPT !.step = "file"]
<1>1. /\ c.calls # <<>> /\ c.step = "count" /\ Keep(p, d) /\ counter' = c.number + 1
      /\ UNCHANGED <<file, plan, serial>>
  BY DEF WriteCounter, AtStep
<1>2. c \in Commands /\ Len(c.calls) # 0
  BY <1>1, InCall
<1>3. /\ p = Chosen /\ StepFits(c, file, counter)
      /\ Plain(c) \/ (plan = "draft" /\ Materializes(c, file))
      /\ OneEach(file) /\ \A x \in DOMAIN file : x.id < counter
      /\ plan = "materialized" => Stand(file)
  BY <1>2, TurnIs
<1>4. /\ d.calls = c.calls /\ d.made = c.made /\ d.step = "file" /\ d.number = c.number
  BY <1>2 DEF Commands
<1>5. c.number = counter /\ counter' = counter + 1
  BY <1>1, <1>3 DEF StepFits
<1>6. counter \in Nat /\ \A x \in DOMAIN file : x.id \in Nat
  BY TaskStoreAssumption DEF StoreFits, FilesFit, Paths, Ids
<1> HIDE DEF c, d
<1>7. \A x \in DOMAIN file' : x.id < counter'
  BY <1>1, <1>3, <1>5, <1>6
<1>8. StepFits(d, file', counter')
  BY <1>1, <1>3, <1>4, <1>5, <1>6 DEF StepFits
<1>9. TurnFits(d, file', counter', plan')
  BY <1>1, <1>2, <1>3, <1>4, <1>8, TurnWithin
<1>10. SerialFits'
  BY <1>1, <1>3, <1>7, <1>9, TurnNext
<1> QED
  BY <1>1, <1>10, SameTable

LEMMA CreateFileTurns ==
    ASSUME StoreFits, SerialFits, serial, NEW p \in Processes, CreateFile(p)
    PROVE  /\ SerialFits' /\ StepsTable
           /\ \A b \in born' : b \in born \/ (b[1] \in DOMAIN AsTable' /\ AsTable'[b[1]].title = b[2])
<1> DEFINE c == command[p]
           path == [id |-> c.number, slug |-> Slug[Call(p).title], folder |-> "inbox"]
           t == NewTask(Call(p).title, Call(p).parent)
           m == [path |-> path, copy |-> t]
           made == Append(c.made, m)
<1>1. /\ c.calls # <<>> /\ c.step = "file" /\ Call(p).do = "create"
      /\ Keep(p, Rest([c EXCEPT !.made = made]))
      /\ file' = Stored(file, path, t) /\ UNCHANGED <<counter, plan, serial>>
      /\ born' = born \cup {<<path.id, t.title>>}
  BY DEF CreateFile, AtStep
<1>2. /\ c \in Commands /\ CommandFits(c, StoredIds) /\ Len(c.calls) # 0
      /\ Call(p) = c.calls[1] /\ Call(p) \in Calls
  BY <1>1, InCall
<1>3. c.number \in Ids /\ Call(p).title \in Titles /\ Call(p).parent \in {0} \cup Ids
  BY <1>1, <1>2 DEF CommandFits, Calls, Creates, Finds, Updates, Saves, Seal
<1>4. path \in Paths /\ path.id = c.number /\ path.slug = Slug[t.title] /\ path.folder = "inbox"
  <2>1. t.title = Call(p).title
    BY DEF NewTask
  <2>2. Slug[Call(p).title] \in Slugs
    BY <1>3, TaskStoreAssumption
  <2>3. path \in Paths
    BY <1>3, <2>2 DEF Paths
  <2>4. path.id = c.number /\ path.folder = "inbox" /\ path.slug = Slug[Call(p).title]
    OBVIOUS
  <2>5. Slug[Call(p).title] = Slug[t.title]
    BY <2>1
  <2> QED
    BY <2>3, <2>4, <2>5
<1>5. t \in Tasks /\ t.status = "draft" /\ t.version = 0 /\ t.title = Call(p).title
  BY <1>3, StoreConstants DEF NewTask, Tasks
<1>6. c.made \in Seq(Copies)
  BY <1>2 DEF Commands
<1>7. /\ p = Chosen /\ StepFits(c, file, counter)
      /\ Plain(c) \/ (plan = "draft" /\ Materializes(c, file))
      /\ OneEach(file) /\ \A x \in DOMAIN file : x.id < counter
      /\ DOMAIN file \subseteq Paths
      /\ plan = "materialized" => Stand(file)
  BY <1>2, TurnIs
<1>8. c.number < counter /\ \A x \in DOMAIN file : x.id < c.number
  BY <1>1, <1>7 DEF StepFits
<1>9. path.id \notin Numbers(file)
  <2>1. \A x \in DOMAIN file : x.id # c.number
    BY <1>3, <1>7, <1>8 DEF Paths, Ids
  <2> QED
    BY <1>4, <2>1 DEF Numbers
<1>10. PICK call : call = c.calls[1]
  OBVIOUS
<1>11. call = Call(p) /\ call.do = "create" /\ t = NewTask(call.title, call.parent)
  BY <1>1, <1>2, <1>4, <1>10
<1> HIDE DEF path, t
<1>12. /\ OneEach(file') /\ Kept(file, file') /\ \A x \in DOMAIN file' : x \in DOMAIN file \/ x = path
       /\ TableOf(file') = WithRow(TableOf(file), path.id, t)
  <2>1. OneEach(file') /\ Kept(file, file') /\ \A x \in DOMAIN file' : x \in DOMAIN file \/ x = path
    BY <1>1, <1>4, <1>7, <1>9, NewRow
  <2>2. TableOf(file') = WithRow(TableOf(file), path.id, t)
    BY <1>1, <1>4, <1>7, <1>9, NewRowInTable
  <2> QED
    BY <2>1, <2>2
<1>13. m \in Copies
  BY <1>4, <1>5 DEF Copies
<1>14. /\ made \in Seq(Copies) /\ Len(made) = Len(c.made) + 1
       /\ made[Len(c.made) + 1] = m /\ \A i \in 1 .. Len(c.made) : made[i] = c.made[i]
  <2>1. PICK s, n : s = c.made /\ n = m
    OBVIOUS
  <2>2. s \in Seq(Copies) /\ n \in Copies
    BY <1>6, <1>13, <2>1
  <2> HIDE DEF m
  <2>3. /\ Append(s, n) \in Seq(Copies) /\ Len(Append(s, n)) = Len(s) + 1
        /\ Append(s, n)[Len(s) + 1] = n /\ \A i \in 1 .. Len(s) : Append(s, n)[i] = s[i]
    BY <2>2, AppendProperties
  <2> QED
    BY <2>1, <2>3
<1>15. m = [path |-> path, copy |-> t]
  OBVIOUS
<1> HIDE DEF c, m, made
<1>16. PICK e : e = Rest([c EXCEPT !.made = made])
  OBVIOUS
<1>17. TurnFits(e, file', counter', plan')
  <2>1. CASE Plain(c) /\ Len(c.calls) = 1
    <3>1. [c EXCEPT !.made = made].calls = c.calls
      BY <1>2 DEF Commands
    <3>2. e = NoCommand
      BY <1>16, <2>1, <3>1 DEF Rest
    <3> QED
      BY <3>2, NoTurn
  <2>2. CASE Plain(c) /\ Len(c.calls) # 1
    <3>1. e.calls = Tail(c.calls) /\ e.step = "start"
      BY <1>2, <1>14, <1>16, <2>2, RestIs
    <3>2. Plain(e) /\ StepFits(e, file', counter')
      BY <1>2, <2>2, <3>1, PlainRest, StartFits
    <3> QED
      BY <3>2 DEF TurnFits
  <2>3. CASE plan = "draft" /\ Materializes(c, file)
    <3>1. PICK k \in 0 .. 6 * Total + 2 : MaterializesAt(c, file, k)
      BY <2>3 DEF Materializes
    <3>2. file' = Stored(file, path, NewTask(call.title, call.parent))
      BY <1>1, <1>11
    <3>3. Making(c, call, path, made)
      BY <1>11, <1>14, <1>15 DEF Making
    <3>4. /\ k + 1 \in 0 .. 6 * Total + 2 /\ Len(c.calls) # 1
          /\ MaterializesAt(Rest([c EXCEPT !.made = made]), file', k + 1)
      BY <1>1, <1>2, <1>4, <1>9, <1>10, <1>11, <3>1, <3>2, <3>3, MaterializesMade
    <3>5. Materializes(e, file')
      BY <1>16, <3>4 DEF Materializes
    <3>6. e.step = "start"
      BY <1>2, <1>14, <1>16, <3>4, RestIs
    <3> QED
      BY <1>1, <2>3, <3>5, <3>6, StartFits DEF TurnFits
  <2> QED
    BY <1>7, <2>1, <2>2, <2>3
<1>18. \A x \in DOMAIN file' : x.id < counter'
  BY <1>1, <1>4, <1>7, <1>8, <1>12
<1>19. plan' = "materialized" => Stand(file')
  BY <1>1, <1>7, <1>12, StandsOn
<1>20. SerialFits'
  BY <1>1, <1>7, <1>12, <1>16, <1>17, <1>18, <1>19, TurnNext
<1>21. path.id \notin DOMAIN TableOf(file)
  BY <1>9 DEF TableOf
<1>22. StepsTable
  BY <1>5, <1>12, <1>21, RowAdded
<1>23. path.id \in DOMAIN AsTable' /\ AsTable'[path.id] = t
  BY <1>12, AsTableIs DEF WithRow
<1> QED
  BY <1>1, <1>20, <1>22, <1>23

LEMMA ListTurns ==
    ASSUME StoreFits, SerialFits, serial, NEW p \in Processes, List(p)
    PROVE  SerialFits' /\ StepsTable
<1> DEFINE c == command[p]
           upto == IF serial THEN Len(Listing) ELSE c.listed + 1
           now == {Listing[i] : i \in c.listed + 1 .. upto}
           found == {x \in DOMAIN file : x.folder \in now}
           d == [c EXCEPT !.listed = upto, !.seen = @ \cup found]
<1>1. /\ c.calls # <<>> /\ c.step = "start" /\ Keep(p, d)
      /\ UNCHANGED <<counter, file, plan, serial>>
  BY DEF List, AtStep
<1>2. c \in Commands /\ Len(c.calls) # 0
  BY <1>1, InCall
<1>3. p = Chosen /\ (Plain(c) \/ (plan = "draft" /\ Materializes(c, file)))
  BY <1>2, TurnIs
<1> HIDE DEF upto, found
<1>4. d.calls = c.calls /\ d.made = c.made /\ d.step = "start"
  BY <1>1, <1>2 DEF Commands
<1> HIDE DEF c, d
<1>5. StepFits(d, file, counter)
  BY <1>4, StartFits
<1>6. TurnFits(d, file, counter, plan)
  BY <1>1, <1>2, <1>3, <1>4, <1>5, TurnWithin
<1> QED
  BY <1>1, <1>3, <1>6, TurnKept

LEMMA PlainFirst ==
    ASSUME NEW c \in Commands, Len(c.calls) # 0, Plain(c)
    PROVE  PlainCall(c.calls[1])
<1>1. PICK n \in Nat : n = Len(c.calls)
  BY LenProperties DEF Commands
<1>2. 1 \in 1 .. n
  BY <1>1
<1> QED
  BY <1>1, <1>2 DEF Plain

\* Materialize updates the first task only.
LEMMA MaterializesFirst ==
    ASSUME NEW c \in Commands, Len(c.calls) # 0, NEW f, Materializes(c, f),
           c.calls[1].do = "update"
    PROVE  /\ c.calls[1].ref = ById(1)
           /\ c.step \in {"load", "write", "move"} => c.path.id = 1
<1>1. PICK k \in 0 .. 6 * Total + 2 : MaterializesAt(c, f, k)
  BY DEF Materializes
<1>2. c.calls[1] = Materialize[k + 1]
  BY <1>1, MaterializesCall
<1>3. c.calls[1].ref = ById(1)
  BY <1>2, MaterializeCall
<1> QED
  BY <1>1, <1>3 DEF MaterializesAt

LEMMA MatchTurns ==
    ASSUME StoreFits, SerialFits, serial, NEW p \in Processes, Match(p)
    PROVE  SerialFits' /\ StepsTable
<1> DEFINE c == command[p]
<1>1. /\ c.calls # <<>> /\ Call(p).do \in {"find", "update"} /\ c.step = "start"
      /\ UNCHANGED <<counter, file, plan, serial>>
  BY DEF Match, AtStep
<1>2. /\ c \in Commands /\ Len(c.calls) # 0 /\ Call(p) = c.calls[1]
      /\ \A r : Number(p, r) = NumberIn(c, r)
  BY <1>1, InCall
<1>3. p = Chosen /\ (Plain(c) \/ (plan = "draft" /\ Materializes(c, file)))
  BY <1>2, TurnIs
<1>4. /\ ById(1).by = "id" /\ \A r : r = ById(1) => NumberIn(c, r) = 1
      /\ Find(ById(1)).ref = ById(1)
  BY DEF ById, NumberIn, Find
<1>5. ASSUME c.seen \subseteq DOMAIN file, NEW x \in Matches(p, Call(p).ref),
             IF Call(p).do = "find" THEN Return(p)
             ELSE Keep(p, [c EXCEPT !.step = "load", !.path = x])
      PROVE  SerialFits' /\ StepsTable
  <2>1. x \in DOMAIN file /\ (Call(p).ref.by # "title" => x.id = NumberIn(c, Call(p).ref))
    BY <1>2, <1>5, MatchesAre
  <2>2. Call(p).ref = ById(1) => x.id = 1
    BY <1>4, <2>1
  <2>3. CASE Call(p).do = "find"
    <3>1. c.calls[1].do = "find" /\ (c.calls[1] = Find(ById(1)) => 1 \in Numbers(file))
      BY <1>2, <1>4, <2>1, <2>2, <2>3 DEF Numbers
    <3>2. Keep(p, Rest(c))
      BY <1>5, <2>3 DEF Return
    <3> HIDE DEF c
    <3>3. TurnFits(Rest(c), file, counter, plan)
      BY <1>2, <1>3, <3>1, TurnRest
    <3> QED
      BY <1>1, <1>3, <3>2, <3>3, TurnKept
  <2>4. CASE Call(p).do # "find"
    <3> DEFINE d == [c EXCEPT !.step = "load", !.path = x]
    <3>1. d.calls = c.calls /\ d.made = c.made /\ d.step = "load" /\ d.path = x
      BY <1>2 DEF Commands
    <3>2. Keep(p, d) /\ c.calls[1].do = "update"
      BY <1>1, <1>2, <1>5, <2>4
    <3>3. Materializes(c, file) => c.calls[1].ref = ById(1)
      BY <1>2, <3>2, MaterializesFirst
    <3>4. Materializes(c, file) => x.id = 1
      BY <1>2, <2>2, <3>3
    <3> HIDE DEF c, d
    <3>5. StepFits(d, file, counter)
      BY <3>1 DEF StepFits
    <3>6. TurnFits(d, file, counter, plan)
      BY <1>1, <1>2, <1>3, <3>1, <3>4, <3>5, TurnWithin
    <3> QED
      BY <1>1, <1>3, <3>2, <3>6, TurnKept
  <2> QED
    BY <2>3, <2>4
<1>6. CASE Throw(p)
  BY <1>1, <1>3, <1>6, ThrowTurns
<1> QED
  BY <1>5, <1>6 DEF Match

\* What an update makes of a task is its next version.
LEMMA ChangedFollows ==
    ASSUME StoreFits, NEW p \in Processes, command[p].calls # <<>>, Call(p).do = "update",
           NEW x \in DOMAIN file
    PROVE  /\ Follows(file[x], Changed(p, file[x]))
           /\ Changed(p, file[x]).slices = IF Call(p).change = "slices"
                                           THEN {NumberIn(command[p], r) : r \in Call(p).with}
                                           ELSE file[x].slices
<1>1. file[x] \in Tasks /\ \A r : Number(p, r) = NumberIn(command[p], r)
  BY InCall DEF StoreFits, FilesFit
<1>2. PICK ids : ids = IF Call(p).change \in {"depend", "slices"}
                       THEN {Number(p, ref) : ref \in Call(p).with} ELSE {}
  OBVIOUS
<1>3. Call(p).change = "slices" => ids = {NumberIn(command[p], r) : r \in Call(p).with}
  BY <1>1, <1>2
<1>4. PICK t, u : t = file[x] /\ u = Changed(p, file[x])
  OBVIOUS
<1>5. PICK version, deps, slices, status :
        /\ version = t.version + 1
        /\ deps = IF Call(p).change = "depend" THEN t.deps \cup ids ELSE t.deps
        /\ slices = IF Call(p).change = "slices" THEN ids ELSE t.slices
        /\ status = IF Call(p).change = "status" THEN Call(p).with ELSE t.status
  OBVIOUS
<1>6. u = [t EXCEPT !.version = version, !.deps = deps, !.slices = slices, !.status = status]
  BY <1>2, <1>4, <1>5 DEF Changed
<1>7. t \in Tasks
  BY <1>1, <1>4
<1>8. u.version = version /\ u.deps = deps /\ u.slices = slices /\ u.title = t.title /\ u.parent = t.parent
  BY <1>6, <1>7 DEF Tasks
<1>9. Follows(t, u)
  BY <1>5, <1>8 DEF Follows
<1>10. u.slices = IF Call(p).change = "slices"
                  THEN {NumberIn(command[p], r) : r \in Call(p).with} ELSE t.slices
  BY <1>3, <1>5, <1>8
<1> QED
  BY <1>4, <1>9, <1>10

LEMMA LoadTurns ==
    ASSUME StoreFits, SerialFits, serial, NEW p \in Processes, Load(p)
    PROVE  SerialFits' /\ StepsTable
<1> DEFINE c == command[p]
           t == Changed(p, file[c.path])
           d == [c EXCEPT !.step = "write", !.copy = t]
<1>1. /\ c.calls # <<>> /\ Call(p).do = "update" /\ c.step = "load"
      /\ UNCHANGED <<counter, file, plan, serial>>
      /\ IF c.path \in DOMAIN file THEN Keep(p, d) ELSE Throw(p)
  BY DEF Load, AtStep
<1>2. c \in Commands /\ Len(c.calls) # 0 /\ Call(p) = c.calls[1]
  BY <1>1, InCall
<1>3. p = Chosen /\ (Plain(c) \/ (plan = "draft" /\ Materializes(c, file)))
  BY <1>2, TurnIs
<1>4. CASE c.path \in DOMAIN file
  <2>1. /\ Follows(file[c.path], t)
        /\ t.slices = IF Call(p).change = "slices"
                      THEN {NumberIn(c, r) : r \in Call(p).with} ELSE file[c.path].slices
    BY <1>1, <1>4, ChangedFollows
  <2> HIDE DEF t
  <2>2. /\ d.calls = c.calls /\ d.made = c.made /\ d.step = "write" /\ d.path = c.path /\ d.copy = t
    BY <1>2 DEF Commands
  <2>3. \A r : NumberIn(d, r) = NumberIn(c, r)
    BY <2>2 DEF NumberIn
  <2>4. c.calls[1].do = "update" /\ Keep(p, d)
    BY <1>1, <1>2, <1>4
  <2>5. Materializes(c, file) => d.path.id = 1
    BY <1>1, <1>2, <2>2, <2>4, MaterializesFirst
  <2> HIDE DEF c, d
  <2>6. StepFits(d, file, counter)
    <3>1. t.slices = IF c.calls[1].change = "slices"
                     THEN {NumberIn(d, r) : r \in c.calls[1].with} ELSE file[c.path].slices
      BY <1>2, <2>1, <2>3
    <3> QED
      BY <1>4, <2>1, <2>2, <3>1 DEF StepFits
  <2>7. TurnFits(d, file, counter, plan)
    BY <1>1, <1>2, <1>3, <2>2, <2>4, <2>5, <2>6, TurnWithin
  <2> QED
    BY <1>1, <1>3, <2>4, <2>7, TurnKept
<1>5. CASE c.path \notin DOMAIN file
  BY <1>1, <1>3, <1>5, ThrowTurns
<1> QED
  BY <1>4, <1>5


\* Only Materialize saves what it made.
LEMMA SavesAreMaterializes ==
    ASSUME NEW c \in Commands, Len(c.calls) # 0, c.calls[1].do \in {"save", "seal"}, NEW f, NEW state,
           Plain(c) \/ (state = "draft" /\ Materializes(c, f))
    PROVE  state = "draft" /\ \E k \in 0 .. 6 * Total + 2 : MaterializesAt(c, f, k)
<1>1. ~Plain(c)
  BY PlainFirst DEF PlainCall
<1> QED
  BY <1>1 DEF Materializes

LEMMA TakeCopyTurns ==
    ASSUME StoreFits, SerialFits, serial, NEW p \in Processes, TakeCopy(p)
    PROVE  SerialFits' /\ StepsTable
<1> DEFINE c == command[p]
           n == Call(p).n
           own == c.made[n]
           ids == {c.made[m].path.id : m \in Call(p).deps}
           t == [own.copy EXCEPT !.version = @ + 1, !.deps = ids]
           d == [c EXCEPT !.step = "write", !.path = own.path, !.copy = t, !.made[n].copy = t]
<1>1. /\ c.calls # <<>> /\ Call(p).do = "save" /\ c.step = "start" /\ Keep(p, d)
      /\ UNCHANGED <<counter, file, plan, serial>>
  BY DEF TakeCopy, AtStep
<1>2. /\ c \in Commands /\ CommandFits(c, StoredIds) /\ Len(c.calls) # 0
      /\ Call(p) = c.calls[1]
  BY <1>1, InCall
<1>3. n \in 1 .. Len(c.made)
  BY <1>1, <1>2, FirstCall
<1>4. c.made \in Seq(Copies)
  BY <1>2 DEF Commands
<1>5. own \in Copies /\ own.copy \in Tasks /\ own.path \in Paths
  <2>1. own \in Copies
    BY <1>3, <1>4
  <2> QED
    BY <2>1 DEF Copies
<1> HIDE DEF ids
<1>6. /\ t.version = own.copy.version + 1 /\ t.deps = ids
      /\ t.title = own.copy.title /\ t.status = own.copy.status /\ t.parent = own.copy.parent
  <2>1. PICK copy, version : copy = own.copy /\ version = own.copy.version + 1
    OBVIOUS
  <2>2. copy \in Tasks /\ t = [copy EXCEPT !.version = version, !.deps = ids]
    BY <1>5, <2>1
  <2> HIDE DEF t
  <2>3. t.version = version /\ t.deps = ids /\ t.title = copy.title /\ t.status = copy.status /\ t.parent = copy.parent
    BY <2>2 DEF Tasks
  <2> QED
    BY <2>1, <2>3
<1> HIDE DEF t
<1>7. PICK made : made = [c.made EXCEPT ![n].copy = t]
  OBVIOUS
<1>8. /\ Len(made) = Len(c.made)
      /\ \A i \in 1 .. Len(c.made) : /\ made[i].path = c.made[i].path
                                     /\ made[i].copy = IF i = n THEN t ELSE c.made[i].copy
  <2>1. PICK old, m : old = c.made /\ m = [own EXCEPT !.copy = t]
    OBVIOUS
  <2>2. m.path = own.path /\ m.copy = t
    BY <1>5, <2>1 DEF Copies
  <2>3. made = [old EXCEPT ![n] = m]
    BY <1>7, <2>1
  <2>4. old \in Seq(Copies) /\ n \in 1 .. Len(old)
    BY <1>3, <1>4, <2>1
  <2>5. Len(made) = Len(old) /\ \A i \in 1 .. Len(old) : made[i] = IF i = n THEN m ELSE old[i]
    BY <2>3, <2>4
  <2>6. own = old[n]
    BY <2>1
  <2> HIDE DEF own
  <2>7. \A i \in 1 .. Len(old) : /\ made[i].path = old[i].path
                                 /\ made[i].copy = IF i = n THEN t ELSE old[i].copy
    BY <2>2, <2>5, <2>6
  <2> QED
    BY <2>1, <2>5, <2>7
<1>9. d = [c EXCEPT !.step = "write", !.path = own.path, !.copy = t, !.made = made]
  BY <1>7
<1>10. d.calls = c.calls /\ d.made = made /\ d.step = "write" /\ d.copy = t /\ d.path = own.path
  <2>1. PICK path : path = own.path
    OBVIOUS
  <2>2. d = [c EXCEPT !.step = "write", !.path = path, !.copy = t, !.made = made]
    BY <1>9, <2>1
  <2> HIDE DEF c, d, own
  <2> QED
    BY <1>2, <2>1, <2>2 DEF Commands
<1>11. PICK call : call = c.calls[1]
  OBVIOUS
<1>12. /\ call = Call(p) /\ call.do = "save" /\ n = call.n /\ own = c.made[call.n]
       /\ ids = {c.made[m].path.id : m \in call.deps}
  BY <1>1, <1>2, <1>11 DEF ids
<1>13. p = Chosen /\ (Plain(c) \/ (plan = "draft" /\ Materializes(c, file)))
  BY <1>2, TurnIs
<1>14. plan = "draft" /\ \E k \in 0 .. 6 * Total + 2 : MaterializesAt(c, file, k)
  BY <1>2, <1>11, <1>12, <1>13, SavesAreMaterializes
<1>15. PICK k \in 0 .. 6 * Total + 2 : MaterializesAt(c, file, k)
  BY <1>14
<1> HIDE DEF c, d, own, n
<1>16. SecondCopy(c, call, t)
  BY <1>6, <1>12 DEF SecondCopy
<1>17. Taking(c, call, t, d)
  BY <1>8, <1>10, <1>12 DEF Taking
<1>18. MaterializesAt(d, file, k)
  BY <1>1, <1>2, <1>11, <1>12, <1>15, <1>16, <1>17, MaterializesTake
<1>19. StepFits(d, file, counter)
  BY <1>10, <1>11, <1>12 DEF StepFits
<1>20. TurnFits(d, file, counter, plan)
  BY <1>14, <1>18, <1>19 DEF TurnFits, Materializes
<1> QED
  BY <1>1, <1>13, <1>20, TurnKept

LEMMA SealPlanTurns ==
    ASSUME StoreFits, SerialFits, serial, NEW p \in Processes, SealPlan(p)
    PROVE  SerialFits' /\ StepsTable
<1> DEFINE c == command[p]
<1>1. /\ c.calls # <<>> /\ c.step = "start" /\ Call(p).do = "seal" /\ Keep(p, Rest(c))
      /\ plan' = "materialized" /\ UNCHANGED <<counter, file, serial>>
  BY DEF SealPlan, AtStep, Return
<1>2. c \in Commands /\ Len(c.calls) # 0 /\ Call(p) = c.calls[1]
  BY <1>1, InCall
<1>3. /\ p = Chosen /\ (Plain(c) \/ (plan = "draft" /\ Materializes(c, file)))
      /\ OneEach(file) /\ \A x \in DOMAIN file : x.id < counter
  BY <1>2, TurnIs
<1>4. PICK k \in 0 .. 6 * Total + 2 : MaterializesAt(c, file, k)
  BY <1>1, <1>2, <1>3, SavesAreMaterializes
<1>5. Stand(file) /\ Len(c.calls) = 1
  BY <1>1, <1>2, <1>4, SealedStands
<1>6. Rest(c) = NoCommand
  BY <1>5 DEF Rest
<1>7. SerialFits'
  BY <1>1, <1>3, <1>5, <1>6, NoTurn, TurnNext
<1> QED
  BY <1>1, <1>7, SameTable


\* An update writes the next version of the task that it loaded.
LEMMA UpdateWrites ==
    ASSUME StoreFits, SerialFits, serial, NEW p \in Processes, Len(command[p].calls) # 0,
           NEW c, c = command[p], c.step = "write", c.calls[1].do = "update",
           file' = Stored(file, c.path, c.copy), UNCHANGED <<counter, plan, serial>>,
           NEW d, d.calls = c.calls, d.made = c.made, d.step = "move", d.path = c.path,
           Keep(p, Rest(c)) \/ Keep(p, d)
    PROVE  SerialFits' /\ StepsTable
<1>1. c \in Commands /\ Len(c.calls) # 0
  BY DEF StoreFits
<1>2. /\ p = Chosen /\ StepFits(c, file, counter)
      /\ Plain(c) \/ (plan = "draft" /\ Materializes(c, file))
      /\ OneEach(file) /\ \A x \in DOMAIN file : x.id < counter
      /\ DOMAIN file \subseteq Paths
      /\ plan = "materialized" => Stand(file)
  BY TurnIs
<1>3. /\ c.path \in DOMAIN file /\ Follows(file[c.path], c.copy)
      /\ c.copy.slices = IF c.calls[1].change = "slices"
                         THEN {NumberIn(c, r) : r \in c.calls[1].with} ELSE file[c.path].slices
  BY <1>2 DEF StepFits
<1>4. PICK f, g, path, t : f = file /\ g = file' /\ path = c.path /\ t = c.copy
  OBVIOUS
<1>5. /\ DOMAIN f \subseteq Paths /\ OneEach(f) /\ path \in DOMAIN f /\ g = Stored(f, path, t)
      /\ Follows(f[path], t)
  BY <1>2, <1>3, <1>4
<1>6. /\ OneEach(g) /\ DOMAIN g = DOMAIN f /\ g[path] = t
      /\ \A x \in DOMAIN f : x # path => g[x] = f[x]
      /\ t.slices = f[path].slices => Kept(f, g)
      /\ TableOf(g) = [TableOf(f) EXCEPT ![path.id] = t]
      /\ path.id \in DOMAIN TableOf(f) /\ TableOf(f)[path.id] = f[path]
  BY <1>5, NextRow
<1>7. StepsTable
  <2>1. PICK id : id = path.id
    OBVIOUS
  <2>2. id \in DOMAIN TableOf(file) /\ Follows(TableOf(file)[id], t)
    BY <1>4, <1>5, <1>6, <2>1
  <2>3. TableOf(file') = [TableOf(file) EXCEPT ![id] = t]
    BY <1>4, <1>6, <2>1
  <2> QED
    BY <2>2, <2>3, RowChanged
<1>8. OneEach(file') /\ \A x \in DOMAIN file' : x.id < counter'
  BY <1>2, <1>4, <1>6
<1>9. plan' = "materialized" => Stand(file')
  <2> SUFFICES ASSUME plan = "materialized" PROVE Stand(g)
    BY <1>4
  <2>1. Plain(c)
    BY <1>2
  <2>2. c.calls[1].change # "slices"
    BY <1>1, <2>1, PlainFirst DEF PlainCall
  <2>3. Stand(f) /\ Kept(f, g)
    BY <1>2, <1>3, <1>4, <1>6, <2>2
  <2> QED
    BY <2>3, StandsOn
<1>10. Materializes(c, f) =>
          /\ \A x \in DOMAIN f : x.id # 1 => x \in DOMAIN g /\ g[x] = f[x]
          /\ Numbers(f) \subseteq Numbers(g)
          /\ c.calls[1].change = "slices" => \A x \in DOMAIN g : x.id = 1 => g[x].slices = Own(c)
  <2> SUFFICES ASSUME Materializes(c, f)
               PROVE  /\ \A x \in DOMAIN f : x.id # 1 => x \in DOMAIN g /\ g[x] = f[x]
                      /\ Numbers(f) \subseteq Numbers(g)
                      /\ c.calls[1].change = "slices" =>
                            \A x \in DOMAIN g : x.id = 1 => g[x].slices = Own(c)
    OBVIOUS
  <2>1. path.id = 1
    BY <1>1, <1>4, MaterializesFirst
  <2>2. Numbers(f) \subseteq Numbers(g)
    BY <1>6 DEF Numbers
  <2>3. \A x \in DOMAIN g : x.id = 1 => x = path
    BY <1>5, <1>6, <2>1 DEF OneEach
  <2>4. c.calls[1].change = "slices" => t.slices = Own(c)
    <3>1. PICK k \in 0 .. 6 * Total + 2 : MaterializesAt(c, f, k)
      BY DEF Materializes
    <3>2. ASSUME c.calls[1].change = "slices" PROVE {NumberIn(c, r) : r \in c.calls[1].with} = Own(c)
      BY <1>1, <3>1, <3>2, OwnAre
    <3> QED
      BY <1>3, <1>4, <3>2
  <2> QED
    BY <1>6, <2>1, <2>2, <2>3, <2>4
<1>11. TurnFits(Rest(c), g, counter, plan)
  <2>1. c.calls[1].do \notin {"create", "save"} /\ c.calls[1] # Find(ById(1))
    BY DEF Find
  <2>2. Plain(c) \/ (plan = "draft" /\ Materializes(c, f))
    BY <1>2, <1>4
  <2> QED
    BY <1>1, <1>10, <2>1, <2>2, TurnRest
<1>12. TurnFits(d, g, counter, plan)
  <2>1. StepFits(d, g, counter)
    BY DEF StepFits
  <2>2. CASE Plain(c)
    BY <2>1, <2>2 DEF TurnFits, Plain
  <2>3. CASE plan = "draft" /\ Materializes(c, f)
    <3>1. PICK k \in 0 .. 6 * Total + 2 : MaterializesAt(c, f, k)
      BY <2>3 DEF Materializes
    <3>2. /\ c.path \in DOMAIN f /\ g = Stored(f, c.path, c.copy)
          /\ c.calls[1].change = "slices" => c.copy.slices = {NumberIn(c, r) : r \in c.calls[1].with}
      BY <1>3, <1>4
    <3>3. MaterializesAt(d, g, k)
      BY <1>1, <1>5, <3>1, <3>2, MaterializesMoving
    <3> QED
      BY <2>1, <2>3, <3>3 DEF TurnFits, Materializes
  <2> QED
    BY <1>2, <1>4, <2>2, <2>3
<1>13. PICK e : Keep(p, e) /\ TurnFits(e, file', counter', plan')
  BY <1>4, <1>11, <1>12
<1>14. SerialFits'
  BY <1>2, <1>8, <1>9, <1>13, TurnNext
<1> QED
  BY <1>7, <1>14

\* So does a save, which never moves the file.
LEMMA SaveTurns ==
    ASSUME StoreFits, SerialFits, serial, NEW p \in Processes, Len(command[p].calls) # 0,
           NEW c, c = command[p], c.step = "write", c.calls[1].do = "save",
           file' = Stored(file, c.path, c.copy), UNCHANGED <<counter, plan, serial>>,
           FolderOf[c.copy.status] = c.path.folder => Keep(p, Rest(c))
    PROVE  SerialFits' /\ StepsTable
<1>1. c \in Commands /\ Len(c.calls) # 0 /\ CommandFits(c, StoredIds)
  BY DEF StoreFits
<1>2. /\ p = Chosen /\ (Plain(c) \/ (plan = "draft" /\ Materializes(c, file)))
      /\ OneEach(file) /\ \A x \in DOMAIN file : x.id < counter
      /\ DOMAIN file \subseteq Paths /\ StoredIds = Numbers(file)
  BY TurnIs
<1>3. plan = "draft" /\ \E k \in 0 .. 6 * Total + 2 : MaterializesAt(c, file, k)
  BY <1>1, <1>2, SavesAreMaterializes
<1>4. PICK k \in 0 .. 6 * Total + 2 : MaterializesAt(c, file, k)
  BY <1>3
<1>5. PICK f, g, path, t : f = file /\ g = file' /\ path = c.path /\ t = c.copy
  OBVIOUS
<1>6. /\ MaterializesAt(c, f, k) /\ CommandFits(c, Numbers(f)) /\ g = Stored(f, c.path, c.copy)
      /\ DOMAIN f \subseteq Paths /\ OneEach(f)
  BY <1>1, <1>2, <1>4, <1>5
<1>7. /\ path \in DOMAIN f /\ Follows(f[path], t) /\ FolderOf[c.copy.status] = c.path.folder
  BY <1>1, <1>5, <1>6, SaveWrites
<1>8. k + 1 \in 0 .. 6 * Total + 2 /\ Len(c.calls) # 1 /\ MaterializesAt(Rest(c), g, k + 1)
  BY <1>1, <1>6, MaterializesSaved
<1>9. PICK e : e = Rest(c)
  OBVIOUS
<1>10. e.step = "start"
  BY <1>1, <1>8, <1>9, RestIsSame
<1>11. TurnFits(e, g, counter, plan)
  BY <1>3, <1>8, <1>9, <1>10, StartFits DEF TurnFits, Materializes
<1>12. g = Stored(f, path, t)
  BY <1>5, <1>6
<1>13. /\ OneEach(g) /\ DOMAIN g = DOMAIN f
       /\ TableOf(g) = [TableOf(f) EXCEPT ![path.id] = t]
       /\ path.id \in DOMAIN TableOf(f) /\ TableOf(f)[path.id] = f[path]
  BY <1>6, <1>7, <1>12, NextRow
<1>14. StepsTable
  <2>1. PICK id : id = path.id
    OBVIOUS
  <2>2. id \in DOMAIN TableOf(file) /\ Follows(TableOf(file)[id], t)
    BY <1>5, <1>7, <1>13, <2>1
  <2>3. TableOf(file') = [TableOf(file) EXCEPT ![id] = t]
    BY <1>5, <1>13, <2>1
  <2> QED
    BY <2>2, <2>3, RowChanged
<1>15. OneEach(file') /\ \A x \in DOMAIN file' : x.id < counter'
  BY <1>2, <1>5, <1>13
<1>16. Keep(p, e) /\ TurnFits(e, file', counter', plan') /\ plan' # "materialized"
  BY <1>3, <1>5, <1>7, <1>9, <1>11
<1>17. SerialFits'
  BY <1>2, <1>15, <1>16, TurnNext
<1> QED
  BY <1>14, <1>17

LEMMA WriteTurns ==
    ASSUME StoreFits, SerialFits, serial, NEW p \in Processes, Write(p)
    PROVE  SerialFits' /\ StepsTable
<1> DEFINE c == command[p]
           d == [c EXCEPT !.step = "move"]
<1>1. /\ c.step = "write" /\ file' = Stored(file, c.path, c.copy)
      /\ Keep(p, Rest(c)) \/ Keep(p, d)
      /\ FolderOf[c.copy.status] = c.path.folder => Keep(p, Rest(c))
      /\ UNCHANGED <<counter, plan, serial>>
  BY DEF Write, Return
<1>2. c \in Commands /\ CommandFits(c, StoredIds)
  BY DEF StoreFits
<1>3. Len(c.calls) # 0
  BY <1>1, <1>2 DEF CommandFits, NoCommand
<1>4. c.calls[1].do \in {"update", "save"}
  BY <1>1, <1>2, <1>3 DEF CommandFits
<1>5. /\ d.calls = c.calls /\ d.made = c.made /\ d.step = "move" /\ d.path = c.path
  BY <1>2 DEF Commands
<1>6. PICK b, e : b = c /\ e = d
  OBVIOUS
<1>7. CASE c.calls[1].do = "update"
  <2>1. /\ Len(command[p].calls) # 0 /\ b = command[p] /\ b.step = "write" /\ b.calls[1].do = "update"
        /\ file' = Stored(file, b.path, b.copy) /\ UNCHANGED <<counter, plan, serial>>
        /\ e.calls = b.calls /\ e.made = b.made /\ e.step = "move" /\ e.path = b.path
        /\ Keep(p, Rest(b)) \/ Keep(p, e)
    BY <1>1, <1>3, <1>5, <1>6, <1>7
  <2> HIDE DEF c, d
  <2> QED
    BY <2>1, UpdateWrites
<1>8. CASE c.calls[1].do = "save"
  <2>1. /\ Len(command[p].calls) # 0 /\ b = command[p] /\ b.step = "write" /\ b.calls[1].do = "save"
        /\ file' = Stored(file, b.path, b.copy) /\ UNCHANGED <<counter, plan, serial>>
        /\ FolderOf[b.copy.status] = b.path.folder => Keep(p, Rest(b))
    BY <1>1, <1>3, <1>6, <1>8
  <2> HIDE DEF c, d
  <2> QED
    BY <2>1, SaveTurns
<1> QED
  BY <1>4, <1>7, <1>8


LEMMA MoveTurns ==
    ASSUME StoreFits, SerialFits, serial, NEW p \in Processes, Move(p)
    PROVE  SerialFits' /\ StepsTable
<1> DEFINE c == command[p]
           folder == FolderOf[c.copy.status]
<1>1. /\ c.step = "move" /\ UNCHANGED <<counter, plan, serial>>
      /\ IF c.path \in DOMAIN file
         THEN /\ file' = Stored(Removed(file, c.path), At(c.path, folder), file[c.path])
              /\ Keep(p, Rest(c))
         ELSE file' = file /\ Throw(p)
  BY DEF Move, Return
<1>2. c \in Commands /\ CommandFits(c, StoredIds)
  BY DEF StoreFits
<1>3. Len(c.calls) # 0
  BY <1>1, <1>2 DEF CommandFits, NoCommand
<1>4. c.copy \in Tasks /\ folder \in Folders
  BY <1>1, <1>2, <1>3, StoreConstants DEF CommandFits, Tasks
<1>5. /\ p = Chosen /\ StepFits(c, file, counter)
      /\ Plain(c) \/ (plan = "draft" /\ Materializes(c, file))
      /\ OneEach(file) /\ \A x \in DOMAIN file : x.id < counter
      /\ DOMAIN file \subseteq Paths
      /\ plan = "materialized" => Stand(file)
  BY <1>3, TurnIs
<1>6. c.calls[1].do = "update"
  BY <1>1, <1>5 DEF StepFits
<1> HIDE DEF c, folder
<1>7. CASE c.path \in DOMAIN file
  <2>1. PICK f, g, from, to : f = file /\ g = file' /\ from = c.path /\ to = At(from, folder)
    OBVIOUS
  <2>2. /\ DOMAIN f \subseteq Paths /\ OneEach(f) /\ from \in DOMAIN f
        /\ g = Stored(Removed(f, from), to, f[from]) /\ Keep(p, Rest(c))
    BY <1>1, <1>5, <1>7, <2>1
  <2>3. to \in Paths /\ to.id = from.id
    <3>1. from \in Paths
      BY <2>2
    <3> QED
      BY <1>4, <2>1, <3>1 DEF At, Paths, Folders
  <2>4. /\ OneEach(g) /\ Kept(f, g) /\ TableOf(g) = TableOf(f) /\ Numbers(g) = Numbers(f)
        /\ \A x \in DOMAIN f : x # from => x \in DOMAIN g /\ g[x] = f[x]
        /\ \A x \in DOMAIN g : x.id = from.id => g[x] = f[from]
    BY <2>2, <2>3, MovedRow
  <2>5. \A x \in DOMAIN file' : x.id < counter'
    <3> SUFFICES ASSUME NEW x \in DOMAIN g PROVE x.id < counter
      BY <1>1, <2>1
    <3>1. x.id \in Numbers(f)
      BY <2>4 DEF Numbers
    <3> QED
      BY <1>5, <2>1, <3>1 DEF Numbers
  <2>6. plan' = "materialized" => Stand(file')
    BY <1>1, <1>5, <2>1, <2>4, StandsOn
  <2>7. Materializes(c, f) =>
          /\ \A x \in DOMAIN f : x.id # 1 => x \in DOMAIN g /\ g[x] = f[x]
          /\ Numbers(f) \subseteq Numbers(g)
          /\ c.calls[1].change = "slices" => \A x \in DOMAIN g : x.id = 1 => g[x].slices = Own(c)
    <3> SUFFICES ASSUME Materializes(c, f)
                 PROVE  /\ \A x \in DOMAIN f : x.id # 1 => x \in DOMAIN g /\ g[x] = f[x]
                        /\ Numbers(f) \subseteq Numbers(g)
                        /\ c.calls[1].change = "slices" =>
                              \A x \in DOMAIN g : x.id = 1 => g[x].slices = Own(c)
      OBVIOUS
    <3>1. from.id = 1
      BY <1>1, <1>2, <1>3, <1>6, <2>1, MaterializesFirst
    <3>2. ASSUME c.calls[1].change = "slices" PROVE f[from].slices = Own(c)
      <4>1. PICK k \in 0 .. 6 * Total + 2 : MaterializesAt(c, f, k)
        BY DEF Materializes
      <4>2. k = 6 * Total + 1
        BY <1>2, <1>3, <1>6, <3>2, <4>1, OwnAre
      <4> QED
        BY <1>1, <2>2, <3>1, <4>1, <4>2 DEF MaterializesAt
    <3> QED
      BY <2>4, <3>1, <3>2
  <2>8. TurnFits(Rest(c), g, counter, plan)
    <3>1. c.calls[1].do \notin {"create", "save"} /\ c.calls[1] # Find(ById(1))
      BY <1>6 DEF Find
    <3>2. Plain(c) \/ (plan = "draft" /\ Materializes(c, f))
      BY <1>5, <2>1
    <3> QED
      BY <1>2, <1>3, <2>7, <3>1, <3>2, TurnRest
  <2>9. OneEach(file') /\ TurnFits(Rest(c), file', counter', plan')
    BY <1>1, <2>1, <2>4, <2>8
  <2>10. SerialFits'
    BY <1>1, <1>5, <2>2, <2>5, <2>6, <2>9, TurnNext
  <2>11. StepsTable
    BY <2>1, <2>4, SameTable
  <2> QED
    BY <2>10, <2>11
<1>8. CASE c.path \notin DOMAIN file
  BY <1>1, <1>5, <1>8, ThrowTurns
<1> QED
  BY <1>7, <1>8

LEMMA DyingTurns ==
    ASSUME StoreFits, SerialFits, serial, NEW p \in Processes, CommandDies(p)
    PROVE  SerialFits' /\ StepsTable
<1>1. p = Chosen /\ Throw(p) /\ UNCHANGED <<counter, file, plan, serial>>
  BY DEF CommandDies, SerialFits
<1> QED
  BY <1>1, ThrowTurns

LEMMA TurnSteps ==
    ASSUME StoreFits, SerialFits, [StoreNext]_storeVars
    PROVE  SerialFits' /\ StepsTable
<1>1. serial' = serial
  <2>1. ASSUME NEW p \in Processes, BeginCommand(p) PROVE serial' = serial
    BY <2>1 DEF BeginCommand, BeginCalls
  <2>2. ASSUME NEW p \in Processes, ReadCounter(p) \/ WriteCounter(p) \/ CreateFile(p) \/ List(p)
        PROVE  serial' = serial
    BY <2>2 DEF ReadCounter, WriteCounter, CreateFile, List
  <2>3. ASSUME NEW p \in Processes, Match(p) \/ Load(p) \/ TakeCopy(p)
        PROVE  serial' = serial
    BY <2>3 DEF Match, Load, TakeCopy
  <2>4. ASSUME NEW p \in Processes, Write(p) \/ Move(p) \/ SealPlan(p) \/ CommandDies(p)
        PROVE  serial' = serial
    BY <2>4 DEF Write, Move, SealPlan, CommandDies
  <2> QED
    BY <2>1, <2>2, <2>3, <2>4 DEF StoreNext, storeVars
<1>2. CASE ~serial
  BY <1>1, <1>2 DEF SerialFits, StepsTable
<1>3. CASE serial /\ UNCHANGED storeVars
  <2>1. SerialFits'
    BY <1>3 DEF storeVars, SerialFits
  <2>2. StepsTable
    BY <1>3, SameTable DEF storeVars
  <2> QED
    BY <2>1, <2>2
<1>4. CASE serial /\ StoreNext
  BY <1>4, BeginTurns, ReadCounterTurns, WriteCounterTurns, CreateFileTurns, ListTurns, MatchTurns,
     LoadTurns, TakeCopyTurns, WriteTurns, MoveTurns, SealPlanTurns, DyingTurns DEF StoreNext
<1> QED
  BY <1>2, <1>3, <1>4

LEMMA SerialStart == StoreInit => SerialFits
<1> SUFFICES ASSUME StoreInit, serial PROVE SerialFits
  BY DEF SerialFits
<1>1. DOMAIN file = {} /\ plan = "draft" /\ \A p \in Processes : command[p] = NoCommand
  BY DEF StoreInit
<1> QED
  BY <1>1, NoTurn DEF SerialFits, OneEach

LEMMA SerialAlways == StoreSpec => [](StoreFits /\ SerialFits)
<1>1. StoreInit => StoreFits /\ SerialFits
  BY StoreStart, SerialStart
<1>2. (StoreFits /\ SerialFits) /\ [StoreNext]_storeVars => (StoreFits /\ SerialFits)'
  BY StoreStep, TurnSteps
<1> QED
  BY <1>1, <1>2, PTL DEF StoreSpec

\* In turn every task that was created is in the table under its title: the table keeps
\* titles, and only a creation adds to what was created.
OwnFits == serial => \A b \in born : b[1] \in DOMAIN AsTable /\ AsTable[b[1]].title = b[2]

LEMMA TableKeeps ==
    ASSUME serial, StepsTable, NEW id \in DOMAIN AsTable
    PROVE  id \in DOMAIN AsTable' /\ AsTable'[id].title = AsTable[id].title
<1>1. PICK now, then : now = AsTable /\ then = AsTable'
  OBVIOUS
<1>2. ASSUME NEW new \in DOMAIN AsTable', Table!Add(new, AsTable'[new])
      PROVE  id \in DOMAIN then /\ then[id].title = now[id].title
  BY <1>1, <1>2 DEF Table!Add
<1>3. ASSUME NEW old \in DOMAIN AsTable \cap DOMAIN AsTable', Table!Change(old, AsTable'[old])
      PROVE  id \in DOMAIN then /\ then[id].title = now[id].title
  BY <1>1, <1>3 DEF Table!Change
<1> QED
  BY <1>1, <1>2, <1>3 DEF StepsTable, Table!Next

LEMMA BornStays ==
    ASSUME [StoreNext]_storeVars
    PROVE  serial' = serial /\ (born' = born \/ \E p \in Processes : CreateFile(p))
<1>1. ASSUME NEW p \in Processes, BeginCommand(p) PROVE UNCHANGED <<serial, born>>
  BY <1>1 DEF BeginCommand, BeginCalls
<1>2. ASSUME NEW p \in Processes, ReadCounter(p) \/ WriteCounter(p) \/ List(p) \/ Match(p) \/ Load(p)
      PROVE  UNCHANGED <<serial, born>>
  BY <1>2 DEF ReadCounter, WriteCounter, List, Match, Load
<1>3. ASSUME NEW p \in Processes,
             TakeCopy(p) \/ Write(p) \/ Move(p) \/ SealPlan(p) \/ CommandDies(p)
      PROVE  UNCHANGED <<serial, born>>
  BY <1>3 DEF TakeCopy, Write, Move, SealPlan, CommandDies
<1>4. ASSUME NEW p \in Processes, CreateFile(p) PROVE serial' = serial
  BY <1>4 DEF CreateFile
<1> QED
  BY <1>1, <1>2, <1>3, <1>4 DEF StoreNext, storeVars

LEMMA OwnAlways == StoreSpec => []OwnFits
<1>1. StoreInit => OwnFits
  BY DEF StoreInit, OwnFits
<1>2. StoreFits /\ SerialFits /\ OwnFits /\ [StoreNext]_storeVars => OwnFits'
  <2> SUFFICES ASSUME StoreFits, SerialFits, OwnFits, [StoreNext]_storeVars, serial,
                      NEW b \in born'
               PROVE  b[1] \in DOMAIN AsTable' /\ AsTable'[b[1]].title = b[2]
    BY BornStays DEF OwnFits
  <2>1. StepsTable
    BY TurnSteps
  <2>2. CASE b \in born
    BY <2>1, <2>2, TableKeeps DEF OwnFits
  <2>3. CASE b \notin born
    BY <2>3, BornStays, CreateFileTurns
  <2> QED
    BY <2>2, <2>3
<1> QED
  BY <1>1, <1>2, SerialAlways, PTL DEF StoreSpec

\* Every created task keeps a file of its number and slug, its own if commands come in
\* turn, and every dependency its task, whatever races or dies; and a plan that says
\* materialized has all its slices (createTask, saveTask, addDependency,
\* materializeSlices).
THEOREM StoreKeeps == StoreSpec => []StoreKeepsTasks
<1>1. StoreFits /\ SerialFits /\ OwnFits => StoreKeepsTasks
  <2> SUFFICES ASSUME StoreFits, SerialFits, OwnFits PROVE StoreKeepsTasks
    OBVIOUS
  <2>1. StoreTypes /\ FileStays /\ DependenciesStay
    BY FitsAreKept
  <2>2. ASSUME serial, NEW b \in born
        PROVE  \E x \in DOMAIN file : /\ x.id = b[1] /\ x.slug = Slug[b[2]]
                                      /\ Slug[file[x].title] = x.slug
                                      /\ file[x].title = b[2]
    <3>1. AsTable = TableOf(file) /\ b[1] \in Numbers(file) /\ TableOf(file)[b[1]].title = b[2]
      BY <2>2, AsTableIs DEF OwnFits, TableOf
    <3>2. PICK x \in DOMAIN file : x.id = b[1]
      BY <3>1 DEF Numbers
    <3>3. FoundIn(file, b[1]) = file[x]
      BY <2>2, <3>2, FoundIs DEF SerialFits, StoreFits, FilesFit
    <3>4. file[x].title = b[2]
      BY <3>1, <3>3 DEF TableOf
    <3>5. Slug[file[x].title] = x.slug
      BY DEF StoreFits, FilesFit
    <3> QED
      BY <3>2, <3>4, <3>5
  <2>3. TasksAreKept
    BY <2>1, <2>2 DEF TasksAreKept, FileStays, DependenciesStay
  <2>4. serial /\ plan = "materialized" => Stand(file)
    BY DEF SerialFits
  <2>5. SlicesAreWhole
    BY <2>4 DEF SlicesAreWhole, Stand
  <2> QED
    BY <2>1, <2>3, <2>5 DEF StoreKeepsTasks
<1> QED
  BY <1>1, SerialAlways, OwnAlways, PTL

\* Commands that run one after the other see a table of tasks: every step of the store
\* adds a row, makes one its next version, or leaves the table (createTask, saveTask).
THEOREM StoreIsTable == StoreSpec => ImplementsTable
<1>1. (StoreFits /\ SerialFits) /\ [StoreNext]_storeVars => StepsTable
  BY TurnSteps
<1>2. (StoreFits /\ SerialFits) /\ [StoreNext]_storeVars => [StepsTable]_storeVars
  BY <1>1
<1> QED
  BY <1>2, SerialAlways, PTL DEF StoreSpec, ImplementsTable

=============================================================================
