------------------------ MODULE ProductReviewsProofs ------------------------
(***************************************************************************)
(* What holds of ProductReviews for any profiles, any policy, any number   *)
(* of changes and turns, and whether commands come one after the other,    *)
(* run side by side or die half-way: what is delivered was judged as it    *)
(* is, and what autonomy approved was agreed to when it looked.            *)
(***************************************************************************)
EXTENDS ProductReviews, FiniteSetTheorems, SequenceTheorems, TLAPS

-----------------------------------------------------------------------------
(* Shapes.  A command's step writes a review's seal, removes a review or    *)
(* moves the task; those of the agent also save the task as it was loaded.  *)
Owners == OwnerReviews \cup {NoReview}
Finals == FinalReviews \cup {NoReview}
Inputs == [product : Versions, result : Versions]
TaskStates == [phase : TaskPhases, owner : Owners, audience : Batches, final : Finals,
               sealed : Sealed, revision : {"none", "active", "validated"}]
Files == [owner : Owners, audience : Batches, final : Finals]

(* The specification that a task has approved, if any, was agreed to, when  *)
(* who approved it last is the agent.                                       *)
Agreed(spec) == spec \in OwnerReviews /\ Good(spec)
SoundTasks(who) ==
    {t \in TaskStates : who = "agent" /\ t.sealed # NotApproved => Agreed(t.sealed)}

Seals == [do : {"seal"}, which : {"owner"}, value : Owners] \cup
         [do : {"seal"}, which : {"audience"}, value : Batches] \cup
         [do : {"seal"}, which : {"final"}, value : Finals]
Drops == [do : {"drop"}, which : {"owner", "audience", "final"}]
Returns == {"product-specifier", "execution", "rejected"}
Goes == [do : {"go"}, phase : Returns, from : SUBSET TaskPhases]
Plain == Seals \cup Drops \cup Goes
Saves(who) == [do : {"save"}, task : SoundTasks(who)]
Steps(a, who) == IF a = "agent" THEN Plain \cup Saves(who) ELSE Plain

(* Or the command is an approval, and has one step left.                    *)
Advances ==
    {s \in [do : {"advance"}, gate : {"spec-approval", "final-approval"}, looked : Owners] :
        s.gate = "spec-approval" => Agreed(s.looked)}
Approvals(a) ==
    {s \in [do : {"approve"}, looked : Owners, task : TaskStates] :
        s.task.phase = "execution" /\ (a = "agent" => Agreed(s.looked))}
Crossings(a) == Approvals(a) \cup (IF a = "agent" THEN Advances ELSE {})

Someone == {"nobody", "agent", "user", "overtaken"}
Deliveries == [by : Actors, approver : Someone, preserved : BOOLEAN, of : Judged, final : Finals]
Pasts == [delivered : Deliveries \cup {NotDelivered}, approver : Someone]

PendingFits ==
    /\ DOMAIN pending = Actors
    /\ pending = [a \in Actors |-> pending[a]]
    /\ \A a \in Actors :
          \/ pending[a] \in Seq(Steps(a, outcome.approver)) /\ Len(pending[a]) <= 4
          \/ \E s \in Crossings(a) : pending[a] = <<s>>

Shape ==
    /\ task \in SoundTasks(outcome.approver) /\ file \in Files /\ inputs \in Inputs
    /\ policy \in [level : Levels, audience : BOOLEAN] /\ inTurn \in BOOLEAN
    /\ turns \in 0 .. MaxTurns /\ outcome \in Pasts

(* A final review was made when the audience had judged what it judges.     *)
WellJudged(r) ==
    policy.audience =>
        /\ Cardinality({p \in Profiles : r.audience[p] # NoReview}) >= MinPrimary
        /\ \A p \in Profiles : r.audience[p] # NoReview =>
              /\ r.audience[p].of = r.of
              /\ r.audience[p].verdict = "pass" \/ Accepted(r.audience[p])

DeliveredIsAgreed ==
    outcome.delivered.by # "nobody" /\ outcome.delivered.approver = "agent" =>
        Agreed(outcome.delivered.of.spec)

ProductInv ==
    /\ Shape /\ PendingFits
    /\ file.final # NoReview => WellJudged(file.final)
    /\ DeliveredIsJudged /\ DeliveredIsAgreed

LEMMA NoBatchIsBatch == NoBatch \in Batches
BY DEF NoBatch, Batches

(* No review that was made is taken for one that was not.                   *)
LEMMA ReviewsDiffer ==
    /\ NoReview \notin OwnerReviews /\ NoReview \notin AudienceReviews
    /\ NoReview \notin FinalReviews
    /\ NotApproved \notin Owners
<1>1. /\ \A r \in OwnerReviews : r.verdict \in {"build", "revise"}
      /\ \A r \in AudienceReviews : r.verdict \in {"pass", "revise", "tradeoff"}
      /\ \A r \in FinalReviews : r.verdict \in {"ship", "revise"}
  BY DEF OwnerReviews, AudienceReviews, FinalReviews
<1>2. NoReview.verdict = "none" /\ NotApproved.verdict = "not approved"
  BY DEF NoReview, NotApproved
<1> QED
  BY <1>1, <1>2 DEF Owners

LEMMA ProductBegins == ASSUME ReviewsInit PROVE ProductInv
<1>1. task \in TaskStates /\ task.sealed = NotApproved
  BY NoBatchIsBatch DEF ReviewsInit, TaskStates, TaskPhases, Owners, Finals, Sealed
<1>2. file \in Files /\ file.final = NoReview
  BY NoBatchIsBatch DEF ReviewsInit, Files, Owners, Finals
<1>3. inputs \in Inputs /\ turns \in 0 .. MaxTurns
  BY ProductReviewsAssumption DEF ReviewsInit, Inputs, Versions
<1>4. /\ outcome \in Pasts /\ outcome.approver = "nobody" /\ outcome.delivered = NotDelivered
      /\ outcome.delivered.by = "nobody"
  BY DEF ReviewsInit, Pasts, Someone, NotDelivered
<1>5. PendingFits
  <2>1. pending = [a \in Actors |-> <<>>]
    BY DEF ReviewsInit
  <2> QED
    BY <2>1 DEF PendingFits
<1>6. Shape
  BY <1>1, <1>2, <1>3, <1>4 DEF ReviewsInit, Shape, SoundTasks
<1> QED
  BY <1>2, <1>4, <1>5, <1>6 DEF ProductInv, DeliveredIsJudged, DeliveredIsAgreed

-----------------------------------------------------------------------------
(* What the steps of commands are made of. *)

LEMMA TaskChanges ==
    ASSUME NEW who, task \in SoundTasks(who)
    PROVE  /\ \A v \in Owners : [task EXCEPT !.owner = v] \in SoundTasks(who)
           /\ \A v \in Batches : [task EXCEPT !.audience = v] \in SoundTasks(who)
           /\ \A v \in Finals : [task EXCEPT !.final = v] \in SoundTasks(who)
           /\ \A p \in TaskPhases : /\ [task EXCEPT !.phase = p] \in SoundTasks(who)
                                    /\ InPhase(p) \in SoundTasks(who)
           /\ \A p \in TaskPhases :
                 [task EXCEPT !.phase = p, !.sealed = NotApproved] \in SoundTasks(who)
<1>1. task \in TaskStates /\ (who = "agent" /\ task.sealed # NotApproved => Agreed(task.sealed))
  BY DEF SoundTasks
<1>2. ASSUME NEW v \in Owners PROVE [task EXCEPT !.owner = v] \in SoundTasks(who)
  BY <1>1 DEF SoundTasks, TaskStates
<1>3. ASSUME NEW v \in Batches PROVE [task EXCEPT !.audience = v] \in SoundTasks(who)
  BY <1>1 DEF SoundTasks, TaskStates
<1>4. ASSUME NEW v \in Finals PROVE [task EXCEPT !.final = v] \in SoundTasks(who)
  BY <1>1 DEF SoundTasks, TaskStates
<1>5. ASSUME NEW p \in TaskPhases PROVE [task EXCEPT !.phase = p] \in SoundTasks(who)
  BY <1>1 DEF SoundTasks, TaskStates
<1>6. ASSUME NEW p \in TaskPhases
      PROVE [task EXCEPT !.phase = p, !.sealed = NotApproved] \in SoundTasks(who)
  BY <1>1 DEF SoundTasks, TaskStates, Sealed
<1>7. ASSUME NEW p \in TaskPhases PROVE InPhase(p) \in SoundTasks(who)
  <2>1. CASE p = "product-specifier"
    <3>1. InPhase(p) = [task EXCEPT !.phase = p, !.sealed = NotApproved]
      BY <1>1, <2>1 DEF InPhase, TaskStates
    <3> QED
      BY <1>6, <3>1
  <2>2. CASE p # "product-specifier"
    <3>1. InPhase(p) = [task EXCEPT !.phase = p, !.sealed = task.sealed]
      BY <1>1, <2>2 DEF InPhase, TaskStates
    <3> QED
      BY <1>1, <3>1 DEF SoundTasks, TaskStates
  <2> QED
    BY <2>1, <2>2
<1> QED
  BY <1>2, <1>3, <1>4, <1>5, <1>6, <1>7

LEMMA FileChanges ==
    ASSUME file \in Files
    PROVE  /\ \A v \in Owners : /\ [file EXCEPT !.owner = v] \in Files
                                /\ [file EXCEPT !.owner = v].final = file.final
           /\ \A v \in Batches : /\ [file EXCEPT !.audience = v] \in Files
                                 /\ [file EXCEPT !.audience = v].final = file.final
           /\ \A v \in Finals : /\ [file EXCEPT !.final = v] \in Files
                                /\ [file EXCEPT !.final = v].final = v
BY DEF Files

LEMMA SourceShape == ASSUME Shape PROVE Source \in Judged
<1>1. task.sealed \in Sealed /\ inputs.product \in Versions /\ inputs.result \in Versions
  BY DEF Shape, SoundTasks, TaskStates, Inputs
<1> QED
  BY <1>1 DEF Source, Judged

(* A command that begins, or goes on.                                       *)
LEMMA ThenFits ==
    ASSUME PendingFits, NEW a \in Actors, NEW steps \in Seq(Steps(a, outcome.approver)),
           Len(steps) <= 4, Then(a, steps), outcome' = outcome
    PROVE  PendingFits'
<1>1. pending' = [pending EXCEPT ![a] = steps]
  BY DEF Then
<1>2. pending' = [b \in Actors |-> IF b = a THEN steps ELSE pending[b]]
  BY <1>1 DEF PendingFits
<1> QED
  BY <1>2 DEF PendingFits

LEMMA ThenCrosses ==
    ASSUME PendingFits, NEW a \in Actors, NEW s \in Crossings(a), Then(a, <<s>>),
           outcome' = outcome
    PROVE  PendingFits'
<1>1. pending' = [pending EXCEPT ![a] = <<s>>]
  BY DEF Then
<1>2. pending' = [b \in Actors |-> IF b = a THEN <<s>> ELSE pending[b]]
  BY <1>1 DEF PendingFits
<1>3. Crossings(a)' = Crossings(a) /\ \A b \in Actors : Crossings(b)' = Crossings(b)
  BY DEF Crossings, Approvals, Advances, Agreed, Good
<1> QED
  BY <1>2, <1>3 DEF PendingFits

(* Which kind of command runs shows in its next step.                       *)
LEMMA NextStep ==
    ASSUME PendingFits, NEW a \in Actors, ~Finished(a)
    PROVE  /\ \/ /\ pending[a] \in Seq(Steps(a, outcome.approver)) /\ pending[a] # <<>>
                 /\ Len(pending[a]) <= 4
                 /\ Head(pending[a]).do \in {"save", "seal", "drop", "go"}
              \/ /\ Head(pending[a]) \in Crossings(a) /\ pending[a] = <<Head(pending[a])>>
                 /\ Head(pending[a]).do \in {"advance", "approve"}
<1>1. pending[a] # <<>>
  BY DEF Finished
<1>2. CASE pending[a] \in Seq(Steps(a, outcome.approver)) /\ Len(pending[a]) <= 4
  <2>1. PICK S : S = Steps(a, outcome.approver)
    OBVIOUS
  <2>2. Head(pending[a]) \in S
    BY <1>1, <1>2, <2>1
  <2>3. \A s \in S : s.do \in {"save", "seal", "drop", "go"}
    BY <2>1 DEF Steps, Plain, Seals, Drops, Goes, Saves
  <2> QED
    BY <1>1, <1>2, <2>2, <2>3
<1>3. CASE \E s \in Crossings(a) : pending[a] = <<s>>
  <2>1. PICK s \in Crossings(a) : pending[a] = <<s>>
    BY <1>3
  <2>2. Head(pending[a]) = s
    BY <2>1
  <2>3. s.do \in {"advance", "approve"}
    BY DEF Crossings, Approvals, Advances
  <2> QED
    BY <2>1, <2>2, <2>3
<1> QED
  BY <1>2, <1>3 DEF PendingFits

(* What the invariant asks of a step that delivers nothing.                 *)
LEMMA StepKeeps ==
    ASSUME ProductInv, task' \in SoundTasks(outcome.approver), file' \in Files,
           inputs' \in Inputs, turns' \in 0 .. MaxTurns, UNCHANGED <<policy, inTurn, outcome>>,
           PendingFits', file'.final # NoReview => WellJudged(file'.final)
    PROVE  ProductInv'
<1>1. Shape'
  BY DEF ProductInv, Shape
<1>2. DeliveredIsJudged' /\ DeliveredIsAgreed'
  BY DEF ProductInv, DeliveredIsJudged, DeliveredIsAgreed, Agreed, Good, Accepted
<1>3. file'.final # NoReview => WellJudged(file.final)'
  BY DEF WellJudged, Accepted
<1> QED
  BY <1>1, <1>2, <1>3 DEF ProductInv

-----------------------------------------------------------------------------
(* The steps of a command that is running. *)

LEMMA DropsAre ==
    ASSUME file \in Files, NEW which \in {"owner", "audience", "final"}
    PROVE  /\ [file EXCEPT ![which] = Empty[which]] \in Files
           /\ LET f == [file EXCEPT ![which] = Empty[which]]
              IN f.final = NoReview \/ f.final = file.final
<1>1. CASE which = "owner"
  <2>1. Empty["owner"] = NoReview /\ NoReview \in Owners
    BY DEF Empty, Owners
  <2> QED
    BY <1>1, <2>1, FileChanges
<1>2. CASE which = "audience"
  <2>1. Empty["audience"] = NoBatch
    BY DEF Empty
  <2> QED
    BY <1>2, <2>1, FileChanges, NoBatchIsBatch
<1>3. CASE which = "final"
  <2>1. Empty["final"] = NoReview /\ NoReview \in Finals
    BY DEF Empty, Finals
  <2> QED
    BY <1>3, <2>1, FileChanges
<1> QED
  BY <1>1, <1>2, <1>3

LEMMA TaskDrops ==
    ASSUME NEW who, task \in SoundTasks(who), NEW which \in {"owner", "audience", "final"}
    PROVE  [task EXCEPT ![which] = Empty[which]] \in SoundTasks(who)
<1>1. CASE which = "owner"
  <2>1. Empty["owner"] = NoReview /\ NoReview \in Owners
    BY DEF Empty, Owners
  <2> QED
    BY <1>1, <2>1, TaskChanges
<1>2. CASE which = "audience"
  <2>1. Empty["audience"] = NoBatch
    BY DEF Empty
  <2> QED
    BY <1>2, <2>1, TaskChanges, NoBatchIsBatch
<1>3. CASE which = "final"
  <2>1. Empty["final"] = NoReview /\ NoReview \in Finals
    BY DEF Empty, Finals
  <2> QED
    BY <1>3, <2>1, TaskChanges
<1> QED
  BY <1>1, <1>2, <1>3

LEMMA ContinueKeeps ==
    ASSUME ProductInv, NEW a \in Actors, ContinueCommand(a)
    PROVE  ProductInv'
<1>1. PICK s : s = Head(pending[a])
  OBVIOUS
<1>2. PICK who : who = outcome.approver
  OBVIOUS
<1>3. /\ task \in SoundTasks(who) /\ file \in Files /\ inputs \in Inputs
      /\ turns \in 0 .. MaxTurns /\ PendingFits
      /\ file.final # NoReview => WellJudged(file.final)
  BY <1>2 DEF ProductInv, Shape
<1>4. pending[a] \in Seq(Steps(a, who)) /\ pending[a] # <<>> /\ Len(pending[a]) <= 4
  BY <1>2, <1>3, NextStep DEF ContinueCommand
<1>5. PICK S : S = Steps(a, who)
  OBVIOUS
<1>6. s \in S /\ Tail(pending[a]) \in Seq(S) /\ Len(Tail(pending[a])) <= 4
  BY <1>1, <1>4, <1>5
<1>7. /\ task' = CASE s.do = "save" -> s.task
                   [] s.do = "seal" -> [task EXCEPT ![s.which] = s.value]
                   [] s.do = "drop" -> [task EXCEPT ![s.which] = Empty[s.which]]
                   [] s.do = "go" -> IF task.phase \in s.from THEN InPhase(s.phase) ELSE task
      /\ file' = IF s.do = "drop" THEN [file EXCEPT ![s.which] = Empty[s.which]] ELSE file
      /\ Then(a, Tail(pending[a])) /\ Unchanged
  BY <1>1 DEF ContinueCommand
<1>8. PendingFits'
  BY <1>2, <1>3, <1>5, <1>6, <1>7, ThenFits DEF Unchanged
<1>9. /\ task' \in SoundTasks(who) /\ file' \in Files
      /\ file'.final = NoReview \/ file'.final = file.final
  <2>1. CASE s \in Saves(who)
    <3>1. s.do = "save" /\ s.task \in SoundTasks(who)
      BY <2>1 DEF Saves
    <3> QED
      BY <1>3, <1>7, <3>1
  <2>2. CASE s \in Seals
    <3>1. /\ s.do = "seal"
          /\ \/ s.which = "owner" /\ s.value \in Owners
             \/ s.which = "audience" /\ s.value \in Batches
             \/ s.which = "final" /\ s.value \in Finals
      BY <2>2 DEF Seals
    <3>2. task' = [task EXCEPT ![s.which] = s.value] /\ file' = file
      BY <1>7, <3>1
    <3>3. task' \in SoundTasks(who)
      BY <1>3, <3>1, <3>2, TaskChanges
    <3> QED
      BY <1>3, <3>2, <3>3
  <2>3. CASE s \in Drops
    <3>1. s.do = "drop" /\ s.which \in {"owner", "audience", "final"}
      BY <2>3 DEF Drops
    <3>2. /\ task' = [task EXCEPT ![s.which] = Empty[s.which]]
          /\ file' = [file EXCEPT ![s.which] = Empty[s.which]]
      BY <1>7, <3>1
    <3> QED
      BY <1>3, <3>1, <3>2, DropsAre, TaskDrops
  <2>4. CASE s \in Goes
    <3>1. s.do = "go" /\ s.phase \in TaskPhases
      BY <2>4 DEF Goes, Returns, TaskPhases
    <3>2. (task' = task \/ task' = InPhase(s.phase)) /\ file' = file
      BY <1>7, <3>1
    <3> QED
      BY <1>3, <3>1, <3>2, TaskChanges
  <2> QED
    BY <1>5, <1>6, <2>1, <2>2, <2>3, <2>4 DEF Steps, Plain
<1> QED
  BY <1>2, <1>3, <1>7, <1>8, <1>9, StepKeeps DEF Unchanged

LEMMA CrashKeeps ==
    ASSUME ProductInv, NEW a \in Actors, CommandDies(a)
    PROVE  ProductInv'
<1>1. Then(a, <<>>) /\ UNCHANGED <<task, file>> /\ Unchanged
  BY DEF CommandDies
<1>2. <<>> \in Seq(Steps(a, outcome.approver)) /\ Len(<<>>) <= 4
  OBVIOUS
<1>3. PendingFits'
  BY <1>1, <1>2, ThenFits DEF ProductInv, Unchanged
<1> QED
  BY <1>1, <1>3, StepKeeps DEF ProductInv, Shape, Unchanged

-----------------------------------------------------------------------------
(* Commands with steps to follow: they record or decide a review, and the   *)
(* task is left for later.                                                  *)

LEMMA PlainSteps ==
    ASSUME NEW who, NEW a
    PROVE  /\ \A v \in Owners : Seal("owner", v) \in Steps(a, who)
           /\ \A v \in Batches : Seal("audience", v) \in Steps(a, who)
           /\ \A v \in Finals : Seal("final", v) \in Steps(a, who)
           /\ \A which \in {"owner", "audience", "final"} : Drop(which) \in Steps(a, who)
           /\ \A p \in Returns, from \in SUBSET TaskPhases : Go(p, from) \in Steps(a, who)
           /\ \A t \in SoundTasks(who) : Save(t) \in Steps("agent", who)
<1>1. /\ \A v \in Owners : Seal("owner", v) \in Seals
      /\ \A v \in Batches : Seal("audience", v) \in Seals
      /\ \A v \in Finals : Seal("final", v) \in Seals
  BY DEF Seal, Seals
<1>2. \A which \in {"owner", "audience", "final"} : Drop(which) \in Drops
  BY DEF Drop, Drops
<1>3. \A p \in Returns, from \in SUBSET TaskPhases : Go(p, from) \in Goes
  BY DEF Go, Goes
<1>4. \A t \in SoundTasks(who) : Save(t) \in Saves(who)
  BY DEF Save, Saves
<1> QED
  BY <1>1, <1>2, <1>3, <1>4 DEF Steps, Plain

(* A command that begins, with the task as it was.                          *)
LEMMA CommandKeeps ==
    ASSUME ProductInv, NEW a \in Actors, NEW steps \in Seq(Steps(a, outcome.approver)),
           Len(steps) <= 4, Then(a, steps), task' \in SoundTasks(outcome.approver),
           file' \in Files, inputs' \in Inputs, turns' \in 0 .. MaxTurns,
           UNCHANGED <<policy, inTurn, outcome>>,
           file'.final # NoReview => WellJudged(file'.final)
    PROVE  ProductInv'
<1>1. PendingFits'
  BY ThenFits DEF ProductInv
<1> QED
  BY <1>1, StepKeeps

LEMMA OwnerSteps ==
    ASSUME ProductInv,
           \/ \E v \in {"build", "revise"} : RecordOwner(v)
           \/ \E d \in {"proceed", "reject"} : DecideOwner(d)
           \/ ReworkOwner \/ RequestSpecChanges \/ Refine
    PROVE  ProductInv'
<1>1. PICK who : who = outcome.approver
  OBVIOUS
<1>2. /\ task \in SoundTasks(who) /\ file \in Files /\ inputs \in Inputs
      /\ turns \in 0 .. MaxTurns
      /\ file.final # NoReview => WellJudged(file.final)
  BY <1>1 DEF ProductInv, Shape
<1>3. "agent" \in Actors /\ "user" \in Actors
  BY DEF Actors
<1>4. ASSUME Turn PROVE turns' \in 0 .. MaxTurns /\ UNCHANGED <<policy, inTurn, outcome>>
  BY <1>2, <1>4, ProductReviewsAssumption DEF Turn
<1>5. ASSUME NEW v \in {"build", "revise"}, RecordOwner(v) PROVE ProductInv'
  <2>1. PICK r : r = [verdict |-> v, decision |-> "none", product |-> inputs.product]
    OBVIOUS
  <2>2. /\ file' = [file EXCEPT !.owner = r] /\ task' = task /\ Unchanged
        /\ Then("agent", <<Save([task EXCEPT !.owner = r])>>)
    BY <1>5, <2>1 DEF RecordOwner
  <2>3. r \in Owners
    BY <1>2, <2>1 DEF Owners, OwnerReviews, Inputs
  <2>4. Save([task EXCEPT !.owner = r]) \in Steps("agent", who)
    BY <1>2, <2>3, TaskChanges, PlainSteps
  <2>5. PICK steps : steps = <<Save([task EXCEPT !.owner = r])>>
    OBVIOUS
  <2>6. steps \in Seq(Steps("agent", who)) /\ Len(steps) <= 4
    BY <2>4, <2>5
  <2> QED
    BY <1>1, <1>2, <1>3, <2>2, <2>3, <2>5, <2>6, CommandKeeps, FileChanges DEF Unchanged
<1>6. ASSUME NEW d \in {"proceed", "reject"}, DecideOwner(d) PROVE ProductInv'
  <2>1. PICK r : r = [file.owner EXCEPT !.decision = d]
    OBVIOUS
  <2>2. PICK steps : steps = IF d = "reject" THEN <<Seal("owner", r), Go("rejected", Refining)>>
                             ELSE <<Seal("owner", r)>>
    OBVIOUS
  <2>3. /\ file' = [file EXCEPT !.owner = r] /\ task' = task /\ inputs' = inputs /\ Turn
        /\ Then("user", steps) /\ file.owner # NoReview
    BY <1>6, <2>1, <2>2 DEF DecideOwner, MayDecideOwner, OwnerIntegral
  <2>4. file.owner \in OwnerReviews
    BY <1>2, <2>3 DEF Files, Owners
  <2>5. r \in Owners
    BY <2>1, <2>4 DEF Owners, OwnerReviews
  <2>6. Seal("owner", r) \in Steps("user", who) /\ Go("rejected", Refining) \in Steps("user", who)
    BY <2>5, PlainSteps DEF Returns, TaskPhases, Refining
  <2>7. steps \in Seq(Steps("user", who)) /\ Len(steps) <= 4
    BY <2>2, <2>6
  <2> QED
    BY <1>1, <1>2, <1>3, <1>4, <2>3, <2>5, <2>7, CommandKeeps, FileChanges
<1>7. CASE ReworkOwner
  <2>1. /\ task' = [task EXCEPT !.owner = NoReview] /\ file' = file /\ inputs' = inputs /\ Turn
        /\ Then("user", <<Drop("owner")>>)
    BY <1>7 DEF ReworkOwner
  <2>2. Drop("owner") \in Steps("user", who) /\ NoReview \in Owners
    BY PlainSteps DEF Owners
  <2>3. <<Drop("owner")>> \in Seq(Steps("user", who)) /\ Len(<<Drop("owner")>>) <= 4
    BY <2>2
  <2>4. task' \in SoundTasks(who)
    BY <1>2, <2>1, <2>2, TaskChanges
  <2> QED
    BY <1>1, <1>2, <1>3, <1>4, <2>1, <2>3, <2>4, CommandKeeps
<1>8. PICK back : back = <<Drop("owner"), Go("product-specifier", TaskPhases)>>
  OBVIOUS
<1>9. ASSUME NEW a \in Actors PROVE back \in Seq(Steps(a, who)) /\ Len(back) <= 4
  <2>1. Drop("owner") \in Steps(a, who) /\ Go("product-specifier", TaskPhases) \in Steps(a, who)
    BY PlainSteps DEF Returns, TaskPhases
  <2> QED
    BY <1>8, <2>1
<1>10. CASE RequestSpecChanges
  <2>1. UNCHANGED <<task, file, inputs>> /\ Turn /\ Then("user", back)
    BY <1>8, <1>10 DEF RequestSpecChanges
  <2> QED
    BY <1>1, <1>2, <1>3, <1>4, <1>9, <2>1, CommandKeeps
<1>11. CASE Refine
  <2>1. UNCHANGED <<task, file, inputs>> /\ Turn /\ Then("agent", back)
    BY <1>8, <1>11 DEF Refine
  <2> QED
    BY <1>1, <1>2, <1>3, <1>4, <1>9, <2>1, CommandKeeps
<1> QED
  BY <1>5, <1>6, <1>7, <1>10, <1>11

LEMMA AudienceSteps ==
    ASSUME ProductInv,
           \/ \E p \in Profiles, v \in {"pass", "revise", "tradeoff"} : RecordTargetAudience(p, v)
           \/ \E d \in {"accept", "revise", "revisit"} : DecideAudience(d)
    PROVE  ProductInv'
<1>1. PICK who : who = outcome.approver
  OBVIOUS
<1>2. /\ task \in SoundTasks(who) /\ file \in Files /\ inputs \in Inputs
      /\ turns \in 0 .. MaxTurns /\ file.audience \in Batches
      /\ file.final # NoReview => WellJudged(file.final)
  BY <1>1 DEF ProductInv, Shape, Files
<1>3. "agent" \in Actors /\ "user" \in Actors
  BY DEF Actors
<1>4. ASSUME NEW p \in Profiles, NEW v \in {"pass", "revise", "tradeoff"}, RecordTargetAudience(p, v)
      PROVE ProductInv'
  <2>1. PICK batch : batch = IF AudienceStale THEN NoBatch ELSE file.audience
    OBVIOUS
  <2>2. PICK r : r = [verdict |-> v, of |-> Source, decision |-> "none"]
    OBVIOUS
  <2>3. PICK new : new = [batch EXCEPT ![p] = r]
    OBVIOUS
  <2>4. PICK t : t = [task EXCEPT !.audience = new]
    OBVIOUS
  <2>5. /\ file' = [file EXCEPT !.audience = new] /\ Unchanged
        /\ task' = IF AudienceStale THEN [task EXCEPT !.audience = NoBatch] ELSE task
        /\ Then("agent", <<Save(t)>>)
    BY <1>4, <2>1, <2>2, <2>3, <2>4 DEF RecordTargetAudience
  <2>6. r \in AudienceReviews
    BY <2>2, SourceShape DEF AudienceReviews, ProductInv
  <2>7. batch \in Batches
    BY <1>2, <2>1, NoBatchIsBatch
  <2>8. new \in Batches
    BY <2>3, <2>6, <2>7 DEF Batches
  <2>9. t \in SoundTasks(who) /\ task' \in SoundTasks(who)
    BY <1>2, <2>4, <2>5, <2>8, TaskChanges, NoBatchIsBatch
  <2>10. Save(t) \in Steps("agent", who)
    BY <2>9, PlainSteps
  <2>11. <<Save(t)>> \in Seq(Steps("agent", who)) /\ Len(<<Save(t)>>) <= 4
    BY <2>10
  <2> QED
    BY <1>1, <1>2, <1>3, <2>5, <2>8, <2>9, <2>11, CommandKeeps, FileChanges DEF Unchanged
<1>5. ASSUME NEW d \in {"accept", "revise", "revisit"}, DecideAudience(d) PROVE ProductInv'
  <2>1. PICK new : new = [p \in Profiles |->
                            LET r == file.audience[p]
                            IN IF r = NoReview \/ (d = "accept" /\ r.verdict # "tradeoff") THEN r
                               ELSE [r EXCEPT !.decision = IF d = "accept" THEN d ELSE "revise"]]
    OBVIOUS
  <2>2. PICK rest : rest = CASE d = "accept" -> <<>>
                             [] d = "revise" -> <<Go("execution", NoGate)>>
                             [] d = "revisit" -> <<Drop("owner"), Go("product-specifier", NoGate)>>
    OBVIOUS
  <2>3. /\ file' = [file EXCEPT !.audience = new] /\ task' = task /\ inputs' = inputs /\ Turn
        /\ Then("user", <<Seal("audience", new)>> \o rest)
    BY <1>5, <2>1, <2>2 DEF DecideAudience
  <2>4. new \in Batches
    <3>1. ASSUME NEW p \in Profiles PROVE new[p] \in AudienceReviews \cup {NoReview}
      <4>1. PICK r : r = file.audience[p]
        OBVIOUS
      <4>2. r \in AudienceReviews \cup {NoReview}
        BY <1>2, <4>1 DEF Batches
      <4>3. new[p] = r \/ (r # NoReview /\ (new[p] = [r EXCEPT !.decision = "accept"] \/
                                            new[p] = [r EXCEPT !.decision = "revise"]))
        BY <2>1, <4>1
      <4> QED
        BY <4>2, <4>3 DEF AudienceReviews
    <3> QED
      BY <2>1, <3>1 DEF Batches
  <2>5. /\ Seal("audience", new) \in Steps("user", who) /\ Drop("owner") \in Steps("user", who)
        /\ Go("execution", NoGate) \in Steps("user", who)
        /\ Go("product-specifier", NoGate) \in Steps("user", who)
    BY <2>4, PlainSteps DEF Returns, TaskPhases, NoGate, Open
  <2>6. rest \in Seq(Steps("user", who)) /\ Len(rest) <= 3
    BY <1>5, <2>2, <2>5
  <2>7. /\ <<Seal("audience", new)>> \in Seq(Steps("user", who))
        /\ Len(<<Seal("audience", new)>>) = 1
    BY <2>5
  <2>8. PICK steps : steps = <<Seal("audience", new)>> \o rest
    OBVIOUS
  <2>9. steps \in Seq(Steps("user", who)) /\ Len(steps) <= 4
    BY <2>6, <2>7, <2>8, ConcatProperties
  <2>10. turns' \in 0 .. MaxTurns /\ UNCHANGED <<policy, inTurn, outcome>>
    BY <1>2, <2>3, ProductReviewsAssumption DEF Turn
  <2> QED
    BY <1>1, <1>2, <1>3, <2>3, <2>4, <2>8, <2>9, <2>10, CommandKeeps, FileChanges
<1> QED
  BY <1>4, <1>5

(* The final review is made of the audience's reviews as they are sealed,   *)
(* when they are of what it judges.                                         *)
LEMMA FinalSteps ==
    ASSUME ProductInv,
           \/ \E v \in {"ship", "revise"} : RecordFinal(v)
           \/ \E d \in {"proceed", "revise", "revisit"} : DecideFinal(d)
    PROVE  ProductInv'
<1>1. PICK who : who = outcome.approver
  OBVIOUS
<1>2. /\ task \in SoundTasks(who) /\ task \in TaskStates /\ file \in Files /\ inputs \in Inputs
      /\ turns \in 0 .. MaxTurns /\ file.audience \in Batches
      /\ file.final # NoReview => WellJudged(file.final)
  BY <1>1 DEF ProductInv, Shape, Files, SoundTasks
<1>3. "agent" \in Actors /\ "user" \in Actors
  BY DEF Actors
<1>4. ASSUME NEW v \in {"ship", "revise"}, RecordFinal(v) PROVE ProductInv'
  <2>1. PICK r : r = [verdict |-> v, decision |-> "none", of |-> Source, owner |-> task.owner,
                      audience |-> task.audience]
    OBVIOUS
  <2>2. PICK t : t = [task EXCEPT !.final = r]
    OBVIOUS
  <2>3. /\ MayRecordFinal /\ file' = [file EXCEPT !.final = r] /\ task' = task /\ Unchanged
        /\ Then("agent", <<Save(t)>>)
    BY <1>4, <2>1, <2>2 DEF RecordFinal
  <2>4. r \in Finals
    <3>1. task.owner \in Owners /\ task.audience \in Batches /\ Source \in Judged
      BY <1>2, SourceShape DEF TaskStates, ProductInv
    <3> QED
      BY <2>1, <3>1 DEF Finals, FinalReviews, Owners
  <2>5. WellJudged(r)
    <3> SUFFICES ASSUME policy.audience
                 PROVE  /\ Cardinality({p \in Profiles : r.audience[p] # NoReview}) >= MinPrimary
                        /\ \A p \in Profiles : r.audience[p] # NoReview =>
                              /\ r.audience[p].of = r.of
                              /\ r.audience[p].verdict = "pass" \/ Accepted(r.audience[p])
      BY DEF WellJudged
    <3>1. AudienceIntegral /\ ~AudienceStale /\ ~NeedsMoreProfiles /\ ~AudienceFailed
      BY <2>3 DEF MayRecordFinal, AudienceValid
    <3>2. PICK looked : looked = {p \in Profiles : file.audience[p] # NoReview}
      OBVIOUS
    <3>3. looked # {}
      <4>1. Cardinality({}) = 0
        BY FS_EmptySet
      <4>2. PICK n : n = Cardinality(looked)
        OBVIOUS
      <4>3. ~(n < MinPrimary)
        BY <3>1, <3>2, <4>2 DEF NeedsMoreProfiles
      <4>4. MinPrimary \in 1 .. Cardinality(Profiles) /\ Cardinality(Profiles) \in Nat
        BY FS_CardinalityType, ProductReviewsAssumption
      <4> QED
        BY <4>1, <4>2, <4>3, <4>4
    <3>4. task.audience = file.audience
      <4>1. PICK p \in Profiles : file.audience[p] # NoReview
        BY <3>2, <3>3
      <4>2. Batch(file) # {}
        BY <4>1 DEF Batch
      <4> QED
        BY <3>1, <4>2 DEF AudienceIntegral
    <3>5. r.audience = file.audience /\ r.of = Source
      BY <2>1, <3>4
    <3>6. ASSUME NEW p \in Profiles, file.audience[p] # NoReview
          PROVE  /\ file.audience[p].of = Source
                 /\ file.audience[p].verdict = "pass" \/ Accepted(file.audience[p])
      <4>1. file.audience[p] \in Batch(file)
        BY <3>6 DEF Batch
      <4> QED
        BY <3>1, <4>1 DEF AudienceStale, AudienceFailed
    <3>7. Cardinality(looked) >= MinPrimary
      <4>1. ~(Cardinality(looked) < MinPrimary)
        BY <3>1, <3>2 DEF NeedsMoreProfiles
      <4>2. Cardinality(looked) \in Nat
        <5>1. looked \subseteq Profiles /\ IsFiniteSet(Profiles)
          BY <3>2, ProductReviewsAssumption
        <5> QED
          BY <5>1, FS_Subset, FS_CardinalityType
      <4>3. MinPrimary \in Nat
        BY FS_CardinalityType, ProductReviewsAssumption
      <4> QED
        BY <4>1, <4>2, <4>3
    <3> QED
      BY <3>2, <3>5, <3>6, <3>7
  <2>6. Save(t) \in Steps("agent", who)
    BY <1>2, <2>2, <2>4, TaskChanges, PlainSteps
  <2>7. <<Save(t)>> \in Seq(Steps("agent", who)) /\ Len(<<Save(t)>>) <= 4
    BY <2>6
  <2> QED
    BY <1>1, <1>2, <1>3, <2>3, <2>4, <2>5, <2>7, CommandKeeps, FileChanges DEF Unchanged
<1>5. ASSUME NEW d \in {"proceed", "revise", "revisit"}, DecideFinal(d) PROVE ProductInv'
  <2>1. PICK r : r = [file.final EXCEPT !.decision = d]
    OBVIOUS
  <2>2. PICK rest :
          rest = CASE d = "proceed" -> <<>>
                   [] d = "revise" -> <<Drop("final"), Go("execution", Open)>>
                   [] d = "revisit" -> <<Drop("final"), Drop("owner"), Go("product-specifier", Open)>>
    OBVIOUS
  <2>3. /\ file' = [file EXCEPT !.final = r] /\ task' = task /\ inputs' = inputs /\ Turn
        /\ Then("user", <<Seal("final", r)>> \o rest) /\ file.final # NoReview
    BY <1>5, <2>1, <2>2 DEF DecideFinal, MayDecideFinal, FinalIntegral
  <2>4. file.final \in FinalReviews /\ WellJudged(file.final)
    BY <1>2, <2>3 DEF Files, Finals
  <2>5. r \in FinalReviews /\ r.of = file.final.of /\ r.audience = file.final.audience
    BY <2>1, <2>4 DEF FinalReviews
  <2>6. WellJudged(r) /\ r \in Finals
    BY <2>4, <2>5 DEF WellJudged, Finals
  <2>7. /\ Seal("final", r) \in Steps("user", who) /\ Drop("owner") \in Steps("user", who)
        /\ Drop("final") \in Steps("user", who)
        /\ Go("execution", Open) \in Steps("user", who)
        /\ Go("product-specifier", Open) \in Steps("user", who)
    BY <2>6, PlainSteps DEF Returns, TaskPhases, Open
  <2>8. rest \in Seq(Steps("user", who)) /\ Len(rest) <= 3
    BY <1>5, <2>2, <2>7
  <2>9. <<Seal("final", r)>> \in Seq(Steps("user", who)) /\ Len(<<Seal("final", r)>>) = 1
    BY <2>7
  <2>10. PICK steps : steps = <<Seal("final", r)>> \o rest
    OBVIOUS
  <2>11. steps \in Seq(Steps("user", who)) /\ Len(steps) <= 4
    BY <2>8, <2>9, <2>10, ConcatProperties
  <2>12. turns' \in 0 .. MaxTurns /\ UNCHANGED <<policy, inTurn, outcome>>
    BY <1>2, <2>3, ProductReviewsAssumption DEF Turn
  <2> QED
    BY <1>1, <1>2, <1>3, <2>3, <2>6, <2>10, <2>11, <2>12, CommandKeeps, FileChanges
<1> QED
  BY <1>4, <1>5

-----------------------------------------------------------------------------
(* Steps that leave the commands that run alone. *)

LEMMA SaveKeeps ==
    ASSUME ProductInv, pending' = pending, task' \in SoundTasks(outcome.approver),
           file' \in Files, inputs' \in Inputs, turns' \in 0 .. MaxTurns,
           UNCHANGED <<policy, inTurn, outcome>>,
           file'.final = NoReview \/ file'.final = file.final
    PROVE  ProductInv'
<1>1. PendingFits'
  BY DEF ProductInv, PendingFits
<1> QED
  BY <1>1, StepKeeps DEF ProductInv

LEMMA MovesKeep ==
    ASSUME ProductInv,
           \/ \E which \in {"owner", "audience", "final"} : ResetReview(which)
           \/ CompleteSpecification \/ FindChangedSpec
           \/ \E validated \in BOOLEAN : CompleteExecution(validated)
           \/ RouteAudience \/ CompleteAudiencePhase
           \/ \E to \in {"revision", "execution", "product-specifier"} : RejectFinal(to)
           \/ EditProduct \/ EditResult
           \/ UNCHANGED reviewVars
    PROVE  ProductInv'
<1>1. PICK who : who = outcome.approver
  OBVIOUS
<1>2. /\ task \in SoundTasks(who) /\ task \in TaskStates /\ file \in Files /\ inputs \in Inputs
      /\ turns \in 0 .. MaxTurns /\ MaxTurns \in Nat /\ MaxChanges \in Nat
  BY <1>1, ProductReviewsAssumption DEF ProductInv, Shape, SoundTasks
<1>3. ASSUME Turn PROVE turns' \in 0 .. MaxTurns /\ UNCHANGED <<policy, inTurn, outcome>>
  BY <1>2, <1>3 DEF Turn
<1>4. ASSUME Unchanged
      PROVE UNCHANGED <<inputs, policy, inTurn, outcome>> /\ turns' \in 0 .. MaxTurns
  BY <1>2, <1>4 DEF Unchanged
<1>5. ASSUME NEW which \in {"owner", "audience", "final"}, ResetReview(which) PROVE ProductInv'
  <2>1. /\ task' = [task EXCEPT ![which] = Empty[which]]
        /\ file' = [file EXCEPT ![which] = Empty[which]]
        /\ pending' = pending /\ inputs' = inputs /\ Turn
    BY <1>5 DEF ResetReview
  <2> QED
    BY <1>1, <1>2, <1>3, <2>1, DropsAre, TaskDrops, SaveKeeps
<1>6. CASE CompleteSpecification \/ RouteAudience \/ CompleteAudiencePhase
  <2>1. PICK p \in TaskPhases : /\ task' = [task EXCEPT !.phase = p]
                                /\ UNCHANGED <<file, pending>> /\ Unchanged
    BY <1>6 DEF CompleteSpecification, RouteAudience, CompleteAudiencePhase, TaskPhases
  <2> QED
    BY <1>1, <1>2, <1>4, <2>1, TaskChanges, SaveKeeps
<1>7. CASE FindChangedSpec
  <2>1. /\ task' = [task EXCEPT !.phase = "spec-approval", !.sealed = NotApproved]
        /\ UNCHANGED <<file, pending>> /\ Unchanged /\ "spec-approval" \in TaskPhases
    BY <1>7 DEF FindChangedSpec, TaskPhases
  <2> QED
    BY <1>1, <1>2, <1>4, <2>1, TaskChanges, SaveKeeps
<1>8. ASSUME NEW validated \in BOOLEAN, CompleteExecution(validated) PROVE ProductInv'
  <2>1. PICK p \in TaskPhases : /\ \/ task' = [task EXCEPT !.phase = p]
                                   \/ task' = [task EXCEPT !.phase = p, !.revision = "validated"]
                                /\ UNCHANGED <<file, pending>> /\ Unchanged
    BY <1>8 DEF CompleteExecution, TaskPhases
  <2>2. [task EXCEPT !.phase = p, !.revision = "validated"] \in SoundTasks(who)
    BY <1>2 DEF SoundTasks, TaskStates
  <2>3. task' \in SoundTasks(who)
    BY <1>2, <2>1, <2>2, TaskChanges
  <2> QED
    BY <1>1, <1>2, <1>4, <2>1, <2>3, SaveKeeps
<1>9. ASSUME NEW to \in {"revision", "execution", "product-specifier"}, RejectFinal(to)
      PROVE ProductInv'
  <2>1. /\ \/ task' = [task EXCEPT !.phase = "execution", !.revision = "active"]
           \/ task' = InPhase(to) /\ to \in {"product-specifier", "execution"}
        /\ UNCHANGED <<file, pending>> /\ inputs' = inputs /\ Turn
    BY <1>9 DEF RejectFinal
  <2>2. "execution" \in TaskPhases /\ "product-specifier" \in TaskPhases
    BY DEF TaskPhases
  <2>3. [task EXCEPT !.phase = "execution", !.revision = "active"] \in SoundTasks(who)
    BY <1>2, <2>2 DEF SoundTasks, TaskStates
  <2>4. task' \in SoundTasks(who)
    BY <1>2, <2>1, <2>2, <2>3, TaskChanges
  <2> QED
    BY <1>1, <1>2, <1>3, <2>1, <2>4, SaveKeeps
<1>10. CASE EditProduct \/ EditResult
  <2>1. /\ inputs.product + inputs.result < MaxChanges
        /\ \/ inputs' = [inputs EXCEPT !.product = inputs.product + 1]
           \/ inputs' = [inputs EXCEPT !.result = inputs.result + 1]
        /\ UNCHANGED <<task, file, pending>> /\ Turn
    BY <1>10 DEF EditProduct, EditResult
  <2>2. inputs' \in Inputs
    BY <1>2, <2>1 DEF Inputs, Versions
  <2> QED
    BY <1>1, <1>2, <1>3, <2>1, <2>2, SaveKeeps
<1>11. CASE UNCHANGED reviewVars
  BY <1>1, <1>2, <1>11, SaveKeeps DEF reviewVars
<1> QED
  BY <1>5, <1>6, <1>7, <1>8, <1>9, <1>10, <1>11

-----------------------------------------------------------------------------
(* The two approvals. *)

(* Autonomy looks; an approval is called, or refused.                       *)
LEMMA CallsKeep ==
    ASSUME ProductInv,
           \/ AdvanceAutonomy \/ AdvanceRefused
           \/ \E a \in Actors : CallApproveSpecification(a)
    PROVE  ProductInv'
<1>1. /\ Shape /\ PendingFits /\ task \in TaskStates /\ file \in Files
      /\ task \in SoundTasks(outcome.approver)
      /\ file.final # NoReview => WellJudged(file.final)
  BY DEF ProductInv, Shape, SoundTasks
<1>2. /\ "agent" \in Actors
      /\ UNCHANGED <<task, file, inputs, policy, inTurn, turns, outcome>>
  BY DEF AdvanceAutonomy, AdvanceRefused, CallApproveSpecification, Unchanged, Actors
<1>3. CASE AdvanceAutonomy
  <2>1. PICK s : s = Advance(task.phase)
    OBVIOUS
  <2>2. /\ Then("agent", <<s>>)
        /\ task.phase = "final-approval" \/ (task.phase = "spec-approval" /\ ~OwnerBlocks)
    BY <1>3, <2>1 DEF AdvanceAutonomy
  <2>3. OwnerValid => Agreed(task.owner)
    BY <1>1 DEF OwnerValid, OwnerIntegral, OwnerUnresolved, Files, Owners, Agreed, Good
  <2>4. task.phase = "spec-approval" => Agreed(task.owner)
    BY <2>2, <2>3 DEF OwnerBlocks
  <2>5. s \in Crossings("agent")
    BY <1>1, <2>1, <2>2, <2>4 DEF Advance, Advances, Crossings, TaskStates
  <2> QED
    BY <1>1, <1>2, <2>2, <2>5, ThenCrosses, StepKeeps DEF Shape
<1>4. CASE AdvanceRefused
  <2>1. Then("agent", <<>>)
    BY <1>4 DEF AdvanceRefused
  <2>2. <<>> \in Seq(Steps("agent", outcome.approver)) /\ Len(<<>>) <= 4
    OBVIOUS
  <2> QED
    BY <1>1, <1>2, <2>1, <2>2, ThenFits, StepKeeps DEF Shape
<1>5. ASSUME NEW a \in Actors, CallApproveSpecification(a) PROVE ProductInv'
  <2>1. PICK looked : looked = IF a = "user" THEN task.owner ELSE Head(pending[a]).looked
    OBVIOUS
  <2>2. PICK t : t = [task EXCEPT !.phase = "execution", !.sealed = task.owner]
    OBVIOUS
  <2>3. PICK s : s = [do |-> "approve", looked |-> looked, task |-> t]
    OBVIOUS
  <2>4. Then(a, <<s>>) /\ Calls(a, "spec-approval")
    BY <1>5, <2>1, <2>2, <2>3 DEF CallApproveSpecification, Approve
  <2>5. looked \in Owners /\ (a = "agent" => Agreed(looked))
    <3>1. CASE a = "user"
      BY <1>1, <2>1, <3>1 DEF TaskStates
    <3>2. CASE a = "agent"
      <4>1. /\ ~Finished("agent") /\ Head(pending["agent"]).do = "advance"
            /\ Head(pending["agent"]).gate = "spec-approval"
        BY <2>4, <3>2 DEF Calls, Advancing
      <4>2. Head(pending["agent"]) \in Crossings("agent")
        BY <1>1, <1>2, <4>1, NextStep
      <4>3. Head(pending["agent"]) \in Advances
        BY <4>1, <4>2 DEF Crossings, Approvals
      <4>4. \A x \in Advances : x.gate = "spec-approval" => x.looked \in Owners /\ Agreed(x.looked)
        BY DEF Advances
      <4> QED
        BY <2>1, <3>2, <4>1, <4>3, <4>4
    <3> QED
      BY <3>1, <3>2 DEF Actors
  <2>6. t \in TaskStates /\ t.phase = "execution"
    <3>1. task.owner \in Sealed
      BY <1>1 DEF TaskStates, Owners, Sealed
    <3> QED
      BY <1>1, <2>2, <3>1 DEF TaskStates, TaskPhases
  <2>7. s \in Approvals(a)
    BY <2>3, <2>5, <2>6 DEF Approvals
  <2>8. s \in Crossings(a)
    BY <2>7 DEF Crossings
  <2> QED
    BY <1>1, <1>2, <2>4, <2>8, ThenCrosses, StepKeeps DEF Shape
<1> QED
  BY <1>3, <1>4, <1>5

(* Who approves the specification decides whether the Product Owner had to  *)
(* agree; a save of the agent that runs cannot, for then the agent is busy. *)
LEMMA SpecificationApproved ==
    ASSUME ProductInv, NEW a \in Actors, ApproveSpecification(a)
    PROVE  ProductInv'
<1>1. PICK s : s = Head(pending[a])
  OBVIOUS
<1>2. PICK who : who = IF a = "agent" /\ s.task.sealed # s.looked THEN "overtaken" ELSE a
  OBVIOUS
<1>3. /\ ~Finished(a) /\ s.do = "approve" /\ task' = s.task
      /\ outcome' = [outcome EXCEPT !.approver = who] /\ Then(a, <<>>)
      /\ UNCHANGED <<file, inputs, policy, inTurn, turns>>
  BY <1>1, <1>2 DEF ApproveSpecification
<1>4. Shape /\ PendingFits /\ task \in TaskStates /\ file \in Files /\ outcome \in Pasts
  BY DEF ProductInv, Shape, SoundTasks
<1>5. /\ outcome'.approver = who /\ outcome'.delivered = outcome.delivered
      /\ outcome' \in Pasts
  BY <1>2, <1>3, <1>4 DEF Pasts, Someone, Actors
<1>6. s \in Approvals(a)
  <2>1. s \in Crossings(a)
    BY <1>1, <1>3, <1>4, NextStep
  <2> QED
    BY <1>3, <2>1 DEF Crossings, Advances
<1>7. task' \in SoundTasks(who)
  BY <1>2, <1>3, <1>6 DEF Approvals, SoundTasks
<1>8. PendingFits'
  <2>1. pending' = [b \in Actors |-> IF b = a THEN <<>> ELSE pending[b]]
    BY <1>3, <1>4 DEF Then, PendingFits
  <2>2. <<>> \in Seq(Steps(a, who)) /\ Len(<<>>) <= 4
    OBVIOUS
  <2>3. ASSUME NEW b \in Actors, b # a,
               pending[b] \in Seq(Steps(b, outcome.approver)), Len(pending[b]) <= 4
        PROVE  pending[b] \in Seq(Steps(b, who))
    <3>1. CASE b = "agent"
      <4>1. who = "user"
        BY <1>2, <2>3, <3>1 DEF Actors
      <4>2. SoundTasks(who) = TaskStates /\ SoundTasks(outcome.approver) \subseteq TaskStates
        BY <4>1 DEF SoundTasks
      <4>3. PICK S, T : S = Steps(b, outcome.approver) /\ T = Steps(b, who)
        OBVIOUS
      <4>4. S \subseteq T
        BY <4>2, <4>3 DEF Steps, Saves
      <4>5. pending[b] \in Seq(T)
        BY <2>3, <4>3, <4>4
      <4> QED
        BY <4>3, <4>5
    <3>2. CASE b # "agent"
      BY <2>3, <3>2 DEF Steps
    <3> QED
      BY <3>1, <3>2
  <2>4. \A b \in Actors : Crossings(b)' = Crossings(b) /\ Steps(b, who)' = Steps(b, who)
    BY DEF Crossings, Approvals, Advances, Agreed, Good, Steps, Plain, Saves, SoundTasks
  <2>5. ASSUME NEW b \in Actors
        PROVE  \/ pending'[b] \in Seq(Steps(b, who)) /\ Len(pending'[b]) <= 4
               \/ \E x \in Crossings(b) : pending'[b] = <<x>>
    <3>1. CASE b = a
      BY <2>1, <2>2, <3>1
    <3>2. CASE b # a
      <4>1. pending'[b] = pending[b]
        BY <2>1, <3>2
      <4> QED
        BY <1>4, <2>3, <3>2, <4>1 DEF PendingFits
    <3> QED
      BY <3>1, <3>2
  <2> QED
    BY <1>5, <2>1, <2>4, <2>5 DEF PendingFits
<1>9. Shape'
  BY <1>3, <1>4, <1>5, <1>7 DEF Shape
<1>10. DeliveredIsJudged' /\ DeliveredIsAgreed'
  BY <1>3, <1>5 DEF ProductInv, DeliveredIsJudged, DeliveredIsAgreed, Agreed, Good, Accepted
<1>11. file'.final # NoReview => WellJudged(file.final)'
  BY <1>3 DEF ProductInv, WellJudged, Accepted
<1> QED
  BY <1>8, <1>9, <1>10, <1>11 DEF ProductInv

LEMMA FinalApproved ==
    ASSUME ProductInv, NEW a \in Actors, ApproveFinal(a)
    PROVE  ProductInv'
<1>1. PICK d : d = [by |-> a, approver |-> outcome.approver, preserved |-> Preserves,
                    of |-> Source, final |-> file.final]
  OBVIOUS
<1>2. /\ task' = [task EXCEPT !.phase = "done"] /\ MayApproveFinal
      /\ outcome' = [outcome EXCEPT !.delivered = d] /\ Then(a, <<>>)
      /\ UNCHANGED <<file, inputs, policy, inTurn, turns>>
  BY <1>1 DEF ApproveFinal
<1>3. /\ Shape /\ PendingFits /\ task \in TaskStates /\ file \in Files /\ outcome \in Pasts
      /\ task \in SoundTasks(outcome.approver)
  BY DEF ProductInv, Shape, SoundTasks
<1>4. d \in Deliveries
  <2>1. file.final \in Finals /\ outcome.approver \in Someone /\ Preserves \in BOOLEAN
    BY <1>3 DEF Files, Pasts, Preserves
  <2> QED
    BY <1>1, <1>3, <2>1, SourceShape DEF Deliveries
<1>5. outcome' \in Pasts /\ outcome'.delivered = d /\ outcome'.approver = outcome.approver
  BY <1>2, <1>3, <1>4 DEF Pasts
<1>6. task' \in SoundTasks(outcome.approver)
  BY <1>2, <1>3, TaskChanges DEF TaskPhases
<1>7. Shape'
  BY <1>2, <1>3, <1>5, <1>6 DEF Shape
<1>8. PendingFits'
  <2>1. pending' = [b \in Actors |-> IF b = a THEN <<>> ELSE pending[b]]
    BY <1>2, <1>3 DEF Then, PendingFits
  <2>2. <<>> \in Seq(Steps(a, outcome.approver)) /\ Len(<<>>) <= 4
    OBVIOUS
  <2> QED
    BY <1>3, <1>5, <2>1, <2>2 DEF PendingFits
<1>9. DeliveredIsJudged'
  <2> SUFFICES ASSUME ~d.preserved
               PROVE  /\ d.final.of = d.of /\ Good(d.final)
                      /\ WellJudged(d.final)
    BY <1>2, <1>5 DEF DeliveredIsJudged, WellJudged, Good, Accepted
  <2>1. ~Preserves
    BY <1>1
  <2>2. FinalValid /\ task.phase = "final-approval"
    BY <1>2, <2>1 DEF MayApproveFinal
  <2>3. /\ file.final # NoReview /\ file.final.of = Source
        /\ file.final.verdict = "ship" \/ file.final.decision = "proceed"
    BY <2>2 DEF FinalValid, FinalIntegral, FinalStale, FinalUnresolved
  <2>4. d.final = file.final /\ d.of = Source
    BY <1>1
  <2>5. WellJudged(file.final)
    BY <2>3 DEF ProductInv
  <2> QED
    BY <2>3, <2>4, <2>5 DEF Good
<1>10. DeliveredIsAgreed'
  <2> SUFFICES ASSUME outcome.approver = "agent" PROVE Agreed(Source.spec)
    BY <1>1, <1>5 DEF DeliveredIsAgreed, Agreed, Good
  <2>1. task.sealed = task.owner
    BY <1>2 DEF MayApproveFinal, SpecUnchanged
  <2>2. task.sealed # NotApproved
    BY <1>3, <2>1, ReviewsDiffer DEF TaskStates
  <2> QED
    BY <1>3, <2>2 DEF SoundTasks, Source
<1>11. file'.final # NoReview => WellJudged(file.final)'
  BY <1>2 DEF ProductInv, WellJudged, Accepted
<1> QED
  BY <1>2, <1>7, <1>8, <1>9, <1>10, <1>11 DEF ProductInv

-----------------------------------------------------------------------------
LEMMA ProductKept ==
    ASSUME ProductInv, [ReviewsNext]_reviewVars
    PROVE  ProductInv'
<1>1. ASSUME NEW a \in Actors,
             ContinueCommand(a) \/ CommandDies(a) \/ ApproveSpecification(a) \/ ApproveFinal(a)
      PROVE ProductInv'
  BY <1>1, ContinueKeeps, CrashKeeps, SpecificationApproved, FinalApproved
<1> QED
  BY <1>1, CallsKeep, OwnerSteps, AudienceSteps, FinalSteps, MovesKeep DEF ReviewsNext

LEMMA ProductAlways == ReviewsSpec => []ProductInv
<1>1. ReviewsInit => ProductInv
  BY ProductBegins
<1>2. ProductInv /\ [ReviewsNext]_reviewVars => ProductInv'
  BY ProductKept
<1> QED
  BY <1>1, <1>2, PTL DEF ReviewsSpec

(* The task, its review files and what commands have left to do keep their  *)
(* types.                                                                   *)
THEOREM ReviewsTyping == ReviewsSpec => []ReviewTypes
<1>1. ASSUME ProductInv PROVE ReviewTypes
  <2>1. ASSUME NEW a \in Actors PROVE Len(pending[a]) <= 4
    <3>1. CASE \E s \in Crossings(a) : pending[a] = <<s>>
      BY <3>1
    <3> QED
      BY <1>1, <3>1 DEF ProductInv, PendingFits
  <2> QED
    BY <1>1, <2>1 DEF ProductInv, Shape, ReviewTypes, SoundTasks, TaskStates, Files, Inputs, Owners,
                      Finals
<1> QED
  BY <1>1, ProductAlways, PTL

(* What is delivered was judged as it is: by the Product Owner's final      *)
(* review, and before by enough audience profiles that pass it or whose     *)
(* findings the user accepted, whatever was edited, decided, reset or       *)
(* interrupted in between (approveFinal and the digests of the reviews).    *)
THEOREM JudgmentSafety == ReviewsSpec => []DeliveredIsJudged
<1>1. ProductInv => DeliveredIsJudged
  BY DEF ProductInv
<1> QED
  BY <1>1, ProductAlways, PTL

-----------------------------------------------------------------------------
(* Commands in turn.  While autonomy has looked and has not saved, nothing  *)
(* else runs, so what it approves is what it had looked at.                 *)
TurnFits(steps, t) ==
    steps # <<>> =>
        /\ Head(steps).do = "advance" => Head(steps).looked = t.owner
        /\ Head(steps).do = "approve" => Head(steps).task.sealed = Head(steps).looked

TurnInv ==
    inTurn => /\ outcome.approver # "overtaken"
              /\ Finished("agent") \/ Finished("user")
              /\ TurnFits(pending["agent"], task)

(* A step of the only command.                                              *)
LEMMA TurnOf ==
    ASSUME PendingFits, NEW a \in Actors, \A b \in Actors \ {a} : Finished(b), NEW steps,
           Then(a, steps), a = "agent" => TurnFits(steps, task'),
           outcome'.approver # "overtaken"
    PROVE  TurnInv'
<1>1. pending' = [pending EXCEPT ![a] = steps] /\ DOMAIN pending = Actors
  BY DEF Then, PendingFits
<1>2. CASE a = "agent"
  <2>1. pending'["agent"] = steps /\ pending'["user"] = <<>>
    BY <1>1, <1>2 DEF Actors, Finished
  <2> QED
    BY <1>2, <2>1 DEF TurnInv, TurnFits, Finished
<1>3. CASE a = "user"
  <2>1. pending'["agent"] = <<>>
    BY <1>1, <1>3 DEF Actors, Finished
  <2> QED
    BY <2>1 DEF TurnInv, TurnFits, Finished
<1> QED
  BY <1>2, <1>3 DEF Actors

LEMMA TurnRests ==
    ASSUME AllFinished, pending' = pending, outcome'.approver # "overtaken"
    PROVE  TurnInv'
<1>1. pending'["agent"] = <<>>
  BY DEF AllFinished, Finished, Actors
<1> QED
  BY <1>1 DEF TurnInv, TurnFits, Finished

LEMMA TurnKept ==
    ASSUME ProductInv, TurnInv, [ReviewsNext]_reviewVars
    PROVE  TurnInv'
<1>1. /\ PendingFits /\ "agent" \in Actors /\ "user" \in Actors /\ task \in TaskStates
      /\ outcome \in Pasts
  BY DEF ProductInv, Shape, SoundTasks, Actors
<1>2. inTurn' = inTurn
  BY DEF ReviewsNext, ContinueCommand, CommandDies, CallApproveSpecification, ApproveSpecification,
         ApproveFinal, AdvanceAutonomy, AdvanceRefused, RecordOwner, DecideOwner, ResetReview,
         ReworkOwner, CompleteSpecification, Refine, RequestSpecChanges, FindChangedSpec,
         CompleteExecution, RecordTargetAudience, DecideAudience, RouteAudience,
         CompleteAudiencePhase, RecordFinal, DecideFinal, RejectFinal, EditProduct, EditResult,
         Unchanged, Turn, reviewVars
<1> SUFFICES ASSUME inTurn PROVE TurnInv'
  BY <1>2 DEF TurnInv
<1>3. outcome.approver # "overtaken" /\ (Finished("agent") \/ Finished("user"))
  BY DEF TurnInv
<1>4. ASSUME NEW a \in Actors, MayStart(a) PROVE AllFinished
  BY <1>4 DEF MayStart
<1>5. ASSUME NEW a \in Actors, MayStart(a) \/ ~Finished(a)
      PROVE  \A b \in Actors \ {a} : Finished(b)
  BY <1>3, <1>4, <1>5 DEF AllFinished, Actors
<1>6. ASSUME NEW a \in Actors, NEW gate, Calls(a, gate) PROVE MayStart(a) \/ ~Finished(a)
  BY <1>6 DEF Calls, Advancing, Actors
<1>7. ASSUME Unchanged \/ Turn PROVE outcome'.approver # "overtaken"
  BY <1>3, <1>7 DEF Unchanged, Turn
<1>8. TurnFits(<<>>, task')
  BY DEF TurnFits
<1>9. ASSUME NEW a \in Actors, ContinueCommand(a) PROVE TurnInv'
  <2>1. PICK rest : rest = Tail(pending[a])
    OBVIOUS
  <2>2. ~Finished(a) /\ Then(a, rest) /\ Unchanged
    BY <1>9, <2>1 DEF ContinueCommand
  <2>3. rest \in Seq(Steps(a, outcome.approver))
    <3>1. PICK S : S = Steps(a, outcome.approver)
      OBVIOUS
    <3>2. pending[a] \in Seq(S) /\ pending[a] # <<>>
      BY <1>1, <1>9, <2>2, <3>1, NextStep DEF ContinueCommand
    <3>3. Tail(pending[a]) \in Seq(S)
      BY <3>2
    <3> QED
      BY <2>1, <3>1, <3>3
  <2>4. \A s \in Steps(a, outcome.approver) : s.do \in {"save", "seal", "drop", "go"}
    BY DEF Steps, Plain, Seals, Drops, Goes, Saves
  <2>5. rest # <<>> => Head(rest) \in Steps(a, outcome.approver)
    <3>1. PICK S : S = Steps(a, outcome.approver)
      OBVIOUS
    <3> QED
      BY <2>3, <3>1
  <2>6. TurnFits(rest, task')
    BY <2>4, <2>5 DEF TurnFits
  <2> QED
    BY <1>1, <1>5, <1>7, <2>2, <2>6, TurnOf
<1>10. ASSUME NEW a \in Actors, CommandDies(a) PROVE TurnInv'
  <2>1. ~Finished(a) /\ Then(a, <<>>) /\ Unchanged
    BY <1>10 DEF CommandDies
  <2> QED
    BY <1>1, <1>5, <1>7, <1>8, <2>1, TurnOf
<1>11. ASSUME NEW a \in Actors, CallApproveSpecification(a) PROVE TurnInv'
  <2>1. PICK looked : looked = IF a = "user" THEN task.owner ELSE Head(pending[a]).looked
    OBVIOUS
  <2>2. Then(a, <<Approve(looked)>>) /\ Unchanged /\ Calls(a, "spec-approval")
    BY <1>11, <2>1 DEF CallApproveSpecification
  <2>3. looked = task.owner
    <3>1. CASE a = "user"
      BY <2>1, <3>1
    <3>2. CASE a = "agent"
      BY <2>1, <2>2, <3>2 DEF Calls, Advancing, TurnInv, TurnFits, Finished
    <3> QED
      BY <3>1, <3>2 DEF Actors
  <2>4. TurnFits(<<Approve(looked)>>, task')
    <3>1. PICK t : t = [task EXCEPT !.phase = "execution", !.sealed = task.owner]
      OBVIOUS
    <3>2. t.sealed = looked
      BY <1>1, <2>3, <3>1 DEF TaskStates
    <3>3. PICK s : s = [do |-> "approve", looked |-> looked, task |-> t]
      OBVIOUS
    <3>4. Head(<<s>>) = s /\ s = Approve(looked)
      BY <3>1, <3>3 DEF Approve
    <3> QED
      BY <3>2, <3>3, <3>4 DEF TurnFits
  <2> QED
    BY <1>1, <1>5, <1>6, <1>7, <2>2, <2>4, TurnOf
<1>12. ASSUME NEW a \in Actors, ApproveSpecification(a) PROVE TurnInv'
  <2>1. PICK s : s = Head(pending[a])
    OBVIOUS
  <2>2. PICK who : who = IF a = "agent" /\ s.task.sealed # s.looked THEN "overtaken" ELSE a
    OBVIOUS
  <2>3. /\ ~Finished(a) /\ s.do = "approve" /\ Then(a, <<>>)
        /\ outcome' = [outcome EXCEPT !.approver = who]
    BY <1>12, <2>1, <2>2 DEF ApproveSpecification
  <2>4. a = "agent" => s.task.sealed = s.looked
    BY <2>1, <2>3 DEF TurnInv, TurnFits, Finished
  <2>5. outcome'.approver # "overtaken"
    BY <1>1, <2>2, <2>3, <2>4 DEF Pasts, Actors
  <2> QED
    BY <1>1, <1>5, <1>8, <2>3, <2>5, TurnOf
<1>13. ASSUME NEW a \in Actors, ApproveFinal(a) PROVE TurnInv'
  <2>1. /\ Then(a, <<>>) /\ Calls(a, "final-approval")
        /\ \E d : outcome' = [outcome EXCEPT !.delivered = d]
    BY <1>13 DEF ApproveFinal
  <2>2. outcome'.approver # "overtaken"
    BY <1>1, <1>3, <2>1 DEF Pasts
  <2> QED
    BY <1>1, <1>5, <1>6, <1>8, <2>1, <2>2, TurnOf
<1>14. CASE AdvanceAutonomy
  <2>1. Then("agent", <<Advance(task.phase)>>) /\ MayStart("agent") /\ Unchanged /\ task' = task
    BY <1>14 DEF AdvanceAutonomy
  <2>2. TurnFits(<<Advance(task.phase)>>, task')
    BY <2>1 DEF TurnFits, Advance
  <2> QED
    BY <1>1, <1>5, <1>7, <2>1, <2>2, TurnOf
<1>15. CASE AdvanceRefused
  <2>1. Then("agent", <<>>) /\ ~Finished("agent") /\ Unchanged
    BY <1>15 DEF AdvanceRefused, Advancing
  <2> QED
    BY <1>1, <1>5, <1>7, <1>8, <2>1, TurnOf
<1>16. CASE \/ \E v \in {"build", "revise"} : RecordOwner(v)
            \/ \E p \in Profiles, v \in {"pass", "revise", "tradeoff"} : RecordTargetAudience(p, v)
            \/ \E v \in {"ship", "revise"} : RecordFinal(v)
            \/ Refine
  <2>1. PICK steps : /\ Then("agent", steps) /\ MayStart("agent") /\ (Unchanged \/ Turn)
                     /\ \/ \E t : steps = <<Save(t)>>
                        \/ steps = <<Drop("owner"), Go("product-specifier", TaskPhases)>>
    BY <1>16 DEF RecordOwner, RecordTargetAudience, RecordFinal, Refine
  <2>2. TurnFits(steps, task')
    BY <2>1 DEF TurnFits, Save, Drop
  <2> QED
    BY <1>1, <1>5, <1>7, <2>1, <2>2, TurnOf
<1>17. CASE \/ \E d \in {"proceed", "reject"} : DecideOwner(d)
            \/ \E d \in {"accept", "revise", "revisit"} : DecideAudience(d)
            \/ \E d \in {"proceed", "revise", "revisit"} : DecideFinal(d)
            \/ ReworkOwner \/ RequestSpecChanges
  <2>1. PICK steps : Then("user", steps) /\ MayStart("user") /\ Turn
    BY <1>17 DEF DecideOwner, DecideAudience, DecideFinal, ReworkOwner, RequestSpecChanges
  <2> QED
    BY <1>1, <1>5, <1>7, <2>1, TurnOf
<1>18. CASE \/ \E which \in {"owner", "audience", "final"} : ResetReview(which)
            \/ CompleteSpecification \/ FindChangedSpec
            \/ \E validated \in BOOLEAN : CompleteExecution(validated)
            \/ RouteAudience \/ CompleteAudiencePhase
            \/ \E to \in {"revision", "execution", "product-specifier"} : RejectFinal(to)
  <2>1. pending' = pending /\ (Unchanged \/ Turn) /\ \E a \in Actors : MayStart(a)
    BY <1>1, <1>18 DEF ResetReview, CompleteSpecification, FindChangedSpec, CompleteExecution,
                       RouteAudience, CompleteAudiencePhase, RejectFinal
  <2> QED
    BY <1>4, <1>7, <2>1, TurnRests
<1>19. CASE EditProduct \/ EditResult \/ UNCHANGED reviewVars
  <2>1. task' = task /\ pending' = pending /\ outcome' = outcome
    BY <1>19 DEF EditProduct, EditResult, Turn, reviewVars
  <2> QED
    BY <2>1 DEF TurnInv, TurnFits, Finished
<1> QED
  BY <1>9, <1>10, <1>11, <1>12, <1>13, <1>14, <1>15, <1>16, <1>17, <1>18, <1>19 DEF ReviewsNext

(* What autonomy approved and is delivered was agreed to when autonomy      *)
(* looked, by the Product Owner or by the user, whoever accepts the result; *)
(* and with commands in turn autonomy never approves a review it had not    *)
(* looked at (advanceAutonomy, which judges, and approveSpecification,      *)
(* which loads the task again and does not).                                *)
THEOREM AutonomySafety == ReviewsSpec => []AutonomousIsAgreed
<1>1. ReviewsInit => TurnInv
  BY DEF ReviewsInit, TurnInv, TurnFits, Finished, Actors
<1>2. ProductInv /\ TurnInv /\ [ReviewsNext]_reviewVars => TurnInv'
  BY TurnKept
<1>3. ProductInv /\ TurnInv => AutonomousIsAgreed
  BY DEF ProductInv, TurnInv, DeliveredIsAgreed, AutonomousIsAgreed, Agreed
<1> QED
  BY <1>1, <1>2, <1>3, ProductAlways, PTL DEF ReviewsSpec

-----------------------------------------------------------------------------
(* The final gate.  Inputs only grow, so a review that was made is of       *)
(* inputs no later than the present ones, and the audience's reviews are    *)
(* never of earlier inputs than the final review they go with.  A task that *)
(* waits for the final approval without a revision has an audience that     *)
(* judged the specification it is sealed with; so has the task that the     *)
(* agent's command is about to save there.                                  *)
Ofs == {r.of : r \in Batch(file)}
NotAfter(x, y) == x.product <= y.product /\ x.result <= y.result

ReviewsFit ==
    /\ \A of \in Ofs : NotAfter(of, inputs)
    /\ file.final # NoReview =>
          /\ NotAfter(file.final.of, inputs)
          /\ policy.audience => \A of \in Ofs : NotAfter(file.final.of, of)

GateFits(t) ==
    policy.audience /\ t.phase = "final-approval" /\ t.revision = "none"
        => \A of \in Ofs : of.spec = t.sealed

SavesFit(steps) == \A i \in 1 .. Len(steps) : steps[i].do = "save" => GateFits(steps[i].task)

GateInv == ReviewsFit /\ GateFits(task) /\ SavesFit(pending["agent"])

LEMMA GateBegins == ASSUME ReviewsInit PROVE GateInv
<1>1. /\ task.phase = "product-specifier" /\ file.final = NoReview
      /\ file.audience = NoBatch /\ pending["agent"] = <<>>
  BY DEF ReviewsInit, Actors
<1>2. Batch(file) = {}
  BY <1>1 DEF Batch, NoBatch
<1> QED
  BY <1>1, <1>2 DEF GateInv, ReviewsFit, GateFits, SavesFit, Ofs

LEMMA VersionsAre ==
    /\ \A j \in Judged : j.product \in Nat /\ j.result \in Nat
    /\ \A i \in Inputs : i.product \in Nat /\ i.result \in Nat
<1>1. Versions \subseteq Nat
  BY ProductReviewsAssumption DEF Versions
<1> QED
  BY <1>1 DEF Judged, Inputs

LEMMA OfsAreJudged ==
    ASSUME Shape
    PROVE  /\ Ofs \subseteq Judged
           /\ file.final # NoReview => file.final.of \in Judged
<1>1. ASSUME NEW of \in Ofs PROVE of \in Judged
  <2>1. PICK p \in Profiles : of = file.audience[p].of /\ file.audience[p] # NoReview
    BY DEF Ofs, Batch
  <2>2. file.audience[p] \in AudienceReviews
    BY <2>1 DEF Shape, Files, Batches
  <2> QED
    BY <2>1, <2>2 DEF AudienceReviews
<1>2. file.final # NoReview => file.final.of \in Judged
  BY DEF Shape, Files, Finals, FinalReviews
<1> QED
  BY <1>1, <1>2

(* A step that makes no review keeps what the reviews are of.               *)
LEMMA GateKept ==
    ASSUME Shape, inputs' \in Inputs, GateInv, Ofs' \subseteq Ofs, policy' = policy,
           NotAfter(inputs, inputs'),
           file'.final = NoReview \/ (file.final # NoReview /\ file'.final.of = file.final.of),
           GateFits(task'), SavesFit(pending'["agent"])
    PROVE  GateInv'
<1>1. /\ inputs.product \in Nat /\ inputs.result \in Nat
      /\ inputs'.product \in Nat /\ inputs'.result \in Nat
  BY VersionsAre DEF Shape
<1>2. \A of \in Ofs : of.product \in Nat /\ of.result \in Nat
  BY VersionsAre, OfsAreJudged
<1>3. file.final # NoReview => file.final.of.product \in Nat /\ file.final.of.result \in Nat
  BY VersionsAre, OfsAreJudged
<1>4. \A of \in Ofs' : NotAfter(of, inputs')
  BY <1>1, <1>2 DEF GateInv, ReviewsFit, NotAfter
<1>5. ASSUME file'.final # NoReview
      PROVE  /\ NotAfter(file'.final.of, inputs')
             /\ policy'.audience => \A of \in Ofs' : NotAfter(file'.final.of, of)
  <2>1. file.final # NoReview /\ file'.final.of = file.final.of
    BY <1>5
  <2>2. NotAfter(file'.final.of, inputs')
    BY <1>1, <1>3, <2>1 DEF GateInv, ReviewsFit, NotAfter
  <2>3. policy'.audience => \A of \in Ofs' : NotAfter(file'.final.of, of)
    BY <2>1 DEF GateInv, ReviewsFit
  <2> QED
    BY <2>2, <2>3
<1>6. ReviewsFit'
  BY <1>4, <1>5 DEF ReviewsFit, NotAfter
<1>7. GateFits(task)'
  BY DEF GateFits
<1>8. SavesFit(pending["agent"])'
  BY DEF SavesFit, GateFits
<1> QED
  BY <1>6, <1>7, <1>8 DEF GateInv

LEMMA OfsShrink ==
    ASSUME \A p \in Profiles :
              file'.audience[p] = NoReview \/
              (file.audience[p] # NoReview /\ file'.audience[p].of = file.audience[p].of)
    PROVE  Ofs' \subseteq Ofs
<1>1. ASSUME NEW of \in Ofs' PROVE of \in Ofs
  <2>1. PICK p \in Profiles : of = file'.audience[p].of /\ file'.audience[p] # NoReview
    BY <1>1 DEF Ofs, Batch
  <2>2. file.audience[p] \in Batch(file) /\ of = file.audience[p].of
    BY <2>1 DEF Batch
  <2> QED
    BY <2>2 DEF Ofs
<1> QED
  BY <1>1

LEMMA DropsShrink ==
    ASSUME file \in Files, NEW which \in {"owner", "audience", "final"},
           file' = [file EXCEPT ![which] = Empty[which]]
    PROVE  /\ Ofs' \subseteq Ofs
           /\ file'.final = NoReview \/ file'.final = file.final
<1>1. CASE which = "audience"
  <2>1. file'.audience = NoBatch
    BY <1>1 DEF Empty, Files
  <2>2. \A p \in Profiles : file'.audience[p] = NoReview
    BY <2>1 DEF NoBatch
  <2> QED
    BY <2>2, OfsShrink, DropsAre
<1>2. CASE which # "audience"
  <2>1. file'.audience = file.audience
    BY <1>2 DEF Files
  <2>2. Ofs' \subseteq Ofs
    BY <2>1, OfsShrink
  <2> QED
    BY <2>2, DropsAre
<1> QED
  BY <1>1, <1>2

-----------------------------------------------------------------------------
(* The steps, for the final gate. *)

LEMMA InputsStay == ASSUME Shape PROVE NotAfter(inputs, inputs)
BY VersionsAre DEF Shape, NotAfter

(* A task that is elsewhere, or went through a revision, waits for nothing. *)
LEMMA Elsewhere ==
    ASSUME NEW t, t.phase # "final-approval" \/ t.revision # "none" \/ ~policy.audience
    PROVE  GateFits(t)
BY DEF GateFits

LEMMA SameTask ==
    ASSUME NEW t, GateFits(task), t.phase = task.phase, t.revision = task.revision,
           t.sealed = task.sealed
    PROVE  GateFits(t)
BY DEF GateFits

LEMMA Changed ==
    ASSUME task \in TaskStates
    PROVE  /\ \A which \in {"owner", "audience", "final"} : \A v :
                 LET t == [task EXCEPT ![which] = v]
                 IN t.phase = task.phase /\ t.revision = task.revision /\ t.sealed = task.sealed
           /\ \A p : [task EXCEPT !.phase = p].phase = p
           /\ \A p : InPhase(p).phase = p
BY DEF TaskStates, InPhase

LEMMA GateContinue ==
    ASSUME ProductInv, GateInv, NEW a \in Actors, ContinueCommand(a)
    PROVE  GateInv'
<1>1. PICK s : s = Head(pending[a])
  OBVIOUS
<1>2. PICK who : who = outcome.approver
  OBVIOUS
<1>3. /\ Shape /\ PendingFits /\ task \in TaskStates /\ file \in Files /\ inputs \in Inputs
      /\ GateFits(task) /\ SavesFit(pending["agent"])
  BY DEF ProductInv, Shape, SoundTasks, GateInv
<1>4. pending[a] \in Seq(Steps(a, who)) /\ pending[a] # <<>>
  BY <1>2, <1>3, NextStep DEF ContinueCommand
<1>5. PICK S : S = Steps(a, who)
  OBVIOUS
<1>6. /\ s \in S /\ Len(pending[a]) \in Nat \ {0} /\ s = pending[a][1]
      /\ Len(Tail(pending[a])) = Len(pending[a]) - 1
      /\ \A i \in 1 .. Len(Tail(pending[a])) : Tail(pending[a])[i] = pending[a][i + 1]
  BY <1>1, <1>4, <1>5
<1>7. /\ task' = CASE s.do = "save" -> s.task
                   [] s.do = "seal" -> [task EXCEPT ![s.which] = s.value]
                   [] s.do = "drop" -> [task EXCEPT ![s.which] = Empty[s.which]]
                   [] s.do = "go" -> IF task.phase \in s.from THEN InPhase(s.phase) ELSE task
      /\ file' = IF s.do = "drop" THEN [file EXCEPT ![s.which] = Empty[s.which]] ELSE file
      /\ Then(a, Tail(pending[a])) /\ Unchanged
  BY <1>1 DEF ContinueCommand
<1>8. SavesFit(pending'["agent"])
  <2>1. pending' = [pending EXCEPT ![a] = Tail(pending[a])] /\ DOMAIN pending = Actors
    BY <1>3, <1>7 DEF Then, PendingFits
  <2>2. CASE a = "agent"
    <3>1. pending'["agent"] = Tail(pending[a])
      BY <2>1, <2>2
    <3>2. SavesFit(pending[a])
      BY <1>3, <2>2
    <3>3. \A i \in 1 .. Len(Tail(pending[a])) : i + 1 \in 1 .. Len(pending[a])
      BY <1>6
    <3> QED
      BY <1>6, <3>1, <3>2, <3>3 DEF SavesFit
  <2>3. CASE a # "agent"
    <3>1. pending'["agent"] = pending["agent"]
      BY <2>1, <2>3
    <3> QED
      BY <1>3, <3>1
  <2> QED
    BY <2>2, <2>3
<1>9. file' = file => Ofs' = Ofs
  BY DEF Ofs, Batch
<1>10. /\ GateFits(task') /\ Ofs' \subseteq Ofs
       /\ file'.final = NoReview \/ file'.final = file.final
  <2>1. CASE s \in Saves(who) /\ a = "agent"
    <3>1. s.do = "save"
      BY <2>1 DEF Saves
    <3>2. 1 \in 1 .. Len(pending[a]) /\ pending[a][1].do = "save" /\ task' = pending[a][1].task
      BY <1>6, <1>7, <3>1
    <3>3. GateFits(task')
      BY <1>3, <2>1, <3>2 DEF SavesFit
    <3> QED
      BY <1>7, <1>9, <3>1, <3>3
  <2>2. CASE s \in Seals
    <3>1. s.do = "seal" /\ s.which \in {"owner", "audience", "final"}
      BY <2>2 DEF Seals
    <3>2. task' = [task EXCEPT ![s.which] = s.value] /\ file' = file
      BY <1>7, <3>1
    <3>3. GateFits(task')
      BY <1>3, <3>1, <3>2, Changed, SameTask
    <3> QED
      BY <1>9, <3>2, <3>3
  <2>3. CASE s \in Drops
    <3>1. s.do = "drop" /\ s.which \in {"owner", "audience", "final"}
      BY <2>3 DEF Drops
    <3>2. /\ task' = [task EXCEPT ![s.which] = Empty[s.which]]
          /\ file' = [file EXCEPT ![s.which] = Empty[s.which]]
      BY <1>7, <3>1
    <3>3. GateFits(task')
      BY <1>3, <3>1, <3>2, Changed, SameTask
    <3> QED
      BY <1>3, <3>1, <3>2, <3>3, DropsShrink
  <2>4. CASE s \in Goes
    <3>1. s.do = "go" /\ s.phase \in Returns
      BY <2>4 DEF Goes
    <3>2. (task' = task \/ task' = InPhase(s.phase)) /\ file' = file
      BY <1>7, <3>1
    <3>3. GateFits(InPhase(s.phase))
      BY <1>3, <3>1, Changed, Elsewhere DEF Returns
    <3> QED
      BY <1>3, <1>9, <3>2, <3>3
  <2> QED
    BY <1>5, <1>6, <2>1, <2>2, <2>3, <2>4 DEF Steps, Plain
<1>11. file'.final = NoReview \/ (file.final # NoReview /\ file'.final.of = file.final.of)
  BY <1>10
<1>12. inputs' = inputs /\ policy' = policy
  BY <1>7 DEF Unchanged
<1> QED
  BY <1>3, <1>8, <1>10, <1>11, <1>12, InputsStay, GateKept DEF GateInv

(* A step of the task that leaves the reviews, or drops one.                *)
LEMMA GateMoves ==
    ASSUME ProductInv, GateInv,
           \/ \E a \in Actors : CommandDies(a) \/ CallApproveSpecification(a)
           \/ \E a \in Actors : ApproveSpecification(a) \/ ApproveFinal(a)
           \/ AdvanceAutonomy \/ AdvanceRefused
           \/ \E which \in {"owner", "audience", "final"} : ResetReview(which)
           \/ ReworkOwner \/ CompleteSpecification \/ FindChangedSpec
           \/ Refine \/ RequestSpecChanges
           \/ \E validated \in BOOLEAN : CompleteExecution(validated)
           \/ RouteAudience \/ CompleteAudiencePhase
           \/ \E to \in {"revision", "execution", "product-specifier"} : RejectFinal(to)
           \/ UNCHANGED reviewVars
    PROVE  GateInv'
<1>1. /\ Shape /\ PendingFits /\ task \in TaskStates /\ file \in Files /\ inputs \in Inputs
      /\ GateFits(task) /\ SavesFit(pending["agent"]) /\ DOMAIN pending = Actors
  BY DEF ProductInv, Shape, SoundTasks, GateInv, PendingFits
<1>2. SavesFit(<<>>)
  BY DEF SavesFit
<1> DEFINE Same == inputs' = inputs /\ policy' = policy
           Alone == SavesFit(pending'["agent"])
           Kept == file' = file \/ \E which \in {"owner", "audience", "final"} :
                                      file' = [file EXCEPT ![which] = Empty[which]]
<1>3. ASSUME Same, Alone, Kept, GateFits(task') PROVE GateInv'
  <2>1. file' = file => Ofs' = Ofs
    BY DEF Ofs, Batch
  <2>2. Ofs' \subseteq Ofs /\ (file'.final = NoReview \/ file'.final = file.final)
    BY <1>1, <1>3, <2>1, DropsShrink
  <2>3. NotAfter(inputs, inputs') /\ inputs' \in Inputs
    BY <1>1, <1>3, InputsStay
  <2> QED
    BY <1>1, <1>3, <2>2, <2>3, GateKept
<1>4. ASSUME pending' = pending PROVE Alone
  BY <1>1, <1>4
<1>5. ASSUME NEW a \in Actors, NEW steps, SavesFit(steps), Then(a, steps) PROVE Alone
  <2>1. pending'["agent"] = steps \/ pending'["agent"] = pending["agent"]
    BY <1>1, <1>5 DEF Then, Actors
  <2> QED
    BY <1>1, <1>5, <2>1
<1>6. ASSUME NEW a \in Actors, CommandDies(a) PROVE GateInv'
  <2>1. Then(a, <<>>) /\ task' = task /\ file' = file /\ Same
    BY <1>6 DEF CommandDies, Unchanged
  <2> QED
    BY <1>1, <1>2, <1>3, <1>5, <2>1
<1>7. ASSUME NEW a \in Actors, ApproveSpecification(a) \/ ApproveFinal(a) PROVE GateInv'
  <2>1. file' = file /\ Then(a, <<>>) /\ Same
    BY <1>7 DEF ApproveSpecification, ApproveFinal
  <2>2. CASE ApproveSpecification(a)
    <3>1. /\ ~Finished(a) /\ Head(pending[a]).do = "approve" /\ task' = Head(pending[a]).task
      BY <2>2 DEF ApproveSpecification
    <3>2. Head(pending[a]) \in Crossings(a)
      BY <1>1, <3>1, NextStep
    <3>3. Head(pending[a]) \in Approvals(a)
      BY <3>1, <3>2 DEF Crossings, Advances
    <3>4. \A s \in Approvals(a) : s.task.phase = "execution"
      BY DEF Approvals
    <3> QED
      BY <1>2, <1>3, <1>5, <2>1, <3>1, <3>3, <3>4, Elsewhere
  <2>3. CASE ApproveFinal(a)
    <3>1. task'.phase = "done"
      BY <1>1, <2>3 DEF ApproveFinal, TaskStates
    <3> QED
      BY <1>2, <1>3, <1>5, <2>1, <3>1, Elsewhere
  <2> QED
    BY <1>7, <2>2, <2>3
<1>16. CASE AdvanceAutonomy \/ AdvanceRefused \/ \E a \in Actors : CallApproveSpecification(a)
  <2>1. /\ task' = task /\ file' = file /\ Same
        /\ \E a \in Actors : \/ Then(a, <<>>) \/ Then(a, <<Advance(task.phase)>>)
                             \/ \E looked : Then(a, <<Approve(looked)>>)
    BY <1>16 DEF AdvanceAutonomy, AdvanceRefused, CallApproveSpecification, Unchanged, Actors
  <2>2. SavesFit(<<Advance(task.phase)>>) /\ \A looked : SavesFit(<<Approve(looked)>>)
    BY DEF SavesFit, Advance, Approve
  <2>3. Alone
    BY <1>2, <1>5, <2>1, <2>2
  <2> QED
    BY <1>1, <1>3, <2>1, <2>3
<1>8. ASSUME NEW which \in {"owner", "audience", "final"}, ResetReview(which) PROVE GateInv'
  <2>1. /\ task' = [task EXCEPT ![which] = Empty[which]] /\ pending' = pending /\ Same
        /\ file' = [file EXCEPT ![which] = Empty[which]]
    BY <1>8 DEF ResetReview, Turn
  <2>2. GateFits(task')
    BY <1>1, <2>1, Changed, SameTask
  <2> QED
    BY <1>3, <1>4, <2>1, <2>2
<1>9. CASE ReworkOwner
  <2>1. /\ task' = [task EXCEPT !["owner"] = NoReview] /\ file' = file /\ Same
        /\ Then("user", <<Drop("owner")>>) /\ "user" \in Actors
    BY <1>9 DEF ReworkOwner, Turn, Actors
  <2>2. GateFits(task')
    BY <1>1, <2>1, Changed, SameTask
  <2>3. SavesFit(<<Drop("owner")>>)
    BY DEF SavesFit, Drop
  <2> QED
    BY <1>3, <1>5, <2>1, <2>2, <2>3
<1>10. CASE CompleteSpecification \/ FindChangedSpec \/ RouteAudience
  <2>1. /\ task'.phase \in {"spec-approval", "execution"} /\ file' = file
        /\ pending' = pending /\ Same
    BY <1>1, <1>10 DEF CompleteSpecification, FindChangedSpec, RouteAudience, TaskStates, Unchanged
  <2> QED
    BY <1>3, <1>4, <2>1, Elsewhere
<1>11. CASE Refine \/ RequestSpecChanges
  <2>1. PICK steps : steps = <<Drop("owner"), Go("product-specifier", TaskPhases)>>
    OBVIOUS
  <2>2. SavesFit(steps)
    BY <2>1 DEF SavesFit, Drop, Go
  <2>3. (Then("agent", steps) \/ Then("user", steps)) /\ task' = task /\ file' = file /\ Same
    BY <1>11, <2>1 DEF Refine, RequestSpecChanges, Turn
  <2>4. Alone
    BY <1>5, <2>2, <2>3 DEF Actors
  <2> QED
    BY <1>1, <1>3, <2>3, <2>4
<1>12. ASSUME NEW validated \in BOOLEAN, CompleteExecution(validated) PROVE GateInv'
  <2>1. /\ file' = file /\ pending' = pending /\ Same
        /\ \/ task'.revision = "validated" \/ task'.phase = "final-customer" \/ ~policy.audience
    BY <1>1, <1>12 DEF CompleteExecution, TaskStates, Unchanged
  <2> QED
    BY <1>3, <1>4, <2>1, Elsewhere
<1>13. CASE CompleteAudiencePhase
  <2>1. /\ task' = [task EXCEPT !.phase = "final-approval"] /\ file' = file
        /\ pending' = pending /\ Same /\ (policy.audience => ~AudienceStale)
    BY <1>13 DEF CompleteAudiencePhase, MayCompleteAudience, AudienceValid, Unchanged
  <2>2. ASSUME policy.audience, NEW of \in Ofs PROVE of.spec = task.sealed
    <3>1. PICK r \in Batch(file) : of = r.of
      BY DEF Ofs
    <3>2. of = Source
      BY <2>1, <2>2, <3>1 DEF AudienceStale
    <3> QED
      BY <3>2 DEF Source
  <2>3. task'.sealed = task.sealed
    BY <1>1, <2>1 DEF TaskStates
  <2>4. GateFits(task')
    BY <2>2, <2>3 DEF GateFits
  <2> QED
    BY <1>3, <1>4, <2>1, <2>4
<1>14. ASSUME NEW to \in {"revision", "execution", "product-specifier"}, RejectFinal(to)
       PROVE GateInv'
  <2>1. /\ task'.phase # "final-approval" /\ file' = file /\ pending' = pending /\ Same
    BY <1>1, <1>14, Changed DEF RejectFinal, TaskStates, Turn
  <2> QED
    BY <1>3, <1>4, <2>1, Elsewhere
<1>15. CASE UNCHANGED reviewVars
  <2>1. task' = task /\ file' = file /\ pending' = pending /\ Same
    BY <1>15 DEF reviewVars
  <2> QED
    BY <1>1, <1>3, <1>4, <2>1
<1> QED
  BY <1>6, <1>7, <1>8, <1>9, <1>10, <1>11, <1>12, <1>13, <1>14, <1>15, <1>16

(* The Product Owner's and the user's commands, and edits, do not move the  *)
(* task; none makes a review of the audience.                               *)
LEMMA GateCommands ==
    ASSUME ProductInv, GateInv,
           \/ \E v \in {"build", "revise"} : RecordOwner(v)
           \/ \E d \in {"proceed", "reject"} : DecideOwner(d)
           \/ \E d \in {"accept", "revise", "revisit"} : DecideAudience(d)
           \/ \E d \in {"proceed", "revise", "revisit"} : DecideFinal(d)
           \/ EditProduct \/ EditResult
    PROVE  GateInv'
<1>1. /\ Shape /\ task \in TaskStates /\ file \in Files /\ inputs \in Inputs
      /\ GateFits(task) /\ SavesFit(pending["agent"]) /\ DOMAIN pending = Actors
  BY DEF ProductInv, Shape, SoundTasks, GateInv, PendingFits
<1>2. ASSUME NEW steps, Then("user", steps) PROVE SavesFit(pending'["agent"])
  <2>1. pending'["agent"] = pending["agent"]
    BY <1>1, <1>2 DEF Then, Actors
  <2> QED
    BY <1>1, <2>1
<1>3. file'.audience = file.audience => Ofs' = Ofs
  BY DEF Ofs, Batch
<1>4. ASSUME NEW v \in {"build", "revise"}, RecordOwner(v) PROVE GateInv'
  <2>1. PICK r, t : /\ t = [task EXCEPT !.owner = r] /\ file' = [file EXCEPT !.owner = r]
                    /\ Then("agent", <<Save(t)>>) /\ task' = task /\ Unchanged
                    /\ task.phase = "product-specifier"
    BY <1>4 DEF RecordOwner, MayRecordOwner
  <2>2. file'.audience = file.audience /\ file'.final = file.final
    BY <1>1, <2>1 DEF Files
  <2>3. GateFits(t)
    BY <1>1, <2>1, Elsewhere DEF TaskStates
  <2>4. SavesFit(<<Save(t)>>)
    BY <2>3 DEF SavesFit, Save
  <2>5. pending'["agent"] = <<Save(t)>>
    BY <1>1, <2>1 DEF Then, Actors
  <2> QED
    BY <1>1, <1>3, <2>1, <2>2, <2>4, <2>5, InputsStay, GateKept DEF Unchanged
<1>5. ASSUME NEW d \in {"proceed", "reject"}, DecideOwner(d) PROVE GateInv'
  <2>1. PICK r, steps : /\ file' = [file EXCEPT !.owner = r] /\ Then("user", steps)
                        /\ task' = task /\ inputs' = inputs /\ Turn
    BY <1>5 DEF DecideOwner
  <2>2. file'.audience = file.audience /\ file'.final = file.final
    BY <1>1, <2>1 DEF Files
  <2> QED
    BY <1>1, <1>2, <1>3, <2>1, <2>2, InputsStay, GateKept DEF Turn
<1>6. ASSUME NEW d \in {"accept", "revise", "revisit"}, DecideAudience(d) PROVE GateInv'
  <2>1. PICK new, steps :
          /\ new = [p \in Profiles |->
                     LET r == file.audience[p]
                     IN IF r = NoReview \/ (d = "accept" /\ r.verdict # "tradeoff") THEN r
                        ELSE [r EXCEPT !.decision = IF d = "accept" THEN d ELSE "revise"]]
          /\ file' = [file EXCEPT !.audience = new] /\ Then("user", steps)
          /\ task' = task /\ inputs' = inputs /\ Turn
    BY <1>6 DEF DecideAudience
  <2>2. file'.audience = new /\ file'.final = file.final
    BY <1>1, <2>1 DEF Files
  <2>3. ASSUME NEW p \in Profiles
        PROVE  \/ new[p] = NoReview
               \/ file.audience[p] # NoReview /\ new[p].of = file.audience[p].of
    <3>1. PICK r : r = file.audience[p]
      OBVIOUS
    <3>2. r \in AudienceReviews \cup {NoReview}
      BY <1>1, <3>1 DEF Files, Batches
    <3>3. \/ new[p] = r
          \/ r # NoReview /\ \E x : new[p] = [r EXCEPT !.decision = x]
      BY <2>1, <3>1
    <3> QED
      BY <3>1, <3>2, <3>3 DEF AudienceReviews
  <2>4. Ofs' \subseteq Ofs
    BY <2>2, <2>3, OfsShrink
  <2> QED
    BY <1>1, <1>2, <2>1, <2>2, <2>4, InputsStay, GateKept DEF Turn
<1>7. ASSUME NEW d \in {"proceed", "revise", "revisit"}, DecideFinal(d) PROVE GateInv'
  <2>1. PICK r, steps : /\ r = [file.final EXCEPT !.decision = d] /\ file.final # NoReview
                        /\ file' = [file EXCEPT !.final = r] /\ Then("user", steps)
                        /\ task' = task /\ inputs' = inputs /\ Turn
    BY <1>7 DEF DecideFinal, MayDecideFinal, FinalIntegral
  <2>2. file'.audience = file.audience /\ file'.final = r
    BY <1>1, <2>1 DEF Files
  <2>3. r.of = file.final.of
    BY <1>1, <2>1 DEF Files, Finals, FinalReviews
  <2> QED
    BY <1>1, <1>2, <1>3, <2>1, <2>2, <2>3, InputsStay, GateKept DEF Turn
<1>8. CASE EditProduct \/ EditResult
  <2>1. /\ inputs.product + inputs.result < MaxChanges
        /\ \/ inputs' = [inputs EXCEPT !.product = inputs.product + 1]
           \/ inputs' = [inputs EXCEPT !.result = inputs.result + 1]
        /\ UNCHANGED <<task, file, pending>> /\ Turn
    BY <1>8 DEF EditProduct, EditResult
  <2>2. inputs.product \in 0 .. MaxChanges /\ inputs.result \in 0 .. MaxChanges /\ MaxChanges \in Nat
    BY <1>1, ProductReviewsAssumption DEF Inputs, Versions
  <2>3. inputs' \in Inputs /\ NotAfter(inputs, inputs')
    BY <1>1, <2>1, <2>2 DEF Inputs, Versions, NotAfter
  <2> QED
    BY <1>1, <1>3, <2>1, <2>3, GateKept DEF Turn
<1> QED
  BY <1>4, <1>5, <1>6, <1>7, <1>8

LEMMA SourceNow == ASSUME Shape PROVE NotAfter(Source, Source) /\ NotAfter(Source, inputs)
BY VersionsAre DEF Shape, NotAfter, Source

(* The audience judges what there is now: a batch of something else is      *)
(* cleared first.                                                           *)
LEMMA GateAudience ==
    ASSUME ProductInv, GateInv, NEW p \in Profiles, NEW v \in {"pass", "revise", "tradeoff"},
           RecordTargetAudience(p, v)
    PROVE  GateInv'
<1>1. /\ Shape /\ task \in TaskStates /\ file \in Files /\ inputs \in Inputs
      /\ DOMAIN pending = Actors /\ file.audience \in Batches
  BY DEF ProductInv, Shape, SoundTasks, PendingFits, Files
<1>2. PICK batch : batch = IF AudienceStale THEN NoBatch ELSE file.audience
  OBVIOUS
<1>3. PICK new : new = [batch EXCEPT ![p] = [verdict |-> v, of |-> Source, decision |-> "none"]]
  OBVIOUS
<1>4. PICK t : t = [task EXCEPT !.audience = new]
  OBVIOUS
<1>5. /\ file' = [file EXCEPT !.audience = new] /\ Unchanged
      /\ task' = IF AudienceStale THEN [task EXCEPT !.audience = NoBatch] ELSE task
      /\ Then("agent", <<Save(t)>>) /\ task.phase = "final-customer"
  BY <1>2, <1>3, <1>4 DEF RecordTargetAudience, MayRecordAudience
<1>6. file'.audience = new /\ file'.final = file.final
  BY <1>1, <1>5 DEF Files
<1>7. ASSUME NEW of \in Ofs' PROVE of = Source
  <2>1. PICK q \in Profiles : of = new[q].of /\ new[q] # NoReview
    BY <1>6 DEF Ofs, Batch
  <2>2. new[q] = (IF q = p THEN [verdict |-> v, of |-> Source, decision |-> "none"]
                  ELSE batch[q])
    BY <1>1, <1>2, <1>3, NoBatchIsBatch DEF Batches
  <2>3. CASE q = p
    BY <2>1, <2>2, <2>3
  <2>4. CASE q # p
    <3>1. batch[q] # NoReview
      BY <2>1, <2>2, <2>4
    <3>2. ~AudienceStale /\ batch = file.audience
      BY <1>2, <3>1 DEF NoBatch
    <3>3. batch[q] \in Batch(file)
      BY <3>1, <3>2 DEF Batch
    <3> QED
      BY <2>1, <2>2, <2>4, <3>2, <3>3 DEF AudienceStale
  <2> QED
    BY <2>3, <2>4
<1>8. inputs' = inputs /\ policy' = policy
  BY <1>5 DEF Unchanged
<1>9. ReviewsFit'
  <2>1. \A of \in Ofs' : NotAfter(of, inputs')
    BY <1>1, <1>7, <1>8, SourceNow
  <2>2. ASSUME file'.final # NoReview PROVE NotAfter(file'.final.of, inputs)
    BY <1>6, <2>2 DEF GateInv, ReviewsFit
  <2>3. ASSUME file'.final # NoReview, NEW of \in Ofs' PROVE NotAfter(file'.final.of, of)
    <3>1. of = Source
      BY <1>7, <2>3
    <3> QED
      BY <2>2, <2>3, <3>1 DEF NotAfter, Source
  <2> QED
    BY <1>8, <2>1, <2>2, <2>3 DEF ReviewsFit, NotAfter
<1>10. t.phase = "final-customer" /\ task'.phase = "final-customer"
  BY <1>1, <1>4, <1>5 DEF TaskStates
<1>11. pending'["agent"] = <<Save(t)>>
  BY <1>1, <1>5 DEF Then, Actors
<1>12. SavesFit(pending["agent"])'
  BY <1>10, <1>11 DEF SavesFit, GateFits, Save
<1>13. GateFits(task)'
  BY <1>10 DEF GateFits
<1> QED
  BY <1>9, <1>12, <1>13 DEF GateInv

(* The final review judges what there is now, and so had the audience.      *)
LEMMA GateFinal ==
    ASSUME ProductInv, GateInv, NEW v \in {"ship", "revise"}, RecordFinal(v)
    PROVE  GateInv'
<1>1. /\ Shape /\ task \in TaskStates /\ file \in Files /\ DOMAIN pending = Actors
      /\ GateFits(task)
  BY DEF ProductInv, Shape, SoundTasks, PendingFits, GateInv
<1> DEFINE r == [verdict |-> v, decision |-> "none", of |-> Source, owner |-> task.owner,
                 audience |-> task.audience]
           t == [task EXCEPT !.final = r]
<1>2. /\ file' = [file EXCEPT !.final = r] /\ task' = task /\ Unchanged /\ r.of = Source
      /\ Then("agent", <<Save(t)>>) /\ (policy.audience => ~AudienceStale)
  BY DEF RecordFinal, MayRecordFinal, AudienceValid
<1> HIDE DEF r
<1>3. file'.audience = file.audience /\ file'.final = r
  BY <1>1, <1>2 DEF Files
<1>4. Ofs' = Ofs /\ inputs' = inputs /\ policy' = policy
  BY <1>2, <1>3 DEF Ofs, Batch, Unchanged
<1>5. ASSUME policy.audience, NEW of \in Ofs PROVE of = Source
  BY <1>2, <1>5 DEF Ofs, AudienceStale
<1>6. ReviewsFit'
  <2>1. \A of \in Ofs' : NotAfter(of, inputs')
    BY <1>4 DEF GateInv, ReviewsFit
  <2>2. NotAfter(r.of, inputs) /\ (policy.audience => \A of \in Ofs : NotAfter(r.of, of))
    BY <1>1, <1>2, <1>5, SourceNow
  <2> QED
    BY <1>3, <1>4, <2>1, <2>2 DEF ReviewsFit, NotAfter
<1>7. GateFits(t)
  BY <1>1, <1>2, Changed, SameTask
<1>8. pending'["agent"] = <<Save(t)>>
  BY <1>1, <1>2 DEF Then, Actors
<1> HIDE DEF t
<1>9. SavesFit(pending["agent"])'
  BY <1>4, <1>7, <1>8 DEF SavesFit, GateFits, Save
<1>10. GateFits(task)'
  BY <1>1, <1>2, <1>4 DEF GateFits
<1> QED
  BY <1>6, <1>9, <1>10 DEF GateInv

LEMMA GateAlways == ReviewsSpec => [](ProductInv /\ GateInv)
<1>1. ReviewsInit => ProductInv /\ GateInv
  BY ProductBegins, GateBegins
<1>2. ASSUME ProductInv /\ GateInv, [ReviewsNext]_reviewVars PROVE ProductInv' /\ GateInv'
  <2>1. ASSUME NEW a \in Actors,
               ContinueCommand(a) \/ CommandDies(a) \/ ApproveSpecification(a) \/ ApproveFinal(a)
        PROVE  GateInv'
    BY <1>2, <2>1, GateContinue, GateMoves
  <2>2. GateInv'
    BY <1>2, <2>1, GateMoves, GateCommands, GateAudience, GateFinal DEF ReviewsNext
  <2> QED
    BY <1>2, <2>2, ProductKept
<1>3. ProductInv /\ GateInv /\ [ReviewsNext]_reviewVars => (ProductInv /\ GateInv)'
  BY <1>2
<1> QED
  BY <1>1, <1>3, PTL DEF ReviewsSpec

-----------------------------------------------------------------------------
(* What the reports say. *)

(* A batch that the final review is not older than, of inputs no later than *)
(* the present ones and of the sealed specification, is of what there is.   *)
LEMMA BatchIsCurrent ==
    ASSUME ProductInv, GateInv, FinalValid, policy.audience, task.phase = "final-approval",
           task.revision = "none"
    PROVE  ~AudienceStale
<1>1. Shape /\ Source \in Judged
  BY SourceShape DEF ProductInv
<1>2. file.final # NoReview /\ file.final.of = Source
  BY DEF FinalValid, FinalIntegral, FinalStale
<1>3. ASSUME NEW r \in Batch(file) PROVE r.of = Source
  <2>1. r.of \in Ofs
    BY DEF Ofs
  <2>2. r.of \in Judged
    BY <1>1, <2>1, OfsAreJudged
  <2>3. NotAfter(r.of, inputs) /\ NotAfter(Source, r.of) /\ r.of.spec = task.sealed
    BY <1>2, <2>1 DEF GateInv, ReviewsFit, GateFits
  <2>4. /\ Source.product = inputs.product /\ Source.result = inputs.result
        /\ Source.spec = task.sealed
    BY DEF Source
  <2>5. r.of.product = Source.product /\ r.of.result = Source.result
    BY <1>1, <2>2, <2>3, <2>4, VersionsAre DEF NotAfter
  <2> QED
    BY <1>1, <2>2, <2>3, <2>4, <2>5 DEF Judged
<1> QED
  BY <1>3 DEF AudienceStale

(* The readiness report and the final gate agree: when no command runs, the *)
(* report of a task at the final approval blocks on a judgment exactly when *)
(* approveFinal refuses it (buildReadinessReport, approveFinal).  The report *)
(* asks for a current audience and approveFinal does not: a valid final     *)
(* review implies one.                                                      *)
THEOREM ReportsAgree == ReviewsSpec => []ReadinessAgrees
<1>1. ASSUME ProductInv, GateInv PROVE ReadinessAgrees
  <2> SUFFICES ASSUME Settled, task.phase = "final-approval", ~Unvalidated
               PROVE  FinalBlockers = {} <=> MayApproveFinal
    BY DEF ReadinessAgrees
  <2>1. SpecUnchanged /\ task.revision # "active"
    BY DEF Settled, Executing, Unvalidated
  <2>2. task.revision \in {"none", "active", "validated"}
    BY <1>1 DEF ProductInv, Shape, SoundTasks, TaskStates
  <2> DEFINE Judgments == Preserves \/ (FinalValid /\ (Guided => file.final.decision # "none"))
             Outdated == policy.audience /\ AudienceStale /\ task.revision # "validated"
  <2>3. MayApproveFinal <=> Judgments
    BY <2>1 DEF MayApproveFinal
  <2>4. FinalBlockers = {} <=> Judgments /\ ~Outdated
    BY DEF FinalBlockers
  <2>5. Preserves => ~Outdated
    BY DEF Preserves
  <2>6. FinalValid => ~Outdated
    BY <1>1, <2>1, <2>2, BatchIsCurrent
  <2> QED
    BY <2>3, <2>4, <2>5, <2>6
<1>2. ProductInv /\ GateInv => ReadinessAgrees
  BY <1>1
<1> QED
  BY <1>2, GateAlways, PTL

(* What `next' advises is accepted: whatever the judgments are, the command *)
(* that nextAction names does not refuse, but in the three states that      *)
(* AdviceIsPossible names (nextAction and the guards of the commands).      *)
THEOREM AdviceStands == ReviewsSpec => []AdviceIsPossible
<1>1. ASSUME ProductInv PROVE AdviceIsPossible
  <2> SUFFICES ASSUME Settled, AudienceIntegral, ~Unjudged, ~Unvalidated
               PROVE  Accepts(nextAction)
    BY DEF AdviceIsPossible, BrokenBatch
  <2>1. task.owner \in Owners /\ task.phase \in TaskPhases
    BY <1>1 DEF ProductInv, Shape, SoundTasks, TaskStates
  <2>2. CASE task.phase = "product-specifier"
    <3>1. nextAction = SpecificationAdvice
      BY <2>2 DEF nextAction
    <3>2. \/ SpecificationAdvice = "product-owner-review"
          \/ SpecificationAdvice = "decide-product-owner" /\ MayDecideOwner
          \/ SpecificationAdvice = "continue" /\ MayCompleteSpecification
      BY <2>2 DEF SpecificationAdvice, Acknowledge, OwnerValid, OwnerNeedsUser, OwnerIntegral,
                  MayDecideOwner, MayCompleteSpecification
    <3> QED
      BY <2>2, <3>1, <3>2 DEF Accepts, MayRecordOwner
  <2>3. CASE task.phase = "final-customer" /\ policy.audience
    <3>1. nextAction = AudienceAdvice /\ SpecUnchanged
      BY <2>3 DEF nextAction, Settled, Executing
    <3>2. \/ AudienceAdvice = "target-audience-review" /\ MayRecordAudience
          \/ AudienceAdvice = "decide-target-audience" /\ MayDecideAudience
          \/ AudienceAdvice = "route-target-audience-revision" /\ MayRouteAudience
          \/ AudienceAdvice = "continue" /\ MayCompleteAudience
      BY <2>3, <3>1 DEF AudienceAdvice, MayRecordAudience, MayDecideAudience, MayRouteAudience,
                        MayCompleteAudience, AudienceDecision, AudienceValid, AudienceFailed
    <3> QED
      BY <2>3, <3>1, <3>2 DEF Accepts
  <2>4. CASE task.phase = "final-approval"
    <3>1. nextAction = FinalAdvice /\ SpecUnchanged
      BY <2>4 DEF nextAction, Settled, Executing
    <3>2. MayRecordFinal
      BY <2>1, <2>4, <3>1, ReviewsDiffer DEF MayRecordFinal, SpecUnchanged, Unjudged
    <3>3. task.revision # "active"
      BY <2>4 DEF Unvalidated
    <3>4. \/ FinalAdvice = "final-product-owner-review"
          \/ FinalAdvice = "decide-final" /\ MayDecideFinal
          \/ FinalAdvice = "approve" /\ MayApproveFinal
      BY <2>4, <3>1, <3>3 DEF FinalAdvice, MayDecideFinal, MayApproveFinal, FinalNeedsUser,
                              Acknowledge, FinalValid, FinalIntegral
    <3> QED
      BY <3>1, <3>2, <3>4 DEF Accepts
  <2>5. CASE /\ task.phase \notin {"product-specifier", "final-approval"}
             /\ ~(task.phase = "final-customer" /\ policy.audience)
    <3>1. nextAction = "continue"
      BY <2>5 DEF nextAction
    <3>2. task.phase = "final-customer" => MayCompleteAudience
      BY <2>5 DEF MayCompleteAudience, Settled, Executing
    <3> QED
      BY <2>5, <3>1, <3>2 DEF Accepts
  <2> QED
    BY <2>2, <2>3, <2>4, <2>5
<1>2. ProductInv => AdviceIsPossible
  BY <1>1
<1> QED
  BY <1>2, ProductAlways, PTL
=============================================================================
