------------------------------ MODULE TaskStore -----------------------------
(***************************************************************************)
(* The task store: one file for each task, in the folder of its status,    *)
(* and a counter.  Nothing is locked.  A command is a sequence of calls of *)
(* the store, and a call is a sequence of file-system calls, between which *)
(* other processes run and at any of which a process may die.              *)
(*                                                                         *)
(* Four folders stand for the seven; Listing has them in the order in      *)
(* which they are read.  A task is reduced to what the store itself reads  *)
(* and to a version, which each save raises.  The name of a file is made   *)
(* of the number and the slug of the title, and several titles have one    *)
(* slug; references match a number or a whole title, in which they read    *)
(* the letters that make the slug (the fuzzy ones choose among the same    *)
(* files).  The title of a task does not change once it is created.        *)
(***************************************************************************)
EXTENDS Naturals, Sequences, FiniteSets

CONSTANTS
    Processes, Titles,
    Slugs, Slug,        \* what a title leaves in the name of a file: slugify
    SliceTitles,        \* titles of the slices of the first task, in their order
    MaxTasks,           \* bound: numbers that are given
    MaxCommands,        \* bound: commands that begin,
    MaxRaced            \* and how many when they may run side by side

ASSUME TaskStoreAssumption ==
    /\ MaxTasks \in Nat \ {0} /\ MaxCommands \in Nat /\ MaxRaced \in Nat
    /\ SliceTitles \in Seq(Titles) \ {<<>>}
    /\ Slug \in [Titles -> Slugs]

VARIABLES
    counter,        \* .ai/counter.json
    file,           \* file[path]: the task stored there; DOMAIN file: the files
    plan,           \* the slice plan of the first task
    command,        \* command[p]: what a process is doing
    born,           \* history: numbers and titles of the files that were made
    begun,          \* how many commands began
    serial          \* whether they come one after the other, chosen at first

storeVars == <<counter, file, plan, command, born, begun, serial>>

Ids == 1 .. MaxTasks
FolderOf == [draft |-> "inbox", active |-> "active", blocked |-> "blocked", done |-> "done"]
Statuses == DOMAIN FolderOf
Listing == <<"active", "blocked", "done", "inbox">>
Paths == [id : Ids, slug : Slugs, folder : {"active", "blocked", "done", "inbox"}]
Tasks == [title : Titles, status : Statuses, version : Nat, parent : {0} \cup Ids,
          deps : SUBSET Ids, slices : SUBSET Ids]

At(path, folder) == [path EXCEPT !.folder = folder]
Stored(f, path, t) == [x \in DOMAIN f \cup {path} |-> IF x = path THEN t ELSE f[x]]
Removed(f, path) == [x \in DOMAIN f \ {path} |-> f[x]]

-----------------------------------------------------------------------------
(* Commands as sequences of calls.  A call refers to a task by its number,  *)
(* by its title, or as the n-th that this command made.                     *)

ById(id) == [by |-> "id", of |-> id]
ByTitle(slug) == [by |-> "title", of |-> slug]
Made(n) == [by |-> "made", of |-> n]

Make(title, parent) == [do |-> "create", title |-> title, parent |-> parent]
Find(ref) == [do |-> "find", ref |-> ref]
Update(ref, change, with) == [do |-> "update", ref |-> ref, change |-> change, with |-> with]
Save(n, deps) == [do |-> "save", n |-> n, deps |-> deps]     \* the copy it has
Seal == [do |-> "seal"]

\* Mutant: the dependency is not looked for.
addDependencyUnseen(ref, dep) == <<Update(ref, "depend", {dep})>>

addDependency(ref, dep) == <<Find(dep), Update(ref, "depend", {dep})>>

Subtask(ref, id, title, n) ==
    <<Make(title, id)>> \o addDependency(ref, Made(n)) \o <<Update(ref, "log", {})>>

\* Each slice is a subtask, saved twice more from the copy it was made with; the
\* later depends on the earlier.
Slices == DOMAIN SliceTitles
Slicing(n) == Subtask(ById(1), 1, SliceTitles[n], n) \o <<Save(n, {})>>
SliceCalls ==
    LET each == Len(Slicing(1))
        Slice(i) == 1 + ((i - 1) \div each)
    IN [i \in 1 .. each * Len(SliceTitles) |-> Slicing(Slice(i))[i - each * (Slice(i) - 1)]]
Materialize ==
    <<Find(ById(1))>> \o SliceCalls
    \o [n \in Slices |-> Save(n, {m \in Slices : m + 1 = n})]
    \o <<Update(ById(1), "slices", {Made(n) : n \in Slices}), Seal>>

NoPath == [id |-> 0]
NoCommand == [calls |-> <<>>, step |-> "start", number |-> 0, listed |-> 0, seen |-> {},
              path |-> NoPath, copy |-> 0, made |-> <<>>]

NewTask(title, parent) ==
    [title |-> title, status |-> "draft", version |-> 0, parent |-> parent, deps |-> {}, slices |-> {}]

\* An empty project, or one with a task about which two processes race.
StoreInit ==
    /\ plan = "draft"
    /\ command = [p \in Processes |-> NoCommand]
    /\ begun = 0 /\ serial \in BOOLEAN
    /\ \/ serial /\ counter = 1 /\ file = <<>> /\ born = {}
       \/ /\ ~serial /\ counter = 2
          /\ LET path == [id |-> 1, slug |-> Slug[SliceTitles[1]], folder |-> "active"]
             IN /\ file = Stored(<<>>, path, [NewTask(SliceTitles[1], 0) EXCEPT !.status = "active"])
                /\ born = {<<1, SliceTitles[1]>>}

-----------------------------------------------------------------------------
(* The calls. *)

Call(p) == Head(command[p].calls)
AtStep(p, do, step) == command[p].calls # <<>> /\ Call(p).do = do /\ command[p].step = step
Keep(p, c) == command' = [command EXCEPT ![p] = c]
Throw(p) == Keep(p, NoCommand)
\* The command with its first call done.
Rest(c) ==
    IF Len(c.calls) = 1 THEN NoCommand
    ELSE [NoCommand EXCEPT !.calls = Tail(c.calls), !.made = c.made]
Return(p) == Keep(p, Rest(command[p]))

Number(p, ref) == IF ref.by = "made" THEN command[p].made[ref.of].path.id ELSE ref.of

BeginCalls(p, calls) ==
    /\ command[p] = NoCommand
    /\ serial => p = CHOOSE q \in Processes : TRUE
    /\ begun < IF serial THEN MaxCommands ELSE MaxRaced
    /\ begun' = begun + 1
    /\ Keep(p, [NoCommand EXCEPT !.calls = calls])
    /\ UNCHANGED <<counter, file, plan, born, serial>>

\* createTask reads the counter, writes it, and then writes the file.
ReadCounter(p) ==
    /\ AtStep(p, "create", "start") /\ counter \in Ids
    /\ Keep(p, [command[p] EXCEPT !.step = "count", !.number = counter])
    /\ UNCHANGED <<counter, file, plan, born, begun, serial>>

WriteCounter(p) ==
    /\ AtStep(p, "create", "count")
    /\ counter' = command[p].number + 1
    /\ Keep(p, [command[p] EXCEPT !.step = "file"])
    /\ UNCHANGED <<file, plan, born, begun, serial>>

\* Over the task of another command, when that has the number and a title of the slug.
CreateFile(p) ==
    /\ AtStep(p, "create", "file")
    /\ LET c == command[p]
           path == [id |-> c.number, slug |-> Slug[Call(p).title], folder |-> "inbox"]
           t == NewTask(Call(p).title, Call(p).parent)
       IN /\ file' = Stored(file, path, t)
          /\ born' = born \cup {<<path.id, t.title>>}
          /\ Keep(p, Rest([c EXCEPT !.made = Append(@, [path |-> path, copy |-> t])]))
    /\ UNCHANGED <<counter, plan, begun, serial>>

\* findTask lists the folders one by one (between which nothing happens when
\* commands come one after the other) and then reads every file it has listed:
\* one that was moved since makes it throw, whatever task it is of.
List(p) ==
    /\ AtStep(p, "find", "start") \/ AtStep(p, "update", "start")
    /\ command[p].listed < Len(Listing)
    /\ LET upto == IF serial THEN Len(Listing) ELSE command[p].listed + 1
           now == {Listing[i] : i \in command[p].listed + 1 .. upto}
       IN Keep(p, [command[p] EXCEPT !.listed = upto,
                                     !.seen = @ \cup {x \in DOMAIN file : x.folder \in now}])
    /\ UNCHANGED <<counter, file, plan, born, begun, serial>>

\* The first file with the number; or the only open one with the title, or the only one.
Matches(p, ref) ==
    LET seen == command[p].seen
        of == {x \in seen : x.id = Number(p, ref)}
        titled == {x \in seen : Slug[file[x].title] = ref.of}
        open == {x \in titled : file[x].status # "done"}
        Place(x) == CHOOSE i \in DOMAIN Listing : Listing[i] = x.folder
    IN IF ref.by # "title" THEN {x \in of : \A y \in of : Place(x) <= Place(y)}
       ELSE IF Cardinality(open) = 1 THEN open
       ELSE IF open = {} /\ Cardinality(titled) = 1 THEN titled ELSE {}

Match(p) ==
    /\ AtStep(p, "find", "start") \/ AtStep(p, "update", "start")
    /\ command[p].listed = Len(Listing)
    /\ \/ /\ command[p].seen \subseteq DOMAIN file
          /\ \E x \in Matches(p, Call(p).ref) :
                IF Call(p).do = "find" THEN Return(p)
                ELSE Keep(p, [command[p] EXCEPT !.step = "load", !.path = x])
       \/ /\ command[p].seen \subseteq DOMAIN file => Matches(p, Call(p).ref) = {}
          /\ Throw(p)
    /\ UNCHANGED <<counter, file, plan, born, begun, serial>>

Changed(p, t) ==
    LET with == Call(p).with
        numbers == IF Call(p).change \in {"depend", "slices"}
                   THEN {Number(p, ref) : ref \in with} ELSE {}
    IN [t EXCEPT !.version = @ + 1,
                 !.deps = IF Call(p).change = "depend" THEN @ \cup numbers ELSE @,
                 !.slices = IF Call(p).change = "slices" THEN numbers ELSE @,
                 !.status = IF Call(p).change = "status" THEN with ELSE @]

Load(p) ==
    /\ AtStep(p, "update", "load")
    /\ IF command[p].path \in DOMAIN file
       THEN Keep(p, [command[p] EXCEPT !.step = "write", !.copy = Changed(p, file[command[p].path])])
       ELSE Throw(p)
    /\ UNCHANGED <<counter, file, plan, born, begun, serial>>

\* Mutant: the second save is of the copy that the first was made of.
TakeFirstCopy(p) ==
    /\ AtStep(p, "save", "start")
    /\ LET own == command[p].made[Call(p).n]
           copy == [own.copy EXCEPT !.version = @ + 1,
                                    !.deps = {command[p].made[n].path.id : n \in Call(p).deps}]
       IN Keep(p, [command[p] EXCEPT !.step = "write", !.path = own.path, !.copy = copy])
    /\ UNCHANGED <<counter, file, plan, born, begun, serial>>

\* The copy that a command made, with its dependencies.
TakeCopy(p) ==
    /\ AtStep(p, "save", "start")
    /\ LET own == command[p].made[Call(p).n]
           copy == [own.copy EXCEPT !.version = @ + 1,
                                    !.deps = {command[p].made[n].path.id : n \in Call(p).deps}]
       IN Keep(p, [command[p] EXCEPT !.step = "write", !.path = own.path, !.copy = copy,
                                     !.made[Call(p).n].copy = copy])
    /\ UNCHANGED <<counter, file, plan, born, begun, serial>>

\* saveTask writes the file where the task was loaded, and moves it when its status
\* belongs elsewhere: whatever the file holds by then, over whatever is there.
Write(p) ==
    /\ command[p].step = "write"
    /\ LET c == command[p]
           stays == FolderOf[c.copy.status] = c.path.folder
       IN /\ file' = Stored(file, c.path, c.copy)
          /\ IF stays THEN Return(p) ELSE Keep(p, [c EXCEPT !.step = "move"])
    /\ UNCHANGED <<counter, plan, born, begun, serial>>

Move(p) ==
    /\ command[p].step = "move"
    /\ LET from == command[p].path
           to == At(from, FolderOf[command[p].copy.status])
       IN IF from \in DOMAIN file
          THEN file' = Stored(Removed(file, from), to, file[from]) /\ Return(p)
          ELSE file' = file /\ Throw(p)
    /\ UNCHANGED <<counter, plan, born, begun, serial>>

SealPlan(p) ==
    /\ AtStep(p, "seal", "start")
    /\ plan' = "materialized"
    /\ Return(p)
    /\ UNCHANGED <<counter, file, born, begun, serial>>

CommandDies(p) ==
    /\ command[p] # NoCommand
    /\ Throw(p)
    /\ UNCHANGED <<counter, file, plan, born, begun, serial>>

-----------------------------------------------------------------------------
Given == {id \in Ids : id < counter}
References == {ById(id) : id \in Given} \cup {ByTitle(slug) : slug \in Slugs}

BeginCommand(p) ==
    \/ \E title \in Titles : BeginCalls(p, <<Make(title, 0)>>)
    \/ \E ref \in References :
          \/ BeginCalls(p, <<Update(ref, "log", {})>>)
          \/ \E s \in Statuses \ {"draft"} : BeginCalls(p, <<Update(ref, "status", s)>>)
    \/ \E id, dep \in Given : id # dep /\ BeginCalls(p, addDependency(ById(id), ById(dep)))
    \/ \E id \in Given, title \in Titles : BeginCalls(p, Subtask(ById(id), id, title, 1))
    \/ serial /\ plan = "draft" /\ BeginCalls(p, Materialize)

StoreNext ==
    \E p \in Processes :
        \/ BeginCommand(p)
        \/ ReadCounter(p) \/ WriteCounter(p) \/ CreateFile(p)
        \/ List(p) \/ Match(p) \/ Load(p) \/ TakeCopy(p)
        \/ Write(p) \/ Move(p) \/ SealPlan(p) \/ CommandDies(p)

StoreSpec == StoreInit /\ [][StoreNext]_storeVars

-----------------------------------------------------------------------------
(* Properties *)

\* Type invariant.
StoreTypes ==
    /\ counter \in 1 .. MaxTasks + 1
    /\ DOMAIN file \subseteq Paths /\ \A x \in DOMAIN file : file[x] \in Tasks
    /\ plan \in {"draft", "materialized"}
    /\ \A p \in Processes :
          /\ command[p].step \in {"start", "count", "file", "load", "write", "move"}
          /\ command[p].step \in {"write", "move"} =>
                command[p].path \in Paths /\ command[p].copy \in Tasks
          /\ command[p].seen \subseteq Paths
    /\ born \subseteq Ids \X Titles
    /\ begun \in Nat /\ serial \in BOOLEAN

\* A task that was created always has its file, if commands come one after the other.
\* If they race, a file stays that has its number and the slug of its title, and a task
\* of such a title in it: its own, or that of another creation which was given the same
\* number (createTask).  Whatever a task depends on has a file, whichever commands race
\* with each other or die (saveTask, addDependency).
TasksAreKept ==
    /\ \A b \in born : \E x \in DOMAIN file :
          /\ x.id = b[1] /\ x.slug = Slug[b[2]] /\ Slug[file[x].title] = x.slug
          /\ serial => file[x].title = b[2]
    /\ \A x \in DOMAIN file : \A d \in file[x].deps : \E y \in DOMAIN file : y.id = d

\* A plan that says it is materialized has all its slices, as subtasks that depend on
\* each other as planned, also when an earlier attempt died half-way.
SlicesAreWhole ==
    serial /\ plan = "materialized" =>
        \E x \in DOMAIN file : x.id = 1 /\
            \E child \in [Slices -> file[x].slices] :
                \A n \in Slices : \E y \in DOMAIN file :
                    /\ y.id = child[n] /\ file[y].title = SliceTitles[n] /\ file[y].parent = 1
                    /\ n > 1 => child[n - 1] \in file[y].deps

\* What the store keeps: the types, every created task with what it depends on, and
\* the slices of a materialized plan (saveTask, addDependency, materializeSlices).
StoreKeepsTasks == StoreTypes /\ TasksAreKept /\ SlicesAreWhole

\* The task that a command finds under a number: the first file with it.
Found(id) ==
    LET of == {x \in DOMAIN file : x.id = id}
        Place(x) == CHOOSE i \in DOMAIN Listing : Listing[i] = x.folder
    IN file[CHOOSE x \in of : \A y \in of : Place(x) <= Place(y)]

\* Commands that come one after the other see a table of tasks: no number is given
\* twice, and every save makes the next version of the task that is found, although a
\* save is two calls and its process may die between them.
AsTable == [id \in {x.id : x \in DOMAIN file} |-> Found(id)]
Table == INSTANCE TaskTable WITH tasks <- AsTable
StepsTable == serial => Table!Next \/ UNCHANGED AsTable
ImplementsTable == [][StepsTable]_storeVars
=============================================================================
