---------------------------- MODULE ResidentRuntime --------------------------
(***************************************************************************)
(* The launcher `specrail' and the runtime that it keeps resident: a       *)
(* launcher looks for a runtime at a socket, starts one under a lock of    *)
(* its own when it finds none, posts its command and waits for the answer; *)
(* a runtime executes one command at a time and retires when it is idle,   *)
(* told to, or of an old build.                                            *)
(*                                                                         *)
(* The launchers are those of one repository and one build.  Time is left  *)
(* out: a request may be late whenever the runtime is busy, and loops end  *)
(* after MaxTries rounds.                                                  *)
(***************************************************************************)
EXTENDS Naturals, Sequences

CONSTANTS
    Launchers, Nobody,
    Runtimes,       \* bound: the processes that can be started
    MaxTries,       \* bound: rounds of each loop of the launcher
    MaxKilled      \* bound: processes that are killed

ASSUME ResidentRuntimeAssumption ==
    /\ MaxTries \in Nat \ {0} /\ MaxKilled \in Nat
    /\ Nobody \notin Launchers \cup Runtimes

VARIABLES
    launcher,       \* launcher[l]: where it is, its round, the runtime it is connected to
    runtime,        \* runtime[r]: its state, the build it was loaded from, its queue
    lock,           \* the start lock: whether the directory is there, and the pid in it
    socket, meta,   \* whose socket is at the path, and whom the record names
    build,          \* the build on disk
    killed,
    runs,           \* history: how often the command of a launcher was executed
    since           \* history: launchers since whose start a runtime has been available

residentVars == <<launcher, runtime, lock, socket, meta, build, killed, runs, since>>
files == <<lock, socket, meta>>

Steps == {"idle", "probe", "lock", "stale", "own", "start", "health", "wait", "post", "sent",
          "queued", "refused", "cli", "done", "dead"}
RuntimeStates == {"none", "spawned", "ready", "bound", "listening", "retiring", "gone"}
NoLock == [made |-> FALSE, pid |-> Nobody]

LauncherAt(l, step) == launcher[l].at = step
Is(r, state) == runtime[r].state = state

-----------------------------------------------------------------------------
(* What a launcher finds *)

Available == \E r \in Runtimes : socket = r /\ meta = r /\ Is(r, "listening")

Busy(r) == runtime[r].running
Current(r) == runtime[r].loaded = build

\* /v1/health is answered.
Healthy == \E r \in Runtimes : socket = r /\ Is(r, "listening") /\ Current(r)
\* It is not, or not within 0.35 seconds.
Unhealthy == \A r \in Runtimes : socket = r /\ Is(r, "listening") /\ Current(r) => Busy(r)

\* A published record with a live process.
Recorded == socket # Nobody /\ meta # Nobody /\ ~Is(meta, "gone")

\* Mutant: a runtime that does not answer counts as dead.
MissesBusy == Unhealthy

\* runtime_endpoint_available may answer yes; and no.
Finds == Healthy \/ Recorded
Misses == Unhealthy /\ ~Recorded

\* lock_stale: no pid, a dead one, or one that is waiting for more than 30 seconds.
Ended(l) == launcher[l].at \in {"done", "dead"}
Fresh == \E l \in Launchers : lock.pid = l /\ ~Ended(l)
Stale == ~Fresh \/ \E l \in Launchers : lock.pid = l /\ LauncherAt(l, "health")

-----------------------------------------------------------------------------
(* The launcher *)

ResidentInit ==
    /\ launcher = [l \in Launchers |-> [at |-> "idle", tries |-> 0, to |-> Nobody]]
    /\ runtime = [r \in Runtimes |-> [state |-> "none", loaded |-> 0, queue |-> <<>>,
                                      running |-> FALSE]]
    /\ lock = NoLock /\ socket = Nobody /\ meta = Nobody
    /\ build = 0 /\ killed = 0
    /\ runs = [l \in Launchers |-> 0]
    /\ since = {}

Go(l, step) == launcher' = [launcher EXCEPT ![l].at = step, ![l].tries = 0]
Again(l, otherwise) ==
    IF launcher[l].tries + 1 < MaxTries
    THEN launcher' = [launcher EXCEPT ![l].tries = @ + 1] ELSE Go(l, otherwise)

BeginLauncher(l) ==
    /\ LauncherAt(l, "idle") /\ build = 0
    /\ Go(l, "probe")
    /\ UNCHANGED <<runtime, files, runs>>

Probe(l) ==
    /\ LauncherAt(l, "probe")
    /\ \/ Finds /\ Go(l, "post")
       \/ Misses /\ Go(l, "lock")
    /\ UNCHANGED <<runtime, files, runs>>

\* acquire_start_lock: a stale lock is judged first and removed later.
Lock(l) ==
    /\ LauncherAt(l, "lock")
    /\ \/ ~lock.made /\ lock' = [made |-> TRUE, pid |-> Nobody] /\ Go(l, "own")
       \/ /\ lock.made /\ lock' = lock
          /\ \/ Stale /\ Go(l, "stale")
             \/ Fresh /\ Finds /\ Go(l, "wait")
             \/ Fresh /\ Misses /\ Again(l, "wait")
    /\ UNCHANGED <<runtime, socket, meta, runs>>

RemoveLock(l) ==
    /\ LauncherAt(l, "stale")
    /\ lock' = NoLock
    /\ Go(l, "lock")
    /\ UNCHANGED <<runtime, socket, meta, runs>>

\* The pid goes where the directory was, whoever made it.
WritePid(l) ==
    /\ LauncherAt(l, "own")
    /\ lock' = IF lock.made THEN [lock EXCEPT !.pid = l] ELSE lock
    /\ Go(l, "start")
    /\ UNCHANGED <<runtime, socket, meta, runs>>

Start(l) ==
    /\ LauncherAt(l, "start")
    /\ socket' = Nobody /\ meta' = Nobody
    /\ \E r \in Runtimes :
          /\ Is(r, "none")
          /\ runtime' = [runtime EXCEPT ![r].state = "spawned"]
    /\ Go(l, "health")
    /\ UNCHANGED <<lock, runs>>

ReleaseOwn(l) == lock' = IF lock.pid = l THEN NoLock ELSE lock

Health(l) ==
    /\ LauncherAt(l, "health")
    /\ \/ Healthy /\ ReleaseOwn(l) /\ Go(l, "post")
       \/ /\ Unhealthy
          /\ Again(l, "cli")
          /\ IF launcher'[l].at = "cli" THEN ReleaseOwn(l) ELSE lock' = lock
    /\ UNCHANGED <<runtime, socket, meta, runs>>

Wait(l) ==
    /\ LauncherAt(l, "wait")
    /\ \/ Finds /\ Go(l, "post")
       \/ Misses /\ Again(l, "cli")
    /\ UNCHANGED <<runtime, files, runs>>

\* curl: the command fails when nobody listens.
Post(l) ==
    /\ LauncherAt(l, "post")
    /\ IF socket \in Runtimes /\ runtime[socket].state \in {"bound", "listening"}
       THEN launcher' = [launcher EXCEPT ![l].at = "sent", ![l].to = socket]
       ELSE Go(l, "done")
    /\ UNCHANGED <<runtime, files, runs>>

Connected(l) == launcher[l].at \in {"sent", "queued"}

\* Mutant: what timed out is run directly.
TimeOutRetrying(l) ==
    /\ Connected(l) /\ Go(l, "cli")
    /\ UNCHANGED <<runtime, files, runs>>

\* The request takes too long, and is not tried again.
TimeOut(l) ==
    /\ Connected(l) /\ Go(l, "done")
    /\ UNCHANGED <<runtime, files, runs>>

\* So is one whose connection breaks.
Broken(l) ==
    /\ Connected(l)
    /\ \/ Is(launcher[l].to, "gone")
       \/ LauncherAt(l, "sent") /\ Is(launcher[l].to, "retiring")
    /\ Go(l, "done")
    /\ UNCHANGED <<runtime, files, runs>>

\* A refusal (409) is the one answer after which the command is run directly.
Refused(l) ==
    /\ LauncherAt(l, "refused")
    /\ socket' = Nobody
    /\ Go(l, "cli")
    /\ UNCHANGED <<runtime, lock, meta, runs>>

Direct(l) ==
    /\ LauncherAt(l, "cli")
    /\ runs' = [runs EXCEPT ![l] = @ + 1]
    /\ Go(l, "done")
    /\ UNCHANGED <<runtime, files>>

-----------------------------------------------------------------------------
(* The runtime *)

Become(r, state) == runtime' = [runtime EXCEPT ![r].state = state]

LoadBuild(r) ==
    /\ Is(r, "spawned")
    /\ runtime' = [runtime EXCEPT ![r].state = "ready", ![r].loaded = build]
    /\ socket' = Nobody
    /\ UNCHANGED <<launcher, lock, meta, runs>>

\* The path is taken when another runtime was faster: listen throws.
Listen(r) ==
    /\ Is(r, "ready")
    /\ IF socket = Nobody THEN socket' = r /\ Become(r, "bound")
       ELSE socket' = socket /\ Become(r, "gone")
    /\ UNCHANGED <<launcher, lock, meta, runs>>

Publish(r) ==
    /\ Is(r, "bound")
    /\ meta' = r /\ Become(r, "listening")
    /\ UNCHANGED <<launcher, lock, socket, runs>>

\* A request is refused before anything of it is done, or queued; also while another
\* one runs, whenever that waits.
Accept(r, l) ==
    /\ Is(r, "listening")
    /\ LauncherAt(l, "sent") /\ launcher[l].to = r
    /\ IF Current(r)
       THEN /\ launcher' = [launcher EXCEPT ![l].at = "queued"]
            /\ runtime' = [runtime EXCEPT ![r].queue = Append(@, l)]
       ELSE Go(l, "refused") /\ runtime' = runtime
    /\ UNCHANGED <<files, runs>>

Serving(r) == runtime[r].state \in {"listening", "retiring"}

Execute(r) ==
    /\ Serving(r) /\ ~Busy(r) /\ runtime[r].queue # <<>>
    /\ runs' = [runs EXCEPT ![Head(runtime[r].queue)] = @ + 1]
    /\ runtime' = [runtime EXCEPT ![r].running = TRUE]
    /\ UNCHANGED <<launcher, files>>

Answer(r) ==
    /\ Serving(r) /\ Busy(r)
    /\ LET l == Head(runtime[r].queue)
       IN launcher' = IF LauncherAt(l, "queued") /\ launcher[l].to = r
                      THEN [launcher EXCEPT ![l].at = "done"] ELSE launcher
    /\ runtime' = [runtime EXCEPT ![r].queue = Tail(@), ![r].running = FALSE]
    /\ UNCHANGED <<files, runs>>

\* Idle, stopped, signalled, or of another build.  Closing a listening socket also
\* unlinks its path, whosever socket is there by now.
Retire(r) ==
    /\ Is(r, "listening")
    /\ Become(r, "retiring")
    /\ socket' = Nobody
    /\ UNCHANGED <<launcher, lock, meta, runs>>

\* When its last connection has ended; cleanup removes only what is its own.
Exit(r) ==
    /\ Is(r, "retiring")
    /\ \A l \in Launchers : Connected(l) => launcher[l].to # r
    /\ Become(r, "gone")
    /\ IF meta = r THEN socket' = Nobody /\ meta' = Nobody ELSE UNCHANGED <<socket, meta>>
    /\ UNCHANGED <<launcher, lock, runs>>

-----------------------------------------------------------------------------
(* Deaths and builds *)

KillLauncher(l) ==
    /\ killed < MaxKilled /\ launcher[l].at \notin {"idle", "done", "dead"}
    /\ killed' = killed + 1
    /\ Go(l, "dead")
    /\ UNCHANGED <<runtime, files, build, runs>>

KillRuntime(r) ==
    /\ killed < MaxKilled /\ runtime[r].state \notin {"none", "gone"}
    /\ killed' = killed + 1
    /\ Become(r, "gone")
    /\ UNCHANGED <<launcher, files, build, runs>>

NewBuild ==
    /\ build = 0 /\ build' = 1
    /\ UNCHANGED <<launcher, runtime, files, killed, runs>>

LauncherStep(l) ==
    \/ BeginLauncher(l) \/ Probe(l) \/ Lock(l) \/ RemoveLock(l) \/ WritePid(l) \/ Start(l)
    \/ Health(l) \/ Wait(l) \/ Post(l) \/ TimeOut(l) \/ Broken(l) \/ Refused(l) \/ Direct(l)

RuntimeStep(r) ==
    \/ LoadBuild(r) \/ Listen(r) \/ Publish(r) \/ (\E l \in Launchers : Accept(r, l))
    \/ Execute(r) \/ Answer(r) \/ Retire(r) \/ Exit(r)

Began == {l \in Launchers : LauncherAt(l, "idle") /\ ~LauncherAt(l, "idle")'}

ResidentNext ==
    /\ \/ /\ \/ \E l \in Launchers : LauncherStep(l)
             \/ \E r \in Runtimes : RuntimeStep(r)
          /\ UNCHANGED <<build, killed>>
       \/ \E l \in Launchers : KillLauncher(l)
       \/ \E r \in Runtimes : KillRuntime(r)
       \/ NewBuild
    /\ since' = IF Available' THEN since \cup Began ELSE {}

ResidentSpec == ResidentInit /\ [][ResidentNext]_residentVars

-----------------------------------------------------------------------------
(* Properties *)

ResidentTypes ==
    /\ launcher \in [Launchers -> [at : Steps, tries : 0 .. MaxTries - 1,
                                   to : Runtimes \cup {Nobody}]]
    /\ runtime \in [Runtimes -> [state : RuntimeStates, loaded : 0 .. 1,
                                 queue : Seq(Launchers), running : BOOLEAN]]
    /\ \A r \in Runtimes : Busy(r) => runtime[r].queue # <<>>
    /\ lock \in [made : BOOLEAN, pid : Launchers \cup {Nobody}]
    /\ socket \in Runtimes \cup {Nobody} /\ meta \in Runtimes \cup {Nobody}
    /\ build \in 0 .. 1 /\ killed \in 0 .. MaxKilled
    /\ since \subseteq Launchers

\* A command is executed at most once, by a runtime or directly, whoever is late, dies
\* or retires: "command was not retried because it may have mutated state"
\* (specrail-fast.sh 141).
ExecutedOnce == \A l \in Launchers : runs[l] <= 1

\* A launcher that began when a runtime was available, and for as long as it is, does
\* not set about starting another: "a busy resident runtime is never mistaken for a
\* dead runtime by a concurrent launcher" (runtime-resident.test.mjs 45).
BusyIsNotDead ==
    \A l \in since :
        launcher[l].at \notin {"lock", "stale", "own", "start", "health", "wait"}

=============================================================================
