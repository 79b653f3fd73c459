# A TLA+ model of pg-embed-setup-unpriv

The library starts throw-away PostgreSQL clusters for tests, as root or not,
many at a time, from many processes, with one shared install tree. What is hard
about it is concurrency between processes that may be killed at any
moment, and between threads of one process that share an environment, a few
singletons and one exit hook. This directory models that part, checks it with
TLC on small instances and proves the central results with TLAPS for all sizes.

Paths below are relative to the crate (`src/` of the repository).

## 1. The system

| Component | State | Operations | Interacts through |
|---|---|---|---|
| Per-cluster slots (`bootstrap/prepare/cluster_slot`, `layout.rs`) | `<root>/data/<name>/`, `<name>.lock` and the kernel lock on it, `.claim-guard` | claim (sweep, create, lock), probe for peers, full-cleanup guard | files and `flock` locks, with every process in the root |
| Orphaned servers (`bootstrap/prepare/orphan.rs`) | `postmaster.pid`, the process it names | classify, SIGQUIT, wait | called by the sweep |
| Orphan watcher (`orphan_watch*.rs`) | a detached `setsid flock … sh` per slot, a registry of children | arm, release, wake on the owner's death | blocks on the slot's lock |
| Cluster life cycle (`cluster/startup`, `shutdown`, `cleanup`, `guard`) | the server, the data directory, the install tree | start, stop, planned cleanup, drop of the guard | all of the above |
| Scoped environment (`env`) | the process environment, `ENV_LOCK`, a stack of scopes per thread | apply, drop (any order), forget | a lock held for the life of a cluster |
| Shared singletons (`test_support/shared_singleton*`, `bootstrap_retry`, `fixtures`) | a mutex and an init state each | get or initialise, retry, leak | environment lock, exit hook |
| Exit hook (`cluster/shutdown_hook`) | registration state, one registered cluster | reserve, build, commit or roll back; atexit callback | `postmaster.pid`, signals |
| Exit hook on Windows (`shutdown_hook/platform/windows*`) | process handles, snapshots, a job object | open, validate, assign, terminate | the system's process table |
| Install tree and setup lock (`cluster/setup_lock`, `installation`, `startup_setup_only`) | version directories, the lock in the install root | lock, choose a directory, set up, release | files and locks, with every process in the root |
| Binary cache (`cache`, `cluster/cache_integration`) | entries with completion markers, a lock per version | look up, copy, populate | the install tree |
| Extensions (`extensions`, `cluster/extension_hook`) | archives by digest, a lock per digest | select, acquire, verify, write | the install tree, the network |
| Stored passwords (`bootstrap/prepare/password`, `stale_password`) | a password file beside the data directory | discard, read back | `initdb` |
| Worker (`worker_process`, `cluster/worker_invoker`, `bin/pg_worker`) | a payload file, a child process | spawn as another user, wait, kill; setup, start, stop, cleanup | the data directory |
| Databases (`cluster/lifecycle*`, `temporary_database`, `connection`) | databases, a lock per template, guards | create, clone, ensure, roll back, drop | the server |
| Settings, users and paths; errors, logs and metrics; command line | configuration | sequential | – |

The properties that make each component correct:

* **Slots.** A live cluster never loses its slot, its data directory or the
  tree it runs from, whoever sweeps, cleans up or dies. Nobody removes files
  under a running server. The claim guard always comes back.
* **Orphans and watchers.** A killed owner's server is stopped, by watcher or
  sweep, and no watcher stays behind.
* **Environment.** Nested and overlapping scopes, dropped in any order, leave
  no trace; while open they are in effect; their lock comes back.
* **Singletons and hook.** One initialisation; no leak without the hook; a
  failed attempt keeps nothing; every caller gets an answer; the exit callback
  takes the server down before its files.

* **Install tree, cache, extensions.** What lookups accept is the whole release
  and nothing else; a cluster keeps the binaries it started from; it gets the
  extensions its own manifest selects; nobody waits for ever.
* **Data directory, passwords, worker.** A directory used again after any
  failure is reported with the port and password that open it, is never reset
  under a server, and the worker's payload does not stay behind.
* **Databases.** Whoever was told a template exists has it complete; a database
  stays its creator's; every call returns.
* **Windows hook.** Only the server's processes are touched, and all of them.

PROJECT.json lists the hazards behind these, each at its line.

## 2. Modules

### ClusterSlots, SlotLease, SlotParent

`ClusterSlots` models test processes that share a root. `pc[p]` says where a
process is, `at[p]` in which directory; the files of a slot are `lockFile`,
`dir` and `pidfile`; `lockBy` is the kernel lock on its lock file, released by
`Die`, and `guard` the one on `.claim-guard`. `server` and `watcher` run by
themselves. One action stands for one piece of code that no other process can
observe half-done: `CreateLock` and `LockNew` are the two halves of
`lock_new_slot`; `SweepTake`, `SweepCheck`, `SweepStopped`, `SweepGivesUp` and
`SweepRemove` are `sweep_one`; `Cleanup`, `TakeGuard`, `PlanFull`, `Demote` and
`RemoveAll` are `cleanup_in_process` with `plan_cleanup`, which a worker-managed
cluster goes through twice (`again`). Every removal, spawn and release may
fail, as the code allows. A process can die between any two steps.

A full cleanup asks for the claim guard and probes for peers, except on one
branch: `plan_for_unslotted` does neither when it derives no slot parent from
the install tree (`PG_RUNTIME_DIR` not named `install`). Explicit directories
for which that may be so are in `Unguarded`; `RemoveUnguarded` is that branch.
Whether such a directory's cleanup takes it is a matter of its owner's settings,
so the model lets it take either. Slotted clusters can share the tree in
question, because `claim_derived_slot` looks at the data directory only. A
cluster of another root that has this tree as its explicit `PG_RUNTIME_DIR`, and
whose slots no probe here sees, is one more such directory. `install`
distinguishes a tree removed like that (`"stripped"`) from one removed under the
guard (`"absent"`), so that InstallKept can say what the guard and the probe do
and do not protect.

`DropValue` is what the library does when a `PostgreSQL` value is dropped: stop
a server that `postmaster.pid` tells of and then, if the settings are temporary,
remove the directory, ignoring errors. `Settings::default()` (lib.rs:451-454)
is temporary and only `root.rs:34-36` clears it, so this happens to every
cluster that runs in process: after a failed or timed-out start (`StartFails`), a
stop (`Stop`, whatever the cleanup mode) and a failed stop (`StopFails`). The
model leaves open at each drop which kind of cluster it is.

What `server_state` answers follows from `pidfile`: `live` (the server),
`dead`, `foreign` (a reused PID), `opaque` (a process that cannot be
inspected). `owner`, `stray` are history: who created a slot, and which servers
no `postmaster.pid` tells of, because their owner died before it was written or
their owner's Drop removed it with the directory and did not stop them.

`SlotParent` adds to ClusterSlots a data directory that is the parent of the
slots, `<root>/data` itself, which ClusterSlots assumes no explicit directory to
be: that of the setup-only `run` (`SetupOnly`, which ends with the Drop of its
value), and that of a test cluster with `PG_DATA_DIR=<root>/data`
(`CleanupParent`; its full cleanup takes the unguarded branch too, as
`derived_slot_parent` is the data directory). Both take the slots in it along.
The `slot_parent` run shows what that does to LiveClusterKeepsData; the other
runs and the theorems about ClusterSlots are about roots without such a cluster.

`SlotLease` is the promise of ADR 005 without files and locks: leases are
granted, abandoned by death, and data are removed only by the holder or after
its death with no server at work, or by the holder as it lets go of its
cluster; the tree goes only when nobody else holds a lease, or is stripped by a
cluster that takes no part. `ImplementsLease` maps a slot to *held* while its
live owner has its lock, *abandoned* once the owner is dead, *free* otherwise.

Simplifications: a process drives one cluster at a time (the slot of a failed
or finished one stays locked, as `HELD` does in the code); check and signal of
a PID in the sweep are one step, in the watcher two; setup of the tree is one
step; the second cleanup pass chooses its mode anew, which is more than the
code does. A process that exits through the exit hook is `Stop`, `Cleanup` and
`Die`.

### ScopedEnv

One step is a whole `enter_scope` or `exit_scope`: the lock is held throughout,
so no other scope can come between. The loops of `apply_env_vars` and
`restore_saved` are given in closed form (`Applied`, `Saved`, `Restored`: which
of several values counts), so that they can be reasoned about. The loops
themselves, statement by statement, are the recursive functions `ApplyLoop`,
`RestoreLoop` and `PopLoop` (`restore_finished_scopes` and
`restore_all_scopes`), and `LoopsAgree` says that both compute the same.
`live` holds the guards that were not dropped, `base` is a history variable:
the environment outside all scopes. A thread that ends with forgotten guards
gives the lock back and restores nothing (`ThreadEnds`).

### SharedCluster, SharedService

One process, its threads, both singletons and a cluster of its own per thread.
The module instantiates `ScopedEnv` for the environment, so a cluster's guards
are real scopes: `guards[c]` holds their stack indices, and the drop of a
`ClusterGuard` is `Shutdown`, `DropWorkerGuard`, `DropEnvGuard`, in field order.
`Request` … `GiveUp` follow `get_or_try_init_shared` with its initialiser under
`retry_transient`; `Reserve`, `Commit`, `BuildFails` the registration of the
exit hook; `BeginExit` … `CallbackForces` the atexit callback, which runs while
other threads go on. `postmaster[c]` is what the PID in `postmaster.pid` names:
nothing, the server, a process that is gone, a stranger.

`SharedService` is what the two functions promise their callers, without
mutexes, retries, scopes and registrations: one maker at a time; a singleton is
published with the hook armed and its server not stopped; from then on it is
neither made again nor stopped before the exit; a maker that gives up leaves the
singleton to the next caller only if it leaves no server. `ImplementsService`
maps the maker to the holder of the mutex and a server that is kept to one this
process has started and not stopped (a crash does not count as a stop).

An unprivileged cluster's value is dropped when its shutdown is over, so its
directory may go although the stop has failed, and the exit callback then finds
no `postmaster.pid` to act on. The safety run is of a root process, where a
worker has to be found; the proofs are for both. DataOutlivesServer is therefore
about root, and CallbackStopsServer excepts an unprivileged server whose
directory is gone.

Simplifications: a failed start leaves no server (ClusterSlots covers the one
that comes up late, and the one that a failing Drop leaves); a thread has one
cluster of its own at a time; only `PG_EMBEDDED_WORKER` is a variable of
interest, the other variables of a cluster are applied as an empty list;
asynchronous clusters are not included.

### InstallTree

Processes share the install tree, the binary cache and the archives of
extensions. A start is `Bootstrap`, `AcquireSetup`, `FindCached`; then, on a
hit, `LockEntry`, `CopyFile` for each file in any order and half by half, and
`CacheHit`, which releases the setup lock (`after_cache_lookup`); or, on a miss
or a failed copy, `Setup` and the population of the cache (`ResolveForCache` …
`WriteMarker`, or `PopulationFails`) with the lock held. The hook (`ForHook` …
`HookDone`) retakes a released lock and installs what `SelectAll` chose,
`Acquire`, `Download`, `Verify`, `WriteFile`. `mode` distinguishes clusters with
a slot, clusters with an explicit directory, which no cleanup can see, and the
command line, which sets up only. `PlanFull` and `RemoveFile` remove a version
directory: not under the setup lock, but when no other slot is held and with
the claim guard, which `Bootstrap` waits for. `PlanUnguarded` begins the same
removal for an explicit cluster on the branch of `plan_for_unslotted` that takes
no guard and probes nobody, at any moment of any other process. `Abort` is
death, or any other error, at any step.

A directory maps files to *absent*, *part* (cut short; recognised by its size),
*whole*, or the archive an extension's file came from. `uncached` is history:
versions whose population has failed once; so is `stripped`: slotted clusters
under which an unguarded removal has taken files of their version. HitTreeWhole
and ExtensionsAsDeclared except exactly those clusters, each for its own time:
no other process loses its guarantee by the removal, and one that starts over
has it again. Simplifications:
`PostgreSQL::setup` extracts a release in one step (the library moves an
extracted directory into place); the setup lock's file is in the install root,
which nothing removes; the cache is never pruned; permissions and symbolic
links are copied like files.

### DataDirSetup

One data directory that is kept, and the sessions that use it one after the
other: bootstrap with its password and port, the four operations, in process or
through a worker, and how each of them ends (`Succeeds`, `Fails`, `TimesOut`,
`OwnerKilled`, `GroupKilled`). `dir` is the set of files by which the code, or a
server, judges the directory; `InitdbWrites` adds them in `initdb`'s order.
`dirpw` is history: the password `initdb` was given. In process the settings
are temporary, so wherever the `PostgreSQL` value is dropped (`Fails`,
`TimesOut`, the success of a stop, `Leave` after a setup only) `RemoveTemporary`
removes the directory, or part of it, and then the password file; `torn` is
history: the file went and some of the directory stayed. As root the settings
are not temporary, and the worker's own value (`Succeeds`, `Fails`) only stops a
server. A killed worker leaves its
`initdb` (`orphan`), and a `pg_ctl` under way may still bring up a server, which
the next session meets.

Simplifications: the next session begins once an orphaned `initdb` or worker
has ended; two sessions at once in one explicit directory are not modelled, as
nothing in the code coordinates them; a stale `postmaster.pid` that names a
stranger is not modelled (`Started` means a server).

### Databases, TemplatePromise

Threads of one process and the server's databases. `Ensure` …
`RollbackFails` is `ensure_template_exists` with `with_template_lock` and
`create_and_setup_template`; the caller's `setup_fn` is any number of
`SetupStep`s cut short by an error or a panic, with a connection that may stay
open. A `TemporaryDatabase` has three ways out: `DropDatabase` (also its
`Drop`), `GuardDropDatabase` and `ForceDrop`, each of the latter two followed by
`DropAgain`, because both consume the guard and its `Drop` runs as well. `Crash`
ends the process and keeps the data directory. `leftOver` and `repeated` are
history. Nobody drops a template that is in use by others; the users' guide
asks for unique names, so two threads that use one name (which the run has) are
the difficult case.

`TemplatePromise` is `ensure_template_exists` without the lock, the queries and
the rollback: one thread at a time makes a template, nobody is told of it
meanwhile, and what was made stays as it is. To all but its maker a template
under way is *unmade*; a making that fails ends with no template, a complete one
or a broken one, and so does the death of the process. `ImplementsPromise` maps
the makers to the threads between the creation and the end of the setup or its
rollback.

### WindowsHook

Processes with PIDs and parent PIDs come and go; the hook reads snapshots, opens
PIDs and acts on handles, one system call at a time, during registration (round
0: the job) and in the callback (rounds 1 and 2: terminate). `ours` is what
really descends from the postmaster, `touched` what the hook terminated or put
into the job, `missed` what a denied call left out.

Assumed of the system: a handle keeps its process's PID from being reused; a
process that comes by the postmaster's PID was created more than two seconds
later (the tolerance of `creation_time_matches`); the postmaster's children are
`postgres.exe` and theirs are not. Processes stop being created once the owner
is gone. The one process the hook may touch by mistake is in `coincident`: its
parent has died, and the parent's PID has come to one of the server's
processes, so that by parent PIDs, all that Windows offers, it descends from
the server. `CollectTree` leaves the postmaster out by identity where
`collect_process_tree` leaves out the root's PID; the two agree, as the PID of a
held handle is not reused and nothing is collected without the root's handle.

Definitions introduced by the comment `Fault:` are mistaken variants of the
definition that follows. They are not part of a specification; substituting one
must make TLC find the property named in PROJECT.json violated.

## 3. Runs

| Run | Instance | States | Shows |
|---|---|---|---|
| `slots` | 2 processes, 2 slots, symmetric | 168 k | slot safety, servers spared, refinement of SlotLease |
| `slots_live` | 2 processes, 1 slot, 1 explicit directory, guarded or not | 119 k | orphans stopped, watchers end, guard returned; the tree spared by an explicit cluster's guarded cleanup |
| `scoped_env` | 2 threads, 2 variables, 2 values, 4 scopes each | 14 k | environment restored and in effect, lock returned, loops |
| `shared` | root, 2 threads, 2 singletons, 2 attempts, 2 calls | 1.3 M | one initialisation, leaks hooked, lock accounted for, callback order, refinement of SharedService |
| `shared_live` | 2 threads, 1 singleton, 2 attempts, 2 calls | 642 k | every caller is answered |
| `install` | 2 processes, 1 release of 2 files, 2 archives that share a file, symmetric | 2.8 M | cache entries pristine, a hit's tree whole, extensions as declared, no circular wait |
| `setup` | root or not, 3 generated passwords, 3 ports | 75 k | password and port right after any failure, data kept, payload removed |
| `databases` | 2 threads, 1 template of 2 steps, 1 name, 3 calls each | 104 k | ensured templates complete, databases kept, every ensure returns, refinement of TemplatePromise |
| `windows_hook` | postmaster and 2 processes, 3 PIDs, symmetric | 129 k | only the server's processes touched, the job covers them, walks agree |

Two processes are enough for each pairwise race (claim against sweep, cleanup
against claim, sweep against watcher), since the claim guard admits one actor
at a time; the second slot lets a process sweep one while it claims another.
Slot names are not reused, so `Slots` bounds the number of claims in a
behaviour; the proofs remove the bound. Two threads and two calls let a thread
hold a cluster of its own and ask for a shared one, register a handle it was
given, or meet a failed singleton; two attempts make a retry happen.
`MaxScopes = 8` is never reached in SharedCluster. The slot runs do not check
for deadlock, for all processes may be dead, nor do `databases` and
`windows_hook`, where the calls or the processes may be used up.

In `install` two processes give every pair of one that copies, populates,
installs or removes and one that does another of these; two files let a
directory be incomplete although `initdb` is there; processes start over without
a bound. Once a population has failed only slotted clusters are started
(`SlottedAfterFailure`), and likewise beside a cluster under which an unguarded
cleanup has struck (`SlottedBesideStripped`), bounds that keep the run short.

Three passwords and ports in `setup` are one for the session and one for each place an earlier one
may have left its own; sessions are unbounded. In `databases` three calls let a
thread ensure, clone, and meet the other's leftovers. In `windows_hook` three
PIDs for three processes force reuse: by the root's PID, by a descendant's, and
through a parent PID.

**Fairness.** Slots: whoever has the claim guard goes on (bounded file work and
waits with deadlines); servers write their PID file or give up, and obey
SIGQUIT; watchers run, with strong fairness for getting the lock, as
`flock(2)` queues a waiter while sweeps only try. Nothing is assumed of a
process outside the guard. SharedCluster: threads run, tests end and drop what
they own, waits have deadlines; no caller is assumed to make a call. Databases:
a thread whose call is under way and not blocked goes on, which includes that a
`setup_fn` ends; it is weak fairness only, so nothing is assumed of the order in
which the mutex is given out (the bound on calls means that nobody is overtaken
for ever).

### Where code and documentation differ

Each of these runs checks a statement of the documentation and ends in a
counterexample; PROJECT.json quotes the statement.

* `slot_parent`: an unprivileged setup-only `run` in a root removes
  `<root>/data` when it drops its `PostgreSQL` value, and with it the slots of
  live clusters; so does the cleanup of a test cluster with
  `PG_DATA_DIR=<root>/data`, the setting the users' guide advises for using what
  `run` leaves. By the same Drop `run` leaves nothing there to use, although its
  cluster "is its product" (layout.rs:20-22).
* `lock_order`: a thread with its own cluster and one that initialises the
  shared cluster wait for each other. `shared_live` shows that without a scope
  open at the call (`Nesting = FALSE`) there is no such wait.
* `interrupted_initdb`: an `initdb` killed after it wrote `PG_VERSION` leaves a
  directory that `is_setup_complete` accepts, so the worker's recovery, which
  would reset it, is skipped.

### Observations without a run of their own

* A full cleanup that finds no slot parent takes neither guard nor probe
  (cleanup.rs:201-205: "With no such parent nothing shares the tree") and can
  remove the tree from under slotted clusters, although `plan_cleanup` "never
  removes an install tree other clusters are running from". InstallKept,
  HitTreeWhole and ExtensionsAsDeclared except that removal and nothing else;
  without the exception TLC finds each of them violated.
* A guarded full cleanup removes the tree from under a cluster with an explicit
  `PG_DATA_DIR`, which holds no slot lock, although the users' guide promises
  the tree to every "other cluster in the root" (line 895). InstallKept speaks
  of slotted clusters for that reason.
* The stop of an unprivileged cluster drops its `PostgreSQL` value, and so
  removes its data directory, for `CleanupMode::None` as well, which is to "skip
  cleanup entirely (useful for debugging)" (bootstrap/mod.rs:88). A start that
  fails or times out removes the directory too, an explicit `PG_DATA_DIR` with
  an earlier session's cluster in it included. DataKept excepts these two steps
  of unprivileged sessions and no other.
* The Drop ignores its errors: a server that does not stop may be left without
  its directory (`stray`; SparesServers excepts the step), and a directory that
  cannot be removed altogether without its password file (`torn`).
* A best-effort population that fails (`try_populate_cache` only logs) leaves
  the entry unmarked while the start goes on to install extensions. The next
  miss copies the tree as it then is: with extension files, contrary to
  `docs/extensions.md`, or without what an interrupted cleanup had removed.
  MarkedEntryPristine and HitTreeWhole therefore leave out versions in
  `uncached`; without that restriction TLC finds both violated.
* A copy from the cache that fails part-way counts as a miss, but `Setup` takes
  the directory it has begun for an installation.
* The first owner of a slot killed between the launch of its postmaster and
  `postmaster.pid` leaves a server that neither watcher nor sweep recognises
  (`stray` in ClusterSlots).
* A data directory whose removal failed loses its lock file and is never swept.
* `ensure_worker_env` tests `PG_EMBEDDED_WORKER` without `ENV_LOCK`; the scope
  that set it may be gone when it counts.
* On Unix the exit hook knows the server by its PID alone.
* A template whose rollback failed, or whose process died in its setup, is
  accepted by later callers of `ensure_template_exists` (`leftOver`).
* The second `DROP DATABASE` of a consumed guard can remove a database that
  another thread has created under the same name meanwhile. HolderHasDatabase
  leaves those names out (`repeated`): it says that nothing else takes a database
  from its creator, and would not notice this.

## 4. Proofs

`ClusterSlotsProofs`, from the assumption `ConstantsAssumption` only (slots and
explicit directories are disjoint, the unguarded directories are explicit ones,
the sentinels are none of them):

* `TypeCorrect`: type correctness.
* `SlotSafety`, `LiveDataKept`, `InstallTreeKept`: OwnedSlotIntact,
  LiveClusterKeepsData and InstallKept. They are not inductive: a lock says
  nothing by itself about who may take one. `IndInv`
  adds that the guard is held exactly in the guarded section (GuardInv), that a
  sweep holds the lock of the slot at hand, that a slot just created is locked
  by nobody (CreatedInv), that a process's lock is on an existing file
  (LockInv), that what a full cleanup saw in its probe still holds at the
  removal (FullInv), and that the tree is stripped only where some cleanup is
  unguarded (StrippedInv). `InstallTreeKept` so has two readings: where
  `Unguarded` is empty, a slotted cluster never loses its tree; where it is not,
  it loses the tree to an unguarded cleanup only.
* `ServersSpared`: SparesServers, from `ServerInv`, which adds that anything in
  a slot belongs to a dead process or to the holder of its lock, and that
  `postmaster.pid` names the server unless the server is stray.
* `Refinement`: ImplementsLease, step by step from the same invariant.

`ScopedEnvProofs`, from `EnvAssumption`: `EnvTypeCorrect`, `NeverCorrupt`,
`EnvironmentRestored`, `ScopesInEffect` and `LoopsCompute`, for any variables,
values, change lists and nesting depth. The invariant says that the live guards
are the unfinished scopes, which `depth` counts; that the topmost scope is
unfinished; that the thread with a nonempty stack has the lock; that undoing all
scopes yields `base` (BaseInv), and that undoing the scopes above the *i*-th
yields what the *i*-th applied (EffectInv). The lemmas `Push` and `Pop` say how
`Restored` changes when a scope is pushed or finished ones are popped;
`EnterEffect` and `ExitEffect` say what a scope's beginning and end do to the
lock and to the live guards, for users of the module. `LoopsCompute` compares
loop and closed form row by row: the closed forms follow each statement of the
loop body, and the least row at which they could differ does not exist
(`StepByStep`), which stands in for an induction.

`SharedClusterProofs`, from `SharedAssumption` (singletons are not threads, no
cluster is `None`, there is at least one attempt): `SharedTypeCorrect`,
`PublishedUp`, `ScopesAccounted`, `HookedServerDown` and `DataKeptForServer`
(which says something for root only),
for any threads, singletons, attempts and calls, root or not. The environment is
an instance of ScopedEnvProofs: its assumption is proved here (`EnvConstants`),
and its invariant and lemmas are used through `Entering`, `Exiting` and the end
of a thread, so that a step's effect on the lock is one of opening a scope,
closing it, or ending all. On that rest: who initialises a singleton has its
mutex, and nobody has it for a settled one (MutexInv), so that there is one
initialiser; a reserved hook has one builder, and a guard is forgotten after the
hook's state is built (BuildInv); a cluster that is being built has no scopes,
or none of its environment, until the code opens them (BlankInv), so that scopes
and guards correspond one to one (ScopeInv) and LockAccounted is inductive; a
guard whose cluster was started has a server that has not been stopped (UpInv),
and only its thread can stop it, which does not once it is leaked (LeakInv),
hence PublishedStaysUp. `ServiceKept` is ImplementsService, step by step; it
needs in addition that a maker has no server before it starts one, and an
uninitialised singleton that nobody makes has none (UnstartedInv).

`InstallTreeProofs`, from `InstallAssumption` (every nonempty set of releases
has a newest, an archive holds extension files only, a manifest names
archives): `InstallTypeCorrect` and `EntriesPristine`, for any processes,
releases, files and manifests. MarkedEntryPristine says nothing about how an
entry comes to be, so the invariant follows a version from its download to the
marker. A version is *fresh* while it is not marked and no population of it has
failed. Nobody is in the extension hook or later with a fresh version
(UsedInv), because a start that missed either marked the version, failed to, or
found it marked; so nobody writes to its directory or removes it, and what is
there is the release (TreeInv). The process that populates has the setup lock
(LockInv), works on the directory setup chose (NewestInv: `installed_dir` and
`resolve_installed_dir` agree), and what it has copied so far is whole
(FillInv); the marker then makes the entry pristine (EntryInv). That a file,
version or archive a process names exists needs PlaceInv and HookInv.

`InstallTreeUseProofs` goes on from that invariant to what a start counts on:

* `NobodyWaitsInCircle`: NoWaitCycle. Entry and archive locks are only taken by
  the process that has the setup lock (LockInv), so they are never waited for,
  and who waits for the setup lock does not have it (WaitInv). In any set of
  processes the lock's holder, or anybody if the holder is not among them,
  waits for none of them. It is the nesting under one lock, and not an order
  between the locks, that keeps the code from deadlocks.
* `HitsKeepRelease`: HitTreeWhole. A slotted start copies from an entry that is
  the release (EntryInv), so other copies leave its files alone (they write what
  differs); downloads bring the release, extensions have files of their own,
  guarded removals see the slot (RemoveInv), and an unguarded one that takes a
  file puts the clusters of that version in `stripped` (Struck), which the
  properties leave out. CopyInv says which files of a copy under
  way are whole.
* `ExtensionsInstalled`: ExtensionsAsDeclared. From the selection to the end the
  hook has the setup lock and nobody removes under the guard (HeldTree: no step
  of another process changes the tree, or it is an unguarded removal and the
  process is in `stripped`), so that what it has written of each extension
  (WrittenInv) stays, up to what a later extension of the same start replaces.

`DataDirSetupProofs`, from `SetupAssumption`: `SetupTypeCorrect`,
`StoredPasswordRight`, `SessionsReachable`, `PayloadsClosed` and the action
property `DataSafe`, for any passwords and ports, by one induction: an
operation belongs to its phase (PhaseInv); a running initdb has the password of
the file and either somebody who waits for it or no session beside it
(InitdbInv); the session's password is the file's, where there is a file, and
the cluster's, where there is a cluster (ReportInv); a session's server is on
its port and gone before a cleanup, and as root it has its files (ServerInv).
What a Drop leaves is summed up in one lemma (`DropLeaves`): of each session's
end the proofs use no more than that the directory shrinks, that the password
file goes with or after it, and that root's is untouched. StoredPasswordOpens
holds up to a missing file in a torn directory; DataKept excepts the drops of
unprivileged values, and `DataSafe` shows that there is no third way to lose
data.

`DatabasesProofs`, from `DatabasesAssumption`: `TypeCorrect`,
`TemplatesComplete`, `DatabasesKept`, for any threads, templates, names and
numbers of setup steps. A template neither absent nor complete is left over or
is being made by a thread (MakingInv) which by TypeOK has its lock; while it is
made nobody was told of it (UntoldInv), and who creates one has found none
(CreateInv). A name without a second drop has one holder (HolderInv).
`PromiseKept` is ImplementsPromise: a step that leaves the makers and the
templates nobody makes alone changes nothing of the promise (Stuttering), and
the steps that begin or end a making change one template (Changing), because the
lock admits one maker (OneMaker).

`WindowsHookProofs`, from `WindowsAssumption` (finitely many processes, the
postmaster among them; `None` is neither a PID nor a set of processes, since it
stands for "no PID" and "no job"): `WindowsTypeCorrect`, `TouchesOnlyOurs`,
`JobComplete` and `WalksFindTheSame`, for any number of processes and PIDs.

* The walks come first. `Ascent` and `Levels` are the recursive functions of
  `process_has_root_ancestor` and `collect_process_tree`; that their rows exist,
  and what they hold, is proved with the least row for which it fails
  (`LeastOf`). A level that adds nothing ends the closure, and each that does
  adds an entry, so that the last of as many levels as there are entries adds
  nothing (`LevelSize`, `LastLevel`). A walk up from a process and the closure
  down follow the same chains (`LevelAscent`, `AscentLevel`, `SameWalks`): the
  bound of the walk up is long enough, whatever cycles reused PIDs make.
* OnlyOursTouched needs that whatever is chained to the postmaster by parent
  PIDs, through processes that are there or held, is ours or coincident
  (ChainInv), that handles are of the entries they were opened for (HandleInv;
  a held PID is not reused), and that what is acted upon was validated against a
  second snapshot (ValidInv).
* JobCoversServer needs that each child of the postmaster is in the job, was
  missed, or is on its way: in the snapshot to come, in the tree read, or opened
  (JobInv with Pending). A child created after the postmaster's assignment is in
  the job at its birth.

Only model-checked: everything under fairness (WatchedServerStops, WatchersEnd,
GuardReleased, CallersAnswered, EnsureReturns), since TLAPS here proves no
liveness. All other properties of the passing runs are theorems, and each
theorem's property is checked by a run: the runs exercise the definitions the
proofs are about, and a mutant of the code breaks each of them.

## 5. Not modelled, and what could be added

Not modelled: macOS's `ps`/`lsof` inspection as distinct from Linux's `/proc`;
logs, metrics and error values; the resolution of paths, users and settings; the
contents of manifests and archives (parsing, caps, path checks) and HTTP; the
staging of the worker binary for this repository's own tests. These are
sequential, and no other process or thread sees them half-done.

What could be added is small. The slot protocol and the install tree meet in
the claim guard, which InstallTree abstracts to `mode` and `pc`: it takes from
ClusterSlots that a guarded removal runs only when no other slot is held, which
is SlotLease's condition on RemoveTree and is proved there (`Refinement`); an
unguarded one (Strip there) runs at any time in both. A mapping from one removal to the other would say that nothing
else of the guard matters to the tree.
