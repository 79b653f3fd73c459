---------------------------- MODULE ClusterSlots ----------------------------
(***************************************************************************)
(* Test processes that share one root: each cluster a process starts has a *)
(* slot of its own under <root>/data (data directory plus lock file), all  *)
(* of them run from the one install tree <root>/install, and any process   *)
(* may be killed at any step.  The module follows                          *)
(*   bootstrap/prepare/cluster_slot  claim, sweep, probe for peers;        *)
(*   bootstrap/prepare/orphan        what postmaster.pid says, the stop;   *)
(*   bootstrap/prepare/orphan_watch  the detached watcher of a slot;       *)
(*   cluster/startup, shutdown, cleanup   the owner's own life cycle.      *)
(*                                                                         *)
(* A process is one incarnation: it dies once and does not come back.  The *)
(* kernel lock on a file is the holder recorded in lockBy; it vanishes     *)
(* with the process that holds it.  Slot names are never reused            *)
(* (slot_name: process ID, nanoseconds and a counter).                     *)
(*                                                                         *)
(* A definition introduced as a Fault is no part of the specification: it  *)
(* is the next definition with a plausible mistake in it, for checking     *)
(* that the properties notice.                                             *)
(***************************************************************************)
EXTENDS Naturals, FiniteSets

CONSTANTS
  Procs,      \* test processes
  Slots,      \* slot names that claims can draw
  Explicit,   \* data directories named by PG_DATA_DIR, which are not slots
  Unguarded,  \* those of them whose full cleanup may ask nobody: if their owner's
              \* install tree is not named install, derived_slot_parent is None
  None,       \* nobody
  Watcher,    \* the holder of a slot lock that a watcher has taken
  WatcherOn   \* PG_EMBED_ORPHAN_WATCHER is not "off" and setsid exists

Dirs == Slots \cup Explicit

\* An explicit directory does not contain the slots; SlotParent is about the
\* one that does.
ASSUME ConstantsAssumption ==
  /\ Slots \cap Explicit = {}
  /\ Unguarded \subseteq Explicit
  /\ None \notin Procs \cup Dirs \cup {Watcher}
  /\ Watcher \notin Procs
  /\ WatcherOn \in BOOLEAN

VARIABLES
  pc,        \* what each process is doing
  at,        \* the directory it is doing it to
  todo,      \* lock files its sweep has listed and not looked at yet
  again,     \* a second cleanup pass follows: the cluster is worker-managed
  guard,     \* who holds the lock on .claim-guard
  owner,     \* which process created the slot, or uses the explicit directory
  lockFile,  \* <name>.lock exists
  lockBy,    \* who holds the kernel lock on it
  dir,       \* the data directory exists
  pidfile,   \* what the process named in postmaster.pid turns out to be
  server,    \* the postgres server of a data directory
  watcher,   \* the watcher of a slot
  install,   \* the shared install tree; "stripped": removed without the guard
  stray      \* servers no postmaster.pid tells of: it was not written when their
             \* owner died, or their owner's Drop took it with the directory

procVars == <<pc, at, todo, again>>
slotVars == <<owner, lockFile, lockBy>>
serverVars == <<dir, pidfile, server>>
vars == <<pc, at, todo, again, guard, owner, lockFile, lockBy, dir, pidfile,
          server, watcher, install, stray>>

Sweeping == {"check", "stopping", "remove"}
Guarded  == {"sweep", "created", "probe", "full"} \cup Sweeping
Starting == {"prepared", "armed", "ready", "starting"}
Owning   == {"claimed", "running", "stopped", "plan", "probe", "full"} \cup Starting
\* The steps of an owner that execute files of the install tree.
RunsFromTree == {"ready", "starting", "running"}

ServerUp == {"running", "quitting"}

TypeOK ==
  /\ pc \in [Procs -> {"idle", "dead"} \cup Guarded \cup Owning]
  /\ at \in [Procs -> Dirs \cup {None}]
  /\ todo \in [Procs -> SUBSET Slots]
  /\ again \in [Procs -> BOOLEAN]
  /\ guard \in Procs \cup {None}
  /\ owner \in [Dirs -> Procs \cup {None}]
  /\ lockFile \in [Slots -> BOOLEAN]
  /\ lockBy \in [Slots -> Procs \cup {None, Watcher}]
  /\ dir \in [Dirs -> BOOLEAN]
  /\ pidfile \in [Dirs -> {"absent", "live", "dead", "foreign", "opaque"}]
  /\ server \in [Dirs -> {"none", "launching", "running", "quitting"}]
  /\ watcher \in [Slots -> {"none", "spawned", "waiting", "detached", "script", "signal"}]
  /\ install \in {"absent", "present", "stripped"}
  /\ stray \in SUBSET Dirs

Init ==
  /\ pc = [p \in Procs |-> "idle"]
  /\ at = [p \in Procs |-> None]
  /\ todo = [p \in Procs |-> {}]
  /\ again = [p \in Procs |-> FALSE]
  /\ guard = None
  /\ owner = [d \in Dirs |-> None]
  /\ lockFile = [s \in Slots |-> FALSE]
  /\ lockBy = [s \in Slots |-> None]
  /\ dir = [d \in Dirs |-> FALSE]
  /\ pidfile = [d \in Dirs |-> "absent"]
  /\ server = [d \in Dirs |-> "none"]
  /\ watcher = [s \in Slots |-> "none"]
  /\ install = "absent"
  /\ stray = {}

Goto(p, l) == pc' = [pc EXCEPT ![p] = l]
At(p, d) == at' = [at EXCEPT ![p] = d]

-----------------------------------------------------------------------------
(* The data directory and the server in it.                                *)

\* slot_lookup: a directory is a slot exactly if its lock file sits beside it.
IsSlot(d) == d \in Slots /\ lockFile[d]

\* The answers server_state can give for a directory: "Unconfirmed" for a live
\* process that cannot be inspected, whether or not it is the server.
ServerState(d) == {state \in {"Absent", "Running", "Unconfirmed"} :
  \/ state = "Absent" /\ pidfile[d] \in {"absent", "dead", "foreign"}
  \/ state = "Running" /\ pidfile[d] = "live"
  \/ state = "Unconfirmed" /\ pidfile[d] \in {"live", "opaque"}}

\* A directory is removed, postmaster.pid with it, or the removal fails, which
\* is logged and nothing more.
RemoveDir(d) ==
  /\ dir' = [dir EXCEPT ![d] = FALSE]
  /\ pidfile' = [pidfile EXCEPT ![d] = "absent"]

TryRemoveDir(d) == RemoveDir(d) \/ UNCHANGED <<dir, pidfile>>

\* Fault: kill without wait.
ReleaseWatcherUnreaped(d) ==
  watcher' = IF d \in Slots THEN [watcher EXCEPT ![d] = "zombie"] ELSE watcher

\* release_watcher: kill and reap the watcher registered for the directory;
\* where that fails the watcher is recorded as released and waits on.
ReleaseWatcher(d) ==
  \/ watcher' = IF d \in Slots THEN [watcher EXCEPT ![d] = "none"] ELSE watcher
  \/ UNCHANGED watcher

\* SIGQUIT to the postmaster.
Quit(d) == server' = [server EXCEPT ![d] = IF @ = "running" THEN "quitting" ELSE @]

\* The Drop of a PostgreSQL value, the library's: pg_ctl stop for a server that
\* postmaster.pid tells of, then, if the settings are temporary, the directory.
\* They are for a cluster run in process and not for a worker's; errors are
\* ignored, so that a directory can go under a server that does not stop.
DropValue(d) ==
  /\ \/ server' = [server EXCEPT ![d] = "none"]
     \/ Quit(d)
     \/ UNCHANGED server
  /\ \/ RemoveDir(d)
     \/ /\ pidfile' = [pidfile EXCEPT ![d] =
             IF server'[d] = "none" /\ @ = "live" THEN "absent" ELSE @]
        /\ UNCHANGED dir
  /\ stray' = IF server'[d] \in ServerUp /\ ~dir'[d] THEN stray \cup {d} ELSE stray

-----------------------------------------------------------------------------
(* claim_slot: take the claim guard, sweep, create and lock a new slot.    *)

\* Fault: the sweep runs before the guard is taken.
BeginClaimUnguarded(p) ==
  /\ pc[p] = "idle"
  /\ guard' = p
  /\ todo' = [todo EXCEPT ![p] = {s \in Slots : lockFile[s]}]
  /\ Goto(p, "sweep")
  /\ UNCHANGED <<again, at, slotVars, serverVars, watcher, install, stray>>

\* ClaimGuard::acquire succeeds and the sweep lists the lock files.
BeginClaim(p) ==
  /\ pc[p] = "idle" /\ guard = None
  /\ guard' = p
  /\ todo' = [todo EXCEPT ![p] = {s \in Slots : lockFile[s]}]
  /\ Goto(p, "sweep")
  /\ UNCHANGED <<again, at, slotVars, serverVars, watcher, install, stray>>

\* Fault: the error path leaks the guard file.
ClaimFailsGuarded(p) ==
  /\ pc[p] = "sweep"
  /\ todo' = [todo EXCEPT ![p] = {}]
  /\ Goto(p, "idle")
  /\ UNCHANGED <<again, at, guard, slotVars, serverVars, watcher, install, stray>>

\* The parent cannot be listed, or the new lock file cannot be created: the
\* error drops the guard.
ClaimFails(p) ==
  /\ pc[p] = "sweep"
  /\ guard' = None
  /\ todo' = [todo EXCEPT ![p] = {}]
  /\ Goto(p, "idle")
  /\ UNCHANGED <<again, at, slotVars, serverVars, watcher, install, stray>>

\* Fault: the result of try_lock is ignored.
TakeAnyLock(p, s) ==
  /\ lockFile[s]
  /\ lockBy' = [lockBy EXCEPT ![s] = p]

\* take_dead_lock: open the lock file and try its lock.
TakeDeadLock(p, s) ==
  /\ lockFile[s] /\ lockBy[s] = None
  /\ lockBy' = [lockBy EXCEPT ![s] = p]

\* sweep_one takes the lock of a dead owner ...
SweepTake(p, s) ==
  /\ pc[p] = "sweep" /\ s \in todo[p]
  /\ TakeDeadLock(p, s)
  /\ todo' = [todo EXCEPT ![p] = @ \ {s}]
  /\ At(p, s) /\ Goto(p, "check")
  /\ UNCHANGED <<again, guard, owner, lockFile, serverVars, watcher, install, stray>>

\* ... or skips a slot whose lock is held or gone.
SweepSkip(p, s) ==
  /\ pc[p] = "sweep" /\ s \in todo[p]
  /\ ~(lockFile[s] /\ lockBy[s] = None)
  /\ todo' = [todo EXCEPT ![p] = @ \ {s}]
  /\ UNCHANGED <<again, pc, at, guard, slotVars, serverVars, watcher, install, stray>>

\* The slot's lock is dropped and the sweep goes on with the next one.
SweepNext(p, s) ==
  /\ lockBy' = [lockBy EXCEPT ![s] = None]
  /\ At(p, None) /\ Goto(p, "sweep")

\* stop_orphaned_server: no server, a server to stop, or doubt.
SweepCheck(p) ==
  /\ pc[p] = "check"
  /\ \E state \in ServerState(at[p]) :
       \/ /\ state = "Absent"
          /\ Goto(p, "remove")
          /\ UNCHANGED <<at, lockBy, server>>
       \/ /\ state = "Running"
          /\ Quit(at[p])
          /\ Goto(p, "stopping")
          /\ UNCHANGED <<at, lockBy>>
       \/ /\ state = "Unconfirmed"
          /\ SweepNext(p, at[p])
          /\ UNCHANGED server
  /\ UNCHANGED <<again, todo, guard, owner, lockFile, dir, pidfile, watcher, install, stray>>

\* wait_for_exit sees the signalled process gone.
SweepStopped(p) ==
  /\ pc[p] = "stopping" /\ server[at[p]] \notin ServerUp
  /\ Goto(p, "remove")
  /\ UNCHANGED <<again, at, todo, guard, slotVars, serverVars, watcher, install, stray>>

\* Fault: a stop that timed out counts as done.
SweepInsists(p) ==
  /\ pc[p] = "stopping" /\ server[at[p]] \in ServerUp
  /\ Goto(p, "remove")
  /\ UNCHANGED <<again, at, todo, guard, slotVars, serverVars, watcher, install, stray>>

\* STOP_TIMEOUT passes with the server still there: the slot is left in place.
SweepGivesUp(p) ==
  /\ pc[p] = "stopping" /\ server[at[p]] \in ServerUp
  /\ SweepNext(p, at[p])
  /\ UNCHANGED <<again, todo, guard, owner, lockFile, serverVars, watcher, install, stray>>

\* remove_slot_files tries every file; any of the removals may fail and leave
\* its file behind.  A watcher blocked on an unlinked lock file waits on alone.
RemoveSlotFiles(s) ==
  /\ TryRemoveDir(s)
  /\ \/ /\ lockFile' = [lockFile EXCEPT ![s] = FALSE]
        /\ watcher' = [watcher EXCEPT ![s] = IF @ = "waiting" THEN "detached" ELSE @]
     \/ UNCHANGED <<lockFile, watcher>>

SweepRemove(p) ==
  /\ pc[p] = "remove"
  /\ RemoveSlotFiles(at[p])
  /\ SweepNext(p, at[p])
  /\ UNCHANGED <<again, todo, guard, owner, server, install, stray>>

\* lock_new_slot, first half: create_new refuses an existing lock file.
CreateLock(p, s) ==
  /\ pc[p] = "sweep" /\ todo[p] = {}
  /\ owner[s] = None /\ ~lockFile[s]
  /\ lockFile' = [lockFile EXCEPT ![s] = TRUE]
  /\ owner' = [owner EXCEPT ![s] = p]
  /\ At(p, s) /\ Goto(p, "created")
  /\ UNCHANGED <<again, todo, guard, lockBy, serverVars, watcher, install, stray>>

\* Second half: try_lock; the file goes to HELD and the guard is dropped.
LockNew(p) ==
  /\ pc[p] = "created" /\ lockBy[at[p]] = None
  /\ lockBy' = [lockBy EXCEPT ![at[p]] = p]
  /\ guard' = None
  /\ Goto(p, "claimed")
  /\ UNCHANGED <<again, at, todo, owner, lockFile, serverVars, watcher, install, stray>>

\* try_lock would block or fails: the bootstrap fails, the file stays behind.
LockNewFails(p) ==
  /\ pc[p] = "created"
  /\ guard' = None
  /\ At(p, None) /\ Goto(p, "idle")
  /\ UNCHANGED <<again, todo, slotVars, serverVars, watcher, install, stray>>

-----------------------------------------------------------------------------
(* The owner's life cycle.                                                 *)

\* The rest of bootstrap_unprivileged: the data directory exists from here on.
Prepare(p) ==
  /\ pc[p] = "claimed"
  /\ dir' = [dir EXCEPT ![at[p]] = TRUE]
  /\ Goto(p, "prepared")
  /\ UNCHANGED <<again, at, todo, guard, slotVars, pidfile, server, watcher, install, stray>>

\* The settings, the environment or the setup lock fail after the claim: the
\* process keeps the slot's lock, in HELD, for the rest of its life.
PrepareFails(p) ==
  /\ pc[p] \in {"claimed", "prepared"}
  /\ At(p, None) /\ Goto(p, "idle")
  /\ UNCHANGED <<again, todo, guard, slotVars, serverVars, watcher, install, stray>>

\* claim_derived_slot returns early for an explicit PG_DATA_DIR: no slot, no
\* sweep.  The directory serves one cluster at a time.
PrepareExplicit(p, e) ==
  /\ pc[p] = "idle" /\ owner[e] = None
  /\ owner' = [owner EXCEPT ![e] = p]
  /\ dir' = [dir EXCEPT ![e] = TRUE]
  /\ At(p, e) /\ Goto(p, "prepared")
  /\ UNCHANGED <<again, todo, guard, lockFile, lockBy, pidfile, server, watcher, install, stray>>

\* watch_slot_owner, before Setup and Start; spawning may fail.
Arm(p) ==
  /\ pc[p] = "prepared"
  /\ \/ /\ WatcherOn /\ IsSlot(at[p])
        /\ watcher' = [watcher EXCEPT ![at[p]] = "spawned"]
     \/ UNCHANGED watcher
  /\ Goto(p, "armed")
  /\ UNCHANGED <<again, at, todo, guard, slotVars, serverVars, install, stray>>

\* Setup provisions the install tree where it is missing and runs initdb.
Setup(p) ==
  /\ pc[p] = "armed"
  /\ install' = "present"
  /\ Goto(p, "ready")
  /\ UNCHANGED <<again, at, todo, guard, slotVars, serverVars, watcher, stray>>

\* Start runs pg_ctl, which launches the postmaster.
Launch(p) ==
  /\ pc[p] = "ready" /\ server[at[p]] = "none"
  /\ server' = [server EXCEPT ![at[p]] = "launching"]
  /\ Goto(p, "starting")
  /\ UNCHANGED <<again, at, todo, guard, slotVars, dir, pidfile, watcher, install, stray>>

\* pg_ctl reports the server up: start_postgres returns.
Started(p) ==
  /\ pc[p] = "starting" /\ server[at[p]] = "running"
  /\ Goto(p, "running")
  /\ UNCHANGED <<again, at, todo, guard, slotVars, serverVars, watcher, install, stray>>

\* Setup or Start fails or times out, whatever the server does meanwhile: the
\* value is dropped, here or in the worker, start_postgres releases the watcher
\* and returns the error.
StartFails(p) ==
  /\ pc[p] \in {"armed", "ready", "starting"}
  /\ DropValue(at[p])
  /\ ReleaseWatcher(at[p])
  /\ At(p, None) /\ Goto(p, "idle")
  /\ UNCHANGED <<again, todo, guard, slotVars, install>>

\* pg.stop() succeeds and the Drop of the value takes the directory whatever the
\* cleanup mode; or the worker's Stop succeeds, and what a worker manages is
\* cleaned up by the worker first and in process after that.
Stop(p) ==
  /\ pc[p] = "running" /\ server[at[p]] \in ServerUp
  /\ server' = [server EXCEPT ![at[p]] = "none"]
  /\ pidfile' = [pidfile EXCEPT ![at[p]] = "absent"]
  /\ \/ dir' \in {dir, [dir EXCEPT ![at[p]] = FALSE]} /\ UNCHANGED again
     \/ again' = [again EXCEPT ![p] = TRUE] /\ UNCHANGED dir
  /\ Goto(p, "stopped")
  /\ UNCHANGED <<at, todo, guard, slotVars, watcher, install, stray>>

\* The stop fails or times out, or an async guard is dropped with no runtime to
\* stop it on: no cleanup, and the watcher stays armed.  The value is dropped
\* all the same.
StopFails(p) ==
  /\ pc[p] = "running"
  /\ DropValue(at[p])
  /\ At(p, None) /\ Goto(p, "idle")
  /\ UNCHANGED <<again, todo, guard, slotVars, watcher, install>>

\* A cleanup pass ends: the worker's is followed by the one in process.
EndPass(p) ==
  /\ again' = [again EXCEPT ![p] = FALSE]
  /\ At(p, IF again[p] THEN at[p] ELSE None)
  /\ Goto(p, IF again[p] THEN "stopped" ELSE "idle")

\* cleanup_in_process or cleanup_worker_managed up to the plan.
Cleanup(p) ==
  /\ pc[p] = "stopped"
  /\ ReleaseWatcher(at[p])
  /\ \E mode \in {"None", "DataOnly", "Full"} :
       \/ /\ mode = "None"
          /\ EndPass(p)
          /\ UNCHANGED <<dir, pidfile>>
       \/ /\ mode = "DataOnly"
          /\ TryRemoveDir(at[p])
          /\ EndPass(p)
       \/ /\ mode = "Full"
          /\ Goto(p, "plan")
          /\ UNCHANGED <<at, again, dir, pidfile>>
  /\ UNCHANGED <<todo, guard, slotVars, server, install, stray>>

\* Fault: the probe and the removal run without the guard.
TakeNoGuard(p) ==
  /\ pc[p] = "plan" /\ guard = None
  /\ Goto(p, "probe")
  /\ UNCHANGED <<again, at, todo, guard, slotVars, serverVars, watcher, install, stray>>

\* plan_cleanup, or plan_for_unslotted, takes the claim guard.
TakeGuard(p) ==
  /\ pc[p] = "plan" /\ guard = None
  /\ guard' = p
  /\ Goto(p, "probe")
  /\ UNCHANGED <<again, at, todo, slotVars, serverVars, watcher, install, stray>>

\* Fault: a directory that is not a slot has no peers.
SlottedPeers(p) ==
  /\ at[p] \in Slots
  /\ \E s \in Slots \ {at[p]} : lockFile[s] /\ lockBy[s] # None

\* any_slot_held: some other slot's lock is held.
LivePeers(p) == \E s \in Slots \ {at[p]} : lockFile[s] /\ lockBy[s] # None

\* No live peer: the plan keeps Full, and the guard.
PlanFull(p) ==
  /\ pc[p] = "probe" /\ ~LivePeers(p)
  /\ Goto(p, "full")
  /\ UNCHANGED <<again, at, todo, guard, slotVars, serverVars, watcher, install, stray>>

\* A live peer, or a guard, a slot or a peer that cannot be probed: the plan is
\* demoted to DataOnly and holds no guard.
Demote(p) ==
  /\ pc[p] \in {"plan", "probe"}
  /\ guard' = IF guard = p THEN None ELSE guard
  /\ TryRemoveDir(at[p])
  /\ EndPass(p)
  /\ UNCHANGED <<todo, slotVars, server, watcher, install, stray>>

\* cleanup_data_dir and cleanup_install_dir under the guard; each may fail.
RemoveAll(p) ==
  /\ pc[p] = "full"
  /\ TryRemoveDir(at[p])
  /\ install' \in {"absent", install}
  /\ guard' = None
  /\ EndPass(p)
  /\ UNCHANGED <<todo, slotVars, server, watcher, stray>>

\* plan_for_unslotted finds no slot parent for the install tree and returns a
\* plan with neither guard nor probe: the tree goes, whoever runs from it.
RemoveUnguarded(p) ==
  /\ pc[p] = "plan" /\ at[p] \in Unguarded
  /\ TryRemoveDir(at[p])
  /\ install' \in {install, IF install = "present" THEN "stripped" ELSE install}
  /\ EndPass(p)
  /\ UNCHANGED <<todo, guard, slotVars, server, watcher, stray>>

\* The process dies, by SIGKILL or by exiting with its guard forgotten: the
\* kernel drops every lock it holds and runs nothing.
Die(p) ==
  /\ pc[p] # "dead"
  /\ Goto(p, "dead") /\ At(p, None)
  /\ todo' = [todo EXCEPT ![p] = {}]
  /\ again' = [again EXCEPT ![p] = FALSE]
  /\ guard' = IF guard = p THEN None ELSE guard
  /\ lockBy' = [s \in Slots |-> IF lockBy[s] = p THEN None ELSE lockBy[s]]
  /\ stray' = stray \cup {d \in Dirs : owner[d] = p /\ server[d] = "launching"}
  /\ UNCHANGED <<owner, lockFile, serverVars, watcher, install>>

-----------------------------------------------------------------------------
(* The server and the watcher, which run on their own.                     *)

\* The postmaster writes postmaster.pid, or exits because it cannot.
ServerRecords(d) ==
  /\ server[d] = "launching"
  /\ \/ /\ dir[d]
        /\ server' = [server EXCEPT ![d] = "running"]
        /\ pidfile' = [pidfile EXCEPT ![d] = "live"]
     \/ /\ server' = [server EXCEPT ![d] = "none"]
        /\ UNCHANGED pidfile
  /\ UNCHANGED <<procVars, guard, slotVars, dir, watcher, install, stray>>

\* A server asked to quit goes, and removes its PID file.
ServerQuits(d) ==
  /\ server[d] = "quitting"
  /\ server' = [server EXCEPT ![d] = "none"]
  /\ pidfile' = [pidfile EXCEPT ![d] = "absent"]
  /\ UNCHANGED <<procVars, guard, slotVars, dir, watcher, install, stray>>

\* A server crashes; its PID file names no process, a stranger that took the
\* PID over, or one that cannot be inspected.
ServerCrashes(d) ==
  /\ server[d] = "running"
  /\ server' = [server EXCEPT ![d] = "none"]
  /\ \E left \in {"dead", "foreign", "opaque"} :
       pidfile' = [pidfile EXCEPT ![d] = IF dir[d] THEN left ELSE @]
  /\ UNCHANGED <<procVars, guard, slotVars, dir, watcher, install, stray>>

\* flock(1) opens the lock file, creating it where it is missing.
WatcherOpens(s) ==
  /\ watcher[s] = "spawned"
  /\ watcher' = [watcher EXCEPT ![s] = "waiting"]
  /\ lockFile' = [lockFile EXCEPT ![s] = TRUE]
  /\ UNCHANGED <<procVars, guard, owner, lockBy, serverVars, install, stray>>

\* Fault: flock --nonblock.
WatcherTries(s) ==
  /\ watcher[s] = "waiting"
  /\ watcher' = [watcher EXCEPT ![s] = IF lockBy[s] = None THEN "script" ELSE "none"]
  /\ lockBy' = [lockBy EXCEPT ![s] = IF @ = None THEN Watcher ELSE @]
  /\ UNCHANGED <<procVars, guard, owner, lockFile, serverVars, install, stray>>

\* flock(2) returns once nobody holds the lock.
WatcherLocks(s) ==
  /\ watcher[s] = "waiting" /\ lockBy[s] = None
  /\ watcher' = [watcher EXCEPT ![s] = "script"]
  /\ lockBy' = [lockBy EXCEPT ![s] = Watcher]
  /\ UNCHANGED <<procVars, guard, owner, lockFile, serverVars, install, stray>>

\* A watcher that ends gives the lock back.
WatcherEnds(s) ==
  /\ watcher' = [watcher EXCEPT ![s] = "none"]
  /\ lockBy' = [lockBy EXCEPT ![s] = IF @ = Watcher THEN None ELSE @]

\* Fault: the script waits for a PID file to check.
WatcherAwaitsServer(s) ==
  /\ watcher[s] \in {"script", "detached"} /\ pidfile[s] = "live"
  /\ watcher' = [watcher EXCEPT ![s] = "signal"]
  /\ UNCHANGED <<procVars, guard, owner, lockFile, lockBy, serverVars, install, stray>>

\* WATCHER_SCRIPT up to the identity check: only the directory's own server
\* passes, everything else ends the script.
WatcherChecks(s) ==
  /\ watcher[s] \in {"script", "detached"}
  /\ \/ /\ pidfile[s] = "live"
        /\ watcher' = [watcher EXCEPT ![s] = "signal"]
        /\ UNCHANGED lockBy
     \/ /\ pidfile[s] # "live"
        /\ WatcherEnds(s)
  /\ UNCHANGED <<procVars, guard, owner, lockFile, serverVars, install, stray>>

\* kill -QUIT, and the script is over.
WatcherSignals(s) ==
  /\ watcher[s] = "signal"
  /\ Quit(s)
  /\ WatcherEnds(s)
  /\ UNCHANGED <<procVars, guard, owner, lockFile, dir, pidfile, install, stray>>

-----------------------------------------------------------------------------
ClaimStep(p) ==
  \/ BeginClaim(p) \/ ClaimFails(p)
  \/ \E s \in Slots : SweepTake(p, s) \/ SweepSkip(p, s) \/ CreateLock(p, s)
  \/ SweepCheck(p) \/ SweepStopped(p) \/ SweepGivesUp(p) \/ SweepRemove(p)
  \/ LockNew(p) \/ LockNewFails(p)

LifeStep(p) ==
  \/ Prepare(p) \/ PrepareFails(p) \/ (\E e \in Explicit : PrepareExplicit(p, e))
  \/ Arm(p) \/ Setup(p) \/ Launch(p) \/ Started(p) \/ StartFails(p)
  \/ Stop(p) \/ StopFails(p) \/ Cleanup(p)
  \/ TakeGuard(p) \/ PlanFull(p) \/ Demote(p) \/ RemoveAll(p)
  \/ RemoveUnguarded(p)

ServerStep(d) == ServerRecords(d) \/ ServerQuits(d) \/ ServerCrashes(d)

WatcherStep(s) ==
  WatcherOpens(s) \/ WatcherLocks(s) \/ WatcherChecks(s) \/ WatcherSignals(s)

Next ==
  \/ \E p \in Procs : ClaimStep(p) \/ LifeStep(p) \/ Die(p)
  \/ \E d \in Dirs : ServerStep(d)
  \/ \E s \in Slots : WatcherStep(s)

Spec == Init /\ [][Next]_vars

\* Whoever holds the claim guard works until it lets go: every step there is
\* bounded file work or a wait with a deadline.  A server writes its PID file
\* or gives up, and obeys SIGQUIT.  A watcher runs; flock(2) queues it, so a
\* sweep that tries the lock again and again cannot starve it.
GuardedStep(p) == pc[p] \in Guarded /\ (ClaimStep(p) \/ LifeStep(p))

Fairness ==
  /\ \A p \in Procs : WF_vars(GuardedStep(p))
  /\ \A d \in Dirs : WF_vars(ServerRecords(d) \/ ServerQuits(d))
  /\ \A s \in Slots :
       /\ WF_vars(WatcherOpens(s) \/ WatcherChecks(s) \/ WatcherSignals(s))
       /\ SF_vars(WatcherLocks(s))

FairSpec == Spec /\ Fairness

-----------------------------------------------------------------------------
(* Properties.                                                             *)

Alive(p) == pc[p] # "dead"
Dead(p) == p \in Procs /\ pc[p] = "dead"

\* A slot in use keeps its lock file, its lock and its owner: no sweep, and no
\* second claim, ever takes over the slot of a live cluster (take_dead_lock,
\* lock_new_slot, the claim guard that spans both).
OwnedSlotIntact ==
  \A p \in Procs : pc[p] \in Owning /\ at[p] \in Slots =>
    /\ owner[at[p]] = p
    /\ lockFile[at[p]]
    /\ lockBy[at[p]] = p

\* From bootstrap to stop a slotted cluster has its data directory: neither a
\* sweep nor the cleanup of another cluster removes it.
LiveClusterKeepsData ==
  \A p \in Procs :
    pc[p] \in Starting \cup {"running"} /\ at[p] \in Slots => dir[at[p]]

\* A slotted cluster that was set up has the install tree it runs from: a
\* guarded full cleanup (plan_cleanup) removes the tree only if no other slot is
\* held, and the claim guard closes the gap between its probe and its removal.
\* Where some explicit directory's cleanup is unguarded, that one may have taken
\* the tree, and nothing else.
InstallKept ==
  \A p \in Procs : pc[p] \in RunsFromTree /\ at[p] \in Slots =>
    install = "present" \/ (Unguarded # {} /\ install = "stripped")

\* A process lets go of the cluster it has.
LetsGo(p) == pc[p] \in Starting \cup {"running"} /\ pc'[p] = "idle"

\* No step removes the data directory of a slot and leaves its server up, except
\* for a server that had not yet written postmaster.pid when its owner was
\* killed (stop_orphaned_server cannot see that one), and for the Drop of the
\* owner's own value when it fails to stop the server.
SparesServers ==
  [][\A s \in Slots :
       dir[s] /\ ~dir'[s] /\ {server[s], server'[s]} \subseteq ServerUp =>
         s \in stray \/ LetsGo(owner[s])]_vars

\* A server that runs while its owner is dead and a watcher is posted stops:
\* either the watcher or a sweep stops it, whoever gets the lock.
WatchedServerStops ==
  \A s \in Slots :
    (Dead(owner[s]) /\ server[s] = "running" /\ s \notin stray
       /\ watcher[s] \in {"spawned", "waiting"})
      ~> server[s] # "running"

\* A dead owner's watcher ends, even one whose lock file a sweep unlinked.
WatchersEnd ==
  \A s \in Slots : Dead(owner[s]) ~> watcher[s] = "none"

\* The claim guard never stays with one process: every path of a claim or of a
\* full cleanup, errors included, gives it back.
GuardReleased ==
  \A p \in Procs : guard = p ~> guard # p

\* A slot is held while its live owner has its lock, other than to sweep a slot
\* it failed to lock.
Held(s) ==
  /\ owner[s] \in Procs /\ lockBy[s] = owner[s]
  /\ ~(pc[owner[s]] \in Sweeping /\ at[owner[s]] = s)

LeaseOf(s) ==
  IF Dead(owner[s]) THEN "abandoned" ELSE IF Held(s) THEN "held" ELSE "free"

\* Per-cluster slots keep the promise of SlotLease; a server counts unless no
\* postmaster.pid tells of it.
Lease == INSTANCE SlotLease WITH
  lease <- [s \in Slots |-> LeaseOf(s)],
  data <- {s \in Slots : dir[s]},
  serving <- {s \in Slots : server[s] \in ServerUp /\ s \notin stray},
  tree <- install

ImplementsLease == Lease!LeaseSpec
=============================================================================
