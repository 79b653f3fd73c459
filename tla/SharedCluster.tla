--------------------------- MODULE SharedCluster ---------------------------
(***************************************************************************)
(* One test process whose threads use clusters of their own and the two    *)
(* process-wide ones, shared_cluster_handle() and shared_cluster().        *)
(*   test_support/shared_singleton, _core   a mutex and an init state per  *)
(*       singleton, bounded retry, register the exit hook, then leak;      *)
(*   test_support/fixtures      ensure_worker_env and test_cluster;        *)
(*   cluster/mod, cluster/guard the guards a cluster holds and their drop; *)
(*   cluster/shutdown_hook      registration and the atexit callback.      *)
(*                                                                         *)
(* The environment, with its lock, is the module ScopedEnv: every cluster  *)
(* holds a scope for its own variables and, for root, may hold one for     *)
(* PG_EMBEDDED_WORKER.  A thread's own cluster goes by the thread's name.  *)
(***************************************************************************)
EXTENDS Naturals, Sequences, FiniteSets

CONSTANTS
  Threads,
  Singletons,   \* SHARED_CLUSTER_HANDLE and SHARED_CLUSTER
  None,
  Root,         \* the process runs as root: PG_EMBEDDED_WORKER is needed
  Nesting,      \* threads ask for an uninitialised singleton inside a scope
  Attempts,     \* RetryPolicy::SHARED_CLUSTER
  MaxCalls,     \* bound: calls a thread makes
  MaxScopes     \* bound: scopes on a thread's stack

Clusters == Singletons \cup Threads

ASSUME SharedAssumption ==
  /\ Singletons \cap Threads = {}
  /\ None \notin Clusters
  /\ Root \in BOOLEAN /\ Nesting \in BOOLEAN
  /\ Attempts \in Nat \ {0} /\ MaxCalls \in Nat /\ MaxScopes \in Nat

VARIABLES
  pc,           \* where each thread is
  want,         \* the cluster it is working on
  left,         \* calls it has left
  made,         \* attempts retry_transient has made
  mutex,        \* who holds the mutex of a singleton
  shared,       \* SharedInitState
  guards,       \* the scopes a cluster's guard holds: stack indices, 0 for none
  leaked,       \* clusters whose guard was forgotten
  hook,         \* ShutdownRegistrationState
  hooked,       \* the cluster the hook is registered for
  postmaster,   \* what a cluster's postmaster.pid names, or named while there was one
  data,         \* its data directory exists
  exit,         \* the process's exit and its atexit callback
  env, holder, depth, stack, live, base   \* of ScopedEnv

threadVars == <<pc, want, left, made>>
singletonVars == <<mutex, shared>>
hookVars == <<hook, hooked>>
serverVars == <<postmaster, data>>
envVars == <<env, holder, depth, stack, live, base>>
vars == <<pc, want, left, made, mutex, shared, guards, leaked, hook, hooked, postmaster, data,
          exit, env, holder, depth, stack, live, base>>

WorkerKey == "PG_EMBEDDED_WORKER"
WorkerVars == <<<<WorkerKey, "path">>>>
\* The variables of a cluster do not include PG_EMBEDDED_WORKER.
ClusterVars == <<>>

Env == INSTANCE ScopedEnv WITH
  Keys <- {WorkerKey}, Values <- {"path"}, Unset <- "unset", Changes <- {WorkerVars, ClusterVars}

NoGuards == [worker |-> 0, env |-> 0]

Registering == {"register", "build"}
Initializing == {"worker", "enter", "attempt", "apply", "starting", "giveup", "leak", "drop",
                 "unwind"}

TypeOK ==
  /\ pc \in [Threads -> {"idle", "lock", "ended"} \cup Registering \cup Initializing]
  /\ want \in [Threads -> Clusters \cup {None}]
  /\ left \in [Threads -> 0..MaxCalls]
  /\ made \in [Threads -> 0..Attempts]
  /\ mutex \in [Singletons -> Threads \cup {None}]
  /\ shared \in [Singletons -> {"Uninitialized", "Initialized", "Failed"}]
  /\ guards \in [Clusters -> [worker : Nat, env : Nat]]
  /\ leaked \in SUBSET Clusters
  /\ hook \in {"Empty", "Registering", "Registered"}
  /\ hooked \in Clusters \cup {None}
  /\ postmaster \in [Clusters -> {"absent", "live", "dead", "stranger"}]
  /\ data \in [Clusters -> BOOLEAN]
  /\ exit \in {"no", "callback", "stopping", "done", "skipped"}
  /\ Env!TypeOK

Init ==
  /\ pc = [t \in Threads |-> "idle"]
  /\ want = [t \in Threads |-> None]
  /\ left = [t \in Threads |-> MaxCalls]
  /\ made = [t \in Threads |-> 0]
  /\ mutex = [c \in Singletons |-> None]
  /\ shared = [c \in Singletons |-> "Uninitialized"]
  /\ guards = [c \in Clusters |-> NoGuards]
  /\ leaked = {}
  /\ hook = "Empty" /\ hooked = None
  /\ postmaster = [c \in Clusters |-> "absent"]
  /\ data = [c \in Clusters |-> FALSE]
  /\ exit = "no"
  /\ Env!Init /\ env[WorkerKey] = "unset"

Goto(t, l) == pc' = [pc EXCEPT ![t] = l]
Own(t) == guards[t].env # 0 /\ t \notin leaked
Top(t) == Len(stack[t]) + 1

\* Nobody has a handle of an earlier cluster of that name.
Unheard(c) == hooked # c /\ \A u \in Threads : want[u] # c

\* A call returns to the test.
Return(t) ==
  /\ Goto(t, "idle")
  /\ want' = [want EXCEPT ![t] = None]
  /\ made' = [made EXCEPT ![t] = 0]

\* get_or_try_init_shared stores the outcome and the mutex guard is dropped;
\* nothing of the kind for a cluster of the thread's own.
Settle(t, outcome) ==
  IF want[t] \in Singletons
  THEN /\ shared' = [shared EXCEPT ![want[t]] = outcome]
       /\ mutex' = [mutex EXCEPT ![want[t]] = None]
  ELSE UNCHANGED singletonVars

-----------------------------------------------------------------------------
(* Asking for a cluster.                                                   *)

\* A test calls one of the shared functions, or the test_cluster fixture.
Request(t, c) ==
  /\ pc[t] = "idle" /\ left[t] > 0
  /\ IF c = t THEN guards[t] = NoGuards /\ postmaster[t] = "absent" /\ Unheard(t)
              ELSE c \in Singletons /\ (Nesting \/ holder # t \/ shared[c] # "Uninitialized")
  /\ left' = [left EXCEPT ![t] = @ - 1]
  /\ want' = [want EXCEPT ![t] = c]
  /\ Goto(t, IF c = t THEN "worker" ELSE "lock")
  /\ UNCHANGED <<made, singletonVars, guards, leaked, hookVars, serverVars, envVars>>

\* Fault: the mutex is not held while the initialiser runs.
LockSharedBriefly(t) ==
  /\ pc[t] = "lock"
  /\ \/ /\ shared[want[t]] = "Uninitialized"
        /\ mutex' = [mutex EXCEPT ![want[t]] = t]
        /\ Goto(t, "worker")
        /\ UNCHANGED <<want, made>>
     \/ /\ shared[want[t]] # "Uninitialized"
        /\ Return(t)
        /\ UNCHANGED mutex
  /\ UNCHANGED <<left, shared, guards, leaked, hookVars, serverVars, envVars>>

\* The mutex is acquired, poisoned or not; a settled state answers at once.
LockShared(t) ==
  /\ pc[t] = "lock" /\ mutex[want[t]] = None
  /\ \/ /\ shared[want[t]] = "Uninitialized"
        /\ mutex' = [mutex EXCEPT ![want[t]] = t]
        /\ Goto(t, "worker")
        /\ UNCHANGED <<want, made>>
     \/ /\ shared[want[t]] # "Uninitialized"
        /\ Return(t)
        /\ UNCHANGED mutex
  /\ UNCHANGED <<left, shared, guards, leaked, hookVars, serverVars, envVars>>

\* ensure_worker_env looks at the environment, without its lock.
CheckWorker(t) ==
  /\ pc[t] = "worker"
  /\ made' = [made EXCEPT ![t] = 1]
  /\ Goto(t, IF Root /\ env[WorkerKey] = "unset" THEN "enter" ELSE "attempt")
  /\ UNCHANGED <<want, left, singletonVars, guards, leaked, hookVars, serverVars, envVars>>

\* No worker binary is found: the panic poisons the mutex, which the next
\* caller ignores, and leaves the state uninitialised.
WorkerMissing(t) ==
  /\ pc[t] = "worker" /\ Root /\ env[WorkerKey] = "unset"
  /\ Settle(t, "Uninitialized")
  /\ Return(t)
  /\ UNCHANGED <<left, guards, leaked, hookVars, serverVars, envVars>>

\* ... and opens the scope, once it gets the lock.
EnterWorker(t) ==
  /\ pc[t] = "enter"
  /\ Env!Enter(t, WorkerVars)
  /\ guards' = [guards EXCEPT ![want[t]].worker = Top(t)]
  /\ Goto(t, "attempt")
  /\ UNCHANGED <<want, left, made, singletonVars, leaked, hookVars, serverVars>>

\* bootstrap_for_tests reads the environment, again without its lock; where the
\* variable is gone by now, a worker on PATH still lets it succeed.
Bootstrap(t) ==
  /\ pc[t] = "attempt"
  /\ Goto(t, "apply")
  /\ UNCHANGED <<want, left, made, singletonVars, guards, leaked, hookVars, serverVars, envVars>>

\* new_split applies the cluster's variables for its whole life ...
ApplyEnv(t) ==
  /\ pc[t] = "apply"
  /\ Env!Enter(t, ClusterVars)
  /\ guards' = [guards EXCEPT ![want[t]].env = Top(t)]
  /\ Goto(t, "starting")
  /\ UNCHANGED <<want, left, made, singletonVars, leaked, hookVars, serverVars>>

\* ... and starts the server; the test_cluster fixture is done.
Started(t) ==
  /\ pc[t] = "starting"
  /\ postmaster' = [postmaster EXCEPT ![want[t]] = "live"]
  /\ data' = [data EXCEPT ![want[t]] = TRUE]
  /\ IF want[t] = t THEN Return(t) ELSE Goto(t, "register") /\ UNCHANGED <<want, made>>
  /\ UNCHANGED <<left, singletonVars, guards, leaked, hookVars, envVars>>

\* Fault: the attempt count is checked one too late.
RetryOnceMore(t) ==
  \/ /\ want[t] \in Singletons /\ made[t] <= Attempts
     /\ made' = [made EXCEPT ![t] = @ + 1]
     /\ Goto(t, "attempt")
  \/ /\ Goto(t, "giveup")
     /\ UNCHANGED made

\* retry_transient, which only the singletons go through.
RetryOrGiveUp(t) ==
  \/ /\ want[t] \in Singletons /\ made[t] < Attempts
     /\ made' = [made EXCEPT ![t] = @ + 1]
     /\ Goto(t, "attempt")
  \/ /\ Goto(t, "giveup")
     /\ UNCHANGED made

\* An attempt fails before the scope is opened,
BootstrapFails(t) ==
  /\ pc[t] = "attempt"
  /\ RetryOrGiveUp(t)
  /\ UNCHANGED <<want, left, singletonVars, guards, leaked, hookVars, serverVars, envVars>>

\* Fault: the failed attempt's environment guard is forgotten.
StartFailsInScope(t) ==
  /\ pc[t] = "starting"
  /\ guards' = [guards EXCEPT ![want[t]].env = 0]
  /\ RetryOrGiveUp(t)
  /\ UNCHANGED <<want, left, singletonVars, leaked, hookVars, serverVars, envVars>>

\* or after: start_postgres returns the error and the scope's guard is dropped.
StartFails(t) ==
  /\ pc[t] = "starting"
  /\ Env!Exit(t, guards[want[t]].env)
  /\ guards' = [guards EXCEPT ![want[t]].env = 0]
  /\ RetryOrGiveUp(t)
  /\ UNCHANGED <<want, left, singletonVars, leaked, hookVars, serverVars>>

\* The failure is final: the worker guard is dropped, the failure is stored.
GiveUp(t) ==
  /\ pc[t] = "giveup"
  /\ IF guards[want[t]].worker = 0 THEN UNCHANGED envVars ELSE Env!Exit(t, guards[want[t]].worker)
  /\ guards' = [guards EXCEPT ![want[t]].worker = 0]
  /\ Settle(t, "Failed")
  /\ Return(t)
  /\ UNCHANGED <<left, leaked, hookVars, serverVars>>

-----------------------------------------------------------------------------
(* Registering the exit hook, leaking the guard, dropping it.              *)

\* ClusterHandle::register_shutdown_on_exit is called by a test that will forget
\* the guard of its own cluster, or by any thread that was given a handle.
RegisterHandle(t, c) ==
  /\ pc[t] = "idle" /\ left[t] > 0
  /\ CASE c = t -> Own(t)
       [] c \in Singletons -> shared[c] = "Initialized"
       [] OTHER -> guards[c].env # 0 /\ postmaster[c] = "live"
  /\ left' = [left EXCEPT ![t] = @ - 1]
  /\ want' = [want EXCEPT ![t] = c]
  /\ Goto(t, "register")
  /\ UNCHANGED <<made, singletonVars, guards, leaked, hookVars, serverVars, envVars>>

\* Whoever has the cluster's guard goes on to forget or to drop it.
AfterRegistration(t, next) ==
  IF want[t] = t \/ (want[t] \in Singletons /\ mutex[want[t]] = t)
  THEN Goto(t, next) /\ UNCHANGED <<want, made>>
  ELSE Return(t)

\* Fault: a registration under way counts as done.
ReserveUnwaited(t) ==
  /\ pc[t] = "register"
  /\ \/ /\ hook = "Empty"
        /\ hook' = "Registering"
        /\ Goto(t, "build")
        /\ UNCHANGED <<want, made>>
     \/ /\ hook # "Empty"
        /\ AfterRegistration(t, "leak")
        /\ UNCHANGED hook
  /\ UNCHANGED <<left, singletonVars, guards, leaked, hooked, serverVars, envVars>>

\* reserve_shutdown_registration waits while another thread is registering; a
\* registered hook, whoever it is for, is success.
Reserve(t) ==
  /\ pc[t] = "register"
  /\ \/ /\ hook = "Empty"
        /\ hook' = "Registering"
        /\ Goto(t, "build")
        /\ UNCHANGED <<want, made>>
     \/ /\ hook = "Registered"
        /\ AfterRegistration(t, "leak")
        /\ UNCHANGED hook
  /\ UNCHANGED <<left, singletonVars, guards, leaked, hooked, serverVars, envVars>>

\* commit_shutdown_registration
Commit(t) ==
  /\ pc[t] = "build"
  /\ hook' = "Registered" /\ hooked' = want[t]
  /\ AfterRegistration(t, "leak")
  /\ UNCHANGED <<left, singletonVars, guards, leaked, serverVars, envVars>>

\* Fault: a failed registration keeps the reservation.
BuildFailsReserved(t) ==
  /\ pc[t] = "build"
  /\ AfterRegistration(t, "drop")
  /\ UNCHANGED <<left, singletonVars, guards, leaked, hookVars, serverVars, envVars>>

\* postmaster.pid is malformed or atexit fails: rollback_shutdown_registration,
\* and the guard is dropped.
BuildFails(t) ==
  /\ pc[t] = "build"
  /\ hook' = "Empty"
  /\ AfterRegistration(t, "drop")
  /\ UNCHANGED <<left, singletonVars, guards, leaked, hooked, serverVars, envVars>>

\* The guard is forgotten, its scopes stay open; the cluster is published.
Leak(t) ==
  /\ pc[t] = "leak"
  /\ leaked' = leaked \cup {want[t]}
  /\ Settle(t, "Initialized")
  /\ Return(t)
  /\ UNCHANGED <<left, guards, hookVars, serverVars, envVars>>

\* A test drops its own cluster.
DropOwn(t) ==
  /\ pc[t] = "idle" /\ Own(t)
  /\ want' = [want EXCEPT ![t] = t]
  /\ Goto(t, "drop")
  /\ UNCHANGED <<left, made, singletonVars, guards, leaked, hookVars, serverVars, envVars>>

\* The data directory goes, or the mode or a failed removal keeps it.
Clean(c) == data' \in {data, [data EXCEPT ![c] = FALSE]}

\* Fault: the cleanup runs whether or not the stop succeeded.
ShutdownRegardless(t) ==
  /\ pc[t] = "drop"
  /\ \/ postmaster' = [postmaster EXCEPT ![want[t]] = "absent"]
     \/ UNCHANGED postmaster
  /\ Clean(want[t])
  /\ Goto(t, "unwind")
  /\ UNCHANGED <<want, left, made, singletonVars, guards, leaked, hookVars, envVars>>

\* Drop of a ClusterGuard: stop and clean up, or leave everything if the stop fails.
\* In process the PostgreSQL value is dropped either way: it stops the server again
\* and, being temporary, removes the data directory whether or not that works.  Then
\* the fields, the worker guard before the environment's.
Shutdown(t) ==
  /\ pc[t] = "drop"
  /\ \/ /\ postmaster' = [postmaster EXCEPT ![want[t]] = "absent"]
        /\ Clean(want[t])
     \/ UNCHANGED postmaster /\ (IF Root THEN UNCHANGED data ELSE Clean(want[t]))
  /\ Goto(t, "unwind")
  /\ UNCHANGED <<want, left, made, singletonVars, guards, leaked, hookVars, envVars>>

DropWorkerGuard(t) ==
  /\ pc[t] = "unwind" /\ guards[want[t]].worker # 0
  /\ Env!Exit(t, guards[want[t]].worker)
  /\ guards' = [guards EXCEPT ![want[t]].worker = 0]
  /\ UNCHANGED <<threadVars, singletonVars, leaked, hookVars, serverVars>>

DropEnvGuard(t) ==
  /\ pc[t] = "unwind" /\ guards[want[t]].worker = 0
  /\ Env!Exit(t, guards[want[t]].env)
  /\ guards' = [guards EXCEPT ![want[t]] = NoGuards]
  /\ Settle(t, "Failed")
  /\ Return(t)
  /\ UNCHANGED <<left, leaked, hookVars, serverVars>>

\* A thread ends, and the scopes it forgot with it: all that are open, for
\* they are the scopes of one thread (LockAccounted).
EndThread(t) ==
  /\ pc[t] = "idle" /\ ~Own(t)
  /\ \/ live[t] = {} /\ UNCHANGED <<envVars, guards>>
     \/ Env!ThreadEnds(t) /\ guards' = [c \in Clusters |-> NoGuards]
  /\ Goto(t, "ended")
  /\ UNCHANGED <<want, left, made, singletonVars, leaked, hookVars, serverVars>>

-----------------------------------------------------------------------------
(* The server, and the exit of the process.                                *)

\* A server crashes; its PID is free or is given to another process.
Crash(c) ==
  /\ postmaster[c] = "live"
  /\ \E named \in {"dead", "stranger"} : postmaster' = [postmaster EXCEPT ![c] = named]
  /\ UNCHANGED <<threadVars, singletonVars, guards, leaked, hookVars, data, exit, envVars>>

\* The process exits while its other threads run on.  The callback finds the
\* state registered, or it finds it unregistered, or it finds the state's mutex
\* taken by a thread that is registering, and gives up.
BeginExit ==
  /\ exit = "no"
  /\ \/ hook = "Registered" /\ exit' = "callback"
     \/ hook # "Registered" /\ exit' = "skipped"
     \/ (\E t \in Threads : pc[t] = "register") /\ exit' = "skipped"
  /\ UNCHANGED <<threadVars, singletonVars, guards, leaked, hookVars, serverVars, envVars>>

\* shutdown_callback reads postmaster.pid, which goes with the directory.  A process
\* of that PID is asked to stop; without one only the cleanup is left, and nothing if
\* the file is bad.
Callback ==
  /\ exit = "callback"
  /\ \/ /\ postmaster[hooked] \in {"absent", "dead"} \/ ~data[hooked]
        /\ exit' = "done"
        /\ Clean(hooked)
     \/ /\ postmaster[hooked] \in {"live", "stranger"} /\ data[hooked]
        /\ exit' = "stopping"
        /\ UNCHANGED data
     \/ /\ exit' = "skipped"
        /\ UNCHANGED data
  /\ UNCHANGED <<threadVars, singletonVars, guards, leaked, hookVars, postmaster, envVars>>

\* The postmaster obeys SIGTERM.
ServerObeys ==
  /\ exit = "stopping" /\ postmaster[hooked] = "live"
  /\ postmaster' = [postmaster EXCEPT ![hooked] = "absent"]
  /\ UNCHANGED <<threadVars, singletonVars, guards, leaked, hookVars, data, exit, envVars>>

\* wait_for_exit sees the process gone.
CallbackStopped ==
  /\ exit = "stopping" /\ postmaster[hooked] \in {"absent", "dead"}
  /\ exit' = "done"
  /\ Clean(hooked)
  /\ UNCHANGED <<threadVars, singletonVars, guards, leaked, hookVars, postmaster, envVars>>

\* Fault: no escalation after the timeout.
CallbackGivesUp ==
  /\ exit = "stopping" /\ postmaster[hooked] \in {"live", "stranger"}
  /\ exit' = "done"
  /\ Clean(hooked)
  /\ UNCHANGED <<threadVars, singletonVars, guards, leaked, hookVars, postmaster, envVars>>

\* The timeout passes: SIGKILL, a pause, and the cleanup.
CallbackForces ==
  /\ exit = "stopping" /\ postmaster[hooked] \in {"live", "stranger"}
  /\ postmaster' = [postmaster EXCEPT ![hooked] = "dead"]
  /\ exit' = "done"
  /\ Clean(hooked)
  /\ UNCHANGED <<threadVars, singletonVars, guards, leaked, hookVars, envVars>>

Over == exit \in {"done", "skipped"}

\* What a thread does by itself, once asked.
Progress(t) ==
  /\ ~Over
  /\ \/ LockShared(t) \/ CheckWorker(t) \/ WorkerMissing(t) \/ EnterWorker(t) \/ Bootstrap(t)
     \/ ApplyEnv(t) \/ Started(t) \/ BootstrapFails(t) \/ StartFails(t) \/ GiveUp(t)
     \/ Reserve(t) \/ Commit(t) \/ BuildFails(t) \/ Leak(t)
     \/ DropOwn(t) \/ Shutdown(t) \/ DropWorkerGuard(t) \/ DropEnvGuard(t)
     \/ EndThread(t)
  /\ UNCHANGED exit

Ask(t) ==
  /\ ~Over
  /\ \E c \in Clusters : Request(t, c) \/ RegisterHandle(t, c)
  /\ UNCHANGED exit

\* The process is gone; its server may outlive it.
Terminated == Over /\ UNCHANGED vars

Next ==
  \/ \E t \in Threads : Progress(t) \/ Ask(t)
  \/ \E c \in Clusters : Crash(c)
  \/ BeginExit \/ Callback \/ ServerObeys \/ CallbackStopped \/ CallbackForces
  \/ Terminated

Spec == Init /\ [][Next]_vars

\* Threads run: tests end, drop their clusters and let their threads end, and
\* every wait of a bootstrap, a stop or the callback has a deadline.
Fairness ==
  /\ \A t \in Threads : WF_vars(Progress(t))
  /\ WF_vars(Callback \/ CallbackStopped \/ CallbackForces)

FairSpec == Spec /\ Fairness

-----------------------------------------------------------------------------
(* Properties.                                                             *)

\* A published cluster is never stopped by this process before its exit, and
\* was leaked with the exit hook armed: what a failed registration rolls back
\* is never published (leak_shared_handle_after_shutdown_hook).
PublishedStaysUp ==
  \A c \in leaked :
    /\ hook = "Registered"
    /\ exit = "no" => postmaster[c] # "absent"

\* The environment lock is held for a cluster that is being built, is in use
\* or was leaked; in particular no failed attempt keeps it (retry_transient).
LockAccounted ==
  \A t \in Threads :
    live[t] = IF holder = t THEN (UNION {{guards[c].worker, guards[c].env} : c \in Clusters}) \ {0}
                            ELSE {}

\* Once the callback has run, the hooked server is down, stopped or killed; unprivileged
\* it may be one whose own drop could not stop it and has removed its postmaster.pid.
CallbackStopsServer ==
  exit = "done" => postmaster[hooked] # "live" \/ (~Root /\ ~data[hooked])

\* As root no server is up without its data directory: drop and callback clean up only
\* after the stop.  Unprivileged the dropped PostgreSQL value does not wait for that.
DataOutlivesServer == Root => \A c \in Clusters : postmaster[c] = "live" => data[c]

\* The singletons keep the promise of SharedService: a started server counts until this
\* process has stopped it, a crash included.
Service == INSTANCE SharedService WITH
  state <- shared,
  maker <- mutex,
  kept <- {c \in Singletons : postmaster[c] # "absent"},
  armed <- hook = "Registered",
  exiting <- exit # "no"

\* get_or_try_init_shared and leak_shared_handle_after_shutdown_hook implement it: one
\* maker at a time; published with the hook armed and the server not stopped, and never
\* made again or stopped before the exit; left to the next caller with no server only.
ImplementsService == Service!ServiceSpec

\* Whoever asks for a shared cluster gets an answer, unless the process ends.
CallersAnswered ==
  \A t \in Threads : pc[t] = "lock" ~> (pc[t] \in {"idle", "ended"} \/ Over)
=============================================================================
