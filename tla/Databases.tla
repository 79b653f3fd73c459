------------------------------ MODULE Databases ------------------------------
(***************************************************************************)
(* The databases of one cluster, used by the threads of its process.       *)
(*   cluster/lifecycle            create, clone, drop, exists, ensure;     *)
(*   cluster/lifecycle_template   the per-template lock, setup, rollback;  *)
(*   cluster/temporary_database   the guard and its three ways to drop;    *)
(*   cluster/connection, delegation, handle   how calls reach them.        *)
(*                                                                         *)
(* A database is the number of setup steps done in it.  CREATE and DROP    *)
(* DATABASE are the server's, external and atomic: CREATE fails on a name  *)
(* in use and on a template somebody is connected to, DROP on a missing    *)
(* database and on one somebody is connected to; either may fail because   *)
(* the admin connection does.  Nobody drops a template once it is there.   *)
(***************************************************************************)
EXTENDS Naturals, FiniteSets

CONSTANTS
  Threads,
  Templates,      \* names passed to ensure_template_exists
  Names,          \* names of other databases
  SetupSteps,     \* what a setup_fn has to do
  MaxCalls,       \* bound: calls each thread makes
  None

ASSUME DatabasesAssumption ==
  /\ SetupSteps \in Nat \ {0} /\ MaxCalls \in Nat
  /\ None \notin Threads \cup Names \cup Templates
  /\ Names \cap Templates = {}

Absent == SetupSteps + 1      \* no database of that name

VARIABLES
  db,         \* database -> steps done in it, or Absent
  busy,       \* databases somebody is connected to
  lock,       \* TEMPLATE_LOCKS: template -> the thread that has its mutex
  pc,         \* where each thread is
  name,       \* the template it ensures, or the database it has
  guarded,    \* whether it has it through a TemporaryDatabase
  ensured,    \* templates it was told exist
  leftOver,   \* templates whose setup was cut short and that stayed
  repeated,   \* names whose holder lost its database to another guard's second drop
  calls       \* calls each thread has made

history == <<leftOver, repeated>>
vars == <<db, busy, lock, pc, name, guarded, ensured, leftOver, repeated, calls>>

\* Where a thread has the lock of its template.
Locked == {"exists", "create", "setup", "rollback"}

TypeOK ==
  /\ db \in [Templates \cup Names -> 0..Absent]
  /\ busy \subseteq {d \in DOMAIN db : db[d] # Absent}
  /\ lock \in [Templates -> Threads \cup {None}]
  /\ pc \in [Threads -> {"idle", "lock", "exists", "create", "setup", "rollback",
                         "using", "drop", "again"}]
  /\ name \in [Threads -> Templates \cup Names \cup {None}]
  /\ \A t \in Threads :
       /\ pc[t] = "idle" => name[t] = None
       /\ pc[t] \in {"using", "drop", "again"} => name[t] \in Names
       /\ pc[t] \in {"lock"} \cup Locked => name[t] \in Templates
       /\ pc[t] \in Locked => lock[name[t]] = t
  /\ guarded \in [Threads -> BOOLEAN]
  /\ ensured \in [Threads -> SUBSET Templates]
  /\ leftOver \subseteq Templates /\ repeated \subseteq Names
  /\ calls \in [Threads -> 0..MaxCalls]

Init ==
  /\ db = [d \in Templates \cup Names |-> Absent]
  /\ busy = {}
  /\ lock = [n \in Templates |-> None]
  /\ pc = [t \in Threads |-> "idle"]
  /\ name = [t \in Threads |-> None]
  /\ guarded = [t \in Threads |-> FALSE]
  /\ ensured = [t \in Threads |-> {}]
  /\ leftOver = {} /\ repeated = {}
  /\ calls = [t \in Threads |-> 0]

Goto(t, l) == pc' = [pc EXCEPT ![t] = l]

\* A call from outside, delegated to a connection with the cluster's settings.
Call(t) ==
  /\ pc[t] = "idle" /\ calls[t] < MaxCalls
  /\ calls' = [calls EXCEPT ![t] = @ + 1]

\* The call returns or unwinds, and thread t has no database.
Return(t) == Goto(t, "idle") /\ name' = [name EXCEPT ![t] = None]

Droppable(d) == db[d] # Absent /\ d \notin busy

-----------------------------------------------------------------------------
(* ensure_template_exists.                                                 *)

Ensure(t, n) ==
  /\ Call(t)
  /\ Goto(t, "lock") /\ name' = [name EXCEPT ![t] = n]
  /\ UNCHANGED <<db, busy, lock, guarded, ensured, history>>

\* Fault: every call makes a mutex of its own.
LockTemplateAnew(t) ==
  /\ pc[t] = "lock"
  /\ lock' = [lock EXCEPT ![name[t]] = t]
  /\ Goto(t, "exists")
  /\ UNCHANGED <<db, busy, name, guarded, ensured, history, calls>>

\* Fault: a template that is there is not waited for.
LockTemplateUnlessThere(t) ==
  /\ pc[t] = "lock"
  /\ \/ /\ db[name[t]] # Absent
        /\ ensured' = [ensured EXCEPT ![t] = @ \cup {name[t]}]
        /\ Return(t) /\ UNCHANGED lock
     \/ /\ db[name[t]] = Absent /\ lock[name[t]] = None
        /\ lock' = [lock EXCEPT ![name[t]] = t]
        /\ Goto(t, "exists") /\ UNCHANGED <<name, ensured>>
  /\ UNCHANGED <<db, busy, guarded, history, calls>>

\* with_template_lock, whether or not a panic has poisoned the mutex.
LockTemplate(t) ==
  /\ pc[t] = "lock" /\ lock[name[t]] = None
  /\ lock' = [lock EXCEPT ![name[t]] = t]
  /\ Goto(t, "exists")
  /\ UNCHANGED <<db, busy, name, guarded, ensured, history, calls>>

\* The end of with_template_lock.
Unlock(t) == lock' = [lock EXCEPT ![name[t]] = None]

\* The template is there: nothing to do.
Exists(t) ==
  /\ pc[t] = "exists" /\ db[name[t]] # Absent
  /\ Unlock(t) /\ Return(t)
  /\ ensured' = [ensured EXCEPT ![t] = @ \cup {name[t]}]
  /\ UNCHANGED <<db, busy, guarded, history, calls>>

\* It is not; create_and_setup_template goes on.
ExistsNot(t) ==
  /\ pc[t] = "exists" /\ db[name[t]] = Absent
  /\ Goto(t, "create")
  /\ UNCHANGED <<db, busy, lock, name, guarded, ensured, history, calls>>

\* The query or CREATE DATABASE fails: the error is returned, there is no rollback.
EnsureFails(t) ==
  /\ pc[t] \in {"exists", "create"}
  /\ Unlock(t) /\ Return(t)
  /\ UNCHANGED <<db, busy, guarded, ensured, history, calls>>

CreateTemplate(t) ==
  /\ pc[t] = "create" /\ db[name[t]] = Absent
  /\ db' = [db EXCEPT ![name[t]] = 0]
  /\ Goto(t, "setup")
  /\ UNCHANGED <<busy, lock, name, guarded, ensured, history, calls>>

\* setup_fn, the caller's: it connects to the template and goes on step by step,
SetupStep(t) ==
  /\ pc[t] = "setup" /\ db[name[t]] < SetupSteps
  /\ db' = [db EXCEPT ![name[t]] = @ + 1]
  /\ busy' = busy \cup {name[t]}
  /\ UNCHANGED <<lock, pc, name, guarded, ensured, history, calls>>

\* returns with all of them done, perhaps without closing its connection,
SetupSucceeds(t) ==
  /\ pc[t] = "setup" /\ db[name[t]] = SetupSteps
  /\ busy' \in {busy, busy \ {name[t]}}
  /\ Unlock(t) /\ Return(t)
  /\ ensured' = [ensured EXCEPT ![t] = @ \cup {name[t]}]
  /\ UNCHANGED <<db, guarded, history, calls>>

\* Fault: a panic is not caught, and nothing is rolled back.
SetupUncaught(t) ==
  /\ pc[t] = "setup"
  /\ busy' \in {busy, busy \ {name[t]}}
  /\ Unlock(t) /\ Return(t)
  /\ UNCHANGED <<db, guarded, ensured, history, calls>>

\* or returns an error or panics, which catch_unwind turns into a rollback.
SetupFails(t) ==
  /\ pc[t] = "setup"
  /\ busy' \in {busy, busy \ {name[t]}}
  /\ Goto(t, "rollback")
  /\ UNCHANGED <<db, lock, name, guarded, ensured, history, calls>>

\* Fault: the rollback leaves the lock to the caller, who unwinds.
RollbackLocked(t) ==
  /\ pc[t] = "rollback" /\ Droppable(name[t])
  /\ db' = [db EXCEPT ![name[t]] = Absent]
  /\ Return(t)
  /\ UNCHANGED <<busy, lock, guarded, ensured, history, calls>>

\* rollback_and_log: the template is dropped, and the error is returned or the panic
\* resumed,
Rollback(t) ==
  /\ pc[t] = "rollback" /\ Droppable(name[t])
  /\ db' = [db EXCEPT ![name[t]] = Absent]
  /\ Unlock(t) /\ Return(t)
  /\ UNCHANGED <<busy, guarded, ensured, history, calls>>

\* or the drop fails, and the error says both.
RollbackFails(t) ==
  /\ pc[t] = "rollback"
  /\ leftOver' = leftOver \cup {name[t]}
  /\ Unlock(t) /\ Return(t)
  /\ UNCHANGED <<db, busy, guarded, ensured, repeated, calls>>

-----------------------------------------------------------------------------
(* Databases and their guards.                                             *)

\* Thread t has database d, through a guard or by name only.
Take(t, d, guard) ==
  /\ Goto(t, "using")
  /\ name' = [name EXCEPT ![t] = d]
  /\ guarded' = [guarded EXCEPT ![t] = guard]

\* Fault: a name in use is taken over.
CreateDatabaseIfMissing(t, d, guard) ==
  /\ Call(t)
  /\ db' = [db EXCEPT ![d] = 0]
  /\ Take(t, d, guard)
  /\ UNCHANGED <<busy, lock, ensured, history>>

\* create_database, and temporary_database.
CreateDatabase(t, d, guard) ==
  /\ Call(t) /\ db[d] = Absent
  /\ db' = [db EXCEPT ![d] = 0]
  /\ Take(t, d, guard)
  /\ UNCHANGED <<busy, lock, ensured, history>>

\* create_database_from_template, and temporary_database_from_template.  No lock is
\* taken: a thread that was not told of the template may meet it half made.
CreateFromTemplate(t, d, n, guard) ==
  /\ Call(t) /\ db[d] = Absent /\ db[n] # Absent /\ n \notin busy
  /\ db' = [db EXCEPT ![d] = db[n]]
  /\ Take(t, d, guard)
  /\ UNCHANGED <<busy, lock, ensured, history>>

\* A create that fails gives no guard.
CreateFails(t) ==
  /\ Call(t)
  /\ UNCHANGED <<db, busy, lock, pc, name, guarded, ensured, history>>

Connect(t) ==
  /\ pc[t] = "using" /\ db[name[t]] # Absent /\ name[t] \notin busy
  /\ busy' = busy \cup {name[t]}
  /\ UNCHANGED <<db, lock, pc, name, guarded, ensured, history, calls>>

\* A connection ends: the caller's, or one that a setup_fn's pool has kept.
Disconnect(d) ==
  /\ d \in busy
  /\ busy' = busy \ {d}
  /\ UNCHANGED <<db, lock, pc, name, guarded, ensured, history, calls>>

\* try_drop: DROP DATABASE by name, or an error that changes nothing.
TryDrop(d) ==
  \/ Droppable(d) /\ db' = [db EXCEPT ![d] = Absent]
  \/ UNCHANGED db

\* The connection's drop_database, for a database had by name, and the implicit drop
\* of a guard, which only logs a failure.
DropDatabase(t) ==
  /\ pc[t] = "using"
  /\ TryDrop(name[t])
  /\ Return(t)
  /\ UNCHANGED <<busy, lock, guarded, ensured, history, calls>>

\* The guard's drop_database(self): try_drop, and then Drop for the self it consumed.
GuardDropDatabase(t) ==
  /\ pc[t] = "using" /\ guarded[t]
  /\ TryDrop(name[t])
  /\ Goto(t, "again")
  /\ UNCHANGED <<busy, lock, name, guarded, ensured, history, calls>>

\* force_drop(self): the connections are terminated,
ForceDrop(t) ==
  /\ pc[t] = "using" /\ guarded[t]
  /\ \/ busy' = busy \ {name[t]} /\ Goto(t, "drop")
     \/ Goto(t, "again") /\ UNCHANGED busy
  /\ UNCHANGED <<db, lock, name, guarded, ensured, history, calls>>

\* the database is dropped, unless somebody has connected again,
Reconnect(t) ==
  /\ pc[t] = "drop" /\ db[name[t]] # Absent /\ name[t] \notin busy
  /\ busy' = busy \cup {name[t]}
  /\ UNCHANGED <<db, lock, pc, name, guarded, ensured, history, calls>>

ForceDropDrops(t) ==
  /\ pc[t] = "drop"
  /\ TryDrop(name[t])
  /\ Goto(t, "again")
  /\ UNCHANGED <<busy, lock, name, guarded, ensured, history, calls>>

\* and Drop runs here as well.
DropAgain(t) ==
  /\ pc[t] = "again"
  /\ TryDrop(name[t])
  /\ repeated' = IF db' # db /\ \E u \in Threads : pc[u] \in {"using", "drop"} /\ name[u] = name[t]
                 THEN repeated \cup {name[t]} ELSE repeated
  /\ Return(t)
  /\ UNCHANGED <<busy, lock, guarded, ensured, leftOver, calls>>

\* The process dies; its data directory is kept, and the next one starts the server
\* there.  No guard runs, and a template may be half made.
Crash ==
  /\ \E t \in Threads : pc[t] # "idle"
  /\ busy' = {}
  /\ lock' = [n \in Templates |-> None]
  /\ pc' = [t \in Threads |-> "idle"]
  /\ name' = [t \in Threads |-> None]
  /\ guarded' = [t \in Threads |-> FALSE]
  /\ ensured' = [t \in Threads |-> {}]
  /\ leftOver' = leftOver \cup
       {n \in Templates : \E t \in Threads : name[t] = n /\ pc[t] \in {"setup", "rollback"}}
  /\ UNCHANGED <<db, repeated, calls>>

-----------------------------------------------------------------------------
\* What a thread does once its call is under way.
Step(t) ==
  \/ LockTemplate(t) \/ Exists(t) \/ ExistsNot(t) \/ EnsureFails(t) \/ CreateTemplate(t)
  \/ SetupStep(t) \/ SetupSucceeds(t) \/ SetupFails(t) \/ Rollback(t) \/ RollbackFails(t)
  \/ ForceDropDrops(t) \/ DropAgain(t)

Use(t) ==
  \/ \E n \in Templates : Ensure(t, n)
  \/ \E d \in Names, guard \in BOOLEAN : CreateDatabase(t, d, guard)
  \/ \E d \in Names, n \in Templates, guard \in BOOLEAN : CreateFromTemplate(t, d, n, guard)
  \/ CreateFails(t) \/ Connect(t) \/ Reconnect(t)
  \/ DropDatabase(t) \/ GuardDropDatabase(t) \/ ForceDrop(t)

Next ==
  \/ \E t \in Threads : Step(t) \/ Use(t)
  \/ \E d \in Templates \cup Names : Disconnect(d)
  \/ Crash

\* A runnable thread gets to run, and a setup_fn ends; nothing is assumed of the order
\* in which the mutex is given out.
Spec == Init /\ [][Next]_vars /\ \A t \in Threads : WF_vars(Step(t))

-----------------------------------------------------------------------------
\* A thread that ensure_template_exists told the template exists never has it half
\* made: not while another thread still sets it up, nor after a setup that failed or
\* panicked, except where the rollback itself has failed or the process has died in it
\* (lifecycle_template).
EnsuredComplete ==
  \A t \in Threads : \A n \in ensured[t] \ leftOver : db[n] = SetupSteps

\* A thread that created a database, through a guard or by name, has it until it drops it
\* itself.  What can take it away is the second DROP DATABASE of another guard of that
\* name: drop_database and force_drop consume the guard, whose Drop tries once more
\* (temporary_database.rs).
HolderHasDatabase ==
  \A t \in Threads : pc[t] = "using" /\ name[t] \notin repeated => db[name[t]] # Absent

MakersOf(n) == {t \in Threads : name[t] = n /\ pc[t] \in {"setup", "rollback"}}

\* What a template is to those who do not make it.
StateOf(n) ==
  IF MakersOf(n) # {} \/ db[n] = Absent THEN "unmade"
  ELSE IF db[n] = SetupSteps THEN "ready" ELSE "broken"

Promise == INSTANCE TemplatePromise WITH
  state <- [n \in Templates |-> StateOf(n)],
  makers <- [n \in Templates |-> MakersOf(n)],
  told <- ensured

\* ensure_template_exists keeps the promise of TemplatePromise: one maker at a time,
\* which alone changes the template; nobody told of one that is being made; what is
\* made, complete or broken, stays (lifecycle_template).
ImplementsPromise == Promise!PromiseSpec

\* Every call of ensure_template_exists ends, although other threads' setups fail, panic
\* or cannot be rolled back (with_template_lock).
EnsureReturns ==
  \A t \in Threads : pc[t] = "lock" ~> pc[t] = "idle"
=============================================================================
