------------------------- MODULE SharedClusterProofs -------------------------
(***************************************************************************)
(* What holds of SharedCluster for any threads, singletons, attempts and   *)
(* calls.  The environment is that of ScopedEnvProofs, whose invariant is  *)
(* kept here by the same three steps.                                      *)
(*                                                                         *)
(* The argument: a singleton's mutex is held by the thread that            *)
(* initialises it, from the moment it finds it uninitialised until it      *)
(* settles it (MutexInv); a reserved hook has one builder (BuildInv); the  *)
(* guard of a cluster under construction has no scopes yet (BlankInv), so  *)
(* that scopes and guards correspond one to one (ScopeInv, LockAccounted); *)
(* and a cluster is leaked with its server up, by the only thread that     *)
(* could stop it (UpInv, LeakInv).  A maker that gives up has started no   *)
(* server (UnstartedInv), with which every step is one of SharedService or *)
(* none (ServiceStep).                                                     *)
(***************************************************************************)
EXTENDS SharedCluster, TLAPS

Scoped == INSTANCE ScopedEnvProofs WITH
  Keys <- {WorkerKey}, Values <- {"path"}, Unset <- "unset", Changes <- {WorkerVars, ClusterVars}

\* A thread works on a singleton or on its own cluster; registrations are for any.
WantInv == \A t \in Threads :
  /\ pc[t] = "lock" => want[t] \in Singletons
  /\ pc[t] \in Initializing => want[t] = t \/ want[t] \in Singletons
  /\ pc[t] \in Registering => want[t] \in Clusters

\* Who initialises a singleton has its mutex, and nobody else has.
MutexInv ==
  /\ \A t \in Threads : pc[t] \in Initializing /\ want[t] \in Singletons => mutex[want[t]] = t
  /\ \A c \in Singletons : mutex[c] # None =>
       /\ want[mutex[c]] = c /\ pc[mutex[c]] \in Initializing \cup Registering
       /\ shared[c] = "Uninitialized"

\* A thread that has the guard of the cluster it works on.
Guarding(t) == want[t] = t \/ (want[t] \in Singletons /\ mutex[want[t]] = t)

\* One thread builds the hook's state, and a guard is forgotten after that.
BuildInv ==
  /\ \A t \in Threads : pc[t] = "build" =>
       hook = "Registering" /\ \A u \in Threads \ {t} : pc[u] # "build"
  /\ \A t \in Threads : pc[t] = "leak" => hook = "Registered"
  /\ hook = "Registered" => hooked \in Clusters
  /\ exit \in {"callback", "stopping"} => hook = "Registered"

\* Scopes not opened yet, or closed again.
BlankInv ==
  /\ \A t \in Threads : pc[t] \in {"worker", "enter"} => guards[want[t]] = NoGuards
  /\ \A t \in Threads : pc[t] \in {"attempt", "apply", "giveup"} => guards[want[t]].env = 0
  /\ \A c \in Singletons : shared[c] = "Uninitialized" /\ mutex[c] = None => guards[c] = NoGuards

\* No scope belongs to two guards, and without the lock nobody has one.
ScopeInv ==
  /\ \A c \in Clusters : guards[c].worker # 0 => guards[c].worker # guards[c].env
  /\ \A c, d \in Clusters : c # d =>
       {guards[c].worker, guards[c].env} \cap {guards[d].worker, guards[d].env} \subseteq {0}
  /\ holder = None => \A c \in Clusters : guards[c] = NoGuards

\* Who has a started cluster's guard has seen its server start.
UpInv == exit = "no" => \A t \in Threads :
  /\ guards[t].env # 0 /\ (want[t] = t => pc[t] \notin Initializing \ {"leak"}) =>
       postmaster[t] # "absent"
  /\ pc[t] \in Registering \cup {"leak"} /\ Guarding(t) => postmaster[want[t]] # "absent"

\* What is leaked is not dropped.
LeakInv ==
  /\ \A c \in leaked \cap Singletons : shared[c] = "Initialized"
  /\ \A t \in Threads : pc[t] \in Registering \cup {"drop"} /\ Guarding(t) => want[t] \notin leaked

Unstarted == {"worker", "enter", "attempt", "apply", "starting", "giveup"}

\* The server of a singleton has not been started before its maker starts it, and a
\* maker that leaves it uninitialised has not started it.
UnstartedInv ==
  /\ \A t \in Threads : pc[t] \in Unstarted /\ want[t] \in Singletons =>
       postmaster[want[t]] = "absent"
  /\ \A c \in Singletons : shared[c] = "Uninitialized" /\ mutex[c] = None =>
       postmaster[c] = "absent"

IndInv ==
  /\ TypeOK /\ Scoped!Inv
  /\ WantInv /\ MutexInv /\ BuildInv /\ BlankInv /\ ScopeInv /\ UpInv /\ LeakInv
  /\ UnstartedInv
  /\ LockAccounted /\ PublishedStaysUp /\ CallbackStopsServer /\ DataOutlivesServer

-----------------------------------------------------------------------------
(* The environment.                                                        *)

\* The threads and values of the environment are as ScopedEnv assumes them.
LEMMA EnvConstants == Scoped!EnvAssumption
BY SharedAssumption
DEF Scoped!EnvAssumption, Scoped!Content, WorkerVars, ClusterVars, WorkerKey, Clusters

\* A scope with index i is opened, closed; all scopes end with their thread.
Opens(t, i) ==
  /\ holder \in {t, None} /\ holder' = t
  /\ i \in Nat \ {0} /\ i \notin live[t]
  /\ live' = [live EXCEPT ![t] = live[t] \cup {i}]

Closes(t, i) ==
  /\ holder = t /\ i \in live[t]
  /\ holder' = IF live[t] = {i} THEN None ELSE t
  /\ live' = [live EXCEPT ![t] = live[t] \ {i}]

Ends(t) ==
  /\ holder = t /\ holder' = None
  /\ live' = [live EXCEPT ![t] = {}]

\* Entering a scope.
LEMMA Entering ==
  ASSUME Scoped!Inv, NEW t \in Threads, NEW pairs \in {WorkerVars, ClusterVars},
         Env!Enter(t, pairs)
  PROVE  Scoped!Inv' /\ Opens(t, Top(t))
<1>1. Scoped!Enter(t, pairs)
  BY DEF Env!Enter, Scoped!Enter, Env!Applied, Scoped!Applied, Env!Saved, Scoped!Saved,
         Env!Mentions, Scoped!Mentions, Env!Max, Scoped!Max
<1>2. Scoped!Inv'
  BY <1>1, Scoped!EnterStep, EnvConstants
<1>3. QED
  BY <1>1, <1>2, Scoped!EnterEffect, EnvConstants DEF Opens, Top

\* Dropping the guard of a scope.
LEMMA Exiting ==
  ASSUME Scoped!Inv, NEW t \in Threads, NEW i, Env!Exit(t, i)
  PROVE  Scoped!Inv' /\ Closes(t, i)
<1>1. Scoped!Exit(t, i)
  BY DEF Env!Exit, Scoped!Exit, Env!ForceRestoreAndReset, Scoped!ForceRestoreAndReset,
         Env!FinishScope, Scoped!FinishScope, Env!Corrupt, Scoped!Corrupt, Env!Kept, Scoped!Kept,
         Env!Restored, Scoped!Restored, Env!Covering, Scoped!Covering,
         Env!Mentions, Scoped!Mentions, Env!Min, Scoped!Min, Env!Max, Scoped!Max
<1>2. i \in live[t]
  BY DEF Env!Exit
<1>3. Scoped!Inv'
  BY <1>1, <1>2, Scoped!ExitStep, EnvConstants
<1>4. QED
  BY <1>1, <1>2, <1>3, Scoped!ExitEffect, EnvConstants DEF Closes

\* The end of a thread that forgot guards.
LEMMA Ending ==
  ASSUME Scoped!Inv, NEW t \in Threads, Env!ThreadEnds(t)
  PROVE  Scoped!Inv' /\ Ends(t)
<1>1. Scoped!ThreadEnds(t)
  BY DEF Env!ThreadEnds, Scoped!ThreadEnds
<1>2. Scoped!Inv'
  BY <1>1, Scoped!ThreadEndsStep, EnvConstants
<1>3. holder = t
  BY Scoped!HolderLives, EnvConstants DEF Env!ThreadEnds
<1>4. QED
  BY <1>2, <1>3 DEF Env!ThreadEnds, Ends

\* Nothing happens to the environment.
LEMMA EnvKept ==
  ASSUME Scoped!Inv, UNCHANGED envVars
  PROVE  Scoped!Inv'
<1>1. UNCHANGED Scoped!vars
  BY DEF Scoped!vars, envVars
<1>2. QED
  BY <1>1, Scoped!InvStep, EnvConstants

\* A guard that is dropped has scopes: every step is one of the four.
LEMMA EnvNext ==
  ASSUME Scoped!Inv, [Next]_vars
  PROVE  Scoped!Inv'
<1>1. ASSUME NEW t \in Threads, LockShared(t), UNCHANGED exit PROVE Scoped!Inv'
  BY <1>1, EnvKept DEF LockShared
<1>2. ASSUME NEW t \in Threads, CheckWorker(t), UNCHANGED exit PROVE Scoped!Inv'
  BY <1>2, EnvKept DEF CheckWorker
<1>3. ASSUME NEW t \in Threads, WorkerMissing(t), UNCHANGED exit PROVE Scoped!Inv'
  BY <1>3, EnvKept DEF WorkerMissing
<1>4. ASSUME NEW t \in Threads, EnterWorker(t), UNCHANGED exit PROVE Scoped!Inv'
  BY <1>4, Entering DEF EnterWorker
<1>5. ASSUME NEW t \in Threads, Bootstrap(t), UNCHANGED exit PROVE Scoped!Inv'
  BY <1>5, EnvKept DEF Bootstrap
<1>6. ASSUME NEW t \in Threads, ApplyEnv(t), UNCHANGED exit PROVE Scoped!Inv'
  BY <1>6, Entering DEF ApplyEnv
<1>7. ASSUME NEW t \in Threads, Started(t), UNCHANGED exit PROVE Scoped!Inv'
  BY <1>7, EnvKept DEF Started
<1>8. ASSUME NEW t \in Threads, BootstrapFails(t), UNCHANGED exit PROVE Scoped!Inv'
  BY <1>8, EnvKept DEF BootstrapFails
<1>9. ASSUME NEW t \in Threads, StartFails(t), UNCHANGED exit PROVE Scoped!Inv'
  BY <1>9, Exiting DEF StartFails
<1>10. ASSUME NEW t \in Threads, GiveUp(t), UNCHANGED exit PROVE Scoped!Inv'
  BY <1>10, Exiting, EnvKept DEF GiveUp
<1>11. ASSUME NEW t \in Threads, Reserve(t), UNCHANGED exit PROVE Scoped!Inv'
  BY <1>11, EnvKept DEF Reserve
<1>12. ASSUME NEW t \in Threads, Commit(t), UNCHANGED exit PROVE Scoped!Inv'
  BY <1>12, EnvKept DEF Commit
<1>13. ASSUME NEW t \in Threads, BuildFails(t), UNCHANGED exit PROVE Scoped!Inv'
  BY <1>13, EnvKept DEF BuildFails
<1>14. ASSUME NEW t \in Threads, Leak(t), UNCHANGED exit PROVE Scoped!Inv'
  BY <1>14, EnvKept DEF Leak
<1>15. ASSUME NEW t \in Threads, DropOwn(t), UNCHANGED exit PROVE Scoped!Inv'
  BY <1>15, EnvKept DEF DropOwn
<1>16. ASSUME NEW t \in Threads, Shutdown(t), UNCHANGED exit PROVE Scoped!Inv'
  BY <1>16, EnvKept DEF Shutdown
<1>17. ASSUME NEW t \in Threads, DropWorkerGuard(t), UNCHANGED exit PROVE Scoped!Inv'
  BY <1>17, Exiting DEF DropWorkerGuard
<1>18. ASSUME NEW t \in Threads, DropEnvGuard(t), UNCHANGED exit PROVE Scoped!Inv'
  BY <1>18, Exiting DEF DropEnvGuard
<1>19. ASSUME NEW t \in Threads, EndThread(t), UNCHANGED exit PROVE Scoped!Inv'
  BY <1>19, Ending, EnvKept DEF EndThread
<1>20. ASSUME NEW t \in Threads, NEW c \in Clusters, Request(t, c), UNCHANGED exit
      PROVE Scoped!Inv'
  BY <1>20, EnvKept DEF Request
<1>21. ASSUME NEW t \in Threads, NEW c \in Clusters, RegisterHandle(t, c), UNCHANGED exit
      PROVE Scoped!Inv'
  BY <1>21, EnvKept DEF RegisterHandle
<1>22. ASSUME NEW c \in Clusters, Crash(c) PROVE Scoped!Inv'
  BY <1>22, EnvKept DEF Crash
<1>23. CASE BeginExit
  BY <1>23, EnvKept DEF BeginExit
<1>24. CASE Callback
  BY <1>24, EnvKept DEF Callback
<1>25. CASE ServerObeys
  BY <1>25, EnvKept DEF ServerObeys
<1>26. CASE CallbackStopped
  BY <1>26, EnvKept DEF CallbackStopped
<1>27. CASE CallbackForces
  BY <1>27, EnvKept DEF CallbackForces
<1>28. CASE UNCHANGED vars
  BY <1>28, EnvKept DEF vars, envVars
<1>29. QED
  BY <1>1, <1>2, <1>3, <1>4, <1>5, <1>6, <1>7, <1>8, <1>9, <1>10, <1>11,
     <1>12, <1>13, <1>14, <1>15, <1>16, <1>17, <1>18, <1>19, <1>20, <1>21, <1>22,
     <1>23, <1>24, <1>25, <1>26, <1>27, <1>28
  DEF Next, Progress, Ask, Terminated

-----------------------------------------------------------------------------
(* Types.                                                                  *)

\* The constants, as the steps below need them.
LEMMA Names ==
  /\ \A t \in Threads : t \in Clusters /\ t \notin Singletons /\ t # None
  /\ \A c \in Singletons : c \in Clusters /\ c \notin Threads /\ c # None
  /\ None \notin Clusters
  /\ Attempts \in Nat \ {0} /\ MaxCalls \in Nat
BY SharedAssumption DEF Clusters

Labels == {"idle", "lock", "ended"} \cup Registering \cup Initializing

\* The conjuncts of TypeOK that the parts of an action are about.
CallType ==
  /\ pc \in [Threads -> Labels]
  /\ want \in [Threads -> Clusters \cup {None}]
  /\ made \in [Threads -> 0..Attempts]

SingletonType ==
  /\ mutex \in [Singletons -> Threads \cup {None}]
  /\ shared \in [Singletons -> {"Uninitialized", "Initialized", "Failed"}]

\* The ways a step of a call ends.
LEMMA CallTypes ==
  ASSUME CallType, NEW t \in Threads
  PROVE  /\ Return(t) => CallType'
         /\ \A l \in Labels : Goto(t, l) /\ UNCHANGED <<want, made>> => CallType'
         /\ RetryOrGiveUp(t) /\ UNCHANGED want => CallType'
         /\ \A l \in Labels : AfterRegistration(t, l) => CallType'
<1>1. ASSUME Return(t) PROVE CallType'
  <2>1. "idle" \in Labels /\ 0 \in 0..Attempts
    BY Names DEF Labels
  <2>2. QED
    BY <1>1, <2>1 DEF CallType, Return, Goto
<1>2. ASSUME NEW l \in Labels, Goto(t, l), UNCHANGED <<want, made>> PROVE CallType'
  BY <1>2 DEF CallType, Goto
<1>3. ASSUME RetryOrGiveUp(t), UNCHANGED want PROVE CallType'
  <2>1. "attempt" \in Labels /\ "giveup" \in Labels
    BY DEF Labels, Initializing
  <2>2. CASE made[t] < Attempts /\ made' = [made EXCEPT ![t] = @ + 1] /\ Goto(t, "attempt")
    <3>1. made[t] + 1 \in 0..Attempts
      BY <2>2, Names DEF CallType
    <3>2. QED
      BY <1>3, <2>1, <2>2, <3>1 DEF CallType, Goto
  <2>3. CASE Goto(t, "giveup") /\ UNCHANGED made
    BY <1>3, <2>1, <2>3 DEF CallType, Goto
  <2>4. QED
    BY <1>3, <2>2, <2>3 DEF RetryOrGiveUp
<1>4. ASSUME NEW l \in Labels, AfterRegistration(t, l) PROVE CallType'
  BY <1>1, <1>2, <1>4 DEF AfterRegistration
<1>5. QED
  BY <1>1, <1>2, <1>3, <1>4

\* Settling a singleton.
LEMMA SettleTypes ==
  ASSUME SingletonType, NEW t \in Threads,
         NEW outcome \in {"Uninitialized", "Initialized", "Failed"}, Settle(t, outcome)
  PROVE  SingletonType'
<1>1. CASE want[t] \in Singletons
  BY <1>1 DEF Settle, SingletonType
<1>2. CASE want[t] \notin Singletons
  BY <1>2 DEF Settle, SingletonType, singletonVars
<1>3. QED
  BY <1>1, <1>2

\* Every step keeps the types.
LEMMA TypeNext ==
  ASSUME TypeOK, Scoped!Inv, WantInv, [Next]_vars
  PROVE  TypeOK'
<1>env. Env!TypeOK'
  BY EnvNext DEF Scoped!Inv, Scoped!TypeOK, Env!TypeOK, Env!Content, Scoped!Content,
                 Env!Scope, Scoped!Scope
<1>call. CallType /\ SingletonType
  BY DEF TypeOK, CallType, SingletonType, Labels
<1>rest. ASSUME CallType', SingletonType',
                left' \in [Threads -> 0..MaxCalls],
                guards' \in [Clusters -> [worker : Nat, env : Nat]],
                leaked' \in SUBSET Clusters,
                hook' \in {"Empty", "Registering", "Registered"},
                hooked' \in Clusters \cup {None},
                postmaster' \in [Clusters -> {"absent", "live", "dead", "stranger"}],
                data' \in [Clusters -> BOOLEAN],
                exit' \in {"no", "callback", "stopping", "done", "skipped"}
         PROVE  TypeOK'
  BY <1>env, <1>rest DEF TypeOK, CallType, SingletonType, Labels
<1>labels. \A l \in {"idle", "lock", "ended", "register", "build", "worker", "enter", "attempt",
                     "apply", "starting", "giveup", "leak", "drop", "unwind"} : l \in Labels
  BY DEF Labels, Registering, Initializing
<1> USE <1>call, <1>labels, CallTypes, SettleTypes
    DEF threadVars, singletonVars, hookVars, serverVars
<1>1. ASSUME NEW t \in Threads, LockShared(t), UNCHANGED exit PROVE TypeOK'
  <2>1. CallType'
    BY <1>1 DEF LockShared
  <2>2. SingletonType'
    BY <1>1 DEF LockShared, SingletonType
  <2>3. QED
    BY <1>1, <2>1, <2>2, <1>rest DEF LockShared, TypeOK
<1>2. ASSUME NEW t \in Threads, CheckWorker(t), UNCHANGED exit PROVE TypeOK'
  <2>1. CallType'
    BY <1>2, Names DEF CheckWorker, Goto, CallType
  <2>2. SingletonType'
    BY <1>2 DEF CheckWorker, SingletonType
  <2>3. QED
    BY <1>2, <2>1, <2>2, <1>rest DEF CheckWorker, TypeOK
<1>3. ASSUME NEW t \in Threads, WorkerMissing(t), UNCHANGED exit PROVE TypeOK'
  <2>1. CallType'
    BY <1>3 DEF WorkerMissing
  <2>2. SingletonType'
    BY <1>3 DEF WorkerMissing
  <2>3. QED
    BY <1>3, <2>1, <2>2, <1>rest DEF WorkerMissing, TypeOK
<1>4. ASSUME NEW t \in Threads, EnterWorker(t), UNCHANGED exit PROVE TypeOK'
  <2>1. CallType'
    BY <1>4 DEF EnterWorker
  <2>2. SingletonType'
    BY <1>4 DEF EnterWorker, SingletonType
  <2>3. Top(t) \in Nat
    BY <1>4, Entering DEF EnterWorker, Opens
  <2>4. QED
    BY <1>4, <2>1, <2>2, <2>3, <1>rest DEF EnterWorker, TypeOK
<1>5. ASSUME NEW t \in Threads, Bootstrap(t), UNCHANGED exit PROVE TypeOK'
  <2>1. CallType'
    BY <1>5 DEF Bootstrap
  <2>2. SingletonType'
    BY <1>5 DEF Bootstrap, SingletonType
  <2>3. QED
    BY <1>5, <2>1, <2>2, <1>rest DEF Bootstrap, TypeOK
<1>6. ASSUME NEW t \in Threads, ApplyEnv(t), UNCHANGED exit PROVE TypeOK'
  <2>1. CallType'
    BY <1>6 DEF ApplyEnv
  <2>2. SingletonType'
    BY <1>6 DEF ApplyEnv, SingletonType
  <2>3. Top(t) \in Nat
    BY <1>6, Entering DEF ApplyEnv, Opens
  <2>4. QED
    BY <1>6, <2>1, <2>2, <2>3, <1>rest DEF ApplyEnv, TypeOK
<1>7. ASSUME NEW t \in Threads, Started(t), UNCHANGED exit PROVE TypeOK'
  <2>1. CallType'
    BY <1>7 DEF Started
  <2>2. SingletonType'
    BY <1>7 DEF Started, SingletonType
  <2>3. QED
    BY <1>7, <2>1, <2>2, <1>rest DEF Started, TypeOK
<1>8. ASSUME NEW t \in Threads, BootstrapFails(t), UNCHANGED exit PROVE TypeOK'
  <2>1. CallType'
    BY <1>8 DEF BootstrapFails
  <2>2. SingletonType'
    BY <1>8 DEF BootstrapFails, SingletonType
  <2>3. QED
    BY <1>8, <2>1, <2>2, <1>rest DEF BootstrapFails, TypeOK
<1>9. ASSUME NEW t \in Threads, StartFails(t), UNCHANGED exit PROVE TypeOK'
  <2>1. CallType'
    BY <1>9 DEF StartFails
  <2>2. SingletonType'
    BY <1>9 DEF StartFails, SingletonType
  <2>3. QED
    BY <1>9, <2>1, <2>2, <1>rest DEF StartFails, TypeOK
<1>10. ASSUME NEW t \in Threads, GiveUp(t), UNCHANGED exit PROVE TypeOK'
  <2>1. CallType'
    BY <1>10 DEF GiveUp
  <2>2. SingletonType'
    BY <1>10 DEF GiveUp
  <2>3. QED
    BY <1>10, <2>1, <2>2, <1>rest DEF GiveUp, TypeOK
<1>11. ASSUME NEW t \in Threads, Reserve(t), UNCHANGED exit PROVE TypeOK'
  <2>1. CallType'
    BY <1>11 DEF Reserve
  <2>2. SingletonType'
    BY <1>11 DEF Reserve, SingletonType
  <2>3. QED
    BY <1>11, <2>1, <2>2, <1>rest DEF Reserve, TypeOK
<1>12. ASSUME NEW t \in Threads, Commit(t), UNCHANGED exit PROVE TypeOK'
  <2>1. CallType'
    BY <1>12 DEF Commit
  <2>2. SingletonType'
    BY <1>12 DEF Commit, SingletonType
  <2>3. QED
    BY <1>12, <2>1, <2>2, <1>rest DEF Commit, TypeOK
<1>13. ASSUME NEW t \in Threads, BuildFails(t), UNCHANGED exit PROVE TypeOK'
  <2>1. CallType'
    BY <1>13 DEF BuildFails
  <2>2. SingletonType'
    BY <1>13 DEF BuildFails, SingletonType
  <2>3. QED
    BY <1>13, <2>1, <2>2, <1>rest DEF BuildFails, TypeOK
<1>14. ASSUME NEW t \in Threads, Leak(t), UNCHANGED exit PROVE TypeOK'
  <2>1. CallType'
    BY <1>14 DEF Leak
  <2>2. SingletonType'
    BY <1>14 DEF Leak
  <2>3. want[t] \in Clusters
    BY <1>14, Names DEF Leak, WantInv, Initializing
  <2>4. QED
    BY <1>14, <2>1, <2>2, <2>3, <1>rest DEF Leak, TypeOK
<1>15. ASSUME NEW t \in Threads, DropOwn(t), UNCHANGED exit PROVE TypeOK'
  <2>1. CallType'
    BY <1>15, Names DEF DropOwn, Goto, CallType
  <2>2. SingletonType'
    BY <1>15 DEF DropOwn, SingletonType
  <2>3. QED
    BY <1>15, <2>1, <2>2, <1>rest DEF DropOwn, TypeOK
<1>16. ASSUME NEW t \in Threads, Shutdown(t), UNCHANGED exit PROVE TypeOK'
  <2>1. CallType'
    BY <1>16 DEF Shutdown
  <2>2. SingletonType'
    BY <1>16 DEF Shutdown, SingletonType
  <2>3. QED
    BY <1>16, <2>1, <2>2, <1>rest DEF Shutdown, Clean, TypeOK
<1>17. ASSUME NEW t \in Threads, DropWorkerGuard(t), UNCHANGED exit PROVE TypeOK'
  <2>1. CallType'
    BY <1>17 DEF DropWorkerGuard, CallType
  <2>2. SingletonType'
    BY <1>17 DEF DropWorkerGuard, SingletonType
  <2>3. QED
    BY <1>17, <2>1, <2>2, <1>rest DEF DropWorkerGuard, TypeOK
<1>18. ASSUME NEW t \in Threads, DropEnvGuard(t), UNCHANGED exit PROVE TypeOK'
  <2>1. CallType'
    BY <1>18 DEF DropEnvGuard
  <2>2. SingletonType'
    BY <1>18 DEF DropEnvGuard
  <2>3. QED
    BY <1>18, <2>1, <2>2, <1>rest DEF DropEnvGuard, NoGuards, TypeOK
<1>19. ASSUME NEW t \in Threads, EndThread(t), UNCHANGED exit PROVE TypeOK'
  <2>1. CallType'
    BY <1>19 DEF EndThread
  <2>2. SingletonType'
    BY <1>19 DEF EndThread, SingletonType
  <2>3. QED
    BY <1>19, <2>1, <2>2, <1>rest DEF EndThread, NoGuards, TypeOK
<1>20. ASSUME NEW t \in Threads, NEW c \in Clusters, Request(t, c), UNCHANGED exit
      PROVE TypeOK'
  <2>1. CallType'
    BY <1>20 DEF Request, Goto, CallType
  <2>2. SingletonType'
    BY <1>20 DEF Request, SingletonType
  <2>3. QED
    BY <1>20, <2>1, <2>2, <1>rest, Names DEF Request, TypeOK
<1>21. ASSUME NEW t \in Threads, NEW c \in Clusters, RegisterHandle(t, c), UNCHANGED exit
      PROVE TypeOK'
  <2>1. CallType'
    BY <1>21 DEF RegisterHandle, Goto, CallType
  <2>2. SingletonType'
    BY <1>21 DEF RegisterHandle, SingletonType
  <2>3. QED
    BY <1>21, <2>1, <2>2, <1>rest, Names DEF RegisterHandle, TypeOK
<1>22. ASSUME NEW c \in Clusters, Crash(c) PROVE TypeOK'
  <2>1. CallType'
    BY <1>22 DEF Crash, CallType
  <2>2. SingletonType'
    BY <1>22 DEF Crash, SingletonType
  <2>3. QED
    BY <1>22, <2>1, <2>2, <1>rest DEF Crash, TypeOK
<1>23. CASE BeginExit
  <2>1. CallType'
    BY <1>23 DEF BeginExit, CallType
  <2>2. SingletonType'
    BY <1>23 DEF BeginExit, SingletonType
  <2>3. QED
    BY <1>23, <2>1, <2>2, <1>rest DEF BeginExit, TypeOK
<1>24. CASE Callback
  <2>1. CallType'
    BY <1>24 DEF Callback, CallType
  <2>2. SingletonType'
    BY <1>24 DEF Callback, SingletonType
  <2>3. QED
    BY <1>24, <2>1, <2>2, <1>rest DEF Callback, Clean, TypeOK
<1>25. CASE ServerObeys
  <2>1. CallType'
    BY <1>25 DEF ServerObeys, CallType
  <2>2. SingletonType'
    BY <1>25 DEF ServerObeys, SingletonType
  <2>3. QED
    BY <1>25, <2>1, <2>2, <1>rest DEF ServerObeys, TypeOK
<1>26. CASE CallbackStopped
  <2>1. CallType'
    BY <1>26 DEF CallbackStopped, CallType
  <2>2. SingletonType'
    BY <1>26 DEF CallbackStopped, SingletonType
  <2>3. QED
    BY <1>26, <2>1, <2>2, <1>rest DEF CallbackStopped, Clean, TypeOK
<1>27. CASE CallbackForces
  <2>1. CallType'
    BY <1>27 DEF CallbackForces, CallType
  <2>2. SingletonType'
    BY <1>27 DEF CallbackForces, SingletonType
  <2>3. QED
    BY <1>27, <2>1, <2>2, <1>rest DEF CallbackForces, Clean, TypeOK
<1>28. CASE UNCHANGED vars
  <2>1. CallType' /\ SingletonType'
    BY <1>28 DEF vars, CallType, SingletonType
  <2>2. QED
    BY <1>28, <2>1, <1>rest DEF vars, TypeOK
<1>29. QED
  BY <1>1, <1>2, <1>3, <1>4, <1>5, <1>6, <1>7, <1>8, <1>9, <1>10, <1>11,
     <1>12, <1>13, <1>14, <1>15, <1>16, <1>17, <1>18, <1>19, <1>20, <1>21, <1>22,
     <1>23, <1>24, <1>25, <1>26, <1>27, <1>28
  DEF Next, Progress, Ask, Terminated

-----------------------------------------------------------------------------
(* Who works on what.                                                      *)

\* Every step keeps what threads may work on.
LEMMA WantNext ==
  ASSUME TypeOK, WantInv, [Next]_vars
  PROVE  WantInv'
<1> USE Names DEF TypeOK, WantInv, Registering, Initializing, threadVars
<1>1. ASSUME NEW t \in Threads, LockShared(t), UNCHANGED exit PROVE WantInv'
  BY <1>1 DEF LockShared, Return, Goto
<1>2. ASSUME NEW t \in Threads, CheckWorker(t), UNCHANGED exit PROVE WantInv'
  BY <1>2 DEF CheckWorker, Goto
<1>3. ASSUME NEW t \in Threads, WorkerMissing(t), UNCHANGED exit PROVE WantInv'
  BY <1>3 DEF WorkerMissing, Return, Goto
<1>4. ASSUME NEW t \in Threads, EnterWorker(t), UNCHANGED exit PROVE WantInv'
  BY <1>4 DEF EnterWorker, Goto
<1>5. ASSUME NEW t \in Threads, Bootstrap(t), UNCHANGED exit PROVE WantInv'
  BY <1>5 DEF Bootstrap, Goto
<1>6. ASSUME NEW t \in Threads, ApplyEnv(t), UNCHANGED exit PROVE WantInv'
  BY <1>6 DEF ApplyEnv, Goto
<1>7. ASSUME NEW t \in Threads, Started(t), UNCHANGED exit PROVE WantInv'
  BY <1>7 DEF Started, Return, Goto
<1>8. ASSUME NEW t \in Threads, BootstrapFails(t), UNCHANGED exit PROVE WantInv'
  BY <1>8 DEF BootstrapFails, RetryOrGiveUp, Goto
<1>9. ASSUME NEW t \in Threads, StartFails(t), UNCHANGED exit PROVE WantInv'
  BY <1>9 DEF StartFails, RetryOrGiveUp, Goto
<1>10. ASSUME NEW t \in Threads, GiveUp(t), UNCHANGED exit PROVE WantInv'
  BY <1>10 DEF GiveUp, Return, Goto
<1>11. ASSUME NEW t \in Threads, Reserve(t), UNCHANGED exit PROVE WantInv'
  BY <1>11 DEF Reserve, AfterRegistration, Return, Goto
<1>12. ASSUME NEW t \in Threads, Commit(t), UNCHANGED exit PROVE WantInv'
  BY <1>12 DEF Commit, AfterRegistration, Return, Goto
<1>13. ASSUME NEW t \in Threads, BuildFails(t), UNCHANGED exit PROVE WantInv'
  BY <1>13 DEF BuildFails, AfterRegistration, Return, Goto
<1>14. ASSUME NEW t \in Threads, Leak(t), UNCHANGED exit PROVE WantInv'
  BY <1>14 DEF Leak, Return, Goto
<1>15. ASSUME NEW t \in Threads, DropOwn(t), UNCHANGED exit PROVE WantInv'
  BY <1>15 DEF DropOwn, Goto
<1>16. ASSUME NEW t \in Threads, Shutdown(t), UNCHANGED exit PROVE WantInv'
  BY <1>16 DEF Shutdown, Goto
<1>17. ASSUME NEW t \in Threads, DropWorkerGuard(t), UNCHANGED exit PROVE WantInv'
  BY <1>17 DEF DropWorkerGuard
<1>18. ASSUME NEW t \in Threads, DropEnvGuard(t), UNCHANGED exit PROVE WantInv'
  BY <1>18 DEF DropEnvGuard, Return, Goto
<1>19. ASSUME NEW t \in Threads, EndThread(t), UNCHANGED exit PROVE WantInv'
  BY <1>19 DEF EndThread, Goto
<1>20. ASSUME NEW t \in Threads, NEW c \in Clusters, Request(t, c), UNCHANGED exit
      PROVE WantInv'
  BY <1>20 DEF Request, Goto
<1>21. ASSUME NEW t \in Threads, NEW c \in Clusters, RegisterHandle(t, c), UNCHANGED exit
      PROVE WantInv'
  BY <1>21 DEF RegisterHandle, Goto
<1>22. ASSUME NEW c \in Clusters, Crash(c) PROVE WantInv'
  BY <1>22 DEF Crash
<1>23. CASE BeginExit
  BY <1>23 DEF BeginExit
<1>24. CASE Callback
  BY <1>24 DEF Callback
<1>25. CASE ServerObeys
  BY <1>25 DEF ServerObeys
<1>26. CASE CallbackStopped
  BY <1>26 DEF CallbackStopped
<1>27. CASE CallbackForces
  BY <1>27 DEF CallbackForces
<1>28. CASE UNCHANGED vars
  BY <1>28 DEF vars
<1>29. QED
  BY <1>1, <1>2, <1>3, <1>4, <1>5, <1>6, <1>7, <1>8, <1>9, <1>10, <1>11,
     <1>12, <1>13, <1>14, <1>15, <1>16, <1>17, <1>18, <1>19, <1>20, <1>21, <1>22,
     <1>23, <1>24, <1>25, <1>26, <1>27, <1>28
  DEF Next, Progress, Ask, Terminated

\* A thread goes on with its cluster, whose mutex it has where it initialises.
LEMMA MutexMove ==
  ASSUME TypeOK, MutexInv, UNCHANGED <<mutex, shared, want>>,
         NEW t \in Threads, NEW l \in Initializing \cup Registering, Goto(t, l),
         l \in Initializing /\ want[t] \in Singletons => mutex[want[t]] = t
  PROVE  MutexInv'
BY DEF TypeOK, MutexInv, Goto

\* A call returns without the mutex it did not have, or gives it back.
LEMMA MutexReturn ==
  ASSUME TypeOK, MutexInv, NEW t \in Threads, Return(t)
  PROVE  /\ UNCHANGED <<mutex, shared>> /\ ~(want[t] \in Singletons /\ mutex[want[t]] = t) =>
              MutexInv'
         /\ \A outcome \in {"Uninitialized", "Initialized", "Failed"} :
              Settle(t, outcome) /\ pc[t] \in Initializing => MutexInv'
<1>1. pc' = [pc EXCEPT ![t] = "idle"] /\ want' = [want EXCEPT ![t] = None]
  BY DEF Return, Goto
<1>2. "idle" \notin Initializing
  BY DEF Initializing
<1>3. ASSUME UNCHANGED <<mutex, shared>>, ~(want[t] \in Singletons /\ mutex[want[t]] = t)
      PROVE  MutexInv'
  BY <1>1, <1>2, <1>3, Names DEF TypeOK, MutexInv
<1>4. ASSUME NEW outcome, Settle(t, outcome), pc[t] \in Initializing
      PROVE  MutexInv'
  <2>1. CASE want[t] \in Singletons
    <3>1. mutex[want[t]] = t
      BY <2>1, <1>4 DEF MutexInv
    <3>2. /\ mutex' = [mutex EXCEPT ![want[t]] = None]
          /\ shared' = [shared EXCEPT ![want[t]] = outcome]
      BY <2>1, <1>4 DEF Settle
    <3>3. \A u \in Threads \ {t} : pc[u] \in Initializing => want[u] # want[t]
      BY <2>1, <3>1 DEF MutexInv
    <3>4. QED
      BY <1>1, <1>2, <2>1, <3>1, <3>2, <3>3, Names DEF TypeOK, MutexInv
  <2>2. CASE want[t] \notin Singletons
    BY <1>3, <1>4, <2>2 DEF Settle, singletonVars
  <2>3. QED
    BY <2>1, <2>2
<1>5. QED
  BY <1>3, <1>4

\* Every step keeps the mutexes with those who initialise.
LEMMA MutexNext ==
  ASSUME TypeOK, WantInv, MutexInv, [Next]_vars
  PROVE  MutexInv'
<1> USE DEF threadVars, singletonVars
<1>labels. /\ \A l \in {"worker", "enter", "attempt", "apply", "starting", "giveup", "leak", "drop",
                        "unwind"} : l \in Initializing
           /\ "register" \in Registering /\ "build" \in Registering
           /\ "register" \notin Initializing /\ "build" \notin Initializing
           /\ \A l \in {"idle", "lock", "ended"} : l \notin Initializing \cup Registering
  BY DEF Registering, Initializing
<1>after. ASSUME NEW t \in Threads, NEW l \in Initializing, AfterRegistration(t, l),
                 UNCHANGED <<mutex, shared>>
          PROVE  MutexInv'
  <2>1. CASE Guarding(t)
    BY <1>after, <2>1, MutexMove, Names DEF AfterRegistration, Guarding
  <2>2. CASE ~Guarding(t)
    BY <1>after, <2>2, MutexReturn DEF AfterRegistration, Guarding
  <2>3. QED
    BY <2>1, <2>2
<1>1. ASSUME NEW t \in Threads, LockShared(t), UNCHANGED exit PROVE MutexInv'
  <2>1. CASE shared[want[t]] = "Uninitialized"
    <3>1. want[t] \in Singletons /\ mutex[want[t]] = None
      BY <1>1 DEF LockShared, WantInv
    <3>2. \A c \in Singletons : mutex[c] # t
      BY <1>1, <1>labels, Names DEF LockShared, MutexInv
    <3>3. /\ mutex' = [mutex EXCEPT ![want[t]] = t] /\ UNCHANGED <<want, shared>>
          /\ pc' = [pc EXCEPT ![t] = "worker"]
      BY <1>1, <2>1 DEF LockShared, Goto
    <3>4. QED
      BY <2>1, <3>1, <3>2, <3>3, <1>labels, Names DEF TypeOK, MutexInv
  <2>2. CASE shared[want[t]] # "Uninitialized"
    BY <1>1, <2>2, <1>labels, MutexReturn, Names DEF LockShared, MutexInv
  <2>3. QED
    BY <2>1, <2>2
<1>2. ASSUME NEW t \in Threads, CheckWorker(t), UNCHANGED exit PROVE MutexInv'
  <2>1. pc[t] \in Initializing
    BY <1>2, <1>labels DEF CheckWorker
  <2>2. QED
    BY <1>2, <2>1, <1>labels, MutexMove DEF MutexInv, CheckWorker
<1>3. ASSUME NEW t \in Threads, WorkerMissing(t), UNCHANGED exit PROVE MutexInv'
  BY <1>3, <1>labels, MutexReturn DEF WorkerMissing
<1>4. ASSUME NEW t \in Threads, EnterWorker(t), UNCHANGED exit PROVE MutexInv'
  <2>1. pc[t] \in Initializing
    BY <1>4, <1>labels DEF EnterWorker
  <2>2. QED
    BY <1>4, <2>1, <1>labels, MutexMove DEF MutexInv, EnterWorker
<1>5. ASSUME NEW t \in Threads, Bootstrap(t), UNCHANGED exit PROVE MutexInv'
  <2>1. pc[t] \in Initializing
    BY <1>5, <1>labels DEF Bootstrap
  <2>2. QED
    BY <1>5, <2>1, <1>labels, MutexMove DEF MutexInv, Bootstrap
<1>6. ASSUME NEW t \in Threads, ApplyEnv(t), UNCHANGED exit PROVE MutexInv'
  <2>1. pc[t] \in Initializing
    BY <1>6, <1>labels DEF ApplyEnv
  <2>2. QED
    BY <1>6, <2>1, <1>labels, MutexMove DEF MutexInv, ApplyEnv
<1>7. ASSUME NEW t \in Threads, Started(t), UNCHANGED exit PROVE MutexInv'
  <2>1. CASE want[t] = t
    BY <1>7, <2>1, MutexReturn, Names DEF Started
  <2>2. CASE want[t] # t
    BY <1>7, <2>2, <1>labels, MutexMove DEF Started
  <2>3. QED
    BY <2>1, <2>2
<1>8. ASSUME NEW t \in Threads, BootstrapFails(t), UNCHANGED exit PROVE MutexInv'
  <2>1. pc[t] \in Initializing
    BY <1>8, <1>labels DEF BootstrapFails
  <2>2. QED
    BY <1>8, <2>1, <1>labels, MutexMove DEF MutexInv, BootstrapFails, RetryOrGiveUp
<1>9. ASSUME NEW t \in Threads, StartFails(t), UNCHANGED exit PROVE MutexInv'
  <2>1. pc[t] \in Initializing
    BY <1>9, <1>labels DEF StartFails
  <2>2. QED
    BY <1>9, <2>1, <1>labels, MutexMove DEF MutexInv, StartFails, RetryOrGiveUp
<1>10. ASSUME NEW t \in Threads, GiveUp(t), UNCHANGED exit PROVE MutexInv'
  BY <1>10, <1>labels, MutexReturn DEF GiveUp
<1>11. ASSUME NEW t \in Threads, Reserve(t), UNCHANGED exit PROVE MutexInv'
  <2>1. CASE hook = "Empty"
    BY <1>11, <2>1, <1>labels, MutexMove DEF Reserve
  <2>2. CASE hook = "Registered"
    BY <1>11, <2>2, <1>labels, <1>after DEF Reserve
  <2>3. QED
    BY <1>11, <2>1, <2>2 DEF Reserve
<1>12. ASSUME NEW t \in Threads, Commit(t), UNCHANGED exit PROVE MutexInv'
  BY <1>12, <1>labels, <1>after DEF Commit
<1>13. ASSUME NEW t \in Threads, BuildFails(t), UNCHANGED exit PROVE MutexInv'
  BY <1>13, <1>labels, <1>after DEF BuildFails
<1>14. ASSUME NEW t \in Threads, Leak(t), UNCHANGED exit PROVE MutexInv'
  BY <1>14, <1>labels, MutexReturn DEF Leak
<1>15. ASSUME NEW t \in Threads, DropOwn(t), UNCHANGED exit PROVE MutexInv'
  BY <1>15, <1>labels, Names DEF DropOwn, Goto, TypeOK, MutexInv
<1>16. ASSUME NEW t \in Threads, Shutdown(t), UNCHANGED exit PROVE MutexInv'
  <2>1. pc[t] \in Initializing
    BY <1>16, <1>labels DEF Shutdown
  <2>2. QED
    BY <1>16, <2>1, <1>labels, MutexMove DEF MutexInv, Shutdown
<1>17. ASSUME NEW t \in Threads, DropWorkerGuard(t), UNCHANGED exit PROVE MutexInv'
  BY <1>17 DEF DropWorkerGuard, MutexInv
<1>18. ASSUME NEW t \in Threads, DropEnvGuard(t), UNCHANGED exit PROVE MutexInv'
  BY <1>18, <1>labels, MutexReturn DEF DropEnvGuard
<1>19. ASSUME NEW t \in Threads, EndThread(t), UNCHANGED exit PROVE MutexInv'
  BY <1>19, <1>labels, Names DEF EndThread, Goto, TypeOK, MutexInv
<1>20. ASSUME NEW t \in Threads, NEW c \in Clusters, Request(t, c), UNCHANGED exit
      PROVE MutexInv'
  BY <1>20, <1>labels, Names DEF Request, Goto, TypeOK, MutexInv
<1>21. ASSUME NEW t \in Threads, NEW c \in Clusters, RegisterHandle(t, c), UNCHANGED exit
      PROVE MutexInv'
  BY <1>21, <1>labels, Names DEF RegisterHandle, Goto, TypeOK, MutexInv
<1>22. ASSUME NEW c \in Clusters, Crash(c) PROVE MutexInv'
  BY <1>22 DEF Crash, MutexInv
<1>23. CASE BeginExit
  BY <1>23 DEF BeginExit, MutexInv
<1>24. CASE Callback
  BY <1>24 DEF Callback, MutexInv
<1>25. CASE ServerObeys
  BY <1>25 DEF ServerObeys, MutexInv
<1>26. CASE CallbackStopped
  BY <1>26 DEF CallbackStopped, MutexInv
<1>27. CASE CallbackForces
  BY <1>27 DEF CallbackForces, MutexInv
<1>28. CASE UNCHANGED vars
  BY <1>28 DEF vars, MutexInv
<1>29. QED
  BY <1>1, <1>2, <1>3, <1>4, <1>5, <1>6, <1>7, <1>8, <1>9, <1>10, <1>11,
     <1>12, <1>13, <1>14, <1>15, <1>16, <1>17, <1>18, <1>19, <1>20, <1>21, <1>22,
     <1>23, <1>24, <1>25, <1>26, <1>27, <1>28
  DEF Next, Progress, Ask, Terminated

\* Every step keeps the builder of the hook's state alone.
LEMMA BuildNext ==
  ASSUME TypeOK, WantInv, BuildInv, [Next]_vars
  PROVE  BuildInv'
<1> USE DEF TypeOK, BuildInv, threadVars, hookVars
<1>1. ASSUME NEW t \in Threads, LockShared(t), UNCHANGED exit PROVE BuildInv'
  BY <1>1 DEF LockShared, Return, Goto
<1>2. ASSUME NEW t \in Threads, CheckWorker(t), UNCHANGED exit PROVE BuildInv'
  BY <1>2 DEF CheckWorker, Goto
<1>3. ASSUME NEW t \in Threads, WorkerMissing(t), UNCHANGED exit PROVE BuildInv'
  BY <1>3 DEF WorkerMissing, Return, Goto
<1>4. ASSUME NEW t \in Threads, EnterWorker(t), UNCHANGED exit PROVE BuildInv'
  BY <1>4 DEF EnterWorker, Goto
<1>5. ASSUME NEW t \in Threads, Bootstrap(t), UNCHANGED exit PROVE BuildInv'
  BY <1>5 DEF Bootstrap, Goto
<1>6. ASSUME NEW t \in Threads, ApplyEnv(t), UNCHANGED exit PROVE BuildInv'
  BY <1>6 DEF ApplyEnv, Goto
<1>7. ASSUME NEW t \in Threads, Started(t), UNCHANGED exit PROVE BuildInv'
  BY <1>7 DEF Started, Return, Goto
<1>8. ASSUME NEW t \in Threads, BootstrapFails(t), UNCHANGED exit PROVE BuildInv'
  BY <1>8 DEF BootstrapFails, RetryOrGiveUp, Goto
<1>9. ASSUME NEW t \in Threads, StartFails(t), UNCHANGED exit PROVE BuildInv'
  BY <1>9 DEF StartFails, RetryOrGiveUp, Goto
<1>10. ASSUME NEW t \in Threads, GiveUp(t), UNCHANGED exit PROVE BuildInv'
  BY <1>10 DEF GiveUp, Return, Goto
<1>11. ASSUME NEW t \in Threads, Reserve(t), UNCHANGED exit PROVE BuildInv'
  BY <1>11 DEF Reserve, AfterRegistration, Return, Goto
<1>12. ASSUME NEW t \in Threads, Commit(t), UNCHANGED exit PROVE BuildInv'
  BY <1>12 DEF Commit, AfterRegistration, Return, Goto, WantInv, Registering
<1>13. ASSUME NEW t \in Threads, BuildFails(t), UNCHANGED exit PROVE BuildInv'
  BY <1>13 DEF BuildFails, AfterRegistration, Return, Goto
<1>14. ASSUME NEW t \in Threads, Leak(t), UNCHANGED exit PROVE BuildInv'
  BY <1>14 DEF Leak, Return, Goto
<1>15. ASSUME NEW t \in Threads, DropOwn(t), UNCHANGED exit PROVE BuildInv'
  BY <1>15 DEF DropOwn, Goto
<1>16. ASSUME NEW t \in Threads, Shutdown(t), UNCHANGED exit PROVE BuildInv'
  BY <1>16 DEF Shutdown, Goto
<1>17. ASSUME NEW t \in Threads, DropWorkerGuard(t), UNCHANGED exit PROVE BuildInv'
  BY <1>17 DEF DropWorkerGuard
<1>18. ASSUME NEW t \in Threads, DropEnvGuard(t), UNCHANGED exit PROVE BuildInv'
  BY <1>18 DEF DropEnvGuard, Return, Goto
<1>19. ASSUME NEW t \in Threads, EndThread(t), UNCHANGED exit PROVE BuildInv'
  BY <1>19 DEF EndThread, Goto
<1>20. ASSUME NEW t \in Threads, NEW c \in Clusters, Request(t, c), UNCHANGED exit
      PROVE BuildInv'
  BY <1>20 DEF Request, Goto
<1>21. ASSUME NEW t \in Threads, NEW c \in Clusters, RegisterHandle(t, c), UNCHANGED exit
      PROVE BuildInv'
  BY <1>21 DEF RegisterHandle, Goto
<1>22. ASSUME NEW c \in Clusters, Crash(c) PROVE BuildInv'
  BY <1>22 DEF Crash
<1>23. CASE BeginExit
  BY <1>23 DEF BeginExit
<1>24. CASE Callback
  BY <1>24 DEF Callback
<1>25. CASE ServerObeys
  BY <1>25 DEF ServerObeys
<1>26. CASE CallbackStopped
  BY <1>26 DEF CallbackStopped
<1>27. CASE CallbackForces
  BY <1>27 DEF CallbackForces
<1>28. CASE UNCHANGED vars
  BY <1>28 DEF vars
<1>29. QED
  BY <1>1, <1>2, <1>3, <1>4, <1>5, <1>6, <1>7, <1>8, <1>9, <1>10, <1>11,
     <1>12, <1>13, <1>14, <1>15, <1>16, <1>17, <1>18, <1>19, <1>20, <1>21, <1>22,
     <1>23, <1>24, <1>25, <1>26, <1>27, <1>28
  DEF Next, Progress, Ask, Terminated

-----------------------------------------------------------------------------
(* Guards and scopes.                                                      *)

\* Who initialises has the guard, and a guard has one thread.
LEMMA Distinct ==
  ASSUME WantInv, MutexInv, NEW t \in Threads
  PROVE  /\ pc[t] \in Initializing => Guarding(t)
         /\ Guarding(t) => want[t] \in Clusters
         /\ \A u \in Threads \ {t} : Guarding(t) /\ Guarding(u) => want[u] # want[t]
BY Names DEF WantInv, MutexInv, Guarding

\* Where the guards stay as they are.
LEMMA BlankMove ==
  ASSUME TypeOK, BlankInv, UNCHANGED <<guards, mutex, shared, want>>,
         NEW t \in Threads, NEW l, Goto(t, l),
         l \in {"worker", "enter"} => guards[want[t]] = NoGuards,
         l \in {"attempt", "apply", "giveup"} => guards[want[t]].env = 0
  PROVE  BlankInv'
BY DEF TypeOK, BlankInv, Goto

\* Where the guard of the thread's cluster changes.
LEMMA BlankChange ==
  ASSUME TypeOK, WantInv, MutexInv, BlankInv, NEW t \in Threads, pc[t] \in Initializing,
         NEW l, Goto(t, l), l \notin {"worker", "enter"},
         NEW g \in [worker : Nat, env : Nat], guards' = [guards EXCEPT ![want[t]] = g],
         \A u \in Threads \ {t} : want'[u] = want[u],
         \/ UNCHANGED <<mutex, shared, want>> /\ (l \in {"attempt", "apply", "giveup"} => g.env = 0)
         \/ Settle(t, "Failed") /\ l = "idle"
  PROVE  BlankInv'
<1>1. Guarding(t) /\ want[t] \in Clusters
  BY Distinct
<1>2. \A u \in Threads \ {t} : pc[u] \in Initializing => guards'[want[u]] = guards[want[u]]
  BY Distinct DEF TypeOK
<1>3. guards'[want[t]] = g
  BY <1>1 DEF TypeOK
<1>4. \A l2 \in {"worker", "enter", "attempt", "apply", "giveup"} : l2 \in Initializing
  BY DEF Initializing
<1>5. \A u \in Threads : pc'[u] = IF u = t THEN l ELSE pc[u]
  BY DEF TypeOK, Goto
<1>6. ASSUME NEW u \in Threads
      PROVE  /\ pc'[u] \in {"worker", "enter"} => guards'[want'[u]] = NoGuards
             /\ pc'[u] \in {"attempt", "apply", "giveup"} => guards'[want'[u]].env = 0
  <2>1. CASE u = t
    BY <1>3, <1>5, <2>1
  <2>2. CASE u # t
    BY <1>2, <1>4, <1>5, <2>2 DEF BlankInv
  <2>3. QED
    BY <2>1, <2>2
<1>7. ASSUME NEW c \in Singletons, shared'[c] = "Uninitialized", mutex'[c] = None
      PROVE  guards'[c] = NoGuards
  <2>1. want[t] # c
    BY <1>1, <1>7, Names DEF Guarding, Settle, TypeOK
  <2>2. shared[c] = "Uninitialized" /\ mutex[c] = None
    BY <1>7, <2>1 DEF Settle, TypeOK, singletonVars
  <2>3. guards'[c] = guards[c]
    BY <2>1, Names DEF TypeOK
  <2>4. QED
    BY <2>2, <2>3 DEF BlankInv
<1>8. QED
  BY <1>6, <1>7 DEF BlankInv

\* Every step keeps the guards of clusters under construction empty.
LEMMA BlankNext ==
  ASSUME TypeOK, Scoped!Inv, WantInv, MutexInv, BlankInv, [Next]_vars
  PROVE  BlankInv'
<1> USE DEF threadVars, singletonVars
<1>labels. \A l \in {"worker", "enter", "attempt", "apply", "starting", "giveup", "leak", "drop",
                     "unwind"} : l \in Initializing
  BY DEF Initializing
<1>records. \A t \in Threads : pc[t] \in Initializing =>
              /\ want[t] \in Clusters /\ guards[want[t]] \in [worker : Nat, env : Nat]
  BY Distinct DEF TypeOK
<1>after. ASSUME NEW t \in Threads, NEW l \in {"leak", "drop"}, AfterRegistration(t, l),
                 UNCHANGED <<mutex, shared, guards>>
          PROVE  BlankInv'
  BY <1>after, Names DEF AfterRegistration, Return, Goto, BlankInv, TypeOK
<1>1. ASSUME NEW t \in Threads, LockShared(t), UNCHANGED exit PROVE BlankInv'
  <2>1. CASE shared[want[t]] = "Uninitialized"
    <3>1. want[t] \in Singletons /\ guards[want[t]] = NoGuards
      BY <1>1, <2>1 DEF LockShared, WantInv, BlankInv
    <3>2. QED
      BY <1>1, <2>1, <3>1, Names DEF LockShared, Goto, BlankInv, TypeOK
  <2>2. CASE shared[want[t]] # "Uninitialized"
    BY <1>1, <2>2 DEF LockShared, Return, Goto, BlankInv, TypeOK
  <2>3. QED
    BY <2>1, <2>2
<1>2. ASSUME NEW t \in Threads, CheckWorker(t), UNCHANGED exit PROVE BlankInv'
  BY <1>2, BlankMove DEF CheckWorker, BlankInv, NoGuards
<1>3. ASSUME NEW t \in Threads, WorkerMissing(t), UNCHANGED exit PROVE BlankInv'
  BY <1>3 DEF WorkerMissing, Settle, Return, Goto, BlankInv, TypeOK
<1>4. ASSUME NEW t \in Threads, EnterWorker(t), UNCHANGED exit PROVE BlankInv'
  <2>1. pc[t] \in Initializing
    BY <1>4, <1>labels DEF EnterWorker
  <2>2. Top(t) \in Nat
    BY <1>4, Entering DEF EnterWorker, Opens
  <2> DEFINE g == [guards[want[t]] EXCEPT !.worker = Top(t)]
  <2>3. g \in [worker : Nat, env : Nat]
    BY <2>1, <2>2, <1>records DEF NoGuards
  <2>4. guards' = [guards EXCEPT ![want[t]] = g]
    BY <1>4, <2>1, <1>records DEF EnterWorker, TypeOK
  <2>5. g.env = 0
    BY <1>4, <2>1, <1>records DEF EnterWorker, BlankInv, NoGuards
  <2> HIDE DEF g
  <2>6. QED
    BY <1>4, <2>1, <2>3, <2>4, <2>5, BlankChange DEF EnterWorker
<1>5. ASSUME NEW t \in Threads, Bootstrap(t), UNCHANGED exit PROVE BlankInv'
  BY <1>5, BlankMove DEF Bootstrap, BlankInv
<1>6. ASSUME NEW t \in Threads, ApplyEnv(t), UNCHANGED exit PROVE BlankInv'
  <2>1. pc[t] \in Initializing
    BY <1>6, <1>labels DEF ApplyEnv
  <2>2. Top(t) \in Nat
    BY <1>6, Entering DEF ApplyEnv, Opens
  <2> DEFINE g == [guards[want[t]] EXCEPT !.env = Top(t)]
  <2>3. g \in [worker : Nat, env : Nat]
    BY <2>1, <2>2, <1>records DEF NoGuards
  <2>4. guards' = [guards EXCEPT ![want[t]] = g]
    BY <1>6, <2>1, <1>records DEF ApplyEnv, TypeOK
  <2>5. /\ Goto(t, "starting") /\ UNCHANGED <<mutex, shared, want>>
        /\ "starting" \notin {"worker", "enter"} /\ "starting" \notin {"attempt", "apply", "giveup"}
        /\ \A u \in Threads \ {t} : want'[u] = want[u]
    BY <1>6 DEF ApplyEnv
  <2> HIDE DEF g
  <2>6. QED
    BY <1>6, <2>1, <2>3, <2>4, <2>5, BlankChange
<1>7. ASSUME NEW t \in Threads, Started(t), UNCHANGED exit PROVE BlankInv'
  BY <1>7 DEF Started, Return, Goto, BlankInv, TypeOK
<1>8. ASSUME NEW t \in Threads, BootstrapFails(t), UNCHANGED exit PROVE BlankInv'
  BY <1>8, BlankMove DEF BootstrapFails, BlankInv, RetryOrGiveUp
<1>9. ASSUME NEW t \in Threads, StartFails(t), UNCHANGED exit PROVE BlankInv'
  <2>1. pc[t] \in Initializing
    BY <1>9, <1>labels DEF StartFails
  <2> DEFINE g == [guards[want[t]] EXCEPT !.env = 0]
  <2>2. g \in [worker : Nat, env : Nat]
    BY <2>1, <1>records DEF NoGuards
  <2>3. guards' = [guards EXCEPT ![want[t]] = g]
    BY <1>9, <2>1, <1>records DEF StartFails, TypeOK
  <2>4. g.env = 0
    BY <2>1, <1>records
  <2> HIDE DEF g
  <2>5. QED
    BY <1>9, <2>1, <2>2, <2>3, <2>4, BlankChange DEF StartFails, RetryOrGiveUp
<1>10. ASSUME NEW t \in Threads, GiveUp(t), UNCHANGED exit PROVE BlankInv'
  <2>1. pc[t] \in Initializing
    BY <1>10, <1>labels DEF GiveUp
  <2> DEFINE g == [guards[want[t]] EXCEPT !.worker = 0]
  <2>2. g \in [worker : Nat, env : Nat]
    BY <2>1, <1>records DEF NoGuards
  <2>3. guards' = [guards EXCEPT ![want[t]] = g]
    BY <1>10, <2>1, <1>records DEF GiveUp, TypeOK
  <2>4. \A u \in Threads \ {t} : want'[u] = want[u]
    BY <1>10 DEF GiveUp, Return, TypeOK
  <2> HIDE DEF g
  <2>5. QED
    BY <1>10, <2>1, <2>2, <2>3, <2>4, BlankChange DEF GiveUp, Return
<1>11. ASSUME NEW t \in Threads, Reserve(t), UNCHANGED exit PROVE BlankInv'
  <2>1. CASE hook = "Empty"
    BY <1>11, <2>1, BlankMove DEF Reserve
  <2>2. CASE hook = "Registered"
    BY <1>11, <2>2, <1>after DEF Reserve
  <2>3. QED
    BY <1>11, <2>1, <2>2 DEF Reserve
<1>12. ASSUME NEW t \in Threads, Commit(t), UNCHANGED exit PROVE BlankInv'
  BY <1>12, <1>after DEF Commit
<1>13. ASSUME NEW t \in Threads, BuildFails(t), UNCHANGED exit PROVE BlankInv'
  BY <1>13, <1>after DEF BuildFails
<1>14. ASSUME NEW t \in Threads, Leak(t), UNCHANGED exit PROVE BlankInv'
  BY <1>14 DEF Leak, Settle, Return, Goto, BlankInv, TypeOK
<1>15. ASSUME NEW t \in Threads, DropOwn(t), UNCHANGED exit PROVE BlankInv'
  BY <1>15 DEF DropOwn, Goto, BlankInv, TypeOK
<1>16. ASSUME NEW t \in Threads, Shutdown(t), UNCHANGED exit PROVE BlankInv'
  BY <1>16, BlankMove DEF Shutdown, BlankInv
<1>17. ASSUME NEW t \in Threads, DropWorkerGuard(t), UNCHANGED exit PROVE BlankInv'
  <2>1. pc[t] \in Initializing
    BY <1>17, <1>labels DEF DropWorkerGuard
  <2> DEFINE g == [guards[want[t]] EXCEPT !.worker = 0]
  <2>2. g \in [worker : Nat, env : Nat]
    BY <2>1, <1>records DEF NoGuards
  <2>3. guards' = [guards EXCEPT ![want[t]] = g]
    BY <1>17, <2>1, <1>records DEF DropWorkerGuard, TypeOK
  <2>4. Goto(t, "unwind")
    BY <1>17 DEF DropWorkerGuard, Goto, TypeOK
  <2> HIDE DEF g
  <2>5. QED
    BY <1>17, <2>1, <2>2, <2>3, <2>4, BlankChange DEF DropWorkerGuard
<1>18. ASSUME NEW t \in Threads, DropEnvGuard(t), UNCHANGED exit PROVE BlankInv'
  <2>1. pc[t] \in Initializing
    BY <1>18, <1>labels DEF DropEnvGuard
  <2> DEFINE g == NoGuards
  <2>2. g \in [worker : Nat, env : Nat]
    BY <2>1, <1>records DEF NoGuards
  <2>3. guards' = [guards EXCEPT ![want[t]] = g]
    BY <1>18, <2>1, <1>records DEF DropEnvGuard, TypeOK
  <2>4. \A u \in Threads \ {t} : want'[u] = want[u]
    BY <1>18 DEF DropEnvGuard, Return, TypeOK
  <2> HIDE DEF g
  <2>5. QED
    BY <1>18, <2>1, <2>2, <2>3, <2>4, BlankChange DEF DropEnvGuard, Return
<1>19. ASSUME NEW t \in Threads, EndThread(t), UNCHANGED exit PROVE BlankInv'
  <2>1. \A c \in Clusters : guards'[c] \in {guards[c], NoGuards}
    BY <1>19 DEF EndThread
  <2>2. \A u \in Threads : pc'[u] = IF u = t THEN "ended" ELSE pc[u]
    BY <1>19 DEF EndThread, Goto, TypeOK
  <2>3. \A u \in Threads : pc'[u] \in Initializing => want[u] \in Clusters
    BY <2>2, <1>records DEF Initializing
  <2>4. QED
    BY <1>19, <2>1, <2>2, <2>3, <1>labels, Names DEF EndThread, BlankInv, NoGuards
<1>20. ASSUME NEW t \in Threads, NEW c \in Clusters, Request(t, c), UNCHANGED exit
      PROVE BlankInv'
  BY <1>20, Names DEF Request, Goto, BlankInv, TypeOK
<1>21. ASSUME NEW t \in Threads, NEW c \in Clusters, RegisterHandle(t, c), UNCHANGED exit
      PROVE BlankInv'
  BY <1>21 DEF RegisterHandle, Goto, BlankInv, TypeOK
<1>22. ASSUME NEW c \in Clusters, Crash(c) PROVE BlankInv'
  BY <1>22 DEF Crash, BlankInv
<1>23. CASE BeginExit
  BY <1>23 DEF BeginExit, BlankInv
<1>24. CASE Callback
  BY <1>24 DEF Callback, BlankInv
<1>25. CASE ServerObeys
  BY <1>25 DEF ServerObeys, BlankInv
<1>26. CASE CallbackStopped
  BY <1>26 DEF CallbackStopped, BlankInv
<1>27. CASE CallbackForces
  BY <1>27 DEF CallbackForces, BlankInv
<1>28. CASE UNCHANGED vars
  BY <1>28 DEF vars, BlankInv
<1>29. QED
  BY <1>1, <1>2, <1>3, <1>4, <1>5, <1>6, <1>7, <1>8, <1>9, <1>10, <1>11,
     <1>12, <1>13, <1>14, <1>15, <1>16, <1>17, <1>18, <1>19, <1>20, <1>21, <1>22,
     <1>23, <1>24, <1>25, <1>26, <1>27, <1>28
  DEF Next, Progress, Ask, Terminated

\* LockAccounted, scope by scope.
Accounts ==
  \A t \in Threads : \A i \in Nat \ {0} :
    i \in live[t] <=> holder = t /\ \E c \in Clusters : i \in {guards[c].worker, guards[c].env}

LEMMA AccountsIff == TypeOK => (LockAccounted <=> Accounts)
<1> SUFFICES ASSUME TypeOK PROVE LockAccounted <=> Accounts
  OBVIOUS
<1> DEFINE held == UNION {{guards[c].worker, guards[c].env} : c \in Clusters}
<1>1. \A i : i \in held <=> \E c \in Clusters : i \in {guards[c].worker, guards[c].env}
  OBVIOUS
<1>2. held \subseteq Nat
  BY DEF TypeOK
<1>3. \A t \in Threads : live[t] \subseteq Nat \ {0}
  BY DEF TypeOK, Env!TypeOK
<1>4. LockAccounted <=> \A t \in Threads : live[t] = IF holder = t THEN held \ {0} ELSE {}
  BY DEF LockAccounted
<1> HIDE DEF held
<1>5. QED
  BY <1>1, <1>2, <1>3, <1>4 DEF Accounts

Record == [worker : Nat, env : Nat]

\* A scope that is opened goes into an empty place of one guard.
LEMMA ScopeOpened ==
  ASSUME TypeOK, ScopeInv, Accounts, NEW t \in Threads, NEW i, Opens(t, i),
         NEW c \in Clusters, NEW g \in Record, guards' = [guards EXCEPT ![c] = g],
         \/ g.worker = i /\ guards[c].worker = 0 /\ g.env = guards[c].env
         \/ g.env = i /\ guards[c].env = 0 /\ g.worker = guards[c].worker
  PROVE  ScopeInv' /\ Accounts'
<1>1. \A d \in Clusters : i \notin {guards[d].worker, guards[d].env}
  BY DEF Opens, Accounts, ScopeInv, NoGuards
<1>2. \A d \in Clusters : guards'[d] = IF d = c THEN g ELSE guards[d]
  BY DEF TypeOK
<1>3. i \in Nat \ {0} /\ holder' = t /\ t # None
  BY Names DEF Opens
<1>4. ScopeInv'
  BY <1>1, <1>2, <1>3 DEF ScopeInv
<1>5. \A j \in Nat \ {0} : (\E d \in Clusters : j \in {guards'[d].worker, guards'[d].env}) <=>
        (j = i \/ \E d \in Clusters : j \in {guards[d].worker, guards[d].env})
  BY <1>2, <1>3
<1>6. /\ \A u \in Threads \ {t} : live'[u] = {}
      /\ \A j \in Nat \ {0} : j \in live[t] <=>
           \E d \in Clusters : j \in {guards[d].worker, guards[d].env}
  <2>1. holder \in {t, None} /\ live \in [Threads -> SUBSET (Nat \ {0})]
    BY DEF Opens, TypeOK, Env!TypeOK
  <2>2. \A u \in Threads \ {t} : live[u] = {}
    BY <2>1, Names DEF Accounts
  <2>3. \A u \in Threads \ {t} : live'[u] = {}
    BY <2>1, <2>2 DEF Opens
  <2>4. CASE holder = t
    BY <2>3, <2>4 DEF Accounts
  <2>5. CASE holder = None
    BY <2>3, <2>5, <1>3 DEF Accounts, ScopeInv, NoGuards
  <2>6. QED
    BY <2>1, <2>4, <2>5
<1>7. live'[t] = live[t] \cup {i}
  BY DEF Opens, TypeOK, Env!TypeOK
<1>8. QED
  BY <1>3, <1>4, <1>5, <1>6, <1>7 DEF Accounts

\* A scope that is closed leaves the one guard that had it.
LEMMA ScopeClosed ==
  ASSUME TypeOK, ScopeInv, Accounts, NEW t \in Threads, NEW i, Closes(t, i),
         NEW c \in Clusters, NEW g \in Record, guards' = [guards EXCEPT ![c] = g],
         \/ guards[c].worker = i /\ g.worker = 0 /\ g.env = guards[c].env
         \/ guards[c].env = i /\ g.env = 0 /\ g.worker = guards[c].worker
  PROVE  ScopeInv' /\ Accounts'
<1>1. i \in Nat \ {0} /\ holder = t /\ t # None /\ live \in [Threads -> SUBSET (Nat \ {0})]
  BY Names DEF Closes, TypeOK, Env!TypeOK
<1>2. \A d \in Clusters : guards'[d] = IF d = c THEN g ELSE guards[d]
  BY DEF TypeOK
<1>3. \A d \in Clusters : i \notin {guards'[d].worker, guards'[d].env}
  <2>1. i \notin {g.worker, g.env}
    BY <1>1 DEF ScopeInv
  <2>2. \A d \in Clusters \ {c} : i \notin {guards[d].worker, guards[d].env}
    BY <1>1 DEF ScopeInv
  <2>3. QED
    BY <1>2, <2>1, <2>2
<1>4. \A j \in Nat \ {0} : (\E d \in Clusters : j \in {guards'[d].worker, guards'[d].env}) <=>
        (j # i /\ \E d \in Clusters : j \in {guards[d].worker, guards[d].env})
  BY <1>1, <1>2, <1>3
<1>5. /\ \A u \in Threads \ {t} : live'[u] = {}
      /\ live'[t] = live[t] \ {i}
      /\ \A j \in Nat \ {0} : j \in live[t] <=>
           \E d \in Clusters : j \in {guards[d].worker, guards[d].env}
  BY <1>1 DEF Accounts, Closes
<1>6. holder' = IF live'[t] = {} THEN None ELSE t
  BY <1>5 DEF Closes
<1>7. Accounts'
  BY <1>1, <1>4, <1>5, <1>6 DEF Accounts
<1>8. ASSUME holder' = None, NEW d \in Clusters PROVE guards'[d] = NoGuards
  <2>1. live'[t] = {}
    BY <1>1, <1>6, <1>8
  <2>2. guards'[d] \in Record
    BY <1>2 DEF TypeOK, Record
  <2>3. guards'[d].worker = 0 /\ guards'[d].env = 0
    BY <1>4, <1>5, <2>1, <2>2 DEF Record
  <2>4. QED
    BY <2>2, <2>3 DEF Record, NoGuards
<1>9. QED
  BY <1>1, <1>2, <1>7, <1>8 DEF ScopeInv

\* Every step keeps the scopes and the guards in correspondence.
LEMMA ScopeNext ==
  ASSUME TypeOK, Scoped!Inv, WantInv, MutexInv, BlankInv, ScopeInv, Accounts, [Next]_vars
  PROVE  ScopeInv' /\ Accounts'
<1> USE DEF threadVars, singletonVars, envVars
<1>records. \A t \in Threads : pc[t] \in Initializing =>
              want[t] \in Clusters /\ guards[want[t]] \in Record
  BY Distinct DEF TypeOK, Record
<1>labels. \A l \in {"worker", "enter", "attempt", "apply", "starting", "giveup", "leak", "drop",
                     "unwind"} : l \in Initializing
  BY DEF Initializing
<1>1. ASSUME NEW t \in Threads, LockShared(t), UNCHANGED exit PROVE ScopeInv' /\ Accounts'
  BY <1>1 DEF LockShared, ScopeInv, Accounts
<1>2. ASSUME NEW t \in Threads, CheckWorker(t), UNCHANGED exit PROVE ScopeInv' /\ Accounts'
  BY <1>2 DEF CheckWorker, ScopeInv, Accounts
<1>3. ASSUME NEW t \in Threads, WorkerMissing(t), UNCHANGED exit PROVE ScopeInv' /\ Accounts'
  BY <1>3 DEF WorkerMissing, ScopeInv, Accounts
<1>4. ASSUME NEW t \in Threads, EnterWorker(t), UNCHANGED exit PROVE ScopeInv' /\ Accounts'
  <2>1. pc[t] \in Initializing
    BY <1>4, <1>labels DEF EnterWorker
  <2>2. Opens(t, Top(t)) /\ Top(t) \in Nat
    BY <1>4, Entering DEF EnterWorker, Opens
  <2> DEFINE g == [guards[want[t]] EXCEPT !.worker = Top(t)]
  <2>3. g \in Record /\ guards' = [guards EXCEPT ![want[t]] = g]
    BY <1>4, <2>1, <2>2, <1>records DEF EnterWorker, TypeOK, Record, NoGuards
  <2>4. g.worker = Top(t) /\ guards[want[t]].worker = 0 /\ g.env = guards[want[t]].env
    BY <1>4, <2>1, <1>records DEF EnterWorker, BlankInv, Record, NoGuards
  <2> HIDE DEF g
  <2>5. QED
    BY <2>1, <2>2, <2>3, <2>4, <1>records, ScopeOpened
<1>5. ASSUME NEW t \in Threads, Bootstrap(t), UNCHANGED exit PROVE ScopeInv' /\ Accounts'
  BY <1>5 DEF Bootstrap, ScopeInv, Accounts
<1>6. ASSUME NEW t \in Threads, ApplyEnv(t), UNCHANGED exit PROVE ScopeInv' /\ Accounts'
  <2>1. pc[t] \in Initializing
    BY <1>6, <1>labels DEF ApplyEnv
  <2>2. Opens(t, Top(t)) /\ Top(t) \in Nat
    BY <1>6, Entering DEF ApplyEnv, Opens
  <2> DEFINE g == [guards[want[t]] EXCEPT !.env = Top(t)]
  <2>3. g \in Record /\ guards' = [guards EXCEPT ![want[t]] = g]
    BY <1>6, <2>1, <2>2, <1>records DEF ApplyEnv, TypeOK, Record, NoGuards
  <2>4. g.env = Top(t) /\ guards[want[t]].env = 0 /\ g.worker = guards[want[t]].worker
    BY <1>6, <2>1, <1>records DEF ApplyEnv, BlankInv, Record, NoGuards
  <2> HIDE DEF g
  <2>5. QED
    BY <2>1, <2>2, <2>3, <2>4, <1>records, ScopeOpened
<1>7. ASSUME NEW t \in Threads, Started(t), UNCHANGED exit PROVE ScopeInv' /\ Accounts'
  BY <1>7 DEF Started, ScopeInv, Accounts
<1>8. ASSUME NEW t \in Threads, BootstrapFails(t), UNCHANGED exit PROVE ScopeInv' /\ Accounts'
  BY <1>8 DEF BootstrapFails, ScopeInv, Accounts
<1>9. ASSUME NEW t \in Threads, StartFails(t), UNCHANGED exit PROVE ScopeInv' /\ Accounts'
  <2>1. pc[t] \in Initializing
    BY <1>9, <1>labels DEF StartFails
  <2>2. Closes(t, guards[want[t]].env)
    BY <1>9, Exiting DEF StartFails
  <2> DEFINE g == [guards[want[t]] EXCEPT !.env = 0]
  <2>3. g \in Record /\ guards' = [guards EXCEPT ![want[t]] = g]
    BY <1>9, <2>1, <2>2, <1>records DEF StartFails, TypeOK, Record, NoGuards
  <2>4. g.env = 0 /\ g.worker = guards[want[t]].worker
    BY <1>9, <2>1, <1>records DEF StartFails, BlankInv, Record, NoGuards
  <2> HIDE DEF g
  <2>5. QED
    BY <2>1, <2>2, <2>3, <2>4, <1>records, ScopeClosed
<1>10. ASSUME NEW t \in Threads, GiveUp(t), UNCHANGED exit PROVE ScopeInv' /\ Accounts'
  <2>1. CASE guards[want[t]].worker # 0
    <3>1. pc[t] \in Initializing
      BY <1>10, <2>1, <1>labels DEF GiveUp
    <3>2. Closes(t, guards[want[t]].worker)
      BY <1>10, <2>1, Exiting DEF GiveUp
    <3> DEFINE g == [guards[want[t]] EXCEPT !.worker = 0]
    <3>3. g \in Record /\ guards' = [guards EXCEPT ![want[t]] = g]
      BY <1>10, <2>1, <3>1, <3>2, <1>records DEF GiveUp, TypeOK, Record, NoGuards
    <3>4. g.worker = 0 /\ g.env = guards[want[t]].env
      BY <1>10, <2>1, <3>1, <1>records DEF GiveUp, BlankInv, Record, NoGuards
    <3> HIDE DEF g
    <3>5. QED
      BY <3>1, <3>2, <3>3, <3>4, <1>records, ScopeClosed
  <2>2. CASE guards[want[t]].worker = 0
    <3>1. want[t] \in Clusters /\ guards[want[t]] \in Record
      BY <1>10, <1>labels, <1>records DEF GiveUp
    <3>2. UNCHANGED <<guards, live, holder>>
      BY <1>10, <2>2, <3>1 DEF GiveUp, TypeOK, Record
    <3>3. QED
      BY <3>2 DEF ScopeInv, Accounts
  <2>3. QED
    BY <2>1, <2>2
<1>11. ASSUME NEW t \in Threads, Reserve(t), UNCHANGED exit PROVE ScopeInv' /\ Accounts'
  BY <1>11 DEF Reserve, ScopeInv, Accounts
<1>12. ASSUME NEW t \in Threads, Commit(t), UNCHANGED exit PROVE ScopeInv' /\ Accounts'
  BY <1>12 DEF Commit, ScopeInv, Accounts
<1>13. ASSUME NEW t \in Threads, BuildFails(t), UNCHANGED exit PROVE ScopeInv' /\ Accounts'
  BY <1>13 DEF BuildFails, ScopeInv, Accounts
<1>14. ASSUME NEW t \in Threads, Leak(t), UNCHANGED exit PROVE ScopeInv' /\ Accounts'
  BY <1>14 DEF Leak, ScopeInv, Accounts
<1>15. ASSUME NEW t \in Threads, DropOwn(t), UNCHANGED exit PROVE ScopeInv' /\ Accounts'
  BY <1>15 DEF DropOwn, ScopeInv, Accounts
<1>16. ASSUME NEW t \in Threads, Shutdown(t), UNCHANGED exit PROVE ScopeInv' /\ Accounts'
  BY <1>16 DEF Shutdown, ScopeInv, Accounts
<1>17. ASSUME NEW t \in Threads, DropWorkerGuard(t), UNCHANGED exit
      PROVE ScopeInv' /\ Accounts'
  <2>1. pc[t] \in Initializing
    BY <1>17, <1>labels DEF DropWorkerGuard
  <2>2. Closes(t, guards[want[t]].worker)
    BY <1>17, Exiting DEF DropWorkerGuard
  <2> DEFINE g == [guards[want[t]] EXCEPT !.worker = 0]
  <2>3. g \in Record /\ guards' = [guards EXCEPT ![want[t]] = g]
    BY <1>17, <2>1, <2>2, <1>records DEF DropWorkerGuard, TypeOK, Record, NoGuards
  <2>4. g.worker = 0 /\ g.env = guards[want[t]].env
    BY <1>17, <2>1, <1>records DEF DropWorkerGuard, BlankInv, Record, NoGuards
  <2> HIDE DEF g
  <2>5. QED
    BY <2>1, <2>2, <2>3, <2>4, <1>records, ScopeClosed
<1>18. ASSUME NEW t \in Threads, DropEnvGuard(t), UNCHANGED exit PROVE ScopeInv' /\ Accounts'
  <2>1. pc[t] \in Initializing
    BY <1>18, <1>labels DEF DropEnvGuard
  <2>2. Closes(t, guards[want[t]].env)
    BY <1>18, Exiting DEF DropEnvGuard
  <2> DEFINE g == NoGuards
  <2>3. g \in Record /\ guards' = [guards EXCEPT ![want[t]] = g]
    BY <1>18, <2>1, <2>2, <1>records DEF DropEnvGuard, TypeOK, Record, NoGuards
  <2>4. g.env = 0 /\ g.worker = guards[want[t]].worker
    BY <1>18, <2>1, <1>records DEF DropEnvGuard, BlankInv, Record, NoGuards
  <2> HIDE DEF g
  <2>5. QED
    BY <2>1, <2>2, <2>3, <2>4, <1>records, ScopeClosed
<1>19. ASSUME NEW t \in Threads, EndThread(t), UNCHANGED exit PROVE ScopeInv' /\ Accounts'
  <2>1. CASE UNCHANGED <<envVars, guards>>
    BY <2>1 DEF ScopeInv, Accounts
  <2>2. CASE Env!ThreadEnds(t) /\ guards' = [d \in Clusters |-> NoGuards]
    <3>1. Ends(t) /\ live \in [Threads -> SUBSET (Nat \ {0})]
      BY <2>2, Ending DEF TypeOK, Env!TypeOK
    <3>2. \A u \in Threads : live'[u] = {} /\ u # holder'
      BY <3>1, Names DEF Ends, Accounts
    <3>3. QED
      BY <2>2, <3>2 DEF ScopeInv, Accounts, NoGuards
  <2>3. QED
    BY <1>19, <2>1, <2>2 DEF EndThread
<1>20. ASSUME NEW t \in Threads, NEW c \in Clusters, Request(t, c), UNCHANGED exit
      PROVE ScopeInv' /\ Accounts'
  BY <1>20 DEF Request, ScopeInv, Accounts
<1>21. ASSUME NEW t \in Threads, NEW c \in Clusters, RegisterHandle(t, c), UNCHANGED exit
      PROVE ScopeInv' /\ Accounts'
  BY <1>21 DEF RegisterHandle, ScopeInv, Accounts
<1>22. ASSUME NEW c \in Clusters, Crash(c) PROVE ScopeInv' /\ Accounts'
  BY <1>22 DEF Crash, ScopeInv, Accounts
<1>23. CASE BeginExit
  BY <1>23 DEF BeginExit, ScopeInv, Accounts
<1>24. CASE Callback
  BY <1>24 DEF Callback, ScopeInv, Accounts
<1>25. CASE ServerObeys
  BY <1>25 DEF ServerObeys, ScopeInv, Accounts
<1>26. CASE CallbackStopped
  BY <1>26 DEF CallbackStopped, ScopeInv, Accounts
<1>27. CASE CallbackForces
  BY <1>27 DEF CallbackForces, ScopeInv, Accounts
<1>28. CASE UNCHANGED vars
  BY <1>28 DEF vars, ScopeInv, Accounts
<1>29. QED
  BY <1>1, <1>2, <1>3, <1>4, <1>5, <1>6, <1>7, <1>8, <1>9, <1>10, <1>11,
     <1>12, <1>13, <1>14, <1>15, <1>16, <1>17, <1>18, <1>19, <1>20, <1>21, <1>22,
     <1>23, <1>24, <1>25, <1>26, <1>27, <1>28
  DEF Next, Progress, Ask, Terminated

-----------------------------------------------------------------------------
(* Servers, leaks and the data directories.                                *)

\* Every step keeps what is leaked away from whoever could drop it.
LEMMA LeakNext ==
  ASSUME TypeOK, WantInv, MutexInv, LeakInv, [Next]_vars
  PROVE  LeakInv'
<1> USE Names DEF TypeOK, LeakInv, Guarding, threadVars, singletonVars
<1>labels. /\ \A l \in {"worker", "enter", "attempt", "apply", "starting", "giveup", "leak",
                        "unwind"} : l \in Initializing /\ l \notin Registering \cup {"drop"}
           /\ "drop" \in Initializing /\ "register" \in Registering /\ "build" \in Registering
           /\ \A l \in {"idle", "lock", "ended"} : l \notin Registering \cup {"drop"}
  BY DEF Registering, Initializing
<1>1. ASSUME NEW t \in Threads, LockShared(t), UNCHANGED exit PROVE LeakInv'
  <2>1. CASE shared[want[t]] = "Uninitialized"
    BY <1>1, <2>1, <1>labels DEF LockShared, Goto
  <2>2. CASE shared[want[t]] # "Uninitialized"
    BY <1>1, <2>2, <1>labels DEF LockShared, Return, Goto
  <2>3. QED
    BY <2>1, <2>2
<1>2. ASSUME NEW t \in Threads, CheckWorker(t), UNCHANGED exit PROVE LeakInv'
  BY <1>2, <1>labels DEF CheckWorker, Goto
<1>3. ASSUME NEW t \in Threads, WorkerMissing(t), UNCHANGED exit PROVE LeakInv'
  BY <1>3, <1>labels DEF WorkerMissing, Settle, Return, Goto, MutexInv
<1>4. ASSUME NEW t \in Threads, EnterWorker(t), UNCHANGED exit PROVE LeakInv'
  BY <1>4, <1>labels DEF EnterWorker, Goto
<1>5. ASSUME NEW t \in Threads, Bootstrap(t), UNCHANGED exit PROVE LeakInv'
  BY <1>5, <1>labels DEF Bootstrap, Goto
<1>6. ASSUME NEW t \in Threads, ApplyEnv(t), UNCHANGED exit PROVE LeakInv'
  BY <1>6, <1>labels DEF ApplyEnv, Goto
<1>7. ASSUME NEW t \in Threads, Started(t), UNCHANGED exit PROVE LeakInv'
  BY <1>7, <1>labels DEF Started, Return, Goto, MutexInv
<1>8. ASSUME NEW t \in Threads, BootstrapFails(t), UNCHANGED exit PROVE LeakInv'
  BY <1>8, <1>labels DEF BootstrapFails, RetryOrGiveUp, Goto
<1>9. ASSUME NEW t \in Threads, StartFails(t), UNCHANGED exit PROVE LeakInv'
  BY <1>9, <1>labels DEF StartFails, RetryOrGiveUp, Goto
<1>10. ASSUME NEW t \in Threads, GiveUp(t), UNCHANGED exit PROVE LeakInv'
  BY <1>10, <1>labels DEF GiveUp, Settle, Return, Goto, MutexInv
<1>11. ASSUME NEW t \in Threads, Reserve(t), UNCHANGED exit PROVE LeakInv'
  BY <1>11, <1>labels DEF Reserve, AfterRegistration, Return, Goto
<1>12. ASSUME NEW t \in Threads, Commit(t), UNCHANGED exit PROVE LeakInv'
  BY <1>12, <1>labels DEF Commit, AfterRegistration, Return, Goto
<1>13. ASSUME NEW t \in Threads, BuildFails(t), UNCHANGED exit PROVE LeakInv'
  BY <1>13, <1>labels DEF BuildFails, AfterRegistration, Return, Goto
<1>14. ASSUME NEW t \in Threads, Leak(t), UNCHANGED exit PROVE LeakInv'
  <2>1. Guarding(t) /\ want[t] \in Clusters
    BY <1>14, <1>labels, Distinct DEF Leak
  <2>2. \A u \in Threads \ {t} : Guarding(u) => want[u] # want[t]
    BY <2>1, Distinct
  <2>3. QED
    BY <1>14, <2>1, <2>2, <1>labels DEF Leak, Settle, Return, Goto
<1>15. ASSUME NEW t \in Threads, DropOwn(t), UNCHANGED exit PROVE LeakInv'
  BY <1>15, <1>labels DEF DropOwn, Own, Goto
<1>16. ASSUME NEW t \in Threads, Shutdown(t), UNCHANGED exit PROVE LeakInv'
  BY <1>16, <1>labels DEF Shutdown, Goto
<1>17. ASSUME NEW t \in Threads, DropWorkerGuard(t), UNCHANGED exit PROVE LeakInv'
  BY <1>17, <1>labels DEF DropWorkerGuard
<1>18. ASSUME NEW t \in Threads, DropEnvGuard(t), UNCHANGED exit PROVE LeakInv'
  BY <1>18, <1>labels DEF DropEnvGuard, Settle, Return, Goto, MutexInv
<1>19. ASSUME NEW t \in Threads, EndThread(t), UNCHANGED exit PROVE LeakInv'
  BY <1>19, <1>labels DEF EndThread, Goto
<1>20. ASSUME NEW t \in Threads, NEW c \in Clusters, Request(t, c), UNCHANGED exit
      PROVE LeakInv'
  BY <1>20, <1>labels DEF Request, Goto
<1>21. ASSUME NEW t \in Threads, NEW c \in Clusters, RegisterHandle(t, c), UNCHANGED exit
      PROVE LeakInv'
  BY <1>21, <1>labels DEF RegisterHandle, Own, Goto, MutexInv
<1>22. ASSUME NEW c \in Clusters, Crash(c) PROVE LeakInv'
  BY <1>22, <1>labels DEF Crash
<1>23. CASE BeginExit
  BY <1>23, <1>labels DEF BeginExit
<1>24. CASE Callback
  BY <1>24, <1>labels DEF Callback
<1>25. CASE ServerObeys
  BY <1>25, <1>labels DEF ServerObeys
<1>26. CASE CallbackStopped
  BY <1>26, <1>labels DEF CallbackStopped
<1>27. CASE CallbackForces
  BY <1>27, <1>labels DEF CallbackForces
<1>28. CASE UNCHANGED vars
  BY <1>28 DEF vars
<1>29. QED
  BY <1>1, <1>2, <1>3, <1>4, <1>5, <1>6, <1>7, <1>8, <1>9, <1>10, <1>11,
     <1>12, <1>13, <1>14, <1>15, <1>16, <1>17, <1>18, <1>19, <1>20, <1>21, <1>22,
     <1>23, <1>24, <1>25, <1>26, <1>27, <1>28
  DEF Next, Progress, Ask, Terminated

\* Every step but the callback's keeps the servers of started clusters up.
LEMMA UpNext ==
  ASSUME TypeOK, WantInv, MutexInv, BlankInv, UpInv, [Next]_vars
  PROVE  UpInv'
<1> USE Names DEF TypeOK, UpInv, Guarding, threadVars, singletonVars, serverVars
<1>labels. /\ \A l \in {"worker", "enter", "attempt", "apply", "starting", "giveup", "drop",
                        "unwind"} :
                l \in Initializing \ {"leak"} /\ l \notin Registering \cup {"leak"}
           /\ \A l \in {"register", "build"} : l \in Registering /\ l \notin Initializing
           /\ \A l \in {"idle", "lock", "ended"} : l \notin Initializing \cup Registering
  BY DEF Registering, Initializing
<1>1. ASSUME NEW t \in Threads, LockShared(t), UNCHANGED exit PROVE UpInv'
  BY <1>1, <1>labels DEF LockShared, Return, Goto
<1>2. ASSUME NEW t \in Threads, CheckWorker(t), UNCHANGED exit PROVE UpInv'
  BY <1>2, <1>labels DEF CheckWorker, Goto
<1>3. ASSUME NEW t \in Threads, WorkerMissing(t), UNCHANGED exit PROVE UpInv'
  <2>1. want[t] = t \/ want[t] \in Singletons
    BY <1>3, <1>labels DEF WorkerMissing, WantInv
  <2>2. guards[want[t]].env = 0
    BY <1>3 DEF WorkerMissing, BlankInv, NoGuards
  <2>3. QED
    BY <1>3, <2>1, <2>2, <1>labels DEF WorkerMissing, Settle, Return, Goto
<1>4. ASSUME NEW t \in Threads, EnterWorker(t), UNCHANGED exit PROVE UpInv'
  BY <1>4, <1>labels DEF EnterWorker, Goto
<1>5. ASSUME NEW t \in Threads, Bootstrap(t), UNCHANGED exit PROVE UpInv'
  BY <1>5, <1>labels DEF Bootstrap, Goto
<1>6. ASSUME NEW t \in Threads, ApplyEnv(t), UNCHANGED exit PROVE UpInv'
  <2>1. want[t] = t \/ want[t] \in Singletons
    BY <1>6, <1>labels DEF ApplyEnv, WantInv
  <2>2. \A c \in Clusters : c # want[t] => guards'[c] = guards[c]
    BY <1>6 DEF ApplyEnv
  <2>3. QED
    BY <1>6, <2>1, <2>2, <1>labels DEF ApplyEnv, Goto
<1>7. ASSUME NEW t \in Threads, Started(t), UNCHANGED exit PROVE UpInv'
  BY <1>7, <1>labels DEF Started, Return, Goto
<1>8. ASSUME NEW t \in Threads, BootstrapFails(t), UNCHANGED exit PROVE UpInv'
  BY <1>8, <1>labels DEF BootstrapFails, RetryOrGiveUp, Goto
<1>9. ASSUME NEW t \in Threads, StartFails(t), UNCHANGED exit PROVE UpInv'
  <2>1. want[t] = t \/ want[t] \in Singletons
    BY <1>9, <1>labels DEF StartFails, WantInv
  <2>2. \A c \in Clusters : guards'[c].env = IF c = want[t] THEN 0 ELSE guards[c].env
    BY <1>9 DEF StartFails
  <2>3. QED
    BY <1>9, <2>1, <2>2, <1>labels DEF StartFails, RetryOrGiveUp, Goto
<1>10. ASSUME NEW t \in Threads, GiveUp(t), UNCHANGED exit PROVE UpInv'
  <2>1. want[t] = t \/ want[t] \in Singletons
    BY <1>10, <1>labels DEF GiveUp, WantInv
  <2>2. guards[want[t]].env = 0 /\ \A c \in Clusters : guards'[c].env = guards[c].env
    BY <1>10 DEF GiveUp, BlankInv
  <2>3. QED
    BY <1>10, <2>1, <2>2, <1>labels DEF GiveUp, Settle, Return, Goto
<1>11. ASSUME NEW t \in Threads, Reserve(t), UNCHANGED exit PROVE UpInv'
  BY <1>11, <1>labels DEF Reserve, AfterRegistration, Return, Goto
<1>12. ASSUME NEW t \in Threads, Commit(t), UNCHANGED exit PROVE UpInv'
  BY <1>12, <1>labels DEF Commit, AfterRegistration, Return, Goto
<1>13. ASSUME NEW t \in Threads, BuildFails(t), UNCHANGED exit PROVE UpInv'
  BY <1>13, <1>labels DEF BuildFails, AfterRegistration, Return, Goto
<1>14. ASSUME NEW t \in Threads, Leak(t), UNCHANGED exit PROVE UpInv'
  BY <1>14, <1>labels DEF Leak, Settle, Return, Goto
<1>15. ASSUME NEW t \in Threads, DropOwn(t), UNCHANGED exit PROVE UpInv'
  BY <1>15, <1>labels DEF DropOwn, Own, Goto
<1>16. ASSUME NEW t \in Threads, Shutdown(t), UNCHANGED exit PROVE UpInv'
  <2>1. Guarding(t) /\ \A u \in Threads \ {t} : Guarding(u) => want[u] # want[t]
    BY <1>16, <1>labels, Distinct DEF Shutdown
  <2>2. UNCHANGED <<want, guards, mutex, exit>> /\ pc' = [pc EXCEPT ![t] = "unwind"]
    BY <1>16 DEF Shutdown, Goto
  <2>3. \A c \in Clusters : c # want[t] => postmaster'[c] = postmaster[c]
    BY <1>16 DEF Shutdown
  <2>4. ASSUME NEW u \in Threads, exit = "no", guards[u].env # 0,
               want[u] = u => pc'[u] \notin Initializing \ {"leak"}
        PROVE  postmaster'[u] # "absent"
    <3>1. want[t] # u
      BY <2>1, <2>2, <2>4, <1>labels
    <3>2. want[u] = u => pc[u] \notin Initializing \ {"leak"}
      BY <2>2, <2>4, <3>1
    <3>3. QED
      BY <2>3, <2>4, <3>1, <3>2
  <2>5. ASSUME NEW u \in Threads, exit = "no", pc'[u] \in Registering \cup {"leak"}, Guarding(u)
        PROVE  postmaster'[want[u]] # "absent"
    <3>1. u # t
      BY <2>2, <2>5, <1>labels
    <3>2. want[u] # want[t] /\ want[u] \in Clusters
      BY <2>1, <2>5, <3>1, Distinct
    <3>3. QED
      BY <2>2, <2>3, <2>5, <3>1, <3>2
  <2>6. QED
    BY <2>2, <2>4, <2>5
<1>17. ASSUME NEW t \in Threads, DropWorkerGuard(t), UNCHANGED exit PROVE UpInv'
  BY <1>17, <1>labels DEF DropWorkerGuard
<1>18. ASSUME NEW t \in Threads, DropEnvGuard(t), UNCHANGED exit PROVE UpInv'
  <2>1. want[t] = t \/ want[t] \in Singletons
    BY <1>18, <1>labels DEF DropEnvGuard, WantInv
  <2>2. \A c \in Clusters : guards'[c].env = IF c = want[t] THEN 0 ELSE guards[c].env
    BY <1>18 DEF DropEnvGuard, NoGuards
  <2>3. QED
    BY <1>18, <2>1, <2>2, <1>labels DEF DropEnvGuard, Settle, Return, Goto
<1>19. ASSUME NEW t \in Threads, EndThread(t), UNCHANGED exit PROVE UpInv'
  <2>1. \A c \in Clusters : guards'[c].env \in {guards[c].env, 0}
    BY <1>19 DEF EndThread, NoGuards
  <2>2. QED
    BY <1>19, <2>1, <1>labels DEF EndThread, Goto
<1>20. ASSUME NEW t \in Threads, NEW c \in Clusters, Request(t, c), UNCHANGED exit PROVE UpInv'
  BY <1>20, <1>labels DEF Request, Goto
<1>21. ASSUME NEW t \in Threads, NEW c \in Clusters, RegisterHandle(t, c), UNCHANGED exit
      PROVE UpInv'
  <2>1. \A u \in Threads : /\ pc'[u] = IF u = t THEN "register" ELSE pc[u]
                           /\ want'[u] = IF u = t THEN c ELSE want[u]
    BY <1>21 DEF RegisterHandle, Goto
  <2>2. c = t => postmaster[t] # "absent" \/ exit # "no"
    BY <1>21, <1>labels DEF RegisterHandle, Own
  <2>3. c \in Singletons => mutex[c] # t
    BY <1>21 DEF RegisterHandle, MutexInv
  <2>4. UNCHANGED <<guards, postmaster, mutex, exit>>
    BY <1>21 DEF RegisterHandle
  <2>5. pc[t] = "idle"
    BY <1>21 DEF RegisterHandle
  <2>6. QED
    BY <2>1, <2>2, <2>3, <2>4, <2>5, <1>labels
<1>22. ASSUME NEW c \in Clusters, Crash(c) PROVE UpInv'
  BY <1>22, <1>labels DEF Crash
<1>23. CASE BeginExit
  BY <1>23, <1>labels DEF BeginExit
<1>24. CASE Callback
  BY <1>24, <1>labels DEF Callback
<1>25. CASE ServerObeys
  BY <1>25, <1>labels DEF ServerObeys
<1>26. CASE CallbackStopped
  BY <1>26, <1>labels DEF CallbackStopped
<1>27. CASE CallbackForces
  BY <1>27, <1>labels DEF CallbackForces
<1>28. CASE UNCHANGED vars
  BY <1>28 DEF vars
<1>29. QED
  BY <1>1, <1>2, <1>3, <1>4, <1>5, <1>6, <1>7, <1>8, <1>9, <1>10, <1>11,
     <1>12, <1>13, <1>14, <1>15, <1>16, <1>17, <1>18, <1>19, <1>20, <1>21, <1>22,
     <1>23, <1>24, <1>25, <1>26, <1>27, <1>28
  DEF Next, Progress, Ask, Terminated

\* Every step keeps published clusters up, with the hook armed.
LEMMA PublishedNext ==
  ASSUME TypeOK, WantInv, MutexInv, BuildInv, UpInv, LeakInv, PublishedStaysUp, [Next]_vars
  PROVE  PublishedStaysUp'
<1> USE DEF TypeOK, PublishedStaysUp, hookVars, serverVars
<1>1. ASSUME NEW t \in Threads, LockShared(t), UNCHANGED exit PROVE PublishedStaysUp'
  BY <1>1 DEF LockShared
<1>2. ASSUME NEW t \in Threads, CheckWorker(t), UNCHANGED exit PROVE PublishedStaysUp'
  BY <1>2 DEF CheckWorker
<1>3. ASSUME NEW t \in Threads, WorkerMissing(t), UNCHANGED exit PROVE PublishedStaysUp'
  BY <1>3 DEF WorkerMissing
<1>4. ASSUME NEW t \in Threads, EnterWorker(t), UNCHANGED exit PROVE PublishedStaysUp'
  BY <1>4 DEF EnterWorker
<1>5. ASSUME NEW t \in Threads, Bootstrap(t), UNCHANGED exit PROVE PublishedStaysUp'
  BY <1>5 DEF Bootstrap
<1>6. ASSUME NEW t \in Threads, ApplyEnv(t), UNCHANGED exit PROVE PublishedStaysUp'
  BY <1>6 DEF ApplyEnv
<1>7. ASSUME NEW t \in Threads, Started(t), UNCHANGED exit PROVE PublishedStaysUp'
  BY <1>7 DEF Started
<1>8. ASSUME NEW t \in Threads, BootstrapFails(t), UNCHANGED exit PROVE PublishedStaysUp'
  BY <1>8 DEF BootstrapFails
<1>9. ASSUME NEW t \in Threads, StartFails(t), UNCHANGED exit PROVE PublishedStaysUp'
  BY <1>9 DEF StartFails
<1>10. ASSUME NEW t \in Threads, GiveUp(t), UNCHANGED exit PROVE PublishedStaysUp'
  BY <1>10 DEF GiveUp
<1>11. ASSUME NEW t \in Threads, Reserve(t), UNCHANGED exit PROVE PublishedStaysUp'
  BY <1>11 DEF Reserve
<1>12. ASSUME NEW t \in Threads, Commit(t), UNCHANGED exit PROVE PublishedStaysUp'
  BY <1>12 DEF Commit
<1>13. ASSUME NEW t \in Threads, BuildFails(t), UNCHANGED exit PROVE PublishedStaysUp'
  BY <1>13 DEF BuildFails, BuildInv
<1>14. ASSUME NEW t \in Threads, Leak(t), UNCHANGED exit PROVE PublishedStaysUp'
  <2>1. hook = "Registered"
    BY <1>14 DEF Leak, BuildInv
  <2>2. Guarding(t) /\ want[t] \in Clusters
    BY <1>14, Distinct DEF Leak, Initializing
  <2>3. exit = "no" => postmaster[want[t]] # "absent"
    BY <1>14, <2>2 DEF Leak, UpInv
  <2>4. QED
    BY <1>14, <2>1, <2>3 DEF Leak
<1>15. ASSUME NEW t \in Threads, DropOwn(t), UNCHANGED exit PROVE PublishedStaysUp'
  BY <1>15 DEF DropOwn
<1>16. ASSUME NEW t \in Threads, Shutdown(t), UNCHANGED exit PROVE PublishedStaysUp'
  <2>1. want[t] \notin leaked
    BY <1>16, Distinct DEF Shutdown, LeakInv, Initializing
  <2>2. QED
    BY <1>16, <2>1 DEF Shutdown
<1>17. ASSUME NEW t \in Threads, DropWorkerGuard(t), UNCHANGED exit PROVE PublishedStaysUp'
  BY <1>17 DEF DropWorkerGuard
<1>18. ASSUME NEW t \in Threads, DropEnvGuard(t), UNCHANGED exit PROVE PublishedStaysUp'
  BY <1>18 DEF DropEnvGuard
<1>19. ASSUME NEW t \in Threads, EndThread(t), UNCHANGED exit PROVE PublishedStaysUp'
  BY <1>19 DEF EndThread
<1>20. ASSUME NEW t \in Threads, NEW c \in Clusters, Request(t, c), UNCHANGED exit
      PROVE PublishedStaysUp'
  BY <1>20 DEF Request
<1>21. ASSUME NEW t \in Threads, NEW c \in Clusters, RegisterHandle(t, c), UNCHANGED exit
      PROVE PublishedStaysUp'
  BY <1>21 DEF RegisterHandle
<1>22. ASSUME NEW c \in Clusters, Crash(c) PROVE PublishedStaysUp'
  BY <1>22 DEF Crash
<1>23. CASE BeginExit
  BY <1>23 DEF BeginExit
<1>24. CASE Callback
  BY <1>24 DEF Callback
<1>25. CASE ServerObeys
  BY <1>25 DEF ServerObeys
<1>26. CASE CallbackStopped
  BY <1>26 DEF CallbackStopped
<1>27. CASE CallbackForces
  BY <1>27 DEF CallbackForces
<1>28. CASE UNCHANGED vars
  BY <1>28 DEF vars
<1>29. QED
  BY <1>1, <1>2, <1>3, <1>4, <1>5, <1>6, <1>7, <1>8, <1>9, <1>10, <1>11,
     <1>12, <1>13, <1>14, <1>15, <1>16, <1>17, <1>18, <1>19, <1>20, <1>21, <1>22,
     <1>23, <1>24, <1>25, <1>26, <1>27, <1>28
  DEF Next, Progress, Ask, Terminated

\* Every step keeps the data directory of a server that is up, and the hooked
\* server down once the callback is through.
LEMMA ServerNext ==
  ASSUME TypeOK, WantInv, MutexInv, BuildInv, DataOutlivesServer, CallbackStopsServer, [Next]_vars
  PROVE  DataOutlivesServer' /\ CallbackStopsServer'
<1> USE DEF TypeOK, DataOutlivesServer, CallbackStopsServer, hookVars, serverVars
<1>hooked. exit \in {"callback", "stopping"} => hooked \in Clusters
  BY DEF BuildInv
<1>over. ASSUME ~Over, UNCHANGED exit PROVE CallbackStopsServer'
  BY <1>over DEF Over
<1>1. ASSUME NEW t \in Threads, LockShared(t), ~Over, UNCHANGED exit
      PROVE DataOutlivesServer' /\ CallbackStopsServer'
  BY <1>1, <1>over DEF LockShared
<1>2. ASSUME NEW t \in Threads, CheckWorker(t), ~Over, UNCHANGED exit
      PROVE DataOutlivesServer' /\ CallbackStopsServer'
  BY <1>2, <1>over DEF CheckWorker
<1>3. ASSUME NEW t \in Threads, WorkerMissing(t), ~Over, UNCHANGED exit
      PROVE DataOutlivesServer' /\ CallbackStopsServer'
  BY <1>3, <1>over DEF WorkerMissing
<1>4. ASSUME NEW t \in Threads, EnterWorker(t), ~Over, UNCHANGED exit
      PROVE DataOutlivesServer' /\ CallbackStopsServer'
  BY <1>4, <1>over DEF EnterWorker
<1>5. ASSUME NEW t \in Threads, Bootstrap(t), ~Over, UNCHANGED exit
      PROVE DataOutlivesServer' /\ CallbackStopsServer'
  BY <1>5, <1>over DEF Bootstrap
<1>6. ASSUME NEW t \in Threads, ApplyEnv(t), ~Over, UNCHANGED exit
      PROVE DataOutlivesServer' /\ CallbackStopsServer'
  BY <1>6, <1>over DEF ApplyEnv
<1>7. ASSUME NEW t \in Threads, Started(t), ~Over, UNCHANGED exit
      PROVE DataOutlivesServer' /\ CallbackStopsServer'
  <2>1. want[t] \in Clusters
    BY <1>7, Distinct DEF Started, Initializing
  <2>2. QED
    BY <1>7, <2>1, <1>over DEF Started
<1>8. ASSUME NEW t \in Threads, BootstrapFails(t), ~Over, UNCHANGED exit
      PROVE DataOutlivesServer' /\ CallbackStopsServer'
  BY <1>8, <1>over DEF BootstrapFails
<1>9. ASSUME NEW t \in Threads, StartFails(t), ~Over, UNCHANGED exit
      PROVE DataOutlivesServer' /\ CallbackStopsServer'
  BY <1>9, <1>over DEF StartFails
<1>10. ASSUME NEW t \in Threads, GiveUp(t), ~Over, UNCHANGED exit
      PROVE DataOutlivesServer' /\ CallbackStopsServer'
  BY <1>10, <1>over DEF GiveUp
<1>11. ASSUME NEW t \in Threads, Reserve(t), ~Over, UNCHANGED exit
      PROVE DataOutlivesServer' /\ CallbackStopsServer'
  BY <1>11, <1>over DEF Reserve
<1>12. ASSUME NEW t \in Threads, Commit(t), ~Over, UNCHANGED exit
      PROVE DataOutlivesServer' /\ CallbackStopsServer'
  BY <1>12, <1>over DEF Commit
<1>13. ASSUME NEW t \in Threads, BuildFails(t), ~Over, UNCHANGED exit
      PROVE DataOutlivesServer' /\ CallbackStopsServer'
  BY <1>13, <1>over DEF BuildFails
<1>14. ASSUME NEW t \in Threads, Leak(t), ~Over, UNCHANGED exit
      PROVE DataOutlivesServer' /\ CallbackStopsServer'
  BY <1>14, <1>over DEF Leak
<1>15. ASSUME NEW t \in Threads, DropOwn(t), ~Over, UNCHANGED exit
      PROVE DataOutlivesServer' /\ CallbackStopsServer'
  BY <1>15, <1>over DEF DropOwn
<1>16. ASSUME NEW t \in Threads, Shutdown(t), ~Over, UNCHANGED exit
      PROVE DataOutlivesServer' /\ CallbackStopsServer'
  <2>1. want[t] \in Clusters
    BY <1>16, Distinct DEF Shutdown, Initializing
  <2>2. QED
    BY <1>16, <2>1, <1>over DEF Shutdown, Clean
<1>17. ASSUME NEW t \in Threads, DropWorkerGuard(t), ~Over, UNCHANGED exit
      PROVE DataOutlivesServer' /\ CallbackStopsServer'
  BY <1>17, <1>over DEF DropWorkerGuard
<1>18. ASSUME NEW t \in Threads, DropEnvGuard(t), ~Over, UNCHANGED exit
      PROVE DataOutlivesServer' /\ CallbackStopsServer'
  BY <1>18, <1>over DEF DropEnvGuard
<1>19. ASSUME NEW t \in Threads, EndThread(t), ~Over, UNCHANGED exit
      PROVE DataOutlivesServer' /\ CallbackStopsServer'
  BY <1>19, <1>over DEF EndThread
<1>20. ASSUME NEW t \in Threads, NEW c \in Clusters, Request(t, c), ~Over, UNCHANGED exit
      PROVE DataOutlivesServer' /\ CallbackStopsServer'
  BY <1>20, <1>over DEF Request
<1>21. ASSUME NEW t \in Threads, NEW c \in Clusters, RegisterHandle(t, c), ~Over, UNCHANGED exit
      PROVE DataOutlivesServer' /\ CallbackStopsServer'
  BY <1>21, <1>over DEF RegisterHandle
<1>22. ASSUME NEW c \in Clusters, Crash(c) PROVE DataOutlivesServer' /\ CallbackStopsServer'
  BY <1>22 DEF Crash
<1>23. CASE BeginExit
  BY <1>23 DEF BeginExit
<1>24. CASE Callback
  BY <1>24, <1>hooked DEF Callback, Clean
<1>25. CASE ServerObeys
  BY <1>25, <1>hooked DEF ServerObeys
<1>26. CASE CallbackStopped
  BY <1>26, <1>hooked DEF CallbackStopped, Clean
<1>27. CASE CallbackForces
  BY <1>27, <1>hooked DEF CallbackForces, Clean
<1>28. CASE UNCHANGED vars
  BY <1>28 DEF vars
<1>29. QED
  BY <1>1, <1>2, <1>3, <1>4, <1>5, <1>6, <1>7, <1>8, <1>9, <1>10, <1>11,
     <1>12, <1>13, <1>14, <1>15, <1>16, <1>17, <1>18, <1>19, <1>20, <1>21, <1>22,
     <1>23, <1>24, <1>25, <1>26, <1>27, <1>28
  DEF Next, Progress, Ask, Terminated

\* Every step keeps the servers of singletons that are not made yet unstarted.
LEMMA UnstartedNext ==
  ASSUME TypeOK, WantInv, MutexInv, UnstartedInv, [Next]_vars
  PROVE  UnstartedInv'
<1> USE Names DEF TypeOK, UnstartedInv, Unstarted, threadVars, singletonVars, serverVars
<1>labels. \A l \in {"worker", "enter", "attempt", "apply", "starting", "giveup", "leak", "drop",
                     "unwind"} : l \in Initializing
  BY DEF Initializing
<1>alone. ASSUME NEW t \in Threads, pc[t] \in Initializing, NEW u \in Threads \ {t},
                 pc[u] \in Unstarted, want[u] \in Singletons
          PROVE  want[u] # want[t]
  BY <1>alone, <1>labels DEF MutexInv
<1>after. ASSUME NEW t \in Threads, NEW l \in {"leak", "drop"}, AfterRegistration(t, l),
                 UNCHANGED <<mutex, shared, postmaster>>
          PROVE  UnstartedInv'
  <2>1. \A u \in Threads : u # t => pc'[u] = pc[u] /\ want'[u] = want[u]
    BY <1>after DEF AfterRegistration, Return, Goto
  <2>2. pc'[t] \in {l, "idle"}
    BY <1>after DEF AfterRegistration, Return, Goto
  <2>3. QED
    BY <1>after, <2>1, <2>2
<1>1. ASSUME NEW t \in Threads, LockShared(t), UNCHANGED exit PROVE UnstartedInv'
  BY <1>1 DEF LockShared, Return, Goto
<1>2. ASSUME NEW t \in Threads, CheckWorker(t), UNCHANGED exit PROVE UnstartedInv'
  BY <1>2 DEF CheckWorker, Goto
<1>3. ASSUME NEW t \in Threads, WorkerMissing(t), UNCHANGED exit PROVE UnstartedInv'
  <2>1. Return(t) /\ UNCHANGED postmaster /\ pc[t] \in Initializing
    BY <1>3, <1>labels DEF WorkerMissing
  <2>2. Settle(t, "Uninitialized")
    BY <1>3 DEF WorkerMissing
  <2>3. want[t] \in Singletons => postmaster[want[t]] = "absent"
    BY <1>3 DEF WorkerMissing
  <2>4. QED
    BY <2>1, <2>2, <2>3 DEF Settle, Return, Goto
<1>4. ASSUME NEW t \in Threads, EnterWorker(t), UNCHANGED exit PROVE UnstartedInv'
  BY <1>4 DEF EnterWorker, Goto
<1>5. ASSUME NEW t \in Threads, Bootstrap(t), UNCHANGED exit PROVE UnstartedInv'
  BY <1>5 DEF Bootstrap, Goto
<1>6. ASSUME NEW t \in Threads, ApplyEnv(t), UNCHANGED exit PROVE UnstartedInv'
  BY <1>6 DEF ApplyEnv, Goto
<1>7. ASSUME NEW t \in Threads, Started(t), UNCHANGED exit PROVE UnstartedInv'
  <2>1. \A u \in Threads : pc'[u] \in Unstarted => u # t /\ pc[u] = pc'[u] /\ want'[u] = want[u]
    BY <1>7 DEF Started, Return, Goto
  <2>2. pc[t] \in Initializing /\ UNCHANGED <<mutex, shared>>
    BY <1>7, <1>labels DEF Started
  <2>3. \A c \in Clusters : c # want[t] => postmaster'[c] = postmaster[c]
    BY <1>7 DEF Started
  <2>4. want[t] \in Singletons => mutex[want[t]] = t
    BY <2>2 DEF MutexInv
  <2>5. QED
    BY <2>1, <2>2, <2>3, <2>4, <1>alone
<1>8. ASSUME NEW t \in Threads, BootstrapFails(t), UNCHANGED exit PROVE UnstartedInv'
  BY <1>8 DEF BootstrapFails, RetryOrGiveUp, Goto
<1>9. ASSUME NEW t \in Threads, StartFails(t), UNCHANGED exit PROVE UnstartedInv'
  BY <1>9 DEF StartFails, RetryOrGiveUp, Goto
<1>10. ASSUME NEW t \in Threads, GiveUp(t), UNCHANGED exit PROVE UnstartedInv'
  <2>1. Return(t) /\ UNCHANGED postmaster /\ pc[t] \in Initializing
    BY <1>10, <1>labels DEF GiveUp
  <2>2. Settle(t, "Failed")
    BY <1>10 DEF GiveUp
  <2>3. QED
    BY <2>1, <2>2 DEF Settle, Return, Goto
<1>11. ASSUME NEW t \in Threads, Reserve(t), UNCHANGED exit PROVE UnstartedInv'
  <2>1. CASE hook = "Registered"
    BY <1>11, <2>1, <1>after DEF Reserve
  <2>2. CASE hook # "Registered"
    BY <1>11, <2>2 DEF Reserve, Goto
  <2>3. QED
    BY <2>1, <2>2
<1>12. ASSUME NEW t \in Threads, Commit(t), UNCHANGED exit PROVE UnstartedInv'
  BY <1>12, <1>after DEF Commit
<1>13. ASSUME NEW t \in Threads, BuildFails(t), UNCHANGED exit PROVE UnstartedInv'
  BY <1>13, <1>after DEF BuildFails
<1>14. ASSUME NEW t \in Threads, Leak(t), UNCHANGED exit PROVE UnstartedInv'
  <2>1. Return(t) /\ UNCHANGED postmaster /\ pc[t] \in Initializing
    BY <1>14, <1>labels DEF Leak
  <2>2. Settle(t, "Initialized")
    BY <1>14 DEF Leak
  <2>3. QED
    BY <2>1, <2>2 DEF Settle, Return, Goto
<1>15. ASSUME NEW t \in Threads, DropOwn(t), UNCHANGED exit PROVE UnstartedInv'
  BY <1>15 DEF DropOwn, Goto
<1>16. ASSUME NEW t \in Threads, Shutdown(t), UNCHANGED exit PROVE UnstartedInv'
  BY <1>16 DEF Shutdown, Goto
<1>17. ASSUME NEW t \in Threads, DropWorkerGuard(t), UNCHANGED exit PROVE UnstartedInv'
  BY <1>17 DEF DropWorkerGuard
<1>18. ASSUME NEW t \in Threads, DropEnvGuard(t), UNCHANGED exit PROVE UnstartedInv'
  <2>1. Return(t) /\ UNCHANGED postmaster /\ pc[t] \in Initializing
    BY <1>18, <1>labels DEF DropEnvGuard
  <2>2. Settle(t, "Failed")
    BY <1>18 DEF DropEnvGuard
  <2>3. QED
    BY <2>1, <2>2 DEF Settle, Return, Goto
<1>19. ASSUME NEW t \in Threads, EndThread(t), UNCHANGED exit PROVE UnstartedInv'
  BY <1>19 DEF EndThread, Goto
<1>20. ASSUME NEW t \in Threads, NEW c \in Clusters, Request(t, c), UNCHANGED exit
      PROVE UnstartedInv'
  BY <1>20 DEF Request, Goto
<1>21. ASSUME NEW t \in Threads, NEW c \in Clusters, RegisterHandle(t, c), UNCHANGED exit
      PROVE UnstartedInv'
  BY <1>21 DEF RegisterHandle, Goto
<1>22. ASSUME NEW c \in Clusters, Crash(c) PROVE UnstartedInv'
  BY <1>22 DEF Crash
<1>23. CASE BeginExit
  BY <1>23 DEF BeginExit
<1>24. CASE Callback
  BY <1>24 DEF Callback
<1>25. CASE ServerObeys
  BY <1>25 DEF ServerObeys
<1>26. CASE CallbackStopped
  BY <1>26 DEF CallbackStopped
<1>27. CASE CallbackForces
  BY <1>27 DEF CallbackForces
<1>28. CASE UNCHANGED vars
  BY <1>28 DEF vars
<1>29. QED
  BY <1>1, <1>2, <1>3, <1>4, <1>5, <1>6, <1>7, <1>8, <1>9, <1>10, <1>11,
     <1>12, <1>13, <1>14, <1>15, <1>16, <1>17, <1>18, <1>19, <1>20, <1>21, <1>22,
     <1>23, <1>24, <1>25, <1>26, <1>27, <1>28
  DEF Next, Progress, Ask, Terminated

-----------------------------------------------------------------------------
(* The refinement: singletons implement SharedService.                     *)

\* At first nothing is made, started or registered.
LEMMA ServiceInitially == Init => Service!ServiceInit
BY Names DEF Init, Service!ServiceInit

\* A thread settles the singleton it has been making.
LEMMA Settling ==
  ASSUME IndInv, NEW t \in Threads, NEW outcome, pc[t] \in Initializing, Settle(t, outcome),
         UNCHANGED <<postmaster, hook, exit>>
  PROVE  \/ want[t] \in Singletons /\ mutex[want[t]] = t /\ Service!Made(want[t], outcome)
         \/ want[t] \notin Singletons /\ UNCHANGED Service!serviceVars
<1>1. CASE want[t] \in Singletons
  <2>1. mutex[want[t]] = t
    BY <1>1 DEF IndInv, MutexInv
  <2>2. QED
    BY <1>1, <2>1, Names DEF Settle, Service!Made
<1>2. CASE want[t] \notin Singletons
  BY <1>2 DEF Settle, singletonVars, Service!serviceVars
<1>3. QED
  BY <1>1, <1>2

\* Every step maps to a step of SharedService or changes nothing of it.
LEMMA ServiceStep == IndInv /\ [Next]_vars => [Service!ServiceNext]_(Service!serviceVars)
<1> SUFFICES ASSUME IndInv, [Next]_vars PROVE [Service!ServiceNext]_(Service!serviceVars)
  OBVIOUS
<1> USE DEF threadVars, singletonVars, hookVars, serverVars, Service!serviceVars
<1>labels. \A l \in {"worker", "enter", "attempt", "apply", "starting", "giveup", "leak", "drop",
                     "unwind"} : l \in Initializing
  BY DEF Initializing
<1>types. /\ mutex \in [Singletons -> Threads \cup {None}]
          /\ postmaster \in [Clusters -> {"absent", "live", "dead", "stranger"}]
          /\ \A c \in Singletons : c \in Clusters
  BY Names DEF IndInv, TypeOK
<1>1. ASSUME NEW t \in Threads, LockShared(t), UNCHANGED exit
      PROVE (\E c \in Singletons : Service!Begin(c, t)) \/ UNCHANGED Service!serviceVars
  <2>1. want[t] \in Singletons
    BY <1>1 DEF LockShared, IndInv, WantInv
  <2>2. QED
    BY <1>1, <2>1 DEF LockShared, Service!Begin
<1>2. ASSUME NEW t \in Threads, CheckWorker(t), UNCHANGED exit
      PROVE UNCHANGED Service!serviceVars
  BY <1>2 DEF CheckWorker
<1>3. ASSUME NEW t \in Threads, WorkerMissing(t), UNCHANGED exit
      PROVE (\E c \in Singletons : Service!Abort(c)) \/ UNCHANGED Service!serviceVars
  <2>1. pc[t] \in Initializing /\ pc[t] \in Unstarted /\ Settle(t, "Uninitialized")
    BY <1>3, <1>labels DEF WorkerMissing, Unstarted
  <2>2. UNCHANGED <<postmaster, hook, exit>>
    BY <1>3 DEF WorkerMissing
  <2>3. want[t] \in Singletons => postmaster[want[t]] = "absent"
    BY <2>1 DEF IndInv, UnstartedInv
  <2>4. QED
    BY <2>1, <2>2, <2>3, Settling DEF Service!Abort
<1>4. ASSUME NEW t \in Threads, EnterWorker(t), UNCHANGED exit
      PROVE UNCHANGED Service!serviceVars
  BY <1>4 DEF EnterWorker
<1>5. ASSUME NEW t \in Threads, Bootstrap(t), UNCHANGED exit
      PROVE UNCHANGED Service!serviceVars
  BY <1>5 DEF Bootstrap
<1>6. ASSUME NEW t \in Threads, ApplyEnv(t), UNCHANGED exit
      PROVE UNCHANGED Service!serviceVars
  BY <1>6 DEF ApplyEnv
<1>7. ASSUME NEW t \in Threads, Started(t), UNCHANGED exit
      PROVE (\E c \in Singletons : Service!Start(c)) \/ UNCHANGED Service!serviceVars
  <2>1. /\ UNCHANGED <<shared, mutex, hook, exit>>
        /\ postmaster' = [postmaster EXCEPT ![want[t]] = "live"]
    BY <1>7 DEF Started
  <2>2. CASE want[t] \in Singletons
    <3>1. pc[t] \in Unstarted /\ pc[t] \in Initializing
      BY <1>7, <1>labels DEF Started, Unstarted
    <3>2. mutex[want[t]] # None /\ postmaster[want[t]] = "absent"
      BY <2>2, <3>1, Names DEF IndInv, MutexInv, UnstartedInv
    <3>3. QED
      BY <2>1, <2>2, <3>2, <1>types DEF Service!Start
  <2>3. CASE want[t] \notin Singletons
    BY <2>1, <2>3, <1>types
  <2>4. QED
    BY <2>2, <2>3
<1>8. ASSUME NEW t \in Threads, BootstrapFails(t), UNCHANGED exit
      PROVE UNCHANGED Service!serviceVars
  BY <1>8 DEF BootstrapFails
<1>9. ASSUME NEW t \in Threads, StartFails(t), UNCHANGED exit
      PROVE UNCHANGED Service!serviceVars
  BY <1>9 DEF StartFails
<1>10. ASSUME NEW t \in Threads, GiveUp(t), UNCHANGED exit
      PROVE (\E c \in Singletons : Service!Fail(c)) \/ UNCHANGED Service!serviceVars
  <2>1. pc[t] \in Initializing /\ Settle(t, "Failed") /\ UNCHANGED <<postmaster, hook, exit>>
    BY <1>10, <1>labels DEF GiveUp
  <2>2. QED
    BY <2>1, Settling DEF Service!Fail
<1>11. ASSUME NEW t \in Threads, Reserve(t), UNCHANGED exit
      PROVE UNCHANGED Service!serviceVars
  BY <1>11 DEF Reserve
<1>12. ASSUME NEW t \in Threads, Commit(t), UNCHANGED exit
      PROVE Service!Arm
  BY <1>12 DEF Commit, Service!Arm
<1>13. ASSUME NEW t \in Threads, BuildFails(t), UNCHANGED exit
      PROVE UNCHANGED Service!serviceVars
  <2>1. hook = "Registering"
    BY <1>13 DEF BuildFails, IndInv, BuildInv
  <2>2. QED
    BY <1>13, <2>1 DEF BuildFails
<1>14. ASSUME NEW t \in Threads, Leak(t), UNCHANGED exit
      PROVE (\E c \in Singletons : Service!Publish(c)) \/ UNCHANGED Service!serviceVars
  <2>1. pc[t] \in Initializing /\ Settle(t, "Initialized") /\ UNCHANGED <<postmaster, hook, exit>>
    BY <1>14, <1>labels DEF Leak
  <2>2. hook = "Registered"
    BY <1>14 DEF Leak, IndInv, BuildInv
  <2>3. want[t] \in Singletons /\ mutex[want[t]] = t /\ exit = "no" => postmaster[want[t]] # "absent"
    BY <1>14 DEF Leak, IndInv, UpInv, Guarding
  <2>4. QED
    BY <2>1, <2>2, <2>3, Settling DEF Service!Publish
<1>15. ASSUME NEW t \in Threads, DropOwn(t), UNCHANGED exit
      PROVE UNCHANGED Service!serviceVars
  BY <1>15 DEF DropOwn
<1>16. ASSUME NEW t \in Threads, Shutdown(t), UNCHANGED exit
      PROVE (\E c \in Singletons : Service!Stop(c)) \/ UNCHANGED Service!serviceVars
  <2>1. /\ UNCHANGED <<shared, mutex, hook, exit>>
        /\ postmaster' \in {postmaster, [postmaster EXCEPT ![want[t]] = "absent"]}
    BY <1>16 DEF Shutdown
  <2>2. CASE want[t] \in Singletons
    <3>1. mutex[want[t]] # None
      BY <1>16, <2>2, <1>labels, Names DEF Shutdown, IndInv, MutexInv
    <3>2. QED
      BY <2>1, <2>2, <3>1, <1>types DEF Service!Stop
  <2>3. CASE want[t] \notin Singletons
    BY <2>1, <2>3, <1>types
  <2>4. QED
    BY <2>2, <2>3
<1>17. ASSUME NEW t \in Threads, DropWorkerGuard(t), UNCHANGED exit
      PROVE UNCHANGED Service!serviceVars
  BY <1>17 DEF DropWorkerGuard
<1>18. ASSUME NEW t \in Threads, DropEnvGuard(t), UNCHANGED exit
      PROVE (\E c \in Singletons : Service!Fail(c)) \/ UNCHANGED Service!serviceVars
  <2>1. pc[t] \in Initializing /\ Settle(t, "Failed") /\ UNCHANGED <<postmaster, hook, exit>>
    BY <1>18, <1>labels DEF DropEnvGuard
  <2>2. QED
    BY <2>1, Settling DEF Service!Fail
<1>19. ASSUME NEW t \in Threads, EndThread(t), UNCHANGED exit
      PROVE UNCHANGED Service!serviceVars
  BY <1>19 DEF EndThread
<1>20. ASSUME NEW t \in Threads, NEW c \in Clusters, Request(t, c), UNCHANGED exit
      PROVE UNCHANGED Service!serviceVars
  BY <1>20 DEF Request
<1>21. ASSUME NEW t \in Threads, NEW c \in Clusters, RegisterHandle(t, c), UNCHANGED exit
      PROVE UNCHANGED Service!serviceVars
  BY <1>21 DEF RegisterHandle
<1>22. ASSUME NEW c \in Clusters, Crash(c) PROVE UNCHANGED Service!serviceVars
  <2>1. {d \in Singletons : postmaster'[d] # "absent"} = {d \in Singletons : postmaster[d] # "absent"}
    BY <1>22, <1>types DEF Crash
  <2>2. QED
    BY <1>22, <2>1 DEF Crash
<1>23. ASSUME BeginExit PROVE Service!BeginExit
  BY <1>23 DEF BeginExit, Service!BeginExit
<1>24. ASSUME Callback PROVE UNCHANGED Service!serviceVars
  BY <1>24 DEF Callback
<1>25. ASSUME ServerObeys
       PROVE  (\E c \in Singletons : Service!Stop(c)) \/ UNCHANGED Service!serviceVars
  <2>1. hook = "Registered" /\ exit # "no"
    BY <1>25 DEF ServerObeys, IndInv, BuildInv
  <2>2. /\ UNCHANGED <<shared, mutex, hook, exit>>
        /\ postmaster' = [postmaster EXCEPT ![hooked] = "absent"]
    BY <1>25 DEF ServerObeys
  <2>3. CASE hooked \in Singletons
    BY <2>1, <2>2, <2>3, <1>types DEF Service!Stop
  <2>4. CASE hooked \notin Singletons
    BY <2>2, <2>4, <1>types
  <2>5. QED
    BY <2>3, <2>4
<1>26. ASSUME CallbackStopped PROVE UNCHANGED Service!serviceVars
  BY <1>26 DEF CallbackStopped
<1>27. ASSUME CallbackForces PROVE UNCHANGED Service!serviceVars
  <2>1. {d \in Singletons : postmaster'[d] # "absent"} = {d \in Singletons : postmaster[d] # "absent"}
    BY <1>27, <1>types DEF CallbackForces
  <2>2. QED
    BY <1>27, <2>1 DEF CallbackForces
<1>28. CASE UNCHANGED vars
  BY <1>28 DEF vars
<1> HIDE DEF threadVars, singletonVars, hookVars, serverVars, Service!serviceVars
<1>29. QED
  BY <1>1, <1>2, <1>3, <1>4, <1>5, <1>6, <1>7, <1>8, <1>9, <1>10, <1>11,
     <1>12, <1>13, <1>14, <1>15, <1>16, <1>17, <1>18, <1>19, <1>20, <1>21, <1>22,
     <1>23, <1>24, <1>25, <1>26, <1>27, <1>28
  DEF Next, Progress, Ask, Terminated, Service!ServiceNext

-----------------------------------------------------------------------------
(* The theorems.                                                           *)

\* Nothing is under way at first.
LEMMA IndInvInit == Init => IndInv
<1> SUFFICES ASSUME Init PROVE IndInv
  OBVIOUS
<1>1. Scoped!Inv
  <2>1. Scoped!Init
    BY DEF Init, Env!Init, Scoped!Init, Env!Content, Scoped!Content
  <2>2. QED
    BY <2>1, Scoped!InvInit, EnvConstants
<1>2. Env!TypeOK
  BY <1>1 DEF Scoped!Inv, Scoped!TypeOK, Env!TypeOK, Env!Content, Scoped!Content,
              Env!Scope, Scoped!Scope
<1>3. TypeOK
  BY <1>2, Names DEF Init, TypeOK, NoGuards
<1>4. WantInv /\ MutexInv /\ BuildInv /\ BlankInv /\ UnstartedInv
  BY Names DEF Init, WantInv, MutexInv, BuildInv, BlankInv, UnstartedInv, Unstarted,
               Initializing, Registering
<1>5. ScopeInv /\ UpInv /\ LeakInv /\ PublishedStaysUp /\ CallbackStopsServer /\ DataOutlivesServer
  BY Names DEF Init, ScopeInv, UpInv, LeakInv, Guarding, Initializing, Registering, NoGuards,
               PublishedStaysUp, CallbackStopsServer, DataOutlivesServer
<1>6. LockAccounted
  <2>1. \A t \in Threads : live[t] = {} /\ holder # t
    BY Names DEF Init, Env!Init
  <2>2. QED
    BY <2>1 DEF LockAccounted
<1>7. QED
  BY <1>1, <1>3, <1>4, <1>5, <1>6 DEF IndInv

\* The invariant holds of the specification.
LEMMA Invariant == Spec => []IndInv
<1>1. ASSUME IndInv, [Next]_vars PROVE IndInv'
  <2> USE <1>1
  <2>1. Scoped!Inv' /\ TypeOK'
    BY EnvNext, TypeNext DEF IndInv
  <2>2. WantInv' /\ MutexInv' /\ BuildInv' /\ BlankInv'
    BY WantNext, MutexNext, BuildNext, BlankNext DEF IndInv
  <2>3. Accounts
    BY AccountsIff DEF IndInv
  <2>4. ScopeInv' /\ Accounts'
    BY <2>3, ScopeNext DEF IndInv
  <2>5. (TypeOK => (LockAccounted <=> Accounts))'
    BY AccountsIff, PTL
  <2>6. LockAccounted'
    BY <2>1, <2>4, <2>5
  <2>7. UpInv' /\ LeakInv' /\ UnstartedInv' /\ PublishedStaysUp'
    BY UpNext, LeakNext, UnstartedNext, PublishedNext DEF IndInv
  <2>8. CallbackStopsServer' /\ DataOutlivesServer'
    BY ServerNext DEF IndInv
  <2>9. QED
    BY <2>1, <2>2, <2>4, <2>6, <2>7, <2>8 DEF IndInv
<1>2. QED
  BY <1>1, IndInvInit, PTL DEF Spec

\* Every reachable state has the types the code's structures have: the attempts
\* stay within the retry policy (retry_transient).
THEOREM SharedTypeCorrect == Spec => []TypeOK
<1>1. IndInv => TypeOK
  BY DEF IndInv
<1>2. QED
  BY <1>1, Invariant, PTL

\* A leaked cluster has the exit hook armed, and until the exit nobody in the
\* process stops its server (leak_shared_handle_after_shutdown_hook).
THEOREM PublishedUp == Spec => []PublishedStaysUp
<1>1. IndInv => PublishedStaysUp
  BY DEF IndInv
<1>2. QED
  BY <1>1, Invariant, PTL

\* The living scopes are exactly those of the guards: no failed attempt, drop or
\* rollback leaves one behind, or closes one that is not its own.
THEOREM ScopesAccounted == Spec => []LockAccounted
<1>1. IndInv => LockAccounted
  BY DEF IndInv
<1>2. QED
  BY <1>1, Invariant, PTL

\* After the callback the hooked server is down, whatever the other threads and
\* crashes did meanwhile (shutdown_callback); unprivileged it may be one whose own drop
\* has removed its postmaster.pid without stopping it.
THEOREM HookedServerDown == Spec => []CallbackStopsServer
<1>1. IndInv => CallbackStopsServer
  BY DEF IndInv
<1>2. QED
  BY <1>1, Invariant, PTL

\* As root no cleanup, by a drop or by the callback, takes the data of a running server.
THEOREM DataKeptForServer == Spec => []DataOutlivesServer
<1>1. IndInv => DataOutlivesServer
  BY DEF IndInv
<1>2. QED
  BY <1>1, Invariant, PTL

\* The singletons implement SharedService: whatever the callers, the failures and the
\* moment of the exit, a server is started once by one maker, published with the hook
\* armed, and not stopped before the exit (get_or_try_init_shared,
\* leak_shared_handle_after_shutdown_hook).
THEOREM ServiceKept == Spec => ImplementsService
<1>1. QED
  BY Invariant, ServiceInitially, ServiceStep, PTL
     DEF Spec, ImplementsService, Service!ServiceSpec
==============================================================================
