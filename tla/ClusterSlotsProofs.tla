------------------------- MODULE ClusterSlotsProofs -------------------------
(***************************************************************************)
(* What holds of ClusterSlots for any number of processes and slots.  The  *)
(* argument rests on who may hold a slot's lock: only the holder of the    *)
(* claim guard takes one (GuardInv), so a lock held by a process means its *)
(* lock file exists (LockInv), a half-made slot stays unlocked             *)
(* (CreatedInv), and what a full cleanup saw when it looked for peers is   *)
(* still true when it removes the install tree (FullInv).                  *)
(***************************************************************************)
EXTENDS ClusterSlots, TLAPS

\* The claim guard is held exactly in the guarded section.
GuardInv == \A p \in Procs : pc[p] \in Guarded <=> guard = p

\* Where a process is: on a slot while it sweeps or claims, on some directory
\* while it owns one.
AtInv == \A p \in Procs :
  /\ pc[p] \in Sweeping \cup {"created", "claimed"} => at[p] \in Slots
  /\ pc[p] \in Owning => at[p] \in Dirs

\* A sweep holds the lock of the slot it looks at.
SweepInv == \A p \in Procs : pc[p] \in Sweeping => lockBy[at[p]] = p

\* A slot that is created and not locked yet is nobody else's business.
CreatedInv == \A p \in Procs : pc[p] = "created" =>
  /\ owner[at[p]] = p
  /\ lockFile[at[p]]
  /\ lockBy[at[p]] = None
  /\ watcher[at[p]] = "none"

\* A name no claim has drawn yet is unused.
FreshInv == \A s \in Slots : owner[s] = None =>
  ~lockFile[s] /\ lockBy[s] = None /\ watcher[s] = "none"

\* A process that holds a slot's lock holds that of an existing file.
LockInv == \A s \in Slots : lockBy[s] \in Procs => lockFile[s]

\* The probe of a full cleanup stays true until the removal.
FullInv == \A p \in Procs : pc[p] = "full" =>
  \A s \in Slots : s # at[p] => lockBy[s] \notin Procs

\* Only a cleanup without the guard strips the tree.
StrippedInv == install = "stripped" => Unguarded # {}

IndInv ==
  /\ TypeOK
  /\ GuardInv
  /\ AtInv
  /\ SweepInv
  /\ CreatedInv
  /\ FreshInv
  /\ LockInv
  /\ FullInv
  /\ StrippedInv
  /\ OwnedSlotIntact
  /\ LiveClusterKeepsData
  /\ InstallKept

-----------------------------------------------------------------------------
(* Type correctness.                                                       *)

USE DEF Dirs, Sweeping, Guarded, Starting, Owning, RunsFromTree, ServerUp

\* The initial state has the types.
LEMMA TypeInit == Init => TypeOK
<1> SUFFICES ASSUME Init PROVE TypeOK
  OBVIOUS
<1>1. /\ pc \in [Procs -> {"idle", "dead"} \cup Guarded \cup Owning]
      /\ at \in [Procs -> Dirs \cup {None}]
      /\ todo \in [Procs -> SUBSET Slots]
      /\ guard \in Procs \cup {None}
  BY DEF Init
<1>2. /\ owner \in [Dirs -> Procs \cup {None}]
      /\ lockBy \in [Slots -> Procs \cup {None, Watcher}]
      /\ stray \in SUBSET Dirs
  BY DEF Init
<1>3. /\ again \in [Procs -> BOOLEAN]
      /\ lockFile \in [Slots -> BOOLEAN]
      /\ dir \in [Dirs -> BOOLEAN]
      /\ install \in {"absent", "present", "stripped"}
  BY Zenon DEF Init
<1>4. /\ pidfile \in [Dirs -> {"absent", "live", "dead", "foreign", "opaque"}]
      /\ server \in [Dirs -> {"none", "launching", "running", "quitting"}]
      /\ watcher \in [Slots -> {"none", "spawned", "waiting", "detached", "script", "signal"}]
  BY DEF Init
<1>5. QED
  BY <1>1, <1>2, <1>3, <1>4, Zenon DEF TypeOK

\* The types of what the Drop of a PostgreSQL value changes.
DropTypes ==
  /\ dir \in [Dirs -> BOOLEAN]
  /\ pidfile \in [Dirs -> {"absent", "live", "dead", "foreign", "opaque"}]
  /\ server \in [Dirs -> {"none", "launching", "running", "quitting"}]
  /\ stray \in SUBSET Dirs

\* A Drop keeps them, whether or not its stop and its removal succeed.
LEMMA DropTyped == ASSUME TypeOK, AtInv, NEW p \in Procs, pc[p] \in Owning, DropValue(at[p])
                   PROVE DropTypes'
<1>1. dir' \in [Dirs -> BOOLEAN]
  BY DEF TypeOK, DropValue, RemoveDir
<1>2. server' \in [Dirs -> {"none", "launching", "running", "quitting"}]
  BY DEF TypeOK, DropValue, Quit
<1>3. pidfile' \in [Dirs -> {"absent", "live", "dead", "foreign", "opaque"}]
  BY DEF TypeOK, DropValue, RemoveDir
<1>4. stray' \subseteq stray \cup {at[p]} /\ at[p] \in Dirs
  BY DEF DropValue, AtInv
<1>5. stray' \in SUBSET Dirs
  BY <1>4 DEF TypeOK
<1>6. QED
  BY <1>1, <1>2, <1>3, <1>5 DEF DropTypes

\* Every action keeps them.
LEMMA TypeStep == TypeOK /\ AtInv /\ [Next]_vars => TypeOK'
<1> SUFFICES ASSUME TypeOK, AtInv, [Next]_vars PROVE TypeOK'
  OBVIOUS
<1> USE ConstantsAssumption DEF TypeOK
<1>1. ASSUME NEW p \in Procs, BeginClaim(p) PROVE TypeOK'
  BY <1>1 DEF BeginClaim, Goto, slotVars, serverVars
<1>2. ASSUME NEW p \in Procs, ClaimFails(p) PROVE TypeOK'
  BY <1>2 DEF ClaimFails, Goto, slotVars, serverVars
<1>3. ASSUME NEW p \in Procs, NEW s \in Slots, SweepTake(p, s) PROVE TypeOK'
  BY <1>3 DEF SweepTake, Goto, TakeDeadLock, At, serverVars
<1>4. ASSUME NEW p \in Procs, NEW s \in Slots, SweepSkip(p, s) PROVE TypeOK'
  BY <1>4 DEF SweepSkip, slotVars, serverVars
<1>5. ASSUME NEW p \in Procs, NEW s \in Slots, CreateLock(p, s) PROVE TypeOK'
  BY <1>5 DEF CreateLock, Goto, At, serverVars
<1>6. ASSUME NEW p \in Procs, SweepCheck(p) PROVE TypeOK'
  BY <1>6 DEF SweepCheck, Goto, SweepNext, Quit, At
<1>7. ASSUME NEW p \in Procs, SweepStopped(p) PROVE TypeOK'
  BY <1>7 DEF SweepStopped, Goto, slotVars, serverVars
<1>8. ASSUME NEW p \in Procs, SweepGivesUp(p) PROVE TypeOK'
  BY <1>8 DEF SweepGivesUp, Goto, SweepNext, At, serverVars
<1>9. ASSUME NEW p \in Procs, SweepRemove(p) PROVE TypeOK'
  <2>1. dir' \in [Dirs -> BOOLEAN] /\ lockFile' \in [Slots -> BOOLEAN]
    BY <1>9 DEF SweepRemove, RemoveSlotFiles, TryRemoveDir, RemoveDir
  <2>2. pidfile' \in [Dirs -> {"absent", "live", "dead", "foreign", "opaque"}]
    BY <1>9 DEF SweepRemove, RemoveSlotFiles, TryRemoveDir, RemoveDir
  <2>3. watcher' \in [Slots -> {"none", "spawned", "waiting", "detached", "script", "signal"}]
    BY <1>9 DEF SweepRemove, RemoveSlotFiles
  <2>4. QED
    BY <1>9, <2>1, <2>2, <2>3 DEF SweepRemove, SweepNext, Goto, At
<1>10. ASSUME NEW p \in Procs, LockNew(p) PROVE TypeOK'
  BY <1>10 DEF LockNew, Goto, serverVars
<1>11. ASSUME NEW p \in Procs, LockNewFails(p) PROVE TypeOK'
  BY <1>11 DEF LockNewFails, Goto, At, slotVars, serverVars
<1>12. ASSUME NEW p \in Procs, Prepare(p) PROVE TypeOK'
  BY <1>12 DEF Prepare, Goto, slotVars
<1>13. ASSUME NEW p \in Procs, PrepareFails(p) PROVE TypeOK'
  BY <1>13 DEF PrepareFails, Goto, At, slotVars, serverVars
<1>14. ASSUME NEW p \in Procs, NEW e \in Explicit, PrepareExplicit(p, e) PROVE TypeOK'
  BY <1>14 DEF PrepareExplicit, Goto, At
<1>15. ASSUME NEW p \in Procs, Arm(p) PROVE TypeOK'
  BY <1>15 DEF Arm, Goto, IsSlot, slotVars, serverVars
<1>16. ASSUME NEW p \in Procs, Setup(p) PROVE TypeOK'
  BY <1>16 DEF Setup, Goto, slotVars, serverVars
<1>17. ASSUME NEW p \in Procs, Launch(p) PROVE TypeOK'
  BY <1>17 DEF Launch, Goto, slotVars
<1>18. ASSUME NEW p \in Procs, Started(p) PROVE TypeOK'
  BY <1>18 DEF Started, Goto, slotVars, serverVars
<1>19. ASSUME NEW p \in Procs, StartFails(p) PROVE TypeOK'
  <2>1. DropTypes'
    BY <1>19, DropTyped DEF StartFails
  <2>2. QED
    BY <1>19, <2>1 DEF StartFails, Goto, At, ReleaseWatcher, slotVars, DropTypes
<1>20. ASSUME NEW p \in Procs, Stop(p) PROVE TypeOK'
  <2>1. dir' \in [Dirs -> BOOLEAN] /\ again' \in [Procs -> BOOLEAN]
    BY <1>20 DEF Stop
  <2>2. QED
    BY <1>20, <2>1 DEF Stop, Goto, slotVars
<1>21. ASSUME NEW p \in Procs, StopFails(p) PROVE TypeOK'
  <2>1. DropTypes'
    BY <1>21, DropTyped DEF StopFails
  <2>2. QED
    BY <1>21, <2>1 DEF StopFails, Goto, At, slotVars, DropTypes
<1>22. ASSUME NEW p \in Procs, Cleanup(p) PROVE TypeOK'
  <2>1. dir' \in [Dirs -> BOOLEAN] /\ again' \in [Procs -> BOOLEAN]
    BY <1>22 DEF Cleanup, TryRemoveDir, RemoveDir, EndPass
  <2>2. QED
    BY <1>22, <2>1 DEF Cleanup, ReleaseWatcher, EndPass, TryRemoveDir, RemoveDir, Goto, At, slotVars
<1>23. ASSUME NEW p \in Procs, TakeGuard(p) PROVE TypeOK'
  BY <1>23 DEF TakeGuard, Goto, slotVars, serverVars
<1>24. ASSUME NEW p \in Procs, PlanFull(p) PROVE TypeOK'
  BY <1>24 DEF PlanFull, Goto, LivePeers, slotVars, serverVars
<1>25. ASSUME NEW p \in Procs, Demote(p) PROVE TypeOK'
  <2>1. dir' \in [Dirs -> BOOLEAN] /\ again' \in [Procs -> BOOLEAN]
    BY <1>25 DEF Demote, EndPass, TryRemoveDir, RemoveDir
  <2>2. /\ guard' \in Procs \cup {None}
        /\ install' \in {"absent", "present", "stripped"}
    BY <1>25 DEF Demote
  <2>3. QED
    BY <1>25, <2>1, <2>2
       DEF Demote, EndPass, TryRemoveDir, RemoveDir, Goto, At, slotVars
<1>26. ASSUME NEW p \in Procs, RemoveAll(p) PROVE TypeOK'
  <2>1. dir' \in [Dirs -> BOOLEAN] /\ again' \in [Procs -> BOOLEAN]
    BY <1>26 DEF RemoveAll, EndPass, TryRemoveDir, RemoveDir
  <2>2. /\ guard' \in Procs \cup {None}
        /\ install' \in {"absent", "present", "stripped"}
    BY <1>26 DEF RemoveAll
  <2>3. QED
    BY <1>26, <2>1, <2>2
       DEF RemoveAll, EndPass, TryRemoveDir, RemoveDir, Goto, At, slotVars
<1>37. ASSUME NEW p \in Procs, RemoveUnguarded(p) PROVE TypeOK'
  <2>1. dir' \in [Dirs -> BOOLEAN] /\ again' \in [Procs -> BOOLEAN]
    BY <1>37 DEF RemoveUnguarded, EndPass, TryRemoveDir, RemoveDir
  <2>2. install' \in {"absent", "present", "stripped"}
    BY <1>37 DEF RemoveUnguarded
  <2>3. QED
    BY <1>37, <2>1, <2>2
       DEF RemoveUnguarded, EndPass, TryRemoveDir, RemoveDir, Goto, At, slotVars
<1>27. ASSUME NEW p \in Procs, Die(p) PROVE TypeOK'
  BY <1>27 DEF Die, Goto, At, serverVars
<1>28. ASSUME NEW d \in Dirs, ServerRecords(d) PROVE TypeOK'
  BY <1>28 DEF ServerRecords, procVars, slotVars
<1>29. ASSUME NEW d \in Dirs, ServerQuits(d) PROVE TypeOK'
  BY <1>29 DEF ServerQuits, procVars, slotVars
<1>30. ASSUME NEW d \in Dirs, ServerCrashes(d) PROVE TypeOK'
  BY <1>30 DEF ServerCrashes, procVars, slotVars
<1>31. ASSUME NEW s \in Slots, WatcherOpens(s) PROVE TypeOK'
  BY <1>31 DEF WatcherOpens, procVars, serverVars
<1>32. ASSUME NEW s \in Slots, WatcherLocks(s) PROVE TypeOK'
  BY <1>32 DEF WatcherLocks, procVars, serverVars
<1>33. ASSUME NEW s \in Slots, WatcherChecks(s) PROVE TypeOK'
  BY <1>33 DEF WatcherChecks, WatcherEnds, procVars, serverVars
<1>34. ASSUME NEW s \in Slots, WatcherSignals(s) PROVE TypeOK'
  BY <1>34 DEF WatcherSignals, WatcherEnds, Quit, procVars
<1>35. CASE UNCHANGED vars
  BY <1>35 DEF vars
<1>36. QED
  BY <1>1, <1>2, <1>3, <1>4, <1>5, <1>6, <1>7, <1>8, <1>9, <1>10, <1>11, <1>12, <1>13,
     <1>14, <1>15, <1>16, <1>17, <1>18, <1>19, <1>20, <1>21, <1>22, <1>23, <1>24, <1>25,
     <1>26, <1>27, <1>28, <1>29, <1>30, <1>31, <1>32, <1>33, <1>34, <1>35, <1>37
     DEF Next, ClaimStep, LifeStep, ServerStep, WatcherStep

-----------------------------------------------------------------------------
(* Slot ownership and the install tree.                                    *)

\* Initially nobody owns or sweeps anything.
LEMMA IndInit == Init => IndInv
<1> SUFFICES ASSUME Init PROVE IndInv
  OBVIOUS
<1>1. TypeOK
  BY TypeInit
<1>2. GuardInv /\ AtInv /\ SweepInv /\ CreatedInv /\ FullInv
  BY ConstantsAssumption DEF Init, GuardInv, AtInv, SweepInv, CreatedInv, FullInv
<1>3. FreshInv /\ LockInv
  BY ConstantsAssumption DEF Init, FreshInv, LockInv
<1>4. StrippedInv /\ OwnedSlotIntact /\ LiveClusterKeepsData /\ InstallKept
  BY DEF Init, StrippedInv, OwnedSlotIntact, LiveClusterKeepsData, InstallKept
<1>5. QED
  BY <1>1, <1>2, <1>3, <1>4 DEF IndInv

\* Every action keeps the invariant of the slots.
LEMMA IndStep == IndInv /\ [Next]_vars => IndInv'
<1> SUFFICES ASSUME IndInv, [Next]_vars PROVE IndInv'
  OBVIOUS
<1> USE ConstantsAssumption, TypeStep
    DEF IndInv, TypeOK, GuardInv, AtInv, SweepInv, CreatedInv, FreshInv, LockInv, FullInv,
        StrippedInv, OwnedSlotIntact, LiveClusterKeepsData, InstallKept
<1>0. TypeOK'
  BY TypeStep DEF IndInv
<1>1. ASSUME NEW p \in Procs, BeginClaim(p) PROVE IndInv'
  BY <1>0, <1>1 DEF BeginClaim, Goto, slotVars, serverVars
<1>2. ASSUME NEW p \in Procs, ClaimFails(p) PROVE IndInv'
  BY <1>0, <1>2 DEF ClaimFails, Goto, slotVars, serverVars
<1>3. ASSUME NEW p \in Procs, NEW s \in Slots, SweepTake(p, s) PROVE IndInv'
  <2>1. GuardInv' /\ AtInv' /\ SweepInv' /\ CreatedInv'
    BY <1>0, <1>3 DEF SweepTake, TakeDeadLock, Goto, At, serverVars
  <2>2. FreshInv' /\ LockInv' /\ FullInv' /\ StrippedInv'
    BY <1>0, <1>3 DEF SweepTake, TakeDeadLock, Goto, At, serverVars
  <2>3. OwnedSlotIntact' /\ LiveClusterKeepsData' /\ InstallKept'
    BY <1>0, <1>3 DEF SweepTake, TakeDeadLock, Goto, At, serverVars
  <2>4. QED
    BY <1>0, <2>1, <2>2, <2>3
<1>4. ASSUME NEW p \in Procs, NEW s \in Slots, SweepSkip(p, s) PROVE IndInv'
  BY <1>0, <1>4 DEF SweepSkip, slotVars, serverVars
<1>5. ASSUME NEW p \in Procs, NEW s \in Slots, CreateLock(p, s) PROVE IndInv'
  BY <1>0, <1>5 DEF CreateLock, Goto, At, serverVars
<1>6. ASSUME NEW p \in Procs, SweepCheck(p) PROVE IndInv'
  <2>1. GuardInv' /\ AtInv' /\ SweepInv' /\ CreatedInv'
    BY <1>0, <1>6 DEF SweepCheck, SweepNext, Quit, Goto, At
  <2>2. FreshInv' /\ LockInv' /\ FullInv' /\ StrippedInv'
    BY <1>0, <1>6 DEF SweepCheck, SweepNext, Quit, Goto, At
  <2>3. OwnedSlotIntact' /\ LiveClusterKeepsData' /\ InstallKept'
    BY <1>0, <1>6 DEF SweepCheck, SweepNext, Quit, Goto, At
  <2>4. QED
    BY <1>0, <2>1, <2>2, <2>3
<1>7. ASSUME NEW p \in Procs, SweepStopped(p) PROVE IndInv'
  BY <1>0, <1>7 DEF SweepStopped, Goto, slotVars, serverVars
<1>8. ASSUME NEW p \in Procs, SweepGivesUp(p) PROVE IndInv'
  BY <1>0, <1>8 DEF SweepGivesUp, Goto, SweepNext, At, serverVars
<1>9. ASSUME NEW p \in Procs, SweepRemove(p) PROVE IndInv'
  BY <1>0, <1>9 DEF SweepRemove, Goto, SweepNext, At, RemoveSlotFiles, TryRemoveDir, RemoveDir
<1>10. ASSUME NEW p \in Procs, LockNew(p) PROVE IndInv'
  BY <1>0, <1>10 DEF LockNew, Goto, serverVars
<1>11. ASSUME NEW p \in Procs, LockNewFails(p) PROVE IndInv'
  BY <1>0, <1>11 DEF LockNewFails, Goto, At, slotVars, serverVars
<1>12. ASSUME NEW p \in Procs, Prepare(p) PROVE IndInv'
  BY <1>0, <1>12 DEF Prepare, Goto, slotVars
<1>13. ASSUME NEW p \in Procs, PrepareFails(p) PROVE IndInv'
  BY <1>0, <1>13 DEF PrepareFails, Goto, At, slotVars, serverVars
<1>14. ASSUME NEW p \in Procs, NEW e \in Explicit, PrepareExplicit(p, e) PROVE IndInv'
  BY <1>0, <1>14 DEF PrepareExplicit, Goto, At
<1>15. ASSUME NEW p \in Procs, Arm(p) PROVE IndInv'
  BY <1>0, <1>15 DEF Arm, Goto, IsSlot, slotVars, serverVars
<1>16. ASSUME NEW p \in Procs, Setup(p) PROVE IndInv'
  BY <1>0, <1>16 DEF Setup, Goto, slotVars, serverVars
<1>17. ASSUME NEW p \in Procs, Launch(p) PROVE IndInv'
  BY <1>0, <1>17 DEF Launch, Goto, slotVars
<1>18. ASSUME NEW p \in Procs, Started(p) PROVE IndInv'
  BY <1>0, <1>18 DEF Started, Goto, slotVars, serverVars
<1>19. ASSUME NEW p \in Procs, StartFails(p) PROVE IndInv'
  BY <1>0, <1>19 DEF StartFails, Goto, At, DropValue, RemoveDir, Quit, ReleaseWatcher, slotVars
<1>20. ASSUME NEW p \in Procs, Stop(p) PROVE IndInv'
  BY <1>0, <1>20 DEF Stop, Goto, slotVars
<1>21. ASSUME NEW p \in Procs, StopFails(p) PROVE IndInv'
  BY <1>0, <1>21 DEF StopFails, Goto, At, DropValue, RemoveDir, Quit, slotVars
<1>22. ASSUME NEW p \in Procs, Cleanup(p) PROVE IndInv'
  BY <1>0, <1>22 DEF Cleanup, Goto, At, ReleaseWatcher, EndPass, TryRemoveDir, RemoveDir, slotVars
<1>23. ASSUME NEW p \in Procs, TakeGuard(p) PROVE IndInv'
  BY <1>0, <1>23 DEF TakeGuard, Goto, slotVars, serverVars
<1>24. ASSUME NEW p \in Procs, PlanFull(p) PROVE IndInv'
  BY <1>0, <1>24 DEF PlanFull, Goto, LivePeers, slotVars, serverVars
<1>25. ASSUME NEW p \in Procs, Demote(p) PROVE IndInv'
  BY <1>0, <1>25 DEF Demote, Goto, At, EndPass, TryRemoveDir, RemoveDir, slotVars
<1>26. ASSUME NEW p \in Procs, RemoveAll(p) PROVE IndInv'
  BY <1>0, <1>26 DEF RemoveAll, Goto, At, EndPass, TryRemoveDir, RemoveDir, slotVars
<1>37. ASSUME NEW p \in Procs, RemoveUnguarded(p) PROVE IndInv'
  BY <1>0, <1>37 DEF RemoveUnguarded, Goto, At, EndPass, TryRemoveDir, RemoveDir, slotVars
<1>27. ASSUME NEW p \in Procs, Die(p) PROVE IndInv'
  BY <1>0, <1>27 DEF Die, Goto, At, serverVars
<1>28. ASSUME NEW d \in Dirs, ServerRecords(d) PROVE IndInv'
  BY <1>0, <1>28 DEF ServerRecords, procVars, slotVars
<1>29. ASSUME NEW d \in Dirs, ServerQuits(d) PROVE IndInv'
  BY <1>0, <1>29 DEF ServerQuits, procVars, slotVars
<1>30. ASSUME NEW d \in Dirs, ServerCrashes(d) PROVE IndInv'
  BY <1>0, <1>30 DEF ServerCrashes, procVars, slotVars
<1>31. ASSUME NEW s \in Slots, WatcherOpens(s) PROVE IndInv'
  BY <1>0, <1>31 DEF WatcherOpens, procVars, serverVars
<1>32. ASSUME NEW s \in Slots, WatcherLocks(s) PROVE IndInv'
  BY <1>0, <1>32 DEF WatcherLocks, procVars, serverVars
<1>33. ASSUME NEW s \in Slots, WatcherChecks(s) PROVE IndInv'
  BY <1>0, <1>33 DEF WatcherChecks, WatcherEnds, procVars, serverVars
<1>34. ASSUME NEW s \in Slots, WatcherSignals(s) PROVE IndInv'
  BY <1>0, <1>34 DEF WatcherSignals, WatcherEnds, Quit, procVars
<1>35. CASE UNCHANGED vars
  BY <1>0, <1>35 DEF vars
<1>36. QED
  BY <1>1, <1>2, <1>3, <1>4, <1>5, <1>6, <1>7, <1>8, <1>9, <1>10, <1>11, <1>12, <1>13,
     <1>14, <1>15, <1>16, <1>17, <1>18, <1>19, <1>20, <1>21, <1>22, <1>23, <1>24, <1>25,
     <1>26, <1>27, <1>28, <1>29, <1>30, <1>31, <1>32, <1>33, <1>34, <1>35, <1>37
     DEF Next, ClaimStep, LifeStep, ServerStep, WatcherStep

\* The invariant holds in every behaviour of ClusterSlots.
LEMMA Invariance == Spec => []IndInv
BY IndInit, IndStep, PTL DEF Spec

\* The specification is type correct for any processes, slots and explicit
\* directories.
THEOREM TypeCorrect == Spec => []TypeOK
<1>1. IndInv => TypeOK
  BY DEF IndInv
<1>2. QED
  BY <1>1, Invariance, PTL

\* A slot in use stays intact, however many processes claim, sweep, clean up and die
\* (cluster_slot/mod.rs, removal.rs).
THEOREM SlotSafety == Spec => []OwnedSlotIntact
<1>1. IndInv => OwnedSlotIntact
  BY DEF IndInv
<1>2. QED
  BY <1>1, Invariance, PTL

\* A slotted cluster in use keeps its data directory, whoever sweeps or cleans up
\* (cluster_slot/mod.rs, cleanup.rs).
THEOREM LiveDataKept == Spec => []LiveClusterKeepsData
<1>1. IndInv => LiveClusterKeepsData
  BY DEF IndInv
<1>2. QED
  BY <1>1, Invariance, PTL

\* A slotted cluster that is set up keeps the install tree: what a full cleanup's probe
\* for peers has seen still holds when the tree is removed (cleanup.rs).
THEOREM InstallTreeKept == Spec => []InstallKept
<1>1. IndInv => InstallKept
  BY DEF IndInv
<1>2. QED
  BY <1>1, Invariance, PTL

-----------------------------------------------------------------------------
(* Servers.                                                                *)

\* What a slot holds belongs to a process that is dead, or has its lock.
HeldInv == \A s \in Slots : dir[s] \/ server[s] # "none" \/ watcher[s] # "none" =>
  owner[s] \in Procs /\ (Dead(owner[s]) \/ Held(s))

\* A server still launching has a live owner, or is one of the stray ones.
LateInv == \A s \in Slots : server[s] = "launching" /\ Dead(owner[s]) => s \in stray

\* postmaster.pid names the server, unless that server is stray.
PidInv == \A s \in Slots : server[s] \in ServerUp /\ s \notin stray => pidfile[s] = "live"

\* A cluster that was stopped stays stopped while it is cleaned up.
StoppedInv == \A p \in Procs :
  pc[p] \in {"stopped", "plan", "probe", "full"} /\ at[p] \in Slots => server[at[p]] = "none"

\* A sweep about to remove a directory has seen its server gone.
RemoveInv == \A p \in Procs :
  pc[p] = "remove" => server[at[p]] \notin ServerUp \/ at[p] \in stray

ServerInv ==
  /\ IndInv
  /\ HeldInv
  /\ LateInv
  /\ PidInv
  /\ StoppedInv
  /\ RemoveInv

\* Initially there is no server.
LEMMA ServerInit == Init => ServerInv
<1> SUFFICES ASSUME Init PROVE ServerInv
  OBVIOUS
<1>1. IndInv
  BY IndInit
<1>2. HeldInv /\ LateInv /\ PidInv
  BY DEF Init, HeldInv, LateInv, PidInv
<1>3. StoppedInv /\ RemoveInv
  BY DEF Init, StoppedInv, RemoveInv
<1>4. QED
  BY <1>1, <1>2, <1>3 DEF ServerInv

\* Every action keeps the invariant of the servers.
LEMMA ServerInvStep == ServerInv /\ [Next]_vars => ServerInv'
<1> SUFFICES ASSUME ServerInv, [Next]_vars PROVE ServerInv'
  OBVIOUS
<1>0. IndInv'
  BY IndStep DEF ServerInv
<1> USE ConstantsAssumption
    DEF ServerInv, IndInv, TypeOK, GuardInv, AtInv, SweepInv, CreatedInv, FreshInv, OwnedSlotIntact,
        HeldInv, LateInv, PidInv, StoppedInv, RemoveInv, Held, Dead
<1>1. ASSUME NEW p \in Procs, BeginClaim(p) PROVE ServerInv'
  BY <1>0, <1>1 DEF BeginClaim, Goto, slotVars, serverVars
<1>2. ASSUME NEW p \in Procs, ClaimFails(p) PROVE ServerInv'
  BY <1>0, <1>2 DEF ClaimFails, Goto, slotVars, serverVars
<1>3. ASSUME NEW p \in Procs, NEW s \in Slots, SweepTake(p, s) PROVE ServerInv'
  BY <1>0, <1>3 DEF SweepTake, Goto, TakeDeadLock, At, serverVars
<1>4. ASSUME NEW p \in Procs, NEW s \in Slots, SweepSkip(p, s) PROVE ServerInv'
  BY <1>0, <1>4 DEF SweepSkip, slotVars, serverVars
<1>5. ASSUME NEW p \in Procs, NEW s \in Slots, CreateLock(p, s) PROVE ServerInv'
  BY <1>0, <1>5 DEF CreateLock, Goto, At, serverVars
<1>6. ASSUME NEW p \in Procs, SweepCheck(p) PROVE ServerInv'
  <2>1. HeldInv' /\ LateInv' /\ PidInv' /\ StoppedInv'
    BY <1>0, <1>6 DEF SweepCheck, SweepNext, Quit, Goto, At
  <2>2. RemoveInv'
    BY <1>0, <1>6 DEF SweepCheck, SweepNext, Quit, Goto, At, ServerState
  <2>3. QED
    BY <1>0, <2>1, <2>2
<1>7. ASSUME NEW p \in Procs, SweepStopped(p) PROVE ServerInv'
  BY <1>0, <1>7 DEF SweepStopped, Goto, slotVars, serverVars
<1>8. ASSUME NEW p \in Procs, SweepGivesUp(p) PROVE ServerInv'
  BY <1>0, <1>8 DEF SweepGivesUp, Goto, SweepNext, At, serverVars
<1>9. ASSUME NEW p \in Procs, SweepRemove(p) PROVE ServerInv'
  BY <1>0, <1>9 DEF SweepRemove, Goto, SweepNext, At, RemoveSlotFiles, TryRemoveDir, RemoveDir
<1>10. ASSUME NEW p \in Procs, LockNew(p) PROVE ServerInv'
  BY <1>0, <1>10 DEF LockNew, Goto, serverVars
<1>11. ASSUME NEW p \in Procs, LockNewFails(p) PROVE ServerInv'
  BY <1>0, <1>11 DEF LockNewFails, Goto, At, slotVars, serverVars
<1>12. ASSUME NEW p \in Procs, Prepare(p) PROVE ServerInv'
  BY <1>0, <1>12 DEF Prepare, Goto, slotVars
<1>13. ASSUME NEW p \in Procs, PrepareFails(p) PROVE ServerInv'
  BY <1>0, <1>13 DEF PrepareFails, Goto, At, slotVars, serverVars
<1>14. ASSUME NEW p \in Procs, NEW e \in Explicit, PrepareExplicit(p, e) PROVE ServerInv'
  BY <1>0, <1>14 DEF PrepareExplicit, Goto, At
<1>15. ASSUME NEW p \in Procs, Arm(p) PROVE ServerInv'
  BY <1>0, <1>15 DEF Arm, Goto, IsSlot, slotVars, serverVars
<1>16. ASSUME NEW p \in Procs, Setup(p) PROVE ServerInv'
  BY <1>0, <1>16 DEF Setup, Goto, slotVars, serverVars
<1>17. ASSUME NEW p \in Procs, Launch(p) PROVE ServerInv'
  BY <1>0, <1>17 DEF Launch, Goto, slotVars
<1>18. ASSUME NEW p \in Procs, Started(p) PROVE ServerInv'
  BY <1>0, <1>18 DEF Started, Goto, slotVars, serverVars
<1>19. ASSUME NEW p \in Procs, StartFails(p) PROVE ServerInv'
  BY <1>0, <1>19 DEF StartFails, Goto, At, DropValue, RemoveDir, Quit, ReleaseWatcher, slotVars
<1>20. ASSUME NEW p \in Procs, Stop(p) PROVE ServerInv'
  BY <1>0, <1>20 DEF Stop, Goto, slotVars
<1>21. ASSUME NEW p \in Procs, StopFails(p) PROVE ServerInv'
  BY <1>0, <1>21 DEF StopFails, Goto, At, DropValue, RemoveDir, Quit, slotVars
<1>22. ASSUME NEW p \in Procs, Cleanup(p) PROVE ServerInv'
  BY <1>0, <1>22 DEF Cleanup, Goto, At, ReleaseWatcher, EndPass, TryRemoveDir, RemoveDir, slotVars
<1>23. ASSUME NEW p \in Procs, TakeGuard(p) PROVE ServerInv'
  BY <1>0, <1>23 DEF TakeGuard, Goto, slotVars, serverVars
<1>24. ASSUME NEW p \in Procs, PlanFull(p) PROVE ServerInv'
  BY <1>0, <1>24 DEF PlanFull, Goto, LivePeers, slotVars, serverVars
<1>25. ASSUME NEW p \in Procs, Demote(p) PROVE ServerInv'
  BY <1>0, <1>25 DEF Demote, Goto, At, EndPass, TryRemoveDir, RemoveDir, slotVars
<1>26. ASSUME NEW p \in Procs, RemoveAll(p) PROVE ServerInv'
  BY <1>0, <1>26 DEF RemoveAll, Goto, At, EndPass, TryRemoveDir, RemoveDir, slotVars
<1>37. ASSUME NEW p \in Procs, RemoveUnguarded(p) PROVE ServerInv'
  BY <1>0, <1>37 DEF RemoveUnguarded, Goto, At, EndPass, TryRemoveDir, RemoveDir, slotVars
<1>27. ASSUME NEW p \in Procs, Die(p) PROVE ServerInv'
  BY <1>0, <1>27 DEF Die, Goto, At, serverVars
<1>28. ASSUME NEW d \in Dirs, ServerRecords(d) PROVE ServerInv'
  BY <1>0, <1>28 DEF ServerRecords, procVars, slotVars
<1>29. ASSUME NEW d \in Dirs, ServerQuits(d) PROVE ServerInv'
  BY <1>0, <1>29 DEF ServerQuits, procVars, slotVars
<1>30. ASSUME NEW d \in Dirs, ServerCrashes(d) PROVE ServerInv'
  BY <1>0, <1>30 DEF ServerCrashes, procVars, slotVars
<1>31. ASSUME NEW s \in Slots, WatcherOpens(s) PROVE ServerInv'
  BY <1>0, <1>31 DEF WatcherOpens, procVars, serverVars
<1>32. ASSUME NEW s \in Slots, WatcherLocks(s) PROVE ServerInv'
  BY <1>0, <1>32 DEF WatcherLocks, procVars, serverVars
<1>33. ASSUME NEW s \in Slots, WatcherChecks(s) PROVE ServerInv'
  BY <1>0, <1>33 DEF WatcherChecks, WatcherEnds, procVars, serverVars
<1>34. ASSUME NEW s \in Slots, WatcherSignals(s) PROVE ServerInv'
  BY <1>0, <1>34 DEF WatcherSignals, WatcherEnds, Quit, procVars
<1>35. CASE UNCHANGED vars
  BY <1>0, <1>35 DEF vars
<1>36. QED
  BY <1>1, <1>2, <1>3, <1>4, <1>5, <1>6, <1>7, <1>8, <1>9, <1>10, <1>11, <1>12, <1>13,
     <1>14, <1>15, <1>16, <1>17, <1>18, <1>19, <1>20, <1>21, <1>22, <1>23, <1>24, <1>25,
     <1>26, <1>27, <1>28, <1>29, <1>30, <1>31, <1>32, <1>33, <1>34, <1>35, <1>37
     DEF Next, ClaimStep, LifeStep, ServerStep, WatcherStep

\* Nothing is removed from under a server that postmaster.pid tells of, in any
\* interleaving of owners, sweeps, watchers and kills.
THEOREM ServersSpared == Spec => SparesServers
<1> DEFINE Spared == \A s \in Slots :
             dir[s] /\ ~dir'[s] /\ {server[s], server'[s]} \subseteq ServerUp =>
               s \in stray \/ LetsGo(owner[s])
<1>1. ServerInv /\ [Next]_vars => [Spared]_vars
  <2> SUFFICES ASSUME ServerInv, Next PROVE Spared
    OBVIOUS
  <2> USE DEF ServerInv, IndInv, TypeOK, AtInv, OwnedSlotIntact, StoppedInv, RemoveInv
  <2>1. ASSUME NEW p \in Procs, SweepRemove(p) PROVE Spared
    BY <2>1 DEF SweepRemove, RemoveSlotFiles, TryRemoveDir, RemoveDir
  <2>2. ASSUME NEW p \in Procs, Cleanup(p) PROVE Spared
    BY <2>2 DEF Cleanup, TryRemoveDir, RemoveDir
  <2>3. ASSUME NEW p \in Procs, Demote(p) \/ RemoveAll(p) \/ RemoveUnguarded(p) PROVE Spared
    <3>1. TryRemoveDir(at[p]) /\ pc[p] \in {"plan", "probe", "full"}
      BY <2>3 DEF Demote, RemoveAll, RemoveUnguarded
    <3>2. QED
      BY <3>1 DEF TryRemoveDir, RemoveDir
  <2>4. ASSUME NEW p \in Procs, Prepare(p) \/ \E e \in Explicit : PrepareExplicit(p, e)
        PROVE Spared
    BY <2>4 DEF Prepare, PrepareExplicit
  <2>5. ASSUME UNCHANGED dir PROVE Spared
    BY <2>5
  <2>12. ASSUME NEW p \in Procs, StartFails(p) \/ StopFails(p) PROVE Spared
    <3>1. /\ DropValue(at[p]) /\ at[p] \in Dirs
          /\ pc[p] \in Starting \cup {"running"} /\ pc'[p] = "idle"
      BY <2>12 DEF StartFails, StopFails, Goto
    <3>2. \A s \in Slots : s # at[p] => dir'[s] = dir[s]
      BY <3>1 DEF DropValue, RemoveDir
    <3>3. at[p] \in Slots => LetsGo(owner[at[p]])
      BY <3>1 DEF LetsGo
    <3>4. QED
      BY <3>2, <3>3
  <2>13. ASSUME NEW p \in Procs, Stop(p) PROVE Spared
    BY <2>13 DEF Stop
  <2>6. ASSUME NEW p \in Procs, ClaimStep(p) PROVE Spared
    BY <2>1, <2>5, <2>6
       DEF ClaimStep, BeginClaim, ClaimFails, SweepTake, SweepSkip, CreateLock, SweepCheck,
           SweepStopped, SweepGivesUp, LockNew, LockNewFails, serverVars
  <2>7. ASSUME NEW p \in Procs, LifeStep(p) PROVE Spared
    BY <2>2, <2>3, <2>4, <2>5, <2>7, <2>12, <2>13
       DEF LifeStep, PrepareFails, Arm, Setup, Launch, Started, TakeGuard, PlanFull, serverVars
  <2>8. ASSUME NEW p \in Procs, Die(p) PROVE Spared
    BY <2>5, <2>8 DEF Die, serverVars
  <2>9. ASSUME NEW d \in Dirs, ServerStep(d) PROVE Spared
    BY <2>5, <2>9 DEF ServerStep, ServerRecords, ServerQuits, ServerCrashes
  <2>10. ASSUME NEW s \in Slots, WatcherStep(s) PROVE Spared
    BY <2>5, <2>10
       DEF WatcherStep, WatcherOpens, WatcherLocks, WatcherChecks, WatcherSignals, serverVars
  <2>11. QED
    BY <2>6, <2>7, <2>8, <2>9, <2>10 DEF Next
<1>2. QED
  BY ServerInit, ServerInvStep, <1>1, PTL DEF Spec, SparesServers

-----------------------------------------------------------------------------
(* Refinement of SlotLease.                                                *)

\* The initial state maps to one where every slot is free.
LEMMA LeaseInitially == Init => Lease!LeaseInit
  BY ConstantsAssumption DEF Init, Lease!LeaseInit, LeaseOf, Dead, Held

\* Every step maps to a step of a lease or changes none.
LEMMA LeaseStep == ServerInv /\ ServerInv' /\ [Next]_vars => [Lease!LeaseNext]_(Lease!leaseVars)
<1> SUFFICES ASSUME ServerInv, ServerInv', [Next]_vars PROVE [Lease!LeaseNext]_(Lease!leaseVars)
  OBVIOUS
<1> USE ConstantsAssumption
    DEF ServerInv, IndInv, TypeOK, GuardInv, AtInv, SweepInv, CreatedInv, FreshInv, OwnedSlotIntact,
        HeldInv, LateInv, StoppedInv, RemoveInv, LeaseOf, Held, Dead, Lease!leaseVars
<1>1. ASSUME NEW p \in Procs, BeginClaim(p) PROVE UNCHANGED Lease!leaseVars
  BY <1>1 DEF BeginClaim, Goto, slotVars, serverVars
<1>2. ASSUME NEW p \in Procs, ClaimFails(p) PROVE UNCHANGED Lease!leaseVars
  BY <1>2 DEF ClaimFails, Goto, slotVars, serverVars
<1>3. ASSUME NEW p \in Procs, NEW s \in Slots, SweepTake(p, s) PROVE UNCHANGED Lease!leaseVars
  BY <1>3 DEF SweepTake, Goto, TakeDeadLock, At, serverVars
<1>4. ASSUME NEW p \in Procs, NEW s \in Slots, SweepSkip(p, s) PROVE UNCHANGED Lease!leaseVars
  BY <1>4 DEF SweepSkip, slotVars, serverVars
<1>5. ASSUME NEW p \in Procs, NEW s \in Slots, CreateLock(p, s) PROVE UNCHANGED Lease!leaseVars
  BY <1>5 DEF CreateLock, Goto, At, serverVars
<1>6. ASSUME NEW p \in Procs, SweepCheck(p) PROVE UNCHANGED Lease!leaseVars
  BY <1>6 DEF SweepCheck, SweepNext, Quit, Goto, At
<1>7. ASSUME NEW p \in Procs, SweepStopped(p) PROVE UNCHANGED Lease!leaseVars
  BY <1>7 DEF SweepStopped, Goto, slotVars, serverVars
<1>8. ASSUME NEW p \in Procs, SweepGivesUp(p) PROVE UNCHANGED Lease!leaseVars
  BY <1>8 DEF SweepGivesUp, Goto, SweepNext, At, serverVars
<1>9. ASSUME NEW p \in Procs, SweepRemove(p)
      PROVE (\E s \in Slots : Lease!Reclaim(s)) \/ UNCHANGED Lease!leaseVars
  <2>1. UNCHANGED <<server, stray, owner, install>> /\ pc[p] = "remove" /\ at[p] \in Slots
    BY <1>9 DEF SweepRemove
  <2>2. \A s \in Slots : LeaseOf(s)' = LeaseOf(s)
    BY <1>9 DEF SweepRemove, SweepNext, Goto, At
  <2>3. \A s \in Slots : s # at[p] => dir'[s] = dir[s]
    BY <1>9 DEF SweepRemove, RemoveSlotFiles, TryRemoveDir, RemoveDir
  <2>4. CASE Dead(owner[at[p]]) /\ dir[at[p]] /\ ~dir'[at[p]]
    <3>1. LeaseOf(at[p]) = "abandoned" /\ ~(server[at[p]] \in ServerUp /\ at[p] \notin stray)
      BY <2>1, <2>4
    <3>2. QED
      BY <2>1, <2>2, <2>3, <2>4, <3>1 DEF Lease!Reclaim
  <2>5. CASE dir'[at[p]] = dir[at[p]]
    BY <2>1, <2>2, <2>3, <2>5
  <2>6. dir[at[p]] => Dead(owner[at[p]])
    BY <2>1
  <2>7. dir'[at[p]] => dir[at[p]]
    BY <1>9 DEF SweepRemove, RemoveSlotFiles, TryRemoveDir, RemoveDir
  <2>8. QED
    BY <2>1, <2>4, <2>5, <2>6, <2>7
<1>10. ASSUME NEW p \in Procs, LockNew(p) PROVE \E s \in Slots : Lease!Grant(s)
  <2>1. at[p] \in Slots /\ LeaseOf(at[p]) = "free" /\ LeaseOf(at[p])' = "held"
    BY <1>10 DEF LockNew, Goto
  <2>2. \A s \in Slots : s # at[p] => LeaseOf(s)' = LeaseOf(s)
    BY <1>10 DEF LockNew, Goto
  <2>3. UNCHANGED <<at, dir, server, stray, install>>
    BY <1>10 DEF LockNew, serverVars
  <2> HIDE DEF ServerInv, IndInv, TypeOK, GuardInv, AtInv, SweepInv, CreatedInv, FreshInv,
               OwnedSlotIntact, HeldInv, LateInv, StoppedInv, RemoveInv, LeaseOf, Held, Dead
  <2> DEFINE lease == [s \in Slots |-> LeaseOf(s)]
  <2>4. lease[at[p]] = "free" /\ lease' = [lease EXCEPT ![at[p]] = "held"]
    BY <2>1, <2>2, <2>3
  <2>5. QED
    BY <2>1, <2>3, <2>4 DEF Lease!Grant
<1>11. ASSUME NEW p \in Procs, LockNewFails(p) PROVE UNCHANGED Lease!leaseVars
  BY <1>11 DEF LockNewFails, Goto, At, slotVars, serverVars
<1>12. ASSUME NEW p \in Procs, Prepare(p) PROVE \E s \in Slots : Lease!Fill(s)
  BY <1>12 DEF Prepare, Goto, slotVars, Lease!Fill
<1>13. ASSUME NEW p \in Procs, PrepareFails(p) PROVE UNCHANGED Lease!leaseVars
  BY <1>13 DEF PrepareFails, Goto, At, slotVars, serverVars
<1>14. ASSUME NEW p \in Procs, NEW e \in Explicit, PrepareExplicit(p, e) PROVE UNCHANGED Lease!leaseVars
  BY <1>14 DEF PrepareExplicit, Goto, At
<1>15. ASSUME NEW p \in Procs, Arm(p) PROVE UNCHANGED Lease!leaseVars
  BY <1>15 DEF Arm, Goto, IsSlot, slotVars, serverVars
<1>16. ASSUME NEW p \in Procs, Setup(p) PROVE Lease!Provision
  BY <1>16 DEF Setup, Goto, slotVars, serverVars, Lease!Provision
<1>17. ASSUME NEW p \in Procs, Launch(p) PROVE UNCHANGED Lease!leaseVars
  BY <1>17 DEF Launch, Goto, slotVars
<1>18. ASSUME NEW p \in Procs, Started(p) PROVE UNCHANGED Lease!leaseVars
  BY <1>18 DEF Started, Goto, slotVars, serverVars
<1>38. ASSUME NEW p \in Procs, pc[p] \in {"armed", "ready", "starting", "running"},
              DropValue(at[p]), Goto(p, "idle"), At(p, None), UNCHANGED <<owner, lockBy, install>>
       PROVE (\E s \in Slots : Lease!Discard(s) \/ Lease!Cease(s)) \/ UNCHANGED Lease!leaseVars
  <2>1. \A s \in Slots : LeaseOf(s)' = LeaseOf(s)
    BY <1>38 DEF Goto, At
  <2>2. at[p] \in Slots => LeaseOf(at[p]) = "held"
    BY <1>38
  <2>3. at[p] \in Dirs /\ UNCHANGED install
    BY <1>38
  <2>4. \A s \in Slots : s # at[p] => dir'[s] = dir[s] /\ server'[s] = server[s]
                                     /\ (s \in stray' <=> s \in stray)
    BY <1>38, <2>3 DEF DropValue, RemoveDir, Quit
  <2>5. CASE at[p] \in Slots /\ ~dir'[at[p]]
    <3>1. ~(server'[at[p]] \in ServerUp /\ at[p] \notin stray')
      BY <1>38, <2>5 DEF DropValue
    <3> HIDE DEF ServerInv, IndInv, TypeOK, GuardInv, AtInv, SweepInv, CreatedInv, FreshInv,
                 OwnedSlotIntact, HeldInv, LateInv, StoppedInv, RemoveInv, LeaseOf, Held, Dead
    <3> DEFINE data == {s \in Slots : dir[s]}
               serving == {s \in Slots : server[s] \in ServerUp /\ s \notin stray}
    <3>2. data' = data \ {at[p]} /\ serving' = serving \ {at[p]}
      BY <2>4, <2>5, <3>1
    <3>3. [s \in Slots |-> LeaseOf(s)]' = [s \in Slots |-> LeaseOf(s)]
      BY <2>1
    <3>4. [s \in Slots |-> LeaseOf(s)][at[p]] = "held"
      BY <2>2, <2>5
    <3>5. QED
      BY <2>3, <2>5, <3>2, <3>3, <3>4 DEF Lease!Discard
  <2>6. CASE at[p] \in Slots /\ dir'[at[p]]
    <3>1. dir' = dir /\ stray' = stray
      BY <1>38, <2>6 DEF DropValue, RemoveDir
    <3>2. server'[at[p]] \in ServerUp => server[at[p]] \in ServerUp
      BY <1>38, <2>3 DEF DropValue, Quit
    <3>3. QED
      BY <2>1, <2>3, <2>4, <2>6, <3>1, <3>2 DEF Lease!Cease
  <2>7. CASE at[p] \notin Slots
    BY <2>1, <2>3, <2>4, <2>7
  <2>8. QED
    BY <2>5, <2>6, <2>7
<1>19. ASSUME NEW p \in Procs, StartFails(p)
       PROVE (\E s \in Slots : Lease!Discard(s) \/ Lease!Cease(s)) \/ UNCHANGED Lease!leaseVars
  BY <1>19, <1>38 DEF StartFails, slotVars
<1>20. ASSUME NEW p \in Procs, Stop(p)
       PROVE (\E s \in Slots : Lease!Discard(s) \/ Lease!Cease(s)) \/ UNCHANGED Lease!leaseVars
  <2>1. CASE dir' = dir
    BY <1>20, <2>1 DEF Stop, Goto, slotVars, Lease!Cease
  <2>2. CASE dir' = [dir EXCEPT ![at[p]] = FALSE]
    BY <1>20, <2>2 DEF Stop, Goto, slotVars, Lease!Discard
  <2>3. QED
    BY <1>20, <2>1, <2>2 DEF Stop
<1>21. ASSUME NEW p \in Procs, StopFails(p)
       PROVE (\E s \in Slots : Lease!Discard(s) \/ Lease!Cease(s)) \/ UNCHANGED Lease!leaseVars
  BY <1>21, <1>38 DEF StopFails, slotVars
<1>22. ASSUME NEW p \in Procs, Cleanup(p)
       PROVE (\E s \in Slots : Lease!Vacate(s)) \/ UNCHANGED Lease!leaseVars
  BY <1>22 DEF Cleanup, Goto, At, EndPass, TryRemoveDir, RemoveDir, slotVars, Lease!Vacate
<1>23. ASSUME NEW p \in Procs, TakeGuard(p) PROVE UNCHANGED Lease!leaseVars
  BY <1>23 DEF TakeGuard, Goto, slotVars, serverVars
<1>24. ASSUME NEW p \in Procs, PlanFull(p) PROVE UNCHANGED Lease!leaseVars
  BY <1>24 DEF PlanFull, Goto, LivePeers, slotVars, serverVars
<1>25. ASSUME NEW p \in Procs, Demote(p)
       PROVE (\E s \in Slots : Lease!Vacate(s)) \/ UNCHANGED Lease!leaseVars
  BY <1>25 DEF Demote, Goto, At, EndPass, TryRemoveDir, RemoveDir, slotVars, Lease!Vacate
<1>26. ASSUME NEW p \in Procs, RemoveAll(p) PROVE Lease!RemoveTree
  <2> DEFINE mine == {at[p]} \cap Slots
  <2>1. UNCHANGED <<server, stray>> /\ install' \in {"absent", install} /\ pc[p] = "full"
    BY <1>26 DEF RemoveAll
  <2>2. \A s \in Slots : LeaseOf(s)' = LeaseOf(s)
    BY <1>26 DEF RemoveAll, EndPass, Goto, At, slotVars
  <2>3. \A s \in Slots : LeaseOf(s) = "held" => s \in mine
    BY <2>1 DEF FullInv
  <2>4. \A s \in mine : server[s] = "none"
    BY <2>1
  <2>5. \/ UNCHANGED dir
        \/ \A s \in Slots : dir'[s] <=> dir[s] /\ s \notin mine
    BY <1>26 DEF RemoveAll, TryRemoveDir, RemoveDir
  <2>6. mine \in SUBSET Slots /\ \A s, t \in mine : s = t
    OBVIOUS
  <2> HIDE DEF ServerInv, IndInv, TypeOK, GuardInv, AtInv, SweepInv, CreatedInv, FreshInv,
               OwnedSlotIntact, HeldInv, LateInv, StoppedInv, RemoveInv, LeaseOf, Held, Dead
  <2> DEFINE data == {s \in Slots : dir[s]}
             serving == {s \in Slots : server[s] \in ServerUp /\ s \notin stray}
  <2>7. data' = data \/ (data' = data \ mine /\ mine \cap serving = {})
    BY <2>4, <2>5
  <2>8. [s \in Slots |-> LeaseOf(s)]' = [s \in Slots |-> LeaseOf(s)]
    BY <2>2
  <2> HIDE DEF mine
  <2>9. QED
    BY <2>1, <2>3, <2>6, <2>7, <2>8 DEF Lease!RemoveTree
<1>37. ASSUME NEW p \in Procs, RemoveUnguarded(p)
       PROVE Lease!Strip \/ UNCHANGED Lease!leaseVars
  BY <1>37
     DEF RemoveUnguarded, EndPass, TryRemoveDir, RemoveDir, Goto, At, slotVars, Lease!Strip
<1>27. ASSUME NEW p \in Procs, Die(p) PROVE Lease!Abandon
  <2> DEFINE S == {s \in Slots : owner[s] = p}
  <2>1. \A s \in S : LeaseOf(s) \in {"free", "held"} /\ LeaseOf(s)' = "abandoned"
    BY <1>27 DEF Die, Goto
  <2>2. \A s \in Slots \ S : LeaseOf(s)' = LeaseOf(s)
    BY <1>27 DEF Die, Goto, At
  <2>3. UNCHANGED <<dir, server, install>>
    BY <1>27 DEF Die, serverVars
  <2>4. \A s \in Slots : server[s] \in ServerUp => (s \in stray' <=> s \in stray)
    BY <1>27 DEF Die
  <2>5. S \subseteq Slots
    OBVIOUS
  <2> HIDE DEF ServerInv, IndInv, TypeOK, GuardInv, AtInv, SweepInv, CreatedInv, FreshInv,
               OwnedSlotIntact, HeldInv, LateInv, StoppedInv, RemoveInv, LeaseOf, Held, Dead
  <2> DEFINE lease == [s \in Slots |-> LeaseOf(s)]
  <2>6. S \in SUBSET {s \in Slots : lease[s] \in {"free", "held"}}
    BY <2>1
  <2>7. lease' = [s \in Slots |-> IF s \in S THEN "abandoned" ELSE lease[s]]
    BY <2>1, <2>2
  <2>8. QED
    BY <2>3, <2>4, <2>6, <2>7 DEF Lease!Abandon
<1>28. ASSUME NEW d \in Dirs, ServerRecords(d)
       PROVE (d \in Slots /\ Lease!Serve(d)) \/ UNCHANGED Lease!leaseVars
  BY <1>28 DEF ServerRecords, procVars, slotVars, Lease!Serve
<1>29. ASSUME NEW d \in Dirs, ServerQuits(d)
       PROVE (d \in Slots /\ Lease!Cease(d)) \/ UNCHANGED Lease!leaseVars
  BY <1>29 DEF ServerQuits, procVars, slotVars, Lease!Cease
<1>30. ASSUME NEW d \in Dirs, ServerCrashes(d)
       PROVE (d \in Slots /\ Lease!Cease(d)) \/ UNCHANGED Lease!leaseVars
  BY <1>30 DEF ServerCrashes, procVars, slotVars, Lease!Cease
<1>31. ASSUME NEW s \in Slots, WatcherOpens(s) PROVE UNCHANGED Lease!leaseVars
  BY <1>31 DEF WatcherOpens, procVars, serverVars
<1>32. ASSUME NEW s \in Slots, WatcherLocks(s) PROVE UNCHANGED Lease!leaseVars
  BY <1>32 DEF WatcherLocks, procVars, serverVars
<1>33. ASSUME NEW s \in Slots, WatcherChecks(s) PROVE UNCHANGED Lease!leaseVars
  BY <1>33 DEF WatcherChecks, WatcherEnds, procVars, serverVars
<1>34. ASSUME NEW s \in Slots, WatcherSignals(s) PROVE UNCHANGED Lease!leaseVars
  BY <1>34 DEF WatcherSignals, WatcherEnds, Quit, procVars
<1>35. CASE UNCHANGED vars
  BY <1>35 DEF vars
<1>36. QED
  <2> HIDE DEF ServerInv, IndInv, TypeOK, GuardInv, AtInv, SweepInv, CreatedInv, FreshInv,
               OwnedSlotIntact, HeldInv, LateInv, StoppedInv, RemoveInv, LeaseOf, Held, Dead,
               Lease!leaseVars
  <2> DEFINE Simulated == [Lease!LeaseNext]_(Lease!leaseVars)
  <2>1. ASSUME NEW p \in Procs, ClaimStep(p) PROVE Simulated
    <3>1. ASSUME NEW s \in Slots, SweepTake(p, s) \/ SweepSkip(p, s) \/ CreateLock(p, s)
          PROVE Simulated
      BY <3>1, <1>3, <1>4, <1>5
    <3>2. CASE SweepRemove(p) \/ LockNew(p)
      BY <3>2, <1>9, <1>10 DEF Lease!LeaseNext
    <3>3. CASE \/ BeginClaim(p) \/ ClaimFails(p) \/ SweepCheck(p) \/ SweepStopped(p)
               \/ SweepGivesUp(p) \/ LockNewFails(p)
      BY <3>3, <1>1, <1>2, <1>6, <1>7, <1>8, <1>11
    <3>4. QED
      BY <2>1, <3>1, <3>2, <3>3 DEF ClaimStep
  <2>2. ASSUME NEW p \in Procs, LifeStep(p) PROVE Simulated
    <3>1. ASSUME NEW e \in Explicit, PrepareExplicit(p, e) PROVE Simulated
      BY <3>1, <1>14
    <3>2. CASE \/ Prepare(p) \/ StartFails(p) \/ Stop(p) \/ StopFails(p) \/ Cleanup(p)
               \/ Demote(p)
      BY <3>2, <1>12, <1>19, <1>20, <1>21, <1>22, <1>25 DEF Lease!LeaseNext
    <3>3. CASE Setup(p) \/ RemoveAll(p) \/ RemoveUnguarded(p)
      BY <3>3, <1>16, <1>26, <1>37 DEF Lease!LeaseNext
    <3>4. CASE \/ PrepareFails(p) \/ Arm(p) \/ Launch(p) \/ Started(p) \/ TakeGuard(p)
               \/ PlanFull(p)
      BY <3>4, <1>13, <1>15, <1>17, <1>18, <1>23, <1>24
    <3>5. QED
      BY <2>2, <3>1, <3>2, <3>3, <3>4 DEF LifeStep
  <2>3. ASSUME NEW d \in Dirs, ServerStep(d) PROVE Simulated
    BY <2>3, <1>28, <1>29, <1>30 DEF ServerStep, Lease!LeaseNext
  <2>4. ASSUME NEW s \in Slots, WatcherStep(s) PROVE Simulated
    BY <2>4, <1>31, <1>32, <1>33, <1>34 DEF WatcherStep
  <2>5. QED
    BY <2>1, <2>2, <2>3, <2>4, <1>27, <1>35 DEF Next, Lease!LeaseNext

\* Slots, locks, sweeps and watchers implement SlotLease: data belong to the
\* holder of a lease, a dead holder's go once no server works on them, and the
\* install tree goes with the last lease.
THEOREM Refinement == Spec => ImplementsLease
<1>1. QED
  BY ServerInit, ServerInvStep, LeaseInitially, LeaseStep, PTL
     DEF Spec, ImplementsLease, Lease!LeaseSpec
=============================================================================
