------------------------ MODULE InstallTreeUseProofs ------------------------
(***************************************************************************)
(* What a start counts on while it uses the shared tree, for any           *)
(* processes, releases, files, archives and manifests.                     *)
(*   - Locks: of all that wait, only those that wait for the setup lock    *)
(*     find it taken, and who has it does not wait (WaitInv, LockInv).     *)
(*   - A hit: copies come from entries that are the release (EntryInv of   *)
(*     InstallTreeProofs), and write a file only where it differs; nothing *)
(*     is removed under the guard as long as there is a slotted cluster    *)
(*     (RemoveInv), and a removal without it is remembered (Struck).       *)
(*   - The hook: from its selection to its end it has the setup lock, so   *)
(*     that what it has written (WrittenInv) stays.                        *)
(***************************************************************************)
EXTENDS InstallTreeProofs

\* Who waits for the setup lock does not have it.
WaitInv == \A p \in Procs : pc[p] \in {"idle", "bootstrapped", "relock"} => setup # p

\* While a directory is removed there is no other slotted cluster.
RemoveInv == \A q \in Procs : pc[q] = "removing" =>
  \A p \in Procs \ {q} : pc[p] # "removing" /\ (mode[p] = "slotted" => pc[p] = "idle")

\* A slotted start that copies, or has copied, an entry.
Served(p) ==
  /\ mode[p] = "slotted" /\ pc[p] # "removing" /\ ver[p] \notin uncached
  /\ p \notin stripped
  /\ hit[p] \/ pc[p] = "copying"

\* What it has copied is whole.
CopyInv == \A p \in Procs : Served(p) =>
  /\ ver[p] \in dirs
  /\ \A f \in Files : tree[ver[p]][f] = "whole" \/ (pc[p] = "copying" /\ f \in todo[p])

\* The archive of the i-th extension.
Chosen(p, i) == Selected(p, Declared[p][i])

\* Where the hook has begun with the extension numbered next, where it has not written
\* anything of it yet.
Installing == {"acquire", "download", "verify", "writing", "hooked"}
Preparing == {"acquire", "download", "verify"}

\* A file of the i-th extension is this one's, or a later one's that has it too.
Written(p, i, f) == tree[ver[p]][f] \in {Chosen(p, j) : j \in i..next[p]}

\* What the hook has written so far.
WrittenSoFar(p) ==
  /\ next[p] \in DOMAIN Declared[p]
  /\ pc[p] = "writing" => bytes[p] = Chosen(p, next[p])
  /\ pc[p] = "hooked" => next[p] = Len(Declared[p])
  /\ \A i \in 1..next[p] : \A f \in Contents[Chosen(p, i)] :
       \/ i = next[p] /\ pc[p] \in Preparing
       \/ i = next[p] /\ pc[p] = "writing" /\ f \in todo[p]
       \/ Written(p, i, f)

WrittenInv == \A p \in Procs \ stripped :
  mode[p] = "slotted" /\ pc[p] \in Installing => WrittenSoFar(p)

UseInv == WaitInv /\ RemoveInv /\ CopyInv /\ WrittenInv

USE DEF Live, Looking, Hook, Caching

-----------------------------------------------------------------------------
(* The locks.                                                              *)

\* Every step keeps the setup lock from who waits for it.
LEMMA WaitNext ==
  ASSUME TypeOK, WaitInv, [Next]_vars
  PROVE  WaitInv'
<1> USE Constants DEF TypeOK, stores, WaitInv
<1>1. ASSUME NEW p \in Procs, NEW m \in {"slotted", "explicit", "cli"}, Bootstrap(p, m)
      PROVE WaitInv'
  BY <1>1 DEF Bootstrap, Goto
<1>2. ASSUME NEW p \in Procs, AcquireSetup(p) PROVE WaitInv'
  BY <1>2 DEF AcquireSetup, Goto
<1>3. ASSUME NEW p \in Procs, FindCached(p) PROVE WaitInv'
  BY <1>3 DEF FindCached, Goto
<1>4. ASSUME NEW p \in Procs, LockEntry(p) PROVE WaitInv'
  BY <1>4 DEF LockEntry, Miss, Goto
<1>5. ASSUME NEW p \in Procs, NEW f \in AllFiles, CopyFile(p, f) PROVE WaitInv'
  BY <1>5 DEF CopyFile
<1>6. ASSUME NEW p \in Procs, CacheHit(p) PROVE WaitInv'
  BY <1>6 DEF CacheHit, Goto
<1>7. ASSUME NEW p \in Procs, CopyFails(p) PROVE WaitInv'
  BY <1>7 DEF CopyFails, Miss, Goto
<1>8. ASSUME NEW p \in Procs, Setup(p) PROVE WaitInv'
  BY <1>8 DEF Setup, Goto
<1>9. ASSUME NEW p \in Procs, ResolveForCache(p) PROVE WaitInv'
  BY <1>9 DEF ResolveForCache, Goto
<1>10. ASSUME NEW p \in Procs, LockForPopulate(p) PROVE WaitInv'
  BY <1>10 DEF LockForPopulate, Goto
<1>11. ASSUME NEW p \in Procs, NEW f \in AllFiles, PopulateFile(p, f) PROVE WaitInv'
  BY <1>11 DEF PopulateFile
<1>12. ASSUME NEW p \in Procs, Populated(p) PROVE WaitInv'
  BY <1>12 DEF Populated, Goto
<1>13. ASSUME NEW p \in Procs, WriteMarker(p) PROVE WaitInv'
  BY <1>13 DEF WriteMarker, Goto
<1>14. ASSUME NEW p \in Procs, PopulationFails(p) PROVE WaitInv'
  BY <1>14 DEF PopulationFails, Goto
<1>15. ASSUME NEW p \in Procs, ForHook(p) PROVE WaitInv'
  BY <1>15 DEF ForHook, Goto
<1>16. ASSUME NEW p \in Procs, Relock(p) PROVE WaitInv'
  BY <1>16 DEF Relock, Goto
<1>17. ASSUME NEW p \in Procs, SelectAll(p) PROVE WaitInv'
  BY <1>17 DEF SelectAll, Goto
<1>18. ASSUME NEW p \in Procs, Acquire(p) PROVE WaitInv'
  BY <1>18 DEF Acquire, Goto
<1>19. ASSUME NEW p \in Procs, Download(p) PROVE WaitInv'
  BY <1>19 DEF Download, Goto
<1>20. ASSUME NEW p \in Procs, Verify(p) PROVE WaitInv'
  BY <1>20 DEF Verify, Goto
<1>21. ASSUME NEW p \in Procs, NEW f \in AllFiles, WriteFile(p, f) PROVE WaitInv'
  BY <1>21 DEF WriteFile
<1>22. ASSUME NEW p \in Procs, Installed(p) PROVE WaitInv'
  BY <1>22 DEF Installed, Goto
<1>23. ASSUME NEW p \in Procs, HookDone(p) PROVE WaitInv'
  BY <1>23 DEF HookDone, Goto
<1>24. ASSUME NEW p \in Procs, Start(p) PROVE WaitInv'
  BY <1>24 DEF Start, Goto
<1>25. ASSUME NEW p \in Procs, SetupOnlyDone(p) PROVE WaitInv'
  BY <1>25 DEF SetupOnlyDone, Gone, Goto
<1>26. ASSUME NEW p \in Procs, Stop(p) PROVE WaitInv'
  BY <1>26 DEF Stop, Gone, Goto
<1>27. ASSUME NEW p \in Procs, PlanFull(p) PROVE WaitInv'
  BY <1>27 DEF PlanFull, Goto
<1>27a. ASSUME NEW p \in Procs, PlanUnguarded(p) PROVE WaitInv'
  BY <1>27a DEF PlanUnguarded, Goto
<1>28. ASSUME NEW p \in Procs, NEW f \in AllFiles, RemoveFile(p, f) PROVE WaitInv'
  BY <1>28 DEF RemoveFile
<1>29. ASSUME NEW p \in Procs, Removed(p) PROVE WaitInv'
  BY <1>29 DEF Removed, Gone, Goto
<1>30. ASSUME NEW p \in Procs, Fails(p) PROVE WaitInv'
  BY <1>30 DEF Fails, Gone, Goto
<1>31. ASSUME NEW p \in Procs, Abort(p) PROVE WaitInv'
  BY <1>31 DEF Abort, Gone, Goto
<1>32. ASSUME NEW a \in Archives, Spoil(a) PROVE WaitInv'
  BY <1>32 DEF Spoil, procVars
<1>33. CASE UNCHANGED vars
  BY <1>33 DEF vars
<1> HIDE DEF TypeOK, WaitInv
<1>34. QED
  BY <1>1, <1>2, <1>3, <1>4, <1>5, <1>6, <1>7, <1>8, <1>9, <1>10, <1>11, <1>12, <1>13,
     <1>14, <1>15, <1>16, <1>17, <1>18, <1>19, <1>20, <1>21, <1>22, <1>23, <1>24, <1>25,
     <1>26, <1>27, <1>27a, <1>28, <1>29, <1>30, <1>31, <1>32, <1>33
  DEF Next, Work, Lock

\* Every step keeps slotted clusters away from a removal.
LEMMA RemoveNext ==
  ASSUME TypeOK, RemoveInv, [Next]_vars
  PROVE  RemoveInv'
<1>moves. ASSUME NEW p \in Procs, pc[p] # "idle", pc'[p] # "removing", mode' = mode,
                 \A q \in Procs \ {p} : pc'[q] = pc[q]
          PROVE  RemoveInv'
  BY <1>moves DEF RemoveInv
<1> USE Constants DEF TypeOK, stores, RemoveInv
<1>1. ASSUME NEW p \in Procs, NEW m \in {"slotted", "explicit", "cli"}, Bootstrap(p, m)
      PROVE RemoveInv'
  BY <1>1 DEF Bootstrap, Goto
<1>2. ASSUME NEW p \in Procs, AcquireSetup(p) PROVE RemoveInv'
  BY <1>2 DEF AcquireSetup, Goto
<1>3. ASSUME NEW p \in Procs, FindCached(p) PROVE RemoveInv'
  <2>1. /\ pc[p] # "idle" /\ pc'[p] # "removing" /\ mode' = mode
        /\ \A q \in Procs \ {p} : pc'[q] = pc[q]
    BY <1>3 DEF FindCached, Goto
  <2>2. QED
    BY <1>moves, <2>1
<1>4. ASSUME NEW p \in Procs, LockEntry(p) PROVE RemoveInv'
  <2>1. /\ pc[p] # "idle" /\ pc'[p] # "removing" /\ mode' = mode
        /\ \A q \in Procs \ {p} : pc'[q] = pc[q]
    BY <1>4 DEF LockEntry, Miss, Goto
  <2>2. QED
    BY <1>moves, <2>1
<1>5. ASSUME NEW p \in Procs, NEW f \in AllFiles, CopyFile(p, f) PROVE RemoveInv'
  BY <1>5 DEF CopyFile
<1>6. ASSUME NEW p \in Procs, CacheHit(p) PROVE RemoveInv'
  BY <1>6 DEF CacheHit, Goto
<1>7. ASSUME NEW p \in Procs, CopyFails(p) PROVE RemoveInv'
  BY <1>7 DEF CopyFails, Miss, Goto
<1>8. ASSUME NEW p \in Procs, Setup(p) PROVE RemoveInv'
  BY <1>8 DEF Setup, Goto
<1>9. ASSUME NEW p \in Procs, ResolveForCache(p) PROVE RemoveInv'
  <2>1. /\ pc[p] # "idle" /\ pc'[p] # "removing" /\ mode' = mode
        /\ \A q \in Procs \ {p} : pc'[q] = pc[q]
    BY <1>9 DEF ResolveForCache, Goto
  <2>2. QED
    BY <1>moves, <2>1
<1>10. ASSUME NEW p \in Procs, LockForPopulate(p) PROVE RemoveInv'
  <2>1. /\ pc[p] # "idle" /\ pc'[p] # "removing" /\ mode' = mode
        /\ \A q \in Procs \ {p} : pc'[q] = pc[q]
    BY <1>10 DEF LockForPopulate, Goto
  <2>2. QED
    BY <1>moves, <2>1
<1>11. ASSUME NEW p \in Procs, NEW f \in AllFiles, PopulateFile(p, f) PROVE RemoveInv'
  BY <1>11 DEF PopulateFile
<1>12. ASSUME NEW p \in Procs, Populated(p) PROVE RemoveInv'
  BY <1>12 DEF Populated, Goto
<1>13. ASSUME NEW p \in Procs, WriteMarker(p) PROVE RemoveInv'
  BY <1>13 DEF WriteMarker, Goto
<1>14. ASSUME NEW p \in Procs, PopulationFails(p) PROVE RemoveInv'
  BY <1>14 DEF PopulationFails, Goto
<1>15. ASSUME NEW p \in Procs, ForHook(p) PROVE RemoveInv'
  BY <1>15 DEF ForHook, Goto
<1>16. ASSUME NEW p \in Procs, Relock(p) PROVE RemoveInv'
  BY <1>16 DEF Relock, Goto
<1>17. ASSUME NEW p \in Procs, SelectAll(p) PROVE RemoveInv'
  BY <1>17 DEF SelectAll, Goto
<1>18. ASSUME NEW p \in Procs, Acquire(p) PROVE RemoveInv'
  <2>1. /\ pc[p] # "idle" /\ pc'[p] # "removing" /\ mode' = mode
        /\ \A q \in Procs \ {p} : pc'[q] = pc[q]
    BY <1>18 DEF Acquire, Goto
  <2>2. QED
    BY <1>moves, <2>1
<1>19. ASSUME NEW p \in Procs, Download(p) PROVE RemoveInv'
  BY <1>19 DEF Download, Goto
<1>20. ASSUME NEW p \in Procs, Verify(p) PROVE RemoveInv'
  BY <1>20 DEF Verify, Goto
<1>21. ASSUME NEW p \in Procs, NEW f \in AllFiles, WriteFile(p, f) PROVE RemoveInv'
  BY <1>21 DEF WriteFile
<1>22. ASSUME NEW p \in Procs, Installed(p) PROVE RemoveInv'
  <2>1. /\ pc[p] # "idle" /\ pc'[p] # "removing" /\ mode' = mode
        /\ \A q \in Procs \ {p} : pc'[q] = pc[q]
    BY <1>22 DEF Installed, Goto
  <2>2. QED
    BY <1>moves, <2>1
<1>23. ASSUME NEW p \in Procs, HookDone(p) PROVE RemoveInv'
  BY <1>23 DEF HookDone, Goto
<1>24. ASSUME NEW p \in Procs, Start(p) PROVE RemoveInv'
  BY <1>24 DEF Start, Goto
<1>25. ASSUME NEW p \in Procs, SetupOnlyDone(p) PROVE RemoveInv'
  BY <1>25 DEF SetupOnlyDone, Gone, Goto
<1>26. ASSUME NEW p \in Procs, Stop(p) PROVE RemoveInv'
  BY <1>26 DEF Stop, Gone, Goto
<1>27. ASSUME NEW p \in Procs, PlanFull(p) PROVE RemoveInv'
  BY <1>27 DEF PlanFull, Goto
<1>27a. ASSUME NEW p \in Procs, PlanUnguarded(p) PROVE RemoveInv'
  BY <1>27a DEF PlanUnguarded, Goto
<1>28. ASSUME NEW p \in Procs, NEW f \in AllFiles, RemoveFile(p, f) PROVE RemoveInv'
  BY <1>28 DEF RemoveFile
<1>29. ASSUME NEW p \in Procs, Removed(p) PROVE RemoveInv'
  BY <1>29 DEF Removed, Gone, Goto
<1>30. ASSUME NEW p \in Procs, Fails(p) PROVE RemoveInv'
  BY <1>30 DEF Fails, Gone, Goto
<1>31. ASSUME NEW p \in Procs, Abort(p) PROVE RemoveInv'
  BY <1>31 DEF Abort, Gone, Goto
<1>32. ASSUME NEW a \in Archives, Spoil(a) PROVE RemoveInv'
  BY <1>32 DEF Spoil, procVars
<1>33. CASE UNCHANGED vars
  BY <1>33 DEF vars
<1> HIDE DEF TypeOK, RemoveInv
<1>34. QED
  BY <1>1, <1>2, <1>3, <1>4, <1>5, <1>6, <1>7, <1>8, <1>9, <1>10, <1>11, <1>12, <1>13,
     <1>14, <1>15, <1>16, <1>17, <1>18, <1>19, <1>20, <1>21, <1>22, <1>23, <1>24, <1>25,
     <1>26, <1>27, <1>27a, <1>28, <1>29, <1>30, <1>31, <1>32, <1>33
  DEF Next, Work, Lock

\* Entries' and archives' locks are free for who wants them: only the process with the
\* setup lock takes them.
LEMMA OnlySetupBlocks ==
  ASSUME Protocol, NEW p \in Procs, pc[p] \notin {"bootstrapped", "relock"}
  PROVE  WaitsFor(p) = {}
<1> USE DEF Protocol, LockInv, Locking
<1>1. CASE pc[p] = "cachelock"
  <2>1. \A q \in Procs : pc[q] \in {"populating", "marking"} => FALSE
    BY <1>1
  <2>2. QED
    BY <1>1, <2>1 DEF WaitsFor
<1>2. CASE pc[p] = "poplock"
  <2>1. \A q \in Procs : pc[q] \in {"copying", "populating", "marking"} => FALSE
    BY <1>2
  <2>2. QED
    BY <1>2, <2>1 DEF WaitsFor
<1>3. CASE pc[p] = "acquire"
  <2>1. \A q \in Procs : pc[q] = "download" => FALSE
    BY <1>3
  <2>2. QED
    BY <1>3, <2>1 DEF WaitsFor
<1>4. CASE pc[p] \notin {"cachelock", "poplock", "acquire"}
  BY <1>4 DEF WaitsFor
<1>5. QED
  BY <1>1, <1>2, <1>3, <1>4

\* In every set of processes there is one that waits for none of them: the one with the
\* setup lock, or any if that is not among them.
LEMMA SomebodyProceeds ==
  ASSUME Protocol, WaitInv
  PROVE  NoWaitCycle
<1> SUFFICES ASSUME NEW S \in (SUBSET Procs) \ {{}}
             PROVE  \E p \in S : WaitsFor(p) \cap S = {}
  BY DEF NoWaitCycle
<1>1. CASE setup \in S
  <2>1. setup \in Procs /\ pc[setup] \notin {"bootstrapped", "relock"}
    BY <1>1 DEF WaitInv
  <2>2. WaitsFor(setup) = {}
    BY <2>1, OnlySetupBlocks
  <2>3. QED
    BY <1>1, <2>2
<1>2. CASE setup \notin S
  <2>1. PICK p \in S : TRUE
    OBVIOUS
  <2>2. CASE pc[p] \in {"bootstrapped", "relock"}
    <3>1. WaitsFor(p) = {q \in Procs : setup = q}
      BY <2>2 DEF WaitsFor
    <3>2. WaitsFor(p) \cap S = {}
      BY <1>2, <3>1
    <3>3. QED
      BY <3>2
  <2>3. CASE pc[p] \notin {"bootstrapped", "relock"}
    <3>1. WaitsFor(p) = {}
      BY <2>3, OnlySetupBlocks
    <3>2. QED
      BY <3>1
  <2>4. QED
    BY <2>2, <2>3
<1>3. QED
  BY <1>1, <1>2

-----------------------------------------------------------------------------
(* The tree of a hit.                                                      *)

\* A step of a removal.
Removes(q) == Removed(q) \/ \E f \in AllFiles : RemoveFile(q, f)

\* Nobody removes a file or a directory under the guard while there is a slotted cluster.
LEMMA NoRemoval ==
  ASSUME RemoveInv, NEW p \in Procs, mode[p] = "slotted", pc[p] \notin {"idle", "removing"}
  PROVE  \A q \in Procs : pc[q] # "removing"
BY DEF RemoveInv

\* Who removes from its version without the guard is remembered.
LEMMA Struck ==
  ASSUME RemoveInv, NEW p \in Procs, mode[p] = "slotted", pc[p] \notin {"idle", "removing"},
         NEW q \in Procs, Removes(q), ver[q] = ver[p]
  PROVE  p \in stripped'
<1>1. pc[q] = "stripping" /\ stripped' = stripped \cup Stripped(q)
  BY NoRemoval DEF Removes, Removed, RemoveFile
<1>2. QED
  BY <1>1 DEF Stripped

\* An entry that is copied is the release, unless a population of it has failed.
LEMMA CopiesRelease ==
  ASSUME IndInv, NEW p \in Procs, pc[p] = "copying", ver[p] \notin uncached
  PROVE  \A f \in Files : cache[ver[p]][f] = "whole"
<1>1. ver[p] \in Versions \ uncached /\ ~Fresh(ver[p])
  BY DEF IndInv, Protocol, PlaceInv, Based, Contained, UsedInv
<1>2. \A f \in Files : cache[ver[p]][f] = Pristine[f]
  BY <1>1 DEF IndInv, Contained, EntryInv, Fresh
<1>3. QED
  BY <1>2, Constants DEF Pristine

\* As long as nothing of it is removed, a whole file of such a version stays whole.
LEMMA WholeStays ==
  ASSUME IndInv, [Next]_vars, NEW v \in Versions \ uncached, v \in dirs,
         \A q \in Procs : ver[q] = v => ~Removes(q)
  PROVE  /\ v \in dirs'
         /\ \A g \in Files : tree[v][g] = "whole" => tree'[v][g] = "whole"
<1> DEFINE Goal == /\ v \in dirs'
                   /\ \A g \in Files : tree[v][g] = "whole" => tree'[v][g] = "whole"
<1> USE Constants DEF IndInv, TypeOK, Protocol, PlaceInv, Based
<1>1. ASSUME UNCHANGED <<dirs, tree, cache, uncached>> PROVE Goal
  BY <1>1
<1>2. ASSUME NEW p \in Procs, LockEntry(p) PROVE Goal
  BY <1>2 DEF LockEntry, Miss, stores
<1>3. ASSUME NEW p \in Procs, NEW f \in AllFiles, CopyFile(p, f) PROVE Goal
  <2>1. pc[p] = "copying" /\ ver[p] \in Versions /\ dirs' = dirs
    BY <1>3 DEF CopyFile
  <2>2. CASE ver[p] # v
    <3>1. \E c : tree' = [tree EXCEPT ![ver[p]][f] = c]
      BY <1>3, Zenon DEF CopyFile
    <3>2. tree'[v] = tree[v]
      BY <2>1, <2>2, <3>1, OneFile
    <3>3. QED
      BY <2>1, <3>2
  <2>3. CASE ver[p] = v
    <3>1. \A g \in Files : cache[v][g] = "whole"
      BY <2>1, <2>3, CopiesRelease
    <3>2. \E c : /\ tree' = [tree EXCEPT ![v][f] = c]
                 /\ c = cache[v][f] \/ tree[v][f] # cache[v][f]
      BY <1>3, <2>3, Zenon DEF CopyFile
    <3>3. PICK c : /\ tree' = [tree EXCEPT ![v][f] = c]
                   /\ c = cache[v][f] \/ tree[v][f] # cache[v][f]
      BY <3>2
    <3>4. tree'[v][f] = c /\ \A g \in AllFiles \ {f} : tree'[v][g] = tree[v][g]
      BY <3>3, OneFile
    <3>5. ASSUME NEW g \in Files, tree[v][g] = "whole" PROVE tree'[v][g] = "whole"
      BY <3>1, <3>3, <3>4, <3>5
    <3>6. QED
      BY <2>1, <3>5
  <2>4. QED
    BY <2>2, <2>3
<1>4. ASSUME NEW p \in Procs, Setup(p) PROVE Goal
  <2>1. \/ UNCHANGED <<dirs, tree>>
        \/ \E w : dirs' = dirs \cup {w} /\ tree' = [tree EXCEPT ![w] = Pristine]
    BY <1>4, Zenon DEF Setup
  <2>2. v \in dirs' /\ tree'[v] \in {tree[v], Pristine}
    BY <2>1
  <2>3. QED
    BY <2>2 DEF Pristine
<1>5. ASSUME NEW p \in Procs, NEW f \in AllFiles, PopulateFile(p, f) PROVE Goal
  BY <1>5 DEF PopulateFile
<1>6. ASSUME NEW p \in Procs, WriteMarker(p) PROVE Goal
  BY <1>6 DEF WriteMarker
<1>7. ASSUME NEW p \in Procs, PopulationFails(p) PROVE Goal
  BY <1>7 DEF PopulationFails
<1>8. ASSUME NEW p \in Procs, NEW f \in AllFiles, WriteFile(p, f) PROVE Goal
  <2>1. ver[p] \in Versions /\ f \in ExtensionFiles /\ dirs' = dirs
    BY <1>8 DEF WriteFile, HookInv
  <2>2. tree' = [tree EXCEPT ![ver[p]][f] = bytes[p]]
    BY <1>8 DEF WriteFile
  <2>3. \A g \in AllFiles \ {f} : tree'[v][g] = tree[v][g]
    BY <2>1, <2>2, OneFile
  <2>4. QED
    BY <2>1, <2>3
<1>9. ASSUME NEW p \in Procs, NEW f \in AllFiles, RemoveFile(p, f) PROVE Goal
  <2>1. ver[p] \in Versions /\ ver[p] # v /\ dirs' = dirs
    BY <1>9 DEF RemoveFile, Removes
  <2>2. tree' = [tree EXCEPT ![ver[p]][f] = "absent"]
    BY <1>9 DEF RemoveFile
  <2>3. tree'[v] = tree[v]
    BY <2>1, <2>2, OneFile
  <2>4. QED
    BY <2>1, <2>3
<1>10. ASSUME NEW p \in Procs, Removed(p) PROVE Goal
  BY <1>10 DEF Removed, Removes
<1> HIDE DEF IndInv, TypeOK, Protocol, Goal
<1>11. Goal
  BY Writers, <1>1, <1>2, <1>3, <1>4, <1>5, <1>6, <1>7, <1>8, <1>9, <1>10
<1>12. QED
  BY <1>11 DEF Goal

\* What has been copied for a slotted start stays.
LEMMA ServedStays ==
  ASSUME IndInv, RemoveInv, CopyInv, [Next]_vars,
         NEW p \in Procs, Served(p), p \notin stripped'
  PROVE  /\ ver[p] \in dirs'
         /\ \A f \in Files : tree'[ver[p]][f] = "whole" \/ (pc[p] = "copying" /\ f \in todo[p])
<1>1. pc[p] \notin {"idle", "removing"}
  BY DEF Served, IndInv, Protocol, PlaceInv
<1>2. \A q \in Procs : ver[q] = ver[p] => ~Removes(q)
  BY <1>1, Struck DEF Served
<1>3. pc[p] \in Based \/ (pc[p] = "setup" /\ hit[p])
  BY <1>1 DEF Served, IndInv, TypeOK, Protocol, PlaceInv, Based
<1>4. ver[p] \in Versions \ uncached /\ ver[p] \in dirs
  BY <1>3 DEF Served, IndInv, Protocol, PlaceInv, CopyInv
<1>5. QED
  BY <1>2, <1>4, WholeStays DEF CopyInv

\* Every step keeps what slotted starts have copied.
LEMMA CopyNext ==
  ASSUME IndInv, RemoveInv, CopyInv, [Next]_vars
  PROVE  CopyInv'
<1> DEFINE Same(q) == /\ pc'[q] = pc[q] /\ mode'[q] = mode[q] /\ ver'[q] = ver[q]
                      /\ hit'[q] = hit[q] /\ todo'[q] = todo[q]
                      /\ q \in stripped => q \in stripped'
<1> HIDE DEF Same
<1>same. ASSUME NEW q \in Procs, Same(q), uncached \subseteq uncached', Served(q)'
         PROVE  /\ ver'[q] \in dirs'
                /\ \A f \in Files :
                     tree'[ver'[q]][f] = "whole" \/ (pc'[q] = "copying" /\ f \in todo'[q])
  <2>1. Served(q) /\ q \notin stripped'
    BY <1>same DEF Served, Same
  <2>2. QED
    BY <1>same, <2>1, ServedStays DEF Same
<1>frame. ASSUME NEW p \in Procs, \A q \in Procs \ {p} : Same(q), uncached \subseteq uncached',
                 Served(p)' =>
                   /\ ver'[p] \in dirs'
                   /\ \A f \in Files :
                        tree'[ver'[p]][f] = "whole" \/ (pc'[p] = "copying" /\ f \in todo'[p])
          PROVE  CopyInv'
  BY <1>frame, <1>same DEF CopyInv
<1>keeps. ASSUME NEW p \in Procs, \A q \in Procs \ {p} : Same(q), uncached \subseteq uncached',
                 Served(p)' => Served(p) /\ ver'[p] = ver[p] /\ pc[p] # "copying"
          PROVE  CopyInv'
  <2>1. Served(p)' => p \notin stripped'
    BY DEF Served
  <2>2. QED
    BY <1>keeps, <1>frame, <2>1, ServedStays
<1>quiet. ASSUME \A q \in Procs : Same(q), uncached' = uncached PROVE CopyInv'
  BY <1>quiet, <1>same DEF CopyInv
<1> USE Constants DEF IndInv, TypeOK, stores, Protocol, PlaceInv, Based
<1>1. ASSUME NEW p \in Procs, NEW m \in {"slotted", "explicit", "cli"}, Bootstrap(p, m)
      PROVE CopyInv'
  <2>1. /\ \A q \in Procs \ {p} : Same(q)
        /\ uncached \subseteq uncached'
    BY <1>1 DEF Bootstrap, Goto, Same
  <2>2. Served(p)' => Served(p) /\ ver'[p] = ver[p] /\ pc[p] # "copying"
    BY <1>1 DEF Bootstrap, Goto, Served
  <2>3. QED
    BY <1>keeps, <2>1, <2>2
<1>2. ASSUME NEW p \in Procs, AcquireSetup(p) PROVE CopyInv'
  <2>1. /\ \A q \in Procs \ {p} : Same(q)
        /\ uncached \subseteq uncached'
    BY <1>2 DEF AcquireSetup, Goto, Same
  <2>2. Served(p)' => Served(p) /\ ver'[p] = ver[p] /\ pc[p] # "copying"
    BY <1>2 DEF AcquireSetup, Goto, Served
  <2>3. QED
    BY <1>keeps, <2>1, <2>2
<1>3. ASSUME NEW p \in Procs, FindCached(p) PROVE CopyInv'
  <2>1. /\ \A q \in Procs \ {p} : Same(q)
        /\ uncached \subseteq uncached'
    BY <1>3 DEF FindCached, Goto, Same
  <2>2. ~Served(p)'
    BY <1>3 DEF FindCached, Goto, Served
  <2>3. QED
    BY <1>keeps, <2>1, <2>2
<1>4. ASSUME NEW p \in Procs, LockEntry(p) PROVE CopyInv'
  <2>1. /\ \A q \in Procs \ {p} : Same(q)
        /\ pc[p] = "cachelock" /\ ver[p] \in Versions /\ uncached' = uncached /\ ~hit'[p]
    BY <1>4 DEF LockEntry, Miss, Goto, Same
  <2>2. CASE Miss(p)
    <3>1. ~Served(p)'
      BY <2>1, <2>2 DEF Miss, Goto, Served
    <3>2. QED
      BY <1>keeps, <2>1, <3>1
  <2>3. CASE ~Miss(p)
    <3>1. /\ Complete(ver[p]) /\ ver' = ver /\ dirs' = dirs \cup {ver[p]}
          /\ todo'[p] = Present(cache[ver[p]]) /\ pc'[p] = "copying"
      BY <1>4, <2>3 DEF LockEntry, Goto
    <3>2. ver[p] \notin uncached => \A f \in Files : cache[ver[p]][f] = "whole"
      BY <2>1, <3>1 DEF Complete, Contained, EntryInv, Marked, Pristine
    <3>3. ver[p] \notin uncached => Files \subseteq todo'[p]
      BY <3>1, <3>2 DEF Present
    <3>4. Served(p)' => ver'[p] \in dirs' /\ pc'[p] = "copying" /\ Files \subseteq todo'[p]
      BY <2>1, <3>1, <3>3 DEF Served
    <3>5. QED
      BY <1>frame, <2>1, <3>4
  <2>4. QED
    BY <2>2, <2>3
<1>5. ASSUME NEW p \in Procs, NEW f \in AllFiles, CopyFile(p, f) PROVE CopyInv'
  <2>1. /\ \A q \in Procs \ {p} : Same(q)
        /\ pc[p] = "copying" /\ ver[p] \in Versions
        /\ UNCHANGED <<pc, mode, ver, hit, cache, uncached, stripped>>
    BY <1>5 DEF CopyFile, Same
  <2>2. \/ todo'[p] = todo[p]
        \/ todo'[p] = todo[p] \ {f} /\ tree' = [tree EXCEPT ![ver[p]][f] = cache[ver[p]][f]]
    BY <1>5 DEF CopyFile
  <2>3. ASSUME Served(p)'
        PROVE  /\ ver'[p] \in dirs'
               /\ \A g \in Files :
                    tree'[ver[p]][g] = "whole" \/ (pc'[p] = "copying" /\ g \in todo'[p])
    <3>1. Served(p) /\ p \notin stripped' /\ ver[p] \notin uncached
      BY <2>1, <2>3 DEF Served
    <3>2. /\ ver[p] \in dirs'
          /\ \A g \in Files : tree'[ver[p]][g] = "whole" \/ g \in todo[p]
      BY <3>1, ServedStays
    <3>3. \A g \in Files : cache[ver[p]][g] = "whole"
      BY <2>1, <3>1, CopiesRelease
    <3>4. todo'[p] = todo[p] \/ (todo'[p] = todo[p] \ {f} /\ tree'[ver[p]][f] = cache[ver[p]][f])
      BY <2>1, <2>2, OneFile
    <3>5. QED
      BY <2>1, <3>2, <3>3, <3>4
  <2>4. QED
    BY <1>frame, <2>1, <2>3
<1>6. ASSUME NEW p \in Procs, CacheHit(p) PROVE CopyInv'
  <2>1. /\ \A q \in Procs \ {p} : Same(q)
        /\ pc[p] = "copying" /\ todo[p] = {}
        /\ UNCHANGED <<mode, ver, uncached, stripped>>
    BY <1>6 DEF CacheHit, Goto, Same
  <2>2. Served(p)' => Served(p) /\ p \notin stripped'
    BY <2>1 DEF Served
  <2>3. Served(p)' => /\ ver'[p] \in dirs'
                      /\ \A f \in Files : tree'[ver'[p]][f] = "whole"
    BY <2>1, <2>2, ServedStays
  <2>4. QED
    BY <1>frame, <2>1, <2>3
<1>7. ASSUME NEW p \in Procs, CopyFails(p) PROVE CopyInv'
  <2>1. /\ \A q \in Procs \ {p} : Same(q)
        /\ uncached \subseteq uncached'
    BY <1>7 DEF CopyFails, Miss, Goto, Same
  <2>2. ~Served(p)'
    BY <1>7 DEF CopyFails, Miss, Goto, Served
  <2>3. QED
    BY <1>keeps, <2>1, <2>2
<1>8. ASSUME NEW p \in Procs, Setup(p) PROVE CopyInv'
  <2>1. /\ \A q \in Procs \ {p} : Same(q)
        /\ uncached \subseteq uncached'
    BY <1>8 DEF Setup, Goto, Same
  <2>2. Served(p)' => Served(p) /\ ver'[p] = ver[p] /\ pc[p] # "copying"
    BY <1>8 DEF Setup, Goto, Served
  <2>3. QED
    BY <1>keeps, <2>1, <2>2
<1>9. ASSUME NEW p \in Procs, ResolveForCache(p) PROVE CopyInv'
  <2>1. /\ \A q \in Procs \ {p} : Same(q)
        /\ uncached \subseteq uncached'
    BY <1>9 DEF ResolveForCache, Goto, Same
  <2>2. ~Served(p)'
    BY <1>9 DEF ResolveForCache, Goto, Served
  <2>3. QED
    BY <1>keeps, <2>1, <2>2
<1>10. ASSUME NEW p \in Procs, LockForPopulate(p) PROVE CopyInv'
  <2>1. /\ \A q \in Procs \ {p} : Same(q)
        /\ uncached \subseteq uncached'
    BY <1>10 DEF LockForPopulate, Goto, Same
  <2>2. ~Served(p)'
    BY <1>10 DEF LockForPopulate, Goto, Served
  <2>3. QED
    BY <1>keeps, <2>1, <2>2
<1>11. ASSUME NEW p \in Procs, NEW f \in AllFiles, PopulateFile(p, f) PROVE CopyInv'
  <2>1. /\ \A q \in Procs \ {p} : Same(q)
        /\ uncached \subseteq uncached'
    BY <1>11 DEF PopulateFile, Same
  <2>2. Served(p)' => Served(p) /\ ver'[p] = ver[p] /\ pc[p] # "copying"
    BY <1>11 DEF PopulateFile, Served
  <2>3. QED
    BY <1>keeps, <2>1, <2>2
<1>12. ASSUME NEW p \in Procs, Populated(p) PROVE CopyInv'
  <2>1. /\ \A q \in Procs \ {p} : Same(q)
        /\ uncached \subseteq uncached'
    BY <1>12 DEF Populated, Goto, Same
  <2>2. ~Served(p)'
    BY <1>12 DEF Populated, Goto, Served
  <2>3. QED
    BY <1>keeps, <2>1, <2>2
<1>13. ASSUME NEW p \in Procs, WriteMarker(p) PROVE CopyInv'
  <2>1. /\ \A q \in Procs \ {p} : Same(q)
        /\ uncached \subseteq uncached'
    BY <1>13 DEF WriteMarker, Goto, Same
  <2>2. Served(p)' => Served(p) /\ ver'[p] = ver[p] /\ pc[p] # "copying"
    BY <1>13 DEF WriteMarker, Goto, Served
  <2>3. QED
    BY <1>keeps, <2>1, <2>2
<1>14. ASSUME NEW p \in Procs, PopulationFails(p) PROVE CopyInv'
  <2>1. /\ \A q \in Procs \ {p} : Same(q)
        /\ uncached \subseteq uncached'
    BY <1>14 DEF PopulationFails, Goto, Same
  <2>2. Served(p)' => Served(p) /\ ver'[p] = ver[p] /\ pc[p] # "copying"
    BY <1>14 DEF PopulationFails, Goto, Served
  <2>3. QED
    BY <1>keeps, <2>1, <2>2
<1>15. ASSUME NEW p \in Procs, ForHook(p) PROVE CopyInv'
  <2>1. /\ \A q \in Procs \ {p} : Same(q)
        /\ uncached \subseteq uncached'
    BY <1>15 DEF ForHook, Goto, Same
  <2>2. Served(p)' => Served(p) /\ ver'[p] = ver[p] /\ pc[p] # "copying"
    BY <1>15 DEF ForHook, Goto, Served
  <2>3. QED
    BY <1>keeps, <2>1, <2>2
<1>16. ASSUME NEW p \in Procs, Relock(p) PROVE CopyInv'
  <2>1. /\ \A q \in Procs \ {p} : Same(q)
        /\ uncached \subseteq uncached'
    BY <1>16 DEF Relock, Goto, Same
  <2>2. Served(p)' => Served(p) /\ ver'[p] = ver[p] /\ pc[p] # "copying"
    BY <1>16 DEF Relock, Goto, Served
  <2>3. QED
    BY <1>keeps, <2>1, <2>2
<1>17. ASSUME NEW p \in Procs, SelectAll(p) PROVE CopyInv'
  <2>1. /\ \A q \in Procs \ {p} : Same(q)
        /\ uncached \subseteq uncached'
    BY <1>17 DEF SelectAll, Goto, Same
  <2>2. Served(p)' => Served(p) /\ ver'[p] = ver[p] /\ pc[p] # "copying"
    BY <1>17 DEF SelectAll, Goto, Served
  <2>3. QED
    BY <1>keeps, <2>1, <2>2
<1>18. ASSUME NEW p \in Procs, Acquire(p) PROVE CopyInv'
  <2>1. /\ \A q \in Procs \ {p} : Same(q)
        /\ uncached \subseteq uncached'
    BY <1>18 DEF Acquire, Goto, Same
  <2>2. Served(p)' => Served(p) /\ ver'[p] = ver[p] /\ pc[p] # "copying"
    BY <1>18 DEF Acquire, Goto, Served
  <2>3. QED
    BY <1>keeps, <2>1, <2>2
<1>19. ASSUME NEW p \in Procs, Download(p) PROVE CopyInv'
  <2>1. /\ \A q \in Procs \ {p} : Same(q)
        /\ uncached \subseteq uncached'
    BY <1>19 DEF Download, Goto, Same
  <2>2. Served(p)' => Served(p) /\ ver'[p] = ver[p] /\ pc[p] # "copying"
    BY <1>19 DEF Download, Goto, Served
  <2>3. QED
    BY <1>keeps, <2>1, <2>2
<1>20. ASSUME NEW p \in Procs, Verify(p) PROVE CopyInv'
  <2>1. /\ \A q \in Procs \ {p} : Same(q)
        /\ uncached \subseteq uncached'
    BY <1>20 DEF Verify, Goto, Same
  <2>2. Served(p)' => Served(p) /\ ver'[p] = ver[p] /\ pc[p] # "copying"
    BY <1>20 DEF Verify, Goto, Served
  <2>3. QED
    BY <1>keeps, <2>1, <2>2
<1>21. ASSUME NEW p \in Procs, NEW f \in AllFiles, WriteFile(p, f) PROVE CopyInv'
  <2>1. /\ \A q \in Procs \ {p} : Same(q)
        /\ uncached \subseteq uncached'
    BY <1>21 DEF WriteFile, Same
  <2>2. Served(p)' => Served(p) /\ ver'[p] = ver[p] /\ pc[p] # "copying"
    BY <1>21 DEF WriteFile, Served
  <2>3. QED
    BY <1>keeps, <2>1, <2>2
<1>22. ASSUME NEW p \in Procs, Installed(p) PROVE CopyInv'
  <2>1. /\ \A q \in Procs \ {p} : Same(q)
        /\ uncached \subseteq uncached'
    BY <1>22 DEF Installed, Goto, Same
  <2>2. Served(p)' => Served(p) /\ ver'[p] = ver[p] /\ pc[p] # "copying"
    BY <1>22 DEF Installed, Goto, Served
  <2>3. QED
    BY <1>keeps, <2>1, <2>2
<1>23. ASSUME NEW p \in Procs, HookDone(p) PROVE CopyInv'
  <2>1. /\ \A q \in Procs \ {p} : Same(q)
        /\ uncached \subseteq uncached'
    BY <1>23 DEF HookDone, Goto, Same
  <2>2. Served(p)' => Served(p) /\ ver'[p] = ver[p] /\ pc[p] # "copying"
    BY <1>23 DEF HookDone, Goto, Served
  <2>3. QED
    BY <1>keeps, <2>1, <2>2
<1>24. ASSUME NEW p \in Procs, Start(p) PROVE CopyInv'
  <2>1. /\ \A q \in Procs \ {p} : Same(q)
        /\ uncached \subseteq uncached'
    BY <1>24 DEF Start, Goto, Same
  <2>2. Served(p)' => Served(p) /\ ver'[p] = ver[p] /\ pc[p] # "copying"
    BY <1>24 DEF Start, Goto, Served
  <2>3. QED
    BY <1>keeps, <2>1, <2>2
<1>25. ASSUME NEW p \in Procs, SetupOnlyDone(p) PROVE CopyInv'
  <2>1. /\ \A q \in Procs \ {p} : Same(q)
        /\ uncached \subseteq uncached'
    BY <1>25 DEF SetupOnlyDone, Gone, Goto, Same
  <2>2. Served(p)' => Served(p) /\ ver'[p] = ver[p] /\ pc[p] # "copying"
    BY <1>25 DEF SetupOnlyDone, Gone, Goto, Served
  <2>3. QED
    BY <1>keeps, <2>1, <2>2
<1>26. ASSUME NEW p \in Procs, Stop(p) PROVE CopyInv'
  <2>1. /\ \A q \in Procs \ {p} : Same(q)
        /\ uncached \subseteq uncached'
    BY <1>26 DEF Stop, Gone, Goto, Same
  <2>2. Served(p)' => Served(p) /\ ver'[p] = ver[p] /\ pc[p] # "copying"
    BY <1>26 DEF Stop, Gone, Goto, Served
  <2>3. QED
    BY <1>keeps, <2>1, <2>2
<1>27. ASSUME NEW p \in Procs, PlanFull(p) PROVE CopyInv'
  <2>1. /\ \A q \in Procs \ {p} : Same(q)
        /\ uncached \subseteq uncached'
    BY <1>27 DEF PlanFull, Goto, Same
  <2>2. Served(p)' => Served(p) /\ ver'[p] = ver[p] /\ pc[p] # "copying"
    BY <1>27 DEF PlanFull, Goto, Served
  <2>3. QED
    BY <1>keeps, <2>1, <2>2
<1>27a. ASSUME NEW p \in Procs, PlanUnguarded(p) PROVE CopyInv'
  <2>1. /\ \A q \in Procs \ {p} : Same(q)
        /\ uncached \subseteq uncached'
    BY <1>27a DEF PlanUnguarded, Goto, Same
  <2>2. Served(p)' => Served(p) /\ ver'[p] = ver[p] /\ pc[p] # "copying"
    BY <1>27a DEF PlanUnguarded, Goto, Served
  <2>3. QED
    BY <1>keeps, <2>1, <2>2
<1>28. ASSUME NEW p \in Procs, NEW f \in AllFiles, RemoveFile(p, f) PROVE CopyInv'
  <2>1. /\ \A q \in Procs \ {p} : Same(q)
        /\ uncached \subseteq uncached'
    BY <1>28 DEF RemoveFile, Same
  <2>2. Served(p)' => Served(p) /\ ver'[p] = ver[p] /\ pc[p] # "copying"
    BY <1>28 DEF RemoveFile, Served
  <2>3. QED
    BY <1>keeps, <2>1, <2>2
<1>29. ASSUME NEW p \in Procs, Removed(p) PROVE CopyInv'
  <2>1. /\ \A q \in Procs \ {p} : Same(q)
        /\ uncached \subseteq uncached'
    BY <1>29 DEF Removed, Gone, Goto, Same
  <2>2. Served(p)' => Served(p) /\ ver'[p] = ver[p] /\ pc[p] # "copying"
    BY <1>29 DEF Removed, Gone, Goto, Served
  <2>3. QED
    BY <1>keeps, <2>1, <2>2
<1>30. ASSUME NEW p \in Procs, Fails(p) PROVE CopyInv'
  <2>1. /\ \A q \in Procs \ {p} : Same(q)
        /\ uncached \subseteq uncached'
    BY <1>30 DEF Fails, Gone, Goto, Same
  <2>2. Served(p)' => Served(p) /\ ver'[p] = ver[p] /\ pc[p] # "copying"
    BY <1>30 DEF Fails, Gone, Goto, Served
  <2>3. QED
    BY <1>keeps, <2>1, <2>2
<1>31. ASSUME NEW p \in Procs, Abort(p) PROVE CopyInv'
  <2>1. /\ \A q \in Procs \ {p} : Same(q)
        /\ uncached \subseteq uncached'
    BY <1>31 DEF Abort, Gone, Goto, Same
  <2>2. Served(p)' => Served(p) /\ ver'[p] = ver[p] /\ pc[p] # "copying"
    BY <1>31 DEF Abort, Gone, Goto, Served
  <2>3. QED
    BY <1>keeps, <2>1, <2>2
<1>32. ASSUME NEW a \in Archives, Spoil(a) PROVE CopyInv'
  <2>1. (\A q \in Procs : Same(q)) /\ uncached' = uncached
    BY <1>32 DEF Spoil, procVars, Same
  <2>2. QED
    BY <1>quiet, <2>1
<1>33. CASE UNCHANGED vars
  <2>1. (\A q \in Procs : Same(q)) /\ uncached' = uncached
    BY <1>33 DEF vars, Same
  <2>2. QED
    BY <1>quiet, <2>1
<1> HIDE DEF IndInv, TypeOK, Protocol
<1>34. QED
  BY <1>1, <1>2, <1>3, <1>4, <1>5, <1>6, <1>7, <1>8, <1>9, <1>10, <1>11, <1>12, <1>13,
     <1>14, <1>15, <1>16, <1>17, <1>18, <1>19, <1>20, <1>21, <1>22, <1>23, <1>24, <1>25,
     <1>26, <1>27, <1>27a, <1>28, <1>29, <1>30, <1>31, <1>32, <1>33
  DEF Next, Work, Lock

-----------------------------------------------------------------------------
(* The extensions.                                                         *)

\* While the hook of a slotted start has the setup lock, nobody else writes to its version,
\* unless it is stripped.
LEMMA HeldTree ==
  ASSUME IndInv, RemoveInv, [Next]_vars,
         NEW p \in Procs, mode[p] = "slotted", pc[p] \in Installing
  PROVE  \/ tree'[ver[p]] = tree[ver[p]]
         \/ \E f \in AllFiles : WriteFile(p, f)
         \/ p \in stripped'
<1>1. setup = p /\ \A q \in Procs : pc[q] # "removing"
  BY NoRemoval DEF IndInv, Protocol, LockInv, Locking, Installing
<1>2. \A q \in Procs \ {p} : pc[q] \notin Locking /\ (pc[q] = "setup" => hit[q])
  BY <1>1 DEF IndInv, Protocol, LockInv
<1> USE DEF Locking
<1>3. ASSUME NEW q \in Procs, LockEntry(q) PROVE tree' = tree
  BY <1>3 DEF LockEntry, Miss, stores
<1>4. ASSUME NEW q \in Procs, NEW f \in AllFiles, CopyFile(q, f) PROVE tree' = tree
  BY <1>2, <1>4 DEF CopyFile, Installing
<1>5. ASSUME NEW q \in Procs, Setup(q) PROVE tree' = tree
  <2>1. q # p /\ pc[q] = "setup" /\ hit[q]
    BY <1>2, <1>5 DEF Setup, Installing
  <2>2. QED
    BY <1>5, <2>1 DEF Setup
<1>6. ASSUME NEW q \in Procs, NEW f \in AllFiles, PopulateFile(q, f) PROVE tree' = tree
  BY <1>6 DEF PopulateFile
<1>7. ASSUME NEW q \in Procs, WriteMarker(q) \/ PopulationFails(q) \/ Removed(q) PROVE tree' = tree
  BY <1>7 DEF WriteMarker, PopulationFails, Removed
<1>8. ASSUME NEW q \in Procs, NEW f \in AllFiles, WriteFile(q, f) PROVE q = p
  BY <1>2, <1>8 DEF WriteFile
<1>9. ASSUME NEW q \in Procs, NEW f \in AllFiles, RemoveFile(q, f)
      PROVE  tree'[ver[p]] = tree[ver[p]] \/ p \in stripped'
  <2>1. CASE ver[q] = ver[p]
    BY <1>9, <2>1, Struck DEF Removes, Installing
  <2>2. CASE ver[q] # ver[p]
    <3>1. tree' = [tree EXCEPT ![ver[q]][f] = "absent"]
      BY <1>9 DEF RemoveFile
    <3>2. ver[p] \in Versions /\ ver[q] \in Versions
      BY <1>9 DEF RemoveFile, IndInv, Protocol, PlaceInv, Based, Installing
    <3>3. QED
      BY <2>2, <3>1, <3>2, OneFile DEF IndInv, TypeOK
  <2>3. QED
    BY <2>1, <2>2
<1>10. QED
  BY Writers, <1>3, <1>4, <1>5, <1>6, <1>7, <1>8, <1>9

\* Every step keeps what the hooks of slotted starts have written.
LEMMA WrittenNext ==
  ASSUME IndInv, RemoveInv, WrittenInv, [Next]_vars
  PROVE  WrittenInv'
<1> DEFINE Same(q) == /\ pc'[q] = pc[q] /\ mode'[q] = mode[q] /\ ver'[q] = ver[q]
                      /\ next'[q] = next[q] /\ bytes'[q] = bytes[q] /\ todo'[q] = todo[q]
                      /\ q \in stripped => q \in stripped'
<1> HIDE DEF Same
<1>chosen. \A q \in Procs : ver'[q] = ver[q] => \A i : Chosen(q, i)' = Chosen(q, i)
  BY DEF Chosen, Selected, Matching
<1>same. ASSUME NEW q \in Procs, Same(q), q \notin stripped',
                mode'[q] = "slotted", pc'[q] \in Installing
         PROVE  WrittenSoFar(q)'
  <2>1. WrittenSoFar(q) /\ mode[q] = "slotted" /\ pc[q] \in Installing
    BY <1>same DEF WrittenInv, Same
  <2>2. \A f : ~WriteFile(q, f)
    BY <1>same DEF WriteFile, Same, IndInv, TypeOK
  <2>3. tree'[ver[q]] = tree[ver[q]]
    BY <1>same, <2>1, <2>2, HeldTree
  <2>4. \A i : Chosen(q, i)' = Chosen(q, i)
    BY <1>same, <1>chosen DEF Same
  <2>5. QED
    BY <1>same, <2>1, <2>3, <2>4 DEF WrittenSoFar, Written, Same
<1>frame. ASSUME NEW p \in Procs, \A q \in Procs \ {p} : Same(q),
                 p \notin stripped' /\ mode'[p] = "slotted" /\ pc'[p] \in Installing =>
                   WrittenSoFar(p)'
          PROVE  WrittenInv'
  BY <1>frame, <1>same DEF WrittenInv
<1> USE Constants DEF IndInv, TypeOK, stores, Protocol, PlaceInv, Based
<1>1. ASSUME NEW p \in Procs, NEW m \in {"slotted", "explicit", "cli"}, Bootstrap(p, m)
      PROVE WrittenInv'
  <2>1. (\A q \in Procs \ {p} : Same(q)) /\ pc'[p] \notin Installing
    BY <1>1 DEF Bootstrap, Goto, Same, Installing
  <2>2. QED
    BY <1>frame, <2>1
<1>2. ASSUME NEW p \in Procs, AcquireSetup(p) PROVE WrittenInv'
  <2>1. (\A q \in Procs \ {p} : Same(q)) /\ pc'[p] \notin Installing
    BY <1>2 DEF AcquireSetup, Goto, Same, Installing
  <2>2. QED
    BY <1>frame, <2>1
<1>3. ASSUME NEW p \in Procs, FindCached(p) PROVE WrittenInv'
  <2>1. (\A q \in Procs \ {p} : Same(q)) /\ pc'[p] \notin Installing
    BY <1>3 DEF FindCached, Goto, Same, Installing
  <2>2. QED
    BY <1>frame, <2>1
<1>4. ASSUME NEW p \in Procs, LockEntry(p) PROVE WrittenInv'
  <2>1. (\A q \in Procs \ {p} : Same(q)) /\ pc'[p] \notin Installing
    BY <1>4 DEF LockEntry, Miss, Goto, Same, Installing
  <2>2. QED
    BY <1>frame, <2>1
<1>5. ASSUME NEW p \in Procs, NEW f \in AllFiles, CopyFile(p, f) PROVE WrittenInv'
  <2>1. (\A q \in Procs \ {p} : Same(q)) /\ pc'[p] \notin Installing
    BY <1>5 DEF CopyFile, Same, Installing
  <2>2. QED
    BY <1>frame, <2>1
<1>6. ASSUME NEW p \in Procs, CacheHit(p) PROVE WrittenInv'
  <2>1. (\A q \in Procs \ {p} : Same(q)) /\ pc'[p] \notin Installing
    BY <1>6 DEF CacheHit, Goto, Same, Installing
  <2>2. QED
    BY <1>frame, <2>1
<1>7. ASSUME NEW p \in Procs, CopyFails(p) PROVE WrittenInv'
  <2>1. (\A q \in Procs \ {p} : Same(q)) /\ pc'[p] \notin Installing
    BY <1>7 DEF CopyFails, Miss, Goto, Same, Installing
  <2>2. QED
    BY <1>frame, <2>1
<1>8. ASSUME NEW p \in Procs, Setup(p) PROVE WrittenInv'
  <2>1. (\A q \in Procs \ {p} : Same(q)) /\ pc'[p] \notin Installing
    BY <1>8 DEF Setup, Goto, Same, Installing
  <2>2. QED
    BY <1>frame, <2>1
<1>9. ASSUME NEW p \in Procs, ResolveForCache(p) PROVE WrittenInv'
  <2>1. (\A q \in Procs \ {p} : Same(q)) /\ pc'[p] \notin Installing
    BY <1>9 DEF ResolveForCache, Goto, Same, Installing
  <2>2. QED
    BY <1>frame, <2>1
<1>10. ASSUME NEW p \in Procs, LockForPopulate(p) PROVE WrittenInv'
  <2>1. (\A q \in Procs \ {p} : Same(q)) /\ pc'[p] \notin Installing
    BY <1>10 DEF LockForPopulate, Goto, Same, Installing
  <2>2. QED
    BY <1>frame, <2>1
<1>11. ASSUME NEW p \in Procs, NEW f \in AllFiles, PopulateFile(p, f) PROVE WrittenInv'
  <2>1. (\A q \in Procs \ {p} : Same(q)) /\ pc'[p] \notin Installing
    BY <1>11 DEF PopulateFile, Same, Installing
  <2>2. QED
    BY <1>frame, <2>1
<1>12. ASSUME NEW p \in Procs, Populated(p) PROVE WrittenInv'
  <2>1. (\A q \in Procs \ {p} : Same(q)) /\ pc'[p] \notin Installing
    BY <1>12 DEF Populated, Goto, Same, Installing
  <2>2. QED
    BY <1>frame, <2>1
<1>13. ASSUME NEW p \in Procs, WriteMarker(p) PROVE WrittenInv'
  <2>1. (\A q \in Procs \ {p} : Same(q)) /\ pc'[p] \notin Installing
    BY <1>13 DEF WriteMarker, Goto, Same, Installing
  <2>2. QED
    BY <1>frame, <2>1
<1>14. ASSUME NEW p \in Procs, PopulationFails(p) PROVE WrittenInv'
  <2>1. (\A q \in Procs \ {p} : Same(q)) /\ pc'[p] \notin Installing
    BY <1>14 DEF PopulationFails, Goto, Same, Installing
  <2>2. QED
    BY <1>frame, <2>1
<1>15. ASSUME NEW p \in Procs, ForHook(p) PROVE WrittenInv'
  <2>1. (\A q \in Procs \ {p} : Same(q)) /\ pc'[p] \notin Installing
    BY <1>15 DEF ForHook, Goto, Same, Installing
  <2>2. QED
    BY <1>frame, <2>1
<1>16. ASSUME NEW p \in Procs, Relock(p) PROVE WrittenInv'
  <2>1. (\A q \in Procs \ {p} : Same(q)) /\ pc'[p] \notin Installing
    BY <1>16 DEF Relock, Goto, Same, Installing
  <2>2. QED
    BY <1>frame, <2>1
<1>17. ASSUME NEW p \in Procs, SelectAll(p) PROVE WrittenInv'
  <2>1. /\ \A q \in Procs \ {p} : Same(q)
        /\ pc[p] = "select" /\ pc'[p] = "acquire" /\ next'[p] = 1
    BY <1>17 DEF SelectAll, Goto, Same
  <2>2. 1 \in DOMAIN Declared[p]
    BY <2>1, Extensions DEF HookInv
  <2>3. WrittenSoFar(p)'
    BY <2>1, <2>2 DEF WrittenSoFar, Preparing
  <2>4. QED
    BY <1>frame, <2>1, <2>3
<1>18. ASSUME NEW p \in Procs, Acquire(p) PROVE WrittenInv'
  <2>1. /\ \A q \in Procs \ {p} : Same(q)
        /\ pc[p] \in Preparing /\ pc'[p] \in Preparing
        /\ UNCHANGED <<mode, ver, next, tree, stripped>>
    BY <1>18 DEF Acquire, Goto, Same, Preparing
  <2>2. WrittenSoFar(p) => WrittenSoFar(p)'
    BY <2>1, <1>chosen DEF WrittenSoFar, Written, Preparing
  <2>3. QED
    BY <1>frame, <2>1, <2>2 DEF Installing, Preparing, WrittenInv
<1>19. ASSUME NEW p \in Procs, Download(p) PROVE WrittenInv'
  <2>1. /\ \A q \in Procs \ {p} : Same(q)
        /\ pc[p] \in Preparing /\ pc'[p] \in Preparing
        /\ UNCHANGED <<mode, ver, next, tree, stripped>>
    BY <1>19 DEF Download, Goto, Same, Preparing
  <2>2. WrittenSoFar(p) => WrittenSoFar(p)'
    BY <2>1, <1>chosen DEF WrittenSoFar, Written, Preparing
  <2>3. QED
    BY <1>frame, <2>1, <2>2 DEF Installing, Preparing, WrittenInv
<1>20. ASSUME NEW p \in Procs, Verify(p) PROVE WrittenInv'
  <2>1. /\ \A q \in Procs \ {p} : Same(q)
        /\ pc[p] = "verify" /\ pc'[p] = "writing"
        /\ todo'[p] = Contents[Chosen(p, next[p])] /\ bytes'[p] = Chosen(p, next[p])
        /\ UNCHANGED <<mode, ver, next, tree, stripped>>
    BY <1>20 DEF Verify, Goto, Same, Current, Chosen
  <2>2. WrittenSoFar(p) => WrittenSoFar(p)'
    BY <2>1, <1>chosen DEF WrittenSoFar, Written, Preparing
  <2>3. QED
    BY <1>frame, <2>1, <2>2 DEF Installing, WrittenInv
<1>21. ASSUME NEW p \in Procs, NEW f \in AllFiles, WriteFile(p, f) PROVE WrittenInv'
  <2>1. /\ \A q \in Procs \ {p} : Same(q)
        /\ pc[p] = "writing" /\ f \in todo[p] /\ todo'[p] = todo[p] \ {f} /\ ver[p] \in Versions
        /\ UNCHANGED <<pc, mode, ver, next, bytes, stripped>>
        /\ tree' = [tree EXCEPT ![ver[p]][f] = bytes[p]]
    BY <1>21 DEF WriteFile, Same
  <2>2. tree'[ver[p]][f] = bytes[p] /\ \A g \in AllFiles \ {f} : tree'[ver[p]][g] = tree[ver[p]][g]
    BY <2>1, OneFile
  <2>3. ASSUME WrittenSoFar(p), NEW i \in 1..next[p], NEW g \in Contents[Chosen(p, i)]
        PROVE  \/ i = next[p] /\ g \in todo'[p]
               \/ tree'[ver[p]][g] \in {Chosen(p, j) : j \in i..next[p]}
    <3>1. i \in DOMAIN Declared[p] /\ next[p] \in Nat /\ next[p] \in i..next[p]
      BY <2>3, Extensions DEF WrittenSoFar
    <3>2. g \in AllFiles
      BY <2>1, <3>1, SelectedArchive DEF HookInv, Resolved, Chosen
    <3>3. CASE g = f
      BY <2>1, <2>2, <2>3, <3>1, <3>3 DEF WrittenSoFar
    <3>4. CASE g # f
      <4>1. tree'[ver[p]][g] = tree[ver[p]][g]
        BY <2>2, <3>2, <3>4
      <4>2. (i = next[p] /\ g \in todo[p]) \/ Written(p, i, g)
        BY <2>1, <2>3 DEF WrittenSoFar, Preparing
      <4>3. QED
        BY <2>1, <3>4, <4>1, <4>2 DEF Written
    <3>5. QED
      BY <3>3, <3>4
  <2>4. WrittenSoFar(p) => WrittenSoFar(p)'
    BY <2>1, <2>3, <1>chosen DEF WrittenSoFar, Written
  <2>5. QED
    BY <1>frame, <2>1, <2>4 DEF Installing, WrittenInv
<1>22. ASSUME NEW p \in Procs, Installed(p) PROVE WrittenInv'
  <2>1. /\ \A q \in Procs \ {p} : Same(q)
        /\ pc[p] = "writing" /\ todo[p] = {} /\ UNCHANGED <<mode, ver, tree, stripped>>
    BY <1>22 DEF Installed, Goto, Same
  <2>2. \/ next[p] < Len(Declared[p]) /\ next'[p] = next[p] + 1 /\ pc'[p] = "acquire"
        \/ ~(next[p] < Len(Declared[p])) /\ next'[p] = next[p] /\ pc'[p] = "hooked"
    BY <1>22 DEF Installed, Goto
  <2>3. ASSUME WrittenSoFar(p) PROVE WrittenSoFar(p)'
    <3>1. /\ next[p] \in 1..Len(Declared[p]) /\ Len(Declared[p]) \in Nat
          /\ DOMAIN Declared[p] = 1..Len(Declared[p])
      BY <2>3, Extensions DEF WrittenSoFar
    <3>2. \A i \in 1..next[p] : \A f \in Contents[Chosen(p, i)] : Written(p, i, f)
      BY <2>1, <2>3 DEF WrittenSoFar, Preparing
    <3>3. CASE next[p] < Len(Declared[p])
      <4>1. next'[p] = next[p] + 1 /\ pc'[p] = "acquire" /\ next'[p] \in DOMAIN Declared[p]
        BY <2>2, <3>1, <3>3
      <4>2. \A i \in 1..next[p] : i..next[p] \subseteq i..next'[p]
        BY <3>1, <4>1
      <4>3. ASSUME NEW i \in 1..next'[p], i # next'[p], NEW f \in Contents[Chosen(p, i)]
            PROVE  tree'[ver'[p]][f] \in {Chosen(p, j) : j \in i..next'[p]}
        <5>1. i \in 1..next[p]
          BY <3>1, <4>1, <4>3
        <5>2. tree[ver[p]][f] \in {Chosen(p, j) : j \in i..next[p]}
          BY <3>2, <4>3, <5>1 DEF Written
        <5>3. tree'[ver'[p]][f] = tree[ver[p]][f]
          BY <2>1
        <5>4. i..next[p] \subseteq i..next'[p]
          BY <4>2, <5>1
        <5>5. QED
          BY <5>2, <5>3, <5>4
      <4>4. QED
        BY <2>1, <4>1, <4>3, <1>chosen DEF WrittenSoFar, Written, Preparing
    <3>4. CASE ~(next[p] < Len(Declared[p]))
      <4>1. next'[p] = next[p] /\ pc'[p] = "hooked" /\ next[p] = Len(Declared[p])
        BY <2>2, <3>1, <3>4
      <4>2. QED
        BY <2>1, <3>1, <3>2, <4>1, <1>chosen DEF WrittenSoFar, Written
    <3>5. QED
      BY <3>3, <3>4
  <2>4. QED
    BY <1>frame, <2>1, <2>3 DEF Installing, WrittenInv
<1>23. ASSUME NEW p \in Procs, HookDone(p) PROVE WrittenInv'
  <2>1. (\A q \in Procs \ {p} : Same(q)) /\ pc'[p] \notin Installing
    BY <1>23 DEF HookDone, Goto, Same, Installing
  <2>2. QED
    BY <1>frame, <2>1
<1>24. ASSUME NEW p \in Procs, Start(p) PROVE WrittenInv'
  <2>1. (\A q \in Procs \ {p} : Same(q)) /\ pc'[p] \notin Installing
    BY <1>24 DEF Start, Goto, Same, Installing
  <2>2. QED
    BY <1>frame, <2>1
<1>25. ASSUME NEW p \in Procs, SetupOnlyDone(p) PROVE WrittenInv'
  <2>1. (\A q \in Procs \ {p} : Same(q)) /\ pc'[p] \notin Installing
    BY <1>25 DEF SetupOnlyDone, Gone, Goto, Same, Installing
  <2>2. QED
    BY <1>frame, <2>1
<1>26. ASSUME NEW p \in Procs, Stop(p) PROVE WrittenInv'
  <2>1. (\A q \in Procs \ {p} : Same(q)) /\ pc'[p] \notin Installing
    BY <1>26 DEF Stop, Gone, Goto, Same, Installing
  <2>2. QED
    BY <1>frame, <2>1
<1>27. ASSUME NEW p \in Procs, PlanFull(p) PROVE WrittenInv'
  <2>1. (\A q \in Procs \ {p} : Same(q)) /\ pc'[p] \notin Installing
    BY <1>27 DEF PlanFull, Goto, Same, Installing
  <2>2. QED
    BY <1>frame, <2>1
<1>27a. ASSUME NEW p \in Procs, PlanUnguarded(p) PROVE WrittenInv'
  <2>1. (\A q \in Procs \ {p} : Same(q)) /\ pc'[p] \notin Installing
    BY <1>27a DEF PlanUnguarded, Goto, Same, Installing
  <2>2. QED
    BY <1>frame, <2>1
<1>28. ASSUME NEW p \in Procs, NEW f \in AllFiles, RemoveFile(p, f) PROVE WrittenInv'
  <2>1. (\A q \in Procs \ {p} : Same(q)) /\ pc'[p] \notin Installing
    BY <1>28 DEF RemoveFile, Same, Installing
  <2>2. QED
    BY <1>frame, <2>1
<1>29. ASSUME NEW p \in Procs, Removed(p) PROVE WrittenInv'
  <2>1. (\A q \in Procs \ {p} : Same(q)) /\ pc'[p] \notin Installing
    BY <1>29 DEF Removed, Gone, Goto, Same, Installing
  <2>2. QED
    BY <1>frame, <2>1
<1>30. ASSUME NEW p \in Procs, Fails(p) PROVE WrittenInv'
  <2>1. (\A q \in Procs \ {p} : Same(q)) /\ pc'[p] \notin Installing
    BY <1>30 DEF Fails, Gone, Goto, Same, Installing
  <2>2. QED
    BY <1>frame, <2>1
<1>31. ASSUME NEW p \in Procs, Abort(p) PROVE WrittenInv'
  <2>1. (\A q \in Procs \ {p} : Same(q)) /\ pc'[p] \notin Installing
    BY <1>31 DEF Abort, Gone, Goto, Same, Installing
  <2>2. QED
    BY <1>frame, <2>1
<1>32. ASSUME NEW a \in Archives, Spoil(a) PROVE WrittenInv'
  <2>1. \A q \in Procs : Same(q)
    BY <1>32 DEF Spoil, procVars, Same
  <2>2. QED
    BY <1>same, <2>1 DEF WrittenInv
<1>33. CASE UNCHANGED vars
  <2>1. \A q \in Procs : Same(q)
    BY <1>33 DEF vars, Same
  <2>2. QED
    BY <1>same, <2>1 DEF WrittenInv
<1> HIDE DEF IndInv, TypeOK, Protocol
<1>34. QED
  BY <1>1, <1>2, <1>3, <1>4, <1>5, <1>6, <1>7, <1>8, <1>9, <1>10, <1>11, <1>12, <1>13,
     <1>14, <1>15, <1>16, <1>17, <1>18, <1>19, <1>20, <1>21, <1>22, <1>23, <1>24, <1>25,
     <1>26, <1>27, <1>27a, <1>28, <1>29, <1>30, <1>31, <1>32, <1>33
  DEF Next, Work, Lock

-----------------------------------------------------------------------------
(* The theorems.                                                           *)

\* The invariant holds in every behaviour of InstallTree.
LEMMA UseInvariance == Spec => []UseInv
<1>1. Init => UseInv
  BY Constants DEF Init, UseInv, WaitInv, RemoveInv, CopyInv, Served, WrittenInv, Installing
<1>2. IndInv /\ UseInv /\ [Next]_vars => UseInv'
  BY WaitNext, RemoveNext, CopyNext, WrittenNext DEF UseInv, IndInv
<1>3. QED
  BY <1>1, <1>2, Invariance, PTL DEF Spec

\* However the setup lock, the entries' and the archives' locks are taken, none with a
\* timeout, there is no circle of processes that wait for each other
\* (cluster/setup_lock.rs, cache/lock.rs, extensions/archive.rs).
THEOREM NobodyWaitsInCircle == Spec => []NoWaitCycle
<1>1. IndInv /\ UseInv => NoWaitCycle
  BY SomebodyProceeds DEF IndInv, UseInv
<1>2. QED
  BY <1>1, Invariance, UseInvariance, PTL

\* A slotted cluster started from the cache has the whole release under it although it
\* gives the setup lock back (cluster/startup.rs after_cache_lookup), until a cleanup
\* without guard or probe strikes its version (cluster/cleanup.rs plan_for_unslotted).
THEOREM HitsKeepRelease == Spec => []HitTreeWhole
<1>1. IndInv /\ UseInv => HitTreeWhole
  <2> SUFFICES ASSUME IndInv, CopyInv, NEW p \in Procs \ stripped, hit[p], mode[p] = "slotted",
                      pc[p] # "removing", ver[p] \notin uncached
               PROVE  ver[p] \in dirs /\ \A f \in Files : tree[ver[p]][f] = "whole"
    BY DEF UseInv, HitTreeWhole
  <2>1. Served(p) /\ pc[p] # "copying"
    BY DEF Served, IndInv, Protocol, PlaceInv
  <2>2. QED
    BY <2>1 DEF CopyInv
<1>2. QED
  BY <1>1, Invariance, UseInvariance, PTL

\* When the hook of a slotted start has run, each declared extension's files are those of
\* the archive its manifest selects, or of a later declared one that has them too
\* (cluster/extension_hook.rs), with the same exception.
THEOREM ExtensionsInstalled == Spec => []ExtensionsAsDeclared
<1>1. UseInv => ExtensionsAsDeclared
  <2> SUFFICES ASSUME WrittenInv, NEW p \in Procs \ stripped,
                      pc[p] = "hooked", mode[p] = "slotted",
                      NEW i \in DOMAIN Declared[p], NEW f \in Contents[Chosen(p, i)]
               PROVE  tree[ver[p]][f] \in {Chosen(p, j) : j \in i..Len(Declared[p])}
    BY DEF UseInv, ExtensionsAsDeclared, Chosen
  <2>1. WrittenSoFar(p)
    BY DEF WrittenInv, Installing
  <2>2. next[p] = Len(Declared[p]) /\ i \in 1..next[p]
    BY <2>1, Extensions DEF WrittenSoFar
  <2>3. QED
    BY <2>1, <2>2 DEF WrittenSoFar, Written, Preparing
<1>2. QED
  BY <1>1, UseInvariance, PTL
=============================================================================
