------------------------- MODULE InstallTreeProofs -------------------------
(***************************************************************************)
(* The binary cache is safe for any processes, releases, files, archives   *)
(* and manifests.  As long as a version is neither marked in the cache nor *)
(* has had a population fail (Fresh), nobody has come as far as the        *)
(* extension hook with it (UsedInv), so that nobody writes to its          *)
(* directory or removes it, and what is there is the release (TreeInv).    *)
(* The one process that has the setup lock (LockInv) copies exactly that,  *)
(* and marks the entry when it is whole (FillInv, EntryInv).               *)
(***************************************************************************)
EXTENDS InstallTree, TLAPS, WellFoundedInduction

Marked(v) == cache[v][Marker] # "absent"
Fresh(v) == v \notin uncached /\ ~Marked(v)

\* Where a process has the setup lock whatever happened before.
Locking == Looking \cup Caching \cup (Hook \ {"relock"})

\* Where it works with a version directory.
Based ==
  {"cachelock", "copying", "hook", "start", "running", "removing", "stripping"}
    \cup Caching \cup Hook

\* Where it has had a cached, or at least not a fresh, version.
Using == {"hook", "start", "running", "removing", "stripping"} \cup Hook

\* The setup lock is held where the code counts on it.
LockInv == \A p \in Procs :
  pc[p] \in Locking \/ (pc[p] = "setup" /\ ~hit[p]) => setup = p

\* A version is chosen; a hit is not forgotten, nor had too early.
PlaceInv == \A p \in Procs :
  /\ pc[p] \in Based \/ (pc[p] = "setup" /\ hit[p]) => ver[p] \in Versions
  /\ pc[p] \in {"idle", "bootstrapped"} \cup Looking \cup Caching => ~hit[p]

\* Every extension declared is in the manifest.
Resolved(p) == \A i \in DOMAIN Declared[p] : Matching(p, Declared[p][i]) # {}

\* What the hook installs is one of them.
HookInv == \A p \in Procs :
  /\ pc[p] \in {"relock", "select"} => Len(Declared[p]) # 0
  /\ pc[p] \in {"acquire", "download", "verify", "writing"} =>
       next[p] \in DOMAIN Declared[p] /\ Resolved(p)
  /\ pc[p] = "writing" => bytes[p] \in Archives /\ todo[p] \subseteq ExtensionFiles

\* Nobody gets to the hook, nor copies, with a fresh version.
UsedInv == \A p \in Procs :
  pc[p] \in Using \cup {"copying"} \/ (pc[p] = "setup" /\ hit[p]) => ~Fresh(ver[p])

\* What setup has chosen is still there, and still the newest.
NewestInv == \A p \in Procs :
  /\ pc[p] = "resolve" => /\ ver[p] \in Accepts[p]
                          /\ \A w \in Accepts[p] \cap dirs : w <= ver[p]
  /\ pc[p] \in Caching /\ Fresh(ver[p]) => ver[p] \in dirs

\* A fresh version's directory is the release.
TreeInv == \A v \in Versions : Fresh(v) /\ v \in dirs => tree[v] = Pristine

\* An entry being filled is not marked, and what was copied is whole.
FillInv == \A p \in Procs :
  pc[p] \in {"populating", "marking"} /\ ver[p] \notin uncached =>
    /\ ~Marked(ver[p])
    /\ todo[p] \subseteq Files
    /\ \A f \in Files \ todo[p] : cache[ver[p]][f] = "whole"
    /\ pc[p] = "marking" => todo[p] = {}

\* A marked entry is the release; a fresh one has no extension's file.
EntryInv == \A v \in Versions \ uncached :
  /\ Marked(v) => \A f \in Files \cup ExtensionFiles : cache[v][f] = Pristine[f]
  /\ \A f \in ExtensionFiles : cache[v][f] = "absent"

Protocol == LockInv /\ PlaceInv /\ HookInv
Contained == UsedInv /\ NewestInv /\ TreeInv /\ FillInv /\ EntryInv
IndInv == TypeOK /\ Protocol /\ Contained

-----------------------------------------------------------------------------
(* Newest directories and selected artefacts exist.                        *)

USE DEF Live, Looking, Hook, Caching

\* The assumption, in parts.
LEMMA Constants ==
  /\ Accepts \in [Procs -> (SUBSET Versions) \ {{}}]
  /\ Initdb \in Files /\ Initdb # Marker
  /\ Files \subseteq AllFiles /\ ExtensionFiles \subseteq AllFiles /\ Marker \in AllFiles
  /\ Files \cap ExtensionFiles = {} /\ Marker \notin Files /\ Marker \notin ExtensionFiles
  /\ Contents \in [Archives -> (SUBSET ExtensionFiles) \ {{}}]
  /\ {"absent", "part", "whole"} \subseteq Content /\ Archives \subseteq Content
  /\ "absent" \notin Archives
  /\ None \notin Procs /\ None \notin Archives /\ None \notin Versions
BY InstallAssumption DEF AllFiles, Content

\* Of some versions one is the newest.
LEMMA NewestOf ==
  ASSUME NEW vs \in SUBSET Versions, vs # {}
  PROVE  Newest(vs) \in vs /\ \A w \in vs : w <= Newest(vs)
<1>1. \E v \in vs : \A w \in vs : w <= v
  BY InstallAssumption
<1>2. QED
  BY <1>1 DEF Newest

\* Of some artefacts one is the first.
LEMMA FirstOf ==
  ASSUME NEW S \in SUBSET Nat, S # {}
  PROVE  \E i \in S : \A j \in S : i <= j
<1>1. PICK i \in S : \A j \in S : ~(<<j, i>> \in OpToRel(<, Nat))
  BY NatLessThanWellFounded, WFMin
<1>2. \A j \in S : ~(j < i)
  BY <1>1, Zenon DEF OpToRel
<1>3. QED
  BY <1>2

\* Manifest::select yields an archive of the manifest.
LEMMA SelectedArchive ==
  ASSUME NEW p \in Procs, NEW n, Matching(p, n) # {}
  PROVE  Selected(p, n) \in Archives
<1>1. Matching(p, n) \subseteq DOMAIN Manifest[p]
  BY DEF Matching
<1>2. \E i \in Matching(p, n) : \A j \in Matching(p, n) : i <= j
  BY <1>1, FirstOf, InstallAssumption
<1>3. (CHOOSE i \in Matching(p, n) : \A j \in Matching(p, n) : i <= j) \in DOMAIN Manifest[p]
  BY <1>1, <1>2
<1>4. QED
  BY <1>3, InstallAssumption DEF Selected

\* A file of a directory gets new contents.
LEMMA FileType ==
  ASSUME NEW S, NEW t \in [Versions -> [AllFiles -> S]],
         NEW v \in Versions, NEW f \in AllFiles, NEW c \in S
  PROVE  [t EXCEPT ![v][f] = c] \in [Versions -> [AllFiles -> S]]
OBVIOUS

-----------------------------------------------------------------------------
(* Type correctness.                                                       *)

\* The initial state has the types.
LEMMA TypeInit == Init => TypeOK
<1> SUFFICES ASSUME Init PROVE TypeOK
  OBVIOUS
<1>1. hit \in [Procs -> BOOLEAN]
  BY Zenon DEF Init
<1>2. QED
  BY <1>1, Constants DEF Init, TypeOK, Empty

\* Every step keeps the types.
LEMMA TypeNext == TypeOK /\ Protocol /\ [Next]_vars => TypeOK'
<1> SUFFICES ASSUME TypeOK, Protocol, [Next]_vars PROVE TypeOK'
  OBVIOUS
<1> USE Constants DEF TypeOK, stores, Protocol, PlaceInv, Based
<1>1. ASSUME NEW p \in Procs, NEW m \in {"slotted", "explicit", "cli"}, Bootstrap(p, m)
      PROVE TypeOK'
  BY <1>1 DEF Bootstrap, Goto
<1>2. ASSUME NEW p \in Procs, AcquireSetup(p) PROVE TypeOK'
  BY <1>2 DEF AcquireSetup, Goto
<1>3. ASSUME NEW p \in Procs, FindCached(p) PROVE TypeOK'
  <2>1. ver' \in [Procs -> Versions \cup {None}]
    <3> DEFINE found == {v \in Accepts[p] : Complete(v)}
    <3>1. found \in SUBSET Versions
      BY Constants
    <3>2. found # {} => Newest(found) \in Versions
      BY <3>1, NewestOf
    <3>3. QED
      BY <1>3, <3>2 DEF FindCached
  <2>2. QED
    BY <1>3, <2>1 DEF FindCached, Goto
<1>4. ASSUME NEW p \in Procs, LockEntry(p) PROVE TypeOK'
  <2>1. CASE Miss(p)
    BY <2>1 DEF Miss, Goto
  <2>2. CASE ~Miss(p)
    <3>1. Present(cache[ver[p]]) \subseteq AllFiles
      BY DEF Present
    <3>2. ver[p] \in Versions
      BY <1>4 DEF LockEntry
    <3>3. /\ pc' = [pc EXCEPT ![p] = "copying"] /\ dirs' = dirs \cup {ver[p]}
          /\ todo' = [todo EXCEPT ![p] = Present(cache[ver[p]])]
          /\ UNCHANGED <<mode, ver, hit, next, bytes, setup, tree, cache, archive, uncached,
                         stripped>>
      BY <1>4, <2>2, Zenon DEF LockEntry, Goto
    <3>4. QED
      BY <3>1, <3>2, <3>3
  <2>3. QED
    BY <2>1, <2>2
<1>5. ASSUME NEW p \in Procs, NEW f \in AllFiles, CopyFile(p, f) PROVE TypeOK'
  <2>1. ver[p] \in Versions
    BY <1>5 DEF CopyFile
  <2>2. cache[ver[p]][f] \in Content
    BY <2>1
  <2>3. /\ [tree EXCEPT ![ver[p]][f] = "part"] \in [Versions -> [AllFiles -> Content]]
        /\ [tree EXCEPT ![ver[p]][f] = cache[ver[p]][f]] \in [Versions -> [AllFiles -> Content]]
    BY <2>1, <2>2, FileType
  <2>4. tree' \in [Versions -> [AllFiles -> Content]]
    BY <1>5, <2>3, Zenon DEF CopyFile
  <2>5. [todo EXCEPT ![p] = todo[p] \ {f}] \in [Procs -> SUBSET AllFiles]
    OBVIOUS
  <2>6. todo' \in [Procs -> SUBSET AllFiles]
    BY <1>5, <2>5, Zenon DEF CopyFile
  <2>7. QED
    BY <1>5, <2>4, <2>6 DEF CopyFile
<1>6. ASSUME NEW p \in Procs, CacheHit(p) PROVE TypeOK'
  BY <1>6 DEF CacheHit, Goto
<1>7. ASSUME NEW p \in Procs, CopyFails(p) PROVE TypeOK'
  BY <1>7 DEF CopyFails, Miss, Goto
<1>8. ASSUME NEW p \in Procs, Setup(p) PROVE TypeOK'
  <2>1. InstalledDir(p) \in SUBSET Versions
    BY DEF InstalledDir
  <2>2. /\ InstalledDir(p) # {} => Newest(InstalledDir(p)) \in Versions
        /\ Newest(Accepts[p]) \in Versions
    BY <2>1, NewestOf
  <2>3. Pristine \in [AllFiles -> Content]
    BY DEF Pristine
  <2>4. CASE hit[p]
    BY <1>8, <2>4 DEF Setup, Goto
  <2>5. CASE ~hit[p] /\ InstalledDir(p) # {}
    <3>1. ver' = [ver EXCEPT ![p] = Newest(InstalledDir(p))] /\ UNCHANGED <<dirs, tree>>
      BY <1>8, <2>5 DEF Setup
    <3>2. QED
      BY <1>8, <2>2, <2>5, <3>1 DEF Setup, Goto
  <2>6. CASE ~hit[p] /\ InstalledDir(p) = {}
    <3>1. ver' = [ver EXCEPT ![p] = Newest(Accepts[p])] /\ ver'[p] \in Versions
      BY <1>8, <2>2, <2>6 DEF Setup
    <3>2. dirs' = dirs \cup {ver'[p]} /\ tree' = [tree EXCEPT ![ver'[p]] = Pristine]
      BY <1>8, <2>6 DEF Setup
    <3>3. QED
      BY <1>8, <2>3, <3>1, <3>2 DEF Setup, Goto
  <2>7. QED
    BY <2>4, <2>5, <2>6
<1>9. ASSUME NEW p \in Procs, ResolveForCache(p) PROVE TypeOK'
  <2>1. ver' \in [Procs -> Versions \cup {None}]
    <3>1. ResolveInstalledDir(p) \in SUBSET Versions
      BY <1>9 DEF ResolveForCache, ResolveInstalledDir
    <3>2. ResolveInstalledDir(p) # {} => Newest(ResolveInstalledDir(p)) \in Versions
      BY <3>1, NewestOf
    <3>3. QED
      BY <1>9, <3>2 DEF ResolveForCache
  <2>2. QED
    BY <1>9, <2>1 DEF ResolveForCache, Goto
<1>10. ASSUME NEW p \in Procs, LockForPopulate(p) PROVE TypeOK'
  <2>1. Present(tree[ver[p]]) \subseteq AllFiles
    BY DEF Present
  <2>2. todo' \in [Procs -> SUBSET AllFiles]
    BY <1>10, <2>1 DEF LockForPopulate
  <2>3. QED
    BY <1>10, <2>2 DEF LockForPopulate, Goto
<1>11. ASSUME NEW p \in Procs, NEW f \in AllFiles, PopulateFile(p, f) PROVE TypeOK'
  <2>1. ver[p] \in Versions
    BY <1>11 DEF PopulateFile
  <2>2. tree[ver[p]][f] \in Content
    BY <2>1
  <2>3. /\ [cache EXCEPT ![ver[p]][f] = "part"] \in [Versions -> [AllFiles -> Content]]
        /\ [cache EXCEPT ![ver[p]][f] = tree[ver[p]][f]] \in [Versions -> [AllFiles -> Content]]
    BY <2>1, <2>2, FileType
  <2>4. cache' \in [Versions -> [AllFiles -> Content]]
    BY <1>11, <2>3, Zenon DEF PopulateFile
  <2>5. [todo EXCEPT ![p] = todo[p] \ {f}] \in [Procs -> SUBSET AllFiles]
    OBVIOUS
  <2>6. todo' \in [Procs -> SUBSET AllFiles]
    BY <1>11, <2>5, Zenon DEF PopulateFile
  <2>7. QED
    BY <1>11, <2>4, <2>6 DEF PopulateFile
<1>12. ASSUME NEW p \in Procs, Populated(p) PROVE TypeOK'
  BY <1>12 DEF Populated, Goto
<1>13. ASSUME NEW p \in Procs, WriteMarker(p) PROVE TypeOK'
  BY <1>13 DEF WriteMarker, Goto
<1>14. ASSUME NEW p \in Procs, PopulationFails(p) PROVE TypeOK'
  BY <1>14 DEF PopulationFails, Goto
<1>15. ASSUME NEW p \in Procs, ForHook(p) PROVE TypeOK'
  BY <1>15 DEF ForHook, Goto
<1>16. ASSUME NEW p \in Procs, Relock(p) PROVE TypeOK'
  BY <1>16 DEF Relock, Goto
<1>17. ASSUME NEW p \in Procs, SelectAll(p) PROVE TypeOK'
  BY <1>17 DEF SelectAll, Goto
<1>18. ASSUME NEW p \in Procs, Acquire(p) PROVE TypeOK'
  BY <1>18 DEF Acquire, Goto
<1>19. ASSUME NEW p \in Procs, Download(p) PROVE TypeOK'
  BY <1>19 DEF Download, Goto
<1>20. ASSUME NEW p \in Procs, Verify(p) PROVE TypeOK'
  <2>1. Current(p) \in Archives
    BY <1>20, SelectedArchive DEF Verify, HookInv, Resolved, Current
  <2>2. QED
    BY <1>20, <2>1 DEF Verify, Goto
<1>21. ASSUME NEW p \in Procs, NEW f \in AllFiles, WriteFile(p, f) PROVE TypeOK'
  <2>1. ver[p] \in Versions /\ bytes[p] \in Content
    BY <1>21 DEF WriteFile, HookInv
  <2>2. tree' \in [Versions -> [AllFiles -> Content]]
    BY <1>21, <2>1, FileType DEF WriteFile
  <2>3. QED
    BY <1>21, <2>2 DEF WriteFile
<1>22. ASSUME NEW p \in Procs, Installed(p) PROVE TypeOK'
  <2>1. [next EXCEPT ![p] = @ + 1] \in [Procs -> Nat]
    OBVIOUS
  <2>2. next' \in [Procs -> Nat]
    BY <1>22, <2>1, Zenon DEF Installed
  <2>3. QED
    BY <1>22, <2>2 DEF Installed, Goto
<1>23. ASSUME NEW p \in Procs, HookDone(p) PROVE TypeOK'
  BY <1>23 DEF HookDone, Goto
<1>24. ASSUME NEW p \in Procs, Start(p) PROVE TypeOK'
  BY <1>24 DEF Start, Goto
<1>25. ASSUME NEW p \in Procs, SetupOnlyDone(p) PROVE TypeOK'
  BY <1>25 DEF SetupOnlyDone, Gone, Goto
<1>26. ASSUME NEW p \in Procs, Stop(p) PROVE TypeOK'
  BY <1>26 DEF Stop, Gone, Goto
<1>27. ASSUME NEW p \in Procs, PlanFull(p) PROVE TypeOK'
  BY <1>27 DEF PlanFull, Goto, Present
<1>27a. ASSUME NEW p \in Procs, PlanUnguarded(p) PROVE TypeOK'
  BY <1>27a DEF PlanUnguarded, Goto, Present
<1>28. ASSUME NEW p \in Procs, NEW f \in AllFiles, RemoveFile(p, f) PROVE TypeOK'
  BY <1>28 DEF RemoveFile, Stripped
<1>29. ASSUME NEW p \in Procs, Removed(p) PROVE TypeOK'
  BY <1>29 DEF Removed, Stripped, Gone, Goto
<1>30. ASSUME NEW p \in Procs, Fails(p) PROVE TypeOK'
  BY <1>30 DEF Fails, Gone, Goto
<1>31. ASSUME NEW p \in Procs, Abort(p) PROVE TypeOK'
  BY <1>31 DEF Abort, Gone, Goto
<1>32. ASSUME NEW a \in Archives, Spoil(a) PROVE TypeOK'
  BY <1>32 DEF Spoil, procVars
<1>33. CASE UNCHANGED vars
  BY <1>33 DEF vars
<1> HIDE DEF TypeOK
<1>34. QED
  BY <1>1, <1>2, <1>3, <1>4, <1>5, <1>6, <1>7, <1>8, <1>9, <1>10, <1>11,
     <1>12, <1>13, <1>14, <1>15, <1>16, <1>17, <1>18, <1>19, <1>20, <1>21, <1>22,
     <1>23, <1>24, <1>25, <1>26, <1>27, <1>27a, <1>28, <1>29, <1>30, <1>31, <1>32, <1>33
  DEF Next, Work, Lock

-----------------------------------------------------------------------------
(* Who holds the setup lock, and what the hook works on.                   *)

\* Nobody holds or does anything at first.
LEMMA ProtocolInit == Init => Protocol
BY DEF Init, Protocol, LockInv, PlaceInv, HookInv, Locking, Based

\* Every step keeps the setup lock where it is counted on.
LEMMA LockNext == TypeOK /\ Protocol /\ [Next]_vars => LockInv'
<1> SUFFICES ASSUME TypeOK, Protocol, [Next]_vars PROVE LockInv'
  OBVIOUS
<1> USE Constants DEF TypeOK, stores, Protocol, PlaceInv, LockInv, Locking
<1>1. ASSUME NEW p \in Procs, NEW m \in {"slotted", "explicit", "cli"}, Bootstrap(p, m)
      PROVE LockInv'
  BY <1>1 DEF Bootstrap, Goto
<1>2. ASSUME NEW p \in Procs, AcquireSetup(p) PROVE LockInv'
  BY <1>2 DEF AcquireSetup, Goto
<1>3. ASSUME NEW p \in Procs, FindCached(p) PROVE LockInv'
  BY <1>3 DEF FindCached, Goto
<1>4. ASSUME NEW p \in Procs, LockEntry(p) PROVE LockInv'
  BY <1>4 DEF LockEntry, Miss, Goto
<1>5. ASSUME NEW p \in Procs, NEW f \in AllFiles, CopyFile(p, f) PROVE LockInv'
  BY <1>5 DEF CopyFile
<1>6. ASSUME NEW p \in Procs, CacheHit(p) PROVE LockInv'
  BY <1>6 DEF CacheHit, Goto
<1>7. ASSUME NEW p \in Procs, CopyFails(p) PROVE LockInv'
  BY <1>7 DEF CopyFails, Miss, Goto
<1>8. ASSUME NEW p \in Procs, Setup(p) PROVE LockInv'
  BY <1>8 DEF Setup, Goto
<1>9. ASSUME NEW p \in Procs, ResolveForCache(p) PROVE LockInv'
  BY <1>9 DEF ResolveForCache, Goto
<1>10. ASSUME NEW p \in Procs, LockForPopulate(p) PROVE LockInv'
  BY <1>10 DEF LockForPopulate, Goto
<1>11. ASSUME NEW p \in Procs, NEW f \in AllFiles, PopulateFile(p, f) PROVE LockInv'
  BY <1>11 DEF PopulateFile
<1>12. ASSUME NEW p \in Procs, Populated(p) PROVE LockInv'
  BY <1>12 DEF Populated, Goto
<1>13. ASSUME NEW p \in Procs, WriteMarker(p) PROVE LockInv'
  BY <1>13 DEF WriteMarker, Goto
<1>14. ASSUME NEW p \in Procs, PopulationFails(p) PROVE LockInv'
  BY <1>14 DEF PopulationFails, Goto
<1>15. ASSUME NEW p \in Procs, ForHook(p) PROVE LockInv'
  BY <1>15 DEF ForHook, Goto
<1>16. ASSUME NEW p \in Procs, Relock(p) PROVE LockInv'
  BY <1>16 DEF Relock, Goto
<1>17. ASSUME NEW p \in Procs, SelectAll(p) PROVE LockInv'
  BY <1>17 DEF SelectAll, Goto
<1>18. ASSUME NEW p \in Procs, Acquire(p) PROVE LockInv'
  BY <1>18 DEF Acquire, Goto
<1>19. ASSUME NEW p \in Procs, Download(p) PROVE LockInv'
  BY <1>19 DEF Download, Goto
<1>20. ASSUME NEW p \in Procs, Verify(p) PROVE LockInv'
  BY <1>20 DEF Verify, Goto
<1>21. ASSUME NEW p \in Procs, NEW f \in AllFiles, WriteFile(p, f) PROVE LockInv'
  BY <1>21 DEF WriteFile
<1>22. ASSUME NEW p \in Procs, Installed(p) PROVE LockInv'
  BY <1>22 DEF Installed, Goto
<1>23. ASSUME NEW p \in Procs, HookDone(p) PROVE LockInv'
  BY <1>23 DEF HookDone, Goto
<1>24. ASSUME NEW p \in Procs, Start(p) PROVE LockInv'
  BY <1>24 DEF Start, Goto
<1>25. ASSUME NEW p \in Procs, SetupOnlyDone(p) PROVE LockInv'
  BY <1>25 DEF SetupOnlyDone, Gone, Goto
<1>26. ASSUME NEW p \in Procs, Stop(p) PROVE LockInv'
  BY <1>26 DEF Stop, Gone, Goto
<1>27. ASSUME NEW p \in Procs, PlanFull(p) PROVE LockInv'
  BY <1>27 DEF PlanFull, Goto
<1>27a. ASSUME NEW p \in Procs, PlanUnguarded(p) PROVE LockInv'
  BY <1>27a DEF PlanUnguarded, Goto
<1>28. ASSUME NEW p \in Procs, NEW f \in AllFiles, RemoveFile(p, f) PROVE LockInv'
  BY <1>28 DEF RemoveFile
<1>29. ASSUME NEW p \in Procs, Removed(p) PROVE LockInv'
  BY <1>29 DEF Removed, Gone, Goto
<1>30. ASSUME NEW p \in Procs, Fails(p) PROVE LockInv'
  BY <1>30 DEF Fails, Gone, Goto
<1>31. ASSUME NEW p \in Procs, Abort(p) PROVE LockInv'
  BY <1>31 DEF Abort, Gone, Goto
<1>32. ASSUME NEW a \in Archives, Spoil(a) PROVE LockInv'
  BY <1>32 DEF Spoil, procVars
<1>33. CASE UNCHANGED vars
  BY <1>33 DEF vars
<1> HIDE DEF TypeOK, LockInv
<1>34. QED
  BY <1>1, <1>2, <1>3, <1>4, <1>5, <1>6, <1>7, <1>8, <1>9, <1>10, <1>11,
     <1>12, <1>13, <1>14, <1>15, <1>16, <1>17, <1>18, <1>19, <1>20, <1>21, <1>22,
     <1>23, <1>24, <1>25, <1>26, <1>27, <1>27a, <1>28, <1>29, <1>30, <1>31, <1>32, <1>33
  DEF Next, Work, Lock

\* Every step keeps a chosen version, and a hit where it belongs.
LEMMA PlaceNext == TypeOK /\ Protocol /\ [Next]_vars => PlaceInv'
<1> SUFFICES ASSUME TypeOK, Protocol, [Next]_vars PROVE PlaceInv'
  OBVIOUS
<1> USE Constants DEF TypeOK, stores, Protocol, PlaceInv, Based
<1>1. ASSUME NEW p \in Procs, NEW m \in {"slotted", "explicit", "cli"}, Bootstrap(p, m)
      PROVE PlaceInv'
  BY <1>1 DEF Bootstrap, Goto
<1>2. ASSUME NEW p \in Procs, AcquireSetup(p) PROVE PlaceInv'
  BY <1>2 DEF AcquireSetup, Goto
<1>3. ASSUME NEW p \in Procs, FindCached(p) PROVE PlaceInv'
  <2> DEFINE found == {v \in Accepts[p] : Complete(v)}
  <2>1. found \in SUBSET Versions
    OBVIOUS
  <2>2. found # {} => Newest(found) \in Versions
    BY <2>1, NewestOf
  <2>3. CASE found = {}
    BY <1>3, <2>3 DEF FindCached, Goto
  <2>4. CASE found # {}
    <3>1. ver' = [ver EXCEPT ![p] = Newest(found)] /\ pc' = [pc EXCEPT ![p] = "cachelock"]
      BY <1>3, <2>4 DEF FindCached, Goto
    <3>2. pc[p] = "lookup" /\ UNCHANGED hit
      BY <1>3 DEF FindCached
    <3> HIDE DEF found
    <3>3. QED
      BY <2>2, <2>4, <3>1, <3>2
  <2>5. QED
    BY <2>3, <2>4
<1>4. ASSUME NEW p \in Procs, LockEntry(p) PROVE PlaceInv'
  <2>1. /\ pc[p] = "cachelock" /\ UNCHANGED hit
        /\ \/ pc' = [pc EXCEPT ![p] = "copying"] /\ UNCHANGED ver
           \/ pc' = [pc EXCEPT ![p] = "setup"] /\ ver' = [ver EXCEPT ![p] = None]
    BY <1>4, Zenon DEF LockEntry, Miss, Goto
  <2>2. QED
    BY <2>1
<1>5. ASSUME NEW p \in Procs, NEW f \in AllFiles, CopyFile(p, f) PROVE PlaceInv'
  BY <1>5 DEF CopyFile
<1>6. ASSUME NEW p \in Procs, CacheHit(p) PROVE PlaceInv'
  BY <1>6 DEF CacheHit, Goto
<1>7. ASSUME NEW p \in Procs, CopyFails(p) PROVE PlaceInv'
  BY <1>7 DEF CopyFails, Miss, Goto
<1>8. ASSUME NEW p \in Procs, Setup(p) PROVE PlaceInv'
  <2>1. InstalledDir(p) \in SUBSET Versions
    BY DEF InstalledDir
  <2>2. /\ InstalledDir(p) # {} => Newest(InstalledDir(p)) \in Versions
        /\ Newest(Accepts[p]) \in Versions
    BY <2>1, NewestOf
  <2>3. \/ hit[p] /\ ver' = ver
        \/ ~hit[p] /\ ver' = [ver EXCEPT ![p] = Newest(InstalledDir(p))] /\ InstalledDir(p) # {}
        \/ ~hit[p] /\ ver' = [ver EXCEPT ![p] = Newest(Accepts[p])]
    BY <1>8, Zenon DEF Setup
  <2>4. /\ pc[p] = "setup" /\ UNCHANGED hit
        /\ pc' = [pc EXCEPT ![p] = IF hit[p] THEN "hook" ELSE "resolve"]
    BY <1>8 DEF Setup, Goto
  <2>5. QED
    BY <2>2, <2>3, <2>4
<1>9. ASSUME NEW p \in Procs, ResolveForCache(p) PROVE PlaceInv'
  <2> DEFINE found == ResolveInstalledDir(p)
  <2>1. found \in SUBSET Versions
    BY <1>9 DEF ResolveForCache, ResolveInstalledDir
  <2>2. found # {} => Newest(found) \in Versions
    BY <2>1, NewestOf
  <2>3. /\ pc[p] = "resolve" /\ UNCHANGED hit
        /\ \/ /\ found # {} /\ ver' = [ver EXCEPT ![p] = Newest(found)]
              /\ pc' = [pc EXCEPT ![p] = "poplock"]
           \/ UNCHANGED ver /\ pc' = [pc EXCEPT ![p] = "hook"]
    BY <1>9 DEF ResolveForCache, Goto
  <2> HIDE DEF found
  <2>4. QED
    BY <2>2, <2>3
<1>10. ASSUME NEW p \in Procs, LockForPopulate(p) PROVE PlaceInv'
  BY <1>10 DEF LockForPopulate, Goto
<1>11. ASSUME NEW p \in Procs, NEW f \in AllFiles, PopulateFile(p, f) PROVE PlaceInv'
  BY <1>11 DEF PopulateFile
<1>12. ASSUME NEW p \in Procs, Populated(p) PROVE PlaceInv'
  BY <1>12 DEF Populated, Goto
<1>13. ASSUME NEW p \in Procs, WriteMarker(p) PROVE PlaceInv'
  BY <1>13 DEF WriteMarker, Goto
<1>14. ASSUME NEW p \in Procs, PopulationFails(p) PROVE PlaceInv'
  BY <1>14 DEF PopulationFails, Goto
<1>15. ASSUME NEW p \in Procs, ForHook(p) PROVE PlaceInv'
  BY <1>15 DEF ForHook, Goto
<1>16. ASSUME NEW p \in Procs, Relock(p) PROVE PlaceInv'
  BY <1>16 DEF Relock, Goto
<1>17. ASSUME NEW p \in Procs, SelectAll(p) PROVE PlaceInv'
  BY <1>17 DEF SelectAll, Goto
<1>18. ASSUME NEW p \in Procs, Acquire(p) PROVE PlaceInv'
  <2>1. /\ pc[p] = "acquire" /\ UNCHANGED <<ver, hit>>
        /\ \/ pc' = [pc EXCEPT ![p] = "verify"]
           \/ pc' = [pc EXCEPT ![p] = "download"]
    BY <1>18, Zenon DEF Acquire, Goto
  <2>2. QED
    BY <2>1
<1>19. ASSUME NEW p \in Procs, Download(p) PROVE PlaceInv'
  BY <1>19 DEF Download, Goto
<1>20. ASSUME NEW p \in Procs, Verify(p) PROVE PlaceInv'
  BY <1>20 DEF Verify, Goto
<1>21. ASSUME NEW p \in Procs, NEW f \in AllFiles, WriteFile(p, f) PROVE PlaceInv'
  BY <1>21 DEF WriteFile
<1>22. ASSUME NEW p \in Procs, Installed(p) PROVE PlaceInv'
  BY <1>22 DEF Installed, Goto
<1>23. ASSUME NEW p \in Procs, HookDone(p) PROVE PlaceInv'
  BY <1>23 DEF HookDone, Goto
<1>24. ASSUME NEW p \in Procs, Start(p) PROVE PlaceInv'
  BY <1>24 DEF Start, Goto
<1>25. ASSUME NEW p \in Procs, SetupOnlyDone(p) PROVE PlaceInv'
  BY <1>25 DEF SetupOnlyDone, Gone, Goto
<1>26. ASSUME NEW p \in Procs, Stop(p) PROVE PlaceInv'
  BY <1>26 DEF Stop, Gone, Goto
<1>27. ASSUME NEW p \in Procs, PlanFull(p) PROVE PlaceInv'
  BY <1>27 DEF PlanFull, Goto
<1>27a. ASSUME NEW p \in Procs, PlanUnguarded(p) PROVE PlaceInv'
  BY <1>27a DEF PlanUnguarded, Goto
<1>28. ASSUME NEW p \in Procs, NEW f \in AllFiles, RemoveFile(p, f) PROVE PlaceInv'
  BY <1>28 DEF RemoveFile
<1>29. ASSUME NEW p \in Procs, Removed(p) PROVE PlaceInv'
  BY <1>29 DEF Removed, Gone, Goto
<1>30. ASSUME NEW p \in Procs, Fails(p) PROVE PlaceInv'
  BY <1>30 DEF Fails, Gone, Goto
<1>31. ASSUME NEW p \in Procs, Abort(p) PROVE PlaceInv'
  BY <1>31 DEF Abort, Gone, Goto
<1>32. ASSUME NEW a \in Archives, Spoil(a) PROVE PlaceInv'
  BY <1>32 DEF Spoil, procVars
<1>33. CASE UNCHANGED vars
  BY <1>33 DEF vars
<1> HIDE DEF TypeOK, PlaceInv
<1>34. QED
  BY <1>1, <1>2, <1>3, <1>4, <1>5, <1>6, <1>7, <1>8, <1>9, <1>10, <1>11,
     <1>12, <1>13, <1>14, <1>15, <1>16, <1>17, <1>18, <1>19, <1>20, <1>21, <1>22,
     <1>23, <1>24, <1>25, <1>26, <1>27, <1>27a, <1>28, <1>29, <1>30, <1>31, <1>32, <1>33
  DEF Next, Work, Lock

\* The declared extensions are numbered from one.
LEMMA Extensions ==
  ASSUME NEW p \in Procs
  PROVE  Len(Declared[p]) \in Nat /\ DOMAIN Declared[p] = 1..Len(Declared[p])
BY InstallAssumption

\* Every step keeps what the hook works on.
LEMMA HookNext == TypeOK /\ Protocol /\ [Next]_vars => HookInv'
<1> SUFFICES ASSUME TypeOK, Protocol, [Next]_vars PROVE HookInv'
  OBVIOUS
<1>0. \A q \in Procs : ver'[q] = ver[q] /\ Resolved(q) => Resolved(q)'
  BY DEF Resolved, Matching
<1> USE Constants DEF TypeOK, stores, Protocol, HookInv
<1>1. ASSUME NEW p \in Procs, NEW m \in {"slotted", "explicit", "cli"}, Bootstrap(p, m)
      PROVE HookInv'
  BY <1>1, <1>0 DEF Bootstrap, Goto
<1>2. ASSUME NEW p \in Procs, AcquireSetup(p) PROVE HookInv'
  BY <1>2, <1>0 DEF AcquireSetup, Goto
<1>3. ASSUME NEW p \in Procs, FindCached(p) PROVE HookInv'
  BY <1>3, <1>0 DEF FindCached, Goto
<1>4. ASSUME NEW p \in Procs, LockEntry(p) PROVE HookInv'
  BY <1>4, <1>0 DEF LockEntry, Miss, Goto
<1>5. ASSUME NEW p \in Procs, NEW f \in AllFiles, CopyFile(p, f) PROVE HookInv'
  BY <1>5, <1>0 DEF CopyFile
<1>6. ASSUME NEW p \in Procs, CacheHit(p) PROVE HookInv'
  BY <1>6, <1>0 DEF CacheHit, Goto
<1>7. ASSUME NEW p \in Procs, CopyFails(p) PROVE HookInv'
  BY <1>7, <1>0 DEF CopyFails, Miss, Goto
<1>8. ASSUME NEW p \in Procs, Setup(p) PROVE HookInv'
  BY <1>8, <1>0 DEF Setup, Goto
<1>9. ASSUME NEW p \in Procs, ResolveForCache(p) PROVE HookInv'
  BY <1>9, <1>0 DEF ResolveForCache, Goto
<1>10. ASSUME NEW p \in Procs, LockForPopulate(p) PROVE HookInv'
  BY <1>10, <1>0 DEF LockForPopulate, Goto
<1>11. ASSUME NEW p \in Procs, NEW f \in AllFiles, PopulateFile(p, f) PROVE HookInv'
  BY <1>11, <1>0 DEF PopulateFile
<1>12. ASSUME NEW p \in Procs, Populated(p) PROVE HookInv'
  BY <1>12, <1>0 DEF Populated, Goto
<1>13. ASSUME NEW p \in Procs, WriteMarker(p) PROVE HookInv'
  BY <1>13, <1>0 DEF WriteMarker, Goto
<1>14. ASSUME NEW p \in Procs, PopulationFails(p) PROVE HookInv'
  BY <1>14, <1>0 DEF PopulationFails, Goto
<1>15. ASSUME NEW p \in Procs, ForHook(p) PROVE HookInv'
  BY <1>15, <1>0 DEF ForHook, Goto
<1>16. ASSUME NEW p \in Procs, Relock(p) PROVE HookInv'
  BY <1>16, <1>0 DEF Relock, Goto
<1>17. ASSUME NEW p \in Procs, SelectAll(p) PROVE HookInv'
  <2>1. Resolved(p) /\ Len(Declared[p]) # 0
    BY <1>17 DEF SelectAll, Resolved
  <2>2. 1 \in DOMAIN Declared[p]
    BY <2>1, Extensions
  <2>3. QED
    BY <1>17, <1>0, <2>1, <2>2 DEF SelectAll, Goto
<1>18. ASSUME NEW p \in Procs, Acquire(p) PROVE HookInv'
  BY <1>18, <1>0 DEF Acquire, Goto
<1>19. ASSUME NEW p \in Procs, Download(p) PROVE HookInv'
  BY <1>19, <1>0 DEF Download, Goto
<1>20. ASSUME NEW p \in Procs, Verify(p) PROVE HookInv'
  <2>1. Current(p) \in Archives /\ Contents[Current(p)] \subseteq ExtensionFiles
    BY <1>20, SelectedArchive DEF Verify, Current, Resolved
  <2>2. QED
    BY <1>20, <1>0, <2>1 DEF Verify, Goto
<1>21. ASSUME NEW p \in Procs, NEW f \in AllFiles, WriteFile(p, f) PROVE HookInv'
  BY <1>21, <1>0 DEF WriteFile
<1>22. ASSUME NEW p \in Procs, Installed(p) PROVE HookInv'
  <2>1. next[p] \in DOMAIN Declared[p]
    BY <1>22 DEF Installed
  <2>2. next[p] < Len(Declared[p]) => next[p] + 1 \in DOMAIN Declared[p]
    BY <2>1, Extensions
  <2>3. QED
    BY <1>22, <1>0, <2>2 DEF Installed, Goto
<1>23. ASSUME NEW p \in Procs, HookDone(p) PROVE HookInv'
  BY <1>23, <1>0 DEF HookDone, Goto
<1>24. ASSUME NEW p \in Procs, Start(p) PROVE HookInv'
  BY <1>24, <1>0 DEF Start, Goto
<1>25. ASSUME NEW p \in Procs, SetupOnlyDone(p) PROVE HookInv'
  BY <1>25, <1>0 DEF SetupOnlyDone, Gone, Goto
<1>26. ASSUME NEW p \in Procs, Stop(p) PROVE HookInv'
  BY <1>26, <1>0 DEF Stop, Gone, Goto
<1>27. ASSUME NEW p \in Procs, PlanFull(p) PROVE HookInv'
  BY <1>27, <1>0 DEF PlanFull, Goto
<1>27a. ASSUME NEW p \in Procs, PlanUnguarded(p) PROVE HookInv'
  BY <1>27a, <1>0 DEF PlanUnguarded, Goto
<1>28. ASSUME NEW p \in Procs, NEW f \in AllFiles, RemoveFile(p, f) PROVE HookInv'
  BY <1>28, <1>0 DEF RemoveFile
<1>29. ASSUME NEW p \in Procs, Removed(p) PROVE HookInv'
  BY <1>29, <1>0 DEF Removed, Gone, Goto
<1>30. ASSUME NEW p \in Procs, Fails(p) PROVE HookInv'
  BY <1>30, <1>0 DEF Fails, Gone, Goto
<1>31. ASSUME NEW p \in Procs, Abort(p) PROVE HookInv'
  BY <1>31, <1>0 DEF Abort, Gone, Goto
<1>32. ASSUME NEW a \in Archives, Spoil(a) PROVE HookInv'
  BY <1>32, <1>0 DEF Spoil, procVars
<1>33. CASE UNCHANGED vars
  BY <1>33, <1>0 DEF vars
<1> HIDE DEF TypeOK, HookInv
<1>34. QED
  BY <1>1, <1>2, <1>3, <1>4, <1>5, <1>6, <1>7, <1>8, <1>9, <1>10, <1>11,
     <1>12, <1>13, <1>14, <1>15, <1>16, <1>17, <1>18, <1>19, <1>20, <1>21, <1>22,
     <1>23, <1>24, <1>25, <1>26, <1>27, <1>27a, <1>28, <1>29, <1>30, <1>31, <1>32, <1>33
  DEF Next, Work, Lock

-----------------------------------------------------------------------------
(* The tree and the cache.                                                 *)

\* The steps that change the tree, the cache or what is known of it.
LEMMA Writers ==
  ASSUME [Next]_vars
  PROVE
  \/ UNCHANGED <<dirs, tree, cache, uncached>>
  \/ \E p \in Procs :
       \/ LockEntry(p) \/ Setup(p) \/ WriteMarker(p) \/ PopulationFails(p) \/ Removed(p)
       \/ \E f \in AllFiles : CopyFile(p, f) \/ PopulateFile(p, f) \/ WriteFile(p, f)
                                \/ RemoveFile(p, f)
<1> DEFINE quiet == UNCHANGED <<dirs, tree, cache, uncached>>
<1> USE DEF stores
<1>1. ASSUME NEW p \in Procs, NEW m \in {"slotted", "explicit", "cli"}, Bootstrap(p, m)
      PROVE quiet
  BY <1>1 DEF Bootstrap, Goto
<1>2. ASSUME NEW p \in Procs, AcquireSetup(p) PROVE quiet
  BY <1>2 DEF AcquireSetup, Goto
<1>3. ASSUME NEW p \in Procs, FindCached(p) PROVE quiet
  BY <1>3 DEF FindCached, Goto
<1>4. ASSUME NEW p \in Procs, CacheHit(p) PROVE quiet
  BY <1>4 DEF CacheHit, Goto
<1>5. ASSUME NEW p \in Procs, CopyFails(p) PROVE quiet
  BY <1>5 DEF CopyFails, Miss, Goto
<1>6. ASSUME NEW p \in Procs, ResolveForCache(p) PROVE quiet
  BY <1>6 DEF ResolveForCache, Goto
<1>7. ASSUME NEW p \in Procs, LockForPopulate(p) PROVE quiet
  BY <1>7 DEF LockForPopulate, Goto
<1>8. ASSUME NEW p \in Procs, Populated(p) PROVE quiet
  BY <1>8 DEF Populated, Goto
<1>9. ASSUME NEW p \in Procs, ForHook(p) PROVE quiet
  BY <1>9 DEF ForHook, Goto
<1>10. ASSUME NEW p \in Procs, Relock(p) PROVE quiet
  BY <1>10 DEF Relock, Goto
<1>11. ASSUME NEW p \in Procs, SelectAll(p) PROVE quiet
  BY <1>11 DEF SelectAll, Goto
<1>12. ASSUME NEW p \in Procs, Acquire(p) PROVE quiet
  BY <1>12 DEF Acquire, Goto
<1>13. ASSUME NEW p \in Procs, Download(p) PROVE quiet
  BY <1>13 DEF Download, Goto
<1>14. ASSUME NEW p \in Procs, Verify(p) PROVE quiet
  BY <1>14 DEF Verify, Goto
<1>15. ASSUME NEW p \in Procs, Installed(p) PROVE quiet
  BY <1>15 DEF Installed, Goto
<1>16. ASSUME NEW p \in Procs, HookDone(p) PROVE quiet
  BY <1>16 DEF HookDone, Goto
<1>17. ASSUME NEW p \in Procs, Start(p) PROVE quiet
  BY <1>17 DEF Start, Goto
<1>18. ASSUME NEW p \in Procs, SetupOnlyDone(p) PROVE quiet
  BY <1>18 DEF SetupOnlyDone, Gone, Goto
<1>19. ASSUME NEW p \in Procs, Stop(p) PROVE quiet
  BY <1>19 DEF Stop, Gone, Goto
<1>20. ASSUME NEW p \in Procs, PlanFull(p) PROVE quiet
  BY <1>20 DEF PlanFull, Goto
<1>20a. ASSUME NEW p \in Procs, PlanUnguarded(p) PROVE quiet
  BY <1>20a DEF PlanUnguarded, Goto
<1>21. ASSUME NEW p \in Procs, Fails(p) PROVE quiet
  BY <1>21 DEF Fails, Gone, Goto
<1>22. ASSUME NEW p \in Procs, Abort(p) PROVE quiet
  BY <1>22 DEF Abort, Gone, Goto
<1>23. ASSUME NEW a \in Archives, Spoil(a) PROVE quiet
  BY <1>23 DEF Spoil
<1>24. ASSUME UNCHANGED vars PROVE quiet
  BY <1>24 DEF vars
<1> HIDE DEF quiet
<1>25. quiet \/ \E p \in Procs :
       \/ LockEntry(p) \/ Setup(p) \/ WriteMarker(p) \/ PopulationFails(p) \/ Removed(p)
       \/ \E f \in AllFiles : CopyFile(p, f) \/ PopulateFile(p, f) \/ WriteFile(p, f)
                                \/ RemoveFile(p, f)
  BY <1>1, <1>2, <1>3, <1>4, <1>5, <1>6, <1>7, <1>8, <1>9, <1>10, <1>11, <1>12, <1>13,
     <1>14, <1>15, <1>16, <1>17, <1>18, <1>19, <1>20, <1>21, <1>22, <1>23, <1>24,
     <1>20a
  DEF Next, Work, Lock
<1>26. QED
  BY <1>25, Zenon DEF quiet

\* What a step writes to a file of a directory, and what it leaves.
LEMMA OneFile ==
  ASSUME NEW t \in [Versions -> [AllFiles -> Content]],
         NEW v \in Versions, NEW f \in AllFiles, NEW c
  PROVE  /\ \A w \in Versions \ {v} : [t EXCEPT ![v][f] = c][w] = t[w]
         /\ \A g \in AllFiles \ {f} : [t EXCEPT ![v][f] = c][v][g] = t[v][g]
         /\ [t EXCEPT ![v][f] = c][v][f] = c
OBVIOUS

\* No version becomes fresh: markers are not removed, failures not forgotten.
LEMMA FreshStays ==
  ASSUME TypeOK, Protocol, [Next]_vars, NEW v \in Versions, Fresh(v)'
  PROVE  Fresh(v)
<1> USE Constants DEF TypeOK, stores, Protocol, PlaceInv, Based, Fresh, Marked
<1>1. CASE UNCHANGED <<dirs, tree, cache, uncached>>
  BY <1>1
<1>2. ASSUME NEW p \in Procs, LockEntry(p) PROVE Fresh(v)
  BY <1>2 DEF LockEntry, Miss, Goto
<1>3. ASSUME NEW p \in Procs, NEW f \in AllFiles, CopyFile(p, f) PROVE Fresh(v)
  BY <1>3 DEF CopyFile
<1>4. ASSUME NEW p \in Procs, Setup(p) PROVE Fresh(v)
  BY <1>4 DEF Setup, Goto
<1>5. ASSUME NEW p \in Procs, NEW f \in AllFiles, PopulateFile(p, f) PROVE Fresh(v)
  <2>1. ver[p] \in Versions /\ tree[ver[p]][f] # "absent" /\ uncached' = uncached
    BY <1>5 DEF PopulateFile
  <2>2. \E c : c # "absent" /\ cache' = [cache EXCEPT ![ver[p]][f] = c]
    BY <1>5, <2>1, Zenon DEF PopulateFile
  <2>3. QED
    BY <2>1, <2>2, OneFile
<1>6. ASSUME NEW p \in Procs, WriteMarker(p) PROVE Fresh(v)
  <2>1. /\ ver[p] \in Versions /\ uncached' = uncached
        /\ cache' = [cache EXCEPT ![ver[p]][Marker] = "whole"]
    BY <1>6 DEF WriteMarker
  <2>2. QED
    BY <2>1, OneFile
<1>7. ASSUME NEW p \in Procs, PopulationFails(p) PROVE Fresh(v)
  BY <1>7 DEF PopulationFails, Goto
<1>8. ASSUME NEW p \in Procs, NEW f \in AllFiles, WriteFile(p, f) PROVE Fresh(v)
  BY <1>8 DEF WriteFile
<1>9. ASSUME NEW p \in Procs, NEW f \in AllFiles, RemoveFile(p, f) PROVE Fresh(v)
  BY <1>9 DEF RemoveFile
<1>10. ASSUME NEW p \in Procs, Removed(p) PROVE Fresh(v)
  BY <1>10 DEF Removed, Gone, Goto
<1> HIDE DEF TypeOK, Fresh, Marked, Protocol
<1>11. QED
  BY Writers, <1>1, <1>2, <1>3, <1>4, <1>5, <1>6, <1>7, <1>8, <1>9, <1>10

\* The directory of a fresh version stays the release.
LEMMA TreeNext ==
  ASSUME TypeOK, Protocol, UsedInv, TreeInv, [Next]_vars
  PROVE  TreeInv'
<1> USE Constants DEF TypeOK, Protocol, PlaceInv, Based, TreeInv
<1>1. CASE UNCHANGED <<dirs, tree, cache, uncached>>
  BY <1>1, FreshStays
<1>2. ASSUME NEW p \in Procs, LockEntry(p) PROVE TreeInv'
  <2>1. \/ tree' = tree /\ dirs' = dirs
        \/ tree' = tree /\ Complete(ver[p]) /\ dirs' = dirs \cup {ver[p]}
    BY <1>2 DEF LockEntry, Miss, stores
  <2>2. QED
    BY <2>1, FreshStays DEF Complete, Fresh, Marked
<1>3. ASSUME NEW p \in Procs, NEW f \in AllFiles, CopyFile(p, f) PROVE TreeInv'
  <2>1. ver[p] \in Versions /\ ~Fresh(ver[p]) /\ dirs' = dirs
    BY <1>3 DEF CopyFile, UsedInv
  <2>2. \E c : tree' = [tree EXCEPT ![ver[p]][f] = c]
    BY <1>3, Zenon DEF CopyFile
  <2>3. QED
    BY <2>1, <2>2, OneFile, FreshStays
<1>4. ASSUME NEW p \in Procs, Setup(p) PROVE TreeInv'
  <2>1. Newest(Accepts[p]) \in Versions
    BY NewestOf
  <2>2. \/ UNCHANGED <<dirs, tree>>
        \/ /\ ver' = [ver EXCEPT ![p] = Newest(Accepts[p])]
           /\ dirs' = dirs \cup {ver'[p]} /\ tree' = [tree EXCEPT ![ver'[p]] = Pristine]
    BY <1>4, Zenon DEF Setup
  <2>3. QED
    BY <2>1, <2>2, FreshStays
<1>5. ASSUME NEW p \in Procs, NEW f \in AllFiles, PopulateFile(p, f) PROVE TreeInv'
  BY <1>5, FreshStays DEF PopulateFile
<1>6. ASSUME NEW p \in Procs, WriteMarker(p) PROVE TreeInv'
  BY <1>6, FreshStays DEF WriteMarker
<1>7. ASSUME NEW p \in Procs, PopulationFails(p) PROVE TreeInv'
  BY <1>7, FreshStays DEF PopulationFails
<1>8. ASSUME NEW p \in Procs, NEW f \in AllFiles, WriteFile(p, f) PROVE TreeInv'
  <2>1. ver[p] \in Versions /\ ~Fresh(ver[p]) /\ dirs' = dirs
    BY <1>8 DEF WriteFile, UsedInv, Using
  <2>2. \A v \in Versions \ {ver[p]} : tree'[v] = tree[v]
    BY <1>8, <2>1, OneFile DEF WriteFile
  <2>3. QED
    BY <2>1, <2>2, FreshStays
<1>9. ASSUME NEW p \in Procs, NEW f \in AllFiles, RemoveFile(p, f) PROVE TreeInv'
  <2>1. ver[p] \in Versions /\ ~Fresh(ver[p]) /\ dirs' = dirs
    BY <1>9 DEF RemoveFile, UsedInv, Using
  <2>2. \A v \in Versions \ {ver[p]} : tree'[v] = tree[v]
    BY <1>9, <2>1, OneFile DEF RemoveFile
  <2>3. QED
    BY <2>1, <2>2, FreshStays
<1>10. ASSUME NEW p \in Procs, Removed(p) PROVE TreeInv'
  <2>1. tree' = tree /\ dirs' \subseteq dirs
    BY <1>10 DEF Removed
  <2>2. QED
    BY <2>1, FreshStays
<1> HIDE DEF TypeOK, TreeInv, Protocol
<1>11. QED
  BY Writers, <1>1, <1>2, <1>3, <1>4, <1>5, <1>6, <1>7, <1>8, <1>9, <1>10

\* Versions are compared as numbers.
LEMMA VersionsNat == Versions \subseteq Nat
BY InstallAssumption

\* Two versions that are not newer than each other are the same.
LEMMA SameVersion ==
  ASSUME NEW v \in Nat, NEW w \in Nat, v <= w, w <= v
  PROVE  w = v
OBVIOUS

\* Nobody comes to the hook with a fresh version: its own population, if not an earlier
\* one, has marked it or failed.
LEMMA UsedNext ==
  ASSUME TypeOK, Protocol, UsedInv, NewestInv, TreeInv, [Next]_vars
  PROVE  UsedInv'
<1>0. \A v \in Versions : ~Fresh(v) => ~Fresh(v)'
  BY FreshStays
<1> USE Constants DEF TypeOK, stores, Protocol, PlaceInv, Based, UsedInv, Using
<1>1. ASSUME NEW p \in Procs, NEW m \in {"slotted", "explicit", "cli"}, Bootstrap(p, m)
      PROVE UsedInv'
  BY <1>1, <1>0 DEF Bootstrap, Goto
<1>2. ASSUME NEW p \in Procs, AcquireSetup(p) PROVE UsedInv'
  BY <1>2, <1>0 DEF AcquireSetup, Goto
<1>3. ASSUME NEW p \in Procs, FindCached(p) PROVE UsedInv'
  <2>1. /\ pc[p] = "lookup" /\ ~hit[p] /\ UNCHANGED hit
        /\ \/ pc' = [pc EXCEPT ![p] = "setup"] /\ UNCHANGED ver
           \/ \E v : pc' = [pc EXCEPT ![p] = "cachelock"] /\ ver' = [ver EXCEPT ![p] = v]
    BY <1>3, Zenon DEF FindCached, Goto, PlaceInv
  <2>2. \A q \in Procs \ {p} : pc'[q] = pc[q] /\ ver'[q] = ver[q] /\ hit'[q] = hit[q]
    BY <2>1
  <2>3. (pc'[p] = "setup" /\ ~hit'[p]) \/ pc'[p] = "cachelock"
    BY <2>1
  <2>4. QED
    BY <1>0, <2>2, <2>3
<1>4. ASSUME NEW p \in Procs, LockEntry(p) PROVE UsedInv'
  <2>1. pc[p] = "cachelock" /\ ~hit[p] /\ ver[p] \in Versions /\ UNCHANGED hit
    BY <1>4 DEF LockEntry, Miss
  <2>2. \/ pc' = [pc EXCEPT ![p] = "setup"] /\ ver' = [ver EXCEPT ![p] = None]
        \/ pc' = [pc EXCEPT ![p] = "copying"] /\ ver' = ver /\ Complete(ver[p])
    BY <1>4, Zenon DEF LockEntry, Miss, Goto
  <2>3. Complete(ver[p]) => ~Fresh(ver[p])
    BY DEF Complete, Fresh, Marked
  <2>4. \A q \in Procs \ {p} : pc'[q] = pc[q] /\ ver'[q] = ver[q] /\ hit'[q] = hit[q]
    BY <2>1, <2>2
  <2>5. \/ pc'[p] = "setup" /\ ~hit'[p]
        \/ pc'[p] = "copying" /\ ver'[p] = ver[p] /\ ~Fresh(ver[p])
    BY <2>1, <2>2, <2>3
  <2>6. QED
    BY <1>0, <2>1, <2>4, <2>5
<1>5. ASSUME NEW p \in Procs, NEW f \in AllFiles, CopyFile(p, f) PROVE UsedInv'
  BY <1>5, <1>0 DEF CopyFile
<1>6. ASSUME NEW p \in Procs, CacheHit(p) PROVE UsedInv'
  BY <1>6, <1>0 DEF CacheHit, Goto
<1>7. ASSUME NEW p \in Procs, CopyFails(p) PROVE UsedInv'
  BY <1>7, <1>0 DEF CopyFails, Miss, Goto
<1>8. ASSUME NEW p \in Procs, Setup(p) PROVE UsedInv'
  <2>1. /\ pc[p] = "setup" /\ UNCHANGED hit
        /\ \/ hit[p] /\ UNCHANGED ver /\ pc' = [pc EXCEPT ![p] = "hook"]
           \/ \E v : /\ ~hit[p] /\ ver' = [ver EXCEPT ![p] = v]
                     /\ pc' = [pc EXCEPT ![p] = "resolve"]
    BY <1>8, Zenon DEF Setup, Goto
  <2>2. \A q \in Procs \ {p} : pc'[q] = pc[q] /\ ver'[q] = ver[q] /\ hit'[q] = hit[q]
    BY <2>1
  <2>3. (hit[p] /\ ver'[p] = ver[p]) \/ pc'[p] = "resolve"
    BY <2>1
  <2>4. QED
    BY <1>0, <2>1, <2>2, <2>3
<1>9. ASSUME NEW p \in Procs, ResolveForCache(p) PROVE UsedInv'
  <2> DEFINE found == ResolveInstalledDir(p)
  <2>1. pc[p] = "resolve" /\ ~hit[p] /\ ver[p] \in Versions /\ UNCHANGED hit
    BY <1>9 DEF ResolveForCache
  <2>2. found = {v \in Accepts[p] \cap dirs : tree[v][Initdb] # "absent"}
    BY <2>1 DEF ResolveInstalledDir
  <2>3. found \in SUBSET Versions
    BY <2>2
  <2> HIDE DEF found
  <2>4. CASE found # {} /\ ~Complete(Newest(found))
    <3>1. pc' = [pc EXCEPT ![p] = "poplock"] /\ ver' = [ver EXCEPT ![p] = Newest(found)]
      BY <1>9, <2>4 DEF ResolveForCache, Goto, found
    <3>2. QED
      BY <2>1, <3>1, <1>0
  <2>5. CASE ~(found # {} /\ ~Complete(Newest(found)))
    <3>1. pc' = [pc EXCEPT ![p] = "hook"] /\ ver' = ver
      BY <1>9, <2>5 DEF ResolveForCache, Goto, found
    <3>2. ASSUME Fresh(ver[p]) PROVE FALSE
      <4>1. ver[p] \in found
        BY <2>1, <2>2, <3>2 DEF NewestInv, TreeInv, Pristine
      <4>2. Newest(found) \in found /\ ver[p] <= Newest(found)
        BY <2>3, <4>1, NewestOf
      <4>3. Newest(found) <= ver[p]
        BY <2>1, <2>2, <4>2 DEF NewestInv
      <4>4. Newest(found) = ver[p]
        <5>1. Newest(found) \in Nat /\ ver[p] \in Nat
          BY <2>1, <2>3, <4>2, VersionsNat
        <5>2. QED
          BY <4>2, <4>3, <5>1, SameVersion, Zenon
      <4>5. QED
        BY <2>5, <3>2, <4>1, <4>4 DEF Complete, Fresh, Marked
    <3>3. QED
      BY <2>1, <3>1, <3>2, <1>0
  <2>6. QED
    BY <2>4, <2>5
<1>10. ASSUME NEW p \in Procs, LockForPopulate(p) PROVE UsedInv'
  <2>1. pc[p] = "poplock" /\ ~hit[p] /\ ver[p] \in Versions /\ UNCHANGED <<hit, ver>>
    BY <1>10 DEF LockForPopulate
  <2>2. \/ pc' = [pc EXCEPT ![p] = "hook"] /\ Complete(ver[p])
        \/ pc' = [pc EXCEPT ![p] = "populating"]
    BY <1>10 DEF LockForPopulate, Goto
  <2>3. Complete(ver[p]) => ~Fresh(ver[p])
    BY DEF Complete, Fresh, Marked
  <2>4. QED
    BY <1>0, <2>1, <2>2, <2>3
<1>11. ASSUME NEW p \in Procs, NEW f \in AllFiles, PopulateFile(p, f) PROVE UsedInv'
  BY <1>11, <1>0 DEF PopulateFile
<1>12. ASSUME NEW p \in Procs, Populated(p) PROVE UsedInv'
  BY <1>12, <1>0 DEF Populated, Goto
<1>13. ASSUME NEW p \in Procs, WriteMarker(p) PROVE UsedInv'
  <2>1. /\ ver[p] \in Versions /\ UNCHANGED <<hit, ver>> /\ pc' = [pc EXCEPT ![p] = "hook"]
        /\ cache' = [cache EXCEPT ![ver[p]][Marker] = "whole"]
    BY <1>13 DEF WriteMarker, Goto
  <2>2. ~Fresh(ver[p])'
    BY <2>1, OneFile DEF Fresh, Marked
  <2>3. \A q \in Procs \ {p} : pc'[q] = pc[q] /\ ver'[q] = ver[q] /\ hit'[q] = hit[q]
    BY <2>1
  <2>4. QED
    BY <1>0, <2>2, <2>3
<1>14. ASSUME NEW p \in Procs, PopulationFails(p) PROVE UsedInv'
  <2>1. /\ ver[p] \in Versions /\ UNCHANGED <<hit, ver>> /\ pc' = [pc EXCEPT ![p] = "hook"]
        /\ uncached' = uncached \cup {ver[p]}
    BY <1>14 DEF PopulationFails, Goto
  <2>2. ~Fresh(ver[p])'
    BY <2>1 DEF Fresh
  <2>3. \A q \in Procs \ {p} : pc'[q] = pc[q] /\ ver'[q] = ver[q] /\ hit'[q] = hit[q]
    BY <2>1
  <2>4. QED
    BY <1>0, <2>2, <2>3
<1>15. ASSUME NEW p \in Procs, ForHook(p) PROVE UsedInv'
  BY <1>15, <1>0 DEF ForHook, Goto
<1>16. ASSUME NEW p \in Procs, Relock(p) PROVE UsedInv'
  BY <1>16, <1>0 DEF Relock, Goto
<1>17. ASSUME NEW p \in Procs, SelectAll(p) PROVE UsedInv'
  BY <1>17, <1>0 DEF SelectAll, Goto
<1>18. ASSUME NEW p \in Procs, Acquire(p) PROVE UsedInv'
  BY <1>18, <1>0 DEF Acquire, Goto
<1>19. ASSUME NEW p \in Procs, Download(p) PROVE UsedInv'
  BY <1>19, <1>0 DEF Download, Goto
<1>20. ASSUME NEW p \in Procs, Verify(p) PROVE UsedInv'
  BY <1>20, <1>0 DEF Verify, Goto
<1>21. ASSUME NEW p \in Procs, NEW f \in AllFiles, WriteFile(p, f) PROVE UsedInv'
  BY <1>21, <1>0 DEF WriteFile
<1>22. ASSUME NEW p \in Procs, Installed(p) PROVE UsedInv'
  BY <1>22, <1>0 DEF Installed, Goto
<1>23. ASSUME NEW p \in Procs, HookDone(p) PROVE UsedInv'
  BY <1>23, <1>0 DEF HookDone, Goto
<1>24. ASSUME NEW p \in Procs, Start(p) PROVE UsedInv'
  BY <1>24, <1>0 DEF Start, Goto
<1>25. ASSUME NEW p \in Procs, SetupOnlyDone(p) PROVE UsedInv'
  BY <1>25, <1>0 DEF SetupOnlyDone, Gone, Goto
<1>26. ASSUME NEW p \in Procs, Stop(p) PROVE UsedInv'
  BY <1>26, <1>0 DEF Stop, Gone, Goto
<1>27. ASSUME NEW p \in Procs, PlanFull(p) PROVE UsedInv'
  BY <1>27, <1>0 DEF PlanFull, Goto
<1>27a. ASSUME NEW p \in Procs, PlanUnguarded(p) PROVE UsedInv'
  BY <1>27a, <1>0 DEF PlanUnguarded, Goto
<1>28. ASSUME NEW p \in Procs, NEW f \in AllFiles, RemoveFile(p, f) PROVE UsedInv'
  BY <1>28, <1>0 DEF RemoveFile
<1>29. ASSUME NEW p \in Procs, Removed(p) PROVE UsedInv'
  BY <1>29, <1>0 DEF Removed, Gone, Goto
<1>30. ASSUME NEW p \in Procs, Fails(p) PROVE UsedInv'
  BY <1>30, <1>0 DEF Fails, Gone, Goto
<1>31. ASSUME NEW p \in Procs, Abort(p) PROVE UsedInv'
  BY <1>31, <1>0 DEF Abort, Gone, Goto
<1>32. ASSUME NEW a \in Archives, Spoil(a) PROVE UsedInv'
  BY <1>32, <1>0 DEF Spoil, procVars
<1>33. CASE UNCHANGED vars
  BY <1>33, <1>0 DEF vars
<1> HIDE DEF TypeOK, UsedInv, Protocol
<1>34. QED
  BY <1>1, <1>2, <1>3, <1>4, <1>5, <1>6, <1>7, <1>8, <1>9, <1>10, <1>11,
     <1>12, <1>13, <1>14, <1>15, <1>16, <1>17, <1>18, <1>19, <1>20, <1>21, <1>22,
     <1>23, <1>24, <1>25, <1>26, <1>27, <1>27a, <1>28, <1>29, <1>30, <1>31, <1>32, <1>33
  DEF Next, Work, Lock

\* What setup has chosen stays the newest and stays there: others add directories under
\* the setup lock only, and remove none that is fresh.
LEMMA NewestNext ==
  ASSUME TypeOK, Protocol, UsedInv, NewestInv, [Next]_vars
  PROVE  NewestInv'
<1>0. \A v \in Versions : ~Fresh(v) => ~Fresh(v)'
  BY FreshStays
<1> USE Constants DEF TypeOK, stores, Protocol, PlaceInv, LockInv, Locking, Based, NewestInv
<1>1. ASSUME NEW p \in Procs, NEW m \in {"slotted", "explicit", "cli"}, Bootstrap(p, m)
      PROVE NewestInv'
  BY <1>1, <1>0 DEF Bootstrap, Goto
<1>2. ASSUME NEW p \in Procs, AcquireSetup(p) PROVE NewestInv'
  BY <1>2, <1>0 DEF AcquireSetup, Goto
<1>3. ASSUME NEW p \in Procs, FindCached(p) PROVE NewestInv'
  <2>1. /\ pc'[p] \in {"setup", "cachelock"} /\ dirs' = dirs
        /\ \A q \in Procs \ {p} : pc'[q] = pc[q] /\ ver'[q] = ver[q]
    BY <1>3 DEF FindCached, Goto
  <2>2. QED
    BY <1>0, <2>1
<1>4. ASSUME NEW p \in Procs, LockEntry(p) PROVE NewestInv'
  <2>1. pc[p] = "cachelock" /\ setup = p /\ pc'[p] \in {"setup", "copying"} /\ dirs \subseteq dirs'
    BY <1>4 DEF LockEntry, Miss, Goto
  <2>2. \A q \in Procs \ {p} : pc'[q] = pc[q] /\ pc[q] \notin Caching
    BY <1>4, <2>1 DEF LockEntry, Miss, Goto
  <2>3. QED
    BY <2>1, <2>2
<1>5. ASSUME NEW p \in Procs, NEW f \in AllFiles, CopyFile(p, f) PROVE NewestInv'
  BY <1>5, <1>0 DEF CopyFile
<1>6. ASSUME NEW p \in Procs, CacheHit(p) PROVE NewestInv'
  BY <1>6, <1>0 DEF CacheHit, Goto
<1>7. ASSUME NEW p \in Procs, CopyFails(p) PROVE NewestInv'
  BY <1>7, <1>0 DEF CopyFails, Miss, Goto
<1>8. ASSUME NEW p \in Procs, Setup(p) PROVE NewestInv'
  <2>1. CASE hit[p]
    <3>1. /\ pc' = [pc EXCEPT ![p] = "hook"] /\ UNCHANGED <<ver, dirs>>
      BY <1>8, <2>1 DEF Setup, Goto
    <3>2. QED
      BY <1>0, <3>1
  <2>2. CASE ~hit[p]
    <3>1. pc[p] = "setup" /\ setup = p /\ pc' = [pc EXCEPT ![p] = "resolve"]
      BY <1>8, <2>2 DEF Setup, Goto
    <3>2. \A q \in Procs \ {p} : pc[q] \notin Caching
      BY <3>1
    <3>3. /\ InstalledDir(p) \in SUBSET Versions /\ Accepts[p] \in SUBSET Versions
          /\ Accepts[p] # {}
      BY DEF InstalledDir
    <3>4. /\ ver'[p] \in Accepts[p] /\ ver'[p] \in dirs'
          /\ \A w \in Accepts[p] \cap dirs' : w <= ver'[p]
      <4>1. CASE InstalledDir(p) # {}
        <5>1. ver' = [ver EXCEPT ![p] = Newest(InstalledDir(p))] /\ dirs' = dirs
          BY <1>8, <2>2, <4>1 DEF Setup
        <5>2. QED
          BY <3>3, <4>1, <5>1, NewestOf DEF InstalledDir
      <4>2. CASE InstalledDir(p) = {}
        <5>1. /\ ver' = [ver EXCEPT ![p] = Newest(Accepts[p])]
              /\ dirs' = dirs \cup {ver'[p]}
          BY <1>8, <2>2, <4>2 DEF Setup
        <5>2. QED
          BY <3>3, <4>2, <5>1, NewestOf DEF InstalledDir
      <4>3. QED
        BY <4>1, <4>2
    <3>5. \A q \in Procs \ {p} : pc'[q] = pc[q]
      BY <3>1
    <3>6. QED
      BY <3>2, <3>4, <3>5
  <2>3. QED
    BY <2>1, <2>2
<1>9. ASSUME NEW p \in Procs, ResolveForCache(p) PROVE NewestInv'
  <2> DEFINE found == ResolveInstalledDir(p)
  <2>1. pc[p] = "resolve" /\ ~hit[p] /\ dirs' = dirs
    BY <1>9 DEF ResolveForCache
  <2>2. found \in SUBSET Versions /\ found \subseteq dirs
    BY <2>1 DEF ResolveInstalledDir
  <2>3. found # {} => Newest(found) \in dirs
    BY <2>2, NewestOf
  <2> HIDE DEF found
  <2>4. /\ \/ pc'[p] = "poplock" /\ ver'[p] \in dirs
           \/ pc'[p] = "hook"
        /\ \A q \in Procs \ {p} : pc'[q] = pc[q] /\ ver'[q] = ver[q]
    BY <1>9, <2>3 DEF ResolveForCache, Goto, found
  <2>5. QED
    BY <1>0, <2>1, <2>4
<1>10. ASSUME NEW p \in Procs, LockForPopulate(p) PROVE NewestInv'
  <2>1. /\ pc[p] = "poplock" /\ ver' = ver /\ dirs' = dirs
        /\ pc'[p] \in {"hook", "populating"}
        /\ \A q \in Procs \ {p} : pc'[q] = pc[q]
    BY <1>10 DEF LockForPopulate, Goto
  <2>2. QED
    BY <1>0, <2>1
<1>11. ASSUME NEW p \in Procs, NEW f \in AllFiles, PopulateFile(p, f) PROVE NewestInv'
  BY <1>11, <1>0 DEF PopulateFile
<1>12. ASSUME NEW p \in Procs, Populated(p) PROVE NewestInv'
  BY <1>12, <1>0 DEF Populated, Goto
<1>13. ASSUME NEW p \in Procs, WriteMarker(p) PROVE NewestInv'
  BY <1>13, <1>0 DEF WriteMarker, Goto
<1>14. ASSUME NEW p \in Procs, PopulationFails(p) PROVE NewestInv'
  BY <1>14, <1>0 DEF PopulationFails, Goto
<1>15. ASSUME NEW p \in Procs, ForHook(p) PROVE NewestInv'
  BY <1>15, <1>0 DEF ForHook, Goto
<1>16. ASSUME NEW p \in Procs, Relock(p) PROVE NewestInv'
  BY <1>16, <1>0 DEF Relock, Goto
<1>17. ASSUME NEW p \in Procs, SelectAll(p) PROVE NewestInv'
  BY <1>17, <1>0 DEF SelectAll, Goto
<1>18. ASSUME NEW p \in Procs, Acquire(p) PROVE NewestInv'
  BY <1>18, <1>0 DEF Acquire, Goto
<1>19. ASSUME NEW p \in Procs, Download(p) PROVE NewestInv'
  BY <1>19, <1>0 DEF Download, Goto
<1>20. ASSUME NEW p \in Procs, Verify(p) PROVE NewestInv'
  BY <1>20, <1>0 DEF Verify, Goto
<1>21. ASSUME NEW p \in Procs, NEW f \in AllFiles, WriteFile(p, f) PROVE NewestInv'
  BY <1>21, <1>0 DEF WriteFile
<1>22. ASSUME NEW p \in Procs, Installed(p) PROVE NewestInv'
  BY <1>22, <1>0 DEF Installed, Goto
<1>23. ASSUME NEW p \in Procs, HookDone(p) PROVE NewestInv'
  BY <1>23, <1>0 DEF HookDone, Goto
<1>24. ASSUME NEW p \in Procs, Start(p) PROVE NewestInv'
  BY <1>24, <1>0 DEF Start, Goto
<1>25. ASSUME NEW p \in Procs, SetupOnlyDone(p) PROVE NewestInv'
  BY <1>25, <1>0 DEF SetupOnlyDone, Gone, Goto
<1>26. ASSUME NEW p \in Procs, Stop(p) PROVE NewestInv'
  BY <1>26, <1>0 DEF Stop, Gone, Goto
<1>27. ASSUME NEW p \in Procs, PlanFull(p) PROVE NewestInv'
  BY <1>27, <1>0 DEF PlanFull, Goto
<1>27a. ASSUME NEW p \in Procs, PlanUnguarded(p) PROVE NewestInv'
  BY <1>27a, <1>0 DEF PlanUnguarded, Goto
<1>28. ASSUME NEW p \in Procs, NEW f \in AllFiles, RemoveFile(p, f) PROVE NewestInv'
  BY <1>28, <1>0 DEF RemoveFile
<1>29. ASSUME NEW p \in Procs, Removed(p) PROVE NewestInv'
  <2>1. /\ pc[p] \in {"removing", "stripping"} /\ pc' = [pc EXCEPT ![p] = "idle"]
        /\ ver' = [ver EXCEPT ![p] = None]
        /\ dirs' \subseteq dirs /\ dirs \ dirs' \subseteq {ver[p]}
    BY <1>29 DEF Removed, Gone, Goto
  <2>2. ver[p] \in Versions /\ ~Fresh(ver[p])
    BY <2>1 DEF UsedInv, Using
  <2>3. \A q \in Procs \ {p} : pc'[q] = pc[q] /\ ver'[q] = ver[q]
    BY <2>1
  <2>4. QED
    BY <1>0, <2>1, <2>2, <2>3
<1>30. ASSUME NEW p \in Procs, Fails(p) PROVE NewestInv'
  BY <1>30, <1>0 DEF Fails, Gone, Goto
<1>31. ASSUME NEW p \in Procs, Abort(p) PROVE NewestInv'
  BY <1>31, <1>0 DEF Abort, Gone, Goto
<1>32. ASSUME NEW a \in Archives, Spoil(a) PROVE NewestInv'
  BY <1>32, <1>0 DEF Spoil, procVars
<1>33. CASE UNCHANGED vars
  BY <1>33, <1>0 DEF vars
<1> HIDE DEF TypeOK, NewestInv, Protocol
<1>34. QED
  BY <1>1, <1>2, <1>3, <1>4, <1>5, <1>6, <1>7, <1>8, <1>9, <1>10, <1>11,
     <1>12, <1>13, <1>14, <1>15, <1>16, <1>17, <1>18, <1>19, <1>20, <1>21, <1>22,
     <1>23, <1>24, <1>25, <1>26, <1>27, <1>27a, <1>28, <1>29, <1>30, <1>31, <1>32, <1>33
  DEF Next, Work, Lock

\* A process that fills no entry leaves those of the others to them.
LEMMA FillFrame ==
  ASSUME FillInv, UNCHANGED <<cache, uncached>>,
         \A q \in Procs : \/ pc'[q] \notin {"populating", "marking"}
                          \/ pc'[q] = pc[q] /\ ver'[q] = ver[q] /\ todo'[q] = todo[q]
  PROVE  FillInv'
<1> SUFFICES ASSUME NEW q \in Procs, pc'[q] \in {"populating", "marking"}, ver'[q] \notin uncached'
             PROVE  /\ ~Marked(ver[q])'
                    /\ todo'[q] \subseteq Files
                    /\ \A f \in Files \ todo'[q] : cache'[ver'[q]][f] = "whole"
                    /\ pc'[q] = "marking" => todo'[q] = {}
  BY DEF FillInv
<1>1. pc'[q] = pc[q] /\ ver'[q] = ver[q] /\ todo'[q] = todo[q]
  OBVIOUS
<1>2. QED
  BY <1>1 DEF FillInv, Marked

\* What is copied into an unmarked entry is whole.
LEMMA FillNext ==
  ASSUME TypeOK, Protocol, NewestInv, TreeInv, FillInv, EntryInv, [Next]_vars
  PROVE  FillInv'
<1> USE Constants DEF TypeOK, stores, Protocol, PlaceInv, LockInv, Locking, Based, FillInv
<1>1. ASSUME NEW p \in Procs, NEW m \in {"slotted", "explicit", "cli"}, Bootstrap(p, m)
      PROVE FillInv'
  <2>1. /\ UNCHANGED <<cache, uncached>> /\ pc'[p] \notin {"populating", "marking"}
        /\ \A q \in Procs \ {p} : pc'[q] = pc[q] /\ ver'[q] = ver[q] /\ todo'[q] = todo[q]
    BY <1>1 DEF Bootstrap, Goto
  <2>2. QED
    BY <2>1, FillFrame
<1>2. ASSUME NEW p \in Procs, AcquireSetup(p) PROVE FillInv'
  <2>1. /\ UNCHANGED <<cache, uncached>> /\ pc'[p] \notin {"populating", "marking"}
        /\ \A q \in Procs \ {p} : pc'[q] = pc[q] /\ ver'[q] = ver[q] /\ todo'[q] = todo[q]
    BY <1>2 DEF AcquireSetup, Goto
  <2>2. QED
    BY <2>1, FillFrame
<1>3. ASSUME NEW p \in Procs, FindCached(p) PROVE FillInv'
  <2>1. /\ UNCHANGED <<cache, uncached>> /\ pc'[p] \notin {"populating", "marking"}
        /\ \A q \in Procs \ {p} : pc'[q] = pc[q] /\ ver'[q] = ver[q] /\ todo'[q] = todo[q]
    BY <1>3 DEF FindCached, Goto
  <2>2. QED
    BY <2>1, FillFrame
<1>4. ASSUME NEW p \in Procs, LockEntry(p) PROVE FillInv'
  <2>1. /\ UNCHANGED <<cache, uncached>> /\ pc'[p] \notin {"populating", "marking"}
        /\ \A q \in Procs \ {p} : pc'[q] = pc[q] /\ ver'[q] = ver[q] /\ todo'[q] = todo[q]
    BY <1>4 DEF LockEntry, Miss, Goto
  <2>2. QED
    BY <2>1, FillFrame
<1>5. ASSUME NEW p \in Procs, NEW f \in AllFiles, CopyFile(p, f) PROVE FillInv'
  <2>1. /\ UNCHANGED <<cache, uncached>> /\ pc'[p] \notin {"populating", "marking"}
        /\ \A q \in Procs \ {p} : pc'[q] = pc[q] /\ ver'[q] = ver[q] /\ todo'[q] = todo[q]
    BY <1>5 DEF CopyFile
  <2>2. QED
    BY <2>1, FillFrame
<1>6. ASSUME NEW p \in Procs, CacheHit(p) PROVE FillInv'
  <2>1. /\ UNCHANGED <<cache, uncached>> /\ pc'[p] \notin {"populating", "marking"}
        /\ \A q \in Procs \ {p} : pc'[q] = pc[q] /\ ver'[q] = ver[q] /\ todo'[q] = todo[q]
    BY <1>6 DEF CacheHit, Goto
  <2>2. QED
    BY <2>1, FillFrame
<1>7. ASSUME NEW p \in Procs, CopyFails(p) PROVE FillInv'
  <2>1. /\ UNCHANGED <<cache, uncached>> /\ pc'[p] \notin {"populating", "marking"}
        /\ \A q \in Procs \ {p} : pc'[q] = pc[q] /\ ver'[q] = ver[q] /\ todo'[q] = todo[q]
    BY <1>7 DEF CopyFails, Miss, Goto
  <2>2. QED
    BY <2>1, FillFrame
<1>8. ASSUME NEW p \in Procs, Setup(p) PROVE FillInv'
  <2>1. /\ UNCHANGED <<cache, uncached>> /\ pc'[p] \notin {"populating", "marking"}
        /\ \A q \in Procs \ {p} : pc'[q] = pc[q] /\ ver'[q] = ver[q] /\ todo'[q] = todo[q]
    BY <1>8 DEF Setup, Goto
  <2>2. QED
    BY <2>1, FillFrame
<1>9. ASSUME NEW p \in Procs, ResolveForCache(p) PROVE FillInv'
  <2>1. /\ UNCHANGED <<cache, uncached>> /\ pc'[p] \notin {"populating", "marking"}
        /\ \A q \in Procs \ {p} : pc'[q] = pc[q] /\ ver'[q] = ver[q] /\ todo'[q] = todo[q]
    BY <1>9 DEF ResolveForCache, Goto
  <2>2. QED
    BY <2>1, FillFrame
<1>10. ASSUME NEW p \in Procs, LockForPopulate(p) PROVE FillInv'
  <2>1. /\ pc[p] = "poplock" /\ ver[p] \in Versions
        /\ UNCHANGED <<ver, cache, uncached>>
    BY <1>10 DEF LockForPopulate
  <2>2. CASE Complete(ver[p])
    <3>1. pc' = [pc EXCEPT ![p] = "hook"] /\ UNCHANGED todo
      BY <1>10, <2>2 DEF LockForPopulate, Goto
    <3>2. QED
      BY <2>1, <3>1
  <2>3. CASE ~Complete(ver[p])
    <3>1. /\ pc' = [pc EXCEPT ![p] = "populating"]
          /\ todo' = [todo EXCEPT ![p] = Present(tree[ver[p]])]
      BY <1>10, <2>3 DEF LockForPopulate, Goto
    <3>2. ASSUME ver[p] \notin uncached
          PROVE  ~Marked(ver[p]) /\ Present(tree[ver[p]]) = Files
      <4>1. ~Marked(ver[p])
        BY <2>1, <2>3, <3>2 DEF Complete, Marked, EntryInv, Pristine
      <4>2. Fresh(ver[p]) /\ tree[ver[p]] = Pristine
        BY <2>1, <3>2, <4>1 DEF Fresh, NewestInv, TreeInv
      <4>3. QED
        BY <4>1, <4>2 DEF Present, Pristine
    <3>3. QED
      BY <2>1, <3>1, <3>2 DEF Marked
  <2>4. QED
    BY <2>2, <2>3
<1>11. ASSUME NEW p \in Procs, NEW f \in AllFiles, PopulateFile(p, f) PROVE FillInv'
  <2>1. /\ pc[p] = "populating" /\ setup = p /\ ver[p] \in Versions /\ f \in todo[p]
        /\ UNCHANGED <<pc, ver, uncached>>
    BY <1>11 DEF PopulateFile
  <2>2. \A q \in Procs \ {p} : pc'[q] \notin {"populating", "marking"}
    BY <2>1
  <2>3. ASSUME ver[p] \notin uncached
        PROVE  /\ ~Marked(ver[p])'
               /\ todo'[p] \subseteq Files
               /\ \A g \in Files \ todo'[p] : cache'[ver[p]][g] = "whole"
    <3>1. ~Marked(ver[p]) /\ todo[p] \subseteq Files /\ f \in Files
      BY <2>1, <2>3
    <3>2. tree[ver[p]] = Pristine /\ tree[ver[p]][f] = "whole"
      BY <2>1, <2>3, <3>1 DEF Fresh, NewestInv, TreeInv, Pristine
    <3>3. \/ cache' = [cache EXCEPT ![ver[p]][f] = "part"] /\ todo' = todo
          \/ /\ cache' = [cache EXCEPT ![ver[p]][f] = tree[ver[p]][f]]
             /\ todo' = [todo EXCEPT ![p] = @ \ {f}]
      BY <1>11, Zenon DEF PopulateFile
    <3>4. cache'[ver[p]][Marker] = cache[ver[p]][Marker]
      BY <2>1, <3>1, <3>3, OneFile
    <3>5. \A g \in Files \ {f} : cache'[ver[p]][g] = cache[ver[p]][g]
      BY <2>1, <3>3, OneFile
    <3>6. f \in todo'[p] \/ cache'[ver[p]][f] = "whole"
      BY <2>1, <3>2, <3>3, OneFile
    <3>7. todo'[p] \subseteq todo[p] /\ todo[p] \subseteq todo'[p] \cup {f}
      BY <3>3
    <3>8. \A g \in Files \ todo[p] : cache[ver[p]][g] = "whole"
      BY <2>1, <2>3
    <3>9. ver'[p] = ver[p]
      BY <2>1
    <3>10. ~Marked(ver[p])'
      BY <3>1, <3>4, <3>9 DEF Marked
    <3>11. ASSUME NEW g \in Files \ todo'[p] PROVE cache'[ver[p]][g] = "whole"
      <4>1. CASE g = f
        BY <3>6, <3>11, <4>1
      <4>2. CASE g # f
        <5>1. g \in Files \ todo[p] /\ g \in Files \ {f}
          BY <3>7, <3>11, <4>2
        <5>2. QED
          BY <3>5, <3>8, <5>1, Zenon
      <4>3. QED
        BY <4>1, <4>2
    <3>12. QED
      BY <3>1, <3>7, <3>10, <3>11
  <2>4. QED
    BY <2>1, <2>2, <2>3
<1>12. ASSUME NEW p \in Procs, Populated(p) PROVE FillInv'
  <2>1. /\ pc[p] = "populating" /\ todo[p] = {} /\ pc' = [pc EXCEPT ![p] = "marking"]
        /\ UNCHANGED <<ver, todo, cache, uncached>>
    BY <1>12 DEF Populated, Goto
  <2>2. QED
    BY <2>1 DEF Marked
<1>13. ASSUME NEW p \in Procs, WriteMarker(p) PROVE FillInv'
  <2>1. pc[p] = "marking" /\ setup = p /\ pc' = [pc EXCEPT ![p] = "hook"]
    BY <1>13 DEF WriteMarker, Goto
  <2>2. \A q \in Procs : pc'[q] \notin {"populating", "marking"}
    BY <2>1
  <2>3. QED
    BY <2>2
<1>14. ASSUME NEW p \in Procs, PopulationFails(p) PROVE FillInv'
  <2>1. /\ pc[p] \in Caching /\ setup = p /\ pc' = [pc EXCEPT ![p] = "hook"]
    BY <1>14 DEF PopulationFails, Goto
  <2>2. \A q \in Procs : pc'[q] \notin {"populating", "marking"}
    BY <2>1
  <2>3. QED
    BY <2>2
<1>15. ASSUME NEW p \in Procs, ForHook(p) PROVE FillInv'
  <2>1. /\ UNCHANGED <<cache, uncached>> /\ pc'[p] \notin {"populating", "marking"}
        /\ \A q \in Procs \ {p} : pc'[q] = pc[q] /\ ver'[q] = ver[q] /\ todo'[q] = todo[q]
    BY <1>15 DEF ForHook, Goto
  <2>2. QED
    BY <2>1, FillFrame
<1>16. ASSUME NEW p \in Procs, Relock(p) PROVE FillInv'
  <2>1. /\ UNCHANGED <<cache, uncached>> /\ pc'[p] \notin {"populating", "marking"}
        /\ \A q \in Procs \ {p} : pc'[q] = pc[q] /\ ver'[q] = ver[q] /\ todo'[q] = todo[q]
    BY <1>16 DEF Relock, Goto
  <2>2. QED
    BY <2>1, FillFrame
<1>17. ASSUME NEW p \in Procs, SelectAll(p) PROVE FillInv'
  <2>1. /\ UNCHANGED <<cache, uncached>> /\ pc'[p] \notin {"populating", "marking"}
        /\ \A q \in Procs \ {p} : pc'[q] = pc[q] /\ ver'[q] = ver[q] /\ todo'[q] = todo[q]
    BY <1>17 DEF SelectAll, Goto
  <2>2. QED
    BY <2>1, FillFrame
<1>18. ASSUME NEW p \in Procs, Acquire(p) PROVE FillInv'
  <2>1. /\ UNCHANGED <<cache, uncached>> /\ pc'[p] \notin {"populating", "marking"}
        /\ \A q \in Procs \ {p} : pc'[q] = pc[q] /\ ver'[q] = ver[q] /\ todo'[q] = todo[q]
    BY <1>18 DEF Acquire, Goto
  <2>2. QED
    BY <2>1, FillFrame
<1>19. ASSUME NEW p \in Procs, Download(p) PROVE FillInv'
  <2>1. /\ UNCHANGED <<cache, uncached>> /\ pc'[p] \notin {"populating", "marking"}
        /\ \A q \in Procs \ {p} : pc'[q] = pc[q] /\ ver'[q] = ver[q] /\ todo'[q] = todo[q]
    BY <1>19 DEF Download, Goto
  <2>2. QED
    BY <2>1, FillFrame
<1>20. ASSUME NEW p \in Procs, Verify(p) PROVE FillInv'
  <2>1. /\ UNCHANGED <<cache, uncached>> /\ pc'[p] \notin {"populating", "marking"}
        /\ \A q \in Procs \ {p} : pc'[q] = pc[q] /\ ver'[q] = ver[q] /\ todo'[q] = todo[q]
    BY <1>20 DEF Verify, Goto
  <2>2. QED
    BY <2>1, FillFrame
<1>21. ASSUME NEW p \in Procs, NEW f \in AllFiles, WriteFile(p, f) PROVE FillInv'
  <2>1. /\ UNCHANGED <<cache, uncached>> /\ pc'[p] \notin {"populating", "marking"}
        /\ \A q \in Procs \ {p} : pc'[q] = pc[q] /\ ver'[q] = ver[q] /\ todo'[q] = todo[q]
    BY <1>21 DEF WriteFile
  <2>2. QED
    BY <2>1, FillFrame
<1>22. ASSUME NEW p \in Procs, Installed(p) PROVE FillInv'
  <2>1. /\ UNCHANGED <<cache, uncached>> /\ pc'[p] \notin {"populating", "marking"}
        /\ \A q \in Procs \ {p} : pc'[q] = pc[q] /\ ver'[q] = ver[q] /\ todo'[q] = todo[q]
    BY <1>22 DEF Installed, Goto
  <2>2. QED
    BY <2>1, FillFrame
<1>23. ASSUME NEW p \in Procs, HookDone(p) PROVE FillInv'
  <2>1. /\ UNCHANGED <<cache, uncached>> /\ pc'[p] \notin {"populating", "marking"}
        /\ \A q \in Procs \ {p} : pc'[q] = pc[q] /\ ver'[q] = ver[q] /\ todo'[q] = todo[q]
    BY <1>23 DEF HookDone, Goto
  <2>2. QED
    BY <2>1, FillFrame
<1>24. ASSUME NEW p \in Procs, Start(p) PROVE FillInv'
  <2>1. /\ UNCHANGED <<cache, uncached>> /\ pc'[p] \notin {"populating", "marking"}
        /\ \A q \in Procs \ {p} : pc'[q] = pc[q] /\ ver'[q] = ver[q] /\ todo'[q] = todo[q]
    BY <1>24 DEF Start, Goto
  <2>2. QED
    BY <2>1, FillFrame
<1>25. ASSUME NEW p \in Procs, SetupOnlyDone(p) PROVE FillInv'
  <2>1. /\ UNCHANGED <<cache, uncached>> /\ pc'[p] \notin {"populating", "marking"}
        /\ \A q \in Procs \ {p} : pc'[q] = pc[q] /\ ver'[q] = ver[q] /\ todo'[q] = todo[q]
    BY <1>25 DEF SetupOnlyDone, Gone, Goto
  <2>2. QED
    BY <2>1, FillFrame
<1>26. ASSUME NEW p \in Procs, Stop(p) PROVE FillInv'
  <2>1. /\ UNCHANGED <<cache, uncached>> /\ pc'[p] \notin {"populating", "marking"}
        /\ \A q \in Procs \ {p} : pc'[q] = pc[q] /\ ver'[q] = ver[q] /\ todo'[q] = todo[q]
    BY <1>26 DEF Stop, Gone, Goto
  <2>2. QED
    BY <2>1, FillFrame
<1>27. ASSUME NEW p \in Procs, PlanFull(p) PROVE FillInv'
  <2>1. /\ UNCHANGED <<cache, uncached>> /\ pc'[p] \notin {"populating", "marking"}
        /\ \A q \in Procs \ {p} : pc'[q] = pc[q] /\ ver'[q] = ver[q] /\ todo'[q] = todo[q]
    BY <1>27 DEF PlanFull, Goto
  <2>2. QED
    BY <2>1, FillFrame
<1>27a. ASSUME NEW p \in Procs, PlanUnguarded(p) PROVE FillInv'
  <2>1. /\ UNCHANGED <<cache, uncached>> /\ pc'[p] \notin {"populating", "marking"}
        /\ \A q \in Procs \ {p} : pc'[q] = pc[q] /\ ver'[q] = ver[q] /\ todo'[q] = todo[q]
    BY <1>27a DEF PlanUnguarded, Goto
  <2>2. QED
    BY <2>1, FillFrame
<1>28. ASSUME NEW p \in Procs, NEW f \in AllFiles, RemoveFile(p, f) PROVE FillInv'
  <2>1. /\ UNCHANGED <<cache, uncached>> /\ pc'[p] \notin {"populating", "marking"}
        /\ \A q \in Procs \ {p} : pc'[q] = pc[q] /\ ver'[q] = ver[q] /\ todo'[q] = todo[q]
    BY <1>28 DEF RemoveFile
  <2>2. QED
    BY <2>1, FillFrame
<1>29. ASSUME NEW p \in Procs, Removed(p) PROVE FillInv'
  <2>1. /\ UNCHANGED <<cache, uncached>> /\ pc'[p] \notin {"populating", "marking"}
        /\ \A q \in Procs \ {p} : pc'[q] = pc[q] /\ ver'[q] = ver[q] /\ todo'[q] = todo[q]
    BY <1>29 DEF Removed, Gone, Goto
  <2>2. QED
    BY <2>1, FillFrame
<1>30. ASSUME NEW p \in Procs, Fails(p) PROVE FillInv'
  <2>1. /\ UNCHANGED <<cache, uncached>> /\ pc'[p] \notin {"populating", "marking"}
        /\ \A q \in Procs \ {p} : pc'[q] = pc[q] /\ ver'[q] = ver[q] /\ todo'[q] = todo[q]
    BY <1>30 DEF Fails, Gone, Goto
  <2>2. QED
    BY <2>1, FillFrame
<1>31. ASSUME NEW p \in Procs, Abort(p) PROVE FillInv'
  <2>1. /\ UNCHANGED <<cache, uncached>> /\ pc'[p] \notin {"populating", "marking"}
        /\ \A q \in Procs \ {p} : pc'[q] = pc[q] /\ ver'[q] = ver[q] /\ todo'[q] = todo[q]
    BY <1>31 DEF Abort, Gone, Goto
  <2>2. QED
    BY <2>1, FillFrame
<1>32. ASSUME NEW a \in Archives, Spoil(a) PROVE FillInv'
  BY <1>32, FillFrame DEF Spoil, procVars
<1>33. CASE UNCHANGED vars
  BY <1>33 DEF vars, Marked
<1> HIDE DEF TypeOK, FillInv, Protocol
<1>34. QED
  BY <1>1, <1>2, <1>3, <1>4, <1>5, <1>6, <1>7, <1>8, <1>9, <1>10, <1>11,
     <1>12, <1>13, <1>14, <1>15, <1>16, <1>17, <1>18, <1>19, <1>20, <1>21, <1>22,
     <1>23, <1>24, <1>25, <1>26, <1>27, <1>27a, <1>28, <1>29, <1>30, <1>31, <1>32, <1>33
  DEF Next, Work, Lock

\* A marked entry stays the release.
LEMMA EntryNext ==
  ASSUME TypeOK, Protocol, FillInv, EntryInv, [Next]_vars
  PROVE  EntryInv'
<1> USE Constants DEF TypeOK, Protocol, PlaceInv, Based, EntryInv
<1>1. CASE UNCHANGED <<dirs, tree, cache, uncached>>
  BY <1>1 DEF Marked
<1>2. ASSUME NEW p \in Procs, LockEntry(p) PROVE EntryInv'
  <2>1. UNCHANGED <<cache, uncached>>
    BY <1>2 DEF LockEntry, Miss, stores
  <2>2. QED
    BY <2>1 DEF Marked
<1>3. ASSUME NEW p \in Procs, NEW f \in AllFiles, CopyFile(p, f) PROVE EntryInv'
  <2>1. UNCHANGED <<cache, uncached>>
    BY <1>3 DEF CopyFile
  <2>2. QED
    BY <2>1 DEF Marked
<1>4. ASSUME NEW p \in Procs, Setup(p) PROVE EntryInv'
  <2>1. UNCHANGED <<cache, uncached>>
    BY <1>4 DEF Setup
  <2>2. QED
    BY <2>1 DEF Marked
<1>5. ASSUME NEW p \in Procs, NEW f \in AllFiles, PopulateFile(p, f) PROVE EntryInv'
  <2>1. pc[p] = "populating" /\ ver[p] \in Versions /\ f \in todo[p] /\ uncached' = uncached
    BY <1>5 DEF PopulateFile
  <2>2. \E c : cache' = [cache EXCEPT ![ver[p]][f] = c]
    BY <1>5, Zenon DEF PopulateFile
  <2>3. \A w \in Versions \ {ver[p]} : cache'[w] = cache[w]
    BY <2>1, <2>2, OneFile
  <2>4. ver[p] \notin uncached => f \in Files /\ ~Marked(ver[p])
    BY <2>1 DEF FillInv
  <2>5. \A g \in AllFiles \ {f} : cache'[ver[p]][g] = cache[ver[p]][g]
    BY <2>1, <2>2, OneFile
  <2>6. \A w \in Versions \ {ver[p]} : Marked(w)' <=> Marked(w)
    BY <2>3 DEF Marked
  <2>7. ver[p] \notin uncached => ~(cache'[ver[p]][Marker] # "absent")
    BY <2>4, <2>5 DEF Marked
  <2>8. ver[p] \notin uncached => \A g \in ExtensionFiles : cache'[ver[p]][g] = "absent"
    <3> SUFFICES ASSUME ver[p] \notin uncached, NEW g \in ExtensionFiles
                 PROVE  cache'[ver[p]][g] = "absent"
      OBVIOUS
    <3>1. g \in AllFiles \ {f} /\ cache[ver[p]][g] = "absent"
      BY <2>1, <2>4
    <3>2. QED
      BY <2>5, <3>1, Zenon
  <2>9. SUFFICES ASSUME NEW v \in Versions, v \notin uncached
                 PROVE  /\ Marked(v)' => \A g \in Files \cup ExtensionFiles :
                                            cache'[v][g] = Pristine[g]
                        /\ \A g \in ExtensionFiles : cache'[v][g] = "absent"
    BY <2>1 DEF Pristine
  <2>10. CASE v = ver[p]
    BY <2>7, <2>8, <2>9, <2>10 DEF Marked
  <2>11. CASE v # ver[p]
    BY <2>3, <2>6, <2>9, <2>11
  <2>12. QED
    BY <2>10, <2>11
<1>6. ASSUME NEW p \in Procs, WriteMarker(p) PROVE EntryInv'
  <2>1. /\ pc[p] = "marking" /\ ver[p] \in Versions /\ uncached' = uncached
        /\ cache' = [cache EXCEPT ![ver[p]][Marker] = "whole"]
    BY <1>6 DEF WriteMarker
  <2>2. \A w \in Versions \ {ver[p]} : cache'[w] = cache[w]
    BY <2>1, OneFile
  <2>3. \A g \in AllFiles \ {Marker} : cache'[ver[p]][g] = cache[ver[p]][g]
    BY <2>1, OneFile
  <2>4. ver[p] \notin uncached => \A g \in Files : cache[ver[p]][g] = "whole"
    BY <2>1 DEF FillInv
  <2>5. \A w \in Versions \ {ver[p]} : Marked(w)' <=> Marked(w)
    BY <2>2 DEF Marked
  <2>6. SUFFICES ASSUME NEW v \in Versions, v \notin uncached
                 PROVE  /\ \A g \in ExtensionFiles : cache'[v][g] = "absent"
                        /\ Marked(v)' => \A g \in Files \cup ExtensionFiles :
                                            cache'[v][g] = Pristine[g]
    BY <2>1 DEF Pristine
  <2>7. CASE v = ver[p]
    <3>1. \A g \in ExtensionFiles : cache'[v][g] = "absent"
      BY <2>1, <2>3, <2>6, <2>7
    <3>2. \A g \in Files : cache'[v][g] = "whole"
      <4>1. \A g \in Files : g \in AllFiles \ {Marker}
        OBVIOUS
      <4>2. QED
        BY <2>3, <2>4, <2>6, <2>7, <4>1, Zenon
    <3>3. QED
      BY <3>1, <3>2 DEF Pristine
  <2>8. CASE v # ver[p]
    BY <2>2, <2>5, <2>6, <2>8
  <2>9. QED
    BY <2>7, <2>8
<1>7. ASSUME NEW p \in Procs, PopulationFails(p) PROVE EntryInv'
  <2>1. cache' = cache /\ uncached \subseteq uncached'
    BY <1>7 DEF PopulationFails
  <2>2. QED
    BY <2>1 DEF Marked
<1>8. ASSUME NEW p \in Procs, NEW f \in AllFiles, WriteFile(p, f) PROVE EntryInv'
  <2>1. UNCHANGED <<cache, uncached>>
    BY <1>8 DEF WriteFile
  <2>2. QED
    BY <2>1 DEF Marked
<1>9. ASSUME NEW p \in Procs, NEW f \in AllFiles, RemoveFile(p, f) PROVE EntryInv'
  <2>1. UNCHANGED <<cache, uncached>>
    BY <1>9 DEF RemoveFile
  <2>2. QED
    BY <2>1 DEF Marked
<1>10. ASSUME NEW p \in Procs, Removed(p) PROVE EntryInv'
  <2>1. UNCHANGED <<cache, uncached>>
    BY <1>10 DEF Removed
  <2>2. QED
    BY <2>1 DEF Marked
<1> HIDE DEF TypeOK, EntryInv, Protocol
<1>11. QED
  BY Writers, <1>1, <1>2, <1>3, <1>4, <1>5, <1>6, <1>7, <1>8, <1>9, <1>10

-----------------------------------------------------------------------------
(* The theorems.                                                           *)

\* The cache is empty and nobody is at work at first.
LEMMA ContainedInit == Init => Contained
BY Constants DEF Init, Contained, UsedInv, NewestInv, TreeInv, FillInv, EntryInv, Using,
   Marked, Empty

\* The invariant holds in every behaviour of InstallTree.
LEMMA Invariance == Spec => []IndInv
<1>1. Init => IndInv
  BY TypeInit, ProtocolInit, ContainedInit DEF IndInv
<1>2. IndInv /\ [Next]_vars => IndInv'
  BY TypeNext, LockNext, PlaceNext, HookNext, UsedNext, NewestNext, TreeNext, FillNext,
     EntryNext DEF IndInv, Protocol, Contained
<1>3. QED
  BY <1>1, <1>2, PTL DEF Spec

\* Processes, directories, caches and archives keep their types: a process that names a
\* file, a version or an archive names one that exists (cluster/installation.rs,
\* extensions/manifest.rs).
THEOREM InstallTypeCorrect == Spec => []TypeOK
<1>1. IndInv => TypeOK
  BY DEF IndInv
<1>2. QED
  BY <1>1, Invariance, PTL

\* An entry that lookups accept is the release, for any number of processes that are
\* killed anywhere, install extensions and remove the tree
\* (cache/operations/populate.rs, lookup.rs).
THEOREM EntriesPristine == Spec => []MarkedEntryPristine
<1>1. IndInv => MarkedEntryPristine
  BY DEF IndInv, Contained, EntryInv, MarkedEntryPristine, Complete, Marked
<1>2. QED
  BY <1>1, Invariance, PTL
=============================================================================
