---------------------------- MODULE InstallTree ----------------------------
(***************************************************************************)
(* The binaries that clusters share: processes fill one install tree from  *)
(* the binary cache or by download, fill the cache from the tree, install  *)
(* extensions into the tree, run from it and remove it.  They may be       *)
(* killed at every step.                                                   *)
(*   cluster/setup_lock       the lock in the install root, and how long a *)
(*       start keeps it (InstallLock);                                     *)
(*   cluster/startup, startup_setup_only   the two life cycles;            *)
(*   cluster/cache_integration, cache/...  lookup, copy, population;       *)
(*   cluster/installation, durability      which version directory is used;*)
(*   cluster/extension_hook, extensions/...  selection, archives, writing; *)
(*   cluster/cleanup          the removal of a version directory.          *)
(*                                                                         *)
(* A version directory is a function from files to contents: "part" is a   *)
(* file cut short, which is_already_installed tells from a whole one by    *)
(* its size; an extension's file holds the name of its archive.  Kernel    *)
(* locks on cache entries and archives are not variables: who has them     *)
(* follows from pc.  The setup lock's file is in the install root, which   *)
(* no cleanup removes (it removes the version directory).                  *)
(***************************************************************************)
EXTENDS Naturals, Sequences, FiniteSets

CONSTANTS
  Procs,
  Versions,        \* PostgreSQL releases, in their order
  Accepts,         \* the releases a process's version requirement matches
  Files,           \* the files of a release
  Initdb,          \* one of them, in bin/
  ExtensionFiles,
  Archives,
  Contents,        \* the files an archive holds
  Manifest,        \* a process's manifest: a sequence of artefacts
  Declared,        \* the extension names a process declares
  None

Marker == ".complete"
AllFiles == Files \cup ExtensionFiles \cup {Marker}
Content == {"absent", "part", "whole"} \cup Archives

ASSUME InstallAssumption ==
  /\ Versions \subseteq Nat
  /\ \A vs \in (SUBSET Versions) \ {{}} : \E v \in vs : \A w \in vs : w <= v
  /\ Accepts \in [Procs -> (SUBSET Versions) \ {{}}]
  /\ Initdb \in Files
  /\ Files \cap ExtensionFiles = {} /\ Marker \notin Files \cup ExtensionFiles
  /\ Contents \in [Archives -> (SUBSET ExtensionFiles) \ {{}}]
  /\ {"absent", "part", "whole", "corrupt"} \cap Archives = {}
  /\ \A p \in Procs :
       /\ DOMAIN Manifest[p] \subseteq Nat
       /\ \A i \in DOMAIN Manifest[p] : Manifest[p][i].archive \in Archives
       /\ Len(Declared[p]) \in Nat /\ DOMAIN Declared[p] = 1..Len(Declared[p])
  /\ None \notin Procs \cup Archives \cup Versions

VARIABLES
  pc,       \* where each process is
  mode,     \* "slotted", "explicit" data directory, or "cli" for setup only
  ver,      \* the version directory it works with
  hit,      \* its cache lookup was a hit
  todo,     \* the files it has still to copy, write or remove
  next,     \* the index of the extension it installs
  bytes,    \* the archive it has read into memory
  setup,    \* who has the setup lock
  dirs,     \* version directories of the install tree
  tree,     \* their contents
  cache,    \* the contents of the binary cache's entries
  archive,  \* the archives in the extension cache
  uncached, \* versions whose population has failed once
  stripped  \* slotted clusters whose version an unguarded cleanup has removed files of

procVars == <<pc, mode, ver, hit, todo, next, bytes>>
stores == <<dirs, tree, cache, archive, uncached, stripped>>
vars == <<pc, mode, ver, hit, todo, next, bytes, setup, dirs, tree, cache, archive,
          uncached, stripped>>

Looking == {"lookup", "cachelock", "copying"}
Hook == {"relock", "select", "acquire", "download", "verify", "writing", "hooked"}
Caching == {"resolve", "poplock", "populating", "marking"}
Live == {"bootstrapped", "setup", "hook", "start", "running", "removing", "stripping"}
          \cup Looking \cup Caching \cup Hook

TypeOK ==
  /\ pc \in [Procs -> {"idle"} \cup Live]
  /\ mode \in [Procs -> {"slotted", "explicit", "cli"}]
  /\ ver \in [Procs -> Versions \cup {None}]
  /\ hit \in [Procs -> BOOLEAN]
  /\ todo \in [Procs -> SUBSET AllFiles]
  /\ next \in [Procs -> Nat]
  /\ bytes \in [Procs -> Archives \cup {None}]
  /\ setup \in Procs \cup {None}
  /\ dirs \in SUBSET Versions
  /\ tree \in [Versions -> [AllFiles -> Content]]
  /\ cache \in [Versions -> [AllFiles -> Content]]
  /\ archive \in [Archives -> {"invalid", "valid"}]
  /\ uncached \subseteq Versions
  /\ stripped \subseteq Procs

Empty == [f \in AllFiles |-> "absent"]

\* What a release holds once it is extracted.
Pristine == [f \in AllFiles |-> IF f \in Files THEN "whole" ELSE "absent"]

Init ==
  /\ pc = [p \in Procs |-> "idle"]
  /\ mode = [p \in Procs |-> "slotted"]
  /\ ver = [p \in Procs |-> None]
  /\ hit = [p \in Procs |-> FALSE]
  /\ todo = [p \in Procs |-> {}]
  /\ next = [p \in Procs |-> 1]
  /\ bytes = [p \in Procs |-> None]
  /\ setup = None
  /\ dirs = {}
  /\ tree = [v \in Versions |-> Empty]
  /\ cache = [v \in Versions |-> Empty]
  /\ archive = [a \in Archives |-> "invalid"]
  /\ uncached = {}
  /\ stripped = {}

Goto(p, l) == pc' = [pc EXCEPT ![p] = l]
Present(d) == {f \in AllFiles : d[f] # "absent"}
Newest(vs) == CHOOSE v \in vs : \A w \in vs : w <= v

\* The process is gone from the protocol: its locks and its slot are free.
Gone(p) ==
  /\ Goto(p, "idle")
  /\ mode' = [mode EXCEPT ![p] = "slotted"]
  /\ ver' = [ver EXCEPT ![p] = None]
  /\ hit' = [hit EXCEPT ![p] = FALSE]
  /\ todo' = [todo EXCEPT ![p] = {}]
  /\ next' = [next EXCEPT ![p] = 1]
  /\ bytes' = [bytes EXCEPT ![p] = None]
  /\ setup' = IF setup = p THEN None ELSE setup

-----------------------------------------------------------------------------
(* Bootstrap, the setup lock, and the lookup in the binary cache.          *)

\* A test cluster claims its slot first, which waits for the claim guard that a
\* full cleanup holds; an explicit data directory and the command line have none.
Bootstrap(p, m) ==
  /\ pc[p] = "idle"
  /\ m = "slotted" => \A q \in Procs : pc[q] # "removing"
  /\ mode' = [mode EXCEPT ![p] = m]
  /\ stripped' = stripped \ {p}
  /\ Goto(p, "bootstrapped")
  /\ UNCHANGED <<ver, hit, todo, next, bytes, setup, dirs, tree, cache, archive, uncached>>

\* SetupLock::acquire_at, which blocks.
AcquireSetup(p) ==
  /\ pc[p] = "bootstrapped" /\ setup = None
  /\ setup' = p
  /\ Goto(p, "lookup")
  /\ UNCHANGED <<mode, ver, hit, todo, next, bytes, stores>>

\* is_cache_entry_complete.
Complete(v) == cache[v][Marker] # "absent" /\ cache[v][Initdb] # "absent"

\* find_matching_cached_version, which takes no lock.
FindCached(p) ==
  /\ pc[p] = "lookup"
  /\ LET found == {v \in Accepts[p] : Complete(v)} IN
       IF found = {}
       THEN /\ Goto(p, "setup")
            /\ UNCHANGED ver
       ELSE /\ ver' = [ver EXCEPT ![p] = Newest(found)]
            /\ Goto(p, "cachelock")
  /\ UNCHANGED <<mode, hit, todo, next, bytes, setup, stores>>

Writing(v) == \E q \in Procs : pc[q] \in {"populating", "marking"} /\ ver[q] = v
Reading(v) == \E q \in Procs : pc[q] = "copying" /\ ver[q] = v

\* The lock, the entry or the copy fails: the lookup counts as a miss.
Miss(p) ==
  /\ Goto(p, "setup")
  /\ ver' = [ver EXCEPT ![p] = None]
  /\ todo' = [todo EXCEPT ![p] = {}]
  /\ UNCHANGED <<mode, hit, next, bytes, setup, stores>>

\* CacheLock::acquire_shared blocks while a writer has the entry; then the entry
\* is checked again and the copy begins with its directory.
LockEntry(p) ==
  /\ pc[p] = "cachelock" /\ ~Writing(ver[p])
  /\ \/ /\ Complete(ver[p])
        /\ dirs' = dirs \cup {ver[p]}
        /\ todo' = [todo EXCEPT ![p] = Present(cache[ver[p]])]
        /\ Goto(p, "copying")
        /\ UNCHANGED <<mode, ver, hit, next, bytes, setup, tree, cache, archive, uncached,
                       stripped>>
     \/ Miss(p)

\* Fault: every file is written again, whatever is there.
CopyFileAnew(p, f) ==
  /\ pc[p] = "copying" /\ f \in todo[p] /\ ver[p] \in dirs
  /\ \/ /\ tree[ver[p]][f] # "part"
        /\ tree' = [tree EXCEPT ![ver[p]][f] = "part"]
        /\ UNCHANGED todo
     \/ /\ tree[ver[p]][f] = "part"
        /\ tree' = [tree EXCEPT ![ver[p]][f] = cache[ver[p]][f]]
        /\ todo' = [todo EXCEPT ![p] = @ \ {f}]
  /\ UNCHANGED <<pc, mode, ver, hit, next, bytes, setup, dirs, cache, archive, uncached, stripped>>

\* copy_file_with_permissions: fs::copy truncates and writes, unless the file has
\* its size already.  Directory entries come in any order.
CopyFile(p, f) ==
  /\ pc[p] = "copying" /\ f \in todo[p] /\ ver[p] \in dirs
  /\ \/ /\ tree[ver[p]][f] \notin {"part", cache[ver[p]][f]}
        /\ tree' = [tree EXCEPT ![ver[p]][f] = "part"]
        /\ UNCHANGED todo
     \/ /\ tree[ver[p]][f] \in {"part", cache[ver[p]][f]}
        /\ tree' = [tree EXCEPT ![ver[p]][f] = cache[ver[p]][f]]
        /\ todo' = [todo EXCEPT ![p] = @ \ {f}]
  /\ UNCHANGED <<pc, mode, ver, hit, next, bytes, setup, dirs, cache, archive, uncached, stripped>>

\* The copy is done: a start releases the setup lock (after_cache_lookup), the
\* command line keeps it.
CacheHit(p) ==
  /\ pc[p] = "copying" /\ todo[p] = {}
  /\ hit' = [hit EXCEPT ![p] = TRUE]
  /\ setup' = IF mode[p] = "cli" THEN p ELSE None
  /\ Goto(p, "setup")
  /\ UNCHANGED <<mode, ver, todo, next, bytes, stores>>

\* copy_from_cache fails part-way: "falling back to download".
CopyFails(p) ==
  /\ pc[p] = "copying"
  /\ Miss(p)

-----------------------------------------------------------------------------
(* Setup, and the cache population that follows it.                        *)

\* durability's installed_dir, which chooses as PostgreSQL::setup does: the newest
\* directory named for a matching version, whatever is in it.
InstalledDir(p) == Accepts[p] \cap dirs

\* installation's resolve_installed_dir: a directory trusted after a hit, else the
\* newest matching one that has a bin/.
ResolveInstalledDir(p) ==
  IF hit[p] THEN {ver[p]}
  ELSE {v \in Accepts[p] \cap dirs : tree[v][Initdb] # "absent"}

\* PostgreSQL::setup downloads and moves an extracted release into place when
\* there is no installed directory; then initdb runs from it.
Setup(p) ==
  /\ pc[p] = "setup"
  /\ \/ /\ hit[p]
        /\ tree[ver[p]][Initdb] = "whole"
        /\ UNCHANGED <<ver, dirs, tree>>
     \/ /\ ~hit[p] /\ InstalledDir(p) # {}
        /\ ver' = [ver EXCEPT ![p] = Newest(InstalledDir(p))]
        /\ tree[ver'[p]][Initdb] = "whole"
        /\ UNCHANGED <<dirs, tree>>
     \/ /\ ~hit[p] /\ InstalledDir(p) = {}
        /\ ver' = [ver EXCEPT ![p] = Newest(Accepts[p])]
        /\ dirs' = dirs \cup {ver'[p]}
        /\ tree' = [tree EXCEPT ![ver'[p]] = Pristine]
  /\ Goto(p, IF hit[p] THEN "hook" ELSE "resolve")
  /\ UNCHANGED <<mode, hit, todo, next, bytes, setup, cache, archive, uncached, stripped>>

\* try_populate_binary_cache: which directory, and whether it is cached already.
ResolveForCache(p) ==
  /\ pc[p] = "resolve"
  /\ LET found == ResolveInstalledDir(p) IN
       IF found # {} /\ ~Complete(Newest(found))
       THEN /\ ver' = [ver EXCEPT ![p] = Newest(found)]
            /\ Goto(p, "poplock")
       ELSE /\ Goto(p, "hook")
            /\ UNCHANGED ver
  /\ UNCHANGED <<mode, hit, todo, next, bytes, setup, stores>>

\* CacheLock::acquire_exclusive, the second check, and populate_cache begins.
LockForPopulate(p) ==
  /\ pc[p] = "poplock" /\ ~Writing(ver[p]) /\ ~Reading(ver[p])
  /\ IF Complete(ver[p])
     THEN /\ Goto(p, "hook")
          /\ UNCHANGED todo
     ELSE /\ todo' = [todo EXCEPT ![p] = Present(tree[ver[p]])]
          /\ Goto(p, "populating")
  /\ UNCHANGED <<mode, ver, hit, next, bytes, setup, stores>>

\* Each file is truncated, then written; what an earlier attempt copied stays.
PopulateFile(p, f) ==
  /\ pc[p] = "populating" /\ f \in todo[p] /\ tree[ver[p]][f] # "absent"
  /\ \/ /\ cache[ver[p]][f] \notin {"part", tree[ver[p]][f]}
        /\ cache' = [cache EXCEPT ![ver[p]][f] = "part"]
        /\ UNCHANGED todo
     \/ /\ cache[ver[p]][f] \in {"part", tree[ver[p]][f]}
        /\ cache' = [cache EXCEPT ![ver[p]][f] = tree[ver[p]][f]]
        /\ todo' = [todo EXCEPT ![p] = @ \ {f}]
  /\ UNCHANGED <<pc, mode, ver, hit, next, bytes, setup, dirs, tree, archive, uncached, stripped>>

\* Fault: the marker is written when the copying begins.
PopulatedEarly(p) ==
  /\ pc[p] = "populating"
  /\ Goto(p, IF todo[p] = {} THEN "marking" ELSE "populating")
  /\ cache' = [cache EXCEPT ![ver[p]][Marker] = "whole"]
  /\ UNCHANGED <<mode, ver, hit, todo, next, bytes, setup, dirs, tree, archive, uncached, stripped>>

\* copy_dir_recursive returns,
Populated(p) ==
  /\ pc[p] = "populating" /\ todo[p] = {}
  /\ Goto(p, "marking")
  /\ UNCHANGED <<mode, ver, hit, todo, next, bytes, setup, stores>>

\* and write_completion_marker follows.
WriteMarker(p) ==
  /\ pc[p] = "marking"
  /\ cache' = [cache EXCEPT ![ver[p]][Marker] = "whole"]
  /\ Goto(p, "hook")
  /\ UNCHANGED <<mode, ver, hit, todo, next, bytes, setup, dirs, tree, archive, uncached, stripped>>

\* The lock or the copy fails, as it must where a source file is gone; the start
\* goes on without a cached copy.
PopulationFails(p) ==
  /\ pc[p] \in {"poplock", "populating", "marking"}
  /\ todo' = [todo EXCEPT ![p] = {}]
  /\ uncached' = uncached \cup {ver[p]}
  /\ Goto(p, "hook")
  /\ UNCHANGED <<mode, ver, hit, next, bytes, setup, dirs, tree, cache, archive, stripped>>

-----------------------------------------------------------------------------
(* The extension hook.                                                     *)

\* Fault: the hook takes the lock even where the start still has it.
ForHookAlways(p) ==
  /\ pc[p] = "hook"
  /\ Goto(p, IF Len(Declared[p]) = 0 THEN "start" ELSE "relock")
  /\ UNCHANGED <<mode, ver, hit, todo, next, bytes, setup, stores>>

\* extension_target, and InstallLock::for_hook.
ForHook(p) ==
  /\ pc[p] = "hook"
  /\ Goto(p, IF Len(Declared[p]) = 0 THEN "start"
             ELSE IF setup = p THEN "select" ELSE "relock")
  /\ UNCHANGED <<mode, ver, hit, todo, next, bytes, setup, stores>>

\* Fault: the lock released after a hit is not taken again.
RelockNot(p) ==
  /\ pc[p] = "relock"
  /\ Goto(p, "select")
  /\ UNCHANGED <<mode, ver, hit, todo, next, bytes, setup, stores>>

Relock(p) ==
  /\ pc[p] = "relock" /\ setup = None
  /\ setup' = p
  /\ Goto(p, "select")
  /\ UNCHANGED <<mode, ver, hit, todo, next, bytes, stores>>

\* Manifest::select: the artefacts for a name that were built for the running
\* version; the first one counts.
Matching(p, n) ==
  {i \in DOMAIN Manifest[p] : Manifest[p][i].name = n /\ Manifest[p][i].built = ver[p]}
Selected(p, n) ==
  Manifest[p][CHOOSE i \in Matching(p, n) : \A j \in Matching(p, n) : i <= j].archive

\* select_all: every name is resolved before anything is acquired or written.
SelectAll(p) ==
  /\ pc[p] = "select"
  /\ \A i \in DOMAIN Declared[p] : Matching(p, Declared[p][i]) # {}
  /\ next' = [next EXCEPT ![p] = 1]
  /\ Goto(p, "acquire")
  /\ UNCHANGED <<mode, ver, hit, todo, bytes, setup, stores>>

Current(p) == Selected(p, Declared[p][next[p]])

\* acquire, under the digest's exclusive lock: a valid cached copy is used, anything
\* else is cleared or replaced ("invalid": no regular file, or not the digest's).
Acquire(p) ==
  /\ pc[p] = "acquire"
  /\ \A q \in Procs : pc[q] = "download" => Current(q) # Current(p)
  /\ IF archive[Current(p)] = "valid"
     THEN Goto(p, "verify")
     ELSE Goto(p, "download")
  /\ UNCHANGED <<mode, ver, hit, todo, next, bytes, setup, stores>>

\* The download, retried by http_get, is verified and renamed into place; the lock
\* is released.
Download(p) ==
  /\ pc[p] = "download"
  /\ archive' = [archive EXCEPT ![Current(p)] = "valid"]
  /\ Goto(p, "verify")
  /\ UNCHANGED <<mode, ver, hit, todo, next, bytes, setup, dirs, tree, cache, uncached, stripped>>

\* Fault: the lock held during acquire is trusted to keep the archive as it was.
VerifyNot(p) ==
  /\ pc[p] = "verify"
  /\ bytes' = [bytes EXCEPT ![p] = IF archive[Current(p)] = "valid" THEN Current(p) ELSE "corrupt"]
  /\ todo' = [todo EXCEPT ![p] = Contents[Current(p)]]
  /\ Goto(p, "writing")
  /\ UNCHANGED <<mode, ver, hit, next, setup, stores>>

\* read_verified and plan: the bytes hashed here are the bytes written.
Verify(p) ==
  /\ pc[p] = "verify" /\ archive[Current(p)] = "valid"
  /\ bytes' = [bytes EXCEPT ![p] = Current(p)]
  /\ todo' = [todo EXCEPT ![p] = Contents[Current(p)]]
  /\ Goto(p, "writing")
  /\ UNCHANGED <<mode, ver, hit, next, setup, stores>>

\* write_file: an identical file stays, any other is replaced by a rename.
WriteFile(p, f) ==
  /\ pc[p] = "writing" /\ f \in todo[p] /\ ver[p] \in dirs
  /\ tree' = [tree EXCEPT ![ver[p]][f] = bytes[p]]
  /\ todo' = [todo EXCEPT ![p] = @ \ {f}]
  /\ UNCHANGED <<pc, mode, ver, hit, next, bytes, setup, dirs, cache, archive, uncached, stripped>>

\* The next extension, or the end of the hook.
Installed(p) ==
  /\ pc[p] = "writing" /\ todo[p] = {}
  /\ bytes' = [bytes EXCEPT ![p] = None]
  /\ IF next[p] < Len(Declared[p])
     THEN /\ next' = [next EXCEPT ![p] = @ + 1]
          /\ Goto(p, "acquire")
     ELSE /\ Goto(p, "hooked")
          /\ UNCHANGED next
  /\ UNCHANGED <<mode, ver, hit, todo, setup, stores>>

\* The hook's own lock is dropped, the start's is kept.
HookDone(p) ==
  /\ pc[p] = "hooked"
  /\ setup' = IF hit[p] /\ mode[p] # "cli" THEN None ELSE setup
  /\ Goto(p, "start")
  /\ UNCHANGED <<mode, ver, hit, todo, next, bytes, stores>>

-----------------------------------------------------------------------------
(* Running, cleaning up, dying.                                            *)

\* Start; start_postgres returns and with it goes the lock a miss has kept.
Start(p) ==
  /\ pc[p] = "start" /\ mode[p] # "cli"
  /\ setup' = IF setup = p THEN None ELSE setup
  /\ Goto(p, "running")
  /\ UNCHANGED <<mode, ver, hit, todo, next, bytes, stores>>

\* setup_lifecycle ends here.
SetupOnlyDone(p) ==
  /\ pc[p] = "start" /\ mode[p] = "cli"
  /\ Gone(p)
  /\ UNCHANGED stores

\* The server is stopped; the tree is kept.
Stop(p) ==
  /\ pc[p] = "running"
  /\ Gone(p)
  /\ UNCHANGED stores

\* A full cleanup: under the claim guard, when no other slot is held.
PlanFull(p) ==
  /\ pc[p] = "running"
  /\ \A q \in Procs \ {p} : pc[q] # "removing" /\ ~(pc[q] \in Live /\ mode[q] = "slotted")
  /\ todo' = [todo EXCEPT ![p] = Present(tree[ver[p]])]
  /\ Goto(p, "removing")
  /\ UNCHANGED <<mode, ver, hit, next, bytes, setup, stores>>

\* The same for an explicit data directory from which plan_for_unslotted derives no
\* slot parent (the install tree has another name than the default's, or the data are in
\* the parent itself): neither the guard nor the probe.  Which of the two an explicit
\* cluster takes is a matter of its directories.
PlanUnguarded(p) ==
  /\ pc[p] = "running" /\ mode[p] = "explicit"
  /\ todo' = [todo EXCEPT ![p] = Present(tree[ver[p]])]
  /\ Goto(p, "stripping")
  /\ UNCHANGED <<mode, ver, hit, next, bytes, setup, stores>>

\* The slotted clusters under which p removes without a guard.
Stripped(p) ==
  {q \in Procs : pc[p] = "stripping" /\ mode[q] = "slotted" /\ ver[q] = ver[p]}

\* remove_dir_all, file by file,
RemoveFile(p, f) ==
  /\ pc[p] \in {"removing", "stripping"} /\ f \in todo[p]
  /\ tree' = [tree EXCEPT ![ver[p]][f] = "absent"]
  /\ stripped' = stripped \cup Stripped(p)
  /\ todo' = [todo EXCEPT ![p] = @ \ {f}]
  /\ UNCHANGED <<pc, mode, ver, hit, next, bytes, setup, dirs, cache, archive, uncached>>

\* and the directory, unless somebody has put a file there since.
Removed(p) ==
  /\ pc[p] \in {"removing", "stripping"} /\ todo[p] = {}
  /\ dirs' = IF tree[ver[p]] = Empty THEN dirs \ {ver[p]} ELSE dirs
  /\ stripped' = stripped \cup Stripped(p)
  /\ Gone(p)
  /\ UNCHANGED <<tree, cache, archive, uncached>>

\* A step cannot succeed and returns its error: initdb is not there, a name is not
\* in the manifest, the archive does not hash to its digest, the directory is gone.
Fails(p) ==
  /\ \/ pc[p] = "setup" /\ hit[p] /\ tree[ver[p]][Initdb] # "whole"
     \/ pc[p] = "setup" /\ ~hit[p] /\ InstalledDir(p) # {}
          /\ tree[Newest(InstalledDir(p))][Initdb] # "whole"
     \/ pc[p] = "select" /\ \E i \in DOMAIN Declared[p] : Matching(p, Declared[p][i]) = {}
     \/ pc[p] = "verify" /\ archive[Current(p)] # "valid"
     \/ pc[p] = "writing" /\ todo[p] # {} /\ ver[p] \notin dirs
  /\ Gone(p)
  /\ UNCHANGED stores

\* The process is killed, or a step fails for another reason: what it did stays
\* and what it held is released.
Abort(p) ==
  /\ pc[p] # "idle"
  /\ Gone(p)
  /\ UNCHANGED stores

\* The disk, or a program that ignores the locks, spoils an archive or removes it.
Spoil(a) ==
  /\ archive[a] = "valid"
  /\ archive' = [archive EXCEPT ![a] = "invalid"]
  /\ UNCHANGED <<procVars, setup, dirs, tree, cache, uncached, stripped>>

-----------------------------------------------------------------------------
\* What a process does once it has the locks it needs.
Work(p) ==
  \/ FindCached(p) \/ CacheHit(p) \/ CopyFails(p) \/ Setup(p) \/ ResolveForCache(p)
  \/ Populated(p) \/ WriteMarker(p) \/ PopulationFails(p) \/ ForHook(p) \/ SelectAll(p)
  \/ Download(p) \/ Verify(p) \/ Installed(p) \/ HookDone(p) \/ Start(p) \/ SetupOnlyDone(p)
  \/ Removed(p) \/ Fails(p)
  \/ \E f \in AllFiles : CopyFile(p, f) \/ PopulateFile(p, f) \/ WriteFile(p, f)
                           \/ RemoveFile(p, f)

\* Taking a lock: the calls block, without a timeout.
Lock(p) ==
  AcquireSetup(p) \/ LockEntry(p) \/ LockForPopulate(p) \/ Relock(p) \/ Acquire(p)

Next ==
  \/ \E p \in Procs :
       \/ Work(p) \/ Lock(p) \/ Stop(p) \/ PlanFull(p) \/ PlanUnguarded(p)
       \/ Abort(p)
       \/ \E m \in {"slotted", "explicit", "cli"} : Bootstrap(p, m)
  \/ \E a \in Archives : Spoil(a)

Spec == Init /\ [][Next]_vars

-----------------------------------------------------------------------------
(* What the shared tree and the caches promise.                            *)

\* A cache entry that lookups accept (cache/operations/lookup.rs, marker and bin/)
\* holds every file of the release whole, and no extension's file: whoever was killed
\* while populating it, whatever the tree went through.  After a population that failed
\* the next one copies a tree that has been in use meanwhile.
MarkedEntryPristine ==
  \A v \in Versions \ uncached : Complete(v) =>
    \A f \in Files \cup ExtensionFiles : cache[v][f] = Pristine[f]

\* A slotted cluster started from the cache has the whole release under it from its
\* lookup to its end, although it released the setup lock: nobody truncates,
\* rewrites or removes a binary it runs from (startup.rs after_cache_lookup).  As
\* above, the entry is one whose population never failed: a retried one may have
\* copied a tree that a cleanup was removing.  And nobody's unguarded cleanup has struck
\* this cluster's tree in its time (stripped): that one the guard and the probe for peers
\* do not hold back.
HitTreeWhole ==
  \A p \in Procs \ stripped :
    hit[p] /\ mode[p] = "slotted" /\ pc[p] # "removing" /\ ver[p] \notin uncached =>
      ver[p] \in dirs /\ \A f \in Files : tree[ver[p]][f] = "whole"

\* When a slotted start's hook has run, every declared extension's files in the tree
\* are those of the archive its own manifest selected for the running version,
\* although other processes install theirs, archives are spoilt behind the lock's
\* back and earlier installations were cut short (extension_hook.rs).  An unguarded
\* cleanup that struck in the cluster's time is excepted again.
ExtensionsAsDeclared ==
  \A p \in Procs \ stripped : pc[p] = "hooked" /\ mode[p] = "slotted" =>
    \A i \in DOMAIN Declared[p] : \A f \in Contents[Selected(p, Declared[p][i])] :
      tree[ver[p]][f] \in {Selected(p, Declared[p][j]) : j \in i..Len(Declared[p])}

\* Whom a blocked process waits for.
WaitsFor(p) ==
  CASE pc[p] \in {"bootstrapped", "relock"} -> {q \in Procs : setup = q}
    [] pc[p] = "cachelock" -> {q \in Procs : pc[q] \in {"populating", "marking"} /\ ver[q] = ver[p]}
    [] pc[p] = "poplock" ->
         {q \in Procs : pc[q] \in {"copying", "populating", "marking"} /\ ver[q] = ver[p]}
    [] pc[p] = "acquire" -> {q \in Procs : pc[q] = "download" /\ Current(q) = Current(p)}
    [] OTHER -> {}

\* Nobody waits in a circle, himself included: the setup lock, the entries' and the
\* archives' locks are all taken without a timeout, in several orders
\* (setup_lock.rs, cache/lock.rs).
NoWaitCycle ==
  \A S \in (SUBSET Procs) \ {{}} : \E p \in S : WaitsFor(p) \cap S = {}
=============================================================================
