----------------------------- MODULE SlotParent -----------------------------
(***************************************************************************)
(* A data directory that is the slots' parent, <root>/data itself, beside  *)
(* the slots in it.  `run` uses it when PG_DATA_DIR is not set, and the    *)
(* documentation advises PG_DATA_DIR = <root>/data to use what run leaves. *)
(* An unprivileged run ends with the Drop of its PostgreSQL value, whose   *)
(* settings are temporary, and so with the removal of that directory; a    *)
(* test cluster there ends with its cleanup, which removes it as well.     *)
(* Here either happens in one step.                                        *)
(***************************************************************************)
EXTENDS ClusterSlots

\* The parent is removed with every slot and lock file in it.  A lock on an
\* unlinked file is still held; a watcher waiting on one waits on alone.
RemoveParent ==
  /\ dir' = [d \in Dirs |-> d \in Explicit /\ dir[d]]
  /\ pidfile' = [d \in Dirs |-> IF d \in Slots THEN "absent" ELSE pidfile[d]]
  /\ lockFile' = [s \in Slots |-> FALSE]
  /\ watcher' = [s \in Slots |-> IF watcher[s] = "waiting" THEN "detached" ELSE watcher[s]]
  /\ stray' = stray \cup {s \in Slots : server[s] \in ServerUp}

\* setup_postgres_only, unprivileged: whether or not initdb accepts a directory
\* that has slots in it, the value is dropped and takes the directory.
SetupOnly(p) ==
  /\ pc[p] = "idle"
  /\ RemoveParent
  /\ UNCHANGED <<procVars, guard, owner, lockBy, server, install>>

\* The end of a test cluster with PG_DATA_DIR = <root>/data: its cleanup removes the
\* directory and, where it is full, the install tree too, with neither guard nor probe,
\* for plan_for_unslotted leaves out a parent that is the data directory.
CleanupParent(p) ==
  /\ pc[p] = "idle"
  /\ RemoveParent
  /\ install' \in {install, IF install = "present" THEN "stripped" ELSE install}
  /\ UNCHANGED <<procVars, guard, owner, lockBy, server>>

ParentNext == Next \/ \E p \in Procs : SetupOnly(p) \/ CleanupParent(p)

ParentSpec == Init /\ [][ParentNext]_vars
=============================================================================
