----------------------------- MODULE WindowsHook -----------------------------
(***************************************************************************)
(* The exit hook on Windows: the registration puts the postmaster and its  *)
(* children into a job that is killed with the process, and the callback   *)
(* terminates the tree, twice if need be.                                  *)
(*   cluster/shutdown_hook/mod               register and callback;        *)
(*   .../platform/windows          trees, snapshots, handles, termination; *)
(*   .../platform/windows/job, identity      the job, and who a PID is.    *)
(*                                                                         *)
(* Processes come and go meanwhile and PIDs are reused, also as the parent *)
(* PID of a process that outlived its parent.  A handle keeps the PID of   *)
(* its process from being reused.  The postmaster's children are postgres  *)
(* processes; theirs are not (an archive_command).  A process that has     *)
(* come by the postmaster's PID was created more than the two seconds of   *)
(* tolerance later.  Any call on a process may be denied.                  *)
(***************************************************************************)
EXTENDS Naturals, FiniteSets

CONSTANTS
  Procs,      \* processes, each of which is created at most once
  Server,     \* the postmaster
  Pids,
  None

ASSUME WindowsAssumption ==
  /\ Server \in Procs /\ IsFiniteSet(Procs)
  /\ None \notin Pids /\ \A P \in SUBSET Procs : P # None

VARIABLES
  pid, parent,   \* of each process: its PID, and its parent's at creation
  alive,
  image,         \* processes whose image is postgres.exe
  ours,          \* the postmaster and what really descends from it
  coincident,    \* others that, by their parent PIDs alone, have come to descend from it
  pidfile,       \* postmaster.pid exists
  registered,    \* ShutdownRegistrationState::Registered
  pc,            \* where registration or callback is
  round,         \* 0: job, 1: request_shutdown, 2: force_shutdown
  handles,       \* processes the hook has a handle of
  tree,          \* entries of the first snapshot still to open
  opened,        \* process and entry of those opened, then of those found valid
  job,           \* the members of the job, None without one
  touched,       \* processes the hook has terminated or put into the job
  missed         \* processes a denied call has kept out of the job

processes == <<pid, parent, alive, image, ours, coincident>>
traversal == <<round, handles, tree, opened>>
vars == <<pid, parent, alive, image, ours, coincident, pidfile, registered, pc, round,
          handles, tree, opened, job, touched, missed>>

Entries == [pid : Pids, parent : Pids]
Born == {p \in Procs : pid[p] # None}
InJob == IF job = None THEN {} ELSE job

TypeOK ==
  /\ pid \in [Procs -> Pids \cup {None}] /\ parent \in [Procs -> Pids \cup {None}]
  /\ alive \subseteq Born /\ image \subseteq Born
  /\ ours \subseteq Born /\ coincident \subseteq Born \ ours
  /\ \A p, q \in alive \cup handles : pid[p] = pid[q] => p = q
  /\ pidfile \in BOOLEAN /\ registered \in BOOLEAN
  /\ pc \in {"idle", "root", "assign", "tree", "open", "act", "commit", "registered",
             "callback", "wait", "cleanup", "end", "gone"}
  /\ round \in 0..2
  /\ handles \subseteq Born
  /\ pc \notin {"assign", "tree", "open", "act"} => handles = {} /\ tree = {} /\ opened = {}
  /\ tree \subseteq Entries
  /\ opened \subseteq [process : Procs, entry : Entries]
  /\ job = None \/ job \subseteq Born
  /\ touched \subseteq Born /\ missed \subseteq Born

Init ==
  /\ pid = [p \in Procs |-> None] /\ parent = [p \in Procs |-> None]
  /\ alive = {} /\ image = {} /\ ours = {} /\ coincident = {}
  /\ pidfile = FALSE
  /\ registered = FALSE /\ pc = "idle" /\ round = 0
  /\ handles = {} /\ tree = {} /\ opened = {}
  /\ job = None /\ touched = {} /\ missed = {}

-----------------------------------------------------------------------------
(* Process trees.                                                          *)

\* Fault: the queue starts empty.
CollectTreeUnseeded(E) == {}

\* collect_process_tree: what the parent PIDs in snapshot E say descends from the root.
CollectTree(E) ==
  LET Level[n \in 0..Cardinality(E)] ==
        IF n = 0 THEN {p \in E : parent[p] = pid[Server]}
        ELSE Level[n - 1] \cup {p \in E : \E q \in Level[n - 1] : parent[p] = pid[q]}
  IN Level[Cardinality(E)] \ {Server}

\* Fault: one step less than there are entries.
HasRootAncestorShort(p, E) ==
  LET Up[n \in 0..Cardinality(E)] ==
        IF n = 0 THEN {p} ELSE {q \in E : \E r \in Up[n - 1] : pid[q] = parent[r]}
  IN \E n \in 1..(Cardinality(E) - 1) : \E q \in Up[n - 1] : parent[q] = pid[Server]

\* process_has_root_ancestor: up from p, at most as many steps as there are entries.
HasRootAncestor(p, E) ==
  LET Up[n \in 0..Cardinality(E)] ==
        IF n = 0 THEN {p} ELSE {q \in E : \E r \in Up[n - 1] : pid[q] = parent[r]}
  IN \E n \in 1..Cardinality(E) : \E q \in Up[n - 1] : parent[q] = pid[Server]

\* A snapshot may list processes that have ended and that somebody has a handle of.
Snapshots == {alive \cup z : z \in SUBSET (handles \ alive)}

-----------------------------------------------------------------------------
(* The system.                                                             *)

FreePids == Pids \ {pid[p] : p \in alive \cup handles}

\* Process p is created, as long as there is a hook to tell.
Create(p, q, up) ==
  /\ pc # "gone" /\ p \notin Born /\ q \in FreePids
  /\ pid' = [pid EXCEPT ![p] = q] /\ parent' = [parent EXCEPT ![p] = up]
  /\ alive' = alive \cup {p}

\* Who has come to look like a descendant.
Coincide ==
  coincident' = coincident \cup
    {p \in alive' \ ours' :
       \E n \in 1..Cardinality(Procs) :
         \E c \in [1..n -> alive' \cup handles] :
           /\ c[1] = p /\ parent'[c[n]] = pid'[Server]
           /\ \A i \in 1..(n - 1) : parent'[c[i]] = pid'[c[i + 1]]}

\* Its own parent is never looked at.
StartServer(q) ==
  /\ pc = "idle" /\ Create(Server, q, None)
  /\ image' = image \cup {Server} /\ ours' = ours \cup {Server}
  /\ Coincide
  /\ pidfile' = TRUE
  /\ UNCHANGED <<registered, pc, traversal, job, touched, missed>>

\* The postmaster or one of its children creates a process; a job is inherited.
ServerCreates(p, r, q) ==
  /\ p # Server /\ r \in ours \cap alive /\ Create(p, q, pid[r])
  /\ image' = IF r = Server THEN image \cup {p} ELSE image
  /\ ours' = ours \cup {p}
  /\ Coincide
  /\ job' = IF r \in InJob THEN job \cup {p} ELSE job
  /\ UNCHANGED <<pidfile, registered, pc, traversal, touched, missed>>

\* Somebody else does, somebody with PID up, who may be gone right after.
OtherCreates(p, q, up) ==
  /\ p # Server /\ up # q /\ Create(p, q, up)
  /\ up \notin {pid[r] : r \in ours \cap alive} \cup {pid[r] : r \in handles \ alive}
  /\ image' \in {image, image \cup {p}}
  /\ UNCHANGED ours
  /\ Coincide
  /\ UNCHANGED <<pidfile, registered, pc, traversal, job, touched, missed>>

\* A process ends.  A postmaster that is stopped removes its postmaster.pid.
Ends(p) ==
  /\ p \in alive
  /\ alive' = alive \ {p}
  /\ pidfile' \in IF p = Server THEN {pidfile, FALSE} ELSE {pidfile}
  /\ UNCHANGED <<pid, parent, image, ours, coincident, registered, pc, traversal, job,
                 touched, missed>>

-----------------------------------------------------------------------------
(* Finding the tree, for the job and for a termination.                    *)

\* OpenProcess on a PID.
Open(q) == {p \in alive \cup handles : pid[p] = q}

\* is_active_postgres.
IsActivePostgres(p) == p \in alive /\ p \in image

\* creation_time_matches: of those that have ever had that PID only the postmaster was
\* created within the tolerance of the time in postmaster.pid.
CreationTimeMatches(p) == p = Server

\* matches_postmaster.
Matches(p) == IsActivePostgres(p) /\ CreationTimeMatches(p)

\* Processes P are left out of the job.
Miss(P) == missed' = IF round = 0 THEN missed \cup P ELSE missed

\* Where a traversal that gives up or has ended goes on.
Ended == CASE round = 0 -> "commit" [] round = 1 -> "wait" [] round = 2 -> "cleanup"

OpenRoot ==
  /\ pc = "root"
  /\ \E p \in Open(pid[Server]) :
       /\ Matches(p)
       /\ handles' = {p}
  /\ pc' = IF round = 0 THEN "assign" ELSE "tree"
  /\ UNCHANGED <<processes, pidfile, registered, round, tree, opened, job, touched, missed>>

\* It is not the postmaster, or the open is denied.
RootGivenUp ==
  /\ pc = "root"
  /\ pc' = Ended
  /\ UNCHANGED <<processes, pidfile, registered, traversal, job, touched, missed>>

\* create_kill_on_close and assign_process_tree's first step: the children the
\* postmaster creates from here on are members too.
AssignRoot ==
  /\ pc = "assign"
  /\ \/ /\ handles \subseteq alive
        /\ job' = handles /\ touched' = touched \cup handles
        /\ pc' = "tree" /\ UNCHANGED handles
     \/ /\ pc' = "commit" /\ handles' = {}
        /\ UNCHANGED <<job, touched>>
  /\ UNCHANGED <<processes, pidfile, registered, round, tree, opened, missed>>

Snapshot ==
  /\ pc = "tree"
  /\ \E E \in Snapshots : tree' = {[pid |-> pid[p], parent |-> parent[p]] : p \in CollectTree(E)}
  /\ pc' = "open"
  /\ UNCHANGED <<processes, pidfile, registered, round, handles, opened, job, touched, missed>>

\* The snapshot fails: root only.
SnapshotFails ==
  /\ pc = "tree"
  /\ pc' = "open"
  /\ Miss(alive \ InJob)
  /\ UNCHANGED <<processes, pidfile, registered, traversal, job, touched>>

\* Each entry of the tree is opened by its PID, whoever has it now.
OpenDescendant(e) ==
  /\ pc = "open" /\ e \in tree
  /\ tree' = tree \ {e}
  /\ \/ \E p \in Open(e.pid) :
          /\ handles' = handles \cup {p}
          /\ opened' = opened \cup {[process |-> p, entry |-> e]}
          /\ UNCHANGED missed
     \/ /\ Miss(Open(e.pid))
        /\ UNCHANGED <<handles, opened>>
  /\ UNCHANGED <<processes, pidfile, registered, pc, round, job, touched>>

\* Fault: the descendants are not looked up again.
StillInTreeTrusting(o, E) == IsActivePostgres(o.process)

\* Still a postgres process, and descendant_is_still_in_root_tree.
StillInTree(o, E) ==
  /\ IsActivePostgres(o.process)
  /\ \E p \in E : pid[p] = o.entry.pid /\ parent[p] = o.entry.parent /\ HasRootAncestor(p, E)

\* With every handle open, a second snapshot validates them.
Validate ==
  /\ pc = "open" /\ tree = {}
  /\ \/ \E E \in Snapshots : opened' = {o \in opened : StillInTree(o, E)} /\ UNCHANGED missed
     \/ opened' = {} /\ Miss({o.process : o \in opened})
  /\ handles' = {p \in handles : p = Server \/ \E o \in opened' : o.process = p}
  /\ pc' = "act"
  /\ UNCHANGED <<processes, pidfile, registered, round, tree, job, touched>>

\* A descendant's handle is closed after its turn.
CloseDescendant(o) == opened' = opened \ {o} /\ handles' = handles \ {o.process}

\* assign_process,
Assign(o) ==
  /\ pc = "act" /\ round = 0 /\ o \in opened
  /\ \/ /\ IsActivePostgres(o.process)
        /\ job' = job \cup {o.process} /\ touched' = touched \cup {o.process}
        /\ UNCHANGED missed
     \/ Miss({o.process}) /\ UNCHANGED <<job, touched>>
  /\ CloseDescendant(o)
  /\ UNCHANGED <<processes, pidfile, registered, pc, round, tree>>

\* or terminate_process, for one descendant.
Terminate(o) ==
  /\ pc = "act" /\ round # 0 /\ o \in opened
  /\ \/ /\ IsActivePostgres(o.process)
        /\ alive' = alive \ {o.process} /\ touched' = touched \cup {o.process}
     \/ UNCHANGED <<alive, touched>>
  /\ CloseDescendant(o)
  /\ UNCHANGED <<pid, parent, image, ours, coincident, pidfile, registered, pc, round,
                 tree, job, missed>>

\* Fault: the root's handle is not closed.
TreeDoneOpen ==
  /\ pc = "act" /\ opened = {}
  /\ pc' = Ended
  /\ UNCHANGED <<processes, pidfile, registered, traversal, job, touched, missed>>

\* Last of all the root is terminated, and the handles are closed.
TreeDone ==
  /\ pc = "act" /\ opened = {}
  /\ \/ round # 0 /\ alive' = alive \ handles /\ touched' = touched \cup (handles \cap alive)
     \/ UNCHANGED <<alive, touched>>
  /\ handles' = {}
  /\ pc' = Ended
  /\ UNCHANGED <<pid, parent, image, ours, coincident, pidfile, registered, round, tree,
                 opened, job,
                 missed>>

-----------------------------------------------------------------------------
(* Registration and callback.                                              *)

\* build_shutdown_state reads postmaster.pid and registers the callback; without a
\* postmaster there is nothing to put into a job.  An error rolls all of it back.
Register ==
  /\ pc = "idle" /\ Server \in Born
  /\ pc' = IF pidfile THEN "root" ELSE "commit"
  /\ UNCHANGED <<processes, pidfile, registered, traversal, job, touched, missed>>

Commit ==
  /\ pc = "commit"
  /\ registered' = TRUE /\ pc' = "registered"
  /\ UNCHANGED <<processes, pidfile, traversal, job, touched, missed>>

\* exit() runs the callback.
Exit ==
  /\ pc = "registered"
  /\ pc' = "callback"
  /\ UNCHANGED <<processes, pidfile, registered, traversal, job, touched, missed>>

Running == \E p \in Open(pid[Server]) : Matches(p)

\* A probe that fails says it is running.
CallbackStops ==
  /\ pc = "callback" /\ pidfile
  /\ pc' = "root" /\ round' = 1
  /\ UNCHANGED <<processes, pidfile, registered, handles, tree, opened, job, touched, missed>>

CallbackCleansUp ==
  /\ pc = "callback" /\ (pidfile => ~Running)
  /\ pc' = "cleanup"
  /\ UNCHANGED <<processes, pidfile, registered, traversal, job, touched, missed>>

\* postmaster.pid cannot be read.
CallbackGivesUp ==
  /\ pc = "callback"
  /\ pc' = "end"
  /\ UNCHANGED <<processes, pidfile, registered, traversal, job, touched, missed>>

\* wait_for_exit.
WaitOver ==
  /\ pc = "wait" /\ ~Running
  /\ pc' = "cleanup"
  /\ UNCHANGED <<processes, pidfile, registered, traversal, job, touched, missed>>

\* The time is over, and the postmaster is there or cannot be probed.
WaitTimesOut ==
  /\ pc = "wait"
  /\ pc' = "root" /\ round' = 2
  /\ UNCHANGED <<processes, pidfile, registered, handles, tree, opened, job, touched, missed>>

\* best_effort_cleanup; the directories are SharedCluster's.
Cleanup ==
  /\ pc = "cleanup"
  /\ pc' = "end"
  /\ UNCHANGED <<processes, pidfile, registered, traversal, job, touched, missed>>

\* The process is gone, at the end of exit() or killed: its handles are closed, and
\* closing the job kills the members.
OwnerEnds ==
  /\ pc # "gone"
  /\ pc' = "gone"
  /\ alive' = alive \ InJob
  /\ handles' = {} /\ tree' = {} /\ opened' = {}
  /\ UNCHANGED <<pid, parent, image, ours, coincident, pidfile, registered, round, job,
                 touched, missed>>

-----------------------------------------------------------------------------
System ==
  \/ \E q \in Pids : StartServer(q)
  \/ \E p, r \in Procs, q \in Pids : ServerCreates(p, r, q)
  \/ \E p \in Procs, q, up \in Pids : OtherCreates(p, q, up)
  \/ \E p \in Procs : Ends(p)

Traverse ==
  \/ OpenRoot \/ RootGivenUp \/ AssignRoot \/ Snapshot \/ SnapshotFails
  \/ \E e \in tree : OpenDescendant(e)
  \/ Validate \/ \E o \in opened : Assign(o) \/ Terminate(o)
  \/ TreeDone

Hook ==
  \/ Register \/ Commit \/ Exit
  \/ CallbackStops \/ CallbackCleansUp \/ CallbackGivesUp \/ WaitOver \/ WaitTimesOut \/ Cleanup
  \/ OwnerEnds

Next == System \/ Traverse \/ Hook

Spec == Init /\ [][Next]_vars

-----------------------------------------------------------------------------
\* The hook terminates, and puts into its job, only the postmaster and processes that
\* descend from it, although PIDs are reused between the snapshot and the open, between
\* the open and the termination, and for the postmaster's own PID.  The exception is a
\* process whose parent's PID has come to one of ours: the check goes by parent PIDs
\* (terminate_process_tree, open_validated_descendant_processes, identity.rs).
OnlyOursTouched == touched \subseteq ours \cup coincident

\* Once registered with a job, every postgres process of the server is a member, those
\* created while the tree was being assigned included, and so is ended with the owner
\* however the owner ends; only a denied call leaves one out (job.rs).
JobCoversServer ==
  registered /\ job # None =>
    alive \cap ours \cap image \subseteq missed \cup (IF pc = "gone" THEN {} ELSE job)

\* The walk up and the closure down find the same processes in every snapshot, cycles
\* of reused parent PIDs and a missing root included (collect_process_tree,
\* process_has_root_ancestor).
WalksAgree ==
  Server \in Born =>
    \A E \in Snapshots : \A p \in E \ {Server} : HasRootAncestor(p, E) <=> p \in CollectTree(E)
=============================================================================
