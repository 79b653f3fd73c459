---------------------------- MODULE DataDirSetup ----------------------------
(***************************************************************************)
(* One data directory that outlives its sessions (an explicit PG_DATA_DIR, *)
(* or `run`'s), used by one session after the other, each of which may     *)
(* fail, time out or be killed at any step.                                *)
(*   bootstrap/mod, mode, prepare/...   privileges, port, password reuse;  *)
(*   cluster/worker_invoker, worker_process/...   an operation runs in     *)
(*       process, or as root through a worker that drops its privileges    *)
(*       and is killed when its time is over;                              *)
(*   bin/pg_worker, durability    what the operations do;                  *)
(*   cluster/startup, installation, shutdown, cleanup   the life cycle.    *)
(*                                                                         *)
(* The directory is the set of those of its files the code or a server     *)
(* looks at; initdb, pg_ctl, PostgreSQL::setup and what happens when a     *)
(* PostgreSQL value is dropped are external.  In process the settings are  *)
(* temporary, which they are by default and only root's are not: the Drop  *)
(* then removes the directory.  A new session begins once the children     *)
(* that a killed owner or worker has left behind have ended; a server left *)
(* behind stays.                                                           *)
(***************************************************************************)
EXTENDS Naturals, Sequences, FiniteSets

CONSTANTS
  Generated,      \* random passwords
  PgPassword,     \* the value of PG_PASSWORD, where it is set
  Ports,
  None

ASSUME SetupAssumption ==
  /\ PgPassword \notin Generated
  /\ None \notin Generated /\ None \notin Ports /\ None # PgPassword

Passwords == Generated \cup {PgPassword}

VARIABLES
  privileges,   \* "root" or "unprivileged"
  pc,           \* how far the session is; "down" when there is none
  op,           \* the operation under way
  at,           \* how far it is
  payload,      \* the worker's payload file, with the password in it
  explicit,     \* PG_PASSWORD is set
  reported,     \* settings.password
  port,         \* settings.port
  dir,          \* the files of the data directory
  dirpw,        \* the password of the last initdb there
  file,         \* the password file's contents
  torn,         \* a Drop took the password file and not the whole directory
  installed,    \* the binaries are in the install tree
  initdb,       \* the password a running initdb was given
  orphan,       \* nobody waits for it
  server        \* the port of the running server, as postmaster.pid has it

session == <<privileges, pc, explicit, reported, port>>
running == <<initdb, orphan, server>>
vars == <<privileges, pc, op, at, payload, explicit, reported, port, dir, dirpw, file,
          torn, installed, initdb, orphan, server>>

\* The order in which initdb makes them; the password is set in the last.
InitdbOrder == <<"base", "PG_VERSION", "postgresql.conf", "pg_filenode.map", "pg_authid">>
DirFiles == {InitdbOrder[i] : i \in DOMAIN InitdbOrder}
Finished == dir = DirFiles
Root == privileges = "root"

TypeOK ==
  /\ privileges \in {"root", "unprivileged"}
  /\ pc \in {"down", "bootstrapped", "ready", "running", "stopped"}
  /\ op \in {"none", "setup", "start", "stop", "cleanup"}
  /\ at \in {"none", "spawning", "begin", "initdb", "pgctl", "removing", "ok", "failed"}
  /\ (op = "none") = (at = "none")
  /\ payload \in {"none", "live", "leaked"}
  /\ explicit \in BOOLEAN
  /\ reported \in Passwords \cup {None}
  /\ port \in Ports \cup {None}
  /\ dir \subseteq DirFiles
  /\ dirpw \in Passwords \cup {None}
  /\ file \in Passwords \cup {None}
  /\ torn \in BOOLEAN
  /\ installed \in BOOLEAN
  /\ initdb \in Passwords \cup {None}
  /\ orphan \in BOOLEAN
  /\ server \in Ports \cup {None}
  /\ pc # "down" => reported # None
  /\ pc \in {"running", "stopped"} => port # None

Init ==
  /\ privileges \in {"root", "unprivileged"}
  /\ pc = "down" /\ op = "none" /\ at = "none" /\ payload = "none"
  /\ explicit = FALSE /\ reported = None /\ port = None
  /\ dir = {} /\ dirpw = None /\ file = None /\ torn = FALSE
  /\ installed = FALSE /\ initdb = None /\ orphan = FALSE /\ server = None

HasClusterMarker == "PG_VERSION" \in dir

\* What is left when a temporary value is dropped: of the directory what could not be
\* removed, or had not been when the process was killed; then the password file goes,
\* whatever became of the directory.  With the directory goes postmaster.pid.
RemoveTemporary ==
  /\ dir' \in SUBSET dir
  /\ file' \in {None, file}
  /\ torn' = (file' = None /\ dir' # {})
  /\ dir' = {} => server' = None

\* The PostgreSQL value is dropped, here or in the worker: a server that runs is stopped,
\* if that works, and errors are ignored.
DropValue ==
  /\ server' \in {None, server}
  /\ IF Root THEN UNCHANGED <<dir, file, torn>> ELSE RemoveTemporary

-----------------------------------------------------------------------------
(* Bootstrap.                                                              *)

\* stale_password's discard_orphaned_password_file.
Discard == IF HasClusterMarker THEN file ELSE None

\* read_stored_password: a file that is missing is an error.
StoredPassword == {file} \ {None}

\* reuse_existing_password: PG_PASSWORD wins; a cluster's password is read back; else
\* the generated one stays.
Reuse(generated) ==
  \/ explicit' /\ reported' = PgPassword
  \/ ~explicit' /\ HasClusterMarker /\ reported' \in StoredPassword
  \/ ~explicit' /\ ~HasClusterMarker /\ reported' = generated

\* ensure_root_port binds port 0 for a free port; in process the server picks one.
EnsureRootPort(free) == IF Root THEN free ELSE None

\* prepare_bootstrap, with the caller's password or without.
Bootstrap(e, generated, free) ==
  /\ pc = "down" /\ op = "none" /\ ~orphan
  /\ generated \notin {file, dirpw} /\ free # server
  /\ explicit' = e
  /\ Reuse(generated)
  /\ port' = EnsureRootPort(free)
  /\ file' = Discard
  /\ pc' = "bootstrapped"
  /\ UNCHANGED <<privileges, op, at, payload, dir, dirpw, torn, installed, running>>

\* The password file or a tree cannot be handed to nobody: the stale file is gone by then.
BootstrapFails ==
  /\ pc = "down" /\ op = "none" /\ ~orphan /\ Root
  /\ file' = Discard
  /\ UNCHANGED <<session, op, at, payload, dir, dirpw, torn, installed, running>>

-----------------------------------------------------------------------------
(* Dispatching an operation, and how it ends for the session.              *)

Operation ==
  CASE pc = "bootstrapped" -> "setup"
    [] pc = "ready" -> "start"
    [] pc = "running" -> "stop"
    [] pc = "stopped" -> "cleanup"

\* Where the operation begins: pg_worker's Start sets up first.
First(o) ==
  CASE o = "cleanup" -> "removing"
    [] o = "start" /\ ~Root -> "pgctl"
    [] OTHER -> "begin"

\* invoke_unprivileged: in process.
RunInProcess ==
  /\ pc # "down" /\ op = "none" /\ ~Root
  /\ op' = Operation /\ at' = First(Operation)
  /\ UNCHANGED <<session, payload, dir, dirpw, file, torn, installed, running>>

\* As root: write_payload, with the settings and the environment in it,
WritePayload ==
  /\ pc # "down" /\ op = "none" /\ Root
  /\ op' = Operation /\ at' = "spawning"
  /\ payload' = "live"
  /\ UNCHANGED <<session, dir, dirpw, file, torn, installed, running>>

\* and the worker is spawned; it becomes nobody before exec.
Spawn ==
  /\ at = "spawning"
  /\ at' = First(op)
  /\ UNCHANGED <<session, op, payload, dir, dirpw, file, torn, installed, running>>

\* Fault: only a worker that exits by itself has its payload removed.
CloseAtExit == payload' = IF payload = "live" /\ at = "ok" THEN "none" ELSE payload

\* close_payload.
Close == payload' = IF payload = "live" THEN "none" ELSE payload

\* The payload cannot be handed to nobody, or the spawn or the demotion fails.  A
\* cleanup goes on in process.
SpawnFails ==
  /\ at = "spawning"
  /\ Close
  /\ IF op = "cleanup"
     THEN at' = "removing" /\ UNCHANGED <<pc, op>>
     ELSE pc' = "down" /\ op' = "none" /\ at' = "none"
  /\ UNCHANGED <<privileges, explicit, reported, port, dir, dirpw, file, torn, installed, running>>

\* The session's next phase; an operation whose owner was killed has none.
After ==
  IF pc = "down" THEN "down"
  ELSE CASE op = "setup" -> "ready"
         [] op = "start" -> "running"
         [] op = "stop" -> "stopped"
         [] op = "cleanup" -> "down"

\* Fault: the port that was allocated before the start is kept.
RefreshPortNot == port

\* refresh_worker_port reads postmaster.pid; in process the settings say it.
RefreshPort == IF op = "start" /\ Root THEN server ELSE port

\* The operation succeeded: handle_exit, or the future's result.  A worker that has set
\* up or stopped drops its value when it ends, and only run_start_op forgets it; in
\* process it is dropped once the server is stopped, before or after the cleanup.
Succeeds ==
  /\ at = "ok"
  /\ Close
  /\ port' = RefreshPort
  /\ pc' = After
  /\ op' = "none" /\ at' = "none"
  /\ IF op = "stop" \/ (op = "setup" /\ Root)
     THEN DropValue
     ELSE UNCHANGED <<dir, file, torn, server>>
  /\ UNCHANGED <<privileges, explicit, reported, dirpw, installed, initdb, orphan>>

\* It failed: the session ends with the error, and the value is dropped.
Fails ==
  /\ at = "failed"
  /\ Close
  /\ DropValue
  /\ pc' = "down" /\ op' = "none" /\ at' = "none"
  /\ UNCHANGED <<privileges, explicit, reported, port, dirpw, installed, initdb, orphan>>

\* A server needs the binaries and these files; initdb's last steps it can do without.
Startable == server = None /\ installed /\ DirFiles \ {"pg_authid"} \subseteq dir

\* Fault: a future that is dropped leaves its initdb running.
LeaveInitdb == UNCHANGED <<initdb, orphan>>

\* CancelOnDrop: initdb is killed with the future that waits for it.
CancelInitdb == initdb' = None /\ UNCHANGED orphan

\* Where the time may be over: as root also while the worker's value is dropped.
InTime ==
  op # "cleanup" /\ (at \in {"begin", "initdb", "pgctl"} \/ (Root /\ at \in {"ok", "failed"}))

\* A pg_ctl under way may still finish.
LateServer ==
  {server}
    \cup (IF at = "pgctl" /\ Startable THEN {q \in Ports : port \in {None, q}} ELSE {})
    \cup (IF op = "stop" \/ at \in {"ok", "failed"} THEN {None} ELSE {})

\* The time is over.  As root the worker is killed, and only the worker: its initdb
\* goes on.  In process the future is dropped, and then the value.
TimesOut ==
  /\ pc # "down" /\ InTime
  /\ Close
  /\ IF Root
     THEN /\ server' \in LateServer
          /\ orphan' = (initdb # None)
          /\ UNCHANGED <<dir, file, torn, initdb>>
     ELSE /\ server' \in LateServer \cup {None}
          /\ CancelInitdb
          /\ RemoveTemporary
  /\ pc' = "down" /\ op' = "none" /\ at' = "none"
  /\ UNCHANGED <<privileges, explicit, reported, port, dirpw, installed>>

\* A cleanup's worker is killed, or fails; the session removes what is left itself.
CleanupWorkerEnds ==
  /\ pc # "down" /\ op = "cleanup" /\ at # "spawning" /\ payload = "live"
  /\ Close
  /\ UNCHANGED <<session, op, at, dir, dirpw, file, torn, installed, running>>

-----------------------------------------------------------------------------
(* Setup and start.                                                        *)

\* PostgreSQL::status.
Status ==
  IF server # None THEN "Started"
  ELSE IF "postgresql.conf" \in dir THEN "Stopped"
  ELSE IF installed THEN "Installed"
  ELSE "NotInstalled"

IsSetupComplete == HasClusterMarker /\ Status # "NotInstalled"

\* Fault: whatever is there is reset.
RecoverAlways == {}

\* recover_invalid_data_dir.
Recover == IF "pg_filenode.map" \notin dir THEN {} ELSE dir

\* The worker's run_postgres_setup: nothing to do, so it says.
SkipSetup ==
  /\ op \in {"setup", "start"} /\ at = "begin" /\ Root /\ IsSetupComplete
  /\ at' = IF op = "setup" THEN "ok" ELSE "pgctl"
  /\ UNCHANGED <<session, op, payload, dir, dirpw, file, torn, installed, running>>

\* run_setup, and in process setup_disposable: initialize_without_sync with installed
\* binaries, else PostgreSQL::setup, which installs them first.  Both leave a
\* directory with postgresql.conf as it is, write the password file if there is none
\* and pass it to initdb, which refuses a directory that is not empty.
RunSetup ==
  /\ op \in {"setup", "start"} /\ at = "begin" /\ ~(Root /\ IsSetupComplete)
  /\ dir' = IF Root THEN Recover ELSE dir
  /\ installed' = TRUE
  /\ \/ /\ "postgresql.conf" \in dir'
        /\ at' = IF op = "setup" THEN "ok" ELSE "pgctl"
        /\ UNCHANGED <<dirpw, file, torn, initdb>>
     \/ /\ "postgresql.conf" \notin dir' /\ dir' # {}
        /\ at' = "failed"
        /\ UNCHANGED <<dirpw, file, torn, initdb>>
     \/ /\ dir' = {}
        /\ file' = IF file = None THEN reported ELSE file
        /\ initdb' = file' /\ dirpw' = file' /\ torn' = FALSE
        /\ at' = "initdb"
  /\ UNCHANGED <<session, op, payload, orphan, server>>

\* The download or the extraction fails.
InstallFails ==
  /\ op \in {"setup", "start"} /\ at = "begin" /\ ~installed /\ ~(Root /\ IsSetupComplete)
  /\ dir' = IF Root THEN Recover ELSE dir
  /\ at' = "failed"
  /\ UNCHANGED <<session, op, payload, dirpw, file, torn, installed, running>>

\* initdb writes its next file,
InitdbWrites ==
  /\ initdb # None /\ ~Finished
  /\ \E i \in DOMAIN InitdbOrder :
       /\ InitdbOrder[i] \notin dir /\ \A j \in 1..(i - 1) : InitdbOrder[j] \in dir
       /\ dir' = dir \cup {InitdbOrder[i]}
  /\ UNCHANGED <<session, op, at, payload, dirpw, file, torn, installed, running>>

\* and ends, for whoever waits for it.
InitdbEnds ==
  /\ initdb # None /\ Finished
  /\ initdb' = None /\ orphan' = FALSE
  /\ at' = IF at = "initdb" THEN (IF op = "setup" THEN "ok" ELSE "pgctl") ELSE at
  /\ UNCHANGED <<session, op, payload, dir, dirpw, file, torn, installed, server>>

\* run_to_completion kills it at settings.timeout, or somebody else does: what it has
\* written stays.
InitdbKilled ==
  /\ initdb # None
  /\ initdb' = None /\ orphan' = FALSE
  /\ at' = IF at = "initdb" THEN "failed" ELSE at
  /\ UNCHANGED <<session, op, payload, dir, dirpw, file, torn, installed, server>>

\* Fault: the port the server has picked does not reach the settings.
StartPortKept(free) ==
  /\ at = "pgctl" /\ Startable /\ free = (IF port = None THEN free ELSE port)
  /\ server' = free /\ at' = "ok"
  /\ UNCHANGED <<session, op, payload, dir, dirpw, file, torn, installed, initdb, orphan>>

\* start_if_not_started: a server that is running is taken over by the worker; in
\* process pg_ctl refuses to start another one.
Start(free) ==
  /\ at = "pgctl"
  /\ \/ /\ Startable /\ free = (IF port = None THEN free ELSE port)
        /\ server' = free /\ port' = free
        /\ at' = "ok"
     \/ /\ at' = IF Root /\ server # None THEN "ok" ELSE "failed"
        /\ UNCHANGED <<server, port>>
  /\ UNCHANGED <<privileges, pc, op, payload, explicit, reported, dir, dirpw, file, torn, installed,
                 initdb, orphan>>

-----------------------------------------------------------------------------
(* Stop, cleanup, and what happens from outside.                           *)

\* execute_stop, where a missing postmaster.pid counts as stopped.
Stop ==
  /\ op = "stop" /\ at = "begin"
  /\ \/ server' = None /\ at' = "ok"
     \/ at' = "failed" /\ UNCHANGED server
  /\ UNCHANGED <<session, op, payload, dir, dirpw, file, torn, installed, initdb, orphan>>

\* remove_dir_all, in any order.
RemoveEntry(f) ==
  /\ op = "cleanup" /\ at = "removing" /\ f \in dir
  /\ dir' = dir \ {f}
  /\ UNCHANGED <<session, op, at, payload, dirpw, file, torn, installed, running>>

\* A full cleanup goes on to the binaries; a removal that fails is only logged.
CleanupDone(full) ==
  /\ op = "cleanup" /\ at = "removing"
  /\ installed' = IF full THEN FALSE ELSE installed
  /\ at' = "ok"
  /\ UNCHANGED <<session, op, payload, dir, dirpw, file, torn, running>>

\* `run` ends after the setup, where in process the value is dropped (as it is when the
\* hook after a start's setup fails), and CleanupMode::None after the stop.
Leave ==
  /\ pc \in {"ready", "stopped"} /\ op = "none"
  /\ pc' = "down"
  /\ IF pc = "ready" /\ ~Root THEN DropValue ELSE UNCHANGED <<dir, file, torn, server>>
  /\ UNCHANGED <<privileges, explicit, reported, port, op, at, payload, dirpw, installed,
                 initdb, orphan>>

\* Another cluster's full cleanup removes the binaries.
RemoveBinaries ==
  /\ installed /\ op = "none" /\ server = None /\ ~orphan
  /\ installed' = FALSE
  /\ UNCHANGED <<session, op, at, payload, dir, dirpw, file, torn, running>>

\* The session's process is killed.  A worker works on; so does an initdb in process.
OwnerKilled ==
  /\ pc # "down"
  /\ pc' = "down"
  /\ payload' = IF payload = "live" THEN "leaked" ELSE payload
  /\ IF Root /\ at # "spawning"
     THEN UNCHANGED <<op, at, orphan>>
     ELSE op' = "none" /\ at' = "none" /\ orphan' = (initdb # None)
  /\ UNCHANGED <<privileges, explicit, reported, port, dir, dirpw, file, torn, installed,
                 initdb, server>>

\* Its process group is killed, the worker and initdb with it.
GroupKilled ==
  /\ pc # "down" \/ op # "none" \/ initdb # None
  /\ pc' = "down" /\ op' = "none" /\ at' = "none"
  /\ initdb' = None /\ orphan' = FALSE
  /\ payload' = IF payload = "live" THEN "leaked" ELSE payload
  /\ UNCHANGED <<privileges, explicit, reported, port, dir, dirpw, file, torn, installed, server>>

-----------------------------------------------------------------------------
Next ==
  \/ \E e \in BOOLEAN, g \in Generated, q \in Ports : Bootstrap(e, g, q)
  \/ BootstrapFails \/ RunInProcess \/ WritePayload \/ Spawn \/ SpawnFails \/ Succeeds \/ Fails
  \/ TimesOut \/ CleanupWorkerEnds
  \/ SkipSetup \/ RunSetup \/ InstallFails \/ InitdbWrites \/ InitdbEnds \/ InitdbKilled
  \/ \E q \in Ports : Start(q)
  \/ Stop \/ \E f \in DirFiles : RemoveEntry(f)
  \/ \E full \in BOOLEAN : CleanupDone(full)
  \/ Leave \/ RemoveBinaries \/ OwnerKilled \/ GroupKilled

Spec == Init /\ [][Next]_vars

-----------------------------------------------------------------------------
(* What a directory reused across sessions needs.                          *)

\* A directory that bootstrap takes for a cluster (PG_VERSION) always has its own
\* password in the password file: the file is never discarded, kept or rewritten at the
\* wrong moment, wherever earlier sessions, timeouts or kills have stopped
\* (password.rs, stale_password.rs, durability.rs).  Only a Drop that could not remove
\* the whole directory leaves a cluster without its file, never with another's.
StoredPasswordOpens ==
  HasClusterMarker => file = dirpw \/ (torn /\ file = None)

\* A session that runs reports the port its server listens on, be it its own or one left
\* by a start that timed out, and a password that opens it unless the caller gave one
\* (worker_invoker, pg_worker's start, refresh_worker_port).
RunningReachable ==
  pc = "running" /\ op = "none" =>
    /\ server # None /\ port = server
    /\ Finished /\ ~explicit => reported = dirpw

\* The session ends, or its server is stopped.
DropsValue == pc # "down" /\ pc' \in {"down", "stopped"} /\ pc' # pc

\* As root nothing is removed under a server, and what initdb got to pg_filenode.map only
\* by a cleanup: neither the recovery of an invalid directory nor the end of a session
\* takes anything else (pg_worker.rs, shutdown.rs, prepare/root.rs).  Unprivileged the
\* directory goes with the value, which is at the end of the session or when its server
\* is stopped, and at no other time.
DataKept ==
  [][(server # None \/ (op # "cleanup" /\ "pg_filenode.map" \in dir)) =>
       dir \subseteq dir' \/ (~Root /\ DropsValue)]_vars

\* The payload, which holds the password, is gone when the operation is, however that
\* ended, unless the process was killed (worker_process/mod.rs, run_worker).
PayloadClosed == payload = "live" => op # "none" /\ pc # "down"

\* docs/v0-5-0-migration-guide.md: pg_worker "detects invalid partial state and performs
\* recovery before re-running setup".  So a directory whose Setup succeeded is whole.
SetupRecovers ==
  Root /\ pc = "ready" /\ initdb = None => Finished
=============================================================================
