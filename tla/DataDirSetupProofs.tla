-------------------------- MODULE DataDirSetupProofs --------------------------
(***************************************************************************)
(* What holds of DataDirSetup for any passwords and ports.  One induction  *)
(* carries all of it: which phase an operation belongs to (PhaseInv), who  *)
(* waits for a running initdb and with which password (InitdbInv), whose   *)
(* password the session reports (ReportInv), and that a server has its     *)
(* files and is gone before a cleanup (ServerInv).                         *)
(***************************************************************************)
EXTENDS DataDirSetup, TLAPS

\* An operation belongs to its phase, unless the owner was killed meanwhile, which only
\* a worker survives.
PhaseInv ==
  /\ op # "none" /\ pc = "down" => Root
  /\ op = "setup" => pc \in {"bootstrapped", "down"}
  /\ op = "start" => pc \in {"ready", "down"}
  /\ op = "stop" => pc \in {"running", "down"}
  /\ op = "cleanup" => pc \in {"stopped", "down"}
  /\ at = "pgctl" => op = "start"
  /\ at = "initdb" => op \in {"setup", "start"}

\* A running initdb has the password in the file; the session or a worker waits for
\* it, or nobody does and there is no session.
InitdbInv ==
  /\ initdb # None => file = initdb /\ dirpw = initdb /\ (orphan \/ at = "initdb")
  /\ orphan => op = "none" /\ pc = "down"
  /\ dir # {} => dirpw # None

\* Without PG_PASSWORD the session's password is the one in the file, if there is one,
\* and the cluster's, if there is a cluster.
ReportInv ==
  pc # "down" /\ ~explicit =>
    file \in {None, reported} /\ (HasClusterMarker => reported = dirpw)

\* As root a server has the files that say so; it is there after a start, on the port
\* the session has or will read, and gone after a stop.
ServerInv ==
  /\ Root /\ server # None => "pg_filenode.map" \in dir
  /\ op = "start" /\ at = "ok" => server # None /\ (~Root => port = server)
  /\ pc = "running" /\ op = "none" => server # None /\ port = server
  /\ (op = "stop" /\ at = "ok") \/ pc = "stopped" \/ op = "cleanup" => server = None

IndInv ==
  /\ TypeOK
  /\ PhaseInv
  /\ InitdbInv
  /\ ReportInv
  /\ ServerInv
  /\ StoredPasswordOpens
  /\ PayloadClosed

-----------------------------------------------------------------------------
(* The operators with a CASE, for each phase.                              *)

USE SetupAssumption DEF Passwords, Root, HasClusterMarker

\* The operation of each phase, and its first step.
LEMMA OperationPhase ==
  ASSUME pc \in {"bootstrapped", "ready", "running", "stopped"}
  PROVE  /\ pc = "bootstrapped" => Operation = "setup"
         /\ pc = "ready" => Operation = "start"
         /\ pc = "running" => Operation = "stop"
         /\ pc = "stopped" => Operation = "cleanup"
BY DEF Operation

\* Where an operation begins.
LEMMA FirstStep ==
  ASSUME NEW o \in {"setup", "start", "stop", "cleanup"}
  PROVE  /\ First(o) \in {"begin", "pgctl", "removing"}
         /\ First(o) = "pgctl" => o = "start"
         /\ First(o) = "removing" => o = "cleanup"
BY DEF First

\* Where a session goes on.
LEMMA AfterPhase ==
  ASSUME pc \in {"down", "bootstrapped", "ready", "running", "stopped"},
         op \in {"setup", "start", "stop", "cleanup"}
  PROVE  /\ pc = "down" \/ op = "cleanup" => After = "down"
         /\ pc # "down" => /\ op = "setup" => After = "ready"
                           /\ op = "start" => After = "running"
                           /\ op = "stop" => After = "stopped"
BY DEF After

\* A server starts only where the file is that the recovery looks for.
LEMMA ServerFiles == Startable => "pg_filenode.map" \in dir /\ server = None
BY DEF Startable, DirFiles, InitdbOrder

\* What is there after a value may have been dropped.
Dropped ==
  /\ server' \in {None, server}
  /\ dir' \subseteq dir /\ file' \in {None, file}
  /\ torn' \in BOOLEAN
  /\ Root => dir' = dir /\ file' = file /\ torn' = torn
  /\ \/ file' = file /\ (torn => torn' \/ file # None \/ dir' = {})
     \/ file' = None /\ (dir' = {} \/ torn')

\* A drop leaves no more than that.
LEMMA DropLeaves ==
  ASSUME torn \in BOOLEAN, DropValue \/ UNCHANGED <<dir, file, torn, server>>
  PROVE  Dropped
<1>1. torn' \in BOOLEAN
  BY Zenon DEF DropValue, RemoveTemporary
<1>2. QED
  BY <1>1 DEF DropValue, RemoveTemporary, Dropped

-----------------------------------------------------------------------------
(* The inductive invariant.                                                *)

\* The initial states satisfy it.
LEMMA IndInit == Init => IndInv
BY DEF Init, IndInv, TypeOK, PhaseInv, InitdbInv, ReportInv, ServerInv, StoredPasswordOpens,
  PayloadClosed

\* Every step keeps it.
LEMMA IndNext == IndInv /\ [Next]_vars => IndInv'
<1> SUFFICES ASSUME IndInv, [Next]_vars PROVE IndInv'
  OBVIOUS
<1> USE DEF IndInv, TypeOK, PhaseInv, InitdbInv, ReportInv, ServerInv,
      StoredPasswordOpens, PayloadClosed
<1>1. ASSUME NEW e \in BOOLEAN, NEW g \in Generated, NEW q \in Ports, Bootstrap(e, g, q)
      PROVE IndInv'
  BY <1>1 DEF Bootstrap, Reuse, StoredPassword, EnsureRootPort, Discard, session, running
<1>2. CASE BootstrapFails
  BY <1>2 DEF BootstrapFails, Discard, session, running
<1>3. CASE RunInProcess
  BY <1>3, OperationPhase, FirstStep DEF RunInProcess, session, running
<1>4. CASE WritePayload
  BY <1>4, OperationPhase DEF WritePayload, session, running
<1>5. CASE Spawn
  BY <1>5, FirstStep DEF Spawn, session, running
<1>6. CASE SpawnFails
  BY <1>6 DEF SpawnFails, Close, session, running
<1>7. CASE Succeeds
  <2>1. at = "ok" /\ initdb = None
    BY <1>7 DEF Succeeds
  <2>2. Dropped
    BY <1>7, DropLeaves DEF Succeeds, Dropped
  <2>3. /\ explicit' = explicit /\ installed' = installed /\ orphan' = orphan
        /\ UNCHANGED <<privileges, reported, dirpw, initdb>>
        /\ op' = "none" /\ at' = "none" /\ pc' = After /\ port' = RefreshPort
        /\ payload' = IF payload = "live" THEN "none" ELSE payload
    BY <1>7 DEF Succeeds, Close
  <2>4. op = "start" => server' = server
    BY <1>7 DEF Succeeds
  <2>5. QED
    BY <2>1, <2>2, <2>3, <2>4, AfterPhase DEF RefreshPort, Dropped
<1>8. CASE Fails
  <2>1. at = "failed" /\ initdb = None
    BY <1>8 DEF Fails
  <2>2. Dropped
    BY <1>8, DropLeaves DEF Fails
  <2>3. QED
    BY <1>8, <2>1, <2>2 DEF Fails, Close, Dropped
<1>9. CASE TimesOut
  <2>1. /\ explicit' \in BOOLEAN /\ installed' \in BOOLEAN /\ orphan' \in BOOLEAN
        /\ torn' \in BOOLEAN
    BY <1>9, Zenon DEF TimesOut, CancelInitdb, RemoveTemporary
  <2>2. server' \in Ports \cup {None}
    BY <1>9 DEF TimesOut, LateServer
  <2>3. CASE Root
    <3>1. server' # None => "pg_filenode.map" \in dir
      BY <1>9, <2>3, ServerFiles DEF TimesOut, LateServer
    <3>2. /\ UNCHANGED <<privileges, explicit, reported, port, dir, dirpw, file, torn,
                        installed, initdb>>
          /\ initdb # None => orphan'
      BY <1>9, <2>3, Zenon DEF TimesOut
    <3>3. pc' = "down" /\ op' = "none" /\ at' = "none" /\ payload' # "live"
          /\ payload' \in {"none", "live", "leaked"}
      BY <1>9 DEF TimesOut, Close
    <3>4. QED
      BY <2>1, <2>2, <2>3, <3>1, <3>2, <3>3
  <2>4. CASE ~Root
    <3>1. /\ dir' \subseteq dir /\ file' \in {None, file}
          /\ file' = None /\ dir' # {} => torn'
          /\ initdb' = None /\ orphan' = orphan
      BY <1>9, <2>4 DEF TimesOut, RemoveTemporary, CancelInitdb
    <3>2. QED
      BY <1>9, <2>1, <2>2, <2>4, <3>1 DEF TimesOut, Close, InTime
  <2>5. QED
    BY <2>3, <2>4
<1>10. CASE CleanupWorkerEnds
  BY <1>10 DEF CleanupWorkerEnds, Close, session, running
<1>11. CASE SkipSetup
  BY <1>11 DEF SkipSetup, IsSetupComplete, session, running
<1>12. CASE RunSetup
  <2>1. /\ explicit' \in BOOLEAN /\ installed' \in BOOLEAN /\ orphan' \in BOOLEAN
        /\ torn' \in BOOLEAN
    BY <1>12, Zenon DEF RunSetup, session
  <2>2. initdb = None /\ op \in {"setup", "start"} /\ at = "begin"
    BY <1>12 DEF RunSetup
  <2>3. /\ dir' \subseteq dir
        /\ Root /\ server # None => "pg_filenode.map" \in dir'
    BY <1>12 DEF RunSetup, Recover
  <2>4. UNCHANGED <<session, op, payload, orphan, server>>
    BY <1>12 DEF RunSetup
  <2>5. CASE /\ UNCHANGED <<dirpw, file, torn, initdb>>
             /\ at' = "failed" \/ at' = (IF op = "setup" THEN "ok" ELSE "pgctl")
    BY <2>1, <2>2, <2>3, <2>4, <2>5 DEF session
  <2>6. CASE dir' = {} /\ file' = (IF file = None THEN reported ELSE file)
             /\ initdb' = file' /\ dirpw' = file' /\ at' = "initdb"
    <3>1. file' \in Passwords \cup {None} /\ initdb' = file' /\ dirpw' = file'
      BY <2>6
    <3>2. TypeOK'
      BY <2>1, <2>2, <2>3, <2>4, <2>6, <3>1 DEF session
    <3>3. PhaseInv' /\ InitdbInv' /\ StoredPasswordOpens' /\ PayloadClosed'
      BY <2>2, <2>3, <2>4, <2>6, <3>1 DEF session
    <3>4. ReportInv' /\ ServerInv'
      BY <2>2, <2>3, <2>4, <2>6, <3>1 DEF session
    <3>5. QED
      BY <3>2, <3>3, <3>4
  <2>7. QED
    BY <1>12, <2>5, <2>6 DEF RunSetup
<1>13. CASE InstallFails
  BY <1>13 DEF InstallFails, IsSetupComplete, Recover, session, running
<1>14. CASE InitdbWrites
  <2>1. dir \subseteq dir' /\ dir' \subseteq DirFiles
    BY <1>14 DEF InitdbWrites, DirFiles
  <2>2. QED
    BY <1>14, <2>1 DEF InitdbWrites, session, running
<1>15. CASE InitdbEnds
  <2>1. explicit' \in BOOLEAN /\ installed' \in BOOLEAN /\ orphan' \in BOOLEAN
    BY <1>15, Zenon DEF InitdbEnds, session, running
  <2>2. QED
    BY <1>15, <2>1 DEF InitdbEnds, session, running
<1>16. CASE InitdbKilled
  <2>1. explicit' \in BOOLEAN /\ installed' \in BOOLEAN /\ orphan' \in BOOLEAN
    BY <1>16, Zenon DEF InitdbKilled, session, running
  <2>2. QED
    BY <1>16, <2>1 DEF InitdbKilled, session, running
<1>17. ASSUME NEW q \in Ports, Start(q) PROVE IndInv'
  <2>1. explicit' \in BOOLEAN /\ installed' \in BOOLEAN /\ orphan' \in BOOLEAN
    BY <1>17, Zenon DEF Start, session, running
  <2>2. QED
    BY <1>17, <2>1, ServerFiles DEF Start, session, running
<1>18. CASE Stop
  BY <1>18 DEF Stop, session, running
<1>19. ASSUME NEW f \in DirFiles, RemoveEntry(f) PROVE IndInv'
  BY <1>19 DEF RemoveEntry, session, running
<1>20. ASSUME NEW full \in BOOLEAN, CleanupDone(full) PROVE IndInv'
  <2>1. installed' \in BOOLEAN
    BY <1>20, Zenon DEF CleanupDone
  <2>2. UNCHANGED <<session, op, payload, dir, dirpw, file, torn, running>>
        /\ at' = "ok" /\ op = "cleanup"
    BY <1>20 DEF CleanupDone
  <2>3. QED
    BY <2>1, <2>2 DEF session, running
<1>21. CASE Leave
  <2>1. initdb = None
    BY <1>21 DEF Leave
  <2>2. Dropped
    BY <1>21, DropLeaves DEF Leave, Dropped
  <2>3. QED
    BY <1>21, <2>1, <2>2 DEF Leave, Dropped
<1>22. CASE RemoveBinaries
  <2>1. explicit' \in BOOLEAN /\ installed' \in BOOLEAN /\ orphan' \in BOOLEAN
    BY <1>22, Zenon DEF RemoveBinaries, session, running
  <2>2. QED
    BY <1>22, <2>1 DEF RemoveBinaries, session, running
<1>23. CASE OwnerKilled
  <2>1. explicit' \in BOOLEAN /\ installed' \in BOOLEAN /\ orphan' \in BOOLEAN
    BY <1>23, Zenon DEF OwnerKilled, session, running
  <2>2. QED
    BY <1>23, <2>1 DEF OwnerKilled, session, running
<1>24. CASE GroupKilled
  <2>1. explicit' \in BOOLEAN /\ installed' \in BOOLEAN /\ orphan' \in BOOLEAN
    BY <1>24, Zenon DEF GroupKilled, session, running
  <2>2. QED
    BY <1>24, <2>1 DEF GroupKilled, session, running
<1>25. CASE UNCHANGED vars
  BY <1>25 DEF vars
<1> HIDE DEF IndInv
<1>26. QED
  BY <1>1, <1>2, <1>3, <1>4, <1>5, <1>6, <1>7, <1>8, <1>9, <1>10, <1>11, <1>12,
     <1>13, <1>14, <1>15, <1>16, <1>17, <1>18, <1>19, <1>20, <1>21, <1>22, <1>23, <1>24, <1>25
  DEF Next

\* So it holds throughout.
LEMMA Invariance == Spec => []IndInv
BY IndInit, IndNext, PTL DEF Spec

-----------------------------------------------------------------------------
(* The theorems.                                                           *)

\* Type correctness: a session has a password, and a port once its server is up.
THEOREM SetupTypeCorrect == Spec => []TypeOK
<1>1. IndInv => TypeOK
  BY DEF IndInv
<1>2. QED
  BY <1>1, Invariance, PTL

\* Whatever bootstrap takes for a cluster has its own password stored, wherever earlier
\* sessions were cut short.
THEOREM StoredPasswordRight == Spec => []StoredPasswordOpens
<1>1. IndInv => StoredPasswordOpens
  BY DEF IndInv
<1>2. QED
  BY <1>1, Invariance, PTL

\* A running session reports its server's port and the cluster's password.
THEOREM SessionsReachable == Spec => []RunningReachable
<1>1. IndInv => RunningReachable
  <2> SUFFICES ASSUME IndInv, pc = "running", op = "none"
               PROVE  server # None /\ port = server /\ (Finished /\ ~explicit => reported = dirpw)
    BY DEF RunningReachable
  <2>1. server # None /\ port = server
    BY DEF IndInv, ServerInv
  <2>2. ASSUME Finished, ~explicit PROVE reported = dirpw
    <3>1. "PG_VERSION" \in dir
      BY <2>2 DEF Finished, DirFiles, InitdbOrder
    <3>2. QED
      BY <2>2, <3>1 DEF IndInv, ReportInv
  <2>3. QED
    BY <2>1, <2>2
<1>2. QED
  BY <1>1, Invariance, PTL

\* No operation leaves its payload behind, unless the process was killed.
THEOREM PayloadsClosed == Spec => []PayloadClosed
<1>1. IndInv => PayloadClosed
  BY DEF IndInv
<1>2. QED
  BY <1>1, Invariance, PTL

\* As root a step that removes a file from the directory is the cleanup's, with no
\* server, or the recovery of a directory that no server has used; unprivileged it is the
\* cleanup's or drops the value.
LEMMA DataStep == IndInv /\ [Next]_vars =>
  (server # None \/ (op # "cleanup" /\ "pg_filenode.map" \in dir) =>
     dir \subseteq dir' \/ (~Root /\ DropsValue))
<1> SUFFICES ASSUME IndInv, [Next]_vars,
                    server # None \/ (op # "cleanup" /\ "pg_filenode.map" \in dir)
             PROVE  dir \subseteq dir' \/ (~Root /\ DropsValue)
  OBVIOUS
<1>0. /\ Root => "pg_filenode.map" \in dir
      /\ op # "cleanup"
      /\ torn \in BOOLEAN
  BY DEF IndInv, TypeOK, ServerInv
<1>1. ASSUME NEW e \in BOOLEAN, NEW g \in Generated, NEW q \in Ports, Bootstrap(e, g, q)
      PROVE dir \subseteq dir' \/ (~Root /\ DropsValue)
  BY <1>1 DEF Bootstrap
<1>2. CASE BootstrapFails
  BY <1>2 DEF BootstrapFails
<1>3. CASE RunInProcess
  BY <1>3 DEF RunInProcess
<1>4. CASE WritePayload
  BY <1>4 DEF WritePayload
<1>5. CASE Spawn
  BY <1>5 DEF Spawn
<1>6. CASE SpawnFails
  BY <1>6 DEF SpawnFails
<1>7. CASE Succeeds
  <2>1. CASE Root
    BY <1>7, <2>1 DEF Succeeds, DropValue
  <2>2. CASE ~Root /\ op = "stop"
    <3>1. pc = "running"
      BY <1>7, <2>2 DEF Succeeds, IndInv, TypeOK, PhaseInv
    <3>2. pc' = "stopped"
      BY <1>7, <2>2, <3>1 DEF Succeeds, After
    <3>3. QED
      BY <2>2, <3>1, <3>2 DEF DropsValue
  <2>3. CASE ~Root /\ op # "stop"
    BY <1>7, <2>3 DEF Succeeds
  <2>4. QED
    BY <2>1, <2>2, <2>3
<1>8. CASE Fails
  <2>1. op # "none"
    BY <1>8 DEF Fails, IndInv, TypeOK
  <2>2. QED
    BY <1>8, <2>1 DEF Fails, DropValue, DropsValue, IndInv, PhaseInv
<1>9. CASE TimesOut
  BY <1>9 DEF TimesOut, DropsValue
<1>10. CASE CleanupWorkerEnds
  BY <1>10 DEF CleanupWorkerEnds
<1>11. CASE SkipSetup
  BY <1>11 DEF SkipSetup
<1>12. CASE RunSetup
  BY <1>12, <1>0 DEF RunSetup, Recover
<1>13. CASE InstallFails
  BY <1>13, <1>0 DEF InstallFails, Recover
<1>14. CASE InitdbWrites
  BY <1>14 DEF InitdbWrites
<1>15. CASE InitdbEnds
  BY <1>15 DEF InitdbEnds
<1>16. CASE InitdbKilled
  BY <1>16 DEF InitdbKilled
<1>17. ASSUME NEW q \in Ports, Start(q) PROVE dir \subseteq dir' \/ (~Root /\ DropsValue)
  BY <1>17 DEF Start
<1>18. CASE Stop
  BY <1>18 DEF Stop
<1>19. ASSUME NEW f \in DirFiles, RemoveEntry(f) PROVE dir \subseteq dir' \/ (~Root /\ DropsValue)
  BY <1>19, <1>0 DEF RemoveEntry
<1>20. ASSUME NEW full \in BOOLEAN, CleanupDone(full)
      PROVE dir \subseteq dir' \/ (~Root /\ DropsValue)
  BY <1>20 DEF CleanupDone
<1>21. CASE Leave
  BY <1>21 DEF Leave, DropsValue
<1>22. CASE RemoveBinaries
  BY <1>22 DEF RemoveBinaries
<1>23. CASE OwnerKilled
  BY <1>23 DEF OwnerKilled
<1>24. CASE GroupKilled
  BY <1>24 DEF GroupKilled
<1>25. CASE UNCHANGED vars
  BY <1>25 DEF vars
<1>26. QED
  BY <1>1, <1>2, <1>3, <1>4, <1>5, <1>6, <1>7, <1>8, <1>9, <1>10, <1>11, <1>12,
     <1>13, <1>14, <1>15, <1>16, <1>17, <1>18, <1>19, <1>20, <1>21, <1>22, <1>23, <1>24, <1>25
  DEF Next

\* Nothing is removed under a server and the recovery spares what a server can use, but
\* for the end of an unprivileged session, which drops the value.
THEOREM DataSafe == Spec => DataKept
<1>1. IndInv /\ [Next]_vars =>
        [server # None \/ (op # "cleanup" /\ "pg_filenode.map" \in dir) =>
           dir \subseteq dir' \/ (~Root /\ DropsValue)]_vars
  BY DataStep
<1>2. QED
  BY <1>1, Invariance, PTL DEF Spec, DataKept
===============================================================================
