---------------------------- MODULE SharedService ----------------------------
(***************************************************************************)
(* What shared_cluster_handle() and shared_cluster() promise, without the  *)
(* mutexes, retries, scopes, guards and registrations that keep the        *)
(* promise.  One caller at a time starts the server of a singleton; it is  *)
(* published while it is up and the exit hook is armed, and from then on   *)
(* the process neither starts another nor stops this one before its exit.  *)
(* Only a caller that leaves no server behind may let the next one try.    *)
(***************************************************************************)
CONSTANTS Singletons, Threads, None

VARIABLES
  state,     \* SharedInitState of each singleton
  maker,     \* the thread that makes it, or None
  kept,      \* singletons whose server the process has started and not stopped
  armed,     \* the exit hook is registered
  exiting    \* the process has begun to exit

serviceVars == <<state, maker, kept, armed, exiting>>

ServiceInit ==
  /\ state = [c \in Singletons |-> "Uninitialized"]
  /\ maker = [c \in Singletons |-> None]
  /\ kept = {}
  /\ armed = FALSE
  /\ exiting = FALSE

Begin(c, t) ==
  /\ state[c] = "Uninitialized" /\ maker[c] = None
  /\ maker' = [maker EXCEPT ![c] = t]
  /\ UNCHANGED <<state, kept, armed, exiting>>

\* The maker, a thread, is done with the singleton.
Made(c, outcome) ==
  /\ maker[c] # None
  /\ maker' = [maker EXCEPT ![c] = None]
  /\ state' = [state EXCEPT ![c] = outcome]
  /\ UNCHANGED <<kept, armed, exiting>>

Publish(c) ==
  /\ armed /\ (c \in kept \/ exiting)
  /\ Made(c, "Initialized")

Fail(c) == Made(c, "Failed")

\* It gives up before there is a server: the next caller tries again.
Abort(c) == c \notin kept /\ Made(c, "Uninitialized")

Start(c) ==
  /\ maker[c] # None /\ c \notin kept
  /\ kept' = kept \cup {c}
  /\ UNCHANGED <<state, maker, armed, exiting>>

\* The maker stops what it will not publish; at its exit the process stops what it has
\* published.
Stop(c) ==
  /\ maker[c] # None \/ (armed /\ exiting)
  /\ kept' = kept \ {c}
  /\ UNCHANGED <<state, maker, armed, exiting>>

Arm ==
  /\ armed' = TRUE
  /\ UNCHANGED <<state, maker, kept, exiting>>

BeginExit ==
  /\ exiting' = TRUE
  /\ UNCHANGED <<state, maker, kept, armed>>

ServiceNext ==
  \/ \E c \in Singletons :
       \/ \E t \in Threads : Begin(c, t)
       \/ Publish(c) \/ Fail(c) \/ Abort(c) \/ Start(c) \/ Stop(c)
  \/ Arm \/ BeginExit

ServiceSpec == ServiceInit /\ [][ServiceNext]_serviceVars
=============================================================================
