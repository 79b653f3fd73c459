--------------------------- MODULE TemplatePromise ---------------------------
(***************************************************************************)
(* What ensure_template_exists promises the threads of a process, without  *)
(* the lock, the queries and the rollback that keep the promise.  One      *)
(* thread at a time makes a template; nobody is told of it before it is    *)
(* made; what is made stays as it is.  A making that is cut short ends     *)
(* with no template, a complete one or a broken one that stays.            *)
(***************************************************************************)
CONSTANTS Threads, Templates

VARIABLES
  state,    \* "unmade", "ready" with all of its setup, or "broken"
  makers,   \* the threads that are making each template
  told      \* the templates each thread was told exist

promiseVars == <<state, makers, told>>

PromiseInit ==
  /\ state = [n \in Templates |-> "unmade"]
  /\ makers = [n \in Templates |-> {}]
  /\ told = [t \in Threads |-> {}]

Begin(t, n) ==
  /\ state[n] = "unmade" /\ makers[n] = {}
  /\ makers' = [makers EXCEPT ![n] = {t}]
  /\ UNCHANGED <<state, told>>

Tell(t, n) ==
  /\ state[n] # "unmade" /\ makers[n] = {}
  /\ told' = [told EXCEPT ![t] = @ \cup {n}]
  /\ UNCHANGED <<state, makers>>

\* The maker succeeds, and is told of a complete template,
Finish(t, n) ==
  /\ makers[n] = {t}
  /\ makers' = [makers EXCEPT ![n] = {}]
  /\ state' = [state EXCEPT ![n] = "ready"]
  /\ told' = [told EXCEPT ![t] = @ \cup {n}]

\* or it fails.
Abandon(t, n) ==
  /\ makers[n] = {t}
  /\ makers' = [makers EXCEPT ![n] = {}]
  /\ \E s \in {"unmade", "ready", "broken"} : state' = [state EXCEPT ![n] = s]
  /\ UNCHANGED told

\* The process dies; the templates stay, also those it was making.
Die ==
  /\ makers' = [n \in Templates |-> {}]
  /\ told' = [t \in Threads |-> {}]
  /\ \E S \in SUBSET Templates :
       state' = [n \in Templates |-> IF makers[n] = {} THEN state[n]
                                     ELSE IF n \in S THEN "ready" ELSE "broken"]

PromiseNext ==
  \/ \E t \in Threads, n \in Templates :
       Begin(t, n) \/ Tell(t, n) \/ Finish(t, n) \/ Abandon(t, n)
  \/ Die

PromiseSpec == PromiseInit /\ [][PromiseNext]_promiseVars
=============================================================================
