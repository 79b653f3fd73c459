----------------------------- MODULE ScopedEnv -----------------------------
(***************************************************************************)
(* env: scoped changes to the process environment.  ScopedEnv::apply sets  *)
(* variables and remembers their previous values, dropping the guard puts  *)
(* them back.  ENV_LOCK serialises threads; within a thread scopes nest,   *)
(* share the lock and may be dropped in any order (a ClusterGuard drops    *)
(* its worker guard, the outer scope, before its own).  A guard may also   *)
(* be forgotten (shared clusters): its thread then keeps the lock until it *)
(* ends, and its values stay in the environment.                           *)
(*                                                                         *)
(* A step of a thread is a whole enter_scope or exit_scope: no other scope *)
(* can open or close between lock and unlock.                              *)
(***************************************************************************)
EXTENDS Naturals, Sequences, FiniteSets, FiniteSetsExt

CONSTANTS
  Threads,
  Keys,         \* names of environment variables
  Values,       \* values they can have
  Unset,        \* "not in the environment"
  None,         \* no thread
  Changes,      \* lists of <<key, new value>> that apply is called with
  MaxScopes     \* bound: scopes a thread keeps on its stack

Content == Values \cup {Unset}

ASSUME EnvAssumption ==
  /\ None \notin Threads
  /\ Unset \notin Values
  /\ Changes \subseteq Seq(Keys \X Content)
  /\ MaxScopes \in Nat

VARIABLES
  env,      \* the process environment
  holder,   \* the thread whose ThreadState has the guard of ENV_LOCK
  depth,    \* ThreadState.depth
  stack,    \* ThreadState.stack; vars, what a scope applied, is a history field
  live,     \* stack indices of the ScopedEnv values not dropped so far
  base      \* history: the environment outside all scopes

vars == <<env, holder, depth, stack, live, base>>

Scope == [saved : Seq(Keys \X Content), finished : BOOLEAN, vars : Seq(Keys \X Content)]

TypeOK ==
  /\ env \in [Keys -> Content]
  /\ holder \in Threads \cup {None}
  /\ depth \in [Threads -> Nat]
  /\ stack \in [Threads -> Seq(Scope)]
  /\ live \in [Threads -> SUBSET (Nat \ {0})]
  /\ base \in [Keys -> Content]

Init ==
  /\ env \in [Keys -> Content]
  /\ holder = None
  /\ depth = [t \in Threads |-> 0]
  /\ stack = [t \in Threads |-> <<>>]
  /\ live = [t \in Threads |-> {}]
  /\ base = env

-----------------------------------------------------------------------------
(* Applying and restoring lists of variables.                              *)

\* The positions of a list of pairs that mention the key.
Mentions(pairs, k) == {j \in 1..Len(pairs) : pairs[j][1] = k}

\* The environment after the pairs are applied in order: the last one counts.
Applied(e, pairs) ==
  [k \in Keys |->
     IF Mentions(pairs, k) = {} THEN e[k] ELSE pairs[Max(Mentions(pairs, k))][2]]

\* Fault: the previous values are read after all pairs have been applied.
SavedLate(e, pairs) ==
  [j \in 1..Len(pairs) |-> <<pairs[j][1], Applied(e, pairs)[pairs[j][1]]>>]

\* Fault: a variable that is not set is saved as the empty string.
SavedAsText(e, pairs) ==
  [j \in 1..Len(pairs) |->
     LET previous == Applied(e, SubSeq(pairs, 1, j - 1))[pairs[j][1]]
     IN <<pairs[j][1], IF previous = Unset THEN "" ELSE previous>>]

\* apply_env_vars: with each pair, the value the key had just before it.
Saved(e, pairs) ==
  [j \in 1..Len(pairs) |->
     <<pairs[j][1], Applied(e, SubSeq(pairs, 1, j - 1))[pairs[j][1]]>>]

\* The scopes above position n that mention the key.
Covering(scopes, n, k) == {m \in (n + 1)..Len(scopes) : Mentions(scopes[m].saved, k) # {}}

\* Fault: a scope's pairs are restored in the order they were applied.
RestoredForward(e, scopes, n) ==
  [k \in Keys |->
     IF Covering(scopes, n, k) = {} THEN e[k]
     ELSE LET saved == scopes[Min(Covering(scopes, n, k))].saved
          IN saved[Max(Mentions(saved, k))][2]]

\* The environment after the scopes above position n are popped, each restored
\* by restore_saved in reverse order: what the lowest scope saved first counts.
Restored(e, scopes, n) ==
  [k \in Keys |->
     IF Covering(scopes, n, k) = {} THEN e[k]
     ELSE LET saved == scopes[Min(Covering(scopes, n, k))].saved
          IN saved[Min(Mentions(saved, k))][2]]

-----------------------------------------------------------------------------
(* The steps of a thread.                                                  *)

\* Fault: the lock is not taken where another thread's scope is open.
EnterUnlocked(t, pairs) ==
  /\ Len(stack[t]) < MaxScopes
  /\ holder' = t
  /\ depth' = [depth EXCEPT ![t] = @ + 1]
  /\ env' = Applied(env, pairs)
  /\ stack' = [stack EXCEPT ![t] =
       Append(@, [saved |-> Saved(env, pairs), finished |-> FALSE, vars |-> pairs])]
  /\ live' = [live EXCEPT ![t] = @ \cup {Len(stack[t]) + 1}]
  /\ UNCHANGED base

\* enter_scope: the outermost scope waits for ENV_LOCK (acquire_lock_if_needed).
Enter(t, pairs) ==
  /\ Len(stack[t]) < MaxScopes
  /\ depth[t] > 0 \/ holder = None
  /\ holder' = t
  /\ depth' = [depth EXCEPT ![t] = @ + 1]
  /\ env' = Applied(env, pairs)
  /\ stack' = [stack EXCEPT ![t] =
       Append(@, [saved |-> Saved(env, pairs), finished |-> FALSE, vars |-> pairs])]
  /\ live' = [live EXCEPT ![t] = @ \cup {Len(stack[t]) + 1}]
  /\ UNCHANGED base

\* restore_finished_scopes: what stays on the stack ends with the topmost scope
\* that is not finished.
Kept(scopes) == Max({m \in 1..Len(scopes) : ~scopes[m].finished} \cup {0})

\* Fault: the outermost scope gives the lock back, not the last one dropped.
FinishScopeByIndex(t, i) ==
  LET scopes == [stack[t] EXCEPT ![i].finished = TRUE]
  IN /\ env' = Restored(env, scopes, Kept(scopes))
     /\ stack' = [stack EXCEPT ![t] = SubSeq(scopes, 1, Kept(scopes))]
     /\ depth' = [depth EXCEPT ![t] = @ - 1]
     /\ holder' = IF i = 1 THEN None ELSE holder

\* finish_scope, and release_outermost_lock at depth zero.  The lock that
\* ensure_lock_for_restore asks for is held (NoCorruption).
FinishScope(t, i) ==
  LET scopes == [stack[t] EXCEPT ![i].finished = TRUE]
  IN /\ env' = Restored(env, scopes, Kept(scopes))
     /\ stack' = [stack EXCEPT ![t] = SubSeq(scopes, 1, Kept(scopes))]
     /\ depth' = [depth EXCEPT ![t] = @ - 1]
     /\ holder' = IF depth[t] = 1 THEN None ELSE holder

\* force_restore_and_reset: everything is restored, in any order of drops.
ForceRestoreAndReset(t) ==
  /\ stack[t] = <<>> \/ holder \in {t, None}
  /\ env' = Restored(env, stack[t], 0)
  /\ stack' = [stack EXCEPT ![t] = <<>>]
  /\ depth' = [depth EXCEPT ![t] = 0]
  /\ holder' = IF holder = t THEN None ELSE holder

\* A guard whose scope is gone or already finished, or one too many.
Corrupt(t, i) ==
  \/ depth[t] = 0
  \/ i \notin 1..Len(stack[t])
  \/ stack[t][i].finished

\* Drop of a ScopedEnv: exit_scope.
Exit(t, i) ==
  /\ i \in live[t]
  /\ live' = [live EXCEPT ![t] = @ \ {i}]
  /\ IF Corrupt(t, i) THEN ForceRestoreAndReset(t) ELSE FinishScope(t, i)
  /\ UNCHANGED base

\* A thread ends with forgotten guards: the destructor of THREAD_STATE gives
\* the lock back and restores nothing.  The name may serve a new thread.
ThreadEnds(t) ==
  /\ live[t] # {}
  /\ holder' = IF holder = t THEN None ELSE holder
  /\ depth' = [depth EXCEPT ![t] = 0]
  /\ stack' = [stack EXCEPT ![t] = <<>>]
  /\ live' = [live EXCEPT ![t] = {}]
  /\ base' = env
  /\ UNCHANGED env

Next == \E t \in Threads :
  \/ \E pairs \in Changes : Enter(t, pairs)
  \/ \E i \in live[t] : Exit(t, i)
  \/ ThreadEnds(t)

Spec == Init /\ [][Next]_vars

-----------------------------------------------------------------------------
(* The loops of the code, which the operators above give in closed form.   *)

\* apply_single_var, and a step of restore_saved: set_var or remove_var.
SetVar(e, pair) == [e EXCEPT ![pair[1]] = pair[2]]

\* apply_env_vars, for one pair: the previous value is saved with the key.
ApplyOne(before, pair) ==
  [env |-> SetVar(before.env, pair),
   saved |-> Append(before.saved, <<pair[1], before.env[pair[1]]>>)]

\* apply_env_vars: the pairs one after the other.
ApplyLoop(e, pairs) ==
  LET after[j \in 0..Len(pairs)] ==
        IF j = 0 THEN [env |-> e, saved |-> <<>>] ELSE ApplyOne(after[j - 1], pairs[j])
  IN after[Len(pairs)]

\* restore_saved: the saved values, the last one first.
RestoreLoop(e, saved) ==
  LET after[j \in 0..Len(saved)] ==
        IF j = 0 THEN e ELSE SetVar(after[j - 1], saved[Len(saved) + 1 - j])
  IN after[Len(saved)]

\* The body of both loops below: the topmost scope is popped and restored, or
\* it is put back and the loop is over.
PopOne(before, scopes, all) ==
  IF before.kept > 0 /\ (all \/ scopes[before.kept].finished)
  THEN [env |-> RestoreLoop(before.env, scopes[before.kept].saved), kept |-> before.kept - 1]
  ELSE before

\* restore_finished_scopes, or with all restore_all_scopes.
PopLoop(e, scopes, all) ==
  LET after[j \in 0..Len(scopes)] ==
        IF j = 0 THEN [env |-> e, kept |-> Len(scopes)] ELSE PopOne(after[j - 1], scopes, all)
  IN after[Len(scopes)]

-----------------------------------------------------------------------------
(* Properties.                                                             *)

\* No drop meets the states that exit_scope logs as corruption and resets from
\* (depth zero, scope missing, scope finished twice), whatever the order of
\* drops, and a thread has the lock exactly while one of its guards lives: a
\* scope dropped out of order neither keeps it nor gives it back early
\* (release_outermost_lock).
NoCorruption ==
  \A t \in Threads :
    /\ \A i \in live[t] : ~Corrupt(t, i)
    /\ live[t] # {} <=> holder = t

\* With no scope open the environment is the one outside all scopes: nested,
\* overlapping and out-of-order drops leave nothing behind (exit_scope).
EnvRestored == holder = None => env = base

\* While a guard lives, each variable it set keeps its value unless a later
\* scope of the thread sets it: dropping an outer scope first disturbs nothing
\* (restore_finished_scopes), and no other thread interferes (ENV_LOCK).
ScopeInEffect ==
  \A t \in Threads : \A i \in live[t] : \A k \in Keys :
    (Mentions(stack[t][i].vars, k) # {} /\ Covering(stack[t], i, k) = {})
      => env[k] = Applied(base, stack[t][i].vars)[k]

\* What the steps write is what the loops of the code compute: the pairs of an
\* enter_scope applied and saved one by one (apply_env_vars), the scopes that an
\* exit_scope leaves finished on top popped and restored one by one
\* (restore_finished_scopes), and all of them after corruption
\* (restore_all_scopes).
LoopsAgree ==
  \A t \in Threads :
    /\ \A pairs \in Changes :
         ApplyLoop(env, pairs) = [env |-> Applied(env, pairs), saved |-> Saved(env, pairs)]
    /\ \A i \in live[t] :
         LET scopes == [stack[t] EXCEPT ![i].finished = TRUE]
         IN PopLoop(env, scopes, FALSE) =
              [env |-> Restored(env, scopes, Kept(scopes)), kept |-> Kept(scopes)]
    /\ PopLoop(env, stack[t], TRUE) = [env |-> Restored(env, stack[t], 0), kept |-> 0]
=============================================================================
