-------------------------- MODULE ScopedEnvProofs --------------------------
(***************************************************************************)
(* Proofs about ScopedEnv, for every set of threads, variables and lists   *)
(* of changes and every bound on the depth.                                *)
(*                                                                         *)
(* The idea: undoing the open scopes, all of them or those above some      *)
(* scope, yields the same environment whatever has been pushed or popped   *)
(* above (lemmas Push and Pop).  So undoing everything always yields base, *)
(* and undoing down to a scope always yields what that scope applied.      *)
(***************************************************************************)
EXTENDS ScopedEnv, FiniteSetTheorems, WellFoundedInduction, TLAPS

-----------------------------------------------------------------------------
(* Least and greatest elements.                                            *)

\* A set of natural numbers has a least element, which Min chooses.
LEMMA MinIsLeast ==
  ASSUME NEW A \in SUBSET Nat, A # {}
  PROVE  Min(A) \in A /\ \A y \in A : Min(A) <= y
<1>1. OpToRel(<, Nat) = {ss \in Nat \X Nat : ss[1] < ss[2]}
  BY DEF OpToRel
<1>2. PICK x \in A : \A y \in A : <<y, x>> \notin OpToRel(<, Nat)
  BY NatLessThanWellFounded, WFMin
<1>3. \A y \in A : <<y, x>> \notin {ss \in Nat \X Nat : ss[1] < ss[2]}
  BY <1>1, <1>2
<1>4. \A y \in A : ~(y < x)
  BY <1>3
<1>5. \A y \in A : x <= y
  BY <1>4
<1>6. QED
  BY <1>5 DEF Min

\* Elements above a set do not change its least element.
LEMMA MinOfLower ==
  ASSUME NEW A \in SUBSET Nat, NEW B \in SUBSET Nat, A # {}, \A a \in A, b \in B : a < b
  PROVE  Min(A \cup B) = Min(A)
<1> DEFINE C == A \cup B
<1>1. Min(A) \in A /\ \A y \in A : Min(A) <= y
  BY MinIsLeast
<1>2. C \in SUBSET Nat /\ C # {}
  OBVIOUS
<1>3. Min(C) \in C /\ \A y \in C : Min(C) <= y
  BY <1>2, MinIsLeast
<1>4. Min(C) <= Min(A)
  BY <1>1, <1>3
<1>5. Min(A) \in Nat /\ Min(C) \in Nat
  BY <1>1, <1>3
<1>6. Min(C) \in A
  BY <1>1, <1>3, <1>4, <1>5
<1>7. QED
  BY <1>1, <1>4, <1>5, <1>6

\* A bounded one has a greatest element, which Max chooses.
LEMMA MaxIsGreatest ==
  ASSUME NEW n \in Nat, NEW A \in SUBSET (0..n), A # {}
  PROVE  Max(A) \in A /\ \A y \in A : Max(A) >= y
<1> DEFINE B == {n - x : x \in A}
<1>1. B \in SUBSET Nat
  OBVIOUS
<1>2. B # {}
  <2>1. PICK x \in A : TRUE
    OBVIOUS
  <2>2. n - x \in B
    BY <2>1
  <2>3. QED
    BY <2>2
<1> HIDE DEF B
<1>3. PICK z \in B : \A y \in B : z <= y
  BY <1>1, <1>2, MinIsLeast
<1>4. PICK x \in A : z = n - x
  BY <1>3 DEF B
<1>5. \A y \in A : x >= y
  BY <1>3, <1>4 DEF B
<1>6. QED
  BY <1>5 DEF Max

-----------------------------------------------------------------------------
(* Applying and restoring.                                                 *)

Pairs == Seq(Keys \X Content)
Env == [Keys -> Content]

\* Applying pairs to an environment yields an environment.
LEMMA AppliedType ==
  ASSUME NEW e \in Env, NEW pairs \in Pairs
  PROVE  Applied(e, pairs) \in Env
<1> SUFFICES ASSUME NEW k \in Keys, Mentions(pairs, k) # {}
             PROVE  pairs[Max(Mentions(pairs, k))][2] \in Content
  BY DEF Applied, Env
<1>1. Mentions(pairs, k) \in SUBSET (0..Len(pairs)) /\ Len(pairs) \in Nat
  BY DEF Mentions, Pairs
<1>2. Max(Mentions(pairs, k)) \in Mentions(pairs, k)
  BY <1>1, MaxIsGreatest
<1>3. Max(Mentions(pairs, k)) \in 1..Len(pairs)
  BY <1>2 DEF Mentions
<1>4. QED
  BY <1>3 DEF Pairs

\* What a scope saves mentions the same variables at the same places.
LEMMA SavedType ==
  ASSUME NEW e \in Env, NEW pairs \in Pairs
  PROVE  /\ Saved(e, pairs) \in Pairs
         /\ Len(Saved(e, pairs)) = Len(pairs)
         /\ \A k \in Keys : Mentions(Saved(e, pairs), k) = Mentions(pairs, k)
<1>1. Len(pairs) \in Nat
  BY DEF Pairs
<1>2. \A j \in 1..Len(pairs) :
        /\ SubSeq(pairs, 1, j - 1) \in Pairs
        /\ pairs[j][1] \in Keys
  BY DEF Pairs
<1>3. \A j \in 1..Len(pairs) :
        <<pairs[j][1], Applied(e, SubSeq(pairs, 1, j - 1))[pairs[j][1]]>> \in Keys \X Content
  BY <1>2, AppliedType DEF Env
<1>4. Saved(e, pairs) \in Pairs /\ Len(Saved(e, pairs)) = Len(pairs)
  BY <1>1, <1>3 DEF Saved, Pairs
<1>5. \A j \in 1..Len(pairs) : Saved(e, pairs)[j][1] = pairs[j][1]
  BY DEF Saved
<1>6. QED
  BY <1>4, <1>5 DEF Mentions

\* The first pair a scope saves for a variable has the variable's value from
\* before the scope.
LEMMA FirstSaved ==
  ASSUME NEW e \in Env, NEW pairs \in Pairs, NEW k \in Keys, Mentions(pairs, k) # {}
  PROVE  Saved(e, pairs)[Min(Mentions(Saved(e, pairs), k))][2] = e[k]
<1> DEFINE j == Min(Mentions(pairs, k))
<1>1. Mentions(pairs, k) \in SUBSET Nat /\ Len(pairs) \in Nat
  BY DEF Mentions, Pairs
<1>2. j \in Mentions(pairs, k) /\ \A y \in Mentions(pairs, k) : j <= y
  BY <1>1, MinIsLeast
<1>3. j \in 1..Len(pairs) /\ pairs[j][1] = k
  BY <1>2 DEF Mentions
<1> HIDE DEF j
<1>4. SubSeq(pairs, 1, j - 1) \in Pairs /\ Len(SubSeq(pairs, 1, j - 1)) = j - 1
  BY <1>1, <1>3 DEF Pairs
<1>5. \A i \in 1..(j - 1) : SubSeq(pairs, 1, j - 1)[i] = pairs[i]
  BY <1>1, <1>3 DEF Pairs
<1>6. Mentions(SubSeq(pairs, 1, j - 1), k) = {}
  BY <1>1, <1>2, <1>3, <1>4, <1>5 DEF Mentions
<1>7. Saved(e, pairs)[j] = <<k, Applied(e, SubSeq(pairs, 1, j - 1))[k]>>
  BY <1>3 DEF Saved
<1>8. Applied(e, SubSeq(pairs, 1, j - 1))[k] = e[k]
  BY <1>6 DEF Applied
<1>9. Min(Mentions(Saved(e, pairs), k)) = j
  BY SavedType DEF j
<1>10. QED
  BY <1>7, <1>8, <1>9

\* The lowest scope that mentions a variable is one of the scopes above n.
LEMMA CoveringMin ==
  ASSUME NEW scopes \in Seq(Scope), NEW n \in Nat, NEW k \in Keys, Covering(scopes, n, k) # {}
  PROVE  LET m == Min(Covering(scopes, n, k))
         IN /\ m \in (n + 1)..Len(scopes)
            /\ m \in Covering(scopes, n, k)
            /\ \A y \in Covering(scopes, n, k) : m <= y
<1>1. Covering(scopes, n, k) \in SUBSET Nat /\ Len(scopes) \in Nat
  BY DEF Covering
<1>2. QED
  BY <1>1, MinIsLeast DEF Covering

\* Undoing scopes yields an environment.
LEMMA RestoredType ==
  ASSUME NEW e \in Env, NEW scopes \in Seq(Scope), NEW n \in Nat
  PROVE  Restored(e, scopes, n) \in Env
<1> SUFFICES ASSUME NEW k \in Keys, Covering(scopes, n, k) # {}
             PROVE  LET saved == scopes[Min(Covering(scopes, n, k))].saved
                    IN saved[Min(Mentions(saved, k))][2] \in Content
  BY DEF Restored, Env
<1> DEFINE m == Min(Covering(scopes, n, k))
           saved == scopes[m].saved
<1>1. m \in (n + 1)..Len(scopes) /\ m \in Covering(scopes, n, k)
  BY CoveringMin
<1>2. Mentions(saved, k) # {}
  BY <1>1 DEF Covering
<1>3. scopes[m] \in Scope
  BY <1>1
<1>4. saved \in Seq(Keys \X Content)
  BY <1>3 DEF Scope
<1> HIDE DEF m, saved
<1>5. Mentions(saved, k) \in SUBSET Nat
  BY <1>4 DEF Mentions
<1>6. Min(Mentions(saved, k)) \in Mentions(saved, k)
  BY <1>2, <1>5, MinIsLeast
<1>7. saved[Min(Mentions(saved, k))] \in Keys \X Content
  BY <1>4, <1>6 DEF Mentions
<1>8. QED
  BY <1>7 DEF saved, m

\* Opening a scope does not change what undoing the scopes above i yields.
LEMMA Push ==
  ASSUME NEW e \in Env, NEW pairs \in Pairs, NEW scopes \in Seq(Scope), NEW scope \in Scope,
         scope.saved = Saved(e, pairs), NEW i \in 0..Len(scopes)
  PROVE  Restored(Applied(e, pairs), Append(scopes, scope), i) = Restored(e, scopes, i)
<1> DEFINE pushed == Append(scopes, scope)
           top == Len(scopes) + 1
<1>1. Len(scopes) \in Nat /\ Len(pushed) = top /\ pushed \in Seq(Scope)
  OBVIOUS
<1>2. pushed[top] = scope /\ \A m \in 1..Len(scopes) : pushed[m] = scopes[m]
  OBVIOUS
<1> SUFFICES ASSUME NEW k \in Keys
             PROVE  Restored(Applied(e, pairs), pushed, i)[k] = Restored(e, scopes, i)[k]
  BY DEF Restored
<1> HIDE DEF pushed
<1> DEFINE old == Covering(scopes, i, k)
           new == Covering(pushed, i, k)
<1> DEFINE added == IF Mentions(pairs, k) = {} THEN {} ELSE {top}
<1>3. new = old \cup added
  <2>1. Mentions(scope.saved, k) = Mentions(pairs, k)
    BY SavedType
  <2>2. \A m \in 1..Len(scopes) : m \in new <=> m \in old
    BY <1>1, <1>2 DEF Covering
  <2>3. top \in new <=> Mentions(pairs, k) # {}
    BY <1>1, <1>2, <2>1 DEF Covering
  <2>4. new \subseteq 1..top /\ old \subseteq 1..Len(scopes)
    BY <1>1 DEF Covering
  <2> HIDE DEF old, new
  <2>5. 1..top = (1..Len(scopes)) \cup {top} /\ top \notin 1..Len(scopes)
    BY <1>1
  <2> HIDE DEF top
  <2>6. QED
    BY <2>2, <2>3, <2>4, <2>5
<1>4. old \subseteq (i + 1)..Len(scopes)
  BY DEF Covering
<1>5. CASE old # {}
  <2>1. Min(old) \in old
    BY <1>1, <1>4, <1>5, MinIsLeast
  <2>2. Min(new) = Min(old)
    <3> HIDE DEF old, new
    <3>1. old \in SUBSET Nat /\ added \in SUBSET Nat
      BY <1>1, <1>4
    <3>2. \A a \in old, b \in added : a < b
      BY <1>1, <1>4
    <3> HIDE DEF added
    <3>3. QED
      BY <1>3, <1>5, <3>1, <3>2, MinOfLower
  <2>3. pushed[Min(new)] = scopes[Min(old)]
    BY <2>1, <2>2, <1>2, <1>4
  <2>4. QED
    BY <2>3, <1>3, <1>5 DEF Restored
<1>6. CASE old = {} /\ Mentions(pairs, k) = {}
  BY <1>3, <1>6 DEF Restored, Applied
<1>7. CASE old = {} /\ Mentions(pairs, k) # {}
  <2>1. new = {top}
    BY <1>3, <1>7
  <2>2. Min(new) = top
    BY <2>1, <1>1, MinIsLeast DEF Min
  <2>3. Restored(Applied(e, pairs), pushed, i)[k] = scope.saved[Min(Mentions(scope.saved, k))][2]
    BY <2>1, <2>2, <1>2 DEF Restored
  <2>4. QED
    BY <2>3, <1>7, FirstSaved DEF Restored
<1>8. QED
  BY <1>5, <1>6, <1>7

\* Nor does popping the scopes above n, for i up to n.
LEMMA Pop ==
  ASSUME NEW e \in Env, NEW scopes \in Seq(Scope), NEW n \in 0..Len(scopes), NEW i \in 0..n
  PROVE  Restored(Restored(e, scopes, n), SubSeq(scopes, 1, n), i) = Restored(e, scopes, i)
<1> DEFINE below == SubSeq(scopes, 1, n)
           undone == Restored(e, scopes, n)
<1>1. Len(scopes) \in Nat /\ below \in Seq(Scope) /\ Len(below) = n
  OBVIOUS
<1>2. \A m \in 1..n : below[m] = scopes[m]
  OBVIOUS
<1> SUFFICES ASSUME NEW k \in Keys
             PROVE  Restored(undone, below, i)[k] = Restored(e, scopes, i)[k]
  BY DEF Restored
<1> HIDE DEF below
<1> DEFINE all == Covering(scopes, i, k)
           low == Covering(below, i, k)
           high == Covering(scopes, n, k)
<1>3. all = low \cup high /\ low \subseteq (i + 1)..n /\ high \subseteq (n + 1)..Len(scopes)
  BY <1>1, <1>2 DEF Covering
<1>4. CASE low # {}
  <2>1. Min(low) \in low
    BY <1>1, <1>3, <1>4, MinIsLeast
  <2>2. Min(all) = Min(low)
    <3> HIDE DEF all, low, high
    <3>1. low \in SUBSET Nat /\ high \in SUBSET Nat
      BY <1>1, <1>3
    <3>2. \A a \in low, b \in high : a < b
      BY <1>1, <1>3
    <3>3. QED
      BY <1>3, <1>4, <3>1, <3>2, MinOfLower
  <2>3. below[Min(low)] = scopes[Min(all)]
    BY <2>1, <2>2, <1>2, <1>3
  <2>4. QED
    BY <2>3, <1>3, <1>4 DEF Restored
<1>5. CASE low = {}
  <2>1. all = high
    BY <1>3, <1>5
  <2>2. Restored(undone, below, i)[k] = undone[k]
    BY <1>5 DEF Restored
  <2>3. undone[k] = Restored(e, scopes, i)[k]
    BY <2>1 DEF Restored
  <2>4. QED
    BY <2>2, <2>3
<1>6. QED
  BY <1>4, <1>5

Finish(scopes, i) == [scopes EXCEPT ![i].finished = TRUE]

\* Marking a scope as finished does not change what undoing yields.
LEMMA Marked ==
  ASSUME NEW e \in Env, NEW scopes \in Seq(Scope), NEW i \in 1..Len(scopes), NEW n \in Nat
  PROVE  /\ Finish(scopes, i) \in Seq(Scope)
         /\ Len(Finish(scopes, i)) = Len(scopes)
         /\ Finish(scopes, i)[i].finished
         /\ \A m \in 1..Len(scopes) :
              /\ Finish(scopes, i)[m].vars = scopes[m].vars
              /\ m # i => Finish(scopes, i)[m].finished = scopes[m].finished
         /\ Restored(e, Finish(scopes, i), n) = Restored(e, scopes, n)
<1> DEFINE marked == Finish(scopes, i)
<1> DEFINE one == [scopes[i] EXCEPT !.finished = TRUE]
<1>1. scopes[i] \in Scope
  OBVIOUS
<1>2. one \in Scope /\ one.finished /\ one.saved = scopes[i].saved /\ one.vars = scopes[i].vars
  BY <1>1 DEF Scope
<1>3. marked = [scopes EXCEPT ![i] = one]
  BY DEF Finish
<1> HIDE DEF one, marked
<1>4. marked \in Seq(Scope) /\ Len(marked) = Len(scopes)
  BY <1>2, <1>3
<1>5. marked[i] = one /\ \A m \in 1..Len(scopes) : m # i => marked[m] = scopes[m]
  BY <1>3
<1>6. \A m \in 1..Len(scopes) : marked[m].saved = scopes[m].saved /\ marked[m].vars = scopes[m].vars
  BY <1>2, <1>5
<1>7. marked[i].finished /\ \A m \in 1..Len(scopes) : m # i => marked[m].finished = scopes[m].finished
  BY <1>2, <1>5
<1>8. \A k \in Keys : Covering(marked, n, k) = Covering(scopes, n, k)
  BY <1>4, <1>6 DEF Covering
<1>9. \A k \in Keys : Covering(scopes, n, k) # {} => Min(Covering(scopes, n, k)) \in 1..Len(scopes)
  BY CoveringMin
<1>10. Restored(e, marked, n) = Restored(e, scopes, n)
  BY <1>6, <1>8, <1>9 DEF Restored
<1>11. QED
  BY <1>4, <1>6, <1>7, <1>10 DEF marked

Unfinished(scopes) == {m \in 1..Len(scopes) : ~scopes[m].finished}

\* What stays on the stack holds every unfinished scope and ends with one.
LEMMA KeptTop ==
  ASSUME NEW scopes \in Seq(Scope)
  PROVE  /\ Kept(scopes) \in 0..Len(scopes)
         /\ Unfinished(scopes) \subseteq 1..Kept(scopes)
         /\ Kept(scopes) # 0 => ~scopes[Kept(scopes)].finished
<1> DEFINE A == Unfinished(scopes) \cup {0}
<1>1. A \in SUBSET (0..Len(scopes)) /\ A # {} /\ Len(scopes) \in Nat
  BY DEF Unfinished
<1>2. Max(A) \in A /\ \A y \in A : Max(A) >= y
  BY <1>1, MaxIsGreatest
<1>3. Kept(scopes) = Max(A)
  BY DEF Kept, Unfinished
<1>4. \A m \in Unfinished(scopes) : m \in 1..Len(scopes) /\ m <= Max(A)
  BY <1>1, <1>2 DEF Unfinished
<1>5. QED
  BY <1>1, <1>2, <1>3, <1>4 DEF Unfinished

-----------------------------------------------------------------------------
(* The loops of the code compute the closed forms.                         *)

\* Two sequences of values that start alike and go on alike are alike.
LEMMA StepByStep ==
  ASSUME NEW N \in Nat, NEW f, NEW g, f[0] = g[0],
         \A j \in 1..N : f[j - 1] = g[j - 1] => f[j] = g[j]
  PROVE  \A j \in 0..N : f[j] = g[j]
<1> DEFINE S == {j \in 0..N : f[j] # g[j]}
<1> SUFFICES ASSUME S # {} PROVE FALSE
  OBVIOUS
<1>1. S \in SUBSET Nat
  OBVIOUS
<1>2. Min(S) \in S /\ \A y \in S : Min(S) <= y
  BY <1>1, MinIsLeast
<1>3. PICK m \in S : \A y \in S : m <= y
  BY <1>2
<1>4. m \in 0..N /\ f[m] # g[m]
  BY <1>3
<1>5. m \in 1..N
  BY <1>4
<1>6. m - 1 \in 0..N /\ m - 1 \notin S
  BY <1>3, <1>5
<1>7. QED
  BY <1>4, <1>5, <1>6

\* Setting a variable yields an environment.
LEMMA SetVarType ==
  ASSUME NEW e \in Env, NEW pair \in Keys \X Content
  PROVE  /\ SetVar(e, pair) \in Env
         /\ \A k \in Keys : SetVar(e, pair)[k] = IF pair[1] = k THEN pair[2] ELSE e[k]
BY DEF SetVar, Env

\* One more pair applied is one more variable set.
LEMMA AppliedNext ==
  ASSUME NEW e \in Env, NEW pairs \in Pairs, NEW j \in 1..Len(pairs)
  PROVE  Applied(e, SubSeq(pairs, 1, j)) = SetVar(Applied(e, SubSeq(pairs, 1, j - 1)), pairs[j])
<1> DEFINE now == SubSeq(pairs, 1, j)
           old == SubSeq(pairs, 1, j - 1)
<1>1. /\ Len(pairs) \in Nat /\ pairs[j] \in Keys \X Content
      /\ now \in Pairs /\ Len(now) = j /\ old \in Pairs /\ Len(old) = j - 1
  BY DEF Pairs
<1>2. (\A i \in 1..j : now[i] = pairs[i]) /\ (\A i \in 1..(j - 1) : old[i] = pairs[i])
  BY DEF Pairs
<1> HIDE DEF now, old
<1>3. Applied(e, now) \in Env /\ Applied(e, old) \in Env
  BY <1>1, AppliedType
<1>4. SetVar(Applied(e, old), pairs[j]) \in Env
  BY <1>1, <1>3, SetVarType
<1>5. \A k \in Keys : Applied(e, now)[k] = SetVar(Applied(e, old), pairs[j])[k]
  <2> SUFFICES ASSUME NEW k \in Keys
               PROVE  Applied(e, now)[k] = SetVar(Applied(e, old), pairs[j])[k]
    OBVIOUS
  <2> DEFINE M == Mentions(now, k)
             L == Mentions(old, k)
  <2>1. Applied(e, now)[k] = IF M = {} THEN e[k] ELSE now[Max(M)][2]
    BY DEF Applied
  <2>2. Applied(e, old)[k] = IF L = {} THEN e[k] ELSE old[Max(L)][2]
    BY DEF Applied
  <2>3. SetVar(Applied(e, old), pairs[j])[k] =
          IF pairs[j][1] = k THEN pairs[j][2] ELSE Applied(e, old)[k]
    BY <1>1, <1>3, SetVarType
  <2>4. M \in SUBSET (0..j) /\ j \in Nat
    BY <1>1 DEF Mentions
  <2>5. CASE pairs[j][1] = k
    <3>1. j \in M
      BY <1>1, <1>2, <2>5 DEF Mentions
    <3>2. Max(M) \in M /\ \A y \in M : Max(M) >= y
      BY <2>4, <3>1, MaxIsGreatest
    <3> HIDE DEF M
    <3>3. Max(M) = j
      <4>1. Max(M) \in 0..j /\ Max(M) >= j
        BY <2>4, <3>1, <3>2
      <4>2. QED
        BY <4>1
    <3>4. QED
      BY <1>2, <2>1, <2>3, <2>5, <3>1, <3>3
  <2>6. CASE pairs[j][1] # k
    <3>1. M = L
      BY <1>1, <1>2, <2>6 DEF Mentions
    <3>2. L # {} => Max(L) \in 1..(j - 1)
      <4> SUFFICES ASSUME L # {} PROVE Max(L) \in 1..(j - 1)
        OBVIOUS
      <4>1. Max(L) \in L
        BY <2>4, <3>1, MaxIsGreatest
      <4>2. QED
        BY <4>1, <1>1 DEF Mentions
    <3>3. L # {} => now[Max(L)] = old[Max(L)]
      BY <3>2, <1>2
    <3> HIDE DEF M, L
    <3>4. QED
      BY <2>1, <2>2, <2>3, <2>6, <3>1, <3>3
  <2>7. QED
    BY <2>5, <2>6
<1>6. QED
  BY <1>3, <1>4, <1>5 DEF Env, now, old

\* One more pair applied is one more value saved.
LEMMA SavedNext ==
  ASSUME NEW e \in Env, NEW pairs \in Pairs, NEW j \in 1..Len(pairs)
  PROVE  Saved(e, SubSeq(pairs, 1, j)) =
           Append(Saved(e, SubSeq(pairs, 1, j - 1)),
                  <<pairs[j][1], Applied(e, SubSeq(pairs, 1, j - 1))[pairs[j][1]]>>)
<1> DEFINE now == SubSeq(pairs, 1, j)
           old == SubSeq(pairs, 1, j - 1)
           pair(i) == <<pairs[i][1], Applied(e, SubSeq(pairs, 1, i - 1))[pairs[i][1]]>>
<1>1. /\ Len(pairs) \in Nat
      /\ now \in Pairs /\ Len(now) = j /\ old \in Pairs /\ Len(old) = j - 1
  BY DEF Pairs
<1>2. \A i \in 1..j : now[i] = pairs[i] /\ SubSeq(now, 1, i - 1) = SubSeq(pairs, 1, i - 1)
  BY DEF Pairs
<1>3. \A i \in 1..(j - 1) :
        old[i] = pairs[i] /\ SubSeq(old, 1, i - 1) = SubSeq(pairs, 1, i - 1)
  BY DEF Pairs
<1> HIDE DEF now, old
<1>4. Saved(e, now) = [i \in 1..j |-> pair(i)]
  BY <1>1, <1>2 DEF Saved
<1>5. Saved(e, old) = [i \in 1..(j - 1) |-> pair(i)]
  BY <1>1, <1>3 DEF Saved
<1>6. Saved(e, old) \in Pairs /\ Len(Saved(e, old)) = j - 1
  BY <1>1, SavedType
<1> HIDE DEF pair
<1>7. Append(Saved(e, old), pair(j)) = [i \in 1..j |-> pair(i)]
  BY <1>5, <1>6, <1>1 DEF Pairs
<1>8. QED
  BY <1>4, <1>7 DEF pair, now, old

ApplyLoopOf(f, e, pairs) ==
  f = [j \in 0..Len(pairs) |->
         IF j = 0 THEN [env |-> e, saved |-> <<>>] ELSE ApplyOne(f[j - 1], pairs[j])]

\* apply_env_vars computes Applied and Saved.
LEMMA ApplyLoopComputes ==
  ASSUME NEW e \in Env, NEW pairs \in Pairs
  PROVE  ApplyLoop(e, pairs) = [env |-> Applied(e, pairs), saved |-> Saved(e, pairs)]
<1> DEFINE upTo(j) == SubSeq(pairs, 1, j)
           val(j) == [env |-> Applied(e, upTo(j)), saved |-> Saved(e, upTo(j))]
           g == [j \in 0..Len(pairs) |-> val(j)]
           f == CHOOSE h : ApplyLoopOf(h, e, pairs)
<1>1. Len(pairs) \in Nat /\ upTo(0) = <<>> /\ upTo(Len(pairs)) = pairs
  BY DEF Pairs
<1>2. val(0) = [env |-> e, saved |-> <<>>]
  <2>1. Applied(e, <<>>) = e
    BY DEF Applied, Mentions, Env
  <2>2. Saved(e, <<>>) = <<>>
    BY DEF Saved
  <2>3. QED
    BY <1>1, <2>1, <2>2
<1>3. \A j \in 1..Len(pairs) : val(j) = ApplyOne(val(j - 1), pairs[j])
  BY AppliedNext, SavedNext DEF ApplyOne
<1> HIDE DEF val, upTo
<1>4. ApplyLoopOf(g, e, pairs)
  BY <1>1, <1>2, <1>3 DEF ApplyLoopOf
<1>5. ApplyLoopOf(f, e, pairs)
  BY <1>4, Zenon
<1>6. ApplyLoop(e, pairs) = f[Len(pairs)]
  BY Zenon DEF ApplyLoop, ApplyLoopOf
<1> HIDE DEF f, g
<1>7. /\ f[0] = [env |-> e, saved |-> <<>>]
      /\ \A j \in 1..Len(pairs) : f[j] = ApplyOne(f[j - 1], pairs[j])
  BY <1>1, <1>5 DEF ApplyLoopOf
<1>8. /\ g[0] = [env |-> e, saved |-> <<>>]
      /\ \A j \in 1..Len(pairs) : g[j] = ApplyOne(g[j - 1], pairs[j])
  BY <1>1, <1>4 DEF ApplyLoopOf
<1>9. \A j \in 0..Len(pairs) : f[j] = g[j]
  <2>1. f[0] = g[0]
    BY <1>7, <1>8
  <2>2. ASSUME NEW j \in 1..Len(pairs), f[j - 1] = g[j - 1]
        PROVE  f[j] = g[j]
    BY <1>7, <1>8, <2>2, Zenon
  <2>3. QED
    BY <1>1, <2>1, <2>2, StepByStep, Zenon
<1>10. f[Len(pairs)] = val(Len(pairs))
  BY <1>1, <1>9 DEF g
<1>11. QED
  BY <1>1, <1>6, <1>10 DEF val

\* One more pair restored, from the end, decides for the variable it mentions.
LEMMA RestoreNext ==
  ASSUME NEW saved \in Pairs, NEW k \in Keys, NEW j \in 1..Len(saved)
  PROVE  LET from(n) == {i \in Mentions(saved, k) : i > Len(saved) - n}
             first == saved[Len(saved) + 1 - j]
         IN /\ first[1] = k => from(j) # {} /\ saved[Min(from(j))] = first
            /\ first[1] # k => from(j) = from(j - 1)
<1> DEFINE from(n) == {i \in Mentions(saved, k) : i > Len(saved) - n}
           m == Len(saved) + 1 - j
<1>1. Len(saved) \in Nat /\ m \in 1..Len(saved)
  BY DEF Pairs
<1>2. ASSUME saved[m][1] = k
      PROVE  m \in from(j) /\ Min(from(j)) = m
  <2>1. m \in from(j)
    BY <1>1, <1>2 DEF Mentions
  <2>2. from(j) \in SUBSET Nat /\ \A i \in from(j) : i >= m
    BY <1>1 DEF Mentions
  <2> HIDE DEF from
  <2>3. Min(from(j)) \in from(j) /\ \A y \in from(j) : Min(from(j)) <= y
    BY <2>1, <2>2, MinIsLeast
  <2>4. Min(from(j)) \in Nat /\ Min(from(j)) <= m /\ Min(from(j)) >= m
    BY <2>1, <2>2, <2>3
  <2>5. QED
    BY <1>1, <2>1, <2>4
<1>3. ASSUME saved[m][1] # k
      PROVE  from(j) = from(j - 1)
  <2>1. \A i \in Mentions(saved, k) : i \in Nat /\ i # m
    BY <1>1, <1>3 DEF Mentions
  <2>2. QED
    BY <1>1, <2>1
<1>4. QED
  BY <1>2, <1>3

RestoreLoopOf(f, e, saved) ==
  f = [j \in 0..Len(saved) |->
         IF j = 0 THEN e ELSE SetVar(f[j - 1], saved[Len(saved) + 1 - j])]

\* restore_saved puts back, of each variable, what was saved for it first.
LEMMA RestoreLoopComputes ==
  ASSUME NEW e \in Env, NEW saved \in Pairs
  PROVE  RestoreLoop(e, saved) =
           [k \in Keys |-> IF Mentions(saved, k) = {} THEN e[k]
                           ELSE saved[Min(Mentions(saved, k))][2]]
<1> DEFINE from(k, n) == {i \in Mentions(saved, k) : i > Len(saved) - n}
           val(n) == [k \in Keys |-> IF from(k, n) = {} THEN e[k] ELSE saved[Min(from(k, n))][2]]
           g == [j \in 0..Len(saved) |-> val(j)]
           f == CHOOSE h : RestoreLoopOf(h, e, saved)
           first(j) == saved[Len(saved) + 1 - j]
<1>1. Len(saved) \in Nat
  BY DEF Pairs
<1>2. \A k \in Keys : from(k, 0) = {} /\ from(k, Len(saved)) = Mentions(saved, k)
  BY <1>1 DEF Mentions
<1>3. \A j \in 1..Len(saved) : first(j) \in Keys \X Content
  BY <1>1 DEF Pairs
<1>4. \A j \in 1..Len(saved), k \in Keys :
        /\ first(j)[1] = k => from(k, j) # {} /\ saved[Min(from(k, j))] = first(j)
        /\ first(j)[1] # k => from(k, j) = from(k, j - 1)
  BY RestoreNext
<1> HIDE DEF from, first
<1>5. \A n \in 0..Len(saved) : val(n) \in Env
  <2> SUFFICES ASSUME NEW n \in 0..Len(saved), NEW k \in Keys, from(k, n) # {}
               PROVE  saved[Min(from(k, n))][2] \in Content
    BY DEF Env
  <2>1. from(k, n) \in SUBSET Nat /\ from(k, n) \subseteq 1..Len(saved)
    BY <1>1 DEF from, Mentions
  <2>2. Min(from(k, n)) \in 1..Len(saved)
    BY <2>1, MinIsLeast
  <2>3. QED
    BY <2>2 DEF Pairs
<1>6. val(0) = e
  BY <1>2 DEF Env
<1>7. ASSUME NEW j \in 1..Len(saved)
      PROVE  val(j) = SetVar(val(j - 1), first(j))
  <2>1. val(j) \in Env /\ val(j - 1) \in Env
    <3> HIDE DEF val
    <3>1. j \in 0..Len(saved) /\ j - 1 \in 0..Len(saved)
      BY <1>1
    <3>2. QED
      BY <1>5, <3>1
  <2>2. /\ SetVar(val(j - 1), first(j)) \in Env
        /\ \A k \in Keys : SetVar(val(j - 1), first(j))[k] =
                             IF first(j)[1] = k THEN first(j)[2] ELSE val(j - 1)[k]
    BY <1>3, <2>1, SetVarType
  <2>3. \A k \in Keys : val(j)[k] = IF first(j)[1] = k THEN first(j)[2] ELSE val(j - 1)[k]
    BY <1>4
  <2> HIDE DEF val
  <2>4. QED
    BY <2>1, <2>2, <2>3 DEF Env
<1>8. val(Len(saved)) =
        [k \in Keys |-> IF Mentions(saved, k) = {} THEN e[k]
                        ELSE saved[Min(Mentions(saved, k))][2]]
  BY <1>2
<1> HIDE DEF val
<1>9. RestoreLoopOf(g, e, saved)
  BY <1>1, <1>6, <1>7 DEF RestoreLoopOf, first
<1>10. RestoreLoopOf(f, e, saved)
  BY <1>9, Zenon
<1>11. RestoreLoop(e, saved) = f[Len(saved)]
  BY Zenon DEF RestoreLoop, RestoreLoopOf
<1> HIDE DEF f, g
<1>12. f[0] = e /\ \A j \in 1..Len(saved) : f[j] = SetVar(f[j - 1], first(j))
  BY <1>1, <1>10 DEF RestoreLoopOf, first
<1>13. g[0] = e /\ \A j \in 1..Len(saved) : g[j] = SetVar(g[j - 1], first(j))
  BY <1>1, <1>9 DEF RestoreLoopOf, first
<1>14. \A j \in 0..Len(saved) : f[j] = g[j]
  <2>1. f[0] = g[0]
    BY <1>12, <1>13
  <2>2. ASSUME NEW j \in 1..Len(saved), f[j - 1] = g[j - 1]
        PROVE  f[j] = g[j]
    BY <1>12, <1>13, <2>2, Zenon
  <2>3. QED
    BY <1>1, <2>1, <2>2, StepByStep, Zenon
<1>15. QED
  BY <1>1, <1>8, <1>11, <1>14 DEF g

\* One more scope popped and restored is one more scope undone.
LEMMA RestoredNext ==
  ASSUME NEW e \in Env, NEW scopes \in Seq(Scope), NEW n \in 1..Len(scopes)
  PROVE  RestoreLoop(Restored(e, scopes, n), scopes[n].saved) = Restored(e, scopes, n - 1)
<1> DEFINE saved == scopes[n].saved
           undone == Restored(e, scopes, n)
<1>1. Len(scopes) \in Nat /\ scopes[n] \in Scope
  OBVIOUS
<1>2. saved \in Pairs
  BY <1>1 DEF Scope, Pairs
<1>3. undone \in Env
  BY <1>1, RestoredType
<1>4. RestoreLoop(undone, saved) =
        [k \in Keys |-> IF Mentions(saved, k) = {} THEN undone[k]
                        ELSE saved[Min(Mentions(saved, k))][2]]
  BY <1>2, <1>3, RestoreLoopComputes
<1>5. ASSUME NEW k \in Keys
      PROVE  Restored(e, scopes, n - 1)[k] =
               IF Mentions(saved, k) = {} THEN undone[k] ELSE saved[Min(Mentions(saved, k))][2]
  <2> DEFINE all == Covering(scopes, n - 1, k)
             high == Covering(scopes, n, k)
  <2>1. Restored(e, scopes, n - 1)[k] =
          IF all = {} THEN e[k]
          ELSE scopes[Min(all)].saved[Min(Mentions(scopes[Min(all)].saved, k))][2]
    BY DEF Restored
  <2>2. undone[k] = IF high = {} THEN e[k]
          ELSE scopes[Min(high)].saved[Min(Mentions(scopes[Min(high)].saved, k))][2]
    BY DEF Restored
  <2>3. CASE Mentions(saved, k) = {}
    <3>1. all = high
      BY <1>1, <2>3 DEF Covering
    <3>2. QED
      BY <2>1, <2>2, <2>3, <3>1
  <2>4. CASE Mentions(saved, k) # {}
    <3>1. n \in all /\ n - 1 \in Nat
      BY <1>1, <2>4 DEF Covering
    <3>2. Min(all) \in n..Len(scopes) /\ Min(all) <= n
      BY <1>1, <3>1, CoveringMin
    <3>3. Min(all) = n
      BY <1>1, <3>2
    <3>4. QED
      BY <2>1, <2>4, <3>1, <3>3
  <2>5. QED
    BY <2>3, <2>4
<1>6. QED
  BY <1>4, <1>5 DEF Restored

PopLoopOf(f, e, scopes, all) ==
  f = [j \in 0..Len(scopes) |->
         IF j = 0 THEN [env |-> e, kept |-> Len(scopes)] ELSE PopOne(f[j - 1], scopes, all)]

\* The course of the loop, step by step.
LEMMA PopLoopRows ==
  ASSUME NEW e, NEW scopes \in Seq(Scope), NEW all, NEW f, PopLoopOf(f, e, scopes, all)
  PROVE  /\ f[0] = [env |-> e, kept |-> Len(scopes)]
         /\ \A j \in 1..Len(scopes) : f[j] = PopOne(f[j - 1], scopes, all)
<1>1. Len(scopes) \in Nat
  OBVIOUS
<1>2. QED
  BY <1>1 DEF PopLoopOf

\* What follows the loop step by step is its course.
LEMMA PopLoopCourse ==
  ASSUME NEW e, NEW scopes \in Seq(Scope), NEW all, NEW g, PopLoopOf(g, e, scopes, all)
  PROVE  PopLoop(e, scopes, all) = g[Len(scopes)]
<1> DEFINE f == CHOOSE h : PopLoopOf(h, e, scopes, all)
<1>1. Len(scopes) \in Nat
  OBVIOUS
<1>2. PopLoopOf(f, e, scopes, all)
  BY Zenon
<1>3. PopLoop(e, scopes, all) = f[Len(scopes)]
  BY Zenon DEF PopLoop, PopLoopOf
<1> HIDE DEF f
<1>4. /\ f[0] = [env |-> e, kept |-> Len(scopes)]
      /\ \A j \in 1..Len(scopes) : f[j] = PopOne(f[j - 1], scopes, all)
  BY <1>2, PopLoopRows, Zenon
<1>5. /\ g[0] = [env |-> e, kept |-> Len(scopes)]
      /\ \A j \in 1..Len(scopes) : g[j] = PopOne(g[j - 1], scopes, all)
  BY PopLoopRows, Zenon
<1>6. f[0] = g[0]
  BY <1>4, <1>5
<1>7. ASSUME NEW j \in 1..Len(scopes), f[j - 1] = g[j - 1]
      PROVE  f[j] = g[j]
  BY <1>4, <1>5, <1>7, Zenon
<1>8. \A j \in 0..Len(scopes) : f[j] = g[j]
  BY <1>1, <1>6, <1>7, StepByStep, Zenon
<1>9. QED
  BY <1>1, <1>3, <1>8

\* Scopes are popped and restored down to the topmost one that has to stay.
LEMMA PopLoopComputes ==
  ASSUME NEW e \in Env, NEW scopes \in Seq(Scope), NEW all \in BOOLEAN,
         NEW low \in 0..Len(scopes), low > 0 => ~(all \/ scopes[low].finished),
         \A m \in (low + 1)..Len(scopes) : all \/ scopes[m].finished
  PROVE  PopLoop(e, scopes, all) = [env |-> Restored(e, scopes, low), kept |-> low]
<1> DEFINE kept(j) == IF Len(scopes) - j > low THEN Len(scopes) - j ELSE low
           val(j) == [env |-> Restored(e, scopes, kept(j)), kept |-> kept(j)]
           g == [j \in 0..Len(scopes) |-> val(j)]
<1>1. Len(scopes) \in Nat
  OBVIOUS
<1>2. kept(0) = Len(scopes) /\ kept(Len(scopes)) = low
  BY <1>1
<1>3. val(0) = [env |-> e, kept |-> Len(scopes)]
  <2>1. \A k \in Keys : Covering(scopes, Len(scopes), k) = {}
    BY <1>1 DEF Covering
  <2>2. Restored(e, scopes, Len(scopes)) = e
    BY <2>1 DEF Restored, Env
  <2>3. QED
    BY <1>2, <2>2
<1>4. ASSUME NEW j \in 1..Len(scopes)
      PROVE  val(j) = PopOne(val(j - 1), scopes, all)
  <2> DEFINE top == kept(j - 1)
  <2>1. CASE Len(scopes) - (j - 1) > low
    <3>1. top = Len(scopes) + 1 - j /\ top \in 1..Len(scopes) /\ kept(j) = top - 1
      BY <1>1, <2>1
    <3>2. top \in (low + 1)..Len(scopes) /\ top > 0
      BY <1>1, <2>1
    <3> HIDE DEF kept, top
    <3>3. all \/ scopes[top].finished
      BY <3>2
    <3>4. RestoreLoop(Restored(e, scopes, top), scopes[top].saved) = Restored(e, scopes, top - 1)
      BY <3>1, RestoredNext
    <3>5. QED
      BY <3>1, <3>2, <3>3, <3>4 DEF PopOne, top
  <2>2. CASE ~(Len(scopes) - (j - 1) > low)
    <3>1. top = low /\ kept(j) = low /\ low \in Nat
      BY <1>1, <2>2
    <3> HIDE DEF kept, top
    <3>2. ~(top > 0 /\ (all \/ scopes[top].finished))
      BY <3>1
    <3>3. QED
      BY <3>1, <3>2 DEF PopOne, top
  <2>3. QED
    BY <2>1, <2>2
<1> HIDE DEF val, kept
<1>5. PopLoopOf(g, e, scopes, all)
  BY <1>1, <1>3, <1>4 DEF PopLoopOf
<1>6. PopLoop(e, scopes, all) = g[Len(scopes)]
  BY <1>5, PopLoopCourse
<1>7. g[Len(scopes)] = val(Len(scopes))
  BY <1>1
<1>8. QED
  BY <1>2, <1>6, <1>7 DEF val

-----------------------------------------------------------------------------
(* The inductive invariant.                                                *)

\* The guards that are alive are those of the unfinished scopes, which depth
\* counts; the topmost scope is unfinished.
StackInv ==
  \A t \in Threads :
    /\ live[t] = Unfinished(stack[t])
    /\ depth[t] = Cardinality(live[t])
    /\ stack[t] # <<>> => ~stack[t][Len(stack[t])].finished

\* Exactly the thread with open scopes has the lock.
HolderInv == \A t \in Threads : holder = t <=> stack[t] # <<>>

\* Undoing all open scopes yields the environment outside them.
BaseInv ==
  /\ holder = None => env = base
  /\ \A t \in Threads : holder = t => Restored(env, stack[t], 0) = base

\* Undoing the scopes above one yields what that one applied.
EffectInv ==
  \A t \in Threads : \A i \in 1..Len(stack[t]) : \A k \in Keys :
    Mentions(stack[t][i].vars, k) # {} =>
      Restored(env, stack[t], i)[k] = Applied(base, stack[t][i].vars)[k]

Inv == TypeOK /\ StackInv /\ HolderInv /\ BaseInv /\ EffectInv

\* No scope is open at first.
LEMMA InvInit == Init => Inv
<1> SUFFICES ASSUME Init PROVE Inv
  OBVIOUS
<1> USE EnvAssumption DEF Init
<1>1. TypeOK
  BY DEF TypeOK
<1>2. StackInv
  BY FS_EmptySet DEF StackInv, Unfinished
<1>3. HolderInv /\ BaseInv /\ EffectInv
  BY DEF HolderInv, BaseInv, EffectInv
<1>4. QED
  BY <1>1, <1>2, <1>3 DEF Inv

\* The live guards of a thread are finitely many.
LEMMA LiveFinite ==
  ASSUME TypeOK, StackInv, NEW t \in Threads
  PROVE  IsFiniteSet(live[t])
<1>1. Len(stack[t]) \in Nat
  BY DEF TypeOK
<1>2. IsFiniteSet(1..Len(stack[t]))
  BY <1>1, FS_Interval
<1>3. QED
  BY <1>2, FS_Subset DEF StackInv, Unfinished

\* Opening a scope.
LEMMA EnterStep ==
  ASSUME Inv, NEW t \in Threads, NEW pairs \in Changes, Enter(t, pairs)
  PROVE  Inv'
<1> DEFINE scope == [saved |-> Saved(env, pairs), finished |-> FALSE, vars |-> pairs]
           scopes == stack[t]
           top == Len(scopes) + 1
<1>1. env \in Env /\ pairs \in Pairs /\ scopes \in Seq(Scope) /\ Len(scopes) \in Nat /\ base \in Env
  BY EnvAssumption DEF Inv, TypeOK, Env, Pairs
<1>2. env' = Applied(env, pairs) /\ base' = base /\ holder' = t
  BY DEF Enter
<1>3. stack' = [stack EXCEPT ![t] = Append(scopes, scope)]
  BY DEF Enter
<1>4. scope \in Scope
  BY <1>1, SavedType DEF Scope, Pairs
<1>5. /\ stack'[t] \in Seq(Scope) /\ Len(stack'[t]) = top
      /\ stack'[t][top] = scope
      /\ \A m \in 1..Len(scopes) : stack'[t][m] = scopes[m]
  BY <1>1, <1>3, <1>4 DEF Inv, TypeOK
<1>6. \A u \in Threads : u # t => stack'[u] = stack[u] /\ live'[u] = live[u] /\ depth'[u] = depth[u]
  BY <1>3 DEF Enter, Inv, TypeOK
<1>7. scope.saved = Saved(env, pairs) /\ ~scope.finished /\ scope.vars = pairs
  OBVIOUS
<1> HIDE DEF scope
<1>8. holder = t \/ (holder = None /\ stack[t] = <<>>)
  <2>1. CASE depth[t] > 0
    <3>1. depth[t] = Cardinality(live[t]) /\ Cardinality({}) = 0
      BY FS_EmptySet DEF Inv, StackInv
    <3>2. live[t] # {}
      BY <2>1, <3>1
    <3>3. stack[t] # <<>>
      BY <3>2 DEF Inv, StackInv, Unfinished
    <3>4. QED
      BY <3>3 DEF Inv, HolderInv
  <2>2. CASE holder = None
    BY <2>2, EnvAssumption DEF Inv, HolderInv
  <2>3. QED
    BY <2>1, <2>2 DEF Enter
<1>9. TypeOK'
  <2>1. env' \in [Keys -> Content]
    BY <1>1, <1>2, AppliedType DEF Env
  <2>2. stack' \in [Threads -> Seq(Scope)]
    BY <1>3, <1>5 DEF Inv, TypeOK
  <2>3. depth' \in [Threads -> Nat] /\ live' \in [Threads -> SUBSET (Nat \ {0})]
    BY <1>1 DEF Enter, Inv, TypeOK
  <2>4. QED
    BY <1>2, <2>1, <2>2, <2>3 DEF Inv, TypeOK
<1>10. StackInv'
  <2>1. live'[t] = live[t] \cup {top} /\ depth'[t] = depth[t] + 1
    BY DEF Enter, Inv, TypeOK
  <2>2. Unfinished(stack'[t]) = Unfinished(scopes) \cup {top}
    BY <1>1, <1>5, <1>7 DEF Unfinished
  <2>3. top \notin live[t]
    BY <1>1 DEF Inv, StackInv, Unfinished
  <2>4. Cardinality(live'[t]) = Cardinality(live[t]) + 1
    BY <2>1, <2>3, LiveFinite, FS_AddElement DEF Inv
  <2>5. /\ live'[t] = Unfinished(stack'[t])
        /\ depth'[t] = Cardinality(live'[t])
        /\ ~stack'[t][Len(stack'[t])].finished
    BY <1>5, <1>7, <2>1, <2>2, <2>4 DEF Inv, StackInv
  <2>6. QED
    BY <1>6, <2>5 DEF Inv, StackInv
<1>11. HolderInv'
  BY <1>1, <1>2, <1>5, <1>6, <1>8, EnvAssumption DEF Inv, HolderInv
<1>12. stack'[t] = Append(scopes, scope)
  BY <1>3 DEF Inv, TypeOK
<1>13. \A i \in 0..Len(scopes) : Restored(env', stack'[t], i) = Restored(env, scopes, i)
  BY <1>1, <1>2, <1>4, <1>7, <1>12, Push
<1>14. BaseInv'
  <2>1. Restored(env, scopes, 0) = base
    <3>1. CASE holder = t
      BY <3>1 DEF Inv, BaseInv
    <3>2. CASE holder = None /\ stack[t] = <<>>
      <4>1. \A k \in Keys : Covering(scopes, 0, k) = {}
        BY <3>2 DEF Covering
      <4>2. Restored(env, scopes, 0) = env
        BY <4>1, <1>1 DEF Restored, Env
      <4>3. QED
        BY <3>2, <4>2 DEF Inv, BaseInv
    <3>3. QED
      BY <1>8, <3>1, <3>2
  <2>2. Restored(env', stack'[t], 0) = base
    BY <2>1, <1>1, <1>13
  <2>3. QED
    BY <1>2, <2>2, EnvAssumption DEF BaseInv
<1>15. EffectInv'
  <2> SUFFICES ASSUME NEW u \in Threads, NEW i \in 1..Len(stack'[u]), NEW k \in Keys,
                      Mentions(stack'[u][i].vars, k) # {}
               PROVE  Restored(env', stack'[u], i)[k] = Applied(base, stack'[u][i].vars)[k]
    BY <1>2 DEF EffectInv
  <2>1. u = t
    BY <1>2, <1>11 DEF HolderInv
  <2>2. CASE i \in 1..Len(scopes)
    <3>1. Restored(env', stack'[t], i) = Restored(env, scopes, i)
      BY <2>2, <1>13, <1>1
    <3>2. QED
      BY <2>1, <2>2, <3>1, <1>5 DEF Inv, EffectInv
  <2>3. CASE i = top
    <3>1. Covering(stack'[t], i, k) = {}
      BY <2>3, <1>1, <1>5 DEF Covering
    <3>2. Restored(env', stack'[t], i)[k] = Applied(env, pairs)[k]
      BY <3>1, <1>2 DEF Restored
    <3>3. stack'[t][i].vars = pairs
      BY <2>3, <1>5, <1>7
    <3>4. QED
      BY <2>1, <3>2, <3>3 DEF Applied
  <2>4. QED
    BY <2>1, <2>2, <2>3, <1>1, <1>5
<1>16. QED
  BY <1>9, <1>10, <1>11, <1>14, <1>15 DEF Inv

\* No drop finds the stack corrupt.
LEMMA LiveNotCorrupt ==
  ASSUME Inv, NEW t \in Threads, NEW i \in live[t]
  PROVE  ~Corrupt(t, i) /\ holder = t
<1>1. i \in 1..Len(stack[t]) /\ ~stack[t][i].finished
  BY DEF Inv, StackInv, Unfinished
<1>2. depth[t] # 0
  <2>1. IsFiniteSet(live[t])
    BY LiveFinite DEF Inv
  <2>2. depth[t] = Cardinality(live[t])
    BY DEF Inv, StackInv
  <2>3. QED
    BY <2>1, <2>2, FS_EmptySet
<1>3. holder = t
  BY <1>1 DEF Inv, HolderInv
<1>4. QED
  BY <1>1, <1>2, <1>3 DEF Corrupt

\* Dropping a guard: whatever its place on the stack, the scopes that stay are
\* undone to the same values as before.
LEMMA ExitStep ==
  ASSUME Inv, NEW t \in Threads, NEW i \in live[t], Exit(t, i)
  PROVE  Inv'
<1> DEFINE scopes == stack[t]
           marked == Finish(scopes, i)
           n == Kept(marked)
<1>1. env \in Env /\ scopes \in Seq(Scope) /\ Len(scopes) \in Nat /\ i \in 1..Len(scopes)
  BY DEF Inv, TypeOK, StackInv, Unfinished, Env
<1>2. FinishScope(t, i) /\ holder = t
  BY LiveNotCorrupt DEF Exit
<1>3. env' = Restored(env, marked, n) /\ stack' = [stack EXCEPT ![t] = SubSeq(marked, 1, n)]
  BY <1>2 DEF FinishScope, Finish
<1>4. /\ marked \in Seq(Scope) /\ Len(marked) = Len(scopes) /\ marked[i].finished
      /\ \A m \in 1..Len(scopes) :
           marked[m].vars = scopes[m].vars /\ (m # i => marked[m].finished = scopes[m].finished)
  BY <1>1, Marked
<1>5. \A m \in Nat : Restored(env, marked, m) = Restored(env, scopes, m)
  BY <1>1, Marked
<1> HIDE DEF marked
<1>6. n \in 0..Len(scopes) /\ Unfinished(marked) \subseteq 1..n /\ (n # 0 => ~marked[n].finished)
  BY <1>4, KeptTop
<1> HIDE DEF n
<1>7. /\ stack'[t] = SubSeq(marked, 1, n) /\ stack'[t] \in Seq(Scope) /\ Len(stack'[t]) = n
      /\ \A m \in 1..n : stack'[t][m] = marked[m]
  BY <1>1, <1>3, <1>4, <1>6 DEF Inv, TypeOK
<1>8. base' = base /\ \A u \in Threads : u # t => stack'[u] = stack[u] /\ live'[u] = live[u]
                                                   /\ depth'[u] = depth[u]
  BY <1>2, <1>3 DEF Exit, FinishScope, Inv, TypeOK
<1>9. live'[t] = live[t] \ {i} /\ depth'[t] = depth[t] - 1
  BY <1>2 DEF Exit, FinishScope, Inv, TypeOK
<1>10. Unfinished(marked) = Unfinished(scopes) \ {i}
  BY <1>4 DEF Unfinished
<1>11. Unfinished(stack'[t]) = Unfinished(marked)
  BY <1>1, <1>4, <1>6, <1>7 DEF Unfinished
<1>12. live'[t] = Unfinished(stack'[t])
  BY <1>9, <1>10, <1>11 DEF Inv, StackInv
<1>13. Cardinality(live'[t]) = depth[t] - 1 /\ IsFiniteSet(live'[t])
  BY <1>9, LiveFinite, FS_RemoveElement DEF Inv, StackInv
<1>14. depth[t] - 1 \in Nat
  BY <1>13, FS_CardinalityType
<1>15. TypeOK'
  <2>1. env' \in [Keys -> Content]
    BY <1>1, <1>3, <1>4, <1>6, RestoredType DEF Env
  <2>2. stack' \in [Threads -> Seq(Scope)]
    BY <1>3, <1>7 DEF Inv, TypeOK
  <2>3. depth' \in [Threads -> Nat] /\ live' \in [Threads -> SUBSET (Nat \ {0})]
    BY <1>2, <1>14 DEF Exit, FinishScope, Inv, TypeOK
  <2>4. holder' \in Threads \cup {None}
    BY <1>2 DEF FinishScope
  <2>5. QED
    BY <1>8, <2>1, <2>2, <2>3, <2>4 DEF Inv, TypeOK
<1>16. StackInv'
  <2>1. stack'[t] # <<>> => ~stack'[t][Len(stack'[t])].finished
    BY <1>6, <1>7
  <2>2. QED
    BY <1>8, <1>9, <1>12, <1>13, <2>1 DEF Inv, StackInv
<1>17. holder' = IF stack'[t] = <<>> THEN None ELSE t
  <2>1. depth[t] = 1 <=> live'[t] = {}
    BY <1>13, FS_EmptySet DEF Inv, TypeOK
  <2>2. live'[t] = {} <=> n = 0
    BY <1>6, <1>7, <1>12 DEF Unfinished
  <2>3. n = 0 <=> stack'[t] = <<>>
    <3>1. \A scs \in Seq(Scope) : Len(scs) = 0 <=> scs = <<>>
      OBVIOUS
    <3>2. QED
      BY <1>7, <3>1
  <2>4. QED
    BY <1>2, <2>1, <2>2, <2>3 DEF FinishScope
<1>18. HolderInv'
  BY <1>2, <1>8, <1>17, EnvAssumption DEF Inv, HolderInv
<1>19. ASSUME NEW m \in 0..n PROVE Restored(env', stack'[t], m) = Restored(env, scopes, m)
  <2>1. Restored(Restored(env, marked, n), SubSeq(marked, 1, n), m) = Restored(env, marked, m)
    BY <1>1, <1>4, <1>6, Pop
  <2>2. Restored(env, marked, m) = Restored(env, scopes, m)
    BY <1>5, <1>6
  <2>3. QED
    BY <1>3, <1>7, <2>1, <2>2
<1>20. Restored(env', stack'[t], 0) = base
  BY <1>2, <1>6, <1>19 DEF Inv, BaseInv
<1>21. BaseInv'
  <2>1. CASE stack'[t] = <<>>
    <3>1. \A k \in Keys : Covering(stack'[t], 0, k) = {}
      BY <2>1 DEF Covering
    <3>2. env' \in [Keys -> Content]
      BY <1>15 DEF TypeOK
    <3>3. Restored(env', stack'[t], 0) = env'
      BY <3>1, <3>2 DEF Restored
    <3>4. QED
      BY <1>8, <1>17, <1>20, <2>1, <3>3, EnvAssumption DEF BaseInv
  <2>2. CASE stack'[t] # <<>>
    BY <1>8, <1>17, <1>20, <2>2, EnvAssumption DEF BaseInv
  <2>3. QED
    BY <2>1, <2>2
<1>22. EffectInv'
  <2> SUFFICES ASSUME NEW u \in Threads, NEW m \in 1..Len(stack'[u]), NEW k \in Keys,
                      Mentions(stack'[u][m].vars, k) # {}
               PROVE  Restored(env', stack'[u], m)[k] = Applied(base, stack'[u][m].vars)[k]
    BY <1>8 DEF EffectInv
  <2>1. u = t
    BY <1>2, <1>8 DEF Inv, HolderInv
  <2>2. m \in 1..n /\ m \in 1..Len(scopes) /\ stack'[t][m].vars = scopes[m].vars
    BY <2>1, <1>1, <1>4, <1>6, <1>7
  <2>3. Restored(env', stack'[t], m) = Restored(env, scopes, m)
    BY <2>2, <1>19, <1>6
  <2>4. QED
    BY <2>1, <2>2, <2>3 DEF Inv, EffectInv
<1>23. QED
  BY <1>15, <1>16, <1>18, <1>21, <1>22 DEF Inv

\* A thread that ends takes its scopes with it; what they set becomes part of
\* the environment outside all scopes.
LEMMA ThreadEndsStep ==
  ASSUME Inv, NEW t \in Threads, ThreadEnds(t)
  PROVE  Inv'
<1>1. holder = t
  BY LiveNotCorrupt DEF ThreadEnds
<1>2. holder' = None /\ env' = env /\ base' = env
  BY <1>1 DEF ThreadEnds
<1>3. stack'[t] = <<>> /\ live'[t] = {} /\ depth'[t] = 0
  BY DEF ThreadEnds, Inv, TypeOK
<1>4. \A u \in Threads : u # t => stack'[u] = stack[u] /\ live'[u] = live[u] /\ depth'[u] = depth[u]
  BY DEF ThreadEnds, Inv, TypeOK
<1>5. TypeOK'
  BY <1>2 DEF ThreadEnds, Inv, TypeOK
<1>6. StackInv'
  <2>1. live'[t] = Unfinished(stack'[t])
    BY <1>3 DEF Unfinished
  <2>2. depth'[t] = Cardinality(live'[t])
    BY <1>3, FS_EmptySet
  <2>3. QED
    BY <1>3, <1>4, <2>1, <2>2 DEF Inv, StackInv
<1>7. \A u \in Threads : stack'[u] = <<>>
  BY <1>1, <1>3, <1>4 DEF Inv, HolderInv
<1>8. HolderInv' /\ BaseInv' /\ EffectInv'
  BY <1>2, <1>7, EnvAssumption DEF HolderInv, BaseInv, EffectInv
<1>9. QED
  BY <1>5, <1>6, <1>8 DEF Inv

\* Every step keeps the invariant.
LEMMA InvStep == Inv /\ [Next]_vars => Inv'
<1> SUFFICES ASSUME Inv, [Next]_vars PROVE Inv'
  OBVIOUS
<1>1. ASSUME NEW t \in Threads, NEW pairs \in Changes, Enter(t, pairs) PROVE Inv'
  BY <1>1, EnterStep
<1>2. ASSUME NEW t \in Threads, NEW i \in live[t], Exit(t, i) PROVE Inv'
  BY <1>2, ExitStep
<1>3. ASSUME NEW t \in Threads, ThreadEnds(t) PROVE Inv'
  BY <1>3, ThreadEndsStep
<1>4. CASE UNCHANGED vars
  BY <1>4 DEF vars, Inv, TypeOK, StackInv, HolderInv, BaseInv, EffectInv
<1>5. QED
  BY <1>1, <1>2, <1>3, <1>4 DEF Next

\* The invariant holds of the specification.
LEMMA Invariant == Spec => []Inv
  BY InvInit, InvStep, PTL DEF Spec

-----------------------------------------------------------------------------
(* What the steps do to the lock and the living guards, for the modules    *)
(* that use this one.                                                      *)

\* The thread with the lock is the one with living guards.
LEMMA HolderLives ==
  ASSUME Inv, NEW t \in Threads
  PROVE  holder = t <=> live[t] # {}
<1>1. ASSUME live[t] # {} PROVE holder = t
  BY <1>1, LiveNotCorrupt
<1>2. ASSUME holder = t PROVE live[t] # {}
  <2>1. stack[t] # <<>> /\ stack[t] \in Seq(Scope)
    BY <1>2 DEF Inv, HolderInv, TypeOK
  <2>2. Len(stack[t]) \in Unfinished(stack[t])
    BY <2>1 DEF Inv, StackInv, Unfinished
  <2>3. QED
    BY <2>2 DEF Inv, StackInv
<1>3. QED
  BY <1>1, <1>2

\* A new scope has an index of its own and is opened under the lock.
LEMMA EnterEffect ==
  ASSUME Inv, NEW t \in Threads, NEW pairs \in Changes, Enter(t, pairs)
  PROVE  /\ holder \in {t, None} /\ holder' = t
         /\ Len(stack[t]) + 1 \in Nat \ {0} /\ Len(stack[t]) + 1 \notin live[t]
         /\ live' = [live EXCEPT ![t] = live[t] \cup {Len(stack[t]) + 1}]
<1>1. Len(stack[t]) \in Nat
  BY DEF Inv, TypeOK
<1>2. Len(stack[t]) + 1 \notin live[t]
  BY <1>1 DEF Inv, StackInv, Unfinished
<1>3. holder \in {t, None}
  <2>1. CASE depth[t] > 0
    <3>1. depth[t] = Cardinality(live[t]) /\ Cardinality({}) = 0
      BY FS_EmptySet DEF Inv, StackInv
    <3>2. live[t] # {}
      BY <2>1, <3>1
    <3>3. QED
      BY <3>2, HolderLives
  <2>2. CASE holder = None
    BY <2>2
  <2>3. QED
    BY <2>1, <2>2 DEF Enter
<1>4. QED
  BY <1>1, <1>2, <1>3 DEF Enter

\* The last guard dropped gives the lock back.
LEMMA ExitEffect ==
  ASSUME Inv, NEW t \in Threads, NEW i \in live[t], Exit(t, i)
  PROVE  /\ holder = t
         /\ holder' = IF live[t] = {i} THEN None ELSE t
         /\ live' = [live EXCEPT ![t] = live[t] \ {i}]
<1>1. FinishScope(t, i) /\ holder = t /\ live' = [live EXCEPT ![t] = live[t] \ {i}]
  BY LiveNotCorrupt DEF Exit
<1> DEFINE rest == live[t] \ {i}
<1>2. rest = {} <=> live[t] = {i}
  OBVIOUS
<1>3. Cardinality(rest) = depth[t] - 1 /\ IsFiniteSet(rest)
  BY LiveFinite, FS_RemoveElement DEF Inv, StackInv
<1> HIDE DEF rest
<1>4. depth[t] = 1 <=> rest = {}
  BY <1>3, FS_EmptySet DEF Inv, TypeOK
<1>5. QED
  BY <1>1, <1>2, <1>4 DEF FinishScope

-----------------------------------------------------------------------------
(* The theorems.                                                           *)

\* Every reachable state has the types the code's structures have: in
\* particular depth never underflows (finish_scope).
THEOREM EnvTypeCorrect == Spec => []TypeOK
<1>1. Inv => TypeOK
  BY DEF Inv
<1>2. QED
  BY <1>1, Invariant, PTL

\* No order of drops reaches the states exit_scope reports as corruption, and
\* a thread has the lock exactly while one of its guards lives.
THEOREM NeverCorrupt == Spec => []NoCorruption
<1>1. Inv => NoCorruption
  BY LiveNotCorrupt, HolderLives DEF NoCorruption
<1>2. QED
  BY <1>1, Invariant, PTL

\* With no scope open the environment is the one outside all scopes.
THEOREM EnvironmentRestored == Spec => []EnvRestored
<1>1. Inv => EnvRestored
  BY DEF Inv, BaseInv, EnvRestored
<1>2. QED
  BY <1>1, Invariant, PTL

\* A living guard's variables have the values it set, unless a later scope of
\* the thread covers them.
THEOREM ScopesInEffect == Spec => []ScopeInEffect
<1>1. Inv => ScopeInEffect
  <2> SUFFICES ASSUME Inv, NEW t \in Threads, NEW i \in live[t], NEW k \in Keys,
                      Mentions(stack[t][i].vars, k) # {}, Covering(stack[t], i, k) = {}
               PROVE  env[k] = Applied(base, stack[t][i].vars)[k]
    BY DEF ScopeInEffect
  <2>1. i \in 1..Len(stack[t])
    BY DEF Inv, StackInv, Unfinished
  <2>2. Restored(env, stack[t], i)[k] = Applied(base, stack[t][i].vars)[k]
    BY <2>1 DEF Inv, EffectInv
  <2>3. Restored(env, stack[t], i)[k] = env[k]
    BY DEF Restored
  <2>4. QED
    BY <2>2, <2>3
<1>2. QED
  BY <1>1, Invariant, PTL

\* In every reachable state the loops of apply_env_vars, restore_finished_scopes
\* and restore_all_scopes compute what the steps of the specification write, for
\* lists and stacks of any length.
THEOREM LoopsCompute == Spec => []LoopsAgree
<1>1. ASSUME Inv
      PROVE  LoopsAgree
  <2>1. env \in Env /\ \A t \in Threads : stack[t] \in Seq(Scope)
    BY <1>1 DEF Inv, TypeOK, Env
  <2>2. ASSUME NEW pairs \in Changes
        PROVE  ApplyLoop(env, pairs) = [env |-> Applied(env, pairs), saved |-> Saved(env, pairs)]
    <3>1. pairs \in Pairs
      BY EnvAssumption DEF Pairs
    <3>2. QED
      BY <2>1, <3>1, ApplyLoopComputes
  <2>3. ASSUME NEW t \in Threads, NEW i \in live[t]
        PROVE  LET scopes == [stack[t] EXCEPT ![i].finished = TRUE]
               IN PopLoop(env, scopes, FALSE) =
                    [env |-> Restored(env, scopes, Kept(scopes)), kept |-> Kept(scopes)]
    <3> DEFINE scopes == Finish(stack[t], i)
    <3>1. i \in 1..Len(stack[t])
      BY <1>1 DEF Inv, StackInv, Unfinished
    <3>2. scopes \in Seq(Scope)
      BY <2>1, <3>1, Marked
    <3> HIDE DEF scopes
    <3>3. /\ Kept(scopes) \in 0..Len(scopes)
          /\ Kept(scopes) > 0 => ~(FALSE \/ scopes[Kept(scopes)].finished)
          /\ \A m \in (Kept(scopes) + 1)..Len(scopes) : FALSE \/ scopes[m].finished
      BY <3>2, KeptTop DEF Unfinished
    <3>4. PopLoop(env, scopes, FALSE) =
            [env |-> Restored(env, scopes, Kept(scopes)), kept |-> Kept(scopes)]
      BY <2>1, <3>2, <3>3, PopLoopComputes
    <3>5. QED
      BY <3>4 DEF scopes, Finish
  <2>4. ASSUME NEW t \in Threads
        PROVE  PopLoop(env, stack[t], TRUE) = [env |-> Restored(env, stack[t], 0), kept |-> 0]
    <3>1. stack[t] \in Seq(Scope) /\ 0 \in 0..Len(stack[t])
      BY <2>1
    <3>2. 0 > 0 => ~(TRUE \/ stack[t][0].finished)
      OBVIOUS
    <3>3. \A m \in (0 + 1)..Len(stack[t]) : TRUE \/ stack[t][m].finished
      OBVIOUS
    <3>4. QED
      BY <2>1, <3>1, <3>2, <3>3, PopLoopComputes
  <2>5. QED
    BY <2>2, <2>3, <2>4 DEF LoopsAgree
<1>2. QED
  BY <1>1, Invariant, PTL
=============================================================================
