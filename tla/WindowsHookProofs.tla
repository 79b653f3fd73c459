------------------------- MODULE WindowsHookProofs -------------------------
(***************************************************************************)
(* What holds of WindowsHook for any finite set of processes and any PIDs. *)
(*                                                                         *)
(* First the walks: the rows of the two recursive functions exist, the     *)
(* walk up from a process and the closure down from the root see the same  *)
(* chains of parent PIDs, and no chain needs more steps than the snapshot  *)
(* has entries.  Then the steps.                                           *)
(***************************************************************************)
EXTENDS WindowsHook, FiniteSetTheorems, WellFoundedInduction, TLAPS

-----------------------------------------------------------------------------
(* The walks.                                                              *)

\* Where something fails for a natural number, it fails for a least one.
LEMMA LeastOf ==
  ASSUME NEW S \in SUBSET Nat, S # {}
  PROVE  \E m \in S : \A k \in S : m <= k
<1>1. OpToRel(<, Nat) = {ss \in Nat \X Nat : ss[1] < ss[2]}
  BY DEF OpToRel
<1>2. PICK m \in S : \A k \in S : <<k, m>> \notin OpToRel(<, Nat)
  BY NatLessThanWellFounded, WFMin
<1>3. \A k \in S : <<k, m>> \notin {ss \in Nat \X Nat : ss[1] < ss[2]}
  BY <1>1, <1>2
<1>4. \A k \in S : ~(k < m)
  BY <1>3
<1>5. QED
  BY <1>4

\* The functions that HasRootAncestor and CollectTree define, with n rows.
AscentOf(f, p, E, n) ==
  f = [i \in 0..n |-> IF i = 0 THEN {p} ELSE {q \in E : \E r \in f[i - 1] : pid[q] = parent[r]}]

LevelsOf(f, E, n) ==
  f = [i \in 0..n |->
         IF i = 0 THEN {p \in E : parent[p] = pid[Server]}
         ELSE f[i - 1] \cup {p \in E : \E q \in f[i - 1] : parent[p] = pid[q]}]

Ascent(p, E) == CHOOSE f : AscentOf(f, p, E, Cardinality(E))
Levels(E) == CHOOSE f : LevelsOf(f, E, Cardinality(E))

\* The walk up exists.
LEMMA AscentExists ==
  ASSUME NEW p, NEW E, NEW n \in Nat
  PROVE  \E f : AscentOf(f, p, E, n)
<1> DEFINE S == {m \in Nat : ~\E f : AscentOf(f, p, E, m)}
<1> SUFFICES ASSUME S # {} PROVE FALSE
  OBVIOUS
<1>1. PICK m \in S : \A k \in S : m <= k
  BY LeastOf
<1>2. m \in Nat /\ ~\E f : AscentOf(f, p, E, m)
  BY <1>1
<1>3. m # 0
  <2> SUFFICES ASSUME m = 0 PROVE \E f : AscentOf(f, p, E, m)
    BY <1>2
  <2>1. AscentOf([i \in 0..m |-> {p}], p, E, m)
    BY DEF AscentOf
  <2>2. QED
    BY <2>1
<1>4. m - 1 \in Nat /\ m - 1 \notin S
  BY <1>1, <1>2, <1>3
<1>5. PICK f : AscentOf(f, p, E, m - 1)
  BY <1>4
<1> HIDE DEF S
<1> DEFINE step(s) == {q \in E : \E r \in s : pid[q] = parent[r]}
<1> DEFINE g == [i \in 0..m |-> IF i = m THEN step(f[m - 1]) ELSE f[i]]
<1>6. \A i \in 0..(m - 1) : f[i] = IF i = 0 THEN {p} ELSE step(f[i - 1])
  BY <1>5 DEF AscentOf
<1>7. g[0] = {p} /\ \A i \in 1..m : g[i] = step(g[i - 1])
  <2> HIDE DEF step
  <2>1. \A i \in 0..(m - 1) : g[i] = f[i]
    BY <1>2
  <2>2. g[m] = step(f[m - 1])
    BY <1>2
  <2>3. \A i \in 1..m : i = m \/ i \in 1..(m - 1)
    BY <1>2
  <2> HIDE DEF g
  <2>4. \A i \in 1..(m - 1) : g[i] = step(g[i - 1])
    BY <2>1, <1>2, <1>4, <1>6
  <2>5. g[m] = step(g[m - 1])
    BY <2>1, <2>2, <1>4
  <2>6. QED
    BY <2>1, <2>3, <2>4, <2>5, <1>4, <1>6
<1>8. AscentOf(g, p, E, m)
  <2>1. \A i \in 0..m : g[i] = IF i = 0 THEN {p} ELSE step(g[i - 1])
    <3> HIDE DEF step, g
    <3>1. QED
      BY <1>7, <1>2
  <2>2. g = [i \in 0..m |-> g[i]]
    OBVIOUS
  <2> HIDE DEF g
  <2>3. QED
    BY <2>1, <2>2 DEF AscentOf
<1>9. QED
  BY <1>2, <1>8

\* The closure down exists.
LEMMA LevelsExist ==
  ASSUME NEW E, NEW n \in Nat
  PROVE  \E f : LevelsOf(f, E, n)
<1> DEFINE S == {m \in Nat : ~\E f : LevelsOf(f, E, m)}
<1> SUFFICES ASSUME S # {} PROVE FALSE
  OBVIOUS
<1> DEFINE base == {p \in E : parent[p] = pid[Server]}
           step(s) == s \cup {p \in E : \E q \in s : parent[p] = pid[q]}
<1>1. PICK m \in S : \A k \in S : m <= k
  BY LeastOf
<1>2. m \in Nat /\ ~\E f : LevelsOf(f, E, m)
  BY <1>1
<1>3. m # 0
  <2> SUFFICES ASSUME m = 0 PROVE \E f : LevelsOf(f, E, m)
    BY <1>2
  <2>1. LevelsOf([i \in 0..m |-> base], E, m)
    BY DEF LevelsOf
  <2>2. QED
    BY <2>1
<1>4. m - 1 \in Nat /\ m - 1 \notin S
  BY <1>1, <1>2, <1>3
<1>5. PICK f : LevelsOf(f, E, m - 1)
  BY <1>4
<1> HIDE DEF S
<1> DEFINE g == [i \in 0..m |-> IF i = m THEN step(f[m - 1]) ELSE f[i]]
<1>6. \A i \in 0..(m - 1) : f[i] = IF i = 0 THEN base ELSE step(f[i - 1])
  BY <1>5 DEF LevelsOf
<1>7. g[0] = base /\ \A i \in 1..m : g[i] = step(g[i - 1])
  <2> HIDE DEF step, base
  <2>1. \A i \in 0..(m - 1) : g[i] = f[i]
    BY <1>2
  <2>2. g[m] = step(f[m - 1])
    BY <1>2
  <2>3. \A i \in 1..m : i = m \/ i \in 1..(m - 1)
    BY <1>2
  <2> HIDE DEF g
  <2>4. \A i \in 1..(m - 1) : g[i] = step(g[i - 1])
    BY <2>1, <1>2, <1>4, <1>6
  <2>5. g[m] = step(g[m - 1])
    BY <2>1, <2>2, <1>4
  <2>6. QED
    BY <2>1, <2>3, <2>4, <2>5, <1>4, <1>6
<1>8. LevelsOf(g, E, m)
  <2>1. \A i \in 0..m : g[i] = IF i = 0 THEN base ELSE step(g[i - 1])
    <3> HIDE DEF step, g, base
    <3>1. QED
      BY <1>7, <1>2
  <2>2. g = [i \in 0..m |-> g[i]]
    OBVIOUS
  <2> HIDE DEF g
  <2>3. QED
    BY <2>1, <2>2 DEF LevelsOf
<1>9. QED
  BY <1>2, <1>8

\* The walk up, row by row, and what HasRootAncestor asks of it.
LEMMA AscentRows ==
  ASSUME NEW E, Cardinality(E) \in Nat, NEW p
  PROVE  /\ Ascent(p, E)[0] = {p}
         /\ \A n \in 1..Cardinality(E) :
              Ascent(p, E)[n] = {q \in E : \E r \in Ascent(p, E)[n - 1] : pid[q] = parent[r]}
         /\ HasRootAncestor(p, E) <=>
              \E n \in 1..Cardinality(E) : \E q \in Ascent(p, E)[n - 1] : parent[q] = pid[Server]
<1>1. \E f : AscentOf(f, p, E, Cardinality(E))
  BY AscentExists
<1>2. AscentOf(Ascent(p, E), p, E, Cardinality(E))
  BY <1>1, Zenon DEF Ascent
<1>3. HasRootAncestor(p, E) <=>
        \E n \in 1..Cardinality(E) : \E q \in Ascent(p, E)[n - 1] : parent[q] = pid[Server]
  BY Zenon DEF HasRootAncestor, Ascent, AscentOf
<1>4. \A n \in 0..Cardinality(E) :
        Ascent(p, E)[n] = IF n = 0 THEN {p}
                          ELSE {q \in E : \E r \in Ascent(p, E)[n - 1] : pid[q] = parent[r]}
  BY <1>2 DEF AscentOf
<1>5. 0 \in 0..Cardinality(E) /\ \A n \in 1..Cardinality(E) : n \in 0..Cardinality(E) /\ n # 0
  OBVIOUS
<1>6. QED
  BY <1>3, <1>4, <1>5, Zenon

\* The closure down, level by level, and what CollectTree takes of it.
LEMMA LevelRows ==
  ASSUME NEW E, Cardinality(E) \in Nat
  PROVE  /\ Levels(E)[0] = {p \in E : parent[p] = pid[Server]}
         /\ \A n \in 1..Cardinality(E) :
              Levels(E)[n] = Levels(E)[n - 1] \cup
                               {p \in E : \E q \in Levels(E)[n - 1] : parent[p] = pid[q]}
         /\ CollectTree(E) = Levels(E)[Cardinality(E)] \ {Server}
<1>1. \E f : LevelsOf(f, E, Cardinality(E))
  BY LevelsExist
<1>2. LevelsOf(Levels(E), E, Cardinality(E))
  BY <1>1, Zenon DEF Levels
<1>3. CollectTree(E) = Levels(E)[Cardinality(E)] \ {Server}
  BY Zenon DEF CollectTree, Levels, LevelsOf
<1>4. \A n \in 0..Cardinality(E) :
        Levels(E)[n] = IF n = 0 THEN {p \in E : parent[p] = pid[Server]}
                       ELSE Levels(E)[n - 1] \cup
                              {p \in E : \E q \in Levels(E)[n - 1] : parent[p] = pid[q]}
  BY <1>2 DEF LevelsOf
<1>5. 0 \in 0..Cardinality(E) /\ \A n \in 1..Cardinality(E) : n \in 0..Cardinality(E) /\ n # 0
  OBVIOUS
<1>6. QED
  BY <1>3, <1>4, <1>5, Zenon

\* The levels grow, within the snapshot.
LEMMA LevelsGrow ==
  ASSUME NEW E, Cardinality(E) \in Nat
  PROVE  \A n \in 0..Cardinality(E) :
           Levels(E)[0] \subseteq Levels(E)[n] /\ Levels(E)[n] \subseteq E
<1> DEFINE S == {n \in 0..Cardinality(E) : ~(/\ Levels(E)[0] \subseteq Levels(E)[n]
                                             /\ Levels(E)[n] \subseteq E)}
<1> SUFFICES ASSUME S # {} PROVE FALSE
  OBVIOUS
<1>1. PICK m \in S : \A k \in S : m <= k
  <2>1. S \in SUBSET Nat
    OBVIOUS
  <2>2. QED
    BY <2>1, LeastOf
<1>2. m \in 0..Cardinality(E)
  BY <1>1
<1>3. m # 0
  BY <1>1, LevelRows
<1>4. m - 1 \in 0..Cardinality(E) /\ m \in 1..Cardinality(E)
  BY <1>2, <1>3
<1>5. m - 1 \notin S
  BY <1>1, <1>2
<1>6. Levels(E)[0] \subseteq Levels(E)[m - 1] /\ Levels(E)[m - 1] \subseteq E
  BY <1>4, <1>5
<1>7. Levels(E)[0] \subseteq Levels(E)[m] /\ Levels(E)[m] \subseteq E
  BY <1>4, <1>6, LevelRows
<1>8. QED
  BY <1>1, <1>7

\* A level that is new has at least as many members as there are levels up to it.
LEMMA LevelSize ==
  ASSUME NEW E, IsFiniteSet(E), NEW n \in 1..Cardinality(E), Levels(E)[n] # Levels(E)[n - 1]
  PROVE  Cardinality(Levels(E)[n]) > n
<1> DEFINE K == Cardinality(E)
           L == Levels(E)
<1>1. K \in Nat
  BY FS_CardinalityType
<1>2. /\ \A i \in 1..K : L[i] = L[i - 1] \cup {p \in E : \E q \in L[i - 1] : parent[p] = pid[q]}
      /\ \A i \in 0..K : IsFiniteSet(L[i]) /\ Cardinality(L[i]) \in Nat
  BY <1>1, LevelRows, LevelsGrow, FS_Subset, FS_CardinalityType
<1> HIDE DEF K, L
<1>3. \A i \in 1..K : L[i - 1] \subseteq L[i]
  BY <1>2
<1> DEFINE S == {i \in 1..K : L[i] # L[i - 1] /\ ~(Cardinality(L[i]) > i)}
<1> SUFFICES ASSUME S # {} PROVE FALSE
  <2>1. n \in 1..K /\ L[n] # L[n - 1]
    BY DEF K, L
  <2>2. Cardinality(L[n]) > n
    BY <2>1
  <2>3. QED
    BY <2>2 DEF L
<1>4. PICK m \in S : \A k \in S : m <= k
  <2>1. S \in SUBSET Nat
    OBVIOUS
  <2>2. QED
    BY <2>1, LeastOf
<1>5. m \in 1..K /\ L[m] # L[m - 1] /\ ~(Cardinality(L[m]) > m)
  BY <1>4
<1>6. m - 1 \in 0..K /\ m \in 0..K /\ L[m - 1] \subseteq L[m]
  BY <1>1, <1>3, <1>5
<1>7. L[m - 1] # {}
  BY <1>2, <1>5
<1>8. Cardinality(L[m - 1]) < Cardinality(L[m])
  <2>1. /\ IsFiniteSet(L[m]) /\ IsFiniteSet(L[m - 1])
        /\ Cardinality(L[m]) \in Nat /\ Cardinality(L[m - 1]) \in Nat
    BY <1>2, <1>6
  <2>2. Cardinality(L[m - 1]) <= Cardinality(L[m])
    BY <1>6, <2>1, FS_Subset
  <2>3. Cardinality(L[m - 1]) # Cardinality(L[m])
    BY <1>5, <1>6, <2>1, FS_Subset
  <2>4. QED
    BY <2>1, <2>2, <2>3
<1>9. Cardinality(L[m - 1]) > m - 1
  <2>1. CASE m = 1
    <3>1. Cardinality(L[0]) # 0 /\ Cardinality(L[0]) \in Nat
      BY <2>1, <1>2, <1>6, <1>7, FS_EmptySet
    <3>2. QED
      BY <2>1, <3>1
  <2>2. CASE m # 1
    <3>1. m - 1 \in 1..K /\ m - 1 \notin S
      BY <2>2, <1>1, <1>4, <1>5
    <3>2. L[m - 1] # L[m - 2]
      <4> SUFFICES ASSUME L[m - 1] = L[m - 2] PROVE FALSE
        OBVIOUS
      <4>1. L[m - 1] = L[m - 2] \cup {p \in E : \E q \in L[m - 2] : parent[p] = pid[q]}
        <5>1. (m - 1) - 1 = m - 2
          BY <1>5, <1>1
        <5>2. QED
          BY <5>1, <3>1, <1>2
      <4>2. L[m] = L[m - 1] \cup {p \in E : \E q \in L[m - 1] : parent[p] = pid[q]}
        BY <1>2, <1>5
      <4>3. QED
        BY <4>1, <4>2, <1>5
    <3>3. (m - 1) - 1 = m - 2
      BY <1>5, <1>1
    <3>4. QED
      BY <3>1, <3>2, <3>3
  <2>3. QED
    BY <2>1, <2>2
<1>10. Cardinality(L[m]) \in Nat /\ Cardinality(L[m - 1]) \in Nat /\ m \in Nat
  BY <1>1, <1>2, <1>5, <1>6
<1>11. QED
  BY <1>5, <1>8, <1>9, <1>10

\* The last level is not new: the walk up may stop one step earlier.
LEMMA LastLevel ==
  ASSUME NEW E, IsFiniteSet(E), E # {}
  PROVE  /\ Cardinality(E) \in Nat \ {0}
         /\ Levels(E)[Cardinality(E)] = Levels(E)[Cardinality(E) - 1]
<1>1. Cardinality(E) \in Nat \ {0}
  BY FS_CardinalityType, FS_EmptySet
<1>2. Cardinality(E) \in 1..Cardinality(E) /\ Cardinality(E) \in 0..Cardinality(E)
  BY <1>1
<1>3. Levels(E)[Cardinality(E)] \subseteq E
  BY <1>1, <1>2, LevelsGrow
<1>4. /\ Cardinality(Levels(E)[Cardinality(E)]) <= Cardinality(E)
      /\ Cardinality(Levels(E)[Cardinality(E)]) \in Nat
  BY <1>3, FS_Subset, FS_CardinalityType
<1>5. ~(Cardinality(Levels(E)[Cardinality(E)]) > Cardinality(E))
  BY <1>1, <1>4
<1>6. QED
  BY <1>1, <1>2, <1>5, LevelSize

\* Every walk stays in the snapshot.
LEMMA AscentWithin ==
  ASSUME NEW E, Cardinality(E) \in Nat, NEW p \in E, NEW n \in 0..Cardinality(E)
  PROVE  Ascent(p, E)[n] \subseteq E
<1>1. CASE n = 0
  BY <1>1, AscentRows
<1>2. CASE n # 0
  <2>1. n \in 1..Cardinality(E)
    BY <1>2
  <2>2. QED
    BY <2>1, AscentRows
<1>3. QED
  BY <1>1, <1>2

\* The walk up from a process follows the one from its parent.
LEMMA AscentShift ==
  ASSUME NEW E, Cardinality(E) \in Nat, NEW p \in E, NEW q \in E, parent[p] = pid[q]
  PROVE  \A n \in 0..(Cardinality(E) - 1) : Ascent(q, E)[n] \subseteq Ascent(p, E)[n + 1]
<1> DEFINE K == Cardinality(E)
           U == Ascent(p, E)
           V == Ascent(q, E)
<1>1. K \in Nat
  OBVIOUS
<1>2. /\ U[0] = {p} /\ \A n \in 1..K : U[n] = {x \in E : \E r \in U[n - 1] : pid[x] = parent[r]}
      /\ V[0] = {q} /\ \A n \in 1..K : V[n] = {x \in E : \E r \in V[n - 1] : pid[x] = parent[r]}
  BY AscentRows
<1> HIDE DEF K, U, V
<1> DEFINE S == {n \in 0..(K - 1) : ~(V[n] \subseteq U[n + 1])}
<1> SUFFICES ASSUME S # {} PROVE FALSE
  BY DEF K, U, V
<1>3. PICK m \in S : \A k \in S : m <= k
  <2>1. S \in SUBSET Nat
    OBVIOUS
  <2>2. QED
    BY <2>1, LeastOf
<1>4. m \in 0..(K - 1) /\ m + 1 \in 1..K /\ (m + 1) - 1 = m /\ ~(V[m] \subseteq U[m + 1])
  BY <1>1, <1>3
<1>5. U[m + 1] = {x \in E : \E r \in U[m] : pid[x] = parent[r]}
  BY <1>2, <1>4
<1>6. CASE m = 0
  BY <1>2, <1>4, <1>5, <1>6
<1>7. CASE m # 0
  <2>1. m - 1 \in 0..(K - 1) /\ m \in 1..K /\ (m - 1) + 1 = m
    BY <1>1, <1>4, <1>7
  <2>2. m - 1 \notin S
    BY <1>3, <1>4
  <2>3. V[m - 1] \subseteq U[m]
    BY <2>1, <2>2
  <2>4. QED
    BY <1>2, <1>4, <1>5, <2>1, <2>3
<1>8. QED
  BY <1>6, <1>7

\* Who is in a level finds the root, in as many steps.
LEMMA LevelAscent ==
  ASSUME NEW E, Cardinality(E) \in Nat
  PROVE  \A n \in 0..(Cardinality(E) - 1) : \A p \in Levels(E)[n] :
           \E j \in 0..n : \E x \in Ascent(p, E)[j] : parent[x] = pid[Server]
<1> DEFINE K == Cardinality(E)
           L == Levels(E)
           Found(p, n) == \E j \in 0..n : \E x \in Ascent(p, E)[j] : parent[x] = pid[Server]
<1> DEFINE S == {n \in 0..(K - 1) : ~\A p \in L[n] : Found(p, n)}
<1> SUFFICES ASSUME S # {} PROVE FALSE
  OBVIOUS
<1>1. PICK m \in S : \A k \in S : m <= k
  <2>1. S \in SUBSET Nat
    OBVIOUS
  <2>2. QED
    BY <2>1, LeastOf
<1>2. m \in 0..(K - 1) /\ m \in Nat /\ K \in Nat
  BY <1>1
<1>3. PICK p \in L[m] : ~Found(p, m)
  BY <1>1
<1>4. \A k \in 0..(K - 1) : k < m => \A q \in L[k] : Found(q, k)
  BY <1>1, <1>2
<1> HIDE DEF S
<1>5. CASE m = 0
  <2>1. parent[p] = pid[Server] /\ p \in Ascent(p, E)[0] /\ 0 \in 0..m
    BY <1>2, <1>3, <1>5, LevelRows, AscentRows
  <2>2. QED
    BY <1>3, <2>1
<1>6. CASE m # 0
  <2>1. m - 1 \in 0..(K - 1) /\ m \in 1..K /\ m - 1 < m
    BY <1>2, <1>6
  <2>2. CASE p \in L[m - 1]
    <3>1. PICK j \in 0..(m - 1) : \E x \in Ascent(p, E)[j] : parent[x] = pid[Server]
      BY <1>4, <2>1, <2>2
    <3>2. j \in 0..m
      BY <1>2, <3>1
    <3>3. QED
      BY <1>3, <3>1, <3>2
  <2>3. CASE p \in E /\ \E q \in L[m - 1] : parent[p] = pid[q]
    <3>1. PICK q \in L[m - 1] : parent[p] = pid[q]
      BY <2>3
    <3>2. q \in E
      <4>1. m - 1 \in 0..K
        BY <1>2, <2>1
      <4>2. QED
        BY <3>1, <4>1, LevelsGrow
    <3>3. PICK j \in 0..(m - 1) : \E x \in Ascent(q, E)[j] : parent[x] = pid[Server]
      BY <1>4, <2>1, <3>1
    <3>4. j \in 0..(K - 1) /\ j + 1 \in 0..m
      BY <1>2, <3>3
    <3>5. Ascent(q, E)[j] \subseteq Ascent(p, E)[j + 1]
      BY <2>3, <3>1, <3>2, <3>4, AscentShift
    <3>6. QED
      BY <1>3, <3>3, <3>4, <3>5
  <2>4. QED
    BY <1>3, <2>1, <2>2, <2>3, LevelRows
<1>7. QED
  BY <1>5, <1>6

\* Who meets a level on the way up is in one, by as many steps further down.
LEMMA AscentLevel ==
  ASSUME NEW E, Cardinality(E) \in Nat, NEW p \in E
  PROVE  \A j \in 0..Cardinality(E) : \A n \in 0..(Cardinality(E) - j) :
           \A q \in Ascent(p, E)[j] : q \in Levels(E)[n] => p \in Levels(E)[n + j]
<1> DEFINE K == Cardinality(E)
           L == Levels(E)
           U == Ascent(p, E)
<1>1. K \in Nat
  OBVIOUS
<1>2. /\ U[0] = {p} /\ \A n \in 1..K : U[n] = {x \in E : \E r \in U[n - 1] : pid[x] = parent[r]}
      /\ \A n \in 1..K : L[n] = L[n - 1] \cup {x \in E : \E q \in L[n - 1] : parent[x] = pid[q]}
      /\ \A n \in 0..K : U[n] \subseteq E
  BY AscentRows, LevelRows, AscentWithin
<1> HIDE DEF K, L, U
<1> DEFINE S == {j \in 0..K : ~\A n \in 0..(K - j) : \A q \in U[j] : q \in L[n] => p \in L[n + j]}
<1> SUFFICES ASSUME S # {} PROVE FALSE
  BY DEF K, L, U
<1>3. PICK m \in S : \A k \in S : m <= k
  <2>1. S \in SUBSET Nat
    OBVIOUS
  <2>2. QED
    BY <2>1, LeastOf
<1>4. m \in 0..K /\ m \in Nat
  BY <1>3
<1>5. PICK n \in 0..(K - m), q \in U[m] : q \in L[n] /\ p \notin L[n + m]
  BY <1>3
<1>6. n \in Nat
  BY <1>5
<1>7. m # 0
  <2> SUFFICES ASSUME m = 0 PROVE FALSE
    OBVIOUS
  <2>1. q = p /\ n + m = n
    BY <1>2, <1>5, <1>6
  <2>2. QED
    BY <1>5, <2>1
<1>8. m - 1 \in 0..K /\ m \in 1..K /\ n + 1 \in 0..(K - (m - 1)) /\ n + 1 \in 1..K
      /\ (n + 1) - 1 = n /\ (n + 1) + (m - 1) = n + m
  BY <1>1, <1>4, <1>5, <1>7
<1>9. m - 1 \notin S
  BY <1>3, <1>4
<1>10. PICK r \in U[m - 1] : pid[q] = parent[r]
  BY <1>2, <1>5, <1>8
<1>11. r \in L[n + 1]
  BY <1>2, <1>5, <1>8, <1>10
<1>12. p \in L[(n + 1) + (m - 1)]
  BY <1>8, <1>9, <1>10, <1>11
<1>13. QED
  BY <1>5, <1>8, <1>12

\* The two walks find the same processes, in every finite snapshot.
LEMMA SameWalks ==
  ASSUME NEW E, IsFiniteSet(E), NEW p \in E
  PROVE  HasRootAncestor(p, E) <=> p \in Levels(E)[Cardinality(E)]
<1> DEFINE K == Cardinality(E)
<1>1. K \in Nat \ {0} /\ Levels(E)[K] = Levels(E)[K - 1]
  BY LastLevel
<1>2. ASSUME HasRootAncestor(p, E) PROVE p \in Levels(E)[K]
  <2>1. PICK n \in 1..K : \E q \in Ascent(p, E)[n - 1] : parent[q] = pid[Server]
    BY <1>1, <1>2, AscentRows
  <2>2. PICK q \in Ascent(p, E)[n - 1] : parent[q] = pid[Server]
    BY <2>1
  <2>3. /\ n - 1 \in 0..K /\ K - (n - 1) \in 0..(K - (n - 1)) /\ K - (n - 1) \in 0..K
        /\ (K - (n - 1)) + (n - 1) = K
    BY <1>1, <2>1
  <2>4. q \in Levels(E)[0]
    BY <1>1, <2>2, <2>3, AscentWithin, LevelRows
  <2>5. q \in Levels(E)[K - (n - 1)]
    BY <1>1, <2>3, <2>4, LevelsGrow
  <2>6. p \in Levels(E)[(K - (n - 1)) + (n - 1)]
    BY <1>1, <2>2, <2>3, <2>5, AscentLevel
  <2>7. QED
    BY <2>3, <2>6
<1>3. ASSUME p \in Levels(E)[K] PROVE HasRootAncestor(p, E)
  <2>1. K - 1 \in 0..(K - 1) /\ p \in Levels(E)[K - 1]
    BY <1>1, <1>3
  <2>2. PICK j \in 0..(K - 1) : \E x \in Ascent(p, E)[j] : parent[x] = pid[Server]
    BY <1>1, <2>1, LevelAscent
  <2>3. j + 1 \in 1..K /\ (j + 1) - 1 = j
    BY <1>1, <2>2
  <2>4. QED
    BY <1>1, <2>2, <2>3, AscentRows
<1>4. QED
  BY <1>2, <1>3

-----------------------------------------------------------------------------
(* The invariant.                                                          *)

\* By the parent PIDs, with processes that are there or that the hook has a handle of,
\* p descends from the postmaster.
Chained(p) ==
  \E n \in 1..Cardinality(Procs) : \E c \in [1..n -> alive \cup handles] :
    /\ c[1] = p /\ parent[c[n]] = pid[Server]
    /\ \A i \in 1..(n - 1) : parent[c[i]] = pid[c[i + 1]]

ChainInv == \A p \in alive \ ours : Chained(p) => p \in coincident

\* The postgres processes among ours are the postmaster and its children.
ServerInv ==
  /\ Server \in Born => Server \in ours \cap image
  /\ Server \notin Born => ours = {}
  /\ pc \notin {"idle", "gone"} => Server \in Born
  /\ \A p \in Born \ {Server} : parent[p] \in Pids
  /\ \A p \in ours \cap image : p = Server \/ parent[p] = pid[Server]

\* A traversal has the postmaster's handle, and besides it those of the descendants
\* opened; their PIDs cannot go to others, and tell their entries apart.
HandleInv ==
  /\ pc \in {"assign", "tree", "open", "act"} => Server \in handles
  /\ pc \in {"assign", "tree"} => handles = {Server} /\ tree = {} /\ opened = {}
  /\ pc = "act" => tree = {} /\ \A p \in handles : p = Server \/ \E o \in opened : o.process = p
  /\ \A e \in tree : e.pid # pid[Server]
  /\ \A o \in opened : /\ o.process \in handles /\ pid[o.process] = o.entry.pid
                       /\ o.entry.pid # pid[Server]
  /\ \A e, f \in tree \cup {o.entry : o \in opened} : e.pid = f.pid => e = f

\* What is acted upon was found below the postmaster.
ValidInv == pc = "act" => \A o \in opened : o.process \in ours \cup coincident

\* The job is built once, before the registration.
RoundInv ==
  /\ pc \in {"idle", "assign"} => round = 0
  /\ pc \in {"idle", "root", "assign"} /\ round = 0 => job = None
  /\ pc \in {"tree", "open", "act"} /\ round = 0 => job # None
  /\ registered /\ round = 0 =>
       pc \notin {"idle", "root", "assign", "tree", "open", "act", "commit"}

\* A child of the postmaster that is on its way into the job.
Pending(p) ==
  /\ round = 0
  /\ \/ pc = "tree"
     \/ pc = "open" /\ [pid |-> pid[p], parent |-> parent[p]] \in tree
     \/ pc \in {"open", "act"} /\ \E o \in opened : o.process = p /\ o.entry.parent = parent[p]

JobInv ==
  /\ job # None => Server \in job
  /\ job # None /\ pc # "gone" =>
       \A p \in alive \cap ours \cap image : p \in job \cup missed \/ Pending(p)
  /\ job # None /\ pc = "gone" /\ registered => alive \cap ours \cap image \subseteq missed

IndInv ==
  /\ TypeOK /\ ServerInv /\ ChainInv /\ HandleInv /\ ValidInv /\ RoundInv /\ JobInv
  /\ OnlyOursTouched

-----------------------------------------------------------------------------
(* Steps.                                                                  *)

\* A process that is created takes a PID nobody has, and changes nobody else's.
LEMMA CreateEffect ==
  ASSUME TypeOK, NEW p \in Procs, NEW q \in Pids, NEW up, Create(p, q, up)
  PROVE  /\ p \notin Born /\ Born' = Born \cup {p} /\ alive' = alive \cup {p} /\ pc # "gone"
         /\ pid'[p] = q /\ parent'[p] = up
         /\ \A x \in Procs \ {p} : pid'[x] = pid[x] /\ parent'[x] = parent[x]
         /\ \A x \in alive \cup handles : pid[x] # q
<1>1. /\ p \notin Born /\ alive' = alive \cup {p} /\ pc # "gone" /\ q \in FreePids
      /\ pid' = [pid EXCEPT ![p] = q] /\ parent' = [parent EXCEPT ![p] = up]
  BY DEF Create
<1>2. /\ pid'[p] = q /\ parent'[p] = up
      /\ \A x \in Procs \ {p} : pid'[x] = pid[x] /\ parent'[x] = parent[x]
  BY <1>1 DEF TypeOK
<1>3. Born' = Born \cup {p}
  BY <1>2, WindowsAssumption DEF Born
<1>4. QED
  BY <1>1, <1>2, <1>3 DEF FreePids

\* Every snapshot is of processes, finitely many, the living ones among them.
LEMMA SnapshotSets ==
  ASSUME TypeOK, NEW E \in Snapshots
  PROVE  /\ alive \subseteq E /\ E \subseteq alive \cup handles /\ E \subseteq Procs
         /\ IsFiniteSet(E) /\ Cardinality(E) \in Nat
         /\ CollectTree(E) \subseteq E \ {Server}
<1>1. alive \subseteq E /\ E \subseteq alive \cup handles /\ E \subseteq Procs
  BY DEF Snapshots, TypeOK, Born
<1>2. IsFiniteSet(E) /\ Cardinality(E) \in Nat
  BY <1>1, WindowsAssumption, FS_Subset, FS_CardinalityType
<1>3. Cardinality(E) \in 0..Cardinality(E)
  BY <1>2
<1>4. CollectTree(E) \subseteq E \ {Server}
  BY <1>2, <1>3, LevelRows, LevelsGrow
<1>5. QED
  BY <1>1, <1>2, <1>4

\* The three processes that are created.
LEMMA CreationTypes ==
  ASSUME TypeOK, ServerInv, NEW p \in Procs, NEW q \in Pids, NEW up \in Pids \cup {None},
         Create(p, q, up), Coincide, UNCHANGED <<handles, touched, missed>>,
         image' \in {image, image \cup {p}}, ours' \in {ours, ours \cup {p}},
         job' \in {job, job \cup {p}}, job' # job => job # None,
         pidfile' \in BOOLEAN, UNCHANGED <<registered, pc, round, tree, opened>>
  PROVE  TypeOK'
<1>1. /\ p \notin Born /\ Born' = Born \cup {p} /\ alive' = alive \cup {p}
      /\ pid'[p] = q
      /\ \A x \in Procs \ {p} : pid'[x] = pid[x]
      /\ \A x \in alive \cup handles : pid[x] # q
  BY CreateEffect
<1>2. pid' \in [Procs -> Pids \cup {None}] /\ parent' \in [Procs -> Pids \cup {None}]
  BY DEF Create, TypeOK
<1>3. /\ alive' \subseteq Born' /\ image' \subseteq Born' /\ ours' \subseteq Born'
      /\ handles' \subseteq Born' /\ touched' \subseteq Born' /\ missed' \subseteq Born'
      /\ (job' = None \/ job' \subseteq Born')
  BY <1>1 DEF TypeOK
<1>4. coincident' \subseteq Born' \ ours'
  BY <1>1, <1>3 DEF Coincide, TypeOK
<1>5. \A x, y \in alive' \cup handles' : pid'[x] = pid'[y] => x = y
  BY <1>1 DEF TypeOK, Born
<1>6. QED
  BY <1>2, <1>3, <1>4, <1>5 DEF TypeOK

\* Every step keeps the types.
LEMMA TypeNext ==
  ASSUME TypeOK, ServerInv, HandleInv, RoundInv, [Next]_vars
  PROVE  TypeOK'
<1> USE DEF processes, traversal
<1>1. ASSUME NEW q \in Pids, StartServer(q) PROVE TypeOK'
  BY <1>1, CreationTypes, WindowsAssumption DEF StartServer, TypeOK
<1>2. ASSUME NEW p \in Procs, NEW r \in Procs, NEW q \in Pids, ServerCreates(p, r, q)
      PROVE TypeOK'
  <2>1. pid[r] \in Pids
    BY <1>2 DEF ServerCreates, TypeOK, Born
  <2>2. job' \in {job, job \cup {p}} /\ (job' # job => job # None)
    BY <1>2 DEF ServerCreates, InJob
  <2>3. QED
    BY <1>2, <2>1, <2>2, CreationTypes DEF ServerCreates, TypeOK
<1>3. ASSUME NEW p \in Procs, NEW q \in Pids, NEW up \in Pids, OtherCreates(p, q, up)
      PROVE TypeOK'
  BY <1>3, CreationTypes DEF OtherCreates, TypeOK
<1>4. ASSUME NEW p \in Procs, Ends(p) PROVE TypeOK'
  BY <1>4 DEF Ends, TypeOK, Born
<1>5. CASE OpenRoot
  BY <1>5 DEF OpenRoot, Open, TypeOK, Born
<1>6. CASE RootGivenUp
  BY <1>6 DEF RootGivenUp, Ended, TypeOK, Born
<1>7. CASE AssignRoot
  BY <1>7 DEF AssignRoot, HandleInv, TypeOK, Born
<1>8. CASE Snapshot
  <2>1. PICK E \in Snapshots :
          tree' = {[pid |-> pid[x], parent |-> parent[x]] : x \in CollectTree(E)}
    BY <1>8 DEF Snapshot
  <2>2. CollectTree(E) \subseteq Born \ {Server}
    BY SnapshotSets DEF TypeOK
  <2>3. \A x \in CollectTree(E) : pid[x] \in Pids /\ parent[x] \in Pids
    BY <2>2 DEF ServerInv, TypeOK, Born
  <2>4. tree' \subseteq Entries
    BY <2>1, <2>3 DEF Entries
  <2>5. QED
    BY <1>8, <2>4 DEF Snapshot, TypeOK, Born
<1>9. CASE SnapshotFails
  BY <1>9 DEF SnapshotFails, Miss, TypeOK, Born
<1>10. ASSUME NEW e \in tree, OpenDescendant(e) PROVE TypeOK'
  BY <1>10 DEF OpenDescendant, Open, Miss, TypeOK, Born
<1>11. CASE Validate
  <2>1. opened' \subseteq opened /\ handles' \subseteq handles
    BY <1>11 DEF Validate
  <2>2. missed' \subseteq Born
    BY <1>11 DEF Validate, Miss, HandleInv, TypeOK
  <2>3. QED
    BY <1>11, <2>1, <2>2 DEF Validate, TypeOK, Born
<1>12. ASSUME NEW o \in opened, Assign(o) PROVE TypeOK'
  <2>1. job # None /\ o.process \in Born
    BY <1>12 DEF Assign, RoundInv, HandleInv, TypeOK
  <2>2. /\ job' \subseteq Born /\ touched' \subseteq Born /\ missed' \subseteq Born
        /\ opened' \subseteq opened /\ handles' \subseteq handles
    BY <1>12, <2>1 DEF Assign, CloseDescendant, Miss, TypeOK
  <2>3. QED
    BY <1>12, <2>2 DEF Assign, TypeOK, Born
<1>13. ASSUME NEW o \in opened, Terminate(o) PROVE TypeOK'
  BY <1>13 DEF Terminate, IsActivePostgres, CloseDescendant, TypeOK, Born
<1>14. CASE TreeDone
  BY <1>14 DEF TreeDone, Ended, HandleInv, TypeOK, Born
<1>15. CASE Register
  BY <1>15 DEF Register, TypeOK, Born
<1>16. CASE Commit
  BY <1>16 DEF Commit, TypeOK, Born
<1>17. CASE Exit
  BY <1>17 DEF Exit, TypeOK, Born
<1>18. CASE CallbackStops
  BY <1>18 DEF CallbackStops, TypeOK, Born
<1>19. CASE CallbackCleansUp
  BY <1>19 DEF CallbackCleansUp, TypeOK, Born
<1>20. CASE CallbackGivesUp
  BY <1>20 DEF CallbackGivesUp, TypeOK, Born
<1>21. CASE WaitOver
  BY <1>21 DEF WaitOver, TypeOK, Born
<1>22. CASE WaitTimesOut
  BY <1>22 DEF WaitTimesOut, TypeOK, Born
<1>23. CASE Cleanup
  BY <1>23 DEF Cleanup, TypeOK, Born
<1>24. CASE OwnerEnds
  BY <1>24 DEF OwnerEnds, TypeOK, Born
<1>25. CASE UNCHANGED vars
  BY <1>25 DEF vars, TypeOK, Born
<1>26. QED
  BY <1>1, <1>2, <1>3, <1>4, <1>5, <1>6, <1>7, <1>8, <1>9, <1>10,
     <1>11, <1>12, <1>13, <1>14, <1>15, <1>16, <1>17, <1>18, <1>19, <1>20,
     <1>21, <1>22, <1>23, <1>24, <1>25
  DEF Next, System, Traverse, Hook

\* Every step keeps the postmaster and its children among ours.
LEMMA ServerNext ==
  ASSUME TypeOK, ServerInv, [Next]_vars
  PROVE  ServerInv'
<1> USE DEF processes, traversal
<1>kept. ASSUME UNCHANGED <<pid, parent, image, ours>>, pc # "gone", pc = "idle" => Server \in Born
         PROVE  ServerInv'
  BY <1>kept DEF ServerInv, Born, TypeOK
<1>1. ASSUME NEW q \in Pids, StartServer(q) PROVE ServerInv'
  <2>1. /\ Server \notin Born /\ Born' = Born \cup {Server}
        /\ \A x \in Procs \ {Server} : parent'[x] = parent[x]
    BY <1>1, CreateEffect, WindowsAssumption DEF StartServer
  <2>2. ours' = {Server} /\ Server \in image' /\ pc' = pc
    BY <1>1, <2>1 DEF StartServer, ServerInv
  <2>3. \A x \in Born' \ {Server} : parent'[x] \in Pids
    BY <2>1 DEF ServerInv, Born
  <2>4. QED
    BY <2>1, <2>2, <2>3 DEF ServerInv
<1>2. ASSUME NEW p \in Procs, NEW r \in Procs, NEW q \in Pids, ServerCreates(p, r, q)
      PROVE ServerInv'
  <2>1. /\ p \notin Born /\ Born' = Born \cup {p} /\ parent'[p] = pid[r]
        /\ \A x \in Procs \ {p} : pid'[x] = pid[x] /\ parent'[x] = parent[x]
    BY <1>2, CreateEffect DEF ServerCreates
  <2>2. p # Server /\ r \in ours /\ ours' = ours \cup {p} /\ pc' = pc
    BY <1>2 DEF ServerCreates
  <2>3. Server \in Born /\ Server \in ours /\ Server \in image /\ pid[r] \in Pids
    BY <2>2 DEF ServerInv, TypeOK, Born
  <2>4. \A x \in Born' \ {Server} : parent'[x] \in Pids
    BY <2>1, <2>3 DEF ServerInv, Born
  <2>5. ASSUME NEW x \in ours' \cap image', x # Server PROVE parent'[x] = pid'[Server]
    <3>1. pid'[Server] = pid[Server]
      BY <2>1, <2>2, WindowsAssumption
    <3>2. CASE x = p
      BY <1>2, <2>1, <3>1, <3>2 DEF ServerCreates, TypeOK
    <3>3. CASE x # p
      BY <1>2, <2>1, <2>2, <2>5, <3>1, <3>3 DEF ServerCreates, ServerInv, TypeOK, Born
    <3>4. QED
      BY <3>2, <3>3
  <2>6. QED
    BY <1>2, <2>1, <2>2, <2>3, <2>4, <2>5 DEF ServerCreates, ServerInv
<1>3. ASSUME NEW p \in Procs, NEW q \in Pids, NEW up \in Pids, OtherCreates(p, q, up)
      PROVE ServerInv'
  <2>1. /\ p \notin Born /\ Born' = Born \cup {p} /\ parent'[p] = up
        /\ \A x \in Procs \ {p} : pid'[x] = pid[x] /\ parent'[x] = parent[x]
    BY <1>3, CreateEffect DEF OtherCreates
  <2>2. p # Server /\ ours' = ours /\ image' \in {image, image \cup {p}} /\ pc' = pc
    BY <1>3 DEF OtherCreates
  <2>3. \A x \in Born' \ {Server} : parent'[x] \in Pids
    BY <2>1 DEF ServerInv, Born
  <2>4. \A x \in ours' \cap image' : x \in ours \cap image /\ x # p /\ x \in Procs
    BY <2>1, <2>2 DEF TypeOK, Born
  <2>5. pid'[Server] = pid[Server]
    BY <2>1, <2>2, WindowsAssumption
  <2>6. QED
    BY <2>1, <2>2, <2>3, <2>4, <2>5 DEF ServerInv
<1>4. ASSUME NEW p \in Procs, Ends(p) PROVE ServerInv'
  BY <1>4 DEF Ends, ServerInv, Born
<1>5. CASE OpenRoot
  BY <1>5, <1>kept DEF OpenRoot
<1>6. CASE RootGivenUp
  BY <1>6, <1>kept DEF RootGivenUp, Ended, TypeOK
<1>7. CASE AssignRoot
  BY <1>7, <1>kept DEF AssignRoot
<1>8. CASE Snapshot
  BY <1>8, <1>kept DEF Snapshot
<1>9. CASE SnapshotFails
  BY <1>9, <1>kept DEF SnapshotFails
<1>10. ASSUME NEW e \in tree, OpenDescendant(e) PROVE ServerInv'
  BY <1>10, <1>kept DEF OpenDescendant
<1>11. CASE Validate
  BY <1>11, <1>kept DEF Validate
<1>12. ASSUME NEW o \in opened, Assign(o) PROVE ServerInv'
  BY <1>12, <1>kept DEF Assign
<1>13. ASSUME NEW o \in opened, Terminate(o) PROVE ServerInv'
  BY <1>13, <1>kept DEF Terminate
<1>14. CASE TreeDone
  BY <1>14, <1>kept DEF TreeDone, Ended, TypeOK
<1>15. CASE Register
  BY <1>15, <1>kept DEF Register
<1>16. CASE Commit
  BY <1>16, <1>kept DEF Commit
<1>17. CASE Exit
  BY <1>17, <1>kept DEF Exit
<1>18. CASE CallbackStops
  BY <1>18, <1>kept DEF CallbackStops
<1>19. CASE CallbackCleansUp
  BY <1>19, <1>kept DEF CallbackCleansUp
<1>20. CASE CallbackGivesUp
  BY <1>20, <1>kept DEF CallbackGivesUp
<1>21. CASE WaitOver
  BY <1>21, <1>kept DEF WaitOver
<1>22. CASE WaitTimesOut
  BY <1>22, <1>kept DEF WaitTimesOut
<1>23. CASE Cleanup
  BY <1>23, <1>kept DEF Cleanup
<1>24. CASE OwnerEnds
  BY <1>24 DEF OwnerEnds, ServerInv, Born
<1>25. CASE UNCHANGED vars
  BY <1>25 DEF vars, ServerInv, Born
<1>26. QED
  BY <1>1, <1>2, <1>3, <1>4, <1>5, <1>6, <1>7, <1>8, <1>9, <1>10,
     <1>11, <1>12, <1>13, <1>14, <1>15, <1>16, <1>17, <1>18, <1>19, <1>20,
     <1>21, <1>22, <1>23, <1>24, <1>25
  DEF Next, System, Traverse, Hook

\* Where no process is added, nobody comes to look like a descendant.
LEMMA ChainKept ==
  ASSUME ChainInv, UNCHANGED <<pid, parent, ours, coincident>>, alive' \subseteq alive,
         handles' \subseteq alive \cup handles
  PROVE  ChainInv'
<1> SUFFICES ASSUME NEW p \in alive' \ ours', Chained(p)' PROVE p \in coincident
  BY DEF ChainInv
<1>1. PICK n \in 1..Cardinality(Procs) : \E c \in [1..n -> alive' \cup handles'] :
        /\ c[1] = p /\ parent[c[n]] = pid[Server]
        /\ \A i \in 1..(n - 1) : parent[c[i]] = pid[c[i + 1]]
  BY DEF Chained
<1>2. [1..n -> alive' \cup handles'] \subseteq [1..n -> alive \cup handles]
  OBVIOUS
<1>3. Chained(p)
  BY <1>1, <1>2 DEF Chained
<1>4. QED
  BY <1>3 DEF ChainInv

\* Whoever does is coincident from the creation on that made it so.
LEMMA ChainCreated ==
  ASSUME Coincide, UNCHANGED handles
  PROVE  ChainInv'
BY DEF Coincide, ChainInv, Chained

\* Every step keeps track of the coincidences.
LEMMA ChainNext ==
  ASSUME TypeOK, ChainInv, [Next]_vars
  PROVE  ChainInv'
<1> USE DEF processes, traversal
<1>1. ASSUME NEW q \in Pids, StartServer(q) PROVE ChainInv'
  BY <1>1, ChainCreated DEF StartServer
<1>2. ASSUME NEW p \in Procs, NEW r \in Procs, NEW q \in Pids, ServerCreates(p, r, q)
      PROVE ChainInv'
  BY <1>2, ChainCreated DEF ServerCreates
<1>3. ASSUME NEW p \in Procs, NEW q \in Pids, NEW up \in Pids, OtherCreates(p, q, up)
      PROVE ChainInv'
  BY <1>3, ChainCreated DEF OtherCreates
<1>4. ASSUME NEW p \in Procs, Ends(p) PROVE ChainInv'
  BY <1>4, ChainKept DEF Ends
<1>5. CASE OpenRoot
  BY <1>5, ChainKept DEF OpenRoot, Open
<1>6. CASE RootGivenUp
  BY <1>6, ChainKept DEF RootGivenUp
<1>7. CASE AssignRoot
  BY <1>7, ChainKept DEF AssignRoot
<1>8. CASE Snapshot
  BY <1>8, ChainKept DEF Snapshot
<1>9. CASE SnapshotFails
  BY <1>9, ChainKept DEF SnapshotFails
<1>10. ASSUME NEW e \in tree, OpenDescendant(e) PROVE ChainInv'
  BY <1>10, ChainKept DEF OpenDescendant, Open
<1>11. CASE Validate
  BY <1>11, ChainKept DEF Validate
<1>12. ASSUME NEW o \in opened, Assign(o) PROVE ChainInv'
  BY <1>12, ChainKept DEF Assign, CloseDescendant
<1>13. ASSUME NEW o \in opened, Terminate(o) PROVE ChainInv'
  BY <1>13, ChainKept DEF Terminate, CloseDescendant
<1>14. CASE TreeDone
  BY <1>14, ChainKept DEF TreeDone
<1>15. CASE Register
  BY <1>15, ChainKept DEF Register
<1>16. CASE Commit
  BY <1>16, ChainKept DEF Commit
<1>17. CASE Exit
  BY <1>17, ChainKept DEF Exit
<1>18. CASE CallbackStops
  BY <1>18, ChainKept DEF CallbackStops
<1>19. CASE CallbackCleansUp
  BY <1>19, ChainKept DEF CallbackCleansUp
<1>20. CASE CallbackGivesUp
  BY <1>20, ChainKept DEF CallbackGivesUp
<1>21. CASE WaitOver
  BY <1>21, ChainKept DEF WaitOver
<1>22. CASE WaitTimesOut
  BY <1>22, ChainKept DEF WaitTimesOut
<1>23. CASE Cleanup
  BY <1>23, ChainKept DEF Cleanup
<1>24. CASE OwnerEnds
  BY <1>24, ChainKept DEF OwnerEnds
<1>25. CASE UNCHANGED vars
  BY <1>25, ChainKept DEF vars
<1>26. QED
  BY <1>1, <1>2, <1>3, <1>4, <1>5, <1>6, <1>7, <1>8, <1>9, <1>10,
     <1>11, <1>12, <1>13, <1>14, <1>15, <1>16, <1>17, <1>18, <1>19, <1>20,
     <1>21, <1>22, <1>23, <1>24, <1>25
  DEF Next, System, Traverse, Hook

\* Every step keeps the handles.
LEMMA HandleNext ==
  ASSUME TypeOK, ServerInv, HandleInv, [Next]_vars
  PROVE  HandleInv'
<1> USE DEF processes, traversal
<1>created. ASSUME NEW p \in Procs \ {Server}, NEW q \in Pids, NEW up, Create(p, q, up),
                   UNCHANGED <<pc, handles, tree, opened>>
            PROVE  HandleInv'
  <2>1. p \notin Born /\ \A x \in Procs \ {p} : pid'[x] = pid[x]
    BY <1>created, CreateEffect
  <2>2. \A x \in handles \cup {Server} : pid'[x] = pid[x]
    BY <2>1, WindowsAssumption DEF TypeOK, Born
  <2>3. QED
    BY <1>created, <2>2 DEF HandleInv
<1>none. ASSUME pc' \notin {"assign", "tree", "open", "act"}, tree' = {}, opened' = {}
         PROVE  HandleInv'
  BY <1>none DEF HandleInv
<1>closed. ASSUME NEW o \in opened, CloseDescendant(o), pc = "act",
                  UNCHANGED <<pid, pc, tree>>
           PROVE  HandleInv'
  <2>1. \A x \in opened \ {o} : x.process # o.process
    <3> SUFFICES ASSUME NEW x \in opened, x.process = o.process PROVE x = o
      OBVIOUS
    <3>1. x.entry = o.entry
      BY DEF HandleInv
    <3>2. x \in [process : Procs, entry : Entries] /\ o \in [process : Procs, entry : Entries]
      BY DEF TypeOK
    <3>3. QED
      BY <3>1, <3>2
  <2>2. opened' = opened \ {o} /\ handles' = handles \ {o.process}
    BY <1>closed DEF CloseDescendant
  <2>3. o.process # Server
    BY DEF HandleInv
  <2>4. \A x \in opened' : x \in opened /\ x.process \in handles'
    BY <2>1, <2>2 DEF HandleInv
  <2>5. \A x \in handles' : x = Server \/ \E y \in opened' : y.process = x
    BY <1>closed, <2>2 DEF HandleInv
  <2>6. Server \in handles'
    BY <1>closed, <2>2, <2>3 DEF HandleInv
  <2>7. {x.entry : x \in opened'} \subseteq {x.entry : x \in opened}
    BY <2>4
  <2>8. QED
    BY <1>closed, <2>4, <2>5, <2>6, <2>7 DEF HandleInv
<1>1. ASSUME NEW q \in Pids, StartServer(q) PROVE HandleInv'
  BY <1>1, <1>none DEF StartServer, TypeOK
<1>2. ASSUME NEW p \in Procs, NEW r \in Procs, NEW q \in Pids, ServerCreates(p, r, q)
      PROVE HandleInv'
  BY <1>2, <1>created DEF ServerCreates
<1>3. ASSUME NEW p \in Procs, NEW q \in Pids, NEW up \in Pids, OtherCreates(p, q, up)
      PROVE HandleInv'
  BY <1>3, <1>created DEF OtherCreates
<1>4. ASSUME NEW p \in Procs, Ends(p) PROVE HandleInv'
  BY <1>4 DEF Ends, HandleInv
<1>5. CASE OpenRoot
  BY <1>5 DEF OpenRoot, Matches, CreationTimeMatches, HandleInv, TypeOK
<1>6. CASE RootGivenUp
  BY <1>6, <1>none DEF RootGivenUp, Ended, TypeOK
<1>7. CASE AssignRoot
  BY <1>7 DEF AssignRoot, HandleInv
<1>8. CASE Snapshot
  <2>1. PICK E \in Snapshots :
          tree' = {[pid |-> pid[x], parent |-> parent[x]] : x \in CollectTree(E)}
    BY <1>8 DEF Snapshot
  <2>2. CollectTree(E) \subseteq (alive \cup handles) \ {Server}
    BY SnapshotSets
  <2>3. Server \in handles /\ opened = {}
    BY <1>8 DEF Snapshot, HandleInv
  <2>4. \A x, y \in CollectTree(E) : pid[x] # pid[Server] /\ (pid[x] = pid[y] => x = y)
    BY <2>2, <2>3 DEF TypeOK
  <2>5. \A e \in tree' : e.pid # pid[Server] /\ \A f \in tree' : e.pid = f.pid => e = f
    BY <2>1, <2>4
  <2>6. QED
    BY <1>8, <2>3, <2>5 DEF Snapshot, HandleInv
<1>9. CASE SnapshotFails
  BY <1>9 DEF SnapshotFails, HandleInv
<1>10. ASSUME NEW e \in tree, OpenDescendant(e) PROVE HandleInv'
  <2>1. /\ tree' = tree \ {e} /\ UNCHANGED <<pid, pc>> /\ pc = "open"
        /\ \/ UNCHANGED <<handles, opened>>
           \/ \E x \in Open(e.pid) : /\ handles' = handles \cup {x}
                                     /\ opened' = opened \cup {[process |-> x, entry |-> e]}
    BY <1>10 DEF OpenDescendant
  <2>2. CASE UNCHANGED <<handles, opened>>
    BY <2>1, <2>2 DEF HandleInv
  <2>3. ASSUME NEW x \in Open(e.pid), handles' = handles \cup {x},
               opened' = opened \cup {[process |-> x, entry |-> e]}
        PROVE  HandleInv'
    <3>1. pid[x] = e.pid /\ e.pid # pid[Server]
      BY DEF Open, HandleInv
    <3>2. \A o \in opened' : /\ o.process \in handles' /\ pid[o.process] = o.entry.pid
                             /\ o.entry.pid # pid[Server]
      BY <2>3, <3>1 DEF HandleInv
    <3>3. tree' \cup {o.entry : o \in opened'} \subseteq tree \cup {o.entry : o \in opened}
      BY <2>1, <2>3
    <3>4. QED
      BY <2>1, <2>3, <3>2, <3>3 DEF HandleInv
  <2>4. QED
    BY <2>1, <2>2, <2>3
<1>11. CASE Validate
  <2>1. /\ opened' \subseteq opened /\ pc = "open" /\ pc' = "act" /\ tree = {} /\ tree' = {}
        /\ handles' = {x \in handles : x = Server \/ \E o \in opened' : o.process = x}
        /\ UNCHANGED pid
    BY <1>11 DEF Validate
  <2>2. {o.entry : o \in opened'} \subseteq {o.entry : o \in opened}
    BY <2>1
  <2>3. QED
    BY <2>1, <2>2 DEF HandleInv
<1>12. ASSUME NEW o \in opened, Assign(o) PROVE HandleInv'
  BY <1>12, <1>closed DEF Assign
<1>13. ASSUME NEW o \in opened, Terminate(o) PROVE HandleInv'
  BY <1>13, <1>closed DEF Terminate
<1>14. CASE TreeDone
  BY <1>14, <1>none DEF TreeDone, Ended, HandleInv, TypeOK
<1>15. CASE Register
  BY <1>15, <1>none DEF Register, TypeOK
<1>16. CASE Commit
  BY <1>16, <1>none DEF Commit, TypeOK
<1>17. CASE Exit
  BY <1>17, <1>none DEF Exit, TypeOK
<1>18. CASE CallbackStops
  BY <1>18, <1>none DEF CallbackStops, TypeOK
<1>19. CASE CallbackCleansUp
  BY <1>19, <1>none DEF CallbackCleansUp, TypeOK
<1>20. CASE CallbackGivesUp
  BY <1>20, <1>none DEF CallbackGivesUp, TypeOK
<1>21. CASE WaitOver
  BY <1>21, <1>none DEF WaitOver, TypeOK
<1>22. CASE WaitTimesOut
  BY <1>22, <1>none DEF WaitTimesOut, TypeOK
<1>23. CASE Cleanup
  BY <1>23, <1>none DEF Cleanup, TypeOK
<1>24. CASE OwnerEnds
  BY <1>24, <1>none DEF OwnerEnds
<1>25. CASE UNCHANGED vars
  BY <1>25 DEF vars, HandleInv
<1>26. QED
  BY <1>1, <1>2, <1>3, <1>4, <1>5, <1>6, <1>7, <1>8, <1>9, <1>10,
     <1>11, <1>12, <1>13, <1>14, <1>15, <1>16, <1>17, <1>18, <1>19, <1>20,
     <1>21, <1>22, <1>23, <1>24, <1>25
  DEF Next, System, Traverse, Hook

\* Every step keeps the order of the job and the registration.
LEMMA RoundNext ==
  ASSUME TypeOK, RoundInv, HandleInv, [Next]_vars
  PROVE  RoundInv'
<1> USE DEF processes, traversal, RoundInv
<1>1. ASSUME NEW q \in Pids, StartServer(q) PROVE RoundInv'
  BY <1>1 DEF StartServer
<1>2. ASSUME NEW p \in Procs, NEW r \in Procs, NEW q \in Pids, ServerCreates(p, r, q)
      PROVE RoundInv'
  <2>1. job = None => job' = None
    BY <1>2 DEF ServerCreates, InJob
  <2>2. job # None => job' # None
    <3>1. job # None => job \cup {p} \in SUBSET Procs /\ job \in SUBSET Procs
      BY DEF TypeOK, Born
    <3>2. QED
      BY <1>2, <3>1, WindowsAssumption DEF ServerCreates
  <2>3. QED
    BY <1>2, <2>1, <2>2 DEF ServerCreates
<1>3. ASSUME NEW p \in Procs, NEW q \in Pids, NEW up \in Pids, OtherCreates(p, q, up)
      PROVE RoundInv'
  BY <1>3 DEF OtherCreates
<1>4. ASSUME NEW p \in Procs, Ends(p) PROVE RoundInv'
  BY <1>4 DEF Ends
<1>5. CASE OpenRoot
  BY <1>5 DEF OpenRoot
<1>6. CASE RootGivenUp
  BY <1>6 DEF RootGivenUp, Ended, TypeOK
<1>7. CASE AssignRoot
  <2>1. handles \in SUBSET Procs
    BY DEF TypeOK, Born
  <2>2. QED
    BY <1>7, <2>1, WindowsAssumption DEF AssignRoot
<1>8. CASE Snapshot
  BY <1>8 DEF Snapshot
<1>9. CASE SnapshotFails
  BY <1>9 DEF SnapshotFails
<1>10. ASSUME NEW e \in tree, OpenDescendant(e) PROVE RoundInv'
  BY <1>10 DEF OpenDescendant
<1>11. CASE Validate
  BY <1>11 DEF Validate
<1>12. ASSUME NEW o \in opened, Assign(o) PROVE RoundInv'
  <2>1. job' # None
    <3>1. job \cup {o.process} \in SUBSET Procs /\ job # None
      BY <1>12 DEF Assign, TypeOK, Born
    <3>2. QED
      BY <1>12, <3>1, WindowsAssumption DEF Assign
  <2>2. QED
    BY <1>12, <2>1 DEF Assign
<1>13. ASSUME NEW o \in opened, Terminate(o) PROVE RoundInv'
  BY <1>13 DEF Terminate
<1>14. CASE TreeDone
  BY <1>14 DEF TreeDone, Ended, TypeOK
<1>15. CASE Register
  BY <1>15 DEF Register
<1>16. CASE Commit
  BY <1>16 DEF Commit
<1>17. CASE Exit
  BY <1>17 DEF Exit
<1>18. CASE CallbackStops
  BY <1>18 DEF CallbackStops
<1>19. CASE CallbackCleansUp
  BY <1>19 DEF CallbackCleansUp
<1>20. CASE CallbackGivesUp
  BY <1>20 DEF CallbackGivesUp
<1>21. CASE WaitOver
  BY <1>21 DEF WaitOver
<1>22. CASE WaitTimesOut
  BY <1>22 DEF WaitTimesOut
<1>23. CASE Cleanup
  BY <1>23 DEF Cleanup
<1>24. CASE OwnerEnds
  BY <1>24 DEF OwnerEnds
<1>25. CASE UNCHANGED vars
  BY <1>25 DEF vars
<1>26. QED
  BY <1>1, <1>2, <1>3, <1>4, <1>5, <1>6, <1>7, <1>8, <1>9, <1>10,
     <1>11, <1>12, <1>13, <1>14, <1>15, <1>16, <1>17, <1>18, <1>19, <1>20,
     <1>21, <1>22, <1>23, <1>24, <1>25
  DEF Next, System, Traverse, Hook

\* A walk up passes a chain of parent PIDs.
LEMMA AscentChain ==
  ASSUME NEW E, Cardinality(E) \in Nat, NEW p \in E
  PROVE  \A k \in 0..Cardinality(E) : \A q \in Ascent(p, E)[k] : \E c \in [1..(k + 1) -> E] :
           /\ c[1] = p /\ c[k + 1] = q
           /\ \A i \in 1..k : parent[c[i]] = pid[c[i + 1]]
<1> DEFINE K == Cardinality(E)
           U == Ascent(p, E)
           Linked(k, q) == \E c \in [1..(k + 1) -> E] :
                             /\ c[1] = p /\ c[k + 1] = q
                             /\ \A i \in 1..k : parent[c[i]] = pid[c[i + 1]]
           S == {k \in 0..K : ~\A q \in U[k] : Linked(k, q)}
<1> SUFFICES ASSUME S # {} PROVE FALSE
  OBVIOUS
<1>1. PICK m \in S : \A k \in S : m <= k
  <2>1. S \in SUBSET Nat
    OBVIOUS
  <2>2. QED
    BY <2>1, LeastOf
<1>2. m \in 0..K /\ m \in Nat /\ K \in Nat
  BY <1>1
<1>3. PICK q \in U[m] : ~Linked(m, q)
  BY <1>1
<1>4. \A k \in 0..K : k < m => \A r \in U[k] : Linked(k, r)
  BY <1>1, <1>2
<1> HIDE DEF S
<1>5. q \in E
  BY <1>2, <1>3, AscentWithin
<1>6. CASE m = 0
  <2> DEFINE c == [i \in 1..(m + 1) |-> p]
  <2>1. q = p
    BY <1>3, <1>6, AscentRows
  <2>2. c \in [1..(m + 1) -> E] /\ c[1] = p /\ c[m + 1] = q
    BY <1>6, <2>1
  <2>3. \A i \in 1..m : parent[c[i]] = pid[c[i + 1]]
    BY <1>6
  <2>4. QED
    BY <1>3, <2>2, <2>3
<1>7. CASE m # 0
  <2>1. m - 1 \in 0..K /\ m \in 1..K /\ m - 1 < m /\ (m - 1) + 1 = m
    BY <1>2, <1>7
  <2>2. PICK r \in U[m - 1] : pid[q] = parent[r]
    BY <1>3, <2>1, AscentRows
  <2>3. Linked(m - 1, r)
    BY <1>4, <2>1, <2>2
  <2>4. PICK c \in [1..m -> E] : /\ c[1] = p /\ c[m] = r
                                 /\ \A i \in 1..(m - 1) : parent[c[i]] = pid[c[i + 1]]
    BY <2>1, <2>3
  <2> DEFINE d == [i \in 1..(m + 1) |-> IF i = m + 1 THEN q ELSE c[i]]
  <2>5. d \in [1..(m + 1) -> E] /\ d[1] = p /\ d[m + 1] = q
    BY <1>2, <1>5, <1>7, <2>4
  <2>6. \A i \in 1..m : d[i] = c[i]
    BY <1>2
  <2> HIDE DEF d
  <2>7. ASSUME NEW i \in 1..m PROVE parent[d[i]] = pid[d[i + 1]]
    <3>1. CASE i = m
      BY <2>2, <2>4, <2>5, <2>6, <3>1
    <3>2. CASE i # m
      <4>1. i \in 1..(m - 1) /\ i + 1 \in 1..m
        BY <1>2, <3>2
      <4>2. QED
        BY <4>1, <2>4, <2>6
    <3>3. QED
      BY <3>1, <3>2
  <2>8. QED
    BY <1>3, <2>5, <2>7
<1>8. QED
  BY <1>6, <1>7

\* What process_has_root_ancestor accepts really is chained to the postmaster.
LEMMA AncestorChained ==
  ASSUME TypeOK, NEW E \in Snapshots, NEW p \in E, HasRootAncestor(p, E)
  PROVE  Chained(p)
<1>1. /\ E \subseteq alive \cup handles /\ E \subseteq Procs
      /\ IsFiniteSet(E) /\ Cardinality(E) \in Nat
  BY SnapshotSets
<1>2. Cardinality(E) <= Cardinality(Procs) /\ Cardinality(Procs) \in Nat
  BY <1>1, WindowsAssumption, FS_Subset, FS_CardinalityType
<1>3. PICK n \in 1..Cardinality(E) : \E q \in Ascent(p, E)[n - 1] : parent[q] = pid[Server]
  BY <1>1, AscentRows
<1>4. PICK q \in Ascent(p, E)[n - 1] : parent[q] = pid[Server]
  BY <1>3
<1>5. n - 1 \in 0..Cardinality(E) /\ (n - 1) + 1 = n /\ n \in 1..Cardinality(Procs)
  BY <1>1, <1>2, <1>3
<1>6. \E c \in [1..((n - 1) + 1) -> E] : /\ c[1] = p /\ c[(n - 1) + 1] = q
                                         /\ \A i \in 1..(n - 1) : parent[c[i]] = pid[c[i + 1]]
  BY <1>1, <1>4, <1>5, AscentChain
<1>7. PICK c \in [1..n -> E] : /\ c[1] = p /\ c[n] = q
                               /\ \A i \in 1..(n - 1) : parent[c[i]] = pid[c[i + 1]]
  BY <1>5, <1>6
<1>8. c \in [1..n -> alive \cup handles]
  BY <1>1, <1>7
<1>9. QED
  BY <1>4, <1>5, <1>7, <1>8 DEF Chained

\* Every step keeps what is acted upon below the postmaster: the second snapshot is
\* taken with the handles open, so that its entries are the processes opened.
LEMMA ValidNext ==
  ASSUME TypeOK, ServerInv, ChainInv, HandleInv, ValidInv, [Next]_vars
  PROVE  ValidInv'
<1> USE DEF processes, traversal, ValidInv
<1>1. ASSUME NEW q \in Pids, StartServer(q) PROVE ValidInv'
  BY <1>1 DEF StartServer
<1>2. ASSUME NEW p \in Procs, NEW r \in Procs, NEW q \in Pids, ServerCreates(p, r, q)
      PROVE ValidInv'
  BY <1>2 DEF ServerCreates, Coincide
<1>3. ASSUME NEW p \in Procs, NEW q \in Pids, NEW up \in Pids, OtherCreates(p, q, up)
      PROVE ValidInv'
  BY <1>3 DEF OtherCreates, Coincide
<1>4. ASSUME NEW p \in Procs, Ends(p) PROVE ValidInv'
  BY <1>4 DEF Ends
<1>5. CASE OpenRoot
  BY <1>5 DEF OpenRoot
<1>6. CASE RootGivenUp
  BY <1>6 DEF RootGivenUp, Ended, TypeOK
<1>7. CASE AssignRoot
  BY <1>7 DEF AssignRoot
<1>8. CASE Snapshot
  BY <1>8 DEF Snapshot
<1>9. CASE SnapshotFails
  BY <1>9 DEF SnapshotFails
<1>10. ASSUME NEW e \in tree, OpenDescendant(e) PROVE ValidInv'
  BY <1>10 DEF OpenDescendant
<1>11. CASE Validate
  <2> SUFFICES ASSUME NEW o \in opened' PROVE o.process \in ours \cup coincident
    BY <1>11 DEF Validate
  <2>1. PICK E \in Snapshots : opened' = {x \in opened : StillInTree(x, E)}
    BY <1>11 DEF Validate
  <2>2. o \in opened /\ StillInTree(o, E)
    BY <2>1
  <2>3. PICK p \in E : pid[p] = o.entry.pid /\ HasRootAncestor(p, E)
    BY <2>2 DEF StillInTree
  <2>4. p = o.process
    BY <2>2, <2>3, SnapshotSets DEF HandleInv, TypeOK
  <2>5. p \in alive
    BY <2>2, <2>4 DEF StillInTree, IsActivePostgres
  <2>6. QED
    BY <2>3, <2>4, <2>5, AncestorChained DEF ChainInv
<1>12. ASSUME NEW o \in opened, Assign(o) PROVE ValidInv'
  BY <1>12 DEF Assign, CloseDescendant
<1>13. ASSUME NEW o \in opened, Terminate(o) PROVE ValidInv'
  BY <1>13 DEF Terminate, CloseDescendant
<1>14. CASE TreeDone
  BY <1>14 DEF TreeDone
<1>15. CASE Register
  BY <1>15 DEF Register
<1>16. CASE Commit
  BY <1>16 DEF Commit
<1>17. CASE Exit
  BY <1>17 DEF Exit
<1>18. CASE CallbackStops
  BY <1>18 DEF CallbackStops
<1>19. CASE CallbackCleansUp
  BY <1>19 DEF CallbackCleansUp
<1>20. CASE CallbackGivesUp
  BY <1>20 DEF CallbackGivesUp
<1>21. CASE WaitOver
  BY <1>21 DEF WaitOver
<1>22. CASE WaitTimesOut
  BY <1>22 DEF WaitTimesOut
<1>23. CASE Cleanup
  BY <1>23 DEF Cleanup
<1>24. CASE OwnerEnds
  BY <1>24 DEF OwnerEnds
<1>25. CASE UNCHANGED vars
  BY <1>25 DEF vars
<1>26. QED
  BY <1>1, <1>2, <1>3, <1>4, <1>5, <1>6, <1>7, <1>8, <1>9, <1>10,
     <1>11, <1>12, <1>13, <1>14, <1>15, <1>16, <1>17, <1>18, <1>19, <1>20,
     <1>21, <1>22, <1>23, <1>24, <1>25
  DEF Next, System, Traverse, Hook

\* Every step touches only the postmaster and what was found below it.
LEMMA TouchedNext ==
  ASSUME TypeOK, ServerInv, HandleInv, ValidInv, OnlyOursTouched, [Next]_vars
  PROVE  OnlyOursTouched'
<1> USE DEF processes, traversal, OnlyOursTouched
<1>root. pc \notin {"idle", "gone"} => Server \in ours
  BY DEF ServerInv
<1>1. ASSUME NEW q \in Pids, StartServer(q) PROVE OnlyOursTouched'
  BY <1>1 DEF StartServer, Coincide
<1>2. ASSUME NEW p \in Procs, NEW r \in Procs, NEW q \in Pids, ServerCreates(p, r, q)
      PROVE OnlyOursTouched'
  BY <1>2 DEF ServerCreates, Coincide
<1>3. ASSUME NEW p \in Procs, NEW q \in Pids, NEW up \in Pids, OtherCreates(p, q, up)
      PROVE OnlyOursTouched'
  BY <1>3 DEF OtherCreates, Coincide
<1>4. ASSUME NEW p \in Procs, Ends(p) PROVE OnlyOursTouched'
  BY <1>4 DEF Ends
<1>5. CASE OpenRoot
  BY <1>5 DEF OpenRoot
<1>6. CASE RootGivenUp
  BY <1>6 DEF RootGivenUp
<1>7. CASE AssignRoot
  BY <1>7, <1>root DEF AssignRoot, HandleInv
<1>8. CASE Snapshot
  BY <1>8 DEF Snapshot
<1>9. CASE SnapshotFails
  BY <1>9 DEF SnapshotFails
<1>10. ASSUME NEW e \in tree, OpenDescendant(e) PROVE OnlyOursTouched'
  BY <1>10 DEF OpenDescendant
<1>11. CASE Validate
  BY <1>11 DEF Validate
<1>12. ASSUME NEW o \in opened, Assign(o) PROVE OnlyOursTouched'
  BY <1>12 DEF Assign, ValidInv
<1>13. ASSUME NEW o \in opened, Terminate(o) PROVE OnlyOursTouched'
  BY <1>13 DEF Terminate, ValidInv
<1>14. CASE TreeDone
  BY <1>14, <1>root DEF TreeDone, HandleInv
<1>15. CASE Register
  BY <1>15 DEF Register
<1>16. CASE Commit
  BY <1>16 DEF Commit
<1>17. CASE Exit
  BY <1>17 DEF Exit
<1>18. CASE CallbackStops
  BY <1>18 DEF CallbackStops
<1>19. CASE CallbackCleansUp
  BY <1>19 DEF CallbackCleansUp
<1>20. CASE CallbackGivesUp
  BY <1>20 DEF CallbackGivesUp
<1>21. CASE WaitOver
  BY <1>21 DEF WaitOver
<1>22. CASE WaitTimesOut
  BY <1>22 DEF WaitTimesOut
<1>23. CASE Cleanup
  BY <1>23 DEF Cleanup
<1>24. CASE OwnerEnds
  BY <1>24 DEF OwnerEnds
<1>25. CASE UNCHANGED vars
  BY <1>25 DEF vars
<1>26. QED
  BY <1>1, <1>2, <1>3, <1>4, <1>5, <1>6, <1>7, <1>8, <1>9, <1>10,
     <1>11, <1>12, <1>13, <1>14, <1>15, <1>16, <1>17, <1>18, <1>19, <1>20,
     <1>21, <1>22, <1>23, <1>24, <1>25
  DEF Next, System, Traverse, Hook

\* Every step keeps the postmaster's children in the job or on their way into it.
LEMMA JobNext ==
  ASSUME TypeOK, ServerInv, HandleInv, RoundInv, JobInv, [Next]_vars
  PROVE  JobInv'
<1> USE DEF processes, traversal
<1>kept. ASSUME UNCHANGED <<pid, parent, ours, image, job>>, alive' \subseteq alive,
                missed \subseteq missed', pc # "gone", pc' # "gone",
                \A p \in alive' \cap ours \cap image :
                  job # None /\ p \notin job \cup missed /\ Pending(p) =>
                    p \in missed' \/ Pending(p)'
         PROVE  JobInv'
  BY <1>kept DEF JobInv
<1>outside. ASSUME pc \notin {"tree", "open", "act"} PROVE \A p : ~Pending(p)
  BY <1>outside DEF Pending
<1>created. ASSUME NEW p \in Procs \ {Server}, NEW q \in Pids, NEW up, Create(p, q, up),
                   UNCHANGED <<pc, round, handles, tree, opened, missed, registered>>,
                   job # None, job \subseteq job', job' # None,
                   ours' \subseteq ours \cup {p}, image' \subseteq image \cup {p},
                   p \in ours' \cap image' => p \in job'
            PROVE  JobInv'
  <2>1. /\ p \notin Born /\ alive' = alive \cup {p} /\ pc # "gone"
        /\ \A x \in Procs \ {p} : pid'[x] = pid[x] /\ parent'[x] = parent[x]
    BY <1>created, CreateEffect
  <2>2. ASSUME NEW x \in alive' \cap ours' \cap image', x # p, x \notin job' \cup missed'
        PROVE  Pending(x)'
    <3>1. x \in alive \cap ours \cap image /\ x \notin job \cup missed /\ x \in Procs
      BY <1>created, <2>1, <2>2 DEF TypeOK, Born
    <3>2. Pending(x)
      BY <1>created, <2>1, <3>1 DEF JobInv
    <3>3. QED
      BY <1>created, <2>1, <2>2, <3>1, <3>2 DEF Pending
  <2>3. QED
    BY <1>created, <2>1, <2>2 DEF JobInv
<1>1. ASSUME NEW q \in Pids, StartServer(q) PROVE JobInv'
  BY <1>1 DEF StartServer, RoundInv, JobInv
<1>2. ASSUME NEW p \in Procs, NEW r \in Procs, NEW q \in Pids, ServerCreates(p, r, q)
      PROVE JobInv'
  <2>1. CASE job = None
    BY <1>2, <2>1 DEF ServerCreates, InJob, JobInv
  <2>2. CASE job # None
    <3>1. job' = (IF r \in job THEN job \cup {p} ELSE job) /\ Server \in job
      BY <1>2, <2>2 DEF ServerCreates, InJob, JobInv
    <3>2. job \cup {p} \in SUBSET Procs /\ job \in SUBSET Procs
      BY <2>2 DEF TypeOK, Born
    <3>3. p \notin image /\ p # Server
      BY <1>2 DEF ServerCreates, Create, TypeOK
    <3>4. p \in image' => p \in job'
      BY <1>2, <3>1, <3>3 DEF ServerCreates
    <3>5. job' # None
      BY <3>1, <3>2, WindowsAssumption
    <3>6. QED
      BY <1>2, <1>created, <2>2, <3>1, <3>3, <3>4, <3>5 DEF ServerCreates
  <2>3. QED
    BY <2>1, <2>2
<1>3. ASSUME NEW p \in Procs, NEW q \in Pids, NEW up \in Pids, OtherCreates(p, q, up)
      PROVE JobInv'
  <2>1. CASE job = None
    BY <1>3, <2>1 DEF OtherCreates, JobInv
  <2>2. CASE job # None
    <3>1. p \notin ours /\ p # Server
      BY <1>3 DEF OtherCreates, Create, TypeOK
    <3>2. QED
      BY <1>3, <1>created, <2>2, <3>1 DEF OtherCreates
  <2>3. QED
    BY <2>1, <2>2
<1>4. ASSUME NEW p \in Procs, Ends(p) PROVE JobInv'
  <2>1. CASE pc # "gone"
    BY <1>4, <2>1, <1>kept DEF Ends, Pending
  <2>2. CASE pc = "gone"
    BY <1>4, <2>2 DEF Ends, JobInv
  <2>3. QED
    BY <2>1, <2>2
<1>5. CASE OpenRoot
  BY <1>5, <1>kept, <1>outside DEF OpenRoot
<1>6. CASE RootGivenUp
  BY <1>6, <1>kept, <1>outside DEF RootGivenUp, Ended, TypeOK
<1>7. CASE AssignRoot
  <2>1. round = 0 /\ job = None
    BY <1>7 DEF AssignRoot, RoundInv
  <2>2. CASE job' = handles /\ pc' = "tree"
    BY <1>7, <2>1, <2>2 DEF AssignRoot, HandleInv, JobInv, Pending
  <2>3. CASE UNCHANGED job
    BY <2>1, <2>3 DEF JobInv
  <2>4. QED
    BY <1>7, <2>2, <2>3 DEF AssignRoot
<1>8. CASE Snapshot
  <2>1. PICK E \in Snapshots :
          tree' = {[pid |-> pid[x], parent |-> parent[x]] : x \in CollectTree(E)}
    BY <1>8 DEF Snapshot
  <2>2. ASSUME NEW p \in alive \cap ours \cap image, job # None, p \notin job, round = 0
        PROVE  Pending(p)'
    <3>1. p # Server /\ parent[p] = pid[Server] /\ p \in E
      BY <2>2, SnapshotSets DEF JobInv, ServerInv
    <3>2. Cardinality(E) \in Nat /\ Cardinality(E) \in 0..Cardinality(E)
      BY SnapshotSets
    <3>3. p \in Levels(E)[0]
      BY <3>1, <3>2, LevelRows
    <3>4. p \in Levels(E)[Cardinality(E)]
      BY <3>2, <3>3, LevelsGrow
    <3>5. p \in CollectTree(E)
      BY <3>1, <3>2, <3>4, LevelRows
    <3>6. QED
      BY <1>8, <2>1, <2>2, <3>5 DEF Snapshot, Pending
  <2>3. \A p : Pending(p) => round = 0
    BY DEF Pending
  <2>4. QED
    BY <1>8, <2>2, <2>3, <1>kept DEF Snapshot
<1>9. CASE SnapshotFails
  <2>1. \A p : Pending(p) => round = 0
    BY DEF Pending
  <2>2. QED
    BY <1>9, <2>1, <1>kept DEF SnapshotFails, Miss, InJob
<1>10. ASSUME NEW e \in tree, OpenDescendant(e) PROVE JobInv'
  <2>1. ASSUME NEW p \in alive \cap ours \cap image, Pending(p), p \notin missed'
        PROVE  Pending(p)'
    <3>1. round = 0 /\ UNCHANGED <<pid, parent, pc, round>> /\ tree' = tree \ {e} /\ pc = "open"
      BY <1>10, <2>1 DEF OpenDescendant, Pending
    <3>2. CASE \E o \in opened : o.process = p /\ o.entry.parent = parent[p]
      <4>1. opened \subseteq opened'
        BY <1>10 DEF OpenDescendant
      <4>2. QED
        BY <3>1, <3>2, <4>1 DEF Pending
    <3>3. CASE [pid |-> pid[p], parent |-> parent[p]] \in tree \ {e}
      BY <3>1, <3>3 DEF Pending
    <3>4. CASE [pid |-> pid[p], parent |-> parent[p]] = e
      <4>1. p \in Open(e.pid) /\ \A x \in Open(e.pid) : x = p
        BY <3>4 DEF Open, TypeOK
      <4>2. opened' = opened \cup {[process |-> p, entry |-> e]}
        BY <1>10, <2>1, <3>1, <4>1 DEF OpenDescendant, Miss
      <4>3. [process |-> p, entry |-> e] \in opened' /\ e.parent = parent[p]
        BY <3>4, <4>2
      <4>4. QED
        BY <3>1, <4>3 DEF Pending
    <3>5. QED
      BY <2>1, <3>1, <3>2, <3>3, <3>4 DEF Pending
  <2>2. missed \subseteq missed'
    BY <1>10 DEF OpenDescendant, Miss
  <2>3. QED
    BY <1>10, <2>1, <2>2, <1>kept DEF OpenDescendant
<1>11. CASE Validate
  <2>1. missed \subseteq missed'
    BY <1>11 DEF Validate, Miss
  <2>2. ASSUME NEW p \in alive \cap ours \cap image, job # None, p \notin job, Pending(p),
               p \notin missed'
        PROVE  Pending(p)'
    <3>1. round = 0 /\ pc = "open" /\ tree = {} /\ UNCHANGED <<pid, parent, round>> /\ pc' = "act"
      BY <1>11, <2>2 DEF Validate, Pending
    <3>2. PICK o \in opened : o.process = p /\ o.entry.parent = parent[p]
      BY <2>2, <3>1 DEF Pending
    <3>3. PICK E \in Snapshots : opened' = {x \in opened : StillInTree(x, E)}
      BY <1>11, <2>2, <3>1, <3>2 DEF Validate, Miss
    <3>4. p # Server /\ parent[p] = pid[Server] /\ p \in E
      BY <2>2, <3>3, SnapshotSets DEF JobInv, ServerInv
    <3>5. IsFiniteSet(E) /\ Cardinality(E) \in Nat /\ Cardinality(E) # 0
      BY <3>4, SnapshotSets, FS_EmptySet
    <3>6. HasRootAncestor(p, E)
      <4>1. 1 \in 1..Cardinality(E) /\ 1 - 1 = 0
        BY <3>5
      <4>2. p \in Ascent(p, E)[1 - 1]
        BY <3>5, <4>1, AscentRows
      <4>3. QED
        BY <3>4, <3>5, <4>1, <4>2, AscentRows
    <3>7. StillInTree(o, E)
      BY <2>2, <3>2, <3>4, <3>6 DEF StillInTree, IsActivePostgres, HandleInv
    <3>8. QED
      BY <3>1, <3>2, <3>3, <3>7 DEF Pending
  <2>3. QED
    BY <1>11, <2>1, <2>2, <1>kept DEF Validate
<1>12. ASSUME NEW o \in opened, Assign(o) PROVE JobInv'
  <2>1. job # None /\ Server \in job /\ job' # None
    <3>1. job # None /\ job \cup {o.process} \in SUBSET Procs
      BY <1>12 DEF Assign, RoundInv, TypeOK, Born
    <3>2. QED
      BY <1>12, <3>1, WindowsAssumption DEF Assign, JobInv
  <2>2. /\ UNCHANGED <<pid, parent, alive, ours, image, pc, round>> /\ pc = "act"
        /\ opened' = opened \ {o} /\ job \subseteq job' /\ missed \subseteq missed'
        /\ o.process \in job' \cup missed'
    BY <1>12 DEF Assign, CloseDescendant, Miss
  <2>3. ASSUME NEW p \in alive \cap ours \cap image, p \notin job' \cup missed'
        PROVE  Pending(p)'
    <3>1. Pending(p) /\ p # o.process
      BY <2>1, <2>2, <2>3 DEF JobInv
    <3>2. QED
      BY <2>2, <3>1 DEF Pending
  <2>4. QED
    BY <2>1, <2>2, <2>3 DEF JobInv
<1>13. ASSUME NEW o \in opened, Terminate(o) PROVE JobInv'
  <2>1. \A p : ~Pending(p)
    BY <1>13 DEF Terminate, Pending
  <2>2. QED
    BY <1>13, <2>1, <1>kept DEF Terminate
<1>14. CASE TreeDone
  <2>1. \A p : ~Pending(p)
    BY <1>14 DEF TreeDone, Pending
  <2>2. pc' # "gone"
    BY <1>14 DEF TreeDone, Ended, TypeOK
  <2>3. QED
    BY <1>14, <2>1, <2>2, <1>kept DEF TreeDone
<1>15. CASE Register
  BY <1>15, <1>kept, <1>outside DEF Register
<1>16. CASE Commit
  BY <1>16, <1>kept, <1>outside DEF Commit
<1>17. CASE Exit
  BY <1>17, <1>kept, <1>outside DEF Exit
<1>18. CASE CallbackStops
  BY <1>18, <1>kept, <1>outside DEF CallbackStops
<1>19. CASE CallbackCleansUp
  BY <1>19, <1>kept, <1>outside DEF CallbackCleansUp
<1>20. CASE CallbackGivesUp
  BY <1>20, <1>kept, <1>outside DEF CallbackGivesUp
<1>21. CASE WaitOver
  BY <1>21, <1>kept, <1>outside DEF WaitOver
<1>22. CASE WaitTimesOut
  BY <1>22, <1>kept, <1>outside DEF WaitTimesOut
<1>23. CASE Cleanup
  BY <1>23, <1>kept, <1>outside DEF Cleanup
<1>24. CASE OwnerEnds
  <2>1. registered => \A p : ~Pending(p)
    BY DEF RoundInv, Pending
  <2>2. QED
    BY <1>24, <2>1 DEF OwnerEnds, InJob, JobInv
<1>25. CASE UNCHANGED vars
  BY <1>25 DEF vars, JobInv, Pending
<1>26. QED
  BY <1>1, <1>2, <1>3, <1>4, <1>5, <1>6, <1>7, <1>8, <1>9, <1>10,
     <1>11, <1>12, <1>13, <1>14, <1>15, <1>16, <1>17, <1>18, <1>19, <1>20,
     <1>21, <1>22, <1>23, <1>24, <1>25
  DEF Next, System, Traverse, Hook

-----------------------------------------------------------------------------
(* The theorems.                                                           *)

\* Nothing runs at first.
LEMMA IndInvInit == Init => IndInv
<1> SUFFICES ASSUME Init PROVE IndInv
  OBVIOUS
<1> USE WindowsAssumption DEF Init
<1>1. Born = {}
  BY DEF Born
<1>2. TypeOK
  <2>1. pid \in [Procs -> Pids \cup {None}] /\ parent \in [Procs -> Pids \cup {None}]
    OBVIOUS
  <2>2. alive \cup handles = {} /\ pidfile \in BOOLEAN /\ registered \in BOOLEAN
    BY Zenon
  <2>3. round \in 0..2
    BY SMT
  <2>4. \A p, q \in alive \cup handles : pid[p] = pid[q] => p = q
    BY <2>2, Zenon
  <2>5. /\ tree \subseteq Entries /\ opened \subseteq [process : Procs, entry : Entries]
        /\ alive \subseteq Born /\ image \subseteq Born /\ ours \subseteq Born
        /\ coincident \subseteq Born \ ours /\ handles \subseteq Born
        /\ touched \subseteq Born /\ missed \subseteq Born
    BY Zenon
  <2>6. pc \in {"idle", "root", "assign", "tree", "open", "act", "commit", "registered",
                "callback", "wait", "cleanup", "end", "gone"}
    OBVIOUS
  <2>7. handles = {} /\ tree = {} /\ opened = {} /\ job = None
    OBVIOUS
  <2> HIDE DEF Init
  <2>8. QED
    BY <2>1, <2>2, <2>3, <2>4, <2>5, <2>6, <2>7, Zenon DEF TypeOK
<1>3. ServerInv
  BY <1>1 DEF ServerInv
<1>4. ChainInv /\ HandleInv /\ ValidInv /\ RoundInv /\ JobInv /\ OnlyOursTouched
  BY DEF ChainInv, HandleInv, ValidInv, RoundInv, JobInv, OnlyOursTouched
<1>5. QED
  BY <1>2, <1>3, <1>4 DEF IndInv

\* The invariant holds of the specification.
LEMMA Invariant == Spec => []IndInv
<1>1. ASSUME IndInv, [Next]_vars PROVE IndInv'
  <2> USE <1>1 DEF IndInv
  <2>1. TypeOK' /\ ServerInv' /\ ChainInv'
    BY TypeNext, ServerNext, ChainNext
  <2>2. HandleInv' /\ ValidInv' /\ RoundInv'
    BY HandleNext, ValidNext, RoundNext
  <2>3. JobInv' /\ OnlyOursTouched'
    BY JobNext, TouchedNext
  <2>4. QED
    BY <2>1, <2>2, <2>3
<1>2. QED
  BY <1>1, IndInvInit, PTL DEF Spec

\* Every reachable state has the types the code's structures have; no two processes
\* that are there or are held have one PID.
THEOREM WindowsTypeCorrect == Spec => []TypeOK
<1>1. IndInv => TypeOK
  BY DEF IndInv
<1>2. QED
  BY <1>1, Invariant, PTL

\* However PIDs are reused, the hook terminates, and puts into its job, only the
\* postmaster and what descends from it, really or by its parent PIDs
\* (open_validated_descendant_processes).
THEOREM TouchesOnlyOurs == Spec => []OnlyOursTouched
<1>1. IndInv => OnlyOursTouched
  BY DEF IndInv
<1>2. QED
  BY <1>1, Invariant, PTL

\* A registered job has every postgres process of the server that no denied call has
\* kept out, those created during the assignment included (assign_process_tree).
THEOREM JobComplete == Spec => []JobCoversServer
<1>1. IndInv => JobCoversServer
  <2> SUFFICES ASSUME IndInv, registered, job # None, NEW p \in alive \cap ours \cap image
               PROVE  p \in missed \cup (IF pc = "gone" THEN {} ELSE job)
    BY DEF JobCoversServer
  <2>1. ~Pending(p)
    BY DEF IndInv, RoundInv, Pending
  <2>2. QED
    BY <2>1 DEF IndInv, JobInv
<1>2. QED
  BY <1>1, Invariant, PTL

\* process_has_root_ancestor, bounded by the number of entries, and
\* collect_process_tree find the same processes in every snapshot.
THEOREM WalksFindTheSame == Spec => []WalksAgree
<1>1. TypeOK => WalksAgree
  <2> SUFFICES ASSUME TypeOK, NEW E \in Snapshots, NEW p \in E \ {Server}
               PROVE  HasRootAncestor(p, E) <=> p \in CollectTree(E)
    BY DEF WalksAgree
  <2>1. IsFiniteSet(E) /\ Cardinality(E) \in Nat
    BY SnapshotSets
  <2>2. QED
    BY <2>1, SameWalks, LevelRows
<1>2. QED
  BY <1>1, WindowsTypeCorrect, PTL
=============================================================================
