-------------------------- MODULE DatabasesProofs --------------------------
(***************************************************************************)
(* What holds of Databases for any threads, templates, names and calls.    *)
(* Who has a template's lock is the only one that changes the template     *)
(* (TypeOK says that a thread past "lock" has it).  So a template that is  *)
(* neither absent nor complete is being made by that thread, or was left   *)
(* over (MakingInv), and while it is being made nobody was told of it      *)
(* (UntoldInv).  A name that no second drop has disturbed has at most one  *)
(* holder (HolderInv).  A step that neither begins nor ends a making is    *)
(* none of TemplatePromise (Stuttering), the others are one (PromiseStep). *)
(***************************************************************************)
EXTENDS Databases, TLAPS

Making == {"setup", "rollback"}
Holding == {"using", "drop"}

\* A template is absent, complete, left over or being made.
MakingInv == \A n \in Templates \ leftOver :
  db[n] \in {Absent, SetupSteps} \/ \E t \in Threads : name[t] = n /\ pc[t] \in Making

\* What is being made is there, and nobody was told that it exists.
UntoldInv == \A t \in Threads : pc[t] \in Making =>
  /\ db[name[t]] # Absent
  /\ name[t] \notin leftOver => \A u \in Threads : name[t] \notin ensured[u]

\* Who creates a template has found none, and the lock keeps it so.
CreateInv == \A t \in Threads : pc[t] = "create" => db[name[t]] = Absent

\* A holder's database exists and is nobody else's.
HolderInv == \A t \in Threads : pc[t] \in Holding /\ name[t] \notin repeated =>
  /\ db[name[t]] # Absent
  /\ \A u \in Threads \ {t} : pc[u] \in Holding => name[u] # name[t]

IndInv ==
  /\ TypeOK
  /\ MakingInv
  /\ UntoldInv
  /\ CreateInv
  /\ HolderInv
  /\ EnsuredComplete

-----------------------------------------------------------------------------
(* Type correctness.                                                       *)

USE DatabasesAssumption DEF Absent, Locked

\* The initial state has the types.
LEMMA TypeInit == Init => TypeOK
<1> SUFFICES ASSUME Init PROVE TypeOK
  OBVIOUS
<1>1. guarded \in [Threads -> BOOLEAN]
  BY Zenon DEF Init
<1>2. QED
  BY <1>1 DEF Init, TypeOK

\* Every step keeps the types.
LEMMA TypeNext == TypeOK /\ [Next]_vars => TypeOK'
<1> SUFFICES ASSUME TypeOK, [Next]_vars PROVE TypeOK'
  OBVIOUS
<1>1. ASSUME NEW t \in Threads, NEW n \in Templates, Ensure(t, n) PROVE TypeOK'
  BY <1>1 DEF Ensure, Call, Goto, history, TypeOK
<1>2. ASSUME NEW t \in Threads, LockTemplate(t) PROVE TypeOK'
  BY <1>2 DEF LockTemplate, Goto, history, TypeOK
<1>3. ASSUME NEW t \in Threads, Exists(t) PROVE TypeOK'
  BY <1>3 DEF Exists, Unlock, Return, Goto, history, TypeOK
<1>4. ASSUME NEW t \in Threads, ExistsNot(t) PROVE TypeOK'
  BY <1>4 DEF ExistsNot, Goto, history, TypeOK
<1>5. ASSUME NEW t \in Threads, EnsureFails(t) PROVE TypeOK'
  BY <1>5 DEF EnsureFails, Unlock, Return, Goto, history, TypeOK
<1>6. ASSUME NEW t \in Threads, CreateTemplate(t) PROVE TypeOK'
  BY <1>6 DEF CreateTemplate, Goto, history, TypeOK
<1>7. ASSUME NEW t \in Threads, SetupStep(t) PROVE TypeOK'
  BY <1>7 DEF SetupStep, Goto, history, TypeOK
<1>8. ASSUME NEW t \in Threads, SetupSucceeds(t) PROVE TypeOK'
  BY <1>8 DEF SetupSucceeds, Unlock, Return, Goto, history, TypeOK
<1>9. ASSUME NEW t \in Threads, SetupFails(t) PROVE TypeOK'
  BY <1>9 DEF SetupFails, Goto, history, TypeOK
<1>10. ASSUME NEW t \in Threads, Rollback(t) PROVE TypeOK'
  BY <1>10 DEF Rollback, Unlock, Return, Droppable, Goto, history, TypeOK
<1>11. ASSUME NEW t \in Threads, RollbackFails(t) PROVE TypeOK'
  BY <1>11 DEF RollbackFails, Unlock, Return, Goto, history, TypeOK
<1>12. ASSUME NEW t \in Threads, NEW d \in Names, NEW guard \in BOOLEAN, CreateDatabase(t, d, guard)
      PROVE TypeOK'
  BY <1>12 DEF CreateDatabase, Call, Take, Goto, history, TypeOK
<1>13. ASSUME NEW t \in Threads, NEW d \in Names, NEW n \in Templates, NEW guard \in BOOLEAN,
             CreateFromTemplate(t, d, n, guard)
      PROVE TypeOK'
  BY <1>13 DEF CreateFromTemplate, Call, Take, Goto, history, TypeOK
<1>14. ASSUME NEW t \in Threads, CreateFails(t) PROVE TypeOK'
  BY <1>14 DEF CreateFails, Call, Goto, history, TypeOK
<1>15. ASSUME NEW t \in Threads, Connect(t) PROVE TypeOK'
  BY <1>15 DEF Connect, Goto, history, TypeOK
<1>16. ASSUME NEW t \in Threads, Reconnect(t) PROVE TypeOK'
  BY <1>16 DEF Reconnect, Goto, history, TypeOK
<1>17. ASSUME NEW t \in Threads, DropDatabase(t) PROVE TypeOK'
  BY <1>17 DEF DropDatabase, TryDrop, Droppable, Return, Goto, history, TypeOK
<1>18. ASSUME NEW t \in Threads, GuardDropDatabase(t) PROVE TypeOK'
  BY <1>18 DEF GuardDropDatabase, TryDrop, Droppable, Goto, history, TypeOK
<1>19. ASSUME NEW t \in Threads, ForceDrop(t) PROVE TypeOK'
  BY <1>19 DEF ForceDrop, Goto, history, TypeOK
<1>20. ASSUME NEW t \in Threads, ForceDropDrops(t) PROVE TypeOK'
  BY <1>20 DEF ForceDropDrops, TryDrop, Droppable, Goto, history, TypeOK
<1>21. ASSUME NEW t \in Threads, DropAgain(t) PROVE TypeOK'
  BY <1>21 DEF DropAgain, TryDrop, Droppable, Return, Goto, history, TypeOK
<1>22. ASSUME NEW d \in Templates \cup Names, Disconnect(d) PROVE TypeOK'
  BY <1>22 DEF Disconnect, history, TypeOK
<1>23. CASE Crash
  BY <1>23 DEF Crash, TypeOK
<1>24. CASE UNCHANGED vars
  BY <1>24 DEF vars, TypeOK
<1>25. QED
  BY <1>1, <1>2, <1>3, <1>4, <1>5, <1>6, <1>7, <1>8, <1>9, <1>10, <1>11, <1>12,
     <1>13, <1>14, <1>15, <1>16, <1>17, <1>18, <1>19, <1>20, <1>21, <1>22, <1>23, <1>24
  DEF Next, Step, Use

-----------------------------------------------------------------------------
(* The inductive invariant.                                                *)

\* The initial state satisfies it.
LEMMA IndInit == Init => IndInv
BY TypeInit DEF Init, IndInv, MakingInv, UntoldInv, CreateInv, HolderInv, EnsuredComplete, Making,
  Holding

Templated == MakingInv /\ UntoldInv /\ CreateInv /\ EnsuredComplete

\* Every step keeps what is said of templates.
LEMMA TemplatesNext == TypeOK /\ TypeOK' /\ Templated /\ [Next]_vars => Templated'
<1> SUFFICES ASSUME TypeOK, TypeOK', Templated, [Next]_vars PROVE Templated'
  OBVIOUS
<1> USE DEF TypeOK, Templated, MakingInv, UntoldInv, CreateInv, EnsuredComplete, Making
<1>1. ASSUME NEW t \in Threads, NEW n \in Templates, Ensure(t, n) PROVE Templated'
  BY <1>1 DEF Ensure, Call, Goto, history
<1>2. ASSUME NEW t \in Threads, LockTemplate(t) PROVE Templated'
  BY <1>2 DEF LockTemplate, Goto, history
<1>3. ASSUME NEW t \in Threads, Exists(t) PROVE Templated'
  BY <1>3 DEF Exists, Unlock, Return, Goto, history
<1>4. ASSUME NEW t \in Threads, ExistsNot(t) PROVE Templated'
  BY <1>4 DEF ExistsNot, Goto, history
<1>5. ASSUME NEW t \in Threads, EnsureFails(t) PROVE Templated'
  BY <1>5 DEF EnsureFails, Unlock, Return, Goto, history
<1>6. ASSUME NEW t \in Threads, CreateTemplate(t) PROVE Templated'
  BY <1>6 DEF CreateTemplate, Goto, history
<1>7. ASSUME NEW t \in Threads, SetupStep(t) PROVE Templated'
  BY <1>7 DEF SetupStep, Goto, history
<1>8. ASSUME NEW t \in Threads, SetupSucceeds(t) PROVE Templated'
  BY <1>8 DEF SetupSucceeds, Unlock, Return, Goto, history
<1>9. ASSUME NEW t \in Threads, SetupFails(t) PROVE Templated'
  BY <1>9 DEF SetupFails, Goto, history
<1>10. ASSUME NEW t \in Threads, Rollback(t) PROVE Templated'
  BY <1>10 DEF Rollback, Unlock, Return, Droppable, Goto, history
<1>11. ASSUME NEW t \in Threads, RollbackFails(t) PROVE Templated'
  BY <1>11 DEF RollbackFails, Unlock, Return, Goto, history
<1>12. ASSUME NEW t \in Threads, NEW d \in Names, NEW guard \in BOOLEAN, CreateDatabase(t, d, guard)
      PROVE Templated'
  BY <1>12 DEF CreateDatabase, Call, Take, Goto, history
<1>13. ASSUME NEW t \in Threads, NEW d \in Names, NEW n \in Templates, NEW guard \in BOOLEAN,
             CreateFromTemplate(t, d, n, guard)
      PROVE Templated'
  BY <1>13 DEF CreateFromTemplate, Call, Take, Goto, history
<1>14. ASSUME NEW t \in Threads, CreateFails(t) PROVE Templated'
  BY <1>14 DEF CreateFails, Call, Goto, history
<1>15. ASSUME NEW t \in Threads, Connect(t) PROVE Templated'
  BY <1>15 DEF Connect, Goto, history
<1>16. ASSUME NEW t \in Threads, Reconnect(t) PROVE Templated'
  BY <1>16 DEF Reconnect, Goto, history
<1>17. ASSUME NEW t \in Threads, DropDatabase(t) PROVE Templated'
  BY <1>17 DEF DropDatabase, TryDrop, Droppable, Return, Goto, history
<1>18. ASSUME NEW t \in Threads, GuardDropDatabase(t) PROVE Templated'
  BY <1>18 DEF GuardDropDatabase, TryDrop, Droppable, Goto, history
<1>19. ASSUME NEW t \in Threads, ForceDrop(t) PROVE Templated'
  BY <1>19 DEF ForceDrop, Goto, history
<1>20. ASSUME NEW t \in Threads, ForceDropDrops(t) PROVE Templated'
  BY <1>20 DEF ForceDropDrops, TryDrop, Droppable, Goto, history
<1>21. ASSUME NEW t \in Threads, DropAgain(t) PROVE Templated'
  BY <1>21 DEF DropAgain, TryDrop, Droppable, Return, Goto, history
<1>22. ASSUME NEW d \in Templates \cup Names, Disconnect(d) PROVE Templated'
  BY <1>22 DEF Disconnect, history
<1>23. CASE Crash
  BY <1>23 DEF Crash
<1>24. CASE UNCHANGED vars
  BY <1>24 DEF vars
<1> HIDE DEF TypeOK, Templated
<1>25. QED
  BY <1>1, <1>2, <1>3, <1>4, <1>5, <1>6, <1>7, <1>8, <1>9, <1>10, <1>11, <1>12,
     <1>13, <1>14, <1>15, <1>16, <1>17, <1>18, <1>19, <1>20, <1>21, <1>22, <1>23, <1>24
  DEF Next, Step, Use

\* Every step keeps what is said of holders.
LEMMA HoldersNext == TypeOK /\ HolderInv /\ [Next]_vars => HolderInv'
<1> SUFFICES ASSUME TypeOK, HolderInv, [Next]_vars PROVE HolderInv'
  OBVIOUS
<1>1. ASSUME NEW t \in Threads, NEW n \in Templates, Ensure(t, n) PROVE HolderInv'
  BY <1>1 DEF Ensure, Call, Goto, history, TypeOK, HolderInv, Holding
<1>2. ASSUME NEW t \in Threads, LockTemplate(t) PROVE HolderInv'
  BY <1>2 DEF LockTemplate, Goto, history, TypeOK, HolderInv, Holding
<1>3. ASSUME NEW t \in Threads, Exists(t) PROVE HolderInv'
  BY <1>3 DEF Exists, Unlock, Return, Goto, history, TypeOK, HolderInv, Holding
<1>4. ASSUME NEW t \in Threads, ExistsNot(t) PROVE HolderInv'
  BY <1>4 DEF ExistsNot, Goto, history, TypeOK, HolderInv, Holding
<1>5. ASSUME NEW t \in Threads, EnsureFails(t) PROVE HolderInv'
  BY <1>5 DEF EnsureFails, Unlock, Return, Goto, history, TypeOK, HolderInv, Holding
<1>6. ASSUME NEW t \in Threads, CreateTemplate(t) PROVE HolderInv'
  BY <1>6 DEF CreateTemplate, Goto, history, TypeOK, HolderInv, Holding
<1>7. ASSUME NEW t \in Threads, SetupStep(t) PROVE HolderInv'
  BY <1>7 DEF SetupStep, Goto, history, TypeOK, HolderInv, Holding
<1>8. ASSUME NEW t \in Threads, SetupSucceeds(t) PROVE HolderInv'
  BY <1>8 DEF SetupSucceeds, Unlock, Return, Goto, history, TypeOK, HolderInv, Holding
<1>9. ASSUME NEW t \in Threads, SetupFails(t) PROVE HolderInv'
  BY <1>9 DEF SetupFails, Goto, history, TypeOK, HolderInv, Holding
<1>10. ASSUME NEW t \in Threads, Rollback(t) PROVE HolderInv'
  BY <1>10 DEF Rollback, Unlock, Return, Droppable, Goto, history, TypeOK, HolderInv, Holding
<1>11. ASSUME NEW t \in Threads, RollbackFails(t) PROVE HolderInv'
  BY <1>11 DEF RollbackFails, Unlock, Return, Goto, history, TypeOK, HolderInv, Holding
<1>12. ASSUME NEW t \in Threads, NEW d \in Names, NEW guard \in BOOLEAN, CreateDatabase(t, d, guard)
      PROVE HolderInv'
  BY <1>12 DEF CreateDatabase, Call, Take, Goto, history, TypeOK, HolderInv, Holding
<1>13. ASSUME NEW t \in Threads, NEW d \in Names, NEW n \in Templates, NEW guard \in BOOLEAN,
             CreateFromTemplate(t, d, n, guard)
      PROVE HolderInv'
  BY <1>13 DEF CreateFromTemplate, Call, Take, Goto, history, TypeOK, HolderInv, Holding
<1>14. ASSUME NEW t \in Threads, CreateFails(t) PROVE HolderInv'
  BY <1>14 DEF CreateFails, Call, Goto, history, TypeOK, HolderInv, Holding
<1>15. ASSUME NEW t \in Threads, Connect(t) PROVE HolderInv'
  BY <1>15 DEF Connect, Goto, history, TypeOK, HolderInv, Holding
<1>16. ASSUME NEW t \in Threads, Reconnect(t) PROVE HolderInv'
  BY <1>16 DEF Reconnect, Goto, history, TypeOK, HolderInv, Holding
<1>17. ASSUME NEW t \in Threads, DropDatabase(t) PROVE HolderInv'
  BY <1>17 DEF DropDatabase, TryDrop, Droppable, Return, Goto, history, TypeOK, HolderInv, Holding
<1>18. ASSUME NEW t \in Threads, GuardDropDatabase(t) PROVE HolderInv'
  BY <1>18 DEF GuardDropDatabase, TryDrop, Droppable, Goto, history, TypeOK, HolderInv, Holding
<1>19. ASSUME NEW t \in Threads, ForceDrop(t) PROVE HolderInv'
  BY <1>19 DEF ForceDrop, Goto, history, TypeOK, HolderInv, Holding
<1>20. ASSUME NEW t \in Threads, ForceDropDrops(t) PROVE HolderInv'
  BY <1>20 DEF ForceDropDrops, TryDrop, Droppable, Goto, history, TypeOK, HolderInv, Holding
<1>21. ASSUME NEW t \in Threads, DropAgain(t) PROVE HolderInv'
  BY <1>21 DEF DropAgain, TryDrop, Droppable, Return, Goto, history, TypeOK, HolderInv, Holding
<1>22. ASSUME NEW d \in Templates \cup Names, Disconnect(d) PROVE HolderInv'
  BY <1>22 DEF Disconnect, history, TypeOK, HolderInv, Holding
<1>23. CASE Crash
  BY <1>23 DEF Crash, TypeOK, HolderInv, Holding
<1>24. CASE UNCHANGED vars
  BY <1>24 DEF vars, TypeOK, HolderInv, Holding
<1>25. QED
  BY <1>1, <1>2, <1>3, <1>4, <1>5, <1>6, <1>7, <1>8, <1>9, <1>10, <1>11, <1>12,
     <1>13, <1>14, <1>15, <1>16, <1>17, <1>18, <1>19, <1>20, <1>21, <1>22, <1>23, <1>24
  DEF Next, Step, Use

\* The invariant is inductive.
LEMMA IndNext == IndInv /\ [Next]_vars => IndInv'
BY TypeNext, TemplatesNext, HoldersNext DEF IndInv, Templated

\* So it holds throughout.
LEMMA Invariance == Spec => []IndInv
BY IndInit, IndNext, PTL DEF Spec

-----------------------------------------------------------------------------
(* The refinement: templates implement TemplatePromise.                    *)

\* The same threads make the same templates, and what nobody makes stays as it is.
Alike ==
  /\ \A t \in Threads : pc'[t] \in Making <=> pc[t] \in Making
  /\ \A t \in Threads : pc[t] \in Making => name'[t] = name[t]
  /\ \A n \in Templates : db'[n] = db[n] \/ MakersOf(n) # {}

\* Such a step changes nothing of TemplatePromise unless it tells somebody.
LEMMA Stuttering ==
  ASSUME Alike
  PROVE  /\ \A n \in Templates : MakersOf(n)' = MakersOf(n) /\ StateOf(n)' = StateOf(n)
         /\ UNCHANGED ensured => UNCHANGED Promise!promiseVars
<1>1. \A n \in Templates : MakersOf(n)' = MakersOf(n)
  BY DEF Alike, MakersOf, Making
<1>2. \A n \in Templates : StateOf(n)' = StateOf(n)
  BY <1>1 DEF Alike, StateOf
<1> HIDE DEF Absent
<1>3. QED
  BY <1>1, <1>2 DEF Promise!promiseVars

\* Who has the lock of a template is the only one that may be making it.
LEMMA OneMaker ==
  ASSUME TypeOK, NEW t \in Threads, pc[t] \in Locked
  PROVE  /\ name[t] \in Templates
         /\ pc[t] \in Making => MakersOf(name[t]) = {t}
         /\ pc[t] \notin Making => MakersOf(name[t]) = {}
BY DEF TypeOK, MakersOf, Making

\* A thread begins or ends the making of one template.
LEMMA Changing ==
  ASSUME TypeOK, NEW t \in Threads, pc[t] \in Locked, NEW m, m = name[t], NEW l, Goto(t, l),
         \A u \in Threads \ {t} : name'[u] = name[u],
         name'[t] = m \/ l \notin Making,
         \A n \in Templates : n # m => db'[n] = db[n]
  PROVE  /\ \A n \in Templates : n # m => MakersOf(n)' = MakersOf(n) /\ StateOf(n)' = StateOf(n)
         /\ MakersOf(m)' = IF l \in Making THEN {t} ELSE {}
<1>1. \A u \in Threads : pc'[u] = IF u = t THEN l ELSE pc[u]
  BY DEF TypeOK, Goto
<1>2. m \in Templates /\ MakersOf(m) \subseteq {t}
  BY OneMaker
<1>3. \A n \in Templates : n # m => MakersOf(n)' = MakersOf(n)
  BY <1>1 DEF MakersOf, Making
<1>4. MakersOf(m)' = IF l \in Making THEN {t} ELSE {}
  <2>1. \A u \in Threads \ {t} : ~(name[u] = m /\ pc[u] \in Making)
    BY <1>2 DEF MakersOf, Making
  <2>2. \A u \in Threads : name'[u] = m /\ pc'[u] \in Making <=> u = t /\ l \in Making
    BY <1>1, <2>1
  <2>3. QED
    BY <2>2 DEF MakersOf, Making
<1>5. \A n \in Templates : n # m => StateOf(n)' = StateOf(n)
  BY <1>3 DEF StateOf
<1>6. QED
  BY <1>3, <1>4, <1>5

\* The functions of TemplatePromise after one template has changed.
LEMMA Mapped ==
  ASSUME NEW m \in Templates,
         \A n \in Templates : n # m => MakersOf(n)' = MakersOf(n) /\ StateOf(n)' = StateOf(n)
  PROVE  /\ [n \in Templates |-> MakersOf(n)]' =
              [[n \in Templates |-> MakersOf(n)] EXCEPT ![m] = MakersOf(m)']
         /\ [n \in Templates |-> StateOf(n)]' =
              [[n \in Templates |-> StateOf(n)] EXCEPT ![m] = StateOf(m)']
OBVIOUS

\* At first nothing is made and nobody is told.
LEMMA PromiseInitially == Init => Promise!PromiseInit
BY DEF Init, Promise!PromiseInit, MakersOf, StateOf

\* Every step maps to a step of TemplatePromise or changes nothing of it.
LEMMA PromiseStep == IndInv /\ IndInv' /\ [Next]_vars => [Promise!PromiseNext]_(Promise!promiseVars)
<1> SUFFICES ASSUME IndInv, IndInv', [Next]_vars
             PROVE  [Promise!PromiseNext]_(Promise!promiseVars)
  OBVIOUS
<1> DEFINE Same == UNCHANGED Promise!promiseVars
<1>types. TypeOK /\ TypeOK'
  BY DEF IndInv
<1> USE DEF Making
<1>1. ASSUME NEW t \in Threads, NEW n \in Templates, Ensure(t, n) PROVE Same
  <2>1. Alike /\ UNCHANGED ensured
    BY <1>1, <1>types DEF Alike, Ensure, Call, Goto, TypeOK
  <2>2. QED
    BY <2>1, Stuttering
<1>2. ASSUME NEW t \in Threads, LockTemplate(t) PROVE Same
  <2>1. Alike /\ UNCHANGED ensured
    BY <1>2, <1>types DEF Alike, LockTemplate, Goto, TypeOK
  <2>2. QED
    BY <2>1, Stuttering
<1>3. ASSUME NEW t \in Threads, Exists(t) PROVE \E n \in Templates : Promise!Tell(t, n)
  <2> DEFINE n == name[t]
  <2>1. Alike
    BY <1>3, <1>types DEF Alike, Exists, Return, Goto, TypeOK
  <2>2. n \in Templates /\ MakersOf(n) = {} /\ StateOf(n) # "unmade"
    BY <1>3, <1>types, OneMaker DEF Exists, StateOf
  <2>3. ensured' = [ensured EXCEPT ![t] = @ \cup {n}]
    BY <1>3 DEF Exists
  <2>4. \A m \in Templates : MakersOf(m)' = MakersOf(m) /\ StateOf(m)' = StateOf(m)
    BY <2>1, Stuttering
  <2> HIDE DEF n
  <2>5. QED
    BY <2>2, <2>3, <2>4 DEF Promise!Tell
<1>4. ASSUME NEW t \in Threads, ExistsNot(t) PROVE Same
  <2>1. Alike /\ UNCHANGED ensured
    BY <1>4, <1>types DEF Alike, ExistsNot, Goto, TypeOK
  <2>2. QED
    BY <2>1, Stuttering
<1>5. ASSUME NEW t \in Threads, EnsureFails(t) PROVE Same
  <2>1. Alike /\ UNCHANGED ensured
    BY <1>5, <1>types DEF Alike, EnsureFails, Return, Goto, TypeOK
  <2>2. QED
    BY <2>1, Stuttering
<1>6. ASSUME NEW t \in Threads, CreateTemplate(t) PROVE \E n \in Templates : Promise!Begin(t, n)
  <2>0. PICK n \in Templates : n = name[t]
    BY <1>6, <1>types, OneMaker DEF CreateTemplate
  <2>1. MakersOf(n) = {} /\ StateOf(n) = "unmade" /\ UNCHANGED ensured
    BY <1>6, <2>0, <1>types, OneMaker DEF CreateTemplate, StateOf
  <2>2. /\ \A m \in Templates : m # n => MakersOf(m)' = MakersOf(m) /\ StateOf(m)' = StateOf(m)
        /\ MakersOf(n)' = {t}
    <3>1. Goto(t, "setup") /\ UNCHANGED name /\ \A m \in Templates : m # n => db'[m] = db[m]
      BY <1>6, <2>0, <1>types DEF CreateTemplate, TypeOK
    <3>2. QED
      BY <1>6, <2>0, <3>1, <1>types, Changing DEF CreateTemplate
  <2>3. StateOf(n)' = "unmade"
    BY <2>2 DEF StateOf
  <2>4. [m \in Templates |-> StateOf(m)]' = [m \in Templates |-> StateOf(m)]
    <3>1. \A m \in Templates : StateOf(m)' = StateOf(m)
      BY <2>1, <2>2, <2>3
    <3>2. QED
      BY <3>1
  <2>5. [m \in Templates |-> MakersOf(m)]' =
          [[m \in Templates |-> MakersOf(m)] EXCEPT ![n] = {t}]
    BY <2>2, Mapped
  <2>6. [m \in Templates |-> StateOf(m)][n] = "unmade" /\ [m \in Templates |-> MakersOf(m)][n] = {}
    BY <2>1
  <2>7. QED
    BY <2>1, <2>4, <2>5, <2>6 DEF Promise!Begin
<1>7. ASSUME NEW t \in Threads, SetupStep(t) PROVE Same
  <2>1. MakersOf(name[t]) # {}
    BY <1>7, <1>types, OneMaker DEF SetupStep
  <2>2. Alike /\ UNCHANGED ensured
    BY <1>7, <2>1, <1>types DEF Alike, SetupStep, TypeOK
  <2>3. QED
    BY <2>2, Stuttering
<1>8. ASSUME NEW t \in Threads, SetupSucceeds(t) PROVE \E n \in Templates : Promise!Finish(t, n)
  <2>0. PICK n \in Templates : n = name[t]
    BY <1>8, <1>types, OneMaker DEF SetupSucceeds
  <2>1. MakersOf(n) = {t}
    BY <1>8, <2>0, <1>types, OneMaker DEF SetupSucceeds
  <2>2. /\ \A m \in Templates : m # n => MakersOf(m)' = MakersOf(m) /\ StateOf(m)' = StateOf(m)
        /\ MakersOf(n)' = {}
    <3>1. /\ Goto(t, "idle") /\ \A u \in Threads \ {t} : name'[u] = name[u]
          /\ \A m \in Templates : m # n => db'[m] = db[m]
      BY <1>8, <2>0, <1>types DEF SetupSucceeds, Return, TypeOK
    <3>2. QED
      BY <1>8, <2>0, <3>1, <1>types, Changing DEF SetupSucceeds
  <2>3. StateOf(n)' = "ready" /\ ensured' = [ensured EXCEPT ![t] = @ \cup {n}]
    BY <1>8, <2>0, <2>2 DEF SetupSucceeds, StateOf
  <2>4. QED
    BY <2>1, <2>2, <2>3, Mapped DEF Promise!Finish
<1>9. ASSUME NEW t \in Threads, SetupFails(t) PROVE Same
  <2>1. Alike /\ UNCHANGED ensured
    BY <1>9, <1>types DEF Alike, SetupFails, Goto, TypeOK
  <2>2. QED
    BY <2>1, Stuttering
<1>10. ASSUME NEW t \in Threads, Rollback(t) PROVE \E n \in Templates : Promise!Abandon(t, n)
  <2>0. PICK n \in Templates : n = name[t]
    BY <1>10, <1>types, OneMaker DEF Rollback
  <2>1. MakersOf(n) = {t}
    BY <1>10, <2>0, <1>types, OneMaker DEF Rollback
  <2>2. /\ \A m \in Templates : m # n => MakersOf(m)' = MakersOf(m) /\ StateOf(m)' = StateOf(m)
        /\ MakersOf(n)' = {}
    <3>1. /\ Goto(t, "idle") /\ \A u \in Threads \ {t} : name'[u] = name[u]
          /\ \A m \in Templates : m # n => db'[m] = db[m]
      BY <1>10, <2>0, <1>types DEF Rollback, Return, TypeOK
    <3>2. QED
      BY <1>10, <2>0, <3>1, <1>types, Changing DEF Rollback
  <2>3. StateOf(n)' \in {"unmade", "ready", "broken"} /\ UNCHANGED ensured
    BY <1>10 DEF Rollback, StateOf
  <2>4. QED
    BY <2>1, <2>2, <2>3, Mapped DEF Promise!Abandon
<1>11. ASSUME NEW t \in Threads, RollbackFails(t) PROVE \E n \in Templates : Promise!Abandon(t, n)
  <2>0. PICK n \in Templates : n = name[t]
    BY <1>11, <1>types, OneMaker DEF RollbackFails
  <2>1. MakersOf(n) = {t}
    BY <1>11, <2>0, <1>types, OneMaker DEF RollbackFails
  <2>2. /\ \A m \in Templates : m # n => MakersOf(m)' = MakersOf(m) /\ StateOf(m)' = StateOf(m)
        /\ MakersOf(n)' = {}
    <3>1. /\ Goto(t, "idle") /\ \A u \in Threads \ {t} : name'[u] = name[u]
          /\ \A m \in Templates : m # n => db'[m] = db[m]
      BY <1>11, <2>0, <1>types DEF RollbackFails, Return, TypeOK
    <3>2. QED
      BY <1>11, <2>0, <3>1, <1>types, Changing DEF RollbackFails
  <2>3. StateOf(n)' \in {"unmade", "ready", "broken"} /\ UNCHANGED ensured
    BY <1>11 DEF RollbackFails, StateOf
  <2>4. QED
    BY <2>1, <2>2, <2>3, Mapped DEF Promise!Abandon
<1>12. ASSUME NEW t \in Threads, NEW d \in Names, NEW guard \in BOOLEAN, CreateDatabase(t, d, guard)
      PROVE Same
  <2>1. Alike /\ UNCHANGED ensured
    BY <1>12, <1>types DEF Alike, CreateDatabase, Call, Take, Goto, TypeOK
  <2>2. QED
    BY <2>1, Stuttering
<1>13. ASSUME NEW t \in Threads, NEW d \in Names, NEW n \in Templates, NEW guard \in BOOLEAN,
             CreateFromTemplate(t, d, n, guard)
      PROVE Same
  <2>1. Alike /\ UNCHANGED ensured
    BY <1>13, <1>types DEF Alike, CreateFromTemplate, Call, Take, Goto, TypeOK
  <2>2. QED
    BY <2>1, Stuttering
<1>14. ASSUME NEW t \in Threads, CreateFails(t) PROVE Same
  <2>1. Alike /\ UNCHANGED ensured
    BY <1>14, <1>types DEF Alike, CreateFails, TypeOK
  <2>2. QED
    BY <2>1, Stuttering
<1>15. ASSUME NEW t \in Threads, Connect(t) PROVE Same
  <2>1. Alike /\ UNCHANGED ensured
    BY <1>15, <1>types DEF Alike, Connect, TypeOK
  <2>2. QED
    BY <2>1, Stuttering
<1>16. ASSUME NEW t \in Threads, Reconnect(t) PROVE Same
  <2>1. Alike /\ UNCHANGED ensured
    BY <1>16, <1>types DEF Alike, Reconnect, TypeOK
  <2>2. QED
    BY <2>1, Stuttering
<1>17. ASSUME NEW t \in Threads, DropDatabase(t) PROVE Same
  <2>1. Alike /\ UNCHANGED ensured
    BY <1>17, <1>types DEF Alike, DropDatabase, TryDrop, Return, Goto, TypeOK
  <2>2. QED
    BY <2>1, Stuttering
<1>18. ASSUME NEW t \in Threads, GuardDropDatabase(t) PROVE Same
  <2>1. Alike /\ UNCHANGED ensured
    BY <1>18, <1>types DEF Alike, GuardDropDatabase, TryDrop, Goto, TypeOK
  <2>2. QED
    BY <2>1, Stuttering
<1>19. ASSUME NEW t \in Threads, ForceDrop(t) PROVE Same
  <2>1. Alike /\ UNCHANGED ensured
    BY <1>19, <1>types DEF Alike, ForceDrop, Goto, TypeOK
  <2>2. QED
    BY <2>1, Stuttering
<1>20. ASSUME NEW t \in Threads, ForceDropDrops(t) PROVE Same
  <2>1. Alike /\ UNCHANGED ensured
    BY <1>20, <1>types DEF Alike, ForceDropDrops, TryDrop, Goto, TypeOK
  <2>2. QED
    BY <2>1, Stuttering
<1>21. ASSUME NEW t \in Threads, DropAgain(t) PROVE Same
  <2>1. Alike /\ UNCHANGED ensured
    BY <1>21, <1>types DEF Alike, DropAgain, TryDrop, Return, Goto, TypeOK
  <2>2. QED
    BY <2>1, Stuttering
<1>22. ASSUME NEW d \in Templates \cup Names, Disconnect(d) PROVE Same
  <2>1. Alike /\ UNCHANGED ensured
    BY <1>22, <1>types DEF Alike, Disconnect, TypeOK
  <2>2. QED
    BY <2>1, Stuttering
<1>23. ASSUME Crash PROVE Promise!Die
  <2> DEFINE S == {n \in Templates : db[n] = SetupSteps}
  <2>1. \A n \in Templates : MakersOf(n)' = {}
    BY <1>23, <1>types DEF Crash, MakersOf, TypeOK
  <2>2. \A n \in Templates : MakersOf(n) # {} => db[n] # Absent
    BY DEF IndInv, UntoldInv, MakersOf
  <2>3. \A n \in Templates :
          StateOf(n)' = IF MakersOf(n) = {} THEN StateOf(n)
                        ELSE IF n \in S THEN "ready" ELSE "broken"
    BY <1>23, <2>1, <2>2 DEF Crash, StateOf
  <2>4. ensured' = [t \in Threads |-> {}] /\ S \in SUBSET Templates
    BY <1>23 DEF Crash
  <2> HIDE DEF S
  <2>5. QED
    BY <2>1, <2>3, <2>4 DEF Promise!Die
<1>24. ASSUME UNCHANGED vars PROVE Same
  <2>1. Alike /\ UNCHANGED ensured
    BY <1>24 DEF Alike, vars
  <2>2. QED
    BY <2>1, Stuttering
<1> HIDE DEF Same
<1>25. Promise!PromiseNext \/ Same
  BY <1>1, <1>2, <1>3, <1>4, <1>5, <1>6, <1>7, <1>8, <1>9, <1>10, <1>11, <1>12,
     <1>13, <1>14, <1>15, <1>16, <1>17, <1>18, <1>19, <1>20, <1>21, <1>22, <1>23, <1>24
  DEF Next, Step, Use, Promise!PromiseNext
<1>26. QED
  BY <1>25 DEF Same

-----------------------------------------------------------------------------
(* The theorems.                                                           *)

\* Type correctness: databases, locks and threads keep their types, and a thread past
\* with_template_lock's acquisition has the template's lock.
THEOREM TypeCorrect == Spec => []TypeOK
BY TypeInit, TypeNext, PTL DEF Spec

\* ensure_template_exists never tells of a half-made template, however many threads
\* call it and wherever setups fail or panic, but for rollbacks that failed.
THEOREM TemplatesComplete == Spec => []EnsuredComplete
<1>1. IndInv => EnsuredComplete
  BY DEF IndInv
<1>2. QED
  BY <1>1, Invariance, PTL

\* Who created a database has it until he drops it, but for another guard's second drop.
THEOREM DatabasesKept == Spec => []HolderHasDatabase
<1>1. IndInv => HolderHasDatabase
  BY DEF IndInv, HolderInv, Holding, HolderHasDatabase
<1>2. QED
  BY <1>1, Invariance, PTL

\* Templates implement TemplatePromise: one maker at a time, nobody told of a template
\* that is being made, and no change to one that is made (lifecycle_template).
THEOREM PromiseKept == Spec => ImplementsPromise
<1>1. QED
  BY Invariance, PromiseInitially, PromiseStep, PTL
     DEF Spec, ImplementsPromise, Promise!PromiseSpec
=============================================================================
