-------------------------- MODULE LocalStorageProofs ---------------------------
(***************************************************************************)
(* Proofs about LocalStorage, for any number of threads, keys and values.  *)
(***************************************************************************)
EXTENDS LocalStorage, MapTheorems, TLAPS

(* A call under way has arguments. *)
CallsHaveArgs == \A t \in Thread : pc[t] # "idle" => args[t] \in Args

(* The clone a thread holds is the lock that the map has for its key: the  *)
(* map never forgets a lock that is in use.                                *)
ClonesAreCurrent ==
  \A t \in Cloned : exists(locks, args[t].key) /\ arc[t] = locks[args[t].key]

(* Two keys never share a lock. *)
LocksDistinct == \A j, k \in DOMAIN locks : locks[j] = locks[k] => j = k

(* Every lock in the map has a user. *)
LocksHaveUsers == \A k \in DOMAIN locks : \E t \in Cloned : args[t].key = k

(* A thread in the guarded block is the holder of its lock. *)
GuardedHolds == \A t \in Guarded : holder[arc[t]] = {t}

Inv ==
  /\ TypeOK
  /\ CallsHaveArgs
  /\ ClonesAreCurrent
  /\ LocksDistinct
  /\ LocksHaveUsers
  /\ GuardedHolds

(* The inductive invariant gives the two properties of the locks. *)
LEMMA InvImplies == Inv => KeyMutex /\ LocksInUse
  <1> SUFFICES ASSUME Inv PROVE KeyMutex /\ LocksInUse
    OBVIOUS
  <1>1. KeyMutex
    <2> SUFFICES ASSUME NEW t \in Guarded, NEW u \in Guarded, args[t].key = args[u].key
                 PROVE  t = u
      BY DEF KeyMutex
    <2>1. t \in Cloned /\ u \in Cloned
      BY DEF Guarded, Cloned
    <2>2. arc[t] = arc[u]
      BY <2>1, ZenonT(60) DEF Inv, ClonesAreCurrent
    <2>3. QED
      BY <2>2 DEF Inv, GuardedHolds
  <1>2. LocksInUse
    BY ZenonT(60) DEF Inv, LocksInUse, ClonesAreCurrent, LocksHaveUsers, exists
  <1>3. QED
    BY <1>1, <1>2

LEMMA ClonesAreArcs ==
  ASSUME Inv, NEW t \in Cloned
  PROVE  arc[t] \in Arc
  <1>1. PICK D \in SUBSET CasKey : locks \in [D -> Arc]
    BY DEF Inv, TypeOK, MapsOf
  <1>2. args[t].key \in D /\ arc[t] = locks[args[t].key]
    BY <1>1 DEF Inv, ClonesAreCurrent, exists
  <1>3. QED
    BY <1>1, <1>2

LEMMA InitInv == Init => Inv
  <1> SUFFICES ASSUME Init PROVE Inv
    OBVIOUS
  <1>1. EmptyMap \in MapsOf(CasKey \cup SetKey, Value) /\ EmptyMap \in MapsOf(CasKey, Arc)
    BY SMTT(30) DEF EmptyMap, MapsOf
  <1>2. TypeOK
    BY <1>1 DEF Init, TypeOK, PC
  <1>3. DOMAIN locks = {}
    BY DEF Init, EmptyMap
  <1>4. Cloned = {} /\ Guarded = {}
    BY DEF Init, Cloned, Guarded
  <1>5. QED
    BY <1>2, <1>3, <1>4
    DEF Init, Inv, CallsHaveArgs, ClonesAreCurrent, LocksDistinct, LocksHaveUsers, GuardedHolds

(* A database write keeps the database a map. *)
LEMMA DbPutType ==
  ASSUME TypeOK, NEW k \in CasKey \cup SetKey, NEW v \in Value, DbPut(k, v)
  PROVE  db' \in MapsOf(CasKey \cup SetKey, Value)
  <1> DEFINE K == CasKey \cup SetKey
  <1>1. k \in K /\ db \in MapsOf(K, Value)
    BY DEF TypeOK
  <1> HIDE DEF K
  <1>2. insert(db, k, v) \in MapsOf(K, Value)
    BY <1>1, InsertType
  <1>3. db' \in MapsOf(K, Value)
    BY <1>1, <1>2 DEF DbPut
  <1>4. QED
    BY <1>3 DEF K

LEMMA SetInv ==
  ASSUME Inv, NEW k \in SetKey, NEW v \in Value, Set(k, v)
  PROVE  Inv'
  <1>1. db' \in MapsOf(CasKey \cup SetKey, Value)
    BY DbPutType DEF Inv, Set
  <1>2. UNCHANGED <<locks, holder, pc, args, arc, is_set>>
    BY DEF Set
  <1>3. QED
    BY <1>1, <1>2, ZenonT(60) DEF Inv, TypeOK, CallsHaveArgs, ClonesAreCurrent, LocksDistinct,
                      LocksHaveUsers, GuardedHolds, Cloned, Guarded

LEMMA CallInv ==
  ASSUME Inv, NEW t \in Thread, NEW a \in Args, CallCompareAndSet(t, a)
  PROVE  Inv'
  <1>1. TypeOK'
    BY DEF Inv, TypeOK, CallCompareAndSet, PC
  <1>2. Cloned' = Cloned /\ Guarded' = Guarded /\ t \notin Cloned
    BY DEF Inv, TypeOK, CallCompareAndSet, Cloned, Guarded
  <1>3. \A u \in Thread : u # t => args'[u] = args[u] /\ pc'[u] = pc[u]
    BY DEF Inv, TypeOK, CallCompareAndSet
  <1>4. args'[t] = a
    BY DEF Inv, TypeOK, CallCompareAndSet
  <1>5. CallsHaveArgs'
    BY <1>3, <1>4 DEF Inv, CallsHaveArgs
  <1>6. \A u \in Cloned : u \in Thread /\ u # t
    BY <1>2 DEF Cloned
  <1>7. UNCHANGED <<locks, arc, holder>>
    BY DEF CallCompareAndSet
  <1>8. ClonesAreCurrent' /\ LocksHaveUsers'
    <2>1. \A u \in Cloned : args'[u] = args[u] BY <1>3, <1>6
    <2>2. ClonesAreCurrent'
      BY <1>2, <1>7, <2>1 DEF Inv, ClonesAreCurrent, exists
    <2>3. LocksHaveUsers'
      BY <1>2, <1>7, <2>1 DEF Inv, LocksHaveUsers
    <2> QED BY <2>2, <2>3
  <1>9. LocksDistinct' /\ GuardedHolds'
    BY <1>2, <1>7 DEF Inv, LocksDistinct, GuardedHolds
  <1>10. QED
    BY <1>1, <1>5, <1>8, <1>9 DEF Inv

LEMMA CloneLockInv ==
  ASSUME Inv, NEW t \in Thread, CloneLock(t)
  PROVE  Inv'
  <1> DEFINE k == args[t].key
  <1>1. k \in CasKey
    BY DEF Inv, CallsHaveArgs, CloneLock, Args
  <1> HIDE DEF k
  <1>2. PICK a \in Arc :
          /\ IF exists(locks, k)
               THEN a = locks[k]
               ELSE /\ \A j \in DOMAIN locks : locks[j] # a
                    /\ \A u \in Cloned : arc[u] # a
          /\ locks' = insert(locks, k, a)
          /\ arc' = [arc EXCEPT ![t] = a]
    BY ZenonT(60) DEF CloneLock, k
  <1>3. /\ pc[t] = "entry"
        /\ pc' = [pc EXCEPT ![t] = "lock"]
        /\ UNCHANGED <<db, holder, args, is_set>>
    BY DEF CloneLock
  <1>4. locks' \in MapsOf(CasKey, Arc)
    BY <1>1, <1>2, InsertType DEF Inv, TypeOK
  <1>5. TypeOK'
    BY <1>2, <1>3, <1>4 DEF Inv, TypeOK, PC
  <1>6. Cloned' = Cloned \cup {t} /\ t \notin Cloned /\ Guarded' = Guarded
    BY <1>3 DEF Inv, TypeOK, Cloned, Guarded
  <1>7. DOMAIN locks' = DOMAIN locks \cup {k} /\ locks'[k] = a
    BY <1>2 DEF insert
  <1>8. \A j \in DOMAIN locks : locks'[j] = locks[j]
    <2>1. \A j \in DOMAIN locks : j # k => locks'[j] = locks[j]
      BY <1>2 DEF insert
    <2>2. k \in DOMAIN locks => a = locks[k]
      BY <1>2 DEF exists
    <2>3. QED
      BY <2>1, <2>2, <1>7
  <1>9. \A u \in Thread : u # t => arc'[u] = arc[u]
    BY <1>2 DEF Inv, TypeOK
  <1>10. arc'[t] = a
    BY <1>2 DEF Inv, TypeOK
  <1>11. \A u \in Cloned : u \in Thread /\ u # t
    BY <1>6 DEF Cloned
  <1>12. CallsHaveArgs'
    BY <1>3 DEF Inv, CallsHaveArgs, TypeOK
  <1>13. ClonesAreCurrent'
    <2> SUFFICES ASSUME NEW u \in Cloned \cup {t}
                 PROVE  args[u].key \in DOMAIN locks' /\ arc'[u] = locks'[args[u].key]
      BY <1>3, <1>6 DEF ClonesAreCurrent, exists
    <2>1. CASE u = t
      BY <2>1, <1>7, <1>10 DEF k
    <2>2. CASE u # t
      <3>1. args[u].key \in DOMAIN locks /\ arc[u] = locks[args[u].key]
        BY <2>2 DEF Inv, ClonesAreCurrent, exists
      <3>2. QED
        BY <2>2, <3>1, <1>7, <1>8, <1>9, <1>11
    <2>3. QED
      BY <2>1, <2>2
  <1>14. LocksDistinct'
    <2> SUFFICES ASSUME NEW i \in DOMAIN locks', NEW j \in DOMAIN locks', locks'[i] = locks'[j]
                 PROVE  i = j
      BY DEF LocksDistinct
    <2>1. CASE k \in DOMAIN locks
      BY <2>1, <1>7, <1>8 DEF Inv, LocksDistinct
    <2>2. CASE k \notin DOMAIN locks
      <3>1. \A l \in DOMAIN locks : locks[l] # a
        BY <2>2, <1>2 DEF exists
      <3>2. QED
        BY <3>1, <1>7, <1>8 DEF Inv, LocksDistinct
    <2>3. QED
      BY <2>1, <2>2
  <1>15. LocksHaveUsers'
    BY <1>3, <1>6, <1>7 DEF Inv, LocksHaveUsers, k
  <1>16. GuardedHolds'
    BY <1>3, <1>6, <1>9 DEF Inv, GuardedHolds, Guarded, Cloned
  <1>17. QED
    BY <1>5, <1>12, <1>13, <1>14, <1>15, <1>16 DEF Inv

LEMMA LockKeyInv ==
  ASSUME Inv, NEW t \in Thread, LockKey(t)
  PROVE  Inv'
  <1>1. /\ pc[t] = "lock"
        /\ holder[arc[t]] = {}
        /\ holder' = [holder EXCEPT ![arc[t]] = {t}]
        /\ pc' = [pc EXCEPT ![t] = "get"]
        /\ UNCHANGED <<db, locks, args, arc, is_set>>
    BY DEF LockKey
  <1>2. t \in Cloned
    BY <1>1 DEF Cloned
  <1>3. arc[t] \in Arc
    BY <1>2, ClonesAreArcs
  <1>4. TypeOK'
    BY <1>1, <1>3 DEF Inv, TypeOK, PC
  <1>5. Cloned' = Cloned /\ Guarded' = Guarded \cup {t}
    BY <1>1 DEF Inv, TypeOK, Cloned, Guarded
  <1>6. CallsHaveArgs'
    BY <1>1 DEF Inv, CallsHaveArgs, TypeOK
  <1>7. ClonesAreCurrent' /\ LocksDistinct' /\ LocksHaveUsers'
    BY <1>1, <1>5, ZenonT(60) DEF Inv, ClonesAreCurrent, LocksDistinct, LocksHaveUsers
  <1>8. GuardedHolds'
    <2> SUFFICES ASSUME NEW u \in Guarded \cup {t} PROVE holder'[arc[u]] = {u}
      BY <1>1, <1>5 DEF GuardedHolds
    <2>1. CASE u = t
      BY <2>1, <1>1, <1>3 DEF Inv, TypeOK
    <2>2. CASE u # t
      <3>1. holder[arc[u]] = {u}
        BY <2>2 DEF Inv, GuardedHolds
      <3>2. arc[u] # arc[t]
        BY <3>1, <1>1
      <3>3. u \in Cloned
        BY <2>2 DEF Guarded, Cloned
      <3>4. arc[u] \in Arc
        BY <3>3, ClonesAreArcs
      <3>5. QED
        BY <1>1, <3>1, <3>2, <3>4 DEF Inv, TypeOK
    <2>3. QED
      BY <2>1, <2>2
  <1>9. QED
    BY <1>4, <1>6, <1>7, <1>8 DEF Inv

(* A step inside the guarded block that touches no lock. *)
LEMMA GuardedStepInv ==
  ASSUME Inv, NEW t \in Thread,
         pc[t] \in {"get", "set"}, pc' \in [Thread -> PC], pc'[t] \in {"set", "unlock"},
         \A u \in Thread : u # t => pc'[u] = pc[u],
         db' \in MapsOf(CasKey \cup SetKey, Value), is_set' \in [Thread -> BOOLEAN],
         UNCHANGED <<locks, holder, args, arc>>
  PROVE  Inv'
  <1>1. TypeOK'
    BY DEF Inv, TypeOK
  <1>2. Cloned' = Cloned /\ Guarded' = Guarded
    BY DEF Cloned, Guarded
  <1>3. CallsHaveArgs'
    BY DEF Inv, CallsHaveArgs
  <1>4. QED
    BY ZenonT(60), <1>1, <1>2, <1>3
    DEF Inv, ClonesAreCurrent, LocksDistinct, LocksHaveUsers, GuardedHolds

LEMMA CompareInv ==
  ASSUME Inv, NEW t \in Thread, Compare(t)
  PROVE  Inv'
  <1>1. PICK val \in DbGet(args[t].key) :
          /\ is_set' = [is_set EXCEPT ![t] = (val = args[t].old)]
          /\ pc' = [pc EXCEPT ![t] = IF val = args[t].old THEN "set" ELSE "unlock"]
    BY ZenonT(60) DEF Compare
  <1>2. is_set' \in [Thread -> BOOLEAN]
    BY <1>1 DEF Inv, TypeOK
  <1>3. pc' \in [Thread -> PC] /\ pc'[t] \in {"set", "unlock"}
    BY <1>1 DEF Inv, TypeOK, PC
  <1>4. \A u \in Thread : u # t => pc'[u] = pc[u]
    BY <1>1 DEF Inv, TypeOK
  <1>5. pc[t] = "get" /\ UNCHANGED <<db, locks, holder, args, arc>>
    BY DEF Compare
  <1>6. db' \in MapsOf(CasKey \cup SetKey, Value)
    BY <1>5 DEF Inv, TypeOK
  <1>7. QED
    BY <1>2, <1>3, <1>4, <1>5, <1>6, GuardedStepInv, SMTT(30)

LEMMA ReplaceInv ==
  ASSUME Inv, NEW t \in Thread, Replace(t)
  PROVE  Inv'
  <1>1. args[t].key \in CasKey \cup SetKey /\ args[t].new \in Value
    BY DEF Replace, Inv, CallsHaveArgs, Args
  <1>2. db' \in MapsOf(CasKey \cup SetKey, Value)
    BY <1>1, DbPutType DEF Replace, Inv
  <1>3. /\ pc[t] = "set"
        /\ pc' = [pc EXCEPT ![t] = "unlock"]
        /\ UNCHANGED <<locks, holder, args, arc, is_set>>
    BY DEF Replace
  <1>4. pc' \in [Thread -> PC] /\ pc'[t] = "unlock" /\ is_set' \in [Thread -> BOOLEAN]
    BY <1>3 DEF Inv, TypeOK, PC
  <1>5. \A u \in Thread : u # t => pc'[u] = pc[u]
    BY <1>3 DEF Inv, TypeOK
  <1>6. QED
    BY <1>2, <1>3, <1>4, <1>5, GuardedStepInv, SMTT(30)

LEMMA UnlockKeyInv ==
  ASSUME Inv, NEW t \in Thread, UnlockKey(t)
  PROVE  Inv'
  <1>1. /\ pc[t] = "unlock"
        /\ holder' = [holder EXCEPT ![arc[t]] = {}]
        /\ pc' = [pc EXCEPT ![t] = "clean"]
        /\ UNCHANGED <<db, locks, args, arc, is_set>>
    BY DEF UnlockKey
  <1>2. TypeOK'
    BY <1>1, ZenonT(60) DEF Inv, TypeOK, PC
  <1>3. Cloned' = Cloned /\ Guarded' = Guarded \ {t} /\ t \in Guarded
    BY <1>1 DEF Inv, TypeOK, Cloned, Guarded
  <1>4. CallsHaveArgs'
    BY <1>1 DEF Inv, CallsHaveArgs, TypeOK
  <1>5. ClonesAreCurrent' /\ LocksDistinct' /\ LocksHaveUsers'
    BY <1>1, <1>3, ZenonT(60) DEF Inv, ClonesAreCurrent, LocksDistinct, LocksHaveUsers
  <1>6. GuardedHolds'
    <2> SUFFICES ASSUME NEW u \in Guarded \ {t} PROVE holder'[arc[u]] = {u}
      BY <1>1, <1>3 DEF GuardedHolds
    <2>1. holder[arc[u]] = {u} /\ holder[arc[t]] = {t}
      BY <1>3 DEF Inv, GuardedHolds
    <2>2. arc[u] # arc[t]
      BY <2>1
    <2>3. u \in Cloned
      BY DEF Guarded, Cloned
    <2>4. arc[u] \in Arc
      BY <2>3, ClonesAreArcs
    <2>5. QED
      BY <1>1, <2>1, <2>2, <2>4 DEF Inv, TypeOK
  <1>7. QED
    BY <1>2, <1>4, <1>5, <1>6 DEF Inv

LEMMA CleanLocksInv ==
  ASSUME Inv, NEW t \in Thread, CleanLocks(t)
  PROVE  Inv'
  <1> DEFINE k == args[t].key
             mayRemove == \A u \in Cloned \ {t} : arc[u] # locks[k]
  <1>1. /\ pc[t] = "clean"
        /\ locks' = IF exists(locks, k) /\ mayRemove THEN remove(locks, k) ELSE locks
        /\ arc' = [arc EXCEPT ![t] = NoArc]
        /\ args' = [args EXCEPT ![t] = NoArgs]
        /\ is_set' = [is_set EXCEPT ![t] = FALSE]
        /\ pc' = [pc EXCEPT ![t] = "idle"]
        /\ UNCHANGED <<db, holder>>
    BY DEF CleanLocks, CleanLocksWhen
  <1>2. t \in Cloned /\ k \in DOMAIN locks
    BY <1>1 DEF Cloned, Inv, ClonesAreCurrent, exists
  <1>3. remove(locks, k) \in MapsOf(CasKey, Arc)
    BY RemoveType, SMTT(30) DEF Inv, TypeOK
  <1>4. TypeOK'
    BY <1>1, <1>3, ZenonT(60) DEF Inv, TypeOK, PC
  <1>5. Cloned' = Cloned \ {t} /\ Guarded' = Guarded /\ t \notin Guarded
    BY <1>1 DEF Inv, TypeOK, Cloned, Guarded
  <1>6. \A u \in Thread : u # t => args'[u] = args[u] /\ arc'[u] = arc[u] /\ pc'[u] = pc[u]
    BY <1>1 DEF Inv, TypeOK
  <1>7. CallsHaveArgs'
    <2>1. pc'[t] = "idle"
      BY <1>1 DEF Inv, TypeOK
    <2>2. QED
      BY <2>1, <1>6 DEF Inv, CallsHaveArgs
  <1>8. \A u \in Cloned \ {t} : u \in Thread /\ u # t
    BY DEF Cloned
  <1>9. GuardedHolds'
    BY <1>1, <1>5, <1>6 DEF Inv, GuardedHolds, Guarded
  <1>10. ASSUME NEW u \in Cloned \ {t}
         PROVE  args[u].key \in DOMAIN locks /\ arc[u] = locks[args[u].key]
    BY DEF Inv, ClonesAreCurrent, exists
  <1>11. CASE mayRemove
    <2>1. locks' = remove(locks, k)
      BY <1>1, <1>2, <1>11 DEF exists
    <2>2. DOMAIN locks' = DOMAIN locks \ {k}
      BY <2>1 DEF remove
    <2>3. \A j \in DOMAIN locks \ {k} : locks'[j] = locks[j]
      BY <2>1 DEF remove
    <2>4. ClonesAreCurrent'
      <3> SUFFICES ASSUME NEW u \in Cloned \ {t}
                   PROVE  args'[u].key \in DOMAIN locks' /\ arc'[u] = locks'[args'[u].key]
        BY <1>5 DEF ClonesAreCurrent, exists
      <3>1. args[u].key # k
        BY <1>10, <1>11
      <3>2. QED
        BY <3>1, <1>6, <1>8, <1>10, <2>2, <2>3
    <2>5. LocksDistinct'
      BY <2>2, <2>3 DEF Inv, LocksDistinct
    <2>6. LocksHaveUsers'
      <3> SUFFICES ASSUME NEW j \in DOMAIN locks \ {k}
                   PROVE  \E u \in Cloned \ {t} : args'[u].key = j
        BY <1>5, <2>2 DEF LocksHaveUsers
      <3>1. PICK u \in Cloned : args[u].key = j
        BY DEF Inv, LocksHaveUsers
      <3>2. u \in Cloned \ {t}
        BY <3>1
      <3>3. QED
        BY <3>1, <3>2, <1>6, <1>8
    <2>7. QED
      BY <1>4, <1>7, <1>9, <2>4, <2>5, <2>6 DEF Inv
  <1>12. CASE ~mayRemove
    <2>1. locks' = locks
      BY <1>1, <1>12
    <2>2. PICK v \in Cloned \ {t} : arc[v] = locks[k]
      BY <1>12
    <2>3. args[v].key = k
      BY <2>2, <1>2, <1>10 DEF Inv, LocksDistinct
    <2>4. ClonesAreCurrent'
      BY <1>5, <1>6, <1>8, <1>10, <2>1 DEF ClonesAreCurrent, exists
    <2>5. LocksDistinct'
      BY <2>1 DEF Inv, LocksDistinct
    <2>6. LocksHaveUsers'
      <3> SUFFICES ASSUME NEW j \in DOMAIN locks
                   PROVE  \E u \in Cloned \ {t} : args'[u].key = j
        BY <1>5, <2>1 DEF LocksHaveUsers
      <3>1. PICK u \in Cloned : args[u].key = j
        BY DEF Inv, LocksHaveUsers
      <3>2. CASE u = t
        BY <3>1, <3>2, <2>3, <1>6, <1>8
      <3>3. CASE u # t
        BY <3>1, <3>3, <1>6, <1>8
      <3>4. QED
        BY <3>2, <3>3
    <2>7. QED
      BY <1>4, <1>7, <1>9, <2>4, <2>5, <2>6, SMTT(30) DEF Inv
  <1>13. QED
    BY <1>11, <1>12

LEMMA NextInv == Inv /\ [Next]_vars => Inv'
  <1> SUFFICES ASSUME Inv, [Next]_vars PROVE Inv'
    BY SMTT(30)
  <1>1. CASE UNCHANGED vars
    BY <1>1, ZenonT(60) DEF vars, Inv, TypeOK, CallsHaveArgs, ClonesAreCurrent, LocksDistinct,
                LocksHaveUsers, GuardedHolds, Cloned, Guarded
  <1>2. CASE \E t \in Thread, a \in Args : CallCompareAndSet(t, a)
    BY <1>2, CallInv
  <1>3. CASE \E t \in Thread : Step(t)
    BY <1>3, CloneLockInv, LockKeyInv, CompareInv, ReplaceInv, UnlockKeyInv, CleanLocksInv
    DEF Step
  <1>4. CASE \E k \in SetKey, v \in Value : Set(k, v)
    BY <1>4, SetInv
  <1>5. QED
    BY <1>1, <1>2, <1>3, <1>4 DEF Next

(* Whatever the threads do, and whether or not the database answers        *)
(* errors: compare_and_set has the key to itself between its read and its  *)
(* write, and the map of locks holds exactly the locks in use.             *)
THEOREM LocksSafe == Spec => [](TypeOK /\ KeyMutex /\ LocksInUse)
  <1>1. Inv => TypeOK /\ KeyMutex /\ LocksInUse
    BY InvImplies DEF Inv
  <1>2. QED
    BY <1>1, InitInv, NextInv, PTL DEF Spec
-------------------------------------------------------------------------------
(***************************************************************************)
(* compare_and_set is atomic, as long as its keys are not also written     *)
(* with set and the database answers no error.                             *)
(***************************************************************************)
CasOnly == CasKey \cap (FailKey \cup SetKey) = {}

(* A call about to write still sees the value it compared with. *)
StillMatches ==
  \A t \in Thread : pc[t] = "set" =>
    is_set[t] /\ getOr(db, args[t].key, NoValue) = args[t].old

RInv == Inv /\ StillMatches

(* A write to another key leaves a lookup as it was. *)
LEMMA OtherKey ==
  ASSUME NEW m, NEW j, NEW k, NEW v, NEW d, j # k
  PROVE  getOr(insert(m, k, v), j, d) = getOr(m, j, d)
  BY SMTT(30) DEF getOr, insert

LEMMA StillMatchesNext ==
  ASSUME CasOnly, RInv, [Next]_vars
  PROVE  StillMatches'
  <1> SUFFICES ASSUME NEW t \in Thread, pc'[t] = "set"
               PROVE  is_set'[t] /\ getOr(db', args'[t].key, NoValue) = args'[t].old
    BY DEF StillMatches
  <1> USE DEF RInv, Inv, TypeOK
  <1>1. CASE UNCHANGED vars
    BY <1>1 DEF vars, StillMatches
  <1>2. CASE \E u \in Thread, a \in Args : CallCompareAndSet(u, a)
    <2>1. PICK u \in Thread, a \in Args : CallCompareAndSet(u, a)
      BY <1>2
    <2>2. u # t /\ args'[t] = args[t] /\ pc[t] = "set" /\ is_set' = is_set /\ db' = db
      BY <2>1, SMTT(30) DEF CallCompareAndSet
    <2>3. QED
      BY <2>2 DEF StillMatches
  <1>3. CASE \E u \in Thread : Step(u)
    <2>1. PICK u \in Thread : Step(u)
      BY <1>3
    <2>2. CASE CloneLock(u) \/ LockKey(u) \/ UnlockKey(u)
      <3>1. u # t /\ pc[t] = "set" /\ UNCHANGED <<db, args, is_set>>
        BY <2>2, ZenonT(60) DEF CloneLock, LockKey, UnlockKey
      <3>2. QED
        BY <3>1, SMTT(30) DEF StillMatches
    <2>3. CASE CleanLocks(u)
      <3>1. u # t /\ pc[t] = "set" /\ args'[t] = args[t] /\ is_set'[t] = is_set[t] /\ db' = db
        BY <2>3, ZenonT(60) DEF CleanLocks, CleanLocksWhen
      <3>2. QED
        BY <3>1 DEF StillMatches
    <2>4. CASE Compare(u)
      <3>1. CASE u = t
        <4>1. PICK val \in DbGet(args[t].key) :
                /\ is_set' = [is_set EXCEPT ![t] = (val = args[t].old)]
                /\ pc' = [pc EXCEPT ![t] = IF val = args[t].old THEN "set" ELSE "unlock"]
          BY <2>4, <3>1, ZenonT(60) DEF Compare
        <4>2. val = getOr(db, args[t].key, NoValue)
          <5>1. args[t].key \in CasKey
            BY <2>4, <3>1 DEF Compare, CallsHaveArgs, Args
          <5>2. QED
            BY <5>1 DEF DbGet, CasOnly
        <4>3. val = args[t].old
          BY <4>1
        <4>4. is_set'[t]
          BY <4>1, <4>3, ZenonT(60)
        <4>5. QED
          BY <2>4, <4>2, <4>3, <4>4 DEF Compare
      <3>2. CASE u # t
        <4>1. pc[t] = "set" /\ is_set'[t] = is_set[t] /\ UNCHANGED <<db, args>>
          BY <2>4, <3>2 DEF Compare
        <4>2. QED
          BY <4>1 DEF StillMatches
      <3>3. QED
        BY <3>1, <3>2
    <2>5. CASE Replace(u)
      <3>1. /\ u # t
            /\ pc[t] = "set"
            /\ UNCHANGED <<args, is_set>>
            /\ db' = insert(db, args[u].key, args[u].new)
        <4>1. args[u].key \in CasKey
          BY <2>5 DEF Replace, CallsHaveArgs, Args
        <4>2. QED
          BY <2>5, <4>1 DEF Replace, DbPut, CasOnly
      <3>2. args[u].key # args[t].key
        <4>1. KeyMutex
          BY InvImplies
        <4>2. u \in Guarded /\ t \in Guarded
          BY <2>5, <3>1, SMTT(30) DEF Replace, Guarded
        <4>3. QED
          BY <3>1, <4>1, <4>2 DEF KeyMutex
      <3>3. QED
        BY <3>1, <3>2, OtherKey DEF StillMatches
    <2>6. QED
      BY <2>1, <2>2, <2>3, <2>4, <2>5 DEF Step
  <1>4. CASE \E k \in SetKey, v \in Value : Set(k, v)
    <2>1. PICK k \in SetKey, v \in Value : Set(k, v)
      BY <1>4
    <2>2. (db' = insert(db, k, v) \/ db' = db) /\ UNCHANGED <<pc, args, is_set>>
      BY <2>1 DEF Set, DbPut
    <2>3. args[t].key \in CasKey
      BY <2>2 DEF CallsHaveArgs, Args
    <2>4. args[t].key # k
      BY <2>3 DEF CasOnly
    <2>5. QED
      BY <2>2, <2>4, OtherKey DEF StillMatches
  <1>5. QED
    BY <1>1, <1>2, <1>3, <1>4 DEF Next

absCall == [t \in Thread |-> AtomicCall(t)]

(* Only the call of t changes. *)
LEMMA CallChange ==
  ASSUME NEW t \in Thread, NEW c, AtomicCall(t)' = c,
         \A u \in Thread : u # t => AtomicCall(u)' = AtomicCall(u)
  PROVE  absCall' = [absCall EXCEPT ![t] = c]
  BY ZenonT(60) DEF absCall

LEMMA InitAtomic == Init => Atomic!Init
  BY DEF Init, Atomic!Init, Atomic!Idle, AtomicCall, EmptyMap, Atomic!EmptyMap

(* The instant at which a call takes effect, by what the comparison says. *)
LEMMA EffectOfMatch ==
  ASSUME NEW t, NEW k, NEW old, NEW new,
         absCall[t] = [phase |-> "called", key |-> k, old |-> old, new |-> new],
         Atomic!getOr(db, k, NoValue) = old,
         db' = Atomic!insert(db, k, new),
         absCall' = [absCall EXCEPT ![t] = [phase |-> "done", is_set |-> TRUE]]
  PROVE  Atomic!TakeEffect(t)
  <1>1. absCall[t].phase = "called" /\ absCall[t].key = k /\ absCall[t].old = old
        /\ absCall[t].new = new
    OBVIOUS
  <1> QED BY <1>1, ZenonT(60) DEF Atomic!TakeEffect, absCall

LEMMA EffectOfMismatch ==
  ASSUME NEW t, NEW k, NEW old, NEW new,
         absCall[t] = [phase |-> "called", key |-> k, old |-> old, new |-> new],
         Atomic!getOr(db, k, NoValue) # old,
         db' = db,
         absCall' = [absCall EXCEPT ![t] = [phase |-> "done", is_set |-> FALSE]]
  PROVE  Atomic!TakeEffect(t)
  <1>1. absCall[t].phase = "called" /\ absCall[t].key = k /\ absCall[t].old = old
    BY SMTT(30)
  <1> QED BY <1>1, ZenonT(60) DEF Atomic!TakeEffect, absCall

LEMMA StepAtomic ==
  ASSUME CasOnly, RInv, RInv', [Next]_vars
  PROVE  [Atomic!Next]_<<db, absCall>>
  <1> USE DEF RInv, Inv, TypeOK
  <1>1. CASE UNCHANGED vars
    BY <1>1, SMTT(30) DEF vars, absCall, AtomicCall
  <1>2. CASE \E u \in Thread, a \in Args : CallCompareAndSet(u, a)
    <2>1. PICK t \in Thread, a \in Args : CallCompareAndSet(t, a)
      BY <1>2
    <2>2. \A u \in Thread : u # t => AtomicCall(u)' = AtomicCall(u)
      BY <2>1, ZenonT(60) DEF CallCompareAndSet, AtomicCall
    <2>3. AtomicCall(t) = Atomic!Idle
      BY <2>1 DEF CallCompareAndSet, AtomicCall, Atomic!Idle
    <2>4. AtomicCall(t)' = [phase |-> "called", key |-> a.key, old |-> a.old, new |-> a.new]
      <3>1. pc'[t] = "entry" /\ args'[t] = a
        BY <2>1, SMTT(30) DEF CallCompareAndSet
      <3>2. QED
        BY <3>1 DEF AtomicCall
    <2>5. Atomic!CallCompareAndSet(t, a.key, a.old, a.new)
      BY <2>1, <2>2, <2>3, <2>4, CallChange
      DEF Atomic!CallCompareAndSet, CallCompareAndSet, absCall
    <2>6. a.key \in CasKey /\ a.old \in Atomic!OldValue /\ a.new \in Value
      BY DEF Args, OldValue, Atomic!OldValue
    <2>7. QED
      BY <2>5, <2>6 DEF Atomic!Next
  <1>3. CASE \E t \in Thread : CloneLock(t) \/ LockKey(t)
    <2>1. PICK t \in Thread : CloneLock(t) \/ LockKey(t)
      BY <1>3
    <2>2. \A u \in Thread : AtomicCall(u)' = AtomicCall(u)
      BY <2>1, ZenonT(60) DEF CloneLock, LockKey, AtomicCall
    <2>3. QED
      BY <2>1, <2>2, ZenonT(60) DEF CloneLock, LockKey, absCall
  <1>4. CASE \E t \in Thread : Compare(t)
    <2>1. PICK t \in Thread : Compare(t)
      BY <1>4
    <2>2. PICK val \in DbGet(args[t].key) :
            /\ is_set' = [is_set EXCEPT ![t] = (val = args[t].old)]
            /\ pc' = [pc EXCEPT ![t] = IF val = args[t].old THEN "set" ELSE "unlock"]
      BY <2>1, ZenonT(60) DEF Compare
    <2>3. val = getOr(db, args[t].key, NoValue)
      <3>1. args[t].key \in CasKey
        BY <2>1 DEF Compare, CallsHaveArgs, Args
      <3>2. QED
        BY <3>1 DEF DbGet, CasOnly
    <2>4. \A u \in Thread : u # t => AtomicCall(u)' = AtomicCall(u)
      BY <2>1, <2>2, ZenonT(60) DEF Compare, AtomicCall
    <2>5. pc[t] = "get" /\ UNCHANGED <<db, args>>
      BY <2>1, SMTT(30) DEF Compare
    <2>6. CASE val = args[t].old
      <3>1. pc'[t] = "set"
        BY <2>2, <2>6
      <3>2. AtomicCall(t)' = AtomicCall(t)
        BY <3>1, <2>5 DEF AtomicCall
      <3>3. QED
        BY <3>2, <2>4, <2>5, SMTT(30) DEF absCall
    <2>7. CASE val # args[t].old
      <3>1. pc'[t] = "unlock" /\ is_set'[t] = FALSE
        BY <2>2, <2>7, ZenonT(60)
      <3>2. AtomicCall(t)' = [phase |-> "done", is_set |-> FALSE]
        BY <3>1, ZenonT(60) DEF AtomicCall
      <3>3. absCall[t] = [phase |-> "called", key |-> args[t].key,
                          old |-> args[t].old, new |-> args[t].new]
        BY <2>5, SMTT(30) DEF AtomicCall, absCall
      <3>4. absCall' = [absCall EXCEPT ![t] = [phase |-> "done", is_set |-> FALSE]]
        BY <3>2, <2>4, CallChange, SMTT(30)
      <3>5. Atomic!getOr(db, args[t].key, NoValue) # args[t].old
        BY <2>3, <2>7, SMTT(30) DEF getOr, Atomic!getOr
      <3>6. Atomic!TakeEffect(t)
        BY <3>3, <3>4, <3>5, <2>5, EffectOfMismatch, ZenonT(60)
      <3>7. QED
        BY <3>6 DEF Atomic!Next
    <2>8. QED
      BY <2>6, <2>7
  <1>5. CASE \E t \in Thread : Replace(t)
    <2>1. PICK t \in Thread : Replace(t)
      BY <1>5
    <2>2. /\ pc[t] = "set"
          /\ db' = insert(db, args[t].key, args[t].new)
          /\ pc' = [pc EXCEPT ![t] = "unlock"]
          /\ UNCHANGED <<args, is_set>>
      <3>1. args[t].key \in CasKey
        BY <2>1, SMTT(30) DEF Replace, CallsHaveArgs, Args
      <3>2. QED
        BY <2>1, <3>1, SMTT(30) DEF Replace, DbPut, CasOnly
    <2>3. is_set[t] /\ getOr(db, args[t].key, NoValue) = args[t].old
      BY <2>2 DEF StillMatches
    <2>4. is_set[t] = TRUE
      BY <2>3
    <2>5. \A u \in Thread : u # t => AtomicCall(u)' = AtomicCall(u)
      BY <2>2, ZenonT(60) DEF AtomicCall
    <2>6. AtomicCall(t)' = [phase |-> "done", is_set |-> TRUE]
      <3>1. pc'[t] = "unlock" /\ is_set'[t] = TRUE
        BY <2>2, <2>4
      <3>2. QED
        BY <3>1 DEF AtomicCall
    <2>7. absCall[t] = [phase |-> "called", key |-> args[t].key,
                        old |-> args[t].old, new |-> args[t].new]
      BY <2>2, SMTT(30) DEF AtomicCall, absCall
    <2>8. absCall' = [absCall EXCEPT ![t] = [phase |-> "done", is_set |-> TRUE]]
      BY <2>5, <2>6, CallChange, SMTT(30)
    <2>9. /\ Atomic!getOr(db, args[t].key, NoValue) = args[t].old
          /\ db' = Atomic!insert(db, args[t].key, args[t].new)
      BY <2>2, <2>3 DEF getOr, Atomic!getOr, insert, Atomic!insert
    <2>10. Atomic!TakeEffect(t)
      BY <2>7, <2>8, <2>9, EffectOfMatch, ZenonT(60)
    <2>11. QED
      BY <2>10 DEF Atomic!Next
  <1>6. CASE \E t \in Thread : UnlockKey(t)
    <2>1. PICK t \in Thread : UnlockKey(t)
      BY <1>6
    <2>2. \A u \in Thread : AtomicCall(u)' = AtomicCall(u)
      BY <2>1, ZenonT(60) DEF UnlockKey, AtomicCall
    <2>3. QED
      BY <2>1, <2>2 DEF UnlockKey, absCall
  <1>7. CASE \E t \in Thread : CleanLocks(t)
    <2>1. PICK t \in Thread : CleanLocks(t)
      BY <1>7
    <2>2. /\ pc[t] = "clean"
          /\ args' = [args EXCEPT ![t] = NoArgs]
          /\ is_set' = [is_set EXCEPT ![t] = FALSE]
          /\ pc' = [pc EXCEPT ![t] = "idle"]
          /\ db' = db
      BY <2>1 DEF CleanLocks, CleanLocksWhen
    <2>3. \A u \in Thread : u # t => AtomicCall(u)' = AtomicCall(u)
      BY <2>2, ZenonT(60) DEF AtomicCall
    <2>4. AtomicCall(t)' = Atomic!Idle
      BY <2>2 DEF AtomicCall, Atomic!Idle
    <2>5. absCall[t].phase = "done"
      BY <2>2 DEF AtomicCall, absCall
    <2>6. absCall' = [absCall EXCEPT ![t] = Atomic!Idle]
      BY <2>3, <2>4, CallChange, SMTT(30)
    <2>7. Atomic!Return(t)
      BY <2>2, <2>5, <2>6, SMTT(30) DEF Atomic!Return, absCall
    <2>8. QED
      BY <2>7 DEF Atomic!Next
  <1>8. CASE \E k \in SetKey, v \in Value : Set(k, v)
    <2>1. PICK k \in SetKey, v \in Value : Set(k, v)
      BY <1>8, SMTT(30)
    <2>2. (db' = insert(db, k, v) \/ db' = db) /\ UNCHANGED <<pc, args, is_set>>
      BY <2>1 DEF Set, DbPut
    <2>3. absCall' = absCall
      BY <2>2, SMTT(30) DEF absCall, AtomicCall
    <2>4. db' # db => Atomic!Set(k, v)
      BY <2>2, <2>3 DEF Atomic!Set, absCall, insert, Atomic!insert
    <2>5. QED
      BY <2>3, <2>4 DEF Atomic!Next
  <1>9. QED
    BY <1>1, <1>2, <1>3, <1>4, <1>5, <1>6, <1>7, <1>8 DEF Next, Step

(* compare_and_set, with its lock taken, compared, written and released in *)
(* separate steps of many threads, implements the atomic operation of      *)
(* AtomicStorage on keys that only compare_and_set writes.                 *)
THEOREM CompareAndSetIsAtomic ==
  ASSUME CasOnly
  PROVE  Spec => ImplementsAtomicStorage
  <1>1. Init => RInv
    BY InitInv DEF RInv, Init, StillMatches
  <1>2. RInv /\ [Next]_vars => RInv'
    BY NextInv, StillMatchesNext DEF RInv
  <1>3. RInv /\ RInv' /\ [Next]_vars => [Atomic!Next]_<<db, absCall>>
    BY StepAtomic
  <1>4. Init => Atomic!Init
    BY InitAtomic
  <1>5. QED
    BY <1>1, <1>2, <1>3, <1>4, PTL DEF Spec, ImplementsAtomicStorage, Atomic!Spec, absCall
===============================================================================
