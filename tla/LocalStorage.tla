----------------------------- MODULE LocalStorage ------------------------------
(***************************************************************************)
(* The offchain workers' local storage, client/db/src/offchain.rs, used by *)
(* several worker threads at once.  compare_and_set takes a per-key lock:  *)
(* the map `locks` hands out reference-counted locks (Arc<Mutex<()>>),     *)
(* made on demand and removed by the last user.  Each step of this         *)
(* module is one that another thread can come between.                     *)
(***************************************************************************)
EXTENDS Maps

CONSTANTS Thread,      \* offchain workers
          CasKey,      \* keys used with compare_and_set
          SetKey,      \* keys used with set
          Value,       \* values stored
          NoValue,     \* None
          Arc,         \* allocations of Arc<Mutex<()>>
          NoArc,       \* no lock
          NoArgs,      \* no call under way
          FailKey      \* keys for which the database may answer an error

ASSUME ValueAssumption == NoValue \notin Value
ASSUME ArcAssumption == NoArc \notin Arc

VARIABLES db,       \* the OFFCHAIN column of the database
          locks,    \* LocalStorage::locks, key -> Arc
          holder,   \* holder[a]: the thread inside the mutex of a, if any
          pc,       \* where each thread is in compare_and_set
          args,     \* args[t]: the arguments of the call of t
          arc,      \* arc[t]: key_lock, the clone that t holds
          is_set    \* is_set[t]: the local of that name

vars == <<db, locks, holder, pc, args, arc, is_set>>

OldValue == Value \cup {NoValue}
Args == [key : CasKey, old : OldValue, new : Value]
PC == {"idle", "entry", "lock", "get", "set", "unlock", "clean"}

(* The threads that hold a clone of some Arc. *)
Cloned == {t \in Thread : pc[t] \in {"lock", "get", "set", "unlock", "clean"}}
(* The threads inside the block that _key_guard protects. *)
Guarded == {t \in Thread : pc[t] \in {"get", "set", "unlock"}}

Init ==
  /\ db = EmptyMap
  /\ locks = EmptyMap
  /\ holder = [a \in Arc |-> {}]
  /\ pc = [t \in Thread |-> "idle"]
  /\ args = [t \in Thread |-> NoArgs]
  /\ arc = [t \in Thread |-> NoArc]
  /\ is_set = [t \in Thread |-> FALSE]

(* Mutant: tx.put gets the value for the key and the key for the value,    *)
(* byte strings both.                                                      *)
DbPut_Swapped(k, v) ==
  \/ db' = insert(db, v, k)
  \/ k \in FailKey /\ UNCHANGED db

(* One database write; an error is logged and the call goes on. *)
DbPut(k, v) ==
  \/ db' = insert(db, k, v)
  \/ k \in FailKey /\ UNCHANGED db

(* The values one database read can answer; an error reads as None. *)
DbGet(k) == {getOr(db, k, NoValue)} \cup (IF k \in FailKey THEN {NoValue} ELSE {})

(* LocalStorage::set takes no lock. *)
Set(k, v) ==
  /\ DbPut(k, v)
  /\ UNCHANGED <<locks, holder, pc, args, arc, is_set>>

CallCompareAndSet(t, a) ==
  /\ pc[t] = "idle"
  /\ pc' = [pc EXCEPT ![t] = "entry"]
  /\ args' = [args EXCEPT ![t] = a]
  /\ UNCHANGED <<db, locks, holder, arc, is_set>>

(* locks.entry(key).or_default().clone(), under the mutex of the map. *)
CloneLock(t) ==
  /\ pc[t] = "entry"
  /\ LET k == args[t].key IN
     \E a \in Arc :
       /\ IF exists(locks, k)
            THEN a = locks[k]
            ELSE /\ \A j \in DOMAIN locks : locks[j] # a
                 /\ \A u \in Cloned : arc[u] # a
       /\ locks' = insert(locks, k, a)
       /\ arc' = [arc EXCEPT ![t] = a]
  /\ pc' = [pc EXCEPT ![t] = "lock"]
  /\ UNCHANGED <<db, holder, args, is_set>>

(* Mutant: the guard is not taken. *)
LockKey_NoGuard(t) ==
  /\ pc[t] = "lock"
  /\ pc' = [pc EXCEPT ![t] = "get"]
  /\ UNCHANGED <<db, locks, holder, args, arc, is_set>>

LockKey(t) ==
  /\ pc[t] = "lock"
  /\ holder[arc[t]] = {}
  /\ holder' = [holder EXCEPT ![arc[t]] = {t}]
  /\ pc' = [pc EXCEPT ![t] = "get"]
  /\ UNCHANGED <<db, locks, args, arc, is_set>>

Compare(t) ==
  /\ pc[t] = "get"
  /\ \E val \in DbGet(args[t].key) :
       /\ is_set' = [is_set EXCEPT ![t] = (val = args[t].old)]
       /\ pc' = [pc EXCEPT ![t] = IF val = args[t].old THEN "set" ELSE "unlock"]
  /\ UNCHANGED <<db, locks, holder, args, arc>>

Replace(t) ==
  /\ pc[t] = "set"
  /\ DbPut(args[t].key, args[t].new)
  /\ pc' = [pc EXCEPT ![t] = "unlock"]
  /\ UNCHANGED <<locks, holder, args, arc, is_set>>

(* Mutant: the guard outlives its block. *)
UnlockKey_Leaks(t) ==
  /\ pc[t] = "unlock"
  /\ pc' = [pc EXCEPT ![t] = "clean"]
  /\ UNCHANGED <<db, locks, holder, args, arc, is_set>>

UnlockKey(t) ==
  /\ pc[t] = "unlock"
  /\ holder' = [holder EXCEPT ![arc[t]] = {}]
  /\ pc' = [pc EXCEPT ![t] = "clean"]
  /\ UNCHANGED <<db, locks, args, arc, is_set>>

(* Under the mutex of the map: drop the clone, then remove the entry if    *)
(* Arc::get_mut finds that the map holds the only reference.  The call     *)
(* returns is_set.                                                         *)
CleanLocksWhen(t, mayRemove) ==
  /\ pc[t] = "clean"
  /\ locks' = IF exists(locks, args[t].key) /\ mayRemove
                THEN remove(locks, args[t].key) ELSE locks
  /\ arc' = [arc EXCEPT ![t] = NoArc]
  /\ args' = [args EXCEPT ![t] = NoArgs]
  /\ is_set' = [is_set EXCEPT ![t] = FALSE]
  /\ pc' = [pc EXCEPT ![t] = "idle"]
  /\ UNCHANGED <<db, holder>>

(* Mutants: the entry is removed although others use it; or never. *)
CleanLocks_Always(t) == CleanLocksWhen(t, TRUE)
CleanLocks_Never(t) == CleanLocksWhen(t, FALSE)

CleanLocks(t) ==
  CleanLocksWhen(t, \A u \in Cloned \ {t} : arc[u] # locks[args[t].key])

Step(t) ==
  CloneLock(t) \/ LockKey(t) \/ Compare(t) \/ Replace(t) \/ UnlockKey(t) \/ CleanLocks(t)

Next ==
  \/ \E t \in Thread : Step(t) \/ \E a \in Args : CallCompareAndSet(t, a)
  \/ \E k \in SetKey, v \in Value : Set(k, v)

Spec == Init /\ [][Next]_vars

(* A worker thread keeps running, and parking_lot's mutexes are eventually *)
(* fair: a thread waiting for a lock that is free again and again gets it. *)
Fairness ==
  \A t \in Thread :
    /\ WF_vars(CloneLock(t) \/ Compare(t) \/ Replace(t) \/ UnlockKey(t) \/ CleanLocks(t))
    /\ SF_vars(LockKey(t))

FairSpec == Spec /\ Fairness
-------------------------------------------------------------------------------
(* The database holds new values that some call was given; the locks map   *)
(* and the locals of compare_and_set have their types.                     *)
TypeOK ==
  /\ db \in MapsOf(CasKey \cup SetKey, Value)
  /\ locks \in MapsOf(CasKey, Arc)
  /\ holder \in [Arc -> SUBSET Thread]
  /\ pc \in [Thread -> PC]
  /\ args \in [Thread -> Args \cup {NoArgs}]
  /\ arc \in [Thread -> Arc \cup {NoArc}]
  /\ is_set \in [Thread -> BOOLEAN]

(* No two threads are between the read and the write of compare_and_set on *)
(* the same key, although locks are made and thrown away on the fly.       *)
KeyMutex ==
  \A t, u \in Guarded : args[t].key = args[u].key => t = u

(* "clean the lock map if we're the only entry": the map holds a lock for  *)
(* exactly the keys some call is using, and so is empty when none is.      *)
LocksInUse == DOMAIN locks = {args[t].key : t \in Cloned}

(* The call of t, as AtomicStorage sees it: a call that replaces the value *)
(* takes effect at its write, one that does not at its read.               *)
AtomicCall(t) ==
  CASE pc[t] = "idle" -> [phase |-> "idle"]
    [] pc[t] \in {"entry", "lock", "get", "set"} ->
         [phase |-> "called", key |-> args[t].key, old |-> args[t].old, new |-> args[t].new]
    [] pc[t] \in {"unlock", "clean"} -> [phase |-> "done", is_set |-> is_set[t]]

Atomic == INSTANCE AtomicStorage WITH call <- [t \in Thread |-> AtomicCall(t)]

(* compare_and_set is atomic, for keys that are not also written with set  *)
(* and while the database answers no error.                                *)
ImplementsAtomicStorage == Atomic!Spec

(* Every call of compare_and_set returns. *)
CallsReturn == \A t \in Thread : (pc[t] # "idle") ~> (pc[t] = "idle")

(* OffchainStorage::compare_and_set: "Replace the value in storage if      *)
(* given old_value matches the current one."  The value that the write of  *)
(* a call replaces is the one the call was told to expect.                 *)
ReplacesWhatItCompared ==
  [][\A t \in Thread :
       pc[t] = "set" /\ pc'[t] = "unlock"
         => getOr(db, args[t].key, NoValue) = args[t].old]_vars
===============================================================================
