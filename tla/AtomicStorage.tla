----------------------------- MODULE AtomicStorage -----------------------------
(***************************************************************************)
(* What the trait OffchainStorage promises to concurrent offchain workers: *)
(* compare_and_set replaces the value "if given old_value matches the      *)
(* current one" and answers whether it did, as if it happened at one       *)
(* instant between its call and its return; so does set.                   *)
(***************************************************************************)
EXTENDS Maps

CONSTANTS Thread,    \* offchain workers
          CasKey,    \* keys used with compare_and_set
          SetKey,    \* keys used with set
          Value,     \* values stored
          NoValue    \* None

VARIABLES db,        \* the OFFCHAIN column
          call       \* call[t]: the compare_and_set call of t

OldValue == Value \cup {NoValue}

Idle == [phase |-> "idle"]

Init ==
  /\ db = EmptyMap
  /\ call = [t \in Thread |-> Idle]

CallCompareAndSet(t, k, old, new) ==
  /\ call[t] = Idle
  /\ call' = [call EXCEPT ![t] = [phase |-> "called", key |-> k, old |-> old, new |-> new]]
  /\ UNCHANGED db

(* The comparison and the replacement, at one instant. *)
TakeEffect(t) ==
  /\ call[t].phase = "called"
  /\ \/ /\ getOr(db, call[t].key, NoValue) = call[t].old
        /\ db' = insert(db, call[t].key, call[t].new)
        /\ call' = [call EXCEPT ![t] = [phase |-> "done", is_set |-> TRUE]]
     \/ /\ getOr(db, call[t].key, NoValue) # call[t].old
        /\ UNCHANGED db
        /\ call' = [call EXCEPT ![t] = [phase |-> "done", is_set |-> FALSE]]

Return(t) ==
  /\ call[t].phase = "done"
  /\ call' = [call EXCEPT ![t] = Idle]
  /\ UNCHANGED db

Set(k, v) ==
  /\ db' = insert(db, k, v)
  /\ UNCHANGED call

Next ==
  \/ \E t \in Thread :
       \/ \E k \in CasKey, old \in OldValue, new \in Value : CallCompareAndSet(t, k, old, new)
       \/ TakeEffect(t)
       \/ Return(t)
  \/ \E k \in SetKey, v \in Value : Set(k, v)

Spec == Init /\ [][Next]_<<db, call>>
===============================================================================
