--------------------------- MODULE TransactionalMap ---------------------------
(***************************************************************************)
(* What the execution of runtime calls promises of the storage: a map that *)
(* a call writes to and reads its own writes from.  The result the call    *)
(* returns decides: after a success the next call finds all of its         *)
(* changes, after an error none.  Calls in a group stand or fall together, *)
(* with the result of the group.                                           *)
(***************************************************************************)
CONSTANTS Trie, Key, Content    \* Content: values, and the mark of absence

VARIABLES base,    \* what is kept
          cur,     \* what the running call sees, or what the next one finds
          start,   \* what the running call found; cur when none is running
          group,   \* whether calls are grouped
          phase,   \* of the call: idle, running or returned
          result   \* of the call or the group that has returned

vars == <<base, cur, start, group, phase, result>>

Storage == [Trie -> [Key -> Content]]

Init == /\ base \in Storage /\ cur = base /\ start = base
        /\ group = FALSE /\ phase = "idle" /\ result = "none"

Group == /\ phase = "idle" /\ ~group
         /\ group' = TRUE
         /\ UNCHANGED <<base, cur, start, phase, result>>

Begin == /\ phase = "idle"
         /\ phase' = "running"
         /\ UNCHANGED <<base, cur, start, group, result>>

(* The running call gives all keys of S in trie t the content c. *)
Write(t, S, c) ==
  /\ phase = "running"
  /\ UNCHANGED <<phase, group, result>>
  /\ cur' = [cur EXCEPT ![t] = [k \in Key |-> IF k \in S THEN c ELSE cur[t][k]]]
  /\ UNCHANGED <<base, start>>

(* The call is executed again, from its start. *)
Retry == /\ phase = "running"
         /\ UNCHANGED <<phase, group, result>>
         /\ cur' = start
         /\ UNCHANGED <<base, start>>

Return(res) == /\ phase = "running"
               /\ phase' = "returned" /\ result' = res /\ start' = cur
               /\ UNCHANGED <<base, cur, group>>

EndGroup(res) == /\ phase = "idle" /\ group
                 /\ group' = FALSE /\ phase' = "returned" /\ result' = res
                 /\ UNCHANGED <<base, cur, start>>

(* What was written is kept after a success and gone after an error; in a  *)
(* group, that is decided at its end. *)
Close == /\ phase = "returned"
         /\ phase' = "idle" /\ result' = "none"
         /\ base' = IF ~group /\ result = "Ok" THEN cur ELSE base
         /\ cur' = IF ~group /\ result = "Err" THEN base ELSE cur
         /\ start' = cur'
         /\ UNCHANGED group

Next == \/ Group \/ Begin \/ Retry \/ Close
        \/ \E t \in Trie, S \in SUBSET Key, c \in Content : Write(t, S, c)
        \/ \E res \in {"Ok", "Err"} : Return(res) \/ EndGroup(res)

Spec == Init /\ [][Next]_vars
===============================================================================
