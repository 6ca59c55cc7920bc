---------------------------- MODULE MCStateMachine ----------------------------
(* Instances of StateMachine for TLC. *)
EXTENDS StateMachine

CONSTANTS top, child, v, w

MCChild == {child}
MCNone  == {}

(* Two tries with one key; one of them is empty at first.  The prefixes    *)
(* are one of the key and the empty one. *)
MCKey1     == 1 .. 1
MCPrefix1  == [keys : {{1}}, roots : BOOLEAN]
MCBackends1 == {[t \in {top, child} |-> IF t = full THEN [k \in {1} |-> v] ELSE EmptyMap] :
                  full \in {top, child}}

(* Bound: calls that map_api_result groups are followed under Both only,   *)
(* which has both passes whatever the first one answers; the strategies    *)
(* differ in when there is a second pass, and single calls show that.      *)
GroupedBoth ==
  ~commit_on_success /\ call.phase = "running" => call.strategy = "Both"

(* Only the top trie, and three keys with any set of them in the backend. *)
MCKey3     == 1 .. 3
MCPrefix3  == {[keys |-> {2, 3}, roots |-> FALSE]}
MCBackends3 == {[t \in {top} |-> [k \in S |-> v]] : S \in SUBSET (1 .. 3)}

(* Iteration depends only on the backend and the two change sets; single   *)
(* calls in one pass, without roots, already produce all of these.         *)
OnePassCalls ==
  /\ commit_on_success /\ storage_transaction = {}
  /\ call.phase = "running" => call.strategy = "AlwaysWasm" /\ ~call.compute_tx
===============================================================================
