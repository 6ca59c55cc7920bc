----------------------------- MODULE StateMachine -----------------------------
(***************************************************************************)
(* Execution of runtime calls on the storage: the overlay of changes       *)
(* (overlayed_changes.rs), the externalities that a runtime call uses      *)
(* (ext.rs), the execution strategies (state-machine/src/lib.rs) and the   *)
(* commit or discard by the runtime api (impl_runtime_apis.rs).            *)
(*                                                                         *)
(* The storage has a top trie and child tries; a change set maps a trie to *)
(* the keys changed in it, NoValue marks a deleted key.  The roots of the  *)
(* child tries are themselves entries of the top trie, whose keys start    *)
(* with :child_storage: ; they are the field roots of a change set, and a  *)
(* root is the contents it is the root of.  The root of an empty trie is   *)
(* the default one, which is not stored: as a change, it removes the entry.*)
(* Keys are numbers in their lexicographic order.  A prefix is the set of  *)
(* keys that start with it, and whether it covers the entries of the child *)
(* tries too: a proper beginning of :child_storage: does, like the empty   *)
(* prefix.  The runtime is external: a call is any sequence of operations. *)
(*                                                                         *)
(* Left out: the changes trie (no configuration is installed), keys and    *)
(* prefixes given by the runtime that start with :child_storage: , which   *)
(* place_storage and clear_prefix refuse, and reads of the entries of the  *)
(* child tries other than by child_storage_root.                           *)
(***************************************************************************)
EXTENDS Maps, Integers, FiniteSets

CONSTANTS Top, Child, Key, Value, NoValue, Prefix, Backends

ASSUME TrieAssumption == Top \notin Child
ASSUME KeyAssumption == /\ Key \subseteq Nat /\ NoValue \notin Value
                        /\ Prefix \subseteq [keys : SUBSET Key, roots : BOOLEAN]
Trie == Child \cup {Top}
Content == Value \cup {NoValue}

ASSUME BackendAssumption == Backends \subseteq [Trie -> MapsOf(Key, Value)]

VARIABLES backend,      \* trie -> key -> value: the state of the parent block
          prospective,  \* change set of the running call
          committed,    \* change set of the calls before it
          storage_transaction,  \* cached storage root, a set of at most one
          commit_on_success,    \* FALSE while map_api_result groups calls
          call          \* what is being executed

vars == <<backend, prospective, committed, storage_transaction, commit_on_success, call>>

EmptyChangeSet == [tries |-> EmptyMap, roots |-> EmptyMap]

Strategy == {"NativeWhenPossible", "AlwaysWasm", "Both", "NativeElseWasm"}

Idle == [phase |-> "idle"]
(* The overlay of a block import, after the import has taken its changes.  *)
Consumed == [phase |-> "consumed"]
(* A pass over a call: orig is the prospective change set the call began   *)
(* with, first what the native pass of a call under Both answered.         *)
Running(strategy, native, compute_tx, orig, first) ==
  [phase |-> "running", strategy |-> strategy, native |-> native,
   compute_tx |-> compute_tx, orig |-> orig, first |-> first]
(* The result of a call, or with of = {} that of a closure given to        *)
(* map_api_result, before commit_on_ok; delta is at most one root.         *)
Returned(res, delta, of) ==
  [phase |-> "returned", res |-> res, delta |-> delta, of |-> of]

-------------------------------------------------------------------------------
(* OverlayedChanges.                                                       *)

changes(set, t) == getOr(set.tries, t, EmptyMap)

with_changes(set, t, m) == [tries |-> insert(set.tries, t, m), roots |-> set.roots]

is_empty(set) == set = EmptyChangeSet

(* set_storage and set_child_storage. *)
set_storage(set, t, k, v) == with_changes(set, t, insert(changes(set, t), k, v))

(* clear_prefix, clear_child_prefix, and with all keys clear_child_storage: *)
(* keys of S that either change set knows are marked as removed, in the     *)
(* prospective one.                                                         *)
clear(pro, com, t, S) ==
  LET p == changes(pro, t)
      c == changes(com, t)
  IN  with_changes(pro, t,
        [k \in DOMAIN p \cup (DOMAIN c \cap S) |-> IF k \in S THEN NoValue ELSE p[k]])

Overlaid(above, below) ==
  [k \in DOMAIN above \cup DOMAIN below |-> IF exists(above, k) THEN above[k] ELSE below[k]]

(* The committed change set after commit_prospective. *)
commit_prospective(pro, com) ==
  IF is_empty(com)
    THEN pro
    ELSE [tries |-> [t \in DOMAIN pro.tries \cup DOMAIN com.tries |->
                       Overlaid(changes(pro, t), changes(com, t))],
          roots |-> Overlaid(pro.roots, com.roots)]

-------------------------------------------------------------------------------
(* Reading through the externalities: overlay first, then the backend.     *)

(* storage and child_storage. *)
storage(t, k) ==
  getOr(changes(prospective, t), k, getOr(changes(committed, t), k, getOr(backend[t], k, NoValue)))

(* storage_hash and child_storage_hash; a hash is the value hashed.  When  *)
(* the overlay does not know the key, both ask the backend for the hash of *)
(* the key in the top trie.                                                *)
storage_hash(t, k) ==
  getOr(changes(prospective, t), k, getOr(changes(committed, t), k, getOr(backend[Top], k, NoValue)))

Least(S) == {k \in S : \A j \in S : k <= j}

(* The next key that either change set has a change for, at most one, and  *)
(* that change.                                                            *)
next_storage_key_change(t, key) ==
  Least({k \in DOMAIN changes(prospective, t) \cup DOMAIN changes(committed, t) : k > key})

(* Mutant: on equal keys the committed change is looked at. *)
changed_value_Committed(t, k) ==
  getOr(changes(committed, t), k, getOr(changes(prospective, t), k, NoValue))

changed_value(t, k) ==
  getOr(changes(prospective, t), k, getOr(changes(committed, t), k, NoValue))

(* next_storage_key and next_child_storage_key, as sets of at most one;    *)
(* the keys of the model are below limit.                                  *)
next_storage_key(t, from) ==
  LET limit == 1 + Cardinality(Key)
      next[key \in 0 .. limit] ==
        LET b == Least({k \in DOMAIN backend[t] : k > key})
            o == next_storage_key_change(t, key)
        IN  IF o = {} THEN b
            ELSE IF b # {} /\ (\A x \in b, y \in o : x < y) THEN b
            ELSE IF \A y \in o : changed_value(t, y) # NoValue THEN o
            ELSE UNION {next[y] : y \in o}
  IN  next[from]

(* The contents of a trie, without deleted keys. *)
Contents(t) == LET S == {k \in Key : storage(t, k) # NoValue} IN [k \in S |-> storage(t, k)]

(* child_info: the overlay has changes of the child trie. *)
child_info(c) == c \in DOMAIN prospective.tries \cup DOMAIN committed.tries

(* What the top trie holds under the storage key of a child trie. *)
StoredRoot(c) == getOr(prospective.roots, c, getOr(committed.roots, c, backend[c]))

(* full_storage_root: the roots of changed child tries are computed first, *)
(* and then the root of the top trie with them in it.                      *)
full_storage_root ==
  [top   |-> Contents(Top),
   roots |-> [c \in Child |-> IF child_info(c) THEN Contents(c) ELSE StoredRoot(c)]]

(* What child_storage_root answers: the stored root while a storage root   *)
(* is cached, or if the child is unchanged; otherwise it is computed.      *)
child_storage_root(c) ==
  IF storage_transaction = {} /\ child_info(c) THEN Contents(c) ELSE StoredRoot(c)
-------------------------------------------------------------------------------
(* The operations of a running call.                                       *)

Init ==
  /\ backend \in Backends
  /\ prospective = EmptyChangeSet
  /\ committed = EmptyChangeSet
  /\ storage_transaction = {}
  /\ commit_on_success = TRUE
  /\ call = Idle

(* mark_dirty: the storage root has to be computed again. *)
mark_dirty == storage_transaction' = {}

Write(pro) ==
  /\ call.phase = "running"
  /\ mark_dirty
  /\ prospective' = pro
  /\ UNCHANGED <<backend, committed, commit_on_success, call>>

(* place_storage and place_child_storage. *)
place_storage(t, k, v) == Write(set_storage(prospective, t, k, v))

(* After the overlay, every key of the backend is marked as removed too.   *)
(* With roots, so are the entries of the child tries in the top trie.      *)
removed(t, S, roots) ==
  LET pro     == clear(prospective, committed, t, S)
      old     == DOMAIN backend[t] \cap S
      entries == {c \in Child : /\ roots
                                /\ \/ c \in DOMAIN prospective.roots \cup DOMAIN committed.roots
                                   \/ backend[c] # EmptyMap}
  IN  [tries |-> insert(pro.tries, t, Overlaid([k \in old |-> NoValue], changes(pro, t))),
       roots |-> Overlaid([c \in entries |-> EmptyMap], pro.roots)]

(* Mutant: the cached root is kept. *)
clear_prefix_Clean(t, S, roots) ==
  /\ call.phase = "running"
  /\ prospective' = removed(t, S, roots)
  /\ UNCHANGED <<backend, committed, storage_transaction, commit_on_success, call>>

(* clear_prefix, clear_child_prefix and kill_child_storage. *)
clear_prefix(t, S, roots) == Write(removed(t, S, roots))

(* storage_root computes the root once and caches it. *)
storage_root ==
  /\ call.phase = "running"
  /\ storage_transaction = {}
  /\ storage_transaction' = {full_storage_root}
  /\ UNCHANGED <<backend, prospective, committed, commit_on_success, call>>

(* child_storage_root writes a root that it computes to the overlay; in    *)
(* the other cases it only reads.                                          *)
store_child_root(c) ==
  /\ call.phase = "running"
  /\ storage_transaction = {} /\ child_info(c)
  /\ prospective' = [tries |-> prospective.tries,
                     roots |-> insert(prospective.roots, c, child_storage_root(c))]
  /\ UNCHANGED <<backend, committed, storage_transaction, commit_on_success, call>>

-------------------------------------------------------------------------------
(* Calls and passes.                                                       *)

(* A call starts: one of the runtime api, or the execution of a block that *)
(* is imported, which has an overlay of its own and asks for the storage   *)
(* delta (compute_tx).  A call that the executor has no native runtime for *)
(* is a call under AlwaysWasm.                                             *)
Begin(strategy, compute_tx) ==
  /\ call = Idle
  /\ compute_tx => /\ is_empty(prospective) /\ is_empty(committed)
                   /\ commit_on_success
  /\ call' = Running(strategy, strategy # "AlwaysWasm", compute_tx, prospective, {})
  /\ storage_transaction' = {}
  /\ UNCHANGED <<backend, prospective, committed, commit_on_success>>

(* A native pass that the strategy has followed by one in wasm. *)
RunsAgain(res) ==
  /\ call.native
  /\ \/ call.strategy = "Both"
     \/ call.strategy = "NativeElseWasm" /\ res = "Err"

(* transaction: the storage root, cached or computed, if it is asked for. *)
transaction ==
  IF ~call.compute_tx THEN {}
  ELSE IF storage_transaction # {} THEN storage_transaction ELSE {full_storage_root}

(* What a pass that is followed by another one leaves to it. *)
NextPass(res) ==
  Running(call.strategy, FALSE, call.compute_tx, call.orig,
          IF call.strategy = "Both" THEN {[res |-> res, delta |-> transaction]} ELSE {})

(* Under Both the results of the passes are compared: if they agree, the   *)
(* native pass's delta is returned, otherwise the wasm pass's.  The result *)
(* is an error exactly if the wasm pass's is; whether two results that are *)
(* no errors are equal is left open.  An error has no delta.               *)
Deltas(res) ==
  IF res = "Err" THEN {{}}
  ELSE {transaction} \cup {n.delta : n \in {f \in call.first : f.res = "Ok"}}

(* Mutant: the wasm pass works on what the native pass has written. *)
EndPass_KeepsNative(res) ==
  /\ call.phase = "running"
  /\ \/ RunsAgain(res) /\ call' = NextPass(res)
     \/ ~RunsAgain(res) /\ \E delta \in Deltas(res) : call' = Returned(res, delta, {call})
  /\ storage_transaction' = {}
  /\ UNCHANGED <<backend, prospective, committed, commit_on_success>>

(* execute_using_consensus_failure_handler, from the end of a pass. *)
EndPass(res) ==
  /\ call.phase = "running"
  /\ \/ /\ RunsAgain(res)
        /\ prospective' = call.orig
        /\ call' = NextPass(res)
     \/ /\ ~RunsAgain(res)
        /\ \E delta \in Deltas(res) : call' = Returned(res, delta, {call})
        /\ UNCHANGED prospective
  /\ storage_transaction' = {}
  /\ UNCHANGED <<backend, committed, commit_on_success>>

(* map_api_result: the closure starts, and returns any result whatever its *)
(* calls returned. *)
map_api_result ==
  /\ call = Idle /\ commit_on_success
  /\ commit_on_success' = FALSE
  /\ UNCHANGED <<backend, prospective, committed, storage_transaction, call>>

end_map_call(res) ==
  /\ call = Idle /\ ~commit_on_success
  /\ commit_on_success' = TRUE
  /\ call' = Returned(res, {}, {})
  /\ UNCHANGED <<backend, prospective, committed, storage_transaction>>

(* After a call the runtime api is idle; the overlay of a block import is  *)
(* taken apart (into_committed). *)
AfterCall == IF \E c \in call.of : c.compute_tx THEN Consumed ELSE Idle

(* Mutant: the prospective changes are committed and also kept. *)
commit_on_ok_Keeps ==
  /\ call.phase = "returned"
  /\ committed' = IF commit_on_success /\ call.res = "Ok"
                    THEN commit_prospective(prospective, committed) ELSE committed
  /\ call' = AfterCall
  /\ UNCHANGED <<backend, prospective, storage_transaction, commit_on_success>>

(* Mutant: the result is not looked at. *)
commit_on_ok_Always ==
  /\ call.phase = "returned"
  /\ \/ /\ commit_on_success
        /\ committed' = commit_prospective(prospective, committed)
        /\ prospective' = EmptyChangeSet
     \/ ~commit_on_success /\ UNCHANGED <<prospective, committed>>
  /\ call' = AfterCall
  /\ UNCHANGED <<backend, storage_transaction, commit_on_success>>

(* commit_on_ok of the runtime api; the import of a block commits, too, or *)
(* drops its overlay. *)
commit_on_ok ==
  /\ call.phase = "returned"
  /\ \/ /\ commit_on_success
        /\ committed' = IF call.res = "Ok" THEN commit_prospective(prospective, committed)
                                           ELSE committed
        /\ prospective' = EmptyChangeSet
     \/ ~commit_on_success /\ UNCHANGED <<prospective, committed>>
  /\ call' = AfterCall
  /\ UNCHANGED <<backend, storage_transaction, commit_on_success>>

Next ==
  \/ \E t \in Trie, k \in Key, v \in Content : place_storage(t, k, v)
  \/ \E p \in Prefix : clear_prefix(Top, p.keys, p.roots)
  \/ \E c \in Child, S \in {p.keys : p \in Prefix} \cup {Key} : clear_prefix(c, S, FALSE)
  \/ storage_root
  \/ \E c \in Child : store_child_root(c)
  \/ \E s \in Strategy, tx \in BOOLEAN : Begin(s, tx)
  \/ \E res \in {"Ok", "Err"} : EndPass(res) \/ end_map_call(res)
  \/ map_api_result
  \/ commit_on_ok

Spec == Init /\ [][Next]_vars

-------------------------------------------------------------------------------
(* Properties.                                                             *)

ChangeSets == [tries : MapsOf(Trie, MapsOf(Key, Content)), roots : MapsOf(Child, MapsOf(Key, Value))]
Roots == [top : MapsOf(Key, Value), roots : [Child -> MapsOf(Key, Value)]]
Result == {"Ok", "Err"}

(* Every variable holds a value of its type (overlayed_changes.rs, ext.rs, *)
(* ExecutionManager); while no calls are grouped, a call begins with no    *)
(* prospective changes. *)
IsCall(c) ==
  /\ c = Running(c.strategy, c.native, c.compute_tx, c.orig, c.first)
  /\ c.strategy \in Strategy /\ c.native \in BOOLEAN /\ c.compute_tx \in BOOLEAN
  /\ c.orig \in ChangeSets
  /\ commit_on_success => is_empty(c.orig)
  /\ \A f \in c.first : f.res \in Result /\ f.delta \subseteq Roots

TypeOK ==
  /\ backend \in Backends
  /\ {prospective, committed} \subseteq ChangeSets
  /\ storage_transaction \subseteq Roots /\ Cardinality(storage_transaction) <= 1
  /\ commit_on_success \in BOOLEAN
  /\ call.phase \in {"idle", "running", "returned", "consumed"}
  /\ call.phase = "idle" /\ commit_on_success => is_empty(prospective)
  /\ call.phase = "running" => IsCall(call)
  /\ call.phase = "returned" => call.res \in Result /\ call.delta \subseteq Roots

(* The storage over a prospective change set. *)
StorageOver(pro) ==
  [t \in Trie |-> [k \in Key |->
     getOr(changes(pro, t), k, getOr(changes(committed, t), k, getOr(backend[t], k, NoValue)))]]
CommittedStorage == StorageOver(EmptyChangeSet)
CurrentStorage == StorageOver(prospective)

(* What the running call began with; and the phase and the result that the *)
(* caller sees. *)
StartStorage == IF call.phase = "running" THEN StorageOver(call.orig) ELSE CurrentStorage
CallPhase    == IF call.phase = "consumed" THEN "idle" ELSE call.phase
CallResult   == IF call.phase = "returned" THEN call.res ELSE "none"

Transactional == INSTANCE TransactionalMap WITH
  base <- CommittedStorage, cur <- CurrentStorage, start <- StartStorage,
  group <- ~commit_on_success, phase <- CallPhase, result <- CallResult

(* Whatever the strategy, and however many passes it takes, a call reads   *)
(* its own writes over what it found; a pass that is repeated starts from  *)
(* that again; when the call, or the closure of map_api_result around      *)
(* several calls, returns an error, nothing of it is left, and otherwise   *)
(* all of its changes are what the next call finds (commit_on_ok,          *)
(* map_api_result, execute_using_consensus_failure_handler,                *)
(* OverlayedChanges). *)
ImplementsTransactionalMap == Transactional!Spec

(* Every pass over a call, also the one in wasm that follows a native pass *)
(* under Both or NativeElseWasm, starts from exactly what the calls before *)
(* committed or, in a closure given to map_api_result, from what the calls *)
(* before it in the closure left (orig_prospective). *)
PassesStartClean ==
  [][call'.phase = "running" /\ call' # call =>
       CurrentStorage' = IF commit_on_success THEN CommittedStorage
                         ELSE IF call.phase = "idle" THEN CurrentStorage
                         ELSE StorageOver(call.orig)]_vars

(* An unchanged child trie whose entry in the top trie was removed by a    *)
(* prefix. *)
Unlinked(c) == ~child_info(c) /\ c \in DOMAIN prospective.roots \cup DOMAIN committed.roots

(* A cached storage root, and the delta that a block import gets, is the   *)
(* root of the contents that the call sees now, in all tries but those     *)
(* that a prefix unlinked: whatever changes the overlay dropped the cache, *)
(* or does not change the root (mark_dirty; the comment on the cache in    *)
(* child_storage_root).  Not claimed is the delta of a call that ran twice *)
(* under Both, which may be that of the native pass. *)
RootFresh ==
  LET roots == storage_transaction \cup
                 (IF call.phase = "returned" /\ \A c \in call.of : c.first = {} THEN call.delta ELSE {})
  IN  roots \subseteq {[top   |-> Contents(Top),
                       roots |-> [c \in Child |-> IF Unlinked(c) THEN EmptyMap ELSE Contents(c)]]}

(* "Get the trie root of the current storage map.  This will also update   *)
(* all child storage keys in the top-level storage map": the root covers   *)
(* what child_storage reads in every child trie. *)
RootOfAllTries ==
  storage_transaction \subseteq {[top |-> Contents(Top), roots |-> [c \in Child |-> Contents(c)]]}

(* "On an error, no prospective changes are written to the overlay": a     *)
(* call that returns an error leaves the prospective changes it began with *)
(* (execute_using_consensus_failure_handler). *)
ErrorLeavesOverlay ==
  call.phase = "returned" /\ call.res = "Err" => \A c \in call.of : prospective = c.orig

(* next_storage_key, which merges three ordered maps and skips deletions,  *)
(* answers the least key above the given one that storage finds a value    *)
(* for. *)
NextKeyIsLeast ==
  \A t \in Trie, from \in {0} \cup Key :
    next_storage_key(t, from) = Least({k \in Key : k > from /\ storage(t, k) # NoValue})

(* "Get child storage value hash": the hash that child_storage_hash        *)
(* answers is that of the value child_storage answers. *)
HashOfValue ==
  call.phase = "running" => \A t \in Trie, k \in Key : storage_hash(t, k) = storage(t, k)
===============================================================================
