-------------------------- MODULE StateMachineProofs ---------------------------
(***************************************************************************)
(* Runtime calls on the overlay implement a transactional map, and the     *)
(* cached storage root is never stale, for any tries, keys, values,        *)
(* prefixes and backends.                                                  *)
(***************************************************************************)
EXTENDS StateMachine, MapTheorems

(* The strengthening: besides the types, nothing is prospective between    *)
(* calls that are not grouped, and such a call begins with nothing; a root *)
(* is cached only during a call; and where the overlay holds an entry for  *)
(* the root of a child trie that it has no changes of, the entry was       *)
(* removed.                                                                *)
Typed ==
  /\ backend \in Backends
  /\ prospective \in ChangeSets
  /\ committed \in ChangeSets
  /\ call.phase = "running" => call.orig \in ChangeSets

Phases ==
  /\ call.phase = "running" /\ commit_on_success => call.orig = EmptyChangeSet
  /\ call.phase # "running" => storage_transaction = {}
  /\ call.phase = "idle" /\ commit_on_success => prospective = EmptyChangeSet
  /\ call.phase = "returned" => call.res \in {"Ok", "Err"}

(* The root entries of a change set are of the tries T, or removed. *)
RootsIn(set, T) == \A c \in DOMAIN set.roots : set.roots[c] # EmptyMap => c \in T

RootsKnown ==
  /\ RootsIn(committed, DOMAIN committed.tries)
  /\ RootsIn(prospective, DOMAIN prospective.tries \cup DOMAIN committed.tries)
  /\ call.phase = "running" => RootsIn(call.orig, DOMAIN call.orig.tries \cup DOMAIN committed.tries)

Inv == Typed /\ Phases /\ RootsKnown /\ RootFresh

(* A change set stores no root that the prospective one does not store. *)
NoRootMore(set) ==
  \A c \in DOMAIN set.roots : set.roots[c] # EmptyMap =>
    c \in DOMAIN prospective.roots /\ set.roots[c] = prospective.roots[c]

(* The empty change set is one, and has no changes. *)
LEMMA EmptyFacts ==
  /\ EmptyChangeSet \in ChangeSets
  /\ \A t : changes(EmptyChangeSet, t) = EmptyMap
  /\ \A K, V : EmptyMap \in MapsOf(K, V)
  <1>1. \A K, V : EmptyMap \in MapsOf(K, V)
    <2> SUFFICES ASSUME NEW K, NEW V PROVE EmptyMap \in MapsOf(K, V)
      OBVIOUS
    <2>1. EmptyMap \in [{} -> V]
      BY DEF EmptyMap
    <2>2. QED
      BY <2>1, ZenonT(60) DEF MapsOf
  <1>2. EmptyChangeSet \in ChangeSets
    BY <1>1 DEF EmptyChangeSet, ChangeSets
  <1>3. \A t : changes(EmptyChangeSet, t) = EmptyMap
    BY DEF EmptyChangeSet, changes, getOr, EmptyMap
  <1>4. QED
    BY <1>1, <1>2, <1>3

(* The changes of a trie map keys to contents. *)
LEMMA ChangesType ==
  ASSUME NEW set \in ChangeSets, NEW t
  PROVE  changes(set, t) \in MapsOf(Key, Content)
  <1>1. set.tries \in MapsOf(Trie, MapsOf(Key, Content))
    BY DEF ChangeSets
  <1>2. QED
    BY <1>1, EmptyFacts, GetFacts, ZenonT(60) DEF changes

(* Replacing the changes of one trie leaves those of the others alone. *)
LEMMA ReplaceFacts ==
  ASSUME NEW set \in ChangeSets, NEW t \in Trie, NEW m \in MapsOf(Key, Content)
  PROVE  /\ with_changes(set, t, m) \in ChangeSets
         /\ \A u : changes(with_changes(set, t, m), u) = IF u = t THEN m ELSE changes(set, u)
         /\ with_changes(set, t, m).roots = set.roots
         /\ DOMAIN with_changes(set, t, m).tries = DOMAIN set.tries \cup {t}
  <1>1. set.tries \in MapsOf(Trie, MapsOf(Key, Content))
    BY DEF ChangeSets
  <1>2. insert(set.tries, t, m) \in MapsOf(Trie, MapsOf(Key, Content))
    BY <1>1, InsertType
  <1>3. with_changes(set, t, m) \in ChangeSets
    BY <1>2 DEF ChangeSets, with_changes
  <1>4. \A u : changes(with_changes(set, t, m), u) = IF u = t THEN m ELSE changes(set, u)
    BY DEF with_changes, changes, insert, getOr
  <1>5. QED
    BY <1>3, <1>4 DEF with_changes, insert

(* Laying one map over another keeps the type of the two. *)
LEMMA OverlaidType ==
  ASSUME NEW K, NEW V, NEW a \in MapsOf(K, V), NEW b \in MapsOf(K, V)
  PROVE  Overlaid(a, b) \in MapsOf(K, V)
  <1>1. PICK A \in SUBSET K : a \in [A -> V]
    BY DEF MapsOf
  <1>2. PICK B \in SUBSET K : b \in [B -> V]
    BY DEF MapsOf
  <1>3. Overlaid(a, b) \in [A \cup B -> V]
    BY <1>1, <1>2 DEF Overlaid, exists
  <1>4. QED
    BY <1>3 DEF MapsOf

(* What the prospective change set says of the keys after set_storage. *)
LEMMA SetFacts ==
  ASSUME NEW set \in ChangeSets, NEW t \in Trie, NEW k \in Key, NEW v \in Content
  PROVE  /\ set_storage(set, t, k, v) \in ChangeSets
         /\ \A u, j, d : getOr(changes(set_storage(set, t, k, v), u), j, d)
                           = IF u = t /\ j = k THEN v ELSE getOr(changes(set, u), j, d)
         /\ set_storage(set, t, k, v).roots = set.roots
         /\ DOMAIN set_storage(set, t, k, v).tries = DOMAIN set.tries \cup {t}
  <1> DEFINE m == insert(changes(set, t), k, v)
  <1>1. m \in MapsOf(Key, Content)
    BY ChangesType, InsertType
  <1>2. \A j, d : getOr(m, j, d) = IF j = k THEN v ELSE getOr(changes(set, t), j, d)
    BY DEF insert, getOr
  <1> HIDE DEF m
  <1>3. set_storage(set, t, k, v) = with_changes(set, t, m)
    BY DEF set_storage, m
  <1>4. QED
    BY <1>1, <1>2, <1>3, ReplaceFacts
(* After the removal of the keys S of a trie, storage finds none of them,  *)
(* whichever of the three maps they were in, and finds the others as       *)
(* before.                                                                 *)
LEMMA RemovedFacts ==
  ASSUME Typed, NEW t \in Trie, NEW S \in SUBSET Key, NEW r
  PROVE  /\ removed(t, S, r) \in ChangeSets
         /\ NoRootMore(removed(t, S, r))
         /\ DOMAIN removed(t, S, r).tries = DOMAIN prospective.tries \cup {t}
         /\ \A u \in Trie, k \in Key :
              getOr(changes(removed(t, S, r), u), k,
                    getOr(changes(committed, u), k, getOr(backend[u], k, NoValue)))
                = IF u = t /\ k \in S THEN NoValue ELSE storage(u, k)
  <1> DEFINE p == changes(prospective, t)
             c == changes(committed, t)
             m == [k \in DOMAIN p \cup (DOMAIN c \cap S) |-> IF k \in S THEN NoValue ELSE p[k]]
             pro == clear(prospective, committed, t, S)
             old == DOMAIN backend[t] \cap S
             gone == [k \in old |-> NoValue]
  <1>1. p \in MapsOf(Key, Content) /\ c \in MapsOf(Key, Content)
    BY ChangesType DEF Typed
  <1>2. PICK P \in SUBSET Key, C \in SUBSET Key : p \in [P -> Content] /\ c \in [C -> Content]
    BY <1>1 DEF MapsOf
  <1>3. m \in [P \cup (C \cap S) -> Content]
    BY <1>2 DEF Content
  <1>4. m \in MapsOf(Key, Content)
    BY <1>3, ZenonT(60) DEF MapsOf
  <1>5. pro = with_changes(prospective, t, m)
    BY DEF clear
  <1>6. /\ pro \in ChangeSets
        /\ \A u : changes(pro, u) = IF u = t THEN m ELSE changes(prospective, u)
        /\ pro.roots = prospective.roots
        /\ DOMAIN pro.tries = DOMAIN prospective.tries \cup {t}
    <2> HIDE DEF m, pro
    <2>1. QED
      BY <1>4, <1>5, ReplaceFacts DEF Typed
  <1>7. gone \in MapsOf(Key, Content)
    <2>1. gone \in [old -> Content]
      BY DEF Content
    <2>2. old \in SUBSET Key
      OBVIOUS
    <2>3. QED
      BY <2>1, <2>2, ZenonT(60) DEF MapsOf
  <1>8. /\ Overlaid(gone, m) \in MapsOf(Key, Content)
        /\ \A k, d : getOr(Overlaid(gone, m), k, d) = getOr(gone, k, getOr(m, k, d))
    <2> HIDE DEF m, gone
    <2>1. Overlaid(gone, m) \in MapsOf(Key, Content)
      BY <1>4, <1>7, OverlaidType
    <2>2. \A k, d : getOr(Overlaid(gone, m), k, d) = getOr(gone, k, getOr(m, k, d))
      BY DEF Overlaid, exists, getOr
    <2>3. QED
      BY <2>1, <2>2
  <1>9. PICK entries \in SUBSET Child :
          removed(t, S, r) = [tries |-> with_changes(pro, t, Overlaid(gone, m)).tries,
                              roots |-> Overlaid([c0 \in entries |-> EmptyMap], prospective.roots)]
    BY <1>6, ZenonT(60) DEF removed, with_changes
  <1>10. /\ removed(t, S, r) \in ChangeSets
         /\ \A u : changes(removed(t, S, r), u) = IF u = t THEN Overlaid(gone, m) ELSE changes(pro, u)
         /\ NoRootMore(removed(t, S, r))
         /\ DOMAIN removed(t, S, r).tries = DOMAIN prospective.tries \cup {t}
    <2> DEFINE new == with_changes(pro, t, Overlaid(gone, m))
               cut == [c0 \in entries |-> EmptyMap]
    <2> HIDE DEF m, gone, pro
    <2>1. /\ new \in ChangeSets
          /\ \A u : changes(new, u) = IF u = t THEN Overlaid(gone, m) ELSE changes(pro, u)
          /\ DOMAIN new.tries = DOMAIN prospective.tries \cup {t}
      BY <1>6, <1>8, ReplaceFacts
    <2>2. cut \in MapsOf(Child, MapsOf(Key, Value))
      <3>1. cut \in [entries -> MapsOf(Key, Value)]
        BY EmptyFacts
      <3>2. QED
        BY <3>1, ZenonT(60) DEF MapsOf
    <2>3. prospective.roots \in MapsOf(Child, MapsOf(Key, Value))
      BY DEF Typed, ChangeSets
    <2>4. Overlaid(cut, prospective.roots) \in MapsOf(Child, MapsOf(Key, Value))
      BY <2>2, <2>3, OverlaidType
    <2>5. \A c0 \in DOMAIN Overlaid(cut, prospective.roots) :
            Overlaid(cut, prospective.roots)[c0] # EmptyMap =>
              /\ c0 \in DOMAIN prospective.roots
              /\ Overlaid(cut, prospective.roots)[c0] = prospective.roots[c0]
      BY DEF Overlaid, exists
    <2> HIDE DEF new, cut
    <2>6. removed(t, S, r) = [tries |-> new.tries, roots |-> Overlaid(cut, prospective.roots)]
      BY <1>9 DEF new, cut
    <2>7. removed(t, S, r) \in ChangeSets
      BY <2>1, <2>4, <2>6 DEF ChangeSets
    <2>8. \A u : changes(removed(t, S, r), u) = changes(new, u)
      BY <2>6 DEF changes
    <2>9. NoRootMore(removed(t, S, r))
      BY <2>5, <2>6 DEF NoRootMore
    <2>10. QED
      BY <2>1, <2>6, <2>7, <2>8, <2>9
  <1>11. ASSUME NEW u \in Trie, NEW k \in Key
         PROVE  getOr(changes(removed(t, S, r), u), k,
                      getOr(changes(committed, u), k, getOr(backend[u], k, NoValue)))
                  = IF u = t /\ k \in S THEN NoValue ELSE storage(u, k)
    <2>1. CASE u # t
      <3>1. changes(removed(t, S, r), u) = changes(prospective, u)
        BY <2>1, <1>10, <1>6, SMTT(30)
      <3>2. QED
        BY <2>1, <3>1 DEF storage
    <2>2. CASE u = t
      <3> DEFINE below == getOr(c, k, getOr(backend[t], k, NoValue))
      <3>1. getOr(changes(removed(t, S, r), u), k, below) = getOr(gone, k, getOr(m, k, below))
        <4> HIDE DEF m, gone, below
        <4>1. QED
          BY <2>2, <1>8, <1>10, SMTT(30)
      <3>2. CASE k \in S
        <4>1. getOr(gone, k, getOr(m, k, below)) = NoValue
          BY <3>2, <1>2, SMTT(30) DEF getOr
        <4>2. QED
          BY <2>2, <3>1, <3>2, <4>1, SMTT(30)
      <3>3. CASE k \notin S
        <4>1. getOr(gone, k, getOr(m, k, below)) = getOr(p, k, below)
          BY <3>3, <1>2, SMTT(30) DEF getOr
        <4>2. QED
          BY <2>2, <3>1, <3>3, <4>1, SMTT(30) DEF storage
      <3>4. QED
        BY <3>2, <3>3
    <2>3. QED
      BY <2>1, <2>2
  <1>12. QED
    BY <1>10, <1>11

(* After a commit, the committed changes alone say what both did. *)
LEMMA CommitFacts ==
  ASSUME NEW pro \in ChangeSets, NEW com \in ChangeSets
  PROVE  /\ commit_prospective(pro, com) \in ChangeSets
         /\ \A t, k, d : getOr(changes(commit_prospective(pro, com), t), k, d)
                            = getOr(changes(pro, t), k, getOr(changes(com, t), k, d))
         /\ DOMAIN commit_prospective(pro, com).tries = DOMAIN pro.tries \cup DOMAIN com.tries
         /\ commit_prospective(pro, com).roots = Overlaid(pro.roots, com.roots)
  <1> DEFINE new == commit_prospective(pro, com)
  <1>1. CASE is_empty(com)
    <2>1. new = pro
      BY <1>1 DEF commit_prospective
    <2>2. com = EmptyChangeSet
      BY <1>1 DEF is_empty
    <2>3. \A t, k, d : getOr(changes(com, t), k, d) = d
      BY <2>2, EmptyFacts DEF getOr, EmptyMap
    <2>4. DOMAIN com.tries = {} /\ DOMAIN com.roots = {}
      BY <2>2 DEF EmptyChangeSet, EmptyMap
    <2>5. Overlaid(pro.roots, com.roots) = pro.roots
      BY <2>4 DEF Overlaid, exists, ChangeSets, MapsOf
    <2>6. QED
      BY <2>1, <2>3, <2>4, <2>5
  <1>2. CASE ~is_empty(com)
    <2> DEFINE T == DOMAIN pro.tries \cup DOMAIN com.tries
               tries == [t \in T |-> Overlaid(changes(pro, t), changes(com, t))]
               roots == Overlaid(pro.roots, com.roots)
    <2>1. new = [tries |-> tries, roots |-> roots]
      BY <1>2 DEF commit_prospective
    <2>2. \A t : /\ Overlaid(changes(pro, t), changes(com, t)) \in MapsOf(Key, Content)
                 /\ \A k, d : getOr(Overlaid(changes(pro, t), changes(com, t)), k, d)
                                 = getOr(changes(pro, t), k, getOr(changes(com, t), k, d))
      <3> SUFFICES ASSUME NEW t
                   PROVE  /\ Overlaid(changes(pro, t), changes(com, t)) \in MapsOf(Key, Content)
                          /\ \A k, d : getOr(Overlaid(changes(pro, t), changes(com, t)), k, d)
                                         = getOr(changes(pro, t), k, getOr(changes(com, t), k, d))
        OBVIOUS
      <3>1. Overlaid(changes(pro, t), changes(com, t)) \in MapsOf(Key, Content)
        BY ChangesType, OverlaidType
      <3>2. \A k, d : getOr(Overlaid(changes(pro, t), changes(com, t)), k, d)
                        = getOr(changes(pro, t), k, getOr(changes(com, t), k, d))
        BY DEF Overlaid, exists, getOr
      <3>3. QED
        BY <3>1, <3>2
    <2>3. T \subseteq Trie
      BY DEF ChangeSets, MapsOf
    <2>4. tries \in [T -> MapsOf(Key, Content)]
      BY <2>2
    <2>5. tries \in MapsOf(Trie, MapsOf(Key, Content))
      BY <2>3, <2>4, ZenonT(60) DEF MapsOf
    <2>6. pro.roots \in MapsOf(Child, MapsOf(Key, Value)) /\ com.roots \in MapsOf(Child, MapsOf(Key, Value))
      BY DEF ChangeSets
    <2>7. roots \in MapsOf(Child, MapsOf(Key, Value))
      BY <2>6, OverlaidType
    <2>8. new \in ChangeSets
      BY <2>1, <2>5, <2>7 DEF ChangeSets
    <2>9. ASSUME NEW t, NEW k, NEW d
          PROVE  getOr(changes(new, t), k, d) = getOr(changes(pro, t), k, getOr(changes(com, t), k, d))
      <3>1. CASE t \in T
        <4>1. changes(new, t) = Overlaid(changes(pro, t), changes(com, t))
          BY <2>1, <3>1 DEF changes, getOr
        <4>2. QED
          BY <2>2, <4>1
      <3>2. CASE t \notin T
        <4>1. changes(new, t) = EmptyMap /\ changes(pro, t) = EmptyMap /\ changes(com, t) = EmptyMap
          BY <2>1, <3>2 DEF changes, getOr
        <4>2. QED
          BY <4>1 DEF getOr, EmptyMap
      <3>3. QED
        BY <3>1, <3>2
    <2>10. QED
      BY <2>1, <2>7, <2>8, <2>9, SMTT(30)
  <1>3. QED
    BY <1>1, <1>2
-------------------------------------------------------------------------------
(* Storage answers contents. *)
LEMMA StorageType ==
  ASSUME Typed, NEW t \in Trie, NEW k
  PROVE  /\ storage(t, k) \in Content
         /\ getOr(changes(committed, t), k, getOr(backend[t], k, NoValue)) \in Content
  <1>1. backend[t] \in MapsOf(Key, Value)
    BY BackendAssumption DEF Typed
  <1>2. getOr(backend[t], k, NoValue) \in Content
    BY <1>1, GetFacts DEF Content, getOr, exists
  <1>3. changes(committed, t) \in MapsOf(Key, Content) /\ changes(prospective, t) \in MapsOf(Key, Content)
    BY ChangesType DEF Typed
  <1>4. getOr(changes(committed, t), k, getOr(backend[t], k, NoValue)) \in Content
    BY <1>2, <1>3, GetFacts, ZenonT(60)
  <1>5. storage(t, k) \in Content
    BY <1>3, <1>4, GetFacts, ZenonT(60) DEF storage
  <1>6. QED
    BY <1>4, <1>5

(* The contents of a trie map keys to values. *)
LEMMA ContentsType ==
  ASSUME Typed, NEW t \in Trie
  PROVE  Contents(t) \in MapsOf(Key, Value)
  <1> DEFINE S == {k \in Key : storage(t, k) # NoValue}
  <1>1. \A k \in S : storage(t, k) \in Value
    BY StorageType DEF Content
  <1>2. Contents(t) \in [S -> Value]
    BY <1>1 DEF Contents
  <1>3. S \in SUBSET Key
    OBVIOUS
  <1>4. QED
    BY <1>2, <1>3 DEF MapsOf

(* A child trie that the overlay knows nothing of has the contents that    *)
(* the backend has.                                                        *)
LEMMA UnchangedChild ==
  ASSUME Typed, NEW c \in Child, ~child_info(c)
  PROVE  Contents(c) = backend[c]
  <1>1. changes(prospective, c) = EmptyMap /\ changes(committed, c) = EmptyMap
    BY DEF child_info, changes, getOr
  <1>2. \A k : storage(c, k) = getOr(backend[c], k, NoValue)
    BY <1>1 DEF storage, getOr, EmptyMap
  <1>3. PICK D \in SUBSET Key : backend[c] \in [D -> Value]
    BY BackendAssumption DEF Typed, Trie, MapsOf
  <1>4. {k \in Key : storage(c, k) # NoValue} = D
    BY <1>2, <1>3, KeyAssumption, ZenonT(60) DEF getOr
  <1>5. \A k \in D : storage(c, k) = backend[c][k]
    BY <1>2, <1>3 DEF getOr
  <1>6. QED
    BY <1>3, <1>4, <1>5 DEF Contents

(* full_storage_root takes every child trie that is linked as it is now. *)
LEMMA RootIsContents ==
  ASSUME Typed, RootsKnown
  PROVE  full_storage_root =
           [top   |-> Contents(Top),
            roots |-> [c \in Child |-> IF Unlinked(c) THEN EmptyMap ELSE Contents(c)]]
  <1>1. ASSUME NEW c \in Child, ~child_info(c)
        PROVE  StoredRoot(c) = IF Unlinked(c) THEN EmptyMap ELSE Contents(c)
    <2>1. CASE Unlinked(c)
      <3>1. c \in DOMAIN prospective.roots => prospective.roots[c] = EmptyMap
        BY <1>1 DEF RootsKnown, RootsIn, child_info
      <3>2. c \in DOMAIN committed.roots => committed.roots[c] = EmptyMap
        BY <1>1 DEF RootsKnown, RootsIn, child_info
      <3>3. QED
        BY <2>1, <3>1, <3>2 DEF StoredRoot, Unlinked, getOr
    <2>2. CASE ~Unlinked(c)
      <3>1. StoredRoot(c) = backend[c]
        BY <1>1, <2>2 DEF StoredRoot, Unlinked, getOr
      <3>2. QED
        BY <1>1, <2>2, <3>1, UnchangedChild
    <2>3. QED
      BY <2>1, <2>2
  <1>2. [c \in Child |-> IF child_info(c) THEN Contents(c) ELSE StoredRoot(c)]
          = [c \in Child |-> IF Unlinked(c) THEN EmptyMap ELSE Contents(c)]
    BY <1>1 DEF Unlinked
  <1>3. QED
    BY <1>2 DEF full_storage_root

(* The strengthened invariant holds at first. *)
LEMMA InvInit == Init => Inv
  <1> SUFFICES ASSUME Init PROVE Inv
    OBVIOUS
  <1>1. Typed
    BY EmptyFacts DEF Init, Typed, Idle
  <1>2. Phases
    BY DEF Init, Phases, Idle
  <1>3. RootsKnown
    BY DEF Init, RootsKnown, RootsIn, EmptyChangeSet, EmptyMap, Idle
  <1>4. RootFresh
    BY DEF Init, RootFresh, Idle
  <1>5. QED
    BY <1>1, <1>2, <1>3, <1>4 DEF Inv

(* An operation that drops the cached root and puts a change set of the    *)
(* right type, with no stored root more and no trie less, in place of the  *)
(* prospective one preserves the invariant. *)
LEMMA WriteInv ==
  ASSUME Inv, NEW pro \in ChangeSets, Write(pro),
         DOMAIN prospective.tries \subseteq DOMAIN pro.tries, NoRootMore(pro)
  PROVE  Inv'
  <1>1. /\ call.phase = "running" /\ call' = call /\ storage_transaction' = {}
        /\ prospective' = pro
        /\ UNCHANGED <<backend, committed, commit_on_success>>
    BY DEF Write, mark_dirty
  <1>2. Typed'
    BY <1>1 DEF Inv, Typed
  <1>3. Phases'
    BY <1>1 DEF Inv, Phases
  <1>4. RootsKnown'
    BY <1>1 DEF Inv, RootsKnown, RootsIn, NoRootMore
  <1>5. RootFresh'
    BY <1>1 DEF RootFresh
  <1>6. QED
    BY <1>2, <1>3, <1>4, <1>5 DEF Inv

(* The cached root, and a root that is computed, is the fresh one. *)
LEMMA TransactionFresh ==
  ASSUME Inv, call.phase = "running"
  PROVE  transaction \subseteq
           {[top   |-> Contents(Top),
             roots |-> [c \in Child |-> IF Unlinked(c) THEN EmptyMap ELSE Contents(c)]]}
  BY RootIsContents DEF Inv, transaction, RootFresh

(* What a state shows of the storage depends only on the overlay and the   *)
(* backend. *)
LEMMA SameContents ==
  ASSUME UNCHANGED <<backend, prospective, committed>>
  PROVE  /\ \A t : Contents(t)' = Contents(t)
         /\ \A c : Unlinked(c)' = Unlinked(c)
  BY DEF Contents, storage, changes, Unlinked, child_info

(* A change set whose stored roots are known is committed with them. *)
LEMMA CommittedRoots ==
  ASSUME NEW pro \in ChangeSets, NEW com \in ChangeSets,
         RootsIn(com, DOMAIN com.tries), RootsIn(pro, DOMAIN pro.tries \cup DOMAIN com.tries)
  PROVE  RootsIn(commit_prospective(pro, com), DOMAIN commit_prospective(pro, com).tries)
  <1> DEFINE new == commit_prospective(pro, com)
  <1>1. new.roots = Overlaid(pro.roots, com.roots) /\ DOMAIN new.tries = DOMAIN pro.tries \cup DOMAIN com.tries
    BY CommitFacts
  <1> HIDE DEF new
  <1>2. ASSUME NEW c \in DOMAIN new.roots, new.roots[c] # EmptyMap
        PROVE  c \in DOMAIN new.tries
    BY <1>1, <1>2 DEF Overlaid, exists, RootsIn
  <1>3. RootsIn(new, DOMAIN new.tries)
    BY <1>2, SMTT(30) DEF RootsIn
  <1>4. QED
    BY <1>3 DEF new

(* The empty change set has no roots. *)
LEMMA EmptyRoots == \A T : RootsIn(EmptyChangeSet, T)
  BY DEF RootsIn, EmptyChangeSet, EmptyMap

(* The end of a pass preserves the strengthened invariant. *)
LEMMA EndPassInv ==
  ASSUME Inv, NEW res \in {"Ok", "Err"}, EndPass(res)
  PROVE  Inv'
  <1>1. call.phase = "running" /\ storage_transaction' = {} /\ UNCHANGED <<backend, committed, commit_on_success>>
    BY DEF EndPass
  <1>2. CASE RunsAgain(res)
    <2>1. prospective' = call.orig /\ call' = NextPass(res)
      BY <1>2 DEF EndPass
    <2>2. call'.phase = "running" /\ call'.orig = call.orig
      BY <2>1 DEF NextPass, Running
    <2>3. Typed'
      BY <1>1, <2>1, <2>2 DEF Inv, Typed
    <2>4. Phases'
      BY <1>1, <2>2 DEF Inv, Phases
    <2>5. RootsKnown'
      BY <1>1, <2>1, <2>2 DEF Inv, RootsKnown
    <2>6. RootFresh'
      BY <1>1, <2>2 DEF RootFresh
    <2>7. QED
      BY <2>3, <2>4, <2>5, <2>6 DEF Inv
  <1>3. CASE ~RunsAgain(res)
    <2>1. PICK delta \in Deltas(res) : call' = Returned(res, delta, {call})
      BY <1>3 DEF EndPass
    <2>2. prospective' = prospective
      BY <1>3 DEF EndPass
    <2>3. /\ call'.phase = "returned" /\ call'.res = res
          /\ call'.delta = delta /\ call'.of = {call}
      BY <2>1, SMTT(30) DEF Returned
    <2>4. Typed' /\ Phases' /\ RootsKnown'
      BY <1>1, <2>2, <2>3 DEF Inv, Typed, Phases, RootsKnown
    <2>5. call.first = {} => delta \subseteq transaction
      BY <2>1 DEF Deltas
    <2>6. RootFresh'
      BY <1>1, <2>2, <2>3, <2>5, TransactionFresh, SameContents DEF RootFresh
    <2>7. QED
      BY <2>4, <2>6 DEF Inv
  <1>4. QED
    BY <1>2, <1>3

(* The end of a call preserves it. *)
LEMMA CommitInv ==
  ASSUME Inv, commit_on_ok
  PROVE  Inv'
  <1>1. /\ call.phase = "returned" /\ storage_transaction' = {}
        /\ call'.phase \in {"idle", "consumed"}
        /\ UNCHANGED <<backend, commit_on_success>>
    BY DEF commit_on_ok, AfterCall, Idle, Consumed, Inv, Phases
  <1>2. RootFresh'
    BY <1>1 DEF RootFresh
  <1>3. CASE commit_on_success
    <2>1. prospective' = EmptyChangeSet
      BY <1>3 DEF commit_on_ok
    <2>2. committed' \in ChangeSets /\ RootsIn(committed', DOMAIN committed'.tries)
      <3>1. CASE call.res = "Ok"
        <4>1. committed' = commit_prospective(prospective, committed)
          BY <1>3, <3>1 DEF commit_on_ok
        <4>2. QED
          BY <4>1, CommitFacts, CommittedRoots DEF Inv, Typed, RootsKnown
      <3>2. CASE call.res # "Ok"
        <4>1. committed' = committed
          BY <1>3, <3>2 DEF commit_on_ok
        <4>2. QED
          BY <4>1 DEF Inv, Typed, RootsKnown
      <3>3. QED
        BY <3>1, <3>2
    <2>3. Typed'
      BY <1>1, <2>1, <2>2, EmptyFacts DEF Inv, Typed
    <2>4. Phases'
      BY <1>1, <2>1 DEF Phases
    <2>5. RootsKnown'
      BY <1>1, <2>1, <2>2, EmptyRoots DEF RootsKnown
    <2>6. QED
      BY <1>2, <2>3, <2>4, <2>5 DEF Inv
  <1>4. CASE ~commit_on_success
    <2>1. UNCHANGED <<prospective, committed>>
      BY <1>4 DEF commit_on_ok
    <2>2. Typed' /\ RootsKnown'
      BY <1>1, <2>1 DEF Inv, Typed, RootsKnown
    <2>3. Phases'
      BY <1>1, <1>4, SMTT(30) DEF Phases
    <2>4. QED
      BY <1>2, <2>2, <2>3 DEF Inv
  <1>5. QED
    BY <1>3, <1>4

(* Every step preserves the strengthened invariant. *)
LEMMA InvNext == Inv /\ [Next]_vars => Inv'
  <1> SUFFICES ASSUME Inv, [Next]_vars PROVE Inv'
    OBVIOUS
  <1>1. ASSUME NEW t \in Trie, NEW k \in Key, NEW v \in Content, place_storage(t, k, v)
        PROVE  Inv'
    <2> DEFINE pro == set_storage(prospective, t, k, v)
    <2>1. /\ pro \in ChangeSets
          /\ DOMAIN pro.tries = DOMAIN prospective.tries \cup {t}
          /\ pro.roots = prospective.roots
      BY SetFacts DEF Inv, Typed
    <2>2. Write(pro)
      BY <1>1, SMTT(30) DEF place_storage
    <2> HIDE DEF pro
    <2>3. NoRootMore(pro)
      BY <2>1 DEF NoRootMore
    <2>4. QED
      BY <2>1, <2>2, <2>3, WriteInv
  <1>2. ASSUME NEW t \in Trie, NEW S \in SUBSET Key, NEW r, clear_prefix(t, S, r)
        PROVE  Inv'
    <2> DEFINE pro == removed(t, S, r)
    <2>1. /\ pro \in ChangeSets
          /\ DOMAIN pro.tries = DOMAIN prospective.tries \cup {t}
          /\ NoRootMore(pro)
      <3>1. Typed
        BY DEF Inv
      <3>2. QED
        BY <3>1, RemovedFacts, SMTT(30)
    <2>2. Write(pro)
      BY <1>2 DEF clear_prefix
    <2> HIDE DEF pro
    <2>3. QED
      BY <2>1, <2>2, WriteInv, SMTT(30)
  <1>3. ASSUME NEW c \in Child, store_child_root(c)
        PROVE  Inv'
    <2>1. /\ call.phase = "running" /\ storage_transaction' = {} /\ child_info(c)
          /\ UNCHANGED <<backend, committed, commit_on_success, call>>
      BY <1>3 DEF store_child_root
    <2>2. prospective' = [tries |-> prospective.tries,
                          roots |-> insert(prospective.roots, c, child_storage_root(c))]
      BY <1>3 DEF store_child_root
    <2>3. child_storage_root(c) \in MapsOf(Key, Value)
      BY <1>3, ContentsType DEF store_child_root, child_storage_root, Trie, Inv
    <2>4. prospective.roots \in MapsOf(Child, MapsOf(Key, Value))
      BY DEF Inv, Typed, ChangeSets
    <2>5. insert(prospective.roots, c, child_storage_root(c)) \in MapsOf(Child, MapsOf(Key, Value))
      BY <2>3, <2>4, InsertType, SMTT(30)
    <2>6. Typed'
      BY <2>1, <2>2, <2>5 DEF Inv, Typed, ChangeSets
    <2>7. Phases'
      BY <2>1, SMTT(30) DEF Inv, Phases
    <2>8. RootsKnown'
      BY <2>1, <2>2, SMTT(30) DEF Inv, RootsKnown, RootsIn, child_info, insert
    <2>9. RootFresh'
      BY <2>1 DEF RootFresh
    <2>10. QED
      BY <2>6, <2>7, <2>8, <2>9 DEF Inv
  <1>4. CASE storage_root
    <2>1. /\ call.phase = "running" /\ storage_transaction' = {full_storage_root}
          /\ UNCHANGED <<backend, prospective, committed, commit_on_success, call>>
      BY <1>4 DEF storage_root
    <2>2. Typed' /\ Phases' /\ RootsKnown'
      BY <2>1, SMTT(30) DEF Inv, Typed, Phases, RootsKnown
    <2>3. RootFresh'
      BY <2>1, RootIsContents, SameContents, SMTT(30) DEF RootFresh, Inv
    <2>4. QED
      BY <2>2, <2>3 DEF Inv
  <1>5. ASSUME NEW st \in Strategy, NEW tx \in BOOLEAN, Begin(st, tx)
        PROVE  Inv'
    <2>1. /\ call.phase = "idle" /\ call'.phase = "running" /\ call'.orig = prospective
          /\ storage_transaction' = {}
          /\ UNCHANGED <<backend, prospective, committed, commit_on_success>>
      BY <1>5, SMTT(30) DEF Begin, Idle, Running
    <2>2. QED
      BY <2>1 DEF Inv, Typed, Phases, RootsKnown, RootFresh
  <1>6. ASSUME map_api_result \/ \E res \in {"Ok", "Err"} : end_map_call(res)
        PROVE  Inv'
    <2>1. /\ call.phase = "idle" /\ storage_transaction' = {}
          /\ UNCHANGED <<backend, prospective, committed>>
      BY <1>6, SMTT(30) DEF map_api_result, end_map_call, Idle, Inv, Phases
    <2>2. \/ call'.phase = "idle" /\ commit_on_success' = FALSE
          \/ call'.phase = "returned" /\ call'.delta = {} /\ call'.res \in {"Ok", "Err"}
      BY <1>6 DEF map_api_result, end_map_call, Idle, Returned
    <2>3. QED
      BY <2>1, <2>2 DEF Inv, Typed, Phases, RootsKnown, RootFresh
  <1>7. CASE UNCHANGED vars
    <2>1. UNCHANGED <<backend, prospective, committed, storage_transaction, commit_on_success, call>>
      BY <1>7 DEF vars
    <2>2. Typed' /\ Phases' /\ RootsKnown'
      BY <2>1, SMTT(30) DEF Inv, Typed, Phases, RootsKnown
    <2>3. RootFresh'
      BY <2>1, SameContents DEF RootFresh, Inv
    <2>4. QED
      BY <2>2, <2>3 DEF Inv
  <1>8. ASSUME NEW q \in Prefix
        PROVE  q.keys \in SUBSET Key /\ q.roots \in BOOLEAN
    BY KeyAssumption, SMTT(30)
  <1>9. QED
    BY <1>1, <1>2, <1>3, <1>4, <1>5, <1>6, <1>7, <1>8, EndPassInv, CommitInv, ZenonT(60) DEF Next, Trie

-------------------------------------------------------------------------------
(* What the abstract variables show depends only on these. *)
LEMMA SameStorage ==
  ASSUME UNCHANGED <<backend, committed>>
  PROVE  /\ CommittedStorage' = CommittedStorage
         /\ prospective' = prospective => CurrentStorage' = CurrentStorage
         /\ prospective' = call.orig => CurrentStorage' = StorageOver(call.orig)
         /\ call'.orig = call.orig => StorageOver(call.orig)' = StorageOver(call.orig)
         /\ call'.orig = prospective => StorageOver(call.orig)' = CurrentStorage
  BY DEF CommittedStorage, CurrentStorage, StorageOver, changes, EmptyChangeSet

(* What storage answers is the current storage. *)
LEMMA CurrentIsStorage ==
  /\ CurrentStorage = [u \in Trie |-> [k \in Key |-> storage(u, k)]]
  /\ CommittedStorage = [t \in Trie |-> [k \in Key |->
       getOr(changes(committed, t), k, getOr(backend[t], k, NoValue))]]
  <1>1. \A t, k, d : getOr(changes(EmptyChangeSet, t), k, d) = d
    BY EmptyFacts DEF getOr, EmptyMap
  <1>2. QED
    BY <1>1 DEF CurrentStorage, CommittedStorage, StorageOver, storage

(* An operation after which storage finds v under the keys S of trie t,    *)
(* and everything else as before, is a write of the transactional map.     *)
LEMMA WriteRefines ==
  ASSUME Inv, NEW pro, Write(pro), NEW t \in Trie, NEW S \in SUBSET Key, NEW v \in Content,
         \A u \in Trie, k \in Key :
           getOr(changes(pro, u), k, getOr(changes(committed, u), k, getOr(backend[u], k, NoValue)))
             = IF u = t /\ k \in S THEN v ELSE storage(u, k)
  PROVE  Transactional!Write(t, S, v)
  <1>1. /\ call.phase = "running" /\ prospective' = pro
        /\ UNCHANGED <<backend, committed, commit_on_success, call>>
    BY SMTT(30) DEF Write
  <1>2. \A u \in Trie, k \in Key : storage(u, k)' = IF u = t /\ k \in S THEN v ELSE storage(u, k)
    BY <1>1 DEF storage, changes
  <1>3. CurrentStorage' = [CurrentStorage EXCEPT ![t] =
                             [k \in Key |-> IF k \in S THEN v ELSE CurrentStorage[t][k]]]
    <2>1. CurrentStorage' = [u \in Trie |-> [k \in Key |-> storage(u, k)']]
      BY DEF CurrentStorage, StorageOver, storage
    <2>2. QED
      BY <1>2, <2>1, CurrentIsStorage, ZenonT(60)
  <1>4. CommittedStorage' = CommittedStorage /\ StartStorage' = StartStorage
    BY <1>1, SameStorage DEF StartStorage
  <1>5. CallPhase = "running" /\ UNCHANGED <<CallPhase, CallResult>>
    BY <1>1 DEF CallPhase, CallResult
  <1>6. QED
    BY <1>1, <1>3, <1>4, <1>5 DEF Transactional!Write

(* Where there are no prospective changes, a call finds what is committed. *)
LEMMA NothingProspective == prospective = EmptyChangeSet => CurrentStorage = CommittedStorage
  BY DEF CurrentStorage, CommittedStorage

(* The end of a pass is the end of the call, or takes it back to its start.*)
LEMMA EndPassRefines ==
  ASSUME NEW res \in {"Ok", "Err"}, EndPass(res)
  PROVE  Transactional!Next
  <1>1. call.phase = "running" /\ UNCHANGED <<backend, committed, commit_on_success>>
    BY DEF EndPass
  <1>2. CASE RunsAgain(res)
    <2>1. prospective' = call.orig /\ call' = NextPass(res)
      BY <1>2, SMTT(30) DEF EndPass
    <2>2. call'.phase = "running" /\ call'.orig = call.orig
      BY <2>1, SMTT(30) DEF NextPass, Running
    <2>3. CurrentStorage' = StartStorage /\ StartStorage' = StartStorage /\ CommittedStorage' = CommittedStorage
      BY <1>1, <2>1, <2>2, SameStorage, SMTT(30) DEF StartStorage
    <2>4. CallPhase = "running" /\ UNCHANGED <<CallPhase, CallResult>>
      BY <1>1, <2>2 DEF CallPhase, CallResult
    <2>5. QED
      BY <1>1, <2>3, <2>4 DEF Transactional!Next, Transactional!Retry
  <1>3. CASE ~RunsAgain(res)
    <2>1. prospective' = prospective
      BY <1>3 DEF EndPass
    <2>2. call'.phase = "returned" /\ call'.res = res
      BY <1>3 DEF EndPass, Returned
    <2>3. CurrentStorage' = CurrentStorage /\ StartStorage' = CurrentStorage /\ CommittedStorage' = CommittedStorage
      BY <1>1, <2>1, <2>2, SameStorage DEF StartStorage
    <2>4. CallPhase = "running" /\ CallPhase' = "returned" /\ CallResult' = res
      BY <1>1, <2>2 DEF CallPhase, CallResult
    <2>5. Transactional!Return(res)
      BY <1>1, <2>3, <2>4 DEF Transactional!Return
    <2>6. QED
      BY <2>5 DEF Transactional!Next
  <1>4. QED
    BY <1>2, <1>3

(* commit_on_ok keeps what a success wrote and drops what an error wrote,  *)
(* or leaves that to the end of the group. *)
LEMMA CommitRefines ==
  ASSUME Inv, commit_on_ok
  PROVE  Transactional!Next
  <1>1. /\ call.phase = "returned" /\ call'.phase \in {"idle", "consumed"}
        /\ UNCHANGED <<backend, commit_on_success>>
    BY DEF commit_on_ok, AfterCall, Idle, Consumed
  <1>2. CallPhase = "returned" /\ CallPhase' = "idle" /\ CallResult = call.res /\ CallResult' = "none"
    BY <1>1 DEF CallPhase, CallResult
  <1>3. StartStorage' = CurrentStorage'
    BY <1>1 DEF StartStorage
  <1>4. /\ CommittedStorage' = IF commit_on_success /\ call.res = "Ok" THEN CurrentStorage ELSE CommittedStorage
        /\ CurrentStorage' = IF commit_on_success /\ call.res = "Err" THEN CommittedStorage ELSE CurrentStorage
    <2>1. CASE ~commit_on_success
      <3>1. UNCHANGED <<prospective, committed>>
        BY <2>1 DEF commit_on_ok
      <3>2. QED
        BY <1>1, <2>1, <3>1, SameStorage, SMTT(30)
    <2>2. CASE commit_on_success
      <3>1. (CurrentStorage = CommittedStorage)'
        <4>1. (prospective = EmptyChangeSet)'
          BY <2>2 DEF commit_on_ok
        <4>2. QED
          BY <4>1, NothingProspective, PTL
      <3>2. CASE call.res = "Ok"
        <4>1. committed' = commit_prospective(prospective, committed)
          BY <2>2, <3>2 DEF commit_on_ok
        <4>2. \A u, k, d : getOr(changes(committed', u), k, d)
                              = getOr(changes(prospective, u), k, getOr(changes(committed, u), k, d))
          BY <4>1, CommitFacts DEF Inv, Typed
        <4>3. CommittedStorage' = [t \in Trie |-> [k \in Key |->
                getOr(changes(committed', t), k, getOr(backend[t], k, NoValue))]]
          <5>1. (CommittedStorage = [t \in Trie |-> [k \in Key |->
                  getOr(changes(committed, t), k, getOr(backend[t], k, NoValue))]])'
            BY CurrentIsStorage, PTL
          <5>2. QED
            BY <1>1, <5>1 DEF changes
        <4>4. CommittedStorage' = CurrentStorage
          BY <4>2, <4>3 DEF CurrentStorage, StorageOver
        <4>5. QED
          BY <2>2, <3>1, <3>2, <4>4, SMTT(30)
      <3>3. CASE call.res = "Err"
        <4>1. committed' = committed
          BY <2>2, <3>3 DEF commit_on_ok
        <4>2. QED
          BY <1>1, <2>2, <3>1, <3>3, <4>1, SameStorage
      <3>4. QED
        BY <1>1, <3>2, <3>3 DEF Inv, Phases
    <2>3. QED
      BY <2>1, <2>2
  <1>5. Transactional!Close
    BY <1>1, <1>2, <1>3, <1>4, SMTT(30) DEF Transactional!Close
  <1>6. QED
    BY <1>5 DEF Transactional!Next

(* Every step of the overlay is a step of the transactional map, or leaves *)
(* it alone. *)
LEMMA StepRefines == Inv /\ [Next]_vars => [Transactional!Next]_(Transactional!vars)
  <1> SUFFICES ASSUME Inv, [Next]_vars PROVE [Transactional!Next]_(Transactional!vars)
    OBVIOUS
  <1>1. ASSUME NEW t \in Trie, NEW k \in Key, NEW v \in Content, place_storage(t, k, v)
        PROVE  Transactional!Next
    <2>1. \A u \in Trie, j \in Key :
            getOr(changes(set_storage(prospective, t, k, v), u), j,
                  getOr(changes(committed, u), j, getOr(backend[u], j, NoValue)))
              = IF u = t /\ j \in {k} THEN v ELSE storage(u, j)
      BY SetFacts, SMTT(30) DEF Inv, Typed, storage
    <2>2. Transactional!Write(t, {k}, v)
      BY <1>1, <2>1, WriteRefines DEF place_storage
    <2>3. QED
      BY <2>2, SMTT(30) DEF Transactional!Next
  <1>2. ASSUME NEW t \in Trie, NEW S \in SUBSET Key, NEW r, clear_prefix(t, S, r)
        PROVE  Transactional!Next
    <2>1. \A u \in Trie, k \in Key :
            getOr(changes(removed(t, S, r), u), k,
                  getOr(changes(committed, u), k, getOr(backend[u], k, NoValue)))
              = IF u = t /\ k \in S THEN NoValue ELSE storage(u, k)
      <3>1. Typed
        BY DEF Inv
      <3>2. QED
        BY <3>1, RemovedFacts, SMTT(30)
    <2>2. Write(removed(t, S, r)) /\ NoValue \in Content
      BY <1>2 DEF clear_prefix, Content
    <2>3. Transactional!Write(t, S, NoValue)
      BY <2>1, <2>2, WriteRefines
    <2>4. QED
      BY <2>2, <2>3, SMTT(30) DEF Transactional!Next
  <1>3. ASSUME \/ storage_root
               \/ \E c \in Child : store_child_root(c)
               \/ UNCHANGED vars
        PROVE  UNCHANGED Transactional!vars
    <2>1. UNCHANGED <<backend, committed, commit_on_success, call>>
      BY <1>3, SMTT(30) DEF storage_root, store_child_root, vars
    <2>2. CurrentStorage' = CurrentStorage
      BY <1>3 DEF storage_root, store_child_root, vars, CurrentStorage, StorageOver, changes
    <2>3. CommittedStorage' = CommittedStorage /\ StartStorage' = StartStorage
      BY <2>1, <2>2, SameStorage DEF StartStorage
    <2>4. QED
      BY <2>1, <2>2, <2>3 DEF Transactional!vars, CallPhase, CallResult
  <1>4. ASSUME NEW st \in Strategy, NEW tx \in BOOLEAN, Begin(st, tx)
        PROVE  Transactional!Next
    <2>1. /\ call.phase = "idle" /\ call'.phase = "running" /\ call'.orig = prospective
          /\ UNCHANGED <<backend, prospective, committed, commit_on_success>>
      BY <1>4, SMTT(30) DEF Begin, Idle, Running
    <2>2. UNCHANGED <<CommittedStorage, CurrentStorage, StartStorage>>
      BY <2>1, SameStorage DEF StartStorage
    <2>3. CallPhase = "idle" /\ CallPhase' = "running" /\ CallResult' = CallResult
      BY <2>1 DEF CallPhase, CallResult
    <2>4. QED
      BY <2>1, <2>2, <2>3, SMTT(30) DEF Transactional!Next, Transactional!Begin
  <1>5. CASE map_api_result
    <2>1. /\ call.phase = "idle" /\ commit_on_success /\ ~commit_on_success'
          /\ UNCHANGED <<backend, prospective, committed, call>>
      BY <1>5 DEF map_api_result, Idle
    <2>2. UNCHANGED <<CommittedStorage, CurrentStorage, StartStorage>>
      BY <2>1, SameStorage DEF StartStorage
    <2>3. CallPhase = "idle" /\ UNCHANGED <<CallPhase, CallResult>>
      BY <2>1 DEF CallPhase, CallResult
    <2>4. QED
      BY <2>1, <2>2, <2>3 DEF Transactional!Next, Transactional!Group
  <1>6. ASSUME NEW res \in {"Ok", "Err"}, end_map_call(res)
        PROVE  Transactional!Next
    <2>1. /\ call.phase = "idle" /\ ~commit_on_success /\ commit_on_success' = TRUE
          /\ call'.phase = "returned" /\ call'.res = res
          /\ UNCHANGED <<backend, prospective, committed>>
      BY <1>6, SMTT(30) DEF end_map_call, Idle, Returned
    <2>2. UNCHANGED <<CommittedStorage, CurrentStorage, StartStorage>>
      BY <2>1, SameStorage DEF StartStorage
    <2>3. CallPhase = "idle" /\ CallPhase' = "returned" /\ CallResult' = res
      BY <2>1 DEF CallPhase, CallResult
    <2>4. Transactional!EndGroup(res)
      BY <2>1, <2>2, <2>3 DEF Transactional!EndGroup
    <2>5. QED
      BY <2>4, SMTT(30) DEF Transactional!Next
  <1>7. ASSUME NEW q \in Prefix
        PROVE  q.keys \in SUBSET Key /\ q.roots \in BOOLEAN
    BY KeyAssumption
  <1>8. QED
    BY <1>1, <1>2, <1>3, <1>4, <1>5, <1>6, <1>7, EndPassRefines, CommitRefines, ZenonT(60) DEF Next, Trie

(* The execution of runtime calls, under every strategy and with any       *)
(* runtime, implements the transactional map: what is left of a call, or   *)
(* of the calls grouped by map_api_result, is all of it or nothing, as its *)
(* result says (commit_on_ok, execute_using_consensus_failure_handler,     *)
(* OverlayedChanges). *)
THEOREM CallsAreTransactional == Spec => ImplementsTransactionalMap
  <1>1. Init => Transactional!Init
    <2> SUFFICES ASSUME Init PROVE Transactional!Init
      OBVIOUS
    <2>1. CurrentStorage = CommittedStorage /\ call.phase = "idle" /\ commit_on_success = TRUE
      BY NothingProspective DEF Init, Idle
    <2>2. Typed
      BY InvInit DEF Inv
    <2>3. CommittedStorage \in [Trie -> [Key -> Content]]
      BY <2>2, StorageType, CurrentIsStorage
    <2>4. StartStorage = CommittedStorage /\ CallPhase = "idle" /\ CallResult = "none"
      BY <2>1 DEF StartStorage, CallPhase, CallResult
    <2>5. QED
      BY <2>1, <2>3, <2>4 DEF Transactional!Init, Transactional!Storage
  <1>2. QED
    BY <1>1, InvInit, InvNext, StepRefines, PTL DEF Spec, ImplementsTransactionalMap, Transactional!Spec

(* The cached storage root, and the delta a block import gets, is the root *)
(* of what the call sees in all tries but those that a short prefix        *)
(* unlinked (mark_dirty, storage_root, child_storage_root, transaction). *)
THEOREM CachedRootIsFresh == Spec => []RootFresh
  <1>1. Inv => RootFresh
    BY DEF Inv
  <1>2. QED
    BY <1>1, InvInit, InvNext, PTL DEF Spec

(* Whatever a native pass wrote, the wasm pass after it, like every pass,  *)
(* starts from what is committed or, in a group, from what the call found  *)
(* (execute_using_consensus_failure_handler). *)
THEOREM PassesAreIndependent == Spec => PassesStartClean
  <1> DEFINE A == call'.phase = "running" /\ call' # call =>
                    CurrentStorage' = IF commit_on_success THEN CommittedStorage
                                      ELSE IF call.phase = "idle" THEN CurrentStorage
                                      ELSE StorageOver(call.orig)
  <1>1. Inv /\ [Next]_vars => [A]_vars
    <2> SUFFICES ASSUME Inv, Next, call'.phase = "running", call' # call
                 PROVE  CurrentStorage' = IF commit_on_success THEN CommittedStorage
                                          ELSE IF call.phase = "idle" THEN CurrentStorage
                                          ELSE StorageOver(call.orig)
      BY SMTT(30)
    <2>1. \/ \E st \in Strategy, tx \in BOOLEAN : Begin(st, tx)
          \/ \E res \in {"Ok", "Err"} : EndPass(res)
      <3>1. ASSUME \/ storage_root \/ map_api_result
                   \/ \E t \in Trie, k \in Key, v \in Content : place_storage(t, k, v)
                   \/ \E q \in Prefix : clear_prefix(Top, q.keys, q.roots)
                   \/ \E c \in Child, S \in {q.keys : q \in Prefix} \cup {Key} : clear_prefix(c, S, FALSE)
                   \/ \E c \in Child : store_child_root(c)
            PROVE  call' = call
        BY <3>1, ZenonT(60)
           DEF place_storage, clear_prefix, Write, store_child_root, storage_root, map_api_result
      <3>2. ASSUME commit_on_ok \/ \E res \in {"Ok", "Err"} : end_map_call(res)
            PROVE  call'.phase # "running"
        BY <3>2 DEF commit_on_ok, end_map_call, AfterCall, Idle, Consumed, Returned
      <3>3. QED
        BY <3>1, <3>2, ZenonT(60) DEF Next
    <2>2. ASSUME NEW st \in Strategy, NEW tx \in BOOLEAN, Begin(st, tx)
          PROVE  CurrentStorage' = CurrentStorage /\ call.phase = "idle"
      BY <2>2, SameStorage DEF Begin, Idle
    <2>3. ASSUME NEW res \in {"Ok", "Err"}, EndPass(res)
          PROVE  CurrentStorage' = StorageOver(call.orig) /\ call.phase = "running"
      <3>1. \A delta : call' # Returned(res, delta, {call})
        BY DEF Returned
      <3>2. prospective' = call.orig /\ UNCHANGED <<backend, committed>> /\ call.phase = "running"
        BY <2>3, <3>1 DEF EndPass
      <3>3. QED
        BY <3>2, SameStorage
    <2>4. /\ call.phase = "idle" /\ commit_on_success => CurrentStorage = CommittedStorage
          /\ call.phase = "running" /\ commit_on_success => StorageOver(call.orig) = CommittedStorage
      BY NothingProspective DEF Inv, Phases, CommittedStorage
    <2>5. QED
      BY <2>1, <2>2, <2>3, <2>4
  <1>2. QED
    BY <1>1, InvInit, InvNext, PTL DEF Spec, PassesStartClean
===============================================================================
