------------------------- MODULE BlockExecutionProofs -------------------------
(***************************************************************************)
(* For any number of nodes, stores, accounts, extrinsics and any strategy  *)
(* of execution: the header of a block commits to exactly its extrinsics,  *)
(* with no note of them left in its state (ExtrinsicsRootMatches, NoLeak). *)
(*                                                                         *)
(* It takes an invariant of the block under construction: the notes in     *)
(* ExtrinsicData are those of the pushed extrinsics, in order, and         *)
(* EXTRINSIC_INDEX is their number.  It is kept because the runtime api    *)
(* discards the changes, the note included, of an extrinsic that failed,   *)
(* and because the state a block starts from, the one its parent's header  *)
(* commits to (StatesOK), holds no note.                                   *)
(***************************************************************************)
EXTENDS BlockExecution, TLAPS

(* What nothing but note_extrinsic, note_applied_extrinsic and the start   *)
(* and the end of a block changes.                                         *)
SameNotes(st, t) ==
  /\ DOMAIN t = DOMAIN st
  /\ t.EXTRINSIC_INDEX = st.EXTRINSIC_INDEX
  /\ t.ExtrinsicData = st.ExtrinsicData

StorageFields ==
  {"AccountNonce", "ExtrinsicCount", "AllExtrinsicsWeight", "AllExtrinsicsLen", "BlockHash",
   "ExtrinsicData", "Number", "ParentHash", "ExtrinsicsRoot", "Events", "EventCount",
   "EXTRINSIC_INDEX", "Data"}

(* An Option that holds a value unwraps to it. *)
LEMMA UnwrapSome == ASSUME NEW x PROVE unwrap_or_default({x}) = x
BY DEF unwrap_or_default

(* Depositing an event touches neither the notes nor the index. *)
LEMMA DepositKeeps ==
  ASSUME NEW st, DOMAIN st = StorageFields, NEW e
  PROVE  SameNotes(st, deposit_event(st, e))
BY DEF SameNotes, deposit_event, StorageFields

(* Neither does CheckNonce. *)
LEMMA CheckNonceKeeps ==
  ASSUME NEW st, DOMAIN st = StorageFields, NEW xt
  PROVE  SameNotes(st, CheckNonce(st, xt).st)
BY DEF SameNotes, CheckNonce, Checked, Refused, StorageFields

(* Nor CheckWeight, which checks the length and then the weight. *)
LEMMA CheckWeightKeeps ==
  ASSUME NEW st, DOMAIN st = StorageFields, NEW xt
  PROVE  SameNotes(st, CheckWeight(st, xt).st)
<1>1. ASSUME NEW s, DOMAIN s = StorageFields
      PROVE  SameNotes(s, check_block_length(s, xt).st)
  <2> DEFINE len == saturating_add(unwrap_or_default(s.AllExtrinsicsLen), xt.len)
  <2> HIDE DEF len
  <2>1. check_block_length(s, xt).st \in {s, [s EXCEPT !.AllExtrinsicsLen = {len}]}
    BY DEF check_block_length, Checked, Refused, len
  <2> QED BY <1>1, <2>1 DEF SameNotes, StorageFields
<1>2. ASSUME NEW s, DOMAIN s = StorageFields
      PROVE  SameNotes(s, check_weight(s, xt).st)
  <2> DEFINE limit  == WeightLimit(xt.class)
             weight == saturating_add(unwrap_or_default(s.AllExtrinsicsWeight),
                                      minimum(xt.weight, limit))
  <2>0. check_weight(s, xt) = IF weight > limit THEN Refused(s, "ExhaustsResources")
                              ELSE Checked([s EXCEPT !.AllExtrinsicsWeight = {weight}])
    BY DEF check_weight
  <2> HIDE DEF limit, weight
  <2>1. check_weight(s, xt).st \in {s, [s EXCEPT !.AllExtrinsicsWeight = {weight}]}
    BY <2>0 DEF Checked, Refused
  <2> QED BY <1>2, <2>1 DEF SameNotes, StorageFields
<1>3. SameNotes(st, check_block_length(st, xt).st) BY <1>1
<1>4. SameNotes(check_block_length(st, xt).st, check_weight(check_block_length(st, xt).st, xt).st)
  BY <1>2, <1>3, SMTT(30) DEF SameNotes
<1> QED BY <1>3, <1>4 DEF CheckWeight, SameNotes

(* So no signed extension does. *)
LEMMA PreDispatchKeeps ==
  ASSUME NEW st, DOMAIN st = StorageFields, NEW xt
  PROVE  SameNotes(st, pre_dispatch(st, xt).st)
<1>1. SameNotes(st, CheckNonce(st, xt).st) BY CheckNonceKeeps
<1>2. SameNotes(CheckNonce(st, xt).st, CheckWeight(CheckNonce(st, xt).st, xt).st)
  BY <1>1, CheckWeightKeeps DEF SameNotes
<1> QED BY <1>1, <1>2 DEF pre_dispatch, SameNotes, Checked

(* A call of the pallet changes Data and deposits events. *)
LEMMA DispatchKeeps ==
  ASSUME NEW st, DOMAIN st = StorageFields, NEW e, NEW xt
  PROVE  SameNotes(st, Dispatched(st, e, xt).st)
<1> DEFINE r == dispatch([Data |-> st.Data, ext |-> e, events |-> <<>>], xt.signer, xt.call)
           s == [st EXCEPT !.Data = r.state.Data]
<1>1. Dispatched(st, e, xt).st = DepositGetData(s, r.state.events) BY DEF Dispatched
<1> HIDE DEF r
<1>2. DOMAIN s = StorageFields /\ SameNotes(st, s) BY DEF SameNotes, StorageFields
<1> HIDE DEF s
<1>3. SameNotes(s, DepositGetData(s, r.state.events))
  BY <1>2, DepositKeeps DEF DepositGetData, SameNotes
<1> QED BY <1>1, <1>2, <1>3 DEF SameNotes

(* The notes of the extrinsics xts, and nothing else, are in st. *)
NotesOf(st, xts) ==
  /\ st.EXTRINSIC_INDEX = {Len(xts)}
  /\ DOMAIN st.ExtrinsicData = 0 .. Len(xts) - 1
  /\ \A i \in 1 .. Len(xts) : st.ExtrinsicData[i - 1] = xts[i]

(* t is st with xt noted at k and the index moved on. *)
NotedAt(st, t, k, xt) ==
  /\ DOMAIN t = StorageFields
  /\ t.EXTRINSIC_INDEX = {k + 1}
  /\ t.ExtrinsicData = insert(st.ExtrinsicData, k, xt)

(* Applying an extrinsic with success notes it and moves the index on by   *)
(* one, whatever the signed extensions and the dispatch do.                *)
LEMMA ApplyNotes ==
  ASSUME NEW st, DOMAIN st = StorageFields, NEW e, NEW xt, NEW k \in Nat,
         st.EXTRINSIC_INDEX = {k},
         apply_extrinsic_with_len(st, e, xt, TRUE).res = "Ok"
  PROVE  NotedAt(st, apply_extrinsic_with_len(st, e, xt, TRUE).st, k, xt)
<1> DEFINE noted == note_extrinsic(st, xt)
           pre   == pre_dispatch(noted, xt)
           d     == Dispatched(pre.st, e, xt)
           t     == note_applied_extrinsic(d.st, d.res)
           r     == apply_extrinsic_with_len(st, e, xt, TRUE)
<1>1. /\ DOMAIN noted = StorageFields
      /\ noted.EXTRINSIC_INDEX = {k}
      /\ noted.ExtrinsicData = insert(st.ExtrinsicData, k, xt)
  BY UnwrapSome, SMTT(30) DEF note_extrinsic, StorageFields
<1>2. r.st = t
  <2>1. r = IF xt.proof = "bad"
              THEN [st |-> st, ext |-> e, res |-> "BadProof"]
              ELSE CASE pre.res # "Ok" -> [st |-> pre.st, ext |-> e, res |-> pre.res]
                     [] pre.res = "Ok" /\ d.res = "Panic" -> d
                     [] pre.res = "Ok" /\ d.res # "Panic" ->
                          [st |-> t, ext |-> d.ext, res |-> "Ok"]
    BY DEF apply_extrinsic_with_len
  <2> HIDE DEF noted, pre, d, t, r
  <2>2. r.res = "Ok" BY ZenonT(60) DEF r
  <2>3. xt.proof # "bad" BY <2>1, <2>2
  <2>4. pre.res = "Ok" BY <2>1, <2>2, <2>3
  <2>5. d.res # "Panic" BY <2>1, <2>2, <2>3, <2>4
  <2> QED BY <2>1, <2>3, <2>4, <2>5
<1>3. SameNotes(noted, pre.st) BY <1>1, PreDispatchKeeps
<1>4. DOMAIN pre.st = StorageFields BY <1>1, <1>3 DEF SameNotes
<1>5. SameNotes(pre.st, d.st) BY <1>4, DispatchKeeps
<1>6. DOMAIN d.st = StorageFields BY <1>4, <1>5, SMTT(30) DEF SameNotes
<1>7. d.st.EXTRINSIC_INDEX = {k} /\ d.st.ExtrinsicData = insert(st.ExtrinsicData, k, xt)
  BY <1>1, <1>3, <1>5 DEF SameNotes
<1> HIDE DEF noted, pre, d, r
<1> DEFINE f == deposit_event(d.st, IF d.res = "Ok" THEN <<"ExtrinsicSuccess">>
                                                     ELSE <<"ExtrinsicFailed", d.res>>)
<1>8. t = [f EXCEPT !.EXTRINSIC_INDEX = {unwrap_or_default(f.EXTRINSIC_INDEX) + 1}]
  BY DEF note_applied_extrinsic
<1>9. SameNotes(d.st, f) BY <1>6, DepositKeeps
<1> HIDE DEF t, f
<1>10. unwrap_or_default(f.EXTRINSIC_INDEX) = k BY <1>7, <1>9, UnwrapSome DEF SameNotes
<1>11. /\ DOMAIN f = StorageFields
       /\ f.ExtrinsicData = insert(st.ExtrinsicData, k, xt)
  BY <1>6, <1>7, <1>9 DEF SameNotes
<1>12. /\ DOMAIN t = StorageFields
       /\ t.EXTRINSIC_INDEX = {k + 1}
       /\ t.ExtrinsicData = insert(st.ExtrinsicData, k, xt)
  BY <1>8, <1>10, <1>11 DEF StorageFields
<1> QED BY <1>2, <1>12, ZenonT(60) DEF r, NotedAt

(* A push that succeeds extends the notes as it extends the extrinsics. *)
LEMMA PushNotes ==
  ASSUME NEW st, DOMAIN st = StorageFields, NEW e, NEW xt \in Xt, NEW xts \in Seq(Xt),
         NotesOf(st, xts), apply_extrinsic_with_len(st, e, xt, TRUE).res = "Ok"
  PROVE  LET t == apply_extrinsic_with_len(st, e, xt, TRUE).st IN
         DOMAIN t = StorageFields /\ NotesOf(t, Append(xts, xt))
<1> DEFINE t == apply_extrinsic_with_len(st, e, xt, TRUE).st
<1>1. Len(xts) \in Nat /\ st.EXTRINSIC_INDEX = {Len(xts)} BY DEF NotesOf
<1>2. /\ DOMAIN t = StorageFields
      /\ t.EXTRINSIC_INDEX = {Len(xts) + 1}
      /\ t.ExtrinsicData = insert(st.ExtrinsicData, Len(xts), xt)
  <2>1. PICK k \in Nat : k = Len(xts) BY <1>1
  <2>2. st.EXTRINSIC_INDEX = {k} BY <1>1, <2>1
  <2>3. NotedAt(st, t, k, xt) BY <2>2, ApplyNotes, ZenonT(60)
  <2> QED BY <2>1, <2>3, ZenonT(60) DEF NotedAt
<1> HIDE DEF t
<1>3. Len(Append(xts, xt)) = Len(xts) + 1 OBVIOUS
<1>4. DOMAIN t.ExtrinsicData = 0 .. Len(xts) BY <1>1, <1>2 DEF insert, NotesOf
<1>5. ASSUME NEW i \in 1 .. Len(xts) + 1 PROVE t.ExtrinsicData[i - 1] = Append(xts, xt)[i]
  <2>1. CASE i = Len(xts) + 1 BY <1>1, <1>2, <2>1 DEF insert
  <2>2. CASE i \in 1 .. Len(xts) BY <1>1, <1>2, <2>2 DEF insert, NotesOf
  <2> QED BY <1>1, <2>1, <2>2
<1>6. NotesOf(t, Append(xts, xt)) BY <1>1, <1>2, <1>3, <1>4, <1>5 DEF NotesOf
<1> QED BY <1>2, <1>6, ZenonT(60) DEF t

(* At the end of the block the notes become the extrinsics root and leave  *)
(* the storage.                                                            *)
LEMMA BakeNotes ==
  ASSUME NEW st, DOMAIN st = StorageFields, NEW xts \in Seq(Xt), NotesOf(st, xts)
  PROVE  LET h == HeaderOf(derive_extrinsics(note_finished_extrinsics(st))) IN
         /\ h.extrinsics_root = xts
         /\ DOMAIN h.state_root = StorageFields
         /\ h.state_root.ExtrinsicData = EmptyMap
         /\ h.state_root.ExtrinsicCount = {} /\ h.state_root.EXTRINSIC_INDEX = {}
         /\ h.state_root.AllExtrinsicsWeight = {} /\ h.state_root.AllExtrinsicsLen = {}
<1> DEFINE f == note_finished_extrinsics(st)
           g == derive_extrinsics(f)
           h == HeaderOf(g)
           n == Len(xts)
<1>1. n \in Nat OBVIOUS
<1>2. /\ DOMAIN f = StorageFields /\ f.EXTRINSIC_INDEX = {} /\ f.ExtrinsicCount = {n}
      /\ f.ExtrinsicData = st.ExtrinsicData
  BY UnwrapSome, ZenonT(60) DEF note_finished_extrinsics, StorageFields, NotesOf
<1>3. unwrap_or_default(f.ExtrinsicCount) = n BY <1>2, UnwrapSome, ZenonT(60)
<1> HIDE DEF f
<1>4. /\ DOMAIN g = StorageFields /\ g.EXTRINSIC_INDEX = {}
      /\ g.ExtrinsicsRoot = {[i \in 1 .. n |-> f.ExtrinsicData[i - 1]]}
      /\ g.ExtrinsicData = [i \in DOMAIN f.ExtrinsicData \ (0 .. n - 1) |-> f.ExtrinsicData[i]]
  BY <1>2, <1>3, ZenonT(60) DEF derive_extrinsics, StorageFields
<1> HIDE DEF g
<1>5. [i \in 1 .. n |-> f.ExtrinsicData[i - 1]] = xts
  <2>1. \A i \in 1 .. n : f.ExtrinsicData[i - 1] = xts[i] BY <1>2 DEF NotesOf
  <2>2. xts = [i \in 1 .. n |-> xts[i]] OBVIOUS
  <2> QED BY <2>1, <2>2
<1>6. DOMAIN f.ExtrinsicData \ (0 .. n - 1) = {} BY <1>2 DEF NotesOf
<1>7. g.ExtrinsicData = EmptyMap BY <1>4, <1>6 DEF EmptyMap
<1>8. h.extrinsics_root = xts BY <1>4, <1>5 DEF HeaderOf
<1>9. h.state_root = Finalized(g) BY DEF HeaderOf
<1> HIDE DEF h
<1>10. /\ DOMAIN h.state_root = StorageFields
       /\ h.state_root.ExtrinsicData = EmptyMap
       /\ h.state_root.ExtrinsicCount = {} /\ h.state_root.EXTRINSIC_INDEX = {}
       /\ h.state_root.AllExtrinsicsWeight = {} /\ h.state_root.AllExtrinsicsLen = {}
  BY <1>4, <1>7, <1>9 DEF Finalized, StorageFields
<1> QED BY <1>8, <1>10 DEF h, g, f

-------------------------------------------------------------------------------
(* The inductive invariant.                                                *)

IsSeq(s) == \E S : s \in Seq(S)

(* Blocks form a sequence; the state of each has the fields of the storage *)
(* and no notes, genesis included.                                         *)
BlocksOK ==
  /\ IsSeq(blocks) /\ Len(blocks) >= 1
  /\ \A h \in Hash : /\ DOMAIN blocks[h].state_root = StorageFields
                     /\ blocks[h].state_root.ExtrinsicData = EmptyMap

NodesOK ==
  /\ DOMAIN states = Node /\ DOMAIN best = Node
  /\ DOMAIN builder = Node /\ DOMAIN importer = Node
  /\ \A n \in Node : /\ DOMAIN states[n] \subseteq Hash /\ best[n] \in DOMAIN states[n]
                     /\ \A i \in importer[n] : i.block \in Hash

(* The notes of a block under construction are those of its extrinsics.    *)
BuildersOK ==
  \A n \in Node : \A b \in builder[n] :
    /\ DOMAIN b = {"parent", "xts", "tried", "again", "st"}
    /\ b.xts \in Seq(Xt)
    /\ DOMAIN b.st = StorageFields
    /\ NotesOf(b.st, b.xts)

(* A node stores a block with the state that its header commits to.        *)
StatesOK ==
  \A n \in Node : \A h \in DOMAIN states[n] : states[n][h] = blocks[h].state_root

Inv == BlocksOK /\ NodesOK /\ BuildersOK /\ StatesOK /\ ExtrinsicsRootMatches /\ NoLeak

(* A sequence keeps its elements when another one is appended. *)
LEMMA AppendFacts ==
  ASSUME NEW s, IsSeq(s), NEW e
  PROVE  /\ IsSeq(Append(s, e)) /\ Len(s) \in Nat
         /\ Len(Append(s, e)) = Len(s) + 1
         /\ \A i \in 1 .. Len(s) : Append(s, e)[i] = s[i]
         /\ Append(s, e)[Len(s) + 1] = e
<1>1. PICK S : s \in Seq(S) BY DEF IsSeq
<1>2. DEFINE T == S \cup {e}
<1>3. s \in Seq(T) /\ e \in T BY <1>1
<1> HIDE DEF T
<1>4. Append(s, e) \in Seq(T) BY <1>3
<1> QED BY <1>3, <1>4 DEF IsSeq

LEMMA InitInv == Init => Inv
<1> SUFFICES ASSUME Init PROVE Inv OBVIOUS
<1>1. GenesisBlock \in {GenesisBlock} /\ blocks \in Seq({GenesisBlock}) /\ Len(blocks) = 1
      /\ blocks[1] = GenesisBlock
  BY DEF Init
<1>2. Hash = {Genesis} BY <1>1, SMTT(30) DEF Hash, Genesis
<1>3. /\ DOMAIN GenesisStorage = StorageFields
      /\ GenesisStorage.ExtrinsicData = EmptyMap
  BY DEF GenesisStorage, StorageFields
<1>4. GenesisBlock.state_root = GenesisStorage /\ GenesisBlock.extrinsics_root = GenesisBlock.xts
  BY DEF GenesisBlock
<1>5. BlocksOK BY <1>1, <1>2, <1>3, <1>4 DEF BlocksOK, IsSeq, Genesis
<1>6. \A n \in Node : DOMAIN states[n] = {Genesis} /\ states[n][Genesis] = GenesisStorage
  BY DEF Init, insert, EmptyMap
<1>7. NodesOK BY <1>2, <1>6 DEF Init, NodesOK
<1>8. BuildersOK BY DEF Init, BuildersOK
<1>9. StatesOK BY <1>1, <1>4, <1>6 DEF StatesOK, Genesis
<1>10. ExtrinsicsRootMatches BY <1>1, <1>2, <1>4 DEF ExtrinsicsRootMatches, Genesis
<1>11. NoLeak BY <1>2, SMTT(30) DEF NoLeak
<1> QED BY <1>5, <1>7, <1>8, <1>9, <1>10, <1>11 DEF Inv

(* Steps that leave the blocks alone. *)
LEMMA BlocksUnchanged ==
  ASSUME Inv, UNCHANGED blocks
  PROVE  (BlocksOK /\ ExtrinsicsRootMatches /\ NoLeak)' /\ Hash' = Hash
BY DEF Inv, BlocksOK, ExtrinsicsRootMatches, NoLeak, Hash

LEMMA NewBlockInv == ASSUME Inv, NEW n \in Node, NewBlock(n) PROVE Inv'
<1> DEFINE p == best[n]
           st == states[n][p]
           t  == initialize_block(st, blocks[p].number + 1, p, <<>>)
<1>1. builder' = [builder EXCEPT ![n] =
        {[parent |-> p, xts |-> <<>>, tried |-> {}, again |-> {}, st |-> t]}]
  BY DEF NewBlock
<1>2. UNCHANGED <<blocks, states, best, importer>> BY DEF NewBlock
<1>3. DOMAIN st = StorageFields /\ st.ExtrinsicData = EmptyMap
  BY DEF Inv, NodesOK, BlocksOK, StatesOK
<1> HIDE DEF st, p
<1>4. DOMAIN t = StorageFields /\ t.ExtrinsicData = EmptyMap /\ t.EXTRINSIC_INDEX = {0}
  BY <1>3, ZenonT(60) DEF initialize_block, register_extra_weight_unchecked, initialize, StorageFields
<1> HIDE DEF t
<1>5. <<>> \in Seq(Xt) /\ Len(<<>>) = 0 OBVIOUS
<1>6. NotesOf(t, <<>>) BY <1>4, <1>5 DEF NotesOf, EmptyMap
<1> DEFINE job == [parent |-> p, xts |-> <<>>, tried |-> {}, again |-> {}, st |-> t]
<1>7. BuildersOK'
  <2>1. /\ DOMAIN job = {"parent", "xts", "tried", "again", "st"}
        /\ job.xts \in Seq(Xt) /\ DOMAIN job.st = StorageFields /\ NotesOf(job.st, job.xts)
    BY <1>4, <1>5, <1>6
  <2>2. builder' = [builder EXCEPT ![n] = {job}] BY <1>1, SMTT(30)
  <2> HIDE DEF job
  <2> QED BY <2>1, <2>2 DEF Inv, BuildersOK, NodesOK
<1>8. NodesOK' BY <1>1, <1>2, BlocksUnchanged DEF Inv, NodesOK
<1>9. StatesOK' BY <1>2 DEF Inv, StatesOK
<1> QED BY <1>2, <1>7, <1>8, <1>9, BlocksUnchanged DEF Inv

LEMMA PushInv == ASSUME Inv, NEW n \in Node, NEW xt \in Xt, Push(n, xt) PROVE Inv'
<1>1. PICK b \in builder[n] :
        LET r == apply_extrinsic_with_len(b.st, ext[StoreOf[n]], xt, TRUE) IN
        builder' = [builder EXCEPT ![n] =
          IF RunsAgain(block_construction[n], b.again = {}, r.res # "Panic")
            THEN {[b EXCEPT !.again = {xt}]}
            ELSE {[parent |-> b.parent, tried |-> b.tried \cup {xt}, again |-> {},
                   st |-> Committed(r, b.st),
                   xts |-> IF r.res = "Ok" THEN Append(b.xts, xt) ELSE b.xts]}]
  BY ZenonT(60) DEF Push
<1>2. UNCHANGED <<blocks, states, best, importer>> BY DEF Push
<1> DEFINE e == ext[StoreOf[n]]
           r == apply_extrinsic_with_len(b.st, e, xt, TRUE)
           c == Committed(r, b.st)
           x == IF r.res = "Ok" THEN Append(b.xts, xt) ELSE b.xts
<1>3. b.xts \in Seq(Xt) /\ DOMAIN b.st = StorageFields /\ NotesOf(b.st, b.xts)
  BY DEF Inv, BuildersOK
<1>4. x \in Seq(Xt) /\ DOMAIN c = StorageFields /\ NotesOf(c, x)
  <2>1. CASE r.res = "Ok"
    <3>1. DOMAIN r.st = StorageFields /\ NotesOf(r.st, Append(b.xts, xt))
      BY <1>3, <2>1, PushNotes, ZenonT(60)
    <3>2. c = r.st /\ x = Append(b.xts, xt) BY <2>1 DEF Committed
    <3>3. Append(b.xts, xt) \in Seq(Xt) BY <1>3, SMTT(30)
    <3> HIDE DEF r, c, x
    <3> QED BY <3>1, <3>2, <3>3
  <2>2. CASE r.res # "Ok" BY <1>3, <2>2 DEF Committed
  <2> QED BY <2>1, <2>2, ZenonT(60)
<1> DEFINE again == [b EXCEPT !.again = {xt}]
           done  == [parent |-> b.parent, tried |-> b.tried \cup {xt}, again |-> {},
                     st |-> c, xts |-> x]
<1>5. \E job \in {again, done} : builder' = [builder EXCEPT ![n] = {job}]
  BY <1>1, ZenonT(60)
<1> HIDE DEF r, c, x
<1>6. BuildersOK'
  <2>1. \A job \in {again, done} : /\ DOMAIN job = {"parent", "xts", "tried", "again", "st"}
                                   /\ job.xts \in Seq(Xt)
                                   /\ DOMAIN job.st = StorageFields
                                   /\ NotesOf(job.st, job.xts)
    <3>1. DOMAIN b = {"parent", "xts", "tried", "again", "st"} BY DEF Inv, BuildersOK
    <3>2. again.xts = b.xts /\ again.st = b.st /\ DOMAIN again = DOMAIN b BY <3>1
    <3>3. done.xts = x /\ done.st = c
          /\ DOMAIN done = {"parent", "xts", "tried", "again", "st"}
      BY SMTT(30)
    <3> HIDE DEF again, done
    <3> QED BY <1>3, <1>4, <3>1, <3>2, <3>3
  <2> HIDE DEF again, done
  <2> QED BY <1>5, <2>1 DEF Inv, BuildersOK, NodesOK
<1> HIDE DEF again, done
<1>7. NodesOK' BY <1>2, <1>5, BlocksUnchanged DEF Inv, NodesOK
<1>8. StatesOK' BY <1>2 DEF Inv, StatesOK
<1> QED BY <1>2, <1>6, <1>7, <1>8, BlocksUnchanged, SMTT(30) DEF Inv

LEMMA BakeInv == ASSUME Inv, NEW n \in Node, Bake(n) PROVE Inv'
<1>1. PICK b \in builder[n] :
        LET h == HeaderOf(derive_extrinsics(note_finished_extrinsics(b.st))) IN
        blocks' = Append(blocks,
          [number |-> h.number, parent |-> h.parent, extrinsics_root |-> h.extrinsics_root,
           state_root |-> h.state_root, xts |-> b.xts, author |-> n])
  BY ZenonT(60) DEF Bake
<1>2. builder' = [builder EXCEPT ![n] = {}] /\ UNCHANGED <<states, best, importer>>
  BY SMTT(30) DEF Bake
<1> DEFINE h == HeaderOf(derive_extrinsics(note_finished_extrinsics(b.st)))
           k == [number |-> h.number, parent |-> h.parent, extrinsics_root |-> h.extrinsics_root,
                 state_root |-> h.state_root, xts |-> b.xts, author |-> n]
<1>3. b.xts \in Seq(Xt) /\ DOMAIN b.st = StorageFields /\ NotesOf(b.st, b.xts)
  BY SMTT(30) DEF Inv, BuildersOK
<1>4. /\ h.extrinsics_root = b.xts
      /\ DOMAIN h.state_root = StorageFields
      /\ h.state_root.ExtrinsicData = EmptyMap
      /\ h.state_root.ExtrinsicCount = {} /\ h.state_root.EXTRINSIC_INDEX = {}
      /\ h.state_root.AllExtrinsicsWeight = {} /\ h.state_root.AllExtrinsicsLen = {}
  BY <1>3, BakeNotes, SMTT(30)
<1>5. blocks' = Append(blocks, k) BY <1>1, SMTT(30)
<1> HIDE DEF h
<1>6. k.extrinsics_root = k.xts /\ k.state_root = h.state_root BY <1>4
<1> HIDE DEF k
<1>7. /\ IsSeq(blocks') /\ Len(blocks) \in Nat /\ Len(blocks') = Len(blocks) + 1
      /\ \A i \in 1 .. Len(blocks) : blocks'[i] = blocks[i]
      /\ blocks'[Len(blocks) + 1] = k
  BY <1>5, AppendFacts DEF Inv, BlocksOK
<1>8. /\ Hash' = Hash \cup {Len(blocks) + 1}
      /\ \A i \in Hash : blocks'[i] = blocks[i]
  BY <1>7, SMTT(30) DEF Hash
<1>9. BlocksOK' BY <1>4, <1>6, <1>7, <1>8, SMTT(30) DEF Inv, BlocksOK
<1>10. NodesOK' BY <1>2, <1>8, SMTT(30) DEF Inv, NodesOK
<1>11. BuildersOK' BY <1>2, SMTT(30) DEF Inv, BuildersOK, NodesOK
<1>12. StatesOK' BY <1>2, <1>8 DEF Inv, StatesOK, NodesOK
<1>13. ExtrinsicsRootMatches' BY <1>6, <1>7, <1>8, SMTT(30) DEF Inv, ExtrinsicsRootMatches
<1>14. NoLeak' BY <1>4, <1>6, <1>7, <1>8 DEF Inv, NoLeak
<1> QED BY <1>9, <1>10, <1>11, <1>12, <1>13, <1>14 DEF Inv

(* The jobs of an importer stay with a block that is there. *)
LEMMA ImporterChanged ==
  ASSUME Inv, NEW n \in Node, NEW J, \A i \in J : i.block \in Hash,
         importer' = [importer EXCEPT ![n] = J], UNCHANGED <<blocks, states, best, builder>>
  PROVE  Inv'
<1>1. Hash' = Hash BY BlocksUnchanged, SMTT(30)
<1>2. NodesOK' BY <1>1 DEF Inv, NodesOK
<1>3. BuildersOK' BY DEF Inv, BuildersOK
<1>4. StatesOK' BY DEF Inv, StatesOK
<1> QED BY <1>2, <1>3, <1>4, BlocksUnchanged DEF Inv

LEMMA StartImportInv ==
  ASSUME Inv, NEW n \in Node, NEW h \in Hash, StartImport(n, h) PROVE Inv'
<1>1. Pass(n, h, TRUE).block = h BY DEF Pass
<1>2. PICK J \in {{Pass(n, h, TRUE)}, {}} : importer' = [importer EXCEPT ![n] = J]
  BY ZenonT(60) DEF StartImport
<1>3. \A i \in J : i.block \in Hash BY <1>1, <1>2, ZenonT(60)
<1>4. UNCHANGED <<blocks, states, best, builder>> BY DEF StartImport
<1> QED BY <1>2, <1>3, <1>4, ImporterChanged, ZenonT(60)

(* A pass that failed leaves a second pass over the same block, or none. *)
LEMMA PassFailedInv ==
  ASSUME Inv, NEW n \in Node, NEW i \in importer[n], PassFailed(n, i),
         UNCHANGED <<blocks, states, best, builder>>
  PROVE  Inv'
<1>1. Pass(n, i.block, FALSE).block = i.block BY DEF Pass
<1>2. PICK J \in {{Pass(n, i.block, FALSE)}, {}} : importer' = [importer EXCEPT ![n] = J]
  BY ZenonT(60) DEF PassFailed
<1>3. \A j \in J : j.block \in Hash BY <1>1, <1>2, ZenonT(60) DEF Inv, NodesOK
<1> QED BY <1>2, <1>3, ImporterChanged, ZenonT(60)

LEMMA ExecuteInv == ASSUME Inv, NEW n \in Node, Execute(n) PROVE Inv'
<1>1. PICK i \in importer[n] :
        LET r == apply_extrinsic_with_len(i.st, ext[StoreOf[n]], blocks[i.block].xts[i.next], FALSE)
        IN  \/ importer' = [importer EXCEPT ![n] =
                 {[block |-> i.block, next |-> i.next + 1, native |-> i.native, st |-> r.st]}]
            \/ PassFailed(n, i)
  BY ZenonT(60) DEF Execute
<1>2. UNCHANGED <<blocks, states, best, builder>> BY ZenonT(60) DEF Execute
<1> DEFINE r == apply_extrinsic_with_len(i.st, ext[StoreOf[n]], blocks[i.block].xts[i.next], FALSE)
           job == [block |-> i.block, next |-> i.next + 1, native |-> i.native, st |-> r.st]
<1>3. CASE importer' = [importer EXCEPT ![n] = {job}]
  <2>1. job.block = i.block OBVIOUS
  <2> HIDE DEF job
  <2>2. \A j \in {job} : j.block \in Hash BY <2>1 DEF Inv, NodesOK
  <2> QED BY <1>2, <1>3, <2>2, ImporterChanged, ZenonT(60)
<1>4. CASE PassFailed(n, i) BY <1>2, <1>4, PassFailedInv
<1> QED BY <1>1, <1>3, <1>4, ZenonT(60)

LEMMA FinishImportInv == ASSUME Inv, NEW n \in Node, FinishImport(n) PROVE Inv'
<1>1. PICK i \in importer[n] :
        \/ PassFailed(n, i) /\ UNCHANGED <<states, best>>
        \/ /\ importer' = [importer EXCEPT ![n] = {Pass(n, i.block, FALSE)}]
           /\ UNCHANGED <<states, best>>
        \/ /\ importer' = [importer EXCEPT ![n] = {}]
           /\ Imported(n, i.block, blocks[i.block].state_root)
  BY ZenonT(60) DEF FinishImport
<1>2. UNCHANGED <<blocks, builder>> BY SMTT(30) DEF FinishImport
<1>3. Hash' = Hash /\ i.block \in Hash BY <1>2, BlocksUnchanged, SMTT(30) DEF Inv, NodesOK
<1>4. CASE PassFailed(n, i) /\ UNCHANGED <<states, best>>
  BY <1>2, <1>4, PassFailedInv
<1>5. CASE /\ importer' = [importer EXCEPT ![n] = {Pass(n, i.block, FALSE)}]
           /\ UNCHANGED <<states, best>>
  <2>1. \A j \in {Pass(n, i.block, FALSE)} : j.block \in Hash BY <1>3 DEF Pass
  <2> QED BY <1>2, <1>5, <2>1, ImporterChanged, ZenonT(60)
<1>6. CASE /\ importer' = [importer EXCEPT ![n] = {}]
           /\ Imported(n, i.block, blocks[i.block].state_root)
  <2> DEFINE st == blocks[i.block].state_root
  <2>1. states' = [states EXCEPT ![n] = insert(@, i.block, st)] BY <1>6, SMTT(30) DEF Imported
  <2>2. DOMAIN best' = Node /\ \A m \in Node : best'[m] = best[m] \/ (m = n /\ best'[m] = i.block)
    BY <1>6 DEF Imported, Inv, NodesOK
  <2>3. /\ DOMAIN states' = Node
        /\ \A m \in Node : m # n => states'[m] = states[m]
        /\ DOMAIN states'[n] = DOMAIN states[n] \cup {i.block}
        /\ \A h \in DOMAIN states'[n] :
             states'[n][h] = IF h = i.block THEN st ELSE states[n][h]
    BY <2>1, SMTT(30) DEF insert, Inv, NodesOK
  <2>4. NodesOK' BY <1>2, <1>3, <1>6, <2>2, <2>3, SMTT(30) DEF Inv, NodesOK
  <2>5. StatesOK' BY <1>2, <2>3, SMTT(30) DEF Inv, StatesOK
  <2>6. BuildersOK' BY <1>2 DEF Inv, BuildersOK
  <2> QED BY <1>2, <2>4, <2>5, <2>6, BlocksUnchanged, SMTT(30) DEF Inv
<1> QED BY <1>1, <1>4, <1>5, <1>6, ZenonT(60)

LEMMA CrashInv == ASSUME Inv, NEW n \in Node, Crash(n) PROVE Inv'
<1>1. /\ builder' = [builder EXCEPT ![n] = {}] /\ importer' = [importer EXCEPT ![n] = {}]
      /\ UNCHANGED <<blocks, states, best>>
  BY SMTT(30) DEF Crash
<1>2. NodesOK' BY <1>1, BlocksUnchanged, SMTT(30) DEF Inv, NodesOK
<1>3. BuildersOK' BY <1>1 DEF Inv, BuildersOK, NodesOK
<1>4. StatesOK' BY <1>1 DEF Inv, StatesOK
<1> QED BY <1>1, <1>2, <1>3, <1>4, BlocksUnchanged DEF Inv

(* A header, as finalize_block computes it from the notes, commits to the  *)
(* extrinsics that push accepted, in order, and no note of them stays in   *)
(* the state: for any set of nodes, assignment of external stores,         *)
(* extrinsics, weights, limits and strategy of execution.                  *)
THEOREM BlocksConsistent == Spec => [](ExtrinsicsRootMatches /\ NoLeak)
<1>1. Init => Inv BY InitInv
<1>2. Inv /\ [Next]_vars => Inv'
  <2> SUFFICES ASSUME Inv, [Next]_vars PROVE Inv' OBVIOUS
  <2>1. CASE Next
    <3>1. PICK n \in Node :
            \/ NewBlock(n)
            \/ \E xt \in Xt : Push(n, xt)
            \/ Bake(n)
            \/ \E h \in Hash : StartImport(n, h)
            \/ Execute(n)
            \/ FinishImport(n)
            \/ Crash(n)
      BY <2>1 DEF Next
    <3> QED BY <3>1, NewBlockInv, PushInv, BakeInv, StartImportInv, ExecuteInv,
               FinishImportInv, CrashInv
  <2>2. CASE UNCHANGED vars
    <3>1. UNCHANGED <<blocks, states, best, builder, importer>> BY <2>2 DEF vars
    <3>2. NodesOK' BY <3>1, BlocksUnchanged, SMTT(30) DEF Inv, NodesOK
    <3>3. BuildersOK' /\ StatesOK' BY <3>1 DEF Inv, BuildersOK, StatesOK
    <3> QED BY <3>1, <3>2, <3>3, BlocksUnchanged DEF Inv
  <2> QED BY <2>1, <2>2
<1>3. Inv => ExtrinsicsRootMatches /\ NoLeak BY DEF Inv
<1> QED BY <1>1, <1>2, <1>3, PTL DEF Spec
===============================================================================
