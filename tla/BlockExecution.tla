---------------------------- MODULE BlockExecution ----------------------------
(***************************************************************************)
(* Nodes that author and import blocks whose extrinsics call the pallet    *)
(* offchain-storage.  Composes the pallet (OffchainStorage), the system    *)
(* pallet and the executive (FrameSystem), the block builder               *)
(* (client/block-builder) and the import of a block by executing it        *)
(* (client/src/client.rs).                                                 *)
(*                                                                         *)
(* The storage of the chain is transactional: the runtime api discards the *)
(* changes of a call that failed, and a block that fails to execute leaves *)
(* nothing behind.  The external store is not: it is changed at once, by   *)
(* every execution of a call, whatever becomes of the block.  A node       *)
(* executes each extrinsic when it builds a block and again when it        *)
(* imports one, its own blocks included, and the two run in different      *)
(* threads; so a step here executes one extrinsic.  Each of these two may  *)
(* itself run twice, in the native runtime and then in the wasm one: the   *)
(* second pass starts from the storage the first one started from, but     *)
(* meets the external store as the first one left it.                      *)
(***************************************************************************)
EXTENDS FrameSystem, FiniteSets

CONSTANTS Node, NoNode, Store,
          Author,      \* the nodes that author blocks
          StoreOf,     \* the external store each node's runtime is linked to
          block_construction, importing,   \* node -> its ExecutionStrategies
          Xt,          \* the extrinsics that are ever submitted
          MaxBlocks    \* bound: how many blocks there are, genesis included

ASSUME NodeAssumption == /\ StoreOf \in [Node -> Store] /\ Author \subseteq Node
                         /\ MaxBlocks \in Nat

ASSUME StrategyAssumption ==
  {block_construction, importing}
    \subseteq [Node -> {"NativeWhenPossible", "AlwaysWasm", "Both", "NativeElseWasm"}]

ASSUME XtAssumption ==
  Xt \subseteq [signer : AccountId \cup {NoneOrigin}, nonce : Nat, call : Call,
                class : {"Normal", "Operational"}, weight : Nat, len : Nat,
                proof : {"good", "bad"}]

VARIABLES blocks,     \* all blocks; a block's hash is its index; 1 is genesis
          states,     \* node -> block hash -> storage after that block
          best,       \* node -> its best block
          ext,        \* store -> data id -> value
          builder,    \* node -> set of at most one block under construction
          importer,   \* node -> set of at most one block being executed
          rejected    \* history: <<node, hash>> of blocks that failed to import

vars == <<blocks, states, best, ext, builder, importer, rejected>>

Genesis == 1

GenesisBlock == [number |-> 0, parent |-> Hash69, extrinsics_root |-> <<>>,
                 state_root |-> GenesisStorage, xts |-> <<>>,
                 author |-> NoNode]

Hash == 1 .. Len(blocks)

Init ==
  /\ blocks = <<GenesisBlock>>
  /\ states = [n \in Node |-> insert(EmptyMap, Genesis, GenesisStorage)]
  /\ best = [n \in Node |-> Genesis]
  /\ ext = [s \in Store |-> EmptyMap]
  /\ builder = [n \in Node |-> {}]
  /\ importer = [n \in Node |-> {}]
  /\ rejected = {}

(* A call whose first pass, in the native runtime, ended (without an error *)
(* if ok) runs again in the wasm runtime.  The result of the last pass is  *)
(* the result of the call: with "Both" the handler of a disagreement       *)
(* answers what wasm did.                                                  *)
RunsAgain(strategy, native, ok) ==
  native /\ (strategy = "Both" \/ (strategy = "NativeElseWasm" /\ ~ok))

-------------------------------------------------------------------------------
(* Authoring.                                                              *)

(* BlockBuilder::new on top of the best block.  The extrinsics root of the *)
(* header is the default until the block is baked.                         *)
NewBlock(n) ==
  /\ n \in Author /\ builder[n] = {}
  /\ Len(blocks) < MaxBlocks
  /\ LET p == best[n] IN
     builder' = [builder EXCEPT ![n] =
       {[parent |-> p, xts |-> <<>>, tried |-> {}, again |-> {},
         st |-> initialize_block(states[n][p], blocks[p].number + 1, p, <<>>)]}]
  /\ UNCHANGED <<blocks, states, best, ext, importer, rejected>>

(* What the runtime api leaves in the overlay of the builder after a call. *)
Committed(r, st) == IF r.res = "Ok" THEN r.st ELSE st

(* BlockBuilder::push, one pass of its call: the extrinsic is executed,    *)
(* and it joins the block unless that failed.  An extrinsic that is found  *)
(* invalid is a result of the call, only a panic is an error of it.        *)
(* b.again is the extrinsic whose second pass is due.  The proposer takes  *)
(* every extrinsic of the pool at most once.                               *)
Push(n, xt) ==
  \E b \in builder[n] :
    LET r == apply_extrinsic_with_len(b.st, ext[StoreOf[n]], xt, TRUE) IN
    /\ xt \in b.again \/ (b.again = {} /\ xt \notin b.tried)
    /\ ext' = [ext EXCEPT ![StoreOf[n]] = r.ext]
    /\ builder' = [builder EXCEPT ![n] =
         IF RunsAgain(block_construction[n], b.again = {}, r.res # "Panic")
           THEN {[b EXCEPT !.again = {xt}]}
           ELSE {[parent |-> b.parent, tried |-> b.tried \cup {xt}, again |-> {},
                  st |-> Committed(r, b.st),
                  xts |-> IF r.res = "Ok" THEN Append(b.xts, xt) ELSE b.xts]}]
    /\ UNCHANGED <<blocks, states, best, importer, rejected>>

(* BlockBuilder::bake: finalize_block gives the header. *)
Bake(n) ==
  \E b \in builder[n] :
    LET h == HeaderOf(derive_extrinsics(note_finished_extrinsics(b.st))) IN
    /\ b.again = {} /\ Len(blocks) < MaxBlocks
    /\ blocks' = Append(blocks,
         [number |-> h.number, parent |-> h.parent, extrinsics_root |-> h.extrinsics_root,
          state_root |-> h.state_root, xts |-> b.xts, author |-> n])
    /\ builder' = [builder EXCEPT ![n] = {}]
    /\ UNCHANGED <<states, best, ext, importer, rejected>>

-------------------------------------------------------------------------------
(* Importing.                                                              *)

(* The start of a pass of execute_block, with initialize_block. *)
Pass(n, h, native) ==
  LET b == blocks[h] IN
  [block |-> h, next |-> 1, native |-> native,
   st |-> initialize_block(states[n][b.parent], b.number, b.parent, b.extrinsics_root)]

(* The assertions of execute_block before the first extrinsic. *)
initial_checks(b, st) ==
  /\ b.number > 0 /\ getOr(st.BlockHash, b.number - 1, Hash69) = b.parent
  /\ b.extrinsics_root = b.xts

(* apply_block: the parent is known and its state is there, the block is   *)
(* new.  A block that fails initial_checks is rejected: nothing has been   *)
(* executed, a second pass fails them too.                                 *)
(* Bound: a node does not try again a block that it rejected.              *)
StartImport(n, h) ==
  LET i == Pass(n, h, TRUE)
      checked == initial_checks(blocks[h], i.st)
  IN
  /\ importer[n] = {}
  /\ h \notin DOMAIN states[n] /\ <<n, h>> \notin rejected
  /\ blocks[h].parent \in DOMAIN states[n]
  /\ importer' = [importer EXCEPT ![n] = IF checked THEN {i} ELSE {}]
  /\ rejected' = IF checked THEN rejected ELSE rejected \cup {<<n, h>>}
  /\ UNCHANGED <<blocks, states, best, ext, builder>>

(* The pass i ended with a panic: the wasm runtime tries once more, or the *)
(* block is rejected.                                                      *)
PassFailed(n, i) ==
  LET again == RunsAgain(importing[n], i.native, FALSE) IN
  /\ importer' = [importer EXCEPT ![n] = IF again THEN {Pass(n, i.block, FALSE)} ELSE {}]
  /\ rejected' = IF again THEN rejected ELSE rejected \cup {<<n, i.block>>}

(* apply_extrinsic_no_note on the next extrinsic; an error panics, and the *)
(* pass is over.                                                           *)
Execute(n) ==
  \E i \in importer[n] :
    LET xts == blocks[i.block].xts
        r == apply_extrinsic_with_len(i.st, ext[StoreOf[n]], xts[i.next], FALSE)
    IN
    /\ i.next <= Len(xts)
    /\ ext' = [ext EXCEPT ![StoreOf[n]] = r.ext]
    /\ \/ /\ r.res = "Ok"
          /\ importer' = [importer EXCEPT ![n] =
               {[block |-> i.block, next |-> i.next + 1, native |-> i.native, st |-> r.st]}]
          /\ UNCHANGED rejected
       \/ r.res # "Ok" /\ PassFailed(n, i)
    /\ UNCHANGED <<blocks, states, best, builder>>

(* The block is stored with its state, and becomes the best block if it is *)
(* higher than the best one (ForkChoiceStrategy::LongestChain).            *)
Imported(n, h, st) ==
  /\ states' = [states EXCEPT ![n] = insert(@, h, st)]
  /\ best' = [best EXCEPT ![n] =
       IF blocks[h].number > blocks[best[n]].number THEN h ELSE @]

(* After the last extrinsic: note_finished_extrinsics and final_checks,    *)
(* which panics when the state root is not the one of the header; the      *)
(* client compares it once more.                                           *)
FinishImport(n) ==
  \E i \in importer[n] :
    LET st == Finalized(note_finished_extrinsics(i.st))
        root == blocks[i.block].state_root
    IN
    /\ i.next > Len(blocks[i.block].xts)
    /\ \/ st # root /\ PassFailed(n, i) /\ UNCHANGED <<states, best>>
       \/ /\ st = root /\ RunsAgain(importing[n], i.native, TRUE)
          /\ importer' = [importer EXCEPT ![n] = {Pass(n, i.block, FALSE)}]
          /\ UNCHANGED <<states, best, rejected>>
       \/ /\ st = root /\ ~RunsAgain(importing[n], i.native, TRUE)
          /\ importer' = [importer EXCEPT ![n] = {}]
          /\ Imported(n, i.block, st)
          /\ UNCHANGED rejected
    /\ UNCHANGED <<blocks, ext, builder>>

(* The node stops: what it was building or executing is lost, imported     *)
(* blocks are in the database, the external store stays as it is.          *)
Crash(n) ==
  /\ builder[n] # {} \/ importer[n] # {}
  /\ builder' = [builder EXCEPT ![n] = {}]
  /\ importer' = [importer EXCEPT ![n] = {}]
  /\ UNCHANGED <<blocks, states, best, ext, rejected>>

Next ==
  \E n \in Node :
    \/ NewBlock(n)
    \/ \E xt \in Xt : Push(n, xt)
    \/ Bake(n)
    \/ \E h \in Hash : StartImport(n, h)
    \/ Execute(n)
    \/ FinishImport(n)
    \/ Crash(n)

Spec == Init /\ [][Next]_vars

-------------------------------------------------------------------------------
(* The extrinsics of the chain that ends in a block, in order. *)
Chain[h \in Hash] ==
  IF h = Genesis THEN <<>> ELSE Chain[blocks[h].parent] \o blocks[h].xts

(* The hash of the ancestor of h at height k. *)
Ancestor[h \in Hash, k \in 0 .. MaxBlocks] ==
  IF blocks[h].number = k THEN h ELSE Ancestor[blocks[h].parent, k]

(* The counted lengths of the signed extrinsics up to place i of a block,  *)
(* and the weights.                                                        *)
LenUpTo[h \in Hash, i \in 0 .. Cardinality(Xt)] ==
  IF i = 0 THEN 0
           ELSE LET xt == blocks[h].xts[i] IN
                LenUpTo[h, i - 1] + IF xt.signer = NoneOrigin THEN 0 ELSE xt.len

WeightUpTo[h \in Hash, i \in 0 .. Cardinality(Xt)] ==
  IF i = 0 THEN InitializeWeight + FinalizeWeight
           ELSE LET xt == blocks[h].xts[i] IN
                WeightUpTo[h, i - 1] + IF xt.signer = NoneOrigin THEN 0 ELSE xt.weight

(***************************************************************************)
(* What the calls of a chain say of Data on their own, without any store:  *)
(* a write_data enters its id, a delete_data removes it, an extrinsic that *)
(* nobody signed does nothing.  (Every entry has the default access, which *)
(* allows all calls to everybody.)                                         *)
(***************************************************************************)
IdsAfter(ids, xt) ==
  CASE xt.signer = NoneOrigin        -> ids
    [] xt.call.op = "write_data"     -> ids \cup {xt.call.id}
    [] xt.call.op = "delete_data"    -> ids \ {xt.call.id}
    [] OTHER                         -> ids

IdsUpTo[h \in Hash, i \in 0 .. Cardinality(Xt)] ==
  IF i > 0 THEN IdsAfter(IdsUpTo[h, i - 1], blocks[h].xts[i])
           ELSE IF h = Genesis THEN {}
           ELSE IdsUpTo[blocks[h].parent, Len(blocks[blocks[h].parent].xts)]

Outcome(ids, xt) ==
  CASE xt.signer = NoneOrigin                                -> <<"ExtrinsicFailed", "BadOrigin">>
    [] xt.call.op # "write_data" /\ xt.call.id \notin ids    -> <<"ExtrinsicFailed", "NoneData">>
    [] OTHER                                                 -> <<"ExtrinsicSuccess">>

IndicesBy(a, h) == {i \in DOMAIN Chain[h] : Chain[h][i].signer = a}

-------------------------------------------------------------------------------
AtMostOne(o, S) == o \subseteq S /\ Cardinality(o) <= 1

EventSet == {<<"ExtrinsicSuccess">>} \cup {<<"GetData", v>> : v \in Value}
              \cup {<<"ExtrinsicFailed", r>> : r \in {"PermissionDenied", "NoneData", "BadOrigin"}}

StorageOK(st) ==
  /\ st.AccountNonce \in [AccountId -> Nat]
  /\ AtMostOne(st.ExtrinsicCount, Nat) /\ AtMostOne(st.EXTRINSIC_INDEX, Nat)
  /\ AtMostOne(st.AllExtrinsicsWeight, 0 .. MaximumBlockWeight)
  /\ AtMostOne(st.AllExtrinsicsLen, 0 .. MaximumBlockLength)
  /\ AtMostOne(st.Number, Nat) /\ AtMostOne(st.ParentHash, Hash \cup {Hash69})
  /\ AtMostOne(st.ExtrinsicsRoot, Seq(Xt))
  /\ IsMap(st.BlockHash, 0 .. MaxBlocks, Hash \cup {Hash69})
  /\ IsMap(st.ExtrinsicData, 0 .. Cardinality(Xt), Xt)
  /\ st.Events \in Seq([phase : Nat \cup {Finalization}, event : EventSet])
  /\ st.EventCount \in 0 .. EventIndexMax
  /\ IsMap(st.Data, DataId, UserData)

(* The storage of blocks and of jobs in progress has the types of the      *)
(* storage items; weight and length never pass the maximum of a block.     *)
TypeOK ==
  /\ \A h \in Hash : /\ blocks[h].number \in Nat
                     /\ blocks[h].parent \in 1 .. h - 1 \cup {Hash69}
                     /\ blocks[h].xts \in Seq(Xt)
                     /\ StorageOK(blocks[h].state_root)
  /\ \A n \in Node :
       /\ DOMAIN states[n] \subseteq Hash /\ best[n] \in DOMAIN states[n]
       /\ \A b \in builder[n] : /\ b.parent \in Hash /\ AtMostOne(b.again, Xt)
                                 /\ StorageOK(b.st)
       /\ \A i \in importer[n] : /\ i.block \in Hash /\ i.native \in BOOLEAN
                                  /\ StorageOK(i.st)
  /\ \A s \in Store : IsMap(ext[s], DataId, Value)
  /\ rejected \subseteq Node \X Hash

(* What a chain says of its data is decided by its extrinsics alone: the   *)
(* ids in Data and the outcome of every extrinsic are those of the calls   *)
(* in order.  No crash, second pass, abandoned block or other thread that  *)
(* changed the external store while a block was built ever shows in them   *)
(* (only in the values of GetData): a call that misses its external data   *)
(* panics, so the builder drops it, and never enters a block as a failure. *)
ChainDecidesData ==
  \A h \in Hash :
    LET st == blocks[h].state_root
        outcomes == SelectSeq(st.Events, LAMBDA e : e.event[1] # "GetData")
    IN  /\ DOMAIN st.Data = IdsUpTo[h, Len(blocks[h].xts)]
        /\ \A i \in DOMAIN outcomes :
             outcomes[i].event = Outcome(IdsUpTo[h, i - 1], blocks[h].xts[i])

(* CheckNonce, "replay protection": along every chain the extrinsics of an *)
(* account carry the nonces 0, 1, 2 ... in that order, and the stored      *)
(* nonce is their number; an extrinsic is in a chain at most once.         *)
ReplayProtection ==
  \A h \in Hash : \A a \in AccountId :
    /\ blocks[h].state_root.AccountNonce[a] = Cardinality(IndicesBy(a, h))
    /\ \A i \in IndicesBy(a, h) :
         Chain[h][i].nonce = Cardinality({j \in IndicesBy(a, h) : j < i})

(* The header that derive_extrinsics computes commits to the extrinsics    *)
(* that were pushed (debug_assert of bake_impl): the runtime api discards  *)
(* the note of an extrinsic that failed with its other changes, and the    *)
(* note of one that was applied keeps its place.                           *)
ExtrinsicsRootMatches == \A h \in Hash : blocks[h].extrinsics_root = blocks[h].xts

(* No temporary of a block's construction reaches its state: execute_block *)
(* notes no extrinsic, so a leftover would make every import fail.         *)
NoLeak ==
  \A h \in Hash \ {Genesis} :
    LET st == blocks[h].state_root IN
    /\ st.ExtrinsicData = EmptyMap
    /\ st.ExtrinsicCount = {} /\ st.EXTRINSIC_INDEX = {}
    /\ st.AllExtrinsicsWeight = {} /\ st.AllExtrinsicsLen = {}

(* The events of a block tell its extrinsics apart: every extrinsic has    *)
(* exactly one outcome event, it is the last one of its phase, and phases  *)
(* follow the order of the extrinsics.  When the count of events is at its *)
(* maximum, only outcomes at the end of the block are missing.             *)
EventsPerExtrinsic ==
  \A h \in Hash :
    LET st == blocks[h].state_root
        outcomes == SelectSeq(st.Events, LAMBDA e : e.event[1] # "GetData")
    IN  /\ st.EventCount = Len(st.Events)
        /\ Len(outcomes) = Len(blocks[h].xts) \/ st.EventCount = EventIndexMax
        /\ \A i \in DOMAIN outcomes : outcomes[i].phase = i - 1
        /\ \A i, j \in DOMAIN st.Events :
             i < j => \/ st.Events[i].phase < st.Events[j].phase
                      \/ /\ st.Events[i].phase = st.Events[j].phase
                         /\ st.Events[i].event[1] = "GetData"

(* Normal extrinsics leave room for operational ones: a normal extrinsic   *)
(* never takes the block past the normal share of length and weight, and   *)
(* no extrinsic takes it past the maximum.  (Weights: unless a single      *)
(* extrinsic is heavier than the limit: check_weight cuts it to the limit.)*)
WithinLimits ==
  \A h \in Hash : \A i \in DOMAIN blocks[h].xts :
    LET xt == blocks[h].xts[i] IN
    xt.signer # NoneOrigin =>
      /\ LenUpTo[h, i] <= LengthLimit(xt.class)
      /\ \/ WeightUpTo[h, i] <= WeightLimit(xt.class)
         \/ \E j \in 1 .. i : blocks[h].xts[j].weight > WeightLimit(blocks[h].xts[j].class)

(* The state of a block knows the hashes of genesis and of its last        *)
(* BlockHashCount ancestors, and of no other block.                        *)
BlockHashWindow ==
  \A h \in Hash \ {Genesis} :
    LET n  == blocks[h].number
        bh == blocks[h].state_root.BlockHash
    IN  /\ DOMAIN bh = {0} \cup {k \in 0 .. n - 1 : k >= n - BlockHashCount}
        /\ \A k \in DOMAIN bh : bh[k] = Ancestor[h, k]

-------------------------------------------------------------------------------
(* BlockBuilder: "Utility for building new (valid) blocks".  The node that *)
(* built a block does not reject it.                                       *)
BuiltBlocksAreValid == \A n \in Node, h \in Hash : blocks[h].author = n => <<n, h>> \notin rejected
===============================================================================
