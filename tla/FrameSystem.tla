------------------------------ MODULE FrameSystem ------------------------------
(***************************************************************************)
(* The system pallet (frame/system) and the executive (frame/executive):   *)
(* what happens to the storage of the chain while a block is built or      *)
(* executed.  The storage is a record; every function of the code is an    *)
(* operator from the storage before it to the storage after it.  An        *)
(* Option<T> is a set with at most one member.                             *)
(*                                                                         *)
(* Left out: the digest, event topics and the change trie (nothing here    *)
(* reads them), transaction eras (every extrinsic is immortal).  A hash or *)
(* a trie root is the thing hashed; a block hash is a block's place in the *)
(* sequence of all blocks (see BlockExecution).                            *)
(***************************************************************************)
EXTENDS OffchainStorage

CONSTANTS MaximumBlockWeight, MaximumBlockLength,
          NormalBlockWeight,  \* AvailableBlockRatio * MaximumBlockWeight
          NormalBlockLength,  \* AvailableBlockRatio * MaximumBlockLength
          InitializeWeight,   \* WeighBlock::on_initialize of all modules
          FinalizeWeight,     \* WeighBlock::on_finalize of all modules
          BlockHashCount,
          U32Max,             \* 2^32 - 1, the largest weight and length
          EventIndexMax,      \* EventIndex::max_value(), the largest count of events
          Hash69              \* hash69(), the parent of no block

ASSUME SystemAssumption ==
  /\ {MaximumBlockWeight, MaximumBlockLength, U32Max} \subseteq Nat \ {0}
  /\ NormalBlockWeight \in 0 .. MaximumBlockWeight
  /\ NormalBlockLength \in 0 .. MaximumBlockLength
  /\ {InitializeWeight, FinalizeWeight, BlockHashCount, EventIndexMax} \subseteq Nat
  /\ MaximumBlockWeight < U32Max /\ MaximumBlockLength < U32Max

unwrap_or_default(o) == IF o = {} THEN 0 ELSE CHOOSE x \in o : TRUE

minimum(a, b) == IF a <= b THEN a ELSE b

saturating_add(a, b) == minimum(a + b, U32Max)

(* The storage that the genesis configuration builds. *)
GenesisStorage ==
  [AccountNonce |-> [a \in AccountId |-> 0], ExtrinsicCount |-> {},
   AllExtrinsicsWeight |-> {}, AllExtrinsicsLen |-> {},
   BlockHash |-> insert(EmptyMap, 0, Hash69), ExtrinsicData |-> EmptyMap,
   Number |-> {1}, ParentHash |-> {Hash69}, ExtrinsicsRoot |-> {},
   Events |-> <<>>, EventCount |-> 0, EXTRINSIC_INDEX |-> {0},
   Data |-> EmptyMap]

(***************************************************************************)
(* Events.  Beyond the largest index an event is dropped silently.         *)
(***************************************************************************)
Finalization == -1

Phase(st) == IF st.EXTRINSIC_INDEX = {} THEN Finalization
                                        ELSE unwrap_or_default(st.EXTRINSIC_INDEX)

deposit_event(st, event) ==
  IF st.EventCount = EventIndexMax
    THEN st
    ELSE [st EXCEPT !.EventCount = @ + 1,
                    !.Events = Append(@, [phase |-> Phase(st), event |-> event])]

(***************************************************************************)
(* The start of a block.                                                   *)
(***************************************************************************)
register_extra_weight_unchecked(st, weight) ==
  [st EXCEPT !.AllExtrinsicsWeight =
     {minimum(saturating_add(unwrap_or_default(@), weight), MaximumBlockWeight)}]

(* Mutant: the events of the parent block are kept. *)
initialize_KeepsEvents(st, number, parent_hash, txs_root) ==
  [st EXCEPT !.EXTRINSIC_INDEX = {0}, !.Number = {number},
             !.ParentHash = {parent_hash}, !.ExtrinsicsRoot = {txs_root},
             !.BlockHash = insert(@, number - 1, parent_hash)]

initialize(st, number, parent_hash, txs_root) ==
  [st EXCEPT !.EXTRINSIC_INDEX = {0}, !.Number = {number},
             !.ParentHash = {parent_hash}, !.ExtrinsicsRoot = {txs_root},
             !.BlockHash = insert(@, number - 1, parent_hash),
             !.Events = <<>>, !.EventCount = 0]

initialize_block(st, number, parent_hash, txs_root) ==
  register_extra_weight_unchecked(
    register_extra_weight_unchecked(
      initialize(st, number, parent_hash, txs_root), InitializeWeight),
    FinalizeWeight)

(***************************************************************************)
(* Signed extensions.  A check gives the storage after it and "Ok" or the  *)
(* reason the extrinsic cannot be applied.                                 *)
(***************************************************************************)
Checked(st)         == [st |-> st, res |-> "Ok"]
Refused(st, reason) == [st |-> st, res |-> reason]

WeightLimit(class) == IF class = "Operational" THEN MaximumBlockWeight ELSE NormalBlockWeight
LengthLimit(class) == IF class = "Operational" THEN MaximumBlockLength ELSE NormalBlockLength

(* Mutant: a nonce of the future is accepted. *)
CheckNonce_Future(st, xt) ==
  LET expected == st.AccountNonce[xt.signer] IN
  IF xt.nonce < expected THEN Refused(st, "Stale")
                         ELSE Checked([st EXCEPT !.AccountNonce[xt.signer] = expected + 1])

CheckNonce(st, xt) ==
  LET expected == st.AccountNonce[xt.signer] IN
  IF xt.nonce = expected
    THEN Checked([st EXCEPT !.AccountNonce[xt.signer] = expected + 1])
    ELSE Refused(st, IF xt.nonce < expected THEN "Stale" ELSE "Future")

check_block_length(st, xt) ==
  LET next_len == saturating_add(unwrap_or_default(st.AllExtrinsicsLen), xt.len) IN
  IF next_len > LengthLimit(xt.class)
    THEN Refused(st, "ExhaustsResources")
    ELSE Checked([st EXCEPT !.AllExtrinsicsLen = {next_len}])

(* Mutant: the weight so far is compared with the limit, not the weight    *)
(* with this extrinsic.                                                    *)
check_weight_Late(st, xt) ==
  LET current == unwrap_or_default(st.AllExtrinsicsWeight) IN
  IF current > WeightLimit(xt.class)
    THEN Refused(st, "ExhaustsResources")
    ELSE Checked([st EXCEPT !.AllExtrinsicsWeight = {saturating_add(current, xt.weight)}])

check_weight(st, xt) ==
  LET limit       == WeightLimit(xt.class)
      next_weight == saturating_add(unwrap_or_default(st.AllExtrinsicsWeight),
                                    minimum(xt.weight, limit))
  IN  IF next_weight > limit
        THEN Refused(st, "ExhaustsResources")
        ELSE Checked([st EXCEPT !.AllExtrinsicsWeight = {next_weight}])

CheckWeight(st, xt) ==
  LET r == check_block_length(st, xt) IN
  IF r.res = "Ok" THEN check_weight(r.st, xt) ELSE r

(* The tuple of signed extensions.  No extension looks at an unsigned      *)
(* extrinsic, and ValidateUnsigned::pre_dispatch lets the calls of a       *)
(* module that is not listed there pass.                                   *)
pre_dispatch(st, xt) ==
  IF xt.signer = NoneOrigin
    THEN Checked(st)
    ELSE LET r == CheckNonce(st, xt) IN
         IF r.res = "Ok" THEN CheckWeight(r.st, xt) ELSE r

(***************************************************************************)
(* Applying an extrinsic.                                                  *)
(***************************************************************************)
note_extrinsic(st, xt) ==
  [st EXCEPT !.ExtrinsicData = insert(@, unwrap_or_default(st.EXTRINSIC_INDEX), xt)]

(* Mutant: the index moves on only when the dispatch succeeded. *)
note_applied_extrinsic_OnlyOk(st, r) ==
  IF r = "Ok"
    THEN [deposit_event(st, <<"ExtrinsicSuccess">>)
            EXCEPT !.EXTRINSIC_INDEX = {unwrap_or_default(@) + 1}]
    ELSE deposit_event(st, <<"ExtrinsicFailed", r>>)

note_applied_extrinsic(st, r) ==
  [deposit_event(st, IF r = "Ok" THEN <<"ExtrinsicSuccess">> ELSE <<"ExtrinsicFailed", r>>)
     EXCEPT !.EXTRINSIC_INDEX = {unwrap_or_default(@) + 1}]

(* The events a call of the pallet deposited, GetData(val); a call         *)
(* deposits at most one.                                                   *)
DepositGetData(st, vals) ==
  IF vals = <<>> THEN st ELSE deposit_event(st, <<"GetData", vals[1]>>)

(* Function::dispatch for the pallet's calls: the storage and the external *)
(* store after it, and its result.                                         *)
Dispatched(st, ext, xt) ==
  LET r == dispatch([Data |-> st.Data, ext |-> ext, events |-> <<>>], xt.signer, xt.call)
  IN  [st  |-> DepositGetData([st EXCEPT !.Data = r.state.Data], r.state.events),
       ext |-> r.state.ext, res |-> r.res]

(* apply_extrinsic_with_len for an extrinsic that is noted (to_note is     *)
(* Some) or not.  res is "Ok" for Ok(_), whatever the dispatch answered;   *)
(* otherwise the reason of the Err, or "Panic".  The external store keeps  *)
(* what the dispatch did to it in every case.                              *)
apply_extrinsic_with_len(st, ext, xt, note) ==
  IF xt.proof = "bad"
    THEN [st |-> st, ext |-> ext, res |-> "BadProof"]
    ELSE LET noted == IF note THEN note_extrinsic(st, xt) ELSE st
             pre   == pre_dispatch(noted, xt)
             d     == Dispatched(pre.st, ext, xt)
         IN  CASE pre.res # "Ok" -> [st |-> pre.st, ext |-> ext, res |-> pre.res]
               [] pre.res = "Ok" /\ d.res = "Panic" -> d
               [] pre.res = "Ok" /\ d.res # "Panic" ->
                    [st |-> note_applied_extrinsic(d.st, d.res), ext |-> d.ext, res |-> "Ok"]

(***************************************************************************)
(* The end of a block.                                                     *)
(***************************************************************************)
note_finished_extrinsics(st) ==
  [st EXCEPT !.EXTRINSIC_INDEX = {}, !.ExtrinsicCount = {unwrap_or_default(st.EXTRINSIC_INDEX)}]

(* Mutant: the data of the last extrinsic stays behind. *)
derive_extrinsics_OffByOne(st) ==
  LET n == unwrap_or_default(st.ExtrinsicCount) IN
  [st EXCEPT !.ExtrinsicsRoot = {[i \in 1 .. n |-> st.ExtrinsicData[i - 1]]},
             !.ExtrinsicData = [i \in DOMAIN @ \ (0 .. n - 2) |-> @[i]]]

derive_extrinsics(st) ==
  LET n == unwrap_or_default(st.ExtrinsicCount) IN
  [st EXCEPT !.ExtrinsicsRoot = {[i \in 1 .. n |-> st.ExtrinsicData[i - 1]]},
             !.ExtrinsicData = [i \in DOMAIN @ \ (0 .. n - 1) |-> @[i]]]

(* Mutant: the window of block hashes keeps one entry too few. *)
Pruned_OffByOne(st) ==
  LET number == unwrap_or_default(st.Number) IN
  IF number >= BlockHashCount /\ number - BlockHashCount # 0
    THEN remove(st.BlockHash, number - BlockHashCount)
    ELSE st.BlockHash

(* The window of block hashes after it moved on; genesis stays. *)
Pruned(st) ==
  LET number == unwrap_or_default(st.Number) IN
  IF number > BlockHashCount /\ number - BlockHashCount - 1 # 0
    THEN remove(st.BlockHash, number - BlockHashCount - 1)
    ELSE st.BlockHash

(* finalize: the storage without the temporaries.  The header it returns   *)
(* is [number, parent, extrinsics_root, state_root].                       *)
Finalized(st) ==
  [st EXCEPT !.ExtrinsicCount = {}, !.AllExtrinsicsWeight = {}, !.AllExtrinsicsLen = {},
             !.Number = {}, !.ParentHash = {}, !.ExtrinsicsRoot = {},
             !.BlockHash = Pruned(st)]

HeaderOf(st) ==
  [number |-> unwrap_or_default(st.Number), parent |-> unwrap_or_default(st.ParentHash),
   extrinsics_root |-> CHOOSE x \in st.ExtrinsicsRoot : TRUE, state_root |-> Finalized(st)]
===============================================================================
