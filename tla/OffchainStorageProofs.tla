------------------------- MODULE OffchainStorageProofs -------------------------
(***************************************************************************)
(* Proofs about the pallet machine of OffchainStoragePallet, for every set *)
(* of accounts, data ids and values.                                       *)
(***************************************************************************)
EXTENDS OffchainStoragePallet, MapTheorems, TLAPS

(* What a call of the pallet preserves: the types of the two stores, and   *)
(* that they hold the same ids; and then the call cannot panic.            *)
Consistent(s) ==
  /\ s \in [Data : MapsOf(DataId, UserData), ext : MapsOf(DataId, Value),
            events : Seq(Value)]
  /\ DOMAIN s.Data = DOMAIN s.ext

LEMMA DefaultUserDataType == DefaultUserData \in UserData
  BY AccountAssumption DEF DefaultUserData, UserData, Access

(* A call that returned r leaves the stores consistent and did not panic. *)
Sound(r) == Consistent(r.state) /\ r.res \in CallResult \ {"Panic"}

LEMMA UpdateIsSound ==
  ASSUME NEW s, Consistent(s),
         NEW D \in MapsOf(DataId, UserData), NEW E \in MapsOf(DataId, Value),
         DOMAIN D = DOMAIN E
  PROVE  Sound([state |-> [s EXCEPT !.ext = E, !.Data = D], res |-> "Ok"])
  <1> DEFINE t == [s EXCEPT !.ext = E, !.Data = D]
  <1>1. /\ t \in [Data : MapsOf(DataId, UserData), ext : MapsOf(DataId, Value),
                  events : Seq(Value)]
        /\ t.Data = D
        /\ t.ext = E
    BY ZenonT(60) DEF Consistent
  <1>2. Consistent(t)
    BY <1>1 DEF Consistent
  <1>3. QED
    BY <1>2 DEF Sound, CallResult

LEMMA FailedIsSound ==
  ASSUME NEW s, Consistent(s), NEW e \in CallResult \ {"Panic"}
  PROVE  Sound(Failed(s, e))
  BY DEF Sound, Failed

LEMMA ReadIsSound ==
  ASSUME NEW s, Consistent(s), NEW user, NEW id \in DataId
  PROVE  Sound(read_data(s, user, id))
  <1>1. CASE exists(s.Data, id) /\ check_op_access(user, get_data(s, id), "Read")
    <2>1. exists(s.ext, id)
      BY <1>1 DEF exists, Consistent
    <2>2. s.ext[id] \in Value
      BY <2>1, GetFacts, ZenonT(60) DEF Consistent
    <2>3. QED
      BY SMTT(30), <1>1, <2>1, <2>2
      DEF read_data, get_external_storage, Succeeded, Consistent, Sound, CallResult
  <1>2. CASE ~(exists(s.Data, id) /\ check_op_access(user, get_data(s, id), "Read"))
    BY <1>2, FailedIsSound, ZenonT(60) DEF read_data, CallResult
  <1>3. QED
    BY <1>1, <1>2, ZenonT(60)

LEMMA WriteIsSound ==
  ASSUME NEW s, Consistent(s), NEW user, NEW id \in DataId, NEW val \in Value
  PROVE  Sound(write_data(s, user, id, val))
  <1> DEFINE data == get_data(s, id)
  <1>1. CASE check_op_access(user, data, "Read")
    <2>1. data \in UserData
      BY GetFacts, DefaultUserDataType, ZenonT(60) DEF get_data, Consistent
    <2> HIDE DEF data
    <2>2. /\ insert(s.Data, id, data) \in MapsOf(DataId, UserData)
          /\ insert(s.ext, id, val) \in MapsOf(DataId, Value)
          /\ DOMAIN insert(s.Data, id, data) = DOMAIN insert(s.ext, id, val)
      BY <2>1, InsertType, ZenonT(60) DEF Consistent, insert
    <2>3. write_data(s, user, id, val)
            = [state |-> [s EXCEPT !.ext = insert(s.ext, id, val),
                                   !.Data = insert(s.Data, id, data)],
               res |-> "Ok"]
      BY <1>1 DEF write_data, set_external_storage, Succeeded, Consistent, data
    <2>4. QED
      BY <2>2, <2>3, UpdateIsSound, ZenonT(60)
  <1>2. CASE ~check_op_access(user, data, "Read")
    BY <1>2, FailedIsSound DEF write_data, CallResult
  <1>3. QED
    BY <1>1, <1>2

LEMMA DeleteIsSound ==
  ASSUME NEW s, Consistent(s), NEW user, NEW id \in DataId
  PROVE  Sound(delete_data(s, user, id))
  <1>1. CASE exists(s.Data, id) /\ check_op_access(user, get_data(s, id), "Read")
    <2>1. exists(s.ext, id)
      BY <1>1 DEF exists, Consistent
    <2>2. /\ remove(s.Data, id) \in MapsOf(DataId, UserData)
          /\ remove(s.ext, id) \in MapsOf(DataId, Value)
          /\ DOMAIN remove(s.Data, id) = DOMAIN remove(s.ext, id)
      BY RemoveType, ZenonT(60) DEF Consistent, remove
    <2>3. delete_data(s, user, id)
            = [state |-> [s EXCEPT !.ext = remove(s.ext, id),
                                   !.Data = remove(s.Data, id)],
               res |-> "Ok"]
      BY <1>1, <2>1, ZenonT(60) DEF delete_data, delete_external_storage, Succeeded, Consistent
    <2>4. QED
      BY <2>2, <2>3, UpdateIsSound, ZenonT(60)
  <1>2. CASE ~(exists(s.Data, id) /\ check_op_access(user, get_data(s, id), "Read"))
    BY <1>2, FailedIsSound, ZenonT(60) DEF delete_data, CallResult
  <1>3. QED
    BY <1>1, <1>2, ZenonT(60)

LEMMA DispatchIsSound ==
  ASSUME NEW s, Consistent(s), NEW origin, NEW call \in Call
  PROVE  Sound(dispatch(s, origin, call))
  <1>1. call.id \in DataId /\ (call.op = "write_data" => call.val \in Value)
    BY DEF Call
  <1>2. QED
    BY <1>1, FailedIsSound, ReadIsSound, WriteIsSound, DeleteIsSound
    DEF dispatch, Call, CallResult

-------------------------------------------------------------------------------
Inv ==
  /\ Consistent(pallet)
  /\ last \in [origin : AccountId \cup {NoneOrigin}, res : CallResult \ {"Panic"}]
  /\ creator \in [DOMAIN pallet.Data -> AccountId]

(* The chain and the external store hold the same ids, whatever calls are  *)
(* made, and no call panics on missing data.                               *)
THEOREM PalletSafe == Spec => [](TypeOK /\ ExternalMatchesChain /\ NoPanic)
  <1>1. Init => Inv
    <2> SUFFICES ASSUME Init PROVE Inv
      OBVIOUS
    <2>1. EmptyMap \in MapsOf(DataId, UserData) /\ EmptyMap \in MapsOf(DataId, Value)
      BY ZenonT(60) DEF EmptyMap, MapsOf
    <2>2. Consistent(pallet)
      BY <2>1 DEF Init, Consistent
    <2>3. creator \in [DOMAIN pallet.Data -> AccountId]
      BY DEF Init, EmptyMap
    <2>4. QED
      BY <2>2, <2>3 DEF Init, Inv, CallResult
  <1>2. Inv /\ [Next]_vars => Inv'
    <2> SUFFICES ASSUME Inv, [Next]_vars PROVE Inv'
      OBVIOUS
    <2>1. CASE UNCHANGED vars
      BY <2>1 DEF Inv, vars, Consistent
    <2>2. CASE Next
      <3>1. PICK origin \in AccountId \cup {NoneOrigin}, call \in Call : Dispatch(origin, call)
        BY <2>2, ZenonT(60) DEF Next, ReadData, WriteData, DeleteData, Call
      <3> DEFINE s == [pallet EXCEPT !.events = <<>>]
                 r == dispatch(s, origin, call)
      <3>2. Consistent(s) /\ s.Data = pallet.Data
        <4>0. <<>> \in Seq(Value)
          OBVIOUS
        <4>1. /\ s \in [Data : MapsOf(DataId, UserData), ext : MapsOf(DataId, Value),
                        events : Seq(Value)]
              /\ s.Data = pallet.Data
              /\ s.ext = pallet.ext
          BY <4>0, ZenonT(60) DEF Inv, Consistent
        <4>2. DOMAIN pallet.Data = DOMAIN pallet.ext
          BY DEF Inv, Consistent
        <4> HIDE DEF s
        <4>3. DOMAIN s.Data = DOMAIN s.ext
          BY <4>1, <4>2
        <4>4. QED
          BY <4>1, <4>3 DEF Consistent
      <3>3. Sound(r)
        BY <3>2, DispatchIsSound
      <3>4. /\ pallet' = r.state
            /\ last' = [origin |-> origin, res |-> r.res]
            /\ creator' = [id \in DOMAIN r.state.Data |-> getOr(creator, id, origin)]
        BY <3>1 DEF Dispatch
      <3>5. creator' \in [DOMAIN r.state.Data -> AccountId]
        <4>1. origin = NoneOrigin => r.state.Data = pallet.Data
          BY <3>2, ZenonT(60) DEF dispatch, Failed
        <4>2. \A id \in DOMAIN r.state.Data : getOr(creator, id, origin) \in AccountId
          BY <4>1 DEF getOr, Inv
        <4>3. QED
          BY <3>4, <4>2
      <3> HIDE DEF r
      <3>6. QED
        BY <3>3, <3>4, <3>5 DEF Sound, Inv
    <2>3. QED
      BY <2>1, <2>2
  <1>3. Inv => TypeOK /\ ExternalMatchesChain /\ NoPanic
    <2> SUFFICES ASSUME Inv PROVE TypeOK /\ ExternalMatchesChain /\ NoPanic
      OBVIOUS
    <2>1. creator \in MapsOf(DataId, AccountId)
      BY DEF Inv, Consistent, MapsOf
    <2>2. QED
      BY <2>1 DEF Inv, Consistent, TypeOK, ExternalMatchesChain, NoPanic
  <1>4. QED
    BY <1>1, <1>2, <1>3, PTL DEF Spec
===============================================================================
