---------------------------- MODULE OffchainStorage ----------------------------
(***************************************************************************)
(* The pallet frame/offchain-storage.  The chain keeps, for every data id, *)
(* a UserData record (author and access level); the data itself is kept in *)
(* an external store behind the trait ExternalStorage.  The three calls of *)
(* the pallet are operators from a pallet state and a call to the state    *)
(* and the result after it, so that the same definitions are used by this  *)
(* module's machine (calls made one after the other, as in the pallet's    *)
(* test) and by the execution of blocks in BlockExecution.                 *)
(***************************************************************************)
EXTENDS Maps, Integers, Sequences

CONSTANTS AccountId,          \* T::AccountId
          DefaultAccountId,   \* T::AccountId::default()
          NoneOrigin,         \* the origin of a call nobody signed
          DataId,             \* data ids
          Value               \* contents of the external store

ASSUME AccountAssumption == /\ DefaultAccountId \in AccountId
                            /\ NoneOrigin \notin AccountId

Access == {"Avoid", "Read", "Write"}

access_value(ac) == CASE ac = "Avoid" -> 0
                      [] ac = "Read"  -> 1
                      [] ac = "Write" -> 2

UserData == [author : AccountId, access : Access]

(* UserData::default(), what `get_data` answers for an id that is absent. *)
DefaultUserData == [author |-> DefaultAccountId, access |-> "Read"]

(* The user may do op on data. *)
check_op_access(user, data, op) ==
  \/ access_value(data.access) >= access_value(op)
  \/ user = data.author

(***************************************************************************)
(* A pallet state: the storage map Data, the external store ext and the    *)
(* GetData events deposited so far.  The result of a call adds res: "Ok",  *)
(* the error it returned, or "Panic".                                      *)
(***************************************************************************)
get_data(s, id) == getOr(s.Data, id, DefaultUserData)

Failed(s, error) == [state |-> s, res |-> error]
Succeeded(s)     == [state |-> s, res |-> "Ok"]

(***************************************************************************)
(* The external store, as the pallet's test implements it over files: get  *)
(* and delete unwrap the result of opening or removing the file, so they   *)
(* panic when the data is missing; set creates or overwrites.              *)
(***************************************************************************)
get_external_storage(s, id) ==
  IF exists(s.ext, id)
    THEN Succeeded([s EXCEPT !.events = Append(@, s.ext[id])])
    ELSE Failed(s, "Panic")

set_external_storage(s, id, val) == [s EXCEPT !.ext = insert(@, id, val)]

delete_external_storage(s, id) ==
  IF exists(s.ext, id)
    THEN Succeeded([s EXCEPT !.ext = remove(@, id)])
    ELSE Failed(s, "Panic")

(***************************************************************************)
(* The three calls of the pallet.                                          *)
(***************************************************************************)
read_data(s, user, id) ==
  IF exists(s.Data, id)
    THEN IF check_op_access(user, get_data(s, id), "Read")
           THEN get_external_storage(s, id)
           ELSE Failed(s, "PermissionDenied")
    ELSE Failed(s, "NoneData")

write_data(s, user, id, val) ==
  LET data == get_data(s, id) IN
  IF check_op_access(user, data, "Read")
    THEN Succeeded([set_external_storage(s, id, val)
                      EXCEPT !.Data = insert(@, id, data)])
    ELSE Failed(s, "PermissionDenied")

(* Mutant: the external data is deleted, the entry on the chain is kept. *)
delete_data_KeepsEntry(s, user, id) ==
  IF exists(s.Data, id) THEN delete_external_storage(s, id) ELSE Failed(s, "NoneData")

(* Mutant: missing external data is an error of the call, not a panic. *)
delete_data_Reports(s, user, id) ==
  IF exists(s.Data, id)
    THEN IF check_op_access(user, get_data(s, id), "Read")
           THEN LET r == delete_external_storage(s, id) IN
                IF r.res = "Ok"
                  THEN Succeeded([r.state EXCEPT !.Data = remove(@, id)])
                  ELSE Failed(s, "NoneData")
           ELSE Failed(s, "PermissionDenied")
    ELSE Failed(s, "NoneData")

delete_data(s, user, id) ==
  IF exists(s.Data, id)
    THEN IF check_op_access(user, get_data(s, id), "Read")
           THEN LET r == delete_external_storage(s, id) IN
                IF r.res = "Ok"
                  THEN Succeeded([r.state EXCEPT !.Data = remove(@, id)])
                  ELSE r
           ELSE Failed(s, "PermissionDenied")
    ELSE Failed(s, "NoneData")

Call == [op : {"read_data", "delete_data"}, id : DataId]
          \cup [op : {"write_data"}, id : DataId, val : Value]

(* Mutant: write_data without ensure_signed. *)
dispatch_Unsigned(s, origin, call) ==
  CASE call.op = "read_data"   -> read_data(s, origin, call.id)
    [] call.op = "write_data"  -> write_data(s, origin, call.id, call.val)
    [] call.op = "delete_data" -> delete_data(s, origin, call.id)

(* What the generated dispatch of Call does; every call starts with        *)
(* ensure_signed(origin)?.                                                 *)
dispatch(s, origin, call) ==
  IF origin = NoneOrigin
    THEN Failed(s, "BadOrigin")
    ELSE CASE call.op = "read_data"   -> read_data(s, origin, call.id)
           [] call.op = "write_data"  -> write_data(s, origin, call.id, call.val)
           [] call.op = "delete_data" -> delete_data(s, origin, call.id)
===============================================================================
