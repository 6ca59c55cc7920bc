------------------------- MODULE OffchainStoragePallet -------------------------
(***************************************************************************)
(* The pallet of OffchainStorage driven by calls made one after the other  *)
(* against one chain state and one external store, as the pallet's own     *)
(* test drives it.                                                         *)
(***************************************************************************)
EXTENDS OffchainStorage

VARIABLES pallet,    \* the pallet state [Data, ext, events]
          last,      \* the origin and the result of the last call
          creator    \* history: who made the call that created each entry

vars == <<pallet, last, creator>>

CallResult == {"Ok", "PermissionDenied", "NoneData", "BadOrigin", "Panic"}

(* The storage map holds UserData records and the external store values;   *)
(* an entry is made only by a signed account (ensure_signed).              *)
TypeOK ==
  /\ pallet.Data \in MapsOf(DataId, UserData)
  /\ pallet.ext \in MapsOf(DataId, Value)
  /\ pallet.events \in Seq(Value)
  /\ last \in [origin : AccountId \cup {NoneOrigin}, res : CallResult]
  /\ creator \in MapsOf(DataId, AccountId)

(* Genesis declares no entry, and the external store starts empty. *)
Init ==
  /\ pallet = [Data |-> EmptyMap, ext |-> EmptyMap, events |-> <<>>]
  /\ last = [origin |-> NoneOrigin, res |-> "Ok"]
  /\ creator = EmptyMap

(* One call.  The events of a call are those it deposits itself. *)
Dispatch(origin, call) ==
  LET r == dispatch([pallet EXCEPT !.events = <<>>], origin, call) IN
  /\ pallet' = r.state
  /\ last' = [origin |-> origin, res |-> r.res]
  /\ creator' = [id \in DOMAIN r.state.Data |-> getOr(creator, id, origin)]

ReadData   == \E o \in AccountId \cup {NoneOrigin}, id \in DataId :
                 Dispatch(o, [op |-> "read_data", id |-> id])
WriteData  == \E o \in AccountId \cup {NoneOrigin}, id \in DataId, v \in Value :
                 Dispatch(o, [op |-> "write_data", id |-> id, val |-> v])
DeleteData == \E o \in AccountId \cup {NoneOrigin}, id \in DataId :
                 Dispatch(o, [op |-> "delete_data", id |-> id])

Next == ReadData \/ WriteData \/ DeleteData

Spec == Init /\ [][Next]_vars

-------------------------------------------------------------------------------
(* The chain and the external store hold the same data ids: set and insert *)
(* go together in write_data, delete and remove in delete_data.            *)
ExternalMatchesChain == DOMAIN pallet.Data = DOMAIN pallet.ext

(* A call whose checks passed never makes the external store panic on      *)
(* missing data.                                                           *)
NoPanic == last.res # "Panic"

(* Access::Read: "this data just can be read".  A call of an account that  *)
(* did not create an entry with that access leaves the stored value as it  *)
(* is.                                                                     *)
ReadAccessOnlyReads ==
  [][\A id \in DOMAIN pallet.Data :
       pallet.Data[id].access = "Read" /\ last'.origin # creator[id]
         => exists(pallet'.ext, id) /\ pallet'.ext[id] = pallet.ext[id]]_vars
===============================================================================
