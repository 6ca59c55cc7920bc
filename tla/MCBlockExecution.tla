--------------------------- MODULE MCBlockExecution ---------------------------
(* Two nodes with a store each, and a handful of extrinsics of two          *)
(* accounts.                                                               *)
EXTENDS BlockExecution

CONSTANTS alice, zero, nobody, k1, v1, v2, n1, n2, s1, s2, nonode

MCAccountId == {alice, zero}
MCDataId == {k1}
MCValue == {v1, v2}

Signed(who, nonce, call, class, weight, len) ==
  [signer |-> who, nonce |-> nonce, call |-> call, class |-> class,
   weight |-> weight, len |-> len, proof |-> "good"]

write(v) == [op |-> "write_data", id |-> k1, val |-> v]
read == [op |-> "read_data", id |-> k1]
delete == [op |-> "delete_data", id |-> k1]

AliceWrites == Signed(alice, 0, write(v1), "Normal", 2, 2)
AliceDeletes == Signed(alice, 1, delete, "Normal", 2, 1)
ZeroReads == Signed(zero, 0, read, "Operational", 2, 2)
ZeroWrites == Signed(zero, 0, write(v2), "Operational", 1, 2)
Unsigned == Signed(nobody, 0, read, "Normal", 1, 1)
Forged == [AliceDeletes EXCEPT !.proof = "bad"]

MCXt == {AliceWrites, AliceDeletes, ZeroReads, ZeroWrites}
MCXtChain == {AliceWrites, Unsigned, Forged}
MCXtDelete == {AliceWrites, AliceDeletes, Forged}

OneNode == {n1}
TwoNodes == {n1, n2}

AlwaysWasm == [n \in Node |-> "AlwaysWasm"]
NativeElseWasm == [n \in Node |-> "NativeElseWasm"]
Both == [n \in Node |-> "Both"]
OtherBoth == [n \in Node |-> IF n = n1 THEN "NativeElseWasm" ELSE "Both"]

Apart == [n \in Node |-> IF n = n1 THEN s1 ELSE s2]
===============================================================================
