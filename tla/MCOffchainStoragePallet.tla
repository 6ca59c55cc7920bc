------------------------ MODULE MCOffchainStoragePallet ------------------------
(* Three accounts (one of them the default account), two ids, two values.  *)
EXTENDS OffchainStoragePallet

CONSTANTS alice, bob, zero, nobody, k1, k2, v1, v2

MCAccountId == {alice, bob, zero}
MCDataId == {k1, k2}
MCValue == {v1, v2}
===============================================================================
