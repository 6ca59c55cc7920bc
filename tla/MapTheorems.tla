----------------------------- MODULE MapTheorems -------------------------------
(* Facts about the storage maps of module Maps. *)
EXTENDS Maps, TLAPS

(* Inserting an entry keeps a storage map one, and adds its key. *)
LEMMA InsertType ==
  ASSUME NEW K, NEW V, NEW m \in MapsOf(K, V), NEW k \in K, NEW v \in V
  PROVE  insert(m, k, v) \in MapsOf(K, V)
  <1>1. PICK D \in SUBSET K : m \in [D -> V]
    BY DEF MapsOf
  <1>2. insert(m, k, v) \in [D \cup {k} -> V]
    BY <1>1 DEF insert
  <1>3. QED
    BY <1>2 DEF MapsOf

(* So does removing one. *)
LEMMA RemoveType ==
  ASSUME NEW K, NEW V, NEW m \in MapsOf(K, V), NEW k
  PROVE  remove(m, k) \in MapsOf(K, V)
  <1>1. PICK D \in SUBSET K : m \in [D -> V]
    BY DEF MapsOf
  <1>2. remove(m, k) \in [D \ {k} -> V]
    BY <1>1 DEF remove
  <1>3. QED
    BY <1>2 DEF MapsOf

(* A key that is present has a value of the map's type, and so has a       *)
(* lookup with a default.                                                  *)
LEMMA GetFacts ==
  ASSUME NEW K, NEW V, NEW m \in MapsOf(K, V), NEW k, NEW v
  PROVE  /\ exists(m, k) => m[k] \in V
         /\ v \in V => getOr(m, k, v) \in V
  BY DEF MapsOf, exists, getOr
===============================================================================
