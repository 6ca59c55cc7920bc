--------------------------------- MODULE Maps ---------------------------------
(***************************************************************************)
(* Storage maps: functions whose domain is the set of keys that are        *)
(* present.  A storage item declared `map K => V` is one of these, and so  *)
(* is every HashMap of the client.                                         *)
(***************************************************************************)

EmptyMap == [k \in {} |-> {}]

(* The maps with keys in K and values in V. *)
MapsOf(K, V) == UNION {[D -> V] : D \in SUBSET K}

(* The same, for a map that is known to be a function. *)
IsMap(m, K, V) == DOMAIN m \subseteq K /\ \A k \in DOMAIN m : m[k] \in V

exists(m, k) == k \in DOMAIN m

insert(m, k, v) == [x \in DOMAIN m \cup {k} |-> IF x = k THEN v ELSE m[x]]

remove(m, k) == [x \in DOMAIN m \ {k} |-> m[x]]

(* A lookup that falls back on the default of the value type. *)
getOr(m, k, default) == IF k \in DOMAIN m THEN m[k] ELSE default
===============================================================================
