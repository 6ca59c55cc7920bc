---------------------------- MODULE MCLocalStorage -----------------------------
(* Worker threads, keys, values and locks as model values. *)
EXTENDS LocalStorage

CONSTANTS w1, w2, k1, k2, a1, a2, a3

TwoThreads == {w1, w2}
OneKey == {k1}
OtherKey == {k2}
NoKeys == {}
MCArc == {a1, a2, a3}

===============================================================================
