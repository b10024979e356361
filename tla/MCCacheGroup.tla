---- MODULE MCCacheGroup ----
(* Values for the constants of CacheGroup that a cfg cannot write. *)
EXTENDS CacheGroup

CONSTANTS w1, w2, w3

W2 == {w1, w2}
W3 == {w1, w2, w3}
OnlyW1 == {w1}
G1 == {1}
None == {}
Both == {{w1, w2}}
Sets2 == {{}, {w1}, {w1, w2}}
ShrinkSets == {{w1}, {w1, w2}}
ShrinkSets3 == {{w1, w2}, {w1, w2, w3}}
====
