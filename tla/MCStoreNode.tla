---------------------------- MODULE MCStoreNode ----------------------------
(* StoreNode with keys of different lengths and a short and a long value.  *)
EXTENDS StoreNode

MCKeyLen == [k \in Keys |-> IF k = 1 THEN 2 ELSE 1]
MCValLen == [v \in Values \cup {EmptyStr} |->
               CASE v = 0 -> 0 [] v = 1 -> 1 [] OTHER -> 4]
=============================================================================
