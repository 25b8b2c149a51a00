----------------------------- MODULE MCCluster -----------------------------
(* Cluster on small instances: keys of one character, a short and a long   *)
(* value, the first metadata keys in the middle of the key range.          *)
EXTENDS Cluster

MCKeyLen == [k \in Keys |-> 1]
MCValLen == [v \in Values \cup {EmptyStr} |->
               CASE v = 0 -> 0 [] v = 1 -> 1 [] OTHER -> 4]
MCInitKey == [i \in Nodes |-> i + 2]
=============================================================================
