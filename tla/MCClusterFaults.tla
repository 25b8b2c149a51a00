-------------------------- MODULE MCClusterFaults --------------------------
(* ClusterFaults on small instances.                                       *)
EXTENDS ClusterFaults

MCKeyLen == [k \in Keys |-> IF k \in OkKeys THEN 2 ELSE 1]
MCValLen == [v \in Values \cup {EmptyStr} |->
               CASE v \in OkVals -> 2 [] v = 0 -> 0 [] v = 1 -> 1 [] OTHER -> 4]
MCInitKey == [i \in Nodes |-> i + 2]
=============================================================================
