------------------------------ MODULE KVStore ------------------------------
(***************************************************************************)
(* What the cluster promises its one client: a single map from keys to     *)
(* values.  A put or a del command is accepted, then takes effect exactly  *)
(* once and on its own key only; a get answers with the value the map      *)
(* holds, and with the empty string when it holds none.  Nothing else ever *)
(* changes the map: neither moving keys between nodes nor a restart.       *)
(***************************************************************************)
EXTENDS StoreOps

CONSTANT Idle      \* no command is being served

VARIABLES kv,      \* the map
          req,     \* the log entry of the command being served, or Idle
          out      \* the answer to the last get

vars == <<kv, req, out>>

Init ==
  /\ kv = [k \in {} |-> EmptyStr]
  /\ req = Idle
  /\ out = EmptyStr

Accept(e) ==
  /\ req = Idle
  /\ req' = e
  /\ UNCHANGED <<kv, out>>

Perform ==
  /\ req # Idle
  /\ kv' = DataAfter(kv, req)
  /\ req' = Idle
  /\ UNCHANGED out

Get(k) ==
  /\ req = Idle
  /\ out' = DbGet(kv, k)
  /\ UNCHANGED <<kv, req>>

Next ==
  \/ \E k \in Keys : \/ \E v \in Values : Accept(PutEntry(k, v))
                     \/ Accept(DeleteEntry(k))
                     \/ Get(k)
  \/ Perform

Spec == Init /\ [][Next]_vars
=============================================================================
