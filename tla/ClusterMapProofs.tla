-------------------------- MODULE ClusterMapProofs --------------------------
(***************************************************************************)
(* The cluster is one map, and re_balance keeps its books, for every       *)
(* number of nodes, of keys and of values.                                 *)
(*                                                                         *)
(* IInv places every key at the node it is looked up at.  What is added    *)
(* here is where the key of a command or of a migration is while its two   *)
(* requests are under way: at one node or in flight, never twice.  From    *)
(* that follow that the cluster implements KVStore, and that moving keys   *)
(* leaves the total of the byte counters as it was added up.               *)
(***************************************************************************)
EXTENDS ClusterProofs

\* The key of a command is at no node but the one the command went to; the key
\* of a migration is at the node it leaves, with the value that is moved, until
\* that node commits, and then at none until the other one does.
Owned ==
  /\ pc = "commit" => \A n \in Nodes : req.key \in DOMAIN data[n] => n = fd
  /\ pc = "commitSource" =>
       /\ mig.key \in DOMAIN data[node] /\ mig.val = data[node][mig.key]
       /\ \A n \in Nodes : mig.key \in DOMAIN data[n] => n = node
  /\ pc = "commitPeer" => \A n \in Nodes : mig.key \notin DOMAIN data[n]

\* Outside put and del no command is being served, and outside re_balance its
\* local variables are fresh.
Fresh ==
  /\ pc # "commit" => req = Idle
  /\ pc \in {"idle", "commit"} => node = 0 /\ total = 0

MInv == IInv /\ Owned /\ Fresh

\* No key is at two nodes.
Disjoint ==
  \A m, n \in Nodes : \A k : k \in DOMAIN data[m] /\ k \in DOMAIN data[n] => m = n

-----------------------------------------------------------------------------
(* Where a key is.                                                         *)

\* Except for the key a migration has rewritten the metadata for, a key at a
\* node is looked up there.
LEMMA FoundAt ==
  ASSUME IInv, NEW n \in Nodes, NEW k \in DOMAIN data[n], ~Leaving(n, k)
  PROVE  k \in Keys /\ Route(k) = n
<1>1. Shape(meta) /\ Covered /\ TypeOK
  BY DEF IInv
<1>2. Cover(meta, n, k)
  BY <1>1 DEF Covered
<1>3. k \in Keys
  BY <1>1 DEF TypeOK, IsDb
<1> QED BY <1>1, <1>2, <1>3, CoverRoutes DEF Route

LEMMA OwnedDisjoint ==
  ASSUME IInv, Owned
  PROVE  Disjoint
<1> SUFFICES ASSUME NEW m \in Nodes, NEW n \in Nodes, NEW k,
                    k \in DOMAIN data[m], k \in DOMAIN data[n]
             PROVE  m = n
  BY DEF Disjoint
<1>1. CASE pc = "commitSource" /\ k = mig.key
  BY <1>1 DEF Owned
<1>2. CASE ~(pc = "commitSource" /\ k = mig.key)
  <2>1. ~Leaving(m, k) /\ ~Leaving(n, k)
    BY <1>2 DEF Leaving
  <2> QED BY <2>1, FoundAt
<1> QED BY <1>1, <1>2

\* What a commit of entry e at node n does to every node.
LEMMA CommitEffect ==
  ASSUME TypeOK, NEW n \in Nodes, NEW e, Applicable(e), log[n] = {e}, CommitAt(n)
  PROVE  /\ data'[n] = DataAfter(data[n], e)
         /\ \A x \in Nodes : x # n => data'[x] = data[x] /\ size'[x] = size[x]
         /\ size'[n] = SizeAfter(data[n], size[n], e)
         /\ size \in [Nodes -> Int] /\ size' \in [Nodes -> Int]
         /\ IsDb(data[n], Values)
<1>1. /\ data' = [data EXCEPT ![n] = DataAfter(data[n], e)]
      /\ size' = [size EXCEPT ![n] = SizeAfter(data[n], size[n], e)]
      /\ size' \in [Nodes -> Int]
  BY CommitOne
<1>2. data = [x \in Nodes |-> data[x]] /\ size \in [Nodes -> Int] /\ IsDb(data[n], Values)
  BY DEF TypeOK
<1>3. data'[n] = DataAfter(data[n], e) /\ \A x \in Nodes : x # n => data'[x] = data[x]
  BY <1>1, <1>2
<1>4. /\ size'[n] = SizeAfter(data[n], size[n], e)
      /\ \A x \in Nodes : x # n => size'[x] = size[x]
  BY <1>1, <1>2
<1> QED BY <1>1, <1>2, <1>3, <1>4

\* The three commits, with the entry each of them applies.
LEMMA CommitFacts ==
  ASSUME IInv, Commit
  PROVE  /\ TypeOK /\ fd \in Nodes /\ Applicable(req) /\ log[fd] = {req} /\ CommitAt(fd)
         /\ pc = "commit" /\ pc' = "sum" /\ req' = Idle /\ out' = out
         /\ UNCHANGED <<phase, node, total, mig>>
BY DEF IInv, Commit, TypeOK, Serving, LogsArePending, Pending, loopVars

LEMMA CommitSourceFacts ==
  ASSUME IInv, CommitSource
  PROVE  /\ TypeOK /\ node \in Nodes /\ Peer \in Nodes /\ Peer # node
         /\ mig.key \in Keys /\ Applicable(DeleteEntry(mig.key))
         /\ log[node] = {DeleteEntry(mig.key)} /\ CommitAt(node)
         /\ pc = "commitSource" /\ pc' = "commitPeer"
         /\ UNCHANGED <<meta, req, fd, out, phase, node, total, mig>>
<1>1. TypeOK /\ LogsArePending /\ Position /\ InFlight
  BY DEF IInv, Moving
<1>2. /\ pc = "commitSource" /\ pc' = "commitPeer" /\ CommitAt(node)
      /\ UNCHANGED <<meta, req, fd, out, phase, node, total, mig>>
  BY DEF CommitSource, ctlVars, loopVars
<1>3. node \in Nodes /\ Peer \in Nodes /\ Peer # node
  BY <1>1, <1>2, PeerIsNode DEF Position, TypeOK
<1>4. mig.key \in Keys
  BY <1>1, <1>2 DEF InFlight
<1>5. log[node] = {DeleteEntry(mig.key)}
  BY <1>1, <1>2, <1>3 DEF LogsArePending, Pending
<1> QED BY <1>1, <1>2, <1>3, <1>4, <1>5, DeleteApplicable

LEMMA CommitPeerFacts ==
  ASSUME IInv, CommitPeer
  PROVE  /\ TypeOK /\ node \in Nodes /\ Peer \in Nodes /\ Peer # node
         /\ mig.key \in Keys /\ mig.val \in Values
         /\ Applicable(PutEntry(mig.key, mig.val))
         /\ log[Peer] = {PutEntry(mig.key, mig.val)} /\ CommitAt(Peer)
         /\ pc = "commitPeer" /\ pc' = "loop"
         /\ UNCHANGED <<meta, req, fd, out, phase, node, total>>
<1>1. TypeOK /\ LogsArePending /\ Position /\ InFlight
  BY DEF IInv, Moving
<1>2. /\ pc = "commitPeer" /\ pc' = "loop" /\ CommitAt(Peer)
      /\ UNCHANGED <<meta, req, fd, out, phase, node, total>>
  BY DEF CommitPeer, ctlVars, loopVars
<1>3. node \in Nodes /\ Peer \in Nodes /\ Peer # node
  BY <1>1, <1>2, PeerIsNode DEF Position, TypeOK
<1>4. mig.key \in Keys /\ mig.val \in Values
  BY <1>1, <1>2 DEF InFlight
<1>5. log[Peer] = {PutEntry(mig.key, mig.val)}
  BY <1>1, <1>2, <1>3 DEF LogsArePending, Pending
<1> QED BY <1>1, <1>2, <1>3, <1>4, <1>5, PutApplicable

-----------------------------------------------------------------------------
(* MInv is inductive.                                                      *)

LEMMA InitMap == Init => Owned /\ Fresh
BY DEF Init, Owned, Fresh

\* A command goes to the one node that may hold its key.
LEMMA CommandOwned ==
  ASSUME IInv, pc = "idle", NEW k \in Keys, fd' = Route(k), data' = data,
         req'.key = k, pc' = "commit"
  PROVE  Owned'
<1> SUFFICES ASSUME NEW n \in Nodes, k \in DOMAIN data[n] PROVE n = fd'
  BY DEF Owned
<1>1. ~Leaving(n, k)
  BY DEF Leaving
<1> QED BY <1>1, FoundAt

LEMMA UpdateMetaOwned ==
  ASSUME IInv, UpdateMeta
  PROVE  Owned'
<1>1. /\ pc = "meta" /\ pc' = "commitSource"
      /\ UNCHANGED <<data, node, mig>>
  BY DEF UpdateMeta, storeVars, loopVars
<1>2. node \in Nodes /\ mig.key \in DOMAIN data[node] /\ mig.val = data[node][mig.key]
  BY <1>1 DEF IInv, Moving, Chosen, Position
<1>3. ASSUME NEW n \in Nodes, mig.key \in DOMAIN data[n] PROVE n = node
  <2>1. ~Leaving(n, mig.key) /\ ~Leaving(node, mig.key)
    BY <1>1 DEF Leaving
  <2> QED BY <1>2, <1>3, <2>1, FoundAt
<1> QED BY <1>1, <1>2, <1>3 DEF Owned

LEMMA CommitSourceOwned ==
  ASSUME IInv, Owned, CommitSource
  PROVE  Owned'
<1> DEFINE k == mig.key
           e == DeleteEntry(k)
<1>1. /\ TypeOK /\ node \in Nodes /\ Applicable(e) /\ log[node] = {e} /\ CommitAt(node)
      /\ pc = "commitSource" /\ pc' = "commitPeer" /\ mig' = mig
  BY CommitSourceFacts
<1>2. e.key = k /\ e.kind # PUT
  BY DEF DeleteEntry, PUT, DELETE
<1> HIDE DEF e
<1>3. /\ data'[node] = DataAfter(data[node], e)
      /\ \A x \in Nodes : x # node => data'[x] = data[x]
  BY <1>1, CommitEffect
<1>4. k \notin DOMAIN (data'[node])
  <2>1. DOMAIN DataAfter(data[node], e) = DOMAIN data[node] \ {k}
    <3> HIDE DEF k
    <3> QED BY <1>2, DataAfterDomain
  <2> QED BY <1>3, <2>1
<1>5. ASSUME NEW n \in Nodes PROVE k \notin DOMAIN (data'[n])
  <2>1. CASE n = node
    BY <1>4, <2>1
  <2>2. CASE n # node
    BY <1>1, <1>3, <2>2 DEF Owned
  <2> QED BY <2>1, <2>2
<1> QED BY <1>1, <1>5 DEF Owned

LEMMA MapStep ==
  ASSUME MInv, [Next]_vars
  PROVE  Owned' /\ Fresh'
<1>0. IInv /\ Owned /\ Fresh
  BY DEF MInv
<1>1. ASSUME NEW k \in Keys, NEW v \in Values, Put(k, v) PROVE Owned' /\ Fresh'
  <2>1. /\ pc = "idle" /\ fd' = Route(k) /\ data' = data /\ req' = PutEntry(k, v)
        /\ pc' = "commit" /\ node' = node /\ total' = total
    BY <1>1 DEF Put, Route, LogAt, loopVars
  <2>2. req'.key = k
    BY <2>1 DEF PutEntry
  <2> QED BY <1>0, <2>1, <2>2, CommandOwned DEF Fresh
<1>2. ASSUME NEW k \in Keys, Del(k) PROVE Owned' /\ Fresh'
  <2>1. /\ pc = "idle" /\ fd' = Route(k) /\ data' = data /\ req' = DeleteEntry(k)
        /\ pc' = "commit" /\ node' = node /\ total' = total
    BY <1>2 DEF Del, Route, LogAt, loopVars
  <2>2. req'.key = k
    BY <2>1 DEF DeleteEntry
  <2> QED BY <1>0, <2>1, <2>2, CommandOwned DEF Fresh
<1>3. ASSUME NEW k \in Keys, Get(k) PROVE Owned' /\ Fresh'
  BY <1>0, <1>3 DEF Get, Owned, Fresh, storeVars, loopVars
<1>4. CASE Commit
  BY <1>4 DEF Commit, Owned, Fresh
<1>5. CASE Restart
  BY <1>0, <1>5 DEF Restart, Owned, Fresh, ctlVars, loopVars
<1>6. CASE AddSize \/ EnterUp \/ EnterDown \/ NextNode \/ Balanced
  BY <1>0, <1>6 DEF AddSize, EnterUp, EnterDown, NextNode, Balanced, Owned, Fresh,
                    ctlVars
<1>7. CASE LogSource \/ LogPeer
  BY <1>0, <1>7 DEF LogSource, LogPeer, Owned, Fresh, ctlVars
<1>8. CASE UpdateMeta
  BY <1>0, <1>8, UpdateMetaOwned DEF UpdateMeta, Fresh, ctlVars
<1>9. CASE CommitSource
  BY <1>0, <1>9, CommitSourceOwned DEF CommitSource, Fresh, ctlVars
<1>10. CASE CommitPeer
  BY <1>0, <1>10 DEF CommitPeer, Owned, Fresh, ctlVars
<1>11. CASE UNCHANGED vars
  BY <1>0, <1>11 DEF vars, storeVars, ctlVars, loopVars, Owned, Fresh
<1> QED BY <1>1, <1>2, <1>3, <1>4, <1>5, <1>6, <1>7, <1>8, <1>9, <1>10, <1>11
        DEF Next, ReBalance

THEOREM InductiveMap == Spec => []MInv
<1>1. IInv /\ Owned /\ Fresh => MInv
  BY DEF MInv
<1>2. MInv /\ [Next]_vars => Owned' /\ Fresh'
  BY MapStep
<1> QED BY <1>1, <1>2, InitMap, Inductive, PTL DEF Spec

-----------------------------------------------------------------------------
(* The share of a node.                                                    *)

LEMMA SameShare ==
  ASSUME NEW n, NotTooMuch(n), size'[n] = size[n], data'[n] = data[n], total' = total
  PROVE  NotTooMuch(n)'
BY DEF NotTooMuch, StoreLessOrEqualOne

\* A migration touches the node the loop is at and the one ahead of it, and no
\* node behind it.
LEMMA CommitLeavesPassed ==
  ASSUME PassedWithinShare, TypeOK, pc \in {"commitSource", "commitPeer"},
         node \in Nodes, Peer \in Nodes, NEW at \in {node, Peer},
         \A x \in Nodes : x # at => data'[x] = data[x] /\ size'[x] = size[x],
         UNCHANGED <<phase, node, total>>
  PROVE  PassedWithinShare'
<1> SUFFICES ASSUME NEW n \in Nodes, IF phase = "up" THEN n < node ELSE n > node
             PROVE  NotTooMuch(n)'
  BY DEF PassedWithinShare
<1>1. NotTooMuch(n)
  BY DEF PassedWithinShare
<1>2. n # node /\ n # Peer
  BY NodesAreInt DEF Peer
<1> QED BY <1>1, <1>2, SameShare

LEMMA PassedStep ==
  ASSUME IInv, PassedWithinShare, [Next]_vars
  PROVE  PassedWithinShare'
<1>0. TypeOK
  BY DEF IInv
<1>1. CASE pc' \in {"idle", "commit", "sum"}
  BY <1>1 DEF PassedWithinShare
<1>2. CASE EnterUp
  <2>1. phase' = "up" /\ node' = 0
    BY <1>2 DEF EnterUp
  <2> QED BY <2>1 DEF PassedWithinShare, Nodes
<1>3. CASE EnterDown
  <2>1. phase' = "down" /\ node' = N - 1
    BY <1>3 DEF EnterDown
  <2> QED BY <2>1, NAssumption DEF PassedWithinShare, Nodes
<1>4. CASE NextNode
  <2>1. /\ pc = "loop" /\ NotTooMuch(node) /\ node' = Peer
        /\ UNCHANGED <<data, size, phase, total>>
    BY <1>4 DEF NextNode, storeVars
  <2>2. node \in Nodes
    BY <2>1 DEF IInv, Position
  <2> SUFFICES ASSUME NEW n \in Nodes, IF phase = "up" THEN n < node' ELSE n > node'
               PROVE  NotTooMuch(n)'
    BY <2>1 DEF PassedWithinShare
  <2>3. n = node \/ (IF phase = "up" THEN n < node ELSE n > node)
    BY <2>1, <2>2, NodesAreInt DEF Peer
  <2>4. NotTooMuch(n)
    BY <2>1, <2>3 DEF PassedWithinShare
  <2> QED BY <2>1, <2>4, SameShare
<1>5. CASE LogSource \/ LogPeer \/ UpdateMeta
  <2>1. /\ pc \notin {"idle", "commit", "sum"}
        /\ UNCHANGED <<data, size, phase, node, total>>
    BY <1>5 DEF LogSource, LogPeer, UpdateMeta, LogAt, storeVars, loopVars
  <2> SUFFICES ASSUME NEW n \in Nodes, IF phase = "up" THEN n < node ELSE n > node
               PROVE  NotTooMuch(n)'
    BY <2>1 DEF PassedWithinShare
  <2>2. NotTooMuch(n)
    BY <2>1 DEF PassedWithinShare
  <2> QED BY <2>1, <2>2, SameShare
<1>6. CASE CommitSource
  <2> DEFINE e == DeleteEntry(mig.key)
  <2>1. /\ node \in Nodes /\ Peer \in Nodes /\ Applicable(e) /\ log[node] = {e}
        /\ CommitAt(node) /\ pc = "commitSource" /\ UNCHANGED <<phase, node, total>>
    BY <1>6, CommitSourceFacts
  <2> HIDE DEF e
  <2>2. \A x \in Nodes : x # node => data'[x] = data[x] /\ size'[x] = size[x]
    BY <1>0, <2>1, CommitEffect
  <2> QED BY <1>0, <2>1, <2>2, CommitLeavesPassed
<1>7. CASE CommitPeer
  <2> DEFINE e == PutEntry(mig.key, mig.val)
  <2>1. /\ node \in Nodes /\ Peer \in Nodes /\ Applicable(e) /\ log[Peer] = {e}
        /\ CommitAt(Peer) /\ pc = "commitPeer" /\ UNCHANGED <<phase, node, total>>
    BY <1>7, CommitPeerFacts
  <2> HIDE DEF e
  <2>2. \A x \in Nodes : x # Peer => data'[x] = data[x] /\ size'[x] = size[x]
    BY <1>0, <2>1, CommitEffect
  <2> QED BY <1>0, <2>1, <2>2, CommitLeavesPassed
<1>8. CASE UNCHANGED vars
  <2>1. UNCHANGED <<data, size, pc, phase, node, total>>
    BY <1>8 DEF vars, storeVars, loopVars
  <2> QED BY <2>1 DEF PassedWithinShare, NotTooMuch, StoreLessOrEqualOne
<1>9. CASE Commit \/ AddSize \/ Balanced \/ Restart
  BY <1>1, <1>9 DEF Commit, AddSize, Balanced, Restart
<1>10. CASE \E k \in Keys : (\E v \in Values : Put(k, v)) \/ Del(k) \/ Get(k)
  BY <1>1, <1>10 DEF Put, Del, Get
<1> QED BY <1>2, <1>3, <1>4, <1>5, <1>6, <1>7, <1>8, <1>9, <1>10 DEF Next, ReBalance

\* A node that a loop of re_balance has passed holds no more than its share, or
\* one key at most, until the loop ends: keys are pushed ahead of the loop only.
THEOREM PassedStaysWithinShare == Spec => []PassedWithinShare
<1>1. Init => PassedWithinShare
  BY DEF Init, PassedWithinShare
<1>2. IInv /\ PassedWithinShare /\ [Next]_vars => PassedWithinShare'
  BY PassedStep
<1> QED BY <1>1, <1>2, Inductive, PTL DEF Spec

-----------------------------------------------------------------------------
(* The total of the byte counters.                                         *)

\* One more turn of a counting loop.
LEMMA SumNext ==
  ASSUME NEW c, NEW m \in Nat
  PROVE  SumUpTo(c, 0) = 0 /\ SumUpTo(c, m + 1) = SumUpTo(c, m) + c[m + 1]
<1>1. PICK s : /\ SumUpTo(c, m) = s[m]
               /\ s[0] = 0
               /\ \A k \in 1 .. m : s[k] = s[k - 1] + c[k]
  BY SumTotals
<1>2. PICK t : /\ SumUpTo(c, m + 1) = t[m + 1]
               /\ t[0] = 0
               /\ \A k \in 1 .. m + 1 : t[k] = t[k - 1] + c[k]
  BY SumTotals
<1> DEFINE T == {k \in 0 .. m : t[k] # s[k]}
<1>3. T \subseteq Nat /\ 0 \notin T
  BY <1>1, <1>2
<1>4. ASSUME NEW x \in T, x \in Nat, x # 0, x - 1 \in Nat, x - 1 \notin T
      PROVE  FALSE
  <2>1. x \in 1 .. m /\ x \in 1 .. m + 1 /\ x - 1 \in 0 .. m /\ t[x] # s[x]
    BY <1>4
  <2>2. t[x - 1] = s[x - 1]
    BY <1>4, <2>1
  <2> QED BY <1>1, <1>2, <2>1, <2>2
<1>5. m \notin T
  <2> HIDE DEF T
  <2> QED BY <1>3, <1>4, LeastBad
<1>6. t[m] = s[m] /\ t[m + 1] = t[m] + c[m + 1]
  <2>1. m + 1 \in 1 .. m + 1 /\ (m + 1) - 1 = m
    OBVIOUS
  <2> QED BY <1>2, <1>5, <2>1
<1>7. SumUpTo(c, 0) = 0
  <2>1. 0 \in Nat
    OBVIOUS
  <2> QED BY <2>1, SumTotals
<1> QED BY <1>1, <1>2, <1>6, <1>7

\* The terms re_balance adds up.
Sizes(sz) == [i \in 1 .. N |-> sz[i - 1]]

\* Half way through the first loop, the total is that of the nodes asked so far.
Counting == pc = "sum" => total = SumUpTo(Sizes(size), node)

LEMMA SizesType ==
  ASSUME NEW sz \in [Nodes -> Int]
  PROVE  /\ Sizes(sz) \in [1 .. N -> Int] /\ SumUpTo(Sizes(sz), N) \in Int
         /\ \A n \in Nodes : n + 1 \in 1 .. N /\ Sizes(sz)[n + 1] = sz[n]
<1>1. Sizes(sz) \in [1 .. N -> Int]
  BY NAssumption DEF Sizes, Nodes
<1>2. \A n \in Nodes : n + 1 \in 1 .. N /\ Sizes(sz)[n + 1] = sz[n]
  BY NAssumption DEF Sizes, Nodes
<1> QED BY <1>1, <1>2, SumType, NAssumption

\* One counter that changes moves the total by as much.
LEMMA OneSize ==
  ASSUME NEW a \in [Nodes -> Int], NEW b \in [Nodes -> Int], NEW n \in Nodes,
         \A x \in Nodes : x # n => b[x] = a[x]
  PROVE  SumUpTo(Sizes(b), N) = SumUpTo(Sizes(a), N) + (b[n] - a[n])
<1>1. Sizes(a) \in [1 .. N -> Int] /\ Sizes(b) \in [1 .. N -> Int]
  BY SizesType
<1>2. /\ n + 1 \in 1 .. N /\ Sizes(a)[n + 1] = a[n] /\ Sizes(b)[n + 1] = b[n]
  BY SizesType
<1>3. ASSUME NEW k \in 1 .. N, k # n + 1 PROVE Sizes(b)[k] = Sizes(a)[k]
  <2>1. k - 1 \in Nodes /\ k - 1 # n
    BY <1>3, NAssumption DEF Nodes
  <2>2. b[k - 1] = a[k - 1]
    BY <2>1
  <2> QED BY <2>2 DEF Sizes
<1>4. N \in Nat
  BY NAssumption
<1> QED BY <1>1, <1>2, <1>3, <1>4, SumChange

\* A commit takes the weight of the moved key off one counter and adds it to
\* another, as long as no value is empty.
LEMMA SourceWeight ==
  ASSUME EmptyStr \notin Values, MInv, CommitSource
  PROVE  /\ size \in [Nodes -> Int] /\ size' \in [Nodes -> Int]
         /\ \A x \in Nodes : x # node => size'[x] = size[x]
         /\ size'[node] = size[node] - Weight(mig.key, mig.val)
         /\ Weight(mig.key, mig.val) \in Int
<1> DEFINE k == mig.key
           e == DeleteEntry(k)
<1>1. /\ TypeOK /\ node \in Nodes /\ Applicable(e) /\ log[node] = {e} /\ CommitAt(node)
      /\ pc = "commitSource" /\ k \in Keys
  BY CommitSourceFacts DEF MInv
<1>2. k \in DOMAIN data[node] /\ mig.val = data[node][k]
  BY <1>1 DEF MInv, Owned
<1>3. e.key = k /\ e.kind # PUT
  BY DEF DeleteEntry, PUT, DELETE
<1> HIDE DEF e
<1>4. /\ \A x \in Nodes : x # node => size'[x] = size[x]
      /\ size'[node] = SizeAfter(data[node], size[node], e)
      /\ size \in [Nodes -> Int] /\ size' \in [Nodes -> Int]
      /\ IsDb(data[node], Values)
  BY <1>1, CommitEffect
<1>5. mig.val \in Values
  BY <1>2, <1>4 DEF IsDb
<1>6. ValLen[mig.val] # 0 /\ DbGet(data[node], k) = mig.val
  BY <1>2, <1>5, ValLenAssumption DEF DbGet
<1>7. Weight(k, mig.val) \in Int
  BY <1>1, <1>5, WeightType
<1>8. size[node] \in Int
  BY <1>1, <1>4
<1>9. SizeAfter(data[node], size[node], e) = size[node] - Weight(k, mig.val)
  <2> HIDE DEF k
  <2>1. SizeWithout(data[node], size[node], k) = size[node] - Weight(k, mig.val)
    BY <1>6 DEF SizeWithout
  <2> QED BY <1>3, <1>7, <1>8, <2>1 DEF SizeAfter
<1> QED BY <1>4, <1>7, <1>9

LEMMA PeerWeight ==
  ASSUME MInv, CommitPeer
  PROVE  /\ size \in [Nodes -> Int] /\ size' \in [Nodes -> Int]
         /\ \A x \in Nodes : x # Peer => size'[x] = size[x]
         /\ size'[Peer] = size[Peer] + Weight(mig.key, mig.val)
         /\ Weight(mig.key, mig.val) \in Int
<1> DEFINE k == mig.key
           e == PutEntry(k, mig.val)
<1>1. /\ TypeOK /\ Peer \in Nodes /\ Applicable(e) /\ log[Peer] = {e} /\ CommitAt(Peer)
      /\ pc = "commitPeer" /\ k \in Keys /\ mig.val \in Values
  BY CommitPeerFacts DEF MInv
<1>2. k \notin DOMAIN data[Peer]
  BY <1>1 DEF MInv, Owned
<1>3. e.key = k /\ e.kind = PUT /\ e.val = mig.val
  BY DEF PutEntry
<1> HIDE DEF e
<1>4. /\ \A x \in Nodes : x # Peer => size'[x] = size[x]
      /\ size'[Peer] = SizeAfter(data[Peer], size[Peer], e)
      /\ size \in [Nodes -> Int] /\ size' \in [Nodes -> Int]
  BY <1>1, CommitEffect
<1>5. ValLen[DbGet(data[Peer], k)] = 0
  BY <1>2, ValLenAssumption DEF DbGet
<1>6. Weight(k, mig.val) \in Int
  BY <1>1, WeightType
<1>7. SizeAfter(data[Peer], size[Peer], e) = size[Peer] + Weight(k, mig.val)
  <2> HIDE DEF k
  <2>1. SizeWithout(data[Peer], size[Peer], k) = size[Peer]
    BY <1>5 DEF SizeWithout
  <2> QED BY <1>3, <2>1 DEF SizeAfter
<1> QED BY <1>4, <1>6, <1>7

LEMMA TotalStep ==
  ASSUME EmptyStr \notin Values, MInv, Counting, TotalStaysExact, [Next]_vars
  PROVE  Counting' /\ TotalStaysExact'
<1> DEFINE Sum == SumUpTo(Sizes(size), N)
<1>0. TypeOK /\ Fresh
  BY DEF MInv, IInv
<1>1. /\ TotalStaysExact <=>
           (pc \notin {"idle", "commit", "sum"} =>
              total = Sum + (IF pc = "commitPeer" THEN Weight(mig.key, mig.val) ELSE 0))
      /\ TotalStaysExact' <=>
           (pc' \notin {"idle", "commit", "sum"} =>
              total' = Sum' + (IF pc' = "commitPeer" THEN Weight(mig'.key, mig'.val) ELSE 0))
  BY DEF TotalStaysExact, Sizes
<1>2. size \in [Nodes -> Int] /\ Sum \in Int
  BY <1>0, SizesType DEF TypeOK
<1> HIDE DEF Sum
<1>3. CASE Commit
  <2>1. pc' = "sum" /\ total' = 0 /\ node' = 0
    BY <1>0, <1>3 DEF Commit, Fresh, loopVars
  <2>2. SumUpTo(Sizes(size'), 0) = 0
    BY SumNext
  <2> QED BY <1>1, <2>1, <2>2 DEF Counting
<1>4. CASE AddSize
  <2>1. /\ pc = "sum" /\ pc' = "sum" /\ node \in Nodes /\ size' = size
        /\ total' = total + size[node] /\ node' = node + 1
    BY <1>0, <1>4, NAssumption DEF AddSize, TypeOK, Nodes, storeVars
  <2>2. SumUpTo(Sizes(size), node + 1) = SumUpTo(Sizes(size), node) + Sizes(size)[node + 1]
    BY <2>1, SumNext DEF Nodes
  <2>3. Sizes(size)[node + 1] = size[node]
    BY <1>2, <2>1, SizesType
  <2> QED BY <1>1, <2>1, <2>2, <2>3 DEF Counting
<1>5. CASE EnterUp
  <2>1. pc = "sum" /\ pc' = "loop" /\ node = N /\ size' = size /\ total' = total
    BY <1>5 DEF EnterUp, storeVars
  <2>2. total = Sum /\ Sum' = Sum
    BY <2>1 DEF Counting, Sum
  <2> QED BY <1>1, <1>2, <2>1, <2>2 DEF Counting
<1>6. CASE EnterDown \/ NextNode \/ LogSource \/ LogPeer \/ UpdateMeta
  <2>1. /\ pc \notin {"idle", "commit", "sum", "commitPeer"}
        /\ pc' \notin {"idle", "commit", "sum", "commitPeer"}
        /\ size' = size /\ total' = total
    BY <1>6 DEF EnterDown, NextNode, LogSource, LogPeer, UpdateMeta, LogAt, storeVars,
                loopVars
  <2>2. Sum' = Sum
    BY <2>1 DEF Sum
  <2> QED BY <1>1, <2>1, <2>2 DEF Counting
<1>7. CASE Balanced \/ Restart
  BY <1>1, <1>7 DEF Balanced, Restart, Counting
<1>8. CASE \E k \in Keys : (\E v \in Values : Put(k, v)) \/ Del(k) \/ Get(k)
  BY <1>1, <1>8 DEF Put, Del, Get, Counting
<1>9. CASE CommitSource
  <2>1. /\ node \in Nodes /\ pc = "commitSource" /\ pc' = "commitPeer"
        /\ total' = total /\ mig' = mig
    BY <1>9, CommitSourceFacts DEF MInv
  <2>2. /\ size' \in [Nodes -> Int] /\ Weight(mig.key, mig.val) \in Int
        /\ \A x \in Nodes : x # node => size'[x] = size[x]
        /\ size'[node] = size[node] - Weight(mig.key, mig.val)
    BY <1>9, SourceWeight
  <2>3. Sum' = Sum + (size'[node] - size[node])
    BY <1>2, <2>1, <2>2, OneSize DEF Sum
  <2>4. size[node] \in Int
    BY <1>2, <2>1
  <2>5. Sum' = Sum - Weight(mig.key, mig.val)
    BY <1>2, <2>2, <2>3, <2>4
  <2> QED BY <1>1, <1>2, <2>1, <2>2, <2>5 DEF Counting
<1>10. CASE CommitPeer
  <2>1. Peer \in Nodes /\ pc = "commitPeer" /\ pc' = "loop" /\ total' = total
    BY <1>10, CommitPeerFacts DEF MInv
  <2>2. /\ size' \in [Nodes -> Int] /\ Weight(mig.key, mig.val) \in Int
        /\ \A x \in Nodes : x # Peer => size'[x] = size[x]
        /\ size'[Peer] = size[Peer] + Weight(mig.key, mig.val)
    BY <1>10, PeerWeight
  <2>3. Sum' = Sum + (size'[Peer] - size[Peer])
    BY <1>2, <2>1, <2>2, OneSize DEF Sum
  <2>4. size[Peer] \in Int
    BY <1>2, <2>1
  <2>5. Sum' = Sum + Weight(mig.key, mig.val)
    BY <1>2, <2>2, <2>3, <2>4
  <2> QED BY <1>1, <1>2, <2>1, <2>2, <2>5 DEF Counting
<1>11. CASE UNCHANGED vars
  <2>1. UNCHANGED <<size, pc, node, total, mig>>
    BY <1>11 DEF vars, storeVars, loopVars
  <2>2. Sum' = Sum
    BY <2>1 DEF Sum
  <2> QED BY <1>1, <2>1, <2>2 DEF Counting
<1> QED BY <1>3, <1>4, <1>5, <1>6, <1>7, <1>8, <1>9, <1>10, <1>11 DEF Next, ReBalance

\* The total that re_balance adds up before it moves anything is the total of
\* the nodes all the time it moves keys, the key in flight included: comparing
\* with it is comparing with the present total.
THEOREM TotalIsExact ==
  ASSUME EmptyStr \notin Values
  PROVE  Spec => []TotalStaysExact
<1>1. Init => Counting /\ TotalStaysExact
  BY DEF Init, Counting, TotalStaysExact
<1>2. MInv /\ Counting /\ TotalStaysExact /\ [Next]_vars => Counting' /\ TotalStaysExact'
  BY TotalStep
<1> QED BY <1>1, <1>2, InductiveMap, PTL DEF Spec

-----------------------------------------------------------------------------
(* The cluster implements KVStore.                                         *)

\* The keys the nodes hold, and the key between the commits of a migration.
Stored == UNION {DOMAIN data[n] : n \in Nodes}

Flying == IF pc = "commitPeer" THEN {mig.key} ELSE {}

\* The client's map has at each key the value of the node that holds it.
MapIsWhole ==
  /\ DOMAIN ClientMap = Stored \cup Flying
  /\ ClientMap = [k \in DOMAIN ClientMap |-> ClientMap[k]]
  /\ \A n \in Nodes : \A k \in DOMAIN data[n] : ClientMap[k] = data[n][k]
  /\ pc = "commitPeer" => ClientMap[mig.key] = mig.val

LEMMA MapFacts ==
  ASSUME IInv, Owned
  PROVE  MapIsWhole
<1>1. Disjoint
  BY OwnedDisjoint
<1>2. /\ DOMAIN ClientMap = Stored \cup Flying
      /\ ClientMap = [k \in DOMAIN ClientMap |-> ClientMap[k]]
      /\ \A k \in Stored \cup Flying :
           ClientMap[k] = IF k \in Stored
                          THEN data[CHOOSE n \in Nodes : k \in DOMAIN data[n]][k]
                          ELSE mig.val
  BY DEF ClientMap, Stored, Flying
<1>3. ASSUME NEW n \in Nodes, NEW k \in DOMAIN data[n]
      PROVE  ClientMap[k] = data[n][k]
  <2>1. k \in Stored
    BY <1>3 DEF Stored
  <2>2. (CHOOSE x \in Nodes : k \in DOMAIN data[x]) = n
    BY <1>1, <1>3 DEF Disjoint
  <2> QED BY <1>2, <2>1, <2>2
<1>4. ASSUME pc = "commitPeer" PROVE ClientMap[mig.key] = mig.val
  <2>1. mig.key \in Flying /\ mig.key \notin Stored
    BY <1>4 DEF Owned, Flying, Stored
  <2> QED BY <1>2, <2>1
<1> QED BY <1>2, <1>3, <1>4 DEF MapIsWhole

LEMMA KVDefs ==
  /\ \A db, e : KV!DataAfter(db, e) = DataAfter(db, e)
  /\ \A db, k : KV!DbGet(db, k) = DbGet(db, k)
  /\ \A k, v : KV!PutEntry(k, v) = PutEntry(k, v)
  /\ \A k : KV!DeleteEntry(k) = DeleteEntry(k)
  /\ KV!Keys = Keys /\ KV!EmptyStr = EmptyStr
BY DEF KV!DataAfter, DataAfter, KV!DbPut, DbPut, KV!DbDelete, DbDelete, KV!DbGet,
       DbGet, KV!PutEntry, PutEntry, KV!DeleteEntry, DeleteEntry, KV!Keys, Keys,
       KV!EmptyStr, EmptyStr, KV!PUT, PUT, KV!DELETE, DELETE

\* DataAfter on any map.
LEMMA AfterAny ==
  ASSUME NEW f, NEW e
  PROVE  /\ DOMAIN DataAfter(f, e) = IF e.kind = PUT THEN DOMAIN f \cup {e.key}
                                                     ELSE DOMAIN f \ {e.key}
         /\ e.kind = PUT => DataAfter(f, e)[e.key] = e.val
         /\ \A k \in DOMAIN f : k # e.key => DataAfter(f, e)[k] = f[k]
BY DEF DataAfter, DbPut, DbDelete

\* What a commit leaves the nodes with together.
LEMMA StoredAfter ==
  ASSUME NEW n \in Nodes, NEW e,
         data'[n] = DataAfter(data[n], e),
         \A x \in Nodes : x # n => data'[x] = data[x],
         \A x \in Nodes : e.key \in DOMAIN data[x] => x = n
  PROVE  Stored' = IF e.kind = PUT THEN Stored \cup {e.key} ELSE Stored \ {e.key}
<1>1. DOMAIN (data'[n]) = IF e.kind = PUT THEN DOMAIN data[n] \cup {e.key}
                                          ELSE DOMAIN data[n] \ {e.key}
  BY DataAfterDomain
<1>2. \A k : k \in Stored <=> \E x \in Nodes : k \in DOMAIN data[x]
  BY DEF Stored
<1>3. \A k : k \in Stored' <=> \E x \in Nodes : k \in DOMAIN (data'[x])
  BY DEF Stored
<1>4. CASE e.kind = PUT
  <2>1. \A k : k \in Stored' <=> k \in Stored \/ k = e.key
    BY <1>1, <1>2, <1>3, <1>4
  <2> QED BY <1>4, <2>1
<1>5. CASE e.kind # PUT
  <2>1. \A k : k \in Stored' <=> k \in Stored /\ k # e.key
    BY <1>1, <1>2, <1>3, <1>5
  <2> QED BY <1>5, <2>1
<1> QED BY <1>4, <1>5

\* COMMIT_LOG of a command performs it on the client's map.
LEMMA CommitPerforms ==
  ASSUME MInv, MapIsWhole, MapIsWhole', Commit
  PROVE  ClientMap' = DataAfter(ClientMap, req)
<1> DEFINE g == DataAfter(ClientMap, req)
<1>1. /\ TypeOK /\ fd \in Nodes /\ Applicable(req) /\ log[fd] = {req} /\ CommitAt(fd)
      /\ pc = "commit" /\ pc' = "sum"
  BY CommitFacts DEF MInv
<1>2. /\ data'[fd] = DataAfter(data[fd], req)
      /\ \A x \in Nodes : x # fd => data'[x] = data[x]
  BY <1>1, CommitEffect
<1>3. \A x \in Nodes : req.key \in DOMAIN data[x] => x = fd
  BY <1>1 DEF MInv, Owned
<1>4. /\ DOMAIN ClientMap = Stored /\ DOMAIN (ClientMap') = Stored'
      /\ ClientMap' = [k \in DOMAIN (ClientMap') |-> ClientMap'[k]]
  BY <1>1 DEF MapIsWhole, Flying
<1>5. /\ g = [k \in DOMAIN g |-> g[k]]
      /\ DOMAIN g = IF req.kind = PUT THEN Stored \cup {req.key} ELSE Stored \ {req.key}
      /\ req.kind = PUT => g[req.key] = req.val
      /\ \A k \in Stored : k # req.key => g[k] = ClientMap[k]
  <2> DEFINE f == ClientMap
  <2> HIDE DEF f
  <2>1. DOMAIN f = Stored
    BY <1>4 DEF f
  <2>2. g = DataAfter(f, req)
    BY DEF f
  <2> HIDE DEF g
  <2>3. g = [k \in DOMAIN g |-> g[k]]
    BY <2>2 DEF DataAfter, DbPut, DbDelete
  <2>4. /\ DOMAIN g = IF req.kind = PUT THEN DOMAIN f \cup {req.key} ELSE DOMAIN f \ {req.key}
        /\ req.kind = PUT => g[req.key] = req.val
        /\ \A k \in DOMAIN f : k # req.key => g[k] = f[k]
    BY <2>2, AfterAny, Zenon
  <2> QED BY <2>1, <2>3, <2>4 DEF f
<1> HIDE DEF g
<1>6. /\ DOMAIN (data'[fd]) = IF req.kind = PUT THEN DOMAIN data[fd] \cup {req.key}
                                               ELSE DOMAIN data[fd] \ {req.key}
      /\ req.kind = PUT => data'[fd][req.key] = req.val
      /\ \A k \in DOMAIN data[fd] : k # req.key => data'[fd][k] = data[fd][k]
  <2> DEFINE d == data[fd]
             h == data'[fd]
  <2>1. h = DataAfter(d, req)
    BY <1>2
  <2> HIDE DEF d, h
  <2>2. /\ DOMAIN h = IF req.kind = PUT THEN DOMAIN d \cup {req.key}
                                        ELSE DOMAIN d \ {req.key}
        /\ req.kind = PUT => h[req.key] = req.val
        /\ \A k \in DOMAIN d : k # req.key => h[k] = d[k]
    BY <2>1, AfterAny, Zenon
  <2> QED BY <2>2 DEF d, h
<1>7. DOMAIN (ClientMap') = DOMAIN g
  BY <1>1, <1>2, <1>3, <1>4, <1>5, StoredAfter
<1>8. ASSUME NEW k \in Stored' PROVE ClientMap'[k] = g[k]
  <2>1. PICK n \in Nodes : k \in DOMAIN (data'[n])
    BY <1>8 DEF Stored
  <2>2. ClientMap'[k] = data'[n][k]
    BY <2>1 DEF MapIsWhole
  <2>3. CASE n = fd /\ k = req.key
    <3>1. req.kind = PUT /\ data'[fd][k] = req.val
      BY <1>6, <2>1, <2>3
    <3> QED BY <1>5, <2>2, <2>3, <3>1
  <2>4. CASE n # fd \/ k # req.key
    <3>1. k \in DOMAIN data[n] /\ data'[n][k] = data[n][k] /\ k # req.key
      <4>1. CASE n # fd
        BY <1>2, <1>3, <2>1, <4>1
      <4>2. CASE n = fd /\ k # req.key
        BY <1>6, <2>1, <4>2
      <4> QED BY <2>4, <4>1, <4>2
    <3>2. ClientMap[k] = data[n][k] /\ k \in Stored
      BY <3>1 DEF MapIsWhole, Stored
    <3> QED BY <1>5, <2>2, <3>1, <3>2
  <2> QED BY <2>3, <2>4
<1>9. ClientMap' = g
  <2>1. ClientMap' = [k \in DOMAIN g |-> ClientMap'[k]]
    BY <1>4, <1>7
  <2>2. \A k \in DOMAIN g : ClientMap'[k] = g[k]
    BY <1>4, <1>7, <1>8
  <2> QED BY <1>5, <2>1, <2>2
<1> QED BY <1>9 DEF g

LEMMA SameMap ==
  ASSUME NEW f, NEW g, f = [k \in DOMAIN f |-> f[k]], g = [k \in DOMAIN g |-> g[k]],
         DOMAIN f = DOMAIN g, \A k \in DOMAIN f : f[k] = g[k]
  PROVE  f = g
<1>1. f = [k \in DOMAIN g |-> f[k]]
  OBVIOUS
<1>2. \A k \in DOMAIN g : f[k] = g[k]
  OBVIOUS
<1> QED BY <1>1, <1>2

\* What a commit of e at node n leaves of the values of the other keys.
LEMMA OthersKept ==
  ASSUME NEW n \in Nodes, NEW e,
         data'[n] = DataAfter(data[n], e),
         \A x \in Nodes : x # n => data'[x] = data[x],
         \A x \in Nodes : e.key \in DOMAIN data[x] => x = n,
         MapIsWhole, MapIsWhole', NEW k \in Stored', k # e.key
  PROVE  ClientMap'[k] = ClientMap[k]
<1>1. PICK x \in Nodes : k \in DOMAIN (data'[x])
  BY DEF Stored
<1>2. k \in DOMAIN data[x] /\ data'[x][k] = data[x][k]
  <2>1. CASE x # n
    BY <1>1, <2>1
  <2>2. CASE x = n
    <3> DEFINE d == data[n]
               h == data'[n]
    <3>1. h = DataAfter(d, e) /\ k \in DOMAIN h
      BY <1>1, <2>2
    <3> HIDE DEF d, h
    <3>2. k \in DOMAIN d
      <4>1. DOMAIN DataAfter(d, e) = IF e.kind = PUT THEN DOMAIN d \cup {e.key}
                                                    ELSE DOMAIN d \ {e.key}
        BY DataAfterDomain
      <4> QED BY <3>1, <4>1
    <3>3. h[k] = d[k]
      <4>1. \A y \in DOMAIN d : y # e.key => DataAfter(d, e)[y] = d[y]
        BY AfterAny, Zenon
      <4> QED BY <3>1, <3>2, <4>1, Zenon
    <3> QED BY <2>2, <3>2, <3>3 DEF d, h
  <2> QED BY <2>1, <2>2
<1> QED BY <1>1, <1>2 DEF MapIsWhole

\* Neither commit of a migration is seen by the client.
LEMMA SourceUnseen ==
  ASSUME MInv, MapIsWhole, MapIsWhole', CommitSource
  PROVE  ClientMap' = ClientMap
<1> DEFINE k == mig.key
           e == DeleteEntry(k)
<1>1. /\ TypeOK /\ node \in Nodes /\ Applicable(e) /\ log[node] = {e} /\ CommitAt(node)
      /\ pc = "commitSource" /\ pc' = "commitPeer" /\ mig' = mig
  BY CommitSourceFacts DEF MInv
<1>2. e.key = k /\ e.kind # PUT
  BY DEF DeleteEntry, PUT, DELETE
<1> HIDE DEF e
<1>3. /\ data'[node] = DataAfter(data[node], e)
      /\ \A x \in Nodes : x # node => data'[x] = data[x]
  BY <1>1, CommitEffect
<1>4. /\ k \in DOMAIN data[node] /\ mig.val = data[node][k]
      /\ \A x \in Nodes : k \in DOMAIN data[x] => x = node
  BY <1>1 DEF MInv, Owned
<1>5. Stored' = Stored \ {k}
  BY <1>1, <1>2, <1>3, <1>4, StoredAfter
<1>6. /\ DOMAIN ClientMap = Stored /\ DOMAIN (ClientMap') = Stored' \cup {k}
      /\ k \in Stored /\ ClientMap[k] = mig.val /\ ClientMap'[k] = mig.val
  BY <1>1, <1>4 DEF MapIsWhole, Flying, Stored
<1>7. DOMAIN (ClientMap') = DOMAIN ClientMap
  BY <1>5, <1>6
<1>8. \A x \in Stored' : ClientMap'[x] = ClientMap[x]
  BY <1>1, <1>2, <1>3, <1>4, <1>5, OthersKept
<1>9. \A x \in DOMAIN (ClientMap') : ClientMap'[x] = ClientMap[x]
  BY <1>6, <1>8
<1>10. /\ ClientMap = [x \in DOMAIN ClientMap |-> ClientMap[x]]
       /\ ClientMap' = [x \in DOMAIN (ClientMap') |-> ClientMap'[x]]
  BY DEF MapIsWhole
<1> QED BY <1>7, <1>9, <1>10, SameMap

LEMMA PeerUnseen ==
  ASSUME MInv, MapIsWhole, MapIsWhole', CommitPeer
  PROVE  ClientMap' = ClientMap
<1> DEFINE k == mig.key
           e == PutEntry(k, mig.val)
           p == Peer
<1>1. /\ TypeOK /\ p \in Nodes /\ Applicable(e) /\ log[p] = {e} /\ CommitAt(p)
      /\ pc = "commitPeer" /\ pc' = "loop"
  BY CommitPeerFacts DEF MInv
<1>2. e.key = k /\ e.kind = PUT /\ e.val = mig.val
  BY DEF PutEntry
<1> HIDE DEF e, p
<1>3. /\ data'[p] = DataAfter(data[p], e)
      /\ \A x \in Nodes : x # p => data'[x] = data[x]
  BY <1>1, CommitEffect
<1>4. \A x \in Nodes : k \notin DOMAIN data[x]
  BY <1>1 DEF MInv, Owned
<1>5. Stored' = Stored \cup {k}
  BY <1>1, <1>2, <1>3, <1>4, StoredAfter
<1>6. /\ DOMAIN ClientMap = Stored \cup {k} /\ DOMAIN (ClientMap') = Stored'
      /\ ClientMap[k] = mig.val
  BY <1>1 DEF MapIsWhole, Flying
<1>7. DOMAIN (ClientMap') = DOMAIN ClientMap
  BY <1>5, <1>6
<1>8. \A x \in Stored' : x # k => ClientMap'[x] = ClientMap[x]
  BY <1>1, <1>2, <1>3, <1>4, OthersKept
<1>9. ClientMap'[k] = mig.val
  <2> DEFINE d == data[p]
             h == data'[p]
  <2>1. h = DataAfter(d, e)
    BY <1>3
  <2> HIDE DEF d, h
  <2>2. k \in DOMAIN h /\ h[k] = mig.val
    BY <1>2, <2>1, AfterAny
  <2> QED BY <1>1, <2>2 DEF h, MapIsWhole
<1>10. \A x \in DOMAIN (ClientMap') : ClientMap'[x] = ClientMap[x]
  BY <1>6, <1>8, <1>9
<1>11. /\ ClientMap = [x \in DOMAIN ClientMap |-> ClientMap[x]]
       /\ ClientMap' = [x \in DOMAIN (ClientMap') |-> ClientMap'[x]]
  BY DEF MapIsWhole
<1> QED BY <1>7, <1>10, <1>11, SameMap

\* GET at the node a key is looked up at answers what the client's map holds.
LEMMA GetAnswers ==
  ASSUME MInv, MapIsWhole, pc = "idle", NEW k \in Keys
  PROVE  DbGet(data[Route(k)], k) = DbGet(ClientMap, k)
<1>1. DOMAIN ClientMap = Stored
  BY DEF MapIsWhole, Flying
<1>2. Route(k) \in Nodes
  BY LookupPlace, ShapeType DEF MInv, IInv, Route
<1>3. ASSUME NEW n \in Nodes, k \in DOMAIN data[n] PROVE Route(k) = n
  <2>1. ~Leaving(n, k)
    BY DEF Leaving
  <2> QED BY <1>3, <2>1, FoundAt DEF MInv
<1>4. CASE k \in Stored
  <2>1. PICK n \in Nodes : k \in DOMAIN data[n]
    BY <1>4 DEF Stored
  <2>2. Route(k) = n /\ ClientMap[k] = data[n][k]
    BY <1>3, <2>1 DEF MapIsWhole
  <2> QED BY <1>1, <1>4, <2>1, <2>2 DEF DbGet
<1>5. CASE k \notin Stored
  <2>1. k \notin DOMAIN data[Route(k)]
    BY <1>2, <1>5 DEF Stored
  <2> QED BY <1>1, <1>5, <2>1 DEF DbGet
<1> QED BY <1>4, <1>5

LEMMA InitRefines == Init => KV!Init
<1> SUFFICES ASSUME Init PROVE KV!Init
  OBVIOUS
<1>1. req = Idle /\ out = EmptyStr /\ pc = "idle" /\ \A n \in Nodes : DOMAIN data[n] = {}
  BY DEF Init
<1>2. ClientMap = [k \in {} |-> EmptyStr]
  <2>1. UNION {DOMAIN data[n] : n \in Nodes} = {}
    BY <1>1
  <2> QED BY <1>1, <2>1 DEF ClientMap
<1> QED BY <1>1, <1>2 DEF KV!Init, KV!EmptyStr, EmptyStr

LEMMA SameData ==
  ASSUME data' = data, pc # "commitPeer", pc' # "commitPeer"
  PROVE  ClientMap' = ClientMap
BY DEF ClientMap

\* Put and del accept a command, its commit performs it, get answers, and every
\* other step is invisible.
LEMMA StepRefines ==
  ASSUME MInv, MapIsWhole, MapIsWhole', [Next]_vars
  PROVE  [KV!Next]_(KV!vars)
<1>0. Fresh
  BY DEF MInv
<1>1. ASSUME NEW k \in Keys, NEW v \in Values, Put(k, v) PROVE KV!Next
  <2>1. /\ pc = "idle" /\ pc' = "commit" /\ data' = data
        /\ req' = PutEntry(k, v) /\ out' = out
    BY <1>1 DEF Put, LogAt
  <2>2. req = Idle /\ ClientMap' = ClientMap
    BY <1>0, <2>1, SameData DEF Fresh
  <2>3. KV!Accept(KV!PutEntry(k, v))
    BY <2>1, <2>2, KVDefs DEF KV!Accept
  <2> QED BY <2>3, KVDefs DEF KV!Next
<1>2. ASSUME NEW k \in Keys, Del(k) PROVE KV!Next
  <2>1. /\ pc = "idle" /\ pc' = "commit" /\ data' = data
        /\ req' = DeleteEntry(k) /\ out' = out
    BY <1>2 DEF Del, LogAt
  <2>2. req = Idle /\ ClientMap' = ClientMap
    BY <1>0, <2>1, SameData DEF Fresh
  <2>3. KV!Accept(KV!DeleteEntry(k))
    BY <2>1, <2>2, KVDefs DEF KV!Accept
  <2> QED BY <2>3, KVDefs DEF KV!Next
<1>3. ASSUME NEW k \in Keys, Get(k) PROVE KV!Next
  <2>1. /\ pc = "idle" /\ pc' = "idle" /\ data' = data /\ req' = req
        /\ out' = DbGet(data[Route(k)], k)
    BY <1>3 DEF Get, storeVars
  <2>2. req = Idle /\ ClientMap' = ClientMap
    BY <1>0, <2>1, SameData DEF Fresh
  <2>3. out' = DbGet(ClientMap, k)
    BY <2>1, GetAnswers
  <2>4. KV!Get(k)
    BY <2>1, <2>2, <2>3, KVDefs DEF KV!Get
  <2> QED BY <2>4, KVDefs DEF KV!Next
<1>4. CASE Commit
  <2>1. pc = "commit" /\ req' = Idle /\ out' = out /\ Applicable(req)
    BY <1>4, CommitFacts DEF MInv
  <2>2. req # Idle
    BY <2>1, IdleAssumption DEF Applicable
  <2>3. ClientMap' = DataAfter(ClientMap, req)
    BY <1>4, CommitPerforms
  <2>4. KV!Perform
    BY <2>1, <2>2, <2>3, KVDefs DEF KV!Perform
  <2> QED BY <2>4 DEF KV!Next
<1>5. CASE CommitSource
  BY <1>5, SourceUnseen DEF CommitSource, ctlVars, KV!vars
<1>6. CASE CommitPeer
  BY <1>6, PeerUnseen DEF CommitPeer, ctlVars, KV!vars
<1>7. CASE AddSize \/ EnterUp \/ EnterDown \/ NextNode \/ Balanced \/ UpdateMeta \/ Restart
  <2>1. data' = data /\ req' = req /\ out' = out /\ pc # "commitPeer" /\ pc' # "commitPeer"
    BY <1>7 DEF AddSize, EnterUp, EnterDown, NextNode, Balanced, UpdateMeta, Restart,
                storeVars, ctlVars
  <2> QED BY <2>1, SameData DEF KV!vars
<1>8. CASE LogSource \/ LogPeer
  <2>1. data' = data /\ req' = req /\ out' = out /\ pc # "commitPeer" /\ pc' # "commitPeer"
    BY <1>8 DEF LogSource, LogPeer, LogAt, ctlVars
  <2> QED BY <2>1, SameData DEF KV!vars
<1>9. CASE UNCHANGED vars
  BY <1>9 DEF vars, storeVars, ctlVars, ClientMap, KV!vars
<1> QED BY <1>1, <1>2, <1>3, <1>4, <1>5, <1>6, <1>7, <1>8, <1>9 DEF Next, ReBalance

\* The cluster implements one map for its client, for every number of nodes:
\* put and del take effect exactly once and on their own key, get answers from
\* the map, and re_balance and restarts are invisible.
THEOREM ClusterIsOneMap == Spec => ImplementsKV
<1>1. MInv => MapIsWhole
  BY MapFacts DEF MInv
<1>2. MInv /\ MapIsWhole /\ MapIsWhole' /\ [Next]_vars => [KV!Next]_(KV!vars)
  BY StepRefines
<1> QED BY <1>1, <1>2, InitRefines, InductiveMap, PTL DEF Spec, ImplementsKV, KV!Spec

-----------------------------------------------------------------------------
(* A command ends.                                                         *)

\* Below, on four numbers.
LEMMA BelowFour ==
  ASSUME NEW a1 \in Nat, NEW a2 \in Nat, NEW a3 \in Nat, NEW a4 \in Nat,
         NEW b1 \in Nat, NEW b2 \in Nat, NEW b3 \in Nat, NEW b4 \in Nat,
         \/ a1 < b1
         \/ a1 = b1 /\ a2 < b2
         \/ a1 = b1 /\ a2 = b2 /\ a3 < b3
         \/ a1 = b1 /\ a2 = b2 /\ a3 = b3 /\ a4 < b4
  PROVE  Below(<<a1, a2, a3, a4>>, <<b1, b2, b3, b4>>)
<1> DEFINE a == <<a1, a2, a3, a4>>
           b == <<b1, b2, b3, b4>>
<1>1. /\ DOMAIN b = 1 .. 4 /\ a \in [1 .. 4 -> Nat]
      /\ a[1] = a1 /\ a[2] = a2 /\ a[3] = a3 /\ a[4] = a4
      /\ b[1] = b1 /\ b[2] = b2 /\ b[3] = b3 /\ b[4] = b4
  OBVIOUS
<1> HIDE DEF a, b
<1>2. SUFFICES \E i \in 1 .. 4 : a[i] < b[i] /\ \A j \in 1 .. i - 1 : a[j] = b[j]
  BY <1>1 DEF Below, a, b
<1>3. CASE a1 < b1
  <2>1. 1 \in 1 .. 4 /\ \A j \in 1 .. 1 - 1 : a[j] = b[j]
    OBVIOUS
  <2> QED BY <1>1, <1>3, <2>1
<1>4. CASE a1 = b1 /\ a2 < b2
  <2>1. 2 \in 1 .. 4 /\ 1 .. 2 - 1 = {1}
    OBVIOUS
  <2> QED BY <1>1, <1>4, <2>1
<1>5. CASE a1 = b1 /\ a2 = b2 /\ a3 < b3
  <2>1. 3 \in 1 .. 4 /\ 1 .. 3 - 1 = {1, 2}
    OBVIOUS
  <2> QED BY <1>1, <1>5, <2>1
<1>6. CASE a1 = b1 /\ a2 = b2 /\ a3 = b3 /\ a4 < b4
  <2>1. 4 \in 1 .. 4 /\ 1 .. 4 - 1 = {1, 2, 3}
    OBVIOUS
  <2> QED BY <1>1, <1>6, <2>1
<1> QED BY <1>3, <1>4, <1>5, <1>6

Turning == pc \in {"loop", "logPeer", "meta", "commitSource", "commitPeer"}

\* The loop that is left to run after this one, and the nodes left of this one.
LoopsLeft == IF phase = "up" THEN 2 ELSE 1

NodesLeft == IF phase = "up" THEN N - 1 - node ELSE node

KeysLeft == Cardinality(DOMAIN data[node])

LoopRank ==
  /\ Rank = <<LoopsLeft, NodesLeft, KeysLeft, RequestsLeft>>
  /\ LoopsLeft \in Nat /\ NodesLeft \in Nat /\ KeysLeft \in Nat /\ RequestsLeft \in Nat
  /\ LoopsLeft \in {1, 2}

LEMMA RankInLoop == IInv /\ Turning => LoopRank
<1> SUFFICES ASSUME IInv, Turning PROVE LoopRank
  OBVIOUS
<1>1. TypeOK /\ node \in Nodes
  BY DEF IInv, Position, Turning
<1>2. KeysLeft \in Nat
  BY <1>1, FiniteDb DEF TypeOK, KeysLeft
<1>3. NodesLeft \in Nat
  BY <1>1, NAssumption DEF NodesLeft, Nodes
<1>4. LoopsLeft \in {1, 2} /\ RequestsLeft \in Nat
  BY DEF Turning, LoopsLeft, RequestsLeft
<1>5. Rank = <<LoopsLeft, NodesLeft, KeysLeft, RequestsLeft>>
  BY DEF Turning, Rank, LoopsLeft, NodesLeft, KeysLeft
<1> QED BY <1>2, <1>3, <1>4, <1>5 DEF LoopRank

LEMMA RankInLoopNext == IInv' /\ Turning' => LoopRank'
BY RankInLoop, PTL

LEMMA LoopDescends ==
  ASSUME IInv, IInv', Turning, Turning',
         \/ LoopsLeft' < LoopsLeft
         \/ LoopsLeft' = LoopsLeft /\ NodesLeft' < NodesLeft
         \/ LoopsLeft' = LoopsLeft /\ NodesLeft' = NodesLeft /\ KeysLeft' < KeysLeft
         \/ LoopsLeft' = LoopsLeft /\ NodesLeft' = NodesLeft /\ KeysLeft' = KeysLeft
            /\ RequestsLeft' < RequestsLeft
  PROVE  Below(Rank', Rank)
<1>1. /\ Rank = <<LoopsLeft, NodesLeft, KeysLeft, RequestsLeft>>
      /\ LoopsLeft \in Nat /\ NodesLeft \in Nat /\ KeysLeft \in Nat /\ RequestsLeft \in Nat
  BY RankInLoop DEF LoopRank
<1>2. /\ Rank' = <<LoopsLeft', NodesLeft', KeysLeft', RequestsLeft'>>
      /\ LoopsLeft' \in Nat /\ NodesLeft' \in Nat /\ KeysLeft' \in Nat /\ RequestsLeft' \in Nat
  BY RankInLoopNext DEF LoopRank
<1> QED BY <1>1, <1>2, BelowFour

LEMMA StepDescends ==
  ASSUME MInv, MInv', Next, pc # "idle"
  PROVE  Below(Rank', Rank)
<1>0. /\ IInv /\ Owned /\ IInv' /\ TypeOK /\ TypeOK' /\ Position /\ Position'
      /\ N \in Nat /\ N # 0 /\ Nodes = 0 .. N - 1
  BY NAssumption DEF MInv, IInv, Nodes
<1>1. CASE Commit
  <2>1. pc = "commit" /\ pc' = "sum" /\ node' = node
    BY <1>1 DEF Commit, loopVars
  <2>2. Rank = <<4, 0, 0, 0>> /\ Rank' = <<3, N - node', 0, 0>> /\ N - node' \in Nat
    BY <1>0, <2>1 DEF Rank, TypeOK
  <2> QED BY <2>2, BelowFour
<1>2. CASE AddSize
  <2>1. pc = "sum" /\ pc' = "sum" /\ node' = node + 1 /\ node < N
    BY <1>2 DEF AddSize
  <2>2. Rank = <<3, N - node, 0, 0>> /\ Rank' = <<3, N - node', 0, 0>>
    BY <2>1 DEF Rank
  <2>3. N - node \in Nat /\ N - node' \in Nat /\ N - node' < N - node
    BY <1>0, <2>1 DEF TypeOK
  <2> QED BY <2>2, <2>3, BelowFour
<1>3. CASE EnterUp
  <2>1. pc = "sum" /\ pc' = "loop" /\ node = N
    BY <1>3 DEF EnterUp
  <2>2. Rank = <<3, N - node, 0, 0>> /\ N - node \in Nat
    BY <1>0, <2>1 DEF Rank
  <2>3. Turning'
    BY <2>1 DEF Turning
  <2>4. /\ Rank' = <<LoopsLeft', NodesLeft', KeysLeft', RequestsLeft'>>
        /\ LoopsLeft' \in Nat /\ NodesLeft' \in Nat /\ KeysLeft' \in Nat /\ RequestsLeft' \in Nat
        /\ LoopsLeft' \in {1, 2}
    BY <1>0, <2>3, RankInLoopNext DEF LoopRank
  <2>5. LoopsLeft' < 3
    BY <2>4
  <2> QED BY <2>2, <2>4, <2>5, BelowFour
<1>4. CASE EnterDown
  <2>1. pc = "loop" /\ pc' = "loop" /\ phase = "up" /\ phase' = "down"
    BY <1>4 DEF EnterDown
  <2>2. Turning /\ Turning' /\ LoopsLeft' < LoopsLeft
    BY <2>1 DEF Turning, LoopsLeft
  <2> QED BY <1>0, <2>2, LoopDescends
<1>5. CASE NextNode
  <2>1. pc = "loop" /\ pc' = "loop" /\ InLoop /\ node' = Peer /\ phase' = phase
    BY <1>5 DEF NextNode
  <2>2. Turning /\ Turning' /\ LoopsLeft' = LoopsLeft
    BY <2>1 DEF Turning, LoopsLeft
  <2>3. node \in Nodes
    BY <1>0, <2>1 DEF Position
  <2>4. NodesLeft' < NodesLeft
    BY <1>0, <2>1, <2>3 DEF NodesLeft, Peer
  <2> QED BY <1>0, <2>2, <2>4, LoopDescends
<1>6. CASE Balanced
  <2>1. pc = "loop" /\ pc' = "idle"
    BY <1>6 DEF Balanced
  <2>2. Turning /\ Rank' = <<0, 0, 0, 0>>
    BY <2>1 DEF Turning, Rank
  <2>3. /\ Rank = <<LoopsLeft, NodesLeft, KeysLeft, RequestsLeft>>
        /\ LoopsLeft \in Nat /\ NodesLeft \in Nat /\ KeysLeft \in Nat /\ RequestsLeft \in Nat
        /\ LoopsLeft \in {1, 2}
    BY <1>0, <2>2, RankInLoop DEF LoopRank
  <2>4. 0 < LoopsLeft
    BY <2>3
  <2> QED BY <2>2, <2>3, <2>4, BelowFour
<1>7. CASE LogSource \/ LogPeer \/ UpdateMeta
  <2>1. /\ UNCHANGED <<data, phase, node>>
        /\ \/ pc = "loop" /\ pc' = "logPeer"
           \/ pc = "logPeer" /\ pc' = "meta"
           \/ pc = "meta" /\ pc' = "commitSource"
    BY <1>7 DEF LogSource, LogPeer, UpdateMeta, LogAt, storeVars, loopVars
  <2>2. Turning /\ Turning' /\ RequestsLeft' < RequestsLeft
    BY <2>1 DEF Turning, RequestsLeft
  <2>3. LoopsLeft' = LoopsLeft /\ NodesLeft' = NodesLeft /\ KeysLeft' = KeysLeft
    BY <2>1 DEF LoopsLeft, NodesLeft, KeysLeft
  <2> QED BY <1>0, <2>2, <2>3, LoopDescends
<1>8. CASE CommitSource
  <2> DEFINE e == DeleteEntry(mig.key)
  <2>1. /\ node \in Nodes /\ Applicable(e) /\ log[node] = {e} /\ CommitAt(node)
        /\ pc = "commitSource" /\ pc' = "commitPeer" /\ phase' = phase /\ node' = node
    BY <1>0, <1>8, CommitSourceFacts
  <2>2. e.key = mig.key /\ e.kind # PUT
    BY DEF DeleteEntry, PUT, DELETE
  <2> HIDE DEF e
  <2>3. data'[node] = DataAfter(data[node], e) /\ IsDb(data[node], Values)
    BY <1>0, <2>1, CommitEffect
  <2>4. DOMAIN (data'[node]) = DOMAIN data[node] \ {mig.key}
    BY <2>2, <2>3, DataAfterDomain
  <2>5. mig.key \in DOMAIN data[node]
    BY <1>0, <2>1 DEF Owned
  <2>6. IsFiniteSet(DOMAIN data[node]) /\ Cardinality(DOMAIN data[node]) \in Nat
    BY <2>3, FiniteDb
  <2>7. Cardinality(DOMAIN data[node] \ {mig.key}) = Cardinality(DOMAIN data[node]) - 1
    BY <2>5, <2>6, FS_RemoveElement
  <2>8. KeysLeft' < KeysLeft
    BY <2>1, <2>4, <2>6, <2>7 DEF KeysLeft
  <2>9. Turning /\ Turning' /\ LoopsLeft' = LoopsLeft /\ NodesLeft' = NodesLeft
    BY <2>1 DEF Turning, LoopsLeft, NodesLeft
  <2> QED BY <1>0, <2>8, <2>9, LoopDescends
<1>9. CASE CommitPeer
  <2> DEFINE e == PutEntry(mig.key, mig.val)
  <2>1. /\ node \in Nodes /\ Peer \in Nodes /\ Peer # node /\ Applicable(e)
        /\ log[Peer] = {e} /\ CommitAt(Peer)
        /\ pc = "commitPeer" /\ pc' = "loop" /\ phase' = phase /\ node' = node
    BY <1>0, <1>9, CommitPeerFacts
  <2> HIDE DEF e
  <2>2. data'[node] = data[node]
    BY <1>0, <2>1, CommitEffect
  <2>3. Turning /\ Turning' /\ RequestsLeft' < RequestsLeft
    BY <2>1 DEF Turning, RequestsLeft
  <2>4. LoopsLeft' = LoopsLeft /\ NodesLeft' = NodesLeft /\ KeysLeft' = KeysLeft
    BY <2>1, <2>2 DEF LoopsLeft, NodesLeft, KeysLeft
  <2> QED BY <1>0, <2>3, <2>4, LoopDescends
<1>10. CASE Restart \/ \E k \in Keys : (\E v \in Values : Put(k, v)) \/ Del(k) \/ Get(k)
  BY <1>10 DEF Restart, Put, Del, Get
<1> QED BY <1>1, <1>2, <1>3, <1>4, <1>5, <1>6, <1>7, <1>8, <1>9, <1>10 DEF Next, ReBalance

\* No command keeps the control node busy forever, however many nodes and keys
\* there are and whatever their lengths: every step of put, del and re_balance
\* lowers a list of four natural numbers in lexicographic order.
THEOREM CommandsDescend == Spec => CommandDescends
<1>1. MInv /\ MInv' /\ [Next]_vars => [pc # "idle" => Below(Rank', Rank)]_vars
  BY StepDescends
<1> QED BY <1>1, InductiveMap, PTL DEF Spec, CommandDescends
=============================================================================
