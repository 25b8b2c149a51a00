--------------------------- MODULE ClusterProofs ---------------------------
(***************************************************************************)
(* The safety of the cluster for every number of nodes, of keys and of     *)
(* values.  IInv is the inductive invariant: the shape of the metadata,    *)
(* that its ranges cover what the nodes hold, that the logs hold what the  *)
(* protocol has in flight, and what the control node knows of a command or *)
(* a migration between two of its requests.                                *)
(***************************************************************************)
EXTENDS Cluster, StoreOpsProofs, FiniteSetTheorems

\* The metadata holds one nonempty range for each node, in the order of the
\* nodes, and the ranges do not overlap.
Shape(m) ==
  /\ IsDb(m, MetaEntries)
  /\ \A k \in DOMAIN m : m[k].min = k /\ k <= m[k].max
  /\ \A j, k \in DOMAIN m : j < k => m[j].max < k /\ m[j].fd < m[k].fd
  /\ \A n \in Nodes : \E k \in DOMAIN m : m[k].fd = n

\* Key k lies in the range of node n.
Cover(m, n, k) ==
  \E a \in DOMAIN m : m[a].fd = n /\ a <= k /\ k <= m[a].max

Covered ==
  \A n \in Nodes : \A k \in DOMAIN data[n] :
    ~Leaving(n, k) => Cover(meta, n, k)

\* Where the loops of re_balance stand.
Position ==
  /\ pc \in {"loop", "logPeer", "meta", "commitSource", "commitPeer"} =>
       node \in Nodes
  /\ pc \in {"logPeer", "meta", "commitSource", "commitPeer"} => InLoop

\* A command between its LOG and its COMMIT_LOG: the key of a put lies in the
\* range its node now has.
Serving ==
  pc = "commit" =>
    Applicable(req) /\ (req.kind = PUT => Cover(meta, fd, req.key))

\* A migration before its metadata is written: the moved key is the outermost
\* one of the node it leaves, and not the only one there.
Chosen ==
  pc \in {"logPeer", "meta"} =>
    /\ mig.key \in DOMAIN data[node]
    /\ mig.val = data[node][mig.key]
    /\ mig.src = LogReply(data[node], DeleteEntry(mig.key))
    /\ \A k \in DOMAIN data[node] :
         IF phase = "up" THEN k <= mig.key ELSE mig.key <= k
    /\ \E k \in DOMAIN data[node] : k # mig.key

Replied ==
  pc = "meta" => mig.dst = LogReply(data[Peer], PutEntry(mig.key, mig.val))

\* ... and after: the moved key lies in the range of the node it moves to.
InFlight ==
  pc \in {"commitSource", "commitPeer"} =>
    /\ mig.key \in Keys /\ mig.val \in Values
    /\ Cover(meta, Peer, mig.key)

Moving == Chosen /\ Replied /\ InFlight

IInv ==
  /\ TypeOK
  /\ Shape(meta)
  /\ Covered
  /\ LogsArePending
  /\ Position
  /\ Serving
  /\ Moving

-----------------------------------------------------------------------------
(* Metadata.                                                               *)

LEMMA KeysAreNat == \A k \in Keys : k \in Nat /\ k # EmptyStr
BY MaxKeyAssumption DEF Keys, EmptyStr

LEMMA NodesAreInt == N \in Nat /\ 0 \in Nodes /\ \A n \in Nodes : n \in Int
BY NAssumption DEF Nodes

\* A database holds finitely many keys.
LEMMA FiniteDb ==
  ASSUME NEW db, NEW V, IsDb(db, V)
  PROVE  IsFiniteSet(DOMAIN db) /\ Cardinality(DOMAIN db) \in Nat
<1>1. DOMAIN db \in SUBSET Keys
  BY DEF IsDb
<1>2. IsFiniteSet(Keys)
  BY FS_Interval, MaxKeyAssumption DEF Keys
<1> QED BY <1>1, <1>2, FS_Subset, FS_CardinalityType

LEMMA ShapeType ==
  ASSUME NEW m, Shape(m)
  PROVE  /\ DOMAIN m \subseteq Keys
         /\ DOMAIN m # {}
         /\ \A k \in DOMAIN m :
              /\ m[k] \in MetaEntries
              /\ m[k].min \in Keys /\ m[k].max \in Keys /\ m[k].fd \in Nodes
<1>1. DOMAIN m \subseteq Keys /\ \A k \in DOMAIN m : m[k] \in MetaEntries
  BY DEF Shape, IsDb
<1>2. DOMAIN m # {}
  BY NodesAreInt DEF Shape
<1> QED BY <1>1, <1>2 DEF MetaEntries

\* The entry a key in the range of a node is looked up at is that node's.
LEMMA CoverRoutes ==
  ASSUME NEW m, Shape(m), NEW n, NEW k \in Keys, Cover(m, n, k)
  PROVE  /\ SmallerOrEqual(m, k) \in DOMAIN m
         /\ m[SmallerOrEqual(m, k)].fd = n
         /\ SmallerOrEqual(m, k) <= k /\ k <= m[SmallerOrEqual(m, k)].max
<1>1. PICK a \in DOMAIN m : m[a].fd = n /\ a <= k /\ k <= m[a].max
  BY DEF Cover
<1>2. \A x \in DOMAIN m : x <= k => x <= a
  <2> SUFFICES ASSUME NEW x \in DOMAIN m, x <= k, a < x PROVE FALSE
    BY ShapeType, KeysAreNat
  <2>1. m[a].max < x
    BY DEF Shape
  <2> QED BY <1>1, <2>1, ShapeType, KeysAreNat
<1>3. SmallerOrEqual(m, k) = a
  BY <1>1, <1>2, LookupOf, ShapeType, KeysAreNat
<1> QED BY <1>1, <1>3

\* delete_1 and put of an entry whose new range stays clear of the others.
LEMMA RekeyKeeps ==
  ASSUME NEW m, Shape(m), NEW at \in DOMAIN m, NEW e \in MetaEntries,
         e.fd = m[at].fd, e.min <= e.max,
         \A k \in DOMAIN m : k < at => m[k].max < e.min,
         \A k \in DOMAIN m : at < k => e.max < k
  PROVE  /\ Shape(Rekey(m, at, e))
         /\ DOMAIN Rekey(m, at, e) = (DOMAIN m \ {at}) \cup {e.min}
         /\ Rekey(m, at, e)[e.min] = e
         /\ \A k \in DOMAIN m \ {at} : k # e.min /\ Rekey(m, at, e)[k] = m[k]
<1> DEFINE r == Rekey(m, at, e)
<1>1. /\ DOMAIN m \subseteq Keys /\ at \in Keys /\ e.min \in Keys /\ e.max \in Keys
      /\ e.fd \in Nodes
  BY ShapeType DEF MetaEntries
<1>2. /\ \A k \in DOMAIN m : k \in Nat /\ m[k].max \in Nat /\ m[k].fd \in Int
      /\ at \in Nat /\ e.min \in Nat /\ e.max \in Nat /\ e.fd \in Int
  BY <1>1, ShapeType, KeysAreNat, NodesAreInt
<1>3. DOMAIN r = (DOMAIN m \ {at}) \cup {e.min}
  BY DEF Rekey, DbPut, DbDelete
<1>4. \A k \in DOMAIN m \ {at} : k # e.min
  <2> TAKE k \in DOMAIN m \ {at}
  <2>1. CASE k < at
    <3>1. k <= m[k].max /\ m[k].max < e.min
      BY <2>1 DEF Shape
    <3> QED BY <1>2, <3>1
  <2>2. CASE at < k
    BY <1>2, <2>2
  <2> QED BY <1>2, <2>1, <2>2
<1>5. r[e.min] = e /\ \A k \in DOMAIN m \ {at} : r[k] = m[k]
  BY <1>4 DEF Rekey, DbPut, DbDelete
<1>6. IsDb(r, MetaEntries)
  <2>1. DOMAIN r \subseteq Keys
    BY <1>1, <1>3
  <2>2. \A k \in DOMAIN r : r[k] \in MetaEntries
    BY <1>3, <1>5, ShapeType
  <2>3. r = [k \in DOMAIN r |-> r[k]]
    BY DEF Rekey, DbPut
  <2> HIDE DEF r
  <2> QED BY <2>1, <2>2, <2>3 DEF IsDb
<1> HIDE DEF r
<1>7. \A k \in DOMAIN r : r[k].min = k /\ k <= r[k].max
  BY <1>3, <1>5 DEF Shape
<1>8. \A j, k \in DOMAIN r : j < k => r[j].max < k /\ r[j].fd < r[k].fd
  <2> SUFFICES ASSUME NEW j \in DOMAIN r, NEW k \in DOMAIN r, j < k
               PROVE  r[j].max < k /\ r[j].fd < r[k].fd
    OBVIOUS
  <2>1. CASE j \in DOMAIN m \ {at} /\ k \in DOMAIN m \ {at}
    BY <1>5, <2>1 DEF Shape
  <2>2. CASE j = e.min /\ k \in DOMAIN m \ {at}
    <3>1. at < k
      <4> SUFFICES ASSUME k < at PROVE FALSE
        BY <1>2, <2>2
      <4>1. k <= m[k].max /\ m[k].max < e.min
        BY <2>2 DEF Shape
      <4> QED BY <1>2, <2>2, <4>1
    <3>2. m[at].fd < m[k].fd /\ e.max < k
      BY <2>2, <3>1 DEF Shape
    <3> QED BY <1>5, <2>2, <3>2
  <2>3. CASE j \in DOMAIN m \ {at} /\ k = e.min
    <3>1. j < at
      <4> SUFFICES ASSUME at < j PROVE FALSE
        BY <1>2, <2>3
      <4> QED BY <1>2, <2>3
    <3>2. m[j].fd < m[at].fd /\ m[j].max < e.min
      BY <2>3, <3>1 DEF Shape
    <3> QED BY <1>5, <2>3, <3>2
  <2> QED BY <1>2, <1>3, <2>1, <2>2, <2>3
<1>9. \A n \in Nodes : \E k \in DOMAIN r : r[k].fd = n
  <2> TAKE n \in Nodes
  <2>1. PICK k \in DOMAIN m : m[k].fd = n
    BY DEF Shape
  <2>2. CASE k = at
    BY <1>3, <1>5, <2>1, <2>2
  <2>3. CASE k # at
    BY <1>3, <1>5, <2>1, <2>3
  <2> QED BY <2>2, <2>3
<1>10. Shape(r)
  BY <1>6, <1>7, <1>8, <1>9 DEF Shape
<1> QED BY <1>3, <1>4, <1>5, <1>10 DEF r

\* ... leaves the ranges of the other nodes as they were.
LEMMA RekeyCovers ==
  ASSUME NEW m, Shape(m), NEW at \in DOMAIN m, NEW e \in MetaEntries,
         e.fd = m[at].fd, e.min <= e.max,
         \A k \in DOMAIN m : k < at => m[k].max < e.min,
         \A k \in DOMAIN m : at < k => e.max < k,
         NEW n, NEW k
  PROVE  /\ n # e.fd /\ Cover(m, n, k) => Cover(Rekey(m, at, e), n, k)
         /\ e.min <= k /\ k <= e.max => Cover(Rekey(m, at, e), e.fd, k)
<1> DEFINE r == Rekey(m, at, e)
<1>1. /\ DOMAIN r = (DOMAIN m \ {at}) \cup {e.min} /\ r[e.min] = e
      /\ \A x \in DOMAIN m \ {at} : r[x] = m[x]
  BY RekeyKeeps
<1> HIDE DEF r
<1>2. ASSUME n # e.fd, Cover(m, n, k) PROVE Cover(r, n, k)
  <2>1. PICK a \in DOMAIN m : m[a].fd = n /\ a <= k /\ k <= m[a].max
    BY <1>2 DEF Cover
  <2>2. a # at
    BY <1>2, <2>1
  <2> QED BY <1>1, <2>1, <2>2 DEF Cover
<1>3. ASSUME e.min <= k, k <= e.max PROVE Cover(r, e.fd, k)
  BY <1>1, <1>3 DEF Cover
<1> QED BY <1>2, <1>3 DEF r

\* A key looked up at an entry lies before every later entry, and before the
\* entry itself only if that is the first.
LEMMA LookupPlace ==
  ASSUME NEW m, Shape(m), NEW k \in Keys
  PROVE  LET at == SmallerOrEqual(m, k)
         IN  /\ at \in DOMAIN m
             /\ \A x \in DOMAIN m : at < x => k < x
             /\ k < at => \A x \in DOMAIN m : at <= x
<1> DEFINE at == SmallerOrEqual(m, k)
<1>1. \A x \in DOMAIN m : x \in Nat
  BY ShapeType, KeysAreNat
<1>2. k \in Nat /\ DOMAIN m # {} /\ DOMAIN m \subseteq Keys
  BY ShapeType, KeysAreNat
<1>3. /\ at \in DOMAIN m
      /\ \A x \in DOMAIN m : x <= k => x <= at /\ at <= k
      /\ (\A x \in DOMAIN m : k < x) => \A x \in DOMAIN m : at <= x
  BY <1>2, SmallerOrEqualFacts
<1> HIDE DEF at
<1>4. \A x \in DOMAIN m : at < x => k < x
  BY <1>1, <1>2, <1>3
<1>5. ASSUME k < at PROVE \A x \in DOMAIN m : at <= x
  <2>1. \A x \in DOMAIN m : k < x
    BY <1>1, <1>2, <1>3, <1>5
  <2> QED BY <1>3, <2>1
<1> QED BY <1>3, <1>4, <1>5 DEF at

LEMMA FdInjective ==
  ASSUME NEW m, Shape(m), NEW a \in DOMAIN m, NEW b \in DOMAIN m, m[a].fd = m[b].fd
  PROVE  a = b
<1>1. a \in Nat /\ b \in Nat /\ m[a].fd \in Int /\ m[b].fd \in Int
  BY ShapeType, KeysAreNat, NodesAreInt
<1>2. (a < b => m[a].fd < m[b].fd) /\ (b < a => m[b].fd < m[a].fd)
  BY DEF Shape
<1> QED BY <1>1, <1>2

\* put and del widen the range of the entry they find, up to the key.
LEMMA WidenKeeps ==
  ASSUME NEW m, Shape(m), NEW k \in Keys, NEW lo \in Keys,
         lo <= SmallerOrEqual(m, k),
         lo = SmallerOrEqual(m, k) \/ lo = k
  PROVE  LET at == SmallerOrEqual(m, k)
             e  == WithRange(m[at], lo, Greater(m[at].max, k))
             r  == Rekey(m, at, e)
         IN  /\ Shape(r)
             /\ \A n, x : x \in Keys /\ Cover(m, n, x) => Cover(r, n, x)
             /\ lo <= k => Cover(r, m[at].fd, k)
<1> DEFINE at == SmallerOrEqual(m, k)
           hi == Greater(m[at].max, k)
           e  == WithRange(m[at], lo, Greater(m[at].max, k))
           r  == Rekey(m, at, e)
<1>1. /\ at \in DOMAIN m
      /\ \A x \in DOMAIN m : at < x => k < x
      /\ k < at => \A x \in DOMAIN m : at <= x
  BY LookupPlace
<1>2. m[at] \in MetaEntries /\ m[at].max \in Keys /\ m[at].fd \in Nodes
  BY <1>1, ShapeType
<1>3. e \in MetaEntries /\ e.min = lo /\ e.max = hi /\ e.fd = m[at].fd
  BY <1>2 DEF MetaEntries, Greater, WithRange
<1>4. /\ at \in Nat /\ k \in Nat /\ lo \in Nat /\ m[at].max \in Nat
      /\ at <= m[at].max /\ lo <= at
  BY <1>1, <1>2, ShapeType, KeysAreNat DEF Shape
<1>5. hi \in Nat /\ m[at].max <= hi /\ k <= hi /\ (hi = k \/ hi = m[at].max)
  BY <1>4 DEF Greater
<1>6. \A x \in DOMAIN m : x \in Nat /\ m[x].max \in Nat /\ x <= m[x].max
  BY ShapeType, KeysAreNat DEF Shape
<1>7. lo = at \/ (lo = k /\ k < at)
  BY <1>4
<1>8. \A x \in DOMAIN m : x < at => m[x].max < at
  BY <1>1 DEF Shape
<1>9. \A x \in DOMAIN m : at < x => m[at].max < x
  BY <1>1 DEF Shape
<1> HIDE DEF at, hi, e
<1>10. \A x \in DOMAIN m : x < at => m[x].max < e.min
  <2> SUFFICES ASSUME NEW x \in DOMAIN m, x < at PROVE m[x].max < lo
    BY <1>3
  <2>1. ~(k < at)
    BY <1>1, <1>4, <1>6
  <2> QED BY <1>7, <1>8, <2>1
<1>11. \A x \in DOMAIN m : at < x => e.max < x
  BY <1>1, <1>3, <1>5, <1>9
<1>12. e.min <= e.max
  BY <1>3, <1>4, <1>5
<1>13. Shape(r)
  BY <1>1, <1>3, <1>10, <1>11, <1>12, RekeyKeeps
<1>14. ASSUME NEW n, NEW x \in Keys, Cover(m, n, x) PROVE Cover(r, n, x)
  <2>1. CASE n # e.fd
    BY <1>1, <1>3, <1>10, <1>11, <1>12, <1>14, <2>1, RekeyCovers
  <2>2. CASE n = e.fd
    <3>1. PICK a \in DOMAIN m : m[a].fd = n /\ a <= x /\ x <= m[a].max
      BY <1>14 DEF Cover
    <3>2. a = at
      BY <1>1, <1>3, <2>2, <3>1, FdInjective
    <3>3. x \in Nat
      BY KeysAreNat
    <3>4. e.min <= x /\ x <= e.max
      BY <1>3, <1>4, <1>5, <3>1, <3>2, <3>3
    <3> QED BY <1>1, <1>3, <1>10, <1>11, <1>12, <2>2, <3>4, RekeyCovers
  <2> QED BY <2>1, <2>2
<1>15. ASSUME lo <= k PROVE Cover(r, m[at].fd, k)
  <2>1. e.min <= k /\ k <= e.max
    BY <1>3, <1>5, <1>15
  <2> QED BY <1>1, <1>3, <1>10, <1>11, <1>12, <2>1, RekeyCovers
<1> HIDE DEF r
<1>16. Shape(r) /\ (\A n, x : x \in Keys /\ Cover(m, n, x) => Cover(r, n, x))
       /\ (lo <= k => Cover(r, m[at].fd, k))
  BY <1>13, <1>14, <1>15
<1> QED BY <1>16 DEF r, e, at

\* The metadata entry next to that of a node is the one of the next node.
LEMMA NextEntry ==
  ASSUME NEW m, Shape(m), NEW at \in DOMAIN m, m[at].fd + 1 \in Nodes
  PROVE  /\ After(m, at) \in DOMAIN m
         /\ m[After(m, at)].fd = m[at].fd + 1
         /\ at < After(m, at)
         /\ \A x \in DOMAIN m : at < x => After(m, at) <= x
<1>1. \A x \in DOMAIN m : x \in Nat /\ m[x].fd \in Int
  BY ShapeType, KeysAreNat, NodesAreInt
<1>2. PICK b \in DOMAIN m : m[b].fd = m[at].fd + 1
  BY DEF Shape
<1>3. at < b
  <2>1. b < at => m[b].fd < m[at].fd
    BY DEF Shape
  <2>2. b # at
    BY <1>1, <1>2
  <2> QED BY <1>1, <1>2, <2>1, <2>2
<1>4. DOMAIN m \subseteq Keys /\ at \in Nat
  BY <1>1, ShapeType
<1>5. After(m, at) # EmptyStr
  BY <1>1, <1>3, <1>4, AfterFacts
<1>6. /\ After(m, at) \in DOMAIN m /\ at < After(m, at)
      /\ \A x \in DOMAIN m : at < x => After(m, at) <= x
  BY <1>4, <1>5, AfterFacts
<1>7. m[at].fd < m[After(m, at)].fd
  BY <1>6 DEF Shape
<1>8. After(m, at) < b => m[After(m, at)].fd < m[b].fd
  BY <1>6 DEF Shape
<1>9. m[After(m, at)].fd = m[at].fd + 1
  BY <1>1, <1>2, <1>3, <1>6, <1>7, <1>8
<1> QED BY <1>6, <1>9

LEMMA PreviousEntry ==
  ASSUME NEW m, Shape(m), NEW at \in DOMAIN m, m[at].fd - 1 \in Nodes
  PROVE  /\ Before(m, at) \in DOMAIN m
         /\ m[Before(m, at)].fd = m[at].fd - 1
         /\ Before(m, at) < at
         /\ \A x \in DOMAIN m : x < at => x <= Before(m, at)
<1>1. \A x \in DOMAIN m : x \in Nat /\ m[x].fd \in Int
  BY ShapeType, KeysAreNat, NodesAreInt
<1>2. PICK b \in DOMAIN m : m[b].fd = m[at].fd - 1
  BY DEF Shape
<1>3. b < at
  <2>1. at < b => m[at].fd < m[b].fd
    BY DEF Shape
  <2>2. b # at
    BY <1>1, <1>2
  <2> QED BY <1>1, <1>2, <2>1, <2>2
<1>4. DOMAIN m \subseteq Keys /\ at \in Nat
  BY <1>1, ShapeType
<1>5. Before(m, at) # EmptyStr
  BY <1>1, <1>3, <1>4, BeforeFacts
<1>6. /\ Before(m, at) \in DOMAIN m /\ Before(m, at) < at
      /\ \A x \in DOMAIN m : x < at => x <= Before(m, at)
  BY <1>4, <1>5, BeforeFacts
<1>7. m[Before(m, at)].fd < m[at].fd
  BY <1>6 DEF Shape
<1>8. b < Before(m, at) => m[b].fd < m[Before(m, at)].fd
  BY <1>6 DEF Shape
<1>9. m[Before(m, at)].fd = m[at].fd - 1
  BY <1>1, <1>2, <1>3, <1>6, <1>7, <1>8
<1> QED BY <1>6, <1>9

-----------------------------------------------------------------------------
(* Applicable entries and the stores.                                      *)

LEMMA PutApplicable ==
  ASSUME NEW k \in Keys, NEW v \in Values
  PROVE  Applicable(PutEntry(k, v)) /\ PutEntry(k, v) \in Entries
BY DEF Applicable, Entries, PutEntry, PUT

LEMMA DeleteApplicable ==
  ASSUME NEW k \in Keys
  PROVE  Applicable(DeleteEntry(k)) /\ DeleteEntry(k) \in Entries
BY DEF Applicable, Entries, DeleteEntry, PUT, DELETE

LEMMA ReplyInBounds ==
  ASSUME NEW db, IsDb(db, Values), NEW e, Applicable(e)
  PROVE  LogReply(db, e) \in Bounds
<1>1. DOMAIN DataAfter(db, e) \subseteq Keys
  BY DataAfterType DEF IsDb
<1>2. /\ SeekToFirst(DataAfter(db, e)) \in Keys \cup {EmptyStr}
      /\ SeekToLast(DataAfter(db, e)) \in Keys \cup {EmptyStr}
  BY <1>1, SeekToFirstFacts, SeekToLastFacts
<1> QED BY <1>2, ReplyIsBounds DEF Bounds

\* COMMIT_LOG at a node whose log holds one entry.
LEMMA CommitOne ==
  ASSUME TypeOK, NEW n \in Nodes, NEW e, Applicable(e), log[n] = {e}, CommitAt(n)
  PROVE  /\ data' = [data EXCEPT ![n] = DataAfter(data[n], e)]
         /\ size' = [size EXCEPT ![n] = SizeAfter(data[n], size[n], e)]
         /\ log' = [log EXCEPT ![n] = {}]
         /\ data' = [x \in Nodes |-> data'[x]]
         /\ \A x \in Nodes : IsDb(data'[x], Values)
         /\ size' \in [Nodes -> Int]
         /\ log' \in [Nodes -> SUBSET Entries]
<1>1. CommitData(data[n], log[n]) = DataAfter(data[n], e) /\ ClearLog(log[n]) = {}
      /\ CommitSize(data[n], size[n], log[n]) = SizeAfter(data[n], size[n], e)
  BY OneEntry DEF CommitData, CommitSize
<1>2. /\ data' = [data EXCEPT ![n] = DataAfter(data[n], e)]
      /\ size' = [size EXCEPT ![n] = SizeAfter(data[n], size[n], e)]
      /\ log' = [log EXCEPT ![n] = {}]
  BY <1>1 DEF CommitAt
<1>3. /\ data = [x \in Nodes |-> data[x]] /\ \A x \in Nodes : IsDb(data[x], Values)
      /\ size \in [Nodes -> Int] /\ log \in [Nodes -> SUBSET Entries]
  BY DEF TypeOK
<1>4. IsDb(DataAfter(data[n], e), Values)
  BY <1>3, DataAfterType
<1>5. SizeAfter(data[n], size[n], e) \in Int
  <2>1. log[n] \subseteq Entries /\ size[n] \in Int
    BY <1>3
  <2> QED BY <1>1, <1>3, <2>1, CommitSizeType
<1>6. \A x \in Nodes : IsDb(data'[x], Values)
  BY <1>2, <1>3, <1>4
<1>7. data' = [x \in Nodes |-> data'[x]]
  BY <1>2, <1>3
<1> QED BY <1>2, <1>3, <1>5, <1>6, <1>7

\* A node that is in a loop of re_balance has the peer the loop moves keys to.
LEMMA PeerIsNode ==
  ASSUME node \in Nodes, phase \in {"up", "down"}, InLoop
  PROVE  Peer \in Nodes /\ Peer # node
BY NAssumption DEF Peer, InLoop, Nodes

-----------------------------------------------------------------------------
(* Every step keeps IInv.                                                  *)

LEMMA InitStep == Init => IInv
<1> SUFFICES ASSUME Init PROVE IInv
  OBVIOUS
<1> DEFINE F(k) == CHOOSE i \in Nodes : InitKey[i] = k
<1>1. \A i \in Nodes : InitKey[i] \in Keys
  BY InitKeyAssumption
<1>2. \A i, j \in Nodes : InitKey[i] = InitKey[j] => i = j
  <2> SUFFICES ASSUME NEW i \in Nodes, NEW j \in Nodes, i < j, InitKey[i] = InitKey[j]
               PROVE  FALSE
    BY NodesAreInt
  <2> QED BY <1>1, InitKeyAssumption, KeysAreNat
<1>3. \A i \in Nodes : F(InitKey[i]) = i
  BY <1>2
<1>0. /\ DOMAIN meta = {InitKey[i] : i \in Nodes}
      /\ meta = [k \in DOMAIN meta |-> [min |-> k, max |-> k, fd |-> F(k)]]
  BY DEF Init
<1>4. \A k \in DOMAIN meta : /\ meta[k] = [min |-> k, max |-> k, fd |-> F(k)]
                             /\ meta[k].min = k /\ meta[k].max = k /\ meta[k].fd = F(k)
  <2> HIDE DEF F
  <2>1. \A k \in DOMAIN meta : meta[k] = [min |-> k, max |-> k, fd |-> F(k)]
    BY <1>0
  <2> QED BY <2>1
<1>5. /\ \A k \in DOMAIN meta : \E i \in Nodes : k = InitKey[i]
      /\ \A i \in Nodes : InitKey[i] \in DOMAIN meta /\ meta[InitKey[i]].fd = i
  <2> HIDE DEF F
  <2>1. /\ \A k \in DOMAIN meta : \E i \in Nodes : k = InitKey[i]
        /\ \A i \in Nodes : InitKey[i] \in DOMAIN meta
    BY <1>0
  <2> QED BY <1>3, <1>4, <2>1
<1>6. IsDb(meta, MetaEntries)
  <2>1. DOMAIN meta \subseteq Keys
    BY <1>1, <1>5
  <2>2. \A k \in DOMAIN meta : F(k) \in Nodes
    BY <1>5
  <2> HIDE DEF F
  <2>3. \A k \in DOMAIN meta : meta[k] \in MetaEntries
    BY <1>4, <2>1, <2>2 DEF MetaEntries
  <2>4. meta = [k \in DOMAIN meta |-> meta[k]]
    BY <1>0
  <2> QED BY <2>1, <2>3, <2>4 DEF IsDb
<1>7. Shape(meta)
  <2>1. \A k \in DOMAIN meta : meta[k].min = k /\ meta[k].max = k /\ k <= meta[k].max
    <3> TAKE k \in DOMAIN meta
    <3>1. k \in Nat
      BY <1>6, KeysAreNat DEF IsDb
    <3>2. meta[k].min = k /\ meta[k].max = k
      BY <1>4
    <3> QED BY <3>1, <3>2
  <2>2. \A j, k \in DOMAIN meta : j < k => meta[j].max < k /\ meta[j].fd < meta[k].fd
    <3> SUFFICES ASSUME NEW j \in DOMAIN meta, NEW k \in DOMAIN meta, j < k
                 PROVE  meta[j].fd < meta[k].fd
      BY <2>1
    <3>0. PICK i \in Nodes, n \in Nodes : j = InitKey[i] /\ k = InitKey[n]
      BY <1>5
    <3>1. InitKey[i] \in Nat /\ InitKey[n] \in Nat
      BY <1>1, KeysAreNat
    <3>2. (n < i => InitKey[n] < InitKey[i]) /\ (n = i => InitKey[n] = InitKey[i])
      BY InitKeyAssumption
    <3>3. i < n
      BY <3>0, <3>1, <3>2, NodesAreInt
    <3> QED BY <1>5, <3>0, <3>3
  <2>3. \A n \in Nodes : \E k \in DOMAIN meta : meta[k].fd = n
    BY <1>5
  <2> QED BY <1>6, <2>1, <2>2, <2>3 DEF Shape
<1>8. /\ data = [n \in Nodes |-> [k \in {} |-> EmptyStr]]
      /\ size = [n \in Nodes |-> 0] /\ log = [n \in Nodes |-> {}]
      /\ pc = "idle" /\ req = Idle /\ fd = 0 /\ out = EmptyStr
      /\ phase = "up" /\ node = 0 /\ total = 0 /\ mig = NoMigration
  BY DEF Init
<1>9. TypeOK
  <2>1. data = [n \in Nodes |-> data[n]]
    BY <1>8
  <2>2. \A n \in Nodes : IsDb(data[n], Values)
    BY <1>8 DEF IsDb
  <2>3. mig \in [key : Keys \cup {EmptyStr}, val : Values \cup {EmptyStr},
                 src : Bounds, dst : Bounds]
    BY <1>8 DEF NoMigration, NoBounds, Bounds
  <2>4. node \in 0 .. N
    BY <1>8, NAssumption
  <2> QED BY <1>6, <1>8, <2>1, <2>2, <2>3, <2>4, NodesAreInt DEF TypeOK
<1>10. Covered
  BY <1>8 DEF Covered
<1>11. LogsArePending
  BY <1>8 DEF LogsArePending, Pending
<1> QED BY <1>7, <1>8, <1>9, <1>10, <1>11
        DEF IInv, Position, Serving, Moving, Chosen, Replied, InFlight

\* LOG of a command to the node its key is looked up at, the metadata entry
\* widened to the key: common to put and del.
LEMMA CommandStep ==
  ASSUME IInv, pc = "idle", NEW k \in Keys, NEW e, Applicable(e), e.key = k,
         NEW lo \in Keys,
         lo <= SmallerOrEqual(meta, k),
         lo = SmallerOrEqual(meta, k) \/ lo = k,
         e.kind = PUT => lo <= k,
         fd' = meta[SmallerOrEqual(meta, k)].fd,
         LogAt(meta[SmallerOrEqual(meta, k)].fd, e),
         meta' = Rekey(meta, SmallerOrEqual(meta, k),
                       WithRange(meta[SmallerOrEqual(meta, k)], lo,
                                 Greater(meta[SmallerOrEqual(meta, k)].max, k))),
         req' = e, pc' = "commit", UNCHANGED <<out, loopVars, mig>>
  PROVE  IInv'
<1> DEFINE at == SmallerOrEqual(meta, k)
<1>1. Shape(meta) /\ TypeOK /\ Covered /\ LogsArePending
  BY DEF IInv
<1>2. at \in DOMAIN meta /\ meta[at].fd \in Nodes
  BY <1>1, LookupPlace, ShapeType
<1>3. /\ Shape(meta')
      /\ \A n, x : x \in Keys /\ Cover(meta, n, x) => Cover(meta', n, x)
      /\ lo <= k => Cover(meta', fd', k)
  BY <1>1, WidenKeeps
<1>4. /\ data' = data /\ size' = size
      /\ log' = [log EXCEPT ![fd'] = log[fd'] \cup {e}]
      /\ phase' = phase /\ node' = node /\ total' = total /\ mig' = mig /\ out' = out
  BY DEF LogAt, loopVars
<1>5. fd' \in Nodes
  BY <1>2
<1> HIDE DEF at
<1>6. TypeOK'
  <2>1. IsDb(meta, MetaEntries)'
    BY <1>3 DEF Shape
  <2>2. log' \in [Nodes -> SUBSET Entries]
    BY <1>1, <1>4, <1>5 DEF TypeOK, Applicable
  <2>3. e \in Entries
    BY DEF Applicable
  <2> QED BY <1>1, <1>4, <1>5, <2>1, <2>2, <2>3 DEF TypeOK
<1>7. Covered'
  <2> SUFFICES ASSUME NEW n \in Nodes, NEW x \in DOMAIN data[n]
               PROVE  Cover(meta', n, x)
    BY <1>4 DEF Covered, Cover
  <2>1. x \in Keys
    BY <1>1 DEF TypeOK, IsDb
  <2>2. Cover(meta, n, x)
    BY <1>1 DEF Covered, Leaving
  <2> QED BY <1>3, <2>1, <2>2
<1>8. LogsArePending'
  <2> SUFFICES ASSUME NEW n \in Nodes PROVE log'[n] = Pending(n)'
    BY DEF LogsArePending
  <2>1. log[n] = {}
    BY <1>1 DEF LogsArePending, Pending
  <2>2. Pending(n)' = IF n = fd' THEN {e} ELSE {}
    BY DEF Pending
  <2> QED BY <1>1, <1>4, <1>5, <2>1, <2>2 DEF TypeOK
<1>9. Serving'
  BY <1>3 DEF Serving, Applicable, Cover
<1> QED BY <1>3, <1>6, <1>7, <1>8, <1>9
        DEF IInv, Position, Moving, Chosen, Replied, InFlight, Shape

LEMMA PutStep ==
  ASSUME IInv, NEW k \in Keys, NEW v \in Values, Put(k, v)
  PROVE  IInv'
<1> DEFINE at == SmallerOrEqual(meta, k)
           lo == Lesser(meta[at].min, k)
<1>1. Shape(meta)
  BY DEF IInv
<1>2. at \in DOMAIN meta /\ at \in Keys /\ meta[at].min = at
  BY <1>1, LookupPlace, ShapeType DEF Shape
<1>3. at \in Nat /\ k \in Nat
  BY <1>2, KeysAreNat
<1>4. lo \in Keys /\ lo <= at /\ lo <= k /\ (lo = at \/ lo = k)
  BY <1>2, <1>3 DEF Lesser
<1>5. Applicable(PutEntry(k, v)) /\ PutEntry(k, v).key = k
  BY PutApplicable DEF PutEntry
<1>6. /\ pc = "idle" /\ LogAt(meta[at].fd, PutEntry(k, v))
      /\ meta' = Rekey(meta, at, WithRange(meta[at], lo, Greater(meta[at].max, k)))
      /\ req' = PutEntry(k, v) /\ fd' = meta[at].fd /\ pc' = "commit"
      /\ UNCHANGED <<out, loopVars, mig>>
  BY DEF Put
<1> HIDE DEF lo
<1> QED BY <1>4, <1>5, <1>6, CommandStep

LEMMA DelStep ==
  ASSUME IInv, NEW k \in Keys, Del(k)
  PROVE  IInv'
<1> DEFINE at == SmallerOrEqual(meta, k)
           n == meta[at].fd
           newMin == LogReply(data[n], DeleteEntry(k)).min
           lo == KeptMin(meta[at].min, newMin)
<1>0. /\ pc = "idle" /\ LogAt(meta[at].fd, DeleteEntry(k))
      /\ meta' = Rekey(meta, at, WithRange(meta[at], lo, Greater(meta[at].max, k)))
      /\ req' = DeleteEntry(k) /\ fd' = meta[at].fd /\ pc' = "commit"
      /\ UNCHANGED <<out, loopVars, mig>>
  BY DEF Del
<1>1. Shape(meta) /\ TypeOK /\ Covered
  BY DEF IInv
<1>2. at \in DOMAIN meta /\ at \in Keys /\ meta[at].min = at /\ n \in Nodes
  BY <1>1, LookupPlace, ShapeType DEF Shape
<1>3. at \in Nat /\ k \in Nat
  BY <1>2, KeysAreNat
<1>4. /\ Applicable(DeleteEntry(k)) /\ DeleteEntry(k).key = k
      /\ DeleteEntry(k).kind # PUT
  BY DeleteApplicable DEF DeleteEntry, PUT, DELETE
<1>5. IsDb(data[n], Values)
  BY <1>1, <1>2 DEF TypeOK
<1>6. newMin = EmptyStr \/ (newMin \in DOMAIN data[n] /\ newMin \in Keys)
  <2> DEFINE after == DataAfter(data[n], DeleteEntry(k))
  <2>1. newMin = SeekToFirst(after)
    BY <1>4, <1>5, ReplyIsBounds
  <2>2. DOMAIN after \subseteq DOMAIN data[n] /\ DOMAIN data[n] \subseteq Keys
    <3>1. DOMAIN after = DOMAIN data[n] \ {k}
      BY <1>4, DataAfterDomain
    <3> QED BY <1>5, <3>1 DEF IsDb
  <2> HIDE DEF after
  <2>3. SeekToFirst(after) = EmptyStr \/ SeekToFirst(after) \in DOMAIN after
    BY <2>2, SeekToFirstFacts
  <2> QED BY <2>1, <2>2, <2>3
<1>7. lo = at
  <2>1. CASE newMin = EmptyStr
    BY <1>2, <2>1 DEF KeptMin
  <2>2. CASE newMin # EmptyStr
    <3>1. Cover(meta, n, newMin)
      BY <1>0, <1>1, <1>2, <1>6, <2>2 DEF Covered, Leaving
    <3>2. PICK a \in DOMAIN meta : meta[a].fd = n /\ a <= newMin
      BY <3>1 DEF Cover
    <3>3. a = at
      BY <1>1, <1>2, <3>2, FdInjective
    <3>4. newMin \in Nat
      BY <1>6, <2>2, KeysAreNat
    <3> QED BY <1>2, <1>3, <2>2, <3>2, <3>3, <3>4 DEF KeptMin, Lesser
  <2> QED BY <2>1, <2>2
<1> HIDE DEF lo
<1>8. lo \in Keys /\ lo <= at
  BY <1>2, <1>3, <1>7
<1> QED BY <1>0, <1>4, <1>7, <1>8, CommandStep

LEMMA CommitStep ==
  ASSUME IInv, Commit
  PROVE  IInv'
<1>1. /\ TypeOK /\ Shape(meta) /\ Covered /\ LogsArePending /\ Serving
      /\ pc = "commit" /\ pc' = "sum" /\ CommitAt(fd) /\ req' = Idle /\ fd' = 0
      /\ UNCHANGED <<meta, out, phase, node, total, mig>>
  BY DEF IInv, Commit, loopVars
<1>2. fd \in Nodes /\ Applicable(req) /\ (req.kind = PUT => Cover(meta, fd, req.key))
  BY <1>1 DEF TypeOK, Serving
<1>3. \A n \in Nodes : log[n] = IF n = fd THEN {req} ELSE {}
  BY <1>1 DEF LogsArePending, Pending
<1>4. /\ data' = [data EXCEPT ![fd] = DataAfter(data[fd], req)]
      /\ log' = [log EXCEPT ![fd] = {}]
      /\ data' = [x \in Nodes |-> data'[x]]
      /\ \A x \in Nodes : IsDb(data'[x], Values)
      /\ size' \in [Nodes -> Int]
      /\ log' \in [Nodes -> SUBSET Entries]
  BY <1>1, <1>2, <1>3, CommitOne
<1>5. TypeOK'
  BY <1>1, <1>4, NodesAreInt DEF TypeOK
<1>6. Covered'
  <2> SUFFICES ASSUME NEW n \in Nodes, NEW k \in DOMAIN (data'[n])
               PROVE  Cover(meta, n, k)
    BY <1>1 DEF Covered, Cover
  <2>0. data = [x \in Nodes |-> data[x]] /\ IsDb(data[n], Values)
    BY <1>1 DEF TypeOK
  <2>1. CASE n # fd
    <3>1. data'[n] = data[n]
      BY <1>4, <2>0, <2>1
    <3> QED BY <1>1, <3>1 DEF Covered, Leaving
  <2>2. CASE n = fd
    <3>1. data'[n] = DataAfter(data[n], req)
      BY <1>2, <1>4, <2>0, <2>2
    <3>2. k \in DOMAIN data[n] \/ (req.kind = PUT /\ k = req.key)
      <4>1. k \in IF req.kind = PUT THEN DOMAIN data[n] \cup {req.key}
                   ELSE DOMAIN data[n] \ {req.key}
        BY <3>1, DataAfterDomain
      <4> QED BY <4>1
    <3>3. CASE k \in DOMAIN data[n]
      BY <1>1, <3>3 DEF Covered, Leaving
    <3>4. CASE req.kind = PUT /\ k = req.key
      BY <1>2, <2>2, <3>4
    <3> QED BY <3>2, <3>3, <3>4
  <2> QED BY <2>1, <2>2
<1>7. LogsArePending'
  BY <1>1, <1>3, <1>4 DEF LogsArePending, Pending, TypeOK
<1> QED BY <1>1, <1>5, <1>6, <1>7
        DEF IInv, Position, Serving, Moving, Chosen, Replied, InFlight, Shape

\* A step between two commands or two migrations that changes no database.
LEMMA QuietStep ==
  ASSUME IInv,
         pc \in {"idle", "sum", "loop"}, pc' \in {"idle", "sum", "loop"},
         UNCHANGED <<meta, data, log, req, fd, mig>>,
         size' \in [Nodes -> Int], out' \in Values \cup {EmptyStr},
         phase' \in {"up", "down"}, node' \in 0 .. N, total' \in Int,
         pc' = "loop" => node' \in Nodes
  PROVE  IInv'
<1>1. TypeOK /\ Shape(meta) /\ Covered /\ LogsArePending
  BY DEF IInv
<1>2. TypeOK'
  BY <1>1 DEF TypeOK
<1>3. Covered'
  <2> SUFFICES ASSUME NEW n \in Nodes, NEW k \in DOMAIN data[n]
               PROVE  Cover(meta, n, k)
    BY DEF Covered, Cover
  <2> QED BY <1>1 DEF Covered, Leaving
<1>4. LogsArePending'
  BY <1>1 DEF LogsArePending, Pending
<1> QED BY <1>1, <1>2, <1>3, <1>4
        DEF IInv, Position, Serving, Moving, Chosen, Replied, InFlight, Shape

LEMMA GetStep ==
  ASSUME IInv, NEW k \in Keys, Get(k)
  PROVE  IInv'
<1>1. TypeOK /\ Shape(meta)
  BY DEF IInv
<1>2. Route(k) \in Nodes
  BY <1>1, LookupPlace, ShapeType DEF Route
<1>3. IsDb(data[Route(k)], Values)
  BY <1>1, <1>2 DEF TypeOK
<1>4. out' \in Values \cup {EmptyStr}
  BY <1>3 DEF Get, DbGet, IsDb
<1>5. /\ pc = "idle" /\ pc' = pc /\ UNCHANGED <<meta, data, log, req, fd, mig>>
      /\ size' = size /\ phase' = phase /\ node' = node /\ total' = total
  BY DEF Get, storeVars, loopVars
<1> QED BY <1>1, <1>4, <1>5, QuietStep DEF TypeOK

LEMMA LoopStep ==
  ASSUME IInv, AddSize \/ EnterUp \/ EnterDown \/ NextNode \/ Balanced
  PROVE  IInv'
<1>1. TypeOK /\ Position
  BY DEF IInv
<1>2. phase \in {"up", "down"} /\ node \in 0 .. N /\ size \in [Nodes -> Int]
      /\ total \in Int /\ out \in Values \cup {EmptyStr}
      /\ (pc = "loop" => node \in Nodes)
  BY <1>1 DEF TypeOK, Position
<1>3. /\ UNCHANGED <<meta, data, log, req, fd, mig>> /\ size' = size /\ out' = out
      /\ pc \in {"sum", "loop"} /\ pc' \in {"idle", "sum", "loop"}
  BY DEF AddSize, EnterUp, EnterDown, NextNode, Balanced, storeVars, ctlVars
<1>4. /\ phase' \in {"up", "down"} /\ node' \in 0 .. N /\ total' \in Int
      /\ (pc' = "loop" => node' \in Nodes)
  <2>1. CASE AddSize
    <3>1. node \in Nodes /\ size[node] \in Int
      BY <1>2, <2>1, NAssumption DEF AddSize, Nodes
    <3> QED BY <1>2, <2>1, <3>1, NAssumption DEF AddSize
  <2>2. CASE EnterUp
    BY <1>2, <2>2, NAssumption DEF EnterUp, Nodes
  <2>3. CASE EnterDown
    BY <1>2, <2>3, NAssumption DEF EnterDown, Nodes
  <2>4. CASE NextNode
    <3>1. node \in Nodes /\ Peer \in Nodes /\ node' = Peer
      BY <1>2, <2>4, PeerIsNode DEF NextNode
    <3> QED BY <1>2, <2>4, <3>1, NAssumption DEF NextNode, Nodes
  <2>5. CASE Balanced
    BY <1>2, <2>5, NAssumption DEF Balanced
  <2> QED BY <2>1, <2>2, <2>3, <2>4, <2>5
<1> QED BY <1>2, <1>3, <1>4, QuietStep

LEMMA RestartStep ==
  ASSUME IInv, Restart
  PROVE  IInv'
<1>1. TypeOK
  BY DEF IInv
<1>2. /\ pc = "idle" /\ pc' = pc /\ UNCHANGED <<meta, data, log, req, fd, mig>>
      /\ out' = out /\ phase' = phase /\ node' = node /\ total' = total
      /\ size' = [n \in Nodes |-> DbSize(data[n])]
  BY DEF Restart, ctlVars, loopVars
<1>3. \A n \in Nodes : DbSize(data[n]) \in Int
  BY <1>1, TermsType DEF TypeOK
<1> QED BY <1>1, <1>2, <1>3, QuietStep DEF TypeOK

-----------------------------------------------------------------------------
(* The five steps of a migration.                                          *)

LEMMA LogSourceStep ==
  ASSUME IInv, LogSource
  PROVE  IInv'
<1> DEFINE k == IF phase = "up" THEN SeekToLast(data[node]) ELSE SeekToFirst(data[node])
           db == data[node]
           e == DeleteEntry(k)
<1>1. TypeOK /\ Shape(meta) /\ Covered /\ LogsArePending /\ Position
  BY DEF IInv
<1>2. /\ pc = "loop" /\ pc' = "logPeer" /\ InLoop /\ ~NotTooMuch(node)
      /\ LogAt(node, e)
      /\ mig' = [key |-> k, val |-> DbGet(db, k), src |-> LogReply(db, e), dst |-> NoBounds]
      /\ UNCHANGED <<meta, req, fd, out, phase, node, total>>
  BY DEF LogSource, ctlVars, loopVars
<1>3. node \in Nodes /\ phase \in {"up", "down"}
  BY <1>1, <1>2 DEF Position, TypeOK
<1>4. IsDb(db, Values) /\ DOMAIN db \subseteq Keys
  BY <1>1, <1>3 DEF TypeOK, IsDb
<1>5. \E i, j \in DOMAIN db : i # j
  BY <1>2 DEF NotTooMuch, StoreLessOrEqualOne
<1>6. /\ k \in DOMAIN db
      /\ \A j \in DOMAIN db : IF phase = "up" THEN j <= k ELSE k <= j
  BY <1>4, <1>5, SeekToLastFacts, SeekToFirstFacts
<1>7. /\ data' = data /\ size' = size /\ log' = [log EXCEPT ![node] = log[node] \cup {e}]
  BY <1>2 DEF LogAt
<1> HIDE DEF k
<1>8. k \in Keys /\ db[k] \in Values /\ DbGet(db, k) = db[k]
  BY <1>4, <1>6 DEF IsDb, DbGet
<1>9. Applicable(e) /\ e \in Entries /\ LogReply(db, e) \in Bounds
  BY <1>4, <1>8, DeleteApplicable, ReplyInBounds
<1>10. TypeOK'
  <2>1. log' \in [Nodes -> SUBSET Entries]
    BY <1>1, <1>3, <1>7, <1>9 DEF TypeOK
  <2>2. mig' \in [key : Keys \cup {EmptyStr}, val : Values \cup {EmptyStr},
                  src : Bounds, dst : Bounds]
    BY <1>2, <1>8, <1>9 DEF NoBounds, Bounds
  <2> QED BY <1>1, <1>2, <1>7, <2>1, <2>2 DEF TypeOK
<1>11. Covered'
  <2> SUFFICES ASSUME NEW n \in Nodes, NEW x \in DOMAIN data[n]
               PROVE  Cover(meta, n, x)
    BY <1>2, <1>7 DEF Covered, Cover
  <2> QED BY <1>1, <1>2 DEF Covered, Leaving
<1>12. LogsArePending'
  <2> SUFFICES ASSUME NEW n \in Nodes PROVE log'[n] = Pending(n)'
    BY DEF LogsArePending
  <2>1. log[n] = {}
    BY <1>1, <1>2 DEF LogsArePending, Pending
  <2>2. mig'.key = k
    BY <1>2
  <2>3. Pending(n)' = IF n = node THEN {e} ELSE {}
    BY <1>2, <2>2 DEF Pending
  <2> QED BY <1>1, <1>3, <1>7, <2>1, <2>3 DEF TypeOK
<1>13. Chosen'
  <2>1. mig'.key = k /\ mig'.val = db[k] /\ mig'.src = LogReply(db, e)
    BY <1>2, <1>8
  <2>2. \E j \in DOMAIN db : j # k
    BY <1>5
  <2> QED BY <1>2, <1>6, <1>7, <2>1, <2>2 DEF Chosen
<1> QED BY <1>1, <1>2, <1>3, <1>10, <1>11, <1>12, <1>13
        DEF IInv, Position, Serving, Moving, Replied, InFlight, Shape, InLoop

LEMMA LogPeerStep ==
  ASSUME IInv, LogPeer
  PROVE  IInv'
<1> DEFINE e == PutEntry(mig.key, mig.val)
<1>1. TypeOK /\ Shape(meta) /\ Covered /\ LogsArePending /\ Position /\ Chosen
  BY DEF IInv, Moving
<1>2. /\ pc = "logPeer" /\ pc' = "meta" /\ LogAt(Peer, e)
      /\ mig' = [mig EXCEPT !.dst = LogReply(data[Peer], e)]
      /\ UNCHANGED <<meta, req, fd, out, phase, node, total>>
  BY DEF LogPeer, ctlVars, loopVars
<1>3. node \in Nodes /\ phase \in {"up", "down"} /\ InLoop
  BY <1>1, <1>2 DEF Position, TypeOK
<1>4. Peer \in Nodes /\ Peer # node /\ Peer' = Peer /\ InLoop'
  BY <1>2, <1>3, PeerIsNode DEF Peer, InLoop
<1>5. IsDb(data[node], Values) /\ IsDb(data[Peer], Values)
  BY <1>1, <1>3, <1>4 DEF TypeOK
<1>6. /\ mig.key \in DOMAIN data[node] /\ mig.val = data[node][mig.key]
      /\ mig.key \in Keys /\ mig.val \in Values
  BY <1>1, <1>2, <1>5 DEF Chosen, IsDb
<1>7. Applicable(e) /\ e \in Entries /\ LogReply(data[Peer], e) \in Bounds
  BY <1>5, <1>6, PutApplicable, ReplyInBounds
<1>8. data' = data /\ size' = size /\ log' = [log EXCEPT ![Peer] = log[Peer] \cup {e}]
  BY <1>2 DEF LogAt
<1>9. /\ mig'.key = mig.key /\ mig'.val = mig.val /\ mig'.src = mig.src
      /\ mig'.dst = LogReply(data[Peer], e)
      /\ mig' \in [key : Keys \cup {EmptyStr}, val : Values \cup {EmptyStr},
                   src : Bounds, dst : Bounds]
  BY <1>1, <1>2, <1>7 DEF TypeOK
<1>10. TypeOK'
  <2>1. log' \in [Nodes -> SUBSET Entries]
    BY <1>1, <1>4, <1>7, <1>8 DEF TypeOK
  <2> QED BY <1>1, <1>2, <1>8, <1>9, <2>1 DEF TypeOK
<1>11. Covered'
  <2> SUFFICES ASSUME NEW n \in Nodes, NEW x \in DOMAIN data[n]
               PROVE  Cover(meta, n, x)
    BY <1>2, <1>8 DEF Covered, Cover
  <2> QED BY <1>1, <1>2 DEF Covered, Leaving
<1>12. LogsArePending'
  <2> SUFFICES ASSUME NEW n \in Nodes PROVE log'[n] = Pending(n)'
    BY DEF LogsArePending
  <2>1. log[n] = IF n = node THEN {DeleteEntry(mig.key)} ELSE {}
    BY <1>1, <1>2 DEF LogsArePending, Pending
  <2>2. Pending(n)' = (IF n = node THEN {DeleteEntry(mig.key)} ELSE {})
                      \cup (IF n = Peer THEN {e} ELSE {})
    BY <1>2, <1>4, <1>9 DEF Pending
  <2> HIDE DEF e
  <2> QED BY <1>1, <1>4, <1>8, <2>1, <2>2 DEF TypeOK
<1>13. Chosen' /\ Replied'
  BY <1>1, <1>2, <1>4, <1>8, <1>9 DEF Chosen, Replied
<1> QED BY <1>1, <1>2, <1>3, <1>4, <1>10, <1>11, <1>12, <1>13
        DEF IInv, Position, Serving, Moving, InFlight, Shape

\* The bounds of a nonempty database.
LEMMA BoundsOf ==
  ASSUME NEW db, DOMAIN db \subseteq Keys, DOMAIN db # {}, NEW b,
         b = [min |-> SeekToFirst(db), max |-> SeekToLast(db)]
  PROVE  /\ b.min \in DOMAIN db /\ b.max \in DOMAIN db
         /\ \A x \in DOMAIN db : b.min <= x /\ x <= b.max
BY SeekToFirstFacts, SeekToLastFacts

\* A range that shrinks stays clear of the others.
LEMMA ShrinkClear ==
  ASSUME NEW m, Shape(m), NEW at \in DOMAIN m, NEW lo \in Keys, NEW hi \in Keys,
         at <= lo, hi <= m[at].max
  PROVE  /\ \A x \in DOMAIN m : x < at => m[x].max < lo
         /\ \A x \in DOMAIN m : at < x => hi < x
<1>1. /\ \A x \in DOMAIN m : x \in Nat /\ m[x].max \in Nat
      /\ at \in Nat /\ lo \in Nat /\ hi \in Nat
  BY ShapeType, KeysAreNat
<1>2. /\ \A x \in DOMAIN m : x < at => m[x].max < at
      /\ \A x \in DOMAIN m : at < x => m[at].max < x
  BY DEF Shape
<1> QED BY <1>1, <1>2

\* Key k leaves the range of the entry at, whose node keeps keys in lo..hi on
\* one side of k, and joins the neighbouring range, whose node then has keys in
\* c..d: both put and both delete_1 of re_balance together.
LEMMA TwoRekeys ==
  ASSUME NEW m, Shape(m), NEW at \in DOMAIN m, NEW nb \in DOMAIN m, NEW k \in Keys,
         NEW lo \in Keys, NEW hi \in Keys, NEW c \in Keys, NEW d \in Keys,
         at <= k, k <= m[at].max,
         at <= lo, lo <= hi, hi <= m[at].max, c <= k, k <= d,
         c = k \/ nb <= c, d = k \/ d <= m[nb].max,
         \/ /\ at < nb /\ (\A x \in DOMAIN m : at < x => nb <= x) /\ hi < k
         \/ /\ nb < at /\ (\A x \in DOMAIN m : x < at => x <= nb) /\ k < lo
  PROVE  LET r == Rekey(Rekey(m, at, WithRange(m[at], lo, hi)),
                        nb, WithRange(m[nb], c, d))
         IN  /\ Shape(r)
             /\ \A n, x : Cover(m, n, x) /\ n # m[at].fd /\ n # m[nb].fd => Cover(r, n, x)
             /\ \A x : lo <= x /\ x <= hi => Cover(r, m[at].fd, x)
             /\ \A x : c <= x /\ x <= d => Cover(r, m[nb].fd, x)
<1> DEFINE ea == WithRange(m[at], lo, hi)
           eb == WithRange(m[nb], c, d)
           m1 == Rekey(m, at, ea)
           r  == Rekey(m1, nb, eb)
<1>1. /\ \A x \in DOMAIN m : x \in Nat /\ m[x].max \in Nat /\ m[x].fd \in Nodes
      /\ k \in Nat /\ lo \in Nat /\ hi \in Nat /\ c \in Nat /\ d \in Nat
  BY ShapeType, KeysAreNat
<1>2. /\ ea \in MetaEntries /\ ea.min = lo /\ ea.max = hi /\ ea.fd = m[at].fd
      /\ eb \in MetaEntries /\ eb.min = c /\ eb.max = d /\ eb.fd = m[nb].fd
  BY <1>1 DEF WithRange, MetaEntries
<1> HIDE DEF ea, eb
<1>3. /\ \A x \in DOMAIN m : x < at => m[x].max < ea.min
      /\ \A x \in DOMAIN m : at < x => ea.max < x
  BY <1>2, ShrinkClear
<1>4. ea.min <= ea.max /\ eb.min <= eb.max
  BY <1>1, <1>2
<1>5. /\ Shape(m1)
      /\ DOMAIN m1 = (DOMAIN m \ {at}) \cup {lo} /\ m1[lo] = ea
      /\ \A x \in DOMAIN m \ {at} : x # lo /\ m1[x] = m[x]
  <2>1. Shape(m1)
    BY <1>2, <1>3, <1>4, RekeyKeeps
  <2>2. DOMAIN m1 = (DOMAIN m \ {at}) \cup {ea.min} /\ m1[ea.min] = ea
    BY <1>2, <1>3, <1>4, RekeyKeeps
  <2>3. ASSUME NEW x \in DOMAIN m \ {at} PROVE x # ea.min /\ m1[x] = m[x]
    <3>1. x <= m[x].max
      BY DEF Shape
    <3>2. x # ea.min
      BY <1>1, <1>2, <1>3, <3>1
    <3> QED BY <3>2 DEF Rekey, DbPut, DbDelete
  <2> HIDE DEF m1
  <2> QED BY <1>2, <2>1, <2>2, <2>3
<1>6. nb # at /\ nb \in DOMAIN m1 /\ m1[nb] = m[nb] /\ m[nb].fd # m[at].fd
  BY <1>1, <1>5, FdInjective
<1>7. /\ \A n, x : n # m[at].fd /\ Cover(m, n, x) => Cover(m1, n, x)
      /\ \A x : lo <= x /\ x <= hi => Cover(m1, m[at].fd, x)
  BY <1>2, <1>3, <1>4, RekeyCovers
<1> HIDE DEF m1
<1>8. /\ \A x \in DOMAIN m : at < x => m[at].max < x
      /\ \A x \in DOMAIN m : x < at => m[x].max < at
      /\ \A x \in DOMAIN m : nb < x => m[nb].max < x
      /\ \A x \in DOMAIN m : x < nb => m[x].max < nb
      /\ \A x \in DOMAIN m : x <= m[x].max
  BY DEF Shape
<1>9. \A x \in DOMAIN m1 : x < nb => m1[x].max < eb.min
  <2> SUFFICES ASSUME NEW x \in DOMAIN m1, x < nb PROVE m1[x].max < c
    BY <1>2
  <2>1. CASE at < nb /\ (\A y \in DOMAIN m : at < y => nb <= y) /\ hi < k
    <3>1. k <= c
      BY <1>1, <1>8, <2>1
    <3>2. CASE x = lo
      BY <1>1, <1>2, <1>5, <2>1, <3>1, <3>2
    <3>3. CASE x \in DOMAIN m \ {at}
      <4>1. x < at
        BY <1>1, <2>1, <3>3
      <4> QED BY <1>1, <1>5, <1>8, <3>1, <3>3, <4>1
    <3> QED BY <1>5, <3>2, <3>3
  <2>2. CASE nb < at /\ (\A y \in DOMAIN m : y < at => y <= nb) /\ k < lo
    <3>1. nb <= c
      BY <1>1, <2>2
    <3>2. x # lo
      BY <1>1, <2>2
    <3>3. x \in DOMAIN m \ {at}
      BY <1>5, <3>2
    <3> QED BY <1>1, <1>5, <1>8, <3>1, <3>3
  <2> QED BY <2>1, <2>2
<1>10. \A x \in DOMAIN m1 : nb < x => eb.max < x
  <2> SUFFICES ASSUME NEW x \in DOMAIN m1, nb < x PROVE d < x
    BY <1>2
  <2>1. CASE at < nb /\ (\A y \in DOMAIN m : at < y => nb <= y) /\ hi < k
    <3>1. x # lo
      BY <1>1, <1>8, <2>1
    <3>2. x \in DOMAIN m \ {at}
      BY <1>5, <3>1
    <3> QED BY <1>1, <1>8, <2>1, <3>2
  <2>2. CASE nb < at /\ (\A y \in DOMAIN m : y < at => y <= nb) /\ k < lo
    <3>1. d <= k
      BY <1>1, <1>8, <2>2
    <3>2. CASE x = lo
      BY <1>1, <2>2, <3>1, <3>2
    <3>3. CASE x \in DOMAIN m \ {at}
      <4>1. at < x
        BY <1>1, <2>2, <3>3
      <4> QED BY <1>1, <1>8, <3>1, <3>3, <4>1
    <3> QED BY <1>5, <3>2, <3>3
  <2> QED BY <2>1, <2>2
<1>11. Shape(r)
  BY <1>2, <1>4, <1>5, <1>6, <1>9, <1>10, RekeyKeeps
<1>12. /\ \A n, x : n # m[nb].fd /\ Cover(m1, n, x) => Cover(r, n, x)
       /\ \A x : c <= x /\ x <= d => Cover(r, m[nb].fd, x)
  BY <1>2, <1>4, <1>5, <1>6, <1>9, <1>10, RekeyCovers
<1> HIDE DEF r
<1>13. /\ Shape(r)
       /\ \A n, x : Cover(m, n, x) /\ n # m[at].fd /\ n # m[nb].fd => Cover(r, n, x)
       /\ \A x : lo <= x /\ x <= hi => Cover(r, m[at].fd, x)
       /\ \A x : c <= x /\ x <= d => Cover(r, m[nb].fd, x)
  <2>1. ASSUME NEW n, NEW x, Cover(m, n, x), n # m[at].fd, n # m[nb].fd
        PROVE  Cover(r, n, x)
    BY <1>7, <1>12, <2>1
  <2>2. ASSUME NEW x, lo <= x, x <= hi PROVE Cover(r, m[at].fd, x)
    <3>1. Cover(m1, m[at].fd, x)
      BY <1>7, <2>2
    <3> QED BY <1>6, <1>12, <3>1
  <2>3. ASSUME NEW x, c <= x, x <= d PROVE Cover(r, m[nb].fd, x)
    BY <1>12, <2>3
  <2> QED BY <1>11, <2>1, <2>2, <2>3
<1> QED BY <1>13 DEF r, m1, ea, eb

\* NeighbourIsPeer holds before the metadata of a migration is written: the
\* moved key is looked up at the node it leaves, and the next or previous entry
\* is that of its peer.
LEMMA NeighbourFacts ==
  ASSUME IInv, pc = "meta"
  PROVE  LET at == SmallerOrEqual(meta, mig.key)
             nb == Neighbour(at)
         IN  /\ at \in DOMAIN meta /\ nb \in DOMAIN meta
             /\ meta[at].fd = node /\ meta[nb].fd = Peer
             /\ at <= mig.key /\ mig.key <= meta[at].max
             /\ phase = "up" => at < nb /\ \A x \in DOMAIN meta : at < x => nb <= x
             /\ phase # "up" => nb < at /\ \A x \in DOMAIN meta : x < at => x <= nb
<1> DEFINE at == SmallerOrEqual(meta, mig.key)
           nb == Neighbour(at)
<1>1. TypeOK /\ Shape(meta) /\ Covered /\ Position /\ Chosen
  BY DEF IInv, Moving
<1>2. node \in Nodes /\ phase \in {"up", "down"} /\ InLoop
  BY <1>1 DEF Position, TypeOK
<1>3. Peer \in Nodes
  BY <1>2, PeerIsNode
<1>4. mig.key \in DOMAIN data[node] /\ mig.key \in Keys
  BY <1>1, <1>2 DEF Chosen, TypeOK, IsDb
<1>5. Cover(meta, node, mig.key)
  BY <1>1, <1>2, <1>4 DEF Covered, Leaving
<1>6. at \in DOMAIN meta /\ meta[at].fd = node /\ at <= mig.key /\ mig.key <= meta[at].max
  BY <1>1, <1>4, <1>5, CoverRoutes
<1> HIDE DEF at
<1>7. /\ nb \in DOMAIN meta /\ meta[nb].fd = Peer
      /\ phase = "up" => at < nb /\ \A x \in DOMAIN meta : at < x => nb <= x
      /\ phase # "up" => nb < at /\ \A x \in DOMAIN meta : x < at => x <= nb
  <2>1. CASE phase = "up"
    <3>1. nb = After(meta, at) /\ Peer = meta[at].fd + 1
      BY <1>6, <2>1 DEF Neighbour, Peer
    <3> HIDE DEF nb
    <3> QED BY <1>1, <1>3, <1>6, <2>1, <3>1, NextEntry
  <2>2. CASE phase # "up"
    <3>1. nb = Before(meta, at) /\ Peer = meta[at].fd - 1
      BY <1>6, <2>2 DEF Neighbour, Peer
    <3> HIDE DEF nb
    <3> QED BY <1>1, <1>3, <1>6, <2>2, <3>1, PreviousEntry
  <2> QED BY <2>1, <2>2
<1> HIDE DEF nb
<1>8. /\ at \in DOMAIN meta /\ nb \in DOMAIN meta
      /\ meta[at].fd = node /\ meta[nb].fd = Peer
      /\ at <= mig.key /\ mig.key <= meta[at].max
      /\ phase = "up" => at < nb /\ \A x \in DOMAIN meta : at < x => nb <= x
      /\ phase # "up" => nb < at /\ \A x \in DOMAIN meta : x < at => x <= nb
  BY <1>6, <1>7
<1> QED BY <1>8 DEF at, nb

\* A range of the metadata covers the keys of its node.
LEMMA RangeCovers ==
  ASSUME IInv, pc = "meta", NEW a \in DOMAIN meta, meta[a].fd \in Nodes,
         NEW x \in DOMAIN data[meta[a].fd]
  PROVE  a <= x /\ x <= meta[a].max /\ x \in Keys
<1>1. TypeOK /\ Shape(meta) /\ Covered
  BY DEF IInv
<1>2. Cover(meta, meta[a].fd, x)
  BY <1>1 DEF Covered, Leaving
<1>3. PICK b \in DOMAIN meta : meta[b].fd = meta[a].fd /\ b <= x /\ x <= meta[b].max
  BY <1>2 DEF Cover
<1>4. b = a
  BY <1>1, <1>3, FdInjective
<1> QED BY <1>1, <1>3, <1>4 DEF TypeOK, IsDb

\* What the node a key leaves answered to LOG: the bounds of its other keys, in
\* the range it has.
LEMMA SourceShrinks ==
  ASSUME IInv, pc = "meta"
  PROVE  LET at == SmallerOrEqual(meta, mig.key)
             lo == mig.src.min
             hi == mig.src.max
         IN  /\ lo \in DOMAIN data[node] /\ hi \in DOMAIN data[node]
             /\ lo \in Keys /\ hi \in Keys /\ lo # mig.key /\ hi # mig.key
             /\ \A x \in DOMAIN data[node] \ {mig.key} : lo <= x /\ x <= hi
             /\ at <= lo /\ lo <= hi /\ hi <= meta[at].max
             /\ Rebound(meta[at], mig.src) = WithRange(meta[at], lo, hi)
<1> DEFINE k  == mig.key
           at == SmallerOrEqual(meta, k)
           left == DataAfter(data[node], DeleteEntry(k))
           lo == mig.src.min
           hi == mig.src.max
<1>1. TypeOK /\ Position /\ Chosen
  BY DEF IInv, Moving
<1>2. node \in Nodes /\ at \in DOMAIN meta /\ meta[at].fd = node
  BY <1>1, NeighbourFacts DEF Position
<1>3. IsDb(data[node], Values)
  BY <1>1, <1>2 DEF TypeOK
<1>4. /\ k \in DOMAIN data[node] /\ k \in Keys /\ \E x \in DOMAIN data[node] : x # k
      /\ mig.src = LogReply(data[node], DeleteEntry(k))
  BY <1>1, <1>3 DEF Chosen, IsDb
<1> HIDE DEF at
<1>5. /\ Applicable(DeleteEntry(k)) /\ DeleteEntry(k).key = k /\ DeleteEntry(k).kind # PUT
  BY <1>4, DeleteApplicable DEF DeleteEntry, PUT, DELETE
<1>6. DOMAIN left = DOMAIN data[node] \ {k}
  BY <1>5, DataAfterDomain
<1>7. DOMAIN left \subseteq Keys /\ DOMAIN left # {}
  BY <1>3, <1>4, <1>6 DEF IsDb
<1>8. mig.src = [min |-> SeekToFirst(left), max |-> SeekToLast(left)]
  BY <1>3, <1>4, <1>5, ReplyIsBounds
<1> HIDE DEF left
<1>9. /\ lo \in DOMAIN left /\ hi \in DOMAIN left
      /\ \A x \in DOMAIN left : lo <= x /\ x <= hi
  BY <1>7, <1>8, BoundsOf
<1>10. lo \in Keys /\ hi \in Keys
  BY <1>7, <1>9
<1>11. Rebound(meta[at], mig.src) = WithRange(meta[at], lo, hi)
  BY <1>10, KeysAreNat DEF Rebound
<1>12. at <= lo /\ lo <= hi /\ hi <= meta[at].max
  BY <1>2, <1>6, <1>9, RangeCovers
<1> QED BY <1>6, <1>9, <1>10, <1>11, <1>12 DEF at

\* The entry of the node a key leaves, deleted and put, is clear of the others
\* and covers the keys that stay: so the metadata is sound between the two pairs
\* of writes of re_balance.
LEMMA FirstRekey ==
  ASSUME IInv, pc = "meta"
  PROVE  LET at == SmallerOrEqual(meta, mig.key)
             r  == Rekey(meta, at, Rebound(meta[at], mig.src))
         IN  /\ Shape(r)
             /\ \A n \in Nodes : \A x \in DOMAIN data[n] \ {mig.key} : Cover(r, n, x)
<1> DEFINE k  == mig.key
           at == SmallerOrEqual(meta, k)
           lo == mig.src.min
           hi == mig.src.max
           e  == Rebound(meta[at], mig.src)
           r  == Rekey(meta, at, e)
<1>1. Shape(meta) /\ Covered
  BY DEF IInv
<1>2. at \in DOMAIN meta /\ meta[at].fd = node
  BY NeighbourFacts
<1>3. /\ lo \in Keys /\ hi \in Keys /\ at <= lo /\ lo <= hi /\ hi <= meta[at].max
      /\ \A x \in DOMAIN data[node] \ {k} : lo <= x /\ x <= hi
      /\ e = WithRange(meta[at], lo, hi)
  BY SourceShrinks
<1> HIDE DEF at, lo, hi, e
<1>4. e \in MetaEntries /\ e.min = lo /\ e.max = hi /\ e.fd = node
  BY <1>1, <1>2, <1>3, ShapeType DEF WithRange, MetaEntries
<1>5. /\ \A x \in DOMAIN meta : x < at => meta[x].max < e.min
      /\ \A x \in DOMAIN meta : at < x => e.max < x
  BY <1>1, <1>2, <1>3, <1>4, ShrinkClear
<1>6. Shape(r)
  <2>1. e.fd = meta[at].fd /\ e.min <= e.max
    BY <1>2, <1>3, <1>4
  <2>2. Shape(Rekey(meta, at, e))
    BY ONLY <1>1, <1>2, <1>4, <1>5, <2>1, RekeyKeeps
  <2> QED BY <2>2
<1>7. ASSUME NEW n \in Nodes, NEW x \in DOMAIN data[n] \ {k} PROVE Cover(r, n, x)
  <2>1. CASE n = node
    <3>1. e.min <= x /\ x <= e.max
      BY <1>3, <1>4, <2>1
    <3> QED BY <1>1, <1>2, <1>3, <1>4, <1>5, <2>1, <3>1, RekeyCovers
  <2>2. CASE n # node
    <3>1. Cover(meta, n, x)
      BY <1>1 DEF Covered, Leaving
    <3> QED BY <1>1, <1>2, <1>3, <1>4, <1>5, <2>2, <3>1, RekeyCovers
  <2> QED BY <2>1, <2>2
<1> QED BY <1>6, <1>7 DEF r, e, at

LEMMA UpdateMetaStep ==
  ASSUME IInv, UpdateMeta
  PROVE  IInv'
<1> DEFINE k  == mig.key
           at == SmallerOrEqual(meta, k)
           nb == Neighbour(at)
           grown == DataAfter(data[Peer], PutEntry(k, mig.val))
<1>1. /\ TypeOK /\ Shape(meta) /\ Covered /\ LogsArePending /\ Position
      /\ Chosen /\ Replied
  BY DEF IInv, Moving
<1>2. /\ pc = "meta" /\ pc' = "commitSource"
      /\ meta' = Rekey(Rekey(meta, at, Rebound(meta[at], mig.src)),
                       nb, Rebound(meta[nb], mig.dst))
      /\ UNCHANGED <<data, size, log, req, fd, out, phase, node, total, mig>>
  BY DEF UpdateMeta, storeVars, ctlVars, loopVars
<1>3. /\ node \in Nodes /\ phase \in {"up", "down"} /\ InLoop
      /\ Peer \in Nodes /\ Peer # node /\ Peer' = Peer /\ InLoop'
  BY <1>1, <1>2, PeerIsNode DEF Position, TypeOK, Peer, InLoop
<1>4. IsDb(data[node], Values) /\ IsDb(data[Peer], Values)
  BY <1>1, <1>3 DEF TypeOK
<1>5. /\ k \in DOMAIN data[node] /\ k \in Keys /\ mig.val \in Values
      /\ \A x \in DOMAIN data[node] : IF phase = "up" THEN x <= k ELSE k <= x
      /\ \E x \in DOMAIN data[node] : x # k
  BY <1>1, <1>2, <1>4 DEF Chosen, IsDb
<1>6. /\ at \in DOMAIN meta /\ nb \in DOMAIN meta
      /\ meta[at].fd = node /\ meta[nb].fd = Peer
      /\ at <= k /\ k <= meta[at].max
      /\ phase = "up" => at < nb /\ \A x \in DOMAIN meta : at < x => nb <= x
      /\ phase # "up" => nb < at /\ \A x \in DOMAIN meta : x < at => x <= nb
  BY <1>2, NeighbourFacts
<1> HIDE DEF at, nb
<1>7. ASSUME NEW a \in DOMAIN meta, NEW x \in DOMAIN data[meta[a].fd], meta[a].fd \in Nodes
      PROVE  a <= x /\ x <= meta[a].max /\ x \in Keys
  BY <1>2, <1>7, RangeCovers
<1> DEFINE lo == mig.src.min
           hi == mig.src.max
           c  == mig.dst.min
           d  == mig.dst.max
<1>8. /\ lo \in DOMAIN data[node] /\ hi \in DOMAIN data[node]
      /\ lo \in Keys /\ hi \in Keys /\ lo # k /\ hi # k
      /\ \A x \in DOMAIN data[node] \ {k} : lo <= x /\ x <= hi
      /\ at <= lo /\ lo <= hi /\ hi <= meta[at].max
      /\ Rebound(meta[at], mig.src) = WithRange(meta[at], lo, hi)
  BY <1>2, SourceShrinks DEF at
<1>9. /\ Applicable(PutEntry(k, mig.val)) /\ PutEntry(k, mig.val).key = k
      /\ PutEntry(k, mig.val).kind = PUT
  BY <1>5, PutApplicable DEF PutEntry
<1>10. DOMAIN grown = DOMAIN data[Peer] \cup {k}
  BY <1>9, DataAfterDomain
<1>11. DOMAIN grown \subseteq Keys /\ DOMAIN grown # {}
  BY <1>4, <1>5, <1>10 DEF IsDb
<1>12. mig.dst = [min |-> SeekToFirst(grown), max |-> SeekToLast(grown)]
  BY <1>1, <1>2, <1>4, <1>9, ReplyIsBounds DEF Replied
<1> HIDE DEF grown
<1>13. /\ c \in DOMAIN grown /\ d \in DOMAIN grown
       /\ \A x \in DOMAIN grown : c <= x /\ x <= d
  BY <1>11, <1>12, BoundsOf
<1>14. c \in Keys /\ d \in Keys
  BY <1>11, <1>13
<1>15. Rebound(meta[nb], mig.dst) = WithRange(meta[nb], c, d)
  BY <1>14, KeysAreNat DEF Rebound
<1> HIDE DEF lo, hi, c, d
<1>16. /\ c <= k /\ k <= d
       /\ c = k \/ nb <= c
       /\ d = k \/ d <= meta[nb].max
  BY <1>3, <1>6, <1>7, <1>10, <1>13
<1>17. \/ /\ at < nb /\ (\A x \in DOMAIN meta : at < x => nb <= x) /\ hi < k
       \/ /\ nb < at /\ (\A x \in DOMAIN meta : x < at => x <= nb) /\ k < lo
  <2>1. hi \in Nat /\ lo \in Nat /\ k \in Nat
    BY <1>5, <1>8, KeysAreNat
  <2> QED BY <1>5, <1>6, <1>8, <2>1
<1>18. /\ Shape(meta')
       /\ \A n, x : Cover(meta, n, x) /\ n # node /\ n # Peer => Cover(meta', n, x)
       /\ \A x : lo <= x /\ x <= hi => Cover(meta', node, x)
       /\ \A x : c <= x /\ x <= d => Cover(meta', Peer, x)
  <2> HIDE DEF k
  <2>1. meta' = Rekey(Rekey(meta, at, WithRange(meta[at], lo, hi)),
                      nb, WithRange(meta[nb], c, d))
    BY <1>2, <1>8, <1>15
  <2> QED BY <1>1, <1>5, <1>6, <1>8, <1>14, <1>16, <1>17, <2>1, TwoRekeys
<1>19. Covered'
  <2> SUFFICES ASSUME NEW n \in Nodes, NEW x \in DOMAIN data[n], ~(n = node /\ x = k)
               PROVE  Cover(meta', n, x)
    BY <1>2 DEF Covered, Cover, Leaving
  <2>1. CASE n = node
    BY <1>8, <1>18, <2>1
  <2>2. CASE n = Peer
    <3>1. x \in DOMAIN grown
      BY <1>10, <2>2
    <3> QED BY <1>13, <1>18, <2>2, <3>1
  <2>3. CASE n # node /\ n # Peer
    <3>1. Cover(meta, n, x)
      BY <1>1, <1>2 DEF Covered, Leaving
    <3> QED BY <1>18, <2>3, <3>1
  <2> QED BY <2>1, <2>2, <2>3
<1>20. InFlight'
  <2>1. Cover(meta', Peer, k)
    BY <1>16, <1>18
  <2> QED BY <1>2, <1>3, <1>5, <2>1 DEF InFlight, Cover
<1>21. LogsArePending'
  BY <1>1, <1>2, <1>3 DEF LogsArePending, Pending
<1>22. TypeOK'
  <2>1. IsDb(meta, MetaEntries)'
    BY <1>18 DEF Shape
  <2> QED BY <1>1, <1>2, <2>1 DEF TypeOK
<1>23. Shape(meta)'
  BY <1>18 DEF Shape
<1> QED BY <1>2, <1>3, <1>19, <1>20, <1>21, <1>22, <1>23
        DEF IInv, Position, Serving, Moving, Chosen, Replied

\* The two commits of a migration.
LEMMA CommitSourceStep ==
  ASSUME IInv, CommitSource
  PROVE  IInv'
<1> DEFINE k == mig.key
           e == DeleteEntry(k)
<1>1. TypeOK /\ Shape(meta) /\ Covered /\ LogsArePending /\ Position /\ InFlight
  BY DEF IInv, Moving
<1>2. /\ pc = "commitSource" /\ pc' = "commitPeer" /\ CommitAt(node)
      /\ UNCHANGED <<meta, req, fd, out, phase, node, total, mig>>
  BY DEF CommitSource, ctlVars, loopVars
<1>3. /\ node \in Nodes /\ phase \in {"up", "down"} /\ InLoop
      /\ Peer \in Nodes /\ Peer # node /\ Peer' = Peer /\ InLoop'
  BY <1>1, <1>2, PeerIsNode DEF Position, TypeOK, Peer, InLoop
<1>4. k \in Keys /\ mig.val \in Values /\ Cover(meta, Peer, k)
  BY <1>1, <1>2 DEF InFlight
<1>5. Applicable(e) /\ e.key = k /\ e.kind # PUT
  BY <1>4, DeleteApplicable DEF DeleteEntry, PUT, DELETE
<1>6. \A n \in Nodes : log[n] = (IF n = node THEN {e} ELSE {})
                               \cup (IF n = Peer THEN {PutEntry(k, mig.val)} ELSE {})
  BY <1>1, <1>2 DEF LogsArePending, Pending
<1>7. log[node] = {e}
  BY <1>3, <1>6
<1>8. /\ data' = [data EXCEPT ![node] = DataAfter(data[node], e)]
      /\ log' = [log EXCEPT ![node] = {}]
      /\ data' = [x \in Nodes |-> data'[x]]
      /\ \A x \in Nodes : IsDb(data'[x], Values)
      /\ size' \in [Nodes -> Int]
      /\ log' \in [Nodes -> SUBSET Entries]
  BY <1>1, <1>2, <1>3, <1>5, <1>7, CommitOne
<1> HIDE DEF e
<1>9. TypeOK'
  BY <1>1, <1>2, <1>8 DEF TypeOK
<1>10. Covered'
  <2> SUFFICES ASSUME NEW n \in Nodes, NEW x \in DOMAIN (data'[n])
               PROVE  Cover(meta, n, x)
    BY <1>2 DEF Covered, Cover
  <2>1. data = [y \in Nodes |-> data[y]]
    BY <1>1 DEF TypeOK
  <2>2. CASE n = node
    <3>1. DOMAIN (data'[n]) = DOMAIN data[n] \ {k}
      <4>1. data'[n] = DataAfter(data[n], e)
        BY <1>3, <1>8, <2>1, <2>2
      <4> HIDE DEF k
      <4> QED BY <1>5, <4>1, DataAfterDomain
    <3>2. x \in DOMAIN data[n] /\ x # k
      BY <3>1
    <3> QED BY <1>1, <3>2 DEF Covered, Leaving
  <2>3. CASE n # node
    <3>1. data'[n] = data[n]
      BY <1>8, <2>1, <2>3
    <3> QED BY <1>1, <2>3, <3>1 DEF Covered, Leaving
  <2> QED BY <2>2, <2>3
<1>11. LogsArePending'
  <2> SUFFICES ASSUME NEW n \in Nodes PROVE log'[n] = Pending(n)'
    BY DEF LogsArePending
  <2>1. Pending(n)' = IF n = Peer THEN {PutEntry(k, mig.val)} ELSE {}
    BY <1>2, <1>3 DEF Pending
  <2>2. log'[n] = IF n = node THEN {} ELSE log[n]
    BY <1>1, <1>8 DEF TypeOK
  <2> QED BY <1>3, <1>6, <2>1, <2>2
<1>12. InFlight'
  BY <1>2, <1>3, <1>4 DEF InFlight, Cover
<1> QED BY <1>1, <1>2, <1>3, <1>9, <1>10, <1>11, <1>12
        DEF IInv, Position, Serving, Moving, Chosen, Replied, Shape

LEMMA CommitPeerStep ==
  ASSUME IInv, CommitPeer
  PROVE  IInv'
<1> DEFINE k == mig.key
           e == PutEntry(k, mig.val)
<1>1. TypeOK /\ Shape(meta) /\ Covered /\ LogsArePending /\ Position /\ InFlight
  BY DEF IInv, Moving
<1>2. /\ pc = "commitPeer" /\ pc' = "loop" /\ CommitAt(Peer) /\ mig' = NoMigration
      /\ UNCHANGED <<meta, req, fd, out, phase, node, total>>
  BY DEF CommitPeer, ctlVars, loopVars
<1>3. node \in Nodes /\ phase \in {"up", "down"} /\ InLoop /\ Peer \in Nodes
  BY <1>1, <1>2, PeerIsNode DEF Position, TypeOK
<1>4. k \in Keys /\ mig.val \in Values /\ Cover(meta, Peer, k)
  BY <1>1, <1>2 DEF InFlight
<1>5. Applicable(e) /\ e.key = k /\ e.kind = PUT
  BY <1>4, PutApplicable DEF PutEntry
<1>6. \A n \in Nodes : log[n] = IF n = Peer THEN {e} ELSE {}
  BY <1>1, <1>2 DEF LogsArePending, Pending
<1>7. log[Peer] = {e}
  BY <1>3, <1>6
<1>8. /\ data' = [data EXCEPT ![Peer] = DataAfter(data[Peer], e)]
      /\ log' = [log EXCEPT ![Peer] = {}]
      /\ data' = [x \in Nodes |-> data'[x]]
      /\ \A x \in Nodes : IsDb(data'[x], Values)
      /\ size' \in [Nodes -> Int]
      /\ log' \in [Nodes -> SUBSET Entries]
  BY <1>1, <1>2, <1>3, <1>5, <1>7, CommitOne
<1> HIDE DEF e
<1>9. TypeOK'
  <2>1. mig' \in [key : Keys \cup {EmptyStr}, val : Values \cup {EmptyStr},
                  src : Bounds, dst : Bounds]
    BY <1>2 DEF NoMigration, NoBounds, Bounds
  <2> QED BY <1>1, <1>2, <1>8, <2>1 DEF TypeOK
<1>10. Covered'
  <2> SUFFICES ASSUME NEW n \in Nodes, NEW x \in DOMAIN (data'[n])
               PROVE  Cover(meta, n, x)
    BY <1>2 DEF Covered, Cover
  <2>1. data = [y \in Nodes |-> data[y]]
    BY <1>1 DEF TypeOK
  <2>2. x \in DOMAIN data[n] \/ (n = Peer /\ x = k)
    <3>1. CASE n = Peer
      <4>1. DOMAIN (data'[n]) = DOMAIN data[n] \cup {k}
        <5>1. data'[n] = DataAfter(data[n], e)
          BY <1>3, <1>8, <2>1, <3>1
        <5> QED BY <1>5, <5>1, DataAfterDomain
      <4> QED BY <3>1, <4>1
    <3>2. CASE n # Peer
      BY <1>8, <2>1, <3>2
    <3> QED BY <3>1, <3>2
  <2>3. CASE x \in DOMAIN data[n]
    BY <1>1, <1>2, <2>3 DEF Covered, Leaving
  <2>4. CASE n = Peer /\ x = k
    BY <1>4, <2>4
  <2> QED BY <2>2, <2>3, <2>4
<1>11. LogsArePending'
  <2> SUFFICES ASSUME NEW n \in Nodes PROVE log'[n] = Pending(n)'
    BY DEF LogsArePending
  <2>1. Pending(n)' = {}
    BY <1>2 DEF Pending
  <2> QED BY <1>1, <1>6, <1>8, <2>1 DEF TypeOK
<1> QED BY <1>1, <1>2, <1>3, <1>9, <1>10, <1>11
        DEF IInv, Position, Serving, Moving, Chosen, Replied, InFlight, Shape

-----------------------------------------------------------------------------
(* The theorems.                                                           *)

LEMMA StutterStep ==
  ASSUME IInv, UNCHANGED vars
  PROVE  IInv'
<1>1. UNCHANGED <<meta, data, size, log, pc, req, fd, out, phase, node, total, mig>>
  BY DEF vars, storeVars, ctlVars, loopVars
<1>2. /\ TypeOK' /\ Shape(meta)' /\ Covered' /\ LogsArePending'
  BY <1>1 DEF IInv, TypeOK, Shape, Covered, Cover, Leaving, LogsArePending, Pending, Peer
<1>3. Position' /\ Serving' /\ Chosen' /\ Replied' /\ InFlight'
  BY <1>1 DEF IInv, Position, Serving, Moving, Chosen, Replied, InFlight, Cover,
              Peer, InLoop
<1> QED BY <1>2, <1>3 DEF IInv, Moving

LEMMA NextStep ==
  ASSUME IInv, [Next]_vars
  PROVE  IInv'
<1>1. CASE \E k \in Keys : (\E v \in Values : Put(k, v)) \/ Del(k) \/ Get(k)
  BY <1>1, PutStep, DelStep, GetStep
<1>2. CASE Commit
  BY <1>2, CommitStep
<1>3. CASE ReBalance
  BY <1>3, LoopStep, LogSourceStep, LogPeerStep, UpdateMetaStep, CommitSourceStep,
     CommitPeerStep DEF ReBalance
<1>4. CASE Restart
  BY <1>4, RestartStep
<1>5. CASE UNCHANGED vars
  BY <1>5, StutterStep
<1> QED BY <1>1, <1>2, <1>3, <1>4, <1>5 DEF Next

\* IInv is an invariant of the cluster.
THEOREM Inductive == Spec => []IInv
<1>1. IInv /\ [Next]_vars => IInv'
  BY NextStep
<1> QED BY <1>1, InitStep, PTL DEF Spec

\* The variables of the control node and of the store nodes keep their types.
THEOREM TypeCorrect == Spec => []TypeOK
<1>1. IInv => TypeOK
  BY DEF IInv
<1> QED BY <1>1, Inductive, PTL

\* The metadata keeps one entry for each node, in the order of the nodes,
\* whatever put, del and re_balance do to it.
THEOREM MetaStaysOrdered == Spec => []MetaOrdered
<1>1. IInv => MetaOrdered
  BY DEF IInv, Shape, MetaOrdered
<1> QED BY <1>1, Inductive, PTL

\* The ranges in the metadata never overlap and cover what their nodes hold.
THEOREM RangesStay == Spec => []RangesHold
<1>1. IInv => RangesHold
  <2> SUFFICES ASSUME IInv PROVE RangesHold
    OBVIOUS
  <2>1. Shape(meta) /\ Covered
    BY DEF IInv
  <2>2. ASSUME NEW m \in DOMAIN meta, NEW k \in DOMAIN data[meta[m].fd],
               ~Leaving(meta[m].fd, k)
        PROVE  m <= k /\ k <= meta[m].max
    <3>1. meta[m].fd \in Nodes
      BY <2>1, ShapeType
    <3>2. PICK a \in DOMAIN meta : meta[a].fd = meta[m].fd /\ a <= k /\ k <= meta[a].max
      BY <2>1, <2>2, <3>1 DEF Covered, Cover
    <3>3. a = m
      BY <2>1, <3>2, FdInjective
    <3> QED BY <3>2, <3>3
  <2> QED BY <2>1, <2>2 DEF RangesHold, Shape
<1> QED BY <1>1, Inductive, PTL

\* A key is always looked up at the node that stores it, and the key of a
\* migration at the node it moves to from the moment the metadata says so.
THEOREM LookupFindsOwner == Spec => []RoutedToOwner
<1>1. IInv => RoutedToOwner
  <2> SUFFICES ASSUME IInv PROVE RoutedToOwner
    OBVIOUS
  <2>1. Shape(meta) /\ Covered /\ TypeOK /\ InFlight
    BY DEF IInv, Moving
  <2>2. ASSUME NEW n \in Nodes, NEW k \in DOMAIN data[n], ~Leaving(n, k)
        PROVE  Route(k) = n
    <3>1. Cover(meta, n, k)
      BY <2>1, <2>2 DEF Covered
    <3>2. k \in Keys
      BY <2>1 DEF TypeOK, IsDb
    <3> QED BY <2>1, <3>1, <3>2, CoverRoutes DEF Route
  <2>3. ASSUME pc \in {"commitSource", "commitPeer"} PROVE Route(mig.key) = Peer
    BY <2>1, <2>3, CoverRoutes DEF InFlight, Route
  <2> QED BY <2>2, <2>3 DEF RoutedToOwner
<1> QED BY <1>1, Inductive, PTL

\* re_balance always rewrites the entries of the two nodes it moves a key
\* between: its iterator never runs off the metadata or onto a third node.
THEOREM NeighbourStaysPeer == Spec => []NeighbourIsPeer
<1>1. IInv => NeighbourIsPeer
  BY NeighbourFacts DEF NeighbourIsPeer
<1> QED BY <1>1, Inductive, PTL

\* While nothing fails, a node's log holds exactly what the protocol has logged
\* there and not yet committed.
THEOREM LogsStayPending == Spec => []LogsArePending
<1>1. IInv => LogsArePending
  BY DEF IInv
<1> QED BY <1>1, Inductive, PTL

\* A COMMIT_LOG of one entry keeps the counters of all nodes exact.
LEMMA CommitExact ==
  ASSUME EmptyStr \notin Values, TypeOK, SizesExact,
         NEW n \in Nodes, NEW e, Applicable(e), log[n] = {e}, CommitAt(n)
  PROVE  SizesExact'
<1>1. /\ data' = [data EXCEPT ![n] = DataAfter(data[n], e)]
      /\ size' = [size EXCEPT ![n] = SizeAfter(data[n], size[n], e)]
  BY CommitOne
<1>2. /\ data = [x \in Nodes |-> data[x]] /\ size \in [Nodes -> Int]
      /\ IsDb(data[n], Values)
  BY DEF TypeOK
<1>3. SizeAfter(data[n], size[n], e) = DbSize(DataAfter(data[n], e))
  BY <1>2, SizeTracks DEF SizesExact
<1>4. ASSUME NEW x \in Nodes PROVE size'[x] = DbSize(data'[x])
  <2>1. CASE x = n
    BY <1>1, <1>2, <1>3, <2>1
  <2>2. CASE x # n
    <3>1. size'[x] = size[x] /\ data'[x] = data[x]
      BY <1>1, <1>2, <2>2
    <3> QED BY <3>1 DEF SizesExact
  <2> QED BY <2>1, <2>2
<1> QED BY <1>4 DEF SizesExact

\* While no client stores an empty value, the byte counters re_balance compares
\* are the sizes of what the nodes store.
THEOREM SizesStayExact ==
  ASSUME EmptyStr \notin Values
  PROVE  Spec => []SizesExact
<1>1. Init => SizesExact
  <2> SUFFICES ASSUME Init, NEW n \in Nodes PROVE size[n] = DbSize(data[n])
    BY DEF SizesExact
  <2>1. size[n] = 0 /\ DOMAIN data[n] = {}
    BY DEF Init
  <2> QED BY <2>1, EmptySize
<1>2. SizesExact /\ IInv /\ [Next]_vars => SizesExact'
  <2> SUFFICES ASSUME SizesExact, IInv, [Next]_vars PROVE SizesExact'
    OBVIOUS
  <2>0. TypeOK /\ LogsArePending /\ Position /\ Serving /\ InFlight
    BY DEF IInv, Moving
  <2>1. ASSUME UNCHANGED <<data, size>> PROVE SizesExact'
    BY <2>1 DEF SizesExact
  <2>2. CASE Commit
    <3>1. fd \in Nodes /\ Applicable(req) /\ log[fd] = {req} /\ CommitAt(fd)
      BY <2>0, <2>2 DEF Commit, TypeOK, Serving, LogsArePending, Pending
    <3> QED BY <2>0, <3>1, CommitExact
  <2>3. CASE CommitSource
    <3>1. /\ node \in Nodes /\ Peer # node /\ mig.key \in Keys /\ CommitAt(node)
      BY <2>0, <2>3, PeerIsNode DEF CommitSource, Position, InFlight, TypeOK
    <3>2. log[node] = {DeleteEntry(mig.key)}
      BY <2>0, <2>3, <3>1 DEF CommitSource, LogsArePending, Pending
    <3> QED BY <2>0, <3>1, <3>2, DeleteApplicable, CommitExact
  <2>4. CASE CommitPeer
    <3>1. /\ Peer \in Nodes /\ mig.key \in Keys /\ mig.val \in Values /\ CommitAt(Peer)
      BY <2>0, <2>4, PeerIsNode DEF CommitPeer, Position, InFlight, TypeOK
    <3>2. log[Peer] = {PutEntry(mig.key, mig.val)}
      BY <2>0, <2>4, <3>1 DEF CommitPeer, LogsArePending, Pending
    <3> QED BY <2>0, <3>1, <3>2, PutApplicable, CommitExact
  <2>5. CASE Restart
    BY <2>5 DEF Restart, SizesExact
  <2>6. CASE \E k \in Keys : (\E v \in Values : Put(k, v)) \/ Del(k) \/ Get(k)
    BY <2>1, <2>6 DEF Put, Del, Get, LogAt, storeVars
  <2>7. CASE AddSize \/ EnterUp \/ EnterDown \/ NextNode \/ Balanced \/ UpdateMeta
    BY <2>1, <2>7 DEF AddSize, EnterUp, EnterDown, NextNode, Balanced, UpdateMeta, storeVars
  <2>8. CASE LogSource \/ LogPeer
    BY <2>1, <2>8 DEF LogSource, LogPeer, LogAt
  <2>9. CASE UNCHANGED vars
    BY <2>1, <2>9 DEF vars, storeVars
  <2> QED BY <2>2, <2>3, <2>4, <2>5, <2>6, <2>7, <2>8, <2>9 DEF Next, ReBalance
<1> QED BY <1>1, <1>2, Inductive, PTL DEF Spec
=============================================================================
