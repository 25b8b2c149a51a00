------------------------- MODULE ClusterEndsProofs -------------------------
(***************************************************************************)
(* The ends of the control node.  While no store node ends, its requests   *)
(* and writes, one by one, are the steps of Cluster, so that what is       *)
(* proved there holds of the state they pass through; and what it leaves   *)
(* wherever it ends is what Cluster has at that point, but for the writes  *)
(* of the metadata that are not done.                                      *)
(*                                                                         *)
(* Linked ties the two specifications together as long as the control node *)
(* is up.  Once it is gone the store nodes repeat the last request they    *)
(* were sent; Repeatable says that this changes nothing.                   *)
(***************************************************************************)
EXTENDS ClusterFaultsProofs

\* Cluster and what is proved about it, for the state ClusterFaults stands for.
W == INSTANCE ClusterMapProofs WITH
  meta <- MetaAfterEdits, req <- WholeReq, fd <- WholeFd, mig <- WholeMig,
  pc <- WholePc

-----------------------------------------------------------------------------
(* The writes of the metadata.                                             *)

\* One write.
Edited(m, w) ==
  IF w.op = "delete" THEN DbDelete(m, w.entry.min) ELSE DbPut(m, w.entry.min, w.entry)

RealEdits == [op : {"delete", "put"}, entry : MetaEntries]

\* The writes of a sequence but its first one are those of its tail.
LEMMA WrittenTail ==
  ASSUME NEW s \in Seq(RealEdits), s # <<>>, NEW k
  PROVE  /\ \A i \in Written(Tail(s), k) : i + 1 \in Written(s, k)
         /\ \A i \in Written(s, k) : i # 1 => i - 1 \in Written(Tail(s), k)
         /\ 1 \in Written(s, k) <=> Head(s).entry.min = k
         /\ \A i \in Written(Tail(s), k) : Tail(s)[i] = s[i + 1] /\ i \in Nat \ {0}
         /\ \A i \in Written(s, k) : i \in Nat \ {0}
  <1>1. /\ Len(s) \in Nat /\ Len(s) > 0 /\ DOMAIN s = 1 .. Len(s)
        /\ Head(s) = s[1] /\ Len(Tail(s)) = Len(s) - 1
        /\ DOMAIN Tail(s) = 1 .. Len(s) - 1
        /\ \A i \in 1 .. Len(s) - 1 : Tail(s)[i] = s[i + 1]
    BY LenProperties, EmptySeq, HeadTailProperties
  <1> DEFINE t == Tail(s)
             l == Len(s)
  <1>2. /\ l \in Nat /\ l > 0 /\ DOMAIN s = 1 .. l /\ Head(s) = s[1]
        /\ DOMAIN t = 1 .. l - 1 /\ \A i \in 1 .. l - 1 : t[i] = s[i + 1]
    BY <1>1
  <1> HIDE DEF t, l
  <1>3. /\ \A i \in Written(t, k) : i + 1 \in Written(s, k)
        /\ \A i \in Written(s, k) : i # 1 => i - 1 \in Written(t, k)
        /\ 1 \in Written(s, k) <=> Head(s).entry.min = k
        /\ \A i \in Written(t, k) : t[i] = s[i + 1] /\ i \in Nat \ {0}
        /\ \A i \in Written(s, k) : i \in Nat \ {0}
    BY <1>2 DEF Written
  <1> QED
    BY <1>3 DEF t

\* The first write, then the others.
LEMMA AfterFirst ==
  ASSUME NEW s \in Seq(RealEdits), s # <<>>, NEW m, IsDb(m, MetaEntries)
  PROVE  AfterEdits(m, s) = AfterEdits(Edited(m, Head(s)), Tail(s))
  <1> DEFINE t == Tail(s)
             w == Head(s)
             c == Edited(m, w)
  <1>1. w.op \in {"delete", "put"} /\ w.entry \in MetaEntries /\ w = s[1]
    <2>1. s[1] \in RealEdits
      BY LenProperties, EmptySeq, ElementOfSeq
    <2> QED
      BY <2>1 DEF RealEdits
  <1>2. \A k \in Keys : /\ k # w.entry.min => /\ k \in DOMAIN c <=> k \in DOMAIN m
                                              /\ c[k] = m[k] \/ k \notin DOMAIN m
                        /\ k = w.entry.min => /\ k \in DOMAIN c <=> w.op = "put"
                                              /\ w.op = "put" => c[k] = w.entry
    BY <1>1 DEF Edited, DbDelete, DbPut
  <1>3. ASSUME NEW k
        PROVE  /\ \A i \in Written(t, k) : i + 1 \in Written(s, k)
               /\ \A i \in Written(s, k) : i # 1 => i - 1 \in Written(t, k)
               /\ 1 \in Written(s, k) <=> w.entry.min = k
               /\ \A i \in Written(t, k) : t[i] = s[i + 1] /\ i \in Nat \ {0}
               /\ \A i \in Written(s, k) : i \in Nat \ {0}
    BY WrittenTail
  <1> HIDE DEF t, w, c
  <1> DEFINE In(a, q, k) == IF Written(q, k) = {} THEN k \in DOMAIN a ELSE LastPut(q, k) # {}
             At(a, q, k) == IF Written(q, k) = {} THEN a[k]
                            ELSE q[CHOOSE i \in LastPut(q, k) : TRUE].entry
  <1>4. ASSUME NEW k \in Keys
        PROVE  /\ In(m, s, k) <=> In(c, t, k)
               /\ In(m, s, k) => At(m, s, k) = At(c, t, k)
    <2>1. CASE Written(t, k) = {}
      <3>1. CASE k = w.entry.min
        <4>1. Written(s, k) = {1}
          BY <1>3, <2>1, <3>1
        <4>2. LastPut(s, k) = IF w.op = "put" THEN {1} ELSE {}
          BY <1>1, <4>1 DEF LastPut
        <4>3. w.op = "put" => (CHOOSE i \in LastPut(s, k) : TRUE) = 1
          BY <4>2
        <4> QED
          BY <1>1, <1>2, <2>1, <3>1, <4>1, <4>2, <4>3
      <3>2. CASE k # w.entry.min
        <4>1. Written(s, k) = {}
          BY <1>3, <2>1, <3>2
        <4> QED
          BY <1>2, <2>1, <3>2, <4>1
      <3> QED
        BY <3>1, <3>2
    <2>2. CASE Written(t, k) # {}
      <3>1. Written(s, k) # {}
        BY <1>3, <2>2
      <3>2. \A i \in LastPut(t, k) : i + 1 \in LastPut(s, k)
        BY <1>3 DEF LastPut
      <3>3. \A i \in LastPut(s, k) : i - 1 \in LastPut(t, k)
        BY <1>3, <2>2 DEF LastPut
      <3>4. \A i, j \in LastPut(s, k) : i = j
        BY <1>3 DEF LastPut
      <3>5. \A i \in LastPut(t, k) : t[i] = s[i + 1] /\ i \in Nat
        BY <1>3 DEF LastPut
      <3>6. ASSUME LastPut(s, k) # {}
            PROVE  At(m, s, k) = At(c, t, k)
        <4> DEFINE i == CHOOSE x \in LastPut(s, k) : TRUE
                   j == CHOOSE x \in LastPut(t, k) : TRUE
        <4>1. i \in LastPut(s, k) /\ j \in LastPut(t, k)
          BY <3>3, <3>6
        <4>2. At(m, s, k) = s[i].entry /\ At(c, t, k) = t[j].entry
          BY <2>2, <3>1
        <4> HIDE DEF i, j
        <4>3. i = j + 1 /\ t[j] = s[j + 1]
          BY <3>2, <3>4, <3>5, <4>1
        <4> QED
          BY <4>2, <4>3
      <3> QED
        BY <2>2, <3>1, <3>2, <3>3, <3>6
    <2> QED
      BY <2>1, <2>2
  <1>5. AfterEdits(m, s) = [k \in {x \in Keys : In(m, s, x)} |-> At(m, s, k)]
    BY DEF AfterEdits
  <1>6. AfterEdits(c, t) = [k \in {x \in Keys : In(c, t, x)} |-> At(c, t, k)]
    BY DEF AfterEdits
  <1>7. {x \in Keys : In(m, s, x)} = {x \in Keys : In(c, t, x)}
    BY <1>4
  <1> HIDE DEF In, At
  <1>8. AfterEdits(m, s) = AfterEdits(c, t)
    BY <1>4, <1>5, <1>6, <1>7
  <1> QED
    BY <1>8 DEF t, w, c

LEMMA AfterNone ==
  ASSUME NEW m, IsDb(m, MetaEntries)
  PROVE  AfterEdits(m, <<>>) = m
  <1>1. \A k : Written(<<>>, k) = {}
    BY DEF Written
  <1> QED
    BY <1>1 DEF AfterEdits, IsDb

\* What a rekeying makes of the metadata.
LEMMA AfterRekey ==
  ASSUME NEW m, IsDb(m, MetaEntries), NEW a \in MetaEntries, NEW b \in MetaEntries
  PROVE  /\ AfterEdits(m, RekeyEdits(a, b)) = Rekey(m, a.min, b)
         /\ \A c, d \in MetaEntries :
              AfterEdits(m, RekeyEdits(a, b) \o RekeyEdits(c, d))
                = Rekey(Rekey(m, a.min, b), c.min, d)
  <1>1. ASSUME NEW f, IsDb(f, MetaEntries), NEW x \in MetaEntries, NEW s \in Seq(RealEdits),
               s # <<>>, Head(s) = DeleteEdit(x)
        PROVE  /\ AfterEdits(f, s) = AfterEdits(DbDelete(f, x.min), Tail(s))
               /\ IsDb(DbDelete(f, x.min), MetaEntries)
    <2>1. Edited(f, DeleteEdit(x)) = DbDelete(f, x.min)
      BY DEF Edited, DeleteEdit
    <2>2. IsDb(DbDelete(f, x.min), MetaEntries)
      BY <1>1 DEF DbDelete, IsDb
    <2> QED
      BY <1>1, <2>1, <2>2, AfterFirst
  <1>2. ASSUME NEW f, IsDb(f, MetaEntries), NEW x \in MetaEntries, NEW s \in Seq(RealEdits),
               s # <<>>, Head(s) = PutEdit(x)
        PROVE  /\ AfterEdits(f, s) = AfterEdits(DbPut(f, x.min, x), Tail(s))
               /\ IsDb(DbPut(f, x.min, x), MetaEntries)
    <2>1. Edited(f, PutEdit(x)) = DbPut(f, x.min, x)
      BY DEF Edited, PutEdit
    <2>2. IsDb(DbPut(f, x.min, x), MetaEntries)
      <3>1. x.min \in Keys
        BY DEF MetaEntries
      <3> QED
        BY <1>2, <3>1 DEF DbPut, IsDb
    <2> QED
      BY <1>2, <2>1, <2>2, AfterFirst
  <1>3. \A x \in MetaEntries : DeleteEdit(x) \in RealEdits /\ PutEdit(x) \in RealEdits
    BY DEF DeleteEdit, PutEdit, RealEdits
  <1>5. ASSUME NEW x \in RealEdits, NEW y \in RealEdits
        PROVE  /\ <<x, y>> \in Seq(RealEdits) /\ <<x, y>> # <<>> /\ Head(<<x, y>>) = x
               /\ Tail(<<x, y>>) = <<y>> /\ <<y>> \in Seq(RealEdits) /\ <<y>> # <<>>
               /\ Head(<<y>>) = y /\ Tail(<<y>>) = <<>>
    OBVIOUS
  <1>6. ASSUME NEW x \in RealEdits, NEW y \in RealEdits, NEW z \in RealEdits, NEW v \in RealEdits
        PROVE  /\ <<x, y>> \o <<z, v>> = <<x, y, z, v>>
               /\ <<x, y, z, v>> \in Seq(RealEdits) /\ <<x, y, z, v>> # <<>>
               /\ Head(<<x, y, z, v>>) = x /\ Tail(<<x, y, z, v>>) = <<y, z, v>>
               /\ <<y, z, v>> \in Seq(RealEdits) /\ <<y, z, v>> # <<>>
               /\ Head(<<y, z, v>>) = y /\ Tail(<<y, z, v>>) = <<z, v>>
    <2>1. <<x, y>> \o <<z, v>> = <<x, y, z, v>>
      <3> DEFINE p == <<x, y>>
                 q == <<z, v>>
                 o == <<x, y, z, v>>
      <3>1. /\ p \in Seq(RealEdits) /\ Len(p) = 2 /\ p[1] = x /\ p[2] = y
            /\ q \in Seq(RealEdits) /\ Len(q) = 2 /\ q[1] = z /\ q[2] = v
            /\ o \in Seq(RealEdits) /\ Len(o) = 4
            /\ o[1] = x /\ o[2] = y /\ o[3] = z /\ o[4] = v
        OBVIOUS
      <3> HIDE DEF p, q, o
      <3>2. /\ p \o q \in Seq(RealEdits)
            /\ Len(p \o q) = Len(p) + Len(q)
            /\ \A i \in 1 .. Len(p) + Len(q) :
                 (p \o q)[i] = IF i <= Len(p) THEN p[i] ELSE q[i - Len(p)]
        BY <3>1, ConcatProperties, Zenon
      <3>3. Len(p \o q) = Len(o) /\ \A i \in 1 .. Len(p \o q) : (p \o q)[i] = o[i]
        BY <3>1, <3>2
      <3>4. p \o q = o
        BY <3>1, <3>2, <3>3, SeqEqual, Zenon
      <3> QED
        BY <3>4 DEF p, q, o
    <2>2. /\ <<x, y, z, v>> \in Seq(RealEdits) /\ <<x, y, z, v>> # <<>>
          /\ <<y, z, v>> \in Seq(RealEdits) /\ <<y, z, v>> # <<>>
      OBVIOUS
    <2>3. Head(<<x, y, z, v>>) = x /\ Head(<<y, z, v>>) = y
      OBVIOUS
    <2>4. Tail(<<x, y, z, v>>) = <<y, z, v>> /\ Tail(<<y, z, v>>) = <<z, v>>
      OBVIOUS
    <2> QED
      BY <2>1, <2>2, <2>3, <2>4
  <1>7. ASSUME NEW f, IsDb(f, MetaEntries), NEW x \in MetaEntries, NEW y \in MetaEntries
        PROVE  AfterEdits(f, RekeyEdits(x, y)) = Rekey(f, x.min, y)
    <2> DEFINE s == <<DeleteEdit(x), PutEdit(y)>>
               u == <<PutEdit(y)>>
               g == DbDelete(f, x.min)
    <2>1. /\ s \in Seq(RealEdits) /\ s # <<>> /\ Head(s) = DeleteEdit(x) /\ Tail(s) = u
          /\ u \in Seq(RealEdits) /\ u # <<>> /\ Head(u) = PutEdit(y) /\ Tail(u) = <<>>
      <3> DEFINE v == DeleteEdit(x)
                 w == PutEdit(y)
      <3>1. v \in RealEdits /\ w \in RealEdits
        BY <1>3
      <3> HIDE DEF v, w
      <3>2. /\ <<v, w>> \in Seq(RealEdits) /\ <<v, w>> # <<>> /\ Head(<<v, w>>) = v
            /\ Tail(<<v, w>>) = <<w>> /\ <<w>> \in Seq(RealEdits) /\ <<w>> # <<>>
            /\ Head(<<w>>) = w /\ Tail(<<w>>) = <<>>
        BY <1>5, <3>1
      <3> QED
        BY <3>2 DEF v, w
    <2> HIDE DEF s, u
    <2>2. AfterEdits(f, s) = AfterEdits(g, u) /\ IsDb(g, MetaEntries)
      BY <1>1, <1>7, <2>1
    <2> HIDE DEF g
    <2> DEFINE h == DbPut(g, y.min, y)
    <2>3. AfterEdits(g, u) = AfterEdits(h, <<>>) /\ IsDb(h, MetaEntries)
      <3>1. AfterEdits(g, u) = AfterEdits(h, Tail(u)) /\ IsDb(h, MetaEntries)
        BY <1>2, <2>1, <2>2, Zenon
      <3> QED
        BY <2>1, <3>1
    <2> HIDE DEF h
    <2>4. AfterEdits(f, s) = h
      BY <2>2, <2>3, AfterNone
    <2> QED
      BY <2>4 DEF s, g, h, RekeyEdits, Rekey
  <1>8. ASSUME NEW c \in MetaEntries, NEW d \in MetaEntries
        PROVE  AfterEdits(m, RekeyEdits(a, b) \o RekeyEdits(c, d))
                 = Rekey(Rekey(m, a.min, b), c.min, d)
    <2> DEFINE r == <<DeleteEdit(c), PutEdit(d)>>
               u == <<PutEdit(b), DeleteEdit(c), PutEdit(d)>>
               s == <<DeleteEdit(a), PutEdit(b), DeleteEdit(c), PutEdit(d)>>
               g == DbDelete(m, a.min)
    <2>1. /\ s \in Seq(RealEdits) /\ s # <<>> /\ Head(s) = DeleteEdit(a) /\ Tail(s) = u
          /\ u \in Seq(RealEdits) /\ u # <<>> /\ Head(u) = PutEdit(b) /\ Tail(u) = r
          /\ r \in Seq(RealEdits)
          /\ RekeyEdits(a, b) \o RekeyEdits(c, d) = s /\ RekeyEdits(c, d) = r
      <3> DEFINE x == DeleteEdit(a)
                 y == PutEdit(b)
                 z == DeleteEdit(c)
                 v == PutEdit(d)
      <3>1. x \in RealEdits /\ y \in RealEdits /\ z \in RealEdits /\ v \in RealEdits
        BY <1>3
      <3> HIDE DEF x, y, z, v
      <3>2. /\ <<x, y>> \o <<z, v>> = <<x, y, z, v>>
            /\ <<x, y, z, v>> \in Seq(RealEdits) /\ <<x, y, z, v>> # <<>>
            /\ Head(<<x, y, z, v>>) = x /\ Tail(<<x, y, z, v>>) = <<y, z, v>>
            /\ <<y, z, v>> \in Seq(RealEdits) /\ <<y, z, v>> # <<>>
            /\ Head(<<y, z, v>>) = y /\ Tail(<<y, z, v>>) = <<z, v>>
            /\ <<z, v>> \in Seq(RealEdits)
        BY <1>5, <1>6, <3>1
      <3> QED
        BY <3>2 DEF x, y, z, v, RekeyEdits
    <2> HIDE DEF s, u, r
    <2>2. AfterEdits(m, s) = AfterEdits(g, u) /\ IsDb(g, MetaEntries)
      BY <1>1, <2>1
    <2> HIDE DEF g
    <2> DEFINE h == DbPut(g, b.min, b)
    <2>3. AfterEdits(g, u) = AfterEdits(h, r) /\ IsDb(h, MetaEntries)
      <3>1. AfterEdits(g, u) = AfterEdits(h, Tail(u)) /\ IsDb(h, MetaEntries)
        BY <1>2, <2>1, <2>2, Zenon
      <3> QED
        BY <2>1, <3>1
    <2> HIDE DEF h
    <2>4. AfterEdits(h, r) = Rekey(h, c.min, d)
      BY <1>7, <2>1, <2>3
    <2> QED
      BY <2>1, <2>2, <2>3, <2>4 DEF g, h, Rekey
  <1> QED
    BY <1>7, <1>8

-----------------------------------------------------------------------------
(* The operators of the instance are those of this module.                 *)

LEMMA InstanceAssumptions ==
  /\ Idle \notin W!Entries
  /\ InitKey \in [W!Nodes -> W!Keys]
  /\ \A i, j \in W!Nodes : i < j => InitKey[i] < InitKey[j]
  /\ N \in Nat \ {0}
  /\ ValLen \in [Values \cup {W!EmptyStr} -> Nat]
  /\ \A v \in Values \cup {W!EmptyStr} : ValLen[v] = 0 <=> v = W!EmptyStr
  /\ KeyLen \in [W!Keys -> Nat \ {0}]
  /\ Values \subseteq Nat
  /\ MaxKey \in Nat \ {0}
  <1>1. /\ W!Entries = Entries /\ W!Nodes = Nodes /\ W!Keys = Keys /\ W!EmptyStr = EmptyStr
    BY DEF W!Entries, Entries, W!Nodes, Nodes, W!Keys, Keys, W!EmptyStr, EmptyStr, W!PUT, PUT,
           W!DELETE, DELETE
  <1> QED
    BY <1>1, IdleAssumption, InitKeyAssumption, NAssumption, ValLenAssumption,
       KeyLenAssumption, ValuesAssumption, MaxKeyAssumption

\* What is proved about Cluster.
LEMMA ClusterStarts == W!Init => W!MInv
  BY InstanceAssumptions, W!InitStep, W!InitMap DEF W!MInv

LEMMA ClusterSteps ==
  ASSUME W!MInv, [W!Next]_(W!vars)
  PROVE  W!MInv'
  <1>1. W!IInv'
    BY InstanceAssumptions, W!NextStep DEF W!MInv
  <1>2. W!Owned' /\ W!Fresh'
    BY InstanceAssumptions, W!MapStep
  <1> QED
    BY <1>1, <1>2 DEF W!MInv

LEMMA SameDb ==
  /\ W!EmptyStr = EmptyStr /\ W!Keys = Keys /\ W!Nodes = Nodes
  /\ W!PUT = PUT /\ W!DELETE = DELETE
  /\ \A k, v : W!PutEntry(k, v) = PutEntry(k, v)
  /\ \A k : W!DeleteEntry(k) = DeleteEntry(k)
  /\ \A m, k, v : W!DbPut(m, k, v) = DbPut(m, k, v)
  /\ \A m, k : W!DbDelete(m, k) = DbDelete(m, k) /\ W!DbGet(m, k) = DbGet(m, k)
  /\ \A m : W!SeekToFirst(m) = SeekToFirst(m) /\ W!SeekToLast(m) = SeekToLast(m)
  /\ \A m, k : W!After(m, k) = After(m, k) /\ W!Before(m, k) = Before(m, k)
  /\ \A m, k : W!SmallerOrEqual(m, k) = SmallerOrEqual(m, k)
  /\ \A m : W!StoreLessOrEqualOne(m) <=> StoreLessOrEqualOne(m)
  BY DEF W!EmptyStr, EmptyStr, W!Keys, Keys, W!Nodes, Nodes, W!PUT, PUT, W!DELETE, DELETE,
         W!PutEntry, PutEntry, W!DeleteEntry, DeleteEntry, W!DbPut, DbPut, W!DbDelete, DbDelete,
         W!DbGet, DbGet, W!SeekToFirst, SeekToFirst, W!SeekToLast, SeekToLast, W!After, After,
         W!Before, Before, W!SmallerOrEqual, SmallerOrEqual, W!StoreLessOrEqualOne,
         StoreLessOrEqualOne, W!Min, Min, W!Max, Max

LEMMA SameMeta ==
  /\ W!NoBounds = NoBounds /\ W!NoMigration = NoMigration
  /\ \A m, a, e : W!Rekey(m, a, e) = Rekey(m, a, e)
  /\ \A e, lo, hi : W!WithRange(e, lo, hi) = WithRange(e, lo, hi)
  /\ \A e, b : W!Rebound(e, b) = Rebound(e, b)
  /\ \A x, y : /\ W!Lesser(x, y) = Lesser(x, y) /\ W!Greater(x, y) = Greater(x, y)
               /\ W!KeptMin(x, y) = KeptMin(x, y)
  /\ W!Peer = Peer /\ W!InLoop = InLoop
  BY DEF W!NoBounds, NoBounds, W!NoMigration, NoMigration, W!Rekey, Rekey, W!DbPut, DbPut,
         W!DbDelete, DbDelete, W!WithRange, WithRange, W!Rebound, Rebound, W!Lesser, Lesser,
         W!Greater, Greater, W!KeptMin, KeptMin, W!Peer, Peer, W!InLoop, InLoop, W!EmptyStr,
         EmptyStr

LEMMA SameStores ==
  /\ \A db, e : W!LogReply(db, e) = LogReply(db, e)
  /\ \A n \in Nodes : W!NotTooMuch(n) <=> NotTooMuch(n)
  /\ \A n, e : W!LogAt(n, e) <=> LogAt(n, e)
  /\ \A n : W!CommitAt(n) <=> CommitAt(n)
  <1>1. \A db, e : W!LogReply(db, e) = LogReply(db, e)
    BY Zenon DEF W!LogReply, LogReply, W!SeekToFirst, SeekToFirst, W!SeekToLast, SeekToLast,
       W!After, After, W!Before, Before, W!Lesser, Lesser, W!Greater, Greater, W!PUT, PUT,
       W!EmptyStr, EmptyStr, W!Min, Min, W!Max, Max
  <1>2. \A n \in Nodes : W!NotTooMuch(n) <=> NotTooMuch(n)
    BY DEF W!NotTooMuch, NotTooMuch, W!StoreLessOrEqualOne, StoreLessOrEqualOne
  <1>3. \A n, e : W!LogAt(n, e) <=> LogAt(n, e)
    BY DEF W!LogAt, LogAt
  <1>4. \A lg : W!GetLog(lg) = GetLog(lg)
    <2>1. \A a, b : W!EntryLess(a, b) = EntryLess(a, b)
      BY Zenon DEF W!EntryLess, EntryLess, W!StoredLen, StoredLen
    <2> QED
      BY <2>1, Zenon DEF W!GetLog, GetLog
  <1>5. \A db, e : W!DataAfter(db, e) = DataAfter(db, e)
    BY DEF W!DataAfter, DataAfter, W!DbPut, DbPut, W!DbDelete, DbDelete, W!PUT, PUT
  <1>6. \A db, sz, e : W!SizeAfter(db, sz, e) = SizeAfter(db, sz, e)
    BY DEF W!SizeAfter, SizeAfter, W!SizeWithout, SizeWithout, W!DbGet, DbGet, W!Weight, Weight,
           W!PUT, PUT, W!EmptyStr, EmptyStr
  <1>7. /\ \A db, lg : W!CommitData(db, lg) = CommitData(db, lg)
        /\ \A db, sz, lg : W!CommitSize(db, sz, lg) = CommitSize(db, sz, lg)
        /\ \A lg : W!ClearLog(lg) = ClearLog(lg)
    BY <1>4, <1>5, <1>6 DEF W!CommitData, CommitData, W!CommitSize, CommitSize, W!ClearLog, ClearLog
  <1>8. \A n : W!CommitAt(n) <=> CommitAt(n)
    BY <1>7 DEF W!CommitAt, CommitAt
  <1> QED
    BY <1>1, <1>2, <1>3, <1>8

-----------------------------------------------------------------------------
(* While no store node ends.                                               *)

\* The key MAX_KEY or MIN_KEY is answered with.
Outermost == IF phase = "up" THEN SeekToLast(data[node]) ELSE SeekToFirst(data[node])

\* What holds of the control node as long as it is up, every request being
\* answered: the writes of the metadata are done where Cluster has them done, no
\* LOG has failed, and the key picked is the one Cluster picks a step later.
Linked ==
  /\ \A n \in Nodes : conn[n] = "open" /\ reset[n] = "no"
  /\ ok = TRUE /\ pc \notin {"undoSource", "undoPeer", "down"}
  /\ IF pc = "edit" THEN edits \in Seq(RealEdits) /\ edits # <<>> ELSE edits = <<>>
  /\ \/ pc \in {"idle", "sum", "loop", "spare", "pick", "show", "commit", "tell", "enter"}
     \/ pc = "edit" /\ req # Idle
     => mig = NoMigration
  /\ pc = "spare" => ~(size[node] * 100 * N <= (100 + N) * total)
  /\ pc \in {"pick", "logSource"} => ~NotTooMuch(node)
  /\ pc = "logSource" => mig = [key |-> Outermost, val |-> DbGet(data[node], Outermost),
                                src |-> NoBounds, dst |-> NoBounds]

\* No store node may end by itself.
StoresStay == faults \in Nat /\ (MaxFaults = 0 \/ ~StoresEnd)

UInv == FInv /\ StoresStay /\ Linked /\ W!MInv

LEMMA AllAnswered ==
  ASSUME StoresStay, Linked, NEW n \in Nodes, NEW r, NEW a, Exchange(n, r, a)
  PROVE  /\ Serve(n, r) /\ buf' = a
         /\ \A x \in Nodes : conn'[x] = "open" /\ reset'[x] = "no"
         /\ UNCHANGED <<conn, reset, faults>>
  <1>1. Answered(n, r, a)
    BY BoundsAssumption DEF Exchange, DiesServing, Unanswered, Linked, StoresStay
  <1> QED
    BY <1>1 DEF Answered, Linked

\* A LOG, a COMMIT_LOG and a request that reads, with their answers.
LEMMA LogAnswered ==
  ASSUME StoresStay, Linked, NEW n \in Nodes, NEW e, Log(n, e)
  PROVE  /\ LogAt(n, e) /\ buf' = LogAnswer(LogReply(data[n], e))
         /\ IsOk(buf') = {TRUE} /\ NextBounds(buf') = {LogReply(data[n], e)}
         /\ \A x \in Nodes : conn'[x] = "open" /\ reset'[x] = "no"
  <1> DEFINE r == Request("log", e)
             a == LogAnswer(LogReply(data[n], e))
             b == LogReply(data[n], e)
  <1>1. Serve(n, r) /\ buf' = a /\ \A x \in Nodes : conn'[x] = "open" /\ reset'[x] = "no"
    BY AllAnswered DEF Log
  <1>2. LogAt(n, e)
    BY <1>1 DEF Serve, Request, LogAt
  <1> HIDE DEF b
  <1>3. a = LogAnswer(b)
    BY DEF b
  <1> HIDE DEF a
  <1>4. a.whole /\ a.text = "ok" /\ a.rest = {b}
    BY <1>3 DEF LogAnswer, OkAnswer
  <1>5. IsOk(a) = {TRUE} /\ NextBounds(a) = {b}
    BY <1>4 DEF IsOk, NextBounds
  <1> QED
    BY <1>1, <1>2, <1>5 DEF a, b

LEMMA CommitAnswered ==
  ASSUME StoresStay, Linked, NEW n \in Nodes, CommitLog(n)
  PROVE  /\ CommitAt(n) /\ IsOk(buf') = {TRUE}
         /\ \A x \in Nodes : conn'[x] = "open" /\ reset'[x] = "no"
  <1>1. /\ Serve(n, Request("CLG", NoEntry)) /\ buf' = OkAnswer
        /\ \A x \in Nodes : conn'[x] = "open" /\ reset'[x] = "no"
    BY AllAnswered DEF CommitLog
  <1>2. CommitAt(n)
    BY <1>1 DEF Serve, Request, CommitAt
  <1>3. IsOk(OkAnswer) = {TRUE}
    BY DEF IsOk, OkAnswer
  <1> QED
    BY <1>1, <1>2, <1>3

LEMMA AskAnswered ==
  ASSUME StoresStay, Linked, NEW n \in Nodes, NEW a, Ask(n, a)
  PROVE  /\ UNCHANGED <<data, size, log>> /\ buf' = a
         /\ \A x \in Nodes : conn'[x] = "open" /\ reset'[x] = "no"
  <1>1. /\ Serve(n, Request(READ, NoEntry)) /\ buf' = a
        /\ \A x \in Nodes : conn'[x] = "open" /\ reset'[x] = "no"
    BY AllAnswered DEF Ask
  <1>2. UNCHANGED <<data, size, log>>
    BY <1>1 DEF Serve, Request, READ
  <1> QED
    BY <1>1, <1>2

\* With no write pending, the metadata is what Cluster has.
LEMMA NoneLeft ==
  ASSUME FInv, Linked, pc # "edit"
  PROVE  MetaAfterEdits = meta /\ IsDb(meta, MetaEntries)
  <1>1. IsDb(meta, MetaEntries) /\ edits = <<>>
    BY DEF FInv, Control, Linked
  <1> QED
    BY <1>1, AfterNone DEF MetaAfterEdits

LEMMA StaysSame ==
  ASSUME UNCHANGED <<data, size, log, out, phase, node, total>>,
         MetaAfterEdits' = MetaAfterEdits, WholePc' = WholePc, WholeReq' = WholeReq,
         WholeFd' = WholeFd, WholeMig' = WholeMig
  PROVE  UNCHANGED W!vars
  BY DEF W!vars, W!storeVars, W!ctlVars, W!loopVars

-----------------------------------------------------------------------------
(* The steps Cluster does not see.                                         *)

LEMMA EditMetaLinks ==
  ASSUME UInv, EditMeta
  PROVE  Linked' /\ UNCHANGED W!vars
  <1> DEFINE s == edits
             t == Tail(s)
  <1>1. /\ pc = "edit" /\ s \in Seq(RealEdits) /\ s # <<>> /\ IsDb(meta, MetaEntries)
        /\ ok = TRUE
        /\ \A n \in Nodes : conn[n] = "open" /\ reset[n] = "no"
        /\ req # Idle => mig = NoMigration
    BY DEF UInv, FInv, Control, Linked, EditMeta
  <1>2. t \in Seq(RealEdits) /\ Head(s) \in RealEdits
    BY <1>1, HeadTailProperties
  <1>3. /\ meta' = IF Head(s).op = "delete" THEN DbDelete(meta, Head(s).entry.min)
                   ELSE DbPut(meta, Head(s).entry.min, Head(s).entry)
        /\ edits' = t
        /\ pc' = IF t # <<>> THEN "edit" ELSE IF Constructing THEN "idle"
                 ELSE IF req # Idle THEN "commit" ELSE "commitSource"
        /\ UNCHANGED <<data, size, log, req, fd, out, phase, node, total, mig, conn, reset, ok>>
    BY DEF EditMeta, storeVars, ctlVars, loopVars, storeLife
  <1>4. MetaAfterEdits' = MetaAfterEdits
    <2>1. meta' = Edited(meta, Head(s))
      BY <1>3 DEF Edited
    <2>2. AfterEdits(meta, s) = AfterEdits(Edited(meta, Head(s)), t)
      BY <1>1, AfterFirst
    <2> QED
      BY <1>3, <2>1, <2>2 DEF MetaAfterEdits
  <1> HIDE DEF s, t
  <1>5. Constructing' <=> Constructing
    BY <1>3 DEF Constructing
  <1>6. WholePc' = WholePc /\ WholeReq' = WholeReq /\ WholeFd' = WholeFd /\ WholeMig' = WholeMig
    BY <1>1, <1>3, <1>5 DEF WholePc, WholeReq, WholeFd, WholeMig
  <1>7. Linked'
    BY <1>1, <1>2, <1>3 DEF Linked, Constructing
  <1> QED
    BY <1>3, <1>4, <1>6, <1>7, StaysSame

LEMMA TellLinks ==
  ASSUME UInv, Tell \/ EnterReBalance
  PROVE  Linked' /\ UNCHANGED W!vars
  <1>1. \/ pc = "tell" /\ pc' = "enter" /\ UNCHANGED <<req, fd>>
        \/ pc = "enter" /\ pc' = "sum" /\ req' = Idle /\ fd' = 0
    BY DEF Tell, EnterReBalance, ctlVars
  <1>2. UNCHANGED <<meta, data, size, log, out, phase, node, total, mig, conn, reset, ok, edits>>
    BY DEF Tell, EnterReBalance, ctlVars, loopVars, storeVars, netVars, storeLife, localVars
  <1>3. Linked'
    BY <1>1, <1>2 DEF UInv, Linked
  <1>4. MetaAfterEdits' = MetaAfterEdits
    BY <1>2 DEF MetaAfterEdits
  <1>5. WholePc' = WholePc /\ WholeReq' = WholeReq /\ WholeFd' = WholeFd /\ WholeMig' = WholeMig
    BY <1>1, <1>2 DEF WholePc, WholeReq, WholeFd, WholeMig
  <1> QED
    BY <1>2, <1>3, <1>4, <1>5, StaysSame

LEMMA PickKeyLinks ==
  ASSUME UInv, PickKey
  PROVE  Linked' /\ UNCHANGED W!vars
  <1> DEFINE r == Request(READ, NoEntry)
             k == Outermost
             a == TextAnswer(KeyLen[k] + 1, k \in OkKeys)
  <1>1. /\ pc = "pick" /\ pc' = "logSource"
        /\ UNCHANGED <<meta, req, fd, out, phase, node, total, ok, edits>>
    BY DEF PickKey, ctlVars, loopVars, localVars
  <1>2. /\ node \in Nodes /\ Stores /\ StoresStay /\ Linked /\ ~NotTooMuch(node)
    BY <1>1, Addressed DEF UInv, FInv, Linked
  <1>3. Answered(node, r, a) /\ mig' = [NoMigration EXCEPT !.key = k, !.val = data[node][k]]
    <2>1. ~DiesServing(node, r) /\ ~Unanswered(node)
      BY <1>2, BoundsAssumption DEF DiesServing, Unanswered, Linked, StoresStay
    <2> QED
      BY <2>1 DEF PickKey, Outermost
  <1>4. Ask(node, a)
    BY <1>3 DEF Ask, Exchange
  <1> HIDE DEF a, r
  <1>5. UNCHANGED <<data, size, log>> /\ \A x \in Nodes : conn'[x] = "open" /\ reset'[x] = "no"
    BY <1>2, <1>4, AskAnswered
  <1>6. k \in DOMAIN data[node]
    <2> DEFINE d == data[node]
    <2>1. IsDb(d, Values) /\ ~StoreLessOrEqualOne(d)
      BY <1>2 DEF Stores, NotTooMuch
    <2>2. k = IF phase = "up" THEN SeekToLast(d) ELSE SeekToFirst(d)
      BY DEF Outermost
    <2> HIDE DEF d
    <2>3. DOMAIN d # {} /\ DOMAIN d \subseteq Keys
      BY <2>1 DEF IsDb, StoreLessOrEqualOne
    <2>4. k \in DOMAIN d
      BY <2>2, <2>3, SeekToFirstFacts, SeekToLastFacts
    <2> QED
      BY <2>4 DEF d
  <1>7. Outermost' = Outermost
    BY <1>1, <1>5 DEF Outermost
  <1> HIDE DEF k
  <1>8. mig' = [key |-> k, val |-> DbGet(data[node], k), src |-> NoBounds, dst |-> NoBounds]
    BY <1>3, <1>6 DEF NoMigration, DbGet
  <1>9. Linked'
    <2>1. ~NotTooMuch(node)'
      BY <1>1, <1>2, <1>5 DEF NotTooMuch
    <2>2. mig' = [key |-> Outermost', val |-> DbGet(data'[node'], Outermost'),
                  src |-> NoBounds, dst |-> NoBounds]
      BY <1>1, <1>5, <1>7, <1>8 DEF k
    <2> QED
      BY <1>1, <1>2, <1>5, <2>1, <2>2 DEF Linked
  <1>10. MetaAfterEdits' = MetaAfterEdits
    BY <1>1 DEF MetaAfterEdits
  <1>11. WholePc' = WholePc /\ WholeReq' = WholeReq /\ WholeFd' = WholeFd /\ WholeMig' = WholeMig
    BY <1>1 DEF WholePc, WholeReq, WholeFd, WholeMig
  <1> QED
    BY <1>1, <1>5, <1>9, <1>10, <1>11, StaysSame

LEMMA ShowLinks ==
  ASSUME UInv, Show
  PROVE  Linked' /\ UNCHANGED W!vars
  <1> DEFINE n == meta[cursor].fd
             a == IntAnswer(size[n])
  <1>1. /\ pc = "show" /\ pc' \in {"idle", "show"} /\ Ask(n, a)
        /\ UNCHANGED <<meta, req, fd, out, phase, node, total, mig, ok, edits>>
    BY DEF Show, ctlVars, loopVars
  <1>2. n \in Nodes /\ StoresStay /\ Linked
    BY <1>1, Addressed DEF UInv
  <1> HIDE DEF n, a
  <1>3. UNCHANGED <<data, size, log>> /\ \A x \in Nodes : conn'[x] = "open" /\ reset'[x] = "no"
    BY <1>1, <1>2, AskAnswered
  <1>4. Linked'
    BY <1>1, <1>2, <1>3 DEF Linked
  <1>5. MetaAfterEdits' = MetaAfterEdits
    BY <1>1 DEF MetaAfterEdits
  <1>6. WholePc' = WholePc /\ WholeReq' = WholeReq /\ WholeFd' = WholeFd /\ WholeMig' = WholeMig
    BY <1>1 DEF WholePc, WholeReq, WholeFd, WholeMig
  <1> QED
    BY <1>1, <1>3, <1>4, <1>5, <1>6, StaysSame

-----------------------------------------------------------------------------
(* The steps of Cluster.                                                   *)

LEMMA CheckLinks ==
  ASSUME UInv, CheckShare \/ CheckSpare
  PROVE  Linked' /\ [W!Next]_(W!vars)
  <1> DEFINE i == IF pc = "loop" THEN size[node]
                  ELSE IF StoreLessOrEqualOne(data[node]) THEN 1 ELSE 0
             a == IntAnswer(i)
  <1>1. /\ pc \in {"loop", "spare"} /\ Ask(node, a) /\ (pc = "loop" => InLoop)
        /\ UNCHANGED <<meta, req, fd, out, phase, total, mig, ok, edits>>
    BY DEF CheckShare, CheckSpare, ctlVars, localVars
  <1>2. node \in Nodes /\ StoresStay /\ Linked /\ InLoop /\ mig = NoMigration /\ Wires
    BY <1>1, Addressed DEF UInv, FInv, Place, Linked
  <1>3. a.head = i
    BY <1>2 DEF IntAnswer, Wires, Buffers
  <1>4. /\ UNCHANGED <<data, size, log>> /\ buf'.head = i
        /\ \A x \in Nodes : conn'[x] = "open" /\ reset'[x] = "no"
    <2> HIDE DEF a
    <2> QED
      BY <1>1, <1>2, <1>3, AskAnswered
  <1>5. \/ node' = Peer /\ pc' = "loop" /\ NotTooMuch(node)
        \/ /\ pc = "loop" /\ pc' = "spare" /\ node' = node
           /\ ~(size[node] * 100 * N <= (100 + N) * total)
        \/ /\ pc = "spare" /\ pc' = "pick" /\ node' = node /\ ~NotTooMuch(node)
    <2>1. CASE CheckShare
      BY <1>4, <2>1 DEF CheckShare, NotTooMuch
    <2>2. CASE CheckSpare
      BY <1>2, <1>4, <2>2 DEF CheckSpare, NotTooMuch, Linked
    <2> QED
      BY <2>1, <2>2
  <1>6. MetaAfterEdits' = MetaAfterEdits
    BY <1>1 DEF MetaAfterEdits
  <1>7. /\ WholePc' = WholePc /\ WholePc = "loop"
        /\ WholeReq' = WholeReq /\ WholeFd' = WholeFd /\ WholeMig' = WholeMig
    BY <1>1, <1>2, <1>5 DEF WholePc, WholeReq, WholeFd, WholeMig
  <1>8. CASE node' = Peer /\ pc' = "loop" /\ NotTooMuch(node)
    <2>1. W!InLoop /\ W!Peer = Peer /\ W!NotTooMuch(node)
      BY <1>2, <1>8, SameMeta, SameStores
    <2>2. W!NextNode
      BY <1>1, <1>4, <1>6, <1>7, <1>8, <2>1 DEF W!NextNode, W!storeVars, W!ctlVars
    <2>3. Linked'
      BY <1>1, <1>2, <1>4, <1>8 DEF Linked
    <2> QED
      BY <2>2, <2>3 DEF W!Next, W!ReBalance
  <1>9. CASE /\ pc = "loop" /\ pc' = "spare" /\ node' = node
             /\ ~(size[node] * 100 * N <= (100 + N) * total)
    <2>1. Linked'
      BY <1>1, <1>2, <1>4, <1>9 DEF Linked
    <2> QED
      BY <1>1, <1>4, <1>6, <1>7, <1>9, <2>1, StaysSame
  <1>10. CASE pc = "spare" /\ pc' = "pick" /\ node' = node /\ ~NotTooMuch(node)
    <2>1. ~NotTooMuch(node)'
      BY <1>1, <1>4, <1>10 DEF NotTooMuch
    <2>2. Linked'
      BY <1>1, <1>2, <1>4, <1>10, <2>1 DEF Linked
    <2> QED
      BY <1>1, <1>4, <1>6, <1>7, <1>10, <2>2, StaysSame
  <1> QED
    BY <1>5, <1>8, <1>9, <1>10

LEMMA EnterLoopLinks ==
  ASSUME UInv, (EnterUp \/ EnterDown) /\ UNCHANGED faultVars
  PROVE  Linked' /\ [W!Next]_(W!vars)
  <1>1. /\ pc \in {"sum", "loop"} /\ pc' = "loop"
        /\ UNCHANGED <<meta, data, size, log, req, fd, out, mig, total, conn, reset, ok, edits>>
    BY DEF EnterUp, EnterDown, storeVars, ctlVars, faultVars, netVars, storeLife, localVars
  <1>2. MetaAfterEdits' = MetaAfterEdits
    BY <1>1 DEF MetaAfterEdits
  <1>3. /\ WholePc = pc /\ WholePc' = "loop"
        /\ WholeReq' = WholeReq /\ WholeFd' = WholeFd /\ WholeMig' = WholeMig
    BY <1>1 DEF WholePc, WholeReq, WholeFd, WholeMig
  <1>4. W!EnterUp \/ W!EnterDown
    BY <1>1, <1>2, <1>3, SameMeta DEF EnterUp, EnterDown, W!EnterUp, W!EnterDown, W!storeVars,
       W!ctlVars
  <1>5. Linked'
    BY <1>1 DEF UInv, Linked
  <1> QED
    BY <1>4, <1>5 DEF W!Next, W!ReBalance

LEMMA AskSizeLinks ==
  ASSUME UInv, AskSize
  PROVE  Linked' /\ [W!Next]_(W!vars)
  <1> DEFINE a == IntAnswer(size[node])
  <1>1. /\ pc = "sum" /\ pc' = "sum" /\ node < N /\ Ask(node, a)
        /\ total' = total + buf'.head /\ node' = node + 1
        /\ UNCHANGED <<meta, req, fd, out, phase, mig, ok, edits>>
    BY DEF AskSize, ctlVars, localVars
  <1>2. node \in Nodes /\ StoresStay /\ Linked /\ Wires
    BY <1>1, Addressed DEF UInv, FInv
  <1>3. a.head = size[node]
    BY <1>2 DEF IntAnswer, Wires, Buffers
  <1>4. /\ UNCHANGED <<data, size, log>> /\ buf'.head = size[node]
        /\ \A x \in Nodes : conn'[x] = "open" /\ reset'[x] = "no"
    <2> HIDE DEF a
    <2> QED
      BY <1>1, <1>2, <1>3, AskAnswered
  <1>5. MetaAfterEdits' = MetaAfterEdits
    BY <1>1 DEF MetaAfterEdits
  <1>6. /\ WholePc' = WholePc /\ WholePc = "sum"
        /\ WholeReq' = WholeReq /\ WholeFd' = WholeFd /\ WholeMig' = WholeMig
    BY <1>1 DEF WholePc, WholeReq, WholeFd, WholeMig
  <1>7. W!AddSize
    BY <1>1, <1>4, <1>5, <1>6 DEF W!AddSize, W!storeVars, W!ctlVars
  <1>8. Linked'
    BY <1>1, <1>2, <1>4 DEF Linked
  <1> QED
    BY <1>7, <1>8 DEF W!Next, W!ReBalance

LEMMA AskGetLinks ==
  ASSUME UInv, NEW k \in Keys, AskGet(k)
  PROVE  Linked' /\ [W!Next]_(W!vars)
  <1> DEFINE n == Route(k)
             r == Request(READ, NoEntry)
             a == TextAnswer(ValLen[DbGet(data[n], k)] + 1, DbGet(data[n], k) \in OkVals)
  <1>1. /\ pc = "idle" /\ UNCHANGED <<meta, pc, req, fd, phase, node, total, mig, ok, edits>>
    BY DEF AskGet, loopVars, localVars
  <1>2. n \in Nodes /\ StoresStay /\ Linked
    BY <1>1, Addressed DEF UInv
  <1>3. Answered(n, r, a) /\ out' = DbGet(data[n], k)
    <2>1. ~DiesServing(n, r) /\ ~Unanswered(n)
      BY <1>2, BoundsAssumption DEF DiesServing, Unanswered, Linked, StoresStay
    <2> QED
      BY <2>1 DEF AskGet
  <1>4. Ask(n, a)
    BY <1>3 DEF Ask, Exchange
  <1>5. UNCHANGED <<data, size, log>> /\ \A x \in Nodes : conn'[x] = "open" /\ reset'[x] = "no"
    <2> HIDE DEF n, a
    <2> QED
      BY <1>2, <1>4, AskAnswered
  <1>6. MetaAfterEdits' = MetaAfterEdits /\ MetaAfterEdits = meta
    BY <1>1, <1>2, NoneLeft DEF MetaAfterEdits, UInv
  <1>7. /\ WholePc' = WholePc /\ WholePc = "idle"
        /\ WholeReq' = WholeReq /\ WholeFd' = WholeFd /\ WholeMig' = WholeMig
    BY <1>1 DEF WholePc, WholeReq, WholeFd, WholeMig
  <1>8. out' = W!DbGet(data[W!Route(k)], k)
    BY <1>3, <1>6, SameDb DEF W!Route, Route
  <1>9. W!Get(k)
    BY <1>1, <1>5, <1>6, <1>7, <1>8 DEF W!Get, W!storeVars, W!loopVars
  <1>10. Linked'
    BY <1>1, <1>2, <1>5 DEF Linked
  <1> QED
    BY <1>9, <1>10, SameDb DEF W!Next

LEMMA BeginShowLinks ==
  ASSUME UInv, BeginShow
  PROVE  Linked' /\ [W!Next]_(W!vars)
  <1>1. /\ pc = "loop" /\ phase = "down" /\ ~InLoop /\ pc' = "show"
        /\ phase' = "up" /\ node' = 0 /\ total' = 0 /\ mig' = NoMigration /\ ok' = TRUE
        /\ UNCHANGED <<meta, data, size, log, req, fd, out, conn, reset, edits>>
    BY DEF BeginShow, LeaveReBalance, storeVars, ctlVars, netVars, storeLife
  <1>2. Linked /\ mig = NoMigration
    BY <1>1 DEF UInv, Linked
  <1>3. MetaAfterEdits' = MetaAfterEdits
    BY <1>1 DEF MetaAfterEdits
  <1>4. /\ WholePc = "loop" /\ WholePc' = "idle"
        /\ WholeReq' = WholeReq /\ WholeFd' = WholeFd /\ WholeMig' = WholeMig
    BY <1>1, <1>2 DEF WholePc, WholeReq, WholeFd, WholeMig
  <1>5. W!Balanced
    BY <1>1, <1>3, <1>4, SameMeta DEF W!Balanced, W!storeVars, W!ctlVars
  <1>6. Linked'
    BY <1>1, <1>2 DEF Linked
  <1> QED
    BY <1>5, <1>6 DEF W!Next, W!ReBalance

LEMMA CommitCommandLinks ==
  ASSUME UInv, CommitCommand
  PROVE  Linked' /\ W!Commit /\ pc' = "tell"
  <1>1. /\ pc = "commit" /\ CommitLog(fd)
        /\ \E yes \in IsOk(buf') : pc' = IF yes THEN "tell" ELSE "enter"
        /\ UNCHANGED <<meta, req, fd, out, phase, node, total, mig, ok, edits>>
    BY DEF CommitCommand, ctlVars, loopVars, localVars
  <1>2. fd \in Nodes /\ StoresStay /\ Linked
    BY Addressed DEF UInv
  <1>3. /\ CommitAt(fd) /\ IsOk(buf') = {TRUE}
        /\ \A x \in Nodes : conn'[x] = "open" /\ reset'[x] = "no"
    BY <1>1, <1>2, CommitAnswered
  <1>4. pc' = "tell"
    BY <1>1, <1>3
  <1>5. MetaAfterEdits' = MetaAfterEdits
    BY <1>1 DEF MetaAfterEdits
  <1>6. /\ WholePc = "commit" /\ WholePc' = "sum" /\ WholeFd = fd
        /\ WholeReq' = Idle /\ WholeFd' = 0 /\ WholeMig' = WholeMig
    BY <1>1, <1>4 DEF WholePc, WholeReq, WholeFd, WholeMig
  <1>7. W!CommitAt(WholeFd)
    BY <1>3, <1>6, SameStores
  <1>8. W!Commit
    BY <1>1, <1>5, <1>6, <1>7 DEF W!Commit, W!loopVars
  <1>9. Linked'
    BY <1>1, <1>2, <1>3, <1>4 DEF Linked
  <1> QED
    BY <1>4, <1>8, <1>9

LEMMA TryLogSourceLinks ==
  ASSUME UInv, TryLogSource
  PROVE  Linked' /\ [W!Next]_(W!vars)
  <1> DEFINE k == Outermost
             e == DeleteEntry(k)
             b == LogReply(data[node], e)
  <1>1. /\ pc = "logSource" /\ pc' = "logPeer"
        /\ UNCHANGED <<meta, req, fd, out, phase, node, total, edits>>
    BY DEF TryLogSource, ctlVars, loopVars
  <1>2. /\ node \in Nodes /\ InLoop /\ StoresStay /\ Linked /\ ~NotTooMuch(node)
        /\ mig = [key |-> k, val |-> DbGet(data[node], k), src |-> NoBounds, dst |-> NoBounds]
    BY <1>1, Addressed DEF UInv, FInv, Place, Linked
  <1>3. Log(node, e)
    BY <1>2 DEF TryLogSource
  <1> HIDE DEF e
  <1>4. /\ LogAt(node, e) /\ IsOk(buf') = {TRUE} /\ NextBounds(buf') = {b}
        /\ \A x \in Nodes : conn'[x] = "open" /\ reset'[x] = "no"
    BY <1>2, <1>3, LogAnswered
  <1> HIDE DEF k, b
  <1>5. ok' = TRUE /\ mig' = [key |-> k, val |-> DbGet(data[node], k), src |-> b, dst |-> NoBounds]
    BY <1>2, <1>4 DEF TryLogSource
  <1>6. MetaAfterEdits' = MetaAfterEdits
    BY <1>1 DEF MetaAfterEdits
  <1>7. /\ WholePc = "loop" /\ WholePc' = "logPeer" /\ WholeMig' = mig'
        /\ WholeReq' = WholeReq /\ WholeFd' = WholeFd
    BY <1>1 DEF WholePc, WholeReq, WholeFd, WholeMig
  <1>8. W!LogSource
    <2>1. k = IF phase = "up" THEN W!SeekToLast(data[node]) ELSE W!SeekToFirst(data[node])
      BY SameDb DEF k, Outermost
    <2>2. e = W!DeleteEntry(k) /\ W!DbGet(data[node], k) = DbGet(data[node], k)
      BY SameDb DEF e
    <2>3. W!LogReply(data[node], e) = b /\ W!LogAt(node, e) /\ ~W!NotTooMuch(node)
      BY <1>2, <1>4, SameStores DEF b
    <2>4. W!InLoop /\ W!NoBounds = NoBounds
      BY <1>2, SameMeta
    <2> QED
      BY <1>1, <1>5, <1>6, <1>7, <2>1, <2>2, <2>3, <2>4 DEF W!LogSource, W!ctlVars, W!loopVars
  <1>9. Linked'
    BY <1>1, <1>2, <1>4, <1>5 DEF Linked
  <1> QED
    BY <1>8, <1>9 DEF W!Next, W!ReBalance

LEMMA TryLogPeerLinks ==
  ASSUME UInv, TryLogPeer
  PROVE  Linked' /\ [W!Next]_(W!vars)
  <1> DEFINE e == PutEntry(mig.key, mig.val)
             p == Peer
             b == LogReply(data[p], e)
  <1>1. pc = "logPeer" /\ UNCHANGED <<meta, req, fd, out, phase, node, total, edits>> /\ Log(p, e)
    BY DEF TryLogPeer, ctlVars, loopVars
  <1>2. p \in Nodes /\ StoresStay /\ Linked /\ ok = TRUE
    BY <1>1, Addressed DEF UInv, Linked
  <1> HIDE DEF e, p
  <1>3. /\ LogAt(p, e) /\ IsOk(buf') = {TRUE} /\ NextBounds(buf') = {b}
        /\ \A x \in Nodes : conn'[x] = "open" /\ reset'[x] = "no"
    BY <1>1, <1>2, LogAnswered
  <1> HIDE DEF b
  <1>4. ok' = TRUE /\ pc' = "meta" /\ mig' = [mig EXCEPT !.dst = b]
    <2>1. PICK yes \in IsOk(buf') :
            ok' = (ok /\ yes) /\ pc' = IF ok /\ yes THEN "meta" ELSE "undoSource"
      BY DEF TryLogPeer
    <2>2. yes = TRUE
      BY <1>3
    <2>3. mig' = [mig EXCEPT !.dst = b]
      BY <1>3 DEF TryLogPeer
    <2> QED
      BY <1>2, <2>1, <2>2, <2>3
  <1>5. MetaAfterEdits' = MetaAfterEdits
    BY <1>1 DEF MetaAfterEdits
  <1>6. /\ WholePc = "logPeer" /\ WholePc' = "meta" /\ WholeMig' = mig' /\ WholeMig = mig
        /\ WholeReq' = WholeReq /\ WholeFd' = WholeFd
    BY <1>1, <1>4 DEF WholePc, WholeReq, WholeFd, WholeMig
  <1>7. W!LogPeer
    <2>1. e = W!PutEntry(WholeMig.key, WholeMig.val) /\ p = W!Peer
      BY <1>6, SameDb, SameMeta DEF e, p
    <2>2. W!LogReply(data[p], e) = b /\ W!LogAt(p, e)
      BY <1>3, SameStores DEF b
    <2> QED
      BY <1>1, <1>4, <1>5, <1>6, <2>1, <2>2 DEF W!LogPeer, W!ctlVars, W!loopVars
  <1>8. Linked'
    BY <1>1, <1>2, <1>3, <1>4 DEF Linked
  <1> QED
    BY <1>7, <1>8 DEF W!Next, W!ReBalance

LEMMA TryCommitSourceLinks ==
  ASSUME UInv, TryCommitSource
  PROVE  Linked' /\ W!CommitSource /\ pc' = "commitPeer" /\ mig' = mig
  <1>1. /\ pc = "commitSource" /\ CommitLog(node)
        /\ UNCHANGED <<meta, req, fd, out, edits>>
    BY DEF TryCommitSource, ctlVars
  <1>2. node \in Nodes /\ StoresStay /\ Linked
    BY <1>1, Addressed DEF UInv
  <1>3. /\ CommitAt(node) /\ IsOk(buf') = {TRUE}
        /\ \A x \in Nodes : conn'[x] = "open" /\ reset'[x] = "no"
    BY <1>1, <1>2, CommitAnswered
  <1>4. pc' = "commitPeer" /\ UNCHANGED <<phase, node, total, mig, ok>>
    BY <1>3 DEF TryCommitSource, loopVars
  <1>5. MetaAfterEdits' = MetaAfterEdits
    BY <1>1 DEF MetaAfterEdits
  <1>6. /\ WholePc = "commitSource" /\ WholePc' = "commitPeer" /\ WholeMig' = WholeMig
        /\ WholeReq' = WholeReq /\ WholeFd' = WholeFd
    BY <1>1, <1>4 DEF WholePc, WholeReq, WholeFd, WholeMig
  <1>7. W!CommitAt(node)
    BY <1>3, SameStores
  <1>8. W!CommitSource
    BY <1>1, <1>4, <1>5, <1>6, <1>7 DEF W!CommitSource, W!ctlVars, W!loopVars
  <1>9. Linked'
    BY <1>1, <1>2, <1>3, <1>4 DEF Linked
  <1> QED
    BY <1>4, <1>8, <1>9

LEMMA TryCommitPeerLinks ==
  ASSUME UInv, TryCommitPeer
  PROVE  Linked' /\ W!CommitPeer /\ pc' = "loop" /\ mig' = NoMigration
  <1> DEFINE p == Peer
  <1>1. /\ pc = "commitPeer" /\ CommitLog(p)
        /\ UNCHANGED <<meta, req, fd, out, edits>>
    BY DEF TryCommitPeer, ctlVars
  <1>2. p \in Nodes /\ StoresStay /\ Linked
    BY <1>1, Addressed DEF UInv
  <1> HIDE DEF p
  <1>3. /\ CommitAt(p) /\ IsOk(buf') = {TRUE}
        /\ \A x \in Nodes : conn'[x] = "open" /\ reset'[x] = "no"
    BY <1>1, <1>2, CommitAnswered
  <1>4. /\ pc' = "loop" /\ mig' = NoMigration /\ ok' = TRUE
        /\ UNCHANGED <<phase, node, total>>
    BY <1>3 DEF TryCommitPeer, loopVars
  <1>5. MetaAfterEdits' = MetaAfterEdits
    BY <1>1 DEF MetaAfterEdits
  <1>6. /\ WholePc = "commitPeer" /\ WholePc' = "loop" /\ WholeMig' = NoMigration
        /\ WholeReq' = WholeReq /\ WholeFd' = WholeFd
    BY <1>1, <1>4 DEF WholePc, WholeReq, WholeFd, WholeMig
  <1>7. W!CommitAt(W!Peer) /\ W!NoMigration = NoMigration
    BY <1>3, SameStores, SameMeta DEF p
  <1>8. W!CommitPeer
    BY <1>1, <1>4, <1>5, <1>6, <1>7 DEF W!CommitPeer, W!ctlVars, W!loopVars
  <1>9. Linked'
    BY <1>1, <1>2, <1>3, <1>4 DEF Linked
  <1> QED
    BY <1>4, <1>8, <1>9

LEMMA WholeShape ==
  ASSUME UInv
  PROVE  Shape(MetaAfterEdits)
  <1>1. W!Shape(MetaAfterEdits)
    BY DEF UInv, W!MInv, W!IInv
  <1> QED
    BY <1>1 DEF W!Shape, Shape, W!IsDb, IsDb, W!MetaEntries, MetaEntries, W!Nodes, Nodes, W!Keys,
       Keys

LEMMA RealRekey ==
  ASSUME NEW e \in MetaEntries, NEW f \in MetaEntries
  PROVE  RekeyEdits(e, f) \in Seq(RealEdits) /\ RekeyEdits(e, f) # <<>>
  <1> DEFINE a == DeleteEdit(e)
             b == PutEdit(f)
  <1>1. a \in RealEdits /\ b \in RealEdits
    BY DEF DeleteEdit, PutEdit, RealEdits
  <1> HIDE DEF a, b
  <1>2. <<a, b>> \in Seq(RealEdits) /\ <<a, b>> # <<>>
    BY <1>1
  <1> QED
    BY <1>2 DEF RekeyEdits, a, b

\* put or del: the writes it leaves to be done are the rekeying Cluster does.
LEMMA CommandLinks ==
  ASSUME UInv, NEW e, Applicable(e), Command(e)
  PROVE  LET at == SmallerOrEqual(meta, e.key)
             m  == meta[at]
             b  == LogReply(data[m.fd], e)
         IN  /\ Linked' /\ LogAt(m.fd, e) /\ m.fd \in Nodes
             /\ MetaAfterEdits = meta
             /\ MetaAfterEdits' = Rekey(meta, at, Widened(m, e, b))
             /\ WholePc = "idle" /\ WholePc' = "commit"
             /\ WholeReq' = e /\ WholeFd' = m.fd /\ WholeMig' = WholeMig
             /\ UNCHANGED <<out, phase, node, total>>
             /\ pc = "idle" /\ pc' = "edit" /\ req' = e /\ UNCHANGED <<told, mig>>
  <1> DEFINE at == SmallerOrEqual(meta, e.key)
             m == meta[at]
             n == m.fd
             b == LogReply(data[n], e)
             w == Widened(m, e, b)
  <1>1. /\ pc = "idle" /\ Log(n, e)
        /\ UNCHANGED <<meta, out, phase, node, total, mig, ok, told>>
        /\ \E yes \in IsOk(buf') : \E x \in NextBounds(buf') :
             IF yes THEN edits' = RekeyEdits(m, Widened(m, e, x)) /\ req' = e /\ fd' = n /\ pc' = "edit"
                    ELSE pc' = "sum" /\ UNCHANGED <<edits, req, fd>>
    BY DEF Command, loopVars
  <1>2. /\ Stores /\ Control /\ DOMAIN meta # {} /\ StoresStay /\ Linked
        /\ mig = NoMigration /\ ok = TRUE
    BY <1>1 DEF UInv, FInv, Editing, Linked
  <1>3. MetaAfterEdits = meta /\ IsDb(meta, MetaEntries)
    BY <1>1, NoneLeft DEF UInv
  <1>4. e.key \in Keys /\ e # Idle
    BY IdleAssumption DEF Applicable, Entries
  <1>5. at \in DOMAIN meta /\ m \in MetaEntries /\ n \in Nodes /\ m.min = at
    <2>1. Shape(meta)
      BY <1>3, WholeShape
    <2> QED
      BY <1>2, <1>3, <1>4, <2>1, LookupType DEF Shape
  <1>6. b \in Bounds
    <2> DEFINE d == data[n]
    <2>1. IsDb(d, Values)
      BY <1>2, <1>5 DEF Stores
    <2> HIDE DEF d
    <2>2. LogReply(d, e) \in Bounds
      BY <1>4, <2>1, ReplyInBounds
    <2> QED
      BY <2>2 DEF d
  <1> HIDE DEF n
  <1>7. /\ LogAt(n, e) /\ IsOk(buf') = {TRUE} /\ NextBounds(buf') = {b}
        /\ \A x \in Nodes : conn'[x] = "open" /\ reset'[x] = "no"
    BY <1>1, <1>2, <1>5, LogAnswered
  <1> HIDE DEF b, m, at
  <1>8. edits' = RekeyEdits(m, w) /\ req' = e /\ fd' = n /\ pc' = "edit"
    BY <1>1, <1>7
  <1>9. w \in MetaEntries
    BY <1>5, <1>6, EntryTypes
  <1> HIDE DEF w
  <1>10. edits' \in Seq(RealEdits) /\ edits' # <<>>
    BY <1>5, <1>8, <1>9, RealRekey
  <1>11. MetaAfterEdits' = Rekey(meta, at, w)
    <2>1. AfterEdits(meta, RekeyEdits(m, w)) = Rekey(meta, m.min, w)
      BY <1>3, <1>5, <1>9, AfterRekey
    <2> QED
      BY <1>1, <1>5, <1>8, <2>1 DEF MetaAfterEdits
  <1>12. Linked'
    BY <1>1, <1>2, <1>7, <1>8, <1>10 DEF Linked
  <1>13. /\ WholePc = "idle" /\ WholePc' = "commit"
         /\ WholeReq' = e /\ WholeFd' = n /\ WholeMig' = WholeMig
    <2>1. ~Constructing' /\ req' # Idle
      BY <1>4, <1>8 DEF Constructing
    <2> QED
      BY <1>1, <1>8, <2>1 DEF WholePc, WholeReq, WholeFd, WholeMig
  <1> QED
    BY <1>1, <1>3, <1>5, <1>7, <1>8, <1>11, <1>12, <1>13 DEF at, m, n, b, w

LEMMA TryPutLinks ==
  ASSUME UInv, NEW k \in Keys, NEW v \in Values, Command(PutEntry(k, v))
  PROVE  Linked' /\ W!Put(k, v)
  <1> DEFINE e == PutEntry(k, v)
             at == SmallerOrEqual(meta, k)
             m == meta[at]
             w == WithRange(m, Lesser(m.min, k), Greater(m.max, k))
  <1>1. Applicable(e) /\ e.key = k /\ e.kind = PUT
    BY PutApplicable DEF PutEntry
  <1>2. \A b : Widened(m, e, b) = w
    BY <1>1 DEF Widened
  <1> HIDE DEF e
  <1>3. /\ Linked' /\ LogAt(m.fd, e)
        /\ MetaAfterEdits = meta
        /\ MetaAfterEdits' = Rekey(meta, at, w)
        /\ WholePc = "idle" /\ WholePc' = "commit"
        /\ WholeReq' = e /\ WholeFd' = m.fd /\ WholeMig' = WholeMig
        /\ UNCHANGED <<out, phase, node, total>>
    BY <1>1, <1>2, CommandLinks DEF e
  <1>4. /\ at = W!SmallerOrEqual(MetaAfterEdits, k) /\ e = W!PutEntry(k, v)
        /\ W!LogAt(m.fd, e)
    BY <1>3, SameDb, SameStores DEF e
  <1>5. /\ w = W!WithRange(m, W!Lesser(m.min, k), W!Greater(m.max, k))
        /\ Rekey(meta, at, w) = W!Rekey(meta, at, w)
    BY SameMeta
  <1> HIDE DEF at, w
  <1>6. W!Put(k, v)
    BY <1>3, <1>4, <1>5 DEF W!Put, W!loopVars
  <1> QED
    BY <1>3, <1>6

LEMMA TryDelLinks ==
  ASSUME UInv, NEW k \in Keys, Command(DeleteEntry(k))
  PROVE  Linked' /\ W!Del(k)
  <1> DEFINE e == DeleteEntry(k)
             at == SmallerOrEqual(meta, k)
             m == meta[at]
             b == LogReply(data[m.fd], e)
             w == WithRange(m, KeptMin(m.min, b.min), Greater(m.max, k))
  <1>1. Applicable(e) /\ e.key = k /\ e.kind # PUT
    BY DeleteApplicable DEF DeleteEntry, PUT, DELETE
  <1>2. Widened(m, e, b) = w
    <2> HIDE DEF e, b
    <2> QED
      BY <1>1 DEF Widened
  <1> HIDE DEF e
  <1>3. /\ Linked' /\ LogAt(m.fd, e)
        /\ MetaAfterEdits = meta
        /\ MetaAfterEdits' = Rekey(meta, at, w)
        /\ WholePc = "idle" /\ WholePc' = "commit"
        /\ WholeReq' = e /\ WholeFd' = m.fd /\ WholeMig' = WholeMig
        /\ UNCHANGED <<out, phase, node, total>>
    BY <1>1, <1>2, CommandLinks DEF e
  <1>4. /\ at = W!SmallerOrEqual(MetaAfterEdits, k) /\ e = W!DeleteEntry(k)
        /\ W!LogAt(m.fd, e) /\ b = W!LogReply(data[m.fd], e)
    BY <1>3, SameDb, SameStores DEF e
  <1> HIDE DEF b
  <1>5. /\ w = W!WithRange(m, W!KeptMin(m.min, b.min), W!Greater(m.max, k))
        /\ Rekey(meta, at, w) = W!Rekey(meta, at, w)
    BY SameMeta
  <1> HIDE DEF at, w
  <1>6. W!Del(k)
    BY <1>3, <1>4, <1>5 DEF W!Del, W!loopVars
  <1> QED
    BY <1>3, <1>6

\* The two entries a migration rewrites are there.
LEMMA Planned ==
  ASSUME UInv, pc = "meta"
  PROVE  LET at == SmallerOrEqual(meta, mig.key)
             nb == Neighbour(at)
         IN  /\ at = W!SmallerOrEqual(MetaAfterEdits, WholeMig.key) /\ nb = W!Neighbour(at)
             /\ at \in DOMAIN meta /\ nb \in DOMAIN meta
  <1> DEFINE at == SmallerOrEqual(meta, mig.key)
             nb == Neighbour(at)
  <1>1. MetaAfterEdits = meta /\ WholePc = "meta" /\ WholeMig = mig
    BY NoneLeft DEF UInv, WholePc, WholeMig
  <1>2. at = W!SmallerOrEqual(MetaAfterEdits, WholeMig.key)
    BY <1>1, SameDb
  <1> HIDE DEF at
  <1>3. nb = W!Neighbour(at)
    BY <1>1, SameDb DEF Neighbour, W!Neighbour
  <1>4. W!IInv
    BY DEF UInv, W!MInv
  <1>5. at \in DOMAIN MetaAfterEdits /\ nb \in DOMAIN MetaAfterEdits
    BY <1>1, <1>2, <1>3, <1>4, InstanceAssumptions, W!NeighbourFacts
  <1> QED
    BY <1>1, <1>2, <1>3, <1>5 DEF at

LEMMA PlanEditsLinks ==
  ASSUME UInv, PlanEdits
  PROVE  Linked' /\ [W!Next]_(W!vars)
  <1> DEFINE at == SmallerOrEqual(meta, mig.key)
             nb == Neighbour(at)
             m == meta[at]
             o == meta[nb]
             f == Rebound(m, mig.src)
             g == Rebound(o, mig.dst)
  <1>1. /\ pc = "meta" /\ pc' = "edit"
        /\ edits' = RekeyEdits(m, f) \o (IF nb = EmptyStr THEN <<NoEntryEdit>> ELSE RekeyEdits(o, g))
        /\ UNCHANGED <<meta, data, size, log, req, fd, out, phase, node, total, mig, conn, reset, ok>>
    BY DEF PlanEdits, storeVars, ctlVars, loopVars, netVars, storeLife
  <1>2. /\ Control /\ StoresStay /\ Linked /\ mig.key \in Keys
    BY <1>1 DEF UInv, FInv, Picked
  <1>3. MetaAfterEdits = meta /\ IsDb(meta, MetaEntries) /\ Shape(meta)
    BY <1>1, NoneLeft, WholeShape DEF UInv
  <1>4. /\ WholePc = "meta" /\ WholeMig = mig /\ WholeMig' = mig /\ WholeFd' = WholeFd
        /\ WholeReq = req /\ WholeReq' = req
    BY <1>1 DEF WholePc, WholeReq, WholeFd, WholeMig
  <1>5. req = Idle
    BY <1>4 DEF UInv, W!MInv, W!Fresh
  <1>6. /\ at = W!SmallerOrEqual(MetaAfterEdits, WholeMig.key) /\ nb = W!Neighbour(at)
        /\ at \in DOMAIN meta /\ nb \in DOMAIN meta
    BY <1>1, Planned
  <1> HIDE DEF at, nb
  <1>7. m \in MetaEntries /\ o \in MetaEntries /\ m.min = at /\ o.min = nb /\ nb # EmptyStr
    BY <1>3, <1>6, KeysAreNat DEF Shape, IsDb
  <1>8. f \in MetaEntries /\ g \in MetaEntries
    <2> HIDE DEF m, o
    <2> QED
      BY <1>2, <1>7, EntryTypes DEF Control
  <1> DEFINE a == RekeyEdits(m, f)
             b == RekeyEdits(o, g)
  <1>9. edits' = a \o b
    BY <1>1, <1>7
  <1>10. a \o b \in Seq(RealEdits) /\ a \o b # <<>>
    <2>1. a \in Seq(RealEdits) /\ a # <<>> /\ b \in Seq(RealEdits)
      BY <1>7, <1>8, RealRekey
    <2> HIDE DEF a, b
    <2>2. a \o b \in Seq(RealEdits) /\ Len(a \o b) = Len(a) + Len(b)
      BY <2>1, ConcatProperties, Zenon
    <2>3. Len(a) \in Nat \ {0} /\ Len(b) \in Nat
      BY <2>1, LenProperties, EmptySeq
    <2> QED
      BY <2>2, <2>3, EmptySeq
  <1>11. MetaAfterEdits' = Rekey(Rekey(meta, at, f), nb, g)
    <2> HIDE DEF m, o, f, g
    <2>1. AfterEdits(meta, a \o b) = Rekey(Rekey(meta, m.min, f), o.min, g)
      BY <1>3, <1>7, <1>8, AfterRekey
    <2> QED
      BY <1>1, <1>7, <1>9, <2>1 DEF MetaAfterEdits
  <1>12. ~Constructing' /\ WholePc' = "commitSource"
    <2>1. mig # NoMigration
      BY <1>2, KeysAreNat DEF NoMigration
    <2>2. ~Constructing'
      BY <1>1, <2>1 DEF Constructing
    <2> QED
      BY <1>1, <1>5, <2>2 DEF WholePc
  <1>13. W!UpdateMeta
    <2>1. f = W!Rebound(m, mig.src) /\ g = W!Rebound(o, mig.dst)
      BY SameMeta
    <2> HIDE DEF f, g
    <2>2. Rekey(Rekey(meta, at, f), nb, g) = W!Rekey(W!Rekey(meta, at, f), nb, g)
      BY SameMeta
    <2> QED
      BY <1>1, <1>3, <1>4, <1>6, <1>11, <1>12, <2>1, <2>2 DEF W!UpdateMeta, W!storeVars, W!ctlVars,
         W!loopVars
  <1>14. Linked'
    <2> HIDE DEF a, b
    <2> QED
      BY <1>1, <1>2, <1>5, <1>9, <1>10 DEF Linked
  <1> QED
    BY <1>13, <1>14 DEF W!Next, W!ReBalance

-----------------------------------------------------------------------------
(* The first start: the writes of the constructor.                         *)

LEMMA FirstWrites ==
  ASSUME meta = [k \in {} |-> EmptyStr]
  PROVE  /\ FirstEdits \in Seq(RealEdits) /\ FirstEdits # <<>>
         /\ AfterEdits(meta, FirstEdits)
              = [k \in {InitKey[i] : i \in Nodes} |->
                   [min |-> k, max |-> k, fd |-> CHOOSE i \in Nodes : InitKey[i] = k]]
  <1> DEFINE s == FirstEdits
             E(i) == [min |-> InitKey[i - 1], max |-> InitKey[i - 1], fd |-> i - 1]
             F(k) == [min |-> k, max |-> k, fd |-> CHOOSE i \in Nodes : InitKey[i] = k]
  <1>1. N \in Nat /\ N > 0 /\ \A i : i \in 1 .. N <=> i \in Int /\ i - 1 \in Nodes
    BY NAssumption DEF Nodes
  <1>2. /\ \A i \in Nodes : InitKey[i] \in Keys
        /\ \A i, j \in Nodes : InitKey[i] = InitKey[j] => i = j
    BY InitKeyAssumption, NodesAreInt, KeysAreNat
  <1>3. \A i \in 1 .. N : s[i] = PutEdit(E(i)) /\ E(i) \in MetaEntries
    BY <1>1, <1>2 DEF FirstEdits, MetaEntries
  <1>4. s \in Seq(RealEdits) /\ s # <<>> /\ DOMAIN s = 1 .. N
    <2>1. \A i \in 1 .. N : PutEdit(E(i)) \in RealEdits
      BY <1>3 DEF PutEdit, RealEdits
    <2>2. s \in [1 .. N -> RealEdits]
      BY <2>1 DEF FirstEdits
    <2> HIDE DEF s
    <2> QED
      BY <1>1, <2>2
  <1>5. \A i \in 1 .. N : s[i].op = "put" /\ s[i].entry = E(i) /\ s[i].entry.min = InitKey[i - 1]
    <2>1. \A i : E(i).min = InitKey[i - 1]
      OBVIOUS
    <2>2. \A e : PutEdit(e).op = "put" /\ PutEdit(e).entry = e
      BY DEF PutEdit
    <2> HIDE DEF s, E
    <2> QED
      BY <1>3, <2>1, <2>2, Zenon
  <1>6. ASSUME NEW n \in Nodes
        PROVE  /\ Written(s, InitKey[n]) = {n + 1} /\ LastPut(s, InitKey[n]) = {n + 1}
               /\ s[n + 1].entry = F(InitKey[n])
    <2>1. n + 1 \in 1 .. N /\ (n + 1) - 1 = n
      BY <1>1, NodesAreInt
    <2>2. Written(s, InitKey[n]) = {n + 1}
      <3>1. \A i \in 1 .. N : InitKey[i - 1] = InitKey[n] <=> i = n + 1
        <4> TAKE i \in 1 .. N
        <4>1. i - 1 \in Nodes /\ i \in Int
          BY <1>1
        <4>2. InitKey[i - 1] = InitKey[n] <=> i - 1 = n
          BY <1>2, <4>1
        <4>3. i - 1 = n <=> i = n + 1
          BY <4>1, NodesAreInt
        <4> QED
          BY <4>2, <4>3
      <3> HIDE DEF s
      <3> QED
        BY <1>4, <1>5, <2>1, <3>1 DEF Written
    <2>3. LastPut(s, InitKey[n]) = {n + 1}
      <3> HIDE DEF s, E
      <3> QED
        BY <1>5, <2>1, <2>2 DEF LastPut
    <2>4. (CHOOSE i \in Nodes : InitKey[i] = InitKey[n]) = n
      BY <1>2
    <2> QED
      BY <1>5, <2>1, <2>2, <2>3, <2>4
  <1>7. \A k \in Keys : k \notin {InitKey[i] : i \in Nodes} => Written(s, k) = {}
    <2> HIDE DEF s
    <2> QED
      BY <1>1, <1>4, <1>5 DEF Written
  <1> HIDE DEF s, F
  <1>8. ASSUME NEW k \in {InitKey[i] : i \in Nodes}
        PROVE  /\ k \in Keys /\ Written(s, k) # {} /\ LastPut(s, k) # {}
               /\ s[CHOOSE i \in LastPut(s, k) : TRUE].entry = F(k)
    BY <1>2, <1>6
  <1>9. {x \in Keys : IF Written(s, x) = {} THEN x \in DOMAIN meta ELSE LastPut(s, x) # {}}
          = {InitKey[i] : i \in Nodes}
    BY <1>7, <1>8
  <1>10. AfterEdits(meta, s) = [k \in {InitKey[i] : i \in Nodes} |-> F(k)]
    BY <1>8, <1>9 DEF AfterEdits
  <1> QED
    BY <1>4, <1>10 DEF s, F

LEMMA StartsLinked ==
  ASSUME FaultsInit
  PROVE  Linked /\ W!Init
  <1>1. /\ meta = [k \in {} |-> EmptyStr] /\ edits = FirstEdits /\ pc = "edit"
        /\ req = Idle /\ fd = 0 /\ mig = NoMigration /\ ok = TRUE
        /\ conn = [n \in Nodes |-> "open"] /\ reset = [n \in Nodes |-> "no"]
    BY DEF FaultsInit
  <1>2. Linked
    BY <1>1, FirstWrites DEF Linked
  <1>3. WholePc = "idle" /\ WholeReq = Idle /\ WholeFd = 0 /\ WholeMig = NoMigration
    BY <1>1 DEF WholePc, WholeReq, WholeFd, WholeMig, Constructing
  <1>4. MetaAfterEdits
          = [k \in {InitKey[i] : i \in W!Nodes} |->
               [min |-> k, max |-> k, fd |-> CHOOSE i \in W!Nodes : InitKey[i] = k]]
    BY <1>1, FirstWrites, SameDb DEF MetaAfterEdits
  <1>5. /\ data = [n \in W!Nodes |-> [k \in {} |-> W!EmptyStr]]
        /\ size = [n \in W!Nodes |-> 0] /\ log = [n \in W!Nodes |-> {}]
        /\ out = W!EmptyStr /\ phase = "up" /\ node = 0 /\ total = 0
    BY SameDb DEF FaultsInit
  <1>6. W!Init
    BY <1>3, <1>4, <1>5, SameMeta DEF W!Init
  <1> QED
    BY <1>2, <1>6

-----------------------------------------------------------------------------
(* Every step.                                                             *)

\* Ends and starts are counted.
LEMMA Counts ==
  ASSUME faults \in Nat, life \in Nat \ {0}, [FaultsNext]_allVars
  PROVE  faults' \in Nat /\ life' \in Nat \ {0}
  <1>1. ASSUME NEW n, NEW r, NEW a, Exchange(n, r, a) \/ DiesServing(n, r) \/ Unanswered(n)
        PROVE  faults' \in {faults, faults + 1}
    BY <1>1 DEF Exchange, Answered, DiesServing, Unanswered
  <1>2. faults' \in {faults, faults + 1}
    <2>1. CASE UNCHANGED allVars
      BY <2>1 DEF allVars, faultVars, netVars
    <2>2. ASSUME NEW e, Command(e) PROVE faults' \in {faults, faults + 1}
      BY <1>1, <2>2 DEF Command, Log
    <2>3. ASSUME NEW k, AskGet(k) PROVE faults' \in {faults, faults + 1}
      BY <1>1, <2>3 DEF AskGet, Answered
    <2>4. CASE EditMeta \/ Tell \/ EnterReBalance \/ PlanEdits \/ BeginShow
               \/ ((EnterUp \/ EnterDown) /\ UNCHANGED faultVars)
      BY <2>4 DEF EditMeta, Tell, EnterReBalance, PlanEdits, BeginShow, faultVars, netVars
    <2>5. CASE CommitCommand \/ TryCommitSource \/ TryCommitPeer
      BY <1>1, <2>5 DEF CommitCommand, TryCommitSource, TryCommitPeer, CommitLog
    <2>6. CASE AskSize \/ CheckShare \/ CheckSpare \/ Show
      BY <1>1, <2>6 DEF AskSize, CheckShare, CheckSpare, Show, Ask
    <2>7. CASE PickKey
      BY <1>1, <2>7 DEF PickKey, Answered
    <2>8. CASE TryLogSource \/ TryLogPeer \/ UndoSource \/ UndoPeer
      BY <1>1, <2>8 DEF TryLogSource, TryLogPeer, UndoSource, UndoPeer, Log, DelLog
    <2>9. CASE Crash \/ ControlEnds \/ Start
      BY <2>9 DEF Crash, ControlEnds, Start
    <2>10. CASE \E n \in Nodes : StoreEnds(n) \/ StoreReplays(n) \/ StoreStops(n)
      BY <2>10 DEF StoreEnds, StoreReplays, StoreStops
    <2> QED
      BY <2>1, <2>2, <2>3, <2>4, <2>5, <2>6, <2>7, <2>8, <2>9, <2>10 DEF FaultsNext, NewCommand,
         Finishing, TryPut, TryDel
  <1>3. life' \in {life, life + 1}
    BY DEF FaultsNext, NewCommand, Finishing, TryPut, TryDel, Command, AskGet, EditMeta, Tell,
       EnterReBalance, PlanEdits, BeginShow, faultVars, CommitCommand, TryCommitSource,
       TryCommitPeer, AskSize, CheckShare, CheckSpare, Show, PickKey, TryLogSource, TryLogPeer,
       UndoSource, UndoPeer, Crash, ControlGone, ControlEnds, Start, StoreEnds, StoreReplays,
       StoreStops, allVars
  <1> QED
    BY <1>2, <1>3

\* Nothing makes the control node end but itself.
LEMMA NoCrash ==
  ASSUME UInv
  PROVE  ~Crash
  <1>1. Linked /\ Control /\ pc \in {"idle", "edit", "commit", "tell", "enter", "sum", "loop",
          "spare", "pick", "logSource", "logPeer", "undoSource", "undoPeer", "meta",
          "commitSource", "commitPeer", "show", "down"}
    BY DEF UInv, FInv, Control
  <1>2. \A n \in Target : n \in Nodes
    BY <1>1, Addressed DEF UInv, Target
  <1>3. \A n \in Target : reset[n] = "no"
    BY <1>1, <1>2 DEF Linked
  <1>4. pc = "edit" => Head(edits).op # "invalid"
    <2> SUFFICES ASSUME pc = "edit" PROVE Head(edits).op # "invalid"
      OBVIOUS
    <2>1. edits \in Seq(RealEdits) /\ edits # <<>>
      BY <1>1 DEF Linked
    <2>2. Head(edits) \in RealEdits
      BY <2>1, HeadTailProperties
    <2> QED
      BY <2>2 DEF RealEdits
  <1> QED
    BY <1>3, <1>4 DEF Crash

\* While the control node is up, it ends or takes a step of Cluster.
LEMMA UpSteps ==
  ASSUME UInv, [FaultsNext]_allVars
  PROVE  \/ Linked' /\ [W!Next]_(W!vars)
         \/ ControlEnds
  <1>1. CASE UNCHANGED allVars
    <2>1. UNCHANGED <<meta, data, size, log, pc, req, fd, out, phase, node, total, mig, conn,
                      reset, ok, edits, faults>>
      BY <1>1 DEF allVars, vars, storeVars, ctlVars, loopVars, faultVars, netVars, storeLife,
                  localVars
    <2>2. Linked'
      BY <2>1 DEF UInv, Linked, Outermost, NotTooMuch
    <2>3. UNCHANGED W!vars
      <3>1. Constructing' <=> Constructing
        BY <2>1 DEF Constructing
      <3>2. WholePc' = WholePc /\ WholeReq' = WholeReq /\ WholeFd' = WholeFd /\ WholeMig' = WholeMig
        BY <2>1, <3>1 DEF WholePc, WholeReq, WholeFd, WholeMig
      <3>3. MetaAfterEdits' = MetaAfterEdits
        BY <2>1 DEF MetaAfterEdits
      <3> QED
        BY <2>1, <3>2, <3>3, StaysSame
    <2> QED
      BY <2>2, <2>3
  <1>2. ASSUME NEW k \in Keys, NEW v \in Values, Command(PutEntry(k, v))
        PROVE  Linked' /\ [W!Next]_(W!vars)
    BY <1>2, TryPutLinks, SameDb DEF W!Next
  <1>3. ASSUME NEW k \in Keys, Command(DeleteEntry(k))
        PROVE  Linked' /\ [W!Next]_(W!vars)
    BY <1>3, TryDelLinks, SameDb DEF W!Next
  <1>4. ASSUME NEW k \in Keys, AskGet(k)
        PROVE  Linked' /\ [W!Next]_(W!vars)
    BY <1>4, AskGetLinks
  <1>5. CASE EditMeta \/ Tell \/ EnterReBalance \/ PickKey \/ Show
    BY <1>5, EditMetaLinks, TellLinks, PickKeyLinks, ShowLinks
  <1>6. CASE AskSize \/ ((EnterUp \/ EnterDown) /\ UNCHANGED faultVars)
    BY <1>6, AskSizeLinks, EnterLoopLinks
  <1>7. CASE CheckShare \/ CheckSpare
    BY <1>7, CheckLinks
  <1>8. CASE TryLogSource \/ TryLogPeer \/ PlanEdits \/ BeginShow
    BY <1>8, TryLogSourceLinks, TryLogPeerLinks, PlanEditsLinks, BeginShowLinks
  <1>9. CASE CommitCommand \/ TryCommitSource \/ TryCommitPeer
    BY <1>9, CommitCommandLinks, TryCommitSourceLinks, TryCommitPeerLinks DEF W!Next, W!ReBalance
  <1>10. ~UndoSource /\ ~UndoPeer /\ ~Start
    BY DEF UndoSource, UndoPeer, Start, UInv, Linked
  <1>11. \A n \in Nodes : ~StoreEnds(n) /\ ~StoreReplays(n) /\ ~StoreStops(n)
    BY BoundsAssumption DEF StoreEnds, StoreReplays, StoreStops, UInv, Linked, StoresStay
  <1>12. ~Crash
    BY NoCrash
  <1> QED
    BY <1>1, <1>2, <1>3, <1>4, <1>5, <1>6, <1>7, <1>8, <1>9, <1>10, <1>11, <1>12 DEF FaultsNext,
       NewCommand, Finishing, TryPut, TryDel

-----------------------------------------------------------------------------
(* The instance with the proofs and the one of the property are the same.  *)

LEMMA ActionsAgree ==
  /\ W!Init => Whole!Init
  /\ \A k, v : W!Put(k, v) => Whole!Put(k, v)
  /\ \A k : (W!Del(k) => Whole!Del(k)) /\ (W!Get(k) => Whole!Get(k))
  /\ W!Commit => Whole!Commit
  /\ W!ReBalance => Whole!ReBalance
  /\ W!Restart => Whole!Restart
  <1>1. /\ \A m, k, v : W!DbPut(m, k, v) = Whole!DbPut(m, k, v)
        /\ \A m, k : /\ W!DbDelete(m, k) = Whole!DbDelete(m, k)
                     /\ W!DbGet(m, k) = Whole!DbGet(m, k)
    BY DEF W!DbPut, Whole!DbPut, W!DbDelete, Whole!DbDelete, W!DbGet, Whole!DbGet, W!EmptyStr,
           Whole!EmptyStr
  <1>2. /\ \A m : W!SeekToFirst(m) = Whole!SeekToFirst(m) /\ W!SeekToLast(m) = Whole!SeekToLast(m)
        /\ \A m, k : W!After(m, k) = Whole!After(m, k) /\ W!Before(m, k) = Whole!Before(m, k)
        /\ \A m, k : W!SmallerOrEqual(m, k) = Whole!SmallerOrEqual(m, k)
        /\ \A m : W!StoreLessOrEqualOne(m) <=> Whole!StoreLessOrEqualOne(m)
    BY DEF W!SeekToFirst, Whole!SeekToFirst, W!SeekToLast, Whole!SeekToLast, W!After, Whole!After,
           W!Before, Whole!Before, W!SmallerOrEqual, Whole!SmallerOrEqual, W!StoreLessOrEqualOne,
           Whole!StoreLessOrEqualOne, W!EmptyStr, Whole!EmptyStr, W!Min, Whole!Min, W!Max, Whole!Max
  <1>3. /\ W!EmptyStr = Whole!EmptyStr /\ W!Nodes = Whole!Nodes
        /\ W!NoBounds = Whole!NoBounds /\ W!NoMigration = Whole!NoMigration
        /\ W!PUT = Whole!PUT /\ W!DELETE = Whole!DELETE
        /\ \A k, v : W!PutEntry(k, v) = Whole!PutEntry(k, v)
        /\ \A k : W!DeleteEntry(k) = Whole!DeleteEntry(k)
        /\ \A x, y : /\ W!Lesser(x, y) = Whole!Lesser(x, y)
                     /\ W!Greater(x, y) = Whole!Greater(x, y)
                     /\ W!KeptMin(x, y) = Whole!KeptMin(x, y)
    BY DEF W!EmptyStr, Whole!EmptyStr, W!Nodes, Whole!Nodes, W!NoBounds, Whole!NoBounds,
           W!NoMigration, Whole!NoMigration, W!PUT, Whole!PUT, W!DELETE, Whole!DELETE, W!PutEntry,
           Whole!PutEntry, W!DeleteEntry, Whole!DeleteEntry, W!Lesser, Whole!Lesser, W!Greater,
           Whole!Greater, W!KeptMin, Whole!KeptMin
  <1>4. \A db, e : W!LogReply(db, e) = Whole!LogReply(db, e)
    BY <1>2, <1>3, Zenon DEF W!LogReply, Whole!LogReply
  <1>5. /\ \A e, lo, hi : W!WithRange(e, lo, hi) = Whole!WithRange(e, lo, hi)
        /\ \A m, a, e : W!Rekey(m, a, e) = Whole!Rekey(m, a, e)
        /\ \A e, b : W!Rebound(e, b) = Whole!Rebound(e, b)
    BY <1>1, <1>3 DEF W!WithRange, Whole!WithRange, W!Rekey, Whole!Rekey, W!Rebound, Whole!Rebound
  <1>6. /\ \A n : W!NotTooMuch(n) <=> Whole!NotTooMuch(n)
        /\ W!Peer = Whole!Peer /\ (W!InLoop <=> Whole!InLoop)
        /\ \A at : W!Neighbour(at) = Whole!Neighbour(at)
        /\ \A k : W!Route(k) = Whole!Route(k)
    BY <1>2 DEF W!NotTooMuch, Whole!NotTooMuch, W!Peer, Whole!Peer, W!InLoop, Whole!InLoop,
                W!Neighbour, Whole!Neighbour, W!Route, Whole!Route
  <1>7. \A n, e : W!LogAt(n, e) <=> Whole!LogAt(n, e)
    BY DEF W!LogAt, Whole!LogAt
  <1>8. \A n : W!CommitAt(n) <=> Whole!CommitAt(n)
    <2>1. \A db, e : W!DataAfter(db, e) = Whole!DataAfter(db, e)
      BY <1>1, <1>3 DEF W!DataAfter, Whole!DataAfter
    <2>2. \A db, sz, e : W!SizeAfter(db, sz, e) = Whole!SizeAfter(db, sz, e)
      BY <1>1, <1>3 DEF W!SizeAfter, Whole!SizeAfter, W!SizeWithout, Whole!SizeWithout, W!Weight,
                        Whole!Weight
    <2>3. \A lg : W!GetLog(lg) = Whole!GetLog(lg)
      <3>1. \A a, b : W!EntryLess(a, b) = Whole!EntryLess(a, b)
        BY Zenon DEF W!EntryLess, Whole!EntryLess, W!StoredLen, Whole!StoredLen
      <3> QED
        BY <3>1, Zenon DEF W!GetLog, Whole!GetLog
    <2>4. /\ \A db, lg : W!CommitData(db, lg) = Whole!CommitData(db, lg)
          /\ \A db, sz, lg : W!CommitSize(db, sz, lg) = Whole!CommitSize(db, sz, lg)
          /\ \A lg : W!ClearLog(lg) = Whole!ClearLog(lg)
      BY <2>1, <2>2, <2>3 DEF W!CommitData, Whole!CommitData, W!CommitSize, Whole!CommitSize,
                              W!ClearLog, Whole!ClearLog
    <2> QED
      BY <2>4 DEF W!CommitAt, Whole!CommitAt
  <1> USE DEF W!ctlVars, Whole!ctlVars, W!loopVars, Whole!loopVars, W!storeVars, Whole!storeVars
  <1>9. W!Init => Whole!Init
    BY <1>3 DEF W!Init, Whole!Init
  <1>10. ASSUME NEW k, NEW v, W!Put(k, v) PROVE Whole!Put(k, v)
    BY <1>10, <1>2, <1>3, <1>5, <1>7, Zenon DEF W!Put, Whole!Put
  <1>11. ASSUME NEW k, W!Del(k) PROVE Whole!Del(k)
    BY <1>11, <1>2, <1>3, <1>4, <1>5, <1>7, Zenon DEF W!Del, Whole!Del
  <1>12. ASSUME NEW k, W!Get(k) PROVE Whole!Get(k)
    BY <1>12, <1>1, <1>6 DEF W!Get, Whole!Get
  <1>13. /\ W!Commit => Whole!Commit
         /\ W!CommitSource => Whole!CommitSource
         /\ W!CommitPeer => Whole!CommitPeer
    BY <1>3, <1>6, <1>8 DEF W!Commit, Whole!Commit, W!CommitSource, Whole!CommitSource,
                            W!CommitPeer, Whole!CommitPeer
  <1>14. /\ W!AddSize => Whole!AddSize
         /\ W!EnterUp => Whole!EnterUp
         /\ W!EnterDown => Whole!EnterDown
    BY <1>3, <1>6 DEF W!AddSize, Whole!AddSize, W!EnterUp, Whole!EnterUp, W!EnterDown,
                      Whole!EnterDown
  <1>15. /\ W!NextNode => Whole!NextNode
         /\ W!Balanced => Whole!Balanced
    BY <1>3, <1>6 DEF W!NextNode, Whole!NextNode, W!Balanced, Whole!Balanced
  <1>16. W!LogSource => Whole!LogSource
    BY <1>1, <1>2, <1>3, <1>4, <1>6, <1>7 DEF W!LogSource, Whole!LogSource
  <1>17. W!LogPeer => Whole!LogPeer
    BY <1>3, <1>4, <1>6, <1>7 DEF W!LogPeer, Whole!LogPeer
  <1>18. W!UpdateMeta => Whole!UpdateMeta
    BY <1>1, <1>2, <1>3, <1>5, <1>6 DEF W!UpdateMeta, Whole!UpdateMeta
  <1>19. W!Restart => Whole!Restart
    BY <1>3 DEF W!Restart, Whole!Restart, W!DbSize, Whole!DbSize, W!SumUpTo, Whole!SumUpTo, W!Weight,
       Whole!Weight, W!Keys, Whole!Keys
  <1> QED
    BY <1>9, <1>10, <1>11, <1>12, <1>13, <1>14, <1>15, <1>16, <1>17, <1>18, <1>19 DEF W!ReBalance,
       Whole!ReBalance

LEMMA InstancesAgree ==
  /\ W!Init => Whole!Init
  /\ [W!Next]_(W!vars) => [Whole!Next]_(Whole!vars)
  <1>1. W!Keys = Whole!Keys
    BY DEF W!Keys, Whole!Keys
  <1>2. UNCHANGED W!vars => UNCHANGED Whole!vars
    BY DEF W!vars, Whole!vars, W!storeVars, Whole!storeVars, W!ctlVars, Whole!ctlVars, W!loopVars,
           Whole!loopVars
  <1> QED
    BY <1>1, <1>2, ActionsAgree DEF W!Next, Whole!Next

-----------------------------------------------------------------------------
(* The refinement.                                                         *)

\* While no process ends, the control node's requests to the store nodes and its
\* writes of the metadata, one by one, are the steps of Cluster: the constructor
\* that fills the metadata entry by entry, the entries that are deleted before
\* they are put, and the requests whose answers are read from one buffer.
THEOREM RequestsAreCluster ==
  ASSUME MaxFaults = 0
  PROVE  FaultsSpec => ImplementsCluster
  <1> DEFINE VInv == UInv /\ life \in Nat \ {0}
  <1>1. FaultsInit => VInv /\ W!Init
    BY FaultsInitKeeps, StartsLinked, ClusterStarts DEF FaultsInit, UInv, StoresStay
  <1>2. VInv /\ [FaultsNext]_allVars => VInv' /\ [W!Next]_(W!vars)
    <2> SUFFICES ASSUME VInv, [FaultsNext]_allVars
                 PROVE  VInv' /\ [W!Next]_(W!vars)
      OBVIOUS
    <2>1. FInv' /\ faults' \in Nat /\ life' \in Nat \ {0}
      BY FaultsNextKeeps, Counts DEF UInv, StoresStay
    <2>2. ~ControlEnds
      BY DEF ControlEnds, UInv, StoresStay
    <2>3. Linked' /\ [W!Next]_(W!vars)
      BY <2>2, UpSteps
    <2>4. W!MInv'
      BY <2>3, ClusterSteps DEF UInv
    <2> QED
      BY <2>1, <2>3, <2>4 DEF UInv, StoresStay
  <1> QED
    BY <1>1, <1>2, InstancesAgree, PTL DEF FaultsSpec, ImplementsCluster, Whole!Spec

-----------------------------------------------------------------------------
(* The end of the control node.                                            *)

\* The request in the buffer of a store node has been served and changes nothing
\* when it is served again.
Repeatable ==
  \A n \in Nodes :
    /\ last[n].cmd # "dlg"
    /\ last[n].cmd = "log" => last[n].entry \in log[n]
    /\ last[n].cmd = "CLG" => log[n] = {}

LEMMA ServedAgain ==
  ASSUME Stores, Repeatable, NEW n \in Nodes, Serve(n, last[n])
  PROVE  UNCHANGED <<data, size, log, last>>
  <1> DEFINE r == last[n]
  <1>1. r.cmd # "dlg" /\ (r.cmd = "log" => r.entry \in log[n]) /\ (r.cmd = "CLG" => log[n] = {})
    BY DEF Repeatable
  <1>2. /\ data = [x \in Nodes |-> data[x]] /\ size \in [Nodes -> Nat]
        /\ log \in [Nodes -> SUBSET Entries] /\ last = [x \in Nodes |-> last[x]]
    BY DEF Stores
  <1>3. last' = last
    <2>1. last' = [last EXCEPT ![n] = last[n]]
      BY DEF Serve
    <2> QED
      BY <1>2, <2>1
  <1>4. CASE r.cmd = "CLG"
    <2>1. /\ CommitData(data[n], log[n]) = data[n] /\ ClearLog(log[n]) = log[n]
          /\ CommitSize(data[n], size[n], log[n]) = size[n]
      BY <1>1, <1>4 DEF CommitData, CommitSize, ClearLog
    <2>2. /\ data' = [data EXCEPT ![n] = data[n]] /\ size' = [size EXCEPT ![n] = size[n]]
          /\ log' = [log EXCEPT ![n] = log[n]]
      BY <1>4, <2>1 DEF Serve
    <2> QED
      BY <1>2, <1>3, <2>2
  <1>5. CASE r.cmd = "log"
    <2>1. log' = [log EXCEPT ![n] = log[n] \cup {r.entry}] /\ UNCHANGED <<data, size>>
      BY <1>5 DEF Serve
    <2>2. log[n] \cup {r.entry} = log[n]
      BY <1>1, <1>5
    <2>3. log' = [log EXCEPT ![n] = log[n]]
      BY <2>1, <2>2
    <2> QED
      BY <1>2, <1>3, <2>1, <2>3
  <1>6. CASE r.cmd \notin {"CLG", "log"}
    <2>1. UNCHANGED <<data, size, log>>
      BY <1>1, <1>6 DEF Serve
    <2> QED
      BY <1>3, <2>1
  <1> QED
    BY <1>4, <1>5, <1>6

\* A request that was answered is one that may be repeated.
LEMMA ServedOnce ==
  ASSUME Stores, Repeatable, NEW n \in Nodes, NEW r, Serve(n, r), r.cmd # "dlg",
         r.cmd = "CLG" => \E e : log[n] = {e}
  PROVE  Repeatable'
  <1>1. log \in [Nodes -> SUBSET Entries] /\ last = [x \in Nodes |-> last[x]]
    BY DEF Stores
  <1>2. last' = [last EXCEPT ![n] = r]
    BY DEF Serve
  <1>3. last'[n] = r /\ \A x \in Nodes : x # n => last'[x] = last[x]
    BY <1>1, <1>2
  <1>4. \A x \in Nodes : x # n => log'[x] = log[x]
    BY <1>1 DEF Serve
  <1>5. r.cmd = "log" => r.entry \in log'[n]
    BY <1>1 DEF Serve
  <1>6. r.cmd = "CLG" => log'[n] = {}
    <2> SUFFICES ASSUME r.cmd = "CLG"
                 PROVE  log'[n] = {}
      OBVIOUS
    <2>1. PICK e : log[n] = {e}
      OBVIOUS
    <2>2. ClearLog(log[n]) = {}
      BY <2>1, OneEntry
    <2>3. log' = [log EXCEPT ![n] = ClearLog(log[n])]
      BY DEF Serve
    <2> QED
      BY <1>1, <2>2, <2>3
  <1> QED
    BY <1>3, <1>4, <1>5, <1>6 DEF Repeatable

\* What COMMIT_LOG of the control node finds at the node it goes to.
LEMMA OnePending ==
  ASSUME UInv
  PROVE  /\ pc = "commit" => \E e : log[fd] = {e}
         /\ pc = "commitSource" => \E e : log[node] = {e}
         /\ pc = "commitPeer" => \E e : log[Peer] = {e}
  <1>1. W!IInv
    BY DEF UInv, W!MInv
  <1>2. W!LogsArePending /\ W!TypeOK /\ W!Position
    BY <1>1 DEF W!IInv
  <1>3. W!Peer = Peer /\ W!Nodes = Nodes
    BY SameMeta, SameDb
  <1>4. \A n \in Nodes : log[n] = W!Pending(n)
    BY <1>2, <1>3 DEF W!LogsArePending
  <1>5. pc \in {"commit", "commitSource", "commitPeer"} =>
          WholePc = pc /\ WholeFd = fd /\ WholeReq = req /\ WholeMig = mig
    BY DEF WholePc, WholeFd, WholeReq, WholeMig
  <1>6. ASSUME pc \in {"commitSource", "commitPeer"}
        PROVE  node \in Nodes /\ Peer \in Nodes /\ Peer # node
    BY <1>6, PeerIsNode DEF UInv, FInv, Place, Control
  <1>7. ASSUME pc = "commit"
        PROVE  \E e : log[fd] = {e}
    <2>1. fd \in Nodes
      BY DEF UInv, FInv, Control
    <2>2. log[fd] = {req}
      BY <1>4, <1>5, <1>7, <2>1 DEF W!Pending
    <2> QED
      BY <2>2
  <1>8. ASSUME pc = "commitSource"
        PROVE  \E e : log[node] = {e}
    <2>1. log[node] = {W!DeleteEntry(mig.key)}
      BY <1>3, <1>4, <1>5, <1>6, <1>8 DEF W!Pending
    <2> QED
      BY <2>1
  <1>9. ASSUME pc = "commitPeer"
        PROVE  \E e : log[Peer] = {e}
    <2>1. log[Peer] = {W!PutEntry(mig.key, mig.val)}
      BY <1>3, <1>4, <1>5, <1>6, <1>9 DEF W!Pending
    <2> QED
      BY <2>1
  <1> QED
    BY <1>7, <1>8, <1>9

\* A request while the control node is up.
LEMMA ExchangeRepeats ==
  ASSUME UInv, Repeatable, NEW n \in Nodes, NEW r, NEW a, Exchange(n, r, a), r.cmd # "dlg",
         r.cmd = "CLG" => \E e : log[n] = {e}
  PROVE  Repeatable'
  <1>1. Serve(n, r)
    BY AllAnswered DEF UInv
  <1> QED
    BY <1>1, ServedOnce DEF UInv, FInv

LEMMA UpRepeats ==
  ASSUME UInv, Repeatable, [FaultsNext]_allVars
  PROVE  Repeatable'
  <1>1. ASSUME UNCHANGED <<last, log>>
        PROVE  Repeatable'
    BY <1>1 DEF Repeatable
  <1>2. /\ \A e : Request("log", e).cmd = "log"
        /\ Request("CLG", NoEntry).cmd = "CLG" /\ Request(READ, NoEntry).cmd = "read"
    BY DEF Request, READ
  <1>3. ASSUME NEW n \in Nodes, NEW a, Ask(n, a)
        PROVE  Repeatable'
    BY <1>2, <1>3, ExchangeRepeats DEF Ask
  <1>4. ASSUME NEW n \in Nodes, NEW e, Log(n, e)
        PROVE  Repeatable'
    BY <1>2, <1>4, ExchangeRepeats DEF Log
  <1>5. ASSUME NEW n \in Nodes, CommitLog(n), \E e : log[n] = {e}
        PROVE  Repeatable'
    BY <1>2, <1>5, ExchangeRepeats DEF CommitLog
  <1>6. ASSUME NEW e, Command(e), e.key \in Keys
        PROVE  Repeatable'
    <2> DEFINE n == meta[SmallerOrEqual(meta, e.key)].fd
    <2>1. pc = "idle" /\ Log(n, e)
      BY <1>6 DEF Command
    <2>2. n \in Nodes
      BY <1>6, <2>1, Addressed DEF UInv
    <2> HIDE DEF n
    <2> QED
      BY <1>4, <2>1, <2>2
  <1>7. \A k, v : PutEntry(k, v).key = k /\ DeleteEntry(k).key = k
    BY DEF PutEntry, DeleteEntry
  <1>8. ASSUME NEW n \in Nodes, NEW a,
               \/ Answered(n, Request(READ, NoEntry), a)
               \/ DiesServing(n, Request(READ, NoEntry)) \/ Unanswered(n)
        PROVE  Repeatable'
    BY <1>3, <1>8 DEF Ask, Exchange
  <1>9. ASSUME NEW k \in Keys, AskGet(k)
        PROVE  Repeatable'
    <2> DEFINE n == Route(k)
               a == TextAnswer(ValLen[DbGet(data[n], k)] + 1, DbGet(data[n], k) \in OkVals)
    <2>1. pc = "idle"
      BY <1>9 DEF AskGet
    <2>2. n \in Nodes
      BY <2>1, Addressed DEF UInv
    <2>3. \/ Answered(n, Request(READ, NoEntry), a)
          \/ DiesServing(n, Request(READ, NoEntry)) \/ Unanswered(n)
      BY <1>9 DEF AskGet
    <2> HIDE DEF n, a
    <2> QED
      BY <1>8, <2>2, <2>3
  <1>10. CASE PickKey
    <2> DEFINE a == TextAnswer(KeyLen[Outermost] + 1, Outermost \in OkKeys)
    <2>1. node \in Nodes
      BY <1>10, Addressed DEF UInv, PickKey
    <2>2. \/ Answered(node, Request(READ, NoEntry), a)
          \/ DiesServing(node, Request(READ, NoEntry)) \/ Unanswered(node)
      BY <1>10 DEF PickKey, Outermost
    <2> HIDE DEF a
    <2> QED
      BY <1>8, <2>1, <2>2
  <1>11. CASE AskSize \/ CheckShare \/ CheckSpare
    <2>1. node \in Nodes /\ \E a : Ask(node, a)
      BY <1>11, Addressed DEF UInv, AskSize, CheckShare, CheckSpare
    <2> QED
      BY <1>3, <2>1
  <1>12. CASE Show
    <2> DEFINE n == meta[cursor].fd
    <2>1. n \in Nodes /\ \E a : Ask(n, a)
      BY <1>12, Addressed DEF UInv, Show
    <2> HIDE DEF n
    <2> QED
      BY <1>3, <2>1
  <1>13. CASE TryLogSource \/ TryLogPeer
    <2> DEFINE p == Peer
    <2>1. \E n \in Nodes : \E e : Log(n, e)
      <3>1. CASE TryLogSource
        BY <3>1, Addressed DEF UInv, TryLogSource
      <3>2. CASE TryLogPeer
        BY <3>2, Addressed DEF UInv, TryLogPeer
      <3> QED
        BY <1>13, <3>1, <3>2
    <2> QED
      BY <1>4, <2>1
  <1>14. CASE CommitCommand \/ TryCommitSource \/ TryCommitPeer
    <2>1. \E n \in Nodes : CommitLog(n) /\ \E e : log[n] = {e}
      <3>1. CASE CommitCommand
        BY <3>1, Addressed, OnePending DEF UInv, CommitCommand
      <3>2. CASE TryCommitSource
        BY <3>2, Addressed, OnePending DEF UInv, TryCommitSource
      <3>3. CASE TryCommitPeer
        BY <3>3, Addressed, OnePending DEF UInv, TryCommitPeer
      <3> QED
        BY <1>14, <3>1, <3>2, <3>3
    <2> QED
      BY <1>5, <2>1
  <1>15. CASE EditMeta \/ Tell \/ EnterReBalance \/ PlanEdits \/ BeginShow
              \/ ((EnterUp \/ EnterDown) /\ UNCHANGED faultVars)
    BY <1>1, <1>15 DEF EditMeta, Tell, EnterReBalance, PlanEdits, BeginShow, EnterUp, EnterDown,
       storeVars, netVars, storeLife, faultVars
  <1>16. CASE UNCHANGED allVars
    BY <1>1, <1>16 DEF allVars, vars, storeVars, faultVars, netVars, storeLife
  <1>17. CASE ControlGone
    BY <1>1, <1>17 DEF ControlGone, storeVars
  <1>18. ~UndoSource /\ ~UndoPeer /\ ~Start
    BY DEF UndoSource, UndoPeer, Start, UInv, Linked
  <1>19. \A n \in Nodes : ~StoreEnds(n) /\ ~StoreReplays(n) /\ ~StoreStops(n)
    BY BoundsAssumption DEF StoreEnds, StoreReplays, StoreStops, UInv, Linked, StoresStay
  <1> QED
    BY <1>6, <1>7, <1>9, <1>10, <1>11, <1>12, <1>13, <1>14, <1>15, <1>16, <1>17, <1>18, <1>19,
       StepsOf

\* Once the control node is gone and nothing is started again, the store nodes
\* only repeat what they have done.
LEMMA DownSteps ==
  ASSUME FInv, StoresStay, Repeatable, life \in Nat \ {0}, MaxLives = 1, pc = "down",
         [FaultsNext]_allVars
  PROVE  UNCHANGED <<meta, data, log, req, mig, edits, told, pc>> /\ Repeatable'
  <1>1. ASSUME UNCHANGED <<last, log>>
        PROVE  Repeatable'
    BY <1>1 DEF Repeatable
  <1>2. CASE UNCHANGED allVars
    BY <1>1, <1>2 DEF allVars, vars, storeVars, ctlVars, faultVars, netVars, storeLife, localVars
  <1>3. ASSUME NEW n \in Nodes, StoreReplays(n)
        PROVE  UNCHANGED <<meta, data, log, req, mig, edits, told, pc>> /\ Repeatable'
    <2>1. Serve(n, last[n]) /\ UNCHANGED <<meta, req, mig, edits, told, pc>>
      BY <1>3 DEF StoreReplays, ctlVars, localVars
    <2>2. UNCHANGED <<data, size, log, last>>
      BY <2>1, ServedAgain DEF FInv
    <2> QED
      BY <1>1, <2>1, <2>2
  <1>4. ASSUME NEW n \in Nodes, StoreStops(n)
        PROVE  UNCHANGED <<meta, data, log, req, mig, edits, told, pc>> /\ Repeatable'
    BY <1>1, <1>4 DEF StoreStops, vars, storeVars, ctlVars, localVars
  <1>5. \A n \in Nodes : ~StoreEnds(n)
    BY BoundsAssumption DEF StoreEnds, StoresStay
  <1>6. ~Start
    BY DEF Start
  <1>7. ~NewCommand /\ ~ControlEnds
    BY DEF NewCommand, TryPut, TryDel, Command, AskGet, ControlEnds
  <1>8. ~Crash
    <2>1. Target = {}
      BY DEF Target
    <2> QED
      BY <2>1 DEF Crash
  <1>9. ~Finishing
    BY <1>8 DEF Finishing, EditMeta, CommitCommand, Tell, EnterReBalance, AskSize, EnterUp,
       EnterDown, CheckShare, CheckSpare, PickKey, TryLogSource, TryLogPeer, UndoSource, UndoPeer,
       PlanEdits, TryCommitSource, TryCommitPeer, BeginShow, Show
  <1> QED
    BY <1>2, <1>3, <1>4, <1>5, <1>6, <1>7, <1>9 DEF FaultsNext

\* The inductive invariant of one life of the control node: as long as it is up
\* it is where Cluster is, and what it leaves behind stays.
OneLife ==
  /\ FInv /\ StoresStay /\ life \in Nat \ {0} /\ Repeatable
  /\ pc # "down" => Linked /\ W!MInv

LEMMA OneLifeStep ==
  ASSUME MaxLives = 1, OneLife, [FaultsNext]_allVars
  PROVE  /\ OneLife'
         /\ pc' = "down" => UNCHANGED <<meta, data, log, req, mig, edits, told>>
         /\ pc' # "down" => UInv /\ [W!Next]_(W!vars)
  <1>1. FInv' /\ StoresStay' /\ life' \in Nat \ {0}
    BY FaultsNextKeeps, Counts DEF OneLife, StoresStay
  <1>2. CASE pc = "down"
    <2>1. UNCHANGED <<meta, data, log, req, mig, edits, told, pc>> /\ Repeatable'
      BY <1>2, DownSteps DEF OneLife
    <2> QED
      BY <1>1, <1>2, <2>1 DEF OneLife
  <1>3. CASE pc # "down"
    <2>1. UInv /\ Repeatable
      BY <1>3 DEF OneLife, UInv
    <2>2. Repeatable'
      BY <2>1, UpRepeats
    <2>3. CASE ControlEnds
      <3>1. pc' = "down" /\ UNCHANGED <<meta, data, log, req, mig, edits, told>>
        BY <2>3 DEF ControlEnds, ControlGone, storeVars, ctlVars, localVars
      <3> QED
        BY <1>1, <2>2, <3>1 DEF OneLife
    <2>4. CASE Linked' /\ [W!Next]_(W!vars)
      <3>1. W!MInv' /\ pc' # "down"
        BY <2>1, <2>4, ClusterSteps DEF UInv, Linked
      <3> QED
        BY <1>1, <2>1, <2>2, <2>4, <3>1 DEF OneLife
    <2> QED
      BY <2>1, <2>3, <2>4, UpSteps
  <1> QED
    BY <1>2, <1>3

LEMMA OneLifeStart == ~StoresEnd /\ FaultsInit => OneLife /\ pc # "down"
  <1> SUFFICES ASSUME ~StoresEnd, FaultsInit
               PROVE  OneLife /\ pc # "down"
    OBVIOUS
  <1>1. FInv /\ Linked /\ W!MInv
    BY FaultsInitKeeps, StartsLinked, ClusterStarts
  <1>2. faults = 0 /\ life = 1 /\ pc = "edit" /\ \A n \in Nodes : last[n].cmd = "none"
    BY DEF FaultsInit, Request
  <1> QED
    BY <1>1, <1>2 DEF OneLife, StoresStay, Repeatable

\* For one life of the control node, ended anywhere.
THEOREM InductiveEnds ==
  ASSUME ~StoresEnd, MaxLives = 1
  PROVE  FaultsSpec => []OneLife
  <1>1. OneLife /\ [FaultsNext]_allVars => OneLife'
    BY OneLifeStep
  <1> QED
    BY <1>1, OneLifeStart, PTL DEF FaultsSpec

\* Wherever the control node ends, and however often the store nodes then repeat
\* their last request, no key is at two nodes.
THEOREM MovesNeverCopy ==
  ASSUME ~StoresEnd, MaxLives = 1
  PROVE  FaultsSpec => []MovedNotCopied
  <1> DEFINE Down == pc = "down"
  <1>1. OneLife => Down \/ MovedNotCopied
    <2> SUFFICES ASSUME OneLife, pc # "down"
                 PROVE  MovedNotCopied
      OBVIOUS
    <2>1. W!IInv /\ W!Owned
      BY DEF OneLife, W!MInv
    <2>2. W!Disjoint
      BY <2>1, InstanceAssumptions, W!OwnedDisjoint
    <2> QED
      BY <2>2, SameDb DEF W!Disjoint, MovedNotCopied
  <1>2. OneLife /\ MovedNotCopied /\ [FaultsNext]_allVars /\ Down' => MovedNotCopied'
    BY OneLifeStep DEF MovedNotCopied
  <1>3. FaultsInit => ~Down
    BY OneLifeStart
  <1> HIDE DEF Down
  <1> QED
    BY <1>1, <1>2, <1>3, InductiveEnds, PTL DEF FaultsSpec

-----------------------------------------------------------------------------
(* What the client was told.                                               *)

\* The client has been told of every command performed, but for the one whose
\* COMMIT_LOG was answered last.
Agreed ==
  IF pc = "tell" THEN W!ClientMap = DataAfter(told, req) ELSE told = W!ClientMap

\* A command or a migration that the logs hold does not hide what the client was
\* told of the other keys.
LEMMA AgreedKeeps ==
  ASSUME UInv, W!MapIsWhole, Agreed
  PROVE  ToldIsKept
  <1> DEFINE cm == W!ClientMap
  <1> SUFFICES ASSUME NEW k \in Keys, req = Idle \/ req.key # k
               PROVE  Copies(k) = IF k \in DOMAIN told THEN {told[k]} ELSE {}
    BY DEF ToldIsKept
  <1>1. W!LogsArePending /\ W!Position /\ W!Chosen /\ W!Owned /\ W!TypeOK
    BY DEF UInv, W!MInv, W!IInv, W!Moving
  <1>2. W!Nodes = Nodes /\ W!Peer = Peer /\ W!PUT = PUT
    BY SameDb, SameMeta
  <1>3. ASSUME NEW x
        PROVE  x \in DOMAIN cm <=> \/ \E n \in Nodes : x \in DOMAIN data[n]
                                   \/ WholePc = "commitPeer" /\ x = WholeMig.key
    <2>1. DOMAIN cm = W!Stored \cup W!Flying
      BY DEF W!MapIsWhole
    <2>2. x \in W!Stored <=> \E n \in Nodes : x \in DOMAIN data[n]
      BY <1>2 DEF W!Stored
    <2>3. x \in W!Flying <=> WholePc = "commitPeer" /\ x = WholeMig.key
      BY DEF W!Flying
    <2> QED
      BY <2>1, <2>2, <2>3
  <1>4. /\ \A n \in Nodes : \A x \in DOMAIN data[n] : cm[x] = data[n][x]
        /\ WholePc = "commitPeer" => cm[WholeMig.key] = WholeMig.val
    BY <1>2 DEF W!MapIsWhole
  <1>5. \A n \in Nodes : log[n] = W!Pending(n)
    BY <1>1, <1>2 DEF W!LogsArePending
  <1>6. WholePc = "commit" => req # Idle /\ WholeReq = req
    BY DEF WholePc, WholeReq, UInv, FInv, Acked, Constructing
  <1> HIDE DEF cm
  <1>7. ASSUME NEW n \in Nodes, NEW e \in log[n], e.kind = PUT, e.key = k
        PROVE  k \in DOMAIN cm /\ cm[k] = e.val
    <2>1. /\ e = W!PutEntry(WholeMig.key, WholeMig.val)
          /\ WholePc \in {"meta", "commitSource", "commitPeer"}
      BY <1>2, <1>5, <1>6, <1>7 DEF W!Pending, W!DeleteEntry, W!DELETE, PUT
    <2>2. k = WholeMig.key /\ e.val = WholeMig.val
      BY <1>7, <2>1 DEF W!PutEntry
    <2>3. CASE WholePc = "commitPeer"
      BY <1>3, <1>4, <2>2, <2>3
    <2>4. CASE WholePc \in {"meta", "commitSource"}
      <3>1. node \in Nodes /\ k \in DOMAIN data[node] /\ WholeMig.val = data[node][k]
        BY <1>1, <1>2, <2>2, <2>4 DEF W!Chosen, W!Owned, W!Position
      <3> QED
        BY <1>3, <1>4, <2>2, <3>1
    <2> QED
      BY <2>1, <2>3, <2>4
  <1>8. ASSUME k \in DOMAIN cm, \A n \in Nodes : k \notin DOMAIN data[n]
        PROVE  \E n \in Nodes : \E e \in log[n] : e.kind = PUT /\ e.key = k /\ e.val = cm[k]
    <2>1. WholePc = "commitPeer" /\ k = WholeMig.key /\ cm[k] = WholeMig.val
      BY <1>3, <1>4, <1>8
    <2>2. pc = "commitPeer"
      BY <2>1 DEF WholePc
    <2>3. Peer \in Nodes
      BY <2>2, PeerIsNode DEF UInv, FInv, Place, Control
    <2>4. W!PutEntry(WholeMig.key, WholeMig.val) \in log[Peer]
      BY <1>2, <1>5, <2>1, <2>3 DEF W!Pending
    <2> QED
      BY <1>2, <2>1, <2>3, <2>4 DEF W!PutEntry
  <1>9. \A v : v \in Copies(k) <=>
                 \/ \E n \in Nodes : k \in DOMAIN data[n] /\ v = data[n][k]
                 \/ \E n \in Nodes : \E e \in log[n] : e.kind = PUT /\ e.key = k /\ v = e.val
    <2> DEFINE held(n) == {data[n][x] : x \in DOMAIN data[n] \cap {k}}
               logged(n) == {e \in log[n] : e.kind = PUT /\ e.key = k}
               vals(n) == {e.val : e \in logged(n)}
    <2>1. Copies(k) = (UNION {held(n) : n \in Nodes})
                        \cup (UNION {vals(n) : n \in Nodes})
      BY DEF Copies
    <2>2. \A v, n : v \in held(n) <=> k \in DOMAIN data[n] /\ v = data[n][k]
      OBVIOUS
    <2>3. \A v, n : v \in vals(n) <=>
                      \E e \in log[n] : e.kind = PUT /\ e.key = k /\ v = e.val
      OBVIOUS
    <2> HIDE DEF held, logged, vals
    <2>4. \A v : v \in Copies(k) <=> \/ \E n \in Nodes : v \in held(n)
                                   \/ \E n \in Nodes : v \in vals(n)
      BY <2>1
    <2> QED
      BY <2>2, <2>3, <2>4
  <1>10. Copies(k) = IF k \in DOMAIN cm THEN {cm[k]} ELSE {}
    BY <1>3, <1>4, <1>7, <1>8, <1>9
  <1>11. /\ k \in DOMAIN cm <=> k \in DOMAIN told
         /\ k \in DOMAIN told => cm[k] = told[k]
    <2>1. CASE pc # "tell"
      BY <2>1 DEF Agreed, cm
    <2>2. CASE pc = "tell"
      <3>1. req.key # k
        BY <2>2 DEF UInv, FInv, Acked
      <3>2. cm = DataAfter(told, req)
        BY <2>2 DEF Agreed, cm
      <3>3. /\ DOMAIN DataAfter(told, req) = IF req.kind = PUT THEN DOMAIN told \cup {req.key}
                                                              ELSE DOMAIN told \ {req.key}
            /\ \A x \in DOMAIN told : x # req.key => DataAfter(told, req)[x] = told[x]
        BY DEF DataAfter, DbPut, DbDelete
      <3> QED
        BY <3>1, <3>2, <3>3
    <2> QED
      BY <2>1, <2>2
  <1> QED
    BY <1>10, <1>11

LEMMA AgreedStep ==
  ASSUME UInv, Agreed, W!MapIsWhole, W!MapIsWhole', [FaultsNext]_allVars, pc' # "down"
  PROVE  Agreed'
  <1>1. ASSUME UNCHANGED <<data, told>>,
               pc \notin {"tell", "commitPeer"}, pc' \notin {"tell", "commitPeer"}
        PROVE  Agreed'
    <2>1. WholePc # "commitPeer" /\ WholePc' # "commitPeer"
      BY <1>1 DEF WholePc
    <2>2. W!ClientMap' = W!ClientMap
      BY <1>1, <2>1 DEF W!ClientMap
    <2> QED
      BY <1>1, <2>2 DEF Agreed
  <1>2. ASSUME NEW n \in Nodes, NEW a,
               \/ Answered(n, Request(READ, NoEntry), a)
               \/ DiesServing(n, Request(READ, NoEntry)) \/ Unanswered(n)
        PROVE  data' = data
    BY <1>2, AskAnswered DEF Ask, Exchange, UInv
  <1>3. ASSUME NEW e, Applicable(e), Command(e)
        PROVE  Agreed'
    <2> DEFINE n == meta[SmallerOrEqual(meta, e.key)].fd
    <2>1. LogAt(n, e) /\ pc = "idle" /\ pc' = "edit" /\ told' = told
      BY <1>3, CommandLinks
    <2> HIDE DEF n
    <2> QED
      BY <1>1, <2>1 DEF LogAt
  <1>4. ASSUME NEW k \in Keys, AskGet(k)
        PROVE  Agreed'
    <2> DEFINE n == Route(k)
               a == TextAnswer(ValLen[DbGet(data[n], k)] + 1, DbGet(data[n], k) \in OkVals)
    <2>1. pc = "idle" /\ pc' = pc /\ told' = told
      BY <1>4 DEF AskGet, localVars
    <2>2. n \in Nodes
      BY <2>1, Addressed DEF UInv
    <2>3. \/ Answered(n, Request(READ, NoEntry), a)
          \/ DiesServing(n, Request(READ, NoEntry)) \/ Unanswered(n)
      BY <1>4 DEF AskGet
    <2> HIDE DEF n, a
    <2> QED
      BY <1>1, <1>2, <2>1, <2>2, <2>3
  <1>5. CASE PickKey
    <2> DEFINE a == TextAnswer(KeyLen[Outermost] + 1, Outermost \in OkKeys)
    <2>1. node \in Nodes /\ pc = "pick" /\ pc' = "logSource" /\ told' = told
      BY <1>5, Addressed DEF UInv, PickKey, localVars
    <2>2. \/ Answered(node, Request(READ, NoEntry), a)
          \/ DiesServing(node, Request(READ, NoEntry)) \/ Unanswered(node)
      BY <1>5 DEF PickKey, Outermost
    <2> HIDE DEF a
    <2> QED
      BY <1>1, <1>2, <2>1, <2>2
  <1>6. CASE AskSize \/ CheckShare \/ CheckSpare \/ Show
    <2>1. \E n \in Nodes : \E a : Ask(n, a)
      <3>1. CASE AskSize \/ CheckShare \/ CheckSpare
        BY <3>1, Addressed DEF UInv, AskSize, CheckShare, CheckSpare
      <3>2. CASE Show
        BY <3>2, Addressed DEF UInv, Show
      <3> QED
        BY <1>6, <3>1, <3>2
    <2>2. data' = data
      BY <2>1, AskAnswered DEF UInv
    <2>3. /\ pc \in {"sum", "loop", "spare", "show"} /\ told' = told
          /\ pc' \in {"sum", "loop", "spare", "pick", "show", "idle"}
      BY <1>6 DEF AskSize, CheckShare, CheckSpare, Show, localVars
    <2> QED
      BY <1>1, <2>2, <2>3
  <1>7. CASE TryLogSource \/ TryLogPeer
    <2>1. \E n \in Nodes : \E e : Log(n, e)
      <3>1. CASE TryLogSource
        BY <3>1, Addressed DEF UInv, TryLogSource
      <3>2. CASE TryLogPeer
        BY <3>2, Addressed DEF UInv, TryLogPeer
      <3> QED
        BY <1>7, <3>1, <3>2
    <2>2. data' = data
      BY <2>1, LogAnswered DEF UInv, LogAt
    <2>3. /\ pc \in {"logSource", "logPeer"} /\ told' = told
          /\ pc' \in {"logPeer", "meta", "undoSource"}
      BY <1>7 DEF TryLogSource, TryLogPeer
    <2> QED
      BY <1>1, <2>2, <2>3
  <1>8. CASE EditMeta \/ EnterReBalance \/ PlanEdits \/ BeginShow
             \/ ((EnterUp \/ EnterDown) /\ UNCHANGED faultVars)
    <2>1. /\ pc \in {"edit", "enter", "meta", "loop", "sum"} /\ UNCHANGED <<data, told>>
          /\ pc' \in {"edit", "idle", "commit", "commitSource", "sum", "show", "loop"}
      BY <1>8 DEF EditMeta, EnterReBalance, PlanEdits, BeginShow, EnterUp, EnterDown, storeVars,
                  localVars, faultVars
    <2> QED
      BY <1>1, <2>1
  <1>9. CASE Tell
    <2>1. /\ pc = "tell" /\ pc' = "enter" /\ data' = data
          /\ told' = DataAfter(told, req)
      BY <1>9 DEF Tell, storeVars
    <2>2. WholePc # "commitPeer" /\ WholePc' # "commitPeer"
      BY <2>1 DEF WholePc
    <2>3. W!ClientMap' = W!ClientMap
      BY <2>1, <2>2 DEF W!ClientMap
    <2> QED
      BY <2>1, <2>3 DEF Agreed
  <1>10. CASE CommitCommand
    <2>1. pc = "commit" /\ pc' = "tell" /\ UNCHANGED <<req, told>> /\ W!Commit /\ W!MInv
      BY <1>10, CommitCommandLinks DEF CommitCommand, ctlVars, localVars, UInv
    <2>2. W!ClientMap' = W!DataAfter(W!ClientMap, WholeReq)
      BY <2>1, InstanceAssumptions, W!CommitPerforms
    <2>3. WholeReq = req
      BY <2>1 DEF WholeReq
    <2>4. W!DataAfter(W!ClientMap, req) = DataAfter(W!ClientMap, req)
      BY DEF W!DataAfter, DataAfter, W!DbPut, DbPut, W!DbDelete, DbDelete, W!PUT, PUT
    <2> QED
      BY <2>1, <2>2, <2>3, <2>4 DEF Agreed
  <1>11. CASE TryCommitSource
    <2>1. /\ pc = "commitSource" /\ pc' = "commitPeer" /\ told' = told /\ W!CommitSource
          /\ W!MInv
      BY <1>11, TryCommitSourceLinks DEF TryCommitSource, UInv
    <2>2. W!ClientMap' = W!ClientMap
      BY <2>1, InstanceAssumptions, W!SourceUnseen
    <2> QED
      BY <2>1, <2>2 DEF Agreed
  <1>12. CASE TryCommitPeer
    <2>1. pc = "commitPeer" /\ pc' = "loop" /\ told' = told /\ W!CommitPeer /\ W!MInv
      BY <1>12, TryCommitPeerLinks DEF TryCommitPeer, UInv
    <2>2. W!ClientMap' = W!ClientMap
      BY <2>1, InstanceAssumptions, W!PeerUnseen
    <2> QED
      BY <2>1, <2>2 DEF Agreed
  <1>13. CASE UNCHANGED allVars
    <2>1. UNCHANGED <<data, told, pc, req, mig>>
      BY <1>13 DEF allVars, vars, storeVars, ctlVars, faultVars, localVars
    <2>2. WholePc' = WholePc /\ WholeMig' = WholeMig
      BY <2>1 DEF WholePc, WholeMig, Constructing
    <2>3. W!ClientMap' = W!ClientMap
      BY <2>1, <2>2 DEF W!ClientMap
    <2> QED
      BY <2>1, <2>3 DEF Agreed
  <1>14. ~UndoSource /\ ~UndoPeer /\ ~Start /\ ~ControlGone
    BY DEF UndoSource, UndoPeer, Start, UInv, Linked, ControlGone
  <1>15. \A n \in Nodes : ~StoreEnds(n) /\ ~StoreReplays(n) /\ ~StoreStops(n)
    BY BoundsAssumption DEF StoreEnds, StoreReplays, StoreStops, UInv, Linked, StoresStay
  <1>16. \A k \in Keys : Applicable(DeleteEntry(k)) /\ \A v \in Values : Applicable(PutEntry(k, v))
    BY PutApplicable, DeleteApplicable
  <1> QED
    BY <1>3, <1>4, <1>5, <1>6, <1>7, <1>8, <1>9, <1>10, <1>11, <1>12, <1>13, <1>14, <1>15, <1>16,
       StepsOf

\* Wherever the control node ends, every key but that of the command it was
\* serving is at a node, or in a log on its way there, with the value the client
\* was told: no migration that is cut off loses or brings back anything.
THEOREM ToldStaysKept ==
  ASSUME ~StoresEnd, MaxLives = 1
  PROVE  FaultsSpec => []ToldIsKept
  <1> DEFINE Down == pc = "down"
  <1>1. OneLife => Down \/ UInv
    BY DEF OneLife, UInv
  <1>2. UInv => W!MapIsWhole
    BY InstanceAssumptions, W!MapFacts DEF UInv, W!MInv
  <1>3. FaultsInit => Agreed /\ ~Down
    <2> SUFFICES ASSUME FaultsInit
                 PROVE  Agreed /\ ~Down
      OBVIOUS
    <2>1. /\ pc = "edit" /\ req = Idle /\ mig = NoMigration /\ told = [k \in {} |-> EmptyStr]
          /\ \A n \in Nodes : DOMAIN data[n] = {}
      BY DEF FaultsInit
    <2>2. WholePc = "idle" /\ W!Nodes = Nodes
      BY <2>1, SameDb DEF WholePc, Constructing
    <2>3. UNION {DOMAIN data[n] : n \in W!Nodes} = {}
      BY <2>1, <2>2
    <2>4. W!ClientMap = [k \in {} |-> EmptyStr]
      BY <2>2, <2>3 DEF W!ClientMap
    <2> QED
      BY <2>1, <2>4 DEF Agreed
  <1>4. OneLife /\ [FaultsNext]_allVars /\ ~Down' => UInv /\ ~Down
    BY OneLifeStep DEF UInv, Linked
  <1>5. UInv /\ Agreed /\ W!MapIsWhole /\ W!MapIsWhole' /\ [FaultsNext]_allVars /\ ~Down' => Agreed'
    BY AgreedStep
  <1>6. UInv /\ W!MapIsWhole /\ Agreed => ToldIsKept
    BY AgreedKeeps
  <1>7. OneLife /\ ToldIsKept /\ [FaultsNext]_allVars /\ Down' => ToldIsKept'
    <2> SUFFICES ASSUME OneLife, ToldIsKept, [FaultsNext]_allVars, Down'
                 PROVE  ToldIsKept'
      OBVIOUS
    <2>1. UNCHANGED <<data, log, req, told>>
      BY OneLifeStep
    <2> QED
      BY <2>1 DEF ToldIsKept, Copies
  <1> HIDE DEF Down
  <1> QED
    BY <1>1, <1>2, <1>3, <1>4, <1>5, <1>6, <1>7, InductiveEnds, PTL DEF FaultsSpec

-----------------------------------------------------------------------------
(* The metadata between two writes.                                        *)

\* Metadata m is whole, and finds every key of the nodes' data d but x.
Full(m, d, x) ==
  Shape(m) /\ \A n \in Nodes : \A k \in DOMAIN d[n] \ {x} : Cover(m, n, k)

\* ... or lacks one entry.
Half(m, d, x) == \E f, at : Full(f, d, x) /\ m = DbDelete(f, at)

\* The writes of a command or a migration delete and put in turn, and after each
\* put the metadata is whole.
Staged ==
  pc = "edit" /\ ~Constructing =>
    LET l == Len(edits)
        x == mig.key
    IN  /\ l \in {1, 2, 3, 4}
        /\ l \in {2, 4} => Full(meta, data, x) /\ edits[1].op = "delete"
        /\ l \in {1, 3} => Half(meta, data, x)
        /\ l = 3 => edits[2].op = "delete" /\ Full(Edited(meta, edits[1]), data, x)
        /\ l = 4 => /\ edits[3].op = "delete"
                    /\ Full(Edited(Edited(meta, edits[1]), edits[2]), data, x)

LEMMA FullIsHalf ==
  ASSUME NEW m, NEW d, NEW x, Full(m, d, x)
  PROVE  Half(m, d, x)
  <1>1. m = DbDelete(m, EmptyStr)
    BY KeysAreNat DEF Full, Shape, IsDb, DbDelete
  <1> QED
    BY <1>1 DEF Half

\* What LosesOneEntry says of the metadata m.
Knows(m, d, x) ==
  /\ Cardinality(Nodes \ {m[k].fd : k \in DOMAIN m}) <= 1
  /\ \A j, k \in DOMAIN m : j < k => m[j].fd < m[k].fd
  /\ \A b \in DOMAIN m : \A k \in DOMAIN d[m[b].fd] \ {x} :
       m[SmallerOrEqual(m, k)].fd = m[b].fd

\* Metadata that lacks one entry.
LEMMA HalfKnows ==
  ASSUME NEW m, NEW d, NEW x, Half(m, d, x), \A n \in Nodes : DOMAIN d[n] \subseteq Keys
  PROVE  Knows(m, d, x)
  <1> DEFINE known == {m[k].fd : k \in DOMAIN m}
  <1>1. PICK f, at : Full(f, d, x) /\ m = DbDelete(f, at)
    BY DEF Half
  <1>2. Shape(f) /\ DOMAIN f \subseteq Keys /\ \A k \in DOMAIN f : k \in Nat /\ f[k].fd \in Nodes
    BY <1>1, ShapeType, KeysAreNat DEF Full
  <1>3. DOMAIN m = DOMAIN f \ {at} /\ \A k \in DOMAIN m : m[k] = f[k]
    BY <1>1 DEF DbDelete
  <1>4. \A j, k \in DOMAIN m : j < k => m[j].fd < m[k].fd
    BY <1>2, <1>3 DEF Shape
  <1>5. \A n \in Nodes \ known : at \in DOMAIN f /\ n = f[at].fd
    <2> SUFFICES ASSUME NEW n \in Nodes \ known
                 PROVE  at \in DOMAIN f /\ n = f[at].fd
      OBVIOUS
    <2>1. PICK k \in DOMAIN f : f[k].fd = n
      BY <1>2 DEF Shape
    <2>2. k \notin DOMAIN m
      BY <1>3, <2>1
    <2> QED
      BY <1>3, <2>1, <2>2
  <1>6. Cardinality(Nodes \ known) <= 1
    <2>1. CASE Nodes \ known = {}
      <3>1. Cardinality({}) = 0
        BY FS_EmptySet, Zenon
      <3> HIDE DEF known
      <3>2. Cardinality(Nodes \ known) = 0
        BY <2>1, <3>1, Zenon
      <3> QED
        BY <3>2
    <2>2. CASE Nodes \ known # {}
      <3> HIDE DEF known
      <3>1. Nodes \ known = {f[at].fd}
        BY <1>5, <2>2
      <3>2. Cardinality({f[at].fd}) = 1
        BY FS_Singleton, Zenon
      <3>3. Cardinality(Nodes \ known) = 1
        BY <3>1, <3>2, Zenon
      <3> QED
        BY <3>3
    <2> QED
      BY <2>1, <2>2
  <1>7. ASSUME NEW b \in DOMAIN m, NEW k \in DOMAIN d[m[b].fd] \ {x}
        PROVE  m[SmallerOrEqual(m, k)].fd = m[b].fd
    <2> DEFINE n == f[b].fd
    <2>1. b \in DOMAIN f /\ m[b].fd = n /\ n \in Nodes
      BY <1>2, <1>3
    <2>2. k \in Keys /\ k \in Nat /\ Cover(f, n, k)
      BY <1>1, <1>7, <2>1, KeysAreNat DEF Full
    <2>3. PICK a \in DOMAIN f : f[a].fd = n /\ a <= k /\ k <= f[a].max
      BY <2>2 DEF Cover
    <2>4. a = b
      BY <1>2, <2>1, <2>3, FdInjective
    <2>5. ASSUME NEW y \in DOMAIN m, y <= k
          PROVE  y <= b
      <3> SUFFICES ASSUME b < y
                   PROVE  FALSE
        BY <1>2, <1>3
      <3>1. f[b].max < y /\ f[b].max \in Nat
        BY <1>2, <1>3, ShapeType, KeysAreNat DEF Shape
      <3> QED
        BY <1>2, <1>3, <2>2, <2>3, <2>4, <2>5, <3>1
    <2>6. DOMAIN m \subseteq Keys
      BY <1>2, <1>3
    <2>7. SmallerOrEqual(m, k) = b
      BY <2>2, <2>3, <2>4, <2>5, <2>6, LookupOf
    <2> QED
      BY <2>7
  <1> QED
    BY <1>4, <1>6, <1>7 DEF Knows

\* With no write pending, the metadata is whole.
LEMMA WholeIsFull ==
  ASSUME UInv, pc # "edit"
  PROVE  Full(meta, data, mig.key)
  <1>1. MetaAfterEdits = meta
    BY NoneLeft DEF UInv
  <1>2. Shape(meta)
    BY <1>1, WholeShape
  <1>3. ASSUME NEW n \in Nodes, NEW k \in DOMAIN data[n], k # mig.key
        PROVE  Cover(meta, n, k)
    <2>1. ~W!Leaving(n, k)
      BY <1>3 DEF W!Leaving, WholePc, WholeMig
    <2>2. W!Covered /\ W!Nodes = Nodes
      BY SameDb DEF UInv, W!MInv, W!IInv
    <2>3. W!Cover(meta, n, k)
      BY <1>1, <2>1, <2>2 DEF W!Covered
    <2> QED
      BY <2>3 DEF W!Cover, Cover
  <1> QED
    BY <1>2, <1>3 DEF Full

LEMMA StagedLoses ==
  ASSUME UInv, Staged
  PROVE  LosesOneEntry
  <1> SUFFICES ASSUME ~(Constructing /\ edits # <<>>)
               PROVE  LET known == {meta[k].fd : k \in DOMAIN meta}
                      IN  /\ Cardinality(Nodes \ known) <= 1
                          /\ \A j, k \in DOMAIN meta : j < k => meta[j].fd < meta[k].fd
                          /\ \A n \in known : \A k \in DOMAIN data[n] \ {mig.key} : Route(k) = n
    BY DEF LosesOneEntry
  <1>1. Half(meta, data, mig.key)
    <2>1. CASE pc # "edit"
      BY <2>1, WholeIsFull, FullIsHalf
    <2>2. CASE pc = "edit"
      <3>1. ~Constructing
        BY <2>2 DEF UInv, Linked
      <3> QED
        BY <2>2, <3>1, FullIsHalf DEF Staged
    <2> QED
      BY <2>1, <2>2
  <1>2. \A n \in Nodes : DOMAIN data[n] \subseteq Keys
    BY DEF UInv, FInv, Stores, IsDb
  <1>3. /\ Cardinality(Nodes \ {meta[k].fd : k \in DOMAIN meta}) <= 1
        /\ \A j, k \in DOMAIN meta : j < k => meta[j].fd < meta[k].fd
        /\ \A b \in DOMAIN meta : \A k \in DOMAIN data[meta[b].fd] \ {mig.key} :
             Route(k) = meta[b].fd
    <2>1. Knows(meta, data, mig.key)
      BY <1>1, <1>2, HalfKnows
    <2>2. ASSUME NEW b \in DOMAIN meta, NEW k \in DOMAIN data[meta[b].fd] \ {mig.key}
          PROVE  Route(k) = meta[b].fd
      BY <2>1, <2>2 DEF Knows, Route
    <2> QED
      BY <2>1, <2>2, Zenon DEF Knows
  <1> QED
    BY <1>3

LEMMA CommandStaged ==
  ASSUME UInv, NEW e, Applicable(e), Command(e)
  PROVE  Staged'
  <1> DEFINE m == meta[SmallerOrEqual(meta, e.key)]
             n == m.fd
  <1>1. LogAt(n, e) /\ pc = "idle" /\ pc' = "edit" /\ mig' = mig
    BY CommandLinks
  <1>2. meta' = meta /\ \E w : edits' = RekeyEdits(m, w)
    BY <1>1 DEF Command
  <1> HIDE DEF m, n
  <1>3. Full(meta, data, mig.key)
    BY <1>1, WholeIsFull
  <1>4. data' = data
    BY <1>1 DEF LogAt
  <1>5. Full(meta', data', mig'.key)
    BY <1>1, <1>2, <1>3, <1>4
  <1>6. Len(edits') = 2 /\ edits'[1].op = "delete"
    BY <1>2 DEF RekeyEdits, DeleteEdit
  <1> QED
    BY <1>5, <1>6 DEF Staged

LEMMA PlanEditsStaged ==
  ASSUME UInv, PlanEdits
  PROVE  Staged'
  <1> DEFINE at == SmallerOrEqual(meta, mig.key)
             nb == Neighbour(at)
             m == meta[at]
             f == Rebound(m, mig.src)
             r == Rekey(meta, at, f)
             x == mig.key
  <1>1. /\ pc = "meta" /\ UNCHANGED <<meta, data, mig>>
        /\ edits' = RekeyEdits(m, f)
                      \o (IF nb = EmptyStr THEN <<NoEntryEdit>>
                          ELSE RekeyEdits(meta[nb], Rebound(meta[nb], mig.dst)))
    BY DEF PlanEdits, storeVars
  <1>2. /\ at = W!SmallerOrEqual(MetaAfterEdits, WholeMig.key)
        /\ at \in DOMAIN meta /\ nb \in DOMAIN meta
    BY <1>1, Planned
  <1>3. /\ Full(meta, data, x) /\ MetaAfterEdits = meta /\ Shape(meta)
        /\ WholeMig = mig /\ WholePc = "meta"
    BY <1>1, WholeIsFull, NoneLeft DEF UInv, WholeMig, WholePc, Full
  <1> HIDE DEF at, nb
  <1>4. nb # EmptyStr /\ m.min = at
    BY <1>2, <1>3, KeysAreNat DEF Shape, IsDb
  <1>5. PICK o, g : edits' = RekeyEdits(m, f) \o RekeyEdits(o, g)
    BY <1>1, <1>4
  <1>6. Full(r, data, x)
    <2>1. W!IInv
      BY DEF UInv, W!MInv
    <2>2. /\ W!Shape(W!Rekey(meta, at, W!Rebound(m, mig.src)))
          /\ \A n \in W!Nodes : \A y \in DOMAIN data[n] \ {x} :
               W!Cover(W!Rekey(meta, at, W!Rebound(m, mig.src)), n, y)
      BY <1>2, <1>3, <2>1, InstanceAssumptions, W!FirstRekey
    <2>3. W!Rekey(meta, at, W!Rebound(m, mig.src)) = r /\ W!Nodes = Nodes
      BY SameMeta, SameDb
    <2> HIDE DEF r
    <2>4. W!Shape(r) /\ \A n \in Nodes : \A y \in DOMAIN data[n] \ {x} : W!Cover(r, n, y)
      BY <2>2, <2>3
    <2>5. Shape(r)
      BY <2>4 DEF W!Shape, Shape, W!IsDb, IsDb, W!MetaEntries, MetaEntries, W!Nodes, Nodes, W!Keys,
         Keys
    <2>6. \A n \in Nodes : \A y \in DOMAIN data[n] \ {x} : Cover(r, n, y)
      BY <2>4 DEF W!Cover, Cover
    <2> QED
      BY <2>5, <2>6 DEF Full
  <1> DEFINE a == DeleteEdit(m)
             b == PutEdit(f)
             c == DeleteEdit(o)
             d == PutEdit(g)
  <1>7. edits' = <<a, b>> \o <<c, d>>
    BY <1>5 DEF RekeyEdits
  <1>8. /\ a.op = "delete" /\ c.op = "delete" /\ Edited(Edited(meta, a), b) = r
    BY <1>4 DEF DeleteEdit, PutEdit, Edited, Rekey
  <1> HIDE DEF a, b, c, d, r, f, m
  <1>9. Len(edits') = 4 /\ edits'[1] = a /\ edits'[2] = b /\ edits'[3] = c
    BY <1>7
  <1>10. /\ Full(meta', data', mig'.key)
         /\ Full(Edited(Edited(meta', edits'[1]), edits'[2]), data', mig'.key)
    BY <1>1, <1>3, <1>6, <1>8, <1>9
  <1> QED
    BY <1>8, <1>9, <1>10 DEF Staged

LEMMA EditMetaStaged ==
  ASSUME UInv, Staged, EditMeta
  PROVE  Staged'
  <1> DEFINE l == Len(edits)
             t == Tail(edits)
             x == mig.key
  <1>1. /\ pc = "edit" /\ edits' = t /\ UNCHANGED <<data, mig, req>>
        /\ meta' = Edited(meta, edits[1])
        /\ pc' = "edit" => t # <<>>
    BY DEF EditMeta, storeVars, ctlVars, Edited
  <1>2. edits \in Seq(RealEdits) /\ edits # <<>>
    BY <1>1 DEF UInv, Linked
  <1>3. /\ Len(t) = l - 1 /\ l \in Nat
        /\ \A i \in 1 .. l - 1 : t[i] = edits[i + 1]
    BY <1>2, HeadTailProperties, LenProperties
  <1>4. Constructing' <=> Constructing
    BY <1>1 DEF Constructing
  <1> SUFFICES ASSUME pc' = "edit", ~Constructing
               PROVE  Staged'
    BY <1>4 DEF Staged
  <1>5. /\ l \in {1, 2, 3, 4}
        /\ l \in {2, 4} => Full(meta, data, x) /\ edits[1].op = "delete"
        /\ l = 3 => edits[2].op = "delete" /\ Full(Edited(meta, edits[1]), data, x)
        /\ l = 4 => /\ edits[3].op = "delete"
                    /\ Full(Edited(Edited(meta, edits[1]), edits[2]), data, x)
    BY <1>1 DEF Staged
  <1>6. l # 1
    BY <1>1, <1>2, <1>3, HeadTailProperties, EmptySeq
  <1> HIDE DEF l, t
  <1>7. CASE l \in {2, 4}
    <2>1. meta' = DbDelete(meta, edits[1].entry.min)
      BY <1>1, <1>5, <1>7 DEF Edited
    <2>2. Half(meta', data', mig'.key)
      BY <1>1, <1>5, <1>7, <2>1 DEF Half
    <2>3. CASE l = 2
      <3>1. Len(edits') = 1
        BY <1>1, <1>3, <2>3
      <3> QED
        BY <2>2, <3>1 DEF Staged
    <2>4. CASE l = 4
      <3>1. Len(edits') = 3 /\ edits'[1] = edits[2] /\ edits'[2] = edits[3]
        BY <1>1, <1>3, <2>4
      <3>2. Full(Edited(meta', edits'[1]), data', mig'.key)
        BY <1>1, <1>5, <2>4, <3>1
      <3> QED
        BY <1>5, <2>2, <2>4, <3>1, <3>2 DEF Staged
    <2> QED
      BY <1>7, <2>3, <2>4
  <1>8. CASE l = 3
    <2>1. Len(edits') = 2 /\ edits'[1] = edits[2]
      BY <1>1, <1>3, <1>8
    <2>2. Full(meta', data', mig'.key)
      BY <1>1, <1>5, <1>8
    <2> QED
      BY <1>5, <1>8, <2>1, <2>2 DEF Staged
  <1> QED
    BY <1>5, <1>6, <1>7, <1>8

LEMMA StagedStep ==
  ASSUME UInv, Staged, [FaultsNext]_allVars
  PROVE  Staged'
  <1>1. ASSUME pc' # "edit"
        PROVE  Staged'
    BY <1>1 DEF Staged
  <1>2. CASE UNCHANGED allVars
    <2>1. UNCHANGED <<meta, data, mig, req, pc, edits>>
      BY <1>2 DEF allVars, vars, storeVars, ctlVars, faultVars, localVars
    <2>2. Constructing' <=> Constructing
      BY <2>1 DEF Constructing
    <2> QED
      BY <2>1, <2>2 DEF Staged
  <1>3. \A k \in Keys : Applicable(DeleteEntry(k)) /\ \A v \in Values : Applicable(PutEntry(k, v))
    BY PutApplicable, DeleteApplicable
  <1>4. ASSUME NEW k \in Keys, AskGet(k)
        PROVE  Staged'
    BY <1>1, <1>4 DEF AskGet
  <1>5. CASE CommitCommand \/ Tell \/ EnterReBalance \/ AskSize \/ CheckShare \/ CheckSpare
    BY <1>1, <1>5 DEF CommitCommand, Tell, EnterReBalance, AskSize, CheckShare, CheckSpare
  <1>6. CASE EnterUp \/ EnterDown
    BY <1>1, <1>6 DEF EnterUp, EnterDown
  <1>7. CASE PickKey \/ TryLogSource \/ TryLogPeer \/ UndoSource \/ UndoPeer
    <2>1. pc' # "edit"
      BY <1>7 DEF PickKey, TryLogSource, TryLogPeer, UndoSource, UndoPeer
    <2> QED
      BY <1>1, <2>1
  <1>8. CASE TryCommitSource \/ TryCommitPeer \/ BeginShow \/ Show \/ ControlGone
    <2>1. pc' # "edit"
      BY <1>8 DEF TryCommitSource, TryCommitPeer, BeginShow, Show, ControlGone
    <2> QED
      BY <1>1, <2>1
  <1>9. ~Start
    BY DEF Start, UInv, Linked
  <1>10. \A n \in Nodes : ~StoreEnds(n) /\ ~StoreReplays(n) /\ ~StoreStops(n)
    BY BoundsAssumption DEF StoreEnds, StoreReplays, StoreStops, UInv, Linked, StoresStay
  <1> QED
    BY <1>2, <1>3, <1>4, <1>5, <1>6, <1>7, <1>8, <1>9, <1>10, CommandStaged, EditMetaStaged,
       PlanEditsStaged, StepsOf

\* Wherever the control node ends, also between the writes of a rekeying, the
\* metadata lacks one entry at most, and every key of the other nodes but the one
\* being moved is found.
THEOREM OneEntryAtMost ==
  ASSUME ~StoresEnd, MaxLives = 1
  PROVE  FaultsSpec => []LosesOneEntry
  <1> DEFINE Down == pc = "down"
  <1>1. OneLife => Down \/ UInv
    BY DEF OneLife, UInv
  <1>2. FaultsInit => Staged /\ ~Down
    BY DEF FaultsInit, Staged, Constructing
  <1>3. OneLife /\ [FaultsNext]_allVars /\ ~Down' => UInv /\ ~Down
    BY OneLifeStep DEF UInv, Linked
  <1>4. UInv /\ Staged /\ [FaultsNext]_allVars => Staged'
    BY StagedStep
  <1>5. UInv /\ Staged => LosesOneEntry
    BY StagedLoses
  <1>6. OneLife /\ LosesOneEntry /\ [FaultsNext]_allVars /\ Down' => LosesOneEntry'
    <2> SUFFICES ASSUME OneLife, LosesOneEntry, [FaultsNext]_allVars, Down'
                 PROVE  LosesOneEntry'
      OBVIOUS
    <2>1. UNCHANGED <<meta, data, req, mig, edits>>
      BY OneLifeStep
    <2>2. Constructing' <=> Constructing
      BY <2>1 DEF Constructing
    <2>3. \A k : Route(k)' = Route(k)
      BY <2>1 DEF Route
    <2> QED
      BY <2>1, <2>2, <2>3 DEF LosesOneEntry
  <1> HIDE DEF Down
  <1> QED
    BY <1>1, <1>2, <1>3, <1>4, <1>5, <1>6, InductiveEnds, PTL DEF FaultsSpec
=============================================================================
