--------------------------- MODULE StoreOpsProofs ---------------------------
(***************************************************************************)
(* Facts about the database operations and the operations of a store node, *)
(* for every number of keys and every length of keys and values: what a    *)
(* lookup returns, the counting loop, the byte counter, the log with one   *)
(* entry, and the bounds LOG answers with.                                 *)
(*                                                                         *)
(* CHOOSE-defined minima and maxima exist because the natural numbers are  *)
(* well founded (LeastExists), and an induction over the loop is a least   *)
(* counterexample.                                                         *)
(***************************************************************************)
EXTENDS StoreOps, WellFoundedInduction, TLAPS

(* The database operations, for every database over 1..MaxKey.             *)

\* Every nonempty set of naturals has a least element (WFMin in set form).
LEMMA LeastExists ==
  ASSUME NEW S, S \subseteq Nat, S # {}
  PROVE  \E x \in S : \A y \in S : x <= y
<1> DEFINE R == {ss \in Nat \X Nat : ss[1] < ss[2]}
<1>1. IsWellFoundedOn(R, Nat)
  BY NatLessThanWellFounded DEF OpToRel
<1>2. PICK x \in S : \A y \in S : ~(<<y, x>> \in R)
  <2> HIDE DEF R
  <2> QED BY <1>1, WFMin
<1>3. \A y \in S : x <= y
  <2> SUFFICES ASSUME NEW y \in S, y < x PROVE FALSE
    OBVIOUS
  <2>1. <<y, x>> \in Nat \X Nat /\ <<y, x>>[1] < <<y, x>>[2]
    OBVIOUS
  <2>2. <<y, x>> \in R
    BY <2>1
  <2> QED BY <1>2, <2>2
<1> QED BY <1>3

LEMMA MinIsLeast ==
  ASSUME NEW S, S \subseteq Nat, S # {}
  PROVE  Min(S) \in S /\ \A y \in S : Min(S) <= y
BY LeastExists DEF Min

\* A nonempty set of keys has a greatest element: mirror it in MaxKey.
LEMMA MaxIsGreatest ==
  ASSUME NEW S, S \subseteq Keys, S # {}
  PROVE  Max(S) \in S /\ \A y \in S : y <= Max(S)
<1> USE MaxKeyAssumption DEF Keys
<1> DEFINE T == {MaxKey - x : x \in S}
<1>0. PICK s \in S : TRUE
  OBVIOUS
<1>1. T \subseteq Nat /\ T # {}
  <2>1. T \subseteq Nat
    OBVIOUS
  <2>2. MaxKey - s \in T
    BY <1>0
  <2> QED BY <2>1, <2>2
<1>2. PICK t \in T : \A u \in T : t <= u
  <2> HIDE DEF T
  <2> QED BY <1>1, LeastExists
<1>3. PICK x \in S : t = MaxKey - x
  OBVIOUS
<1>4. \A y \in S : y <= x
  <2> TAKE y \in S
  <2>1. MaxKey - y \in T
    OBVIOUS
  <2>2. MaxKey - x <= MaxKey - y
    BY <1>2, <1>3, <2>1
  <2> QED BY <2>2
<1> HIDE DEF T
<1>5. \E z \in S : \A y \in S : z >= y
  BY <1>4
<1> QED BY <1>5 DEF Max

-----------------------------------------------------------------------------
(* Iterators.                                                              *)

LEMMA SeekToFirstFacts ==
  ASSUME NEW db, DOMAIN db \subseteq Keys
  PROVE  /\ DOMAIN db = {} => SeekToFirst(db) = EmptyStr
         /\ DOMAIN db # {} => /\ SeekToFirst(db) \in DOMAIN db
                              /\ \A k \in DOMAIN db : SeekToFirst(db) <= k
BY MinIsLeast, MaxKeyAssumption DEF SeekToFirst, Keys

LEMMA SeekToLastFacts ==
  ASSUME NEW db, DOMAIN db \subseteq Keys
  PROVE  /\ DOMAIN db = {} => SeekToLast(db) = EmptyStr
         /\ DOMAIN db # {} => /\ SeekToLast(db) \in DOMAIN db
                              /\ \A k \in DOMAIN db : k <= SeekToLast(db)
BY MaxIsGreatest DEF SeekToLast

LEMMA AfterFacts ==
  ASSUME NEW db, DOMAIN db \subseteq Keys, NEW k \in Nat
  PROVE  /\ After(db, k) = EmptyStr => \A x \in DOMAIN db : x <= k
         /\ After(db, k) # EmptyStr =>
              /\ After(db, k) \in DOMAIN db
              /\ k < After(db, k)
              /\ \A x \in DOMAIN db : k < x => After(db, k) <= x
<1> DEFINE above == {x \in DOMAIN db : k < x}
<1>1. above \subseteq Nat
  BY MaxKeyAssumption DEF Keys
<1>2. above # {} => Min(above) \in above /\ \A y \in above : Min(above) <= y
  BY <1>1, MinIsLeast
<1>3. 0 \notin above
  BY MaxKeyAssumption DEF Keys
<1>4. After(db, k) = IF above = {} THEN EmptyStr ELSE Min(above)
  BY DEF After
<1> QED BY <1>1, <1>2, <1>3, <1>4, MaxKeyAssumption DEF EmptyStr, Keys

LEMMA BeforeFacts ==
  ASSUME NEW db, DOMAIN db \subseteq Keys, NEW k \in Nat
  PROVE  /\ Before(db, k) = EmptyStr => \A x \in DOMAIN db : k <= x
         /\ Before(db, k) # EmptyStr =>
              /\ Before(db, k) \in DOMAIN db
              /\ Before(db, k) < k
              /\ \A x \in DOMAIN db : x < k => x <= Before(db, k)
<1> DEFINE below == {x \in DOMAIN db : x < k}
<1>1. below \subseteq Keys
  OBVIOUS
<1>2. below # {} => Max(below) \in below /\ \A y \in below : y <= Max(below)
  BY <1>1, MaxIsGreatest
<1>3. 0 \notin below
  BY MaxKeyAssumption DEF Keys
<1>4. Before(db, k) = IF below = {} THEN EmptyStr ELSE Max(below)
  BY DEF Before
<1> QED BY <1>1, <1>2, <1>3, <1>4, MaxKeyAssumption DEF EmptyStr, Keys

-----------------------------------------------------------------------------
(* The lookup of the metadata entry of a key.                              *)

LEMMA SmallerOrEqualFacts ==
  ASSUME NEW db, DOMAIN db \subseteq Keys, DOMAIN db # {}, NEW k \in Nat
  PROVE  /\ SmallerOrEqual(db, k) \in DOMAIN db
         /\ \A x \in DOMAIN db :
              x <= k => x <= SmallerOrEqual(db, k) /\ SmallerOrEqual(db, k) <= k
         /\ (\A x \in DOMAIN db : k < x) =>
              \A x \in DOMAIN db : SmallerOrEqual(db, k) <= x
<1> DEFINE at == After(db, k)
<1> USE MaxKeyAssumption DEF Keys, EmptyStr
<1>1. CASE at = EmptyStr
  <2>1. SmallerOrEqual(db, k) = SeekToLast(db)
    BY <1>1 DEF SmallerOrEqual
  <2>2. \A x \in DOMAIN db : x <= k
    BY <1>1, AfterFacts
  <2> QED BY <2>1, <2>2, SeekToLastFacts
<1>2. CASE at # EmptyStr
  <2>1. /\ at \in DOMAIN db /\ at \in Nat /\ k < at
        /\ \A x \in DOMAIN db : k < x => at <= x
    BY <1>2, AfterFacts
  <2>2. at # k
    BY <2>1
  <2>3. CASE Before(db, at) = EmptyStr
    <3>1. SmallerOrEqual(db, k) = SeekToFirst(db)
      BY <1>2, <2>2, <2>3 DEF SmallerOrEqual
    <3>2. \A x \in DOMAIN db : at <= x
      BY <2>1, <2>3, BeforeFacts
    <3> QED BY <2>1, <3>1, <3>2, SeekToFirstFacts
  <2>4. CASE Before(db, at) # EmptyStr
    <3>1. SmallerOrEqual(db, k) = Before(db, at)
      BY <1>2, <2>2, <2>4 DEF SmallerOrEqual
    <3>2. /\ Before(db, at) \in DOMAIN db /\ Before(db, at) < at
          /\ \A x \in DOMAIN db : x < at => x <= Before(db, at)
      BY <2>1, <2>4, BeforeFacts
    <3> QED BY <2>1, <3>1, <3>2
  <2> QED BY <2>3, <2>4
<1> QED BY <1>1, <1>2

\* get_smaller_or_equal_but_as_large_as_possible stands on the largest key not
\* above the one asked for, and on the smallest key when all are above it: its
\* three-way walk over the iterator computes Floor on every database.
THEOREM LookupIsFloor ==
  ASSUME NEW db, DOMAIN db \subseteq Keys, DOMAIN db # {}, NEW k \in Nat
  PROVE  SmallerOrEqual(db, k) = Floor(db, k)
<1> DEFINE below == {x \in DOMAIN db : x <= k}
<1> USE MaxKeyAssumption DEF Keys
<1>1. CASE below = {}
  <2>1. Floor(db, k) = Min(DOMAIN db)
    BY <1>1 DEF Floor
  <2>2. \A x \in DOMAIN db : k < x
    BY <1>1
  <2>3. Min(DOMAIN db) \in DOMAIN db /\ \A x \in DOMAIN db : Min(DOMAIN db) <= x
    BY MinIsLeast
  <2> QED BY <2>1, <2>2, <2>3, SmallerOrEqualFacts
<1>2. CASE below # {}
  <2>1. Floor(db, k) = Max(below)
    BY <1>2 DEF Floor
  <2>2. Max(below) \in below /\ \A x \in below : x <= Max(below)
    BY <1>2, MaxIsGreatest
  <2>3. SmallerOrEqual(db, k) \in below
    BY <1>2, SmallerOrEqualFacts
  <2> QED BY <2>1, <2>2, <2>3, SmallerOrEqualFacts
<1> QED BY <1>1, <1>2

\* A key of the database that no other key separates from k is where the
\* lookup of k ends.
LEMMA LookupOf ==
  ASSUME NEW db, DOMAIN db \subseteq Keys, NEW k \in Nat,
         NEW a \in DOMAIN db, a <= k, \A x \in DOMAIN db : x <= k => x <= a
  PROVE  SmallerOrEqual(db, k) = a
BY SmallerOrEqualFacts, MaxKeyAssumption DEF Keys

-----------------------------------------------------------------------------
(* The counting loop.                                                      *)

\* s is the list of running totals of c up to m.
Totals(s, c, m) == s = [k \in 0 .. m |-> IF k = 0 THEN 0 ELSE s[k - 1] + c[k]]

\* The step of an induction over 0..m: a least counterexample x is not 0, and
\* x - 1 is no counterexample.
LEMMA LeastBad ==
  ASSUME NEW T, T \subseteq Nat, T # {}, 0 \notin T
  PROVE  \E x \in T : x \in Nat /\ x # 0 /\ x - 1 \in Nat /\ x - 1 \notin T
<1>1. PICK x \in T : \A y \in T : x <= y
  BY LeastExists
<1>2. x \in Nat /\ x # 0 /\ x - 1 \in Nat /\ ~(x <= x - 1)
  BY <1>1
<1>3. x - 1 \notin T
  BY <1>1, <1>2
<1> QED BY <1>2, <1>3

LEMMA TotalsExist ==
  ASSUME NEW c, NEW m \in Nat
  PROVE  \E s : Totals(s, c, m)
<1> DEFINE T == {i \in Nat : ~\E s : Totals(s, c, i)}
<1>1. SUFFICES ASSUME T # {} PROVE FALSE
  OBVIOUS
<1>2. 0 \notin T
  <2>1. Totals([k \in 0 .. 0 |-> 0], c, 0)
    BY DEF Totals
  <2> QED BY <2>1
<1>3. PICK x \in T : x \in Nat /\ x # 0 /\ x - 1 \in Nat /\ x - 1 \notin T
  <2>1. T \subseteq Nat
    OBVIOUS
  <2> HIDE DEF T
  <2> QED BY <1>1, <1>2, <2>1, LeastBad
<1>4. PICK s : Totals(s, c, x - 1)
  BY <1>3
<1>5. \A s0 : ~Totals(s0, c, x)
  BY <1>3
<1> HIDE DEF T
<1> DEFINE h == [k \in 0 .. x |-> IF k = 0 THEN 0 ELSE s[k - 1] + c[k]]
<1>6. \A k \in 0 .. x - 1 : h[k] = s[k]
  <2> TAKE k \in 0 .. x - 1
  <2>1. s[k] = IF k = 0 THEN 0 ELSE s[k - 1] + c[k]
    BY <1>4 DEF Totals
  <2> QED BY <2>1, <1>3
<1>7. \A k \in 0 .. x : k # 0 => h[k - 1] = s[k - 1]
  <2> HIDE DEF h
  <2> SUFFICES ASSUME NEW k \in 0 .. x, k # 0 PROVE h[k - 1] = s[k - 1]
    OBVIOUS
  <2>1. k - 1 \in 0 .. x - 1
    BY <1>3
  <2> QED BY <1>6, <2>1
<1>8. h = [k \in 0 .. x |-> IF k = 0 THEN 0 ELSE h[k - 1] + c[k]]
  BY <1>7
<1> HIDE DEF h
<1>9. Totals(h, c, x)
  BY <1>8 DEF Totals
<1> QED BY <1>5, <1>9

LEMMA SumTotals ==
  ASSUME NEW c, NEW m \in Nat
  PROVE  \E s : /\ SumUpTo(c, m) = s[m]
                /\ s[0] = 0
                /\ \A k \in 1 .. m : s[k] = s[k - 1] + c[k]
<1> DEFINE s == CHOOSE s : Totals(s, c, m)
<1>1. Totals(s, c, m)
  BY TotalsExist
<1>2. SumUpTo(c, m) = s[m]
  BY DEF SumUpTo, Totals
<1>3. s[0] = 0 /\ \A k \in 1 .. m : s[k] = s[k - 1] + c[k]
  <2> HIDE DEF s
  <2> QED BY <1>1 DEF Totals
<1> QED BY <1>2, <1>3

LEMMA SumType ==
  ASSUME NEW m \in Nat, NEW c \in [1 .. m -> Int]
  PROVE  SumUpTo(c, m) \in Int
<1>1. PICK s : /\ SumUpTo(c, m) = s[m]
               /\ s[0] = 0
               /\ \A k \in 1 .. m : s[k] = s[k - 1] + c[k]
  BY SumTotals
<1> DEFINE T == {k \in 0 .. m : s[k] \notin Int}
<1>2. T \subseteq Nat /\ 0 \notin T
  BY <1>1
<1>3. ASSUME NEW x \in T, x \in Nat, x # 0, x - 1 \in Nat, x - 1 \notin T
      PROVE  FALSE
  <2>1. x \in 1 .. m /\ x - 1 \in 0 .. m
    BY <1>3
  <2>2. s[x - 1] \in Int /\ s[x] = s[x - 1] + c[x] /\ c[x] \in Int
    BY <1>1, <1>3, <2>1
  <2> QED BY <2>2
<1>4. m \notin T
  <2> HIDE DEF T
  <2> QED BY <1>2, <1>3, LeastBad
<1> QED BY <1>1, <1>4

LEMMA SumIsNat ==
  ASSUME NEW m \in Nat, NEW c \in [1 .. m -> Nat]
  PROVE  SumUpTo(c, m) \in Nat
<1>1. PICK s : /\ SumUpTo(c, m) = s[m]
               /\ s[0] = 0
               /\ \A k \in 1 .. m : s[k] = s[k - 1] + c[k]
  BY SumTotals
<1> DEFINE T == {k \in 0 .. m : s[k] \notin Nat}
<1>2. T \subseteq Nat /\ 0 \notin T
  BY <1>1
<1>3. ASSUME NEW x \in T, x \in Nat, x # 0, x - 1 \in Nat, x - 1 \notin T
      PROVE  FALSE
  <2>1. x \in 1 .. m /\ x - 1 \in 0 .. m
    BY <1>3
  <2>2. s[x - 1] \in Nat /\ s[x] = s[x - 1] + c[x] /\ c[x] \in Nat
    BY <1>1, <1>3, <2>1
  <2> QED BY <1>3, <2>2
<1>4. m \notin T
  <2> HIDE DEF T
  <2> QED BY <1>2, <1>3, LeastBad
<1> QED BY <1>1, <1>4

\* A sum of zeros, the size of an empty database.
LEMMA SumZero ==
  ASSUME NEW m \in Nat, NEW c \in [1 .. m -> Int], \A k \in 1 .. m : c[k] = 0
  PROVE  SumUpTo(c, m) = 0
<1>1. PICK s : /\ SumUpTo(c, m) = s[m]
               /\ s[0] = 0
               /\ \A k \in 1 .. m : s[k] = s[k - 1] + c[k]
  BY SumTotals
<1> DEFINE T == {k \in 0 .. m : s[k] # 0}
<1>2. T \subseteq Nat /\ 0 \notin T
  BY <1>1
<1>3. ASSUME NEW x \in T, x \in Nat, x # 0, x - 1 \in Nat, x - 1 \notin T
      PROVE  FALSE
  <2>1. x \in 1 .. m /\ x - 1 \in 0 .. m
    BY <1>3
  <2>2. s[x - 1] = 0 /\ s[x] = s[x - 1] + c[x] /\ c[x] = 0
    BY <1>1, <1>3, <2>1
  <2> QED BY <1>3, <2>2
<1>4. m \notin T
  <2> HIDE DEF T
  <2> QED BY <1>2, <1>3, LeastBad
<1> QED BY <1>1, <1>4

\* Two sums whose terms differ at one place differ by that term.
LEMMA SumChange ==
  ASSUME NEW m \in Nat, NEW c \in [1 .. m -> Int], NEW d \in [1 .. m -> Int],
         NEW p \in 1 .. m, \A k \in 1 .. m : k # p => d[k] = c[k]
  PROVE  SumUpTo(d, m) = SumUpTo(c, m) + (d[p] - c[p])
<1>1. PICK s : /\ SumUpTo(c, m) = s[m]
               /\ s[0] = 0
               /\ \A k \in 1 .. m : s[k] = s[k - 1] + c[k]
  BY SumTotals
<1>2. PICK t : /\ SumUpTo(d, m) = t[m]
               /\ t[0] = 0
               /\ \A k \in 1 .. m : t[k] = t[k - 1] + d[k]
  BY SumTotals
<1> DEFINE Good(k) == /\ s[k] \in Int
                      /\ k < p => t[k] = s[k]
                      /\ p <= k => t[k] = s[k] + (d[p] - c[p])
           T == {k \in 0 .. m : ~Good(k)}
<1>3. T \subseteq Nat /\ 0 \notin T
  BY <1>1, <1>2
<1>4. ASSUME NEW x \in T, x \in Nat, x # 0, x - 1 \in Nat, x - 1 \notin T
      PROVE  FALSE
  <2>1. x \in 1 .. m /\ x - 1 \in 0 .. m
    BY <1>4
  <2>2. Good(x - 1) /\ ~Good(x)
    BY <1>4, <2>1
  <2>3. s[x] = s[x - 1] + c[x] /\ t[x] = t[x - 1] + d[x]
    BY <1>1, <1>2, <2>1
  <2>4. c[x] \in Int /\ d[x] \in Int /\ c[p] \in Int /\ d[p] \in Int
    BY <2>1
  <2>5. CASE x < p
    <3>1. t[x - 1] = s[x - 1] /\ d[x] = c[x]
      BY <2>1, <2>2, <2>5
    <3> QED BY <2>1, <2>2, <2>3, <2>4, <2>5, <3>1
  <2>6. CASE x = p
    <3>1. t[x - 1] = s[x - 1]
      BY <2>1, <2>2, <2>6
    <3> QED BY <2>1, <2>2, <2>3, <2>4, <2>6, <3>1
  <2>7. CASE x > p
    <3>1. t[x - 1] = s[x - 1] + (d[p] - c[p]) /\ d[x] = c[x]
      BY <2>1, <2>2, <2>7
    <3> QED BY <2>1, <2>2, <2>3, <2>4, <2>7, <3>1
  <2> QED BY <2>1, <2>5, <2>6, <2>7
<1>5. m \notin T
  <2> HIDE DEF T
  <2> QED BY <1>3, <1>4, LeastBad
<1>6. Good(m)
  BY <1>5
<1> QED BY <1>1, <1>2, <1>6

-----------------------------------------------------------------------------
(* The contents and the byte counter.                                      *)

\* An entry that store_impl may find in its log: a PUT carries a value that
\* clients store.
Applicable(e) == e \in Entries /\ (e.kind = PUT => e.val \in Values)

LEMMA DataAfterType ==
  ASSUME NEW db, IsDb(db, Values), NEW e, Applicable(e)
  PROVE  /\ IsDb(DataAfter(db, e), Values)
         /\ e.kind = PUT => /\ DOMAIN DataAfter(db, e) = DOMAIN db \cup {e.key}
                            /\ DataAfter(db, e)[e.key] = e.val
         /\ e.kind # PUT => DOMAIN DataAfter(db, e) = DOMAIN db \ {e.key}
         /\ \A k \in DOMAIN db : k # e.key => DataAfter(db, e)[k] = db[k]
<1>1. e.key \in Keys
  BY DEF Applicable, Entries
<1>2. CASE e.kind = PUT
  <2>1. e.val \in Values
    BY <1>2 DEF Applicable
  <2> QED BY <1>1, <1>2, <2>1 DEF DataAfter, DbPut, IsDb
<1>3. CASE e.kind # PUT
  BY <1>1, <1>3 DEF DataAfter, DbDelete, IsDb
<1> QED BY <1>2, <1>3

LEMMA DataAfterDomain ==
  ASSUME NEW db, NEW e
  PROVE  DOMAIN DataAfter(db, e) = IF e.kind = PUT THEN DOMAIN db \cup {e.key}
                                   ELSE DOMAIN db \ {e.key}
BY DEF DataAfter, DbPut, DbDelete

\* What the pass of DB_Handle::get_size adds for each key.
Terms(db) == [k \in Keys |-> IF k \in DOMAIN db THEN Weight(k, db[k]) ELSE 0]

LEMMA WeightType ==
  ASSUME NEW k \in Keys, NEW v \in Values \cup {EmptyStr}
  PROVE  Weight(k, v) \in Nat /\ Weight(k, v) \in Int
<1>1. KeyLen[k] \in Nat /\ ValLen[v] \in Nat
  BY KeyLenAssumption, ValLenAssumption
<1> QED BY <1>1 DEF Weight

LEMMA TermsType ==
  ASSUME NEW db, IsDb(db, Values)
  PROVE  /\ Terms(db) \in [1 .. MaxKey -> Int]
         /\ DbSize(db) = SumUpTo(Terms(db), MaxKey)
         /\ DbSize(db) \in Int
<1>1. \A k \in DOMAIN db : k \in Keys /\ Weight(k, db[k]) \in Int
  BY WeightType DEF IsDb
<1>2. Terms(db) \in [1 .. MaxKey -> Int]
  BY <1>1 DEF Terms, Keys
<1>3. DbSize(db) = SumUpTo(Terms(db), MaxKey)
  BY DEF DbSize, Terms
<1> QED BY <1>2, <1>3, SumType, MaxKeyAssumption

LEMMA EmptySize ==
  ASSUME NEW db, DOMAIN db = {}
  PROVE  DbSize(db) = 0
<1>1. Terms(db) \in [1 .. MaxKey -> Int] /\ \A k \in 1 .. MaxKey : Terms(db)[k] = 0
  BY DEF Terms, Keys
<1>2. DbSize(db) = SumUpTo(Terms(db), MaxKey)
  BY DEF DbSize, Terms
<1> QED BY <1>1, <1>2, SumZero, MaxKeyAssumption

LEMMA SizeIsNat ==
  ASSUME NEW db, IsDb(db, Values)
  PROVE  DbSize(db) \in Nat
<1>1. \A k \in DOMAIN db : k \in Keys /\ db[k] \in Values
  BY DEF IsDb
<1>2. Terms(db) \in [1 .. MaxKey -> Nat]
  BY <1>1, WeightType DEF Terms, Keys
<1> QED BY <1>2, SumIsNat, TermsType, MaxKeyAssumption

\* What key k takes of the size of db, and what entry e takes once applied.
Held(db, k) == IF k \in DOMAIN db THEN Weight(k, db[k]) ELSE 0

Taken(e) == IF e.kind = PUT THEN Weight(e.key, e.val) ELSE 0

\* What applying an entry does to the size of the contents.
LEMMA SizeChanges ==
  ASSUME NEW db, IsDb(db, Values), NEW e, Applicable(e)
  PROVE  /\ DbSize(DataAfter(db, e)) = DbSize(db) + (Taken(e) - Held(db, e.key))
         /\ Taken(e) \in Int /\ Held(db, e.key) \in Int /\ 0 <= Held(db, e.key)
<1> DEFINE p == e.key
           new == DataAfter(db, e)
           was == Held(db, p)
           is == Taken(e)
<1>1. p \in Keys /\ p \in 1 .. MaxKey
  BY DEF Applicable, Entries, Keys
<1>2. IsDb(new, Values)
  BY DataAfterType
<1>3. Terms(db)[p] = was /\ was \in Int /\ 0 <= was
  BY <1>1, WeightType DEF Terms, IsDb, Held
<1>4. Terms(new)[p] = is /\ is \in Int
  <2>1. CASE e.kind = PUT
    <3>1. new = DbPut(db, p, e.val)
      BY <2>1 DEF DataAfter
    <3>2. p \in DOMAIN new /\ new[p] = e.val
      BY <3>1 DEF DbPut
    <3>3. e.val \in Values
      BY <2>1 DEF Applicable
    <3> QED BY <1>1, <2>1, <3>2, <3>3, WeightType DEF Terms, Taken
  <2>2. CASE e.kind # PUT
    <3>1. DOMAIN new = DOMAIN db \ {p}
      BY <2>2, DataAfterDomain
    <3>2. p \notin DOMAIN new
      BY <3>1
    <3> QED BY <1>1, <2>2, <3>2 DEF Terms, Taken
  <2> QED BY <2>1, <2>2
<1>5. \A k \in 1 .. MaxKey : k # p => Terms(new)[k] = Terms(db)[k]
  <2> SUFFICES ASSUME NEW k \in Keys, k # p PROVE Terms(new)[k] = Terms(db)[k]
    BY DEF Keys
  <2>1. k \in DOMAIN new <=> k \in DOMAIN db
    <3>1. DOMAIN new = DOMAIN db \cup {p} \/ DOMAIN new = DOMAIN db \ {p}
      BY DataAfterDomain
    <3> HIDE DEF new, p
    <3> QED BY <3>1
  <2>2. k \in DOMAIN db => new[k] = db[k]
    BY DataAfterType
  <2> QED BY <2>1, <2>2 DEF Terms
<1>6. DbSize(new) = DbSize(db) + (is - was)
  <2> HIDE DEF new, is, was
  <2>1. Terms(db) \in [1 .. MaxKey -> Int] /\ Terms(new) \in [1 .. MaxKey -> Int]
    BY <1>2, TermsType
  <2>2. DbSize(db) = SumUpTo(Terms(db), MaxKey) /\ DbSize(new) = SumUpTo(Terms(new), MaxKey)
    BY <1>2, TermsType
  <2> HIDE DEF p
  <2>3. SumUpTo(Terms(new), MaxKey)
          = SumUpTo(Terms(db), MaxKey) + (Terms(new)[p] - Terms(db)[p])
    BY <1>1, <1>5, <2>1, SumChange, MaxKeyAssumption
  <2> QED BY <1>3, <1>4, <2>2, <2>3
<1> QED BY <1>3, <1>4, <1>6

\* store_data::put and store_data::delete_1 keep the counter equal to the size
\* of the contents, provided no stored value is empty.
LEMMA SizeTracks ==
  ASSUME EmptyStr \notin Values, NEW db, IsDb(db, Values), NEW e, Applicable(e)
  PROVE  SizeAfter(db, DbSize(db), e) = DbSize(DataAfter(db, e))
<1> DEFINE p == e.key
           new == DataAfter(db, e)
           was == Held(db, p)
           is == Taken(e)
<1>1. /\ DbSize(new) = DbSize(db) + (is - was)
      /\ is \in Int /\ was \in Int
  BY SizeChanges
<1>7. SizeWithout(db, DbSize(db), p) = DbSize(db) - was
  <2>1. CASE p \in DOMAIN db
    <3>1. DbGet(db, p) = db[p] /\ db[p] \in Values
      BY <2>1 DEF DbGet, IsDb
    <3>2. ValLen[db[p]] # 0
      BY <3>1, ValLenAssumption
    <3> QED BY <2>1, <3>1, <3>2 DEF SizeWithout, Held
  <2>2. CASE p \notin DOMAIN db
    <3>1. DbGet(db, p) = EmptyStr /\ ValLen[EmptyStr] = 0
      BY <2>2, ValLenAssumption DEF DbGet
    <3> QED BY <2>2, <3>1, TermsType DEF SizeWithout, Held
  <2> QED BY <2>1, <2>2
<1>8. SizeAfter(db, DbSize(db), e) = (DbSize(db) - was) + is
  BY <1>7 DEF SizeAfter, Taken
<1>9. DbSize(db) \in Int
  BY TermsType
<1>10. SizeAfter(db, DbSize(db), e) = DbSize(new)
  <2> HIDE DEF is, was, new
  <2> QED BY <1>1, <1>8, <1>9
<1> QED BY <1>10

\* Whatever is stored, the counter never falls below the size of the contents:
\* an empty value that is overwritten or deleted only stays counted.
LEMMA SizeNotLow ==
  ASSUME NEW db, IsDb(db, Values), NEW e, Applicable(e), NEW sz \in Int, DbSize(db) <= sz
  PROVE  SizeAfter(db, sz, e) \in Int /\ DbSize(DataAfter(db, e)) <= SizeAfter(db, sz, e)
<1> DEFINE p == e.key
           new == DataAfter(db, e)
           was == Held(db, p)
           is == Taken(e)
<1>1. /\ DbSize(new) = DbSize(db) + (is - was)
      /\ is \in Int /\ was \in Int /\ 0 <= was
  BY SizeChanges
<1>2. SizeWithout(db, sz, p) \in {sz, sz - was}
  <2>1. CASE p \in DOMAIN db
    BY <2>1 DEF DbGet, SizeWithout, Held
  <2>2. CASE p \notin DOMAIN db
    <3>1. DbGet(db, p) = EmptyStr /\ ValLen[EmptyStr] = 0
      BY <2>2, ValLenAssumption DEF DbGet
    <3> QED BY <3>1 DEF SizeWithout
  <2> QED BY <2>1, <2>2
<1>3. SizeAfter(db, sz, e) = SizeWithout(db, sz, p) + is
  BY DEF SizeAfter, Taken
<1>4. DbSize(db) \in Int
  BY TermsType
<1> HIDE DEF new, was, is
<1>5. SizeAfter(db, sz, e) \in Int /\ DbSize(new) <= SizeAfter(db, sz, e)
  BY <1>1, <1>2, <1>3, <1>4
<1> QED BY <1>5 DEF new

-----------------------------------------------------------------------------
(* The log.                                                                *)

LEMMA LeastField ==
  ASSUME NEW S, S # {}, NEW f, \A e \in S : f[e] \in Nat
  PROVE  \E x \in S : \A y \in S : f[x] <= f[y]
<1> DEFINE T == {f[e] : e \in S}
<1>1. T \subseteq Nat /\ T # {}
  OBVIOUS
<1>2. PICK t \in T : \A u \in T : t <= u
  <2> HIDE DEF T
  <2> QED BY <1>1, LeastExists
<1>3. PICK x \in S : t = f[x]
  OBVIOUS
<1>4. \A y \in S : f[y] \in T
  OBVIOUS
<1> HIDE DEF T
<1> QED BY <1>2, <1>3, <1>4

\* The log database, when not empty, has a first entry: get_log finds one.
LEMMA GetLogIn ==
  ASSUME NEW lg, lg \subseteq Entries, lg # {}
  PROVE  GetLog(lg) \in lg
<1> DEFINE KL(e) == StoredLen(KeyLen[e.key])
           VL(e) == StoredLen(ValLen[e.val])
<1>0. \A e \in lg : /\ e.kind \in Nat /\ e.key \in Nat /\ e.val \in Nat
                    /\ KL(e) \in Nat /\ VL(e) \in Nat
                    /\ e = [kind |-> e.kind, key |-> e.key, val |-> e.val]
  <2> TAKE e \in lg
  <2>1. e \in [kind : {PUT, DELETE}, key : Keys, val : Values \cup {EmptyStr}]
    BY DEF Entries
  <2>2. /\ e.kind \in {PUT, DELETE} /\ e.key \in Keys /\ e.val \in Values \cup {EmptyStr}
        /\ e = [kind |-> e.kind, key |-> e.key, val |-> e.val]
    BY <2>1
  <2>3. KeyLen[e.key] \in Nat /\ ValLen[e.val] \in Nat
    BY <2>2, KeyLenAssumption, ValLenAssumption
  <2>4. e.kind \in Nat /\ e.key \in Nat /\ e.val \in Nat
    BY <2>2, ValuesAssumption, MaxKeyAssumption DEF PUT, DELETE, Keys, EmptyStr
  <2>5. KL(e) \in Nat /\ VL(e) \in Nat
    BY <2>3 DEF StoredLen
  <2> QED BY <2>2, <2>4, <2>5
<1> HIDE DEF KL, VL
<1>1. PICK a \in lg : \A o \in lg : a.kind <= o.kind
  <2> DEFINE f == [e \in lg |-> e.kind]
  <2>1. \A e \in lg : f[e] = e.kind /\ f[e] \in Nat
    BY <1>0
  <2> HIDE DEF f
  <2> QED BY <2>1, LeastField
<1> DEFINE A == {o \in lg : o.kind = a.kind}
<1>2. PICK b \in A : \A o \in A : KL(b) <= KL(o)
  <2> DEFINE f == [e \in lg |-> KL(e)]
  <2>1. A # {} /\ \A e \in A : f[e] = KL(e) /\ f[e] \in Nat
    BY <1>0
  <2> HIDE DEF f, A
  <2> QED BY <2>1, LeastField
<1> DEFINE B == {o \in A : KL(o) = KL(b)}
<1>3. PICK c \in B : \A o \in B : c.key <= o.key
  <2> DEFINE f == [e \in lg |-> e.key]
  <2>1. B # {} /\ \A e \in B : f[e] = e.key /\ f[e] \in Nat
    BY <1>0
  <2> HIDE DEF f, B
  <2> QED BY <2>1, LeastField
<1> DEFINE C == {o \in B : o.key = c.key}
<1>4. PICK d \in C : \A o \in C : VL(d) <= VL(o)
  <2> DEFINE f == [e \in lg |-> VL(e)]
  <2>1. C # {} /\ \A e \in C : f[e] = VL(e) /\ f[e] \in Nat
    BY <1>0
  <2> HIDE DEF f, C
  <2>2. \E z \in C : \A o \in C : f[z] <= f[o]
    BY <2>1, LeastField
  <2> QED BY <2>1, <2>2
<1> DEFINE D == {o \in C : VL(o) = VL(d)}
<1>5. PICK x \in D : \A o \in D : x.val <= o.val
  <2> DEFINE f == [e \in lg |-> e.val]
  <2>1. D # {} /\ \A e \in D : f[e] = e.val /\ f[e] \in Nat
    BY <1>0
  <2> HIDE DEF f, D
  <2> QED BY <2>1, LeastField
<1>6. ASSUME NEW o \in lg \ {x} PROVE EntryLess(x, o)
  <2> DEFINE fields(e) == <<e.kind, KL(e), e.key, VL(e), e.val>>
             Less(i) == /\ fields(x)[i] < fields(o)[i]
                        /\ \A j \in 1 .. i - 1 : fields(x)[j] = fields(o)[j]
  <2>1. EntryLess(x, o) <=> \E i \in 1 .. 5 : Less(i)
    BY DEF EntryLess, KL, VL
  <2>2. x.kind = a.kind /\ KL(x) = KL(b) /\ x.key = c.key
        /\ VL(x) = VL(d)
    OBVIOUS
  <2>3. CASE o \notin A
    <3>1. x.kind < o.kind
      BY <1>0, <1>1, <2>2, <2>3
    <3>2. Less(1)
      BY <3>1
    <3> QED BY <2>1, <3>2
  <2>4. CASE o \in A /\ o \notin B
    <3>1. x.kind = o.kind /\ KL(x) < KL(o)
      BY <1>0, <1>2, <2>2, <2>4
    <3>2. Less(2)
      BY <3>1
    <3> QED BY <2>1, <3>2
  <2>5. CASE o \in B /\ o \notin C
    <3>1. x.kind = o.kind /\ KL(x) = KL(o) /\ x.key < o.key
      BY <1>0, <1>3, <2>2, <2>5
    <3>2. Less(3)
      BY <3>1
    <3> QED BY <2>1, <3>2
  <2>6. CASE o \in C /\ o \notin D
    <3>1. /\ x.kind = o.kind /\ KL(x) = KL(o) /\ x.key = o.key
          /\ VL(x) < VL(o)
      BY <1>0, <1>4, <2>2, <2>6
    <3>2. Less(4)
      BY <3>1
    <3> QED BY <2>1, <3>2
  <2>7. CASE o \in D
    <3>1. /\ x.kind = o.kind /\ KL(x) = KL(o) /\ x.key = o.key
          /\ VL(x) = VL(o)
      BY <2>2, <2>7
    <3>2. x.val # o.val
      <4>1. x \in lg /\ o \in lg /\ x # o
        OBVIOUS
      <4> QED BY <1>0, <3>1, <4>1
    <3>3. x.val < o.val
      BY <1>0, <1>5, <2>7, <3>2
    <3>4. Less(5)
      BY <3>1, <3>3
    <3> QED BY <2>1, <3>4
  <2> HIDE DEF A, B, C, D
  <2> QED BY <2>3, <2>4, <2>5, <2>6, <2>7
<1>7. x \in lg
  OBVIOUS
<1> HIDE DEF A, B, C, D
<1> QED BY <1>6, <1>7 DEF GetLog

\* The log the protocol keeps while nothing fails: one entry.
LEMMA OneEntry ==
  ASSUME NEW e
  PROVE  GetLog({e}) = e /\ ClearLog({e}) = {}
BY DEF GetLog, ClearLog

LEMMA CommitType ==
  ASSUME NEW db, IsDb(db, Values), NEW lg, lg \subseteq Entries,
         \A e \in lg : Applicable(e)
  PROVE  /\ IsDb(CommitData(db, lg), Values)
         /\ ClearLog(lg) \subseteq lg
         /\ lg # {} => GetLog(lg) \in lg /\ CommitData(db, lg) = DataAfter(db, GetLog(lg))
<1>1. CASE lg = {}
  BY <1>1 DEF CommitData, ClearLog
<1>2. CASE lg # {}
  <2>1. GetLog(lg) \in lg
    BY <1>2, GetLogIn
  <2> QED BY <1>2, <2>1, DataAfterType DEF CommitData, ClearLog
<1> QED BY <1>1, <1>2

LEMMA CommitSizeType ==
  ASSUME NEW db, IsDb(db, Values), NEW lg, lg \subseteq Entries, NEW sz \in Int
  PROVE  CommitSize(db, sz, lg) \in Int
<1>1. CASE lg = {}
  BY <1>1 DEF CommitSize
<1>2. CASE lg # {}
  <2> DEFINE e == GetLog(lg)
             k == e.key
             v == DbGet(db, k)
  <2>1. k \in Keys /\ e.val \in Values \cup {EmptyStr}
    BY <1>2, GetLogIn DEF Entries
  <2>2. v \in Values \cup {EmptyStr}
    BY DEF DbGet, IsDb
  <2>3. Weight(k, v) \in Int /\ Weight(k, e.val) \in Int
    BY <2>1, <2>2, WeightType
  <2>4. SizeWithout(db, sz, k) \in Int
    BY <2>3 DEF SizeWithout
  <2>5. SizeAfter(db, sz, e) \in Int
    BY <2>3, <2>4 DEF SizeAfter
  <2> QED BY <1>2, <2>5 DEF CommitSize
<1> QED BY <1>1, <1>2

LEMMA CommitNotLow ==
  ASSUME NEW db, IsDb(db, Values), NEW lg, lg \subseteq Entries,
         \A e \in lg : Applicable(e), NEW sz \in Int, DbSize(db) <= sz
  PROVE  /\ CommitSize(db, sz, lg) \in Int
         /\ DbSize(CommitData(db, lg)) <= CommitSize(db, sz, lg)
<1>1. CASE lg = {}
  BY <1>1 DEF CommitSize, CommitData
<1>2. CASE lg # {}
  <2>1. Applicable(GetLog(lg))
    BY <1>2, GetLogIn
  <2> QED BY <1>2, <2>1, SizeNotLow DEF CommitSize, CommitData
<1> QED BY <1>1, <1>2

LEMMA CommitKeepsSize ==
  ASSUME EmptyStr \notin Values, NEW db, IsDb(db, Values),
         NEW lg, lg \subseteq Entries, \A e \in lg : Applicable(e)
  PROVE  CommitSize(db, DbSize(db), lg) = DbSize(CommitData(db, lg))
<1>1. CASE lg = {}
  BY <1>1 DEF CommitData, CommitSize
<1>2. CASE lg # {}
  BY <1>2, GetLogIn, SizeTracks DEF CommitData, CommitSize
<1> QED BY <1>1, <1>2

-----------------------------------------------------------------------------
(* The answer to a LOG request.                                            *)

\* log_log computes, from the contents before the commit, the bounds of the
\* contents after it.
LEMMA ReplyIsBounds ==
  ASSUME NEW db, IsDb(db, Values), NEW e, Applicable(e)
  PROVE  LogReply(db, e) = [min |-> SeekToFirst(DataAfter(db, e)),
                            max |-> SeekToLast(DataAfter(db, e))]
<1> DEFINE new == DataAfter(db, e)
           first == SeekToFirst(db)
           last == SeekToLast(db)
<1>1. DOMAIN db \subseteq Keys /\ e.key \in Keys /\ DOMAIN new \subseteq Keys
  BY DataAfterType DEF IsDb, Applicable, Entries
<1>2. \A k \in Keys : k \in Nat /\ k # EmptyStr
  BY MaxKeyAssumption DEF Keys, EmptyStr
<1>3. ASSUME NEW r \in DOMAIN new, \A k \in DOMAIN new : r <= k
      PROVE  r = SeekToFirst(new)
  <2> HIDE DEF new
  <2> QED BY <1>1, <1>2, <1>3, SeekToFirstFacts
<1>4. ASSUME NEW r \in DOMAIN new, \A k \in DOMAIN new : k <= r
      PROVE  r = SeekToLast(new)
  <2> HIDE DEF new
  <2> QED BY <1>1, <1>2, <1>4, SeekToLastFacts
<1>5. CASE e.kind = PUT
  <2>1. DOMAIN new = DOMAIN db \cup {e.key}
    BY <1>5, DataAfterType
  <2>2. CASE DOMAIN db = {}
    <3>1. LogReply(db, e) = [min |-> e.key, max |-> e.key]
      BY <1>1, <1>5, <2>2, SeekToFirstFacts DEF LogReply
    <3>2. e.key \in DOMAIN new /\ \A k \in DOMAIN new : e.key <= k /\ k <= e.key
      BY <1>1, <1>2, <2>1, <2>2
    <3> QED BY <1>3, <1>4, <3>1, <3>2
  <2>3. CASE DOMAIN db # {}
    <3>1. /\ first \in DOMAIN db /\ \A k \in DOMAIN db : first <= k
          /\ last \in DOMAIN db /\ \A k \in DOMAIN db : k <= last
      BY <1>1, <2>3, SeekToFirstFacts, SeekToLastFacts
    <3>2. LogReply(db, e) = [min |-> Lesser(first, e.key), max |-> Greater(e.key, last)]
      BY <1>1, <1>2, <1>5, <3>1 DEF LogReply
    <3>3. Lesser(first, e.key) \in DOMAIN new /\ \A k \in DOMAIN new : Lesser(first, e.key) <= k
      <4> HIDE DEF new, first
      <4> QED BY <1>1, <1>2, <2>1, <3>1 DEF Lesser
    <3>4. Greater(e.key, last) \in DOMAIN new /\ \A k \in DOMAIN new : k <= Greater(e.key, last)
      <4> HIDE DEF new, last
      <4> QED BY <1>1, <1>2, <2>1, <3>1 DEF Greater
    <3> QED BY <1>3, <1>4, <3>2, <3>3, <3>4
  <2> QED BY <2>2, <2>3
<1>6. CASE e.kind # PUT
  <2>1. DOMAIN new = DOMAIN db \ {e.key}
    BY <1>6, DataAfterType
  <2> DEFINE lo == IF e.key = first THEN After(db, first) ELSE first
             hi == IF e.key = last THEN Before(db, last) ELSE last
  <2>2. LogReply(db, e) = [min |-> lo, max |-> hi]
    BY <1>6 DEF LogReply
  <2>3. lo = SeekToFirst(new)
    <3>1. CASE DOMAIN db = {}
      <4>1. first = EmptyStr /\ lo = EmptyStr
        BY <1>1, <1>2, <3>1, SeekToFirstFacts
      <4> HIDE DEF new
      <4> QED BY <1>1, <2>1, <3>1, <4>1, SeekToFirstFacts
    <3>2. CASE DOMAIN db # {}
      <4>1. first \in DOMAIN db /\ \A k \in DOMAIN db : first <= k
        BY <1>1, <3>2, SeekToFirstFacts
      <4>2. CASE e.key # first
        <5> HIDE DEF new, first
        <5> QED BY <1>3, <2>1, <4>1, <4>2
      <4>3. CASE e.key = first /\ After(db, first) = EmptyStr
        <5>1. \A k \in DOMAIN db : k = first
          BY <1>1, <1>2, <4>1, <4>3, AfterFacts
        <5>2. DOMAIN new = {}
          BY <2>1, <4>3, <5>1
        <5> HIDE DEF new
        <5> QED BY <4>3, <5>2, SeekToFirstFacts
      <4>4. CASE e.key = first /\ After(db, first) # EmptyStr
        <5>1. /\ After(db, first) \in DOMAIN db /\ first < After(db, first)
              /\ \A x \in DOMAIN db : first < x => After(db, first) <= x
          BY <1>1, <1>2, <4>1, <4>4, AfterFacts
        <5> HIDE DEF new, first
        <5>2. After(db, first) \in DOMAIN new /\ \A k \in DOMAIN new : After(db, first) <= k
          BY <1>1, <1>2, <2>1, <4>1, <4>4, <5>1
        <5> QED BY <1>3, <4>4, <5>2
      <4> QED BY <4>2, <4>3, <4>4
    <3> QED BY <3>1, <3>2
  <2>4. hi = SeekToLast(new)
    <3>1. CASE DOMAIN db = {}
      <4>1. last = EmptyStr /\ hi = EmptyStr
        BY <1>1, <1>2, <3>1, SeekToLastFacts
      <4> HIDE DEF new
      <4> QED BY <1>1, <2>1, <3>1, <4>1, SeekToLastFacts
    <3>2. CASE DOMAIN db # {}
      <4>1. last \in DOMAIN db /\ \A k \in DOMAIN db : k <= last
        BY <1>1, <3>2, SeekToLastFacts
      <4>2. CASE e.key # last
        <5> HIDE DEF new, last
        <5> QED BY <1>4, <2>1, <4>1, <4>2
      <4>3. CASE e.key = last /\ Before(db, last) = EmptyStr
        <5>1. \A k \in DOMAIN db : k = last
          BY <1>1, <1>2, <4>1, <4>3, BeforeFacts
        <5>2. DOMAIN new = {}
          BY <2>1, <4>3, <5>1
        <5> HIDE DEF new
        <5> QED BY <4>3, <5>2, SeekToLastFacts
      <4>4. CASE e.key = last /\ Before(db, last) # EmptyStr
        <5>1. /\ Before(db, last) \in DOMAIN db /\ Before(db, last) < last
              /\ \A x \in DOMAIN db : x < last => x <= Before(db, last)
          BY <1>1, <1>2, <4>1, <4>4, BeforeFacts
        <5> HIDE DEF new, last
        <5>2. Before(db, last) \in DOMAIN new /\ \A k \in DOMAIN new : k <= Before(db, last)
          BY <1>1, <1>2, <2>1, <4>1, <4>4, <5>1
        <5> QED BY <1>4, <4>4, <5>2
      <4> QED BY <4>2, <4>3, <4>4
    <3> QED BY <3>1, <3>2
  <2> QED BY <2>2, <2>3, <2>4
<1> QED BY <1>5, <1>6
=============================================================================
