------------------------------ MODULE DBHandle ------------------------------
(***************************************************************************)
(* An ordered key-value database as the program uses it: the operations of *)
(* class DB_Handle (src/my_code/db_handle) over one RocksDB instance.      *)
(*                                                                         *)
(* A database is a function from the keys it holds to their values.        *)
(* RocksDB orders keys bytewise; the only thing the program observes of a  *)
(* key is that order, its equality and its length, so a string is          *)
(* represented by its rank among the strings that occur: 0 is the empty    *)
(* string, which sorts first, and Keys are the nonempty ones.  An iterator *)
(* is represented by the key it stands on.  Every place in the program     *)
(* that reads the key of an iterator which is not Valid() uses "" instead, *)
(* so an invalid iterator is EmptyStr here.  A RocksDB iterator reads the  *)
(* snapshot taken when it was created, which is what evaluating it on the  *)
(* unprimed database gives.                                                *)
(***************************************************************************)
EXTENDS Integers, FiniteSetsExt

CONSTANT MaxKey    \* the number of distinct nonempty keys

ASSUME MaxKeyAssumption == MaxKey \in Nat \ {0}

EmptyStr == 0

Keys == 1 .. MaxKey

\* A database with values in V.
IsDb(db, V) == DOMAIN db \subseteq Keys /\ db \in [DOMAIN db -> V]

Lesser(a, b) == IF b < a THEN b ELSE a       \* std::min on strings

Greater(a, b) == IF a < b THEN b ELSE a      \* std::max on strings

-----------------------------------------------------------------------------
(* What an iterator can do.                                                *)

SeekToFirst(db) == IF DOMAIN db = {} THEN EmptyStr ELSE Min(DOMAIN db)

SeekToLast(db) == IF DOMAIN db = {} THEN EmptyStr ELSE Max(DOMAIN db)

\* Next() from key k.  It is also Seek() to k followed by a NUL byte, the
\* target get_smaller_or_equal_but_as_large_as_possible seeks: no key holds a
\* NUL, so the first key at or after it is the first key after k.
After(db, k) ==
  LET above == {x \in DOMAIN db : k < x}
  IN  IF above = {} THEN EmptyStr ELSE Min(above)

\* Prev() from key k.
Before(db, k) ==
  LET below == {x \in DOMAIN db : x < k}
  IN  IF below = {} THEN EmptyStr ELSE Max(below)

-----------------------------------------------------------------------------
(* The operations of DB_Handle.                                            *)

DbPut(db, k, v) == [x \in DOMAIN db \cup {k} |-> IF x = k THEN v ELSE db[x]]

DbDelete(db, k) == [x \in DOMAIN db \ {k} |-> db[x]]

DbGet(db, k) == IF k \in DOMAIN db THEN db[k] ELSE EmptyStr

\* Where get_smaller_or_equal_but_as_large_as_possible leaves the iterator.
SmallerOrEqual(db, k) ==
  LET at == After(db, k)
  IN  IF at = EmptyStr THEN SeekToLast(db)
      ELSE IF at = k THEN k
      ELSE IF Before(db, at) = EmptyStr THEN SeekToFirst(db)
      ELSE Before(db, at)

\* What that operation is for: the largest key not above k, and the smallest
\* key of all when every key is above k.
Floor(db, k) ==
  LET below == {x \in DOMAIN db : x <= k}
  IN  IF below = {} THEN Min(DOMAIN db) ELSE Max(below)

StoreLessOrEqualOne(db) == \A j, k \in DOMAIN db : j = k
=============================================================================
