------------------------------ MODULE StoreOps ------------------------------
(***************************************************************************)
(* The operations of one store node (src/my_code/store_node) on its        *)
(* persistent state: the data database with the byte counter kept beside   *)
(* it (store_data), the log database (Store_Log), and the two handlers     *)
(* that use both (store_impl::log_log and store_impl::commit_log).         *)
(*                                                                         *)
(* A pending log entry is a KEY of the log database, encoded with its kind *)
(* first, then the length of its key, the key, the length of its value and *)
(* the value; the log is therefore a set of entries ordered by that        *)
(* encoding.                                                               *)
(***************************************************************************)
EXTENDS DBHandle

CONSTANTS Values,    \* the values clients store; 0 is the empty string
          KeyLen,    \* length of a key, without the terminating NUL
          ValLen     \* length of a value

ASSUME ValuesAssumption == Values \subseteq Nat
ASSUME KeyLenAssumption == KeyLen \in [Keys -> Nat \ {0}]
ASSUME ValLenAssumption ==
  /\ ValLen \in [Values \cup {EmptyStr} -> Nat]
  /\ \A v \in Values \cup {EmptyStr} : ValLen[v] = 0 <=> v = EmptyStr

PUT == 0          \* enum LOG_KIND
DELETE == 1

Entries == [kind : {PUT, DELETE}, key : Keys, val : Values \cup {EmptyStr}]

PutEntry(k, v) == [kind |-> PUT, key |-> k, val |-> v]

DeleteEntry(k) == [kind |-> DELETE, key |-> k, val |-> EmptyStr]

-----------------------------------------------------------------------------
(* store_data: the contents and the byte counter.                          *)

\* What an entry adds to the counter: both strings with their NUL.
Weight(k, v) == (KeyLen[k] + 1) + (ValLen[v] + 1)

\* c[1] + ... + c[m]: the running total of a counting loop.
SumUpTo(c, m) ==
  LET sum[k \in 0 .. m] == IF k = 0 THEN 0 ELSE sum[k - 1] + c[k]
  IN  sum[m]

\* DB_Handle::get_size: one pass over the database in key order.
DbSize(db) ==
  SumUpTo([k \in Keys |-> IF k \in DOMAIN db THEN Weight(k, db[k]) ELSE 0],
          MaxKey)

\* Mutant: the old value of an overwritten or deleted key stays counted.
SizeWithoutNothing(db, sz, k) == sz

\* The counter once the present value of k is taken out of it.  The code takes
\* an empty answer of get() for "no such key".
SizeWithout(db, sz, k) ==
  IF ValLen[DbGet(db, k)] # 0 THEN sz - Weight(k, DbGet(db, k)) ELSE sz

\* Mutant: a delete stores an empty value.
DataAfterTombstone(db, e) ==
  DbPut(db, e.key, IF e.kind = PUT THEN e.val ELSE EmptyStr)

DataAfter(db, e) ==
  IF e.kind = PUT THEN DbPut(db, e.key, e.val) ELSE DbDelete(db, e.key)

SizeAfter(db, sz, e) ==
  SizeWithout(db, sz, e.key) + (IF e.kind = PUT THEN Weight(e.key, e.val) ELSE 0)

-----------------------------------------------------------------------------
(* Store_Log: the pending entries.                                         *)

\* A length as its stored bytes compare: it counts the NUL, and its low byte comes
\* first.  A length fits in two of its bytes, as a message does.
StoredLen(len) == ((len + 1) % 256) * 256 + (len + 1) \div 256

\* The bytewise order of two encoded entries.
EntryLess(a, b) ==
  LET fields(e) == <<e.kind, StoredLen(KeyLen[e.key]), e.key,
                     StoredLen(ValLen[e.val]), e.val>>
  IN  \E i \in 1 .. 5 : /\ fields(a)[i] < fields(b)[i]
                        /\ \A j \in 1 .. i - 1 : fields(a)[j] = fields(b)[j]

\* get_log: the first key of the log database.
GetLog(lg) == CHOOSE e \in lg : \A o \in lg \ {e} : EntryLess(e, o)

\* Mutant: every entry is dropped, the ones not applied too.
ClearLogWhole(lg) == {}

\* clear_log: deletes the first key of the log database, if there is one.
ClearLog(lg) == IF lg = {} THEN lg ELSE lg \ {GetLog(lg)}

-----------------------------------------------------------------------------
(* store_impl: the handlers.                                               *)

\* Mutant: the key to be deleted may still be reported as a bound.
LogReplyStale(db, e) ==
  LET first == SeekToFirst(db)
      last  == SeekToLast(db)
  IN  IF e.kind = PUT
      THEN IF first = EmptyStr
           THEN [min |-> e.key, max |-> e.key]
           ELSE [min |-> Lesser(first, e.key), max |-> Greater(e.key, last)]
      ELSE [min |-> first, max |-> last]

\* The smallest and largest key the node will hold once e is committed, as
\* log_log computes them for its answer to a LOG request; "" for none.
LogReply(db, e) ==
  LET first == SeekToFirst(db)
      last  == SeekToLast(db)
  IN  IF e.kind = PUT
      THEN IF first = EmptyStr
           THEN [min |-> e.key, max |-> e.key]
           ELSE [min |-> Lesser(first, e.key), max |-> Greater(e.key, last)]
      ELSE [min |-> IF e.key = first THEN After(db, first) ELSE first,
            max |-> IF e.key = last THEN Before(db, last) ELSE last]

\* commit_log on the data and on the counter; an empty log ("log_error")
\* changes neither.
CommitData(db, lg) == IF lg = {} THEN db ELSE DataAfter(db, GetLog(lg))

CommitSize(db, sz, lg) == IF lg = {} THEN sz ELSE SizeAfter(db, sz, GetLog(lg))
=============================================================================
