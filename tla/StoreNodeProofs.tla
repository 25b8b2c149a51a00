-------------------------- MODULE StoreNodeProofs --------------------------
(***************************************************************************)
(* The properties of one store node over its whole life, for every number  *)
(* of keys, every set of values and all their lengths.                     *)
(*                                                                         *)
(* Inv adds to TypeOK what the log and the buffer hold: only entries that  *)
(* commit_log can apply; and a promise of the node is the answer to an     *)
(* entry that is still in the log, on the data as it is.                   *)
(***************************************************************************)
EXTENDS StoreNode, StoreOpsProofs

LogApplicable == \A e \in log : Applicable(e)

Buffered == last.cmd = "log" => Applicable(last.entry)

Promised == \A b \in promise : \E e \in log : b = LogReply(data, e)

Inv == TypeOK /\ LogApplicable /\ Buffered /\ Promised

LEMMA PutApplicable ==
  ASSUME NEW k \in Keys, NEW v \in Values
  PROVE  Applicable(PutEntry(k, v))
BY DEF Applicable, Entries, PutEntry, PUT

LEMMA DeleteApplicable ==
  ASSUME NEW k \in Keys
  PROVE  Applicable(DeleteEntry(k))
BY DEF Applicable, Entries, DeleteEntry, PUT, DELETE

LEMMA ReplyType ==
  ASSUME NEW db, IsDb(db, Values), NEW e, Applicable(e)
  PROVE  LogReply(db, e) \in [min : Keys \cup {EmptyStr}, max : Keys \cup {EmptyStr}]
<1>1. DOMAIN DataAfter(db, e) \subseteq Keys
  BY DataAfterType DEF IsDb
<1>2. /\ SeekToFirst(DataAfter(db, e)) \in Keys \cup {EmptyStr}
      /\ SeekToLast(DataAfter(db, e)) \in Keys \cup {EmptyStr}
  BY <1>1, SeekToFirstFacts, SeekToLastFacts
<1> QED BY <1>2, ReplyIsBounds

\* The two handlers that write, from any state of the node.
LEMMA HandleLogKeeps ==
  ASSUME Inv, NEW e, Applicable(e), HandleLog(e)
  PROVE  /\ IsDb(data', Values) /\ size' = size /\ log' \subseteq Entries
         /\ \A o \in log' : Applicable(o)
         /\ promise' \subseteq [min : Keys \cup {EmptyStr}, max : Keys \cup {EmptyStr}]
         /\ Promised'
<1>1. data' = data /\ size' = size /\ log' = log \cup {e}
      /\ promise' = {LogReply(data, e)}
  BY DEF HandleLog
<1>2. IsDb(data, Values) /\ e \in Entries
  BY DEF Inv, TypeOK, Applicable
<1> QED BY <1>1, <1>2, ReplyType DEF Inv, TypeOK, LogApplicable, Promised

LEMMA HandleCommitKeeps ==
  ASSUME Inv, data' = CommitData(data, log)
  PROVE  /\ IsDb(data', Values)
         /\ CommitSize(data, size, log) \in Int
         /\ ClearLog(log) \subseteq log
<1>1. IsDb(data, Values) /\ size \in Int /\ log \subseteq Entries /\ LogApplicable
  BY DEF Inv, TypeOK
<1> QED BY <1>1, CommitType, CommitSizeType DEF LogApplicable

LEMMA ClearLogSubset == \A lg : ClearLog(lg) \subseteq lg
BY DEF ClearLog

LEMMA InitInv == Init => Inv
<1> SUFFICES ASSUME Init PROVE Inv
  OBVIOUS
<1>1. TypeOK
  BY DEF Init, TypeOK, IsDb, Request, READ
<1> QED BY <1>1 DEF Init, Inv, LogApplicable, Buffered, Promised, Request

LEMMA NextInv == Inv /\ [Next]_vars => Inv'
<1> SUFFICES ASSUME Inv, [Next]_vars PROVE Inv'
  OBVIOUS
<1> USE DEF Inv
<1>1. ASSUME NEW e, Applicable(e), Log(e) PROVE Inv'
  <2>1. HandleLog(e)
    BY <1>1 DEF Log
  <2>2. conn' \in {"open", "down"} /\ last' = Request("log", e)
    BY <1>1 DEF Log
  <2>3. last'.cmd = "log" /\ last'.entry = e /\ e \in Entries
    BY <1>1, <2>2 DEF Request, Applicable
  <2> QED BY <1>1, <2>1, <2>2, <2>3, HandleLogKeeps DEF TypeOK, LogApplicable, Buffered, Promised
<1>2. CASE CommitLog
  <2>1. HandleCommit
    BY <1>2 DEF CommitLog
  <2>2. data' = CommitData(data, log) /\ size' = CommitSize(data, size, log)
        /\ log' = ClearLog(log) /\ promise' = {}
    BY <2>1 DEF HandleCommit
  <2>3. conn' \in {"open", "down"} /\ last' = Request("CLG", NoEntry) /\ last'.cmd = "CLG"
    BY <1>2 DEF CommitLog, Request
  <2> QED BY <2>2, <2>3, HandleCommitKeeps DEF TypeOK, LogApplicable, Buffered, Promised
<1>3. CASE DelLog
  <2>1. data' = data /\ size' = size /\ log' = ClearLog(log) /\ promise' = {}
    BY <1>3 DEF DelLog, HandleDelLog
  <2>2. conn' \in {"open", "down"} /\ last' = Request("dlg", NoEntry) /\ last'.cmd = "dlg"
    BY <1>3 DEF DelLog, Request
  <2> QED BY <2>1, <2>2, ClearLogSubset DEF TypeOK, LogApplicable, Buffered, Promised
<1>4. ASSUME NEW c \in {READ, "test"}, Query(c) PROVE Inv'
  <2>1. last' = Request(c, NoEntry) /\ last'.cmd = c
    BY <1>4 DEF Query, Request
  <2>2. c \in {"read", "test"}
    BY <1>4 DEF READ
  <2> QED BY <1>4, <2>1, <2>2 DEF Query, TypeOK, LogApplicable, Buffered, Promised, READ
<1>5. CASE HangUp
  BY <1>5 DEF HangUp, TypeOK, LogApplicable, Buffered, Promised
<1>6. CASE Replay
  <2>1. conn' \in {"eof", "down"} /\ last' = last
    BY <1>6 DEF Replay
  <2>2. CASE last.cmd = "log" /\ HandleLog(last.entry)
    <3>1. Applicable(last.entry)
      BY <2>2 DEF Buffered
    <3> QED BY <2>1, <2>2, <3>1, HandleLogKeeps DEF TypeOK, LogApplicable, Buffered, Promised
  <2>3. CASE last.cmd = "CLG" /\ HandleCommit
    <3>1. data' = CommitData(data, log) /\ size' = CommitSize(data, size, log)
          /\ log' = ClearLog(log) /\ promise' = {}
      BY <2>3 DEF HandleCommit
    <3> QED BY <2>1, <2>3, <3>1, HandleCommitKeeps DEF TypeOK, LogApplicable, Buffered, Promised
  <2>4. CASE last.cmd = "dlg" /\ HandleDelLog
    <3>1. data' = data /\ size' = size /\ log' = ClearLog(log) /\ promise' = {}
      BY <2>4 DEF HandleDelLog
    <3> QED BY <2>1, <2>4, <3>1, ClearLogSubset DEF TypeOK, LogApplicable, Buffered, Promised
  <2>5. CASE last.cmd = READ /\ UNCHANGED <<data, size, log, promise>>
    BY <2>1, <2>5 DEF TypeOK, LogApplicable, Buffered, Promised
  <2> QED BY <1>6, <2>2, <2>3, <2>4, <2>5 DEF Replay
<1>7. CASE Die
  BY <1>7 DEF Die, TypeOK, LogApplicable, Buffered, Promised
<1>8. CASE DieInCommit
  <2>1. data' = CommitData(data, log) /\ conn' = "down"
        /\ promise' = {} /\ UNCHANGED <<size, log, last>>
    BY <1>8 DEF DieInCommit
  <2> QED BY <2>1, HandleCommitKeeps DEF TypeOK, LogApplicable, Buffered, Promised
<1>9. CASE Start
  <2>1. /\ data' = data /\ log' = log /\ size' = DbSize(data) /\ conn' = "open"
        /\ last' = Request("none", NoEntry) /\ last'.cmd = "none"
        /\ promise' = {}
    BY <1>9 DEF Start, Request
  <2>2. DbSize(data) \in Int
    BY TermsType DEF TypeOK
  <2> QED BY <2>1, <2>2 DEF TypeOK, LogApplicable, Buffered, Promised
<1>10. CASE UNCHANGED vars
  BY <1>10 DEF vars, TypeOK, LogApplicable, Buffered, Promised
<1>11. ASSUME NEW k \in Keys, NEW v \in Values, Log(PutEntry(k, v)) PROVE Inv'
  BY <1>1, <1>11, PutApplicable
<1>12. ASSUME NEW k \in Keys, Log(DeleteEntry(k)) PROVE Inv'
  BY <1>1, <1>12, DeleteApplicable
<1> QED
  BY <1>2, <1>3, <1>4, <1>5, <1>6, <1>7, <1>8, <1>9, <1>10, <1>11, <1>12 DEF Next

\* The node only ever holds well-formed data, log entries and buffers.
THEOREM TypeCorrect == Spec => []TypeOK
<1>1. Inv => TypeOK
  BY DEF Inv
<1> QED BY InitInv, NextInv, <1>1, PTL DEF Spec

LEMMA InvHolds == Spec => []Inv
BY InitInv, NextInv, PTL DEF Spec

\* While no client stores an empty value, the counter store_data keeps beside
\* its database never drifts from it: not over overwrites, deletes of missing
\* keys, commits served twice from an old buffer, or deaths and restarts.
THEOREM SizeIsExact ==
  ASSUME EmptyStr \notin Values
  PROVE  Spec => []SizeExact
<1>1. Init => SizeExact
  <2> SUFFICES ASSUME Init PROVE SizeExact
    OBVIOUS
  <2>1. size = 0 /\ DOMAIN data = {}
    BY DEF Init
  <2> QED BY <2>1, EmptySize DEF SizeExact
<1>2. SizeExact /\ Inv /\ [Next]_vars => SizeExact'
  <2> SUFFICES ASSUME SizeExact, Inv, [Next]_vars PROVE SizeExact'
    OBVIOUS
  <2>0. IsDb(data, Values) /\ log \subseteq Entries /\ \A e \in log : Applicable(e)
    BY DEF Inv, TypeOK, LogApplicable
  <2>1. ASSUME HandleCommit, conn # "down" PROVE SizeExact'
    <3>1. size = DbSize(data)
      BY <2>1 DEF SizeExact
    <3>2. data' = CommitData(data, log) /\ size' = CommitSize(data, size, log)
      BY <2>1 DEF HandleCommit
    <3> QED BY <2>0, <3>1, <3>2, CommitKeepsSize DEF SizeExact
  <2>2. ASSUME UNCHANGED <<data, size>>, conn # "down" PROVE SizeExact'
    BY <2>2 DEF SizeExact
  <2>3. ASSUME NEW e, Log(e) PROVE SizeExact'
    BY <2>2, <2>3 DEF Log, HandleLog
  <2>4. CASE CommitLog
    BY <2>1, <2>4 DEF CommitLog
  <2>5. CASE DelLog
    BY <2>2, <2>5 DEF DelLog, HandleDelLog
  <2>6. ASSUME NEW c, Query(c) PROVE SizeExact'
    BY <2>2, <2>6 DEF Query
  <2>7. CASE HangUp
    BY <2>2, <2>7 DEF HangUp
  <2>8. CASE Replay
    <3>1. conn = "eof"
      BY <2>8 DEF Replay
    <3> QED BY <2>1, <2>2, <2>8, <3>1 DEF Replay, HandleLog, HandleDelLog
  <2>9. CASE Die \/ DieInCommit
    BY <2>9 DEF Die, DieInCommit, SizeExact
  <2>10. CASE Start
    BY <2>10 DEF Start, SizeExact
  <2>11. CASE UNCHANGED vars
    BY <2>11 DEF vars, SizeExact
  <2> QED BY <2>3, <2>4, <2>5, <2>6, <2>7, <2>8, <2>9, <2>10, <2>11 DEF Next
<1> QED BY <1>1, <1>2, InvHolds, PTL DEF Spec

\* The commit of any log, the one step that changes data or takes entries out.
LEMMA CommitApplies ==
  ASSUME Inv, log # {}
  PROVE  /\ GetLog(log) \in log
         /\ CommitData(data, log) = DataAfter(data, GetLog(log))
         /\ log \ ClearLog(log) = {GetLog(log)}
<1>1. GetLog(log) \in log
  BY GetLogIn DEF Inv, TypeOK
<1> QED BY <1>1 DEF CommitData, ClearLog

\* The data of a node changes only by an entry that its log holds.
THEOREM IsWriteAhead == Spec => WriteAhead
<1>1. Inv /\ [Next]_vars =>
        [data' # data => \E e \in log : data' = DataAfter(data, e)]_vars
  <2> SUFFICES ASSUME Inv, Next, data' # data
               PROVE  \E e \in log : data' = DataAfter(data, e)
    BY DEF vars
  <2>1. data' = CommitData(data, log)
    BY DEF Next, Log, HandleLog, CommitLog, HandleCommit, DelLog, HandleDelLog,
           Query, HangUp, Replay, Die, DieInCommit, Start
  <2>2. log # {}
    BY <2>1 DEF CommitData
  <2> QED BY <2>1, <2>2, CommitApplies
<1> QED BY <1>1, InvHolds, PTL DEF Spec, WriteAhead

\* An entry leaves the log only as it is applied, or by a DEL_LOG.
THEOREM LogLeavesApplied == Spec => LeavesLogApplied
<1>1. Inv /\ [Next]_vars =>
        [\A e \in log \ log' :
           \/ data' = DataAfter(data, e)
           \/ last'.cmd = "dlg"]_vars
  <2> SUFFICES ASSUME Inv, Next, NEW e \in log \ log'
               PROVE  data' = DataAfter(data, e) \/ last'.cmd = "dlg"
    BY DEF vars
  <2>1. HandleCommit \/ last'.cmd = "dlg"
    BY DEF Next, Log, HandleLog, CommitLog, DelLog, Query, HangUp, Replay, Die,
           DieInCommit, Start, Request
  <2>2. ASSUME HandleCommit PROVE data' = DataAfter(data, e)
    BY <2>2, CommitApplies DEF HandleCommit
  <2> QED BY <2>1, <2>2
<1> QED BY <1>1, InvHolds, PTL DEF Spec, LeavesLogApplied

\* What log_log answers from the data before the commit are the bounds of the
\* data after it, whenever no older entry is left in the log.
THEOREM ReplyIsPrediction == Spec => []ReplyPredictsCommit
<1>1. Inv => ReplyPredictsCommit
  <2> SUFFICES ASSUME Inv, NEW b \in promise, NEW e \in log, log = {e}
               PROVE  /\ b.min = SeekToFirst(CommitData(data, log))
                      /\ b.max = SeekToLast(CommitData(data, log))
    BY DEF ReplyPredictsCommit
  <2>1. Applicable(e) /\ b = LogReply(data, e)
    BY DEF Inv, LogApplicable, Promised
  <2>2. CommitData(data, log) = DataAfter(data, e)
    BY OneEntry DEF CommitData
  <2>3. IsDb(data, Values)
    BY DEF Inv, TypeOK
  <2> QED BY <2>1, <2>2, <2>3, ReplyIsBounds
<1> QED BY <1>1, InvHolds, PTL
=============================================================================
