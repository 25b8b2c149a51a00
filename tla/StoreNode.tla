----------------------------- MODULE StoreNode -----------------------------
(***************************************************************************)
(* One store node (src/my_code/store_node/store_impl.cpp) over its whole   *)
(* life: the request loop run(), the end of the control node at any        *)
(* moment, the death of the process and its next start on the databases it *)
(* left.                                                                   *)
(*                                                                         *)
(* The node serves one connection for as long as it lives.  When the peer  *)
(* closes it, recv returns 0 and leaves receive_buff as it was; run() does *)
(* not look at what recv returns, so it serves the request in the buffer   *)
(* again and again, until the signal that answering a closed connection    *)
(* raises ends the process.                                                *)
(*                                                                         *)
(* The node takes the requests in whatever order they come.  While every   *)
(* other process is up that is LOG, then COMMIT_LOG; but when another node *)
(* fails, re_balance sends DEL_LOG and COMMIT_LOG both, or leaves a LOG    *)
(* without either (ClusterFaults checks that it sends nothing else).       *)
(* RocksDB writes reach the operating system before Put returns, so the    *)
(* death of the process loses none of them.                                *)
(***************************************************************************)
EXTENDS StoreOps

VARIABLES
  data,    \* storeData: the data database
  size,    \* storeData.size
  log,     \* storeLog: the log database
  conn,    \* "open", "eof" (the peer is gone) or "down" (no process)
  last,    \* the request in receive_buff
  promise  \* the bounds answered to the last LOG, until a commit or a DEL_LOG

vars == <<data, size, log, conn, last, promise>>

NoEntry == [kind |-> PUT, key |-> EmptyStr, val |-> EmptyStr]

\* A request in the buffer: its command, and the entry that a LOG carries.
Request(c, e) == [cmd |-> c, entry |-> e]

\* The requests that only read and answer: GET, SIZE, LESS_OR_EQUAL_ONE,
\* MAX_KEY, MIN_KEY.
READ == "read"

-----------------------------------------------------------------------------
(* The handlers: what run() does for each kind of request.                 *)

\* Mutant: the entry is applied when it is logged.
HandleLogEager(e) ==
  /\ log' = log \cup {e}
  /\ promise' = {LogReply(data, e)}
  /\ data' = DataAfter(data, e)
  /\ size' = SizeAfter(data, size, e)

HandleLog(e) ==
  /\ log' = log \cup {e}
  /\ promise' = {LogReply(data, e)}
  /\ UNCHANGED <<data, size>>

HandleCommit ==
  /\ data' = CommitData(data, log)
  /\ size' = CommitSize(data, size, log)
  /\ log' = ClearLog(log)
  /\ promise' = {}

HandleDelLog ==
  /\ log' = ClearLog(log)
  /\ promise' = {}
  /\ UNCHANGED <<data, size>>

-----------------------------------------------------------------------------
(* Requests from a live control node.  The process may die once it has     *)
(* handled one and before it has answered.                                 *)

Log(e) ==
  /\ conn = "open"
  /\ HandleLog(e)
  /\ last' = Request("log", e)
  /\ conn' \in {"open", "down"}

CommitLog ==
  /\ conn = "open"
  /\ HandleCommit
  /\ last' = Request("CLG", NoEntry)
  /\ conn' \in {"open", "down"}

DelLog ==
  /\ conn = "open"
  /\ HandleDelLog
  /\ last' = Request("dlg", NoEntry)
  /\ conn' \in {"open", "down"}

\* A request that reads, or TEST, which has no answer.
Query(c) ==
  /\ conn = "open"
  /\ last' = Request(c, NoEntry)
  /\ UNCHANGED <<data, size, log, conn, promise>>

-----------------------------------------------------------------------------
(* The control node goes away; the node serves its buffer until it dies.   *)

HangUp ==
  /\ conn = "open"
  /\ conn' = "eof"
  /\ UNCHANGED <<data, size, log, last, promise>>

\* One more pass of run() over the old buffer.  The first answer to a closed
\* connection may still be accepted by the kernel; a later one is fatal.
Replay ==
  /\ conn = "eof"
  /\ \/ last.cmd = "log" /\ HandleLog(last.entry)
     \/ last.cmd = "CLG" /\ HandleCommit
     \/ last.cmd = "dlg" /\ HandleDelLog
     \/ last.cmd = READ /\ UNCHANGED <<data, size, log, promise>>
  /\ conn' \in {"eof", "down"}
  /\ UNCHANGED last

\* The process dies between two requests, or is killed by its operator (with
\* TEST or nothing in its buffer it never answers, and spins until then).
Die ==
  /\ conn # "down"
  /\ conn' = "down"
  /\ UNCHANGED <<data, size, log, last, promise>>

\* The process dies inside commit_log, after the change of the data and before
\* the change of the log.
DieInCommit ==
  /\ \/ conn = "open"
     \/ conn = "eof" /\ last.cmd = "CLG"
  /\ data' = CommitData(data, log)
  /\ conn' = "down"
  /\ promise' = {}
  /\ UNCHANGED <<size, log, last>>

\* Mutant: the bytes are not counted anew.
StartKeepingSize ==
  /\ conn = "down"
  /\ conn' = "open"
  /\ last' = Request("none", NoEntry)
  /\ promise' = {}
  /\ UNCHANGED <<data, size, log>>

\* The process starts on the databases it finds, counts the bytes of the data,
\* leaves the log alone and waits for a control node.
Start ==
  /\ conn = "down"
  /\ size' = DbSize(data)
  /\ conn' = "open"
  /\ last' = Request("none", NoEntry)
  /\ promise' = {}
  /\ UNCHANGED <<data, log>>

Init ==
  /\ data = [k \in {} |-> EmptyStr]
  /\ size = 0
  /\ log = {}
  /\ conn = "open"
  /\ last = Request("none", NoEntry)
  /\ promise = {}

Next ==
  \/ \E k \in Keys : \/ \E v \in Values : Log(PutEntry(k, v))
                     \/ Log(DeleteEntry(k))
  \/ CommitLog
  \/ DelLog
  \/ \E c \in {READ, "test"} : Query(c)
  \/ HangUp
  \/ Replay
  \/ Die
  \/ DieInCommit
  \/ Start

Spec == Init /\ [][Next]_vars

-----------------------------------------------------------------------------
(* Properties.                                                             *)

\* The variables have the types the program gives them.
TypeOK ==
  /\ IsDb(data, Values)
  /\ size \in Int
  /\ log \subseteq Entries
  /\ conn \in {"open", "eof", "down"}
  /\ last.cmd \in {"none", "log", "CLG", "dlg", READ, "test"}
  /\ last.cmd = "log" => last.entry \in Entries
  /\ promise \subseteq [min : Keys \cup {EmptyStr}, max : Keys \cup {EmptyStr}]

\* store_data::size counts the bytes of what the node stores, through
\* overwrites, deletes of missing keys, replayed commits and restarts.
SizeExact == conn # "down" => size = DbSize(data)

\* Write-ahead: the data changes only by an entry that is in the log.
WriteAhead == [][data' # data => \E e \in log : data' = DataAfter(data, e)]_vars

\* An entry leaves the log only when it is applied to the data by that step,
\* or by a DEL_LOG.
LeavesLogApplied ==
  [][\A e \in log \ log' :
       \/ data' = DataAfter(data, e)
       \/ last'.cmd = "dlg"]_vars

\* The answer to a LOG request: when no older entry is pending, its bounds are
\* the smallest and largest key the node will hold after the commit, whatever
\* requests, deaths and starts came before.
ReplyPredictsCommit ==
  \A b \in promise : \A e \in log : log = {e} =>
    /\ b.min = SeekToFirst(CommitData(data, log))
    /\ b.max = SeekToLast(CommitData(data, log))

\* What Store_Log::clear_log is documented to do: empty the log.
ClearLogEmpties == [][DelLog => log' = {}]_vars
=============================================================================
