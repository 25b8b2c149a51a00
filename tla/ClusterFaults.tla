--------------------------- MODULE ClusterFaults ---------------------------
(***************************************************************************)
(* The cluster when processes end: the control node or a store node, at    *)
(* any request of any command, and the start of all of them on what they   *)
(* left.  A step is one request, or one write of the metadata database.    *)
(*                                                                         *)
(* Neither side looks at what send and recv return.  A request to a store  *)
(* node that is gone is accepted by the kernel and not answered: the       *)
(* control node goes on with what receive_buff held before.  Once the      *)
(* reset of the connection has come back, the next request to that node    *)
(* raises the signal that ends the control node.  A store node whose       *)
(* control node is gone serves the request in its buffer again until it    *)
(* ends the same way (see StoreNode).  Nothing reconnects, so the          *)
(* processes are started again together.                                   *)
(*                                                                         *)
(* The control node may also end between sending a request and reading the *)
(* answer; what it would have done with the answer is lost with it, so     *)
(* that is its end right after the exchange.                               *)
(***************************************************************************)
EXTENDS Cluster, Sequences

CONSTANTS MaxFaults,    \* how often a process may end by itself
          MaxLives,     \* how often the processes are started
          StoresEnd,    \* TRUE: store nodes may; FALSE: the control node only
          OkKeys,       \* the key that is spelled "ok", if it is among Keys
          OkVals        \* the value that is spelled "ok", if it is among Values

ASSUME BoundsAssumption ==
  MaxFaults \in Nat /\ MaxLives \in Nat \ {0} /\ StoresEnd \in BOOLEAN

ASSUME OkAssumption ==
  /\ OkKeys \subseteq {k \in Keys : KeyLen[k] = 2}
  /\ OkVals \subseteq {v \in Values : ValLen[v] = 2}

VARIABLES
  conn,      \* per store node: "open", "eof" (no control node) or "down"
  last,      \* per store node: the request in its receive_buff
  promise,   \* per store node: the bounds it answered to an open LOG
  reset,     \* per store node, "yes", "no" or "maybe": its connection was reset
  buf,       \* the control node's receive_buff
  ok,        \* can_commit
  edits,     \* the writes of the metadata database still to be done
  cursor,    \* where the iterator of show_meta stands
  told,      \* the map the client was told of: the commands answered "ok"
  faults,    \* how often a process has ended by itself
  life       \* how often the processes were started

storeLife == <<conn, last, promise>>
netVars == <<storeLife, reset, buf, faults>>
localVars == <<ok, edits, cursor, told>>
faultVars == <<netVars, localVars, life>>
allVars == <<vars, faultVars>>

NoEntry == [kind |-> PUT, key |-> EmptyStr, val |-> EmptyStr]

Request(c, e) == [cmd |-> c, entry |-> e]

READ == "read"

-----------------------------------------------------------------------------
(* receive_buff: the integer in its first four bytes, the string after it  *)
(* (what matters is whether it is "ok"), whether that integer is still the *)
(* length of that string, and the next two strings: what a LOG answered,   *)
(* or {} when it is anything.                                              *)

\* The answer to COMMIT_LOG and DEL_LOG.
OkAnswer == [head |-> 3, text |-> "ok", whole |-> TRUE, rest |-> {}]

\* The answer to LOG.
LogAnswer(b) == [OkAnswer EXCEPT !.rest = {b}]

\* A key or a value at the start: the answers to MAX_KEY, MIN_KEY and GET, and
\* a metadata entry, which to_slice writes into the same buffer.
TextAnswer(len, isOk) ==
  [head |-> len, text |-> IF isOk THEN "ok" ELSE "other", whole |-> TRUE, rest |-> {}]

\* The answer to SIZE and LESS_OR_EQUAL_ONE: four bytes, over an older answer.
IntAnswer(i) == [buf EXCEPT !.head = i, !.whole = FALSE, !.rest = {}]

\* Fresh memory: a length of zero.
FreshBuffer == [head |-> 0, text |-> "other", whole |-> FALSE, rest |-> {}]

\* Whether the first string of the buffer decodes to "ok".  A length of zero, or
\* one that cuts the string, leaves it to what the stack held.
IsOk(b) ==
  IF b.whole \/ (b.text = "ok" /\ b.head >= 3) THEN {b.text = "ok"} ELSE BOOLEAN

NextBounds(b) == IF b.rest = {} THEN Bounds ELSE b.rest

-----------------------------------------------------------------------------
(* One request of the control node to store node n.                        *)

\* The node handles it, as in StoreNode.
Serve(n, r) ==
  /\ data' = IF r.cmd = "CLG"
             THEN [data EXCEPT ![n] = CommitData(@, log[n])] ELSE data
  /\ size' = IF r.cmd = "CLG"
             THEN [size EXCEPT ![n] = CommitSize(data[n], @, log[n])] ELSE size
  /\ log' = CASE r.cmd = "log" -> [log EXCEPT ![n] = @ \cup {r.entry}]
              [] r.cmd \in {"CLG", "dlg"} -> [log EXCEPT ![n] = ClearLog(@)]
              [] OTHER -> log
  /\ promise' = CASE r.cmd = "log" ->
                       [promise EXCEPT ![n] = {LogReply(data[n], r.entry)}]
                  [] r.cmd \in {"CLG", "dlg"} -> [promise EXCEPT ![n] = {}]
                  [] OTHER -> promise
  /\ last' = [last EXCEPT ![n] = r]

Answered(n, r, answer) ==
  /\ conn[n] = "open"
  /\ Serve(n, r)
  /\ buf' = answer
  /\ UNCHANGED <<conn, reset, faults>>

\* The node dies before it answers: with the request handled, with half of
\* commit_log done, or with nothing done; if the request was not even read, its
\* death resets the connection.
DiesServing(n, r) ==
  /\ conn[n] = "open" /\ StoresEnd /\ faults < MaxFaults
  /\ \/ r.cmd # READ /\ Serve(n, r) /\ UNCHANGED reset
     \/ /\ r.cmd = "CLG"
        /\ data' = [data EXCEPT ![n] = CommitData(@, log[n])]
        /\ promise' = [promise EXCEPT ![n] = {}]
        /\ UNCHANGED <<size, log, last, reset>>
     \/ /\ reset' \in {reset, [reset EXCEPT ![n] = "yes"]}
        /\ UNCHANGED <<storeVars, promise, last>>
  /\ conn' = [conn EXCEPT ![n] = "down"]
  /\ faults' = faults + 1
  /\ UNCHANGED buf

\* Mutant: the control node waits for an answer that does not come.
UnansweredWaits(n) == FALSE

\* The node is gone: recv returns at once, perhaps before the reset that the
\* request provokes.
Unanswered(n) ==
  /\ conn[n] = "down" /\ reset[n] # "yes"
  /\ reset' = [reset EXCEPT ![n] = "maybe"]
  /\ UNCHANGED <<storeVars, storeLife, buf, faults>>

Exchange(n, r, answer) ==
  Answered(n, r, answer) \/ DiesServing(n, r) \/ Unanswered(n)

Log(n, e) == Exchange(n, Request("log", e), LogAnswer(LogReply(data[n], e)))

CommitLog(n) == Exchange(n, Request("CLG", NoEntry), OkAnswer)

DelLog(n) == Exchange(n, Request("dlg", NoEntry), OkAnswer)

Ask(n, answer) == Exchange(n, Request(READ, NoEntry), answer)

-----------------------------------------------------------------------------
(* Metadata: an entry is deleted, then put, in two writes.                 *)

DeleteEdit(e) == [op |-> "delete", entry |-> e]

PutEdit(e) == [op |-> "put", entry |-> e]

\* Mutant: the new entry is put before the old one is deleted, which deletes both
\* when they have the same min.
RekeyEditsPutFirst(old, new) == <<PutEdit(new), DeleteEdit(old)>>

RekeyEdits(old, new) == <<DeleteEdit(old), PutEdit(new)>>

\* An entry read through an iterator that is not valid.
NoEntryEdit == [op |-> "invalid", entry |-> NoBounds]

\* The first entry of each node, put one by one.
FirstEdits ==
  [i \in 1 .. N |->
     PutEdit([min |-> InitKey[i - 1], max |-> InitKey[i - 1], fd |-> i - 1])]

Constructing == req = Idle /\ mig = NoMigration

\* Mutant: the entry is encoded in a buffer of its own.
EncodedElsewhere(w) == buf

\* Where the entry of a put is encoded: in receive_buff, which then starts with
\* its min.  The constructor uses send_buff.
Encoded(w) ==
  IF Constructing \/ w.op = "delete" THEN buf
  ELSE TextAnswer(KeyLen[w.entry.min] + 1, w.entry.min \in OkKeys)

\* One write.
EditMeta ==
  LET e == Head(edits).entry
  IN  /\ pc = "edit"
      /\ Head(edits).op # "invalid"
      /\ meta' = IF Head(edits).op = "delete" THEN DbDelete(meta, e.min)
                                              ELSE DbPut(meta, e.min, e)
      /\ edits' = Tail(edits)
      /\ buf' = Encoded(Head(edits))
      /\ pc' = IF Tail(edits) # <<>> THEN "edit"
               ELSE IF Constructing THEN "idle"
               ELSE IF req # Idle THEN "commit"
               ELSE "commitSource"
      /\ UNCHANGED <<storeVars, ctlVars, loopVars, mig, storeLife, reset, faults,
                     ok, cursor, told, life>>

-----------------------------------------------------------------------------
(* The commands.                                                           *)

\* What the metadata entry m is to become once e is logged, with bounds b in the
\* answer.
Widened(m, e, b) ==
  WithRange(m, IF e.kind = PUT THEN Lesser(m.min, e.key) ELSE KeptMin(m.min, b.min),
               Greater(m.max, e.key))

\* put or del: LOG; any answer but "ok" only leads to re_balance.
Command(e) ==
  LET at == SmallerOrEqual(meta, e.key)
      m  == meta[at]
  IN  /\ pc = "idle"
      /\ Log(m.fd, e)
      /\ \E yes \in IsOk(buf') : \E b \in NextBounds(buf') :
           IF yes
           THEN /\ edits' = RekeyEdits(m, Widened(m, e, b))
                /\ req' = e /\ fd' = m.fd /\ pc' = "edit"
           ELSE pc' = "sum" /\ UNCHANGED <<edits, req, fd>>
      /\ UNCHANGED <<meta, out, loopVars, mig, ok, cursor, told, life>>

TryPut(k, v) == Command(PutEntry(k, v))

TryDel(k) == Command(DeleteEntry(k))

\* COMMIT_LOG of the command.
CommitCommand ==
  /\ pc = "commit"
  /\ CommitLog(fd)
  /\ \E yes \in IsOk(buf') : pc' = IF yes THEN "tell" ELSE "enter"
  /\ UNCHANGED <<meta, ctlVars, loopVars, mig, localVars, life>>

\* "log commit" is printed.
Tell ==
  /\ pc = "tell"
  /\ told' = DataAfter(told, req)
  /\ pc' = "enter"
  /\ UNCHANGED <<meta, storeVars, ctlVars, loopVars, mig, netVars, ok, edits, cursor,
                 life>>

\* re_balance() is called.
EnterReBalance ==
  /\ pc = "enter"
  /\ req' = Idle
  /\ fd' = 0
  /\ pc' = "sum"
  /\ UNCHANGED <<meta, storeVars, out, loopVars, mig, netVars, localVars, life>>

\* GET; without an answer it prints what the buffer held.
AskGet(k) ==
  LET n   == Route(k)
      ask == Request(READ, NoEntry)
      ans == DbGet(data[n], k)
  IN  /\ pc = "idle"
      /\ \/ Answered(n, ask, TextAnswer(ValLen[ans] + 1, ans \in OkVals)) /\ out' = ans
         \/ /\ DiesServing(n, ask) \/ Unanswered(n)
            /\ out' \in Values \cup {EmptyStr}
      /\ UNCHANGED <<meta, pc, req, fd, loopVars, mig, localVars, life>>

-----------------------------------------------------------------------------
(* re_balance().                                                           *)

AskSize ==
  /\ pc = "sum" /\ node < N
  /\ Ask(node, IntAnswer(size[node]))
  /\ total' = total + buf'.head
  /\ node' = node + 1
  /\ UNCHANGED <<meta, pc, ctlVars, phase, mig, localVars, life>>

\* not_too_much: SIZE, then LESS_OR_EQUAL_ONE when the share is exceeded.
CheckShare ==
  /\ pc = "loop" /\ InLoop
  /\ Ask(node, IntAnswer(size[node]))
  /\ IF buf'.head * 100 * N <= (100 + N) * total
     THEN node' = Peer /\ UNCHANGED pc
     ELSE pc' = "spare" /\ UNCHANGED node
  /\ UNCHANGED <<meta, ctlVars, phase, total, mig, localVars, life>>

CheckSpare ==
  /\ pc = "spare"
  /\ Ask(node, IntAnswer(IF StoreLessOrEqualOne(data[node]) THEN 1 ELSE 0))
  /\ IF buf'.head # 0
     THEN node' = Peer /\ pc' = "loop"
     ELSE pc' = "pick" /\ UNCHANGED node
  /\ UNCHANGED <<meta, ctlVars, phase, total, mig, localVars, life>>

\* MAX_KEY or MIN_KEY.  Without an answer, the buffer holds the 0 of the request
\* before it, and the key and value are what the stack held.
PickKey ==
  LET k == IF phase = "up" THEN SeekToLast(data[node]) ELSE SeekToFirst(data[node])
  IN  /\ pc = "pick"
      /\ \/ /\ Answered(node, Request(READ, NoEntry),
                        TextAnswer(KeyLen[k] + 1, k \in OkKeys))
            /\ mig' = [NoMigration EXCEPT !.key = k, !.val = data[node][k]]
         \/ /\ DiesServing(node, Request(READ, NoEntry)) \/ Unanswered(node)
            /\ \E g \in Keys, v \in Values :
                 mig' = [NoMigration EXCEPT !.key = g, !.val = v]
      /\ pc' = "logSource"
      /\ UNCHANGED <<meta, ctlVars, loopVars, localVars, life>>

\* LOG DELETE; an answer other than "ok" only clears can_commit.
TryLogSource ==
  /\ pc = "logSource"
  /\ Log(node, DeleteEntry(mig.key))
  /\ \E yes \in IsOk(buf') : ok' = yes
  /\ \E b \in NextBounds(buf') : mig' = [mig EXCEPT !.src = b]
  /\ pc' = "logPeer"
  /\ UNCHANGED <<meta, ctlVars, loopVars, edits, cursor, told, life>>

\* Mutant: the node the key moves to is not told.
TryLogPeerNot ==
  /\ pc = "logPeer"
  /\ pc' = "meta"
  /\ UNCHANGED <<meta, storeVars, ctlVars, loopVars, mig, netVars, localVars, life>>

\* LOG PUT at the neighbour.
TryLogPeer ==
  /\ pc = "logPeer"
  /\ Log(Peer, PutEntry(mig.key, mig.val))
  /\ \E yes \in IsOk(buf') :
       /\ ok' = (ok /\ yes)
       /\ pc' = IF ok /\ yes THEN "meta" ELSE "undoSource"
  /\ \E b \in NextBounds(buf') : mig' = [mig EXCEPT !.dst = b]
  /\ UNCHANGED <<meta, ctlVars, loopVars, edits, cursor, told, life>>

\* The roll-back, after which the code goes on as if nothing had happened.
UndoSource ==
  /\ pc = "undoSource"
  /\ DelLog(node)
  /\ pc' = "undoPeer"
  /\ UNCHANGED <<meta, ctlVars, loopVars, mig, localVars, life>>

UndoPeer ==
  /\ pc = "undoPeer"
  /\ DelLog(Peer)
  /\ pc' = "meta"
  /\ UNCHANGED <<meta, ctlVars, loopVars, mig, localVars, life>>

\* Mutant: both entries are deleted before they are put.
PlanEditsTogether ==
  LET at == SmallerOrEqual(meta, mig.key)
      nb == Neighbour(at)
  IN  /\ pc = "meta"
      /\ nb # EmptyStr
      /\ edits' = <<DeleteEdit(meta[at]), DeleteEdit(meta[nb]),
                    PutEdit(Rebound(meta[at], mig.src)),
                    PutEdit(Rebound(meta[nb], mig.dst))>>
      /\ pc' = "edit"
      /\ UNCHANGED <<meta, storeVars, ctlVars, loopVars, mig, netVars, ok, cursor,
                     told, life>>

\* The two entries as the iterator's snapshot shows them.
PlanEdits ==
  LET at == SmallerOrEqual(meta, mig.key)
      nb == Neighbour(at)
  IN  /\ pc = "meta"
      /\ edits' = RekeyEdits(meta[at], Rebound(meta[at], mig.src))
                    \o (IF nb = EmptyStr
                        THEN <<NoEntryEdit>>
                        ELSE RekeyEdits(meta[nb], Rebound(meta[nb], mig.dst)))
      /\ pc' = "edit"
      /\ UNCHANGED <<meta, storeVars, ctlVars, loopVars, mig, netVars, ok, cursor,
                     told, life>>

\* What a run of re_balance that ends leaves of its local variables: nothing.
LeaveReBalance ==
  /\ phase' = "up" /\ node' = 0 /\ total' = 0
  /\ mig' = NoMigration /\ ok' = TRUE

\* Mutant: the node the key leaves is not committed.
TryCommitSourceNot ==
  /\ pc = "commitSource"
  /\ pc' = "commitPeer"
  /\ UNCHANGED <<meta, storeVars, ctlVars, loopVars, mig, netVars, localVars, life>>

\* COMMIT_LOG at the node the key leaves; any answer but "ok" ends re_balance.
TryCommitSource ==
  /\ pc = "commitSource"
  /\ CommitLog(node)
  /\ \E yes \in IsOk(buf') :
       IF yes THEN pc' = "commitPeer" /\ UNCHANGED <<loopVars, mig, ok>>
              ELSE pc' = "idle" /\ LeaveReBalance
  /\ UNCHANGED <<meta, ctlVars, edits, cursor, told, life>>

TryCommitPeer ==
  /\ pc = "commitPeer"
  /\ CommitLog(Peer)
  /\ \E yes \in IsOk(buf') :
       IF yes THEN /\ pc' = "loop" /\ mig' = NoMigration /\ ok' = TRUE
                   /\ UNCHANGED loopVars
              ELSE pc' = "idle" /\ LeaveReBalance
  /\ UNCHANGED <<meta, ctlVars, edits, cursor, told, life>>

\* show_meta: one SIZE for each metadata entry.
BeginShow ==
  /\ pc = "loop" /\ phase = "down" /\ ~InLoop
  /\ pc' = "show"
  /\ cursor' = SeekToFirst(meta)
  /\ LeaveReBalance
  /\ UNCHANGED <<meta, storeVars, ctlVars, netVars, edits, told, life>>

\* Mutant: the end of the metadata is not noticed.
ShowPastEnd ==
  /\ pc = "show" /\ cursor # EmptyStr
  /\ Ask(meta[cursor].fd, IntAnswer(size[meta[cursor].fd]))
  /\ cursor' = After(meta, cursor)
  /\ UNCHANGED <<meta, pc, ctlVars, loopVars, mig, ok, edits, told, life>>

Show ==
  /\ pc = "show" /\ cursor # EmptyStr
  /\ Ask(meta[cursor].fd, IntAnswer(size[meta[cursor].fd]))
  /\ cursor' = After(meta, cursor)
  /\ pc' = IF After(meta, cursor) = EmptyStr THEN "idle" ELSE "show"
  /\ UNCHANGED <<meta, ctlVars, loopVars, mig, ok, edits, told, life>>

-----------------------------------------------------------------------------
(* Ends and starts.                                                        *)

\* The control node is gone, and every store node that is up reads the end of
\* its connection.  What its local variables were is kept until the next start,
\* for the properties.
ControlGone ==
  /\ pc' = "down"
  /\ conn' = [n \in Nodes |-> IF conn[n] = "open" THEN "eof" ELSE conn[n]]
  /\ UNCHANGED <<meta, storeVars, ctlVars, loopVars, mig, last, promise, reset, buf,
                 localVars, life>>

\* The control node ends by itself, quit included.
ControlEnds ==
  /\ pc # "down" /\ faults < MaxFaults
  /\ faults' = faults + 1
  /\ ControlGone

\* The node the next request goes to, when there is one.
Target ==
  CASE pc = "commit" -> {fd}
    [] pc = "sum" /\ node < N -> {node}
    [] pc = "loop" /\ InLoop -> {node}
    [] pc \in {"spare", "pick", "logSource", "undoSource", "commitSource"} -> {node}
    [] pc \in {"logPeer", "undoPeer", "commitPeer"} -> {Peer}
    [] pc = "show" -> {meta[cursor].fd}
    [] pc = "idle" -> {Route(k) : k \in Keys}
    [] OTHER -> {}

\* A request on a connection that was reset, or the read of an iterator that is
\* not valid.
Crash ==
  /\ \/ \E n \in Target : reset[n] # "no"
     \/ pc = "edit" /\ Head(edits).op = "invalid"
  /\ ControlGone
  /\ UNCHANGED faults

\* A store node dies between two requests.
StoreEnds(n) ==
  /\ conn[n] = "open" /\ StoresEnd /\ faults < MaxFaults
  /\ conn' = [conn EXCEPT ![n] = "down"]
  /\ faults' = faults + 1
  /\ UNCHANGED <<vars, last, promise, reset, buf, localVars, life>>

\* A store node that has lost its control node: one more pass over its buffer,
\* or its end.
StoreReplays(n) ==
  /\ conn[n] = "eof"
  /\ last[n].cmd \in {"log", "CLG", "dlg", READ}
  /\ Serve(n, last[n])
  /\ \E c \in {"eof", "down"} : conn' = [conn EXCEPT ![n] = c]
  /\ UNCHANGED <<meta, pc, ctlVars, loopVars, mig, reset, buf, faults, localVars,
                 life>>

StoreStops(n) ==
  /\ conn[n] = "eof"
  /\ conn' = [conn EXCEPT ![n] = "down"]
  /\ UNCHANGED <<vars, last, promise, reset, buf, faults, localVars, life>>

\* Mutant: the counters keep what they were.
RecountedNot == size

\* The byte counters of the store nodes as they start.
Recounted == [n \in Nodes |-> DbSize(data[n])]

\* Mutant: the metadata database is not looked at.
NoneMissing == <<>>

\* What the constructor of the control node puts into the metadata database.
MissingEntries == IF DOMAIN meta = {} THEN FirstEdits ELSE <<>>

\* The store nodes are started, count their bytes anew and wait for the control
\* node; it is started, connects to each and fills an empty metadata database.
\* receive_buff is fresh memory.
Start ==
  /\ pc = "down" /\ life < MaxLives
  /\ \A n \in Nodes : conn[n] = "down"
  /\ life' = life + 1
  /\ size' = Recounted
  /\ conn' = [n \in Nodes |-> "open"]
  /\ last' = [n \in Nodes |-> Request("none", NoEntry)]
  /\ promise' = [n \in Nodes |-> {}]
  /\ reset' = [n \in Nodes |-> "no"]
  /\ buf' = FreshBuffer
  /\ edits' = MissingEntries
  /\ pc' = IF MissingEntries # <<>> THEN "edit" ELSE "idle"
  /\ req' = Idle /\ fd' = 0 /\ cursor' = EmptyStr
  /\ LeaveReBalance
  /\ UNCHANGED <<meta, data, log, out, told, faults>>

\* The first start, on empty databases.
FaultsInit ==
  /\ meta = [k \in {} |-> EmptyStr]
  /\ data = [n \in Nodes |-> [k \in {} |-> EmptyStr]]
  /\ size = [n \in Nodes |-> 0]
  /\ log = [n \in Nodes |-> {}]
  /\ conn = [n \in Nodes |-> "open"]
  /\ last = [n \in Nodes |-> Request("none", NoEntry)]
  /\ promise = [n \in Nodes |-> {}]
  /\ reset = [n \in Nodes |-> "no"]
  /\ buf = FreshBuffer
  /\ edits = FirstEdits /\ pc = "edit"
  /\ req = Idle /\ fd = 0 /\ out = EmptyStr /\ cursor = EmptyStr
  /\ phase = "up" /\ node = 0 /\ total = 0 /\ mig = NoMigration /\ ok = TRUE
  /\ told = [k \in {} |-> EmptyStr]
  /\ faults = 0 /\ life = 1

NewCommand ==
  \E k \in Keys : \/ \E v \in Values : TryPut(k, v)
                  \/ TryDel(k)
                  \/ AskGet(k)
                  \/ pc = "idle" /\ Crash

\* The control node with a command to finish.
Finishing ==
  \/ EditMeta \/ CommitCommand \/ Tell \/ EnterReBalance
  \/ AskSize
  \/ (EnterUp \/ EnterDown) /\ UNCHANGED faultVars
  \/ CheckShare \/ CheckSpare \/ PickKey
  \/ TryLogSource \/ TryLogPeer \/ UndoSource \/ UndoPeer
  \/ PlanEdits \/ TryCommitSource \/ TryCommitPeer
  \/ BeginShow \/ Show
  \/ pc # "idle" /\ Crash

FaultsNext ==
  \/ NewCommand
  \/ Finishing
  \/ ControlEnds
  \/ \E n \in Nodes : StoreEnds(n) \/ StoreReplays(n) \/ StoreStops(n)
  \/ Start

FaultsSpec == FaultsInit /\ [][FaultsNext]_allVars

\* The control node waits on nothing but the answer of a store node, or the end
\* of the connection to it: a command it has begun has a next step.
FairFaultsSpec == FaultsSpec /\ WF_allVars(Finishing)

-----------------------------------------------------------------------------
(* Properties.                                                             *)

\* The variables have the types the program gives them, whatever was read from
\* a buffer nobody had written.
FaultsTypeOK ==
  /\ IsDb(meta, MetaEntries)
  /\ \A n \in Nodes : IsDb(data[n], Values)
  /\ log \in [Nodes -> SUBSET Entries]
  /\ size \in [Nodes -> Nat]
  /\ conn \in [Nodes -> {"open", "eof", "down"}]
  /\ reset \in [Nodes -> {"yes", "no", "maybe"}]
  /\ pc \in {"idle", "edit", "commit", "tell", "enter", "sum", "loop", "spare", "pick",
             "logSource", "logPeer", "undoSource", "undoPeer", "meta",
             "commitSource", "commitPeer", "show", "down"}
  /\ buf \in [head : Nat, text : {"ok", "other"}, whole : BOOLEAN, rest : SUBSET Bounds]
  /\ pc = "edit" => edits # <<>>
  /\ pc = "show" => cursor \in DOMAIN meta
  /\ IsDb(told, Values)

\* A lookup never finds the metadata database empty: run() reads the entry at
\* the iterator without asking whether it is valid.  Only the constructor can
\* repair a metadata database that an end of the control node left empty.
LookupFindsEntry == pc \notin {"edit", "down"} => DOMAIN meta # {}

Node(n) == INSTANCE StoreNode WITH
  data <- data[n], size <- size[n], log <- log[n], conn <- conn[n],
  last <- last[n], promise <- promise[n]

\* Every process that ends, at whatever point of whatever exchange, leaves each
\* store node in a behaviour of StoreNode, so what is shown there of one node
\* holds for all of them.
StoresImplement ==
  /\ \A n \in Nodes : Node(n)!Init
  /\ [][\A n \in Nodes : [Node(n)!Next]_(Node(n)!vars)]_allVars

\* get_log returns the log that is stored now: the COMMIT_LOG of a command applies
\* the entry that the command has logged.  It does not when the log still holds an
\* entry of an earlier life that is encoded smaller.
CommitsItsEntry == pc = "commit" /\ conn[fd] = "open" => GetLog(log[fd]) = req

\* A command is reported as committed only when its own COMMIT_LOG was served,
\* although the answer to its LOG reads the same and is still at hand when the
\* store node dies in between: the metadata entry written over it hides it.  The
\* one exception is the entry of a node whose least key is "ok" itself.
AckIsServed ==
  pc = "tell" => \/ last[fd].cmd = "CLG"
                 \/ \E k \in OkKeys \cap DOMAIN meta : meta[k].fd = fd

\* A command ends, or the control node does, whichever store nodes die.
CommandEnds == pc \notin {"idle", "down"} ~> pc \in {"idle", "down"}

\* The loops of re_balance, the writes of their metadata included.
Balancing ==
  \/ pc \in {"loop", "spare", "pick", "logSource", "logPeer", "undoSource", "undoPeer",
             "meta", "commitSource", "commitPeer"}
  \/ pc = "edit" /\ req = Idle /\ mig # NoMigration

\* The parts of a command that are left.
StagesLeft ==
  CASE pc \in {"idle", "down"} -> 0
    [] pc = "show"            -> 1
    [] Balancing              -> IF phase = "up" THEN 3 ELSE 2
    [] pc = "sum"             -> 4
    [] pc = "enter"           -> 5
    [] pc = "tell"            -> 6
    [] pc = "commit"          -> 7
    [] pc = "edit" /\ ~Balancing -> 8

\* What is left of this part: writes, metadata entries or nodes.
PartLeft ==
  CASE pc = "show" -> Cardinality({k \in DOMAIN meta : cursor <= k})
    [] Balancing   -> IF phase = "up" THEN N - 1 - node ELSE node
    [] pc = "sum"  -> N - node
    [] pc = "edit" /\ ~Balancing -> Len(edits)
    [] OTHER       -> 0

\* The requests and writes of a migration that are left until the node the loop
\* is at commits.  When that node is gone, LESS_OR_EQUAL_ONE reads the size that
\* was too much for it, so the loop leaves it without another migration.
RoundLeft ==
  CASE pc = "commitPeer"   -> IF conn[node] = "open" THEN 17 ELSE 2
    [] pc = "loop"         -> IF conn[node] = "open" THEN 16 ELSE 1
    [] pc = "spare"        -> IF conn[node] = "open" THEN 15 ELSE 0
    [] pc = "pick"         -> 14
    [] pc = "logSource"    -> 13
    [] pc = "logPeer"      -> 12
    [] pc = "undoSource"   -> 11
    [] pc = "undoPeer"     -> 10
    [] pc = "meta"         -> 9
    [] pc = "edit"         -> Len(edits) + 3
    [] pc = "commitSource" -> 3

\* What that node has to commit before its keys become fewer, left by an end of
\* some process: puts, and deletes of keys that are not there.
LoggedPuts == {e \in log[node] : e.kind = PUT}

LoggedStale ==
  {e \in log[node] : e.kind = DELETE /\ e.key \notin DOMAIN data[node]}

WhileBalancing(x) == IF Balancing THEN x ELSE 0

\* How far the control node is from the end of a command when processes end.
FaultsRank ==
  <<MaxFaults - faults, StagesLeft, PartLeft,
    WhileBalancing(Cardinality(LoggedPuts)),
    WhileBalancing(Cardinality(DOMAIN data[node])),
    WhileBalancing(Cardinality(LoggedStale)),
    WhileBalancing(RoundLeft)>>

\* re_balance goes on with what it finds in its buffer when a node is gone, rolls
\* back, and commits what older commands left in a log; it still cannot go on
\* forever: every step brings the command closer to its end, unless another
\* process ends, which happens MaxFaults times.
CommandStaysFinite ==
  [][pc \notin {"idle", "down"} => Below(FaultsRank', FaultsRank)]_allVars

\* The values of k that a store node holds or has logged to be put.
Copies(k) ==
  LET logged(n) == {e \in log[n] : e.kind = PUT /\ e.key = k}
  IN  (UNION {{data[n][x] : x \in DOMAIN data[n] \cap {k}} : n \in Nodes})
        \cup (UNION {{e.val : e \in logged(n)} : n \in Nodes})

\* Of what the client was told nothing is lost, nothing reappears and nothing is
\* replaced wherever the control node ends: every key but that of the command it
\* was serving is at a node, or in a log on its way there, with the value told.
ToldIsKept ==
  \A k \in Keys : (req = Idle \/ req.key # k) =>
    Copies(k) = IF k \in DOMAIN told THEN {told[k]} ELSE {}

\* Wherever the control node ends, and however often the store nodes repeat
\* their last request, no key is at two nodes.
MovedNotCopied ==
  \A m, n \in Nodes : m # n => DOMAIN data[m] \cap DOMAIN data[n] = {}

\* Wherever the control node ends, once it has been constructed, the metadata
\* lacks the entry of one node at most; the others are in the order of the
\* nodes, and a key of theirs that is not being moved is found at its node.
LosesOneEntry ==
  ~(Constructing /\ edits # <<>>) =>
    LET known == {meta[k].fd : k \in DOMAIN meta}
    IN  /\ Cardinality(Nodes \ known) <= 1
        /\ \A j, k \in DOMAIN meta : j < k => meta[j].fd < meta[k].fd
        /\ \A n \in known : \A k \in DOMAIN data[n] \ {mig.key} : Route(k) = n

\* The writes among s that are to key k, and the last of them if it is a put.
Written(s, k) == {i \in DOMAIN s : s[i].entry.min = k}

LastPut(s, k) ==
  {i \in Written(s, k) : s[i].op = "put" /\ \A j \in Written(s, k) : j <= i}

\* What the writes s make of the metadata m.
AfterEdits(m, s) ==
  [k \in {x \in Keys : IF Written(s, x) = {} THEN x \in DOMAIN m
                                             ELSE LastPut(s, x) # {}} |->
     IF Written(s, k) = {} THEN m[k] ELSE s[CHOOSE i \in LastPut(s, k) : TRUE].entry]

\* The metadata once the pending writes are done.
MetaAfterEdits == AfterEdits(meta, edits)

\* Where Cluster stands: a write of the metadata is part of the request before
\* it, and the requests that only read are part of the one they lead to.
WholePc ==
  CASE pc = "edit" -> IF Constructing THEN "idle"
                      ELSE IF req # Idle THEN "commit" ELSE "commitSource"
    [] pc \in {"tell", "enter"} -> "sum"
    [] pc \in {"spare", "pick", "logSource"} -> "loop"
    [] pc = "show" -> "idle"
    [] OTHER -> pc

WholeReq == IF pc \in {"tell", "enter"} THEN Idle ELSE req

WholeFd == IF pc \in {"tell", "enter"} THEN 0 ELSE fd

WholeMig == IF pc \in {"pick", "logSource"} THEN NoMigration ELSE mig

Whole == INSTANCE Cluster WITH
  meta <- MetaAfterEdits, req <- WholeReq, fd <- WholeFd, mig <- WholeMig,
  pc <- WholePc

\* While no process ends, the requests and writes one by one are the steps of
\* Cluster: what is shown there holds of this finer program.
ImplementsCluster == Whole!Spec

\* What re_balance says of itself where it goes on to the metadata: both nodes
\* have written their half of the migration to their logs.
BothLogged ==
  pc = "meta" => /\ DeleteEntry(mig.key) \in log[node]
                 /\ PutEntry(mig.key, mig.val) \in log[Peer]

\* What re_balance says of a LOG that failed: everything is rolled back.  So the
\* metadata is left as it is.
RollsBack == [][~ok => meta' = meta]_allVars
=============================================================================
