------------------------ MODULE ClusterFaultsProofs ------------------------
(***************************************************************************)
(* What holds of the cluster whichever processes end and however often, on *)
(* any number of nodes, keys and values: the programs keep their types     *)
(* although they read buffers nobody wrote, no lookup finds the metadata   *)
(* database empty, "log commit" is printed only for a commit that was      *)
(* served, every store node behaves as StoreNode says, and a command does  *)
(* not go on forever.                                                      *)
(*                                                                         *)
(* The invariant needed follows the control node: what receive_buff can    *)
(* hold when an answer is missing, that a list of metadata writes ends     *)
(* with a put, and that a node asked for its outermost key has one, unless *)
(* it is gone.  For the end of a command DInv says more of a migration: a  *)
(* node that is up keeps the key to be moved, and the delete of it in its  *)
(* log, until it commits.                                                  *)
(***************************************************************************)
EXTENDS ClusterFaults, ClusterProofs, SequenceTheorems

Buffers ==
  [head : Nat, text : {"ok", "other"}, whole : BOOLEAN, rest : SUBSET Bounds]

\* A request a store node may have in its buffer.
IsRequest(r) ==
  /\ r.cmd \in {"none", "log", "CLG", "dlg", READ}
  /\ r.cmd = "log" => Applicable(r.entry)

\* The store nodes.
Stores ==
  /\ data = [n \in Nodes |-> data[n]]
  /\ \A n \in Nodes : IsDb(data[n], Values)
  /\ log \in [Nodes -> SUBSET Entries]
  /\ \A n \in Nodes : \A e \in log[n] : Applicable(e)
  /\ size \in [Nodes -> Nat]
  /\ last = [n \in Nodes |-> last[n]]
  /\ \A n \in Nodes : IsRequest(last[n])
  /\ promise = [n \in Nodes |-> promise[n]]

\* The connections to them, and receive_buff.
Wires ==
  /\ conn \in [Nodes -> {"open", "eof", "down"}]
  /\ reset \in [Nodes -> {"yes", "no", "maybe"}]
  /\ buf \in Buffers

\* The counter of a node that is up is never below the size of its contents, so
\* that nothing taken out of it makes it negative.
Counted == \A n \in Nodes : conn[n] # "down" => DbSize(data[n]) <= size[n]

\* A write of the metadata database, or the read of an invalid iterator.
Edits == [op : {"delete", "put"}, entry : MetaEntries] \cup {NoEntryEdit}

\* The control node.
Control ==
  /\ pc \in {"idle", "edit", "commit", "tell", "enter", "sum", "loop", "spare", "pick",
             "logSource", "logPeer", "undoSource", "undoPeer", "meta",
             "commitSource", "commitPeer", "show", "down"}
  /\ IsDb(meta, MetaEntries)
  /\ req = Idle \/ Applicable(req)
  /\ fd \in Nodes
  /\ phase \in {"up", "down"}
  /\ node \in 0 .. N
  /\ total \in Nat
  /\ mig = [key |-> mig.key, val |-> mig.val, src |-> mig.src, dst |-> mig.dst]
  /\ mig.src \in Bounds /\ mig.dst \in Bounds
  /\ ok \in BOOLEAN
  /\ edits \in Seq(Edits)
  /\ IsDb(told, Values)

\* The writes under way end with a put: they leave the metadata not empty.
Editing ==
  /\ pc = "edit" => edits # <<>> /\ edits[Len(edits)].op # "delete"
  /\ pc \notin {"edit", "down"} => DOMAIN meta # {}

\* Where the loops of re_balance stand.
Place ==
  /\ pc \in {"loop", "spare", "pick", "logSource", "logPeer", "undoSource", "undoPeer",
             "meta", "commitSource", "commitPeer"} => node \in Nodes
  /\ \/ pc \in {"spare", "pick", "logSource", "logPeer", "undoSource", "undoPeer",
                "meta", "commitSource", "commitPeer"}
     \/ pc = "edit" /\ req = Idle /\ mig # NoMigration
     => InLoop /\ node \in Nodes

\* The key that is moved is one, also when it was read from the stack.
Picked ==
  pc \in {"logSource", "logPeer", "undoSource", "undoPeer", "meta"} =>
    mig.key \in Keys /\ mig.val \in Values

\* MAX_KEY and MIN_KEY go to a node that has more than one key, or is gone by
\* then: without an answer, LESS_OR_EQUAL_ONE leaves the SIZE above the share in
\* the buffer, which is not 0.
Spare ==
  /\ pc = "spare" => buf.head # 0
  /\ pc = "pick" /\ conn[node] = "open" => ~StoreLessOrEqualOne(data[node])

\* No command is under way in re_balance.
Quiet == pc \notin {"edit", "commit", "tell", "enter", "down"} => req = Idle

\* The metadata entry of the node a command went to starts with "ok".
OkIsLeast == \E k \in OkKeys \cap DOMAIN meta : meta[k].fd = fd

\* The last write of a command is the entry of the node it went to.  Before
\* COMMIT_LOG, receive_buff starts with the least key of that entry.
Acked ==
  /\ pc \in {"commit", "tell"} => req # Idle
  /\ pc = "edit" /\ req # Idle => edits[Len(edits)].entry.fd = fd
  /\ pc = "commit" => buf.whole /\ (buf.text = "ok" => OkIsLeast)
  /\ pc = "tell" => last[fd].cmd = "CLG" \/ OkIsLeast

Showing == pc = "show" => cursor \in DOMAIN meta

FInv ==
  /\ Stores /\ Wires /\ Counted
  /\ Control /\ Editing /\ Place /\ Picked /\ Spare /\ Quiet /\ Acked /\ Showing

-----------------------------------------------------------------------------
(* One request.                                                            *)

LEMMA ServeKeeps ==
  ASSUME Stores, NEW n \in Nodes, DbSize(data[n]) <= size[n],
         NEW r, IsRequest(r), Serve(n, r)
  PROVE  /\ Stores'
         /\ \A x \in Nodes : DbSize(data[x]) <= size[x] => DbSize(data'[x]) <= size'[x]
         /\ last'[n] = r
         /\ r.cmd # "CLG" => data' = data
  <1> DEFINE d == data[n]
             g == log[n]
             z == size[n]
  <1>1. /\ IsDb(d, Values) /\ g \subseteq Entries /\ z \in Nat /\ z \in Int
        /\ \A e \in g : Applicable(e)
        /\ DbSize(d) <= z
    BY DEF Stores
  <1> HIDE DEF d, g, z
  <1>2. /\ IsDb(CommitData(d, g), Values)
        /\ ClearLog(g) \subseteq g
    BY <1>1, CommitType
  <1>3. CommitSize(d, z, g) \in Nat /\ DbSize(CommitData(d, g)) <= CommitSize(d, z, g)
    <2>1. CommitSize(d, z, g) \in Int /\ DbSize(CommitData(d, g)) <= CommitSize(d, z, g)
      BY <1>1, CommitNotLow
    <2>2. DbSize(CommitData(d, g)) \in Nat
      BY <1>2, SizeIsNat
    <2> QED
      BY <2>1, <2>2
  <1>4. /\ data' = IF r.cmd = "CLG" THEN [data EXCEPT ![n] = CommitData(d, g)] ELSE data
        /\ size' = IF r.cmd = "CLG" THEN [size EXCEPT ![n] = CommitSize(d, z, g)] ELSE size
        /\ log' = CASE r.cmd = "log" -> [log EXCEPT ![n] = g \cup {r.entry}]
                    [] r.cmd \in {"CLG", "dlg"} -> [log EXCEPT ![n] = ClearLog(g)]
                    [] OTHER -> log
        /\ last' = [last EXCEPT ![n] = r]
    BY DEF Serve, d, g, z
  <1>5. /\ data' = [x \in Nodes |-> data'[x]]
        /\ \A x \in Nodes : IsDb(data'[x], Values)
    BY <1>2, <1>4 DEF Stores
  <1>6. size' \in [Nodes -> Nat]
    BY <1>3, <1>4 DEF Stores
  <1>7. /\ log' \in [Nodes -> SUBSET Entries]
        /\ \A x \in Nodes : \A e \in log'[x] : Applicable(e)
    <2>1. CASE r.cmd = "log"
      <3>1. Applicable(r.entry) /\ r.entry \in Entries
        BY <2>1 DEF IsRequest, Applicable
      <3> DEFINE h == g \cup {r.entry}
      <3>2. h \subseteq Entries /\ \A e \in h : Applicable(e)
        BY <1>1, <3>1
      <3>3. log' = [log EXCEPT ![n] = h]
        BY <1>4, <2>1
      <3> HIDE DEF h
      <3> QED
        BY <3>2, <3>3 DEF Stores
    <2>2. CASE r.cmd \in {"CLG", "dlg"}
      <3> DEFINE h == ClearLog(g)
      <3>1. h \subseteq Entries /\ \A e \in h : Applicable(e)
        BY <1>1, <1>2
      <3>2. log' = [log EXCEPT ![n] = h]
        BY <1>4, <2>2
      <3> HIDE DEF h
      <3> QED
        BY <3>1, <3>2 DEF Stores
    <2>3. CASE r.cmd \notin {"log", "CLG", "dlg"}
      BY <1>4, <2>3 DEF Stores
    <2> QED
      BY <2>1, <2>2, <2>3
  <1>8. /\ last' = [x \in Nodes |-> last'[x]]
        /\ \A x \in Nodes : IsRequest(last'[x])
        /\ last'[n] = r
    BY <1>4 DEF Stores
  <1>9. promise' = [x \in Nodes |-> promise'[x]]
    BY DEF Stores, Serve
  <1>10. \A x \in Nodes : DbSize(data[x]) <= size[x] => DbSize(data'[x]) <= size'[x]
    BY <1>3, <1>4 DEF Stores
  <1> QED
    BY <1>4, <1>5, <1>6, <1>7, <1>8, <1>9, <1>10 DEF Stores

\* A request leaves the nodes and the buffer in order, answered or not; without
\* an answer, the buffer holds what it held.
LEMMA ExchangeKeeps ==
  ASSUME Stores, Wires, Counted, NEW n \in Nodes, NEW r, IsRequest(r),
         NEW answer \in Buffers, Exchange(n, r, answer)
  PROVE  /\ Stores' /\ Wires' /\ Counted'
         /\ \/ conn[n] = "open" /\ buf' = answer /\ last'[n] = r
            \/ buf' = buf
         /\ r.cmd # "CLG" => data' = data
         /\ \A x \in Nodes : conn'[x] = "open" => conn[x] = "open"
  <1>1. ASSUME conn[n] = "open", Serve(n, r)
        PROVE  /\ Stores'
               /\ \A x \in Nodes : conn[x] # "down" => DbSize(data'[x]) <= size'[x]
               /\ last'[n] = r
               /\ r.cmd # "CLG" => data' = data
    <2>1. DbSize(data[n]) <= size[n]
      BY <1>1 DEF Counted
    <2> QED
      BY <1>1, <2>1, ServeKeeps DEF Counted
  <1>2. CASE Answered(n, r, answer)
    <2>1. conn[n] = "open" /\ Serve(n, r) /\ buf' = answer /\ UNCHANGED <<conn, reset>>
      BY <1>2 DEF Answered
    <2> QED
      BY <1>1, <2>1 DEF Wires, Counted
  <1>3. CASE DiesServing(n, r)
    <2>1. /\ conn[n] = "open" /\ conn' = [conn EXCEPT ![n] = "down"] /\ buf' = buf
          /\ \/ r.cmd # READ /\ Serve(n, r) /\ UNCHANGED reset
             \/ /\ r.cmd = "CLG"
                /\ data' = [data EXCEPT ![n] = CommitData(data[n], log[n])]
                /\ promise' = [promise EXCEPT ![n] = {}]
                /\ UNCHANGED <<size, log, last, reset>>
             \/ /\ reset' \in {reset, [reset EXCEPT ![n] = "yes"]}
                /\ UNCHANGED <<data, size, log, promise, last>>
      BY <1>3 DEF DiesServing, storeVars
    <2>2. /\ conn' \in [Nodes -> {"open", "eof", "down"}]
          /\ conn'[n] = "down"
          /\ \A x \in Nodes : x # n => conn'[x] = conn[x]
      BY <2>1 DEF Wires
    <2>3. reset' \in [Nodes -> {"yes", "no", "maybe"}]
      BY <2>1 DEF Wires
    <2>4. Wires'
      BY <2>1, <2>2, <2>3 DEF Wires
    <2>5. CASE Serve(n, r)
      BY <1>1, <2>1, <2>2, <2>4, <2>5 DEF Counted
    <2>6. CASE /\ r.cmd = "CLG"
               /\ data' = [data EXCEPT ![n] = CommitData(data[n], log[n])]
               /\ promise' = [promise EXCEPT ![n] = {}]
               /\ UNCHANGED <<size, log, last>>
      <3> DEFINE d == CommitData(data[n], log[n])
      <3>1. IsDb(d, Values)
        BY CommitType DEF Stores
      <3> HIDE DEF d
      <3>2. /\ data' = [x \in Nodes |-> data'[x]]
            /\ \A x \in Nodes : IsDb(data'[x], Values)
            /\ \A x \in Nodes : x # n => data'[x] = data[x]
        BY <2>6, <3>1 DEF Stores, d
      <3>3. Stores'
        BY <2>6, <3>2 DEF Stores
      <3>4. Counted'
        BY <2>2, <2>6, <3>2 DEF Counted
      <3> QED
        BY <2>1, <2>2, <2>4, <2>6, <3>3, <3>4
    <2>7. CASE UNCHANGED <<data, size, log, promise, last>>
      <3>1. Stores'
        BY <2>7 DEF Stores
      <3> QED
        BY <2>1, <2>2, <2>4, <2>7, <3>1 DEF Counted
    <2> QED
      BY <2>1, <2>5, <2>6, <2>7
  <1>4. CASE Unanswered(n)
    <2>1. /\ reset' = [reset EXCEPT ![n] = "maybe"]
          /\ UNCHANGED <<data, size, log, conn, last, promise, buf>>
      BY <1>4 DEF Unanswered, storeVars, storeLife
    <2>2. Stores' /\ Wires' /\ Counted'
      BY <2>1 DEF Stores, Wires, Counted
    <2> QED
      BY <2>1, <2>2
  <1> QED
    BY <1>2, <1>3, <1>4 DEF Exchange

\* The answers the control node reads are what a buffer may hold.
LEMMA AnswerTypes ==
  ASSUME Stores, Wires
  PROVE  /\ OkAnswer \in Buffers
         /\ \A b \in Bounds : LogAnswer(b) \in Buffers
         /\ \A i \in Nat : IntAnswer(i) \in Buffers
         /\ \A i \in Nat, b \in BOOLEAN : TextAnswer(i, b) \in Buffers
         /\ FreshBuffer \in Buffers
         /\ \A i \in Nat : IntAnswer(i).head = i
  BY DEF Buffers, OkAnswer, LogAnswer, TextAnswer, IntAnswer, FreshBuffer, Wires

LEMMA RequestTypes ==
  /\ \A e : Applicable(e) => IsRequest(Request("log", e))
  /\ IsRequest(Request("CLG", NoEntry)) /\ Request("CLG", NoEntry).cmd = "CLG"
  /\ IsRequest(Request("dlg", NoEntry)) /\ Request("dlg", NoEntry).cmd = "dlg"
  /\ IsRequest(Request(READ, NoEntry)) /\ Request(READ, NoEntry).cmd = READ
  /\ IsRequest(Request("none", NoEntry))
  /\ \A e : Request("log", e).cmd = "log"
  BY DEF IsRequest, Request, READ

\* LOG, COMMIT_LOG, DEL_LOG and the requests that read.
LEMMA LogKeeps ==
  ASSUME Stores, Wires, Counted, NEW n \in Nodes, NEW e, Applicable(e), Log(n, e)
  PROVE  /\ Stores' /\ Wires' /\ Counted' /\ data' = data
         /\ NextBounds(buf') \subseteq Bounds
  <1> DEFINE r == Request("log", e)
             d == data[n]
             a == LogAnswer(LogReply(data[n], e))
  <1>1. IsRequest(r) /\ r.cmd # "CLG"
    BY RequestTypes
  <1>2. a \in Buffers
    <2>1. IsDb(d, Values)
      BY DEF Stores
    <2> HIDE DEF d
    <2>2. LogReply(d, e) \in Bounds
      BY <2>1, ReplyInBounds
    <2> QED
      BY <2>2, AnswerTypes DEF d
  <1>3. Exchange(n, r, a)
    BY DEF Log
  <1> HIDE DEF r, a
  <1>4. Stores' /\ Wires' /\ Counted' /\ data' = data
    BY <1>1, <1>2, <1>3, ExchangeKeeps
  <1> QED
    BY <1>4 DEF Wires, Buffers, NextBounds

LEMMA CommitKeeps ==
  ASSUME Stores, Wires, Counted, NEW n \in Nodes, CommitLog(n)
  PROVE  /\ Stores' /\ Wires' /\ Counted'
         /\ buf' = buf \/ last'[n].cmd = "CLG"
  <1> DEFINE r == Request("CLG", NoEntry)
  <1>1. IsRequest(r) /\ r.cmd = "CLG" /\ OkAnswer \in Buffers
    BY RequestTypes, AnswerTypes
  <1>2. Exchange(n, r, OkAnswer)
    BY DEF CommitLog
  <1> HIDE DEF r
  <1> QED
    BY <1>1, <1>2, ExchangeKeeps

LEMMA DelKeeps ==
  ASSUME Stores, Wires, Counted, NEW n \in Nodes, DelLog(n)
  PROVE  Stores' /\ Wires' /\ Counted'
  <1> DEFINE r == Request("dlg", NoEntry)
  <1>1. IsRequest(r) /\ OkAnswer \in Buffers
    BY RequestTypes, AnswerTypes
  <1>2. Exchange(n, r, OkAnswer)
    BY DEF DelLog
  <1> HIDE DEF r
  <1> QED
    BY <1>1, <1>2, ExchangeKeeps

LEMMA AskKeeps ==
  ASSUME Stores, Wires, Counted, NEW n \in Nodes, NEW a \in Buffers, Ask(n, a)
  PROVE  /\ Stores' /\ Wires' /\ Counted' /\ data' = data
         /\ (conn[n] = "open" /\ buf' = a) \/ buf' = buf
         /\ \A x \in Nodes : conn'[x] = "open" => conn[x] = "open"
  <1> DEFINE r == Request(READ, NoEntry)
  <1>1. IsRequest(r) /\ r.cmd # "CLG"
    BY RequestTypes DEF READ
  <1>2. Exchange(n, r, a)
    BY DEF Ask
  <1> HIDE DEF r
  <1> QED
    BY <1>1, <1>2, ExchangeKeeps

-----------------------------------------------------------------------------
(* The metadata writes.                                                    *)

LEMMA FirstEditsType ==
  /\ FirstEdits \in Seq(Edits)
  /\ FirstEdits # <<>>
  /\ FirstEdits[Len(FirstEdits)].op # "delete"
  <1>1. \A i \in 1 .. N : i - 1 \in Nodes
    BY NAssumption DEF Nodes
  <1>2. \A i \in 1 .. N :
          PutEdit([min |-> InitKey[i - 1], max |-> InitKey[i - 1], fd |-> i - 1]) \in Edits
    BY <1>1, InitKeyAssumption DEF PutEdit, Edits, MetaEntries
  <1>3. N \in Nat /\ N > 0
    BY NAssumption
  <1>4. FirstEdits \in [1 .. N -> Edits]
    BY <1>2 DEF FirstEdits
  <1>5. FirstEdits \in Seq(Edits) /\ Len(FirstEdits) = N
    BY <1>3, <1>4
  <1>6. FirstEdits[N].op = "put"
    BY <1>3 DEF FirstEdits, PutEdit
  <1> QED
    BY <1>3, <1>5, <1>6

LEMMA RekeyEditsType ==
  ASSUME NEW e \in MetaEntries, NEW f \in MetaEntries
  PROVE  /\ RekeyEdits(e, f) \in Seq(Edits)
         /\ Len(RekeyEdits(e, f)) = 2
         /\ RekeyEdits(e, f)[2].op = "put" /\ RekeyEdits(e, f)[2].entry = f
         /\ RekeyEdits(e, f) # <<>>
  <1>1. /\ DeleteEdit(e) \in Edits /\ PutEdit(f) \in Edits
        /\ PutEdit(f).op = "put" /\ PutEdit(f).entry = f
    BY DEF DeleteEdit, PutEdit, Edits
  <1> DEFINE a == DeleteEdit(e)
             b == PutEdit(f)
  <1> HIDE DEF a, b
  <1>2. <<a, b>> \in Seq(Edits) /\ Len(<<a, b>>) = 2 /\ <<a, b>>[2] = b /\ <<a, b>> # <<>>
    BY <1>1 DEF a, b
  <1>3. RekeyEdits(e, f) = <<a, b>>
    BY DEF RekeyEdits, a, b
  <1> QED
    BY <1>1, <1>2, <1>3 DEF b

\* The entries re_balance and the commands write are metadata entries.
LEMMA EntryTypes ==
  ASSUME NEW m \in MetaEntries
  PROVE  /\ \A b \in Bounds : Rebound(m, b) \in MetaEntries
         /\ \A e, b : Applicable(e) /\ b \in Bounds => Widened(m, e, b) \in MetaEntries
  <1>1. m.min \in Keys /\ m.max \in Keys /\ m.fd \in Nodes
    BY DEF MetaEntries
  <1>2. \A x, y \in Keys : Lesser(x, y) \in Keys /\ Greater(x, y) \in Keys
    BY DEF Lesser, Greater
  <1>3. ASSUME NEW b \in Bounds
        PROVE  Rebound(m, b) \in MetaEntries
    BY <1>1 DEF Rebound, WithRange, Bounds, MetaEntries
  <1>4. ASSUME NEW e, Applicable(e), NEW b \in Bounds
        PROVE  Widened(m, e, b) \in MetaEntries
    <2>1. e.key \in Keys /\ b.min \in Keys \cup {EmptyStr}
      BY <1>4 DEF Applicable, Entries, Bounds
    <2>2. KeptMin(m.min, b.min) \in Keys
      BY <1>1, <1>2, <2>1 DEF KeptMin
    <2> QED
      BY <1>1, <1>2, <2>1, <2>2 DEF Widened, WithRange, MetaEntries
  <1> QED
    BY <1>3, <1>4

\* A lookup in a metadata database that is not empty.
LEMMA LookupType ==
  ASSUME IsDb(meta, MetaEntries), DOMAIN meta # {}, NEW k \in Keys
  PROVE  /\ SmallerOrEqual(meta, k) \in DOMAIN meta
         /\ meta[SmallerOrEqual(meta, k)] \in MetaEntries
         /\ meta[SmallerOrEqual(meta, k)].fd \in Nodes
         /\ Route(k) \in Nodes
  <1> DEFINE at == SmallerOrEqual(meta, k)
  <1>1. at \in DOMAIN meta
    BY KeysAreNat, SmallerOrEqualFacts DEF IsDb
  <1>2. meta[at] \in MetaEntries
    BY <1>1 DEF IsDb
  <1> QED
    BY <1>1, <1>2 DEF Route, MetaEntries

-----------------------------------------------------------------------------
(* Every step keeps the invariant.                                         *)

LEMMA FaultsInitKeeps == FaultsInit => FInv
  <1> SUFFICES ASSUME FaultsInit
               PROVE  FInv
    OBVIOUS
  <1>1. Stores
    BY RequestTypes DEF FaultsInit, Stores, IsDb
  <1>2. Wires
    BY DEF FaultsInit, Wires, Buffers, FreshBuffer
  <1>3. Counted
    BY EmptySize DEF FaultsInit, Counted
  <1>4. Control
    <2>1. edits \in Seq(Edits)
      BY FirstEditsType DEF FaultsInit
    <2>2. IsDb(meta, MetaEntries) /\ IsDb(told, Values)
      BY DEF FaultsInit, IsDb
    <2>3. /\ mig.src \in Bounds /\ mig.dst \in Bounds
          /\ mig = [key |-> mig.key, val |-> mig.val, src |-> mig.src, dst |-> mig.dst]
      BY DEF FaultsInit, NoMigration, NoBounds, Bounds
    <2>4. fd \in Nodes /\ node \in 0 .. N /\ total \in Nat
      BY NodesAreInt DEF FaultsInit
    <2> QED
      BY <2>1, <2>2, <2>3, <2>4 DEF FaultsInit, Control
  <1>5. Editing
    BY FirstEditsType DEF FaultsInit, Editing
  <1>6. Place /\ Picked /\ Spare /\ Quiet /\ Acked /\ Showing
    BY DEF FaultsInit, Place, Picked, Spare, Quiet, Acked, Showing
  <1> QED
    BY <1>1, <1>2, <1>3, <1>4, <1>5, <1>6 DEF FInv

LEMMA EditMetaKeeps ==
  ASSUME FInv, EditMeta
  PROVE  FInv'
  <1> DEFINE w == Head(edits)
             e == w.entry
             t == Tail(edits)
  <1>1. /\ pc = "edit" /\ w.op # "invalid"
        /\ meta' = IF w.op = "delete" THEN DbDelete(meta, e.min) ELSE DbPut(meta, e.min, e)
        /\ edits' = t
        /\ buf' = Encoded(w)
        /\ pc' = IF t # <<>> THEN "edit"
                 ELSE IF Constructing THEN "idle"
                 ELSE IF req # Idle THEN "commit" ELSE "commitSource"
        /\ UNCHANGED <<data, size, log, req, fd, out, phase, node, total, mig, conn, last,
                       promise, reset, ok, told>>
    BY DEF EditMeta, storeVars, ctlVars, loopVars, storeLife
  <1>2. /\ edits \in Seq(Edits) /\ edits # <<>> /\ edits[Len(edits)].op # "delete"
        /\ Stores /\ Wires /\ Counted /\ Control /\ Place
        /\ req # Idle => edits[Len(edits)].entry.fd = fd
    BY <1>1 DEF FInv, Control, Editing, Acked
  <1>3. /\ w \in Edits /\ t \in Seq(Edits) /\ Len(t) = Len(edits) - 1
        /\ \A i \in 1 .. Len(t) : t[i] = edits[i + 1]
        /\ w = edits[1]
        /\ Len(edits) \in Nat /\ Len(edits) > 0
    BY <1>2, HeadTailProperties, EmptySeq, LenProperties
  <1>4. e \in MetaEntries /\ w.op \in {"delete", "put"} /\ e.min \in Keys
    BY <1>1, <1>3 DEF Edits, NoEntryEdit, MetaEntries
  <1>5. t # <<>> => t[Len(t)] = edits[Len(edits)]
    <2> SUFFICES ASSUME t # <<>>
                 PROVE  t[Len(t)] = edits[Len(edits)]
      OBVIOUS
    <2>1. Len(t) \in Nat \ {0}
      BY <1>3, EmptySeq
    <2> QED
      BY <1>3, <2>1
  <1>6. t = <<>> => w.op = "put" /\ w = edits[Len(edits)]
    <2>1. t = <<>> => Len(t) = 0
      OBVIOUS
    <2> HIDE DEF w, t
    <2>2. t = <<>> => Len(edits) = 1
      BY <1>3, <2>1
    <2> QED
      BY <1>2, <1>3, <1>4, <2>2
  <1> HIDE DEF w, e, t
  <1>7. /\ IsDb(meta', MetaEntries)
        /\ w.op = "put" => DOMAIN meta' # {}
    BY <1>1, <1>2, <1>4 DEF Control, IsDb, DbPut, DbDelete
  <1>8. /\ buf' \in Buffers
        /\ ~Constructing /\ w.op = "put" =>
             buf'.whole /\ (buf'.text = "ok" => e.min \in OkKeys)
    <2>1. KeyLen[e.min] + 1 \in Nat
      BY <1>4, KeyLenAssumption
    <2> QED
      BY <1>1, <1>2, <2>1 DEF Encoded, TextAnswer, Wires, Buffers, e
  <1>9. Stores' /\ Wires' /\ Counted'
    BY <1>1, <1>2, <1>8 DEF Stores, Wires, Counted
  <1>10. Control'
    BY <1>1, <1>2, <1>3, <1>7 DEF Control
  <1>11. Editing'
    BY <1>1, <1>2, <1>5, <1>6, <1>7 DEF Editing
  <1>12. Place'
    BY <1>1, <1>2 DEF Place, InLoop, Constructing
  <1>13. Picked' /\ Spare' /\ Showing'
    BY <1>1 DEF Picked, Spare, Showing
  <1>14. Quiet'
    BY <1>1 DEF Quiet, Constructing
  <1>15. t # <<>> /\ req # Idle => t[Len(t)].entry.fd = fd
    BY <1>2, <1>5
  <1>16. t = <<>> /\ req # Idle /\ e.min \in OkKeys => OkIsLeast'
    <2> SUFFICES ASSUME t = <<>>, req # Idle, e.min \in OkKeys
                 PROVE  OkIsLeast'
      OBVIOUS
    <2>1. e.fd = fd /\ meta' = DbPut(meta, e.min, e)
      BY <1>1, <1>2, <1>6 DEF e
    <2>2. e.min \in DOMAIN meta' /\ meta'[e.min] = e
      BY <2>1 DEF DbPut
    <2> QED
      BY <1>1, <2>1, <2>2 DEF OkIsLeast
  <1>17. Acked'
    BY <1>1, <1>6, <1>8, <1>15, <1>16 DEF Acked, Constructing
  <1> QED
    BY <1>9, <1>10, <1>11, <1>12, <1>13, <1>14, <1>17 DEF FInv

LEMMA CommandKeeps ==
  ASSUME FInv, NEW e, Applicable(e), Command(e)
  PROVE  FInv'
  <1> DEFINE at == SmallerOrEqual(meta, e.key)
             m == meta[at]
             n == m.fd
  <1>1. /\ pc = "idle"
        /\ Log(n, e)
        /\ UNCHANGED <<meta, out, phase, node, total, mig, ok, told>>
        /\ \/ /\ \E b \in NextBounds(buf') : edits' = RekeyEdits(m, Widened(m, e, b))
              /\ req' = e /\ fd' = n /\ pc' = "edit"
           \/ pc' = "sum" /\ UNCHANGED <<edits, req, fd>>
    BY DEF Command, loopVars
  <1>2. Stores /\ Wires /\ Counted /\ Control /\ Quiet /\ DOMAIN meta # {}
    BY <1>1 DEF FInv, Editing
  <1>3. e \in Entries /\ e.key \in Keys /\ e # Idle
    BY IdleAssumption DEF Applicable, Entries
  <1>4. m \in MetaEntries /\ n \in Nodes
    BY <1>2, <1>3, LookupType DEF Control
  <1> HIDE DEF at, m, n
  <1>5. Stores' /\ Wires' /\ Counted' /\ NextBounds(buf') \subseteq Bounds
    BY <1>1, <1>2, <1>4, LogKeeps
  <1>6. CASE pc' = "sum" /\ UNCHANGED <<edits, req, fd>>
    <2>1. Control'
      BY <1>1, <1>2, <1>6 DEF Control
    <2>2. Editing' /\ Place' /\ Picked' /\ Spare' /\ Quiet' /\ Acked' /\ Showing'
      BY <1>1, <1>2, <1>6 DEF Editing, Place, Picked, Spare, Quiet, Acked, Showing
    <2> QED
      BY <1>5, <2>1, <2>2 DEF FInv
  <1>7. ASSUME NEW b \in NextBounds(buf'), edits' = RekeyEdits(m, Widened(m, e, b)),
               req' = e, fd' = n, pc' = "edit"
        PROVE  FInv'
    <2> DEFINE v == Widened(m, e, b)
    <2>1. v \in MetaEntries
      BY <1>4, <1>5, <1>7, EntryTypes
    <2> HIDE DEF v
    <2>2. edits' = RekeyEdits(m, v)
      BY <1>7 DEF v
    <2>3. /\ edits' \in Seq(Edits) /\ edits' # <<>>
          /\ edits'[Len(edits')].op # "delete"
          /\ edits'[Len(edits')].entry = v
      BY <1>4, <2>1, <2>2, RekeyEditsType
    <2>4. v.fd = n
      BY <1>4 DEF v, n, Widened, WithRange, MetaEntries
    <2>5. Control'
      BY <1>1, <1>2, <1>4, <1>7, <2>3 DEF Control
    <2>6. Editing' /\ Place' /\ Picked' /\ Spare' /\ Quiet' /\ Acked' /\ Showing'
      BY <1>3, <1>7, <2>3, <2>4 DEF Editing, Place, Picked, Spare, Quiet, Acked, Showing
    <2> QED
      BY <1>5, <2>5, <2>6 DEF FInv
  <1> QED
    BY <1>1, <1>6, <1>7

LEMMA CommitCommandKeeps ==
  ASSUME FInv, CommitCommand
  PROVE  FInv'
  <1>1. /\ pc = "commit" /\ CommitLog(fd)
        /\ \E yes \in IsOk(buf') : pc' = IF yes THEN "tell" ELSE "enter"
        /\ UNCHANGED <<meta, req, fd, phase, node, total, mig, ok, edits, cursor, told>>
    BY DEF CommitCommand, ctlVars, loopVars, localVars
  <1>2. /\ Stores /\ Wires /\ Counted /\ Control /\ Quiet /\ DOMAIN meta # {}
        /\ req # Idle /\ buf.whole /\ (buf.text = "ok" => OkIsLeast)
    BY <1>1 DEF FInv, Editing, Acked
  <1>3. Stores' /\ Wires' /\ Counted' /\ (buf' = buf \/ last'[fd].cmd = "CLG")
    BY <1>1, <1>2, CommitKeeps DEF Control
  <1>4. /\ pc' \in {"tell", "enter"}
        /\ pc' = "tell" => last'[fd].cmd = "CLG" \/ OkIsLeast'
    BY <1>1, <1>2, <1>3 DEF IsOk, OkIsLeast
  <1>5. Control' /\ Editing'
    BY <1>1, <1>2, <1>4 DEF Control, Editing
  <1>6. Place' /\ Picked' /\ Spare' /\ Quiet' /\ Acked' /\ Showing'
    BY <1>1, <1>2, <1>4 DEF Place, Picked, Spare, Quiet, Acked, Showing
  <1> QED
    BY <1>3, <1>5, <1>6 DEF FInv

LEMMA TellKeeps ==
  ASSUME FInv, Tell
  PROVE  FInv'
  <1>1. /\ pc = "tell" /\ pc' = "enter" /\ told' = DataAfter(told, req)
        /\ UNCHANGED <<meta, data, size, log, req, fd, phase, node, total, mig, conn, last,
                       promise, reset, buf, ok, edits>>
    BY DEF Tell, storeVars, ctlVars, loopVars, netVars, storeLife
  <1>2. /\ Stores /\ Wires /\ Counted /\ Control /\ Quiet /\ DOMAIN meta # {}
        /\ Applicable(req)
    BY <1>1 DEF FInv, Editing, Acked, Control
  <1>3. IsDb(told', Values)
    BY <1>1, <1>2, DataAfterType DEF Control
  <1>4. Stores' /\ Wires' /\ Counted'
    BY <1>1, <1>2 DEF Stores, Wires, Counted
  <1>5. Control' /\ Editing'
    BY <1>1, <1>2, <1>3 DEF Control, Editing
  <1>6. Place' /\ Picked' /\ Spare' /\ Quiet' /\ Acked' /\ Showing'
    BY <1>1, <1>2 DEF Place, Picked, Spare, Quiet, Acked, Showing
  <1> QED
    BY <1>4, <1>5, <1>6 DEF FInv

LEMMA EnterReBalanceKeeps ==
  ASSUME FInv, EnterReBalance
  PROVE  FInv'
  <1>1. /\ pc = "enter" /\ pc' = "sum" /\ req' = Idle /\ fd' = 0
        /\ UNCHANGED <<meta, data, size, log, phase, node, total, mig, conn, last,
                       promise, reset, buf, ok, edits, told>>
    BY DEF EnterReBalance, storeVars, loopVars, netVars, storeLife, localVars
  <1>2. Stores /\ Wires /\ Counted /\ Control /\ Quiet /\ DOMAIN meta # {}
    BY <1>1 DEF FInv, Editing
  <1>3. Stores' /\ Wires' /\ Counted'
    BY <1>1, <1>2 DEF Stores, Wires, Counted
  <1>4. Control' /\ Editing'
    BY <1>1, <1>2, NodesAreInt DEF Control, Editing
  <1>5. Place' /\ Picked' /\ Spare' /\ Quiet' /\ Acked' /\ Showing'
    BY <1>1, <1>2 DEF Place, Picked, Spare, Quiet, Acked, Showing
  <1> QED
    BY <1>3, <1>4, <1>5 DEF FInv

LEMMA AskGetKeeps ==
  ASSUME FInv, NEW k \in Keys, AskGet(k)
  PROVE  FInv'
  <1> DEFINE n == Route(k)
             v == DbGet(data[n], k)
             a == TextAnswer(ValLen[v] + 1, v \in OkVals)
  <1>1. /\ pc = "idle" /\ pc' = pc
        /\ Answered(n, Request(READ, NoEntry), a)
             \/ DiesServing(n, Request(READ, NoEntry)) \/ Unanswered(n)
        /\ UNCHANGED <<meta, req, fd, phase, node, total, mig, ok, edits, told>>
    BY DEF AskGet, loopVars, localVars
  <1>2. Stores /\ Wires /\ Counted /\ Control /\ Quiet /\ DOMAIN meta # {}
    BY <1>1 DEF FInv, Editing
  <1>3. n \in Nodes
    BY <1>2, LookupType DEF Control
  <1>4. a \in Buffers
    <2>1. v \in Values \cup {EmptyStr}
      BY <1>2, <1>3 DEF Stores, IsDb, DbGet
    <2> HIDE DEF v
    <2>2. ValLen[v] + 1 \in Nat
      BY <2>1, ValLenAssumption
    <2> QED
      BY <2>2 DEF TextAnswer, Buffers
  <1>5. Ask(n, a)
    BY <1>1 DEF Ask, Exchange
  <1> HIDE DEF n, a
  <1>6. Stores' /\ Wires' /\ Counted'
    BY <1>2, <1>3, <1>4, <1>5, AskKeeps
  <1>7. Control' /\ Editing'
    BY <1>1, <1>2 DEF Control, Editing
  <1>8. Place' /\ Picked' /\ Spare' /\ Quiet' /\ Acked' /\ Showing'
    BY <1>1, <1>2 DEF Place, Picked, Spare, Quiet, Acked, Showing
  <1> QED
    BY <1>6, <1>7, <1>8 DEF FInv

\* The sums, the loops and the requests of re_balance that read.
LEMMA AskSizeKeeps ==
  ASSUME FInv, AskSize
  PROVE  FInv'
  <1> DEFINE a == IntAnswer(size[node])
  <1>1. /\ pc = "sum" /\ node < N /\ Ask(node, a)
        /\ total' = total + buf'.head /\ node' = node + 1
        /\ UNCHANGED <<meta, pc, req, fd, phase, mig, ok, edits, told>>
    BY DEF AskSize, ctlVars, localVars
  <1>2. Stores /\ Wires /\ Counted /\ Control /\ Quiet /\ DOMAIN meta # {}
    BY <1>1 DEF FInv, Editing
  <1>3. node \in Nodes
    BY <1>1, <1>2, NAssumption DEF Control, Nodes
  <1>4. a \in Buffers
    BY <1>2, <1>3, AnswerTypes DEF Stores
  <1> HIDE DEF a
  <1>5. Stores' /\ Wires' /\ Counted'
    BY <1>1, <1>2, <1>3, <1>4, AskKeeps
  <1>6. total' \in Nat /\ node' \in 0 .. N
    BY <1>1, <1>2, <1>5, NAssumption DEF Control, Wires, Buffers
  <1>7. Control' /\ Editing'
    BY <1>1, <1>2, <1>6 DEF Control, Editing
  <1>8. Place' /\ Picked' /\ Spare' /\ Quiet' /\ Acked' /\ Showing'
    BY <1>1, <1>2 DEF Place, Picked, Spare, Quiet, Acked, Showing
  <1> QED
    BY <1>5, <1>7, <1>8 DEF FInv

LEMMA EnterLoopKeeps ==
  ASSUME FInv, EnterUp \/ EnterDown, UNCHANGED faultVars
  PROVE  FInv'
  <1>1. /\ pc \in {"sum", "loop"} /\ pc' = "loop"
        /\ phase' \in {"up", "down"} /\ node' \in {0, N - 1}
        /\ UNCHANGED <<meta, data, size, log, req, fd, total, mig, conn, last,
                       promise, reset, buf, ok, edits, told>>
    BY DEF EnterUp, EnterDown, faultVars, netVars, storeLife, localVars, storeVars, ctlVars
  <1>2. Stores /\ Wires /\ Counted /\ Control /\ Quiet /\ DOMAIN meta # {}
    BY <1>1 DEF FInv, Editing
  <1>3. node' \in Nodes /\ node' \in 0 .. N
    BY <1>1, NAssumption DEF Nodes
  <1>4. Stores' /\ Wires' /\ Counted'
    BY <1>1, <1>2 DEF Stores, Wires, Counted
  <1>5. Control' /\ Editing'
    BY <1>1, <1>2, <1>3 DEF Control, Editing
  <1>6. Place' /\ Picked' /\ Spare' /\ Quiet' /\ Acked' /\ Showing'
    BY <1>1, <1>2, <1>3 DEF Place, Picked, Spare, Quiet, Acked, Showing
  <1> QED
    BY <1>4, <1>5, <1>6 DEF FInv

LEMMA CheckShareKeeps ==
  ASSUME FInv, CheckShare
  PROVE  FInv'
  <1> DEFINE a == IntAnswer(size[node])
  <1>1. /\ pc = "loop" /\ InLoop /\ Ask(node, a)
        /\ \/ node' = Peer /\ pc' = pc
           \/ /\ ~(buf'.head * 100 * N <= (100 + N) * total)
              /\ pc' = "spare" /\ node' = node
        /\ UNCHANGED <<meta, req, fd, phase, total, mig, ok, edits, told>>
    BY DEF CheckShare, ctlVars, localVars
  <1>2. Stores /\ Wires /\ Counted /\ Control /\ Quiet /\ DOMAIN meta # {} /\ node \in Nodes
    BY <1>1 DEF FInv, Editing, Place
  <1>3. a \in Buffers
    BY <1>2, AnswerTypes DEF Stores
  <1> HIDE DEF a
  <1>4. Stores' /\ Wires' /\ Counted'
    BY <1>1, <1>2, <1>3, AskKeeps
  <1>5. Peer \in Nodes
    BY <1>1, <1>2, PeerIsNode DEF Control
  <1>6. node' \in Nodes /\ node' \in 0 .. N
    BY <1>1, <1>2, <1>5, NAssumption DEF Nodes
  <1>7. pc' = "spare" => buf'.head # 0
    <2> SUFFICES ASSUME buf'.head = 0
                 PROVE  buf'.head * 100 * N <= (100 + N) * total
      BY <1>1
    <2>1. 0 * 100 * N = 0
      BY NAssumption
    <2>2. \A i, j \in Nat : 0 <= i * j
      OBVIOUS
    <2>3. 100 + N \in Nat /\ total \in Nat
      BY <1>2, NAssumption DEF Control
    <2>4. 0 <= (100 + N) * total
      BY <2>2, <2>3
    <2> QED
      BY <2>1, <2>4
  <1>8. Control' /\ Editing'
    BY <1>1, <1>2, <1>6 DEF Control, Editing
  <1>9. Place'
    BY <1>1, <1>6 DEF Place, InLoop
  <1>10. Picked' /\ Spare' /\ Quiet' /\ Acked' /\ Showing'
    BY <1>1, <1>2, <1>7 DEF Picked, Spare, Quiet, Acked, Showing
  <1> QED
    BY <1>4, <1>8, <1>9, <1>10 DEF FInv

LEMMA CheckSpareKeeps ==
  ASSUME FInv, CheckSpare
  PROVE  FInv'
  <1> DEFINE i == IF StoreLessOrEqualOne(data[node]) THEN 1 ELSE 0
             a == IntAnswer(i)
  <1>1. /\ pc = "spare" /\ Ask(node, a)
        /\ \/ node' = Peer /\ pc' = "loop"
           \/ buf'.head = 0 /\ pc' = "pick" /\ node' = node
        /\ UNCHANGED <<meta, req, fd, phase, total, mig, ok, edits, told>>
    BY DEF CheckSpare, ctlVars, localVars
  <1>2. /\ Stores /\ Wires /\ Counted /\ Control /\ Quiet /\ DOMAIN meta # {}
        /\ node \in Nodes /\ InLoop /\ buf.head # 0
    BY <1>1 DEF FInv, Editing, Place, Spare
  <1>3. a \in Buffers /\ a.head = i
    BY <1>2, AnswerTypes
  <1> HIDE DEF a
  <1>4. Stores' /\ Wires' /\ Counted' /\ data' = data /\ (buf' = a \/ buf' = buf)
    BY <1>1, <1>2, <1>3, AskKeeps
  <1>5. Peer \in Nodes
    BY <1>2, PeerIsNode DEF Control
  <1>6. node' \in Nodes /\ node' \in 0 .. N
    BY <1>1, <1>2, <1>5, NAssumption DEF Nodes
  <1>7. pc' = "pick" => ~StoreLessOrEqualOne(data'[node'])
    BY <1>1, <1>2, <1>3, <1>4
  <1>8. Control' /\ Editing'
    BY <1>1, <1>2, <1>6 DEF Control, Editing
  <1>9. Place'
    BY <1>1, <1>2, <1>6 DEF Place, InLoop
  <1>10. Picked' /\ Quiet' /\ Acked' /\ Showing'
    BY <1>1, <1>2 DEF Picked, Quiet, Acked, Showing
  <1>11. Spare'
    BY <1>1, <1>7 DEF Spare
  <1> QED
    BY <1>4, <1>8, <1>9, <1>10, <1>11 DEF FInv

\* A node with more than one key has a first and a last one.
LEMMA OutermostKeys ==
  ASSUME NEW db, IsDb(db, Values), ~StoreLessOrEqualOne(db)
  PROVE  /\ SeekToFirst(db) \in Keys /\ db[SeekToFirst(db)] \in Values
         /\ SeekToLast(db) \in Keys /\ db[SeekToLast(db)] \in Values
  <1>1. DOMAIN db # {} /\ DOMAIN db \subseteq Keys /\ \A k \in DOMAIN db : db[k] \in Values
    BY DEF IsDb, StoreLessOrEqualOne
  <1> QED
    BY <1>1, SeekToFirstFacts, SeekToLastFacts

LEMMA PickKeyKeeps ==
  ASSUME FInv, PickKey
  PROVE  FInv'
  <1> DEFINE k == IF phase = "up" THEN SeekToLast(data[node]) ELSE SeekToFirst(data[node])
             r == Request(READ, NoEntry)
             a == TextAnswer(KeyLen[k] + 1, k \in OkKeys)
  <1>1. /\ pc = "pick" /\ pc' = "logSource"
        /\ \/ /\ Answered(node, r, a)
              /\ mig' = [NoMigration EXCEPT !.key = k, !.val = data[node][k]]
           \/ /\ DiesServing(node, r) \/ Unanswered(node)
              /\ \E g \in Keys, v \in Values :
                   mig' = [NoMigration EXCEPT !.key = g, !.val = v]
        /\ UNCHANGED <<meta, req, fd, phase, node, total, ok, edits, told>>
    BY DEF PickKey, ctlVars, loopVars, localVars
  <1>2. /\ Stores /\ Wires /\ Counted /\ Control /\ Quiet /\ DOMAIN meta # {}
        /\ node \in Nodes /\ InLoop
        /\ conn[node] = "open" => ~StoreLessOrEqualOne(data[node])
    BY <1>1 DEF FInv, Editing, Place, Spare
  <1>3. IsRequest(r) /\ r.cmd # "CLG"
    BY RequestTypes DEF READ
  <1>4. conn[node] = "open" => k \in Keys /\ data[node][k] \in Values
    BY <1>2, OutermostKeys DEF Stores
  <1>5. conn[node] = "open" => a \in Buffers
    <2> HIDE DEF k
    <2>1. conn[node] = "open" => KeyLen[k] + 1 \in Nat
      BY <1>4, KeyLenAssumption
    <2> QED
      BY <2>1 DEF TextAnswer, Buffers
  <1>6. Stores' /\ Wires' /\ Counted'
    <2> DEFINE c == IF conn[node] = "open" THEN a ELSE buf
    <2> HIDE DEF a, r
    <2>1. c \in Buffers
      BY <1>2, <1>5 DEF Wires
    <2>2. Exchange(node, r, c)
      BY <1>1 DEF Exchange, Answered
    <2> HIDE DEF c
    <2> QED
      BY <1>2, <1>3, <2>1, <2>2, ExchangeKeeps
  <1>7. /\ mig'.key \in Keys /\ mig'.val \in Values
        /\ mig'.src \in Bounds /\ mig'.dst \in Bounds
        /\ mig' = [key |-> mig'.key, val |-> mig'.val, src |-> mig'.src, dst |-> mig'.dst]
    <2> HIDE DEF k, r, a
    <2>1. NoBounds \in Bounds
      BY DEF NoBounds, Bounds
    <2>2. CASE Answered(node, r, a) /\ mig' = [NoMigration EXCEPT !.key = k, !.val = data[node][k]]
      BY <1>4, <2>1, <2>2 DEF Answered, NoMigration
    <2>3. CASE \E g \in Keys, v \in Values : mig' = [NoMigration EXCEPT !.key = g, !.val = v]
      BY <2>1, <2>3 DEF NoMigration
    <2> QED
      BY <1>1, <2>2, <2>3
  <1>8. Control' /\ Editing'
    BY <1>1, <1>2, <1>7 DEF Control, Editing
  <1>9. Place'
    BY <1>1, <1>2 DEF Place, InLoop
  <1>10. Picked' /\ Spare' /\ Quiet' /\ Acked' /\ Showing'
    BY <1>1, <1>2, <1>7 DEF Picked, Spare, Quiet, Acked, Showing
  <1> QED
    BY <1>6, <1>8, <1>9, <1>10 DEF FInv

\* The two LOG requests of a migration, and the roll-back.
LEMMA TryLogSourceKeeps ==
  ASSUME FInv, TryLogSource
  PROVE  FInv'
  <1> DEFINE e == DeleteEntry(mig.key)
  <1>1. /\ pc = "logSource" /\ pc' = "logPeer"
        /\ Log(node, e)
        /\ \E yes \in IsOk(buf') : ok' = yes
        /\ \E b \in NextBounds(buf') : mig' = [mig EXCEPT !.src = b]
        /\ UNCHANGED <<meta, req, fd, phase, node, total, edits, told>>
    BY DEF TryLogSource, ctlVars, loopVars
  <1>2. /\ Stores /\ Wires /\ Counted /\ Control /\ Quiet /\ DOMAIN meta # {}
        /\ node \in Nodes /\ InLoop /\ mig.key \in Keys /\ mig.val \in Values
    BY <1>1 DEF FInv, Editing, Place, Picked
  <1>3. Applicable(e)
    BY <1>2, DeleteApplicable
  <1> HIDE DEF e
  <1>4. Stores' /\ Wires' /\ Counted' /\ NextBounds(buf') \subseteq Bounds
    BY <1>1, <1>2, <1>3, LogKeeps
  <1>5. ok' \in BOOLEAN
    BY <1>1 DEF IsOk
  <1>6. PICK b \in Bounds : mig' = [mig EXCEPT !.src = b]
    BY <1>1, <1>4
  <1>7. /\ mig'.key \in Keys /\ mig'.val \in Values
        /\ mig'.src \in Bounds /\ mig'.dst \in Bounds
        /\ mig' = [key |-> mig'.key, val |-> mig'.val, src |-> mig'.src, dst |-> mig'.dst]
    BY <1>2, <1>6 DEF Control
  <1>8. Control' /\ Editing'
    BY <1>1, <1>2, <1>5, <1>7 DEF Control, Editing
  <1>9. Place'
    BY <1>1, <1>2 DEF Place, InLoop
  <1>10. Picked' /\ Spare' /\ Quiet' /\ Acked' /\ Showing'
    BY <1>1, <1>2, <1>7 DEF Picked, Spare, Quiet, Acked, Showing
  <1> QED
    BY <1>4, <1>8, <1>9, <1>10 DEF FInv

LEMMA TryLogPeerKeeps ==
  ASSUME FInv, TryLogPeer
  PROVE  FInv'
  <1> DEFINE e == PutEntry(mig.key, mig.val)
             p == Peer
  <1>1. /\ pc = "logPeer" /\ pc' \in {"meta", "undoSource"}
        /\ Log(p, e)
        /\ \E yes \in IsOk(buf') : ok' = (ok /\ yes)
        /\ \E b \in NextBounds(buf') : mig' = [mig EXCEPT !.dst = b]
        /\ UNCHANGED <<meta, req, fd, phase, node, total, edits, told>>
    BY DEF TryLogPeer, ctlVars, loopVars
  <1>2. /\ Stores /\ Wires /\ Counted /\ Control /\ Quiet /\ DOMAIN meta # {}
        /\ node \in Nodes /\ InLoop /\ mig.key \in Keys /\ mig.val \in Values
    BY <1>1 DEF FInv, Editing, Place, Picked
  <1>3. Applicable(e) /\ p \in Nodes
    BY <1>2, PutApplicable, PeerIsNode DEF Control
  <1> HIDE DEF e, p
  <1>4. Stores' /\ Wires' /\ Counted' /\ NextBounds(buf') \subseteq Bounds
    BY <1>1, <1>2, <1>3, LogKeeps
  <1>5. ok' \in BOOLEAN
    BY <1>1
  <1>6. PICK b \in Bounds : mig' = [mig EXCEPT !.dst = b]
    BY <1>1, <1>4
  <1>7. /\ mig'.key \in Keys /\ mig'.val \in Values
        /\ mig'.src \in Bounds /\ mig'.dst \in Bounds
        /\ mig' = [key |-> mig'.key, val |-> mig'.val, src |-> mig'.src, dst |-> mig'.dst]
    BY <1>2, <1>6 DEF Control
  <1>8. Control' /\ Editing'
    BY <1>1, <1>2, <1>5, <1>7 DEF Control, Editing
  <1>9. Place'
    BY <1>1, <1>2 DEF Place, InLoop
  <1>10. Picked' /\ Spare' /\ Quiet' /\ Acked' /\ Showing'
    BY <1>1, <1>2, <1>7 DEF Picked, Spare, Quiet, Acked, Showing
  <1> QED
    BY <1>4, <1>8, <1>9, <1>10 DEF FInv

LEMMA UndoKeeps ==
  ASSUME FInv, UndoSource \/ UndoPeer
  PROVE  FInv'
  <1>1. /\ \/ pc = "undoSource" /\ pc' = "undoPeer" /\ DelLog(node)
           \/ pc = "undoPeer" /\ pc' = "meta" /\ DelLog(Peer)
        /\ UNCHANGED <<meta, req, fd, phase, node, total, mig, ok, edits, told>>
    BY DEF UndoSource, UndoPeer, ctlVars, loopVars, localVars
  <1>2. /\ Stores /\ Wires /\ Counted /\ Control /\ Quiet /\ DOMAIN meta # {}
        /\ node \in Nodes /\ InLoop /\ mig.key \in Keys /\ mig.val \in Values
    BY <1>1 DEF FInv, Editing, Place, Picked
  <1>3. Peer \in Nodes
    BY <1>2, PeerIsNode DEF Control
  <1>4. Stores' /\ Wires' /\ Counted'
    BY <1>1, <1>2, <1>3, DelKeeps
  <1>5. Control' /\ Editing'
    BY <1>1, <1>2 DEF Control, Editing
  <1>6. Place'
    BY <1>1, <1>2 DEF Place, InLoop
  <1>7. Picked' /\ Spare' /\ Quiet' /\ Acked' /\ Showing'
    BY <1>1, <1>2 DEF Picked, Spare, Quiet, Acked, Showing
  <1> QED
    BY <1>4, <1>5, <1>6, <1>7 DEF FInv

LEMMA PlanEditsKeeps ==
  ASSUME FInv, PlanEdits
  PROVE  FInv'
  <1> DEFINE at == SmallerOrEqual(meta, mig.key)
             nb == Neighbour(at)
             m == meta[at]
             o == meta[nb]
             s == RekeyEdits(m, Rebound(m, mig.src))
             t == IF nb = EmptyStr THEN <<NoEntryEdit>>
                  ELSE RekeyEdits(o, Rebound(o, mig.dst))
  <1>1. /\ pc = "meta" /\ pc' = "edit" /\ edits' = s \o t
        /\ UNCHANGED <<meta, data, size, log, req, fd, phase, node, total, mig, conn, last,
                       promise, reset, buf, ok, told>>
    BY DEF PlanEdits, storeVars, ctlVars, loopVars, netVars, storeLife
  <1>2. /\ Stores /\ Wires /\ Counted /\ Control /\ Quiet /\ DOMAIN meta # {} /\ Place
        /\ node \in Nodes /\ InLoop /\ mig.key \in Keys /\ mig.val \in Values
    BY <1>1 DEF FInv, Editing, Place, Picked
  <1>3. m \in MetaEntries /\ at \in Nat
    BY <1>2, LookupType, KeysAreNat DEF Control, IsDb
  <1>4. s \in Seq(Edits)
    <2> DEFINE v == Rebound(m, mig.src)
    <2>1. v \in MetaEntries
      BY <1>2, <1>3, EntryTypes DEF Control
    <2> HIDE DEF v, m
    <2> QED
      BY <1>3, <2>1, RekeyEditsType DEF v
  <1>5. t \in Seq(Edits) /\ t # <<>> /\ t[Len(t)].op # "delete"
    <2>1. CASE nb = EmptyStr
      <3>1. NoEntryEdit \in Edits /\ NoEntryEdit.op # "delete"
        BY DEF NoEntryEdit, Edits
      <3>2. t = <<NoEntryEdit>>
        BY <2>1
      <3> HIDE DEF t
      <3> QED
        BY <3>1, <3>2
    <2>2. CASE nb # EmptyStr
      <3> DEFINE v == Rebound(o, mig.dst)
      <3>1. nb \in DOMAIN meta
        <4>1. DOMAIN meta \subseteq Keys
          BY <1>2 DEF Control, IsDb
        <4> HIDE DEF at
        <4> QED
          BY <1>3, <2>2, <4>1, AfterFacts, BeforeFacts DEF Neighbour
      <3>2. o \in MetaEntries
        BY <1>2, <3>1 DEF Control, IsDb
      <3> HIDE DEF o, nb
      <3>3. v \in MetaEntries
        BY <1>2, <3>2, EntryTypes DEF Control
      <3>4. t = RekeyEdits(o, v)
        BY <2>2
      <3> HIDE DEF v, t
      <3> QED
        BY <3>2, <3>3, <3>4, RekeyEditsType
    <2> QED
      BY <2>1, <2>2
  <1> HIDE DEF s, t
  <1>6. /\ edits' \in Seq(Edits) /\ edits' # <<>>
        /\ edits'[Len(edits')].op # "delete"
    <2>1. /\ s \o t \in Seq(Edits)
          /\ Len(s \o t) = Len(s) + Len(t)
          /\ \A i \in 1 .. Len(s) + Len(t) :
               (s \o t)[i] = IF i <= Len(s) THEN s[i] ELSE t[i - Len(s)]
      BY <1>4, <1>5, ConcatProperties, Zenon
    <2>2. Len(s) \in Nat /\ Len(t) \in Nat \ {0}
      BY <1>4, <1>5, LenProperties, EmptySeq
    <2>3. (s \o t)[Len(s) + Len(t)] = t[Len(t)]
      BY <2>1, <2>2
    <2> QED
      BY <1>1, <1>5, <2>1, <2>2, <2>3
  <1>7. Stores' /\ Wires' /\ Counted'
    BY <1>1, <1>2 DEF Stores, Wires, Counted
  <1>8. Control' /\ Editing'
    BY <1>1, <1>2, <1>6 DEF Control, Editing
  <1>9. Place'
    BY <1>1, <1>2 DEF Place, InLoop
  <1>10. Picked' /\ Spare' /\ Quiet' /\ Acked' /\ Showing'
    BY <1>1, <1>2 DEF Picked, Spare, Quiet, Acked, Showing
  <1> QED
    BY <1>7, <1>8, <1>9, <1>10 DEF FInv

\* What re_balance leaves behind when it ends.
LEMMA LeftReBalance ==
  ASSUME LeaveReBalance
  PROVE  /\ phase' \in {"up", "down"} /\ node' \in 0 .. N /\ node' \in Nodes
         /\ total' \in Nat /\ ok' \in BOOLEAN
         /\ mig' = NoMigration /\ mig'.src \in Bounds /\ mig'.dst \in Bounds
         /\ mig' = [key |-> mig'.key, val |-> mig'.val, src |-> mig'.src, dst |-> mig'.dst]
  BY NAssumption DEF LeaveReBalance, NoMigration, NoBounds, Bounds, Nodes

\* The two COMMIT_LOG requests of a migration.
LEMMA TryCommitKeeps ==
  ASSUME FInv, TryCommitSource \/ TryCommitPeer
  PROVE  FInv'
  <1>1. /\ \/ pc = "commitSource" /\ CommitLog(node)
           \/ pc = "commitPeer" /\ CommitLog(Peer)
        /\ \/ pc' = "commitPeer" /\ UNCHANGED <<phase, node, total, mig, ok>>
           \/ /\ pc' = "loop" /\ mig' = NoMigration /\ ok' = TRUE
              /\ UNCHANGED <<phase, node, total>>
           \/ pc' = "idle" /\ LeaveReBalance
        /\ UNCHANGED <<meta, req, fd, edits, told>>
    BY DEF TryCommitSource, TryCommitPeer, ctlVars, loopVars
  <1>2. /\ Stores /\ Wires /\ Counted /\ Control /\ Quiet /\ DOMAIN meta # {}
        /\ node \in Nodes /\ InLoop
    BY <1>1 DEF FInv, Editing, Place
  <1>3. Peer \in Nodes
    BY <1>2, PeerIsNode DEF Control
  <1>4. Stores' /\ Wires' /\ Counted'
    BY <1>1, <1>2, <1>3, CommitKeeps
  <1>5. /\ phase' \in {"up", "down"} /\ node' \in 0 .. N /\ total' \in Nat
        /\ ok' \in BOOLEAN /\ mig'.src \in Bounds /\ mig'.dst \in Bounds
        /\ mig' = [key |-> mig'.key, val |-> mig'.val, src |-> mig'.src, dst |-> mig'.dst]
    <2>1. CASE LeaveReBalance
      BY <2>1, LeftReBalance
    <2>2. CASE UNCHANGED <<phase, node, total, mig, ok>>
      BY <1>2, <2>2 DEF Control
    <2>3. CASE mig' = NoMigration /\ ok' = TRUE /\ UNCHANGED <<phase, node, total>>
      BY <1>2, <2>3 DEF Control, NoMigration, NoBounds, Bounds
    <2> QED
      BY <1>1, <2>1, <2>2, <2>3
  <1>6. Control' /\ Editing'
    BY <1>1, <1>2, <1>5 DEF Control, Editing
  <1>7. Place'
    BY <1>1, <1>2 DEF Place, InLoop
  <1>8. Picked' /\ Spare' /\ Quiet' /\ Acked' /\ Showing'
    BY <1>1, <1>2 DEF Picked, Spare, Quiet, Acked, Showing
  <1> QED
    BY <1>4, <1>6, <1>7, <1>8 DEF FInv

\* show_meta walks over entries that are there.
LEMMA ShowKeeps ==
  ASSUME FInv, BeginShow \/ Show
  PROVE  FInv'
  <1>1. pc \in {"loop", "show"} /\ pc' \in {"show", "idle"} /\ UNCHANGED <<meta, req, fd, edits, told>>
    BY DEF BeginShow, Show, ctlVars
  <1>2. Stores /\ Wires /\ Counted /\ Control /\ Quiet /\ DOMAIN meta # {} /\ DOMAIN meta \subseteq Keys
    BY <1>1 DEF FInv, Editing, Control, IsDb
  <1>3. CASE BeginShow
    <2>1. /\ pc' = "show" /\ cursor' = SeekToFirst(meta) /\ LeaveReBalance
          /\ UNCHANGED <<data, size, log, conn, last, promise, reset, buf>>
      BY <1>3 DEF BeginShow, storeVars, netVars, storeLife
    <2>2. Stores' /\ Wires' /\ Counted'
      BY <1>2, <2>1 DEF Stores, Wires, Counted
    <2>3. cursor' \in DOMAIN meta
      BY <1>2, <2>1, SeekToFirstFacts
    <2>4. Control' /\ Editing'
      BY <1>1, <1>2, <2>1, LeftReBalance DEF Control, Editing
    <2>5. Place' /\ Picked' /\ Spare' /\ Quiet' /\ Acked' /\ Showing'
      BY <1>1, <1>2, <2>1, <2>3 DEF Place, Picked, Spare, Quiet, Acked, Showing
    <2> QED
      BY <2>2, <2>4, <2>5 DEF FInv
  <1>4. CASE Show
    <2> DEFINE n == meta[cursor].fd
               a == IntAnswer(size[n])
    <2>1. /\ pc = "show" /\ Ask(n, a)
          /\ cursor' = After(meta, cursor)
          /\ pc' = IF After(meta, cursor) = EmptyStr THEN "idle" ELSE "show"
          /\ UNCHANGED <<phase, node, total, mig, ok>>
      BY <1>4 DEF Show, loopVars
    <2>2. cursor \in DOMAIN meta /\ cursor \in Nat
      BY <1>2, <2>1, KeysAreNat DEF FInv, Showing
    <2>3. n \in Nodes
      BY <1>2, <2>2 DEF Control, IsDb, MetaEntries
    <2>4. a \in Buffers
      BY <1>2, <2>3, AnswerTypes DEF Stores
    <2> HIDE DEF n, a
    <2>5. Stores' /\ Wires' /\ Counted'
      BY <1>2, <2>1, <2>3, <2>4, AskKeeps
    <2>6. pc' = "show" => cursor' \in DOMAIN meta
      BY <1>2, <2>1, <2>2, AfterFacts
    <2>7. Control' /\ Editing'
      BY <1>1, <1>2, <2>1 DEF Control, Editing
    <2>8. Place' /\ Picked' /\ Spare' /\ Quiet' /\ Acked' /\ Showing'
      BY <1>1, <1>2, <2>6 DEF Place, Picked, Spare, Quiet, Acked, Showing
    <2> QED
      BY <2>5, <2>7, <2>8 DEF FInv
  <1> QED
    BY <1>3, <1>4

\* The ends of processes.
LEMMA ControlGoneKeeps ==
  ASSUME FInv, ControlGone
  PROVE  FInv'
  <1>1. /\ pc' = "down"
        /\ conn' = [n \in Nodes |-> IF conn[n] = "open" THEN "eof" ELSE conn[n]]
        /\ UNCHANGED <<meta, data, size, log, req, fd, phase, node, total, mig, last,
                       promise, reset, buf, ok, edits, told>>
    BY DEF ControlGone, storeVars, ctlVars, loopVars, localVars
  <1>2. Stores /\ Wires /\ Counted /\ Control /\ Quiet
    BY DEF FInv
  <1>3. Stores'
    BY <1>1, <1>2 DEF Stores
  <1>4. Wires' /\ Counted'
    BY <1>1, <1>2 DEF Wires, Counted
  <1>5. Control'
    BY <1>1, <1>2 DEF Control
  <1>6. Editing' /\ Place' /\ Picked' /\ Spare' /\ Quiet' /\ Acked' /\ Showing'
    BY <1>1, <1>2 DEF Editing, Place, Picked, Spare, Quiet, Acked, Showing
  <1> QED
    BY <1>3, <1>4, <1>5, <1>6 DEF FInv

LEMMA StoreEndsKeeps ==
  ASSUME FInv, NEW n \in Nodes, StoreEnds(n) \/ StoreStops(n)
  PROVE  FInv'
  <1>1. /\ conn' = [conn EXCEPT ![n] = "down"]
        /\ UNCHANGED <<meta, data, size, log, pc, req, fd, phase, node, total, mig, last,
                       promise, reset, buf, ok, edits, cursor, told>>
    BY DEF StoreEnds, StoreStops, vars, storeVars, ctlVars, loopVars, localVars
  <1>2. Stores /\ Wires /\ Counted /\ Control /\ Quiet
    BY DEF FInv
  <1>3. Stores'
    BY <1>1, <1>2 DEF Stores
  <1>4. Wires' /\ Counted' /\ \A x \in Nodes : conn'[x] = "open" => conn[x] = "open"
    BY <1>1, <1>2 DEF Wires, Counted
  <1>5. Control' /\ Editing' /\ Showing'
    BY <1>1 DEF FInv, Control, Editing, Showing
  <1>6. Place' /\ Picked' /\ Quiet' /\ Acked'
    BY <1>1, <1>2 DEF FInv, Place, InLoop, Picked, Quiet, Acked, OkIsLeast
  <1>7. Spare'
    BY <1>1, <1>4 DEF FInv, Spare, Place
  <1> QED
    BY <1>3, <1>4, <1>5, <1>6, <1>7 DEF FInv

LEMMA StoreReplaysKeeps ==
  ASSUME FInv, NEW n \in Nodes, StoreReplays(n)
  PROVE  FInv'
  <1> DEFINE r == last[n]
  <1>1. /\ conn[n] = "eof" /\ Serve(n, r)
        /\ \E c \in {"eof", "down"} : conn' = [conn EXCEPT ![n] = c]
        /\ UNCHANGED <<meta, pc, req, fd, phase, node, total, mig, reset, buf, ok, edits,
                       cursor, told>>
    BY DEF StoreReplays, ctlVars, loopVars, localVars
  <1>2. Stores /\ Wires /\ Counted /\ IsRequest(r) /\ DbSize(data[n]) <= size[n]
    BY <1>1 DEF FInv, Stores, Counted
  <1> HIDE DEF r
  <1>3. /\ Stores'
        /\ \A x \in Nodes : DbSize(data[x]) <= size[x] => DbSize(data'[x]) <= size'[x]
    BY <1>1, <1>2, ServeKeeps
  <1>4. /\ last' = last
        /\ \A x \in Nodes : x # n => data'[x] = data[x]
    BY <1>1, <1>2 DEF Serve, Stores, r
  <1>5. /\ Wires' /\ conn'[n] # "open"
        /\ \A x \in Nodes : x # n => conn'[x] = conn[x]
    BY <1>1, <1>2 DEF Wires
  <1>6. Counted'
    BY <1>1, <1>2, <1>3, <1>5 DEF Counted
  <1>7. Control' /\ Editing' /\ Showing'
    BY <1>1 DEF FInv, Control, Editing, Showing
  <1>8. Place' /\ Picked' /\ Quiet' /\ Acked'
    BY <1>1, <1>2, <1>4 DEF FInv, Place, InLoop, Picked, Quiet, Acked, OkIsLeast
  <1>9. Spare'
    BY <1>1, <1>4, <1>5 DEF FInv, Spare, Place
  <1> QED
    BY <1>3, <1>5, <1>6, <1>7, <1>8, <1>9 DEF FInv

LEMMA StartKeeps ==
  ASSUME FInv, Start
  PROVE  FInv'
  <1>1. /\ size' = [n \in Nodes |-> DbSize(data[n])]
        /\ conn' = [n \in Nodes |-> "open"]
        /\ last' = [n \in Nodes |-> Request("none", NoEntry)]
        /\ promise' = [n \in Nodes |-> {}]
        /\ reset' = [n \in Nodes |-> "no"]
        /\ buf' = FreshBuffer
        /\ edits' = MissingEntries
        /\ pc' = IF MissingEntries # <<>> THEN "edit" ELSE "idle"
        /\ req' = Idle /\ fd' = 0
        /\ LeaveReBalance
        /\ UNCHANGED <<meta, data, log, told>>
    BY DEF Start, Recounted
  <1>2. Stores /\ Wires /\ Control
    BY DEF FInv
  <1>3. \A n \in Nodes : DbSize(data[n]) \in Nat
    BY <1>2, SizeIsNat DEF Stores
  <1>4. Stores'
    BY <1>1, <1>2, <1>3, RequestTypes DEF Stores
  <1>5. Wires'
    BY <1>1, <1>2, AnswerTypes DEF Wires
  <1>6. Counted'
    BY <1>1, <1>3 DEF Counted
  <1>7. /\ edits' \in Seq(Edits)
        /\ pc' = "edit" => edits' # <<>> /\ edits'[Len(edits')].op # "delete"
        /\ pc' # "edit" => DOMAIN meta # {}
    BY <1>1, FirstEditsType, EmptySeq DEF MissingEntries
  <1>8. Control'
    BY <1>1, <1>2, <1>7, LeftReBalance, NodesAreInt DEF Control
  <1>9. Editing'
    BY <1>1, <1>7 DEF Editing
  <1>10. Place' /\ Picked' /\ Spare' /\ Quiet' /\ Acked' /\ Showing'
    BY <1>1, <1>2, LeftReBalance DEF Place, Picked, Spare, Quiet, Acked, Showing
  <1> QED
    BY <1>4, <1>5, <1>6, <1>8, <1>9, <1>10 DEF FInv

LEMMA StutterKeeps ==
  ASSUME FInv, UNCHANGED allVars
  PROVE  FInv'
  <1>1. UNCHANGED <<meta, data, size, log, pc, req, fd, phase, node, total, mig, conn, last,
                    promise, reset, buf, ok, edits, cursor, told>>
    BY DEF allVars, vars, faultVars, netVars, localVars, storeLife, storeVars, ctlVars, loopVars
  <1>2. Stores' /\ Wires' /\ Counted'
    BY <1>1 DEF FInv, Stores, Wires, Counted
  <1>3. Control' /\ Editing' /\ Showing'
    BY <1>1 DEF FInv, Control, Editing, Showing
  <1>4. Place' /\ Picked' /\ Quiet' /\ Acked' /\ Spare'
    BY <1>1, <1>2 DEF FInv, Place, InLoop, Picked, Quiet, Acked, OkIsLeast, Spare
  <1> QED
    BY <1>2, <1>3, <1>4 DEF FInv

\* The steps of the specification, one name for each.
LEMMA StepsOf ==
  ASSUME FaultsNext
  PROVE  \/ \E k \in Keys, v \in Values : Command(PutEntry(k, v))
         \/ \E k \in Keys : Command(DeleteEntry(k)) \/ AskGet(k)
         \/ EditMeta \/ CommitCommand \/ Tell \/ EnterReBalance
         \/ AskSize
         \/ (EnterUp \/ EnterDown) /\ UNCHANGED faultVars
         \/ CheckShare \/ CheckSpare \/ PickKey
         \/ TryLogSource \/ TryLogPeer \/ UndoSource \/ UndoPeer
         \/ PlanEdits \/ TryCommitSource \/ TryCommitPeer
         \/ BeginShow \/ Show
         \/ ControlGone
         \/ \E n \in Nodes : StoreEnds(n) \/ StoreReplays(n) \/ StoreStops(n)
         \/ Start
  BY DEF FaultsNext, NewCommand, Finishing, TryPut, TryDel, Crash, ControlEnds

LEMMA FaultsNextKeeps == FInv /\ [FaultsNext]_allVars => FInv'
  <1> SUFFICES ASSUME FInv, [FaultsNext]_allVars
               PROVE  FInv'
    OBVIOUS
  <1>1. CASE UNCHANGED allVars
    BY <1>1, StutterKeeps
  <1>2. ASSUME NEW k \in Keys, NEW v \in Values, Command(PutEntry(k, v))
        PROVE  FInv'
    BY <1>2, PutApplicable, CommandKeeps
  <1>3. ASSUME NEW k \in Keys, Command(DeleteEntry(k))
        PROVE  FInv'
    BY <1>3, DeleteApplicable, CommandKeeps
  <1>4. ASSUME NEW k \in Keys, AskGet(k)
        PROVE  FInv'
    BY <1>4, AskGetKeeps
  <1>5. CASE EditMeta \/ CommitCommand \/ Tell \/ EnterReBalance
    BY <1>5, EditMetaKeeps, CommitCommandKeeps, TellKeeps, EnterReBalanceKeeps
  <1>6. CASE AskSize \/ ((EnterUp \/ EnterDown) /\ UNCHANGED faultVars)
    BY <1>6, AskSizeKeeps, EnterLoopKeeps
  <1>7. CASE CheckShare \/ CheckSpare \/ PickKey
    BY <1>7, CheckShareKeeps, CheckSpareKeeps, PickKeyKeeps
  <1>8. CASE TryLogSource \/ TryLogPeer \/ UndoSource \/ UndoPeer
    BY <1>8, TryLogSourceKeeps, TryLogPeerKeeps, UndoKeeps
  <1>9. CASE PlanEdits \/ TryCommitSource \/ TryCommitPeer \/ BeginShow \/ Show
    BY <1>9, PlanEditsKeeps, TryCommitKeeps, ShowKeeps
  <1>10. CASE ControlGone \/ Start
    BY <1>10, ControlGoneKeeps, StartKeeps
  <1>11. ASSUME NEW n \in Nodes, StoreEnds(n) \/ StoreReplays(n) \/ StoreStops(n)
         PROVE  FInv'
    BY <1>11, StoreEndsKeeps, StoreReplaysKeeps
  <1> QED
    BY <1>1, <1>2, <1>3, <1>4, <1>5, <1>6, <1>7, <1>8, <1>9, <1>10, <1>11, StepsOf

-----------------------------------------------------------------------------
(* The theorems.                                                           *)

\* The inductive invariant, whichever processes end, at whatever request.
THEOREM InductiveFaults == FaultsSpec => []FInv
  BY FaultsInitKeeps, FaultsNextKeeps, PTL DEF FaultsSpec

\* The programs keep their types, whatever they read from a buffer nobody had
\* written: bounds and metadata entries are keys, and no counter is negative.
THEOREM FaultsTypesHold == FaultsSpec => []FaultsTypeOK
  <1>1. FInv => FaultsTypeOK
    BY DEF FInv, Stores, Wires, Control, Editing, Showing, Buffers, FaultsTypeOK
  <1> QED
    BY <1>1, InductiveFaults, PTL

\* run() may read the entry a lookup finds without asking whether there is one:
\* neither the pairs of metadata writes nor their interruption and the next
\* start leave it an empty database.
THEOREM LookupsFindEntry == FaultsSpec => []LookupFindsEntry
  <1>1. FInv => LookupFindsEntry
    BY DEF FInv, Editing, LookupFindsEntry
  <1> QED
    BY <1>1, InductiveFaults, PTL

\* "log commit" is printed only when COMMIT_LOG was served: when the node is gone,
\* receive_buff does not still hold the "ok" of the LOG, since the metadata entry
\* was encoded into it in between.
THEOREM AcksAreServed == FaultsSpec => []AckIsServed
  <1>1. FInv => AckIsServed
    BY DEF FInv, Acked, OkIsLeast, AckIsServed
  <1> QED
    BY <1>1, InductiveFaults, PTL

-----------------------------------------------------------------------------
(* Each store node behaves as StoreNode.                                   *)

\* What a step does to the state of one node.
Untouched(n) ==
  /\ data'[n] = data[n] /\ size'[n] = size[n] /\ log'[n] = log[n]
  /\ conn'[n] = conn[n] /\ last'[n] = last[n] /\ promise'[n] = promise[n]

NodeStep(n) == [Node(n)!Next]_(Node(n)!vars)

\* The operators of StoreNode are those of this module.
LEMMA SameRequests ==
  ASSUME NEW n
  PROVE  /\ Node(n)!Keys = Keys /\ Node(n)!READ = READ /\ Node(n)!NoEntry = NoEntry
         /\ \A k, v : Node(n)!PutEntry(k, v) = PutEntry(k, v)
         /\ \A k : Node(n)!DeleteEntry(k) = DeleteEntry(k)
         /\ \A c, e : Node(n)!Request(c, e) = Request(c, e)
         /\ Node(n)!EmptyStr = EmptyStr
  BY DEF Node!Keys, Keys, Node!READ, READ, Node!NoEntry, NoEntry, Node!PutEntry, PutEntry,
         Node!DeleteEntry, DeleteEntry, Node!Request, Request, Node!PUT, PUT, Node!DELETE, DELETE,
         Node!EmptyStr, EmptyStr

LEMMA SameLogs ==
  ASSUME NEW n, NEW lg
  PROVE  Node(n)!GetLog(lg) = GetLog(lg) /\ Node(n)!ClearLog(lg) = ClearLog(lg)
  <1>1. \A a, b : Node(n)!EntryLess(a, b) = EntryLess(a, b)
    BY Zenon DEF Node!EntryLess, EntryLess, Node!StoredLen, StoredLen
  <1>2. Node(n)!GetLog(lg) = GetLog(lg)
    BY <1>1, Zenon DEF Node!GetLog, GetLog
  <1> QED
    BY <1>2 DEF Node!ClearLog, ClearLog

LEMMA SameReply ==
  ASSUME NEW n, NEW db, NEW e
  PROVE  Node(n)!LogReply(db, e) = LogReply(db, e)
  BY Zenon DEF Node!LogReply, LogReply, Node!SeekToFirst, SeekToFirst, Node!SeekToLast, SeekToLast,
         Node!After, After, Node!Before, Before, Node!Lesser, Lesser, Node!Greater, Greater,
         Node!PUT, PUT, Node!EmptyStr, EmptyStr, Node!Min, Min, Node!Max, Max

LEMMA SameCommit ==
  ASSUME NEW n, NEW db, NEW sz, NEW lg
  PROVE  /\ Node(n)!CommitData(db, lg) = CommitData(db, lg)
         /\ Node(n)!CommitSize(db, sz, lg) = CommitSize(db, sz, lg)
         /\ Node(n)!DbSize(db) = DbSize(db)
  <1>1. Node(n)!GetLog(lg) = GetLog(lg)
    BY SameLogs
  <1>2. \A e : Node(n)!DataAfter(db, e) = DataAfter(db, e)
    BY DEF Node!DataAfter, DataAfter, Node!DbPut, DbPut, Node!DbDelete, DbDelete, Node!PUT, PUT
  <1>3. \A e : Node(n)!SizeAfter(db, sz, e) = SizeAfter(db, sz, e)
    BY DEF Node!SizeAfter, SizeAfter, Node!SizeWithout, SizeWithout, Node!DbGet, DbGet,
           Node!Weight, Weight, Node!PUT, PUT, Node!EmptyStr, EmptyStr
  <1>4. Node(n)!DbSize(db) = DbSize(db)
    BY DEF Node!DbSize, DbSize, Node!SumUpTo, SumUpTo, Node!Weight, Weight, Node!Keys, Keys
  <1> QED
    BY <1>1, <1>2, <1>3, <1>4 DEF Node!CommitData, CommitData, Node!CommitSize, CommitSize

LEMMA UntouchedSteps ==
  ASSUME NEW n, Untouched(n)
  PROVE  NodeStep(n)
  BY DEF Untouched, NodeStep, Node!vars

\* A request as the control node sends them.
IsSent(r) ==
  \/ \E k \in Keys, v \in Values : r = Request("log", PutEntry(k, v))
  \/ \E k \in Keys : r = Request("log", DeleteEntry(k))
  \/ r \in {Request("CLG", NoEntry), Request("dlg", NoEntry), Request(READ, NoEntry)}

LEMMA ServeSteps ==
  ASSUME Stores, Wires, NEW n \in Nodes, NEW r, Serve(n, r), IsSent(r),
         conn[n] = "open", conn'[n] \in {"open", "down"}, r.cmd = READ => conn'[n] = "open"
  PROVE  NodeStep(n)
  <1>1. /\ data'[n] = IF r.cmd = "CLG" THEN CommitData(data[n], log[n]) ELSE data[n]
        /\ size'[n] = IF r.cmd = "CLG" THEN CommitSize(data[n], size[n], log[n]) ELSE size[n]
        /\ last'[n] = r
    BY DEF Serve, Stores
  <1>2. ASSUME NEW e, r = Request("log", e)
        PROVE  /\ log'[n] = log[n] \cup {e}
               /\ promise'[n] = {LogReply(data[n], e)}
               /\ data'[n] = data[n] /\ size'[n] = size[n]
    BY <1>1, <1>2 DEF Serve, Stores, Request
  <1>3. ASSUME NEW k \in Keys, NEW v \in Values, r = Request("log", PutEntry(k, v))
        PROVE  NodeStep(n)
    <2> DEFINE e == PutEntry(k, v)
    <2>1. Node(n)!Log(e)
      BY <1>1, <1>2, <1>3, SameRequests, SameReply DEF Node!Log, Node!HandleLog
    <2> QED
      BY <2>1, SameRequests DEF NodeStep, Node!Next
  <1>4. ASSUME NEW k \in Keys, r = Request("log", DeleteEntry(k))
        PROVE  NodeStep(n)
    <2> DEFINE e == DeleteEntry(k)
    <2>1. Node(n)!Log(e)
      BY <1>1, <1>2, <1>4, SameRequests, SameReply DEF Node!Log, Node!HandleLog
    <2> QED
      BY <2>1, SameRequests DEF NodeStep, Node!Next
  <1>5. CASE r = Request("CLG", NoEntry)
    <2>1. log'[n] = ClearLog(log[n]) /\ promise'[n] = {}
      BY <1>5 DEF Serve, Stores, Request
    <2>2. Node(n)!CommitLog
      BY <1>1, <1>5, <2>1, RequestTypes, SameRequests, SameLogs, SameCommit
         DEF Node!CommitLog, Node!HandleCommit
    <2> QED
      BY <2>2 DEF NodeStep, Node!Next
  <1>6. CASE r = Request("dlg", NoEntry)
    <2>1. log'[n] = ClearLog(log[n]) /\ promise'[n] = {}
      BY <1>6 DEF Serve, Stores, Request
    <2>2. Node(n)!DelLog
      BY <1>1, <1>6, <2>1, RequestTypes, SameRequests, SameLogs
         DEF Node!DelLog, Node!HandleDelLog
    <2> QED
      BY <2>2 DEF NodeStep, Node!Next
  <1>7. CASE r = Request(READ, NoEntry)
    <2>1. log'[n] = log[n] /\ promise'[n] = promise[n] /\ conn'[n] = "open"
      BY <1>7 DEF Serve, Stores, READ, Request
    <2>2. Node(n)!Query(Node(n)!READ)
      BY <1>1, <1>7, <2>1, RequestTypes, SameRequests DEF Node!Query, READ
    <2> QED
      BY <2>2 DEF NodeStep, Node!Next
  <1> QED
    BY <1>3, <1>4, <1>5, <1>6, <1>7 DEF IsSent

\* A request to node n is a step of that node, or none, and no step of another.
LEMMA ExchangeSteps ==
  ASSUME Stores, Wires, NEW n \in Nodes, NEW r, IsSent(r), NEW a, Exchange(n, r, a)
  PROVE  \A x \in Nodes : NodeStep(x)
  <1>1. ASSUME NEW x \in Nodes, x # n
        PROVE  NodeStep(x)
    <2>1. /\ Serve(n, r) => /\ data'[x] = data[x] /\ size'[x] = size[x]
                            /\ log'[x] = log[x] /\ promise'[x] = promise[x]
                            /\ last'[x] = last[x]
      BY <1>1 DEF Serve, Stores
    <2>2. Untouched(x)
      BY <1>1, <2>1 DEF Exchange, Answered, DiesServing, Unanswered, Untouched, storeVars,
                        storeLife, Stores, Wires
    <2> QED
      BY <2>2, UntouchedSteps
  <1>2. CASE Answered(n, r, a)
    <2>1. Serve(n, r) /\ conn[n] = "open" /\ conn'[n] = "open"
      BY <1>2 DEF Answered
    <2> QED
      BY <1>1, <2>1, ServeSteps
  <1>3. CASE DiesServing(n, r)
    <2>1. conn[n] = "open" /\ conn'[n] = "down"
      BY <1>3 DEF DiesServing, Wires
    <2>2. CASE r.cmd # READ /\ Serve(n, r)
      BY <1>1, <2>1, <2>2, ServeSteps
    <2>3. CASE /\ data' = [data EXCEPT ![n] = CommitData(@, log[n])]
               /\ promise' = [promise EXCEPT ![n] = {}]
               /\ UNCHANGED <<size, log, last>>
      <3>1. Node(n)!DieInCommit
        BY <2>1, <2>3, SameCommit DEF Node!DieInCommit, Stores
      <3> QED
        BY <1>1, <3>1 DEF NodeStep, Node!Next
    <2>4. CASE UNCHANGED <<storeVars, promise, last>>
      <3>1. Node(n)!Die
        BY <2>1, <2>4 DEF Node!Die, storeVars
      <3> QED
        BY <1>1, <3>1 DEF NodeStep, Node!Next
    <2> QED
      BY <1>3, <2>2, <2>3, <2>4 DEF DiesServing
  <1>4. CASE Unanswered(n)
    <2>1. Untouched(n)
      BY <1>4 DEF Unanswered, Untouched, storeVars, storeLife
    <2> QED
      BY <1>1, <2>1, UntouchedSteps
  <1> QED
    BY <1>2, <1>3, <1>4 DEF Exchange

LEMMA ReplaySteps ==
  ASSUME Stores, Wires, NEW n \in Nodes, StoreReplays(n)
  PROVE  \A x \in Nodes : NodeStep(x)
  <1> DEFINE r == last[n]
  <1>1. /\ conn[n] = "eof" /\ Serve(n, r)
        /\ r.cmd \in {"log", "CLG", "dlg", READ}
        /\ conn' \in [Nodes -> {"open", "eof", "down"}] /\ conn'[n] \in {"eof", "down"}
        /\ \A x \in Nodes : x # n => conn'[x] = conn[x]
    BY DEF StoreReplays, Wires
  <1>2. ASSUME NEW x \in Nodes, x # n
        PROVE  NodeStep(x)
    <2>1. Untouched(x)
      BY <1>1, <1>2 DEF Serve, Untouched, Stores
    <2> QED
      BY <2>1, UntouchedSteps
  <1>3. /\ last'[n] = r
        /\ data'[n] = IF r.cmd = "CLG" THEN CommitData(data[n], log[n]) ELSE data[n]
        /\ size'[n] = IF r.cmd = "CLG" THEN CommitSize(data[n], size[n], log[n]) ELSE size[n]
    BY <1>1 DEF Serve, Stores
  <1>4. r.cmd = "log" => /\ log'[n] = log[n] \cup {r.entry}
                         /\ promise'[n] = {LogReply(data[n], r.entry)}
    BY <1>1 DEF Serve, Stores
  <1>5. r.cmd \in {"CLG", "dlg"} => log'[n] = ClearLog(log[n]) /\ promise'[n] = {}
    BY <1>1 DEF Serve, Stores
  <1>6. r.cmd = READ => log'[n] = log[n] /\ promise'[n] = promise[n]
    BY <1>1 DEF Serve, Stores, READ
  <1>7. \/ r.cmd = "log" /\ Node(n)!HandleLog(r.entry)
        \/ r.cmd = "CLG" /\ Node(n)!HandleCommit
        \/ r.cmd = "dlg" /\ Node(n)!HandleDelLog
        \/ r.cmd = READ /\ UNCHANGED <<data[n], size[n], log[n], promise[n]>>
    <2> HIDE DEF r
    <2>1. CASE r.cmd = "log"
      BY <1>3, <1>4, <2>1, SameReply DEF Node!HandleLog
    <2>2. CASE r.cmd = "CLG"
      BY <1>3, <1>5, <2>2, SameLogs, SameCommit DEF Node!HandleCommit
    <2>3. CASE r.cmd = "dlg"
      BY <1>3, <1>5, <2>3, SameLogs DEF Node!HandleDelLog
    <2>4. CASE r.cmd = READ
      BY <1>3, <1>6, <2>4 DEF READ
    <2> QED
      BY <1>1, <2>1, <2>2, <2>3, <2>4
  <1>8. Node(n)!Replay
    BY <1>1, <1>3, <1>7, SameRequests DEF Node!Replay
  <1> QED
    BY <1>2, <1>8 DEF NodeStep, Node!Next

\* Ends and starts.
LEMMA EndsSteps ==
  ASSUME Stores, Wires,
         \/ ControlGone
         \/ \E n \in Nodes : StoreEnds(n) \/ StoreStops(n)
         \/ Start
  PROVE  \A x \in Nodes : NodeStep(x)
  <1>1. CASE ControlGone
    <2> TAKE x \in Nodes
    <2>1. /\ conn'[x] = IF conn[x] = "open" THEN "eof" ELSE conn[x]
          /\ UNCHANGED <<data, size, log, last, promise>>
      BY <1>1 DEF ControlGone, storeVars
    <2>2. CASE conn[x] = "open"
      BY <2>1, <2>2 DEF NodeStep, Node!Next, Node!HangUp
    <2>3. CASE conn[x] # "open"
      BY <2>1, <2>3, UntouchedSteps DEF Untouched
    <2> QED
      BY <2>2, <2>3
  <1>2. ASSUME NEW n \in Nodes, StoreEnds(n) \/ StoreStops(n)
        PROVE  \A x \in Nodes : NodeStep(x)
    <2> TAKE x \in Nodes
    <2>1. /\ conn[n] # "down" /\ conn' = [conn EXCEPT ![n] = "down"]
          /\ UNCHANGED <<data, size, log, last, promise>>
      BY <1>2 DEF StoreEnds, StoreStops, vars, storeVars
    <2>2. CASE x = n
      BY <2>1, <2>2 DEF NodeStep, Node!Next, Node!Die, Wires
    <2>3. CASE x # n
      BY <2>1, <2>3, UntouchedSteps DEF Untouched, Wires
    <2> QED
      BY <2>2, <2>3
  <1>3. CASE Start
    <2> TAKE x \in Nodes
    <2>1. /\ conn[x] = "down" /\ conn'[x] = "open"
          /\ size'[x] = DbSize(data[x])
          /\ last'[x] = Request("none", NoEntry) /\ promise'[x] = {}
          /\ UNCHANGED <<data, log>>
      BY <1>3 DEF Start, Recounted
    <2>2. Node(x)!Start
      BY <2>1, SameRequests, SameCommit DEF Node!Start
    <2> QED
      BY <2>2 DEF NodeStep, Node!Next
  <1> QED
    BY <1>1, <1>2, <1>3

\* The steps of the control node that send no request.
LEMMA LocalSteps ==
  ASSUME UNCHANGED <<storeVars, storeLife>>
  PROVE  \A x \in Nodes : NodeStep(x)
  <1> TAKE x \in Nodes
  <1>1. Untouched(x)
    BY DEF Untouched, storeVars, storeLife
  <1> QED
    BY <1>1, UntouchedSteps

\* The requests go to store nodes.
LEMMA Addressed ==
  ASSUME FInv
  PROVE  /\ fd \in Nodes
         /\ pc \in {"loop", "spare", "pick", "logSource", "logPeer", "undoSource",
                    "undoPeer", "meta", "commitSource", "commitPeer"} => node \in Nodes
         /\ pc = "sum" /\ node < N => node \in Nodes
         /\ pc \in {"logPeer", "undoPeer", "commitPeer"} => Peer \in Nodes
         /\ pc = "show" => meta[cursor].fd \in Nodes
         /\ pc = "idle" => \A k \in Keys : /\ Route(k) \in Nodes
                                           /\ meta[SmallerOrEqual(meta, k)].fd \in Nodes
  <1>1. Control /\ Place /\ Editing /\ Showing
    BY DEF FInv
  <1>2. pc = "sum" /\ node < N => node \in Nodes
    BY <1>1, NAssumption DEF Control, Nodes
  <1>3. pc \in {"logPeer", "undoPeer", "commitPeer"} => Peer \in Nodes
    BY <1>1, PeerIsNode DEF Control, Place
  <1>4. pc = "show" => meta[cursor].fd \in Nodes
    BY <1>1 DEF Control, Showing, IsDb, MetaEntries
  <1>5. pc = "idle" => \A k \in Keys : /\ Route(k) \in Nodes
                                       /\ meta[SmallerOrEqual(meta, k)].fd \in Nodes
    BY <1>1, LookupType DEF Control, Editing
  <1> QED
    BY <1>1, <1>2, <1>3, <1>4, <1>5 DEF Control, Place

\* The requests of the control node are those a store node serves.
LEMMA SentRequests ==
  /\ \A k \in Keys, v \in Values : IsSent(Request("log", PutEntry(k, v)))
  /\ \A k \in Keys : IsSent(Request("log", DeleteEntry(k)))
  /\ IsSent(Request("CLG", NoEntry)) /\ IsSent(Request("dlg", NoEntry))
  /\ IsSent(Request(READ, NoEntry))
  BY DEF IsSent

\* A step of the whole system is, for each store node, a step of it or none.
LEMMA StepsOfNodes ==
  ASSUME FInv, [FaultsNext]_allVars
  PROVE  \A x \in Nodes : NodeStep(x)
  <1> DEFINE Goal == \A x \in Nodes : NodeStep(x)
  <1> SUFFICES Goal
    OBVIOUS
  <1> HIDE DEF Goal
  <1>0. Stores /\ Wires /\ Picked
    BY DEF FInv
  <1>1. ASSUME NEW n \in Nodes, NEW a, NEW r, IsSent(r), Exchange(n, r, a)
        PROVE  Goal
    BY <1>0, <1>1, ExchangeSteps DEF Goal
  <1>2. ASSUME UNCHANGED <<storeVars, storeLife>>
        PROVE  Goal
    BY <1>2, LocalSteps DEF Goal
  <1>3. ASSUME NEW n \in Nodes, NEW a, Ask(n, a)
        PROVE  Goal
    BY <1>1, <1>3, SentRequests DEF Ask
  <1>4. ASSUME NEW n \in Nodes, CommitLog(n) \/ DelLog(n)
        PROVE  Goal
    BY <1>1, <1>4, SentRequests DEF CommitLog, DelLog
  <1>5. ASSUME NEW n \in Nodes, NEW k \in Keys, NEW v \in Values,
               Log(n, PutEntry(k, v)) \/ Log(n, DeleteEntry(k))
        PROVE  Goal
    BY <1>1, <1>5, SentRequests DEF Log
  <1>6. ASSUME NEW n \in Nodes, NEW k \in Keys, Log(n, DeleteEntry(k))
        PROVE  Goal
    BY <1>1, <1>6, SentRequests DEF Log
  <1>7. ASSUME NEW k \in Keys, NEW v \in Values, Command(PutEntry(k, v))
        PROVE  Goal
    BY <1>5, <1>7, Addressed DEF Command, PutEntry
  <1>8. ASSUME NEW k \in Keys, Command(DeleteEntry(k))
        PROVE  Goal
    BY <1>6, <1>8, Addressed DEF Command, DeleteEntry
  <1>9. ASSUME NEW k \in Keys, AskGet(k)
        PROVE  Goal
    <2>1. Route(k) \in Nodes
      BY <1>9, Addressed DEF AskGet
    <2>2. PICK a : Exchange(Route(k), Request(READ, NoEntry), a)
      BY <1>9 DEF AskGet, Exchange
    <2> QED
      BY <1>1, <2>1, <2>2, SentRequests
  <1>10. CASE AskSize \/ CheckShare \/ CheckSpare \/ Show
    <2>1. \E n \in Nodes : \E a : Ask(n, a)
      BY <1>10, Addressed DEF AskSize, CheckShare, CheckSpare, Show
    <2> QED
      BY <1>3, <2>1
  <1>11. CASE PickKey
    <2>1. node \in Nodes
      BY <1>11, Addressed DEF PickKey
    <2>2. PICK a : Exchange(node, Request(READ, NoEntry), a)
      BY <1>11 DEF PickKey, Exchange
    <2> QED
      BY <1>1, <2>1, <2>2, SentRequests
  <1>12. CASE TryLogSource \/ TryLogPeer
    <2>1. mig.key \in Keys /\ mig.val \in Values
      BY <1>0, <1>12 DEF TryLogSource, TryLogPeer, Picked
    <2>2. CASE TryLogSource
      BY <1>6, <2>1, <2>2, Addressed DEF TryLogSource
    <2>3. CASE TryLogPeer
      BY <1>5, <2>1, <2>3, Addressed DEF TryLogPeer
    <2> QED
      BY <1>12, <2>2, <2>3
  <1>13. CASE CommitCommand \/ UndoSource \/ UndoPeer \/ TryCommitSource \/ TryCommitPeer
    <2>1. \E n \in Nodes : CommitLog(n) \/ DelLog(n)
      BY <1>13, Addressed
         DEF CommitCommand, UndoSource, UndoPeer, TryCommitSource, TryCommitPeer
    <2> QED
      BY <1>4, <2>1
  <1>14. CASE \/ EditMeta \/ Tell \/ EnterReBalance \/ PlanEdits \/ BeginShow
              \/ (EnterUp \/ EnterDown) /\ UNCHANGED faultVars
              \/ UNCHANGED allVars
    <2>1. UNCHANGED <<storeVars, storeLife>>
      BY <1>14 DEF EditMeta, Tell, EnterReBalance, PlanEdits, BeginShow, EnterUp, EnterDown,
                   faultVars, netVars, allVars, vars
    <2> QED
      BY <1>2, <2>1
  <1>15. CASE ControlGone \/ Start \/ \E n \in Nodes : StoreEnds(n) \/ StoreStops(n)
    BY <1>0, <1>15, EndsSteps DEF Goal
  <1>16. ASSUME NEW n \in Nodes, StoreReplays(n)
         PROVE  Goal
    BY <1>0, <1>16, ReplaySteps DEF Goal
  <1> QED
    BY <1>7, <1>8, <1>9, <1>10, <1>11, <1>12, <1>13, <1>14, <1>15, <1>16, StepsOf

\* Every store node, whichever processes end at whatever request, goes through a
\* behaviour of StoreNode: what is proved of one node there holds in the cluster.
THEOREM StoresAreStoreNodes == FaultsSpec => StoresImplement
  <1>1. FaultsInit => \A n \in Nodes : Node(n)!Init
    BY SameRequests DEF FaultsInit, Node!Init
  <1>2. FInv /\ [FaultsNext]_allVars =>
          [\A n \in Nodes : [Node(n)!Next]_(Node(n)!vars)]_allVars
    BY StepsOfNodes DEF NodeStep
  <1> QED
    BY <1>1, <1>2, InductiveFaults, PTL DEF FaultsSpec, StoresImplement

-----------------------------------------------------------------------------
(* A command ends, or the control node does.                               *)

\* The writes of re_balance, as Balancing counts them.
Rewriting == pc = "edit" /\ req = Idle /\ mig # NoMigration

\* A process ends by itself at most MaxFaults times, a log holds finitely many
\* entries, and no store node reads the end of its connection while the control
\* node is up.
Budget ==
  /\ faults \in 0 .. MaxFaults
  /\ \A n \in Nodes : IsFiniteSet(log[n])
  /\ pc # "down" => \A n \in Nodes : conn[n] # "eof"

\* A node that is up has logged that the key leaves it, so that re_balance rolls
\* back only when that node is gone.
Granted ==
  /\ pc = "logPeer" /\ conn[node] = "open" => ok /\ buf.whole /\ buf.text = "ok"
  /\ pc \in {"undoSource", "undoPeer"} => conn[node] # "open"

\* The key to be moved is at the node it leaves, and once logged stays so until
\* the commit, unless that node is gone.
StillHeld ==
  /\ pc = "logSource" /\ conn[node] = "open" => mig.key \in DOMAIN data[node]
  /\ (pc \in {"logPeer", "undoSource", "undoPeer", "meta", "commitSource"} \/ Rewriting)
     /\ conn[node] = "open"
     => mig.key \in DOMAIN data[node] /\ DeleteEntry(mig.key) \in log[node]

\* What a migration relies on: the part of the invariant that makes a command end.
DInv == Budget /\ Granted /\ StillHeld

\* What became of a request.
Served(n, r, a) ==
  conn[n] = "open" /\ conn' = conn /\ faults' = faults /\ buf' = a /\ Serve(n, r)

Died(n) ==
  /\ faults < MaxFaults /\ faults' = faults + 1
  /\ conn' = [conn EXCEPT ![n] = "down"] /\ buf' = buf

Silent(n) == conn[n] = "down" /\ UNCHANGED <<data, log, conn, buf, faults>>

\* The other nodes are not concerned, and no log grows without bound.
Local(n) ==
  /\ \A x \in Nodes : x # n => data'[x] = data[x] /\ log'[x] = log[x]
  /\ \A x \in Nodes : IsFiniteSet(log[x]) => IsFiniteSet(log'[x])

LEMMA ServeLocal ==
  ASSUME Stores, NEW n \in Nodes, NEW r, Serve(n, r)
  PROVE  Local(n)
  <1> DEFINE g == log[n]
             d == CommitData(data[n], log[n])
  <1>1. /\ data' = data \/ data' = [data EXCEPT ![n] = d]
        /\ \/ log' = log
           \/ log' = [log EXCEPT ![n] = g \cup {r.entry}]
           \/ log' = [log EXCEPT ![n] = ClearLog(g)]
    BY DEF Serve
  <1>2. g \subseteq Entries /\ \A e \in g : Applicable(e)
    BY DEF Stores
  <1> DEFINE c == ClearLog(g)
             a == g \cup {r.entry}
  <1>3. c \subseteq g
    BY DEF ClearLog
  <1>4. IsFiniteSet(g) => IsFiniteSet(c) /\ IsFiniteSet(a)
    BY <1>3, FS_Subset, FS_AddElement
  <1> HIDE DEF a, c, d, g
  <1>5. log' = log \/ log' = [log EXCEPT ![n] = a] \/ log' = [log EXCEPT ![n] = c]
    BY <1>1 DEF a, c
  <1>6. log \in [Nodes -> SUBSET Entries] /\ data = [x \in Nodes |-> data[x]]
    BY DEF Stores
  <1>7. \A x \in Nodes : x # n => data'[x] = data[x] /\ log'[x] = log[x]
    BY <1>1, <1>5, <1>6
  <1>8. log'[n] \in {g, a, c}
    BY <1>5, <1>6 DEF g
  <1> QED
    BY <1>4, <1>7, <1>8 DEF Local, g

\* A request is answered, or its node dies, or there is none.
LEMMA ExchangeCases ==
  ASSUME Stores, Wires, NEW n \in Nodes, NEW r, NEW a, Exchange(n, r, a)
  PROVE  /\ Served(n, r, a) \/ Died(n) \/ Silent(n)
         /\ Local(n)
         /\ r.cmd # "CLG" => data' = data
  <1>1. CASE Answered(n, r, a)
    <2>1. Served(n, r, a)
      BY <1>1 DEF Answered, Served
    <2> QED
      BY <1>1, <2>1, ServeLocal DEF Answered, Serve
  <1>2. CASE DiesServing(n, r)
    <2>1. Died(n)
      BY <1>2 DEF DiesServing, Died
    <2>2. CASE Serve(n, r)
      BY <2>1, <2>2, ServeLocal DEF Serve
    <2>3. CASE /\ r.cmd = "CLG" /\ log' = log
               /\ data' = [data EXCEPT ![n] = CommitData(data[n], log[n])]
      <3>1. \A x \in Nodes : x # n => data'[x] = data[x]
        BY <2>3 DEF Stores
      <3> QED
        BY <2>1, <2>3, <3>1 DEF Local
    <2>4. CASE UNCHANGED <<data, log>>
      BY <2>1, <2>4 DEF Local
    <2> QED
      BY <1>2, <2>2, <2>3, <2>4 DEF DiesServing, storeVars
  <1>3. CASE Unanswered(n)
    BY <1>3 DEF Unanswered, Silent, Local, storeVars, storeLife
  <1> QED
    BY <1>1, <1>2, <1>3 DEF Exchange

LEMMA ExchangeBudget ==
  ASSUME Stores, Wires, Budget, pc # "down", NEW n \in Nodes, NEW r, NEW a,
         Exchange(n, r, a)
  PROVE  Budget'
  <1>1. /\ faults \in 0 .. MaxFaults
        /\ \A x \in Nodes : IsFiniteSet(log[x])
        /\ \A x \in Nodes : conn[x] # "eof"
    BY DEF Budget
  <1>2. Served(n, r, a) \/ Died(n) \/ Silent(n)
    BY ExchangeCases
  <1>3. \A x \in Nodes : IsFiniteSet(log'[x])
    BY <1>1, ExchangeCases DEF Local
  <1>4. faults' \in 0 .. MaxFaults
    BY <1>1, <1>2, BoundsAssumption DEF Served, Died, Silent
  <1>5. \A x \in Nodes : conn'[x] # "eof"
    BY <1>1, <1>2 DEF Served, Died, Silent, Wires
  <1> QED
    BY <1>3, <1>4, <1>5 DEF Budget

-----------------------------------------------------------------------------
(* Every step keeps DInv.                                                  *)

\* Outside of a migration nothing is asked of the nodes.
Elsewhere ==
  /\ pc \notin {"logSource", "logPeer", "undoSource", "undoPeer", "meta", "commitSource"}
  /\ ~Rewriting

LEMMA ElsewhereHolds == Elsewhere => Granted /\ StillHeld
  BY DEF Elsewhere, Granted, StillHeld

LEMMA ElsewhereNext == Elsewhere' => Granted' /\ StillHeld'
  BY ElsewhereHolds, PTL

LEMMA FaultsInitD == FaultsInit => DInv
  <1> SUFFICES ASSUME FaultsInit
               PROVE  DInv
    OBVIOUS
  <1>1. /\ faults = 0 /\ pc = "edit" /\ mig = NoMigration
        /\ log = [n \in Nodes |-> {}] /\ conn = [n \in Nodes |-> "open"]
    BY DEF FaultsInit
  <1>2. Budget
    BY <1>1, FS_EmptySet, BoundsAssumption DEF Budget
  <1>3. Elsewhere
    BY <1>1 DEF Elsewhere, Rewriting
  <1> QED
    BY <1>2, <1>3, ElsewhereHolds DEF DInv

\* The steps of the commands and the questions of the loops.
LEMMA CommandD ==
  ASSUME FInv, DInv, NEW e, Applicable(e), Command(e),
         meta[SmallerOrEqual(meta, e.key)].fd \in Nodes
  PROVE  DInv'
  <1>0. Stores /\ Wires /\ Budget /\ Quiet
    BY DEF FInv, DInv
  <1>1. /\ pc = "idle" /\ Log(meta[SmallerOrEqual(meta, e.key)].fd, e)
        /\ \/ req' = e /\ pc' = "edit"
           \/ pc' = "sum" /\ req' = req
    BY DEF Command
  <1>2. Budget'
    BY <1>0, <1>1, ExchangeBudget DEF Log
  <1>3. req = Idle /\ e # Idle
    BY <1>0, <1>1, IdleAssumption DEF Quiet, Applicable
  <1>4. Elsewhere'
    BY <1>1, <1>3 DEF Elsewhere, Rewriting
  <1> QED
    BY <1>2, <1>4, ElsewhereNext DEF DInv

LEMMA AskGetD ==
  ASSUME FInv, DInv, NEW k \in Keys, AskGet(k)
  PROVE  DInv'
  <1>0. Stores /\ Wires /\ Budget
    BY DEF FInv, DInv
  <1>1. pc = "idle" /\ pc' = "idle" /\ req' = req
    BY DEF AskGet
  <1>2. PICK a : Exchange(Route(k), Request(READ, NoEntry), a)
    BY DEF AskGet, Exchange
  <1>3. Budget'
    BY <1>0, <1>1, <1>2, Addressed, ExchangeBudget
  <1>4. Elsewhere'
    BY <1>0, <1>1 DEF Elsewhere, Rewriting
  <1> QED
    BY <1>3, <1>4, ElsewhereNext DEF DInv

LEMMA AsksD ==
  ASSUME FInv, DInv,
         AskSize \/ CheckShare \/ CheckSpare \/ Show \/ CommitCommand \/ TryCommitSource
           \/ TryCommitPeer
  PROVE  DInv'
  <1>0. Stores /\ Wires /\ Budget
    BY DEF FInv, DInv
  <1>1. /\ req' = req
        /\ \/ /\ pc \in {"sum", "loop", "spare", "show", "commitSource", "commitPeer"}
              /\ pc' \in {"sum", "loop", "spare", "pick", "show", "idle", "commitPeer"}
           \/ pc = "commit" /\ pc' \in {"tell", "enter"}
    BY DEF AskSize, CheckShare, CheckSpare, Show, CommitCommand, TryCommitSource,
           TryCommitPeer, ctlVars
  <1>2. \E n \in Nodes : \E r, a : Exchange(n, r, a)
    BY Addressed DEF AskSize, CheckShare, CheckSpare, Show, CommitCommand, TryCommitSource,
                     TryCommitPeer, Ask, CommitLog
  <1>3. Budget'
    BY <1>0, <1>1, <1>2, ExchangeBudget
  <1>4. Elsewhere'
    BY <1>0, <1>1 DEF Elsewhere, Rewriting
  <1> QED
    BY <1>3, <1>4, ElsewhereNext DEF DInv

\* The steps that send nothing.
LEMMA LocalD ==
  ASSUME FInv, DInv,
         Tell \/ EnterReBalance \/ BeginShow \/ ((EnterUp \/ EnterDown) /\ UNCHANGED faultVars)
  PROVE  DInv'
  <1>0. Budget
    BY DEF DInv
  <1>1. /\ UNCHANGED <<log, conn, faults>>
        /\ \/ pc = "tell" /\ pc' = "enter" /\ req' = req
           \/ pc = "enter" /\ pc' = "sum" /\ req' = Idle
           \/ pc \in {"loop", "sum"} /\ pc' \in {"loop", "show"} /\ req' = req
    BY DEF Tell, EnterReBalance, BeginShow, EnterUp, EnterDown, faultVars, netVars, storeLife,
           storeVars, ctlVars
  <1>2. Budget'
    BY <1>0, <1>1 DEF Budget
  <1>3. Elsewhere'
    BY <1>0, <1>1 DEF Elsewhere, Rewriting
  <1> QED
    BY <1>2, <1>3, ElsewhereNext DEF DInv

LEMMA EditMetaD ==
  ASSUME FInv, DInv, EditMeta
  PROVE  DInv'
  <1>0. Budget /\ StillHeld
    BY DEF DInv
  <1>1. /\ pc = "edit"
        /\ UNCHANGED <<data, log, conn, faults, req, mig, node>>
        /\ \/ pc' \in {"edit", "idle", "commit"}
           \/ pc' = "commitSource" /\ ~Constructing
        /\ pc' = "idle" => Constructing
        /\ pc' = "commitSource" => req = Idle
    BY DEF EditMeta, storeVars, ctlVars, loopVars, storeLife
  <1>2. Budget'
    BY <1>0, <1>1 DEF Budget
  <1>3. CASE pc' \in {"idle", "commit"}
    <2>1. Elsewhere'
      BY <1>3 DEF Elsewhere, Rewriting
    <2> QED
      BY <1>2, <2>1, ElsewhereNext DEF DInv
  <1>4. CASE pc' = "edit"
    <2>1. Granted'
      BY <1>4 DEF Granted
    <2>2. StillHeld'
      BY <1>0, <1>1, <1>4 DEF StillHeld, Rewriting
    <2> QED
      BY <1>2, <2>1, <2>2 DEF DInv
  <1>5. CASE pc' = "commitSource"
    <2>1. Rewriting /\ ~Constructing
      BY <1>1, <1>5 DEF Rewriting, Constructing
    <2>2. Granted'
      BY <1>5 DEF Granted
    <2>3. StillHeld'
      BY <1>0, <1>1, <1>5, <2>1 DEF StillHeld
    <2> QED
      BY <1>2, <2>2, <2>3 DEF DInv
  <1> QED
    BY <1>1, <1>3, <1>4, <1>5

LEMMA PlanEditsD ==
  ASSUME FInv, DInv, PlanEdits
  PROVE  DInv'
  <1>1. /\ pc = "meta" /\ pc' = "edit"
        /\ UNCHANGED <<data, log, conn, faults, req, mig, node>>
    BY DEF PlanEdits, netVars, storeLife, storeVars, ctlVars, loopVars
  <1>2. Budget /\ StillHeld
    BY DEF DInv
  <1>3. Budget'
    BY <1>1, <1>2 DEF Budget
  <1>4. Granted'
    BY <1>1 DEF Granted
  <1>5. StillHeld'
    BY <1>1, <1>2 DEF StillHeld
  <1> QED
    BY <1>3, <1>4, <1>5 DEF DInv

LEMMA PickKeyD ==
  ASSUME FInv, DInv, PickKey
  PROVE  DInv'
  <1> DEFINE k == IF phase = "up" THEN SeekToLast(data[node]) ELSE SeekToFirst(data[node])
             r == Request(READ, NoEntry)
  <1>0. /\ Stores /\ Wires /\ Budget /\ node \in Nodes /\ pc = "pick"
        /\ conn[node] = "open" => ~StoreLessOrEqualOne(data[node])
    BY Addressed DEF FInv, DInv, Spare, PickKey
  <1>1. /\ pc' = "logSource" /\ req' = req /\ node' = node
        /\ \/ \E a : Answered(node, r, a) /\ mig'.key = k
           \/ DiesServing(node, r) \/ Unanswered(node)
    BY DEF PickKey, ctlVars, loopVars, NoMigration
  <1>2. \E a : Exchange(node, r, a)
    BY <1>1 DEF Exchange
  <1>3. Budget'
    BY <1>0, <1>2, ExchangeBudget
  <1>4. Granted'
    BY <1>1 DEF Granted
  <1>5. data' = data
    <2>1. r.cmd # "CLG"
      BY RequestTypes DEF READ
    <2> HIDE DEF r
    <2> QED
      BY <1>0, <1>2, <2>1, ExchangeCases
  <1>6. conn[node] = "open" => k \in DOMAIN data[node]
    <2>1. conn[node] = "open" => DOMAIN data[node] # {} /\ DOMAIN data[node] \subseteq Keys
      BY <1>0 DEF StoreLessOrEqualOne, Stores, IsDb
    <2> QED
      BY <2>1, SeekToFirstFacts, SeekToLastFacts
  <1>7. conn'[node] = "open" => conn[node] = "open" /\ mig'.key = k
    BY <1>0, <1>1 DEF Answered, DiesServing, Unanswered, storeLife, Wires
  <1>8. StillHeld'
    <2> HIDE DEF k, r
    <2>1. conn'[node'] = "open" => mig'.key \in DOMAIN data'[node']
      BY <1>1, <1>5, <1>6, <1>7
    <2> QED
      BY <1>1, <2>1 DEF StillHeld, Rewriting
  <1> QED
    BY <1>3, <1>4, <1>8 DEF DInv

LEMMA TryLogSourceD ==
  ASSUME FInv, DInv, TryLogSource
  PROVE  DInv'
  <1> DEFINE e == DeleteEntry(mig.key)
             r == Request("log", e)
             a == LogAnswer(LogReply(data[node], e))
  <1>0. /\ Stores /\ Wires /\ Budget /\ node \in Nodes /\ pc = "logSource"
        /\ conn[node] = "open" => mig.key \in DOMAIN data[node]
    BY Addressed DEF FInv, DInv, StillHeld, TryLogSource
  <1>1. /\ pc' = "logPeer" /\ req' = req /\ node' = node
        /\ Exchange(node, r, a)
        /\ \E yes \in IsOk(buf') : ok' = yes
        /\ mig'.key = mig.key
    BY DEF TryLogSource, Log, ctlVars, loopVars, FInv, Control
  <1>2. r.cmd = "log" /\ r.entry = e /\ a.whole /\ a.text = "ok"
    BY DEF Request, LogAnswer, OkAnswer
  <1> HIDE DEF r, a
  <1>3. Budget'
    BY <1>0, <1>1, ExchangeBudget
  <1>4. data' = data
    BY <1>0, <1>1, <1>2, ExchangeCases
  <1>5. conn'[node] = "open" => Served(node, r, a)
    BY <1>0, <1>1, ExchangeCases DEF Died, Silent, Wires
  <1>6. Served(node, r, a) => /\ conn[node] = "open"
                              /\ ok' /\ buf'.whole /\ buf'.text = "ok"
    <2>1. IsOk(a) = {TRUE}
      BY <1>2 DEF IsOk
    <2>2. Served(node, r, a) => conn[node] = "open" /\ buf' = a
      BY DEF Served
    <2>3. Served(node, r, a) => ok' = TRUE
      BY <1>1, <2>1, <2>2
    <2> QED
      BY <1>2, <2>2, <2>3
  <1>7. Served(node, r, a) => e \in log'[node]
    BY <1>0, <1>2 DEF Served, Serve, Stores
  <1>8. Granted'
    BY <1>1, <1>5, <1>6 DEF Granted
  <1>9. StillHeld'
    <2>1. conn'[node'] = "open" => /\ mig'.key \in DOMAIN data'[node']
                                   /\ DeleteEntry(mig'.key) \in log'[node']
      BY <1>0, <1>1, <1>4, <1>5, <1>6, <1>7
    <2> QED
      BY <1>1, <2>1 DEF StillHeld, Rewriting
  <1> QED
    BY <1>3, <1>8, <1>9 DEF DInv

LEMMA TryLogPeerD ==
  ASSUME FInv, DInv, TryLogPeer
  PROVE  DInv'
  <1> DEFINE e == PutEntry(mig.key, mig.val)
             r == Request("log", e)
             a == LogAnswer(LogReply(data[Peer], e))
  <1>0. /\ Stores /\ Wires /\ Budget /\ pc = "logPeer"
        /\ node \in Nodes /\ Peer \in Nodes /\ Peer # node
        /\ conn[node] = "open" => /\ ok /\ buf.whole /\ buf.text = "ok"
                                  /\ mig.key \in DOMAIN data[node]
                                  /\ DeleteEntry(mig.key) \in log[node]
    BY PeerIsNode DEF FInv, DInv, StillHeld, Granted, TryLogPeer, Place, Control
  <1>1. /\ pc' \in {"meta", "undoSource"} /\ req' = req /\ node' = node
        /\ Exchange(Peer, r, a)
        /\ \E yes \in IsOk(buf') : pc' = IF ok /\ yes THEN "meta" ELSE "undoSource"
        /\ mig'.key = mig.key
    BY DEF TryLogPeer, Log, ctlVars, loopVars, FInv, Control
  <1>2. r.cmd = "log" /\ a.whole /\ a.text = "ok"
    BY DEF Request, LogAnswer, OkAnswer
  <1> HIDE DEF r, a
  <1>3. Budget'
    BY <1>0, <1>1, ExchangeBudget
  <1>4. /\ Served(Peer, r, a) \/ Died(Peer) \/ Silent(Peer)
        /\ Local(Peer)
    BY <1>0, <1>1, ExchangeCases
  <1>5. /\ data'[node] = data[node] /\ log'[node] = log[node] /\ conn'[node] = conn[node]
    BY <1>0, <1>4 DEF Served, Died, Silent, Local, Wires
  <1>6. buf' = a \/ buf' = buf
    BY <1>4 DEF Served, Died, Silent
  <1>7. conn'[node] = "open" => pc' = "meta"
    BY <1>0, <1>1, <1>2, <1>5, <1>6 DEF IsOk
  <1>8. Granted'
    BY <1>1, <1>7 DEF Granted
  <1>9. StillHeld'
    BY <1>0, <1>1, <1>5 DEF StillHeld, Rewriting
  <1> QED
    BY <1>3, <1>8, <1>9 DEF DInv

LEMMA UndoD ==
  ASSUME FInv, DInv, UndoSource \/ UndoPeer
  PROVE  DInv'
  <1>0. /\ Stores /\ Wires /\ Budget
        /\ node \in Nodes /\ Peer \in Nodes /\ Peer # node
        /\ conn[node] # "open"
    BY PeerIsNode DEF FInv, DInv, Granted, UndoSource, UndoPeer, Place, Control
  <1>1. /\ pc' \in {"undoPeer", "meta"} /\ req' = req /\ node' = node
        /\ pc \in {"undoSource", "undoPeer"}
        /\ \E n \in {node, Peer} : \E r, a : Exchange(n, r, a)
    BY DEF UndoSource, UndoPeer, DelLog, ctlVars, loopVars
  <1>2. PICK n \in {node, Peer} : \E r, a : Exchange(n, r, a)
    BY <1>1
  <1>3. Budget'
    BY <1>0, <1>1, <1>2, ExchangeBudget
  <1>4. conn'[node] # "open"
    BY <1>0, <1>2, ExchangeCases DEF Served, Died, Silent, Wires
  <1>5. Granted' /\ StillHeld'
    BY <1>1, <1>4 DEF Granted, StillHeld, Rewriting
  <1> QED
    BY <1>3, <1>5 DEF DInv

\* Ends and starts.
LEMMA EndsD ==
  ASSUME FInv, DInv, ControlEnds \/ (Crash /\ faults' = faults)
  PROVE  DInv'
  <1>0. Budget
    BY DEF DInv
  <1>1. /\ pc' = "down" /\ log' = log
        /\ faults' = faults \/ (faults < MaxFaults /\ faults' = faults + 1)
    BY DEF ControlEnds, Crash, ControlGone, storeVars
  <1>2. Budget'
    BY <1>0, <1>1, BoundsAssumption DEF Budget
  <1>3. Elsewhere'
    BY <1>1 DEF Elsewhere, Rewriting
  <1> QED
    BY <1>2, <1>3, ElsewhereNext DEF DInv

LEMMA StoreEndsD ==
  ASSUME FInv, DInv, NEW n \in Nodes, StoreEnds(n)
  PROVE  DInv'
  <1>0. Wires /\ Budget /\ Granted /\ StillHeld /\ Place /\ Control
    BY DEF FInv, DInv
  <1>1. /\ conn' = [conn EXCEPT ![n] = "down"]
        /\ faults < MaxFaults /\ faults' = faults + 1
        /\ UNCHANGED <<data, log, pc, req, mig, node, buf, ok>>
    BY DEF StoreEnds, vars, storeVars, ctlVars, loopVars, localVars
  <1>2. \A x \in Nodes : conn'[x] = conn[x] \/ conn'[x] = "down"
    BY <1>0, <1>1 DEF Wires
  <1>3. Budget'
    BY <1>0, <1>1, <1>2, BoundsAssumption DEF Budget
  <1>4. Granted'
    BY <1>0, <1>1, <1>2 DEF Granted, Place
  <1>5. StillHeld'
    <2>1. node \in Nodes \/ Elsewhere
      BY <1>0 DEF Place, Elsewhere, Rewriting
    <2>2. conn'[node] = "open" => conn[node] = "open" \/ Elsewhere
      BY <1>2, <2>1
    <2> QED
      BY <1>0, <1>1, <2>2 DEF StillHeld, Elsewhere, Rewriting
  <1> QED
    BY <1>3, <1>4, <1>5 DEF DInv

LEMMA AloneD ==
  ASSUME FInv, DInv, NEW n \in Nodes, StoreReplays(n) \/ StoreStops(n)
  PROVE  DInv'
  <1>0. Stores /\ Budget
    BY DEF FInv, DInv
  <1>1. /\ conn[n] = "eof" /\ pc' = pc /\ faults' = faults
        /\ log' = log \/ Serve(n, last[n])
    BY DEF StoreReplays, StoreStops, vars, storeVars
  <1>2. pc = "down"
    BY <1>0, <1>1 DEF Budget
  <1>3. \A x \in Nodes : IsFiniteSet(log'[x])
    BY <1>0, <1>1, ServeLocal DEF Budget, Local
  <1>4. Budget'
    BY <1>0, <1>1, <1>2, <1>3 DEF Budget
  <1>5. Elsewhere'
    BY <1>1, <1>2 DEF Elsewhere, Rewriting
  <1> QED
    BY <1>4, <1>5, ElsewhereNext DEF DInv

LEMMA StartD ==
  ASSUME FInv, DInv, Start
  PROVE  DInv'
  <1>1. /\ conn' = [n \in Nodes |-> "open"] /\ UNCHANGED <<log, faults>>
        /\ pc' \in {"edit", "idle"} /\ req' = Idle /\ mig' = NoMigration
    BY DEF Start, LeaveReBalance
  <1>2. Budget'
    BY <1>1 DEF DInv, Budget
  <1>3. Elsewhere'
    BY <1>1 DEF Elsewhere, Rewriting
  <1> QED
    BY <1>2, <1>3, ElsewhereNext DEF DInv

\* As StepsOf, with what an end of the control node costs.
LEMMA StepsOfControl ==
  ASSUME FaultsNext
  PROVE  \/ \E k \in Keys, v \in Values : Command(PutEntry(k, v))
         \/ \E k \in Keys : Command(DeleteEntry(k)) \/ AskGet(k)
         \/ EditMeta \/ CommitCommand \/ Tell \/ EnterReBalance
         \/ AskSize
         \/ (EnterUp \/ EnterDown) /\ UNCHANGED faultVars
         \/ CheckShare \/ CheckSpare \/ PickKey
         \/ TryLogSource \/ TryLogPeer \/ UndoSource \/ UndoPeer
         \/ PlanEdits \/ TryCommitSource \/ TryCommitPeer
         \/ BeginShow \/ Show
         \/ ControlEnds \/ (Crash /\ faults' = faults)
         \/ \E n \in Nodes : StoreEnds(n) \/ StoreReplays(n) \/ StoreStops(n)
         \/ Start
  BY DEF FaultsNext, NewCommand, Finishing, TryPut, TryDel, Crash

LEMMA DNextKeeps == FInv /\ DInv /\ [FaultsNext]_allVars => DInv'
  <1> SUFFICES ASSUME FInv, DInv, [FaultsNext]_allVars
               PROVE  DInv'
    OBVIOUS
  <1>1. CASE UNCHANGED allVars
    <2>1. UNCHANGED <<data, log, pc, req, node, mig, conn, buf, ok, faults>>
      BY <1>1 DEF allVars, vars, faultVars, netVars, localVars, storeLife, storeVars,
                  ctlVars, loopVars
    <2> QED
      BY <2>1 DEF DInv, Budget, Granted, StillHeld, Rewriting
  <1>2. ASSUME NEW k \in Keys, NEW v \in Values, Command(PutEntry(k, v))
        PROVE  DInv'
    <2>1. Applicable(PutEntry(k, v)) /\ PutEntry(k, v).key = k
      BY PutApplicable DEF PutEntry
    <2>2. meta[SmallerOrEqual(meta, PutEntry(k, v).key)].fd \in Nodes
      BY <1>2, <2>1, Addressed DEF Command
    <2> QED
      BY <1>2, <2>1, <2>2, CommandD
  <1>3. ASSUME NEW k \in Keys, Command(DeleteEntry(k))
        PROVE  DInv'
    <2>1. Applicable(DeleteEntry(k)) /\ DeleteEntry(k).key = k
      BY DeleteApplicable DEF DeleteEntry
    <2>2. meta[SmallerOrEqual(meta, DeleteEntry(k).key)].fd \in Nodes
      BY <1>3, <2>1, Addressed DEF Command
    <2> QED
      BY <1>3, <2>1, <2>2, CommandD
  <1>4. ASSUME NEW k \in Keys, AskGet(k)
        PROVE  DInv'
    BY <1>4, AskGetD
  <1>5. CASE EditMeta \/ PlanEdits \/ PickKey \/ TryLogSource \/ TryLogPeer
    BY <1>5, EditMetaD, PlanEditsD, PickKeyD, TryLogSourceD, TryLogPeerD
  <1>6. CASE \/ AskSize \/ CheckShare \/ CheckSpare \/ Show \/ CommitCommand
             \/ TryCommitSource \/ TryCommitPeer
    BY <1>6, AsksD
  <1>7. CASE \/ Tell \/ EnterReBalance \/ BeginShow
             \/ (EnterUp \/ EnterDown) /\ UNCHANGED faultVars
    BY <1>7, LocalD
  <1>8. CASE UndoSource \/ UndoPeer \/ Start \/ ControlEnds \/ (Crash /\ faults' = faults)
    BY <1>8, UndoD, StartD, EndsD
  <1>9. ASSUME NEW n \in Nodes, StoreEnds(n) \/ StoreReplays(n) \/ StoreStops(n)
        PROVE  DInv'
    BY <1>9, StoreEndsD, AloneD
  <1> QED
    BY <1>1, <1>2, <1>3, <1>4, <1>5, <1>6, <1>7, <1>8, <1>9, StepsOfControl

\* What the control node relies on in a migration, whichever processes end.
THEOREM InductiveMigration == FaultsSpec => []DInv
  <1> QED
    BY FaultsInitD, DNextKeeps, InductiveFaults, PTL DEF FaultsSpec

-----------------------------------------------------------------------------
(* The rank.                                                               *)

PutsLeft == WhileBalancing(Cardinality(LoggedPuts))

HeldLeft == WhileBalancing(Cardinality(DOMAIN data[node]))

StaleLeft == WhileBalancing(Cardinality(LoggedStale))

TurnLeft == WhileBalancing(RoundLeft)

\* FaultsRank is a list of seven numbers.
RankShape ==
  /\ FaultsRank \in [1 .. 7 -> Nat]
  /\ FaultsRank[1] = MaxFaults - faults /\ FaultsRank[2] = StagesLeft
  /\ FaultsRank[3] = PartLeft /\ FaultsRank[4] = PutsLeft /\ FaultsRank[5] = HeldLeft
  /\ FaultsRank[6] = StaleLeft /\ FaultsRank[7] = TurnLeft

\* What is left, by where the control node stands.
RankValues ==
  /\ pc \in {"idle", "down"} => StagesLeft = 0 /\ PartLeft = 0
  /\ pc = "show" => StagesLeft = 1 /\ PartLeft = Cardinality({k \in DOMAIN meta : cursor <= k})
  /\ Balancing => /\ StagesLeft = IF phase = "up" THEN 3 ELSE 2
                  /\ PartLeft = IF phase = "up" THEN N - 1 - node ELSE node
  /\ pc = "sum" => StagesLeft = 4 /\ PartLeft = N - node
  /\ pc = "enter" => StagesLeft = 5 /\ PartLeft = 0
  /\ pc = "tell" => StagesLeft = 6 /\ PartLeft = 0
  /\ pc = "commit" => StagesLeft = 7 /\ PartLeft = 0
  /\ pc = "edit" /\ ~Balancing => StagesLeft = 8 /\ PartLeft = Len(edits)

RankTypes ==
  /\ MaxFaults - faults \in Nat /\ StagesLeft \in Nat /\ PartLeft \in Nat
  /\ PutsLeft \in Nat /\ HeldLeft \in Nat /\ StaleLeft \in Nat /\ TurnLeft \in Nat

LEMMA RankHasValues == RankValues
  <1>1. pc \in {"idle", "down"} => StagesLeft = 0 /\ PartLeft = 0
    BY DEF StagesLeft, PartLeft, Balancing
  <1>2. pc = "show" =>
          StagesLeft = 1 /\ PartLeft = Cardinality({k \in DOMAIN meta : cursor <= k})
    BY DEF StagesLeft, PartLeft, Balancing
  <1>3. Balancing => /\ StagesLeft = IF phase = "up" THEN 3 ELSE 2
                     /\ PartLeft = IF phase = "up" THEN N - 1 - node ELSE node
    <2>1. Balancing => pc \notin {"idle", "down", "show", "sum", "enter", "tell", "commit"}
      BY DEF Balancing
    <2> QED
      BY <2>1 DEF StagesLeft, PartLeft
  <1>4. pc = "sum" => StagesLeft = 4 /\ PartLeft = N - node
    BY DEF StagesLeft, PartLeft, Balancing
  <1>5. /\ pc = "enter" => StagesLeft = 5 /\ PartLeft = 0
        /\ pc = "tell" => StagesLeft = 6 /\ PartLeft = 0
        /\ pc = "commit" => StagesLeft = 7 /\ PartLeft = 0
    BY DEF StagesLeft, PartLeft, Balancing
  <1>6. pc = "edit" /\ ~Balancing => StagesLeft = 8 /\ PartLeft = Len(edits)
    BY DEF StagesLeft, PartLeft
  <1> QED
    BY <1>1, <1>2, <1>3, <1>4, <1>5, <1>6 DEF RankValues

LEMMA RankValuesNext == RankValues'
  BY RankHasValues, PTL

\* What the rank counts at a node is finite.
LEMMA FiniteNode ==
  ASSUME FInv, DInv, node \in Nodes
  PROVE  /\ IsFiniteSet(LoggedPuts) /\ Cardinality(LoggedPuts) \in Nat
         /\ IsFiniteSet(LoggedStale) /\ Cardinality(LoggedStale) \in Nat
         /\ IsFiniteSet(DOMAIN data[node]) /\ Cardinality(DOMAIN data[node]) \in Nat
  <1>1. IsFiniteSet(log[node]) /\ IsDb(data[node], Values)
    BY DEF FInv, DInv, Budget, Stores
  <1>2. LoggedPuts \subseteq log[node] /\ LoggedStale \subseteq log[node]
    BY DEF LoggedPuts, LoggedStale
  <1>3. IsFiniteSet(LoggedPuts) /\ IsFiniteSet(LoggedStale)
    BY <1>1, <1>2, FS_Subset
  <1> QED
    BY <1>1, <1>3, FiniteDb, FS_CardinalityType

LEMMA RankHasTypes == FInv /\ DInv => RankTypes
  <1> SUFFICES ASSUME FInv, DInv
               PROVE  RankTypes
    OBVIOUS
  <1>0. Control /\ Place /\ Showing /\ Budget /\ N \in Nat /\ N # 0
    BY NAssumption DEF FInv, DInv
  <1>1. MaxFaults - faults \in Nat
    BY <1>0, BoundsAssumption DEF Budget
  <1>2. Len(edits) \in Nat
    BY <1>0, LenProperties DEF Control
  <1>3. Balancing => node \in Nodes
    BY <1>0 DEF Balancing, Place
  <1>4. Cardinality({k \in DOMAIN meta : cursor <= k}) \in Nat
    <2>1. IsFiniteSet(DOMAIN meta)
      BY <1>0, FiniteDb DEF Control
    <2>2. {k \in DOMAIN meta : cursor <= k} \subseteq DOMAIN meta
      OBVIOUS
    <2> QED
      BY <2>1, <2>2, FS_Subset, FS_CardinalityType
  <1>5. StagesLeft \in Nat /\ PartLeft \in Nat
    <2>1. CASE Balancing
      BY <1>0, <1>3, <2>1, RankHasValues DEF RankValues, Nodes
    <2>2. CASE pc \in {"idle", "down", "enter", "tell", "commit"}
      BY <2>2, RankHasValues DEF RankValues
    <2>3. CASE pc = "show"
      BY <1>4, <2>3, RankHasValues DEF RankValues
    <2>4. CASE pc = "sum"
      BY <1>0, <2>4, RankHasValues DEF RankValues, Control
    <2>5. CASE pc = "edit" /\ ~Balancing
      BY <1>2, <2>5, RankHasValues DEF RankValues
    <2> QED
      BY <1>0, <2>1, <2>2, <2>3, <2>4, <2>5 DEF Control, Balancing
  <1>6. PutsLeft \in Nat /\ HeldLeft \in Nat /\ StaleLeft \in Nat
    BY <1>3, FiniteNode DEF PutsLeft, HeldLeft, StaleLeft, WhileBalancing
  <1>7. TurnLeft \in Nat
    <2>1. Balancing => RoundLeft \in Nat
      BY <1>2 DEF Balancing, RoundLeft
    <2> QED
      BY <2>1 DEF TurnLeft, WhileBalancing
  <1> QED
    BY <1>1, <1>5, <1>6, <1>7 DEF RankTypes

LEMMA RankHasShape == FInv /\ DInv => RankShape
  <1> SUFFICES ASSUME FInv, DInv
               PROVE  RankShape
    OBVIOUS
  <1> DEFINE x == MaxFaults - faults
  <1>1. FaultsRank = <<x, StagesLeft, PartLeft, PutsLeft, HeldLeft, StaleLeft, TurnLeft>>
    BY DEF FaultsRank, PutsLeft, HeldLeft, StaleLeft, TurnLeft
  <1>2. /\ x \in Nat /\ StagesLeft \in Nat /\ PartLeft \in Nat
        /\ PutsLeft \in Nat /\ HeldLeft \in Nat /\ StaleLeft \in Nat /\ TurnLeft \in Nat
    BY RankHasTypes DEF RankTypes
  <1> HIDE DEF x
  <1>3. /\ FaultsRank \in [1 .. 7 -> Nat]
        /\ FaultsRank[1] = x /\ FaultsRank[2] = StagesLeft
        /\ FaultsRank[3] = PartLeft /\ FaultsRank[4] = PutsLeft /\ FaultsRank[5] = HeldLeft
        /\ FaultsRank[6] = StaleLeft /\ FaultsRank[7] = TurnLeft
    BY <1>1, <1>2
  <1> QED
    BY <1>3 DEF RankShape, x

LEMMA RankShapeNext == FInv' /\ DInv' => RankShape'
  BY RankHasShape, PTL

\* Below, on seven numbers.
LEMMA BelowSeven ==
  ASSUME NEW a \in [1 .. 7 -> Nat], NEW b \in [1 .. 7 -> Nat],
         \/ a[1] < b[1]
         \/ a[1] = b[1] /\ a[2] < b[2]
         \/ a[1] = b[1] /\ a[2] = b[2] /\ a[3] < b[3]
         \/ /\ a[1] = b[1] /\ a[2] = b[2] /\ a[3] = b[3]
            /\ \/ a[4] < b[4]
               \/ a[4] = b[4] /\ a[5] < b[5]
               \/ a[4] = b[4] /\ a[5] = b[5] /\ a[6] < b[6]
               \/ a[4] = b[4] /\ a[5] = b[5] /\ a[6] = b[6] /\ a[7] < b[7]
  PROVE  Below(a, b)
  <1>1. SUFFICES \E i \in 1 .. 7 : a[i] < b[i] /\ \A j \in 1 .. i - 1 : a[j] = b[j]
    BY DEF Below
  <1>2. CASE a[1] < b[1]
    <2>1. 1 \in 1 .. 7 /\ \A j \in 1 .. 1 - 1 : a[j] = b[j]
      OBVIOUS
    <2> QED
      BY <1>2, <2>1
  <1>3. CASE a[1] = b[1] /\ a[2] < b[2]
    <2>1. 2 \in 1 .. 7 /\ 1 .. 2 - 1 = {1}
      OBVIOUS
    <2> QED
      BY <1>3, <2>1
  <1>4. CASE a[1] = b[1] /\ a[2] = b[2] /\ a[3] < b[3]
    <2>1. 3 \in 1 .. 7 /\ 1 .. 3 - 1 = {1, 2}
      OBVIOUS
    <2> QED
      BY <1>4, <2>1
  <1>5. CASE a[1] = b[1] /\ a[2] = b[2] /\ a[3] = b[3] /\ a[4] < b[4]
    <2>1. 4 \in 1 .. 7 /\ 1 .. 4 - 1 = {1, 2, 3}
      OBVIOUS
    <2> QED
      BY <1>5, <2>1
  <1>6. CASE a[1] = b[1] /\ a[2] = b[2] /\ a[3] = b[3] /\ a[4] = b[4] /\ a[5] < b[5]
    <2>1. 5 \in 1 .. 7 /\ 1 .. 5 - 1 = {1, 2, 3, 4}
      OBVIOUS
    <2> QED
      BY <1>6, <2>1
  <1>7. CASE /\ a[1] = b[1] /\ a[2] = b[2] /\ a[3] = b[3] /\ a[4] = b[4]
            /\ a[5] = b[5] /\ a[6] < b[6]
    <2>1. 6 \in 1 .. 7 /\ 1 .. 6 - 1 = {1, 2, 3, 4, 5}
      OBVIOUS
    <2> QED
      BY <1>7, <2>1
  <1>8. CASE /\ a[1] = b[1] /\ a[2] = b[2] /\ a[3] = b[3] /\ a[4] = b[4]
            /\ a[5] = b[5] /\ a[6] = b[6] /\ a[7] < b[7]
    <2>1. 7 \in 1 .. 7 /\ 1 .. 7 - 1 = {1, 2, 3, 4, 5, 6}
      OBVIOUS
    <2> QED
      BY <1>8, <2>1
  <1> QED
    BY <1>2, <1>3, <1>4, <1>5, <1>6, <1>7, <1>8

\* A fault, a later part of the command, or less of this part.
LEMMA RankDescends ==
  ASSUME FInv, DInv, FInv', DInv',
         \/ faults' = faults + 1
         \/ faults' = faults /\ StagesLeft' < StagesLeft
         \/ faults' = faults /\ StagesLeft' = StagesLeft /\ PartLeft' < PartLeft
         \/ /\ faults' = faults /\ StagesLeft' = StagesLeft /\ PartLeft' = PartLeft
            /\ \/ PutsLeft' < PutsLeft
               \/ PutsLeft' = PutsLeft /\ HeldLeft' < HeldLeft
               \/ PutsLeft' = PutsLeft /\ HeldLeft' = HeldLeft /\ StaleLeft' < StaleLeft
               \/ /\ PutsLeft' = PutsLeft /\ HeldLeft' = HeldLeft /\ StaleLeft' = StaleLeft
                  /\ TurnLeft' < TurnLeft
  PROVE  Below(FaultsRank', FaultsRank)
  <1>1. RankShape /\ RankShape' /\ faults \in Int
    BY RankHasShape, RankShapeNext DEF DInv, Budget
  <1>2. faults' = faults + 1 => MaxFaults - faults' < MaxFaults - faults
    BY <1>1, BoundsAssumption
  <1>3. FaultsRank \in [1 .. 7 -> Nat] /\ FaultsRank' \in [1 .. 7 -> Nat]
    BY <1>1 DEF RankShape
  <1>4. \/ FaultsRank'[1] < FaultsRank[1]
        \/ FaultsRank'[1] = FaultsRank[1] /\ FaultsRank'[2] < FaultsRank[2]
        \/ /\ FaultsRank'[1] = FaultsRank[1] /\ FaultsRank'[2] = FaultsRank[2]
           /\ FaultsRank'[3] < FaultsRank[3]
        \/ /\ FaultsRank'[1] = FaultsRank[1] /\ FaultsRank'[2] = FaultsRank[2]
           /\ FaultsRank'[3] = FaultsRank[3]
           /\ \/ FaultsRank'[4] < FaultsRank[4]
              \/ FaultsRank'[4] = FaultsRank[4] /\ FaultsRank'[5] < FaultsRank[5]
              \/ /\ FaultsRank'[4] = FaultsRank[4] /\ FaultsRank'[5] = FaultsRank[5]
                 /\ FaultsRank'[6] < FaultsRank[6]
              \/ /\ FaultsRank'[4] = FaultsRank[4] /\ FaultsRank'[5] = FaultsRank[5]
                 /\ FaultsRank'[6] = FaultsRank[6] /\ FaultsRank'[7] < FaultsRank[7]
    BY <1>1, <1>2 DEF RankShape
  <1> QED
    BY <1>3, <1>4, BelowSeven

-----------------------------------------------------------------------------
(* Every step lowers it.                                                   *)

\* A question changes nothing at a store node; a node that is gone leaves the
\* buffer as it was.
LEMMA AskCases ==
  ASSUME Stores, Wires, NEW n \in Nodes, NEW a, Ask(n, a)
  PROVE  \/ faults' = faults + 1
         \/ /\ faults' = faults /\ data' = data /\ log' = log /\ conn' = conn
            /\ conn[n] = "open" \/ buf' = buf
  <1> DEFINE r == Request(READ, NoEntry)
  <1>1. r.cmd \notin {"log", "CLG", "dlg"}
    BY DEF Request, READ
  <1>2. Exchange(n, r, a)
    BY DEF Ask
  <1> HIDE DEF r
  <1>3. Served(n, r, a) \/ Died(n) \/ Silent(n)
    BY <1>2, ExchangeCases
  <1>4. Served(n, r, a) => data' = data /\ log' = log
    BY <1>1 DEF Served, Serve
  <1> QED
    BY <1>3, <1>4 DEF Served, Died, Silent

\* A step of a migration before the node the loop is at commits.
LEMMA TurnDescends ==
  ASSUME FInv, DInv, FInv', DInv', Balancing, Balancing',
         faults' = faults, phase' = phase, node' = node, data'[node] = data[node],
         LoggedPuts' = LoggedPuts, LoggedStale' = LoggedStale, RoundLeft' < RoundLeft
  PROVE  Below(FaultsRank', FaultsRank)
  <1>1. StagesLeft' = StagesLeft /\ PartLeft' = PartLeft
    BY RankHasValues, RankValuesNext DEF RankValues
  <1>2. PutsLeft' = PutsLeft /\ StaleLeft' = StaleLeft
    BY DEF PutsLeft, StaleLeft, WhileBalancing
  <1>3. HeldLeft' = HeldLeft
    BY DEF HeldLeft, WhileBalancing
  <1>4. TurnLeft' < TurnLeft
    BY DEF TurnLeft, WhileBalancing
  <1> QED
    BY <1>1, <1>2, <1>3, <1>4, RankDescends

\* The same when its log is as it was, too.
LEMMA QuietTurnDescends ==
  ASSUME FInv, DInv, FInv', DInv', Balancing, Balancing',
         faults' = faults, phase' = phase, node' = node, data'[node] = data[node],
         log'[node] = log[node], RoundLeft' < RoundLeft
  PROVE  Below(FaultsRank', FaultsRank)
  <1>1. LoggedPuts' = LoggedPuts /\ LoggedStale' = LoggedStale
    BY DEF LoggedPuts, LoggedStale
  <1> QED
    BY <1>1, TurnDescends

LEMMA StagePositive ==
  ASSUME FInv, pc \notin {"idle", "down"}
  PROVE  StagesLeft > 0
  <1>1. \/ pc \in {"show", "sum", "enter", "tell", "commit"}
        \/ Balancing
        \/ pc = "edit" /\ ~Balancing
    BY DEF FInv, Control, Balancing
  <1> QED
    BY <1>1, RankHasValues DEF RankValues

LEMMA EditMetaDescends ==
  ASSUME FInv, DInv, FInv', DInv', EditMeta
  PROVE  Below(FaultsRank', FaultsRank)
  <1>1. /\ pc = "edit" /\ edits' = Tail(edits)
        /\ UNCHANGED <<data, log, faults, req, mig, node, phase>>
        /\ pc' = IF Tail(edits) # <<>> THEN "edit"
                 ELSE IF Constructing THEN "idle"
                 ELSE IF req # Idle THEN "commit"
                 ELSE "commitSource"
    BY DEF EditMeta, storeVars, ctlVars, loopVars, storeLife
  <1>2. edits \in Seq(Edits) /\ edits # <<>>
    BY <1>1 DEF FInv, Control, Editing
  <1>3. /\ Len(edits) \in Nat /\ Len(edits) > 0
        /\ Len(edits') = Len(edits) - 1
    BY <1>1, <1>2
  <1>4. CASE Balancing
    <2>1. req = Idle /\ mig # NoMigration
      BY <1>1, <1>4 DEF Balancing
    <2>2. pc' \in {"edit", "commitSource"}
      BY <1>1, <2>1 DEF Constructing
    <2>3. Balancing'
      BY <1>1, <2>1, <2>2 DEF Balancing
    <2>4. RoundLeft = Len(edits) + 3
      BY <1>1 DEF RoundLeft
    <2>5. RoundLeft' = IF pc' = "edit" THEN Len(edits') + 3 ELSE 3
      BY <2>2 DEF RoundLeft
    <2>6. RoundLeft' < RoundLeft
      BY <1>3, <2>4, <2>5
    <2> QED
      BY <1>1, <1>4, <2>3, <2>6, QuietTurnDescends
  <1>5. CASE ~Balancing
    <2>1. req # Idle \/ Constructing
      BY <1>1, <1>5 DEF Balancing, Constructing
    <2>2. StagesLeft = 8 /\ PartLeft = Len(edits)
      BY <1>1, <1>5, RankHasValues DEF RankValues
    <2>3. CASE pc' = "edit"
      <3>1. ~Balancing'
        BY <1>1, <1>5, <2>3 DEF Balancing
      <3>2. StagesLeft' = 8 /\ PartLeft' = Len(edits')
        BY <2>3, <3>1, RankValuesNext DEF RankValues
      <3> QED
        BY <1>1, <1>3, <2>2, <3>2, RankDescends
    <2>4. CASE pc' \in {"idle", "commit"}
      <3>1. StagesLeft' \in {0, 7}
        BY <2>4, RankValuesNext DEF RankValues
      <3> QED
        BY <1>1, <2>2, <3>1, RankDescends
    <2> QED
      BY <1>1, <2>1, <2>3, <2>4
  <1> QED
    BY <1>4, <1>5

\* The steps from one part of a command to the next.
LEMMA StageDescends ==
  ASSUME FInv, DInv, FInv', DInv',
         CommitCommand \/ Tell \/ EnterReBalance \/ BeginShow
           \/ ((EnterUp \/ EnterDown) /\ UNCHANGED faultVars)
  PROVE  Below(FaultsRank', FaultsRank)
  <1>1. CASE CommitCommand
    <2>1. pc = "commit" /\ pc' \in {"tell", "enter"} /\ fd \in Nodes
      BY <1>1, Addressed DEF CommitCommand
    <2>2. \E r, a : Exchange(fd, r, a)
      BY <1>1 DEF CommitCommand, CommitLog
    <2>3. faults' = faults \/ faults' = faults + 1
      BY <2>1, <2>2, ExchangeCases DEF FInv, Served, Died, Silent
    <2>4. StagesLeft = 7 /\ StagesLeft' \in {5, 6}
      BY <2>1, RankHasValues, RankValuesNext DEF RankValues
    <2> QED
      BY <2>3, <2>4, RankDescends
  <1>2. CASE ~CommitCommand
    <2>1. /\ faults' = faults
          /\ \/ pc = "tell" /\ pc' = "enter"
             \/ pc = "enter" /\ pc' = "sum"
             \/ pc = "sum" /\ pc' = "loop" /\ phase' = "up"
             \/ pc = "loop" /\ pc' = "loop" /\ phase = "up" /\ phase' = "down"
             \/ pc = "loop" /\ pc' = "show"
      BY <1>2 DEF Tell, EnterReBalance, BeginShow, EnterUp, EnterDown, faultVars, netVars
    <2>2. /\ pc = "loop" => Balancing
          /\ pc' = "loop" => Balancing'
      BY DEF Balancing
    <2>3. StagesLeft' < StagesLeft
      BY <2>1, <2>2, RankHasValues, RankValuesNext DEF RankValues
    <2> QED
      BY <2>1, <2>3, RankDescends
  <1> QED
    BY <1>1, <1>2

LEMMA AskSizeDescends ==
  ASSUME FInv, DInv, FInv', DInv', AskSize
  PROVE  Below(FaultsRank', FaultsRank)
  <1>1. /\ pc = "sum" /\ pc' = "sum" /\ node' = node + 1 /\ node < N
        /\ Ask(node, IntAnswer(size[node]))
    BY DEF AskSize
  <1>2. node \in Nodes /\ Stores /\ Wires
    BY <1>1, Addressed DEF FInv
  <1>3. faults' = faults \/ faults' = faults + 1
    BY <1>1, <1>2, AskCases
  <1>4. StagesLeft' = StagesLeft /\ PartLeft' = N - node' /\ PartLeft = N - node
    BY <1>1, RankHasValues, RankValuesNext DEF RankValues
  <1>5. PartLeft' < PartLeft
    BY <1>1, <1>2, <1>4, NAssumption DEF Nodes
  <1> QED
    BY <1>3, <1>4, <1>5, RankDescends

\* SIZE and LESS_OR_EQUAL_ONE: on to the next node, or on with the migration.
LEMMA ChecksDescend ==
  ASSUME FInv, DInv, FInv', DInv', CheckShare \/ CheckSpare
  PROVE  Below(FaultsRank', FaultsRank)
  <1>1. /\ pc \in {"loop", "spare"} /\ phase' = phase /\ (pc = "loop" => InLoop)
        /\ \/ node' = Peer /\ pc' = "loop"
           \/ node' = node /\ pc = "loop" /\ pc' = "spare"
           \/ node' = node /\ pc = "spare" /\ pc' = "pick" /\ buf'.head = 0
        /\ \E a : Ask(node, a)
    BY DEF CheckShare, CheckSpare
  <1>2. /\ node \in Nodes /\ Stores /\ Wires /\ InLoop /\ phase \in {"up", "down"}
        /\ N \in Nat
        /\ pc = "spare" => buf.head # 0
    BY <1>1, Addressed, NAssumption DEF FInv, Place, Control, Spare
  <1>3. Balancing /\ Balancing'
    BY <1>1 DEF Balancing
  <1>4. \/ faults' = faults + 1
        \/ /\ faults' = faults /\ data' = data /\ log' = log /\ conn' = conn
           /\ conn[node] = "open" \/ buf' = buf
    BY <1>1, <1>2, AskCases
  <1>5. CASE faults' = faults + 1
    BY <1>5, RankDescends
  <1>6. CASE faults' = faults /\ node' = Peer
    <2>1. /\ StagesLeft' = StagesLeft
          /\ PartLeft = IF phase = "up" THEN N - 1 - node ELSE node
          /\ PartLeft' = IF phase = "up" THEN N - 1 - node' ELSE node'
      BY <1>1, <1>3, RankHasValues, RankValuesNext DEF RankValues
    <2>2. PartLeft' < PartLeft
      BY <1>2, <1>6, <2>1 DEF Peer, Nodes
    <2> QED
      BY <1>6, <2>1, <2>2, RankDescends
  <1>7. CASE /\ faults' = faults /\ node' = node /\ data' = data /\ log' = log
             /\ conn' = conn /\ (conn[node] = "open" \/ buf' = buf)
    <2>1. CASE pc' = "loop"
      BY <1>1, <1>2, <1>7, <2>1, PeerIsNode
    <2>2. CASE pc' # "loop"
      <3>1. RoundLeft' < RoundLeft
        BY <1>1, <1>2, <1>7, <2>2 DEF RoundLeft
      <3> QED
        BY <1>1, <1>3, <1>7, <3>1, QuietTurnDescends
    <2> QED
      BY <2>1, <2>2
  <1> QED
    BY <1>1, <1>4, <1>5, <1>6, <1>7

LEMMA PickKeyDescends ==
  ASSUME FInv, DInv, FInv', DInv', PickKey
  PROVE  Below(FaultsRank', FaultsRank)
  <1>1. /\ pc = "pick" /\ pc' = "logSource" /\ phase' = phase /\ node' = node
        /\ \E a : Ask(node, a)
    BY DEF PickKey, loopVars, Ask, Exchange
  <1>2. node \in Nodes /\ Stores /\ Wires
    BY <1>1, Addressed DEF FInv
  <1>3. faults' = faults + 1 \/ (faults' = faults /\ data' = data /\ log' = log)
    BY <1>1, <1>2, AskCases
  <1>4. Balancing /\ Balancing' /\ RoundLeft' < RoundLeft
    BY <1>1 DEF Balancing, RoundLeft
  <1>5. CASE faults' = faults + 1
    BY <1>5, RankDescends
  <1>6. CASE faults' = faults /\ data' = data /\ log' = log
    BY <1>1, <1>4, <1>6, QuietTurnDescends
  <1> QED
    BY <1>3, <1>5, <1>6

\* LOG DELETE adds nothing to what has to be committed before a key leaves.
LEMMA TryLogSourceDescends ==
  ASSUME FInv, DInv, FInv', DInv', TryLogSource
  PROVE  Below(FaultsRank', FaultsRank)
  <1> DEFINE e == DeleteEntry(mig.key)
             r == Request("log", e)
             a == LogAnswer(LogReply(data[node], e))
  <1>1. /\ pc = "logSource" /\ pc' = "logPeer" /\ phase' = phase /\ node' = node
        /\ Exchange(node, r, a)
    BY DEF TryLogSource, Log, loopVars
  <1>2. /\ node \in Nodes /\ Stores /\ Wires
        /\ conn[node] = "open" => mig.key \in DOMAIN data[node]
    BY <1>1, Addressed DEF FInv, DInv, StillHeld
  <1>3. r.cmd = "log" /\ r.entry = e /\ e.kind # PUT /\ e.key = mig.key
    BY DEF Request, DeleteEntry, PUT, DELETE
  <1> HIDE DEF a, r, e
  <1>4. Balancing /\ Balancing' /\ RoundLeft' < RoundLeft
    BY <1>1 DEF Balancing, RoundLeft
  <1>5. /\ Served(node, r, a) \/ Died(node) \/ Silent(node)
        /\ data' = data
    BY <1>1, <1>2, <1>3, ExchangeCases
  <1>6. CASE Died(node)
    BY <1>6, RankDescends DEF Died
  <1>7. CASE Silent(node)
    BY <1>1, <1>4, <1>7, QuietTurnDescends DEF Silent
  <1>8. CASE Served(node, r, a)
    <2>1. faults' = faults /\ log'[node] = log[node] \cup {e} /\ mig.key \in DOMAIN data[node]
      BY <1>2, <1>3, <1>8 DEF Served, Serve, Stores
    <2>2. LoggedPuts' = LoggedPuts
      BY <1>1, <1>3, <2>1 DEF LoggedPuts
    <2>3. LoggedStale' = LoggedStale
      BY <1>1, <1>3, <1>5, <2>1 DEF LoggedStale
    <2> QED
      BY <1>1, <1>4, <1>5, <2>1, <2>2, <2>3, TurnDescends
  <1> QED
    BY <1>5, <1>6, <1>7, <1>8

\* What goes to the neighbour leaves the node the loop is at alone.
LEMMA PeerDescends ==
  ASSUME FInv, DInv, FInv', DInv', TryLogPeer \/ UndoPeer \/ TryCommitPeer
  PROVE  Below(FaultsRank', FaultsRank)
  <1>1. /\ pc \in {"logPeer", "undoPeer", "commitPeer"}
        /\ \E r, a : Exchange(Peer, r, a)
        /\ \/ /\ phase' = phase /\ node' = node
              /\ \/ pc = "logPeer" /\ pc' \in {"meta", "undoSource"}
                 \/ pc = "undoPeer" /\ pc' = "meta"
                 \/ pc = "commitPeer" /\ pc' = "loop"
           \/ pc' = "idle"
    BY DEF TryLogPeer, UndoPeer, TryCommitPeer, Log, DelLog, CommitLog, loopVars
  <1>2. /\ node \in Nodes /\ Peer \in Nodes /\ Peer # node /\ Stores /\ Wires
    BY <1>1, PeerIsNode DEF FInv, Place, Control
  <1>3. /\ faults' = faults + 1 \/ faults' = faults
        /\ faults' = faults => conn' = conn \/ conn'[node] = conn[node]
        /\ data'[node] = data[node] /\ log'[node] = log[node]
    BY <1>1, <1>2, ExchangeCases DEF Served, Died, Silent, Local, Wires
  <1>4. CASE faults' = faults + 1
    BY <1>4, RankDescends
  <1>5. CASE faults' = faults /\ pc' = "idle"
    <2>1. StagesLeft' = 0 /\ StagesLeft > 0
      BY <1>1, <1>5, RankValuesNext, StagePositive DEF RankValues
    <2> QED
      BY <1>5, <2>1, RankDescends
  <1>6. CASE faults' = faults /\ pc' # "idle"
    <2>1. Balancing /\ Balancing' /\ RoundLeft' < RoundLeft
      BY <1>1, <1>3, <1>6 DEF Balancing, RoundLeft
    <2> QED
      BY <1>1, <1>3, <1>6, <2>1, QuietTurnDescends
  <1> QED
    BY <1>3, <1>4, <1>5, <1>6

\* The roll-back is sent to a node that is gone.
LEMMA UndoSourceDescends ==
  ASSUME FInv, DInv, FInv', DInv', UndoSource
  PROVE  Below(FaultsRank', FaultsRank)
  <1>1. /\ pc = "undoSource" /\ pc' = "undoPeer" /\ phase' = phase /\ node' = node
        /\ \E r, a : Exchange(node, r, a)
    BY DEF UndoSource, DelLog, loopVars
  <1>2. /\ node \in Nodes /\ Stores /\ Wires /\ conn[node] # "open"
    BY <1>1, Addressed DEF FInv, DInv, Granted
  <1>3. faults' = faults + 1 \/ (faults' = faults /\ data' = data /\ log' = log)
    BY <1>1, <1>2, ExchangeCases DEF Served, Died, Silent
  <1>4. Balancing /\ Balancing' /\ RoundLeft' < RoundLeft
    BY <1>1 DEF Balancing, RoundLeft
  <1>5. CASE faults' = faults + 1
    BY <1>5, RankDescends
  <1>6. CASE faults' = faults /\ data' = data /\ log' = log
    BY <1>1, <1>4, <1>6, QuietTurnDescends
  <1> QED
    BY <1>3, <1>5, <1>6

LEMMA PlanEditsDescends ==
  ASSUME FInv, DInv, FInv', DInv', PlanEdits
  PROVE  Below(FaultsRank', FaultsRank)
  <1>1. /\ pc = "meta" /\ pc' = "edit" /\ req = Idle /\ mig.key \in Keys
        /\ UNCHANGED <<data, log, faults, req, mig, node, phase>>
    BY DEF PlanEdits, netVars, storeLife, storeVars, ctlVars, loopVars, FInv, Picked, DInv,
           Quiet
  <1>2. mig # NoMigration
    BY <1>1, KeysAreNat DEF NoMigration
  <1>3. Balancing /\ Balancing'
    BY <1>1, <1>2 DEF Balancing
  <1>4. Len(edits') \in Nat /\ Len(edits') < 6
    <2> DEFINE at == SmallerOrEqual(meta, mig.key)
               nb == Neighbour(at)
               s  == <<DeleteEdit(meta[at]), PutEdit(Rebound(meta[at], mig.src))>>
               u  == <<DeleteEdit(meta[nb]), PutEdit(Rebound(meta[nb], mig.dst))>>
               w  == <<NoEntryEdit>>
               S  == {s[1], s[2], u[1], u[2], w[1]}
    <2>1. edits' = s \o (IF nb = EmptyStr THEN w ELSE u)
      BY DEF PlanEdits, RekeyEdits
    <2>2. /\ s \in Seq(S) /\ u \in Seq(S) /\ w \in Seq(S)
          /\ Len(s) = 2 /\ Len(u) = 2 /\ Len(w) = 1
      OBVIOUS
    <2> HIDE DEF s, u, w, S
    <2>3. Len(s \o u) = Len(s) + Len(u) /\ Len(s \o w) = Len(s) + Len(w)
      BY <2>2, ConcatProperties
    <2> QED
      BY <2>1, <2>2, <2>3
  <1>5. RoundLeft = 9 /\ RoundLeft' = Len(edits') + 3
    BY <1>1 DEF RoundLeft
  <1> QED
    BY <1>1, <1>3, <1>4, <1>5, QuietTurnDescends

\* The node the loop is at commits the first entry of its log: a put that some
\* end of a process left there, or a delete of one of its keys, or a delete of a
\* key it has no more.  The delete of the key to be moved is in that log, so the
\* entry exists.
LEMMA CommitLowers ==
  ASSUME FInv, DInv, node \in Nodes, node' = node, Balancing, Balancing',
         log[node] # {},
         data'[node] = DataAfter(data[node], GetLog(log[node])),
         log'[node] = log[node] \ {GetLog(log[node])}
  PROVE  \/ PutsLeft' < PutsLeft
         \/ PutsLeft' = PutsLeft /\ HeldLeft' < HeldLeft
         \/ PutsLeft' = PutsLeft /\ HeldLeft' = HeldLeft /\ StaleLeft' < StaleLeft
  <1> DEFINE e == GetLog(log[node])
             P == LoggedPuts
             S == LoggedStale
             D == DOMAIN data[node]
  <1>1. e \in log[node] /\ log[node] \subseteq Entries
    BY GetLogIn DEF FInv, Stores
  <1>2. e.kind \in {PUT, DELETE} /\ PUT # DELETE
    BY <1>1 DEF Entries, PUT, DELETE
  <1>3. /\ data'[node] = DataAfter(data[node], e)
        /\ log'[node] = log[node] \ {e}
    OBVIOUS
  <1>4. /\ IsFiniteSet(P) /\ Cardinality(P) \in Nat
        /\ IsFiniteSet(S) /\ Cardinality(S) \in Nat
        /\ IsFiniteSet(D) /\ Cardinality(D) \in Nat
    BY FiniteNode
  <1> HIDE DEF e
  <1>5. DOMAIN (data'[node]) = IF e.kind = PUT THEN D \cup {e.key} ELSE D \ {e.key}
    BY <1>3, DataAfterDomain
  <1>6. LoggedPuts' = IF e.kind = PUT THEN P \ {e} ELSE P
    BY <1>1, <1>2, <1>3 DEF LoggedPuts
  <1>7. /\ PutsLeft = Cardinality(P) /\ PutsLeft' = Cardinality(LoggedPuts')
        /\ StaleLeft = Cardinality(S) /\ StaleLeft' = Cardinality(LoggedStale')
        /\ HeldLeft = Cardinality(D) /\ HeldLeft' = Cardinality(DOMAIN (data'[node]))
    BY DEF PutsLeft, StaleLeft, HeldLeft, WhileBalancing
  <1>8. CASE e.kind = PUT
    <2>1. e \in P
      BY <1>1, <1>8 DEF LoggedPuts
    <2>2. Cardinality(P \ {e}) = Cardinality(P) - 1
      BY <1>4, <2>1, FS_RemoveElement
    <2> HIDE DEF P, S, D
    <2> QED
      BY <1>4, <1>6, <1>7, <1>8, <2>2
  <1>9. CASE e.kind = DELETE /\ e.key \in D
    <2>1. Cardinality(D \ {e.key}) = Cardinality(D) - 1
      BY <1>4, <1>9, FS_RemoveElement
    <2> HIDE DEF P, S, D
    <2> QED
      BY <1>2, <1>4, <1>5, <1>6, <1>7, <1>9, <2>1
  <1>10. CASE e.kind = DELETE /\ e.key \notin D
    <2>1. DOMAIN (data'[node]) = D
      BY <1>2, <1>5, <1>10
    <2>2. e \in S
      BY <1>1, <1>10 DEF LoggedStale
    <2>3. LoggedStale' = S \ {e}
      BY <1>3, <2>1 DEF LoggedStale
    <2>4. Cardinality(S \ {e}) = Cardinality(S) - 1
      BY <1>4, <2>2, FS_RemoveElement
    <2> HIDE DEF P, S, D
    <2> QED
      BY <1>2, <1>4, <1>6, <1>7, <1>10, <2>1, <2>3, <2>4
  <1> QED
    BY <1>2, <1>8, <1>9, <1>10

LEMMA TryCommitSourceDescends ==
  ASSUME FInv, DInv, FInv', DInv', TryCommitSource
  PROVE  Below(FaultsRank', FaultsRank)
  <1> DEFINE r == Request("CLG", NoEntry)
  <1>1. /\ pc = "commitSource" /\ Exchange(node, r, OkAnswer)
        /\ \E yes \in IsOk(buf') :
             IF yes THEN pc' = "commitPeer" /\ phase' = phase /\ node' = node
                    ELSE pc' = "idle"
    BY DEF TryCommitSource, CommitLog, loopVars
  <1>2. /\ node \in Nodes /\ Stores /\ Wires
        /\ conn[node] = "open" => log[node] # {}
    BY <1>1, Addressed DEF FInv, DInv, StillHeld
  <1>3. r.cmd = "CLG"
    BY DEF Request
  <1> HIDE DEF r
  <1>4. Served(node, r, OkAnswer) \/ Died(node) \/ Silent(node)
    BY <1>1, <1>2, ExchangeCases
  <1>5. CASE Died(node)
    BY <1>5, RankDescends DEF Died
  <1>6. CASE faults' = faults /\ pc' = "idle"
    <2>1. StagesLeft' = 0 /\ StagesLeft > 0
      BY <1>1, <1>6, RankValuesNext, StagePositive DEF RankValues
    <2> QED
      BY <1>6, <2>1, RankDescends
  <1>7. CASE Silent(node)
    <2>1. /\ conn[node] = "down"
          /\ UNCHANGED <<data, log, conn, faults>>
      BY <1>7 DEF Silent
    <2>2. CASE pc' # "idle"
      <3>1. pc' = "commitPeer" /\ phase' = phase /\ node' = node
        BY <1>1, <2>2
      <3>2. Balancing /\ Balancing' /\ RoundLeft' < RoundLeft
        BY <1>1, <2>1, <3>1 DEF Balancing, RoundLeft
      <3> QED
        BY <2>1, <3>1, <3>2, QuietTurnDescends
    <2> QED
      BY <1>6, <2>1, <2>2
  <1>8. CASE Served(node, r, OkAnswer) /\ pc' # "idle"
    <2>1. /\ faults' = faults /\ log[node] # {}
          /\ data'[node] = CommitData(data[node], log[node])
          /\ log'[node] = ClearLog(log[node])
      BY <1>2, <1>3, <1>8 DEF Served, Serve, Stores
    <2>2. /\ data'[node] = DataAfter(data[node], GetLog(log[node]))
          /\ log'[node] = log[node] \ {GetLog(log[node])}
      BY <2>1 DEF CommitData, ClearLog
    <2>3. pc' = "commitPeer" /\ phase' = phase /\ node' = node
      BY <1>1, <1>8
    <2>4. Balancing /\ Balancing'
      BY <1>1, <2>3 DEF Balancing
    <2>5. StagesLeft' = StagesLeft /\ PartLeft' = PartLeft
      BY <2>3, <2>4, RankHasValues, RankValuesNext DEF RankValues
    <2>6. \/ PutsLeft' < PutsLeft
          \/ PutsLeft' = PutsLeft /\ HeldLeft' < HeldLeft
          \/ PutsLeft' = PutsLeft /\ HeldLeft' = HeldLeft /\ StaleLeft' < StaleLeft
      BY <1>2, <2>1, <2>2, <2>3, <2>4, CommitLowers
    <2> QED
      BY <2>1, <2>5, <2>6, RankDescends
  <1>9. Served(node, r, OkAnswer) => faults' = faults
    BY DEF Served
  <1> QED
    BY <1>4, <1>5, <1>6, <1>7, <1>8, <1>9

\* show_meta passes an entry.
LEMMA ShowDescends ==
  ASSUME FInv, DInv, FInv', DInv', Show
  PROVE  Below(FaultsRank', FaultsRank)
  <1>1. /\ pc = "show" /\ cursor' = After(meta, cursor) /\ meta' = meta
        /\ pc' = IF After(meta, cursor) = EmptyStr THEN "idle" ELSE "show"
        /\ \E a : Ask(meta[cursor].fd, a)
    BY DEF Show
  <1>2. /\ Stores /\ Wires /\ meta[cursor].fd \in Nodes /\ cursor \in DOMAIN meta
        /\ DOMAIN meta \subseteq Keys /\ IsDb(meta, MetaEntries)
    BY <1>1, Addressed DEF FInv, Showing, Control, IsDb
  <1>3. faults' = faults \/ faults' = faults + 1
    BY <1>1, <1>2, AskCases
  <1>4. CASE pc' = "idle"
    <2>1. StagesLeft' = 0 /\ StagesLeft > 0
      BY <1>1, <1>4, RankValuesNext, StagePositive DEF RankValues
    <2> QED
      BY <1>3, <2>1, RankDescends
  <1>5. CASE pc' = "show"
    <2> DEFINE A == {k \in DOMAIN meta : cursor <= k}
               B == {k \in DOMAIN meta : cursor' <= k}
    <2>1. cursor < cursor' /\ cursor' \in Nat /\ cursor \in Nat
      BY <1>1, <1>2, <1>5, AfterFacts, KeysAreNat
    <2>2. cursor \in A /\ B \subseteq A \ {cursor}
      BY <1>2, <2>1, KeysAreNat
    <2>3. IsFiniteSet(A)
      BY <1>2, FiniteDb, FS_Subset
    <2>4. StagesLeft' = StagesLeft /\ PartLeft = Cardinality(A) /\ PartLeft' = Cardinality(B)
      BY <1>1, <1>5, RankHasValues, RankValuesNext DEF RankValues
    <2> HIDE DEF A, B
    <2>5. /\ IsFiniteSet(A \ {cursor})
          /\ Cardinality(A \ {cursor}) = Cardinality(A) - 1
          /\ Cardinality(A) \in Nat
      BY <2>2, <2>3, FS_RemoveElement, FS_CardinalityType
    <2>6. Cardinality(B) <= Cardinality(A \ {cursor}) /\ Cardinality(B) \in Nat
      BY <2>2, <2>5, FS_Subset, FS_CardinalityType
    <2> QED
      BY <1>3, <2>4, <2>5, <2>6, RankDescends
  <1> QED
    BY <1>1, <1>4, <1>5

LEMMA FaultsStepDescends ==
  ASSUME FInv, DInv, FInv', DInv', FaultsNext, pc \notin {"idle", "down"}
  PROVE  Below(FaultsRank', FaultsRank)
  <1>1. CASE \/ EditMeta \/ PlanEdits \/ PickKey \/ TryLogSource \/ UndoSource
             \/ TryCommitSource \/ AskSize \/ Show
    BY <1>1, EditMetaDescends, PlanEditsDescends, PickKeyDescends, TryLogSourceDescends,
       UndoSourceDescends, TryCommitSourceDescends, AskSizeDescends, ShowDescends
  <1>2. CASE TryLogPeer \/ UndoPeer \/ TryCommitPeer \/ CheckShare \/ CheckSpare
    BY <1>2, PeerDescends, ChecksDescend
  <1>3. CASE \/ CommitCommand \/ Tell \/ EnterReBalance \/ BeginShow
             \/ (EnterUp \/ EnterDown) /\ UNCHANGED faultVars
    BY <1>3, StageDescends
  <1>4. CASE ControlEnds \/ \E n \in Nodes : StoreEnds(n)
    <2>1. faults' = faults + 1
      BY <1>4 DEF ControlEnds, StoreEnds
    <2> QED
      BY <2>1, RankDescends
  <1>5. CASE Crash /\ faults' = faults
    <2>1. pc' = "down"
      BY <1>5 DEF Crash, ControlGone
    <2>2. StagesLeft' = 0 /\ StagesLeft > 0
      BY <2>1, RankValuesNext, StagePositive DEF RankValues
    <2> QED
      BY <1>5, <2>2, RankDescends
  <1>6. ~ \E n \in Nodes : StoreReplays(n) \/ StoreStops(n)
    BY DEF StoreReplays, StoreStops, DInv, Budget
  <1>7. /\ ~ \E k \in Keys, v \in Values : Command(PutEntry(k, v))
        /\ ~ \E k \in Keys : Command(DeleteEntry(k)) \/ AskGet(k)
        /\ ~ Start
    BY DEF Command, AskGet, Start
  <1> QED
    BY <1>1, <1>2, <1>3, <1>4, <1>5, <1>6, <1>7, StepsOfControl

\* However many processes end, and whatever the control node then reads from its
\* buffer, rolls back or finds in the logs, a command does not go on forever:
\* each of its steps lowers a list of seven natural numbers in lexicographic
\* order, on any number of nodes, keys and values.
THEOREM CommandsStayFinite == FaultsSpec => CommandStaysFinite
  <1>1. FInv /\ DInv /\ FInv' /\ DInv' /\ [FaultsNext]_allVars =>
          [pc \notin {"idle", "down"} => Below(FaultsRank', FaultsRank)]_allVars
    BY FaultsStepDescends
  <1> QED
    BY <1>1, InductiveFaults, InductiveMigration, PTL DEF FaultsSpec, CommandStaysFinite
=============================================================================
