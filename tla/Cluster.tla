------------------------------ MODULE Cluster ------------------------------
(***************************************************************************)
(* The whole system while every process is up: the control node            *)
(* (src/my_code/control_node/control_impl.cpp) and its store nodes.        *)
(*                                                                         *)
(* The control node is a single thread that serves one command of its      *)
(* console at a time.  It sends a request to a store node and blocks on    *)
(* the answer, and a store node serves only that one connection, so a      *)
(* request, its handler and its answer are one step here.  A step of this  *)
(* specification is one request that changes a store node, with the        *)
(* requests that only read which precede it and the local work of the      *)
(* control node up to the next request.                                    *)
(***************************************************************************)
EXTENDS StoreOps

CONSTANTS N,        \* store_node_count
          InitKey,  \* to_string(i + 1): the first metadata key of node i
          Idle      \* no command is being served

Nodes == 0 .. N - 1

ASSUME NAssumption == N \in Nat \ {0}
\* to_string(1), to_string(2), ... are in string order for up to nine nodes.
ASSUME InitKeyAssumption ==
  /\ InitKey \in [Nodes -> Keys]
  /\ \A i, j \in Nodes : i < j => InitKey[i] < InitKey[j]
ASSUME IdleAssumption == Idle \notin Entries

VARIABLES
  meta,    \* meta_db: from min_str to [min, max, fd]
  data,    \* per store node: the data database
  size,    \* per store node: the byte counter store_data::size
  log,     \* per store node: the log database
  pc,      \* where run() or re_balance() stands
  req,     \* the log entry of the put or del command being served
  fd,      \* virtual_fd, the node that command went to
  out,     \* what the last get printed
  phase,   \* "up": the first loop of re_balance, "down": the second
  node,    \* i, the node that loop is at
  total,   \* total_size_x
  mig      \* the migration in progress

ctlVars == <<req, fd, out>>
loopVars == <<phase, node, total>>
storeVars == <<data, size, log>>
vars == <<meta, storeVars, pc, ctlVars, loopVars, mig>>

MetaEntries == [min : Keys, max : Keys, fd : Nodes]

Bounds == [min : Keys \cup {EmptyStr}, max : Keys \cup {EmptyStr}]

NoBounds == [min |-> EmptyStr, max |-> EmptyStr]

NoMigration ==
  [key |-> EmptyStr, val |-> EmptyStr, src |-> NoBounds, dst |-> NoBounds]

-----------------------------------------------------------------------------
(* The requests that change a store node, as the node handles them.        *)

LogAt(n, e) ==
  /\ log' = [log EXCEPT ![n] = @ \cup {e}]
  /\ UNCHANGED <<data, size>>

\* Mutant: the entry is applied and stays in the log.
CommitAtKeepingLog(n) ==
  /\ data' = [data EXCEPT ![n] = CommitData(@, log[n])]
  /\ size' = [size EXCEPT ![n] = CommitSize(data[n], @, log[n])]
  /\ UNCHANGED log

CommitAt(n) ==
  /\ data' = [data EXCEPT ![n] = CommitData(@, log[n])]
  /\ size' = [size EXCEPT ![n] = CommitSize(data[n], @, log[n])]
  /\ log' = [log EXCEPT ![n] = ClearLog(@)]

-----------------------------------------------------------------------------
(* Metadata.                                                               *)

Route(k) == meta[SmallerOrEqual(meta, k)].fd

\* Mutant: the old key of an entry is left behind.
RekeyWithoutDelete(m, at, e) == DbPut(m, e.min, e)

\* delete_1 of the old key of an entry, then put of the entry under its min.
Rekey(m, at, e) == DbPut(DbDelete(m, at), e.min, e)

\* Mutant: the largest key is never raised.
WithMinOnly(e, lo, hi) == [min |-> lo, max |-> e.max, fd |-> e.fd]

\* An entry with another min_str and max_str.
WithRange(e, lo, hi) == [min |-> lo, max |-> hi, fd |-> e.fd]

\* Mutant: what the node reported is not used.
ReboundNot(e, b) == e

\* An entry with the bounds a node reported, the empty ones left out.
Rebound(e, b) ==
  WithRange(e, IF b.min = EmptyStr THEN e.min ELSE b.min,
               IF b.max = EmptyStr THEN e.max ELSE b.max)

\* Mutant: the empty answer of a node with no key left is taken for its min.
KeptMinOfEmpty(old, new) == Lesser(old, new)

\* The min_str del leaves: never above the old one, which stands when the node
\* reports none.
KeptMin(old, new) == IF new = EmptyStr THEN old ELSE Lesser(old, new)

-----------------------------------------------------------------------------
(* run(): the commands put, del and get.                                   *)

Put(k, v) ==
  LET at == SmallerOrEqual(meta, k)
      m  == meta[at]
  IN  /\ pc = "idle"
      /\ LogAt(m.fd, PutEntry(k, v))
      /\ meta' = Rekey(meta, at, WithRange(m, Lesser(m.min, k), Greater(m.max, k)))
      /\ req' = PutEntry(k, v)
      /\ fd' = m.fd
      /\ pc' = "commit"
      /\ UNCHANGED <<out, loopVars, mig>>

Del(k) ==
  LET at     == SmallerOrEqual(meta, k)
      m      == meta[at]
      newMin == LogReply(data[m.fd], DeleteEntry(k)).min
  IN  /\ pc = "idle"
      /\ LogAt(m.fd, DeleteEntry(k))
      /\ meta' = Rekey(meta, at, WithRange(m, KeptMin(m.min, newMin),
                                             Greater(m.max, k)))
      /\ req' = DeleteEntry(k)
      /\ fd' = m.fd
      /\ pc' = "commit"
      /\ UNCHANGED <<out, loopVars, mig>>

\* COMMIT_LOG of a put or del, after which run() calls re_balance().
Commit ==
  /\ pc = "commit"
  /\ CommitAt(fd)
  /\ req' = Idle
  /\ fd' = 0
  /\ pc' = "sum"
  /\ UNCHANGED <<meta, out, loopVars, mig>>

Get(k) ==
  /\ pc = "idle"
  /\ out' = DbGet(data[Route(k)], k)
  /\ UNCHANGED <<meta, storeVars, pc, req, fd, loopVars, mig>>

-----------------------------------------------------------------------------
(* re_balance().                                                           *)

\* The share of the node is at most 1/N + 0.01 of the total, or it has no key
\* to spare.  In integers: the 0.000001 the code adds to the total only keeps
\* it from dividing by zero.
NotTooMuch(n) ==
  \/ size[n] * 100 * N <= (100 + N) * total
  \/ StoreLessOrEqualOne(data[n])

Peer == IF phase = "up" THEN node + 1 ELSE node - 1

InLoop == IF phase = "up" THEN node < N - 1 ELSE node > 0

\* One SIZE request of the loop that adds up total_size_x.
AddSize ==
  /\ pc = "sum"
  /\ node < N
  /\ total' = total + size[node]
  /\ node' = node + 1
  /\ UNCHANGED <<meta, storeVars, pc, ctlVars, phase, mig>>

\* Mutant: the sum stops one node short.
EnterUpEarly ==
  /\ pc = "sum"
  /\ node = N - 1
  /\ phase' = "up"
  /\ node' = 0
  /\ pc' = "loop"
  /\ UNCHANGED <<meta, storeVars, ctlVars, total, mig>>

EnterUp ==
  /\ pc = "sum"
  /\ node = N
  /\ phase' = "up"
  /\ node' = 0
  /\ pc' = "loop"
  /\ UNCHANGED <<meta, storeVars, ctlVars, total, mig>>

EnterDown ==
  /\ pc = "loop"
  /\ phase = "up"
  /\ ~InLoop
  /\ phase' = "down"
  /\ node' = N - 1
  /\ UNCHANGED <<meta, storeVars, pc, ctlVars, total, mig>>

\* Mutant: the loop leaves a node that still holds too much.
NextNodeUnchecked ==
  /\ pc = "loop"
  /\ InLoop
  /\ node' = Peer
  /\ UNCHANGED <<meta, storeVars, pc, ctlVars, phase, total, mig>>

\* Mutant: the loop variable is not advanced.
NextNodeStuck ==
  /\ pc = "loop"
  /\ InLoop
  /\ NotTooMuch(node)
  /\ UNCHANGED vars

NextNode ==
  /\ pc = "loop"
  /\ InLoop
  /\ NotTooMuch(node)
  /\ node' = Peer
  /\ UNCHANGED <<meta, storeVars, pc, ctlVars, phase, total, mig>>

\* The end of re_balance: show_meta() only reads.  The loop variables go out of
\* scope, which is their initial value here.
Balanced ==
  /\ pc = "loop"
  /\ phase = "down"
  /\ ~InLoop
  /\ pc' = "idle"
  /\ phase' = "up"
  /\ node' = 0
  /\ total' = 0
  /\ UNCHANGED <<meta, storeVars, ctlVars, mig>>

\* SIZE, LESS_OR_EQUAL_ONE, MAX_KEY or MIN_KEY, then LOG DELETE at the node
\* that holds too much.
LogSource ==
  LET k == IF phase = "up" THEN SeekToLast(data[node])
                           ELSE SeekToFirst(data[node])
  IN  /\ pc = "loop"
      /\ InLoop
      /\ ~NotTooMuch(node)
      /\ LogAt(node, DeleteEntry(k))
      /\ mig' = [key |-> k, val |-> DbGet(data[node], k),
                 src |-> LogReply(data[node], DeleteEntry(k)),
                 dst |-> NoBounds]
      /\ pc' = "logPeer"
      /\ UNCHANGED <<meta, ctlVars, loopVars>>

LogPeer ==
  LET e == PutEntry(mig.key, mig.val)
  IN  /\ pc = "logPeer"
      /\ LogAt(Peer, e)
      /\ mig' = [mig EXCEPT !.dst = LogReply(data[Peer], e)]
      /\ pc' = "meta"
      /\ UNCHANGED <<meta, ctlVars, loopVars>>

\* Mutant: Prev() where Next() is meant, and the other way round.
NeighbourSwapped(at) ==
  IF phase = "up" THEN Before(meta, at) ELSE After(meta, at)

\* The metadata key next to that of the entry the moved key belongs to.
Neighbour(at) ==
  IF phase = "up" THEN After(meta, at) ELSE Before(meta, at)

UpdateMeta ==
  LET at == SmallerOrEqual(meta, mig.key)
      nb == Neighbour(at)
  IN  /\ pc = "meta"
      /\ meta' = Rekey(Rekey(meta, at, Rebound(meta[at], mig.src)),
                       nb, Rebound(meta[nb], mig.dst))
      /\ pc' = "commitSource"
      /\ UNCHANGED <<storeVars, ctlVars, loopVars, mig>>

\* Mutant: the node that holds too much is not told to commit, and keeps its key.
CommitSourceNot ==
  /\ pc = "commitSource"
  /\ pc' = "commitPeer"
  /\ UNCHANGED <<meta, storeVars, ctlVars, loopVars, mig>>

CommitSource ==
  /\ pc = "commitSource"
  /\ CommitAt(node)
  /\ pc' = "commitPeer"
  /\ UNCHANGED <<meta, ctlVars, loopVars, mig>>

\* Mutant: the second half of a migration is not committed.
CommitPeerNot ==
  /\ pc = "commitPeer"
  /\ mig' = NoMigration
  /\ pc' = "loop"
  /\ UNCHANGED <<meta, storeVars, ctlVars, loopVars>>

CommitPeer ==
  /\ pc = "commitPeer"
  /\ CommitAt(Peer)
  /\ mig' = NoMigration
  /\ pc' = "loop"
  /\ UNCHANGED <<meta, ctlVars, loopVars>>

-----------------------------------------------------------------------------
\* quit, and both kinds of process started again on what they stored: the
\* store nodes count their bytes anew, the control node finds its metadata
\* database not empty and keeps it.
Restart ==
  /\ pc = "idle"
  /\ size' = [n \in Nodes |-> DbSize(data[n])]
  /\ UNCHANGED <<meta, data, log, pc, ctlVars, loopVars, mig>>

\* The first start, on empty databases.
Init ==
  /\ meta = [k \in {InitKey[i] : i \in Nodes} |->
               [min |-> k, max |-> k, fd |-> CHOOSE i \in Nodes : InitKey[i] = k]]
  /\ data = [n \in Nodes |-> [k \in {} |-> EmptyStr]]
  /\ size = [n \in Nodes |-> 0]
  /\ log = [n \in Nodes |-> {}]
  /\ pc = "idle"
  /\ req = Idle
  /\ fd = 0
  /\ out = EmptyStr
  /\ phase = "up"
  /\ node = 0
  /\ total = 0
  /\ mig = NoMigration

ReBalance ==
  \/ AddSize \/ EnterUp \/ EnterDown \/ NextNode \/ Balanced
  \/ LogSource \/ LogPeer \/ UpdateMeta \/ CommitSource \/ CommitPeer

Next ==
  \/ \E k \in Keys : \/ \E v \in Values : Put(k, v)
                     \/ Del(k)
                     \/ Get(k)
  \/ Commit
  \/ ReBalance
  \/ Restart

Spec == Init /\ [][Next]_vars

\* The control node never waits on anything but a store node's answer, and a
\* store node answers every one of these requests: once a command is begun its
\* next step is always enabled and is eventually taken.
Fairness == WF_vars(Commit \/ ReBalance)

FairSpec == Spec /\ Fairness

-----------------------------------------------------------------------------
(* Properties.                                                             *)

\* The variables have the types the program gives them.
TypeOK ==
  /\ IsDb(meta, MetaEntries)
  /\ data = [n \in Nodes |-> data[n]]
  /\ \A n \in Nodes : IsDb(data[n], Values)
  /\ size \in [Nodes -> Int]
  /\ log \in [Nodes -> SUBSET Entries]
  /\ pc \in {"idle", "commit", "sum", "loop", "logPeer", "meta",
             "commitSource", "commitPeer"}
  /\ req \in Entries \cup {Idle}
  /\ fd \in Nodes
  /\ out \in Values \cup {EmptyStr}
  /\ phase \in {"up", "down"}
  /\ node \in 0 .. N
  /\ total \in Int
  /\ mig \in [key : Keys \cup {EmptyStr}, val : Values \cup {EmptyStr},
              src : Bounds, dst : Bounds]

\* Metadata entry of a node: there is one for each node, stored under its own
\* min, and the entries are in the order of the nodes.  re_balance relies on it
\* when it takes the entry next to that of node i for the entry of i + 1 or
\* i - 1; every rekeying by put, del and re_balance must keep it.
MetaOrdered ==
  /\ \A k \in DOMAIN meta : meta[k].min = k
  /\ \A j, k \in DOMAIN meta : j < k => meta[j].fd < meta[k].fd
  /\ \A n \in Nodes : \E k \in DOMAIN meta : meta[k].fd = n

\* The key re_balance is moving, at the node it is about to leave.
Leaving(n, k) == pc = "commitSource" /\ n = node /\ k = mig.key

\* A key is looked up at the node that stores it.  Between the update of the
\* metadata and the two commits of a migration the moved key alone is already
\* looked up at the node it moves to.
RoutedToOwner ==
  /\ \A n \in Nodes : \A k \in DOMAIN data[n] :
        ~Leaving(n, k) => Route(k) = n
  /\ pc \in {"commitSource", "commitPeer"} => Route(mig.key) = Peer

\* The [min, max] ranges of the metadata entries do not overlap, and each covers
\* the keys of its node.
RangesHold ==
  /\ \A j, k \in DOMAIN meta : j < k => meta[j].max < k
  /\ \A m \in DOMAIN meta : \A k \in DOMAIN data[meta[m].fd] :
        ~Leaving(meta[m].fd, k) => m <= k /\ k <= meta[m].max

\* When re_balance rewrites the metadata, the entry it finds for the moved key
\* is that of the node the key leaves, and the iterator's neighbour exists and
\* is the entry of the node the key moves to.
NeighbourIsPeer ==
  pc = "meta" =>
    LET at == SmallerOrEqual(meta, mig.key)
    IN  /\ meta[at].fd = node
        /\ Neighbour(at) \in DOMAIN meta
        /\ meta[Neighbour(at)].fd = Peer

\* The log of each node holds exactly what the protocol has written and not yet
\* committed: the command of a put or del at its node, the two halves of a
\* migration at the two nodes; and nothing when the control node is idle.
Pending(n) ==
  (IF pc = "commit" /\ n = fd THEN {req} ELSE {})
  \cup (IF pc \in {"logPeer", "meta", "commitSource"} /\ n = node
        THEN {DeleteEntry(mig.key)} ELSE {})
  \cup (IF pc \in {"meta", "commitSource", "commitPeer"} /\ n = Peer
        THEN {PutEntry(mig.key, mig.val)} ELSE {})

LogsArePending == \A n \in Nodes : log[n] = Pending(n)

\* The byte counter of a store node is the size of what it stores, through
\* overwrites, deletes of missing keys, migrations and restarts.
SizesExact == \A n \in Nodes : size[n] = DbSize(data[n])

\* The total re_balance adds up once, before it starts to move keys, stays the
\* total of the nodes while it moves them: the sum over the nodes, and the key
\* in flight between its two commits.
TotalStaysExact ==
  pc \notin {"idle", "commit", "sum"} =>
    total = SumUpTo([i \in 1 .. N |-> size[i - 1]], N)
            + (IF pc = "commitPeer" THEN Weight(mig.key, mig.val) ELSE 0)

\* A node that a loop of re_balance has passed is within its share and stays so
\* until the loop ends: keys are only pushed ahead.
PassedWithinShare ==
  pc \notin {"idle", "commit", "sum"} =>
    \A n \in Nodes :
      (IF phase = "up" THEN n < node ELSE n > node) => NotTooMuch(n)

\* A command that is begun is finished: re_balance terminates.
CommandCompletes == pc # "idle" ~> pc = "idle"

\* The requests of a migration that are left until the node the loop is at has
\* one key less.
RequestsLeft ==
  CASE pc = "commitPeer"   -> 4
    [] pc = "loop"         -> 3
    [] pc = "logPeer"      -> 2
    [] pc = "meta"         -> 1
    [] OTHER               -> 0

\* How far a command is from its end: the loops that are left, the nodes that
\* are left of this one, the keys at its node, the requests of a migration.
Rank ==
  CASE pc = "idle"   -> <<0, 0, 0, 0>>
    [] pc = "commit" -> <<4, 0, 0, 0>>
    [] pc = "sum"    -> <<3, N - node, 0, 0>>
    [] OTHER -> <<IF phase = "up" THEN 2 ELSE 1,
                  IF phase = "up" THEN N - 1 - node ELSE node,
                  Cardinality(DOMAIN data[node]), RequestsLeft>>

\* The lexicographic order of two lists of natural numbers.
Below(a, b) ==
  /\ a \in [DOMAIN b -> Nat]
  /\ \E i \in DOMAIN b : a[i] < b[i] /\ \A j \in 1 .. i - 1 : a[j] = b[j]

\* re_balance cannot move keys forever, between two nodes that both hold too
\* much or around the loops: every step of a command brings it closer to its
\* end, in an order with no infinite descent.
CommandDescends == [][pc # "idle" => Below(Rank', Rank)]_vars

\* The map the client sees: what the nodes hold together, and the key that has
\* been committed out of one node and not yet into the other.
ClientMap ==
  LET stored == UNION {DOMAIN data[n] : n \in Nodes}
      flying == IF pc = "commitPeer" THEN {mig.key} ELSE {}
  IN  [k \in stored \cup flying |->
         IF k \in stored
         THEN data[CHOOSE n \in Nodes : k \in DOMAIN data[n]][k]
         ELSE mig.val]

KV == INSTANCE KVStore WITH kv <- ClientMap

\* The cluster implements one map: put and del take effect exactly once, on
\* their own key; get answers from it; re_balance and restarts leave it alone.
ImplementsKV == KV!Spec
=============================================================================
