# A verification project for Distributed-RocksDB-test

The program is a small distributed key-value store. A *control node* reads
commands (`put`, `get`, `del`, `test`, `quit`) from its console, keeps in a
RocksDB database which range of keys lives at which *store node*, and after
every `put` and `del` moves keys between neighbouring store nodes until each
holds about the same number of bytes. A *store node* keeps its keys in one
RocksDB database and the changes it has logged but not committed in another.
This directory holds TLA+ modules that model both, the TLC runs that check them
on small instances, and TLAPS proofs of their safety for every instance.

Source paths below are relative to `src/my_code/`.

## 1. Inventory

| Component | State | Operations | Talks to |
|---|---|---|---|
| `db_handle` (`DB_Handle`) | one RocksDB database | `put`, `delete_1`, `get`, `get_size`, `get_num`, `store_less_or_equal_one`, `get_smaller_or_equal_but_as_large_as_possible` | RocksDB |
| `store_node/store_data` | data database, byte counter `size` | `put`, `delete_1`, `get`, `get_max_key`, `get_min_key`; recount at start | `DB_Handle` |
| `store_node/store_log` | log database: an entry is a *key* of it | `write_log`, `get_log`, `clear_log` | `DB_Handle` |
| `store_node/store_impl` | the two above, one connection, `receive_buff` | `run()`: LOG, COMMIT_LOG, DEL_LOG, GET, SIZE, LESS_OR_EQUAL_ONE, MAX_KEY, MIN_KEY, TEST | answers the control node |
| `control_node/control_impl` | metadata database, one connection per store node, buffers | `run()`: the commands; `re_balance()` | requests to the store nodes, one at a time |
| `control_node/control_meta` | `min_str`, `max_str`, `virtual_fd` | encode, decode | – |
| `net_connect` | a socket | connect, accept (once), send, recv | – |
| `handle_buff`, `const_values`, `main_cpp`, `test` | none | codec, constants, entry points, an input generator | – |

How they interact. The control node is one thread. It sends a request to one
store node and blocks until that node answers; a store node serves only that one
connection. A change is two requests, LOG and COMMIT_LOG, with the rewriting of
the metadata in between. A migration of one key is LOG DELETE at the node it
leaves, LOG PUT at its neighbour, the rewriting of two metadata entries, and one
COMMIT_LOG at each of the two.

What is hard. Nothing locks and nothing is retried: the order of the steps above
is all the protection there is. Metadata is written before the commits it
describes, from bounds a node predicts. The neighbour of a metadata entry is
taken for the entry of the neighbouring node. A death between any two steps
leaves a log entry that no start looks at, and neither side looks at what `recv`
returns, so an old request or an old answer in a buffer can be served again.
`PROJECT.json` lists these hazards with their lines.

What makes each part correct:

- lookup: it ends on the largest key not above its argument;
- store node: the counter is the size of the data; data changes only by logged
  entries; an entry leaves the log only applied or rolled back; the bounds it
  predicts are the bounds it will have;
- metadata: one entry per node, in node order, ranges disjoint and covering;
- `re_balance`: it moves keys only between the right two nodes, loses and
  duplicates none, its total stays valid, it leaves no node it has passed above
  its share, and it ends;
- the whole: one map from keys to values;
- when processes end: nothing acknowledged is lost, no key is duplicated, what is
  acknowledged was committed, every command ends;
- the connection: an answer is taken for the request it answers, and none is
  waited for in vain;
- the encoding: what is decoded is what was encoded.

## 2. Modules

| Module | Models | Proofs |
|---|---|---|
| `DBHandle` | `db_handle.cpp` and the RocksDB iterator it uses | `StoreOpsProofs` |
| `StoreOps` (extends `DBHandle`) | `store_data.cpp`, `store_log.cpp`, `log_log` and `commit_log` of `store_impl.cpp`, as operators on a node's state | `StoreOpsProofs` |
| `StoreNode` (extends `StoreOps`) | `store_impl::run()` over the life of a process | `StoreNodeProofs` |
| `Cluster` (extends `StoreOps`) | `control_impl.cpp` with N store nodes | `ClusterProofs`, `ClusterMapProofs` |
| `KVStore` (extends `StoreOps`) | abstract: one map, commands that take effect once | – |
| `ClusterFaults` (extends `Cluster`) | the same program request by request and write by write, with processes that end and start | `ClusterFaultsProofs`, `ClusterEndsProofs` |
| `Connection` | `net_connect`, the command `test`, and both ends of a connection | `ConnectionProofs` |
| `HandleBuff` | `handle_buff.cpp` and the encodings of `LOG` and `Control_meta` | `HandleBuffProofs` |
| `MCStoreNode`, `MCCluster`, `MCClusterFaults`, `MCConnection`, `MCHandleBuff` | values of the constants for TLC | – |

How they hang together:

    KVStore  <--ImplementsKV--  Cluster  <--ImplementsCluster--  ClusterFaults  --StoresImplement-->  StoreNode

All three arrows are checked by runs and proved. `Cluster` implements the one map
of `KVStore` (run `cluster`, theorem `ClusterIsOneMap`). `ClusterFaults` with no
faults implements `Cluster` (`no_faults`, `RequestsAreCluster`), so the coarse steps
of `Cluster` hide nothing; with faults, every one of its store nodes implements
`StoreNode` (`stores_end`, `StoresAreStoreNodes`), so the theorems about one store
node hold for each of them in the composed system. `Connection`
justifies the atomic request of the other modules, and `HandleBuff` the order of
the log (`EntryLess`) and the fields of a message.

### Data

A string is its rank among the strings that occur: the program observes a key's
order, equality and length only. `EmptyStr` (0) is `""`, below every key. An
iterator is the key it stands on, and an iterator that is not `Valid()` is
`EmptyStr`: wherever the code tests `Valid()` it uses `""` instead, and where it
does not (`it->Next()` at control_impl.cpp:167, `it->Prev()` at :275),
`NeighbourIsPeer` shows that it is valid. `KeyLen` and `ValLen` give lengths.
The counter is an unbounded integer; the code's is an `int`, enough for 2 GB.

The log is a set of entries ordered by their encoding (`EntryLess`): kind, length
of the key, key, length of the value, value. The integers are encoded in the
machine's byte order, here little-endian, so that a length compares by its low
byte first (`StoredLen`): with the NUL that is counted, 255 bytes sort before 1.
A length never needs more than two of its four bytes, because a message fits in
the 40,960 bytes of a buffer. `LogOrder` of `HandleBuff` shows that this is the
order of the encoded bytes.

### `StoreNode`

| Action | Code |
|---|---|
| `Log`, `CommitLog`, `DelLog`, `Query` | a request of a live control node and the branch of `run()` that serves it |
| `HangUp`, `Replay` | the peer closes; `recv` returns 0 and `run()` serves `receive_buff` again |
| `Die`, `DieInCommit` | the process ends between requests; or in `commit_log`, data changed, log not |
| `Start` | the constructor: databases as they are, bytes counted anew, log left alone |

The environment is free: any request may come at any time, so that the theorems
do not depend on the protocol, which the failure of another node can break.
`promise` remembers the bounds in the answer to the last LOG until a commit or a
roll-back. A process may die between two requests, after handling one and before
answering it, and inside `commit_log`. RocksDB writes are handed to the operating system before `Put` returns, so
the end of a process loses none; a power failure is not modelled.

### `Cluster`

A step is one request that changes a store node, with the read-only requests
before it and the control node's local work up to its next request. That is as
fine as the code's behaviour is while all processes are up: the control node is
the only client of every store node and waits for each answer.

| Action | Code (control_impl.cpp) |
|---|---|
| `Put`, `Del` | lookup, LOG, rewriting of the entry (327-351, 382-417) |
| `Commit` | COMMIT_LOG, then `re_balance` is called (352-363, 418-429) |
| `Get` | lookup, GET (364-381) |
| `AddSize`, `EnterUp` | the sum of the sizes (91-96) |
| `NextNode`, `EnterDown`, `Balanced` | the control of the two loops |
| `LogSource`, `LogPeer`, `UpdateMeta`, `CommitSource`, `CommitPeer` | a migration; `phase` tells the first loop ("up", to node i + 1) from the second ("down", to i - 1), which is its mirror image |
| `Restart` | `quit` and a new start of every process on its databases |

`NotTooMuch` is the test `s / (total + 0.000001) <= 1/N + 0.01` in integers. The
added millionth decides only when the two sides are equal, where the code's
quotient is below the bound as the integer comparison is, up to rounding of
doubles.

The answers are all `"ok"` here, since a store node that is up has no other; the
branches for other answers (133-147, 241-255, the early returns) are in
`ClusterFaults`.

### `ClusterFaults`

A step is one request with its answer, or one write of the metadata database.
Added state: `conn`, `last` and `promise` per store node as in `StoreNode`;
`reset`, whether the connection to a node that is gone was reset; `buf`, what the
control node can still decode from `receive_buff`; `ok` (`can_commit`); `edits`,
the writes of the metadata that remain; `cursor` of `show_meta`; `told`, the
commands the client saw committed.

| Action | Code (control_impl.cpp unless named) |
|---|---|
| `TryPut`, `TryDel`, `EditMeta`, `CommitCommand`, `Tell`, `EnterReBalance` | a command: LOG, `delete_1` and `put` of the metadata entry, COMMIT_LOG, "log commit", `re_balance` |
| `AskGet` | GET |
| `AskSize`, `CheckShare`, `CheckSpare`, `PickKey` | SIZE for the sum, SIZE and LESS_OR_EQUAL_ONE of `not_too_much`, MAX_KEY or MIN_KEY |
| `TryLogSource`, `TryLogPeer`, `UndoSource`, `UndoPeer`, `PlanEdits`, `TryCommitSource`, `TryCommitPeer` | a migration, with the roll-back (139-147, 247-255), after which the code goes on to the metadata, and the early returns (189-199, 297-307) |
| `BeginShow`, `Show` | `show_meta` |
| `ControlEnds`, `Crash` | the control node is ended, or ends by the signal of a send on a reset connection, or by reading an invalid iterator |
| `StoreEnds`, and `DiesServing` inside every exchange | a store node dies between requests; before it reads one, before or after it handles it, or inside `commit_log` |
| `StoreReplays`, `StoreStops` | a store node without a control node serves its buffer again, and ends |
| `Start` | the constructors, `EditMeta` filling an empty metadata database entry by entry |

What an unanswered request reads. `recv` returns 0 or an error and leaves
`receive_buff` as it was, so the control node decodes the former answer. `buf`
keeps what matters of it: the integer in front (a length, or the answer to SIZE),
whether the string behind it is `"ok"`, whether that integer still is the length
of that string, and the two strings after it. A metadata entry is encoded in the
same buffer (lines 164, 177, 272, 285, 349, 415) and wipes out an old `"ok"`. Where
the decoded bytes depend on a length that does not fit the string, or on what the
stack held, the result is any value: `"ok"` or not, any bounds, any key and value.
The empty key is left out of that choice. A key or a value may itself be spelled
`ok` (`OkKeys`, `OkVals`): an answer or a metadata entry that starts with it reads
as `"ok"`.

A death with the request unread resets the connection, and the next send ends the
control node. Otherwise the first request is accepted by the kernel, and whether
later ones are too depends on when the reset comes back (`reset` = "maybe").
Reading `it->value()` past the last entry ends the process here; the library does
not define it.

### `Connection`

Two streams of message parts. `StoreReceives(n)` and `ControlReceives(n)` take any
nonempty prefix of what was sent, which joins messages and tears them; only the
first message is looked at, and bytes from the middle of one are no command.
`Listen`, `Connect`, `Accept` are the setting up: a control node that connects
before the store node listens goes on without a connection and ends at its first
request. `torn` records whether a receive ended inside a request, or inside an
answer; a message of one segment is not torn, and only `LOG` and the answers with
keys and values can be longer. The numbers that parts carry say which message they
belong to; the properties use them, the program has no such thing.

### `HandleBuff`

Bytes below `Base`, ints of two bytes, low byte first. `EncodeMessage`, `Send` and
`DecodeMessage` follow one message after another through the same `send_buff`,
`receive_buff` and stack array, none of which is ever cleared. The layouts are all
that are sent or stored:

| Layout | Used for |
|---|---|
| `LogMessage` | an entry of the log |
| `MetaMessage` | an entry of the metadata |
| `LogRequest` | LOG: the command, then the entry; the longest, with four fields |
| `LogAnswer` | `ok` and the two bounds |
| `PairMessage` | GET and TEST with their argument; the answer to MAX_KEY and MIN_KEY |
| `StrMessage` | the commands without an argument, `ok`, the value GET answers |
| `IntMessage` | the answer to SIZE and LESS_OR_EQUAL_ONE |

So a message is at most four calls of `insert_...` or `get_...` (`InsertField`,
`GetField`).

## 3. Runs

| Run | Instance | Shows |
|---|---|---|
| `cluster` | 3 nodes, 5 keys, a short and a long value; 134,085 states | all properties of `Cluster`, safety and liveness, and that it implements `KVStore` |
| `store_node` | 3 keys of two lengths, 2 values; 644,402 states | all properties of `StoreNode` |
| `clear_log` | as `store_node` | finding: `clear_log` does not empty the log |
| `empty_value` | values of length 0 and 1 | finding: the counter drifts with empty values |
| `no_faults` | `ClusterFaults` with 3 nodes, 5 keys, 2 values; 402,434 states | it implements `Cluster` |
| `control_ends` | 3 nodes, 4 keys, 2 values, the control node ends once; 534,900 states | nothing told is lost or copied, one metadata entry at most is lost |
| `stores_end` | 2 nodes, 3 keys, 1 value, one process of any kind ends, all are started once more, a key and the value spelled `ok`; 903,369 states | each node implements `StoreNode`, acknowledgements are real, lookups find an entry, commands end |
| `both_logged`, `rolls_back` | as `stores_end`, one life | findings about `re_balance` |
| `older_entry` | 2 nodes, 3 keys, 1 value, the control node ends once, two lives | finding: a commit applies an older entry |
| `connection` | 5 requests of four kinds, one long, one with a long answer; 32,544 states | answers are not crossed; who waits for ever |
| `handle_buff` | `Base` 3, the empty string and two of two chars, all layouts; 4,794,825 states | round trip, order of log entries |

Bounds. The state spaces are finite without any bound on steps: every sequence
of commands is explored. Three nodes is what the main program starts and the
least number with a node that has two neighbours. Five keys are more than the
three first metadata keys, with one below all and one above all, so that lookups
fall below, above, between and on entries, nodes become empty, and both loops
move several keys in one call. Two lengths make shares uneven, and an overwrite
change a node's size. In `store_node` three keys let the log hold older entries
on either side of a new one in the encoding's order. No symmetry is used: keys
are ordered and nodes are numbered.

The runs of `ClusterFaults` are bounded by the number of faults and of starts
only. One fault is enough for every branch: the death of one store node brings
every kind of unanswered request, stale answer, roll-back and early return, and
then the crash of the control node, the replays of the other store nodes and a
second life on whatever all of them left. Two nodes and three keys are the least
that lets a migration happen next to a key that stays; `control_ends` has three
nodes, where a migration leaves a bystander. In `connection` five requests allow
a test behind a test, requests before and behind both, and a crossed answer after
a torn one. In `stores_end` the key spelled `ok` is the second of three, so that it
comes to be the least of a node and not, and the migrated value is `ok` too. In
`handle_buff` a length counts the NUL: with `Base` 3 the empty string's fits in one
byte and that of two chars has 0 as its low byte, so that the longer string sorts
first; two strings of one length let the text decide, and one of them is the word
at the head of LOG and its answer.

Deadlock is checked in `cluster`, `store_node`, `no_faults` and `handle_buff`:
there is always a next command. Elsewhere the system really may stop: all
processes have ended and are not started again, or the control node waits for an
answer that does not come (which `StuckOnlyBehindTest` is about).

Fairness. `CommandCompletes` and only it needs fairness: weak fairness of the
steps of a command (`Commit \/ ReBalance`). Once a command has begun the control
node never waits for anything but a store node's answer, and a store node that
is up answers each of these requests at once. No fairness is assumed of the
commands themselves. `CommandEnds` of `ClusterFaults` assumes the same of the
steps of a command there: a `recv` from a node that is gone returns too, so the
control node always has a next step, its crash included. `AloneIsAnswered` of
`Connection` assumes weak fairness of the store node's loop and of the control
node's `recv` when something has arrived. Nothing ever has to end or start.

`CommandDescends` and `CommandStaysFinite` are the part of `CommandCompletes` and
`CommandEnds` that needs no fairness: a command takes finitely many steps, because
each one lowers a list of natural numbers in lexicographic order (`Below`). What
is left to liveness is that the control node does take its next step.

Properties of `Cluster`: `MetaOrdered`, `RangesHold` and `RoutedToOwner`
(metadata and data agree at every step of every command), `NeighbourIsPeer`
(the iterator's neighbour is the right entry), `LogsArePending` (logs hold what
is in flight and nothing else), `SizesExact`, `TotalStaysExact` (the total added
up before the moves is valid during them), `PassedWithinShare` (a loop leaves no
node above its share, and none becomes so again before the loop ends),
`CommandDescends` (every step of a command lowers `Rank`, so `re_balance` cannot
move keys for ever), `CommandCompletes`, `ImplementsKV`.

`PassedWithinShare` is about one loop at a time on purpose: the second loop
pushes keys back down, and nothing checks node 0 after it, so that node 0 may end
above its share.

Properties of `StoreNode`: `SizeExact`, `WriteAhead`, `LeavesLogApplied`,
`ReplyPredictsCommit`. The last one is for a log with no older entry: with one,
COMMIT_LOG may apply the older entry, and the bounds are then those of a commit
that did not happen. That a commit may apply an older entry is `CommitsItsEntry` of
`ClusterFaults`, which `older_entry` shows violated; `WriteAhead` and
`LeavesLogApplied` hold whichever entry is applied.

Properties of `ClusterFaults`. `ToldIsKept`: wherever the control node ends, each
key the client was told of is at a node or in a log with the value told, and no
other key is; only the key of the unfinished command may have either value.
`MovedNotCopied`: no key at two nodes. `LosesOneEntry`: at most one metadata entry
is lost, the rest is in order and still finds the keys of its nodes. These three
are for the first life: once an entry is left in a log, later commits may apply it
in place of a new one (finding 5), and none of the three holds in a second life.
`AckIsServed`: "log commit" is printed only for a COMMIT_LOG that was served, which
holds because the metadata entry is encoded over the former answer. The one
exception is an entry that starts with the key `ok`, which reads as an answer; the
property names it, and no other case exists. Served does not say which entry was
applied: that is `CommitsItsEntry`. `CommandStaysFinite`: every step of the control node inside a
command lowers `FaultsRank`, also one taken on a stale answer, after a roll-back,
or that commits an entry left in a log by an earlier life. `LookupFindsEntry`,
`StoresImplement`, `CommandStaysFinite`, `CommandEnds` hold in every life and for
every kind of fault.

Properties of `Connection`. `AnswersMatch`: unless an answer was torn, an answer is
taken for its own request and nothing is left for the next one, also when requests
are joined or torn. `StuckOnlyBehindTest`: unless a message was torn, the control
node waits in vain only for a request it sent right after a test.
`AloneIsAnswered`: a request that travels alone, and is not torn, is answered. After
a torn answer the rest of it is taken for the next one; the code does nothing about
it and no property is claimed.

Properties of `HandleBuff`: `RoundTrip`, `LogOrder`.

Findings.

1. `clear_log`: `Store_Log::clear_log` deletes the first entry only, while its
   comment says the log is emptied (store_node/store_log.h:66). The trace: LOG of
   a put, LOG of a del, DEL_LOG, at one live node; the del is left. `StoreNode`'s
   environment sends requests in any order. In the whole program the second entry
   is there when an earlier command logged and did not commit: a process ended in
   between (finding 5), or `re_balance` returned early (control_impl.cpp:189).
2. `empty_value`: `store_data::delete_1` and `put` take an empty value for a
   missing key, so the bytes of such an entry stay counted. An empty value
   reaches a store node when a `put` is the last thing in the input and has no
   value.
3. `both_logged`: the comment at control_impl.cpp:149 says that both nodes have
   written their logs. A neighbour that dies before its LOG leaves the `"ok"` of
   the source node in `receive_buff`, where it is read a second time. The metadata
   is rewritten, and the source commits the deletion of a key nobody has.
4. `rolls_back`: the comment at control_impl.cpp:138 says that all nodes roll back
   when a LOG failed. The code sends DEL_LOG to both and goes on to rewrite the
   metadata and to send both commits. The trace: the source dies serving its LOG,
   its answer to MAX_KEY is read as the answer, which is not `"ok"`; both entries
   are rewritten all the same.
5. `older_entry`: the comment of `get_log` says that it returns the log that is
   stored now (store_node/store_log.h:62). It returns the entry that is encoded
   smallest, and a start leaves the log as it is. The trace: a put is logged at
   node 0 and the control node ends; all processes start again; a del of that key
   is logged and the metadata rewritten. Here the trace ends: the first entry of
   the log is the old put, whose kind is the smaller one, and it is what COMMIT_LOG
   will apply, answering `"ok"`.

## 4. Proofs

Everything is proved for every number of nodes and keys, every finite or
infinite set of values and all lengths. The assumptions are the named ASSUMEs of
the modules:

- `MaxKeyAssumption`, `ValuesAssumption`: keys and values are numbers (ranks);
- `KeyLenAssumption`, `ValLenAssumption`: keys are nonempty, and the empty value
  is the only one of length 0;
- `NAssumption`: at least one node;
- `InitKeyAssumption`: `to_string(1)`, `to_string(2)`, ... are in order, which
  holds for up to nine nodes;
- `IdleAssumption`: "no command" is not a command;
- `BoundsAssumption` (`ClusterFaults`): the numbers of faults and of lives are
  numbers;
- `OkAssumption` (`ClusterFaults`): a key or a value spelled `ok` has two chars;
- `MaxRequestsAssumption`, `PartsAssumption` (`Connection`): every request has at
  least one part, and `run()` answers every request but TEST;
- `BaseAssumption`, `StringsAssumption`, `WordsAssumption`, `IntsAssumption`,
  `LenAssumption` (`HandleBuff`): a byte has more than two values, strings contain
  no NUL, the words (commands and `ok`) are strings and there is one, ints and
  lengths fit in an int, and a word, an int and two strings fit in the buffer.

Some theorems have a hypothesis of their own:

- the three about the byte counter (`SizeIsExact`, `SizesStayExact`,
  `TotalIsExact`) assume that no value is empty, as the run `empty_value` shows
  they must;
- `RequestsAreCluster` assumes `MaxFaults = 0`, the instance of the run
  `no_faults`: `Cluster` has no faults to map them to;
- `InductiveEnds`, `MovesNeverCopy`, `ToldStaysKept` and `OneEntryAtMost` assume
  `~StoresEnd` and `MaxLives = 1`, the instance of the run `control_ends`: any
  number of nodes, keys and values, the control node may end at any step, and
  nothing is started again. In a second life the three properties are false
  (section 3), because nobody looks at the log left by the first.

| Module | Theorem | Property |
|---|---|---|
| `StoreOpsProofs` | `LookupIsFloor` | the lookup is `Floor` |
| `StoreNodeProofs` | `TypeCorrect`, `SizeIsExact`, `IsWriteAhead`, `LogLeavesApplied`, `ReplyIsPrediction` | `TypeOK`, `SizeExact`, `WriteAhead`, `LeavesLogApplied`, `ReplyPredictsCommit` |
| `ClusterProofs` | `TypeCorrect`, `MetaStaysOrdered`, `RangesStay`, `LookupFindsOwner`, `NeighbourStaysPeer`, `LogsStayPending`, `SizesStayExact` | `TypeOK`, `MetaOrdered`, `RangesHold`, `RoutedToOwner`, `NeighbourIsPeer`, `LogsArePending`, `SizesExact` |
| `ClusterMapProofs` | `PassedStaysWithinShare`, `TotalIsExact`, `CommandsDescend`, `ClusterIsOneMap` | `PassedWithinShare`, `TotalStaysExact`, `CommandDescends`, `ImplementsKV` |
| `ClusterFaultsProofs` | `FaultsTypesHold`, `LookupsFindEntry`, `AcksAreServed`, `StoresAreStoreNodes`, `CommandsStayFinite` | `FaultsTypeOK`, `LookupFindsEntry`, `AckIsServed`, `StoresImplement`, `CommandStaysFinite` |
| `ClusterEndsProofs` | `RequestsAreCluster`, `MovesNeverCopy`, `ToldStaysKept`, `OneEntryAtMost` | `ImplementsCluster`, `MovedNotCopied`, `ToldIsKept`, `LosesOneEntry` |
| `ConnectionProofs` | `AnswersAreMatched`, `OnlyTestHidesARequest` | `AnswersMatch`, `StuckOnlyBehindTest` |
| `HandleBuffProofs` | `DecodedIsEncoded`, `LogInFieldOrder` | `RoundTrip`, `LogOrder` |

`InductiveMap`, `InductiveFaults`, `InductiveMigration`, `InductiveEnds` and
`InductiveStreams` state the inductive invariants these rest on.

### `StoreNode`

`Inv` is `TypeOK` with what the last request and its answer say of the log; the
counter theorem rests on `SizeTracks`: one committed entry changes `DbSize` by
what it changes the counter. `DbSize` is a running total over the keys, and
`SumChange` (one term changed changes the total by the difference) is proved by a
least counterexample, since the provers cannot instantiate an induction
principle. `GetLogIn` shows that a nonempty set of entries has a first one in the
order of the encoding.

### `Cluster`

None of its invariants is inductive alone: `RoutedToOwner` after a migration
depends on what the nodes answered two steps earlier, and on the neighbour being
the right one. `IInv` is the conjunction of

- `Shape(meta)`: one nonempty range per node, in order, disjoint;
- `Covered`: every stored key lies in the range of its node, the key about to
  leave excepted;
- `LogsArePending`: what a commit will apply is known;
- `Position`: where the loops stand, in particular that the peer is a node;
- `Serving`: the key of a `put` already lies in the range of its node;
- `Moving`: before the metadata is written, the moved key is the outermost of its
  node and not the only one, and the answers held in `mig` are those of the
  nodes' present data; afterwards the moved key lies in the peer's range.

The heart is `UpdateMetaStep`: shrinking one range away from its outermost key
(`FirstRekey`) and growing the neighbour's to it (`TwoRekeys`) keeps `Shape` and
`Covered`. `LookupIsFloor` gives that a covered key is looked up at its node
(`CoverRoutes`), which yields `RoutedToOwner`, and `NextEntry` and
`PreviousEntry` give `NeighbourIsPeer`.

`MInv` adds `Owned` and `Fresh`. `IInv` says where a key is looked up; it does not
say that the key is nowhere else once it is in flight. `Owned` does: the key of a
command is at no other node than the one the command went to, and the key of a
migration is at its source with the value that is moved until the source commits,
then at no node until the peer does. From `Owned` the stored keys are disjoint
(`OwnedDisjoint`), so the map the client sees is well defined, a commit at one
node changes it in one place, and the two commits of a migration leave it as it
was: `ClusterIsOneMap`. The same fact, with `SumChange`, makes what the source's
counter loses the length of what is in flight, and what the peer's counter gains:
`TotalIsExact`. `PassedStaysWithinShare` needs in addition only that a loop takes
from the node it stands on and gives to the one it has not passed.

`CommandsDescend` compares `Rank` before and after each step: the loops left, the
nodes left in this loop, the keys at the node it stands on, the requests left of
the migration under way. The only step that raises the last number and
stays at the node is `CommitSource`, and it removes a key from the node: `Owned` says that the key is
there, and `LogsArePending` that its deletion is what the commit applies.

### `ClusterFaults`, any fault, any number of lives

`FInv` can assume nothing of the protocol: answers are missing, read twice, or
read from the stack. It says what remains true: the types of all of it
(`Stores`, `Wires`, `Control`), and

- `Counted`: the counter of a live node is at least the size of its data, so that
  it does not become negative, empty values included;
- `Editing`: the writes under way end with a put, and outside them the metadata
  is not empty. This is `LookupFindsEntry`;
- `Quiet`, `Acked`: outside a command there is none; the last write of a command is
  the entry of the node it went to, so that before COMMIT_LOG `receive_buff` starts
  with the least key of that entry. An `"ok"` read afterwards was received, the
  request served, or is that key (`OkIsLeast`). This is `AckIsServed`;
- `Spare`: MAX_KEY and MIN_KEY go to a node with a key to spare, or to one that is
  gone: a LESS_OR_EQUAL_ONE without an answer leaves a SIZE above the share in the
  buffer, which is not 0 and not "one or less";
- `Picked`, `Place`, `Showing`: the key that is moved is a key also when it was
  read from the stack; the loops stand at a node that has a peer; `show_meta`
  stands on an entry.

`StoresAreStoreNodes` then goes through the actions: each is, for each node, a
step of `StoreNode` or a stutter, `DiesServing` included.

`CommandsStayFinite` cannot use that the key is there and alone in the log: an
entry left by an earlier life may be committed instead. `FaultsRank` has seven
numbers: the faults that may still happen, the parts of the command left, what is
left of this part, and for the node a loop stands on the PUTs in its log, its
keys, the DELETEs in its log of keys it does not have, and the requests and writes
left of the migration. Whatever COMMIT_LOG applies there lowers one of the middle
three without raising one before it: an old PUT leaves the log, a DELETE of a key
that is there takes the key, and a DELETE of one that is not leaves the log. `DInv`
is what this needs besides `FInv`:

- `Budget`: the faults are bounded and every log is finite;
- `Granted`: a roll-back happens only when the node the key leaves is gone;
- `StillHeld`: as long as that node is up, the key that leaves is at it and its
  DELETE is in the log, so that the log is not empty at the commit.

Without `Granted` and `StillHeld` the statement would be false: a DEL_LOG at a node
that is up would leave its COMMIT_LOG nothing to apply, and the loop would pick the
same key again. The COMMIT_LOG of a node that is gone may be taken for answered,
when the last entry written starts with the key `ok`; the loop then comes round
once more and leaves the node, because its LESS_OR_EQUAL_ONE, without an answer,
reads the size that was too much, which is not 0 (`RoundLeft`).

### `ClusterFaults`, no store node ends

`W` is `ClusterMapProofs` instantiated at the refinement mapping: the metadata with
the remaining writes done, and the program counter, command and migration of the
step of `Cluster` that is under way. `Linked` ties the control node to it (all
nodes answer, no LOG failed, the key picked is the one `Cluster` picks one step
later), and `UInv` is `FInv`, `Linked` and `W!MInv`. Each action keeps `Linked` and
is a step of `W!Next` or a stutter (`UpSteps`), which is `RequestsAreCluster`; and
every theorem about `Cluster` holds of the mapped state.

When the control node ends, the mapping ends with it. What it leaves is frozen,
because the store nodes go on serving the request in their buffers, and
`Repeatable` says that this changes nothing: a LOG that is repeated is in the log,
a COMMIT_LOG that is repeated finds an empty log, and no DEL_LOG was sent.
`OneLife` is `FInv` and `Repeatable`, with `Linked` and `W!MInv` while the control
node is up. The three theorems each add what must hold before the end:

- `MovesNeverCopy`: `W!Owned` is enough;
- `ToldStaysKept`: `Agreed`, that the client was told exactly the map of `Cluster`,
  but for the command whose COMMIT_LOG was answered last;
- `OneEntryAtMost`: `Staged`, that the writes delete and put in turn, and that the
  metadata after each put is whole, also the put in the middle of a migration,
  when one range has shrunk and the other not yet grown (`FirstRekey`).

### `Connection`

`AnswersMatch` speaks of the last answer taken, and nothing of it is inductive.
`Inv` speaks of both streams together: `Ordered`, the requests lie in the stream
in the order they were sent; `Quiet`, when no answer is waited for nothing but
tests is on its way; `OneRequest`, otherwise there is one request that is
answered, or the parts of its answer, never both; `Underway`, that request was
sent right behind a test, or is what the store node reads next, or is answered.
The last one is `StuckOnlyBehindTest`, and these three are for a connection with no
torn message, as it is. `Pending` is what `AnswersMatch` needs when requests are
torn: the only request whose beginning is still to be read, tests aside, is the one
waited for; once it is answered there is none, and what is left of a torn one is
not answered.

### `HandleBuff`

`RoundTrip` speaks of a message that was decoded; `Travels` says where it was
before: its fields lie one behind the other (`Laid`, made of `Holds`, the bytes of
one field at an offset) in `send_buff` before it is sent, in `receive_buff`
afterwards, whatever older bytes lie behind and around them. A field inserted is
held (`FieldInserted`), the insertion of a later one leaves it alone
(`FieldStays`), and a field that is held is what `get_...` returns (`FieldGot`):
the length in front says how far the copy to the stack reaches, and the NUL copied
with the string is the first one there, whatever the stack held. `LogInFieldOrder`
compares two entries at the first byte where they differ: inside the kind, a
length or a text, never across two fields, since a length that is equal makes the
texts equally long. The two bytes of a length compare as `StoredLen`
(`StoredLenLess`). Strings may have any length here, up to the assumption that the
message fits.

### Only model-checked

`CommandCompletes`, `CommandEnds`, `AloneIsAnswered`: liveness under fairness is
beyond the prover. Of the first two the descent is proved.

## 5. Not modelled

- RocksDB itself: an ordered durable map with snapshot iterators, modelled from
  how `db_handle` uses it. The repository carries the headers of that library
  (`src/rocksdb_include`, 29,700 of its 31,400 lines of source). They are
  third-party declarations, almost none of them used here, and hold no behaviour
  of this program, so no definition maps to them; of the program's own 1,722 lines
  under `my_code` the rest is include lines, declarations and the items below.
- `const_values` (the names of the requests, the length of a buffer), `main_cpp` apart from the
  number of nodes, and `test/test1.py`, which prints commands: no state.
- Power failures, errors of RocksDB (the code ignores its statuses), allocation,
  messages longer than the buffers.
- Errors of `socket`, `bind`, `accept` and `inet_pton`, which are printed. The
  start of one store node while the control node is up: nobody connects to it.
- An empty key, which only the end of the input in the middle of a command, or a
  stack string read in place of a missing answer, can produce. In the modules the
  empty string is also what an iterator that is not valid stands on.
- What follows a torn answer: its rest is taken for the next answer.
- Ten or more nodes, whose first metadata keys are not in the order of the nodes
  (`InitKeyAssumption`).
- `DB_Handle::get` with an iterator (db_handle.cpp:33-44) has no caller; it calls
  `memcpy` where a comparison is meant, and so always returns false.
- The request `quit` of a store node (store_impl.cpp:133): the control node never
  sends it.

## 6. Plan

Done: all modules of section 2 with their runs. Every invariant, every action
property and every refinement that a passing run checks is proved in general.

What could be added:

1. The ends of the control node with several lives: which weaker statement about
   what the client was told survives the entries left in a log. The three
   properties of the first life do not, so this starts with a new property and a
   run.
2. Torn answers in the composed system: which of the properties of `ClusterFaults`
   survive an answer to MAX_KEY or LOG that comes in two pieces.
