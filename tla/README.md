# tm-db: specifications, model checking and proofs

tm-db is a key-value store interface (`types.go`) with an in-memory backend
(`MemDB`), five on-disk backends, a wrapper that gives a namespace of another
database (`PrefixDB`) and a client and server that put a database behind gRPC
(`remotedb`). This directory holds TLA+ specifications of these parts,
configurations that check them with TLC, and proofs checked by TLAPS.

## The system and its parts

| part | source | state | who runs concurrently |
|---|---|---|---|
| interfaces | `types.go` | - | - |
| helpers | `util.go` | - | - |
| registry | `db.go` | map of creators, filled by `init` functions | - |
| MemDB | `memdb.go`, `memdb_batch.go`, `memdb_iterator.go` | B-tree, RWMutex, per batch a list of operations, per iterator a channel and a current item | callers, and one goroutine per iterator |
| PrefixDB | `prefixdb.go`, `prefixdb_iterator.go`, `prefixdb_batch.go` | the parent database; per iterator the parent's iterator, `valid`, `err` | callers of several wrappers over one parent |
| GoLevelDB, CLevelDB, RocksDB | `goleveldb*.go`, `cleveldb*.go`, `rocksdb*.go` | library handle; per iterator the library's cursor and `isInvalid`; per batch a handle that is nil when closed | callers |
| BoltDB | `boltdb*.go` | library handle; per iterator a read transaction, cursor, current pair | callers |
| BadgerDB | `badger_db.go` | library handle; per iterator a transaction and cursor | callers |
| remote client | `remotedb/*.go` | per iterator a stream and the last message; per batch the operations | callers |
| remote server | `remotedb/grpcdb/server.go` | `s.db`, read by every request without the mutex that `Init` takes; per stream the database's iterator or `responsesChan` | one goroutine per request or stream, two per `GetStream` |

Callers are goroutines. What makes the parts hard is what they share: the
mutex of MemDB, which an iterator's goroutine holds while it waits for its
caller; the parent of several PrefixDBs; the disk, which survives a crash that
the rest does not; the server's database handle and its streams.

## Modules

| module | models | kind |
|---|---|---|
| `Ops` | applying a list of operations to a store | helper |
| `KVStore` | the promise of `types.go`: reads, writes and batches are atomic, an iterator shows the content of its domain at its creation, and becomes invalid before its end only when closed or with an error; nothing but an empty key or a nil value is refused; over a network, a write whose answer is lost takes effect at most once | abstract specification |
| `RWMutex` | `sync.RWMutex` (external), writers preferred | component |
| `MemDB` | `memdb*.go` | component, implements `KVStore` |
| `ByteKeys` | byte strings, their order, `cpIncr`, `IsKeyInDomain` of `util.go` | pure operators |
| `PrefixDB` | `prefixdb*.go`, over a parent that keeps the promise of `KVStore` | component, implements `KVStore` once per prefix |
| `DiskDB` | the five on-disk backends over their libraries, with crashes | component, implements `KVStore` between crashes |
| `RemoteServer` | the process of `grpcdb/server.go`: `s.db`, the files, panics and restarts; what the wire format does to empty byte strings | shared by the next ones |
| `RemoteDB` | calls and batches of `remotedb`: client, gRPC, handlers | component, implements `KVStore` |
| `Streams` | gRPC streams (external): a window of messages, an end, a stream that breaks | shared by the next ones |
| `RemoteIterator` | `remotedb/iterator.go`, `handleIterator` of the server | component |
| `GetStream` | the handler `getStream`, its two goroutines and `responsesChan`, and a client of it | component |
| `RemoteStreams` | iterators and GetStreams of one server together | composition, implements `KVStore` |
| `MCMemDB`, `MCPrefixDB`, `MCDiskDB`, `MCRemoteDB`, `MCRemoteStreams` | instances | model checking |
| `OpsProofs` | lemmas about `Ops`: the last operation on a key decides, applying the first and then the others is applying all | proofs |
| `MemDBProofs`, `MemDBImplements` | theorems about `MemDB`, and that it implements `KVStore` | proofs |
| `PrefixDBProofs` | theorems about `PrefixDB` and `ByteKeys`, and that every `PrefixDB` implements `KVStore` | proofs |
| `DiskDBProofs`, `DiskDBImplements` | theorems about `DiskDB`, and that it implements `KVStore` | proofs |
| `RemoteDBProofs`, `RemoteStreamsProofs` | theorems about `RemoteDB` and `RemoteStreams`, and that they implement `KVStore` | proofs |

In all modules `ret[c]` is the last call of client `c` that returned data or an
error, with its arguments and result. It is what the refinement compares, so that
"implements" includes every value that a caller gets to see. A panic is a result.

`KVStore` tells apart the ways in which an iterator can become invalid. `Advance` leaves
behind one key; `IteratorFails` clears what is left and sets `failed`, which is
`Error()`; `CloseIterator` clears it and sets `closed`, which an implementation maps to
its own record of a call of `Close`. So a `Next` that stops too early without an error
is no step of `KVStore`. The result of `Refuse` shows the argument: only the empty key
and the nil value may be refused, and refusing any other value is no step either.

`Calls` names the groups of calls each client makes, and `Programs` of PrefixDB and
DiskDB the choices for it of which a behaviour makes one (`calls`). They keep instances
small, and the runs together use every group.

### MemDB

`pc[c]` is where client `c` is in its call. A call is split at each point
where another goroutine can see or change something: the two stages of
`mtx.Lock`, each `set` or `delete` a write applies, the return with its deferred
`Unlock`; for an iterator `RLock`, the start of the goroutine, each receive. The
goroutine of iterator `i` is `Visit` (one call of the visitor, with the `select`
between the cancelled context and room in the channel) and `ExitScan` (the
deferred `RUnlock`, which runs after `close(ch)`). The channel is the part of
`sent[i]` beyond `recvd[i]`.

Keys are ranks in the order of `bytes.Compare`, with 0 for the empty key; the
B-tree is the function from keys to values. A traversal without the lock
(`IteratorNoMtx`) that a write hits is a data race: from then on it may do
anything (`raced`). `committed`, `snap` and `raced` are history variables.

`Discipline` is what callers promise:

* `free` - nothing;
* `contract` - the CONTRACT of `DB.Iterator`: no write into the domain of an open
  iterator; and a goroutine does not write while it has an iterator open itself;
* `strict` - a goroutine with an open iterator calls only that iterator.

### PrefixDB

A wrapper has no state but its prefix, and the calls of its parent are atomic, so
each call is one step. Keys are real byte strings here (`ByteKeys`), because the
point is what prefixing and `cpIncr` do to their order; a byte is `0 .. MaxByte`,
and `MaxByte` plays 0xFF. `source[i]` is what the parent's iterator has yet to
show; `valid` and `err` are the wrapper's fields. `ParentSet` is anyone else who
writes to the parent. Prefixes are nonempty (the CONTRACT of `cpIncr`). In the
instances the namespaces are `Separated`: no prefix extends another, as nested
prefixes share keys by design, and nobody writes into a namespace past its PrefixDB.

### DiskDB

`backend` is chosen in `Init`, so that one run covers all five wrappers; the
definitions `IsSynced`, `BatchFails`, `StartOf`, `MoveTo`, `Valid` and the
arguments of `NoteInvalid` hold their differences. `versions` is the content on
disk followed by the content after each write that is not synced yet; `Crash`
keeps the first and any number of the others. `pend[c]` is a BadgerDB write
between the library's commit and `db.Sync()`. `cursor[i]` is the key the library's
iterator stands on.

Assumed of the libraries: a call is atomic; a write that fails has had no effect;
unsynced writes are lost from the end only; a sync covers all earlier writes; a
cursor shows a snapshot. Batches of BadgerDB fit one transaction (`types.go` lets
a backend write batches non-atomically), and nobody uses an iterator after `Close`.
`Print` can fail where the code returns the library's error (GoLevelDB, BoltDB), and so
can creating an iterator of BoltDB, which begins a transaction.

### RemoteServer and RemoteDB

`files` is what the database holds and `isOpen` whether some `NewDB` has it open: the
libraries lock their files, so a second `Init` fails and leaves `s.db` nil, and the
next request dereferences it and takes the process with it (`Panic`), under all calls
that run. `ListenAndServe` starts it again, without a database until somebody calls
`Init`.

A call is split where others can come between: `Invoke` (the request leaves the
client), a stage per read of `s.db` and use of it on the server (`Serve`), and the
return. A call can be cut off: its client gets an error (`Disconnected`), and the
request it made is an orphan that the server may still serve, or never
(`ServeOrphan`). In the refinement such a write is in doubt: `KVStore` lets it take
effect at most once and as a whole, possibly after later writes. `Wire` is what the
conversion to protobuf and back does: an empty byte string arrives as nil. So an
empty value is refused by the server's database although the remote batch accepted
it, and an empty end point is no limit. `KVStore` allows neither. `ValuesPassed` says
which values clients pass, and the refinement is checked and proved for clients that
pass no empty one; `remote_empty` shows what becomes of it.

### Streams, RemoteIterator, GetStream, RemoteStreams

A stream is a pipe of at most `Window` messages with an `end` that the client sees
after them. `Send` waits for room, and fails once the stream has ended. An iterator's
handler goes through the stages `Iterator` (create the database's iterator) and
`handleIterator` (one `Send` per item); its client reads ahead by one message, in the
constructor and in each `Next`. `GetStream`'s receiver takes keys off the stream, gets
their values and hands them over the unbuffered `responsesChan` to the goroutine that
sends. `RemoteStreams` puts both kinds of stream on one server, with `Init`, panics,
restarts, broken streams and library errors. Here the read of `s.db` and its use are
one step; `RemoteDB` has them apart.

The database's iterator can be refused (`NewIteratorFails`), be created but invalid
because its first seek failed, or fail in `Next`; the last two only its own `Error()`
tells, at which nobody looks. In the refinement an iterator has failed when its stream
ended with an error, or with EOF after such an error. `NoEmptyEnds` is the condition that
no client asks for an empty end point. A client calls `Next` only while `Valid`, as
`types.go:103` demands.

Assumed: one database, whose files the library locks.

## Runs

| run | instance | checks |
|---|---|---|
| `memdb_batch` | 2 clients, 2 keys, batches up to 2 operations against gets and an iterator, refused arguments of every call | `TypeOK`, `ImplementsKVStore` |
| `memdb_free` | 2 clients, 2 keys, iterators with and without the lock, forward and reverse, no discipline | `WriterIsAlone`, `IteratorIsSnapshot` |
| `memdb_strict` | 2 clients, 3 keys, channel of 1, with fairness | `CallsReturn`, `CloseFreesLock` |
| `memdb_contract` | 2 clients, 4 keys, channel of 1, with fairness | `GetReturns`, **violated** |
| `prefix_calls` | neighbouring prefixes 01 FF and 01 01, two keys each, the parent also holding 01 FF and 02; batches up to 2 operations of one client against reads and writes of the other, or iterators of both over bounded and unbounded domains, both directions except reverse from a nil end for 01 FF; `IteratePrefix` of every stored key and of no prefix | `TypeOK`, `IteratePrefixIsExact`, `BackendKeysHavePrefix`, `ImplementsKVStore` |
| `prefix_reverse` | prefix 01 FF, reverse from a nil end | `ReverseStartsAtLastKey`, **violated** |
| `disk_calls` | each backend, 2 clients, 2 keys, 2 writes, 1 crash, library errors; one client fills and writes batches, or reads, while the other writes; or one iterates, with end points below, on and above stored keys, and writes | `TypeOK`, `ImplementsKVStore`, `SyncedSurvives` |
| `remote_calls` | 2 clients, 1 key, batches up to 2 operations, empty keys and nil values, 1 lost answer, library errors, panics, 1 restart | `TypeOK`, `ImplementsKVStore` |
| `remote_empty` | 2 clients, 1 key, batches of 1 operation, empty values, nothing fails | `OnlyNilIsRefused`, **violated** |
| `remote_streams` | 2 clients, 1 stream, 2 keys, window of 1, with 1 write, 1 break, 1 restart, 2 keys asked of a GetStream, library errors, with fairness | `TypeOK`, `AnswersMatch`, `ImplementsKVStore`, `EOFMeansEnd`, `EveryNextReturns`, `BrokenHandlersEnd`, `GetStreamsEnd` |
| `remote_close` | 1 client, 1 stream, 3 keys, window of 1, nothing fails, with fairness | `CloseReleases`, **violated** |
| `remote_eof` | 1 client, 1 stream, 2 keys, window of 1, nothing fails | `ErrorMeansFailure`, **violated** |

Why the bounds are enough to meet the hard cases:

* Three keys and a channel of one item make a traversal block with the lock held,
  be closed while blocked, and end with items still in the channel. In
  `memdb_contract` one more key is outside the domain, for the writer. All end
  points and all channel capacities are covered by the theorem `SnapshotIteration`.
* With two keys, each stored or not, an end point can lie below, on and above a stored
  key, which is what the reverse traversals of the on-disk backends have to tell apart.
  `DiskDBImplements` has all end points and any number of keys.
* Two operations in a batch give the state in between that nobody may see. The libraries
  of the on-disk backends apply a batch in one call, so one operation is enough there.
* Three byte values are enough for a carry (01 FF to 02 00) and a key between.
* Two writes of two clients put one write between another's commit and its sync.
* A window of one message makes a handler wait in `Send`; with two keys it waits
  there when the stream breaks or the client stops reading, and a reader that has lost
  a message would notice. With one stream the server dies only where that stream itself
  needs `s.db`: before its iterator is created, or with a GetStream in progress. That
  it dies while a handler waits in `Send` is left to the theorems, which have any number
  of streams and of keys asked; the liveness properties do not cover it.
* One lost answer leaves an orphan that can be served before, between and after two
  later attempts to write the same batch.

Deadlock is checked in every run but `memdb_contract`, where it is what the liveness
property shows.

### Fairness

`FairSpec` of MemDB: weak fairness of the steps of running calls and of the
traversal goroutines, as the Go scheduler runs every goroutine that can run;
strong fairness of `Lock`, as `sync.Mutex` hands itself over to a starving waiter;
weak fairness of `Close` for an open iterator, as callers must close iterators
(`types.go`). No call is forced to start.

`FairSpec` of RemoteStreams: weak fairness of the server's goroutines, of the delivery
of a message or an end to a client that waits for it, of the panic of a handler that
holds a nil `s.db`, and of a GetStream client that collects its answers. Clients of
iterators need not go on, streams need not break, and the server need not be
restarted.

### What the runs disagree with

* `memdb_contract`: an iterator's goroutine waits for room in its channel and holds
  the read lock; a `Set` outside the domain waits for the lock; a `Get` by the
  goroutine that iterates queues behind the `Set`. All three wait for ever, though
  the documented contracts are kept (`types.go:16`, `types.go:48`).
* `prefix_reverse`: for a prefix that ends in 0xFF the parent's domain ends behind
  keys without the prefix. A reverse iterator from a nil end starts on one of
  them and is invalid at once, though its namespace has keys (`types.go:53`).
* `remote_close`: closing a remote iterator does not cancel its stream. With more
  items left than the transport's window holds, the handler waits in `Send` as long
  as the connection lasts and keeps the database's iterator, though `Close` is to
  release all resources (`types.go:145`).
* `remote_empty`: an empty value is refused by the remote database with `errValueNil`,
  in `Set` at once and in a batch by `Write`, as it arrives as nil. The other backends
  store it: "values cannot be nil" (`types.go:19`), "an empty value is fine"
  (`backend_test.go:123`), and RemoteDB is to be used "like other databases"
  (`remotedb/doc.go:10-11`).
* `remote_eof`: after an iteration that has shown everything `Error()` returns `io.EOF`,
  so that the check after the loop (`types.go:118`) takes it for a failure; `Error` is to
  return "the last error encountered by the iterator, if any" (`types.go:142`).

Other deviations were met while modelling. They have no run because they share a cause
with one above, because no line of the repository states the contrary, or because the
assumptions exclude them:

* `IteratePrefix` is documented as iterating "over a key domain restricted by prefix"
  (`prefixdb_iterator.go:8`). For a prefix such as 01 FF, where `cpIncr` carries and gives
  02 00, it also shows the key 02. It is the cause of `prefix_reverse` seen from another
  function, so it has no run of its own; `IteratePrefixIsExact` is about the prefixes for
  which `cpIncr` does not carry.
* `handleIterator` never looks at the database iterator's `Error()`, so that a remote
  iteration cut short by a library error ends with the same `io.EOF` as a complete one
  (`grpcdb/server.go:188`). `EOFMeansEnd` is therefore about iterations without a library
  error.
* An empty end point of a remote iterator is accepted as if it were nil, though "Empty
  keys are not valid" (`types.go:46-47`, `types.go:55`) and the other backends return
  `errKeyEmpty`. It has the cause of `remote_empty`; `NoEmptyEnds` excludes it.
* `Next` on an invalid remote iterator does not panic (`types.go:131` says it does), and
  `Close` does not make it invalid.
* A second `InitRemote` for a locked database leaves `s.db` nil, and the next request
  ends the server; with another name, or a type that can be opened twice, it gives
  all clients another database.
* When `Send` fails in `GetStream`, the goroutine that receives waits for ever on
  `responsesChan`. `GetStreamsEnd` is about streams that do not break.
* `Domain()` of a reverse iterator of BadgerDB returns its end points swapped.
* A BoltDB iterator stays `Valid` after `Close`.

## Proofs

`MemDBProofs` proves, for any sets of clients, iterators, keys and values, any
capacity of the channel, any bounds and any discipline, from the assumptions that
keys are positive naturals and the sentinels are not among the values:

| theorem | states |
|---|---|
| `TypeCorrect` | `Spec => []TypeOK` |
| `Exclusion` | `Spec => []WriterIsAlone` |
| `SnapshotIteration` | `Spec => []IteratorIsSnapshot` |

The argument is in three layers, each inductive relative to those before:

1. `BasicInv`: types, the receiver is never ahead of the sender (`ChannelInv`),
   running iterator methods belong to the iterator's owner (`OwnerInv`).
   `CallKinds` reduces the calls a client can start to seven kinds of step.
2. `LockInv`: an active writer has no readers; a running read holds the lock or is
   queued; a locking traversal holds it until its `RUnlock`. `WriterIsAlone` alone
   is not inductive: it does not say who holds the lock before a writer gets it.
3. `ScanInv`: while a traversal runs and no write has raced with it, the tree is
   its snapshot (by `LockInv`), what it sent is content of the snapshot in order
   (`Delivered`) and not beyond its position (`Passed`), what it did not send is
   ahead (`Ahead`), and `skipEqual` was reset only past the end (`SkipInv`).
   `CoveredKeys` shows that the six-way switch with `skipEqual` and
   `abortLessThan` covers exactly the domain.

`MemDBImplements` proves `Implements`: `Spec => ImplementsKVStore`, under the
hypothesis `OnlyLocking` that no client asks for a `NoMtx` iterator (such a
traversal may show anything once a write races with it). `MemDBProofs` has the three
invariants it needs beyond those above:

1. `RaceInv`: no write ever races with a traversal.
2. `WriteInv`: without an active writer the tree is the committed one; with one, the
   operations still to be applied to the tree lead to what the whole call makes of the
   committed tree. Each `Apply` keeps this by `AfterHead`; at the return nothing is left
   to apply, so the call takes effect at once.
3. `IterInv`: the current item is the one last received; there is none only before the
   first receive, after the channel is closed and empty, or after `Close`.

The abstract iterator has yet to show the current item, those in the channel and those
the visitor has still to send. `ComingAtFirst` says that these are at first the content
of the domain, `ComingAfter` that the visitor (which skips, aborts or sends) does not
change them, `CurrentIsFirst` that the current item is the first of them. So `Spawn` is
the creation of the iterator, a receive its `Advance`, and the goroutine is invisible.
One lemma per kind of step (`Simulated`) puts this together.

`DiskDBProofs` and `DiskDBImplements` prove, for each of the five backends, any sets
of clients, iterators and values, any finite set of keys, any contents of the opened
database and any bounds on batches, writes and crashes:

| theorem | states |
|---|---|
| `TypeCorrect` | `Spec => []TypeOK` |
| `Durability` | `Spec => SyncedSurvives` |
| `Implements` | `Spec => ImplementsKVStore` |

1. `Types` is inductive. `CallKinds` reduces the calls to nine kinds of step.
2. `DurableInv`: versions are numbered in order and none beyond the number of
   writes; the first one, the disk, is at least as new as every acknowledged write;
   a write that waits for its sync is not newer than the last version, so that the
   sync covers it whatever other clients wrote or synced in between.
   `SyncedSurvives` alone says nothing about the state between a BadgerDB write and
   its sync.
3. `StartIsFirst`: each backend's way to seek the start of an iteration (forward; in
   reverse to the end or the key after it and back, blindly back, or to a key not
   above the end) arrives at the first key, in the direction of the iteration, of
   those that are not before its start. This rests on `MinIsFirst` and `MaxIsFirst`
   (a nonempty finite set of keys has a least and a greatest element), which come
   from the well-foundedness of the naturals.
4. `CursorInv`: a cursor stands on a key of its snapshot, not before the end at which
   the iteration began, and an iterator not created yet is as new. From it
   `CursorIsFirst` (the current key is the first of what is left) and `NextIsFirst`
   (the step of the cursor leaves behind exactly that key).
5. Every step is a step of `KVStore` or leaves it unchanged (`Simulated`, one lemma
   per kind of step); a write of BadgerDB takes effect when the library has committed
   it, and the end of its sync shows only if it fails.

`PrefixDBProofs` proves, for any clients, prefixes and keys of any length, and any
number of byte values, from the assumptions that prefixes and keys are not empty, that
what is stored under a prefix is a key of its namespace (in the code every nonempty
byte string is one), and that a database holds finitely many keys:

| theorem | states |
|---|---|
| `PrefixIteration` | `Spec => []IteratePrefixIsExact` |
| `NoBadKeys` | `Spec => []BackendKeysHavePrefix` |
| `Invariant`, `TypeCorrect` | `Spec => []Inv`, `Spec => []TypeOK` |
| `Implements` | `Spec => ImplementsKVStore`, if `Separated` and `NoReverseCarry` |

The first four include nested prefixes. `NoReverseCarry` excludes what `prefix_reverse`
shows: a reverse iterator from a nil end over a prefix for which `cpIncr` carries.

1. `PrefixedIsInDomain`: a key with the prefix is not below it, and below `cpIncr` of it,
   by comparing at the byte that is incremented. `BeyondPrefix`: a key from the prefix on
   without it is larger at the first byte where they differ. From both
   `NotPrefixedInDomain`: if it is below `cpIncr` all the same, the last byte wrapped, and
   it comes after all keys with the prefix. `PrefixIteration` follows in every state.
2. `StandsInv`: a valid iterator whose source is open stands on a key with its prefix, and
   no error was noted. `BackendKeysHavePrefix` alone does not say that a later `Valid`
   notes none.
3. `Inv` adds to `StandsInv` the types, that contents and sources are finite (so that a
   nonempty source has a first key, `SourceKeyIsFirst`), that the operations of a batch
   carry the prefix of its client, and that a valid iterator does not stand on the prefix
   itself. Without the last, `Key` could return the empty key, and `TypeOK` would not be
   inductive.
4. `Namespace(store, p)` is the database that the users of prefix p see. `NamespacePut` and
   `NamespaceAfterOps`: prefixing a write, or the operations of a batch, is the same write
   there; `NamespaceElsewhere` and `NamespaceAfterOthers`: it is none in any other
   namespace, as two separated prefixes never give the same key (`OnePrefix`).
5. An iterator has yet to show the keys in front of the first one without the prefix
   (`Keys`). `KeysOfDomain`: for a new one these are the content of its domain in the
   namespace; prefixing keeps the order (`ConcatLess`), and keys without the prefix come
   after all others (`StrangersComeLast`, where `NoReverseCarry` is needed). `Settled`: to
   skip the prefix, or to become invalid on a key without it, changes nothing of this.
   `KeysFirst`: the current key, stripped, is the first of them. Every call is then a step
   of `KVStore` for the caller's prefix and none for the others (`Simulated`, one lemma per
   kind of call).

`RemoteDBProofs` proves, for any clients, values, finite set of keys, and any numbers of
lost answers and restarts:

| theorem | states |
|---|---|
| `Invariant`, `TypeCorrect` | `Spec => []Inv`, `Spec => []TypeOK` |
| `Implements` | `Spec => ImplementsKVStore`, if `NoEmptyValues` |

`NoEmptyValues` says that clients pass no empty value and excludes what `remote_empty`
shows. `Inv` says that requests, those of calls and the orphaned ones, are well formed, and that
while the `Write` of a batch is on its way the client's batch is still what the request
carries; so a call that is cut off leaves behind exactly what `KVStore` says is in doubt.
A call takes effect when the handler has run (`DidNothing`, `DidLookup`, `DidSet`,
`DidWrite`); a refusal does nothing and shows an empty key or a nil value, where
`NoEmptyValues` is needed; an orphan that is served is `KVStore`'s `LateEffect`. The
orphans map to the writes in doubt, and those that can not write to empty ones.

`RemoteStreamsProofs` proves, for any clients, streams, values, finite set of keys, any
window, and any numbers of writes, breaks, restarts and keys asked:

| theorem | states |
|---|---|
| `Invariant`, `TypeCorrect` | `Spec => []Inv`, `Spec => []TypeOK` |
| `AnswersAreMatched` | `Spec => []AnswersMatch` |
| `EOFIsTheEnd` | `Spec => EOFMeansEnd` |
| `Implements` | `Spec => ImplementsKVStore`, if `NoEmptyEnds` |

1. `Inv` says of each stream that it is unused (`IsFresh`), an iterator's (`IterInv`) or a
   GetStream's (`GetInv`).
2. `IterInv`: the pipe holds the items that follow the current one, in order and without
   gaps (`InOrder`); what the server's iterator has still to show is what is behind them,
   unless the library failed; after an EOF nothing is behind them. None of this is in
   `EOFMeansEnd`, which only looks at the step that sees the EOF. When a stream breaks, the
   pipe loses a part at its end, which keeps `InOrder`.
3. `GetInv` counts: the keys taken are the answers that the client has, that are under way,
   that the handler sends and that the receiver offers, so that the position of an answer
   says which key it belongs to; and nothing follows a failure (`NoMore`).
4. The abstract iterator is created when the server's is, or when its client gets an error
   instead; with end points that are not empty its domain is that of the server's. The first
   receive shows nothing new, each later one is an `Advance`. An EOF is one too, from the
   last item, as by `IterInv` nothing is behind it, unless the server's iterator failed; then,
   and when the stream ends with an error, the abstract iterator fails.

The constants of a proof are bound only by the assumptions named in the modules, which TLC
evaluates in every run of theirs. Two of them are more than typing: a remote database has
finitely many possible keys, and the sentinels (nil, Absent, NoOne) are none of the values,
keys, messages or operations that they stand beside.

Only model-checked: liveness (`CallsReturn`, `CloseFreesLock`, `EveryNextReturns`,
`BrokenHandlersEnd`, `GetStreamsEnd`; fairness and ENABLED are out of the prover's reach),
and the five properties that are violated. Every other property of a run is a theorem.
No module has a RECURSIVE operator.

## Not modelled

* The registry (`db.go`): filled before `main`.
* The encoding of messages (`defs.pb.go` is generated) beyond what it does to empty
  byte strings; `NewClient`, which sets up a connection before anything else.
* Remote servers whose `Init` is called with another name or type; remote iterators
  over BadgerDB, whose `Value` can fail.
* Closing a database, and what its users get afterwards: it depends on the library.
* Errors of a PrefixDB's parent; they are passed on.
* Batches that do not fit one BadgerDB transaction.
* Aliasing of keys and values: they are read-only by contract.
* Memory management of the C libraries (`Free`, `Destroy`).
* File handling and options in the constructors; the wording of `Print` and `Stats`.
* Random names for test databases (`test_helpers.go`).
