# TLA+ verification of timemachine (reqstore)

The program is a small C++ server that stores messages in folders.  It speaks
gRPC and HTTP, and keeps each folder as a column family of one RocksDB (or
rocksdb-cloud) database.  A message is found under an id, the pair of a
timestamp and of a number the server draws per folder.  This directory holds
TLA+ modules translated from the source of the server and of its TypeScript
client, the TLC configurations that check small instances, and the proofs that
hold for every instance.

## 1. Inventory

| Component | State | Operations | Interacts with |
|---|---|---|---|
| `DbClient` (`DbClient.cpp`) | `columnFamalies`: folder -> (handle, `lastUnique`); `handles`; `lock`, a `shared_timed_mutex` | `GetColumnFamily`, `GetOrCreateColumnFamily`, `GenerateId`, `Put`, `Get`, `GetBatch`, `Iter`, `GetUniqueRange`, `GetUniqueRangeForTS` | called by every request thread |
| `LocalDBClient`, `CloudDBClient` | `db`, the open database | constructor, `CreateColumnFamily` (create, list, `delete db`, open, refresh the cache) | RocksDB |
| `IDComparator` | none | `Compare`, by timestamp, then by unique; timestamp 0 is a wildcard | called by RocksDB for every access |
| `RepositoryUtils` | none | the 16-byte encoding of an id | everything that makes a key |
| `GRPCServer` | `client`, set by `Init` | `Save`, `Get`, `GetRange`, `GetSubsample` | one gRPC thread per call |
| HTTP: `HTTPServer`, `HandlerFactory`, `SaveHandler`, `GetRangeHandler`, `SubsamplingHandler`, `StatusHandler`, and three constant pages | one handler object per request | `handleRequest` | one Poco thread per request |
| `reqstore.cpp` | where `RunServer` is: the life of the process | start and stop of both servers, SIGSEGV handler | everything |
| `Config` | constants of the environment | | everything |
| TypeScript client: `index.ts`, `compiled.js` | none | `decodeTsRecord` takes an HTTP answer apart, `asServingReqRes` the data of a record; `encode` and `decode` of 59 message classes | the frames and messages the server sends |
| Scala and Python clients | none | wrappers of generated stubs | the server |

What is hard here, and what makes each part correct:

* **The lock covers calls, not conversations.**  A save makes four or five calls
  to `DbClient`.  Each takes the lock for itself, and one access (the counter in
  `GenerateId`) takes none.  `CreateColumnFamily` replaces the database object,
  all handles and all counters between any two of them.  Correct means: no call
  meets a database under replacement, the cache is right whenever it can be
  read, ids are not given twice, and what was answered as saved is there.
* **Failure in the middle of `CreateColumnFamily`.**  Any of its RocksDB calls
  can fail; it must release the lock and leave something the other calls can
  live with.
* **Crashes.**  Saves go without the WAL by default.  Correct means that only the
  death of the process loses messages, and none that was stored with the WAL.  What
  is left is replacement: the counters restart at a number already given, and a save
  that draws it for the same timestamp takes the place of the message that has it.
* **Order and bounds.**  A range request seeks near its start and filters; the two
  directions have different bounds.  Correct means each message of the period
  exactly once, in order, within the limits.
* **Numbers.**  `lastUnique` restarts from the unique of the key with the
  greatest timestamp; subsampling draws uniques at random from an interval of
  two such numbers.
* **Start and stop.**  gRPC takes calls before its service has a client, HTTP
  stops before gRPC, both wait for their calls, and the database is not closed.
  Correct means that only the window at the start is deadly, that a server asked
  to stop stops, and that a stop loses no more than a crash.
* **Formats across programs.**  A frame is written in C++ and read in TypeScript,
  a message by one protobuf library and read by another.  Correct means that the
  reader is never inside of a field when it thinks it is at its edge, whatever
  the writer chose, and that an answer that was cut is noticed.

The hazards, each at its line, are in `PROJECT.json`.

## 2. Modules

| Module | What it models |
|---|---|
| `IDComparator` | ids, `Compare` with its wildcard, `GetUniqueRange` |
| `DbClient` | concurrent saves from both front ends, the lock, the cache, the counters, creation of folders, the database below |
| `RangeScan` | `DbClient::Iter`, one step per seek, per test of the loop, per move of the iterator |
| `Range` | the abstract specification `RangeScan` implements: what a range request promises |
| `Subsample` | `GetSubsample` and `SubsamplingHandler`: the bounds, the draw, the lookups by unique, the loop |
| `Readers` | composed with `DbClient`: every kind of reader beside the saves, the handle it keeps, the accesses with and without the lock |
| `MessageStore` | the abstract specification `DbClient` and `Lifecycle` implement: what a store of messages promises |
| `Lifecycle` | EXTENDS `DbClient`: `RunServer` around the saves, from the open database to the return of `main` and the next start |
| `RangeAnswer` | EXTENDS `RangeScan`: the frames `GetRangeHandler` writes, the connection, `decodeTsRecord` |
| `Messages` | the message classes of `compiled.js` as data: class -> fields with number, name, type and label |
| `Codec` | `encode` and `decode` of any table of classes, one piece of the wire at a time |
| `ServingEntry` | EXTENDS `Codec`: `asServingReqRes`, `decodeRespOrError` and the layout they expect |
| `MCDbClient`, `MCLifecycle`, `MCRangeAnswer`, `MCServingEntry`, `MCSubsample`, `MCReaders` | the instances TLC checks |
| `IDComparator_proofs`, `DbClient_proofs`, `Lifecycle_proofs`, `RangeAnswer_proofs` (of `RangeScan` too), `Subsample_proofs`, `Readers_proofs`, `Codec_proofs`, `ServingEntry_proofs` | the theorems and their lemmas |

### DbClient

A request is a thread that runs `GRPCServer::Save` or
`SaveHandler::handleRequest`.  `pc` is its place, and one action is one section
that other threads cannot split:

| `pc` | Action | Code |
|---|---|---|
| `new` | `Arrive` | the call enters `Perform` (gRPC: handle first, then id) or `GenerateId` (HTTP: id first, then handle) |
| `find` | `Find` | the first `GetColumnFamily` of `GetOrCreateColumnFamily`, under the shared lock |
| `lock` | `LockForCreate` | `lock_guard` of `CreateColumnFamily` |
| `create` | `CreateFamily`, `CreateRefused` | `db->CreateColumnFamily`, `if (s.OK)`, `cf->GetName()` |
| `close` | `CloseDb`, `ListFails` | `GetColumnFamalies`, `delete db` |
| `open` | `OpenDb`, `OpenFails` | `DB::Open` |
| `refresh` | `Refresh` | the loop over `handles`, the end of the guard |
| `refind` | `FindCreated` | the second `GetColumnFamily` |
| `load`, `add` | `LoadCounter`, `LoadRaces`, `Draw`, `DrawFreed` | `columnFamalies[folder]->lastUnique.fetch_add(1)`, without the lock |
| `put`, `write` | `LockForPut`, `PutStores`, `PutRefused`, `PutThroughFreedHandle`, `PutCrashes` | `DbClient::Put` under the shared lock, and the answer |

`stage` says for which of its two reasons a request is in
`GetOrCreateColumnFamily`.  `gen` numbers the database objects: a handle is
represented by the number of the object it belongs to, so a stale handle is one
whose number is not `gen`.  The map and the counters are replaced together, so
one `counterGen` stands for the generation of all counters.  `mem` is what a
reader sees, `disk` what the files hold; `Flush` moves one to the other in the
background, `delete db` does it for every family.  Fields `drawn` and `landed` of
an entry are ghosts that only properties read.

*Undefined behaviour.*  The code has some under interleavings the modules reach,
and each becomes a choice over what a build can do: an increment of a freed
counter reads any value of `Garbage` (`DrawFreed`); a lookup in the map during
its rehash, if it goes wrong, kills the process (`LoadRaces`), and otherwise is
`LoadCounter`; a put through a freed handle kills the process, reaches some
family, or none (`PutCrashes`, `PutThroughFreedHandle`).  Corruption of the heap
beyond that is one of the causes of `Crash`.

*RocksDB*, external code, from how the source uses it: `CreateColumnFamily`
refuses a family that exists and then returns a null handle; `delete db` flushes
what is not covered by the WAL and frees the column family data while the handle
objects, never deleted by this program, keep pointing at it; `Open` clears
`handles` and leaves `db` null when it fails; a put with the WAL survives the
process, one without survives once flushed; iterators are snapshots.

*Process death.*  SIGSEGV goes to a handler that calls `exit(1)`; nothing closes
the database.  `Die` drops `mem` back to `disk` and ends the calls in flight as
`dead`.  `Restart` is the constructor.

### RangeScan and Range

`RangeScan` keeps the position of the iterator, the two counters and the keys
handed to `fn`.  The shared lock is held and the iterator is a snapshot, so the
set of keys is fixed for a scan.  `Range` says what the answer is: repeatedly the
first key, in the direction of the request, of those in the period that have not
been sent, until none is left or a limit is reached.  Its `InPeriod` records the
bounds the code has, which differ by direction; a reverse scan whose
`till` lies before every message starts from the last one and sends all of them.

### RangeAnswer

`SendFrame` is the step of the scan that calls `fn`, with what `fn` writes: the
timestamp, the unique, the length of the body, the body.  The stream is a sequence
of numbers in which a field of the header is one and a byte of the body is one, so
`HeaderSize` is 3 and stands for the 20 bytes of the code; `Size`, which the limit
on bytes is compared with, is that of header and body.  When the scan has returned,
`Deliver` hands the client any prefix of what was written: a connection that breaks
ends the stream somewhere, and the code has no other failure of it.  The client then
reads frame by frame (`ReadRecord`) until its offset is at the end, or throws where
the buffer ends before the frame does (`ReadThrows`).  `ToNumber`, external, is what
`Long.toNumber` makes of 64 bits: any function, and in the run one that is not
injective.  The grouping by timestamp after the loop has no effect on what is
returned and is no step.

### Messages, Codec and ServingEntry

`compiled.js` is generated: the two functions of each class differ in their fields
only.  `Messages` has the fields, read off `encode` and `decode` of each class;
`Codec` has the two functions, for any table.  A message is written first, either by
the generated `encode` (`author = "compiled"`: fields by number, singular ones once,
repeated numbers under one tag) or by another library (`"foreign"`: any order,
singular fields repeated, numbers packed or not, empty packed fields, fields the
class does not have).  `decode` then reads it: a stack of calls, each with the `end`
that its length gave it, over one position they share.

| Action | Code (of `PredictRequest` and others) |
|---|---|
| `ReadScalar`, `ReadPacked` | the case of a number, a string, bytes; of numbers under one tag |
| `ReadEmbedded`, `Return` | `X.decode(reader, reader.uint32())` and its return |
| `ReadEntry` | `reader.skip().pos++`, the key, `reader.pos++`, `decode` of the value |
| `SkipUnknown` | `reader.skipType(tag & 7)` |
| `Lost` | no action but a state: the reader is about to take a piece for what it is not.  `ReaderStaysInside` says that there is none |

The wire is a sequence of pieces, a tag, a length or a scalar with its bytes, and
lengths count pieces.  The Writer and Reader of protobufjs are external.  As in the
code, a singular message that comes twice is replaced, where protobuf says that the
two be merged.  A map entry has its key and value, in this order, as every writer of
this system has it; one that leaves an empty key or value out is outside the model,
and the decoder would misread it.

`ServingEntry` puts a request and a response together as the gateway does (the test
kit of the Scala client has a copy of that writer): two sizes, and each message
behind a flag that is 0 when it may be empty.  `readInt` and `slice` beyond the end
of an array give 0 and what is there, as in JavaScript, which decides what happens
to the blank data of a sample.

### Lifecycle

| `phase` | Action that leaves it | Code |
|---|---|---|
| `constructed` | `BuildAndStart` | the server is built and takes calls, or is null when the port is taken |
| `grpc` | `InitService` | `grpcService.Init(dbClient)`; until here a call is a `NullClient` and kills the process |
| `ready` | `StartHttp`, `HttpFails` | `httpServer.start`, or the exception of its socket |
| `serving` | `Terminate` | `waitForTerminationRequest` returns |
| `draining` | `CloseGrpc` | `stopAll` has waited for the HTTP handlers; the end of the block closes gRPC |
| `closing` | `Exit` | the destructor of `server` has waited for the gRPC calls; `main` returns |
| `down` | `Boot` | the next start opens the database |

The calls are those of `DbClient`, admitted by `ArriveCall` when their server is
listening.  That Poco's `stopAll` and gRPC's destructor wait for calls is external.
A signal before HTTP serves, when nobody waits for it, is a `Crash`.  `Exit` is
`Die`, as a crash is: `~DbClient` does not delete `db`.

### MessageStore

Three variables: whether the process is up, what a reader finds, what outlives the
process.  `Save` puts one message, durable or not, in the place of the one that had
its id, if any; `Persist` makes all of some folders durable; `End` leaves what is
durable.  Nothing else happens: while the process is up a message gives way to
another one under its id only.  The refinement maps `shown` to `mem` and `kept` to
`disk`, messages and not only their ids; a creation, which closes and opens the
database, is a `Persist` and stutters.

### Subsample

Both front ends run the same loop: bounds (`Range`), then batches of `step`
uniques drawn at random and looked up (`GetBatch`), each sent (`Write`) before the
next.  They differ in their integers: gRPC cuts the bounds to `int` (`ToInt`) and
may get a negative width, HTTP subtracts unsigned and wraps around.  `IntSpan` and
`LongSpan` stand for 2^32 and 2^64.  The conversion of a double that does not fit
is undefined and may give any unsigned long (`AnyUnique`).  Amounts and batch sizes
are ints put into unsigned ints over HTTP, negative ones too except -1, which leaves
the default; the loop takes them for ints again (`Signed`), after the batch size was
compared with the amount as an unsigned one.  Over gRPC they are of the positive
half of an int: the type they have on the wire is in a file that is not part of the
repository.

Of a batch the handler writes the frames of `RangeAnswer`.

`Lookup` is the heart.  A key without a timestamp compares by unique, but RocksDB
looks for it by a search in an order that is by timestamp.  What the search finds
depends on the layout of skip list, blocks and files, which the module does not
have.  It says what all layouts have in common: a message whose unique matches may
be found, and is certain to be if every other message lies on the side of it that
its unique says.  `Put` is a save of another call, at any time.

### Readers

`Readers` EXTENDS `DbClient` and adds the calls that read.  Its next-state relation
is the steps of the saves, of the environment, and of the readers; the two sides
share the lock, the database, the cache and the stored messages.  The readers that
hold the lock are in a variable of their own, `holding`, so that `DbClient` stays as
it is: `SaveStep` lets a creation take the lock only when `holding` is empty, and
`Beside` ends the readers when a step of a save ends the process.

| `rpc` | Action | Code |
|---|---|---|
| `new` | `Ask` | the call enters its method or handler |
| `find` | `FindFolder` | `GetColumnFamily`; a missing folder is NOT_FOUND over gRPC and an empty 200 over HTTP |
| `open`, `close` | `OpenIterator`, `CloseIterator` | `GetUniqueRange`, `GetUniqueRangeForTS`, without the lock |
| `walk`, `list` | `WalkHandles`, `ListNames` | the loop of `StatusHandler` over `handles`, without the lock |
| `lock`, `read` | `LockForRead`, `ReadStored`, `ReadFreed` | `Get`, `Iter`, each `GetBatch` of a sample |
| any access | `ReadCrashes` | an access through what `delete db` freed |

An access is `Safe` when the database is open and the handle is of it.  One that is
not kills the process or goes on with what it finds (`"wrong"`), except through the
null database that a failed `Open` leaves, which always kills; the walk over
`handles` does not use the database and may go on there too.  A range asks for all
of its folder; what it does with bounds and limits is in `RangeScan`.  `owed` is a
ghost: the ids of the reader's folder that were there when it began.

## 3. Runs

| Run | Checks | Shows |
|---|---|---|
| `Creation` | `LockedCallsSeeOpenDb`, `MapHandlesLive`, `FreshUniquesPerOpen`, `CounterCoversLastKey`, `ReopenLosesNothing` | replacing the database under three concurrent saves |
| `Faults` | `TypeOK`, `IInv`, `LoggedMessagesSurvive`, `ImplementsStore`, `EveryCallEnds` | every failure, a crash, restarts; the saves implement the store, no call hangs |
| `Lifecycle` | `AckedSaveReadable`, `AckedWalSaveSurvives`, `LifeInv`, `OnlyEarlyCallsKill`, `StopEnds` | start, service, stop and restart, with calls in flight: what an acknowledgement is worth when no folder is created, with the WAL and without, which calls are deadly, that a stop ends |
| `RangeAnswer` | `PendingIsAhead`, `LimitsHold`, `ClientSeesAnswer`, `CutIsNoticed`, `AnswerInv`, `ImplementsRange`, `DecodeEnds` | the scan implements the request, and the client decodes what the scan sent, or notices that it was cut |
| `Entries` | `TypeOK`, `ReaderStaysInside`, `DecodesWhatWasWritten`, `SlicesAreRight`, `OnlyBlanksThrow`, `DecodeAdvances`, `DecodeEnds` | every message class and the entries of the gateway, against any writer |
| `Subsample` | `TypeOK`, `SampleIsLargeEnough`, `NoBlanksInOrder`, `SampleIsNearPeriod`, `SampleEnds` | size, end and content of a sample beside saves |
| `Readers` | `LockedReadsSeeOpenDb`, `ReadsMissNothing`, `ReadersInv`, `EveryCallEnds`, `EveryReadEnds` | a reader beside saves, the creation of a folder, its failures, crash and restart; neither side blocks the other for good |
| `ReissuedUnique` | `UniqueIdentifiesMessage` (violated) | a restart gives the last unique out again; with `MaxCrashes = 0` the counterexamples are creations, which do so too, and may free the counter of a call |
| `UnstoredAnswer` | `AnsweredSaveIsStored` (violated) | HTTP answers 200 for a failed put; with `Faults = {}` the counterexample is a put through a handle that a creation freed, answered OK |
| `CreateRace` | `RefusedCreateIsAnError` (violated) | two first saves kill the server |
| `ReadRace` | `FailedReadIsAnError` (violated) | the creation of one folder kills a reader of another, and the server with it |
| `BlankSample` | `StoredUniqueIsFound` (violated) | a stored unique is not found, and an empty message is sent |

**Bounds.**  Three requests are the least that let one create a folder while a
second is inside its window and a third competes with the second.  Two folders, one
present and one not, are what a stale handle needs: the creation of one breaks the
saves to the other.  Two timestamps make keys come out of order, so that the last
key is not the last one written.  `Garbage = {0, 1}` contains a number in use and
one not in use; more values only repeat them.  `MaxCrashes` bounds crashes from
outside; those the program causes are not bounded, and end with the requests.  The
faults are studied with two requests, which the liveness check affords; the
interleavings of three are studied without faults.  The scan has three timestamps
with two uniques each, and bounds on, between and outside them; every subset of the
keys is a folder; bodies are empty or of one byte, and `ToNumber` is exact up to 2
and even above, so that two ids of the instance become one.  `Lifecycle` has two
calls, so that one may be early or in flight while the other is answered, `MaxOpens`
= 3 starts, so that what one life leaves meets a second and a third, and one folder,
which exists.  In `Entries`, `Budget` bounds the fields of an entry, nested ones
included, to two, or three for small classes, and `MaxDepth` the nesting to three: a
message in a message in a message, a field behind a nested one, a repeated field in
two pieces and an unknown field before, in and behind a message all occur.  Each
class is written alone, and a nested class has its own cases besides.  A sample has
five keys: three in order, one that comes later with a unique given before, and one
whose unique does not fit the int of the instance (`IntSpan` 8); amounts and batches
of up to three give no batch, one, two that fit and two that do not, and over HTTP the
amount, the batch or both may be negative; `DefaultStep`
is 3 in the place of 100 for the same reason; one of the periods ends before it
begins.  One reader is enough: readers never
change what another one reads, and two batches let a sample give the lock back and
want it again while a creation waits.  Of the methods and handlers that take the
same steps and differ in the answer only, `Readers` has one each; the proofs have
all.  Symmetry among requests is used only in runs with no liveness property.

**Fairness.**  `FairReadersSpec` adds to the fairness of the saves that of each
reader that has begun.  That a range ends while it holds the lock supposes that its
client reads, or that the connection ends.  `FairSpec` of `DbClient` is weak
fairness of each started call: its thread is scheduled.  Arrivals, crashes, restarts
and flushes are not fair. Weak fairness of a call suffices for `EveryCallEnds`
because the number of requests is finite; a real reader/writer lock may keep a
writer waiting behind readers that never stop coming, and this model does not speak
of that. `FairSpec` of `RangeScan` says that the thread is scheduled and that
writing an answer returns, which the client's flow control may delay but a dead
connection ends; that of `Subsample` the same, and saves are not fair.
`FairAnswerSpec` adds the loop of the client, which is synchronous code; `Deliver`
is not fair, for the network owes nothing.  `FairSpec` of `ServingEntry` is that of
the decoding alone.  `FairLifeSpec` has the main thread and each call that has
begun; the signal, arrivals, crashes and whoever starts the server are not fair.
`Quiescent`, `Returned`, `Ended` and `StayDown` are the ends of the bounded runs, so
deadlock is checked everywhere.

## 4. Proofs

The constants are arbitrary within `ConstantsAssumption`, `ScanAssumption` and
`AnswerAssumption` (timestamps of stored keys are not 0, crashes are bounded,
nothing about sizes), and, for the messages, `CodecAssumption` and
`EntriesAssumption`: the classes and their fields are any table in which the fields
of a class have different numbers, the values of a map are messages, and only
numbers are packed.  protoc generates no other table, and TLC checks that the one of
`compiled.js` is one.  Without the last part a field could be both packed and a
message, and the switch of `decode` would have no one case for it.

*DbClient.*  None of the safety properties is inductive alone.  `IInv` is, and is
built in layers, each proved to be preserved with the help of those below it:

1. `TypeOK`;
2. `Locks`: which `pc` values hold the lock, and that only the writer at `open`
   sees the database closed.  `LockedCallsSeeOpenDb` follows;
3. `Handles`: cached handles and counters are of one generation, the current one
   unless a writer is on its way to replace them.  `MapHandlesLive` follows;
4. `Counters`: numbers drawn from the current counter are below it.
   `FreshUniquesPerOpen` follows (a new draw is at the counter, so it differs);
5. `Storage`: messages lie in families that exist and none is from a later
   generation; the database is flushed when closed;
6. `CounterCoversLastKey`.  The step that sets the counter relies on the last key
   being unique, a fact about `Compare` (`LastIsUnique` in `IDComparator_proofs`); the put relies
   on `Counters`.

`ReopenLosesNothing`, an action property, follows from `Storage`: the keys read
after `Open` are those flushed by `delete db`.

`LoggedMessagesSurvive` is inductive beside `TypeOK`: a put with the WAL reaches both
`mem` and `disk`, in both it takes the place of what had its id, and a put without
the WAL takes it in `mem`, of which the property then asks nothing; neither a flush
nor a reopen takes a message from `disk` that `mem` has.
`SavesImplementStore` shows that every step of `Next` is a step of
`MessageStore` or a stutter.  `CloseDb` is a `Persist` of all families; `OpenDb`
stutters because `Storage` says that what was flushed is all there was; a put is a
`Save`: what `Overwrite` makes of `mem`, and of `disk` if it is logged, is the
abstract `Replace` (`OverwriteReplaces`).

*Lifecycle.*  `LifeInv` is inductive where all folders exist (`Existing = Folders`,
an assumption of the theorems).  Its own part is `Stable`: nobody creates, so every
handle and every counter a call holds is of the open database; with
`FreshUniquesPerOpen` no save takes the key of another one of the same open database,
and `AckedSaveReadable` follows.  `AckedWalSaveSurvives` goes beyond one life: a save
with the id of an acknowledged one belongs to a later start, for within one start the
numbers differ, so what replaces the message was drawn after it (`Holds`), in
`mem` and in `disk`, and a crash leaves what `disk` has.  `OnlyEarlyCallsAreDeadly`, an action property, follows from
`Stable` and `CallsWithinLife`.  `LifeImplementsStore` needs no assumption on the
folders: the steps of `RunServer` stutter, `Exit` and `NullClient` are an `End`.

*IDComparator.*  On stored keys `Compare` is antisymmetric, transitive and 0 only
for equal keys; with the wildcard it is none of these.

*RangeScan.*  `ScanInv` is inductive; its core is `PendingIsAhead`, that what is
still owed is exactly what the iterator has ahead.  `ScanRefines` proves that
every step of the scan is a step of `Range` or a stutter.

*RangeAnswer.*  `AnswerInv` adds to `ScanInv` what was written and read so far.
`Framing`: frame i lies between the ends i - 1 and i, and is `Frame(sent[i])`.
`Decoding`: what has arrived is a prefix of the stream, and the offset is where as
many frames end as there are records.  So the header at the offset is that of the
next frame, the client reads it whole or sees that it is not whole, and
`ClientSeesAnswer` and `CutIsNoticed` are preserved.  `LimitsHold` is part of it:
`bytesSend` is the length of the stream.

*Subsample.*  `SampleIsLargeEnough` from `SizeInv`: what is left and what was sent
add up to the amount, and the last turn started above 0.  `NoBlanksInOrder`, an
action property, needs only `TypeOK` and the definition of order: a message of the
drawn unique exists, it matches the wildcard key, and nothing is misplaced about
it.  `SampleIsNearPeriod`: in a folder in order, keys compare as their uniques do, so
the keys of uniques between two bounds lie between the two keys, and the bound of an
earlier time is the smaller one.  That there is a last key at or before a time,
whatever the set of keys, is the least-number principle on the distances from
`LongSpan`, below which all uniques are (they are `unsigned long`).  The widths are
arbitrary here.

*Readers.*  `ReadersInv` adds to `IInv` five parts.  Every step of the whole is a
step of `DbClient` or a death of the process (`SavesStep`), so `IInv` is carried
over with the lemmas it was proved with.  `ReadLocks` gives `LockedReadsSeeOpenDb`.
`ReadsMissNothing` rests on `Writers` (who puts has looked its folder up), `Cached`
(a folder that was looked up or stored into stays in the cache, across restarts) and
`Owing` (what a reader is owed is in its folder for as long as it reads), and
`Owing` on the lemma of `ReopenLosesNothing`.

*Codec: a message is decoded to what was written.*  Messages nest to any depth, which
looks like an induction over them.  `Codec_proofs` does without: a *point* says that
at some position, in the loop of a `decode` of some class that ends at some place,
the message so far is `message` and the whole will be `total`.  A set of points is
`Parsed` when each one is at its end, with `message = total`, or is followed in the
set by the point one field further, where a field that is a message has a point of
its own in the set, whose total is the value stored.  Points only lead to one
another, so nothing recursive has to be unfolded.  Pieces `Hold` a message when they
have such a set with the point of an empty message at their start.

* The writer keeps `Open` (`WriteKeepsOpen`): each message being written holds what
  it has so far up to its frontier, the header of the next inner one, whose length is
  still 0 and which no point has looked at.  A field that is written adds one point
  behind the frontier and gives all points of its message a new total;
  `Ldelim` fills the length in, and the points of the inner message become the
  justification of one field of the outer one.
* A finished body `Holds` its message, and keeps doing so when `slice` and `decode`
  cut it out of the data.
* The reader keeps `Decoding` (`DecodeReadsIt`): its innermost call is at a point, and
  each caller is at the point behind the message it waits for.  So the piece at the
  reader is one that the case of the switch fits, the callee ends where the caller
  goes on, and the total of the outermost call is what was written.

*ServingEntry.*  Two layers.  `Inv`, of the entry: `SlicesAreRight` and
`OnlyBlanksThrow`; what has been put together is blank or the layout of two bodies,
each of which holds its message.  `LayoutIsCut` computes what `readInt` and `slice`
make of that layout, `FlagIsRemoved` what `decode` does with the flag.  `Sound`, of
the reader: `Decoding` towards the message expected in this step, and the results so
far.  `TypeOK`, `ReaderStaysInside` and `DecodesWhatWasWritten` follow from the two.
`DecodeAdvances`, an action property, says that a step leaves fewer pieces to read or
calls to return from.  `ReaderStaysInside` says that the reader is never stuck on a
piece it does not expect.  What `DecodeEnds` adds to these two is the fairness.

Only model-checked: liveness (`EveryCallEnds`, `EveryReadEnds`, `SampleEnds`,
`StopEnds`, both `DecodeEnds`, the fairness part of `ImplementsRange`), which is out
of the prover's reach.  Every invariant and every action property that a run checks
and the code meets is proved.  `Open`, `Decoding` and what is built on them are out of
TLC's reach: they say that there is a set of points, and TLC cannot look for one.
What follows from them is checked in `Entries`.

## 5. What the checks say of the code

The locking of single calls is right, and so is the refresh of the cache; a reopen
loses nothing; the range scan does what its two sets of bounds say.  The
disagreements are in `PROJECT.json` under `findings`: a race of first saves that
kills the server, readers that use what a reopen has freed, an HTTP answer for a put
that failed, a unique drawn twice across a restart, and samples that are partly
empty.  A gRPC save has the readers' flaw too: it keeps the handle it fetched before
the lock was given back (`GRPCServer.cpp:51` and 88), and where a creation comes
between, the put may be answered OK without being in its folder; the two `Acked`
properties therefore need `Existing = Folders`, and `LoggedMessagesSurvive` speaks
of what a reader finds and not of what was answered.  The unique that a restart gives
out again costs more than an ambiguous lookup: where the new save has the timestamp
of the message that has it, the two keys are one, and the acknowledged message is
replaced, WAL or not.  `AckedWalSaveSurvives` names this one exception (`e.drawn >
origin[r]`, a draw of a later start); without it TLC finds the property violated.
Three more surprises are
written into the specifications as what the code does: a reverse scan may start past
its period (`Range`), a stop on request loses what a crash loses (`Exit` of
`Lifecycle`), and a sample is rounded up to whole batches (`SampleIsLargeEnough`).
The module `Subsample` and the tests agree on the size wherever the amount is a
multiple of the batch.

`Messages` is read off `encode` and `decode`; the lines its `map` entries name have
the one-line `encodeDelimited` between the two, which nothing calls.

The second end-to-end test stores its first message with the timestamp 0, which
the server replaces by the clock: that message gets the smallest unique and the
greatest timestamp.  Its folder is out of order in the sense of `Subsample`, and
the samples the test counts may be empty messages.

`CounterCoversLastKey` excludes stragglers on purpose: a message whose number was
drawn before a reopen and which is stored after it may well be ahead of the new
counter.

The client and the server agree on the frames, and `compiled.js` reads whatever the
format allows of the classes, the two exceptions named under `Codec` aside.  An
answer that is cut between two messages looks complete: HTTP's chunks would tell,
but `decodeTsRecord` is given bytes only.  Blank messages of a sample make
`asServingReqRes` throw, one of the reasons why `BlankSample` matters.

## 6. Not modelled

* `verify`, `fromObject`, `toObject` and the service stubs of `compiled.js`: generated code that
  `index.ts` does not call.  The Scala and Python clients: wrappers and generated code.
* `HandlerFactory`: paths and queries are parsed in straight-line code without state;
  its results are the parameters the calls of the other modules start with.  It is
  `partly` modelled for that reason.
* `Config`, the logger, socket parameters, constant pages, build files and images: no
  state, and no decision another part depends on.
* The constructors' failures, which end the process before it serves anything, and the
  choice between the two clients.
* The S3 side of rocksdb-cloud, whose behaviour the source does not determine; read
  errors of RocksDB, which the code does not look at (`DbClient.cpp:130`); the stack
  (`GRPCServer.cpp:214`).
* What a writer behind readers that never stop coming waits for, and other questions of
  time.

