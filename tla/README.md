# A TLA+ model of turbobt

turbobt is an asyncio client of a Bittensor (Substrate) chain: JSON-RPC calls
over a WebSocket or HTTP, SCALE metadata loaded at run time, signed extrinsics
that are submitted and watched, and a layer of subnets, neurons, weights,
commitments, blocks and batches on top.  This directory models its behaviour
in TLA+, checks the models with TLC and proves theorems about them with TLAPS.
Paths below are relative to `turbobt/`.

## 1. Inventory

| component | source | state it keeps | operations | what is hard |
|---|---|---|---|---|
| WebSocket transport | `substrate/transports/websocket.py` | `_id`, `_futures`, `_subscriptions`, `_connection`, a lock, the generator `__connections`, a `_recv` task per connection | `send`, `connected`, `_recv`, `subscribe`, `unsubscribe`, `close` | interleaved calls, lost connections, timeouts, cancellation, a generator that several tasks drive |
| HTTP transport | `substrate/transports/http.py` | `_id`, an httpx client | `send`, `close` | a request that fails may have been executed; errors come with the status of results |
| Response cache | `subtensor/cache.py` | an ordered dict of responses | `CacheTransport.send`, `InMemoryStorage.get/set` | two misses at once, eviction, entries that never expire |
| RPC client | `substrate/client.py`, `subtensor/client.py` | `_registry`, `_metadata`, `_apis`, a lock | `_init_runtime`, `rpc`, `api_call`, `subscribe` | lazy initialisation that fails or is cancelled half way |
| Errors | `substrate/exceptions.py`, `subtensor/exceptions.py` | a table of reasons, a class registry | `rpc`'s choice of a class | reasons are numbers in a text, with gaps |
| Extrinsics | `substrate/pallets/author.py`, `substrate/extrinsic.py` | none between calls; a queue per subscription | `submitAndWatchExtrinsic`, `wait_for_inclusion`, `wait_for_finalization`, `unwatchExtrinsic` | concurrent submissions of one account, mortal eras that start at a block which is not final, statuses that never come, which extrinsic an event is about |
| Batches | `batch.py`, `client.py`, `substrate/extrinsic.py` | `calls`, a context variable | `Batch`, `Transaction`, `add`, `Bittensor.batch` | nesting, Extrinsics waited for twice or never, siblings of a failed task, which calls a failure undoes, who signs |
| Block context | `block.py` | a context variable, `_token` on the reference | `BlockReference.__aenter__/__aexit__/get`, `Block` | shared references, tasks with their own contexts |
| Subnets, neurons, weights, commitments | `subnet.py`, `neuron.py`, `drand.py` | none | reads (`validators`, `epoch`, `weights.get`, ...) and extrinsics (`set`, `commit`, `register`, ...) | reads of several storages that should be one snapshot; arithmetic and encodings at their edges |
| Storage | `substrate/pallets/_types.py`, `subtensor/pallets/_types.py`, `substrate/pallets/state.py` | none | `get`, `fetch`, `query`, storage keys | keys and values that are two requests |
| Pallet wrappers | `subtensor/pallets/*.py`, `subtensor/runtime/*.py` | none | one method per call | which key signs what |
| Codec | `substrate/_scalecodec.py`, `substrate/_hashers.py` | none | type tables, hash functions | none |

How they interact: a method of a pallet or of a subnet awaits `_init_runtime`
(which, the first time, makes a call of its own with a lock held), then calls
`rpc`, which hands a request to the transport: the cache, and below it the
WebSocket or HTTP transport.  The WebSocket transport runs one receiver task
per connection, which resolves the futures of calls and fills the queues of
subscriptions; `ExtrinsicResult` reads such a queue.  Batches and blocks act on
those methods through two context variables.

What makes each part correct, in short: a call returns the answer to its own
request, or raises, and always ends; one task at a time drives the connection
generator, with one connection and one receiver; a cached answer is the answer
to the request, and what is asked for again stays; the metadata is loaded once and not used before; an error says
what the node said; an extrinsic gets a free nonce and its waiter its own
outcome; reads inside a block go to that block, and a method that makes several
reads answers about one block; what is read is what was written; what is waited
for in a batch is sent once for each wait and for the right account.

The hazards of the code, line by line, are in `PROJECT.json`.

## 2. Modules

asyncio runs one task at a time, so in every module an action is what a task
does between two awaits, with all the state it changes.

| module | models | state and actions |
|---|---|---|
| `WebSocketTransport` | the WebSocket transport | `futures`, `lastId`, `connection`, `lock`, `retriesLeft` are the attributes of the same names; `gen` is where the generator is suspended: before its start, at the inner yield (`open`), at the bare yield (`failed`), inside (`running`), or finished (`dead`); `call[r]` is the frame of one `send()`: its id, stage, connection, future and answer; `recv[c]` and `link[c]` are the receiver and the state of each connection.  `Send`, `TakeConnection`, ..., `Resume` follow a call through `send` and `connected`; `DeliverResponse` to `ReceiverEnds` are `_recv`; `CloseOpen`, `CloseEnd`, `CloseIdle`, `CloseRefused` are `close()`.  `Serve`, `Notify` and `Drop` are the server and the network |
| `WebSocketProperties` | | its properties, the first inductive invariants, and the refinement |
| `RpcCall` | what `send()` promises | a call is executed at most once, and returns the answer to its own execution or fails |
| `WebSocketProofs` | | the theorems about the transport |
| `CacheTransport` | `subtensor/cache.py` | `cached` and `order` are the ordered dict; `Hit`, `Miss` and `Return` are `send`, `Store` and `MoveToFront` the storage; `read` is history: the entries that have answered a request |
| `RuntimeInit` | `_init_runtime` and `api_call` | `registry`, `metadata` and `lock` are the attributes; `Load`, `Loaded`, `LoadFails`, `CancelLoad` are the part under the lock, `Ready` and `Call` what follows.  The transport is left open |
| `Exceptions` | the class `rpc()` raises | `ClassOf`, with the table of reasons |
| `HttpClient` | `RuntimeInit` over the HTTP transport | `http[r]` and `reply[r]` are one exchange, `raised[t]` what its caller sees.  Each step is a step of `RuntimeInit` together with what it does to an exchange, or `Serve`, `Refuse` (the node) and `Close` |
| `Extrinsics` | `author.py`, `extrinsic.py` | `task[x]` is the frame of the task that submits `x` and waits, `watch` and `queue` its subscription, which `Disconnect` cuts as `_recv` does; the pool, the chain, finality and the statuses are the environment, `version[n]` how often the block at a height was replaced |
| `PalletCalls` | every method that submits an extrinsic | its function, and which key of which wallet signs |
| `Batch` | `batch.py`, `Bittensor.batch`, `Bittensor.transaction`, the batch `Extrinsic` | `ctx`, `open` and `main` are the main task, `job[j]` the tasks it gathers, each with an operation of `PalletCalls` and how often its Extrinsic was waited for; `calls[b]` is the list of a batch, `encoded[b]` what was submitted of it, `took` the calls that have had an effect |
| `BlockContext` | `block.py` | `ctx[t]` is the context variable in a task, `token[r]` the attribute of a reference, `inside[t]` the blocks a task is in |
| `SubnetReads` | every reading method of `subnet.py`, `neuron.py`, `drand.py`, with the storage and runtime calls below | `Method` lists the requests each makes, in steps; `op` is the call that is going on: the block it was given, the block of its context, the hash it uses, and for each request the block its answer is about |
| `SubnetRecords` | what `subnet.py` writes and reads back: weights, commits, commitments, revealed texts; `epoch()` | the storage maps, with what was asked for beside them (`asked...`) for comparison; one action per method or chain event |
| `...Proofs` | | the theorems: `WebSocketProofs`, `CacheProofs`, `HttpProofs` (about `RuntimeInit`, `Exceptions` and `HttpClient`), `ExtrinsicsProofs`, `BatchProofs` (with `PalletCalls`), `BlockProofs`, `SubnetReadsProofs`, `SubnetRecordsProofs` |
| `MC...` | | instances for TLC |

How they are composed.  `HttpClient` extends `RuntimeInit` and implements
`RpcCall` twice, for the requests for metadata and for the calls' own; `Batch`
runs the operations of `PalletCalls`.  The others are joined by what each
assumes of the one below.  `CacheTransport` and `Extrinsics` see a transport
whose calls end with an answer or an exception (`EveryCallEnds`,
`ResponseMatches`); `Extrinsics` loses the statuses that come before its
subscription exists, which they do only when the answer overtakes the write
(`NoteMissedOnlyInWrite`), and finds an exception in its queue when the
connection is lost with an error and its receiver runs, and nothing otherwise
(`LossIsAnnounced`); `SubnetReads` takes from the cache that
the answer to a request with a block is about that block (`RightAnswer`), and
from `BlockContext` that the context has the block entered last
(`ReadsFollowNesting`).

### Choices in the WebSocket transport

* A failed write throws `ConnectionClosed` into the generator.  At the inner
  yield it leaves `async with connect`, `process_exception` calls it fatal, the
  generator stops at its bare yield, `athrow()` returns, and the exception is
  gone (`ThrowDisconnects`, `Disconnected`).  At the bare yield it leaves the
  generator, which is finished (`ThrowKills`).  On a finished generator
  `athrow()` returns None (`ThrowIgnored`).
* Whether the frame of a write that fails or times out reached the server is
  open: `Transmit` hands it over, `WriteOk`, `WriteTimeout` and `WriteFails`
  come after or instead.
* `await` on a future that is done does not suspend, so `AwaitFuture` ends the
  call at once; the caller of a subscribing call subscribes before its next
  await.
* An exception removes the id with `del`, which raises `KeyError` when the
  receiver has removed it already (`Raise`); `CancelledError` is not an
  `Exception` (`Abandon`).
* The server answers a request once, on its own connection, in any order; a
  dropped connection loses any tail of what is on its way.
* An answer may come while its own call still drains its write, or throws: then
  `sleep(0)` gives the caller no time, and the next message may be a
  notification that nobody has subscribed to yet (`CallersRan`).

### Choices in the other modules

* `HttpClient`.  The node may execute a request whose caller has given up, and
  may answer an error whether it has executed the request or not.  Notifications
  do not exist over HTTP: `subscribe` and `unsubscribe` of that transport raise
  `NotImplementedError`.  The option `verify` is handed to `httpx.AsyncClient`
  as `ssl`, which it does not take; the transport is modelled without it.
* `CacheTransport`.  A key is the request it is made of.  The code hashes the
  parameters one after the other with nothing between; of the requests the
  client makes no two run together to the same bytes.
* `Extrinsics`.  A block is its height and how many there were at that height
  before, and so is its hash: a reorganisation replaces the best blocks from any
  that is not final by empty ones.  What is signed is the hash of the block that
  is at the era's start when `getBlockHash` is answered, and the node compares it
  with that of the block there now.  A lost connection puts an error on the queues
  of `_subscriptions`, or, when it was closed in order or its receiver had crashed
  or was cancelled, nothing (`Disconnect`).  An extrinsic whose answer overtakes
  its write is subscribed to later (`Subscribe`).
* `Batch`.  Each of the two waits of the batch `Extrinsic` adds the call, again if
  it has been added (`Add`); a job may return without having waited, and then
  nothing is added (`JobReturns`); and the main task may wait for the Extrinsic
  that a job has returned, in the batch that is around then, or in none, which
  raises `AttributeError` (`AddLater`).  The methods of `subnet.py` and
  `neuron.py` wait once and return nothing (`WaitsItself`).
* `Batch`.  `batch_all` undoes all its calls when one fails, `batch` stops at
  the first failure, `force_batch` goes on: this is the Utility pallet's, and
  external.  What fails because of what, and what an item carries with it, are
  least sets closed under links (`Reached`): batches hold batches to any depth,
  and a least set says so without a recursion.  A wait raises when the extrinsic
  fails, and may raise whatever becomes of it.
* `BlockContext`.  The latest block is `Latest`, which is -1 as the code has it,
  and block 0 is a block like any other.
* `SubnetReads`.  A request without a block is answered for the head at that
  moment, or, if it is one the cache keeps, for any earlier one.  A block
  changes one thing of the subnet, and leaves a hotkey one slot at most and a
  subnet that is gone nobody (`Possible`, of the first block an assumption).  A
  `StakeThreshold` that was never set is `Unset`, None in the code.  What a method
  makes of its answers is modelled where it combines several: `validators`, a
  neuron by hotkey, and the maps fetched as keys and values.
* `SubnetRecords`.  Proportions are exact fractions, rounded as `round()` does;
  the code divides floats, which agrees for weights of ordinary size.  A text is
  its length in bytes and whether it begins with an `x`: that is all the length
  prefix, the codec's choice between string and hexadecimal and
  `_decode_revealed_commitment_str` depend on.  Texts have at most 8191 bytes;
  longer ones do not fit in a commitment.  A tempo is positive: with tempo 0 the
  chain runs no epochs.  What an empty `Raw` decodes to is the codec's; it is not
  committed here.

## 3. Runs

| run | instance | shows |
|---|---|---|
| `websocket_calls` | 2 calls of which 1 subscribes, 2 connections, 1 retry, 2 messages, cancellation and `close()` at any point | answers go to their calls; `_futures` holds what can still be answered and, of what has ended, only cancelled calls; the lock; one connection and one receiver; what callers see of a failure has a cause; a notification is missed only by a caller still in its write; `RpcCall` is implemented |
| `websocket_liveness` | 2 calls, 2 connections, 1 retry, `close()` at any time, fair | every call ends; loss is announced |
| `websocket_unsent` | 2 calls, 1 connection | violated: the caller of a failed write awaits an answer to nothing |
| `cache` | 3 tasks, 2 methods of which 1 is cachable, 2 blocks and the latest, room for 2 of 3 keys | right answers, no errors remembered, unread entries go first |
| `runtime` | 3 calls over HTTP, 1 cancellable, 4 errors of the node, `close()` at any time, fair | only a failed load breaks; no call waits for ever; errors keep their meaning; `RpcCall` is implemented |
| `extrinsics` | 2 extrinsics with eras of 2 blocks, 3 blocks, 1 reorganisation, connections lost in silence | own outcome; free nonces |
| `extrinsics_fair` | 1 extrinsic with an era of 3 blocks or none, 4 blocks, 2 reorganisations, connections lost with and without telling, fair | eras hold but for their end and for a replaced block; finality, or the loss of the connection, is noticed |
| `extrinsics_nonce` | a nonce is given | violated: it is not the one signed |
| `block_context` | 2 tasks, 3 references (`head`, which may be entered while in use, a number ahead of the chain, a hash), depth 3, 2 blocks | reads follow nesting until an `__aexit__` raised; only a shared reference's raises, and only future blocks turn into the latest |
| `batch` | 2 jobs, one with any operation of `PalletCalls`, once for every account that may sign it, and one with one of 3, up to 2 waits for an Extrinsic, in its job or later, 2 batches of any of the 3 kinds, 2 wallets | sent once for each wait; for the right account; transactions are whole; what was waited for is lost only after a failure |
| `subnet_reads` | 20 methods, 2 slots, 3 hotkeys, 3 blocks each of which changes any one thing, a stake threshold or none, an argument and a context or neither | snapshots; a torn read only where nothing names a block; the top validators; age of what is read |
| `subnet_records` | 1 subnet, 2 mechanisms, 2 hotkeys, 4 blocks, tempos 1 and 2, weights of both signs, data at the limit of what fits, texts at the limits of the prefix and the codec | what is read back is what was written; epochs are those of the chain |

Bounds.  Two calls of the transport are enough for one call's id, future or
failure to meet another's: one fails on an old connection while the other holds
the lock or has finished the generator.  Two connections make one stale; more
repeat that.  Ids are handed out once per call, so `MaxId` is the number of
calls and cuts nothing.  `MaxWire` bounds the messages on their way on a
connection: two allow an answer and a notification in either order.  In `cache`
the keys exceed the room by one, so every store into a full dict evicts.  In
`runtime` one call loads, one waits and one comes late, and the errors are the
listed reason with the gap before it, a refusal without a number, an unknown
block, and another error.  In `extrinsics` the period is 2 instead of 4, so that
an era ends within 3 blocks; in `extrinsics_fair` it is 3, so that the block that
was signed can also be replaced before the era has ended.  `MaxHead` and
`MaxReorgs` bound the chain; two reorganisations retract an extrinsic that has
been in a block twice.  `Mortal` and `Losses` choose what a run is about: in
`extrinsics`, whose properties are about what is reported and not about who is
told, a loss in silence leaves a task where it is, and one that is told only lets
it raise.  In `block_context` three levels of nesting have an innermost, a middle and an outermost.  In `batch` two jobs are a call and its
sibling, and two batches nest or follow each other.  Every operation is tried once
per account that may sign it (`OncePerSigner`): the methods of `subnet.py` and
`neuron.py` without a wallet, what only pallets offer with the client's, and one
method of each key with another wallet; and each beside one of three others
(`AnyAndOther`): of either key, waited for once or twice, for the client's wallet
or another.  `MaxWaits` is 2 because an `Extrinsic` has two waits; not both jobs
have both (`OneTwice`).  In `subnet_reads` no method waits for more than two answers one after
the other, so two changes of the chain put one before the call, for what is
cached, and one between its requests; the interesting states need two neurons,
one above the other by its hotkey only, and a third hotkey that can take a slot.
Without a stake threshold there are two blocks (`TwoWithoutThreshold`).
In `subnet_records` a text of 12 bytes
that begins with an `x` gives `0x` and has 13 bytes in all, one of 32 bytes has
the first prefix that is not UTF-8, and the longest has a prefix of two bytes;
four blocks hold two epochs of the shorter tempo and a change of tempo.
Symmetry is used in runs without properties that need fairness, over sets whose
members nothing distinguishes.  Deadlock is not checked where the system stops
by itself: calls, loads, extrinsics and jobs happen once, and the blocks of
`subnet_records` end.  In `cache`, `block_context` and `subnet_reads` tasks go
on for ever and deadlock is checked.

Fairness.  `WF` of what a task does next, because the event loop runs every
ready task and each await ends: timers of `asyncio.timeout`, `open_timeout` and
`close_timeout` of the WebSocket library, the timeout of httpx.  Every call of
`send()` has a timeout on its write and its read, so an answer is never assumed.
`HttpClient` and `Extrinsics` assume that a request ends, which is
`EveryCallEnds` of the transport; `Extrinsics` also assumes that a block in the
chain becomes final.  Nothing is assumed of cancellation, of `close()`, of the
node's answers, or of the pool.

## 4. What the violations show

* `websocket_unsent`.  Two calls write on a connection that is gone.  The first
  to get the lock closes it; its exception is swallowed, and it waits for an
  answer to a request that was not sent until its read timeout.  The second
  meets the bare yield and finishes the generator; from then on the transport
  answers every call with `RuntimeError`.
* `extrinsics_nonce`.  The nonce that a caller gives is overwritten by
  `accountNextIndex()`.

Other behaviour the models contain and no document speaks about:

* a task cancelled while it connects finishes the generator
  (`CancelInGenerator`), and an answer to an abandoned call ends the receiver
  (`DeliverResponse`);
* a failed load of the metadata is never repeated (`Ready`);
* `wait_for_finalization` after `wait_for_inclusion` does not end, nor does a wait
  whose subscription came after the status, whose extrinsic the pool gives up, or
  whose connection was closed in order;
* a reorganisation that replaces the block whose hash was signed makes the node
  refuse the extrinsic while its era lasts (`Replaced`);
* in a batch, a caller who awaits inclusion and then finalization has its call
  executed twice, one who awaits neither has it executed never and is not told,
  and one who awaits after the batch gets `AttributeError` (`Add`, `JobReturns`,
  `AddLater`);
* calls added to a batch that has been submitted are lost (`Add`), a batch is
  submitted also when its body has raised (`Leave`), and it is signed with the
  coldkey of the client's wallet whatever wallet its calls were given
  (`BatchSigner`);
* a reference in use twice leaves its block in the context (`LeaveRaises`);
* without a block, a cached answer may be as old as the process (`Ask`), a
  neuron found by hotkey may be the one that has taken its slot since
  (`NeuronFound`), and a map fails to decode when an entry goes away between its
  keys and its values (`Unusable`);
* `max_validators` 0 makes everybody with enough stake a validator, and nobody
  with enough stake makes `validators()` raise, and so does a stake threshold that
  was never set, with `TypeError` (`Unusable`);
* a commitment without data makes `commitments.fetch()` of the whole subnet
  raise (`FetchCommitments`);
* weights of both signs, or all negative, are mostly refused when they are
  encoded (`Encodable`).

## 5. Proofs

The theorems hold for every value of the constants under the assumption named
in each module (`ConstantsAssumption`, `CacheAssumption`, `RuntimeAssumption`,
`HttpAssumption`, `ExtrinsicsAssumption`, `BatchAssumption`,
`BlockContextAssumption`, `SubnetReadsAssumption`, `SubnetRecordsAssumption`):
`Subscribing` and `Cancellable` are calls, `None` is none, bounds are natural
numbers, an error of the node is not a result, a missing entry of the cache is not
a response, jobs are not batches, the slots of a subnet are finitely many and its
first state is one the pallet makes, and for `SubnetRecords` netuids are below
4096, tempos positive and texts at most 8191 bytes long.

Every invariant and every action property that a passing run checks, and both
refinements of `RpcCall`, is stated by a theorem.

The WebSocket transport:

* `TypeCorrect`: `TypeOK` is inductive by itself.
* `GeneratorCorrect`: `LockProtectsGenerator` and `OneConnection`.  That two
  receivers never live together is not inductive: it follows from
  `ReceiverOfConnection`, that the one alive belongs to `connection` and that
  none is alive while a call connects (`StartConnect` has cancelled it).
  `GeneratorInv` is the conjunction, with one step per action.
* `CallsCorrect`: `ResponseMatches` and `NoStrayFutures`.  `CallsInv` says that
  an id belongs to one call (`CallIds`), that frames and messages carry the id
  of their request (`MessageIds`), that a future holds its own answer
  (`Answers`), and that an entry of `futures` is under its call's id and not yet
  answered (`FutureIds`).  An answer is then handed to the call whose id it
  carries, which is the one that sent the request.
* `WebSocketRefines`: `ImplementsRpcCall`.  The mapping reads the phase of a call
  off its stage (`PhaseOf`).  Beyond `CallsInv` it needs `ServedInv`: every message
  on the wire and every answer in a future is of a request that the server has
  executed, and every executed request was sent.  Each action is then a step of
  `RpcCall` (`RpcStep`) or none.
* `NoteCorrect`: `NoteMissedOnlyInWrite`.  `ConnInv`: a message is on the connection
  its call has sent on, and a call that awaits its answer, has it and has not run
  since keeps that connection's receiver in its sleep.  What is left are the stages
  of the write, in which the answer may come before the caller awaits it.
* `FailuresCorrect`: `FailuresAreExplained`.  A crash has to stay explained after
  the call that explains it has gone on: a cancelled future that can still be
  popped belongs to a call that is cancelled or has expired (`CancelledFutures`),
  and a call that abandoned its answer stays recognisable (`Abandoned`).
  `EndIsExplained` says of a finished generator what `RuntimeErrorIsExplained`
  says of the error it raises.

The cache, the runtime and HTTP:

* `CacheCorrect`: `RightAnswer`.  An entry answers every request with its key
  and is no error, and what the node has answered a call is what it asked; a
  store keeps the first by the second.
* `CacheTyped` and `EvictionCorrect`: `TypeOK` and `UnreadGoFirst`.  `OrderInv`
  says that the order lists each entry once and nothing else.  `ReadFirst` is why
  the last is the one to take: every entry that has answered a request comes before
  every one that has not, which a hit keeps by moving its entry to the front and a
  store by putting the new one at the end.
* `RuntimeCorrect`: over any transport, one call loads at a time and a half
  initialised client is seen only after a failed load.  While a call loads,
  `registry` has the core types and the lock is its own; with the lock free and
  no metadata, a load has failed (`LoadInv`).
* `HttpRuntimeCorrect`: each step of `HttpClient` is a step of `RuntimeInit` or
  leaves it alone, so what was proved of that holds over HTTP.
* `HttpRefines`: `HttpImplementsRpcCall`, the refinement of `RpcCall` by both
  kinds of requests.  `HttpInv` says how far the two exchanges of a call are by
  where the call is, and that a result on its way is that of a request that was
  executed; each action is then a step of `RpcCall` for one kind and none for
  the other, or two such steps of different kinds.
* `HttpErrorsCorrect`: `HttpTypeOK` and `ErrorsKeepTheirMeaning`.  `RaisedInv`
  says of every stage of a call which class it has raised and which of its
  exchanges was refused; that the reasons of the table are told apart is a
  lemma about the table (`ListedApart`).

Extrinsics, batches and blocks:

* `OutcomeCorrect`: `TypeOK` and `OutcomeIsOwn`.  `KnownInv`: who has been told
  `finalized`, or reads the events, has an extrinsic that is final; `ChainInv`:
  what is final is in a block no reorganisation retracts.
* `NonceCorrect`: `NonceIsFree`.  `NonceInv`: the extrinsics of the account in the
  first `b` blocks have the first nonces, for each `b`, so that what a
  reorganisation leaves has them too; `NextIndexIsFree` shows that the least
  number from there on that nothing in the pool has is free.
* `EraCorrect`: `EraHolds`.  `BirthIsStart` is arithmetic: with the phase that was
  signed, the chain finds the header that was read as the birth of the era, as long
  as the era lasts.  `VersionInv`: no final block was ever replaced, block 0 among
  them, so that the hash signed for an extrinsic without an era is always right.
* `BatchTyped`: `TypeOK` with `Nesting`: a batch is entered once, those that are
  open are not closed, and the context in an `__aexit__` is that of the batch
  around.
* `SentOnceCorrect`: `SentOnce`.  `Lists`: what was encoded is the beginning of
  the list, and a batch is in a list only when it is closed; `Counted`: a call is
  in the lists at most as often as its Extrinsic was waited for, a batch once, and
  what was sent by itself in none; `InOrOut`: a call that is in a list is of a job
  that was started in a batch, and one sent by itself of a job that was not.
* `CallsCorrect`: `CallsActForTheirOwn`.  `EffectsAreSent`: what has had an effect
  was sent by itself or is in a batch, for whose signer the chain takes it; the
  rest is a table of operations (`RightKeys`, `SignerIsMeant`).
* `TransactionsCorrect`: `TransactionsAreWhole` is inductive over `SentInv`.  What
  an extrinsic executes is the least set from the item that was submitted; with
  the `batch_all` it reaches all its calls (`Execution`), and without it none of
  those that no other batch has (`CallsOf`), because the batch is the only way to
  them.
* `LostCorrect`: `LostOnlyAfterFailure`.  While nothing has failed, jobs run only
  in a `gather()` (`JobsInv`), a call whose Extrinsic was waited for is in a batch or
  was executed, a batch is closed with all it ever holds and is
  open, was sent, or is in one that was (`HeldInv`), and a call that was sent in
  batches has its effect or one of those batches may have skipped it (`KeptInv`).
* `NestingCorrect`: `ReadsFollowNesting`, with references shared in any way.  It
  rests on `TokensRestore`: a token that `reset()` would take belongs to the
  innermost use of its reference by the task that made it, and holds what the
  level around that use reads.  A task is exempt once an `__aexit__` has raised
  in it.
* `OnlySharedOrFuture`: `OnlySharedOrFutureGoWrong`.  `Exclusive`: a reference
  that is never entered while in use has one use at most in all tasks, and its
  token is of that use; `EntersItsOwn`: the number asked for is the reference's, or
  of a block there was.

Subnets:

* `ReadsCorrect`: `TypeOK`, `ReadsAreSnapshots` and `OnlyCachedReadsGoBack`, for
  a chain that changes in any way and any set of cachable requests.
  `PinnedAsNamed` says which hash a method's requests carry, `PinnedFirst` that
  `validators` and `commit` have one before they read, `ReadAsPinned` what that
  means for the answers so far.
* `TornCorrect`: `OnlyTornReadsGoWrong`.  `AnswersInv`: a method that has ended has
  all the answers it needs, and has raised only for them.
* `TopCorrect`: `ValidatorsAreTheTop`, for any number of hotkeys and any stakes.
  A finite set that is strictly ordered can be sorted (`SortedExists`: an element
  goes where the number of those after it says), and what comes after the `i`th of `k` are `k - i` (`SortedRank`),
  so the end of the list are those with fewer than `max_validators` above them;
  hotkeys and neurons correspond as the snapshot is one the pallet makes.
* `EpochsCorrect`: `TypeOK` and `EpochsFollowChain`.  The lemma
  `EpochHasOneStep` is arithmetic: the range `epoch()` returns contains the
  block and exactly one step, its first.  `EpochsInv` says that since its tempo
  was set a subnet has stepped when that tempo says.
* `WeightsCorrect`: `WeightsReadBack`.  `IndexInjective` (no two mechanisms share
  a storage index, netuids being below 4096) and `NormalizeKeeps` (the rounding
  is to the nearest proportion, ties included) make `WeightsInv` hold of every
  write.
* `CommitmentsCorrect`: `CommitmentsReadBack`.  `DecodeInverse` goes through the
  forms the codec may return a text in, with every length of the prefix.

Only model-checked: what must happen, `EveryCallEnds` of both transports,
`LossIsAnnounced` and `FinalIsNoticed`, as fairness and ENABLED are out of the
prover's reach; and the two violations, which are runs.  The library's induction
theorems cannot be instantiated, so sorting is argued by counting, the depth of
batches by least sets, and the least free nonce by the well-foundedness of `<`.

## 6. Not modelled, and what is left

* Storage: how keys are hashed and taken apart again, `getKeysPaged()`, and the
  decoding of subscriptions to storage: the outcome depends on the hash functions
  and the type tables, which are data.
* The registry of exceptions by name, which `SubstrateException.from_error()`
  looks up for the error of a pallet: it is filled at import and read only.
* `BlockReference.get()` and `get_timestamp()`, which make requests and change
  nothing; `BlockReference.wait()` calls a method that does not exist.
  `Subnets.get()` uses an attribute that does not exist, and `__aiter__` of the
  neurons is a coroutine, which `async for` refuses: they raise whatever is given.
* `StorageValue` of an entry that was deleted, which raises `TypeError`.
* Codec: type tables, records and hash functions.
* In what is modelled: the payloads of messages; the contents of subscription
  queues in the transport; era phases above 4096 blocks, which scalecodec rounds;
  tasks that inherit a block from the task that starts them; the cache under
  `HttpClient`, which is `CacheTransport`; floats; an `Extrinsic` that another job
  waits for, or its own job after it was cancelled; the answers of one `gather()`
  of `submitAndWatchExtrinsic()` coming one by one.

Hazards without a property: an old connection's failure that hits a new one
(`websocket.py:72`), an older answer about the latest block that is cached last
(`cache.py:137`), a nonce read by two before either is submitted
(`author.py:103`), the queue a timed out wait leaves behind (`subnet.py:217`)
and the batch of a body that raised (`batch.py:26`).  The models contain these;
nothing written says what should happen instead.  That the lock of
`_init_runtime` is never taken twice by one task (`client.py:141`) is so by the
calls the code makes, which the model has as they are.  Of a hazard that has a
property, three halves are outside it: the waits that never end, which
`FinalIsNoticed` names and leaves out, the Extrinsic that nobody waits for, which
`LostOnlyAfterFailure` does not count as lost, and the calls of a hotkey that the
chain refuses in every batch, which `CallsActForTheirOwn` does not judge.

What could come next, in this order:

1. `SubnetReads` composed with `BlockContext` instead of assuming what it
   promises, so that a read in a shared reference is followed to the chain.
2. The deterministic parts of liveness as safety theorems: what a call of the
   WebSocket transport waits for exists (a holder of the lock, a running receiver
   or a timer), so that only fairness is left to TLC.
3. `HttpClient` over `CacheTransport`, and the refinement of `RpcCall` by the two.
