# mons in TLA+

mons trains one mlpack model on several machines: a server splits every batch of
the optimizer among its clients, each client evaluates its share and sends a
gradient back. This directory holds TLA+ models of the parts of mons that decide
whether this works, TLC runs that check them on small instances, and theorems
about them that the TLA+ proof system checks for all instances. Everything is
translated from the headers under `src/include/mons`.

## 1. The system

```
 optimizer (ensmallen)
   | EvaluateWithGradient, Shuffle, StepTaken
 DistFunctionServer --- AsyncClientIterator      DistFunctionClient - FunctionAccessor
   | SendOpWait, SendAwaitable                     | handlers (callbacks)
 RemoteClient - Network                          Network - RemoteClient
   | Send                  StartRecieve            |
 Socket ================ TCP ================== Socket
```

| Component | State | Operations | What is hard, and what makes it correct |
|---|---|---|---|
| Network (`Common/network*.hpp`) | `idCounter`, `allCallbacks`, `sockets` | `Send`, `SendAwaitable`, `RegisterEvent`, `StartRecieve`, `PropagateMessage` | A waiter thread per call, a receiver thread per peer, callbacks without a lock. An answer wakes its own call and no other; nothing but the race takes a callback; none outlives its call. |
| RemoteClient (`Common/remote_client*.hpp`) | the peer's id | `Connect`, `Send`, `SendAwaitable`, `SendOpWait`, `OnRecieve` | Timeouts; calls return. |
| SafeRef | a mutex, a reference | `Lock`, `Value` | One message, many threads: the header is not overwritten while it is being sent. |
| Socket (`Common/socket*.hpp`) | `_socket`, mutexes `sm`, `rm` | `Listen`, `Connect`, `Send`, `Recieve`, `Disconnect` | Partial reads and writes, timeouts, ends of processes. Messages arrive whole and in order. |
| Message codec (`Common/serialize.hpp`, `Common/Message/`) | a buffer and a position | `Serialize`, `Deserialize`, `GetTensor`, `SetTensor`, `Cerealize` | Byte order, widths, lengths; decoding inverts encoding. |
| DistFunctionServer (`Server/dist_function_server*.hpp`) | parameters, the iterator | `Train`, `SendData`, `EvaluateWithGradient`, `Shuffle` | Clients that come late or fail. Each column of a batch is counted once, and on the current model. |
| AsyncClientIterator | `allClients`, `connectedClients` | `TryConnect`, `Iterate` | A thread per client; phases do not overlap. |
| UpdateRemoteParamsCallback | - | `StepTaken` | Shares one message among its threads. |
| DistFunctionClient (`Client/`), FunctionAccessor | `isInit`, the function, staged data | seven handlers, `Initalize` | Order of messages, a second training, messages before handlers. |
| Handshake (`RemoteClient::Connect`, `Socket::Listen`, `Connect`) | two acceptors, `_socket`, the `ConnectInfo` callback | `Listen`, `Connect`, `AcceptFrom` | Nothing but time tells the server that the second acceptor is open, or that the callback is registered. Who is accepted gets connected, with one verdict. |
| Network configuration | `endpoints`, `sockets` | `ParseNetworkConfig`, the constructor of `Network` | Malformed lines, gaps in the ids, a map that grows while it is counted. Every id has its socket. |
| Configuration hash | `CONFIG_HASH` | `GetConfigHash` | An index that leaves out characters and runs past the end. |
| Log, type traits, registration macros | - | - | Nothing that has a state worth checking. |

`PROJECT.json` lists the same components with their status, and the hazards of
the code, each at its line, with the properties that cover it.

## 2. Modules

| Module | Models | Depends on |
|---|---|---|
| `Network` | a call from `SendOpWait` to its return: caller, waiter and receiver threads, streams, the peer's handler | `RemoteCall` |
| `RemoteCall` | what `SendOpWait` promises its callers (abstract) | |
| `Training` | server, iterator, callback and client handlers during `Train` | |
| `BatchSplit` | the loop that divides a batch | |
| `Socket` | one direction of a connection, byte by byte | |
| `NetworkConfig` | `network_config.txt` and the constructor of `Network` | |
| `Handshake` | a server and its clients getting connected, once the constructors are through | extends `NetworkConfig` |
| `Endian` | the byte loop of `serialize.hpp` | |
| `Codec` | a message from its object to bytes and back, with the loop on each scalar | an instance of `Endian` |
| `MCNetwork`, `MCTraining`, `MCSocket`, `MCHandshake`, `MCCodec` | instances for TLC | the above |
| `NetworkProofs`, `RemoteCallProofs`, `TrainingProofs`, `BatchSplitProofs`, `SocketProofs`, `ConnectionProofs`, `CodecProofs`, `EndianProofs` | theorems and proofs (section 4) | the above; `RemoteCallProofs` extends `NetworkProofs`, `CodecProofs` instantiates `EndianProofs` |

Definitions named `X_Something` and commented "Mutant" are variants of `X` with a
bug; no specification uses them. Each property of a passing run has one that breaks it.

### Network

A thread in `SendOpWait` (`caller`: launched, send, wait, expired) has a waiter
thread (`waiter`: register, waiting, done). `Begin` draws the id and starts the
waiter, `RegisterEvent` appends its callback, `WriteHeader` and `Send` write the
id and serialize the message, `PropagateMessage` runs the callbacks and
`EraseCallbacks` removes those that returned true, `Return` ends the call.

* `sharing` says how the threads share their message, one of `Sharings`: `"own"` as in
  `EvaluateWithGradient`, `"saferef"` as in `Train` and `SendData`, `"shared"` as
  in `StepTaken`.
* `RegisterEvent` and `PropagateMessage` have a data race, and so have two `RegisterEvent`.
  Its outcome is a choice from `RaceOutcomes`: nothing happens, any of the
  callbacks are lost (`"lost"`), or the program ends (`"crash"`, action `RaceCrashes`).
* A frame is written up to `MaxCopies` times: `SocketSend` does not count a late write and
  writes the same bytes again, `Send` retries a frame from its beginning. `LoseStep` is the other thing a
  late read or write can do: an end that has lost its place in the stream takes
  other bytes for a length and waits for as many, so that it decodes nothing from then on.
  `Socket` models the bytes; this is what is left of them for a call.
* `TimeOut` is `wait_for` not being ready. It does not end the call: the future
  that is destroyed on the way out waits for the waiter.
* `IdModulus` is 2^32, the width of the id on the wire. A call is named by its
  64-bit id; the field `call` of a message carries it for the properties only.

`ImplementsRemoteCall` is refinement: with `pending` for "in a call", `served` for
`handled` and so on, every step of `Network` is a step of `RemoteCall` or none.

### Training

The server's `pc` names its phase. Each phase is an `Iterate`: `work[c]` is what the
worker of client `c` has yet to send, `waiting` holds the workers with an open
call, and `Joined` is the end of `Iterate`. The optimizer chooses its next
operation freely. A client is down, listening, up, or aborted (the assertion of
the parameter handler); it registers its handlers one by one after it is up,
and a message without a handler is dropped. Data sets, functions and parameters
are version numbers; a gradient records the columns it is for and the versions
it was computed on. `Chunk` is the result of the loop that `BatchSplit` models.

The wrapped function is external: mlpack's FFN evaluates with its own parameters,
which is why the server sends them after each step, so that the parameters in
the request are not recorded. A client that has no function, or not all the data, may also
throw and end (`NothingToEvaluate`): the FFN of mlpack does so for a network without layers.

A worker waits for the next answer of its client, or for ever: `LoseCall` is what `Network` and
`Socket` find out about a call, that a race takes its callback, that its bytes are cut off, that
the Parameters of `StepTaken` go out under another worker's id (`NetworkSharedMessage`).
`WaitsInVain` adds the messages nobody reads and the clients that abort. No timeout is needed,
since none ends a call.

### Socket

Frames are a length prefix and a payload. `WriteSome` and `ReadSome` move any number
of bytes at a time, `WriteTimeout`/`LateWrite` and `ReadTimeout`/`LateRead` model an
asynchronous task that finishes after its wait: `cancel()` cannot stop it, and its
bytes are not counted. `ReadError`, `WriteError` and `LateError` are end of file
and broken pipe; `cancel(ec)` clears the error, so the loops spin. `LateError` also
contains the race on `ec`. A prefix of bytes that are not a prefix decodes to any
of `GarbageLengths`. `LengthAssumption` states that no frame ends inside a read of
a prefix that began late; a header has 20 bytes, so it holds in mons.

### NetworkConfig

A line of the file is blank, malformed, or an endpoint whose id, address or port
may not parse. An endpoint is identified by the machine its address belongs to; `Stray`, `Default`
and `Own` are addresses of no configured machine. An id has 64 bits on the line and `IdSpan` values in the
map. `ParseFails` is the fatal error, which ends the process; a part that
does not parse is only logged, and an uninitialized id is any of `StrayIds`.
`Looked` is `operator[]`, which inserts: the constructor's loop (`MakeSocket`) makes
the map larger while it counts to its size, and fills the gaps.

### Handshake

`pc` is where the server is in `Socket::Connect` and `RemoteClient::Connect`: `Knock` at
the well-known port, `ReadPort`, `Dial` the new one, the exchange, `Return`. It goes
from machine to machine (`NextPeer`), in the constructor of `DistFunctionServer` and then
in every `TryConnect` (`NextRound`). A client is in `Listen`: `Accept` ends the first
`AcceptFrom`, `OpenAcceptor` is the thread with the second one, `SendPort` follows the sleep
of 10 ms, `EndListen` the `join`. `Attach` is the moment at which `_socket` is set and
`IsConnected` turns true.

The exchange of `ConnectInfo` is `SendAwaitable` of both ends with message id 0. It is the
code that `Network` models for later calls; here only the order of `RegisterCallback`, `SendInfo` and
`ReceiveInfo` or `DropInfo` matters. `Expire` is the wait of five seconds: as in `Network`,
it decides the verdict and does not end the wait. `ReadTimeout` is the receiver's own five seconds in
`SocketRecieve`: the bytes that come afterwards are not counted, the message without its
beginning is never decoded, and the end is `deaf`. The receiver starts to read before the caller
starts to wait, so that an expired wait finds it deaf, or about to read what has come; only if
the receiver thread was late (`"slowReceiver"`) can its answer still be heard.

`Target` is the machine that the socket of `peer` leads to, which need not be the machine
with this id: the server connects to it all the same (`via`), and then looks for the callback under
the id the answer bears, which is not the one it was registered under (`Found`).

`Surprises` turns on what may go wrong: the second acceptor is not open when the port is
sent, a `ConnectInfo` comes before its callback or takes more than five seconds, a receiver
starts late, a stranger calls the well-known port, another process takes a port.
`hash` is any value `GetConfigHash` may return, which is more than one where
its index leaves the string.

### Endian, Codec

`Endian` is the loop of `_ToBigEndian` on one value, sent through it and through it again
on the other side, for the proofs. `Codec` instantiates it: `WriteScalar` copies a scalar
into the buffer, `Swap` is the loop, `EndWrite` puts the bytes where they belong; `Transmit`
delivers all bytes or the first of them; `ReadScalar`, `Swap` and `EndRead` go back, and
`ReadNothing` is the size check of `_DeserializePrivate`, which leaves the default and
lets the reader go on.

A message class has one `Serialize` for both directions. Here there are two definitions:
`Fields` lists the scalars of an object, and `Width` says what is read next, given what has been
read, so that the reader depends on what arrived and never on the object.
`Throw` is `FatalError`, raised before the elements are written if the
shape does not fit their number, and by `Expect` at the end; the elements of a tensor go through the
loop a first time on their own (`ToBigEndian` in `SetTensor`), and byte by byte with the message; `Terminate` is the
exception of `GetTypeSize` in the receiver thread. `GetTensor` is what the handler gets.

A byte has `Base` values and an integer of `w` bytes `Power[w]`, which is `Base^w` as a recursive
function, so that the proofs can use its definition. Elements, objectives and the
archive of cereal are numbers and bytes. `ObjectsAssumption` says what the messages are made of: an
Armadillo object has as many elements as its dimensions say. The sender compares numbers
that are no larger than this one, so that the products in `FatalErrors` do not exceed 64 bits; the products that
the receiver works out from bytes are of the same numbers, of some of them and zeros, or of none.

### BatchSplit

The loop as it is written, one iteration per step.

## 3. Runs

| Run | Instance | Checks | Shows |
|---|---|---|---|
| `NetworkCalls` | 2 threads, 1 peer, own or locked messages, 1 with timeout, race, 2 copies, lost step, 2 calls, fairness | `TypeOK`, `AnswerIntegrity`, `ResponseNamesRequest`, `NoDanglingCallback`, `SharedMessageIsStable`, `RegisteredCallIsInFlight`, `OnlyRacesLoseCallbacks`, `RegisteredCallReturns`, `ImplementsRemoteCall` | holds |
| `NetworkSharedMessage` | 2 threads, 2 peers, one unguarded message and timeouts, as `StepTaken`; fairness | `TimedCallReturns` | violated |
| `TrainingTwice` | 2 clients, 3 data sets, 2 `Train` calls | `TypeOK`, `EvaluatedOnCurrentModel`, `ShuffleAgreement` | holds |
| `TrainingLate` | 2 clients that start whenever they like, late handlers, failing loads, lost calls, fairness | `BatchCountedOnce`, `PhasesDoNotOverlap`, `OnlyLostCallsKeepTrain` | holds |
| `TrainingLateJoin` | 1 early client, 1 late | `EvaluatedOnCurrentModel` | violated |
| `SocketFaults` | 2 frames of 3 and 5 bytes, prefix of 2, 4 bytes in the connection, 2 timeouts, exits | `TypeOK`, `IntactUntilTimeout`, `NoOvershoot`, `FramesNotInterleaved`, `AllBytesAccounted`, `FramesArrive` | holds |
| `SocketIdle` | as above, slow reads only | `FramesIntact` | violated |
| `BatchSplit` | up to 12 columns, 5 clients | `TypeOK`, `BatchUsedUp`, `ChunksAreAdjacent`, `ChunksAreBalanced` | holds |
| `Handshake` | 2 clients, 5 configuration files, 2 attempts, 2 rounds, all surprises | `TypeOK`, `IdsHaveSockets`, `EveryMachineIsTried`, `NobodyTalksToItself`, `VerdictsAgree` | holds |
| `HandshakeEnds` | 2 clients, all machines configured, 1 round, slow acceptor, callback and `ConnectInfo`, a stranger; fairness | `HandshakeEnds` | violated |
| `Codec` | 13 messages of all 10 types, cut at every byte | `TypeOK`, `RoundTrip`, `ShapeOrNothing`, `TensorIsFilled`, `NarrowedIsNotSent` | holds |
| `CodecByteOrder` | the same | `WireIsBigEndian` | violated |

### What the violations are

* `NetworkSharedMessage`: two workers of `StepTaken` write their ids into one message; the second
  id goes out twice, and nobody wakes the first worker's waiter. Both waits of 15 seconds run out.
  The timeout of `SendOpWait` ends the wait but not the call: it returns only when the future it
  destroys is ready, which the first one never is.
* `TrainingLateJoin`: `EvaluateWithGradient` connects new clients and gives them
  columns of data they have never been sent.
* `SocketIdle`: after five seconds without a byte, the next bytes are lost. A
  client that waits for the next batch for more than five seconds is in this
  state.
* `HandshakeEnds`: the `ConnectInfo` of both ends take longer than five seconds. Both receivers
  have given up their reads by then, the messages lose their beginnings, and each end stays in the
  destructor of its future: neither has a verdict, and the server never gets to its other machines.
* `CodecByteOrder`: the loop swaps every pair twice. `NothingIsReversed` and `WireHoldsNativeBytes`
  (section 4) say what the wire has instead.

### Variations

The same configurations show more when constants are changed; these variations are not among the
runs.

`HandshakeEnds` holds with `Surprises = {}` and `{"slowReceiver"}`. Each of these alone violates it:

* `"slowAcceptor"`: the server is refused at the second port, and the client stays in `join`.
* `"slowCallback"`: a `ConnectInfo` that finds no callback is dropped, and the destructor of the
  future blocks `Connect`.
* `"slowInfo"`: the trace above.
* `"stranger"`: `AcceptFrom` closes its acceptor after each connection; the server that waits behind
  a stranger is reset, and `SocketRecieve` clears the error and reads again.
* `"portTaken"`: the exception in `acceptThread` ends the client, and the server's connection is reset.

With a configuration file of `MCHandshake`'s `Files` in which an id does not parse, or does not fit
`id_t`, a machine is under another id. The server connects to it, and its answer is looked up
under its own: `HandshakeEnds` is violated without any surprise.

In `Network`:

* A registration that falls between the `remove_if` and the `erase` of the receiver, or on another
  registration, takes away a callback that has not returned true, and its waiter is never notified.
  `OnlyRacesLoseCallbacks` and `RegisteredCallReturns` say that nothing else does this.
* With `MaxCopies = 2` a client handles one message twice. Its second answer finds no
  waiter (`AnswerIntegrity` and `ImplementsRemoteCall` hold with it); a second Function or data
  message is loaded again.
* With `MaxId > IdModulus`, the counter of 64 bits outgrows the header of 32: `ResponseNamesRequest`
  is violated.
* Without `PeerFairness`, a peer that never answers, `TimedCallReturns` is violated by a single call.

In `Training`:

* Strike out `WaitsInVain` in `OnlyLostCallsKeepTrain`, and it is violated with two early
  clients: the Function message comes before its handler and is dropped; the worker waits for
  ever, and so does `Train`. Until then the SafeRef stays locked, so that the worker of the
  other client never sends.
* `EvaluatedOnCurrentModel` is violated in `TrainingTwice` with `LoadOutcomes = {"ok", "failed"}`.

In `Socket`, `FramesIntact` is violated in `SocketIdle` with `Slow = {"write"}` too. With
`Exits = {"sender"}` the receiver reaches "spinning" and never leaves it, although
`network.hpp:55` says that it receives until the connection is broken.

A client whose verdict is "mismatch" or "late" stays connected and is used:
`config_hash.hpp:2-3` says that incompatible configurations are not used with each other.

`Codec` accepts what `RoundTrip` says nothing about, messages that were cut: a tensor
whose elements are missing at the end is accepted with zeros in their place; a `ConnectInfo`
that ends after the header is accepted with the receiver's own hash; only the
shape is safe (`ShapeOrNothing`). Input dimensions of 2^16 and more are cut to 16 bits and
sent.

### Bounds, and why they are enough

Two threads are enough for every race in `Network`, because each involves one pair of
accesses (header and header, registration and erasure, registration and
registration), and with two copies of a frame the answers of one call meet those of the other.
`IdModulus` is as large as the ids the calls draw, so that none wraps. Two clients are the least with an uneven split and one that
is late; two batches of three columns and one make both a remainder and an empty
chunk. Two `Train` calls are the least where stale data can be used. Frames of
3 and 5 bytes with a prefix of 2 split a prefix, a payload and both, and the
connection is smaller than a frame. The theorems of section 4 hold for all values; for what they state
the bounds show that the model does something, and that its mutants fail.

Two clients let the server be kept by one while the other waits, and one of them may never
start; the second round meets what the first left behind, and two attempts are the
least for a retry. The five files have all ids; a gap, with an id that does not parse
and lands in the gap, on the server or past the end; a missing server and a port
that does not parse; a number that is cut down to an id (`IdSpan` is 4 for 2^32); a malformed line. One string of the hash stays inside its
bounds, the other one does not. In `Codec` bytes have two values, so that an integer
of 4 bytes ends at 16: a dimension of 16 does not fit, and neither do four
dimensions into 2 bytes. Tensors have one, two and three dimensions, elements of
one and of two bytes.

The bounds are `MaxId`, `MaxCopies`, `MaxTrains`, `MaxEvaluations`, `MaxShuffles`, `MaxTimeouts`,
`Capacity` and `MaxRounds`; `Retries` is the parameter of `Socket::Connect`.

`CHECK_DEADLOCK FALSE` is set wherever the program may stop: no thread starts
another call, `Train` has returned, the processes have exited, the server is through its
rounds, a message has been read. `BatchSplit`, whose
loop starts over, is checked for deadlock.

### Fairness

Threads are scheduled, so the steps of a thread inside a call are weakly fair, and so
is what its receiver does. `PeerFairness` (clients read and answer) is separate, to make
clear that `TimedCallReturns` is violated although all peers answer. No fairness makes an application start a
call, a `Train` or a client, a wait time out, a connection lose its step, a call be lost, or a process exit. In `Training` the
main thread, the workers and the handlers of clients are weakly fair; the
optimizer is in the main thread and ends after its bounded evaluations, as
optimizers do after their epochs. `EvaluatedOnCurrentModel` in
`TrainingTwice` assumes `PromptHandlers` and loads that succeed, which the code does not
enforce; `TrainingLate` drops both. The only liveness that passes is what holds
whatever the code's failures do: `RegisteredCallReturns` names those that end a call's hope (a race, a
lost step), `FramesArrive` those that end a frame's, and `OnlyLostCallsKeepTrain` the worker that
waits in vain.

In `Handshake` the server's thread, each client's thread in `Listen`, its `acceptThread`, and the
caller and the receiver of each exchange are weakly fair. Nothing makes an
application start a client, a stranger call, a port be taken, a read or a wait run out of time. The
violating runs need this fairness, or their counterexamples would be threads that just stop.

## 4. Theorems

A theorem holds for every value of the constants its module admits: any number of threads,
peers, clients and frames, any configuration file, any batch, any messages. `IdsFit` (`MaxId <= IdModulus`)
says that no call draws an id of 2^32 or more.

| Theorem | States | Assumes |
|---|---|---|
| **`NetworkProofs`** | | |
| `TypeCorrect` | `Spec => []TypeOK` | - |
| `AnswersReachTheirCallers` | `[]AnswerIntegrity` | `"shared" \notin Sharings`, `IdsFit` |
| `ResponsesNameTheirRequests` | `[]ResponseNamesRequest` | the same |
| `SharedMessagesAreStable` | `[]SharedMessageIsStable` | the same |
| **`RemoteCallProofs`** | | |
| `NoCallbackOutlivesItsCall` | `[]NoDanglingCallback` | - |
| `ErasureSparesWaiters` | `OnlyRacesLoseCallbacks` | - |
| `SendOpWaitKeepsItsContract` | `ImplementsRemoteCall` | `"shared" \notin Sharings`, `IdsFit` |
| `RegisteredCallsAreInFlight` | `[]RegisteredCallIsInFlight` | `"shared" \notin Sharings`, `IdsFit` |
| **`TrainingProofs`** | | |
| `TrainingTypeCorrect` | `[]TypeOK` | - |
| `PhasesAreSeparate` | `[]PhasesDoNotOverlap` | - |
| `EveryColumnCountsOnce` | `[]BatchCountedOnce` | - |
| `GradientsAreCurrent` | `[]EvaluatedOnCurrentModel` | `AllReady` |
| `OrdersAgree` | `[]ShuffleAgreement` | `AllReady` |
| **`SocketProofs`** | | |
| `SocketTypeCorrect` | `[]TypeOK` | - |
| `PrefixIsThere` | a message is complete only if its prefix was read | - |
| `OneMessageAtATime` | `[]FramesNotInterleaved` | - |
| `FramesArriveIntact` | `[]IntactUntilTimeout` | - |
| `ReadsStayInTheFrame` | `[]NoOvershoot` | - |
| `NoByteIsForgotten` | `[]AllBytesAccounted` | - |
| **`ConnectionProofs`** | | |
| `HandshakeTypeCorrect` | `[]TypeOK` | - |
| `EveryIdHasItsSocket` | `[]IdsHaveSockets` | - |
| `NoMachineIsLeftOut` | `[]EveryMachineIsTried` | - |
| `BothEndsAreThere` | `[]NobodyTalksToItself` | - |
| `VerdictsNeverDisagree` | `[]VerdictsAgree` | - |
| **`CodecProofs`** | | |
| `CodecTypeCorrect` | `[]TypeOK` | - |
| `WholeMessagesRoundTrip` | `[]RoundTrip` | - |
| `WireHoldsNativeBytes` | what arrives whole has the bytes of memory, scalar by scalar | - |
| `NarrowedShapesAreNotSent` | `[]NarrowedIsNotSent` | - |
| `ShapesStay` | `[]ShapeOrNothing` | - |
| `TensorsAreFilled` | `[]TensorIsFilled` | - |
| **`BatchSplitProofs`** | | |
| `SplitTypeCorrect`, `BatchIsUsedUp`, `ChunksArePartition`, `BatchIsBalanced` | `TypeOK`, `BatchUsedUp`, `ChunksAreAdjacent`, `ChunksAreBalanced` | - |
| `NobodyIsIdle` | no chunk is empty unless there are fewer columns than clients | - |
| **`EndianProofs`** | | |
| `RoundTrips`, `NothingIsReversed` | the loop gives back what it was given; on the wire the bytes are native | - |

The assumptions are what the violations and variations of section 3 are about:
`"shared"` is `NetworkSharedMessage`; a larger `MaxId` is a wrapped id; `AllReady`
(`EarlyClients = Clients`, `PromptHandlers`, `LoadOutcomes = {"ok"}`) excludes `TrainingLateJoin`
and the loads that fail. `TrainingTwice` satisfies `AllReady`, and `NetworkCalls` the first two. No
theorem of `RemoteCallProofs` or `NetworkProofs` restricts the outcomes of the
race, the copies of a frame or the connections that lose their step.

Where a proof needs it, the modules say of their constants what the program gives: `Clients`
is finite, `DataKinds` is a sequence of tensors (`Training`), there is a sender (`Socket`), sizes are at
least one byte, a 32-bit integer is at most two of 16 bits, message types have different numbers (`Codec`).

### Calls: `NetworkProofs`, `RemoteCallProofs`

`AnswerIntegrity` is not inductive: a waiter is woken because a response carries its
id, so the argument has to follow the id from the counter to the wire and back.
`IInv` adds that an open call's id is below the bound (`IdsBounded`: it survives the
conversion to 32 bits), that nobody overwrites a header between its write and
its serialization (`HeaderKept`), for which the lock has to belong to the only
thread in a call (`LockHeld`, `WaiterFollowsCaller`), and that requests and responses
in flight name their own call (`StreamsNameCalls`). The race on the callbacks
cannot break any of this: a lost callback makes a call wait, it does not
give it a wrong answer.

`SendOpWaitKeepsItsContract` and `RegisteredCallIsInFlight` need an invariant about where a call
can be: not drawn, drawn and in no stream (`UnsentIsNowhere`), or sent, perhaps in copies. It does not depend on what
the id on the wire is. The refinement adds what the abstract `Finish` asks for: an answer in a
stream, or in the hands of a waiter, is of a call that has been executed
(`AnswersWereHandled`), and a request in a stream that has not been executed is of a caller that still waits for it
(`RequestsAreAwaited`); one that has may be a copy nobody waits for. Each step is then shown to be a step of
`RemoteCall` or a stutter: the execution of a copy is one.

`RegisteredCallIsInFlight` is the safety half of "calls return"; the other half is fairness and stays with
TLC. `OnlyRacesLoseCallbacks` is a property of steps. What is being erased belongs to waiters that are done
(`FiredAreOld`), ids that are drawn later are larger, and so only a registration is left as the step that takes the
callback of a waiter away; one that does not race leaves all there is.

### Training: `TrainingProofs`

`BatchCountedOnce` needs two things: that the chunks of the clients divide the batch, and that each
is counted when its client answers, and never again.

* The chunks are defined by recursion over the clients. `LeastElement`, which is the library's
  well-foundedness of `<` on the naturals, makes induction over data available: the
  recursion defines a function since there is no least number of clients for which it does
  not (`SplitExists`); what is left never grows, and is nothing in the end (`SplitFacts`);
  every rank below the number of clients is the rank of one client (`RanksNumberClients`), so every
  column falls into exactly one chunk (`ChunksDivideTheBatch`).
* `IInv` has three parts besides the types. `PhaseWork`: workers make only the calls of the
  phase. `Exchange`: of what a client has been sent, only the last message can wait for an
  answer, it is the call its worker is in, and there is at most one answer. With an empty `work`
  this says that nothing is under way, which is `PhasesDoNotOverlap`. `Gathering`: while a batch
  is gathered, requests and answers carry the chunk of their client, and the columns counted
  are those of the clients that have answered.

`EvaluatedOnCurrentModel` follows from `Current`: a client has what the calls it has handled in this Train
have sent it. What it has not handled is `Pending`; so, while the server is in `SendData`, those kinds that
are not pending are staged, and whether they are staged or loaded is whether an evaluation has been
handled (`HasLoaded`). `ShuffleAgreement` needs more than the counters of the clients, since
a client may be behind with its Shuffle messages: `Shuffles` adds to the shuffles a client has made those in
its queue and those its worker has not sent. This sum is the same for all clients
(`Agreement`), and when a client evaluates, its queue is empty, since the request came last.

### Streams: `SocketProofs`

The bytes under way, in the buffer and in the stream, are a stretch of the frames back to back,
in the order in which threads got the mutex (`Contiguous`); as long as nothing times out, it
begins where the next byte is to be read (`StartsAt`) and ends where the next one is to be
written (`EndsAt`), and the buffer is the beginning of one frame (`BufferIsPrefix`). Together this is
`InStep`; `IntactUntilTimeout` and `NoOvershoot` follow. `OneMessageAtATime` does not depend on
time, so it has an invariant of its own (`OnTheWayInTurn`), which also holds when bytes get lost. Both rest on
`SendersTakeTurns`, the mutex.

### Connections: `ConnectionProofs`

The invariant of `NetworkConfig` says that the sockets made so far are those of the ids
0, 1, ... and that these ids are in the map; when there are as many sockets as keys,
there can be no other keys. `HandshakeKeepsConfig` carries it over: no step of `Handshake`
changes what the constructor has built. With it, the machines that the first pass has not tried
are those from `peer` on (`PassIsComplete`), so that it leaves none out. `NobodyTalksToItself` needs `EndsMeet`, which says when the
other end is attached. `VerdictsAgree` follows the hashes: each end is sent the hash of the
process at the other end (`HashesArrive`), and a verdict on the two is right (`VerdictsAreTrue`).

### Loops: `BatchSplitProofs`, `EndianProofs`

The invariant of `BatchSplit` says that the chunks so far are adjacent and that what
is left lies between the floor and the ceiling of an even share for those who are
left; that of `Endian` says which bytes the first `i` swaps have moved, and
that after all `n` swaps none has.

### Messages: `CodecProofs`

None of the six invariants is inductive: a scalar takes several steps, is written from one list and read by
rules that know only what has been read before. `IInv` has four parts.

* `Writing`: the buffer is `Prefix`, the bytes of the scalars written so far; once the last one has
  gone to offset 0, it is `Wire`, the bytes of the list `Sent` (`Overwritten`). `Formed` records that the
  checks of `Throw` have been passed.
* The loop: `InHand` is the scalar before the loop. `CodecProofs` instantiates `EndianProofs`, whose
  invariant `Halfway` says after how many swaps the bytes are where; after the last one they
  are back (`LoopEnds`).
* `Arrived`: what the reader has is the beginning of `Wire`.
* `Read`: either the reader is in step (`InStep`: its scalars are those of `Sent`, its position is their
  `Offset`), or the first scalar that was not there is `m` (`CutAt`). `ReaderFollows` carries the first
  case: after any beginning of `Sent`, `Width` is the size of the next scalar. In the second case
  the bytes left are fewer than scalar `m` needs. Before the number of dimensions is read, they are also fewer than
  a 16-bit integer, so this number stays 0; this is what `W32 <= 2 * W16` is for. A dimension
  that is missing is 0.

`RoundTrip` then needs that nothing but `InStep` is possible when all bytes have arrived, and that the
characters of the tensor give the elements back: `ValueOfBytes` shows that `Value` inverts `BytesOf`, digit by
digit. `ShapeOrNothing` and `TensorIsFilled` are three cases (`AcceptedTensor`): the shape was
complete; a dimension is 0, so that the product is (`ZeroProduct`) and no character is read; or the
number of dimensions is 0, and `GetTensor` returns nothing. `NarrowedIsNotSent` compares two products with the same
number of factors: if one factor is smaller, no other larger, and none 0, the product is smaller (`SmallerProduct`). The
check of the code is right because a shape is never cut without this.

`Power`, `Value`, `Product` and `Concat` are recursive functions. `LeastElement`, as in `TrainingProofs`, gives
`Induction` over the positions of a sequence and `Recursion`, which says that such a function exists;
`PowerFacts`, `ProductFacts`, `ValueFacts` and `PrefixFacts` are its four uses.

### Only model-checked

All liveness: `RegisteredCallReturns`, `OnlyLostCallsKeepTrain` and `FramesArrive`. The proof system has no support for `ENABLED`, on which fairness depends. All
safety properties of the passing runs have a theorem. What the violating runs show are counterexamples, which need no proof.

## 5. Not modelled, and the plan

Not modelled: `Disconnect` (it would be called only after an error that `SocketRecieve` and
`SocketSend` clear), `Listen`'s early return when the port cannot be sent (for the
same reason), the static maps behind `Network::Get` and `RemoteClient::Get` (inserting from
two threads is undefined behaviour; a program has one), logging, numerical
content of tensors, compile-time selection, and the libraries mlpack, ensmallen, asio
and cereal. Bytes that are cut are modelled, bytes that are changed are not:
`Socket` can put bytes of two messages together after a timeout, and what `Codec` would
read from such a mixture depends on the values.

The order of work, most important first:

1. `Network`, `RemoteCall`, and their proofs; `Training`; `BatchSplit`; `Socket`; `Endian`
   (done).
2. `NetworkConfig`, `Handshake` and the proof about sockets; `Codec` (done).
3. Proofs of the safety of `Network` and its refinement of `RemoteCall`, of `Training`, `Socket` and `Handshake`
   (done).
4. Proofs about `Codec` (done).
5. What is left: a version of `Codec` in which bytes of two messages are put together, as `Socket` can do after a
   timeout.
