# TLA+ verification of the Exasol Gateway SDK

This directory models the SDK's core in TLA+, checks it with TLC on small
instances, and proves the results that matter most with TLAPS for every value of
the constants. `PROJECT.json` is the index: components, runs, the line of source
each definition stands for, hazards, findings and theorems.

## 1. The system

The SDK lets a database adapter talk to an Exasol server over one WebSocket
connection. One thread drives a `Session`, several threads may each drive their
own; there are no callbacks, no threads of the SDK's own and nothing persistent.
What is hard is on the connection: a call may
have been executed although it failed, bytes may be left over, the server keeps
state (cursors, operations, an open transaction) that the client only knows by
ids, and both sides decode each other's batches by offsets.

| Component | State | Operations | Talks to |
|---|---|---|---|
| Request/response core, `session.cpp` `Impl::request` | `nextRequestId_`, `closed_`, the connection | number, send, wait for one reply, classify | frame codec, WebSocket |
| Cursors and operations, `session.cpp` | `Cursor::id`, `TableOperation::id` in the application's objects | open, fetch, write, close, commit, rollback | the core |
| Connecting, `websocket.cpp` + `Session::connect` + `c_api.cpp` | `fd_`, `ssl_`, `sslContext_`, the error slot | TCP, TLS, upgrade, login, Hello, move, close | socket, OpenSSL |
| WebSocket, `websocket.cpp` | the stream, `webSocketFrameBuffer_` | send a frame, receive a message | socket, OpenSSL |
| Frame codec, `frame.cpp` | none | encode and decode the 24-byte header | - |
| Native write batch, `native_write_batch.cpp` | the output buffer, offsets, counters | begin, append a column, finish | the caller's buffer, write calls |
| Native read batch, `session.cpp` + `c_api.cpp` | the received bytes, an index of them | validate by schema, index by kind, access | fetch calls |
| C ABI, `c_api.cpp` | heap handles, thread-local last error | one entry point per method | `Session` |
| Capabilities, errors, client | none (tables) | lookups | - |
| Simulation client, `tools/` | one command's script | seven commands | WebSocket, without `Session` |

**What makes each correct.** *Core*: success means the server executed this very
request; a definite failure of a completion means it did not; a write seen to
fail is never committed later; every call returns; a destroyed session lets go - and
where a write was cut off, which the code does not recover from, at least nothing
that follows is taken for a success.
*Handles*: what the server has open is in some handle, a handle is stale only
after the application saw a failure or ended a transaction, rows come in order.
*Connecting*: whatever step fails, everything acquired is given back once, nobody
else's descriptor is closed, and nothing sent behind the upgrade is lost.
*WebSocket*: messages are the stream's data frames, whole, bounded, in order, and
pings are answered; the peer reads exactly what was sent. *Write batch*: a finished batch is what its reader computes
from its header, aligned in every request. *Read batch*: nothing reads past the
end, and both readers agree. *Simulation client*: status 0 means what the options ask.

**Hard behaviours.** A reply lost after the server executed the request; a write
cut off half way; damaged, late and duplicated replies; descriptor numbers that
other threads reuse at once; lengths cut to an `int`; a failure while decoding
what the server already counts as delivered; control frames inside fragmented
messages; alignment and 64-bit sums in batches; an option or an exception in the
middle of a batch loop. There is no timeout and no retry inside the SDK: the
application retries, which is why the classification of failures matters.

## 2. Modules

| Module | Models | Kind |
|---|---|---|
| `SessionRpc` | core, connection, network, the server's transaction | state machine, safety and liveness |
| `SessionContract` | what a session promises an application | abstract specification |
| `SessionRpcRefinement` | `SessionRpc` implements `SessionContract` | refinement mapping |
| `SessionRpcInvariant`, `SessionRpcProof` | inductive invariants, the theorems, the refinement step by step | proofs |
| `SessionHandles` | cursors, operations, the session's end | state machine |
| `SessionConnect` | connecting, the connection objects, the error slot, by several threads | state machine, safety and liveness |
| `WebSocketReceive` | `receiveBinary`, `receiveText`, `receiveFrame` | state machine |
| `FrameTransport` | `send*`, `transportWrite`, `encodeFrame`, `decodeFrame` | state machine with the reader at the other end |
| `NativeWriteBatch` | the builder and its requests | state machine |
| `NativeReadBatch` | `validateNativeBatch`, `indexNativeBatch`, accessors | two readers of one byte string |
| `SimClient` | the command line client and its server | state machine, safety and liveness |
| `SessionHandlesProof`, `SessionConnectProof`, `WebSocketReceiveProof`, `FrameTransportProof`, `NativeWriteBatchProof`, `NativeReadBatchProof`, `SimClientProof` | the theorems of the module each is named for | proofs |
| `MC*` | small instances | model checking |

Operators marked *Mutant* next to a definition are that definition with a
plausible bug; substituting one breaks the property named for it in
`PROJECT.json`. No specification uses them.

### How model and code correspond

**SessionRpc.** `Send`, `SendFails`, `SendIsCutShort` are the outcomes of
`sendFrame`: the frame is written, nothing is written, a part is written and the
connection stays open (`transportWrite` throws without closing). What is written in
part is `rest`, an unfinished frame whose announced length is outstanding: a server
that obeys its header takes what is written next for the rest of it (`Follow`). The
later bytes are too few and it goes on waiting; or they complete the frame, to the
last byte or with some left over, and it reads the *earlier* request, under the
earlier id; or the cut was within the SGW1 header, and what results is junk. The later
request itself is not read in any of these. `cut` records whose writes were cut off.
`Receive` and
`ReceiveFails` are `receiveFrame(id)`; `Verdict` is what `request()` returns or
throws on a reply and `Failure` its `catch`. The connection breaks where the code
calls `close()`: undecodable bytes, another request's id, a failed read. `Destroy`
and the close call after it are `~Session`, one call that nothing can interleave.
The server executes requests in order, stages writes, commits on `commit` or on
`closeOperation` under autocommit, and rolls back when the connection ends; the
network cuts the connection, damages and duplicates. These are external and take
what the integration test relies on. Payload bytes are left out. `heard` records
whether the reply a call ended with was its own, another call's or damaged, which the
properties need to say where the code can be trusted.

**SessionContract.** Each call is undecided, executed or void at the server and
the caller is told ok, failed, unknown, cut (the request was sent in part) or garbled;
the contract says which pairs are allowed and what a commit owes. A call that failed
at once because it was sent in part may still be executed, and a write of that kind
may become durable if a later request was sent in part as well. `FateOf` reads the
fate off the server, the bytes in flight and the unfinished frame, `ToldOf` what the
caller was told off the call's outcome.

**SessionHandles.** A call is one step with one of six ends (ok, executed but not
decoded, refused, unsent, lost before, lost after); `SessionRpc` justifies this:
a call that is answered is answered by its own reply. Calls the SDK refuses before
sending are stutters. The server invalidates cursors and operations as
`docs/protocol_v1.md` (Session State and Cleanup) has it. Closing an operation commits
in autocommit mode; the document tells clients to discard their cursors at every
transaction boundary and does not say whether this one ends them at the server, so
`EndsAtServer` leaves it open.

**SessionConnect.** Each thread's call is a sequence of the code's steps, from
`getaddrinfo` to `*out`, with a failure possible at each; an exception is `Unwind`,
the destructors of what there is and then `protect`. A `WebSocketConnection` is a
record of its three handles; `connectAndLogin`'s result and the one inside
`Session::Impl` are two such objects, and the move between them is a step. The
kernel gives out the lowest free descriptor number, so a number closed by one
thread is soon another's. `Report` is what `protect` leaves in the thread-local
slot. A thread has one session at a time, and messages in the stream are only
counted: pings and fragments between them are `WebSocketReceive`'s.

**FrameTransport.** The four senders build a frame as the code does, the payload
masked from index 0, a SessionGW header and its payload as one; `WriteSome` is a
turn of `transportWrite`'s loop, `AsInt` its cast for `SSL_write`. After
`WriteFails` nothing more is sent (what a caller may then do is `SessionRpc`'s).
`Read` is the stream's reader by `receiveBinary`'s rules, as an operator and not a
state machine, and `Receive` is `decodeFrame` on whole and damaged frames.

**WebSocketReceive.** One action per kind of frame; `Call` is the start of a
receive, where `receiveBinary`'s locals are fresh. A payload is the position of
its frame in the stream, so that a message can be compared with what was sent.
The size limit and the control frame limit are constants.

**NativeWriteBatch.** The buffer is its length and the layout of the columns
written to it. `RequestOffsets` places the batch behind the payload fields as
`nativePayload` and `updateRows` do, and the simulation client's way is
`StartPayload`. `begin` on an unfinished batch and appends after `finish` are
there, as are buffers that hold bytes already.

**NativeReadBatch.** The bytes are chosen when first read and kept on a tape; the
second walk reads the tape at its own offsets and, where the first walk read no
field of four bytes, anything. So an index that drifted would read garbage and
not the right field by luck. 2^64 is a constant, so the sum of sizes can wrap.

**SimClient.** A command is the script of its requests. `Parse` is the command
line with the rules of the parse functions, `Receive` the check each reply gets
(`Unchecked` lists the replies whose type is not looked at), `Fail` any exception.
`Asked` is what the options of a command ask for, for every write command alike;
`Heeded` tells where the program acts on them, which `updateRows` does not.

## 3. Runs

| Run | Question | Bounds |
|---|---|---|
| `SessionRpcSafety` | does what the caller is told agree with the server, and with what becomes durable | 3 calls and the destructor's, 2 unread replies, all kinds of call but reads and autocommit changes, one category of each class the classification tells apart |
| `SessionRpcContract` | refinement of the contract; does every call return, and does a destroyed session let go, where no write was cut off | 2 calls and the destructor's, every kind and damage, two categories on the wire: the one the SDK treats specially and one off the wire's range |
| `SessionRpcUnvalidatedCompletion`, `SessionRpcUnknownKeepsOpen` | two statements of the documents the code does not keep | 2 calls and the destructor's |
| `SessionConnect` | is all given back once, is nothing swallowed or mixed up between threads, does every call return | 2 threads, one with TLS and one that also calls `sessiongw_c_execute_sql`, 2 descriptors, 2 addresses, 2 connection attempts, 5 messages |
| `SessionHandles` | handles against the server's state, rows in order | 2 cursors, 1 operation, 2 opens, 3 rows |
| `WebSocketReceive` | delivery, framing, size, pings | 4 frames of any opcode and flags, sizes around both limits |
| `WebSocketFragmented` | a statement of the protocol document the code does not keep | the same |
| `FrameTransport` | does the peer read exactly what was sent; does `decodeFrame` take exactly the whole frames | 2 messages of 13 sizes, bytes of 16 values, length forms up to 9, 12 and 255, `int` of 5 bits, a write of any length |
| `NativeWriteBatch` | layout and alignment | up to 3 rows and 2 columns, widths 1 and 16, buffers empty and not aligned |
| `NativeReadBatch` | two readers agree, nothing wraps or overreads | up to 2 columns and 2 rows of 6 schemas over every column type, every length to 122 bytes, 2^64 taken as 256 |
| `SimClient` | status, durability, termination | up to 3 rows, every batch size below 2^3 |

**Why the bounds are enough.** In `SessionRpc` every property relates one call to
at most one earlier write and to what lies on the connection; a write, a call
between, a commit and the destructor is the longest story a violation needs - two
writes that are cut off and a completion behind them among these - and
two unread replies are one duplicate behind one reply. In `WebSocketReceive` four
frames hold a message in two fragments with a control frame between and a second
message behind. In `NativeReadBatch` the second column is the one that an error in
the first column's extent displaces, and 122 bytes is one string column and the
widest decimal column of two rows. In `SimClient` three rows have a first, a
middle and a last batch; larger batches than rows, and zero, are included. In
`SessionConnect` two threads are enough for one to take the descriptor number the
other gave back, two attempts let a thread connect again after any failure, two
header bytes stand for 16 KiB (the limit is met, passed and not reached), and five
messages are one more than any call waits for. In `FrameTransport` the sizes lie on
both sides of every length form, of the largest frame and of the largest `int`, and
two messages show that the second starts where the first ended; masks are of all-one
and all-zero bytes, so that each byte tells which of the mask's bytes it met.

**Deadlock** is not checked where the thing modelled ends: a destroyed session, a
broken connection, a failed write, an application that is done, a finished fetch.
`NativeWriteBatch` and `SimClient` check it.

**Fairness.** `SessionRpc`: the calling thread runs; a server that is up answers
whole frames or notices the close; a destructor goes on. The code has no timeout, so
without the server's part a call may wait for ever, and `CallsReturn` says no more than
that the client adds no waiting of its own. Nothing is owed by a server that waits for
the rest of a frame: behind a write that was cut off it waits for the client and the
client, in its next call or in `~Session`, for it, until the connection breaks. So
`CallsReturn` and `DestroyedSessionReleases` are stated for sessions in which no write
was cut off; without that condition TLC finds the wait. Nothing is assumed of the network,
which may or may not break. `SessionHandles`: a server notices that its client
closed the socket. `SessionConnect`: a thread in a call is scheduled, and its peer
sends something or leaves; `ConnectReturns` then says that neither endless header
bytes nor unasked messages hold the thread. That the peer does not ping for ever is
assumed by leaving pings out. `SimClient`: the process runs, the server answers, and the end
of a connection is noticed.

### What the runs show

All passing runs find no error. The three violation runs show where documents and
code differ (`findings`):

1. A completion whose reply came but could not be validated (undecodable, other
   id, other type) fails with `PROTOCOL_ERROR` or `RESOURCE_LIMIT`, where
   `docs/protocol_v1.md` asks for `OUTCOME_UNKNOWN`.
2. A completion whose write failed is reported `OUTCOME_UNKNOWN` with the
   connection still open, where `docs/sdk.md` says it is closed. If the write was cut
   off, the next call and `~Session` (which sends Close and waits before it closes the
   socket) can block for ever, and the server may execute the failed call when later
   bytes complete its frame.
3. Fragmented carrier messages are accepted, where `docs/protocol_v1.md` has them
   refused.

The passing properties are stated around these. What one cut-off write does:
no call behind it succeeds (`SuccessIsServed`), only the call that was cut off can be
executed late (`OnlyTheWaitingCallIsServed`), and a completion behind it is never
executed at all. After two cut-off writes - the second completing the frame of the
first - a later completion may be read and executed while its caller is told of another
call's reply, and the first of two cut-off table writes may become durable.
`DefiniteFailureNotApplied` and `FailedWriteNeverDurable` exclude these two cases and
calls that heard a damaged reply, and nothing else. A server's own Error of category `TRANSPORT_ERROR` is reported as
`OUTCOME_UNKNOWN` too; `SessionContract` lets a caller be told less than is known.
`KeptAsAsked` holds for `insert` whatever the server answers, and for `delete` and
`update`, which do not look at every reply's type, while the server answers with the
right types. `update` accepts `--autocommit`, `--commit` and `--rollback` - its parser is
`insert`'s - and sends none of them: with `--autocommit false` and no `--commit` it ends
with status 0 and all rows kept. `KeptAsAsked` says so; no text of the program offers
`update` these options, so this is no finding. `HeldByItsConnection` allows one leak, which the code has: the public
key and its context stay behind when `encryptPasswordForWebSocketLogin` fails at the
encryption itself. A second one, the BIO chain of `base64Encode` when its own write
fails, is inside OpenSSL's part and not modelled. `PeerReadsWhatWasSent` holds for frames beyond an `int` on the TLS
path because their write fails part way and is reported, never because it succeeds.

## 4. Proofs

Every safety property a passing run checks - the invariants, the action property
and the refinement - is also a theorem, `Spec => []P`, for every value of the
constants.

| Proof module | Theorems and the properties they state |
|---|---|
| `SessionRpcProof` | `TypeCorrect` (`TypeOK`), `InvariantHolds` (`IInv`), `SuccessImpliesServed` (`SuccessIsServed`), `DefiniteFailureIsFinal` (`DefiniteFailureNotApplied`), `FailedWriteIsNotCommitted` (`FailedWriteNeverDurable`), `ConnectionIsInStep` (`NoReplyLeftBetweenCalls`), `ServedInStep` (`OnlyTheWaitingCallIsServed`), `TransactionHolds` (`ContractInv`), `AcknowledgedWritesAreCommitted` (`AcknowledgedWritesCommitted`), `SessionKeepsContract` (`KeepsContract`) |
| `SessionHandlesProof` | `TypeCorrect`, `HandlesHold`, `NothingIsLeftBehind` (`NothingLeftBehind`), `HandlesAreGood` (`StaleOnlyAfterFailure`), `RowsComeInOrder` (`RowsInOrder`) |
| `SessionConnectProof` | `ConnectHolds` (`ConnectInv`), `TypeCorrect`, `ThreadsHoldWhatTheirObjectsDo` (`HeldByItsConnection`), `AnswersComeInOrder` (`AnswersInOrder`), `SlotIsOwn` (`SlotIsTheThreadsOwn`) |
| `WebSocketReceiveProof` | `ReceiveHolds` (`ReceiveInv`), `TypeCorrect`, `StreamIsDelivered` (`DeliversTheStream`), `MessagesAreWellFramed` (`MessagesAreFramed`), `SizeIsBounded` (`SizeBounded`), `PingsAreAnswered` (`PingsAnswered`) |
| `FrameTransportProof` | `TransportHolds` (`TransportInv`), `TypeCorrect`, `PeerReadsMessages` (`PeerReadsWhatWasSent`), `OnlyWholeFramesAccepted` (`AcceptsOnlyWholeFrames`) |
| `NativeWriteBatchProof` | `TypeAndInvariant`, `ColumnsAreInOrder` (`ColumnsInOrder`), `RequestsAreAligned` (`WireAligned`), `FinishedBatchesAreReadable` (`ReadableBatch`) |
| `NativeReadBatchProof` | `BatchHolds` (`BatchInv`), `TypeCorrect`, `IndexReadsWhatWasValidated` (`IndexIsWhatWasValidated`), `VectorsMatchRows` (`ViewsMatchRows`), `TextFillsItsVector` (`StringsFillTheirData`) |
| `SimClientProof` | `SimHolds` (`SimInv`), `TypeCorrect`, `RowsAreKeptTogether` (`AllOrNothing`), `RowsAreKeptAsAsked` (`KeptAsAsked`) |

Each inductive invariant was checked by TLC over the bounds of the module's run
before it was proved.

**Assumptions** are those named in the modules: constants are naturals, sets of
naturals and subsets of the known kinds. Those that say more:

- `FrameTransport`: bytes have more than ten values, so that the opcodes and the
  7 bytes of a header fit; the length forms are in order, below the width of a
  byte; and a payload that is sent has a size the longest length form can hold
  (a `size_t` in its eight bytes).
- `SimClient`: twice the number of rows is at most 2^64. Rows are arguments of the
  process; the sum of a position and a batch size can then not wrap unnoticed.
- `WebSocketReceive`: a control frame may not be larger than a message.
- `SessionConnect`: descriptors are positive numbers, and the value that stands for
  none is not a thread.
- `NativeReadBatch`: the sizes of strings are below 2^64, which is a constant and
  need not be a power of two.

### The arguments

**SessionRpc.** None of the safety properties is inductive. `SuccessIsServed`
could be lost if a reply to an earlier request could lie on the connection when a
later one is awaited; that it cannot follows from both directions of the
connection being in step as long as no write was cut off, and from their being out of
step for good afterwards. The parts of `IInv`: `NumberingInv` (ids are given in
order and the waiting call is the last), `RequestInv` (requests on their way are in the
order of their calls and not executed, and all but the last were written in part),
`ReplyInv` (a success can only be read of a call the server executed), `InStepInv`
(no write cut off: the server's own reply is on its way only to the call that waits,
once, and says what the server did), `OutOfStepInv` (a write cut off: before the reply
to the waiting call comes one to another call, which makes `receiveFrame` close the
connection, and between calls the server has something left to read or to wait for),
`CutOnceInv` (one write cut off: the calls behind it only complete it),
`SuccessIsServed`, and `OutcomeInv` (a completion that failed is neither executed nor
on its way; a write that failed is staged, if at all, where nothing can commit it).
The proof has one lemma per action and per part.

`AcknowledgedWritesCommitted` looks back over all calls since a write. `ContractInv`
therefore keeps, for every moment a commit could be executed, which writes the
caller counts on, and that a server that still has the session holds them: for the
request on its way, for the next call, and for the call executed and not yet
answered (`CountedInv`). `BehindInv` is what makes this inductive: nothing
succeeds behind a request that is still on its way.

**SessionContract.** `SessionKeepsContract` shows that the mapped initial states are
the contract's and that every action is one of its steps or changes nothing it
sees: there is one lemma per action. It rests on both invariants: `IInv` for
the fate of a call being decided once, `ContractInv` for what a commit owes.

**SessionHandles.** `NothingLeftBehind` and `StaleOnlyAfterFailure` are inductive
together (`HandlesInv`): every id is at most `opened`, so a new one is nobody's, and as no two
handles share an id, closing one takes nothing from another. `RowsInOrder` is
inductive by itself.

**SessionConnect.** `ConnectInv` says of each thread, by its place in the call, which
of its two connection objects is in use (`PlaceInv`), how many answers it has had,
what its slot says, that the process's descriptors, contexts and keys are those its
objects point to (`HeldInv`, `KeyInv`), and which form the unread stream has: bytes,
the blank line, messages (`StreamInv`). A step of one thread keeps every part for
the others, because a descriptor has one holder.

**WebSocketReceive.** `ReceiveInv` relates the message in progress to the part of the
stream read since the last message was returned. Messages are lists of positions;
that such a list is all the data frames of a stretch of the stream, in order, is
`Enumerates`, and its extension by one frame is the lemma the proof rests on.

**FrameTransport.** `TransportInv`: some list of positions cuts the wire into the
frames of the messages sent, and behind them lies what is written of the
buffer. A frame is read by its own bytes, wherever it lies (`FrameMoved`); so a
beginning of one is none (`PartIsNoFrame`), and what lies in the stream stays there
(`LiesStill`). What the senders build is one frame with the payload that was masked
(`BuiltFrame`), for each length form, and the reader finds the frames one by
one (`ReadsChain`). That a write never takes more than is left follows from the
cast to `int` making no number larger.

**NativeWriteBatch.** The invariant says that the last column's end is the buffer's
size, that parts lie in order, and that the batch starts aligned when the payload
was. `ReadableBatch` adds that the reader, which knows only the header and the sizes,
is at the column's end after each column (`ReaderFollows`).

**NativeReadBatch.** `BatchInv` keeps, for each accepted column, at which offset of
the tape each of its fields was read (`ColumnOk`), where it starts, and that the
second walk has indexed a prefix of these columns and stands where the last of them
ended. So the index reads what validation read and can refuse nothing. That strings
fill their data needs the sums without wrapping: the first sum that wraps is refused.

**SimClient.** `SimInv`: what the server has pending or keeps follows from what is
left of the script (`PendingInv`, `AskedInv`), as each request comes once and in the
order `Rank` gives; the loop's position bounds the rows sent so far. `Kept` is what a
command that ends has kept; it is what was asked except where an update ignores it.

**Induction over data**, which the prover's theorems do not offer here, is done by the
least counterexample (`Least`): the sums in `WebSocketReceive` and both batches, and
the reader's function in `FrameTransport`, are recursive functions whose domains are
intervals, and a set of naturals that is not empty has a least element.

### Only model-checked

The liveness properties, which are beyond the prover: `CallsReturn`,
`DestroyedSessionReleases`, `DestroyedSessionIsForgotten`, `ConnectReturns` and
`EndsAndReleases`. The three violation runs refute a statement and prove nothing.

## 5. Not modelled

- What happens inside TLS and RSA belongs to OpenSSL: a call succeeds or fails.
- JSON and Arrow IPC: encodings without state. Decoding appears as succeeding or
  failing.
- Payload encoders and typed appends: they build the vectors the modelled calls
  get.
- The C ABI's null-pointer checks, string copies and Arrow table wrapper; statistics
  counters. OpenSSL's own error queue, from which messages are worded.
- Capabilities, error names, client: tables.

## 6. Plan

Done, in the order of importance: the request core with its contract and proofs,
the receive path, the write batch with proofs, the handles, the read batch, the
simulation client, connecting, the way out of the connection and its frames.

All safety properties of the runs are proved. What can still be proved are properties
the modules do not state yet:

1. `WebSocketReceive` and `FrameTransport` share the rules of the stream's frames; that
   the operator `Read` and the state machine agree is argued in comments only.
2. `SessionHandles` takes each call as one step because `SessionRpc` matches calls and
   replies; a refinement of one by the other would make this a theorem.
3. Abstract specifications of `SessionConnect` (a pool of descriptors) and `SimClient`
   (a transaction), with the modules shown to implement them.
