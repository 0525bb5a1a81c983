# A TLA+ model of kr/spdy

`kr/spdy` is a SPDY/3 implementation in Go: a framing layer (`spdyframing/`) with
sessions and streams, and an HTTP layer on top of it (`conn.go`, `server.go`,
`request.go`, `response.go`, `transfer.go`). This directory models the framer, the
concurrent core of the framing layer and the HTTP exchange above it, checks them with TLC on
small instances, and proves the main safety properties with TLAPS for every value
of the constants. `PROJECT.json` lists components, runs, source lines, hazards and
theorems; this file explains them.

## Inventory

| Component | State | Operations | What must hold |
|---|---|---|---|
| Send window, `semaphore.go` | `int32` counter, closed flag and error, condition variable | `Dec`, `Inc`, `Close` | never grants more than the peer allowed; a waiter that can return is woken; the first close error stays |
| Receive buffer, `buffer.go`, `pipe.go` | array, read and write index, closed flag and error, condition variable | `Read`, `Write`, `Close` | bytes come out in order, once; `io.EOF` only after all of them; a waiter that can return is woken |
| Session, `session.go` | table of streams, next id, last id received, initial window, closing flag, three mutexes | `Start`, `Open`, `read` and its handlers, `Wait` | closed streams leave the table and only they do; ids go out in order; the end of the session releases everybody |
| Stream, `session.go` | flags `rclosed`, `wclosed`, `wready`, window, pipe, reply channel | `Header`, `Reply`, `Read`, `Write`, `Close`, `Reset`, and the handlers of DATA and WINDOW_UPDATE | frames go out as one SYN, DATA, one FIN; no call blocks on a dead session |
| HTTP messages, `request.go`, `response.go`, `transfer.go` | none | header blocks from requests and responses and back, body length | lengths are carried truly; no body where HTTP has none |
| HTTP exchange, `conn.go`, `server.go`, `transfer.go` | per stream: `wroteHeader`, header, the upload goroutine, body readers | `RoundTrip`, `serveStream`, the `ResponseWriter`, `body.Read`, `body.Close` | a cut body is never taken for a whole one; `RoundTrip` returns |
| Framer, `read.go`, `write.go`, `types.go` | header buffer, the two zlib contexts | `ReadFrame`, `WriteFrame` | frames are read as they were written, in order, whoever wrote them and wherever the connection failed |
| Set-up, `server.go:1-56`; `dictionary.go`; `doc.go` | none | TLS and NPN configuration; a table | - |

How they interact: `Conn.RoundTrip` opens a stream, a goroutine uploads the
request body to it, and the caller reads the response body from it. Each stream is
therefore used by a writing and a reading goroutine at once, while the session's
single read goroutine applies incoming frames to the same stream. They share the
stream's flags (without a lock), its window and pipe (each with its own mutex and
condition variable), its reply channel, and the session's table (under `mu`).
Frames are written under `wmu`, one field at a time. The two ends of a stream
depend on each other through the transport: a writer waits for credit that the
other end's reader sends, and every frame waits for room. When the connection fails, the read goroutine
copies the table and closes every stream in the copy.

What is hard here: interleavings of these three goroutines with each other and with
the teardown; fixed-width arithmetic on the peer's numbers; `Signal` where
`Broadcast` would be the cautious choice; credit that both ends keep accounts of;
compression contexts that both ends must advance in step; and the end of a body seen through FIN,
an error, a reset or the loss of the connection. There are no timeouts, no retries
and nothing persistent. The list in `PROJECT.json` under `hazards` gives each
hazard, its line and the properties that cover it.

## Modules

| Module | Models | Extends / uses |
|---|---|---|
| `SendWindow` | what a send window promises (abstract) | |
| `Semaphore` | `semaphore.go` and its callers | implements `SendWindow` |
| `ByteQueue` | what the receive side promises (abstract) | |
| `Pipe` | `buffer.go`, `pipe.go` and their callers | implements `ByteQueue` |
| `Session` | `session.go`: one endpoint against any peer | uses the promises of the two above |
| `MCSession` | `Session` with the symmetry of its streams, for TLC | extends `Session` |
| `StreamFlow` | `session.go`: flow control of one stream, both of its ends, over a transport that may be full | uses the promises of window and pipe |
| `FrameCodec` | `read.go`, `write.go`, `types.go`: frames to bytes and back, as functions | |
| `Framer` | two framers joined by a connection; goroutines that share one of them | extends `FrameCodec` |
| `MCFramer` | the frames that are written, for TLC | extends `Framer` |
| `Message` | the functions of `request.go`, `response.go`, `transfer.go`, `response.framingHeader` | |
| `Exchange` | `conn.go`, `server.go`: one exchange, both endpoints | extends `Message`; uses the promises of streams |
| `MCExchange` | the requests that are made, for TLC | extends `Exchange` |
| `SemaphoreProofs`, `PipeProofs`, `SessionProofs`, `SessionTeardown`, `SessionWire`, `StreamFlowProofs`, `FramerProofs`, `ExchangeProofs` | theorems | extend the module they are about |

Definitions called a *variant* (`RCloseNoRemove`, `CloseNoSignal`, ...) are the
code with one defect each. No action uses them. They exist so that each property
can be seen to fail: replacing the named definition by its variant makes the run
report the violation (`mutants` in `PROJECT.json`).

### Semaphore

A method holds the mutex from entry to return, or to `Cond.Wait`, so it is one
step; `Dec` is split by the wait (`DecCall`, `DecWait`, `DecReturn`). The counter
is a two's complement number of `Width` bits. `Inc` changes the counter before it
finds that the increment was bad, and `handleWindowUpdate` closes the window in a
later step, so that a `Dec` can come between; `failed` records that the `Close` is
due. `granted` and `credit` are history variables.

### Pipe

The array, its two indices and the slide are modelled as they are. Payload bytes
are numbered in the order in which they are offered, so that any loss, repetition
or swap shows in `got`. The read goroutine's `Write` and the close that follows it
(FIN or overflow) are separate steps.

### Session

Each goroutine has a list of operations still to do (`todo`); an operation is one
access to shared state: setting a flag, one critical section, one channel
operation, one frame written. A method call puts its operations on the list, and
the outcome of one operation may add others. Go's deferred calls are placed in the
order in which they run. Any interleaving of operations is a behaviour, and any
frame may arrive at any time.

The flags `rclosed` and `wclosed` are data races in Go's sense: they are written
outside `mu`. The model takes them to be sequentially consistent. For `NoLeak` this
loses nothing: each goroutine sets its flag before it locks `mu` in `maybeRemove`,
so the later of two such sections sees both flags. Early-return tests of the flags
(`writeData`, `Close`, `handleData`) may in reality see an old value for longer;
the model's interleavings, in which the test precedes the other goroutine's write,
have the same outcomes.

The window and the pipe appear as a number and an error each. A blocked `Dec` or
`Read` is an operation that is not enabled. This is what `ImplementsSendWindow`,
`NoLostWakeup`, `ImplementsByteQueue` and their runs establish about the real ones.
A frame write may fail at any time, independently of the read side.

Calls on one stream come from one writing goroutine (`Open`, `Reply`, `Write`,
`Close`) and one reading goroutine (`Header`, `Read`, `Reset`). The source promises
only that `Read` may run concurrently with the other methods (`session.go:283`);
`conn.go:40-53` goes further and runs `Header` and `Reset` beside the upload, and
the model allows what `conn.go` does.

### StreamFlow

`Session` is one endpoint against any peer; `StreamFlow` is two endpoints of this
package against each other. Each end has a writer (`Write` in its steps: the test of
`wclosed`, `Dec`, the DATA frame; `Close`), a reader (`Read`, `updateWindow`,
`Reset`), the read goroutine of its session (`handleData`, `refuseData`,
`writePipe`, `flowClose`, `flowReset`, `handleWindowUpdate`, `ignoreRst`) and the
goroutines that it starts to refuse frames (`spawnedReset`). All of them write to a
transport that holds `Buf` frames in each direction, and wait while it is full.
`rclose` and `wclose` are one step each here; `Session` takes them apart. A stream
has left the table when both of its flags are set (`NoLeak`).

The read goroutine handles DATA in steps: the test of `rclosed` (`handleData`, with
the bytes then in `held`), `pipe.Write` (`writePipe`), and if that fails the close of
window and pipe (`flowClose`) and the RST_STREAM, for which the read goroutine itself
waits for room (`flowReset`). A local `Reset` may close the pipe between the first
two, and then data that was within the window is answered with FLOW_CONTROL_ERROR.
While it waits, nobody takes frames from the wire. If both ends reset the stream
like this with the transport full, both read goroutines wait for each other's to
read: TLC reaches this state, and `ReadLoopContinues` says that it takes a reset of
both ends. An increment that overflows the window does the same in the other order
(RST_STREAM first), but never occurs between two ends of this package.

`sent`, `seen`, `taken`, `dropped`, `credited` and `applied` count what passed each
point, and the `at` and `credit` of a frame are its sender's totals when it was
written. They are history: no guard reads them except for the bound `MaxBytes`.

### FrameCodec and Framer

`FrameCodec` has the `write` and the `read` of every kind of frame. A byte has
`Radix` values, so that words, the 24-bit length and the flags above it keep their
shape while numbers stay small; shifts and masks become division and remainder by
powers of `Radix`. `write` yields the fields in the order in which they are written,
one call of `Write` each. `ReadFrame` is given all the bytes that have arrived and
waits for more, fails, or returns a frame and how much it used, with the tests in
the order of the code. A header block is the list of its fields in one of the orders
in which Go may range over the map. zlib is external: a compressed byte knows its
block and the number of that block in the compressor's stream, and the decompressor
accepts exactly the next block, whole. A name has a lowercase and a canonical form.
`WellFormed` says what the Go types of the frames leave room for, and what every
caller keeps to beyond that: a priority in three bits, a setting's id in 24, no reset
with status zero, and a SETTINGS list whose length fits the frame's.

In `Framer` goroutines take `wmu` and write a frame field by field; `headerBuf` is
filled before the first field and reset behind the last; a write fails once the
connection has, and gives the frame up where it stands. The connection may fail at
any moment and loses any suffix of what is under way.

### Message and Exchange

A header block is a record of the fields on which the code decides. A
`Content-Length` is a number, absent (or blank, which is treated alike) or junk.
`Exchange` models one stream between `RoundTrip` and the handler. The handler is
any handler: it sets fields, writes headers and bodies, reads, and returns, in any
order. Streams are used through what they promise: ordered bytes, a writer that
waits while a whole window is unread, a reader that drains and then gets the error.
RST_STREAM is ignored by its receiver (`session.go:156`), so a server is not told
that the client has given up. Trailers are left out because both callers pass `nil`
for them.

The end of the client's session is modelled with the steps that `RoundTrip` can meet.
`Open` is three of them: the stream is in the table (`RoundTrip`), then has its reply
channel (`OpenReply`), then its SYN_STREAM is written (`OpenSyn`). The session ends
because the connection is lost or the reply has a prohibited field (`ReadFails`;
`framingHeader` deletes `Connection` and no other, `server.go:175-176`), or because
the reply to another request on the same connection has one (`OtherRefused`). In the
last two cases the connection stays open: the client goes on writing frames, the
server takes its requests and answers them, and nobody reads the answers (`voided`).
A later step of the teardown visits the stream (`TeardownStream`): it closes pipe and
window and leaves `nil` for `Header` if the channel is there and empty. A visit that
comes before `OpenReply` is recorded (`visit = "early"`), because nothing then
releases `Header`. `Disconnect` loses any suffix of what is under way to the server,
and `SessionEnds` any suffix of what is under way to the client, the FIN first.

## Runs

| Run | Bounds | Shows |
|---|---|---|
| `Semaphore_one` | 4-bit counter, window 3, asks 1, 2, 7, seven deltas of 0..15 (both signs), 20 of credit | `WindowRespected`, `CounterExact`, `NoLostWakeup`, `DecReturns`, `ImplementsSendWindow` for the one writer of the contract |
| `Pipe_one` | three-byte array, writes of 0..3, reads of 0, 1, 2, 4, seven bytes in all | `Delivered`, `EOFMeansAll`, `NoLostWakeup`, `ReadReturns`, `ImplementsByteQueue` |
| `Session_opens` | two Opens at once, two streams of the peer's, one id, symmetric streams | `SynOrder`, `OnlyClosedLeave` |
| `Session_handler` | one stream of the peer's, two frames, three calls per goroutine | `NoLeak`, `WireOrder` on the server's side |
| `Session_live` | one stream of ours, one frame, one call per goroutine, fair | `TeardownReleases`, `HeaderReleased`, `WireOrder`, `CallsReturn`, `ClosedStreamsLeave`, and that windows stay in their type |
| `StreamFlow_both` | window 2, largest window 3, one frame of transport, slices of 3, reads of 1 and 2, fair | `NeverOverflows`, `WindowRestored`, `WriteReturns`, `ReadLoopContinues` |
| `Framer_frames` | radix 4, blocks of two bytes, two writers, three frames out of thirteen | `ReadsWhatWasWritten`, `OnlyProhibitedRefused`, `NoStarvedRead` |
| `Exchange_messages` | window 1, request bodies of two bytes (whole or failing), one or none, two bytes written, three methods, good and bad paths and versions, lengths of 0, 1, absent and junk, status 101, 200, 204, 304, prohibited fields, the end of the session at any step, fair | `EOFMeansWhole`, `UploadWhole`, `LengthTruthful`, `BodyWithinLength`, `RoundTripReturns` |
| `Session_header_race` | one WINDOW_UPDATE, one call per goroutine | **violated**: `HeaderNeverStranded` |
| `Exchange_badrequest` | requests that `ReadRequest` refuses: for `*`, or with a junk `Content-Length` | **violated**: `RepliesReadable` |
| `StreamFlow_reset` | as `StreamFlow_both` | **violated**: `ResetEndsWrites` |
| `Framer_duplicates` | one header with two keys that differ in case | **violated**: `DuplicatesRefused` |

Why the bounds are enough to be interesting. Four bits let the counter wrap in both
directions and let credit be given after a wrap. Three bytes and seven offered let
the array slide more than once, with overlapping copies, and overflow. In `Session`
a window and a pipe of one byte make every second byte block or overflow; a 3-bit
window (`MaxInt = 3`) overflows with one delta; two frames suffice for a reply or
data followed by an error; three calls by a handler's goroutine suffice for
`Reply`, `Write` or `Close`, and a call too many; the connection may fail between any two operations. In
`Exchange` bodies of two bytes exceed the window of one, so both directions block,
and the handler writes one byte more than the largest length declared. `MCExchange`
does not combine every field of a request with every other: a body longer than the
window comes with a plain POST, and a request with a short body or none differs from
a plain one in one field. The theorems have no such limits.
In `StreamFlow` a slice of three exceeds the window of two, so that every `Write`
waits for credit once, and one frame of room each way makes data, credit and resets
of both directions compete; `MaxInt` is one above the window, so that a single byte
credited twice overflows. In `Framer` three frames suffice for a frame with headers
behind one that was cut, refused or interleaved; the thirteen frames have numbers
with the top bit of a word set, flags next to a length, empty payloads, and fields
that only one direction may carry.
Bounds are guards named in the modules: `MaxCredit`, `MaxBytes`, `MaxFrames`,
`MaxCalls`, `MaxWrites`. The theorems hold for every value of them.

Sessions, streams, framers and the exchange may come to an end, so their runs do not report
deadlock; `Semaphore` and `Pipe` never stop (a call or a close is always possible),
and there it is checked.

### The four disagreements

* `HeaderNeverStranded`: `Open` puts the stream in the table before it makes the
  reply channel (`session.go:259-267`). If the session ends in between, the
  teardown's send goes to a nil channel and is dropped; `Header` then waits for
  ever. `HeaderReleased` is the part that does hold: streams whose `Open` had
  returned before the read loop ended, and that were in the table then. A stream
  that a WINDOW_UPDATE overflow and a `Close` have taken out of the table
  (`session.go:416-419`) leaves its `Header` waiting in the same way. `Conn.RoundTrip`
  calls `Open` and `Header` (`conn.go:35,49`), so this is also the one exception of
  `RoundTripReturns`: without `visit = "early"` TLC finds a `RoundTrip` that never
  returns, on a connection that is still open.
* `RepliesReadable`: the 400 of `server.go:76` has no `:version`, which
  `ReadResponse` requires (`response.go:10-11`), so the caller sees a malformed
  version and never the 400.
* `ResetEndsWrites`: `Reset` is said to close the stream (`session.go:407-408`), but
  the case for RST_STREAM in `handleRead` is commented out (`session.go:156`). The
  other end's `Write` uses up the window and waits for credit that nobody sends.
  `WriteReturns` is the part that holds: unless the peer resets, every `Write`
  returns.
* `DuplicatesRefused`: `parseHeaderValueBlock` tests `h[name]` with the lowercase
  name (`read.go:198`), while `h.Add` stores the canonical one, so the error
  `DuplicateHeaders` (`types.go:211`) is found only for names such as `:path` that
  have one form; for others the values are merged.

### Fairness

Only the scheduling of goroutines is assumed: a goroutine that can take its next
step eventually does (`WF` on the steps of each goroutine; Go's scheduler runs
every runnable goroutine). Taking a mutex is part of a step whose critical section
always ends. In `Exchange` the goroutines are the caller inside `RoundTrip`, the
upload, the client's read loop, and on the server the one that takes a request while
the connection holds and the handler; the handler is assumed to return in the end, which is
the code's own requirement on handlers. Calls by the user, frames from the peer,
credit, the loss of the connection and a refused reply to another request get no fairness; nothing makes a caller read
a response body. In `Session_live` weak fairness also says that a frame write
returns, that is, that the transport does not block for ever. In `StreamFlow` the
transport does block, and nothing is assumed of it but that the read goroutines
empty it; weak fairness is on the steps of a `Write` that has begun, on the read
goroutine, on the goroutines it starts, and on the application's reading: a caller
that stops reading stops its peer, by design of flow control. `Framer` is checked
for safety only.

## Proofs

All theorems hold for every value of the constants that satisfies the module's
`ASSUME`: any number of streams, any window, any lengths, no bound on the run.

**SemaphoreProofs.** `AccountInv` strengthens the two accounting properties by
`err = Open => n + granted <= InitWnd + credit`, which also holds between a failed
`Inc` and its `Close`, when `CounterExact` says nothing: a wrapped or decreased
counter is never more than the true credit, so a `Dec` that slips in there cannot
overdraw. From it follow `GrantsCovered` and `CounterIsExact`. `SignalSuffices`
assumes that there is one writer; its inductive invariant is `NoLostWakeup` itself.
`Refinement` maps every step to a step of `SendWindow` or to a stutter.

**PipeProofs.** `StreamInv` ties the array to the numbering: the unread slots hold
the numbers that follow those already returned, and as long as no write has failed
their end is `offered`. It adds who may have closed the buffer and why, which is
what makes `io.EOF` imply completeness. `InOrder` and `EOFIsComplete` follow;
`SignalSuffices` is as above, for one reader. `Refinement` maps the unread region of
the array to the queue of `ByteQueue`. The argument goes through the numbering: by
`StreamInv` the unread slots hold the numbers that follow those returned, wherever in
the array they are, so a slide leaves the queue as it is, a write puts what it copied
behind what was unread (`WritePuts`), and a read takes from the front (`ReadGets`).

**SessionProofs.** `NoLeak` alone is not inductive: whether a step that sets a flag
leaves a removal behind it depends on the work lists. `IInv` adds that each work
list is `Orderly` (whoever has a flag to set goes on to close the pipe or the window
and to remove the stream), that only streams with an id are worked on, except by the
`Open` that is about to give them one (`AllNamed`, `Alone`), that streams without an
id are untouched (`Fresh`), that the ids of the two endpoints have different parity
and are below `nextSynId` or at most `lastRecvId` (`Unique`, which is why a new
stream replaces none), and that what is in the table or in the teardown's copy has
an id (`Listed`). `NothingLeaks`, `NoLiveStreamLeaves` and `TypeCorrect` follow.

**SessionTeardown.** `TeardownReleases` speaks of every stream that ever had an id,
including those taken out of the table before the teardown copied it. `Release`
says, relative to `IInv`, that a stream whose flag is set has the pipe or the window
that the flag stands for closed, or a goroutine with that close still to do; and
that from the moment the table is copied the same is true of every stream with an
id outside the copy still to be visited. A stream that has left the table has both
flags set (`OnlyClosedLeave`), and none is added once `closing` is set.

**SessionWire.** `WireOrder` says only that no stream has written a frame out of
order; what excludes it is spread over the work lists. `Wire`, relative to `IInv`,
says of every operation who does it and what it presupposes. Only a stream's one
writing goroutine has operations that write its frames, and at most one of them at
a time (`Shape`), so nobody writes between a test of `wclosed` and the frame that
follows it. Whoever is between the assignment of an id and its SYN_STREAM holds
`openMu` (`Owned`), the id is above every id written so far (`Says`), and all ids
are below `nextSynId`. A stream that is opening has its SYN still to write, one
that has written FLAG_FIN has `wclosed` set or is about to set it, and Write and
Close begin only after the SYN (`Written`). `FramesInOrder` and `SynFramesInOrder`
follow. `HeaderReleased` needs another invariant: from the moment the table is
copied every stream in the copy is still to be visited, has something in its reply
channel, or its caller has taken the reply (`Answered`). A caller that takes the
reply sets `reply` to nil before it returns, so that later calls do not wait; the
invariant holds because a call of `Header` has nothing to do but these two, so two
calls of one goroutine cannot overlap. For a stream whose Open is still running this fails, which is the
violation that `Session_header_race` shows.

**StreamFlowProofs.** `NeverOverflows` is a statement about a pipe at one end and a
window at the other, with frames between. `IInv` keeps three accounts: at the
sender, what was sent, granted and is still in the window makes up the first window
and the credit applied (`Sender`; only an inequality once the stream has left the
table, where credit is ignored); at the receiver, what was seen is in the pipe, in
the read goroutine's hands, was taken or was dropped, and what was taken is credited
or due (`Receiver`; nothing is dropped while the stream is open for reading); and the frames under way lead from
the receiver's totals to the sender's, one after another (`Line`, through `Chain`).
`ChainAppend` and `ChainTail` say what writing and taking a frame does to a line.
From the three accounts `DataFits` and `CreditFits` follow: pipe and frame together
are at most one window, and so are window and credit. `Loop` adds what each step of
the read goroutine presupposes: only the step before `pipe.Write` holds bytes, and a
pipe that is closed by then was closed by a reset of this end. Since the bytes fit,
the write fails for no other reason. So credit never takes the error branch, data takes it only
after a `Reset` between test and write, and `NoFlowControlError` holds for every
window, transport and length; `WindowIsRestored` and `TypeCorrect`
follow from the same invariant.

**FramerProofs.** The theorems are about any radix, any length of a compressed
block, any number of goroutines and any set of well-formed frames; the invariant is
`Inv`. It says that there is a description of the frames begun so far: where each
starts in the stream of bytes (`at`), how many header blocks come before it (`num`)
and which of the possible orders its block was written in (`text`), such that what is
under way are the bytes of the frames begun and not yet read, as far as they go
(`Chain`, `OnWire`), that both ends have counted the blocks up to where they are
(`Stream`), that what was read is what those bytes decode to (`Received`), and that
while the connection holds either nobody writes, everything is sent and `headerBuf`
is empty (`Idle`), or the holder of `wmu` has exactly the remaining fields of the last
frame to write (`Busy`). None of this can be left out: `ReadsWhatWasWritten` looks
only at frames already read, and what the next one will be read as is decided by bytes
on the wire, by fields still in a goroutine's hands and by the two block counts.
The proof has three parts.

* The codec. `AllLaid` says where each field of each kind of frame lies and that the
  length written is the length that follows; `AllRead` that `ReadFrame`, given bytes
  that begin with the frame, returns it and uses exactly its bytes, or, if some are
  missing, waits. Both come down to `DivMod` and to words being put together from
  their bytes again.
* The stream. `WireBegin`, `WireField`, `WireLost`, `WireRead` say what beginning a
  frame, writing a field, losing a suffix and reading a frame do to `OnWire`; with
  them there is one lemma per action (`WriteFrameInv`, `WriteFieldInv`,
  `WriteFailsInv`, `ConnFailsInv`, `ReceiveInv`).
* The headers. `RoundTrip`: a canonical header, written by `writeHeaderValueBlock` in
  any order, passes the tests of `parseHeaderValueBlock` and is parsed to itself.
  `FlattenSeq` of lists all of which but one are empty is that one (`FlattenOne`);
  for want of induction this is shown by a least counterexample (`Least`).

`TypeCorrect` and `ReadsNeverStarve` need no hypothesis. `FramesReadAsWritten` and
`OthersAccepted` assume `HeadersCanonical`: the names of a header are as `http.Header`'s
own methods store them, and each has a value. TLC evaluates this for the frames of
`MCFramer` (`AllFramesCanonical`). It excludes what `Framer_duplicates` shows: a map
with two keys that differ only in case is not read as it was written.

**ExchangeProofs.** `EOFMeansWhole` relates the two ends of an exchange, and is
true only because of what is in between. `UpInv` and `DownInv` account for each
direction: what was read and what is under way make up what was written, or less of
it once the connection is lost; towards the client the account is exact, with what
its session did not read in `voided`. FLAG_FIN is under way only with all the bytes
before it: behind the whole request body, and only if that did not fail, or behind
the last byte of a handler that has returned. A loss, or the end of the session, may
take FLAG_FIN away, and takes it away whenever it takes a byte. `OpenInv` carries
across the steps of `Open` that the request has a header block. `Limited` says what ReadResponse may return
(`ReadResponseLimits` is the lemma about `fixLength` and `parseContentLength`), and
that the caller is within the limit; `SeenInv` that the handler's request is what
ReadRequest makes of the caller's, from which `LengthSeenTruly` follows by the rules
for Content-Length (`LengthSeen`).

**Only model-checked.** The liveness properties (`DecReturns`, `ReadReturns`,
`CallsReturn`, `ClosedStreamsLeave`, `RoundTripReturns`, `WriteReturns`,
`ReadLoopContinues`), which need
fairness and `ENABLED` and are outside the prover's reach. Every invariant and every
safety property of the passing runs is also a theorem.

## Not modelled

* `headerCompressionDisabled`, which only the package's tests set.
* Frames of 2^24 bytes or more, whose length runs into the flags (`write.go:148`);
  `CodecAssumption` excludes them. No caller can make one with the default window.
* RST_STREAM with status zero: `write.go:38` finds it after the header and the id are
  on the wire. `writeRst` models it, and with such a frame `NoStarvedRead` would fail, but
  nothing in the repository sends one, so `FramerAssumption` excludes it.
* `dictionary.go`, TLS and NPN set-up, `doc.go`: a table and start-up I/O.
* SETTINGS in `StreamFlow`: endpoints of this package send none. `Session` has
  `handleSettings`, with any value from the peer.
* Wrap-around of `nextSynId` after 2^30 streams, and slices of 2^31 bytes.
* Trailers and HEADERS frames, which the source leaves unimplemented.

## What is left

The modules, runs and proofs that were planned are there. Hazards without a property
are listed with the reason in `PROJECT.json`; most are about sizes that no caller
reaches (2^30 streams, slices of 2^31 bytes). If RST_STREAM is handled one day
(`session.go:156`), `ignoreRst` in `StreamFlow` and the handlers of `Session` are
where the model changes, and `ResetEndsWrites` becomes a property that should hold.
