-------------------------------- MODULE Session --------------------------------
(***************************************************************************)
(* spdyframing/session.go: one endpoint of a SPDY session, against a peer  *)
(* that may send any frame at any time.                                    *)
(*                                                                         *)
(* Goroutines: the read loop; for each stream a writing goroutine (Open,   *)
(* Reply, Write, Close) and a reading one (Header, Read, Reset), which is  *)
(* how conn.go's RoundTrip and its callers use a stream.  A goroutine's    *)
(* remaining work is a sequence of operations, its todo; each operation is *)
(* one access to shared state: a flag, a critical section of one mutex, a  *)
(* channel operation, a frame written under wmu.  Any interleaving of the  *)
(* goroutines' operations is a behaviour.                                  *)
(*                                                                         *)
(* The send window and the pipe are used through the behaviour that        *)
(* Semaphore and Pipe are shown to have: a blocked Dec or Read is one that *)
(* is not enabled.  A frame write may fail at any time.                    *)
(***************************************************************************)
EXTENDS Integers, Sequences, FiniteSets

CONSTANTS Locals,      \* streams of this endpoint: one per call of Open
          Remotes,     \* streams of the peer: one per accepted SYN_STREAM
          None,        \* no stream; no holder of openMu
          IsServer,    \* Session.isServer
          DefaultWnd,  \* defaultInitWnd, also the length of the pipe's buffer
          MaxInt,      \* the largest value of the send window's type
          WireIds,     \* stream ids the peer uses
          Settings,    \* SETTINGS_INITIAL_WINDOW_SIZE values it sends
          Deltas,      \* DeltaWindowSize values it sends
          Lens,        \* lengths of payloads and of the slices of Read, Write
          MaxFrames,   \* bound: frames received in a run
          MaxCalls     \* bound: calls by one goroutine of one stream

ASSUME SessionAssumption ==
    /\ Locals \cap Remotes = {} /\ None \notin Locals \cup Remotes
    /\ IsServer \in BOOLEAN
    /\ MaxInt \in Nat /\ DefaultWnd \in 0..MaxInt
    /\ WireIds \subseteq Nat \ {0}
    /\ Settings \subseteq 0..(2 * MaxInt + 1)
    /\ Deltas \subseteq 0..(2 * MaxInt + 1)
    /\ Lens \subseteq 0..MaxInt
    /\ MaxFrames \in Nat /\ MaxCalls \in Nat

Streams == Locals \cup Remotes
ReadLoop == <<"r", None>>
Writer(o) == <<"w", o>>
Reader(o) == <<"h", o>>
Threads == {ReadLoop} \cup {Writer(o) : o \in Streams} \cup {Reader(o) : o \in Streams}

Flags == {"-", "U", "F", "UF"}
Uni(f) == f \in {"U", "UF"}
Fin(f) == f \in {"F", "UF"}

Errors == {"EOF", "closed", "notReadable", "notWritable", "flow", "reset", "io"}

VARIABLES tbl,         \* the streams in rstreams, each under its id
          nextSynId,   \* Session.nextSynId
          initwnd,     \* Session.initwnd
          closing,     \* Session.closing
          lastRecvId,  \* Session.lastRecvId
          openMu,      \* the stream whose Open holds openMu, or None
          phase,       \* read(): "loop", "teardown", "done" (done is closed)
          victims,     \* read(): streams teardown has copied and not visited
          id,          \* Stream.id, 0 before add
          life,        \* "new", "opening", "open", or "failed" (Open failed)
          wready, rclosed, wclosed,   \* the Stream flags
          wnd, werr,   \* the send window: counter, closing error or "open"
          plen, perr,  \* the pipe: bytes buffered, closing error or "open"
          reply,       \* the reply channel: "nil", "empty", "full"
          todo,        \* per goroutine: the operations it still has to do
          spawned,     \* goroutines of go s.reset, go s.writeFrame not yet run
          frames,      \* frames received
          calls,       \* per goroutine: calls made
          lastSyn,     \* history: id of the last SYN_STREAM written
          out,         \* history: what the stream has been told to write
          wasOpen      \* history: the open streams in the table when read() ended

sessVars == <<tbl, nextSynId, initwnd, closing, lastRecvId, openMu, phase, victims>>
flagVars == <<id, life, wready, rclosed, wclosed>>
flowVars == <<wnd, werr, plen, perr, reply>>
histVars == <<lastSyn, out, wasOpen>>
vars == <<sessVars, flagVars, flowVars, histVars, todo, spawned, frames, calls>>

Init ==
    /\ tbl = {} /\ nextSynId = (IF IsServer THEN 2 ELSE 1)
    /\ initwnd = DefaultWnd /\ closing = FALSE /\ lastRecvId = 0
    /\ openMu = None /\ phase = "loop" /\ victims = {}
    /\ id = [o \in Streams |-> 0]
    /\ life = [o \in Streams |-> "new"]
    /\ wready = [o \in Streams |-> FALSE]
    /\ rclosed = [o \in Streams |-> FALSE]
    /\ wclosed = [o \in Streams |-> FALSE]
    /\ wnd = [o \in Streams |-> 0]
    /\ werr = [o \in Streams |-> "open"]
    /\ plen = [o \in Streams |-> 0]
    /\ perr = [o \in Streams |-> "open"]
    /\ reply = [o \in Streams |-> "nil"]
    /\ todo = [t \in Threads |-> <<>>]
    /\ spawned = 0 /\ frames = 0
    /\ calls = [t \in Threads |-> 0]
    /\ lastSyn = 0
    /\ out = [o \in Streams |-> "none"]
    /\ wasOpen = {}

--------------------------------------------------------------------------------
\* Operations and the work lists they are made of.

Do(op, o, arg, k) == [op |-> op, o |-> o, arg |-> arg, k |-> k]

CloseOps == {"rflag", "pclose", "wflag", "nclose", "remove"}
OpenOps == {"lock", "add"}
FlagOps == {"mkreply", "syn", "unlock", "recv", "unreply", "synreply", "wdata", "dec",
            "data", "fin", "rst", "pread", "wupdate", "handle", "offer", "inc", "rcheck",
            "pwrite", "nilreply"}
Ops == [op : CloseOps, o : Streams, arg : Errors, k : {0}]
       \cup [op : OpenOps \cup FlagOps, o : Streams, arg : Flags, k : 0..(2 * MaxInt + 1)]

\* Variant: the removal from the table is forgotten.
RCloseNoRemove(o, e) == << Do("rflag", o, e, 0), Do("pclose", o, e, 0) >>

\* Stream.rclose
RClose(o, e) ==
    << Do("rflag", o, e, 0), Do("pclose", o, e, 0), Do("remove", o, e, 0) >>

\* Stream.wclose
WClose(o, e) ==
    << Do("wflag", o, e, 0), Do("nclose", o, e, 0), Do("remove", o, e, 0) >>

\* Stream.Reset: the deferred calls run last in, first out.
Resetting(o) ==
    << Do("rst", o, "-", 0) >> \o RClose(o, "reset") \o WClose(o, "reset")

\* Goroutine t is about to do operation op.
At(t, op) == todo[t] # <<>> /\ Head(todo[t]).op = op
Cur(t) == Head(todo[t])

\* The current operation is done; `more' is what its outcome adds.
Continue(t, more) == todo' = [todo EXCEPT ![t] = more \o Tail(@)]

\* An idle goroutine starts on some work.
Begin(t, work) == todo[t] = <<>> /\ todo' = [todo EXCEPT ![t] = work]

When(b, s) == IF b THEN s ELSE <<>>

--------------------------------------------------------------------------------
\* rclose, wclose and maybeRemove, step by step.

\* s.rclosed = true
SetRClosed(t) ==
    /\ At(t, "rflag")
    /\ rclosed' = [rclosed EXCEPT ![Cur(t).o] = TRUE]
    /\ Continue(t, <<>>)
    /\ UNCHANGED <<sessVars, flowVars, histVars, id, life, wready, wclosed,
                   spawned, frames, calls>>

\* s.wclosed = true
SetWClosed(t) ==
    /\ At(t, "wflag")
    /\ wclosed' = [wclosed EXCEPT ![Cur(t).o] = TRUE]
    /\ Continue(t, <<>>)
    /\ UNCHANGED <<sessVars, flowVars, histVars, id, life, wready, rclosed,
                   spawned, frames, calls>>

\* s.pipe.Close(err): the first error stays.
ClosePipe(t) ==
    LET o == Cur(t).o IN
    /\ At(t, "pclose")
    /\ perr' = [perr EXCEPT ![o] = IF @ = "open" THEN Cur(t).arg ELSE @]
    /\ Continue(t, <<>>)
    /\ UNCHANGED <<sessVars, flagVars, histVars, wnd, werr, plen, reply,
                   spawned, frames, calls>>

\* s.wnd.Close(err): the first error stays.
CloseWnd(t) ==
    LET o == Cur(t).o IN
    /\ At(t, "nclose")
    /\ werr' = [werr EXCEPT ![o] = IF @ = "open" THEN Cur(t).arg ELSE @]
    /\ Continue(t, <<>>)
    /\ UNCHANGED <<sessVars, flagVars, histVars, wnd, plen, perr, reply,
                   spawned, frames, calls>>

\* Session.maybeRemove
maybeRemove(t) ==
    LET o == Cur(t).o IN
    /\ At(t, "remove")
    /\ tbl' = IF rclosed[o] /\ wclosed[o] THEN tbl \ {o} ELSE tbl
    /\ Continue(t, <<>>)
    /\ UNCHANGED <<flagVars, flowVars, histVars, nextSynId, initwnd, closing,
                   lastRecvId, openMu, phase, victims, spawned, frames, calls>>

Closings(t) ==
    SetRClosed(t) \/ SetWClosed(t) \/ ClosePipe(t) \/ CloseWnd(t) \/ maybeRemove(t)

--------------------------------------------------------------------------------
\* Session.add, under mu: a stream put under an id replaces one that has it.
Added(o, i) == {p \in tbl : id[p] # i} \cup {o}

\* Session.get
get(i) == {o \in tbl : id[o] = i}

\* Session.Open.  newStream reads initwnd before the stream is in the table.
Open(o, f) ==
    /\ life[o] = "new" /\ o \in Locals
    /\ life' = [life EXCEPT ![o] = "opening"]
    /\ wnd' = [wnd EXCEPT ![o] = initwnd]
    /\ wready' = [wready EXCEPT ![o] = TRUE]
    /\ Begin(Writer(o), << Do("lock", o, f, 0) >>)
    /\ UNCHANGED <<sessVars, histVars, id, rclosed, wclosed, werr, plen, perr,
                   reply, spawned, frames, calls>>

\* Variant: Open does not take openMu.
OpenLockNot(t) ==
    /\ At(t, "lock")
    /\ Continue(t, << Do("add", Cur(t).o, Cur(t).arg, 0) >>)
    /\ UNCHANGED <<sessVars, flagVars, flowVars, histVars, spawned, frames, calls>>

\* s.openMu.Lock()
OpenLock(t) ==
    /\ At(t, "lock")
    /\ openMu = None
    /\ openMu' = Cur(t).o
    /\ Continue(t, << Do("add", Cur(t).o, Cur(t).arg, 0) >>)
    /\ UNCHANGED <<flagVars, flowVars, histVars, tbl, nextSynId, initwnd, closing,
                   lastRecvId, phase, victims, spawned, frames, calls>>

\* s.add(st), and what Open does next: nothing more once the session closes.
OpenAdd(t) ==
    LET o == Cur(t).o
        f == Cur(t).arg
    IN
    /\ At(t, "add")
    /\ \/ /\ closing
          /\ life' = [life EXCEPT ![o] = "failed"]
          /\ Continue(t, << Do("unlock", o, "-", 0) >>)
          /\ UNCHANGED <<tbl, nextSynId, id>>
       \/ /\ ~closing
          /\ id' = [id EXCEPT ![o] = nextSynId]
          /\ nextSynId' = nextSynId + 2
          /\ tbl' = Added(o, nextSynId)
          /\ Continue(t, (IF Uni(f) THEN RClose(o, "notReadable")
                          ELSE << Do("mkreply", o, "-", 0) >>)
                         \o When(Fin(f), WClose(o, "notWritable"))
                         \o << Do("syn", o, f, 0), Do("unlock", o, "-", 0) >>)
          /\ UNCHANGED life
    /\ UNCHANGED <<flowVars, histVars, initwnd, closing, lastRecvId, openMu, phase,
                   victims, wready, rclosed, wclosed, spawned, frames, calls>>

\* st.reply = make(chan http.Header, 1)
OpenMakeReply(t) ==
    /\ At(t, "mkreply")
    /\ reply' = [reply EXCEPT ![Cur(t).o] = "empty"]
    /\ Continue(t, <<>>)
    /\ UNCHANGED <<sessVars, flagVars, histVars, wnd, werr, plen, perr,
                   spawned, frames, calls>>

\* What a stream has been told to write: SYN_STREAM or SYN_REPLY once, then
\* DATA, then FLAG_FIN once.  "bad" marks a frame out of that order.
AfterSyn(o, f) == IF out[o] # "none" THEN "bad" ELSE IF Fin(f) THEN "fin" ELSE "syn"
AfterData(o, f) == IF out[o] # "syn" THEN "bad" ELSE IF Fin(f) THEN "fin" ELSE "syn"

\* s.writeFrame(SYN_STREAM); on an error the stream is closed both ways.
OpenWriteSyn(t) ==
    LET o == Cur(t).o
        f == Cur(t).arg
    IN
    /\ At(t, "syn")
    /\ out' = [out EXCEPT ![o] = AfterSyn(o, f)]
    /\ \/ /\ lastSyn' = id[o]
          /\ Continue(t, <<>>)
          /\ UNCHANGED life
       \/ /\ life' = [life EXCEPT ![o] = "failed"]
          /\ Continue(t, RClose(o, "io") \o WClose(o, "io"))
          /\ UNCHANGED lastSyn
    /\ UNCHANGED <<sessVars, flowVars, id, wready, rclosed, wclosed, wasOpen,
                   spawned, frames, calls>>

\* The deferred s.openMu.Unlock(); Open returns.
OpenUnlock(t) ==
    LET o == Cur(t).o IN
    /\ At(t, "unlock")
    /\ openMu' = None
    /\ life' = [life EXCEPT ![o] = IF @ = "opening" THEN "open" ELSE @]
    /\ Continue(t, <<>>)
    /\ UNCHANGED <<flowVars, histVars, tbl, nextSynId, initwnd, closing, lastRecvId,
                   phase, victims, id, wready, rclosed, wclosed, spawned, frames, calls>>

Opening(t) ==
    \/ OpenLock(t) \/ OpenAdd(t) \/ OpenMakeReply(t)
    \/ OpenWriteSyn(t) \/ OpenUnlock(t)

--------------------------------------------------------------------------------
\* Methods of Stream.

\* A call on a stream the caller has been given; an early return that changes
\* nothing is no step.
Call(t, o, work) ==
    /\ life[o] = "open"
    /\ calls[t] < MaxCalls
    /\ calls' = [calls EXCEPT ![t] = @ + 1]
    /\ Begin(t, work)

\* Stream.Header: waits only if there is a reply channel.
Header(o) ==
    /\ reply[o] # "nil"
    /\ Call(Reader(o), o, << Do("recv", o, "-", 0), Do("unreply", o, "-", 0) >>)
    /\ UNCHANGED <<sessVars, flagVars, flowVars, histVars, spawned, frames>>

\* s.header = <-s.reply
HeaderReceive(t) ==
    /\ At(t, "recv")
    /\ reply[Cur(t).o] = "full"
    /\ reply' = [reply EXCEPT ![Cur(t).o] = "empty"]
    /\ Continue(t, <<>>)
    /\ UNCHANGED <<sessVars, flagVars, histVars, wnd, werr, plen, perr,
                   spawned, frames, calls>>

\* s.reply = nil
HeaderForget(t) ==
    /\ At(t, "unreply")
    /\ reply' = [reply EXCEPT ![Cur(t).o] = "nil"]
    /\ Continue(t, <<>>)
    /\ UNCHANGED <<sessVars, flagVars, histVars, wnd, werr, plen, perr,
                   spawned, frames, calls>>

\* Variant: the test that refuses a second reply is missing.
ReplyTwice(o, f) ==
    /\ wready' = [wready EXCEPT ![o] = TRUE]
    /\ Call(Writer(o), o, << Do("synreply", o, f, 0) >>
                          \o When(Fin(f), WClose(o, "closed")))
    /\ UNCHANGED <<sessVars, flowVars, histVars, id, life, rclosed, wclosed,
                   spawned, frames>>

\* Stream.Reply: an error unless wready was false; the deferred wclose runs
\* whether or not the frame could be written.
Reply(o, f) ==
    /\ ~wready[o]
    /\ wready' = [wready EXCEPT ![o] = TRUE]
    /\ Call(Writer(o), o, << Do("synreply", o, f, 0) >>
                          \o When(Fin(f), WClose(o, "closed")))
    /\ UNCHANGED <<sessVars, flowVars, histVars, id, life, rclosed, wclosed,
                   spawned, frames>>

ReplyWrite(t) ==
    LET o == Cur(t).o IN
    /\ At(t, "synreply")
    /\ out' = [out EXCEPT ![o] = AfterSyn(o, Cur(t).arg)]
    /\ Continue(t, <<>>)
    /\ UNCHANGED <<sessVars, flagVars, flowVars, lastSyn, wasOpen,
                   spawned, frames, calls>>

\* Stream.Write of k bytes: its loop around writeData.
Write(o, k) ==
    /\ k > 0
    /\ Call(Writer(o), o, << Do("wdata", o, "-", k) >>)
    /\ UNCHANGED <<sessVars, flagVars, flowVars, histVars, spawned, frames>>

\* writeData tests the flags first.
WriteCheck(t) ==
    LET o == Cur(t).o IN
    /\ At(t, "wdata")
    /\ Continue(t, When(~wclosed[o] /\ wready[o], << Do("dec", o, "-", Cur(t).k) >>))
    /\ UNCHANGED <<sessVars, flagVars, flowVars, histVars, spawned, frames, calls>>

\* s.wnd.Dec: waits for the window; a closed window resets the stream.
WriteDec(t) ==
    LET o == Cur(t).o
        k == Cur(t).k
        n == IF wnd[o] < k THEN wnd[o] ELSE k
    IN
    /\ At(t, "dec")
    /\ \/ /\ werr[o] # "open"
          /\ Continue(t, Resetting(o))
          /\ UNCHANGED wnd
       \/ /\ werr[o] = "open" /\ wnd[o] >= 1
          /\ wnd' = [wnd EXCEPT ![o] = @ - n]
          /\ Continue(t, << Do("data", o, "-", k - n) >>)
    /\ UNCHANGED <<sessVars, flagVars, histVars, werr, plen, perr, reply,
                   spawned, frames, calls>>

\* writeFrame(DATA): the loop goes on if it succeeded and bytes are left.
WriteFrameData(t) ==
    LET o == Cur(t).o IN
    /\ At(t, "data")
    /\ out' = [out EXCEPT ![o] = AfterData(o, "-")]
    /\ \/ Continue(t, <<>>)
       \/ Cur(t).k > 0 /\ Continue(t, << Do("wdata", o, "-", Cur(t).k) >>)
    /\ UNCHANGED <<sessVars, flagVars, flowVars, lastSyn, wasOpen,
                   spawned, frames, calls>>

\* Variant: Close leaves the stream open for writing.
CloseNoWClose(o) ==
    /\ ~wclosed[o] /\ wready[o]
    /\ Call(Writer(o), o, << Do("fin", o, "F", 0) >>)
    /\ UNCHANGED <<sessVars, flagVars, flowVars, histVars, spawned, frames>>

\* Stream.Close: the deferred wclose runs whatever writeFrame returns.
Close(o) ==
    /\ ~wclosed[o] /\ wready[o]
    /\ Call(Writer(o), o, << Do("fin", o, "F", 0) >> \o WClose(o, "closed"))
    /\ UNCHANGED <<sessVars, flagVars, flowVars, histVars, spawned, frames>>

CloseWriteFin(t) ==
    LET o == Cur(t).o IN
    /\ At(t, "fin")
    /\ out' = [out EXCEPT ![o] = AfterData(o, "F")]
    /\ Continue(t, <<>>)
    /\ UNCHANGED <<sessVars, flagVars, flowVars, lastSyn, wasOpen,
                   spawned, frames, calls>>

\* Stream.Reset
Reset(o) ==
    /\ Call(Reader(o), o, Resetting(o))
    /\ UNCHANGED <<sessVars, flagVars, flowVars, histVars, spawned, frames>>

\* Session.reset, called in line: its result is never used.
WriteRst(t) ==
    /\ At(t, "rst")
    /\ Continue(t, <<>>)
    /\ UNCHANGED <<sessVars, flagVars, flowVars, histVars, spawned, frames, calls>>

\* Stream.Read of at most k bytes.
Read(o, k) ==
    /\ Call(Reader(o), o, << Do("pread", o, "-", k) >>)
    /\ UNCHANGED <<sessVars, flagVars, flowVars, histVars, spawned, frames>>

\* pipe.Read: waits for data or the close.  updateWindow refuses a delta of 0.
ReadPipe(t) ==
    LET o == Cur(t).o
        k == Cur(t).k
        n == IF plen[o] < k THEN plen[o] ELSE k
    IN
    /\ At(t, "pread")
    /\ plen[o] > 0 \/ perr[o] # "open"
    /\ plen' = [plen EXCEPT ![o] = @ - n]
    /\ Continue(t, When(n > 0, << Do("wupdate", o, "-", n) >>))
    /\ UNCHANGED <<sessVars, flagVars, histVars, wnd, werr, perr, reply,
                   spawned, frames, calls>>

\* Stream.updateWindow writes a WINDOW_UPDATE frame; its result is not used.
updateWindow(t) ==
    /\ At(t, "wupdate")
    /\ Continue(t, <<>>)
    /\ UNCHANGED <<sessVars, flagVars, flowVars, histVars, spawned, frames, calls>>

Calls(o) ==
    \/ \E f \in Flags : Open(o, f)
    \/ \E f \in {"-", "F"} : Reply(o, f)
    \/ \E k \in Lens : Write(o, k) \/ Read(o, k)
    \/ Header(o) \/ Close(o) \/ Reset(o)

StreamSteps(t) ==
    \/ HeaderReceive(t) \/ HeaderForget(t) \/ ReplyWrite(t)
    \/ WriteCheck(t) \/ WriteDec(t) \/ WriteFrameData(t)
    \/ CloseWriteFin(t) \/ WriteRst(t) \/ ReadPipe(t) \/ updateWindow(t)

--------------------------------------------------------------------------------
\* Session.read and the handlers it calls.

\* ReadFrame has returned a frame; the loop takes the next one when the
\* handler is done.
Receive(work) ==
    /\ phase = "loop"
    /\ frames < MaxFrames
    /\ frames' = frames + 1
    /\ Begin(ReadLoop, work)

\* go s.reset(...), go s.writeFrame(...)
Spawn == spawned' = spawned + 1

\* handleRead ignores RST_STREAM, GOAWAY, HEADERS, ... and answers PING.
IgnoreFrame ==
    /\ Receive(<<>>)
    /\ UNCHANGED <<sessVars, flagVars, flowVars, histVars, spawned, calls>>

AnswerPing ==
    /\ Receive(<<>>)
    /\ Spawn
    /\ UNCHANGED <<sessVars, flagVars, flowVars, histVars, calls>>

\* Variant: the test against lastRecvId is missing.
RefusedParityOnly(i) == IsServer = (i % 2 = 0)

\* handleSynStream refuses an id of this endpoint's parity or not above the
\* last one.
Refused(i) == IsServer = (i % 2 = 0) \/ i <= lastRecvId

RefuseSynStream(i) ==
    /\ Refused(i)
    /\ Receive(<<>>)
    /\ Spawn
    /\ UNCHANGED <<sessVars, flagVars, flowVars, histVars, calls>>

\* handleSynStream accepts the stream; s.add cannot fail because only this
\* goroutine sets closing.
handleSynStream(o, i, f) ==
    /\ ~Refused(i)
    /\ o \in Remotes /\ id[o] = 0
    /\ lastRecvId' = i
    /\ wnd' = [wnd EXCEPT ![o] = initwnd]
    /\ id' = [id EXCEPT ![o] = i]
    /\ tbl' = Added(o, i)
    /\ Receive(When(Uni(f), WClose(o, "closed")) \o When(Fin(f), RClose(o, "EOF"))
               \o << Do("handle", o, "-", 0) >>)
    /\ UNCHANGED <<histVars, nextSynId, initwnd, closing, openMu, phase, victims,
                   life, wready, rclosed, wclosed, werr, plen, perr, reply,
                   spawned, calls>>

\* go s.handle(st)
StartHandler(t) ==
    /\ At(t, "handle")
    /\ life' = [life EXCEPT ![Cur(t).o] = "open"]
    /\ Continue(t, <<>>)
    /\ UNCHANGED <<sessVars, flowVars, histVars, id, wready, rclosed, wclosed,
                   spawned, frames, calls>>

\* handleSynReply, up to get.
handleSynReply(i, f) ==
    /\ \/ get(i) = {} /\ Receive(<<>>) /\ Spawn
       \/ \E o \in get(i) : Receive(<< Do("offer", o, f, 0) >>) /\ UNCHANGED spawned
    /\ UNCHANGED <<sessVars, flagVars, flowVars, histVars, calls>>

\* The select in handleSynReply: the channel has room for one reply.
OfferReply(t) ==
    LET o == Cur(t).o IN
    /\ At(t, "offer")
    /\ \/ /\ reply[o] = "empty"
          /\ reply' = [reply EXCEPT ![o] = "full"]
          /\ Continue(t, When(Fin(Cur(t).arg), RClose(o, "EOF")))
          /\ UNCHANGED spawned
       \/ /\ reply[o] # "empty"
          /\ Spawn
          /\ Continue(t, <<>>)
          /\ UNCHANGED reply
    /\ UNCHANGED <<sessVars, flagVars, histVars, wnd, werr, plen, perr, frames, calls>>

\* handleSettings and set: a value that does not fit an int32 is ignored, and
\* streams that exist keep the window they were made with.
handleSettings(v) ==
    /\ initwnd' = IF v <= MaxInt THEN v ELSE initwnd
    /\ Receive(<<>>)
    /\ UNCHANGED <<flagVars, flowVars, histVars, tbl, nextSynId, closing, lastRecvId,
                   openMu, phase, victims, spawned, calls>>

\* Session.handleWindowUpdate, up to get; an unknown id is ignored.
handleWindowUpdate(i, u) ==
    /\ \/ get(i) = {} /\ Receive(<<>>)
       \/ \E o \in get(i) : Receive(<< Do("inc", o, "-", u) >>)
    /\ UNCHANGED <<sessVars, flagVars, flowVars, histVars, spawned, calls>>

\* Variant: the window's type has no limits.
InRangeNot(x) == x

\* A number brought into the range of the window's type: the conversion of a
\* delta, and the sum.
InRange(x) ==
    IF x > MaxInt THEN x - (2 * MaxInt + 2)
    ELSE IF x < -MaxInt - 1 THEN x + (2 * MaxInt + 2)
    ELSE x

\* Stream.handleWindowUpdate: Inc fails on a delta below 1 and on overflow.
WindowInc(t) ==
    LET o == Cur(t).o
        d == InRange(Cur(t).k)
        n == InRange(wnd[o] + d)
    IN
    /\ At(t, "inc")
    /\ wnd' = [wnd EXCEPT ![o] = n]
    /\ Continue(t, When(d < 1 \/ (wnd[o] > 0 /\ n < 0),
                        << Do("rst", o, "-", 0), Do("nclose", o, "flow", 0) >>
                        \o RClose(o, "flow")))
    /\ UNCHANGED <<sessVars, flagVars, histVars, werr, plen, perr, reply,
                   spawned, frames, calls>>

\* Session.handleData, up to get.
handleData(i, k, f) ==
    /\ \/ get(i) = {} /\ Receive(<<>>) /\ Spawn
       \/ \E o \in get(i) : Receive(<< Do("rcheck", o, f, k) >>) /\ UNCHANGED spawned
    /\ UNCHANGED <<sessVars, flagVars, flowVars, histVars, calls>>

\* Stream.handleData tests rclosed first.
DataCheck(t) ==
    LET o == Cur(t).o IN
    /\ At(t, "rcheck")
    /\ \/ rclosed[o] /\ Spawn /\ Continue(t, <<>>)
       \/ /\ ~rclosed[o]
          /\ Continue(t, << Do("pwrite", o, Cur(t).arg, Cur(t).k) >>)
          /\ UNCHANGED spawned
    /\ UNCHANGED <<sessVars, flagVars, flowVars, histVars, frames, calls>>

\* s.pipe.Write: fails if the pipe was closed meanwhile or is too full, and
\* then keeps what fits.
DataWrite(t) ==
    LET o == Cur(t).o
        n == plen[o] + Cur(t).k
    IN
    /\ At(t, "pwrite")
    /\ plen' = [plen EXCEPT ![o] =
                    IF perr[o] # "open" THEN @ ELSE IF n > DefaultWnd THEN DefaultWnd ELSE n]
    /\ Continue(t, IF perr[o] # "open" \/ n > DefaultWnd
                   THEN << Do("nclose", o, "flow", 0) >> \o RClose(o, "flow")
                        \o << Do("rst", o, "-", 0) >>
                   ELSE When(Fin(Cur(t).arg), RClose(o, "EOF")))
    /\ UNCHANGED <<sessVars, flagVars, histVars, wnd, werr, perr, reply,
                   spawned, frames, calls>>

\* A spawned goroutine writes its frame; nothing depends on the outcome.
SpawnedWrite ==
    /\ spawned > 0
    /\ spawned' = spawned - 1
    /\ UNCHANGED <<sessVars, flagVars, flowVars, histVars, todo, frames, calls>>

\* ReadFrame fails: the deferred function sets closing and copies the table.
ReadFails ==
    /\ phase = "loop" /\ todo[ReadLoop] = <<>>
    /\ phase' = "teardown"
    /\ closing' = TRUE
    /\ victims' = tbl
    /\ wasOpen' = {o \in tbl : life[o] = "open"}
    /\ UNCHANGED <<flagVars, flowVars, tbl, nextSynId, initwnd, lastRecvId, openMu,
                   lastSyn, out, todo, spawned, frames, calls>>

\* Variant: only the reading side of the streams is closed.
TeardownStreamRead(o) ==
    /\ phase = "teardown"
    /\ victims' = victims \ {o}
    /\ Begin(ReadLoop, RClose(o, "closed") \o << Do("nilreply", o, "-", 0) >>)
    /\ UNCHANGED <<flagVars, flowVars, histVars, tbl, nextSynId, initwnd, closing,
                   lastRecvId, openMu, phase, spawned, frames, calls>>

\* Variant: nobody is told that no reply will come.
TeardownStreamNoReply(o) ==
    /\ phase = "teardown"
    /\ victims' = victims \ {o}
    /\ Begin(ReadLoop, RClose(o, "closed") \o << Do("nclose", o, "closed", 0) >>)
    /\ UNCHANGED <<flagVars, flowVars, histVars, tbl, nextSynId, initwnd, closing,
                   lastRecvId, openMu, phase, spawned, frames, calls>>

\* The loop over the copy, in map order: any order.
TeardownStream(o) ==
    /\ phase = "teardown"
    /\ victims' = victims \ {o}
    /\ Begin(ReadLoop, RClose(o, "closed") \o << Do("nclose", o, "closed", 0),
                                                Do("nilreply", o, "-", 0) >>)
    /\ UNCHANGED <<flagVars, flowVars, histVars, tbl, nextSynId, initwnd, closing,
                   lastRecvId, openMu, phase, spawned, frames, calls>>

\* select { case st.reply <- nil: default: }
TeardownReply(t) ==
    LET o == Cur(t).o IN
    /\ At(t, "nilreply")
    /\ reply' = [reply EXCEPT ![o] = IF @ = "empty" THEN "full" ELSE @]
    /\ Continue(t, <<>>)
    /\ UNCHANGED <<sessVars, flagVars, histVars, wnd, werr, plen, perr,
                   spawned, frames, calls>>

\* close(s.done)
TeardownEnd ==
    /\ phase = "teardown" /\ todo[ReadLoop] = <<>> /\ victims = {}
    /\ phase' = "done"
    /\ UNCHANGED <<flagVars, flowVars, histVars, tbl, nextSynId, initwnd, closing,
                   lastRecvId, openMu, victims, todo, spawned, frames, calls>>

handleRead ==
    \/ IgnoreFrame \/ AnswerPing
    \/ \E v \in Settings : handleSettings(v)
    \/ \E i \in WireIds :
          \/ RefuseSynStream(i)
          \/ \E o \in Remotes, f \in Flags : handleSynStream(o, i, f)
          \/ \E f \in {"-", "F"} : handleSynReply(i, f)
          \/ \E u \in Deltas : handleWindowUpdate(i, u)
          \/ \E k \in Lens, f \in {"-", "F"} : handleData(i, k, f)

ReadSteps(t) ==
    \/ StartHandler(t) \/ OfferReply(t) \/ WindowInc(t)
    \/ DataCheck(t) \/ DataWrite(t) \/ TeardownReply(t)

Teardown == (\E o \in victims : TeardownStream(o)) \/ TeardownEnd

\* One operation of a goroutine that is running.
Step(t) == Closings(t) \/ Opening(t) \/ StreamSteps(t) \/ ReadSteps(t)

Next ==
    \/ \E o \in Streams : Calls(o)
    \/ handleRead
    \/ \E t \in Threads : Step(t)
    \/ SpawnedWrite
    \/ ReadFails
    \/ Teardown

Spec == Init /\ [][Next]_vars

\* A goroutine that can run does run, and the loop over the copied table ends.
\* Calls, frames and the end of the connection are the environment's.
Fairness ==
    /\ \A t \in Threads : WF_vars(Step(t))
    /\ WF_vars(Teardown)
    /\ WF_vars(SpawnedWrite)

FairSpec == Spec /\ Fairness

--------------------------------------------------------------------------------

TypeOK ==
    /\ tbl \subseteq Streams /\ victims \subseteq Streams /\ wasOpen \subseteq Streams
    /\ nextSynId \in Nat /\ lastRecvId \in Nat /\ lastSyn \in Nat
    /\ initwnd \in 0..MaxInt
    /\ closing \in BOOLEAN
    /\ openMu \in Streams \cup {None}
    /\ phase \in {"loop", "teardown", "done"}
    /\ id \in [Streams -> Nat]
    /\ life \in [Streams -> {"new", "opening", "open", "failed"}]
    /\ wready \in [Streams -> BOOLEAN]
    /\ rclosed \in [Streams -> BOOLEAN]
    /\ wclosed \in [Streams -> BOOLEAN]
    /\ wnd \in [Streams -> (-MaxInt - 1)..MaxInt]
    /\ werr \in [Streams -> Errors \cup {"open"}]
    /\ plen \in [Streams -> 0..DefaultWnd]
    /\ perr \in [Streams -> Errors \cup {"open"}]
    /\ reply \in [Streams -> {"nil", "empty", "full"}]
    /\ out \in [Streams -> {"none", "syn", "fin", "bad"}]
    /\ todo \in [Threads -> Seq(Ops)]
    /\ spawned \in Nat /\ frames \in Nat
    /\ calls \in [Threads -> Nat]

\* Goroutine t still has to do operation op on stream o.
Due(t, op, o) == \E i \in DOMAIN todo[t] : todo[t][i].op = op /\ todo[t][i].o = o
SomeoneDue(op, o) == \E t \in Threads : Due(t, op, o)

\* A stream closed in both directions does not stay in rstreams: it is out,
\* or some goroutine has yet to run its maybeRemove.  The flags are set
\* without the lock, by the read loop, the writer and the reader
\* (session.go:104-112,438-448).
NoLeak ==
    \A o \in tbl : rclosed[o] /\ wclosed[o] => SomeoneDue("remove", o)

\* A stream that has an id and is no longer in rstreams was closed both ways:
\* neither a removal nor a new stream under the same id takes a live stream
\* out of reach of get and of the teardown (session.go:100,107-110).
OnlyClosedLeave ==
    \A o \in Streams : id[o] # 0 /\ o \notin tbl => rclosed[o] /\ wclosed[o]

\* Once the session is done, every stream that was ever in the table has its
\* pipe and its window closed, or a goroutine is about to close them: nobody
\* is left to block in Read or Write (session.go:121-139).
TeardownReleases ==
    phase = "done" =>
        \A o \in Streams : id[o] # 0 =>
            /\ perr[o] # "open" \/ SomeoneDue("pclose", o)
            /\ werr[o] # "open" \/ SomeoneDue("nclose", o)

\* Once the session is done, a Header call on a stream whose Open had
\* returned, and which was still in the table when the read loop ended, is
\* not left waiting: the teardown's send that may be dropped is dropped only
\* when a reply is already there (session.go:134-137,318-322).
HeaderReleased ==
    phase = "done" =>
        \A o \in wasOpen : At(Reader(o), "recv") => reply[o] # "empty"

\* "Returns nil if there is no incoming direction (either because s is
\* unidirectional, or because of an error)" (session.go:316-317): once the
\* session is done no Header call waits for a reply.
HeaderNeverStranded ==
    phase = "done" =>
        \A o \in Streams : At(Reader(o), "recv") => reply[o] # "empty"

\* SYN_STREAM frames are written in the order of their ids: "Once add returns,
\* we've assigned the stream id, so don't send them out of order"
\* (session.go:253-257).
SynOrder == [][lastSyn' # lastSyn => lastSyn' > lastSyn]_vars

\* Every stream writes one SYN frame, then DATA, then one FLAG_FIN, whoever
\* resets it meanwhile (session.go:329-405).
WireOrder == \A o \in Streams : out[o] # "bad"

\* A Read and a Write that wait for the peer return once the session has ended
\* (session.go:131-138).  Header is not among them: HeaderReleased says which
\* calls of Header the teardown releases.
CallsReturn ==
    \A o \in Streams :
        /\ phase = "done" /\ At(Reader(o), "pread") ~> ~At(Reader(o), "pread")
        /\ phase = "done" /\ At(Writer(o), "dec") ~> ~At(Writer(o), "dec")

\* A stream closed in both directions eventually leaves the table.
ClosedStreamsLeave ==
    \A o \in Streams : (rclosed[o] /\ wclosed[o]) ~> (o \notin tbl)
================================================================================
