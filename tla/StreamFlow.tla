------------------------------- MODULE StreamFlow ------------------------------
(***************************************************************************)
(* session.go: flow control of one stream, seen from both of its ends.     *)
(*                                                                         *)
(* Each end has a writing goroutine (Write, Close), a reading goroutine    *)
(* (Read with the WINDOW_UPDATE it sends, Reset) and its session's read    *)
(* goroutine, which applies the frames that arrive.  All three write       *)
(* frames to the same connection, which holds Buf frames each way: a write *)
(* waits while it is full.                                                 *)
(*                                                                         *)
(* The window and the pipe are what Semaphore and Pipe show them to be: a  *)
(* number that Dec waits for, and a number of unread bytes.  Rclose and    *)
(* wclose are one step each; Session takes them apart.  The stream is open *)
(* in both directions: SYN_STREAM and SYN_REPLY have been exchanged.       *)
(***************************************************************************)
EXTENDS Integers, Sequences

CONSTANTS InitWnd,    \* defaultInitWnd, the first window and the pipe's size
          MaxInt,     \* the largest int32
          Buf,        \* frames that the transport holds in each direction
          Lens,       \* lengths of the slices written
          ReadLens,   \* lengths of the slices read into
          MaxBytes    \* bound: bytes that each end writes

ASSUME FlowAssumption ==
    /\ InitWnd \in Nat \ {0} /\ MaxInt \in Nat /\ InitWnd <= MaxInt
    /\ Buf \in Nat \ {0} /\ MaxBytes \in Nat
    /\ Lens \subseteq Nat \ {0} /\ ReadLens \subseteq Nat \ {0}

Ends == {"client", "server"}
Peer(e) == IF e = "client" THEN "server" ELSE "client"
Min2(a, b) == IF a < b THEN a ELSE b

VARIABLES wpc,      \* writer: "idle", "check", "dec", "frame", "reset"
          left,     \* bytes of the slice still to write
          grant,    \* bytes granted by Dec, for the next frame
          wnd,      \* wnd.n
          due,      \* bytes read and not yet credited
          pipe,     \* unread bytes
          rclosed, wclosed,
          flowErr,  \* wnd closed and rclose, for a flow control error
          rpc,      \* read goroutine: "idle", "write", "close", "rst", and
                    \* "first", "last" for rst before close
          held,     \* bytes of DATA in its hands
          heldFin,  \* ... which came with FLAG_FIN
          resets,   \* Reset was called
          rsts,     \* goroutines with a RST_STREAM to write (go s.reset)
          wire,     \* frames on their way from an end to its peer
          \* Totals: bytes put into frames, taken from frames, taken from the
          \* pipe, thrown away; credit put into frames, taken from frames.
          sent, seen, taken, dropped, credited, applied

calls == <<wpc, left, grant>>
stream == <<wnd, pipe, rclosed, wclosed, flowErr>>
loop == <<rpc, held, heldFin>>
vars == <<calls, due, stream, loop, resets, rsts, wire,
          sent, seen, taken, dropped, credited, applied>>

All(v) == [e \in Ends |-> v]

Init ==
    /\ wpc = All("idle") /\ left = All(0) /\ grant = All(0)
    /\ wnd = All(InitWnd) /\ due = All(0) /\ pipe = All(0)
    /\ rclosed = All(FALSE) /\ wclosed = All(FALSE) /\ flowErr = All(FALSE)
    /\ rpc = All("idle") /\ held = All(0) /\ heldFin = All(FALSE)
    /\ resets = All(FALSE) /\ rsts = All(0) /\ wire = All(<<>>)
    /\ sent = All(0) /\ seen = All(0) /\ taken = All(0) /\ dropped = All(0)
    /\ credited = All(0) /\ applied = All(0)

--------------------------------------------------------------------------------
\* Frames.  at and credit are the totals of their sender behind this frame; the
\* receiver does not look at them.

Frame(e, k, n, d, f) ==
    [kind |-> k, bytes |-> n, delta |-> d, fin |-> f,
     at |-> sent[e] + n, credit |-> credited[e] + d]

Space(e) == Len(wire[e]) < Buf

\* Session.writeFrame, once there is room.
writeFrame(e, f) ==
    /\ Space(e)
    /\ wire' = [wire EXCEPT ![e] = Append(@, f)]

--------------------------------------------------------------------------------
\* The writing goroutine.

Write(e) ==
    /\ wpc[e] = "idle"
    /\ \E n \in Lens :
          /\ sent[e] + n <= MaxBytes
          /\ left' = [left EXCEPT ![e] = n]
    /\ wpc' = [wpc EXCEPT ![e] = "check"]
    /\ UNCHANGED <<grant, due, stream, loop, resets, rsts, wire,
                   sent, seen, taken, dropped, credited, applied>>

\* writeData, before it asks for the window.
WriteCheck(e) ==
    /\ wpc[e] = "check"
    /\ wpc' = [wpc EXCEPT ![e] = IF wclosed[e] THEN "idle" ELSE "dec"]
    /\ left' = [left EXCEPT ![e] = IF wclosed[e] THEN 0 ELSE @]
    /\ UNCHANGED <<grant, due, stream, loop, resets, rsts, wire,
                   sent, seen, taken, dropped, credited, applied>>

\* Variant: all of the slice is granted.
GrantAll(ask, n) == ask

\* semaphore.Dec: how much of what is asked for is granted.
Grant(ask, n) == Min2(ask, n)

\* wnd.Dec waits for credit or for the window to be closed; then writeData
\* resets the stream.
WriteDec(e) ==
    /\ wpc[e] = "dec"
    /\ \/ /\ wclosed[e] \/ flowErr[e]
          /\ wpc' = [wpc EXCEPT ![e] = "reset"]
          /\ UNCHANGED <<grant, wnd>>
       \/ /\ ~wclosed[e] /\ ~flowErr[e] /\ wnd[e] >= 1
          /\ grant' = [grant EXCEPT ![e] = Grant(left[e], wnd[e])]
          /\ wnd' = [wnd EXCEPT ![e] = @ - grant'[e]]
          /\ wpc' = [wpc EXCEPT ![e] = "frame"]
    /\ UNCHANGED <<left, due, pipe, rclosed, wclosed, flowErr, loop, resets, rsts, wire,
                   sent, seen, taken, dropped, credited, applied>>

\* The DATA frame is written; Write goes round again for the rest.
WriteFrameData(e) ==
    /\ wpc[e] = "frame"
    /\ writeFrame(e, Frame(e, "data", grant[e], 0, FALSE))
    /\ sent' = [sent EXCEPT ![e] = @ + grant[e]]
    /\ left' = [left EXCEPT ![e] = @ - grant[e]]
    /\ grant' = [grant EXCEPT ![e] = 0]
    /\ wpc' = [wpc EXCEPT ![e] = IF left'[e] = 0 THEN "idle" ELSE "check"]
    /\ UNCHANGED <<due, stream, loop, resets, rsts, seen, taken, dropped, credited, applied>>

\* Close: an empty DATA frame with FLAG_FIN.
Close(e) ==
    /\ wpc[e] = "idle" /\ ~wclosed[e]
    /\ writeFrame(e, Frame(e, "data", 0, 0, TRUE))
    /\ wclosed' = [wclosed EXCEPT ![e] = TRUE]
    /\ UNCHANGED <<calls, due, wnd, pipe, rclosed, flowErr, loop, resets, rsts,
                   sent, seen, taken, dropped, credited, applied>>

--------------------------------------------------------------------------------
\* The reading goroutine.

\* Variant: the length of the slice is credited.
CreditSlice(k, n) == k

\* Variant: a single byte is not worth a WINDOW_UPDATE.
CreditMany(k, n) == IF Min2(k, n) > 1 THEN Min2(k, n) ELSE 0

\* What Read passes to updateWindow after reading into a slice of k bytes.
Credit(k, n) == Min2(k, n)

\* Read takes bytes from the pipe.
Read(e) ==
    /\ due[e] = 0 /\ pipe[e] > 0
    /\ \E k \in ReadLens :
          /\ pipe' = [pipe EXCEPT ![e] = @ - Min2(k, @)]
          /\ taken' = [taken EXCEPT ![e] = @ + Min2(k, pipe[e])]
          /\ due' = [due EXCEPT ![e] = Credit(k, pipe[e])]
    /\ UNCHANGED <<calls, wnd, rclosed, wclosed, flowErr, loop, resets, rsts, wire,
                   sent, seen, dropped, credited, applied>>

\* updateWindow, before Read returns.
updateWindow(e) ==
    /\ due[e] > 0
    /\ writeFrame(e, Frame(e, "window", 0, due[e], FALSE))
    /\ credited' = [credited EXCEPT ![e] = @ + due[e]]
    /\ due' = [due EXCEPT ![e] = 0]
    /\ UNCHANGED <<calls, stream, loop, resets, rsts, sent, seen, taken, dropped, applied>>

\* Reset, by the reading goroutine between two reads or by writeData.
Reset(e) ==
    /\ \/ /\ wpc[e] = "reset"
          /\ wpc' = [wpc EXCEPT ![e] = "idle"]
          /\ left' = [left EXCEPT ![e] = 0]
       \/ due[e] = 0 /\ ~resets[e] /\ UNCHANGED <<wpc, left>>
    /\ writeFrame(e, Frame(e, "rst", 0, 0, FALSE))
    /\ rclosed' = [rclosed EXCEPT ![e] = TRUE]
    /\ wclosed' = [wclosed EXCEPT ![e] = TRUE]
    /\ resets' = [resets EXCEPT ![e] = TRUE]
    /\ UNCHANGED <<grant, due, wnd, pipe, flowErr, loop, rsts,
                   sent, seen, taken, dropped, credited, applied>>

--------------------------------------------------------------------------------
\* The read goroutine of e's session and the oldest frame on its way to e.

Arrives(e, k) == rpc[e] = "idle" /\ wire[Peer(e)] # <<>> /\ Head(wire[Peer(e)]).kind = k
Arrived(e) == Head(wire[Peer(e)])

Taken(e) ==
    /\ seen' = [seen EXCEPT ![e] = @ + Arrived(e).bytes]
    /\ applied' = [applied EXCEPT ![e] = @ + Arrived(e).delta]
    /\ wire' = [wire EXCEPT ![Peer(e)] = Tail(@)]

\* Variant: the read goroutine answers DATA itself, and waits for room.
handleDataAck(e) ==
    /\ Arrives(e, "data") /\ ~rclosed[e]
    /\ Taken(e)
    /\ pipe' = [pipe EXCEPT ![e] = Min2(@ + Arrived(e).bytes, InitWnd)]
    /\ rpc' = [rpc EXCEPT ![e] = "rst"]
    /\ UNCHANGED <<calls, due, wnd, rclosed, wclosed, flowErr, held, heldFin, resets, rsts,
                   sent, taken, dropped, credited>>

\* handleData finds the stream open for reading.
handleData(e) ==
    /\ Arrives(e, "data") /\ ~rclosed[e]
    /\ Taken(e)
    /\ held' = [held EXCEPT ![e] = Arrived(e).bytes]
    /\ heldFin' = [heldFin EXCEPT ![e] = Arrived(e).fin]
    /\ rpc' = [rpc EXCEPT ![e] = "write"]
    /\ UNCHANGED <<calls, due, stream, resets, rsts, sent, taken, dropped, credited>>

\* handleData after rclose, or on a stream that has left the table.
refuseData(e) ==
    /\ Arrives(e, "data") /\ rclosed[e]
    /\ Taken(e)
    /\ dropped' = [dropped EXCEPT ![e] = @ + Arrived(e).bytes]
    /\ rsts' = [rsts EXCEPT ![e] = @ + 1]
    /\ UNCHANGED <<calls, due, stream, loop, resets, sent, taken, credited>>

\* What pipe.Write takes: nothing once the pipe is closed, which Reset may have
\* done since handleData found it open.
Fits(e) == IF rclosed[e] THEN 0 ELSE Min2(held[e], InitWnd - pipe[e])

\* handleData, pipe.Write.
writePipe(e) ==
    LET failed == rclosed[e] \/ Fits(e) < held[e] IN
    /\ rpc[e] = "write"
    /\ pipe' = [pipe EXCEPT ![e] = @ + Fits(e)]
    /\ dropped' = [dropped EXCEPT ![e] = @ + (held[e] - Fits(e))]
    /\ rpc' = [rpc EXCEPT ![e] = IF failed THEN "close" ELSE "idle"]
    /\ rclosed' = [rclosed EXCEPT ![e] = @ \/ (heldFin[e] /\ ~failed)]
    /\ held' = [held EXCEPT ![e] = 0]
    /\ heldFin' = [heldFin EXCEPT ![e] = FALSE]
    /\ UNCHANGED <<calls, due, wnd, wclosed, flowErr, resets, rsts, wire,
                   sent, seen, taken, credited, applied>>

\* wnd.Close and rclose, before or after the RST_STREAM.
flowClose(e) ==
    /\ rpc[e] \in {"close", "last"}
    /\ rpc' = [rpc EXCEPT ![e] = IF @ = "close" THEN "rst" ELSE "idle"]
    /\ flowErr' = [flowErr EXCEPT ![e] = TRUE]
    /\ rclosed' = [rclosed EXCEPT ![e] = TRUE]
    /\ UNCHANGED <<calls, due, wnd, pipe, wclosed, held, heldFin, resets, rsts, wire,
                   sent, seen, taken, dropped, credited, applied>>

\* The read goroutine writes RST_STREAM itself, and waits for room.
flowReset(e) ==
    /\ rpc[e] \in {"rst", "first"}
    /\ writeFrame(e, Frame(e, "rst", 0, 0, FALSE))
    /\ rpc' = [rpc EXCEPT ![e] = IF @ = "rst" THEN "idle" ELSE "last"]
    /\ UNCHANGED <<calls, due, stream, held, heldFin, resets, rsts,
                   sent, seen, taken, dropped, credited, applied>>

\* handleWindowUpdate: ignored if the stream has left the table.
handleWindowUpdate(e) ==
    LET gone == rclosed[e] /\ wclosed[e]
        over == ~gone /\ wnd[e] + Arrived(e).delta > MaxInt
    IN
    /\ Arrives(e, "window")
    /\ Taken(e)
    /\ wnd' = [wnd EXCEPT ![e] = IF gone THEN @ ELSE @ + Arrived(e).delta]
    /\ rpc' = [rpc EXCEPT ![e] = IF over THEN "first" ELSE @]
    /\ UNCHANGED <<calls, due, pipe, rclosed, wclosed, flowErr, held, heldFin, resets, rsts,
                   sent, taken, dropped, credited>>

\* RST_STREAM is an unhandled frame.
ignoreRst(e) ==
    /\ Arrives(e, "rst")
    /\ Taken(e)
    /\ UNCHANGED <<calls, due, stream, loop, resets, rsts, sent, taken, dropped, credited>>

\* go s.reset(id, ...): the goroutine that refuses a frame.
spawnedReset(e) ==
    /\ rsts[e] > 0
    /\ writeFrame(e, Frame(e, "rst", 0, 0, FALSE))
    /\ rsts' = [rsts EXCEPT ![e] = @ - 1]
    /\ UNCHANGED <<calls, due, stream, loop, resets, sent, seen, taken, dropped, credited, applied>>

--------------------------------------------------------------------------------

Writing(e) == WriteCheck(e) \/ WriteDec(e) \/ WriteFrameData(e) \/ (wpc[e] = "reset" /\ Reset(e))
Reading(e) == Read(e) \/ updateWindow(e)
readLoop(e) ==
    \/ handleData(e) \/ refuseData(e) \/ writePipe(e) \/ flowClose(e) \/ flowReset(e)
    \/ handleWindowUpdate(e) \/ ignoreRst(e)

Next ==
    \E e \in Ends :
        \/ Write(e) \/ Close(e) \/ WriteCheck(e) \/ WriteDec(e) \/ WriteFrameData(e)
        \/ Reading(e) \/ Reset(e) \/ readLoop(e) \/ spawnedReset(e)

Spec == Init /\ [][Next]_vars

\* Goroutines that can run do, and applications read what arrives.
FairSpec ==
    /\ Spec
    /\ \A e \in Ends : WF_vars(Writing(e)) /\ WF_vars(Reading(e))
                       /\ WF_vars(readLoop(e)) /\ WF_vars(spawnedReset(e))

--------------------------------------------------------------------------------

TypeOK ==
    /\ wpc \in [Ends -> {"idle", "check", "dec", "frame", "reset"}]
    /\ left \in [Ends -> Nat] /\ grant \in [Ends -> Nat]
    /\ wnd \in [Ends -> 0..MaxInt] /\ pipe \in [Ends -> 0..InitWnd]
    /\ due \in [Ends -> Nat] /\ rsts \in [Ends -> Nat]
    /\ rclosed \in [Ends -> BOOLEAN] /\ wclosed \in [Ends -> BOOLEAN]
    /\ flowErr \in [Ends -> BOOLEAN] /\ resets \in [Ends -> BOOLEAN]
    /\ rpc \in [Ends -> {"idle", "write", "close", "rst", "first", "last"}]
    /\ held \in [Ends -> Nat] /\ heldFin \in [Ends -> BOOLEAN]
    /\ sent \in [Ends -> Nat] /\ seen \in [Ends -> Nat] /\ taken \in [Ends -> Nat]
    /\ dropped \in [Ends -> Nat] /\ credited \in [Ends -> Nat] /\ applied \in [Ends -> Nat]
    /\ wire \in [Ends -> Seq([kind : {"data", "window", "rst"}, bytes : Nat, delta : Nat,
                              fin : BOOLEAN, at : Nat, credit : Nat])]
    /\ \A e \in Ends : Len(wire[e]) <= Buf

\* Two endpoints of this package never exceed each other's window: DATA in the
\* hands of the read goroutine fits into what the pipe has left, and no
\* WINDOW_UPDATE overflows the window.  A flow control error is therefore met
\* only by an end whose own Reset closed the pipe between handleData's test and
\* pipe.Write (session.go:415-421, 423-436, 409-413).
NeverOverflows ==
    \A e \in Ends :
        /\ rpc[e] = "write" => pipe[e] + held[e] <= InitWnd
        /\ rpc[e] \notin {"first", "last"}
        /\ flowErr[e] \/ rpc[e] \in {"close", "rst"} => resets[e]

\* No credit is lost: once what an end wrote has been read and credited, its
\* window is what it was at first (session.go:342-357, 379).
WindowRestored ==
    \A e \in Ends :
        /\ wire[e] = <<>> /\ wire[Peer(e)] = <<>>
        /\ grant[e] = 0 /\ pipe[Peer(e)] = 0 /\ due[Peer(e)] = 0 /\ held[Peer(e)] = 0
        /\ ~rclosed[e] /\ ~rclosed[Peer(e)]
        => wnd[e] = InitWnd

\* Write returns if the peer's application reads and does not reset the stream,
\* however little the transport holds and whatever goes the other way
\* (session.go:362-389, 343-347, 150-171).
WriteReturns ==
    \A e \in Ends : wpc[e] # "idle" ~> wpc[e] = "idle" \/ resets[Peer(e)]

\* A read goroutine that writes RST_STREAM itself goes on to read frames, unless
\* both ends reset the stream and the two wait for each other to read
\* (session.go:430-432, 140-147).
ReadLoopContinues ==
    \A e \in Ends : rpc[e] # "idle" ~> rpc[e] = "idle" \/ (resets[e] /\ resets[Peer(e)])

\* "Reset sends RST_STREAM, closing the stream and indicating an error
\* condition." (session.go:407-408): a Write on the other end of the stream
\* returns.
ResetEndsWrites ==
    \A e \in Ends : resets[Peer(e)] /\ wpc[e] # "idle" ~> wpc[e] = "idle"
================================================================================
