---------------------------------- MODULE Pipe ----------------------------------
(***************************************************************************)
(* spdyframing/buffer.go and spdyframing/pipe.go: the receive buffer of    *)
(* one stream.  The buffer is a fixed array with a read and a write index  *)
(* that slides unread data to the front when a write would not fit; the    *)
(* pipe wraps it in a mutex and a condition variable on which Read waits.  *)
(* Each method holds the mutex to its return, or to Cond.Wait in Read, so  *)
(* it is one step.                                                         *)
(*                                                                         *)
(* The callers are those of spdyframing/session.go.  The read goroutine    *)
(* writes the payload of each DATA frame and then, in a step of its own,   *)
(* closes the pipe: with errFlowControl after a failed write, with io.EOF  *)
(* after FLAG_FIN (Stream.handleData; once it has closed the stream for    *)
(* reading its check of rclosed keeps it from writing again).  Any other   *)
(* goroutine may close the pipe at any time (Reset, teardown).  Readers    *)
(* call Read.  Payload bytes are numbered 1, 2, 3, ... in the order the    *)
(* frames offer them, so a lost, duplicated or reordered byte shows.       *)
(***************************************************************************)
EXTENDS Integers, Sequences

CONSTANTS Readers,     \* goroutines that call Read
          Cap,         \* len(buf): defaultInitWnd in the code
          WriteLens,   \* payload lengths of DATA frames
          ReadLens,    \* lengths of the slices passed to Read
          Causes,      \* errors of Close by other goroutines
          EOF,         \* io.EOF
          FlowErr,     \* errFlowControl
          Open,        \* no error: the buffer is not closed
          Pending,     \* the result of a Read that has not returned
          Nil,         \* the nil error
          ErrReadEmpty,\* errReadEmpty
          MaxBytes     \* bound: payload bytes offered in a run

ASSUME PipeAssumption ==
    /\ Cap \in Nat
    /\ WriteLens \subseteq Nat /\ ReadLens \subseteq Nat
    /\ MaxBytes \in Nat
    /\ EOF \notin Causes /\ Open \notin Causes \cup {EOF, FlowErr}
    /\ FlowErr # EOF
    /\ EOF \notin {Pending, Nil, ErrReadEmpty}

VARIABLES buf,       \* buffer.buf, indexed from 0
          r, w,      \* buffer.r, buffer.w
          err,       \* buffer.closed and .err: Open, or the first error
          wpc,       \* read goroutine: "idle", "failed", "fin" or "done"
          pc,        \* per reader: "idle", "try" (runnable in Read), "wait"
          rlen,      \* per reader: len(p) of the current Read
          res,       \* per reader: error result of its last Read
          offered,   \* history: payload bytes offered to Write
          got        \* history: the bytes Read has returned, in order

vars == <<buf, r, w, err, wpc, pc, rlen, res, offered, got>>

Slots == 0..(Cap - 1)
Min2(a, b) == IF a < b THEN a ELSE b

Init ==
    /\ buf = [i \in Slots |-> 0]
    /\ r = 0 /\ w = 0
    /\ err = Open
    /\ wpc = "idle"
    /\ pc = [t \in Readers |-> "idle"]
    /\ rlen = [t \in Readers |-> 0]
    /\ res = [t \in Readers |-> Nil]
    /\ offered = 0
    /\ got = <<>>

\* sync.Cond.Signal: one waiting reader, if there is one, becomes runnable.
Signal ==
    IF \E t \in Readers : pc[t] = "wait"
    THEN \E t \in Readers : pc[t] = "wait" /\ pc' = [pc EXCEPT ![t] = "try"]
    ELSE UNCHANGED pc

--------------------------------------------------------------------------------
\* buffer.Write

\* The unread data is moved to the front when len(p) > len(buf) - w.
MustSlide(k) == r > 0 /\ k > Cap - w

\* The index at which unread data starts once room has been made.
Base(k) == IF MustSlide(k) THEN 0 ELSE r

\* Variant: the copy of the slide starts one slot late.
SlidOffByOne(k) ==
    IF MustSlide(k)
    THEN [i \in Slots |-> IF i < w - r /\ r + i + 1 < Cap THEN buf[r + i + 1] ELSE buf[i]]
    ELSE buf

\* copy(b.buf, b.buf[b.r:b.w])
Slid(k) ==
    IF MustSlide(k)
    THEN [i \in Slots |-> IF i < w - r THEN buf[r + i] ELSE buf[i]]
    ELSE buf

\* Variant: the copy is not limited by the room left in the array.
CopiedUnbounded(k) == k

\* n = copy(b.buf[b.w:], p)
Copied(k) == Min2(k, Cap - (w - r + Base(k)))

\* pipe.Write on an open buffer; handleData goes on to close the stream when
\* it did not fit, and when the frame carries FLAG_FIN.
WriteOpen(k, fin) ==
    LET b == Base(k)
        e == b + (w - r)
        n == Copied(k)
    IN  /\ err = Open
        /\ r' = b
        /\ w' = e + n
        /\ buf' = [i \in Slots |->
                      IF i \in e..(e + n - 1) THEN offered + 1 + (i - e)
                      ELSE Slid(k)[i]]
        /\ wpc' = IF n < k THEN "failed" ELSE IF fin THEN "fin" ELSE "idle"

\* pipe.Write on a closed buffer: nothing is copied and an error returned.
WriteClosed ==
    /\ err # Open
    /\ wpc' = "failed"
    /\ UNCHANGED <<buf, r, w>>

Write(k, fin) ==
    /\ wpc = "idle"
    /\ offered + k <= MaxBytes
    /\ WriteOpen(k, fin) \/ WriteClosed
    /\ offered' = offered + k
    /\ Signal
    /\ UNCHANGED <<err, rlen, res, got>>

--------------------------------------------------------------------------------
\* buffer.Close: the first error stays.  pipe.Close always signals.

CloseLastWins(e) ==
    /\ err' = e
    /\ Signal
    /\ UNCHANGED <<buf, r, w, rlen, res, offered, got>>

CloseNoSignal(e) ==
    /\ err' = IF err = Open THEN e ELSE err
    /\ UNCHANGED <<buf, r, w, pc, rlen, res, offered, got>>

Close(e) ==
    /\ err' = IF err = Open THEN e ELSE err
    /\ Signal
    /\ UNCHANGED <<buf, r, w, rlen, res, offered, got>>

\* handleData: s.rclose(errFlowControl) after a failed write, s.rclose(io.EOF)
\* after the last frame.
CloseByWriter ==
    /\ wpc \in {"failed", "fin"}
    /\ wpc' = "done"
    /\ Close(IF wpc = "failed" THEN FlowErr ELSE EOF)

CloseByOther(e) == Close(e) /\ UNCHANGED wpc

--------------------------------------------------------------------------------
\* pipe.Read

ReadCall(t, k) ==
    /\ pc[t] = "idle"
    /\ pc' = [pc EXCEPT ![t] = "try"]
    /\ rlen' = [rlen EXCEPT ![t] = k]
    /\ res' = [res EXCEPT ![t] = Pending]
    /\ UNCHANGED <<buf, r, w, err, wpc, offered, got>>

\* Nothing to read and not closed: the reader parks in Cond.Wait.
ReadWait(t) ==
    /\ pc[t] = "try"
    /\ r = w /\ err = Open
    /\ pc' = [pc EXCEPT ![t] = "wait"]
    /\ UNCHANGED <<buf, r, w, err, wpc, rlen, res, offered, got>>

\* Variant: the closing error is returned without draining the buffer.
ReadResultEager(n) == IF err # Open THEN err ELSE Nil

\* The error buffer.Read returns along with n bytes.
ReadResult(n) ==
    IF r + n = w /\ err # Open THEN err
    ELSE IF r + n = w /\ n = 0 THEN ErrReadEmpty
    ELSE Nil

ReadReturn(t) ==
    LET n == Min2(rlen[t], w - r) IN
    /\ pc[t] = "try"
    /\ r # w \/ err # Open
    /\ r' = r + n
    /\ got' = got \o [i \in 1..n |-> buf[r + i - 1]]
    /\ res' = [res EXCEPT ![t] = ReadResult(n)]
    /\ pc' = [pc EXCEPT ![t] = "idle"]
    /\ UNCHANGED <<buf, w, err, wpc, rlen, offered>>

Next ==
    \/ \E k \in WriteLens, fin \in BOOLEAN : Write(k, fin)
    \/ CloseByWriter
    \/ \E e \in Causes : CloseByOther(e)
    \/ \E t \in Readers, k \in ReadLens : ReadCall(t, k)
    \/ \E t \in Readers : ReadWait(t) \/ ReadReturn(t)

Spec == Init /\ [][Next]_vars

\* A runnable goroutine is scheduled: a reader inside Read, and the close the
\* read goroutine performs after a write.  Frames, closes by others and new
\* calls are the environment's choice.
Fairness ==
    /\ \A t \in Readers : WF_vars(ReadWait(t) \/ ReadReturn(t))
    /\ WF_vars(CloseByWriter)

FairSpec == Spec /\ Fairness

--------------------------------------------------------------------------------

TypeOK ==
    /\ buf \in [Slots -> Nat]
    /\ r \in 0..w /\ w \in 0..Cap
    /\ err \in Causes \cup {EOF, FlowErr, Open}
    /\ wpc \in {"idle", "failed", "fin", "done"}
    /\ pc \in [Readers -> {"idle", "try", "wait"}]
    /\ rlen \in [Readers -> Nat]
    /\ res \in [Readers -> Causes \cup {EOF, FlowErr, Pending, Nil, ErrReadEmpty}]
    /\ offered \in Nat
    /\ got \in Seq(Nat)

\* The bytes returned by Read are the payload bytes in the order the frames
\* offered them: sliding, partial reads and a write that only partly fits
\* lose, repeat or reorder nothing (buffer.go:23-60).
Delivered == \A i \in DOMAIN got : got[i] = i

\* Reading io.EOF means that the whole body was read: data still buffered at
\* the FIN is drained first, and neither a failed write nor a racing close
\* can turn a truncated body into a clean end (buffer.go:26,65-70,
\* session.go:428-434).
EOFMeansAll == \A t \in Readers : res[t] = EOF => Len(got) = offered

\* No reader sleeps in Cond.Wait while there is data or the buffer is closed:
\* Signal, not Broadcast, suffices for one reader (pipe.go:29,36).
NoLostWakeup ==
    \A t \in Readers : pc[t] = "wait" => (r = w /\ err = Open)

\* A reader inside Read returns once there is data or the buffer is closed.
ReadReturns ==
    \A t \in Readers :
        (pc[t] # "idle" /\ (r # w \/ err # Open)) ~> (pc[t] = "idle")

\* The pipe implements the abstract bounded queue: slides do not show.
BQ == INSTANCE ByteQueue
        WITH q <- [i \in 1..(w - r) |-> buf[r + i - 1]], cause <- err
ImplementsByteQueue == BQ!Spec
================================================================================
