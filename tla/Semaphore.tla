------------------------------- MODULE Semaphore -------------------------------
(***************************************************************************)
(* spdyframing/semaphore.go: the send window of one stream.  A fixed-width *)
(* signed counter, a closed flag with the error of the first Close, and a  *)
(* condition variable on which writers wait.  Every method holds the mutex *)
(* from entry to return, or to Cond.Wait, so a method is one step here and *)
(* only the wait in Dec splits one.                                        *)
(*                                                                         *)
(* The callers are those of spdyframing/session.go: writers call Dec       *)
(* (Stream.writeData); the read goroutine calls Inc for each WINDOW_UPDATE *)
(* and, when Inc fails, closes the window (Stream.handleWindowUpdate); any *)
(* goroutine may close it (wclose, the teardown of Session.read).          *)
(***************************************************************************)
EXTENDS Integers

CONSTANTS Writers,    \* goroutines that call Dec
          Width,      \* bits of the counter (32 in the code)
          InitWnd,    \* Session.initwnd when the stream was made
          Asks,       \* lengths writers ask for: int32(len(p))
          Deltas,     \* DeltaWindowSize values on the wire (unsigned)
          Causes,     \* errors passed to Close by other goroutines
          FlowErr,    \* errFlowControl
          Open,       \* no error: the semaphore is not closed
          MaxCredit   \* bound: total credit the peer may give in a run

MaxInt == 2^(Width - 1) - 1
MinInt == -(2^(Width - 1))

\* Variant of AddInt that does not wrap.
AddIntNoWrap(a, b) == a + b

\* A signed two's complement addition of the given width.
AddInt(a, b) ==
    IF a + b > MaxInt THEN a + b - 2^Width
    ELSE IF a + b < MinInt THEN a + b + 2^Width
    ELSE a + b

\* int32(f.DeltaWindowSize): the conversion in Session.handleWindowUpdate.
Int32(u) == IF u > MaxInt THEN u - 2^Width ELSE u

Min2(a, b) == IF a < b THEN a ELSE b

\* A writer asks for at least one byte (Write's loop) and for fewer than
\* 2^31; initwnd passed the test in Session.set; a delta is an unsigned word.
ASSUME SemaphoreAssumption ==
    /\ Width \in Nat \ {0}
    /\ MaxInt \in Nat /\ MinInt \in Int /\ MinInt = -MaxInt - 1
    /\ 2^Width = 2 * MaxInt + 2
    /\ InitWnd \in 0..MaxInt
    /\ Asks \subseteq 1..MaxInt
    /\ Deltas \subseteq 0..(2 * MaxInt + 1)
    /\ FlowErr \in Causes /\ Open \notin Causes
    /\ MaxCredit \in Nat

VARIABLES n,        \* semaphore.n
          err,      \* semaphore.closed and .err: Open, or the first error
          pc,       \* per writer: "idle", "try" (runnable in Dec), "wait"
          ask,      \* per writer: the argument of the current Dec
          failed,   \* the read goroutine's Inc failed, its Close is due
          granted,  \* history: bytes granted by Dec
          credit    \* history: bytes of increments Inc accepted

vars == <<n, err, pc, ask, failed, granted, credit>>

Init ==
    /\ n = InitWnd
    /\ err = Open
    /\ pc = [t \in Writers |-> "idle"]
    /\ ask = [t \in Writers |-> 0]
    /\ failed = FALSE
    /\ granted = 0
    /\ credit = 0

\* sync.Cond.Signal: one waiter, if there is one, becomes runnable.
Signal ==
    IF \E t \in Writers : pc[t] = "wait"
    THEN \E t \in Writers : pc[t] = "wait" /\ pc' = [pc EXCEPT ![t] = "try"]
    ELSE UNCHANGED pc

\* Variants of the code with one plausible defect each; no action uses them.
IncFailsNoWrapTest(prev, d) == d < 1

DecReturnNoClamp(t) ==
    /\ pc[t] = "try"
    /\ n >= 1 \/ err # Open
    /\ pc' = [pc EXCEPT ![t] = "idle"]
    /\ IF err # Open
       THEN UNCHANGED <<n, granted>>
       ELSE n' = n - ask[t] /\ granted' = granted + ask[t]
    /\ UNCHANGED <<err, ask, failed, credit>>

CloseNoSignal(e) ==
    /\ err' = IF err = Open THEN e ELSE err
    /\ UNCHANGED <<n, ask, granted, credit, pc>>

CloseLastWins(e) ==
    /\ err' = e
    /\ Signal
    /\ UNCHANGED <<n, ask, granted, credit>>

\* A writer enters Dec.
DecCall(t, k) ==
    /\ pc[t] = "idle"
    /\ pc' = [pc EXCEPT ![t] = "try"]
    /\ ask' = [ask EXCEPT ![t] = k]
    /\ UNCHANGED <<n, err, failed, granted, credit>>

\* The loop condition holds: the writer parks in Cond.Wait.
DecWait(t) ==
    /\ pc[t] = "try"
    /\ n < 1 /\ err = Open
    /\ pc' = [pc EXCEPT ![t] = "wait"]
    /\ UNCHANGED <<n, err, ask, failed, granted, credit>>

\* Dec returns: with the closing error, or with at most what is available.
DecReturn(t) ==
    /\ pc[t] = "try"
    /\ n >= 1 \/ err # Open
    /\ pc' = [pc EXCEPT ![t] = "idle"]
    /\ IF err # Open
       THEN UNCHANGED <<n, granted>>
       ELSE LET k == Min2(n, ask[t])
            IN  n' = n - k /\ granted' = granted + k
    /\ UNCHANGED <<err, ask, failed, credit>>

\* Inc(d) fails on a non-positive increment and on a wrapped counter, but
\* only after the counter has been changed.
IncFails(prev, d) == d < 1 \/ (prev > 0 /\ AddInt(prev, d) < 0)

\* handleWindowUpdate, first half: Inc, which always signals.
Inc(u) ==
    LET d == Int32(u) IN
    /\ ~failed
    /\ n' = AddInt(n, d)
    /\ failed' = IncFails(n, d)
    /\ credit' = IF IncFails(n, d) THEN credit ELSE credit + d
    /\ credit' <= MaxCredit
    /\ Signal
    /\ UNCHANGED <<err, ask, granted>>

\* Close(e): the first error stays; always signals.
Close(e) ==
    /\ err' = IF err = Open THEN e ELSE err
    /\ Signal
    /\ UNCHANGED <<n, ask, granted, credit>>

\* handleWindowUpdate, second half: st.wnd.Close(errFlowControl).
CloseAfterFailure ==
    /\ failed
    /\ failed' = FALSE
    /\ Close(FlowErr)

\* wclose, or the teardown of Session.read.
CloseByOther(e) == Close(e) /\ UNCHANGED failed

Next ==
    \/ \E t \in Writers, k \in Asks : DecCall(t, k)
    \/ \E t \in Writers : DecWait(t) \/ DecReturn(t)
    \/ \E u \in Deltas : Inc(u)
    \/ CloseAfterFailure
    \/ \E e \in Causes : CloseByOther(e)

Spec == Init /\ [][Next]_vars

\* A runnable goroutine is scheduled: writers inside Dec and the read
\* goroutine's pending Close.  Calls, credit and other closes are the
\* environment's choice and get no fairness.
Fairness ==
    /\ \A t \in Writers : WF_vars(DecWait(t) \/ DecReturn(t))
    /\ WF_vars(CloseAfterFailure)

FairSpec == Spec /\ Fairness

--------------------------------------------------------------------------------

TypeOK ==
    /\ n \in MinInt..MaxInt
    /\ err \in Causes \cup {Open}
    /\ pc \in [Writers -> {"idle", "try", "wait"}]
    /\ ask \in [Writers -> 0..MaxInt]
    /\ \A t \in Writers : pc[t] # "idle" => ask[t] >= 1
    /\ failed \in BOOLEAN
    /\ granted \in Nat
    /\ credit \in Nat

\* The bytes Dec has granted never exceed the initial window plus the credit
\* the peer gave, through every wrap of the int32 counter, every malformed
\* delta and every grant that slips in between a failed Inc and the Close
\* that follows it (semaphore.go:16-44, session.go:415-421).
WindowRespected == granted <= InitWnd + credit

\* While the window is open and no failed Inc is pending, the counter is
\* exactly the unused credit: Inc never reports success for a sum that
\* wrapped (semaphore.go:37-42), and Dec takes what it returns.
CounterExact ==
    (err = Open /\ ~failed) => (n >= 0 /\ n + granted = InitWnd + credit)

\* No writer sleeps in Cond.Wait while it could return.  Dec's loop, and the
\* Signal rather than Broadcast in Inc and Close (semaphore.go:35,49), are
\* right for the one concurrent writer the Stream contract allows
\* (session.go:282-283).
NoLostWakeup ==
    \A t \in Writers : pc[t] = "wait" => (n < 1 /\ err = Open)

\* A writer inside Dec returns once the window has bytes or is closed.
DecReturns ==
    \A t \in Writers :
        (pc[t] # "idle" /\ (n >= 1 \/ err # Open)) ~> (pc[t] = "idle")

\* The semaphore implements the abstract send window.
SW == INSTANCE SendWindow WITH cause <- err
ImplementsSendWindow == SW!Spec

================================================================================
