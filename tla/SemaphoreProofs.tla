---------------------------- MODULE SemaphoreProofs ----------------------------
(***************************************************************************)
(* Proofs about Semaphore for every width, every set of writers and every  *)
(* set of deltas.  The inductive invariant is AccountInv: the exact        *)
(* equation between counter, grants and credit holds only while the window *)
(* is open and no failed Inc is pending, and weakens to an inequality in   *)
(* the gap between the failed Inc and the Close, where a grant may slip in.*)
(***************************************************************************)
EXTENDS Semaphore, TLAPS

\* AddInt is closed on the signed range, and agrees with + when it does not
\* leave the range.
LEMMA AddIntRange ==
    ASSUME NEW a \in MinInt..MaxInt, NEW b \in MinInt..MaxInt
    PROVE  /\ AddInt(a, b) \in MinInt..MaxInt
           /\ a + b \in MinInt..MaxInt => AddInt(a, b) = a + b
           /\ a + b > MaxInt => AddInt(a, b) = a + b - (2 * MaxInt + 2)
    BY SemaphoreAssumption DEF AddInt

\* The conversion of a wire value lands in the signed range.
LEMMA Int32Range ==
    ASSUME NEW u \in Deltas
    PROVE  Int32(u) \in MinInt..MaxInt
    BY SemaphoreAssumption DEF Int32

\* Signal moves at most one writer, from "wait" to "try".
LEMMA SignalStep ==
    ASSUME TypeOK, Signal
    PROVE  /\ pc' \in [Writers -> {"idle", "try", "wait"}]
           /\ \A t \in Writers : pc'[t] = "wait" => pc[t] = "wait"
           /\ \A t \in Writers : pc'[t] # "idle" <=> pc[t] # "idle"
    BY DEF TypeOK, Signal

\* A new semaphore has the types (newStream, session.go:304-313).
LEMMA InitType == Init => TypeOK
<1> SUFFICES ASSUME Init PROVE TypeOK
    OBVIOUS
<1>1. failed \in BOOLEAN
    BY Zenon DEF Init
<1>2. n \in MinInt..MaxInt
    BY SemaphoreAssumption DEF Init
<1>3. /\ err \in Causes \cup {Open} /\ granted \in Nat /\ credit \in Nat
      /\ pc \in [Writers -> {"idle", "try", "wait"}]
      /\ \A t \in Writers : pc[t] = "idle"
    BY DEF Init
<1>4. ask \in [Writers -> 0..MaxInt]
    BY SemaphoreAssumption DEF Init
<1> QED
    BY <1>1, <1>2, <1>3, <1>4 DEF TypeOK

\* Every method keeps the types: the counter wraps and stays in range.
LEMMA NextType == TypeOK /\ [Next]_vars => TypeOK'
<1> SUFFICES ASSUME TypeOK, [Next]_vars PROVE TypeOK'
    OBVIOUS
<1>1. ASSUME NEW t \in Writers, NEW k \in Asks, DecCall(t, k) PROVE TypeOK'
    BY <1>1, SemaphoreAssumption DEF TypeOK, DecCall
<1>2. ASSUME NEW t \in Writers, DecWait(t) PROVE TypeOK'
    BY <1>2 DEF TypeOK, DecWait
<1>3. ASSUME NEW t \in Writers, DecReturn(t) PROVE TypeOK'
    BY <1>3, SemaphoreAssumption DEF TypeOK, DecReturn, Min2
<1>4. ASSUME NEW u \in Deltas, Inc(u) PROVE TypeOK'
  <2>1. n' \in MinInt..MaxInt
    BY <1>4, AddIntRange, Int32Range DEF TypeOK, Inc
  <2>2. credit' \in Nat
    BY <1>4, Int32Range, SemaphoreAssumption DEF TypeOK, Inc, IncFails
  <2>3. failed' \in BOOLEAN
    BY <1>4 DEF Inc, IncFails
  <2> QED
    BY <1>4, <2>1, <2>2, <2>3, SignalStep DEF TypeOK, Inc
<1>5. ASSUME NEW e \in Causes, Close(e), failed' \in BOOLEAN PROVE TypeOK'
    BY <1>5, SignalStep DEF TypeOK, Close
<1>6. CASE CloseAfterFailure
    BY <1>6, <1>5, SemaphoreAssumption DEF CloseAfterFailure
<1>7. ASSUME NEW e \in Causes, CloseByOther(e) PROVE TypeOK'
    BY <1>7, <1>5 DEF CloseByOther, TypeOK
<1>8. CASE UNCHANGED vars
    BY <1>8 DEF TypeOK, vars
<1> QED
    BY <1>1, <1>2, <1>3, <1>4, <1>6, <1>7, <1>8 DEF Next

\* The type invariant holds in every reachable state: in particular the
\* counter stays in the range of its type.
THEOREM TypeCorrect == Spec => []TypeOK
    BY InitType, NextType, PTL DEF Spec

--------------------------------------------------------------------------------

AccountInv ==
    /\ WindowRespected
    /\ err = Open => n + granted <= InitWnd + credit
    /\ CounterExact

\* A new semaphore has granted nothing and holds its initial window.
LEMMA InitAccount == Init => AccountInv
    BY SemaphoreAssumption DEF Init, AccountInv, WindowRespected, CounterExact

\* Dec takes what it grants, Inc adds what it accepts; a counter that a failed
\* Inc has wrapped is no larger than before (semaphore.go:16-44).
LEMMA NextAccount == TypeOK /\ AccountInv /\ [Next]_vars => AccountInv'
<1> SUFFICES ASSUME TypeOK, AccountInv, [Next]_vars PROVE AccountInv'
    OBVIOUS
<1> USE DEF AccountInv, WindowRespected, CounterExact
<1>1. ASSUME NEW t \in Writers, NEW k \in Asks, DecCall(t, k) PROVE AccountInv'
    BY <1>1 DEF DecCall
<1>2. ASSUME NEW t \in Writers, DecWait(t) PROVE AccountInv'
    BY <1>2 DEF DecWait
<1>3. ASSUME NEW t \in Writers, DecReturn(t) PROVE AccountInv'
    BY <1>3, SemaphoreAssumption DEF TypeOK, DecReturn, Min2
<1>4. ASSUME NEW u \in Deltas, Inc(u) PROVE AccountInv'
  <2> DEFINE d == Int32(u)
  <2>1. d \in MinInt..MaxInt /\ n \in MinInt..MaxInt
    BY Int32Range DEF TypeOK
  <2> HIDE DEF d
  <2>a. err = Open => n >= 0
    BY <1>4 DEF Inc
  <2>b. n' = AddInt(n, d) /\ n' \in MinInt..MaxInt
    BY <1>4, <2>1, AddIntRange DEF Inc, d
  <2>2. CASE IncFails(n, d)
    \* The counter moves down: the increment is not positive, or it wrapped.
    <3>0. /\ MaxInt \in Nat /\ MinInt = -MaxInt - 1
          /\ n + d \in MinInt..MaxInt => n' = n + d
          /\ n + d > MaxInt => n' = n + d - (2 * MaxInt + 2)
      BY <2>1, <2>b, AddIntRange, SemaphoreAssumption
    <3>1. err = Open => n' <= n
      BY <2>a, <2>b, <2>1, <2>2, <3>0 DEF IncFails
    <3>2. failed' /\ UNCHANGED <<credit, granted, err>>
      BY <1>4, <2>2, Zenon DEF Inc, d
    <3> QED
      BY <2>1, <2>b, <3>1, <3>2, SemaphoreAssumption DEF TypeOK
  <2>3. CASE ~IncFails(n, d)
    \* A success on a non-negative counter is the exact sum.
    <3>1. n >= 0 => n' = n + d
      BY <1>4, <2>1, <2>3, AddIntRange, SemaphoreAssumption DEF Inc, IncFails, d
    <3>2. /\ credit' = credit + d /\ UNCHANGED <<granted, err>>
          /\ ~failed /\ ~failed'
      BY <1>4, <2>3, Zenon DEF Inc, d
    <3>3. d >= 1
      BY <2>1, <2>3, SemaphoreAssumption DEF IncFails
    <3> QED
      BY <2>1, <3>1, <3>2, <3>3, SemaphoreAssumption DEF TypeOK
  <2> QED
    BY <2>2, <2>3
<1>5. ASSUME NEW e \in Causes, Close(e) PROVE AccountInv'
    BY <1>5, SemaphoreAssumption DEF Close
<1>6. CASE CloseAfterFailure
    BY <1>6, <1>5, SemaphoreAssumption DEF CloseAfterFailure
<1>7. ASSUME NEW e \in Causes, CloseByOther(e) PROVE AccountInv'
    BY <1>7, <1>5 DEF CloseByOther
<1>8. CASE UNCHANGED vars
    BY <1>8 DEF vars
<1> QED
    BY <1>1, <1>2, <1>3, <1>4, <1>6, <1>7, <1>8 DEF Next

\* The counter never holds more than the credit left, also between a failed Inc
\* and the Close that follows it (semaphore.go:37-42, session.go:416-418).
THEOREM Accounting == Spec => []AccountInv
    BY InitType, NextType, InitAccount, NextAccount, PTL DEF Spec

\* The bytes granted never exceed the initial window plus the peer's credit,
\* for every counter width and any number of concurrent writers.
THEOREM GrantsCovered == Spec => []WindowRespected
    BY Accounting, PTL DEF AccountInv

\* While the window is open the counter is exactly the unused credit.
THEOREM CounterIsExact == Spec => []CounterExact
    BY Accounting, PTL DEF AccountInv

--------------------------------------------------------------------------------

\* With the one writer the Stream contract allows, Signal is enough: a writer
\* asleep in Cond.Wait has nothing to take and nothing to be told.
THEOREM SignalSuffices ==
    ASSUME \A a, b \in Writers : a = b
    PROVE  Spec => []NoLostWakeup
<1>1. Init => NoLostWakeup
    BY DEF Init, NoLostWakeup
<1>2. TypeOK /\ NoLostWakeup /\ [Next]_vars => NoLostWakeup'
  <2> SUFFICES ASSUME TypeOK, NoLostWakeup, [Next]_vars PROVE NoLostWakeup'
      OBVIOUS
  <2> USE DEF NoLostWakeup
  <2>1. ASSUME NEW t \in Writers, NEW k \in Asks, DecCall(t, k) PROVE NoLostWakeup'
      BY <2>1 DEF DecCall, TypeOK
  <2>2. ASSUME NEW t \in Writers, DecWait(t) PROVE NoLostWakeup'
      BY <2>2 DEF DecWait, TypeOK
  <2>3. ASSUME NEW t \in Writers, DecReturn(t) PROVE NoLostWakeup'
      \* The only writer is the one returning.
      BY <2>3 DEF DecReturn, TypeOK
  <2>4. ASSUME Signal PROVE \A t \in Writers : pc'[t] # "wait"
      \* The only possible waiter is the one signalled.
      BY <2>4 DEF Signal, TypeOK
  <2>5. ASSUME NEW u \in Deltas, Inc(u) PROVE NoLostWakeup'
      BY <2>4, <2>5 DEF Inc
  <2>6. ASSUME NEW e \in Causes, Close(e) PROVE NoLostWakeup'
      BY <2>4, <2>6 DEF Close
  <2>7. CASE CloseAfterFailure
      BY <2>6, <2>7, SemaphoreAssumption DEF CloseAfterFailure
  <2>8. ASSUME NEW e \in Causes, CloseByOther(e) PROVE NoLostWakeup'
      BY <2>6, <2>8 DEF CloseByOther
  <2>9. CASE UNCHANGED vars
      BY <2>9 DEF vars
  <2> QED
      BY <2>1, <2>2, <2>3, <2>5, <2>7, <2>8, <2>9 DEF Next
<1> QED
    BY <1>1, <1>2, InitType, NextType, PTL DEF Spec

--------------------------------------------------------------------------------

\* Every step of the semaphore is a step of the abstract send window or
\* leaves it unchanged.
LEMMA StepRefines ==
    TypeOK /\ AccountInv /\ [Next]_vars /\ TypeOK' /\ AccountInv'
        => [SW!Next]_(SW!vars)
<1> SUFFICES ASSUME TypeOK, AccountInv, [Next]_vars, TypeOK', AccountInv'
             PROVE  [SW!Next]_(SW!vars)
    OBVIOUS
<1> USE DEF SW!vars
<1>1. ASSUME NEW t \in Writers, NEW k \in Asks, DecCall(t, k) PROVE UNCHANGED SW!vars
    BY <1>1 DEF DecCall
<1>2. ASSUME NEW t \in Writers, DecWait(t) PROVE UNCHANGED SW!vars
    BY <1>2 DEF DecWait
<1>3. ASSUME NEW t \in Writers, DecReturn(t) PROVE SW!Grant \/ UNCHANGED SW!vars
  <2>1. CASE err # Open
    BY <1>3, <2>1 DEF DecReturn
  <2>2. CASE err = Open
    <3>1. n >= 1 /\ ask[t] >= 1
      BY <1>3, <2>2 DEF DecReturn, TypeOK
    <3>2. granted' = granted + Min2(n, ask[t]) /\ UNCHANGED <<credit, err>>
      BY <1>3, <2>2 DEF DecReturn
    <3>3. granted' > granted
      BY <3>1, <3>2 DEF TypeOK, Min2
    <3> QED
      BY <2>2, <3>2, <3>3 DEF SW!Grant, TypeOK, AccountInv, WindowRespected
  <2> QED
    BY <2>1, <2>2
<1>4. ASSUME NEW u \in Deltas, Inc(u) PROVE SW!Credit \/ UNCHANGED SW!vars
    BY <1>4, Int32Range, SemaphoreAssumption DEF Inc, IncFails, SW!Credit, TypeOK
<1>5. ASSUME NEW e \in Causes, Close(e) PROVE SW!Shut(e) \/ UNCHANGED SW!vars
    BY <1>5 DEF Close, SW!Shut
<1>6. ASSUME CloseAfterFailure PROVE SW!Shut(FlowErr) \/ UNCHANGED SW!vars
    BY <1>5, <1>6, SemaphoreAssumption DEF CloseAfterFailure
<1>7. ASSUME NEW e \in Causes, CloseByOther(e) PROVE SW!Shut(e) \/ UNCHANGED SW!vars
    BY <1>5, <1>7 DEF CloseByOther
<1>8. CASE UNCHANGED vars
    BY <1>8 DEF vars
<1> QED
    BY <1>1, <1>2, <1>3, <1>4, <1>6, <1>7, <1>8, SemaphoreAssumption
       DEF Next, SW!Next

\* The semaphore implements the abstract send window: grants are covered by
\* credit, the first closing error stays, nothing is granted after a close.
THEOREM Refinement == Spec => ImplementsSendWindow
<1>1. Init => SW!Init
    BY DEF Init, SW!Init
<1> QED
    BY <1>1, StepRefines, TypeCorrect, Accounting, PTL
       DEF Spec, ImplementsSendWindow, SW!Spec
================================================================================
