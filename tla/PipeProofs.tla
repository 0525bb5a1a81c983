------------------------------- MODULE PipeProofs -------------------------------
(***************************************************************************)
(* Proofs about Pipe for every capacity, every set of frame and slice      *)
(* lengths and any number of readers.  The inductive invariant, StreamInv, *)
(* says that the unread region holds exactly the bytes that follow the     *)
(* ones read, and that until the read goroutine's write fails nothing      *)
(* offered is missing.                                                     *)
(***************************************************************************)
EXTENDS Pipe, TLAPS

\* Signal moves at most one reader, from "wait" to "try".
LEMMA SignalStep ==
    ASSUME TypeOK, Signal
    PROVE  /\ pc' \in [Readers -> {"idle", "try", "wait"}]
           /\ \A t \in Readers : pc'[t] = "wait" => pc[t] = "wait"
    BY DEF TypeOK, Signal

\* The indices are naturals.
LEMMA Indices ==
    ASSUME TypeOK
    PROVE  Cap \in Nat /\ r \in Nat /\ w \in Nat /\ r <= w /\ w <= Cap
    BY PipeAssumption DEF TypeOK

\* The length of what has been read after one more Read.
LEMMA Appended ==
    ASSUME NEW s \in Seq(Nat), NEW c \in Seq(Nat)
    PROVE  s \o c \in Seq(Nat) /\ Len(s \o c) = Len(s) + Len(c)
    OBVIOUS

\* The bytes one Read takes form a sequence.
LEMMA Chunk ==
    ASSUME TypeOK, NEW n \in Nat, n <= w - r
    PROVE  /\ [i \in 1..n |-> buf[r + i - 1]] \in Seq(Nat)
           /\ Len([i \in 1..n |-> buf[r + i - 1]]) = n
<1>1. \A i \in 1..n : r + i - 1 \in Slots
    BY Indices DEF Slots
<1>2. \A i \in 1..n : buf[r + i - 1] \in Nat
    BY <1>1 DEF TypeOK
<1> QED
    BY <1>2

\* buffer.Write on an open buffer keeps both indices in the array and copies
\* at most the payload.
LEMMA CopyBounds ==
    ASSUME TypeOK, NEW k \in WriteLens
    PROVE  /\ Copied(k) \in 0..k
           /\ Base(k) \in 0..r
           /\ Base(k) + (w - r) + Copied(k) \in 0..Cap
    BY PipeAssumption DEF TypeOK, Copied, Base, MustSlide, Min2

\* The initial state has the types.
LEMMA InitType == Init => TypeOK
    BY PipeAssumption DEF Init, TypeOK, Slots

\* Every step keeps the types.
LEMMA NextType == TypeOK /\ [Next]_vars => TypeOK'
<1> SUFFICES ASSUME TypeOK, [Next]_vars PROVE TypeOK'
    OBVIOUS
<1>1. ASSUME NEW k \in WriteLens, NEW fin \in BOOLEAN, Write(k, fin) PROVE TypeOK'
  <2>0. k \in Nat /\ offered' \in Nat
    BY <1>1, PipeAssumption DEF Write, TypeOK
  <2>1. ASSUME WriteOpen(k, fin)
        PROVE  /\ buf' \in [Slots -> Nat] /\ r' \in 0..w' /\ w' \in 0..Cap
               /\ wpc' \in {"idle", "failed", "fin", "done"}
    <3>1. Slid(k) \in [Slots -> Nat]
      BY PipeAssumption DEF Slid, TypeOK, Slots, MustSlide
    <3>2. buf' \in [Slots -> Nat]
      <4>1. Base(k) + (w - r) \in Nat
        BY CopyBounds, Indices
      <4>2. \A i \in Slots : i \in Nat
        BY Indices DEF Slots
      <4> QED
        BY <2>1, <3>1, <4>1, <4>2 DEF WriteOpen, TypeOK
    <3> QED
      BY <2>1, <3>2, CopyBounds, PipeAssumption DEF WriteOpen, TypeOK
  <2>2. ASSUME WriteClosed
        PROVE  /\ buf' \in [Slots -> Nat] /\ r' \in 0..w' /\ w' \in 0..Cap
               /\ wpc' \in {"idle", "failed", "fin", "done"}
    BY <2>2 DEF WriteClosed, TypeOK
  <2> QED
    BY <1>1, <2>0, <2>1, <2>2, SignalStep DEF Write, TypeOK
<1>2. ASSUME NEW e \in Causes \cup {EOF, FlowErr}, Close(e),
             wpc' \in {"idle", "failed", "fin", "done"}
      PROVE  TypeOK'
    BY <1>2, SignalStep DEF Close, TypeOK
<1>3. CASE CloseByWriter
    BY <1>2, <1>3 DEF CloseByWriter
<1>4. ASSUME NEW e \in Causes, CloseByOther(e) PROVE TypeOK'
    BY <1>2, <1>4 DEF CloseByOther, TypeOK
<1>5. ASSUME NEW t \in Readers, NEW k \in ReadLens, ReadCall(t, k) PROVE TypeOK'
    BY <1>5, PipeAssumption DEF ReadCall, TypeOK
<1>6. ASSUME NEW t \in Readers, ReadWait(t) PROVE TypeOK'
    BY <1>6 DEF ReadWait, TypeOK
<1>7. ASSUME NEW t \in Readers, ReadReturn(t) PROVE TypeOK'
  <2> DEFINE n == Min2(rlen[t], w - r)
             chunk == [i \in 1..n |-> buf[r + i - 1]]
  <2>1. n \in 0..(w - r)
    BY DEF TypeOK, Min2
  <2>2. chunk \in Seq(Nat)
    BY <2>1, Chunk, Indices
  <2>3. got' \in Seq(Nat)
    <3>1. got' = got \o chunk
      BY <1>7 DEF ReadReturn
    <3> HIDE DEF chunk
    <3> QED
      BY <2>2, <3>1 DEF TypeOK
  <2>4. res' \in [Readers -> Causes \cup {EOF, FlowErr, Pending, Nil, ErrReadEmpty}]
    BY <1>7 DEF ReadReturn, ReadResult, TypeOK
  <2> QED
    BY <1>7, <2>1, <2>3, <2>4 DEF ReadReturn, TypeOK
<1>8. CASE UNCHANGED vars
    BY <1>8 DEF TypeOK, vars
<1> QED
    BY <1>1, <1>3, <1>4, <1>5, <1>6, <1>7, <1>8 DEF Next

\* The type invariant holds in every reachable state: the slide and the copy
\* never leave the array, and the read index never passes the write index.
THEOREM TypeCorrect == Spec => []TypeOK
    BY InitType, NextType, PTL DEF Spec

--------------------------------------------------------------------------------

\* The unread region continues the bytes already read.
Contiguous == \A i \in Slots : r <= i /\ i < w => buf[i] = Len(got) + 1 + (i - r)

\* Nothing offered is missing.
Complete == Len(got) + (w - r) = offered

StreamInv ==
    /\ Contiguous
    /\ Delivered
    /\ wpc \in {"idle", "fin"} => Complete
    /\ err = EOF => Complete /\ wpc = "done"
    /\ \A t \in Readers : res[t] = EOF => err = EOF /\ r = w

\* The initial state satisfies the inductive invariant.
LEMMA InitStream == Init => StreamInv
    BY PipeAssumption DEF Init, StreamInv, Contiguous, Delivered, Complete

\* Every step preserves the inductive invariant.
LEMMA NextStream == TypeOK /\ StreamInv /\ [Next]_vars => StreamInv'
<1> SUFFICES ASSUME TypeOK, StreamInv, [Next]_vars PROVE StreamInv'
    OBVIOUS
<1> USE DEF StreamInv
<1>0. ASSUME UNCHANGED <<buf, r, w, got, offered>>
      PROVE  /\ Contiguous' /\ Delivered' /\ (Complete' <=> Complete)
    BY <1>0 DEF Contiguous, Delivered, Complete
<1>1. ASSUME NEW k \in WriteLens, NEW fin \in BOOLEAN, Write(k, fin) PROVE StreamInv'
  <2>0. k \in Nat /\ wpc = "idle" /\ Complete /\ err # EOF /\ UNCHANGED <<got, err, res>>
        /\ offered' = offered + k
    BY <1>1, PipeAssumption DEF Write
  <2>1. Delivered'
    BY <2>0 DEF Delivered
  <2>2. CASE WriteOpen(k, fin)
    <3> DEFINE b == Base(k)
               e == Base(k) + (w - r)
               n == Copied(k)
    <3>1. /\ n \in 0..k /\ b \in 0..r /\ e + n \in 0..Cap /\ e = b + (w - r)
      BY CopyBounds
    <3>2. /\ r' = b /\ w' = e + n
          /\ \A i \in Slots :
                buf'[i] = IF i \in e..(e + n - 1) THEN offered + 1 + (i - e)
                          ELSE Slid(k)[i]
          /\ wpc' = IF n < k THEN "failed" ELSE IF fin THEN "fin" ELSE "idle"
      BY <2>2 DEF WriteOpen
    <3>3. \A i \in Slots : b <= i /\ i < e => Slid(k)[i] = buf[i - b + r] /\ i - b + r \in Slots
      <4>1. CASE MustSlide(k)
        BY <4>1, Indices DEF Slid, Base, Slots
      <4>2. CASE ~MustSlide(k)
        BY <4>2, Indices DEF Slid, Base, Slots
      <4> QED
        BY <4>1, <4>2
    <3> HIDE DEF b, e, n
    <3>4. \A i \in Slots : b <= i /\ i < e => Slid(k)[i] = Len(got) + 1 + (i - b)
      BY <3>1, <3>3, PipeAssumption DEF Contiguous, TypeOK, Slots
    <3>5. Contiguous'
      <4> SUFFICES ASSUME NEW i \in Slots, r' <= i, i < w'
                   PROVE  buf'[i] = Len(got') + 1 + (i - r')
        BY DEF Contiguous
      <4>0. i \in Nat /\ e \in Nat /\ n \in Nat /\ Len(got) \in Nat /\ offered \in Nat
        BY <3>1, <2>0, Indices DEF Slots, TypeOK
      <4>1. CASE i >= e
        <5>1. buf'[i] = offered + 1 + (i - e)
          BY <3>2, <4>0, <4>1
        <5>2. Len(got) + (w - r) = offered /\ Len(got') = Len(got)
          BY <2>0 DEF Complete
        <5>3. r \in Nat /\ w \in Nat /\ b \in Nat /\ r' = b /\ e = b + (w - r)
          BY <3>1, <3>2, Indices
        <5> QED
          BY <5>1, <5>2, <5>3, <4>0
      <4>2. CASE i < e
        BY <2>0, <3>1, <3>2, <3>4, <4>2, PipeAssumption DEF TypeOK, Slots
      <4> QED
        BY <4>1, <4>2, <3>1 DEF Slots, TypeOK
    <3>6. wpc' \in {"idle", "fin"} => Complete'
      <4>1. Len(got) \in Nat /\ (n = k \/ wpc' = "failed")
        BY <2>0, <3>1, <3>2 DEF TypeOK
      <4>2. Len(got) + (w - r) = offered /\ Len(got') = Len(got)
        BY <2>0 DEF Complete
      <4>3. /\ r \in Nat /\ w \in Nat /\ b \in Nat /\ r' = b
            /\ w' = b + (w - r) + n /\ n \in Nat
            /\ Len(got) \in Nat /\ offered \in Nat
        BY <2>0, <3>1, <3>2, Indices DEF TypeOK
      <4> QED
        BY <2>0, <4>1, <4>2, <4>3 DEF Complete
    <3> QED
      BY <2>0, <2>1, <3>5, <3>6
  <2>3. CASE WriteClosed
    <3>1. UNCHANGED <<buf, r, w>> /\ wpc' = "failed"
      BY <2>3 DEF WriteClosed
    <3>2. Contiguous'
      BY <2>0, <3>1 DEF Contiguous
    <3> QED
      BY <2>0, <2>1, <3>1, <3>2
  <2> QED
    BY <1>1, <2>2, <2>3 DEF Write
<1>2. CASE CloseByWriter
  <2>1. UNCHANGED <<buf, r, w, got, offered, res>> /\ wpc' = "done"
    BY <1>2 DEF CloseByWriter, Close
  <2>2. err' = EOF => Complete
    BY <1>2, PipeAssumption DEF CloseByWriter, Close
  <2>3. err # Open => err' = err
    BY <1>2 DEF CloseByWriter, Close
  <2> QED
    BY <1>0, <2>1, <2>2, <2>3, PipeAssumption
<1>3. ASSUME NEW e \in Causes, CloseByOther(e) PROVE StreamInv'
  <2>1. UNCHANGED <<buf, r, w, got, offered, res, wpc>> /\ (err' = EOF <=> err = EOF)
    BY <1>3, PipeAssumption DEF CloseByOther, Close
  <2> QED
    BY <1>0, <2>1
<1>4. ASSUME NEW t \in Readers, NEW k \in ReadLens, ReadCall(t, k) PROVE StreamInv'
  <2>1. /\ UNCHANGED <<buf, r, w, got, offered, wpc, err>>
        /\ \A u \in Readers : res'[u] = EOF => res[u] = EOF
    BY <1>4, PipeAssumption DEF ReadCall, TypeOK
  <2> QED
    BY <1>0, <2>1
<1>5. ASSUME NEW t \in Readers, ReadWait(t) PROVE StreamInv'
    BY <1>0, <1>5 DEF ReadWait
<1>6. ASSUME NEW t \in Readers, ReadReturn(t) PROVE StreamInv'
  <2> DEFINE n == Min2(rlen[t], w - r)
             chunk == [i \in 1..n |-> buf[r + i - 1]]
  <2>1. n \in 0..(w - r)
    BY DEF TypeOK, Min2
  <2>2. /\ r' = r + n /\ got' = got \o chunk
        /\ UNCHANGED <<buf, w, err, wpc, offered>>
        /\ res' = [res EXCEPT ![t] = ReadResult(n)]
    BY <1>6 DEF ReadReturn
  <2>3. \A i \in 1..n : r + i - 1 \in Slots /\ buf[r + i - 1] = Len(got) + i
    BY <2>1, PipeAssumption DEF TypeOK, Slots, Contiguous
  <2> HIDE DEF n
  <2>4. chunk \in Seq(Nat) /\ Len(chunk) = n
    <3>1. n \in Nat /\ n <= w - r
      BY <2>1, Indices
    <3> QED
      BY ONLY TypeOK, <3>1, Chunk, Zenon
  <2>5. \A i \in 1..n : chunk[i] = Len(got) + i
    BY <2>3
  <2> HIDE DEF chunk
  <2>6. Len(got') = Len(got) + n /\ DOMAIN got' = 1..(Len(got) + n)
    <3>1. got \in Seq(Nat) /\ n \in Nat
      BY <2>1, Indices DEF TypeOK
    <3>2. got' = got \o chunk /\ chunk \in Seq(Nat) /\ Len(chunk) = n
      BY <2>2, <2>4
    <3>3. got' \in Seq(Nat) /\ Len(got') = Len(got) + n
      BY <3>1, <3>2, Appended
    <3> QED
      BY <3>3
  <2>7. Delivered'
    BY <2>1, <2>2, <2>4, <2>5, <2>6 DEF TypeOK, Delivered
  <2>8. Contiguous'
    BY <2>1, <2>2, <2>6, PipeAssumption DEF TypeOK, Slots, Contiguous
  <2>9. Complete' <=> Complete
    <3>1. /\ r \in Nat /\ w \in Nat /\ n \in Nat /\ Len(got) \in Nat /\ offered \in Nat
          /\ Len(got') = Len(got) + n /\ r' = r + n /\ w' = w /\ offered' = offered
      BY <2>1, <2>2, <2>6, Indices DEF TypeOK
    <3> QED
      BY <3>1 DEF Complete
  <2>10. \A u \in Readers : res'[u] = EOF => err = EOF /\ r' = w
    <3> SUFFICES ASSUME NEW u \in Readers, res'[u] = EOF PROVE err = EOF /\ r' = w
      OBVIOUS
    <3>1. CASE u = t
      <4>1. ReadResult(n) = EOF
        BY <2>2, <3>1 DEF TypeOK
      <4> QED
        BY <2>2, <4>1, PipeAssumption DEF ReadResult
    <3>2. CASE u # t
      BY <2>1, <2>2, <3>2 DEF TypeOK
    <3> QED
      BY <3>1, <3>2
  <2> QED
    BY <2>2, <2>7, <2>8, <2>9, <2>10
<1>7. CASE UNCHANGED vars
    BY <1>0, <1>7 DEF vars
<1> QED
    BY <1>1, <1>2, <1>3, <1>4, <1>5, <1>6, <1>7 DEF Next

\* The inductive invariant holds in every reachable state.
THEOREM StreamInvariant == Spec => []StreamInv
    BY InitType, NextType, InitStream, NextStream, PTL DEF Spec

\* Read returns the offered bytes in order, for every capacity, however the
\* array slides and whatever the lengths of frames and slices.
THEOREM InOrder == Spec => []Delivered
    BY StreamInvariant, PTL DEF StreamInv

\* A reader that sees io.EOF has read the whole body.
THEOREM EOFIsComplete == Spec => []EOFMeansAll
<1>1. TypeOK /\ StreamInv => EOFMeansAll
    BY DEF TypeOK, StreamInv, EOFMeansAll, Complete
<1> QED
    BY <1>1, TypeCorrect, StreamInvariant, PTL

--------------------------------------------------------------------------------

\* With the one concurrent reader the Stream contract allows, Signal is
\* enough: a reader asleep in Cond.Wait has nothing to read.
THEOREM SignalSuffices ==
    ASSUME \A a, b \in Readers : a = b
    PROVE  Spec => []NoLostWakeup
<1>1. Init => NoLostWakeup
    BY DEF Init, NoLostWakeup
<1>2. TypeOK /\ NoLostWakeup /\ [Next]_vars => NoLostWakeup'
  <2> SUFFICES ASSUME TypeOK, NoLostWakeup, [Next]_vars PROVE NoLostWakeup'
      OBVIOUS
  <2> USE DEF NoLostWakeup
  <2>0. ASSUME Signal PROVE \A t \in Readers : pc'[t] # "wait"
      \* The only possible waiter is the one signalled.
      BY <2>0 DEF Signal, TypeOK
  <2>1. ASSUME NEW k \in WriteLens, NEW fin \in BOOLEAN, Write(k, fin)
        PROVE  NoLostWakeup'
      BY <2>0, <2>1 DEF Write
  <2>2. CASE CloseByWriter
      BY <2>0, <2>2 DEF CloseByWriter, Close
  <2>3. ASSUME NEW e \in Causes, CloseByOther(e) PROVE NoLostWakeup'
      BY <2>0, <2>3 DEF CloseByOther, Close
  <2>4. ASSUME NEW t \in Readers, NEW k \in ReadLens, ReadCall(t, k)
        PROVE  NoLostWakeup'
      BY <2>4 DEF ReadCall, TypeOK
  <2>5. ASSUME NEW t \in Readers, ReadWait(t) PROVE NoLostWakeup'
      BY <2>5 DEF ReadWait, TypeOK
  <2>6. ASSUME NEW t \in Readers, ReadReturn(t) PROVE NoLostWakeup'
      \* The only reader is the one returning.
      BY <2>6 DEF ReadReturn, TypeOK
  <2>7. CASE UNCHANGED vars
      BY <2>7 DEF vars
  <2> QED
      BY <2>1, <2>2, <2>3, <2>4, <2>5, <2>6, <2>7 DEF Next
<1> QED
    BY <1>1, <1>2, InitType, NextType, PTL DEF Spec
--------------------------------------------------------------------------------
\* The refinement of ByteQueue.  By Contiguous the i-th unread byte is the i-th
\* after the ones read, before a step and after it, so how the array slid to
\* make room does not matter.

\* The unread bytes, as ByteQueue sees them.
Unread == [i \in 1..(w - r) |-> buf[r + i - 1]]

\* The i-th unread byte follows the bytes read by i.
UnreadOK ==
    /\ Unread \in Seq(Nat) /\ Len(Unread) = w - r
    /\ \A i \in 1..(w - r) : Unread[i] = Len(got) + i

\* It does whenever the unread region continues the bytes read.
LEMMA UnreadIs == TypeOK /\ Contiguous => UnreadOK
<1> SUFFICES ASSUME TypeOK, Contiguous PROVE UnreadOK
    OBVIOUS
<1>1. w - r \in Nat /\ r \in Nat /\ w \in Nat /\ Cap \in Nat /\ w <= Cap
    BY Indices
<1>2. Unread \in Seq(Nat) /\ Len(Unread) = w - r
  <2>1. PICK n \in Nat : n = w - r
    BY <1>1
  <2>2. n <= w - r /\ Unread = [i \in 1..n |-> buf[r + i - 1]]
    BY <1>1, <2>1 DEF Unread
  <2>3. [i \in 1..n |-> buf[r + i - 1]] \in Seq(Nat) /\ Len([i \in 1..n |-> buf[r + i - 1]]) = n
    BY ONLY TypeOK, <2>1, <2>2, Chunk
  <2> QED
    BY <2>1, <2>2, <2>3, Zenon
<1>3. ASSUME NEW i \in 1..(w - r) PROVE Unread[i] = Len(got) + i
  <2>1. r + i - 1 \in Slots /\ r <= r + i - 1 /\ r + i - 1 < w
    BY <1>1 DEF Slots
  <2>2. buf[r + i - 1] = Len(got) + 1 + ((r + i - 1) - r)
    BY <2>1 DEF Contiguous
  <2>3. Len(got) \in Nat /\ Unread[i] = buf[r + i - 1]
    BY DEF TypeOK, Unread
  <2> QED
    BY <1>1, <2>2, <2>3
<1> QED
    BY <1>2, <1>3 DEF UnreadOK

\* The bytes between two indices of the array are at most those of the array.
LEMMA Room ==
    ASSUME NEW a \in Nat, NEW b \in Nat, NEW c \in Nat, a <= b, b <= c
    PROVE  b - a <= c
    OBVIOUS

\* Sequences of the same length with the same elements are equal.
LEMMA SameElements ==
    ASSUME NEW s \in Seq(Nat), NEW t \in Seq(Nat), Len(s) = Len(t),
           \A i \in 1..Len(s) : s[i] = t[i]
    PROVE  s = t
    OBVIOUS

\* The part of a sequence between two positions.
LEMMA Part ==
    ASSUME NEW s \in Seq(Nat), NEW a \in Nat, NEW b \in Nat, a <= b, b <= Len(s)
    PROVE  /\ SubSeq(s, a + 1, b) \in Seq(Nat) /\ Len(SubSeq(s, a + 1, b)) = b - a
           /\ \A i \in 1..(b - a) : SubSeq(s, a + 1, b)[i] = s[a + i]
<1>1. PICK n \in Nat : n = b - a
    OBVIOUS
<1>2. SubSeq(s, a + 1, b) = [i \in 1..n |-> s[a + i]]
    BY <1>1
<1>3. \A i \in 1..n : s[a + i] \in Nat
  <2>1. \A i \in 1..n : a + i \in 1..Len(s)
    BY <1>1
  <2>2. \A j \in 1..Len(s) : s[j] \in Nat
    OBVIOUS
  <2> QED
    BY ONLY <2>1, <2>2, Zenon
<1>4. [i \in 1..n |-> s[a + i]] \in Seq(Nat) /\ Len([i \in 1..n |-> s[a + i]]) = n
    BY ONLY n \in Nat, <1>3
<1>5. \A i \in 1..n : [j \in 1..n |-> s[a + j]][i] = s[a + i]
    OBVIOUS
<1> QED
    BY ONLY <1>1, <1>2, <1>4, <1>5

\* pipe.Write that copies n bytes: what was unread stays in front.
LEMMA WritePuts ==
    ASSUME TypeOK, Contiguous, TypeOK', Contiguous', got' = got,
           NEW n \in Nat, w' - r' = (w - r) + n
    PROVE  /\ SubSeq(Unread', 1, Len(Unread)) = Unread
           /\ Len(Unread') = Len(Unread) + n
           /\ n = 0 => Unread' = Unread
<1>1. /\ Unread \in Seq(Nat) /\ Len(Unread) = w - r
      /\ \A i \in 1..(w - r) : Unread[i] = Len(got) + i
    BY UnreadIs DEF UnreadOK
<1>2. /\ Unread' \in Seq(Nat) /\ Len(Unread') = w' - r'
      /\ \A i \in 1..(w' - r') : Unread'[i] = Len(got) + i
  <2>1. UnreadOK'
    BY UnreadIs, PTL
  <2> QED
    BY <2>1 DEF UnreadOK
<1>3. PICK m \in Nat : m = w - r
    BY Indices
<1>4. Len(got) \in Nat
    BY DEF TypeOK
<1> HIDE DEF Unread
<1>5. PICK s \in Seq(Nat) : s = Unread
    BY <1>1
<1>6. PICK t \in Seq(Nat) : t = Unread'
    BY <1>2
<1>7. Len(s) = m /\ Len(t) = m + n
    BY <1>1, <1>2, <1>3, <1>5, <1>6
<1>8. \A i \in 1..m : s[i] = t[i]
    BY <1>1, <1>2, <1>3, <1>5, <1>6
<1>9. SubSeq(t, 1, m) = s
  <2>1. /\ SubSeq(t, 0 + 1, m) \in Seq(Nat) /\ Len(SubSeq(t, 0 + 1, m)) = m - 0
        /\ \A i \in 1..(m - 0) : SubSeq(t, 0 + 1, m)[i] = t[0 + i]
    BY <1>7, Part
  <2>2. /\ SubSeq(t, 1, m) \in Seq(Nat) /\ Len(SubSeq(t, 1, m)) = m
        /\ \A i \in 1..m : SubSeq(t, 1, m)[i] = t[i]
    BY <2>1
  <2> QED
    BY <1>7, <1>8, <2>2, SameElements
<1>10. n = 0 => t = s
    BY <1>7, <1>8, SameElements
<1> QED
    BY <1>5, <1>6, <1>7, <1>9, <1>10

\* pipe.Read that takes n bytes: the oldest ones go.
LEMMA ReadGets ==
    ASSUME TypeOK, Contiguous, TypeOK', Contiguous',
           NEW n \in 0..(w - r), w' = w, r' = r + n, Len(got') = Len(got) + n
    PROVE  /\ Unread' = SubSeq(Unread, n + 1, Len(Unread))
           /\ n = 0 => Unread' = Unread
           /\ Len(Unread) = w - r
<1>1. /\ Unread \in Seq(Nat) /\ Len(Unread) = w - r
      /\ \A i \in 1..(w - r) : Unread[i] = Len(got) + i
    BY UnreadIs DEF UnreadOK
<1>2. PICK m \in Nat : m = w - r
    BY Indices
<1>3. PICK g \in Nat : g = Len(got)
    BY DEF TypeOK
<1>4. n \in Nat /\ n <= m /\ w' - r' = m - n
    BY <1>2, Indices
<1>5. /\ Unread' \in Seq(Nat) /\ Len(Unread') = m - n
      /\ \A i \in 1..(m - n) : Unread'[i] = g + n + i
  <2>1. UnreadOK'
    BY UnreadIs, PTL
  <2> QED
    BY <1>3, <1>4, <2>1 DEF UnreadOK
<1> HIDE DEF Unread
<1>6. PICK s \in Seq(Nat) : s = Unread
    BY <1>1
<1>7. PICK t \in Seq(Nat) : t = Unread'
    BY <1>5
<1>8. Len(s) = m /\ \A i \in 1..m : s[i] = g + i
    BY <1>1, <1>2, <1>3, <1>6
<1>9. Len(t) = m - n /\ \A i \in 1..(m - n) : t[i] = g + n + i
    BY <1>5, <1>7
<1>10. t = SubSeq(s, n + 1, m)
  <2>1. /\ SubSeq(s, n + 1, m) \in Seq(Nat) /\ Len(SubSeq(s, n + 1, m)) = m - n
        /\ \A i \in 1..(m - n) : SubSeq(s, n + 1, m)[i] = s[n + i]
    BY <1>4, <1>8, Part
  <2>2. \A i \in 1..(m - n) : s[n + i] = t[i]
    BY <1>4, <1>8, <1>9
  <2> QED
    BY <1>9, <2>1, <2>2, SameElements
<1>11. n = 0 => t = s
    BY <1>8, <1>9, SameElements
<1> QED
    BY <1>1, <1>2, <1>6, <1>7, <1>8, <1>10, <1>11

\* Every step of the pipe is a step of the queue, or changes nothing of it.
LEMMA RefinementStep ==
    TypeOK /\ StreamInv /\ TypeOK' /\ StreamInv' /\ [Next]_vars => [BQ!Next]_(BQ!vars)
<1> SUFFICES ASSUME TypeOK, StreamInv, TypeOK', StreamInv', [Next]_vars
             PROVE  [BQ!Next]_(BQ!vars)
    OBVIOUS
<1>0. Contiguous /\ Contiguous'
    BY DEF StreamInv
<1>1. BQ!vars = <<Unread, err>> /\ BQ!vars' = <<Unread', err'>>
    BY DEF BQ!vars, Unread
<1>2. ASSUME UNCHANGED <<buf, r, w, err>> PROVE UNCHANGED BQ!vars
    BY <1>1, <1>2 DEF Unread
<1>3. ASSUME NEW k \in WriteLens, NEW fin \in BOOLEAN, Write(k, fin)
      PROVE  BQ!Put \/ UNCHANGED BQ!vars
  <2>1. got' = got /\ err' = err
    BY <1>3 DEF Write
  <2>2. CASE WriteOpen(k, fin)
    <3>1. PICK n \in Nat : n = Copied(k)
      BY CopyBounds
    <3>2. w' - r' = (w - r) + n /\ w' - r' <= Cap /\ err = Open
      <4>1. r' = Base(k) /\ w' = Base(k) + (w - r) + Copied(k) /\ err = Open
        BY <2>2 DEF WriteOpen
      <4>2. r' \in Nat /\ w' \in Nat /\ w' <= Cap /\ w' - r' <= Cap
        <5>1. r' \in Nat /\ w' \in Nat /\ r' <= w' /\ w' <= Cap /\ Cap \in Nat
          BY PipeAssumption DEF TypeOK
        <5> QED
          BY <5>1, Room
      <4> QED
        BY <3>1, <4>1, <4>2, Indices
    <3>3. /\ SubSeq(Unread', 1, Len(Unread)) = Unread
          /\ Len(Unread') = Len(Unread) + n
          /\ n = 0 => Unread' = Unread
      BY <1>0, <2>1, <3>2, WritePuts
    <3>4. UnreadOK /\ UnreadOK'
      BY <1>0, UnreadIs, PTL
    <3>5. Len(Unread) = w - r /\ Len(Unread') = w' - r'
      BY <3>4 DEF UnreadOK
    <3>6. CASE n = 0
      BY <1>1, <2>1, <3>3, <3>6
    <3>7. CASE n # 0
      <4>1. Len(Unread') > Len(Unread) /\ Len(Unread') <= Cap
        BY <3>2, <3>3, <3>5, <3>7, Indices
      <4> QED
        BY <2>1, <3>2, <3>3, <4>1 DEF BQ!Put, Unread
    <3> QED
      BY <3>6, <3>7
  <2>3. CASE WriteClosed
    BY <1>2, <2>1, <2>3 DEF WriteClosed
  <2> QED
    BY <1>3, <2>2, <2>3 DEF Write
<1>4. ASSUME NEW e \in Causes \cup {EOF, FlowErr}, Close(e)
      PROVE  BQ!Shut \/ UNCHANGED BQ!vars
  <2>1. UNCHANGED Unread /\ err' = (IF err = Open THEN e ELSE err) /\ e # Open
    BY <1>4, PipeAssumption DEF Close, Unread
  <2> QED
    BY <1>1, <2>1 DEF BQ!Shut, Unread
<1>5. ASSUME CloseByWriter PROVE BQ!Shut \/ UNCHANGED BQ!vars
  <2>1. PICK e \in {EOF, FlowErr} : Close(e)
    BY <1>5 DEF CloseByWriter
  <2> QED
    BY <1>4, <2>1
<1>6. ASSUME NEW e \in Causes, CloseByOther(e) PROVE BQ!Shut \/ UNCHANGED BQ!vars
    BY <1>4, <1>6 DEF CloseByOther
<1>7. ASSUME NEW t \in Readers, NEW k \in ReadLens, ReadCall(t, k) PROVE UNCHANGED BQ!vars
    BY <1>2, <1>7 DEF ReadCall
<1>8. ASSUME NEW t \in Readers, ReadWait(t) PROVE UNCHANGED BQ!vars
    BY <1>2, <1>8 DEF ReadWait
<1>9. ASSUME NEW t \in Readers, ReadReturn(t) PROVE BQ!Next \/ UNCHANGED BQ!vars
  <2>1. PICK n \in 0..(w - r) : n = Min2(rlen[t], w - r)
    BY Indices DEF TypeOK, Min2
  <2>2. /\ r' = r + n /\ w' = w /\ err' = err
        /\ got' = got \o [i \in 1..n |-> buf[r + i - 1]]
    BY <1>9, <2>1 DEF ReadReturn
  <2>3. Len(got') = Len(got) + n
    <3>1. n \in Nat /\ n <= w - r
      BY Indices
    <3>2. /\ [i \in 1..n |-> buf[r + i - 1]] \in Seq(Nat)
          /\ Len([i \in 1..n |-> buf[r + i - 1]]) = n
      BY ONLY TypeOK, <3>1, Chunk
    <3>3. got \in Seq(Nat)
      BY DEF TypeOK
    <3> QED
      BY <2>2, <3>2, <3>3, Appended
  <2>4. /\ Unread' = SubSeq(Unread, n + 1, Len(Unread))
        /\ n = 0 => Unread' = Unread
        /\ Len(Unread) = w - r
    BY <1>0, <2>2, <2>3, ReadGets
  <2>5. CASE n = 0
    BY <1>1, <2>2, <2>4, <2>5
  <2>6. CASE n # 0
    <3>1. n \in 1..Len(Unread)
      BY <2>4, <2>6, Indices
    <3>2. BQ!Get(n)
      BY <2>2, <2>4 DEF BQ!Get, Unread
    <3> QED
      BY <3>1, <3>2 DEF BQ!Next, Unread
  <2> QED
    BY <2>5, <2>6
<1>10. CASE UNCHANGED vars
    BY <1>2, <1>10 DEF vars
<1> QED
    BY <1>3, <1>5, <1>6, <1>7, <1>8, <1>9, <1>10 DEF Next, BQ!Next

\* The pipe implements the bounded queue: whatever the lengths of frames and
\* slices, slides never show, Write appends, Read takes from the front, and a
\* close happens once and loses nothing (buffer.go:23-70).
THEOREM Refinement == Spec => ImplementsByteQueue
<1>1. Init => BQ!Init
  <2> SUFFICES ASSUME Init PROVE BQ!Init
    OBVIOUS
  <2>1. w - r = 0 /\ err = Open
    BY DEF Init
  <2>2. [i \in 1..(w - r) |-> buf[r + i - 1]] = <<>>
    BY <2>1
  <2> QED
    BY <2>1, <2>2 DEF BQ!Init
<1> QED
    BY <1>1, RefinementStep, TypeCorrect, StreamInvariant, PTL
    DEF Spec, ImplementsByteQueue, BQ!Spec
================================================================================
