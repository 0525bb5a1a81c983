----------------------------- MODULE SessionProofs -----------------------------
(***************************************************************************)
(* Proofs about Session for any number of streams, any frames and any      *)
(* sequence of calls.                                                      *)
(***************************************************************************)
EXTENDS Session, TLAPS

\* The operation a goroutine is at has the fields of an operation.
LEMMA CurType ==
    ASSUME TypeOK, NEW t \in Threads, todo[t] # <<>>
    PROVE  /\ Cur(t) \in Ops /\ Tail(todo[t]) \in Seq(Ops)
           /\ Cur(t).o \in Streams
           /\ Cur(t).op \in CloseOps => Cur(t).arg \in Errors
           /\ Cur(t).op \notin CloseOps => Cur(t).arg \in Flags
           /\ Cur(t).k \in 0..(2 * MaxInt + 1)
<1>1. todo[t] \in Seq(Ops) /\ todo[t] # <<>>
    BY DEF TypeOK
<1>2. Cur(t) \in Ops /\ Tail(todo[t]) \in Seq(Ops)
    BY <1>1 DEF Cur
<1>3. 0 \in 0..(2 * MaxInt + 1)
    BY SessionAssumption
<1> QED
    BY <1>2, <1>3 DEF Ops, CloseOps, OpenOps, FlagOps

\* An idle goroutine stays idle unless it begins; the goroutines of a stream.
LEMMA ThreadsType ==
    /\ ReadLoop \in Threads
    /\ \A o \in Streams : Writer(o) \in Threads /\ Reader(o) \in Threads
    BY DEF Threads

--------------------------------------------------------------------------------
\* Work lists.

\* In s, an operation a is followed by an operation b on the same stream.
Follows(s, a, b) ==
    \A i \in DOMAIN s : s[i].op = a =>
        \E j \in DOMAIN s : j > i /\ s[j].op = b /\ s[j].o = s[i].o

\* Whoever sets a flag goes on to close what it stands for, and to remove.
Tidy(s) ==
    /\ Follows(s, "rflag", "pclose") /\ Follows(s, "rflag", "remove")
    /\ Follows(s, "wflag", "nclose") /\ Follows(s, "wflag", "remove")

\* Tidy work on stream o that does not open it.
Tame(s, o) ==
    /\ s \in Seq(Ops)
    /\ Tidy(s)
    /\ \A i \in DOMAIN s : s[i].o = o /\ s[i].op \notin OpenOps

\* The elements of a concatenation.
LEMMA InConcat ==
    ASSUME NEW s \in Seq(Ops), NEW u \in Seq(Ops)
    PROVE  /\ \A i \in DOMAIN s : i \in DOMAIN (s \o u) /\ (s \o u)[i] = s[i]
           /\ \A i \in DOMAIN u : Len(s) + i \in DOMAIN (s \o u)
                                  /\ (s \o u)[Len(s) + i] = u[i]
           /\ \A i \in DOMAIN (s \o u) :
                \/ i \in DOMAIN s /\ (s \o u)[i] = s[i]
                \/ i - Len(s) \in DOMAIN u /\ (s \o u)[i] = u[i - Len(s)]
    OBVIOUS

\* The elements of a list, and of its rest.
LEMMA InTail ==
    ASSUME NEW s \in Seq(Ops), s # <<>>
    PROVE  /\ \A i \in DOMAIN s : s[i] = Head(s)
                \/ (i - 1 \in DOMAIN Tail(s) /\ Tail(s)[i - 1] = s[i])
           /\ \A i \in DOMAIN Tail(s) : i + 1 \in DOMAIN s /\ Tail(s)[i] = s[i + 1]
    OBVIOUS

\* Both parts of a concatenation keep their followers.
LEMMA FollowsConcat ==
    ASSUME NEW s \in Seq(Ops), NEW u \in Seq(Ops), NEW a, NEW b,
           Follows(s, a, b), Follows(u, a, b)
    PROVE  Follows(s \o u, a, b)
<1> DEFINE c == s \o u
<1>1. /\ DOMAIN s = 1..Len(s) /\ DOMAIN u = 1..Len(u) /\ DOMAIN c = 1..(Len(s) + Len(u))
      /\ Len(s) \in Nat /\ Len(u) \in Nat
    OBVIOUS
<1>2. /\ \A i \in 1..Len(s) : c[i] = s[i]
      /\ \A i \in 1..Len(u) : c[Len(s) + i] = u[i]
    OBVIOUS
<1> HIDE DEF c
<1> SUFFICES ASSUME NEW i \in DOMAIN c, c[i].op = a
             PROVE  \E j \in DOMAIN c : j > i /\ c[j].op = b /\ c[j].o = c[i].o
    BY DEF Follows, c
<1>3. CASE i <= Len(s)
  <2>1. i \in DOMAIN s /\ c[i] = s[i]
    BY <1>1, <1>2, <1>3
  <2>2. PICK j \in DOMAIN s : j > i /\ s[j].op = b /\ s[j].o = s[i].o
    BY <2>1 DEF Follows
  <2> QED
    BY <1>1, <1>2, <2>1, <2>2
<1>4. CASE i > Len(s)
  <2>1. i - Len(s) \in DOMAIN u /\ c[i] = u[i - Len(s)]
    <3>1. i - Len(s) \in 1..Len(u) /\ Len(s) + (i - Len(s)) = i
      BY <1>1, <1>4
    <3> QED
      BY <1>1, <1>2, <3>1
  <2>2. PICK j \in DOMAIN u : j > i - Len(s) /\ u[j].op = b /\ u[j].o = u[i - Len(s)].o
    BY <2>1 DEF Follows
  <2>3. Len(s) + j \in DOMAIN c /\ Len(s) + j > i /\ c[Len(s) + j] = u[j]
    BY <1>1, <1>2, <2>2
  <2> QED
    BY <2>1, <2>2, <2>3
<1> QED
    BY <1>1, <1>3, <1>4

\* Doing the first operation keeps the rest's followers.
LEMMA FollowsTail ==
    ASSUME NEW s \in Seq(Ops), s # <<>>, NEW a, NEW b, Follows(s, a, b)
    PROVE  /\ Follows(Tail(s), a, b)
           /\ Head(s).op = a =>
                \E j \in DOMAIN Tail(s) : Tail(s)[j].op = b /\ Tail(s)[j].o = Head(s).o
<1> DEFINE u == Tail(s)
<1>1. /\ DOMAIN s = 1..Len(s) /\ Len(s) \in Nat /\ Len(s) >= 1
      /\ DOMAIN u = 1..(Len(s) - 1) /\ Head(s) = s[1]
      /\ \A i \in 1..(Len(s) - 1) : u[i] = s[i + 1]
    OBVIOUS
<1> HIDE DEF u
<1>2. ASSUME NEW i \in DOMAIN u, u[i].op = a
      PROVE  \E j \in DOMAIN u : j > i /\ u[j].op = b /\ u[j].o = u[i].o
  <2>1. i + 1 \in DOMAIN s /\ s[i + 1] = u[i]
    BY <1>1, <1>2
  <2>2. PICK j \in DOMAIN s : j > i + 1 /\ s[j].op = b /\ s[j].o = s[i + 1].o
    BY <1>2, <2>1 DEF Follows
  <2>3. j - 1 \in DOMAIN u /\ j - 1 > i /\ u[j - 1] = s[j]
    <3>1. j - 1 \in 1..(Len(s) - 1) /\ (j - 1) + 1 = j
      BY <1>1, <1>2, <2>2
    <3> QED
      BY <1>1, <1>2, <2>2, <3>1
  <2> QED
    BY <2>1, <2>2, <2>3
<1>3. ASSUME Head(s).op = a
      PROVE  \E j \in DOMAIN u : u[j].op = b /\ u[j].o = Head(s).o
  <2>1. PICK j \in DOMAIN s : j > 1 /\ s[j].op = b /\ s[j].o = s[1].o
    BY <1>1, <1>3 DEF Follows
  <2>2. j - 1 \in 1..(Len(s) - 1) /\ (j - 1) + 1 = j
    BY <1>1, <2>1
  <2> QED
    BY <1>1, <2>1, <2>2
<1> QED
    BY <1>2, <1>3 DEF Follows, u

\* The empty list is tame.
LEMMA EmptyTame ==
    ASSUME NEW o
    PROVE  Tame(<<>>, o)
    BY DEF Tame, Tidy, Follows

\* A list of one operation that neither opens nor closes is tame.
LEMMA SingleTame ==
    ASSUME NEW op \in FlagOps, NEW o \in Streams, NEW f \in Flags,
           NEW k \in 0..(2 * MaxInt + 1)
    PROVE  Tame(<< Do(op, o, f, k) >>, o)
<1>1. Do(op, o, f, k) \in Ops /\ Do(op, o, f, k).op = op /\ Do(op, o, f, k).o = o
    BY DEF Do, Ops
<1>2. op \notin OpenOps /\ op # "rflag" /\ op # "wflag"
    BY DEF FlagOps, OpenOps
<1> QED
    BY <1>1, <1>2 DEF Tame, Tidy, Follows

\* Closing the window alone is tame.
LEMMA NcloseTame ==
    ASSUME NEW o \in Streams, NEW e \in Errors
    PROVE  Tame(<< Do("nclose", o, e, 0) >>, o)
<1>1. Do("nclose", o, e, 0) \in Ops /\ Do("nclose", o, e, 0).op = "nclose"
      /\ Do("nclose", o, e, 0).o = o
    BY DEF Do, Ops, CloseOps
<1> QED
    BY <1>1 DEF Tame, Tidy, Follows, OpenOps

\* Stream.rclose and Stream.wclose are tame, and close.
LEMMA CloseTame ==
    ASSUME NEW o \in Streams, NEW e \in Errors
    PROVE  Tame(RClose(o, e), o) /\ Tame(WClose(o, e), o)
<1>1. \A op \in CloseOps : Do(op, o, e, 0) \in Ops /\ Do(op, o, e, 0).op = op
                           /\ Do(op, o, e, 0).o = o
    BY DEF Do, Ops
<1>2. ASSUME NEW x \in CloseOps, NEW y \in CloseOps, x # y,
             x # "remove", y # "remove", x \notin OpenOps, y \notin OpenOps
      PROVE  LET s == << Do(x, o, e, 0), Do(y, o, e, 0), Do("remove", o, e, 0) >>
             IN  /\ s \in Seq(Ops)
                 /\ Follows(s, x, y) /\ Follows(s, x, "remove")
                 /\ \A i \in DOMAIN s : s[i].o = o /\ s[i].op \in {x, y, "remove"}
  <2> DEFINE s == << Do(x, o, e, 0), Do(y, o, e, 0), Do("remove", o, e, 0) >>
  <2>1. /\ Do(x, o, e, 0) \in Ops /\ Do(y, o, e, 0) \in Ops /\ Do("remove", o, e, 0) \in Ops
        /\ Do(x, o, e, 0).op = x /\ Do(y, o, e, 0).op = y
        /\ Do("remove", o, e, 0).op = "remove"
        /\ Do(x, o, e, 0).o = o /\ Do(y, o, e, 0).o = o /\ Do("remove", o, e, 0).o = o
    BY <1>1 DEF CloseOps
  <2>2. s \in Seq(Ops) /\ Len(s) = 3 /\ DOMAIN s = 1..3
    BY <2>1
  <2>3. /\ s[1].op = x /\ s[2].op = y /\ s[3].op = "remove"
        /\ s[1].o = o /\ s[2].o = o /\ s[3].o = o
    BY <2>1
  <2> HIDE DEF s
  <2>4. Follows(s, x, y) /\ Follows(s, x, "remove")
    BY <2>2, <2>3, <1>2 DEF Follows
  <2>5. \A i \in DOMAIN s : s[i].o = o /\ s[i].op \in {x, y, "remove"}
    BY <2>2, <2>3
  <2> QED
    BY <2>2, <2>4, <2>5 DEF s
<1>3. Tame(RClose(o, e), o)
  <2> DEFINE s == RClose(o, e)
  <2>1. /\ s \in Seq(Ops)
        /\ Follows(s, "rflag", "pclose") /\ Follows(s, "rflag", "remove")
        /\ \A i \in DOMAIN s : s[i].o = o /\ s[i].op \in {"rflag", "pclose", "remove"}
    BY <1>2 DEF RClose, CloseOps, OpenOps
  <2> HIDE DEF s
  <2> QED
    BY <2>1 DEF Tame, Tidy, Follows, OpenOps, s
<1>4. Tame(WClose(o, e), o)
  <2> DEFINE s == WClose(o, e)
  <2>1. /\ s \in Seq(Ops)
        /\ Follows(s, "wflag", "nclose") /\ Follows(s, "wflag", "remove")
        /\ \A i \in DOMAIN s : s[i].o = o /\ s[i].op \in {"wflag", "nclose", "remove"}
    BY <1>2 DEF WClose, CloseOps, OpenOps
  <2> HIDE DEF s
  <2> QED
    BY <2>1 DEF Tame, Tidy, Follows, OpenOps, s
<1> QED
    BY <1>3, <1>4

\* Concatenations and optional parts of tame lists are tame.
LEMMA ConcatTame ==
    ASSUME NEW o, NEW s, NEW u, Tame(s, o), Tame(u, o)
    PROVE  Tame(s \o u, o)
<1>1. s \in Seq(Ops) /\ u \in Seq(Ops) /\ s \o u \in Seq(Ops)
    BY DEF Tame
<1>2. Tidy(s \o u)
    BY <1>1, FollowsConcat DEF Tame, Tidy
<1>3. \A i \in DOMAIN (s \o u) : (s \o u)[i].o = o /\ (s \o u)[i].op \notin OpenOps
    BY <1>1 DEF Tame
<1> QED
    BY <1>1, <1>2, <1>3 DEF Tame

\* Optional work is tame if the work is.
LEMMA WhenTame ==
    ASSUME NEW o, NEW b, NEW s, Tame(s, o)
    PROVE  Tame(When(b, s), o)
    BY EmptyTame DEF When

--------------------------------------------------------------------------------
\* The work every step leaves behind.

\* A step of goroutine t, other than taking openMu, does its first operation
\* and puts tame work on the same stream in front of the rest.
LEMMA StepWork ==
    ASSUME TypeOK, NEW t \in Threads, Step(t), ~OpenLock(t)
    PROVE  /\ todo[t] # <<>>
           /\ \E more : Tame(more, Cur(t).o) /\ Continue(t, more)
<1>0. todo[t] # <<>>
    BY DEF Step, Closings, Opening, StreamSteps, ReadSteps, At, SetRClosed, SetWClosed,
           ClosePipe, CloseWnd, maybeRemove, OpenAdd, OpenMakeReply, OpenWriteSyn,
           OpenUnlock, HeaderReceive, HeaderForget, ReplyWrite, WriteCheck, WriteDec,
           WriteFrameData, CloseWriteFin, WriteRst, ReadPipe, updateWindow,
           StartHandler, OfferReply, WindowInc, DataCheck, DataWrite, TeardownReply
<1> DEFINE o == Cur(t).o
           k == Cur(t).k
<1>1. o \in Streams /\ k \in 0..(2 * MaxInt + 1) /\ 0 \in 0..(2 * MaxInt + 1)
    BY <1>0, CurType, SessionAssumption
<1>a. \A f \in Flags : \A op \in FlagOps : \A n \in 0..(2 * MaxInt + 1) :
          Tame(<< Do(op, o, f, n) >>, o)
    BY <1>1, SingleTame
<1>b. \A e \in Errors : Tame(RClose(o, e), o) /\ Tame(WClose(o, e), o)
                        /\ Tame(<< Do("nclose", o, e, 0) >>, o)
    BY <1>1, CloseTame, NcloseTame
<1>c. "-" \in Flags /\ {"EOF", "closed", "notReadable", "notWritable", "flow", "reset", "io"}
                       \subseteq Errors
    BY DEF Flags, Errors
<1>d. Cur(t).op \in FlagOps \cup OpenOps => Cur(t).arg \in Flags
    BY <1>0, CurType DEF FlagOps, OpenOps, CloseOps
<1> SUFFICES \E more : Tame(more, o) /\ Continue(t, more)
    BY <1>0
<1> HIDE DEF o, k
<1>2. CASE Continue(t, <<>>)
    BY <1>2, EmptyTame
<1>3. CASE Closings(t)
    BY <1>2, <1>3 DEF Closings, SetRClosed, SetWClosed, ClosePipe, CloseWnd, maybeRemove
<1>4. CASE OpenAdd(t)
  <2> DEFINE f == Cur(t).arg
             a == IF Uni(f) THEN RClose(o, "notReadable")
                  ELSE << Do("mkreply", o, "-", 0) >>
             b == When(Fin(f), WClose(o, "notWritable"))
             c == << Do("syn", o, f, 0), Do("unlock", o, "-", 0) >>
  <2>0. f \in Flags
    BY <1>4, <1>d DEF OpenAdd, At, Cur, OpenOps
  <2>1. Tame(a, o)
    BY <1>1, <1>a, <1>b, <1>c DEF FlagOps
  <2>2. Tame(b, o)
    BY <1>b, <1>c, WhenTame
  <2>3. Tame(c, o)
    <3>1. /\ Tame(<< Do("syn", o, f, 0) >>, o)
          /\ Tame(<< Do("unlock", o, "-", 0) >>, o)
      BY <1>1, <1>a, <1>c, <2>0 DEF FlagOps
    <3>2. c = << Do("syn", o, f, 0) >> \o << Do("unlock", o, "-", 0) >>
      OBVIOUS
    <3> QED
      BY <3>1, <3>2, ConcatTame
  <2> HIDE DEF a, b, c
  <2>4. Tame((a \o b) \o c, o)
    BY <2>1, <2>2, <2>3, ConcatTame
  <2>5. Continue(t, << Do("unlock", o, "-", 0) >>) \/ Continue(t, a \o b \o c)
    BY <1>4 DEF OpenAdd, a, b, c, o
  <2> QED
    BY <2>4, <2>5, <1>1, <1>a, <1>c DEF FlagOps
<1>5. CASE OpenWriteSyn(t)
    BY <1>2, <1>5, <1>b, <1>c, ConcatTame DEF OpenWriteSyn, o
<1>6. CASE OpenMakeReply(t) \/ OpenUnlock(t) \/ HeaderReceive(t) \/ HeaderForget(t)
           \/ ReplyWrite(t) \/ CloseWriteFin(t) \/ WriteRst(t) \/ updateWindow(t)
           \/ StartHandler(t) \/ TeardownReply(t)
    BY <1>2, <1>6 DEF OpenMakeReply, OpenUnlock, HeaderReceive, HeaderForget, ReplyWrite,
       CloseWriteFin, WriteRst, updateWindow, StartHandler, TeardownReply
<1>7. CASE WriteCheck(t)
  <2>1. Tame(When(~wclosed[o] /\ wready[o], << Do("dec", o, "-", k) >>), o)
    BY <1>1, <1>a, <1>c, WhenTame DEF FlagOps
  <2> QED
    BY <1>7, <2>1 DEF WriteCheck, o, k
<1>8. CASE WriteDec(t)
  <2> DEFINE n == IF wnd[o] < k THEN wnd[o] ELSE k
  <2>1. CASE werr[o] = "open" /\ wnd[o] >= 1 /\ Continue(t, << Do("data", o, "-", k - n) >>)
    <3>1. k - n \in 0..(2 * MaxInt + 1)
      BY <1>1, <2>1, SessionAssumption DEF TypeOK
    <3> QED
      BY <2>1, <3>1, <1>a, <1>c DEF FlagOps
  <2>2. CASE Continue(t, Resetting(o))
    <3>1. Tame(<< Do("rst", o, "-", 0) >>, o)
      BY <1>1, <1>a, <1>c DEF FlagOps
    <3>2. Tame(Resetting(o), o)
      BY <3>1, <1>b, <1>c, ConcatTame DEF Resetting
    <3> QED
      BY <2>2, <3>2
  <2> QED
    BY <1>8, <2>1, <2>2 DEF WriteDec, o, k
<1>9. CASE WriteFrameData(t)
  <2>1. Tame(<< Do("wdata", o, "-", k) >>, o)
    BY <1>1, <1>a, <1>c DEF FlagOps
  <2> QED
    BY <1>2, <1>9, <2>1 DEF WriteFrameData, o, k
<1>10. CASE ReadPipe(t)
  <2> DEFINE n == IF plen[o] < k THEN plen[o] ELSE k
  <2>1. n \in 0..(2 * MaxInt + 1)
    BY <1>1, SessionAssumption DEF TypeOK
  <2>2. Tame(When(n > 0, << Do("wupdate", o, "-", n) >>), o)
    BY <2>1, <1>a, <1>c, WhenTame DEF FlagOps
  <2> QED
    BY <1>10, <2>2 DEF ReadPipe, o, k
<1>11. CASE OfferReply(t)
  <2>1. Tame(When(Fin(Cur(t).arg), RClose(o, "EOF")), o)
    BY <1>b, <1>c, WhenTame
  <2> QED
    BY <1>2, <1>11, <2>1 DEF OfferReply, o
<1>12. CASE WindowInc(t)
  <2> DEFINE s == << Do("rst", o, "-", 0), Do("nclose", o, "flow", 0) >>
  <2>1. /\ Tame(<< Do("rst", o, "-", 0) >>, o)
        /\ Tame(<< Do("nclose", o, "flow", 0) >>, o)
    BY <1>1, <1>a, <1>b, <1>c DEF FlagOps
  <2>2. s = << Do("rst", o, "-", 0) >> \o << Do("nclose", o, "flow", 0) >>
    OBVIOUS
  <2>3. Tame(s, o)
    BY <2>1, <2>2, ConcatTame
  <2> HIDE DEF s
  <2>4. Tame(s \o RClose(o, "flow"), o)
    BY <2>3, <1>b, <1>c, ConcatTame
  <2>5. PICK b : Continue(t, When(b, s \o RClose(o, "flow")))
    BY <1>12 DEF WindowInc, s, o
  <2> QED
    BY <2>4, <2>5, WhenTame
<1>13. CASE DataCheck(t)
  <2>1. Continue(t, <<>>) \/ Continue(t, << Do("pwrite", o, Cur(t).arg, k) >>)
    BY <1>13 DEF DataCheck, o, k
  <2>2. Cur(t).arg \in Flags
    BY <1>13, <1>d DEF DataCheck, At, Cur, FlagOps
  <2> QED
    BY <1>2, <2>1, <2>2, <1>1, <1>a DEF FlagOps
<1>14. CASE DataWrite(t)
  <2> DEFINE s == << Do("nclose", o, "flow", 0) >> \o RClose(o, "flow")
                  \o << Do("rst", o, "-", 0) >>
             u == When(Fin(Cur(t).arg), RClose(o, "EOF"))
  <2>1. /\ Tame(<< Do("rst", o, "-", 0) >>, o)
        /\ Tame(<< Do("nclose", o, "flow", 0) >>, o)
        /\ Tame(RClose(o, "flow"), o)
    BY <1>1, <1>a, <1>b, <1>c DEF FlagOps
  <2>2. Tame(s, o)
    BY <2>1, ConcatTame
  <2>3. Tame(u, o)
    BY <1>b, <1>c, WhenTame
  <2>4. Continue(t, s) \/ Continue(t, u)
    BY <1>14 DEF DataWrite, o
  <2> QED
    BY <2>2, <2>3, <2>4
<1> QED
    BY <1>0, <1>3, <1>4, <1>5, <1>6, <1>7, <1>8, <1>9, <1>10, <1>11, <1>12, <1>13, <1>14
       DEF Step, Opening, StreamSteps, ReadSteps, o

\* A call gives an idle goroutine of the stream tame work, or starts Open.
LEMMA CallWork ==
    ASSUME TypeOK, NEW o \in Streams, Calls(o)
    PROVE  \/ \E f \in Flags : Open(o, f)
           \/ /\ life[o] = "open"
              /\ \E t \in {Writer(o), Reader(o)} : \E work :
                    Tame(work, o) /\ Begin(t, work)
<1>0. ASSUME NEW t \in {Writer(o), Reader(o)}, NEW work, Tame(work, o), Call(t, o, work)
      PROVE  /\ life[o] = "open"
             /\ \E u \in {Writer(o), Reader(o)} : \E w : Tame(w, o) /\ Begin(u, w)
    BY <1>0 DEF Call
<1>a. "-" \in Flags /\ "F" \in Flags /\ 0 \in 0..(2 * MaxInt + 1)
      /\ \A k \in Lens : k \in 0..(2 * MaxInt + 1)
    BY SessionAssumption DEF Flags
<1>b. \A f \in Flags : \A op \in FlagOps : \A n \in 0..(2 * MaxInt + 1) :
          Tame(<< Do(op, o, f, n) >>, o)
    BY SingleTame
<1>c. Tame(RClose(o, "reset"), o) /\ Tame(WClose(o, "reset"), o) /\ Tame(WClose(o, "closed"), o)
    BY CloseTame DEF Errors
<1>1. ASSUME NEW f \in {"-", "F"}, Reply(o, f)
      PROVE  \E work : Tame(work, o) /\ Call(Writer(o), o, work)
  <2>1. Tame(<< Do("synreply", o, f, 0) >>, o) /\ Tame(When(Fin(f), WClose(o, "closed")), o)
    BY <1>a, <1>b, <1>c, WhenTame DEF FlagOps
  <2> QED
    BY <1>1, <2>1, ConcatTame DEF Reply
<1>2. ASSUME NEW k \in Lens, Write(o, k)
      PROVE  \E work : Tame(work, o) /\ Call(Writer(o), o, work)
  <2>1. Tame(<< Do("wdata", o, "-", k) >>, o)
    BY <1>a, <1>b DEF FlagOps
  <2> QED
    BY <1>2, <2>1 DEF Write
<1>3. ASSUME NEW k \in Lens, Read(o, k)
      PROVE  \E work : Tame(work, o) /\ Call(Reader(o), o, work)
  <2>1. Tame(<< Do("pread", o, "-", k) >>, o)
    BY <1>a, <1>b DEF FlagOps
  <2> QED
    BY <1>3, <2>1 DEF Read
<1>4. ASSUME Header(o)
      PROVE  \E work : Tame(work, o) /\ Call(Reader(o), o, work)
  <2>1. Tame(<< Do("recv", o, "-", 0) >>, o) /\ Tame(<< Do("unreply", o, "-", 0) >>, o)
    BY <1>a, <1>b DEF FlagOps
  <2>2. << Do("recv", o, "-", 0), Do("unreply", o, "-", 0) >>
        = << Do("recv", o, "-", 0) >> \o << Do("unreply", o, "-", 0) >>
    OBVIOUS
  <2> QED
    BY <1>4, <2>1, <2>2, ConcatTame DEF Header
<1>5. ASSUME Close(o)
      PROVE  \E work : Tame(work, o) /\ Call(Writer(o), o, work)
  <2>1. Tame(<< Do("fin", o, "F", 0) >>, o)
    BY <1>a, <1>b DEF FlagOps
  <2> QED
    BY <1>5, <1>c, <2>1, ConcatTame DEF Close
<1>6. ASSUME Reset(o)
      PROVE  \E work : Tame(work, o) /\ Call(Reader(o), o, work)
  <2>1. Tame(<< Do("rst", o, "-", 0) >>, o)
    BY <1>a, <1>b DEF FlagOps
  <2>2. Tame(Resetting(o), o)
    BY <1>c, <2>1, ConcatTame DEF Resetting
  <2> QED
    BY <1>6, <2>2 DEF Reset
<1> QED
    BY <1>0, <1>1, <1>2, <1>3, <1>4, <1>5, <1>6 DEF Calls

\* A frame leaves the idle read loop nothing to do, or tame work on a stream
\* that has an id.
LEMMA FrameWork ==
    ASSUME TypeOK, handleRead
    PROVE  \/ Begin(ReadLoop, <<>>)
           \/ \E o \in Streams : \E work :
                Tame(work, o) /\ Begin(ReadLoop, work) /\ id'[o] # 0
<1> DEFINE Goal == \E o \in Streams : \E work :
                      Tame(work, o) /\ Begin(ReadLoop, work) /\ id'[o] # 0
<1>0. Receive(<<>>) => Begin(ReadLoop, <<>>)
    BY DEF Receive
<1>a. /\ "-" \in Flags /\ "F" \in Flags /\ 0 \in 0..(2 * MaxInt + 1)
      /\ \A k \in Lens \cup Deltas : k \in 0..(2 * MaxInt + 1)
    BY SessionAssumption DEF Flags
<1>b. \A o \in Streams, f \in Flags, op \in FlagOps, n \in 0..(2 * MaxInt + 1) :
          Tame(<< Do(op, o, f, n) >>, o)
    BY SingleTame
<1>c. \A i \in WireIds : i # 0
    BY SessionAssumption
<1>d. ASSUME NEW i \in WireIds, NEW o \in get(i), NEW work, Tame(work, o), Receive(work),
             UNCHANGED id
      PROVE  Goal
  <2>1. o \in Streams /\ id[o] = i
    BY <1>d DEF get, TypeOK
  <2> QED
    BY <1>c, <1>d, <2>1 DEF Receive
<1>1. CASE IgnoreFrame \/ AnswerPing
    BY <1>0, <1>1 DEF IgnoreFrame, AnswerPing
<1>2. ASSUME NEW v \in Settings, handleSettings(v) PROVE Begin(ReadLoop, <<>>)
    BY <1>0, <1>2 DEF handleSettings
<1>3. ASSUME NEW i \in WireIds, RefuseSynStream(i) PROVE Begin(ReadLoop, <<>>)
    BY <1>0, <1>3 DEF RefuseSynStream
<1>4. ASSUME NEW i \in WireIds, NEW o \in Remotes, NEW f \in Flags, handleSynStream(o, i, f)
      PROVE  Goal
  <2> DEFINE a == When(Uni(f), WClose(o, "closed"))
             b == When(Fin(f), RClose(o, "EOF"))
             c == << Do("handle", o, "-", 0) >>
  <2>1. o \in Streams
    BY DEF Streams
  <2>2. Tame(a, o) /\ Tame(b, o)
    BY <2>1, CloseTame, WhenTame DEF Errors
  <2>3. Tame(c, o)
    BY <2>1, <1>a, <1>b DEF FlagOps
  <2> HIDE DEF a, b, c
  <2>4. Tame(a \o b \o c, o)
    BY <2>2, <2>3, ConcatTame
  <2>5. Receive(a \o b \o c) /\ id' = [id EXCEPT ![o] = i]
    BY <1>4 DEF handleSynStream, a, b, c
  <2>6. id'[o] = i
    BY <2>1, <2>5 DEF TypeOK
  <2> QED
    BY <1>c, <2>1, <2>4, <2>5, <2>6 DEF Receive
<1>5. ASSUME NEW i \in WireIds, NEW f \in {"-", "F"}, handleSynReply(i, f)
      PROVE  Begin(ReadLoop, <<>>) \/ Goal
  <2>1. \A o \in get(i) : Tame(<< Do("offer", o, f, 0) >>, o)
    BY <1>a, <1>b DEF FlagOps, get, TypeOK
  <2> QED
    BY <1>0, <1>5, <1>d, <2>1 DEF handleSynReply, flagVars
<1>6. ASSUME NEW i \in WireIds, NEW u \in Deltas, handleWindowUpdate(i, u)
      PROVE  Begin(ReadLoop, <<>>) \/ Goal
  <2>1. \A o \in get(i) : Tame(<< Do("inc", o, "-", u) >>, o)
    BY <1>a, <1>b DEF FlagOps, get, TypeOK
  <2> QED
    BY <1>0, <1>6, <1>d, <2>1 DEF handleWindowUpdate, flagVars
<1>7. ASSUME NEW i \in WireIds, NEW k \in Lens, NEW f \in {"-", "F"}, handleData(i, k, f)
      PROVE  Begin(ReadLoop, <<>>) \/ Goal
  <2>1. \A o \in get(i) : Tame(<< Do("rcheck", o, f, k) >>, o)
    BY <1>a, <1>b DEF FlagOps, get, TypeOK
  <2> QED
    BY <1>0, <1>7, <1>d, <2>1 DEF handleData, flagVars
<1> QED
    BY <1>1, <1>2, <1>3, <1>4, <1>5, <1>6, <1>7 DEF handleRead

\* The teardown of one stream is tame work that closes its pipe and window.
LEMMA TeardownWork ==
    ASSUME TypeOK, NEW o \in victims, TeardownStream(o)
    PROVE  \E work :
              /\ Tame(work, o) /\ Begin(ReadLoop, work)
              /\ \E i \in DOMAIN work : work[i].op = "pclose" /\ work[i].o = o
              /\ \E i \in DOMAIN work : work[i].op = "nclose" /\ work[i].o = o
<1> DEFINE work == RClose(o, "closed") \o << Do("nclose", o, "closed", 0),
                                            Do("nilreply", o, "-", 0) >>
<1>1. o \in Streams
    BY DEF TypeOK
<1>2. /\ "closed" \in Errors /\ "-" \in Flags /\ "nilreply" \in FlagOps
      /\ 0 \in 0..(2 * MaxInt + 1)
    BY SessionAssumption DEF Errors, Flags, FlagOps
<1>a. Tame(RClose(o, "closed"), o)
    BY <1>1, <1>2, CloseTame
<1>b. Tame(<< Do("nclose", o, "closed", 0) >>, o)
    BY <1>1, <1>2, NcloseTame
<1>c. Tame(<< Do("nilreply", o, "-", 0) >>, o)
    BY <1>1, <1>2, SingleTame
<1>3. << Do("nclose", o, "closed", 0), Do("nilreply", o, "-", 0) >>
      = << Do("nclose", o, "closed", 0) >> \o << Do("nilreply", o, "-", 0) >>
    OBVIOUS
<1>4. Tame(work, o)
    BY <1>a, <1>b, <1>c, <1>3, ConcatTame
<1>6. /\ \E i \in DOMAIN work : work[i].op = "pclose" /\ work[i].o = o
      /\ \E i \in DOMAIN work : work[i].op = "nclose" /\ work[i].o = o
  <2> DEFINE a == RClose(o, "closed")
             c == << Do("nclose", o, "closed", 0), Do("nilreply", o, "-", 0) >>
  <2>1. a \in Seq(Ops) /\ c \in Seq(Ops)
    BY <1>a, <1>b, <1>c, <1>3, ConcatTame DEF Tame
  <2>2. 2 \in DOMAIN a /\ a[2].op = "pclose" /\ a[2].o = o
    BY DEF RClose, Do
  <2>3. 1 \in DOMAIN c /\ c[1].op = "nclose" /\ c[1].o = o
    BY DEF Do
  <2> HIDE DEF a, c
  <2>4. 2 \in DOMAIN (a \o c) /\ (a \o c)[2] = a[2]
    BY <2>1, <2>2, InConcat
  <2>5. Len(a) + 1 \in DOMAIN (a \o c) /\ (a \o c)[Len(a) + 1] = c[1]
    BY <2>1, <2>3, InConcat
  <2>6. work = a \o c
    BY DEF a, c
  <2> HIDE DEF work
  <2> QED
    BY <2>2, <2>3, <2>4, <2>5, <2>6
<1>7. Begin(ReadLoop, work)
    BY DEF TeardownStream
<1> HIDE DEF work
<1> QED
    BY <1>4, <1>6, <1>7

--------------------------------------------------------------------------------
\* Types.

\* The initial state has the types.
LEMMA InitType == Init => TypeOK
<1> SUFFICES ASSUME Init PROVE TypeOK
    OBVIOUS
<1>1. /\ closing \in BOOLEAN /\ wready \in [Streams -> BOOLEAN]
      /\ rclosed \in [Streams -> BOOLEAN] /\ wclosed \in [Streams -> BOOLEAN]
    BY Zenon DEF Init
<1>2. /\ wnd \in [Streams -> (-MaxInt - 1)..MaxInt] /\ plen \in [Streams -> 0..DefaultWnd]
      /\ initwnd \in 0..MaxInt
    BY SessionAssumption DEF Init
<1>3. /\ tbl \subseteq Streams /\ victims \subseteq Streams /\ wasOpen \subseteq Streams
      /\ nextSynId \in Nat /\ lastRecvId \in Nat /\ lastSyn \in Nat
      /\ spawned \in Nat /\ frames \in Nat
      /\ openMu \in Streams \cup {None} /\ phase \in {"loop", "teardown", "done"}
      /\ id \in [Streams -> Nat] /\ calls \in [Threads -> Nat]
    BY DEF Init
<1>4. /\ life \in [Streams -> {"new", "opening", "open", "failed"}]
      /\ werr \in [Streams -> Errors \cup {"open"}]
      /\ perr \in [Streams -> Errors \cup {"open"}]
      /\ reply \in [Streams -> {"nil", "empty", "full"}]
      /\ out \in [Streams -> {"none", "syn", "fin", "bad"}]
    BY DEF Init
<1>5. todo \in [Threads -> Seq(Ops)]
    BY DEF Init
<1> QED
    BY <1>1, <1>2, <1>3, <1>4, <1>5 DEF TypeOK

\* The work that is left has the type of work.
LEMMA TodoType ==
    ASSUME TypeOK, NEW t \in Threads, NEW more \in Seq(Ops),
           \/ todo[t] # <<>> /\ Continue(t, more)
           \/ Begin(t, more)
    PROVE  todo' \in [Threads -> Seq(Ops)]
<1>1. CASE todo[t] # <<>> /\ Continue(t, more)
  <2>1. more \o Tail(todo[t]) \in Seq(Ops)
    BY <1>1, CurType
  <2> QED
    BY <1>1, <2>1 DEF Continue, TypeOK
<1>2. CASE Begin(t, more)
    BY <1>2 DEF Begin, TypeOK
<1> QED
    BY <1>1, <1>2

\* Every operation of a goroutine keeps the types.
LEMMA StepType ==
    ASSUME TypeOK, NEW t \in Threads, Step(t)
    PROVE  TypeOK'
<1> USE DEF sessVars, flagVars, flowVars, histVars
<1>a. todo' \in [Threads -> Seq(Ops)]
  <2>1. CASE OpenLock(t)
    <3>1. todo[t] # <<>> /\ Cur(t).op = "lock"
        BY <2>1 DEF OpenLock, At, Cur
    <3>2. Cur(t).o \in Streams /\ Cur(t).arg \in Flags
        BY <3>1, CurType DEF CloseOps
    <3>3. << Do("add", Cur(t).o, Cur(t).arg, 0) >> \in Seq(Ops)
        BY <3>2, SessionAssumption DEF Do, Ops, OpenOps
    <3> QED
        BY <2>1, <3>1, <3>3, TodoType DEF OpenLock
  <2>2. CASE ~OpenLock(t)
      BY <2>2, StepWork, TodoType DEF Tame
  <2> QED
      BY <2>1, <2>2
<1>b. todo[t] # <<>> =>
          /\ Cur(t).o \in Streams
          /\ Cur(t).op \in CloseOps => Cur(t).arg \in Errors
          /\ Cur(t).k \in 0..(2 * MaxInt + 1)
    BY CurType
<1>1. CASE SetRClosed(t)
    BY <1>1, <1>a, <1>b DEF SetRClosed, TypeOK, At, Cur
<1>2. CASE SetWClosed(t)
    BY <1>2, <1>a, <1>b DEF SetWClosed, TypeOK, At, Cur
<1>3. CASE ClosePipe(t)
    BY <1>3, <1>a, <1>b DEF ClosePipe, TypeOK, At, Cur, CloseOps
<1>4. CASE CloseWnd(t)
    BY <1>4, <1>a, <1>b DEF CloseWnd, TypeOK, At, Cur, CloseOps
<1>5. CASE maybeRemove(t)
    BY <1>5, <1>a, <1>b DEF maybeRemove, TypeOK, At, Cur
<1>6. CASE OpenLock(t)
    BY <1>6, <1>a, <1>b DEF OpenLock, TypeOK, At, Cur
<1>7. CASE OpenAdd(t)
  <2>1. Cur(t).o \in Streams
    BY <1>7, <1>b DEF OpenAdd, At
  <2>2. \/ /\ life' = [life EXCEPT ![Cur(t).o] = "failed"]
           /\ UNCHANGED <<tbl, nextSynId, id>>
        \/ /\ id' = [id EXCEPT ![Cur(t).o] = nextSynId]
           /\ nextSynId' = nextSynId + 2
           /\ tbl' = Added(Cur(t).o, nextSynId)
           /\ UNCHANGED life
    BY <1>7, Zenon DEF OpenAdd
  <2>3. /\ tbl' \subseteq Streams /\ nextSynId' \in Nat /\ id' \in [Streams -> Nat]
        /\ life' \in [Streams -> {"new", "opening", "open", "failed"}]
    <3>1. /\ tbl \subseteq Streams /\ nextSynId \in Nat /\ id \in [Streams -> Nat]
          /\ life \in [Streams -> {"new", "opening", "open", "failed"}]
      BY DEF TypeOK
    <3>2. CASE /\ life' = [life EXCEPT ![Cur(t).o] = "failed"]
               /\ UNCHANGED <<tbl, nextSynId, id>>
      BY <2>1, <3>1, <3>2
    <3>3. CASE /\ id' = [id EXCEPT ![Cur(t).o] = nextSynId]
               /\ nextSynId' = nextSynId + 2
               /\ tbl' = Added(Cur(t).o, nextSynId)
               /\ UNCHANGED life
      BY <2>1, <3>1, <3>3 DEF Added
    <3> QED
      BY <2>2, <3>2, <3>3
  <2>4. UNCHANGED <<flowVars, histVars, initwnd, closing, lastRecvId, openMu, phase,
                    victims, wready, rclosed, wclosed, spawned, frames, calls>>
    BY <1>7 DEF OpenAdd
  <2> QED
    BY <1>a, <2>3, <2>4 DEF TypeOK
<1>8. CASE OpenMakeReply(t)
    BY <1>8, <1>a, <1>b DEF OpenMakeReply, TypeOK, At, Cur
<1>9. CASE OpenWriteSyn(t)
  <2>1. Cur(t).o \in Streams
    BY <1>9, <1>b DEF OpenWriteSyn, At
  <2>2. /\ lastSyn' = lastSyn \/ lastSyn' = id[Cur(t).o]
        /\ life' = life \/ life' = [life EXCEPT ![Cur(t).o] = "failed"]
        /\ out' = [out EXCEPT ![Cur(t).o] = AfterSyn(Cur(t).o, Cur(t).arg)]
    BY <1>9, Zenon DEF OpenWriteSyn
  <2>3. /\ lastSyn' \in Nat /\ life' \in [Streams -> {"new", "opening", "open", "failed"}]
        /\ out' \in [Streams -> {"none", "syn", "fin", "bad"}]
    <3>1. /\ lastSyn \in Nat /\ id[Cur(t).o] \in Nat
          /\ life \in [Streams -> {"new", "opening", "open", "failed"}]
          /\ out \in [Streams -> {"none", "syn", "fin", "bad"}]
          /\ AfterSyn(Cur(t).o, Cur(t).arg) \in {"none", "syn", "fin", "bad"}
      BY <2>1 DEF TypeOK, AfterSyn
    <3>2. [life EXCEPT ![Cur(t).o] = "failed"]
              \in [Streams -> {"new", "opening", "open", "failed"}]
      BY <2>1, <3>1
    <3>3. life' \in [Streams -> {"new", "opening", "open", "failed"}]
      BY <2>2, <3>1, <3>2, Zenon
    <3> QED
      BY <2>1, <2>2, <3>1, <3>3
  <2>4. UNCHANGED <<sessVars, flowVars, id, wready, rclosed, wclosed, wasOpen,
                    spawned, frames, calls>>
    BY <1>9 DEF OpenWriteSyn
  <2> QED
    BY <1>a, <2>3, <2>4 DEF TypeOK
<1>10. CASE OpenUnlock(t)
    BY <1>10, <1>a, <1>b DEF OpenUnlock, TypeOK, At, Cur
<1>11. CASE HeaderReceive(t)
    BY <1>11, <1>a, <1>b DEF HeaderReceive, TypeOK, At, Cur
<1>12. CASE HeaderForget(t)
    BY <1>12, <1>a, <1>b DEF HeaderForget, TypeOK, At, Cur
<1>13. CASE ReplyWrite(t)
    BY <1>13, <1>a, <1>b DEF ReplyWrite, TypeOK, At, Cur, AfterSyn
<1>14. CASE WriteCheck(t)
    BY <1>14, <1>a, <1>b DEF WriteCheck, TypeOK, At, Cur
<1>15. CASE WriteDec(t)
  <2> DEFINE o == Cur(t).o
             k == Cur(t).k
             n == IF wnd[o] < k THEN wnd[o] ELSE k
  <2>1. o \in Streams /\ k \in 0..(2 * MaxInt + 1)
    BY <1>15, <1>b DEF WriteDec, At
  <2>2. UNCHANGED wnd \/ (wnd[o] >= 1 /\ wnd' = [wnd EXCEPT ![o] = @ - n])
    BY <1>15 DEF WriteDec
  <2> HIDE DEF o, k
  <2>3. wnd[o] \in (-MaxInt - 1)..MaxInt /\ MaxInt \in Nat
    BY <2>1, SessionAssumption DEF TypeOK
  <2>4. wnd[o] >= 1 => wnd[o] - n \in (-MaxInt - 1)..MaxInt
    BY <2>1, <2>3
  <2> HIDE DEF n
  <2>5. wnd' \in [Streams -> (-MaxInt - 1)..MaxInt]
    BY <2>1, <2>2, <2>4 DEF TypeOK
  <2>6. UNCHANGED <<sessVars, flagVars, histVars, werr, plen, perr, reply,
                    spawned, frames, calls>>
    BY <1>15 DEF WriteDec
  <2> QED
    BY <1>a, <2>5, <2>6 DEF TypeOK
<1>16. CASE WriteFrameData(t)
    BY <1>16, <1>a, <1>b DEF WriteFrameData, TypeOK, At, Cur, AfterData
<1>17. CASE CloseWriteFin(t)
    BY <1>17, <1>a, <1>b DEF CloseWriteFin, TypeOK, At, Cur, AfterData
<1>18. CASE WriteRst(t)
    BY <1>18, <1>a, <1>b DEF WriteRst, TypeOK, At, Cur
<1>19. CASE ReadPipe(t)
  <2> DEFINE o == Cur(t).o
             k == Cur(t).k
             n == IF plen[o] < k THEN plen[o] ELSE k
  <2>1. o \in Streams /\ k \in 0..(2 * MaxInt + 1)
    BY <1>19, <1>b DEF ReadPipe, At
  <2>2. plen' = [plen EXCEPT ![o] = @ - n]
    BY <1>19 DEF ReadPipe
  <2> HIDE DEF o, k
  <2>3. plen[o] \in 0..DefaultWnd /\ DefaultWnd \in Nat
    BY <2>1, SessionAssumption DEF TypeOK
  <2>4. plen[o] - n \in 0..DefaultWnd
    BY <2>1, <2>3, SessionAssumption
  <2> HIDE DEF n
  <2>5. plen' \in [Streams -> 0..DefaultWnd]
    BY <2>1, <2>2, <2>4 DEF TypeOK
  <2>6. UNCHANGED <<sessVars, flagVars, histVars, wnd, werr, perr, reply,
                    spawned, frames, calls>>
    BY <1>19 DEF ReadPipe
  <2> QED
    BY <1>a, <2>5, <2>6 DEF TypeOK
<1>20. CASE updateWindow(t)
    BY <1>20, <1>a, <1>b DEF updateWindow, TypeOK, At, Cur
<1>21. CASE StartHandler(t)
    BY <1>21, <1>a, <1>b DEF StartHandler, TypeOK, At, Cur
<1>22. CASE OfferReply(t)
  <2>1. Cur(t).o \in Streams
    BY <1>22, <1>b DEF OfferReply, At
  <2>2. /\ reply' = reply \/ reply' = [reply EXCEPT ![Cur(t).o] = "full"]
        /\ spawned' = spawned \/ spawned' = spawned + 1
    BY <1>22, Zenon DEF OfferReply, Spawn
  <2>3. reply' \in [Streams -> {"nil", "empty", "full"}] /\ spawned' \in Nat
    <3>1. reply \in [Streams -> {"nil", "empty", "full"}] /\ spawned \in Nat
      BY DEF TypeOK
    <3>2. [reply EXCEPT ![Cur(t).o] = "full"] \in [Streams -> {"nil", "empty", "full"}]
      BY <2>1, <3>1
    <3>3. reply' \in [Streams -> {"nil", "empty", "full"}]
      BY <2>2, <3>1, <3>2, Zenon
    <3> QED
      BY <2>2, <3>1, <3>3
  <2>4. UNCHANGED <<sessVars, flagVars, histVars, wnd, werr, plen, perr, frames, calls>>
    BY <1>22 DEF OfferReply
  <2> QED
    BY <1>a, <2>3, <2>4 DEF TypeOK
<1>23. CASE WindowInc(t)
  <2> DEFINE o == Cur(t).o
             d == InRange(Cur(t).k)
  <2>1. o \in Streams /\ Cur(t).k \in 0..(2 * MaxInt + 1)
    BY <1>23, <1>b DEF WindowInc, At
  <2>2. wnd' = [wnd EXCEPT ![o] = InRange(wnd[o] + d)]
    BY <1>23 DEF WindowInc
  <2>3. d \in (-MaxInt - 1)..MaxInt
    BY <2>1, SessionAssumption DEF InRange
  <2> HIDE DEF d, o
  <2>4. wnd[o] \in (-MaxInt - 1)..MaxInt
    BY <2>1 DEF TypeOK
  <2>5. InRange(wnd[o] + d) \in (-MaxInt - 1)..MaxInt
    BY <2>3, <2>4, SessionAssumption DEF InRange
  <2>6. wnd' \in [Streams -> (-MaxInt - 1)..MaxInt]
    BY <2>1, <2>2, <2>5 DEF TypeOK
  <2>7. UNCHANGED <<sessVars, flagVars, histVars, werr, plen, perr, reply,
                    spawned, frames, calls>>
    BY <1>23 DEF WindowInc
  <2> QED
    BY <1>a, <2>6, <2>7 DEF TypeOK
<1>24. CASE DataCheck(t)
  <2>1. spawned' \in {spawned, spawned + 1}
    BY <1>24 DEF DataCheck, Spawn
  <2>2. spawned' \in Nat
    BY <2>1 DEF TypeOK
  <2>3. UNCHANGED <<sessVars, flagVars, flowVars, histVars, frames, calls>>
    BY <1>24 DEF DataCheck
  <2> QED
    BY <1>a, <2>2, <2>3 DEF TypeOK
<1>25. CASE DataWrite(t)
  <2> DEFINE o == Cur(t).o
             n == plen[o] + Cur(t).k
             m == IF perr[o] # "open" THEN plen[o]
                  ELSE IF n > DefaultWnd THEN DefaultWnd ELSE n
  <2>1. o \in Streams /\ Cur(t).k \in 0..(2 * MaxInt + 1)
    BY <1>25, <1>b DEF DataWrite, At
  <2>2. plen' = [plen EXCEPT ![o] = m]
    BY <1>25, <2>1 DEF DataWrite, TypeOK
  <2>3. plen[o] \in 0..DefaultWnd /\ DefaultWnd \in Nat /\ Cur(t).k \in Nat
    BY <2>1, SessionAssumption DEF TypeOK
  <2>4. m \in 0..DefaultWnd
    BY <2>3
  <2> HIDE DEF m, o
  <2>5. plen' \in [Streams -> 0..DefaultWnd]
    BY <2>1, <2>2, <2>4 DEF TypeOK
  <2>6. UNCHANGED <<sessVars, flagVars, histVars, wnd, werr, perr, reply,
                    spawned, frames, calls>>
    BY <1>25 DEF DataWrite
  <2> QED
    BY <1>a, <2>5, <2>6 DEF TypeOK
<1>26. CASE TeardownReply(t)
    BY <1>26, <1>a, <1>b DEF TeardownReply, TypeOK, At, Cur
<1> QED
    BY <1>1, <1>2, <1>3, <1>4, <1>5, <1>6, <1>7, <1>8, <1>9, <1>10, <1>11, <1>12, <1>13, <1>14, <1>15, <1>16, <1>17, <1>18, <1>19, <1>20, <1>21, <1>22, <1>23, <1>24, <1>25, <1>26
       DEF Step, Closings, Opening, StreamSteps, ReadSteps

\* A call keeps the types.
LEMMA CallType ==
    ASSUME TypeOK, NEW o \in Streams, Calls(o)
    PROVE  TypeOK'
<1> USE DEF sessVars, flagVars, flowVars, histVars
<1>0. Writer(o) \in Threads /\ Reader(o) \in Threads
    BY ThreadsType
<1>a. todo' \in [Threads -> Seq(Ops)]
  <2>1. CASE \E f \in Flags : Open(o, f)
    <3>1. PICK f \in Flags : Open(o, f)
      BY <2>1
    <3>2. << Do("lock", o, f, 0) >> \in Seq(Ops)
      BY SessionAssumption DEF Do, Ops, OpenOps
    <3> QED
      BY <1>0, <3>1, <3>2, TodoType DEF Open
  <2>2. CASE \E t \in {Writer(o), Reader(o)} : \E work : Tame(work, o) /\ Begin(t, work)
      BY <1>0, <2>2, TodoType DEF Tame
  <2> QED
      BY <2>1, <2>2, CallWork
<1>b. ASSUME NEW t \in Threads, NEW work, Call(t, o, work)
      PROVE  calls' \in [Threads -> Nat]
  <2>1. calls \in [Threads -> Nat] /\ calls' = [calls EXCEPT ![t] = @ + 1]
    BY <1>b DEF Call, TypeOK
  <2> QED
    BY <2>1
<1>1. ASSUME NEW f \in Flags, Open(o, f) PROVE TypeOK'
  <2>1. wready' \in [Streams -> BOOLEAN]
    <3>1. wready' = [wready EXCEPT ![o] = TRUE] /\ wready \in [Streams -> BOOLEAN]
      BY <1>1, Zenon DEF Open, TypeOK
    <3> QED
      BY <3>1
  <2>2. /\ life' \in [Streams -> {"new", "opening", "open", "failed"}]
        /\ wnd' \in [Streams -> (-MaxInt - 1)..MaxInt]
    <3>1. initwnd \in (-MaxInt - 1)..MaxInt
      BY SessionAssumption DEF TypeOK
    <3> QED
      BY <1>1, <3>1 DEF Open, TypeOK
  <2>3. UNCHANGED <<sessVars, histVars, id, rclosed, wclosed, werr, plen, perr,
                    reply, spawned, frames, calls>>
    BY <1>1 DEF Open
  <2> QED
    BY <1>a, <2>1, <2>2, <2>3 DEF TypeOK
<1>2. ASSUME NEW f \in {"-", "F"}, Reply(o, f) PROVE TypeOK'
  <2>1. wready' \in [Streams -> BOOLEAN]
    <3>1. wready' = [wready EXCEPT ![o] = TRUE] /\ wready \in [Streams -> BOOLEAN]
      BY <1>2, Zenon DEF Reply, TypeOK
    <3> QED
      BY <3>1
  <2>2. calls' \in [Threads -> Nat]
    BY <1>0, <1>2, <1>b DEF Reply
  <2>3. UNCHANGED <<sessVars, flowVars, histVars, id, life, rclosed, wclosed,
                    spawned, frames>>
    BY <1>2 DEF Reply
  <2> QED
    BY <1>a, <2>1, <2>2, <2>3 DEF TypeOK
<1>3. CASE \/ \E k \in Lens : Write(o, k) \/ Read(o, k)
           \/ Header(o) \/ Close(o) \/ Reset(o)
  <2>1. calls' \in [Threads -> Nat]
    BY <1>0, <1>3, <1>b DEF Write, Read, Header, Close, Reset
  <2>2. UNCHANGED <<sessVars, flagVars, flowVars, histVars, spawned, frames>>
    BY <1>3 DEF Write, Read, Header, Close, Reset
  <2> QED
    BY <1>a, <2>1, <2>2 DEF TypeOK
<1> QED
    BY <1>1, <1>2, <1>3 DEF Calls

\* A frame keeps the types.
LEMMA FrameType ==
    ASSUME TypeOK, handleRead
    PROVE  TypeOK'
<1> USE DEF sessVars, flagVars, flowVars, histVars
<1>a. todo' \in [Threads -> Seq(Ops)]
  <2>1. <<>> \in Seq(Ops) /\ ReadLoop \in Threads
    BY ThreadsType
  <2>2. CASE Begin(ReadLoop, <<>>)
    BY <2>1, <2>2, TodoType
  <2>3. ASSUME NEW o \in Streams, NEW work, Tame(work, o), Begin(ReadLoop, work)
        PROVE  todo' \in [Threads -> Seq(Ops)]
    BY <2>1, <2>3, TodoType DEF Tame
  <2> QED
    BY <2>2, <2>3, FrameWork
<1>b. frames' \in Nat
  <2>1. frames' = frames + 1
    BY DEF handleRead, IgnoreFrame, AnswerPing, handleSettings, RefuseSynStream,
           handleSynStream, handleSynReply, handleWindowUpdate, handleData, Receive
  <2> QED
    BY <2>1 DEF TypeOK
<1>c. Spawn \/ UNCHANGED spawned => spawned' \in Nat
    BY DEF Spawn, TypeOK
<1>1. CASE IgnoreFrame \/ AnswerPing \/ \E i \in WireIds : RefuseSynStream(i)
  <2>1. UNCHANGED <<sessVars, flagVars, flowVars, histVars, calls>>
        /\ (Spawn \/ UNCHANGED spawned)
    BY <1>1, Zenon DEF IgnoreFrame, AnswerPing, RefuseSynStream
  <2> QED
    BY <1>a, <1>b, <1>c, <2>1 DEF TypeOK
<1>2. ASSUME NEW v \in Settings, handleSettings(v) PROVE TypeOK'
  <2>1. initwnd' \in 0..MaxInt
    <3>1. v \in Nat /\ MaxInt \in Nat /\ initwnd \in 0..MaxInt
      BY SessionAssumption DEF TypeOK
    <3>2. initwnd' = IF v <= MaxInt THEN v ELSE initwnd
      BY <1>2 DEF handleSettings
    <3> QED
      BY <3>1, <3>2
  <2>2. UNCHANGED <<flagVars, flowVars, histVars, tbl, nextSynId, closing, lastRecvId,
                    openMu, phase, victims, spawned, calls>>
    BY <1>2 DEF handleSettings
  <2> QED
    BY <1>a, <1>b, <2>1, <2>2 DEF TypeOK
<1>3. ASSUME NEW i \in WireIds, NEW o \in Remotes, NEW f \in Flags, handleSynStream(o, i, f)
      PROVE  TypeOK'
  <2>1. o \in Streams /\ i \in Nat /\ initwnd \in (-MaxInt - 1)..MaxInt
    BY SessionAssumption DEF Streams, TypeOK
  <2>2. /\ lastRecvId' \in Nat /\ tbl' \subseteq Streams
        /\ wnd' \in [Streams -> (-MaxInt - 1)..MaxInt]
        /\ id' \in [Streams -> Nat]
    <3>1. /\ lastRecvId' = i /\ wnd' = [wnd EXCEPT ![o] = initwnd]
          /\ id' = [id EXCEPT ![o] = i] /\ tbl' = Added(o, i)
      BY <1>3 DEF handleSynStream
    <3>2. /\ tbl \subseteq Streams /\ id \in [Streams -> Nat]
          /\ wnd \in [Streams -> (-MaxInt - 1)..MaxInt]
      BY DEF TypeOK
    <3> QED
      BY <2>1, <3>1, <3>2 DEF Added
  <2>3. UNCHANGED <<histVars, nextSynId, initwnd, closing, openMu, phase, victims,
                    life, wready, rclosed, wclosed, werr, plen, perr, reply,
                    spawned, calls>>
    BY <1>3 DEF handleSynStream
  <2> QED
    BY <1>a, <1>b, <2>2, <2>3 DEF TypeOK
<1>4. ASSUME NEW i \in WireIds,
             \/ \E f \in {"-", "F"} : handleSynReply(i, f)
             \/ \E u \in Deltas : handleWindowUpdate(i, u)
             \/ \E k \in Lens, f \in {"-", "F"} : handleData(i, k, f)
      PROVE  TypeOK'
  <2>1. UNCHANGED <<sessVars, flagVars, flowVars, histVars, calls>>
        /\ (Spawn \/ UNCHANGED spawned)
    BY <1>4, Zenon DEF handleSynReply, handleWindowUpdate, handleData
  <2> QED
    BY <1>a, <1>b, <1>c, <2>1 DEF TypeOK
<1> QED
    BY <1>1, <1>2, <1>3, <1>4 DEF handleRead

\* The end of the read loop and the teardown keep the types.
LEMMA TeardownType ==
    ASSUME TypeOK, ReadFails \/ Teardown \/ SpawnedWrite
    PROVE  TypeOK'
<1> USE DEF sessVars, flagVars, flowVars, histVars
<1>1. CASE ReadFails
  <2>1. closing' \in BOOLEAN
    BY <1>1, Zenon DEF ReadFails
  <2>2. /\ victims' \subseteq Streams /\ wasOpen' \subseteq Streams
        /\ phase' \in {"loop", "teardown", "done"}
    BY <1>1 DEF ReadFails, TypeOK
  <2>3. UNCHANGED <<flagVars, flowVars, tbl, nextSynId, initwnd, lastRecvId, openMu,
                    lastSyn, out, todo, spawned, frames, calls>>
    BY <1>1 DEF ReadFails
  <2> QED
    BY <2>1, <2>2, <2>3 DEF TypeOK
<1>2. ASSUME NEW o \in victims, TeardownStream(o) PROVE TypeOK'
  <2>1. todo' \in [Threads -> Seq(Ops)]
    BY <1>2, TeardownWork, TodoType, ThreadsType DEF Tame
  <2> QED
    BY <1>2, <2>1 DEF TeardownStream, TypeOK
<1>3. CASE TeardownEnd
    BY <1>3 DEF TeardownEnd, TypeOK
<1>4. CASE SpawnedWrite
    BY <1>4 DEF SpawnedWrite, TypeOK
<1> QED
    BY <1>1, <1>2, <1>3, <1>4 DEF Teardown

\* Every step keeps the types.
LEMMA NextType ==
    ASSUME TypeOK, [Next]_vars
    PROVE  TypeOK'
<1>1. CASE UNCHANGED vars
    BY <1>1 DEF vars, sessVars, flagVars, flowVars, histVars, TypeOK
<1>2. CASE Next
    BY <1>2, StepType, CallType, FrameType, TeardownType DEF Next
<1> QED
    BY <1>1, <1>2

\* The session's variables keep their types: the send window stays within its
\* integer type and the pipe within its buffer whatever the peer sends
\* (semaphore.go:16-44, buffer.go:41-60), and every work list is well formed.
THEOREM TypeCorrect == Spec => []TypeOK
<1>1. Init => TypeOK
    BY InitType
<1>2. TypeOK /\ [Next]_vars => TypeOK'
    BY NextType
<1> QED
    BY <1>1, <1>2, PTL DEF Spec

--------------------------------------------------------------------------------
\* The inductive invariant.  NoLeak needs that a goroutine that sets a flag
\* still has its maybeRemove to do (Tidy), and that no stream is closed before
\* it is in the table: a stream without an id is fresh, and only Open works on
\* it (Fresh, Named).  OnlyClosedLeave needs that ids are not given twice
\* (Unique).

Orderly == \A t \in Threads : Tidy(todo[t])

\* What goroutine t's having to do x says of the stream.
Named(t, x) ==
    /\ x.op \in OpenOps =>
          t = Writer(x.o) /\ x.o \in Locals /\ life[x.o] = "opening" /\ id[x.o] = 0
    /\ x.op = "unlock" => id[x.o] # 0 \/ life[x.o] = "failed"
    /\ x.op \notin OpenOps \cup {"unlock"} => id[x.o] # 0

AllNamed == \A t \in Threads : \A i \in DOMAIN todo[t] : Named(t, todo[t][i])

\* A goroutine that opens a stream has nothing else to do before it has an id.
Alone ==
    \A t \in Threads : \A i \in DOMAIN todo[t] :
        todo[t][i].op \in OpenOps => Tail(todo[t]) = <<>>

Fresh ==
    \A o \in Streams :
        /\ id[o] = 0 => /\ ~rclosed[o] /\ ~wclosed[o] /\ life[o] # "open"
                        /\ o \in Remotes => life[o] = "new"
        /\ o \in Locals /\ life[o] = "new" => id[o] = 0

\* The ids of this endpoint's streams have its parity and are below nextSynId;
\* the others have the other parity and are at most lastRecvId.
Unique ==
    /\ nextSynId % 2 = (IF IsServer THEN 0 ELSE 1) /\ nextSynId # 0
    /\ \A o \in Locals : id[o] # 0 =>
          id[o] < nextSynId /\ id[o] % 2 = (IF IsServer THEN 0 ELSE 1)
    /\ \A o \in Remotes : id[o] # 0 =>
          id[o] <= lastRecvId /\ id[o] % 2 # (IF IsServer THEN 0 ELSE 1)

\* A stream that is in the table, or in the teardown's copy, has an id.
Listed == \A o \in tbl \cup victims : id[o] # 0

IInv ==
    /\ TypeOK /\ Orderly /\ AllNamed /\ Alone /\ Fresh /\ Unique /\ Listed
    /\ NoLeak /\ OnlyClosedLeave


\* The operation a goroutine is at is one of its operations.
LEMMA CurNamed ==
    ASSUME TypeOK, AllNamed, NEW t \in Threads, todo[t] # <<>>
    PROVE  /\ Named(t, Cur(t))
           /\ Alone /\ Cur(t).op \in OpenOps => Tail(todo[t]) = <<>>
<1>1. todo[t] \in Seq(Ops)
    BY DEF TypeOK
<1>2. 1 \in DOMAIN todo[t] /\ Cur(t) = todo[t][1]
    BY <1>1 DEF Cur
<1> QED
    BY <1>2 DEF AllNamed, Alone

\* A goroutine moves on to more work: the others keep theirs, and everything
\* stays tidy.
LEMMA WorkLeft ==
    ASSUME TypeOK, Orderly, NEW t \in Threads, NEW more \in Seq(Ops), Tidy(more),
           \/ todo[t] # <<>> /\ Continue(t, more)
           \/ Begin(t, more)
    PROVE  /\ Orderly'
           /\ \A u \in Threads : u # t => todo'[u] = todo[u]
           /\ \A j \in DOMAIN todo'[t] :
                 \/ \E i \in DOMAIN more : todo'[t][j] = more[i]
                 \/ /\ todo[t] # <<>>
                    /\ \E i \in DOMAIN Tail(todo[t]) : todo'[t][j] = Tail(todo[t])[i]
<1>0. todo \in [Threads -> Seq(Ops)] /\ todo[t] \in Seq(Ops)
    BY DEF TypeOK
<1>1. CASE todo[t] # <<>> /\ Continue(t, more)
  <2>1. Tail(todo[t]) \in Seq(Ops)
    BY <1>0, <1>1
  <2>2. \A u \in Threads : todo'[u] = IF u = t THEN more \o Tail(todo[t]) ELSE todo[u]
    BY <1>0, <1>1 DEF Continue
  <2>3. Tidy(todo[t])
    BY DEF Orderly
  <2>4. Tidy(Tail(todo[t]))
    BY <1>0, <1>1, <2>3, FollowsTail DEF Tidy
  <2>5. Tidy(more \o Tail(todo[t]))
    BY <2>1, <2>4, FollowsConcat DEF Tidy
  <2>6. Orderly'
    <3>1. \A u \in Threads : Tidy(todo'[u])
      BY <2>2, <2>5 DEF Orderly
    <3> QED
      BY <3>1 DEF Orderly, Tidy, Follows
  <2>7. \A j \in DOMAIN todo'[t] :
           \/ \E i \in DOMAIN more : todo'[t][j] = more[i]
           \/ \E i \in DOMAIN Tail(todo[t]) : todo'[t][j] = Tail(todo[t])[i]
    <3> DEFINE rest == Tail(todo[t])
    <3>1. rest \in Seq(Ops) /\ todo'[t] = more \o rest
      BY <2>1, <2>2
    <3> HIDE DEF rest
    <3>2. \A j \in DOMAIN (more \o rest) :
              \/ j \in DOMAIN more /\ (more \o rest)[j] = more[j]
              \/ j - Len(more) \in DOMAIN rest /\ (more \o rest)[j] = rest[j - Len(more)]
      BY <3>1, InConcat
    <3>3. \A j \in DOMAIN todo'[t] :
             \/ \E i \in DOMAIN more : todo'[t][j] = more[i]
             \/ \E i \in DOMAIN rest : todo'[t][j] = rest[i]
      BY <3>1, <3>2, Zenon
    <3> QED
      BY <3>3 DEF rest
  <2> QED
    BY <1>1, <2>2, <2>6, <2>7
<1>2. CASE Begin(t, more)
  <2>1. \A u \in Threads : todo'[u] = IF u = t THEN more ELSE todo[u]
    BY <1>0, <1>2 DEF Begin
  <2>2. \A u \in Threads : Tidy(todo'[u])
    BY <2>1 DEF Orderly
  <2>3. Orderly'
    BY <2>2 DEF Orderly, Tidy, Follows
  <2> QED
    BY <2>1, <2>3
<1> QED
    BY <1>1, <1>2

\* An operation that somebody has to do stays to be done until it is done.
LEMMA DueKept ==
    ASSUME TypeOK, NEW t \in Threads, NEW more \in Seq(Ops), NEW op, NEW o,
           \/ todo[t] # <<>> /\ Continue(t, more) /\ ~(Cur(t).op = op /\ Cur(t).o = o)
           \/ Begin(t, more),
           SomeoneDue(op, o)
    PROVE  SomeoneDue(op, o)'
<1>0. todo \in [Threads -> Seq(Ops)] /\ todo[t] \in Seq(Ops)
    BY DEF TypeOK
<1>1. PICK u \in Threads : \E i \in DOMAIN todo[u] : todo[u][i].op = op /\ todo[u][i].o = o
    BY DEF SomeoneDue, Due
<1>2. PICK i \in DOMAIN todo[u] : todo[u][i].op = op /\ todo[u][i].o = o
    BY <1>1
<1>3. \E j \in DOMAIN todo'[u] : todo'[u][j].op = op /\ todo'[u][j].o = o
  <2>1. CASE u # t
    <3>1. todo'[u] = todo[u]
      BY <1>0, <2>1 DEF Continue, Begin
    <3> QED
      BY <1>2, <3>1
  <2>2. CASE u = t /\ Begin(t, more)
    BY <1>0, <1>2, <2>2 DEF Begin
  <2>3. CASE u = t /\ todo[t] # <<>> /\ Continue(t, more) /\ ~(Cur(t).op = op /\ Cur(t).o = o)
    <3>1. Tail(todo[t]) \in Seq(Ops) /\ todo'[t] = more \o Tail(todo[t])
      BY <1>0, <2>3 DEF Continue
    <3>2. i - 1 \in DOMAIN Tail(todo[t]) /\ Tail(todo[t])[i - 1] = todo[t][i]
      BY <1>0, <1>2, <2>3, InTail DEF Cur
    <3>3. Len(more) + (i - 1) \in DOMAIN todo'[t]
          /\ todo'[t][Len(more) + (i - 1)] = Tail(todo[t])[i - 1]
      <4> DEFINE rest == Tail(todo[t])
      <4>1. rest \in Seq(Ops) /\ todo'[t] = more \o rest /\ i - 1 \in DOMAIN rest
        BY <3>1, <3>2
      <4> HIDE DEF rest
      <4>2. Len(more) + (i - 1) \in DOMAIN (more \o rest)
            /\ (more \o rest)[Len(more) + (i - 1)] = rest[i - 1]
        BY <4>1, InConcat
      <4> QED
        BY <4>1, <4>2, Zenon DEF rest
    <3> QED
      BY <1>2, <2>3, <3>2, <3>3
  <2> QED
    BY <2>1, <2>2, <2>3
<1> QED
    BY <1>3 DEF SomeoneDue, Due

\* What a step keeps of a stream, for the goroutines that have work on it.
Kept(p) ==
    /\ id[p] # 0 => id'[p] # 0
    /\ id[p] = 0 /\ life[p] \in {"opening", "failed"} => id'[p] = 0 /\ life'[p] = life[p]

\* The work that is left is named if the new work is, and if the step keeps
\* every stream but one it is opening.
LEMMA NamesLeft ==
    ASSUME TypeOK, Orderly, AllNamed, Alone,
           NEW t \in Threads, NEW more \in Seq(Ops), Tidy(more),
           \/ todo[t] # <<>> /\ Continue(t, more)
           \/ Begin(t, more),
           \A p \in Streams :
              Kept(p) \/ (todo[t] # <<>> /\ p = Cur(t).o /\ Cur(t).op \in OpenOps),
           \A i \in DOMAIN more :
              /\ Named(t, more[i])'
              /\ more[i].op \in OpenOps => Tail(todo'[t]) = <<>>
    PROVE  Orderly' /\ AllNamed' /\ Alone'
<1>1. /\ Orderly'
      /\ \A u \in Threads : u # t => todo'[u] = todo[u]
      /\ \A j \in DOMAIN todo'[t] :
            \/ \E i \in DOMAIN more : todo'[t][j] = more[i]
            \/ /\ todo[t] # <<>>
               /\ \E i \in DOMAIN Tail(todo[t]) : todo'[t][j] = Tail(todo[t])[i]
    BY WorkLeft
<1>2. \A u \in Threads : todo[u] \in Seq(Ops)
    BY DEF TypeOK
<1>3. ASSUME NEW u \in Threads, NEW x, \E i \in DOMAIN todo[u] : todo[u][i] = x,
             u = t => todo[t] # <<>> /\ \E i \in DOMAIN Tail(todo[t]) : Tail(todo[t])[i] = x
      PROVE  Named(u, x)'
  <2>1. Named(u, x) /\ x.o \in Streams
    <3>1. x \in Ops
      BY <1>2, <1>3
    <3> QED
      BY <1>3, <3>1 DEF AllNamed, Ops
  <2>2. ~(todo[t] # <<>> /\ x.o = Cur(t).o /\ Cur(t).op \in OpenOps)
    <3> SUFFICES ASSUME todo[t] # <<>>, x.o = Cur(t).o, Cur(t).op \in OpenOps
                 PROVE  FALSE
      OBVIOUS
    <3>1. Named(t, Cur(t)) /\ Tail(todo[t]) = <<>>
      BY CurNamed
    <3>2. u # t
      BY <1>3, <3>1
    <3>3. id[x.o] = 0 /\ life[x.o] = "opening" /\ t = Writer(x.o)
      BY <3>1 DEF Named
    <3> QED
      BY <2>1, <3>2, <3>3 DEF Named
  <2>3. Kept(x.o)
    BY <2>1, <2>2
  <2> QED
    BY <2>1, <2>3 DEF Named, Kept
<1>4. ASSUME NEW j \in DOMAIN todo'[t], todo[t] # <<>>,
             \E i \in DOMAIN Tail(todo[t]) : todo'[t][j] = Tail(todo[t])[i]
      PROVE  /\ \E i \in DOMAIN todo[t] : todo[t][i] = todo'[t][j]
             /\ todo'[t][j].op \notin OpenOps
  <2>1. PICK i \in DOMAIN Tail(todo[t]) : todo'[t][j] = Tail(todo[t])[i]
    BY <1>4
  <2>2. i + 1 \in DOMAIN todo[t] /\ todo[t][i + 1] = todo'[t][j]
    BY <1>2, <1>4, <2>1, InTail
  <2>3. Tail(todo[t]) # <<>>
    BY <1>2, <1>4, <2>1
  <2> QED
    BY <2>2, <2>3 DEF Alone
<1>5. ASSUME NEW u \in Threads, NEW j \in DOMAIN todo'[u]
      PROVE  Named(u, todo[u][j])'
  <2>1. CASE u # t
    <3>1. todo'[u] = todo[u]
      BY <1>1, <2>1
    <3> QED
      BY <1>3, <1>5, <2>1, <3>1 DEF Named
  <2>2. CASE u = t /\ \E i \in DOMAIN more : todo'[t][j] = more[i]
    BY <2>2 DEF Named
  <2>3. CASE u = t /\ todo[t] # <<>> /\ \E i \in DOMAIN Tail(todo[t]) : todo'[t][j] = Tail(todo[t])[i]
    BY <1>3, <1>4, <1>5, <2>3 DEF Named
  <2> QED
    BY <1>1, <1>5, <2>1, <2>2, <2>3
<1>6. ASSUME NEW u \in Threads, NEW j \in DOMAIN todo'[u], todo'[u][j].op \in OpenOps
      PROVE  Tail(todo'[u]) = <<>>
  <2>1. CASE u # t
    BY <1>1, <1>6, <2>1 DEF Alone
  <2>2. CASE u = t
    BY <1>1, <1>4, <1>6, <2>2
  <2> QED
    BY <2>1, <2>2
<1> QED
    BY <1>1, <1>5, <1>6 DEF AllNamed, Alone

--------------------------------------------------------------------------------
\* The steps of a goroutine keep the inductive invariant.

\* What the operations other than add do to the flags and the table.
LEMMA StepEffect ==
    ASSUME NEW t \in Threads, Step(t), ~OpenAdd(t)
    PROVE  /\ UNCHANGED <<id, nextSynId, lastRecvId, victims>>
           /\ \/ UNCHANGED <<rclosed, wclosed, tbl>>
              \/ SetRClosed(t) /\ UNCHANGED <<life, wclosed, tbl>>
              \/ SetWClosed(t) /\ UNCHANGED <<life, rclosed, tbl>>
              \/ maybeRemove(t) /\ UNCHANGED <<life, rclosed, wclosed>>
           /\ \/ UNCHANGED life
              \/ OpenWriteSyn(t) /\ life' = [life EXCEPT ![Cur(t).o] = "failed"]
              \/ OpenUnlock(t)
                 /\ life' = [life EXCEPT ![Cur(t).o] = IF @ = "opening" THEN "open" ELSE @]
              \/ StartHandler(t) /\ life' = [life EXCEPT ![Cur(t).o] = "open"]
           /\ \/ maybeRemove(t)
              \/ todo[t] # <<>> /\ Cur(t).op # "remove"
<1> USE DEF sessVars, flagVars, flowVars, histVars
<1>1. CASE SetRClosed(t)
    BY <1>1, Zenon DEF SetRClosed, At, Cur
<1>2. CASE SetWClosed(t)
    BY <1>2, Zenon DEF SetWClosed, At, Cur
<1>3. CASE maybeRemove(t)
  <2>1. UNCHANGED <<id, nextSynId, lastRecvId, victims, life, rclosed, wclosed>>
    BY <1>3 DEF maybeRemove
  <2>2. id' = id /\ nextSynId' = nextSynId /\ lastRecvId' = lastRecvId /\ victims' = victims
        /\ life' = life /\ rclosed' = rclosed /\ wclosed' = wclosed
    BY <2>1
  <2> QED
    BY <1>3, <2>2, Zenon
<1>4. CASE OpenWriteSyn(t)
    BY <1>4, Zenon DEF OpenWriteSyn, At, Cur
<1>5. CASE OpenUnlock(t)
    BY <1>5, Zenon DEF OpenUnlock, At, Cur
<1>6. CASE StartHandler(t)
    BY <1>6, Zenon DEF StartHandler, At, Cur
<1>7. CASE ClosePipe(t) \/ CloseWnd(t) \/ OpenLock(t) \/ OpenMakeReply(t)
    BY <1>7, Zenon DEF ClosePipe, CloseWnd, OpenLock, OpenMakeReply, At, Cur
<1>8. CASE HeaderReceive(t) \/ HeaderForget(t) \/ ReplyWrite(t) \/ WriteCheck(t)
    BY <1>8, Zenon DEF HeaderReceive, HeaderForget, ReplyWrite, WriteCheck, At, Cur
<1>9. CASE WriteDec(t) \/ WriteFrameData(t) \/ CloseWriteFin(t) \/ WriteRst(t)
    BY <1>9, Zenon DEF WriteDec, WriteFrameData, CloseWriteFin, WriteRst, At, Cur
<1>10. CASE ReadPipe(t) \/ updateWindow(t) \/ OfferReply(t) \/ WindowInc(t)
    BY <1>10, Zenon DEF ReadPipe, updateWindow, OfferReply, WindowInc, At, Cur
<1>11. CASE DataCheck(t) \/ DataWrite(t) \/ TeardownReply(t)
    BY <1>11, Zenon DEF DataCheck, DataWrite, TeardownReply, At, Cur
<1> QED
    BY <1>1, <1>2, <1>3, <1>4, <1>5, <1>6, <1>7, <1>8, <1>9, <1>10, <1>11
       DEF Step, Closings, Opening, StreamSteps, ReadSteps

\* A stream keeps what the waiting goroutines know of it.
LEMMA StepKeeps ==
    ASSUME IInv, NEW t \in Threads, Step(t), ~OpenAdd(t), NEW p \in Streams
    PROVE  Kept(p)
<1>1. id' = id
    BY StepEffect
<1>2. CASE UNCHANGED life
    BY <1>1, <1>2 DEF Kept
<1>3. life \in [Streams -> {"new", "opening", "open", "failed"}]
    BY DEF IInv, TypeOK
<1>4. ASSUME todo[t] # <<>>
      PROVE  Named(t, Cur(t)) /\ Cur(t).o \in Streams
    BY <1>4, CurNamed, CurType DEF IInv
<1>5. CASE OpenWriteSyn(t) /\ life' = [life EXCEPT ![Cur(t).o] = "failed"]
  <2>1. todo[t] # <<>> /\ Cur(t).op = "syn"
    BY <1>5 DEF OpenWriteSyn, At, Cur
  <2>2. id[Cur(t).o] # 0
    BY <1>4, <2>1 DEF Named, OpenOps
  <2> QED
    BY <1>1, <1>3, <1>5, <2>2 DEF Kept
<1>6. CASE OpenUnlock(t)
           /\ life' = [life EXCEPT ![Cur(t).o] = IF @ = "opening" THEN "open" ELSE @]
  <2>1. todo[t] # <<>> /\ Cur(t).op = "unlock"
    BY <1>6 DEF OpenUnlock, At, Cur
  <2>2. id[Cur(t).o] # 0 \/ life[Cur(t).o] = "failed"
    BY <1>4, <2>1 DEF Named, OpenOps
  <2> QED
    BY <1>1, <1>3, <1>4, <1>6, <2>1, <2>2 DEF Kept
<1>7. CASE StartHandler(t) /\ life' = [life EXCEPT ![Cur(t).o] = "open"]
  <2>1. todo[t] # <<>> /\ Cur(t).op = "handle"
    BY <1>7 DEF StartHandler, At, Cur
  <2>2. id[Cur(t).o] # 0
    BY <1>4, <2>1 DEF Named, OpenOps
  <2> QED
    BY <1>1, <1>3, <1>7, <2>2 DEF Kept
<1> QED
    BY <1>2, <1>5, <1>6, <1>7, StepEffect

\* The goroutines' work stays tidy and named.
LEMMA StepNames ==
    ASSUME IInv, NEW t \in Threads, Step(t)
    PROVE  Orderly' /\ AllNamed' /\ Alone'
<1>0. TypeOK /\ Orderly /\ AllNamed /\ Alone
    BY DEF IInv
<1>1. CASE OpenLock(t)
  <2> DEFINE o == Cur(t).o
  <2>1. todo[t] # <<>> /\ Cur(t).op = "lock" /\ UNCHANGED <<id, life>>
    BY <1>1 DEF OpenLock, At, Cur, flagVars
  <2>2. o \in Streams /\ Cur(t).arg \in Flags /\ Named(t, Cur(t)) /\ Tail(todo[t]) = <<>>
    BY <1>0, <2>1, CurType, CurNamed DEF CloseOps, OpenOps
  <2>3. PICK more : more = << Do("add", o, Cur(t).arg, 0) >>
    OBVIOUS
  <2>4. more \in Seq(Ops)
    BY <2>2, <2>3, SessionAssumption DEF Do, Ops, OpenOps
  <2>5. /\ Len(more) = 1 /\ more[1].op = "add" /\ more[1].o = o /\ DOMAIN more = {1}
        /\ Tidy(more)
    <3>1. /\ Len(more) = 1 /\ more[1].op = "add" /\ more[1].o = o /\ DOMAIN more = {1}
      BY <2>3 DEF Do
    <3> QED
      BY <3>1 DEF Tidy, Follows
  <2>6. Continue(t, more)
    BY <1>1, <2>3 DEF OpenLock
  <2>7. Tail(todo'[t]) = <<>>
    <3>1. todo'[t] = more \o <<>>
      BY <1>0, <2>2, <2>6 DEF Continue, TypeOK
    <3>2. todo'[t] = << Do("add", o, Cur(t).arg, 0) >>
      BY <2>3, <2>4, <3>1
    <3> QED
      BY <3>2
  <2>8. Named(t, more[1])'
    BY <2>1, <2>2, <2>5 DEF Named, OpenOps
  <2>9. \A p \in Streams : Kept(p)
    BY <2>1 DEF Kept
  <2> QED
    BY <1>0, <2>1, <2>4, <2>5, <2>6, <2>7, <2>8, <2>9, NamesLeft
<1>2. CASE OpenAdd(t)
  <2>0. todo[t] # <<>> /\ Cur(t).op = "add" /\ Cur(t).op \in OpenOps /\ ~OpenLock(t)
    BY <1>2 DEF OpenAdd, OpenLock, At, Cur, OpenOps
  <2>1. PICK o : o = Cur(t).o
    OBVIOUS
  <2>2. o \in Streams /\ Named(t, Cur(t)) /\ Tail(todo[t]) = <<>>
    BY <1>0, <2>0, <2>1, CurType, CurNamed
  <2>3. ASSUME NEW p \in Streams, p # o PROVE Kept(p)
    BY <1>0, <1>2, <2>1, <2>2, <2>3 DEF OpenAdd, Kept, TypeOK
  <2>4. CASE closing
    <3>1. /\ Continue(t, << Do("unlock", o, "-", 0) >>) /\ life' = [life EXCEPT ![o] = "failed"]
      BY <1>2, <2>1, <2>4 DEF OpenAdd
    <3>2. PICK more : more = << Do("unlock", o, "-", 0) >>
      OBVIOUS
    <3>3. Tame(more, o) /\ more \in Seq(Ops) /\ Tidy(more)
      <4>1. 0 \in 0..(2 * MaxInt + 1) /\ "-" \in Flags /\ "unlock" \in FlagOps
        BY SessionAssumption DEF Flags, FlagOps
      <4>2. Tame(<< Do("unlock", o, "-", 0) >>, o)
        BY <2>2, <4>1, SingleTame
      <4> QED
        BY <3>2, <4>2 DEF Tame
    <3>4. life'[o] = "failed"
      BY <1>0, <2>2, <3>1 DEF TypeOK
    <3>5. DOMAIN more = {1} /\ more[1].op = "unlock" /\ more[1].o = o
      BY <3>2 DEF Do
    <3>6. Named(t, more[1])' /\ more[1].op \notin OpenOps
      BY <3>4, <3>5 DEF Named, OpenOps
    <3> QED
      BY <1>0, <2>0, <2>1, <2>3, <3>1, <3>2, <3>3, <3>5, <3>6, NamesLeft
  <2>5. CASE ~closing
    <3>1. PICK more : Tame(more, o) /\ Continue(t, more)
      BY <1>0, <2>0, <2>1, StepWork
    <3>2. id' = [id EXCEPT ![o] = nextSynId]
      BY <1>2, <2>1, <2>5 DEF OpenAdd
    <3>3. id'[o] # 0
      <4>1. id \in [Streams -> Nat] /\ nextSynId # 0
        BY <1>0 DEF TypeOK, IInv, Unique
      <4> QED
        BY <2>2, <3>2, <4>1
    <3>4. \A i \in DOMAIN more : Named(t, more[i])' /\ more[i].op \notin OpenOps
      BY <3>1, <3>3 DEF Named, Tame
    <3> QED
      BY <1>0, <2>0, <2>1, <2>3, <3>1, <3>4, NamesLeft DEF Tame
  <2> QED
    BY <2>4, <2>5
<1>3. CASE OpenUnlock(t)
  <2>1. todo[t] # <<>> /\ Continue(t, <<>>) /\ ~OpenAdd(t)
    BY <1>3 DEF OpenUnlock, OpenAdd, At
  <2>2. <<>> \in Seq(Ops) /\ Tidy(<<>>) /\ DOMAIN <<>> = {}
    BY EmptyTame DEF Tame
  <2>3. \A p \in Streams : Kept(p)
    BY <2>1, StepKeeps
  <2> QED
    BY <1>0, <2>1, <2>2, <2>3, NamesLeft
<1>4. CASE ~OpenLock(t) /\ ~OpenAdd(t) /\ ~OpenUnlock(t)
  <2>1. PICK o : o = Cur(t).o
    OBVIOUS
  <2>2. todo[t] # <<>> /\ \E more : Tame(more, o) /\ Continue(t, more)
    BY <1>0, <1>4, <2>1, StepWork
  <2>3. PICK more : Tame(more, o) /\ Continue(t, more)
    BY <2>2
  <2>4. Named(t, Cur(t)) /\ o \in Streams
    BY <1>0, <2>1, <2>2, CurNamed, CurType
  <2>5. Cur(t).op \notin OpenOps \cup {"unlock"}
    <3>1. ASSUME NEW op, At(t, op) PROVE Cur(t).op = op
      BY <3>1 DEF At, Cur
    <3> QED
      BY <1>4, <3>1 DEF OpenOps, Step, Closings, Opening, StreamSteps, ReadSteps, SetRClosed, SetWClosed,
           ClosePipe, CloseWnd, maybeRemove, OpenMakeReply, OpenWriteSyn,
           HeaderReceive, HeaderForget, ReplyWrite, WriteCheck, WriteDec,
           WriteFrameData, CloseWriteFin, WriteRst, ReadPipe, updateWindow,
           StartHandler, OfferReply, WindowInc, DataCheck, DataWrite, TeardownReply
  <2>6. id[o] # 0
    BY <2>1, <2>4, <2>5 DEF Named
  <2>7. \A p \in Streams : Kept(p)
    BY <1>4, StepKeeps
  <2>8. \A i \in DOMAIN more : Named(t, more[i])' /\ more[i].op \notin OpenOps
    <3>1. id'[o] # 0
      BY <2>4, <2>6, <2>7 DEF Kept
    <3>2. \A i \in DOMAIN more : more[i].o = o /\ more[i].op \notin OpenOps
      BY <2>3 DEF Tame
    <3> QED
      BY <3>1, <3>2 DEF Named
  <2> QED
    BY <1>0, <2>2, <2>3, <2>7, <2>8, NamesLeft DEF Tame
<1> QED
    BY <1>1, <1>2, <1>3, <1>4

\* A SYN_STREAM is accepted only under an id of the other parity above the last.
LEMMA Accepted ==
    ASSUME NEW i \in WireIds, ~Refused(i)
    PROVE  i \in Nat /\ i # 0 /\ i % 2 # (IF IsServer THEN 0 ELSE 1) /\ ~(i <= lastRecvId)
<1> DEFINE par == IF IsServer THEN 0 ELSE 1
<1>1. i \in Nat /\ i # 0
    BY SessionAssumption
<1>2. ~(IsServer = (i % 2 = 0)) /\ ~(i <= lastRecvId)
    BY DEF Refused
<1>3. IsServer = TRUE \/ IsServer = FALSE
    BY SessionAssumption
<1> HIDE DEF par
<1>4. CASE IsServer = TRUE
  <2>1. ~(i % 2 = 0)
    BY <1>2, <1>4, Zenon
  <2> QED
    BY <1>1, <1>2, <1>4, <2>1, Zenon DEF par
<1>5. CASE IsServer = FALSE
  <2>1. i % 2 = 0
    BY <1>2, <1>5, Zenon
  <2>2. par = 1
    BY <1>5, Zenon DEF par
  <2>3. i % 2 # par
    BY <2>1, <2>2
  <2> QED
    BY <1>1, <1>2, <2>3 DEF par
<1> QED
    BY <1>3, <1>4, <1>5

\* No stream has the next id of this endpoint, nor an id that a SYN_STREAM is
\* accepted with.
LEMMA NobodyHas ==
    ASSUME TypeOK, Unique
    PROVE  /\ \A p \in Streams : id[p] # nextSynId
           /\ \A i \in WireIds : ~Refused(i) => \A p \in Remotes \cup Locals : id[p] # i
<1> DEFINE par == IF IsServer THEN 0 ELSE 1
<1>1. /\ nextSynId # 0 /\ nextSynId \in Nat /\ nextSynId % 2 = par
      /\ \A p \in Streams : id[p] \in Nat
      /\ \A p \in Locals : id[p] # 0 => id[p] < nextSynId /\ id[p] % 2 = par
      /\ \A p \in Remotes : id[p] # 0 => id[p] <= lastRecvId /\ id[p] % 2 # par
    BY DEF TypeOK, Unique
<1>2. ASSUME NEW i \in WireIds, ~Refused(i) PROVE i # 0 /\ i % 2 # par /\ ~(i <= lastRecvId)
    BY <1>2, Accepted
<1> HIDE DEF par
<1>3. ASSUME NEW p \in Streams PROVE id[p] # nextSynId
    BY <1>1 DEF Streams
<1>4. ASSUME NEW i \in WireIds, ~Refused(i), NEW p \in Remotes \cup Locals PROVE id[p] # i
  <2>1. i # 0 /\ i % 2 # par /\ ~(i <= lastRecvId)
    BY <1>2, <1>4
  <2>2. CASE p \in Locals
    BY <1>1, <2>1, <2>2, Zenon
  <2>3. CASE p \in Remotes
    BY <1>1, <2>1, <2>3, Zenon
  <2> QED
    BY <2>2, <2>3
<1> QED
    BY <1>3, <1>4

\* add fails, or gives the stream an id that nobody has and puts it in the table.
LEMMA AddEffect ==
    ASSUME IInv, NEW t \in Threads, OpenAdd(t)
    PROVE  /\ Cur(t).o \in Locals /\ id[Cur(t).o] = 0 /\ life[Cur(t).o] = "opening"
           /\ todo[t] # <<>> /\ Cur(t).op = "add"
           /\ UNCHANGED <<rclosed, wclosed, lastRecvId, victims>>
           /\ \/ /\ UNCHANGED <<tbl, nextSynId, id>>
                 /\ life' = [life EXCEPT ![Cur(t).o] = "failed"]
              \/ /\ id' = [id EXCEPT ![Cur(t).o] = nextSynId]
                 /\ nextSynId' = nextSynId + 2
                 /\ tbl' = tbl \cup {Cur(t).o}
                 /\ UNCHANGED life
<1>1. todo[t] # <<>> /\ Cur(t).op = "add"
    BY DEF OpenAdd, At, Cur
<1>2. Cur(t).o \in Locals /\ id[Cur(t).o] = 0 /\ life[Cur(t).o] = "opening"
    BY <1>1, CurNamed DEF IInv, Named, OpenOps
<1>3. UNCHANGED <<rclosed, wclosed, lastRecvId, victims>>
    BY DEF OpenAdd
<1>4. CASE closing
    BY <1>1, <1>2, <1>3, <1>4 DEF OpenAdd
<1>5. CASE ~closing
  <2>1. /\ id' = [id EXCEPT ![Cur(t).o] = nextSynId]
        /\ nextSynId' = nextSynId + 2
        /\ tbl' = Added(Cur(t).o, nextSynId)
        /\ UNCHANGED life
    BY <1>5 DEF OpenAdd
  <2>2. tbl \subseteq Streams /\ \A p \in Streams : id[p] # nextSynId
    BY NobodyHas DEF IInv, TypeOK
  <2>3. tbl' = tbl \cup {Cur(t).o}
    BY <2>1, <2>2 DEF Added
  <2> QED
    BY <1>1, <1>2, <1>3, <2>1, <2>3
<1> QED
    BY <1>4, <1>5

\* The types the flags have, for the steps below.
LEMMA FlagTypes ==
    ASSUME TypeOK
    PROVE  /\ id \in [Streams -> Nat] /\ nextSynId \in Nat /\ lastRecvId \in Nat
           /\ life \in [Streams -> {"new", "opening", "open", "failed"}]
           /\ rclosed \in [Streams -> BOOLEAN] /\ wclosed \in [Streams -> BOOLEAN]
           /\ tbl \subseteq Streams
    BY DEF TypeOK

\* A stream without an id stays fresh.
LEMMA StepFresh ==
    ASSUME IInv, NEW t \in Threads, Step(t)
    PROVE  Fresh'
<1>0. TypeOK /\ AllNamed /\ Fresh
    BY DEF IInv
<1> USE FlagTypes
<1>a. Locals \cap Remotes = {}
    BY SessionAssumption
<1>b. ASSUME todo[t] # <<>> PROVE Named(t, Cur(t)) /\ Cur(t).o \in Streams
    BY <1>b, <1>0, CurNamed, CurType
<1>1. CASE OpenAdd(t)
  <2>1. CASE /\ UNCHANGED <<tbl, nextSynId, id>>
             /\ life' = [life EXCEPT ![Cur(t).o] = "failed"]
    BY <1>0, <1>1, <1>a, <2>1, AddEffect DEF Fresh
  <2>2. CASE /\ id' = [id EXCEPT ![Cur(t).o] = nextSynId]
             /\ UNCHANGED life
    <3>1. nextSynId # 0
      BY DEF IInv, Unique
    <3> QED
      BY <1>0, <1>1, <1>a, <2>2, <3>1, AddEffect DEF Fresh
  <2> QED
    BY <1>1, <2>1, <2>2, AddEffect
<1>2. CASE ~OpenAdd(t)
  <2>1. id' = id
    BY <1>2, StepEffect
  <2>2. ASSUME NEW o \in Streams, id[o] = 0
        PROVE  rclosed'[o] = rclosed[o] /\ wclosed'[o] = wclosed[o]
    <3>1. CASE UNCHANGED <<rclosed, wclosed>>
      BY <3>1
    <3>2. CASE SetRClosed(t) /\ UNCHANGED wclosed
      <4>1. todo[t] # <<>> /\ Cur(t).op = "rflag" /\ rclosed' = [rclosed EXCEPT ![Cur(t).o] = TRUE]
        BY <3>2 DEF SetRClosed, At, Cur
      <4>2. id[Cur(t).o] # 0
        BY <1>b, <4>1 DEF Named, OpenOps
      <4> QED
        BY <1>0, <2>2, <3>2, <4>1, <4>2
    <3>3. CASE SetWClosed(t) /\ UNCHANGED rclosed
      <4>1. todo[t] # <<>> /\ Cur(t).op = "wflag" /\ wclosed' = [wclosed EXCEPT ![Cur(t).o] = TRUE]
        BY <3>3 DEF SetWClosed, At, Cur
      <4>2. id[Cur(t).o] # 0
        BY <1>b, <4>1 DEF Named, OpenOps
      <4> QED
        BY <1>0, <2>2, <3>3, <4>1, <4>2
    <3> QED
      BY <1>2, <3>1, <3>2, <3>3, StepEffect
  <2>3. ASSUME NEW o \in Streams
        PROVE  /\ id[o] = 0 => life'[o] = life[o]
               /\ life'[o] = "new" => life[o] = "new"
    <3>1. CASE UNCHANGED life
      BY <3>1
    <3>2. CASE OpenWriteSyn(t) /\ life' = [life EXCEPT ![Cur(t).o] = "failed"]
      <4>1. todo[t] # <<>> /\ Cur(t).op = "syn"
        BY <3>2 DEF OpenWriteSyn, At, Cur
      <4>2. id[Cur(t).o] # 0
        BY <1>b, <4>1 DEF Named, OpenOps
      <4> QED
        BY <1>0, <3>2, <4>2
    <3>3. CASE OpenUnlock(t)
               /\ life' = [life EXCEPT ![Cur(t).o] = IF @ = "opening" THEN "open" ELSE @]
      <4>1. todo[t] # <<>> /\ Cur(t).op = "unlock"
        BY <3>3 DEF OpenUnlock, At, Cur
      <4>2. id[Cur(t).o] # 0 \/ life[Cur(t).o] = "failed"
        BY <1>b, <4>1 DEF Named, OpenOps
      <4> QED
        BY <1>0, <3>3, <4>2
    <3>4. CASE StartHandler(t) /\ life' = [life EXCEPT ![Cur(t).o] = "open"]
      <4>1. todo[t] # <<>> /\ Cur(t).op = "handle"
        BY <3>4 DEF StartHandler, At, Cur
      <4>2. id[Cur(t).o] # 0
        BY <1>b, <4>1 DEF Named, OpenOps
      <4> QED
        BY <1>0, <3>4, <4>2
    <3> QED
      BY <1>2, <3>1, <3>2, <3>3, <3>4, StepEffect
  <2> QED
    BY <1>0, <2>1, <2>2, <2>3 DEF Fresh
<1> QED
    BY <1>1, <1>2

\* Ids stay unique.
LEMMA StepUnique ==
    ASSUME IInv, NEW t \in Threads, Step(t)
    PROVE  Unique'
<1>0. TypeOK /\ Unique
    BY DEF IInv
<1>1. CASE ~OpenAdd(t)
  <2>1. id' = id /\ nextSynId' = nextSynId /\ lastRecvId' = lastRecvId
    BY <1>1, StepEffect
  <2> QED
    BY <1>0, <2>1 DEF Unique
<1>2. CASE OpenAdd(t)
  <2> DEFINE o == Cur(t).o
             par == IF IsServer THEN 0 ELSE 1
  <2>1. /\ nextSynId # 0 /\ nextSynId \in Nat /\ nextSynId % 2 = par
        /\ \A p \in Streams : id[p] \in Nat
        /\ \A p \in Locals : id[p] # 0 => id[p] < nextSynId /\ id[p] % 2 = par
        /\ \A p \in Remotes : id[p] # 0 => id[p] <= lastRecvId /\ id[p] % 2 # par
    BY <1>0 DEF TypeOK, Unique
  <2>2. o \in Locals /\ o \in Streams /\ o \notin Remotes /\ lastRecvId' = lastRecvId
    BY <1>2, AddEffect, SessionAssumption DEF Streams
  <2>3. CASE UNCHANGED <<nextSynId, id>>
    BY <1>0, <2>2, <2>3 DEF Unique
  <2>4. CASE id' = [id EXCEPT ![o] = nextSynId] /\ nextSynId' = nextSynId + 2
    <3>1. (nextSynId + 2) % 2 = nextSynId % 2 /\ nextSynId + 2 # 0
      BY <2>1
    <3>2. \A p \in Streams : id'[p] = IF p = o THEN nextSynId ELSE id[p]
      BY <1>0, <2>2, <2>4 DEF TypeOK
    <3> HIDE DEF par, o
    <3>3. nextSynId' % 2 = par /\ nextSynId' # 0
      BY <2>1, <2>4, <3>1
    <3>4. ASSUME NEW p \in Locals, id'[p] # 0
          PROVE  id'[p] < nextSynId' /\ id'[p] % 2 = par
      <4>1. p \in Streams
        BY DEF Streams
      <4>2. CASE p = o
        BY <2>1, <2>4, <3>2, <4>1, <4>2
      <4>3. CASE p # o
        <5>1. id'[p] = id[p] /\ id[p] \in Nat /\ id[p] < nextSynId /\ id[p] % 2 = par
          BY <2>1, <3>2, <3>4, <4>1, <4>3
        <5> QED
          BY <2>1, <2>4, <5>1
      <4> QED
        BY <4>2, <4>3
    <3>5. ASSUME NEW p \in Remotes, id'[p] # 0
          PROVE  id'[p] <= lastRecvId' /\ id'[p] % 2 # par
      <4>1. id'[p] = id[p]
        BY <2>2, <3>2 DEF Streams
      <4> QED
        BY <2>1, <2>2, <3>5, <4>1
    <3> QED
      BY <3>3, <3>4, <3>5 DEF Unique, par
  <2> QED
    BY <1>2, <2>3, <2>4, AddEffect
<1> QED
    BY <1>1, <1>2

\* Streams in the table or in the teardown's copy keep their ids.
LEMMA StepListed ==
    ASSUME IInv, NEW t \in Threads, Step(t)
    PROVE  Listed'
<1>0. TypeOK /\ Listed /\ tbl \subseteq Streams /\ victims \subseteq Streams
      /\ id \in [Streams -> Nat] /\ nextSynId # 0
    BY DEF IInv, TypeOK, Unique
<1>1. CASE OpenAdd(t)
    BY <1>0, <1>1, AddEffect DEF Listed, Streams
<1>2. CASE ~OpenAdd(t)
  <2>1. id' = id /\ victims' = victims
    BY <1>2, StepEffect
  <2>2. tbl' \subseteq tbl
    <3>1. CASE maybeRemove(t)
      BY <3>1 DEF maybeRemove
    <3> QED
      BY <1>2, <3>1, StepEffect
  <2> QED
    BY <1>0, <2>1, <2>2 DEF Listed
<1> QED
    BY <1>1, <1>2

\* Work that closes a stream is still to be done after a step that did not do it.
LEMMA StepDue ==
    ASSUME TypeOK, NEW t \in Threads, Step(t), NEW op, NEW o, SomeoneDue(op, o),
           todo[t] # <<>> => ~(Cur(t).op = op /\ Cur(t).o = o)
    PROVE  SomeoneDue(op, o)'
<1>1. CASE OpenLock(t)
  <2>1. todo[t] # <<>> /\ Cur(t).op = "lock"
    BY <1>1 DEF OpenLock, At, Cur
  <2>2. PICK more : more = << Do("add", Cur(t).o, Cur(t).arg, 0) >>
    OBVIOUS
  <2>3. more \in Seq(Ops)
    BY <2>1, <2>2, CurType, SessionAssumption DEF Do, Ops, OpenOps, CloseOps
  <2> QED
    BY <1>1, <2>1, <2>2, <2>3, DueKept DEF OpenLock
<1>2. CASE ~OpenLock(t)
  <2>1. todo[t] # <<>> /\ \E more : more \in Seq(Ops) /\ Continue(t, more)
    BY <1>2, StepWork DEF Tame
  <2> QED
    BY <2>1, DueKept
<1> QED
    BY <1>1, <1>2

\* After the flag is set the same goroutine has yet to remove.
LEMMA RemoveFollows ==
    ASSUME TypeOK, Orderly, NEW t \in Threads, todo[t] # <<>>, Continue(t, <<>>),
           Cur(t).op \in {"rflag", "wflag"}, NEW o, o = Cur(t).o
    PROVE  SomeoneDue("remove", o)'
<1>1. todo[t] \in Seq(Ops) /\ todo \in [Threads -> Seq(Ops)]
    BY DEF TypeOK
<1>2. Follows(todo[t], "rflag", "remove") /\ Follows(todo[t], "wflag", "remove")
    BY DEF Orderly, Tidy
<1>3. PICK j \in DOMAIN Tail(todo[t]) : Tail(todo[t])[j].op = "remove" /\ Tail(todo[t])[j].o = o
    BY <1>1, <1>2, FollowsTail DEF Cur
<1>4. todo'[t] = Tail(todo[t])
    BY <1>1 DEF Continue
<1> QED
    BY <1>3, <1>4 DEF SomeoneDue, Due

\* A stream closed both ways leaves the table, or is about to.
LEMMA StepNoLeak ==
    ASSUME IInv, NEW t \in Threads, Step(t)
    PROVE  NoLeak'
<1>0. TypeOK /\ Orderly /\ NoLeak /\ Fresh /\ tbl \subseteq Streams
    BY DEF IInv, TypeOK
<1> SUFFICES ASSUME NEW o \in tbl', rclosed'[o] /\ wclosed'[o]
             PROVE  SomeoneDue("remove", o)'
    BY DEF NoLeak
<1> USE FlagTypes
<1>1. CASE OpenAdd(t)
  <2>1. todo[t] # <<>> /\ Cur(t).op = "add" /\ UNCHANGED <<rclosed, wclosed>>
        /\ tbl' \subseteq tbl \cup {Cur(t).o} /\ id[Cur(t).o] = 0 /\ Cur(t).o \in Streams
    BY <1>1, AddEffect DEF Streams
  <2>2. ~rclosed[Cur(t).o]
    BY <1>0, <2>1 DEF Fresh
  <2>3. o \in tbl
    BY <2>1, <2>2
  <2> QED
    BY <1>0, <2>1, <2>3, StepDue DEF NoLeak
<1>2. CASE SetRClosed(t)
  <2>1. todo[t] # <<>> /\ Cur(t).op = "rflag" /\ Continue(t, <<>>) /\ o \in tbl
        /\ rclosed' = [rclosed EXCEPT ![Cur(t).o] = TRUE] /\ wclosed' = wclosed
    BY <1>2 DEF SetRClosed, At, Cur, sessVars
  <2>2. CASE o = Cur(t).o
    BY <1>0, <2>1, <2>2, RemoveFollows
  <2>3. CASE o # Cur(t).o
    <3>1. rclosed'[o] = rclosed[o]
      BY <1>0, <2>1, <2>3
    <3> QED
      BY <1>0, <2>1, <3>1, StepDue DEF NoLeak
  <2> QED
    BY <2>2, <2>3
<1>3. CASE SetWClosed(t)
  <2>1. todo[t] # <<>> /\ Cur(t).op = "wflag" /\ Continue(t, <<>>) /\ o \in tbl
        /\ wclosed' = [wclosed EXCEPT ![Cur(t).o] = TRUE] /\ rclosed' = rclosed
    BY <1>3 DEF SetWClosed, At, Cur, sessVars
  <2>2. CASE o = Cur(t).o
    BY <1>0, <2>1, <2>2, RemoveFollows
  <2>3. CASE o # Cur(t).o
    <3>1. wclosed'[o] = wclosed[o]
      BY <1>0, <2>1, <2>3
    <3> QED
      BY <1>0, <2>1, <3>1, StepDue DEF NoLeak
  <2> QED
    BY <2>2, <2>3
<1>4. CASE maybeRemove(t)
  <2>1. todo[t] # <<>> /\ UNCHANGED <<rclosed, wclosed>>
    BY <1>4 DEF maybeRemove, At, flagVars
  <2>2. tbl' = IF rclosed[Cur(t).o] /\ wclosed[Cur(t).o] THEN tbl \ {Cur(t).o} ELSE tbl
    BY <1>4 DEF maybeRemove
  <2>3. o \in tbl /\ o # Cur(t).o
    BY <2>1, <2>2
  <2> QED
    BY <1>0, <2>1, <2>3, StepDue DEF NoLeak
<1>5. CASE /\ ~OpenAdd(t) /\ ~maybeRemove(t) /\ UNCHANGED <<rclosed, wclosed, tbl>>
  <2>1. Cur(t).op # "remove"
    BY <1>5, StepEffect
  <2> QED
    BY <1>0, <1>5, <2>1, StepDue DEF NoLeak
<1> QED
    BY <1>1, <1>2, <1>3, <1>4, <1>5, StepEffect

\* Only streams closed both ways leave the table.
LEMMA StepLeave ==
    ASSUME IInv, NEW t \in Threads, Step(t)
    PROVE  OnlyClosedLeave'
<1>0. TypeOK /\ OnlyClosedLeave
    BY DEF IInv
<1> USE FlagTypes
<1> SUFFICES ASSUME NEW o \in Streams, id'[o] # 0, o \notin tbl'
             PROVE  rclosed'[o] /\ wclosed'[o]
    BY DEF OnlyClosedLeave
<1>1. CASE OpenAdd(t)
  <2>1. id[o] # 0 /\ o \notin tbl /\ UNCHANGED <<rclosed, wclosed>>
    BY <1>0, <1>1, AddEffect DEF Streams
  <2> QED
    BY <1>0, <2>1 DEF OnlyClosedLeave
<1>2. CASE SetRClosed(t) /\ ~OpenAdd(t)
  <2>1. id' = id /\ tbl' = tbl /\ wclosed' = wclosed
        /\ rclosed' = [rclosed EXCEPT ![Cur(t).o] = TRUE]
    BY <1>2, StepEffect DEF SetRClosed, sessVars
  <2>2. rclosed[o] /\ wclosed[o]
    BY <1>0, <2>1 DEF OnlyClosedLeave
  <2> QED
    BY <1>0, <2>1, <2>2
<1>3. CASE SetWClosed(t) /\ ~OpenAdd(t)
  <2>1. id' = id /\ tbl' = tbl /\ rclosed' = rclosed
        /\ wclosed' = [wclosed EXCEPT ![Cur(t).o] = TRUE]
    BY <1>3, StepEffect DEF SetWClosed, sessVars
  <2>2. rclosed[o] /\ wclosed[o]
    BY <1>0, <2>1 DEF OnlyClosedLeave
  <2> QED
    BY <1>0, <2>1, <2>2
<1>4. CASE maybeRemove(t) /\ ~OpenAdd(t)
  <2>1. id' = id /\ UNCHANGED <<rclosed, wclosed>>
        /\ tbl' = IF rclosed[Cur(t).o] /\ wclosed[Cur(t).o] THEN tbl \ {Cur(t).o} ELSE tbl
    BY <1>4 DEF maybeRemove, flagVars
  <2> QED
    BY <1>0, <2>1 DEF OnlyClosedLeave
<1>5. CASE ~OpenAdd(t) /\ UNCHANGED <<rclosed, wclosed, tbl>>
    BY <1>0, <1>5, StepEffect DEF OnlyClosedLeave
<1> QED
    BY <1>1, <1>2, <1>3, <1>4, <1>5, StepEffect

--------------------------------------------------------------------------------
\* Calls, frames and the teardown keep the inductive invariant.

\* A goroutine that begins tame work on a stream with an id, when no stream
\* changes but one that gets its id and enters the table.
LEMMA BeginKeeps ==
    ASSUME IInv, NEW t \in Threads, NEW more \in Seq(Ops), Tidy(more), Begin(t, more),
           \A p \in Streams : Kept(p),
           \A i \in DOMAIN more :
              /\ Named(t, more[i])'
              /\ more[i].op \in OpenOps => Tail(more) = <<>>,
           UNCHANGED <<rclosed, wclosed>>,
           \A p \in tbl' : p \notin tbl => ~rclosed[p]
    PROVE  Orderly' /\ AllNamed' /\ Alone' /\ NoLeak'
<1>0. TypeOK /\ Orderly /\ AllNamed /\ Alone /\ NoLeak
    BY DEF IInv
<1>1. todo'[t] = more
    BY <1>0 DEF Begin, TypeOK
<1>2. Orderly' /\ AllNamed' /\ Alone'
    BY <1>0, <1>1, NamesLeft
<1>3. ASSUME NEW o \in tbl', rclosed'[o] /\ wclosed'[o]
      PROVE  SomeoneDue("remove", o)'
  <2>1. o \in tbl /\ rclosed[o] /\ wclosed[o]
    BY <1>3
  <2>2. SomeoneDue("remove", o)
    BY <1>0, <2>1 DEF NoLeak
  <2> QED
    BY <1>0, <2>2, DueKept
<1>4. NoLeak'
    BY <1>3 DEF NoLeak
<1> QED
    BY <1>2, <1>4

\* A call keeps the inductive invariant.
LEMMA CallInv ==
    ASSUME IInv, NEW o \in Streams, Calls(o)
    PROVE  IInv'
<1>0. TypeOK /\ Fresh /\ Unique /\ Listed /\ OnlyClosedLeave
    BY DEF IInv
<1>1. TypeOK'
    BY <1>0, CallType
<1>2. UNCHANGED <<tbl, nextSynId, lastRecvId, victims, id, rclosed, wclosed>>
    BY Zenon DEF Calls, Open, Reply, Write, Read, Header, Close, Reset, sessVars, flagVars
<1>3. Unique' /\ Listed' /\ OnlyClosedLeave'
    BY <1>0, <1>2 DEF Unique, Listed, OnlyClosedLeave
<1>4. Writer(o) \in Threads /\ Reader(o) \in Threads
    BY ThreadsType
<1>5. ASSUME NEW f \in Flags, Open(o, f)
      PROVE  Orderly' /\ AllNamed' /\ Alone' /\ NoLeak' /\ Fresh'
  <2>1. /\ o \in Locals /\ life[o] = "new" /\ life' = [life EXCEPT ![o] = "opening"]
        /\ Begin(Writer(o), << Do("lock", o, f, 0) >>)
    BY <1>5 DEF Open
  <2>2. life \in [Streams -> {"new", "opening", "open", "failed"}] /\ id[o] = 0
    BY <1>0, <2>1 DEF TypeOK, Fresh
  <2>3. life'[o] = "opening" /\ \A p \in Streams : p # o => life'[p] = life[p]
    BY <2>1, <2>2
  <2>4. PICK more : more = << Do("lock", o, f, 0) >>
    OBVIOUS
  <2>5. /\ more \in Seq(Ops) /\ DOMAIN more = {1} /\ more[1].op = "lock" /\ more[1].o = o
        /\ Tail(more) = <<>>
    BY <2>4, SessionAssumption DEF Do, Ops, OpenOps
  <2>6. Tidy(more)
    BY <2>5 DEF Tidy, Follows
  <2>7. Named(Writer(o), more[1])'
    BY <1>2, <2>1, <2>2, <2>3, <2>5 DEF Named, OpenOps
  <2>8. \A p \in Streams : Kept(p)
    BY <1>2, <2>1, <2>2, <2>3 DEF Kept
  <2>9. Fresh'
    BY <1>0, <1>2, <2>1, <2>2, <2>3, SessionAssumption DEF Fresh
  <2> QED
    BY <1>2, <1>4, <2>1, <2>4, <2>5, <2>6, <2>7, <2>8, <2>9, BeginKeeps
<1>6. ASSUME life[o] = "open", NEW t \in {Writer(o), Reader(o)}, NEW more,
             Tame(more, o), Begin(t, more)
      PROVE  Orderly' /\ AllNamed' /\ Alone' /\ NoLeak' /\ Fresh'
  <2>1. UNCHANGED life
    <3>1. CASE \E f \in Flags : Open(o, f)
      BY <1>6, <3>1 DEF Open
    <3>2. CASE ~\E f \in Flags : Open(o, f)
      BY <3>2, Zenon DEF Calls, Reply, Write, Read, Header, Close, Reset, flagVars
    <3> QED
      BY <3>1, <3>2
  <2>2. id'[o] # 0
    BY <1>0, <1>2, <1>6 DEF Fresh
  <2>3. \A i \in DOMAIN more : Named(t, more[i])' /\ more[i].op \notin OpenOps
    BY <1>6, <2>2 DEF Named, Tame
  <2>4. \A p \in Streams : Kept(p)
    BY <1>2, <2>1 DEF Kept
  <2>5. Fresh'
    BY <1>0, <1>2, <2>1 DEF Fresh
  <2>6. t \in Threads /\ more \in Seq(Ops) /\ Tidy(more)
    BY <1>4, <1>6 DEF Tame
  <2>7. Orderly' /\ AllNamed' /\ Alone' /\ NoLeak'
    BY <1>2, <1>6, <2>3, <2>4, <2>6, BeginKeeps
  <2> QED
    BY <2>5, <2>7
<1>7. Orderly' /\ AllNamed' /\ Alone' /\ NoLeak' /\ Fresh'
    BY <1>0, <1>5, <1>6, CallWork
<1> QED
    BY <1>1, <1>3, <1>7 DEF IInv

\* A frame gives at most one stream of the peer an id that nobody has.
LEMMA FrameEffect ==
    ASSUME TypeOK, Unique, handleRead
    PROVE  /\ UNCHANGED <<life, rclosed, wclosed, nextSynId, victims>>
           /\ \/ UNCHANGED <<id, tbl, lastRecvId>>
              \/ \E o \in Remotes, i \in WireIds :
                    /\ id[o] = 0 /\ ~Refused(i) /\ lastRecvId' = i
                    /\ id' = [id EXCEPT ![o] = i]
                    /\ tbl' = tbl \cup {o}
<1> USE DEF sessVars, flagVars, flowVars, histVars
<1>1. ASSUME NEW i \in WireIds, NEW o \in Remotes, NEW f \in Flags, handleSynStream(o, i, f)
      PROVE  /\ UNCHANGED <<life, rclosed, wclosed, nextSynId, victims>>
             /\ id[o] = 0 /\ ~Refused(i) /\ lastRecvId' = i
             /\ id' = [id EXCEPT ![o] = i]
             /\ tbl' = tbl \cup {o}
  <2>1. /\ UNCHANGED <<life, rclosed, wclosed, nextSynId, victims>>
        /\ id[o] = 0 /\ ~Refused(i) /\ lastRecvId' = i
        /\ id' = [id EXCEPT ![o] = i] /\ tbl' = Added(o, i)
    BY <1>1 DEF handleSynStream
  <2>2. \A p \in tbl : id[p] # i
    BY <2>1, NobodyHas DEF TypeOK, Streams
  <2>3. tbl' = tbl \cup {o}
    BY <2>1, <2>2 DEF Added
  <2> QED
    BY <2>1, <2>3
<1>2. CASE ~\E i \in WireIds, o \in Remotes, f \in Flags : handleSynStream(o, i, f)
  <2>1. UNCHANGED <<life, rclosed, wclosed, nextSynId, victims, id, tbl, lastRecvId>>
    BY <1>2, Zenon DEF handleRead, IgnoreFrame, AnswerPing, handleSettings, RefuseSynStream,
                       handleSynReply, handleWindowUpdate, handleData
  <2> QED
    BY <2>1
<1> QED
    BY <1>1, <1>2

\* A frame keeps the inductive invariant.
LEMMA FrameInv ==
    ASSUME IInv, handleRead
    PROVE  IInv'
<1>0. TypeOK /\ Fresh /\ Unique /\ Listed /\ OnlyClosedLeave
    BY DEF IInv
<1>1. TypeOK'
    BY <1>0, FrameType
<1>2. UNCHANGED <<life, rclosed, wclosed, nextSynId, victims>>
    BY <1>0, FrameEffect
<1>3. ReadLoop \in Threads /\ Locals \cap Remotes = {}
    BY ThreadsType, SessionAssumption
<1>4. /\ \A p \in Streams : Kept(p)
      /\ \A p \in tbl' : p \notin tbl => ~rclosed[p]
      /\ Fresh' /\ Unique' /\ Listed' /\ OnlyClosedLeave'
  <2>1. CASE UNCHANGED <<id, tbl, lastRecvId>>
    BY <1>0, <1>2, <2>1 DEF Kept, Fresh, Unique, Listed, OnlyClosedLeave
  <2>2. ASSUME NEW o \in Remotes, NEW i \in WireIds,
               id[o] = 0, ~Refused(i), lastRecvId' = i,
               id' = [id EXCEPT ![o] = i], tbl' = tbl \cup {o}
        PROVE  /\ \A p \in Streams : Kept(p)
               /\ \A p \in tbl' : p \notin tbl => ~rclosed[p]
               /\ Fresh' /\ Unique' /\ Listed' /\ OnlyClosedLeave'
    <3>1. o \in Streams /\ i # 0 /\ i \in Nat /\ o \notin Locals
      BY <1>3, SessionAssumption DEF Streams
    <3>2. life[o] = "new" /\ ~rclosed[o]
      BY <1>0, <2>2, <3>1 DEF Fresh
    <3>3. \A p \in Streams : id'[p] = IF p = o THEN i ELSE id[p]
      BY <1>0, <2>2, <3>1 DEF TypeOK
    <3>4. \A p \in Streams : Kept(p)
      BY <1>2, <3>1, <3>2, <3>3 DEF Kept
    <3>5. \A p \in tbl' : p \notin tbl => ~rclosed[p]
      BY <2>2, <3>2
    <3>6. Fresh'
      BY <1>0, <1>2, <3>1, <3>3 DEF Fresh
    <3>7. OnlyClosedLeave'
      BY <1>0, <1>2, <2>2, <3>3 DEF OnlyClosedLeave
    <3>8. Unique'
      <4> DEFINE par == IF IsServer THEN 0 ELSE 1
      <4>1. /\ nextSynId # 0 /\ nextSynId % 2 = par
            /\ lastRecvId \in Nat /\ \A p \in Streams : id[p] \in Nat
            /\ \A p \in Locals : id[p] # 0 => id[p] < nextSynId /\ id[p] % 2 = par
            /\ \A p \in Remotes : id[p] # 0 => id[p] <= lastRecvId /\ id[p] % 2 # par
        BY <1>0 DEF TypeOK, Unique
      <4>2. i % 2 # par /\ i > lastRecvId
        BY <2>2, <4>1, Accepted
      <4> HIDE DEF par
      <4>3. ASSUME NEW p \in Locals, id'[p] # 0
            PROVE  id'[p] < nextSynId' /\ id'[p] % 2 = par
        <5>1. p \in Streams /\ id'[p] = id[p]
          BY <3>1, <3>3 DEF Streams
        <5> QED
          BY <1>2, <4>1, <4>3, <5>1
      <4>4. ASSUME NEW p \in Remotes, id'[p] # 0
            PROVE  id'[p] <= lastRecvId' /\ id'[p] % 2 # par
        <5>1. p \in Streams
          BY DEF Streams
        <5>2. CASE p = o
          BY <2>2, <3>1, <3>3, <4>2, <5>1, <5>2
        <5>3. CASE p # o
          <6>1. id'[p] = id[p] /\ id[p] \in Nat /\ id[p] <= lastRecvId /\ id[p] % 2 # par
            BY <3>3, <4>1, <4>4, <5>1, <5>3
          <6> QED
            BY <2>2, <3>1, <4>1, <4>2, <6>1
        <5> QED
          BY <5>2, <5>3
      <4> QED
        BY <1>2, <4>1, <4>3, <4>4 DEF Unique, par
    <3>9. Listed'
      <4>1. tbl \subseteq Streams /\ victims \subseteq Streams
        BY <1>0 DEF TypeOK
      <4> QED
        BY <1>0, <1>2, <2>2, <3>1, <3>3, <4>1 DEF Listed
    <3> QED
      BY <3>4, <3>5, <3>6, <3>7, <3>8, <3>9
  <2> QED
    BY <1>0, <2>1, <2>2, FrameEffect
<1>5. CASE Begin(ReadLoop, <<>>)
  <2>1. <<>> \in Seq(Ops) /\ Tidy(<<>>) /\ DOMAIN <<>> = {}
    BY EmptyTame DEF Tame
  <2> QED
    BY <1>1, <1>2, <1>3, <1>4, <1>5, <2>1, BeginKeeps DEF IInv
<1>6. ASSUME NEW o \in Streams, NEW more, Tame(more, o), Begin(ReadLoop, more), id'[o] # 0
      PROVE  IInv'
  <2>1. \A i \in DOMAIN more : Named(ReadLoop, more[i])' /\ more[i].op \notin OpenOps
    BY <1>6 DEF Named, Tame
  <2>2. more \in Seq(Ops) /\ Tidy(more)
    BY <1>6 DEF Tame
  <2>3. Orderly' /\ AllNamed' /\ Alone' /\ NoLeak'
    BY <1>2, <1>3, <1>4, <1>6, <2>1, <2>2, BeginKeeps
  <2> QED
    BY <1>1, <1>4, <2>3 DEF IInv
<1> QED
    BY <1>0, <1>5, <1>6, FrameWork

\* The end of the read loop and the teardown keep the inductive invariant.
LEMMA TeardownInv ==
    ASSUME IInv, ReadFails \/ Teardown \/ SpawnedWrite
    PROVE  IInv'
<1>0. TypeOK /\ Orderly /\ AllNamed /\ Alone /\ Fresh /\ Unique /\ Listed
      /\ NoLeak /\ OnlyClosedLeave
    BY DEF IInv
<1>1. TypeOK'
    BY <1>0, TeardownType
<1>2. UNCHANGED <<tbl, nextSynId, lastRecvId, id, life, rclosed, wclosed>>
    BY Zenon DEF ReadFails, Teardown, TeardownStream, TeardownEnd, SpawnedWrite,
                 sessVars, flagVars
<1>3. victims' \subseteq tbl \cup victims
    BY DEF ReadFails, Teardown, TeardownStream, TeardownEnd, SpawnedWrite, sessVars
<1>4. Fresh' /\ Unique' /\ Listed' /\ OnlyClosedLeave'
    BY <1>0, <1>2, <1>3 DEF Fresh, Unique, Listed, OnlyClosedLeave
<1>5. CASE UNCHANGED todo
  <2>1. Orderly' /\ AllNamed' /\ Alone' /\ NoLeak'
    BY <1>0, <1>2, <1>5 DEF Orderly, Tidy, Follows, AllNamed, Named, Alone, NoLeak,
                            SomeoneDue, Due
  <2> QED
    BY <1>1, <1>4, <2>1 DEF IInv
<1>6. ASSUME NEW o \in victims, TeardownStream(o)
      PROVE  IInv'
  <2>1. PICK more : Tame(more, o) /\ Begin(ReadLoop, more)
    BY <1>0, <1>6, TeardownWork
  <2>2. id'[o] # 0
    BY <1>0, <1>2 DEF Listed
  <2>3. \A i \in DOMAIN more : Named(ReadLoop, more[i])' /\ more[i].op \notin OpenOps
    BY <2>1, <2>2 DEF Named, Tame
  <2>4. more \in Seq(Ops) /\ Tidy(more) /\ ReadLoop \in Threads
    BY <2>1, ThreadsType DEF Tame
  <2>5. \A p \in Streams : Kept(p)
    BY <1>2 DEF Kept
  <2>6. Orderly' /\ AllNamed' /\ Alone' /\ NoLeak'
    BY <1>2, <2>1, <2>3, <2>4, <2>5, BeginKeeps
  <2> QED
    BY <1>1, <1>4, <2>6 DEF IInv
<1> QED
    BY <1>5, <1>6 DEF ReadFails, Teardown, TeardownEnd, SpawnedWrite

\* The initial state satisfies the inductive invariant.
LEMMA InitInv == Init => IInv
<1> SUFFICES ASSUME Init PROVE IInv
    OBVIOUS
<1>1. TypeOK
    BY InitType
<1>2. \A t \in Threads : todo[t] = <<>> /\ DOMAIN todo[t] = {}
    BY DEF Init
<1>3. Orderly /\ AllNamed /\ Alone
    BY <1>2 DEF Orderly, Tidy, Follows, AllNamed, Alone
<1>4. \A o \in Streams : id[o] = 0 /\ life[o] = "new"
    BY DEF Init
<1>5. \A o \in Streams : ~rclosed[o] /\ ~wclosed[o]
    BY Zenon DEF Init
<1>6. Fresh /\ OnlyClosedLeave
    BY <1>4, <1>5 DEF Fresh, OnlyClosedLeave
<1>7. tbl = {} /\ victims = {}
    BY DEF Init
<1>8. Listed /\ NoLeak
    BY <1>7 DEF Listed, NoLeak
<1>9. nextSynId % 2 = (IF IsServer THEN 0 ELSE 1) /\ nextSynId # 0
    BY SessionAssumption DEF Init
<1>10. Unique
    BY <1>4, <1>9 DEF Unique, Streams
<1> QED
    BY <1>1, <1>3, <1>6, <1>8, <1>10 DEF IInv

\* Every step keeps the inductive invariant.
LEMMA NextInv ==
    ASSUME IInv, [Next]_vars
    PROVE  IInv'
<1>1. CASE UNCHANGED vars
  <2>1. TypeOK'
    BY <1>1, NextType DEF IInv
  <2> USE <1>1 DEF vars, sessVars, flagVars, flowVars, histVars
  <2>2. Orderly' /\ AllNamed' /\ Alone'
    BY DEF IInv, Orderly, Tidy, Follows, AllNamed, Named, Alone
  <2>3. Fresh' /\ Unique' /\ Listed' /\ NoLeak' /\ OnlyClosedLeave'
    BY DEF IInv, Fresh, Unique, Listed, NoLeak, OnlyClosedLeave, SomeoneDue, Due
  <2> QED
    BY <2>1, <2>2, <2>3 DEF IInv
<1>2. ASSUME NEW t \in Threads, Step(t) PROVE IInv'
  <2>1. TypeOK'
    BY <1>2, StepType DEF IInv
  <2> QED
    BY <1>2, <2>1, StepNames, StepFresh, StepUnique, StepListed, StepNoLeak, StepLeave
       DEF IInv
<1> QED
    BY <1>1, <1>2, CallInv, FrameInv, TeardownInv DEF Next

\* The inductive invariant holds throughout.
THEOREM Invariant == Spec => []IInv
<1>1. Init => IInv
    BY InitInv
<1>2. IInv /\ [Next]_vars => IInv'
    BY NextInv
<1> QED
    BY <1>1, <1>2, PTL DEF Spec

\* A stream closed in both directions is out of rstreams, or some goroutine has
\* yet to run its maybeRemove, however the read loop, the writer and the reader
\* interleave the flags that rclose and wclose set without a lock and the
\* removal under mu (session.go:104-112,438-448).
THEOREM NothingLeaks == Spec => []NoLeak
<1>1. IInv => NoLeak
    BY DEF IInv
<1> QED
    BY <1>1, Invariant, PTL

\* Neither a removal nor another stream under the same id takes a stream that is
\* still open out of rstreams: the ids that add hands out and the ids that
\* handleSynStream accepts never meet (session.go:90-112,174-178).
THEOREM NoLiveStreamLeaves == Spec => []OnlyClosedLeave
<1>1. IInv => OnlyClosedLeave
    BY DEF IInv
<1> QED
    BY <1>1, Invariant, PTL
================================================================================
