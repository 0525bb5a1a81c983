------------------------------ MODULE SessionWire ------------------------------
(***************************************************************************)
(* Proofs about what the goroutines of a session write, for any number of  *)
(* streams: openMu makes the assignment of a stream id and the writing of  *)
(* its SYN_STREAM one critical section, the frames of each stream leave in *)
(* order, and the end of the session releases a call of Header.            *)
(***************************************************************************)
EXTENDS SessionTeardown

\* Operations that write, or lead to writing, a frame of a stream's own.
WOps == {"syn", "synreply", "wdata", "dec", "data", "fin"}

\* Operations that Open does while it holds openMu.
HoldOps == {"add", "mkreply", "syn", "unlock"}

\* At most one of a goroutine's operations writes, and the unlock comes last.
Shape(s) ==
    /\ \A i, j \in DOMAIN s : s[i].op \in WOps /\ s[j].op \in WOps => i = j
    /\ \A i \in DOMAIN s : s[i].op = "unlock" => i = Len(s)

\* The operations in a list, and those of a goroutine.
Elems(s) == {s[i] : i \in DOMAIN s}
Work(t) == Elems(todo[t])

\* The writing side of o is closed, or its writer is about to close it.
FinDone(o) == wclosed[o] \/ Due(Writer(o), "wflag", o)

\* Who does an operation, and who holds openMu meanwhile.
Owned(t, x) ==
    /\ x.op \in WOps \cup HoldOps => t = Writer(x.o)
    /\ x.op \in HoldOps => openMu = x.o
    /\ x.op \in {"recv", "unreply"} => t = Reader(x.o)
    /\ x.op = "handle" => x.o \in Remotes
    /\ x.op = "mkreply" => x.o \in Locals /\ life[x.o] # "open"

\* What the operation that writes says of its stream.
Says(x) ==
    /\ x.op = "syn" => /\ out[x.o] = "none" /\ life[x.o] = "opening"
                       /\ id[x.o] > lastSyn
    /\ x.op = "synreply" => out[x.o] = "none" /\ wready[x.o] /\ life[x.o] = "open"
    /\ x.op \in {"wdata", "dec", "data", "fin"} => life[x.o] = "open"
    /\ x.op = "wdata" => (out[x.o] = "fin" => wclosed[x.o])
    /\ x.op \in {"dec", "data", "fin"} => out[x.o] = "syn"
    /\ x.op \in {"syn", "synreply"} /\ Fin(x.arg) => FinDone(x.o)
    /\ x.op = "fin" => FinDone(x.o)

\* What a stream has written, against its flags.
Written(o) ==
    /\ out[o] # "bad"
    /\ id[o] = 0 \/ ~wready[o] => out[o] = "none"
    /\ life[o] = "new" => ~wready[o]
    /\ life[o] = "opening" => wready[o]
    /\ o \in Remotes => life[o] \in {"new", "open"}
    /\ out[o] = "fin" => FinDone(o)
    /\ life[o] = "opening" /\ out[o] = "none" =>
          \E op \in {"lock", "add", "syn"} : Due(Writer(o), op, o)
    /\ life[o] = "open" /\ wready[o] /\ out[o] = "none" => Due(Writer(o), "synreply", o)

Wire ==
    /\ lastSyn < nextSynId
    /\ \A t \in Threads : Shape(todo[t])
    /\ \A t \in Threads : \A x \in Work(t) : Owned(t, x) /\ Says(x)
    /\ \A o \in Streams : Written(o)

\* A call of Header on o is not stranded: the teardown has yet to look at o, or
\* the reply channel is not empty, or the call has its reply.
Answered(o) ==
    \/ o \in victims \/ Due(ReadLoop, "nilreply", o)
    \/ reply[o] # "empty" \/ At(Reader(o), "unreply")

HeaderInv ==
    /\ phase = "done" => todo[ReadLoop] = <<>>
    /\ \A t \in Threads : \A x \in Work(t) : x.op = "recv" =>
          todo[t] = << Do("recv", x.o, "-", 0), Do("unreply", x.o, "-", 0) >>
    /\ \A o \in wasOpen : life[o] = "open" /\ Answered(o)

--------------------------------------------------------------------------------
\* Work lists, again.

\* The operations of a concatenation.
LEMMA ElemsConcat ==
    ASSUME NEW s \in Seq(Ops), NEW u \in Seq(Ops)
    PROVE  Elems(s \o u) = Elems(s) \cup Elems(u)
<1> DEFINE c == s \o u
<1>1. /\ \A i \in DOMAIN s : i \in DOMAIN c /\ c[i] = s[i]
      /\ \A i \in DOMAIN u : Len(s) + i \in DOMAIN c /\ c[Len(s) + i] = u[i]
      /\ \A i \in DOMAIN c :
            \/ i \in DOMAIN s /\ c[i] = s[i]
            \/ i - Len(s) \in DOMAIN u /\ c[i] = u[i - Len(s)]
    BY InConcat
<1> HIDE DEF c
<1>2. ASSUME NEW x \in Elems(c) PROVE x \in Elems(s) \/ x \in Elems(u)
  <2>1. PICK i \in DOMAIN c : x = c[i]
    BY DEF Elems
  <2>2. \/ i \in DOMAIN s /\ x = s[i]
        \/ i - Len(s) \in DOMAIN u /\ x = u[i - Len(s)]
    BY <1>1, <2>1
  <2> QED
    BY <2>2 DEF Elems
<1>3. \A x \in Elems(s) : x \in Elems(c)
    BY <1>1, Zenon DEF Elems
<1>4. ASSUME NEW x \in Elems(u) PROVE x \in Elems(c)
  <2>1. PICK i \in DOMAIN u : x = u[i]
    BY DEF Elems
  <2>2. Len(s) + i \in DOMAIN c /\ c[Len(s) + i] = x
    BY <1>1, <2>1
  <2> QED
    BY <2>2 DEF Elems
<1>5. Elems(c) = Elems(s) \cup Elems(u)
    BY <1>2, <1>3, <1>4
<1> QED
    BY <1>5 DEF c

\* The first operation, and the others.
LEMMA ElemsTail ==
    ASSUME NEW s \in Seq(Ops), s # <<>>
    PROVE  Elems(s) = {Head(s)} \cup Elems(Tail(s))
<1> DEFINE u == Tail(s)
<1>1. /\ DOMAIN s = 1..Len(s) /\ Len(s) \in Nat /\ Len(s) >= 1
      /\ DOMAIN u = 1..(Len(s) - 1) /\ Head(s) = s[1]
      /\ \A i \in 1..(Len(s) - 1) : u[i] = s[i + 1]
    OBVIOUS
<1> HIDE DEF u
<1>2. ASSUME NEW x \in Elems(s) PROVE x = Head(s) \/ x \in Elems(u)
  <2>1. PICK i \in 1..Len(s) : x = s[i]
    BY <1>1 DEF Elems
  <2>2. CASE i = 1
    BY <1>1, <2>1, <2>2
  <2>3. CASE i # 1
    <3>1. i - 1 \in DOMAIN u /\ u[i - 1] = x
      BY <1>1, <2>1, <2>3
    <3> QED
      BY <3>1 DEF Elems
  <2> QED
    BY <2>2, <2>3
<1>3. ASSUME NEW x \in Elems(u) PROVE x \in Elems(s)
  <2>1. PICK i \in 1..(Len(s) - 1) : x = u[i]
    BY <1>1 DEF Elems
  <2>2. i + 1 \in DOMAIN s /\ s[i + 1] = x
    BY <1>1, <2>1
  <2> QED
    BY <2>2 DEF Elems
<1>4. Head(s) \in Elems(s)
    BY <1>1 DEF Elems
<1> QED
    BY <1>2, <1>3, <1>4 DEF u

\* The shape of what is left of a list.
LEMMA ShapeTail ==
    ASSUME NEW s \in Seq(Ops), s # <<>>, Shape(s)
    PROVE  /\ Shape(Tail(s))
           /\ Head(s).op \in WOps => \A x \in Elems(Tail(s)) : x.op \notin WOps
           /\ Head(s).op = "unlock" => Elems(Tail(s)) = {}
<1> DEFINE u == Tail(s)
<1>1. /\ DOMAIN s = 1..Len(s) /\ Len(s) \in Nat /\ Len(s) >= 1
      /\ DOMAIN u = 1..(Len(s) - 1) /\ Head(s) = s[1] /\ Len(u) = Len(s) - 1
      /\ \A i \in 1..(Len(s) - 1) : u[i] = s[i + 1]
    OBVIOUS
<1> HIDE DEF u
<1>2. \A i \in DOMAIN u : i + 1 \in DOMAIN s /\ u[i] = s[i + 1] /\ i \in Nat
    BY <1>1
<1>3. Shape(u)
  <2>1. ASSUME NEW i \in DOMAIN u, NEW j \in DOMAIN u, u[i].op \in WOps, u[j].op \in WOps
        PROVE  i = j
    <3>1. i + 1 = j + 1
      BY <1>2, <2>1 DEF Shape
    <3> QED
      BY <1>2, <3>1
  <2>2. ASSUME NEW i \in DOMAIN u, u[i].op = "unlock" PROVE i = Len(u)
    <3>1. i + 1 = Len(s)
      BY <1>2, <2>2 DEF Shape
    <3> QED
      BY <1>1, <1>2, <3>1
  <2> QED
    BY <2>1, <2>2 DEF Shape
<1>4. ASSUME Head(s).op \in WOps, NEW x \in Elems(u) PROVE x.op \notin WOps
  <2>1. PICK i \in DOMAIN u : x = u[i]
    BY DEF Elems
  <2>2. 1 \in DOMAIN s /\ i + 1 \in DOMAIN s /\ s[i + 1] = x /\ i + 1 # 1
    BY <1>1, <2>1
  <2> QED
    BY <1>1, <1>4, <2>2 DEF Shape
<1>5. ASSUME Head(s).op = "unlock" PROVE Elems(u) = {}
  <2>1. Len(s) = 1
    BY <1>1, <1>5 DEF Shape
  <2> QED
    BY <1>1, <2>1 DEF Elems
<1> QED
    BY <1>3, <1>4, <1>5 DEF u

\* The shape of a concatenation.
LEMMA ShapeConcat ==
    ASSUME NEW s \in Seq(Ops), NEW u \in Seq(Ops), Shape(s), Shape(u),
           \/ \A x \in Elems(s) : x.op \notin WOps
           \/ \A x \in Elems(u) : x.op \notin WOps,
           \/ \A x \in Elems(s) : x.op # "unlock"
           \/ Elems(u) = {}
    PROVE  Shape(s \o u)
<1> DEFINE c == s \o u
<1>1. /\ DOMAIN s = 1..Len(s) /\ DOMAIN u = 1..Len(u) /\ DOMAIN c = 1..(Len(s) + Len(u))
      /\ Len(s) \in Nat /\ Len(u) \in Nat /\ Len(c) = Len(s) + Len(u)
    OBVIOUS
<1>2. \A i \in DOMAIN c :
         \/ i \in DOMAIN s /\ c[i] = s[i]
         \/ i - Len(s) \in DOMAIN u /\ c[i] = u[i - Len(s)]
    BY InConcat
<1> HIDE DEF c
<1>3. \A i \in DOMAIN s : s[i] \in Elems(s)
    BY DEF Elems
<1>4. \A i \in DOMAIN u : u[i] \in Elems(u)
    BY DEF Elems
<1>5. ASSUME NEW i \in DOMAIN c, NEW j \in DOMAIN c, c[i].op \in WOps, c[j].op \in WOps
      PROVE  i = j
  <2>1. CASE \A x \in Elems(s) : x.op \notin WOps
    <3>1. i - Len(s) \in DOMAIN u /\ j - Len(s) \in DOMAIN u
          /\ c[i] = u[i - Len(s)] /\ c[j] = u[j - Len(s)]
      BY <1>2, <1>3, <1>5, <2>1
    <3>2. i - Len(s) = j - Len(s)
      BY <1>5, <3>1 DEF Shape
    <3> QED
      BY <1>1, <3>2
  <2>2. CASE \A x \in Elems(u) : x.op \notin WOps
    <3>1. i \in DOMAIN s /\ j \in DOMAIN s /\ c[i] = s[i] /\ c[j] = s[j]
      BY <1>2, <1>4, <1>5, <2>2
    <3> QED
      BY <1>5, <3>1 DEF Shape
  <2> QED
    BY <2>1, <2>2
<1>6. ASSUME NEW i \in DOMAIN c, c[i].op = "unlock" PROVE i = Len(c)
  <2>1. CASE i - Len(s) \in DOMAIN u /\ c[i] = u[i - Len(s)]
    <3>1. i - Len(s) = Len(u)
      BY <1>6, <2>1 DEF Shape
    <3> QED
      BY <1>1, <3>1
  <2>2. CASE i \in DOMAIN s /\ c[i] = s[i]
    <3>1. i = Len(s) /\ Elems(u) = {}
      BY <1>3, <1>6, <2>2 DEF Shape
    <3>2. Len(u) = 0
      <4>1. 1 \notin DOMAIN u
        BY <1>4, <3>1
      <4> QED
        BY <1>1, <4>1
    <3> QED
      BY <1>1, <3>1, <3>2
  <2> QED
    BY <1>2, <2>1, <2>2
<1>7. Shape(c)
    BY <1>5, <1>6 DEF Shape
<1> QED
    BY <1>7 DEF c

\* What a goroutine has to do apart from the operation it is at.
Rest(t) == IF todo[t] = <<>> THEN {} ELSE Elems(Tail(todo[t]))

\* A goroutine moves on: what it then has to do, and what the others have.
LEMMA Moves ==
    ASSUME TypeOK, NEW t \in Threads, NEW more \in Seq(Ops),
           \/ todo[t] # <<>> /\ Continue(t, more)
           \/ Begin(t, more)
    PROVE  /\ \A u \in Threads : u # t => todo'[u] = todo[u] /\ Work(u)' = Work(u)
           /\ Work(t)' = Elems(more) \cup Rest(t)
           /\ Rest(t) \subseteq Work(t)
           /\ \A x \in Work(t) : x \in Rest(t) \/ (todo[t] # <<>> /\ x = Cur(t))
<1>0. todo \in [Threads -> Seq(Ops)] /\ todo[t] \in Seq(Ops)
    BY DEF TypeOK
<1>1. \A u \in Threads : u # t => todo'[u] = todo[u] /\ Work(u)' = Work(u)
    BY <1>0 DEF Continue, Begin, Work
<1>2. CASE todo[t] # <<>> /\ Continue(t, more)
  <2>1. Tail(todo[t]) \in Seq(Ops) /\ todo'[t] = more \o Tail(todo[t])
    BY <1>0, <1>2 DEF Continue
  <2>2. Elems(todo'[t]) = Elems(more) \cup Elems(Tail(todo[t]))
    BY <2>1, ElemsConcat
  <2>3. Elems(todo[t]) = {Head(todo[t])} \cup Elems(Tail(todo[t]))
    BY <1>0, <1>2, ElemsTail
  <2> QED
    BY <1>1, <1>2, <2>2, <2>3 DEF Work, Rest, Cur
<1>3. CASE Begin(t, more)
  <2>1. todo'[t] = more /\ todo[t] = <<>>
    BY <1>0, <1>3 DEF Begin
  <2>2. Elems(todo[t]) = {}
    BY <2>1 DEF Elems
  <2> QED
    BY <1>1, <2>1, <2>2 DEF Work, Rest
<1> QED
    BY <1>2, <1>3

\* What a goroutine has to do stays to be done until it is done.
LEMMA DueLeft ==
    ASSUME TypeOK, NEW t \in Threads, NEW more \in Seq(Ops),
           \/ todo[t] # <<>> /\ Continue(t, more)
           \/ Begin(t, more),
           NEW u \in Threads, NEW op, NEW o, Due(u, op, o),
           ~(u = t /\ todo[t] # <<>> /\ Cur(t).op = op /\ Cur(t).o = o)
    PROVE  Due(u, op, o)'
<1>1. PICK x \in Work(u) : x.op = op /\ x.o = o
    BY DEF Due, Work, Elems
<1>2. x \in Work(u)'
    BY <1>1, Moves
<1> QED
    BY <1>1, <1>2 DEF Due, Work, Elems

\* The shape of the goroutines' lists is kept.
LEMMA ShapeLeft ==
    ASSUME TypeOK, \A u \in Threads : Shape(todo[u]),
           NEW t \in Threads, NEW more \in Seq(Ops), Shape(more),
           \/ todo[t] # <<>> /\ Continue(t, more)
           \/ Begin(t, more),
           \/ \A x \in Elems(more) : x.op \notin WOps
           \/ todo[t] # <<>> /\ Cur(t).op \in WOps
           \/ Rest(t) = {},
           \/ \A x \in Elems(more) : x.op # "unlock"
           \/ Rest(t) = {}
    PROVE  \A u \in Threads : Shape(todo'[u])
<1>0. todo \in [Threads -> Seq(Ops)] /\ todo[t] \in Seq(Ops)
    BY DEF TypeOK
<1>1. \A u \in Threads : u # t => todo'[u] = todo[u]
    BY Moves
<1>2. CASE todo[t] # <<>> /\ Continue(t, more)
  <2>1. Tail(todo[t]) \in Seq(Ops) /\ todo'[t] = more \o Tail(todo[t])
    BY <1>0, <1>2 DEF Continue
  <2>2. /\ Shape(Tail(todo[t]))
        /\ Cur(t).op \in WOps => \A x \in Elems(Tail(todo[t])) : x.op \notin WOps
    BY <1>0, <1>2, ShapeTail DEF Cur
  <2>3. Rest(t) = Elems(Tail(todo[t]))
    BY <1>2 DEF Rest
  <2>4. PICK r \in Seq(Ops) : r = Tail(todo[t])
    BY <2>1
  <2>5. /\ Shape(r)
        /\ \/ \A x \in Elems(more) : x.op \notin WOps
           \/ \A x \in Elems(r) : x.op \notin WOps
        /\ \/ \A x \in Elems(more) : x.op # "unlock"
           \/ Elems(r) = {}
    BY <2>2, <2>3, <2>4
  <2>6. Shape(more \o r)
    BY <2>5, ShapeConcat
  <2> QED
    BY <1>1, <2>1, <2>4, <2>6
<1>3. CASE Begin(t, more)
    BY <1>0, <1>1, <1>3 DEF Begin
<1> QED
    BY <1>2, <1>3

--------------------------------------------------------------------------------
\* What a step leaves alone.

\* Goroutine t moves on to more work.
Goes(t, more) ==
    /\ t \in Threads /\ more \in Seq(Ops)
    /\ \/ todo[t] # <<>> /\ Continue(t, more)
       \/ Begin(t, more)

\* x is work of goroutine u that a step of goroutine t does not do.
Stays(t, u, x) == u \in Threads /\ x \in Work(u) /\ (u # t \/ x \in Rest(t))

\* The step changes neither what p has written nor its flags.
Same(p) ==
    /\ out'[p] = out[p] /\ id'[p] = id[p] /\ life'[p] = life[p]
    /\ wready'[p] = wready[p] /\ (wclosed[p] => wclosed'[p])

\* The operations of a stream are operations.
LEMMA WorkType ==
    ASSUME TypeOK, NEW t \in Threads, NEW x \in Work(t)
    PROVE  /\ x \in Ops /\ x.o \in Streams /\ Writer(x.o) \in Threads
           /\ Reader(x.o) \in Threads /\ x.o # None
<1>1. todo[t] \in Seq(Ops)
    BY DEF TypeOK
<1>2. PICK i \in DOMAIN todo[t] : x = todo[t][i]
    BY DEF Work, Elems
<1>3. x \in Ops
    BY <1>1, <1>2
<1>4. x.o \in Streams
    BY <1>3 DEF Ops
<1> QED
    BY <1>3, <1>4, ThreadsType, SessionAssumption DEF Streams

\* The closing of the writing side of p, once done or due, stays so.
LEMMA FinKept ==
    ASSUME TypeOK, NEW t, NEW more, Goes(t, more), NEW p \in Streams,
           wclosed[p] => wclosed'[p],
           todo[t] # <<>> /\ Cur(t).op = "wflag" /\ Cur(t).o = p => wclosed'[p],
           FinDone(p)
    PROVE  FinDone(p)'
<1>1. Writer(p) \in Threads
    BY ThreadsType
<1>2. CASE wclosed[p]
    BY <1>2 DEF FinDone
<1>3. CASE Due(Writer(p), "wflag", p)
  <2>1. CASE Writer(p) = t /\ todo[t] # <<>> /\ Cur(t).op = "wflag" /\ Cur(t).o = p
    BY <2>1 DEF FinDone
  <2>2. CASE ~(Writer(p) = t /\ todo[t] # <<>> /\ Cur(t).op = "wflag" /\ Cur(t).o = p)
    <3>1. Due(Writer(p), "wflag", p)'
      BY <1>1, <1>3, <2>2, DueLeft DEF Goes
    <3> QED
      BY <3>1 DEF FinDone
  <2> QED
    BY <2>1, <2>2
<1> QED
    BY <1>2, <1>3 DEF FinDone

\* What is true of a stream that a step does not touch stays true.
LEMMA WrittenKept ==
    ASSUME TypeOK, NEW t, NEW more, Goes(t, more), NEW p \in Streams, Same(p),
           todo[t] # <<>> /\ Cur(t).o = p =>
              /\ Cur(t).op \notin {"lock", "add", "syn", "synreply"}
              /\ Cur(t).op = "wflag" => wclosed'[p],
           Written(p)
    PROVE  Written(p)'
<1>1. Writer(p) \in Threads
    BY ThreadsType
<1>2. FinDone(p) => FinDone(p)'
    BY FinKept DEF Same
<1>3. \A op \in {"lock", "add", "syn", "synreply"} :
         Due(Writer(p), op, p) => Due(Writer(p), op, p)'
    BY <1>1, DueLeft DEF Goes
<1>4. (\E op \in {"lock", "add", "syn"} : Due(Writer(p), op, p))
      => (\E op \in {"lock", "add", "syn"} : Due(Writer(p), op, p)')
    BY <1>3
<1>5. Due(Writer(p), "synreply", p) => Due(Writer(p), "synreply", p)'
    BY <1>3
<1> QED
    BY <1>2, <1>4, <1>5 DEF Written, Same

\* So does what an operation on it says.
LEMMA SaysKept ==
    ASSUME TypeOK, NEW t, NEW more, Goes(t, more), NEW x, x.o \in Streams, Same(x.o),
           todo[t] # <<>> /\ Cur(t).o = x.o /\ Cur(t).op = "wflag" => wclosed'[x.o],
           x.op = "syn" => lastSyn' = lastSyn,
           Says(x)
    PROVE  Says(x)'
<1>1. FinDone(x.o) => FinDone(x.o)'
    BY FinKept DEF Same
<1> QED
    BY <1>1 DEF Says, Same

\* A step that touches at most stream o keeps the invariant if it keeps what
\* the invariant says of o and of the work on o.
LEMMA OneStream ==
    ASSUME TypeOK, Wire, NEW t, NEW more, Goes(t, more), NEW o,
           todo[t] # <<>> => Cur(t).o = o,
           \A p \in Streams : p # o => Same(p),
           lastSyn' < nextSynId',
           Shape(more),
           \/ \A x \in Elems(more) : x.op \notin WOps
           \/ todo[t] # <<>> /\ Cur(t).op \in WOps
           \/ Rest(t) = {},
           \/ \A x \in Elems(more) : x.op # "unlock"
           \/ Rest(t) = {},
           \A x \in Elems(more) : Owned(t, x)' /\ Says(x)',
           \A u, x : Stays(t, u, x) =>
              /\ x.op \in HoldOps => openMu' = openMu
              /\ x.op = "syn" => lastSyn' = lastSyn
              /\ x.o = o => Owned(u, x)' /\ Says(x)',
           o \in Streams => Written(o)'
    PROVE  Wire'
<1>1. \A u \in Threads : Shape(todo'[u])
  <2>1. \A u \in Threads : Shape(todo[u])
    BY DEF Wire
  <2> QED
    BY <2>1, ShapeLeft DEF Goes
<1>2. ASSUME NEW p \in Streams PROVE Written(p)'
  <2>1. CASE p # o
    <3>1. Written(p) /\ Same(p)
      BY <2>1 DEF Wire
    <3> QED
      BY <2>1, <3>1, WrittenKept
  <2> QED
    BY <2>1
<1>3. ASSUME NEW u, NEW x, Stays(t, u, x) PROVE Owned(u, x)' /\ Says(x)'
  <2>1. u \in Threads /\ x \in Work(u) /\ Owned(u, x) /\ Says(x)
    BY <1>3 DEF Stays, Wire
  <2>2. x.o \in Streams
    BY <2>1, WorkType
  <2>3. CASE x.o # o
    <3>1. Same(x.o) /\ (x.op = "syn" => lastSyn' = lastSyn)
      BY <1>3, <2>2, <2>3
    <3>2. Says(x)'
      BY <2>1, <2>2, <2>3, <3>1, SaysKept
    <3>3. x.op \in HoldOps => openMu' = openMu
      BY <1>3
    <3>4. Owned(u, x)'
      BY <2>1, <3>1, <3>3 DEF Owned, Same
    <3> QED
      BY <3>2, <3>4
  <2>4. CASE x.o = o
    BY <1>3, <2>4
  <2> QED
    BY <2>3, <2>4
<1>4. ASSUME NEW u \in Threads, NEW x, x \in Work(u)' PROVE Owned(u, x)' /\ Says(x)'
  <2>1. CASE u = t
    <3>1. Work(t)' = Elems(more) \cup Rest(t) /\ Rest(t) \subseteq Work(t)
      BY Moves DEF Goes
    <3>2. x \in Elems(more) \/ Stays(t, u, x)
      BY <1>4, <2>1, <3>1 DEF Stays
    <3> QED
      BY <1>3, <2>1, <3>2
  <2>2. CASE u # t
    <3>1. Work(u)' = Work(u)
      BY <2>2, Moves DEF Goes
    <3>2. Stays(t, u, x)
      BY <1>4, <2>2, <3>1 DEF Stays
    <3> QED
      BY <1>3, <3>2
  <2> QED
    BY <2>1, <2>2
<1>5. \A u \in Threads : \A x \in Work(u)' : Owned(u, x)' /\ Says(x)'
    BY <1>4
<1> QED
    BY <1>1, <1>2, <1>5 DEF Wire

--------------------------------------------------------------------------------
\* Steps that write nothing and open nothing.

QuietOps == CloseOps \cup {"rst", "pread", "wupdate", "offer", "inc", "rcheck",
                           "pwrite", "nilreply"}

Quiet(s) == s \in Seq(Ops) /\ \A x \in Elems(s) : x.op \in QuietOps

\* None of them is an operation that the invariant speaks of.
LEMMA QuietSays ==
    ASSUME NEW s, Quiet(s)
    PROVE  /\ Shape(s)
           /\ \A x \in Elems(s) : /\ x.op \notin WOps /\ x.op # "unlock"
                                  /\ x.op # "recv" /\ x.op # "unreply"
           /\ \A x \in Elems(s) : \A t : Owned(t, x)' /\ Says(x)'
<1>1. QuietOps \cap (WOps \cup HoldOps \cup {"recv", "unreply", "handle"}) = {}
    BY DEF QuietOps, CloseOps, WOps, HoldOps
<1>2. \A x \in Elems(s) : x.op \notin WOps \cup HoldOps \cup {"recv", "unreply", "handle"}
    BY <1>1 DEF Quiet
<1>3. \A i \in DOMAIN s : s[i] \in Elems(s)
    BY DEF Elems
<1>4. Shape(s)
    BY <1>2, <1>3 DEF Shape, HoldOps
<1>5. \A x \in Elems(s) : \A t : Owned(t, x)'
    BY <1>2 DEF Owned, HoldOps
<1>6. \A x \in Elems(s) : Says(x)'
    BY <1>2 DEF Says, WOps
<1> QED
    BY <1>2, <1>4, <1>5, <1>6 DEF HoldOps

\* A list of no operation, and of one.
LEMMA QuietSingle ==
    /\ Quiet(<<>>)
    /\ \A x \in Ops : x.op \in QuietOps => Quiet(<< x >>)
<1>1. Elems(<<>>) = {} /\ <<>> \in Seq(Ops)
    BY DEF Elems
<1>2. ASSUME NEW x \in Ops PROVE Elems(<< x >>) = {x} /\ << x >> \in Seq(Ops)
    BY DEF Elems
<1> QED
    BY <1>1, <1>2 DEF Quiet

\* Concatenations and optional parts.
LEMMA QuietConcat ==
    ASSUME NEW s, NEW u, Quiet(s), Quiet(u), NEW b
    PROVE  Quiet(s \o u) /\ Quiet(When(b, s))
<1>1. s \in Seq(Ops) /\ u \in Seq(Ops) /\ s \o u \in Seq(Ops)
    BY DEF Quiet
<1>2. Elems(s \o u) = Elems(s) \cup Elems(u)
    BY <1>1, ElemsConcat
<1> QED
    BY <1>1, <1>2, QuietSingle DEF Quiet, When

\* Stream.rclose, Stream.wclose and Stream.Reset; wclose sets the flag.
LEMMA QuietClose ==
    ASSUME NEW o \in Streams, NEW e \in Errors
    PROVE  /\ Quiet(RClose(o, e)) /\ Quiet(WClose(o, e)) /\ Quiet(Resetting(o))
           /\ Quiet(<< Do("rst", o, "-", 0) >>) /\ Quiet(<< Do("nclose", o, e, 0) >>)
           /\ Do("wflag", o, e, 0) \in Elems(WClose(o, e))
<1>1. \A op \in CloseOps : \A d \in Errors : Do(op, o, d, 0) \in Ops /\ Do(op, o, d, 0).op = op
    BY DEF Do, Ops
<1>2. Do("rst", o, "-", 0) \in Ops /\ Do("rst", o, "-", 0).op = "rst"
    BY SessionAssumption DEF Do, Ops, FlagOps, Flags
<1>3. \A op \in CloseOps : \A d \in Errors : Quiet(<< Do(op, o, d, 0) >>)
    BY <1>1, QuietSingle DEF QuietOps
<1>4. ASSUME NEW d \in Errors PROVE Quiet(RClose(o, d)) /\ Quiet(WClose(o, d))
  <2>1. ASSUME NEW x \in CloseOps, NEW y \in CloseOps, NEW z \in CloseOps
        PROVE  Quiet(<< Do(x, o, d, 0), Do(y, o, d, 0), Do(z, o, d, 0) >>)
    <3> DEFINE s == << Do(x, o, d, 0), Do(y, o, d, 0), Do(z, o, d, 0) >>
    <3>1. /\ Do(x, o, d, 0) \in Ops /\ Do(y, o, d, 0) \in Ops /\ Do(z, o, d, 0) \in Ops
          /\ Do(x, o, d, 0).op \in CloseOps /\ Do(y, o, d, 0).op \in CloseOps
          /\ Do(z, o, d, 0).op \in CloseOps
      BY <1>1
    <3>2. s \in Seq(Ops) /\ \A i \in DOMAIN s : s[i].op \in CloseOps
      BY <3>1
    <3> HIDE DEF s
    <3>3. Quiet(s)
      BY <3>2 DEF Quiet, Elems, QuietOps
    <3> QED
      BY <3>3 DEF s
  <2> QED
    BY <2>1 DEF RClose, WClose, CloseOps
<1>5. Quiet(<< Do("rst", o, "-", 0) >>)
    BY <1>2, QuietSingle DEF QuietOps
<1>6. Quiet(Resetting(o))
    BY <1>4, <1>5, QuietConcat DEF Resetting, Errors
<1>7. Do("wflag", o, e, 0) \in Elems(WClose(o, e))
  <2>1. 1 \in DOMAIN WClose(o, e) /\ WClose(o, e)[1] = Do("wflag", o, e, 0)
    BY DEF WClose
  <2> QED
    BY <2>1 DEF Elems
<1> QED
    BY <1>3, <1>4, <1>5, <1>6, <1>7 DEF CloseOps

\* A quiet step keeps the invariant.
LEMMA QuietKeeps ==
    ASSUME TypeOK, Wire, NEW t, NEW more, Goes(t, more), Quiet(more),
           todo[t] # <<>> =>
              /\ Cur(t).op \notin {"lock", "add", "syn", "synreply"}
              /\ Cur(t).op = "wflag" => wclosed'[Cur(t).o],
           out' = out, id' = id, life' = life, wready' = wready, lastSyn' = lastSyn,
           nextSynId' = nextSynId, openMu' = openMu,
           \A p \in Streams : wclosed[p] => wclosed'[p]
    PROVE  Wire'
<1>1. \A p \in Streams : Same(p)
    BY DEF Same
<1>2. PICK o : todo[t] # <<>> => Cur(t).o = o
    OBVIOUS
<1>3. o \in Streams => Written(o)'
    BY <1>1, <1>2, WrittenKept DEF Wire
<1>4. ASSUME NEW u, NEW x, Stays(t, u, x) PROVE Owned(u, x)' /\ Says(x)'
  <2>1. u \in Threads /\ x \in Work(u) /\ Owned(u, x) /\ Says(x)
    BY <1>4 DEF Stays, Wire
  <2>2. x.o \in Streams
    BY <2>1, WorkType
  <2>3. Says(x)'
    BY <1>1, <2>1, <2>2, SaysKept
  <2>4. Owned(u, x)'
    BY <2>1 DEF Owned
  <2> QED
    BY <2>3, <2>4
<1>5. lastSyn' < nextSynId'
    BY DEF Wire
<1>6. /\ Shape(more) /\ \A x \in Elems(more) : x.op \notin WOps /\ x.op # "unlock"
      /\ \A x \in Elems(more) : Owned(t, x)' /\ Says(x)'
    BY QuietSays
<1> QED
    BY <1>1, <1>2, <1>3, <1>4, <1>5, <1>6, OneStream

\* The steps that are quiet.
LEMMA QuietMoves ==
    ASSUME TypeOK, NEW t \in Threads,
           \/ Closings(t) \/ OpenMakeReply(t) \/ HeaderReceive(t) \/ HeaderForget(t)
           \/ WriteRst(t) \/ ReadPipe(t) \/ updateWindow(t) \/ OfferReply(t) \/ WindowInc(t)
           \/ DataCheck(t) \/ DataWrite(t) \/ TeardownReply(t)
    PROVE  /\ todo[t] # <<>> /\ Cur(t).op \notin {"lock", "add", "syn", "synreply"}
           /\ Cur(t).op = "wflag" => wclosed'[Cur(t).o]
           /\ out' = out /\ id' = id /\ life' = life /\ wready' = wready
           /\ lastSyn' = lastSyn /\ nextSynId' = nextSynId /\ openMu' = openMu
           /\ \A p \in Streams : wclosed[p] => wclosed'[p]
           /\ \E more : Quiet(more) /\ Goes(t, more)
<1>t. wclosed \in [Streams -> BOOLEAN] /\ DefaultWnd \in 0..MaxInt /\ MaxInt \in Nat
      /\ plen \in [Streams -> 0..DefaultWnd]
    BY SessionAssumption DEF TypeOK
<1>1. /\ todo[t] # <<>>
      /\ Cur(t).op \notin {"lock", "add", "syn", "synreply"}
      /\ out' = out /\ id' = id /\ life' = life /\ wready' = wready /\ lastSyn' = lastSyn
      /\ nextSynId' = nextSynId /\ openMu' = openMu
      /\ \/ wclosed' = wclosed /\ Cur(t).op # "wflag"
         \/ wclosed' = [wclosed EXCEPT ![Cur(t).o] = TRUE]
  <2> USE DEF At, Cur, sessVars, flagVars, histVars
  <2>1. CASE Closings(t)
    BY <2>1, Zenon DEF Closings, SetRClosed, SetWClosed, ClosePipe, CloseWnd, maybeRemove
  <2>2. CASE OpenMakeReply(t) \/ HeaderReceive(t) \/ HeaderForget(t) \/ WriteRst(t)
    BY <2>2, Zenon DEF OpenMakeReply, HeaderReceive, HeaderForget, WriteRst
  <2>3. CASE ReadPipe(t) \/ updateWindow(t) \/ OfferReply(t) \/ WindowInc(t)
    BY <2>3, Zenon DEF ReadPipe, updateWindow, OfferReply, WindowInc
  <2>4. CASE DataCheck(t) \/ DataWrite(t) \/ TeardownReply(t)
    BY <2>4, Zenon DEF DataCheck, DataWrite, TeardownReply
  <2> QED
    BY <2>1, <2>2, <2>3, <2>4
<1> DEFINE o == Cur(t).o
           k == Cur(t).k
<1>2. o \in Streams /\ k \in 0..(2 * MaxInt + 1)
      /\ (Cur(t).op \notin CloseOps => Cur(t).arg \in Flags)
    BY <1>1, CurType
<1>3. \A p \in Streams : wclosed[p] => wclosed'[p]
    BY <1>t, <1>1, <1>2
<1>4. Cur(t).op = "wflag" => wclosed'[Cur(t).o]
    BY <1>t, <1>1, <1>2
<1>a. /\ \A e \in Errors : Quiet(RClose(o, e)) /\ Quiet(<< Do("nclose", o, e, 0) >>)
      /\ Quiet(<< Do("rst", o, "-", 0) >>)
    BY <1>2, QuietClose DEF Errors
<1>b. \A op \in FlagOps \cap QuietOps : \A f \in Flags : \A n \in 0..(2 * MaxInt + 1) :
          Quiet(<< Do(op, o, f, n) >>)
  <2>1. \A op \in FlagOps : \A f \in Flags : \A n \in 0..(2 * MaxInt + 1) :
          Do(op, o, f, n) \in Ops /\ Do(op, o, f, n).op = op
    BY <1>2 DEF Do, Ops
  <2> QED
    BY <2>1, QuietSingle
<1>c. {"wupdate", "pwrite"} \subseteq FlagOps \cap QuietOps /\ "-" \in Flags
      /\ {"EOF", "flow"} \subseteq Errors
    BY DEF FlagOps, QuietOps, Flags, Errors
<1> HIDE DEF o, k
<1>5. \E more : Quiet(more) /\ Continue(t, more)
  <2>0. CASE Continue(t, <<>>)
    BY <2>0, QuietSingle
  <2>1. CASE Closings(t) \/ OpenMakeReply(t) \/ HeaderReceive(t) \/ HeaderForget(t)
             \/ WriteRst(t) \/ updateWindow(t) \/ TeardownReply(t)
    BY <2>0, <2>1 DEF Closings, SetRClosed, SetWClosed, ClosePipe, CloseWnd, maybeRemove,
        OpenMakeReply, HeaderReceive, HeaderForget, WriteRst, updateWindow, TeardownReply
  <2>2. CASE ReadPipe(t)
    <3> DEFINE n == IF plen[o] < k THEN plen[o] ELSE k
    <3>1. n \in 0..(2 * MaxInt + 1)
      BY <1>t, <1>2
    <3>2. Quiet(When(n > 0, << Do("wupdate", o, "-", n) >>))
      BY <3>1, <1>b, <1>c, QuietConcat
    <3> QED
      BY <2>2, <3>2 DEF ReadPipe, o, k
  <2>3. CASE OfferReply(t)
    <3>1. Quiet(When(Fin(Cur(t).arg), RClose(o, "EOF")))
      BY <1>a, <1>c, QuietConcat
    <3> QED
      BY <2>0, <2>3, <3>1 DEF OfferReply, o
  <2>4. CASE WindowInc(t)
    <3> DEFINE s == << Do("rst", o, "-", 0), Do("nclose", o, "flow", 0) >>
    <3>1. s = << Do("rst", o, "-", 0) >> \o << Do("nclose", o, "flow", 0) >>
      OBVIOUS
    <3>2. Quiet(s)
      BY <1>a, <1>c, <3>1, QuietConcat
    <3> HIDE DEF s
    <3>3. Quiet(s \o RClose(o, "flow"))
      BY <1>a, <1>c, <3>2, QuietConcat
    <3>4. PICK b : Continue(t, When(b, s \o RClose(o, "flow")))
      BY <2>4 DEF WindowInc, s, o
    <3> QED
      BY <3>3, <3>4, QuietConcat
  <2>5. CASE DataCheck(t)
    <3>1. Continue(t, <<>>) \/ Continue(t, << Do("pwrite", o, Cur(t).arg, k) >>)
      BY <2>5 DEF DataCheck, o, k
    <3>2. Cur(t).arg \in Flags
      BY <2>5, <1>2 DEF DataCheck, At, Cur, CloseOps
    <3> QED
      BY <2>0, <3>1, <3>2, <1>2, <1>b, <1>c
  <2>6. CASE DataWrite(t)
    <3> DEFINE s == << Do("nclose", o, "flow", 0) >> \o RClose(o, "flow")
                    \o << Do("rst", o, "-", 0) >>
               u == When(Fin(Cur(t).arg), RClose(o, "EOF"))
    <3>1. Quiet(s)
      BY <1>a, <1>c, QuietConcat
    <3>2. Quiet(u)
      BY <1>a, <1>c, QuietConcat
    <3>3. Continue(t, s) \/ Continue(t, u)
      BY <2>6 DEF DataWrite, o
    <3> QED
      BY <3>1, <3>2, <3>3
  <2> QED
    BY <2>1, <2>2, <2>3, <2>4, <2>5, <2>6
<1>6. PICK more : Quiet(more) /\ Continue(t, more)
    BY <1>5
<1>7. Goes(t, more)
    BY <1>1, <1>6 DEF Goes, Quiet
<1> QED
    BY <1>1, <1>3, <1>4, <1>6, <1>7

\* They keep the invariant.
LEMMA QuietStep ==
    ASSUME IInv, Wire, NEW t \in Threads,
           \/ Closings(t) \/ OpenMakeReply(t) \/ HeaderReceive(t) \/ HeaderForget(t)
           \/ WriteRst(t) \/ ReadPipe(t) \/ updateWindow(t) \/ OfferReply(t) \/ WindowInc(t)
           \/ DataCheck(t) \/ DataWrite(t) \/ TeardownReply(t)
    PROVE  Wire'
<1>0. TypeOK
    BY DEF IInv
<1>1. PICK more : Quiet(more) /\ Goes(t, more)
    BY <1>0, QuietMoves
<1> QED
    BY <1>0, <1>1, QuietMoves, QuietKeeps

--------------------------------------------------------------------------------
\* Steps that write, or lead to writing.

\* What the invariant says of the operation that goroutine t is at.
LEMMA CurWire ==
    ASSUME TypeOK, Wire, NEW t \in Threads, todo[t] # <<>>
    PROVE  /\ Cur(t) \in Work(t) /\ Cur(t).o \in Streams
           /\ Owned(t, Cur(t)) /\ Says(Cur(t)) /\ Written(Cur(t).o)
           /\ Cur(t).op \in WOps => \A x \in Rest(t) : x.op \notin WOps
           /\ Cur(t).op = "unlock" => Rest(t) = {}
<1>1. todo[t] \in Seq(Ops) /\ Shape(todo[t])
    BY DEF TypeOK, Wire
<1>2. Cur(t) \in Work(t)
    BY <1>1, ElemsTail DEF Work, Cur
<1>3. Cur(t).o \in Streams
    BY <1>2, WorkType
<1>4. /\ Cur(t).op \in WOps => \A x \in Rest(t) : x.op \notin WOps
      /\ Cur(t).op = "unlock" => Rest(t) = {}
    BY <1>1, ShapeTail DEF Rest, Cur
<1> QED
    BY <1>2, <1>3, <1>4 DEF Wire

\* Work on a stream that is its writer's is in the writer's list.
LEMMA Sole ==
    ASSUME TypeOK, Wire, NEW o, NEW t, t = Writer(o), NEW u, NEW x, Stays(t, u, x),
           x.o = o, x.op \in WOps \cup HoldOps
    PROVE  u = t /\ x \in Rest(t)
<1>1. u = t
    BY DEF Stays, Wire, Owned
<1> QED
    BY <1>1 DEF Stays

\* Work that does not write is undisturbed.
LEMMA NonWriter ==
    ASSUME NEW u, NEW x, Owned(u, x), x.op \notin WOps,
           x.op \in HoldOps => openMu' = openMu,
           life'[x.o] = "open" => life[x.o] = "open"
    PROVE  Owned(u, x)' /\ Says(x)'
<1>1. Says(x)'
    BY DEF Says, WOps
<1>2. Owned(u, x)'
    BY DEF Owned
<1> QED
    BY <1>1, <1>2

\* A step of the writer of o at an operation that writes.
LEMMA WriterKeeps ==
    ASSUME TypeOK, Wire, NEW t, NEW more, Goes(t, more), NEW o, todo[t] # <<>>,
           Cur(t).o = o, Cur(t).op \in WOps,
           \A p \in Streams : p # o => Same(p),
           openMu' = openMu, nextSynId' = nextSynId,
           lastSyn' = lastSyn \/ (Cur(t).op = "syn" /\ lastSyn' < nextSynId),
           life'[o] = "open" => life[o] = "open",
           Shape(more), \A x \in Elems(more) : x.op # "unlock",
           \A x \in Elems(more) : Owned(t, x)' /\ Says(x)',
           Written(o)'
    PROVE  Wire'
<1>0. t \in Threads
    BY DEF Goes
<1>1. Owned(t, Cur(t)) /\ \A x \in Rest(t) : x.op \notin WOps
    BY <1>0, CurWire
<1>2. t = Writer(o)
    BY <1>1 DEF Owned
<1>3. ASSUME NEW u, NEW x, Stays(t, u, x)
      PROVE  /\ x.op = "syn" => lastSyn' = lastSyn
             /\ x.o = o => Owned(u, x)' /\ Says(x)'
  <2>1. Owned(u, x)
    BY <1>3 DEF Stays, Wire
  <2>2. x.o = o => x.op \notin WOps
    BY <1>1, <1>2, <1>3, Sole
  <2>3. x.o = o => Owned(u, x)' /\ Says(x)'
    BY <2>1, <2>2, NonWriter
  <2>4. ASSUME x.op = "syn", Cur(t).op = "syn" PROVE FALSE
    <3>1. openMu = x.o /\ openMu = o
      BY <1>1, <2>1, <2>4 DEF Owned, HoldOps
    <3> QED
      BY <2>2, <2>4, <3>1 DEF WOps
  <2> QED
    BY <2>3, <2>4
<1>4. lastSyn' < nextSynId'
    BY DEF Wire
<1> QED
    BY <1>3, <1>4, OneStream

\* One operation is a list with its shape.
LEMMA SingleShape ==
    ASSUME NEW x \in Ops
    PROVE  << x >> \in Seq(Ops) /\ Shape(<< x >>) /\ Elems(<< x >>) = {x}
<1>1. << x >> \in Seq(Ops) /\ DOMAIN << x >> = {1} /\ Len(<< x >>) = 1 /\ << x >>[1] = x
    OBVIOUS
<1> QED
    BY <1>1 DEF Shape, Elems

\* SYN_REPLY.
LEMMA ReplyWriteWire ==
    ASSUME IInv, Wire, NEW t \in Threads, ReplyWrite(t)
    PROVE  Wire'
<1>0. TypeOK /\ AllNamed /\ out \in [Streams -> {"none", "syn", "fin", "bad"}]
    BY DEF IInv, TypeOK
<1>o. PICK o : o = Cur(t).o
    OBVIOUS
<1>1. /\ todo[t] # <<>> /\ Cur(t).op = "synreply" /\ Continue(t, <<>>)
      /\ out' = [out EXCEPT ![o] = AfterSyn(o, Cur(t).arg)]
      /\ id' = id /\ life' = life /\ wready' = wready /\ wclosed' = wclosed
      /\ openMu' = openMu /\ nextSynId' = nextSynId /\ lastSyn' = lastSyn
    BY <1>o, Zenon DEF ReplyWrite, At, Cur, sessVars, flagVars
<1>2. o \in Streams /\ Says(Cur(t)) /\ Written(o)
    BY <1>o, <1>0, <1>1, CurWire
<1>3. id[o] # 0
    BY <1>o, <1>0, <1>1, CurNamed DEF Named, OpenOps
<1>4. Goes(t, <<>>) /\ Quiet(<<>>)
    BY <1>1, QuietSingle DEF Goes, Quiet
<1>5. /\ out[o] = "none" /\ wready[o] /\ life[o] = "open"
      /\ Fin(Cur(t).arg) => FinDone(o)
    BY <1>o, <1>1, <1>2 DEF Says
<1>6. /\ out'[o] = (IF Fin(Cur(t).arg) THEN "fin" ELSE "syn")
      /\ \A p \in Streams : p # o => Same(p)
    BY <1>0, <1>1, <1>2, <1>5 DEF AfterSyn, Same
<1>7. FinDone(o) => FinDone(o)'
    BY <1>0, <1>1, <1>2, <1>4, <1>o, FinKept
<1>8. Written(o)'
    BY <1>1, <1>2, <1>3, <1>5, <1>6, <1>7 DEF Written
<1> QED
    BY <1>o, <1>0, <1>1, <1>4, <1>6, <1>8, QuietSays, WriterKeeps DEF WOps

\* FLAG_FIN.
LEMMA CloseWriteFinWire ==
    ASSUME IInv, Wire, NEW t \in Threads, CloseWriteFin(t)
    PROVE  Wire'
<1>0. TypeOK /\ AllNamed /\ out \in [Streams -> {"none", "syn", "fin", "bad"}]
    BY DEF IInv, TypeOK
<1>o. PICK o : o = Cur(t).o
    OBVIOUS
<1>1. /\ todo[t] # <<>> /\ Cur(t).op = "fin" /\ Continue(t, <<>>)
      /\ out' = [out EXCEPT ![o] = AfterData(o, "F")]
      /\ id' = id /\ life' = life /\ wready' = wready /\ wclosed' = wclosed
      /\ openMu' = openMu /\ nextSynId' = nextSynId /\ lastSyn' = lastSyn
    BY <1>o, Zenon DEF CloseWriteFin, At, Cur, sessVars, flagVars
<1>2. o \in Streams /\ Says(Cur(t)) /\ Written(o)
    BY <1>o, <1>0, <1>1, CurWire
<1>4. Goes(t, <<>>) /\ Quiet(<<>>)
    BY <1>1, QuietSingle DEF Goes, Quiet
<1>5. out[o] = "syn" /\ life[o] = "open" /\ FinDone(o)
    BY <1>o, <1>1, <1>2 DEF Says
<1>6. /\ out'[o] = "fin"
      /\ \A p \in Streams : p # o => Same(p)
    BY <1>0, <1>1, <1>2, <1>5 DEF AfterData, Same, Fin
<1>7. FinDone(o)'
    BY <1>0, <1>1, <1>2, <1>4, <1>5, <1>o, FinKept
<1>8. Written(o)'
    BY <1>1, <1>2, <1>5, <1>6, <1>7 DEF Written
<1> QED
    BY <1>o, <1>0, <1>1, <1>4, <1>6, <1>8, QuietSays, WriterKeeps DEF WOps

\* The loop of Write goes from one of its operations to the next.
LEMMA WriteLoopKeeps ==
    ASSUME TypeOK, Wire, NEW t \in Threads, todo[t] # <<>>, NEW o, Cur(t).o = o,
           Cur(t).op \in {"wdata", "dec", "data"},
           NEW op \in {"wdata", "dec", "data"}, NEW k \in 0..(2 * MaxInt + 1),
           Continue(t, << Do(op, o, "-", k) >>), out[o] = "syn", life[o] = "open",
           out' = out, id' = id, life' = life, wready' = wready, wclosed' = wclosed,
           openMu' = openMu, nextSynId' = nextSynId, lastSyn' = lastSyn
    PROVE  Wire'
<1>1. o \in Streams /\ Owned(t, Cur(t)) /\ Written(o)
    BY CurWire
<1>2. PICK x : x = Do(op, o, "-", k)
    OBVIOUS
<1>3. x \in Ops /\ x.op = op /\ x.o = o
    BY <1>1, <1>2 DEF Do, Ops, FlagOps, Flags
<1>4. << x >> \in Seq(Ops) /\ Shape(<< x >>) /\ Elems(<< x >>) = {x}
    BY <1>3, SingleShape
<1>5. Goes(t, << x >>)
    BY <1>2, <1>4 DEF Goes
<1>6. \A p \in Streams : Same(p)
    BY DEF Same
<1>7. Written(o)'
    BY <1>1, <1>5, <1>6, WrittenKept
<1>8. Says(x)'
    BY <1>3 DEF Says
<1>9. Owned(t, x)'
    BY <1>1, <1>3 DEF Owned, WOps, HoldOps
<1>10. Cur(t).op \in WOps /\ \A y \in Elems(<< x >>) : y.op # "unlock"
    BY <1>3, <1>4 DEF WOps
<1>11. \A y \in Elems(<< x >>) : Owned(t, y)' /\ Says(y)'
    BY <1>4, <1>8, <1>9
<1> QED
    BY <1>4, <1>5, <1>6, <1>7, <1>10, <1>11, WriterKeeps

\* A goroutine has one operation at a time that writes.
LEMMA OneWrite ==
    ASSUME TypeOK, Wire, NEW t \in Threads, todo[t] # <<>>, Cur(t).op \in WOps,
           NEW op \in WOps, NEW o, Due(t, op, o)
    PROVE  op = Cur(t).op
<1>1. PICK x \in Work(t) : x.op = op /\ x.o = o
    BY DEF Due, Work, Elems
<1>2. x \in Rest(t) \/ x = Cur(t)
  <2>1. todo[t] \in Seq(Ops)
    BY DEF TypeOK
  <2> QED
    BY <1>1, <2>1, ElemsTail DEF Work, Rest, Cur
<1> QED
    BY <1>1, <1>2, CurWire

\* The steps of Write.
LEMMA WriteWire ==
    ASSUME IInv, Wire, NEW t \in Threads,
           WriteCheck(t) \/ WriteDec(t) \/ WriteFrameData(t)
    PROVE  Wire'
<1>0. TypeOK /\ out \in [Streams -> {"none", "syn", "fin", "bad"}]
      /\ wnd \in [Streams -> (-MaxInt - 1)..MaxInt] /\ MaxInt \in Nat
    BY SessionAssumption DEF IInv, TypeOK
<1>o. PICK o : o = Cur(t).o
    OBVIOUS
<1>k. PICK k : k = Cur(t).k
    OBVIOUS
<1>1. /\ todo[t] # <<>> /\ Cur(t).op \in {"wdata", "dec", "data"}
      /\ id' = id /\ life' = life /\ wready' = wready /\ wclosed' = wclosed
      /\ openMu' = openMu /\ nextSynId' = nextSynId /\ lastSyn' = lastSyn
    BY Zenon DEF WriteCheck, WriteDec, WriteFrameData, At, Cur, sessVars, flagVars, histVars
<1>2. /\ o \in Streams /\ Says(Cur(t)) /\ Written(o) /\ Owned(t, Cur(t))
      /\ k \in 0..(2 * MaxInt + 1)
    BY <1>o, <1>k, <1>0, <1>1, CurWire, CurType
<1>3. t = Writer(o) /\ life[o] = "open" /\ Cur(t).op \in WOps
    BY <1>o, <1>1, <1>2 DEF Owned, Says, WOps
<1>4. ASSUME NEW more, Quiet(more), Continue(t, more), out' = out PROVE Wire'
  <2>1. Goes(t, more)
    BY <1>1, <1>4 DEF Goes, Quiet
  <2>2. Cur(t).op \notin {"lock", "add", "syn", "synreply", "wflag"}
    BY <1>1
  <2> QED
    BY <1>0, <1>1, <1>4, <2>1, <2>2, QuietKeeps
<1>5. ASSUME NEW op \in {"wdata", "dec", "data"}, NEW n \in 0..(2 * MaxInt + 1),
             Continue(t, << Do(op, o, "-", n) >>), out' = out, out[o] = "syn"
      PROVE  Wire'
    BY <1>o, <1>0, <1>1, <1>3, <1>5, WriteLoopKeeps
<1>6. CASE WriteCheck(t)
  <2>1. /\ Cur(t).op = "wdata" /\ out' = out
        /\ Continue(t, When(~wclosed[o] /\ wready[o], << Do("dec", o, "-", k) >>))
    BY <1>o, <1>k, <1>6 DEF WriteCheck, At, Cur, histVars
  <2>2. CASE ~wclosed[o] /\ wready[o]
    <3>1. out[o] # "none"
      <4>1. ~Due(t, "synreply", o)
        BY <1>0, <1>1, <2>1, OneWrite DEF WOps
      <4> QED
        BY <1>2, <1>3, <2>2, <4>1 DEF Written
    <3>2. out[o] # "fin"
      BY <1>o, <1>2, <2>1, <2>2 DEF Says
    <3>3. out[o] = "syn"
      BY <1>0, <1>2, <3>1, <3>2 DEF Written
    <3>4. Continue(t, << Do("dec", o, "-", k) >>)
      BY <2>1, <2>2 DEF When
    <3> QED
      BY <1>2, <1>5, <2>1, <3>3, <3>4
  <2>3. CASE ~(~wclosed[o] /\ wready[o])
    <3>1. Continue(t, <<>>)
      BY <2>1, <2>3 DEF When
    <3> QED
      BY <1>4, <2>1, <3>1, QuietSingle
  <2> QED
    BY <2>2, <2>3
<1>7. CASE WriteDec(t)
  <2> DEFINE n == IF wnd[o] < k THEN wnd[o] ELSE k
  <2>1. /\ Cur(t).op = "dec" /\ out' = out
        /\ \/ Continue(t, Resetting(o))
           \/ wnd[o] >= 1 /\ Continue(t, << Do("data", o, "-", k - n) >>)
    BY <1>o, <1>k, <1>7 DEF WriteDec, At, Cur, histVars
  <2>2. out[o] = "syn"
    BY <1>o, <1>2, <2>1 DEF Says
  <2>3. CASE Continue(t, Resetting(o))
    BY <1>2, <1>4, <2>1, <2>3, QuietClose DEF Errors
  <2>4. CASE wnd[o] >= 1 /\ Continue(t, << Do("data", o, "-", k - n) >>)
    <3>1. k - n \in 0..(2 * MaxInt + 1)
      BY <1>0, <1>2, <2>4
    <3> QED
      BY <1>5, <2>1, <2>2, <2>4, <3>1
  <2> QED
    BY <2>1, <2>3, <2>4
<1>8. CASE WriteFrameData(t)
  <2>1. /\ Cur(t).op = "data" /\ out' = [out EXCEPT ![o] = AfterData(o, "-")]
        /\ \/ Continue(t, <<>>)
           \/ Continue(t, << Do("wdata", o, "-", k) >>)
    BY <1>o, <1>k, <1>8 DEF WriteFrameData, At, Cur
  <2>2. out[o] = "syn"
    BY <1>o, <1>2, <2>1 DEF Says
  <2>3. out' = out
    BY <1>0, <2>1, <2>2 DEF AfterData, Fin
  <2> QED
    BY <1>2, <1>4, <1>5, <2>1, <2>2, <2>3, QuietSingle
<1> QED
    BY <1>6, <1>7, <1>8

--------------------------------------------------------------------------------
\* The steps of Open, and the start of a handler.

\* What a goroutine is given to do, it has to do.
LEMMA DueNew ==
    ASSUME TypeOK, NEW t, NEW more, Goes(t, more), NEW x \in Elems(more)
    PROVE  Due(t, x.op, x.o)'
<1>1. x \in Work(t)'
    BY Moves DEF Goes
<1> QED
    BY <1>1 DEF Due, Work, Elems

\* SYN_STREAM.
LEMMA OpenWriteSynWire ==
    ASSUME IInv, Wire, NEW t \in Threads, OpenWriteSyn(t)
    PROVE  Wire' /\ (lastSyn' # lastSyn => lastSyn' > lastSyn)
<1>0. TypeOK /\ AllNamed /\ out \in [Streams -> {"none", "syn", "fin", "bad"}]
      /\ id \in [Streams -> Nat] /\ lastSyn \in Nat /\ nextSynId \in Nat
      /\ life \in [Streams -> {"new", "opening", "open", "failed"}]
    BY DEF IInv, TypeOK
<1>o. PICK o : o = Cur(t).o
    OBVIOUS
<1>1. /\ todo[t] # <<>> /\ Cur(t).op = "syn"
      /\ out' = [out EXCEPT ![o] = AfterSyn(o, Cur(t).arg)]
      /\ \/ lastSyn' = id[o] /\ life' = life /\ Continue(t, <<>>)
         \/ /\ lastSyn' = lastSyn /\ life' = [life EXCEPT ![o] = "failed"]
            /\ Continue(t, RClose(o, "io") \o WClose(o, "io"))
      /\ id' = id /\ wready' = wready /\ wclosed' = wclosed
      /\ openMu' = openMu /\ nextSynId' = nextSynId
    BY <1>o, Zenon DEF OpenWriteSyn, At, Cur, sessVars
<1>2. o \in Streams /\ Says(Cur(t)) /\ Written(o)
    BY <1>o, <1>0, <1>1, CurWire
<1>3. id[o] # 0
    BY <1>o, <1>0, <1>1, CurNamed DEF Named, OpenOps
<1>4. /\ out[o] = "none" /\ life[o] = "opening" /\ id[o] > lastSyn
      /\ Fin(Cur(t).arg) => FinDone(o)
    BY <1>o, <1>1, <1>2 DEF Says
<1>5. id[o] < nextSynId /\ o \notin Remotes
    BY <1>2, <1>3, <1>4 DEF Written, IInv, Unique, Streams
<1>6. PICK more : Quiet(more) /\ Continue(t, more)
    BY <1>1, <1>2, QuietSingle, QuietClose, QuietConcat DEF Errors
<1>7. Goes(t, more)
    BY <1>1, <1>6 DEF Goes, Quiet
<1>8. /\ out'[o] = (IF Fin(Cur(t).arg) THEN "fin" ELSE "syn")
      /\ life'[o] \in {"opening", "failed"}
      /\ \A p \in Streams : p # o => Same(p)
    BY <1>0, <1>1, <1>2, <1>4 DEF AfterSyn, Same
<1>9. FinDone(o) => FinDone(o)'
    BY <1>o, <1>0, <1>1, <1>2, <1>7, FinKept
<1>10. wready[o]
    BY <1>2, <1>4 DEF Written
<1>11. Written(o)'
    BY <1>1, <1>3, <1>4, <1>5, <1>8, <1>9, <1>10 DEF Written
<1>12. Wire'
  <2>1. lastSyn' = lastSyn \/ (Cur(t).op = "syn" /\ lastSyn' < nextSynId)
    BY <1>1, <1>5
  <2>2. ~(life'[o] = "open") /\ Cur(t).op \in WOps
    BY <1>1, <1>8 DEF WOps
  <2>3. /\ Shape(more) /\ \A x \in Elems(more) : x.op # "unlock"
        /\ \A x \in Elems(more) : Owned(t, x)' /\ Says(x)'
    BY <1>6, QuietSays
  <2> QED
    BY <1>o, <1>0, <1>1, <1>7, <1>8, <1>11, <2>1, <2>2, <2>3, WriterKeeps
<1> QED
    BY <1>1, <1>4, <1>12

\* openMu.Lock().
LEMMA OpenLockWire ==
    ASSUME IInv, Wire, NEW t \in Threads, OpenLock(t)
    PROVE  Wire'
<1>0. TypeOK /\ AllNamed /\ Alone
    BY DEF IInv
<1>o. PICK o : o = Cur(t).o
    OBVIOUS
<1>f. PICK f : f = Cur(t).arg
    OBVIOUS
<1>1. /\ todo[t] # <<>> /\ Cur(t).op = "lock" /\ Continue(t, << Do("add", o, f, 0) >>)
      /\ openMu = None /\ openMu' = o
      /\ out' = out /\ id' = id /\ life' = life /\ wready' = wready /\ wclosed' = wclosed
      /\ nextSynId' = nextSynId /\ lastSyn' = lastSyn
    BY <1>o, <1>f, Zenon DEF OpenLock, At, Cur, flagVars, histVars
<1>2. o \in Streams /\ Written(o) /\ f \in Flags
    BY <1>o, <1>f, <1>0, <1>1, CurWire, CurType DEF CloseOps
<1>3. t = Writer(o) /\ Tail(todo[t]) = <<>>
    BY <1>o, <1>0, <1>1, CurNamed DEF Named, OpenOps
<1>4. Rest(t) = {}
    BY <1>3 DEF Rest, Elems
<1>5. PICK x : x = Do("add", o, f, 0)
    OBVIOUS
<1>6. x \in Ops /\ x.op = "add" /\ x.o = o
    BY <1>2, <1>5, SessionAssumption DEF Do, Ops, OpenOps
<1>7. << x >> \in Seq(Ops) /\ Shape(<< x >>) /\ Elems(<< x >>) = {x}
    BY <1>6, SingleShape
<1>8. Goes(t, << x >>)
    BY <1>1, <1>5, <1>7 DEF Goes
<1>9. Owned(t, x)' /\ Says(x)'
    BY <1>1, <1>3, <1>6 DEF Owned, Says, WOps
<1>10. ASSUME NEW u, NEW y, Stays(t, u, y)
       PROVE  y.op \notin HoldOps /\ (y.o = o => Owned(u, y)' /\ Says(y)')
  <2>1. u \in Threads /\ y \in Work(u) /\ Owned(u, y)
    BY <1>10 DEF Stays, Wire
  <2>2. y.o # None
    BY <1>0, <2>1, WorkType
  <2>3. y.op \notin HoldOps
    BY <1>1, <2>1, <2>2 DEF Owned
  <2>4. y.o = o => y.op \notin WOps
    BY <1>0, <1>3, <1>4, <1>10, Sole
  <2> QED
    BY <1>1, <2>1, <2>3, <2>4, NonWriter
<1>11. \A p \in Streams : Same(p)
    BY <1>1 DEF Same
<1>12. Written(o)'
  <2>1. Due(t, "add", o)'
    BY <1>0, <1>6, <1>7, <1>8, DueNew
  <2>2. FinDone(o) => FinDone(o)'
    BY <1>0, <1>1, <1>2, <1>8, FinKept
  <2>3. Due(Writer(o), "synreply", o) => Due(Writer(o), "synreply", o)'
    BY <1>0, <1>1, <1>3, <1>8, DueLeft DEF Goes
  <2> QED
    BY <1>1, <1>2, <1>3, <2>1, <2>2, <2>3 DEF Written
<1>13. lastSyn' < nextSynId'
    BY <1>1 DEF Wire
<1>14. \A y : y.op = "syn" => y.op \in HoldOps
    BY DEF HoldOps
<1>15. \A y \in Elems(<< x >>) : Owned(t, y)' /\ Says(y)'
    BY <1>7, <1>9
<1> QED
    BY <1>o, <1>0, <1>1, <1>4, <1>7, <1>8, <1>10, <1>11, <1>12, <1>13, <1>14, <1>15, OneStream

\* openMu.Unlock().
LEMMA OpenUnlockWire ==
    ASSUME IInv, Wire, NEW t \in Threads, OpenUnlock(t)
    PROVE  Wire'
<1>0. TypeOK /\ life \in [Streams -> {"new", "opening", "open", "failed"}]
    BY DEF IInv, TypeOK
<1>o. PICK o : o = Cur(t).o
    OBVIOUS
<1>1. /\ todo[t] # <<>> /\ Cur(t).op = "unlock" /\ Continue(t, <<>>)
      /\ openMu' = None
      /\ life' = [life EXCEPT ![o] = IF @ = "opening" THEN "open" ELSE @]
      /\ out' = out /\ id' = id /\ wready' = wready /\ wclosed' = wclosed
      /\ nextSynId' = nextSynId /\ lastSyn' = lastSyn
    BY <1>o, Zenon DEF OpenUnlock, At, Cur, histVars
<1>2. o \in Streams /\ Written(o) /\ Owned(t, Cur(t)) /\ Rest(t) = {}
    BY <1>o, <1>0, <1>1, CurWire
<1>3. t = Writer(o) /\ openMu = o
    BY <1>o, <1>1, <1>2 DEF Owned, HoldOps
<1>4. Goes(t, <<>>) /\ Quiet(<<>>)
    BY <1>1, QuietSingle DEF Goes, Quiet
<1>5. ASSUME NEW u, NEW y, Stays(t, u, y)
      PROVE  y.op \notin HoldOps /\ (y.o = o => Owned(u, y)' /\ Says(y)')
  <2>1. u \in Threads /\ y \in Work(u) /\ Owned(u, y)
    BY <1>5 DEF Stays, Wire
  <2>2. y.op \in HoldOps => y.o = o
    BY <1>3, <2>1 DEF Owned
  <2>3. y.o = o => y.op \notin WOps \cup HoldOps
    BY <1>0, <1>2, <1>3, <1>5, Sole
  <2>4. ASSUME y.o = o PROVE Owned(u, y)' /\ Says(y)'
    <3>1. y.op \notin WOps /\ y.op \notin HoldOps /\ y.op # "mkreply"
      BY <2>3, <2>4 DEF HoldOps
    <3>2. Owned(u, y)'
      BY <2>1, <3>1 DEF Owned
    <3>3. Says(y)'
      BY <3>1 DEF Says, WOps
    <3> QED
      BY <3>2, <3>3
  <2> QED
    BY <2>2, <2>3, <2>4
<1>6. \A p \in Streams : p # o => Same(p)
    BY <1>0, <1>1, <1>2 DEF Same
<1>7. Written(o)'
  <2>1. ASSUME NEW op, op # "unlock", Due(t, op, o) PROVE FALSE
    <3>1. PICK x \in Work(t) : x.op = op
      BY <2>1 DEF Due, Work, Elems
    <3>2. todo[t] \in Seq(Ops)
      BY <1>0 DEF TypeOK
    <3>3. x \in Rest(t) \/ x = Cur(t)
      BY <1>1, <3>1, <3>2, ElemsTail DEF Work, Rest, Cur
    <3> QED
      BY <1>1, <1>2, <2>1, <3>1, <3>3
  <2>2. ~(life[o] = "opening" /\ out[o] = "none")
    BY <1>2, <1>3, <2>1 DEF Written
  <2>3. ~(life[o] = "open" /\ wready[o] /\ out[o] = "none")
    BY <1>2, <1>3, <2>1 DEF Written
  <2>4. FinDone(o) => FinDone(o)'
    BY <1>o, <1>0, <1>1, <1>2, <1>4, FinKept
  <2>5. life'[o] = (IF life[o] = "opening" THEN "open" ELSE life[o])
    BY <1>0, <1>1, <1>2
  <2> QED
    BY <1>1, <1>2, <2>2, <2>3, <2>4, <2>5 DEF Written
<1>8. lastSyn' < nextSynId'
    BY <1>1 DEF Wire
<1>9. \A y : y.op = "syn" => y.op \in HoldOps
    BY DEF HoldOps
<1>10. /\ Shape(<<>>) /\ \A x \in Elems(<<>>) : x.op \notin WOps /\ x.op # "unlock"
       /\ \A x \in Elems(<<>>) : Owned(t, x)' /\ Says(x)'
    BY <1>4, QuietSays
<1> QED
    BY <1>o, <1>0, <1>1, <1>4, <1>5, <1>6, <1>7, <1>8, <1>9, <1>10, OneStream

\* s.add(st) and the work that Open then has.
LEMMA OpenAddWire ==
    ASSUME IInv, Wire, NEW t \in Threads, OpenAdd(t)
    PROVE  Wire'
<1>0. TypeOK /\ AllNamed /\ Alone /\ Unique
      /\ id \in [Streams -> Nat] /\ lastSyn \in Nat /\ nextSynId \in Nat
      /\ life \in [Streams -> {"new", "opening", "open", "failed"}]
    BY DEF IInv, TypeOK
<1>o. PICK o : o = Cur(t).o
    OBVIOUS
<1>f. PICK f : f = Cur(t).arg
    OBVIOUS
<1> DEFINE a == IF Uni(f) THEN RClose(o, "notReadable") ELSE << Do("mkreply", o, "-", 0) >>
           b == When(Fin(f), WClose(o, "notWritable"))
           c == << Do("syn", o, f, 0), Do("unlock", o, "-", 0) >>
<1>1. /\ todo[t] # <<>> /\ Cur(t).op = "add"
      /\ out' = out /\ wready' = wready /\ wclosed' = wclosed
      /\ openMu' = openMu /\ lastSyn' = lastSyn
    BY <1>o, <1>f, Zenon DEF OpenAdd, At, Cur, histVars
<1>2. o \in Streams /\ Written(o) /\ f \in Flags /\ Owned(t, Cur(t))
    BY <1>o, <1>f, <1>0, <1>1, CurWire, CurType DEF CloseOps
<1>3. t = Writer(o) /\ openMu = o
    BY <1>o, <1>1, <1>2 DEF Owned, HoldOps
<1>4. Tail(todo[t]) = <<>> /\ life[o] = "opening" /\ id[o] = 0 /\ o \in Locals
    BY <1>o, <1>0, <1>1, CurNamed DEF Named, OpenOps
<1>5. Rest(t) = {}
    BY <1>4 DEF Rest, Elems
<1>6. out[o] = "none" /\ wready[o] /\ o \notin Remotes
    BY <1>2, <1>4, SessionAssumption DEF Written
<1>7. ASSUME NEW u, NEW y, Stays(t, u, y), y.o = o, life'[o] # "open"
      PROVE  Owned(u, y)' /\ Says(y)'
  <2>1. Owned(u, y)
    BY <1>7 DEF Stays, Wire
  <2>2. y.op \notin WOps
    BY <1>0, <1>3, <1>5, <1>7, Sole
  <2> QED
    BY <1>1, <1>7, <2>1, <2>2, NonWriter
<1>9. ASSUME NEW more, Goes(t, more), Shape(more), life'[o] # "open",
             \A p \in Streams : p # o => Same(p), lastSyn' < nextSynId',
             \A x \in Elems(more) : Owned(t, x)' /\ Says(x)', Written(o)'
      PROVE  Wire'
  <2>1. \A u, y : Stays(t, u, y) =>
              /\ y.op \in HoldOps => openMu' = openMu
              /\ y.op = "syn" => lastSyn' = lastSyn
              /\ y.o = o => Owned(u, y)' /\ Says(y)'
    BY <1>1, <1>7, <1>9
  <2> QED
    BY <1>o, <1>0, <1>5, <1>9, <2>1, OneStream
<1>10. CASE closing
  <2>1. /\ life' = [life EXCEPT ![o] = "failed"] /\ nextSynId' = nextSynId /\ id' = id
        /\ Continue(t, << Do("unlock", o, "-", 0) >>)
    BY <1>o, <1>10, Zenon DEF OpenAdd
  <2>2. PICK x : x = Do("unlock", o, "-", 0)
    OBVIOUS
  <2>3. x \in Ops /\ x.op = "unlock" /\ x.o = o
    BY <1>2, <2>2, SessionAssumption DEF Do, Ops, FlagOps, Flags
  <2>4. << x >> \in Seq(Ops) /\ Shape(<< x >>) /\ Elems(<< x >>) = {x}
    BY <2>3, SingleShape
  <2>5. Goes(t, << x >>)
    BY <1>1, <2>1, <2>2, <2>4 DEF Goes
  <2>6. Owned(t, x)' /\ Says(x)'
    BY <1>1, <1>3, <2>3 DEF Owned, Says, WOps
  <2>7. life'[o] = "failed" /\ \A p \in Streams : p # o => Same(p)
    BY <1>0, <1>1, <1>2, <2>1 DEF Same
  <2>8. Written(o)'
    BY <1>1, <1>6, <2>7 DEF Written
  <2>9. lastSyn' < nextSynId'
    BY <1>1, <2>1 DEF Wire
  <2>10. \A y \in Elems(<< x >>) : Owned(t, y)' /\ Says(y)'
    BY <2>4, <2>6
  <2> QED
    BY <1>9, <2>4, <2>5, <2>7, <2>8, <2>9, <2>10
<1>11. CASE ~closing
  <2>1. /\ life' = life /\ nextSynId' = nextSynId + 2
        /\ id' = [id EXCEPT ![o] = nextSynId]
        /\ Continue(t, a \o b \o c)
    BY <1>o, <1>f, <1>11, Zenon DEF OpenAdd
  <2>2. PICK x, y, z : x = Do("syn", o, f, 0) /\ y = Do("unlock", o, "-", 0)
                       /\ z = Do("mkreply", o, "-", 0)
    OBVIOUS
  <2>3. /\ x \in Ops /\ x.op = "syn" /\ x.o = o /\ x.arg = f
        /\ y \in Ops /\ y.op = "unlock" /\ y.o = o
        /\ z \in Ops /\ z.op = "mkreply" /\ z.o = o
    BY <1>2, <2>2, SessionAssumption DEF Do, Ops, FlagOps, Flags
  <2>4. c \in Seq(Ops) /\ Elems(c) = {x, y} /\ Shape(c)
    <3>1. << x, y >> \in Seq(Ops) /\ DOMAIN << x, y >> = {1, 2} /\ Len(<< x, y >>) = 2
          /\ << x, y >>[1] = x /\ << x, y >>[2] = y
      BY <2>3
    <3>2. Elems(<< x, y >>) = {x, y}
      BY <3>1 DEF Elems
    <3>3. Shape(<< x, y >>)
      BY <2>3, <3>1 DEF Shape, WOps
    <3> QED
      BY <2>2, <3>1, <3>2, <3>3
  <2>5. Quiet(a) \/ (a \in Seq(Ops) /\ Elems(a) = {z} /\ Shape(a))
    BY <1>2, <2>2, <2>3, SingleShape, QuietClose DEF Errors
  <2>6. Quiet(b) /\ (Fin(f) => Do("wflag", o, "notWritable", 0) \in Elems(b))
    BY <1>2, QuietClose, QuietConcat DEF Errors, When
  <2> HIDE DEF a, b, c
  <2>7. a \in Seq(Ops) /\ b \in Seq(Ops) /\ Shape(a) /\ Shape(b)
        /\ (\A w \in Elems(a) : w.op \notin WOps /\ w.op # "unlock")
        /\ (\A w \in Elems(b) : w.op \notin WOps /\ w.op # "unlock")
    BY <2>3, <2>5, <2>6, QuietSays DEF Quiet, WOps
  <2>8. PICK d : d = a \o b
    OBVIOUS
  <2>9. d \in Seq(Ops) /\ Elems(d) = Elems(a) \cup Elems(b) /\ Shape(d)
    BY <2>7, <2>8, ElemsConcat, ShapeConcat
  <2>10. d \o c \in Seq(Ops) /\ Elems(d \o c) = Elems(a) \cup Elems(b) \cup {x, y}
         /\ Shape(d \o c)
    <3>1. \A w \in Elems(d) : w.op \notin WOps /\ w.op # "unlock"
      BY ONLY <2>7, <2>9
    <3>2. Elems(d \o c) = Elems(d) \cup Elems(c) /\ d \o c \in Seq(Ops)
      BY ONLY <2>4, <2>9, ElemsConcat
    <3>3. Shape(d \o c)
      BY ONLY <2>4, <2>9, <3>1, ShapeConcat
    <3> QED
      BY ONLY <2>4, <2>9, <3>2, <3>3
  <2>11. PICK more : more = d \o c
    OBVIOUS
  <2>12. Goes(t, more)
    BY <1>1, <2>1, <2>8, <2>10, <2>11 DEF Goes
  <2>13. life'[o] = "opening" /\ id'[o] = nextSynId /\ \A p \in Streams : p # o => Same(p)
    BY <1>0, <1>1, <1>2, <1>4, <2>1 DEF Same
  <2>14. Fin(f) => FinDone(o)'
    <3>1. /\ Do("wflag", o, "notWritable", 0).op = "wflag"
          /\ Do("wflag", o, "notWritable", 0).o = o
      BY DEF Do
    <3>2. Fin(f) => Due(t, "wflag", o)'
      BY <1>0, <2>6, <2>10, <2>11, <2>12, <3>1, DueNew
    <3> QED
      BY <1>3, <3>2 DEF FinDone
  <2>15. Says(x)' /\ Owned(t, x)'
    <3>1. id'[o] > lastSyn' /\ out'[o] = "none"
      BY <1>0, <1>1, <1>6, <2>13 DEF Wire
    <3>2. Says(x)'
      BY <2>3, <2>13, <2>14, <3>1 DEF Says
    <3>3. Owned(t, x)'
      BY <1>1, <1>3, <2>3 DEF Owned
    <3> QED
      BY <3>2, <3>3
  <2>16. Says(y)' /\ Owned(t, y)'
    BY <1>1, <1>3, <2>3 DEF Owned, Says, WOps
  <2>17. Says(z)' /\ Owned(t, z)'
    BY <1>1, <1>3, <1>4, <2>3, <2>13 DEF Owned, Says, WOps
  <2>18. \A w \in Elems(more) : Owned(t, w)' /\ Says(w)'
    BY <2>5, <2>6, <2>10, <2>11, <2>15, <2>16, <2>17, QuietSays
  <2>19. Written(o)'
    <3>1. Due(t, "syn", o)'
      BY <1>0, <2>3, <2>10, <2>11, <2>12, DueNew
    <3>2. \E op \in {"lock", "add", "syn"} : Due(t, op, o)'
      BY <3>1
    <3> QED
      BY <1>1, <1>3, <1>6, <2>13, <3>2 DEF Written
  <2>20. lastSyn' < nextSynId'
    BY <1>0, <1>1, <2>1 DEF Wire
  <2> QED
    BY <1>9, <2>10, <2>11, <2>12, <2>13, <2>18, <2>19, <2>20
<1> QED
    BY <1>10, <1>11

\* go s.handle(st).
LEMMA StartHandlerWire ==
    ASSUME IInv, Wire, NEW t \in Threads, StartHandler(t)
    PROVE  Wire'
<1>0. TypeOK /\ life \in [Streams -> {"new", "opening", "open", "failed"}]
    BY DEF IInv, TypeOK
<1>o. PICK o : o = Cur(t).o
    OBVIOUS
<1>1. /\ todo[t] # <<>> /\ Cur(t).op = "handle" /\ Continue(t, <<>>)
      /\ life' = [life EXCEPT ![o] = "open"]
      /\ out' = out /\ id' = id /\ wready' = wready /\ wclosed' = wclosed
      /\ openMu' = openMu /\ nextSynId' = nextSynId /\ lastSyn' = lastSyn
    BY <1>o, Zenon DEF StartHandler, At, Cur, sessVars, histVars
<1>2. o \in Streams /\ Written(o) /\ Owned(t, Cur(t))
    BY <1>o, <1>0, <1>1, CurWire
<1>3. o \in Remotes /\ o \notin Locals
    BY <1>o, <1>1, <1>2, SessionAssumption DEF Owned
<1>4. Goes(t, <<>>) /\ Quiet(<<>>)
    BY <1>1, QuietSingle DEF Goes, Quiet
<1>5. CASE life[o] = "open"
  <2>1. life' = life
    BY <1>0, <1>1, <1>2, <1>5
  <2> QED
    BY <1>0, <1>1, <1>4, <2>1, QuietKeeps
<1>6. CASE life[o] = "new"
  <2>1. ~wready[o] /\ out[o] = "none"
    BY <1>2, <1>6 DEF Written
  <2>2. life'[o] = "open" /\ \A p \in Streams : p # o => Same(p)
    BY <1>0, <1>1, <1>2 DEF Same
  <2>3. Written(o)'
    BY <1>1, <2>1, <2>2 DEF Written
  <2>4. ASSUME NEW u, NEW y, Stays(t, u, y), y.o = o PROVE Owned(u, y)' /\ Says(y)'
    <3>1. Owned(u, y) /\ Says(y)
      BY <2>4 DEF Stays, Wire
    <3>2. y.op \notin WOps /\ y.op # "mkreply"
      BY <1>3, <1>6, <2>4, <3>1 DEF Says, Owned, WOps
    <3>3. Says(y)'
      BY <3>2 DEF Says, WOps
    <3>4. Owned(u, y)'
      BY <1>1, <3>1, <3>2 DEF Owned
    <3> QED
      BY <3>3, <3>4
  <2>5. /\ Shape(<<>>) /\ \A x \in Elems(<<>>) : x.op \notin WOps /\ x.op # "unlock"
        /\ \A x \in Elems(<<>>) : Owned(t, x)' /\ Says(x)'
    BY <1>4, QuietSays
  <2>6. lastSyn' < nextSynId'
    BY <1>1 DEF Wire
  <2> QED
    BY <1>o, <1>0, <1>1, <1>4, <2>2, <2>3, <2>4, <2>5, <2>6, OneStream
<1> QED
    BY <1>2, <1>3, <1>5, <1>6 DEF Written

\* An operation keeps the invariant.
LEMMA StepWire ==
    ASSUME IInv, Wire, NEW t \in Threads, Step(t)
    PROVE  Wire'
    BY QuietStep, WriteWire, ReplyWriteWire, CloseWriteFinWire, OpenWriteSynWire,
       OpenLockWire, OpenUnlockWire, OpenAddWire, StartHandlerWire
       DEF Step, Opening, StreamSteps, ReadSteps

--------------------------------------------------------------------------------
\* Calls and frames.

\* An idle goroutine begins work on o, and nothing but o changes.
LEMMA BeginsOn ==
    ASSUME TypeOK, Wire, NEW t \in Threads, NEW more \in Seq(Ops), Begin(t, more),
           NEW o \in Streams, \A p \in Streams : p # o => Same(p),
           lastSyn' = lastSyn, nextSynId' = nextSynId, openMu' = openMu,
           Shape(more), \A x \in Elems(more) : Owned(t, x)' /\ Says(x)',
           \/ Same(o)
           \/ t = Writer(o) /\ Written(o)' /\ (life'[o] = "open" => life[o] = "open")
    PROVE  Wire'
<1>1. todo[t] = <<>> /\ Rest(t) = {} /\ Goes(t, more)
    BY DEF Begin, Rest, Goes
<1>2. Written(o)'
    BY <1>1, WrittenKept DEF Wire
<1>3. ASSUME NEW u, NEW x, Stays(t, u, x), x.o = o PROVE Owned(u, x)' /\ Says(x)'
  <2>1. Owned(u, x) /\ Says(x)
    BY <1>3 DEF Stays, Wire
  <2>2. CASE Same(o)
    <3>1. Says(x)'
      BY <1>1, <1>3, <2>1, <2>2, SaysKept
    <3>2. Owned(u, x)'
      BY <1>3, <2>1, <2>2 DEF Owned, Same
    <3> QED
      BY <3>1, <3>2
  <2>3. CASE t = Writer(o) /\ (life'[o] = "open" => life[o] = "open")
    <3>1. x.op \notin WOps
      BY <1>1, <1>3, <2>3, Sole
    <3> QED
      BY <1>3, <2>1, <2>3, <3>1, NonWriter
  <2> QED
    BY <2>2, <2>3
<1>4. lastSyn' < nextSynId'
    BY DEF Wire
<1> QED
    BY <1>1, <1>2, <1>3, <1>4, OneStream

\* Session.Open.
LEMMA OpenWire ==
    ASSUME IInv, Wire, NEW o \in Streams, NEW f \in Flags, Open(o, f)
    PROVE  Wire'
<1>0. TypeOK /\ life \in [Streams -> {"new", "opening", "open", "failed"}]
      /\ wready \in [Streams -> BOOLEAN]
    BY DEF IInv, TypeOK
<1>1. /\ life[o] = "new" /\ o \in Locals /\ life' = [life EXCEPT ![o] = "opening"]
      /\ wready' = [wready EXCEPT ![o] = TRUE]
      /\ Begin(Writer(o), << Do("lock", o, f, 0) >>)
      /\ out' = out /\ id' = id /\ wclosed' = wclosed
      /\ openMu' = openMu /\ nextSynId' = nextSynId /\ lastSyn' = lastSyn
    BY Zenon DEF Open, sessVars, histVars
<1>2. PICK x : x = Do("lock", o, f, 0)
    OBVIOUS
<1>3. x \in Ops /\ x.op = "lock" /\ x.o = o
    BY <1>2, SessionAssumption DEF Do, Ops, OpenOps
<1>4. << x >> \in Seq(Ops) /\ Shape(<< x >>) /\ Elems(<< x >>) = {x}
    BY <1>3, SingleShape
<1>5. Written(o) /\ Writer(o) \in Threads /\ o \notin Remotes
    BY <1>1, ThreadsType, SessionAssumption DEF Wire
<1>6. out[o] = "none"
    BY <1>1, <1>5 DEF Written
<1>7. Goes(Writer(o), << x >>)
    BY <1>1, <1>2, <1>4, <1>5 DEF Goes
<1>8. \E op \in {"lock", "add", "syn"} : Due(Writer(o), op, o)'
  <2>1. Due(Writer(o), "lock", o)'
    BY <1>0, <1>3, <1>4, <1>7, DueNew
  <2> QED
    BY <2>1
<1>9. life'[o] = "opening" /\ wready'[o] /\ \A p \in Streams : p # o => Same(p)
    BY <1>0, <1>1 DEF Same
<1>10. Written(o)'
    BY <1>1, <1>5, <1>6, <1>8, <1>9 DEF Written
<1>11. \A y \in Elems(<< x >>) : Owned(Writer(o), y)' /\ Says(y)'
    BY <1>3, <1>4 DEF Owned, Says, WOps, HoldOps
<1> QED
    BY <1>0, <1>1, <1>2, <1>4, <1>5, <1>9, <1>10, <1>11, BeginsOn

\* Stream.Reply.
LEMMA ReplyWire ==
    ASSUME IInv, Wire, NEW o \in Streams, NEW f \in {"-", "F"}, Reply(o, f)
    PROVE  Wire'
<1>0. TypeOK /\ wready \in [Streams -> BOOLEAN]
    BY DEF IInv, TypeOK
<1> DEFINE b == When(Fin(f), WClose(o, "closed"))
<1>1. /\ life[o] = "open" /\ ~wready[o] /\ wready' = [wready EXCEPT ![o] = TRUE]
      /\ Begin(Writer(o), << Do("synreply", o, f, 0) >> \o b)
      /\ out' = out /\ id' = id /\ life' = life /\ wclosed' = wclosed
      /\ openMu' = openMu /\ nextSynId' = nextSynId /\ lastSyn' = lastSyn
    BY Zenon DEF Reply, Call, sessVars, histVars
<1>2. PICK x : x = Do("synreply", o, f, 0)
    OBVIOUS
<1>3. x \in Ops /\ x.op = "synreply" /\ x.o = o /\ x.arg = f
    BY <1>2, SessionAssumption DEF Do, Ops, FlagOps, Flags
<1>4. << x >> \in Seq(Ops) /\ Shape(<< x >>) /\ Elems(<< x >>) = {x}
    BY <1>3, SingleShape
<1>5. Quiet(b) /\ (Fin(f) => Do("wflag", o, "closed", 0) \in Elems(b))
    BY QuietClose, QuietConcat DEF Errors, When
<1> HIDE DEF b
<1>6. b \in Seq(Ops) /\ Shape(b) /\ \A w \in Elems(b) : w.op \notin WOps
    BY <1>5, QuietSays DEF Quiet
<1>7. PICK more : more = << x >> \o b
    OBVIOUS
<1>8. more \in Seq(Ops) /\ Elems(more) = {x} \cup Elems(b) /\ Shape(more)
  <2>1. PICK s \in Seq(Ops) : s = << x >>
    BY <1>4
  <2>2. Shape(s) /\ Elems(s) = {x} /\ \A y \in Elems(s) : y.op # "unlock"
    BY <1>3, <1>4, <2>1
  <2>3. Shape(s \o b)
    BY <1>6, <2>2, ShapeConcat
  <2>4. s \o b \in Seq(Ops) /\ Elems(s \o b) = Elems(s) \cup Elems(b)
    BY <1>6, ElemsConcat
  <2> QED
    BY <1>7, <2>1, <2>2, <2>3, <2>4
<1>9. Written(o) /\ Writer(o) \in Threads
    BY ThreadsType DEF Wire
<1>10. out[o] = "none"
    BY <1>1, <1>9 DEF Written
<1>11. Begin(Writer(o), more) /\ Goes(Writer(o), more)
    BY <1>1, <1>2, <1>7, <1>8, <1>9 DEF Goes
<1>12. Due(Writer(o), "synreply", o)'
    BY <1>0, <1>3, <1>8, <1>11, DueNew
<1>13. Fin(f) => FinDone(o)'
  <2>1. Do("wflag", o, "closed", 0).op = "wflag" /\ Do("wflag", o, "closed", 0).o = o
    BY DEF Do
  <2>2. Fin(f) => Due(Writer(o), "wflag", o)'
    BY <1>0, <1>5, <1>8, <1>11, <2>1, DueNew
  <2> QED
    BY <2>2 DEF FinDone
<1>14. wready'[o] /\ \A p \in Streams : p # o => Same(p)
    BY <1>0, <1>1 DEF Same
<1>15. Written(o)'
    BY <1>1, <1>9, <1>10, <1>12, <1>14 DEF Written
<1>16. Owned(Writer(o), x)' /\ Says(x)'
  <2>1. Says(x)'
    BY <1>1, <1>3, <1>10, <1>13, <1>14 DEF Says
  <2>2. Owned(Writer(o), x)'
    BY <1>3 DEF Owned, HoldOps
  <2> QED
    BY <2>1, <2>2
<1>17. \A w \in Elems(more) : Owned(Writer(o), w)' /\ Says(w)'
    BY <1>5, <1>8, <1>16, QuietSays
<1> QED
    BY <1>0, <1>1, <1>8, <1>9, <1>11, <1>14, <1>15, <1>17, BeginsOn

\* Stream.Write and Stream.Close.
LEMMA WriteCallWire ==
    ASSUME IInv, Wire, NEW o \in Streams, (\E k \in Lens : Write(o, k)) \/ Close(o)
    PROVE  Wire'
<1>0. TypeOK /\ out \in [Streams -> {"none", "syn", "fin", "bad"}]
    BY DEF IInv, TypeOK
<1>1. /\ life[o] = "open" /\ todo[Writer(o)] = <<>>
      /\ out' = out /\ id' = id /\ life' = life /\ wclosed' = wclosed /\ wready' = wready
      /\ openMu' = openMu /\ nextSynId' = nextSynId /\ lastSyn' = lastSyn
    BY Zenon DEF Write, Close, Call, Begin, sessVars, flagVars, histVars
<1>2. Written(o) /\ Writer(o) \in Threads /\ \A p \in Streams : Same(p)
    BY <1>1, ThreadsType DEF Wire, Same
<1>3. \A op : ~Due(Writer(o), op, o)
    BY <1>1 DEF Due
<1>4. /\ out[o] = "fin" => wclosed[o]
      /\ wready[o] => out[o] # "none"
    BY <1>1, <1>2, <1>3 DEF Written, FinDone
<1>5. ASSUME NEW k \in Lens, Write(o, k) PROVE Wire'
  <2>1. PICK x : x = Do("wdata", o, "-", k)
    OBVIOUS
  <2>2. x \in Ops /\ x.op = "wdata" /\ x.o = o
    BY <2>1, SessionAssumption DEF Do, Ops, FlagOps, Flags
  <2>3. << x >> \in Seq(Ops) /\ Shape(<< x >>) /\ Elems(<< x >>) = {x}
    BY <2>2, SingleShape
  <2>4. Begin(Writer(o), << x >>)
    BY <1>5, <2>1 DEF Write, Call
  <2>5. Says(x)'
    BY <1>1, <1>4, <2>2 DEF Says
  <2>6. Owned(Writer(o), x)'
    BY <2>2 DEF Owned, HoldOps
  <2>7. \A y \in Elems(<< x >>) : Owned(Writer(o), y)' /\ Says(y)'
    BY <2>3, <2>5, <2>6
  <2> QED
    BY <1>0, <1>1, <1>2, <2>3, <2>4, <2>7, BeginsOn
<1>6. CASE Close(o)
  <2> DEFINE b == WClose(o, "closed")
  <2>1. PICK x : x = Do("fin", o, "F", 0)
    OBVIOUS
  <2>2. x \in Ops /\ x.op = "fin" /\ x.o = o
    BY <2>1, SessionAssumption DEF Do, Ops, FlagOps, Flags
  <2>3. << x >> \in Seq(Ops) /\ Shape(<< x >>) /\ Elems(<< x >>) = {x}
    BY <2>2, SingleShape
  <2>4. Quiet(b) /\ Do("wflag", o, "closed", 0) \in Elems(b)
    BY QuietClose DEF Errors
  <2>5. Begin(Writer(o), << x >> \o b) /\ ~wclosed[o] /\ wready[o]
    BY <1>6, <2>1 DEF Close, Call
  <2> HIDE DEF b
  <2>6. b \in Seq(Ops) /\ Shape(b) /\ \A w \in Elems(b) : w.op \notin WOps
    BY <2>4, QuietSays DEF Quiet
  <2>7. PICK more : more = << x >> \o b
    OBVIOUS
  <2>8. more \in Seq(Ops) /\ Elems(more) = {x} \cup Elems(b) /\ Shape(more)
    <3>1. PICK s \in Seq(Ops) : s = << x >>
      BY <2>3
    <3>2. Shape(s) /\ Elems(s) = {x} /\ \A y \in Elems(s) : y.op # "unlock"
      BY <2>2, <2>3, <3>1
    <3>3. Shape(s \o b)
      BY <2>6, <3>2, ShapeConcat
    <3>4. s \o b \in Seq(Ops) /\ Elems(s \o b) = Elems(s) \cup Elems(b)
      BY <2>6, ElemsConcat
    <3> QED
      BY <2>7, <3>1, <3>2, <3>3, <3>4
  <2>9. Begin(Writer(o), more) /\ Goes(Writer(o), more)
    BY <1>2, <2>5, <2>7, <2>8 DEF Goes
  <2>10. FinDone(o)'
    <3>1. Do("wflag", o, "closed", 0).op = "wflag" /\ Do("wflag", o, "closed", 0).o = o
      BY DEF Do
    <3>2. Due(Writer(o), "wflag", o)'
      BY <1>0, <2>4, <2>8, <2>9, <3>1, DueNew
    <3> QED
      BY <3>2 DEF FinDone
  <2>11. out[o] = "syn"
    BY <1>0, <1>2, <1>4, <2>5 DEF Written
  <2>12. Says(x)'
    BY <1>1, <2>2, <2>10, <2>11 DEF Says
  <2>13. Owned(Writer(o), x)'
    BY <2>2 DEF Owned, HoldOps
  <2>14. \A w \in Elems(more) : Owned(Writer(o), w)' /\ Says(w)'
    BY <2>4, <2>8, <2>12, <2>13, QuietSays
  <2> QED
    BY <1>0, <1>1, <1>2, <2>8, <2>9, <2>14, BeginsOn
<1> QED
    BY <1>5, <1>6

\* Stream.Header.
LEMMA HeaderWire ==
    ASSUME IInv, Wire, NEW o \in Streams, Header(o)
    PROVE  Wire'
<1>0. TypeOK
    BY DEF IInv
<1>1. /\ Begin(Reader(o), << Do("recv", o, "-", 0), Do("unreply", o, "-", 0) >>)
      /\ out' = out /\ id' = id /\ life' = life /\ wclosed' = wclosed /\ wready' = wready
      /\ openMu' = openMu /\ nextSynId' = nextSynId /\ lastSyn' = lastSyn
    BY Zenon DEF Header, Call, sessVars, flagVars, histVars
<1>2. PICK x, y : x = Do("recv", o, "-", 0) /\ y = Do("unreply", o, "-", 0)
    OBVIOUS
<1>3. x \in Ops /\ x.op = "recv" /\ x.o = o /\ y \in Ops /\ y.op = "unreply" /\ y.o = o
    BY <1>2, SessionAssumption DEF Do, Ops, FlagOps, Flags
<1>4. << x, y >> \in Seq(Ops) /\ DOMAIN << x, y >> = {1, 2} /\ Len(<< x, y >>) = 2
      /\ << x, y >>[1] = x /\ << x, y >>[2] = y
    BY <1>3
<1>5. Elems(<< x, y >>) = {x, y} /\ Shape(<< x, y >>)
    BY <1>3, <1>4 DEF Elems, Shape, WOps
<1>6. \A p \in Streams : Same(p)
    BY <1>1 DEF Same
<1>7. \A w \in Elems(<< x, y >>) : Owned(Reader(o), w)' /\ Says(w)'
    BY <1>3, <1>5 DEF Owned, Says, WOps, HoldOps
<1> QED
    BY <1>0, <1>1, <1>2, <1>4, <1>5, <1>6, <1>7, ThreadsType, BeginsOn

\* A call keeps the invariant.
LEMMA CallWire ==
    ASSUME IInv, Wire, NEW o \in Streams, Calls(o)
    PROVE  Wire'
<1>0. TypeOK
    BY DEF IInv
<1>1. CASE Reset(o) \/ \E k \in Lens : Read(o, k)
  <2>1. /\ out' = out /\ id' = id /\ life' = life /\ wclosed' = wclosed /\ wready' = wready
        /\ openMu' = openMu /\ nextSynId' = nextSynId /\ lastSyn' = lastSyn
    BY <1>1, Zenon DEF Reset, Read, Call, sessVars, flagVars, histVars
  <2>2. \A k \in Lens : Quiet(<< Do("pread", o, "-", k) >>)
    <3>0. \A k \in Lens : k \in 0..(2 * MaxInt + 1)
      BY SessionAssumption
    <3>1. \A k \in Lens : Do("pread", o, "-", k) \in Ops /\ Do("pread", o, "-", k).op = "pread"
      BY <3>0 DEF Do, Ops, FlagOps, Flags
    <3> QED
      BY <3>1, QuietSingle DEF QuietOps
  <2>3. PICK more : Quiet(more) /\ Begin(Reader(o), more)
    BY <1>1, <2>2, QuietClose DEF Reset, Read, Call, Errors
  <2>4. Goes(Reader(o), more) /\ todo[Reader(o)] = <<>>
    BY <2>3, ThreadsType DEF Goes, Quiet, Begin
  <2> QED
    BY <1>0, <2>1, <2>3, <2>4, QuietKeeps
<1> QED
    BY <1>1, OpenWire, ReplyWire, WriteCallWire, HeaderWire DEF Calls

\* A frame that is accepted as a new stream.
LEMMA SynStreamWire ==
    ASSUME IInv, Wire, NEW o \in Remotes, NEW i \in WireIds, NEW f \in Flags,
           handleSynStream(o, i, f)
    PROVE  Wire'
<1>0. TypeOK /\ Fresh /\ id \in [Streams -> Nat]
    BY DEF IInv, TypeOK
<1>1. /\ id[o] = 0 /\ id' = [id EXCEPT ![o] = i]
      /\ Begin(ReadLoop, When(Uni(f), WClose(o, "closed")) \o When(Fin(f), RClose(o, "EOF"))
                         \o << Do("handle", o, "-", 0) >>)
      /\ out' = out /\ life' = life /\ wclosed' = wclosed /\ wready' = wready
      /\ openMu' = openMu /\ nextSynId' = nextSynId /\ lastSyn' = lastSyn
    BY Zenon DEF handleSynStream, Receive, sessVars, histVars
<1>2. o \in Streams /\ ReadLoop \in Threads
    BY ThreadsType DEF Streams
<1>3. life[o] = "new" /\ Written(o)
    BY <1>0, <1>1, <1>2 DEF Fresh, Wire
<1>4. ~wready[o] /\ out[o] = "none"
    BY <1>3 DEF Written
<1>5. PICK x : x = Do("handle", o, "-", 0)
    OBVIOUS
<1>6. x \in Ops /\ x.op = "handle" /\ x.o = o
    BY <1>2, <1>5, SessionAssumption DEF Do, Ops, FlagOps, Flags
<1>7. << x >> \in Seq(Ops) /\ Shape(<< x >>) /\ Elems(<< x >>) = {x}
    BY <1>6, SingleShape
<1>8. PICK a : a = When(Uni(f), WClose(o, "closed")) \o When(Fin(f), RClose(o, "EOF"))
    OBVIOUS
<1>9. Quiet(a)
    BY <1>2, <1>8, QuietClose, QuietConcat DEF Errors
<1>10. a \in Seq(Ops) /\ Shape(a) /\ \A w \in Elems(a) : w.op \notin WOps /\ w.op # "unlock"
    BY <1>9, QuietSays DEF Quiet
<1>11. PICK more : more = a \o << x >>
    OBVIOUS
<1>12. more \in Seq(Ops) /\ Elems(more) = Elems(a) \cup {x} /\ Shape(more)
  <2>1. PICK s \in Seq(Ops) : s = << x >>
    BY <1>7
  <2>2. Shape(s) /\ Elems(s) = {x}
    BY <1>7, <2>1
  <2>3. Shape(a \o s)
    BY <1>10, <2>2, ShapeConcat
  <2>4. a \o s \in Seq(Ops) /\ Elems(a \o s) = Elems(a) \cup Elems(s)
    BY <1>10, ElemsConcat
  <2> QED
    BY <1>11, <2>1, <2>2, <2>3, <2>4
<1>13. Begin(ReadLoop, more) /\ Goes(ReadLoop, more) /\ todo[ReadLoop] = <<>>
    BY <1>1, <1>2, <1>5, <1>8, <1>11, <1>12 DEF Goes, Begin
<1>14. \A p \in Streams : p # o => Same(p)
    BY <1>0, <1>1, <1>2 DEF Same
<1>15. Written(o)'
    BY <1>1, <1>3, <1>4 DEF Written
<1>16. \A w \in Elems(more) : Owned(ReadLoop, w)' /\ Says(w)'
  <2>1. Owned(ReadLoop, x)' /\ Says(x)'
    BY <1>6 DEF Owned, Says, WOps, HoldOps
  <2> QED
    BY <1>9, <1>12, <2>1, QuietSays
<1>17. ASSUME NEW u, NEW y, Stays(ReadLoop, u, y), y.o = o PROVE Owned(u, y)' /\ Says(y)'
  <2>1. Owned(u, y) /\ Says(y)
    BY <1>17 DEF Stays, Wire
  <2>2. y.op \notin WOps
    BY <1>3, <1>17, <2>1, <1>4 DEF Says, WOps
  <2> QED
    BY <1>1, <2>1, <2>2, NonWriter
<1>18. Rest(ReadLoop) = {} /\ lastSyn' < nextSynId'
    BY <1>1, <1>13 DEF Rest, Wire
<1> QED
    BY <1>0, <1>1, <1>2, <1>12, <1>13, <1>14, <1>15, <1>16, <1>17, <1>18, OneStream

\* A frame keeps the invariant.
LEMMA FrameWire ==
    ASSUME IInv, Wire, handleRead
    PROVE  Wire'
<1>0. TypeOK /\ ReadLoop \in Threads
    BY ThreadsType DEF IInv
<1>1. CASE \E i \in WireIds : \E o \in Remotes, f \in Flags : handleSynStream(o, i, f)
    BY <1>1, SynStreamWire
<1> DEFINE Others ==
        \/ IgnoreFrame \/ AnswerPing
        \/ \E v \in Settings : handleSettings(v)
        \/ \E i \in WireIds :
              \/ RefuseSynStream(i)
              \/ \E f \in {"-", "F"} : handleSynReply(i, f)
              \/ \E u \in Deltas : handleWindowUpdate(i, u)
              \/ \E k \in Lens, f \in {"-", "F"} : handleData(i, k, f)
<1>2. ASSUME Others PROVE Wire'
  <2>1. /\ out' = out /\ id' = id /\ life' = life /\ wclosed' = wclosed /\ wready' = wready
        /\ openMu' = openMu /\ nextSynId' = nextSynId /\ lastSyn' = lastSyn
    BY <1>2, Zenon DEF IgnoreFrame, AnswerPing, handleSettings, RefuseSynStream, handleSynReply,
       handleWindowUpdate, handleData, sessVars, flagVars, histVars
  <2>2. \A o \in Streams, op \in {"offer", "inc", "rcheck"}, g \in Flags,
            n \in 0..(2 * MaxInt + 1) : Quiet(<< Do(op, o, g, n) >>)
    <3>1. \A o \in Streams, op \in {"offer", "inc", "rcheck"}, g \in Flags,
            n \in 0..(2 * MaxInt + 1) :
               Do(op, o, g, n) \in Ops /\ Do(op, o, g, n).op \in QuietOps
      BY DEF Do, Ops, FlagOps, QuietOps
    <3> QED
      BY <3>1, QuietSingle
  <2>3. /\ 0 \in 0..(2 * MaxInt + 1) /\ "-" \in Flags /\ "F" \in Flags
        /\ \A n \in Lens \cup Deltas : n \in 0..(2 * MaxInt + 1)
        /\ \A i : \A o \in get(i) : o \in Streams
    BY <1>0, SessionAssumption DEF Flags, get, TypeOK
  <2>4. \E more : Quiet(more) /\ Receive(more)
    <3>0. CASE Receive(<<>>)
      BY <3>0, QuietSingle
    <3>1. CASE IgnoreFrame \/ AnswerPing \/ \E v \in Settings : handleSettings(v)
      BY <3>0, <3>1 DEF IgnoreFrame, AnswerPing, handleSettings
    <3>2. CASE \E i \in WireIds : RefuseSynStream(i)
      BY <3>0, <3>2 DEF RefuseSynStream
    <3>3. CASE \E i \in WireIds : \E f \in {"-", "F"} : handleSynReply(i, f)
      BY <3>0, <3>3, <2>2, <2>3 DEF handleSynReply
    <3>4. CASE \E i \in WireIds : \E u \in Deltas : handleWindowUpdate(i, u)
      BY <3>0, <3>4, <2>2, <2>3 DEF handleWindowUpdate
    <3>5. CASE \E i \in WireIds : \E k \in Lens, f \in {"-", "F"} : handleData(i, k, f)
      BY <3>0, <3>5, <2>2, <2>3 DEF handleData
    <3> QED
      BY <1>2, <3>1, <3>2, <3>3, <3>4, <3>5
  <2>5. PICK more : Quiet(more) /\ Receive(more)
    BY <2>4
  <2>6. Goes(ReadLoop, more) /\ todo[ReadLoop] = <<>>
    BY <1>0, <2>5 DEF Goes, Quiet, Begin, Receive
  <2> QED
    BY <1>0, <2>1, <2>5, <2>6, QuietKeeps
<1> QED
    BY <1>1, <1>2 DEF handleRead

\* The end of the read loop, and the teardown, keep the invariant.
LEMMA TeardownWire ==
    ASSUME IInv, Wire, ReadFails \/ Teardown \/ SpawnedWrite \/ UNCHANGED vars
    PROVE  Wire'
<1>0. TypeOK /\ ReadLoop \in Threads
    BY ThreadsType DEF IInv
<1>1. /\ out' = out /\ id' = id /\ life' = life /\ wclosed' = wclosed /\ wready' = wready
      /\ openMu' = openMu /\ nextSynId' = nextSynId /\ lastSyn' = lastSyn
    BY Zenon DEF ReadFails, Teardown, TeardownStream, TeardownEnd, SpawnedWrite, vars,
                 sessVars, flagVars, histVars
<1>2. CASE todo' = todo
    BY <1>1, <1>2 DEF Wire, Shape, Work, Owned, Says, Written, FinDone, Due
<1>3. ASSUME NEW o \in victims, TeardownStream(o) PROVE Wire'
  <2>1. o \in Streams
    BY <1>0 DEF TypeOK
  <2> DEFINE c == << Do("nclose", o, "closed", 0), Do("nilreply", o, "-", 0) >>
  <2>2. /\ Do("nclose", o, "closed", 0) \in Ops /\ Do("nclose", o, "closed", 0).op \in QuietOps
        /\ Do("nilreply", o, "-", 0) \in Ops /\ Do("nilreply", o, "-", 0).op \in QuietOps
    BY <2>1, SessionAssumption DEF Do, Ops, CloseOps, FlagOps, QuietOps, Errors, Flags
  <2>3. c = << Do("nclose", o, "closed", 0) >> \o << Do("nilreply", o, "-", 0) >>
    OBVIOUS
  <2>4. Quiet(c)
    BY <2>2, <2>3, QuietSingle, QuietConcat
  <2>5. Begin(ReadLoop, RClose(o, "closed") \o c)
    BY <1>3 DEF TeardownStream
  <2> HIDE DEF c
  <2>6. PICK more : Quiet(more) /\ Begin(ReadLoop, more)
    BY <2>1, <2>4, <2>5, QuietClose, QuietConcat DEF Errors
  <2>7. Goes(ReadLoop, more) /\ todo[ReadLoop] = <<>>
    BY <1>0, <2>6 DEF Goes, Quiet, Begin
  <2> QED
    BY <1>0, <1>1, <2>6, <2>7, QuietKeeps
<1>4. CASE ReadFails \/ TeardownEnd \/ SpawnedWrite \/ UNCHANGED vars
  <2>1. todo' = todo
    BY <1>4, Zenon DEF ReadFails, TeardownEnd, SpawnedWrite, vars
  <2> QED
    BY <1>2, <2>1
<1> QED
    BY <1>3, <1>4 DEF Teardown

\* Every step keeps the invariant.
LEMMA NextWire ==
    ASSUME IInv, Wire, [Next]_vars
    PROVE  Wire'
    BY StepWire, CallWire, FrameWire, TeardownWire DEF Next

\* It holds at the start.
LEMMA InitWire == Init => Wire
<1> SUFFICES ASSUME Init PROVE Wire
    OBVIOUS
<1>1. /\ \A t \in Threads : todo[t] = <<>>
      /\ \A o \in Streams : out[o] = "none" /\ life[o] = "new" /\ ~wready[o]
      /\ lastSyn = 0 /\ nextSynId \in {1, 2}
    BY DEF Init
<1>2. \A t \in Threads : Work(t) = {} /\ Shape(todo[t])
    BY <1>1 DEF Work, Elems, Shape
<1>3. \A o \in Streams : Written(o)
    BY <1>1 DEF Written
<1>4. lastSyn < nextSynId
    BY <1>1
<1> QED
    BY <1>2, <1>3, <1>4 DEF Wire

--------------------------------------------------------------------------------

\* Every stream writes one SYN frame, then DATA, then one FLAG_FIN, whoever
\* resets it meanwhile (session.go:329-405).  The flags are tested before they
\* are set: what keeps the order is that the calls that write a stream are made
\* by one goroutine, and that Open gives the stream away after its SYN_STREAM.
THEOREM FramesInOrder == Spec => []WireOrder
<1>1. Wire => WireOrder
    BY DEF Wire, Written, WireOrder
<1>2. IInv /\ Wire /\ [Next]_vars => Wire'
    BY NextWire
<1> QED
    BY <1>1, <1>2, InitWire, Invariant, PTL DEF Spec

\* SYN_STREAM frames are written in the order of their ids, however many calls
\* of Open run at once: from the assignment of an id to the writing of its frame
\* openMu is held, so every id given out later is larger than the last one
\* written (session.go:253-257).
THEOREM SynFramesInOrder == Spec => SynOrder
<1>1. ASSUME IInv, Wire, [Next]_vars PROVE lastSyn' # lastSyn => lastSyn' > lastSyn
  <2>1. CASE \E t \in Threads : OpenWriteSyn(t)
    BY <1>1, <2>1, OpenWriteSynWire
  <2>2. CASE \E t \in Threads : Step(t) /\ ~OpenWriteSyn(t)
    <3>1. PICK t \in Threads : Step(t) /\ ~OpenWriteSyn(t)
      BY <2>2
    <3>2. CASE Closings(t)
      BY <3>2, Zenon DEF Closings, SetRClosed, SetWClosed, ClosePipe, CloseWnd, maybeRemove,
         histVars
    <3>3. CASE Opening(t)
      BY <3>1, <3>3, Zenon DEF Opening, OpenLock, OpenAdd, OpenMakeReply, OpenUnlock, histVars
    <3>4. CASE StreamSteps(t)
      <4>1. CASE HeaderReceive(t) \/ HeaderForget(t) \/ ReplyWrite(t) \/ WriteCheck(t)
        BY <4>1, Zenon DEF HeaderReceive, HeaderForget, ReplyWrite, WriteCheck, histVars
      <4>2. CASE WriteDec(t) \/ WriteFrameData(t) \/ CloseWriteFin(t) \/ WriteRst(t)
        BY <4>2, Zenon DEF WriteDec, WriteFrameData, CloseWriteFin, WriteRst, histVars
      <4>3. CASE ReadPipe(t) \/ updateWindow(t)
        BY <4>3, Zenon DEF ReadPipe, updateWindow, histVars
      <4> QED
        BY <3>4, <4>1, <4>2, <4>3 DEF StreamSteps
    <3>5. CASE ReadSteps(t)
      BY <3>5, Zenon DEF ReadSteps, StartHandler, OfferReply, WindowInc, DataCheck, DataWrite,
         TeardownReply, histVars
    <3> QED
      BY <3>1, <3>2, <3>3, <3>4, <3>5 DEF Step
  <2>3. CASE (\E o \in Streams : Calls(o)) \/ handleRead
    <3>1. CASE \E o \in Streams : Calls(o)
      BY <3>1, Zenon DEF Calls, Open, Reply, Write, Read, Header, Close, Reset, histVars
    <3>2. CASE handleRead
      <4>1. lastSyn' = lastSyn
        BY <3>2, Zenon DEF handleRead, IgnoreFrame, AnswerPing, handleSettings, RefuseSynStream,
           handleSynStream, handleSynReply, handleWindowUpdate, handleData, histVars
      <4> QED
        BY <4>1
    <3> QED
      BY <2>3, <3>1, <3>2
  <2>4. CASE SpawnedWrite \/ ReadFails \/ Teardown \/ UNCHANGED vars
    <3>1. lastSyn' = lastSyn
      BY <2>4, Zenon DEF SpawnedWrite, ReadFails, Teardown, TeardownStream, TeardownEnd,
         vars, histVars
    <3> QED
      BY <3>1
  <2> QED
    BY <1>1, <2>1, <2>2, <2>3, <2>4 DEF Next
<1>2. IInv /\ Wire /\ [Next]_vars => (lastSyn' # lastSyn => lastSyn' > lastSyn)
    BY <1>1
<1>3. IInv /\ Wire /\ [Next]_vars => Wire'
    BY NextWire
<1> QED
    BY <1>2, <1>3, InitWire, Invariant, PTL DEF Spec, SynOrder

--------------------------------------------------------------------------------
\* The calls of Header.

\* Work that waits for no reply.
NoRecv(s) == s \in Seq(Ops) /\ \A x \in Elems(s) : x.op # "recv"

\* Quiet work, one operation, concatenations and optional parts.
LEMMA NoRecvFrom ==
    /\ \A s : Quiet(s) => NoRecv(s)
    /\ \A x \in Ops : x.op # "recv" => NoRecv(<< x >>)
    /\ \A s, u : NoRecv(s) /\ NoRecv(u) => NoRecv(s \o u)
    /\ \A s, b : NoRecv(s) => NoRecv(When(b, s))
<1>1. \A s : Quiet(s) => NoRecv(s)
    BY QuietSays DEF Quiet, NoRecv
<1>2. \A x \in Ops : x.op # "recv" => NoRecv(<< x >>)
    BY SingleShape DEF NoRecv
<1>3. ASSUME NEW s, NEW u, NoRecv(s), NoRecv(u) PROVE NoRecv(s \o u)
  <2>1. s \in Seq(Ops) /\ u \in Seq(Ops) /\ s \o u \in Seq(Ops)
    BY <1>3 DEF NoRecv
  <2>2. Elems(s \o u) = Elems(s) \cup Elems(u)
    BY <2>1, ElemsConcat
  <2> QED
    BY <1>3, <2>1, <2>2 DEF NoRecv
<1>4. \A s, b : NoRecv(s) => NoRecv(When(b, s))
    BY <1>1, QuietSingle DEF When
<1> QED
    BY <1>1, <1>2, <1>3, <1>4

\* Two operations.
LEMMA NoRecvPair ==
    ASSUME NEW x \in Ops, NEW y \in Ops, x.op # "recv", y.op # "recv"
    PROVE  NoRecv(<< x, y >>)
<1>1. << x, y >> \in Seq(Ops) /\ DOMAIN << x, y >> = {1, 2}
      /\ << x, y >>[1] = x /\ << x, y >>[2] = y
    OBVIOUS
<1>2. Elems(<< x, y >>) = {x, y}
    BY <1>1 DEF Elems
<1> QED
    BY <1>1, <1>2 DEF NoRecv

\* Only a call of Header waits for a reply, not an operation.
LEMMA StepNoRecv ==
    ASSUME TypeOK, NEW t \in Threads, Step(t)
    PROVE  todo[t] # <<>> /\ \E more : NoRecv(more) /\ Goes(t, more)
<1>1. CASE \/ Closings(t) \/ OpenMakeReply(t) \/ HeaderReceive(t) \/ HeaderForget(t)
           \/ WriteRst(t) \/ ReadPipe(t) \/ updateWindow(t) \/ OfferReply(t) \/ WindowInc(t)
           \/ DataCheck(t) \/ DataWrite(t) \/ TeardownReply(t)
    BY <1>1, QuietMoves, NoRecvFrom
<1> DEFINE Others == \/ OpenLock(t) \/ OpenAdd(t) \/ OpenWriteSyn(t) \/ OpenUnlock(t)
                     \/ ReplyWrite(t) \/ WriteCheck(t) \/ WriteDec(t) \/ WriteFrameData(t)
                     \/ CloseWriteFin(t) \/ StartHandler(t)
<1>2. ASSUME Others PROVE todo[t] # <<>> /\ \E more : NoRecv(more) /\ Goes(t, more)
  <2>0. /\ todo[t] # <<>>
        /\ Cur(t).op \in {"lock", "add", "syn", "unlock", "synreply", "wdata", "dec",
                          "data", "fin", "handle"}
    BY <1>2 DEF OpenLock, OpenAdd, OpenWriteSyn, OpenUnlock, ReplyWrite, WriteCheck, WriteDec,
                WriteFrameData, CloseWriteFin, StartHandler, At, Cur
  <2>o. PICK o : o = Cur(t).o
    OBVIOUS
  <2>f. PICK f : f = Cur(t).arg
    OBVIOUS
  <2>k. PICK k : k = Cur(t).k
    OBVIOUS
  <2>1. o \in Streams /\ f \in Flags /\ k \in 0..(2 * MaxInt + 1)
        /\ 0 \in 0..(2 * MaxInt + 1) /\ "-" \in Flags /\ MaxInt \in Nat
    BY <2>0, <2>o, <2>f, <2>k, CurType, SessionAssumption DEF CloseOps, Flags
  <2>2. \A op \in (OpenOps \cup FlagOps) \ {"recv"} : \A g \in Flags :
           \A n \in 0..(2 * MaxInt + 1) :
              /\ Do(op, o, g, n) \in Ops /\ Do(op, o, g, n).op # "recv"
              /\ NoRecv(<< Do(op, o, g, n) >>)
    <3>1. \A op \in (OpenOps \cup FlagOps) \ {"recv"} : \A g \in Flags :
           \A n \in 0..(2 * MaxInt + 1) :
              Do(op, o, g, n) \in Ops /\ Do(op, o, g, n).op # "recv"
      BY <2>1 DEF Do, Ops
    <3> QED
      BY <3>1, NoRecvFrom
  <2>3. \A e \in Errors : NoRecv(RClose(o, e)) /\ NoRecv(WClose(o, e))
    BY <2>1, QuietClose, NoRecvFrom
  <2>4. {"add", "syn", "unlock", "mkreply", "dec", "data", "wdata"}
        \subseteq (OpenOps \cup FlagOps) \ {"recv"}
        /\ {"notReadable", "notWritable", "io"} \subseteq Errors
    BY DEF OpenOps, FlagOps, Errors
  <2>5. NoRecv(<<>>) /\ NoRecv(Resetting(o))
    BY <2>1, QuietSingle, QuietClose, NoRecvFrom DEF Errors
  <2>6. \E more : NoRecv(more) /\ Continue(t, more)
    <3>1. CASE OpenLock(t)
      BY <2>o, <2>f, <2>1, <2>2, <2>4, <3>1 DEF OpenLock
    <3>2. CASE OpenAdd(t)
      <4> DEFINE a == IF Uni(f) THEN RClose(o, "notReadable")
                      ELSE << Do("mkreply", o, "-", 0) >>
                 b == When(Fin(f), WClose(o, "notWritable"))
                 c == << Do("syn", o, f, 0), Do("unlock", o, "-", 0) >>
      <4>1. NoRecv(a)
        BY <2>1, <2>2, <2>3, <2>4
      <4>2. NoRecv(b)
        BY <2>3, <2>4, NoRecvFrom
      <4>3. NoRecv(c)
        BY <2>1, <2>2, <2>4, NoRecvPair
      <4>4. Continue(t, << Do("unlock", o, "-", 0) >>) \/ Continue(t, a \o b \o c)
        BY <2>o, <2>f, <3>2 DEF OpenAdd
      <4> HIDE DEF a, b, c
      <4>5. NoRecv(a \o b \o c)
        BY <4>1, <4>2, <4>3, NoRecvFrom
      <4> QED
        BY <2>1, <2>2, <2>4, <4>4, <4>5
    <3>3. CASE OpenWriteSyn(t)
      BY <2>o, <2>3, <2>4, <2>5, <3>3, NoRecvFrom DEF OpenWriteSyn
    <3>4. CASE OpenUnlock(t) \/ ReplyWrite(t) \/ CloseWriteFin(t) \/ StartHandler(t)
      BY <2>5, <3>4 DEF OpenUnlock, ReplyWrite, CloseWriteFin, StartHandler
    <3>5. CASE WriteCheck(t)
      <4>1. NoRecv(<< Do("dec", o, "-", k) >>)
        BY <2>1, <2>2, <2>4
      <4>2. \A b : NoRecv(When(b, << Do("dec", o, "-", k) >>))
        BY <4>1, NoRecvFrom
      <4> QED
        BY <2>o, <2>k, <3>5, <4>2 DEF WriteCheck
    <3>6. CASE WriteDec(t)
      <4> DEFINE n == IF wnd[o] < k THEN wnd[o] ELSE k
      <4>1. \/ Continue(t, Resetting(o))
            \/ wnd[o] >= 1 /\ Continue(t, << Do("data", o, "-", k - n) >>)
        BY <2>o, <2>k, <3>6 DEF WriteDec
      <4>2. wnd[o] >= 1 => k - n \in 0..(2 * MaxInt + 1)
        BY <2>1 DEF TypeOK
      <4> QED
        BY <2>1, <2>2, <2>4, <2>5, <4>1, <4>2
    <3>7. CASE WriteFrameData(t)
      BY <2>o, <2>k, <2>1, <2>2, <2>4, <2>5, <3>7 DEF WriteFrameData
    <3> QED
      BY <1>2, <3>1, <3>2, <3>3, <3>4, <3>5, <3>6, <3>7
  <2> QED
    BY <2>0, <2>6 DEF Goes, NoRecv
<1> QED
    BY <1>1, <1>2 DEF Step, Opening, StreamSteps, ReadSteps

\* What idle goroutines are given to do: only Header waits for a reply.
LEMMA BeginNoRecv ==
    ASSUME TypeOK, (\E o \in Streams : Calls(o)) \/ handleRead
    PROVE  \E t \in Threads, more \in Seq(Ops) :
              /\ Begin(t, more)
              /\ \/ NoRecv(more)
                 \/ \E o \in Streams :
                       more = << Do("recv", o, "-", 0), Do("unreply", o, "-", 0) >>
<1> DEFINE Goal == \E t \in Threads, more \in Seq(Ops) :
              /\ Begin(t, more)
              /\ \/ NoRecv(more)
                 \/ \E o \in Streams :
                       more = << Do("recv", o, "-", 0), Do("unreply", o, "-", 0) >>
<1>1. 0 \in 0..(2 * MaxInt + 1) /\ "-" \in Flags /\ "F" \in Flags
      /\ \A n \in Lens \cup Deltas : n \in 0..(2 * MaxInt + 1)
    BY SessionAssumption DEF Flags
<1>2. \A o \in Streams : \A op \in (OpenOps \cup FlagOps) \ {"recv"} : \A g \in Flags :
         \A n \in 0..(2 * MaxInt + 1) : NoRecv(<< Do(op, o, g, n) >>)
  <2>1. \A o \in Streams : \A op \in (OpenOps \cup FlagOps) \ {"recv"} : \A g \in Flags :
           \A n \in 0..(2 * MaxInt + 1) :
              Do(op, o, g, n) \in Ops /\ Do(op, o, g, n).op # "recv"
    BY DEF Do, Ops
  <2> QED
    BY <2>1, NoRecvFrom
<1>3. \A o \in Streams : \A e \in Errors :
         NoRecv(RClose(o, e)) /\ NoRecv(WClose(o, e)) /\ NoRecv(Resetting(o))
    BY QuietClose, NoRecvFrom
<1>4. {"lock", "synreply", "wdata", "fin", "pread", "handle", "offer", "inc", "rcheck"}
      \subseteq (OpenOps \cup FlagOps) \ {"recv"}
      /\ {"closed", "EOF"} \subseteq Errors
    BY DEF OpenOps, FlagOps, Errors
<1>5. ASSUME NEW t \in Threads, NEW more, NoRecv(more), Begin(t, more) PROVE Goal
    BY <1>5 DEF NoRecv
<1>6. ReadLoop \in Threads /\ \A o \in Streams : Writer(o) \in Threads /\ Reader(o) \in Threads
    BY ThreadsType
<1>7. NoRecv(<<>>)
    BY QuietSingle, NoRecvFrom
<1>8. ASSUME NEW o \in Streams, Calls(o) PROVE Goal
  <2>1. ASSUME NEW f \in Flags, Open(o, f) PROVE Goal
    BY <1>1, <1>2, <1>4, <1>5, <1>6, <2>1 DEF Open
  <2>2. ASSUME NEW f \in {"-", "F"}, Reply(o, f) PROVE Goal
    <3>1. NoRecv(<< Do("synreply", o, f, 0) >>) /\ NoRecv(When(Fin(f), WClose(o, "closed")))
      BY <1>1, <1>2, <1>3, <1>4, NoRecvFrom
    <3> QED
      BY <1>5, <1>6, <2>2, <3>1, NoRecvFrom DEF Reply, Call
  <2>3. ASSUME NEW k \in Lens, Write(o, k) \/ Read(o, k) PROVE Goal
    BY <1>1, <1>2, <1>4, <1>5, <1>6, <2>3 DEF Write, Read, Call
  <2>4. CASE Header(o)
    <3>1. << Do("recv", o, "-", 0), Do("unreply", o, "-", 0) >> \in Seq(Ops)
      BY <1>1 DEF Do, Ops, FlagOps
    <3> QED
      BY <1>6, <2>4, <3>1 DEF Header, Call
  <2>5. CASE Close(o)
    <3>1. NoRecv(<< Do("fin", o, "F", 0) >>) /\ NoRecv(WClose(o, "closed"))
      BY <1>1, <1>2, <1>3, <1>4
    <3> QED
      BY <1>5, <1>6, <2>5, <3>1, NoRecvFrom DEF Close, Call
  <2>6. CASE Reset(o)
    BY <1>3, <1>4, <1>5, <1>6, <2>6 DEF Reset, Call
  <2> QED
    BY <1>8, <2>1, <2>2, <2>3, <2>4, <2>5, <2>6 DEF Calls
<1>9. CASE handleRead
  <2>0. \A i : \A o \in get(i) : o \in Streams
    BY DEF get, TypeOK
  <2>1. ASSUME NEW more, NoRecv(more), Receive(more) PROVE Goal
    BY <1>5, <1>6, <2>1 DEF Receive
  <2>2. CASE IgnoreFrame \/ AnswerPing \/ \E v \in Settings : handleSettings(v)
    BY <1>7, <2>1, <2>2 DEF IgnoreFrame, AnswerPing, handleSettings
  <2>3. CASE \E i \in WireIds : RefuseSynStream(i)
    BY <1>7, <2>1, <2>3 DEF RefuseSynStream
  <2>4. CASE \E i \in WireIds : \E f \in {"-", "F"} : handleSynReply(i, f)
    BY <1>1, <1>2, <1>4, <1>7, <2>0, <2>1, <2>4 DEF handleSynReply
  <2>5. CASE \E i \in WireIds : \E u \in Deltas : handleWindowUpdate(i, u)
    BY <1>1, <1>2, <1>4, <1>7, <2>0, <2>1, <2>5 DEF handleWindowUpdate
  <2>6. CASE \E i \in WireIds : \E k \in Lens, f \in {"-", "F"} : handleData(i, k, f)
    BY <1>1, <1>2, <1>4, <1>7, <2>0, <2>1, <2>6 DEF handleData
  <2>7. ASSUME NEW i \in WireIds, NEW o \in Remotes, NEW f \in Flags, handleSynStream(o, i, f)
        PROVE  Goal
    <3>1. o \in Streams
      BY DEF Streams
    <3>2. /\ NoRecv(When(Uni(f), WClose(o, "closed")))
          /\ NoRecv(When(Fin(f), RClose(o, "EOF")))
          /\ NoRecv(<< Do("handle", o, "-", 0) >>)
      BY <1>1, <1>2, <1>3, <1>4, <3>1, NoRecvFrom
    <3>3. NoRecv(When(Uni(f), WClose(o, "closed")) \o When(Fin(f), RClose(o, "EOF"))
                 \o << Do("handle", o, "-", 0) >>)
      BY <3>2, NoRecvFrom
    <3> QED
      BY <2>1, <2>7, <3>3 DEF handleSynStream
  <2> QED
    BY <1>9, <2>2, <2>3, <2>4, <2>5, <2>6, <2>7 DEF handleRead
<1> QED
    BY <1>8, <1>9

\* The second part of the invariant is kept by whoever moves on.
LEMMA RecvKept ==
    ASSUME TypeOK, HeaderInv, NEW t, NEW more, Goes(t, more),
           \/ NoRecv(more)
           \/ /\ Begin(t, more)
              /\ \E o \in Streams :
                    more = << Do("recv", o, "-", 0), Do("unreply", o, "-", 0) >>
    PROVE  \A u \in Threads : \A x \in Work(u)' : x.op = "recv" =>
              todo'[u] = << Do("recv", x.o, "-", 0), Do("unreply", x.o, "-", 0) >>
<1>0. t \in Threads /\ more \in Seq(Ops) /\ todo \in [Threads -> Seq(Ops)]
    BY DEF Goes, TypeOK
<1>1. /\ \A u \in Threads : u # t => todo'[u] = todo[u] /\ Work(u)' = Work(u)
      /\ Work(t)' = Elems(more) \cup Rest(t)
      /\ Rest(t) \subseteq Work(t)
    BY <1>0, Moves DEF Goes
<1>a. \A o : Do("recv", o, "-", 0).op = "recv" /\ Do("recv", o, "-", 0).o = o
             /\ Do("unreply", o, "-", 0).op = "unreply"
    BY DEF Do
<1>2. ASSUME NEW u \in Threads, u # t, NEW x, x \in Work(u)', x.op = "recv"
      PROVE  todo'[u] = << Do("recv", x.o, "-", 0), Do("unreply", x.o, "-", 0) >>
    BY <1>1, <1>2 DEF HeaderInv
<1>3. ASSUME NEW x \in Rest(t), x.op = "recv" PROVE FALSE
  <2>1. todo[t] = << Do("recv", x.o, "-", 0), Do("unreply", x.o, "-", 0) >>
    BY <1>0, <1>1, <1>3 DEF HeaderInv
  <2>2. PICK a, b : a = Do("recv", x.o, "-", 0) /\ b = Do("unreply", x.o, "-", 0)
    OBVIOUS
  <2>3. Tail(<< a, b >>) = << b >> /\ << a, b >> # <<>>
    OBVIOUS
  <2>4. Rest(t) = {b}
    BY <2>1, <2>2, <2>3 DEF Rest, Elems
  <2> QED
    BY <1>a, <1>3, <2>2, <2>4
<1>4. ASSUME NEW x, x \in Work(t)', x.op = "recv"
      PROVE  todo'[t] = << Do("recv", x.o, "-", 0), Do("unreply", x.o, "-", 0) >>
  <2>1. x \in Elems(more)
    BY <1>1, <1>3, <1>4
  <2>2. PICK o \in Streams : /\ Begin(t, more)
                    /\ more = << Do("recv", o, "-", 0), Do("unreply", o, "-", 0) >>
    BY <1>4, <2>1 DEF NoRecv
  <2>3. PICK a, b : a = Do("recv", o, "-", 0) /\ b = Do("unreply", o, "-", 0)
    OBVIOUS
  <2>4. Elems(<< a, b >>) = {a, b}
    BY DEF Elems
  <2>5. x = a
    BY <1>a, <1>4, <2>1, <2>2, <2>3, <2>4
  <2>6. todo'[t] = more
    BY <1>0, <2>2 DEF Begin
  <2> QED
    BY <1>a, <2>2, <2>3, <2>5, <2>6
<1> QED
    BY <1>2, <1>4

\* A stream that is not stranded stays so.
LEMMA AnsweredKept ==
    ASSUME TypeOK, NEW t, NEW more, Goes(t, more), NEW o \in Streams, Answered(o),
           o \in victims => o \in victims' \/ Due(ReadLoop, "nilreply", o)',
           reply[o] # "empty" => reply'[o] # "empty" \/ At(Reader(o), "unreply")',
           todo[t] # <<>> /\ t = Reader(o) /\ Cur(t).op = "unreply" => reply'[o] # "empty",
           todo[t] # <<>> /\ Cur(t).op = "nilreply" /\ Cur(t).o = o => reply'[o] # "empty"
    PROVE  Answered(o)'
<1>1. CASE o \in victims \/ reply[o] # "empty"
    BY <1>1 DEF Answered
<1>2. CASE Due(ReadLoop, "nilreply", o)
  <2>1. CASE todo[t] # <<>> /\ Cur(t).op = "nilreply" /\ Cur(t).o = o
    BY <2>1 DEF Answered
  <2>2. CASE ~(todo[t] # <<>> /\ Cur(t).op = "nilreply" /\ Cur(t).o = o)
    <3>1. Due(ReadLoop, "nilreply", o)'
      BY <1>2, <2>2, DueLeft, ThreadsType DEF Goes
    <3> QED
      BY <3>1 DEF Answered
  <2> QED
    BY <2>1, <2>2
<1>3. CASE At(Reader(o), "unreply")
  <2>1. CASE t = Reader(o)
    BY <1>3, <2>1 DEF Answered, At, Cur
  <2>2. CASE t # Reader(o)
    <3>1. todo'[Reader(o)] = todo[Reader(o)]
      BY <2>2, Moves, ThreadsType DEF Goes
    <3>2. At(Reader(o), "unreply")'
      BY <1>3, <3>1 DEF At
    <3> QED
      BY <3>2 DEF Answered
  <2> QED
    BY <2>1, <2>2
<1> QED
    BY <1>1, <1>2, <1>3 DEF Answered

\* What the operations do to the reply channels.
LEMMA StepReply ==
    ASSUME NEW t \in Threads, Step(t)
    PROVE  /\ wasOpen' = wasOpen /\ phase' = phase /\ victims' = victims
           /\ \/ OpenMakeReply(t) \/ HeaderReceive(t) \/ HeaderForget(t)
              \/ OfferReply(t) \/ TeardownReply(t)
              \/ reply' = reply /\ ~At(t, "unreply") /\ ~At(t, "nilreply")
<1> USE DEF At, sessVars, flowVars, histVars
<1>1. CASE Closings(t)
    BY <1>1, Zenon DEF Closings, SetRClosed, SetWClosed, ClosePipe, CloseWnd, maybeRemove
<1>2. CASE OpenLock(t) \/ OpenAdd(t) \/ OpenWriteSyn(t) \/ OpenUnlock(t)
    BY <1>2, Zenon DEF OpenLock, OpenAdd, OpenWriteSyn, OpenUnlock
<1>3. CASE ReplyWrite(t) \/ WriteCheck(t) \/ WriteDec(t) \/ WriteFrameData(t)
           \/ CloseWriteFin(t) \/ WriteRst(t)
    BY <1>3, Zenon DEF ReplyWrite, WriteCheck, WriteDec, WriteFrameData, CloseWriteFin, WriteRst
<1>4. CASE ReadPipe(t) \/ updateWindow(t) \/ StartHandler(t) \/ WindowInc(t)
           \/ DataCheck(t) \/ DataWrite(t)
    BY <1>4, Zenon DEF ReadPipe, updateWindow, StartHandler, WindowInc, DataCheck, DataWrite
<1>5. CASE \/ OpenMakeReply(t) \/ HeaderReceive(t) \/ HeaderForget(t)
           \/ OfferReply(t) \/ TeardownReply(t)
  <2>1. wasOpen' = wasOpen /\ phase' = phase /\ victims' = victims
    BY <1>5, Zenon DEF OpenMakeReply, HeaderReceive, HeaderForget, OfferReply, TeardownReply
  <2> QED
    BY <1>5, <2>1
<1> QED
    BY <1>1, <1>2, <1>3, <1>4, <1>5 DEF Step, Opening, StreamSteps, ReadSteps

\* A stream that was handed out stays so.
LEMMA OpenStays ==
    ASSUME IInv, Wire, NEW t \in Threads, Step(t), NEW o \in Streams, life[o] = "open"
    PROVE  life'[o] = "open"
<1>0. TypeOK /\ AllNamed /\ life \in [Streams -> {"new", "opening", "open", "failed"}]
    BY DEF IInv, TypeOK
<1>1. CASE OpenAdd(t)
  <2>1. todo[t] # <<>> /\ Cur(t).op = "add"
    BY <1>1 DEF OpenAdd, At, Cur
  <2>2. life[Cur(t).o] = "opening"
    BY <1>0, <2>1, CurNamed DEF Named, OpenOps
  <2>3. life' = life \/ life' = [life EXCEPT ![Cur(t).o] = "failed"]
    BY <1>1, Zenon DEF OpenAdd
  <2> QED
    BY <1>0, <2>2, <2>3
<1>2. CASE OpenWriteSyn(t)
  <2>1. todo[t] # <<>> /\ Cur(t).op = "syn"
    BY <1>2 DEF OpenWriteSyn, At, Cur
  <2>2. life[Cur(t).o] = "opening"
    BY <1>0, <2>1, CurWire DEF Says
  <2>3. life' = life \/ life' = [life EXCEPT ![Cur(t).o] = "failed"]
    BY <1>2, Zenon DEF OpenWriteSyn
  <2> QED
    BY <1>0, <2>2, <2>3
<1>3. CASE ~OpenAdd(t) /\ ~OpenWriteSyn(t)
    BY <1>0, <1>3, StepEffect
<1> QED
    BY <1>1, <1>2, <1>3

\* An operation keeps the invariant.
LEMMA StepHeader ==
    ASSUME IInv, Wire, HeaderInv, NEW t \in Threads, Step(t)
    PROVE  HeaderInv'
<1>0. TypeOK /\ wasOpen \subseteq Streams /\ reply \in [Streams -> {"nil", "empty", "full"}]
      /\ todo \in [Threads -> Seq(Ops)]
    BY DEF IInv, TypeOK
<1>1. PICK more : NoRecv(more) /\ Goes(t, more)
    BY <1>0, StepNoRecv
<1>2. /\ todo[t] # <<>> /\ wasOpen' = wasOpen /\ phase' = phase /\ victims' = victims
    BY <1>0, StepNoRecv, StepReply
<1>3. phase' = "done" => todo'[ReadLoop] = <<>>
  <2>1. phase = "done" => t # ReadLoop
    BY <1>2 DEF HeaderInv
  <2> QED
    BY <1>0, <1>1, <1>2, <2>1, Moves, ThreadsType DEF HeaderInv, Goes
<1>c. PICK p : p = Cur(t).o
    OBVIOUS
<1>d. p \in Streams /\ Owned(t, Cur(t))
    BY <1>0, <1>2, <1>c, CurWire
<1>4. ASSUME NEW o \in wasOpen PROVE life'[o] = "open" /\ Answered(o)'
  <2>0. o \in Streams /\ life[o] = "open" /\ Answered(o)
    BY <1>0 DEF HeaderInv
  <2>1. life'[o] = "open"
    BY <2>0, OpenStays
  <2>2. \A a, b : Reader(a) = Reader(b) => a = b
    BY DEF Reader
  <2>3. CASE reply' = reply /\ ~At(t, "unreply") /\ ~At(t, "nilreply")
    BY <1>0, <1>1, <1>2, <2>0, <2>1, <2>3, AnsweredKept DEF At, Cur
  <2>4. CASE OpenMakeReply(t)
    <3>1. Cur(t).op = "mkreply" /\ reply' = [reply EXCEPT ![p] = "empty"]
      BY <1>c, <2>4 DEF OpenMakeReply, At, Cur
    <3>2. o # p
      BY <1>c, <1>d, <2>0, <3>1 DEF Owned
    <3>3. reply'[o] = reply[o]
      BY <1>0, <2>0, <3>1, <3>2
    <3> QED
      BY <1>0, <1>1, <1>2, <2>0, <2>1, <3>1, <3>3, AnsweredKept
  <2>5. CASE HeaderReceive(t)
    <3>1. Cur(t).op = "recv" /\ reply' = [reply EXCEPT ![p] = "empty"] /\ Continue(t, <<>>)
      BY <1>c, <2>5 DEF HeaderReceive, At, Cur
    <3>2. CASE o = p
      <4>1. t = Reader(o)
        BY <1>c, <1>d, <3>1, <3>2 DEF Owned
      <4>2. todo[t] = << Do("recv", o, "-", 0), Do("unreply", o, "-", 0) >>
        <5>1. Cur(t) \in Work(t)
          BY <1>0, <1>2, CurWire
        <5> QED
          BY <1>c, <3>1, <3>2, <5>1 DEF HeaderInv
      <4>3. PICK a, b : a = Do("recv", o, "-", 0) /\ b = Do("unreply", o, "-", 0)
        OBVIOUS
      <4>4. todo'[t] = <<>> \o Tail(<< a, b >>)
        BY <1>0, <3>1, <4>2, <4>3 DEF Continue
      <4>5. <<>> \o Tail(<< a, b >>) = << b >> /\ << b >> # <<>> /\ Head(<< b >>) = b
        OBVIOUS
      <4>6. b.op = "unreply"
        BY <4>3 DEF Do
      <4>7. At(Reader(o), "unreply")'
        BY <4>1, <4>4, <4>5, <4>6 DEF At
      <4> QED
        BY <2>1, <4>7 DEF Answered
    <3>3. CASE o # p
      <4>1. reply'[o] = reply[o]
        BY <1>0, <2>0, <3>1, <3>3
      <4> QED
        BY <1>0, <1>1, <1>2, <2>0, <2>1, <3>1, <4>1, AnsweredKept
    <3> QED
      BY <3>2, <3>3
  <2>6. CASE HeaderForget(t)
    <3>1. Cur(t).op = "unreply" /\ reply' = [reply EXCEPT ![p] = "nil"]
      BY <1>c, <2>6 DEF HeaderForget, At, Cur
    <3>2. t = Reader(p)
      BY <1>c, <1>d, <3>1 DEF Owned
    <3>3. t = Reader(o) => o = p
      BY <2>2, <3>2
    <3>4. reply'[p] = "nil" /\ (o # p => reply'[o] = reply[o])
      BY <1>0, <1>d, <2>0, <3>1
    <3> QED
      BY <1>0, <1>1, <1>2, <2>0, <2>1, <3>1, <3>3, <3>4, AnsweredKept
  <2>7. CASE OfferReply(t)
    <3>1. Cur(t).op = "offer" /\ (reply' = reply \/ reply' = [reply EXCEPT ![p] = "full"])
      BY <1>c, <2>7 DEF OfferReply, At, Cur
    <3>2. reply[o] # "empty" => reply'[o] # "empty"
      BY <1>0, <2>0, <3>1
    <3> QED
      BY <1>0, <1>1, <1>2, <2>0, <2>1, <3>1, <3>2, AnsweredKept
  <2>8. CASE TeardownReply(t)
    <3>1. /\ Cur(t).op = "nilreply"
          /\ reply' = [reply EXCEPT ![p] = IF @ = "empty" THEN "full" ELSE @]
      BY <1>c, <2>8 DEF TeardownReply, At, Cur
    <3>2. (reply[o] # "empty" => reply'[o] # "empty") /\ (o = p => reply'[o] # "empty")
      BY <1>0, <2>0, <3>1
    <3> QED
      BY <1>0, <1>1, <1>2, <1>c, <2>0, <2>1, <3>1, <3>2, AnsweredKept
  <2> QED
    BY <2>3, <2>4, <2>5, <2>6, <2>7, <2>8, StepReply
<1>5. \A u \in Threads : \A x \in Work(u)' : x.op = "recv" =>
         todo'[u] = << Do("recv", x.o, "-", 0), Do("unreply", x.o, "-", 0) >>
    BY <1>0, <1>1, RecvKept
<1>6. \A o \in wasOpen' : life'[o] = "open" /\ Answered(o)'
    BY <1>2, <1>4
<1> QED
    BY <1>3, <1>5, <1>6 DEF HeaderInv

\* Calls and frames keep the invariant.
LEMMA CallHeader ==
    ASSUME IInv, HeaderInv, (\E o \in Streams : Calls(o)) \/ handleRead
    PROVE  HeaderInv'
<1>0. TypeOK /\ wasOpen \subseteq Streams /\ todo \in [Threads -> Seq(Ops)]
      /\ life \in [Streams -> {"new", "opening", "open", "failed"}]
    BY DEF IInv, TypeOK
<1>1. /\ reply' = reply /\ wasOpen' = wasOpen /\ phase' = phase /\ victims' = victims
  <2>1. CASE \E o \in Streams : Calls(o)
    <3>1. PICK o \in Streams : Calls(o)
      BY <2>1
    <3>2. ASSUME NEW f \in Flags, Open(o, f) \/ Reply(o, f)
          PROVE  reply' = reply /\ wasOpen' = wasOpen /\ phase' = phase /\ victims' = victims
      BY <3>2, Zenon DEF Open, Reply, sessVars, flowVars, histVars
    <3>3. ASSUME NEW k \in Lens, Write(o, k) \/ Read(o, k)
          PROVE  reply' = reply /\ wasOpen' = wasOpen /\ phase' = phase /\ victims' = victims
      BY <3>3, Zenon DEF Write, Read, sessVars, flowVars, histVars
    <3>4. CASE Header(o) \/ Close(o) \/ Reset(o)
      BY <3>4, Zenon DEF Header, Close, Reset, sessVars, flowVars, histVars
    <3> QED
      BY <3>1, <3>2, <3>3, <3>4, Zenon DEF Calls, Flags
  <2>2. CASE handleRead
    BY <2>2, Zenon DEF handleRead, IgnoreFrame, AnswerPing, handleSettings, RefuseSynStream,
           handleSynStream, handleSynReply, handleWindowUpdate, handleData,
           sessVars, flowVars, histVars
  <2> QED
    BY <2>1, <2>2
<1>2. \A o \in Streams : life[o] = "open" => life'[o] = "open"
  <2>1. life' = life \/ \E o \in Streams : \E f \in Flags : Open(o, f)
    BY Zenon DEF Calls, Reply, Write, Read, Header, Close, Reset, Call,
           handleRead, IgnoreFrame, AnswerPing, handleSettings, RefuseSynStream,
           handleSynStream, handleSynReply, handleWindowUpdate, handleData, flagVars
  <2> QED
    BY <1>0, <2>1 DEF Open
<1>3. PICK t \in Threads, more \in Seq(Ops) :
              /\ Begin(t, more)
              /\ \/ NoRecv(more)
                 \/ \E o \in Streams :
                       more = << Do("recv", o, "-", 0), Do("unreply", o, "-", 0) >>
    BY <1>0, BeginNoRecv
<1>4. Goes(t, more) /\ todo[t] = <<>>
    BY <1>3 DEF Goes, Begin
<1>5. \A u \in Threads : \A x \in Work(u)' : x.op = "recv" =>
         todo'[u] = << Do("recv", x.o, "-", 0), Do("unreply", x.o, "-", 0) >>
    BY <1>0, <1>3, <1>4, RecvKept
<1>6. \A o \in wasOpen' : life'[o] = "open" /\ Answered(o)'
    BY <1>0, <1>1, <1>2, <1>4, AnsweredKept DEF HeaderInv
<1>7. phase = "done" => todo'[ReadLoop] = todo[ReadLoop]
  <2>1. CASE handleRead
    BY <2>1 DEF handleRead, IgnoreFrame, AnswerPing, handleSettings, RefuseSynStream,
           handleSynStream, handleSynReply, handleWindowUpdate, handleData, Receive
  <2>2. ASSUME NEW o \in Streams, Calls(o) PROVE todo'[ReadLoop] = todo[ReadLoop]
    <3>1. \E u \in {Writer(o), Reader(o)} : \E w : Begin(u, w)
      BY <2>2, Zenon DEF Calls, Open, Reply, Write, Read, Header, Close, Reset, Call
    <3>2. Writer(o) # ReadLoop /\ Reader(o) # ReadLoop
      BY DEF Writer, Reader, ReadLoop
    <3> QED
      BY <1>0, <3>1, <3>2, ThreadsType DEF Begin
  <2> QED
    BY <2>1, <2>2
<1> QED
    BY <1>1, <1>5, <1>6, <1>7 DEF HeaderInv

\* The end of the read loop, and the teardown, keep the invariant.
LEMMA TeardownHeader ==
    ASSUME IInv, HeaderInv, ReadFails \/ Teardown \/ SpawnedWrite \/ UNCHANGED vars
    PROVE  HeaderInv'
<1>0. TypeOK /\ wasOpen \subseteq Streams /\ tbl \subseteq Streams /\ victims \subseteq Streams
      /\ todo \in [Threads -> Seq(Ops)]
    BY DEF IInv, TypeOK
<1>1. life' = life /\ reply' = reply
    BY Zenon DEF ReadFails, Teardown, TeardownStream, TeardownEnd, SpawnedWrite, vars,
                 flagVars, flowVars
<1>2. CASE SpawnedWrite \/ UNCHANGED vars
  <2>1. todo' = todo /\ phase' = phase /\ victims' = victims /\ wasOpen' = wasOpen
    BY <1>2, Zenon DEF SpawnedWrite, vars, sessVars, histVars
  <2> QED
    BY <1>1, <2>1 DEF HeaderInv, Answered, Work, Due, At
<1>3. CASE ReadFails
  <2>1. /\ todo' = todo /\ phase' = "teardown" /\ victims' = tbl
        /\ wasOpen' = {o \in tbl : life[o] = "open"}
    BY <1>3, Zenon DEF ReadFails
  <2>2. \A o \in wasOpen' : life'[o] = "open" /\ Answered(o)'
    BY <1>1, <2>1 DEF Answered
  <2>3. \A u \in Threads : Work(u)' = Work(u) /\ todo'[u] = todo[u]
    BY <2>1 DEF Work
  <2> QED
    BY <2>1, <2>2, <2>3 DEF HeaderInv
<1>4. CASE TeardownEnd
  <2>1. /\ todo' = todo /\ todo[ReadLoop] = <<>> /\ victims' = victims
        /\ wasOpen' = wasOpen
    BY <1>4, Zenon DEF TeardownEnd, histVars
  <2> QED
    BY <1>1, <2>1 DEF HeaderInv, Answered, Work, Due, At
<1>5. ASSUME NEW v \in victims, TeardownStream(v) PROVE HeaderInv'
  <2>1. /\ phase = "teardown" /\ phase' = phase /\ victims' = victims \ {v}
        /\ wasOpen' = wasOpen
    BY <1>5, Zenon DEF TeardownStream, histVars
  <2> DEFINE c == << Do("nclose", v, "closed", 0), Do("nilreply", v, "-", 0) >>
             r == RClose(v, "closed")
  <2>2. /\ Do("nclose", v, "closed", 0) \in Ops /\ Do("nclose", v, "closed", 0).op # "recv"
        /\ Do("nilreply", v, "-", 0) \in Ops /\ Do("nilreply", v, "-", 0).op = "nilreply"
        /\ Do("nilreply", v, "-", 0).o = v
    BY <1>0, SessionAssumption DEF Do, Ops, CloseOps, FlagOps, Errors, Flags
  <2>3. NoRecv(c) /\ Do("nilreply", v, "-", 0) \in Elems(c)
    <3>1. 2 \in DOMAIN c /\ c[2] = Do("nilreply", v, "-", 0)
      OBVIOUS
    <3>2. NoRecv(c)
      BY <2>2, NoRecvPair
    <3> HIDE DEF c
    <3> QED
      BY <3>1, <3>2 DEF Elems
  <2>4. NoRecv(r)
    BY <1>0, QuietClose, NoRecvFrom DEF Errors
  <2>5. Begin(ReadLoop, r \o c)
    BY <1>5 DEF TeardownStream
  <2> HIDE DEF c, r
  <2>6. PICK more : more = r \o c
    OBVIOUS
  <2>7. NoRecv(more) /\ Do("nilreply", v, "-", 0) \in Elems(more)
    BY <2>3, <2>4, <2>6, NoRecvFrom, ElemsConcat DEF NoRecv
  <2>8. Goes(ReadLoop, more) /\ todo[ReadLoop] = <<>>
    BY <2>5, <2>6, <2>7, ThreadsType DEF Goes, NoRecv, Begin
  <2>9. Due(ReadLoop, "nilreply", v)'
    BY <1>0, <2>2, <2>7, <2>8, DueNew
  <2>10. \A o \in wasOpen' : life'[o] = "open" /\ Answered(o)'
    BY <1>0, <1>1, <2>1, <2>8, <2>9, AnsweredKept DEF HeaderInv
  <2>11. \A u \in Threads : \A x \in Work(u)' : x.op = "recv" =>
            todo'[u] = << Do("recv", x.o, "-", 0), Do("unreply", x.o, "-", 0) >>
    BY <1>0, <2>7, <2>8, RecvKept
  <2> QED
    BY <2>1, <2>10, <2>11 DEF HeaderInv
<1> QED
    BY <1>2, <1>3, <1>4, <1>5 DEF Teardown

\* Once the session is done, a call of Header on a stream that had been handed
\* out, and was in the table when the read loop ended, does not wait for ever
\* (session.go:134-137,318-322).  The teardown's send is dropped when the channel
\* is full or nil: then a reply is there, or the call has already had one.
THEOREM HeaderCallsReleased == Spec => []HeaderReleased
<1>1. Init => HeaderInv
  <2>1. ASSUME Init
        PROVE  phase = "loop" /\ wasOpen = {} /\ \A t \in Threads : todo[t] = <<>>
    BY <2>1 DEF Init
  <2>2. ASSUME Init PROVE \A t \in Threads : Work(t) = {}
    BY <2>1, <2>2 DEF Work, Elems
  <2> QED
    BY <2>1, <2>2 DEF HeaderInv
<1>2. IInv /\ Wire /\ HeaderInv /\ [Next]_vars => HeaderInv'
    BY StepHeader, CallHeader, TeardownHeader DEF Next
<1>3. IInv /\ Wire /\ [Next]_vars => Wire'
    BY NextWire
<1>4. ASSUME Release, HeaderInv PROVE HeaderReleased
  <2>1. ASSUME phase = "done", NEW o \in wasOpen, At(Reader(o), "recv")
        PROVE  reply[o] # "empty"
    <3>1. victims = {} /\ todo[ReadLoop] = <<>> /\ Answered(o)
      BY <1>4, <2>1 DEF Release, HeaderInv
    <3>2. ~Due(ReadLoop, "nilreply", o) /\ ~At(Reader(o), "unreply")
      BY <2>1, <3>1 DEF Due, At
    <3> QED
      BY <3>1, <3>2 DEF Answered
  <2> QED
    BY <2>1 DEF HeaderReleased
<1>5. Init => Release
    BY InitRelease
<1>6. IInv /\ Release /\ [Next]_vars => Release'
    BY NextRelease
<1>7. Release /\ HeaderInv => HeaderReleased
    BY <1>4
<1> QED
    BY <1>1, <1>2, <1>3, <1>5, <1>6, <1>7, InitWire, Invariant, PTL DEF Spec
================================================================================
