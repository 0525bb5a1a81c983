---------------------------- MODULE StreamFlowProofs ---------------------------
(***************************************************************************)
(* StreamFlow: for every window, transport and length, two endpoints keep  *)
(* their accounts so that neither overflows the other's pipe or window,    *)
(* and a window that has been drained is whole again.                      *)
(***************************************************************************)
EXTENDS StreamFlow, TLAPS

FrameType == [kind : {"data", "window", "rst"}, bytes : Nat, delta : Nat,
              fin : BOOLEAN, at : Nat, credit : Nat]

\* Only DATA carries bytes, and only WINDOW_UPDATE credit.
Shaped(f) == (f.kind # "data" => f.bytes = 0) /\ (f.kind # "window" => f.delta = 0)

\* The frames of s, one after another, lead from the totals a and c of their
\* receiver to the totals b and d of their sender.
Chain(s, a, c, b, d) ==
    /\ s = <<>> => a = b /\ c = d
    /\ s # <<>> => /\ s[1].at = a + s[1].bytes /\ s[1].credit = c + s[1].delta
                   /\ s[Len(s)].at = b /\ s[Len(s)].credit = d
    /\ \A i \in 1..(Len(s) - 1) : /\ s[i + 1].at = s[i].at + s[i + 1].bytes
                                  /\ s[i + 1].credit = s[i].credit + s[i + 1].delta
    /\ \A i \in 1..Len(s) : s[i].at <= b /\ s[i].credit <= d /\ Shaped(s[i])

\* The accounts of one end.
Sender(e) ==
    /\ sent[e] + grant[e] + wnd[e] <= InitWnd + applied[e]
    /\ ~rclosed[e] \/ ~wclosed[e] => sent[e] + grant[e] + wnd[e] = InitWnd + applied[e]
Receiver(e) ==
    /\ credited[e] + due[e] = taken[e]
    /\ taken[e] + pipe[e] + held[e] + dropped[e] = seen[e]
    /\ ~rclosed[e] => dropped[e] = 0
Loop(e) ==
    /\ rpc[e] # "write" => held[e] = 0
    /\ rpc[e] = "write" /\ rclosed[e] => resets[e]
Line(e) == Chain(wire[e], seen[Peer(e)], applied[Peer(e)], sent[e], credited[e])
Writer(e) == IF wpc[e] = "frame" THEN grant[e] <= left[e] ELSE grant[e] = 0

Typed ==
    /\ wpc \in [Ends -> {"idle", "check", "dec", "frame", "reset"}]
    /\ left \in [Ends -> Nat] /\ grant \in [Ends -> Nat]
    /\ wnd \in [Ends -> 0..MaxInt] /\ pipe \in [Ends -> 0..InitWnd]
    /\ due \in [Ends -> Nat] /\ rsts \in [Ends -> Nat]
    /\ rclosed \in [Ends -> BOOLEAN] /\ wclosed \in [Ends -> BOOLEAN]
    /\ flowErr \in [Ends -> BOOLEAN] /\ resets \in [Ends -> BOOLEAN]
    /\ rpc \in [Ends -> {"idle", "write", "close", "rst", "first", "last"}]
    /\ held \in [Ends -> Nat] /\ heldFin \in [Ends -> BOOLEAN]
    /\ sent \in [Ends -> Nat] /\ seen \in [Ends -> Nat] /\ taken \in [Ends -> Nat]
    /\ dropped \in [Ends -> Nat] /\ credited \in [Ends -> Nat] /\ applied \in [Ends -> Nat]
Lines ==
    /\ wire \in [Ends -> Seq(FrameType)]
    /\ \A e \in Ends : Len(wire[e]) <= Buf
    /\ \A e \in Ends : Line(e)
Accounts == \A e \in Ends : Sender(e) /\ Receiver(e) /\ Writer(e) /\ Loop(e)

\* The inductive invariant.
IInv == Typed /\ Lines /\ Accounts /\ NeverOverflows

--------------------------------------------------------------------------------
\* Facts about the ends and about frames in a row.

\* The two ends are each other's peers (session.go: one connection, two ends).
LEMMA Peers ==
    ASSUME NEW e \in Ends
    PROVE  Peer(e) \in Ends /\ Peer(e) # e /\ Peer(Peer(e)) = e
BY DEF Ends, Peer

\* A frame whose totals follow on its sender's lengthens the chain.
LEMMA ChainAppend ==
    ASSUME NEW s \in Seq(FrameType), NEW f \in FrameType,
           NEW a \in Nat, NEW c \in Nat, NEW b \in Nat, NEW d \in Nat,
           Chain(s, a, c, b, d), Shaped(f),
           f.at = b + f.bytes, f.credit = d + f.delta
    PROVE  Chain(Append(s, f), a, c, f.at, f.credit)
<1> DEFINE t == Append(s, f)
<1>1. t \in Seq(FrameType) /\ Len(t) = Len(s) + 1 /\ t[Len(t)] = f /\ Len(s) \in Nat
  OBVIOUS
<1>2. \A i \in 1..Len(s) : t[i] = s[i] /\ s[i] \in FrameType
  OBVIOUS
<1> HIDE DEF t
<1>3. f.bytes \in Nat /\ f.delta \in Nat
  BY DEF FrameType
<1>4. t # <<>>
  BY <1>1
<1>5. t[1].at = a + t[1].bytes /\ t[1].credit = c + t[1].delta
  <2>1. CASE s = <<>>
    BY <1>1, <2>1 DEF Chain
  <2>2. CASE s # <<>>
    <3>1. 1 \in 1..Len(s)
      BY <2>2
    <3>2. QED
      BY <1>2, <2>2, <3>1 DEF Chain
  <2>3. QED
    BY <2>1, <2>2
<1>6. ASSUME NEW i \in 1..(Len(t) - 1)
      PROVE  t[i + 1].at = t[i].at + t[i + 1].bytes /\ t[i + 1].credit = t[i].credit + t[i + 1].delta
  <2>1. CASE i = Len(s)
    <3>1. s # <<>>
      BY <1>1, <2>1
    <3>2. t[i] = s[Len(s)] /\ t[i + 1] = f
      BY <1>1, <1>2, <2>1
    <3>3. QED
      BY <3>1, <3>2 DEF Chain
  <2>2. CASE i # Len(s)
    <3>1. i \in 1..(Len(s) - 1) /\ t[i] = s[i] /\ t[i + 1] = s[i + 1]
      BY <1>1, <1>2, <2>2
    <3>2. QED
      BY <3>1 DEF Chain
  <2>3. QED
    BY <2>1, <2>2
<1>7. ASSUME NEW i \in 1..Len(t)
      PROVE  t[i].at <= f.at /\ t[i].credit <= f.credit /\ Shaped(t[i])
  <2>1. CASE i = Len(t)
    <3>1. t[i] = f
      BY <1>1, <2>1
    <3>2. f.at \in Nat /\ f.credit \in Nat
      BY DEF FrameType
    <3>3. f.at <= f.at /\ f.credit <= f.credit
      BY <3>2
    <3>4. QED
      BY <3>1, <3>3
  <2>2. CASE i # Len(t)
    <3>1. i \in 1..Len(s) /\ t[i] = s[i] /\ s[i] \in FrameType
      BY <1>1, <1>2, <2>2
    <3>2. s[i].at <= b /\ s[i].credit <= d /\ Shaped(s[i])
      BY <3>1 DEF Chain
    <3>3. s[i].at \in Nat /\ s[i].credit \in Nat
      BY <3>1 DEF FrameType
    <3>4. s[i].at <= f.at /\ s[i].credit <= f.credit
      <4>1. b <= f.at /\ d <= f.credit /\ f.at \in Nat /\ f.credit \in Nat
        BY ONLY b \in Nat, d \in Nat, <1>3, f.at = b + f.bytes, f.credit = d + f.delta
      <4>2. s[i].at <= b /\ s[i].credit <= d
        BY <3>2
      <4>3. QED
        BY ONLY b \in Nat, d \in Nat, <3>3, <4>1, <4>2
    <3>5. QED
      BY <3>1, <3>2, <3>4
  <2>3. QED
    BY <2>1, <2>2
<1>8. Chain(t, a, c, f.at, f.credit)
  BY <1>1, <1>4, <1>5, <1>6, <1>7 DEF Chain
<1>9. QED
  BY <1>8 DEF t

\* A receiver that takes the first frame into its totals shortens it.
LEMMA ChainTail ==
    ASSUME NEW s \in Seq(FrameType), s # <<>>,
           NEW a \in Nat, NEW c \in Nat, NEW b \in Nat, NEW d \in Nat,
           Chain(s, a, c, b, d)
    PROVE  Chain(Tail(s), s[1].at, s[1].credit, b, d)
<1> DEFINE t == Tail(s)
<1>1. t \in Seq(FrameType) /\ Len(t) = Len(s) - 1 /\ Len(s) \in Nat \ {0}
  OBVIOUS
<1>2. \A i \in 1..Len(t) : t[i] = s[i + 1]
  OBVIOUS
<1> HIDE DEF t
<1>3. t = <<>> => s[1].at = b /\ s[1].credit = d
  <2>1. SUFFICES ASSUME t = <<>> PROVE s[1].at = b /\ s[1].credit = d
    OBVIOUS
  <2>2. Len(s) = 1
    BY <1>1, <2>1
  <2>3. QED
    BY <2>2 DEF Chain
<1>4. ASSUME t # <<>>
      PROVE  /\ t[1].at = s[1].at + t[1].bytes /\ t[1].credit = s[1].credit + t[1].delta
             /\ t[Len(t)].at = b /\ t[Len(t)].credit = d
  <2>1. Len(t) \in Nat \ {0}
    BY <1>1, <1>4
  <2>2. 1 \in 1..(Len(s) - 1) /\ t[1] = s[1 + 1] /\ t[Len(t)] = s[Len(s)]
    BY <1>1, <1>2, <2>1
  <2>3. QED
    BY <2>2 DEF Chain
<1>5. ASSUME NEW i \in 1..(Len(t) - 1)
      PROVE  t[i + 1].at = t[i].at + t[i + 1].bytes /\ t[i + 1].credit = t[i].credit + t[i + 1].delta
  <2>1. i + 1 \in 1..(Len(s) - 1) /\ t[i] = s[i + 1] /\ t[i + 1] = s[(i + 1) + 1]
    BY ONLY <1>1, <1>2, <1>5, s \in Seq(FrameType)
  <2>2. QED
    BY <2>1 DEF Chain
<1>6. ASSUME NEW i \in 1..Len(t)
      PROVE  t[i].at <= b /\ t[i].credit <= d /\ Shaped(t[i])
  <2>1. i + 1 \in 1..Len(s) /\ t[i] = s[i + 1]
    BY <1>1, <1>2
  <2>2. QED
    BY <2>1 DEF Chain
<1>7. Chain(t, s[1].at, s[1].credit, b, d)
  BY <1>3, <1>4, <1>5, <1>6 DEF Chain
<1>8. QED
  BY <1>7 DEF t

--------------------------------------------------------------------------------
\* What the actions do to the two lines.

\* A frame that continues its sender's totals is written.
Sends(e) ==
    \E f \in FrameType :
        /\ Shaped(f)
        /\ f.at = sent[e] + f.bytes /\ f.credit = credited[e] + f.delta
        /\ sent' = [sent EXCEPT ![e] = f.at]
        /\ credited' = [credited EXCEPT ![e] = f.credit]
        /\ writeFrame(e, f)
        /\ UNCHANGED <<seen, applied>>

\* Nothing is written or taken.
Rests == UNCHANGED <<wire, sent, seen, credited, applied>>

\* A step that touches no frame and no total leaves the lines alone (the steps
\* of session.go between two frames).
LEMMA RestsKeepsLines ==
    ASSUME Lines, Rests
    PROVE  Lines'
BY DEF Lines, Line, Rests, Chain, Shaped

\* writeFrame keeps both lines in order (session.go:237-241).
LEMMA SendsKeepsLines ==
    ASSUME Typed, Lines, NEW e \in Ends, Sends(e)
    PROVE  Lines'
<1>1. PICK f \in FrameType :
        /\ Shaped(f)
        /\ f.at = sent[e] + f.bytes /\ f.credit = credited[e] + f.delta
        /\ sent' = [sent EXCEPT ![e] = f.at]
        /\ credited' = [credited EXCEPT ![e] = f.credit]
        /\ Space(e)
        /\ wire' = [wire EXCEPT ![e] = Append(@, f)]
        /\ seen' = seen /\ applied' = applied
  BY DEF Sends, writeFrame
<1>2. Peer(e) \in Ends /\ Peer(e) # e /\ wire[e] \in Seq(FrameType)
  BY Peers DEF Lines
<1>3. /\ wire'[e] = Append(wire[e], f) /\ sent'[e] = f.at /\ credited'[e] = f.credit
      /\ \A g \in Ends \ {e} : wire'[g] = wire[g] /\ sent'[g] = sent[g] /\ credited'[g] = credited[g]
  BY <1>1 DEF Lines, Typed
<1>4. wire' \in [Ends -> Seq(FrameType)]
  BY <1>1, <1>2 DEF Lines
<1>5. Len(wire'[e]) <= Buf
  BY <1>1, <1>2, <1>3, FlowAssumption DEF Space
<1>6. Chain(wire'[e], seen[Peer(e)], applied[Peer(e)], f.at, f.credit)
  <2>1. Chain(wire[e], seen[Peer(e)], applied[Peer(e)], sent[e], credited[e])
    BY DEF Lines, Line
  <2>2. /\ seen[Peer(e)] \in Nat /\ applied[Peer(e)] \in Nat
        /\ sent[e] \in Nat /\ credited[e] \in Nat
    BY <1>2 DEF Typed
  <2>3. QED
    BY <1>1, <1>2, <1>3, <2>1, <2>2, ChainAppend
<1>7. ASSUME NEW g \in Ends
      PROVE  Line(g)' /\ Len(wire'[g]) <= Buf
  <2>1. CASE g = e
    BY <1>1, <1>3, <1>5, <1>6, <2>1 DEF Line
  <2>2. CASE g # e
    <3>1. /\ wire'[g] = wire[g] /\ sent'[g] = sent[g] /\ credited'[g] = credited[g]
          /\ seen' = seen /\ applied' = applied
      BY <1>1, <1>3, <2>2
    <3>2. Line(g) /\ Len(wire[g]) <= Buf
      BY DEF Lines
    <3>3. QED
      BY <3>1, <3>2 DEF Line
  <2>3. QED
    BY <2>1, <2>2
<1>8. QED
  BY <1>4, <1>7 DEF Lines

\* The frames that Frame makes continue their sender's totals.
LEMMA FrameSends ==
    ASSUME Typed, Lines, NEW e \in Ends, NEW k \in {"data", "window", "rst"},
           NEW n \in Nat, NEW d \in Nat, NEW b \in BOOLEAN,
           k # "data" => n = 0, k # "window" => d = 0,
           writeFrame(e, Frame(e, k, n, d, b)),
           sent' = [sent EXCEPT ![e] = @ + n],
           credited' = [credited EXCEPT ![e] = @ + d],
           seen' = seen, applied' = applied
    PROVE  Lines'
<1> DEFINE f == Frame(e, k, n, d, b)
<1>1. sent[e] \in Nat /\ credited[e] \in Nat
  BY DEF Typed
<1>2. /\ f \in FrameType /\ f.kind = k /\ f.bytes = n /\ f.delta = d
      /\ f.at = sent[e] + n /\ f.credit = credited[e] + d
  BY <1>1 DEF Frame, FrameType
<1>3. Shaped(f)
  BY <1>2 DEF Shaped
<1>4. /\ sent' = [sent EXCEPT ![e] = f.at]
      /\ credited' = [credited EXCEPT ![e] = f.credit]
  BY <1>2
<1> HIDE DEF f
<1>5. writeFrame(e, f)
  BY DEF f
<1>6. Sends(e)
  BY <1>2, <1>3, <1>4, <1>5 DEF Sends
<1>7. QED
  BY <1>6, SendsKeepsLines

\* A frame without bytes or credit leaves its sender's totals.
LEMMA EmptySends ==
    ASSUME Typed, Lines, NEW e \in Ends, NEW k \in {"data", "window", "rst"}, NEW b \in BOOLEAN,
           writeFrame(e, Frame(e, k, 0, 0, b)),
           UNCHANGED <<sent, credited, seen, applied>>
    PROVE  Lines'
<1>1. /\ sent' = [sent EXCEPT ![e] = @ + 0]
      /\ credited' = [credited EXCEPT ![e] = @ + 0]
  BY DEF Typed
<1>2. QED
  BY <1>1, FrameSends

\* The oldest frame to e carries its receiver's totals forward, and not past its
\* sender's.
LEMMA OldestFrame ==
    ASSUME Typed, Lines, NEW e \in Ends, wire[Peer(e)] # <<>>
    PROVE  /\ Arrived(e) \in FrameType /\ Shaped(Arrived(e))
           /\ Arrived(e).at = seen[e] + Arrived(e).bytes
           /\ Arrived(e).credit = applied[e] + Arrived(e).delta
           /\ Arrived(e).at <= sent[Peer(e)] /\ Arrived(e).credit <= credited[Peer(e)]
<1> DEFINE s == wire[Peer(e)]
<1>1. Peer(e) \in Ends /\ Peer(Peer(e)) = e
  BY Peers
<1>2. s \in Seq(FrameType) /\ s # <<>>
  BY <1>1 DEF Lines
<1>3. Chain(s, seen[e], applied[e], sent[Peer(e)], credited[Peer(e)])
  BY <1>1 DEF Lines, Line
<1>4. Arrived(e) = s[1] /\ 1 \in 1..Len(s) /\ s[1] \in FrameType
  BY <1>2 DEF Arrived
<1>5. QED
  BY <1>2, <1>3, <1>4 DEF Chain

\* Taking the oldest frame keeps both lines in order (session.go:140-147).
LEMMA TakenKeepsLines ==
    ASSUME Typed, Lines, NEW e \in Ends, wire[Peer(e)] # <<>>,
           Taken(e), UNCHANGED <<sent, credited>>
    PROVE  Lines'
<1> DEFINE p == Peer(e)
<1>1. p \in Ends /\ p # e /\ Peer(p) = e
  BY Peers
<1>2. /\ seen' = [seen EXCEPT ![e] = @ + Arrived(e).bytes]
      /\ applied' = [applied EXCEPT ![e] = @ + Arrived(e).delta]
      /\ wire' = [wire EXCEPT ![p] = Tail(@)]
      /\ sent' = sent /\ credited' = credited
  BY DEF Taken
<1>3. wire[p] \in Seq(FrameType) /\ wire[e] \in Seq(FrameType) /\ wire \in [Ends -> Seq(FrameType)]
  BY <1>1 DEF Lines
<1>4. Tail(wire[p]) \in Seq(FrameType) /\ Len(Tail(wire[p])) = Len(wire[p]) - 1 /\ Len(wire[p]) \in Nat
  BY <1>3
<1>5. /\ wire'[p] = Tail(wire[p]) /\ wire'[e] = wire[e]
      /\ wire' \in [Ends -> Seq(FrameType)]
  BY <1>1, <1>2, <1>3, <1>4
<1>6. /\ Arrived(e) = wire[p][1] /\ Arrived(e).at = seen[e] + Arrived(e).bytes
      /\ Arrived(e).credit = applied[e] + Arrived(e).delta
  <2>1. Arrived(e) = wire[p][1]
    BY <1>3 DEF Arrived
  <2>2. QED
    BY <2>1, OldestFrame
<1>7. seen'[e] = wire[p][1].at /\ applied'[e] = wire[p][1].credit
      /\ seen'[p] = seen[p] /\ applied'[p] = applied[p]
  BY <1>1, <1>2, <1>6 DEF Typed
<1>8. Line(p)'
  <2>1. Chain(wire[p], seen[e], applied[e], sent[p], credited[p])
    BY <1>1 DEF Lines, Line
  <2>2. seen[e] \in Nat /\ applied[e] \in Nat /\ sent[p] \in Nat /\ credited[p] \in Nat
    BY <1>1 DEF Typed
  <2>3. Chain(Tail(wire[p]), wire[p][1].at, wire[p][1].credit, sent[p], credited[p])
    BY <1>3, <2>1, <2>2, ChainTail
  <2>4. QED
    BY <1>1, <1>2, <1>5, <1>7, <2>3 DEF Line
<1>9. Line(e)'
  <2>1. Line(e)
    BY DEF Lines
  <2>2. QED
    BY <1>1, <1>2, <1>5, <1>7, <2>1 DEF Line
<1>10. Len(wire'[p]) <= Buf /\ Len(wire'[e]) <= Buf
  BY <1>1, <1>4, <1>5, FlowAssumption DEF Lines
<1>11. \A g \in Ends : g = e \/ g = p
  BY DEF Ends, Peer
<1>12. QED
  BY <1>5, <1>8, <1>9, <1>10, <1>11 DEF Lines

--------------------------------------------------------------------------------
\* No frame finds the pipe or the window too full.

\* What a receiver has counted never passes what its peer has sent.
LEMMA Behind ==
    ASSUME Typed, Lines, NEW e \in Ends
    PROVE  seen[Peer(e)] <= sent[e] /\ applied[Peer(e)] <= credited[e]
<1>1. Peer(e) \in Ends /\ Peer(Peer(e)) = e
  BY Peers
<1>2. /\ seen[Peer(e)] \in Nat /\ applied[Peer(e)] \in Nat
      /\ sent[e] \in Nat /\ credited[e] \in Nat
  BY <1>1 DEF Typed
<1>3. CASE wire[e] = <<>>
  BY <1>2, <1>3 DEF Lines, Line, Chain
<1>4. CASE wire[e] # <<>>
  <2>1. /\ Arrived(Peer(e)) \in FrameType
        /\ Arrived(Peer(e)).at = seen[Peer(e)] + Arrived(Peer(e)).bytes
        /\ Arrived(Peer(e)).credit = applied[Peer(e)] + Arrived(Peer(e)).delta
        /\ Arrived(Peer(e)).at <= sent[e] /\ Arrived(Peer(e)).credit <= credited[e]
    BY <1>1, <1>4, OldestFrame
  <2>2. Arrived(Peer(e)).bytes \in Nat /\ Arrived(Peer(e)).delta \in Nat
    BY <2>1 DEF FrameType
  <2>3. QED
    BY <1>2, <2>1, <2>2
<1>5. QED
  BY <1>3, <1>4

\* The numbers of one end.
LEMMA Numbers ==
    ASSUME Typed, NEW e \in Ends
    PROVE  /\ sent[e] \in Nat /\ seen[e] \in Nat /\ taken[e] \in Nat /\ dropped[e] \in Nat
           /\ credited[e] \in Nat /\ applied[e] \in Nat
           /\ left[e] \in Nat /\ grant[e] \in Nat /\ due[e] \in Nat /\ rsts[e] \in Nat
           /\ held[e] \in Nat
           /\ wnd[e] \in Nat /\ wnd[e] <= MaxInt /\ pipe[e] \in Nat /\ pipe[e] <= InitWnd
           /\ InitWnd \in Nat /\ MaxInt \in Nat
BY FlowAssumption DEF Typed

\* Arithmetic: x + b is at most i + z and z + q at most x, so q + b fits into i.
LEMMA Balance ==
    ASSUME NEW x \in Nat, NEW b \in Nat, NEW i \in Nat, NEW z \in Nat, NEW q \in Nat,
           x + b <= i + z, z + q <= x
    PROVE  q + b <= i
OBVIOUS

\* DATA fits into the pipe (session.go:428-434).
LEMMA DataFits ==
    ASSUME IInv, NEW e \in Ends, wire[Peer(e)] # <<>>
    PROVE  pipe[e] + Arrived(e).bytes <= InitWnd
<1> DEFINE p == Peer(e)
<1>1. p \in Ends /\ Peer(p) = e
  BY Peers
<1>2. Typed /\ Lines /\ Sender(p) /\ Receiver(e)
  BY <1>1 DEF IInv, Accounts
<1>3. Arrived(e).bytes \in Nat /\ seen[e] + Arrived(e).bytes <= sent[p]
  <2>1. /\ Arrived(e) \in FrameType /\ Arrived(e).at = seen[e] + Arrived(e).bytes
        /\ Arrived(e).at <= sent[p]
    BY <1>2, OldestFrame
  <2>2. QED
    BY <2>1 DEF FrameType
<1>4. applied[p] <= credited[e]
  BY <1>2, Behind
<1>5. /\ sent[p] \in Nat /\ grant[p] \in Nat /\ wnd[p] \in Nat /\ applied[p] \in Nat
      /\ credited[e] \in Nat /\ due[e] \in Nat /\ taken[e] \in Nat /\ pipe[e] \in Nat
      /\ dropped[e] \in Nat /\ held[e] \in Nat /\ seen[e] \in Nat /\ InitWnd \in Nat
  BY <1>1, <1>2, Numbers
<1>6. sent[p] <= InitWnd + applied[p]
  BY ONLY <1>2, <1>5 DEF Sender
<1>7. credited[e] + pipe[e] <= seen[e]
  BY ONLY <1>2, <1>5 DEF Receiver
<1>8. seen[e] + Arrived(e).bytes <= InitWnd + applied[p]
  BY ONLY <1>3, <1>5, <1>6
<1>9. applied[p] + pipe[e] <= seen[e]
  BY <1>4, <1>5, <1>7
<1>10. QED
  BY <1>3, <1>5, <1>8, <1>9, Balance

\* Credit fits into the window, and into the first one (session.go:415-419).
LEMMA CreditFits ==
    ASSUME IInv, NEW e \in Ends, wire[Peer(e)] # <<>>
    PROVE  wnd[e] + Arrived(e).delta <= InitWnd
<1> DEFINE p == Peer(e)
<1>1. p \in Ends /\ Peer(p) = e
  BY Peers
<1>2. Typed /\ Lines /\ Sender(e) /\ Receiver(p)
  BY <1>1 DEF IInv, Accounts
<1>3. Arrived(e).delta \in Nat /\ applied[e] + Arrived(e).delta <= credited[p]
  <2>1. /\ Arrived(e) \in FrameType /\ Arrived(e).credit = applied[e] + Arrived(e).delta
        /\ Arrived(e).credit <= credited[p]
    BY <1>2, OldestFrame
  <2>2. QED
    BY <2>1 DEF FrameType
<1>4. seen[p] <= sent[e]
  BY <1>2, Behind
<1>5. /\ sent[e] \in Nat /\ grant[e] \in Nat /\ wnd[e] \in Nat /\ applied[e] \in Nat
      /\ credited[p] \in Nat /\ due[p] \in Nat /\ taken[p] \in Nat /\ pipe[p] \in Nat
      /\ dropped[p] \in Nat /\ held[p] \in Nat /\ seen[p] \in Nat /\ InitWnd \in Nat
  BY <1>1, <1>2, Numbers
<1>6. sent[e] + wnd[e] <= InitWnd + applied[e]
  BY ONLY <1>2, <1>5 DEF Sender
<1>7. credited[p] <= seen[p]
  BY ONLY <1>2, <1>5 DEF Receiver
<1>8. applied[e] + Arrived(e).delta <= sent[e]
  BY <1>3, <1>4, <1>5, <1>7
<1>9. Arrived(e).delta + wnd[e] <= InitWnd
  BY <1>3, <1>5, <1>6, <1>8, Balance
<1>10. QED
  BY <1>3, <1>5, <1>9

--------------------------------------------------------------------------------
\* Every action keeps the invariant.

\* What is left to show of a step once the lines are known to be in order.
Rest == Typed /\ Accounts /\ NeverOverflows

\* Write begins (session.go:359-369).
LEMMA WriteKeeps ==
    ASSUME IInv, NEW e \in Ends, Write(e)
    PROVE  Lines' /\ Rest'
<1>1. Lines'
  BY RestsKeepsLines DEF IInv, Write, Rests, stream
<1>2. Typed'
  BY FlowAssumption DEF IInv, Typed, Write, stream, loop
<1>3. Accounts'
  BY DEF IInv, Typed, Accounts, Sender, Receiver, Writer, Loop, Write, stream, loop
<1>4. NeverOverflows'
  BY DEF IInv, Typed, NeverOverflows, Write, stream, loop
<1>5. QED
  BY <1>1, <1>2, <1>3, <1>4 DEF Rest

\* writeData tests wclosed (session.go:371-378).
LEMMA WriteCheckKeeps ==
    ASSUME IInv, NEW e \in Ends, WriteCheck(e)
    PROVE  Lines' /\ Rest'
<1>1. Lines'
  BY RestsKeepsLines DEF IInv, WriteCheck, Rests, stream
<1>2. Typed'
  BY FlowAssumption DEF IInv, Typed, WriteCheck, stream, loop
<1>3. Accounts'
  BY DEF IInv, Typed, Accounts, Sender, Receiver, Writer, Loop, WriteCheck, stream, loop
<1>4. NeverOverflows'
  BY DEF IInv, Typed, NeverOverflows, WriteCheck, stream, loop
<1>5. QED
  BY <1>1, <1>2, <1>3, <1>4 DEF Rest

\* What Dec grants goes from the window to the grant (session.go:379-383).
LEMMA WriteDecKeeps ==
    ASSUME IInv, NEW e \in Ends, WriteDec(e)
    PROVE  Lines' /\ Rest'
<1>1. Lines'
  BY RestsKeepsLines DEF IInv, WriteDec, Rests
<1>2. Typed'
  BY FlowAssumption DEF IInv, Typed, WriteDec, Grant, Min2, loop
<1>3. Accounts'
  BY DEF IInv, Typed, Accounts, Sender, Receiver, Writer, Loop, WriteDec, Grant, Min2, loop
<1>4. NeverOverflows'
  BY DEF IInv, Typed, NeverOverflows, WriteDec, loop
<1>5. QED
  BY <1>1, <1>2, <1>3, <1>4 DEF Rest

\* The grant goes into a DATA frame (session.go:384-389).
LEMMA WriteFrameDataKeeps ==
    ASSUME IInv, NEW e \in Ends, WriteFrameData(e)
    PROVE  Lines' /\ Rest'
<1>1. Lines'
  <2>1. PICK n \in Nat : n = grant[e]
    BY Numbers DEF IInv
  <2>2. writeFrame(e, Frame(e, "data", n, 0, FALSE)) /\ sent' = [sent EXCEPT ![e] = @ + n]
    BY <2>1, Zenon DEF WriteFrameData
  <2>3. credited' = [credited EXCEPT ![e] = @ + 0] /\ seen' = seen /\ applied' = applied
    BY DEF IInv, Typed, WriteFrameData, loop
  <2>4. QED
    BY <2>2, <2>3, FrameSends DEF IInv
<1>2. Typed'
  BY FlowAssumption DEF IInv, Typed, Accounts, Writer, WriteFrameData, stream, loop
<1>3. Accounts'
  BY DEF IInv, Typed, Accounts, Sender, Receiver, Writer, Loop, WriteFrameData, stream, loop
<1>4. NeverOverflows'
  BY DEF IInv, Typed, NeverOverflows, WriteFrameData, stream, loop
<1>5. QED
  BY <1>1, <1>2, <1>3, <1>4 DEF Rest

\* Close writes FLAG_FIN (session.go:396-405).
LEMMA CloseKeeps ==
    ASSUME IInv, NEW e \in Ends, Close(e)
    PROVE  Lines' /\ Rest'
<1>1. Lines'
  BY EmptySends DEF IInv, Close
<1>2. Typed'
  BY DEF IInv, Typed, Close, calls, loop
<1>3. Accounts'
  BY DEF IInv, Typed, Accounts, Sender, Receiver, Writer, Loop, Close, calls, loop
<1>4. NeverOverflows'
  BY DEF IInv, Typed, NeverOverflows, Close, loop
<1>5. QED
  BY <1>1, <1>2, <1>3, <1>4 DEF Rest

\* Read takes bytes that it will credit (session.go:342-347).
LEMMA ReadKeeps ==
    ASSUME IInv, NEW e \in Ends, Read(e)
    PROVE  Lines' /\ Rest'
<1>1. Lines'
  BY RestsKeepsLines DEF IInv, Read, Rests
<1>2. PICK k \in ReadLens : /\ pipe' = [pipe EXCEPT ![e] = @ - Min2(k, @)]
                            /\ taken' = [taken EXCEPT ![e] = @ + Min2(k, pipe[e])]
                            /\ due' = [due EXCEPT ![e] = Credit(k, pipe[e])]
  BY DEF Read
<1>3. k \in Nat
  BY FlowAssumption
<1>4. Typed'
  BY <1>2, <1>3, FlowAssumption DEF IInv, Typed, Read, Credit, Min2, calls, loop
<1>5. Accounts'
  BY <1>2, <1>3 DEF IInv, Typed, Accounts, Sender, Receiver, Writer, Loop, Read, Credit, Min2, calls, loop
<1>6. NeverOverflows'
  BY <1>2, <1>3, FlowAssumption DEF IInv, Typed, NeverOverflows, Read, Min2, loop
<1>7. QED
  BY <1>1, <1>4, <1>5, <1>6 DEF Rest

\* WINDOW_UPDATE carries what was read (session.go:349-357).
LEMMA UpdateKeeps ==
    ASSUME IInv, NEW e \in Ends, updateWindow(e)
    PROVE  Lines' /\ Rest'
<1>1. Lines'
  <2>1. PICK n \in Nat : n = due[e]
    BY Numbers DEF IInv
  <2>2. writeFrame(e, Frame(e, "window", 0, n, FALSE)) /\ credited' = [credited EXCEPT ![e] = @ + n]
    BY <2>1, Zenon DEF updateWindow
  <2>3. sent' = [sent EXCEPT ![e] = @ + 0] /\ seen' = seen /\ applied' = applied
    BY DEF IInv, Typed, updateWindow, loop
  <2>4. QED
    BY <2>2, <2>3, FrameSends DEF IInv
<1>2. Typed'
  BY DEF IInv, Typed, updateWindow, calls, stream, loop
<1>3. Accounts'
  BY DEF IInv, Typed, Accounts, Sender, Receiver, Writer, Loop, updateWindow, calls, stream, loop
<1>4. NeverOverflows'
  BY DEF IInv, Typed, NeverOverflows, updateWindow, stream, loop
<1>5. QED
  BY <1>1, <1>2, <1>3, <1>4 DEF Rest

\* Reset closes the stream both ways (session.go:407-413).
LEMMA ResetKeeps ==
    ASSUME IInv, NEW e \in Ends, Reset(e)
    PROVE  Lines' /\ Rest'
<1>1. Lines'
  BY EmptySends DEF IInv, Reset
<1>2. Typed'
  BY DEF IInv, Typed, Reset, loop
<1>3. Accounts'
  BY DEF IInv, Typed, Accounts, Sender, Receiver, Writer, Loop, Reset, loop
<1>4. NeverOverflows'
  BY DEF IInv, Typed, NeverOverflows, Reset, loop
<1>5. QED
  BY <1>1, <1>2, <1>3, <1>4 DEF Rest

\* A frame is refused by a goroutine (session.go:243-245).
LEMMA SpawnedResetKeeps ==
    ASSUME IInv, NEW e \in Ends, spawnedReset(e)
    PROVE  Lines' /\ Rest'
<1>1. Lines'
  BY EmptySends DEF IInv, spawnedReset
<1>2. Typed'
  BY DEF IInv, Typed, spawnedReset, calls, stream, loop
<1>3. Accounts'
  BY DEF IInv, Typed, Accounts, Sender, Receiver, Writer, Loop, spawnedReset, calls, stream, loop
<1>4. NeverOverflows'
  BY DEF IInv, Typed, NeverOverflows, spawnedReset, stream, loop
<1>5. QED
  BY <1>1, <1>2, <1>3, <1>4 DEF Rest

\* DATA for a stream that is open for reading is in the read goroutine's hands,
\* and fits into the pipe (session.go:229-232, 423-428).
LEMMA HandleDataKeeps ==
    ASSUME IInv, NEW e \in Ends, handleData(e)
    PROVE  Lines' /\ Rest'
<1> DEFINE n == Arrived(e).bytes
<1>1. Typed /\ Lines /\ wire[Peer(e)] # <<>> /\ Arrived(e).kind = "data" /\ rpc[e] = "idle"
  BY DEF IInv, handleData, Arrives, Arrived
<1>2. n \in Nat /\ Arrived(e).fin \in BOOLEAN /\ Arrived(e).delta = 0
  BY <1>1, OldestFrame DEF FrameType, Shaped
<1>3. pipe[e] + n <= InitWnd /\ pipe[e] \in Nat /\ InitWnd \in Nat
  BY <1>1, DataFits, Numbers
<1>4. Taken(e) /\ ~rclosed[e]
  BY DEF handleData
<1>5. applied' = applied
  BY <1>1, <1>2, <1>4 DEF Taken, Typed
<1>6. UNCHANGED <<wpc, left, grant, due, wnd, pipe, rclosed, wclosed, flowErr, resets, rsts,
                  sent, taken, dropped, credited>>
  BY DEF handleData, calls, stream
<1>7. Lines'
  BY <1>1, <1>4, <1>6, TakenKeepsLines
<1>8. PICK m \in Nat, b \in BOOLEAN :
           /\ held' = [held EXCEPT ![e] = m] /\ pipe[e] + m <= InitWnd
           /\ seen' = [seen EXCEPT ![e] = @ + m]
           /\ heldFin' = [heldFin EXCEPT ![e] = b]
           /\ rpc' = [rpc EXCEPT ![e] = "write"]
  BY <1>2, <1>3, <1>4 DEF handleData, Taken
<1>9. held[e] = 0
  BY <1>1 DEF IInv, Accounts, Loop
<1>10. Typed'
  BY <1>5, <1>6, <1>8 DEF IInv, Typed
<1>11. Accounts'
  BY <1>4, <1>5, <1>6, <1>8, <1>9 DEF IInv, Typed, Accounts, Sender, Receiver, Writer, Loop
<1>12. NeverOverflows'
  BY <1>1, <1>6, <1>8 DEF IInv, Typed, NeverOverflows
<1>13. QED
  BY <1>7, <1>10, <1>11, <1>12 DEF Rest

\* The pipe takes all of it, or none if Reset has closed the pipe meanwhile
\* (session.go:428-435).
LEMMA WritePipeKeeps ==
    ASSUME IInv, NEW e \in Ends, writePipe(e)
    PROVE  Lines' /\ Rest'
<1>1. Lines'
  BY RestsKeepsLines DEF IInv, writePipe, Rests
<1>2. /\ rpc[e] = "write" /\ pipe[e] + held[e] <= InitWnd
      /\ pipe[e] \in Nat /\ held[e] \in Nat /\ InitWnd \in Nat /\ dropped[e] \in Nat
  BY Numbers DEF IInv, NeverOverflows, writePipe
<1>3. UNCHANGED <<wpc, left, grant, due, wnd, wclosed, flowErr, resets, rsts,
                  sent, seen, taken, credited, applied>>
  BY DEF writePipe, calls
<1>4. held' = [held EXCEPT ![e] = 0] /\ heldFin' = [heldFin EXCEPT ![e] = FALSE]
  BY DEF writePipe
<1>5. CASE rclosed[e]
  <2>1. Fits(e) = 0 /\ held[e] - 0 = held[e] /\ pipe[e] + 0 = pipe[e]
    BY <1>2, <1>5 DEF Fits
  <2>2. /\ pipe' = pipe
        /\ dropped' = [dropped EXCEPT ![e] = @ + held[e]]
        /\ rpc' = [rpc EXCEPT ![e] = "close"]
        /\ rclosed' = rclosed
    BY <1>5, <2>1 DEF IInv, Typed, writePipe
  <2>3. resets[e]
    BY <1>2, <1>5 DEF IInv, Accounts, Loop
  <2>4. Typed'
    BY <1>2, <1>3, <1>4, <2>2 DEF IInv, Typed
  <2>5. Accounts'
    BY <1>2, <1>3, <1>4, <1>5, <2>2 DEF IInv, Typed, Accounts, Sender, Receiver, Writer, Loop
  <2>6. NeverOverflows'
    BY <1>2, <1>3, <1>4, <2>2, <2>3 DEF IInv, Typed, NeverOverflows
  <2>7. QED
    BY <1>1, <2>4, <2>5, <2>6 DEF Rest
<1>6. CASE ~rclosed[e]
  <2>1. Fits(e) = held[e] /\ held[e] - held[e] = 0 /\ dropped[e] + 0 = dropped[e]
    BY <1>2, <1>6 DEF Fits, Min2
  <2>2. ~(Fits(e) < held[e])
    BY <1>2, <2>1
  <2>3. /\ pipe' = [pipe EXCEPT ![e] = @ + held[e]]
        /\ dropped' = dropped
        /\ rpc' = [rpc EXCEPT ![e] = "idle"]
    BY <1>6, <2>1, <2>2 DEF IInv, Typed, writePipe
  <2>4. PICK b \in BOOLEAN : rclosed' = [rclosed EXCEPT ![e] = b]
    <3>1. rclosed' = [rclosed EXCEPT ![e] = heldFin[e]] /\ heldFin[e] \in BOOLEAN
      BY <1>6, <2>2 DEF IInv, Typed, writePipe
    <3>2. QED
      BY <3>1
  <2>5. Typed'
    BY <1>2, <1>3, <1>4, <2>3, <2>4 DEF IInv, Typed
  <2>6. Accounts'
    BY <1>2, <1>3, <1>4, <1>6, <2>3, <2>4
       DEF IInv, Typed, Accounts, Sender, Receiver, Writer, Loop
  <2>7. NeverOverflows'
    BY <1>2, <1>3, <1>4, <2>3 DEF IInv, Typed, NeverOverflows
  <2>8. QED
    BY <1>1, <2>5, <2>6, <2>7 DEF Rest
<1>7. QED
  BY <1>5, <1>6

\* The window is closed and the stream for reading (session.go:418-419, 430-431).
LEMMA FlowCloseKeeps ==
    ASSUME IInv, NEW e \in Ends, flowClose(e)
    PROVE  Lines' /\ Rest'
<1>1. Lines'
  BY RestsKeepsLines DEF IInv, flowClose, Rests
<1>2. rpc[e] = "close" /\ resets[e]
  BY DEF IInv, NeverOverflows, flowClose
<1>3. Typed'
  BY DEF IInv, Typed, flowClose, calls
<1>4. Accounts'
  BY <1>2 DEF IInv, Typed, Accounts, Sender, Receiver, Writer, Loop, flowClose, calls
<1>5. NeverOverflows'
  BY <1>2 DEF IInv, Typed, NeverOverflows, flowClose, calls
<1>6. QED
  BY <1>1, <1>3, <1>4, <1>5 DEF Rest

\* The read goroutine writes RST_STREAM (session.go:417, 432).
LEMMA FlowResetKeeps ==
    ASSUME IInv, NEW e \in Ends, flowReset(e)
    PROVE  Lines' /\ Rest'
<1>1. Lines'
  BY EmptySends DEF IInv, flowReset
<1>2. rpc[e] = "rst"
  BY DEF IInv, NeverOverflows, flowReset
<1>3. Typed'
  BY DEF IInv, Typed, flowReset, calls, stream
<1>4. Accounts'
  BY <1>2 DEF IInv, Typed, Accounts, Sender, Receiver, Writer, Loop, flowReset, calls, stream
<1>5. NeverOverflows'
  BY <1>2 DEF IInv, Typed, NeverOverflows, flowReset, calls, stream
<1>6. QED
  BY <1>1, <1>3, <1>4, <1>5 DEF Rest

\* DATA for a stream that is closed for reading is thrown away
\* (session.go:229-235, 424-427).
LEMMA RefuseDataKeeps ==
    ASSUME IInv, NEW e \in Ends, refuseData(e)
    PROVE  Lines' /\ Rest'
<1> DEFINE n == Arrived(e).bytes
<1>1. Typed /\ Lines /\ wire[Peer(e)] # <<>> /\ Arrived(e).kind = "data"
  BY DEF IInv, refuseData, Arrives, Arrived
<1>2. n \in Nat /\ Arrived(e).delta = 0
  BY <1>1, OldestFrame DEF FrameType, Shaped
<1>3. Taken(e) /\ rclosed[e]
  BY DEF refuseData
<1>4. seen' = [seen EXCEPT ![e] = @ + n] /\ applied' = applied
  BY <1>1, <1>2, <1>3 DEF Taken, Typed
<1>5. /\ dropped' = [dropped EXCEPT ![e] = @ + n]
      /\ rsts' = [rsts EXCEPT ![e] = @ + 1]
      /\ UNCHANGED <<wpc, left, grant, due, wnd, pipe, rclosed, wclosed, flowErr,
                     rpc, held, heldFin, resets, sent, taken, credited>>
  BY DEF refuseData, calls, stream, loop
<1>6. Lines'
  BY <1>1, <1>3, <1>5, TakenKeepsLines
<1>7. PICK m \in Nat : /\ seen' = [seen EXCEPT ![e] = @ + m]
                       /\ dropped' = [dropped EXCEPT ![e] = @ + m]
  BY <1>2, <1>4, <1>5
<1>8. Typed'
  BY <1>4, <1>5, <1>7 DEF IInv, Typed
<1>9. Accounts'
  BY <1>3, <1>4, <1>5, <1>7 DEF IInv, Typed, Accounts, Sender, Receiver, Writer, Loop
<1>10. NeverOverflows'
  BY <1>5 DEF IInv, NeverOverflows
<1>11. QED
  BY <1>6, <1>8, <1>9, <1>10 DEF Rest

\* Credit goes to the window, if the stream is still in the table
\* (session.go:221-227, 415-421).
LEMMA HandleWindowUpdateKeeps ==
    ASSUME IInv, NEW e \in Ends, handleWindowUpdate(e)
    PROVE  Lines' /\ Rest'
<1> DEFINE n == Arrived(e).delta
           gone == rclosed[e] /\ wclosed[e]
<1>1. Typed /\ Lines /\ wire[Peer(e)] # <<>> /\ Arrived(e).kind = "window"
  BY DEF IInv, handleWindowUpdate, Arrives, Arrived
<1>2. n \in Nat /\ Arrived(e).bytes = 0
  BY <1>1, OldestFrame DEF FrameType, Shaped
<1>3. wnd[e] + n <= MaxInt /\ wnd[e] \in Nat /\ MaxInt \in Nat
  BY <1>1, <1>2, CreditFits, Numbers, FlowAssumption
<1>4. (~gone /\ wnd[e] + n > MaxInt) = FALSE
  BY <1>2, <1>3
<1>5. Taken(e)
  BY DEF handleWindowUpdate
<1>6. /\ wnd' = [wnd EXCEPT ![e] = IF gone THEN @ ELSE @ + n]
      /\ rpc' = rpc
  BY <1>1, <1>4 DEF handleWindowUpdate, Typed
<1>7. applied' = [applied EXCEPT ![e] = @ + n] /\ seen' = seen
  BY <1>1, <1>2, <1>5 DEF Taken, Typed
<1>8. UNCHANGED <<wpc, left, grant, due, pipe, rclosed, wclosed, flowErr, held, heldFin,
                  resets, rsts, sent, taken, dropped, credited>>
  BY DEF handleWindowUpdate, calls
<1>9. Lines'
  BY <1>1, <1>5, <1>8, TakenKeepsLines
<1>10. PICK m \in Nat :
           /\ wnd' = [wnd EXCEPT ![e] = IF gone THEN @ ELSE @ + m] /\ wnd[e] + m <= MaxInt
           /\ applied' = [applied EXCEPT ![e] = @ + m]
  BY <1>2, <1>3, <1>6, <1>7
<1>11. Typed'
  BY <1>3, <1>6, <1>7, <1>8, <1>10 DEF IInv, Typed
<1>12. Accounts'
  <2>1. rpc' = rpc /\ rclosed' = rclosed /\ seen' = seen
    BY <1>6, <1>7, <1>8
  <2>2. CASE gone
    BY <1>8, <1>10, <2>1, <2>2, FlowAssumption DEF IInv, Typed, Accounts, Sender, Receiver, Writer, Loop
  <2>3. CASE ~gone
    <3>1. wnd' = [wnd EXCEPT ![e] = @ + m]
      BY <1>10, <2>3
    <3>2. sent[e] + grant[e] + wnd[e] = InitWnd + applied[e]
      BY <2>3 DEF IInv, Accounts, Sender
    <3>3. wnd'[e] = wnd[e] + m /\ applied'[e] = applied[e] + m
      BY <1>10, <3>1 DEF IInv, Typed
    <3>4. sent[e] + grant[e] + wnd'[e] = InitWnd + applied'[e]
      BY <3>2, <3>3, Numbers DEF IInv
    <3>5. Sender(e)'
      BY <1>8, <3>3, <3>4, Numbers DEF IInv, Sender
    <3>6. \A g \in Ends \ {e} : Sender(g)'
      BY <1>8, <1>10, <2>1, <3>1 DEF IInv, Typed, Accounts, Sender
    <3>7. \A g \in Ends : Receiver(g)' /\ Writer(g)' /\ Loop(g)'
      BY <1>8, <2>1 DEF IInv, Accounts, Receiver, Writer, Loop
    <3>8. QED
      BY <3>5, <3>6, <3>7 DEF Accounts
  <2>4. QED
    BY <2>2, <2>3
<1>13. NeverOverflows'
  BY <1>6, <1>8 DEF IInv, NeverOverflows
<1>14. QED
  BY <1>9, <1>11, <1>12, <1>13 DEF Rest

\* RST_STREAM changes nothing (session.go:156-169).
LEMMA IgnoreRstKeeps ==
    ASSUME IInv, NEW e \in Ends, ignoreRst(e)
    PROVE  Lines' /\ Rest'
<1>1. Typed /\ Lines /\ wire[Peer(e)] # <<>> /\ Arrived(e).kind = "rst" /\ Taken(e)
  BY DEF IInv, ignoreRst, Arrives, Arrived
<1>2. Arrived(e).bytes = 0 /\ Arrived(e).delta = 0
  BY <1>1, OldestFrame DEF Shaped
<1>3. seen' = seen /\ applied' = applied
  BY <1>1, <1>2 DEF Taken, Typed
<1>4. UNCHANGED <<wpc, left, grant, due, wnd, pipe, rclosed, wclosed, flowErr,
                  rpc, held, heldFin, resets, rsts, sent, taken, dropped, credited>>
  BY DEF ignoreRst, calls, stream, loop
<1>5. Lines'
  BY <1>1, <1>4, TakenKeepsLines
<1>6. Typed' /\ Accounts' /\ NeverOverflows'
  BY <1>3, <1>4 DEF IInv, Typed, Accounts, Sender, Receiver, Writer, Loop, NeverOverflows
<1>7. QED
  BY <1>5, <1>6 DEF Rest

--------------------------------------------------------------------------------
\* The theorems.

\* The invariant holds of a new stream (session.go:304-313).
LEMMA InitOK == Init => IInv
<1> SUFFICES ASSUME Init PROVE IInv
  OBVIOUS
<1>1. Typed
  BY FlowAssumption DEF Init, All, Typed
<1>2. \A e \in Ends : wire[e] = <<>> /\ Peer(e) \in Ends
  BY Peers DEF Init, All
<1>3. Lines
  <2>1. wire \in [Ends -> Seq(FrameType)]
    BY DEF Init, All
  <2>2. ASSUME NEW e \in Ends
        PROVE  Line(e) /\ Len(wire[e]) <= Buf
    BY <1>2, FlowAssumption DEF Init, All, Line, Chain
  <2>3. QED
    BY <2>1, <2>2 DEF Lines
<1>4. Accounts
  BY FlowAssumption DEF Init, All, Accounts, Sender, Receiver, Writer, Loop
<1>5. NeverOverflows
  BY DEF Init, All, NeverOverflows
<1>6. QED
  BY <1>1, <1>3, <1>4, <1>5 DEF IInv

\* Every step of either end keeps it.
LEMMA StepOK == IInv /\ [Next]_vars => IInv'
<1> SUFFICES ASSUME IInv, [Next]_vars PROVE IInv'
  OBVIOUS
<1>1. CASE Next
  <2>1. PICK e \in Ends :
            \/ Write(e) \/ Close(e) \/ WriteCheck(e) \/ WriteDec(e) \/ WriteFrameData(e)
            \/ Read(e) \/ updateWindow(e) \/ Reset(e)
            \/ handleData(e) \/ refuseData(e) \/ writePipe(e) \/ flowClose(e) \/ flowReset(e)
            \/ handleWindowUpdate(e) \/ ignoreRst(e)
            \/ spawnedReset(e)
    BY <1>1 DEF Next, Reading, readLoop
  <2>2. Lines' /\ Rest'
    BY <2>1, WriteKeeps, CloseKeeps, WriteCheckKeeps, WriteDecKeeps, WriteFrameDataKeeps,
       ReadKeeps, UpdateKeeps, ResetKeeps, HandleDataKeeps, RefuseDataKeeps,
       WritePipeKeeps, FlowCloseKeeps, FlowResetKeeps,
       HandleWindowUpdateKeeps, IgnoreRstKeeps, SpawnedResetKeeps
  <2>3. QED
    BY <2>2 DEF IInv, Rest
<1>2. CASE UNCHANGED vars
  <2>1. Rests
    BY <1>2 DEF vars, Rests
  <2>2. Lines'
    BY <2>1, RestsKeepsLines DEF IInv
  <2>3. Typed' /\ Accounts' /\ NeverOverflows'
    BY <1>2 DEF vars, calls, stream, loop, IInv, Typed, Accounts, Sender, Receiver, Writer, Loop, NeverOverflows
  <2>4. QED
    BY <2>2, <2>3 DEF IInv
<1>3. QED
  BY <1>1, <1>2

\* The accounts of both ends balance in every reachable state.
THEOREM AccountsBalance == Spec => []IInv
<1>1. QED
  BY InitOK, StepOK, PTL DEF Spec

\* For every window and transport, the window stays an int32, the pipe in its
\* buffer and the frames on their way in the transport (session.go:284-302).
THEOREM TypeCorrect == Spec => []TypeOK
<1>1. IInv => TypeOK
  BY DEF IInv, Typed, Lines, FrameType, TypeOK
<1>2. QED
  BY <1>1, AccountsBalance, PTL

\* For every window, transport, and lengths of writes and reads, neither end
\* exceeds the other's window, and a flow control error is met only on an end
\* whose own Reset closed the pipe (session.go:415-421, 423-436).
THEOREM NoFlowControlError == Spec => []NeverOverflows
<1>1. IInv => NeverOverflows
  BY DEF IInv
<1>2. QED
  BY <1>1, AccountsBalance, PTL

\* A window whose bytes have been read and credited is whole again
\* (session.go:342-357, 379).
THEOREM WindowIsRestored == Spec => []WindowRestored
<1>1. IInv => WindowRestored
  <2>1. SUFFICES ASSUME IInv, NEW e \in Ends,
                        wire[e] = <<>>, wire[Peer(e)] = <<>>,
                        grant[e] = 0, pipe[Peer(e)] = 0, due[Peer(e)] = 0,
                        held[Peer(e)] = 0,
                        ~rclosed[e], ~rclosed[Peer(e)]
                 PROVE  wnd[e] = InitWnd
    BY DEF WindowRestored
  <2> DEFINE p == Peer(e)
  <2>2. p \in Ends /\ Peer(p) = e
    BY Peers
  <2>3. Typed /\ Lines /\ Sender(e) /\ Receiver(p)
    BY <2>1, <2>2 DEF IInv, Accounts
  <2>4. seen[p] = sent[e] /\ applied[e] = credited[p]
    BY <2>1, <2>2, <2>3 DEF Lines, Line, Chain
  <2>5. /\ sent[e] \in Nat /\ wnd[e] \in Nat /\ applied[e] \in Nat /\ InitWnd \in Nat
        /\ credited[p] \in Nat /\ taken[p] \in Nat /\ seen[p] \in Nat /\ dropped[p] \in Nat
    BY <2>2, <2>3, Numbers
  <2>6. credited[p] = seen[p]
    BY <2>1, <2>3, <2>5 DEF Receiver
  <2>7. sent[e] + wnd[e] = InitWnd + applied[e]
    BY <2>1, <2>3, <2>5 DEF Sender
  <2>8. QED
    BY <2>4, <2>5, <2>6, <2>7
<1>2. QED
  BY <1>1, AccountsBalance, PTL
================================================================================
