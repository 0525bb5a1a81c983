---------------------------- MODULE SessionTeardown ----------------------------
(***************************************************************************)
(* Proof that the end of a session releases every stream, also the ones    *)
(* that other goroutines close, open or remove while the read loop's       *)
(* deferred function goes through its copy of the table.                   *)
(***************************************************************************)
EXTENDS SessionProofs

\* The pipe, the window of o is closed or somebody is about to close it.
PipeShut(o) == perr[o] # "open" \/ SomeoneDue("pclose", o)
WndShut(o) == werr[o] # "open" \/ SomeoneDue("nclose", o)

\* The inductive invariant.  A stream that has left the table is closed both
\* ways (OnlyClosedLeave), and whoever set a flag closes what it stands for;
\* every other stream is in the copy until the teardown takes it up, and after
\* closing is set none is added.
Release ==
    /\ phase # "loop" => closing
    /\ phase = "done" => victims = {}
    /\ \A o \in Streams : (rclosed[o] => PipeShut(o)) /\ (wclosed[o] => WndShut(o))
    /\ phase # "loop" =>
          \A o \in Streams : id[o] # 0 /\ o \notin victims => PipeShut(o) /\ WndShut(o)

--------------------------------------------------------------------------------

\* What the operations do to the pipes, the windows and the read loop's state.
LEMMA StepFlow ==
    ASSUME NEW t \in Threads, Step(t)
    PROVE  /\ UNCHANGED <<phase, victims, closing>>
           /\ \/ ClosePipe(t)
              \/ UNCHANGED perr /\ todo[t] # <<>> /\ Cur(t).op # "pclose"
           /\ \/ CloseWnd(t)
              \/ UNCHANGED werr /\ todo[t] # <<>> /\ Cur(t).op # "nclose"
<1> USE DEF sessVars, flagVars, flowVars, histVars, At, Cur
<1>1. CASE ClosePipe(t)
  <2>1. UNCHANGED <<phase, victims, closing, werr>> /\ todo[t] # <<>> /\ Cur(t).op # "nclose"
    BY <1>1 DEF ClosePipe
  <2> QED
    BY <1>1, <2>1
<1>2. CASE CloseWnd(t)
  <2>1. UNCHANGED <<phase, victims, closing, perr>> /\ todo[t] # <<>> /\ Cur(t).op # "pclose"
    BY <1>2 DEF CloseWnd
  <2> QED
    BY <1>2, <2>1
<1>3. CASE SetRClosed(t) \/ SetWClosed(t) \/ maybeRemove(t) \/ Opening(t)
    BY <1>3, Zenon DEF SetRClosed, SetWClosed, maybeRemove, Opening, OpenLock, OpenAdd,
                       OpenMakeReply, OpenWriteSyn, OpenUnlock
<1>4. CASE StreamSteps(t)
    BY <1>4, Zenon DEF StreamSteps, HeaderReceive, HeaderForget, ReplyWrite, WriteCheck,
                       WriteDec, WriteFrameData, CloseWriteFin, WriteRst, ReadPipe, updateWindow
<1>5. CASE ReadSteps(t)
    BY <1>5, Zenon DEF ReadSteps, StartHandler, OfferReply, WindowInc, DataCheck,
                       DataWrite, TeardownReply
<1> QED
    BY <1>1, <1>2, <1>3, <1>4, <1>5 DEF Step, Closings

\* What is shut stays shut when a goroutine does an operation.
LEMMA StepShut ==
    ASSUME TypeOK, NEW t \in Threads, Step(t), NEW o \in Streams
    PROVE  (PipeShut(o) => PipeShut(o)') /\ (WndShut(o) => WndShut(o)')
<1>0. /\ perr \in [Streams -> Errors \cup {"open"}] /\ werr \in [Streams -> Errors \cup {"open"}]
      /\ "open" \notin Errors
    BY DEF TypeOK, Errors
<1>1. ASSUME todo[t] # <<>>
      PROVE  Cur(t).o \in Streams /\ (Cur(t).op \in {"pclose", "nclose"} => Cur(t).arg \in Errors)
    BY <1>1, CurType DEF CloseOps
<1>2. ASSUME PipeShut(o) PROVE PipeShut(o)'
  <2>1. CASE ClosePipe(t)
    <3>1. /\ todo[t] # <<>> /\ Cur(t).op = "pclose"
          /\ perr' = [perr EXCEPT ![Cur(t).o] = IF @ = "open" THEN Cur(t).arg ELSE @]
      BY <2>1 DEF ClosePipe, At, Cur
    <3>2. CASE o = Cur(t).o
      <4>1. perr'[o] # "open"
        BY <1>0, <1>1, <3>1, <3>2
      <4> QED
        BY <4>1 DEF PipeShut
    <3>3. CASE o # Cur(t).o
      <4>1. perr'[o] = perr[o]
        BY <1>0, <3>1, <3>3
      <4>2. SomeoneDue("pclose", o) => SomeoneDue("pclose", o)'
        BY <3>3, StepDue
      <4> QED
        BY <1>2, <4>1, <4>2 DEF PipeShut
    <3> QED
      BY <3>2, <3>3
  <2>2. CASE UNCHANGED perr /\ todo[t] # <<>> /\ Cur(t).op # "pclose"
    <3>1. SomeoneDue("pclose", o) => SomeoneDue("pclose", o)'
      BY <2>2, StepDue
    <3> QED
      BY <1>2, <2>2, <3>1 DEF PipeShut
  <2> QED
    BY <2>1, <2>2, StepFlow
<1>3. ASSUME WndShut(o) PROVE WndShut(o)'
  <2>1. CASE CloseWnd(t)
    <3>1. /\ todo[t] # <<>> /\ Cur(t).op = "nclose"
          /\ werr' = [werr EXCEPT ![Cur(t).o] = IF @ = "open" THEN Cur(t).arg ELSE @]
      BY <2>1 DEF CloseWnd, At, Cur
    <3>2. CASE o = Cur(t).o
      <4>1. werr'[o] # "open"
        BY <1>0, <1>1, <3>1, <3>2
      <4> QED
        BY <4>1 DEF WndShut
    <3>3. CASE o # Cur(t).o
      <4>1. werr'[o] = werr[o]
        BY <1>0, <3>1, <3>3
      <4>2. SomeoneDue("nclose", o) => SomeoneDue("nclose", o)'
        BY <3>3, StepDue
      <4> QED
        BY <1>3, <4>1, <4>2 DEF WndShut
    <3> QED
      BY <3>2, <3>3
  <2>2. CASE UNCHANGED werr /\ todo[t] # <<>> /\ Cur(t).op # "nclose"
    <3>1. SomeoneDue("nclose", o) => SomeoneDue("nclose", o)'
      BY <2>2, StepDue
    <3> QED
      BY <1>3, <2>2, <3>1 DEF WndShut
  <2> QED
    BY <2>1, <2>2, StepFlow
<1> QED
    BY <1>2, <1>3

\* What is shut stays shut when a goroutine begins something.
LEMMA BeginShut ==
    ASSUME TypeOK, NEW t \in Threads, NEW more \in Seq(Ops), Begin(t, more),
           UNCHANGED <<perr, werr>>, NEW o \in Streams
    PROVE  (PipeShut(o) => PipeShut(o)') /\ (WndShut(o) => WndShut(o)')
<1>1. /\ SomeoneDue("pclose", o) => SomeoneDue("pclose", o)'
      /\ SomeoneDue("nclose", o) => SomeoneDue("nclose", o)'
    BY DueKept
<1> QED
    BY <1>1 DEF PipeShut, WndShut

\* Whoever sets a flag has yet to close what the flag stands for.
LEMMA CloseFollows ==
    ASSUME TypeOK, Orderly, NEW t \in Threads, todo[t] # <<>>, Continue(t, <<>>),
           NEW o, o = Cur(t).o
    PROVE  /\ Cur(t).op = "rflag" => SomeoneDue("pclose", o)'
           /\ Cur(t).op = "wflag" => SomeoneDue("nclose", o)'
<1>1. todo[t] \in Seq(Ops) /\ todo \in [Threads -> Seq(Ops)]
    BY DEF TypeOK
<1>2. Follows(todo[t], "rflag", "pclose") /\ Follows(todo[t], "wflag", "nclose")
    BY DEF Orderly, Tidy
<1>3. todo'[t] = Tail(todo[t])
    BY <1>1 DEF Continue
<1>4. /\ Cur(t).op = "rflag" =>
            \E j \in DOMAIN todo'[t] : todo'[t][j].op = "pclose" /\ todo'[t][j].o = o
      /\ Cur(t).op = "wflag" =>
            \E j \in DOMAIN todo'[t] : todo'[t][j].op = "nclose" /\ todo'[t][j].o = o
  <2>1. ASSUME NEW a, NEW b, Follows(todo[t], a, b), Head(todo[t]).op = a
        PROVE  \E j \in DOMAIN Tail(todo[t]) :
                  Tail(todo[t])[j].op = b /\ Tail(todo[t])[j].o = Head(todo[t]).o
    BY <1>1, <2>1, FollowsTail
  <2> QED
    BY <1>2, <1>3, <2>1 DEF Cur
<1> QED
    BY <1>4 DEF SomeoneDue, Due

--------------------------------------------------------------------------------

\* An operation keeps the invariant.
LEMMA StepRelease ==
    ASSUME IInv, Release, NEW t \in Threads, Step(t)
    PROVE  Release'
<1>0. TypeOK /\ Orderly
    BY DEF IInv
<1> USE FlagTypes
<1>1. UNCHANGED <<phase, victims, closing>>
    BY StepFlow
<1>2. \A o \in Streams : (PipeShut(o) => PipeShut(o)') /\ (WndShut(o) => WndShut(o)')
    BY <1>0, StepShut
<1>3. ASSUME NEW o \in Streams, rclosed'[o], ~rclosed[o] PROVE PipeShut(o)'
  <2>1. SetRClosed(t)
    BY <1>0, <1>3, StepEffect, AddEffect
  <2>2. /\ todo[t] # <<>> /\ Cur(t).op = "rflag" /\ Continue(t, <<>>)
        /\ rclosed' = [rclosed EXCEPT ![Cur(t).o] = TRUE]
    BY <2>1 DEF SetRClosed, At, Cur
  <2>3. o = Cur(t).o
    BY <1>0, <1>3, <2>2
  <2> QED
    BY <1>0, <2>2, <2>3, CloseFollows DEF PipeShut
<1>4. ASSUME NEW o \in Streams, wclosed'[o], ~wclosed[o] PROVE WndShut(o)'
  <2>1. SetWClosed(t)
    BY <1>0, <1>4, StepEffect, AddEffect
  <2>2. /\ todo[t] # <<>> /\ Cur(t).op = "wflag" /\ Continue(t, <<>>)
        /\ wclosed' = [wclosed EXCEPT ![Cur(t).o] = TRUE]
    BY <2>1 DEF SetWClosed, At, Cur
  <2>3. o = Cur(t).o
    BY <1>0, <1>4, <2>2
  <2> QED
    BY <1>0, <2>2, <2>3, CloseFollows DEF WndShut
<1>5. phase # "loop" => id' = id
  <2>1. phase # "loop" => closing
    BY DEF Release
  <2>2. CASE OpenAdd(t)
    BY <2>1, <2>2 DEF OpenAdd
  <2>3. CASE ~OpenAdd(t)
    BY <2>3, StepEffect
  <2> QED
    BY <2>2, <2>3
<1>6. \A o \in Streams : (rclosed'[o] => PipeShut(o)') /\ (wclosed'[o] => WndShut(o)')
    BY <1>2, <1>3, <1>4 DEF Release
<1>7. phase' # "loop" =>
         \A o \in Streams : id'[o] # 0 /\ o \notin victims' => PipeShut(o)' /\ WndShut(o)'
    BY <1>1, <1>2, <1>5 DEF Release
<1> QED
    BY <1>1, <1>6, <1>7 DEF Release

\* Calls and frames keep the invariant.
LEMMA CallRelease ==
    ASSUME IInv, Release, (\E o \in Streams : Calls(o)) \/ handleRead
    PROVE  Release'
<1>0. TypeOK
    BY DEF IInv
<1>1. UNCHANGED <<phase, victims, closing, perr, werr, rclosed, wclosed>>
  <2>1. CASE \E o \in Streams : Calls(o)
    <3>1. PICK o \in Streams : Calls(o)
      BY <2>1
    <3>2. ASSUME NEW f \in Flags, Open(o, f) \/ Reply(o, f)
          PROVE  UNCHANGED <<phase, victims, closing, perr, werr, rclosed, wclosed>>
      BY <3>2, Zenon DEF Open, Reply, sessVars, flagVars, flowVars
    <3>3. ASSUME NEW k \in Lens, Write(o, k) \/ Read(o, k)
          PROVE  UNCHANGED <<phase, victims, closing, perr, werr, rclosed, wclosed>>
      BY <3>3, Zenon DEF Write, Read, sessVars, flagVars, flowVars
    <3>4. CASE Header(o) \/ Close(o) \/ Reset(o)
      BY <3>4, Zenon DEF Header, Close, Reset, sessVars, flagVars, flowVars
    <3> QED
      BY <3>1, <3>2, <3>3, <3>4, Zenon DEF Calls, Flags
  <2>2. CASE handleRead
    BY <2>2, Zenon DEF handleRead, IgnoreFrame, AnswerPing, handleSettings, RefuseSynStream,
           handleSynStream, handleSynReply, handleWindowUpdate, handleData,
           sessVars, flagVars, flowVars
  <2> QED
    BY <2>1, <2>2
<1>2. phase # "loop" => UNCHANGED id
  <2>1. CASE handleRead
    BY <2>1 DEF handleRead, IgnoreFrame, AnswerPing, handleSettings, RefuseSynStream,
           handleSynStream, handleSynReply, handleWindowUpdate, handleData, Receive
  <2>2. CASE \E o \in Streams : Calls(o)
    BY <2>2, Zenon DEF Calls, Open, Reply, Write, Read, Header, Close, Reset, flagVars
  <2> QED
    BY <2>1, <2>2
<1>3. \E t \in Threads : \E more \in Seq(Ops) : Begin(t, more)
  <2>1. CASE handleRead
    <3>1. <<>> \in Seq(Ops)
      OBVIOUS
    <3> QED
      BY <1>0, <2>1, <3>1, FrameWork, ThreadsType DEF Tame
  <2>2. ASSUME NEW o \in Streams, Calls(o)
        PROVE  \E t \in Threads : \E more \in Seq(Ops) : Begin(t, more)
    <3>1. Writer(o) \in Threads /\ Reader(o) \in Threads
      BY ThreadsType
    <3>2. CASE \E f \in Flags : Open(o, f)
      <4>1. \A f \in Flags : << Do("lock", o, f, 0) >> \in Seq(Ops)
        BY SessionAssumption DEF Do, Ops, OpenOps
      <4> QED
        BY <3>1, <3>2, <4>1 DEF Open
    <3> QED
      BY <1>0, <2>2, <3>1, <3>2, CallWork DEF Tame
  <2> QED
    BY <2>1, <2>2
<1>4. \A o \in Streams : (PipeShut(o) => PipeShut(o)') /\ (WndShut(o) => WndShut(o)')
    BY <1>0, <1>1, <1>3, BeginShut
<1> QED
    BY <1>1, <1>2, <1>4 DEF Release

\* The end of the read loop, and the teardown, keep the invariant.
LEMMA TeardownRelease ==
    ASSUME IInv, Release, ReadFails \/ Teardown \/ SpawnedWrite
    PROVE  Release'
<1>0. TypeOK /\ OnlyClosedLeave
    BY DEF IInv
<1>1. UNCHANGED <<perr, werr, rclosed, wclosed, id>>
    BY Zenon DEF ReadFails, Teardown, TeardownStream, TeardownEnd, SpawnedWrite,
                 flagVars, flowVars
<1>2. ASSUME UNCHANGED todo, NEW o \in Streams
      PROVE  (PipeShut(o) <=> PipeShut(o)') /\ (WndShut(o) <=> WndShut(o)')
    BY <1>1, <1>2 DEF PipeShut, WndShut, SomeoneDue, Due
<1>3. CASE ReadFails
  <2>1. UNCHANGED todo /\ phase' = "teardown" /\ victims' = tbl /\ closing'
    BY <1>3, Zenon DEF ReadFails
  <2>2. \A o \in Streams : id'[o] # 0 /\ o \notin victims' => PipeShut(o)' /\ WndShut(o)'
    BY <1>0, <1>1, <1>2, <2>1 DEF Release, OnlyClosedLeave
  <2> QED
    BY <1>1, <1>2, <2>1, <2>2 DEF Release
<1>4. ASSUME NEW v \in victims, TeardownStream(v) PROVE Release'
  <2>1. /\ phase = "teardown" /\ UNCHANGED <<phase, closing>> /\ victims' = victims \ {v}
    BY <1>4, Zenon DEF TeardownStream
  <2>2. PICK more : /\ Tame(more, v) /\ Begin(ReadLoop, more)
                    /\ \E i \in DOMAIN more : more[i].op = "pclose" /\ more[i].o = v
                    /\ \E i \in DOMAIN more : more[i].op = "nclose" /\ more[i].o = v
    BY <1>0, <1>4, TeardownWork
  <2>3. ReadLoop \in Threads /\ more \in Seq(Ops)
    BY <2>2, ThreadsType DEF Tame
  <2>4. \A o \in Streams : (PipeShut(o) => PipeShut(o)') /\ (WndShut(o) => WndShut(o)')
    BY <1>0, <1>1, <2>2, <2>3, BeginShut
  <2>5. PipeShut(v)' /\ WndShut(v)'
    <3>1. todo'[ReadLoop] = more
      BY <1>0, <2>2, <2>3 DEF Begin, TypeOK
    <3> QED
      BY <2>2, <2>3, <3>1 DEF PipeShut, WndShut, SomeoneDue, Due
  <2>6. \A o \in Streams : id'[o] # 0 /\ o \notin victims' => PipeShut(o)' /\ WndShut(o)'
    BY <1>1, <2>1, <2>4, <2>5 DEF Release
  <2> QED
    BY <1>1, <2>1, <2>4, <2>6 DEF Release
<1>5. CASE TeardownEnd
  <2>1. phase = "teardown" /\ victims = {} /\ UNCHANGED <<todo, victims, closing>>
    BY <1>5 DEF TeardownEnd
  <2> QED
    BY <1>1, <1>2, <2>1 DEF Release
<1>6. CASE SpawnedWrite
  <2>1. UNCHANGED <<todo, victims, closing, phase>>
    BY <1>6 DEF SpawnedWrite, sessVars
  <2> QED
    BY <1>1, <1>2, <2>1 DEF Release
<1> QED
    BY <1>3, <1>4, <1>5, <1>6 DEF Teardown

\* Every step keeps the invariant.
LEMMA NextRelease ==
    ASSUME IInv, Release, [Next]_vars
    PROVE  Release'
<1>1. CASE UNCHANGED vars
    BY <1>1 DEF vars, sessVars, flagVars, flowVars, histVars, Release, PipeShut, WndShut,
                SomeoneDue, Due
<1> QED
    BY <1>1, StepRelease, CallRelease, TeardownRelease DEF Next

\* It holds at the start: nothing is closed yet.
LEMMA InitRelease == Init => Release
<1>1. ASSUME Init PROVE phase = "loop" /\ \A o \in Streams : ~rclosed[o] /\ ~wclosed[o]
    BY <1>1, Zenon DEF Init
<1>2. ASSUME Init PROVE phase # "done"
    BY <1>2 DEF Init
<1> QED
    BY <1>1, <1>2 DEF Release

\* Once the session is done, every stream that was ever in the table has its
\* pipe and its window closed, or a goroutine is about to close them, whatever
\* was being opened, reset or removed when the connection failed
\* (session.go:121-139): nobody is left to block in Read or Write.
THEOREM EveryStreamReleased == Spec => []TeardownReleases
<1>1. Init => Release
    BY InitRelease
<1>2. IInv /\ Release /\ [Next]_vars => Release'
    BY NextRelease
<1>3. Release => TeardownReleases
    BY DEF Release, TeardownReleases, PipeShut, WndShut
<1> QED
    BY <1>1, <1>2, <1>3, Invariant, PTL DEF Spec
================================================================================
