----------------------------- MODULE ExchangeProofs -----------------------------
(***************************************************************************)
(* Proofs about Exchange for every window, every set of requests and       *)
(* headers and any number of bytes.  The inductive invariant relates what  *)
(* one end has written, what is under way and what the other end has read, *)
(* and says when FLAG_FIN may be under way: only after the last byte.      *)
(***************************************************************************)
EXTENDS Exchange, TLAPS

\* The length of the request body.
Size == IF req.body = NoBody THEN 0 ELSE req.body

\* The types, and those of the headers that TypeOK leaves out.
Typed ==
    /\ TypeOK
    /\ hdr.cl \in Lengths \cup {Absent, Junk}
    /\ Replies => reply.cl \in Lengths \cup {Absent, Junk}
    /\ replyCh \notin {NilChan, EmptyChan} => replyCh.cl \in Lengths \cup {Absent, Junk}
    /\ spc = "writing" => written < MaxWrites

\* A stream is opened only for a request that has a header.
OpenInv == syn \/ cpc \in {"added", "made"} => RequestFramingHeader(req).ok

\* The request body: nothing is read that was not sent, nothing is missing
\* while the connection holds, and FLAG_FIN follows the whole body.
UpInv ==
    /\ read + upq <= sent
    /\ ~lost => read + upq = sent
    /\ cpc \in {"idle", "added", "made"} => sent = 0 /\ up = "off" /\ ~upfin
    /\ up = "copying" => req.body # NoBody /\ ~upfin
    /\ upfin => read + upq = Size /\ ~req.fails
    /\ spc = "reading" => ~reof
    /\ UploadWhole

\* The response body: every byte is read, under way or cut off by the end of the
\* client's session; FLAG_FIN follows the handler's return, and arrives only if
\* nothing was cut off.
DownInv ==
    /\ got + downq + voided = written
    /\ downq + voided <= Wnd
    /\ ~cdown => voided = 0
    /\ downfin => spc = "ended" /\ voided = 0
    /\ cpc # "ok" => bpc = "open" /\ got = 0
    /\ EOFMeansWhole

\* A response that a caller has, and the limit on its body.
Limited ==
    /\ resp.limit \in Lengths \cup {-1, 0}
    /\ resp.limit # -1 => got <= resp.limit
    /\ req.method = "HEAD" \/ resp.code \div 100 = 1 \/ resp.code \in {204, 304}
          => resp.limit = 0
    /\ resp.cl \in Lengths \cup {-1, 0}
    /\ resp.cl > 0 => resp.limit \in {0, resp.cl}

\* The request that the handler sees is the one that ReadRequest makes of the
\* caller's.
SeenInv ==
    \/ seen = Error
    \/ /\ RequestFramingHeader(req).ok
       /\ seen = ReadRequest(RequestFramingHeader(req).h)

IInv == Typed /\ OpenInv /\ UpInv /\ DownInv /\ (cpc = "ok" => Limited) /\ SeenInv

--------------------------------------------------------------------------------

\* The lengths of a message are integers.
LEMMA Numbers ==
    ASSUME TypeOK
    PROVE  /\ sent \in Nat /\ got \in Nat /\ written \in Nat /\ read \in Nat
           /\ upq \in Nat /\ downq \in Nat /\ voided \in Nat /\ Wnd \in Nat /\ MaxWrites \in Nat
           /\ upq <= Wnd /\ downq <= Wnd /\ written <= MaxWrites
           /\ req.body \in Int /\ req.cl \in Int /\ Size \in Nat
<1>1. req.body \in Bodies \cup {NoBody} /\ req.cl \in Lengths \cup {Absent}
    BY DEF TypeOK, Requests
<1>2. req.body \in Nat \/ req.body = -1
    BY <1>1, ExchangeAssumption DEF NoBody
<1>3. req.cl \in Nat \/ req.cl = -1
    BY <1>1, ExchangeAssumption DEF Absent
<1>4. req.body \in Int /\ req.cl \in Int /\ Size \in Nat
    BY <1>2, <1>3 DEF NoBody, Size
<1> QED
    BY <1>4, ExchangeAssumption DEF TypeOK

\* The lengths that a message may have.
LEMMA LengthNumber ==
    ASSUME NEW x \in Lengths \cup {-1, 0}
    PROVE  x \in Int /\ (x # -1 => 0 <= x)
<1>1. x \in Nat \/ x = -1
    BY ExchangeAssumption
<1> QED
    BY <1>1

\* ReadResponse: a response has a body of a known length, the one declared, or
\* of unknown length, and none where HTTP has none.
LEMMA ReadResponseLimits ==
    ASSUME NEW h, NEW method, h.cl \in Lengths \cup {Absent, Junk}, ReadResponse(h, method).ok
    PROVE  LET m == ReadResponse(h, method) IN
           /\ m.limit \in Lengths \cup {-1, 0}
           /\ method = "HEAD" \/ m.code \div 100 = 1 \/ m.code \in {204, 304} => m.limit = 0
           /\ m.cl \in Lengths \cup {-1, 0}
           /\ m.cl > 0 => m.limit \in {0, m.cl}
<1> DEFINE length == fixLength(TRUE, h.status, method, h.cl)
           declared == parseContentLength(h.cl)
<1>1. /\ length.ok /\ (method = "HEAD" => declared.ok)
      /\ ReadResponse(h, method) =
            [ok |-> TRUE, code |-> h.status, limit |-> length.n,
             cl |-> IF method = "HEAD" THEN declared.n ELSE length.n]
    BY DEF ReadResponse, Error
<1>2. declared.ok => declared.n \in Lengths \cup {-1}
    BY DEF parseContentLength, Absent, Junk, Error
<1>3. length = IF method = "HEAD" \/ h.status \div 100 = 1 \/ h.status \in {204, 304}
               THEN [ok |-> TRUE, n |-> 0]
               ELSE declared
    BY DEF fixLength, noBodyExpected
<1> HIDE DEF declared
<1> HIDE DEF length
<1>4. length.n \in Lengths \cup {-1, 0}
  <2>1. CASE length = declared
    BY <1>1, <1>2, <2>1
  <2>2. CASE length = [ok |-> TRUE, n |-> 0]
    BY <2>2
  <2> QED
    BY <1>3, <2>1, <2>2
<1>5. method = "HEAD" \/ h.status \div 100 = 1 \/ h.status \in {204, 304} => length.n = 0
    BY <1>3
<1> QED
    BY <1>1, <1>2, <1>4, <1>5

\* What the handler sees of the length a caller declares.
LEMMA LengthSeen ==
    ASSUME TypeOK, SeenInv
    PROVE  LengthTruthful
<1> SUFFICES ASSUME seen.ok, req.hcl = Absent, req.cl > 0 => req.cl = Size,
                    req.method = "GET" => Size = 0 \/ req.cl > 0
             PROVE  seen.method = req.method /\ seen.cl \in {Size, Absent}
    BY DEF LengthTruthful, Size
<1> DEFINE m == RequestFramingHeader(req)
<1>1. m.ok /\ seen = ReadRequest(m.h)
    BY DEF SeenInv, Error
<1>2. /\ m.h.method = req.method
      /\ m.h.cl = CASE req.cl > 0 -> req.cl
                   [] req.cl <= 0 /\ req.method = "POST" /\ req.body = NoBody -> 0
                   [] OTHER -> Absent
    BY <1>1 DEF RequestFramingHeader, Error
<1> HIDE DEF m
<1>3. /\ seen.method = m.h.method
      /\ seen.cl = IF m.h.cl = Absent /\ m.h.method = "GET" THEN 0 ELSE m.h.cl
    BY <1>1 DEF ReadRequest, Error
<1>4. req.cl > 0 => m.h.cl = Size
    BY <1>2, Numbers
<1>5. ~(req.cl > 0) /\ req.method = "POST" /\ req.body = NoBody => m.h.cl = 0 /\ Size = 0
    BY <1>2, Numbers DEF Size
<1>6. ~(req.cl > 0) /\ ~(req.method = "POST" /\ req.body = NoBody) => m.h.cl = Absent
    BY <1>2, Numbers
<1> QED
    BY <1>2, <1>3, <1>4, <1>5, <1>6 DEF Absent

--------------------------------------------------------------------------------

\* The initial state satisfies the inductive invariant.
LEMMA InitOK == Init => IInv
<1> SUFFICES ASSUME Init PROVE IInv
    OBVIOUS
<1>1. 0 \in 0..MaxWrites /\ 0 \in 0..Wnd
    BY ExchangeAssumption
<1>2. TypeOK
    BY <1>1 DEF Init, TypeOK
<1>3. hdr.cl = Absent
    BY DEF Init
<1>4. Typed /\ OpenInv
    BY <1>2, <1>3 DEF Init, Typed, OpenInv, Replies
<1>5. UpInv
    BY DEF Init, UpInv, UploadWhole
<1>6. DownInv
    BY ExchangeAssumption DEF Init, DownInv, EOFMeansWhole
<1>7. cpc # "ok"
    BY DEF Init
<1>8. SeenInv
  <2>1. seen = Error
    BY DEF Init
  <2> QED
    BY <2>1 DEF SeenInv
<1> QED
    BY <1>4, <1>5, <1>6, <1>7, <1>8 DEF IInv

\* A step that leaves the request body alone.
LEMMA UpSame ==
    ASSUME UpInv, UNCHANGED <<req, cpc, up, sent, read, upq, upfin, reof, lost>>,
           spc' = "reading" => spc = "reading" \/ ~reof
    PROVE  UpInv'
    BY DEF UpInv, UploadWhole, Size

\* A step that leaves the response body alone.
LEMMA DownSame ==
    ASSUME DownInv, UNCHANGED <<cpc, resp, got, bpc, written, downq, downfin, voided, cdown>>,
           spc = "ended" => spc' = "ended"
    PROVE  DownInv'
    BY DEF DownInv, EOFMeansWhole

\* A step that leaves the response that the caller has alone.
LEMMA RespSame ==
    ASSUME IInv, UNCHANGED <<req, cpc, resp, got>>
    PROVE  (cpc = "ok" => Limited)'
    BY DEF IInv, Limited

\* A step that opens nothing.
LEMMA OpenSame ==
    ASSUME OpenInv, UNCHANGED <<req, syn>>, cpc' \in {"added", "made"} => cpc' = cpc
    PROVE  OpenInv'
    BY DEF OpenInv

\* A step that leaves the request that the handler sees alone.
LEMMA SeenSame ==
    ASSUME SeenInv, UNCHANGED <<req, seen>>
    PROVE  SeenInv'
    BY DEF SeenInv

\* RoundTrip: the stream is added for a request that has a header.
LEMMA RoundTripOK ==
    ASSUME IInv, RoundTrip
    PROVE  IInv'
<1>1. /\ cpc = "idle" /\ cpc' \in {"added", "failed"}
      /\ cpc' = "added" => RequestFramingHeader(req).ok
      /\ UNCHANGED <<req, replyCh, up, sent, crst, resp, got, bpc, cdown, visit>>
      /\ UNCHANGED <<spc, seen, hdr, wroteHeader, reply, written, read, reof, srst>>
      /\ UNCHANGED <<syn, upq, upfin, downq, downfin, voided, lost>>
    BY DEF RoundTrip, serverVars, linkVars
<1>2. Typed'
    BY <1>1 DEF IInv, Typed, TypeOK, Replies
<1>3. OpenInv'
    BY <1>1 DEF IInv, OpenInv
<1>4. UpInv' /\ DownInv'
    BY <1>1 DEF IInv, UpInv, UploadWhole, Size, DownInv, EOFMeansWhole
<1>5. cpc' # "ok" /\ SeenInv'
    BY <1>1, SeenSame DEF IInv
<1> QED
    BY <1>2, <1>3, <1>4, <1>5 DEF IInv

\* The reply channel is made: it is empty.
LEMMA OpenReplyOK ==
    ASSUME IInv, OpenReply
    PROVE  IInv'
<1>1. /\ cpc = "added" /\ cpc' = "made" /\ replyCh' = EmptyChan
      /\ UNCHANGED <<req, up, sent, crst, resp, got, bpc, cdown, visit>>
      /\ UNCHANGED <<spc, seen, hdr, wroteHeader, reply, written, read, reof, srst>>
      /\ UNCHANGED <<syn, upq, upfin, downq, downfin, voided, lost>>
    BY DEF OpenReply, serverVars, linkVars
<1>2. Typed'
    BY <1>1 DEF IInv, Typed, TypeOK, Replies
<1>3. OpenInv' /\ UpInv' /\ DownInv'
    BY <1>1 DEF IInv, OpenInv, UpInv, UploadWhole, Size, DownInv, EOFMeansWhole
<1>4. cpc' # "ok" /\ SeenInv'
    BY <1>1, SeenSame DEF IInv
<1> QED
    BY <1>2, <1>3, <1>4 DEF IInv

\* The SYN_STREAM is written: a body starts the upload.
LEMMA OpenSynOK ==
    ASSUME IInv, OpenSyn
    PROVE  IInv'
<1>1. /\ cpc = "made" /\ cpc' \in {"waiting", "failed"}
      /\ UNCHANGED <<req, replyCh, sent, crst, resp, got, bpc, cdown, visit>>
      /\ UNCHANGED <<spc, seen, hdr, wroteHeader, reply, written, read, reof, srst>>
      /\ UNCHANGED <<upq, downq, downfin, voided, lost>>
    BY DEF OpenSyn, serverVars
<1>2. RequestFramingHeader(req).ok
    BY <1>1 DEF IInv, OpenInv
<1>3. RequestFramingHeader(req).fin = (req.body = NoBody)
    BY <1>2 DEF RequestFramingHeader, Error
<1>4. \/ UNCHANGED <<syn, up, upfin>>
      \/ /\ syn' = TRUE /\ upfin' = (req.body = NoBody)
         /\ up' = IF req.body = NoBody THEN "off" ELSE "copying"
    BY <1>3 DEF OpenSyn
<1>5. Typed'
  <2>1. {crst, syn, upfin, wroteHeader, reof, srst, downfin, lost, cdown}' \subseteq BOOLEAN
    BY <1>1, <1>4, Zenon DEF IInv, Typed, TypeOK
  <2>2. /\ cpc' \in {"idle", "added", "made", "waiting", "ok", "failed"}
        /\ up' \in {"off", "copying", "done"}
    BY <1>1, <1>4 DEF IInv, Typed, TypeOK
  <2> QED
    BY ONLY IInv, <1>1, <2>1, <2>2 DEF IInv, Typed, TypeOK, Replies
<1>6. OpenInv'
    BY <1>1, <1>2 DEF OpenInv
<1>7. UpInv'
  <2>1. read = 0 /\ upq = 0 /\ sent = 0 /\ up = "off" /\ ~upfin
    BY <1>1, Numbers DEF IInv, Typed, UpInv
  <2>2. req.body = NoBody => ~req.fails
    BY DEF IInv, Typed, TypeOK, Requests
  <2>3. CASE UNCHANGED <<syn, up, upfin>>
    BY <1>1, <2>1, <2>3 DEF IInv, UpInv, UploadWhole, Size
  <2>4. CASE req.body = NoBody /\ upfin' = TRUE /\ up' = "off"
    BY <1>1, <2>1, <2>2, <2>4 DEF IInv, UpInv, UploadWhole, Size
  <2>5. CASE req.body # NoBody /\ upfin' = FALSE /\ up' = "copying"
    BY <1>1, <2>1, <2>5 DEF IInv, UpInv, UploadWhole, Size
  <2> QED
    BY <1>4, <2>3, <2>4, <2>5, Zenon
<1>8. DownInv'
    BY <1>1 DEF IInv, DownInv, EOFMeansWhole
<1>9. cpc' # "ok" /\ SeenInv'
    BY <1>1, SeenSame DEF IInv
<1> QED
    BY <1>5, <1>6, <1>7, <1>8, <1>9 DEF IInv

\* A byte of the request body is sent and is under way, or lost with the connection.
LEMMA UploadOK ==
    ASSUME IInv, Upload
    PROVE  IInv'
<1>1. Typed'
  <2>1. crst' \in BOOLEAN
    BY Zenon DEF IInv, Typed, TypeOK, Upload
  <2>2. /\ up' \in {"off", "copying", "done"} /\ sent' \in Nat /\ upq' \in 0..Wnd
        /\ UNCHANGED <<req, cpc, replyCh, resp, got, bpc, cdown, visit>>
        /\ UNCHANGED <<spc, seen, hdr, wroteHeader, reply, written, read, reof, srst>>
        /\ UNCHANGED <<syn, upfin, downq, downfin, voided, lost>>
    BY Numbers DEF IInv, Typed, TypeOK, Upload, serverVars
  <2> QED
    BY ONLY IInv, <2>1, <2>2 DEF IInv, Typed, TypeOK, Replies
<1>2. UpInv'
    BY Numbers DEF IInv, Typed, UpInv, Upload, serverVars, UploadWhole, Size
<1>3. DownInv' /\ SeenInv' /\ (cpc = "ok" => Limited)' /\ OpenInv'
    BY DownSame, SeenSame, RespSame, OpenSame DEF IInv, Upload, serverVars
<1> QED
    BY <1>1, <1>2, <1>3 DEF IInv

\* The upload ends: FLAG_FIN follows the body only if it was read to its end.
LEMMA UploadEndOK ==
    ASSUME IInv, UploadEnd
    PROVE  IInv'
<1>1. Typed'
    BY DEF IInv, Typed, TypeOK, UploadEnd, serverVars, Replies
<1>2. UpInv'
    BY Numbers DEF IInv, Typed, UpInv, UploadEnd, serverVars, UploadWhole, Size
<1>3. DownInv' /\ SeenInv' /\ (cpc = "ok" => Limited)' /\ OpenInv'
    BY DownSame, SeenSame, RespSame, OpenSame DEF IInv, UploadEnd, serverVars
<1> QED
    BY <1>1, <1>2, <1>3 DEF IInv

\* The reply is put into the channel with its length.
LEMMA handleSynReplyOK ==
    ASSUME IInv, handleSynReply
    PROVE  IInv'
<1>1. Typed'
    BY DEF IInv, Typed, TypeOK, handleSynReply, serverVars, linkVars, Replies
<1>2. UpInv' /\ DownInv' /\ SeenInv' /\ (cpc = "ok" => Limited)'
    BY UpSame, DownSame, SeenSame, RespSame DEF IInv, handleSynReply, serverVars, linkVars
<1>3. OpenInv'
    BY OpenSame DEF IInv, handleSynReply, linkVars
<1> QED
    BY <1>1, <1>2, <1>3 DEF IInv

\* The end of the client's session cuts off what it has not read, FLAG_FIN first.
LEMMA SessionEndsOK ==
    ASSUME IInv, SessionEnds
    PROVE  IInv'
<1>0. /\ ~cdown /\ cdown' = TRUE
      /\ downq' \in 0..downq /\ voided' = voided + (downq - downq')
      /\ downfin' \in BOOLEAN /\ (downfin' => downfin /\ downq' = downq)
      /\ UNCHANGED <<req, cpc, replyCh, up, sent, crst, resp, got, bpc, visit>>
      /\ UNCHANGED <<spc, seen, hdr, wroteHeader, reply, written, read, reof, srst>>
      /\ UNCHANGED <<syn, upq, upfin, lost>>
    BY DEF SessionEnds, serverVars
<1>1. /\ downq' \in Nat /\ voided' \in Nat /\ downq' + voided' = downq + voided
      /\ downq' <= downq
    BY <1>0, Numbers DEF IInv, Typed
<1>2. downq' \in 0..Wnd /\ voided' \in 0..Wnd
    BY <1>1, Numbers DEF IInv, Typed, DownInv
<1>3. Typed'
  <2>1. TypeOK /\ Typed
    BY DEF IInv, Typed
  <2>2. {crst, syn, upfin, wroteHeader, reof, srst, downfin, lost, cdown}' \subseteq BOOLEAN
    BY ONLY <1>0, <2>1 DEF TypeOK
  <2>3. TypeOK'
    BY ONLY <1>0, <1>2, <2>1, <2>2 DEF TypeOK
  <2>4. /\ hdr.cl' \in Lengths \cup {Absent, Junk}
        /\ Replies' => reply.cl' \in Lengths \cup {Absent, Junk}
        /\ replyCh' \notin {NilChan, EmptyChan} => replyCh.cl' \in Lengths \cup {Absent, Junk}
        /\ spc' = "writing" => written' < MaxWrites
    BY ONLY <1>0, <2>1 DEF Typed, Replies, NilChan, EmptyChan
  <2> QED
    BY ONLY <2>3, <2>4 DEF Typed, NilChan, EmptyChan
<1>4. DownInv'
  <2>1. /\ got \in Nat /\ written \in Nat /\ voided \in Nat /\ downq \in Nat /\ Wnd \in Nat
        /\ got + downq + voided = written /\ downq + voided <= Wnd
    BY Numbers DEF IInv, Typed, DownInv
  <2>2. got + downq' + voided' = written /\ downq' + voided' <= Wnd
    <3>1. downq' + voided' <= Wnd
      BY <1>1, <2>1
    <3>2. got + (downq' + voided') = got + (downq + voided)
      BY <1>1
    <3>3. got + downq + voided = got + (downq + voided)
      BY <2>1
    <3>4. got + downq' + voided' = got + (downq' + voided')
      BY <1>1, <2>1
    <3> QED
      BY <2>1, <3>1, <3>2, <3>3, <3>4
  <2>3. downfin' => spc' = "ended" /\ voided' = 0
    BY <1>0, <2>1 DEF IInv, DownInv
  <2> QED
    BY <1>0, <2>2, <2>3 DEF IInv, DownInv, EOFMeansWhole
<1>5. UpInv' /\ SeenInv' /\ (cpc = "ok" => Limited)' /\ OpenInv'
    BY <1>0, UpSame, SeenSame, RespSame, OpenSame DEF IInv
<1> QED
    BY <1>3, <1>4, <1>5 DEF IInv

\* The teardown leaves a nil header at most.
LEMMA TeardownStreamOK ==
    ASSUME IInv, TeardownStream
    PROVE  IInv'
<1>0. /\ replyCh' \in {nilHeader, replyCh} /\ visit' \in {"early", "done"}
      /\ UNCHANGED <<req, cpc, up, sent, crst, resp, got, bpc, cdown>>
      /\ UNCHANGED <<spc, seen, hdr, wroteHeader, reply, written, read, reof, srst>>
      /\ UNCHANGED <<syn, upq, upfin, downq, downfin, voided, lost>>
    BY DEF TeardownStream, serverVars, linkVars
<1>1. nilHeader.cl = Absent
    BY DEF nilHeader
<1>2. Typed'
    BY <1>0, <1>1 DEF IInv, Typed, TypeOK, Replies
<1>3. UpInv' /\ DownInv' /\ SeenInv' /\ (cpc = "ok" => Limited)' /\ OpenInv'
    BY <1>0, UpSame, DownSame, SeenSame, RespSame, OpenSame DEF IInv
<1> QED
    BY <1>2, <1>3 DEF IInv

\* Header returns: the response that RoundTrip makes of the reply has its limit.
LEMMA AnswerOK ==
    ASSUME IInv, Answer
    PROVE  IInv'
<1>1. /\ resp' = ReadResponse(replyCh, req.method)
      /\ cpc' = IF resp'.ok THEN "ok" ELSE "failed"
      /\ crst' = (crst \/ ~resp'.ok) /\ replyCh' = NilChan
    BY DEF Answer
<1>2. replyCh.cl \in Lengths \cup {Absent, Junk}
    BY DEF Answer, IInv, Typed
<1>3. /\ cpc = "waiting"
      /\ UNCHANGED <<req, up, sent, got, bpc, cdown, visit, serverVars, linkVars>>
    BY DEF Answer
<1>4. Typed' /\ OpenInv'
    BY <1>1, <1>3, OpenSame DEF IInv, Typed, TypeOK, serverVars, linkVars, Replies
<1>5. UpInv'
    BY <1>1, <1>3 DEF IInv, UpInv, UploadWhole, Size, serverVars, linkVars
<1>6. DownInv'
    BY <1>1, <1>3 DEF IInv, DownInv, EOFMeansWhole, serverVars, linkVars
<1>7. ASSUME cpc' = "ok" PROVE Limited'
  <2>1. resp'.ok /\ got' = 0 /\ req' = req
    BY <1>1, <1>3, <1>7 DEF IInv, DownInv
  <2>2. /\ resp'.limit \in Lengths \cup {-1, 0}
        /\ req.method = "HEAD" \/ resp'.code \div 100 = 1 \/ resp'.code \in {204, 304}
              => resp'.limit = 0
        /\ resp'.cl \in Lengths \cup {-1, 0}
        /\ resp'.cl > 0 => resp'.limit \in {0, resp'.cl}
    BY <1>1, <1>2, <2>1, ReadResponseLimits
  <2>3. resp'.limit # -1 => 0 <= resp'.limit
    BY <2>2, LengthNumber
  <2> QED
    BY <2>1, <2>2, <2>3 DEF Limited
<1> QED
    BY <1>3, <1>4, <1>5, <1>6, <1>7, SeenSame DEF IInv, serverVars

\* A byte is read below the limit; io.EOF comes at the limit or after FLAG_FIN.
LEMMA ReadBodyOK ==
    ASSUME IInv, ReadBody
    PROVE  IInv'
<1>1. Typed'
    BY Numbers DEF IInv, Typed, TypeOK, ReadBody, serverVars, Replies
<1>2. DownInv'
    BY Numbers DEF IInv, Typed, DownInv, ReadBody, serverVars, EOFMeansWhole
<1>3. Limited'
  <2>1. /\ Limited /\ req' = req /\ resp' = resp
        /\ got' = got \/ (got' = got + 1 /\ got # resp.limit)
    BY DEF IInv, ReadBody
  <2>2. resp.limit \in Int /\ got \in Nat
    BY <2>1, Numbers, LengthNumber DEF Limited, IInv, Typed
  <2> QED
    BY <2>1, <2>2 DEF Limited
<1>4. UpInv' /\ SeenInv' /\ OpenInv'
    BY UpSame, SeenSame, OpenSame DEF IInv, ReadBody, serverVars
<1> QED
    BY <1>1, <1>2, <1>3, <1>4 DEF IInv

\* Closing the body takes nothing from it.
LEMMA CloseBodyOK ==
    ASSUME IInv, CloseBody
    PROVE  IInv'
<1>1. Typed'
    BY DEF IInv, Typed, TypeOK, CloseBody, serverVars, linkVars, Replies
<1>2. DownInv'
    BY DEF IInv, DownInv, CloseBody, EOFMeansWhole, serverVars, linkVars
<1>3. UpInv' /\ SeenInv' /\ (cpc = "ok" => Limited)' /\ OpenInv'
    BY UpSame, SeenSame, RespSame, OpenSame DEF IInv, CloseBody, serverVars, linkVars
<1> QED
    BY <1>1, <1>2, <1>3 DEF IInv

--------------------------------------------------------------------------------

\* Stream.Reply: FLAG_FIN arrives only while the client's session lasts.
LEMMA RepliedOK ==
    ASSUME IInv, NEW h, NEW fin \in BOOLEAN, Replied(h, fin),
           h.cl \in Lengths \cup {Absent, Junk}
    PROVE  /\ srst' \in BOOLEAN /\ downfin' \in BOOLEAN
           /\ Replies' => reply'.cl \in Lengths \cup {Absent, Junk}
           /\ downfin' => downfin \/ (fin /\ ~cdown)
<1>1. srst \in BOOLEAN /\ downfin \in BOOLEAN /\ cdown \in BOOLEAN
    BY DEF IInv, Typed, TypeOK
<1>2. srst' \in BOOLEAN /\ downfin' \in BOOLEAN
    BY <1>1 DEF Replied
<1>3. Replies' => reply'.cl \in Lengths \cup {Absent, Junk}
    BY DEF Replied, Replies, IInv, Typed
<1>4. downfin' => downfin \/ (fin /\ ~cdown)
    BY DEF Replied
<1> QED
    BY <1>2, <1>3, <1>4

\* framingHeader keeps the handler's Content-Length.
LEMMA FramingLength ==
    ASSUME IInv, NEW code
    PROVE  framingHeader(code, hdr).cl \in Lengths \cup {Absent, Junk}
<1>1. framingHeader(code, hdr).cl = hdr.cl
    BY DEF framingHeader
<1> QED
    BY <1>1 DEF IInv, Typed

\* serveStream: the handler sees the caller's request, or the 400 is written.
LEMMA serveStreamOK ==
    ASSUME IInv, serveStream
    PROVE  IInv'
<1>0. /\ spc = "idle"
      /\ UNCHANGED <<clientVars, hdr, wroteHeader, written, read, reof,
                     syn, upq, upfin, downq, voided, lost>>
    BY DEF serveStream
<1>1. ASSUME spc' = "running", UNCHANGED <<reply, downfin, srst>>
      PROVE  Typed' /\ UpInv' /\ DownInv' /\ (cpc = "ok" => Limited)'
  <2>1. Typed'
    BY <1>0, <1>1 DEF IInv, Typed, TypeOK, clientVars, Replies
  <2>2. UpInv' /\ DownInv' /\ (cpc = "ok" => Limited)'
    BY <1>0, <1>1, UpSame, DownSame, RespSame DEF IInv, clientVars
  <2> QED
    BY <2>1, <2>2
<1>2. ASSUME spc' = "ended", srst' = TRUE,
             IF lost
             THEN UNCHANGED <<reply, downfin>>
             ELSE reply' = badRequestHeader /\ downfin' = ~cdown
      PROVE  Typed' /\ UpInv' /\ DownInv' /\ (cpc = "ok" => Limited)'
  <2>1. badRequestHeader.cl = Absent
    BY DEF badRequestHeader
  <2>2. Typed'
    <3>1. downfin' \in BOOLEAN
      BY <1>2, Zenon DEF IInv, Typed, TypeOK
    <3> QED
      BY ONLY IInv, <1>0, <1>2, <2>1, <3>1 DEF IInv, Typed, TypeOK, clientVars, Replies
  <2>3. DownInv'
    BY <1>0, <1>2 DEF IInv, DownInv, EOFMeansWhole, clientVars
  <2>4. UpInv' /\ (cpc = "ok" => Limited)'
    BY <1>0, <1>2, UpSame, RespSame DEF IInv, clientVars
  <2> QED
    BY <2>2, <2>3, <2>4
<1>3. SeenInv'
    BY DEF serveStream, IInv, OpenInv, SeenInv, clientVars
<1>4. OpenInv'
    BY <1>0, OpenSame DEF IInv, clientVars
<1> QED
    BY <1>1, <1>2, <1>3, <1>4 DEF serveStream, IInv

\* Setting a header before the reply changes no byte count.
LEMMA SetHeaderOK ==
    ASSUME IInv, SetHeader
    PROVE  IInv'
<1>1. hdr'.cl \in Lengths \cup {Absent, Junk}
    BY DEF SetHeader
<1>2. Typed'
    BY <1>1 DEF IInv, Typed, TypeOK, SetHeader, clientVars, linkVars, Replies
<1> QED
    BY <1>2, UpSame, DownSame, SeenSame, RespSame, OpenSame DEF IInv, SetHeader, clientVars, linkVars

\* WriteHeader: the reply with its declared length, without FLAG_FIN.
LEMMA WriteHeaderOK ==
    ASSUME IInv, WriteHeader
    PROVE  IInv'
<1>1. PICK code \in Codes : Replied(framingHeader(code, hdr), FALSE)
    BY DEF WriteHeader
<1>2. /\ srst' \in BOOLEAN /\ downfin' \in BOOLEAN
      /\ Replies' => reply'.cl \in Lengths \cup {Absent, Junk}
      /\ downfin' => downfin
    BY <1>1, RepliedOK, FramingLength
<1>3. Typed'
    BY <1>2 DEF IInv, Typed, TypeOK, WriteHeader, clientVars
<1>4. DownInv'
    BY <1>2 DEF IInv, DownInv, EOFMeansWhole, WriteHeader, clientVars
<1> QED
    BY <1>3, <1>4, UpSame, SeenSame, RespSame, OpenSame DEF IInv, WriteHeader, clientVars

\* Write by the handler: the header first, without FLAG_FIN, then the wait for the window.
LEMMA WriteOK ==
    ASSUME IInv, Write
    PROVE  IInv'
<1>2. /\ srst' \in BOOLEAN /\ downfin' \in BOOLEAN
      /\ Replies' => reply'.cl \in Lengths \cup {Absent, Junk}
      /\ downfin' => downfin
  <2>1. CASE UNCHANGED <<reply, downfin, srst>>
    BY <2>1 DEF IInv, Typed, TypeOK, Replies
  <2>2. CASE Replied(framingHeader(200, hdr), FALSE)
    BY <2>2, RepliedOK, FramingLength
  <2> QED
    BY <2>1, <2>2 DEF Write
<1>3. Typed'
    BY <1>2 DEF IInv, Typed, TypeOK, Write, clientVars
<1>4. DownInv'
    BY <1>2 DEF IInv, DownInv, EOFMeansWhole, Write, clientVars
<1> QED
    BY <1>3, <1>4, UpSame, SeenSame, RespSame, OpenSame DEF IInv, Write, clientVars

\* A Write that waited for the window puts its byte under way.
LEMMA WriteReturnsOK ==
    ASSUME IInv, WriteReturns
    PROVE  IInv'
<1>1. Typed'
    BY Numbers DEF IInv, Typed, TypeOK, WriteReturns, clientVars, Replies
<1>2. DownInv'
    BY Numbers DEF IInv, Typed, DownInv, EOFMeansWhole, WriteReturns, clientVars
<1> QED
    BY <1>1, <1>2, UpSame, SeenSame, RespSame, OpenSame DEF IInv, WriteReturns, clientVars

\* Read by the handler: it begins to wait for a byte or for the end.
LEMMA ReadOK ==
    ASSUME IInv, Read
    PROVE  IInv'
<1>1. Typed'
    BY DEF IInv, Typed, TypeOK, Read, clientVars, linkVars, Replies
<1> QED
    BY <1>1, UpSame, DownSame, SeenSame, RespSame, OpenSame DEF IInv, Read, clientVars, linkVars

\* A Read takes a byte under way, or sees io.EOF after the whole body.
LEMMA ReadReturnsOK ==
    ASSUME IInv, ReadReturns
    PROVE  IInv'
<1>1. Typed'
    BY Numbers DEF IInv, Typed, TypeOK, ReadReturns, clientVars, Replies
<1>2. UpInv'
  <2>0. /\ spc' = "running" /\ UNCHANGED <<req, cpc, up, sent, upfin, lost>>
        /\ upq' = (IF upq > 0 THEN upq - 1 ELSE upq)
        /\ read' = read + (upq - upq')
        /\ reof' = (upq = 0 /\ upfin)
    BY DEF ReadReturns, clientVars
  <2>1. upq' + read' = upq + read /\ (reof' => upq = 0 /\ upfin /\ read' = read)
  <3>1. upq \in Nat /\ read \in Nat
    BY Numbers DEF IInv, Typed
  <3>2. upq' \in Nat
    BY <2>0, <3>1
  <3>3. upq' + read' = upq + read /\ (upq = 0 => read' = read)
    BY <2>0, <3>1, <3>2
  <3> QED
    BY <2>0, <3>3, Zenon
  <2>2. upq' \in Nat /\ read' \in Nat
    BY <1>1 DEF Typed, TypeOK
  <2> QED
    BY <2>0, <2>1, <2>2, Numbers DEF IInv, Typed, UpInv, UploadWhole, Size
<1> QED
    BY <1>1, <1>2, DownSame, SeenSame, RespSame, OpenSame DEF IInv, ReadReturns, clientVars

\* The handler has returned: FLAG_FIN follows all that it wrote.
LEMMA finishRequestOK ==
    ASSUME IInv, finishRequest
    PROVE  IInv'
<1>1. /\ srst' \in BOOLEAN /\ downfin' \in BOOLEAN /\ wroteHeader' \in BOOLEAN
      /\ Replies' => reply'.cl \in Lengths \cup {Absent, Junk}
      /\ downfin' => downfin \/ ~cdown
  <2>1. CASE wroteHeader
    BY <2>1 DEF finishRequest, IInv, Typed, TypeOK, Replies
  <2>2. CASE ~wroteHeader
    BY <2>2, RepliedOK, FramingLength DEF finishRequest
  <2> QED
    BY <2>1, <2>2
<1>2. /\ spc = "running" /\ spc' = "ended"
      /\ UNCHANGED <<clientVars, seen, hdr, written, read, reof,
                     syn, upq, upfin, downq, voided, lost>>
    BY DEF finishRequest
<1>3. Typed'
    BY <1>1, <1>2 DEF IInv, Typed, TypeOK, clientVars
<1>4. DownInv'
    BY <1>1, <1>2 DEF IInv, DownInv, EOFMeansWhole, clientVars
<1> QED
    BY <1>2, <1>3, <1>4, UpSame, SeenSame, RespSame, OpenSame DEF IInv, clientVars

\* Loss of the connection: what was under way may be lost, and nothing is added.
LEMMA DisconnectOK ==
    ASSUME IInv, Disconnect
    PROVE  IInv'
<1>0. /\ lost' = TRUE /\ UNCHANGED <<clientVars, serverVars, syn, downq, downfin, voided>>
      /\ upq' \in 0..upq /\ upfin' \in BOOLEAN /\ (upfin' => upfin /\ upq' = upq)
    BY DEF Disconnect
<1>1. Typed'
  <2>1. upq' \in 0..Wnd
    BY <1>0, Numbers DEF IInv, Typed
  <2> QED
    BY <1>0, <2>1 DEF IInv, Typed, TypeOK, clientVars, serverVars, Replies
<1>2. UpInv'
    BY <1>0, Numbers DEF IInv, Typed, UpInv, UploadWhole, Size, clientVars, serverVars
<1>3. DownInv'
    BY <1>0, DownSame DEF IInv, clientVars, serverVars
<1> QED
    BY <1>0, <1>1, <1>2, <1>3, SeenSame, RespSame, OpenSame DEF IInv, clientVars, serverVars

\* Every step preserves the inductive invariant.
LEMMA NextOK == IInv /\ [Next]_vars => IInv'
<1> SUFFICES ASSUME IInv, [Next]_vars PROVE IInv'
    OBVIOUS
<1>1. CASE UNCHANGED vars
  <2>1. Typed'
    BY <1>1 DEF IInv, Typed, TypeOK, vars, clientVars, serverVars, linkVars, Replies
  <2> QED
    BY <1>1, <2>1, UpSame, DownSame, SeenSame, RespSame, OpenSame
    DEF IInv, vars, clientVars, serverVars, linkVars
<1> QED
    BY <1>1, RoundTripOK, OpenReplyOK, OpenSynOK, UploadOK, UploadEndOK, AnswerOK, ReadBodyOK,
       CloseBodyOK, handleSynReplyOK, SessionEndsOK, TeardownStreamOK, serveStreamOK, SetHeaderOK, WriteHeaderOK, WriteOK, WriteReturnsOK, ReadOK, ReadReturnsOK,
       finishRequestOK, DisconnectOK
    DEF Next, Caller, readLoop, ReadFails, OtherRefused, Handler

--------------------------------------------------------------------------------

\* The inductive invariant holds in every reachable state.
THEOREM Invariant == Spec => []IInv
    BY InitOK, NextOK, PTL DEF Spec

\* The type invariant: no more than a window is under way in either direction,
\* and a header always has a length, no length or a bad one.
THEOREM TypeCorrect == Spec => []TypeOK
<1>1. IInv => TypeOK
    BY DEF IInv, Typed
<1> QED
    BY <1>1, Invariant, PTL

\* An end of the response body that the caller sees is the real end: the limit
\* declared, or all that the handler wrote before it returned.
THEOREM ResponseWhole == Spec => []EOFMeansWhole
<1>1. IInv => EOFMeansWhole
    BY DEF IInv, DownInv
<1> QED
    BY <1>1, Invariant, PTL

\* An end of the request body that the handler sees is the real end.
THEOREM RequestWhole == Spec => []UploadWhole
<1>1. IInv => UploadWhole
    BY DEF IInv, UpInv
<1> QED
    BY <1>1, Invariant, PTL

\* A length that the caller declares truly is seen truly, for every request.
THEOREM LengthSeenTruly == Spec => []LengthTruthful
<1>1. IInv => LengthTruthful
    BY LengthSeen DEF IInv, Typed
<1> QED
    BY <1>1, Invariant, PTL

\* The caller reads no body where HTTP has none, nor more than was declared.
THEOREM BodyBounded == Spec => []BodyWithinLength
<1>1. ASSUME IInv, cpc = "ok" PROVE BodyWithinLength
  <2>1. got \in Nat /\ resp.limit \in Int /\ resp.cl \in Int
    BY <1>1, Numbers, LengthNumber DEF IInv, Typed, Limited
  <2>2. /\ resp.limit # -1 => got <= resp.limit
        /\ req.method = "HEAD" \/ resp.code \div 100 = 1 \/ resp.code \in {204, 304}
              => resp.limit = 0
        /\ resp.cl > 0 => resp.limit \in {0, resp.cl}
    BY <1>1 DEF IInv, Limited
  <2> QED
    BY <2>1, <2>2 DEF BodyWithinLength
<1>2. IInv => BodyWithinLength
    BY <1>1 DEF BodyWithinLength
<1> QED
    BY <1>2, Invariant, PTL
================================================================================
