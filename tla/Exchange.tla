-------------------------------- MODULE Exchange -------------------------------
(***************************************************************************)
(* conn.go, server.go: one HTTP exchange on one stream, from Conn.RoundTrip *)
(* to the handler and back, with the goroutine that uploads the request    *)
(* body and the caller that reads the response body.                       *)
(*                                                                         *)
(* The stream is used through what it promises (Semaphore, Pipe, Session): *)
(* bytes arrive in order; Write waits while as much as a window is unread; *)
(* a reader gets what is left and then the error.  RST_STREAM is ignored   *)
(* by its receiver.  Open takes its steps apart, because the client's      *)
(* session may end between them: with the connection, or because of a      *)
(* SYN_REPLY that its framer refuses, while the connection stays open.     *)
(* What is under way then arrives in part.                                 *)
(***************************************************************************)
EXTENDS Message, FiniteSets

CONSTANTS Wnd,        \* the window of each direction, in bytes
          Methods, Paths, Protos,   \* of the requests
          Lengths,    \* Content-Length values
          Bodies,     \* lengths of request bodies
          Codes,      \* status codes that the handler writes
          Fields,     \* a field that it sets: "none", "Connection", ...
          MaxWrites   \* bound: bytes that the handler writes

ASSUME ExchangeAssumption ==
    /\ Wnd \in Nat \ {0} /\ MaxWrites \in Nat
    /\ Lengths \subseteq Nat /\ Bodies \subseteq Nat /\ Codes \subseteq Nat

Requests ==
    {r \in [method : Methods, path : Paths, proto : Protos, cl : Lengths \cup {Absent},
            hcl : Lengths \cup {Absent, Junk}, body : Bodies \cup {NoBody}, fails : BOOLEAN] :
        r.body = NoBody => ~r.fails}

NoReply == [none |-> TRUE]

\* Stream.reply: a nil channel, an empty one, or the header in it.
NilChan == [chan |-> "nil"]
EmptyChan == [chan |-> "empty"]

VARIABLES req,         \* the request; fails: its Body reader ends in an error
          cpc,         \* RoundTrip: "idle", in Open "added", "made", "waiting",
                       \* "ok", "failed"
          replyCh,     \* Stream.reply
          up, sent,    \* the upload: "off", "copying", "done"; bytes written
          crst,        \* the client has reset its stream
          upq, upfin,  \* to the server: unread bytes, FLAG_FIN sent
          resp, got,   \* the response and the body bytes read of it
          bpc,         \* resp.Body: "open", "eof", "error", "closed"
          spc,         \* "idle", "running", "reading", "writing", "ended"
          seen,        \* the request as the handler sees it
          hdr,         \* response.header
          wroteHeader, \* response.wroteHeader
          reply,       \* the SYN_REPLY's header, or NoReply
          written,     \* bytes that the handler has written
          read, reof,  \* request body bytes it has read; it has seen EOF
          srst,        \* the server has reset its stream
          downq, downfin, \* to the client: unread bytes, FLAG_FIN sent
          voided,      \* bytes to the client that its session did not read
          syn,         \* the SYN_STREAM is sent
          lost,        \* the connection has failed
          cdown,       \* the client's session has ended
          visit        \* the teardown's visit to the stream: "none", "early"
                       \* (before the reply channel was made), "done"

clientVars == <<req, cpc, replyCh, up, sent, crst, resp, got, bpc, cdown, visit>>
serverVars == <<spc, seen, hdr, wroteHeader, reply, written, read, reof, srst>>
linkVars == <<syn, upq, upfin, downq, downfin, voided, lost>>
vars == <<clientVars, serverVars, linkVars>>

Init ==
    /\ req \in Requests
    /\ cpc = "idle" /\ replyCh = NilChan /\ up = "off" /\ sent = 0 /\ crst = FALSE
    /\ resp = Error /\ got = 0 /\ bpc = "open" /\ cdown = FALSE /\ visit = "none"
    /\ spc = "idle" /\ seen = Error /\ hdr = [cl |-> Absent, field |-> "none"]
    /\ wroteHeader = FALSE /\ reply = NoReply /\ written = 0
    /\ read = 0 /\ reof = FALSE /\ srst = FALSE
    /\ syn = FALSE /\ upq = 0 /\ upfin = FALSE
    /\ downq = 0 /\ downfin = FALSE /\ voided = 0 /\ lost = FALSE

--------------------------------------------------------------------------------
\* The client.

\* RoundTrip, and Open up to add: it fails once the session has ended.
RoundTrip ==
    /\ cpc = "idle"
    /\ cpc' = IF RequestFramingHeader(req).ok /\ ~cdown THEN "added" ELSE "failed"
    /\ UNCHANGED <<req, replyCh, up, sent, crst, resp, got, bpc, cdown, visit,
                   serverVars, linkVars>>

\* Open makes the reply channel of a stream that is already in the table.
OpenReply ==
    /\ cpc = "added"
    /\ cpc' = "made"
    /\ replyCh' = EmptyChan
    /\ UNCHANGED <<req, up, sent, crst, resp, got, bpc, cdown, visit, serverVars, linkVars>>

\* Open writes the SYN_STREAM, and RoundTrip starts the upload.
OpenSyn ==
    LET m == RequestFramingHeader(req) IN
    /\ cpc = "made"
    /\ \/ /\ lost
          /\ cpc' = "failed"
          /\ UNCHANGED <<syn, up, upfin>>
       \/ /\ ~lost
          /\ cpc' = "waiting" /\ syn' = TRUE
          /\ upfin' = m.fin
          /\ up' = IF m.fin THEN "off" ELSE "copying"
    /\ UNCHANGED <<req, replyCh, sent, crst, resp, got, bpc, cdown, visit, serverVars,
                   upq, downq, downfin, voided, lost>>

\* io.Copy(st, body): a write waits for the window, and fails on a closed
\* stream.  writeData resets a stream whose window the teardown has closed.
Upload ==
    /\ up = "copying" /\ sent < req.body
    /\ \/ /\ ~lost /\ ~crst /\ visit = "none" /\ upq < Wnd
          /\ sent' = sent + 1 /\ upq' = upq + 1
          /\ UNCHANGED <<up, crst>>
       \/ /\ lost \/ crst \/ visit # "none"
          /\ up' = "done"
          /\ crst' = (crst \/ visit # "none")
          /\ UNCHANGED <<sent, upq>>
    /\ UNCHANGED <<req, cpc, replyCh, resp, got, bpc, cdown, visit, serverVars,
                   syn, upfin, downq, downfin, voided, lost>>

\* Variant: the stream is closed also after an error.
UploadEndAlways ==
    /\ up = "copying" /\ sent = req.body
    /\ up' = "done"
    /\ upfin' = (upfin \/ (~lost /\ ~crst))
    /\ UNCHANGED <<req, cpc, replyCh, sent, crst, resp, got, bpc, cdown, visit, serverVars,
                   syn, upq, downq, downfin, voided, lost>>

\* The body ends: st.Close(), or after an error nothing.
UploadEnd ==
    /\ up = "copying" /\ sent = req.body
    /\ up' = "done"
    /\ upfin' = (upfin \/ (~req.fails /\ ~lost /\ ~crst))
    /\ UNCHANGED <<req, cpc, replyCh, sent, crst, resp, got, bpc, cdown, visit, serverVars,
                   syn, upq, downq, downfin, voided, lost>>

\* The SYN_REPLY is on its way.
Replies == reply # NoReply
Refused == Replies /\ reply.field \in invalidRespHeaders

\* The client's read goroutine puts the reply into the channel.
handleSynReply ==
    /\ Replies /\ ~Refused /\ ~cdown /\ replyCh = EmptyChan
    /\ replyCh' = reply
    /\ UNCHANGED <<req, cpc, up, sent, crst, resp, got, bpc, cdown, visit, serverVars, linkVars>>

\* The client's session ends, having read some of what was under way.
SessionEnds ==
    /\ ~cdown
    /\ cdown' = TRUE
    /\ downq' \in 0..downq
    /\ voided' = voided + (downq - downq')
    /\ downfin' \in {FALSE, downfin /\ downq' = downq}
    /\ UNCHANGED <<req, cpc, replyCh, up, sent, crst, resp, got, bpc, visit, serverVars,
                   syn, upq, upfin, lost>>

\* ReadFrame fails: the connection is lost, or the reply has a prohibited field.
ReadFails == (lost \/ Refused) /\ SessionEnds

\* ReadFrame fails for the reply to another request: the connection stays open.
OtherRefused == SessionEnds

\* Variant: the teardown leaves nothing for Header.
TeardownSilent ==
    /\ cdown /\ visit = "none" /\ cpc \in {"added", "made", "waiting", "ok"}
    /\ visit' = IF cpc = "added" THEN "early" ELSE "done"
    /\ UNCHANGED <<req, cpc, replyCh, up, sent, crst, resp, got, bpc, cdown,
                   serverVars, linkVars>>

\* The teardown visits the stream: rclose, wnd.Close, and nil for Header, if the
\* channel is there and empty.
TeardownStream ==
    /\ cdown /\ visit = "none" /\ cpc \in {"added", "made", "waiting", "ok"}
    /\ visit' = IF cpc = "added" THEN "early" ELSE "done"
    /\ replyCh' = IF replyCh = EmptyChan THEN nilHeader ELSE replyCh
    /\ UNCHANGED <<req, cpc, up, sent, crst, resp, got, bpc, cdown, serverVars, linkVars>>

\* st.Header() returns the reply, or nil; RoundTrip resets the stream if it
\* cannot read the response.
Answer ==
    /\ cpc = "waiting" /\ replyCh \notin {NilChan, EmptyChan}
    /\ replyCh' = NilChan
    /\ resp' = ReadResponse(replyCh, req.method)
    /\ cpc' = IF resp'.ok THEN "ok" ELSE "failed"
    /\ crst' = (crst \/ ~resp'.ok)
    /\ UNCHANGED <<req, up, sent, got, bpc, cdown, visit, serverVars, linkVars>>

\* The caller reads resp.Body: at most limit bytes of the stream.
ReadBody ==
    /\ cpc = "ok" /\ bpc = "open"
    /\ \/ /\ got = resp.limit
          /\ bpc' = "eof"
          /\ UNCHANGED <<got, downq>>
       \/ /\ got # resp.limit /\ downq > 0
          /\ got' = got + 1 /\ downq' = downq - 1
          /\ UNCHANGED bpc
       \/ /\ got # resp.limit /\ downq = 0 /\ (downfin \/ visit # "none")
          /\ bpc' = IF downfin THEN "eof" ELSE "error"
          /\ UNCHANGED <<got, downq>>
    /\ UNCHANGED <<req, cpc, replyCh, up, sent, crst, resp, cdown, visit, serverVars,
                   syn, upq, upfin, downfin, voided, lost>>

\* body.Close: without a trailer nothing is read.
CloseBody ==
    /\ cpc = "ok" /\ bpc # "closed"
    /\ bpc' = "closed"
    /\ UNCHANGED <<req, cpc, replyCh, up, sent, crst, resp, got, cdown, visit,
                   serverVars, linkVars>>

--------------------------------------------------------------------------------
\* The server.

\* Stream.Reply; writeHeader resets the stream if the frame cannot be written.
\* What is written after the client's session has ended is never read.
Replied(h, fin) ==
    \/ /\ ~lost
       /\ reply' = h
       /\ downfin' = (fin /\ ~cdown)
       /\ UNCHANGED srst
    \/ /\ lost
       /\ srst' \in {srst, TRUE}
       /\ UNCHANGED <<reply, downfin>>

\* serveStream, up to the handler; a request that cannot be read is refused.
serveStream ==
    LET m == ReadRequest(RequestFramingHeader(req).h) IN
    /\ spc = "idle" /\ syn
    /\ \/ /\ m.ok
          /\ spc' = "running" /\ seen' = m
          /\ UNCHANGED <<reply, downfin, srst>>
       \/ /\ ~m.ok
          /\ spc' = "ended"
          /\ IF lost
             THEN UNCHANGED <<reply, downfin>>
             ELSE reply' = badRequestHeader /\ downfin' = ~cdown
          /\ srst' = TRUE
          /\ UNCHANGED seen
    /\ UNCHANGED <<clientVars, hdr, wroteHeader, written, read, reof,
                   syn, upq, upfin, downq, voided, lost>>

\* The handler sets a field of the response, before the header is written.
SetHeader ==
    /\ spc = "running" /\ ~wroteHeader /\ hdr.cl = Absent /\ hdr.field = "none"
    /\ \E n \in Lengths \cup {Absent, Junk}, f \in Fields : hdr' = [cl |-> n, field |-> f]
    /\ hdr' # hdr
    /\ UNCHANGED <<clientVars, spc, seen, wroteHeader, reply, written, read, reof, srst, linkVars>>

\* Variant: the header is written with FLAG_FIN.
WriteHeaderFin ==
    /\ spc = "running" /\ ~wroteHeader
    /\ wroteHeader' = TRUE
    /\ \E code \in Codes : Replied(framingHeader(code, hdr), TRUE)
    /\ UNCHANGED <<clientVars, spc, seen, hdr, written, read, reof,
                   syn, upq, upfin, downq, voided, lost>>

\* response.WriteHeader: only the first call writes.
WriteHeader ==
    /\ spc = "running" /\ ~wroteHeader
    /\ wroteHeader' = TRUE
    /\ \E code \in Codes : Replied(framingHeader(code, hdr), FALSE)
    /\ UNCHANGED <<clientVars, spc, seen, hdr, written, read, reof,
                   syn, upq, upfin, downq, voided, lost>>

\* response.Write of one byte: the header first, then the stream's Write.
Write ==
    /\ spc = "running" /\ written < MaxWrites
    /\ spc' = "writing"
    /\ wroteHeader' = TRUE
    /\ \/ wroteHeader /\ UNCHANGED <<reply, downfin, srst>>
       \/ ~wroteHeader /\ Replied(framingHeader(200, hdr), FALSE)
    /\ UNCHANGED <<clientVars, seen, hdr, written, read, reof,
                   syn, upq, upfin, downq, voided, lost>>

\* Variant: Write does not wait for the window.
WriteReturnsNoWait ==
    /\ spc = "writing"
    /\ spc' = "running"
    /\ IF lost \/ srst
       THEN UNCHANGED <<written, downq, voided>>
       ELSE /\ written' = written + 1
            /\ IF cdown
               THEN voided' = voided + 1 /\ UNCHANGED downq
               ELSE downq' = downq + 1 /\ UNCHANGED voided
    /\ UNCHANGED <<clientVars, seen, hdr, wroteHeader, reply, read, reof, srst,
                   syn, upq, upfin, downfin, lost>>

\* The stream's Write waits for the window, and fails once it is closed.
WriteReturns ==
    /\ spc = "writing"
    /\ lost \/ srst \/ downq + voided < Wnd
    /\ spc' = "running"
    /\ IF lost \/ srst
       THEN UNCHANGED <<written, downq, voided>>
       ELSE /\ written' = written + 1
            /\ IF cdown
               THEN voided' = voided + 1 /\ UNCHANGED downq
               ELSE downq' = downq + 1 /\ UNCHANGED voided
    /\ UNCHANGED <<clientVars, seen, hdr, wroteHeader, reply, read, reof, srst,
                   syn, upq, upfin, downfin, lost>>

\* The handler reads the request body.
Read ==
    /\ spc = "running" /\ ~reof
    /\ spc' = "reading"
    /\ UNCHANGED <<clientVars, seen, hdr, wroteHeader, reply, written, read, reof, srst, linkVars>>

\* body.Read: waits for a byte, the end of the body or an error.
ReadReturns ==
    /\ spc = "reading"
    /\ upq > 0 \/ upfin \/ lost \/ srst
    /\ spc' = "running"
    /\ upq' = IF upq > 0 THEN upq - 1 ELSE upq
    /\ read' = read + (upq - upq')
    /\ reof' = (upq = 0 /\ upfin)
    /\ UNCHANGED <<clientVars, seen, hdr, wroteHeader, reply, written, srst,
                   syn, upfin, downq, downfin, voided, lost>>

\* Variant: a handler that wrote nothing leaves the request unanswered.
finishRequestSilent ==
    /\ spc = "running"
    /\ spc' = "ended"
    /\ downfin' = (downfin \/ (wroteHeader /\ ~lost /\ ~srst /\ ~cdown))
    /\ UNCHANGED <<clientVars, seen, hdr, written, read, reof, wroteHeader, reply, srst,
                   syn, upq, upfin, downq, voided, lost>>

\* The handler returns; response.finishRequest.
finishRequest ==
    /\ spc = "running"
    /\ spc' = "ended"
    /\ \/ /\ ~wroteHeader
          /\ wroteHeader' = TRUE
          /\ Replied(framingHeader(200, hdr), TRUE)
       \/ /\ wroteHeader
          /\ downfin' = (downfin \/ (~lost /\ ~srst /\ ~cdown))
          /\ UNCHANGED <<wroteHeader, reply, srst>>
    /\ UNCHANGED <<clientVars, seen, hdr, written, read, reof,
                   syn, upq, upfin, downq, voided, lost>>

\* The connection fails: the end of what is under way does not arrive.  What
\* the client's session has not read is cut off when it ends.
Disconnect ==
    /\ ~lost
    /\ lost' = TRUE
    /\ upq' \in 0..upq
    /\ upfin' \in {FALSE, upfin /\ upq' = upq}
    /\ UNCHANGED <<clientVars, serverVars, syn, downq, downfin, voided>>

Caller == OpenReply \/ OpenSyn \/ Answer
readLoop == handleSynReply \/ ReadFails \/ TeardownStream
Handler ==
    \/ SetHeader \/ WriteHeader \/ Write \/ WriteReturns
    \/ Read \/ ReadReturns \/ finishRequest

Next ==
    \/ RoundTrip \/ Caller \/ Upload \/ UploadEnd \/ ReadBody \/ CloseBody
    \/ readLoop \/ OtherRefused
    \/ serveStream \/ Handler \/ Disconnect

Spec == Init /\ [][Next]_vars

\* Goroutines that can run do, and a handler does not go on for ever.  Nothing
\* makes the caller read the body.
Fairness ==
    /\ WF_vars(Caller) /\ WF_vars(Upload \/ UploadEnd) /\ WF_vars(readLoop)
    /\ WF_vars(~lost /\ serveStream) /\ WF_vars(Handler)

FairSpec == Spec /\ Fairness

--------------------------------------------------------------------------------

TypeOK ==
    /\ req \in Requests
    /\ cpc \in {"idle", "added", "made", "waiting", "ok", "failed"}
    /\ visit \in {"none", "early", "done"}
    /\ up \in {"off", "copying", "done"} /\ sent \in Nat
    /\ bpc \in {"open", "eof", "error", "closed"} /\ got \in Nat
    /\ spc \in {"idle", "running", "reading", "writing", "ended"}
    /\ written \in 0..MaxWrites /\ read \in Nat
    /\ upq \in 0..Wnd /\ downq \in 0..Wnd /\ voided \in 0..Wnd
    /\ {crst, syn, upfin, wroteHeader, reof, srst, downfin, lost, cdown} \subseteq BOOLEAN

\* The caller takes the response body to be complete only if it has all of
\* what the handler wrote, and the handler has returned, or all of the length
\* declared (server.go:184-197, response.go:57-66).
EOFMeansWhole ==
    bpc = "eof" => got = resp.limit \/ (spc = "ended" /\ got = written)

\* The handler takes the request body to be complete only if it has all of it
\* and the caller's Body did not fail half-way (conn.go:40-48).
UploadWhole ==
    reof => read = (IF req.body = NoBody THEN 0 ELSE req.body) /\ ~req.fails

\* A caller that declares the length of the body truly, or not at all, has it
\* seen truly by the handler, or not at all.  A GET body of undeclared length
\* is the exception the code states (request.go:52-56,101-105).
LengthTruthful ==
    LET size == IF req.body = NoBody THEN 0 ELSE req.body IN
    seen.ok /\ req.hcl = Absent /\ (req.cl > 0 => req.cl = size)
            /\ (req.method = "GET" => size = 0 \/ req.cl > 0)
        => seen.method = req.method /\ seen.cl \in {size, Absent}

\* No bytes are taken for a body where HTTP has none, in an answer to HEAD or
\* with a status of 1xx, 204 or 304, nor more than declared (transfer.go:37-73).
BodyWithinLength ==
    cpc = "ok" =>
        /\ req.method = "HEAD" \/ resp.code \div 100 = 1 \/ resp.code \in {204, 304}
              => got = 0
        /\ resp.cl > 0 => got <= resp.cl

\* "The header is taken from h, which must include the SPDY-specific fields
\* starting with ':'" (response.go:10-11): every header that the server
\* replies with has a status and a version.
RepliesReadable ==
    reply # NoReply => reply.status # NoStatus /\ reply.version # ""

\* RoundTrip returns, if the request body does not fail: the handler always
\* ends up replying, and never waits for the caller to read before it does, and
\* the end of the session, for whatever reason, leaves nil for Header
\* (conn.go:49, server.go:184-191, session.go:131-138).  The exception is a
\* session that ends while Open has added the stream and not yet made its reply
\* channel (session.go:259-266): the teardown then leaves nothing.
RoundTripReturns ==
    (cpc \in {"added", "made", "waiting"} /\ ~req.fails)
        ~> cpc \in {"ok", "failed"} \/ visit = "early"
================================================================================
