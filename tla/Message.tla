-------------------------------- MODULE Message --------------------------------
(***************************************************************************)
(* request.go, response.go, transfer.go: HTTP messages to and from the     *)
(* header blocks of SPDY frames, as functions.                             *)
(*                                                                         *)
(* A header block keeps the fields the code decides on.  A Content-Length  *)
(* value is a natural number, Absent (no field, or a blank one) or Junk    *)
(* (not a number, or a negative one).  A status line that is not a number, *)
(* as in a nil header, is NoStatus.                                        *)
(***************************************************************************)
EXTENDS Integers

Absent == -1
Junk == -2
NoStatus == -1

\* badRespHeaderFields
badRespHeaderFields == {"Connection", "Keep-Alive", "Proxy-Connection", "Transfer-Encoding"}

\* invalidRespHeaders of the framer: the same fields.
invalidRespHeaders == {"Connection", "Keep-Alive", "Proxy-Connection", "Transfer-Encoding"}

Error == [ok |-> FALSE]

\* parseContentLength: -1 if there is no value.
parseContentLength(cl) == IF cl = Junk THEN Error ELSE [ok |-> TRUE, n |-> cl]

noBodyExpected(method) == method = "HEAD"

\* Variant: an answer to HEAD is taken to have the length it declares.
fixLengthHead(isResponse, status, method, cl) ==
    CASE status \div 100 = 1 \/ status \in {204, 304} -> [ok |-> TRUE, n |-> 0]
      [] OTHER -> parseContentLength(cl)

\* fixLength: the length to expect, -1 if the body ends with the stream.
fixLength(isResponse, status, method, cl) ==
    CASE noBodyExpected(method) \/ status \div 100 = 1 \/ status \in {204, 304} ->
            [ok |-> TRUE, n |-> 0]
      [] ~isResponse /\ method = "GET" /\ cl = Absent -> [ok |-> TRUE, n |-> 0]
      [] OTHER -> parseContentLength(cl)

\* RequestFramingHeader: of a request with method, path, proto, the caller's
\* ContentLength (cl), the Content-Length among its header fields (hcl) and a
\* body of some length, NoBody for nil.
NoBody == -1
RequestFramingHeader(r) ==
    IF r.cl > 0 /\ r.body = NoBody
    THEN Error
    ELSE [ok |-> TRUE,
          fin |-> r.body = NoBody,
          h |-> [method |-> r.method, path |-> r.path,
                 version |-> IF r.proto = "" THEN "HTTP/1.1" ELSE r.proto,
                 cl |-> CASE r.cl > 0 -> r.cl
                          [] r.cl <= 0 /\ r.method = "POST" /\ r.body = NoBody -> 0
                          [] OTHER -> r.hcl]]

\* http.ParseHTTPVersion, on the versions there are.
ParseHTTPVersion(v) == v \in {"HTTP/1.0", "HTTP/1.1"}

\* Variant: every request is assumed to have no body by default.
ReadRequestAnyMethod(h) ==
    IF h.path = "" \/ h.path = "*" \/ ~ParseHTTPVersion(h.version) \/ h.cl = Junk
    THEN Error
    ELSE [ok |-> TRUE, method |-> h.method, cl |-> IF h.cl = Absent THEN 0 ELSE h.cl]

\* ReadRequest: the path must be there and start with a slash; a GET request
\* without Content-Length is assumed to have no body.
ReadRequest(h) ==
    IF h.path = "" \/ h.path = "*" \/ ~ParseHTTPVersion(h.version) \/ h.cl = Junk
    THEN Error
    ELSE [ok |-> TRUE, method |-> h.method,
          cl |-> IF h.cl = Absent /\ h.method = "GET" THEN 0 ELSE h.cl]

\* response.framingHeader: the handler's fields, but never Connection.
framingHeader(code, hdr) ==
    [status |-> code, version |-> "HTTP/1.1", cl |-> hdr.cl,
     field |-> IF hdr.field = "Connection" THEN "none" ELSE hdr.field]

\* The answer of serveStream to a request that it cannot read.
badRequestHeader == [status |-> 400, version |-> "", cl |-> Absent, field |-> "none"]

\* What Stream.Header returns when there is no reply.
nilHeader == [status |-> NoStatus, version |-> "", cl |-> Absent, field |-> "none"]

\* ReadResponse: limit is how much of the stream is the body, -1 for all of it.
ReadResponse(h, method) ==
    LET length == fixLength(TRUE, h.status, method, h.cl)
        declared == parseContentLength(h.cl)
    IN
    IF \/ h.field \in badRespHeaderFields
       \/ h.status = NoStatus
       \/ ~ParseHTTPVersion(h.version)
       \/ ~length.ok
       \/ method = "HEAD" /\ ~declared.ok
    THEN Error
    ELSE [ok |-> TRUE, code |-> h.status, limit |-> length.n,
          cl |-> IF method = "HEAD" THEN declared.n ELSE length.n]
================================================================================
