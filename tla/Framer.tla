--------------------------------- MODULE Framer --------------------------------
(***************************************************************************)
(* Two framers joined by a connection: the goroutines of one session write *)
(* frames, one field at a time and one goroutine at a time, and the read   *)
(* goroutine of the other session reads them back.  The connection may     *)
(* fail at any moment; the end of what is under way is then lost, and all  *)
(* later writes fail.                                                      *)
(***************************************************************************)
EXTENDS FrameCodec

CONSTANTS Writers,    \* goroutines that write
          None,       \* nobody
          Frames,     \* the frames that they write
          MaxFrames   \* bound: frames written

ASSUME FramerAssumption ==
    MaxFrames \in Nat /\ None \notin Writers /\ \A f \in Frames : WellFormed(f)

VARIABLES wmu,        \* the goroutine that holds Session.wmu
          out,        \* fields that each goroutine has still to write
          headerBuf,  \* Framer.headerBuf
          blocks,     \* header blocks that headerCompressor has taken
          wire,       \* bytes under way
          failed,     \* the connection has failed
          begun,      \* frames whose writing has begun, in order
          unpacked,   \* header blocks that headerDecompressor has returned
          read,       \* frames read, in order
          rerr        \* ReadFrame has returned an error

vars == <<wmu, out, headerBuf, blocks, wire, failed, begun, unpacked, read, rerr>>

\* NewFramer, at both ends.
Init ==
    /\ wmu = None /\ out = [w \in Writers |-> <<>>]
    /\ headerBuf = <<>> /\ blocks = 0
    /\ wire = <<>> /\ failed = FALSE /\ begun = <<>>
    /\ unpacked = 0 /\ read = <<>> /\ rerr = FALSE

--------------------------------------------------------------------------------
\* The writing end.

\* Variant: writeFrame does not take wmu.
LockNot(w) == out[w] = <<>> /\ wmu' = w

\* Session.writeFrame takes wmu.
Lock(w) == wmu = None /\ wmu' = w

\* WriteFrame, up to the first write.  A frame that is refused leaves no trace.
\* The header goes through the compressor to headerBuf.
WriteFrame(w) ==
    /\ Len(begun) < MaxFrames
    /\ Lock(w)
    /\ \E f \in Frames :
          /\ ~Refused(f)
          /\ begun' = Append(begun, f)
          /\ \/ /\ HasHeaders(f)
                /\ \E text \in writeHeaderValueBlock(f.headers) :
                      headerBuf' = headerBuf \o Deflate(text, blocks)
                /\ blocks' = blocks + 1
             \/ /\ ~HasHeaders(f)
                /\ UNCHANGED <<headerBuf, blocks>>
          /\ out' = [out EXCEPT ![w] = Fields(f, headerBuf')]
    /\ UNCHANGED <<wire, failed, unpacked, read, rerr>>

\* Variant: headerBuf is not reset.
HeaderBufKept(w) == headerBuf

\* headerBuf.Reset, behind the last field of a frame with headers.
HeaderBufAfter(w) ==
    IF Len(out[w]) = 1 /\ HasHeaders(Last(begun)) THEN <<>> ELSE headerBuf

\* f.w.Write of the next field.
WriteField(w) ==
    /\ out[w] # <<>> /\ ~failed
    /\ wire' = wire \o Head(out[w])
    /\ out' = [out EXCEPT ![w] = Tail(@)]
    /\ wmu' = IF out'[w] = <<>> THEN None ELSE wmu
    /\ headerBuf' = HeaderBufAfter(w)
    /\ UNCHANGED <<blocks, failed, begun, unpacked, read, rerr>>

\* f.w.Write fails: the frame is given up.
WriteFails(w) ==
    /\ out[w] # <<>> /\ failed
    /\ out' = [out EXCEPT ![w] = <<>>]
    /\ wmu' = None
    /\ UNCHANGED <<headerBuf, blocks, wire, failed, begun, unpacked, read, rerr>>

ConnFails ==
    /\ ~failed
    /\ failed' = TRUE
    /\ \E n \in 0..Len(wire) : wire' = SubSeq(wire, 1, n)
    /\ UNCHANGED <<wmu, out, headerBuf, blocks, begun, unpacked, read, rerr>>

--------------------------------------------------------------------------------
\* The reading end: the loop of Session.read.

\* Variant: every frame advances the decompressor.
ReceiveUnpacksAll ==
    LET r == ReadFrame(wire, unpacked) IN
    /\ ~rerr
    /\ \/ /\ r.res = "frame"
          /\ read' = Append(read, r.frame)
          /\ wire' = SubSeq(wire, r.used + 1, Len(wire))
          /\ unpacked' = unpacked + 1
          /\ UNCHANGED rerr
       \/ /\ r.res = "error" \/ (r.res = "more" /\ failed)
          /\ rerr' = TRUE
          /\ UNCHANGED <<wire, unpacked, read>>
    /\ UNCHANGED <<wmu, out, headerBuf, blocks, failed, begun>>

\* ReadFrame, and the frame is handled.
Receive ==
    LET r == ReadFrame(wire, unpacked) IN
    /\ ~rerr
    /\ \/ /\ r.res = "frame"
          /\ read' = Append(read, r.frame)
          /\ wire' = SubSeq(wire, r.used + 1, Len(wire))
          /\ unpacked' = IF HasHeaders(r.frame) THEN unpacked + 1 ELSE unpacked
          /\ UNCHANGED rerr
       \/ /\ r.res = "error" \/ (r.res = "more" /\ failed)
          /\ rerr' = TRUE
          /\ UNCHANGED <<wire, unpacked, read>>
    /\ UNCHANGED <<wmu, out, headerBuf, blocks, failed, begun>>

Next ==
    \/ \E w \in Writers : WriteFrame(w) \/ WriteField(w) \/ WriteFails(w)
    \/ ConnFails
    \/ Receive

Spec == Init /\ [][Next]_vars

--------------------------------------------------------------------------------

TypeOK ==
    /\ wmu \in Writers \cup {None}
    /\ \A i \in DOMAIN wire : wire[i].b \in 0..(Radix - 1)
    /\ blocks \in 0..MaxFrames /\ unpacked \in 0..blocks
    /\ Len(begun) <= MaxFrames /\ {failed, rerr} \subseteq BOOLEAN
    /\ headerBuf # <<>> => Len(headerBuf) % BlockLen = 0

\* Frames are read as they were written and in the order in which their writing
\* began, whichever goroutines wrote them and wherever the connection failed:
\* no field of one frame gets into another, no header block is unpacked in the
\* context of another, and a frame cut short is never taken for a frame
\* (write.go:136-318, read.go:131-348, session.go:237-241).
ReadsWhatWasWritten == IsPrefix(read, begun)

\* Fields that the peer may not send (types.go:231-244).
Prohibited(f) ==
    HasHeaders(f) /\ DOMAIN f.headers \cap
        (IF f.type = "SYN_STREAM" \/ (f.type = "HEADERS" /\ f.id % 2 = 0)
         THEN invalidReqHeaders ELSE invalidRespHeaders) # {}

\* As long as the connection holds, ReadFrame refuses only frames with
\* prohibited fields: all else that WriteFrame accepts can be read, and the
\* session, which ends with the first error, goes on (read.go:145-175,
\* session.go:141-145).
OnlyProhibitedRefused ==
    rerr /\ ~failed =>
        Len(read) < Len(begun) /\ Prohibited(begun[Len(read) + 1])

\* The reader never waits for bytes that nobody will write: while no write is
\* under way, what is on the connection begins with a whole frame, or is nothing
\* (write.go:141-153, 184-318, read.go:159-175).
NoStarvedRead ==
    wmu = None /\ ~failed /\ ~rerr =>
        wire = <<>> \/ ReadFrame(wire, unpacked).res # "more"

\* A header as the methods of http.Header keep it: finitely many names, in their
\* canonical form, each with a value.
CanonicalHeader(h) ==
    /\ IsFiniteSet(DOMAIN h) /\ h = [n \in DOMAIN h |-> h[n]]
    /\ \A n \in DOMAIN h :
          CanonicalKey(ToLower(n)) = n /\ h[n] \in Seq(STRING) /\ h[n] # <<>>

\* DuplicateHeaders, "multiple headers with same name" (types.go:211): a block
\* in which two fields have the same name is not accepted.
DuplicatesRefused ==
    \A k \in DOMAIN read :
        HasHeaders(begun[k]) =>
            \A m, n \in DOMAIN begun[k].headers : ToLower(m) = ToLower(n) => m = n
================================================================================
