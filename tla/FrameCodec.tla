------------------------------- MODULE FrameCodec ------------------------------
(***************************************************************************)
(* read.go, write.go, types.go: frames to bytes and back, as functions.    *)
(*                                                                         *)
(* A byte has Radix values, so that a word (four bytes) and the 24-bit     *)
(* length can be small; shifts and masks are in terms of Radix.  A byte is *)
(* a record: b is its value; z is <<>>, or for a compressed byte the block *)
(* it belongs to and the number of that block in the compressor's stream.  *)
(***************************************************************************)
EXTENDS Integers, SequencesExt

CONSTANTS Radix,      \* 256
          PrioUnit,   \* 32: a priority is kept in the top bits of a byte
          BlockLen    \* bytes of a compressed header block

\* Powers of Radix: 16, 24 and 32 bits.
Radix2 == Radix * Radix
Radix3 == Radix2 * Radix
Radix4 == Radix3 * Radix

ASSUME CodecAssumption ==
    /\ Radix \in Nat /\ Radix >= 4
    /\ PrioUnit \in Nat \ {0} /\ Radix % PrioUnit = 0
    /\ BlockLen \in Nat \ {0} /\ BlockLen + 10 < Radix3

Version == 3
MaxDataLength == Radix3 - 1
ControlBit == Radix4 \div 2

\* ControlFrameType, and the frames of each type that cframeCtor makes.
TypeCode == [SYN_STREAM |-> 1, SYN_REPLY |-> 2, RST_STREAM |-> 3, SETTINGS |-> 4,
             PING |-> 6, GOAWAY |-> 7, HEADERS |-> 8, WINDOW_UPDATE |-> 9]

\* The frames, as far as callers fill them in.
Data(id, flags, data) == [type |-> "DATA", id |-> id, flags |-> flags, data |-> data]
SynStream(id, flags, assoc, prio, slot, h) ==
    [type |-> "SYN_STREAM", id |-> id, flags |-> flags, assoc |-> assoc, prio |-> prio,
     slot |-> slot, headers |-> h]
SynReply(id, flags, h) == [type |-> "SYN_REPLY", id |-> id, flags |-> flags, headers |-> h]
Headers(id, flags, h) == [type |-> "HEADERS", id |-> id, flags |-> flags, headers |-> h]
RstStream(id, status) == [type |-> "RST_STREAM", id |-> id, flags |-> 0, status |-> status]
Settings(flags, list) == [type |-> "SETTINGS", flags |-> flags, list |-> list]
Ping(id) == [type |-> "PING", flags |-> 0, id |-> id]
GoAway(id, status) == [type |-> "GOAWAY", id |-> id, flags |-> 0, status |-> status]
WindowUpdate(id, delta) == [type |-> "WINDOW_UPDATE", id |-> id, flags |-> 0, delta |-> delta]

HasHeaders(f) == f.type \in {"SYN_STREAM", "SYN_REPLY", "HEADERS"}

\* A frame whose fields are within the widths of their types, with a setting's id
\* in the 24 bits that are left beside its flag and a priority in its three bits.
\* No caller resets a stream with status zero, which is no RstStreamStatus.
WellFormed(f) ==
    LET U8 == 0..(Radix - 1)
        U32s == 0..(Radix4 - 1)
        Setting == [flag : U8, id : 0..(Radix3 - 1), value : U32s]
    IN
    CASE f.type = "DATA" ->
            /\ f = Data(f.id, f.flags, f.data)
            /\ f.id \in U32s /\ f.flags \in U8 /\ f.data \in Seq(U8)
      [] f.type = "SYN_STREAM" ->
            /\ f = SynStream(f.id, f.flags, f.assoc, f.prio, f.slot, f.headers)
            /\ f.id \in U32s /\ f.flags \in U8 /\ f.assoc \in U32s /\ f.slot \in U8
            /\ f.prio \in Nat /\ f.prio * PrioUnit < Radix
      [] f.type = "SYN_REPLY" ->
            f = SynReply(f.id, f.flags, f.headers) /\ f.id \in U32s /\ f.flags \in U8
      [] f.type = "HEADERS" ->
            f = Headers(f.id, f.flags, f.headers) /\ f.id \in U32s /\ f.flags \in U8
      [] f.type = "RST_STREAM" ->
            f = RstStream(f.id, f.status) /\ f.id \in U32s /\ f.status \in U32s \ {0}
      [] f.type = "SETTINGS" ->
            /\ f = Settings(f.flags, f.list) /\ f.flags \in U8
            /\ f.list \in Seq(Setting) /\ 8 * Len(f.list) + 4 < Radix3
      [] f.type = "PING" -> f = Ping(f.id) /\ f.id \in U32s
      [] f.type = "GOAWAY" ->
            f = GoAway(f.id, f.status) /\ f.id \in U32s /\ f.status \in U32s
      [] f.type = "WINDOW_UPDATE" ->
            f = WindowUpdate(f.id, f.delta) /\ f.id \in U32s /\ f.delta \in U32s
      [] OTHER -> FALSE

--------------------------------------------------------------------------------
\* Header fields.  A header maps names to lists of values.

\* strings.ToLower and http.CanonicalHeaderKey, on the names there are; a name
\* with a colon has one form only.
Canonical == [accept |-> "Accept", host |-> "Host", connection |-> "Connection"]
ToLower(name) ==
    IF name \in Range(Canonical) THEN CHOOSE l \in DOMAIN Canonical : Canonical[l] = name ELSE name
CanonicalKey(name) == IF name \in DOMAIN Canonical THEN Canonical[name] ELSE name

invalidReqHeaders == {"Connection", "Host", "Keep-Alive", "Proxy-Connection", "Transfer-Encoding"}
invalidRespHeaders == invalidReqHeaders \ {"Host"}

\* writeHeaderValueBlock: the names, lowercase, with the values, in the order in
\* which Go happens to range over the map.  Values are joined by a separator:
\* no values and one empty value look alike.
writeHeaderValueBlock(h) ==
    {[i \in DOMAIN names |-> <<ToLower(names[i]), IF h[names[i]] = <<>> THEN <<"">> ELSE h[names[i]]>>] :
        names \in SetToSeqs(DOMAIN h)}

\* parseHeaderValueBlock: h is keyed by canonical names, h[name] is looked up by
\* the lowercase one.
parseHeaderValueBlock(text) ==
    LET name(i) == ToLower(text[i][1])
        key(i) == CanonicalKey(name(i))
        valuesOf(k) == FlattenSeq([i \in DOMAIN text |-> IF key(i) = k THEN text[i][2] ELSE <<>>])
    IN [ok |-> /\ \A i \in DOMAIN text : text[i][1] = name(i)
               /\ \A i, j \in DOMAIN text : i < j => name(j) # key(i),
        headers |-> [k \in {key(i) : i \in DOMAIN text} |-> valuesOf(k)]]

\* zlib, flushed after every block: a block can be told from its bytes by a
\* reader that has seen all the blocks before it.
Deflate(text, n) == [i \in 1..BlockLen |-> [b |-> 1, z |-> <<n, text>>]]
Inflates(bytes, n) ==
    Len(bytes) = BlockLen /\ bytes[1].z # <<>> /\ bytes = Deflate(bytes[1].z[2], n)

--------------------------------------------------------------------------------
\* Writing: the fields of a frame, each written by one call, as byte strings.

\* What the bytes of a word count.
Weight == <<Radix3, Radix2, Radix, 1>>

\* binary.Write of an unsigned integer of k bytes.
Uint(n, k) == [i \in 1..k |-> [b |-> (n \div Weight[4 - k + i]) % Radix, z |-> <<>>]]

Word(n) == Uint(n, 4)

writeControlFrameHeader(f, length) ==
    <<Uint(Radix2 \div 2 + Version, 2), Uint(TypeCode[f.type], 2), Word(f.flags * Radix3 + length)>>

\* Errors that are found before anything is written.
Refused(f) ==
    \/ f.type \in {"SYN_STREAM", "SYN_REPLY", "HEADERS", "RST_STREAM", "PING", "DATA"} /\ f.id = 0
    \/ f.type = "DATA" /\ (f.id >= ControlBit \/ Len(f.data) > MaxDataLength)

\* RstStreamFrame.write: a status of zero is found after the id is written.
writeRst(f) ==
    writeControlFrameHeader(f, 8) \o <<Word(f.id)>>
        \o (IF f.status = 0 THEN <<>> ELSE <<Word(f.status)>>)

writeSettings(f) ==
    writeControlFrameHeader(f, 8 * Len(f.list) + 4) \o <<Word(Len(f.list))>>
        \o [j \in 1..(2 * Len(f.list)) |->
              LET s == f.list[(j + 1) \div 2] IN
              Word(IF j % 2 = 1 THEN s.flag * Radix3 + s.id ELSE s.value)]

writePing(f) == writeControlFrameHeader(f, 4) \o <<Word(f.id)>>
writeGoAway(f) == writeControlFrameHeader(f, 8) \o <<Word(f.id), Word(f.status)>>
writeWindowUpdate(f) == writeControlFrameHeader(f, 8) \o <<Word(f.id), Word(f.delta)>>

\* With buf, the contents of headerBuf.
writeSynStreamFrame(f, buf) ==
    writeControlFrameHeader(f, Len(buf) + 10)
        \o <<Word(f.id), Word(f.assoc), Uint(f.prio * PrioUnit, 1), Uint(f.slot, 1), buf>>

\* Variant: the length counts the fields of a SYN_STREAM.
writeSynReplyLong(f, buf) == writeControlFrameHeader(f, Len(buf) + 10) \o <<Word(f.id), buf>>

\* writeSynReplyFrame and writeHeadersFrame.
writeSynReplyFrame(f, buf) == writeControlFrameHeader(f, Len(buf) + 4) \o <<Word(f.id), buf>>

writeDataFrame(f) ==
    <<Word(f.id), Word(f.flags * Radix3 + Len(f.data))>>
        \o (IF f.data = <<>> THEN <<>> ELSE <<[i \in DOMAIN f.data |-> [b |-> f.data[i], z |-> <<>>]]>>)

\* Frame.write
Fields(f, buf) ==
    CASE f.type = "SYN_STREAM" -> writeSynStreamFrame(f, buf)
      [] f.type \in {"SYN_REPLY", "HEADERS"} -> writeSynReplyFrame(f, buf)
      [] f.type = "RST_STREAM" -> writeRst(f)
      [] f.type = "SETTINGS" -> writeSettings(f)
      [] f.type = "PING" -> writePing(f)
      [] f.type = "GOAWAY" -> writeGoAway(f)
      [] f.type = "WINDOW_UPDATE" -> writeWindowUpdate(f)
      [] f.type = "DATA" -> writeDataFrame(f)

--------------------------------------------------------------------------------
\* Reading: what ReadFrame makes of the bytes that have arrived.  Either it
\* waits for more, or it returns an error, or a frame and the bytes it used.

More == [res |-> "more"]
Fail == [res |-> "error"]
Got(f, n) == [res |-> "frame", frame |-> f, used |-> n]

Byte(in, i) == in[i].b
U16(in, i) == Byte(in, i) * Radix + Byte(in, i + 1)
U32(in, i) == U16(in, i) * Radix2 + U16(in, i + 2)

readRst(in, flags) ==
    CASE Len(in) < 16 -> More
      [] Len(in) >= 16 /\ (U32(in, 13) = 0 \/ U32(in, 9) = 0) -> Fail
      [] OTHER -> Got([RstStream(U32(in, 9), U32(in, 13)) EXCEPT !.flags = flags], 16)

readSettings(in, flags) ==
    LET n == U32(in, 9)
        at(i) == 13 + 8 * (i - 1)
    IN
    IF Len(in) < 12 \/ Len(in) < 12 + 8 * n
    THEN More
    ELSE Got(Settings(flags, [i \in 1..n |-> [flag |-> U32(in, at(i)) \div Radix3,
                                              id |-> U32(in, at(i)) % Radix3,
                                              value |-> U32(in, at(i) + 4)]]),
             12 + 8 * n)

readPing(in, flags) ==
    CASE Len(in) < 12 -> More
      [] Len(in) >= 12 /\ (U32(in, 9) = 0 \/ flags # 0) -> Fail
      [] OTHER -> Got(Ping(U32(in, 9)), 12)

\* GoAwayFrame.read and WindowUpdateFrame.read.
readPair(in, flags, length, type) ==
    CASE Len(in) < 12 -> More
      [] Len(in) >= 12 /\ (flags # 0 \/ length # 8) -> Fail
      [] Len(in) \in 12..15 /\ flags = 0 /\ length = 8 -> More
      [] OTHER -> Got(IF type = TypeCode.GOAWAY THEN GoAway(U32(in, 9), U32(in, 13))
                                                ELSE WindowUpdate(U32(in, 9), U32(in, 13)), 16)

\* The header block of f: size bytes behind the first used ones, block n of its
\* stream.  The decompressor is given exactly those bytes (headerReader.N).
readHeaders(in, used, size, n, invalid, f) ==
    LET block == SubSeq(in, used + 1, used + size)
        h == parseHeaderValueBlock(block[1].z[2])
    IN
    CASE Len(in) < used + size -> More
      [] Len(in) >= used + size /\ ~Inflates(block, n) -> Fail
      [] OTHER ->
            IF ~h.ok \/ DOMAIN h.headers \cap invalid # {} \/ f.id = 0
            THEN Fail
            ELSE Got([f EXCEPT !.headers = h.headers], used + size)

readSynStreamFrame(in, flags, length, n) ==
    IF Len(in) < 18 THEN More
    ELSE readHeaders(in, 18, length - 10, n, invalidReqHeaders,
                     SynStream(U32(in, 9), flags, U32(in, 13), Byte(in, 17) \div PrioUnit, Byte(in, 18), <<>>))

readSynReplyFrame(in, flags, length, n) ==
    IF Len(in) < 12 THEN More
    ELSE readHeaders(in, 12, length - 4, n, invalidRespHeaders, SynReply(U32(in, 9), flags, <<>>))

readHeadersFrame(in, flags, length, n) ==
    IF Len(in) < 12 THEN More
    ELSE readHeaders(in, 12, length - 4, n,
                     IF U32(in, 9) % 2 = 0 THEN invalidReqHeaders ELSE invalidRespHeaders,
                     Headers(U32(in, 9), flags, <<>>))

parseControlFrame(in, type, n) ==
    LET flags == U32(in, 5) \div Radix3
        length == U32(in, 5) % Radix3
    IN
    CASE type = TypeCode.SYN_STREAM -> readSynStreamFrame(in, flags, length, n)
      [] type = TypeCode.SYN_REPLY -> readSynReplyFrame(in, flags, length, n)
      [] type = TypeCode.RST_STREAM -> readRst(in, flags)
      [] type = TypeCode.SETTINGS -> readSettings(in, flags)
      [] type = TypeCode.PING -> readPing(in, flags)
      [] type = TypeCode.HEADERS -> readHeadersFrame(in, flags, length, n)
      [] type \in {TypeCode.GOAWAY, TypeCode.WINDOW_UPDATE} -> readPair(in, flags, length, type)
      [] OTHER -> Fail

parseDataFrame(in, id) ==
    LET length == U32(in, 5) % Radix3 IN
    CASE Len(in) < 8 + length -> More
      [] Len(in) >= 8 + length /\ id = 0 -> Fail
      [] OTHER -> Got(Data(id, U32(in, 5) \div Radix3, [i \in 1..length |-> Byte(in, 8 + i)]),
                      8 + length)

\* Framer.ReadFrame, after n header blocks.
ReadFrame(in, n) ==
    CASE Len(in) < 8 -> More
      [] Len(in) >= 8 /\ U32(in, 1) >= ControlBit -> parseControlFrame(in, U32(in, 1) % Radix2, n)
      [] OTHER -> parseDataFrame(in, U32(in, 1))
================================================================================
