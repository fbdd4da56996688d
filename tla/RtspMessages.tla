----------------------------- MODULE RtspMessages -----------------------------
(***************************************************************************)
(* What an RTSP connection makes of the bytes of its client                *)
(* (src/media/protocol/rtsp/rtsp_request_parser.cpp, and the read side of  *)
(* rtsp_connection.cpp): TCP delivers the messages in arbitrary chunks,    *)
(* the parser is asked anew whenever a chunk has come, and requests and    *)
(* interleaved frames follow each other in one buffer.                     *)
(*                                                                         *)
(* A byte is a symbol.  A word whose letters make no difference to the     *)
(* code - a method, a field name, a scheme, the prefix of the version - is *)
(* one symbol, and counts as one byte.                                     *)
(***************************************************************************)
EXTENDS Integers, FiniteSets, SequencesExt

CONSTANTS
  Streams,            \* what clients send: sequences of messages, each its bytes and what it means
  Chunks,             \* how many bytes a read may bring
  MaxRequestLine, MaxHeaderLine, MaxHeaders, MaxBody  \* RtspRequestParser::Limits

VARIABLES
  sent,        \* the messages the client sends on this connection
  arrived,     \* how many of their bytes have been read
  buffer,      \* read_buffer_
  dispatched,  \* the requests and frames handed to the session, in order
  failed       \* the parse error has been reported, and the connection reads no more

vars == <<sent, arrived, buffer, dispatched, failed>>

-----------------------------------------------------------------------------
(* Characters *)

Digit == [c \in {"0", "1", "2", "3"} |->
            CASE c = "0" -> 0 [] c = "1" -> 1 [] c = "2" -> 2 [] OTHER -> 3]
Blanks == {" ", "HT"}
Controls == {"NUL", "CR", "LF", "HT"}
Letters == {"PLAY", "rtsp", "cam", "Session", "Content-Length", "CONTENT-LENGTH", "A", "f"}
LowerCase(c) == IF c = "CONTENT-LENGTH" THEN "Content-Length" ELSE c

AsciiEqualsIgnoreCase(v, w) ==
  Len(v) = Len(w) /\ \A i \in DOMAIN v : LowerCase(v[i]) = LowerCase(w[i])

IsTokenCharacter(c) == c \notin Controls \cup {" ", ":", "/", "?", "=", "@", "RTSP/"}
IsSchemeCharacter(c) == c \in Letters \cup DOMAIN Digit \cup {"+", "-", "."}
IsHexDigit(c) == c \in DOMAIN Digit \cup {"A", "f"}
IsUriCharacter(c) == c \in Letters \cup DOMAIN Digit \cup {"$", "-", ".", "/", "?", ":", "@", "="}

IsValidFieldValue(v) == \A i \in DOMAIN v : v[i] = "HT" \/ v[i] \notin Controls

TrimLinearWhitespace(v) ==
  LET ink == {i \in DOMAIN v : v[i] \notin Blanks}
  IN  IF ink = {} THEN <<>> ELSE SubSeq(v, Min(ink), Max(ink))

\* The place of the first c of v, or 0.
Find(v, c) == SelectInSeq(v, LAMBDA x : x = c)

\* A "%" needs two hexadecimal digits after it, which are characters of a URI themselves.
IsAbsoluteUri(uri) ==
  LET colon == Find(uri, ":")
  IN  \/ uri = <<"*">>
      \/ /\ colon > 1 /\ uri[1] \in Letters
         /\ \A i \in 2 .. colon - 1 : IsSchemeCharacter(uri[i])
         /\ \A i \in colon + 1 .. Len(uri) :
              \/ IsUriCharacter(uri[i])
              \/ /\ uri[i] = "%" /\ i + 2 <= Len(uri)
                 /\ IsHexDigit(uri[i + 1]) /\ IsHexDigit(uri[i + 2])

NotANumber == -1
MaxVersion == 99999999  \* an unsigned int

\* Any length but none beyond the maximum, compared before the digit is added.
ParseUnsigned(v, maximum) ==
  IF v = <<>> THEN NotANumber
  ELSE FoldLeft(LAMBDA n, c : IF \/ n = NotANumber \/ c \notin DOMAIN Digit
                                 \/ Digit[c] > maximum \/ n > (maximum - Digit[c]) \div 10
                              THEN NotANumber ELSE n * 10 + Digit[c],
                0, v)

-----------------------------------------------------------------------------
(* RtspRequestParser *)

NeedMoreData == [status |-> "more"]
Error == [status |-> "error"]

\* A line ends with CR LF; a CR at the very end may yet become one, any other CR or LF is an error.
LineEndsAt(s, begin, stop) ==
  IF s[stop] = "CR" THEN IF stop = Len(s) THEN NeedMoreData ELSE Error
  ELSE IF stop > begin /\ s[stop - 1] = "CR" THEN [status |-> "complete", end |-> stop - 1]
  ELSE Error

FirstStop(s, begin, stops) == IF stops = {} THEN NeedMoreData ELSE LineEndsAt(s, begin, Min(stops))

FindLineEnd(s, begin) ==
  FirstStop(s, begin, {i \in begin .. Len(s) :
    s[i] = "LF" \/ (s[i] = "CR" /\ (i = Len(s) \/ s[i + 1] # "LF"))})

\* Defect: the CR that has come without its LF counts as contents of the line.
PartialLineLengthWithCr(s, begin) == Len(s) - begin + 1

PartialLineLength(s, begin) ==
  Len(s) - begin + 1 - (IF Len(s) >= begin /\ Last(s) = "CR" THEN 1 ELSE 0)

\* Two numbers and the one dot between them.
Numbers(v, dots) ==
  IF Cardinality(dots) # 1 THEN <<NotANumber>>
  ELSE <<ParseUnsigned(SubSeq(v, 1, Min(dots) - 1), MaxVersion),
         ParseUnsigned(SubSeq(v, Min(dots) + 1, Len(v)), MaxVersion)>>

ParseVersion(v) ==
  IF v = <<>> \/ v[1] # "RTSP/" THEN <<NotANumber>>
  ELSE Numbers(Tail(v), {i \in DOMAIN Tail(v) : Tail(v)[i] = "."})

\* METHOD SP URI SP VERSION, with no other space.
AsRequestLine(method, uri, version) ==
  IF /\ method # <<>> /\ \A i \in DOMAIN method : IsTokenCharacter(method[i])
     /\ IsAbsoluteUri(uri) /\ NotANumber \notin Range(version)
  THEN [status |-> "complete", method |-> method, uri |-> uri, version |-> version]
  ELSE Error

ParseRequestLine(line, spaces) ==
  IF Cardinality(spaces) # 2 THEN Error
  ELSE AsRequestLine(SubSeq(line, 1, Min(spaces) - 1),
                     SubSeq(line, Min(spaces) + 1, Max(spaces) - 1),
                     ParseVersion(SubSeq(line, Max(spaces) + 1, Len(line))))

Headers(headers) == [status |-> "complete", headers |-> headers]

\* A line that begins with a blank continues the field before it.
Continue(headers, more) ==
  IF headers = <<>> \/ ~IsValidFieldValue(more) THEN Error
  ELSE IF more = <<>> THEN Headers(headers)
  ELSE Headers([headers EXCEPT ![Len(headers)].value =
                  @ \o (IF @ = <<>> THEN more ELSE <<" ">> \o more)])

NewField(headers, name, value) ==
  IF /\ name # <<>> /\ \A i \in DOMAIN name : IsTokenCharacter(name[i])
     /\ IsValidFieldValue(value)
  THEN Headers(Append(headers, [name |-> name, value |-> value]))
  ELSE Error

AddHeader(headers, line) ==
  IF line[1] \in Blanks THEN Continue(headers, TrimLinearWhitespace(line))
  ELSE NewField(headers, SubSeq(line, 1, Find(line, ":") - 1),
                TrimLinearWhitespace(SubSeq(line, Find(line, ":") + 1, Len(line))))

\* The header lines from position on; headers begin at begin, and end with an empty line.
RECURSIVE ParseHeaders(_, _, _, _)
Added(s, begin, position, result) ==
  IF result.status = "error" THEN Error ELSE ParseHeaders(s, begin, position, result.headers)

HeaderLine(s, begin, position, headers, line) ==
  LET TooLarge(end) == end - begin > MaxHeaders
  IN  IF TooLarge(position) THEN Error
      ELSE IF position > Len(s) THEN NeedMoreData
      ELSE IF line.status = "error" THEN Error
      ELSE IF line.status = "more"
      THEN IF PartialLineLength(s, position) > MaxHeaderLine \/ TooLarge(Len(s) + 1)
           THEN Error ELSE NeedMoreData
      ELSE IF line.end - position > MaxHeaderLine THEN Error
      ELSE IF line.end > position
      THEN Added(s, begin, line.end + 2, AddHeader(headers, SubSeq(s, position, line.end - 1)))
      ELSE IF TooLarge(line.end + 2) THEN Error
      ELSE [status |-> "complete", headers |-> headers, position |-> line.end + 2]

ParseHeaders(s, begin, position, headers) ==
  HeaderLine(s, begin, position, headers, FindLineEnd(s, position))

Named(headers, name) == SelectSeq(headers, LAMBDA h : AsciiEqualsIgnoreCase(h.name, name))

\* Fields of that name must all say the same; without one there is no body.
OneLength(lengths) ==
  IF lengths = {} THEN 0
  ELSE IF Cardinality(lengths) > 1 THEN NotANumber
  ELSE CHOOSE n \in lengths : TRUE

ContentLength(headers) ==
  OneLength({ParseUnsigned(h.value, MaxBody) : h \in Range(Named(headers, <<"Content-Length">>))})

\* One request at the front of s, once all of it is there.
Body(s, request, headers, position, length) ==
  IF length = NotANumber THEN Error
  ELSE IF Len(s) < position + length - 1 THEN NeedMoreData
  ELSE [status |-> "complete", consumed |-> position + length - 1,
        request |-> [kind |-> "request", method |-> request.method, uri |-> request.uri,
                     version |-> request.version, headers |-> headers,
                     body |-> SubSeq(s, position, position + length - 1)]]

AfterHeaders(s, request, fields) ==
  IF fields.status # "complete" THEN [status |-> fields.status]
  ELSE Body(s, request, fields.headers, fields.position, ContentLength(fields.headers))

AfterRequestLine(s, begin, request) ==
  IF request.status = "error" THEN Error
  ELSE AfterHeaders(s, request, ParseHeaders(s, begin, begin, <<>>))

FirstLine(s, line) ==
  IF line.status = "error" THEN Error
  ELSE IF line.status = "more"
  THEN IF PartialLineLength(s, 1) > MaxRequestLine THEN Error ELSE NeedMoreData
  ELSE IF line.end - 1 > MaxRequestLine THEN Error
  ELSE AfterRequestLine(s, line.end + 2,
         ParseRequestLine(SubSeq(s, 1, line.end - 1), {i \in 1 .. line.end - 1 : s[i] = " "}))

Parse(s) == FirstLine(s, FindLineEnd(s, 1))

-----------------------------------------------------------------------------
(* RtspConnection::ProcessReadBuffer *)

FrameHeader == 4
\* A byte of a length is a digit here, and a length has two.
ReadU16(s) == Digit[s[3]] * 10 + Digit[s[4]]

\* An empty frame is framing only.
Dispatch(out, channel, payload) ==
  IF payload = <<>> THEN out
  ELSE Append(out, [kind |-> "frame", channel |-> channel, payload |-> payload])

\* All that is complete in the buffer is handed over; an error clears it.
RECURSIVE ProcessReadBuffer(_, _)
Kept(s, out) == [buffer |-> s, out |-> out, failed |-> FALSE]

Frame(s, out, size) ==
  IF Len(s) < size THEN Kept(s, out)
  ELSE ProcessReadBuffer(SubSeq(s, size + 1, Len(s)),
                         Dispatch(out, s[2], SubSeq(s, FrameHeader + 1, size)))

Text(s, out, parsed) ==
  IF parsed.status = "more" THEN Kept(s, out)
  ELSE IF parsed.status = "error" THEN [buffer |-> <<>>, out |-> out, failed |-> TRUE]
  ELSE ProcessReadBuffer(SubSeq(s, parsed.consumed + 1, Len(s)), Append(out, parsed.request))

ProcessReadBuffer(s, out) ==
  IF s = <<>> THEN Kept(s, out)
  ELSE IF s[1] # "$" THEN Text(s, out, Parse(s))
  ELSE IF Len(s) < FrameHeader THEN Kept(s, out)
  ELSE Frame(s, out, FrameHeader + ReadU16(s))

-----------------------------------------------------------------------------
(* The connection *)

AllBytes == FlattenSeq([i \in DOMAIN sent |-> sent[i].bytes])

Init ==
  /\ sent \in Streams /\ arrived = 0
  /\ buffer = <<>> /\ dispatched = <<>> /\ failed = FALSE

\* async_read_some is over: more bytes, as many as there are or fit, and all they complete is handed
\* over.
HandOver(done) == buffer' = done.buffer /\ dispatched' = done.out /\ failed' = done.failed

Read(n) ==
  /\ ~failed /\ arrived < Len(AllBytes)
  /\ arrived' = Min({arrived + n, Len(AllBytes)})
  /\ HandOver(ProcessReadBuffer(buffer \o SubSeq(AllBytes, arrived + 1, arrived'), dispatched))
  /\ UNCHANGED sent

Next == \E n \in Chunks : Read(n)

Spec == Init /\ [][Next]_vars

-----------------------------------------------------------------------------
(* Properties *)

EndOf(k) == Len(FlattenSeq([i \in 1 .. k |-> sent[i].bytes]))
Bad(k) == sent[k].means.kind = "malformed"
\* The messages before the first malformed one that have arrived to their last byte.
Whole == {k \in DOMAIN sent : EndOf(k) <= arrived /\ \A j \in 1 .. k : ~Bad(j)}

\* Whatever the chunks, the session is handed the messages the client sent: each whole, in order and
\* as soon as its last byte is there, up to the first that is malformed.  That one is an error, by
\* its last byte at the latest and never before it has begun; a message that is exactly as long as
\* the limits allow is not (rtsp_connection.cpp:127-190, rtsp_request_parser.cpp:377-515).
RequestsAsSent ==
  /\ dispatched = SelectSeq([k \in 1 .. Cardinality(Whole) |-> sent[k].means],
                            LAMBDA m : m.kind # "nothing")
  /\ failed => \E k \in DOMAIN sent : Bad(k) /\ EndOf(k - 1) < arrived
  /\ \A k \in DOMAIN sent : Bad(k) /\ EndOf(k) <= arrived => failed

=============================================================================
