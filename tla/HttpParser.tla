----------------------------- MODULE HttpParser -----------------------------
(***************************************************************************)
(* The parser of src/http/http.c.  http_try_parse is called with all that  *)
(* has been received so far and goes on where it stopped: one action for   *)
(* the start line, one for each header line, one for each look at the      *)
(* body.  The StringBuffer extended here is http.body.string_buffer.       *)
(*                                                                         *)
(* A byte is a symbol: line ends, NUL and digits are bytes; the others     *)
(* stand for a run of bytes that a cut leaves with the same meaning as a   *)
(* cut before or behind it.  "version" is "HTTP/1.1 200 ", "reason" the    *)
(* words behind it, "target" the rest of a request's start line, a key     *)
(* includes its colon.  Symbols are counted where the code counts bytes.   *)
(***************************************************************************)
EXTENDS StringBuffer, SequencesExt, FiniteSetsExt

CONSTANTS
  HTTP_MAX_HEADERS,  \* 16 in the build
  SIZE_TEXT_LIMIT,   \* limit of get_chunk_start_and_length: 32 in the build
  SIZE_VALUES        \* how many values a uint64_t has: 2^64 in the build

CR == "CR"
LF == "LF"
Methods == {"GET", "POST", "PUT"}
Keys == {"Transfer-Encoding", "Content-Length", "Host"}
DigitValue == [d \in {"0", "1", "2", "3"} |->
                 CASE d = "0" -> 0 [] d = "1" -> 1 [] d = "2" -> 2 [] d = "3" -> 3]
Words == {"version", "reason", "target", "identity", "chun", "ked", "gzip", "text"}
Visible == Methods \cup Keys \cup DOMAIN DigitValue \cup Words
Symbols == {CR, LF, NUL} \cup Visible

(* A byte that is in no memory. *)
Outside == "outside"

ASSUME HttpParserAssumption ==
  /\ Symbols \subseteq Bytes
  /\ NUL \notin {CR, LF, Outside} \cup Visible
  /\ HTTP_MAX_HEADERS \in Nat
  /\ SIZE_TEXT_LIMIT \in Nat \ {0} /\ SIZE_VALUES \in Nat \ {0}

VARIABLES
  parser,  \* HTTP_Parser; encoding "unset" is has_encoding_set = false
  input,   \* parser->buffer and buffer_length, with the allocation's capacity
  at,      \* what http_try_parse is at; "idle" when it is not running
  line,    \* line_start of http_try_parse_headers, from the start of the buffer
  answer,  \* what the last call answered, or "none"
  fate     \* "running", the assertion that failed, or "outside"

parserVars == <<parser, input, at, line, answer, fate>>

States == {"Parsing_Status", "Parsing_Headers", "Parsing_Body", "Parsing_Done"}
Answers == {"none", "Done", "Needs_More_Data", "Invalid_Data", "TODO"}

(* A zeroed parser whose body has been initialised. *)
ParserInit ==
  /\ StringBufferInit
  /\ parser = [state |-> "Parsing_Status", offset |-> 0, type |-> "Request", method |-> "GET",
               headers |-> <<>>, encoding |-> "unset", body_offset |-> 0]
  /\ input = string_buffer_init
  /\ at = "idle"
  /\ line = 0
  /\ answer = "none"
  /\ fate = "running"

-----------------------------------------------------------------------------
(* The byte read at an index.  Behind the allocation anything may stand;    *)
(* where a decision depends on such a byte the model ends, as "outside".    *)
(* (sscanf looks for a NUL behind what it reads, with no effect on it.)     *)
Byte(k) == IF k < input.capacity THEN input.data[k] ELSE Outside
Piece(from, n) == [j \in 1 .. n |-> Byte(from + j - 1)]

(* What is left behind an index, in a uint64_t: it wraps. *)
Rest(from) == (input.length - from) % SIZE_VALUES

(* atoi and %x skip white space, here a line end, and read the digits that  *)
(* follow it.                                                               *)
Leading(text, S) == Max({n \in 0 .. Len(text) : \A j \in 1 .. n : text[j] \in S})
Skipped(text) == SubSeq(text, Leading(text, {CR, LF}) + 1, Len(text))
Digits(text) == SubSeq(Skipped(text), 1, Leading(Skipped(text), DOMAIN DigitValue))
Number(text, base) == FoldLeft(LAMBDA n, d : n * base + DigitValue[d], 0, Digits(text))

(* Which variables a step that stays in the parser leaves alone. *)
Parsing == fate = "running" /\ UNCHANGED input
Silent == UNCHANGED <<answer, fate>>
Answer(result) == at' = "idle" /\ answer' = result /\ UNCHANGED <<line, fate>>
Fail(cause) == fate' = cause /\ UNCHANGED <<parser, at, line, answer, bufferVars>>

(* The call: http_try_parse goes to the part its state names.  No caller    *)
(* calls again once the answer was Done.                                    *)
http_try_parse(memory) ==
  /\ fate = "running"
  /\ at = "idle"
  /\ input' = memory
  /\ at' = CASE parser.state = "Parsing_Status" -> "status"
             [] parser.state = "Parsing_Headers" -> "headers"
             [] parser.state = "Parsing_Body" -> "body"
  /\ line' = parser.offset
  /\ UNCHANGED <<parser, bufferVars>> /\ Silent

-----------------------------------------------------------------------------
(* The start line.  Its end is looked for in the data; without one all of   *)
(* the data is taken for it.  Its words fit into the arrays they are        *)
(* scanned into.                                                            *)
IsRequest == Byte(parser.offset) \in Methods /\ Byte(parser.offset + 1) = "target"
IsResponse == Byte(parser.offset) = "version" /\ Byte(parser.offset + 1) = "reason"

StatusEnds ==
  {k \in parser.offset + 1 .. input.length - 1 : Byte(k - 1) = CR /\ Byte(k) = LF}
StatusEnd == IF StatusEnds = {} THEN input.length ELSE Min(StatusEnds) + 1

StatusOutside ==
  \/ \E k \in 0 .. 2 : /\ Byte(parser.offset + k) = Outside
                       /\ \A j \in 0 .. k - 1 : Byte(parser.offset + j) # NUL
  \/ (IsRequest \/ IsResponse) /\ Byte(StatusEnd) = Outside

ParseStatus ==
  /\ at = "status" /\ ~ StatusOutside
  /\ IsRequest \/ IsResponse
  /\ Byte(StatusEnd) # LF
  /\ parser' = [parser EXCEPT !.state = "Parsing_Headers", !.offset = StatusEnd,
                  !.type = IF IsRequest THEN "Request" ELSE "Response",
                  !.method = IF IsRequest THEN Byte(parser.offset) ELSE @]
  /\ at' = "headers"
  /\ line' = StatusEnd
  /\ UNCHANGED bufferVars /\ Silent

InvalidStatus ==
  /\ at = "status" /\ ~ StatusOutside
  /\ ~ IsRequest /\ ~ IsResponse
  /\ Answer("Invalid_Data")
  /\ UNCHANGED <<parser, bufferVars>>

FailStatus ==
  /\ at = "status" /\ ~ StatusOutside
  /\ IsRequest \/ IsResponse
  /\ Byte(StatusEnd) = LF
  /\ Fail("http_try_parse_status")

-----------------------------------------------------------------------------
(* A header line ends at a line feed or at a NUL, wherever the data ends. *)
LineEnds == {k \in line .. input.capacity - 1 : Byte(k) \in {LF, NUL}}
LineEnd == Min(LineEnds)
LineText ==
  LET raw == Piece(line, LineEnd - line)
  IN  IF raw # <<>> /\ Last(raw) = CR THEN Front(raw) ELSE raw

(* http_try_parse_header's two conversions: a key, and some of a value. *)
IsHeader(text) == Len(text) >= 2 /\ text[1] \in Keys
WithHeader(p, text) ==
  [p EXCEPT !.headers = Append(@, [key |-> text[1], value |-> Tail(text)])]

(* Seeded fault: one header too many is stored. *)
HeadersFullLate == Len(parser.headers) > HTTP_MAX_HEADERS

HeadersFull == Len(parser.headers) >= HTTP_MAX_HEADERS

(* headers_end_index + 1 is added to the offset. *)
EndHeaders(p, consumed) ==
  /\ parser' = [p EXCEPT !.state = "Parsing_Body", !.offset = @ + consumed]
  /\ at' = "body"
  /\ UNCHANGED line

InHeaders == at = "headers" /\ LineEnds # {} /\ UNCHANGED bufferVars

BlankLine ==
  /\ InHeaders /\ LineText = <<>>
  /\ EndHeaders(parser, LineEnd - parser.offset + 1)
  /\ Silent

(* headers_end_index is still 0 when there are too many headers. *)
TooManyHeaders ==
  /\ InHeaders /\ LineText # <<>> /\ HeadersFull
  /\ EndHeaders(parser, 1)
  /\ Silent

InvalidHeader ==
  /\ InHeaders /\ LineText # <<>> /\ ~ HeadersFull
  /\ ~ IsHeader(LineText)
  /\ Answer("Invalid_Data")
  /\ UNCHANGED parser

(* Seeded fault: the NUL does not end the loop. *)
ParseHeaderOn ==
  /\ InHeaders /\ LineText # <<>> /\ ~ HeadersFull
  /\ IsHeader(LineText)
  /\ parser' = WithHeader(parser, LineText)
  /\ line' = LineEnd + 1
  /\ UNCHANGED at
  /\ Silent

(* A header; one that ends at a NUL ends the headers too, as a file may,    *)
(* and headers_end_index is then still 0.                                   *)
ParseHeader ==
  /\ InHeaders /\ LineText # <<>> /\ ~ HeadersFull
  /\ IsHeader(LineText)
  /\ IF Byte(LineEnd) = NUL
     THEN EndHeaders(WithHeader(parser, LineText), 1)
     ELSE parser' = WithHeader(parser, LineText) /\ line' = LineEnd + 1 /\ UNCHANGED at
  /\ Silent

-----------------------------------------------------------------------------
(* http_try_get_key_from_header: the first header with that key. *)
Having(key) == {k \in DOMAIN parser.headers : parser.headers[k].key = key}
HeaderValue(key) == parser.headers[Min(Having(key))].value

(* Of the requests only a POST has a body to parse. *)
WantsBody == parser.type = "Response" \/ parser.method = "POST"

(* The encoding is looked up once; gzip stands for the three that are known *)
(* and not handled.                                                         *)
EncodingText ==
  IF Having("Transfer-Encoding") = {} THEN <<"identity">> ELSE HeaderValue("Transfer-Encoding")
Encoding ==
  CASE parser.encoding # "unset" -> parser.encoding
    [] EncodingText = <<"identity">> -> "Identity"
    [] EncodingText = <<"chun", "ked">> -> "Chunked"
    [] EncodingText = <<"gzip">> -> "Gzip"
    [] OTHER -> "unset"

InBody == at = "body" /\ WantsBody
WithEncoding == [parser EXCEPT !.encoding = Encoding]
BodyDone == parser' = [parser EXCEPT !.encoding = Encoding, !.state = "Parsing_Done"]

(* The message is complete: http_try_parse copies it out. *)
ParseNoBody ==
  /\ at = "body" /\ ~ WantsBody
  /\ parser' = [parser EXCEPT !.state = "Parsing_Done"]
  /\ Answer("Done")
  /\ UNCHANGED bufferVars

(* An encoding that is not handled, or a body without a length. *)
Unsupported ==
  \/ Encoding \in {"Gzip", "unset"}
  \/ Encoding = "Identity" /\ Having("Content-Length") = {}

ParseUnsupported ==
  /\ InBody /\ Unsupported
  /\ parser' = WithEncoding
  /\ Answer("TODO")
  /\ UNCHANGED bufferVars

(* The body's bytes are appended, and the offset moves behind them. *)
Take(from, n, body_offset) ==
  /\ string_buffer_append_buf(Piece(from, n))
  /\ parser' = [parser EXCEPT !.encoding = Encoding, !.body_offset = body_offset]
  /\ at' = "append"
  /\ UNCHANGED line
  /\ Silent

AfterAppend ==
  /\ at = "append" /\ call.at = "none"
  /\ IF parser.encoding = "Chunked"
     THEN at' = "body" /\ UNCHANGED <<parser, line>> /\ Silent
     ELSE BodyDone /\ Answer("Done")
  /\ UNCHANGED bufferVars

(* A body of Content-Length bytes. *)
ContentLength == Number(HeaderValue("Content-Length"), 10)
InIdentity == InBody /\ Encoding = "Identity" /\ ~ Unsupported

EmptyIdentity ==
  /\ InIdentity /\ ContentLength = 0
  /\ BodyDone
  /\ Answer("Done")
  /\ UNCHANGED bufferVars

(* Seeded fault: one byte more is waited for. *)
EnoughLate(have, need) == have > need

(* Seeded fault: one byte less is waited for. *)
EnoughEarly(have, need) == have + 1 >= need

Enough(have, need) == have >= need

ShortIdentity ==
  /\ InIdentity /\ ContentLength > 0
  /\ ~ Enough(Rest(parser.offset), ContentLength)
  /\ parser' = WithEncoding
  /\ Answer("Needs_More_Data")
  /\ UNCHANGED bufferVars

WholeIdentity ==
  /\ InIdentity /\ ContentLength > 0
  /\ Enough(Rest(parser.offset), ContentLength)
  /\ parser.offset + ContentLength <= input.capacity
  /\ Take(parser.offset, ContentLength, parser.body_offset)

-----------------------------------------------------------------------------
(* A chunk: get_chunk_start_and_length at the offset in the body. *)
Chunk == parser.offset + parser.body_offset
InChunks == InBody /\ Encoding = "Chunked"
HasSizeLine == Rest(Chunk) >= 2

(* Where the loop over the size's text stops. *)
SizeEnd ==
  LET last == Min({Rest(Chunk), SIZE_TEXT_LIMIT})
  IN  Min({k \in 0 .. last : k = last \/ Byte(Chunk + k) = CR})

SizeText == Piece(Chunk, SizeEnd)
SizeOutside ==
  \/ \E k \in 0 .. SizeEnd : k < SIZE_TEXT_LIMIT /\ Byte(Chunk + k) = Outside
  \/ Byte(Chunk + SizeEnd) = CR /\ Byte(Chunk + SizeEnd + 1) = Outside

(* The format that the code asserts: line 401. *)
SizeFormat ==
  SizeEnd < SIZE_TEXT_LIMIT /\ Byte(Chunk + SizeEnd) = CR /\ Byte(Chunk + SizeEnd + 1) = LF

ChunkLength == Number(SizeText, 16)

(* Seeded fault: the chunk is taken to begin at its size line. *)
ChunkStartAtSize == Chunk

ChunkStart == Chunk + SizeEnd + 2
InSized == InChunks /\ HasSizeLine /\ ~ SizeOutside /\ SizeFormat /\ Digits(SizeText) # <<>>

(* No chunk yet, or not all of it. *)
ShortChunk ==
  /\ \/ InChunks /\ ~ HasSizeLine
     \/ InSized /\ ChunkLength > 0 /\ ~ Enough(Rest(Chunk + SizeEnd + 2), ChunkLength)
  /\ parser' = WithEncoding
  /\ Answer("Needs_More_Data")
  /\ UNCHANGED bufferVars

LastChunk ==
  /\ InSized /\ ChunkLength = 0
  /\ BodyDone
  /\ Answer("Done")
  /\ UNCHANGED bufferVars

(* Seeded fault: the line end behind the chunk is not skipped. *)
OffsetAtLineEnd == parser.body_offset + SizeEnd + 2 + ChunkLength

(* The offset skips the line end behind the chunk, arrived or not. *)
OffsetBehindChunk == parser.body_offset + SizeEnd + 2 + ChunkLength + 2

WholeChunk ==
  /\ InSized /\ ChunkLength > 0
  /\ Enough(Rest(Chunk + SizeEnd + 2), ChunkLength)
  /\ Chunk + SizeEnd + 2 + ChunkLength <= input.capacity
  /\ Take(ChunkStart, ChunkLength, OffsetBehindChunk)

FailChunk ==
  /\ InChunks /\ HasSizeLine /\ ~ SizeOutside
  /\ \/ ~ SizeFormat /\ Fail("chunk size format")
     \/ SizeFormat /\ Digits(SizeText) = <<>> /\ Fail("chunk size text")

(* A decision or a copy that needs a byte behind the allocation. *)
ReadOutside ==
  /\ \/ at = "status" /\ StatusOutside
     \/ at = "headers" /\ LineEnds = {}
     \/ InChunks /\ HasSizeLine /\ SizeOutside
     \/ /\ InIdentity /\ ContentLength > 0 /\ Enough(Rest(parser.offset), ContentLength)
        /\ parser.offset + ContentLength > input.capacity
     \/ /\ InSized /\ ChunkLength > 0 /\ Enough(Rest(Chunk + SizeEnd + 2), ChunkLength)
        /\ Chunk + SizeEnd + 2 + ChunkLength > input.capacity
  /\ Fail("outside")

ParserStep ==
  /\ Parsing
  /\ \/ ParseStatus \/ InvalidStatus \/ FailStatus
     \/ BlankLine \/ TooManyHeaders \/ InvalidHeader \/ ParseHeader
     \/ ParseNoBody \/ ParseUnsupported \/ EmptyIdentity \/ ShortIdentity \/ WholeIdentity
     \/ ShortChunk \/ LastChunk \/ WholeChunk \/ FailChunk
     \/ AfterAppend
     \/ ReadOutside
     \/ at = "append" /\ AppendStep /\ UNCHANGED <<parser, at, line>> /\ Silent
=============================================================================
