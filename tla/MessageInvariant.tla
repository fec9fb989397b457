-------------------------- MODULE MessageInvariant --------------------------
(***************************************************************************)
(* What a well-formed message is, and the inductive invariant of the       *)
(* parser and its callers for such a message: what the parser knows, what  *)
(* the body holds and what was answered, at each place of the message.     *)
(*                                                                         *)
(* A message says where its lines and its chunks are, so nothing is parsed *)
(* here: a place is an offset from the first byte, as in the code.         *)
(***************************************************************************)
EXTENDS ParserDrivers

Sym(m, k) == m.bytes[k + 1]

-----------------------------------------------------------------------------
(* The head: a start line, the headers and a blank line.  A line ends with  *)
(* CR LF; the next one begins behind them, or the content does.             *)
LineStart(m, j) == IF j <= Len(m.lines) THEN m.lines[j] ELSE m.head
TextEnd(m, j) == LineStart(m, j + 1) - 2
LineLength(m, j) == TextEnd(m, j) - LineStart(m, j)
HeaderLines(m) == 2 .. Len(m.lines) - 1

IsLine(m, j) ==
  /\ LineLength(m, j) >= 0 /\ LineStart(m, j + 1) <= m.head
  /\ Sym(m, TextEnd(m, j)) = CR /\ Sym(m, TextEnd(m, j) + 1) = LF
  /\ \A k \in LineStart(m, j) .. TextEnd(m, j) - 1 : Sym(m, k) \notin {CR, LF, NUL}

IsStartLine(m) ==
  /\ LineLength(m, 1) >= 2
  /\ \/ Sym(m, 0) \in Methods /\ Sym(m, 1) = "target"
     \/ Sym(m, 0) = "version" /\ Sym(m, 1) = "reason"

HeadWellFormed(m) ==
  /\ Len(m.lines) \in 2 .. HTTP_MAX_HEADERS + 2
  /\ m.lines[1] = 0 /\ m.head <= Len(m.bytes)
  /\ \A j \in DOMAIN m.lines : IsLine(m, j)
  /\ IsStartLine(m)
  /\ \A j \in HeaderLines(m) : LineLength(m, j) >= 2 /\ Sym(m, m.lines[j]) \in Keys
  /\ LineLength(m, Len(m.lines)) = 0

(* The headers, and the value of the first one with a key. *)
HeadersOf(m) ==
  [k \in 1 .. Len(m.lines) - 2 |->
     [key |-> Sym(m, m.lines[k + 1]),
      value |-> SubSeq(m.bytes, m.lines[k + 1] + 2, TextEnd(m, k + 1))]]
With(m, key) == {k \in DOMAIN HeadersOf(m) : HeadersOf(m)[k].key = key}
ValueOf(m, key) == HeadersOf(m)[Min(With(m, key))].value

-----------------------------------------------------------------------------
(* The content.  A message without a body that is parsed, one whose body    *)
(* the parser does not handle, one with a length, one in chunks.            *)
MayHaveBody(m) == Sym(m, 0) \in {"version", "POST"}
IsIdentity(m) == With(m, "Transfer-Encoding") = {} \/ ValueOf(m, "Transfer-Encoding") = <<"identity">>
IsChunked(m) == With(m, "Transfer-Encoding") # {} /\ ValueOf(m, "Transfer-Encoding") = <<"chun", "ked">>
IsUnsupported(m) == ~ IsChunked(m) /\ (~ IsIdentity(m) \/ With(m, "Content-Length") = {})

HasNoBody(m) == ~ MayHaveBody(m)
HasOtherBody(m) == MayHaveBody(m) /\ IsUnsupported(m)
HasLength(m) == MayHaveBody(m) /\ IsIdentity(m) /\ With(m, "Content-Length") # {}
HasChunks(m) == MayHaveBody(m) /\ IsChunked(m)

IsEmpty(m) == m.needed = m.head /\ m.body = <<>>

LengthWellFormed(m) ==
  /\ Number(ValueOf(m, "Content-Length"), 10) = Len(m.body)
  /\ m.needed = m.head + Len(m.body)
  /\ SubSeq(m.bytes, m.head + 1, m.needed) = m.body

(* A chunk's size line, and that its data is the next part of the body. *)
IsSizeLine(m, c) ==
  /\ c.at < c.data - 2 /\ c.data - 2 - c.at < SIZE_TEXT_LIMIT
  /\ \A k \in c.at .. c.data - 3 : Sym(m, k) \in DOMAIN DigitValue
  /\ Sym(m, c.data - 2) = CR /\ Sym(m, c.data - 1) = LF
  /\ Number(SubSeq(m.bytes, c.at + 1, c.data - 2), 16) = c.size

IsData(m, c) ==
  /\ c.data + c.size <= m.needed /\ c.before + c.size <= Len(m.body)
  /\ SubSeq(m.bytes, c.data + 1, c.data + c.size)
       = SubSeq(m.body, c.before + 1, c.before + c.size)

ChunksWellFormed(m) ==
  /\ m.chunks # <<>>
  /\ m.chunks[1].at = m.head /\ m.chunks[1].before = 0
  /\ \A k \in DOMAIN m.chunks :
       LET c == m.chunks[k]
       IN  /\ IsSizeLine(m, c) /\ IsData(m, c)
           /\ IF k = Len(m.chunks)
              THEN c.size = 0 /\ m.needed = c.data /\ c.before = Len(m.body)
              ELSE /\ c.size > 0
                   /\ m.chunks[k + 1].at = c.data + c.size + 2
                   /\ m.chunks[k + 1].before = c.before + c.size

ContentWellFormed(m) ==
  \/ HasNoBody(m) /\ IsEmpty(m) /\ m.result = "Done"
  \/ HasOtherBody(m) /\ IsEmpty(m) /\ m.result = "TODO"
  \/ HasLength(m) /\ LengthWellFormed(m) /\ m.result = "Done"
  \/ HasChunks(m) /\ ChunksWellFormed(m) /\ m.result = "Done"

(* Where a chunk may not be cut: in its size line but behind the first      *)
(* byte, and in front of and inside of the line end behind its data.        *)
Fragile(c) == (c.at + 2 .. c.data - 1) \cup
              (IF c.size = 0 THEN {} ELSE {c.data + c.size, c.data + c.size + 1})

IsSafeCut(m, k) ==
  k >= m.head /\ (HasChunks(m) => \A j \in DOMAIN m.chunks : k \notin Fragile(m.chunks[j]))

(* All of it fits into the memory a uint64_t counts. *)
WellFormed(m) ==
  /\ HeadWellFormed(m)
  /\ ContentWellFormed(m)
  /\ m.needed <= Len(m.bytes) /\ Len(m.bytes) < SIZE_VALUES
  /\ \A k \in m.safe : IsSafeCut(m, k)

-----------------------------------------------------------------------------
(* The invariant.  The body, with what is being appended to it. *)
Collected == TextOf(buf) \o call.bytes

(* How the message was read: the head at once, the rest where it was cut. *)
ReadFits ==
  /\ read = 0 \/ read >= message.head
  /\ task \in {"appending", "parsing", "finished"} => read > 0
  /\ message.from = "file" =>
       /\ task \in {"file", "parsing", "finished"}
       /\ read = IF task = "file" THEN 0 ELSE Len(message.bytes)
  /\ safe /\ read > 0 => IsSafeCut(message, read)

StartKnown ==
  /\ parser.type = IF Sym(message, 0) = "version" THEN "Response" ELSE "Request"
  /\ parser.type = "Request" => parser.method = Sym(message, 0)

AtStart ==
  /\ parser.state = "Parsing_Status" /\ at \in {"idle", "status"}
  /\ parser.offset = 0 /\ parser.headers = <<>>
  /\ at = "idle" => task \in {"reading", "appending", "file"} /\ (task = "reading" => read = 0)

AtHeader ==
  /\ parser.state = "Parsing_Headers" /\ at = "headers"
  /\ read >= message.head
  /\ StartKnown
  /\ \E j \in 2 .. Len(message.lines) :
       line = message.lines[j] /\ parser.headers = SubSeq(HeadersOf(message), 1, j - 2)

(* The body, once all of it is there; in chunks, at one of them. *)
AtLength ==
  /\ parser.encoding \in {"unset", "Identity"}
  /\ Collected = IF at = "append" THEN message.body ELSE <<>>
  /\ at = "append" => parser.encoding = "Identity" /\ read >= message.needed

AtChunk ==
  /\ parser.encoding \in {"unset", "Chunked"}
  /\ at = "append" => parser.encoding = "Chunked"
  /\ \E k \in DOMAIN message.chunks :
       LET c == message.chunks[k]
       IN  /\ parser.offset + parser.body_offset = c.at
           /\ Collected = SubSeq(message.body, 1, c.before)
           /\ safe => c.at <= read

(* A body the parser does not handle is answered at the first look at it. *)
AtOther ==
  /\ Collected = <<>>
  /\ \/ at = "body" /\ parser.encoding = "unset"
     \/ at = "idle" /\ answer = "TODO" /\ task \in {"parsing", "finished"}

AwaitsMore ==
  /\ answer = "Needs_More_Data" /\ task # "finished"
  /\ task \in {"parsing", "reading"} => read < message.needed

AtBody ==
  /\ parser.state = "Parsing_Body" /\ at \in {"idle", "body", "append"}
  /\ read >= message.head /\ answer # "Done"
  /\ StartKnown
  /\ parser.headers = HeadersOf(message) /\ parser.offset = message.head
  /\ HasNoBody(message) => at = "body" /\ Collected = <<>>
  /\ HasOtherBody(message) => AtOther
  /\ HasLength(message) => AtLength
  /\ HasChunks(message) => AtChunk
  /\ at = "idle" => HasOtherBody(message) \/ AwaitsMore

AtEnd ==
  /\ parser.state = "Parsing_Done" /\ at = "idle"
  /\ answer = "Done" /\ message.result = "Done"
  /\ Collected = message.body
  /\ read >= message.needed
  /\ task \in {"parsing", "finished"}

ParsedAsWritten ==
  /\ ReadFits
  /\ AtStart \/ AtHeader \/ AtBody \/ AtEnd
  /\ AtStart \/ AtHeader =>
       answer = "none" /\ Collected = <<>> /\ parser.encoding = "unset" /\ parser.body_offset = 0
  /\ at # "append" => call.at = "none"
  /\ ~ HasChunks(message) \/ safe => fate = "running"

(* A well-formed message whose head is in the first read is parsed as it is *)
(* written, at any cut; only a cut at a fragile place of a chunk ends the   *)
(* process (http.c 401).                                                    *)
MessageParsed ==
  WellFormed(message) =>
    /\ message.from = "file" => safe
    /\ safe \/ read = 0 => whole
    /\ whole => ParsedAsWritten
=============================================================================
