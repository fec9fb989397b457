--------------------------- MODULE ParserDrivers ---------------------------
(***************************************************************************)
(* The two callers of http_try_parse.  http_tcp_receive_response_work      *)
(* (src/http/client/http_client.c) reads what the network has, appends it  *)
(* to a string buffer and gives the parser all of that buffer, until the   *)
(* parser wants no more.  http_fuzz (src/main.c) gives it a file at once.  *)
(*                                                                         *)
(* A behaviour is about one message.  Where the network cuts it is free: a *)
(* read may return any number of bytes up to the size of its array, which  *)
(* is that of a string buffer at first (one macro is both, 1024).          *)
(***************************************************************************)
EXTENDS HttpParser

CONSTANT Messages   \* what may be sent or be in a file

VARIABLES
  message,  \* the message of this behaviour; constant
  sb,       \* the String_Buffer of the receive task's context
  sb_call,  \* the append to it
  read,     \* bytes of the message read so far: amount_of_bytes_read
  task,     \* what the caller is at
  whole,    \* history: the first read had the whole head
  safe      \* history: the message was only cut where message.safe allows it

driverVars == <<message, sb, sb_call, read, task, whole, safe>>
vars == <<bufferVars, parserVars, driverVars>>

Received == INSTANCE StringBuffer WITH buf <- sb, call <- sb_call

(* A message and what a reader of it expects: the length of its head (the   *)
(* start line and the headers) and where the lines of it begin, its body    *)
(* and the chunks of it (where each begins, where its data does, the size   *)
(* and how much of the body is in front of it), the result, how many of its *)
(* bytes tell that result, and where it may be cut.  One that is not sound  *)
(* is not an HTTP message, or has more headers than the parser has room for.*)
ChunkPlace == [at : Nat, data : Nat, size : Nat, before : Nat]
Message ==
  [from : {"socket", "file"}, bytes : Seq(Symbols), sound : BOOLEAN,
   head : Nat, lines : Seq(Nat), body : Seq(Symbols), chunks : Seq(ChunkPlace),
   result : Answers, needed : Nat, safe : SUBSET Nat]

ASSUME ParserDriversAssumption == Messages \subseteq Message

Init ==
  /\ ParserInit
  /\ message \in Messages
  /\ Received!StringBufferInit
  /\ read = 0
  /\ task = IF message.from = "socket" THEN "reading" ELSE "file"
  /\ whole = TRUE /\ safe = TRUE

(* recv returns the next bytes, at least one.  (With none nothing happens.) *)
Receive(n) ==
  /\ task = "reading"
  /\ Received!string_buffer_append_buf(SubSeq(message.bytes, read + 1, read + n))
  /\ read' = read + n
  /\ task' = "appending"
  /\ whole' = IF read = 0 THEN n >= message.head ELSE whole
  /\ safe' = (safe /\ read + n \in message.safe)
  /\ UNCHANGED <<message, bufferVars, parserVars>>

AppendReceived ==
  /\ task = "appending"
  /\ Received!AppendStep
  /\ UNCHANGED <<message, read, task, whole, safe, bufferVars, parserVars>>

ParseReceived ==
  /\ task = "appending" /\ sb_call.at = "none"
  /\ http_try_parse(sb)
  /\ task' = "parsing"
  /\ UNCHANGED <<message, sb, sb_call, read, whole, safe>>

(* The file with a NUL behind it, in memory of just that size. *)
FileMemory ==
  [data |-> [k \in 0 .. Len(message.bytes) |->
               IF k < Len(message.bytes) THEN message.bytes[k + 1] ELSE NUL],
   length |-> Len(message.bytes), capacity |-> Len(message.bytes) + 1]

http_fuzz ==
  /\ task = "file"
  /\ http_try_parse(FileMemory)
  /\ task' = "parsing"
  /\ read' = Len(message.bytes)
  /\ UNCHANGED <<message, sb, sb_call, whole, safe>>

Parse ==
  /\ task = "parsing"
  /\ ParserStep
  /\ UNCHANGED driverVars

(* Only a socket is read again, and only when more data is needed. *)
AfterParse ==
  /\ task = "parsing" /\ at = "idle" /\ fate = "running"
  /\ task' = IF answer = "Needs_More_Data" /\ message.from = "socket"
             THEN "reading" ELSE "finished"
  /\ UNCHANGED <<message, sb, sb_call, read, whole, safe, bufferVars, parserVars>>

Next ==
  \/ \E n \in 1 .. Min({INITIAL_CAPACITY, Len(message.bytes) - read}) : Receive(n)
  \/ AppendReceived
  \/ ParseReceived
  \/ http_fuzz
  \/ Parse
  \/ AfterParse

(* The code runs on, and the peer sends all of its message. *)
Spec == Init /\ [][Next]_vars /\ WF_vars(Next)

-----------------------------------------------------------------------------
TypeOK ==
  /\ StringBufferTypeOK /\ Received!StringBufferTypeOK
  /\ parser.state \in States /\ answer \in Answers
  /\ parser.offset \in Nat /\ parser.body_offset \in Nat /\ line \in Nat
  /\ at \in {"idle", "status", "headers", "body", "append"}
  /\ read \in 0 .. Len(message.bytes)
  /\ task \in {"reading", "appending", "parsing", "file", "finished"}

(* No header is stored behind the array of headers (http.c 345), whatever   *)
(* arrives and however it is cut.                                           *)
HeadersFit == Len(parser.headers) <= HTTP_MAX_HEADERS

(* What was received is followed by a NUL to the end of its allocation,     *)
(* however often it grew: the parser's loop over the headers (http.c 318)   *)
(* has no other end.                                                        *)
ZeroBehindReceived == Received!ZeroBehindData

(* What was read from a socket is a beginning of the message, in order and  *)
(* without a gap, however the reads and the growing of the memory fell.     *)
ReadInOrder ==
  message.from = "socket" =>
    Received!TextOf(sb) \o sb_call.bytes = SubSeq(message.bytes, 1, read)

(* A message cut only at the places it marks as safe, its head in the first *)
(* read, is answered as if it came at once: more data is wanted until the   *)
(* last byte that matters and no longer, then the result and the body are   *)
(* those of the message, and no assertion fails on the way.                 *)
CutsHarmless ==
  safe /\ message.from = "socket" =>
    /\ fate = "running"
    /\ task = "reading" => answer = IF read = 0 THEN "none" ELSE "Needs_More_Data"
    /\ task = "reading" => read < message.needed
    /\ task = "finished" =>
         /\ answer = message.result
         /\ read >= message.needed
         /\ answer = "Done" => TextOf(buf) = message.body

(* Wherever a sound message is cut behind its head, its body is never       *)
(* wrong: the process may die of an assertion, but what was appended is a   *)
(* beginning of the body, and all of it when the answer is Done.            *)
BodyNeverWrong ==
  whole /\ message.sound =>
    /\ IsPrefix(TextOf(buf), message.body)
    /\ answer = "Done" => TextOf(buf) = message.body

(* What is appended to the body was received: it is the part of the message *)
(* that the offsets say (http.c 413-426, 507-508), and nothing behind the   *)
(* data, though the offset behind a chunk may be behind the data and the    *)
(* number of bytes left then wraps.  Only for a body of Content-Length      *)
(* bytes the head must not have been cut: its offset is then behind the     *)
(* data from the start.                                                     *)
BodyFromMessage ==
  at = "append" /\ call.at # "none" =>
    LET n    == Len(call.bytes)
        from == IF parser.encoding = "Chunked"
                THEN parser.offset + parser.body_offset - 2 - n ELSE parser.offset
    IN  parser.encoding = "Chunked" \/ parser.offset <= read =>
          from + n <= read /\ call.bytes = SubSeq(message.bytes, from + 1, from + n)

(* Every sound file has its result, a request that ends in the middle of    *)
(* its last header too: the NUL that http_fuzz puts behind the file (main.c *)
(* 57) ends the line and the headers.                                       *)
FilesParsed ==
  message.from = "file" /\ message.sound =>
    /\ fate = "running"
    /\ task = "finished" => answer = message.result
    /\ task = "finished" /\ answer = "Done" => TextOf(buf) = message.body

(* Every message that is cut only at safe places is answered. *)
EveryMessageAnswered == <>(task = "finished" \/ ~ safe)

(* What has not been read fully is waited for ("Returns true when a chunk   *)
(* has been fully read", http.c 373; "Wait for more data.", 511; "Wait for  *)
(* 'Content-Length' bytes.", 528): no cut behind the head of a message ends *)
(* the process, and however a message is cut, Done comes with its body.     *)
WaitsForMoreData ==
  message.sound =>
    /\ whole => fate = "running"
    /\ answer = "Done" => TextOf(buf) = message.body
=============================================================================
