------------------------------ MODULE MCParser ------------------------------
(* ParserDrivers on small messages.  A message is put together here with    *)
(* what is expected of it, so the parser is compared with the message that  *)
(* was written and not with another parser.                                 *)
EXTENDS MessageInvariant

CRLF == <<CR, LF>>
OK == <<"version", "reason">>
Request(method) == <<method, "target">>

Host == <<"Host", "text">>
ChunkedEncoding == <<"Transfer-Encoding", "chun", "ked">>
OtherEncoding == <<"Transfer-Encoding", "gzip">>
Length(digits) == <<"Content-Length">> \o digits

HeadText(start, headers) ==
  start \o CRLF \o FlattenSeq([k \in DOMAIN headers |-> headers[k] \o CRLF]) \o CRLF

(* Where the lines of the head begin. *)
LinesOf(start, headers) ==
  <<0>> \o [k \in 1 .. Len(headers) + 1 |-> Len(HeadText(start, SubSeq(headers, 1, k - 1))) - 2]

Written(from, start, headers, content, body, chunks, result, needed, cuts) ==
  LET head == Len(HeadText(start, headers))
  IN  [from |-> from, bytes |-> HeadText(start, headers) \o content,
       sound |-> Len(headers) <= HTTP_MAX_HEADERS,
       head |-> head, lines |-> LinesOf(start, headers), body |-> body,
       chunks |-> [k \in DOMAIN chunks |-> [chunks[k] EXCEPT !.at = head + @, !.data = head + @]],
       result |-> result, needed |-> head + needed,
       safe |-> IF Len(headers) > HTTP_MAX_HEADERS THEN {} ELSE {head + k : k \in cuts}]

(* A message whose content is its body, or has none that is read: it may be *)
(* cut anywhere behind its head.                                            *)
Plain(from, start, headers, content, body, result) ==
  Written(from, start, headers, content, body, <<>>, result, Len(body), 0 .. Len(content))

(* A chunk, as text, and where a list of them has its places. *)
OneChunk(size, data) == [size |-> size, data |-> data]
ChunkText(c) == c.size \o CRLF \o c.data \o CRLF
Chunks(cs) == FlattenSeq([k \in DOMAIN cs |-> ChunkText(cs[k])])
StartOf(cs, k) == Len(Chunks(SubSeq(cs, 1, k - 1)))

DataOf(cs) == FlattenSeq([k \in DOMAIN cs |-> cs[k].data])
PlacesOf(cs) ==
  [k \in DOMAIN cs |->
     [at |-> StartOf(cs, k), data |-> StartOf(cs, k) + Len(cs[k].size) + 2,
      size |-> Len(cs[k].data), before |-> Len(DataOf(SubSeq(cs, 1, k - 1)))]]

(* A chunked message may be cut before a chunk, behind the first byte of    *)
(* one, between the end of its size line and the last byte of its data, and *)
(* when everything that counts is there.                                    *)
Chunked(from, start, headers, cs) ==
  LET content == Chunks(cs) \o <<"0">> \o CRLF \o CRLF
      needed == Len(content) - 2
      places == PlacesOf(Append(cs, OneChunk(<<"0">>, <<>>)))
      inside(k) == LET c == places[k]
                   IN  {c.at, c.at + 1} \cup (c.data .. c.data + c.size - 1)
  IN  Written(from, start, headers, content, DataOf(cs), places, "Done", needed,
              UNION {inside(k) : k \in DOMAIN cs} \cup {needed - 3, needed - 2}
                \cup (needed .. Len(content)))

(* One chunk; two; data that looks like a line end or like a size; a size   *)
(* of two digits.                                                           *)
ChunkLists ==
  { <<>>,
    <<OneChunk(<<"1">>, <<"text">>)>>,
    <<OneChunk(<<"2">>, <<"text", "reason">>), OneChunk(<<"1">>, <<"target">>)>>,
    <<OneChunk(<<"2">>, CRLF), OneChunk(<<"3">>, <<"0", CR, LF>>)>>,
    <<OneChunk(<<"0", "2">>, <<"text", "text">>)>> }

(* A body so long that its buffer must double twice for it. *)
Long == [k \in 1 .. 33 |-> IF k % 5 = 0 THEN CR ELSE "text"]

Responses ==
  {Chunked("socket", OK, <<ChunkedEncoding>>, cs) : cs \in ChunkLists}
  \cup
  { Chunked("socket", OK, <<Host, ChunkedEncoding>>, <<OneChunk(<<"2">>, <<"text", "1">>)>>),
    Plain("socket", OK, <<Length(<<"3">>)>>, <<"text", CR, "0">>, <<"text", CR, "0">>, "Done"),
    Plain("socket", OK, <<Host, Length(<<"2">>)>>, <<"text", "0">>, <<"text", "0">>, "Done"),
    Plain("socket", OK, <<Length(<<"3", "3">>)>>, Long, Long, "Done"),
    Plain("socket", OK, <<Length(<<"0">>)>>, <<>>, <<>>, "Done"),
    Plain("socket", OK, <<>>, <<"text">>, <<>>, "TODO"),
    Plain("socket", OK, <<Host>>, <<"text">>, <<>>, "TODO"),
    Plain("socket", OK, <<OtherEncoding>>, <<"text">>, <<>>, "TODO"),
    Plain("socket", OK, <<Host, Host, Length(<<"1">>)>>, <<"text">>, <<"text">>, "Done"),
    Chunked("socket", OK, <<Host, Host, ChunkedEncoding>>, <<OneChunk(<<"1">>, <<"text">>)>>) }

(* The kinds of src/fuzz_inputs, where a request without a body may end     *)
(* before its last line does.                                               *)
NoEnd(m) == [m EXCEPT !.bytes = SubSeq(@, 1, Len(@) - 4)]
Files ==
  LET get == Plain("file", Request("GET"), <<Host>>, <<>>, <<>>, "Done")
  IN  { get, NoEnd(get),
        Plain("file", Request("PUT"), <<Host, Length(<<"2">>)>>, <<"text", "1">>, <<>>, "Done"),
        Plain("file", Request("POST"), <<Host, Length(<<"2">>)>>, <<"text", "1">>,
              <<"text", "1">>, "Done"),
        Chunked("file", Request("POST"), <<Host, ChunkedEncoding>>,
                <<OneChunk(<<"1">>, <<"text">>), OneChunk(<<"3">>, <<"1", "2", "3">>)>>),
        Plain("file", OK, <<Length(<<"2">>)>>, <<"text", LF>>, <<"text", LF>>, "Done") }

(* What is no message: a start line of no known kind, a line too much       *)
(* behind it, a header without a value, a chunk without a size, with one    *)
(* that is too long, or with a line end in front of it.                     *)
Broken ==
  LET start(words) == [Plain("socket", words, <<Host>>, <<>>, <<>>, "Invalid_Data")
                         EXCEPT !.sound = FALSE, !.safe = {}]
      chunk(size) == [Chunked("socket", OK, <<ChunkedEncoding>>, <<OneChunk(size, <<"text">>)>>)
                        EXCEPT !.sound = FALSE, !.safe = {}]
      header == [Plain("socket", OK, <<<<"Host">>>>, <<>>, <<>>, "Invalid_Data")
                   EXCEPT !.sound = FALSE, !.safe = {}]
  IN  {start(<<"text", "target">>), start(OK \o <<CR, LF, LF>>), header,
       chunk(<<"text">>), chunk(<<"0", "0", "0", "1">>), chunk(<<LF, "1">>)}

All == Responses \cup Files \cup Broken

(* Every sound message here is well-formed but for the file without an end. *)
ASSUME SoundOnesWellFormed ==
  \A m \in All : m.sound => WellFormed(m) \/ \E n \in All : m = NoEnd(n)
=============================================================================
