# Verification of http_playground

A TLA+ model of the HTTP client in `src/`: its cooperative scheduler, its TCP
client over non-blocking sockets, the state machine of a request, the parser of
the response and the buffers it reads from. TLC checks the model on small
instances; TLAPS proves the safety of the scheduler, of the HTTP client on top
of it, of the string buffer and of the parser, for every size and every message,
and that a well-formed message is parsed as it is written wherever the network cuts
it behind its head.

## 1. The system

| component | source | state | operations |
|---|---|---|---|
| Worker | `src/src/worker` | array of 64 tasks, `task_count`, `next_uid`, a malloc'd context per task | `worker_add_task`, `worker_work` |
| TCP socket | `src/src/tcp/tcp_socket.c` | a descriptor; the rest is in the kernel | create and connect, connected, send, receive, close |
| TCP client | `src/src/tcp/client` | `connection_state`, socket | `tcp_client_connect`, `_disconnect`, `_work` |
| HTTP client | `src/src/http/client` | a request context: state, TCP client, own worker, parser | `http_client_request`, `http_client_request_work`, the send task, the receive task |
| HTTP parser | `src/src/http/http.c` | parse state, offset, status, headers, body | `http_try_parse` and what it calls |
| String buffer | `src/src/string/buffer` | data, length, capacity | init, append (grows by doubling), free |
| DNS | `src/src/dns` | none | `dns_resolve_hostname` (blocks) |
| IP address, main, Makefile, fuzz inputs | | | printing, reading files, building |

**How they interact.** The application owns a worker and calls `worker_work` in a
loop. Every request is a task of that worker. In each pass the worker calls
`http_client_request_work`, which first calls `tcp_client_work` and then runs
the handler of the request's state. While it sends or receives, the request has
a worker of its own with one task. The response goes to the parser, which gets
everything read so far at each read. At the end the application's callback is
called; it may ask for further requests. There are no threads: what is
concurrent is the network, which acts between any two system calls, and the
interleaving of the requests of one pass.

At this commit `main` only runs the parser on files; the application of the
client is the part of `main.c` that is commented out (131-165), and the models
take the client as that part and the callback before it use it.

**What is hard.** Callbacks that change the array being walked; a sweep that
moves tasks while it goes down; state kept in a stack frame from one call to
the next; a connection that fails between two looks at it, and an error that is
gone once it was read; a peer that closes, resets, refuses or splits its data
anywhere; asserts where an error should end one request; loops that end only if
every request does. `PROJECT.json` lists these hazards by line.

**What makes each part correct.**

- Worker: the array stays in bounds, each task is called once per pass, the
  finished ones leave in the pass they finish in and only they do, contexts are
  neither shared nor leaked nor freed in use, `worker_work` returns.
- TCP client: its assertions hold, *Connected* means connected, sockets are closed.
- HTTP client: the whole text of the request and nothing else is sent, every
  byte of the response goes to the parser once, the callback is called once and
  only after an answer, a request ends, and one request's failure is not the process's.
- Parser: its result does not depend on how the response was split; it reads
  nothing behind the data; what it decodes is the body.
- String buffer: it holds what was appended, and growing ends.
- DNS: no more addresses are written than the array it is given has room for.

Where the code falls short of this is in section 4.

## 2. Modules

| module | models | notes |
|---|---|---|
| `TaskPool` | the abstract promise of the worker: a set of tasks worked in passes | no array, no order |
| `Worker` | `worker.c` | one action per loop step |
| `MCWorker` | | instance for TLC |
| `WorkerProofs` | | invariance theorems about `Worker`, and that it implements `TaskPool` |
| `TcpSocket` | `tcp_socket.c` over the kernel | operators only: each function is the set of outcomes of its system calls |
| `TcpClient` | `tcp_client.c` | variables `conn`, `sock`, `fate` and its three operations |
| `HttpClient` | `http_client.c` | composes `Worker` (by INSTANCE) and `TcpClient` (by EXTENDS) |
| `TcpClientProofs` | | lemmas: what each function of socket and TCP client can return, and how the connection changes |
| `RequestService` | the abstract promise of the client: requests asked for, called back, gone | no worker, no states, no bytes |
| `HttpClientInvariant` | | the inductive invariant of the client, and the hypotheses `Quiet` and `Patient` of two theorems |
| `HttpClientProofs` | | its invariance, and the safety properties that follow |
| `HttpClientPromises` | | the refinements and the theorems about quiet and patient surroundings |
| `Dns` | `dns.c` | operators only; part of `HttpClient` |
| `MCHttpClient` | | inputs and instance for TLC |
| `GrowingText` | the abstract promise of a string buffer: a text that grows at its end | no memory |
| `StringBuffer` | `string_buffer.h` | an append is the call, each doubling, realloc with memset, and memcpy |
| `StringBufferProofs` | | invariance and refinement theorems |
| `HttpParser` | `http.c` | extends `StringBuffer` (the body's buffer); one action per start line, header line and look at the body |
| `HttpParserProofs` | | theorems about the parser in its callers: bounds, headers, where the body comes from |
| `ParserDrivers` | both callers of `http_try_parse`: the receive task (`http_client.c` 56-126) and `http_fuzz` (`main.c`) | composes `HttpParser` with a second `StringBuffer` (by INSTANCE) |
| `ParserDriversProofs` | | theorems about what the parser is given |
| `MessageInvariant` | | what a well-formed message is, and the inductive invariant of parser and callers for one |
| `MessageProofs` | | its invariance, and the theorems about well-formed messages |
| `MCParser` | | messages and instance for TLC |

### Worker

`tasks`, `task_count` and `next_uid` are the fields of the struct. A context is
the address malloc returned for it; `heap` is what has not been freed, and an
address may be handed out again after that. `pc` and `i` say which loop of
`worker_work` is running and at what index. `RunTask(done)` is the iteration
that calls a task, with either answer; `worker_add_task` is enabled between
passes and while a callback runs. `SweepKeep` and `SweepRemove` are the two ways
through the second loop. Its bound is read once before the loop
(`worker.c` 47), but the index goes down and the array shrinks by at most one
per iteration, so `i` is the only part of it that matters. The callback pointer
is not modelled: it moves with the rest of the record.

### TcpSocket and TcpClient

`sock[c]` is the kernel's end: the state of the connection, whether `SO_ERROR`
is set, what is queued and how much of the response has arrived. It is written
from the behaviour of the system calls the code uses (getsockopt clears the error
it returns; poll reports a failed connection readable and writable; queued data
can be read after a reset; send on a failed connection gives the error once or
raises SIGPIPE) and marked external in the map. `Meanwhile` lets one network
event happen between two system calls of one function; any number may happen
between calls. `fate` is "running" or names what ended the process: the
function whose assertion failed, the failing call, or the signal.

Not modelled here: failures of `socket` and `setsockopt` for other reasons than
the number of open files, a full send buffer (a request has fewer than 512
bytes), `tcp_socket_close` (never reached: see finding *close*).

### HttpClient

`ctx[r]` is the request's context, indexed by its address. `to_send`, `sent`
and `received` are the counters in the contexts of its inner tasks, and `inner`
says which of these tasks is in the request's own worker. That worker is not
modelled as an array: `InnerTaskMatchesState` shows that it is empty whenever a
task is added, so adding succeeds, and a pass over it is one call of the one
task. `wire` (whose text the bytes sent came from) and `calls` (of the callback)
are history. One action per state of the request; each is a whole handler
followed by `Return`, the final switch and the return to the worker's loop.
`TcpTick` is the call of `tcp_client_work` at the head of the function, a step of
its own because the network may act between the two. `CallDone` and
`DisconnectDone` are the two halves of the state Done, between which the
application's callback may call `http_client_request`.

`request_string` is the stack slot of that array, which the send task points to
after the function has returned. Reading it is undefined; the model takes what
the build gives (gcc, no optimisation, as in the Makefile): the last data written
to that place by a later call. Writers are Start_Sending_Request and
Waiting_For_Response of any request, whose locals are in the same frame, and a
`http_client_request` made between two passes, whose zeroed local context lies over it.
This takes `http_client_request` to be called from the function that calls
`worker_work`, as the client part of `main.c` does (131-165, commented out at this commit);
whatever else an application calls there may write to the place too.

A text is its length and its owner. `snprintf`'s cut is modelled by
`TextLength`. The parser is a choice among the results a constant allows for a
part of the response and for all of it; one of them is an abort. What the parser
really answers is the business of `ParserDrivers`: `CutsHarmless` there justifies
`ParseEarly = {Needs_More_Data}` and `ParseFull = {Done}` of the run
`http_client_quiet` for responses cut at safe places, and the findings there are
why `http_client_faults` allows every answer to every part. The loop over
the addresses in the state Connect is one choice: some connect starts, or none does.

### Dns

`dns_resolve_hostname` is the count its loop comes to on a list of so many
addresses (`AddressLists` gives the lists; the empty one is a failing
`getaddrinfo`). A count above `MAX_IP_ADDRESS_CANDIDATES` is a write behind the array; what it
hits is undefined, and the model ends there with fate "overrun".

### StringBuffer

`buf.data` maps the indices of the allocation to bytes, so a read or a copy
outside of it cannot be written down without showing. `call` is the append under
way: its bytes, and `new_capacity` while the loop doubles it. New memory of
`realloc` is only NUL because `memset` makes it so. Running out of memory and
a capacity of 0, which no caller asks for, are left out (`StringBufferAssumption`).

### HttpParser and ParserDrivers

`parser` is the `HTTP_Parser`, `input` the memory and the length it was given,
`at` and `line` where a call of it is. The two buffers are different ones:
`buf` (from `StringBuffer`) is the body's, `sb` the receive task's. A read of the
task may return any number of bytes up to the size of its array; each is
appended to `sb`, and all of `sb` goes to the parser. A file goes to the parser
at once, with the NUL that `http_fuzz` puts behind it. `Byte` reads the memory at
an index whether or not it is inside the data, as the code does; behind the
allocation it is `Outside`, and an action whose decision depends on such a byte
ends the model (fate "outside").

Text is made of symbols. Line ends, digits and NUL are single bytes, because the
parser looks at each of them; every other symbol stands for a run of bytes such
that a cut inside of it has the effect of a cut in front of it or behind it
("version" is `HTTP/1.1 200 `, a key includes its colon). Symbols are counted
where the code counts bytes. Not told apart, and so not modelled: the other
spellings `sscanf` accepts (a start line without a reason phrase or spread over
lines, a sign or `0x` before a number, hexadecimal letters), keys
over 63 bytes, which make the header `Invalid_Data`, values over 255 and lines over 351 bytes and
values with a CR inside, which are cut, lengths
beyond 32 bits, and the version and status code. Nor are words of a start line that are longer
than the local arrays they are scanned into (`http.c` 188-210, 235-248: 63 bytes for the method, 2047
for the path, 255 for the first word of the reason); `%s` has no bound there, and what it then writes over is
undefined. The model is about start lines whose words fit.

`whole` and `safe` are history: whether the first read had the complete head, and
whether every cut so far is one the message lists as safe. Each message
of `MCParser` is written down together with its body and its result, so the
parser is compared with the message and not with a second parser.

## 3. Runs

| run | question | bounds | result |
|---|---|---|---|
| `worker` | does the array with its loops implement the task pool? | 3 slots, 4 addresses, counters modulo 2 | 53 604 states |
| `http_client_quiet` | does everything go well when nothing goes wrong? | 2 slots, 3 requests one after the other (one may be made in a callback), texts of 1 or 3 bytes, responses of 3 bytes read 2 at a time | 16 159 states |
| `http_client_faults` | what is left when anything goes wrong, and does the invariant of the proofs hold? | 2 slots, 3 calls of `http_client_request` at any time, every peer fault, DNS failures, all parser results, a text cut from 3 to 2 bytes, responses of 2 bytes read one by one | 1.7 million states with symmetry |
| `response` | what does the parser make of a message that arrives in pieces? | 21 messages from a socket (15 responses, 6 that are no message) of up to 44 symbols, cut anywhere; 6 files; buffers of 16, at most 2 headers, size texts below 4, unsigned wrap at 1000 | 9 385 states |
| `disconnect`, `overlap`, `end_of_stream`, `close`, `refused`, `empty_post`, `chunk_cut`, `candidates` | one statement of the code each, see the findings | as small as shows it | violated |

Three slots are the fewest with a sweep that has a task above, at and below the
gap. Two requests suffice for one to act between two steps of another, a third
call reuses a freed address and finds the worker full. Two bytes are the fewest
that can be split, on the way out and on the way in. Counters wrap at
`UINT32_VALUES`: nothing depends on them but `lifetime`, which the pool counts too.

In `response`, 16 is the size of the read's array and the first capacity of both buffers,
as one macro is in the code. It is small enough that every response needs
several reads or can have them, that a read can fill the memory to its last byte, and that
33 bytes of body double it twice in one append. Two headers are the fewest with
one in front of the one that counts, and three are too many. There are chunked
messages with no, one and two chunks, with data that looks like a line end or
like a size line, and with a size of two digits; four bytes of size text are too
many for the limit of 4. 1000 is larger than any distance in these messages, so
that a difference below 0 wraps to a large number, as it does modulo 2^64.

Properties of the faults run, from the code's point of view:

- `SoundAssertions`: the assertions at `tcp_client.c` 5 and 57 and at
  `http_client.c` 13 and 200 never fail. (The one at `tcp_client.c` 27 does.)
- `NetworkDeaths`: SIGPIPE, failing calls and `Not_Connected` need a failed connection, and
  it is the one of the request being handled: a request never dies of another's connection.
- `CalledBackOnce`, `AnswerBehindCallback`: one callback, and one that the
  process survives has a complete send and some response behind it.
- `InnerTaskMatchesState`: the inner worker holds the task the state says.
- `BytesConserved`: read + queued = arrived.
- `NoSilentLoss`: a request leaves without its callback only if its connection failed.
- `RefinesRequestService`: all of it together is the abstract `RequestService`.
- `ClientInv`: the inductive invariant of section 5.

Properties of the `response` run:

- `CutsHarmless`: a message whose head is in the first read, and that is cut only
  where it says, is answered as if it came at once, not earlier and not later.
  A body of Content-Length bytes may be cut anywhere. A chunked one may be cut in
  front of a size line, behind its first byte, and between the end of a size line and
  the last byte of the data; not elsewhere in the size line, and not around the line end behind the data.
- `BodyNeverWrong`: at any cut behind the head, what was appended to the body is a
  beginning of the body; the process may die, but it does not deliver a wrong one.
- `ReadInOrder`, `ZeroBehindReceived`, `ZeroBehindData`, `RefinesText`,
  `EveryAppendEnds`: both buffers keep their promises.
- `HeadersFit`: no header is stored behind the array.
- `BodyFromMessage`: a piece appended to the body was received, and is the part of
  the message that the parser's offsets say, however they were computed.
- `FilesParsed`: every sound file has its result.
- `MessageParsed`: the invariant of section 5, for the messages that are `WellFormed`.
  An assumption of `MCParser`, which TLC evaluates, says which ones of its messages are:
  every sound one but the file that ends at its last header.
- `EveryMessageAnswered`: the parser does not wait for more than is sent.

Deadlock is not checked in the HTTP client's and the parser's runs: the messages of `response` end,
the loop over `worker_work` ends when no task is left, the calls of `http_client_request` are bounded, and a process that
aborted does nothing more.

**Fairness.** `worker_work` and its callbacks run to their end: the code has no
blocking call but `getaddrinfo`. The application calls `worker_work` while it has
tasks (`main.c` 165). A connection attempt ends, and a peer that has the complete
text of its request goes on answering it. The application need not ask for anything, the peer
need not answer anything else, and no fault has to happen. In `ParserDrivers` the
code runs on and the peer sends all of its message (weak fairness of Next; the
size of each read stays free). In `StringBuffer` an append that has begun goes on.

## 4. Findings

Eight statements of the code that its own behaviour contradicts, each shown by a
run; `PROJECT.json` gives the lines.

1. *disconnect*: every way to Done but the good one ends in a failing assertion.
2. *overlap*: the send task sends what later calls left on the stack.
3. *end_of_stream*: "Read 0 bytes. Work done." returns not done, for ever.
4. *close*: no socket is ever closed.
5. *refused*: a refused connection becomes Connected and then kills the process.
6. *empty_post*: a POST without body aborts instead of ending its request.
7. *chunk_cut*: a chunk's size line that has arrived in part ends the process.
8. *candidates*: one address too many is written behind the candidates.

Two more observations contradict no statement of the code and have no run of their own.
A head cut by the network is taken for a complete one when the cut is inside its headers
(`http.c` 319), or for invalid data when it is inside the start line (263): that is why
`CutsHarmless` and `BodyNeverWrong` ask for the head in the first read. And a
message with more than `HTTP_MAX_HEADERS` headers has its body read from the
second byte of its headers (`http.c` 341, 365), which is why such a message is
not `sound` in `MCParser`.

## 5. Proofs

`WorkerProofs` proves, for every `MAX_WORKER_TASKS`, every set of addresses and
every counter width (assumption `WorkerAssumption`: the sizes are positive and NULL is no
address), that `WorkerSpec` implies `[]WorkerTypeOK`, `[]OwnedContexts`,
`[]FreeSlotsZeroed` and `[]NoFinishedTaskKept`.

`NoFinishedTaskKept` speaks of the end of a pass and is not inductive.
`WorkerInv` adds `DoneConfined`: a finished task is below the index while the
tasks are called and at or below it in the sweep. The sweep moves the last task
into slot `i` and goes on below `i`; this keeps `DoneConfined` because the last
task is either the removed one or above `i`, hence not done. A task added by a callback
keeps it because its slot was zeroed (`FreeSlotsZeroed`).

It also proves that `WorkerSpec` implements `TaskPool`'s specification
(`RefinesTaskPool`), under the same assumption. The mapping looks each task up by
its context, so a task that the sweep moves to another slot stays the same task:
that needs `OwnedContexts`, which makes the lookup unique. A removal is a `Reap`
of that task and of no other, a call is a `Call` of a task still waiting, and the
guard of `Add` follows because there are no more contexts than tasks. The last
step of a pass maps to `EndPass` because `DoneConfined` leaves no finished task
below index 0.

`StringBufferProofs` proves, for every initial capacity and every set of bytes
(`StringBufferAssumption`), that the copy of an append fits (`BufferInBounds`),
that the memory behind the data is NUL (`BufferZeroed`), and that the buffer
implements `GrowingText` (`BufferRefinement`). `BufferInv` is the type invariant,
which says at each step of an append what the capacity is known to be, with
`ZeroBehindData`. For the refinement, the call maps to `Begin`, the copy to `Finish`
and every doubling and the move of the memory to a stutter, because `Grown` keeps
the bytes below the old capacity and the length is not above it.

**The HTTP client.** `HttpClientProofs` proves for every number of requests, every
set of inputs, every size and every set of faults (`HttpClientAssumption`, which
includes the worker's assumption) that `Spec` implies `[]ClientInv`. None of the properties of the
faults run is inductive: whether an assertion holds in a handler depends on what the TCP client,
the kernel's socket, the inner task and the worker's done flag of that request can be
at this point of this pass. The parts of `ClientInv` say which combinations there are:

- `ClientFits`: the TCP client's state in each state of the request. Needed by the
  assertions, together with `FlagsFit` (the worker's done flags are the disconnecting clients,
  but for the call that has not returned), since `tcp_client_work` must not meet
  a client that disconnected earlier in the pass.
- `TaskFits`: the inner task and the counters in each state; gives
  `InnerTaskMatchesState` and `AnswerBehindCallback`.
- `CallsFit`: the callback is called in the state Done, and who was called back is
  still in the callback or is disconnecting; gives `CalledBackOnce`.
- `FreeContextsZeroed`: a context that is not in use is as a new one, so a request
  that gets a freed address inherits nothing.
- `SocketsCounted`: bounds the number of open files by the number of requests made;
  needed where `socket` may fail.

`TcpClientProofs` has one lemma per function of socket and TCP client: the outcomes it
can have in each state, and that the connection only goes on (`Follows`). Each action of
`HttpClient` has a lemma of its own; what it does to the worker's array comes from
`WorkerProofs` through the instance, so `ClientWorkerIsPool` carries the refinement of the
task pool over to the worker as the client uses it.

`HttpClientPromises` has the rest. `RequestsServed`: the client implements
`RequestService`; a return of the handler that disconnects without callback is a
`Fail`, the callback an `Answer`, the sweep a `Leave`, and all the rest stutters.
`QuietClientLives`: with the hypothesis `Quiet` (no network faults, no failing name service, no parser abort, no text that is
missing, enough file descriptors) nothing ends the process. Requests may overlap, so the hypothesis is weaker than
the run's, which checks one request after the other. `PatientRequestsWhole`: with `Patient` (an
application that waits for its answer, texts that fit into the array) the whole text of the
request and nothing else is sent, whatever the network does. The constants of
`MCHttpClientQuiet.cfg` satisfy both hypotheses; those of `overlap` satisfy `Quiet` but not
`Patient`, and there `EntireRequestSent` fails.

**The parser.** `ParserDriversProofs` uses the buffer's lemmas for the receive task's buffer, through an
instance of `StringBufferProofs`: for every set of messages, `ReceiveInv` joins
`BufferInv` of that buffer, the bounds of `read` and `ReadInOrder`, and each step
either is one of the buffer or leaves it alone.

`HttpParserProofs` goes on with the parser. `ParserInv` types its offsets and
bounds its headers for any memory it is given; `CallersInv` adds `ReceiveInv` and that a
parser that is done is not called again (its answer would be an abort that no caller makes);
`MessageInv` adds that what lies below `length` in the parser's memory is the beginning of the message.
That is what `BodyFromMessage` needs: the parser computes the number of bytes left
in a `uint64_t`, and with its offset behind the data this wraps to a large number. In a chunked
body that does no harm: the line end behind a chunk's size must have been received,
because behind what was received there is only NUL, so what is left is counted from an
offset inside the data. With Content-Length the property asks for such an offset, which
a cut head may break. The theorem holds for every width of the integer.

Numbers are folds over digits. That such a number is a natural number, however long the text,
needs an induction over the digits; the induction theorems of the library cannot be
instantiated, so `NumberType` takes the least number of digits for which it fails (`WFMin` with
`NatLessThanWellFounded`) and refutes it.

**Well-formed messages.** `MessageInvariant` defines them for any number of lines, headers and
chunks. `WellFormed` says where each line and each chunk begins, as offsets from the
first byte, what is between them (a line has no line end and no NUL in it, a chunk's size
line is a number, its data is the next part of the body), and that the result and `needed`
follow from the method and the headers: no body that is read, a body the parser
answers TODO to, one with a length, or one in chunks. The safe cuts it lists may be any that
avoid the fragile places of the chunks (`Fragile`). No value is parsed in these definitions but by
`Number`, the model of `strtol`, so they are not a second parser.

`MessageProofs` proves `MessageParsed` for every set of messages and all sizes
(`HttpParserAssumption`; a message is shorter than what a `uint64_t` counts, which
`WellFormed` asks for). None of `BodyNeverWrong`, `CutsHarmless` and `FilesParsed` is inductive: that an
answer is right depends on the parser being at a place of the message when it
was called. `ParsedAsWritten` says that it always is: at the start line, at the beginning of
header line `j` with the headers of the lines in front of it (`AtHeader`), at the content with all headers
(`AtBody`), in chunks at the beginning of one, with the data of those in front of it collected (`AtChunk`),
or at the end. `Collected` is the body together with the append under way, so that the
copy of a long body, which takes several steps, changes nothing there.

Three arguments carry the steps. The search for a line end finds the one that was written,
because there is none in the line and the head is in the memory. A size line that the parser accepts has been received
whole, since behind the data there is only NUL, and NUL is neither a digit nor a line end. And if every cut was
safe, the beginning of the next chunk is not behind what was read, so the difference
in `http.c` 500 does not wrap and the parser asks for more instead of failing; without that hypothesis an unsafe cut
ends the process (finding *chunk_cut*), but never gives a wrong body: this is why `BodiesRight`
asks for nothing about the cuts behind the head. `SafeCutsHarmless` and `FilesAnswered` follow in the same way.

**Only model-checked.** All liveness (`EveryPassEnds`, `EveryRequestAnswered`,
`LoopEnds`, `EveryAppendEnds`, `EveryMessageAnswered`: the provers have no fairness and no
ENABLED). And the file that ends at its last header, which is sound but not
`WellFormed`: for it `FilesParsed` is what the run says.

## 6. Not modelled, and the plan

Next, in this order:

1. Proofs: files that end before their last line does (`http.c` 319), with the NUL that
   `http_fuzz` puts there as the end of the head.
2. Proofs: what is answered to a message whose head is cut: the headers that are stored
   are always a beginning of those that are written, but for the last one.

Left out for good: printing, failing file calls, heap exhaustion, the IP address
type, the table of status texts (`http.c` 10-83: constant data), the memory that
is never freed (`http_dispose`, `http_parser_dispose`), `tcp_socket_close` (never
reached), and the other causes by which `socket` and `setsockopt` fail.
