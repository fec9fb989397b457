---------------------------- MODULE StringBuffer ----------------------------
(***************************************************************************)
(* The String_Buffer of src/string/buffer/string_buffer.h: memory that     *)
(* grows by doubling.  An append is the call (string_buffer_append_buf),   *)
(* the loop of string_buffer_resize (Double), its realloc and memset       *)
(* (Reallocate), and the memcpy (Copy).  malloc and realloc do not fail.   *)
(***************************************************************************)
EXTENDS Integers, Sequences

CONSTANTS
  Bytes,            \* what the memory holds
  NUL,              \* the byte 0
  INITIAL_CAPACITY  \* initial_capacity: 1024 for every buffer of the program

ASSUME StringBufferAssumption ==
  /\ NUL \in Bytes
  /\ INITIAL_CAPACITY \in Nat \ {0}

VARIABLES
  buf,  \* the String_Buffer; data maps the indices of the allocation to bytes
  call  \* the append under way: the step it is at, its bytes and new_capacity

bufferVars == <<buf, call>>

NoCall == [at |-> "none", bytes |-> <<>>, new_capacity |-> 0]

string_buffer_init ==
  [data |-> [k \in 0 .. INITIAL_CAPACITY - 1 |-> NUL], length |-> 0, capacity |-> INITIAL_CAPACITY]

StringBufferInit == buf = string_buffer_init /\ call = NoCall

RequiredCapacity == buf.length + Len(call.bytes)

(* The assertion length > 0 holds of every caller. *)
string_buffer_append_buf(bytes) ==
  /\ call.at = "none"
  /\ bytes # <<>>
  /\ call' = [at |-> "resize", bytes |-> bytes, new_capacity |-> buf.capacity]
  /\ UNCHANGED buf

(* Seeded fault: twice the old capacity, however often the loop runs. *)
DoubledOnce(c) == 2 * buf.capacity

Doubled(c) == 2 * c

Double ==
  /\ call.at = "resize"
  /\ call.new_capacity < RequiredCapacity
  /\ call' = [call EXCEPT !.new_capacity = Doubled(@)]
  /\ UNCHANGED buf

(* Seeded fault: realloc without memset. *)
GrownUncleared(capacity) ==
  [k \in 0 .. capacity - 1 |-> IF k < buf.capacity THEN buf.data[k]
                               ELSE CHOOSE b \in Bytes : b # NUL]

(* The memory after realloc and memset. *)
Grown(capacity) ==
  [k \in 0 .. capacity - 1 |-> IF k < buf.capacity THEN buf.data[k] ELSE NUL]

(* Seeded fault: the new capacity is not stored. *)
ReallocateForgetful ==
  /\ call.at = "resize"
  /\ call.new_capacity >= RequiredCapacity
  /\ buf' = [buf EXCEPT !.data = Grown(call.new_capacity)]
  /\ call' = [call EXCEPT !.at = "copy"]

(* With enough capacity new_capacity is the old one and nothing changes. *)
Reallocate ==
  /\ call.at = "resize"
  /\ call.new_capacity >= RequiredCapacity
  /\ buf' = [buf EXCEPT !.data = Grown(call.new_capacity), !.capacity = call.new_capacity]
  /\ call' = [call EXCEPT !.at = "copy"]

(* Seeded fault: the bytes are copied to the front. *)
CopiedToFront ==
  [k \in DOMAIN buf.data |-> IF k < Len(call.bytes) THEN call.bytes[k + 1] ELSE buf.data[k]]

(* The memory after memcpy. *)
Copied ==
  [k \in DOMAIN buf.data |-> IF buf.length <= k /\ k < RequiredCapacity
                             THEN call.bytes[k - buf.length + 1] ELSE buf.data[k]]

Copy ==
  /\ call.at = "copy"
  /\ buf' = [buf EXCEPT !.data = Copied, !.length = RequiredCapacity]
  /\ call' = NoCall

AppendStep == Double \/ Reallocate \/ Copy

StringBufferNext ==
  \/ \E bytes \in Seq(Bytes) : string_buffer_append_buf(bytes)
  \/ AppendStep

(* An append that has begun runs to its end. *)
StringBufferSpec ==
  StringBufferInit /\ [][StringBufferNext]_bufferVars /\ WF_bufferVars(AppendStep)

-----------------------------------------------------------------------------
(* The indices of the data are those of the allocation, and the copy of     *)
(* memcpy fits into it, however often the loop had to double.               *)
StringBufferTypeOK ==
  /\ buf.capacity \in Nat \ {0}
  /\ buf.length \in 0 .. buf.capacity
  /\ buf = [data |-> buf.data, length |-> buf.length, capacity |-> buf.capacity]
  /\ buf.data \in [0 .. buf.capacity - 1 -> Bytes]
  /\ call \in [at : {"none", "resize", "copy"}, bytes : Seq(Bytes), new_capacity : Nat]
  /\ call.at = "none" <=> call.bytes = <<>>
  /\ call.at = "resize" => call.new_capacity >= buf.capacity
  /\ call.at = "copy" => RequiredCapacity <= buf.capacity

(* Whatever is behind the data is NUL to the end of the allocation: the     *)
(* parser, which does not look at the length while it reads the headers,    *)
(* finds its end there (http.c 319), and realloc's memory never shows.      *)
ZeroBehindData ==
  \A k \in buf.length .. buf.capacity - 1 : buf.data[k] = NUL

(* The text a buffer holds. *)
TextOf(b) == [k \in 1 .. b.length |-> b.data[k - 1]]

Text == INSTANCE GrowingText WITH text <- TextOf(buf), pending <- call.bytes

(* Growing, moving and clearing the memory never changes the text: each     *)
(* append puts its bytes behind it, once.                                   *)
RefinesText == Text!Spec

(* string_buffer_resize's loop ends: doubling reaches any capacity. *)
EveryAppendEnds == call.at # "none" ~> call.at = "none"
=============================================================================
