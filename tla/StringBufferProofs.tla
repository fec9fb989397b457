------------------------- MODULE StringBufferProofs -------------------------
(***************************************************************************)
(* The String_Buffer for every initial capacity and every set of bytes:    *)
(* its data stays in its allocation, what is behind the data is NUL, and   *)
(* it implements a text that only grows.                                   *)
(***************************************************************************)
EXTENDS StringBuffer, SequenceTheorems, TLAPS

BufferInv == StringBufferTypeOK /\ ZeroBehindData

(* The initial buffer. *)
LEMMA BufferInvInit == StringBufferInit => BufferInv
<1> SUFFICES ASSUME StringBufferInit PROVE BufferInv
  OBVIOUS
<1> USE StringBufferAssumption DEF StringBufferInit
<1>1. /\ buf.length = 0 /\ buf.capacity = INITIAL_CAPACITY
      /\ buf.data = [k \in 0 .. INITIAL_CAPACITY - 1 |-> NUL]
      /\ buf = [data |-> buf.data, length |-> buf.length, capacity |-> buf.capacity]
  BY DEF string_buffer_init
<1>2. call \in [at : {"none", "resize", "copy"}, bytes : Seq(Bytes), new_capacity : Nat]
      /\ call.at = "none" /\ call.bytes = <<>>
  BY DEF NoCall
<1> QED
  BY <1>1, <1>2 DEF BufferInv, StringBufferTypeOK, ZeroBehindData

(* The call of an append. *)
LEMMA BufferInvAppend ==
  ASSUME BufferInv, NEW bytes \in Seq(Bytes), string_buffer_append_buf(bytes)
  PROVE  BufferInv'
<1> USE DEF BufferInv, StringBufferTypeOK
<1>1. buf' = buf
  BY DEF string_buffer_append_buf
<1>2. call' = [at |-> "resize", bytes |-> bytes, new_capacity |-> buf.capacity] /\ bytes # <<>>
  BY DEF string_buffer_append_buf
<1>3. call'.at = "resize" /\ call'.bytes = bytes /\ call'.new_capacity = buf.capacity
  BY <1>2
<1>4. call' \in [at : {"none", "resize", "copy"}, bytes : Seq(Bytes), new_capacity : Nat]
  BY <1>2
<1>5. StringBufferTypeOK'
  BY <1>1, <1>2, <1>3, <1>4
<1>6. ZeroBehindData'
  BY <1>1 DEF ZeroBehindData
<1> QED
  BY <1>5, <1>6

(* One turn of the doubling loop. *)
LEMMA BufferInvDouble ==
  ASSUME BufferInv, Double
  PROVE  BufferInv'
<1> USE DEF BufferInv, StringBufferTypeOK
<1>1. buf' = buf /\ call.at = "resize"
  BY DEF Double
<1>2. call' = [call EXCEPT !.new_capacity = 2 * call.new_capacity]
  BY DEF Double, Doubled
<1>3. call'.at = call.at /\ call'.bytes = call.bytes
      /\ call'.new_capacity = 2 * call.new_capacity
  BY <1>2
<1>4. call' \in [at : {"none", "resize", "copy"}, bytes : Seq(Bytes), new_capacity : Nat]
  BY <1>2
<1>5. call'.new_capacity >= buf.capacity
  BY <1>1, <1>3
<1>6. StringBufferTypeOK'
  BY <1>1, <1>3, <1>4, <1>5
<1>7. ZeroBehindData'
  BY <1>1 DEF ZeroBehindData
<1> QED
  BY <1>6, <1>7

(* realloc and memset: the old data is kept, and what is new is NUL. *)
LEMMA BufferInvReallocate ==
  ASSUME BufferInv, Reallocate
  PROVE  BufferInv'
<1> USE DEF BufferInv, StringBufferTypeOK
<1> DEFINE c == call.new_capacity
<1>1. call.at = "resize" /\ c \in Nat /\ c >= RequiredCapacity /\ c >= buf.capacity
  BY DEF Reallocate
<1>2. buf' = [data |-> Grown(c), length |-> buf.length, capacity |-> c]
  <2>1. buf' = [buf EXCEPT !.data = Grown(c), !.capacity = c]
    BY DEF Reallocate
  <2>2. buf = [data |-> buf.data, length |-> buf.length, capacity |-> buf.capacity]
    OBVIOUS
  <2> QED
    BY <2>1, <2>2
<1>3. buf'.data = Grown(c) /\ buf'.length = buf.length /\ buf'.capacity = c
  BY <1>2
<1>4. call' = [call EXCEPT !.at = "copy"]
  BY DEF Reallocate
<1>5. call'.at = "copy" /\ call'.bytes = call.bytes
      /\ call' \in [at : {"none", "resize", "copy"}, bytes : Seq(Bytes), new_capacity : Nat]
  BY <1>4
<1>6. Grown(c) \in [0 .. c - 1 -> Bytes]
  <2> SUFFICES ASSUME NEW k \in 0 .. c - 1
               PROVE  (IF k < buf.capacity THEN buf.data[k] ELSE NUL) \in Bytes
    BY DEF Grown
  <2> QED
    BY StringBufferAssumption
<1>7. RequiredCapacity' <= buf'.capacity
  BY <1>1, <1>3, <1>5 DEF RequiredCapacity
<1>8. buf'.length \in 0 .. buf'.capacity /\ buf'.capacity \in Nat \ {0}
  BY <1>1, <1>3
<1>9. StringBufferTypeOK'
  BY <1>1, <1>2, <1>3, <1>5, <1>6, <1>7, <1>8
<1>10. ZeroBehindData'
  <2> SUFFICES ASSUME NEW k \in buf'.length .. buf'.capacity - 1
               PROVE  buf'.data[k] = NUL
    BY DEF ZeroBehindData
  <2>1. k \in 0 .. c - 1 /\ k >= buf.length
    BY <1>1, <1>3
  <2>2. buf'.data[k] = IF k < buf.capacity THEN buf.data[k] ELSE NUL
    BY <1>3, <2>1 DEF Grown
  <2> QED
    BY <2>1, <2>2 DEF ZeroBehindData
<1> QED
  BY <1>9, <1>10

(* memcpy: it writes behind the data and in the allocation. *)
LEMMA BufferInvCopy ==
  ASSUME BufferInv, Copy
  PROVE  BufferInv'
<1> USE DEF BufferInv, StringBufferTypeOK
<1> DEFINE n == Len(call.bytes)
<1>1. /\ call.at = "copy" /\ n \in Nat /\ call.bytes \in Seq(Bytes)
      /\ RequiredCapacity = buf.length + n
      /\ RequiredCapacity <= buf.capacity
  BY DEF Copy, RequiredCapacity
<1>2. buf' = [data |-> Copied, length |-> RequiredCapacity, capacity |-> buf.capacity]
  <2>1. buf' = [buf EXCEPT !.data = Copied, !.length = RequiredCapacity]
    BY DEF Copy
  <2>2. buf = [data |-> buf.data, length |-> buf.length, capacity |-> buf.capacity]
    OBVIOUS
  <2> QED
    BY <2>1, <2>2
<1>3. buf'.data = Copied /\ buf'.length = buf.length + n /\ buf'.capacity = buf.capacity
  BY <1>1, <1>2
<1>4. call' = NoCall
  BY DEF Copy
<1>5. call'.at = "none" /\ call'.bytes = <<>>
      /\ call' \in [at : {"none", "resize", "copy"}, bytes : Seq(Bytes), new_capacity : Nat]
  BY <1>4 DEF NoCall
<1>6. Copied \in [0 .. buf.capacity - 1 -> Bytes]
  <2>1. DOMAIN buf.data = 0 .. buf.capacity - 1
    OBVIOUS
  <2>2. ASSUME NEW k \in 0 .. buf.capacity - 1
        PROVE  (IF buf.length <= k /\ k < RequiredCapacity
                THEN call.bytes[k - buf.length + 1] ELSE buf.data[k]) \in Bytes
    <3>1. CASE buf.length <= k /\ k < RequiredCapacity
      <4>1. k - buf.length + 1 \in 1 .. n
        BY <1>1, <3>1
      <4> QED
        BY <1>1, <3>1, <4>1
    <3>2. CASE ~ (buf.length <= k /\ k < RequiredCapacity)
      BY <3>2
    <3> QED
      BY <3>1, <3>2
  <2> QED
    BY <2>1, <2>2 DEF Copied
<1>7. buf'.length \in 0 .. buf'.capacity
  BY <1>1, <1>3
<1>8. StringBufferTypeOK'
  BY <1>2, <1>3, <1>5, <1>6, <1>7
<1>9. ZeroBehindData'
  <2> SUFFICES ASSUME NEW k \in buf'.length .. buf'.capacity - 1
               PROVE  buf'.data[k] = NUL
    BY DEF ZeroBehindData
  <2>1. k \in buf.length .. buf.capacity - 1 /\ k >= RequiredCapacity
    BY <1>1, <1>3
  <2>2. buf'.data[k] = buf.data[k]
    BY <1>1, <1>3, <2>1 DEF Copied
  <2> QED
    BY <2>1, <2>2 DEF ZeroBehindData
<1> QED
  BY <1>8, <1>9

LEMMA BufferInvNext == BufferInv /\ [StringBufferNext]_bufferVars => BufferInv'
<1> SUFFICES ASSUME BufferInv, [StringBufferNext]_bufferVars PROVE BufferInv'
  OBVIOUS
<1>1. CASE \E bytes \in Seq(Bytes) : string_buffer_append_buf(bytes)
  BY <1>1, BufferInvAppend
<1>2. CASE Double
  BY <1>2, BufferInvDouble
<1>3. CASE Reallocate
  BY <1>3, BufferInvReallocate
<1>4. CASE Copy
  BY <1>4, BufferInvCopy
<1>5. CASE UNCHANGED bufferVars
  BY <1>5 DEF bufferVars, BufferInv, StringBufferTypeOK, ZeroBehindData, RequiredCapacity
<1> QED
  BY <1>1, <1>2, <1>3, <1>4, <1>5 DEF StringBufferNext, AppendStep

(* Every reachable state of a buffer satisfies the invariant. *)
THEOREM BufferInvariance == StringBufferSpec => []BufferInv
  BY BufferInvInit, BufferInvNext, PTL DEF StringBufferSpec

(* No copy leaves the allocation, whatever is appended (string_buffer.h     *)
(* 46-49).                                                                  *)
THEOREM BufferInBounds == StringBufferSpec => []StringBufferTypeOK
<1>1. BufferInv => StringBufferTypeOK
  BY DEF BufferInv
<1> QED
  BY <1>1, BufferInvariance, PTL

(* The NUL bytes behind the data that the parser relies on (http.c 319).    *)
THEOREM BufferZeroed == StringBufferSpec => []ZeroBehindData
<1>1. BufferInv => ZeroBehindData
  BY DEF BufferInv
<1> QED
  BY <1>1, BufferInvariance, PTL

-----------------------------------------------------------------------------
(* A buffer's text is a sequence of bytes, as long as its data. *)
LEMMA TextIsSeq ==
  ASSUME NEW b, b.capacity \in Nat, b.length \in 0 .. b.capacity,
         b.data \in [0 .. b.capacity - 1 -> Bytes]
  PROVE  TextOf(b) \in Seq(Bytes) /\ Len(TextOf(b)) = b.length
<1>1. b.length \in Nat /\ DOMAIN TextOf(b) = 1 .. b.length
  BY DEF TextOf
<1>2. \A k \in 1 .. b.length : b.data[k - 1] \in Bytes
  OBVIOUS
<1>3. TextOf(b) \in [1 .. b.length -> Bytes]
  BY <1>1, <1>2 DEF TextOf
<1>4. TextOf(b) \in Seq(Bytes)
  BY <1>1, <1>3, SeqDef
<1> QED
  BY <1>1, <1>3, <1>4, LenProperties

(* The initial text is empty. *)
LEMMA RefinesInit == StringBufferInit => Text!Init
<1> SUFFICES ASSUME StringBufferInit PROVE Text!Init
  OBVIOUS
<1>1. StringBufferTypeOK /\ buf.length = 0 /\ call.bytes = <<>>
  BY BufferInvInit DEF BufferInv, StringBufferInit, string_buffer_init, NoCall
<1>2. TextOf(buf) = <<>>
  BY <1>1, TextIsSeq, EmptySeq DEF StringBufferTypeOK
<1> QED
  BY <1>1, <1>2 DEF Text!Init

(* The call of an append begins the growth of the text. *)
LEMMA RefinesAppend ==
  ASSUME BufferInv, NEW bytes \in Seq(Bytes), string_buffer_append_buf(bytes)
  PROVE  Text!Next
<1>1. call.bytes = <<>> /\ buf' = buf
  BY DEF BufferInv, StringBufferTypeOK, string_buffer_append_buf
<1>2. call'.bytes = bytes /\ bytes # <<>>
  BY DEF string_buffer_append_buf
<1>3. TextOf(buf)' = TextOf(buf)
  BY <1>1
<1> QED
  BY <1>1, <1>2, <1>3 DEF Text!Next, Text!Begin

(* A turn of the loop does not touch the text. *)
LEMMA RefinesDouble ==
  ASSUME BufferInv, Double
  PROVE  UNCHANGED Text!textVars
<1>1. buf' = buf
  BY DEF Double
<1>2. call'.bytes = call.bytes
  BY DEF Double, BufferInv, StringBufferTypeOK
<1> QED
  BY <1>1, <1>2 DEF Text!textVars

(* Memory that is moved and cleared holds the same text. *)
LEMMA RefinesReallocate ==
  ASSUME BufferInv, Reallocate
  PROVE  UNCHANGED Text!textVars
<1> USE DEF BufferInv, StringBufferTypeOK
<1> DEFINE c == call.new_capacity
<1>1. call.at = "resize" /\ c \in Nat /\ c >= buf.capacity
  BY DEF Reallocate
<1>2. buf'.data = Grown(c) /\ buf'.length = buf.length
  BY DEF Reallocate
<1>3. call'.bytes = call.bytes
  BY DEF Reallocate
<1>4. \A k \in 1 .. buf.length : buf'.data[k - 1] = buf.data[k - 1]
  BY <1>1, <1>2 DEF Grown
<1>5. TextOf(buf)' = TextOf(buf)
  BY <1>2, <1>4 DEF TextOf
<1> QED
  BY <1>3, <1>5 DEF Text!textVars

(* A sequence that begins with one and goes on with another is both, one    *)
(* behind the other.                                                        *)
LEMMA IsConcatenation ==
  ASSUME NEW S, NEW s \in Seq(S), NEW t \in Seq(S), NEW u \in Seq(S),
         Len(u) = Len(s) + Len(t),
         \A k \in 1 .. Len(s) : u[k] = s[k],
         \A k \in 1 .. Len(t) : u[Len(s) + k] = t[k]
  PROVE  u = s \o t
<1>1. Len(s) \in Nat /\ Len(t) \in Nat
  BY LenProperties
<1>2. s \o t \in Seq(S) /\ Len(s \o t) = Len(s) + Len(t)
  BY ConcatProperties
<1>3. ASSUME NEW k \in 1 .. Len(u) PROVE u[k] = (s \o t)[k]
  <2>1. (s \o t)[k] = IF k <= Len(s) THEN s[k] ELSE t[k - Len(s)]
    BY ConcatProperties
  <2>2. CASE k <= Len(s)
    BY <1>1, <2>1, <2>2
  <2>3. CASE k > Len(s)
    <3>1. k - Len(s) \in 1 .. Len(t) /\ Len(s) + (k - Len(s)) = k
      BY <1>1, <2>3
    <3>2. u[k] = t[k - Len(s)]
      BY <3>1
    <3> QED
      BY <1>1, <2>1, <2>3, <3>2
  <2> QED
    BY <1>1, <2>2, <2>3
<1> QED
  BY <1>2, <1>3, SeqEqual

(* The copy puts the bytes of the call behind the text. *)
LEMMA RefinesCopy ==
  ASSUME BufferInv, Copy
  PROVE  Text!Next
<1> USE DEF BufferInv, StringBufferTypeOK
<1> DEFINE n == Len(call.bytes)
           text == TextOf(buf)
<1>1. /\ call.at = "copy" /\ call.bytes \in Seq(Bytes) /\ call.bytes # <<>> /\ n \in Nat
      /\ RequiredCapacity = buf.length + n /\ RequiredCapacity <= buf.capacity
  BY DEF Copy, RequiredCapacity
<1>2. buf'.data = Copied /\ buf'.length = buf.length + n /\ call'.bytes = <<>>
  BY <1>1 DEF Copy, NoCall
<1>3. text \in Seq(Bytes) /\ Len(text) = buf.length
  BY TextIsSeq
<1>4. BufferInv'
  BY BufferInvCopy
<1>5. TextOf(buf)' \in Seq(Bytes) /\ Len(TextOf(buf)') = buf.length + n
  BY <1>2, <1>4, TextIsSeq
<1>6. ASSUME NEW k \in 1 .. buf.length PROVE TextOf(buf)'[k] = text[k]
  <2>1. TextOf(buf)'[k] = Copied[k - 1]
    BY <1>1, <1>2 DEF TextOf
  <2>2. Copied[k - 1] = buf.data[k - 1]
    BY <1>1 DEF Copied
  <2> QED
    BY <2>1, <2>2 DEF TextOf
<1>7. ASSUME NEW k \in 1 .. n PROVE TextOf(buf)'[buf.length + k] = call.bytes[k]
  <2>1. TextOf(buf)'[buf.length + k] = Copied[buf.length + k - 1]
    BY <1>1, <1>2 DEF TextOf
  <2>2. /\ buf.length + k - 1 \in DOMAIN buf.data
        /\ buf.length <= buf.length + k - 1 /\ buf.length + k - 1 < RequiredCapacity
    BY <1>1
  <2>3. Copied[buf.length + k - 1] = call.bytes[(buf.length + k - 1) - buf.length + 1]
    BY <2>2 DEF Copied
  <2>4. (buf.length + k - 1) - buf.length + 1 = k
    BY <1>1
  <2> QED
    BY <2>1, <2>3, <2>4
<1>8. TextOf(buf)' = text \o call.bytes
  <2> HIDE DEF BufferInv, StringBufferTypeOK, text
  <2>1. Len(TextOf(buf)') = Len(text) + Len(call.bytes)
    BY <1>3, <1>5
  <2>2. \A k \in 1 .. Len(text) : TextOf(buf)'[k] = text[k]
    BY <1>3, <1>6
  <2>3. \A k \in 1 .. Len(call.bytes) : TextOf(buf)'[Len(text) + k] = call.bytes[k]
    BY <1>3, <1>7
  <2>4. \A u \in Seq(Bytes) :
          /\ Len(u) = Len(text) + Len(call.bytes)
          /\ \A k \in 1 .. Len(text) : u[k] = text[k]
          /\ \A k \in 1 .. Len(call.bytes) : u[Len(text) + k] = call.bytes[k]
          => u = text \o call.bytes
    BY <1>1, <1>3, IsConcatenation
  <2> QED
    BY <1>5, <2>1, <2>2, <2>3, <2>4
<1> QED
  BY <1>1, <1>2, <1>8 DEF Text!Next, Text!Finish

(* The text with what is still to be appended behind it: no step of an      *)
(* append changes it.                                                       *)
Promised == TextOf(buf) \o call.bytes

LEMMA AppendKeepsPromised == BufferInv /\ AppendStep => Promised' = Promised
<1> SUFFICES ASSUME BufferInv, AppendStep PROVE Promised' = Promised
  OBVIOUS
<1>1. CASE Double \/ Reallocate
  BY <1>1, RefinesDouble, RefinesReallocate DEF Promised, Text!textVars
<1>2. CASE Copy
  <2>1. call.bytes # <<>> /\ call'.bytes = <<>>
    BY <1>2 DEF Copy, NoCall, BufferInv, StringBufferTypeOK
  <2>2. TextOf(buf)' = TextOf(buf) \o call.bytes
    BY <1>2, <2>1, RefinesCopy DEF Text!Next, Text!Begin, Text!Finish
  <2>3. TextOf(buf)' \in Seq(Bytes)
    BY <1>2, BufferInvCopy, TextIsSeq DEF BufferInv, StringBufferTypeOK
  <2>4. TextOf(buf)' \o <<>> = TextOf(buf)'
    BY <2>3, ConcatEmptySeq
  <2> QED
    BY <2>1, <2>2, <2>4 DEF Promised
<1> QED
  BY <1>1, <1>2 DEF AppendStep

(* Every step of a buffer is one of the text, or leaves it alone.           *)
LEMMA RefinesNext == BufferInv /\ [StringBufferNext]_bufferVars => [Text!Next]_(Text!textVars)
<1> SUFFICES ASSUME BufferInv, [StringBufferNext]_bufferVars
             PROVE  [Text!Next]_(Text!textVars)
  OBVIOUS
<1>1. CASE \E bytes \in Seq(Bytes) : string_buffer_append_buf(bytes)
  BY <1>1, RefinesAppend
<1>2. CASE Double
  BY <1>2, RefinesDouble
<1>3. CASE Reallocate
  BY <1>3, RefinesReallocate
<1>4. CASE Copy
  BY <1>4, RefinesCopy
<1>5. CASE UNCHANGED bufferVars
  BY <1>5 DEF bufferVars, Text!textVars
<1> QED
  BY <1>1, <1>2, <1>3, <1>4, <1>5 DEF StringBufferNext, AppendStep

(* Doubling, moving, clearing and copying memory implements a text that     *)
(* only grows, by each appended piece whole and once, for every initial     *)
(* capacity and every length of a piece.                                    *)
THEOREM BufferRefinement == StringBufferSpec => RefinesText
  BY RefinesInit, RefinesNext, BufferInvariance, PTL DEF StringBufferSpec, RefinesText, Text!Spec
=============================================================================
