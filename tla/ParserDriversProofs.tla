------------------------ MODULE ParserDriversProofs ------------------------
(***************************************************************************)
(* What holds of the two callers of the parser for every set of messages,  *)
(* every way the network cuts them, and every size of the arrays.  The     *)
(* facts about the memory of the receive task are those of StringBuffer.   *)
(***************************************************************************)
EXTENDS ParserDrivers, SequenceTheorems, TLAPS

Buffer == INSTANCE StringBufferProofs WITH buf <- sb, call <- sb_call

bufferOfTask == <<sb, sb_call>>

(* ParserDrivers' name for the buffer and this module's mean the same. *)
LEMMA SameInit == Received!StringBufferInit => Buffer!StringBufferInit
  BY DEF Received!StringBufferInit, Buffer!StringBufferInit, Received!string_buffer_init,
         Buffer!string_buffer_init, Received!NoCall, Buffer!NoCall

LEMMA SameAppend ==
  ASSUME NEW bytes, Received!string_buffer_append_buf(bytes)
  PROVE  Buffer!string_buffer_append_buf(bytes)
  BY DEF Received!string_buffer_append_buf, Buffer!string_buffer_append_buf

LEMMA SameStep == Received!AppendStep => Buffer!AppendStep
  BY DEF Received!AppendStep, Received!Double, Received!Reallocate, Received!Copy,
         Buffer!AppendStep, Buffer!Double, Buffer!Reallocate, Buffer!Copy,
         Received!RequiredCapacity, Buffer!RequiredCapacity, Received!Doubled, Buffer!Doubled,
         Received!Grown, Buffer!Grown, Received!Copied, Buffer!Copied,
         Received!NoCall, Buffer!NoCall

LEMMA SameText == \A b : Received!TextOf(b) = Buffer!TextOf(b)
  BY DEF Received!TextOf, Buffer!TextOf

(* The lemmas of StringBufferProofs for this buffer. *)
LEMMA TaskBufferInit == Received!StringBufferInit => Buffer!BufferInv
  BY SameInit, Buffer!BufferInvInit, StringBufferAssumption
     DEF StringBufferAssumption, Buffer!StringBufferAssumption

LEMMA TaskBufferNext ==
  Buffer!BufferInv /\ [Buffer!StringBufferNext]_(Buffer!bufferVars) => Buffer!BufferInv'
  BY Buffer!BufferInvNext, StringBufferAssumption
     DEF StringBufferAssumption, Buffer!StringBufferAssumption

LEMMA TaskBufferPromised ==
  Buffer!BufferInv /\ Buffer!AppendStep => Buffer!Promised' = Buffer!Promised
  BY Buffer!AppendKeepsPromised, StringBufferAssumption
     DEF StringBufferAssumption, Buffer!StringBufferAssumption

LEMMA TaskBufferText == Buffer!BufferInv => Buffer!TextOf(sb) \in Seq(Bytes)
<1> SUFFICES ASSUME Buffer!BufferInv PROVE Buffer!TextOf(sb) \in Seq(Bytes)
  OBVIOUS
<1>1. /\ sb.capacity \in Nat /\ sb.length \in 0 .. sb.capacity
      /\ sb.data \in [0 .. sb.capacity - 1 -> Bytes]
  BY DEF Buffer!BufferInv, Buffer!StringBufferTypeOK
<1>2. Buffer!StringBufferAssumption
  BY StringBufferAssumption DEF StringBufferAssumption, Buffer!StringBufferAssumption
<1> QED
  BY <1>1, <1>2, Buffer!TextIsSeq

-----------------------------------------------------------------------------
(* ReadInOrder is about what is read and what is to be appended at once.    *)
ReceiveInv ==
  /\ message \in Messages
  /\ read \in 0 .. Len(message.bytes)
  /\ task = "file" => message.from = "file"
  /\ Buffer!BufferInv
  /\ ReadInOrder

LEMMA MessageBytes ==
  ASSUME message \in Messages
  PROVE  message.bytes \in Seq(Bytes) /\ Len(message.bytes) \in Nat
<1>1. message.bytes \in Seq(Symbols)
  BY ParserDriversAssumption DEF Message
<1>2. message.bytes \in Seq(Bytes)
  BY <1>1, HttpParserAssumption, SeqMonotonic
<1> QED
  BY <1>2, LenProperties

LEMMA ReceiveInvInit == Init => ReceiveInv
<1> SUFFICES ASSUME Init PROVE ReceiveInv
  OBVIOUS
<1>1. message \in Messages /\ read = 0 /\ Buffer!BufferInv
  BY TaskBufferInit DEF Init
<1>2. task = "file" => message.from = "file"
  BY <1>1, ParserDriversAssumption DEF Init, Message
<1>3. ReadInOrder
  <2>1. sb_call.bytes = <<>> /\ Received!TextOf(sb) = <<>>
    <3>1. sb.length = 0 /\ sb_call.bytes = <<>>
      BY DEF Init, Received!StringBufferInit, Received!string_buffer_init, Received!NoCall
    <3> QED
      BY <3>1 DEF Received!TextOf
  <2>2. <<>> \o <<>> = <<>>
    BY ConcatEmptySeq, EmptySeq
  <2>3. SubSeq(message.bytes, 1, 0) = <<>>
    BY SubSeqEmpty
  <2> QED
    BY <1>1, <2>1, <2>2, <2>3 DEF ReadInOrder
<1> QED
  BY <1>1, <1>2, <1>3, MessageBytes DEF ReceiveInv

(* A read takes bytes that are there, and as many as it says. *)
LEMMA ReadBound ==
  ASSUME ReceiveInv, NEW n \in 1 .. Min({INITIAL_CAPACITY, Len(message.bytes) - read})
  PROVE  n \in Nat \ {0} /\ read + n <= Len(message.bytes)
<1> DEFINE rest == Len(message.bytes) - read
<1>1. INITIAL_CAPACITY \in Int /\ rest \in Int
  BY MessageBytes, StringBufferAssumption DEF ReceiveInv
<1>2. \E x \in {INITIAL_CAPACITY, rest} : \A y \in {INITIAL_CAPACITY, rest} : x <= y
  BY <1>1
<1>3. Min({INITIAL_CAPACITY, rest}) <= rest /\ Min({INITIAL_CAPACITY, rest}) \in Int
  BY <1>1, <1>2 DEF Min
<1> QED
  BY <1>1, <1>3, MessageBytes DEF ReceiveInv

LEMMA ReceiveInvReceive ==
  ASSUME ReceiveInv, NEW n \in 1 .. Min({INITIAL_CAPACITY, Len(message.bytes) - read}),
         Receive(n)
  PROVE  ReceiveInv'
<1> DEFINE m == message.bytes
           bytes == SubSeq(m, read + 1, read + n)
<1>1. n \in Nat \ {0} /\ read \in Nat /\ read + n <= Len(m) /\ m \in Seq(Bytes)
  <2>1. message \in Messages /\ read \in 0 .. Len(m)
    BY DEF ReceiveInv
  <2>2. m \in Seq(Bytes) /\ Len(m) \in Nat
    BY <2>1, MessageBytes
  <2>3. n \in Nat \ {0} /\ read + n <= Len(m)
    BY ReadBound
  <2> QED
    BY <2>1, <2>2, <2>3
<1>2. bytes \in Seq(Bytes)
  <2>1. \A k \in read + 1 .. read + n : m[k] \in Bytes
    BY <1>1, LenProperties
  <2> QED
    BY <1>1, <2>1, SubSeqProperties
<1>3. Buffer!string_buffer_append_buf(bytes)
  BY SameAppend DEF Receive
<1>4. Buffer!BufferInv'
  BY <1>2, <1>3, TaskBufferNext DEF ReceiveInv, Buffer!StringBufferNext
<1>5. message' = message /\ read' = read + n /\ task' = "appending"
  BY DEF Receive
<1>6. ReadInOrder'
  <2> SUFFICES ASSUME message.from = "socket"
               PROVE  Received!TextOf(sb)' \o sb_call'.bytes = SubSeq(m, 1, read + n)
    BY <1>5 DEF ReadInOrder
  <2>1. sb' = sb /\ sb_call.at = "none" /\ sb_call'.bytes = bytes
    BY <1>3 DEF Buffer!string_buffer_append_buf
  <2>2. sb_call.bytes = <<>>
    BY <2>1 DEF ReceiveInv, Buffer!BufferInv, Buffer!StringBufferTypeOK
  <2>3. SubSeq(m, 1, read) \in Seq(Bytes)
    <3>1. \A k \in 1 .. read : m[k] \in Bytes
      BY <1>1, LenProperties
    <3> QED
      BY <1>1, <3>1, SubSeqProperties
  <2>4. Received!TextOf(sb) = SubSeq(m, 1, read)
    <3>1. Received!TextOf(sb) \o <<>> = SubSeq(m, 1, read)
      BY <2>2 DEF ReceiveInv, ReadInOrder
    <3>2. Received!TextOf(sb) \in Seq(Bytes)
      BY TaskBufferText, SameText DEF ReceiveInv
    <3> QED
      BY <3>1, <3>2, ConcatEmptySeq
  <2>5. SubSeq(m, 1, read) \o bytes = SubSeq(m, 1, read + n)
    BY <1>1, ConcatAdjacentSubSeq
  <2> QED
    BY <2>1, <2>4, <2>5
<1> QED
  BY <1>1, <1>4, <1>5, <1>6 DEF ReceiveInv

LEMMA ReceiveInvAppend ==
  ASSUME ReceiveInv, AppendReceived
  PROVE  ReceiveInv'
<1>1. Buffer!AppendStep /\ UNCHANGED <<message, read, task>>
  BY SameStep DEF AppendReceived
<1>2. Buffer!BufferInv'
  BY <1>1, TaskBufferNext DEF ReceiveInv, Buffer!StringBufferNext
<1>3. (Received!TextOf(sb) \o sb_call.bytes)' = Received!TextOf(sb) \o sb_call.bytes
  BY <1>1, SameText, TaskBufferPromised DEF ReceiveInv, Buffer!Promised
<1>4. ReadInOrder'
  BY <1>1, <1>3 DEF ReceiveInv, ReadInOrder
<1> QED
  BY <1>1, <1>2, <1>4 DEF ReceiveInv

(* The other steps leave the receive task's buffer and the message alone;   *)
(* what was read changes only for a file.                                   *)
OtherStep ==
  /\ UNCHANGED <<message, sb, sb_call>>
  /\ read' = read \/ (message.from = "file" /\ read' = Len(message.bytes))
  /\ task' = "file" => task = "file"

LEMMA ReceiveInvOther == ReceiveInv /\ OtherStep => ReceiveInv'
<1> SUFFICES ASSUME ReceiveInv, OtherStep PROVE ReceiveInv'
  OBVIOUS
<1>1. Buffer!BufferInv'
  <2>1. UNCHANGED Buffer!bufferVars
    BY DEF OtherStep, Buffer!bufferVars
  <2> QED
    BY <2>1, TaskBufferNext DEF ReceiveInv
<1>2. ReadInOrder'
  <2> SUFFICES ASSUME message.from = "socket"
               PROVE  Received!TextOf(sb') \o sb_call'.bytes = SubSeq(message.bytes, 1, read')
    BY DEF OtherStep, ReadInOrder, Received!TextOf
  <2>1. sb' = sb /\ sb_call' = sb_call /\ read' = read
    BY DEF OtherStep
  <2> QED
    BY <2>1 DEF ReceiveInv, ReadInOrder
<1>3. read' \in 0 .. Len(message.bytes) /\ message' = message
  BY MessageBytes DEF ReceiveInv, OtherStep
<1>4. (task = "file" => message.from = "file")'
  BY <1>3 DEF ReceiveInv, OtherStep
<1> QED
  BY <1>1, <1>2, <1>3, <1>4 DEF ReceiveInv

LEMMA ReceiveInvNext == ReceiveInv /\ [Next]_vars => ReceiveInv'
<1> SUFFICES ASSUME ReceiveInv, [Next]_vars PROVE ReceiveInv'
  OBVIOUS
<1>1. CASE \E n \in 1 .. Min({INITIAL_CAPACITY, Len(message.bytes) - read}) : Receive(n)
  BY <1>1, ReceiveInvReceive
<1>2. CASE AppendReceived
  BY <1>2, ReceiveInvAppend
<1>3. CASE ParseReceived
  <2>1. OtherStep
    BY <1>3 DEF ParseReceived, OtherStep
  <2> QED
    BY <2>1, ReceiveInvOther
<1>4. CASE http_fuzz
  <2>1. OtherStep
    BY <1>4 DEF http_fuzz, OtherStep, ReceiveInv
  <2> QED
    BY <2>1, ReceiveInvOther
<1>5. CASE Parse
  <2>1. OtherStep
    BY <1>5 DEF Parse, driverVars, OtherStep
  <2> QED
    BY <2>1, ReceiveInvOther
<1>6. CASE AfterParse
  <2>1. OtherStep
    BY <1>6 DEF AfterParse, OtherStep
  <2> QED
    BY <2>1, ReceiveInvOther
<1>7. CASE UNCHANGED vars
  <2>1. OtherStep
    BY <1>7 DEF vars, driverVars, OtherStep
  <2> QED
    BY <2>1, ReceiveInvOther
<1> QED
  BY <1>1, <1>2, <1>3, <1>4, <1>5, <1>6, <1>7 DEF Next

(* Every reachable state of the two callers satisfies the invariant. *)
THEOREM ReceiveInvariance == Spec => []ReceiveInv
  BY ReceiveInvInit, ReceiveInvNext, PTL DEF Spec

(* What a socket gave is in the buffer in order and without a gap, for      *)
(* every message and however it was cut (http_client.c 100-103).            *)
THEOREM ReceivedInOrder == Spec => []ReadInOrder
<1>1. ReceiveInv => ReadInOrder
  BY DEF ReceiveInv
<1> QED
  BY <1>1, ReceiveInvariance, PTL

(* Behind what was received is a NUL in every byte of the allocation, as    *)
(* the parser's loop over the headers needs (http.c 318-319).               *)
THEOREM ReceivedZeroed == Spec => []ZeroBehindReceived
<1>1. ReceiveInv => ZeroBehindReceived
  BY DEF ReceiveInv, Buffer!BufferInv, Buffer!ZeroBehindData, ZeroBehindReceived,
         Received!ZeroBehindData
<1> QED
  BY <1>1, ReceiveInvariance, PTL
=============================================================================
