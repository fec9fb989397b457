-------------------------- MODULE HttpParserProofs --------------------------
(***************************************************************************)
(* The parser and its callers for every set of messages, every way the     *)
(* network cuts them, every size of the arrays and every width of a        *)
(* uint64_t: offsets stay in bounds, no header is stored behind the array, *)
(* and the body is put together from what was received.                    *)
(*                                                                         *)
(* What a text of digits comes to is a fold.  That it is a natural number  *)
(* is proved by induction, in the form of a least counterexample.          *)
(***************************************************************************)
EXTENDS ParserDriversProofs, StringBufferProofs, WellFoundedInduction

(* Least and greatest numbers of a set. *)
LEMMA LeastNatural ==
  ASSUME NEW T \in SUBSET Nat, T # {}
  PROVE  \E x \in T : \A y \in T : x <= y
<1>1. \A x, y : <<x, y>> \in OpToRel(<, Nat) <=> x \in Nat /\ y \in Nat /\ x < y
  BY DEF OpToRel
<1>2. PICK x \in T : \A y \in T : ~ (<<y, x>> \in OpToRel(<, Nat))
  BY NatLessThanWellFounded, WFMin
<1>3. ASSUME NEW y \in T PROVE x <= y
  <2>1. x \in Nat /\ y \in Nat
    OBVIOUS
  <2>2. ~ (y < x)
    BY <1>1, <1>2, <2>1
  <2> QED
    BY <2>1, <2>2
<1> QED
  BY <1>3

LEMMA MinOf ==
  ASSUME NEW T \in SUBSET Nat, T # {}
  PROVE  Min(T) \in T /\ \A y \in T : Min(T) <= y
<1>1. PICK x \in T : \A y \in T : x <= y
  BY LeastNatural
<1> QED
  BY <1>1 DEF Min

LEMMA MaxOf ==
  ASSUME NEW n \in Nat, NEW T \in SUBSET (0 .. n), T # {}
  PROVE  Max(T) \in T /\ \A y \in T : Max(T) >= y
<1> DEFINE R == {x \in 0 .. n : n - x \in T}
<1>1. \A y \in T : n - y \in R
  <2> SUFFICES ASSUME NEW y \in T PROVE n - y \in R
    OBVIOUS
  <2>1. y \in 0 .. n
    OBVIOUS
  <2>2. n - y \in 0 .. n /\ n - (n - y) = y
    BY <2>1
  <2> QED
    BY <2>2
<1>5. R \in SUBSET Nat /\ R # {}
  <2>1. R \in SUBSET Nat
    OBVIOUS
  <2>2. PICK y : y \in T
    OBVIOUS
  <2>3. n - y \in R
    BY <1>1, <2>2
  <2> HIDE DEF R
  <2> QED
    BY <2>1, <2>3
<1> HIDE DEF R
<1>2. PICK r \in R : \A q \in R : r <= q
  BY <1>5, LeastNatural
<1> USE DEF R
<1>3. n - r \in T /\ r \in 0 .. n
  OBVIOUS
<1>4. ASSUME NEW y \in T PROVE n - r >= y
  <2>1. y \in 0 .. n /\ r <= n - y
    BY <1>1, <1>2
  <2> QED
    BY <1>3, <2>1
<1> QED
  BY <1>3, <1>4 DEF Max

(* How much of a text a set has, and the digits a text starts with.         *)
LEMMA LeadingIs ==
  ASSUME NEW R, NEW text \in Seq(R), NEW S
  PROVE  /\ Leading(text, S) \in 0 .. Len(text)
         /\ \A j \in 1 .. Leading(text, S) : text[j] \in S
         /\ text # <<>> /\ text[1] \in S => Leading(text, S) >= 1
<1> DEFINE T == {n \in 0 .. Len(text) : \A j \in 1 .. n : text[j] \in S}
<1>1. Len(text) \in Nat /\ 0 \in T /\ T \in SUBSET (0 .. Len(text))
  BY LenProperties
<1>2. Max(T) \in T /\ \A n \in T : Max(T) >= n
  BY <1>1, MaxOf
<1>3. text # <<>> /\ text[1] \in S => 1 \in T
  BY <1>1, EmptySeq
<1>4. /\ Max(T) \in 0 .. Len(text)
      /\ \A j \in 1 .. Max(T) : text[j] \in S
      /\ text # <<>> /\ text[1] \in S => Max(T) >= 1
  BY <1>1, <1>2, <1>3
<1> QED
  BY <1>4 DEF Leading

LEMMA SkippedType ==
  ASSUME NEW S, NEW text \in Seq(S)
  PROVE  Skipped(text) \in Seq(S)
<1>1. Len(text) \in Nat /\ Leading(text, {CR, LF}) \in 0 .. Len(text)
      /\ \A j \in 1 .. Len(text) : text[j] \in S
  BY LeadingIs, LenProperties
<1>2. PICK m : m = Leading(text, {CR, LF}) + 1
  OBVIOUS
<1>3. PICK n : n = Len(text)
  OBVIOUS
<1>4. m \in Nat \ {0} /\ n \in Nat /\ \A j \in 1 .. n : text[j] \in S
  BY <1>1, <1>2, <1>3
<1>5. \A j \in m .. n : text[j] \in S
  BY <1>4
<1>6. SubSeq(text, m, n) \in Seq(S)
  BY <1>4, <1>5, SubSeqProperties
<1> QED
  BY <1>2, <1>3, <1>6 DEF Skipped

LEMMA DigitsType ==
  ASSUME NEW S, NEW text \in Seq(S)
  PROVE  Digits(text) \in Seq(DOMAIN DigitValue)
<1>1. PICK t \in Seq(S) : t = Skipped(text)
  BY SkippedType
<1>2. PICK n \in Nat : n = Leading(t, DOMAIN DigitValue)
  BY <1>1, LeadingIs, LenProperties
<1>3. \A j \in 1 .. n : t[j] \in DOMAIN DigitValue
  BY <1>1, <1>2, LeadingIs
<1>4. SubSeq(t, 1, n) \in Seq(DOMAIN DigitValue)
  BY <1>2, <1>3, SubSeqProperties
<1> QED
  BY <1>1, <1>2, <1>4 DEF Digits

LEMMA MaxOfInterval ==
  ASSUME NEW k \in Nat, NEW s \in SUBSET (1 .. k), k \in s
  PROVE  Max(s) = k
<1>1. s \in SUBSET (0 .. k) /\ s # {}
  OBVIOUS
<1>2. Max(s) \in s /\ Max(s) >= k
  BY <1>1, MaxOf
<1>3. Max(s) \in 1 .. k
  BY <1>2
<1> QED
  BY <1>2, <1>3

LEMMA DigitValueType == \A d \in DOMAIN DigitValue : DigitValue[d] \in Nat
  BY DEF DigitValue

(* The fold that Number is: Sums(d, base, D)[s] is the number that the     *)
(* digits of d at the indices in s write.                                  *)
SumAt(g, d, base, s) ==
  IF s = {} THEN 0 ELSE g[s \ {Max(s)}] * base + DigitValue[d[Max(s)]]
Sums(d, base, D) == CHOOSE g : g = [s \in SUBSET D |-> SumAt(g, d, base, s)]

LEMMA NumberIs ==
  ASSUME NEW text, NEW base
  PROVE  LET d == Digits(text) IN Number(text, base) = Sums(d, base, DOMAIN d)[DOMAIN d]
  BY DEF Number, FoldLeft, MapThenFoldSet, Sums, SumAt

AreSums(g, d, base, k) ==
  /\ g \in [SUBSET (1 .. k) -> Nat]
  /\ \A s \in SUBSET (1 .. k) : g[s] = SumAt(g, d, base, s)

LEMMA SumType ==
  ASSUME NEW x \in Nat, NEW base \in Nat, NEW v \in Nat
  PROVE  x * base + v \in Nat
<1>1. x * base \in Nat
  OBVIOUS
<1> QED
  BY <1>1

LEMMA SumsExtend ==
  ASSUME NEW base \in Nat, NEW n \in Nat, NEW d \in [1 .. n -> DOMAIN DigitValue],
         NEW k \in Nat, k < n, NEW g, AreSums(g, d, base, k)
  PROVE  \E h : AreSums(h, d, base, k + 1)
<1> DEFINE v == DigitValue[d[k + 1]]
           h == [s \in SUBSET (1 .. k + 1) |->
                   IF k + 1 \in s THEN g[s \ {k + 1}] * base + v ELSE g[s]]
<1>1. v \in Nat
  <2>1. k + 1 \in 1 .. n
    OBVIOUS
  <2> QED
    BY <2>1, DigitValueType
<1>2. \A s \in SUBSET (1 .. k + 1) :
        /\ k + 1 \in s => s \ {k + 1} \in SUBSET (1 .. k)
        /\ k + 1 \notin s => s \in SUBSET (1 .. k)
  OBVIOUS
<1>3. \A s \in SUBSET (1 .. k) : g[s] \in Nat /\ g[s] = SumAt(g, d, base, s)
  BY DEF AreSums
<1>4. ASSUME NEW s \in SUBSET (1 .. k + 1), k + 1 \in s
      PROVE  /\ g[s \ {k + 1}] * base + v \in Nat
             /\ h[s \ {k + 1}] = g[s \ {k + 1}]
             /\ h[s] = g[s \ {k + 1}] * base + v
             /\ Max(s) = k + 1 /\ s # {}
  <2>1. s \ {k + 1} \in SUBSET (1 .. k) /\ g[s \ {k + 1}] \in Nat
    BY <1>2, <1>3, <1>4
  <2>2. Max(s) = k + 1
    BY <1>4, MaxOfInterval
  <2>3. g[s \ {k + 1}] * base + v \in Nat
    BY <1>1, <2>1, SumType
  <2>4. s \ {k + 1} \in SUBSET (1 .. k + 1)
    OBVIOUS
  <2> QED
    BY <1>4, <2>2, <2>3, <2>4
<1>5. ASSUME NEW s \in SUBSET (1 .. k + 1), k + 1 \notin s
      PROVE  h[s] = g[s] /\ g[s] \in Nat /\ h[s] = SumAt(h, d, base, s)
  <2>1. s \in SUBSET (1 .. k) /\ h[s] = g[s] /\ g[s] \in Nat /\ g[s] = SumAt(g, d, base, s)
    BY <1>2, <1>3, <1>5
  <2>2. s \ {Max(s)} \in SUBSET (1 .. k + 1) /\ k + 1 \notin s \ {Max(s)}
    BY <1>5
  <2>3. h[s \ {Max(s)}] = g[s \ {Max(s)}]
    BY <2>2
  <2> HIDE DEF h
  <2> QED
    BY <2>1, <2>3 DEF SumAt
<1>6. h \in [SUBSET (1 .. k + 1) -> Nat]
  <2> SUFFICES ASSUME NEW s \in SUBSET (1 .. k + 1)
               PROVE  (IF k + 1 \in s THEN g[s \ {k + 1}] * base + v ELSE g[s]) \in Nat
    OBVIOUS
  <2> QED
    BY <1>4, <1>5
<1>7. \A s \in SUBSET (1 .. k + 1) : h[s] = SumAt(h, d, base, s)
  <2> SUFFICES ASSUME NEW s \in SUBSET (1 .. k + 1) PROVE h[s] = SumAt(h, d, base, s)
    OBVIOUS
  <2> HIDE DEF h
  <2>1. CASE k + 1 \in s
    BY <1>4, <2>1 DEF SumAt
  <2> QED
    BY <1>5, <2>1
<1> QED
  BY <1>6, <1>7 DEF AreSums

LEMMA SumsExist ==
  ASSUME NEW base \in Nat, NEW n \in Nat, NEW d \in [1 .. n -> DOMAIN DigitValue]
  PROVE  \E g : AreSums(g, d, base, n)
<1> DEFINE Bad == {k \in 0 .. n : ~ \E g : AreSums(g, d, base, k)}
<1>1. 0 \notin Bad
  <2> DEFINE g == [s \in SUBSET (1 .. 0) |-> 0]
  <2>1. SUBSET (1 .. 0) = {{}}
    OBVIOUS
  <2>2. AreSums(g, d, base, 0)
    BY <2>1 DEF AreSums, SumAt
  <2> QED
    BY <2>2
<1>2. ASSUME Bad # {} PROVE FALSE
  <2>1. Bad \in SUBSET Nat
    OBVIOUS
  <2> HIDE DEF Bad
  <2>2. PICK k \in Bad : \A j \in Bad : k <= j
    BY <1>2, <2>1, LeastNatural
  <2> USE DEF Bad
  <2>3. k \in 0 .. n /\ k # 0
    BY <1>1
  <2>4. k - 1 \in 0 .. n /\ k - 1 \notin Bad /\ k - 1 < n
    BY <2>2, <2>3
  <2>5. PICK g : AreSums(g, d, base, k - 1)
    BY <2>4
  <2>6. \E h : AreSums(h, d, base, (k - 1) + 1)
    BY <2>4, <2>5, SumsExtend
  <2>7. (k - 1) + 1 = k
    BY <2>3
  <2> QED
    BY <2>6, <2>7
<1>3. n \in 0 .. n
  OBVIOUS
<1> QED
  BY <1>2, <1>3

(* What is chosen satisfies its equation, because something does.          *)
LEMMA SumsEquation ==
  ASSUME NEW base \in Nat, NEW n \in Nat, NEW d \in [1 .. n -> DOMAIN DigitValue]
  PROVE  LET g == Sums(d, base, 1 .. n)
         IN  \A s \in SUBSET (1 .. n) : g[s] = SumAt(g, d, base, s)
<1>1. PICK h : AreSums(h, d, base, n)
  BY SumsExist
<1>2. h = [s \in SUBSET (1 .. n) |-> SumAt(h, d, base, s)]
  BY <1>1 DEF AreSums
<1> DEFINE g == Sums(d, base, 1 .. n)
<1>3. g = [s \in SUBSET (1 .. n) |-> SumAt(g, d, base, s)]
  BY <1>2 DEF Sums
<1> HIDE DEF g
<1>4. \A s \in SUBSET (1 .. n) : g[s] = SumAt(g, d, base, s)
  BY <1>3
<1> QED
  BY <1>4 DEF g

LEMMA SumsType ==
  ASSUME NEW base \in Nat, NEW n \in Nat, NEW d \in [1 .. n -> DOMAIN DigitValue]
  PROVE  Sums(d, base, 1 .. n)[1 .. n] \in Nat
<1> DEFINE g == Sums(d, base, 1 .. n)
           Bad == {k \in 0 .. n : g[1 .. k] \notin Nat}
<1>1. ASSUME NEW k \in 0 .. n
      PROVE  g[1 .. k] = SumAt(g, d, base, 1 .. k)
  <2>1. 1 .. k \in SUBSET (1 .. n)
    OBVIOUS
  <2> QED
    BY <2>1, SumsEquation
<1>2. 0 \notin Bad
  <2>1. 1 .. 0 = {} /\ 0 \in 0 .. n
    OBVIOUS
  <2>2. g[1 .. 0] = 0
    BY <1>1, <2>1 DEF SumAt
  <2> QED
    BY <2>2
<1> HIDE DEF g
<1>3. ASSUME Bad # {} PROVE FALSE
  <2>1. Bad \in SUBSET Nat
    OBVIOUS
  <2> HIDE DEF Bad
  <2>2. PICK k \in Bad : \A j \in Bad : k <= j
    BY <1>3, <2>1, LeastNatural
  <2> USE DEF Bad
  <2>3. k \in 1 .. n /\ k - 1 \in 0 .. n
    BY <1>2
  <2>4. g[1 .. k - 1] \in Nat
    BY <2>2, <2>3
  <2>5. Max(1 .. k) = k /\ 1 .. k # {} /\ (1 .. k) \ {k} = 1 .. k - 1
    <3>1. k \in Nat /\ k \in 1 .. k /\ 1 .. k \in SUBSET (1 .. k)
      BY <2>3
    <3>2. (1 .. k) \ {k} = 1 .. k - 1
      BY <3>1
    <3> QED
      BY <3>1, <3>2, MaxOfInterval
  <2>6. g[1 .. k] = g[1 .. k - 1] * base + DigitValue[d[k]]
    BY <1>1, <2>3, <2>5 DEF SumAt
  <2>7. DigitValue[d[k]] \in Nat
    BY <2>3, DigitValueType
  <2>8. g[1 .. k] \in Nat
    BY <2>4, <2>6, <2>7, SumType
  <2> QED
    BY <2>8
<1>4. n \in 0 .. n
  OBVIOUS
<1>5. g[1 .. n] \in Nat
  BY <1>3, <1>4
<1> QED
  BY <1>5 DEF g

(* A number is a number, whatever its digits are. *)
LEMMA NumberType ==
  ASSUME NEW S, NEW text \in Seq(S), NEW base \in Nat
  PROVE  Number(text, base) \in Nat
<1> DEFINE d == Digits(text)
<1>1. d \in Seq(DOMAIN DigitValue)
  BY DigitsType
<1>2. Len(d) \in Nat /\ DOMAIN d = 1 .. Len(d) /\ d \in [1 .. Len(d) -> DOMAIN DigitValue]
  BY <1>1, LenProperties
<1>3. Sums(d, base, 1 .. Len(d))[1 .. Len(d)] \in Nat
  BY <1>2, SumsType
<1> QED
  BY <1>2, <1>3, NumberIs

Header == [key : Keys, value : Seq(Bytes)]

HTTP_Parser ==
  [state : States, offset : Nat, type : {"Request", "Response"}, method : Methods,
   headers : Seq(Header), encoding : {"unset", "Identity", "Chunked", "Gzip"},
   body_offset : Nat]

(* What the parser was given: memory, and how much of it is data.           *)
InputFits ==
  /\ input.capacity \in Nat /\ input.length \in 0 .. input.capacity
  /\ input.data \in [0 .. input.capacity - 1 -> Bytes]

(* The parser's side of the invariant: a parser that is done has answered,  *)
(* and is not called again.                                                 *)
ParserInv ==
  /\ parser \in HTTP_Parser
  /\ InputFits
  /\ line \in Nat
  /\ at \in {"idle", "status", "headers", "body", "append"}
  /\ answer \in Answers
  /\ parser.state = "Parsing_Done" => at = "idle" /\ answer = "Done"
  /\ HeadersFit
  /\ BufferInv

(* Pieces of the memory. *)
LEMMA ByteType ==
  ASSUME InputFits, NEW k \in Nat, k < input.capacity
  PROVE  Byte(k) \in Bytes
  BY DEF InputFits, Byte

LEMMA PieceType ==
  ASSUME InputFits, NEW from \in Nat, NEW n \in Nat, from + n <= input.capacity
  PROVE  Piece(from, n) \in Seq(Bytes) /\ Len(Piece(from, n)) = n
<1>1. ASSUME NEW j \in 1 .. n PROVE Byte(from + j - 1) \in Bytes
  <2>1. from + j - 1 \in Nat /\ from + j - 1 < input.capacity
    BY DEF InputFits
  <2> QED
    BY <2>1, ByteType
<1>2. Piece(from, n) \in [1 .. n -> Bytes]
  BY <1>1 DEF Piece
<1>3. Piece(from, n) \in Seq(Bytes)
  BY <1>2, SeqDef
<1> QED
  BY <1>2, <1>3, LenProperties

(* A piece that may lie outside is a sequence too. *)
LEMMA PieceIsSeq ==
  ASSUME NEW from, NEW n \in Nat
  PROVE  \E S : Piece(from, n) \in Seq(S)
<1> DEFINE S == {Byte(from + j - 1) : j \in 1 .. n}
<1>1. Piece(from, n) \in [1 .. n -> S]
  BY DEF Piece
<1> HIDE DEF S
<1>2. Piece(from, n) \in Seq(S)
  BY <1>1, SeqDef
<1> QED
  BY <1>2

LEMMA RestType ==
  ASSUME InputFits, NEW from \in Int
  PROVE  Rest(from) \in Nat
<1>1. input.length - from \in Int /\ SIZE_VALUES \in Nat \ {0}
  BY HttpParserAssumption DEF InputFits
<1> QED
  BY <1>1 DEF Rest

LEMMA StatusEndType ==
  ASSUME InputFits, parser \in HTTP_Parser
  PROVE  StatusEnd \in Nat
<1>1. parser.offset \in Nat /\ input.length \in Nat
  BY DEF InputFits, HTTP_Parser
<1>2. StatusEnds \in SUBSET Nat
  BY <1>1 DEF StatusEnds
<1>3. StatusEnds # {} => Min(StatusEnds) \in Nat
  BY <1>2, MinOf
<1> QED
  BY <1>1, <1>3 DEF StatusEnd

LEMMA LineEndType ==
  ASSUME InputFits, line \in Nat, LineEnds # {}
  PROVE  LineEnd \in Nat /\ line <= LineEnd /\ LineEnd < input.capacity
<1>1. LineEnds \in SUBSET Nat /\ \A k \in LineEnds : line <= k /\ k < input.capacity
  BY DEF LineEnds, InputFits
<1> QED
  BY <1>1, MinOf DEF LineEnd

LEMMA LineTextType ==
  ASSUME InputFits, line \in Nat, LineEnds # {}
  PROVE  LineText \in Seq(Bytes)
<1> DEFINE raw == Piece(line, LineEnd - line)
<1>1. raw \in Seq(Bytes)
  <2>1. LineEnd - line \in Nat /\ line + (LineEnd - line) <= input.capacity
    BY LineEndType DEF InputFits
  <2> QED
    BY <2>1, PieceType
<1>2. Front(raw) \in Seq(Bytes)
  <2>1. Len(raw) \in Nat /\ \A k \in 1 .. Len(raw) - 1 : raw[k] \in Bytes
    BY <1>1, LenProperties
  <2> HIDE DEF raw
  <2>2. SubSeq(raw, 1, Len(raw) - 1) \in Seq(Bytes)
    BY <2>1, SubSeqProperties
  <2> QED
    BY <2>2 DEF Front
<1> QED
  BY <1>1, <1>2 DEF LineText

LEMMA HeaderValueType ==
  ASSUME parser \in HTTP_Parser, NEW key, Having(key) # {}
  PROVE  HeaderValue(key) \in Seq(Bytes)
<1>1. parser.headers \in Seq(Header)
  BY DEF HTTP_Parser
<1>2. Having(key) \in SUBSET Nat /\ \A k \in Having(key) : parser.headers[k] \in Header
  BY <1>1, LenProperties DEF Having
<1>3. Min(Having(key)) \in Having(key)
  BY <1>2, MinOf
<1> QED
  BY <1>2, <1>3 DEF HeaderValue, Header

LEMMA ContentLengthType ==
  ASSUME parser \in HTTP_Parser, Having("Content-Length") # {}
  PROVE  ContentLength \in Nat
  BY HeaderValueType, NumberType DEF ContentLength

LEMMA ChunkType ==
  ASSUME InputFits, parser \in HTTP_Parser
  PROVE  Chunk \in Nat /\ SizeEnd \in Nat /\ ChunkLength \in Nat
<1>1. Chunk \in Nat
  BY DEF HTTP_Parser, Chunk
<1> DEFINE last == Min({Rest(Chunk), SIZE_TEXT_LIMIT})
           ends == {k \in 0 .. last : k = last \/ Byte(Chunk + k) = CR}
<1>2. last \in Nat
  <2>1. Rest(Chunk) \in Nat /\ SIZE_TEXT_LIMIT \in Nat
    BY <1>1, RestType, HttpParserAssumption
  <2>2. {Rest(Chunk), SIZE_TEXT_LIMIT} \in SUBSET Nat /\ {Rest(Chunk), SIZE_TEXT_LIMIT} # {}
    BY <2>1
  <2>3. last \in {Rest(Chunk), SIZE_TEXT_LIMIT}
    BY <2>2, MinOf
  <2> QED
    BY <2>2, <2>3
<1> HIDE DEF last
<1>3. ends \in SUBSET Nat /\ last \in ends
  BY <1>2
<1>4. Min(ends) \in Nat
  BY <1>3, MinOf
<1>5. SizeEnd \in Nat
  BY <1>4 DEF SizeEnd, last
<1>6. PICK S : SizeText \in Seq(S)
  BY <1>5, PieceIsSeq DEF SizeText
<1>7. ChunkLength \in Nat
  BY <1>6, NumberType DEF ChunkLength
<1> QED
  BY <1>1, <1>5, <1>7

-----------------------------------------------------------------------------
(* Every step of the parser leaves the body alone, or is a step of its       *)
(* buffer.                                                                  *)
BodyStep == [StringBufferNext]_bufferVars

(* What a step of the parser leaves behind it, in the order of ParserInv.   *)
StepFits ==
  /\ parser' \in HTTP_Parser
  /\ line' \in Nat
  /\ at' \in {"idle", "status", "headers", "body", "append"}
  /\ answer' \in Answers
  /\ parser'.state = "Parsing_Done" => at' = "idle" /\ answer' = "Done"
  /\ Len(parser'.headers) <= HTTP_MAX_HEADERS
  /\ BodyStep

LEMMA FitsNext == ParserInv /\ UNCHANGED input /\ StepFits => ParserInv'
<1> SUFFICES ASSUME ParserInv, UNCHANGED input, StepFits PROVE ParserInv'
  OBVIOUS
<1>1. BufferInv'
  BY BufferInvNext DEF ParserInv, StepFits, BodyStep
<1> QED
  BY <1>1 DEF ParserInv, StepFits, InputFits, HeadersFit

LEMMA BodyKept == UNCHANGED bufferVars => BodyStep
  BY DEF BodyStep

(* The ways the parser is assigned. *)
LEMMA EncodingType ==
  ASSUME parser \in HTTP_Parser
  PROVE  Encoding \in {"unset", "Identity", "Chunked", "Gzip"}
<1>1. parser.encoding \in {"unset", "Identity", "Chunked", "Gzip"}
  BY DEF HTTP_Parser
<1> QED
  BY <1>1 DEF Encoding

LEMMA Encoded ==
  ASSUME parser \in HTTP_Parser
  PROVE  WithEncoding \in HTTP_Parser /\ WithEncoding.state = parser.state
         /\ WithEncoding.headers = parser.headers
  BY EncodingType DEF WithEncoding, HTTP_Parser

LEMMA Ended ==
  ASSUME parser \in HTTP_Parser, BodyDone
  PROVE  parser' \in HTTP_Parser /\ parser'.headers = parser.headers
<1>1. "Parsing_Done" \in States
  BY DEF States
<1> QED
  BY <1>1, EncodingType DEF BodyDone, HTTP_Parser

LEMMA StatusParsed == ParserInv /\ ParseStatus => StepFits
<1> SUFFICES ASSUME ParserInv, ParseStatus PROVE StepFits
  OBVIOUS
<1>1. StatusEnd \in Nat /\ parser \in HTTP_Parser /\ Len(parser.headers) <= HTTP_MAX_HEADERS
  BY StatusEndType DEF ParserInv, HeadersFit
<1>2. BodyStep /\ answer' = answer /\ answer \in Answers /\ at' = "headers" /\ line' = StatusEnd
  BY BodyKept DEF ParseStatus, Silent, ParserInv
<1> DEFINE t == IF IsRequest THEN "Request" ELSE "Response"
           m == IF IsRequest THEN Byte(parser.offset) ELSE parser.method
<1>3. t \in {"Request", "Response"} /\ m \in Methods
  BY <1>1 DEF IsRequest, HTTP_Parser
<1>4. parser' = [parser EXCEPT !.state = "Parsing_Headers", !.offset = StatusEnd, !.type = t,
                               !.method = m]
  BY DEF ParseStatus
<1>5. "Parsing_Headers" \in States
  BY DEF States
<1> HIDE DEF t, m
<1>6. /\ parser' \in HTTP_Parser /\ parser'.state = "Parsing_Headers"
      /\ parser'.headers = parser.headers
  BY <1>1, <1>3, <1>4, <1>5 DEF HTTP_Parser
<1> QED
  BY <1>1, <1>2, <1>6 DEF StepFits

(* A header is only stored when there is room for it. *)
LEMMA HeaderStored ==
  ASSUME ParserInv, ~ HeadersFull, NEW text \in Seq(Bytes), IsHeader(text)
  PROVE  LET p == WithHeader(parser, text)
         IN  /\ p \in HTTP_Parser
             /\ p.state = parser.state
             /\ Len(p.headers) <= HTTP_MAX_HEADERS
<1> DEFINE header == [key |-> text[1], value |-> Tail(text)]
<1>1. parser \in HTTP_Parser /\ parser.headers \in Seq(Header)
  BY DEF ParserInv, HTTP_Parser
<1>2. header \in Header
  <2>1. Len(text) >= 2 /\ text[1] \in Keys
    BY DEF IsHeader
  <2>2. text # <<>>
    BY <2>1, EmptySeq
  <2>3. Tail(text) \in Seq(Bytes)
    BY <2>2, HeadTailProperties
  <2> QED
    BY <2>1, <2>3 DEF Header
<1> HIDE DEF header
<1>3. /\ Append(parser.headers, header) \in Seq(Header)
      /\ Len(Append(parser.headers, header)) = Len(parser.headers) + 1
      /\ Len(parser.headers) \in Nat
  BY <1>1, <1>2, AppendProperties, LenProperties
<1>4. Len(parser.headers) < HTTP_MAX_HEADERS
  BY <1>3, HttpParserAssumption DEF HeadersFull
<1>5. WithHeader(parser, text) = [parser EXCEPT !.headers = Append(parser.headers, header)]
  BY DEF WithHeader, header
<1>6. /\ WithHeader(parser, text) \in HTTP_Parser
      /\ WithHeader(parser, text).state = parser.state
      /\ WithHeader(parser, text).headers = Append(parser.headers, header)
  BY <1>1, <1>3, <1>5 DEF HTTP_Parser
<1> QED
  BY <1>3, <1>4, <1>6, HttpParserAssumption

(* The end of the headers, with or without one more header. *)
LEMMA HeadersEnded ==
  ASSUME ParserInv, NEW p \in HTTP_Parser, Len(p.headers) <= HTTP_MAX_HEADERS,
         NEW consumed \in Int, p.offset + consumed >= 0,
         EndHeaders(p, consumed), UNCHANGED bufferVars, Silent
  PROVE  StepFits
<1>1. "Parsing_Body" \in States /\ p.offset + consumed \in Nat
  BY DEF States, HTTP_Parser
<1>2. parser' = [p EXCEPT !.state = "Parsing_Body", !.offset = p.offset + consumed]
  BY DEF EndHeaders
<1>3. parser' \in HTTP_Parser /\ parser'.state = "Parsing_Body" /\ parser'.headers = p.headers
  BY <1>1, <1>2 DEF HTTP_Parser
<1>4. BodyStep /\ at' = "body" /\ line' \in Nat /\ answer' \in Answers
  BY BodyKept DEF EndHeaders, Silent, ParserInv
<1> QED
  BY <1>3, <1>4 DEF StepFits

LEMMA HeadersStep ==
  ParserInv /\ (BlankLine \/ TooManyHeaders \/ InvalidHeader \/ ParseHeader) => StepFits
<1> SUFFICES ASSUME ParserInv, InHeaders,
                    BlankLine \/ TooManyHeaders \/ InvalidHeader \/ ParseHeader
             PROVE  StepFits
  BY DEF BlankLine, TooManyHeaders, InvalidHeader, ParseHeader
<1>1. /\ parser \in HTTP_Parser /\ Len(parser.headers) <= HTTP_MAX_HEADERS
      /\ parser.offset \in Nat
  BY DEF ParserInv, HeadersFit, HTTP_Parser
<1>2. LineEnd \in Nat /\ LineText \in Seq(Bytes) /\ UNCHANGED bufferVars
  BY LineEndType, LineTextType DEF InHeaders, ParserInv
<1>3. CASE BlankLine
  <2>1. LineEnd - parser.offset + 1 \in Int /\ parser.offset + (LineEnd - parser.offset + 1) >= 0
    BY <1>1, <1>2
  <2> QED
    BY <1>1, <1>2, <1>3, <2>1, HeadersEnded DEF BlankLine
<1>4. CASE TooManyHeaders
  <2>1. parser.offset + 1 >= 0
    BY <1>1
  <2> QED
    BY <1>1, <1>2, <1>4, <2>1, HeadersEnded DEF TooManyHeaders
<1>5. CASE InvalidHeader
  <2>1. parser' = parser /\ at' = "idle" /\ answer' = "Invalid_Data" /\ line' = line
    BY <1>5 DEF InvalidHeader, Answer
  <2>2. BodyStep /\ line \in Nat /\ parser.state # "Parsing_Done"
    BY <1>2, BodyKept DEF ParserInv, InHeaders
  <2> QED
    BY <1>1, <2>1, <2>2 DEF StepFits, Answers
<1>6. CASE ParseHeader
  <2> DEFINE p == WithHeader(parser, LineText)
  <2>1. /\ p \in HTTP_Parser /\ p.state = parser.state
        /\ Len(p.headers) <= HTTP_MAX_HEADERS
    BY <1>2, <1>6, HeaderStored DEF ParseHeader
  <2> HIDE DEF p
  <2>2. CASE Byte(LineEnd) = NUL
    <3>1. EndHeaders(p, 1) /\ Silent
      BY <1>6, <2>2 DEF ParseHeader, p
    <3>2. p.offset + 1 >= 0
      BY <2>1 DEF HTTP_Parser
    <3> QED
      BY <1>2, <2>1, <3>1, <3>2, HeadersEnded
  <2>3. CASE Byte(LineEnd) # NUL
    <3>1. parser' = p /\ line' = LineEnd + 1 /\ at' = at /\ answer' = answer
      BY <1>6, <2>3 DEF ParseHeader, Silent, p
    <3>2. at = "headers" /\ parser.state # "Parsing_Done" /\ answer \in Answers /\ BodyStep
      BY <1>2, BodyKept DEF InHeaders, ParserInv
    <3> QED
      BY <1>2, <2>1, <3>1, <3>2 DEF StepFits
  <2> QED
    BY <2>2, <2>3
<1> QED
  BY <1>3, <1>4, <1>5, <1>6

(* The parser goes on waiting: it keeps its place and answers.              *)
LEMMA Waiting ==
  ASSUME ParserInv, at # "idle", UNCHANGED bufferVars,
         parser' = parser \/ parser' = WithEncoding,
         NEW result \in Answers, Answer(result)
  PROVE  StepFits
<1>1. /\ parser' \in HTTP_Parser /\ parser'.state = parser.state
      /\ parser'.headers = parser.headers
  BY Encoded DEF ParserInv
<1>2. parser.state # "Parsing_Done" /\ Len(parser.headers) <= HTTP_MAX_HEADERS
  BY DEF ParserInv, HeadersFit
<1>3. BodyStep /\ at' = "idle" /\ answer' \in Answers /\ line' = line /\ line \in Nat
  BY BodyKept DEF ParserInv, Answer
<1> QED
  BY <1>1, <1>2, <1>3 DEF StepFits

(* The message is complete. *)
LEMMA Finished ==
  ASSUME ParserInv, UNCHANGED bufferVars, Answer("Done"),
         BodyDone \/ parser' = [parser EXCEPT !.state = "Parsing_Done"]
  PROVE  StepFits
<1>1. parser \in HTTP_Parser /\ Len(parser.headers) <= HTTP_MAX_HEADERS
  BY DEF ParserInv, HeadersFit
<1>2. parser' \in HTTP_Parser /\ parser'.headers = parser.headers
  <2>1. CASE BodyDone
    BY <1>1, <2>1, Ended
  <2>2. CASE parser' = [parser EXCEPT !.state = "Parsing_Done"]
    BY <1>1, <2>2 DEF HTTP_Parser, States
  <2> QED
    BY <2>1, <2>2
<1>3. BodyStep /\ at' = "idle" /\ answer' = "Done" /\ line' = line /\ line \in Nat
  BY BodyKept DEF ParserInv, Answer
<1> QED
  BY <1>1, <1>2, <1>3 DEF StepFits, Answers

(* Bytes that lie in the allocation are appended to the body.               *)
LEMMA Taken ==
  ASSUME ParserInv, at = "body", NEW from \in Nat, NEW n \in Nat, from + n <= input.capacity,
         NEW offset \in Nat, Take(from, n, offset)
  PROVE  StepFits
<1>1. parser \in HTTP_Parser /\ Len(parser.headers) <= HTTP_MAX_HEADERS /\ line \in Nat
      /\ parser.state # "Parsing_Done" /\ answer \in Answers
  BY DEF ParserInv, HeadersFit
<1>2. Piece(from, n) \in Seq(Bytes)
  BY PieceType DEF ParserInv
<1>3. BodyStep
  BY <1>2 DEF Take, BodyStep, StringBufferNext
<1>4. parser' = [parser EXCEPT !.encoding = Encoding, !.body_offset = offset]
  BY DEF Take
<1>5. /\ parser' \in HTTP_Parser /\ parser'.state = parser.state
      /\ parser'.headers = parser.headers
  BY <1>1, <1>4, EncodingType DEF HTTP_Parser
<1>6. at' = "append" /\ line' = line /\ answer' = answer
  BY DEF Take, Silent
<1> QED
  BY <1>1, <1>3, <1>5, <1>6 DEF StepFits

LEMMA IdentityTaken == ParserInv /\ WholeIdentity => StepFits
<1> SUFFICES ASSUME ParserInv, WholeIdentity PROVE StepFits
  OBVIOUS
<1>1. parser \in HTTP_Parser /\ parser.offset \in Nat /\ parser.body_offset \in Nat
  BY DEF ParserInv, HTTP_Parser
<1>2. at = "body" /\ Having("Content-Length") # {}
  BY DEF WholeIdentity, InIdentity, InBody, Unsupported
<1>3. ContentLength \in Nat
  BY <1>1, <1>2, ContentLengthType
<1>4. /\ parser.offset + ContentLength <= input.capacity
      /\ Take(parser.offset, ContentLength, parser.body_offset)
  BY DEF WholeIdentity
<1> QED
  BY <1>1, <1>2, <1>3, <1>4, Taken

LEMMA ChunkTaken == ParserInv /\ WholeChunk => StepFits
<1> SUFFICES ASSUME ParserInv, WholeChunk PROVE StepFits
  OBVIOUS
<1>1. parser.body_offset \in Nat /\ Chunk \in Nat /\ SizeEnd \in Nat /\ ChunkLength \in Nat
  BY ChunkType DEF ParserInv, HTTP_Parser
<1>2. ChunkStart \in Nat /\ OffsetBehindChunk \in Nat /\ ChunkStart = Chunk + SizeEnd + 2
  BY <1>1 DEF ChunkStart, OffsetBehindChunk
<1>3. /\ at = "body"
      /\ Chunk + SizeEnd + 2 + ChunkLength <= input.capacity
      /\ Take(ChunkStart, ChunkLength, OffsetBehindChunk)
  BY DEF WholeChunk, InSized, InChunks, InBody
<1>4. ChunkStart + ChunkLength <= input.capacity
  BY <1>2, <1>3
<1> QED
  BY <1>1, <1>2, <1>3, <1>4, Taken

LEMMA AppendEnded == ParserInv /\ AfterAppend => StepFits
<1> SUFFICES ASSUME ParserInv, AfterAppend PROVE StepFits
  OBVIOUS
<1>1. CASE parser.encoding = "Chunked"
  <2>1. /\ at = "append" /\ at' = "body" /\ UNCHANGED <<parser, line, answer>>
        /\ UNCHANGED bufferVars
    BY <1>1 DEF AfterAppend, Silent
  <2> QED
    BY <2>1, BodyKept DEF ParserInv, HeadersFit, StepFits
<1>2. CASE parser.encoding # "Chunked"
  BY <1>2, Finished DEF AfterAppend
<1> QED
  BY <1>1, <1>2

(* A failing assertion, or a byte behind the allocation, ends the process.  *)
LEMMA FailKeeps == \A cause : ParserInv /\ Fail(cause) => StepFits
  BY BodyKept DEF Fail, ParserInv, HeadersFit, StepFits

LEMMA Failed == ParserInv /\ (FailStatus \/ FailChunk \/ ReadOutside) => StepFits
  BY FailKeeps DEF FailStatus, FailChunk, ReadOutside

LEMMA BodyAppend ==
  ParserInv /\ AppendStep /\ UNCHANGED <<parser, at, line>> /\ Silent => StepFits
<1> SUFFICES ASSUME ParserInv, AppendStep, UNCHANGED <<parser, at, line>>, Silent PROVE StepFits
  OBVIOUS
<1>1. BodyStep
  BY DEF StringBufferNext, BodyStep
<1> QED
  BY <1>1 DEF Silent, ParserInv, HeadersFit, StepFits

LEMMA ParserStepFits == ParserInv /\ ParserStep => StepFits
<1> SUFFICES ASSUME ParserInv, ParserStep PROVE StepFits
  OBVIOUS
<1>1. CASE ParseStatus
  BY <1>1, StatusParsed
<1>2. CASE BlankLine \/ TooManyHeaders \/ InvalidHeader \/ ParseHeader
  BY <1>2, HeadersStep
<1>3. CASE InvalidStatus
  <2>1. "Invalid_Data" \in Answers /\ at # "idle"
    BY <1>3 DEF Answers, InvalidStatus
  <2> QED
    BY <1>3, <2>1, Waiting DEF InvalidStatus
<1>4. CASE ParseUnsupported
  <2>1. "TODO" \in Answers /\ at # "idle"
    BY <1>4 DEF Answers, ParseUnsupported, InBody
  <2> QED
    BY <1>4, <2>1, Waiting DEF ParseUnsupported
<1>5. CASE ShortIdentity \/ ShortChunk
  <2>1. "Needs_More_Data" \in Answers /\ at # "idle"
    BY <1>5 DEF Answers, ShortIdentity, ShortChunk, InIdentity, InSized, InChunks, InBody
  <2> QED
    BY <1>5, <2>1, Waiting DEF ShortIdentity, ShortChunk
<1>6. CASE ParseNoBody \/ EmptyIdentity \/ LastChunk
  BY <1>6, Finished DEF ParseNoBody, EmptyIdentity, LastChunk
<1>7. CASE WholeIdentity \/ WholeChunk
  BY <1>7, IdentityTaken, ChunkTaken
<1>8. CASE AfterAppend
  BY <1>8, AppendEnded
<1>9. CASE FailStatus \/ FailChunk \/ ReadOutside
  BY <1>9, Failed
<1>10. CASE at = "append" /\ AppendStep /\ UNCHANGED <<parser, at, line>> /\ Silent
  BY <1>10, BodyAppend
<1> QED
  BY <1>1, <1>2, <1>3, <1>4, <1>5, <1>6, <1>7, <1>8, <1>9, <1>10 DEF ParserStep

-----------------------------------------------------------------------------
(* The parser and its two callers: a caller that will call the parser again *)
(* was not told Done.                                                       *)
CallersInv ==
  /\ ReceiveInv
  /\ ParserInv
  /\ task \in {"reading", "appending", "parsing", "file", "finished"}
  /\ task \in {"reading", "appending", "file"} => answer # "Done"

LEMMA CallersInvInit == Init => CallersInv
<1> SUFFICES ASSUME Init PROVE CallersInv
  OBVIOUS
<1>1. ParserInit /\ ReceiveInv
  BY ReceiveInvInit DEF Init
<1>2. /\ parser = [state |-> "Parsing_Status", offset |-> 0, type |-> "Request", method |-> "GET",
                   headers |-> <<>>, encoding |-> "unset", body_offset |-> 0]
      /\ input = string_buffer_init /\ at = "idle" /\ line = 0 /\ answer = "none"
      /\ BufferInv
  BY <1>1, BufferInvInit DEF ParserInit
<1>3. parser \in HTTP_Parser /\ parser.state # "Parsing_Done"
  <2>1. <<>> \in Seq(Header)
    BY EmptySeq
  <2> QED
    BY <1>2, <2>1 DEF HTTP_Parser, States, Methods
<1>4. HeadersFit
  BY <1>2, EmptySeq, HttpParserAssumption DEF HeadersFit
<1>5. InputFits
  BY <1>2, StringBufferAssumption DEF InputFits, string_buffer_init
<1>6. task \in {"reading", "file"}
  BY DEF Init
<1> QED
  BY <1>1, <1>2, <1>3, <1>4, <1>5, <1>6 DEF CallersInv, ParserInv, Answers

(* The call: the parser goes to the part its state names, which is not Done. *)
LEMMA CallInv ==
  ASSUME ParserInv, answer # "Done", NEW memory,
         memory.capacity \in Nat, memory.length \in 0 .. memory.capacity,
         memory.data \in [0 .. memory.capacity - 1 -> Bytes],
         http_try_parse(memory)
  PROVE  ParserInv'
<1>1. parser \in HTTP_Parser /\ parser.state # "Parsing_Done" /\ parser.offset \in Nat
  BY DEF ParserInv, HTTP_Parser
<1>2. parser.state \in {"Parsing_Status", "Parsing_Headers", "Parsing_Body"}
  BY <1>1 DEF HTTP_Parser, States
<1>3. at' \in {"status", "headers", "body"}
  BY <1>2 DEF http_try_parse
<1>4. InputFits'
  BY DEF http_try_parse, InputFits
<1>5. parser' = parser /\ line' = parser.offset /\ answer' = answer /\ BufferInv'
  BY BufferInvNext DEF http_try_parse, Silent, ParserInv
<1> QED
  BY <1>1, <1>3, <1>4, <1>5 DEF ParserInv, HeadersFit

LEMMA FileMemoryFits ==
  ASSUME ReceiveInv
  PROVE  /\ FileMemory.capacity \in Nat /\ FileMemory.length \in 0 .. FileMemory.capacity
         /\ FileMemory.data \in [0 .. FileMemory.capacity - 1 -> Bytes]
<1> DEFINE n == Len(message.bytes)
<1>1. message.bytes \in Seq(Bytes) /\ n \in Nat
  BY MessageBytes DEF ReceiveInv
<1>2. \A k \in 0 .. n : k < n => message.bytes[k + 1] \in Bytes
  BY <1>1, LenProperties
<1>3. NUL \in Bytes
  BY StringBufferAssumption
<1> QED
  BY <1>1, <1>2, <1>3 DEF FileMemory

(* What the receive task does to its buffer is not the parser's business.   *)
LEMMA ParserKept == ParserInv /\ UNCHANGED <<parserVars, bufferVars>> => ParserInv'
<1> SUFFICES ASSUME ParserInv, UNCHANGED <<parserVars, bufferVars>> PROVE ParserInv'
  OBVIOUS
<1>1. BufferInv' /\ UNCHANGED <<parser, input, at, line, answer>>
  BY BufferInvNext DEF ParserInv, parserVars
<1> QED
  BY <1>1 DEF ParserInv, InputFits, HeadersFit

LEMMA CallersInvNext == CallersInv /\ [Next]_vars => CallersInv'
<1> SUFFICES ASSUME CallersInv, [Next]_vars PROVE CallersInv'
  OBVIOUS
<1>1. ReceiveInv'
  BY ReceiveInvNext DEF CallersInv
<1> SUFFICES /\ ParserInv'
             /\ task' \in {"reading", "appending", "parsing", "file", "finished"}
             /\ task' \in {"reading", "appending", "file"} => answer' # "Done"
  BY <1>1 DEF CallersInv
<1>2. CASE \E n \in 1 .. Min({INITIAL_CAPACITY, Len(message.bytes) - read}) : Receive(n)
  <2>1. /\ UNCHANGED <<parserVars, bufferVars>> /\ task = "reading" /\ task' = "appending"
        /\ answer' = answer
    BY <1>2 DEF Receive, parserVars
  <2> QED
    BY <2>1, ParserKept DEF CallersInv
<1>3. CASE AppendReceived
  <2>1. /\ UNCHANGED <<parserVars, bufferVars>> /\ task' = task /\ answer' = answer
    BY <1>3 DEF AppendReceived, parserVars
  <2> QED
    BY <2>1, ParserKept DEF CallersInv
<1>4. CASE ParseReceived
  <2>1. /\ sb.capacity \in Nat /\ sb.length \in 0 .. sb.capacity
        /\ sb.data \in [0 .. sb.capacity - 1 -> Bytes]
    BY DEF CallersInv, ReceiveInv, Buffer!BufferInv, Buffer!StringBufferTypeOK
  <2>2. task = "appending" /\ http_try_parse(sb) /\ task' = "parsing"
    BY <1>4 DEF ParseReceived
  <2> QED
    BY <2>1, <2>2, CallInv DEF CallersInv
<1>5. CASE http_fuzz
  <2>1. task = "file" /\ http_try_parse(FileMemory) /\ task' = "parsing"
    BY <1>5 DEF http_fuzz
  <2> QED
    BY <2>1, CallInv, FileMemoryFits DEF CallersInv
<1>6. CASE Parse
  <2>1. ParserStep /\ task = "parsing" /\ task' = "parsing"
    BY <1>6 DEF Parse, driverVars
  <2> QED
    BY <2>1, ParserStepFits, FitsNext DEF CallersInv, ParserStep, Parsing
<1>7. CASE AfterParse
  <2>1. /\ UNCHANGED <<parserVars, bufferVars>> /\ answer' = answer
        /\ task' = "finished" \/ (task' = "reading" /\ answer = "Needs_More_Data")
    BY <1>7 DEF AfterParse, parserVars
  <2> QED
    BY <2>1, ParserKept DEF CallersInv
<1>8. CASE UNCHANGED vars
  <2>1. UNCHANGED <<parserVars, bufferVars>> /\ task' = task /\ answer' = answer
    BY <1>8 DEF vars, driverVars, parserVars
  <2> QED
    BY <2>1, ParserKept DEF CallersInv
<1> QED
  BY <1>2, <1>3, <1>4, <1>5, <1>6, <1>7, <1>8 DEF Next


-----------------------------------------------------------------------------
(* What the parser reads is the message as far as it was received, with a   *)
(* NUL behind it.                                                           *)
InputIsMessage ==
  /\ input.length = read
  /\ \A k \in 0 .. read - 1 : input.data[k] = message.bytes[k + 1]
  /\ \A k \in read .. input.capacity - 1 : input.data[k] = NUL

(* A parser that runs was called on the message, and what it hands to the   *)
(* body is of the message.                                                  *)
MessageInv ==
  /\ task \in {"reading", "appending"} => message.from = "socket"
  /\ at # "idle" => task = "parsing"
  /\ task = "parsing" => InputIsMessage
  /\ BodyFromMessage

LEMMA RestBound ==
  ASSUME InputFits, NEW from \in Nat, from <= input.length
  PROVE  Rest(from) \in Nat /\ Rest(from) <= input.length - from
<1> DEFINE a == input.length - from
<1>1. a \in Nat /\ SIZE_VALUES \in Nat \ {0}
  BY HttpParserAssumption DEF InputFits
<1>2. a % SIZE_VALUES \in Nat /\ a % SIZE_VALUES <= a
  BY <1>1
<1> QED
  BY <1>2 DEF Rest

(* Bytes of the memory in front of the end of the data are the message's.   *)
LEMMA PieceOfMessage ==
  ASSUME ParserInv, InputIsMessage, message \in Messages, read \in 0 .. Len(message.bytes),
         NEW from \in Nat, NEW n \in Nat, from + n <= input.length
  PROVE  from + n <= read /\ Piece(from, n) = SubSeq(message.bytes, from + 1, from + n)
<1>1. /\ message.bytes \in Seq(Bytes) /\ Len(message.bytes) \in Nat
      /\ read \in Nat /\ from + n <= read /\ read <= input.capacity
  BY MessageBytes DEF InputIsMessage, ParserInv, InputFits
<1>2. Piece(from, n) \in Seq(Bytes) /\ Len(Piece(from, n)) = n
  BY <1>1, PieceType DEF ParserInv, InputFits
<1> DEFINE t == SubSeq(message.bytes, from + 1, from + n)
<1>3. \A k \in from + 1 .. from + n : message.bytes[k] \in Bytes
  BY <1>1, LenProperties
<1>4. /\ t \in Seq(Bytes) /\ Len(t) = n
      /\ \A k \in 1 .. n : t[k] = message.bytes[from + k]
  <2>1. from + 1 \in Int /\ from + n \in Int /\ (from + n) - (from + 1) + 1 = n
    OBVIOUS
  <2>2. /\ t \in Seq(Bytes)
        /\ Len(t) = IF from + 1 <= from + n THEN (from + n) - (from + 1) + 1 ELSE 0
        /\ \A k \in 1 .. (from + n) - (from + 1) + 1 : t[k] = message.bytes[from + 1 + k - 1]
    BY <1>3, <2>1, SubSeqProperties
  <2>3. Len(t) = n
    BY <2>1, <2>2
  <2>4. ASSUME NEW k \in 1 .. n PROVE t[k] = message.bytes[from + k]
    <3>1. from + 1 + k - 1 = from + k
      OBVIOUS
    <3> QED
      BY <2>1, <2>2, <3>1
  <2> QED
    BY <2>2, <2>3, <2>4
<1> HIDE DEF t
<1>5. ASSUME NEW k \in 1 .. n PROVE Piece(from, n)[k] = t[k]
  <2>1. from + k - 1 \in 0 .. read - 1 /\ from + k - 1 < input.capacity
    BY <1>1 DEF ParserInv, InputFits
  <2>2. Piece(from, n)[k] = input.data[from + k - 1]
    BY <2>1 DEF Piece, Byte
  <2>3. input.data[from + k - 1] = message.bytes[from + k - 1 + 1]
    BY <2>1 DEF InputIsMessage
  <2>4. from + k - 1 + 1 = from + k
    OBVIOUS
  <2> QED
    BY <1>4, <2>2, <2>3, <2>4
<1>6. Piece(from, n) = t
  BY <1>2, <1>4, <1>5, SeqEqual
<1> QED
  BY <1>1, <1>6 DEF t

(* The line end behind a chunk's size was received, since behind what was   *)
(* received is only NUL: so the bytes left behind it are counted without    *)
(* wrapping.                                                                *)
LEMMA ChunkReceived ==
  ASSUME ParserInv, InputIsMessage, WholeChunk
  PROVE  /\ ChunkStart \in Nat /\ ChunkLength \in Nat
         /\ ChunkStart + ChunkLength <= input.length
<1>1. Chunk \in Nat /\ SizeEnd \in Nat /\ ChunkLength \in Nat
  BY ChunkType DEF ParserInv
<1>2. ChunkStart = Chunk + SizeEnd + 2 /\ ChunkStart \in Nat
  BY <1>1 DEF ChunkStart
<1>3. Byte(Chunk + SizeEnd + 1) = LF
  BY DEF WholeChunk, InSized, SizeFormat
<1>4. Chunk + SizeEnd + 1 < input.length
  <2> SUFFICES ASSUME Chunk + SizeEnd + 1 >= input.length PROVE FALSE
    BY <1>1 DEF ParserInv, InputFits
  <2>1. Chunk + SizeEnd + 1 < input.capacity
    BY <1>1, <1>3 DEF Byte, Outside, LF, ParserInv, InputFits
  <2>2. Chunk + SizeEnd + 1 \in read .. input.capacity - 1
    BY <1>1, <2>1 DEF InputIsMessage, ParserInv, InputFits
  <2>3. Byte(Chunk + SizeEnd + 1) = NUL
    BY <2>1, <2>2 DEF InputIsMessage, Byte
  <2> QED
    BY <1>3, <2>3, HttpParserAssumption
<1>5. ChunkStart <= input.length
  BY <1>1, <1>2, <1>4 DEF ParserInv, InputFits
<1>6. Rest(ChunkStart) \in Nat /\ Rest(ChunkStart) <= input.length - ChunkStart
  BY <1>2, <1>5, RestBound DEF ParserInv
<1>7. Rest(ChunkStart) >= ChunkLength
  BY <1>2 DEF WholeChunk, Enough
<1> QED
  BY <1>1, <1>2, <1>6, <1>7 DEF ParserInv, InputFits

LEMMA IdentityReceived ==
  ASSUME ParserInv, WholeIdentity, parser.offset <= input.length
  PROVE  /\ parser.offset \in Nat /\ ContentLength \in Nat
         /\ parser.offset + ContentLength <= input.length
<1>1. parser.offset \in Nat
  BY DEF ParserInv, HTTP_Parser
<1>2. ContentLength \in Nat
  BY ContentLengthType DEF ParserInv, WholeIdentity, InIdentity, Unsupported
<1>3. Rest(parser.offset) \in Nat /\ Rest(parser.offset) <= input.length - parser.offset
  BY <1>1, RestBound DEF ParserInv
<1>4. Rest(parser.offset) >= ContentLength
  BY DEF WholeIdentity, Enough
<1> QED
  BY <1>1, <1>2, <1>3, <1>4 DEF ParserInv, InputFits

(* What is taken for the body is a part of the message. *)
LEMMA TakenFromMessage ==
  ASSUME CallersInv, MessageInv, task = "parsing", WholeIdentity \/ WholeChunk,
         UNCHANGED <<read, message>>
  PROVE  BodyFromMessage'
<1>1. /\ ParserInv /\ InputIsMessage /\ message \in Messages
      /\ read \in 0 .. Len(message.bytes) /\ input.length = read
  BY DEF CallersInv, MessageInv, ReceiveInv, InputIsMessage
<1>2. parser \in HTTP_Parser
  BY <1>1 DEF ParserInv
<1>3. CASE WholeIdentity
  <2> DEFINE n == ContentLength
             from == parser.offset
  <2>1. Encoding = "Identity" /\ Take(from, n, parser.body_offset)
    BY <1>3 DEF WholeIdentity, InIdentity
  <2>2. parser' = [parser EXCEPT !.encoding = "Identity", !.body_offset = parser.body_offset]
    BY <2>1 DEF Take
  <2>3. parser'.offset = from /\ parser'.encoding = "Identity"
    BY <1>2, <2>2 DEF HTTP_Parser
  <2>4. call'.bytes = Piece(from, n)
    BY <2>1 DEF Take, string_buffer_append_buf
  <2> SUFFICES ASSUME from <= read
               PROVE  /\ from + Len(call'.bytes) <= read
                      /\ call'.bytes = SubSeq(message.bytes, from + 1, from + Len(call'.bytes))
    BY <2>3 DEF BodyFromMessage
  <2>5. from \in Nat /\ n \in Nat /\ from + n <= input.length
    BY <1>1, <1>3, IdentityReceived
  <2>6. from + n <= read /\ Piece(from, n) = SubSeq(message.bytes, from + 1, from + n)
    BY <1>1, <2>5, PieceOfMessage
  <2>7. Len(Piece(from, n)) = n
    BY <1>1, <2>5, PieceType DEF ParserInv, InputFits
  <2> QED
    BY <2>4, <2>6, <2>7
<1>4. CASE WholeChunk
  <2> DEFINE n == ChunkLength
             from == ChunkStart
  <2>1. Encoding = "Chunked" /\ Take(from, n, OffsetBehindChunk)
    BY <1>4 DEF WholeChunk, InSized, InChunks
  <2>2. parser' = [parser EXCEPT !.encoding = "Chunked", !.body_offset = OffsetBehindChunk]
    BY <2>1 DEF Take
  <2>3. /\ parser'.offset = parser.offset /\ parser'.encoding = "Chunked"
        /\ parser'.body_offset = OffsetBehindChunk
    BY <1>2, <2>2 DEF HTTP_Parser
  <2>4. call'.bytes = Piece(from, n)
    BY <2>1 DEF Take, string_buffer_append_buf
  <2>5. from \in Nat /\ n \in Nat /\ from + n <= input.length
    BY <1>1, <1>4, ChunkReceived
  <2>6. from + n <= read /\ Piece(from, n) = SubSeq(message.bytes, from + 1, from + n)
    BY <1>1, <2>5, PieceOfMessage
  <2>7. Len(Piece(from, n)) = n
    BY <1>1, <2>5, PieceType DEF ParserInv, InputFits
  <2>8. parser.offset + OffsetBehindChunk - 2 - n = from
    <3>1. parser.offset \in Nat /\ parser.body_offset \in Nat /\ SizeEnd \in Nat /\ n \in Nat
      BY <1>1, ChunkType DEF ParserInv, HTTP_Parser
    <3> QED
      BY <3>1 DEF OffsetBehindChunk, ChunkStart, Chunk
  <2> HIDE DEF n, from
  <2> QED
    BY <2>3, <2>4, <2>6, <2>7, <2>8 DEF BodyFromMessage
<1> QED
  BY <1>3, <1>4

(* The other steps of the parser append nothing new. *)
LEMMA ParseKeepsBody ==
  ASSUME CallersInv, MessageInv, task = "parsing", ParserStep, UNCHANGED <<read, message>>
  PROVE  BodyFromMessage'
<1>1. CASE WholeIdentity \/ WholeChunk
  BY <1>1, TakenFromMessage
<1>2. CASE at' # "append"
  BY <1>2 DEF BodyFromMessage
<1>3. CASE UNCHANGED <<parser, at, call>>
  BY <1>3 DEF BodyFromMessage, MessageInv
<1>4. CASE at = "append" /\ AppendStep /\ UNCHANGED <<parser, at>>
  <2>1. CASE Copy
    BY <2>1 DEF Copy, NoCall, BodyFromMessage
  <2>2. CASE Double \/ Reallocate
    <3>1. call \in [at : {"none", "resize", "copy"}, bytes : Seq(Bytes), new_capacity : Nat]
      BY DEF CallersInv, ParserInv, BufferInv, StringBufferTypeOK
    <3>2. call.at # "none" /\ call'.bytes = call.bytes
      BY <2>2, <3>1 DEF Double, Reallocate
    <3> QED
      BY <1>4, <3>2 DEF BodyFromMessage, MessageInv
  <2> QED
    BY <1>4, <2>1, <2>2 DEF AppendStep
<1>5. ParseStatus \/ InvalidStatus \/ BlankLine \/ TooManyHeaders \/ InvalidHeader \/ ParseHeader
        => at' # "append"
  BY DEF ParseStatus, InvalidStatus, BlankLine, TooManyHeaders, InvalidHeader, ParseHeader,
         Answer, EndHeaders, InHeaders
<1>6. ParseNoBody \/ ParseUnsupported \/ EmptyIdentity \/ ShortIdentity \/ ShortChunk
        \/ LastChunk \/ AfterAppend => at' # "append"
  BY DEF ParseNoBody, ParseUnsupported, EmptyIdentity, ShortIdentity, ShortChunk, LastChunk,
         AfterAppend, Answer
<1>7. FailStatus \/ FailChunk \/ ReadOutside => UNCHANGED <<parser, at, call>>
  BY DEF FailStatus, FailChunk, ReadOutside, Fail, bufferVars
<1> QED
  BY <1>1, <1>2, <1>3, <1>4, <1>5, <1>6, <1>7 DEF ParserStep

(* The receive task's buffer holds the message as far as it was read.       *)
LEMMA ReceivedIsMessage ==
  ASSUME ReceiveInv, message.from = "socket", ParseReceived
  PROVE  InputIsMessage'
<1>1. /\ input' = sb /\ sb_call.at = "none" /\ read' = read /\ message' = message
  BY DEF ParseReceived, http_try_parse
<1>2. /\ sb.capacity \in Nat /\ sb.length \in 0 .. sb.capacity
      /\ sb.data \in [0 .. sb.capacity - 1 -> Bytes]
      /\ sb_call.bytes = <<>>
      /\ \A k \in sb.length .. sb.capacity - 1 : sb.data[k] = NUL
  BY <1>1 DEF ReceiveInv, Buffer!BufferInv, Buffer!StringBufferTypeOK, Buffer!ZeroBehindData
<1>3. /\ message.bytes \in Seq(Bytes) /\ Len(message.bytes) \in Nat
      /\ read \in 0 .. Len(message.bytes)
  BY MessageBytes DEF ReceiveInv
<1> DEFINE t == SubSeq(message.bytes, 1, read)
<1>4. Buffer!TextOf(sb) = t
  <2>1. Buffer!TextOf(sb) \o <<>> = t
    BY <1>2, SameText DEF ReceiveInv, ReadInOrder
  <2>2. Buffer!TextOf(sb) \in Seq(Bytes)
    BY TaskBufferText DEF ReceiveInv
  <2> QED
    BY <2>1, <2>2, ConcatEmptySeq
<1>5. Len(t) = read /\ \A k \in 1 .. read : t[k] = message.bytes[k]
  <2>1. \A k \in 1 .. read : message.bytes[k] \in Bytes
    BY <1>3, LenProperties
  <2>2. /\ Len(t) = IF 1 <= read THEN read - 1 + 1 ELSE 0
        /\ \A k \in 1 .. read - 1 + 1 : t[k] = message.bytes[1 + k - 1]
    BY <1>3, <2>1, SubSeqProperties
  <2> QED
    BY <1>3, <2>2
<1> HIDE DEF t
<1>6. sb.length = read
  <2>1. Len(Buffer!TextOf(sb)) = sb.length
    <3>1. Buffer!StringBufferAssumption
      BY StringBufferAssumption DEF StringBufferAssumption, Buffer!StringBufferAssumption
    <3> QED
      BY <1>2, <3>1, Buffer!TextIsSeq
  <2> QED
    BY <1>4, <1>5, <2>1
<1>7. ASSUME NEW k \in 0 .. read - 1 PROVE sb.data[k] = message.bytes[k + 1]
  <2>1. k + 1 \in 1 .. sb.length /\ k + 1 \in 1 .. read /\ k + 1 - 1 = k
    BY <1>3, <1>6
  <2>2. Buffer!TextOf(sb)[k + 1] = sb.data[k]
    BY <2>1 DEF Buffer!TextOf
  <2> QED
    BY <1>4, <1>5, <2>1, <2>2
<1> QED
  BY <1>1, <1>2, <1>6, <1>7 DEF InputIsMessage

LEMMA FileIsMessage ==
  ASSUME ReceiveInv, http_fuzz
  PROVE  InputIsMessage'
<1>1. input' = FileMemory /\ read' = Len(message.bytes) /\ message' = message
  BY DEF http_fuzz, http_try_parse
<1>2. Len(message.bytes) \in Nat
  BY MessageBytes DEF ReceiveInv
<1> QED
  BY <1>1, <1>2 DEF FileMemory, InputIsMessage

LEMMA MessageInvInit == Init => MessageInv
  BY DEF Init, ParserInit, MessageInv, BodyFromMessage

LEMMA MessageInvNext == CallersInv /\ MessageInv /\ [Next]_vars => MessageInv'
<1> SUFFICES ASSUME CallersInv, MessageInv, [Next]_vars PROVE MessageInv'
  OBVIOUS
<1>1. CASE \E n \in 1 .. Min({INITIAL_CAPACITY, Len(message.bytes) - read}) : Receive(n)
  <2>1. task = "reading" /\ task' = "appending" /\ at' = at /\ message' = message
    BY <1>1 DEF Receive, parserVars
  <2> QED
    BY <2>1 DEF MessageInv, BodyFromMessage
<1>2. CASE AppendReceived
  <2>1. task = "appending" /\ task' = task /\ at' = at /\ message' = message
    BY <1>2 DEF AppendReceived, parserVars
  <2> QED
    BY <2>1 DEF MessageInv, BodyFromMessage
<1>3. CASE ParseReceived
  <2>1. task = "appending" /\ task' = "parsing" /\ at = "idle"
    BY <1>3 DEF ParseReceived, http_try_parse
  <2>2. InputIsMessage'
    BY <1>3, <2>1, ReceivedIsMessage DEF CallersInv, MessageInv
  <2>3. call' = call /\ at' \in {"status", "headers", "body"}
    <3>1. parser.state \in {"Parsing_Status", "Parsing_Headers", "Parsing_Body"}
      BY <2>1 DEF CallersInv, ParserInv, HTTP_Parser, States
    <3> QED
      BY <1>3, <3>1 DEF ParseReceived, http_try_parse, bufferVars
  <2> QED
    BY <2>1, <2>2, <2>3 DEF MessageInv, BodyFromMessage
<1>4. CASE http_fuzz
  <2>1. task = "file" /\ task' = "parsing"
    BY <1>4 DEF http_fuzz
  <2>2. InputIsMessage'
    BY <1>4, FileIsMessage DEF CallersInv
  <2>3. at' \in {"status", "headers", "body"}
    <3>1. parser.state \in {"Parsing_Status", "Parsing_Headers", "Parsing_Body"}
      BY <2>1 DEF CallersInv, ParserInv, HTTP_Parser, States
    <3> QED
      BY <1>4, <3>1 DEF http_fuzz, http_try_parse
  <2> QED
    BY <2>1, <2>2, <2>3 DEF MessageInv, BodyFromMessage
<1>5. CASE Parse
  <2>1. ParserStep /\ task = "parsing" /\ UNCHANGED <<task, read, message, input>>
    BY <1>5 DEF Parse, driverVars, ParserStep, Parsing
  <2>2. BodyFromMessage'
    BY <2>1, ParseKeepsBody
  <2>3. InputIsMessage'
    BY <2>1 DEF MessageInv, InputIsMessage
  <2> QED
    BY <2>1, <2>2, <2>3 DEF MessageInv
<1>6. CASE AfterParse
  <2>1. /\ at = "idle" /\ at' = at /\ message' = message
        /\ task' = "finished" \/ (task' = "reading" /\ message.from = "socket")
    BY <1>6 DEF AfterParse, parserVars
  <2> QED
    BY <2>1 DEF MessageInv, BodyFromMessage
<1>7. CASE UNCHANGED vars
  BY <1>7 DEF vars, driverVars, parserVars, bufferVars, MessageInv, BodyFromMessage, InputIsMessage
<1> QED
  BY <1>1, <1>2, <1>3, <1>4, <1>5, <1>6, <1>7 DEF Next

-----------------------------------------------------------------------------
(* Every reachable state of the parser and its callers satisfies both parts *)
(* of the invariant.                                                        *)
LEMMA SpecInv == Spec => [](CallersInv /\ MessageInv)
<1>1. CallersInv /\ MessageInv /\ [Next]_vars => (CallersInv /\ MessageInv)'
  BY CallersInvNext, MessageInvNext
<1> QED
  BY CallersInvInit, MessageInvInit, <1>1, PTL DEF Spec

(* The types and bounds of the parser's offsets, of both buffers and of the *)
(* callers: offsets and lengths stay natural numbers, whatever digits and   *)
(* cuts they come from (http.c 180-432), and a parser that is done is never *)
(* called again (http.c 114-178 has no part for it).                        *)
THEOREM ParserTypeOK == Spec => []TypeOK
<1>1. CallersInv => TypeOK
  <2> SUFFICES ASSUME CallersInv PROVE TypeOK
    OBVIOUS
  <2>1. StringBufferTypeOK
    BY DEF CallersInv, ParserInv, BufferInv
  <2>2. Received!StringBufferTypeOK
    BY DEF CallersInv, ReceiveInv, Buffer!BufferInv, Buffer!StringBufferTypeOK,
           Buffer!RequiredCapacity, Received!StringBufferTypeOK, Received!RequiredCapacity
  <2> QED
    BY <2>1, <2>2 DEF CallersInv, ReceiveInv, ParserInv, HTTP_Parser, TypeOK
<1> QED
  BY <1>1, SpecInv, PTL

(* The array of headers is never written behind its end (http.c 341-350),   *)
(* whatever arrives, however it is cut, and however often the parser is     *)
(* called.                                                                  *)
THEOREM HeadersBounded == Spec => []HeadersFit
<1>1. CallersInv => HeadersFit
  BY DEF CallersInv, ParserInv
<1> QED
  BY <1>1, SpecInv, PTL

(* Behind the body every byte of its allocation is NUL (string_buffer.h     *)
(* 34-37), whatever the parser appends to it.                               *)
THEOREM BodyZeroed == Spec => []ZeroBehindData
<1>1. CallersInv => ZeroBehindData
  BY DEF CallersInv, ParserInv, BufferInv
<1> QED
  BY <1>1, SpecInv, PTL

(* What is appended to the body is the part of the message its offsets say, *)
(* and was received (http.c 413-429, 507-508, 530-538): for every message,  *)
(* every cut and every width of the number of bytes left.                   *)
THEOREM BodyReceived == Spec => []BodyFromMessage
<1>1. MessageInv => BodyFromMessage
  BY DEF MessageInv
<1> QED
  BY <1>1, SpecInv, PTL

(* The body is a text that only changes by having a piece put behind it,    *)
(* whole and once, whatever else the parser and its callers do between the  *)
(* steps of an append (http.c 507, string_buffer.h 28-50).                  *)
THEOREM BodyOnlyGrows == Spec => RefinesText
<1>1. Init => Text!Init
  BY RefinesInit DEF Init, ParserInit
<1>2. CallersInv /\ [Next]_vars => [Text!Next]_(Text!textVars)
  <2> SUFFICES ASSUME CallersInv, [Next]_vars PROVE BodyStep
    BY RefinesNext DEF CallersInv, ParserInv, BodyStep
  <2>1. CASE Parse
    BY <2>1, ParserStepFits DEF CallersInv, Parse, StepFits
  <2>2. (\E n \in 1 .. Min({INITIAL_CAPACITY, Len(message.bytes) - read}) : Receive(n))
          => UNCHANGED bufferVars
    BY DEF Receive
  <2>3. AppendReceived \/ ParseReceived \/ http_fuzz \/ AfterParse => UNCHANGED bufferVars
    BY DEF AppendReceived, ParseReceived, http_fuzz, AfterParse, http_try_parse
  <2>4. UNCHANGED vars => UNCHANGED bufferVars
    BY DEF vars
  <2> QED
    BY <2>1, <2>2, <2>3, <2>4, BodyKept DEF Next
<1> QED
  BY <1>1, <1>2, SpecInv, PTL DEF Spec, RefinesText, Text!Spec
=============================================================================
