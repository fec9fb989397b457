--------------------------- MODULE MessageProofs ---------------------------
(***************************************************************************)
(* The parser answers every well-formed message as it is written: for      *)
(* every number and length of lines, every body, every list of chunks,     *)
(* every cut behind the head and every size of the arrays.                 *)
(***************************************************************************)
EXTENDS HttpParserProofs, MessageInvariant

(* The parser runs on what was received. *)
Fed == CallersInv /\ MessageInv /\ task = "parsing"

LEMMA MessageTypes ==
  ASSUME CallersInv
  PROVE  /\ message \in Message
         /\ message.bytes \in Seq(Symbols) /\ Len(message.bytes) \in Nat
         /\ read \in 0 .. Len(message.bytes)
         /\ \A k \in 0 .. Len(message.bytes) - 1 : Sym(message, k) \in Symbols
<1>1. message \in Message /\ read \in 0 .. Len(message.bytes)
  BY ParserDriversAssumption DEF CallersInv, ReceiveInv
<1>2. message.bytes \in Seq(Symbols)
  BY <1>1 DEF Message
<1>3. Len(message.bytes) \in Nat
  BY <1>2, LenProperties
<1>4. ASSUME NEW k \in 0 .. Len(message.bytes) - 1 PROVE Sym(message, k) \in Symbols
  <2>1. k + 1 \in 1 .. Len(message.bytes)
    BY <1>3
  <2> QED
    BY <1>2, <2>1, ElementOfSeq DEF Sym
<1> QED
  BY <1>1, <1>2, <1>3, <1>4

LEMMA NoSymbolOutside == Outside \notin Symbols
  BY HttpParserAssumption DEF Symbols, Visible, Outside, Methods, Keys, DigitValue, Words, CR, LF

(* A byte that was received is the message's; what is behind is not one. *)
LEMMA ByteIs ==
  ASSUME Fed, NEW k \in Nat, k < read
  PROVE  Byte(k) = Sym(message, k) /\ Byte(k) \in Symbols /\ Byte(k) # Outside
<1>1. input.length = read /\ input.capacity \in Nat /\ read \in Nat /\ read <= input.capacity
  BY DEF Fed, CallersInv, MessageInv, InputIsMessage, ParserInv, InputFits
<1>2. k \in 0 .. read - 1 /\ k < input.capacity /\ k \in 0 .. Len(message.bytes) - 1
  BY <1>1, MessageTypes DEF Fed
<1>3. Byte(k) = input.data[k] /\ input.data[k] = message.bytes[k + 1]
  BY <1>2 DEF Byte, Fed, MessageInv, InputIsMessage
<1>4. Sym(message, k) \in Symbols
  BY <1>2, MessageTypes DEF Fed
<1> QED
  BY <1>3, <1>4, NoSymbolOutside DEF Sym

LEMMA ByteBehind ==
  ASSUME Fed, NEW k \in Nat, k >= read
  PROVE  Byte(k) \in {NUL, Outside} /\ Byte(k) \notin {CR, LF}
<1>1. input.length = read /\ input.capacity \in Nat /\ read \in Nat
  BY DEF Fed, CallersInv, MessageInv, InputIsMessage, ParserInv, InputFits
<1>2. CASE k < input.capacity
  <2>1. k \in read .. input.capacity - 1
    BY <1>1, <1>2
  <2>2. Byte(k) = NUL
    BY <1>2, <2>1 DEF Byte, Fed, MessageInv, InputIsMessage
  <2> QED
    BY <2>2, HttpParserAssumption
<1>3. CASE ~ (k < input.capacity)
  BY <1>3 DEF Byte, Outside, CR, LF
<1> QED
  BY <1>2, <1>3

LEMMA PieceIs ==
  ASSUME Fed, NEW from \in Nat, NEW to \in Nat, from <= to, to <= read
  PROVE  Piece(from, to - from) = SubSeq(message.bytes, from + 1, to)
<1>1. to - from \in Nat /\ from + (to - from) = to
  OBVIOUS
<1>2. input.length = read /\ InputIsMessage
  BY DEF Fed, MessageInv, InputIsMessage
<1>3. message \in Messages /\ read \in 0 .. Len(message.bytes) /\ ParserInv
  BY DEF Fed, CallersInv, ReceiveInv
<1> QED
  BY <1>1, <1>2, <1>3, PieceOfMessage

(* A part of the message, element by element. *)
LEMMA PartOf ==
  ASSUME CallersInv, NEW from \in Nat, NEW to \in Nat, from <= to, to <= Len(message.bytes)
  PROVE  LET t == SubSeq(message.bytes, from + 1, to)
         IN  /\ t \in Seq(Symbols) /\ Len(t) = to - from
             /\ \A k \in 1 .. to - from : t[k] = Sym(message, from + k - 1)
<1> DEFINE t == SubSeq(message.bytes, from + 1, to)
<1>1. \A k \in from + 1 .. to : message.bytes[k] \in Symbols
  BY MessageTypes, ElementOfSeq
<1>2. from + 1 \in Int /\ to \in Int /\ to - (from + 1) + 1 = to - from
  OBVIOUS
<1>3. /\ t \in Seq(Symbols)
      /\ Len(t) = IF from + 1 <= to THEN to - (from + 1) + 1 ELSE 0
      /\ \A k \in 1 .. to - (from + 1) + 1 : t[k] = message.bytes[from + 1 + k - 1]
  BY <1>1, <1>2, SubSeqProperties
<1>4. Len(t) = to - from
  BY <1>2, <1>3
<1>5. ASSUME NEW k \in 1 .. to - from PROVE t[k] = Sym(message, from + k - 1)
  <2>1. from + 1 + k - 1 = from + k - 1 + 1
    OBVIOUS
  <2> QED
    BY <1>2, <1>3, <2>1 DEF Sym
<1> QED
  BY <1>3, <1>4, <1>5

-----------------------------------------------------------------------------
(* Where the lines of the head are. *)
LEMMA LinesCount ==
  ASSUME CallersInv, WellFormed(message)
  PROVE  /\ message.lines \in Seq(Nat) /\ Len(message.lines) \in Nat
         /\ 1 \in 1 .. Len(message.lines) /\ 2 \in 1 .. Len(message.lines)
         /\ Len(message.lines) - 2 \in 0 .. HTTP_MAX_HEADERS
<1>1. message.lines \in Seq(Nat)
  BY MessageTypes DEF Message
<1>2. Len(message.lines) \in Nat
  BY <1>1, LenProperties
<1>3. Len(message.lines) \in 2 .. HTTP_MAX_HEADERS + 2
  BY DEF WellFormed, HeadWellFormed
<1>4. HTTP_MAX_HEADERS \in Nat
  BY HttpParserAssumption
<1> QED
  BY <1>1, <1>2, <1>3, <1>4

LEMMA LinePlaces ==
  ASSUME CallersInv, WellFormed(message), NEW j \in 1 .. Len(message.lines)
  PROVE  LET from == LineStart(message, j)
             to   == TextEnd(message, j)
         IN  /\ Len(message.lines) \in Nat \ {0, 1} /\ message.head \in Nat
             /\ from \in Nat /\ to \in Nat /\ from <= to
             /\ from = message.lines[j]
             /\ LineStart(message, j + 1) = to + 2 /\ to + 2 <= message.head
             /\ message.head <= Len(message.bytes)
             /\ Sym(message, to) = CR /\ Sym(message, to + 1) = LF
             /\ \A k \in from .. to - 1 : Sym(message, k) \notin {CR, LF, NUL}
<1>1. message.lines \in Seq(Nat) /\ message.head \in Nat
  BY MessageTypes DEF Message
<1>2. Len(message.lines) \in Nat /\ DOMAIN message.lines = 1 .. Len(message.lines)
  BY <1>1, LenProperties
<1>3. HeadWellFormed(message)
  BY DEF WellFormed
<1>4. IsLine(message, j) /\ Len(message.lines) >= 2 /\ message.head <= Len(message.bytes)
  BY <1>2, <1>3, HttpParserAssumption DEF HeadWellFormed
<1>5. LineStart(message, j) = message.lines[j] /\ LineStart(message, j) \in Nat
  BY <1>1, <1>2, ElementOfSeq DEF LineStart
<1>6. LineStart(message, j + 1) \in Nat
  <2>1. CASE j + 1 <= Len(message.lines)
    <3>1. j + 1 \in 1 .. Len(message.lines)
      BY <1>2, <2>1
    <3> QED
      BY <1>1, <3>1, ElementOfSeq DEF LineStart
  <2>2. CASE ~ (j + 1 <= Len(message.lines))
    BY <1>1, <2>2 DEF LineStart
  <2> QED
    BY <2>1, <2>2
<1>7. TextEnd(message, j) = LineStart(message, j + 1) - 2
  BY DEF TextEnd
<1>8. LineStart(message, j) <= TextEnd(message, j)
  BY <1>4, <1>5, <1>6, <1>7 DEF IsLine, LineLength
<1>9. /\ Len(message.lines) \in Nat \ {0, 1}
      /\ TextEnd(message, j) \in Nat
      /\ LineStart(message, j + 1) = TextEnd(message, j) + 2
  <2>1. Len(message.lines) \in Nat \ {0, 1}
    <3>1. \A n \in Nat : n >= 2 => n \in Nat \ {0, 1}
      OBVIOUS
    <3> QED
      BY <1>2, <1>4, <3>1
  <2>2. \A x, y \in Nat : x <= y - 2 => y - 2 \in Nat /\ y = (y - 2) + 2
    OBVIOUS
  <2> QED
    BY <1>5, <1>6, <1>7, <1>8, <2>1, <2>2
<1>10. /\ TextEnd(message, j) + 2 <= message.head
       /\ Sym(message, TextEnd(message, j)) = CR /\ Sym(message, TextEnd(message, j) + 1) = LF
       /\ \A k \in LineStart(message, j) .. TextEnd(message, j) - 1 :
            Sym(message, k) \notin {CR, LF, NUL}
  BY <1>4, <1>9 DEF IsLine
<1> QED
  BY <1>1, <1>4, <1>5, <1>8, <1>9, <1>10

(* The text of a line of the head, once the head was received, and where    *)
(* its end is found.                                                        *)
LEMMA LineFound ==
  ASSUME Fed, WellFormed(message), read >= message.head,
         NEW j \in 1 .. Len(message.lines), line = message.lines[j]
  PROVE  /\ LineEnds # {} /\ LineEnd = TextEnd(message, j) + 1
         /\ Byte(LineEnd) = LF /\ LF # NUL
         /\ LineText = SubSeq(message.bytes, message.lines[j] + 1, TextEnd(message, j))
<1> DEFINE from == message.lines[j]
           to   == TextEnd(message, j)
<1>1. /\ from \in Nat /\ to \in Nat /\ from <= to /\ to + 2 <= message.head
      /\ message.head \in Nat /\ message.head <= Len(message.bytes)
      /\ Sym(message, to) = CR /\ Sym(message, to + 1) = LF
      /\ \A k \in from .. to - 1 : Sym(message, k) \notin {CR, LF, NUL}
  BY LinePlaces DEF Fed
<1>2. read \in Nat /\ input.capacity \in Nat /\ read <= input.capacity
  BY MessageTypes DEF Fed, CallersInv, MessageInv, InputIsMessage, ParserInv, InputFits
<1> HIDE DEF from, to
<1>3. CR # LF /\ CR # NUL /\ LF # NUL
  BY HttpParserAssumption DEF CR, LF
<1>4. \A k \in from .. to + 1 : Byte(k) = Sym(message, k)
  BY <1>1, <1>2, ByteIs
<1>5. to + 1 \in LineEnds
  BY <1>1, <1>2, <1>4 DEF LineEnds, from
<1>6. \A k \in LineEnds : k >= to + 1
  <2> SUFFICES ASSUME NEW k \in LineEnds, k < to + 1 PROVE FALSE
    BY <1>1, <1>2 DEF LineEnds, from
  <2>1. k \in from .. to /\ Byte(k) \in {LF, NUL}
    BY <1>1, <1>2 DEF LineEnds, from
  <2>2. Byte(k) = Sym(message, k)
    BY <1>1, <1>4, <2>1
  <2>3. k = to \/ k \in from .. to - 1
    BY <1>1, <2>1
  <2> QED
    BY <1>1, <1>3, <2>1, <2>2, <2>3
<1>7. LineEnd = to + 1
  <2>1. LineEnds \in SUBSET Nat
    BY <1>1, <1>2 DEF LineEnds, from
  <2>2. LineEnd \in LineEnds /\ LineEnd <= to + 1
    BY <1>5, <2>1, MinOf DEF LineEnd
  <2> QED
    BY <1>1, <1>6, <2>1, <2>2
<1>8. LineText = SubSeq(message.bytes, from + 1, to)
  <2>0. PICK end \in Nat : end = to + 1
    BY <1>1
  <2> DEFINE raw == SubSeq(message.bytes, from + 1, end)
             t   == SubSeq(message.bytes, from + 1, to)
  <2>2. /\ CallersInv /\ from \in Nat /\ to \in Nat /\ from <= to
        /\ from <= end /\ end <= read
        /\ to <= Len(message.bytes) /\ end <= Len(message.bytes)
    BY <1>1, <1>2, <2>0 DEF Fed
  <2>1. Piece(line, LineEnd - line) = raw
    <3>1. Piece(from, end - from) = raw
      BY <2>2, PieceIs
    <3>2. line = from /\ LineEnd = end
      BY <1>7, <2>0 DEF from
    <3> QED
      BY <3>1, <3>2
  <2>3. /\ raw \in Seq(Symbols) /\ Len(raw) = end - from
        /\ \A k \in 1 .. end - from : raw[k] = Sym(message, from + k - 1)
    BY <2>2, PartOf
  <2>4. /\ t \in Seq(Symbols) /\ Len(t) = to - from
        /\ \A k \in 1 .. to - from : t[k] = Sym(message, from + k - 1)
    BY <2>2, PartOf
  <2> HIDE DEF raw, t
  <2>5. raw # <<>> /\ Last(raw) = CR
    <3>1. end - from \in 1 .. end - from /\ from + (end - from) - 1 = to
      BY <1>1, <2>0, <2>2
    <3>2. raw[Len(raw)] = CR
      BY <1>1, <2>3, <3>1
    <3> QED
      BY <2>3, <3>1, <3>2, EmptySeq DEF Last
  <2>6. Front(raw) = t
    <3>1. Front(raw) = SubSeq(raw, 1, to - from)
      BY <1>1, <2>0, <2>3 DEF Front
    <3>2. /\ SubSeq(raw, 1, to - from) \in Seq(Symbols)
          /\ Len(SubSeq(raw, 1, to - from)) = to - from
          /\ \A k \in 1 .. to - from : SubSeq(raw, 1, to - from)[k] = raw[k]
      <4>1. \A k \in 1 .. to - from : raw[k] \in Symbols
        BY <1>1, <2>0, <2>3, ElementOfSeq
      <4>2. 1 \in Int /\ to - from \in Int /\ to - from - 1 + 1 = to - from
            /\ \A k \in 1 .. to - from : 1 + k - 1 = k
        BY <1>1
      <4>3. /\ SubSeq(raw, 1, to - from) \in Seq(Symbols)
            /\ Len(SubSeq(raw, 1, to - from)) = IF 1 <= to - from THEN to - from - 1 + 1 ELSE 0
            /\ \A k \in 1 .. to - from - 1 + 1 : SubSeq(raw, 1, to - from)[k] = raw[1 + k - 1]
        BY <4>1, <4>2, SubSeqProperties
      <4> QED
        BY <1>1, <4>2, <4>3
    <3>3. \A k \in 1 .. to - from : SubSeq(raw, 1, to - from)[k] = t[k]
      BY <1>1, <2>0, <2>3, <2>4, <3>2
    <3> QED
      BY <2>4, <3>1, <3>2, <3>3, SeqEqual
  <2> QED
    BY <2>1, <2>5, <2>6 DEF LineText, t
<1> QED
  BY <1>1, <1>3, <1>4, <1>5, <1>7, <1>8 DEF from, to

-----------------------------------------------------------------------------
(* The start line. *)
LEMMA StatusFound ==
  ASSUME Fed, WellFormed(message), read >= message.head, parser.offset = 0
  PROVE  /\ ~ StatusOutside /\ (IsRequest \/ IsResponse)
         /\ Byte(0) = Sym(message, 0)
         /\ IsRequest <=> Sym(message, 0) # "version"
         /\ IsRequest => Sym(message, 0) \in Methods
         /\ StatusEnd = message.lines[2] /\ Byte(StatusEnd) # LF
<1> DEFINE to == TextEnd(message, 1)
<1>1. /\ Len(message.lines) \in Nat \ {0, 1} /\ message.head \in Nat
      /\ to \in Nat /\ to + 2 <= message.head
      /\ LineStart(message, 1) = message.lines[1] /\ LineStart(message, 2) = to + 2
      /\ Sym(message, to) = CR /\ Sym(message, to + 1) = LF
      /\ \A k \in LineStart(message, 1) .. to - 1 : Sym(message, k) \notin {CR, LF, NUL}
  <2>1. 1 \in 1 .. Len(message.lines)
    BY LinesCount DEF Fed
  <2>2. CallersInv /\ 1 + 1 = 2
    BY DEF Fed
  <2> QED
    BY <2>1, <2>2, LinePlaces
<1>2. /\ message.lines[1] = 0 /\ IsStartLine(message) /\ LineLength(message, 1) = to
  <2>1. message.lines[1] = 0 /\ IsStartLine(message)
    BY DEF WellFormed, HeadWellFormed
  <2> QED
    BY <1>1, <2>1 DEF LineLength
<1>3. to >= 2 /\ \A k \in 0 .. to - 1 : Sym(message, k) \notin {CR, LF, NUL}
  BY <1>1, <1>2 DEF IsStartLine
<1>4. read \in Nat /\ to + 2 <= read /\ input.length = read
  BY <1>1, MessageTypes DEF Fed, CallersInv, MessageInv, InputIsMessage
<1>13. to \in Nat /\ to >= 2 /\ read \in Nat /\ to + 2 <= read
  BY <1>1, <1>3, <1>4
<1> HIDE DEF to
<1>5. \A k \in 0 .. to + 1 : Byte(k) = Sym(message, k) /\ Byte(k) # Outside
  BY <1>1, <1>4, ByteIs
<1>6. /\ Byte(0) = Sym(message, 0) /\ Byte(1) = Sym(message, 1)
      /\ \A k \in 0 .. 2 : Byte(0 + k) # Outside
  <2>1. \A k \in 0 .. 2 : k \in 0 .. to + 1 /\ 0 + k = k
    BY <1>1, <1>3
  <2> QED
    BY <1>5, <2>1
<1>7. /\ IsRequest \/ IsResponse
      /\ IsRequest <=> Sym(message, 0) # "version"
      /\ IsRequest => Sym(message, 0) \in Methods
  <2>1. 0 + 1 = 1 /\ "version" \notin Methods
    BY DEF Methods
  <2> QED
    BY <1>2, <1>6, <2>1 DEF IsRequest, IsResponse, IsStartLine
<1>8. to + 1 \in StatusEnds /\ \A k \in StatusEnds : k >= to + 1
  <2>1. to + 1 - 1 = to /\ to + 1 \in 0 + 1 .. read - 1
    BY <1>13
  <2>2. Byte(to) = CR /\ Byte(to + 1) = LF
    BY <1>1, <1>5
  <2>3. to + 1 \in StatusEnds
    <3>1. \A k, p : k \in 0 + 1 .. read - 1 /\ k - 1 = p /\ Byte(p) = CR /\ Byte(k) = LF
                      => k \in StatusEnds
      BY <1>4 DEF StatusEnds
    <3>2. PICK e \in Nat : e = to + 1
      BY <1>13
    <3>3. e \in 0 + 1 .. read - 1 /\ e - 1 = to /\ Byte(e) = LF
      BY <1>13, <2>2, <3>2
    <3>4. e \in StatusEnds
      BY <2>2, <3>1, <3>3
    <3> QED
      BY <3>2, <3>4
  <2>4. ASSUME NEW k \in StatusEnds, k < to + 1 PROVE FALSE
    <3>1. k \in 0 .. to /\ Byte(k) = LF
      BY <1>4, <1>13, <2>4 DEF StatusEnds
    <3>2. k = to \/ k \in 0 .. to - 1
      BY <1>13, <3>1
    <3>3. Sym(message, k) = LF
      BY <1>5, <1>13, <3>1
    <3> QED
      BY <1>1, <1>3, <3>2, <3>3 DEF CR, LF
  <2>5. \A k \in StatusEnds : k \in Int
    BY <1>4 DEF StatusEnds
  <2> QED
    BY <1>1, <2>3, <2>4, <2>5
<1>9. StatusEnd = to + 2
  <2>1. StatusEnds \in SUBSET Nat /\ StatusEnds # {}
    BY <1>4, <1>8 DEF StatusEnds
  <2>2. Min(StatusEnds) \in StatusEnds /\ Min(StatusEnds) <= to + 1
    BY <1>8, <2>1, MinOf
  <2>3. Min(StatusEnds) = to + 1
    <3>1. Min(StatusEnds) \in Nat /\ Min(StatusEnds) >= to + 1
      BY <1>8, <2>1, <2>2
    <3> QED
      BY <1>13, <2>2, <3>1
  <2>4. StatusEnd = Min(StatusEnds) + 1
    BY <2>1 DEF StatusEnd
  <2> QED
    BY <1>13, <2>3, <2>4
<1>10. message.lines[2] = to + 2 /\ Sym(message, to + 2) # LF /\ to + 2 < read
  <2>1. 2 \in 1 .. Len(message.lines) /\ CallersInv
    BY LinesCount DEF Fed
  <2>2. /\ LineStart(message, 2) = message.lines[2] /\ message.lines[2] \in Nat
        /\ TextEnd(message, 2) \in Nat /\ message.lines[2] <= TextEnd(message, 2)
        /\ TextEnd(message, 2) + 2 <= message.head
        /\ Sym(message, TextEnd(message, 2)) = CR
        /\ \A k \in message.lines[2] .. TextEnd(message, 2) - 1 : Sym(message, k) \notin {CR, LF, NUL}
    BY <2>1, LinePlaces
  <2>3. CASE message.lines[2] = TextEnd(message, 2)
    BY <1>1, <1>4, <2>2, <2>3 DEF CR, LF
  <2>4. CASE message.lines[2] < TextEnd(message, 2)
    <3>1. message.lines[2] \in message.lines[2] .. TextEnd(message, 2) - 1
      BY <2>2, <2>4
    <3> QED
      BY <1>1, <1>4, <2>2, <3>1
  <2> QED
    BY <2>2, <2>3, <2>4
<1>11. Byte(StatusEnd) = Sym(message, to + 2) /\ Byte(StatusEnd) # Outside
  BY <1>1, <1>4, <1>9, <1>10, ByteIs
<1>12. ~ StatusOutside
  BY <1>6, <1>11 DEF StatusOutside
<1> QED
  BY <1>6, <1>7, <1>9, <1>10, <1>11, <1>12

-----------------------------------------------------------------------------
(* A step of the parser in a well-formed message whose head was received. *)
Underway == Fed /\ WellFormed(message) /\ whole /\ ParsedAsWritten

ParseStep == ParserStep /\ UNCHANGED driverVars

(* The parts of ParsedAsWritten no step of the parser changes. *)
LEMMA ReadFitsKept ==
  ASSUME ReadFits, UNCHANGED driverVars
  PROVE  ReadFits'
<1>1. message' = message /\ read' = read /\ task' = task /\ safe' = safe
  BY DEF driverVars
<1> QED
  BY <1>1 DEF ReadFits

LEMMA StepsAt ==
  ASSUME ParserStep
  PROVE  \/ /\ at = "status"
            /\ \/ ParseStatus \/ InvalidStatus \/ FailStatus
               \/ StatusOutside
         \/ /\ at = "headers"
            /\ \/ BlankLine \/ TooManyHeaders \/ InvalidHeader \/ ParseHeader
               \/ LineEnds = {}
         \/ /\ at = "body"
            /\ \/ ParseNoBody \/ ParseUnsupported \/ EmptyIdentity \/ ShortIdentity \/ WholeIdentity
               \/ ShortChunk \/ LastChunk \/ WholeChunk \/ FailChunk
               \/ ReadOutside
         \/ at = "append" /\ AfterAppend
         \/ at = "append" /\ AppendStep /\ UNCHANGED <<parser, at, line, answer, fate>>
<1>1. ParseStatus \/ InvalidStatus \/ FailStatus => at = "status"
  BY DEF ParseStatus, InvalidStatus, FailStatus
<1>2. BlankLine \/ TooManyHeaders \/ InvalidHeader \/ ParseHeader => at = "headers"
  BY DEF BlankLine, TooManyHeaders, InvalidHeader, ParseHeader, InHeaders
<1>3. ParseNoBody \/ ParseUnsupported \/ EmptyIdentity \/ ShortIdentity \/ WholeIdentity => at = "body"
  BY DEF ParseNoBody, ParseUnsupported, EmptyIdentity, ShortIdentity, WholeIdentity,
         InIdentity, InBody
<1>4. ShortChunk \/ LastChunk \/ WholeChunk \/ FailChunk => at = "body"
  BY DEF ShortChunk, LastChunk, WholeChunk, FailChunk, InSized, InChunks, InBody
<1>5. AfterAppend => at = "append"
  BY DEF AfterAppend
<1>6. ReadOutside => \/ at = "status" /\ StatusOutside
                     \/ at = "headers" /\ LineEnds = {}
                     \/ at = "body"
  BY DEF ReadOutside, InIdentity, InSized, InChunks, InBody
<1> QED
  BY <1>1, <1>2, <1>3, <1>4, <1>5, <1>6 DEF ParserStep, Silent

(* The start line leads to the first header. *)
LEMMA StartStep ==
  ASSUME Underway, AtStart, ParseStep
  PROVE  ParsedAsWritten'
<1>1. at = "status" /\ parser.offset = 0 /\ parser.headers = <<>> /\ CallersInv
  BY StepsAt DEF Underway, Fed, AtStart, ParseStep
<1>2. read >= message.head
  BY <1>1, MessageTypes DEF Underway, ParsedAsWritten, ReadFits, Fed
<1>3. ParseStatus /\ (IsRequest <=> Sym(message, 0) # "version")
      /\ (IsRequest => Sym(message, 0) \in Methods)
      /\ Byte(0) = Sym(message, 0) /\ StatusEnd = message.lines[2]
  <2>1. /\ ~ StatusOutside /\ (IsRequest \/ IsResponse)
        /\ IsRequest <=> Sym(message, 0) # "version"
        /\ IsRequest => Sym(message, 0) \in Methods
        /\ Byte(0) = Sym(message, 0) /\ StatusEnd = message.lines[2] /\ Byte(StatusEnd) # LF
    BY <1>1, <1>2, StatusFound DEF Underway
  <2>2. ParseStatus \/ InvalidStatus \/ FailStatus \/ StatusOutside
    BY <1>1, StepsAt DEF ParseStep
  <2>3. ~ InvalidStatus
    BY <2>1 DEF InvalidStatus
  <2>4. ~ FailStatus
    BY <2>1 DEF FailStatus
  <2>5. ParseStatus
    BY <2>1, <2>2, <2>3, <2>4
  <2> QED
    BY <2>1, <2>5
<1>4. /\ parser' = [parser EXCEPT !.state = "Parsing_Headers", !.offset = StatusEnd,
                       !.type = IF IsRequest THEN "Request" ELSE "Response",
                       !.method = IF IsRequest THEN Byte(parser.offset) ELSE @]
      /\ at' = "headers" /\ line' = StatusEnd
      /\ UNCHANGED <<buf, call, answer, fate>>
  BY <1>3 DEF ParseStatus, Silent, bufferVars
<1>5. parser \in HTTP_Parser
  BY <1>1 DEF CallersInv, ParserInv
<1>6. /\ parser'.state = "Parsing_Headers" /\ parser'.headers = <<>>
      /\ parser'.encoding = parser.encoding /\ parser'.body_offset = parser.body_offset
      /\ parser'.type = IF Sym(message, 0) = "version" THEN "Response" ELSE "Request"
      /\ parser'.type = "Request" => parser'.method = Sym(message, 0)
  BY <1>1, <1>3, <1>4, <1>5 DEF HTTP_Parser
<1>7. UNCHANGED <<message, read, task, whole, safe>>
  BY DEF ParseStep, driverVars
<1>8. 2 \in 2 .. Len(message.lines) /\ SubSeq(HeadersOf(message), 1, 2 - 2) = <<>>
  BY <1>1, LinesCount, SubSeqEmpty DEF Underway
<1>9. AtHeader'
  BY <1>2, <1>3, <1>4, <1>6, <1>7, <1>8 DEF AtHeader, StartKnown
<1> QED
  BY <1>1, <1>4, <1>6, <1>7, <1>9, ReadFitsKept
     DEF Underway, ParsedAsWritten, Collected, ParseStep

-----------------------------------------------------------------------------
(* The headers. *)
MessageHeader == [key : Keys, value : Seq(Symbols)]

LEMMA HeaderLineFits ==
  ASSUME CallersInv, WellFormed(message), NEW k \in 1 .. Len(message.lines) - 2
  PROVE  LET from == message.lines[k + 1]
             to   == TextEnd(message, k + 1)
         IN  /\ k + 1 \in 1 .. Len(message.lines)
             /\ from \in Nat /\ to \in Nat /\ from + 2 <= to /\ to <= Len(message.bytes)
             /\ Sym(message, from) \in Keys
             /\ HeadersOf(message)[k] =
                  [key |-> Sym(message, from), value |-> SubSeq(message.bytes, from + 2, to)]
             /\ HeadersOf(message)[k] \in MessageHeader
<1> DEFINE from == message.lines[k + 1]
           to   == TextEnd(message, k + 1)
<1>1. /\ Len(message.lines) \in Nat /\ k + 1 \in 1 .. Len(message.lines)
      /\ k + 1 \in 2 .. Len(message.lines) - 1
  BY LinesCount
<1>2. /\ from \in Nat /\ to \in Nat /\ from <= to /\ to + 2 <= message.head
      /\ message.head \in Nat /\ message.head <= Len(message.bytes)
      /\ LineStart(message, k + 1) = from
  BY <1>1, LinePlaces
<1>3. LineLength(message, k + 1) >= 2 /\ Sym(message, from) \in Keys
  BY <1>1 DEF WellFormed, HeadWellFormed, HeaderLines
<1>4. LineLength(message, k + 1) = to - from
  BY <1>2 DEF LineLength
<1> HIDE DEF from, to
<1>5. from + 2 <= to /\ to <= Len(message.bytes)
  BY <1>2, <1>3, <1>4, MessageTypes
<1>6. SubSeq(message.bytes, from + 2, to) \in Seq(Symbols)
  <2>1. \A j \in from + 2 .. to : message.bytes[j] \in Symbols
    <3>1. \A j \in from + 2 .. to : j \in 1 .. Len(message.bytes)
      BY <1>2, <1>5, MessageTypes
    <3> QED
      BY <3>1, MessageTypes, ElementOfSeq
  <2>2. from + 2 \in Int /\ to \in Int
    BY <1>2
  <2> QED
    BY <2>1, <2>2, SubSeqProperties
<1>7. HeadersOf(message)[k] =
        [key |-> Sym(message, from), value |-> SubSeq(message.bytes, from + 2, to)]
  BY DEF HeadersOf, from, to
<1> QED
  BY <1>1, <1>2, <1>3, <1>5, <1>6, <1>7 DEF MessageHeader, from, to

LEMMA HeadersOfType ==
  ASSUME CallersInv, WellFormed(message)
  PROVE  /\ HeadersOf(message) \in Seq(MessageHeader)
         /\ Len(HeadersOf(message)) = Len(message.lines) - 2
         /\ Len(message.lines) - 2 \in Nat
<1> DEFINE n == Len(message.lines) - 2
<1>1. n \in Nat
  BY LinesCount
<1>2. \A k \in 1 .. n : HeadersOf(message)[k] \in MessageHeader
  BY HeaderLineFits
<1>3. DOMAIN HeadersOf(message) = 1 .. n /\ HeadersOf(message) = [k \in 1 .. n |-> HeadersOf(message)[k]]
  BY DEF HeadersOf
<1> HIDE DEF n
<1>4. HeadersOf(message) \in [1 .. n -> MessageHeader]
  BY <1>2, <1>3
<1> QED
  BY <1>1, <1>4 DEF n

(* A line between the first and the last is stored as the next header. *)
LEMMA NextHeader ==
  ASSUME Underway, AtHeader, ParseStep,
         NEW k \in 1 .. Len(message.lines) - 2, line = message.lines[k + 1],
         parser.headers = SubSeq(HeadersOf(message), 1, k - 1)
  PROVE  ParsedAsWritten'
<1> DEFINE from == message.lines[k + 1]
           to   == TextEnd(message, k + 1)
           H    == HeadersOf(message)
<1>1. CallersInv /\ WellFormed(message) /\ Fed /\ at = "headers" /\ read >= message.head
  BY DEF Underway, Fed, AtHeader
<1>2. /\ k + 1 \in 1 .. Len(message.lines)
      /\ from \in Nat /\ to \in Nat /\ from + 2 <= to /\ to <= Len(message.bytes)
      /\ Sym(message, from) \in Keys
      /\ H[k] = [key |-> Sym(message, from), value |-> SubSeq(message.bytes, from + 2, to)]
  BY <1>1, HeaderLineFits
<1>3. /\ LineEnds # {} /\ LineEnd = to + 1 /\ Byte(LineEnd) # NUL
      /\ LineText = SubSeq(message.bytes, from + 1, to)
  BY <1>1, <1>2, LineFound
<1>4. /\ H \in Seq(MessageHeader) /\ Len(H) = Len(message.lines) - 2 /\ k \in 1 .. Len(H)
      /\ Len(message.lines) - 2 \in 0 .. HTTP_MAX_HEADERS /\ HTTP_MAX_HEADERS \in Nat
  BY <1>1, HeadersOfType, LinesCount, HttpParserAssumption
<1> HIDE DEF from, to, H
<1>5. /\ Len(LineText) >= 2 /\ LineText # <<>>
      /\ LineText[1] = Sym(message, from)
      /\ Tail(LineText) = SubSeq(message.bytes, from + 2, to)
  <2>1. from + 1 \in 1 .. Len(message.bytes) /\ to \in from + 1 .. Len(message.bytes)
    BY <1>2, MessageTypes, <1>1
  <2>2. /\ Head(SubSeq(message.bytes, from + 1, to)) = message.bytes[from + 1]
        /\ Tail(SubSeq(message.bytes, from + 1, to)) = SubSeq(message.bytes, from + 1 + 1, to)
    BY <1>1, <2>1, MessageTypes, HeadTailOfSubSeq
  <2>3. /\ LineText \in Seq(Symbols) /\ Len(LineText) = to - from
        /\ \A j \in 1 .. to - from : LineText[j] = Sym(message, from + j - 1)
    <3>1. from <= to
      BY <1>2
    <3> QED
      BY <1>1, <1>2, <1>3, <3>1, PartOf
  <2>4. 1 \in 1 .. to - from /\ from + 1 - 1 = from /\ from + 1 + 1 = from + 2 /\ to - from >= 2
    BY <1>2
  <2>5. LineText[1] = Sym(message, from)
    BY <2>3, <2>4
  <2>6. LineText # <<>>
    BY <2>3, <2>4, EmptySeq
  <2> QED
    BY <1>3, <2>2, <2>3, <2>4, <2>5, <2>6
<1>6. Len(parser.headers) = k - 1 /\ parser.headers \in Seq(MessageHeader)
  <2>1. k - 1 \in 0 .. Len(H) /\ k - 1 \in Int /\ 1 \in Int
    BY <1>4
  <2>2. \A j \in 1 .. k - 1 : H[j] \in MessageHeader
    BY <1>4, <2>1, ElementOfSeq
  <2>3. /\ SubSeq(H, 1, k - 1) \in Seq(MessageHeader)
        /\ Len(SubSeq(H, 1, k - 1)) = IF 1 <= k - 1 THEN k - 1 - 1 + 1 ELSE 0
    BY <2>1, <2>2, SubSeqProperties
  <2> QED
    BY <2>1, <2>3 DEF H
<1>7. ~ HeadersFull /\ IsHeader(LineText)
  BY <1>2, <1>4, <1>5, <1>6 DEF HeadersFull, IsHeader
<1>8. ParseHeader
  <2>1. BlankLine \/ TooManyHeaders \/ InvalidHeader \/ ParseHeader \/ LineEnds = {}
    BY <1>1, StepsAt DEF ParseStep
  <2> QED
    BY <1>3, <1>5, <1>7, <2>1 DEF BlankLine, TooManyHeaders, InvalidHeader
<1>9. /\ parser' = [parser EXCEPT !.headers = Append(@, H[k])]
      /\ line' = to + 1 + 1 /\ at' = at
      /\ UNCHANGED <<buf, call, answer, fate>>
  <2>1. WithHeader(parser, LineText) = [parser EXCEPT !.headers = Append(@, H[k])]
    BY <1>2, <1>5 DEF WithHeader
  <2> QED
    BY <1>3, <1>8, <2>1 DEF ParseHeader, InHeaders, Silent, bufferVars
<1>10. Append(parser.headers, H[k]) = SubSeq(H, 1, k)
  <2>1. H[k] \in MessageHeader
    BY <1>4, ElementOfSeq
  <2>2. SubSeq(H, 1, k) = SubSeq(H, 1, k - 1) \o <<H[k]>>
    <3>1. 1 \in 1 .. Len(H) /\ k \in 1 .. Len(H)
      BY <1>4
    <3> QED
      BY <1>4, <3>1, SubSeqRecursiveSecond
  <2> QED
    BY <1>6, <2>1, <2>2, AppendIsConcat DEF H
<1>11. line' = message.lines[k + 2] /\ k + 2 \in 2 .. Len(message.lines)
  <2>1. LineStart(message, k + 1 + 1) = to + 2
    BY <1>1, <1>2, LinePlaces DEF to
  <2>2. k + 2 \in 2 .. Len(message.lines) /\ k + 1 + 1 = k + 2 /\ k + 2 <= Len(message.lines)
    BY <1>1, LinesCount
  <2>3. to + 1 + 1 = to + 2
    BY <1>2
  <2> QED
    BY <1>9, <2>1, <2>2, <2>3 DEF LineStart
<1>12. parser \in HTTP_Parser
  BY <1>1 DEF CallersInv, ParserInv
<1>13. /\ parser'.state = parser.state /\ parser'.headers = SubSeq(HeadersOf(message), 1, k + 2 - 2)
       /\ parser'.encoding = parser.encoding /\ parser'.body_offset = parser.body_offset
       /\ parser'.type = parser.type /\ parser'.method = parser.method
  <2>1. k + 2 - 2 = k
    BY <1>4
  <2> QED
    BY <1>9, <1>10, <1>12, <2>1 DEF HTTP_Parser, H
<1>14. UNCHANGED <<message, read, task, whole, safe>>
  BY DEF ParseStep, driverVars
<1>15. AtHeader'
  <2>1. StartKnown'
    BY <1>13, <1>14 DEF AtHeader, StartKnown
  <2>2. PICK j : j = k + 2
    OBVIOUS
  <2>3. /\ j \in 2 .. Len(message'.lines) /\ line' = message'.lines[j]
        /\ parser'.headers = SubSeq(HeadersOf(message'), 1, j - 2)
    BY <1>11, <1>13, <1>14, <2>2
  <2>4. parser'.state = "Parsing_Headers" /\ at' = "headers" /\ read' >= message'.head
    BY <1>1, <1>9, <1>13, <1>14 DEF AtHeader
  <2> QED
    BY <2>1, <2>3, <2>4 DEF AtHeader, HeadersOf, TextEnd, LineStart, Sym
<1> QED
  BY <1>1, <1>9, <1>13, <1>14, <1>15, ReadFitsKept
     DEF Underway, ParsedAsWritten, Collected, ParseStep

(* The blank line ends the headers: the body begins behind it. *)
LEMMA BlankStep ==
  ASSUME Underway, AtHeader, ParseStep,
         NEW n \in Nat, n = Len(message.lines), line = message.lines[n],
         parser.headers = SubSeq(HeadersOf(message), 1, n - 2)
  PROVE  ParsedAsWritten'
<1> DEFINE to == TextEnd(message, n)
<1>1. CallersInv /\ WellFormed(message) /\ Fed /\ at = "headers" /\ read >= message.head
  BY DEF Underway, Fed, AtHeader
<1>2. n \in 1 .. Len(message.lines) /\ n + 1 > Len(message.lines) /\ n - 2 \in Nat
  BY <1>1, LinesCount
<1>3. /\ line \in Nat /\ to \in Nat /\ LineStart(message, n) = line
      /\ LineStart(message, n + 1) = to + 2
  BY <1>1, <1>2, LinePlaces
<1>4. to = line
  <2>1. LineLength(message, n) = 0
    BY <1>1 DEF WellFormed, HeadWellFormed
  <2> QED
    BY <1>3, <2>1 DEF LineLength
<1>5. message.head = to + 2
  BY <1>2, <1>3 DEF LineStart
<1>6. LineEnds # {} /\ LineEnd = to + 1 /\ LineText = <<>>
  <2>1. /\ LineEnds # {} /\ LineEnd = to + 1
        /\ LineText = SubSeq(message.bytes, line + 1, to)
    BY <1>1, <1>2, LineFound
  <2>2. SubSeq(message.bytes, line + 1, to) = <<>>
    <3>1. line + 1 \in Int /\ to \in Int /\ line + 1 > to
      BY <1>3, <1>4
    <3> QED
      BY <3>1, SubSeqEmpty
  <2> QED
    BY <2>1, <2>2
<1> HIDE DEF to
<1>7. /\ EndHeaders(parser, LineEnd - parser.offset + 1)
      /\ UNCHANGED <<buf, call, answer, fate>>
  <2>1. BlankLine \/ TooManyHeaders \/ InvalidHeader \/ ParseHeader \/ LineEnds = {}
    BY <1>1, StepsAt DEF ParseStep
  <2> QED
    BY <1>6, <2>1
       DEF BlankLine, TooManyHeaders, InvalidHeader, ParseHeader, InHeaders, Silent, bufferVars
<1>8. parser \in HTTP_Parser /\ parser.offset \in Nat
  BY <1>1 DEF CallersInv, ParserInv, HTTP_Parser
<1>9. /\ parser'.state = "Parsing_Body" /\ parser'.offset = message.head
      /\ parser'.headers = parser.headers /\ at' = "body"
      /\ parser'.encoding = parser.encoding /\ parser'.body_offset = parser.body_offset
      /\ parser'.type = parser.type /\ parser'.method = parser.method
  <2>1. parser.offset + (LineEnd - parser.offset + 1) = message.head
    BY <1>3, <1>5, <1>6, <1>8
  <2>2. parser' = [parser EXCEPT !.state = "Parsing_Body",
                     !.offset = @ + (LineEnd - parser.offset + 1)]
        /\ at' = "body"
    BY <1>7 DEF EndHeaders
  <2> QED
    BY <1>8, <2>1, <2>2 DEF HTTP_Parser
<1>10. parser.headers = HeadersOf(message)
  <2>1. HeadersOf(message) \in Seq(MessageHeader) /\ Len(HeadersOf(message)) = n - 2
    BY <1>1, HeadersOfType
  <2> QED
    BY <2>1, SubSeqFull
<1>11. UNCHANGED <<message, read, task, whole, safe>>
  BY DEF ParseStep, driverVars
<1>12. /\ answer = "none" /\ Collected = <<>> /\ Collected' = Collected
       /\ parser.encoding = "unset" /\ parser.body_offset = 0
       /\ call.at = "none"
  BY <1>1, <1>7 DEF Underway, ParsedAsWritten, Collected
<1>13. StartKnown'
  BY <1>9, <1>11 DEF AtHeader, StartKnown
<1>14. HasLength(message) => AtLength'
  BY <1>9, <1>12 DEF AtLength
<1>15. HasChunks(message) => AtChunk'
  <2> SUFFICES ASSUME HasChunks(message) PROVE AtChunk'
    OBVIOUS
  <2>1. message.chunks \in Seq(ChunkPlace) /\ message.head \in Nat /\ read \in Nat
    BY <1>1, MessageTypes DEF Message
  <2>2. ChunksWellFormed(message)
    BY <1>1 DEF WellFormed, ContentWellFormed, HasNoBody, HasOtherBody, HasLength, HasChunks,
                IsUnsupported, IsIdentity, IsChunked
  <2>3. 1 \in DOMAIN message.chunks
    <3>1. Len(message.chunks) \in Nat /\ Len(message.chunks) # 0
          /\ DOMAIN message.chunks = 1 .. Len(message.chunks)
      BY <2>1, <2>2, LenProperties, EmptySeq DEF ChunksWellFormed
    <3> QED
      BY <3>1
  <2>4. message.chunks[1].at = message.head /\ message.chunks[1].before = 0
    BY <2>2 DEF ChunksWellFormed
  <2>5. SubSeq(message.body, 1, 0) = <<>>
    BY SubSeqEmpty
  <2>6. parser'.offset + parser'.body_offset = message.chunks[1].at
    BY <1>9, <1>12, <2>1, <2>4
  <2> QED
    BY <1>1, <1>9, <1>11, <1>12, <2>3, <2>4, <2>5, <2>6 DEF AtChunk
<1>16. AtBody'
  <2>1. message' = message /\ read' = read /\ answer' = answer /\ Collected' = <<>>
    BY <1>7, <1>11, <1>12
  <2>2. parser'.headers = HeadersOf(message')
    BY <1>9, <1>10, <2>1
  <2>3. AtOther' /\ answer' # "Done"
    BY <1>9, <1>12, <2>1 DEF AtOther
  <2> QED
    BY <1>1, <1>9, <1>13, <1>14, <1>15, <2>1, <2>2, <2>3 DEF AtBody
<1> QED
  BY <1>1, <1>7, <1>9, <1>11, <1>12, <1>16, ReadFitsKept
     DEF Underway, ParsedAsWritten, ParseStep

LEMMA HeaderStep ==
  ASSUME Underway, AtHeader, ParseStep
  PROVE  ParsedAsWritten'
<1>1. PICK j \in 2 .. Len(message.lines) :
        line = message.lines[j] /\ parser.headers = SubSeq(HeadersOf(message), 1, j - 2)
  BY DEF AtHeader
<1>2. Len(message.lines) \in Nat
  BY LinesCount DEF Underway, Fed
<1>3. CASE j = Len(message.lines)
  BY <1>1, <1>2, <1>3, BlankStep
<1>4. CASE j # Len(message.lines)
  <2>1. PICK k \in Nat : k = j - 1
    BY <1>1, <1>2
  <2>2. k \in 1 .. Len(message.lines) - 2 /\ k + 1 = j /\ k - 1 = j - 2
    BY <1>1, <1>2, <1>4, <2>1
  <2> QED
    BY <1>1, <2>2, NextHeader
<1> QED
  BY <1>3, <1>4

-----------------------------------------------------------------------------
(* The content: which kind of one a message has, and that the parser finds  *)
(* out.                                                                     *)
LEMMA ContentKinds ==
  ASSUME WellFormed(message)
  PROVE  /\ \/ HasNoBody(message) \/ HasOtherBody(message)
            \/ HasLength(message) \/ HasChunks(message)
         /\ HasNoBody(message) =>
              /\ ~ HasOtherBody(message) /\ ~ HasLength(message) /\ ~ HasChunks(message)
              /\ IsEmpty(message) /\ message.result = "Done"
         /\ HasOtherBody(message) =>
              /\ ~ HasLength(message) /\ ~ HasChunks(message)
              /\ IsEmpty(message) /\ message.result = "TODO"
         /\ HasLength(message) =>
              ~ HasChunks(message) /\ LengthWellFormed(message) /\ message.result = "Done"
         /\ HasChunks(message) => ChunksWellFormed(message) /\ message.result = "Done"
<1>1. ContentWellFormed(message)
  BY DEF WellFormed
<1>2. <<"identity">> # <<"chun", "ked">>
  OBVIOUS
<1>3. ~ (IsIdentity(message) /\ IsChunked(message))
  BY <1>2 DEF IsIdentity, IsChunked
<1> QED
  BY <1>1, <1>3
     DEF ContentWellFormed, HasNoBody, HasOtherBody, HasLength, HasChunks, IsUnsupported

LEMMA BodyKnown ==
  ASSUME StartKnown, parser.headers = HeadersOf(message)
  PROVE  /\ WantsBody <=> ~ HasNoBody(message)
         /\ \A key : Having(key) = With(message, key) /\ HeaderValue(key) = ValueOf(message, key)
         /\ EncodingText = <<"identity">> <=> IsIdentity(message)
         /\ EncodingText = <<"chun", "ked">> <=> IsChunked(message)
<1>1. WantsBody <=> ~ HasNoBody(message)
  BY DEF StartKnown, WantsBody, HasNoBody, MayHaveBody
<1>2. \A key : Having(key) = With(message, key)
  BY DEF Having, With
<1>3. \A key : HeaderValue(key) = ValueOf(message, key)
  BY <1>2 DEF HeaderValue, ValueOf
<1>4. <<"identity">> # <<"chun", "ked">>
  OBVIOUS
<1> QED
  BY <1>1, <1>2, <1>3, <1>4 DEF EncodingText, IsIdentity, IsChunked

LEMMA RestIs ==
  ASSUME Fed, WellFormed(message), NEW from \in Nat, from <= read
  PROVE  Rest(from) = read - from
<1>1. /\ input.length = read /\ read \in Nat /\ read < SIZE_VALUES
      /\ SIZE_VALUES \in Nat \ {0}
  <2>1. input.length = read /\ read \in 0 .. Len(message.bytes) /\ Len(message.bytes) \in Nat
    BY MessageTypes DEF Fed, MessageInv, InputIsMessage
  <2> QED
    BY <2>1, HttpParserAssumption DEF WellFormed
<1>2. \A n \in Nat : n < SIZE_VALUES => n % SIZE_VALUES = n
  BY <1>1
<1>3. read - from \in Nat /\ read - from < SIZE_VALUES
  BY <1>1
<1> QED
  BY <1>1, <1>2, <1>3 DEF Rest

(* The types of the message's numbers and of the body's state. *)
LEMMA BodyTypes ==
  ASSUME Underway
  PROVE  /\ message.head \in Nat /\ message.needed \in Nat
         /\ message.body \in Seq(Symbols) /\ Len(message.body) \in Nat
         /\ message.chunks \in Seq(ChunkPlace)
         /\ read \in Nat /\ read <= Len(message.bytes) /\ Len(message.bytes) \in Nat
         /\ read <= input.capacity /\ input.capacity \in Nat
         /\ parser \in HTTP_Parser /\ parser.offset \in Nat /\ parser.body_offset \in Nat
         /\ TextOf(buf) \in Seq(Bytes) /\ (call.at = "none" <=> call.bytes = <<>>)
<1>1. message \in Message /\ CallersInv /\ ParserInv /\ InputIsMessage
  BY MessageTypes DEF Underway, Fed, CallersInv, MessageInv
<1>2. /\ message.head \in Nat /\ message.needed \in Nat
      /\ message.body \in Seq(Symbols) /\ message.chunks \in Seq(ChunkPlace)
  BY <1>1 DEF Message
<1>3. read \in 0 .. Len(message.bytes) /\ Len(message.bytes) \in Nat
  BY <1>1, MessageTypes
<1>4. input.length = read /\ input.capacity \in Nat /\ input.length \in 0 .. input.capacity
  BY <1>1 DEF ParserInv, InputFits, InputIsMessage
<1>5. parser \in HTTP_Parser /\ parser.offset \in Nat /\ parser.body_offset \in Nat
  BY <1>1 DEF ParserInv, HTTP_Parser
<1>6. StringBufferTypeOK
  BY <1>1 DEF ParserInv, BufferInv
<1>7. TextOf(buf) \in Seq(Bytes)
  BY <1>6, TextIsSeq DEF StringBufferTypeOK
<1> QED
  BY <1>2, <1>3, <1>4, <1>5, <1>6, <1>7, LenProperties DEF StringBufferTypeOK

(* The steps the parser has at a body, by what it has to do with it. *)
LEMMA BodySteps ==
  ASSUME ParserStep, at = "body"
  PROVE  /\ ~ WantsBody => ParseNoBody
         /\ WantsBody /\ Unsupported => ParseUnsupported
         /\ WantsBody /\ Encoding = "Identity" /\ ~ Unsupported =>
              \/ EmptyIdentity \/ ShortIdentity \/ WholeIdentity
              \/ /\ Enough(Rest(parser.offset), ContentLength)
                 /\ parser.offset + ContentLength > input.capacity
         /\ WantsBody /\ Encoding = "Chunked" =>
              ShortChunk \/ LastChunk \/ WholeChunk \/ FailChunk \/ ReadOutside
<1>1. \/ ParseNoBody \/ ParseUnsupported \/ EmptyIdentity \/ ShortIdentity \/ WholeIdentity
      \/ ShortChunk \/ LastChunk \/ WholeChunk \/ FailChunk
      \/ ReadOutside
  BY StepsAt
<1>2. /\ ParseNoBody => ~ WantsBody
      /\ ParseUnsupported => WantsBody /\ Unsupported
      /\ EmptyIdentity \/ ShortIdentity \/ WholeIdentity =>
           WantsBody /\ Encoding = "Identity" /\ ~ Unsupported
      /\ ShortChunk \/ LastChunk \/ WholeChunk \/ FailChunk => WantsBody /\ Encoding = "Chunked"
  BY DEF ParseNoBody, ParseUnsupported, EmptyIdentity, ShortIdentity, WholeIdentity, InIdentity,
         ShortChunk, LastChunk, WholeChunk, FailChunk, InSized, InChunks, InBody
<1>3. ReadOutside =>
        \/ WantsBody /\ Encoding = "Chunked"
        \/ /\ WantsBody /\ Encoding = "Identity" /\ ~ Unsupported
           /\ Enough(Rest(parser.offset), ContentLength)
           /\ parser.offset + ContentLength > input.capacity
  BY DEF ReadOutside, InIdentity, InSized, InChunks, InBody
<1>4. Unsupported => Encoding # "Chunked"
  BY DEF Unsupported
<1> QED
  BY <1>1, <1>2, <1>3, <1>4

(* The parser is done with the message. *)
LEMMA DoneKept ==
  ASSUME Underway, ParseStep, AtBody,
         parser'.state = "Parsing_Done", Answer("Done"), call'.at = "none",
         Collected' = message.body, message.result = "Done", read >= message.needed
  PROVE  ParsedAsWritten'
<1>1. UNCHANGED <<message, read, task, whole, safe>> /\ task = "parsing"
  BY DEF ParseStep, driverVars, Underway, Fed
<1>2. at' = "idle" /\ answer' = "Done" /\ fate' = fate
  BY DEF Answer
<1>3. AtEnd' /\ ~ AtStart' /\ ~ AtHeader'
  BY <1>1, <1>2 DEF AtEnd, AtStart, AtHeader
<1> QED
  BY <1>1, <1>2, <1>3, ReadFitsKept DEF Underway, ParsedAsWritten, ParseStep

(* The parser stays at the body. *)
LEMMA BodyStays ==
  ASSUME Underway, ParseStep, AtBody', at' # "append" => call'.at = "none",
         fate' = fate \/ (HasChunks(message) /\ ~ safe)
  PROVE  ParsedAsWritten'
<1>1. UNCHANGED <<message, read, task, whole, safe>>
  BY DEF ParseStep, driverVars
<1>2. ~ AtStart' /\ ~ AtHeader'
  BY DEF AtBody, AtStart, AtHeader
<1> QED
  BY <1>1, <1>2, ReadFitsKept DEF Underway, ParsedAsWritten, ParseStep

LEMMA NoBodyStep ==
  ASSUME Underway, AtBody, ParseStep, HasNoBody(message)
  PROVE  ParsedAsWritten'
<1>1. at = "body" /\ Collected = <<>> /\ ~ WantsBody
  BY BodyKnown DEF AtBody
<1>2. ParseNoBody
  BY <1>1, BodySteps DEF ParseStep
<1>3. /\ parser' = [parser EXCEPT !.state = "Parsing_Done"] /\ Answer("Done")
      /\ UNCHANGED <<buf, call>>
  BY <1>2 DEF ParseNoBody, bufferVars
<1>4. parser'.state = "Parsing_Done" /\ call'.at = "none" /\ Collected' = <<>>
  BY <1>1, <1>3, BodyTypes DEF HTTP_Parser, Underway, ParsedAsWritten, Collected
<1>5. message.body = <<>> /\ message.result = "Done" /\ read >= message.needed
  BY ContentKinds DEF Underway, IsEmpty, AtBody
<1> QED
  BY <1>3, <1>4, <1>5, DoneKept

LEMMA OtherBodyStep ==
  ASSUME Underway, AtBody, ParseStep, HasOtherBody(message)
  PROVE  ParsedAsWritten'
<1>1. /\ UNCHANGED <<message, read, task, whole, safe>> /\ task = "parsing"
      /\ ~ HasNoBody(message) /\ ~ HasLength(message) /\ ~ HasChunks(message)
  BY ContentKinds DEF ParseStep, driverVars, Underway, Fed
<1>2. at = "body" /\ Collected = <<>> /\ parser.encoding = "unset"
  <2>1. at # "idle"
    BY StepsAt DEF ParseStep
  <2> QED
    BY <2>1 DEF AtBody, AtOther
<1>3. WantsBody /\ Unsupported
  <2>1. ~ IsChunked(message) /\ (~ IsIdentity(message) \/ With(message, "Content-Length") = {})
    BY DEF HasOtherBody, IsUnsupported
  <2>2. WantsBody /\ Having("Content-Length") = With(message, "Content-Length")
        /\ (EncodingText = <<"identity">> <=> IsIdentity(message))
        /\ (EncodingText = <<"chun", "ked">> <=> IsChunked(message))
    BY <1>1, BodyKnown DEF AtBody
  <2>3. CASE EncodingText = <<"identity">>
    BY <1>2, <2>1, <2>2, <2>3 DEF Unsupported, Encoding
  <2>4. CASE EncodingText # <<"identity">>
    <3>1. Encoding \in {"Gzip", "unset"}
      BY <1>2, <2>1, <2>2, <2>4 DEF Encoding
    <3> QED
      BY <2>2, <3>1 DEF Unsupported
  <2> QED
    BY <2>3, <2>4
<1>4. /\ parser' = WithEncoding /\ Answer("TODO") /\ UNCHANGED <<buf, call>>
  BY <1>2, <1>3, BodySteps DEF ParseStep, ParseUnsupported, bufferVars
<1>5. /\ parser'.state = parser.state /\ parser'.headers = parser.headers
      /\ parser'.offset = parser.offset
      /\ parser'.type = parser.type /\ parser'.method = parser.method
  BY <1>4, BodyTypes, EncodingType DEF WithEncoding, HTTP_Parser
<1>6. at' = "idle" /\ answer' = "TODO" /\ fate' = fate /\ Collected' = <<>> /\ call'.at = "none"
  BY <1>2, <1>4 DEF Answer, Underway, ParsedAsWritten, Collected
<1>7. AtOther' /\ StartKnown' /\ parser'.headers = HeadersOf(message')
  BY <1>1, <1>5, <1>6 DEF AtOther, AtBody, StartKnown
<1>8. AtBody'
  BY <1>1, <1>5, <1>6, <1>7 DEF AtBody
<1> QED
  BY <1>6, <1>8, BodyStays

-----------------------------------------------------------------------------
(* A body with a length. *)
LEMMA LengthKnown ==
  ASSUME Underway, AtBody, HasLength(message)
  PROVE  /\ WantsBody /\ Encoding = "Identity" /\ ~ Unsupported
         /\ ContentLength = Len(message.body)
         /\ message.needed = message.head + Len(message.body)
         /\ SubSeq(message.bytes, message.head + 1, message.needed) = message.body
         /\ message.result = "Done"
         /\ ~ HasNoBody(message) /\ ~ HasOtherBody(message) /\ ~ HasChunks(message)
<1>1. /\ LengthWellFormed(message) /\ message.result = "Done"
      /\ ~ HasNoBody(message) /\ ~ HasOtherBody(message) /\ ~ HasChunks(message)
  BY ContentKinds DEF Underway
<1>2. /\ WantsBody /\ (EncodingText = <<"identity">> <=> IsIdentity(message))
      /\ Having("Content-Length") = With(message, "Content-Length")
      /\ HeaderValue("Content-Length") = ValueOf(message, "Content-Length")
  BY <1>1, BodyKnown DEF AtBody
<1>3. IsIdentity(message) /\ With(message, "Content-Length") # {}
  BY DEF HasLength
<1>4. Encoding = "Identity"
  BY <1>2, <1>3 DEF AtBody, AtLength, Encoding
<1>5. ~ Unsupported
  BY <1>2, <1>3, <1>4 DEF Unsupported
<1> QED
  BY <1>1, <1>2, <1>4, <1>5 DEF LengthWellFormed, ContentLength

(* The parser looks at the body. *)
LEMMA LengthLook ==
  ASSUME Underway, AtBody, ParseStep, HasLength(message), at = "body"
  PROVE  ParsedAsWritten'
<1>1. UNCHANGED <<message, read, task, whole, safe>> /\ task = "parsing"
  BY DEF ParseStep, driverVars, Underway, Fed
<1> DEFINE n == Len(message.body)
<1>2. /\ message.head \in Nat /\ n \in Nat /\ read \in Nat /\ message.needed = message.head + n
      /\ message.head <= read /\ read <= input.capacity /\ input.capacity \in Nat
      /\ parser.offset = message.head /\ ContentLength = n
      /\ message.result = "Done"
  BY BodyTypes, LengthKnown DEF AtBody
<1>3. Rest(parser.offset) = read - message.head
  BY <1>2, RestIs DEF Underway
<1>4. Collected = <<>> /\ call.at = "none" /\ TextOf(buf) = <<>>
  <2>1. Collected = <<>> /\ call.at = "none"
    BY DEF AtBody, AtLength, Underway, ParsedAsWritten
  <2>2. call.bytes = <<>> /\ TextOf(buf) \in Seq(Bytes)
    BY <2>1, BodyTypes
  <2> QED
    BY <2>1, <2>2, ConcatEmptySeq DEF Collected
<1>5. EmptyIdentity \/ ShortIdentity \/ WholeIdentity
  <2>1. ~ (Enough(Rest(parser.offset), ContentLength)
             /\ parser.offset + ContentLength > input.capacity)
    BY <1>2, <1>3 DEF Enough
  <2> QED
    BY <2>1, LengthKnown, BodySteps DEF ParseStep
<1>6. parser \in HTTP_Parser
  BY BodyTypes
<1>7. CASE EmptyIdentity
  <2>1. BodyDone /\ Answer("Done") /\ UNCHANGED <<buf, call>> /\ n = 0
    BY <1>2, <1>7 DEF EmptyIdentity, bufferVars
  <2>2. parser'.state = "Parsing_Done"
    BY <1>6, <2>1 DEF BodyDone, HTTP_Parser
  <2>3. message.body = <<>> /\ read >= message.needed
    BY <1>2, <2>1, BodyTypes, EmptySeq
  <2> QED
    BY <1>2, <1>4, <2>1, <2>2, <2>3, DoneKept DEF Collected
<1>8. CASE ShortIdentity
  <2>1. parser' = WithEncoding /\ Answer("Needs_More_Data") /\ UNCHANGED <<buf, call>>
    BY <1>8 DEF ShortIdentity, bufferVars
  <2>2. read < message.needed
    BY <1>2, <1>3, <1>8 DEF ShortIdentity, Enough
  <2>3. /\ parser'.state = parser.state /\ parser'.headers = parser.headers
        /\ parser'.offset = parser.offset /\ parser'.encoding = "Identity"
        /\ parser'.type = parser.type /\ parser'.method = parser.method
    BY <1>6, <2>1, LengthKnown DEF WithEncoding, HTTP_Parser
  <2>4. /\ at' = "idle" /\ answer' = "Needs_More_Data" /\ fate' = fate
        /\ Collected' = <<>> /\ call'.at = "none"
    BY <1>4, <2>1 DEF Answer, Collected
  <2>5. AtLength' /\ AwaitsMore' /\ StartKnown' /\ parser'.headers = HeadersOf(message')
    BY <1>1, <2>2, <2>3, <2>4 DEF AtLength, AwaitsMore, AtBody, StartKnown
  <2>6. ~ HasNoBody(message)' /\ ~ HasOtherBody(message)' /\ ~ HasChunks(message)'
    BY <1>1, LengthKnown
  <2>7. AtBody'
    BY <1>1, <2>3, <2>4, <2>5, <2>6 DEF AtBody
  <2> QED
    BY <2>4, <2>7, BodyStays
<1>9. CASE WholeIdentity
  <2>1. /\ Take(parser.offset, ContentLength, parser.body_offset)
        /\ Enough(Rest(parser.offset), ContentLength)
    BY <1>9 DEF WholeIdentity
  <2>2. read >= message.needed
    BY <1>2, <1>3, <2>1 DEF Enough
  <2>3. Piece(parser.offset, ContentLength) = message.body
    <3>1. PICK to \in Nat : to = message.head + n
      BY <1>2
    <3>2. to <= read /\ message.head <= to /\ to - message.head = n
      BY <1>2, <2>2, <3>1
    <3>3. Piece(message.head, to - message.head) = SubSeq(message.bytes, message.head + 1, to)
      BY <1>2, <3>2, PieceIs DEF Underway
    <3> QED
      BY <1>2, <3>1, <3>2, <3>3, LengthKnown
  <2>4. /\ call'.bytes = message.body /\ buf' = buf
        /\ at' = "append" /\ UNCHANGED <<answer, fate>>
        /\ parser' = [parser EXCEPT !.encoding = "Identity", !.body_offset = parser.body_offset]
    BY <2>1, <2>3, LengthKnown DEF Take, string_buffer_append_buf, Silent
  <2>5. Collected' = message.body
    BY <1>4, <2>4, BodyTypes, ConcatEmptySeq DEF Collected
  <2>6. /\ parser'.state = parser.state /\ parser'.headers = parser.headers
        /\ parser'.offset = parser.offset /\ parser'.encoding = "Identity"
        /\ parser'.type = parser.type /\ parser'.method = parser.method
    BY <1>6, <2>4 DEF HTTP_Parser
  <2>7. AtLength' /\ StartKnown' /\ parser'.headers = HeadersOf(message')
    BY <1>1, <2>2, <2>4, <2>5, <2>6 DEF AtLength, AtBody, StartKnown
  <2>8. ~ HasNoBody(message)' /\ ~ HasOtherBody(message)' /\ ~ HasChunks(message)'
    BY <1>1, LengthKnown
  <2>9. AtBody'
    BY <1>1, <2>4, <2>6, <2>7, <2>8 DEF AtBody
  <2> QED
    BY <2>4, <2>9, BodyStays
<1> QED
  BY <1>5, <1>7, <1>8, <1>9

(* An append that goes on changes nothing the invariant is about. *)
LEMMA AppendGoesOn ==
  ASSUME Underway, AtBody, ParseStep, at = "append", AppendStep,
         UNCHANGED <<parser, at, line, answer, fate>>
  PROVE  ParsedAsWritten'
<1>1. UNCHANGED <<message, read, task, whole, safe>>
  BY DEF ParseStep, driverVars
<1>2. Collected' = Collected
  BY AppendKeepsPromised DEF Promised, Collected, Underway, Fed, CallersInv, ParserInv
<1>3. HasLength(message) => AtLength'
  BY <1>1, <1>2 DEF AtBody, AtLength
<1>4. HasChunks(message) => AtChunk'
  BY <1>1, <1>2 DEF AtBody, AtChunk
<1>5. AtBody'
  <2>1. StartKnown' /\ parser'.headers = HeadersOf(message')
    BY <1>1 DEF AtBody, StartKnown
  <2>2. ~ HasNoBody(message') /\ ~ HasOtherBody(message')
    BY <1>1 DEF AtBody, AtOther
  <2> QED
    BY <1>1, <1>3, <1>4, <2>1, <2>2 DEF AtBody
<1> QED
  BY <1>5, BodyStays

(* All of a body with a length was appended. *)
LEMMA LengthAppended ==
  ASSUME Underway, AtBody, ParseStep, HasLength(message), AfterAppend
  PROVE  ParsedAsWritten'
<1>1. /\ at = "append" /\ call.at = "none" /\ UNCHANGED <<buf, call>>
      /\ parser.encoding = "Identity" /\ Collected = message.body /\ read >= message.needed
  BY DEF AfterAppend, bufferVars, AtBody, AtLength
<1>2. BodyDone /\ Answer("Done")
  BY <1>1 DEF AfterAppend
<1>3. parser'.state = "Parsing_Done"
  BY <1>2, BodyTypes DEF BodyDone, HTTP_Parser
<1> QED
  BY <1>1, <1>2, <1>3, LengthKnown, DoneKept DEF Collected

LEMMA LengthStep ==
  ASSUME Underway, AtBody, ParseStep, HasLength(message)
  PROVE  ParsedAsWritten'
<1>1. \/ at = "body"
      \/ at = "append" /\ AfterAppend
      \/ at = "append" /\ AppendStep /\ UNCHANGED <<parser, at, line, answer, fate>>
  BY StepsAt DEF ParseStep, AtBody
<1> QED
  BY <1>1, LengthLook, LengthAppended, AppendGoesOn

-----------------------------------------------------------------------------
LEMMA UnderwayIn == Underway => CallersInv /\ WellFormed(message)
  BY DEF Underway, Fed

(* A body in chunks: where they are. *)
LEMMA ChunkPlaces ==
  ASSUME CallersInv, WellFormed(message), HasChunks(message), NEW k \in DOMAIN message.chunks
  PROVE  LET c == message.chunks[k]
         IN  /\ c.at \in Nat /\ c.data \in Nat /\ c.size \in Nat /\ c.before \in Nat
             /\ c.at + 2 < c.data /\ c.data - 2 - c.at < SIZE_TEXT_LIMIT
             /\ IsSizeLine(message, c) /\ IsData(message, c)
             /\ c.data + c.size <= message.needed
             /\ k \in Nat /\ k <= Len(message.chunks) /\ Len(message.chunks) \in Nat
             /\ DOMAIN message.chunks = 1 .. Len(message.chunks)
             /\ IF k = Len(message.chunks)
                THEN c.size = 0 /\ message.needed = c.data /\ c.before = Len(message.body)
                ELSE /\ c.size > 0 /\ k + 1 \in DOMAIN message.chunks
                     /\ message.chunks[k + 1].at = c.data + c.size + 2
                     /\ message.chunks[k + 1].before = c.before + c.size
<1> DEFINE c == message.chunks[k]
<1>1. message.chunks \in Seq(ChunkPlace)
  BY MessageTypes DEF Message
<1>2. /\ Len(message.chunks) \in Nat /\ DOMAIN message.chunks = 1 .. Len(message.chunks)
      /\ c \in ChunkPlace
  BY <1>1, LenProperties, ElementOfSeq
<1>3. c.at \in Nat /\ c.data \in Nat /\ c.size \in Nat /\ c.before \in Nat
  BY <1>2 DEF ChunkPlace
<1>4. ChunksWellFormed(message)
  BY ContentKinds
<1>5. IsSizeLine(message, c) /\ IsData(message, c)
  BY <1>4 DEF ChunksWellFormed
<1>6. IF k = Len(message.chunks)
      THEN c.size = 0 /\ message.needed = c.data /\ c.before = Len(message.body)
      ELSE /\ c.size > 0
           /\ message.chunks[k + 1].at = c.data + c.size + 2
           /\ message.chunks[k + 1].before = c.before + c.size
  BY <1>4 DEF ChunksWellFormed
<1>7. /\ c.at < c.data - 2 /\ c.data - 2 - c.at < SIZE_TEXT_LIMIT
      /\ c.data + c.size <= message.needed
  BY <1>5 DEF IsSizeLine, IsData
<1> HIDE DEF c
<1>8. c.at + 2 < c.data
  BY <1>3, <1>7
<1>9. k \in Nat /\ k <= Len(message.chunks)
      /\ (k # Len(message.chunks) => k + 1 \in DOMAIN message.chunks)
  BY <1>2
<1> QED
  BY <1>2, <1>3, <1>5, <1>6, <1>7, <1>8, <1>9 DEF c

(* Where the loop over a chunk's size stops. *)
LEMMA SizeEndStops ==
  ASSUME InputFits, parser \in HTTP_Parser
  PROVE  \E last \in Nat :
           /\ last \in {Rest(Chunk), SIZE_TEXT_LIMIT}
           /\ last <= Rest(Chunk) /\ last <= SIZE_TEXT_LIMIT
           /\ SizeEnd \in 0 .. last
           /\ SizeEnd = last \/ Byte(Chunk + SizeEnd) = CR
           /\ \A k \in 0 .. last : Byte(Chunk + k) = CR => SizeEnd <= k
<1> DEFINE last == Min({Rest(Chunk), SIZE_TEXT_LIMIT})
           ends == {k \in 0 .. last : k = last \/ Byte(Chunk + k) = CR}
<1>1. Rest(Chunk) \in Nat /\ SIZE_TEXT_LIMIT \in Nat
  BY ChunkType, RestType, HttpParserAssumption
<1>2. {Rest(Chunk), SIZE_TEXT_LIMIT} \in SUBSET Nat /\ {Rest(Chunk), SIZE_TEXT_LIMIT} # {}
  BY <1>1
<1>3. /\ last \in {Rest(Chunk), SIZE_TEXT_LIMIT} /\ last \in Nat
      /\ last <= Rest(Chunk) /\ last <= SIZE_TEXT_LIMIT
  BY <1>2, MinOf
<1>4. SizeEnd = Min(ends)
  BY DEF SizeEnd
<1> HIDE DEF last
<1>5. ends \in SUBSET Nat /\ last \in ends
  BY <1>3
<1>6. Min(ends) \in ends /\ \A k \in ends : Min(ends) <= k
  BY <1>5, MinOf
<1>7. \A k \in 0 .. last : Byte(Chunk + k) = CR => k \in ends
  OBVIOUS
<1> QED
  BY <1>3, <1>4, <1>6, <1>7

(* A digit is not white space. *)
LEMMA DigitIsVisible == \A d \in DOMAIN DigitValue : d # CR /\ d # LF
  BY DEF DigitValue, CR, LF

(* Nothing is skipped in front of a digit. *)
LEMMA DigitsFound ==
  ASSUME NEW S, NEW text \in Seq(S), text # <<>>, text[1] \in DOMAIN DigitValue
  PROVE  Digits(text) # <<>>
<1>1. Len(text) \in Nat \ {0}
  BY LenProperties, EmptySeq
<1>2. Leading(text, {CR, LF}) = 0
  <2>1. PICK n : n = Leading(text, {CR, LF})
    OBVIOUS
  <2>2. n \in 0 .. Len(text) /\ \A j \in 1 .. n : text[j] \in {CR, LF}
    BY <2>1, LeadingIs
  <2>3. text[1] \notin {CR, LF}
    BY DigitIsVisible
  <2>4. n = 0
    BY <1>1, <2>2, <2>3
  <2> QED
    BY <2>1, <2>4
<1>3. Skipped(text) = text
  <2>1. PICK n \in Nat : n = Len(text)
    BY <1>1
  <2>2. \A j \in 1 .. n : text[j] \in S
    BY <2>1, LenProperties
  <2>3. /\ SubSeq(text, 1, n) \in Seq(S) /\ Len(SubSeq(text, 1, n)) = n
        /\ \A j \in 1 .. n : SubSeq(text, 1, n)[j] = text[j]
    BY <2>1, <2>2, SubSeqProperties
  <2>4. SubSeq(text, 1, n) = text
    BY <2>1, <2>3, SeqEqual
  <2>5. PICK from : from = Leading(text, {CR, LF}) + 1
    OBVIOUS
  <2>6. from = 1
    BY <1>2, <2>5
  <2> QED
    BY <2>1, <2>4, <2>5, <2>6 DEF Skipped
<1>4. PICK n : n = Leading(text, DOMAIN DigitValue)
  OBVIOUS
<1>5. n \in 1 .. Len(text)
  BY <1>1, <1>4, LeadingIs
<1>6. \A j \in 1 .. n : text[j] \in S
  BY <1>1, <1>5, LenProperties
<1>7. n \in Nat /\ Len(SubSeq(text, 1, n)) = n
  BY <1>1, <1>5, <1>6, SubSeqProperties
<1>8. SubSeq(text, 1, n) # <<>>
  BY <1>1, <1>5, <1>7, EmptySeq
<1> QED
  BY <1>3, <1>4, <1>8 DEF Digits

(* A chunk whose size line was received is found as it is written. *)
LEMMA SizeLineReceived ==
  ASSUME Underway, HasChunks(message), NEW k \in DOMAIN message.chunks,
         Chunk = message.chunks[k].at, message.chunks[k].data <= read
  PROVE  LET c == message.chunks[k]
         IN  /\ SizeEnd = c.data - 2 - c.at
             /\ ChunkLength = c.size /\ ChunkStart = c.data
             /\ Rest(c.data) = read - c.data
             /\ HasSizeLine /\ ~ SizeOutside /\ SizeFormat /\ Digits(SizeText) # <<>>
<1> DEFINE from == message.chunks[k].at
           data == message.chunks[k].data
           size == message.chunks[k].size
<1>1. /\ from \in Nat /\ data \in Nat /\ from + 2 < data /\ data - 2 - from < SIZE_TEXT_LIMIT
      /\ IsSizeLine(message, message.chunks[k])
      /\ read \in Nat /\ read <= Len(message.bytes) /\ Len(message.bytes) \in Nat
      /\ data <= read
  BY UnderwayIn, ChunkPlaces, BodyTypes
<1>2. Fed /\ WellFormed(message) /\ CallersInv /\ InputFits /\ parser \in HTTP_Parser
      /\ SIZE_TEXT_LIMIT \in Nat
  BY HttpParserAssumption DEF Underway, Fed, CallersInv, ParserInv
<1>3. /\ \A j \in from .. data - 3 : Sym(message, j) \in DOMAIN DigitValue
      /\ Sym(message, data - 2) = CR /\ Sym(message, data - 1) = LF
      /\ Number(SubSeq(message.bytes, from + 1, data - 2), 16) = size
  BY <1>1 DEF IsSizeLine
<1>4. PICK e \in Nat : e = data - 2 - from
  BY <1>1
<1> HIDE DEF from, data, size
<1>5. e > 0 /\ from + e = data - 2 /\ from + e + 1 = data - 1 /\ from + e + 2 = data
      /\ e < SIZE_TEXT_LIMIT
  BY <1>1, <1>4
<1>6. \A j \in Nat : j < data => Byte(j) = Sym(message, j) /\ Byte(j) # Outside
  <2>1. \A j \in Nat : j < data => j < read
    BY <1>1
  <2> QED
    BY <1>2, <2>1, ByteIs
<1>7. Rest(from) = read - from /\ Rest(data) = read - data
  BY <1>1, <1>2, RestIs
<1>8. Chunk = from
  BY DEF from
<1>9. Byte(from + e) = CR /\ Byte(from + e + 1) = LF /\ Byte(from + e + 1) # Outside
  BY <1>1, <1>3, <1>5, <1>6
<1>10. \A j \in 0 .. e - 1 : Byte(from + j) \in DOMAIN DigitValue
  <2> SUFFICES ASSUME NEW j \in 0 .. e - 1 PROVE Byte(from + j) \in DOMAIN DigitValue
    OBVIOUS
  <2>1. from + j \in from .. data - 3 /\ from + j \in Nat /\ from + j < data
    BY <1>1, <1>5
  <2> QED
    BY <1>3, <1>6, <2>1
<1>11. SizeEnd = e
  <2>1. PICK last \in Nat :
          /\ last \in {Rest(Chunk), SIZE_TEXT_LIMIT}
          /\ SizeEnd \in 0 .. last
          /\ SizeEnd = last \/ Byte(Chunk + SizeEnd) = CR
          /\ \A j \in 0 .. last : Byte(Chunk + j) = CR => SizeEnd <= j
    BY <1>2, SizeEndStops
  <2>2. e < last
    BY <1>1, <1>5, <1>7, <1>8, <2>1
  <2>3. e \in 0 .. last /\ SizeEnd <= e
    <3>1. e \in 0 .. last
      BY <2>2
    <3> QED
      BY <1>8, <1>9, <2>1, <3>1
  <2>4. Byte(from + SizeEnd) = CR
    BY <1>8, <2>1, <2>2, <2>3
  <2>5. SizeEnd \notin 0 .. e - 1
    BY <1>10, <2>4, DigitIsVisible
  <2> QED
    BY <2>1, <2>3, <2>5
<1>12. SizeText = SubSeq(message.bytes, from + 1, data - 2)
  <2>1. PICK to \in Nat : to = data - 2
    BY <1>1
  <2>2. from <= to /\ to <= read /\ to - from = e
    BY <1>1, <1>4, <2>1
  <2>3. Piece(from, to - from) = SubSeq(message.bytes, from + 1, to)
    BY <1>1, <1>2, <2>2, PieceIs
  <2> QED
    BY <1>8, <1>11, <2>1, <2>2, <2>3 DEF SizeText
<1>13. ChunkLength = size /\ ChunkStart = data
  BY <1>1, <1>3, <1>5, <1>8, <1>11, <1>12 DEF ChunkLength, ChunkStart
<1>14. HasSizeLine
  BY <1>1, <1>7, <1>8 DEF HasSizeLine
<1>15. ~ SizeOutside
  <2>1. \A j \in 0 .. e : Byte(from + j) # Outside
    <3>1. \A j \in 0 .. e : from + j \in Nat /\ from + j < data
      BY <1>1, <1>5
    <3> QED
      BY <1>6, <3>1
  <2> QED
    BY <1>8, <1>9, <1>11, <2>1 DEF SizeOutside
<1>16. SizeFormat
  BY <1>5, <1>8, <1>9, <1>11 DEF SizeFormat
<1>17. Digits(SizeText) # <<>>
  <2>1. PICK to \in Nat : to = data - 2
    BY <1>1
  <2>2. from <= to /\ to <= Len(message.bytes) /\ to - from = e
    BY <1>1, <1>4, <2>1
  <2>3. /\ SizeText \in Seq(Symbols) /\ Len(SizeText) = e
        /\ \A j \in 1 .. e : SizeText[j] = Sym(message, from + j - 1)
    <3>1. CallersInv /\ from \in Nat /\ from <= to /\ to <= Len(message.bytes)
      BY <1>1, <1>2, <2>2
    <3>2. /\ SubSeq(message.bytes, from + 1, to) \in Seq(Symbols)
          /\ Len(SubSeq(message.bytes, from + 1, to)) = to - from
          /\ \A j \in 1 .. to - from :
               SubSeq(message.bytes, from + 1, to)[j] = Sym(message, from + j - 1)
      BY <3>1, PartOf
    <3>3. SizeText = SubSeq(message.bytes, from + 1, to)
      BY <1>12, <2>1
    <3> QED
      BY <2>2, <3>2, <3>3
  <2>4. 1 \in 1 .. e /\ from + 1 - 1 = from /\ from \in from .. data - 3
    BY <1>1, <1>5
  <2>5. SizeText # <<>> /\ SizeText[1] \in DOMAIN DigitValue
    BY <1>3, <1>5, <2>3, <2>4, EmptySeq
  <2> QED
    BY <2>3, <2>5, DigitsFound
<1> QED
  BY <1>4, <1>7, <1>11, <1>13, <1>14, <1>15, <1>16, <1>17 DEF from, data, size

(* What the parser has at a chunk. *)
LEMMA ChunkKnown ==
  ASSUME Underway, AtBody, HasChunks(message), at = "body"
  PROVE  /\ WantsBody /\ Encoding = "Chunked" /\ message.result = "Done"
         /\ ~ HasNoBody(message) /\ ~ HasOtherBody(message) /\ ~ HasLength(message)
         /\ call.at = "none" /\ call.bytes = <<>> /\ TextOf(buf) = Collected
<1>1. /\ message.result = "Done"
      /\ ~ HasNoBody(message) /\ ~ HasOtherBody(message) /\ ~ HasLength(message)
  BY ContentKinds DEF Underway
<1>2. WantsBody /\ (EncodingText = <<"chun", "ked">> <=> IsChunked(message))
      /\ (EncodingText = <<"identity">> <=> IsIdentity(message))
  BY <1>1, BodyKnown DEF AtBody
<1>3. IsChunked(message) /\ parser.encoding \in {"unset", "Chunked"}
  BY DEF HasChunks, AtBody, AtChunk
<1>4. <<"identity">> # <<"chun", "ked">>
  OBVIOUS
<1>5. Encoding = "Chunked"
  BY <1>2, <1>3, <1>4 DEF Encoding
<1>6. call.at = "none"
  BY DEF Underway, ParsedAsWritten
<1>7. call.bytes = <<>> /\ TextOf(buf) \in Seq(Bytes)
  BY <1>6, BodyTypes
<1>8. TextOf(buf) = Collected
  BY <1>7, ConcatEmptySeq DEF Collected
<1> QED
  BY <1>1, <1>2, <1>5, <1>6, <1>7, <1>8

(* A size line the parser accepts was received: behind the data is only NUL.*)
LEMMA SizedReceived ==
  ASSUME Underway, HasChunks(message), NEW k \in DOMAIN message.chunks,
         Chunk = message.chunks[k].at, SizeFormat
  PROVE  message.chunks[k].data <= read
<1> DEFINE from == message.chunks[k].at
           data == message.chunks[k].data
<1>1. /\ from \in Nat /\ data \in Nat /\ read \in Nat
      /\ IsSizeLine(message, message.chunks[k])
  BY UnderwayIn, ChunkPlaces, BodyTypes
<1>2. \A j \in from .. data - 3 : Sym(message, j) \in DOMAIN DigitValue
  BY <1>1 DEF IsSizeLine
<1>3. Fed /\ InputFits /\ parser \in HTTP_Parser
  BY DEF Underway, Fed, CallersInv, ParserInv
<1>4. SizeEnd \in Nat /\ Chunk = from
  BY <1>3, ChunkType
<1> HIDE DEF from, data
<1>5. PICK stop \in Nat : stop = from + SizeEnd
  BY <1>1, <1>4
<1>6. Byte(stop) = CR /\ Byte(stop + 1) = LF
  BY <1>4, <1>5 DEF SizeFormat
<1>7. stop + 1 < read
  BY <1>1, <1>3, <1>5, <1>6, ByteBehind
<1>8. Byte(stop) = Sym(message, stop)
  BY <1>1, <1>3, <1>5, <1>7, ByteIs
<1>9. stop \notin from .. data - 3
  BY <1>2, <1>6, <1>8, DigitIsVisible
<1>10. from <= stop
  BY <1>1, <1>4, <1>5
<1>11. data <= read
  BY <1>1, <1>5, <1>7, <1>9, <1>10
<1> QED
  BY <1>11 DEF data

(* Only a cut in a size line or behind a chunk ends the process. *)
LEMMA ChunkFails ==
  ASSUME Underway, AtBody, HasChunks(message), at = "body", FailChunk \/ ReadOutside
  PROVE  ~ safe /\ UNCHANGED <<parser, at, answer, buf, call>>
<1>1. UNCHANGED <<parser, at, answer, buf, call>>
  BY DEF FailChunk, ReadOutside, Fail, bufferVars
<1>2. SUFFICES ASSUME safe PROVE FALSE
  BY <1>1
<1>3. PICK k \in DOMAIN message.chunks :
        Chunk = message.chunks[k].at /\ message.chunks[k].at <= read
  BY <1>2 DEF AtBody, AtChunk, Chunk
<1> DEFINE from == message.chunks[k].at
           data == message.chunks[k].data
           size == message.chunks[k].size
<1>4. /\ from \in Nat /\ data \in Nat /\ size \in Nat /\ from + 2 < data
      /\ read \in Nat /\ from <= read /\ read <= input.capacity /\ input.capacity \in Nat
  BY <1>3, UnderwayIn, ChunkPlaces, BodyTypes
<1>5. read \notin from + 2 .. data - 1
  <2>1. read > 0
    BY BodyTypes DEF Underway, Fed, ParsedAsWritten, ReadFits
  <2>2. IsSafeCut(message, read)
    BY <1>2, <2>1 DEF Underway, ParsedAsWritten, ReadFits
  <2> QED
    BY <1>3, <2>2 DEF IsSafeCut, Fragile
<1>6. HasSizeLine
  BY ChunkKnown DEF FailChunk, ReadOutside, InIdentity, InSized, InBody
<1>7. Chunk = from /\ Fed /\ WellFormed(message)
  BY <1>3 DEF Underway
<1>8. Rest(from) = read - from
  BY <1>4, <1>7, RestIs
<1> HIDE DEF from, data, size
<1>9. data <= read
  BY <1>4, <1>5, <1>6, <1>7, <1>8 DEF HasSizeLine
<1>10. /\ ~ SizeOutside /\ SizeFormat /\ Digits(SizeText) # <<>>
       /\ ChunkLength = size /\ ChunkStart = data /\ Rest(data) = read - data
  BY <1>3, <1>9, SizeLineReceived DEF data, size
<1>11. ~ FailChunk
  BY <1>10 DEF FailChunk
<1>12. /\ Enough(Rest(Chunk + SizeEnd + 2), ChunkLength)
       /\ Chunk + SizeEnd + 2 + ChunkLength > input.capacity
  BY <1>10, <1>11, ChunkKnown DEF ReadOutside, InIdentity
<1>13. read - data >= size /\ data + size > input.capacity
  BY <1>10, <1>12 DEF Enough, ChunkStart
<1> QED
  BY <1>4, <1>13

(* No chunk yet, or not all of it: the message goes on. *)
LEMMA ChunkAwaited ==
  ASSUME Underway, AtBody, ParseStep, HasChunks(message), at = "body", ShortChunk
  PROVE  ParsedAsWritten'
<1>1. UNCHANGED <<message, read, task, whole, safe>> /\ task = "parsing"
  BY DEF ParseStep, driverVars, Underway, Fed
<1>2. PICK k \in DOMAIN message.chunks :
        /\ Chunk = message.chunks[k].at
        /\ Collected = SubSeq(message.body, 1, message.chunks[k].before)
        /\ safe => message.chunks[k].at <= read
  BY DEF AtBody, AtChunk, Chunk
<1> DEFINE from == message.chunks[k].at
           data == message.chunks[k].data
           size == message.chunks[k].size
<1>3. /\ from \in Nat /\ data \in Nat /\ size \in Nat /\ from + 2 < data
      /\ read \in Nat /\ message.needed \in Nat /\ data + size <= message.needed
  BY UnderwayIn, ChunkPlaces, BodyTypes
<1>4. Chunk = from /\ Fed /\ WellFormed(message)
  BY <1>2 DEF Underway
<1> HIDE DEF from, data, size
<1>5. read < message.needed
  <2>1. CASE read < from
    BY <1>3, <2>1
  <2>2. CASE from <= read /\ ~ HasSizeLine
    <3>1. Rest(from) = read - from
      BY <1>3, <1>4, <2>2, RestIs
    <3> QED
      BY <1>3, <1>4, <2>2, <3>1 DEF HasSizeLine
  <2>3. CASE HasSizeLine
    <3>1. InSized /\ ~ Enough(Rest(Chunk + SizeEnd + 2), ChunkLength)
      BY <2>3 DEF ShortChunk
    <3>2. SizeFormat
      BY <3>1 DEF InSized
    <3>3. data <= read
      BY <1>2, <3>2, SizedReceived DEF data
    <3>4. ChunkLength = size /\ ChunkStart = data /\ Rest(data) = read - data
      BY <1>2, <3>3, SizeLineReceived DEF data, size
    <3>5. ~ (read - data >= size)
      BY <3>1, <3>4 DEF Enough, ChunkStart
    <3> QED
      BY <1>3, <3>5
  <2> QED
    BY <1>3, <2>1, <2>2, <2>3
<1>6. parser' = WithEncoding /\ Answer("Needs_More_Data") /\ UNCHANGED <<buf, call>>
  BY DEF ShortChunk, bufferVars
<1>7. /\ parser'.state = parser.state /\ parser'.headers = parser.headers
      /\ parser'.offset = parser.offset /\ parser'.encoding = "Chunked"
      /\ parser'.body_offset = parser.body_offset
      /\ parser'.type = parser.type /\ parser'.method = parser.method
  BY <1>6, ChunkKnown, BodyTypes DEF WithEncoding, HTTP_Parser
<1>8. /\ at' = "idle" /\ answer' = "Needs_More_Data" /\ fate' = fate
      /\ Collected' = Collected /\ call'.at = "none"
  BY <1>6, ChunkKnown DEF Answer, Collected
<1>9. AtChunk'
  BY <1>1, <1>2, <1>7, <1>8 DEF AtChunk, Chunk
<1>10. AwaitsMore' /\ StartKnown' /\ parser'.headers = HeadersOf(message')
  BY <1>1, <1>5, <1>7, <1>8 DEF AwaitsMore, AtBody, StartKnown
<1>11. ~ HasNoBody(message') /\ ~ HasOtherBody(message') /\ ~ HasLength(message')
  BY <1>1, ChunkKnown
<1>12. AtBody'
  BY <1>1, <1>7, <1>8, <1>9, <1>10, <1>11 DEF AtBody
<1> QED
  BY <1>8, <1>12, BodyStays

(* A chunk that the parser finds is the one that is written there. *)
LEMMA ChunkFound ==
  ASSUME Underway, HasChunks(message), InSized, NEW k \in DOMAIN message.chunks,
         Chunk = message.chunks[k].at
  PROVE  LET c == message.chunks[k]
         IN  /\ c.data <= read /\ SizeEnd = c.data - 2 - c.at
             /\ ChunkLength = c.size /\ ChunkStart = c.data /\ Rest(c.data) = read - c.data
<1>1. message.chunks[k].data <= read
  BY SizedReceived DEF InSized
<1> QED
  BY <1>1, SizeLineReceived

(* The chunk of no bytes: the message is complete. *)
LEMMA ChunksEnded ==
  ASSUME Underway, AtBody, ParseStep, HasChunks(message), at = "body", LastChunk
  PROVE  ParsedAsWritten'
<1>1. PICK k \in DOMAIN message.chunks :
        /\ Chunk = message.chunks[k].at
        /\ Collected = SubSeq(message.body, 1, message.chunks[k].before)
  BY DEF AtBody, AtChunk, Chunk
<1>2. message.chunks[k].data <= read /\ ChunkLength = message.chunks[k].size
  BY <1>1, ChunkFound DEF LastChunk
<1>3. ChunkLength = 0 /\ BodyDone /\ Answer("Done") /\ UNCHANGED <<buf, call>>
  BY DEF LastChunk, bufferVars
<1>4. message.needed = message.chunks[k].data /\ message.chunks[k].before = Len(message.body)
  <2>1. ~ (message.chunks[k].size > 0)
    BY <1>2, <1>3
  <2>2. IF k = Len(message.chunks)
        THEN message.needed = message.chunks[k].data /\ message.chunks[k].before = Len(message.body)
        ELSE message.chunks[k].size > 0
    BY UnderwayIn, ChunkPlaces
  <2> QED
    BY <2>1, <2>2
<1>5. Collected = message.body
  BY <1>1, <1>4, BodyTypes, SubSeqFull
<1>6. parser'.state = "Parsing_Done"
  BY <1>3, BodyTypes DEF BodyDone, HTTP_Parser
<1> QED
  BY <1>2, <1>3, <1>4, <1>5, <1>6, ChunkKnown, DoneKept DEF Collected

(* A chunk that is there is put behind the body, and the next one begins    *)
(* behind the line end behind it.                                           *)
LEMMA ChunkAppend ==
  ASSUME Underway, AtBody, ParseStep, HasChunks(message), at = "body", WholeChunk
  PROVE  ParsedAsWritten'
<1>1. UNCHANGED <<message, read, task, whole, safe>> /\ task = "parsing"
  BY DEF ParseStep, driverVars, Underway, Fed
<1>2. PICK k \in DOMAIN message.chunks :
        /\ Chunk = message.chunks[k].at
        /\ Collected = SubSeq(message.body, 1, message.chunks[k].before)
        /\ safe => message.chunks[k].at <= read
  BY DEF AtBody, AtChunk, Chunk
<1> DEFINE from   == message.chunks[k].at
           data   == message.chunks[k].data
           size   == message.chunks[k].size
           before == message.chunks[k].before
           next   == message.chunks[k + 1]
<1>3. /\ InSized /\ ChunkLength > 0
      /\ Enough(Rest(Chunk + SizeEnd + 2), ChunkLength)
      /\ Take(ChunkStart, ChunkLength, OffsetBehindChunk)
  BY DEF WholeChunk
<1>4. /\ data <= read /\ SizeEnd = data - 2 - from
      /\ ChunkLength = size /\ ChunkStart = data /\ Rest(data) = read - data
  BY <1>2, <1>3, ChunkFound
<1>5. /\ from \in Nat /\ data \in Nat /\ size \in Nat /\ before \in Nat /\ from + 2 < data
      /\ data + size <= message.needed /\ message.needed \in Nat /\ read \in Nat
      /\ read <= Len(message.bytes) /\ Len(message.bytes) \in Nat
      /\ parser.offset \in Nat /\ parser.body_offset \in Nat
      /\ message.body \in Seq(Symbols) /\ Len(message.body) \in Nat
      /\ IsData(message, message.chunks[k])
  BY UnderwayIn, ChunkPlaces, BodyTypes
<1>6. k + 1 \in DOMAIN message.chunks /\ next.at = data + size + 2 /\ next.before = before + size
  BY <1>3, <1>4, UnderwayIn, ChunkPlaces
<1>7. /\ before + size <= Len(message.body)
      /\ SubSeq(message.bytes, data + 1, data + size)
           = SubSeq(message.body, before + 1, before + size)
  BY <1>5 DEF IsData
<1>8. safe => read \notin {data + size, data + size + 1}
  <2>1. read > 0
    BY <1>1 DEF Underway, ParsedAsWritten, ReadFits
  <2>2. safe => IsSafeCut(message, read)
    BY <2>1 DEF Underway, ParsedAsWritten, ReadFits
  <2>3. size # 0
    BY <1>3, <1>4
  <2> QED
    BY <2>2, <2>3 DEF IsSafeCut, Fragile
<1> HIDE DEF from, data, size, before, next
<1>9. data + size <= read
  BY <1>3, <1>4, <1>5 DEF Enough, ChunkStart
<1>10. Piece(ChunkStart, ChunkLength) = SubSeq(message.body, before + 1, before + size)
  <2>1. PICK to \in Nat : to = data + size
    BY <1>5
  <2>2. data <= to /\ to <= read /\ to - data = size
    BY <1>5, <1>9, <2>1
  <2>3. Piece(data, to - data) = SubSeq(message.bytes, data + 1, to)
    BY <1>5, <2>2, PieceIs DEF Underway
  <2> QED
    BY <1>4, <1>7, <2>1, <2>2, <2>3
<1>11. /\ call'.bytes = SubSeq(message.body, before + 1, before + size) /\ buf' = buf
       /\ at' = "append" /\ UNCHANGED <<answer, fate>>
       /\ parser' = [parser EXCEPT !.encoding = "Chunked", !.body_offset = OffsetBehindChunk]
  BY <1>3, <1>10, ChunkKnown DEF Take, string_buffer_append_buf, Silent
<1>12. Collected' = SubSeq(message.body, 1, before + size)
  <2>1. Collected' = SubSeq(message.body, 1, before)
                       \o SubSeq(message.body, before + 1, before + size)
    BY <1>2, <1>11, ChunkKnown DEF Collected, before
  <2>2. /\ 1 \in 1 .. Len(message.body) + 1 /\ before \in 1 - 1 .. Len(message.body)
        /\ before + size \in before .. Len(message.body)
    BY <1>5, <1>7
  <2> QED
    BY <1>5, <2>1, <2>2, ConcatAdjacentSubSeq
<1>13. /\ parser'.state = parser.state /\ parser'.headers = parser.headers
       /\ parser'.offset = parser.offset /\ parser'.encoding = "Chunked"
       /\ parser'.body_offset = OffsetBehindChunk
       /\ parser'.type = parser.type /\ parser'.method = parser.method
  BY <1>11, BodyTypes DEF HTTP_Parser
<1>14. parser.offset + OffsetBehindChunk = next.at
  <2>1. parser.offset + parser.body_offset = from
    BY <1>2 DEF Chunk, from
  <2>2. OffsetBehindChunk = parser.body_offset + (data - 2 - from) + 2 + size + 2
    BY <1>4 DEF OffsetBehindChunk
  <2>3. parser.offset + (parser.body_offset + (data - 2 - from) + 2 + size + 2) = data + size + 2
    <3>1. \A o, b, f, d, n \in Nat :
            o + b = f => o + (b + (d - 2 - f) + 2 + n + 2) = d + n + 2
      OBVIOUS
    <3>2. PICK o \in Nat, b \in Nat : o = parser.offset /\ b = parser.body_offset
      BY <1>5
    <3>3. o + b = from /\ from \in Nat /\ data \in Nat /\ size \in Nat
      BY <1>5, <2>1, <3>2
    <3>4. o + (b + (data - 2 - from) + 2 + size + 2) = data + size + 2
      BY <3>1, <3>3
    <3> QED
      BY <3>2, <3>4
  <2> QED
    BY <1>6, <2>2, <2>3
<1>15. safe => next.at <= read
  BY <1>5, <1>6, <1>8, <1>9
<1>16. AtChunk'
  BY <1>1, <1>6, <1>11, <1>12, <1>13, <1>14, <1>15 DEF AtChunk, next
<1>17. StartKnown' /\ parser'.headers = HeadersOf(message')
  BY <1>1, <1>13 DEF AtBody, StartKnown
<1>18. ~ HasNoBody(message') /\ ~ HasOtherBody(message') /\ ~ HasLength(message')
  BY <1>1, ChunkKnown
<1>19. AtBody'
  BY <1>1, <1>11, <1>13, <1>16, <1>17, <1>18 DEF AtBody
<1> QED
  BY <1>11, <1>19, BodyStays

(* The parser goes on with the next chunk. *)
LEMMA ChunkAppended ==
  ASSUME Underway, AtBody, ParseStep, HasChunks(message), AfterAppend
  PROVE  ParsedAsWritten'
<1>1. UNCHANGED <<message, read, task, whole, safe>>
  BY DEF ParseStep, driverVars
<1>2. at = "append" /\ parser.encoding = "Chunked" /\ call.at = "none"
  BY DEF AfterAppend, AtBody, AtChunk
<1>3. at' = "body" /\ UNCHANGED <<parser, answer, fate, buf, call>>
  BY <1>2 DEF AfterAppend, Silent, bufferVars
<1>4. ~ HasNoBody(message') /\ ~ HasOtherBody(message') /\ ~ HasLength(message')
  BY <1>1, ContentKinds DEF Underway
<1>5. AtChunk' /\ StartKnown'
  BY <1>1, <1>3 DEF AtBody, AtChunk, StartKnown, Collected
<1>6. AtBody'
  BY <1>1, <1>3, <1>4, <1>5 DEF AtBody
<1> QED
  BY <1>2, <1>3, <1>6, BodyStays

(* The process ends at a fragile place: nothing else is changed. *)
LEMMA ChunkFailed ==
  ASSUME Underway, AtBody, ParseStep, HasChunks(message), at = "body", FailChunk \/ ReadOutside
  PROVE  ParsedAsWritten'
<1>1. UNCHANGED <<message, read, task, whole, safe>>
  BY DEF ParseStep, driverVars
<1>2. ~ safe /\ UNCHANGED <<parser, at, answer, buf, call>> /\ call.at = "none"
  BY ChunkFails, ChunkKnown
<1>3. ~ HasNoBody(message') /\ ~ HasOtherBody(message') /\ ~ HasLength(message')
  BY <1>1, ChunkKnown
<1>4. AtChunk' /\ StartKnown'
  BY <1>1, <1>2 DEF AtBody, AtChunk, StartKnown, Collected
<1>5. AtBody'
  BY <1>1, <1>2, <1>3, <1>4 DEF AtBody
<1> QED
  BY <1>2, <1>5, BodyStays

LEMMA ChunksStep ==
  ASSUME Underway, AtBody, ParseStep, HasChunks(message)
  PROVE  ParsedAsWritten'
<1>1. CASE at = "body"
  <2>1. ShortChunk \/ LastChunk \/ WholeChunk \/ FailChunk \/ ReadOutside
    BY <1>1, ChunkKnown, BodySteps DEF ParseStep
  <2> QED
    BY <1>1, <2>1, ChunkAwaited, ChunksEnded, ChunkAppend, ChunkFailed
<1>2. CASE at # "body"
  <2>1. \/ AfterAppend
        \/ at = "append" /\ AppendStep /\ UNCHANGED <<parser, at, line, answer, fate>>
    BY <1>2, StepsAt DEF ParseStep, AtBody
  <2> QED
    BY <2>1, ChunkAppended, AppendGoesOn
<1> QED
  BY <1>1, <1>2

-----------------------------------------------------------------------------
(* Every step of the parser keeps to the message. *)
LEMMA ParseKeeps ==
  ASSUME Underway, ParseStep
  PROVE  ParsedAsWritten'
<1>1. AtStart \/ AtHeader \/ AtBody \/ AtEnd
  BY DEF Underway, ParsedAsWritten
<1>2. ~ AtEnd
  BY StepsAt DEF AtEnd, ParseStep
<1>3. CASE AtBody
  BY <1>3, ContentKinds, NoBodyStep, OtherBodyStep, LengthStep, ChunksStep DEF Underway
<1> QED
  BY <1>1, <1>2, <1>3, StartStep, HeaderStep

-----------------------------------------------------------------------------
(* The callers.  What they know of a well-formed message before a step. *)
Known == CallersInv /\ MessageInv /\ WellFormed(message) /\ MessageParsed

LEMMA CallerTypes ==
  ASSUME Known
  PROVE  /\ read \in Nat /\ read <= Len(message.bytes) /\ Len(message.bytes) \in Nat
         /\ message.head \in Nat /\ message.needed \in Nat
         /\ message.needed <= Len(message.bytes) /\ message.head <= Len(message.bytes)
         /\ message.from \in {"socket", "file"}
         /\ (message.from = "file" => safe) /\ (safe \/ read = 0 => whole)
         /\ (whole => ParsedAsWritten)
<1>1. message \in Message /\ read \in 0 .. Len(message.bytes) /\ Len(message.bytes) \in Nat
  BY MessageTypes DEF Known
<1> QED
  BY <1>1 DEF Known, MessageParsed, Message, WellFormed, HeadWellFormed

(* Reading on. *)
LEMMA ReceiveKeeps ==
  ASSUME Known, NEW n \in 1 .. Min({INITIAL_CAPACITY, Len(message.bytes) - read}), Receive(n)
  PROVE  MessageParsed'
<1>1. /\ task = "reading" /\ task' = "appending" /\ read' = read + n
      /\ whole' = (IF read = 0 THEN n >= message.head ELSE whole)
      /\ safe' = (safe /\ read + n \in message.safe)
      /\ UNCHANGED <<message, buf, call, parser, at, answer, fate>>
  BY DEF Receive, bufferVars, parserVars
<1>2. n \in Nat \ {0} /\ read' > 0 /\ read \in Nat /\ read' \in Nat /\ message.head \in Nat
  BY <1>1, CallerTypes, ReadBound DEF Known, CallersInv
<1>3. message.from = "socket" /\ at = "idle"
  BY <1>1 DEF Known, MessageInv
<1>4. safe' => IsSafeCut(message, read')
  BY <1>1 DEF Known, WellFormed
<1>5. safe' => whole'
  <2>1. CASE read = 0
    <3>1. safe' => read' >= message.head
      BY <1>4 DEF IsSafeCut
    <3>2. read' = n
      BY <1>1, <1>2, <2>1
    <3> QED
      BY <1>1, <2>1, <3>1, <3>2
  <2>2. CASE read # 0
    BY <1>1, <2>2, CallerTypes
  <2> QED
    BY <2>1, <2>2
<1>6. ASSUME whole' PROVE ParsedAsWritten'
  <2>1. ParsedAsWritten /\ (read = 0 => n >= message.head)
    BY <1>1, <1>6, CallerTypes
  <2>2. read' >= message.head /\ read <= read'
    BY <1>1, <1>2, <2>1 DEF ParsedAsWritten, ReadFits
  <2>3. ReadFits'
    BY <1>1, <1>2, <1>3, <1>4, <2>2 DEF ReadFits
  <2>4. AtStart \/ AtBody
    BY <1>1, <1>3, <2>1 DEF ParsedAsWritten, AtHeader, AtEnd
  <2>5. AtStart => AtStart'
    BY <1>1, <1>3 DEF AtStart
  <2>6. ASSUME AtBody PROVE AtBody'
    <3>1. ~ HasNoBody(message') /\ ~ HasOtherBody(message') /\ AwaitsMore'
      BY <1>1, <1>3, <2>6 DEF AtBody, AtOther, AwaitsMore
    <3>2. HasLength(message) => AtLength'
      BY <1>1, <1>3, <2>6 DEF AtBody, AtLength, Collected
    <3>3. ASSUME HasChunks(message) PROVE AtChunk'
      <4>1. PICK k \in DOMAIN message.chunks :
              /\ parser.offset + parser.body_offset = message.chunks[k].at
              /\ Collected = SubSeq(message.body, 1, message.chunks[k].before)
              /\ safe => message.chunks[k].at <= read
        BY <2>6, <3>3 DEF AtBody, AtChunk
      <4>2. message.chunks[k].at \in Nat
        BY <3>3, ChunkPlaces DEF Known
      <4>3. safe' => message.chunks[k].at <= read'
        <5>1. \A x, y, z \in Nat : x <= y /\ y <= z => x <= z
          OBVIOUS
        <5>2. safe' => message.chunks[k].at <= read
          BY <1>1, <4>1
        <5> QED
          BY <1>2, <2>2, <4>2, <5>1, <5>2
      <4>4. Collected' = Collected
        BY <1>1 DEF Collected
      <4> QED
        BY <1>1, <1>3, <2>6, <3>3, <4>1, <4>3, <4>4 DEF AtBody, AtChunk
    <3>4. StartKnown' /\ parser'.headers = HeadersOf(message')
      BY <1>1, <2>6 DEF AtBody, StartKnown
    <3> QED
      BY <1>1, <2>2, <2>6, <3>1, <3>2, <3>3, <3>4 DEF AtBody
  <2>7. (AtStart' => AtStart) /\ ~ AtHeader'
    BY <1>1, <1>3, <2>4 DEF AtStart, AtHeader, AtBody
  <2>8. ~ HasChunks(message) \/ safe' => fate' = "running"
    BY <1>1, <2>1 DEF ParsedAsWritten
  <2> QED
    BY <1>1, <2>1, <2>3, <2>4, <2>5, <2>6, <2>7, <2>8 DEF ParsedAsWritten, Collected
<1> QED
  BY <1>1, <1>2, <1>3, <1>5, <1>6 DEF MessageParsed

(* A call of the parser goes on where it stopped. *)
LEMMA CallKeeps ==
  ASSUME Known, whole, NEW memory, http_try_parse(memory),
         task \in {"appending", "file"}, UNCHANGED <<message, safe>>,
         read' \in Nat, read <= read', ReadFits'
  PROVE  ParsedAsWritten'
<1>1. ParsedAsWritten /\ read \in Nat /\ message.head \in Nat /\ message.needed \in Nat
  BY CallerTypes
<1>2. /\ at = "idle" /\ line' = parser.offset
      /\ UNCHANGED <<parser, buf, call, answer, fate>>
      /\ at' = CASE parser.state = "Parsing_Status" -> "status"
                 [] parser.state = "Parsing_Headers" -> "headers"
                 [] parser.state = "Parsing_Body" -> "body"
  BY DEF http_try_parse, Silent, bufferVars
<1>3. AtStart \/ AtBody
  BY <1>1, <1>2 DEF ParsedAsWritten, AtHeader, AtEnd
<1>4. Collected' = Collected
  BY <1>2 DEF Collected
<1>5. CASE AtStart
  <2>1. AtStart' /\ at' = "status"
    BY <1>2, <1>5 DEF AtStart
  <2> QED
    BY <1>1, <1>2, <1>4, <1>5, <2>1 DEF ParsedAsWritten
<1>6. CASE AtBody
  <2>1. at' = "body" /\ parser.state = "Parsing_Body"
    BY <1>2, <1>6 DEF AtBody
  <2>2. ~ HasNoBody(message') /\ ~ HasOtherBody(message')
    BY <1>2, <1>6 DEF AtBody, AtOther
  <2>3. HasLength(message) => AtLength'
    BY <1>2, <1>4, <1>6, <2>1 DEF AtBody, AtLength
  <2>4. ASSUME HasChunks(message) PROVE AtChunk'
    <3>1. PICK k \in DOMAIN message.chunks :
            /\ parser.offset + parser.body_offset = message.chunks[k].at
            /\ Collected = SubSeq(message.body, 1, message.chunks[k].before)
            /\ safe => message.chunks[k].at <= read
      BY <1>6, <2>4 DEF AtBody, AtChunk
    <3>2. message.chunks[k].at \in Nat
      BY <2>4, ChunkPlaces DEF Known
    <3>3. safe' => message.chunks[k].at <= read'
      <4>1. \A x, y, z \in Nat : x <= y /\ y <= z => x <= z
        OBVIOUS
      <4> QED
        BY <1>1, <3>1, <3>2, <4>1
    <3> QED
      BY <1>2, <1>4, <1>6, <2>1, <2>4, <3>1, <3>3 DEF AtBody, AtChunk
  <2>5. StartKnown' /\ parser'.headers = HeadersOf(message')
    BY <1>2, <1>6 DEF AtBody, StartKnown
  <2>6. read' >= message.head
    BY <1>1, <1>6 DEF AtBody
  <2>7. AtBody'
    BY <1>2, <1>6, <2>1, <2>2, <2>3, <2>4, <2>5, <2>6 DEF AtBody
  <2>8. ~ AtStart' /\ ~ AtHeader' /\ call'.at = "none"
        /\ (~ HasChunks(message) \/ safe => fate' = "running")
    BY <1>1, <1>2, <2>1 DEF AtStart, AtHeader, ParsedAsWritten
  <2> QED
    BY <2>7, <2>8 DEF ParsedAsWritten
<1> QED
  BY <1>3, <1>5, <1>6

LEMMA ParseReceivedKeeps ==
  ASSUME Known, ParseReceived
  PROVE  MessageParsed'
<1>1. /\ task = "appending" /\ http_try_parse(sb) /\ task' = "parsing"
      /\ UNCHANGED <<message, read, whole, safe>>
  BY DEF ParseReceived
<1>2. message.from = "socket" /\ read \in Nat
  BY <1>1, CallerTypes DEF Known, MessageInv
<1>3. ASSUME whole PROVE ParsedAsWritten'
  <2>1. ReadFits'
    BY <1>1, <1>2, <1>3, CallerTypes DEF ParsedAsWritten, ReadFits
  <2> QED
    BY <1>1, <1>2, <1>3, <2>1, CallKeeps
<1> QED
  BY <1>1, <1>2, <1>3, CallerTypes DEF MessageParsed

(* A file that is read at once is cut nowhere. *)
LEMMA WholeIsSafe ==
  ASSUME CallersInv, WellFormed(message)
  PROVE  IsSafeCut(message, Len(message.bytes))
<1>1. /\ message.head \in Nat /\ message.needed \in Nat /\ Len(message.bytes) \in Nat
      /\ message.needed <= Len(message.bytes) /\ message.head <= Len(message.bytes)
  BY MessageTypes DEF Message, WellFormed, HeadWellFormed
<1>2. ASSUME HasChunks(message), NEW k \in DOMAIN message.chunks
      PROVE  Len(message.bytes) \notin Fragile(message.chunks[k])
  <2> DEFINE c == message.chunks[k]
             size == c.size
             data == c.data
             next == message.chunks[k + 1]
  <2>1. /\ c.at \in Nat /\ data \in Nat /\ size \in Nat /\ data + size <= message.needed
    BY <1>2, ChunkPlaces
  <2>2. size # 0 => next.at = data + size + 2 /\ k + 1 \in DOMAIN message.chunks
    BY <1>2, ChunkPlaces
  <2>3. size # 0 => next.data \in Nat /\ next.data <= message.needed /\ next.at < next.data
    <3> SUFFICES ASSUME size # 0
                 PROVE  next.data \in Nat /\ next.data <= message.needed /\ next.at < next.data
      OBVIOUS
    <3>1. /\ next.at \in Nat /\ next.data \in Nat /\ next.size \in Nat
          /\ next.at + 2 < next.data /\ next.data + next.size <= message.needed
      BY <1>2, <2>2, ChunkPlaces
    <3> HIDE DEF next
    <3> QED
      BY <1>1, <3>1
  <2> HIDE DEF size, data, next
  <2>4. Len(message.bytes) \notin c.at + 2 .. data - 1
    BY <1>1, <2>1
  <2>5. size # 0 => Len(message.bytes) \notin {data + size, data + size + 1}
    BY <1>1, <2>1, <2>2, <2>3
  <2> QED
    BY <2>4, <2>5 DEF Fragile, size, data
<1> QED
  BY <1>1, <1>2 DEF IsSafeCut

LEMMA FuzzKeeps ==
  ASSUME Known, http_fuzz
  PROVE  MessageParsed'
<1>1. /\ task = "file" /\ http_try_parse(FileMemory) /\ task' = "parsing"
      /\ read' = Len(message.bytes) /\ UNCHANGED <<message, whole, safe>>
  BY DEF http_fuzz
<1>2. message.from = "file" /\ safe /\ whole /\ read \in Nat /\ read <= read'
      /\ read' \in Nat /\ message.head \in Nat /\ message.head <= read'
  BY <1>1, CallerTypes DEF Known, CallersInv, ReceiveInv
<1>3. IsSafeCut(message, read')
  BY <1>1, WholeIsSafe DEF Known
<1>4. read' > 0
  <2>1. 1 \in 1 .. Len(message.lines)
    BY LinesCount DEF Known
  <2>2. /\ TextEnd(message, 1) \in Nat /\ TextEnd(message, 1) + 2 <= message.head
    BY <2>1, LinePlaces DEF Known
  <2> QED
    BY <1>2, <2>2
<1>5. ReadFits'
  BY <1>1, <1>2, <1>3, <1>4 DEF ReadFits
<1> QED
  BY <1>1, <1>2, <1>5, CallKeeps DEF MessageParsed

(* What the caller does with the answer. *)
LEMMA AfterParseKeeps ==
  ASSUME Known, AfterParse
  PROVE  MessageParsed'
<1>1. /\ task = "parsing" /\ at = "idle"
      /\ task' = (IF answer = "Needs_More_Data" /\ message.from = "socket"
                  THEN "reading" ELSE "finished")
      /\ UNCHANGED <<message, read, whole, safe, buf, call, parser, at, answer, fate>>
  BY DEF AfterParse, bufferVars, parserVars
<1>2. ASSUME whole PROVE ParsedAsWritten'
  <2>1. ParsedAsWritten
    BY <1>2, CallerTypes
  <2>2. ReadFits'
    BY <1>1, <2>1, CallerTypes DEF ParsedAsWritten, ReadFits
  <2>3. AtBody \/ AtEnd
    BY <1>1, <2>1 DEF ParsedAsWritten, AtStart, AtHeader
  <2>4. Collected' = Collected /\ ~ AtStart' /\ ~ AtHeader'
    BY <1>1, <2>3 DEF Collected, AtStart, AtHeader, AtBody, AtEnd
  <2>5. AtEnd => AtEnd'
    BY <1>1, <2>4 DEF AtEnd
  <2>6. ASSUME AtBody PROVE AtBody'
    <3>1. HasOtherBody(message) => AtOther'
      BY <1>1, <2>4, <2>6, ContentKinds DEF Known, AtBody, AtOther
    <3>2. HasLength(message) => AtLength'
      BY <1>1, <2>4, <2>6 DEF AtBody, AtLength
    <3>3. HasChunks(message) => AtChunk'
      BY <1>1, <2>4, <2>6 DEF AtBody, AtChunk
    <3>4. ASSUME ~ HasOtherBody(message) PROVE AwaitsMore'
      <4>1. answer = "Needs_More_Data" /\ read < message.needed
        BY <1>1, <2>6, <3>4 DEF AtBody, AwaitsMore
      <4>2. message.from = "socket"
        <5>1. message.from = "file" => read = Len(message.bytes)
          BY <1>1, <2>1 DEF ParsedAsWritten, ReadFits
        <5> QED
          BY <4>1, <5>1, CallerTypes
      <4> QED
        BY <1>1, <4>1, <4>2 DEF AwaitsMore
    <3>5. StartKnown' /\ parser'.headers = HeadersOf(message') /\ ~ HasNoBody(message')
      BY <1>1, <2>6 DEF AtBody, StartKnown
    <3> QED
      BY <1>1, <2>6, <3>1, <3>2, <3>3, <3>4, <3>5 DEF AtBody
  <2>7. ~ HasChunks(message) \/ safe => fate' = "running"
    BY <1>1, <2>1 DEF ParsedAsWritten
  <2> QED
    BY <1>1, <2>1, <2>2, <2>3, <2>4, <2>5, <2>6, <2>7 DEF ParsedAsWritten
<1> QED
  BY <1>1, <1>2, CallerTypes DEF MessageParsed

LEMMA InitKnown == Init => MessageParsed
<1> SUFFICES ASSUME Init, WellFormed(message)
             PROVE  safe /\ whole /\ ParsedAsWritten
  BY DEF MessageParsed
<1>1. /\ parser = [state |-> "Parsing_Status", offset |-> 0, type |-> "Request", method |-> "GET",
                   headers |-> <<>>, encoding |-> "unset", body_offset |-> 0]
      /\ at = "idle" /\ answer = "none" /\ fate = "running"
      /\ StringBufferInit
      /\ read = 0 /\ whole /\ safe
      /\ task = IF message.from = "socket" THEN "reading" ELSE "file"
  BY DEF Init, ParserInit
<1>2. call.at = "none" /\ Collected = <<>>
  <2>1. call.at = "none" /\ call.bytes = <<>>
    BY <1>1 DEF StringBufferInit, NoCall
  <2>2. TextOf(buf) = <<>>
    BY <1>1, RefinesInit DEF Text!Init
  <2> QED
    BY <2>1, <2>2, ConcatEmptySeq, EmptySeq DEF Collected
<1>3. ReadFits
  BY <1>1 DEF ReadFits
<1>4. AtStart
  BY <1>1 DEF AtStart
<1> QED
  BY <1>1, <1>2, <1>3, <1>4 DEF ParsedAsWritten

LEMMA OthersKeep ==
  ASSUME Known, UNCHANGED <<message, read, task, whole, safe, bufferVars, parserVars>>
  PROVE  MessageParsed'
<1>1. UNCHANGED <<message, read, task, whole, safe, buf, call, parser, line, at, answer, fate>>
  BY DEF bufferVars, parserVars
<1>2. ASSUME whole PROVE ParsedAsWritten'
  <2>1. ParsedAsWritten
    BY <1>2, CallerTypes
  <2>2. ReadFits' /\ Collected' = Collected
    BY <1>1, <2>1 DEF ParsedAsWritten, ReadFits, Collected
  <2>3. AtStart' = AtStart /\ AtHeader' = AtHeader /\ AtEnd' = AtEnd /\ StartKnown' = StartKnown
    BY <1>1, <2>2 DEF AtStart, AtHeader, AtEnd, StartKnown
  <2>4. AtBody => AtBody'
    <3>1. AtOther' = AtOther /\ AtLength' = AtLength /\ AtChunk' = AtChunk /\ AwaitsMore' = AwaitsMore
      BY <1>1, <2>2 DEF AtOther, AtLength, AtChunk, AwaitsMore
    <3> QED
      BY <1>1, <2>2, <2>3, <3>1 DEF AtBody
  <2> QED
    BY <1>1, <2>1, <2>2, <2>3, <2>4 DEF ParsedAsWritten
<1> QED
  BY <1>1, <1>2, CallerTypes DEF MessageParsed

LEMMA ParsingKeeps ==
  ASSUME Known, Parse
  PROVE  MessageParsed'
<1>1. ParseStep /\ task = "parsing" /\ UNCHANGED <<message, read, whole, safe>>
  BY DEF Parse, ParseStep, driverVars
<1>2. ASSUME whole PROVE ParsedAsWritten'
  <2>1. Underway
    BY <1>1, <1>2, CallerTypes DEF Known, Underway, Fed
  <2> QED
    BY <1>1, <2>1, ParseKeeps
<1> QED
  BY <1>1, <1>2, CallerTypes DEF MessageParsed

LEMMA MessageParsedNext ==
  CallersInv /\ MessageInv /\ MessageParsed /\ [Next]_vars => MessageParsed'
<1> SUFFICES ASSUME CallersInv, MessageInv, MessageParsed, [Next]_vars, WellFormed(message)'
             PROVE  MessageParsed'
  BY DEF MessageParsed
<1>1. message' = message
  BY DEF Next, Receive, AppendReceived, ParseReceived, http_fuzz, Parse, AfterParse, driverVars, vars
<1>2. Known
  BY <1>1 DEF Known
<1>3. CASE \E n \in 1 .. Min({INITIAL_CAPACITY, Len(message.bytes) - read}) : Receive(n)
  BY <1>2, <1>3, ReceiveKeeps
<1>4. CASE AppendReceived
  BY <1>2, <1>4, OthersKeep DEF AppendReceived
<1>5. CASE ParseReceived
  BY <1>2, <1>5, ParseReceivedKeeps
<1>6. CASE http_fuzz
  BY <1>2, <1>6, FuzzKeeps
<1>7. CASE Parse
  BY <1>2, <1>7, ParsingKeeps
<1>8. CASE AfterParse
  BY <1>2, <1>8, AfterParseKeeps
<1>9. CASE UNCHANGED vars
  BY <1>2, <1>9, OthersKeep DEF vars, driverVars
<1> QED
  BY <1>3, <1>4, <1>5, <1>6, <1>7, <1>8, <1>9 DEF Next

LEMMA SpecParsed == Spec => [](CallersInv /\ MessageInv /\ MessageParsed)
  BY InitKnown, MessageParsedNext, SpecInv, PTL DEF Spec

-----------------------------------------------------------------------------
(* What the body holds is a beginning of the message's. *)
LEMMA BeginningIs ==
  ASSUME NEW S, NEW a \in Seq(S), NEW b \in Seq(S), NEW t \in Seq(S),
         NEW m \in 0 .. Len(t), a \o b = SubSeq(t, 1, m)
  PROVE  IsPrefix(a, t)
<1>1. Len(a) \in Nat /\ Len(b) \in Nat /\ Len(t) \in Nat /\ m \in Nat /\ m <= Len(t)
  BY LenProperties
<1>2. \A j \in 1 .. m : t[j] \in S
  BY <1>1, ElementOfSeq
<1>3. /\ Len(SubSeq(t, 1, m)) = m
      /\ \A j \in 1 .. m : SubSeq(t, 1, m)[j] = t[j]
  <2>1. /\ Len(SubSeq(t, 1, m)) = IF 1 <= m THEN m - 1 + 1 ELSE 0
        /\ \A j \in 1 .. m - 1 + 1 : SubSeq(t, 1, m)[j] = t[1 + j - 1]
    BY <1>1, <1>2, SubSeqProperties
  <2>2. m - 1 + 1 = m /\ \A j \in 1 .. m : 1 + j - 1 = j
    BY <1>1
  <2>3. Len(SubSeq(t, 1, m)) = m
    BY <1>1, <2>1, <2>2
  <2>4. \A j \in 1 .. m : SubSeq(t, 1, m)[j] = t[j]
    BY <2>1, <2>2
  <2> QED
    BY <2>3, <2>4
<1>4. /\ Len(a \o b) = Len(a) + Len(b)
      /\ \A j \in 1 .. Len(a) : (a \o b)[j] = a[j]
  <2>1. /\ Len(a \o b) = Len(a) + Len(b)
        /\ \A j \in 1 .. Len(a) + Len(b) : (a \o b)[j] = IF j <= Len(a) THEN a[j] ELSE b[j - Len(a)]
    BY ConcatProperties
  <2>2. \A j \in 1 .. Len(a) : j \in 1 .. Len(a) + Len(b) /\ j <= Len(a)
    BY <1>1
  <2> QED
    BY <2>1, <2>2
<1>5. Len(a) <= m /\ Len(a) <= Len(t)
  BY <1>1, <1>3, <1>4
<1>6. \A j \in 1 .. Len(a) : a[j] = t[j]
  BY <1>1, <1>3, <1>4, <1>5
<1>7. SubSeq(a, 1, Len(a)) = a
  BY SubSeqFull
<1>8. SubSeq(t, 1, Len(a)) = a
  <2>1. Len(a) - 1 + 1 = Len(a) /\ \A j \in 1 .. Len(a) : 1 + j - 1 = j /\ t[j] \in S
    BY <1>1, <1>2, <1>5
  <2>2. /\ SubSeq(t, 1, Len(a)) \in Seq(S)
        /\ Len(SubSeq(t, 1, Len(a))) = IF 1 <= Len(a) THEN Len(a) - 1 + 1 ELSE 0
        /\ \A j \in 1 .. Len(a) - 1 + 1 : SubSeq(t, 1, Len(a))[j] = t[1 + j - 1]
    BY <1>1, <2>1, SubSeqProperties
  <2>3. Len(SubSeq(t, 1, Len(a))) = Len(a)
    BY <1>1, <2>1, <2>2
  <2>4. \A j \in 1 .. Len(a) : SubSeq(t, 1, Len(a))[j] = a[j]
    BY <1>6, <2>1, <2>2
  <2> QED
    BY <2>2, <2>3, <2>4, SeqEqual
<1> QED
  BY <1>5, <1>7, <1>8 DEF IsPrefix

LEMMA BodyText ==
  ASSUME Known
  PROVE  /\ TextOf(buf) \in Seq(Bytes) /\ call.bytes \in Seq(Bytes)
         /\ call.at = "none" => TextOf(buf) = Collected
         /\ message.body \in Seq(Bytes) /\ Len(message.body) \in Nat
<1>1. StringBufferTypeOK
  BY DEF Known, CallersInv, ParserInv, BufferInv
<1>2. TextOf(buf) \in Seq(Bytes) /\ call.bytes \in Seq(Bytes)
      /\ (call.at = "none" => call.bytes = <<>>)
  BY <1>1, TextIsSeq DEF StringBufferTypeOK
<1>3. message.body \in Seq(Bytes)
  <2>1. message.body \in Seq(Symbols)
    BY MessageTypes DEF Known, Message
  <2> QED
    BY <2>1, HttpParserAssumption, SeqMonotonic
<1> QED
  BY <1>2, <1>3, ConcatEmptySeq, LenProperties DEF Collected

LEMMA CollectedIsBeginning ==
  ASSUME Known, ParsedAsWritten
  PROVE  \E m \in 0 .. Len(message.body) : Collected = SubSeq(message.body, 1, m)
<1>1. message.body \in Seq(Bytes) /\ Len(message.body) \in Nat
  BY BodyText
<1>2. Collected = <<>> => Collected = SubSeq(message.body, 1, 0)
  BY SubSeqEmpty
<1>3. Collected = message.body => Collected = SubSeq(message.body, 1, Len(message.body))
  BY <1>1, SubSeqFull
<1>4. 0 \in 0 .. Len(message.body) /\ Len(message.body) \in 0 .. Len(message.body)
  BY <1>1
<1>5. CASE Collected = <<>> \/ Collected = message.body
  BY <1>2, <1>3, <1>4, <1>5
<1>6. CASE AtBody /\ HasChunks(message)
  <2>1. PICK k \in DOMAIN message.chunks :
          Collected = SubSeq(message.body, 1, message.chunks[k].before)
    BY <1>6 DEF AtBody, AtChunk
  <2>2. message.chunks[k].before \in 0 .. Len(message.body)
    <3>1. /\ message.chunks[k].before \in Nat /\ message.chunks[k].size \in Nat
          /\ IsData(message, message.chunks[k])
      BY <1>6, ChunkPlaces DEF Known
    <3> QED
      BY <1>1, <3>1 DEF IsData
  <2> QED
    BY <2>1, <2>2
<1>7. AtStart \/ AtHeader \/ AtEnd \/ (AtBody /\ ~ HasChunks(message))
        => Collected = <<>> \/ Collected = message.body
  BY ContentKinds DEF Known, ParsedAsWritten, AtEnd, AtBody, AtOther, AtLength
<1> QED
  BY <1>5, <1>6, <1>7 DEF ParsedAsWritten

(* Done is answered with the whole body. *)
LEMMA DoneIsWhole ==
  ASSUME Known, ParsedAsWritten, answer = "Done"
  PROVE  AtEnd /\ TextOf(buf) = message.body
<1>1. AtEnd
  BY DEF ParsedAsWritten, AtBody
<1>2. call.at = "none" /\ Collected = message.body
  BY <1>1 DEF ParsedAsWritten, AtEnd
<1> QED
  BY <1>1, <1>2, BodyText

(* What tells the result is behind the head. *)
LEMMA NeededBehindHead ==
  ASSUME CallersInv, WellFormed(message)
  PROVE  message.head \in Nat \ {0} /\ message.needed \in Nat /\ message.head <= message.needed
<1>1. message.head \in Nat /\ message.needed \in Nat /\ Len(message.body) \in Nat
  BY MessageTypes, LenProperties DEF Message
<1>2. message.head > 0
  <2>1. 1 \in 1 .. Len(message.lines)
    BY LinesCount
  <2>2. /\ TextEnd(message, 1) \in Nat /\ TextEnd(message, 1) + 2 <= message.head
    BY <2>1, LinePlaces
  <2> QED
    BY <1>1, <2>2
<1>3. CASE HasNoBody(message) \/ HasOtherBody(message)
  BY <1>1, <1>2, <1>3, ContentKinds DEF IsEmpty
<1>4. CASE HasLength(message)
  <2>1. message.needed = message.head + Len(message.body)
    BY <1>4, ContentKinds DEF LengthWellFormed
  <2> QED
    BY <1>1, <1>2, <2>1
<1>5. CASE HasChunks(message)
  <2>1. message.chunks \in Seq(ChunkPlace) /\ message.chunks # <<>>
        /\ message.chunks[1].at = message.head
    BY <1>5, ContentKinds, MessageTypes DEF ChunksWellFormed, Message
  <2>2. 1 \in DOMAIN message.chunks
    <3>1. Len(message.chunks) \in Nat \ {0} /\ DOMAIN message.chunks = 1 .. Len(message.chunks)
      BY <2>1, LenProperties, EmptySeq
    <3> QED
      BY <3>1
  <2>3. /\ message.chunks[1].at \in Nat /\ message.chunks[1].data \in Nat
        /\ message.chunks[1].size \in Nat
        /\ message.chunks[1].at + 2 < message.chunks[1].data
        /\ message.chunks[1].data + message.chunks[1].size <= message.needed
    BY <1>5, <2>2, ChunkPlaces
  <2> QED
    BY <1>1, <1>2, <2>1, <2>3
<1> QED
  BY <1>3, <1>4, <1>5, ContentKinds

(* What the caller was told when it reads on, and when it stops. *)
LEMMA ToldMore ==
  ASSUME Known, ParsedAsWritten, task = "reading"
  PROVE  read < message.needed /\ answer = IF read = 0 THEN "none" ELSE "Needs_More_Data"
<1>1. at = "idle"
  BY DEF Known, MessageInv
<1>2. /\ message.head \in Nat \ {0} /\ message.needed \in Nat /\ message.head <= message.needed
      /\ read \in Nat
  BY NeededBehindHead, CallerTypes DEF Known
<1>3. AtStart => read = 0 /\ answer = "none"
  BY <1>1 DEF AtStart, ParsedAsWritten
<1>4. AtBody => read >= message.head /\ read < message.needed /\ answer = "Needs_More_Data"
  BY <1>1 DEF AtBody, AtOther, AwaitsMore
<1>5. AtStart \/ AtBody
  BY <1>1 DEF ParsedAsWritten, AtHeader, AtEnd
<1> QED
  BY <1>2, <1>3, <1>4, <1>5

LEMMA ToldResult ==
  ASSUME Known, ParsedAsWritten, task = "finished"
  PROVE  answer = message.result /\ read >= message.needed
<1>1. at = "idle"
  BY DEF Known, MessageInv
<1>2. AtBody \/ AtEnd
  BY <1>1 DEF ParsedAsWritten, AtStart, AtHeader
<1>3. CASE AtEnd
  BY <1>3 DEF AtEnd
<1>4. CASE AtBody
  <2>1. HasOtherBody(message) /\ answer = "TODO"
    BY <1>1, <1>4 DEF AtBody, AtOther, AwaitsMore
  <2>2. message.needed = message.head /\ message.result = "TODO"
    BY <2>1, ContentKinds DEF Known, IsEmpty
  <2> QED
    BY <1>4, <2>1, <2>2 DEF AtBody
<1> QED
  BY <1>2, <1>3, <1>4

-----------------------------------------------------------------------------
(* At every place of a well-formed message, however it was cut behind its   *)
(* head, the parser knows what is written there, and nothing else (http.c   *)
(* 114-548): the line or the chunk it is at, the headers in front of it,    *)
(* and the body as far as it was passed.                                    *)
THEOREM MessagesParsed == Spec => []MessageParsed
  BY SpecParsed, PTL

(* The body of a well-formed message is never wrong: wherever the message   *)
(* is cut behind its head, what was appended is a beginning of its body,    *)
(* and all of it when the answer is Done (http.c 374-548).                  *)
THEOREM BodiesRight == Spec => [](WellFormed(message) => BodyNeverWrong)
<1>1. CallersInv /\ MessageInv /\ MessageParsed => (WellFormed(message) => BodyNeverWrong)
  <2> SUFFICES ASSUME Known, whole
               PROVE  /\ IsPrefix(TextOf(buf), message.body)
                      /\ answer = "Done" => TextOf(buf) = message.body
    BY DEF Known, BodyNeverWrong
  <2>1. ParsedAsWritten
    BY CallerTypes
  <2>2. PICK m \in 0 .. Len(message.body) : Collected = SubSeq(message.body, 1, m)
    BY <2>1, CollectedIsBeginning
  <2>3. IsPrefix(TextOf(buf), message.body)
    BY <2>2, BodyText, BeginningIs DEF Collected
  <2> QED
    BY <2>1, <2>3, DoneIsWhole
<1> QED
  BY <1>1, SpecParsed, PTL

(* A well-formed message that is cut only at safe places is answered as if  *)
(* it came at once: http_tcp_receive_response_work (http_client.c) reads on *)
(* until the last byte that matters is there and no longer, and is then     *)
(* told the message's result with its body; no assertion of http.c fails.   *)
THEOREM SafeCutsHarmless == Spec => [](WellFormed(message) => CutsHarmless)
<1>1. CallersInv /\ MessageInv /\ MessageParsed => (WellFormed(message) => CutsHarmless)
  <2> SUFFICES ASSUME Known, safe PROVE CutsHarmless
    BY DEF Known, CutsHarmless
  <2>1. ParsedAsWritten /\ fate = "running"
    BY CallerTypes DEF ParsedAsWritten
  <2> QED
    BY <2>1, ToldMore, ToldResult, DoneIsWhole DEF CutsHarmless
<1> QED
  BY <1>1, SpecParsed, PTL

(* A file with a well-formed message gets its result (main.c 29-80): it is  *)
(* cut nowhere.                                                             *)
THEOREM FilesAnswered == Spec => [](WellFormed(message) => FilesParsed)
<1>1. CallersInv /\ MessageInv /\ MessageParsed => (WellFormed(message) => FilesParsed)
  <2> SUFFICES ASSUME Known, message.from = "file" PROVE FilesParsed
    BY DEF Known, FilesParsed
  <2>1. ParsedAsWritten /\ fate = "running"
    BY CallerTypes DEF ParsedAsWritten
  <2> QED
    BY <2>1, ToldResult, DoneIsWhole DEF FilesParsed
<1> QED
  BY <1>1, SpecParsed, PTL
=============================================================================
