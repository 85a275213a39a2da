-------------------------- MODULE HttpRequestProofs --------------------------
(***************************************************************************)
(* For all requests, cut in any way, and every size of the buffer: what    *)
(* the parser remembers of a request lies in what has arrived of it, and   *)
(* what it decodes and decides has its type. The type of percentDecode(),  *)
(* a recursion along the url, is proved by induction on its length. Then   *)
(* that the url and the headers it remembers are those of the request, and *)
(* last, every step is compared with the one that the parser takes when    *)
(* the whole request is in the buffer.                                     *)
(***************************************************************************)
EXTENDS HttpCuts, SequenceTheorems, Induction, TLAPS

\* Field f lies in what the parser has read.
Inside(q, f) == f.start + f.length <= q.cur

\* The parser q, of which the type of urlBuffer is left open, is within what
\* has arrived.
ParserWith(buffers) ==
  [state : States, cur : Nat, url : Field, curKey : Field,
   headers : Seq(Header), contentStart : Nat, contentLength : Int,
   urlBuffer : buffers]

Positions(q) ==
  /\ q \in ParserWith({q.urlBuffer})
  /\ q.cur <= size /\ q.contentStart <= q.cur
  /\ Inside(q, q.url) /\ Inside(q, q.curKey)
  /\ \A i \in 1 .. Len(q.headers) :
       Inside(q, q.headers[i].key) /\ Inside(q, q.headers[i].value)
  /\ q.state = "finishOk" => q.contentStart + q.contentLength <= size

\* The inductive invariant.
Inv ==
  /\ request \in Requests
  /\ heads \in Heads /\ heads.readHead = 0
  /\ size <= Len(text)
  /\ Positions(parser)

----------------------------------------------------------------------------
(* The buffer and the text *)

\* Until the request has been read its bytes are at the start of the buffer.
LEMMA SizeType ==
  ASSUME heads \in Heads, heads.readHead = 0
  PROVE  size = heads.writeHead /\ size \in 0 .. bufSize
BY BufSizeAssumption DEF size, Heads, ReadSize

\* The text is a sequence of symbols.
LEMMA TextType ==
  ASSUME request \in Requests
  PROVE  text \in Seq(Symbols) /\ Len(text) \in Nat
BY RequestsAssumption DEF text

\* A part of the text that has arrived is a sequence of symbols.
LEMMA SliceType ==
  ASSUME request \in Requests, NEW f \in Field, f.start + f.length <= Len(text)
  PROVE  Slice(f) \in [1 .. f.length -> Symbols]
<1> DEFINE m == f.start + 1
           n == f.start + f.length
<1>1. m \in Int /\ n \in Int /\ \A k \in m .. n : text[k] \in Symbols
  BY TextType DEF Field
<1>2. /\ SubSeq(text, m, n) \in Seq(Symbols)
      /\ Len(SubSeq(text, m, n)) = f.length
  BY <1>1, SubSeqProperties DEF Field
<1> QED
  BY <1>2, LenProperties DEF Slice

\* The type of a parser other than that of its urlBuffer.
LEMMA ParserType ==
  ASSUME NEW q, NEW B, q \in ParserWith(B)
  PROVE  q \in ParserWith({q.urlBuffer})
BY DEF ParserWith

----------------------------------------------------------------------------
(* Steps that leave the buffer alone *)

\* The parser moves on to q.
LEMMA MoveFine ==
  ASSUME Inv, NEW q, Positions(q), MoveTo(q)
  PROVE  Inv'
BY DEF Inv, MoveTo, Positions, Inside, size, text

\* The parser waits for more, or the request is refused.
LEMMA StayFine ==
  ASSUME Inv, UNCHANGED <<request, heads, parser>>
  PROVE  Inv'
BY DEF Inv, Positions, Inside, size, text

\* A parser that has moved to i, where nothing is finished, and remembers
\* another field at most.
LEMMA ForwardFine ==
  ASSUME Inv, NEW B, NEW q \in ParserWith(B), NEW i \in parser.cur .. size,
         q.cur = i, q.state # "finishOk", q.contentStart = parser.contentStart,
         q.url = parser.url \/ Inside(q, q.url),
         q.curKey = parser.curKey \/ Inside(q, q.curKey),
         q.headers = parser.headers
  PROVE  Positions(q)
<1>1. /\ size \in Nat /\ parser.cur \in Nat /\ parser.cur <= i /\ i <= size
      /\ parser.url \in Field /\ parser.curKey \in Field
      /\ parser.headers \in Seq(Header) /\ parser.contentStart \in Nat
  BY SizeType DEF Inv, Positions, ParserWith
<1>2. \A f \in Field : Inside(parser, f) => Inside(q, f)
  BY <1>1 DEF Inside, Field
<1>3. Inside(q, q.url) /\ Inside(q, q.curKey)
  BY <1>1, <1>2 DEF Inv, Positions
<1>4. ASSUME NEW k \in 1 .. Len(q.headers)
      PROVE  Inside(q, q.headers[k].key) /\ Inside(q, q.headers[k].value)
  <2>1. q.headers[k] = parser.headers[k] /\ k \in 1 .. Len(parser.headers)
    OBVIOUS
  <2>2. parser.headers[k] \in Header
    BY <1>1, <2>1
  <2>3. Inside(parser, parser.headers[k].key) /\ Inside(parser, parser.headers[k].value)
    BY <2>1 DEF Inv, Positions
  <2> QED
    BY <1>2, <2>1, <2>2, <2>3 DEF Header
<1>5. q.cur <= size /\ q.contentStart <= q.cur
  BY <1>1 DEF Inv, Positions
<1>6. q \in ParserWith({q.urlBuffer})
  BY ParserType
<1> QED
  BY <1>3, <1>4, <1>5, <1>6 DEF Positions

\* The same when nothing more is remembered.
LEMMA MoveForwardFine ==
  ASSUME Inv, NEW s \in States \ {"finishOk"}, NEW i \in parser.cur .. size,
         Move(s, i)
  PROVE  Inv'
<1> DEFINE B == {parser.urlBuffer}
           q == [parser EXCEPT !.state = s, !.cur = i]
<1>1. parser \in ParserWith(B) /\ i \in Nat
  BY SizeType DEF Inv, Positions, ParserWith
<1> HIDE DEF B
<1>2. /\ q \in ParserWith(B) /\ q.cur = i /\ q.state # "finishOk"
      /\ q.contentStart = parser.contentStart /\ q.url = parser.url
      /\ q.curKey = parser.curKey /\ q.headers = parser.headers
  BY <1>1 DEF ParserWith
<1>3. MoveTo(q)
  BY DEF Move
<1> HIDE DEF q
<1>4. Positions(q)
  BY <1>2, ForwardFine
<1> QED
  BY <1>3, <1>4, MoveFine

\* The end of the request.
LEMMA FinishFine ==
  ASSUME Inv, NEW q, Positions([q EXCEPT !.state = "finishOk"]), Finish(q)
  PROVE  Inv'
BY DEF Inv, Finish, Positions, Inside, size, text

----------------------------------------------------------------------------
(* The actions *)

LEMMA InitInv == Init => Inv
<1> SUFFICES ASSUME Init PROVE Inv
  OBVIOUS
<1>1. /\ heads \in Heads /\ heads.readHead = 0 /\ heads.writeHead = 0
      /\ request \in Requests
  BY BufSizeAssumption DEF Init, clear, Heads
<1>2. size = 0 /\ Len(text) \in Nat
  BY <1>1, SizeType, TextType
<1>3. Positions(reset)
  BY <1>2 DEF Positions, ParserWith, reset, Inside, Empty, Field, States, Header
<1> QED
  BY <1>1, <1>2, <1>3 DEF Init, Inv

\* Reading more only makes size grow.
LEMMA ReadInv == Inv /\ ReadSome => Inv'
<1> SUFFICES ASSUME Inv, ReadSome PROVE Inv'
  OBVIOUS
<1>1. PICK n \in 1 .. WriteSize(heads) :
        size + n <= Len(text) /\ heads' = endWrite(heads, n)
  BY DEF ReadSome
<1>2. /\ heads' \in Heads /\ heads'.readHead = 0
      /\ heads'.writeHead = heads.writeHead + n
  BY <1>1, BufSizeAssumption
  DEF Inv, Heads, WriteSize, endWrite, startWrite
<1>3. size' = size + n /\ size \in Nat /\ size' \in Nat
  BY <1>1, <1>2, SizeType, BufSizeAssumption DEF Inv, size, Heads, ReadSize
<1>4. UNCHANGED <<request, parser>>
  BY DEF ReadSome
<1>5. Positions(parser)'
  BY <1>1, <1>3, <1>4 DEF Inv, Positions, ParserWith, Inside
<1> QED
  BY <1>1, <1>2, <1>3, <1>4, <1>5 DEF Inv, text

\* A field that reading from cur up to i has found lies before i.
LEMMA FoundType ==
  ASSUME Inv, NEW i \in parser.cur .. size
  PROVE  LET f == [start |-> parser.cur, length |-> i - parser.cur]
         IN i \in Nat /\ f \in Field /\ f.start + f.length = i
BY SizeType DEF Inv, Positions, ParserWith, Field

LEMMA ReadUrlInv == Inv /\ ReadUrl => Inv'
<1> SUFFICES ASSUME Inv, In("url"), NEW i \in parser.cur .. size,
                    NEW s \in {"spaceAfterUrl", "urlParameters"},
                    MoveTo([parser EXCEPT !.state = s, !.cur = i,
                              !.url = [start |-> parser.cur,
                                       length |-> i - parser.cur]])
             PROVE  Inv'
  BY StayFine DEF ReadUrl, Again, Refuse
<1> DEFINE B == {parser.urlBuffer}
           f == [start |-> parser.cur, length |-> i - parser.cur]
           q == [parser EXCEPT !.state = s, !.cur = i, !.url = f]
<1>1. parser \in ParserWith(B) /\ i \in Nat /\ f \in Field
      /\ f.start + f.length = i
  BY FoundType DEF Inv, Positions
<1> HIDE DEF B, f
<1>2. /\ q \in ParserWith(B) /\ q.cur = i /\ q.state # "finishOk"
      /\ q.contentStart = parser.contentStart /\ q.url = f
      /\ q.curKey = parser.curKey /\ q.headers = parser.headers
  BY <1>1 DEF ParserWith, States
<1>3. MoveTo(q)
  BY DEF f
<1> HIDE DEF q
<1>4. Positions(q)
  BY <1>1, <1>2, ForwardFine DEF Inside
<1> QED
  BY <1>3, <1>4, MoveFine

LEMMA ReadHeaderKeyInv == Inv /\ ReadHeaderKey => Inv'
<1> SUFFICES ASSUME Inv, NEW i \in parser.cur .. size,
                    MoveTo([parser EXCEPT !.state = "headerSpace", !.cur = i,
                              !.curKey = [start |-> parser.cur,
                                          length |-> i - parser.cur]])
             PROVE  Inv'
  BY StayFine DEF ReadHeaderKey, Again, Refuse
<1> DEFINE B == {parser.urlBuffer}
           f == [start |-> parser.cur, length |-> i - parser.cur]
           q == [parser EXCEPT !.state = "headerSpace", !.cur = i, !.curKey = f]
<1>1. parser \in ParserWith(B) /\ i \in Nat /\ f \in Field
      /\ f.start + f.length = i
  BY FoundType DEF Inv, Positions
<1> HIDE DEF B, f
<1>2. /\ q \in ParserWith(B) /\ q.cur = i /\ q.state # "finishOk"
      /\ q.contentStart = parser.contentStart /\ q.url = parser.url
      /\ q.curKey = f /\ q.headers = parser.headers
  BY <1>1 DEF ParserWith, States
<1>3. MoveTo(q)
  BY DEF f
<1> HIDE DEF q
<1>4. Positions(q)
  BY <1>1, <1>2, ForwardFine DEF Inside
<1> QED
  BY <1>3, <1>4, MoveFine

\* A header is added to those that were read, and lies before i.
LEMMA ReadHeaderValueInv == Inv /\ ReadHeaderValue => Inv'
<1> USE DEF HeaderAt
<1> DEFINE h(i) == HeaderAt(i)
<1> SUFFICES ASSUME Inv, NEW i \in parser.cur .. size,
                    ~(Compares(Slice(parser.curKey), ContentLength)
                      /\ i - parser.cur > BUF_CHARS),
                    MoveTo([parser EXCEPT
                      !.state = "headerLineBreak", !.cur = i,
                      !.headers = Append(@, h(i)),
                      !.contentLength =
                        ContentLengthAfter(Slice(h(i).key), Slice(h(i).value), @)])
             PROVE  Inv'
  BY StayFine DEF ReadHeaderValue, Again, Refuse
<1> DEFINE B == {parser.urlBuffer}
           f == [start |-> parser.cur, length |-> i - parser.cur]
           g == [key |-> parser.curKey, value |-> f]
           n == ContentLengthAfter(Slice(parser.curKey), Slice(f), parser.contentLength)
           hs == Append(parser.headers, g)
           q == [parser EXCEPT !.state = "headerLineBreak", !.cur = i,
                               !.headers = hs, !.contentLength = n]
<1>1. parser \in ParserWith(B) /\ i \in Nat /\ f \in Field
      /\ f.start + f.length = i /\ f.length = i - parser.cur
  BY FoundType DEF Inv, Positions
<1>2. /\ size \in Nat /\ Len(text) \in Nat /\ parser.cur \in Nat
      /\ parser.contentLength \in Int /\ i <= Len(text) /\ i <= size
      /\ parser.cur <= i /\ parser.contentStart \in Nat
      /\ parser.headers \in Seq(Header) /\ parser.curKey \in Field
      /\ parser.url \in Field
  BY <1>1, SizeType, TextType DEF Inv, ParserWith
<1>3. n \in Int
  <2>1. CASE Compares(Slice(parser.curKey), ContentLength)
    <3>1. f.length \in 0 .. BUF_CHARS
      BY <2>1, <1>1, <1>2, LimitsAssumption DEF Field
    <3>2. Slice(f) \in [1 .. f.length -> Symbols]
      BY <1>1, <1>2, SliceType DEF Inv
    <3> QED
      BY <2>1, <3>1, <3>2, AtoiAssumption DEF ContentLengthAfter
  <2>2. CASE ~Compares(Slice(parser.curKey), ContentLength)
    BY <2>2, <1>2 DEF ContentLengthAfter
  <2> QED
    BY <2>1, <2>2
<1>4. g \in Header /\ g.key = parser.curKey /\ g.value = f
  BY <1>1, <1>2 DEF Header
<1> HIDE DEF B, f, n, g
<1>5. /\ hs \in Seq(Header) /\ Len(hs) = Len(parser.headers) + 1
      /\ \A k \in 1 .. Len(parser.headers) : hs[k] = parser.headers[k]
      /\ hs[Len(parser.headers) + 1] = g
  BY <1>2, <1>4
<1> HIDE DEF hs
<1>6. /\ q \in ParserWith(B) /\ q.cur = i /\ q.state # "finishOk"
      /\ q.contentStart = parser.contentStart /\ q.url = parser.url
      /\ q.curKey = parser.curKey /\ q.headers = hs
  BY <1>1, <1>3, <1>5 DEF ParserWith, States
<1>7. MoveTo(q)
  BY DEF f, g, n, hs
<1> HIDE DEF q
<1>8. \A z \in Field : Inside(parser, z) => Inside(q, z)
  BY <1>2, <1>6 DEF Inside, Field
<1>9. Inside(q, q.url) /\ Inside(q, q.curKey) /\ Inside(q, f)
  BY <1>1, <1>2, <1>6, <1>8 DEF Inv, Positions, Inside
<1>10. ASSUME NEW k \in 1 .. Len(hs)
       PROVE  Inside(q, hs[k].key) /\ Inside(q, hs[k].value)
  <2>1. CASE k = Len(parser.headers) + 1
    BY <2>1, <1>4, <1>5, <1>6, <1>9
  <2>2. CASE k # Len(parser.headers) + 1
    <3>1. k \in 1 .. Len(parser.headers)
      BY <2>2, <1>2, <1>5
    <3>2. hs[k] = parser.headers[k] /\ parser.headers[k] \in Header
      BY <3>1, <1>2, <1>5
    <3>3. /\ Inside(parser, parser.headers[k].key)
          /\ Inside(parser, parser.headers[k].value)
      BY <3>1 DEF Inv, Positions
    <3> QED
      BY <3>2, <3>3, <1>8 DEF Header
  <2> QED
    BY <2>1, <2>2
<1>11. q.cur <= size /\ q.contentStart <= q.cur
  BY <1>2, <1>6 DEF Inv, Positions
<1>12. q \in ParserWith({q.urlBuffer})
  BY <1>6, ParserType
<1>13. Positions(q)
  BY <1>6, <1>9, <1>10, <1>11, <1>12 DEF Positions
<1> QED
  BY <1>7, <1>13, MoveFine

\* The empty line: without content the request ends here.
LEMMA ReadHeaderLineBreakInv == Inv /\ ReadHeaderLineBreak => Inv'
<1> SUFFICES ASSUME Inv, parser.contentLength = 0, Finish(parser) PROVE Inv'
  BY StayFine, MoveForwardFine DEF ReadHeaderLineBreak, Again, States
<1> DEFINE B == {parser.urlBuffer}
           q == [parser EXCEPT !.state = "finishOk"]
<1>1. parser \in ParserWith(B) /\ size \in Nat
  BY SizeType DEF Inv, Positions
<1> HIDE DEF B
<1>2. /\ q \in ParserWith(B) /\ q.cur = parser.cur /\ q.url = parser.url
      /\ q.contentStart = parser.contentStart /\ q.contentLength = 0
      /\ q.curKey = parser.curKey /\ q.headers = parser.headers
  BY <1>1 DEF ParserWith, States
<1>3. parser.cur \in Nat /\ parser.contentStart \in Nat
  BY <1>1 DEF ParserWith
<1> HIDE DEF q
<1>4. Positions(q)
  BY <1>1, <1>2, <1>3, ParserType DEF Inv, Positions, Inside
<1> QED
  BY <1>4, FinishFine DEF q

\* The content has arrived, all of it.
LEMMA ReadContentInv == Inv /\ ReadContent => Inv'
<1> SUFFICES ASSUME Inv, ContentArrived,
                    Finish([parser EXCEPT !.contentStart = parser.cur])
             PROVE  Inv'
  BY StayFine DEF ReadContent, Again
<1> DEFINE B == {parser.urlBuffer}
           p == [parser EXCEPT !.contentStart = parser.cur]
           q == [p EXCEPT !.state = "finishOk"]
<1>1. parser \in ParserWith(B) /\ size \in Nat
  BY SizeType DEF Inv, Positions
<1> HIDE DEF B
<1>2. parser.cur \in Nat /\ parser.contentLength \in Int
  BY <1>1 DEF ParserWith
<1>3. /\ q \in ParserWith(B) /\ q.cur = parser.cur /\ q.url = parser.url
      /\ q.contentStart = parser.cur /\ q.contentLength = parser.contentLength
      /\ q.curKey = parser.curKey /\ q.headers = parser.headers
  BY <1>1 DEF ParserWith, States
<1> HIDE DEF q
<1>4. Positions(q)
  BY <1>1, <1>2, <1>3, ParserType DEF Inv, Positions, Inside, ContentArrived
<1> QED
  BY <1>4, FinishFine DEF q

\* decodeUrl() changes the urlBuffer only.
LEMMA DecodeUrlInv == Inv /\ DecodeUrl => Inv'
<1> SUFFICES ASSUME Inv, NEW u, parser' = [parser EXCEPT !.urlBuffer = u],
                    UNCHANGED <<request, heads>>
             PROVE  Inv'
  BY StayFine DEF DecodeUrl, Refuse
<1> DEFINE q == [parser EXCEPT !.urlBuffer = u]
<1>1. parser \in ParserWith({parser.urlBuffer})
  BY DEF Inv, Positions
<1>2. /\ q \in ParserWith({u}) /\ q.cur = parser.cur /\ q.url = parser.url
      /\ q.contentStart = parser.contentStart
      /\ q.contentLength = parser.contentLength /\ q.state = parser.state
      /\ q.curKey = parser.curKey /\ q.headers = parser.headers
  BY <1>1 DEF ParserWith
<1> HIDE DEF q
<1>3. Positions(q)
  BY <1>2, ParserType DEF Inv, Positions, Inside
<1>4. parser' = q /\ size' = size /\ text' = text
  BY DEF q, size, text
<1>5. Positions(parser)'
  BY <1>3, <1>4 DEF Positions, Inside
<1> QED
  BY <1>4, <1>5 DEF Inv

LEMMA NextInv == Inv /\ [Next]_vars => Inv'
<1> SUFFICES ASSUME Inv, [Next]_vars PROVE Inv'
  OBVIOUS
<1>1. CASE ReadSome
  BY <1>1, ReadInv
<1>2. CASE ReadNothing \/ NoRoom \/ ReadFails \/ Finished \/ Decide \/ UNCHANGED vars
  BY <1>2, StayFine
  DEF ReadNothing, NoRoom, ReadFails, RemoveConnection, Finished, Decide, Refuse, vars
<1>3. CASE ParseInternal
  <2>1. CASE ReadMethod
    BY <2>1, StayFine, MoveForwardFine DEF ReadMethod, Again, Refuse, States
  <2>2. CASE ReadSpaceAfterMethod
    BY <2>2, StayFine, MoveForwardFine DEF ReadSpaceAfterMethod, Again, Refuse, States
  <2>3. CASE ReadUrlParameters
    BY <2>3, StayFine, MoveForwardFine DEF ReadUrlParameters, vars, States
  <2>4. CASE ReadToNextLine
    <3>1. \A i \in parser.cur .. size : \A j \in i .. size : j \in parser.cur .. size
      BY SizeType DEF Inv, Positions, ParserWith
    <3> QED
      BY <2>4, <3>1, StayFine, MoveForwardFine DEF ReadToNextLine, Again, Refuse, States
  <2>5. CASE ReadHeaderSpace
    BY <2>5, StayFine, MoveForwardFine DEF ReadHeaderSpace, Again, Refuse, States
  <2> QED
    BY <1>3, <2>1, <2>2, <2>3, <2>4, <2>5, ReadUrlInv, ReadHeaderKeyInv,
       ReadHeaderValueInv, ReadHeaderLineBreakInv, ReadContentInv
    DEF ParseInternal
<1>4. CASE DecodeUrl
  BY <1>4, DecodeUrlInv
<1> QED
  BY <1>1, <1>2, <1>3, <1>4 DEF Next, Parse

----------------------------------------------------------------------------
(* The theorem *)

\* The invariant of the parser: what it remembers is typed and lies in what
\* has arrived, for all requests (HttpRequest.cpp:522-718).
THEOREM Invariance == Spec => []Inv
<1>1. Init => Inv
  BY InitInv
<1>2. Inv /\ [Next]_vars => Inv'
  BY NextInv
<1> QED
  BY <1>1, <1>2, PTL DEF Spec

\* No field of the parser ever points behind the bytes that were received,
\* whatever the client sends and however it arrives.
THEOREM FieldsStayInside == Spec => []FieldsInside
<1>1. Inv => FieldsInside
  BY DEF Inv, Positions, Inside, FieldsInside
<1> QED
  BY <1>1, Invariance, PTL
----------------------------------------------------------------------------
(* What the urls are decoded into *)

\* What percentDecode() makes a url of.
Decoded == Symbols \cup {"NUL"}

LEMMA HexType == \A h, l : hex2int(h, l) \in Decoded
<1> SUFFICES ASSUME NEW h, NEW l PROVE hex2int(h, l) \in Decoded
  OBVIOUS
<1>1. {" ", ".", "NUL", "*"} \subseteq Decoded
  BY DEF Decoded, Symbols
<1>2. hex2int(h, l) \in {" ", ".", "NUL", "*"}
  BY DEF hex2int
<1> QED BY <1>1, <1>2

\* The url from its symbol i on, when dst holds that of the later symbols.
DecodedAt(src, n, dst, i) ==
  IF i > n THEN <<>>
  ELSE IF src[i] = "%" /\ i + 2 <= n
  THEN <<hex2int(src[i + 1], src[i + 2])>> \o dst[i + 3]
  ELSE <<src[i]>> \o dst[i + 1]

DecodedFrom(src, n, dst, k) ==
  /\ dst \in [1 .. n + 1 -> Seq(Decoded)]
  /\ \A i \in k .. n + 1 : dst[i] = DecodedAt(src, n, dst, i)

LEMMA DecodedAtType ==
  ASSUME NEW n \in Nat, NEW src \in [1 .. n -> Symbols], NEW i \in 1 .. n,
         NEW dst, \A j \in i + 1 .. n + 1 : dst[j] \in Seq(Decoded)
  PROVE  DecodedAt(src, n, dst, i) \in Seq(Decoded)
<1>1. \A c \in Decoded : \A s \in Seq(Decoded) : <<c>> \o s \in Seq(Decoded)
  OBVIOUS
<1>2. CASE src[i] = "%" /\ i + 2 <= n
  <2>1. i + 3 \in i + 1 .. n + 1 /\ ~(i > n)
    BY <1>2
  <2>2. dst[i + 3] \in Seq(Decoded) /\ hex2int(src[i + 1], src[i + 2]) \in Decoded
    BY <2>1, HexType
  <2> QED BY <1>1, <1>2, <2>1, <2>2 DEF DecodedAt
<1>3. CASE ~(src[i] = "%" /\ i + 2 <= n)
  <2>1. i + 1 \in i + 1 .. n + 1 /\ ~(i > n)
    OBVIOUS
  <2>2. dst[i + 1] \in Seq(Decoded) /\ src[i] \in Decoded
    BY <2>1 DEF Decoded
  <2> QED BY <1>1, <1>3, <2>1, <2>2 DEF DecodedAt
<1> QED BY <1>2, <1>3

\* One more symbol is decoded.
LEMMA DecodedMore ==
  ASSUME NEW n \in Nat, NEW src \in [1 .. n -> Symbols], NEW k \in 1 .. n,
         NEW f, DecodedFrom(src, n, f, k + 1)
  PROVE  \E g : DecodedFrom(src, n, g, k)
<1> PICK v : v = DecodedAt(src, n, f, k)
  OBVIOUS
<1> PICK g : g = [f EXCEPT ![k] = v]
  OBVIOUS
<1>1. v \in Seq(Decoded)
  BY DecodedAtType DEF DecodedFrom
<1>2. /\ g \in [1 .. n + 1 -> Seq(Decoded)] /\ g[k] = v
      /\ \A j \in k + 1 .. n + 1 : g[j] = f[j]
  BY <1>1 DEF DecodedFrom
<1>3. ASSUME NEW i \in k .. n + 1
      PROVE  DecodedAt(src, n, g, i) = DecodedAt(src, n, f, i)
  <2>1. /\ i <= n => g[i + 1] = f[i + 1]
        /\ i + 2 <= n => g[i + 3] = f[i + 3]
    BY <1>2
  <2> QED BY <2>1 DEF DecodedAt
<1>4. ASSUME NEW i \in k .. n + 1 PROVE g[i] = DecodedAt(src, n, g, i)
  <2>1. CASE i = k
    BY <2>1, <1>2, <1>3
  <2>2. CASE i # k
    <3>1. i \in k + 1 .. n + 1
      BY <2>2
    <3> QED BY <3>1, <1>2, <1>3 DEF DecodedFrom
  <2> QED BY <2>1, <2>2
<1>5. DecodedFrom(src, n, g, k)
  BY <1>2, <1>4 DEF DecodedFrom
<1> QED BY <1>5

LEMMA DecodedExists ==
  ASSUME NEW n \in Nat, NEW src \in [1 .. n -> Symbols]
  PROVE  \E dst : DecodedFrom(src, n, dst, 1)
<1> DEFINE T == {k \in 1 .. n + 1 : \E dst : DecodedFrom(src, n, dst, k)}
<1>1. n + 1 \in T
  <2> PICK dst : dst = [i \in 1 .. n + 1 |-> <<>>]
    OBVIOUS
  <2>1. DecodedFrom(src, n, dst, n + 1)
    BY DEF DecodedFrom, DecodedAt
  <2> QED BY <2>1
<1>2. \A k \in 1 .. n : k + 1 \in T => k \in T
  BY DecodedMore
<1> HIDE DEF T
<1>3. \A k \in 1 .. n + 1 : k \in T
  BY <1>1, <1>2, InductionDownFrom
<1> QED BY <1>3 DEF T

\* A url of symbols is decoded into symbols, and ends of strings.
LEMMA DecodeType ==
  ASSUME NEW src \in Seq(Symbols)
  PROVE  percentDecode(src) \in Seq(Decoded)
<1> DEFINE Body(f) == [i \in 1 .. Len(src) + 1 |->
                         IF i > Len(src) THEN <<>>
                         ELSE IF src[i] = "%" /\ i + 2 <= Len(src)
                         THEN <<hex2int(src[i + 1], src[i + 2])>> \o f[i + 3]
                         ELSE <<src[i]>> \o f[i + 1]]
           dst == CHOOSE f : f = Body(f)
<1>1. Len(src) \in Nat /\ src \in [1 .. Len(src) -> Symbols]
  OBVIOUS
<1>2. percentDecode(src) = dst[1]
  BY Zenon DEF percentDecode
<1>3. \E f : f = Body(f)
  <2>1. PICK f : DecodedFrom(src, Len(src), f, 1)
    BY <1>1, DecodedExists
  <2>2. f = Body(f)
    BY <2>1 DEF DecodedFrom, DecodedAt
  <2> QED BY <2>2
<1> HIDE DEF dst
<1>4. dst = Body(dst)
  BY <1>3, Zenon DEF dst
<1> PICK n : n = Len(src)
  OBVIOUS
<1>5. n \in Nat /\ src \in [1 .. n -> Symbols]
  BY <1>1
<1>6. \A i \in 1 .. n + 1 : dst[i] = DecodedAt(src, n, dst, i)
  BY <1>4 DEF DecodedAt
<1> HIDE DEF Body
<1> DEFINE T == {k \in 1 .. n + 1 : \A j \in k .. n + 1 : dst[j] \in Seq(Decoded)}
<1>7. n + 1 \in T
  <2>1. n + 1 \in 1 .. n + 1 /\ n + 1 > n /\ \A j \in n + 1 .. n + 1 : j = n + 1
    BY <1>5
  <2>2. dst[n + 1] = <<>>
    BY <2>1, <1>6 DEF DecodedAt
  <2>3. <<>> \in Seq(Decoded)
    OBVIOUS
  <2> QED BY <2>1, <2>2, <2>3
<1>8. ASSUME NEW k \in 1 .. n, k + 1 \in T PROVE k \in T
  <2>1. \A j \in k + 1 .. n + 1 : dst[j] \in Seq(Decoded)
    BY <1>8
  <2>2. dst[k] \in Seq(Decoded)
    BY <2>1, <1>5, <1>6, DecodedAtType
  <2> QED BY <2>1, <2>2, <1>5
<1> HIDE DEF T
<1>9. \A k \in 1 .. n + 1 : k \in T
  BY <1>5, <1>7, <1>8, InductionDownFrom
<1>10. 1 \in 1 .. n + 1
  BY <1>5
<1> QED BY <1>2, <1>9, <1>10 DEF T

\* How far a string goes.
LEMMA SpanType ==
  ASSUME NEW s \in Seq(Decoded)
  PROVE  /\ SpanOf(s, Symbols) \in 0 .. Len(s)
         /\ \A k \in 1 .. SpanOf(s, Symbols) : s[k] \in Symbols
<1> DEFINE Ends(n) == (\A k \in 1 .. n : s[k] \in Symbols) /\ Char(s, n) \notin Symbols
<1>1. Len(s) \in Nat
  OBVIOUS
<1>2. \E n \in 0 .. Len(s) : Ends(n)
  <2> DEFINE T == {n \in 0 .. Len(s) : Char(s, n) \notin Symbols}
  <2>1. Len(s) \in T
    <3>1. Char(s, Len(s)) = "NUL"
      BY <1>1 DEF Char
    <3>2. "NUL" \notin Symbols
      BY DEF Symbols, Letters, Digits
    <3> QED BY <3>1, <3>2, <1>1
  <2>2. T \in SUBSET Nat
    BY <1>1
  <2>3. PICK n \in T : \A k \in T : n <= k
    BY <2>1, <2>2, LeastNumber
  <2>4. ASSUME NEW k \in 1 .. n PROVE s[k] \in Symbols
    <3>1. k - 1 \in 0 .. Len(s) /\ k - 1 < n /\ k - 1 < Len(s) /\ k - 1 + 1 = k
      BY <2>3, <1>1
    <3>2. k - 1 \notin T
      BY <3>1, <2>3
    <3> QED BY <3>1, <3>2 DEF Char
  <2>5. Ends(n) /\ n \in 0 .. Len(s)
    BY <2>3, <2>4
  <2> QED BY <2>5
<1> PICK n : n = CHOOSE k \in 0 .. Len(s) : Ends(k)
  OBVIOUS
<1>3. SpanOf(s, Symbols) = n
  BY Zenon DEF SpanOf
<1>4. n \in 0 .. Len(s) /\ Ends(n)
  BY <1>2, Zenon
<1> QED BY <1>3, <1>4

\* decodeUrl() gives a string of symbols.
LEMMA UrlType ==
  ASSUME NEW s \in Seq(Decoded)
  PROVE  SubSeq(s, 1, SpanOf(s, Symbols)) \in Seq(Symbols)
<1> PICK n : n = SpanOf(s, Symbols)
  OBVIOUS
<1>1. n \in Int /\ \A k \in 1 .. n : s[k] \in Symbols
  BY SpanType
<1> QED BY <1>1, SubSeqProperties

\* The proxy that is found is one of those configured.
LEMMA ProxyType == \A u : findProxy(u) \in Nat
<1> SUFFICES ASSUME NEW u PROVE findProxy(u) \in Nat
  OBVIOUS
<1> PICK found : found = {i \in DOMAIN Proxies : isUrlPrefix(u, Proxies[i].prefix)}
  OBVIOUS
<1>1. found \in SUBSET Nat
  <2>1. Len(Proxies) \in Nat /\ DOMAIN Proxies = 1 .. Len(Proxies)
    BY ProxiesAssumption
  <2> QED BY <2>1
<1>2. findProxy(u) = IF found = {} THEN 0 ELSE CHOOSE i \in found : \A j \in found : i <= j
  BY DEF findProxy
<1>3. CASE found = {}
  BY <1>2, <1>3
<1>4. CASE found # {}
  <2>1. \E i \in found : \A j \in found : i <= j
    BY <1>1, <1>4, LeastNumber
  <2>2. (CHOOSE i \in found : \A j \in found : i <= j) \in found
    BY <2>1, Zenon
  <2> QED BY <2>2, <1>1, <1>2, <1>4
<1> QED BY <1>3, <1>4

----------------------------------------------------------------------------
(* The types of the rest *)

TypeInv == pc \in Steps /\ outcome \in Outcome /\ parser.urlBuffer \in Seq(Symbols)

LEMMA OutcomeTypes ==
  /\ NoOutcome \in Outcome /\ Invalid \in Outcome
  /\ \A n \in Nat : [NoOutcome EXCEPT !.kind = "proxy", !.proxy = n] \in Outcome
  /\ \A u \in Seq(Symbols) :
       [NoOutcome EXCEPT !.kind = "file", !.file = fileNameBuffer(u)] \in Outcome
<1>1. \A u \in Seq(Symbols) : fileNameBuffer(u) \in Seq(Symbols \cup {"index.html"})
  <2> SUFFICES ASSUME NEW u \in Seq(Symbols)
               PROVE  fileNameBuffer(u) \in Seq(Symbols \cup {"index.html"})
    OBVIOUS
  <2>1. u \in Seq(Symbols \cup {"index.html"})
    OBVIOUS
  <2>2. <<"index.html">> \in Seq(Symbols \cup {"index.html"})
    OBVIOUS
  <2> QED BY <2>1, <2>2 DEF fileNameBuffer
<1>2. <<>> \in Seq(Symbols \cup {"index.html"})
  OBVIOUS
<1> QED BY <1>1, <1>2 DEF NoOutcome, Invalid, Outcome

LEMMA DecideType == Inv /\ TypeInv /\ Decide => TypeInv'
<1> SUFFICES ASSUME Inv, TypeInv, Decide PROVE TypeInv'
  OBVIOUS
<1> PICK u, proxy : u = parser.urlBuffer /\ proxy = findProxy(u)
  OBVIOUS
<1>1. u \in Seq(Symbols) /\ proxy \in Nat
  BY ProxyType DEF TypeInv
<1>2. /\ parser' = parser /\ pc' = "done"
      /\ outcome' \in {Invalid, [NoOutcome EXCEPT !.kind = "proxy", !.proxy = proxy],
                       [NoOutcome EXCEPT !.kind = "file", !.file = fileNameBuffer(u)]}
  BY Zenon DEF Decide, Refuse
<1>3. outcome' \in Outcome
  BY <1>1, <1>2, OutcomeTypes
<1> QED BY <1>2, <1>3 DEF TypeInv, Steps

LEMMA DecodeUrlType == Inv /\ TypeInv /\ DecodeUrl => TypeInv'
<1> SUFFICES ASSUME Inv, TypeInv, DecodeUrl PROVE TypeInv'
  OBVIOUS
<1>1. CASE Refuse
  BY <1>1, OutcomeTypes DEF Refuse, TypeInv, Steps
<1>2. CASE ~Refuse
  <2>1. PICK u : /\ parser' = [parser EXCEPT !.urlBuffer = u]
                 /\ u = SubSeq(percentDecode(Slice(parser.url)), 1,
                               SpanOf(percentDecode(Slice(parser.url)), Symbols))
                 /\ pc' = "parseRequest" /\ UNCHANGED outcome
    BY <1>2, Zenon DEF DecodeUrl
  <2>2. parser \in ParserWith({parser.urlBuffer}) /\ parser.url \in Field
    BY DEF Inv, Positions, ParserWith
  <2>3. Slice(parser.url) \in Seq(Symbols)
    <3>1. parser.url.start + parser.url.length <= Len(text)
      BY <2>2, SizeType, TextType DEF Inv, Positions, Inside, Field, ParserWith
    <3>2. /\ Slice(parser.url) \in [1 .. parser.url.length -> Symbols]
          /\ parser.url.length \in Nat
      BY <3>1, <2>2, SliceType DEF Inv, Field
    <3> QED BY <3>2
  <2>4. u \in Seq(Symbols)
    BY <2>1, <2>3, DecodeType, UrlType
  <2>5. parser'.urlBuffer = u
    BY <2>1, <2>2 DEF ParserWith
  <2> QED BY <2>1, <2>4, <2>5 DEF TypeInv, Steps
<1> QED BY <1>1, <1>2

\* parse() changes urlBuffer nowhere else.
LEMMA BufferKept ==
  ASSUME Inv, ParseInternal
  PROVE  parser'.urlBuffer = parser.urlBuffer
<1>1. parser \in ParserWith({parser.urlBuffer})
  BY DEF Inv, Positions
\* An assignment to other fields leaves urlBuffer alone.
<1>2. /\ \A s, i : [parser EXCEPT !.state = s, !.cur = i].urlBuffer = parser.urlBuffer
      /\ \A s : [parser EXCEPT !.state = s].urlBuffer = parser.urlBuffer
  BY <1>1 DEF ParserWith
<1>3. /\ \A s, i : Move(s, i) => parser'.urlBuffer = parser.urlBuffer
      /\ Finish(parser) => parser'.urlBuffer = parser.urlBuffer
  <2>1. ASSUME NEW s, NEW i, Move(s, i) PROVE parser'.urlBuffer = parser.urlBuffer
    <3>1. parser' = [parser EXCEPT !.state = s, !.cur = i]
      BY <2>1 DEF Move, MoveTo
    <3> QED BY <3>1, <1>2
  <2>2. ASSUME Finish(parser) PROVE parser'.urlBuffer = parser.urlBuffer
    <3>1. parser' = [parser EXCEPT !.state = "finishOk"]
      BY <2>2 DEF Finish
    <3> QED BY <3>1, <1>2
  <2> QED BY <2>1, <2>2
<1>4. Again \/ Refuse \/ UNCHANGED vars => parser' = parser
  BY DEF Again, Refuse, vars
<1>5. CASE ReadUrl
  <2> SUFFICES ASSUME NEW s, NEW i,
                      MoveTo([parser EXCEPT !.state = s, !.cur = i,
                                !.url = [start |-> parser.cur,
                                         length |-> i - parser.cur]])
               PROVE  parser'.urlBuffer = parser.urlBuffer
    BY <1>4, <1>5 DEF ReadUrl
  <2> QED BY <1>1 DEF MoveTo, ParserWith
<1>6. CASE ReadHeaderKey
  <2> SUFFICES ASSUME NEW i,
                      MoveTo([parser EXCEPT !.state = "headerSpace", !.cur = i,
                                !.curKey = [start |-> parser.cur,
                                            length |-> i - parser.cur]])
               PROVE  parser'.urlBuffer = parser.urlBuffer
    BY <1>4, <1>6 DEF ReadHeaderKey
  <2> QED BY <1>1 DEF MoveTo, ParserWith
<1>7. CASE ReadHeaderValue
  <2> SUFFICES ASSUME NEW i,
                      MoveTo([parser EXCEPT
                        !.state = "headerLineBreak", !.cur = i,
                        !.headers = Append(@, HeaderAt(i)),
                        !.contentLength =
                          ContentLengthAfter(Slice(HeaderAt(i).key),
                                             Slice(HeaderAt(i).value), @)])
               PROVE  parser'.urlBuffer = parser.urlBuffer
    BY <1>4, <1>7 DEF ReadHeaderValue
  <2> QED BY <1>1 DEF MoveTo, ParserWith
<1>8. CASE ReadHeaderLineBreak
  BY <1>3, <1>4, <1>8 DEF ReadHeaderLineBreak
<1>9. CASE ReadContent
  <2>1. \A s, c : [[parser EXCEPT !.contentStart = c] EXCEPT !.state = s].urlBuffer
                    = parser.urlBuffer
    BY <1>1 DEF ParserWith
  <2> QED BY <2>1, <1>4, <1>9 DEF ReadContent, Finish
<1>10. CASE ReadMethod
  BY <1>3, <1>4, <1>10 DEF ReadMethod
<1>11. CASE ReadSpaceAfterMethod
  BY <1>3, <1>4, <1>11 DEF ReadSpaceAfterMethod
<1>12. CASE ReadUrlParameters
  BY <1>3, <1>4, <1>12 DEF ReadUrlParameters
<1>13. CASE ReadToNextLine
  BY <1>3, <1>4, <1>13 DEF ReadToNextLine
<1>14. CASE ReadHeaderSpace
  BY <1>3, <1>4, <1>14 DEF ReadHeaderSpace
<1> QED
  BY <1>5, <1>6, <1>7, <1>8, <1>9, <1>10, <1>11, <1>12, <1>13, <1>14 DEF ParseInternal

LEMMA NextType == Inv /\ TypeInv /\ [Next]_vars => TypeInv'
<1> SUFFICES ASSUME Inv, TypeInv, [Next]_vars PROVE TypeInv'
  OBVIOUS
<1>1. CASE ReadSome \/ ReadNothing \/ NoRoom \/ ReadFails \/ Finished \/ UNCHANGED vars
  BY <1>1 DEF ReadSome, ReadNothing, NoRoom, ReadFails, RemoveConnection, Finished, vars,
              TypeInv, Steps
<1>2. CASE ParseInternal
  <2>1. pc' \in Steps /\ outcome' \in {outcome, Invalid}
    BY <1>2
    DEF ParseInternal, ReadMethod, ReadSpaceAfterMethod, ReadUrl, ReadUrlParameters,
        ReadToNextLine, ReadHeaderKey, ReadHeaderSpace, ReadHeaderValue,
        ReadHeaderLineBreak, ReadContent, Move, MoveTo, Again, Refuse, Finish, vars,
        TypeInv, Steps
  <2> QED BY <2>1, <1>2, BufferKept, OutcomeTypes DEF TypeInv
<1>3. CASE DecodeUrl
  BY <1>3, DecodeUrlType
<1>4. CASE Decide
  BY <1>4, DecideType
<1> QED BY <1>1, <1>2, <1>3, <1>4 DEF Next, Parse

\* Every variable keeps its type: whatever is sent, a request is only ever
\* served by a file whose name is a decoded url, or by a proxy that is
\* configured (HttpRequest.cpp:522-718, RequestExecutor.cpp:145-206).
THEOREM TypeCorrect == Spec => []TypeOK
<1>1. Init => TypeInv
  <2>1. reset.urlBuffer = <<>> /\ <<>> \in Seq(Symbols)
    BY DEF reset
  <2> QED BY <2>1, OutcomeTypes DEF Init, TypeInv, Steps
<1>2. Inv /\ TypeInv => TypeOK
  <2> SUFFICES ASSUME Inv, TypeInv PROVE TypeOK
    OBVIOUS
  <2>1. parser \in Parser
    BY DEF Inv, Positions, TypeInv, ParserWith, Parser
  <2> QED BY <2>1, TextType DEF Inv, TypeInv, TypeOK
<1> QED BY <1>1, <1>2, NextType, Invariance, PTL DEF Spec

----------------------------------------------------------------------------
(* What the parser remembers is the request *)

BeforeUrl == {"method", "spaceAfterMethod", "url"}
BeforeHeaders == BeforeUrl \cup {"urlParameters", "spaceAfterUrl"}

LastEnd(headers) == End(headers[Len(headers)].value)

\* A key may start at k, behind the line breaks that follow the headers.
KeyStarts(headers, k) ==
  /\ k > 0 /\ text[k] \in LineBreaks
  /\ headers # <<>> => Within(LastEnd(headers), LineBreaks, k)

HeadersAsSent(headers) ==
  /\ \A n \in 1 .. Len(headers) : HeaderAsSent(headers[n])
  /\ \A n \in 2 .. Len(headers) :
       Within(End(headers[n - 1].value), LineBreaks, headers[n].key.start)

\* Where the parser q stands in the request, in each of its states.
Reached(q) ==
  /\ q.state \in BeforeHeaders => q.headers = <<>>
  /\ q.state = "spaceAfterMethod" => text[q.cur + 1] = " "
  /\ q.state = "url" => q.cur > 0 /\ text[q.cur] = " "
  /\ q.state = "headerKey" => KeyStarts(q.headers, q.cur)
  /\ q.state \in {"headerSpace", "headerValue"} =>
       KeyAsSent(q.curKey) /\ KeyStarts(q.headers, q.curKey.start)
  /\ q.state = "headerSpace" => q.cur = End(q.curKey)
  /\ q.state = "headerValue" =>
       /\ Within(End(q.curKey), {":", " "}, q.cur)
       /\ text[q.cur] \in {":", " "}
       /\ text[q.cur + 1] \in Symbols \ ({":", " "} \cup LineBreaks)
  /\ q.state = "headerLineBreak" =>
       /\ q.headers # <<>> /\ q.cur = LastEnd(q.headers)
       /\ text[q.cur + 1] \in LineBreaks

\* The inductive invariant.
AsSent(q) ==
  /\ q.state \notin BeforeUrl => UrlAsSent(q.url)
  /\ HeadersAsSent(q.headers)
  /\ Reached(q)

LEMMA InitSent == Init => AsSent(parser)
<1> SUFFICES ASSUME Init PROVE AsSent(parser)
  OBVIOUS
<1>1. parser.state = "method" /\ parser.headers = <<>>
  BY DEF Init, reset
<1> QED
  BY <1>1 DEF AsSent, Reached, HeadersAsSent, BeforeUrl, BeforeHeaders

\* What is remembered of a text stays true of it.
LEMMA SentKept ==
  ASSUME NEW q, AsSent(q), parser' = q, UNCHANGED request
  PROVE  AsSent(parser)'
<1>1. parser' = q /\ text' = text
  BY DEF text
<1>2. (parser.state \notin BeforeUrl => UrlAsSent(parser.url))'
  BY <1>1 DEF AsSent, UrlAsSent, Within, End, BeforeUrl
<1>3. HeadersAsSent(parser.headers)'
  BY <1>1 DEF AsSent, HeadersAsSent, HeaderAsSent, KeyAsSent, Within, End
<1>4. Reached(parser)'
  BY <1>1 DEF AsSent, Reached, KeyStarts, KeyAsSent, LastEnd, Within, End,
              BeforeUrl, BeforeHeaders
<1> QED BY <1>2, <1>3, <1>4 DEF AsSent

----------------------------------------------------------------------------
(* Scans and what they have read *)

\* Where a scan stops at a symbol, it is one that has arrived.
LEMMA Stopped ==
  ASSUME Inv, NEW i \in parser.cur .. size
  PROVE  /\ i \in Nat /\ parser.cur \in Nat /\ parser.cur <= i
         /\ At(i) # "end" => At(i) = text[i + 1] /\ text[i + 1] \in Symbols
<1>1. /\ size \in Nat /\ Len(text) \in Nat /\ size <= Len(text) /\ parser.cur \in Nat
      /\ i \in Nat /\ parser.cur <= i
  BY SizeType, TextType DEF Inv, Positions, ParserWith
<1>2. ASSUME At(i) # "end" PROVE At(i) = text[i + 1] /\ text[i + 1] \in Symbols
  <2>1. i < size /\ At(i) = text[i + 1]
    BY <1>1, <1>2 DEF At
  <2>2. i + 1 \in 1 .. Len(text)
    BY <1>1, <2>1
  <2> QED BY <2>1, <2>2, TextType DEF Inv
<1> QED BY <1>1, <1>2

\* A scan that begins with a symbol of S reads it.
LEMMA Reads ==
  ASSUME Inv, NEW S, NEW i \in parser.cur .. size, Scans(parser.cur, S, i),
         At(i) # "end", text[parser.cur + 1] \in S
  PROVE  parser.cur < i /\ i > 0 /\ text[i] \in S /\ Within(parser.cur, S, i)
<1>1. i \in Nat /\ parser.cur \in Nat /\ parser.cur <= i /\ At(i) = text[i + 1]
  BY Stopped
<1>2. i # parser.cur
  BY <1>1 DEF Scans
<1>3. i \in parser.cur + 1 .. i
  BY <1>1, <1>2
<1> QED BY <1>1, <1>2, <1>3 DEF Scans, Within

\* The parser moves on and remembers nothing more.
LEMMA MoveSent ==
  ASSUME Inv, AsSent(parser), NEW s, NEW i, Move(s, i),
         s \notin BeforeUrl => parser.state \notin BeforeUrl,
         s \notin {"headerSpace", "headerLineBreak"},
         s \in BeforeHeaders => parser.headers = <<>>,
         s = "spaceAfterMethod" => text[i + 1] = " ",
         s = "url" => i > 0 /\ text[i] = " ",
         s = "headerKey" => KeyStarts(parser.headers, i),
         s = "headerValue" =>
           /\ KeyAsSent(parser.curKey) /\ KeyStarts(parser.headers, parser.curKey.start)
           /\ Within(End(parser.curKey), {":", " "}, i)
           /\ text[i] \in {":", " "}
           /\ text[i + 1] \in Symbols \ ({":", " "} \cup LineBreaks)
  PROVE  AsSent(parser)'
<1> DEFINE q == [parser EXCEPT !.state = s, !.cur = i]
<1>1. parser \in ParserWith({parser.urlBuffer})
  BY DEF Inv, Positions
<1>2. /\ q.state = s /\ q.cur = i /\ q.url = parser.url /\ q.curKey = parser.curKey
      /\ q.headers = parser.headers
  BY <1>1 DEF ParserWith
<1>3. parser' = q /\ UNCHANGED request
  BY DEF Move, MoveTo
<1> HIDE DEF q
<1>4. Reached(q)
  BY <1>2 DEF Reached
<1>5. AsSent(q)
  BY <1>2, <1>4 DEF AsSent
<1> QED BY <1>3, <1>5, SentKept

\* Steps after which the parser stands where it stood.
LEMMA StaySent ==
  ASSUME AsSent(parser), UNCHANGED <<request, parser>>
  PROVE  AsSent(parser)'
BY SentKept

\* The request is complete.
LEMMA FinishSent ==
  ASSUME AsSent(parser), NEW q, Finish(q), q \in ParserWith({q.urlBuffer}),
         q.url = parser.url, q.headers = parser.headers, parser.state \notin BeforeUrl
  PROVE  AsSent(parser)'
<1> DEFINE p == [q EXCEPT !.state = "finishOk"]
<1>1. p.state = "finishOk" /\ p.url = parser.url /\ p.headers = parser.headers
  BY DEF ParserWith
<1>2. parser' = p /\ UNCHANGED request
  BY DEF Finish
<1> HIDE DEF p
<1>3. Reached(p)
  BY <1>1 DEF Reached, BeforeHeaders, BeforeUrl
<1>4. AsSent(p)
  BY <1>1, <1>3 DEF AsSent
<1> QED BY <1>2, <1>4, SentKept

----------------------------------------------------------------------------
(* The states of parse() *)

LEMMA ReadMethodSent == Inv /\ AsSent(parser) /\ ReadMethod => AsSent(parser)'
<1> SUFFICES ASSUME Inv, AsSent(parser), parser.state = "method",
                    NEW i \in parser.cur .. size, At(i) = " ", Move("spaceAfterMethod", i)
             PROVE  AsSent(parser)'
  BY StaySent DEF ReadMethod, In, Again, Refuse
<1>1. text[i + 1] = " " /\ parser.headers = <<>>
  BY Stopped DEF AsSent, Reached, BeforeHeaders, BeforeUrl
<1> QED BY <1>1, MoveSent DEF BeforeUrl

LEMMA ReadSpaceAfterMethodSent ==
  Inv /\ AsSent(parser) /\ ReadSpaceAfterMethod => AsSent(parser)'
<1> SUFFICES ASSUME Inv, AsSent(parser), parser.state = "spaceAfterMethod",
                    NEW i \in parser.cur .. size, At(i) # "end",
                    Scans(parser.cur, {" "}, i), Move("url", i)
             PROVE  AsSent(parser)'
  BY StaySent DEF ReadSpaceAfterMethod, In, Again, Refuse
<1>1. text[parser.cur + 1] \in {" "} /\ parser.headers = <<>>
  BY DEF AsSent, Reached, BeforeHeaders, BeforeUrl
<1>2. i > 0 /\ text[i] \in {" "}
  BY <1>1, Reads
<1>3. text[i] = " "
  BY <1>2, Zenon
<1> QED BY <1>1, <1>2, <1>3, MoveSent DEF BeforeUrl

LEMMA ReadUrlSent == Inv /\ AsSent(parser) /\ ReadUrl => AsSent(parser)'
<1> DEFINE S == Letters \cup Digits \cup {"/", ".", "-", "%"}
<1> SUFFICES ASSUME Inv, AsSent(parser), parser.state = "url",
                    NEW i \in parser.cur .. size, At(i) \in {" ", "?"},
                    Scans(parser.cur, S, i),
                    NEW s \in {"spaceAfterUrl", "urlParameters"},
                    MoveTo([parser EXCEPT !.state = s, !.cur = i,
                              !.url = [start |-> parser.cur, length |-> i - parser.cur]])
             PROVE  AsSent(parser)'
  BY StaySent DEF ReadUrl, In, Again, Refuse
<1> DEFINE f == [start |-> parser.cur, length |-> i - parser.cur]
           q == [parser EXCEPT !.state = s, !.cur = i, !.url = f]
<1>1. parser \in ParserWith({parser.urlBuffer})
  BY DEF Inv, Positions
<1>2. /\ parser.cur \in Nat /\ i \in Nat /\ text[i + 1] \in {" ", "?"}
      /\ f.start = parser.cur /\ End(f) = i
  <2>1. At(i) # "end"
    OBVIOUS
  <2>2. parser.cur \in Nat /\ i \in Nat /\ text[i + 1] = At(i)
    BY <2>1, Stopped
  <2>3. f.start = parser.cur /\ End(f) = i
    BY FoundType DEF End
  <2> QED BY <2>2, <2>3
<1>3. UrlAsSent(f)
  BY <1>2 DEF UrlAsSent, AsSent, Reached, Scans, Within
<1> HIDE DEF f
<1>4. q.state = s /\ q.url = f /\ q.headers = parser.headers
  BY <1>1 DEF ParserWith
<1>5. parser' = q /\ UNCHANGED request
  BY DEF MoveTo, f
<1> HIDE DEF q
<1>6. Reached(q) /\ HeadersAsSent(q.headers)
  BY <1>4 DEF AsSent, Reached, BeforeHeaders, BeforeUrl
<1>7. AsSent(q)
  BY <1>3, <1>4, <1>6 DEF AsSent
<1> QED BY <1>5, <1>7, SentKept

LEMMA ReadUrlParametersSent ==
  Inv /\ AsSent(parser) /\ ReadUrlParameters => AsSent(parser)'
<1> SUFFICES ASSUME Inv, AsSent(parser), parser.state = "urlParameters",
                    NEW i, Move("spaceAfterUrl", i)
             PROVE  AsSent(parser)'
  BY StaySent DEF ReadUrlParameters, In, vars
<1>1. parser.headers = <<>>
  BY DEF AsSent, Reached, BeforeHeaders
<1> QED BY <1>1, MoveSent DEF BeforeUrl

\* Behind the first line the first key starts.
LEMMA ReadToNextLineSent ==
  Inv /\ AsSent(parser) /\ ReadToNextLine => AsSent(parser)'
<1> SUFFICES ASSUME Inv, AsSent(parser), parser.state = "spaceAfterUrl",
                    NEW i \in parser.cur .. size, NEW j \in i .. size, At(j) # "end",
                    Scans(parser.cur, Symbols \ LineBreaks, i), Scans(i, LineBreaks, j),
                    Move("headerKey", j)
             PROVE  AsSent(parser)'
  BY StaySent DEF ReadToNextLine, In, Again, Refuse
<1>1. /\ i \in Nat /\ j \in Nat /\ size \in Nat /\ j \in parser.cur .. size /\ i <= j
  BY SizeType DEF Inv, Positions, ParserWith
<1>2. At(j) = text[j + 1] /\ text[j + 1] \in Symbols
  BY <1>1, Stopped
<1>3. i # j
  <2> SUFFICES ASSUME i = j PROVE FALSE
    OBVIOUS
  <2> QED BY <1>2 DEF Scans
<1>4. j > 0 /\ text[j] \in LineBreaks
  <2>1. j \in i + 1 .. j
    BY <1>1, <1>3
  <2> QED BY <1>1, <1>3, <2>1 DEF Scans
<1>5. parser.headers = <<>>
  BY DEF AsSent, Reached, BeforeHeaders
<1>6. KeyStarts(parser.headers, j)
  BY <1>4, <1>5 DEF KeyStarts
<1> QED BY <1>5, <1>6, MoveSent DEF BeforeUrl, BeforeHeaders

LEMMA ReadHeaderKeySent == Inv /\ AsSent(parser) /\ ReadHeaderKey => AsSent(parser)'
<1> SUFFICES ASSUME Inv, AsSent(parser), parser.state = "headerKey",
                    NEW i \in parser.cur .. size, At(i) = ":",
                    Scans(parser.cur, Letters \cup {"-"}, i),
                    MoveTo([parser EXCEPT !.state = "headerSpace", !.cur = i,
                              !.curKey = [start |-> parser.cur,
                                          length |-> i - parser.cur]])
             PROVE  AsSent(parser)'
  BY StaySent DEF ReadHeaderKey, In, Again, Refuse
<1> DEFINE f == [start |-> parser.cur, length |-> i - parser.cur]
           q == [parser EXCEPT !.state = "headerSpace", !.cur = i, !.curKey = f]
<1>1. parser \in ParserWith({parser.urlBuffer})
  BY DEF Inv, Positions
<1>2. /\ parser.cur \in Nat /\ i \in Nat /\ text[i + 1] = ":"
      /\ f.start = parser.cur /\ End(f) = i
  BY Stopped DEF End
<1>3. KeyStarts(parser.headers, parser.cur)
  BY DEF AsSent, Reached
<1>4. KeyAsSent(f) /\ KeyStarts(parser.headers, f.start)
  BY <1>2, <1>3 DEF KeyAsSent, KeyStarts, Scans, Within
<1> HIDE DEF f
<1>5. /\ q.state = "headerSpace" /\ q.url = parser.url /\ q.headers = parser.headers
      /\ q.curKey = f /\ q.cur = i
  BY <1>1 DEF ParserWith
<1>6. parser' = q /\ UNCHANGED request
  BY DEF MoveTo, f
<1> HIDE DEF q
<1>7. Reached(q)
  BY <1>2, <1>4, <1>5 DEF Reached, BeforeHeaders, BeforeUrl
<1>8. AsSent(q)
  BY <1>5, <1>7 DEF AsSent, BeforeUrl
<1> QED BY <1>6, <1>8, SentKept

LEMMA ReadHeaderSpaceSent ==
  Inv /\ AsSent(parser) /\ ReadHeaderSpace => AsSent(parser)'
<1> SUFFICES ASSUME Inv, AsSent(parser), parser.state = "headerSpace",
                    NEW i \in parser.cur .. size, At(i) # "end", At(i) \notin LineBreaks,
                    Scans(parser.cur, {":", " "}, i), Move("headerValue", i)
             PROVE  AsSent(parser)'
  BY StaySent DEF ReadHeaderSpace, In, Again, Refuse
<1>1. /\ KeyAsSent(parser.curKey) /\ KeyStarts(parser.headers, parser.curKey.start)
      /\ parser.cur = End(parser.curKey) /\ text[parser.cur + 1] \in {":", " "}
  BY DEF AsSent, Reached, KeyAsSent
<1>2. text[i] \in {":", " "} /\ Within(End(parser.curKey), {":", " "}, i)
  BY <1>1, Reads
<1>3. text[i + 1] \in Symbols \ ({":", " "} \cup LineBreaks)
  BY Stopped DEF Scans
<1> QED BY <1>1, <1>2, <1>3, MoveSent DEF BeforeUrl, BeforeHeaders

\* The header is complete.
LEMMA ReadHeaderValueSent ==
  Inv /\ AsSent(parser) /\ ReadHeaderValue => AsSent(parser)'
<1> DEFINE h(i) == HeaderAt(i)
           n(i) == ContentLengthAfter(Slice(h(i).key), Slice(h(i).value),
                                      parser.contentLength)
<1> SUFFICES ASSUME Inv, AsSent(parser), parser.state = "headerValue",
                    NEW i \in parser.cur .. size, At(i) # "end",
                    Scans(parser.cur, Symbols \ LineBreaks, i),
                    MoveTo([parser EXCEPT
                      !.state = "headerLineBreak", !.cur = i,
                      !.headers = Append(@, h(i)),
                      !.contentLength = ContentLengthAfter(Slice(h(i).key),
                                                           Slice(h(i).value), @)])
             PROVE  AsSent(parser)'
  BY StaySent DEF ReadHeaderValue, In, Again, Refuse
<1> PICK g : g = HeaderAt(i)
  OBVIOUS
<1> PICK hs : hs = Append(parser.headers, g)
  OBVIOUS
<1> PICK m : m = Len(parser.headers)
  OBVIOUS
<1>1. /\ parser \in ParserWith({parser.urlBuffer}) /\ parser.curKey \in Field
      /\ parser.headers \in Seq(Header) /\ m \in Nat /\ size \in Nat
  BY SizeType DEF Inv, Positions, ParserWith
<1>2. /\ parser.cur \in Nat /\ i \in Nat /\ parser.cur <= i
      /\ text[i + 1] = At(i) /\ text[i + 1] \in Symbols
  BY Stopped
<1>3. /\ KeyAsSent(parser.curKey) /\ KeyStarts(parser.headers, parser.curKey.start)
      /\ Within(End(parser.curKey), {":", " "}, parser.cur)
      /\ text[parser.cur] \in {":", " "}
      /\ text[parser.cur + 1] \in Symbols \ ({":", " "} \cup LineBreaks)
  BY DEF AsSent, Reached
<1>4. parser.cur < i /\ Within(parser.cur, Symbols \ LineBreaks, i)
  BY <1>3, Reads
<1>5. text[i + 1] \in LineBreaks
  BY <1>2 DEF Scans
<1>6. /\ g.key = parser.curKey /\ g.value.start = parser.cur
      /\ g.value.length > 0 /\ End(g.value) = i
  BY <1>2, <1>4 DEF HeaderAt, End
<1>7. HeaderAsSent(g)
  BY <1>3, <1>4, <1>5, <1>6 DEF HeaderAsSent
<1>8. /\ Len(hs) = m + 1 /\ hs[m + 1] = g /\ hs # <<>>
      /\ \A k \in 1 .. m : hs[k] = parser.headers[k]
  BY <1>1
<1>9. HeadersAsSent(hs)
  <2>1. ASSUME NEW k \in 1 .. Len(hs) PROVE HeaderAsSent(hs[k])
    <3>1. CASE k = m + 1
      BY <1>7, <1>8, <3>1
    <3>2. CASE k # m + 1
      <4>1. k \in 1 .. m
        BY <1>1, <1>8, <3>2
      <4> QED BY <1>8, <4>1 DEF AsSent, HeadersAsSent
    <3> QED BY <3>1, <3>2
  <2>2. ASSUME NEW k \in 2 .. Len(hs)
        PROVE  Within(End(hs[k - 1].value), LineBreaks, hs[k].key.start)
    <3>1. k - 1 \in 1 .. m
      BY <1>1, <1>8
    <3>2. CASE k = m + 1
      <4>1. parser.headers # <<>> /\ hs[k - 1] = parser.headers[m] /\ k - 1 = m
        BY <1>1, <1>8, <3>1, <3>2
      <4>2. Within(LastEnd(parser.headers), LineBreaks, parser.curKey.start)
        BY <1>3, <4>1 DEF KeyStarts
      <4> QED BY <1>6, <1>8, <3>2, <4>1, <4>2 DEF LastEnd
    <3>3. CASE k # m + 1
      <4>1. k \in 2 .. m
        BY <1>1, <1>8, <3>3
      <4>2. hs[k] = parser.headers[k] /\ hs[k - 1] = parser.headers[k - 1]
        BY <1>8, <3>1, <4>1
      <4> QED BY <4>1, <4>2 DEF AsSent, HeadersAsSent
    <3> QED BY <3>2, <3>3
  <2> QED BY <2>1, <2>2 DEF HeadersAsSent
<1>10. LastEnd(hs) = i
  BY <1>6, <1>8 DEF LastEnd
<1> DEFINE q == [parser EXCEPT !.state = "headerLineBreak", !.cur = i,
                               !.headers = hs, !.contentLength = n(i)]
<1>11. parser' = q /\ UNCHANGED request
  BY DEF MoveTo
<1> HIDE DEF n, h
<1>12. /\ q.state = "headerLineBreak" /\ q.cur = i /\ q.headers = hs
       /\ q.url = parser.url
  BY <1>1 DEF ParserWith
<1> HIDE DEF q
<1>13. Reached(q)
  BY <1>5, <1>8, <1>10, <1>12 DEF Reached, BeforeHeaders, BeforeUrl
<1>14. AsSent(q)
  BY <1>9, <1>12, <1>13 DEF AsSent, BeforeUrl
<1> QED BY <1>11, <1>14, SentKept

LEMMA ReadHeaderLineBreakSent ==
  Inv /\ AsSent(parser) /\ ReadHeaderLineBreak => AsSent(parser)'
<1> SUFFICES ASSUME Inv, AsSent(parser), parser.state = "headerLineBreak",
                    ReadHeaderLineBreak
             PROVE  AsSent(parser)'
  BY DEF ReadHeaderLineBreak, In
<1>1. /\ parser.headers # <<>> /\ parser.cur = LastEnd(parser.headers)
      /\ text[parser.cur + 1] \in LineBreaks
  BY DEF AsSent, Reached
<1>2. CASE Finish(parser)
  BY <1>2, FinishSent DEF Inv, Positions, BeforeUrl
<1>3. CASE Again
  BY <1>3, StaySent DEF Again
<1>4. ASSUME NEW i, Move("content", i) PROVE AsSent(parser)'
  BY <1>4, MoveSent DEF BeforeUrl, BeforeHeaders
<1>5. ASSUME NEW i \in parser.cur .. size, Scans(parser.cur, LineBreaks, i),
             At(i) # "end", Move("headerKey", i)
      PROVE  AsSent(parser)'
  <2>1. i > 0 /\ text[i] \in LineBreaks /\ Within(parser.cur, LineBreaks, i)
    BY <1>1, <1>5, Reads
  <2>2. KeyStarts(parser.headers, i)
    BY <1>1, <2>1 DEF KeyStarts
  <2> QED BY <1>5, <2>2, MoveSent DEF BeforeUrl, BeforeHeaders
<1> QED BY <1>2, <1>3, <1>4, <1>5 DEF ReadHeaderLineBreak

LEMMA ReadContentSent == Inv /\ AsSent(parser) /\ ReadContent => AsSent(parser)'
<1> SUFFICES ASSUME Inv, AsSent(parser), parser.state = "content",
                    Finish([parser EXCEPT !.contentStart = parser.cur])
             PROVE  AsSent(parser)'
  BY StaySent DEF ReadContent, In, Again
<1> DEFINE q == [parser EXCEPT !.contentStart = parser.cur]
<1>1. parser \in ParserWith({parser.urlBuffer}) /\ parser.cur \in Nat
  BY DEF Inv, Positions, ParserWith
<1>2. /\ q \in ParserWith({q.urlBuffer}) /\ q.url = parser.url
      /\ q.headers = parser.headers
  BY <1>1 DEF ParserWith
<1>3. Finish(q)
  OBVIOUS
<1> HIDE DEF q
<1> QED BY <1>2, <1>3, FinishSent DEF BeforeUrl

LEMMA DecodeUrlSent == Inv /\ AsSent(parser) /\ DecodeUrl => AsSent(parser)'
<1> SUFFICES ASSUME Inv, AsSent(parser), NEW u,
                    parser' = [parser EXCEPT !.urlBuffer = u], UNCHANGED request
             PROVE  AsSent(parser)'
  BY StaySent DEF DecodeUrl, Refuse
<1> DEFINE q == [parser EXCEPT !.urlBuffer = u]
<1>1. parser \in ParserWith({parser.urlBuffer})
  BY DEF Inv, Positions
<1>2. /\ q.state = parser.state /\ q.cur = parser.cur /\ q.url = parser.url
      /\ q.curKey = parser.curKey /\ q.headers = parser.headers
  BY <1>1 DEF ParserWith
<1>3. parser' = q
  OBVIOUS
<1> HIDE DEF q
<1>4. Reached(q)
  BY <1>2 DEF AsSent, Reached
<1>5. AsSent(q)
  BY <1>2, <1>4 DEF AsSent
<1> QED BY <1>3, <1>5, SentKept

LEMMA NextSent == Inv /\ AsSent(parser) /\ [Next]_vars => AsSent(parser)'
<1> SUFFICES ASSUME Inv, AsSent(parser), [Next]_vars PROVE AsSent(parser)'
  OBVIOUS
<1>1. CASE ReadSome \/ ReadNothing \/ NoRoom \/ ReadFails \/ Finished \/ Decide
           \/ UNCHANGED vars
  BY <1>1, StaySent
  DEF ReadSome, ReadNothing, NoRoom, ReadFails, RemoveConnection, Finished, Decide,
      Refuse, vars
<1>2. CASE ParseInternal
  BY <1>2, ReadMethodSent, ReadSpaceAfterMethodSent, ReadUrlSent, ReadUrlParametersSent,
     ReadToNextLineSent, ReadHeaderKeySent, ReadHeaderSpaceSent, ReadHeaderValueSent,
     ReadHeaderLineBreakSent, ReadContentSent
  DEF ParseInternal
<1>3. CASE DecodeUrl
  BY <1>3, DecodeUrlSent
<1> QED BY <1>1, <1>2, <1>3 DEF Next, Parse

\* For all requests, cut in any way: the url and the headers that the parser
\* remembers are those of the request, whole, and none is left out
\* (HttpRequest.cpp:339-519 and :555-665).
THEOREM FieldsAreAsSent == Spec => []FieldsAsSent
<1>1. Init => AsSent(parser)
  BY InitSent
<1>2. FieldsInside /\ AsSent(parser) => FieldsAsSent
  BY DEF AsSent, HeadersAsSent, BeforeUrl, FieldsAsSent
<1> QED BY <1>1, <1>2, NextSent, Invariance, FieldsStayInside, PTL DEF Spec

----------------------------------------------------------------------------
(* The whole request in the buffer: what the definitions mean there *)

LEMMA WholeSize ==
  ASSUME request \in Requests
  PROVE  Whole!size = Len(text)
BY TextType DEF Whole!size, Whole!ReadSize, whole

LEMMA WholeAt ==
  ASSUME request \in Requests
  PROVE  \A i : Whole!At(i) = IF i < Len(text) THEN text[i + 1] ELSE "end"
BY WholeSize DEF Whole!At, Whole!text, text

\* The definitions that do not look at the buffer mean the same.
LEMMA SameHere ==
  /\ Whole!Symbols = Symbols /\ Whole!Letters = Letters /\ Whole!Digits = Digits
  /\ Whole!LineBreaks = LineBreaks /\ Whole!text = text
BY DEF Whole!Symbols, Symbols, Whole!Letters, Letters, Whole!Digits, Digits,
       Whole!LineBreaks, LineBreaks, Whole!text, text

LEMMA SameValues ==
  /\ Whole!NoOutcome = NoOutcome /\ Whole!Invalid = Invalid
  /\ \A f : Whole!Slice(f) = Slice(f)
  /\ \A i, j : Whole!EmptyLine(i, j) <=> EmptyLine(i, j)
  /\ \A i : Whole!EndOfHeaders(i) <=> EndOfHeaders(i)
  /\ \A i : Whole!HeaderAt(i) = HeaderAt(i)
BY DEF Whole!NoOutcome, NoOutcome, Whole!Invalid, Invalid, Whole!Slice, Slice,
       Whole!EmptyLine, EmptyLine, Whole!EndOfHeaders, EndOfHeaders,
       Whole!HeaderAt, HeaderAt, Whole!text, text

LEMMA SameHeaders ==
  /\ \A key : Whole!Compares(key, Whole!ContentLength) <=> Compares(key, ContentLength)
  /\ \A key, value, length :
       Whole!ContentLengthAfter(key, value, length) = ContentLengthAfter(key, value, length)
BY DEF Whole!Compares, Compares, Whole!ContentLength, ContentLength,
       Whole!ContentLengthAfter, ContentLengthAfter

LEMMA SameDecode == \A s : Whole!percentDecode(s) = percentDecode(s)
BY DEF Whole!percentDecode, percentDecode, Whole!hex2int, hex2int

LEMMA SameSpan == \A s, S : Whole!SpanOf(s, S) = SpanOf(s, S)
BY DEF Whole!SpanOf, SpanOf, Whole!Char, Char

LEMMA SameCheck == \A u : Whole!checkUrl(u) <=> checkUrl(u)
BY SameHere DEF Whole!checkUrl, checkUrl

LEMMA SamePrefix == \A u, p : Whole!isUrlPrefix(u, p) <=> isUrlPrefix(u, p)
BY DEF Whole!isUrlPrefix, isUrlPrefix, Whole!SpanOf, SpanOf, Whole!Char, Char

LEMMA SameProxy == \A u : Whole!findProxy(u) = findProxy(u)
<1> SUFFICES ASSUME NEW u PROVE Whole!findProxy(u) = findProxy(u)
  OBVIOUS
<1> DEFINE first(S) == IF S = {} THEN 0 ELSE CHOOSE i \in S : \A j \in S : i <= j
<1>1. /\ findProxy(u) = first({i \in DOMAIN Proxies : isUrlPrefix(u, Proxies[i].prefix)})
      /\ Whole!findProxy(u) =
           first({i \in DOMAIN Proxies : Whole!isUrlPrefix(u, Proxies[i].prefix)})
  BY Zenon DEF Whole!findProxy, findProxy
<1> HIDE DEF first
<1>2. {i \in DOMAIN Proxies : Whole!isUrlPrefix(u, Proxies[i].prefix)} =
        {i \in DOMAIN Proxies : isUrlPrefix(u, Proxies[i].prefix)}
  BY SamePrefix
<1> QED BY <1>1, <1>2

LEMMA SameFile == \A u : Whole!fileNameBuffer(u) = fileNameBuffer(u)
BY DEF Whole!fileNameBuffer, fileNameBuffer

----------------------------------------------------------------------------
(* Scans of what has arrived, and of the whole request *)

\* A byte that has arrived is that of the request.
LEMMA Arrived ==
  ASSUME Inv, NEW i \in parser.cur .. size, At(i) # "end"
  PROVE  /\ Whole!At(i) = At(i) /\ i \in parser.cur .. Whole!size
         /\ \A c, S : Scans(c, S, i) => Whole!Scans(c, S, i)
<1>1. size \in Nat /\ Len(text) \in Nat /\ size <= Len(text) /\ parser.cur \in Nat
  BY SizeType, TextType DEF Inv, Positions, ParserWith
<1>2. i < size /\ At(i) = text[i + 1]
  BY <1>1 DEF At
<1>3. Whole!At(i) = At(i) /\ i \in parser.cur .. Whole!size
  BY <1>1, <1>2, WholeAt, WholeSize DEF Inv
<1> QED BY <1>3, SameHere DEF Scans, Whole!Scans

\* A scan that has come to j goes on to the end of it in the whole request.
LEMMA ScanGoesOn ==
  ASSUME Inv, NEW S \in SUBSET Symbols, NEW c \in Nat, NEW j \in Nat,
         c <= j, j <= Len(text), Within(c, S, j)
  PROVE  \E i \in j .. Len(text) : Whole!Scans(c, S, i)
<1> DEFINE T == {i \in j .. Len(text) : Whole!At(i) \notin S}
<1>1. Len(text) \in Nat
  BY TextType DEF Inv
<1>2. "end" \notin Symbols
  BY DEF Symbols, Letters, Digits
<1>3. Len(text) \in T
  BY <1>1, <1>2, WholeAt DEF Inv
<1>4. T \in SUBSET Nat
  BY <1>1
<1>5. PICK i \in T : \A k \in T : i <= k
  BY <1>3, <1>4, LeastNumber
<1>6. ASSUME NEW k \in c + 1 .. i PROVE text[k] \in S
  <2>1. CASE k <= j
    BY <2>1 DEF Within
  <2>2. CASE k > j
    <3>1. k - 1 \in j .. Len(text) /\ k - 1 < i /\ k - 1 < Len(text) /\ k - 1 + 1 = k
      BY <1>1, <1>5, <2>2
    <3>2. k - 1 \notin T
      BY <1>4, <1>5, <3>1
    <3>3. Whole!At(k - 1) = text[k]
      BY <3>1, WholeAt DEF Inv
    <3> QED BY <3>1, <3>2, <3>3
  <2> QED BY <1>1, <1>4, <1>5, <2>1, <2>2
<1>7. Whole!Scans(c, S, i)
  BY <1>5, <1>6, SameHere DEF Whole!Scans
<1> QED BY <1>5, <1>7

\* There is one place where a scan stops: a step of the parser has one outcome.
LEMMA ScanStops ==
  ASSUME Inv, NEW S \in SUBSET Symbols, NEW c \in Nat,
         NEW i \in c .. size, NEW j \in c .. size, Scans(c, S, i), Scans(c, S, j)
  PROVE  i = j
<1>1. size \in Nat
  BY SizeType DEF Inv
<1>2. ASSUME NEW m \in c .. size, NEW n \in c .. size, Scans(c, S, m), Scans(c, S, n), m < n
      PROVE  FALSE
  <2>1. m + 1 \in c + 1 .. n /\ m < size
    BY <1>1, <1>2
  <2>2. text[m + 1] \in S /\ At(m) = text[m + 1]
    BY <1>2, <2>1 DEF Scans, At
  <2> QED BY <1>2, <2>2 DEF Scans
<1> QED BY <1>1, <1>2

----------------------------------------------------------------------------
(* The steps of parse() *)

AsWhole == Whole!Parse \/ ContentStartsEarlier \/ Closed
Unseen == UNCHANGED <<request, parser, phase, outcome>>

\* How a step ends is the same with the whole request.
LEMMA SameEnds ==
  ASSUME pc = "parse"
  PROVE  /\ \A s : In(s) => Whole!In(s)
         /\ \A q : MoveTo(q) => Whole!MoveTo(q)
         /\ \A s, i : Move(s, i) => Whole!Move(s, i)
         /\ Again => Unseen
         /\ Refuse => Whole!Refuse
         /\ \A q : Finish(q) => Whole!Finish(q)
<1>1. phase = "parse" /\ (pc' = pc => phase' = phase) /\ (pc' = "read" => phase' = phase)
      /\ (pc' = "done" => phase' = "done") /\ (pc' = "postParse" => phase' = "postParse")
  BY DEF phase
<1>2. request' = request => whole' = whole
  BY DEF whole, text
<1>3. \A s : In(s) => Whole!In(s)
  BY <1>1 DEF In, Whole!In
<1>4. \A q : MoveTo(q) => Whole!MoveTo(q)
  BY <1>1, <1>2 DEF MoveTo, Whole!MoveTo
<1>5. \A s, i : Move(s, i) => Whole!Move(s, i)
  BY <1>4 DEF Move, Whole!Move
<1>6. Again => Unseen
  BY <1>1 DEF Again, Unseen
<1>7. Refuse => Whole!Refuse
  BY <1>1, <1>2, SameValues DEF Refuse, Whole!Refuse
<1>8. \A q : Finish(q) => Whole!Finish(q)
  BY <1>1, <1>2 DEF Finish, Whole!Finish
<1> QED BY <1>3, <1>4, <1>5, <1>6, <1>7, <1>8

LEMMA ReadMethodAsWhole ==
  ASSUME Inv, ReadMethod PROVE Whole!ReadMethod \/ Unseen
<1>1. pc = "parse" /\ Whole!In("method")
  BY SameEnds DEF ReadMethod, In
<1>2. PICK i \in parser.cur .. size :
        /\ Scans(parser.cur, {"G", "E"}, i)
        /\ CASE At(i) = " "   -> Move("spaceAfterMethod", i)
             [] At(i) = "end" -> Again
             [] OTHER         -> Refuse
  BY DEF ReadMethod
<1>3. CASE At(i) = "end"
  BY <1>1, <1>2, <1>3, SameEnds
<1>4. CASE At(i) # "end"
  <2>1. /\ i \in parser.cur .. Whole!size /\ Whole!At(i) = At(i)
        /\ Whole!Scans(parser.cur, {"G", "E"}, i)
    BY <1>2, <1>4, Arrived
  <2>2. (CASE Whole!At(i) = " "   -> Whole!Move("spaceAfterMethod", i)
           [] Whole!At(i) = "end" -> Whole!Again
           [] OTHER               -> Whole!Refuse)
    BY <1>1, <1>2, <1>4, <2>1, SameEnds
  <2> QED BY <1>1, <2>1, <2>2 DEF Whole!ReadMethod
<1> QED BY <1>3, <1>4

LEMMA ReadSpaceAfterMethodAsWhole ==
  ASSUME Inv, ReadSpaceAfterMethod PROVE Whole!ReadSpaceAfterMethod \/ Unseen
<1>1. pc = "parse" /\ Whole!In("spaceAfterMethod")
  BY SameEnds DEF ReadSpaceAfterMethod, In
<1>2. PICK i \in parser.cur .. size :
        /\ Scans(parser.cur, {" "}, i)
        /\ CASE At(i) = "end"          -> Again
             [] At(i) \in {"CR", "LF"} -> Refuse
             [] OTHER                  -> Move("url", i)
  BY DEF ReadSpaceAfterMethod
<1>3. CASE At(i) = "end"
  BY <1>1, <1>2, <1>3, SameEnds
<1>4. CASE At(i) # "end"
  <2>1. /\ i \in parser.cur .. Whole!size /\ Whole!At(i) = At(i)
        /\ Whole!Scans(parser.cur, {" "}, i)
    BY <1>2, <1>4, Arrived
  <2>2. (CASE Whole!At(i) = "end"          -> Whole!Again
           [] Whole!At(i) \in {"CR", "LF"} -> Whole!Refuse
           [] OTHER                        -> Whole!Move("url", i))
    BY <1>1, <1>2, <1>4, <2>1, SameEnds
  <2> QED BY <1>1, <2>1, <2>2 DEF Whole!ReadSpaceAfterMethod
<1> QED BY <1>3, <1>4

LEMMA ReadUrlAsWhole ==
  ASSUME Inv, ReadUrl PROVE Whole!ReadUrl \/ Unseen
<1> DEFINE S == Letters \cup Digits \cup {"/", ".", "-", "%"}
           q(s, i) == [parser EXCEPT !.state = s, !.cur = i,
                         !.url = [start |-> parser.cur, length |-> i - parser.cur]]
<1>1. pc = "parse" /\ Whole!In("url")
  BY SameEnds DEF ReadUrl, In
<1>2. PICK i \in parser.cur .. size :
        /\ Scans(parser.cur, S, i)
        /\ CASE At(i) = " "   -> MoveTo(q("spaceAfterUrl", i))
             [] At(i) = "?"   -> MoveTo(q("urlParameters", i))
             [] At(i) = "end" -> Again
             [] OTHER         -> Refuse
  BY DEF ReadUrl
<1> HIDE DEF q, S
<1>3. CASE At(i) = "end"
  BY <1>1, <1>2, <1>3, SameEnds
<1>4. CASE At(i) # "end"
  <2>1. /\ i \in parser.cur .. Whole!size /\ Whole!At(i) = At(i)
        /\ Whole!Scans(parser.cur, S, i)
    BY <1>2, <1>4, Arrived
  <2>2. (CASE Whole!At(i) = " "   -> Whole!MoveTo(q("spaceAfterUrl", i))
           [] Whole!At(i) = "?"   -> Whole!MoveTo(q("urlParameters", i))
           [] Whole!At(i) = "end" -> Whole!Again
           [] OTHER               -> Whole!Refuse)
    BY <1>1, <1>2, <1>4, <2>1, SameEnds
  <2> QED BY <1>1, <2>1, <2>2, SameHere DEF Whole!ReadUrl, q, S
<1> QED BY <1>3, <1>4

LEMMA ReadUrlParametersAsWhole ==
  ASSUME Inv, ReadUrlParameters PROVE Whole!ReadUrlParameters \/ Unseen
<1>1. pc = "parse" /\ Whole!In("urlParameters")
  BY SameEnds DEF ReadUrlParameters, In
<1>2. PICK i \in parser.cur .. size :
        /\ Scans(parser.cur, Symbols \ {" "}, i)
        /\ IF At(i) = " " THEN Move("spaceAfterUrl", i) ELSE UNCHANGED vars
  BY DEF ReadUrlParameters
<1>3. CASE At(i) # " "
  BY <1>2, <1>3 DEF vars, Unseen, phase
<1>4. CASE At(i) = " "
  <2>1. /\ i \in parser.cur .. Whole!size /\ Whole!At(i) = At(i)
        /\ Whole!Scans(parser.cur, Symbols \ {" "}, i)
    BY <1>2, <1>4, Arrived
  <2>2. Whole!Move("spaceAfterUrl", i)
    BY <1>1, <1>2, <1>4, SameEnds
  <2> QED BY <1>1, <1>4, <2>1, <2>2, SameHere DEF Whole!ReadUrlParameters
<1> QED BY <1>3, <1>4

LEMMA ReadToNextLineAsWhole ==
  ASSUME Inv, ReadToNextLine PROVE Whole!ReadToNextLine \/ Unseen
<1> DEFINE S == Symbols \ LineBreaks
<1>1. pc = "parse" /\ Whole!In("spaceAfterUrl")
  BY SameEnds DEF ReadToNextLine, In
<1>a. PICK i \in parser.cur .. size : \E j \in i .. size :
        /\ Scans(parser.cur, S, i) /\ Scans(i, LineBreaks, j)
        /\ CASE EmptyLine(i, j) -> Refuse
             [] ~EmptyLine(i, j) /\ At(j) = "end" -> Again
             [] ~EmptyLine(i, j) /\ At(j) # "end" -> Move("headerKey", j)
  BY DEF ReadToNextLine
<1>2. PICK j \in i .. size :
        /\ Scans(parser.cur, S, i) /\ Scans(i, LineBreaks, j)
        /\ CASE EmptyLine(i, j) -> Refuse
             [] ~EmptyLine(i, j) /\ At(j) = "end" -> Again
             [] ~EmptyLine(i, j) /\ At(j) # "end" -> Move("headerKey", j)
  BY <1>a
<1>3. /\ size \in Nat /\ Len(text) \in Nat /\ size <= Len(text) /\ parser.cur \in Nat
      /\ i \in Nat /\ j \in Nat /\ i <= j /\ j <= size /\ j \in parser.cur .. size
      /\ Whole!size = Len(text)
  BY SizeType, TextType, WholeSize DEF Inv, Positions, ParserWith
<1> HIDE DEF S
<1>b. i < size => At(i) # "end"
  <2> SUFFICES ASSUME i < size PROVE At(i) # "end"
    OBVIOUS
  <2>1. i + 1 \in 1 .. Len(text)
    BY <1>3
  <2>2. text[i + 1] \in Symbols
    BY <2>1, TextType DEF Inv
  <2> QED BY <2>2 DEF At, Symbols, Letters, Digits
<1>4. CASE ~EmptyLine(i, j) /\ At(j) = "end"
  BY <1>1, <1>2, <1>4, SameEnds
<1>5. At(i) # "end" => Whole!Scans(parser.cur, S, i) /\ i \in parser.cur .. Whole!size
  BY <1>2, Arrived
<1>6. CASE ~EmptyLine(i, j) /\ At(j) # "end"
  <2>1. Whole!At(j) # "end" /\ Whole!Scans(i, LineBreaks, j) /\ j \in i .. Whole!size
    BY <1>2, <1>3, <1>6, Arrived
  <2>2. At(i) # "end"
    <3>1. j < size
      BY <1>3, <1>6 DEF At
    <3> QED BY <1>3, <1>b, <3>1
  <2>3. Whole!Move("headerKey", j)
    BY <1>1, <1>2, <1>6, SameEnds
  <2>4. ~Whole!EmptyLine(i, j)
    BY <1>6, SameValues
  <2> QED
    BY <1>1, <1>5, <2>1, <2>2, <2>3, <2>4, SameHere DEF Whole!ReadToNextLine, S
<1>7. CASE EmptyLine(i, j)
  <2>1. i < j
    BY <1>3, <1>7 DEF EmptyLine
  <2>2. At(i) # "end"
    BY <1>3, <1>b, <2>1
  <2>3. LineBreaks \in SUBSET Symbols /\ Within(i, LineBreaks, j)
    BY <1>2 DEF Scans, Within, LineBreaks, Symbols
  <2>4. PICK n \in j .. Len(text) : Whole!Scans(i, LineBreaks, n)
    BY <1>3, <2>3, ScanGoesOn
  <2>5. n \in i .. Whole!size
    BY <1>3
  <2>6. EmptyLine(i, n)
    <3>1. PICK k \in i + 1 .. j, l \in i + 1 .. j : k # l /\ text[k] = "LF" /\ text[l] = "LF"
      BY <1>7 DEF EmptyLine
    <3>2. k \in i + 1 .. n /\ l \in i + 1 .. n
      BY <1>3
    <3> QED BY <3>1, <3>2 DEF EmptyLine
  <2>7. Whole!Refuse /\ Whole!EmptyLine(i, n)
    BY <1>1, <1>2, <1>7, <2>6, SameEnds, SameValues
  <2>8. Whole!Scans(parser.cur, S, i) /\ i \in parser.cur .. Whole!size
    BY <1>5, <2>2
  <2> QED BY <1>1, <2>4, <2>5, <2>7, <2>8, SameHere DEF Whole!ReadToNextLine, S
<1> QED BY <1>4, <1>6, <1>7

LEMMA ReadHeaderKeyAsWhole ==
  ASSUME Inv, ReadHeaderKey PROVE Whole!ReadHeaderKey \/ Unseen
<1> DEFINE S == Letters \cup {"-"}
           q(i) == [parser EXCEPT !.state = "headerSpace", !.cur = i,
                      !.curKey = [start |-> parser.cur, length |-> i - parser.cur]]
<1>1. pc = "parse" /\ Whole!In("headerKey")
  BY SameEnds DEF ReadHeaderKey, In
<1>2. PICK i \in parser.cur .. size :
        /\ Scans(parser.cur, S, i)
        /\ CASE At(i) = ":"   -> MoveTo(q(i))
             [] At(i) = "end" -> Again
             [] OTHER         -> Refuse
  BY DEF ReadHeaderKey
<1> HIDE DEF q, S
<1>3. CASE At(i) = "end"
  BY <1>1, <1>2, <1>3, SameEnds
<1>4. CASE At(i) # "end"
  <2>1. /\ i \in parser.cur .. Whole!size /\ Whole!At(i) = At(i)
        /\ Whole!Scans(parser.cur, S, i)
    BY <1>2, <1>4, Arrived
  <2>2. (CASE Whole!At(i) = ":"   -> Whole!MoveTo(q(i))
           [] Whole!At(i) = "end" -> Whole!Again
           [] OTHER               -> Whole!Refuse)
    BY <1>1, <1>2, <1>4, <2>1, SameEnds
  <2> QED BY <1>1, <2>1, <2>2, SameHere DEF Whole!ReadHeaderKey, q, S
<1> QED BY <1>3, <1>4

LEMMA ReadHeaderSpaceAsWhole ==
  ASSUME Inv, ReadHeaderSpace PROVE Whole!ReadHeaderSpace \/ Unseen
<1>1. pc = "parse" /\ Whole!In("headerSpace")
  BY SameEnds DEF ReadHeaderSpace, In
<1>2. PICK i \in parser.cur .. size :
        /\ Scans(parser.cur, {":", " "}, i)
        /\ CASE At(i) = "end"        -> Again
             [] At(i) \in LineBreaks -> Refuse
             [] OTHER                -> Move("headerValue", i)
  BY DEF ReadHeaderSpace
<1>3. CASE At(i) = "end"
  BY <1>1, <1>2, <1>3, SameEnds DEF LineBreaks
<1>4. CASE At(i) # "end"
  <2>1. /\ i \in parser.cur .. Whole!size /\ Whole!At(i) = At(i)
        /\ Whole!Scans(parser.cur, {":", " "}, i)
    BY <1>2, <1>4, Arrived
  <2>2. CASE At(i) \in LineBreaks
    <3>1. Whole!At(i) # "end" /\ Whole!At(i) \in Whole!LineBreaks /\ Whole!Refuse
      BY <1>1, <1>2, <1>4, <2>1, <2>2, SameEnds, SameHere
    <3> QED BY <1>1, <2>1, <3>1 DEF Whole!ReadHeaderSpace
  <2>3. CASE At(i) \notin LineBreaks
    <3>1. /\ Whole!At(i) # "end" /\ Whole!At(i) \notin Whole!LineBreaks
          /\ Whole!Move("headerValue", i)
      BY <1>1, <1>2, <1>4, <2>1, <2>3, SameEnds, SameHere
    <3> QED BY <1>1, <2>1, <3>1 DEF Whole!ReadHeaderSpace
  <2> QED BY <2>2, <2>3
<1> QED BY <1>3, <1>4

LEMMA ReadHeaderValueAsWhole ==
  ASSUME Inv, ReadHeaderValue PROVE Whole!ReadHeaderValue \/ Unseen
<1> DEFINE S == Symbols \ LineBreaks
           long(i) == /\ At(i) # "end" /\ Compares(Slice(HeaderAt(i).key), ContentLength)
                      /\ HeaderAt(i).value.length > BUF_CHARS
           q(i) == [parser EXCEPT
                      !.state = "headerLineBreak", !.cur = i,
                      !.headers = Append(@, HeaderAt(i)),
                      !.contentLength =
                        ContentLengthAfter(Slice(HeaderAt(i).key),
                                           Slice(HeaderAt(i).value), @)]
<1>1. pc = "parse" /\ Whole!In("headerValue")
  BY SameEnds DEF ReadHeaderValue, In
<1>2. PICK i \in parser.cur .. size :
        /\ Scans(parser.cur, S, i)
        /\ CASE At(i) = "end" -> Again
             [] long(i)       -> Refuse
             [] OTHER         -> MoveTo(q(i))
  BY DEF ReadHeaderValue
<1>3. CASE At(i) = "end"
  BY <1>1, <1>2, <1>3, SameEnds
<1>4. CASE At(i) # "end"
  <2> HIDE DEF q, S
  <2>1. /\ i \in parser.cur .. Whole!size /\ Whole!At(i) = At(i)
        /\ Whole!Scans(parser.cur, S, i)
    BY <1>2, <1>4, Arrived
  <2>2. long(i) <=> /\ Whole!At(i) # "end"
                    /\ Whole!Compares(Whole!Slice(Whole!HeaderAt(i).key),
                                      Whole!ContentLength)
                    /\ Whole!HeaderAt(i).value.length > BUF_CHARS
    BY <2>1, SameValues, SameHeaders
  <2>3. q(i) = [parser EXCEPT
                  !.state = "headerLineBreak", !.cur = i,
                  !.headers = Append(@, Whole!HeaderAt(i)),
                  !.contentLength =
                    Whole!ContentLengthAfter(Whole!Slice(Whole!HeaderAt(i).key),
                                             Whole!Slice(Whole!HeaderAt(i).value), @)]
    BY SameValues, SameHeaders DEF q
  <2> HIDE DEF long
  <2>4. (CASE Whole!At(i) = "end" -> Whole!Again
           [] long(i)             -> Whole!Refuse
           [] OTHER               -> Whole!MoveTo(q(i)))
    BY <1>1, <1>2, <1>4, <2>1, SameEnds
  <2> QED BY <1>1, <2>1, <2>2, <2>3, <2>4, SameHere DEF Whole!ReadHeaderValue, S
<1> QED BY <1>3, <1>4

LEMMA ReadHeaderLineBreakAsWhole ==
  ASSUME Inv, ReadHeaderLineBreak
  PROVE  Whole!ReadHeaderLineBreak \/ ContentStartsEarlier \/ Unseen
<1>1. pc = "parse" /\ phase = "parse" /\ Whole!In("headerLineBreak")
  BY SameEnds DEF ReadHeaderLineBreak, In, phase
<1>2. PICK i \in parser.cur .. size :
        /\ Scans(parser.cur, LineBreaks, i)
        /\ CASE EndOfHeaders(i) ->
                  IF parser.contentLength = 0 THEN Finish(parser)
                  ELSE Move("content", i)
             [] ~EndOfHeaders(i) /\ At(i) = "end" -> Again
             [] ~EndOfHeaders(i) /\ At(i) # "end" -> Move("headerKey", i)
  BY DEF ReadHeaderLineBreak
<1>3. /\ size \in Nat /\ Len(text) \in Nat /\ size <= Len(text) /\ parser.cur \in Nat
      /\ i \in Nat /\ i <= size /\ parser.cur <= i /\ Whole!size = Len(text)
  BY SizeType, TextType, WholeSize DEF Inv, Positions, ParserWith
<1>4. CASE ~EndOfHeaders(i) /\ At(i) = "end"
  BY <1>1, <1>2, <1>4, SameEnds
<1>5. CASE ~EndOfHeaders(i) /\ At(i) # "end"
  <2>1. /\ Whole!At(i) # "end" /\ i \in parser.cur .. Whole!size
        /\ Whole!Scans(parser.cur, LineBreaks, i)
    BY <1>2, <1>5, Arrived
  <2>2. Whole!Move("headerKey", i) /\ ~Whole!EndOfHeaders(i)
    BY <1>1, <1>2, <1>5, SameEnds, SameValues
  <2> QED BY <1>1, <2>1, <2>2, SameHere DEF Whole!ReadHeaderLineBreak
<1>6. CASE EndOfHeaders(i) /\ parser.contentLength = 0
  <2>1. LineBreaks \in SUBSET Symbols /\ Within(parser.cur, LineBreaks, i)
    BY <1>2 DEF Scans, Within, LineBreaks, Symbols
  <2>2. PICK n \in i .. Len(text) : Whole!Scans(parser.cur, LineBreaks, n)
    BY <1>3, <2>1, ScanGoesOn
  <2>3. n \in parser.cur .. Whole!size
    BY <1>3
  <2>4. EndOfHeaders(n)
    <3>1. PICK k \in parser.cur + 1 .. i, l \in parser.cur + 1 .. i :
            k # l /\ text[k] = "LF" /\ text[l] = "LF"
      BY <1>6 DEF EndOfHeaders, EmptyLine
    <3>2. k \in parser.cur + 1 .. n /\ l \in parser.cur + 1 .. n
      BY <1>3
    <3> QED BY <3>1, <3>2 DEF EndOfHeaders, EmptyLine
  <2>5. Whole!Finish(parser) /\ Whole!EndOfHeaders(n)
    BY <1>1, <1>2, <1>6, <2>4, SameEnds, SameValues
  <2> QED BY <1>1, <1>6, <2>2, <2>3, <2>5, SameHere DEF Whole!ReadHeaderLineBreak
<1>7. CASE EndOfHeaders(i) /\ parser.contentLength # 0
  <2>1. i \in parser.cur .. Len(text)
    BY <1>3
  <2>2. \A k \in parser.cur + 1 .. i : text[k] \in LineBreaks
    BY <1>2 DEF Scans
  <2>3. /\ parser' = [parser EXCEPT !.state = "content", !.cur = i]
        /\ UNCHANGED <<request, phase, outcome>>
    BY <1>2, <1>7 DEF Move, MoveTo, phase
  <2> QED BY <1>1, <1>7, <2>1, <2>2, <2>3 DEF ContentStartsEarlier, ReadHeaderLineBreak, In, Whole!In
<1> QED BY <1>4, <1>5, <1>6, <1>7

LEMMA ReadContentAsWhole ==
  ASSUME Inv, ReadContent PROVE Whole!ReadContent \/ Unseen
<1>1. pc = "parse" /\ Whole!In("content")
  BY SameEnds DEF ReadContent, In
<1>2. CASE ~ContentArrived
  BY <1>1, <1>2, SameEnds DEF ReadContent
<1>3. CASE ContentArrived
  <2>1. /\ size \in Nat /\ Len(text) \in Nat /\ size <= Len(text) /\ parser.cur \in Nat
        /\ parser.contentLength \in Int /\ Whole!size = Len(text)
    BY SizeType, TextType, WholeSize DEF Inv, Positions, ParserWith
  <2>2. Whole!ContentArrived
    BY <1>3, <2>1 DEF ContentArrived, Whole!ContentArrived
  <2>3. Whole!Finish([parser EXCEPT !.contentStart = parser.cur])
    BY <1>1, <1>3, SameEnds DEF ReadContent
  <2> QED BY <1>1, <2>2, <2>3 DEF Whole!ReadContent
<1> QED BY <1>2, <1>3

----------------------------------------------------------------------------
(* The steps after it *)

LEMMA DecodeUrlAsWhole == DecodeUrl => Whole!DecodeUrl
<1> SUFFICES ASSUME DecodeUrl PROVE Whole!DecodeUrl
  OBVIOUS
<1>1. pc = "postParse" /\ phase = "postParse"
  BY DEF DecodeUrl, phase
<1>2. request' = request => whole' = whole
  BY DEF whole, text
<1>3. CASE parser.url.length = 0
  <2>1. Whole!Refuse
    BY <1>1, <1>2, <1>3, SameValues DEF DecodeUrl, Refuse, Whole!Refuse, phase
  <2> QED BY <1>1, <1>3, <2>1 DEF Whole!DecodeUrl
<1>4. CASE parser.url.length # 0
  <2> PICK d : d = percentDecode(Slice(parser.url))
    OBVIOUS
  <2>1. /\ parser' = [parser EXCEPT !.urlBuffer = SubSeq(d, 1, SpanOf(d, Symbols))]
        /\ pc' = "parseRequest" /\ UNCHANGED <<request, heads, outcome>>
    BY <1>4 DEF DecodeUrl
  <2>2. d = Whole!percentDecode(Whole!Slice(parser.url))
    BY SameDecode, SameValues
  <2>3. SpanOf(d, Symbols) = Whole!SpanOf(d, Whole!Symbols)
    BY SameSpan, SameHere
  <2>4. phase' = "parseRequest" /\ UNCHANGED <<request, whole, outcome>>
    BY <1>2, <2>1 DEF phase
  <2> QED BY <1>1, <1>4, <2>1, <2>2, <2>3, <2>4 DEF Whole!DecodeUrl
<1> QED BY <1>3, <1>4

LEMMA DecideAsWhole == Decide => Whole!Decide
<1> SUFFICES ASSUME Decide PROVE Whole!Decide
  OBVIOUS
<1>1. pc = "parseRequest" /\ phase = "parseRequest"
  BY Zenon DEF Decide, phase
<1>2. request' = request => whole' = whole
  BY DEF whole, text
<1> QED
  BY <1>1, <1>2, SameProxy, SameCheck, SameFile, SameValues
  DEF Decide, Whole!Decide, Refuse, Whole!Refuse, phase

\* Reading and closing.
LEMMA OtherAsWhole ==
  ASSUME ReadSome \/ ReadNothing \/ NoRoom \/ ReadFails \/ Finished \/ UNCHANGED vars
  PROVE  Closed \/ Unseen
<1>1. CASE ReadSome \/ ReadNothing \/ Finished \/ UNCHANGED vars
  BY <1>1 DEF ReadSome, ReadNothing, Finished, vars, Unseen, phase
<1>2. CASE NoRoom \/ ReadFails
  BY <1>2 DEF NoRoom, ReadFails, RemoveConnection, Closed, Whole!RemoveConnection,
              phase, whole, text
<1> QED BY <1>1, <1>2

LEMMA NextAsWhole == Inv /\ [Next]_vars => AsWhole \/ Unseen
<1> SUFFICES ASSUME Inv, [Next]_vars PROVE AsWhole \/ Unseen
  OBVIOUS
<1>1. CASE ParseInternal
  BY <1>1, ReadMethodAsWhole, ReadSpaceAfterMethodAsWhole, ReadUrlAsWhole,
     ReadUrlParametersAsWhole, ReadToNextLineAsWhole, ReadHeaderKeyAsWhole,
     ReadHeaderSpaceAsWhole, ReadHeaderValueAsWhole, ReadHeaderLineBreakAsWhole,
     ReadContentAsWhole
  DEF ParseInternal, AsWhole, Whole!Parse, Whole!ParseInternal
<1>2. CASE DecodeUrl \/ Decide
  BY <1>2, DecodeUrlAsWhole, DecideAsWhole DEF AsWhole, Whole!Parse
<1>3. CASE ReadSome \/ ReadNothing \/ NoRoom \/ ReadFails \/ Finished \/ UNCHANGED vars
  BY <1>3, OtherAsWhole DEF AsWhole
<1> QED BY <1>1, <1>2, <1>3 DEF Next, Parse

\* For all requests, cut in any way: every step of the parser is the step it
\* takes with the whole request in the buffer, except for where a content
\* starts (HttpRequest.cpp:522-718).
THEOREM CutsDoNotShow == Spec => AsIfWhole
<1>1. Inv /\ [Next]_vars =>
        [Whole!Parse \/ ContentStartsEarlier \/ Closed]_<<request, parser, phase, outcome>>
  BY NextAsWhole DEF AsWhole, Unseen
<1> QED BY <1>1, Invariance, PTL DEF Spec, AsIfWhole
=============================================================================
