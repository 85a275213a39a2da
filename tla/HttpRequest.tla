----------------------------- MODULE HttpRequest -----------------------------
(***************************************************************************)
(* A request on its way into the buffer of a connection, in pieces of any  *)
(* size, and HttpRequest::parse(), which goes on after every piece where   *)
(* it stopped. RequestExecutor::parseRequest() then decides what serves    *)
(* the request. A symbol stands for a character, or for a run of           *)
(* characters that the parser never tells apart.                           *)
(***************************************************************************)
EXTENDS TransferRingBuffer, Sequences

CONSTANTS
  Requests,       \* what clients send: records with the fields text, connection
  Proxies,        \* the configured proxies, in order
  atoi(_),        \* the number that a header value begins with
  BUF_CHARS,      \* the longest value of Content-Length, 30 in the code
  MAX_FILE_NAME   \* the longest url of a file (less rootFolder, in the code)

Letters == {"G", "E", "C", "L", "I", "M", "a", "b"}
Digits == {"0", "1", "2"}

\* "*" stands for the characters that no rule below names.
Symbols == Letters \cup Digits \cup
           {"/", ".", "-", "%", "?", " ", ":", "CR", "LF", "*"}

ASSUME RequestsAssumption ==
  \A r \in Requests :
    r.text \in Seq(Symbols) /\ r.connection \in {"clear", "ssl"}
ASSUME ProxiesAssumption ==
  Proxies \in Seq([prefix : Seq(Symbols),
                   connectionType : SUBSET {"clear", "ssl"}])
ASSUME AtoiAssumption ==
  \A n \in 0 .. BUF_CHARS : \A v \in [1 .. n -> Symbols] : atoi(v) \in Int
ASSUME LimitsAssumption == BUF_CHARS \in Nat /\ MAX_FILE_NAME \in Nat

VARIABLES
  request,   \* what the client sends
  heads,     \* how much of it is in the buffer
  parser,    \* the HttpRequest
  pc,        \* waiting for more, inside parse(), or where that ends
  outcome    \* what parseRequest() decided

vars == <<request, heads, parser, pc, outcome>>

text == request.text

\* The size that parse() is given: no byte is taken out before it is done.
size == ReadSize(heads)

\* HttpRequest::State
States == {"method", "spaceAfterMethod", "url", "urlParameters",
           "spaceAfterUrl", "headerKey", "headerSpace", "headerValue",
           "headerLineBreak", "content", "finishOk"}
Field == [start : Nat, length : Nat]
Header == [key : Field, value : Field]
Parser == [state : States, cur : Nat, url : Field, curKey : Field,
           headers : Seq(Header), contentStart : Nat, contentLength : Int,
           urlBuffer : Seq(Symbols)]
Steps == {"read", "parse", "postParse", "parseRequest", "done", "closed"}
Outcome == [kind : {"none", "invalid", "file", "proxy"},
            file : Seq(Symbols \cup {"index.html"}), proxy : Nat]

Empty == [start |-> 0, length |-> 0]
reset == [state |-> "method", cur |-> 0, url |-> Empty, curKey |-> Empty,
          headers |-> <<>>, contentStart |-> 0, contentLength |-> 0,
          urlBuffer |-> <<>>]

NoOutcome == [kind |-> "none", file |-> <<>>, proxy |-> 0]
Invalid == [NoOutcome EXCEPT !.kind = "invalid"]

Init ==
  /\ request \in Requests
  /\ heads = clear /\ parser = reset /\ pc = "read" /\ outcome = NoOutcome

----------------------------------------------------------------------------
(* What is made of the parsed fields *)

Slice(f) == SubSeq(text, f.start + 1, f.start + f.length)

\* strncasecmp(name, key, length of the key): a key that is the beginning of
\* the name passes for it.
Compares(key, name) == Len(key) <= Len(name) /\ key = SubSeq(name, 1, Len(key))

ContentLength == <<"C", "L">>       \* "Content", "-Length"
IfModifiedSince == <<"I", "M">>     \* "If", "-Modified-Since"

\* Wrong: the last header with the key is returned.
getLastHeaderValue(headers, name) ==
  LET named == {i \in 1 .. Len(headers) : Compares(Slice(headers[i].key), name)}
  IN IF named = {} THEN <<>>
     ELSE Slice(headers[CHOOSE i \in named : \A j \in named : j <= i].value)

\* getHeaderValue(); <<>> when there is none.
getHeaderValue(headers, name) ==
  LET named == {i \in 1 .. Len(headers) : Compares(Slice(headers[i].key), name)}
  IN IF named = {} THEN <<>>
     ELSE Slice(headers[CHOOSE i \in named : \A j \in named : i <= j].value)

\* The character of two hexadecimal digits: a space, a point, the end of the
\* string, or one that no url may hold (as when they are no digits).
hex2int(h, l) ==
  CASE <<h, l>> = <<"2", "0">> -> " "
    [] <<h, l>> = <<"2", "E">> -> "."
    [] <<h, l>> = <<"0", "0">> -> "NUL"
    [] OTHER -> "*"

\* Wrong: an escape at the end of the url is not decoded.
percentDecodeShort(src) ==
  LET n == Len(src)
      dst[i \in 1 .. n + 1] ==
        IF i > n THEN <<>>
        ELSE IF src[i] = "%" /\ i + 2 < n
        THEN <<hex2int(src[i + 1], src[i + 2])>> \o dst[i + 3]
        ELSE <<src[i]>> \o dst[i + 1]
  IN dst[1]

percentDecode(src) ==
  LET n == Len(src)
      dst[i \in 1 .. n + 1] ==
        IF i > n THEN <<>>
        ELSE IF src[i] = "%" /\ i + 2 <= n
        THEN <<hex2int(src[i + 1], src[i + 2])>> \o dst[i + 3]
        ELSE <<src[i]>> \o dst[i + 1]
  IN dst[1]

\* Symbol i (from 0) of a string, and how far its first symbols are in S.
Char(s, i) == IF i < Len(s) THEN s[i + 1] ELSE "NUL"
SpanOf(s, S) ==
  CHOOSE n \in 0 .. Len(s) : (\A k \in 1 .. n : s[k] \in S) /\ Char(s, n) \notin S

checkUrl(u) ==
  /\ \A i \in 1 .. Len(u) : u[i] \in Letters \cup Digits \cup {"/", ".", "-", " "}
  /\ \A i \in 2 .. Len(u) : ~(u[i] = "." /\ u[i - 1] = ".")

isUrlPrefix(u, prefix) ==
  LET ui == SpanOf(u, {"/"})
      pi == SpanOf(prefix, {"/"})
      m == CHOOSE n \in 0 .. Len(prefix) - pi :
             /\ \A k \in 0 .. n - 1 : Char(u, ui + k) = Char(prefix, pi + k)
             /\ \/ Char(prefix, pi + n) = "NUL"
                \/ Char(u, ui + n) # Char(prefix, pi + n)
      uEnd == Char(u, ui + m)
      pEnd == Char(prefix, pi + m)
  IN \/ pEnd = "NUL" /\ uEnd \in {"/", "NUL"}
     \/ /\ pEnd = "NUL" /\ pi + m > 0 /\ ui + m > 0
        /\ Char(prefix, pi + m - 1) = "/" /\ Char(u, ui + m - 1) = "/"
     \/ pEnd = "/" /\ uEnd = "NUL"

\* 0 for nullptr.
findProxy(u) ==
  LET found == {i \in DOMAIN Proxies : isUrlPrefix(u, Proxies[i].prefix)}
  IN IF found = {} THEN 0 ELSE CHOOSE i \in found : \A j \in found : i <= j

fileNameBuffer(u) == IF u = <<"/">> THEN <<"index.html">> ELSE u

----------------------------------------------------------------------------
(* parse(): one action per state *)

\* The symbol at position i (from 0), or "end" when it has not arrived.
At(i) == IF i < size THEN text[i + 1] ELSE "end"

\* Reading symbols of S from position c on stops at i.
Scans(c, S, i) == (\A k \in c + 1 .. i : text[k] \in S) /\ At(i) \notin S

In(s) == pc = "parse" /\ parser.state = s

MoveTo(q) == parser' = q /\ UNCHANGED <<request, heads, pc, outcome>>

Move(s, i) == MoveTo([parser EXCEPT !.state = s, !.cur = i])

\* Wrong: what has arrived is passed over, and not looked at again.
AgainPassed ==
  /\ pc' = "read" /\ parser' = [parser EXCEPT !.cur = size]
  /\ UNCHANGED <<request, heads, outcome>>

\* needMoreData: process() returns ok and waits for the next event.
Again == pc' = "read" /\ UNCHANGED <<request, heads, parser, outcome>>

\* finishInvalid: the connection is removed.
Refuse ==
  /\ pc' = "done" /\ outcome' = Invalid
  /\ UNCHANGED <<request, heads, parser>>

\* finishOk, and parse() goes on with postParse().
Finish(q) ==
  /\ parser' = [q EXCEPT !.state = "finishOk"] /\ pc' = "postParse"
  /\ UNCHANGED <<request, heads, outcome>>

\* readMethod(), in which only capitals are read.
ReadMethod ==
  /\ In("method")
  /\ \E i \in parser.cur .. size :
       /\ Scans(parser.cur, {"G", "E"}, i)
       /\ CASE At(i) = " "   -> Move("spaceAfterMethod", i)
            [] At(i) = "end" -> Again
            [] OTHER         -> Refuse

ReadSpaceAfterMethod ==
  /\ In("spaceAfterMethod")
  /\ \E i \in parser.cur .. size :
       /\ Scans(parser.cur, {" "}, i)
       /\ CASE At(i) = "end"          -> Again
            [] At(i) \in {"CR", "LF"} -> Refuse
            [] OTHER                  -> Move("url", i)

ReadUrl ==
  /\ In("url")
  /\ \E i \in parser.cur .. size :
       LET found(s) ==
             MoveTo([parser EXCEPT !.state = s, !.cur = i,
                       !.url = [start |-> parser.cur, length |-> i - parser.cur]])
       IN /\ Scans(parser.cur, Letters \cup Digits \cup {"/", ".", "-", "%"}, i)
          /\ CASE At(i) = " "   -> found("spaceAfterUrl")
               [] At(i) = "?"   -> found("urlParameters")
               [] At(i) = "end" -> Again
               [] OTHER         -> Refuse

\* Without the space at their end the loop of parseInternal() goes round and
\* round: it neither moves nor returns.
ReadUrlParameters ==
  /\ In("urlParameters")
  /\ \E i \in parser.cur .. size :
       /\ Scans(parser.cur, Symbols \ {" "}, i)
       /\ IF At(i) = " " THEN Move("spaceAfterUrl", i) ELSE UNCHANGED vars

LineBreaks == {"CR", "LF"}
EmptyLine(i, j) ==
  \E k, l \in i + 1 .. j : k # l /\ text[k] = "LF" /\ text[l] = "LF"

\* readToNextLine(); an empty line (a request without headers) is refused.
ReadToNextLine ==
  /\ In("spaceAfterUrl")
  /\ \E i \in parser.cur .. size : \E j \in i .. size :
       /\ Scans(parser.cur, Symbols \ LineBreaks, i)
       /\ Scans(i, LineBreaks, j)
       /\ CASE EmptyLine(i, j) -> Refuse
            [] ~EmptyLine(i, j) /\ At(j) = "end" -> Again
            [] ~EmptyLine(i, j) /\ At(j) # "end" -> Move("headerKey", j)

ReadHeaderKey ==
  /\ In("headerKey")
  /\ \E i \in parser.cur .. size :
       /\ Scans(parser.cur, Letters \cup {"-"}, i)
       /\ CASE At(i) = ":"   ->
                 MoveTo([parser EXCEPT !.state = "headerSpace", !.cur = i,
                           !.curKey = [start |-> parser.cur,
                                       length |-> i - parser.cur]])
            [] At(i) = "end" -> Again
            [] OTHER         -> Refuse

\* The value of a header may not be empty.
ReadHeaderSpace ==
  /\ In("headerSpace")
  /\ \E i \in parser.cur .. size :
       /\ Scans(parser.cur, {":", " "}, i)
       /\ CASE At(i) = "end"          -> Again
            [] At(i) \in LineBreaks   -> Refuse
            [] OTHER                  -> Move("headerValue", i)

\* The contentLength after a header.
ContentLengthAfter(key, value, length) ==
  IF Compares(key, ContentLength) THEN atoi(value) ELSE length

\* Wrong: the end and the start of the value are swapped.
HeaderSwapped(i) ==
  [key |-> parser.curKey,
   value |-> [start |-> parser.cur, length |-> parser.cur - i]]

\* Wrong: the last symbol of the value is left out.
HeaderCutShort(i) ==
  [key |-> parser.curKey,
   value |-> [start |-> parser.cur, length |-> i - parser.cur - 1]]

HeaderAt(i) ==
  [key |-> parser.curKey,
   value |-> [start |-> parser.cur, length |-> i - parser.cur]]

ReadHeaderValue ==
  /\ In("headerValue")
  /\ \E i \in parser.cur .. size :
       LET h == HeaderAt(i)
           key == Slice(h.key)
       IN
       /\ Scans(parser.cur, Symbols \ LineBreaks, i)
       /\ CASE At(i) = "end" -> Again
            [] At(i) # "end" /\ Compares(key, ContentLength)
                             /\ h.value.length > BUF_CHARS -> Refuse
            [] OTHER ->
                 MoveTo([parser EXCEPT
                   !.state = "headerLineBreak", !.cur = i,
                   !.headers = Append(@, h),
                   !.contentLength = ContentLengthAfter(key, Slice(h.value), @)])

\* Wrong: it is the carriage returns that are counted.
EndOfHeadersByCR(i) ==
  \E k, l \in parser.cur + 1 .. i : k # l /\ text[k] = "CR" /\ text[l] = "CR"

\* More than one line break, counted in what has arrived.
EndOfHeaders(i) == EmptyLine(parser.cur, i)

\* After the headers all the line breaks that have arrived are skipped, those
\* that belong to the content too.
ReadHeaderLineBreak ==
  /\ In("headerLineBreak")
  /\ \E i \in parser.cur .. size :
       /\ Scans(parser.cur, LineBreaks, i)
       /\ CASE EndOfHeaders(i) ->
                 IF parser.contentLength = 0 THEN Finish(parser)
                 ELSE Move("content", i)
            [] ~EndOfHeaders(i) /\ At(i) = "end" -> Again
            [] ~EndOfHeaders(i) /\ At(i) # "end" -> Move("headerKey", i)

ContentArrived == size - parser.cur >= parser.contentLength

ReadContent ==
  /\ In("content")
  /\ IF ContentArrived
     THEN Finish([parser EXCEPT !.contentStart = parser.cur]) ELSE Again

ParseInternal ==
  \/ ReadMethod \/ ReadSpaceAfterMethod \/ ReadUrl \/ ReadUrlParameters
  \/ ReadToNextLine \/ ReadHeaderKey \/ ReadHeaderSpace \/ ReadHeaderValue
  \/ ReadHeaderLineBreak \/ ReadContent

\* decodeUrl(): the decoded url is a string, which ends at its first 0.
DecodeUrl ==
  /\ pc = "postParse"
  /\ IF parser.url.length = 0 THEN Refuse
     ELSE \E decoded \in {percentDecode(Slice(parser.url))} :
            /\ parser' = [parser EXCEPT !.urlBuffer =
                            SubSeq(decoded, 1, SpanOf(decoded, Symbols))]
            /\ pc' = "parseRequest" /\ UNCHANGED <<request, heads, outcome>>

\* parseRequest() with the rest of postParse().
Decide ==
  LET u == parser.urlBuffer
      proxy == findProxy(u)
      decision ==
        IF proxy # 0
        THEN IF request.connection \in Proxies[proxy].connectionType
             THEN [NoOutcome EXCEPT !.kind = "proxy", !.proxy = proxy]
             ELSE Invalid
        ELSE IF Len(u) <= MAX_FILE_NAME
        THEN [NoOutcome EXCEPT !.kind = "file", !.file = fileNameBuffer(u)]
        ELSE Invalid
  IN /\ pc = "parseRequest"
     /\ IF checkUrl(u)
        THEN /\ outcome' = decision /\ pc' = "done"
             /\ UNCHANGED <<request, heads, parser>>
        ELSE Refuse

Parse == ParseInternal \/ DecodeUrl \/ Decide

----------------------------------------------------------------------------
(* RequestExecutor::readRequest() *)

\* Some bytes, as many as there is room for at most.
ReadSome ==
  /\ pc = "read" /\ WriteSize(heads) > 0
  /\ \E n \in 1 .. WriteSize(heads) :
       size + n <= Len(text) /\ heads' = endWrite(heads, n)
  /\ pc' = "parse" /\ UNCHANGED <<request, parser, outcome>>

\* EAGAIN or EINTR: what is there is parsed again.
ReadNothing ==
  /\ pc = "read" /\ WriteSize(heads) > 0
  /\ pc' = IF readAvailable(heads) THEN "parse" ELSE "read"
  /\ UNCHANGED <<request, heads, parser, outcome>>

RemoveConnection == pc' = "closed" /\ UNCHANGED <<request, heads, parser, outcome>>

\* There is more to read and startWrite() returns false.
NoRoom == pc = "read" /\ WriteSize(heads) = 0 /\ size < Len(text) /\ RemoveConnection

\* The client has gone, read() failed, or the timeout.
ReadFails == pc = "read" /\ RemoveConnection

Finished == pc \in {"done", "closed"} /\ UNCHANGED vars

Next == ReadSome \/ ReadNothing \/ NoRoom \/ ReadFails \/ Parse \/ Finished

\* parse() runs on; epoll is level-triggered, so what the client has sent is
\* reported again and read in the end.
Fairness == WF_vars(Parse) /\ SF_vars(ReadSome) /\ WF_vars(NoRoom)

Spec == Init /\ [][Next]_vars /\ Fairness

----------------------------------------------------------------------------
(* Properties of every set of requests *)

\* Every variable has its type.
TypeOK ==
  /\ text \in Seq(Symbols) /\ heads \in Heads /\ parser \in Parser
  /\ pc \in Steps /\ outcome \in Outcome

\* Every field that the parser remembers lies in what has arrived, so that
\* getUrl(), getHeaderValue() and the content never point behind it,
\* whatever the client sends and however it is cut (HttpRequest.cpp:522-718).
FieldsInside ==
  LET inside(f) == f.start + f.length <= parser.cur IN
  /\ parser.cur <= size /\ size <= Len(text)
  /\ inside(parser.url) /\ inside(parser.curKey)
  /\ \A i \in 1 .. Len(parser.headers) :
       inside(parser.headers[i].key) /\ inside(parser.headers[i].value)
  /\ parser.state = "finishOk" =>
       parser.contentStart + parser.contentLength <= size

\* The symbols behind position i up to position j are of S.
Within(i, S, j) == \A k \in i + 1 .. j : text[k] \in S

End(f) == f.start + f.length

UrlAsSent(f) ==
  /\ f.start > 0 /\ text[f.start] = " "
  /\ Within(f.start, Letters \cup Digits \cup {"/", ".", "-", "%"}, End(f))
  /\ text[End(f) + 1] \in {" ", "?"}

KeyAsSent(f) ==
  /\ f.start > 0 /\ text[f.start] \in LineBreaks
  /\ Within(f.start, Letters \cup {"-"}, End(f))
  /\ text[End(f) + 1] = ":"

HeaderAsSent(h) ==
  /\ KeyAsSent(h.key)
  /\ Within(End(h.key), {":", " "}, h.value.start)
  /\ h.value.length > 0
  /\ text[h.value.start] \in {":", " "} /\ text[h.value.start + 1] \notin {":", " "}
  /\ Within(h.value.start, Symbols \ LineBreaks, End(h.value))
  /\ text[End(h.value) + 1] \in LineBreaks

\* What the parser remembers is the request, and all of it: the url runs from
\* a space to a space or a question mark, every header is a line with its key,
\* a colon and its value, none of them shortened where the request was cut,
\* and between two headers there are only line breaks, so that none is left
\* out (HttpRequest.cpp:339-519 and :555-665).
FieldsAsSent ==
  /\ FieldsInside
  /\ parser.state \notin {"method", "spaceAfterMethod", "url"} => UrlAsSent(parser.url)
  /\ \A n \in 1 .. Len(parser.headers) : HeaderAsSent(parser.headers[n])
  /\ \A n \in 2 .. Len(parser.headers) :
       Within(End(parser.headers[n - 1].value), LineBreaks,
              parser.headers[n].key.start)
=============================================================================
