------------------------------ MODULE HttpCuts ------------------------------
(***************************************************************************)
(* What the cuts between the reads do to a request: the parser is compared *)
(* with itself on the same request, all of which is in the buffer.         *)
(***************************************************************************)
EXTENDS HttpRequest

\* A buffer that holds the whole request, whatever bufSize is.
whole == [readHead |-> 0, writeHead |-> Len(text)]

\* With the whole request nothing is waited for: to wait is to parse on.
phase == IF pc = "read" THEN "parse" ELSE pc

Whole == INSTANCE HttpRequest WITH heads <- whole, pc <- phase

\* The one thing that depends on the cuts: where a content starts. Its first
\* line breaks are skipped with those of the headers as far as they have
\* arrived, the last of the headers never (HttpRequest.cpp:683-692).
ContentStartsEarlier ==
  /\ phase = "parse" /\ parser.state = "headerLineBreak"
  /\ parser.contentLength # 0
  /\ \E i \in parser.cur .. Len(text) :
       /\ \A k \in parser.cur + 1 .. i : text[k] \in LineBreaks
       /\ EndOfHeaders(i)
       /\ parser' = [parser EXCEPT !.state = "content", !.cur = i]
  /\ UNCHANGED <<request, phase, outcome>>

\* A connection may be closed where the parser waits for more.
Closed == phase = "parse" /\ Whole!RemoveConnection

\* However a request is cut into reads, every step of the parser is the step
\* that it would take with the whole request in the buffer, the start of a
\* content excepted: fields, headers, url, refusals and the decision do not
\* depend on the cuts (HttpRequest.cpp:522-718). Nothing is concluded from a
\* byte that has not arrived.
AsIfWhole ==
  [][Whole!Parse \/ ContentStartsEarlier \/ Closed]_<<request, parser, phase, outcome>>
=============================================================================
