---------------------------- MODULE MCHttpRequest ----------------------------
(***************************************************************************)
(* Requests for model checking, put together from their parts, and what a  *)
(* server should make of them: the reference that the parser is compared   *)
(* with. A part says itself whether it is well formed.                     *)
(***************************************************************************)
EXTENDS HttpCuts, SequencesExt

CRLF == <<"CR", "LF">>
LFOnly == <<"LF">>

\* A url as it is sent, and as it is meant.
MCUrl(raw, plain, ok) == [raw |-> raw, plain |-> plain, ok |-> ok]
Plain(u) == MCUrl(u, u, TRUE)

Urls == {
  Plain(<<"/">>), Plain(<<"/", "G">>), Plain(<<"/", "/", "G", "/">>),
  Plain(<<"/", "a">>), Plain(<<"/", "a", "/">>), Plain(<<"a", "/", "b">>),
  Plain(<<"/", "a", "/", "b", "/", "G">>), Plain(<<"/", "a", "G">>),
  Plain(<<"/", "b">>), Plain(<<"/", "b", "/", "a">>), Plain(<<"b", "G">>),
  Plain(<<"/", "G", "/", "G", "/", "G">>),
  MCUrl(<<"/", "%", "2", "0", "a">>, <<"/", " ", "a">>, TRUE),
  MCUrl(<<"/", "a", "%", "2", "E">>, <<"/", "a", ".">>, TRUE),
  MCUrl(<<"/", "a", "%", "0", "0", "b">>, <<"/", "a">>, TRUE),
  MCUrl(<<"/", ".", "%", "2", "E">>, <<>>, FALSE),
  MCUrl(<<"/", "%", "2">>, <<>>, FALSE), MCUrl(<<"/", "%", "2", "a">>, <<>>, FALSE),
  MCUrl(<<"/", ":">>, <<>>, FALSE), MCUrl(<<>>, <<>>, FALSE)}

NoParameters == <<>>
Parameters == {<<"?">>, <<"?", "a", "1">>}

MCHeader(key, value) == [key |-> key, value |-> value]
Host == MCHeader(<<"a">>, <<"b">>)

\* Headers, the content, whether this is well formed, and the value of
\* If-Modified-Since.
MCRest(headers, content, ok, since) ==
  [headers |-> headers, content |-> content, ok |-> ok, since |-> since]

JustHost == MCRest(<<Host>>, <<>>, TRUE, <<>>)

Rests == {
  JustHost,
  MCRest(<<>>, <<>>, FALSE, <<>>),
  MCRest(<<Host, MCHeader(IfModifiedSince, <<"1">>)>>, <<>>, TRUE, <<"1">>),
  MCRest(<<MCHeader(IfModifiedSince, <<"0">>), MCHeader(IfModifiedSince, <<"1">>)>>,
         <<>>, TRUE, <<"0">>),
  MCRest(<<MCHeader(<<"I">>, <<"0">>), MCHeader(IfModifiedSince, <<"1">>)>>,
         <<>>, TRUE, <<"1">>),
  MCRest(<<Host, MCHeader(<<"b">>, <<>>)>>, <<>>, FALSE, <<>>),
  MCRest(<<MCHeader(<<"a", "*">>, <<"b">>)>>, <<>>, FALSE, <<>>),
  MCRest(<<MCHeader(ContentLength, <<"0">>)>>, <<>>, TRUE, <<>>),
  MCRest(<<MCHeader(ContentLength, <<"1">>)>>, <<"a">>, TRUE, <<>>),
  MCRest(<<Host, MCHeader(ContentLength, <<"2">>)>>, <<"a", "LF">>, TRUE, <<>>),
  MCRest(<<MCHeader(ContentLength, <<"2">>)>>, <<"LF", "a">>, TRUE, <<>>),
  MCRest(<<MCHeader(ContentLength, <<"0", "0", "1">>)>>, <<"a">>, FALSE, <<>>),
  MCRest(<<MCHeader(ContentLength, <<"1">>), MCHeader(<<"C">>, <<"0">>)>>, <<"a">>, TRUE,
         <<>>)}

Rendered(h, eol) == h.key \o <<":", " ">> \o h.value \o eol

MCRequest(method, url, parameters, eol, rest, connection) ==
  [text |-> method \o <<" ">> \o url.raw \o parameters \o <<" ", "*">> \o eol \o
            FlattenSeq([i \in DOMAIN rest.headers |->
                          Rendered(rest.headers[i], eol)]) \o
            eol \o rest.content,
   connection |-> connection, method |-> method, url |-> url,
   parameters |-> parameters, rest |-> rest]

GoodMethod == <<"G">>

\* Every url with and without parameters; every kind of headers and content;
\* a method that is none.
MCRequests ==
  {MCRequest(GoodMethod, u, q, eol, JustHost, c) :
     u \in Urls, q \in Parameters \cup {NoParameters}, eol \in {CRLF, LFOnly},
     c \in {"clear", "ssl"}} \cup
  {MCRequest(GoodMethod, Plain(<<"/", "G">>), q, eol, h, "clear") :
     q \in {NoParameters, <<"?">>}, eol \in {CRLF, LFOnly}, h \in Rests} \cup
  {MCRequest(<<"G", "a">>, Plain(<<"/">>), NoParameters, CRLF, JustHost, "clear")}

MCProxies == <<
  [prefix |-> <<"/", "a", "/", "b">>, connectionType |-> {"clear"}],
  [prefix |-> <<"a">>, connectionType |-> {"clear", "ssl"}],
  [prefix |-> <<"b", "/">>, connectionType |-> {"ssl"}]>>

\* The values above have one digit, or zeros before it.
MCatoi(v) ==
  IF v = <<>> THEN 0
  ELSE CASE Last(v) = "1" -> 1 [] Last(v) = "2" -> 2 [] OTHER -> 0

----------------------------------------------------------------------------
(* The reference *)

Trim(s) ==
  LET Inner == {i \in DOMAIN s : s[i] # "/"}
  IN IF Inner = {} THEN <<>>
     ELSE SubSeq(s, Min(Inner), Max(Inner))

\* The url is that of the prefix, or below it.
Under(u, prefix) ==
  Trim(u) = Trim(prefix) \/ IsPrefix(Trim(prefix) \o <<"/">>, Trim(u))

\* What isUrlPrefix() takes for it, too: the url is above the prefix
\* (HttpRequest.cpp:251-254).
Above(u, prefix) ==
  Last(u) # "/" /\ IsPrefix(Trim(u) \o <<"/">>, Trim(prefix))

Chosen(u) ==
  SelectInSeq(Proxies, LAMBDA p : Under(u, p.prefix) \/ Above(u, p.prefix))

Expected(r) ==
  LET u == r.url.plain
      i == Chosen(u)
  IN CASE ~(r.method = GoodMethod /\ r.url.ok /\ r.rest.ok) -> Invalid
       [] OTHER ->
            IF i # 0
            THEN IF r.connection \in Proxies[i].connectionType
                 THEN [NoOutcome EXCEPT !.kind = "proxy", !.proxy = i]
                 ELSE Invalid
            ELSE IF Len(u) > MAX_FILE_NAME THEN Invalid
            ELSE [NoOutcome EXCEPT
                    !.kind = "file",
                    !.file = IF u = <<"/">> THEN <<"index.html">> ELSE u]

\* A key that is only the beginning of a name that the server looks for.
Abbreviates(r, name) ==
  \E i \in DOMAIN r.rest.headers :
    LET key == r.rest.headers[i].key IN key # name /\ IsPrefix(key, name)

\* The content begins with a line break.
StartsWithLineBreak(r) ==
  r.rest.content # <<>> /\ r.rest.content[1] \in LineBreaks

----------------------------------------------------------------------------
(* Properties *)

\* However a request is cut into reads, what serves it is decided by what was
\* sent, and not before all of it has arrived. A key that abbreviates
\* Content-Length is the exception: it is taken for it (HttpRequest.cpp:649).
AnswerAsSent ==
  pc = "done" /\ ~Abbreviates(request, ContentLength) =>
    /\ outcome = Expected(request)
    /\ outcome.kind # "invalid" => size = Len(text)

\* A request that was accepted gives back the first If-Modified-Since that was
\* sent, also when its header arrived in pieces. The exception is as above.
HeaderFound ==
  outcome.kind \in {"file", "proxy"} /\ ~Abbreviates(request, IfModifiedSince) =>
    getHeaderValue(parser.headers, IfModifiedSince) = request.rest.since

\* A request that the client goes on sending is answered, or its connection
\* closed. The exceptions: parameters, on which the parser may hang (see
\* ParseReturns), and a content whose first line break may be taken for the end
\* of the headers (HttpRequest.cpp:683-692).
Answered ==
  (request.parameters = NoParameters /\ ~StartsWithLineBreak(request))
    ~> pc \in {"done", "closed"}

\* parse() of a part of a request returns, as the tests of the parser say of
\* parts of any length (tests/TestHttpRequest.cpp:44-52).
ParseReturns == pc = "parse" ~> pc # "parse"
=============================================================================
