---------------------------- MODULE SslConnection ----------------------------
(***************************************************************************)
(* A connection of an SSL client from its accept to its removal, again and *)
(* again: SslServerExecutor accepts it, SslRequestExecutor shakes hands    *)
(* and reads the request, and SslFileExecutor or SslProxyExecutor (module  *)
(* SslProxy) answers it. All of them work on the ExecutorData in data.     *)
(*                                                                         *)
(* SSL_do_handshake(), SSL_read() and SSL_write() may succeed, fail, or    *)
(* want the socket to be readable or writable first.                       *)
(***************************************************************************)
EXTENDS SslProxy, FiniteSetsExt

CONSTANT MaxFile   \* bound of the bytes of a file

ASSUME MaxFileAssumption == MaxFile \in Nat

VARIABLES
  executor,   \* pExecutor, "none" for a connection that was removed
  file        \* the file that is sent, and the bytes of it the client was sent

connectionVars == <<data, attempt, executor, file>>

\* announced is the size that fstat() gave and the response tells the client;
\* content is what the file holds while it is read, which may differ.
NoFile == [open |-> FALSE, announced |-> 0, content |-> 0, left |-> 0,
           bytesToSend |-> 0, sent |-> 0]

ConnectionInit ==
  /\ data = Removed /\ attempt = NoAttempt /\ executor = "none" /\ file = NoFile

----------------------------------------------------------------------------
(* Outcomes of a handler *)

With(outcomes, ex, f) ==
  {[data |-> o.data, attempt |-> o.attempt, file |-> f,
    executor |-> IF o.data = Removed THEN "none" ELSE ex] : o \in outcomes}

Leads(outcomes) ==
  \E o \in outcomes :
    /\ data' = o.data /\ attempt' = o.attempt
    /\ executor' = o.executor /\ file' = o.file

\* SSL_write() of what startRead() offers.
WriteOf(d, again) == [from |-> d.heads.readHead, size |-> ReadSize(d.heads),
                      again |-> again]

----------------------------------------------------------------------------
(* SslRequestExecutor *)

\* up(): sslInit() and the first handleHandshake(). That addPollFd() fails is
\* not noticed when the handshake goes on.
requestUp ==
  LET q(state, p) == [state |-> state, poll0 |-> p, poll1 |-> {},
                      heads |-> clear, retryCounter |-> 0] IN
  Remove \cup Ok(q("readRequest", {"IN"}), NoAttempt) \cup
  UNION {Ok(q("sslHandshake", p), NoAttempt) : p \in {{}, {"IN"}, {"OUT"}}}

\* process_handshake(): here it is editPollFd() whose failure is not noticed.
process_handshake(d, a) ==
  Remove \cup Ok([d EXCEPT !.state = "readRequest", !.poll0 = {"IN"}], a) \cup
  UNION {Retry([d EXCEPT !.poll0 = p], a) : p \in {d.poll0, {"IN"}, {"OUT"}}}

\* What open() and fstat() may give: no byte has been read or sent.
OpenedFiles ==
  {f \in [open : BOOLEAN, announced : 0 .. MaxFile, content : 0 .. MaxFile,
          left : 0 .. MaxFile, bytesToSend : 0 .. MaxFile, sent : {0}] :
     f.open /\ f.left = f.content /\ f.bytesToSend = f.announced}

\* The response headers, in the buffer.
Headers(d, a, state) ==
  {[data |-> [d EXCEPT !.state = state, !.poll0 = {"OUT"},
                       !.heads = endWrite(clear, h)],
    attempt |-> a] : h \in 1 .. bufSize}

\* FileExecutor::up(): the file is not there (404), was not modified since
\* (304), or is sent after its headers.
fileUp(d, a) ==
  With(Remove, "none", NoFile) \cup
  (UNION {With(Headers(d, a, "sendOnlyHeaders"), "sslFile", f) :
            f \in {NoFile, [NoFile EXCEPT !.open = TRUE]}}) \cup
  (UNION {With(Headers(d, a, "sendHeaders"), "sslFile", f) : f \in OpenedFiles})

\* parseRequest() after something was read, and setExecutor(): a request that
\* is not complete, is refused, or asks for a file or for a proxy.
answer(d, a) ==
  With(Ok(d, a), "sslRequest", NoFile) \cup fileUp(d, a) \cup
  With(up(d, a), "sslProxy", NoFile)

\* readFd0(), when SSL_read() wants to read or to write first.
readFd0(d, a) == Retry(d, a) \cup Retry([d EXCEPT !.poll0 = {"IN", "OUT"}], a)

process_readRequest(d, a) ==
  With(Remove, "none", NoFile) \cup
  IF WriteSize(d.heads) = 0 THEN {}
  ELSE
    With(readFd0([d EXCEPT !.heads = startWrite(@)], a), "sslRequest", NoFile) \cup
    UNION {answer(Received(d, n), a) : n \in 1 .. WriteSize(d.heads)}

requestProcess(E) ==
  CASE data.state = "sslHandshake" ->
         With(process_handshake(data, attempt), "sslRequest", NoFile)
    [] data.state = "readRequest" /\ E = {"IN"} ->
         process_readRequest(data, attempt)
    [] OTHER -> With(Remove, "none", NoFile)

----------------------------------------------------------------------------
(* SslFileExecutor *)

\* FileExecutor::process_sendHeaders() with the writeFd0() of SslFileExecutor.
process_sendHeaders(d, a) ==
  LET next == IF d.state = "sendOnlyHeaders" THEN Remove
              ELSE Ok([Progress(d) EXCEPT !.heads = clear, !.state = "sendFile"],
                      WriteOf(d, FALSE)) IN
  IF ~readAvailable(d.heads) THEN Remove
  ELSE Remove \cup next \cup Retry(d, WriteOf(d, TRUE)) \cup
       WantRead(d, WriteOf(d, TRUE))

\* Reading the file: the data, the file, and whether something was read.
Part(d, f, done) == [data |-> d, file |-> f, operationOk |-> done]

\* Wrong: a full buffer is taken for the end of the file.
readFileUnlessFull(d, f) ==
  LET s == [d EXCEPT !.heads = startWrite(@)] IN
  IF ~f.open THEN {Part(d, f, FALSE)}
  ELSE IF WriteSize(d.heads) = 0 \/ f.left = 0
  THEN {Part(s, [f EXCEPT !.open = FALSE], FALSE)}
  ELSE {Part([d EXCEPT !.heads = endWrite(@, n)], [f EXCEPT !.left = @ - n], TRUE) :
          n \in 1 .. Min({WriteSize(d.heads), f.left})}

readFile(d, f) ==
  LET s == [d EXCEPT !.heads = startWrite(@)] IN
  IF ~f.open THEN {Part(d, f, FALSE)}
  ELSE IF WriteSize(d.heads) = 0 THEN {Part(s, f, FALSE)}
  ELSE IF f.left = 0 THEN {Part(s, [f EXCEPT !.open = FALSE], FALSE)}
  ELSE {Part([d EXCEPT !.heads = endWrite(@, n)], [f EXCEPT !.left = @ - n], TRUE) :
          n \in 1 .. Min({WriteSize(d.heads), f.left})}

\* SSL_write() takes all of what it is given.
writeFile(p) ==
  LET d == p.data
      n == ReadSize(d.heads)
      f == [p.file EXCEPT !.bytesToSend = @ - n, !.sent = @ + n] IN
  IF f.bytesToSend = 0 THEN With(Remove, "none", f)
  ELSE With(Ok([Progress(d) EXCEPT !.heads = endRead(@, n)], WriteOf(d, FALSE)),
            "sslFile", f)

\* Wrong: only a refused write counts as a retry.
EndSendFileUncounted(p, a) ==
  With(IF p.operationOk \/ ~readAvailable(p.data.heads) THEN Ok(Progress(p.data), a)
       ELSE Retry(p.data, a), "sslFile", p.file)

\* The end of process_sendFile() when nothing was written.
EndSendFile(p, a) ==
  With(IF p.operationOk THEN Ok(Progress(p.data), a) ELSE Retry(p.data, a),
       "sslFile", p.file)

\* SSL_ERROR_WANT_READ
readFirst(p) ==
  EndSendFile(Part([p.data EXCEPT !.poll0 = {"IN", "OUT"}], p.file, p.operationOk),
              WriteOf(p.data, TRUE))

\* SSL_ERROR_WANT_WRITE does not count as a retry.
writeFirst(p) == With(Ok(p.data, WriteOf(p.data, TRUE)), "sslFile", p.file)

\* The outcomes that take the file further, and the one that waits.
sendFile(d, a, f) ==
  UNION {IF readAvailable(p.data.heads) THEN writeFile(p) \cup readFirst(p)
         ELSE IF p.file.open THEN With(Remove, "none", f)
         ELSE EndSendFile(p, a) : p \in readFile(d, f)}

waitToSendFile(d, f) ==
  UNION {writeFirst(p) : p \in {q \in readFile(d, f) : readAvailable(q.data.heads)}}

----------------------------------------------------------------------------
(* The actions *)

\* SslServerExecutor::process()
Accept ==
  /\ executor = "none"
  /\ Leads(With(requestUp, "sslRequest", NoFile))

Reported(E) == E # {} /\ E \subseteq data.poll0

Request(E) ==
  executor = "sslRequest" /\ Reported(E) /\ Leads(requestProcess(E))

SendHeaders(E) ==
  /\ executor = "sslFile" /\ Reported(E)
  /\ data.state \in {"sendHeaders", "sendOnlyHeaders"}
  /\ Leads(With(IF "OUT" \in E THEN process_sendHeaders(data, attempt) ELSE Remove,
                "sslFile", file))

\* process_sendFile(), for any event, when it gets on.
SendFile(E) ==
  /\ executor = "sslFile" /\ data.state = "sendFile" /\ Reported(E)
  /\ Leads(sendFile(data, attempt, file))

SendFileWaits(E) ==
  /\ executor = "sslFile" /\ data.state = "sendFile" /\ Reported(E)
  /\ Leads(waitToSendFile(data, file))

ProxyStep(A) ==
  /\ executor = "sslProxy" /\ A
  /\ executor' = IF data'.state = "closed" THEN "none" ELSE executor
  /\ UNCHANGED file

\* read(), SSL_write() or an edit of the registration fails, the client hangs
\* up, the timeout.
EndConnection ==
  executor # "none" /\ Leads(With(Remove, "none", file))

ConnectionNext ==
  \/ Accept
  \/ \E E \in Interest : Request(E) \/ SendHeaders(E) \/ SendFile(E) \/ SendFileWaits(E)
  \/ ProxyStep(Process)
  \/ EndConnection

\* The client keeps reading, so fd0 is reported writable, and OpenSSL does not
\* want it writable first every time.
ConnectionFairness ==
  /\ WF_connectionVars(ProxyStep(ProcessFd0({"OUT"}) \/ ProcessFd0({"IN", "OUT"})))
  /\ WF_connectionVars(SendFile({"OUT"}))

ConnectionSpec ==
  ConnectionInit /\ [][ConnectionNext]_connectionVars /\ ConnectionFairness

----------------------------------------------------------------------------
(* Properties *)

\* No byte of the file is lost or sent twice on its way through the buffer,
\* which held the headers before; the file is closed at its end and not before;
\* what is still to be sent is what was announced less what was sent. A file
\* that did not grow since fstat() is never sent beyond its announced size
\* (SslFileExecutor.cpp:28-63).
FileAccounted ==
  data.state = "sendFile" =>
    /\ file.sent + Held(data.heads) + file.left = file.content
    /\ ~file.open => file.left = 0
    /\ file.sent + file.bytesToSend = file.announced
    /\ file.content <= file.announced => file.bytesToSend > 0 \/ file.announced = 0

\* Sending a file ends, also a file that is empty, was truncated or has grown
\* since its size was announced: at its end nothing is left to write, and the
\* retries are counted (SslFileExecutor.cpp:87-103).
FileEnds == data.state = "sendFile" ~> data.state = "closed"
=============================================================================
