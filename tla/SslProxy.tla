------------------------------- MODULE SslProxy -------------------------------
(***************************************************************************)
(* A proxied connection of an SSL client: ProxyExecutorReadWrite with the  *)
(* writeFd0() of SslProxyExecutor. What comes from the upstream (fd1) goes *)
(* through the connection's TransferRingBuffer to the client (fd0), and    *)
(* the executor polls each side only while it has something to do there.   *)
(***************************************************************************)
EXTENDS TransferRingBuffer

CONSTANT MAX_RETRY_COUNTER

ASSUME RetryAssumption == MAX_RETRY_COUNTER \in Nat

VARIABLES
  data,     \* the ExecutorData
  attempt   \* the last SSL_write(): what it was given, and its result

vars == <<data, attempt>>

\* pollData0 and pollData1, as the events fd0 and fd1 are registered for:
\* {} for nullptr. "closed" is an executor that was removed. The states of the
\* second line are those of other executors (SslConnection).
States == {"readRequest", "waitConnect", "forwardRequest", "forwardResponse",
           "forwardResponseOnlyWrite", "closed",
           "sslHandshake", "sendHeaders", "sendOnlyHeaders", "sendFile"}
Interest == SUBSET {"IN", "OUT"}
Data == [state : States, poll0 : Interest, poll1 : Interest, heads : Heads,
         retryCounter : 0 .. MAX_RETRY_COUNTER]
Attempt == [from : 0 .. bufSize - 1, size : 0 .. bufSize, again : BOOLEAN]

NoAttempt == [from |-> 0, size |-> 0, again |-> FALSE]

\* The request was read, with the executor of SslRequestExecutor.
Init ==
  /\ \E n \in 1 .. bufSize, p \in {{"IN"}, {"IN", "OUT"}} :
       data = [state |-> "readRequest", poll0 |-> p, poll1 |-> {},
               heads |-> [readHead |-> 0, writeHead |-> n], retryCounter |-> 0]
  /\ attempt = NoAttempt

----------------------------------------------------------------------------
(* Outcomes of a handler: the data it leaves and its last SSL_write().     *)

Removed == [state |-> "closed", poll0 |-> {}, poll1 |-> {}, heads |-> clear,
            retryCounter |-> 0]

Remove == {[data |-> Removed, attempt |-> NoAttempt]}

Ok(d, a) == {[data |-> d, attempt |-> a]}

\* run() removes an executor that retried too often.
Retry(d, a) ==
  IF d.retryCounter = MAX_RETRY_COUNTER THEN Remove
  ELSE Ok([d EXCEPT !.retryCounter = @ + 1], a)

Progress(d) == [d EXCEPT !.retryCounter = 0]

\* A part of the request, or all of it, has been written to the upstream.
Forwarded(d, n) == [Progress(d) EXCEPT !.heads = endRead(d.heads, n)]

AllForwarded(d) ==
  [Progress(d) EXCEPT !.heads = clear, !.state = "forwardResponse",
                      !.poll1 = {"IN"}]

\* up(): connect() fails, completes at once or is in progress; then poll fd1
\* and stop polling fd0.
up(d, a) ==
  Remove \cup
  {[data |-> [d EXCEPT !.state = s, !.poll0 = {}, !.poll1 = {"OUT"}],
    attempt |-> a] : s \in {"waitConnect", "forwardRequest"}}

\* process_forwardRequest()
process_forwardRequest(d, a) ==
  LET size == ReadSize(d.heads) IN
  IF size = 0 THEN Remove
  ELSE
    Remove \cup Retry(d, a) \cup
    {[data |-> Forwarded(d, n), attempt |-> a] : n \in 1 .. size - 1} \cup
    Ok(AllForwarded(d), a)

process_waitConnect(d, a) ==
  Remove \cup Retry(d, a) \cup
  process_forwardRequest([d EXCEPT !.state = "forwardRequest"], a)

\* addPollFd() for fd0 unless it is polled; it may fail.
PollFd0(d) ==
  IF d.poll0 # {} THEN {d} ELSE {[d EXCEPT !.poll0 = {"OUT"}], Removed}

\* sslWriteFd0() with SSL_ERROR_WANT_READ: editPollFd() fails for a descriptor
\* that is not polled.
WantRead(d, a) ==
  IF d.poll0 = {} THEN Remove
  ELSE Remove \cup Retry([d EXCEPT !.poll0 = {"IN", "OUT"}], a)

\* Wrong: fd0 is not polled.
WantWriteUnpolled(d, a) == Retry(d, a)

WantWrite(d, a) ==
  UNION {IF q = Removed THEN Remove ELSE Retry(q, a) : q \in PollFd0(d)}

\* Wrong: fd1 is not polled again.
WrittenNoRead(d, a) ==
  LET q == [Progress(d) EXCEPT !.heads = endRead(@, ReadSize(@))] IN
  IF d.state = "forwardResponseOnlyWrite" /\ ~readAvailable(q.heads)
  THEN Remove ELSE Ok(q, a)

\* SSL_write() takes everything it is given or nothing.
Written(d, a) ==
  LET q == [Progress(d) EXCEPT !.heads = endRead(@, ReadSize(@))] IN
  IF d.state = "forwardResponseOnlyWrite" /\ ~readAvailable(q.heads)
  THEN Remove
  ELSE IF d.poll1 = {} /\ d.state = "forwardResponse"
  THEN Remove \cup Ok([q EXCEPT !.poll1 = {"IN"}], a)
  ELSE Ok(q, a)

process_forwardResponseWrite(d, a) ==
  LET now(again) == [from |-> d.heads.readHead, size |-> ReadSize(d.heads),
                     again |-> again] IN
  IF readAvailable(d.heads)
  THEN Remove \cup WantRead(d, now(TRUE)) \cup WantWrite(d, now(TRUE)) \cup
       Written(d, now(FALSE))
  ELSE IF d.state = "forwardResponseOnlyWrite" THEN Remove
  ELSE Retry([d EXCEPT !.poll0 = {}], a)

\* The upstream has sent n bytes, or the end of the response.
Received(d, n) == [Progress(d) EXCEPT !.heads = endWrite(d.heads, n)]

UpstreamClosed(d) ==
  [d EXCEPT !.heads = startWrite(@), !.poll1 = {},
            !.state = "forwardResponseOnlyWrite"]

\* read() from the upstream: nothing yet, an error, end of file (fd1 is
\* closed), or some bytes. Without room fd1 is not polled any more.
process_forwardResponseRead(d, a) ==
  LET s == [d EXCEPT !.heads = startWrite(@)] IN
  IF WriteSize(d.heads) = 0
  THEN UNION {IF q = Removed THEN Remove ELSE Retry(q, a) :
                q \in PollFd0([s EXCEPT !.poll1 = {}])}
  ELSE
    Remove \cup Retry(s, a) \cup
    process_forwardResponseWrite(UpstreamClosed(d), a) \cup
    UNION {process_forwardResponseWrite(Received(d, n), a) :
             n \in 1 .. WriteSize(d.heads)}

----------------------------------------------------------------------------
(* The actions *)

Becomes(outcomes) ==
  \E out \in outcomes : data' = out.data /\ attempt' = out.attempt

Up == data.state = "readRequest" /\ Becomes(up(data, attempt))

\* process() for what epoll_wait reported of fd1.
ProcessFd1(E) ==
  /\ E # {} /\ E \subseteq data.poll1
  /\ Becomes(
       CASE data.state = "waitConnect" /\ "OUT" \in E ->
              process_waitConnect(data, attempt)
         [] data.state = "forwardRequest" /\ "OUT" \in E ->
              process_forwardRequest(data, attempt)
         [] data.state = "forwardResponse" /\ "IN" \in E ->
              process_forwardResponseRead(data, attempt)
         [] OTHER -> Remove)

\* process() for what it reported of fd0.
ProcessFd0(E) ==
  /\ data.state # "readRequest" /\ E # {} /\ E \subseteq data.poll0
  /\ Becomes(IF /\ data.state \in {"forwardResponse", "forwardResponseOnlyWrite"}
                /\ "OUT" \in E
             THEN process_forwardResponseWrite(data, attempt) ELSE Remove)

\* A hang-up of the client, an error of the upstream alone, the timeout.
End == data.state # "closed" /\ Becomes(Remove)

Process == \E E \in Interest : ProcessFd0(E) \/ ProcessFd1(E)

Closed == data.state = "closed" /\ UNCHANGED vars

Next == Up \/ Process \/ End \/ Closed

\* epoll is level-triggered: a descriptor that stays ready is reported again.
\* The client keeps reading: fd0 is writable sooner or later.
Fairness == WF_vars(ProcessFd0({"OUT"}) \/ ProcessFd0({"IN", "OUT"}))

Spec == Init /\ [][Next]_vars /\ Fairness

----------------------------------------------------------------------------
(* Properties *)

\* Every variable has its type.
TypeOK == data \in Data /\ attempt \in Attempt

IsArmed(d) ==
  /\ d.state = "readRequest" => "IN" \in d.poll0
  /\ d.state \in {"waitConnect", "forwardRequest"} =>
       d.poll1 = {"OUT"} /\ readAvailable(d.heads)
  /\ d.state = "forwardResponse" =>
       IF readAvailable(d.heads) THEN "OUT" \in d.poll0 ELSE d.poll1 = {"IN"}
  /\ d.state = "forwardResponseOnlyWrite" =>
       readAvailable(d.heads) /\ "OUT" \in d.poll0

\* Whatever the connection waits for is polled. process_forwardResponseWrite
\* does not poll fd0 when a write leaves bytes in the buffer
\* (ProxyExecutorReadWrite.cpp:241-261): that happens after the wrap only, and
\* then fd0 is polled already.
Armed == IsArmed(data)

\* OpenSSL refuses an SSL_write() that, after one that was to be repeated, is
\* given another buffer or fewer bytes. What startRead() offers must begin
\* where it began and not shrink, while more is read from the upstream.
SameWriteAgain ==
  [][attempt.again /\ attempt' # NoAttempt =>
       attempt'.from = attempt.from /\ attempt'.size >= attempt.size]_vars

\* After the end of the response what is buffered goes out, in as many writes
\* as the wrap needs, and the connection ends.
FlushEnds == data.state = "forwardResponseOnlyWrite" ~> data.state = "closed"

\* A proxy that stopped reading because its buffer was full reads again.
ReadResumes ==
  (data.state = "forwardResponse" /\ data.poll1 = {})
    ~> (data.poll1 # {} \/ data.state = "closed")
=============================================================================
