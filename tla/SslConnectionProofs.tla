-------------------------- MODULE SslConnectionProofs --------------------------
(***************************************************************************)
(* For every size of the buffer and of a file and every retry limit: an    *)
(* SSL connection polls what it waits for, whichever executor has it, a    *)
(* refused SSL_write() is repeated with the same start and no fewer bytes, *)
(* and no byte of a file is lost or sent twice. First the proxy alone      *)
(* (module SslProxy), then the whole connection.                           *)
(***************************************************************************)
EXTENDS SslConnection, TLAPS


Responding == {"forwardResponse", "forwardResponseOnlyWrite"}

\* A refused write is still the one that startRead() offers.
Pending(d, a) ==
  a.again => /\ d.state \in Responding
             /\ a.from = d.heads.readHead /\ a.size <= ReadSize(d.heads)

\* What the two sides may be polled for, in the states of this executor.
Polling(d) ==
  /\ d.state \notin {"sslHandshake", "sendHeaders", "sendOnlyHeaders", "sendFile"}
  /\ d.state \in {"waitConnect", "forwardRequest"} => d.poll0 = {}
  /\ d.state \in Responding /\ d.poll0 # {} => "OUT" \in d.poll0
  /\ d.state = "forwardResponse" => d.poll1 \in {{}, {"IN"}}

\* The inductive invariant.
Good(d, a) ==
  /\ d \in Data /\ a \in Attempt
  /\ d.state = "readRequest" => readAvailable(d.heads)
  /\ IsArmed(d) /\ Pending(d, a) /\ Polling(d)

Inv == Good(data, attempt)

\* Before process_forwardResponseWrite(), which is also called in the middle
\* of process_forwardResponseRead(): fd0 is polled if the buffer has wrapped.
Writable(d, a) ==
  /\ d \in Data /\ a \in Attempt
  /\ d.state \in Responding /\ Pending(d, a) /\ Polling(d)
  /\ d.heads.readHead > d.heads.writeHead => "OUT" \in d.poll0
  /\ d.state = "forwardResponse" /\ ~readAvailable(d.heads) => d.poll1 = {"IN"}

Same(a, b) == a.again /\ b # NoAttempt => b.from = a.from /\ b.size >= a.size

\* An outcome of a handler that began with the attempt a.
Fine(out, a) == Good(out.data, out.attempt) /\ Same(a, out.attempt)

----------------------------------------------------------------------------
(* The buffer *)

\* ReadSize() of heads inside the buffer is a number of its bytes, positive
\* unless the heads meet.
LEMMA ReadSizeType ==
  ASSUME NEW h \in Heads
  PROVE  /\ ReadSize(h) \in 0 .. bufSize
         /\ readAvailable(h) <=> h.readHead # h.writeHead
BY BufSizeAssumption DEF Heads, ReadSize, readAvailable

\* endRead() of what startRead() offers leaves nothing before the wrap: bytes
\* are left only if the buffer had wrapped.
LEMMA EndReadType ==
  ASSUME NEW h \in Heads, NEW n \in 1 .. ReadSize(h)
  PROVE  /\ endRead(h, n) \in Heads
         /\ n = ReadSize(h) /\ readAvailable(endRead(h, n)) =>
              h.readHead > h.writeHead
         /\ n < ReadSize(h) => readAvailable(endRead(h, n))
BY BufSizeAssumption DEF Heads, ReadSize, readAvailable, endRead

\* startWrite() may move writeHead, but not change what startRead() offers.
LEMMA StartWriteType ==
  ASSUME NEW h \in Heads
  PROVE  /\ startWrite(h) \in Heads
         /\ startWrite(h).readHead = h.readHead
         /\ ReadSize(startWrite(h)) = ReadSize(h)
         /\ startWrite(h).readHead > startWrite(h).writeHead => readAvailable(h)
         /\ WriteSize(h) \in 0 .. bufSize
         /\ WriteSize(h) = 0 => readAvailable(h)
BY BufSizeAssumption
   DEF Heads, ReadSize, readAvailable, startWrite, WriteSize

\* endWrite() never takes bytes away from what startRead() offers, and wraps
\* only a buffer that holds something.
LEMMA EndWriteType ==
  ASSUME NEW h \in Heads, NEW n \in 1 .. WriteSize(h)
  PROVE  /\ endWrite(h, n) \in Heads
         /\ endWrite(h, n).readHead = h.readHead
         /\ ReadSize(endWrite(h, n)) >= ReadSize(h)
         /\ readAvailable(endWrite(h, n))
         /\ endWrite(h, n).readHead > endWrite(h, n).writeHead => readAvailable(h)
BY BufSizeAssumption
   DEF Heads, ReadSize, readAvailable, startWrite, WriteSize, endWrite

----------------------------------------------------------------------------
(* Outcomes *)

\* A removed executor waits for nothing.
LEMMA RemoveFine ==
  ASSUME NEW a \in Attempt, NEW out \in Remove
  PROVE  Fine(out, a)
<1>1. out.data = Removed /\ out.attempt = NoAttempt
  BY DEF Remove
<1>2. Removed \in Data /\ NoAttempt \in Attempt
  BY BufSizeAssumption, RetryAssumption
     DEF Removed, NoAttempt, Data, Attempt, States, Interest, Heads, clear
<1>3. Removed.state = "closed" /\ ~NoAttempt.again
  BY DEF Removed, NoAttempt
<1>4. IsArmed(Removed) /\ Pending(Removed, NoAttempt) /\ Polling(Removed)
  BY <1>3 DEF IsArmed, Pending, Polling, Responding
<1> QED BY <1>1, <1>2, <1>3, <1>4 DEF Fine, Good, Same

\* A retry changes retryCounter only, or removes the executor.
LEMMA RetryFine ==
  ASSUME NEW a \in Attempt, NEW d, NEW b, Good(d, b), Same(a, b),
         NEW out \in Retry(d, b)
  PROVE  Fine(out, a)
<1>1. CASE d.retryCounter = MAX_RETRY_COUNTER
  BY <1>1, RemoveFine DEF Retry
<1>2. CASE d.retryCounter # MAX_RETRY_COUNTER
  <2> DEFINE q == [d EXCEPT !.retryCounter = @ + 1]
  <2>1. out = [data |-> q, attempt |-> b]
    BY <1>2 DEF Retry, Ok
  <2>2. /\ q \in Data /\ q.state = d.state /\ q.poll0 = d.poll0
        /\ q.poll1 = d.poll1 /\ q.heads = d.heads
    BY <1>2, RetryAssumption DEF Good, Data
  <2> QED BY <2>1, <2>2 DEF Fine, Good, IsArmed, Pending, Polling
<1> QED BY <1>1, <1>2

\* So does an outcome that is returned as it is.
LEMMA OkFine ==
  ASSUME NEW a \in Attempt, NEW d, NEW b, Good(d, b), Same(a, b),
         NEW out \in Ok(d, b)
  PROVE  Fine(out, a)
BY DEF Ok, Fine

\* Progress() changes retryCounter only.
LEMMA ProgressType ==
  ASSUME NEW d \in Data
  PROVE  /\ Progress(d) \in Data /\ Progress(d).state = d.state
         /\ Progress(d).poll0 = d.poll0 /\ Progress(d).poll1 = d.poll1
         /\ Progress(d).heads = d.heads
BY RetryAssumption DEF Progress, Data

----------------------------------------------------------------------------
(* The request goes to the upstream *)

\* process_forwardRequest(): what is left of the request stays readable, and
\* after the last of it the upstream is polled for the response.
LEMMA ForwardRequestFine ==
  ASSUME NEW d \in Data, NEW a \in Attempt, ~a.again,
         d.state = "forwardRequest", d.poll0 = {}, d.poll1 = {"OUT"},
         readAvailable(d.heads),
         NEW out \in process_forwardRequest(d, a)
  PROVE  Fine(out, a)
<1> DEFINE size == ReadSize(d.heads)
<1>h. d.heads \in Heads
  BY DEF Data
<1>1. size \in 1 .. bufSize
  BY <1>h, ReadSizeType, BufSizeAssumption DEF readAvailable
<1>s. Same(a, a)
  BY DEF Same
<1>2. \/ out \in Remove \/ out \in Retry(d, a)
      \/ \E n \in 1 .. size - 1 : out \in Ok(Forwarded(d, n), a)
      \/ out \in Ok(AllForwarded(d), a)
  <2>1. size # 0
    BY <1>1
  <2>2. out \in Remove \cup Retry(d, a)
                \cup {[data |-> Forwarded(d, n), attempt |-> a] :
                        n \in 1 .. size - 1}
                \cup Ok(AllForwarded(d), a)
    BY <2>1 DEF process_forwardRequest
  <2> HIDE DEF size
  <2> QED BY <2>2, Zenon DEF Ok
<1>3. CASE out \in Remove
  BY <1>3, RemoveFine
<1>4. CASE out \in Retry(d, a)
  <2>1. Good(d, a)
    BY DEF Good, IsArmed, Pending, Polling, Responding
  <2> QED BY <1>4, <1>s, <2>1, RetryFine
<1>5. CASE \E n \in 1 .. size - 1 : out \in Ok(Forwarded(d, n), a)
  <2>1. PICK n \in 1 .. size - 1 : out \in Ok(Forwarded(d, n), a)
    BY <1>5
  <2>2. endRead(d.heads, n) \in Heads /\ readAvailable(endRead(d.heads, n))
    <3>1. n \in 1 .. ReadSize(d.heads) /\ n < ReadSize(d.heads)
      BY <1>1
    <3> QED BY <1>h, <3>1, EndReadType
  <2>3. /\ Forwarded(d, n) \in Data /\ Forwarded(d, n).state = "forwardRequest"
        /\ Forwarded(d, n).poll0 = {} /\ Forwarded(d, n).poll1 = {"OUT"}
        /\ Forwarded(d, n).heads = endRead(d.heads, n)
    BY <2>2, ProgressType DEF Forwarded, Data
  <2>4. Good(Forwarded(d, n), a)
    BY <2>2, <2>3 DEF Good, IsArmed, Pending, Polling, Responding
  <2> QED BY <2>1, <2>4, <1>s, OkFine
<1>6. CASE out \in Ok(AllForwarded(d), a)
  <2>1. clear \in Heads /\ ~readAvailable(clear)
    BY BufSizeAssumption DEF clear, Heads, readAvailable, ReadSize
  <2> PICK q : q = Progress(d)
    OBVIOUS
  <2>p. q \in Data /\ q.poll0 = d.poll0
    BY ProgressType
  <2>a. AllForwarded(d) = [q EXCEPT !.heads = clear, !.state = "forwardResponse",
                                    !.poll1 = {"IN"}]
    BY DEF AllForwarded
  <2>s. "forwardResponse" \in States /\ {"IN"} \in Interest
    BY DEF States, Interest
  <2>2. AllForwarded(d) \in Data
    BY <2>1, <2>p, <2>a, <2>s DEF Data
  <2>3. /\ AllForwarded(d).state = "forwardResponse" /\ AllForwarded(d).poll0 = {}
        /\ AllForwarded(d).poll1 = {"IN"} /\ AllForwarded(d).heads = clear
    BY <2>p, <2>a DEF Data
  <2>4. Good(AllForwarded(d), a)
    BY <2>1, <2>2, <2>3 DEF Good, IsArmed, Pending, Polling, Responding
  <2> QED BY <1>6, <2>4, <1>s, OkFine
<1> QED BY <1>2, <1>3, <1>4, <1>5, <1>6

\* process_waitConnect() goes on with process_forwardRequest() when the
\* connection stands.
LEMMA WaitConnectFine ==
  ASSUME NEW d \in Data, NEW a \in Attempt, ~a.again,
         d.state = "waitConnect", d.poll0 = {}, d.poll1 = {"OUT"},
         readAvailable(d.heads),
         NEW out \in process_waitConnect(d, a)
  PROVE  Fine(out, a)
<1> DEFINE q == [d EXCEPT !.state = "forwardRequest"]
<1>1. CASE out \in Remove
  BY <1>1, RemoveFine
<1>2. CASE out \in Retry(d, a)
  <2>1. Good(d, a) /\ Same(a, a)
    BY DEF Good, IsArmed, Pending, Polling, Responding, Same
  <2> QED BY <1>2, <2>1, RetryFine
<1>3. CASE out \in process_forwardRequest(q, a)
  <2>1. /\ q \in Data /\ q.state = "forwardRequest" /\ q.poll0 = {}
        /\ q.poll1 = {"OUT"} /\ readAvailable(q.heads)
    BY DEF Data, States
  <2> HIDE DEF q
  <2> QED BY <1>3, <2>1, ForwardRequestFine
<1> QED BY <1>1, <1>2, <1>3 DEF process_waitConnect

----------------------------------------------------------------------------
(* The response goes to the client *)

\* SSL_write() was to be repeated because it wants to read.
LEMMA WantReadFine ==
  ASSUME NEW d, NEW a \in Attempt, NEW b \in Attempt, Writable(d, a),
         readAvailable(d.heads), b.from = d.heads.readHead,
         b.size = ReadSize(d.heads), Same(a, b), NEW out \in WantRead(d, b)
  PROVE  Fine(out, a)
<1> DEFINE q == [d EXCEPT !.poll0 = {"IN", "OUT"}]
<1>1. CASE out \in Remove
  BY <1>1, RemoveFine
<1>2. CASE out \in Retry(q, b)
  <2>1. /\ q \in Data /\ q.state = d.state /\ q.poll0 = {"IN", "OUT"}
        /\ q.poll1 = d.poll1 /\ q.heads = d.heads
    BY DEF Writable, Data, Interest
  <2>2. d.heads \in Heads /\ b.size <= ReadSize(d.heads)
    <3>1. d.heads \in Heads
      BY DEF Writable, Data
    <3>2. ReadSize(d.heads) \in 0 .. bufSize
      BY <3>1, ReadSizeType
    <3> QED BY <3>1, <3>2, BufSizeAssumption
  <2>3. Good(q, b)
    BY <2>1, <2>2 DEF Good, IsArmed, Pending, Polling, Writable, Responding
  <2> HIDE DEF q
  <2> QED BY <1>2, <2>3, RetryFine
<1> QED BY <1>1, <1>2 DEF WantRead

\* SSL_write() was to be repeated because it cannot write.
LEMMA WantWriteFine ==
  ASSUME NEW d, NEW a \in Attempt, NEW b \in Attempt, Writable(d, a),
         readAvailable(d.heads), b.from = d.heads.readHead,
         b.size = ReadSize(d.heads), Same(a, b), NEW out \in WantWrite(d, b)
  PROVE  Fine(out, a)
<1>1. PICK q \in PollFd0(d) :
        out \in IF q = Removed THEN Remove ELSE Retry(q, b)
  BY DEF WantWrite
<1>2. CASE q = Removed
  BY <1>1, <1>2, RemoveFine
<1>3. CASE q # Removed
  <2>1. /\ q \in Data /\ q.state = d.state /\ "OUT" \in q.poll0
        /\ q.poll1 = d.poll1 /\ q.heads = d.heads
    BY <1>3 DEF PollFd0, Writable, Polling, Data, Interest
  <2>2. b.size <= ReadSize(d.heads)
    <3>1. d.heads \in Heads
      BY DEF Writable, Data
    <3>2. ReadSize(d.heads) \in 0 .. bufSize
      BY <3>1, ReadSizeType
    <3> QED BY <3>2, BufSizeAssumption
  <2>3. Good(q, b)
    BY <2>1, <2>2 DEF Good, IsArmed, Pending, Polling, Writable, Responding
  <2> QED BY <1>1, <1>3, <2>3, RetryFine
<1> QED BY <1>2, <1>3

\* SSL_write() took everything it was given. What is left had wrapped, and
\* then fd0 is polled.
LEMMA WrittenFine ==
  ASSUME NEW d, NEW a \in Attempt, NEW b \in Attempt, Writable(d, a),
         readAvailable(d.heads), ~b.again, Same(a, b), NEW out \in Written(d, b)
  PROVE  Fine(out, a)
<1> DEFINE h == endRead(d.heads, ReadSize(d.heads))
           q == [Progress(d) EXCEPT !.heads = endRead(@, ReadSize(@))]
           q1 == [q EXCEPT !.poll1 = {"IN"}]
<1>1. h \in Heads /\ (readAvailable(h) => d.heads.readHead > d.heads.writeHead)
  <2>1. d.heads \in Heads
    BY DEF Writable, Data
  <2>2. ReadSize(d.heads) \in 1 .. ReadSize(d.heads)
    BY <2>1, ReadSizeType, BufSizeAssumption DEF readAvailable
  <2> QED BY <2>1, <2>2, EndReadType
<1>2. /\ q \in Data /\ q.state = d.state /\ q.poll0 = d.poll0
      /\ q.poll1 = d.poll1 /\ q.heads = h
  BY <1>1, ProgressType DEF Writable, Data
<1>3. /\ q1 \in Data /\ q1.state = d.state /\ q1.poll0 = d.poll0
      /\ q1.poll1 = {"IN"} /\ q1.heads = h
  BY <1>2 DEF Data, Interest
<1>4. readAvailable(h) => "OUT" \in d.poll0
  BY <1>1 DEF Writable
<1>5. out \in Remove \/ out \in Ok(q1, b) \/ out \in Ok(q, b)
  BY DEF Written
<1>6. CASE out \in Remove
  BY <1>6, RemoveFine
<1>7. CASE out \in Ok(q1, b) /\ d.state = "forwardResponse"
  <2>1. Good(q1, b)
    BY <1>3, <1>4, <1>7 DEF Good, IsArmed, Pending, Polling, Writable, Responding
  <2> HIDE DEF q1
  <2> QED BY <1>7, <2>1, OkFine
<1>8. CASE /\ out \in Ok(q, b)
           /\ d.state = "forwardResponseOnlyWrite" => readAvailable(h)
           /\ d.state = "forwardResponse" => d.poll1 # {}
  <2>1. Good(q, b)
    BY <1>2, <1>4, <1>8 DEF Good, IsArmed, Pending, Polling, Writable, Responding
  <2> HIDE DEF q
  <2> QED BY <1>8, <2>1, OkFine
<1>9. \/ out \in Remove
      \/ out \in Ok(q1, b) /\ d.state = "forwardResponse"
      \/ /\ out \in Ok(q, b)
         /\ d.state = "forwardResponseOnlyWrite" => readAvailable(h)
         /\ d.state = "forwardResponse" => d.poll1 # {}
  <2>1. q.heads = h
    BY <1>2
  <2> HIDE DEF h
  <2> QED BY <2>1 DEF Written
<1> QED BY <1>6, <1>7, <1>8, <1>9

\* process_forwardResponseWrite(): it offers what startRead() gives, from where
\* a refused write began.
LEMMA ResponseWriteFine ==
  ASSUME NEW d, NEW a, Writable(d, a),
         NEW out \in process_forwardResponseWrite(d, a)
  PROVE  Fine(out, a)
<1> DEFINE now(again) == [from |-> d.heads.readHead, size |-> ReadSize(d.heads),
                          again |-> again]
           idle == [d EXCEPT !.poll0 = {}]
<1>1. d \in Data /\ a \in Attempt /\ d.heads \in Heads
  BY DEF Writable, Data
<1>2. ReadSize(d.heads) \in 0 .. bufSize
  BY <1>1, ReadSizeType
<1>3. ASSUME NEW again \in BOOLEAN
      PROVE  /\ now(again) \in Attempt /\ Same(a, now(again))
             /\ now(again).from = d.heads.readHead
             /\ now(again).size = ReadSize(d.heads)
             /\ now(again).again = again
  BY <1>1, <1>2 DEF Attempt, Heads, Same, Writable, Pending
<1>4. CASE readAvailable(d.heads)
  <2>1. \/ out \in Remove \/ out \in WantRead(d, now(TRUE))
        \/ out \in WantWrite(d, now(TRUE)) \/ out \in Written(d, now(FALSE))
    BY <1>4 DEF process_forwardResponseWrite
  <2> HIDE DEF now
  <2>2. CASE out \in Remove
    BY <1>1, <2>2, RemoveFine
  <2>3. CASE out \in WantRead(d, now(TRUE))
    BY <1>1, <1>3, <1>4, <2>3, WantReadFine
  <2>4. CASE out \in WantWrite(d, now(TRUE))
    BY <1>1, <1>3, <1>4, <2>4, WantWriteFine
  <2>5. CASE out \in Written(d, now(FALSE))
    BY <1>1, <1>3, <1>4, <2>5, WrittenFine
  <2> QED BY <2>1, <2>2, <2>3, <2>4, <2>5
<1>5. CASE ~readAvailable(d.heads) /\ d.state = "forwardResponseOnlyWrite"
  BY <1>1, <1>5, RemoveFine DEF process_forwardResponseWrite
<1>6. CASE ~readAvailable(d.heads) /\ d.state = "forwardResponse"
  <2>1. out \in Retry(idle, a)
    BY <1>6 DEF process_forwardResponseWrite
  <2>2. /\ idle \in Data /\ idle.state = d.state /\ idle.poll0 = {}
        /\ idle.poll1 = {"IN"} /\ idle.heads = d.heads
    BY <1>1, <1>6 DEF Data, Interest, Writable
  <2>3. Good(idle, a) /\ Same(a, a)
    BY <1>1, <1>2, <1>6, <2>2
       DEF Good, IsArmed, Pending, Polling, Writable, Responding, Same, Attempt
  <2> HIDE DEF idle
  <2> QED BY <1>1, <2>1, <2>3, RetryFine
<1> QED BY <1>4, <1>5, <1>6 DEF Writable, Responding

\* startWrite() alone keeps a responding executor as it was.
LEMMA StartedType ==
  ASSUME NEW d \in Data, NEW s, s = [d EXCEPT !.heads = startWrite(@)]
  PROVE  /\ s \in Data /\ s.state = d.state /\ s.poll0 = d.poll0
         /\ s.poll1 = d.poll1 /\ s.heads = startWrite(d.heads)
         /\ readAvailable(s.heads) <=> readAvailable(d.heads)
         /\ s.heads.readHead = d.heads.readHead
         /\ ReadSize(s.heads) = ReadSize(d.heads)
<1>1. d.heads \in Heads
  BY DEF Data
<1>2. /\ startWrite(d.heads) \in Heads
      /\ startWrite(d.heads).readHead = d.heads.readHead
      /\ ReadSize(startWrite(d.heads)) = ReadSize(d.heads)
  BY <1>1, StartWriteType
<1>3. readAvailable(startWrite(d.heads)) <=> readAvailable(d.heads)
  BY <1>2 DEF readAvailable
<1> QED BY <1>2, <1>3 DEF Data

\* process_forwardResponseRead() without room: fd0 is polled for what fills
\* the buffer, so that fd1 need not be.
LEMMA NoRoomFine ==
  ASSUME NEW d, NEW a, Good(d, a), d.state = "forwardResponse",
         WriteSize(d.heads) = 0, NEW out \in process_forwardResponseRead(d, a)
  PROVE  Fine(out, a)
<1> DEFINE s == [d EXCEPT !.heads = startWrite(@)]
           q == [s EXCEPT !.poll1 = {}]
<1>1. d \in Data /\ a \in Attempt /\ d.heads \in Heads
  BY DEF Good, Data
<1>2. readAvailable(d.heads)
  BY <1>1, StartWriteType
<1>3. "OUT" \in d.poll0
  BY <1>2 DEF Good, IsArmed
<1>4. /\ s \in Data /\ s.state = d.state /\ s.poll0 = d.poll0
      /\ readAvailable(s.heads) /\ s.heads.readHead = d.heads.readHead
      /\ ReadSize(s.heads) = ReadSize(d.heads)
  <2> HIDE DEF s
  <2>1. s = [d EXCEPT !.heads = startWrite(@)]
    BY DEF s
  <2> QED BY <1>1, <1>2, <2>1, StartedType
<1>5. /\ q \in Data /\ q.state = d.state /\ q.poll0 = d.poll0
      /\ q.poll1 = {} /\ q.heads = s.heads
  <2> HIDE DEF s
  <2> QED BY <1>4 DEF Data, Interest
<1>6. Good(q, a) /\ Same(a, a)
  <2>1. ReadSize(d.heads) \in 0 .. bufSize
    BY <1>1, ReadSizeType
  <2> HIDE DEF q
  <2> QED
    BY <1>1, <1>3, <1>4, <1>5, <2>1, BufSizeAssumption
       DEF Good, IsArmed, Pending, Polling, Responding, Same, Attempt
<1>7. out \in UNION {IF r = Removed THEN Remove ELSE Retry(r, a) : r \in PollFd0(q)}
  BY DEF process_forwardResponseRead
<1>8. PollFd0(q) = {q}
  <2> HIDE DEF q
  <2> QED BY <1>3, <1>5 DEF PollFd0
<1>9. out \in Remove \/ out \in Retry(q, a)
  <2> HIDE DEF q
  <2> QED BY <1>7, <1>8
<1> HIDE DEF q
<1> QED BY <1>1, <1>6, <1>9, RemoveFine, RetryFine

\* process_forwardResponseRead() with room: what it reads, or the end of the
\* response, goes straight to process_forwardResponseWrite().
LEMMA RoomFine ==
  ASSUME NEW d, NEW a, Good(d, a), d.state = "forwardResponse",
         d.poll1 = {"IN"}, WriteSize(d.heads) # 0,
         NEW out \in process_forwardResponseRead(d, a)
  PROVE  Fine(out, a)
<1> DEFINE s == [d EXCEPT !.heads = startWrite(@)]
<1>1. /\ d \in Data /\ a \in Attempt /\ d.heads \in Heads
      /\ ReadSize(d.heads) \in 0 .. bufSize
  BY ReadSizeType DEF Good, Data
<1>2. readAvailable(d.heads) => "OUT" \in d.poll0
  BY DEF Good, IsArmed
<1>3. \/ out \in Remove \/ out \in Retry(s, a)
      \/ out \in process_forwardResponseWrite(UpstreamClosed(d), a)
      \/ \E n \in 1 .. WriteSize(d.heads) :
           out \in process_forwardResponseWrite(Received(d, n), a)
  <2>1. out \in Remove \cup Retry(s, a)
                \cup process_forwardResponseWrite(UpstreamClosed(d), a)
                \cup UNION {process_forwardResponseWrite(Received(d, n), a) :
                              n \in 1 .. WriteSize(d.heads)}
    BY DEF process_forwardResponseRead
  <2> HIDE DEF s
  <2> QED BY <2>1, Zenon
<1>4. /\ s \in Data /\ s.state = d.state /\ s.poll0 = d.poll0
      /\ s.poll1 = d.poll1 /\ s.heads = startWrite(d.heads)
      /\ readAvailable(s.heads) <=> readAvailable(d.heads)
      /\ s.heads.readHead = d.heads.readHead
      /\ ReadSize(s.heads) = ReadSize(d.heads)
  <2> HIDE DEF s
  <2>1. s = [d EXCEPT !.heads = startWrite(@)]
    BY DEF s
  <2> QED BY <1>1, <2>1, StartedType
<1>5. CASE out \in Remove
  BY <1>1, <1>5, RemoveFine
<1>6. CASE out \in Retry(s, a)
  <2> HIDE DEF s
  <2>1. Good(s, a) /\ Same(a, a)
    BY <1>1, <1>2, <1>4, BufSizeAssumption
       DEF Good, IsArmed, Pending, Polling, Responding, Same, Attempt
  <2> QED BY <1>1, <1>6, <2>1, RetryFine
<1>7. CASE out \in process_forwardResponseWrite(UpstreamClosed(d), a)
  <2> DEFINE u == UpstreamClosed(d)
  <2>1. /\ u \in Data /\ u.state = "forwardResponseOnlyWrite"
        /\ u.poll0 = d.poll0 /\ u.heads = s.heads
    BY <1>1, <1>4 DEF UpstreamClosed, Data, States, Interest
  <2>2. s.heads.readHead > s.heads.writeHead => readAvailable(d.heads)
    BY <1>1, <1>4, StartWriteType
  <2>3. Writable(u, a)
    <3> HIDE DEF u, s
    <3> QED BY <1>1, <1>2, <1>4, <2>1, <2>2
               DEF Writable, Good, Pending, Polling, Responding
  <2> QED BY <1>7, <2>3, ResponseWriteFine
<1>8. CASE \E n \in 1 .. WriteSize(d.heads) :
             out \in process_forwardResponseWrite(Received(d, n), a)
  <2>1. PICK n \in 1 .. WriteSize(d.heads) :
               out \in process_forwardResponseWrite(Received(d, n), a)
    BY <1>8
  <2> DEFINE h == endWrite(d.heads, n)
             r == Received(d, n)
  <2>2. /\ h \in Heads /\ h.readHead = d.heads.readHead
        /\ ReadSize(h) >= ReadSize(d.heads) /\ readAvailable(h)
        /\ h.readHead > h.writeHead => readAvailable(d.heads)
    BY <1>1, EndWriteType
  <2>3. /\ r \in Data /\ r.state = d.state /\ r.poll0 = d.poll0
        /\ r.poll1 = d.poll1 /\ r.heads = h
    BY <1>1, <2>2, ProgressType DEF Received, Data
  <2>4. Pending(r, a)
    <3>1. ReadSize(h) \in 0 .. bufSize
      BY <2>2, ReadSizeType
    <3> HIDE DEF r, h
    <3> QED BY <1>1, <2>2, <2>3, <3>1, BufSizeAssumption
               DEF Good, Pending, Attempt
  <2>5. Writable(r, a)
    <3> HIDE DEF r, h
    <3> QED BY <1>1, <1>2, <2>2, <2>3, <2>4
               DEF Writable, Good, Polling, Responding
  <2> QED BY <2>1, <2>5, ResponseWriteFine
<1> QED BY <1>3, <1>5, <1>6, <1>7, <1>8

----------------------------------------------------------------------------
(* The actions *)

\* The executor of a request that was read is good.
LEMMA InitInv == Init => Inv
<1> SUFFICES ASSUME Init PROVE Inv
  OBVIOUS
<1>1. PICK n \in 1 .. bufSize, p \in {{"IN"}, {"IN", "OUT"}} :
        data = [state |-> "readRequest", poll0 |-> p, poll1 |-> {},
                heads |-> [readHead |-> 0, writeHead |-> n], retryCounter |-> 0]
  BY DEF Init
<1>2. data \in Data
  BY <1>1, BufSizeAssumption, RetryAssumption DEF Data, States, Interest, Heads
<1>3. attempt \in Attempt /\ ~attempt.again
  BY BufSizeAssumption DEF Init, Attempt, NoAttempt
<1>4. /\ data.state = "readRequest" /\ "IN" \in data.poll0
      /\ readAvailable(data.heads)
  BY <1>1 DEF readAvailable, ReadSize
<1> QED BY <1>2, <1>3, <1>4 DEF Inv, Good, IsArmed, Pending, Polling, Responding

\* A handler whose outcomes are fine keeps the invariant.
LEMMA BecomesFine ==
  ASSUME NEW outcomes, Becomes(outcomes),
         \A out \in outcomes : Fine(out, attempt)
  PROVE  Inv' /\ Same(attempt, attempt')
<1>1. PICK out \in outcomes : data' = out.data /\ attempt' = out.attempt
  BY DEF Becomes
<1> QED BY <1>1 DEF Fine, Inv

\* up(): the request is in the buffer, and fd1 is polled to forward it.
LEMMA UpFine ==
  ASSUME NEW d \in Data, NEW a \in Attempt, ~a.again, readAvailable(d.heads),
         NEW out \in up(d, a)
  PROVE  Fine(out, a) /\ (out \in Remove \/ out.data.state # "closed")
<1>1. CASE out \in Remove
  BY <1>1, RemoveFine
<1>2. ASSUME NEW s \in {"waitConnect", "forwardRequest"},
             out = [data |-> [d EXCEPT !.state = s, !.poll0 = {}, !.poll1 = {"OUT"}],
                    attempt |-> a]
      PROVE  Fine(out, a) /\ out.data.state # "closed"
  <2> DEFINE q == [d EXCEPT !.state = s, !.poll0 = {}, !.poll1 = {"OUT"}]
  <2>1. /\ q \in Data /\ q.state = s /\ q.poll0 = {} /\ q.poll1 = {"OUT"}
        /\ q.heads = d.heads
    BY DEF Data, States, Interest
  <2>2. out.data = q /\ out.attempt = a
    BY <1>2
  <2> HIDE DEF q
  <2>3. Good(q, a) /\ Same(a, a)
    BY <2>1 DEF Good, IsArmed, Pending, Polling, Responding, Same
  <2> QED BY <2>1, <2>2, <2>3 DEF Fine
<1> QED BY <1>1, <1>2 DEF up

LEMMA UpInv == Inv /\ Up => Inv' /\ Same(attempt, attempt')
<1> SUFFICES ASSUME Inv, Up PROVE Inv' /\ Same(attempt, attempt')
  OBVIOUS
<1>1. /\ data \in Data /\ attempt \in Attempt /\ ~attempt.again
      /\ readAvailable(data.heads)
  BY DEF Inv, Good, Pending, Up, Responding
<1> QED BY <1>1, UpFine, BecomesFine DEF Up

\* process() for fd1: while the executor does not respond no SSL_write() is
\* pending, and while it responds fd1 is polled for input or not at all.
LEMMA ProcessFd1Inv ==
  ASSUME NEW E, Inv, ProcessFd1(E)
  PROVE  Inv' /\ Same(attempt, attempt')
<1>1. /\ Good(data, attempt) /\ data \in Data /\ attempt \in Attempt
      /\ E # {} /\ E \subseteq data.poll1
  BY DEF Inv, Good, ProcessFd1
<1>2. CASE data.state = "waitConnect" /\ "OUT" \in E
  <2>1. Becomes(process_waitConnect(data, attempt))
    BY <1>2 DEF ProcessFd1
  <2>2. /\ ~attempt.again /\ data.poll0 = {} /\ data.poll1 = {"OUT"}
        /\ readAvailable(data.heads)
    BY <1>1, <1>2 DEF Good, IsArmed, Pending, Polling, Responding, Attempt
  <2> QED BY <1>1, <1>2, <2>1, <2>2, WaitConnectFine, BecomesFine
<1>3. CASE data.state = "forwardRequest" /\ "OUT" \in E
  <2>1. Becomes(process_forwardRequest(data, attempt))
    BY <1>3 DEF ProcessFd1
  <2>2. /\ ~attempt.again /\ data.poll0 = {} /\ data.poll1 = {"OUT"}
        /\ readAvailable(data.heads)
    BY <1>1, <1>3 DEF Good, IsArmed, Pending, Polling, Responding, Attempt
  <2> QED BY <1>1, <1>3, <2>1, <2>2, ForwardRequestFine, BecomesFine
<1>4. CASE data.state = "forwardResponse" /\ "IN" \in E
  <2>1. Becomes(process_forwardResponseRead(data, attempt))
    BY <1>4 DEF ProcessFd1
  <2>2. data.poll1 = {"IN"}
    BY <1>1, <1>4 DEF Good, Polling
  <2> QED BY <1>1, <1>4, <2>1, <2>2, NoRoomFine, RoomFine, BecomesFine
<1>5. CASE /\ ~(data.state = "waitConnect" /\ "OUT" \in E)
           /\ ~(data.state = "forwardRequest" /\ "OUT" \in E)
           /\ ~(data.state = "forwardResponse" /\ "IN" \in E)
  <2>1. Becomes(Remove)
    BY <1>5 DEF ProcessFd1
  <2> QED BY <1>1, <2>1, RemoveFine, BecomesFine
<1> QED BY <1>2, <1>3, <1>4, <1>5

\* process() for fd0: a buffer that has something to write is polled for.
LEMMA ProcessFd0Inv ==
  ASSUME NEW E, Inv, ProcessFd0(E)
  PROVE  Inv' /\ Same(attempt, attempt')
<1>1. /\ Good(data, attempt) /\ data \in Data /\ attempt \in Attempt
      /\ E # {} /\ E \subseteq data.poll0
  BY DEF Inv, Good, ProcessFd0
<1>2. CASE data.state \in Responding /\ "OUT" \in E
  <2>1. Becomes(process_forwardResponseWrite(data, attempt))
    BY <1>2 DEF ProcessFd0, Responding
  <2>2. Writable(data, attempt)
    BY <1>1, <1>2 DEF Good, IsArmed, Writable, Responding
  <2> QED BY <1>1, <2>1, <2>2, ResponseWriteFine, BecomesFine
<1>3. CASE ~(data.state \in Responding /\ "OUT" \in E)
  <2>1. Becomes(Remove)
    BY <1>3 DEF ProcessFd0, Responding
  <2> QED BY <1>1, <2>1, RemoveFine, BecomesFine
<1> QED BY <1>2, <1>3

\* Every step keeps the invariant, and relates the last SSL_write() to the one
\* before it.
LEMMA NextInv == Inv /\ [Next]_vars => Inv' /\ (Same(attempt, attempt') \/ UNCHANGED vars)
<1> SUFFICES ASSUME Inv, [Next]_vars
             PROVE  Inv' /\ (Same(attempt, attempt') \/ UNCHANGED vars)
  OBVIOUS
<1>1. CASE Up
  BY <1>1, UpInv
<1>2. ASSUME NEW E \in Interest, ProcessFd0(E) \/ ProcessFd1(E)
      PROVE  Inv' /\ Same(attempt, attempt')
  BY <1>2, ProcessFd0Inv, ProcessFd1Inv
<1>3. CASE End
  <2>1. Becomes(Remove) /\ attempt \in Attempt
    BY <1>3 DEF End, Inv, Good
  <2> QED BY <2>1, RemoveFine, BecomesFine
<1>4. CASE UNCHANGED vars
  BY <1>4 DEF vars, Inv
<1> QED BY <1>1, <1>2, <1>3, <1>4 DEF Next, Process, Closed

----------------------------------------------------------------------------
(* The theorems *)

\* The invariant holds in every state of every behaviour.
THEOREM Invariance == Spec => []Inv
<1>1. Inv /\ [Next]_vars => Inv'
  BY NextInv
<1> QED BY InitInv, <1>1, PTL DEF Spec

\* The connection's data and its last SSL_write() have their types.
THEOREM TypeCorrect == Spec => []TypeOK
<1>1. Inv => TypeOK
  BY DEF Inv, Good, TypeOK
<1> QED BY <1>1, Invariance, PTL

\* process_forwardResponseRead() and process_forwardResponseWrite() never leave
\* a connection unpolled on the side it waits for: bytes of the response are
\* always followed by a poll of the client, and an empty buffer by one of the
\* upstream.
THEOREM AlwaysArmed == Spec => []Armed
<1>1. Inv => Armed
  BY DEF Inv, Good, Armed
<1> QED BY <1>1, Invariance, PTL

\* sslWriteFd0() repeats a refused SSL_write() from the same byte and with no
\* fewer bytes, whatever is read from the upstream in between.
THEOREM SameWriteRepeated == Spec => SameWriteAgain
<1>1. Inv /\ [Next]_vars =>
        [attempt.again /\ attempt' # NoAttempt =>
           attempt'.from = attempt.from /\ attempt'.size >= attempt.size]_vars
  BY NextInv DEF Same
<1> QED BY <1>1, Invariance, PTL DEF Spec, SameWriteAgain

----------------------------------------------------------------------------
(* The whole connection *)


Reading == {"sslHandshake", "readRequest"}
Sending == {"sendHeaders", "sendOnlyHeaders", "sendFile"}

File == [open : BOOLEAN, announced : Nat, content : Nat, left : Nat,
         bytesToSend : Int, sent : Nat]

\* A refused write is still the one that startRead() offers.
Repeats(d, a) ==
  a.again => a.from = d.heads.readHead /\ a.size <= ReadSize(d.heads)

\* The bytes of the file are sent, in the buffer, or still in the file.
Accounted(d, f) ==
  /\ f.sent + Held(d.heads) + f.left = f.content
  /\ ~f.open => f.left = 0
  /\ f.sent + f.bytesToSend = f.announced
  /\ f.content <= f.announced => f.bytesToSend > 0 \/ f.announced = 0

\* What holds of the ExecutorData with each executor.
WithRequest(d, a) ==
  /\ d.state \in Reading /\ ~a.again
  /\ d.state = "readRequest" => "IN" \in d.poll0

WithFile(d, a, f) ==
  /\ d.state \in Sending /\ Repeats(d, a)
  /\ d.state = "sendHeaders" =>
       /\ f.open /\ f.sent = 0 /\ f.left = f.content
       /\ f.bytesToSend = f.announced
  /\ d.state = "sendFile" => Accounted(d, f)

Whole(ex, d, a, f) ==
  /\ d \in Data /\ a \in Attempt /\ f \in File
  /\ \/ ex = "none" /\ d.state = "closed" /\ ~a.again
     \/ ex = "sslRequest" /\ WithRequest(d, a)
     \/ ex = "sslFile" /\ WithFile(d, a, f)
     \/ ex = "sslProxy" /\ Good(d, a) /\ d.state # "closed"

\* The inductive invariant.
ConnectionInv == Whole(executor, data, attempt, file)

\* An outcome of a handler that began with the attempt a, before and after
\* With() has said which executor and file it leads to.
Leaves(out, ex, f, a) ==
  \/ out \in Remove
  \/ Whole(ex, out.data, out.attempt, f) /\ Same(a, out.attempt)

WellLed(o, a) ==
  Whole(o.executor, o.data, o.attempt, o.file) /\ Same(a, o.attempt)

----------------------------------------------------------------------------
(* Outcomes *)

LEMMA RemovedType ==
  /\ Removed \in Data /\ Removed.state = "closed"
  /\ NoAttempt \in Attempt /\ ~NoAttempt.again
  /\ NoFile \in File
BY BufSizeAssumption, RetryAssumption
   DEF Removed, NoAttempt, NoFile, Data, Attempt, States, Interest, Heads, clear, File

\* With() leads every outcome that is removed to no executor, and no other.
LEMMA WithLeads ==
  ASSUME NEW a \in Attempt, NEW outcomes, NEW ex, ex # "none", NEW f \in File,
         \A out \in outcomes : Leaves(out, ex, f, a),
         NEW o \in With(outcomes, ex, f)
  PROVE  WellLed(o, a)
<1>1. PICK out \in outcomes :
        o = [data |-> out.data, attempt |-> out.attempt, file |-> f,
             executor |-> IF out.data = Removed THEN "none" ELSE ex]
  BY DEF With
<1>2. o.data = out.data /\ o.attempt = out.attempt /\ o.file = f
  BY <1>1
<1>3. CASE out \in Remove
  <2>1. out.data = Removed /\ out.attempt = NoAttempt
    BY <1>3 DEF Remove
  <2>2. o.executor = "none"
    BY <1>1, <2>1
  <2> QED BY <1>2, <2>1, <2>2, RemovedType DEF WellLed, Whole, Same
<1>4. CASE Whole(ex, out.data, out.attempt, f) /\ Same(a, out.attempt)
  <2>1. out.data.state # "closed"
    BY <1>4 DEF Whole, WithRequest, WithFile, Reading, Sending
  <2>2. o.executor = ex
    BY <1>1, <2>1, RemovedType
  <2> QED BY <1>2, <1>4, <2>2 DEF WellLed
<1> QED BY <1>3, <1>4 DEF Leaves

\* A connection that is removed.
LEMMA RemoveLeads ==
  ASSUME NEW a \in Attempt, NEW ex, NEW f \in File, NEW o \in With(Remove, ex, f)
  PROVE  WellLed(o, a)
<1>1. /\ o.data = Removed /\ o.attempt = NoAttempt /\ o.file = f
      /\ o.executor = "none"
  BY DEF With, Remove
<1> QED BY <1>1, RemovedType DEF WellLed, Whole, Same

\* A retry changes retryCounter only, or removes the executor.
LEMMA RetryLeaves ==
  ASSUME NEW a \in Attempt, NEW d, NEW b, NEW ex \in {"sslRequest", "sslFile"},
         NEW f, Whole(ex, d, b, f), Same(a, b), NEW out \in Retry(d, b)
  PROVE  Leaves(out, ex, f, a)
<1>1. CASE d.retryCounter = MAX_RETRY_COUNTER
  BY <1>1 DEF Retry, Leaves
<1>2. CASE d.retryCounter # MAX_RETRY_COUNTER
  <2> DEFINE q == [d EXCEPT !.retryCounter = @ + 1]
  <2>1. out = [data |-> q, attempt |-> b]
    BY <1>2 DEF Retry, Ok
  <2>2. /\ q \in Data /\ q.state = d.state /\ q.poll0 = d.poll0
        /\ q.heads = d.heads
    BY <1>2, RetryAssumption DEF Whole, Data
  <2>3. out.data = q /\ out.attempt = b
    BY <2>1
  <2> HIDE DEF q
  <2>4. Whole(ex, q, b, f)
    BY <2>2 DEF Whole, WithRequest, WithFile, Repeats, Accounted
  <2> QED BY <2>3, <2>4 DEF Leaves
<1> QED BY <1>1, <1>2

LEMMA OkLeaves ==
  ASSUME NEW a \in Attempt, NEW d, NEW b, NEW ex, NEW f, Whole(ex, d, b, f),
         Same(a, b), NEW out \in Ok(d, b)
  PROVE  Leaves(out, ex, f, a)
BY DEF Ok, Leaves

----------------------------------------------------------------------------
(* SslRequestExecutor *)

\* up(): a connection in the handshake, or one that reads its request.
LEMMA RequestUpLeads ==
  ASSUME NEW a \in Attempt, NEW o \in With(requestUp, "sslRequest", NoFile)
  PROVE  WellLed(o, a)
<1> DEFINE q(state, p) == [state |-> state, poll0 |-> p, poll1 |-> {},
                           heads |-> clear, retryCounter |-> 0]
<1>1. clear \in Heads
  BY BufSizeAssumption DEF clear, Heads
<1>2. ASSUME NEW s \in Reading, NEW p \in Interest, s = "readRequest" => "IN" \in p,
             NEW out \in Ok(q(s, p), NoAttempt)
      PROVE  Leaves(out, "sslRequest", NoFile, a)
  <2>1. q(s, p) \in Data
    BY <1>1, RetryAssumption DEF Data, States, Interest, Reading
  <2>2. Whole("sslRequest", q(s, p), NoAttempt, NoFile)
    BY <1>2, <2>1, RemovedType DEF Whole, WithRequest
  <2>3. Same(a, NoAttempt)
    BY DEF Same
  <2> HIDE DEF q
  <2> QED BY <1>2, <2>2, <2>3, OkLeaves
<1>3. ASSUME NEW out \in requestUp PROVE Leaves(out, "sslRequest", NoFile, a)
  <2>1. \/ out \in Remove \/ out \in Ok(q("readRequest", {"IN"}), NoAttempt)
        \/ \E p \in {{}, {"IN"}, {"OUT"}} : out \in Ok(q("sslHandshake", p), NoAttempt)
    BY <1>3 DEF requestUp
  <2> HIDE DEF q
  <2> QED BY <1>2, <2>1 DEF Leaves, Reading, Interest
<1> QED BY <1>3, WithLeads, RemovedType

\* process_handshake(): the request is read, or the handshake goes on.
LEMMA HandshakeLeads ==
  ASSUME NEW d \in Data, NEW a \in Attempt, d.state = "sslHandshake", ~a.again,
         NEW o \in With(process_handshake(d, a), "sslRequest", NoFile)
  PROVE  WellLed(o, a)
<1> DEFINE r == [d EXCEPT !.state = "readRequest", !.poll0 = {"IN"}]
           q(p) == [d EXCEPT !.poll0 = p]
<1>1. Same(a, a)
  BY DEF Same
<1>2. Whole("sslRequest", r, a, NoFile)
  <2>1. r \in Data /\ r.state = "readRequest" /\ r.poll0 = {"IN"}
    BY DEF Data, States, Interest
  <2> HIDE DEF r
  <2> QED BY <2>1, RemovedType DEF Whole, WithRequest, Reading
<1>3. ASSUME NEW p \in Interest PROVE Whole("sslRequest", q(p), a, NoFile)
  <2>1. q(p) \in Data /\ q(p).state = "sslHandshake"
    BY DEF Data
  <2> HIDE DEF q
  <2> QED BY <2>1, RemovedType DEF Whole, WithRequest, Reading
<1>4. ASSUME NEW out \in process_handshake(d, a)
      PROVE  Leaves(out, "sslRequest", NoFile, a)
  <2>1. \/ out \in Remove \/ out \in Ok(r, a)
        \/ \E p \in {d.poll0, {"IN"}, {"OUT"}} : out \in Retry(q(p), a)
    BY <1>4 DEF process_handshake
  <2>2. {d.poll0, {"IN"}, {"OUT"}} \subseteq Interest
    BY DEF Data, Interest
  <2> HIDE DEF r, q
  <2>3. CASE out \in Ok(r, a)
    BY <2>3, <1>1, <1>2, OkLeaves
  <2>4. CASE \E p \in {d.poll0, {"IN"}, {"OUT"}} : out \in Retry(q(p), a)
    BY <2>4, <2>2, <1>1, <1>3, RetryLeaves
  <2> QED BY <2>1, <2>3, <2>4 DEF Leaves
<1> QED BY <1>4, WithLeads, RemovedType

\* FileExecutor::up(): the headers are in the buffer, and nothing of the file
\* has been read yet.
LEMMA HeadersLead ==
  ASSUME NEW d \in Data, NEW a \in Attempt, ~a.again, NEW s \in Sending,
         NEW f \in File, s # "sendFile", s = "sendHeaders" => f \in OpenedFiles,
         NEW o \in With(Headers(d, a, s), "sslFile", f)
  PROVE  WellLed(o, a)
<1> DEFINE q(h) == [d EXCEPT !.state = s, !.poll0 = {"OUT"},
                             !.heads = endWrite(clear, h)]
<1>1. ASSUME NEW h \in 1 .. bufSize PROVE q(h) \in Data /\ q(h).state = s
  <2>1. endWrite(clear, h) \in Heads
    BY BufSizeAssumption DEF endWrite, startWrite, clear, Heads
  <2> QED BY <2>1 DEF Data, States, Interest, Sending
<1>2. ASSUME NEW h \in 1 .. bufSize PROVE Whole("sslFile", q(h), a, f)
  <2>1. s = "sendHeaders" => /\ f.open /\ f.sent = 0 /\ f.left = f.content
                             /\ f.bytesToSend = f.announced
    BY DEF OpenedFiles
  <2>2. q(h) \in Data /\ q(h).state = s
    BY <1>1
  <2> HIDE DEF q
  <2> QED BY <2>1, <2>2 DEF Whole, WithFile, Repeats
<1>3. ASSUME NEW out \in Headers(d, a, s) PROVE Leaves(out, "sslFile", f, a)
  <2>1. PICK h \in 1 .. bufSize : out = [data |-> q(h), attempt |-> a]
    BY <1>3 DEF Headers
  <2>2. out.data = q(h) /\ out.attempt = a /\ Same(a, a)
    BY <2>1 DEF Same
  <2> HIDE DEF q
  <2> QED BY <1>2, <2>2 DEF Leaves
<1> QED BY <1>3, WithLeads

LEMMA FileUpLeads ==
  ASSUME NEW d \in Data, NEW a \in Attempt, ~a.again, NEW o \in fileUp(d, a)
  PROVE  WellLed(o, a)
<1> DEFINE Unsent == {NoFile, [NoFile EXCEPT !.open = TRUE]}
           B(f) == With(Headers(d, a, "sendOnlyHeaders"), "sslFile", f)
           C(f) == With(Headers(d, a, "sendHeaders"), "sslFile", f)
<1>1. \/ o \in With(Remove, "none", NoFile)
      \/ \E f \in Unsent : o \in B(f)
      \/ \E f \in OpenedFiles : o \in C(f)
  <2>1. o \in With(Remove, "none", NoFile) \cup (UNION {B(f) : f \in Unsent})
             \cup (UNION {C(f) : f \in OpenedFiles})
    BY DEF fileUp
  <2> HIDE DEF Unsent, B, C
  <2> QED BY <2>1
<1>2. NoFile \in File /\ [NoFile EXCEPT !.open = TRUE] \in File
  BY RemovedType DEF File
<1>3. OpenedFiles \subseteq File
  BY MaxFileAssumption DEF OpenedFiles, File
<1>4. {"sendHeaders", "sendOnlyHeaders"} \subseteq Sending
  BY DEF Sending
<1>5. CASE o \in With(Remove, "none", NoFile)
  BY <1>2, <1>5, RemoveLeads
<1>6. CASE \E f \in Unsent : o \in B(f)
  <2>1. PICK f \in Unsent : o \in B(f)
    BY <1>6
  <2>2. f \in File
    BY <1>2
  <2> QED BY <1>4, <2>1, <2>2, HeadersLead
<1>7. CASE \E f \in OpenedFiles : o \in C(f)
  <2>1. PICK f \in OpenedFiles : o \in C(f)
    BY <1>7
  <2>2. f \in File
    BY <1>3
  <2> QED BY <1>4, <2>1, <2>2, HeadersLead
<1> QED BY <1>1, <1>5, <1>6, <1>7

\* parseRequest() and setExecutor(): every executor finds what its up() needs.
LEMMA AnswerLeads ==
  ASSUME NEW d \in Data, NEW a \in Attempt, WithRequest(d, a),
         d.state = "readRequest", readAvailable(d.heads), NEW o \in answer(d, a)
  PROVE  WellLed(o, a)
<1>1. ~a.again /\ Same(a, a)
  BY DEF WithRequest, Same
<1>2. \/ o \in With(Ok(d, a), "sslRequest", NoFile)
      \/ o \in fileUp(d, a) \/ o \in With(up(d, a), "sslProxy", NoFile)
  BY DEF answer
<1>3. CASE o \in With(Ok(d, a), "sslRequest", NoFile)
  <2>1. Whole("sslRequest", d, a, NoFile)
    BY RemovedType DEF Whole
  <2> QED BY <1>1, <1>3, <2>1, OkLeaves, WithLeads, RemovedType
<1>4. CASE o \in fileUp(d, a)
  BY <1>1, <1>4, FileUpLeads
<1>5. CASE o \in With(up(d, a), "sslProxy", NoFile)
  <2>1. ASSUME NEW out \in up(d, a) PROVE Leaves(out, "sslProxy", NoFile, a)
    <3>1. Fine(out, a) /\ (out \in Remove \/ out.data.state # "closed")
      BY <1>1, UpFine
    <3> QED BY <3>1, RemovedType DEF Fine, Good, Leaves, Whole
  <2> QED BY <1>5, <2>1, WithLeads, RemovedType
<1> QED BY <1>2, <1>3, <1>4, <1>5

\* process_readRequest()
LEMMA ReadRequestLeads ==
  ASSUME NEW d \in Data, NEW a \in Attempt, WithRequest(d, a),
         d.state = "readRequest", NEW o \in process_readRequest(d, a)
  PROVE  WellLed(o, a)
<1> DEFINE s == [d EXCEPT !.heads = startWrite(@)]
           w == [s EXCEPT !.poll0 = {"IN", "OUT"}]
<1>1. d.heads \in Heads /\ startWrite(d.heads) \in Heads
  BY StartWriteType DEF Data
<1>2. \/ o \in With(Remove, "none", NoFile)
      \/ o \in With(readFd0(s, a), "sslRequest", NoFile)
      \/ \E n \in 1 .. WriteSize(d.heads) : o \in answer(Received(d, n), a)
  BY DEF process_readRequest
<1>3. CASE o \in With(readFd0(s, a), "sslRequest", NoFile)
  <2>1. /\ s \in Data /\ s.state = "readRequest" /\ s.poll0 = d.poll0
        /\ w \in Data /\ w.state = "readRequest" /\ w.poll0 = {"IN", "OUT"}
    BY <1>1 DEF Data, Interest
  <2>2. readFd0(s, a) = Retry(s, a) \cup Retry(w, a)
    BY DEF readFd0
  <2> HIDE DEF s, w
  <2>3. /\ Whole("sslRequest", s, a, NoFile) /\ Whole("sslRequest", w, a, NoFile)
        /\ Same(a, a)
    BY <2>1, RemovedType DEF Whole, WithRequest, Same
  <2>4. \A out \in readFd0(s, a) : Leaves(out, "sslRequest", NoFile, a)
    BY <2>2, <2>3, RetryLeaves
  <2> QED BY <1>3, <2>4, WithLeads, RemovedType
<1>4. CASE \E n \in 1 .. WriteSize(d.heads) : o \in answer(Received(d, n), a)
  <2>1. PICK n \in 1 .. WriteSize(d.heads) : o \in answer(Received(d, n), a)
    BY <1>4
  <2>2. endWrite(d.heads, n) \in Heads /\ readAvailable(endWrite(d.heads, n))
    BY <1>1, EndWriteType
  <2>3. /\ Received(d, n) \in Data /\ Received(d, n).state = d.state
        /\ Received(d, n).poll0 = d.poll0
        /\ Received(d, n).heads = endWrite(d.heads, n)
    BY <2>2, ProgressType DEF Received, Data
  <2>4. WithRequest(Received(d, n), a)
    BY <2>3 DEF WithRequest
  <2> QED BY <2>1, <2>2, <2>3, <2>4, AnswerLeads
<1> QED BY <1>2, <1>3, <1>4, RemoveLeads, RemovedType

----------------------------------------------------------------------------
(* SslFileExecutor *)

\* startWrite(), endWrite() and endRead() keep count of the bytes in the buffer.
LEMMA HeldType ==
  ASSUME NEW h \in Heads
  PROVE  /\ Held(h) \in Nat /\ ReadSize(h) \in 0 .. Held(h)
         /\ readAvailable(h) <=> Held(h) > 0
         /\ Held(startWrite(h)) = Held(h)
BY BufSizeAssumption DEF Heads, Held, ReadSize, readAvailable, startWrite

LEMMA HeldMore ==
  ASSUME NEW h \in Heads, NEW n \in 1 .. WriteSize(h)
  PROVE  Held(endWrite(h, n)) = Held(h) + n
BY BufSizeAssumption DEF Heads, Held, startWrite, WriteSize, endWrite

LEMMA HeldLess ==
  ASSUME NEW h \in Heads, readAvailable(h)
  PROVE  Held(endRead(h, ReadSize(h))) = Held(h) - ReadSize(h)
BY BufSizeAssumption DEF Heads, Held, ReadSize, readAvailable, endRead

\* The least of two numbers is a lower bound of both.
LEMMA MinType ==
  ASSUME NEW m \in Nat, NEW n \in Nat
  PROVE  Min({m, n}) \in Nat /\ Min({m, n}) <= m /\ Min({m, n}) <= n
<1>1. \E x \in {m, n} : \A y \in {m, n} : x <= y
  OBVIOUS
<1> QED BY <1>1 DEF Min

\* The write that begins now, after one that was to be repeated.
LEMMA WriteOfType ==
  ASSUME NEW d \in Data, NEW a \in Attempt, Repeats(d, a), NEW again \in BOOLEAN
  PROVE  /\ WriteOf(d, again) \in Attempt /\ Same(a, WriteOf(d, again))
         /\ WriteOf(d, again).again = again
         /\ Repeats(d, WriteOf(d, again))
<1>1. d.heads \in Heads /\ ReadSize(d.heads) \in 0 .. bufSize
  BY ReadSizeType DEF Data
<1>2. /\ WriteOf(d, again).from = d.heads.readHead
      /\ WriteOf(d, again).size = ReadSize(d.heads)
      /\ WriteOf(d, again).again = again
  BY DEF WriteOf
<1>3. WriteOf(d, again) \in Attempt
  BY <1>1 DEF WriteOf, Attempt, Heads
<1>4. ReadSize(d.heads) <= ReadSize(d.heads)
  BY <1>1, BufSizeAssumption
<1> QED BY <1>1, <1>2, <1>3, <1>4 DEF Same, Repeats

\* process_sendHeaders(): the file begins with an empty buffer.
LEMMA SendHeadersLeads ==
  ASSUME NEW d, NEW a, NEW f, Whole("sslFile", d, a, f),
         d.state \in {"sendHeaders", "sendOnlyHeaders"},
         NEW o \in With(process_sendHeaders(d, a), "sslFile", f)
  PROVE  WellLed(o, a)
<1> DEFINE q == [Progress(d) EXCEPT !.heads = clear, !.state = "sendFile"]
           w == [d EXCEPT !.poll0 = {"IN", "OUT"}]
<1>1. d \in Data /\ a \in Attempt /\ f \in File /\ WithFile(d, a, f) /\ Repeats(d, a)
  BY DEF Whole, WithRequest, WithFile
<1>2. ASSUME NEW again \in BOOLEAN
      PROVE  /\ WriteOf(d, again) \in Attempt /\ Same(a, WriteOf(d, again))
             /\ WriteOf(d, again).again = again
             /\ Repeats(d, WriteOf(d, again))
  BY <1>1, WriteOfType
<1>3. Whole("sslFile", d, WriteOf(d, TRUE), f)
  BY <1>1, <1>2 DEF Whole, WithFile
<1>4. Whole("sslFile", w, WriteOf(d, TRUE), f)
  <2>1. w \in Data /\ w.state = d.state /\ w.heads = d.heads
    BY <1>1 DEF Data, Interest
  <2> HIDE DEF w
  <2> QED BY <1>1, <1>2, <2>1 DEF Whole, WithFile, Repeats
<1>5. d.state = "sendHeaders" => Whole("sslFile", q, WriteOf(d, FALSE), f)
  <2>1. clear \in Heads /\ Held(clear) = 0
    BY BufSizeAssumption DEF clear, Heads, Held
  <2>2. q \in Data /\ q.state = "sendFile" /\ q.heads = clear
    BY <1>1, <2>1, ProgressType DEF Data, States
  <2>3. d.state = "sendHeaders" => Accounted(q, f)
    <3> HIDE DEF q
    <3> QED BY <1>1, <2>1, <2>2 DEF Accounted, WithFile, File
  <2> HIDE DEF q
  <2> QED BY <1>1, <1>2, <2>2, <2>3 DEF Whole, WithFile, Repeats, Sending
<1>6. ASSUME NEW out \in process_sendHeaders(d, a) PROVE Leaves(out, "sslFile", f, a)
  <2>1. \/ out \in Remove
        \/ d.state = "sendHeaders" /\ out \in Ok(q, WriteOf(d, FALSE))
        \/ out \in Retry(d, WriteOf(d, TRUE)) \/ out \in Retry(w, WriteOf(d, TRUE))
    BY <1>6 DEF process_sendHeaders, WantRead
  <2> HIDE DEF q, w
  <2>2. CASE d.state = "sendHeaders" /\ out \in Ok(q, WriteOf(d, FALSE))
    BY <1>2, <1>5, <2>2, OkLeaves, <1>1
  <2>3. CASE out \in Retry(d, WriteOf(d, TRUE))
    BY <1>1, <1>2, <1>3, <2>3, RetryLeaves
  <2>4. CASE out \in Retry(w, WriteOf(d, TRUE))
    BY <1>1, <1>2, <1>4, <2>4, RetryLeaves
  <2> QED BY <2>1, <2>2, <2>3, <2>4 DEF Leaves
<1> QED BY <1>1, <1>6, WithLeads

\* A part of process_sendFile() that began with the attempt a.
Reads(p, a) ==
  /\ p.data \in Data /\ p.data.state = "sendFile" /\ Repeats(p.data, a)
  /\ p.file \in File /\ Accounted(p.data, p.file)

\* Reading the file moves its bytes into the buffer, behind those of a refused
\* write.
LEMMA ReadFileReads ==
  ASSUME NEW d, NEW a, NEW f, Whole("sslFile", d, a, f), d.state = "sendFile",
         NEW p \in readFile(d, f)
  PROVE  Reads(p, a)
<1> DEFINE s == [d EXCEPT !.heads = startWrite(@)]
           shut == [f EXCEPT !.open = FALSE]
           e(n) == [d EXCEPT !.heads = endWrite(@, n)]
           g(n) == [f EXCEPT !.left = @ - n]
<1>1. /\ d \in Data /\ a \in Attempt /\ f \in File /\ d.heads \in Heads
      /\ Repeats(d, a) /\ Accounted(d, f)
  BY DEF Whole, WithRequest, WithFile, Data
<1>2. /\ s \in Data /\ s.state = "sendFile" /\ s.heads = startWrite(d.heads)
      /\ Repeats(s, a)
  <2>1. s.heads = startWrite(d.heads) /\ s \in Data /\ s.state = "sendFile"
    BY <1>1, StartWriteType DEF Data
  <2> HIDE DEF s
  <2> QED BY <1>1, <2>1, StartWriteType DEF Repeats
<1>3. Accounted(s, f)
  <2> HIDE DEF s
  <2> QED BY <1>1, <1>2, HeldType DEF Accounted
<1>4. f.left = 0 => shut \in File /\ Accounted(s, shut)
  <2>1. /\ shut \in File /\ shut.left = f.left /\ shut.sent = f.sent
        /\ shut.content = f.content /\ shut.bytesToSend = f.bytesToSend
        /\ shut.announced = f.announced
    BY <1>1 DEF File
  <2> HIDE DEF s, shut
  <2> QED BY <1>3, <2>1 DEF Accounted
<1>5. ASSUME NEW n \in 1 .. Min({WriteSize(d.heads), f.left}), f.open
      PROVE  /\ e(n) \in Data /\ e(n).state = "sendFile" /\ Repeats(e(n), a)
             /\ g(n) \in File /\ Accounted(e(n), g(n))
  <2>1. n \in Nat /\ n \in 1 .. WriteSize(d.heads) /\ n <= f.left
    <3>1. WriteSize(d.heads) \in Nat /\ f.left \in Nat
      BY <1>1, StartWriteType, BufSizeAssumption DEF File
    <3> QED BY <3>1, MinType
  <2>2. /\ endWrite(d.heads, n) \in Heads
        /\ endWrite(d.heads, n).readHead = d.heads.readHead
        /\ ReadSize(endWrite(d.heads, n)) >= ReadSize(d.heads)
        /\ Held(endWrite(d.heads, n)) = Held(d.heads) + n
    BY <1>1, <2>1, EndWriteType, HeldMore
  <2>3. e(n) \in Data /\ e(n).state = "sendFile" /\ e(n).heads = endWrite(d.heads, n)
    BY <1>1, <2>2 DEF Data
  <2>4. /\ g(n) \in File /\ g(n).left = f.left - n /\ g(n).sent = f.sent
        /\ g(n).content = f.content /\ g(n).bytesToSend = f.bytesToSend
        /\ g(n).announced = f.announced /\ g(n).open = f.open
    BY <1>1, <2>1 DEF File
  <2> HIDE DEF e, g
  <2>5. Repeats(e(n), a)
    <3>1. /\ ReadSize(d.heads) \in 0 .. bufSize
          /\ ReadSize(endWrite(d.heads, n)) \in 0 .. bufSize
      BY <1>1, <2>2, ReadSizeType
    <3> QED BY <1>1, <2>2, <2>3, <3>1, BufSizeAssumption DEF Repeats, Attempt
  <2>6. Accounted(e(n), g(n))
    <3>1. Held(d.heads) \in Nat
      BY <1>1, HeldType
    <3> QED BY <1>1, <1>5, <2>1, <2>2, <2>3, <2>4, <3>1 DEF Accounted, File
  <2> QED BY <2>3, <2>4, <2>5, <2>6
<1>6. \/ \E b \in BOOLEAN : p = Part(d, f, b)
      \/ p = Part(s, f, FALSE)
      \/ f.left = 0 /\ p = Part(s, shut, FALSE)
      \/ f.open /\ \E n \in 1 .. Min({WriteSize(d.heads), f.left}) :
                    p = Part(e(n), g(n), TRUE)
  BY DEF readFile
<1> HIDE DEF s, shut, e, g
<1>7. ASSUME NEW x, NEW y, NEW b, p = Part(x, y, b) PROVE p.data = x /\ p.file = y
  BY <1>7 DEF Part
<1> QED BY <1>1, <1>2, <1>3, <1>4, <1>5, <1>6, <1>7 DEF Reads

\* A part that was read is whole, with any write that is repeated rightly.
LEMMA ReadsWhole ==
  ASSUME NEW p, NEW a \in Attempt, NEW b \in Attempt, Reads(p, a), Repeats(p.data, b)
  PROVE  Whole("sslFile", p.data, b, p.file)
BY DEF Reads, Whole, WithFile, Sending

\* Progress() and the retry at the end of process_sendFile().
LEMMA EndSendFileLeads ==
  ASSUME NEW p, NEW a \in Attempt, NEW b \in Attempt, Reads(p, a),
         Repeats(p.data, b), Same(a, b), NEW o \in EndSendFile(p, b)
  PROVE  WellLed(o, a)
<1>1. Whole("sslFile", p.data, b, p.file) /\ p.file \in File
  BY ReadsWhole DEF Reads
<1>2. Whole("sslFile", Progress(p.data), b, p.file)
  <2>1. p.data \in Data
    BY DEF Reads
  <2>2. /\ Progress(p.data) \in Data /\ Progress(p.data).state = p.data.state
        /\ Progress(p.data).heads = p.data.heads
    BY <2>1, ProgressType
  <2> QED BY <1>1, <2>2 DEF Whole, WithRequest, WithFile, Repeats, Accounted
<1>3. \/ o \in With(Ok(Progress(p.data), b), "sslFile", p.file)
      \/ o \in With(Retry(p.data, b), "sslFile", p.file)
  BY DEF EndSendFile
<1>4. CASE o \in With(Ok(Progress(p.data), b), "sslFile", p.file)
  <2>1. \A out \in Ok(Progress(p.data), b) : Leaves(out, "sslFile", p.file, a)
    BY <1>2, OkLeaves
  <2> QED BY <1>1, <1>4, <2>1, WithLeads
<1>5. CASE o \in With(Retry(p.data, b), "sslFile", p.file)
  <2>1. \A out \in Retry(p.data, b) : Leaves(out, "sslFile", p.file, a)
    BY <1>1, RetryLeaves
  <2> QED BY <1>1, <1>5, <2>1, WithLeads
<1> QED BY <1>3, <1>4, <1>5

\* The file after n bytes of it were sent.
Delivered(g, n) == [g EXCEPT !.bytesToSend = @ - n, !.sent = @ + n]

LEMMA DeliveredType ==
  ASSUME NEW g \in File, NEW n \in Nat
  PROVE  /\ Delivered(g, n) \in File
         /\ Delivered(g, n).bytesToSend = g.bytesToSend - n
         /\ Delivered(g, n).sent = g.sent + n
         /\ Delivered(g, n).left = g.left /\ Delivered(g, n).content = g.content
         /\ Delivered(g, n).announced = g.announced
         /\ Delivered(g, n).open = g.open
<1> DEFINE f == Delivered(g, n)
<1>0. f = [g EXCEPT !.bytesToSend = @ - n, !.sent = @ + n]
  BY DEF Delivered
<1> HIDE DEF f
<1>1. /\ g.bytesToSend - n \in Int /\ g.sent + n \in Nat
      /\ DOMAIN g = {"open", "announced", "content", "left", "bytesToSend", "sent"}
  BY DEF File
<1>2. /\ f.bytesToSend = g.bytesToSend - n /\ f.sent = g.sent + n
      /\ f.left = g.left /\ f.content = g.content
      /\ f.announced = g.announced /\ f.open = g.open
  BY <1>0, <1>1
<1>3. f = [open |-> g.open, announced |-> g.announced, content |-> g.content,
           left |-> g.left, bytesToSend |-> g.bytesToSend - n, sent |-> g.sent + n]
  BY <1>0, <1>1 DEF File
<1>4. f \in File
  BY <1>1, <1>3 DEF File
<1> QED BY <1>2, <1>4 DEF f

\* SSL_write() takes what startRead() offers: the bytes that are sent are those
\* that leave the buffer.
LEMMA WriteFileLeads ==
  ASSUME NEW p, NEW a \in Attempt, Reads(p, a), readAvailable(p.data.heads),
         NEW o \in writeFile(p)
  PROVE  WellLed(o, a)
<1> DEFINE d == p.data
           n == ReadSize(d.heads)
           f == [p.file EXCEPT !.bytesToSend = @ - n, !.sent = @ + n]
           q == [Progress(d) EXCEPT !.heads = endRead(@, n)]
           b == WriteOf(d, FALSE)
<1>1. /\ d \in Data /\ d.heads \in Heads /\ d.state = "sendFile"
      /\ p.file \in File /\ Accounted(d, p.file) /\ Repeats(d, a)
  BY DEF Reads, Data
<1>2. n \in Nat /\ n > 0 /\ n \in 1 .. n
  <2>1. n \in 0 .. bufSize
    BY <1>1, ReadSizeType
  <2> QED BY <2>1, BufSizeAssumption DEF readAvailable
<1>3. /\ f \in File /\ f.bytesToSend = p.file.bytesToSend - n
      /\ f.sent = p.file.sent + n /\ f.left = p.file.left
      /\ f.content = p.file.content /\ f.announced = p.file.announced
      /\ f.open = p.file.open
  <2>1. p.file \in File /\ n \in Nat
    BY <1>1, <1>2
  <2>2. f = Delivered(p.file, n)
    BY DEF Delivered
  <2> HIDE DEF d, n, f, q, b
  <2> QED BY ONLY <2>1, <2>2, DeliveredType
<1>4. endRead(d.heads, n) \in Heads /\ Held(endRead(d.heads, n)) = Held(d.heads) - n
  BY <1>1, <1>2, EndReadType, HeldLess
<1>5. q \in Data /\ q.state = "sendFile" /\ q.heads = endRead(d.heads, n)
  BY <1>1, <1>4, ProgressType DEF Data
<1>6. b \in Attempt /\ Same(a, b) /\ ~b.again
  BY <1>1, WriteOfType
<1>7. Held(d.heads) \in Nat /\ n <= Held(d.heads)
  BY <1>1, HeldType
<1>8. \/ f.bytesToSend = 0 /\ o \in With(Remove, "none", f)
      \/ f.bytesToSend # 0 /\ o \in With(Ok(q, b), "sslFile", f)
  BY DEF writeFile
<1> HIDE DEF d, n, f, q, b
<1>9. CASE f.bytesToSend = 0 /\ o \in With(Remove, "none", f)
  BY <1>3, <1>9, RemoveLeads
<1>10. CASE f.bytesToSend # 0 /\ o \in With(Ok(q, b), "sslFile", f)
  <2>1. Accounted(q, f)
    BY <1>1, <1>2, <1>3, <1>4, <1>5, <1>7, <1>10 DEF Accounted, File
  <2>2. Whole("sslFile", q, b, f)
    BY <1>3, <1>5, <1>6, <2>1 DEF Whole, WithFile, Repeats, Sending
  <2>3. \A out \in Ok(q, b) : Leaves(out, "sslFile", f, a)
    BY <1>6, <2>2, OkLeaves
  <2> QED BY <1>3, <1>10, <2>3, WithLeads
<1> QED BY <1>8, <1>9, <1>10

\* SSL_ERROR_WANT_READ and SSL_ERROR_WANT_WRITE: the same write is repeated.
LEMMA ReadFirstLeads ==
  ASSUME NEW p, NEW a \in Attempt, Reads(p, a), NEW o \in readFirst(p)
  PROVE  WellLed(o, a)
<1> DEFINE e == [p.data EXCEPT !.poll0 = {"IN", "OUT"}]
           q == Part(e, p.file, p.operationOk)
           b == WriteOf(p.data, TRUE)
<1>1. b \in Attempt /\ Same(a, b) /\ Repeats(p.data, b) /\ p.data \in Data
  BY WriteOfType DEF Reads
<1>2. e \in Data /\ e.state = p.data.state /\ e.heads = p.data.heads
  BY <1>1 DEF Data, Interest
<1>3. q.data = e /\ q.file = p.file
  BY DEF Part
<1>4. o \in EndSendFile(q, b)
  BY DEF readFirst
<1> HIDE DEF e, q, b
<1>5. Reads(q, a) /\ Repeats(q.data, b)
  BY <1>1, <1>2, <1>3 DEF Reads, Repeats, Accounted
<1> QED BY <1>1, <1>4, <1>5, EndSendFileLeads

LEMMA WriteFirstLeads ==
  ASSUME NEW p, NEW a \in Attempt, Reads(p, a), NEW o \in writeFirst(p)
  PROVE  WellLed(o, a)
<1> DEFINE b == WriteOf(p.data, TRUE)
<1>1. b \in Attempt /\ Same(a, b) /\ Repeats(p.data, b) /\ p.file \in File
  BY WriteOfType DEF Reads
<1>2. Whole("sslFile", p.data, b, p.file)
  BY <1>1, ReadsWhole
<1> HIDE DEF b
<1>3. \A out \in Ok(p.data, b) : Leaves(out, "sslFile", p.file, a)
  BY <1>1, <1>2, OkLeaves
<1>4. o \in With(Ok(p.data, b), "sslFile", p.file)
  BY DEF writeFirst, b
<1> QED BY <1>1, <1>3, <1>4, WithLeads

\* process_sendFile(), when it gets on and when it waits.
LEMMA SendFileLeads ==
  ASSUME NEW d, NEW a, NEW f, Whole("sslFile", d, a, f), d.state = "sendFile",
         NEW o \in sendFile(d, a, f)
  PROVE  WellLed(o, a)
<1>1. a \in Attempt /\ f \in File
  BY DEF Whole
<1>2. PICK p \in readFile(d, f) :
        o \in IF readAvailable(p.data.heads) THEN writeFile(p) \cup readFirst(p)
              ELSE IF p.file.open THEN With(Remove, "none", f)
              ELSE EndSendFile(p, a)
  BY DEF sendFile
<1>3. Reads(p, a)
  BY <1>2, ReadFileReads
<1>4. CASE readAvailable(p.data.heads)
  BY <1>1, <1>2, <1>3, <1>4, WriteFileLeads, ReadFirstLeads
<1>5. CASE ~readAvailable(p.data.heads) /\ p.file.open
  BY <1>1, <1>2, <1>5, RemoveLeads
<1>6. CASE ~readAvailable(p.data.heads) /\ ~p.file.open
  <2>1. Repeats(p.data, a) /\ Same(a, a)
    <3>1. a.size <= a.size
      BY <1>1, BufSizeAssumption DEF Attempt
    <3> QED BY <1>3, <3>1 DEF Reads, Same
  <2>2. o \in EndSendFile(p, a)
    BY <1>2, <1>6
  <2> QED BY <1>1, <1>3, <2>1, <2>2, EndSendFileLeads
<1> QED BY <1>4, <1>5, <1>6

LEMMA WaitToSendFileLeads ==
  ASSUME NEW d, NEW a, NEW f, Whole("sslFile", d, a, f), d.state = "sendFile",
         NEW o \in waitToSendFile(d, f)
  PROVE  WellLed(o, a)
<1>1. PICK p \in readFile(d, f) : o \in writeFirst(p)
  BY DEF waitToSendFile
<1>2. Reads(p, a) /\ a \in Attempt
  BY <1>1, ReadFileReads DEF Whole
<1> QED BY <1>1, <1>2, WriteFirstLeads

----------------------------------------------------------------------------
(* The actions *)

LEMMA ConnectionInitInv == ConnectionInit => ConnectionInv
BY RemovedType DEF ConnectionInit, ConnectionInv, Whole

\* A handler all of whose outcomes are led well keeps the invariant.
LEMMA LeadsWell ==
  ASSUME NEW outcomes, Leads(outcomes), \A o \in outcomes : WellLed(o, attempt)
  PROVE  ConnectionInv' /\ Same(attempt, attempt')
<1>1. PICK o \in outcomes : /\ data' = o.data /\ attempt' = o.attempt
                            /\ executor' = o.executor /\ file' = o.file
  BY DEF Leads
<1> QED BY <1>1 DEF WellLed, ConnectionInv

LEMMA AcceptInv ==
  ASSUME ConnectionInv, Accept
  PROVE  ConnectionInv' /\ Same(attempt, attempt')
<1>1. attempt \in Attempt
  BY DEF ConnectionInv, Whole
<1> QED BY <1>1, RequestUpLeads, LeadsWell DEF Accept

LEMMA RequestInv ==
  ASSUME ConnectionInv, NEW E, Request(E)
  PROVE  ConnectionInv' /\ Same(attempt, attempt')
<1>1. /\ data \in Data /\ attempt \in Attempt /\ WithRequest(data, attempt)
      /\ ~attempt.again
  BY DEF ConnectionInv, Whole, Request, WithRequest
<1>2. Leads(requestProcess(E))
  BY DEF Request
<1>3. CASE data.state = "sslHandshake"
  <2>1. requestProcess(E) = With(process_handshake(data, attempt), "sslRequest", NoFile)
    BY <1>3 DEF requestProcess
  <2> QED BY <1>1, <1>2, <1>3, <2>1, HandshakeLeads, LeadsWell
<1>4. CASE data.state = "readRequest" /\ E = {"IN"}
  <2>1. requestProcess(E) = process_readRequest(data, attempt)
    BY <1>4 DEF requestProcess
  <2> QED BY <1>1, <1>2, <1>4, <2>1, ReadRequestLeads, LeadsWell
<1>5. CASE data.state # "sslHandshake" /\ ~(data.state = "readRequest" /\ E = {"IN"})
  <2>1. requestProcess(E) = With(Remove, "none", NoFile)
    BY <1>5 DEF requestProcess
  <2> QED BY <1>1, <1>2, <2>1, RemoveLeads, RemovedType, LeadsWell
<1> QED BY <1>3, <1>4, <1>5

LEMMA FileInv ==
  ASSUME ConnectionInv, NEW E, SendHeaders(E) \/ SendFile(E) \/ SendFileWaits(E)
  PROVE  ConnectionInv' /\ Same(attempt, attempt')
<1>1. /\ Whole("sslFile", data, attempt, file)
      /\ attempt \in Attempt /\ file \in File
  BY DEF ConnectionInv, Whole, SendHeaders, SendFile, SendFileWaits
<1>2. CASE SendHeaders(E)
  <2>1. /\ data.state \in {"sendHeaders", "sendOnlyHeaders"}
        /\ Leads(With(IF "OUT" \in E THEN process_sendHeaders(data, attempt)
                      ELSE Remove, "sslFile", file))
    BY <1>2 DEF SendHeaders
  <2>2. CASE "OUT" \in E
    BY <1>1, <2>1, <2>2, SendHeadersLeads, LeadsWell
  <2>3. CASE "OUT" \notin E
    BY <1>1, <2>1, <2>3, RemoveLeads, LeadsWell
  <2> QED BY <2>2, <2>3
<1>3. CASE SendFile(E)
  BY <1>1, <1>3, SendFileLeads, LeadsWell DEF SendFile
<1>4. CASE SendFileWaits(E)
  BY <1>1, <1>4, WaitToSendFileLeads, LeadsWell DEF SendFileWaits
<1> QED BY <1>2, <1>3, <1>4

\* The proxy's own invariant is kept, and a proxy that closes has no executor.
LEMMA ProxyInv ==
  ASSUME ConnectionInv, ProxyStep(Process)
  PROVE  ConnectionInv' /\ Same(attempt, attempt')
<1>1. /\ executor = "sslProxy" /\ Process /\ file' = file
      /\ executor' = IF data'.state = "closed" THEN "none" ELSE executor
  BY DEF ProxyStep
<1>2. Inv /\ file \in File
  BY <1>1 DEF ConnectionInv, Whole, Inv
<1>3. Inv' /\ Same(attempt, attempt')
  BY <1>1, <1>2, ProcessFd0Inv, ProcessFd1Inv DEF Process
<1>4. /\ data' \in Data /\ attempt' \in Attempt /\ file' \in File
      /\ Good(data', attempt')
  BY <1>1, <1>2, <1>3 DEF Inv, Good
<1>5. CASE data'.state = "closed"
  <2>1. ~attempt'.again
    BY <1>4, <1>5 DEF Good, Pending, Responding
  <2> QED BY <1>1, <1>3, <1>4, <1>5, <2>1 DEF ConnectionInv, Whole
<1>6. CASE data'.state # "closed"
  BY <1>1, <1>3, <1>4, <1>6 DEF ConnectionInv, Whole
<1> QED BY <1>5, <1>6

\* Every step keeps the invariant, and relates the last SSL_write() to the one
\* before it.
LEMMA ConnectionNextInv ==
  ConnectionInv /\ [ConnectionNext]_connectionVars =>
    ConnectionInv' /\ (Same(attempt, attempt') \/ UNCHANGED vars)
<1> SUFFICES ASSUME ConnectionInv, [ConnectionNext]_connectionVars
             PROVE  ConnectionInv' /\ (Same(attempt, attempt') \/ UNCHANGED vars)
  OBVIOUS
<1>1. CASE Accept
  BY <1>1, AcceptInv
<1>2. ASSUME NEW E \in Interest,
             Request(E) \/ SendHeaders(E) \/ SendFile(E) \/ SendFileWaits(E)
      PROVE  ConnectionInv' /\ Same(attempt, attempt')
  BY <1>2, RequestInv, FileInv
<1>3. CASE ProxyStep(Process)
  BY <1>3, ProxyInv
<1>4. CASE EndConnection
  <2>1. Leads(With(Remove, "none", file)) /\ attempt \in Attempt /\ file \in File
    BY <1>4 DEF EndConnection, ConnectionInv, Whole
  <2> QED BY <2>1, RemoveLeads, LeadsWell
<1>5. CASE UNCHANGED connectionVars
  BY <1>5 DEF connectionVars, vars, ConnectionInv
<1> QED BY <1>1, <1>2, <1>3, <1>4, <1>5 DEF ConnectionNext

----------------------------------------------------------------------------
(* The theorems *)

\* The invariant holds in every state of every behaviour.
THEOREM ConnectionInvariance == ConnectionSpec => []ConnectionInv
<1>1. ConnectionInv /\ [ConnectionNext]_connectionVars => ConnectionInv'
  BY ConnectionNextInv
<1> QED BY ConnectionInitInv, <1>1, PTL DEF ConnectionSpec

\* The connection's data and its last SSL_write() have their types, whichever
\* executor has them.
THEOREM ConnectionTypeCorrect == ConnectionSpec => []TypeOK
<1>1. ConnectionInv => TypeOK
  BY DEF ConnectionInv, Whole, TypeOK
<1> QED BY <1>1, ConnectionInvariance, PTL

\* The request is polled for until it is read, and what SslProxyExecutor
\* relies on holds when SslRequestExecutor hands the connection to it.
THEOREM ConnectionArmed == ConnectionSpec => []Armed
<1>1. ConnectionInv => Armed
  BY DEF ConnectionInv, Whole, WithRequest, WithFile, Good, Armed, IsArmed,
         Reading, Sending
<1> QED BY <1>1, ConnectionInvariance, PTL

\* process_sendFile() neither loses a byte of the file nor sends one twice, for
\* every size of the buffer and of the file and every cut of the reads.
THEOREM FileIsAccounted == ConnectionSpec => []FileAccounted
<1>1. ConnectionInv => FileAccounted
  BY DEF ConnectionInv, Whole, WithRequest, WithFile, Accounted, Good, Polling,
         FileAccounted, Reading
<1> QED BY <1>1, ConnectionInvariance, PTL

\* A refused SSL_write() is repeated from the same byte and with no fewer
\* bytes, also while more of the file is read behind them.
THEOREM ConnectionRepeatsWrite == ConnectionSpec => SameWriteAgain
<1>1. ConnectionInv /\ [ConnectionNext]_connectionVars =>
        [attempt.again /\ attempt' # NoAttempt =>
           attempt'.from = attempt.from /\ attempt'.size >= attempt.size]_vars
  BY ConnectionNextInv DEF Same
<1> QED BY <1>1, ConnectionInvariance, PTL DEF ConnectionSpec, SameWriteAgain
=============================================================================
