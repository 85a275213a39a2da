---------------------------- MODULE RingBufferProofs ----------------------------
(***************************************************************************)
(* For a buffer of any size and any bytes: the heads stay inside buf, room *)
(* is refused only when buf is full, and the buffer is a FIFO of bytes.    *)
(***************************************************************************)
EXTENDS RingBuffer, SequenceTheorems, TLAPS

Bufs == [0 .. bufSize - 1 -> Bytes]

\* What a buffer with heads h holds, read off its bytes b.
Cells(b, x, y) == [i \in 1 .. y - x |-> b[x + i - 1]]
View(h, b) ==
  IF h.readHead <= h.writeHead THEN Cells(b, h.readHead, h.writeHead)
  ELSE Cells(b, h.readHead, bufSize) \o Cells(b, 0, h.writeHead)

\* The position in buf of byte i of what is held.
At(h, i) ==
  IF h.readHead + i <= bufSize THEN h.readHead + i - 1
  ELSE h.readHead + i - 1 - bufSize

----------------------------------------------------------------------------
(* The heads *)

LEMMA HeldType ==
  ASSUME NEW h \in Heads
  PROVE  /\ Held(h) \in 0 .. bufSize
         /\ \A i \in 1 .. Held(h) : At(h, i) \in 0 .. bufSize - 1
BY BufSizeAssumption DEF Heads, Held, At

LEMMA RoomType ==
  ASSUME NEW h \in Heads
  PROVE  WriteSize(h) \in 0 .. bufSize /\ ReadSize(h) \in 0 .. bufSize
BY BufSizeAssumption DEF Heads, WriteSize, ReadSize, startWrite

LEMMA ClearType == clear \in Heads /\ Held(clear) = 0
BY BufSizeAssumption DEF clear, Heads, Held

\* startWrite() moves writeHead at most from the end of buf to its start, which
\* is the same place.
LEMMA StartWriteKeeps ==
  ASSUME NEW h \in Heads
  PROVE  /\ startWrite(h) \in Heads /\ Held(startWrite(h)) = Held(h)
         /\ \A i \in 1 .. Held(h) : At(startWrite(h), i) = At(h, i)
BY BufSizeAssumption DEF Heads, startWrite, Held, At

\* The room that startWrite() offers is not where bytes are held.
LEMMA EndWriteAdds ==
  ASSUME NEW h \in Heads, NEW n \in 1 .. WriteSize(h)
  PROVE  LET w == startWrite(h).writeHead IN
         /\ endWrite(h, n) \in Heads /\ Held(endWrite(h, n)) = Held(h) + n
         /\ w \in 0 .. bufSize - 1 /\ w + n <= bufSize
         /\ \A i \in 1 .. Held(h) : /\ At(endWrite(h, n), i) = At(h, i)
                                    /\ At(h, i) \notin w .. w + n - 1
         /\ \A i \in Held(h) + 1 .. Held(h) + n :
              At(endWrite(h, n), i) = w + (i - Held(h)) - 1
BY BufSizeAssumption DEF Heads, startWrite, WriteSize, endWrite, Held, At

\* endRead() drops the bytes that were read, which lie together.
LEMMA EndReadDrops ==
  ASSUME NEW h \in Heads, NEW n \in 1 .. ReadSize(h)
  PROVE  /\ endRead(h, n) \in Heads /\ Held(endRead(h, n)) = Held(h) - n
         /\ n <= Held(h)
         /\ \A i \in 1 .. Held(h) - n : At(endRead(h, n), i) = At(h, n + i)
         /\ \A i \in 1 .. n : At(h, i) = h.readHead + i - 1
BY BufSizeAssumption DEF Heads, ReadSize, endRead, Held, At

----------------------------------------------------------------------------
(* What is held *)

LEMMA CellsType ==
  ASSUME NEW b \in Bufs, NEW x \in 0 .. bufSize, NEW y \in x .. bufSize
  PROVE  /\ Cells(b, x, y) \in Seq(Bytes) /\ Len(Cells(b, x, y)) = y - x
         /\ \A i \in 1 .. y - x : Cells(b, x, y)[i] = b[x + i - 1]
<1>1. y - x \in Nat /\ \A i \in 1 .. y - x : x + i - 1 \in 0 .. bufSize - 1
  BY BufSizeAssumption
<1>2. \A i \in 1 .. y - x : b[x + i - 1] \in Bytes
  BY <1>1 DEF Bufs
<1> QED BY <1>1, <1>2 DEF Cells

LEMMA ViewIs ==
  ASSUME NEW h \in Heads, NEW b \in Bufs
  PROVE  /\ View(h, b) \in Seq(Bytes) /\ Len(View(h, b)) = Held(h)
         /\ \A i \in 1 .. Held(h) : View(h, b)[i] = b[At(h, i)]
<1>1. /\ h.readHead \in 0 .. bufSize - 1 /\ h.writeHead \in 0 .. bufSize
      /\ bufSize \in Nat
  BY BufSizeAssumption DEF Heads
<1>2. CASE h.readHead <= h.writeHead
  <2>1. /\ h.readHead \in 0 .. bufSize /\ h.writeHead \in h.readHead .. bufSize
        /\ Held(h) = h.writeHead - h.readHead /\ View(h, b) = Cells(b, h.readHead, h.writeHead)
    BY <1>1, <1>2 DEF Held, View
  <2>2. \A i \in 1 .. Held(h) : At(h, i) = h.readHead + i - 1
    BY <1>1, <1>2 DEF Held, At
  <2>3. PICK x, y, n : x = h.readHead /\ y = h.writeHead /\ n = Held(h)
    OBVIOUS
  <2>4. x \in 0 .. bufSize /\ y \in x .. bufSize /\ n = y - x /\ View(h, b) = Cells(b, x, y)
    BY <2>1, <2>3
  <2>5. /\ Cells(b, x, y) \in Seq(Bytes) /\ Len(Cells(b, x, y)) = y - x
        /\ \A i \in 1 .. y - x : Cells(b, x, y)[i] = b[x + i - 1]
    BY <2>4, CellsType
  <2>6. \A i \in 1 .. n : At(h, i) = x + i - 1
    BY <2>2, <2>3
  <2>7. \A i \in 1 .. n : View(h, b)[i] = b[At(h, i)]
    BY <2>4, <2>5, <2>6
  <2> QED BY <2>3, <2>4, <2>5, <2>7
<1>3. CASE ~(h.readHead <= h.writeHead)
  <2> DEFINE s == Cells(b, h.readHead, bufSize)
             t == Cells(b, 0, h.writeHead)
  <2>1. /\ s \in Seq(Bytes) /\ Len(s) = bufSize - h.readHead
        /\ \A i \in 1 .. bufSize - h.readHead : s[i] = b[h.readHead + i - 1]
    <3>1. h.readHead \in 0 .. bufSize /\ bufSize \in h.readHead .. bufSize
      BY <1>1
    <3> QED BY <3>1, CellsType
  <2>2. /\ t \in Seq(Bytes) /\ Len(t) = h.writeHead
        /\ \A i \in 1 .. h.writeHead : t[i] = b[i - 1]
    <3>1. 0 \in 0 .. bufSize /\ h.writeHead \in 0 .. bufSize
      BY <1>1
    <3>2. /\ t \in Seq(Bytes) /\ Len(t) = h.writeHead - 0
          /\ \A i \in 1 .. h.writeHead - 0 : t[i] = b[0 + i - 1]
      BY <3>1, CellsType
    <3> HIDE DEF t
    <3> QED BY <1>1, <3>2
  <2>3. View(h, b) = s \o t /\ Held(h) = bufSize - h.readHead + h.writeHead
    BY <1>3 DEF View, Held
  <2> HIDE DEF s, t
  <2>4. /\ s \o t \in Seq(Bytes) /\ Len(s \o t) = Len(s) + Len(t)
        /\ \A i \in 1 .. Len(s) + Len(t) :
             (s \o t)[i] = IF i <= Len(s) THEN s[i] ELSE t[i - Len(s)]
    BY <2>1, <2>2, ConcatProperties
  <2>5. ASSUME NEW i \in 1 .. Held(h) PROVE View(h, b)[i] = b[At(h, i)]
    <3>1. CASE i <= Len(s)
      <4>1. i \in Nat /\ i <= bufSize - h.readHead /\ i \in 1 .. bufSize - h.readHead
        BY <1>1, <2>1, <2>3, <3>1
      <4>2. At(h, i) = h.readHead + i - 1
        BY <1>1, <4>1 DEF At
      <4>3. View(h, b)[i] = s[i]
        BY <1>1, <2>1, <2>2, <2>3, <2>4, <3>1
      <4> QED BY <2>1, <4>1, <4>2, <4>3
    <3>2. CASE ~(i <= Len(s))
      <4>1. /\ i \in Nat /\ i > bufSize - h.readHead
            /\ i <= bufSize - h.readHead + h.writeHead
        BY <1>1, <2>1, <2>3, <3>2
      <4>2. At(h, i) = i - Len(s) - 1 /\ i - Len(s) \in 1 .. h.writeHead
        BY <1>1, <2>1, <4>1 DEF At
      <4>3. View(h, b)[i] = t[i - Len(s)]
        BY <1>1, <2>1, <2>2, <2>3, <2>4, <3>2
      <4> QED BY <2>2, <4>2, <4>3
    <3> QED BY <3>1, <3>2
  <2>6. Len(s \o t) = Held(h)
    BY <1>1, <2>1, <2>2, <2>3, <2>4
  <2> QED BY <2>3, <2>4, <2>5, <2>6
<1> QED BY <1>2, <1>3

LEMMA ContentsIsView ==
  Contents = View(heads, buf)
BY DEF Contents, Slice, View, Cells

----------------------------------------------------------------------------
(* The steps, on what is held *)

LEMMA StartWriteView ==
  ASSUME NEW h \in Heads, NEW b \in Bufs
  PROVE  View(startWrite(h), b) = View(h, b)
<1>1. /\ View(h, b) \in Seq(Bytes) /\ Len(View(h, b)) = Held(h)
      /\ \A i \in 1 .. Held(h) : View(h, b)[i] = b[At(h, i)]
  BY ViewIs
<1>2. /\ View(startWrite(h), b) \in Seq(Bytes) /\ Len(View(startWrite(h), b)) = Held(h)
      /\ \A i \in 1 .. Held(h) : View(startWrite(h), b)[i] = b[At(h, i)]
  BY StartWriteKeeps, ViewIs
<1> QED BY <1>1, <1>2, SeqEqual

\* buf after n bytes are put where startWrite() says.
Written(h, b, n, data) ==
  [i \in 0 .. bufSize - 1 |->
     IF i \in startWrite(h).writeHead .. startWrite(h).writeHead + n - 1
     THEN data[i - startWrite(h).writeHead + 1] ELSE b[i]]

LEMMA WrittenType ==
  ASSUME NEW h \in Heads, NEW b \in Bufs, NEW n \in 1 .. WriteSize(h),
         NEW data \in [1 .. n -> Bytes]
  PROVE  Written(h, b, n, data) \in Bufs
<1> PICK w \in 0 .. bufSize - 1 : w = startWrite(h).writeHead
  BY EndWriteAdds
<1>1. \A i \in w .. w + n - 1 : i - w + 1 \in 1 .. n
  <2>1. WriteSize(h) \in Nat
    BY RoomType
  <2> QED BY <2>1, BufSizeAssumption
<1> QED BY <1>1 DEF Written, Bufs

\* Bytes written after startWrite() come after those held, which stay.
LEMMA WriteView ==
  ASSUME NEW h \in Heads, NEW b \in Bufs, NEW n \in 1 .. WriteSize(h),
         NEW data \in [1 .. n -> Bytes]
  PROVE  View(endWrite(h, n), Written(h, b, n, data)) = View(h, b) \o data
<1> DEFINE w == startWrite(h).writeHead
           c == Written(h, b, n, data)
           g == endWrite(h, n)
           s == View(h, b) \o data
<1>1. /\ g \in Heads /\ Held(g) = Held(h) + n
      /\ w \in 0 .. bufSize - 1 /\ w + n <= bufSize
      /\ \A i \in 1 .. Held(h) : At(g, i) = At(h, i) /\ At(h, i) \notin w .. w + n - 1
      /\ \A i \in Held(h) + 1 .. Held(h) + n : At(g, i) = w + (i - Held(h)) - 1
  BY EndWriteAdds
<1>2. /\ Held(h) \in Nat /\ n \in Nat /\ n >= 1 /\ bufSize \in Nat
      /\ \A i \in 1 .. Held(h) : At(h, i) \in 0 .. bufSize - 1
  <2>1. WriteSize(h) \in Nat
    BY RoomType
  <2> QED BY <2>1, HeldType, BufSizeAssumption
<1>3. /\ data \in Seq(Bytes) /\ Len(data) = n
      /\ View(h, b) \in Seq(Bytes) /\ Len(View(h, b)) = Held(h)
      /\ \A i \in 1 .. Held(h) : View(h, b)[i] = b[At(h, i)]
  BY <1>2, ViewIs
<1>4. /\ s \in Seq(Bytes) /\ Len(s) = Held(h) + n
      /\ \A i \in 1 .. Held(h) + n :
           s[i] = IF i <= Held(h) THEN View(h, b)[i] ELSE data[i - Held(h)]
  <2> DEFINE v == View(h, b)
  <2>1. v \in Seq(Bytes) /\ Len(v) = Held(h)
    BY <1>3
  <2> HIDE DEF v
  <2>2. /\ v \o data \in Seq(Bytes) /\ Len(v \o data) = Len(v) + Len(data)
        /\ \A i \in 1 .. Len(v) + Len(data) :
             (v \o data)[i] = IF i <= Len(v) THEN v[i] ELSE data[i - Len(v)]
    BY <1>3, <2>1, ConcatProperties
  <2> QED BY <1>3, <2>1, <2>2 DEF v
<1>5. /\ View(g, c) \in Seq(Bytes) /\ Len(View(g, c)) = Held(h) + n
      /\ \A i \in 1 .. Held(h) + n : View(g, c)[i] = c[At(g, i)]
  <2>1. g \in Heads /\ c \in Bufs
    BY <1>1, WrittenType
  <2> HIDE DEF g, c
  <2>2. /\ View(g, c) \in Seq(Bytes) /\ Len(View(g, c)) = Held(g)
        /\ \A i \in 1 .. Held(g) : View(g, c)[i] = c[At(g, i)]
    BY <2>1, ViewIs
  <2>3. Held(g) = Held(h) + n
    BY <1>1 DEF g
  <2> QED BY <2>2, <2>3
<1>6. \A i \in 0 .. bufSize - 1 :
        c[i] = IF i \in w .. w + n - 1 THEN data[i - w + 1] ELSE b[i]
  BY DEF Written
<1> HIDE DEF w, g, s, c
<1>7. ASSUME NEW i \in 1 .. Held(h) + n PROVE View(g, c)[i] = s[i]
  <2>1. CASE i <= Held(h)
    <3>1. i \in 1 .. Held(h)
      BY <1>2, <2>1
    <3>2. /\ At(g, i) = At(h, i) /\ At(h, i) \notin w .. w + n - 1
          /\ At(h, i) \in 0 .. bufSize - 1
      BY <1>1, <1>2, <3>1
    <3>3. c[At(g, i)] = b[At(h, i)]
      BY <1>6, <3>2
    <3>4. View(g, c)[i] = c[At(g, i)] /\ s[i] = View(h, b)[i]
      BY <1>4, <1>5, <2>1
    <3> QED BY <1>3, <3>1, <3>3, <3>4
  <2>2. CASE ~(i <= Held(h))
    <3>1. i \in Held(h) + 1 .. Held(h) + n
      BY <1>2, <2>2
    <3>2. At(g, i) = w + (i - Held(h)) - 1
      BY <1>1, <3>1
    <3>3. /\ At(g, i) \in w .. w + n - 1 /\ At(g, i) \in 0 .. bufSize - 1
          /\ At(g, i) - w + 1 = i - Held(h)
      BY <1>1, <1>2, <3>1, <3>2
    <3>4. c[At(g, i)] = data[i - Held(h)]
      BY <1>6, <3>3
    <3> QED BY <1>4, <1>5, <2>2, <3>4
  <2> QED BY <2>1, <2>2
<1>8. View(g, c) = s
  BY <1>4, <1>5, <1>7, SeqEqual
<1> QED BY <1>8 DEF g, s, c

\* What is read is the first bytes held; the others stay.
LEMMA ReadView ==
  ASSUME NEW h \in Heads, NEW b \in Bufs, NEW n \in 1 .. ReadSize(h)
  PROVE  /\ n \in 1 .. Len(View(h, b))
         /\ View(endRead(h, n), b) = SubSeq(View(h, b), n + 1, Len(View(h, b)))
         /\ Cells(b, h.readHead, h.readHead + n) = SubSeq(View(h, b), 1, n)
<1> DEFINE v == View(h, b)
           g == endRead(h, n)
           x == Cells(b, h.readHead, h.readHead + n)
<1>1. /\ g \in Heads /\ Held(g) = Held(h) - n /\ n <= Held(h)
      /\ \A i \in 1 .. Held(h) - n : At(g, i) = At(h, n + i)
      /\ \A i \in 1 .. n : At(h, i) = h.readHead + i - 1
  BY EndReadDrops
<1>2. /\ ReadSize(h) \in Nat /\ Held(h) \in Nat /\ n \in Nat /\ n >= 1
      /\ h.readHead \in 0 .. bufSize - 1 /\ h.readHead + n <= bufSize /\ bufSize \in Nat
  BY HeldType, BufSizeAssumption DEF Heads, ReadSize
<1>3. /\ v \in Seq(Bytes) /\ Len(v) = Held(h)
      /\ \A i \in 1 .. Held(h) : v[i] = b[At(h, i)] /\ v[i] \in Bytes
  BY ViewIs
<1>4. /\ View(g, b) \in Seq(Bytes) /\ Len(View(g, b)) = Held(h) - n
      /\ \A i \in 1 .. Held(h) - n : View(g, b)[i] = b[At(g, i)]
  BY <1>1, ViewIs
<1>5. /\ x \in Seq(Bytes) /\ Len(x) = n
      /\ \A i \in 1 .. n : x[i] = b[h.readHead + i - 1]
  <2>1. /\ h.readHead \in 0 .. bufSize /\ h.readHead + n \in h.readHead .. bufSize
        /\ h.readHead + n - h.readHead = n
    BY <1>2
  <2> DEFINE y == h.readHead + n
  <2>2. /\ Cells(b, h.readHead, y) \in Seq(Bytes)
        /\ Len(Cells(b, h.readHead, y)) = y - h.readHead
        /\ \A i \in 1 .. y - h.readHead : Cells(b, h.readHead, y)[i] = b[h.readHead + i - 1]
    <3>1. y \in h.readHead .. bufSize
      BY <2>1
    <3> HIDE DEF y
    <3> QED BY <2>1, <3>1, CellsType
  <2>3. y - h.readHead = n
    BY <2>1
  <2> QED BY <2>2, <2>3
<1> HIDE DEF v, g, x
<1>6. /\ SubSeq(v, n + 1, Held(h)) \in Seq(Bytes)
      /\ Len(SubSeq(v, n + 1, Held(h))) = Held(h) - n
      /\ \A i \in 1 .. Held(h) - n : SubSeq(v, n + 1, Held(h))[i] = v[n + i]
  <2>1. \A i \in n + 1 .. Held(h) : v[i] \in Bytes
    BY <1>2, <1>3
  <2>2. n + 1 \in Int /\ Held(h) \in Int
    BY <1>2
  <2>3. /\ SubSeq(v, n + 1, Held(h)) \in Seq(Bytes)
        /\ Len(SubSeq(v, n + 1, Held(h))) =
             IF n + 1 <= Held(h) THEN Held(h) - (n + 1) + 1 ELSE 0
        /\ \A i \in 1 .. Held(h) - (n + 1) + 1 :
             SubSeq(v, n + 1, Held(h))[i] = v[n + 1 + i - 1]
    BY <2>1, <2>2, SubSeqProperties
  <2> QED BY <1>1, <1>2, <2>3
<1>7. /\ SubSeq(v, 1, n) \in Seq(Bytes) /\ Len(SubSeq(v, 1, n)) = n
      /\ \A i \in 1 .. n : SubSeq(v, 1, n)[i] = v[i]
  <2>1. \A i \in 1 .. n : v[i] \in Bytes
    BY <1>1, <1>2, <1>3
  <2>2. /\ SubSeq(v, 1, n) \in Seq(Bytes)
        /\ Len(SubSeq(v, 1, n)) = IF 1 <= n THEN n - 1 + 1 ELSE 0
        /\ \A i \in 1 .. n - 1 + 1 : SubSeq(v, 1, n)[i] = v[1 + i - 1]
    BY <1>2, <2>1, SubSeqProperties
  <2> QED BY <1>2, <2>2
<1>8. View(g, b) = SubSeq(v, n + 1, Held(h))
  <2>1. \A i \in 1 .. Held(h) - n : View(g, b)[i] = SubSeq(v, n + 1, Held(h))[i]
    <3> SUFFICES ASSUME NEW i \in 1 .. Held(h) - n
                 PROVE  View(g, b)[i] = SubSeq(v, n + 1, Held(h))[i]
      OBVIOUS
    <3>1. n + i \in 1 .. Held(h)
      BY <1>1, <1>2
    <3>2. v[n + i] = b[At(h, n + i)] /\ At(g, i) = At(h, n + i)
      BY <1>1, <1>3, <3>1
    <3> QED BY <1>4, <1>6, <3>2
  <2> QED BY <1>4, <1>6, <2>1, SeqEqual
<1>9. x = SubSeq(v, 1, n)
  <2>1. ASSUME NEW i \in 1 .. n PROVE x[i] = SubSeq(v, 1, n)[i]
    <3>1. i \in 1 .. Held(h) /\ At(h, i) = h.readHead + i - 1
      BY <1>1, <1>2
    <3>2. v[i] = b[h.readHead + i - 1]
      BY <1>3, <3>1
    <3> QED BY <3>2, <1>5, <1>7
  <2> QED BY <1>5, <1>7, <2>1, SeqEqual
<1>10. n \in 1 .. Len(v)
  BY <1>1, <1>2, <1>3
<1> QED BY <1>3, <1>8, <1>9, <1>10 DEF v, g, x

\* A cleared buffer holds nothing.
LEMMA ClearView == ASSUME NEW b \in Bufs PROVE View(clear, b) = <<>>
BY ClearType, ViewIs

----------------------------------------------------------------------------
(* The theorems *)

LEMMA InitType == Init => TypeOK
BY ClearType DEF Init, TypeOK

LEMMA WriteType ==
  ASSUME TypeOK, NEW n \in 1 .. WriteSize(heads), NEW data \in [1 .. n -> Bytes],
         Write(n, data)
  PROVE  TypeOK'
BY WrittenType, EndWriteAdds DEF TypeOK, Write, Written, Bufs

LEMMA NextType == TypeOK /\ [Next]_vars => TypeOK'
<1> SUFFICES ASSUME TypeOK, [Next]_vars PROVE TypeOK'
  OBVIOUS
<1>1. ASSUME NEW n \in 1 .. bufSize, NEW data \in [1 .. n -> Bytes], Write(n, data)
      PROVE  TypeOK'
  BY <1>1, WriteType DEF Write
<1>2. CASE WriteNothing
  BY <1>2, StartWriteKeeps DEF WriteNothing, TypeOK
<1>3. ASSUME NEW n \in 1 .. bufSize, Read(n) PROVE TypeOK'
  BY <1>3, EndReadDrops DEF Read, TypeOK
<1>4. CASE Clear
  BY <1>4, ClearType DEF Clear, TypeOK
<1>5. CASE UNCHANGED vars
  BY <1>5 DEF vars, TypeOK
<1> QED BY <1>1, <1>2, <1>3, <1>4, <1>5 DEF Next

\* The heads of a buffer stay inside it, for any sequence of legal calls.
THEOREM TypeCorrect == Spec => []TypeOK
BY InitType, NextType, PTL DEF Spec

LEMMA FullHolds == TypeOK => RefusedWhenFull
BY BufSizeAssumption DEF TypeOK, RefusedWhenFull, Heads, WriteSize, startWrite, Held

\* startWrite() refuses room only when at most the byte that tells full from
\* empty is free.
THEOREM RoomIsRefusedWhenFull == Spec => []RefusedWhenFull
BY TypeCorrect, FullHolds, PTL

LEMMA FifoInit == Init => Abstract!Init
<1> SUFFICES ASSUME Init PROVE Abstract!Init
  OBVIOUS
<1>1. Contents = View(clear, buf) /\ buf \in Bufs
  BY ContentsIsView DEF Init, Bufs
<1> QED BY <1>1, ClearView DEF Init, Abstract!Init, Cleared

LEMMA ViewNext == Contents' = View(heads', buf')
BY DEF Contents, Slice, View, Cells

LEMMA WriteIsPut ==
  ASSUME TypeOK, NEW n \in 1 .. WriteSize(heads), NEW data \in [1 .. n -> Bytes],
         Write(n, data)
  PROVE  Abstract!Put
<1> USE DEF TypeOK
<1>1. heads \in Heads /\ buf \in Bufs /\ buf' \in Bufs
  BY WriteType DEF Bufs
<1>2. View(endWrite(heads, n), buf') = View(heads, buf) \o data
  BY <1>1, WriteView DEF Write, Written
<1>3. Contents' = Contents \o data /\ call' = <<"put", data>>
  BY <1>2, ContentsIsView, ViewNext DEF Write
<1>4. n \in 1 .. bufSize - Len(Contents)
  <2>1. Len(Contents) = Held(heads)
    BY <1>1, ContentsIsView, ViewIs
  <2>2. Held(heads) + n <= bufSize /\ n \in Nat /\ n >= 1 /\ Held(heads) \in Nat
    <3>1. WriteSize(heads) \in Nat
      BY RoomType
    <3>2. Held(endWrite(heads, n)) \in 0 .. bufSize
      BY <1>1, EndWriteAdds, HeldType
    <3> QED BY <1>1, <3>1, <3>2, EndWriteAdds, HeldType
  <2> QED BY <2>1, <2>2, BufSizeAssumption
<1> QED BY <1>3, <1>4 DEF Abstract!Put

LEMMA ReadIsGet ==
  ASSUME TypeOK, NEW n \in 1 .. ReadSize(heads), Read(n)
  PROVE  Abstract!Get
<1>1. heads \in Heads /\ buf \in Bufs /\ buf' = buf /\ heads' = endRead(heads, n)
  BY DEF TypeOK, Bufs, Read
<1>2. /\ n \in 1 .. Len(Contents)
      /\ Contents' = SubSeq(Contents, n + 1, Len(Contents))
      /\ Cells(buf, heads.readHead, heads.readHead + n) = SubSeq(Contents, 1, n)
  BY <1>1, ContentsIsView, ViewNext, ReadView
<1>3. call' = <<"get", SubSeq(Contents, 1, n)>>
  BY <1>2 DEF Read, Slice, Cells
<1> QED BY <1>2, <1>3 DEF Abstract!Get

LEMMA NextIsFifo == TypeOK /\ [Next]_vars => [Abstract!Next]_(Abstract!fvars)
<1> SUFFICES ASSUME TypeOK, [Next]_vars PROVE [Abstract!Next]_(Abstract!fvars)
  OBVIOUS
<1>1. ASSUME NEW n \in 1 .. bufSize, NEW data \in [1 .. n -> Bytes], Write(n, data)
      PROVE  Abstract!Put
  BY <1>1, WriteIsPut DEF Write
<1>2. CASE WriteNothing
  <2>1. Contents' = Contents
    BY <1>2, ContentsIsView, ViewNext, StartWriteView DEF WriteNothing, TypeOK, Bufs
  <2> QED BY <1>2, <2>1 DEF WriteNothing, Abstract!fvars
<1>3. ASSUME NEW n \in 1 .. bufSize, Read(n) PROVE Abstract!Get
  BY <1>3, ReadIsGet DEF Read
<1>4. CASE Clear
  <2>1. Contents' = <<>>
    BY <1>4, ViewNext, ClearView DEF Clear, TypeOK, Bufs
  <2> QED BY <1>4, <2>1 DEF Clear, Cleared, Abstract!clear, Abstract!Next
<1>5. CASE UNCHANGED vars
  BY <1>5 DEF vars, Contents, Slice, Abstract!fvars
<1> QED BY <1>1, <1>2, <1>3, <1>4, <1>5 DEF Next, Abstract!Next

\* The ring buffer implements a FIFO of bytes: they come out in the order they
\* went in, and none is lost or overwritten before it is read.
THEOREM Implements == Spec => IsFifo
BY FifoInit, NextIsFifo, TypeCorrect, PTL DEF Spec, IsFifo, Abstract!Spec

=============================================================================
