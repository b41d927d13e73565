--------------------------- MODULE SerialBitsProof ----------------------------
(***************************************************************************)
(* For any size of the memory, bits in a byte and number of calls.         *)
(*                                                                         *)
(* Without bitStream, counting, buffering and streaming agree on where a   *)
(* program writes and reads, also after it went back.  A backend is at     *)
(* position p of the n bytes it was asked to take: the four of them move   *)
(* alike until the memory ends, and from there on each keeps to itself.    *)
(*                                                                         *)
(* With bitStream and without, the buffer and the pending byte hold the    *)
(* bits of every call that fitted, and reading returns them.               *)
(***************************************************************************)
EXTENDS SerialBits, SequenceTheorems, WellFoundedInduction, TLAPS

Larger(a, b) == IF a <= b THEN b ELSE a
Smaller(a, b) == IF a <= b THEN a ELSE b

(* The record of the four backends. *)
Memories == [memory : Seq(Byte), pptr : Int, gptr : Int]
Countings == [write_pos : Int, length : Int, total_bytes_written : Int,
              read_pos : Int, gptr : Int, total_bytes_read : Int]
Backends == [buffer : Seq(Byte), buffer_write_index : Int, buffer_read_index : Int,
             count_write : Int, count_write_index : Int, count_read_index : Int,
             mem : Memories, wfailed : BOOLEAN, rfailed : BOOLEAN, csb : Countings]

(* Writing is at position p of n bytes that were asked for so far.         *)
WritesAt(b, p, n) ==
  /\ b \in Backends /\ p \in Nat /\ n \in Nat /\ p <= n
  /\ b.count_write_index = p
  /\ b.csb.write_pos = p /\ b.csb.length = n
  /\ b.count_write = b.csb.total_bytes_written /\ n <= b.count_write
  /\ Len(b.buffer) <= BufferSize /\ Len(b.mem.memory) <= BufferSize
  /\ b.buffer_write_index \in 0..Len(b.buffer)
  /\ b.wfailed = (n > BufferSize)
  /\ n <= BufferSize => /\ b.buffer = b.mem.memory /\ Len(b.buffer) = n
                        /\ b.buffer_write_index = p /\ b.mem.pptr = p

(* Reading is at position p, after n bytes at most.                        *)
ReadsAt(b, p, n) ==
  /\ b \in Backends /\ p \in Nat /\ n \in Nat /\ p <= n
  /\ b.count_read_index = p /\ b.buffer_read_index \in Nat
  /\ b.rfailed = (n > BufferSize)
  /\ n <= BufferSize => b.buffer_read_index = p /\ b.mem.gptr = p
  /\ b.csb.read_pos = Smaller(p, BufferSize)
  /\ b.csb.gptr \in b.csb.read_pos..BufferSize

(* Until somebody sought, the counting stream's area is where its count is.*)
AreaExact(b) == /\ b.csb.gptr = b.csb.read_pos
                /\ b.csb.total_bytes_read = b.csb.read_pos

(* What only writing, or only reading, changes. *)
SameReading(a, b) ==
  /\ a.buffer_read_index = b.buffer_read_index
  /\ a.count_read_index = b.count_read_index
  /\ a.rfailed = b.rfailed /\ a.mem.gptr = b.mem.gptr
  /\ a.csb.read_pos = b.csb.read_pos /\ a.csb.gptr = b.csb.gptr
  /\ a.csb.total_bytes_read = b.csb.total_bytes_read
SameWriting(a, b) ==
  /\ a.buffer = b.buffer /\ a.buffer_write_index = b.buffer_write_index
  /\ a.count_write = b.count_write /\ a.count_write_index = b.count_write_index
  /\ a.wfailed = b.wfailed
  /\ a.mem.memory = b.mem.memory /\ a.mem.pptr = b.mem.pptr
  /\ a.csb.write_pos = b.csb.write_pos /\ a.csb.length = b.csb.length
  /\ a.csb.total_bytes_written = b.csb.total_bytes_written

LEMMA SameReadsAt ==
  ASSUME NEW a \in Backends, NEW b \in Backends, NEW p, NEW n,
         SameReading(a, b), ReadsAt(b, p, n)
  PROVE  ReadsAt(a, p, n) /\ (AreaExact(b) => AreaExact(a))
BY DEF SameReading, ReadsAt, AreaExact

LEMMA SameWritesAt ==
  ASSUME NEW a \in Backends, NEW b \in Backends, NEW p, NEW n,
         SameWriting(a, b), WritesAt(b, p, n)
  PROVE  WritesAt(a, p, n)
BY DEF SameWriting, WritesAt

-----------------------------------------------------------------------------
(* Bytes laid over a memory: it grows to where they end, if that is beyond *)
(* its end.                                                                *)
LEMMA OverIs ==
  ASSUME NEW memory \in Seq(Byte), NEW bytes \in Seq(Byte),
         NEW index \in 0..Len(memory)
  PROVE  /\ Mem!Over(memory, index, bytes) \in Seq(Byte)
         /\ Len(Mem!Over(memory, index, bytes)) = Larger(Len(memory), index + Len(bytes))
<1> DEFINE L == Len(memory)
           n == Len(bytes)
           front == SubSeq(memory, 1, index)
           rest == SubSeq(memory, index + n + 1, L)
<1>1. L \in Nat /\ n \in Nat /\ index \in Nat /\ index <= L
  BY LenProperties
<1>2. \A i \in 1..L : memory[i] \in Byte
  BY ElementOfSeq
<1>3. front \in Seq(Byte) /\ Len(front) = index
  <2>1. \A i \in 1..index : memory[i] \in Byte
    BY <1>1, <1>2
  <2>2. /\ front \in Seq(Byte)
        /\ Len(front) = IF 1 <= index THEN index - 1 + 1 ELSE 0
    BY <1>1, <2>1, SubSeqProperties
  <2> QED BY <1>1, <2>2
<1>4. rest \in Seq(Byte) /\ Len(rest) = IF index + n <= L THEN L - (index + n) ELSE 0
  <2>1. \A i \in (index + n + 1)..L : memory[i] \in Byte
    BY <1>1, <1>2
  <2>2. /\ rest \in Seq(Byte)
        /\ Len(rest) = IF index + n + 1 <= L THEN L - (index + n + 1) + 1 ELSE 0
    BY <1>1, <2>1, SubSeqProperties
  <2> HIDE DEF rest
  <2> QED BY <1>1, <2>2
<1> HIDE DEF front, rest
<1>5. front \o bytes \in Seq(Byte) /\ Len(front \o bytes) = index + n
  BY <1>3, ConcatProperties
<1>6. /\ (front \o bytes) \o rest \in Seq(Byte)
      /\ Len((front \o bytes) \o rest) = (index + n) + Len(rest)
  BY <1>4, <1>5, ConcatProperties
<1>7. Mem!Over(memory, index, bytes) = (front \o bytes) \o rest
  BY DEF Mem!Over, front, rest
<1>8. (index + n) + Len(rest) = Larger(L, index + n)
  <2> HIDE DEF L, n
  <2> QED BY <1>1, <1>4 DEF Larger
<1> QED BY <1>6, <1>7, <1>8

(* The three ways of writing, each on the part of the record that it uses. *)
LEMMA BufferWriteIs ==
  ASSUME SizeAssumption, NEW b \in Backends, NEW bytes \in Seq(Byte),
         b.buffer_write_index \in 0..Len(b.buffer)
  PROVE  LET c == BufferWrite(b, bytes)
             n == Len(bytes)
         IN  /\ c \in Backends /\ SameReading(c, b)
             /\ c.mem = b.mem /\ c.csb = b.csb /\ c.wfailed = b.wfailed
             /\ c.count_write = b.count_write
             /\ c.count_write_index = b.count_write_index
             /\ IF b.buffer_write_index + n <= BufferSize
                THEN /\ c.buffer = Mem!Over(b.buffer, b.buffer_write_index, bytes)
                     /\ c.buffer_write_index = b.buffer_write_index + n
                ELSE c = b
<1>1. Len(bytes) \in Nat /\ Len(b.buffer) \in Nat /\ BufferSize \in Nat
  BY LenProperties DEF Backends, SizeAssumption
<1>2. b.buffer \in Seq(Byte) /\ b.buffer_write_index \in Nat
  BY <1>1 DEF Backends
<1>3. CASE b.buffer_write_index + Len(bytes) <= BufferSize
  <2> DEFINE over == Mem!Over(b.buffer, b.buffer_write_index, bytes)
             c == [b EXCEPT !.buffer = over, !.buffer_write_index = @ + Len(bytes)]
  <2>1. over \in Seq(Byte)
    BY <1>2, OverIs
  <2>2. b.buffer_write_index <= BufferSize - Len(bytes)
    BY <1>1, <1>2, <1>3
  <2>3. BufferWrite(b, bytes) = c
    BY <2>2 DEF BufferWrite
  <2> HIDE DEF over
  <2>4. b.buffer_write_index + Len(bytes) \in Int
    BY <1>1, <1>2
  <2>5. c \in Backends
    BY <2>1, <2>4 DEF Backends
  <2> QED BY <1>3, <2>3, <2>5 DEF Backends, SameReading, over
<1>4. CASE ~(b.buffer_write_index + Len(bytes) <= BufferSize)
  <2>1. BufferWrite(b, bytes) = b
    BY <1>1, <1>2, <1>4 DEF BufferWrite
  <2> QED BY <1>4, <2>1 DEF SameReading
<1> QED BY <1>3, <1>4

LEMMA StreamWriteIs ==
  ASSUME SizeAssumption, NEW b \in Backends, NEW bytes \in Seq(Byte), ~b.wfailed,
         b.mem.pptr \in 0..Len(b.mem.memory), Len(b.mem.memory) <= BufferSize
  PROVE  LET c == StreamWrite(b, bytes)
             n == Len(bytes)
         IN  /\ c \in Backends /\ SameReading(c, b)
             /\ c.buffer = b.buffer /\ c.csb = b.csb
             /\ c.buffer_write_index = b.buffer_write_index
             /\ c.count_write = b.count_write
             /\ c.count_write_index = b.count_write_index
             /\ c.wfailed = (b.mem.pptr + n > BufferSize)
             /\ Len(c.mem.memory) <= BufferSize
             /\ ~c.wfailed =>
                  /\ c.mem.memory = Mem!Over(b.mem.memory, b.mem.pptr, bytes)
                  /\ c.mem.pptr = b.mem.pptr + n
<1> DEFINE m == b.mem
           n == Len(bytes)
           k == Mem!AtMost(n, BufferSize - m.pptr)
           some == SubSeq(bytes, 1, k)
           over == Mem!Over(m.memory, m.pptr, some)
           moved == [m EXCEPT !.memory = over, !.pptr = @ + k]
           failed == n > BufferSize - m.pptr
           c == [b EXCEPT !.mem = moved, !.wfailed = failed]
<1>1. m \in Memories /\ m.memory \in Seq(Byte)
  BY DEF Backends, Memories
<1>2. /\ n \in Nat /\ Len(m.memory) \in Nat /\ BufferSize \in Nat /\ m.pptr \in Nat
      /\ m.pptr <= Len(m.memory) /\ Len(m.memory) <= BufferSize
  BY <1>1, LenProperties DEF SizeAssumption
<1> HIDE DEF m, n
<1>3. k = Smaller(n, BufferSize - m.pptr) /\ k \in Nat /\ k <= n
  BY <1>2 DEF Mem!AtMost, Smaller
<1>4. some \in Seq(Byte) /\ Len(some) = k
  <2>1. \A i \in 1..n : bytes[i] \in Byte
    BY ElementOfSeq DEF n
  <2> HIDE DEF k
  <2>2. \A i \in 1..k : bytes[i] \in Byte
    BY <1>2, <1>3, <2>1
  <2>3. /\ some \in Seq(Byte)
        /\ Len(some) = IF 1 <= k THEN k - 1 + 1 ELSE 0
    BY <1>3, <2>2, SubSeqProperties
  <2> HIDE DEF some
  <2> QED BY <1>3, <2>3
<1>5. k = n => some = bytes
  BY SubSeqFull DEF n
<1> HIDE DEF some, k
<1>6. over \in Seq(Byte) /\ Len(over) = Larger(Len(m.memory), m.pptr + k)
  <2>1. m.pptr \in 0..Len(m.memory)
    BY <1>2
  <2> QED BY <1>1, <1>4, <2>1, OverIs
<1>7. Len(over) <= BufferSize
  BY <1>2, <1>3, <1>6 DEF Larger, Smaller
<1> HIDE DEF over
<1>8. m.pptr + k \in Int
  BY <1>2, <1>3
<1>9. /\ moved \in Memories /\ moved.memory = over /\ moved.pptr = m.pptr + k
      /\ moved.gptr = m.gptr
  BY <1>1, <1>6, <1>8 DEF Memories
<1>10. moved = Mem!xsputn(m, bytes)
  BY DEF Mem!xsputn, over, some, k, n
<1> HIDE DEF moved, failed
<1>11. StreamWrite(b, bytes) = c
  BY <1>10 DEF StreamWrite, m, n, failed
<1>12. failed \in BOOLEAN /\ failed = (m.pptr + n > BufferSize)
  BY <1>2 DEF failed
<1>13. c \in Backends
  BY <1>9, <1>12 DEF Backends
<1>14. c.mem = moved /\ c.wfailed = failed
  BY DEF Backends
<1>15. ~failed => k = n
  <2>1. n <= BufferSize - m.pptr => k = n
    BY <1>2, <1>3 DEF Smaller
  <2>2. ~failed => n <= BufferSize - m.pptr
    BY <1>2 DEF failed
  <2> QED BY <2>1, <2>2
<1>16. ~failed => over = Mem!Over(m.memory, m.pptr, bytes)
  BY <1>5, <1>15 DEF over
<1>17. /\ c.buffer = b.buffer /\ c.csb = b.csb
       /\ c.buffer_write_index = b.buffer_write_index
       /\ c.count_write = b.count_write /\ c.count_write_index = b.count_write_index
  BY DEF Backends
<1>18. SameReading(c, b)
  BY <1>9, <1>14 DEF SameReading, Backends, m
<1> HIDE DEF c
<1> QED BY <1>7, <1>9, <1>11, <1>12, <1>13, <1>14, <1>15, <1>16, <1>17, <1>18 DEF m, n

LEMMA CountWriteIs ==
  ASSUME NEW b \in Backends, NEW n \in Nat
  PROVE  LET c == CountWrite(b, n)
         IN  /\ c \in Backends /\ SameReading(c, b)
             /\ c.buffer = b.buffer /\ c.mem = b.mem /\ c.wfailed = b.wfailed
             /\ c.buffer_write_index = b.buffer_write_index
             /\ c.count_write = b.count_write + n
             /\ c.count_write_index = b.count_write_index + n
             /\ c.csb.total_bytes_written = b.csb.total_bytes_written + n
             /\ c.csb.write_pos = b.csb.write_pos + n
             /\ c.csb.length = Larger(b.csb.length, b.csb.write_pos + n)
<1> DEFINE s == b.csb
           long == Csb!Longer(s, s.write_pos + n)
           t == [s EXCEPT !.total_bytes_written = @ + n, !.write_pos = @ + n,
                          !.length = long]
           c == [b EXCEPT !.count_write = @ + n, !.count_write_index = @ + n, !.csb = t]
<1>1. s \in Countings
  BY DEF Backends
<1>2. long = Larger(s.length, s.write_pos + n) /\ long \in Int
  <2>1. s.length \in Int /\ s.write_pos + n \in Int
    BY <1>1 DEF Countings
  <2> HIDE DEF s
  <2>2. \A x, y \in Int : (IF x > y THEN x ELSE y) = Larger(y, x) /\ Larger(y, x) \in Int
    BY DEF Larger
  <2> QED BY <2>1, <2>2 DEF Csb!Longer
<1>3. t = Csb!xsputn(s, n)
  BY DEF Csb!xsputn
<1> HIDE DEF s, long
<1>4. s.total_bytes_written + n \in Int /\ s.write_pos + n \in Int
  BY <1>1 DEF Countings
<1>5. /\ t \in Countings
      /\ t.total_bytes_written = s.total_bytes_written + n
      /\ t.write_pos = s.write_pos + n /\ t.length = long
      /\ t.read_pos = s.read_pos /\ t.gptr = s.gptr
      /\ t.total_bytes_read = s.total_bytes_read
  BY <1>1, <1>2, <1>4 DEF Countings
<1> HIDE DEF t
<1>6. CountWrite(b, n) = c
  BY <1>3 DEF CountWrite, s
<1>7. b.count_write + n \in Int /\ b.count_write_index + n \in Int
  BY DEF Backends
<1>8. c \in Backends
  BY <1>5, <1>7 DEF Backends
<1>9. /\ c.csb = t
      /\ c.buffer = b.buffer /\ c.mem = b.mem /\ c.wfailed = b.wfailed
      /\ c.buffer_write_index = b.buffer_write_index
      /\ c.count_write = b.count_write + n
      /\ c.count_write_index = b.count_write_index + n
  BY DEF Backends
<1>10. SameReading(c, b)
  BY <1>5 DEF SameReading, Backends, s
<1> HIDE DEF c
<1> QED BY <1>2, <1>5, <1>6, <1>8, <1>9, <1>10 DEF s

(* All of them together.                                                   *)
LEMMA WriteAllMoves ==
  ASSUME SizeAssumption, NEW b, NEW p, NEW n, WritesAt(b, p, n),
         NEW bytes \in Seq(Byte)
  PROVE  LET c == WriteAll(b, bytes)
             k == Len(bytes)
         IN  /\ WritesAt(c, p + k, Larger(n, p + k)) /\ SameReading(c, b)
             /\ c.count_write = b.count_write + k
             /\ Len(b.buffer) <= Len(c.buffer)
<1> DEFINE k == Len(bytes)
           b1 == BufferWrite(b, bytes)
           b2 == StreamWrite(b1, bytes)
           c == CountWrite(b2, k)
           q == Larger(n, p + k)
<1>1. k \in Nat /\ BufferSize \in Nat /\ b \in Backends
  BY LenProperties DEF SizeAssumption, WritesAt
<1>2. c = WriteAll(b, bytes)
  BY DEF WriteAll
<1>3. /\ b1 \in Backends /\ SameReading(b1, b)
      /\ b1.mem = b.mem /\ b1.csb = b.csb /\ b1.wfailed = b.wfailed
      /\ b1.count_write = b.count_write /\ b1.count_write_index = b.count_write_index
      /\ IF b.buffer_write_index + k <= BufferSize
         THEN /\ b1.buffer = Mem!Over(b.buffer, b.buffer_write_index, bytes)
              /\ b1.buffer_write_index = b.buffer_write_index + k
         ELSE b1 = b
  <2>1. b.buffer_write_index \in 0..Len(b.buffer)
    BY DEF WritesAt
  <2> QED BY <1>1, <2>1, BufferWriteIs
<1> HIDE DEF b1
<1>4. /\ p \in Nat /\ n \in Nat /\ p <= n /\ q \in Nat /\ p + k <= q /\ n <= q
      /\ (q = n \/ q = p + k)
  BY <1>1 DEF WritesAt, Larger
<1>5. /\ b1.buffer \in Seq(Byte) /\ Len(b1.buffer) <= BufferSize
      /\ b1.buffer_write_index \in 0..Len(b1.buffer)
      /\ Len(b.buffer) <= Len(b1.buffer)
      /\ p + k <= BufferSize /\ n <= BufferSize =>
           /\ b1.buffer = Mem!Over(b.buffer, p, bytes) /\ Len(b1.buffer) = q
           /\ b1.buffer_write_index = p + k
  <2> DEFINE i == b.buffer_write_index
             l == Len(b.buffer)
             over == Mem!Over(b.buffer, i, bytes)
  <2>1. /\ b.buffer \in Seq(Byte) /\ i \in 0..l /\ l <= BufferSize
        /\ (n <= BufferSize => i = p /\ l = n)
    BY <1>1 DEF WritesAt, Backends
  <2>2. l \in Nat /\ i \in Nat /\ i <= l
    BY <2>1, LenProperties
  <2>3. over \in Seq(Byte) /\ Len(over) = Larger(l, i + k)
    BY <2>1, OverIs
  <2> HIDE DEF i, l, over, q
  <2>4. CASE i + k <= BufferSize
    <3>1. b1.buffer = over /\ b1.buffer_write_index = i + k
      BY <1>3, <2>4 DEF i, over
    <3>2. Larger(l, i + k) <= BufferSize /\ i + k <= Larger(l, i + k) /\ i + k \in Nat
          /\ Larger(l, i + k) \in Nat
      BY <1>1, <2>1, <2>2, <2>4 DEF Larger
    <3>3. n <= BufferSize => over = Mem!Over(b.buffer, p, bytes) /\ Larger(l, i + k) = q
      BY <2>1 DEF over, q
    <3>4. Len(b1.buffer) = Larger(l, i + k)
      BY <2>3, <3>1
    <3>5. b1.buffer_write_index \in 0..Len(b1.buffer)
      BY <3>1, <3>2, <3>4
    <3>6. l <= Len(b1.buffer)
      BY <1>1, <2>2, <3>4 DEF Larger
    <3> QED BY <2>1, <2>3, <3>1, <3>2, <3>3, <3>4, <3>5, <3>6 DEF l
  <2>5. CASE ~(i + k <= BufferSize)
    <3>1. b1 = b
      BY <1>3, <2>5 DEF i
    <3>2. ~(p + k <= BufferSize /\ n <= BufferSize)
      BY <2>1, <2>5
    <3> QED BY <2>1, <2>2, <3>1, <3>2 DEF i, l
  <2> QED BY <2>4, <2>5
<1>6. /\ b2 \in Backends /\ SameReading(b2, b)
      /\ b2.buffer = b1.buffer /\ b2.csb = b.csb
      /\ b2.buffer_write_index = b1.buffer_write_index
      /\ b2.count_write = b.count_write /\ b2.count_write_index = b.count_write_index
      /\ Len(b2.mem.memory) <= BufferSize
      /\ b2.wfailed = (q > BufferSize)
      /\ q <= BufferSize => b2.mem.memory = b2.buffer /\ b2.mem.pptr = p + k
  <2>1. CASE n > BufferSize
    <3>1. b1.wfailed = TRUE
      BY <1>3, <2>1 DEF WritesAt
    <3>2. b2 = b1
      BY <3>1 DEF StreamWrite
    <3>3. q > BufferSize
      BY <1>1, <1>4, <2>1
    <3>4. Len(b1.mem.memory) <= BufferSize
      BY <1>3 DEF WritesAt
    <3>5. b2.wfailed = (q > BufferSize)
      BY <3>1, <3>2, <3>3
    <3>6. ~(q <= BufferSize)
      BY <1>1, <1>4, <3>3
    <3> QED BY <1>3, <3>2, <3>4, <3>5, <3>6
  <2>2. CASE n <= BufferSize
    <3>1. /\ b1.mem.pptr = p /\ Len(b1.mem.memory) = n /\ b1.mem.memory = b.buffer
      BY <1>3, <2>2 DEF WritesAt
    <3>2. ~b1.wfailed
      <4>1. ~(n > BufferSize)
        BY <1>1, <1>4, <2>2
      <4>2. b.wfailed = (n > BufferSize)
        BY DEF WritesAt
      <4> QED BY <1>3, <4>1, <4>2
    <3>3. p \in 0..n
      BY <1>4
    <3>4. b1.mem.pptr \in 0..Len(b1.mem.memory) /\ Len(b1.mem.memory) <= BufferSize
      BY <2>2, <3>1, <3>3
    <3>5. /\ b2 \in Backends /\ SameReading(b2, b1)
          /\ b2.buffer = b1.buffer /\ b2.csb = b1.csb
          /\ b2.buffer_write_index = b1.buffer_write_index
          /\ b2.count_write = b1.count_write
          /\ b2.count_write_index = b1.count_write_index
          /\ b2.wfailed = (b1.mem.pptr + k > BufferSize)
          /\ Len(b2.mem.memory) <= BufferSize
          /\ ~b2.wfailed =>
               /\ b2.mem.memory = Mem!Over(b1.mem.memory, b1.mem.pptr, bytes)
               /\ b2.mem.pptr = b1.mem.pptr + k
      BY <1>3, <3>2, <3>4, StreamWriteIs
    <3> HIDE DEF b2
    <3>6. (p + k > BufferSize) = (q > BufferSize)
      BY <1>1, <1>4, <2>2
    <3>7. b2.wfailed = (q > BufferSize)
      BY <3>1, <3>5, <3>6
    <3>8. q <= BufferSize => p + k <= BufferSize /\ ~(q > BufferSize)
      BY <1>1, <1>4
    <3>9. q <= BufferSize => b2.mem.memory = b2.buffer /\ b2.mem.pptr = p + k
      BY <1>5, <2>2, <3>1, <3>5, <3>7, <3>8
    <3>10. SameReading(b2, b)
      BY <1>3, <3>5 DEF SameReading
    <3> QED BY <1>3, <3>5, <3>7, <3>9, <3>10
  <2> QED BY <1>1, <1>4, <2>1, <2>2
<1> HIDE DEF b2
<1>7. /\ c \in Backends /\ SameReading(c, b2)
      /\ c.buffer = b2.buffer /\ c.mem = b2.mem /\ c.wfailed = b2.wfailed
      /\ c.buffer_write_index = b2.buffer_write_index
      /\ c.count_write = b2.count_write + k
      /\ c.count_write_index = b2.count_write_index + k
      /\ c.csb.total_bytes_written = b2.csb.total_bytes_written + k
      /\ c.csb.write_pos = b2.csb.write_pos + k
      /\ c.csb.length = Larger(b2.csb.length, b2.csb.write_pos + k)
  BY <1>1, <1>6, CountWriteIs
<1> HIDE DEF c
<1>8. SameReading(c, b)
  BY <1>6, <1>7 DEF SameReading
<1>9. /\ c.count_write_index = p + k
      /\ c.csb.write_pos = p + k /\ c.csb.length = q
      /\ c.count_write = c.csb.total_bytes_written
      /\ c.count_write = b.count_write + k
  BY <1>6, <1>7 DEF WritesAt
<1>10. q <= c.count_write
  <2>1. b.count_write \in Int /\ n <= b.count_write
    BY <1>1 DEF WritesAt, Backends
  <2> QED BY <1>1, <1>4, <1>9, <2>1
<1>11. /\ Len(c.buffer) <= BufferSize /\ Len(c.mem.memory) <= BufferSize
       /\ c.buffer_write_index \in 0..Len(c.buffer)
       /\ c.wfailed = (q > BufferSize)
  BY <1>5, <1>6, <1>7
<1>12. q <= BufferSize => /\ c.buffer = c.mem.memory /\ Len(c.buffer) = q
                          /\ c.buffer_write_index = p + k /\ c.mem.pptr = p + k
  <2>1. q <= BufferSize => p + k <= BufferSize /\ n <= BufferSize
    BY <1>1, <1>4
  <2> QED BY <1>5, <1>6, <1>7, <2>1
<1>13. WritesAt(c, p + k, q)
  BY <1>1, <1>4, <1>7, <1>9, <1>10, <1>11, <1>12 DEF WritesAt
<1>14. Len(b.buffer) <= Len(c.buffer)
  BY <1>5, <1>6, <1>7
<1> QED BY <1>2, <1>8, <1>9, <1>13, <1>14

-----------------------------------------------------------------------------
(* Where a position is told and gone back to.  What a position that was    *)
(* told earlier has in common with the backends now.                       *)
PositionAt(at, b, q, n) ==
  /\ at.count = q /\ at.csb = q /\ q \in 0..n
  /\ at.buffer \in 0..Len(b.buffer)
  /\ n <= BufferSize => at.mem = q /\ at.buffer = q

LEMMA TellsWrite ==
  ASSUME SizeAssumption, NEW b, NEW p, NEW n, WritesAt(b, p, n)
  PROVE  PositionAt(getWritePosition(b), b, p, n)
<1>1. n <= BufferSize => ~b.wfailed
  <2>1. n \in Nat /\ BufferSize \in Nat
    BY DEF WritesAt, SizeAssumption
  <2>2. n <= BufferSize => ~(n > BufferSize)
    BY <2>1
  <2> QED BY <2>2 DEF WritesAt
<1>2. p \in 0..n
  BY DEF WritesAt
<1> QED BY <1>1, <1>2 DEF getWritePosition, PositionAt, WritesAt

(* seekp moves the two streams, unless the one has failed. *)
LEMMA SeekOutIs ==
  ASSUME SizeAssumption, NEW b \in Backends, NEW at, NEW way, NEW place, NEW pos \in Int,
         Csb!Place(b.csb.write_pos, b.csb.length, at.csb, way) = pos,
         ~b.wfailed => /\ Mem!Place(b.mem.pptr, at.mem, way) = place
                       /\ place \in 0..BufferSize
  PROVE  LET c == SeekOut(b, at, way)
         IN  /\ c \in Backends /\ SameReading(c, b)
             /\ c.buffer = b.buffer /\ c.buffer_write_index = b.buffer_write_index
             /\ c.count_write = b.count_write
             /\ c.count_write_index = b.count_write_index
             /\ c.wfailed = b.wfailed /\ c.mem.memory = b.mem.memory
             /\ ~b.wfailed => c.mem.pptr = place
             /\ c.csb.write_pos = pos /\ c.csb.length = Larger(b.csb.length, pos)
             /\ c.csb.total_bytes_written = b.csb.total_bytes_written
<1> DEFINE m == IF b.wfailed THEN b.mem ELSE Mem!seekoff_out(b.mem, at.mem, way)
           s == Csb!seekoff_out(b.csb, at.csb, way)
           c == [b EXCEPT !.mem = m, !.csb = s]
<1>1. c = SeekOut(b, at, way)
  BY DEF SeekOut
<1>2. b.mem \in Memories /\ b.csb \in Countings /\ BufferSize \in Nat
  BY DEF Backends, SizeAssumption
<1>3. /\ m \in Memories /\ m.memory = b.mem.memory /\ m.gptr = b.mem.gptr
      /\ ~b.wfailed => m.pptr = place
  <2>1. CASE b.wfailed
    BY <1>2, <2>1
  <2>2. CASE ~b.wfailed
    <3>1. Mem!Place(b.mem.pptr, at.mem, way) = place
      BY <2>2
    <3>2. place \in Int /\ place # -1
      BY <1>2, <2>2
    <3>3. m = [b.mem EXCEPT !.pptr = place]
      BY <2>2, <3>1, <3>2 DEF Mem!seekoff_out
    <3> QED BY <1>2, <3>2, <3>3 DEF Memories
  <2> QED BY <2>1, <2>2
<1>4. /\ s \in Countings /\ s.write_pos = pos
      /\ s.length = Larger(b.csb.length, pos)
      /\ s.total_bytes_written = b.csb.total_bytes_written
      /\ s.read_pos = b.csb.read_pos /\ s.gptr = b.csb.gptr
      /\ s.total_bytes_read = b.csb.total_bytes_read
  <2>1. Csb!Place(b.csb.write_pos, b.csb.length, at.csb, way) = pos
    OBVIOUS
  <2>2. pos \in Int /\ b.csb.length \in Int
    BY <1>2 DEF Countings
  <2>3. \A x, y \in Int : (IF x > y THEN x ELSE y) = Larger(y, x) /\ Larger(y, x) \in Int
    BY DEF Larger
  <2>4. Csb!Longer(b.csb, pos) = Larger(b.csb.length, pos)
        /\ Larger(b.csb.length, pos) \in Int
    BY <2>2, <2>3 DEF Csb!Longer
  <2>5. s = [b.csb EXCEPT !.write_pos = pos, !.length = Larger(b.csb.length, pos)]
    BY <2>1, <2>4 DEF Csb!seekoff_out
  <2> QED BY <1>2, <2>2, <2>4, <2>5 DEF Countings
<1> HIDE DEF m, s
<1>5. c \in Backends /\ c.mem = m /\ c.csb = s
  BY <1>3, <1>4 DEF Backends
<1>6. /\ c.buffer = b.buffer /\ c.buffer_write_index = b.buffer_write_index
      /\ c.count_write = b.count_write /\ c.count_write_index = b.count_write_index
      /\ c.wfailed = b.wfailed
  BY DEF Backends
<1>7. SameReading(c, b)
  BY <1>3, <1>4, <1>5 DEF SameReading, Backends
<1> HIDE DEF c
<1> QED BY <1>1, <1>3, <1>4, <1>5, <1>6, <1>7

LEMMA SetWritePositionIs ==
  ASSUME SizeAssumption, NEW b, NEW p, NEW n, WritesAt(b, p, n),
         NEW at, NEW q, PositionAt(at, b, q, n)
  PROVE  LET c == setWritePosition(b, at)
         IN  /\ WritesAt(c, q, n) /\ SameReading(c, b)
             /\ c.buffer = b.buffer /\ c.count_write = b.count_write
<1> DEFINE b1 == [b EXCEPT !.buffer_write_index = at.buffer, !.count_write_index = at.count]
           c == SeekOut(b1, at, "beg")
<1>1. c = setWritePosition(b, at)
  BY DEF setWritePosition
<1>2. /\ b \in Backends /\ n \in Nat /\ BufferSize \in Nat
      /\ q \in Nat /\ q <= n /\ at.count = q /\ at.csb = q
  BY DEF WritesAt, PositionAt, SizeAssumption
<1>3. at.buffer \in Int /\ at.count \in Int
  BY <1>2 DEF PositionAt
<1>4. /\ b1 \in Backends /\ b1.buffer_write_index = at.buffer /\ b1.count_write_index = q
      /\ b1.buffer = b.buffer /\ b1.count_write = b.count_write
      /\ b1.wfailed = b.wfailed /\ b1.mem = b.mem /\ b1.csb = b.csb
      /\ SameReading(b1, b)
  <2>1. b1 \in Backends
    BY <1>2, <1>3 DEF Backends
  <2>2. /\ b1.buffer_write_index = at.buffer /\ b1.count_write_index = q
        /\ b1.buffer = b.buffer /\ b1.count_write = b.count_write
        /\ b1.wfailed = b.wfailed /\ b1.mem = b.mem /\ b1.csb = b.csb
    BY <1>2 DEF Backends
  <2>3. SameReading(b1, b)
    BY <1>2 DEF Backends, SameReading
  <2> QED BY <2>1, <2>2, <2>3
<1> HIDE DEF b1
<1>5. n <= BufferSize => at.mem \in 0..BufferSize /\ at.mem = q /\ at.buffer = q
  BY <1>2 DEF PositionAt
<1>6. ~b.wfailed => n <= BufferSize
  <2>1. ~(n > BufferSize) => n <= BufferSize
    BY <1>2
  <2> QED BY <2>1 DEF WritesAt
<1>6a. n <= BufferSize => ~b.wfailed
  <2>1. n <= BufferSize => ~(n > BufferSize)
    BY <1>2
  <2> QED BY <2>1 DEF WritesAt
<1>7. /\ c \in Backends /\ SameReading(c, b1)
      /\ c.buffer = b1.buffer /\ c.buffer_write_index = b1.buffer_write_index
      /\ c.count_write = b1.count_write /\ c.count_write_index = b1.count_write_index
      /\ c.wfailed = b1.wfailed /\ c.mem.memory = b1.mem.memory
      /\ ~b1.wfailed => c.mem.pptr = at.mem
      /\ c.csb.write_pos = q /\ c.csb.length = Larger(b1.csb.length, q)
      /\ c.csb.total_bytes_written = b1.csb.total_bytes_written
  <2>1. ~b1.wfailed => at.mem \in 0..BufferSize
    BY <1>4, <1>5, <1>6
  <2>2. ~b1.wfailed => Mem!Place(b1.mem.pptr, at.mem, "beg") = at.mem
    BY <2>1 DEF Mem!Place
  <2>3. q \in Int /\ Csb!Place(b1.csb.write_pos, b1.csb.length, at.csb, "beg") = q
    BY <1>2 DEF Csb!Place
  <2> QED BY <1>4, <2>1, <2>2, <2>3, SeekOutIs
<1> HIDE DEF c
<1>8. c.csb.length = n
  <2>1. b1.csb.length = n
    BY <1>4 DEF WritesAt
  <2> QED BY <1>2, <1>7, <2>1 DEF Larger
<1>9. SameReading(c, b)
  BY <1>4, <1>7 DEF SameReading
<1>10. c.buffer_write_index \in 0..Len(c.buffer)
  BY <1>4, <1>7 DEF PositionAt
<1>11. n <= BufferSize => c.buffer_write_index = q /\ c.mem.pptr = q
  BY <1>4, <1>5, <1>6a, <1>7
<1>12. WritesAt(c, q, n)
  BY <1>2, <1>4, <1>7, <1>8, <1>10, <1>11 DEF WritesAt
<1> QED BY <1>1, <1>4, <1>7, <1>9, <1>12

(* Asking for the length moves nobody, and is answered alike.              *)
LEMMA GetWriteLengthIs ==
  ASSUME SizeAssumption, NEW b, NEW p, NEW n, WritesAt(b, p, n)
  PROVE  LET c == getWriteLength(b)
         IN  /\ WritesAt(c, p, n) /\ SameReading(c, b)
             /\ c.buffer = b.buffer /\ c.count_write = b.count_write
             /\ Lengths(b) = [buffer |-> BufferSize, count |-> c.count_write,
                              mem |-> IF c.wfailed THEN -1 ELSE BufferSize,
                              csb |-> n]
<1> DEFINE zero == [mem |-> 0, csb |-> 0]
           e == SeekOut(b, zero, "end")
           at == getWritePosition(b)
           c == SeekOut(e, at, "beg")
<1>1. /\ b \in Backends /\ n \in Nat /\ p \in Nat /\ p <= n /\ BufferSize \in Nat
      /\ b.csb.length = n
  BY DEF WritesAt, SizeAssumption
<1>2. (~b.wfailed => n <= BufferSize) /\ (n <= BufferSize => ~b.wfailed)
  <2>1. ~(n > BufferSize) <=> n <= BufferSize
    BY <1>1
  <2> QED BY <2>1 DEF WritesAt
<1>3. c = getWriteLength(b) /\ e = AtEnd(b)
  BY DEF getWriteLength, AtEnd
<1>4. /\ e \in Backends /\ SameReading(e, b)
      /\ e.buffer = b.buffer /\ e.buffer_write_index = b.buffer_write_index
      /\ e.count_write = b.count_write /\ e.count_write_index = b.count_write_index
      /\ e.wfailed = b.wfailed /\ e.mem.memory = b.mem.memory
      /\ ~b.wfailed => e.mem.pptr = BufferSize
      /\ e.csb.write_pos = n /\ e.csb.length = Larger(n, n)
      /\ e.csb.total_bytes_written = b.csb.total_bytes_written
  <2>1. /\ Mem!Place(b.mem.pptr, zero.mem, "end") = BufferSize
        /\ BufferSize \in 0..BufferSize
    BY <1>1 DEF Mem!Place
  <2>2. Csb!Place(b.csb.write_pos, b.csb.length, zero.csb, "end") = n
    BY <1>1 DEF Csb!Place
  <2>3. n \in Int
    BY <1>1
  <2> HIDE DEF at, c, zero
  <2>4. ~b.wfailed => /\ Mem!Place(b.mem.pptr, zero.mem, "end") = BufferSize
                      /\ BufferSize \in 0..BufferSize
    BY <2>1
  <2>5. LET d == SeekOut(b, zero, "end")
        IN  /\ d \in Backends /\ SameReading(d, b)
            /\ d.buffer = b.buffer /\ d.buffer_write_index = b.buffer_write_index
            /\ d.count_write = b.count_write
            /\ d.count_write_index = b.count_write_index
            /\ d.wfailed = b.wfailed /\ d.mem.memory = b.mem.memory
            /\ ~b.wfailed => d.mem.pptr = BufferSize
            /\ d.csb.write_pos = n /\ d.csb.length = Larger(b.csb.length, n)
            /\ d.csb.total_bytes_written = b.csb.total_bytes_written
    BY <1>1, <2>2, <2>3, <2>4, SeekOutIs
  <2> QED BY <1>1, <2>5, Zenon
<1> HIDE DEF e
<1>5. /\ at.csb = p /\ (~b.wfailed => at.mem = p)
  BY <1>2 DEF WritesAt, getWritePosition
<1> HIDE DEF at
<1>7. /\ c \in Backends /\ SameReading(c, e)
      /\ c.buffer = e.buffer /\ c.buffer_write_index = e.buffer_write_index
      /\ c.count_write = e.count_write /\ c.count_write_index = e.count_write_index
      /\ c.wfailed = e.wfailed /\ c.mem.memory = e.mem.memory
      /\ ~e.wfailed => c.mem.pptr = at.mem
      /\ c.csb.write_pos = at.csb /\ c.csb.length = Larger(e.csb.length, at.csb)
      /\ c.csb.total_bytes_written = e.csb.total_bytes_written
  <2>1. at.csb \in Int
        /\ Csb!Place(e.csb.write_pos, e.csb.length, at.csb, "beg") = at.csb
    BY <1>1, <1>5 DEF Csb!Place
  <2>2. ~e.wfailed => at.mem \in 0..BufferSize
    BY <1>1, <1>2, <1>4, <1>5
  <2>3. ~e.wfailed => Mem!Place(e.mem.pptr, at.mem, "beg") = at.mem
    BY <2>2 DEF Mem!Place
  <2> QED BY <1>4, <2>1, <2>2, <2>3, SeekOutIs
<1> HIDE DEF c
<1>8. c.csb.write_pos = p /\ c.csb.length = n
  BY <1>1, <1>4, <1>5, <1>7 DEF Larger
<1>9. SameReading(c, b)
  BY <1>4, <1>7 DEF SameReading
<1>10. n <= BufferSize => c.mem.pptr = p
  BY <1>2, <1>4, <1>5, <1>7
<1>11. WritesAt(c, p, n)
  BY <1>4, <1>7, <1>8, <1>10 DEF WritesAt
<1>12. Lengths(b) = [buffer |-> BufferSize, count |-> c.count_write,
                     mem |-> IF c.wfailed THEN -1 ELSE BufferSize, csb |-> n]
  <2> DEFINE said == getWritePosition(e)
  <2>1. Lengths(b) = [said EXCEPT !.buffer = BufferSize, !.count = b.count_write]
    BY <1>3 DEF Lengths
  <2>2. said = [buffer |-> e.buffer_write_index, count |-> e.count_write_index,
                mem |-> IF e.wfailed THEN -1 ELSE e.mem.pptr, csb |-> e.csb.write_pos]
    BY DEF getWritePosition
  <2> HIDE DEF said
  <2>3. Lengths(b) = [buffer |-> BufferSize, count |-> b.count_write,
                mem |-> IF e.wfailed THEN -1 ELSE e.mem.pptr, csb |-> e.csb.write_pos]
    BY <2>1, <2>2
  <2>4. (IF e.wfailed THEN -1 ELSE e.mem.pptr) = (IF c.wfailed THEN -1 ELSE BufferSize)
    BY <1>4, <1>7
  <2> QED BY <1>4, <1>7, <2>3, <2>4
<1> QED BY <1>3, <1>4, <1>7, <1>9, <1>11, <1>12

-----------------------------------------------------------------------------
(* A counting stream takes what its buffer still has, whatever its get     *)
(* area was left with by a seek: a round of xsgetn comes to the end of the *)
(* area, and a second one to the end of the buffer.                        *)
AreaAfter(c) == c.gptr \in c.read_pos..BufferSize

LEMMA RoundIs ==
  ASSUME BufferSize \in Nat, NEW c \in Countings, c.read_pos \in Nat, AreaAfter(c),
         NEW n \in Nat
  PROVE  LET d == Csb!Round(c, n)
             area == IF c.gptr < BufferSize THEN BufferSize - c.gptr
                     ELSE BufferSize - c.read_pos
         IN  /\ d \in Countings /\ AreaAfter(d)
             /\ d.read_pos = c.read_pos + Smaller(n, area)
             /\ d.write_pos = c.write_pos /\ d.length = c.length
             /\ d.total_bytes_written = c.total_bytes_written
             /\ (n >= area /\ c.gptr < BufferSize => d.gptr = BufferSize)
             /\ AreaExact([csb |-> c]) => AreaExact([csb |-> d])
<1> DEFINE g == c.gptr
           p == c.read_pos
           from == IF g < BufferSize THEN g ELSE Csb!underflow(g, p)
           k == IF n <= BufferSize - from THEN n ELSE BufferSize - from
           area == IF g < BufferSize THEN BufferSize - g ELSE BufferSize - p
           d == [c EXCEPT !.gptr = from + k, !.read_pos = @ + k, !.total_bytes_read = @ + k]
<1>1. Csb!Round(c, n) = d
  BY DEF Csb!Round
<1>2. p \in Nat /\ g \in Nat /\ p <= g /\ g <= BufferSize
  BY DEF AreaAfter
<1> HIDE DEF p, g
<1>3. from \in Nat /\ from = BufferSize - area /\ p <= from /\ from <= BufferSize
  BY <1>2 DEF Csb!underflow
<1>4. k \in Nat /\ k = Smaller(n, area)
  BY <1>2, <1>3 DEF Smaller
<1>5. from + k \in p + k..BufferSize
  BY <1>2, <1>3
<1>6. n >= area => from + k = BufferSize
  BY <1>2, <1>3
<1>7. p = g => from = p
  BY <1>2 DEF Csb!underflow
<1> HIDE DEF from, k
<1>8. /\ from + k \in Int /\ c.read_pos + k \in Int /\ c.total_bytes_read + k \in Int
  BY <1>3, <1>4 DEF Countings
<1>9. /\ d \in Countings /\ d.gptr = from + k /\ d.read_pos = p + k
      /\ d.total_bytes_read = c.total_bytes_read + k
      /\ d.write_pos = c.write_pos /\ d.length = c.length
      /\ d.total_bytes_written = c.total_bytes_written
  BY <1>8 DEF Countings, p
<1> HIDE DEF d
<1>10. AreaAfter(d)
  BY <1>5, <1>9 DEF AreaAfter
<1>11. AreaExact([csb |-> c]) => AreaExact([csb |-> d])
  BY <1>7, <1>9 DEF AreaExact, p, g
<1> QED BY <1>1, <1>4, <1>6, <1>9, <1>10, <1>11 DEF area, g, p

LEMMA CsbReadIs ==
  ASSUME BufferSize \in Nat, NEW c \in Countings, c.read_pos \in Nat, AreaAfter(c),
         NEW n \in Nat
  PROVE  LET d == Csb!xsgetn(c, n)
         IN  /\ d \in Countings /\ AreaAfter(d)
             /\ d.read_pos = Smaller(c.read_pos + n, BufferSize)
             /\ d.write_pos = c.write_pos /\ d.length = c.length
             /\ d.total_bytes_written = c.total_bytes_written
             /\ AreaExact([csb |-> c]) => AreaExact([csb |-> d])
<1> DEFINE g == c.gptr
           p == c.read_pos
           once == Csb!Round(c, n)
           left == n - (once.read_pos - p)
           d == Csb!Round(once, left)
           area == IF g < BufferSize THEN BufferSize - g ELSE BufferSize - p
           next == IF once.gptr < BufferSize THEN BufferSize - once.gptr
                   ELSE BufferSize - once.read_pos
<1>1. Csb!xsgetn(c, n) = d
  BY DEF Csb!xsgetn
<1>2. p \in Nat /\ g \in Nat /\ p <= g /\ g <= BufferSize
  BY DEF AreaAfter
<1>3. /\ once \in Countings /\ AreaAfter(once)
      /\ once.read_pos = p + Smaller(n, area)
      /\ once.write_pos = c.write_pos /\ once.length = c.length
      /\ once.total_bytes_written = c.total_bytes_written
      /\ (n >= area /\ g < BufferSize => once.gptr = BufferSize)
      /\ AreaExact([csb |-> c]) => AreaExact([csb |-> once])
  BY RoundIs
<1> HIDE DEF once, g, p
<1>4. Smaller(n, area) \in Nat /\ Smaller(n, area) <= n /\ Smaller(n, area) <= area
      /\ (n < area => Smaller(n, area) = n) /\ (n >= area => Smaller(n, area) = area)
      /\ area \in Nat
  BY <1>2 DEF Smaller
<1>5. once.read_pos \in Nat /\ left \in Nat /\ left = n - Smaller(n, area)
  BY <1>2, <1>3, <1>4
<1>6. once.gptr \in once.read_pos..BufferSize
  BY <1>3 DEF AreaAfter
<1> HIDE DEF left, d
<1>7. /\ d \in Countings /\ AreaAfter(d)
      /\ d.read_pos = once.read_pos + Smaller(left, next)
      /\ d.write_pos = once.write_pos /\ d.length = once.length
      /\ d.total_bytes_written = once.total_bytes_written
      /\ AreaExact([csb |-> once]) => AreaExact([csb |-> d])
  <2>1. d = Csb!Round(once, left)
    BY DEF d
  <2> QED BY <1>3, <1>5, <2>1, RoundIs
<1>8. d.read_pos = Smaller(p + n, BufferSize)
  <2>1. CASE n < area
    <3>1. left = 0 /\ once.read_pos = p + n
      BY <1>2, <1>3, <1>4, <1>5, <2>1
    <3>2. next \in Nat
      BY <1>5, <1>6
    <3>3. Smaller(left, next) = 0
      BY <3>1, <3>2 DEF Smaller
    <3>4. p + n <= BufferSize
      BY <1>2, <2>1
    <3> QED BY <1>2, <1>7, <3>1, <3>3, <3>4 DEF Smaller
  <2>2. CASE n >= area
    <3>1. left = n - area /\ once.read_pos = p + area /\ area \in Nat
      BY <1>3, <1>4, <1>5, <2>2
    <3>2. next = BufferSize - (p + area)
      <4>1. CASE g < BufferSize
        BY <1>2, <1>3, <2>2, <3>1, <4>1
      <4>2. CASE ~(g < BufferSize)
        <5>1. area = BufferSize - p
          BY <4>2
        <5>2. once.read_pos = BufferSize
          BY <1>2, <3>1, <5>1
        <5> QED BY <1>2, <1>6, <3>1, <5>1, <5>2
      <4> QED BY <4>1, <4>2
    <3> HIDE DEF area, next
    <3> QED BY <1>2, <1>7, <3>1, <3>2 DEF Smaller
  <2> QED BY <1>2, <1>4, <2>1, <2>2
<1> QED BY <1>1, <1>3, <1>7, <1>8 DEF p

(* Reading from all of them.                                               *)
LEMMA ReadAllMoves ==
  ASSUME SizeAssumption, NEW b, NEW p, NEW n, ReadsAt(b, p, n), NEW k \in Nat
  PROVE  LET c == ReadAll(b, k)
         IN  /\ ReadsAt(c, p + k, Larger(n, p + k)) /\ SameWriting(c, b)
             /\ AreaExact(b) => AreaExact(c)
<1> DEFINE b1 == BufferRead(b, k)
           m == Mem!xsgetn(b1.mem, k)
           b2 == StreamRead(b1, k)
           s == Csb!xsgetn(b2.csb, k)
           c == [b2 EXCEPT !.count_read_index = @ + k, !.csb = s]
           q == Larger(n, p + k)
<1>1. /\ b \in Backends /\ p \in Nat /\ n \in Nat /\ p <= n /\ BufferSize \in Nat
      /\ b.buffer_read_index \in Nat
  BY DEF ReadsAt, SizeAssumption
<1>2. q \in Nat /\ p + k <= q /\ n <= q /\ (q = n \/ q = p + k)
  BY <1>1 DEF Larger
<1>3. c = ReadAll(b, k)
  BY DEF ReadAll, CountRead
<1>4. /\ b1 \in Backends /\ SameWriting(b1, b)
      /\ b1.buffer_read_index \in Nat
      /\ b1.count_read_index = p /\ b1.rfailed = b.rfailed
      /\ b1.mem = b.mem /\ b1.csb = b.csb
      /\ q <= BufferSize => b1.buffer_read_index = p + k
  <2>1. CASE BufferReads(b, k)
    <3>1. b1 = [b EXCEPT !.buffer_read_index = @ + k]
      BY <2>1 DEF BufferRead
    <3>2. b.buffer_read_index + k \in Nat
      BY <1>1
    <3>3. q <= BufferSize => b.buffer_read_index + k = p + k
      BY <1>1, <1>2 DEF ReadsAt
    <3>4. b1 \in Backends
      <4>1. b.buffer_read_index + k \in Int
        BY <1>1
      <4> QED BY <1>1, <3>1, <4>1 DEF Backends
    <3>4a. b1.buffer_read_index = b.buffer_read_index + k
      BY <1>1, <3>1 DEF Backends
    <3>5. /\ b1.count_read_index = p /\ b1.rfailed = b.rfailed
          /\ b1.mem = b.mem /\ b1.csb = b.csb
      BY <1>1, <3>1 DEF Backends, ReadsAt
    <3>6. SameWriting(b1, b)
      BY <1>1, <3>1 DEF Backends, SameWriting
    <3> QED BY <3>2, <3>3, <3>4, <3>4a, <3>5, <3>6
  <2>2. CASE ~BufferReads(b, k)
    <3>1. b1 = b
      BY <2>2 DEF BufferRead
    <3>2. ~(q <= BufferSize)
      BY <1>1, <1>2, <2>2 DEF BufferReads, ReadsAt
    <3> QED BY <1>1, <3>1, <3>2 DEF SameWriting, ReadsAt
  <2> QED BY <2>1, <2>2
<1> HIDE DEF b1
<1>5. /\ b2 \in Backends /\ SameWriting(b2, b)
      /\ b2.buffer_read_index = b1.buffer_read_index
      /\ b2.count_read_index = p /\ b2.csb = b.csb
      /\ b2.rfailed = (q > BufferSize)
      /\ q <= BufferSize => b2.mem.gptr = p + k
  <2>1. CASE n > BufferSize
    <3>1. b1.rfailed = TRUE
      BY <1>4, <2>1 DEF ReadsAt
    <3>2. b2 = b1
      BY <3>1 DEF StreamRead
    <3>3. q > BufferSize /\ ~(q <= BufferSize)
      BY <1>1, <1>2, <2>1
    <3>4. b2.rfailed = (q > BufferSize)
      BY <3>1, <3>2, <3>3
    <3> QED BY <1>4, <3>2, <3>3, <3>4
  <2>2. CASE n <= BufferSize
    <3>1. b1.mem.gptr = p /\ p <= BufferSize
      BY <1>1, <1>4, <2>2 DEF ReadsAt
    <3>2. ~b1.rfailed
      <4>1. ~(n > BufferSize)
        BY <1>1, <2>2
      <4>2. b.rfailed = (n > BufferSize)
        BY DEF ReadsAt
      <4> QED BY <1>4, <4>1, <4>2
    <3> DEFINE failed == k > BufferSize - b1.mem.gptr
    <3>3. b2 = [b1 EXCEPT !.mem = m, !.rfailed = failed]
      BY <3>2 DEF StreamRead
    <3>4. failed = (q > BufferSize) /\ failed \in BOOLEAN
      <4>1. k > BufferSize - p <=> q > BufferSize
        BY <1>1, <1>2, <2>2
      <4>2. failed <=> k > BufferSize - p
        BY <3>1
      <4> QED BY <4>1, <4>2
    <3> HIDE DEF failed
    <3>5. /\ m \in Memories /\ m.memory = b.mem.memory /\ m.pptr = b.mem.pptr
          /\ q <= BufferSize => m.gptr = p + k
      <4> DEFINE j == Mem!AtMost(k, BufferSize - b1.mem.gptr)
      <4>1. j \in Int /\ (k <= BufferSize - p => j = k)
        BY <1>1, <3>1 DEF Mem!AtMost
      <4>2. m = [b1.mem EXCEPT !.gptr = @ + j]
        BY DEF Mem!xsgetn
      <4> HIDE DEF j, m
      <4>3. b1.mem \in Memories
        BY <1>4 DEF Backends
      <4>4. p + j \in Int /\ (q <= BufferSize => p + j = p + k)
        BY <1>1, <1>2, <4>1
      <4>5. m = [b1.mem EXCEPT !.gptr = p + j]
        BY <3>1, <4>2
      <4> QED BY <1>4, <4>3, <4>4, <4>5 DEF Memories
    <3> HIDE DEF m, b2
    <3>6. b2 \in Backends /\ b2.mem = m /\ b2.rfailed = failed
      BY <1>4, <3>3, <3>4, <3>5 DEF Backends
    <3>7. /\ b2.buffer_read_index = b1.buffer_read_index
          /\ b2.count_read_index = p /\ b2.csb = b.csb
      BY <1>4, <3>3 DEF Backends
    <3>8. SameWriting(b2, b)
      BY <1>4, <3>3, <3>5, <3>6 DEF Backends, SameWriting
    <3> QED BY <3>4, <3>5, <3>6, <3>7, <3>8
  <2> QED BY <1>1, <2>1, <2>2
<1> HIDE DEF b2, m
<1>6. /\ s \in Countings /\ AreaAfter(s)
      /\ s.read_pos = Smaller(b.csb.read_pos + k, BufferSize)
      /\ s.write_pos = b.csb.write_pos /\ s.length = b.csb.length
      /\ s.total_bytes_written = b.csb.total_bytes_written
      /\ AreaExact([csb |-> b.csb]) => AreaExact([csb |-> s])
  <2>1. b.csb \in Countings /\ AreaAfter(b.csb)
    BY <1>1 DEF Backends, ReadsAt, AreaAfter
  <2>2. b.csb.read_pos \in Nat
    BY <1>1 DEF ReadsAt, Smaller
  <2>3. s = Csb!xsgetn(b.csb, k)
    BY <1>5
  <2> HIDE DEF s
  <2> QED BY <1>1, <2>1, <2>2, <2>3, CsbReadIs
<1>7. s.read_pos = Smaller(p + k, BufferSize)
  <2>1. b.csb.read_pos = Smaller(p, BufferSize)
    BY DEF ReadsAt
  <2>2. Smaller(Smaller(p, BufferSize) + k, BufferSize) = Smaller(p + k, BufferSize)
    BY <1>1 DEF Smaller
  <2> HIDE DEF s
  <2> QED BY <1>6, <2>1, <2>2
<1> HIDE DEF s
<1>8. p + k \in Nat
  BY <1>1
<1>9. /\ c \in Backends /\ c.csb = s /\ c.count_read_index = p + k
      /\ c.buffer_read_index = b1.buffer_read_index /\ c.rfailed = b2.rfailed
      /\ c.mem = b2.mem
  <2>1. c = [b2 EXCEPT !.count_read_index = p + k, !.csb = s]
    BY <1>5
  <2>2. c \in Backends
    <3>1. p + k \in Int
      BY <1>1
    <3> QED BY <1>5, <1>6, <2>1, <3>1 DEF Backends
  <2>3. c.csb = s /\ c.count_read_index = p + k
    BY <1>5, <2>1 DEF Backends
  <2>4. c.buffer_read_index = b2.buffer_read_index /\ c.rfailed = b2.rfailed
        /\ c.mem = b2.mem
    BY <1>5, <2>1 DEF Backends
  <2> QED BY <1>5, <2>2, <2>3, <2>4
<1>10. SameWriting(c, b)
  BY <1>5, <1>6, <1>9 DEF SameWriting, Backends
<1> HIDE DEF c
<1>11. ReadsAt(c, p + k, q)
  BY <1>2, <1>4, <1>5, <1>6, <1>7, <1>8, <1>9 DEF ReadsAt, AreaAfter
<1>12. AreaExact(b) => AreaExact(c)
  BY <1>6, <1>9 DEF AreaExact
<1> QED BY <1>3, <1>10, <1>11, <1>12

(* A position of the reading that was told earlier, and going back to it.  *)
ReadPositionAt(at, q, n) ==
  /\ q \in Nat /\ at.count = q /\ at.buffer \in Nat /\ at.csb = Smaller(q, BufferSize)
  /\ n <= BufferSize => at.mem = q /\ at.buffer = q

LEMMA TellsRead ==
  ASSUME SizeAssumption, NEW b, NEW p, NEW n, ReadsAt(b, p, n), NEW m \in Nat, n <= m
  PROVE  ReadPositionAt(getReadPosition(b), p, m)
<1>1. m <= BufferSize => n <= BufferSize /\ ~b.rfailed
  <2>1. n \in Nat /\ BufferSize \in Nat
    BY DEF ReadsAt, SizeAssumption
  <2>2. m <= BufferSize => n <= BufferSize /\ ~(n > BufferSize)
    BY <2>1
  <2> QED BY <2>2 DEF ReadsAt
<1> QED BY <1>1 DEF getReadPosition, ReadPositionAt, ReadsAt

LEMMA SetReadPositionIs ==
  ASSUME SizeAssumption, NEW b, NEW p, NEW n, ReadsAt(b, p, n),
         NEW at, NEW q, ReadPositionAt(at, q, n), q <= p
  PROVE  LET c == setReadPosition(b, at)
         IN  ReadsAt(c, q, n) /\ SameWriting(c, b)
<1> DEFINE b1 == [b EXCEPT !.buffer_read_index = at.buffer, !.count_read_index = at.count]
           m == IF b1.rfailed THEN b1.mem ELSE Mem!seekoff_in(b1.mem, at.mem, "beg")
           s == Csb!seekoff_in(b1.csb, at.csb, "beg")
           c == [b1 EXCEPT !.mem = m, !.csb = s]
<1>1. c = setReadPosition(b, at)
  BY DEF setReadPosition, SeekIn
<1>2. /\ b \in Backends /\ n \in Nat /\ p \in Nat /\ p <= n /\ BufferSize \in Nat
      /\ q \in Nat /\ at.count = q /\ at.buffer \in Nat
      /\ at.csb = Smaller(q, BufferSize) /\ at.csb \in Nat
  BY DEF ReadsAt, ReadPositionAt, SizeAssumption, Smaller
<1>3. b1 \in Backends
  <2>1. at.buffer \in Int /\ at.count \in Int
    BY <1>2
  <2> QED BY <1>2, <2>1 DEF Backends
<1>4. /\ b1.buffer_read_index = at.buffer /\ b1.count_read_index = q
      /\ b1.rfailed = b.rfailed /\ b1.mem = b.mem /\ b1.csb = b.csb
  <2>1. b1.buffer_read_index = at.buffer /\ b1.count_read_index = at.count
    BY <1>2 DEF Backends
  <2>2. b1.rfailed = b.rfailed /\ b1.mem = b.mem /\ b1.csb = b.csb
    BY <1>2 DEF Backends
  <2> QED BY <1>2, <2>1, <2>2
<1>5. SameWriting(b1, b)
  BY <1>2 DEF Backends, SameWriting
<1> HIDE DEF b1
<1>6. /\ m \in Memories /\ m.memory = b.mem.memory /\ m.pptr = b.mem.pptr
      /\ n <= BufferSize => m.gptr = q
  <2>1. b1.mem \in Memories
    BY <1>3 DEF Backends
  <2>2. CASE n > BufferSize
    <3>1. b1.rfailed = TRUE
      BY <1>4, <2>2 DEF ReadsAt
    <3>2. ~(n <= BufferSize)
      BY <1>2, <2>2
    <3> QED BY <1>4, <2>1, <3>1, <3>2
  <2>3. CASE n <= BufferSize
    <3>1. ~b1.rfailed
      <4>1. ~(n > BufferSize)
        BY <1>2, <2>3
      <4> QED BY <1>4, <4>1 DEF ReadsAt
    <3>2. at.mem = q /\ q \in 0..BufferSize /\ q # -1
      BY <1>2, <2>3 DEF ReadPositionAt
    <3>3. Mem!Place(b1.mem.gptr, at.mem, "beg") = q
      BY <3>2 DEF Mem!Place
    <3>4. m = [b1.mem EXCEPT !.gptr = q]
      BY <3>1, <3>2, <3>3 DEF Mem!seekoff_in
    <3>5. q \in Int
      BY <1>2
    <3> HIDE DEF m
    <3> QED BY <1>4, <2>1, <3>4, <3>5 DEF Memories
  <2> QED BY <1>2, <2>2, <2>3
<1>7. /\ s \in Countings /\ s.read_pos = at.csb /\ s.gptr = b.csb.gptr
      /\ s.write_pos = b.csb.write_pos /\ s.length = b.csb.length
      /\ s.total_bytes_written = b.csb.total_bytes_written
  <2>1. b1.csb \in Countings
    BY <1>3 DEF Backends
  <2>2. s = [b1.csb EXCEPT !.read_pos = at.csb]
    BY DEF Csb!seekoff_in, Csb!Place
  <2> HIDE DEF s
  <2> QED BY <1>2, <1>4, <2>1, <2>2 DEF Countings
<1> HIDE DEF m, s
<1>8. c \in Backends /\ c.mem = m /\ c.csb = s
  BY <1>3, <1>6, <1>7 DEF Backends
<1>9. /\ c.buffer_read_index = at.buffer /\ c.count_read_index = q
      /\ c.rfailed = b.rfailed
  BY <1>3, <1>4 DEF Backends
<1>10. SameWriting(c, b)
  BY <1>3, <1>4, <1>5, <1>6, <1>7, <1>8 DEF SameWriting, Backends
<1> HIDE DEF c
<1>11. s.gptr \in at.csb..BufferSize
  <2>1. b.csb.gptr \in Smaller(p, BufferSize)..BufferSize
    BY DEF ReadsAt
  <2>2. Smaller(q, BufferSize) <= Smaller(p, BufferSize)
        /\ Smaller(q, BufferSize) \in Nat /\ Smaller(p, BufferSize) \in Nat
    BY <1>2 DEF Smaller
  <2> QED BY <1>2, <1>7, <2>1, <2>2
<1>12. n <= BufferSize => c.buffer_read_index = q /\ c.mem.gptr = q
  BY <1>6, <1>8, <1>9 DEF ReadPositionAt
<1>13. q <= n
  BY <1>2
<1>14. ReadsAt(c, q, n)
  BY <1>2, <1>7, <1>8, <1>9, <1>11, <1>12, <1>13 DEF ReadsAt
<1> QED BY <1>1, <1>10, <1>14

-----------------------------------------------------------------------------
(* The bits of the calls, one after the other.                             *)
(* Induction over the natural numbers, for a set.                          *)
LEMMA Induction ==
  ASSUME NEW S, 0 \in S, \A n \in Nat : n \in S => n + 1 \in S
  PROVE  Nat \subseteq S
<1> DEFINE T == Nat \ S
           R == OpToRel(<, Nat)
<1>1. SUFFICES ASSUME T # {} PROVE FALSE
  OBVIOUS
<1>2. IsWellFoundedOn(R, Nat)
  BY NatLessThanWellFounded
<1>3. T \subseteq Nat
  OBVIOUS
<1>4. PICK x \in T : \A y \in T : ~ (<<y, x>> \in R)
  <2> HIDE DEF T, R
  <2> QED BY <1>1, <1>2, <1>3, WFMin
<1>5. \A y \in T : ~(y < x)
  BY <1>4 DEF OpToRel
<1> HIDE DEF R
<1>6. x # 0 /\ x - 1 \in Nat /\ x - 1 < x
  OBVIOUS
<1>7. x - 1 \in S
  BY <1>5, <1>6
<1> QED BY <1>6, <1>7

Joins(f, s, n) == /\ f \in [1..n -> Seq(Bit)] /\ f[1] = s[1]
                  /\ \A i \in 2..n : f[i] = f[i-1] \o s[i]

LEMMA JoinMore ==
  ASSUME NEW s, NEW n \in Nat \ {0}, NEW f, Joins(f, s, n), s[n+1] \in Seq(Bit)
  PROVE  \E g : Joins(g, s, n + 1)
<1> DEFINE last == f[n] \o s[n+1]
           g == [i \in 1..n+1 |-> IF i <= n THEN f[i] ELSE last]
<1>1. f \in [1..n -> Seq(Bit)] /\ n \in 1..n /\ 1 \in 1..n
  BY DEF Joins
<1>2. last \in Seq(Bit)
  BY <1>1, ConcatProperties
<1>3. (\A i \in 1..n : g[i] = f[i]) /\ g[n+1] = last
  <2>1. (\A i \in 1..n : i \in 1..n+1 /\ i <= n) /\ n + 1 \in 1..n+1 /\ ~(n + 1 <= n)
    OBVIOUS
  <2> HIDE DEF last
  <2> QED BY <2>1, Zenon
<1>4. last = g[n] \o s[n+1]
  BY <1>1, <1>3
<1>5. g \in [1..n+1 -> Seq(Bit)]
  BY <1>1, <1>2
<1> HIDE DEF g, last
<1>6. \A i \in 2..n+1 : g[i] = g[i-1] \o s[i]
  <2> TAKE i \in 2..n+1
  <2>1. CASE i = n + 1
    <3>1. i - 1 = n
      BY <2>1
    <3> QED BY <1>3, <1>4, <2>1, <3>1
  <2>2. CASE i # n + 1
    <3>1. i \in 2..n /\ i \in 1..n /\ i - 1 \in 1..n
      BY <2>2
    <3>2. f[i] = f[i-1] \o s[i]
      BY <3>1 DEF Joins
    <3> QED BY <1>3, <3>1, <3>2
  <2> QED BY <2>1, <2>2
<1>7. g[1] = s[1]
  BY <1>1, <1>3 DEF Joins
<1>8. Joins(g, s, n + 1)
  BY <1>5, <1>6, <1>7 DEF Joins
<1> QED BY <1>8

LEMMA FlattenIs ==
  ASSUME NEW s \in Seq(Seq(Bit)), Len(s) # 0
  PROVE  \E f : Joins(f, s, Len(s)) /\ FlattenSeq(s) = f[Len(s)]
<1> DEFINE N == Len(s)
           Is(g) == g = [i \in 1..N |-> IF i = 1 THEN s[i] ELSE g[i-1] \o s[i]]
           flat == CHOOSE g : Is(g)
           Good(n) == \E f : Joins(f, s, n)
           S == {n \in Nat : 1 <= n /\ n <= N => Good(n)}
<1>1. N \in Nat /\ N >= 1 /\ \A i \in 1..N : s[i] \in Seq(Bit)
  BY LenProperties, ElementOfSeq
<1>2. FlattenSeq(s) = flat[N]
  BY DEF FlattenSeq
<1> HIDE DEF N, flat, Good
<1>3. 0 \in S
  OBVIOUS
<1>4. ASSUME NEW n \in Nat, n \in S
      PROVE  n + 1 \in S
  <2>1. ASSUME n + 1 <= N
        PROVE  Good(n + 1)
    <3>1. n + 1 \in 1..N
      BY <1>1, <2>1
    <3>2. s[n+1] \in Seq(Bit)
      BY <1>1, <3>1
    <3>3. CASE n = 0
      <4> DEFINE f == [i \in 1..1 |-> s[1]]
      <4>1. Joins(f, s, 1)
        BY <3>2, <3>3 DEF Joins
      <4> QED BY <3>3, <4>1 DEF Good
    <3>4. CASE n # 0
      <4>1. Good(n) /\ n \in Nat \ {0}
        BY <1>1, <1>4, <2>1, <3>4
      <4>2. PICK f : Joins(f, s, n)
        BY <4>1 DEF Good
      <4> QED BY <3>2, <4>1, <4>2, JoinMore DEF Good
    <3> QED BY <3>3, <3>4
  <2> QED BY <2>1
<1>5. Good(N)
  <2>1. N \in S
    <3> HIDE DEF S
    <3> QED BY <1>1, <1>3, <1>4, Induction
  <2> QED BY <1>1, <2>1
<1>6. PICK f : Joins(f, s, N)
  BY <1>5 DEF Good
<1>7. f = [i \in 1..N |-> f[i]] /\ f[1] = s[1]
  BY <1>6 DEF Joins
<1>8. \A i \in 2..N : f[i] = f[i-1] \o s[i]
  BY <1>6 DEF Joins
<1>9. Is(f)
  <2>1. \A i \in 1..N : f[i] = IF i = 1 THEN s[i] ELSE f[i-1] \o s[i]
    <3> TAKE i \in 1..N
    <3>1. i = 1 \/ (i # 1 /\ i \in 2..N)
      BY <1>1
    <3> QED BY <1>7, <1>8, <3>1
  <2> QED BY <1>7, <2>1
<1>10. Is(flat)
  BY <1>9 DEF flat
<1>11. \A i \in 1..N : flat[i] = IF i = 1 THEN s[i] ELSE flat[i-1] \o s[i]
  BY <1>10
<1> DEFINE T == {n \in Nat : 1 <= n /\ n <= N => flat[n] = f[n]}
<1>12. 0 \in T
  OBVIOUS
<1>13. ASSUME NEW n \in Nat, n \in T
       PROVE  n + 1 \in T
  <2>1. ASSUME n + 1 <= N
        PROVE  flat[n+1] = f[n+1]
    <3>1. n + 1 \in 1..N /\ (n + 1) - 1 = n
      BY <1>1, <2>1
    <3>2. CASE n = 0
      BY <1>7, <1>11, <3>1, <3>2
    <3>3. CASE n # 0
      <4>1. n + 1 # 1 /\ n + 1 \in 2..N /\ 1 <= n /\ n <= N
        BY <1>1, <3>1, <3>3
      <4>2. flat[n] = f[n]
        BY <1>13, <4>1
      <4>3. f[n+1] = f[n] \o s[n+1]
        BY <1>8, <3>1, <4>1
      <4>4. flat[n+1] = flat[n] \o s[n+1]
        BY <1>11, <3>1, <4>1
      <4> QED BY <4>2, <4>3, <4>4
    <3> QED BY <3>2, <3>3
  <2> QED BY <2>1
<1>14. flat[N] = f[N]
  <2>1. N \in T
    <3> HIDE DEF T
    <3> QED BY <1>1, <1>12, <1>13, Induction
  <2> QED BY <1>1, <2>1
<1> QED BY <1>2, <1>6, <1>14 DEF N

LEMMA FlattenAppend ==
  ASSUME NEW s \in Seq(Seq(Bit)), NEW t \in Seq(Seq(Bit)), Len(t) = Len(s) + 1,
         \A i \in 1..Len(s) : t[i] = s[i]
  PROVE  FlattenSeq(t) = FlattenSeq(s) \o t[Len(t)]
<1> DEFINE N == Len(s)
<1>1. N \in Nat /\ Len(t) = N + 1 /\ t[1] \in Seq(Bit)
  BY LenProperties, ElementOfSeq
<1> HIDE DEF N
<1>2. PICK g : /\ g \in [1..N+1 -> Seq(Bit)]
               /\ g[1] = t[1] /\ \A i \in 2..N+1 : g[i] = g[i-1] \o t[i]
               /\ FlattenSeq(t) = g[N+1]
  <2>1. Len(t) # 0
    BY <1>1
  <2> QED BY <1>1, <2>1, FlattenIs DEF Joins
<1>3. CASE N = 0
  <2>1. s = <<>> /\ FlattenSeq(s) = <<>>
    <3>1. s = <<>>
      BY <1>3, EmptySeq DEF N
    <3> QED BY <3>1 DEF FlattenSeq
  <2>2. <<>> \o t[1] = t[1]
    BY <1>1, ConcatEmptySeq
  <2> QED BY <1>1, <1>2, <1>3, <2>1, <2>2
<1>4. CASE N # 0
  <2>1. PICK f : /\ f \in [1..N -> Seq(Bit)]
                 /\ f[1] = s[1] /\ \A i \in 2..N : f[i] = f[i-1] \o s[i]
                 /\ FlattenSeq(s) = f[N]
    BY <1>4, FlattenIs DEF N, Joins
  <2>2. \A i \in 1..N : t[i] = s[i]
    BY DEF N
  <2> DEFINE S == {n \in Nat : 1 <= n /\ n <= N => g[n] = f[n]}
  <2>3. 0 \in S
    OBVIOUS
  <2>4. ASSUME NEW n \in Nat, n \in S
        PROVE  n + 1 \in S
    <3> SUFFICES ASSUME n + 1 <= N
                 PROVE  g[n+1] = f[n+1]
      OBVIOUS
    <3>1. n + 1 \in 1..N /\ (n + 1) - 1 = n
      BY <1>1
    <3>2. CASE n = 0
      BY <1>2, <2>1, <2>2, <3>1, <3>2
    <3>3. CASE n # 0
      <4>1. n + 1 \in 2..N /\ n + 1 \in 2..N+1 /\ 1 <= n /\ n <= N
        BY <1>1, <3>1, <3>3
      <4>2. g[n] = f[n]
        BY <2>4, <4>1
      <4>3. g[n+1] = g[n] \o t[n+1] /\ f[n+1] = f[n] \o s[n+1]
        BY <1>2, <2>1, <3>1, <4>1
      <4> QED BY <2>2, <3>1, <4>2, <4>3
    <3> QED BY <3>2, <3>3
  <2>5. N \in S
    <3> HIDE DEF S
    <3> QED BY <1>1, <2>3, <2>4, Induction
  <2>6. g[N] = f[N] /\ N + 1 \in 2..N+1 /\ (N + 1) - 1 = N
    BY <1>1, <1>4, <2>5
  <2>7. g[N+1] = g[N] \o t[N+1]
    BY <1>2, <2>6
  <2> QED BY <1>1, <1>2, <2>1, <2>6, <2>7
<1> QED BY <1>3, <1>4

LEMMA FlattenLength ==
  ASSUME NEW s \in Seq(Seq(Bit)), NEW t \in Seq(Seq(Bit)), Len(t) = Len(s),
         \A i \in 1..Len(s) : Len(t[i]) = Len(s[i])
  PROVE  Len(FlattenSeq(t)) = Len(FlattenSeq(s))
<1> DEFINE N == Len(s)
<1>1. /\ N \in Nat /\ Len(t) = N /\ (\A i \in 1..N : Len(t[i]) = Len(s[i]))
      /\ \A i \in 1..N : t[i] \in Seq(Bit) /\ s[i] \in Seq(Bit)
  BY LenProperties, ElementOfSeq
<1>2. CASE N = 0
  <2>1. s = <<>> /\ t = <<>>
    BY <1>1, <1>2, EmptySeq
  <2> QED BY <2>1
<1>3. CASE N # 0
  <2>1. PICK f : /\ f \in [1..N -> Seq(Bit)]
                 /\ f[1] = s[1] /\ \A i \in 2..N : f[i] = f[i-1] \o s[i]
                 /\ FlattenSeq(s) = f[N]
    BY <1>3, FlattenIs DEF Joins
  <2>2. PICK g : /\ g \in [1..N -> Seq(Bit)]
                 /\ g[1] = t[1] /\ \A i \in 2..N : g[i] = g[i-1] \o t[i]
                 /\ FlattenSeq(t) = g[N]
    BY <1>1, <1>3, FlattenIs DEF Joins
  <2> HIDE DEF N
  <2> DEFINE S == {n \in Nat : 1 <= n /\ n <= N => Len(g[n]) = Len(f[n])}
  <2>3. 0 \in S
    OBVIOUS
  <2>4. ASSUME NEW n \in Nat, n \in S
        PROVE  n + 1 \in S
    <3> SUFFICES ASSUME n + 1 <= N
                 PROVE  Len(g[n+1]) = Len(f[n+1])
      OBVIOUS
    <3>1. n + 1 \in 1..N /\ (n + 1) - 1 = n
      BY <1>1
    <3>2. CASE n = 0
      BY <1>1, <2>1, <2>2, <3>1, <3>2
    <3>3. CASE n # 0
      <4>1. n + 1 \in 2..N /\ n \in 1..N /\ 1 <= n /\ n <= N
        BY <1>1, <3>1, <3>3
      <4>1a. Len(g[n]) = Len(f[n])
        BY <2>4, <4>1
      <4>2. g[n+1] = g[n] \o t[n+1] /\ f[n+1] = f[n] \o s[n+1]
        BY <2>1, <2>2, <3>1, <4>1
      <4>3. /\ Len(g[n] \o t[n+1]) = Len(g[n]) + Len(t[n+1])
            /\ Len(f[n] \o s[n+1]) = Len(f[n]) + Len(s[n+1])
        <5>1. /\ g[n] \in Seq(Bit) /\ f[n] \in Seq(Bit)
              /\ t[n+1] \in Seq(Bit) /\ s[n+1] \in Seq(Bit)
          BY <1>1, <2>1, <2>2, <3>1, <4>1
        <5> QED BY <5>1, ConcatProperties
      <4> QED BY <1>1, <3>1, <4>1a, <4>2, <4>3
    <3> QED BY <3>2, <3>3
  <2>5. N \in S
    <3> HIDE DEF S
    <3> QED BY <1>1, <2>3, <2>4, Induction
  <2> QED BY <1>1, <1>3, <2>1, <2>2, <2>5
<1> QED BY <1>2, <1>3

LEMMA FlattenType ==
  ASSUME NEW s \in Seq(Seq(Bit))
  PROVE  FlattenSeq(s) \in Seq(Bit)
<1>1. CASE Len(s) = 0
  <2>1. s = <<>>
    BY <1>1, EmptySeq
  <2> QED BY <2>1 DEF FlattenSeq
<1>2. CASE Len(s) # 0
  <2>1. Len(s) \in 1..Len(s)
    BY <1>2, LenProperties
  <2>2. PICK f : Joins(f, s, Len(s)) /\ FlattenSeq(s) = f[Len(s)]
    BY <1>2, FlattenIs
  <2> QED BY <2>1, <2>2 DEF Joins
<1> QED BY <1>1, <1>2

-----------------------------------------------------------------------------
(* The calls of a program without bitStream: what each puts on the wire,   *)
(* and how far it moves the backends.  A call may be of any kind but bits, *)
(* which throws.                                                           *)
Plain == AllKinds \ {"bits"}
Width(kind) == CASE kind = "bit" -> 1
                 [] kind \in {"byte", "bool"} -> ByteBits
                 [] kind = "value" -> 2 * ByteBits
Bytes(kind) == IF kind = "value" THEN 2 ELSE 1

LEMMA ByteIsSeq ==
  ASSUME SizeAssumption
  PROVE  /\ Byte \subseteq Seq(Bit) /\ \A x \in Byte : Len(x) = ByteBits
         /\ Blank \in Byte /\ \A x \in Bit : Bool(x) \in Byte
BY DEF Byte, Blank, Bool, Bit, SizeAssumption

LEMMA PayloadIs ==
  ASSUME SizeAssumption, NEW kind \in Plain, NEW bits \in Payloads(kind)
  PROVE  /\ bits \in Seq(Bit)
         /\ kind \in {"bit", "bool"} => Len(bits) = 1 /\ bits[1] \in Bit
         /\ kind = "byte" => bits \in Byte
         /\ kind = "value" => Len(bits) = 2 * ByteBits
         /\ Flipped(bits) \in Payloads(kind)
<1>1. CASE kind \in {"bit", "bool"}
  <2>1. bits \in [1..1 -> Bit] /\ Payloads(kind) = [1..1 -> Bit]
    BY <1>1 DEF Payloads
  <2>2. Flipped(bits) \in [1..1 -> Bit]
    BY <2>1 DEF Flipped, Bit
  <2>3. bits \in Seq(Bit) /\ Len(bits) = 1 /\ bits[1] \in Bit
    <3> DEFINE one == 1
    <3>1. one \in Nat /\ one \in 1..one
      OBVIOUS
    <3>2. bits \in [1..one -> Bit]
      BY <2>1
    <3> HIDE DEF one
    <3>3. bits \in Seq(Bit) /\ Len(bits) = one /\ bits[one] \in Bit
      BY <3>1, <3>2
    <3> QED BY <3>3 DEF one
  <2>4. kind # "byte" /\ kind # "value"
    BY <1>1
  <2> QED BY <2>1, <2>2, <2>3, <2>4
<1>2. CASE kind = "byte"
  <2>1. bits \in Byte /\ Payloads(kind) = Byte
    BY <1>2 DEF Payloads
  <2>2. Flipped(bits) \in Byte
    BY <2>1 DEF Flipped, Bit, Byte
  <2> QED BY <1>2, <2>1, <2>2, ByteIsSeq
<1>3. CASE kind = "value"
  <2>1. bits \in [1..2*ByteBits -> Bit] /\ Payloads(kind) = [1..2*ByteBits -> Bit]
    BY <1>3 DEF Payloads
  <2>2. Flipped(bits) \in [1..2*ByteBits -> Bit]
    BY <2>1 DEF Flipped, Bit
  <2>3. 2 * ByteBits \in Nat
    BY DEF SizeAssumption
  <2>4. bits \in Seq(Bit) /\ Len(bits) = 2 * ByteBits
    BY <2>1, <2>3
  <2> QED BY <1>3, <2>1, <2>2, <2>4
<1> QED BY <1>1, <1>2, <1>3 DEF Plain, AllKinds

(* A log of such calls, and how many bits it puts on the wire.             *)
Places == [buffer : Int, count : Int, mem : Int, csb : Int]
Ops == [kind : Plain, bits : Seq(Bit), at : Places]
Logs == {l \in Seq(Ops) : \A i \in 1..Len(l) : l[i].bits \in Payloads(l[i].kind)}

WireOf(op) == IF op.kind = "bool" THEN Bool(op.bits[1]) ELSE op.bits
Wires(l) == [i \in 1..Len(l) |-> WireOf(l[i])]
Total(l) == Len(FlattenSeq(Wires(l)))

LEMMA WireIs ==
  ASSUME SizeAssumption, NEW op, op.kind \in Plain, op.bits \in Payloads(op.kind)
  PROVE  WireOf(op) \in Seq(Bit) /\ Len(WireOf(op)) = Width(op.kind)
<1>1. /\ op.bits \in Seq(Bit)
      /\ op.kind \in {"bit", "bool"} => Len(op.bits) = 1 /\ op.bits[1] \in Bit
      /\ op.kind = "byte" => op.bits \in Byte
      /\ op.kind = "value" => Len(op.bits) = 2 * ByteBits
  BY PayloadIs
<1>2. CASE op.kind = "bool"
  <2>1. WireOf(op) = Bool(op.bits[1])
    BY <1>2 DEF WireOf
  <2> QED BY <1>1, <1>2, <2>1, ByteIsSeq DEF Width
<1>3. CASE op.kind # "bool"
  <2>1. WireOf(op) = op.bits
    BY <1>3 DEF WireOf
  <2> QED BY <1>1, <1>3, <2>1, ByteIsSeq DEF Width, Plain, AllKinds
<1> QED BY <1>2, <1>3

LEMMA WiresIs ==
  ASSUME SizeAssumption, NEW l \in Logs
  PROVE  /\ l \in Seq(Ops) /\ Len(l) \in Nat /\ Wires(l) \in Seq(Seq(Bit))
         /\ Len(Wires(l)) = Len(l)
         /\ \A i \in 1..Len(l) : /\ l[i] \in Ops /\ l[i].bits \in Payloads(l[i].kind)
                                 /\ Wires(l)[i] = WireOf(l[i])
                                 /\ Len(Wires(l)[i]) = Width(l[i].kind)
<1>1. l \in Seq(Ops) /\ \A i \in 1..Len(l) : l[i].bits \in Payloads(l[i].kind)
  BY DEF Logs
<1>2. Len(l) \in Nat /\ \A i \in 1..Len(l) : l[i] \in Ops
  BY <1>1, LenProperties, ElementOfSeq
<1>3. \A i \in 1..Len(l) :
        WireOf(l[i]) \in Seq(Bit) /\ Len(WireOf(l[i])) = Width(l[i].kind)
  <2> TAKE i \in 1..Len(l)
  <2>1. l[i].kind \in Plain
    BY <1>2 DEF Ops
  <2> QED BY <1>1, <2>1, WireIs
<1>4. Wires(l) \in [1..Len(l) -> Seq(Bit)]
  BY <1>3 DEF Wires
<1>5. Wires(l) \in Seq(Seq(Bit)) /\ Len(Wires(l)) = Len(l)
  BY <1>2, <1>4
<1>6. \A i \in 1..Len(l) : Wires(l)[i] = WireOf(l[i])
  BY DEF Wires
<1> QED BY <1>1, <1>2, <1>3, <1>5, <1>6

LEMMA TotalType ==
  ASSUME SizeAssumption, NEW l \in Logs
  PROVE  Total(l) \in Nat
BY WiresIs, FlattenType, LenProperties DEF Total

LEMMA TotalOfNone ==
  <<>> \in Logs /\ Total(<<>>) = 0
<1>1. Wires(<<>>) = <<>>
  BY DEF Wires
<1>2. FlattenSeq(<<>>) = <<>>
  BY DEF FlattenSeq
<1> QED BY <1>1, <1>2 DEF Logs, Total

LEMMA TotalAppend ==
  ASSUME SizeAssumption, NEW l \in Logs, NEW op \in Ops, op.bits \in Payloads(op.kind)
  PROVE  /\ Append(l, op) \in Logs /\ Len(Append(l, op)) = Len(l) + 1
         /\ \A i \in 1..Len(l) : Append(l, op)[i] = l[i]
         /\ Append(l, op)[Len(l) + 1] = op
         /\ Total(Append(l, op)) = Total(l) + Width(op.kind)
<1> DEFINE m == Append(l, op)
           n == Len(l)
<1>1. l \in Seq(Ops) /\ n \in Nat
  BY WiresIs
<1>2. /\ m \in Seq(Ops) /\ Len(m) = n + 1 /\ m[n+1] = op
      /\ \A i \in 1..n : m[i] = l[i]
  BY <1>1, AppendProperties
<1> HIDE DEF m, n
<1>3. m \in Logs
  <2>1. \A i \in 1..n+1 : i \in 1..n \/ i = n + 1
    BY <1>1
  <2>2. \A i \in 1..n : l[i].bits \in Payloads(l[i].kind)
    BY DEF Logs, n
  <2>3. \A i \in 1..n+1 : m[i].bits \in Payloads(m[i].kind)
    BY <1>2, <2>1, <2>2
  <2> QED BY <1>2, <2>3 DEF Logs
<1> DEFINE s == Wires(l)
           t == Wires(m)
<1>4. /\ s \in Seq(Seq(Bit)) /\ Len(s) = n
      /\ \A i \in 1..n : s[i] = WireOf(l[i])
  BY WiresIs DEF n
<1>5. /\ t \in Seq(Seq(Bit)) /\ Len(t) = n + 1
      /\ \A i \in 1..n+1 : t[i] = WireOf(m[i])
  BY <1>2, <1>3, WiresIs
<1> HIDE DEF s, t
<1>6. \A i \in 1..n : t[i] = s[i]
  <2> TAKE i \in 1..n
  <2>1. i \in 1..n+1
    BY <1>1
  <2> QED BY <1>2, <1>4, <1>5, <2>1
<1>7. FlattenSeq(t) = FlattenSeq(s) \o t[n+1]
  BY <1>4, <1>5, <1>6, FlattenAppend
<1>8. t[n+1] = WireOf(op)
  <2>1. n + 1 \in 1..n+1
    BY <1>1
  <2> QED BY <1>2, <1>5, <2>1
<1>9. WireOf(op) \in Seq(Bit) /\ Len(WireOf(op)) = Width(op.kind)
  BY WireIs DEF Ops
<1>10. FlattenSeq(s) \in Seq(Bit)
  BY <1>4, FlattenType
<1>11. Len(FlattenSeq(s) \o t[n+1]) = Len(FlattenSeq(s)) + Width(op.kind)
  <2>1. t[n+1] \in Seq(Bit) /\ Len(t[n+1]) = Width(op.kind)
    BY <1>8, <1>9
  <2>2. Len(FlattenSeq(s) \o t[n+1]) = Len(FlattenSeq(s)) + Len(t[n+1])
    BY <1>10, <2>1, ConcatProperties
  <2> QED BY <2>1, <2>2
<1>12. Total(m) = Total(l) + Width(op.kind)
  BY <1>7, <1>11 DEF Total, s, t
<1> QED BY <1>2, <1>3, <1>12 DEF m, n

LEMMA TotalPatch ==
  ASSUME SizeAssumption, NEW l \in Logs, NEW i \in 1..Len(l)
  PROVE  LET m == [l EXCEPT ![i].bits = Flipped(@)]
         IN  /\ m \in Logs /\ Len(m) = Len(l) /\ Total(m) = Total(l)
             /\ \A j \in 1..Len(l) : m[j].kind = l[j].kind /\ m[j].at = l[j].at
<1> DEFINE op == l[i]
           new == [op EXCEPT !.bits = Flipped(@)]
           m == [l EXCEPT ![i] = new]
           n == Len(l)
<1>1. /\ l \in Seq(Ops) /\ n \in Nat /\ op \in Ops /\ op.bits \in Payloads(op.kind)
      /\ \A j \in 1..n : l[j] \in Ops /\ l[j].bits \in Payloads(l[j].kind)
  BY WiresIs
<1>2. [l EXCEPT ![i].bits = Flipped(@)] = m
  OBVIOUS
<1>3. op.kind \in Plain
  BY <1>1 DEF Ops
<1>4. Flipped(op.bits) \in Payloads(op.kind) /\ Flipped(op.bits) \in Seq(Bit)
  BY <1>1, <1>3, PayloadIs
<1> HIDE DEF op
<1>5. new \in Ops /\ new.kind = op.kind /\ new.at = op.at
      /\ new.bits \in Payloads(new.kind)
  BY <1>1, <1>4 DEF Ops
<1> HIDE DEF new
<1>6. /\ m \in Seq(Ops) /\ Len(m) = n /\ m[i] = new
      /\ \A j \in 1..n : j # i => m[j] = l[j]
  BY <1>1, <1>5, ExceptSeq
<1> HIDE DEF m
<1>7. \A j \in 1..n : /\ m[j].kind = l[j].kind /\ m[j].at = l[j].at
                      /\ m[j].bits \in Payloads(m[j].kind)
  <2> TAKE j \in 1..n
  <2>1. CASE j = i
    BY <1>5, <1>6, <2>1 DEF op
  <2>2. CASE j # i
    BY <1>1, <1>6, <2>2
  <2> QED BY <2>1, <2>2
<1>8. m \in Logs
  BY <1>6, <1>7 DEF Logs
<1>9. \A j \in 1..n : Len(Wires(m)[j]) = Len(Wires(l)[j])
  BY <1>6, <1>7, <1>8, WiresIs DEF n
<1>10. /\ Wires(m) \in Seq(Seq(Bit)) /\ Wires(l) \in Seq(Seq(Bit))
       /\ Len(Wires(m)) = Len(Wires(l)) /\ Len(Wires(l)) = n
  BY <1>6, <1>8, WiresIs DEF n
<1>11. Total(m) = Total(l)
  BY <1>9, <1>10, FlattenLength DEF Total
<1> QED BY <1>2, <1>6, <1>7, <1>8, <1>11

(* The writing Serial, as it may also be inside WriteBit, and what it does *)
(* to the backends when it puts k bytes.                                   *)
Writers == [byte : Byte, bits : Nat, b : Backends]
Moves(a, b, p, n, k) ==
  /\ WritesAt(b, p + k, Larger(n, p + k)) /\ SameReading(b, a)
  /\ b.count_write = a.count_write + k /\ Len(a.buffer) <= Len(b.buffer)

LEMMA WriteBytesIs ==
  ASSUME SizeAssumption, ~bitStream, NEW s \in Writers, NEW p, NEW n,
         WritesAt(s.b, p, n), NEW bytes \in Seq(Byte)
  PROVE  LET t == WriteBytes(s, bytes)
         IN  /\ t \in Writers /\ t.byte = s.byte /\ t.bits = s.bits
             /\ Moves(s.b, t.b, p, n, Len(bytes))
<1> DEFINE b == WriteAll(s.b, bytes)
           t == [s EXCEPT !.b = b]
<1>1. WriteBytes(s, bytes) = t
  BY DEF WriteBytes
<1>2. Moves(s.b, b, p, n, Len(bytes))
  BY WriteAllMoves DEF Moves
<1>3. b \in Backends
  BY <1>2 DEF Moves, WritesAt
<1> HIDE DEF b
<1>4. t \in Writers /\ t.byte = s.byte /\ t.bits = s.bits /\ t.b = b
  BY <1>3 DEF Writers
<1> QED BY <1>1, <1>2, <1>4

LEMMA PutByteIs ==
  ASSUME SizeAssumption, ~bitStream, NEW s \in Writers, NEW p, NEW n,
         WritesAt(s.b, p, n), NEW byte \in Byte
  PROVE  LET t == PutByte(s, byte)
         IN  t \in Writers /\ t.bits = 0 /\ Moves(s.b, t.b, p, n, 1)
<1> DEFINE u == WriteBytes(s, <<byte>>)
           t == [u EXCEPT !.byte = Blank, !.bits = 0]
<1>1. PutByte(s, byte) = t
  BY DEF PutByte
<1>2. <<byte>> \in Seq(Byte) /\ Len(<<byte>>) = 1
  OBVIOUS
<1>3. u \in Writers /\ Moves(s.b, u.b, p, n, 1)
  BY <1>2, WriteBytesIs
<1>4. Blank \in Byte
  BY ByteIsSeq
<1> HIDE DEF u
<1>5. t \in Writers /\ t.bits = 0 /\ t.b = u.b
  BY <1>3, <1>4 DEF Writers
<1> QED BY <1>1, <1>3, <1>5

LEMMA WriteBitIs ==
  ASSUME SizeAssumption, ~bitStream, NEW s \in Writers, s.bits < ByteBits,
         NEW p, NEW n, WritesAt(s.b, p, n), NEW x \in Bit
  PROVE  LET t == WriteBit(s, x)
         IN  /\ t \in Writers /\ t.bits < ByteBits
             /\ \E k \in {0, 1} : /\ Moves(s.b, t.b, p, n, k)
                                  /\ s.bits + 1 = ByteBits * k + t.bits
<1> DEFINE byte == [s.byte EXCEPT ![s.bits + 1] = IF @ = 1 THEN 1 ELSE x]
           more == [s EXCEPT !.byte = byte, !.bits = @ + 1]
           t == WriteBit(s, x)
<1>1. ByteBits \in Nat /\ ByteBits > 0 /\ s.byte \in Byte /\ s.bits \in Nat
  BY DEF SizeAssumption, Writers
<1>2. byte \in Byte
  BY <1>1 DEF Byte, Bit
<1>3. t = IF more.bits = ByteBits THEN PutByte(more, byte) ELSE more
  BY DEF WriteBit
<1> HIDE DEF byte
<1>4. more \in Writers /\ more.bits = s.bits + 1 /\ more.b = s.b
  <2>1. s.bits + 1 \in Nat
    BY <1>1
  <2> QED BY <1>2, <2>1 DEF Writers
<1> HIDE DEF more, t
<1>5. CASE s.bits + 1 = ByteBits
  <2>1. t = PutByte(more, byte)
    BY <1>3, <1>4, <1>5
  <2>2. t \in Writers /\ t.bits = 0 /\ Moves(s.b, t.b, p, n, 1)
    BY <1>2, <1>4, <2>1, PutByteIs
  <2>3. s.bits + 1 = ByteBits * 1 + t.bits
    BY <1>1, <1>5, <2>2
  <2> QED BY <1>1, <2>2, <2>3 DEF t
<1>6. CASE s.bits + 1 # ByteBits
  <2>1. t = more
    BY <1>3, <1>4, <1>6
  <2>2. Moves(s.b, s.b, p, n, 0)
    <3>1. /\ p \in Nat /\ n \in Nat /\ p <= n /\ s.b \in Backends
      BY DEF WritesAt
    <3>2. p + 0 = p /\ Larger(n, p) = n
      BY <3>1 DEF Larger
    <3>3. s.b.count_write \in Int /\ Len(s.b.buffer) \in Nat
      BY <3>1, LenProperties DEF Backends
    <3> QED BY <3>2, <3>3 DEF Moves, SameReading
  <2>3. t.bits = s.bits + 1 /\ t.bits < ByteBits /\ s.bits + 1 = ByteBits * 0 + t.bits
    BY <1>1, <1>4, <1>6, <2>1
  <2> QED BY <1>4, <2>1, <2>2, <2>3 DEF t
<1> QED BY <1>5, <1>6

(* Every call: whole bytes, which nothing may be pending for, or one bit.  *)
LEMMA WriteIs ==
  ASSUME SizeAssumption, ~bitStream, NEW s \in Writers, s.bits < ByteBits,
         NEW p, NEW n, WritesAt(s.b, p, n),
         NEW kind \in Plain, NEW bits \in Payloads(kind), Whole(kind) => s.bits = 0
  PROVE  LET t == Write(s, kind, bits)
         IN  /\ t \in Writers /\ t.bits < ByteBits
             /\ \E k \in {0, 1, 2} : /\ Moves(s.b, t.b, p, n, k)
                                     /\ s.bits + Width(kind) = ByteBits * k + t.bits
                                     /\ Whole(kind) => k = Bytes(kind) /\ t.bits = 0
<1> DEFINE t == Write(s, kind, bits)
<1>1. /\ ByteBits \in Nat /\ ByteBits > 0 /\ bits \in Seq(Bit)
      /\ kind \in {"bit", "bool"} => bits[1] \in Bit
      /\ kind = "byte" => bits \in Byte
      /\ kind = "value" => Len(bits) = 2 * ByteBits
  BY PayloadIs DEF SizeAssumption
<1>2. CASE kind = "bit"
  <2>1. t = WriteBit(s, bits[1]) /\ Width(kind) = 1 /\ ~Whole(kind)
    BY <1>2 DEF Write, Width, Whole
  <2> HIDE DEF t
  <2>2. /\ t \in Writers /\ t.bits < ByteBits
        /\ \E k \in {0, 1} : /\ Moves(s.b, t.b, p, n, k)
                             /\ s.bits + 1 = ByteBits * k + t.bits
    <3>1. bits[1] \in Bit
      BY <1>1, <1>2
    <3>2. LET u == WriteBit(s, bits[1])
          IN  /\ u \in Writers /\ u.bits < ByteBits
              /\ \E k \in {0, 1} : /\ Moves(s.b, u.b, p, n, k)
                                   /\ s.bits + 1 = ByteBits * k + u.bits
      BY <3>1, WriteBitIs
    <3> QED BY <2>1, <3>2
  <2> QED BY <2>1, <2>2 DEF t
<1>3. CASE kind \in {"byte", "bool"}
  <2> DEFINE byte == IF kind = "byte" THEN bits ELSE Bool(bits[1])
  <2>1. t = PutByte(s, byte) /\ Width(kind) = ByteBits /\ Whole(kind) /\ Bytes(kind) = 1
    BY <1>3 DEF Write, WriteByte, Width, Whole, Bytes
  <2>2. byte \in Byte
    BY <1>1, <1>3, ByteIsSeq
  <2> HIDE DEF t, byte
  <2>3. t \in Writers /\ t.bits = 0 /\ Moves(s.b, t.b, p, n, 1)
    BY <2>1, <2>2, PutByteIs
  <2>4. s.bits + ByteBits = ByteBits * 1 + t.bits
    BY <1>1, <2>1, <2>3
  <2> QED BY <1>1, <2>1, <2>3, <2>4 DEF t
<1>4. CASE kind = "value"
  <2> DEFINE bytes == <<SubSeq(bits, 1, ByteBits),
                        SubSeq(bits, ByteBits + 1, 2 * ByteBits)>>
  <2>1. t = WriteBytes(s, bytes) /\ Width(kind) = 2 * ByteBits
        /\ Whole(kind) /\ Bytes(kind) = 2
    BY <1>4 DEF Write, Width, Whole, Bytes
  <2>2. /\ SubSeq(bits, 1, ByteBits) \in Byte
        /\ SubSeq(bits, ByteBits + 1, 2 * ByteBits) \in Byte
    <3>1. \A i \in 1..2*ByteBits : bits[i] \in Bit
      BY <1>1, <1>4, ElementOfSeq
    <3>2. /\ 1 \in Int /\ ByteBits \in Int /\ ByteBits + 1 \in Int /\ 2 * ByteBits \in Int
          /\ 1 <= ByteBits /\ ByteBits - 1 + 1 = ByteBits
          /\ ByteBits + 1 <= 2 * ByteBits
          /\ 2 * ByteBits - (ByteBits + 1) + 1 = ByteBits
      BY <1>1
    <3>3. \A i \in 1..ByteBits : bits[i] \in Bit
      BY <1>1, <3>1
    <3>4. \A i \in ByteBits+1..2*ByteBits : bits[i] \in Bit
      BY <1>1, <3>1
    <3> DEFINE lo == SubSeq(bits, 1, ByteBits)
               hi == SubSeq(bits, ByteBits + 1, 2 * ByteBits)
    <3>5. lo \in Seq(Bit) /\ Len(lo) = ByteBits
      <4>1. /\ lo \in Seq(Bit)
            /\ Len(lo) = IF 1 <= ByteBits THEN ByteBits - 1 + 1 ELSE 0
        BY <3>2, <3>3, SubSeqProperties
      <4> QED BY <3>2, <4>1
    <3>6. hi \in Seq(Bit) /\ Len(hi) = ByteBits
      <4>1. /\ hi \in Seq(Bit)
            /\ Len(hi) = IF ByteBits + 1 <= 2 * ByteBits
                         THEN 2 * ByteBits - (ByteBits + 1) + 1 ELSE 0
        BY <3>2, <3>4, SubSeqProperties
      <4> QED BY <3>2, <4>1
    <3> HIDE DEF lo, hi
    <3>7. \A x \in Seq(Bit) : Len(x) = ByteBits => x \in [1..ByteBits -> Bit]
      BY LenProperties, ElementOfSeq
    <3> QED BY <3>5, <3>6, <3>7 DEF Byte, lo, hi
  <2>3. bytes \in Seq(Byte) /\ Len(bytes) = 2
    BY <2>2
  <2> HIDE DEF t, bytes
  <2>4. t \in Writers /\ t.bits = s.bits /\ Moves(s.b, t.b, p, n, 2)
    BY <2>1, <2>3, WriteBytesIs
  <2>5. t.bits = 0 /\ s.bits + 2 * ByteBits = ByteBits * 2 + t.bits
    BY <1>1, <2>1, <2>4
  <2> QED BY <1>1, <2>1, <2>4, <2>5 DEF t
<1> QED BY <1>2, <1>3, <1>4 DEF Plain, AllKinds

(* The reading Serial, and what it does when it takes k bytes.             *)
Readers == [byte : Byte, bits : 0..ByteBits, b : Backends, out : Seq(Bit)]
Takes(a, b, p, n, k) ==
  /\ ReadsAt(b, p + k, Larger(n, p + k)) /\ SameWriting(b, a)
  /\ AreaExact(a) => AreaExact(b)

LEMMA MemoryIs ==
  ASSUME SizeAssumption, NEW s \in Readers, NEW i \in Nat, i # 0
  PROVE  Memory(s, i) \in Byte
<1>1. s.b.buffer \in Seq(Byte) /\ Blank \in Byte
  BY ByteIsSeq DEF Readers, Backends
<1>2. i <= Len(s.b.buffer) => i \in 1..Len(s.b.buffer)
  BY <1>1, LenProperties
<1>3. i <= Len(s.b.buffer) => s.b.buffer[i] \in Byte
  BY <1>1, <1>2, ElementOfSeq
<1> QED BY <1>1, <1>3 DEF Memory

LEMMA ReadBytesIs ==
  ASSUME SizeAssumption, ~bitStream, NEW s \in Readers, NEW p, NEW n,
         ReadsAt(s.b, p, n), NEW k \in Nat
  PROVE  LET t == ReadBytes(s, k)
         IN  /\ t \in Readers /\ t.byte = s.byte /\ t.bits = s.bits /\ t.out = s.out
             /\ Takes(s.b, t.b, p, n, k)
<1> DEFINE b == ReadAll(s.b, k)
           t == [s EXCEPT !.b = b]
<1>1. ReadBytes(s, k) = t
  BY DEF ReadBytes
<1>2. Takes(s.b, b, p, n, k)
  BY ReadAllMoves DEF Takes
<1>3. b \in Backends
  BY <1>2 DEF Takes, ReadsAt
<1> HIDE DEF b
<1>4. t \in Readers /\ t.byte = s.byte /\ t.bits = s.bits /\ t.out = s.out /\ t.b = b
  BY <1>3 DEF Readers
<1> QED BY <1>1, <1>2, <1>4

LEMMA FetchByteIs ==
  ASSUME SizeAssumption, ~bitStream, NEW s \in Readers, NEW p, NEW n,
         ReadsAt(s.b, p, n)
  PROVE  LET t == FetchByte(s)
         IN  /\ t \in Readers /\ t.bits = 0 /\ t.out = s.out
             /\ Takes(s.b, t.b, p, n, 1)
<1> DEFINE u == ReadBytes(s, 1)
           byte == IF BufferReads(s.b, 1) THEN Memory(s, s.b.buffer_read_index + 1)
                   ELSE s.byte
           t == [u EXCEPT !.byte = byte, !.bits = 0]
<1>1. u \in Readers /\ u.byte = s.byte /\ u.out = s.out /\ Takes(s.b, u.b, p, n, 1)
  BY ReadBytesIs
<1>2. byte \in Byte
  <2>1. s.b.buffer_read_index + 1 \in Nat /\ s.b.buffer_read_index + 1 # 0
    BY DEF ReadsAt
  <2>2. Memory(s, s.b.buffer_read_index + 1) \in Byte
    BY <2>1, MemoryIs
  <2> QED BY <2>2 DEF Readers
<1> HIDE DEF u
<1>3. FetchByte(s) = t
  BY <1>1 DEF FetchByte, u
<1> HIDE DEF byte
<1>4. t \in Readers /\ t.bits = 0 /\ t.out = u.out /\ t.b = u.b
  <2>1. 0 \in 0..ByteBits
    BY DEF SizeAssumption
  <2> QED BY <1>1, <1>2, <2>1 DEF Readers
<1> QED BY <1>1, <1>3, <1>4

LEMMA TakesNothing ==
  ASSUME NEW b, NEW p, NEW n, ReadsAt(b, p, n)
  PROVE  Takes(b, b, p, n, 0)
<1>1. p \in Nat /\ n \in Nat /\ p <= n
  BY DEF ReadsAt
<1>2. p + 0 = p /\ Larger(n, p) = n
  BY <1>1 DEF Larger
<1> QED BY <1>2 DEF Takes, SameWriting

LEMMA TakeBitIs ==
  ASSUME SizeAssumption, NEW s \in Readers, s.bits < ByteBits
  PROVE  TakeBit(s) \in Readers /\ TakeBit(s).b = s.b
<1> DEFINE x == s.byte[s.bits + 1]
           out == Append(s.out, x)
           t == [s EXCEPT !.out = out, !.bits = @ + 1]
<1>1. s.bits + 1 \in 1..ByteBits /\ s.bits + 1 \in 0..ByteBits
  BY DEF SizeAssumption, Readers
<1>2. x \in Bit
  BY <1>1 DEF Readers, Byte
<1> HIDE DEF x
<1>3. out \in Seq(Bit)
  BY <1>2, AppendProperties DEF Readers
<1>4. TakeBit(s) = t
  BY DEF TakeBit, out, x
<1> HIDE DEF out
<1> QED BY <1>1, <1>3, <1>4 DEF Readers

LEMMA ReadBitIs ==
  ASSUME SizeAssumption, ~bitStream, NEW s \in Readers, NEW p, NEW n,
         ReadsAt(s.b, p, n)
  PROVE  LET t == ReadBit(s)
         IN  t \in Readers /\ \E k \in {0, 1} : Takes(s.b, t.b, p, n, k)
<1>1. CASE s.bits \in {0, ByteBits}
  <2> DEFINE f == FetchByte(s)
  <2>1. f \in Readers /\ f.bits = 0 /\ Takes(s.b, f.b, p, n, 1)
    BY FetchByteIs
  <2>2. ReadBit(s) = TakeBit(f)
    BY <1>1 DEF ReadBit, NextBit, NoneOpen
  <2> HIDE DEF f
  <2>3. f.bits < ByteBits
    BY <2>1 DEF SizeAssumption
  <2>4. TakeBit(f) \in Readers /\ TakeBit(f).b = f.b
    BY <2>1, <2>3, TakeBitIs
  <2> QED BY <2>1, <2>2, <2>4
<1>2. CASE s.bits \notin {0, ByteBits}
  <2>1. ReadBit(s) = TakeBit(s)
    BY <1>2 DEF ReadBit, NextBit, NoneOpen
  <2>2. s.bits < ByteBits
    BY <1>2 DEF SizeAssumption, Readers
  <2>3. TakeBit(s) \in Readers /\ TakeBit(s).b = s.b
    BY <2>2, TakeBitIs
  <2> QED BY <2>1, <2>3, TakesNothing
<1> QED BY <1>1, <1>2

LEMMA ReadIs ==
  ASSUME SizeAssumption, ~bitStream, NEW s \in Readers, NEW p, NEW n,
         ReadsAt(s.b, p, n), NEW kind \in Plain, NEW m
  PROVE  LET t == Read(s, kind, m)
         IN  /\ t \in Readers
             /\ \E k \in {0, 1, 2} : /\ Takes(s.b, t.b, p, n, k)
                                     /\ Whole(kind) => k = Bytes(kind)
<1> DEFINE t == Read(s, kind, m)
           f == FetchByte(s)
           byte == [f EXCEPT !.out = @ \o f.byte]
<1>1. /\ f \in Readers /\ Takes(s.b, f.b, p, n, 1) /\ f.byte \in Byte
  BY FetchByteIs DEF Readers
<1>2. ReadByte(s) = byte
  BY DEF ReadByte
<1> HIDE DEF f
<1>3. f.out \o f.byte \in Seq(Bit)
  <2>1. f.out \in Seq(Bit) /\ f.byte \in Seq(Bit)
    BY <1>1, ByteIsSeq DEF Readers
  <2> QED BY <2>1, ConcatProperties
<1>4. byte \in Readers /\ byte.b = f.b /\ byte.byte = f.byte
  BY <1>1, <1>3 DEF Readers
<1> HIDE DEF byte
<1>5. CASE kind = "bit"
  <2>1. t = ReadBit(s) /\ ~Whole(kind)
    BY <1>5 DEF Read, Whole
  <2> HIDE DEF t
  <2>2. t \in Readers /\ \E k \in {0, 1} : Takes(s.b, t.b, p, n, k)
    BY <2>1, ReadBitIs
  <2> QED BY <2>1, <2>2 DEF t
<1>6. CASE kind = "byte"
  <2>1. t = byte /\ Bytes(kind) = 1
    BY <1>2, <1>6 DEF Read, Bytes
  <2> HIDE DEF t
  <2> QED BY <1>1, <1>4, <2>1 DEF t
<1>7. CASE kind = "bool"
  <2> DEFINE u == [byte EXCEPT !.out = <<byte.byte[1]>>]
  <2>1. t = u /\ Bytes(kind) = 1
    BY <1>2, <1>7 DEF Read, Bytes
  <2>2. byte.byte[1] \in Bit
    BY <1>1, <1>4 DEF Byte, SizeAssumption
  <2>3. <<byte.byte[1]>> \in Seq(Bit)
    BY <2>2
  <2>4. u \in Readers /\ u.b = byte.b
    BY <1>4, <2>3 DEF Readers
  <2> HIDE DEF t, u
  <2> QED BY <1>1, <1>4, <2>1, <2>4 DEF t
<1>8. CASE kind = "value"
  <2> DEFINE v == ReadBytes(s, 2)
             out == IF BufferReads(s.b, 2)
                    THEN Memory(s, s.b.buffer_read_index + 1)
                           \o Memory(s, s.b.buffer_read_index + 2)
                    ELSE s.out
             u == [v EXCEPT !.out = out]
  <2>1. v \in Readers /\ v.out = s.out /\ Takes(s.b, v.b, p, n, 2)
    BY ReadBytesIs
  <2>2. out \in Seq(Bit)
    <3>1. /\ s.b.buffer_read_index + 1 \in Nat /\ s.b.buffer_read_index + 1 # 0
          /\ s.b.buffer_read_index + 2 \in Nat /\ s.b.buffer_read_index + 2 # 0
      BY DEF ReadsAt
    <3>2. /\ Memory(s, s.b.buffer_read_index + 1) \in Seq(Bit)
          /\ Memory(s, s.b.buffer_read_index + 2) \in Seq(Bit)
      BY <3>1, MemoryIs, ByteIsSeq
    <3>3. Memory(s, s.b.buffer_read_index + 1)
            \o Memory(s, s.b.buffer_read_index + 2) \in Seq(Bit)
      BY <3>2, ConcatProperties
    <3> QED BY <3>3 DEF Readers
  <2>3. t = u /\ Bytes(kind) = 2
    <3>1. t = ReadValue(s)
      BY <1>8 DEF Read
    <3> HIDE DEF t
    <3>2. ReadValue(s) = u
      BY <2>1 DEF ReadValue
    <3> QED BY <1>8, <3>1, <3>2 DEF Bytes
  <2> HIDE DEF v, out
  <2>4. u \in Readers /\ u.b = v.b
    BY <2>1, <2>2 DEF Readers
  <2> HIDE DEF t, u
  <2> QED BY <2>1, <2>3, <2>4 DEF t
<1> QED BY <1>5, <1>6, <1>7, <1>8 DEF Plain, AllKinds

-----------------------------------------------------------------------------
(* The invariant.  Every byte of the calls is counted, and the bits left   *)
(* over are pending; every call of whole bytes can be gone back to; the    *)
(* writer and the reader each are where all of the backends say.           *)
Now == store.count_write_index
Asked == store.count_read_index
InBytes(kind) == kind \in {"value", "byte", "bool"}

CanGoBack(op, b) ==
  /\ PositionAt(op.at, b, op.at.count, b.count_write_index)
  /\ op.at.count + Bytes(op.kind) <= b.count_write_index

LogOK == /\ log \in Logs
         /\ \A i \in 1..Len(log) : InBytes(log[i].kind) => CanGoBack(log[i], store)

WritingOK ==
  /\ w \in [byte : Byte, bits : 0..ByteBits-1]
  /\ WritesAt(store, Now, Now)
  /\ ~patched => store.count_write = Now
  /\ ~reading => Total(log) = ByteBits * Now + w.bits
  /\ reading => /\ w.bits = 0
                /\ Total(log) <= ByteBits * Now /\ ByteBits * Now < Total(log) + ByteBits
                /\ told = [buffer |-> BufferSize, count |-> store.count_write,
                           mem |-> IF store.wfailed THEN -1 ELSE BufferSize,
                           csb |-> Now]

(* The last call of whole bytes can be read again, once.                   *)
CanReadAgain ==
  got # <<>> /\ ~again /\ InBytes(log[Len(got)].kind) =>
    \E p \in Nat : /\ p + Bytes(log[Len(got)].kind) = Asked
                   /\ ReadPositionAt(start, p, Asked)

ReadingOK ==
  /\ r \in [byte : Byte, bits : 0..ByteBits]
  /\ got \in Seq(Seq(Bit)) /\ Len(got) <= Len(log)
  /\ ReadsAt(store, Asked, Asked)
  /\ ~again => AreaExact(store)
  /\ CanReadAgain

BytesInv == ~bitStream => LogOK /\ WritingOK /\ ReadingOK

LEMMA BytesInit ==
  ASSUME Init
  PROVE  BytesInv
<1> USE DEF Init
<1> SUFFICES ASSUME ~bitStream PROVE LogOK /\ WritingOK /\ ReadingOK
  BY DEF BytesInv
<1>1. BufferSize \in Nat /\ ByteBits \in Nat /\ ByteBits > 1 /\ Blank \in Byte
  BY SizeAssumption, ByteIsSeq DEF SizeAssumption
<1>2. store = NewBackends
  OBVIOUS
<1>3. NewBackends \in Backends
  BY DEF NewBackends, Backends, Memories, Countings, Mem!NewMemory, Csb!NewCounting
<1>4. WritesAt(NewBackends, 0, 0)
  <2> DEFINE b == NewBackends
  <2>1. /\ b.count_write_index = 0 /\ b.csb.write_pos = 0 /\ b.csb.length = 0
        /\ b.count_write = 0 /\ b.csb.total_bytes_written = 0
        /\ b.buffer = <<>> /\ b.mem.memory = <<>> /\ b.buffer_write_index = 0
        /\ b.mem.pptr = 0 /\ b.wfailed = FALSE
    BY DEF NewBackends, Mem!NewMemory, Csb!NewCounting
  <2>2. Len(<<>>) = 0 /\ 0 \in 0..0 /\ 0 <= BufferSize /\ ~(0 > BufferSize) /\ 0 <= 0
    BY <1>1
  <2> HIDE DEF b
  <2>3. b \in Backends
    BY <1>3 DEF b
  <2>4. b.wfailed = (0 > BufferSize)
    <3>1. (0 > BufferSize) = FALSE
      BY <1>1
    <3>2. b.wfailed = FALSE
      BY <2>1
    <3> QED BY <3>1, <3>2, Zenon
  <2>5. WritesAt(b, 0, 0)
    BY <2>1, <2>2, <2>3, <2>4 DEF WritesAt
  <2> QED BY <2>5 DEF b
<1>5. ReadsAt(NewBackends, 0, 0) /\ AreaExact(NewBackends)
  <2> DEFINE b == NewBackends
  <2>1. ~(0 > BufferSize) /\ Smaller(0, BufferSize) = 0 /\ 0 \in 0..BufferSize /\ 0 <= 0
    BY <1>1 DEF Smaller
  <2>2. /\ b.count_read_index = 0 /\ b.buffer_read_index = 0
        /\ b.rfailed = FALSE /\ b.mem.gptr = 0
        /\ b.csb.read_pos = 0 /\ b.csb.gptr = 0 /\ b.csb.total_bytes_read = 0
    BY DEF NewBackends, Mem!NewMemory, Csb!NewCounting
  <2> HIDE DEF b
  <2>3. b \in Backends
    BY <1>3 DEF b
  <2>4. b.rfailed = (0 > BufferSize)
    <3>1. (0 > BufferSize) = FALSE
      BY <1>1
    <3>2. b.rfailed = FALSE
      BY <2>2
    <3> QED BY <3>1, <3>2, Zenon
  <2>5. ReadsAt(b, 0, 0) /\ AreaExact(b)
    BY <2>1, <2>2, <2>3, <2>4 DEF ReadsAt, AreaExact
  <2> QED BY <2>5 DEF b
<1>6. Now = 0 /\ Asked = 0 /\ NewBackends.count_write = 0
  BY <1>2 DEF Now, Asked, NewBackends
<1>7. LogOK
  <2>1. Len(log) = 0 /\ log \in Logs
    BY TotalOfNone
  <2> QED BY <2>1 DEF LogOK
<1>8. WritingOK
  <2>1. w \in [byte : Byte, bits : 0..ByteBits-1] /\ w.bits = 0
    BY <1>1
  <2>2. Total(log) = ByteBits * 0 + 0
    BY <1>1, TotalOfNone
  <2> QED BY <1>2, <1>4, <1>6, <2>1, <2>2 DEF WritingOK
<1>9. ReadingOK
  <2>1. r \in [byte : Byte, bits : 0..ByteBits]
    BY <1>1
  <2>2. got = <<>> /\ got \in Seq(Seq(Bit)) /\ Len(got) = 0 /\ Len(log) = 0
    OBVIOUS
  <2> QED BY <1>2, <1>5, <1>6, <2>1, <2>2 DEF ReadingOK, CanReadAgain
<1> QED BY <1>7, <1>8, <1>9

(* What a step has to show that leaves the reading alone, or the writing.  *)
LEMMA GoBackStays ==
  ASSUME NEW a, NEW b, NEW op, CanGoBack(op, a), Len(a.buffer) <= Len(b.buffer),
         a.count_write_index <= b.count_write_index,
         NEW l \in Nat, l = Len(a.buffer), NEW m \in Nat, m = Len(b.buffer),
         a.count_write_index \in Nat, b.count_write_index \in Nat, SizeAssumption
  PROVE  CanGoBack(op, b)
<1> DEFINE x == a.count_write_index
           y == b.count_write_index
           c == op.at.count
<1>1. /\ x \in Nat /\ y \in Nat /\ x <= y /\ l <= m /\ BufferSize \in Nat
  BY DEF SizeAssumption
<1>2. /\ op.at.csb = c /\ c \in 0..x /\ op.at.buffer \in 0..l
      /\ x <= BufferSize => op.at.mem = c /\ op.at.buffer = c
      /\ c + Bytes(op.kind) <= x
  BY DEF CanGoBack, PositionAt
<1>3. Bytes(op.kind) \in Nat
  BY DEF Bytes
<1> HIDE DEF x, y, c
<1>4. /\ c \in 0..y /\ op.at.buffer \in 0..m /\ c + Bytes(op.kind) <= y
      /\ y <= BufferSize => x <= BufferSize
  <2>1. c \in 0..x /\ op.at.buffer \in 0..l /\ c + Bytes(op.kind) <= x
    BY <1>2
  <2>2. c \in 0..y /\ c + Bytes(op.kind) <= y
    BY ONLY <1>1, <1>3, <2>1
  <2>3. op.at.buffer \in 0..m
    BY ONLY <1>1, <2>1
  <2>4. y <= BufferSize => x <= BufferSize
    BY ONLY <1>1
  <2> QED BY <2>2, <2>3, <2>4
<1> QED BY <1>2, <1>4 DEF CanGoBack, PositionAt, x, y, c

LEMMA ReadingStays ==
  ASSUME ReadingOK, store' \in Backends, SameReading(store', store),
         UNCHANGED <<r, start, again, got>>, Len(log) <= Len(log)', Len(log) \in Nat,
         Len(log)' \in Nat,
         \A i \in 1..Len(log) : log'[i].kind = log[i].kind
  PROVE  ReadingOK'
<1>1. ReadsAt(store, Asked, Asked) /\ store \in Backends /\ Asked' = Asked
  BY DEF ReadingOK, ReadsAt, SameReading, Asked
<1>2. ReadsAt(store', Asked', Asked') /\ (AreaExact(store) => AreaExact(store'))
  BY <1>1, SameReadsAt
<1>3. CanReadAgain'
  <2> SUFFICES ASSUME got # <<>>, ~again, InBytes(log'[Len(got)].kind)
               PROVE  \E p \in Nat : /\ p + Bytes(log'[Len(got)].kind) = Asked
                                     /\ ReadPositionAt(start, p, Asked)
    BY <1>1 DEF CanReadAgain
  <2>1. got \in Seq(Seq(Bit)) /\ Len(got) \in Nat /\ Len(got) <= Len(log)
    BY LenProperties DEF ReadingOK
  <2>2. Len(got) # 0
    BY <2>1, EmptySeq
  <2>3. Len(got) \in 1..Len(log)
    BY <2>1, <2>2
  <2>4. log'[Len(got)].kind = log[Len(got)].kind
    BY <2>3
  <2> QED BY <2>4 DEF ReadingOK, CanReadAgain
<1>4. Len(got) \in Nat
  BY LenProperties DEF ReadingOK
<1> QED BY <1>2, <1>3, <1>4 DEF ReadingOK

LEMMA CallKeeps ==
  ASSUME ~bitStream, LogOK, WritingOK, ReadingOK,
         NEW kind \in Kinds, NEW bits \in Payloads(kind), Call(kind, bits)
  PROVE  LogOK' /\ WritingOK' /\ ReadingOK'
<1> DEFINE t == Write(Writer, kind, bits)
           at == getWritePosition(store)
           op == [kind |-> kind, bits |-> bits, at |-> at]
           n == Len(log)
<1>1. /\ ByteBits \in Nat /\ ByteBits > 1 /\ BufferSize \in Nat
      /\ kind \in Plain /\ (InBytes(kind) => w.bits = 0) /\ ~reading
  BY SizeAssumption, FlagAssumption
     DEF SizeAssumption, FlagAssumption, Call, MayMix, Plain, InBytes, Aligned
<1>2. /\ log' = Append(log, op) /\ store' = t.b
      /\ w' = [byte |-> t.byte, bits |-> t.bits]
      /\ UNCHANGED <<reading, patched, r, start, again, got>>
  BY DEF Call, WriterNow, progress
<1>3. /\ WritesAt(store, Now, Now) /\ store \in Backends /\ Now \in Nat
      /\ Writer \in Writers /\ Writer.bits = w.bits /\ Writer.b = store
      /\ w.bits \in Nat /\ w.bits < ByteBits
  <2>1. WritesAt(store, Now, Now) /\ store \in Backends /\ Now \in Nat
    BY DEF WritingOK, WritesAt
  <2>2. w.byte \in Byte /\ w.bits \in 0..ByteBits-1
    BY DEF WritingOK
  <2>3. w.bits \in Nat /\ w.bits < ByteBits
    BY <1>1, <2>2
  <2> QED BY <2>1, <2>2, <2>3 DEF Writer, Writers
<1>4. Whole(kind) <=> InBytes(kind)
  BY DEF Whole, InBytes
<1>5. PICK k \in {0, 1, 2} :
        /\ t \in Writers /\ t.bits < ByteBits
        /\ Moves(store, t.b, Now, Now, k)
        /\ w.bits + Width(kind) = ByteBits * k + t.bits
        /\ InBytes(kind) => k = Bytes(kind) /\ t.bits = 0
  <2>1. Whole(kind) => Writer.bits = 0
    BY <1>1, <1>3, <1>4
  <2> HIDE DEF t
  <2>2. /\ t \in Writers /\ t.bits < ByteBits
        /\ \E k \in {0, 1, 2} : /\ Moves(Writer.b, t.b, Now, Now, k)
                                /\ Writer.bits + Width(kind) = ByteBits * k + t.bits
                                /\ Whole(kind) => k = Bytes(kind) /\ t.bits = 0
    <3>1. WritesAt(Writer.b, Now, Now) /\ Writer.bits < ByteBits
      BY <1>3
    <3> QED BY <1>1, <1>3, <2>1, <3>1, SizeAssumption, WriteIs DEF t
  <2> QED BY <1>3, <1>4, <2>2
<1> HIDE DEF t
<1>6. /\ WritesAt(store', Now + k, Now + k) /\ SameReading(store', store)
      /\ store'.count_write = store.count_write + k
      /\ Len(store.buffer) <= Len(store'.buffer)
  <2>1. Larger(Now, Now + k) = Now + k
    BY <1>3 DEF Larger
  <2> QED BY <1>2, <1>5, <2>1 DEF Moves
<1>7. Now' = Now + k /\ Now' \in Nat /\ Now <= Now' /\ store' \in Backends
  BY <1>3, <1>6 DEF WritesAt, Now
<1>8. /\ PositionAt(at, store, Now, Now) /\ op.at.count = Now /\ at \in Places
  <2>1. PositionAt(at, store, Now, Now)
    BY <1>3, SizeAssumption, TellsWrite
  <2>2. at.count = Now
    BY <2>1 DEF PositionAt
  <2>3. /\ store.buffer_write_index \in Int /\ store.count_write_index \in Int
        /\ store.mem.pptr \in Int /\ store.csb.write_pos \in Int
    BY <1>3 DEF Backends, Memories, Countings
  <2>4. at \in Places
    BY <2>3 DEF getWritePosition, Places
  <2> QED BY <2>1, <2>2, <2>4
<1>9. op \in Ops /\ op.bits \in Payloads(op.kind) /\ op.kind = kind
  <2>1. bits \in Seq(Bit)
    BY <1>1, SizeAssumption, PayloadIs
  <2> HIDE DEF at
  <2> QED BY <1>1, <1>8, <2>1 DEF Ops
<1> HIDE DEF op, at
<1>10. log \in Logs /\ n \in Nat /\ Total(log) \in Nat
  BY SizeAssumption, WiresIs, TotalType DEF LogOK
<1>11. /\ log' \in Logs /\ Len(log)' = n + 1 /\ log'[n+1] = op
       /\ \A i \in 1..n : log'[i] = log[i]
       /\ Total(log)' = Total(log) + Width(kind)
  BY <1>2, <1>9, <1>10, SizeAssumption, TotalAppend
<1>12. \A o : CanGoBack(o, store) => CanGoBack(o, store')
  <2> TAKE o
  <2> HAVE CanGoBack(o, store)
  <2>1. Len(store.buffer) \in Nat /\ Len(store'.buffer) \in Nat
    BY <1>3, <1>7, LenProperties DEF Backends
  <2> QED BY <1>3, <1>6, <1>7, <2>1, SizeAssumption, GoBackStays DEF Now
<1>13. InBytes(kind) => CanGoBack(op, store')
  <2> SUFFICES ASSUME InBytes(kind)
               PROVE  CanGoBack(op, store')
    OBVIOUS
  <2>1. k = Bytes(kind)
    BY <1>5
  <2>2. /\ op.at = at /\ at.count = Now /\ at.csb = Now
        /\ at.buffer \in 0..Len(store.buffer)
        /\ Now <= BufferSize => at.mem = Now /\ at.buffer = Now
    BY <1>8 DEF PositionAt, op
  <2>3. Len(store.buffer) \in Nat /\ Len(store'.buffer) \in Nat
    BY <1>3, <1>7, LenProperties DEF Backends
  <2>4. at.buffer \in 0..Len(store'.buffer) /\ Now \in 0..Now'
    BY <1>3, <1>6, <1>7, <2>2, <2>3
  <2>5. Now' <= BufferSize => Now <= BufferSize
    BY <1>1, <1>3, <1>7
  <2>6. PositionAt(at, store', Now, Now')
    BY <2>2, <2>4, <2>5 DEF PositionAt
  <2>7. Now + Bytes(kind) <= Now'
    BY <1>3, <1>7, <2>1
  <2> QED BY <1>9, <2>2, <2>6, <2>7 DEF CanGoBack, Now
<1>14. LogOK'
  <2>1. \A i \in 1..n+1 : i \in 1..n \/ i = n + 1
    BY <1>10
  <2>2. \A i \in 1..n+1 : InBytes(log'[i].kind) => CanGoBack(log'[i], store')
    <3> TAKE i \in 1..n+1
    <3>1. CASE i = n + 1
      BY <1>9, <1>11, <1>13, <3>1
    <3>2. CASE i \in 1..n
      BY <1>11, <1>12, <3>2 DEF LogOK
    <3> QED BY <2>1, <3>1, <3>2
  <2> QED BY <1>11, <2>2 DEF LogOK
<1>15. WritingOK'
  <2>1. w' \in [byte : Byte, bits : 0..ByteBits-1] /\ w'.bits = t.bits
    <3>1. t.byte \in Byte /\ t.bits \in Nat /\ t.bits < ByteBits
      BY <1>5 DEF Writers
    <3>2. t.bits \in 0..ByteBits-1
      BY <1>1, <3>1
    <3> QED BY <1>2, <3>1, <3>2
  <2>2. ~patched' => store'.count_write = Now'
    BY <1>2, <1>6, <1>7 DEF WritingOK
  <2>3. Total(log)' = ByteBits * Now' + w'.bits
    <3>1. Total(log) = ByteBits * Now + w.bits
      BY <1>1 DEF WritingOK
    <3>2. ByteBits * (Now + k) = ByteBits * Now + ByteBits * k
      BY <1>1, <1>3
    <3>3. ByteBits * Now \in Nat /\ ByteBits * k \in Nat /\ t.bits \in Nat
      BY <1>1, <1>3, <1>5 DEF Writers
    <3>4. Width(kind) \in Nat
      BY <1>1 DEF Width, Plain, AllKinds
    <3>5. \A a, b, c, d, e \in Nat : b + c = d + e => (a + b) + c = (a + d) + e
      OBVIOUS
    <3>6. (ByteBits * Now + w.bits) + Width(kind) = (ByteBits * Now + ByteBits * k) + t.bits
      BY <1>3, <1>5, <3>3, <3>4, <3>5
    <3> QED BY <1>7, <1>11, <2>1, <3>1, <3>2, <3>6
  <2> QED BY <1>1, <1>2, <1>6, <1>7, <2>1, <2>2, <2>3 DEF WritingOK
<1>16. ReadingOK'
  <2>1. /\ Len(log) <= Len(log)' /\ Len(log) \in Nat /\ Len(log)' \in Nat
        /\ \A i \in 1..Len(log) : log'[i].kind = log[i].kind
    BY <1>10, <1>11
  <2> QED BY <1>2, <1>6, <1>7, <2>1, ReadingStays
<1> QED BY <1>14, <1>15, <1>16

LEMMA HandOverKeeps ==
  ASSUME ~bitStream, LogOK, WritingOK, ReadingOK, HandOver
  PROVE  LogOK' /\ WritingOK' /\ ReadingOK'
<1> DEFINE s == Synchronize(Writer)
           c == getWriteLength(s.b)
<1>1. ByteBits \in Nat /\ ByteBits > 1 /\ BufferSize \in Nat /\ ~reading
  BY SizeAssumption DEF SizeAssumption, HandOver
<1>2. /\ store' = c /\ told' = Lengths(s.b) /\ reading' = TRUE
      /\ w' = [byte |-> s.byte, bits |-> s.bits]
      /\ UNCHANGED <<log, patched, r, start, again, got>>
  <2>1. w' = [byte |-> s.byte, bits |-> s.bits] /\ store' = c
    BY DEF HandOver, WriterNow
  <2> QED BY <2>1 DEF HandOver
<1>3. /\ WritesAt(store, Now, Now) /\ store \in Backends /\ Now \in Nat
      /\ Writer \in Writers /\ Writer.bits = w.bits /\ Writer.b = store
      /\ Writer.byte = w.byte /\ w.byte \in Byte
      /\ w.bits \in Nat /\ w.bits < ByteBits
  <2>1. WritesAt(store, Now, Now) /\ store \in Backends /\ Now \in Nat
    BY DEF WritingOK, WritesAt
  <2>2. w.byte \in Byte /\ w.bits \in 0..ByteBits-1
    BY DEF WritingOK
  <2>3. w.bits \in Nat /\ w.bits < ByteBits
    BY <1>1, <2>2
  <2> QED BY <2>1, <2>2, <2>3 DEF Writer, Writers
<1>4. \E k \in {0, 1} :
        /\ s \in Writers /\ s.bits = 0 /\ Moves(store, s.b, Now, Now, k)
        /\ k = (IF w.bits = 0 THEN 0 ELSE 1)
  <2>1. CASE w.bits = 0
    <3>1. ~Partial(Writer.bits)
      BY <1>1, <1>3, <2>1 DEF Partial
    <3>2. s = Writer
      BY <3>1 DEF Synchronize
    <3>3. Moves(store, store, Now, Now, 0)
      <4>1. Now + 0 = Now /\ Larger(Now, Now) = Now
        BY <1>3 DEF Larger
      <4>2. store.count_write \in Int /\ Len(store.buffer) \in Nat
        BY <1>3, LenProperties DEF Backends
      <4> QED BY <1>3, <4>1, <4>2 DEF Moves, SameReading
    <3> HIDE DEF s
    <3> QED BY <1>3, <2>1, <3>2, <3>3
  <2>2. CASE w.bits # 0
    <3>1. Partial(Writer.bits)
      BY <1>1, <1>3, <2>2 DEF Partial
    <3>2. s = PutByte(Writer, w.byte)
      BY <1>3, <3>1 DEF Synchronize
    <3> HIDE DEF s
    <3>3. s \in Writers /\ s.bits = 0 /\ Moves(store, s.b, Now, Now, 1)
      BY <1>3, <3>2, SizeAssumption, PutByteIs
    <3> QED BY <2>2, <3>3
  <2> QED BY <2>1, <2>2
<1>5. PICK k \in {0, 1} :
        /\ s \in Writers /\ s.bits = 0 /\ Moves(store, s.b, Now, Now, k)
        /\ k = (IF w.bits = 0 THEN 0 ELSE 1)
  BY <1>4
<1> HIDE DEF s
<1>6. /\ WritesAt(s.b, Now + k, Now + k) /\ SameReading(s.b, store)
      /\ s.b.count_write = store.count_write + k
      /\ Len(store.buffer) <= Len(s.b.buffer)
  <2>1. Larger(Now, Now + k) = Now + k
    BY <1>3 DEF Larger
  <2> QED BY <1>5, <2>1 DEF Moves
<1>7. /\ WritesAt(c, Now + k, Now + k) /\ SameReading(c, s.b)
      /\ c.buffer = s.b.buffer /\ c.count_write = s.b.count_write
      /\ Lengths(s.b) = [buffer |-> BufferSize, count |-> c.count_write,
                         mem |-> IF c.wfailed THEN -1 ELSE BufferSize,
                         csb |-> Now + k]
  BY <1>6, SizeAssumption, GetWriteLengthIs
<1> HIDE DEF c
<1>8. Now' = Now + k /\ Now' \in Nat /\ Now <= Now' /\ store' \in Backends
  BY <1>2, <1>3, <1>7 DEF WritesAt, Now
<1>9. SameReading(store', store) /\ Len(store.buffer) <= Len(store'.buffer)
  BY <1>2, <1>6, <1>7 DEF SameReading
<1>10. log \in Logs /\ Len(log) \in Nat /\ Total(log) \in Nat
  BY SizeAssumption, WiresIs, TotalType DEF LogOK
<1>11. LogOK'
  <2>1. Len(store.buffer) \in Nat /\ Len(store'.buffer) \in Nat
    BY <1>3, <1>8, LenProperties DEF Backends
  <2>2. \A i \in 1..Len(log) : InBytes(log[i].kind) => CanGoBack(log[i], store')
    <3> TAKE i \in 1..Len(log)
    <3> HAVE InBytes(log[i].kind)
    <3>1. CanGoBack(log[i], store)
      BY DEF LogOK
    <3> QED BY <1>3, <1>8, <1>9, <2>1, <3>1, SizeAssumption, GoBackStays DEF Now
  <2> QED BY <1>2, <1>10, <2>2 DEF LogOK
<1>12. WritingOK'
  <2>1. w' \in [byte : Byte, bits : 0..ByteBits-1] /\ w'.bits = 0
    <3>1. s.byte \in Byte /\ s.bits = 0 /\ 0 \in 0..ByteBits-1
      BY <1>1, <1>5 DEF Writers
    <3> QED BY <1>2, <3>1
  <2>2. ~patched' => store'.count_write = Now'
    BY <1>2, <1>6, <1>7, <1>8 DEF WritingOK
  <2>3. Total(log) <= ByteBits * Now' /\ ByteBits * Now' < Total(log) + ByteBits
    <3>1. Total(log) = ByteBits * Now + w.bits
      BY <1>1 DEF WritingOK
    <3>2. CASE w.bits = 0
      <4>1. k = 0 /\ Now' = Now
        BY <1>3, <1>5, <1>8, <3>2
      <4>2. Total(log) = ByteBits * Now' /\ ByteBits * Now' \in Nat
        BY <1>1, <1>3, <3>1, <3>2, <4>1
      <4> QED BY <1>1, <4>2
    <3>3. CASE w.bits # 0
      <4>1. Now' = Now + 1
        BY <1>5, <1>8, <3>3
      <4>2. ByteBits * (Now + 1) = ByteBits * Now + ByteBits /\ ByteBits * Now \in Nat
        BY <1>1, <1>3
      <4> HIDE DEF Now
      <4> DEFINE x == ByteBits * Now
      <4>3. ByteBits * Now' = x + ByteBits /\ x \in Nat /\ Total(log) = x + w.bits
        BY <3>1, <4>1, <4>2
      <4> HIDE DEF x
      <4> QED BY <1>1, <1>3, <3>3, <4>3
    <3> QED BY <3>2, <3>3
  <2>4. told' = [buffer |-> BufferSize, count |-> store'.count_write,
                 mem |-> IF store'.wfailed THEN -1 ELSE BufferSize, csb |-> Now']
    BY <1>2, <1>7, <1>8
  <2>5. WritesAt(store', Now', Now')
    BY <1>2, <1>7, <1>8
  <2> QED BY <1>2, <2>1, <2>2, <2>3, <2>4, <2>5 DEF WritingOK
<1>13. ReadingOK'
  <2>1. /\ Len(log) <= Len(log)' /\ Len(log) \in Nat /\ Len(log)' \in Nat
        /\ \A i \in 1..Len(log) : log'[i].kind = log[i].kind
    BY <1>2, <1>10
  <2> QED BY <1>2, <1>8, <1>9, <2>1, ReadingStays
<1> QED BY <1>11, <1>12, <1>13

LEMMA PatchKeeps ==
  ASSUME ~bitStream, LogOK, WritingOK, ReadingOK, NEW i, Patch(i)
  PROVE  LogOK' /\ WritingOK' /\ ReadingOK'
<1> DEFINE old == log[i]
           kind == old.kind
           there == setWritePosition(store, old.at)
           back == [Writer EXCEPT !.b = there]
           t == Write(back, kind, Flipped(old.bits))
           here == getWritePosition(store)
           fin == setWritePosition(t.b, here)
           u == [t EXCEPT !.b = fin]
           q == old.at.count
           k == Bytes(kind)
<1>1. /\ ByteBits \in Nat /\ ByteBits > 1 /\ BufferSize \in Nat
      /\ ~reading /\ ~patched /\ w.bits = 0 /\ i \in 1..Len(log)
      /\ Whole(kind) /\ InBytes(kind)
  BY SizeAssumption DEF SizeAssumption, Patch, Aligned, Whole, InBytes
<1>2. /\ WritesAt(store, Now, Now) /\ store \in Backends /\ Now \in Nat
      /\ Writer \in Writers /\ Writer.b = store /\ Writer.bits = 0
      /\ w.byte \in Byte
  <2>1. WritesAt(store, Now, Now) /\ store \in Backends /\ Now \in Nat
    BY DEF WritingOK, WritesAt
  <2>2. w.byte \in Byte /\ w.bits \in Nat
    BY <1>1 DEF WritingOK
  <2> QED BY <1>1, <2>1, <2>2 DEF Writer, Writers
<1>3. /\ log' = [log EXCEPT ![i].bits = Flipped(@)] /\ WriterNow(u)
      /\ patched' = TRUE /\ UNCHANGED <<reading, r, start, again, got>>
  <2>1. back = [Writer EXCEPT !.b = setWritePosition(@, old.at)]
    BY <1>2
  <2>2. u = [t EXCEPT !.b = setWritePosition(@, here)]
    OBVIOUS
  <2> HIDE DEF back, u
  <2>3. WriterNow(u)
    BY <2>1, <2>2 DEF Patch
  <2> QED BY <2>3 DEF Patch, progress
<1>4. /\ CanGoBack(old, store) /\ old \in Ops /\ old.bits \in Payloads(kind)
      /\ kind \in Plain /\ Flipped(old.bits) \in Payloads(kind)
      /\ PositionAt(old.at, store, q, Now) /\ q + k <= Now /\ q \in Nat
      /\ k \in {1, 2}
  <2>1. CanGoBack(old, store)
    BY <1>1 DEF LogOK
  <2>2. old \in Ops /\ old.bits \in Payloads(kind)
    BY <1>1, SizeAssumption, WiresIs DEF LogOK
  <2>3. kind \in Plain
    BY <2>2 DEF Ops
  <2>4. Flipped(old.bits) \in Payloads(kind)
    BY <2>2, <2>3, SizeAssumption, PayloadIs
  <2>5. PositionAt(old.at, store, q, Now) /\ q + k <= Now
    BY <2>1 DEF CanGoBack, Now
  <2>6. q \in Nat
    BY <1>2, <2>5 DEF PositionAt
  <2> QED BY <2>1, <2>2, <2>3, <2>4, <2>5, <2>6 DEF Bytes
<1> HIDE DEF q, k
<1>5. /\ WritesAt(there, q, Now) /\ SameReading(there, store)
      /\ there.buffer = store.buffer /\ there \in Backends
  <2>1. /\ WritesAt(there, q, Now) /\ SameReading(there, store)
        /\ there.buffer = store.buffer
    BY <1>2, <1>4, SizeAssumption, SetWritePositionIs
  <2> QED BY <2>1 DEF WritesAt
<1> HIDE DEF there
<1>6. back \in Writers /\ back.bits = 0 /\ back.b = there
  BY <1>2, <1>5 DEF Writers
<1> HIDE DEF back
<1>7. t \in Writers /\ t.bits = 0 /\ Moves(there, t.b, q, Now, k)
  <2>1. /\ t \in Writers /\ t.bits < ByteBits
        /\ \E j \in {0, 1, 2} : /\ Moves(back.b, t.b, q, Now, j)
                                /\ back.bits + Width(kind) = ByteBits * j + t.bits
                                /\ Whole(kind) => j = Bytes(kind) /\ t.bits = 0
    <3>1. WritesAt(back.b, q, Now) /\ back.bits < ByteBits
      BY <1>1, <1>5, <1>6
    <3> QED BY <1>4, <1>6, <3>1, SizeAssumption, WriteIs
  <2> HIDE DEF t
  <2> QED BY <1>1, <1>6, <2>1 DEF k
<1> HIDE DEF t
<1>8. /\ WritesAt(t.b, q + k, Now) /\ SameReading(t.b, there)
      /\ Len(store.buffer) <= Len(t.b.buffer)
  <2>1. Larger(Now, q + k) = Now
    BY <1>2, <1>4 DEF Larger
  <2> QED BY <1>5, <1>7, <2>1 DEF Moves
<1>9. PositionAt(here, t.b, Now, Now)
  <2>1. PositionAt(here, store, Now, Now)
    BY <1>2, SizeAssumption, TellsWrite
  <2>2. store.buffer \in Seq(Byte) /\ t.b.buffer \in Seq(Byte)
    BY <1>2, <1>8 DEF WritesAt, Backends
  <2>3. Len(store.buffer) \in Nat /\ Len(t.b.buffer) \in Nat
    BY <2>2, LenProperties
  <2>4. here.buffer \in 0..Len(t.b.buffer)
    BY <1>8, <2>1, <2>3 DEF PositionAt
  <2> QED BY <2>1, <2>4 DEF PositionAt
<1> HIDE DEF here
<1>10. /\ WritesAt(fin, Now, Now) /\ SameReading(fin, t.b)
       /\ fin.buffer = t.b.buffer /\ fin \in Backends
  <2>1. /\ WritesAt(fin, Now, Now) /\ SameReading(fin, t.b)
        /\ fin.buffer = t.b.buffer
    BY <1>8, <1>9, SizeAssumption, SetWritePositionIs
  <2> QED BY <2>1 DEF WritesAt
<1> HIDE DEF fin
<1>11. store' = fin /\ w' = [byte |-> t.byte, bits |-> 0] /\ t.byte \in Byte
  <2>1. u.b = fin /\ u.byte = t.byte /\ u.bits = 0 /\ t.byte \in Byte
    BY <1>7 DEF Writers
  <2> HIDE DEF u
  <2> QED BY <1>3, <2>1 DEF WriterNow
<1>12. Now' = Now /\ SameReading(store', store) /\ store' \in Backends
  BY <1>5, <1>8, <1>10, <1>11 DEF SameReading, WritesAt, Now
<1>13. /\ log \in Logs /\ log' \in Logs /\ Len(log)' = Len(log)
       /\ Total(log)' = Total(log) /\ Len(log) \in Nat
       /\ \A j \in 1..Len(log) : log'[j].kind = log[j].kind /\ log'[j].at = log[j].at
  <2>1. log \in Logs
    BY DEF LogOK
  <2>2. Len(log) \in Nat
    BY <2>1, SizeAssumption, WiresIs
  <2> DEFINE m == [log EXCEPT ![i].bits = Flipped(@)]
  <2>3. /\ m \in Logs /\ Len(m) = Len(log) /\ Total(m) = Total(log)
        /\ \A j \in 1..Len(log) : m[j].kind = log[j].kind /\ m[j].at = log[j].at
    BY <1>1, <2>1, SizeAssumption, TotalPatch
  <2>4. log' = m
    BY <1>3
  <2> HIDE DEF m
  <2> QED BY <2>1, <2>2, <2>3, <2>4
<1>14. LogOK'
  <2>1. Len(store.buffer) \in Nat /\ Len(store'.buffer) \in Nat
        /\ Len(store.buffer) <= Len(store'.buffer)
    BY <1>2, <1>8, <1>10, <1>11, LenProperties DEF Backends
  <2>2. \A j \in 1..Len(log) : InBytes(log'[j].kind) => CanGoBack(log'[j], store')
    <3> TAKE j \in 1..Len(log)
    <3> HAVE InBytes(log'[j].kind)
    <3>1. CanGoBack(log[j], store)
      BY <1>13 DEF LogOK
    <3>2. CanGoBack(log[j], store')
      BY <1>2, <1>12, <2>1, <3>1, SizeAssumption, GoBackStays DEF Now
    <3> QED BY <1>13, <3>2 DEF CanGoBack
  <2> QED BY <1>13, <2>2 DEF LogOK
<1>15. WritingOK'
  <2>1. w' \in [byte : Byte, bits : 0..ByteBits-1] /\ w'.bits = 0
    <3>1. 0 \in 0..ByteBits-1
      BY <1>1
    <3> QED BY <1>11, <3>1
  <2>2. Total(log)' = ByteBits * Now' + w'.bits
    BY <1>1, <1>12, <1>13, <2>1 DEF WritingOK
  <2>3. WritesAt(store', Now', Now')
    BY <1>10, <1>11, <1>12
  <2> QED BY <1>1, <1>3, <2>1, <2>2, <2>3 DEF WritingOK
<1>16. ReadingOK'
  <2>1. /\ Len(log) <= Len(log)' /\ Len(log) \in Nat /\ Len(log)' \in Nat
        /\ \A j \in 1..Len(log) : log'[j].kind = log[j].kind
    BY <1>13
  <2> QED BY <1>3, <1>12, <2>1, ReadingStays
<1> QED BY <1>14, <1>15, <1>16

LEMMA WritingStays ==
  ASSUME LogOK, WritingOK, store' \in Backends, SameWriting(store', store),
         UNCHANGED <<log, w, patched, reading, told>>
  PROVE  LogOK' /\ WritingOK'
<1>1. WritesAt(store, Now, Now) /\ store \in Backends /\ Now' = Now
  BY DEF WritingOK, WritesAt, SameWriting, Now
<1>2. WritesAt(store', Now', Now')
  BY <1>1, SameWritesAt
<1>3. store'.count_write = store.count_write /\ store'.wfailed = store.wfailed
      /\ store'.buffer = store.buffer /\ store'.count_write_index = store.count_write_index
  BY DEF SameWriting
<1>4. WritingOK'
  BY <1>1, <1>2, <1>3 DEF WritingOK
<1>5. LogOK'
  BY <1>3 DEF LogOK, CanGoBack, PositionAt
<1> QED BY <1>4, <1>5

LEMMA ReadNextKeeps ==
  ASSUME ~bitStream, LogOK, WritingOK, ReadingOK, ReadNext
  PROVE  LogOK' /\ WritingOK' /\ ReadingOK'
<1> DEFINE n == Len(got)
           op == log[n + 1]
           t == Read(Reader, op.kind, Len(op.bits))
<1>1. /\ reading /\ n < Len(log) /\ got' = Append(got, t.out)
      /\ r' = [byte |-> t.byte, bits |-> t.bits] /\ store' = t.b
      /\ start' = getReadPosition(store)
      /\ UNCHANGED <<log, w, patched, reading, told, again>>
  BY DEF ReadNext, ReaderNow, writing, progress
<1>2. /\ ReadsAt(store, Asked, Asked) /\ store \in Backends /\ Asked \in Nat
      /\ Reader \in Readers /\ Reader.b = store
  <2>1. ReadsAt(store, Asked, Asked) /\ store \in Backends /\ Asked \in Nat
    BY DEF ReadingOK, ReadsAt
  <2>2. r.byte \in Byte /\ r.bits \in 0..ByteBits /\ <<>> \in Seq(Bit)
    BY DEF ReadingOK
  <2> QED BY <2>1, <2>2 DEF Reader, Readers
<1>3. got \in Seq(Seq(Bit)) /\ n \in Nat /\ Len(log) \in Nat /\ n + 1 \in 1..Len(log)
  <2>1. got \in Seq(Seq(Bit)) /\ log \in Logs
    BY DEF ReadingOK, LogOK
  <2>2. n \in Nat /\ Len(log) \in Nat
    BY <2>1, LenProperties, SizeAssumption, WiresIs
  <2> QED BY <1>1, <2>1, <2>2
<1>4. op.kind \in Plain
  <2>1. op \in Ops
    BY <1>3, SizeAssumption, WiresIs DEF LogOK
  <2> QED BY <2>1 DEF Ops
<1>5. PICK k \in {0, 1, 2} :
        /\ t \in Readers /\ Takes(store, t.b, Asked, Asked, k)
        /\ InBytes(op.kind) => k = Bytes(op.kind)
  <2>1. /\ t \in Readers
        /\ \E k \in {0, 1, 2} : /\ Takes(Reader.b, t.b, Asked, Asked, k)
                                /\ Whole(op.kind) => k = Bytes(op.kind)
    <3>1. ReadsAt(Reader.b, Asked, Asked)
      BY <1>2
    <3> QED BY <1>2, <1>4, <3>1, SizeAssumption, ReadIs
  <2>2. Whole(op.kind) <=> InBytes(op.kind)
    BY DEF Whole, InBytes
  <2> HIDE DEF t
  <2> QED BY <1>2, <2>1, <2>2
<1> HIDE DEF t
<1>6. /\ ReadsAt(store', Asked + k, Asked + k) /\ SameWriting(store', store)
      /\ AreaExact(store) => AreaExact(store')
  <2>1. Larger(Asked, Asked + k) = Asked + k
    BY <1>2 DEF Larger
  <2> QED BY <1>1, <1>5, <2>1 DEF Takes
<1>7. Asked' = Asked + k /\ store' \in Backends
  BY <1>6 DEF ReadsAt, Asked
<1>8. LogOK' /\ WritingOK'
  BY <1>1, <1>6, <1>7, WritingStays
<1>9. got' \in Seq(Seq(Bit)) /\ Len(got)' = n + 1
  <2>1. t.out \in Seq(Bit)
    BY <1>5 DEF Readers
  <2> QED BY <1>1, <1>3, <2>1, AppendProperties
<1>10. CanReadAgain'
  <2>1. ASSUME InBytes(op.kind)
        PROVE  /\ Asked + Bytes(op.kind) = Asked' /\ ReadPositionAt(start', Asked, Asked')
    <3>1. k = Bytes(op.kind)
      BY <1>5, <2>1
    <3>2. Asked' \in Nat /\ Asked <= Asked'
      BY <1>2, <1>7
    <3>3. ReadPositionAt(getReadPosition(store), Asked, Asked')
      BY <1>2, <3>2, SizeAssumption, TellsRead
    <3> QED BY <1>1, <1>7, <3>1, <3>3
  <2>2. log'[Len(got)'].kind = op.kind
    BY <1>1, <1>9
  <2> HIDE DEF op
  <2> QED BY <1>2, <2>1, <2>2 DEF CanReadAgain
<1>11. ReadingOK'
  <2>1. r' \in [byte : Byte, bits : 0..ByteBits]
    BY <1>1, <1>5 DEF Readers
  <2>2. Len(got)' <= Len(log)'
    BY <1>1, <1>3, <1>9
  <2> QED BY <1>1, <1>6, <1>7, <1>9, <1>10, <2>1, <2>2 DEF ReadingOK
<1> QED BY <1>8, <1>11

LEMMA ReadAgainKeeps ==
  ASSUME ~bitStream, LogOK, WritingOK, ReadingOK, ReadAgain
  PROVE  LogOK' /\ WritingOK' /\ ReadingOK'
<1> DEFINE n == Len(got)
           op == log[n]
           there == setReadPosition(store, start)
           back == [Reader EXCEPT !.b = there]
           t == Read(back, op.kind, Len(op.bits))
<1>1. /\ ReadsAt(store, Asked, Asked) /\ store \in Backends /\ Asked \in Nat
      /\ Reader \in Readers /\ Reader.b = store
  <2>1. ReadsAt(store, Asked, Asked) /\ store \in Backends /\ Asked \in Nat
    BY DEF ReadingOK, ReadsAt
  <2>2. r.byte \in Byte /\ r.bits \in 0..ByteBits /\ <<>> \in Seq(Bit)
    BY DEF ReadingOK
  <2> QED BY <2>1, <2>2 DEF Reader, Readers
<1>2. /\ got # <<>> /\ ~again /\ Whole(op.kind) /\ again' = TRUE
      /\ got' = [got EXCEPT ![n] = t.out]
      /\ r' = [byte |-> t.byte, bits |-> t.bits] /\ store' = t.b
      /\ UNCHANGED <<log, w, patched, reading, told, start>>
  <2>1. back = [Reader EXCEPT !.b = setReadPosition(@, start)]
    BY <1>1
  <2> HIDE DEF back
  <2> QED BY <2>1 DEF ReadAgain, ReaderNow, writing, progress
<1>3. /\ got \in Seq(Seq(Bit)) /\ n \in 1..n /\ n \in Nat
      /\ Len(log) \in Nat /\ n \in 1..Len(log)
  <2>1. got \in Seq(Seq(Bit)) /\ log \in Logs /\ n <= Len(log)
    BY DEF ReadingOK, LogOK
  <2>2. n \in Nat /\ Len(log) \in Nat
    BY <2>1, LenProperties, SizeAssumption, WiresIs
  <2>3. n # 0
    BY <1>2, <2>1, EmptySeq
  <2> QED BY <2>1, <2>2, <2>3
<1>4. op.kind \in Plain /\ InBytes(op.kind)
  <2>1. op \in Ops
    BY <1>3, SizeAssumption, WiresIs DEF LogOK
  <2> QED BY <1>2, <2>1 DEF Ops, Whole, InBytes
<1>5. PICK p \in Nat : p + Bytes(op.kind) = Asked /\ ReadPositionAt(start, p, Asked)
  BY <1>2, <1>4 DEF ReadingOK, CanReadAgain
<1>6. Bytes(op.kind) \in {1, 2} /\ p <= Asked
  <2>1. Bytes(op.kind) \in {1, 2}
    BY DEF Bytes
  <2> QED BY <1>5, <2>1
<1>7. ReadsAt(there, p, Asked) /\ SameWriting(there, store) /\ there \in Backends
  <2>1. ReadsAt(there, p, Asked) /\ SameWriting(there, store)
    BY <1>1, <1>5, <1>6, SizeAssumption, SetReadPositionIs
  <2> QED BY <2>1 DEF ReadsAt
<1> HIDE DEF there
<1>8. back \in Readers /\ back.b = there
  BY <1>1, <1>7 DEF Readers
<1> HIDE DEF back
<1>9. t \in Readers /\ Takes(there, t.b, p, Asked, Bytes(op.kind))
  <2>1. /\ t \in Readers
        /\ \E k \in {0, 1, 2} : /\ Takes(back.b, t.b, p, Asked, k)
                                /\ Whole(op.kind) => k = Bytes(op.kind)
    <3>1. ReadsAt(back.b, p, Asked)
      BY <1>7, <1>8
    <3> QED BY <1>4, <1>8, <3>1, SizeAssumption, ReadIs
  <2> HIDE DEF t
  <2> QED BY <1>2, <1>8, <2>1
<1> HIDE DEF t
<1>10. ReadsAt(store', Asked, Asked) /\ SameWriting(store', store)
  <2>1. Larger(Asked, p + Bytes(op.kind)) = Asked
    BY <1>1, <1>5 DEF Larger
  <2>2. ReadsAt(t.b, Asked, Asked)
    BY <1>5, <1>9, <2>1 DEF Takes
  <2>3. SameWriting(t.b, store)
    BY <1>7, <1>9 DEF Takes, SameWriting
  <2> QED BY <1>2, <2>2, <2>3
<1>11. Asked' = Asked /\ store' \in Backends
  BY <1>10 DEF ReadsAt, Asked
<1>12. LogOK' /\ WritingOK'
  BY <1>2, <1>10, <1>11, WritingStays
<1>13. got' \in Seq(Seq(Bit)) /\ Len(got)' = n
  <2>1. t.out \in Seq(Bit)
    BY <1>9 DEF Readers
  <2> QED BY <1>2, <1>3, <2>1, ExceptSeq
<1>14. ReadingOK'
  <2>1. r' \in [byte : Byte, bits : 0..ByteBits]
    BY <1>2, <1>9 DEF Readers
  <2>2. Len(got)' <= Len(log)'
    BY <1>2, <1>3, <1>13
  <2>3. CanReadAgain'
    BY <1>2 DEF CanReadAgain
  <2> QED BY <1>2, <1>10, <1>11, <1>13, <2>1, <2>2, <2>3 DEF ReadingOK
<1> QED BY <1>12, <1>14

THEOREM BytesInvariant == Spec => []BytesInv
<1>1. Init => BytesInv
  BY BytesInit
<1>2. BytesInv /\ [Next]_vars => BytesInv'
  <2> SUFFICES ASSUME BytesInv, [Next]_vars
               PROVE  BytesInv'
    OBVIOUS
  <2>1. bitStream' = bitStream
    BY DEF Next, Call, Patch, HandOver, ReadNext, ReadAgain, vars, writing
  <2> SUFFICES ASSUME ~bitStream
               PROVE  LogOK' /\ WritingOK' /\ ReadingOK'
    BY <2>1 DEF BytesInv
  <2>2. LogOK /\ WritingOK /\ ReadingOK
    BY DEF BytesInv
  <2>3. ASSUME NEW kind \in Kinds, NEW bits \in Payloads(kind), Call(kind, bits)
        PROVE  LogOK' /\ WritingOK' /\ ReadingOK'
    BY <2>2, <2>3, CallKeeps
  <2>4. ASSUME NEW i \in 1..MaxOps, Patch(i)
        PROVE  LogOK' /\ WritingOK' /\ ReadingOK'
    BY <2>2, <2>4, PatchKeeps
  <2>5. CASE HandOver
    BY <2>2, <2>5, HandOverKeeps
  <2>6. CASE ReadNext
    BY <2>2, <2>6, ReadNextKeeps
  <2>7. CASE ReadAgain
    BY <2>2, <2>7, ReadAgainKeeps
  <2>8. CASE UNCHANGED vars
    <3>1. /\ UNCHANGED <<log, w, patched, reading, told, store, r, start, again, got>>
      BY <2>8 DEF vars, writing, progress
    <3>2. LogOK'
      BY <2>2, <3>1 DEF LogOK
    <3>3. WritingOK'
      BY <2>2, <3>1 DEF WritingOK, Now
    <3>4. ReadingOK'
      BY <2>2, <3>1 DEF ReadingOK, CanReadAgain, Asked
    <3> QED BY <3>2, <3>3, <3>4
  <2> QED BY <2>3, <2>4, <2>5, <2>6, <2>7, <2>8 DEF Next
<1> QED BY <1>1, <1>2, PTL DEF Spec

-----------------------------------------------------------------------------
(* The bytes that the calls asked to write, whether or not the rest of a   *)
(* byte has gone out.                                                      *)
LEMMA ExtentIs ==
  ASSUME ~bitStream, LogOK, WritingOK
  PROVE  Extent = Now
<1>1. ByteBits \in Nat /\ ByteBits > 1 /\ Now \in Nat /\ w.bits \in 0..ByteBits-1
  BY SizeAssumption DEF SizeAssumption, WritingOK, WritesAt
<1>2. Len(WireUpTo(Len(log))) = Total(log)
  BY DEF WireUpTo, Total, Wires, Wire, WireOf
<1>3. Total(log) \in Nat /\ w.bits \in Nat
  BY <1>1, SizeAssumption, TotalType DEF LogOK
<1> DEFINE x == ByteBits * Now
           rest == (Total(log) - w.bits + ByteBits - 1) - x
<1>4. x \in Nat
  BY <1>1
<1>5. rest \in 0..ByteBits-1
  <2>1. CASE reading
    <3>1. w.bits = 0 /\ Total(log) <= x /\ x < Total(log) + ByteBits
      BY <2>1 DEF WritingOK
    <3> HIDE DEF x
    <3> QED BY <1>1, <1>3, <1>4, <3>1
  <2>2. CASE ~reading
    <3>1. Total(log) = x + w.bits
      BY <2>2 DEF WritingOK
    <3> HIDE DEF x
    <3> QED BY <1>1, <1>3, <1>4, <3>1
  <2> QED BY <2>1, <2>2
<1>6. Total(log) - w.bits + ByteBits - 1 = ByteBits * Now + rest
  <2> HIDE DEF x
  <2>1. Total(log) - w.bits + ByteBits - 1 = x + rest
    BY <1>1, <1>3, <1>4
  <2> QED BY <2>1 DEF x
<1> HIDE DEF x, rest
<1>7. \A a, b, c \in Nat : b > 0 /\ c < b => (b * a + c) \div b = a
  OBVIOUS
<1>8. rest \in Nat /\ rest < ByteBits
  BY <1>1, <1>5
<1>9. (ByteBits * Now + rest) \div ByteBits = Now
  BY <1>1, <1>7, <1>8
<1> QED BY <1>2, <1>6, <1>9 DEF Extent

(* For any program: counting, buffering and streaming agree on how much    *)
(* was written and where the next byte goes, also after the program went   *)
(* back and replaced a call, and on what they answer when they are asked   *)
(* for the length (writeBytes, setWritePosition and getWriteLength).       *)
THEOREM BitsWritersAgree == Spec => []WritersAgree
<1>1. BytesInv => WritersAgree
  <2> SUFFICES ASSUME ~bitStream, LogOK, WritingOK
               PROVE  WritersAgree
    BY DEF BytesInv, WritersAgree
  <2>1. Extent = Now /\ WritesAt(store, Now, Now) /\ store \in Backends
    BY ExtentIs DEF WritingOK, WritesAt
  <2>2. BufferSize \in Nat /\ Now \in Nat
    BY <2>1, SizeAssumption DEF SizeAssumption, WritesAt
  <2>3. {Len(store.buffer), Len(store.mem.memory)} \subseteq 0..BufferSize
    <3>1. Len(store.buffer) \in Nat /\ Len(store.mem.memory) \in Nat
      BY <2>1, LenProperties DEF Backends, Memories
    <3>2. Len(store.buffer) <= BufferSize /\ Len(store.mem.memory) <= BufferSize
      BY <2>1 DEF WritesAt
    <3> QED BY <2>2, <3>1, <3>2
  <2>4. ~store.wfailed => Now <= BufferSize
    <3>1. ~(Now > BufferSize) => Now <= BufferSize
      BY <2>2
    <3> QED BY <2>1, <3>1 DEF WritesAt
  <2>5. reading => told = [buffer |-> BufferSize, count |-> store.count_write,
                           mem |-> IF store.wfailed THEN -1 ELSE BufferSize,
                           csb |-> Now]
    BY DEF WritingOK
  <2>6. /\ store.count_write_index = Now /\ store.csb.write_pos = Now
        /\ store.csb.length = Now /\ store.count_write = store.csb.total_bytes_written
        /\ store.wfailed = (Now > BufferSize)
        /\ Now <= BufferSize => /\ store.buffer = store.mem.memory
                                /\ store.buffer_write_index = Now /\ store.mem.pptr = Now
    BY <2>1 DEF WritesAt
  <2>7. store.count_write >= Now
    <3>1. Now <= store.count_write /\ store.count_write \in Int
      BY <2>1 DEF WritesAt, Backends
    <3> QED BY <2>2, <3>1
  <2>8. ~patched => store.count_write = Now
    BY DEF WritingOK
  <2> HIDE DEF Now, Extent
  <2> QED BY <2>1, <2>3, <2>4, <2>5, <2>6, <2>7, <2>8 DEF WritersAgree
<1> QED BY <1>1, BytesInvariant, PTL

(* For any program: the readers agree on where they are, also after one    *)
(* went back; at the end of the memory the stream fails and the counting   *)
(* stream stops (readBytes, setReadPosition and counting_streambuf's get   *)
(* area).                                                                  *)
THEOREM BitsReadersAgree == Spec => []ReadersAgree
<1>1. BytesInv => ReadersAgree
  <2> SUFFICES ASSUME ~bitStream, ReadingOK
               PROVE  ReadersAgree
    BY DEF BytesInv, ReadersAgree
  <2>1. /\ ReadsAt(store, Asked, Asked) /\ (~again => AreaExact(store))
        /\ store.rfailed = (Asked > BufferSize)
    BY DEF ReadingOK, ReadsAt
  <2>2. BufferSize \in Nat /\ Asked \in Nat
    BY <2>1, SizeAssumption DEF SizeAssumption, ReadsAt
  <2>3. (~store.rfailed => Asked <= BufferSize) /\ (store.rfailed => ~(Asked <= BufferSize))
    <3>1. (Asked > BufferSize) <=> ~(Asked <= BufferSize)
      BY <2>2
    <3> QED BY <2>1, <3>1
  <2>4. store.csb.read_pos = IF store.rfailed THEN BufferSize ELSE Asked
    BY <2>1, <2>3 DEF ReadsAt, Smaller
  <2>5. Asked <= BufferSize => store.buffer_read_index = Asked /\ store.mem.gptr = Asked
    BY <2>1 DEF ReadsAt
  <2>6. store.count_read_index = Asked
    BY DEF Asked
  <2> HIDE DEF Asked
  <2> QED BY <2>1, <2>3, <2>4, <2>5, <2>6 DEF ReadersAgree, AreaExact
<1> QED BY <1>1, BytesInvariant, PTL

(***************************************************************************)
(* What is in the buffer, with bitStream and without.  Only the buffer and *)
(* its two positions matter here, whatever the other backends hold.        *)
(***************************************************************************)
Records(S) == [buffer : S, buffer_write_index : S, buffer_read_index : S,
               count_write : S, count_write_index : S, count_read_index : S,
               mem : S, wfailed : S, rfailed : S, csb : S]
IsRecord(b) == \E S : b \in Records(S)

(* The buffer as it is after bytes were written, or not for want of room.  *)
Laid(b, c, bytes) ==
  /\ IsRecord(c) /\ c.buffer_read_index = b.buffer_read_index
  /\ b.buffer_write_index <= BufferSize - Len(bytes) =>
       /\ c.buffer = Mem!Over(b.buffer, b.buffer_write_index, bytes)
       /\ c.buffer_write_index = b.buffer_write_index + Len(bytes)
  /\ ~(b.buffer_write_index <= BufferSize - Len(bytes)) =>
       c.buffer = b.buffer /\ c.buffer_write_index = b.buffer_write_index
SameBuffer(b, c) ==
  /\ IsRecord(c) /\ c.buffer = b.buffer
  /\ c.buffer_write_index = b.buffer_write_index
  /\ c.buffer_read_index = b.buffer_read_index

LEMMA LaidByBuffer ==
  ASSUME NEW b, IsRecord(b), NEW bytes
  PROVE  Laid(b, BufferWrite(b, bytes), bytes)
<1> DEFINE over == Mem!Over(b.buffer, b.buffer_write_index, bytes)
           index == b.buffer_write_index + Len(bytes)
           c == [b EXCEPT !.buffer = over, !.buffer_write_index = index]
<1>1. /\ IsRecord(c) /\ c.buffer = over /\ c.buffer_write_index = index
      /\ c.buffer_read_index = b.buffer_read_index
  <2>1. PICK R : b \in Records(R)
    BY DEF IsRecord
  <2> DEFINE S == R \cup {over, index}
  <2>2. b \in Records(S) /\ {over, index} \subseteq S
    BY <2>1 DEF Records
  <2> HIDE DEF over, index, S
  <2>3. c \in Records(S)
    BY <2>2 DEF Records
  <2>4. IsRecord(c)
    BY <2>3 DEF IsRecord
  <2> QED BY <2>2, <2>4 DEF Records
<1>2. CASE b.buffer_write_index <= BufferSize - Len(bytes)
  <2>1. BufferWrite(b, bytes) = c
    BY <1>2 DEF BufferWrite
  <2> HIDE DEF c
  <2> QED BY <1>1, <1>2, <2>1 DEF Laid
<1>3. CASE ~(b.buffer_write_index <= BufferSize - Len(bytes))
  <2>1. BufferWrite(b, bytes) = b
    BY <1>3 DEF BufferWrite
  <2> QED BY <1>3, <2>1 DEF Laid
<1> QED BY <1>2, <1>3

LEMMA LaidByStream ==
  ASSUME NEW b, IsRecord(b), NEW bytes
  PROVE  SameBuffer(b, StreamWrite(b, bytes))
<1> DEFINE m == Mem!xsputn(b.mem, bytes)
           f == Len(bytes) > BufferSize - b.mem.pptr
           c == [b EXCEPT !.mem = m, !.wfailed = f]
<1>1. StreamWrite(b, bytes) = IF b.wfailed THEN b ELSE c
  BY DEF StreamWrite
<1>2. SameBuffer(b, c)
  <2>1. PICK R : b \in Records(R)
    BY DEF IsRecord
  <2> DEFINE S == R \cup {m, f}
  <2>2. b \in Records(S) /\ {m, f} \subseteq S
    BY <2>1 DEF Records
  <2> HIDE DEF m, f, S
  <2>3. c \in Records(S)
    BY <2>2 DEF Records
  <2>4. IsRecord(c)
    BY <2>3 DEF IsRecord
  <2> QED BY <2>2, <2>4 DEF Records, SameBuffer
<1>3. SameBuffer(b, b)
  BY DEF SameBuffer
<1> HIDE DEF c
<1> QED BY <1>1, <1>2, <1>3

LEMMA LaidByCount ==
  ASSUME NEW b, IsRecord(b), NEW n
  PROVE  SameBuffer(b, CountWrite(b, n))
<1> DEFINE x == b.count_write + n
           y == b.count_write_index + n
           z == Csb!xsputn(b.csb, n)
           c == [b EXCEPT !.count_write = x, !.count_write_index = y, !.csb = z]
<1>1. CountWrite(b, n) = c
  BY DEF CountWrite
<1>2. SameBuffer(b, c)
  <2>1. PICK R : b \in Records(R)
    BY DEF IsRecord
  <2> DEFINE S == R \cup {x, y, z}
  <2>2. b \in Records(S) /\ {x, y, z} \subseteq S
    BY <2>1 DEF Records
  <2> HIDE DEF x, y, z, S
  <2>3. c \in Records(S)
    BY <2>2 DEF Records
  <2>4. IsRecord(c)
    BY <2>3 DEF IsRecord
  <2> QED BY <2>2, <2>4 DEF Records, SameBuffer
<1> QED BY <1>1, <1>2

LEMMA LaidByAll ==
  ASSUME NEW b, IsRecord(b), NEW bytes
  PROVE  Laid(b, WriteAll(b, bytes), bytes)
<1> DEFINE c == BufferWrite(b, bytes)
           d == StreamWrite(c, bytes)
           e == CountWrite(d, Len(bytes))
<1>1. Laid(b, c, bytes)
  BY LaidByBuffer
<1>2. SameBuffer(c, d)
  <2>1. IsRecord(c)
    BY <1>1 DEF Laid
  <2> HIDE DEF c
  <2> QED BY <2>1, LaidByStream
<1>3. SameBuffer(d, e)
  <2>1. IsRecord(d)
    BY <1>2 DEF SameBuffer
  <2> HIDE DEF d
  <2> QED BY <2>1, LaidByCount
<1>4. WriteAll(b, bytes) = e
  BY DEF WriteAll
<1> HIDE DEF c, d, e
<1>5. Laid(b, e, bytes)
  BY <1>1, <1>2, <1>3 DEF Laid, SameBuffer
<1> QED BY <1>4, <1>5

(* Seeking and asking for the length. *)
LEMMA SeekOutKeepsBuffer ==
  ASSUME NEW b, IsRecord(b), NEW at, NEW way
  PROVE  SameBuffer(b, SeekOut(b, at, way))
<1> DEFINE m == IF b.wfailed THEN b.mem ELSE Mem!seekoff_out(b.mem, at.mem, way)
           z == Csb!seekoff_out(b.csb, at.csb, way)
           c == [b EXCEPT !.mem = m, !.csb = z]
<1>1. SeekOut(b, at, way) = c
  BY DEF SeekOut
<1>2. SameBuffer(b, c)
  <2>1. PICK R : b \in Records(R)
    BY DEF IsRecord
  <2> DEFINE S == R \cup {m, z}
  <2>2. b \in Records(S) /\ {m, z} \subseteq S
    BY <2>1 DEF Records
  <2> HIDE DEF m, z, S
  <2>3. c \in Records(S)
    BY <2>2 DEF Records
  <2>4. IsRecord(c)
    BY <2>3 DEF IsRecord
  <2> QED BY <2>2, <2>4 DEF Records, SameBuffer
<1> QED BY <1>1, <1>2

LEMMA SeekInKeepsBuffer ==
  ASSUME NEW b, IsRecord(b), NEW at, NEW way
  PROVE  SameBuffer(b, SeekIn(b, at, way))
<1> DEFINE m == IF b.rfailed THEN b.mem ELSE Mem!seekoff_in(b.mem, at.mem, way)
           z == Csb!seekoff_in(b.csb, at.csb, way)
           c == [b EXCEPT !.mem = m, !.csb = z]
<1>1. SeekIn(b, at, way) = c
  BY DEF SeekIn
<1>2. SameBuffer(b, c)
  <2>1. PICK R : b \in Records(R)
    BY DEF IsRecord
  <2> DEFINE S == R \cup {m, z}
  <2>2. b \in Records(S) /\ {m, z} \subseteq S
    BY <2>1 DEF Records
  <2> HIDE DEF m, z, S
  <2>3. c \in Records(S)
    BY <2>2 DEF Records
  <2>4. IsRecord(c)
    BY <2>3 DEF IsRecord
  <2> QED BY <2>2, <2>4 DEF Records, SameBuffer
<1> QED BY <1>1, <1>2

LEMMA LengthKeepsBuffer ==
  ASSUME NEW b, IsRecord(b)
  PROVE  SameBuffer(b, getWriteLength(b))
<1> DEFINE c == SeekOut(b, [mem |-> 0, csb |-> 0], "end")
           at == getWritePosition(b)
           d == SeekOut(c, at, "beg")
<1>1. SameBuffer(b, c)
  BY SeekOutKeepsBuffer
<1> HIDE DEF c, at
<1>2. SameBuffer(c, d)
  BY <1>1, SeekOutKeepsBuffer DEF SameBuffer
<1>3. getWriteLength(b) = d
  BY DEF getWriteLength, AtEnd, c, at
<1> HIDE DEF d
<1> QED BY <1>1, <1>2, <1>3 DEF SameBuffer

LEMMA GoneTo ==
  ASSUME NEW b, IsRecord(b), NEW at
  PROVE  /\ LET c == setWritePosition(b, at)
            IN  /\ IsRecord(c) /\ c.buffer = b.buffer
                /\ c.buffer_read_index = b.buffer_read_index
                /\ c.buffer_write_index = at.buffer
         /\ LET c == setReadPosition(b, at)
            IN  /\ IsRecord(c) /\ c.buffer = b.buffer
                /\ c.buffer_read_index = at.buffer
                /\ c.buffer_write_index = b.buffer_write_index
<1> DEFINE x == at.buffer
           y == at.count
           e == [b EXCEPT !.buffer_write_index = x, !.count_write_index = y]
           f == [b EXCEPT !.buffer_read_index = x, !.count_read_index = y]
<1>1. /\ IsRecord(e) /\ e.buffer = b.buffer
      /\ e.buffer_read_index = b.buffer_read_index /\ e.buffer_write_index = x
  <2>1. PICK R : b \in Records(R)
    BY DEF IsRecord
  <2> DEFINE S == R \cup {x, y}
  <2>2. b \in Records(S) /\ {x, y} \subseteq S
    BY <2>1 DEF Records
  <2> HIDE DEF x, y, S
  <2>3. e \in Records(S)
    BY <2>2 DEF Records
  <2>4. IsRecord(e)
    BY <2>3 DEF IsRecord
  <2> QED BY <2>2, <2>4 DEF Records
<1>2. /\ IsRecord(f) /\ f.buffer = b.buffer
      /\ f.buffer_write_index = b.buffer_write_index /\ f.buffer_read_index = x
  <2>1. PICK R : b \in Records(R)
    BY DEF IsRecord
  <2> DEFINE S == R \cup {x, y}
  <2>2. b \in Records(S) /\ {x, y} \subseteq S
    BY <2>1 DEF Records
  <2> HIDE DEF x, y, S
  <2>3. f \in Records(S)
    BY <2>2 DEF Records
  <2>4. IsRecord(f)
    BY <2>3 DEF IsRecord
  <2> QED BY <2>2, <2>4 DEF Records
<1>3. setWritePosition(b, at) = SeekOut(e, at, "beg")
  BY DEF setWritePosition
<1>4. setReadPosition(b, at) = SeekIn(f, at, "beg")
  BY DEF setReadPosition
<1> HIDE DEF e, f
<1>5. SameBuffer(e, SeekOut(e, at, "beg")) /\ SameBuffer(f, SeekIn(f, at, "beg"))
  BY <1>1, <1>2, SeekOutKeepsBuffer, SeekInKeepsBuffer
<1> QED BY <1>1, <1>2, <1>3, <1>4, <1>5 DEF SameBuffer

(* Reading n bytes moves the position of the buffer if it has as many.     *)
Fetched(b, c, n) ==
  /\ IsRecord(c) /\ c.buffer = b.buffer
  /\ c.buffer_write_index = b.buffer_write_index
  /\ c.buffer_read_index = IF BufferReads(b, n) THEN b.buffer_read_index + n
                           ELSE b.buffer_read_index

LEMMA FetchedByAll ==
  ASSUME NEW b, IsRecord(b), NEW n
  PROVE  Fetched(b, BufferRead(b, n), n) /\ Fetched(b, ReadAll(b, n), n)
<1> DEFINE i == b.buffer_read_index + n
           c == BufferRead(b, n)
           d == StreamRead(c, n)
           e == CountRead(d, n)
<1>1. Fetched(b, c, n)
  <2> DEFINE new == [b EXCEPT !.buffer_read_index = i]
  <2>1. c = IF BufferReads(b, n) THEN new ELSE b
    BY DEF BufferRead
  <2>2. /\ IsRecord(new) /\ new.buffer = b.buffer
        /\ new.buffer_write_index = b.buffer_write_index /\ new.buffer_read_index = i
    <3>1. PICK R : b \in Records(R)
      BY DEF IsRecord
    <3> DEFINE S == R \cup {i}
    <3>2. b \in Records(S) /\ {i} \subseteq S
      BY <3>1 DEF Records
    <3> HIDE DEF i, S
    <3>3. new \in Records(S)
      BY <3>2 DEF Records
    <3>4. IsRecord(new)
      BY <3>3 DEF IsRecord
    <3> QED BY <3>2, <3>4 DEF Records
  <2> HIDE DEF new, c
  <2> QED BY <2>1, <2>2 DEF Fetched
<1>2. SameBuffer(c, d)
  <2> HIDE DEF c
  <2> DEFINE m == Mem!xsgetn(c.mem, n)
             f == n > BufferSize - c.mem.gptr
             new == [c EXCEPT !.mem = m, !.rfailed = f]
  <2>1. IsRecord(c)
    BY <1>1 DEF Fetched
  <2>2. d = IF c.rfailed THEN c ELSE new
    BY DEF StreamRead
  <2>3. SameBuffer(c, new)
    <3>1. PICK R : c \in Records(R)
      BY <2>1 DEF IsRecord
    <3> DEFINE S == R \cup {m, f}
    <3>2. c \in Records(S) /\ {m, f} \subseteq S
      BY <3>1 DEF Records
    <3> HIDE DEF m, f, S
    <3>3. new \in Records(S)
      BY <3>2 DEF Records
    <3>4. IsRecord(new)
      BY <3>3 DEF IsRecord
    <3> QED BY <3>2, <3>4 DEF Records, SameBuffer
  <2>4. SameBuffer(c, c)
    BY <2>1 DEF SameBuffer
  <2> HIDE DEF new, d
  <2> QED BY <2>2, <2>3, <2>4
<1>3. SameBuffer(d, e)
  <2> HIDE DEF d
  <2> DEFINE x == d.count_read_index + n
             z == Csb!xsgetn(d.csb, n)
             new == [d EXCEPT !.count_read_index = x, !.csb = z]
  <2>1. IsRecord(d)
    BY <1>2 DEF SameBuffer
  <2>2. e = new
    BY DEF CountRead
  <2>3. SameBuffer(d, new)
    <3>1. PICK R : d \in Records(R)
      BY <2>1 DEF IsRecord
    <3> DEFINE S == R \cup {x, z}
    <3>2. d \in Records(S) /\ {x, z} \subseteq S
      BY <3>1 DEF Records
    <3> HIDE DEF x, z, S
    <3>3. new \in Records(S)
      BY <3>2 DEF Records
    <3>4. IsRecord(new)
      BY <3>3 DEF IsRecord
    <3> QED BY <3>2, <3>4 DEF Records, SameBuffer
  <2> QED BY <2>2, <2>3
<1>4. ReadAll(b, n) = e
  BY DEF ReadAll
<1> HIDE DEF c, d, e
<1>5. Fetched(b, e, n)
  BY <1>1, <1>2, <1>3 DEF Fetched, SameBuffer
<1> QED BY <1>1, <1>4, <1>5 DEF c

-----------------------------------------------------------------------------
(* Sequences one after the other, bytes laid over others, and the bits of  *)
(* a sequence of bytes.                                                    *)
LEMMA JoinIs ==
  ASSUME NEW S, NEW s \in Seq(S), NEW t \in Seq(S)
  PROVE  /\ s \o t \in Seq(S) /\ Len(s \o t) = Len(s) + Len(t)
         /\ Len(s) \in Nat /\ Len(t) \in Nat
         /\ \A i \in 1..Len(s) : (s \o t)[i] = s[i]
         /\ \A i \in 1..Len(t) : (s \o t)[Len(s) + i] = t[i]
<1>1. Len(s) \in Nat /\ Len(t) \in Nat
  BY LenProperties
<1>2. /\ s \o t \in Seq(S) /\ Len(s \o t) = Len(s) + Len(t)
      /\ \A i \in 1..Len(s) + Len(t) :
           (s \o t)[i] = IF i <= Len(s) THEN s[i] ELSE t[i - Len(s)]
  BY ConcatProperties
<1>3. ASSUME NEW i \in 1..Len(t) PROVE (s \o t)[Len(s) + i] = t[i]
  <2>1. /\ Len(s) + i \in 1..Len(s) + Len(t) /\ ~(Len(s) + i <= Len(s))
        /\ (Len(s) + i) - Len(s) = i
    BY <1>1
  <2> QED BY <1>2, <2>1
<1>4. \A i \in 1..Len(s) : i \in 1..Len(s) + Len(t) /\ i <= Len(s)
  BY <1>1
<1> QED BY <1>1, <1>2, <1>3, <1>4

(* Two sequences are joined when a third is the one and then the other.    *)
LEMMA JoinedWhen ==
  ASSUME NEW S, NEW s \in Seq(S), NEW t \in Seq(S), NEW u \in Seq(S),
         Len(u) = Len(s) + Len(t), \A i \in 1..Len(s) : u[i] = s[i],
         \A i \in 1..Len(t) : u[Len(s) + i] = t[i]
  PROVE  u = s \o t
<1>1. /\ s \o t \in Seq(S) /\ Len(s \o t) = Len(s) + Len(t)
      /\ Len(s) \in Nat /\ Len(t) \in Nat
      /\ \A i \in 1..Len(s) : (s \o t)[i] = s[i]
      /\ \A i \in 1..Len(t) : (s \o t)[Len(s) + i] = t[i]
  BY JoinIs
<1>2. ASSUME NEW i \in 1..Len(u) PROVE u[i] = (s \o t)[i]
  <2>1. CASE i <= Len(s)
    <3>1. i \in 1..Len(s)
      BY <1>1, <2>1
    <3> QED BY <1>1, <3>1
  <2>2. CASE i > Len(s)
    <3>1. i - Len(s) \in 1..Len(t) /\ Len(s) + (i - Len(s)) = i
      BY <1>1, <2>2
    <3>2. u[Len(s) + (i - Len(s))] = (s \o t)[Len(s) + (i - Len(s))]
      BY <1>1, <3>1
    <3> QED BY <3>1, <3>2
  <2> QED BY <1>1, <2>1, <2>2
<1> HIDE DEF JoinIs
<1> QED BY <1>1, <1>2, SeqEqual

LEMMA Multiples ==
  ASSUME SizeAssumption, NEW m \in Nat, NEW n \in Nat
  PROVE  /\ ByteBits * m \in Nat /\ ByteBits * n \in Nat
         /\ ByteBits * (m + 1) = ByteBits * m + ByteBits
         /\ ByteBits * (m + n) = ByteBits * m + ByteBits * n
         /\ m <= n => ByteBits * m <= ByteBits * n
         /\ m < n => ByteBits * m + ByteBits <= ByteBits * n
         /\ ByteBits * m <= ByteBits * n => m <= n
<1>1. ByteBits \in Nat /\ ByteBits > 1
  BY DEF SizeAssumption
<1>2. ASSUME NEW i \in Nat, NEW j \in Nat
      PROVE  /\ ByteBits * i \in Nat
             /\ ByteBits * (i + j) = ByteBits * i + ByteBits * j
  BY <1>1
<1>3. ByteBits * (m + 1) = ByteBits * m + ByteBits
  BY <1>1
<1>4. ASSUME NEW i \in Nat, NEW j \in Nat, i < j
      PROVE  ByteBits * i + ByteBits <= ByteBits * j
  <2>1. PICK d \in Nat : j = (i + 1) + d
    <3>1. j - (i + 1) \in Nat /\ j = (i + 1) + (j - (i + 1))
      BY <1>4
    <3> QED BY <3>1
  <2>2. ByteBits * j = ByteBits * (i + 1) + ByteBits * d
    BY <1>2, <2>1
  <2>3. ByteBits * (i + 1) = ByteBits * i + ByteBits
    BY <1>1
  <2>4. ByteBits * d \in Nat /\ ByteBits * i \in Nat
    BY <1>2
  <2> QED BY <1>1, <2>2, <2>3, <2>4
<1>5. m < n => ByteBits * m + ByteBits <= ByteBits * n
  BY <1>4
<1>6. n < m => ByteBits * n + ByteBits <= ByteBits * m
  BY <1>4
<1>7. ByteBits * m \in Nat /\ ByteBits * n \in Nat
  BY <1>2
<1>8. ByteBits * (m + n) = ByteBits * m + ByteBits * n
  BY <1>2
<1>9. m <= n => ByteBits * m <= ByteBits * n
  <2>1. CASE m < n
    BY <1>1, <1>5, <1>7, <2>1
  <2>2. CASE m = n
    BY <1>7, <2>2
  <2> QED BY <2>1, <2>2
<1>10. ByteBits * m <= ByteBits * n => m <= n
  BY <1>1, <1>6, <1>7
<1> QED BY <1>3, <1>5, <1>7, <1>8, <1>9, <1>10

(* A number of bits is so many bytes and so many bits in only one way.     *)
LEMMA OneWay ==
  ASSUME SizeAssumption, NEW a \in Nat, NEW b \in Nat,
         NEW x \in 0..ByteBits-1, NEW y \in 0..ByteBits-1,
         ByteBits * a + x = ByteBits * b + y
  PROVE  a = b /\ x = y
<1>1. ByteBits \in Nat /\ ByteBits > 1
  BY DEF SizeAssumption
<1>2. /\ a < b => ByteBits * a + ByteBits <= ByteBits * b
      /\ ByteBits * a \in Nat /\ ByteBits * b \in Nat
  BY Multiples
<1>3. b < a => ByteBits * b + ByteBits <= ByteBits * a
  BY Multiples
<1>4. ~(a < b) /\ ~(b < a)
  BY <1>1, <1>2, <1>3
<1> QED BY <1>2, <1>4

(* What stands where after bytes were laid over a memory.                  *)
LEMMA OverAt ==
  ASSUME NEW memory \in Seq(Byte), NEW bytes \in Seq(Byte),
         NEW index \in 0..Len(memory)
  PROVE  LET over == Mem!Over(memory, index, bytes)
             n == Len(bytes)
         IN  /\ over \in Seq(Byte) /\ Len(over) = Larger(Len(memory), index + n)
             /\ \A k \in 1..index : over[k] = memory[k]
             /\ \A k \in 1..n : over[index + k] = bytes[k]
             /\ \A k \in index+n+1..Len(memory) : over[k] = memory[k]
<1> DEFINE L == Len(memory)
           n == Len(bytes)
           over == Mem!Over(memory, index, bytes)
           front == SubSeq(memory, 1, index)
           rest == SubSeq(memory, index + n + 1, L)
           both == front \o bytes
<1>1. L \in Nat /\ n \in Nat /\ index \in Nat /\ index <= L
  BY LenProperties
<1>2. \A i \in 1..L : memory[i] \in Byte
  BY ElementOfSeq
<1>3. /\ front \in Seq(Byte) /\ Len(front) = index
      /\ \A i \in 1..index : front[i] = memory[i]
  <2>1. \A i \in 1..index : memory[i] \in Byte
    BY <1>1, <1>2
  <2>2. /\ front \in Seq(Byte)
        /\ Len(front) = IF 1 <= index THEN index - 1 + 1 ELSE 0
        /\ \A i \in 1..index - 1 + 1 : front[i] = memory[1 + i - 1]
    BY <1>1, <2>1, SubSeqProperties
  <2>3. index - 1 + 1 = index /\ \A i \in 1..index : 1 + i - 1 = i
    BY <1>1
  <2> HIDE DEF front
  <2> QED BY <1>1, <2>2, <2>3
<1>4. /\ rest \in Seq(Byte)
      /\ \A k \in index+n+1..L : /\ k - (index + n) \in 1..Len(rest)
                                 /\ rest[k - (index + n)] = memory[k]
  <2>1. \A i \in (index + n + 1)..L : memory[i] \in Byte
    BY <1>1, <1>2
  <2>2. /\ rest \in Seq(Byte)
        /\ Len(rest) = IF index + n + 1 <= L THEN L - (index + n + 1) + 1 ELSE 0
        /\ \A i \in 1..L - (index + n + 1) + 1 : rest[i] = memory[index + n + 1 + i - 1]
    BY <1>1, <2>1, SubSeqProperties
  <2> HIDE DEF rest
  <2>3. ASSUME NEW k \in index+n+1..L
        PROVE  /\ k - (index + n) \in 1..Len(rest)
               /\ rest[k - (index + n)] = memory[k]
    <3>1. /\ k - (index + n) \in 1..L - (index + n + 1) + 1
          /\ index + n + 1 + (k - (index + n)) - 1 = k
          /\ index + n + 1 <= L
      BY <1>1
    <3>2. Len(rest) = L - (index + n + 1) + 1
      BY <2>2, <3>1
    <3>3. rest[k - (index + n)] = memory[index + n + 1 + (k - (index + n)) - 1]
      BY <2>2, <3>1
    <3> QED BY <3>1, <3>2, <3>3
  <2> QED BY <2>2, <2>3
<1> HIDE DEF front, rest
<1>5. /\ both \in Seq(Byte) /\ Len(both) = index + n
      /\ \A k \in 1..index : both[k] = front[k]
      /\ \A k \in 1..n : both[index + k] = bytes[k]
  <2>1. /\ both \in Seq(Byte) /\ Len(both) = Len(front) + Len(bytes)
        /\ \A k \in 1..Len(front) : both[k] = front[k]
        /\ \A k \in 1..Len(bytes) : both[Len(front) + k] = bytes[k]
    <3>1. front \in Seq(Byte) /\ bytes \in Seq(Byte)
      BY <1>3
    <3> QED BY ONLY <3>1, JoinIs
  <2> HIDE DEF both
  <2> QED BY <1>3, <2>1
<1> HIDE DEF both
<1>6. /\ \A k \in 1..index+n : (both \o rest)[k] = both[k]
      /\ \A k \in 1..Len(rest) : (both \o rest)[index + n + k] = rest[k]
  <2>1. /\ \A k \in 1..Len(both) : (both \o rest)[k] = both[k]
        /\ \A k \in 1..Len(rest) : (both \o rest)[Len(both) + k] = rest[k]
    <3>1. both \in Seq(Byte) /\ rest \in Seq(Byte)
      BY <1>4, <1>5
    <3> QED BY ONLY <3>1, JoinIs
  <2>2. Len(both) = index + n
    BY <1>5
  <2> QED BY ONLY <2>1, <2>2, Zenon
<1>7. over = both \o rest
  BY DEF Mem!Over, both, front, rest
<1>8. over \in Seq(Byte) /\ Len(over) = Larger(L, index + n)
  BY OverIs
<1> HIDE DEF over
<1>9. \A k \in 1..index : over[k] = memory[k]
  <2> TAKE k \in 1..index
  <2>1. k \in 1..index + n
    BY <1>1
  <2> QED BY <1>3, <1>5, <1>6, <1>7, <2>1
<1>10. \A k \in 1..n : over[index + k] = bytes[k]
  <2> TAKE k \in 1..n
  <2>1. index + k \in 1..index + n
    BY <1>1
  <2>2. over[index + k] = both[index + k]
    BY <1>6, <1>7, <2>1
  <2> QED BY <1>5, <2>2
<1>11. \A k \in index+n+1..L : over[k] = memory[k]
  <2> TAKE k \in index+n+1..L
  <2>1. k - (index + n) \in 1..Len(rest) /\ rest[k - (index + n)] = memory[k]
    BY <1>4
  <2>2. index + n + (k - (index + n)) = k
    BY <1>1
  <2>3. over[index + n + (k - (index + n))] = rest[k - (index + n)]
    BY <1>6, <1>7, <2>1
  <2> QED BY <2>1, <2>2, <2>3
<1> QED BY <1>8, <1>9, <1>10, <1>11 DEF over

(* At the end of the memory, that is to append them.                       *)
LEMMA OverAppends ==
  ASSUME NEW memory \in Seq(Byte), NEW bytes \in Seq(Byte)
  PROVE  Mem!Over(memory, Len(memory), bytes) = memory \o bytes
<1> DEFINE L == Len(memory)
           over == Mem!Over(memory, L, bytes)
<1>1. L \in Nat /\ Len(bytes) \in Nat /\ L \in 0..L
  BY LenProperties
<1>2. /\ over \in Seq(Byte) /\ Len(over) = Larger(L, L + Len(bytes))
      /\ \A k \in 1..L : over[k] = memory[k]
      /\ \A k \in 1..Len(bytes) : over[L + k] = bytes[k]
  BY <1>1, OverAt
<1>3. Len(over) = L + Len(bytes)
  BY <1>1, <1>2 DEF Larger
<1> HIDE DEF over
<1>4. over = memory \o bytes
  BY <1>2, <1>3, JoinedWhen
<1> QED BY <1>4 DEF over

-----------------------------------------------------------------------------
(* Sequences of bits one after the other: the first i of them end at End.  *)
Pre(s, i) == FlattenSeq([k \in 1..i |-> s[k]])
End(s, i) == Len(Pre(s, i))

LEMMA FirstIs ==
  ASSUME NEW S, NEW s \in Seq(S), NEW i \in 0..Len(s)
  PROVE  /\ i \in Nat /\ [k \in 1..i |-> s[k]] \in Seq(S)
         /\ Len([k \in 1..i |-> s[k]]) = i
         /\ [k \in 1..Len(s) |-> s[k]] = s
<1>1. Len(s) \in Nat /\ i \in Nat /\ i <= Len(s)
  BY LenProperties
<1>2. \A k \in 1..Len(s) : s[k] \in S
  BY ElementOfSeq
<1>3. \A k \in 1..i : s[k] \in S
  BY <1>1, <1>2
<1>4. [k \in 1..i |-> s[k]] \in [1..i -> S]
  BY <1>3
<1>5. [k \in 1..Len(s) |-> s[k]] = s
  BY LenProperties
<1> QED BY <1>1, <1>4, <1>5

LEMMA PreIs ==
  ASSUME NEW s \in Seq(Seq(Bit)), NEW i \in 1..Len(s)
  PROVE  /\ Pre(s, 0) = <<>> /\ End(s, 0) = 0
         /\ Pre(s, i) \in Seq(Bit) /\ Pre(s, i - 1) \in Seq(Bit) /\ s[i] \in Seq(Bit)
         /\ End(s, i) \in Nat /\ End(s, i - 1) \in Nat /\ Len(s[i]) \in Nat
         /\ Pre(s, i) = Pre(s, i - 1) \o s[i]
         /\ End(s, i) = End(s, i - 1) + Len(s[i])
<1> DEFINE t == [k \in 1..i |-> s[k]]
           u == [k \in 1..i-1 |-> s[k]]
<1>1. /\ Len(s) \in Nat /\ i \in 0..Len(s) /\ i - 1 \in 0..Len(s)
      /\ i \in 1..i /\ i \in Nat /\ i - 1 \in Nat
  BY LenProperties
<1>2. t \in Seq(Seq(Bit)) /\ Len(t) = i
  BY <1>1, FirstIs
<1>3. u \in Seq(Seq(Bit)) /\ Len(u) = i - 1
  BY <1>1, FirstIs
<1>4. t[i] = s[i] /\ \A k \in 1..i-1 : t[k] = u[k]
  <2>1. \A k \in 1..i-1 : k \in 1..i
    BY <1>1
  <2> QED BY <1>1, <2>1
<1>5. FlattenSeq(t) = FlattenSeq(u) \o t[i]
  <2> HIDE DEF t, u
  <2>1. Len(t) = Len(u) + 1 /\ \A k \in 1..Len(u) : t[k] = u[k]
    BY <1>1, <1>2, <1>3, <1>4
  <2> QED BY <1>2, <1>3, <2>1, FlattenAppend
<1>6. Pre(s, i) = FlattenSeq(t) /\ Pre(s, i - 1) = FlattenSeq(u)
  BY DEF Pre
<1>7. s[i] \in Seq(Bit)
  BY ElementOfSeq
<1>8. Pre(s, i) \in Seq(Bit) /\ Pre(s, i - 1) \in Seq(Bit)
  <2> HIDE DEF t, u
  <2> QED BY <1>2, <1>3, <1>6, FlattenType
<1>9. Pre(s, 0) = <<>>
  <2>1. [k \in 1..0 |-> s[k]] = <<>>
    OBVIOUS
  <2>2. FlattenSeq(<<>>) = <<>>
    BY DEF FlattenSeq
  <2> QED BY <2>1, <2>2 DEF Pre
<1>10. Pre(s, i) = Pre(s, i - 1) \o s[i]
  BY <1>4, <1>5, <1>6
<1>11. End(s, i) = End(s, i - 1) + Len(s[i])
  <2>1. Len(Pre(s, i - 1) \o s[i]) = Len(Pre(s, i - 1)) + Len(s[i])
    BY ONLY <1>7, <1>8, ConcatProperties
  <2> QED BY <1>10, <2>1 DEF End
<1>12. End(s, i) \in Nat /\ End(s, i - 1) \in Nat /\ Len(s[i]) \in Nat
  BY <1>7, <1>8, LenProperties DEF End
<1> QED BY <1>7, <1>8, <1>9, <1>10, <1>11, <1>12 DEF End

LEMMA PreOfNone ==
  ASSUME NEW s
  PROVE  Pre(s, 0) = <<>> /\ End(s, 0) = 0
<1>1. [k \in 1..0 |-> s[k]] = <<>>
  OBVIOUS
<1>2. FlattenSeq(<<>>) = <<>>
  BY DEF FlattenSeq
<1> QED BY <1>1, <1>2 DEF Pre, End

LEMMA PreType ==
  ASSUME NEW s \in Seq(Seq(Bit)), NEW j \in 0..Len(s)
  PROVE  Pre(s, j) \in Seq(Bit) /\ End(s, j) \in Nat
<1> DEFINE t == [k \in 1..j |-> s[k]]
<1>1. t \in Seq(Seq(Bit))
  BY FirstIs
<1>2. Pre(s, j) = FlattenSeq(t)
  BY DEF Pre
<1>3. FlattenSeq(t) \in Seq(Bit)
  <2> HIDE DEF t
  <2> QED BY <1>1, FlattenType
<1> QED BY <1>2, <1>3, LenProperties DEF End

LEMMA PreAll ==
  ASSUME NEW s \in Seq(Seq(Bit))
  PROVE  Pre(s, Len(s)) = FlattenSeq(s) /\ FlattenSeq(s) \in Seq(Bit)
<1>1. [k \in 1..Len(s) |-> s[k]] = s
  BY LenProperties
<1> QED BY <1>1, FlattenType DEF Pre

(* Where the bits of the i-th are, and that there are no others.           *)
LEMMA PreAt ==
  ASSUME NEW s \in Seq(Seq(Bit)), NEW i \in 1..Len(s), NEW j \in i..Len(s)
  PROVE  /\ End(s, i) <= End(s, j)
         /\ \A k \in 1..Len(s[i]) : Pre(s, j)[End(s, i - 1) + k] = s[i][k]
<1> DEFINE Good(m) == /\ End(s, i) <= End(s, m)
                      /\ \A k \in 1..Len(s[i]) : Pre(s, m)[End(s, i - 1) + k] = s[i][k]
           S == {d \in Nat : i + d <= Len(s) => Good(i + d)}
<1>1. Len(s) \in Nat /\ i \in Nat /\ i <= Len(s) /\ 1 <= i
  BY LenProperties
<1>2. /\ Pre(s, i) \in Seq(Bit) /\ Pre(s, i - 1) \in Seq(Bit) /\ s[i] \in Seq(Bit)
      /\ End(s, i) \in Nat /\ End(s, i - 1) \in Nat /\ Len(s[i]) \in Nat
      /\ Pre(s, i) = Pre(s, i - 1) \o s[i]
      /\ End(s, i) = End(s, i - 1) + Len(s[i])
  BY PreIs
<1>3. Good(i)
  <2>1. \A k \in 1..Len(s[i]) :
          (Pre(s, i - 1) \o s[i])[Len(Pre(s, i - 1)) + k] = s[i][k]
    BY ONLY <1>2, JoinIs
  <2> QED BY <1>2, <2>1 DEF End
<1> HIDE DEF Good
<1>4. 0 \in S
  BY <1>1, <1>3
<1>5. ASSUME NEW d \in Nat, d \in S
      PROVE  d + 1 \in S
  <2> SUFFICES ASSUME i + (d + 1) <= Len(s)
               PROVE  Good(i + (d + 1))
    OBVIOUS
  <2> DEFINE m == i + (d + 1)
  <2>1. /\ m \in 1..Len(s) /\ m - 1 = i + d /\ i + d <= Len(s) /\ m - 1 \in Nat
    BY <1>1
  <2>2. Good(m - 1)
    BY <1>5, <2>1
  <2> HIDE DEF m
  <2>3. /\ Pre(s, m) = Pre(s, m - 1) \o s[m] /\ End(s, m) = End(s, m - 1) + Len(s[m])
        /\ Pre(s, m - 1) \in Seq(Bit) /\ s[m] \in Seq(Bit)
        /\ End(s, m - 1) \in Nat /\ Len(s[m]) \in Nat
    BY <2>1, PreIs
  <2>4. End(s, i) <= End(s, m - 1)
        /\ \A k \in 1..Len(s[i]) : Pre(s, m - 1)[End(s, i - 1) + k] = s[i][k]
    BY <2>2 DEF Good
  <2>5. \A p \in 1..End(s, m - 1) : Pre(s, m)[p] = Pre(s, m - 1)[p]
    <3>1. \A p \in 1..Len(Pre(s, m - 1)) : (Pre(s, m - 1) \o s[m])[p] = Pre(s, m - 1)[p]
      BY ONLY <2>3, JoinIs
    <3> QED BY <2>3, <3>1 DEF End
  <2>6. \A k \in 1..Len(s[i]) : End(s, i - 1) + k \in 1..End(s, m - 1)
    <3>1. \A a, b, c \in Nat : a + b <= c => \A k \in 1..b : a + k \in 1..c
      OBVIOUS
    <3>2. /\ End(s, i - 1) \in Nat /\ Len(s[i]) \in Nat /\ End(s, m - 1) \in Nat
          /\ End(s, i - 1) + Len(s[i]) <= End(s, m - 1)
      BY <1>2, <2>3, <2>4
    <3> QED BY ONLY <3>1, <3>2
  <2>7. End(s, i) <= End(s, m)
    BY ONLY <1>2, <2>3, <2>4
  <2>8. Good(m)
    BY <2>4, <2>5, <2>6, <2>7 DEF Good
  <2> QED BY <2>8 DEF m
<1>6. j - i \in Nat /\ i + (j - i) = j /\ j <= Len(s)
  BY <1>1
<1>7. j - i \in S
  <2> HIDE DEF S
  <2> QED BY <1>4, <1>5, <1>6, Induction
<1>8. Good(j)
  BY <1>6, <1>7
<1> QED BY <1>8 DEF Good

LEMMA PreCovers ==
  ASSUME NEW s \in Seq(Seq(Bit)), NEW j \in 0..Len(s), NEW p \in 1..End(s, j)
  PROVE  \E i \in 1..j : \E k \in 1..Len(s[i]) : p = End(s, i - 1) + k
<1> DEFINE Good(n) == \A q \in 1..End(s, n) :
                        \E i \in 1..n : \E k \in 1..Len(s[i]) : q = End(s, i - 1) + k
           S == {n \in Nat : n <= Len(s) => Good(n)}
<1>1. Len(s) \in Nat /\ j \in Nat /\ j <= Len(s)
  BY LenProperties
<1>2. 0 \in S
  BY PreOfNone
<1>3. ASSUME NEW n \in Nat, n \in S
      PROVE  n + 1 \in S
  <2> SUFFICES ASSUME n + 1 <= Len(s)
               PROVE  Good(n + 1)
    OBVIOUS
  <2>1. n + 1 \in 1..Len(s) /\ (n + 1) - 1 = n /\ n <= Len(s)
    BY <1>1
  <2>2. /\ End(s, n + 1) = End(s, n) + Len(s[n + 1])
        /\ End(s, n) \in Nat /\ Len(s[n + 1]) \in Nat
    BY <2>1, PreIs
  <2>3. Good(n)
    BY <1>3, <2>1
  <2> HIDE DEF S
  <2>4. ASSUME NEW q \in 1..End(s, n + 1)
        PROVE  \E i \in 1..n+1 : \E k \in 1..Len(s[i]) : q = End(s, i - 1) + k
    <3>1. CASE q <= End(s, n)
      <4>1. q \in 1..End(s, n)
        BY <2>2, <3>1
      <4>2. PICK i \in 1..n : \E k \in 1..Len(s[i]) : q = End(s, i - 1) + k
        BY <2>3, <4>1
      <4>3. i \in 1..n+1
        OBVIOUS
      <4> QED BY <4>2, <4>3
    <3>2. CASE ~(q <= End(s, n))
      <4> DEFINE k == q - End(s, n)
      <4>1. k \in 1..Len(s[n+1]) /\ q = End(s, n) + k
        BY <2>2, <3>2
      <4>2. q = End(s, (n + 1) - 1) + k /\ n + 1 \in 1..n+1
        BY <2>1, <4>1
      <4> QED BY <4>1, <4>2
    <3> QED BY <3>1, <3>2
  <2> QED BY <2>4
<1>4. j \in S
  <2> HIDE DEF S
  <2> QED BY <1>1, <1>2, <1>3, Induction
<1> QED BY <1>1, <1>4

(* The bits of a sequence of bytes.                                        *)
LEMMA BytesFlatten ==
  ASSUME SizeAssumption, NEW m \in Seq(Byte)
  PROVE  /\ m \in Seq(Seq(Bit)) /\ Len(m) \in Nat
         /\ FlattenSeq(m) \in Seq(Bit) /\ Len(FlattenSeq(m)) = ByteBits * Len(m)
         /\ \A i \in 1..Len(m) : \A k \in 1..ByteBits :
              FlattenSeq(m)[ByteBits * (i - 1) + k] = m[i][k]
         /\ \A p \in 1..ByteBits * Len(m) :
              \E i \in 1..Len(m) : \E k \in 1..ByteBits : p = ByteBits * (i - 1) + k
<1>1. Len(m) \in Nat /\ ByteBits \in Nat /\ \A i \in 1..Len(m) : m[i] \in Byte
  BY LenProperties, ElementOfSeq DEF SizeAssumption
<1>2. \A i \in 1..Len(m) : m[i] \in Seq(Bit) /\ Len(m[i]) = ByteBits
  BY <1>1, ByteIsSeq
<1>3. m \in [1..Len(m) -> Seq(Bit)]
  <2>1. m = [i \in 1..Len(m) |-> m[i]]
    BY LenProperties
  <2> QED BY ONLY <1>2, <2>1
<1>4. m \in Seq(Seq(Bit))
  BY <1>1, <1>3
<1> DEFINE S == {n \in Nat : n <= Len(m) => End(m, n) = ByteBits * n}
<1>5. 0 \in S
  BY <1>1, PreOfNone
<1>6. ASSUME NEW n \in Nat, n \in S
      PROVE  n + 1 \in S
  <2> SUFFICES ASSUME n + 1 <= Len(m)
               PROVE  End(m, n + 1) = ByteBits * (n + 1)
    OBVIOUS
  <2>1. n + 1 \in 1..Len(m) /\ (n + 1) - 1 = n /\ n <= Len(m)
    BY <1>1
  <2>2. End(m, n + 1) = End(m, n) + Len(m[n + 1])
    BY <1>4, <2>1, PreIs
  <2>3. End(m, n) = ByteBits * n
    BY <1>6, <2>1
  <2>4. ByteBits * (n + 1) = ByteBits * n + ByteBits
    BY Multiples
  <2> QED BY <1>2, <2>1, <2>2, <2>3, <2>4
<1>7. ASSUME NEW n \in 0..Len(m) PROVE End(m, n) = ByteBits * n
  <2>1. n \in S
    <3> HIDE DEF S
    <3> QED BY <1>1, <1>5, <1>6, Induction
  <2> QED BY <2>1
<1>8. Len(m) \in 0..Len(m) /\ Pre(m, Len(m)) = FlattenSeq(m) /\ FlattenSeq(m) \in Seq(Bit)
  BY <1>1, <1>4, PreAll
<1>9. Len(FlattenSeq(m)) = ByteBits * Len(m)
  BY <1>7, <1>8 DEF End
<1>10. ASSUME NEW i \in 1..Len(m), NEW k \in 1..ByteBits
       PROVE  FlattenSeq(m)[ByteBits * (i - 1) + k] = m[i][k]
  <2>1. i - 1 \in 0..Len(m) /\ Len(m) \in i..Len(m) /\ k \in 1..Len(m[i])
    BY <1>1, <1>2
  <2>2. Pre(m, Len(m))[End(m, i - 1) + k] = m[i][k]
    BY <1>4, <2>1, PreAt
  <2> QED BY <1>7, <1>8, <2>1, <2>2
<1>11. ASSUME NEW p \in 1..ByteBits * Len(m)
       PROVE  \E i \in 1..Len(m) : \E k \in 1..ByteBits : p = ByteBits * (i - 1) + k
  <2>1. p \in 1..End(m, Len(m))
    BY <1>7, <1>8
  <2>2. PICK i \in 1..Len(m) : \E k \in 1..Len(m[i]) : p = End(m, i - 1) + k
    BY <1>4, <1>8, <2>1, PreCovers
  <2>3. End(m, i - 1) = ByteBits * (i - 1) /\ Len(m[i]) = ByteBits
    <3>1. i - 1 \in 0..Len(m)
      BY <1>1
    <3> QED BY <1>2, <1>7, <3>1
  <2> QED BY <2>2, <2>3
<1> QED BY <1>1, <1>4, <1>8, <1>9, <1>10, <1>11

(* Where bytes are the same, with their places moved, so are their bits.   *)
Shifted(m, n, lo, hi, d) ==
  /\ m \in Seq(Byte) /\ n \in Seq(Byte) /\ lo \in Nat /\ hi \in Nat /\ d \in Nat
  /\ hi <= Len(m) /\ hi + d <= Len(n) /\ \A i \in lo+1..hi : n[d + i] = m[i]

LEMMA SameBits ==
  ASSUME SizeAssumption, NEW m, NEW n, NEW lo, NEW hi, NEW d, Shifted(m, n, lo, hi, d)
  PROVE  \A p \in ByteBits*lo + 1 .. ByteBits*hi :
           FlattenSeq(n)[ByteBits * d + p] = FlattenSeq(m)[p]
<1> TAKE p \in ByteBits*lo + 1 .. ByteBits*hi
<1> USE DEF Shifted
<1>1. /\ Len(m) \in Nat /\ ByteBits \in Nat
      /\ \A i \in 1..Len(m) : \A k \in 1..ByteBits :
           FlattenSeq(m)[ByteBits * (i - 1) + k] = m[i][k]
      /\ \A q \in 1..ByteBits * Len(m) :
           \E i \in 1..Len(m) : \E k \in 1..ByteBits : q = ByteBits * (i - 1) + k
  BY BytesFlatten DEF SizeAssumption
<1>2. /\ Len(n) \in Nat
      /\ \A i \in 1..Len(n) : \A k \in 1..ByteBits :
           FlattenSeq(n)[ByteBits * (i - 1) + k] = n[i][k]
  BY BytesFlatten
<1>3. p \in 1..ByteBits * Len(m)
  <2>1. /\ ByteBits * hi <= ByteBits * Len(m) /\ ByteBits * hi \in Nat
        /\ ByteBits * Len(m) \in Nat
    BY <1>1, Multiples
  <2>2. ByteBits * lo \in Nat
    BY Multiples
  <2> QED BY <2>1, <2>2
<1>4. PICK i \in 1..Len(m), k \in 1..ByteBits : p = ByteBits * (i - 1) + k
  BY <1>1, <1>3
<1>5. i \in Nat /\ k \in Nat /\ i - 1 \in Nat
  BY <1>1
<1>6. ByteBits * i = ByteBits * (i - 1) + ByteBits /\ ByteBits * (i - 1) \in Nat
      /\ ByteBits * i \in Nat
  <2>1. (i - 1) + 1 = i
    BY <1>5
  <2> QED BY <1>5, <2>1, Multiples
<1> DEFINE X == ByteBits * (i - 1)
           Y == ByteBits * i
           L == ByteBits * lo
           H == ByteBits * hi
<1>7. /\ i <= lo => Y <= L
      /\ hi < i => H + ByteBits <= Y
      /\ L \in Nat /\ H \in Nat
  BY <1>5, Multiples
<1>8. Y = X + ByteBits /\ X \in Nat /\ p = X + k /\ p \in L+1..H
  BY <1>4, <1>6
<1>9. lo < i /\ i <= hi
  <2> HIDE DEF X, Y, L, H
  <2> QED BY <1>1, <1>5, <1>7, <1>8
<1>10. i \in lo+1..hi /\ d + i \in 1..Len(n) /\ (d + i) - 1 = d + (i - 1)
  BY <1>1, <1>2, <1>5, <1>9
<1>11. ByteBits * d + p = ByteBits * ((d + i) - 1) + k
  <2>1. ByteBits * (d + (i - 1)) = ByteBits * d + ByteBits * (i - 1)
        /\ ByteBits * d \in Nat
    BY <1>5, Multiples
  <2> QED BY <1>4, <1>5, <1>6, <1>10, <2>1
<1>12. FlattenSeq(m)[p] = m[i][k]
  BY <1>1, <1>4
<1>13. FlattenSeq(n)[ByteBits * d + p] = n[d + i][k]
  BY <1>2, <1>10, <1>11
<1> QED BY <1>10, <1>12, <1>13

LEMMA FlattenJoin ==
  ASSUME SizeAssumption, NEW m \in Seq(Byte), NEW n \in Seq(Byte)
  PROVE  FlattenSeq(m \o n) = FlattenSeq(m) \o FlattenSeq(n)
<1> DEFINE u == m \o n
<1>1. /\ u \in Seq(Byte) /\ Len(u) = Len(m) + Len(n)
      /\ Len(m) \in Nat /\ Len(n) \in Nat
      /\ \A i \in 1..Len(m) : u[i] = m[i]
      /\ \A i \in 1..Len(n) : u[Len(m) + i] = n[i]
  BY JoinIs
<1> HIDE DEF u
<1>2. FlattenSeq(m) \in Seq(Bit) /\ Len(FlattenSeq(m)) = ByteBits * Len(m)
  BY BytesFlatten
<1>3. FlattenSeq(n) \in Seq(Bit) /\ Len(FlattenSeq(n)) = ByteBits * Len(n)
  BY BytesFlatten
<1>4. FlattenSeq(u) \in Seq(Bit) /\ Len(FlattenSeq(u)) = ByteBits * Len(u)
  BY <1>1, BytesFlatten
<1>5. /\ ByteBits * Len(u) = ByteBits * Len(m) + ByteBits * Len(n)
      /\ ByteBits * 0 = 0 /\ ByteBits * Len(m) \in Nat /\ ByteBits * Len(n) \in Nat
  BY <1>1, Multiples DEF SizeAssumption
<1> DEFINE zero == 0
<1>6. /\ ByteBits * zero = 0 /\ Shifted(m, u, zero, Len(m), zero)
      /\ Shifted(n, u, zero, Len(n), Len(m))
  BY <1>1, <1>5 DEF Shifted
<1> HIDE DEF zero
<1>7. ASSUME NEW p \in 1..ByteBits * Len(m) PROVE FlattenSeq(u)[p] = FlattenSeq(m)[p]
  <2>1. p \in ByteBits*zero + 1 .. ByteBits*Len(m) /\ ByteBits * zero + p = p
    BY <1>5, <1>6
  <2>2. FlattenSeq(u)[ByteBits * zero + p] = FlattenSeq(m)[p]
    BY <1>6, <2>1, SameBits
  <2> QED BY ONLY <2>1, <2>2
<1>8. ASSUME NEW p \in 1..ByteBits * Len(n)
      PROVE  FlattenSeq(u)[ByteBits * Len(m) + p] = FlattenSeq(n)[p]
  <2>1. p \in ByteBits*zero + 1 .. ByteBits*Len(n)
    BY <1>6
  <2>2. \A q \in ByteBits*zero + 1 .. ByteBits*Len(n) :
          FlattenSeq(u)[ByteBits * Len(m) + q] = FlattenSeq(n)[q]
    BY ONLY SizeAssumption, <1>6, SameBits
  <2> QED BY ONLY <2>1, <2>2
<1>9. FlattenSeq(u) = FlattenSeq(m) \o FlattenSeq(n)
  <2>1. /\ Len(FlattenSeq(u)) = Len(FlattenSeq(m)) + Len(FlattenSeq(n))
        /\ \A p \in 1..Len(FlattenSeq(m)) : FlattenSeq(u)[p] = FlattenSeq(m)[p]
        /\ \A p \in 1..Len(FlattenSeq(n)) :
             FlattenSeq(u)[Len(FlattenSeq(m)) + p] = FlattenSeq(n)[p]
    BY <1>2, <1>3, <1>4, <1>5, <1>7, <1>8
  <2> QED BY ONLY <1>2, <1>3, <1>4, <2>1, JoinedWhen
<1> QED BY <1>9 DEF u

LEMMA FlattenOne ==
  ASSUME SizeAssumption, NEW x \in Byte
  PROVE  <<x>> \in Seq(Byte) /\ Len(<<x>>) = 1 /\ FlattenSeq(<<x>>) = x
<1> DEFINE s == <<x>>
<1>1. x \in Seq(Bit)
  BY ByteIsSeq
<1>2. s \in Seq(Seq(Bit)) /\ Len(s) = 1 /\ s[1] = x
  BY <1>1
<1>3. <<x>> \in Seq(Byte)
  OBVIOUS
<1> HIDE DEF s
<1>4. 1 \in 1..Len(s) /\ 1 - 1 = 0
  BY <1>2
<1>5. Pre(s, 1) = Pre(s, 1 - 1) \o s[1] /\ Pre(s, 0) = <<>>
  BY <1>2, <1>4, PreIs
<1>6. Pre(s, Len(s)) = FlattenSeq(s)
  BY <1>2, PreAll
<1>7. <<>> \o x = x
  BY <1>1, ConcatEmptySeq
<1>8. FlattenSeq(s) = x
  BY <1>2, <1>4, <1>5, <1>6, <1>7
<1> QED BY <1>2, <1>3, <1>8 DEF s

LEMMA FlattenTwo ==
  ASSUME SizeAssumption, NEW x \in Byte, NEW y \in Byte
  PROVE  <<x, y>> \in Seq(Byte) /\ FlattenSeq(<<x, y>>) = x \o y /\ Len(<<x, y>>) = 2
<1>1. <<x>> \in Seq(Byte) /\ Len(<<x>>) = 1 /\ FlattenSeq(<<x>>) = x
  BY FlattenOne
<1>2. <<y>> \in Seq(Byte) /\ Len(<<y>>) = 1 /\ FlattenSeq(<<y>>) = y
  BY FlattenOne
<1>3. <<x, y>> \in Seq(Byte) /\ Len(<<x, y>>) = 2
  OBVIOUS
<1>4. <<x, y>> = <<x>> \o <<y>>
  <2> DEFINE u == <<x, y>>
  <2>1. u[1] = x /\ u[2] = y
    OBVIOUS
  <2>2. <<x>>[1] = x /\ <<y>>[1] = y
    OBVIOUS
  <2>3. /\ Len(u) = Len(<<x>>) + Len(<<y>>)
        /\ \A i \in 1..Len(<<x>>) : u[i] = <<x>>[i]
        /\ \A i \in 1..Len(<<y>>) : u[Len(<<x>>) + i] = <<y>>[i]
    <3>1. (\A i \in 1..1 : i = 1) /\ 1 + 1 = 2
      OBVIOUS
    <3> QED BY <1>1, <1>2, <1>3, <2>1, <2>2, <3>1
  <2> HIDE DEF u
  <2>4. u \in Seq(Byte)
    BY <1>3 DEF u
  <2>5. u = <<x>> \o <<y>>
    BY ONLY <1>1, <1>2, <2>3, <2>4, JoinedWhen
  <2> QED BY <2>5 DEF u
<1>5. FlattenSeq(<<x>> \o <<y>>) = x \o y
  BY <1>1, <1>2, FlattenJoin
<1> QED BY <1>3, <1>4, <1>5

-----------------------------------------------------------------------------
(* Writing.  The bits written so far are those in the buffer and those     *)
(* pending.                                                                *)
Room == BufferSize * ByteBits
Out(s) == FlattenSeq(s.b.buffer) \o SubSeq(s.byte, 1, s.bits)

StoreIs(b) == /\ IsRecord(b) /\ b.buffer \in Seq(Byte) /\ Len(b.buffer) <= BufferSize
              /\ b.buffer_write_index = Len(b.buffer)
WriterIs(s) == /\ s = [byte |-> s.byte, bits |-> s.bits, b |-> s.b]
               /\ s.byte \in Byte /\ s.bits \in 0..ByteBits-1 /\ StoreIs(s.b)
               /\ \A i \in s.bits+1..ByteBits : s.byte[i] = 0

(* The bits x come after those written so far, if there is room; if there  *)
(* is not, nothing that had room is lost.                                  *)
Appends(s, t, x) ==
  /\ WriterIs(t) /\ t.b.buffer_read_index = s.b.buffer_read_index
  /\ Len(s.b.buffer) <= Len(t.b.buffer)
  /\ Len(Out(s)) + Len(x) <= Room => Out(t) = Out(s) \o x
  /\ \A k \in 1..Len(Out(s)) : k <= Room => k <= Len(Out(t)) /\ Out(t)[k] = Out(s)[k]
  /\ \E q \in Nat : s.bits + Len(x) = ByteBits * q + t.bits

LEMMA BlankIs ==
  ASSUME SizeAssumption
  PROVE  Blank \in Byte /\ \A i \in 1..ByteBits : Blank[i] = 0
BY ByteIsSeq DEF Blank

LEMMA FrontIs ==
  ASSUME NEW S, NEW s \in Seq(S), NEW n \in 0..Len(s)
  PROVE  /\ SubSeq(s, 1, n) \in Seq(S) /\ Len(SubSeq(s, 1, n)) = n
         /\ \A i \in 1..n : SubSeq(s, 1, n)[i] = s[i]
<1> DEFINE front == SubSeq(s, 1, n)
<1>1. Len(s) \in Nat /\ n \in Nat /\ n <= Len(s)
  BY LenProperties
<1>2. \A i \in 1..n : s[i] \in S
  BY <1>1, ElementOfSeq
<1>3. /\ front \in Seq(S)
      /\ Len(front) = IF 1 <= n THEN n - 1 + 1 ELSE 0
      /\ \A i \in 1..n - 1 + 1 : front[i] = s[1 + i - 1]
  BY <1>1, <1>2, SubSeqProperties
<1>4. n - 1 + 1 = n /\ \A i \in 1..n : 1 + i - 1 = i
  BY <1>1
<1> HIDE DEF front
<1>5. front \in Seq(S) /\ Len(front) = n /\ \A i \in 1..n : front[i] = s[i]
  BY <1>1, <1>3, <1>4
<1> QED BY <1>5 DEF front

LEMMA OutIs ==
  ASSUME SizeAssumption, NEW s, s.b.buffer \in Seq(Byte), s.byte \in Byte,
         s.bits \in 0..ByteBits
  PROVE  LET F == FlattenSeq(s.b.buffer)
         IN  /\ Out(s) \in Seq(Bit) /\ Len(Out(s)) = Len(F) + s.bits
             /\ F \in Seq(Bit) /\ Len(F) = ByteBits * Len(s.b.buffer) /\ Len(F) \in Nat
             /\ Len(s.b.buffer) \in Nat
             /\ \A k \in 1..Len(F) : Out(s)[k] = F[k]
             /\ \A k \in 1..s.bits : Out(s)[Len(F) + k] = s.byte[k]
             /\ s.bits = 0 => Out(s) = F
<1> DEFINE F == FlattenSeq(s.b.buffer)
           x == SubSeq(s.byte, 1, s.bits)
<1>1. F \in Seq(Bit) /\ Len(F) = ByteBits * Len(s.b.buffer)
      /\ Len(s.b.buffer) \in Nat
  BY BytesFlatten
<1>2. s.byte \in Seq(Bit) /\ Len(s.byte) = ByteBits
  BY ByteIsSeq
<1>3. /\ x \in Seq(Bit) /\ Len(x) = s.bits
      /\ \A i \in 1..s.bits : x[i] = s.byte[i]
  BY <1>2, FrontIs
<1>4. Out(s) = F \o x
  BY DEF Out
<1> HIDE DEF F, x
<1>5. /\ Out(s) \in Seq(Bit) /\ Len(Out(s)) = Len(F) + s.bits /\ Len(F) \in Nat
      /\ \A k \in 1..Len(F) : Out(s)[k] = F[k]
      /\ \A k \in 1..s.bits : Out(s)[Len(F) + k] = s.byte[k]
  <2>1. /\ F \o x \in Seq(Bit) /\ Len(F \o x) = Len(F) + Len(x) /\ Len(F) \in Nat
        /\ \A k \in 1..Len(F) : (F \o x)[k] = F[k]
        /\ \A k \in 1..Len(x) : (F \o x)[Len(F) + k] = x[k]
    <3>1. F \in Seq(Bit) /\ x \in Seq(Bit)
      BY <1>1, <1>3
    <3> QED BY ONLY <3>1, JoinIs
  <2> QED BY <1>3, <1>4, <2>1
<1>6. s.bits = 0 => Out(s) = F
  <2>1. s.bits = 0 => x = <<>>
    BY <1>3, EmptySeq
  <2>2. F \o <<>> = F
    BY <1>1, ConcatEmptySeq
  <2> QED BY <1>4, <2>1, <2>2
<1> QED BY <1>1, <1>5, <1>6 DEF F

LEMMA AppendsNothing ==
  ASSUME SizeAssumption, NEW s, WriterIs(s)
  PROVE  Appends(s, s, <<>>)
<1>1. Out(s) \in Seq(Bit) /\ s.bits \in Nat /\ Len(s.b.buffer) \in Nat
  <2>1. s.b.buffer \in Seq(Byte) /\ s.byte \in Byte /\ s.bits \in 0..ByteBits
    BY DEF WriterIs, StoreIs, SizeAssumption
  <2> QED BY <2>1, OutIs
<1>2. Out(s) \o <<>> = Out(s) /\ Len(<<>>) = 0
  BY <1>1, ConcatEmptySeq
<1>3. s.bits + 0 = ByteBits * 0 + s.bits /\ 0 \in Nat
  BY <1>1 DEF SizeAssumption
<1>4. Len(s.b.buffer) <= Len(s.b.buffer) /\ \A k \in 1..Len(Out(s)) : k <= Len(Out(s))
  BY <1>1
<1> QED BY <1>2, <1>3, <1>4 DEF Appends

LEMMA AppendsTrans ==
  ASSUME SizeAssumption, NEW s, NEW t, NEW u, NEW x \in Seq(Bit), NEW y \in Seq(Bit),
         WriterIs(s), Appends(s, t, x), Appends(t, u, y)
  PROVE  Appends(s, u, x \o y)
<1>1. /\ Out(s) \in Seq(Bit) /\ Len(Out(s)) \in Nat
      /\ s.bits \in Nat /\ Len(s.b.buffer) \in Nat
  <2>1. s.b.buffer \in Seq(Byte) /\ s.byte \in Byte /\ s.bits \in 0..ByteBits
    BY DEF WriterIs, StoreIs, SizeAssumption
  <2> QED BY <2>1, OutIs, LenProperties
<1>2. /\ Out(t) \in Seq(Bit) /\ Len(Out(t)) \in Nat
      /\ t.bits \in Nat /\ Len(t.b.buffer) \in Nat
  <2>1. t.b.buffer \in Seq(Byte) /\ t.byte \in Byte /\ t.bits \in 0..ByteBits
    BY DEF Appends, WriterIs, StoreIs, SizeAssumption
  <2> QED BY <2>1, OutIs, LenProperties
<1>3. u.bits \in Nat /\ Len(u.b.buffer) \in Nat
  <2>1. u.b.buffer \in Seq(Byte) /\ u.bits \in 0..ByteBits
    BY DEF Appends, WriterIs, StoreIs, SizeAssumption
  <2> QED BY <2>1, LenProperties
<1>4. Len(x \o y) = Len(x) + Len(y) /\ Len(x) \in Nat /\ Len(y) \in Nat
  BY JoinIs
<1>5. Len(Out(s)) + Len(x \o y) <= Room => Out(u) = Out(s) \o (x \o y)
  <2> HAVE Len(Out(s)) + Len(x \o y) <= Room
  <2>1. Room \in Nat
    BY DEF Room, SizeAssumption
  <2>2. Len(Out(s)) + Len(x) <= Room
    BY <1>1, <1>4, <2>1
  <2>3. Out(t) = Out(s) \o x
    BY <2>2 DEF Appends
  <2>4. Len(Out(t)) = Len(Out(s)) + Len(x)
    BY <1>1, <2>3, JoinIs
  <2>5. Len(Out(t)) + Len(y) <= Room
    BY <1>1, <1>4, <2>1, <2>4
  <2>6. Out(u) = (Out(s) \o x) \o y
    BY <2>3, <2>5 DEF Appends
  <2>7. Out(s) \in Seq(Bit) /\ x \in Seq(Bit) /\ y \in Seq(Bit)
    BY <1>1
  <2> QED BY ONLY <2>6, <2>7, ConcatAssociative
<1>6. ASSUME NEW k \in 1..Len(Out(s)), k <= Room
      PROVE  k <= Len(Out(u)) /\ Out(u)[k] = Out(s)[k]
  <2>1. k <= Len(Out(t)) /\ Out(t)[k] = Out(s)[k]
    BY <1>6 DEF Appends
  <2>2. k \in 1..Len(Out(t))
    BY <1>1, <1>2, <2>1
  <2>3. k <= Len(Out(u)) /\ Out(u)[k] = Out(t)[k]
    BY <1>6, <2>2 DEF Appends
  <2> QED BY <2>1, <2>3
<1>7. \E q \in Nat : s.bits + Len(x \o y) = ByteBits * q + u.bits
  <2>1. PICK m \in Nat : s.bits + Len(x) = ByteBits * m + t.bits
    BY DEF Appends
  <2>2. PICK n \in Nat : t.bits + Len(y) = ByteBits * n + u.bits
    BY DEF Appends
  <2>3. ByteBits * (m + n) = ByteBits * m + ByteBits * n
        /\ ByteBits * m \in Nat /\ ByteBits * n \in Nat
    BY Multiples
  <2>4. PICK i \in Nat, j \in Nat, k \in Nat, d \in Nat, e \in Nat :
          i = s.bits /\ j = t.bits /\ k = u.bits /\ d = Len(x) /\ e = Len(y)
    BY <1>1, <1>2, <1>3, <1>4
  <2>5. s.bits + (Len(x) + Len(y)) = (ByteBits * m + ByteBits * n) + u.bits
    <3> DEFINE M == ByteBits * m
               N == ByteBits * n
    <3>1. i + d = M + j /\ j + e = N + k /\ M \in Nat /\ N \in Nat
      BY <2>1, <2>2, <2>3, <2>4
    <3> HIDE DEF M, N
    <3>2. i + (d + e) = (M + N) + k
      BY ONLY <3>1
    <3> QED BY <2>4, <3>2 DEF M, N
  <2>6. s.bits + Len(x \o y) = ByteBits * (m + n) + u.bits /\ m + n \in Nat
    <3>1. m + n \in Nat /\ ByteBits * (m + n) = ByteBits * m + ByteBits * n
      BY <2>3
    <3> QED BY ONLY <1>4, <2>5, <3>1
  <2> QED BY ONLY <2>6
<1>8. Len(s.b.buffer) <= Len(u.b.buffer)
  <2>1. Len(s.b.buffer) <= Len(t.b.buffer) /\ Len(t.b.buffer) <= Len(u.b.buffer)
    BY DEF Appends
  <2>2. Len(s.b.buffer) \in Nat /\ Len(t.b.buffer) \in Nat /\ Len(u.b.buffer) \in Nat
    BY <1>1, <1>2, <1>3
  <2> QED BY ONLY <2>1, <2>2
<1>9. WriterIs(u) /\ u.b.buffer_read_index = s.b.buffer_read_index
  BY DEF Appends
<1> QED BY <1>5, <1>6, <1>7, <1>8, <1>9 DEF Appends

LEMMA StoreLaid ==
  ASSUME SizeAssumption, NEW b, NEW c, NEW bytes \in Seq(Byte), StoreIs(b),
         Laid(b, c, bytes)
  PROVE  /\ StoreIs(c) /\ Len(b.buffer) <= Len(c.buffer)
         /\ Len(b.buffer) \in Nat /\ Len(bytes) \in Nat /\ BufferSize \in Nat
         /\ c.buffer_read_index = b.buffer_read_index
         /\ Len(b.buffer) + Len(bytes) <= BufferSize => c.buffer = b.buffer \o bytes
         /\ ~(Len(b.buffer) + Len(bytes) <= BufferSize) => c.buffer = b.buffer
<1>1. PICK L \in Nat, n \in Nat : L = Len(b.buffer) /\ n = Len(bytes)
  BY LenProperties DEF StoreIs
<1>2. BufferSize \in Nat /\ L <= BufferSize /\ b.buffer \in Seq(Byte)
      /\ b.buffer_write_index = L
  BY <1>1 DEF StoreIs, SizeAssumption
<1>3. (L <= BufferSize - n) = (L + n <= BufferSize)
  BY <1>2
<1>4. CASE L + n <= BufferSize
  <2>1. /\ c.buffer = Mem!Over(b.buffer, Len(b.buffer), bytes)
        /\ c.buffer_write_index = L + n
    BY <1>1, <1>2, <1>3, <1>4 DEF Laid
  <2>2. c.buffer = b.buffer \o bytes
    BY <1>2, <2>1, OverAppends
  <2>3. c.buffer \in Seq(Byte) /\ Len(c.buffer) = Len(b.buffer) + Len(bytes)
    <3>1. b.buffer \in Seq(Byte)
      BY <1>2
    <3> QED BY ONLY <2>2, <3>1, bytes \in Seq(Byte), JoinIs
  <2>4. StoreIs(c)
    BY <1>1, <1>4, <2>1, <2>3 DEF StoreIs, Laid
  <2>5. Len(b.buffer) <= Len(c.buffer)
    BY <1>1, <2>3
  <2> QED BY <1>1, <1>2, <1>4, <2>2, <2>4, <2>5 DEF Laid
<1>5. CASE ~(L + n <= BufferSize)
  <2>1. c.buffer = b.buffer /\ c.buffer_write_index = b.buffer_write_index
    BY <1>1, <1>2, <1>3, <1>5 DEF Laid
  <2>2. StoreIs(c)
    BY <2>1 DEF StoreIs, Laid
  <2>3. Len(b.buffer) <= Len(c.buffer)
    BY <1>1, <2>1
  <2> QED BY <1>1, <1>2, <1>5, <2>1, <2>2, <2>3 DEF Laid
<1> QED BY <1>4, <1>5

(* Whole bytes, when nothing is pending.                                   *)
LEMMA LaidAppends ==
  ASSUME SizeAssumption, NEW s, WriterIs(s), s.bits = 0,
         NEW t, t = [byte |-> t.byte, bits |-> t.bits, b |-> t.b],
         t.bits = 0, t.byte \in Byte, \A i \in 1..ByteBits : t.byte[i] = 0,
         NEW bytes \in Seq(Byte), Laid(s.b, t.b, bytes)
  PROVE  Appends(s, t, FlattenSeq(bytes))
<1> DEFINE x == FlattenSeq(bytes)
           F == FlattenSeq(s.b.buffer)
           G == FlattenSeq(t.b.buffer)
<1>1. /\ StoreIs(t.b) /\ Len(s.b.buffer) <= Len(t.b.buffer)
      /\ Len(s.b.buffer) \in Nat /\ Len(bytes) \in Nat /\ BufferSize \in Nat
      /\ t.b.buffer_read_index = s.b.buffer_read_index
      /\ Len(s.b.buffer) + Len(bytes) <= BufferSize => t.b.buffer = s.b.buffer \o bytes
      /\ ~(Len(s.b.buffer) + Len(bytes) <= BufferSize) => t.b.buffer = s.b.buffer
  BY StoreLaid DEF WriterIs
<1>2. WriterIs(t)
  <2>1. t.bits \in 0..ByteBits-1 /\ \A i \in t.bits+1..ByteBits : t.byte[i] = 0
    BY DEF SizeAssumption
  <2> QED BY <1>1, <2>1 DEF WriterIs
<1>3. s.b.buffer \in Seq(Byte) /\ s.byte \in Byte /\ s.bits \in 0..ByteBits
  BY DEF WriterIs, StoreIs, SizeAssumption
<1>4. t.b.buffer \in Seq(Byte) /\ t.bits \in 0..ByteBits
  BY <1>1 DEF StoreIs, SizeAssumption
<1>5. Out(s) = F /\ F \in Seq(Bit) /\ Len(F) = ByteBits * Len(s.b.buffer) /\ Len(F) \in Nat
  BY <1>3, OutIs
<1>6. Out(t) = G /\ G \in Seq(Bit) /\ Len(G) \in Nat
  BY <1>4, OutIs
<1>7. x \in Seq(Bit) /\ Len(x) = ByteBits * Len(bytes)
  BY BytesFlatten
<1>8. ByteBits * (Len(s.b.buffer) + Len(bytes)) = Len(F) + Len(x) /\ Len(x) \in Nat
  BY <1>1, <1>5, <1>7, Multiples
<1>9. Len(F) + Len(x) <= Room => Len(s.b.buffer) + Len(bytes) <= BufferSize
  <2>1. PICK a \in Nat : a = Len(s.b.buffer) + Len(bytes)
    BY <1>1
  <2>2. Room = ByteBits * BufferSize
    BY <1>1 DEF Room, SizeAssumption
  <2>3. ByteBits * a <= ByteBits * BufferSize => a <= BufferSize
    BY <1>1, Multiples
  <2> QED BY <1>8, <2>1, <2>2, <2>3
<1>10. CASE Len(s.b.buffer) + Len(bytes) <= BufferSize
  <2>1. G = F \o x
    BY <1>1, <1>3, <1>10, FlattenJoin
  <2>2. Len(F \o x) = Len(F) + Len(x) /\ \A k \in 1..Len(F) : (F \o x)[k] = F[k]
    <3>1. F \in Seq(Bit) /\ x \in Seq(Bit)
      BY <1>5, <1>7
    <3> HIDE DEF F, x
    <3> QED BY ONLY <3>1, JoinIs
  <2>3. \A k \in 1..Len(F) : k <= Len(F) + Len(x)
    <3>1. PICK u \in Nat, v \in Nat : u = Len(F) /\ v = Len(x)
      BY <1>5, <1>8
    <3>2. \A k \in 1..u : k <= u + v
      BY ONLY u \in Nat, v \in Nat
    <3> QED BY ONLY <3>1, <3>2
  <2>4. s.bits + Len(x) = ByteBits * Len(bytes) + t.bits
    BY <1>7, <1>8
  <2> HIDE DEF F, G, x
  <2>5. Out(t) = Out(s) \o x
        /\ \A k \in 1..Len(Out(s)) : k <= Len(Out(t)) /\ Out(t)[k] = Out(s)[k]
    BY <1>5, <1>6, <2>1, <2>2, <2>3
  <2>6. Appends(s, t, x)
    BY <1>1, <1>2, <2>4, <2>5 DEF Appends
  <2> QED BY <2>6 DEF x
<1>11. CASE ~(Len(s.b.buffer) + Len(bytes) <= BufferSize)
  <2>1. G = F
    BY <1>1, <1>11
  <2>2. ~(Len(F) + Len(x) <= Room)
    BY <1>9, <1>11
  <2>3. \A k \in 1..Len(F) : k <= Len(F)
    BY <1>5
  <2>4. s.bits + Len(x) = ByteBits * Len(bytes) + t.bits
    BY <1>7, <1>8
  <2> HIDE DEF F, G, x
  <2>5. Out(t) = Out(s) /\ ~(Len(Out(s)) + Len(x) <= Room)
        /\ \A k \in 1..Len(Out(s)) : k <= Len(Out(t)) /\ Out(t)[k] = Out(s)[k]
    BY <1>5, <1>6, <2>1, <2>2, <2>3
  <2>6. Appends(s, t, x)
    BY <1>1, <1>2, <2>4, <2>5 DEF Appends
  <2> QED BY <2>6 DEF x
<1> QED BY <1>10, <1>11

(* writeBytes and the end of writeByte, of whatever is pending.            *)
Made(s, x, y, b) == s = [byte |-> x, bits |-> y, b |-> b]

LEMMA BytesLaid ==
  ASSUME NEW s, NEW t, NEW x, NEW y, NEW b, Made(s, x, y, b), IsRecord(b),
         NEW bytes \in Seq(Byte), t = WriteBytes(s, bytes)
  PROVE  Made(t, x, y, t.b) /\ Laid(b, t.b, bytes)
<1> DEFINE c == IF bitStream THEN BufferWrite(b, bytes) ELSE WriteAll(b, bytes)
<1>1. s = [byte |-> x, bits |-> y, b |-> b]
  BY DEF Made
<1>2. Laid(b, c, bytes)
  BY LaidByBuffer, LaidByAll
<1>3. s.b = b
  BY <1>1
<1>4. t = [s EXCEPT !.b = c]
  BY <1>3 DEF WriteBytes
<1> HIDE DEF c
<1>5. t = [byte |-> x, bits |-> y, b |-> c]
  BY ONLY <1>1, <1>4
<1>6. t.b = c
  BY ONLY <1>5
<1> QED BY ONLY <1>2, <1>5, <1>6 DEF Made

LEMMA ByteLaid ==
  ASSUME NEW s, NEW t, NEW x, NEW y, NEW b, Made(s, x, y, b), IsRecord(b),
         NEW byte \in Byte, t = PutByte(s, byte)
  PROVE  Made(t, Blank, 0, t.b) /\ Laid(b, t.b, <<byte>>)
<1>1. PICK v : v = WriteBytes(s, <<byte>>)
  OBVIOUS
<1>2. Made(v, x, y, v.b) /\ Laid(b, v.b, <<byte>>)
  <2>1. <<byte>> \in Seq(Byte)
    OBVIOUS
  <2> QED BY ONLY Made(s, x, y, b), IsRecord(b), <1>1, <2>1, BytesLaid
<1>3. v = [byte |-> x, bits |-> y, b |-> v.b]
  BY <1>2 DEF Made
<1>4. t = [v EXCEPT !.byte = Blank, !.bits = 0]
  BY <1>1 DEF PutByte
<1>5. t = [byte |-> Blank, bits |-> 0, b |-> v.b]
  <2> DEFINE S == {x, y, v.b, Blank, 0}
  <2>1. v \in [byte : S, bits : S, b : S] /\ {Blank, 0} \subseteq S
    BY <1>3
  <2> HIDE DEF S
  <2>2. t \in [byte : S, bits : S, b : S] /\ t.b = v.b /\ t.byte = Blank /\ t.bits = 0
    BY <1>4, <2>1
  <2> QED BY <2>2
<1>6. t.b = v.b
  BY ONLY <1>5
<1> QED BY ONLY <1>2, <1>5, <1>6 DEF Made

(* One bit: the byte is written when it is full.                           *)
LEMMA WriteBitAppends ==
  ASSUME SizeAssumption, NEW s, WriterIs(s), NEW bit \in Bit
  PROVE  Appends(s, WriteBit(s, bit), <<bit>>)
<1> DEFINE n == s.bits + 1
           byte == [s.byte EXCEPT ![n] = IF @ = 1 THEN 1 ELSE bit]
           more == [byte |-> byte, bits |-> n, b |-> s.b]
           F == FlattenSeq(s.b.buffer)
           t == WriteBit(s, bit)
<1>1. /\ s = [byte |-> s.byte, bits |-> s.bits, b |-> s.b]
      /\ s.byte \in Byte /\ s.bits \in 0..ByteBits-1 /\ StoreIs(s.b)
      /\ \A i \in s.bits+1..ByteBits : s.byte[i] = 0
  BY DEF WriterIs
<1>2. ByteBits \in Nat /\ n \in 1..ByteBits /\ s.bits \in Nat /\ BufferSize \in Nat
      /\ s.bits \in 0..ByteBits
  BY <1>1 DEF SizeAssumption
<1>3. /\ byte \in Byte /\ byte[n] = bit /\ \A i \in 1..s.bits : byte[i] = s.byte[i]
      /\ \A i \in n+1..ByteBits : byte[i] = 0
  <2>1. s.byte[n] = 0
    BY <1>1, <1>2
  <2>2. byte = [s.byte EXCEPT ![n] = bit]
    BY <2>1
  <2>3. s.byte \in [1..ByteBits -> Bit]
    BY <1>1 DEF Byte
  <2>4. byte \in [1..ByteBits -> Bit] /\ byte[n] = bit
        /\ \A i \in 1..ByteBits : i # n => byte[i] = s.byte[i]
    BY <1>2, <2>2, <2>3
  <2>5. \A i \in 1..s.bits : i \in 1..ByteBits /\ i # n
    BY <1>2
  <2>6. \A i \in n+1..ByteBits : i \in 1..ByteBits /\ i # n /\ i \in s.bits+1..ByteBits
    BY <1>2
  <2> HIDE DEF byte, n
  <2> QED BY <1>1, <2>4, <2>5, <2>6 DEF Byte
<1>4. [s EXCEPT !.byte = byte, !.bits = @ + 1] = more
  <2>1. [s EXCEPT !.byte = byte, !.bits = @ + 1] = [s EXCEPT !.byte = byte, !.bits = n]
    OBVIOUS
  <2> HIDE DEF byte, n
  <2>2. [s EXCEPT !.byte = byte, !.bits = n] = more
    <3>1. [s EXCEPT !.byte = byte, !.bits = n] = [byte |-> byte, bits |-> n, b |-> s.b]
      <4> DEFINE S == {s.byte, s.bits, s.b, byte, n}
                 z == [s EXCEPT !.byte = byte, !.bits = n]
      <4>1. s \in [byte : S, bits : S, b : S] /\ {byte, n} \subseteq S
        <5>1. [byte |-> s.byte, bits |-> s.bits, b |-> s.b] \in [byte : S, bits : S, b : S]
          OBVIOUS
        <5> QED BY <1>1, <5>1
      <4> HIDE DEF S
      <4>2. z \in [byte : S, bits : S, b : S] /\ z.b = s.b /\ z.byte = byte /\ z.bits = n
        BY <4>1
      <4> HIDE DEF z
      <4>3. z = [byte |-> byte, bits |-> n, b |-> s.b]
        BY <4>2
      <4> QED BY <4>3 DEF z
    <3> QED BY ONLY <3>1 DEF more
  <2> QED BY ONLY <2>1, <2>2, Zenon
<1>5. t = IF n = ByteBits THEN PutByte(more, byte) ELSE more
  <2>1. more.bits = n
    OBVIOUS
  <2> HIDE DEF more
  <2> QED BY <1>4, <2>1 DEF WriteBit
<1>6. /\ Out(s) \in Seq(Bit) /\ Len(Out(s)) = Len(F) + s.bits
      /\ F \in Seq(Bit) /\ Len(F) = ByteBits * Len(s.b.buffer) /\ Len(F) \in Nat
      /\ Len(s.b.buffer) \in Nat
      /\ \A k \in 1..Len(F) : Out(s)[k] = F[k]
      /\ \A k \in 1..s.bits : Out(s)[Len(F) + k] = s.byte[k]
  BY <1>1, <1>2, OutIs DEF StoreIs
<1>7. <<bit>> \in Seq(Bit) /\ Len(<<bit>>) = 1 /\ <<bit>>[1] = bit
  OBVIOUS
<1> HIDE DEF byte, more, t
(* There is room in the byte, or in the buffer, for one bit more.          *)
<1>8. ASSUME NEW x \in Seq(Bit), Len(x) = Len(F) + n,
             \A k \in 1..Len(F) : x[k] = F[k],
             \A k \in 1..n : x[Len(F) + k] = byte[k]
      PROVE  x = Out(s) \o <<bit>>
  <2>1. PICK f \in Nat, m \in Nat : f = Len(F) /\ m = s.bits
    BY <1>2, <1>6
  <2>2. Len(x) = Len(Out(s)) + Len(<<bit>>)
    <3>1. Len(x) = f + (m + 1) /\ Len(Out(s)) = f + m /\ Len(<<bit>>) = 1
      BY <1>6, <1>7, <1>8, <2>1
    <3>2. f + (m + 1) = (f + m) + 1
      OBVIOUS
    <3> QED BY ONLY <3>1, <3>2
  <2>3. ASSUME NEW k \in 1..Len(Out(s)) PROVE x[k] = Out(s)[k]
    <3>1. CASE k <= f
      BY <1>6, <1>8, <2>1, <3>1
    <3>2. CASE ~(k <= f)
      <4>1. PICK i \in 1..m : k = f + i
        <5>1. k \in 1..f+m
          BY <1>6, <2>1
        <5>2. k - f \in 1..m /\ k = f + (k - f)
          BY <3>2, <5>1
        <5> QED BY <5>2
      <4>2. i \in 1..n /\ i \in 1..s.bits
        BY <2>1
      <4>3. x[Len(F) + i] = byte[i] /\ Out(s)[Len(F) + i] = s.byte[i]
        BY <1>6, <1>8, <4>2
      <4> QED BY <1>3, <2>1, <4>1, <4>2, <4>3
    <3> QED BY <3>1, <3>2
  <2>4. ASSUME NEW k \in 1..Len(<<bit>>) PROVE x[Len(Out(s)) + k] = <<bit>>[k]
    <3>1. k = 1 /\ n \in 1..n
      BY <1>2, <1>7
    <3>2. x[Len(F) + n] = byte[n]
      BY <1>8, <3>1
    <3>3. Len(Out(s)) + k = Len(F) + n
      <4>1. Len(Out(s)) + k = (f + m) + 1 /\ Len(F) + n = f + (m + 1)
        BY <1>6, <2>1, <3>1
      <4>2. f + (m + 1) = (f + m) + 1
        OBVIOUS
      <4> QED BY ONLY <4>1, <4>2
    <3> QED BY <1>3, <1>7, <3>1, <3>2, <3>3
  <2> QED BY ONLY <1>6, <1>7, <1>8, <2>2, <2>3, <2>4, JoinedWhen
<1>9. CASE n # ByteBits
  <2>1. t = more /\ t.byte = byte /\ t.bits = n /\ t.b = s.b
    BY <1>5, <1>9 DEF more
  <2>2. WriterIs(t)
    <3>1. n \in 0..ByteBits-1
      BY <1>2, <1>9
    <3> HIDE DEF n
    <3>2. t = [byte |-> t.byte, bits |-> t.bits, b |-> t.b]
      BY <2>1 DEF more
    <3> QED BY <1>1, <1>3, <2>1, <3>1, <3>2 DEF WriterIs
  <2>3. /\ Out(t) \in Seq(Bit) /\ Len(Out(t)) = Len(F) + n
        /\ \A k \in 1..Len(F) : Out(t)[k] = F[k]
        /\ \A k \in 1..n : Out(t)[Len(F) + k] = byte[k]
    <3>1. /\ t.b.buffer \in Seq(Byte) /\ t.byte \in Byte /\ t.bits \in 0..ByteBits
      BY <1>1, <1>2, <1>3, <2>1 DEF StoreIs
    <3>2. LET G == FlattenSeq(t.b.buffer)
          IN  /\ Out(t) \in Seq(Bit) /\ Len(Out(t)) = Len(G) + t.bits
              /\ \A k \in 1..Len(G) : Out(t)[k] = G[k]
              /\ \A k \in 1..t.bits : Out(t)[Len(G) + k] = t.byte[k]
      BY <3>1, OutIs
    <3> QED BY <2>1, <3>2
  <2>4. Out(t) = Out(s) \o <<bit>>
    BY <1>8, <2>3
  <2>5. ASSUME NEW k \in 1..Len(Out(s)) PROVE k <= Len(Out(t)) /\ Out(t)[k] = Out(s)[k]
    <3>1. Len(Out(t)) = Len(Out(s)) + 1 /\ Out(t)[k] = Out(s)[k] /\ Len(Out(s)) \in Nat
      BY <1>6, <1>7, <2>4, JoinIs
    <3> QED BY <3>1
  <2>6. s.bits + Len(<<bit>>) = ByteBits * 0 + t.bits /\ 0 \in Nat
    BY <1>2, <1>7, <2>1
  <2>7. Len(s.b.buffer) <= Len(t.b.buffer)
    BY <1>6, <2>1
  <2> QED BY <2>1, <2>2, <2>4, <2>5, <2>6, <2>7 DEF Appends, t
<1>10. CASE n = ByteBits
  <2> DEFINE z == [byte |-> Blank, bits |-> 0, b |-> s.b]
  <2>1. t = PutByte(more, byte)
    BY <1>5, <1>10
  <2>2. t = [byte |-> Blank, bits |-> 0, b |-> t.b] /\ Laid(s.b, t.b, <<byte>>)
    <3>1. IsRecord(s.b) /\ <<byte>> \in Seq(Byte) /\ byte \in Byte
      BY <1>1, <1>3 DEF StoreIs
    <3>2. more = [byte |-> byte, bits |-> n, b |-> s.b]
      BY DEF more
    <3> HIDE DEF n
    <3>3. Made(more, byte, n, s.b)
      BY ONLY <3>2 DEF Made
    <3> HIDE DEF more, byte, t
    <3>4. Made(t, Blank, 0, t.b) /\ Laid(s.b, t.b, <<byte>>)
      BY ONLY <2>1, <3>1, <3>3, ByteLaid
    <3> QED BY ONLY <3>4 DEF Made
  <2>3. /\ z.byte = Blank /\ z.bits = 0 /\ z.b = s.b
        /\ z = [byte |-> z.byte, bits |-> z.bits, b |-> z.b]
    OBVIOUS
  <2> HIDE DEF z
  <2>4. WriterIs(z)
    <3>1. z.bits \in 0..ByteBits-1 /\ \A i \in z.bits+1..ByteBits : z.byte[i] = 0
      BY <1>2, <2>3, BlankIs
    <3> QED BY <1>1, <2>3, <3>1, BlankIs DEF WriterIs
  <2>5. /\ t = [byte |-> t.byte, bits |-> t.bits, b |-> t.b]
        /\ t.bits = 0 /\ t.byte \in Byte /\ \A i \in 1..ByteBits : t.byte[i] = 0
    <3>1. t.byte = Blank /\ t.bits = 0
      BY <2>2
    <3> QED BY <2>2, <3>1, BlankIs
  <2>6. <<byte>> \in Seq(Byte) /\ FlattenSeq(<<byte>>) = byte
    BY <1>3, FlattenOne
  <2>7. Appends(z, t, byte)
    <3>1. Appends(z, t, FlattenSeq(<<byte>>))
      BY <2>2, <2>3, <2>4, <2>5, <2>6, LaidAppends
    <3> QED BY <2>6, <3>1
  <2>8. Out(z) = F
    <3>1. z.b.buffer \in Seq(Byte) /\ z.byte \in Byte /\ z.bits \in 0..ByteBits
      BY <1>1, <1>2, <2>3, BlankIs DEF StoreIs
    <3>2. Out(z) = FlattenSeq(z.b.buffer)
      BY <2>3, <3>1, OutIs
    <3> QED BY <2>3, <3>2
  <2>9. byte \in Seq(Bit) /\ Len(byte) = ByteBits
    BY <1>3, ByteIsSeq
  <2>10. PICK f \in Nat, m \in Nat : f = Len(F) /\ m = s.bits
    BY <1>2, <1>6
  <2>11. Room \in Nat /\ m + 1 = ByteBits
    BY <1>2, <1>10, <2>10 DEF Room
  <2>12. Len(Out(s)) + 1 <= Room => Out(t) = Out(s) \o <<bit>>
    <3> HAVE Len(Out(s)) + 1 <= Room
    <3>1. Len(Out(z)) + Len(byte) <= Room
      <4>1. (f + m) + 1 <= Room
        BY <1>6, <2>10
      <4>2. f + ByteBits <= Room
        BY <2>11, <4>1
      <4> QED BY <2>8, <2>9, <2>10, <4>2
    <3>2. Out(t) = F \o byte
      BY <2>7, <2>8, <3>1 DEF Appends
    <3>3. /\ Out(t) \in Seq(Bit) /\ Len(Out(t)) = Len(F) + n
          /\ \A k \in 1..Len(F) : Out(t)[k] = F[k]
          /\ \A k \in 1..n : Out(t)[Len(F) + k] = byte[k]
      <4>1. F \in Seq(Bit) /\ byte \in Seq(Bit)
        BY <1>6, <2>9
      <4> HIDE DEF F
      <4>2. /\ F \o byte \in Seq(Bit) /\ Len(F \o byte) = Len(F) + Len(byte)
            /\ \A k \in 1..Len(F) : (F \o byte)[k] = F[k]
            /\ \A k \in 1..Len(byte) : (F \o byte)[Len(F) + k] = byte[k]
        BY ONLY <4>1, JoinIs
      <4> HIDE DEF n
      <4> QED BY ONLY <1>10, <2>9, <3>2, <4>2
    <3> QED BY <1>8, <3>3
  <2>13. ASSUME NEW k \in 1..Len(Out(s)), k <= Room
         PROVE  k <= Len(Out(t)) /\ Out(t)[k] = Out(s)[k]
    <3>1. CASE k <= f
      <4>1. k \in 1..Len(Out(z)) /\ k \in 1..Len(F)
        BY <2>8, <2>10, <3>1
      <4>2. k <= Len(Out(t)) /\ Out(t)[k] = Out(z)[k]
        BY <2>7, <2>13, <4>1 DEF Appends
      <4> QED BY <1>6, <2>8, <4>1, <4>2
    <3>2. CASE ~(k <= f)
      <4>1. f + ByteBits <= Room
        <5>1. PICK l \in Nat : l = Len(s.b.buffer)
          BY <1>6
        <5>2. l < BufferSize => ByteBits * l + ByteBits <= ByteBits * BufferSize
          BY <1>2, Multiples
        <5>3. l <= BufferSize
          BY <1>1, <5>1 DEF StoreIs
        <5>4. f = ByteBits * l /\ Room = ByteBits * BufferSize
          BY <1>2, <1>6, <2>10, <5>1 DEF Room
        <5>5. l # BufferSize
          BY <2>11, <2>13, <3>2, <5>4
        <5> QED BY <1>2, <5>2, <5>3, <5>4, <5>5
      <4>2. Len(Out(s)) + 1 <= Room
        <5>1. (f + m) + 1 <= Room
          BY <2>11, <4>1
        <5> QED BY <1>6, <2>10, <5>1
      <4>3. Out(t) = Out(s) \o <<bit>>
        BY <2>12, <4>2
      <4>4. Len(Out(t)) = Len(Out(s)) + 1 /\ Out(t)[k] = Out(s)[k] /\ Len(Out(s)) \in Nat
        BY <1>6, <1>7, <4>3, JoinIs
      <4> QED BY <4>4
    <3> QED BY <3>1, <3>2
  <2>14. s.bits + Len(<<bit>>) = ByteBits * 1 + t.bits /\ 1 \in Nat
    BY <1>2, <1>7, <1>10, <2>5
  <2>15. /\ WriterIs(t) /\ t.b.buffer_read_index = s.b.buffer_read_index
         /\ Len(s.b.buffer) <= Len(t.b.buffer)
    BY <2>3, <2>7 DEF Appends
  <2>16. Appends(s, t, <<bit>>)
    BY <1>7, <2>12, <2>13, <2>14, <2>15 DEF Appends
  <2> QED BY <2>16 DEF t
<1> QED BY <1>9, <1>10

(* A whole byte when nothing is pending.                                   *)
LEMMA PutByteAppends ==
  ASSUME SizeAssumption, NEW s, WriterIs(s), s.bits = 0, NEW byte \in Byte
  PROVE  Appends(s, PutByte(s, byte), byte)
<1> DEFINE t == PutByte(s, byte)
<1>1. s = [byte |-> s.byte, bits |-> s.bits, b |-> s.b] /\ IsRecord(s.b)
  BY DEF WriterIs, StoreIs
<1>2. <<byte>> \in Seq(Byte) /\ FlattenSeq(<<byte>>) = byte
  BY FlattenOne
<1>3. t = [byte |-> Blank, bits |-> 0, b |-> t.b] /\ Laid(s.b, t.b, <<byte>>)
  <2>1. Made(s, s.byte, s.bits, s.b) /\ byte \in Byte /\ t = PutByte(s, byte)
    BY <1>1 DEF Made
  <2> HIDE DEF t
  <2>2. Made(t, Blank, 0, t.b) /\ Laid(s.b, t.b, <<byte>>)
    BY ONLY <1>1, <2>1, ByteLaid
  <2> QED BY ONLY <2>2 DEF Made
<1> HIDE DEF t
<1>4. t.byte = Blank /\ t.bits = 0
  BY <1>3
<1>5. /\ t = [byte |-> t.byte, bits |-> t.bits, b |-> t.b]
      /\ t.bits = 0 /\ t.byte \in Byte /\ \A i \in 1..ByteBits : t.byte[i] = 0
  BY <1>3, <1>4, BlankIs
<1>6. Appends(s, t, FlattenSeq(<<byte>>))
  BY <1>2, <1>3, <1>5, LaidAppends
<1> QED BY <1>2, <1>6 DEF t

LEMMA OneMore ==
  ASSUME NEW S, NEW s \in Seq(S), NEW n \in Nat, n + 1 <= Len(s)
  PROVE  SubSeq(s, 1, n + 1) = SubSeq(s, 1, n) \o <<s[n+1]>> /\ s[n+1] \in S
<1> DEFINE front == SubSeq(s, 1, n)
           more == SubSeq(s, 1, n + 1)
           x == s[n+1]
<1>1. Len(s) \in Nat /\ n \in 0..Len(s) /\ n + 1 \in 0..Len(s) /\ n + 1 \in 1..Len(s)
      /\ n + 1 \in 1..n+1
  BY LenProperties
<1>2. x \in S
  BY <1>1, ElementOfSeq
<1>3. front \in Seq(S) /\ Len(front) = n /\ \A i \in 1..n : front[i] = s[i]
  BY <1>1, FrontIs
<1>4. more \in Seq(S) /\ Len(more) = n + 1 /\ \A i \in 1..n+1 : more[i] = s[i]
  BY <1>1, FrontIs
<1> HIDE DEF front, more
<1>5. <<x>> \in Seq(S) /\ Len(<<x>>) = 1 /\ \A i \in 1..1 : <<x>>[i] = x /\ n + i = n + 1
  BY <1>2
<1>6. /\ Len(more) = Len(front) + Len(<<x>>)
      /\ \A i \in 1..Len(front) : more[i] = front[i]
      /\ \A i \in 1..Len(<<x>>) : more[Len(front) + i] = <<x>>[i]
  <2>1. \A i \in 1..n : i \in 1..n+1
    OBVIOUS
  <2> QED BY <1>1, <1>3, <1>4, <1>5, <2>1
<1> HIDE DEF x
<1>7. more = front \o <<x>>
  BY ONLY <1>3, <1>4, <1>5, <1>6, JoinedWhen
<1> QED BY <1>2, <1>7 DEF front, more, x

(* writeBits: the Serial after each of the bits.                           *)
Writing(f, s, bits, n) ==
  f = [i \in 0..n |-> IF i = 0 THEN s ELSE WriteBit(f[i-1], bits[i])]

LEMMA WriteBitsIs ==
  ASSUME NEW s, NEW bits, Len(bits) \in Nat
  PROVE  \E f : Writing(f, s, bits, Len(bits)) /\ WriteBits(s, bits) = f[Len(bits)]
<1> DEFINE N == Len(bits)
           Is(g) == g = [i \in 0..N |-> IF i = 0 THEN s ELSE WriteBit(g[i-1], bits[i])]
           after == CHOOSE g : Is(g)
           S == {n \in Nat : \E f : Writing(f, s, bits, n)}
<1>1. WriteBits(s, bits) = after[N]
  BY DEF WriteBits
<1>2. 0 \in S
  <2> DEFINE f == [i \in 0..0 |-> s]
  <2>1. Writing(f, s, bits, 0)
    BY DEF Writing
  <2> QED BY <2>1
<1>3. ASSUME NEW n \in Nat, n \in S
      PROVE  n + 1 \in S
  <2>1. PICK f : Writing(f, s, bits, n)
    BY <1>3
  <2> DEFINE new == WriteBit(f[n], bits[n+1])
             g == [i \in 0..n+1 |-> IF i <= n THEN f[i] ELSE new]
  <2>2. \A i \in 0..n : f[i] = IF i = 0 THEN s ELSE WriteBit(f[i-1], bits[i])
    BY <2>1 DEF Writing
  <2>3. \A i \in 0..n+1 : i = 0 \/ (i # 0 /\ i \in 0..n /\ i - 1 \in 0..n)
                          \/ (i # 0 /\ i = n + 1 /\ i - 1 = n)
    OBVIOUS
  <2>4. \A i \in 0..n : i \in 0..n+1 /\ i <= n /\ ~(n + 1 <= n)
    OBVIOUS
  <2>5. 0 \in 0..n /\ n \in 0..n /\ n + 1 \in 0..n+1 /\ 0 \in 0..n+1
    OBVIOUS
  <2>6. (\A i \in 0..n : g[i] = f[i]) /\ g[n+1] = new
    BY <2>4, <2>5
  <2>7. \A i \in 0..n+1 : g[i] = IF i = 0 THEN s ELSE WriteBit(g[i-1], bits[i])
    <3> TAKE i \in 0..n+1
    <3>1. CASE i = 0
      BY <2>2, <2>5, <2>6, <3>1
    <3>2. CASE i # 0 /\ i \in 0..n /\ i - 1 \in 0..n
      <4>1. g[i] = f[i] /\ g[i-1] = f[i-1]
        BY <2>6, <3>2
      <4>2. f[i] = WriteBit(f[i-1], bits[i])
        BY <2>2, <3>2
      <4> HIDE DEF g
      <4> QED BY <3>2, <4>1, <4>2
    <3>3. CASE i # 0 /\ i = n + 1 /\ i - 1 = n
      <4>1. g[i] = new /\ g[i-1] = f[n]
        BY <2>5, <2>6, <3>3
      <4> HIDE DEF g
      <4> QED BY <3>3, <4>1
    <3> QED BY <2>3, <3>1, <3>2, <3>3
  <2>8. g = [i \in 0..n+1 |-> g[i]]
    OBVIOUS
  <2> HIDE DEF g
  <2>9. Writing(g, s, bits, n + 1)
    BY <2>7, <2>8 DEF Writing
  <2> QED BY <2>9
<1>4. \E f : Writing(f, s, bits, N)
  <2>1. N \in S
    <3> HIDE DEF S
    <3> QED BY <1>2, <1>3, Induction
  <2> QED BY <2>1
<1>5. PICK f : Writing(f, s, bits, N)
  BY <1>4
<1>6. Is(f)
  BY <1>5 DEF Writing
<1>7. Is(after)
  BY <1>6
<1> HIDE DEF after
<1>8. Writing(after, s, bits, N)
  BY <1>7 DEF Writing
<1> QED BY <1>1, <1>8

LEMMA WriteBitsAppends ==
  ASSUME SizeAssumption, NEW s, WriterIs(s), NEW bits \in Seq(Bit)
  PROVE  Appends(s, WriteBits(s, bits), bits)
<1> DEFINE N == Len(bits)
<1>1. N \in Nat
  BY LenProperties
<1>2. PICK f : Writing(f, s, bits, N) /\ WriteBits(s, bits) = f[N]
  BY <1>1, WriteBitsIs
<1>3. \A i \in 0..N : f[i] = IF i = 0 THEN s ELSE WriteBit(f[i-1], bits[i])
  BY <1>2 DEF Writing
<1> DEFINE S == {n \in Nat : n <= N => Appends(s, f[n], SubSeq(bits, 1, n))}
<1>4. 0 \in S
  <2>1. SubSeq(bits, 1, 0) = <<>>
    OBVIOUS
  <2>2. f[0] = s
    <3>1. 0 \in 0..N
      BY <1>1
    <3> QED BY <1>3, <3>1
  <2>3. Appends(s, f[0], SubSeq(bits, 1, 0))
    BY <2>1, <2>2, AppendsNothing
  <2> QED BY <2>3
<1>5. ASSUME NEW n \in Nat, n \in S
      PROVE  n + 1 \in S
  <2> SUFFICES ASSUME n + 1 <= N
               PROVE  Appends(s, f[n+1], SubSeq(bits, 1, n + 1))
    OBVIOUS
  <2> DEFINE x == SubSeq(bits, 1, n)
             bit == bits[n+1]
  <2>1. n + 1 \in 0..N /\ n + 1 # 0 /\ (n + 1) - 1 = n /\ n <= N /\ n \in 0..N
    BY <1>1
  <2>2. f[n+1] = WriteBit(f[n], bit)
    BY <1>3, <2>1
  <2>3. Appends(s, f[n], x)
    BY <1>5, <2>1
  <2>4. SubSeq(bits, 1, n + 1) = x \o <<bit>> /\ bit \in Bit
    BY OneMore
  <2>5. x \in Seq(Bit)
    BY <2>1, FrontIs
  <2> HIDE DEF x, bit
  <2>6. WriterIs(f[n])
    BY <2>3 DEF Appends
  <2>7. Appends(f[n], f[n+1], <<bit>>)
    BY <2>2, <2>4, <2>6, WriteBitAppends
  <2>8. <<bit>> \in Seq(Bit)
    BY <2>4
  <2>9. Appends(s, f[n+1], x \o <<bit>>)
    BY <2>3, <2>5, <2>7, <2>8, AppendsTrans
  <2> QED BY <2>4, <2>9
<1>6. Appends(s, f[N], SubSeq(bits, 1, N))
  <2>1. N \in S
    <3> HIDE DEF S
    <3> QED BY <1>1, <1>4, <1>5, Induction
  <2> QED BY <1>1, <2>1
<1>7. SubSeq(bits, 1, N) = bits
  BY SubSeqFull
<1> QED BY <1>2, <1>6, <1>7

-----------------------------------------------------------------------------
(* Any call of a program that mixes them as MayMix says.                   *)
LEMMA HalvesIs ==
  ASSUME SizeAssumption, NEW bits \in Seq(Bit), Len(bits) = 2 * ByteBits
  PROVE  LET x == SubSeq(bits, 1, ByteBits)
             y == SubSeq(bits, ByteBits + 1, 2 * ByteBits)
         IN  x \in Byte /\ y \in Byte /\ bits = x \o y
<1> DEFINE B == ByteBits
           x == SubSeq(bits, 1, B)
           y == SubSeq(bits, B + 1, 2 * B)
<1>1. B \in Nat /\ B > 1 /\ 2 * B = B + B
  BY DEF SizeAssumption
<1>2. \A i \in 1..2*B : bits[i] \in Bit
  BY ElementOfSeq
<1> HIDE DEF B
<1>3. B \in 0..Len(bits) /\ Len(bits) = B + B
  BY <1>1 DEF B
<1>4. x \in Seq(Bit) /\ Len(x) = B /\ \A i \in 1..B : x[i] = bits[i]
  BY <1>3, FrontIs
<1>5. /\ y \in Seq(Bit) /\ Len(y) = B
      /\ \A i \in 1..B : y[i] = bits[B + i]
  <2>1. \A i \in (B + 1)..2*B : bits[i] \in Bit
    BY <1>1, <1>2
  <2>2. B + 1 \in Int /\ 2 * B \in Int
    BY <1>1
  <2>3. /\ y \in Seq(Bit)
        /\ Len(y) = IF B + 1 <= 2 * B THEN 2 * B - (B + 1) + 1 ELSE 0
        /\ \A i \in 1..2 * B - (B + 1) + 1 : y[i] = bits[B + 1 + i - 1]
    BY <2>1, <2>2, SubSeqProperties
  <2>4. /\ 2 * B - (B + 1) + 1 = B /\ B + 1 <= 2 * B
        /\ \A i \in 1..B : B + 1 + i - 1 = B + i
    BY <1>1
  <2> HIDE DEF y
  <2> QED BY <2>3, <2>4
<1> HIDE DEF x, y
<1>6. x \in Byte /\ y \in Byte
  <2>1. x \in [1..B -> Bit] /\ y \in [1..B -> Bit]
    <3>1. \A z \in Seq(Bit) : Len(z) = B => z \in [1..B -> Bit]
      BY <1>1
    <3> QED BY <1>4, <1>5, <3>1
  <2> QED BY <2>1 DEF Byte, B
<1>7. /\ Len(bits) = Len(x) + Len(y)
      /\ \A i \in 1..Len(x) : bits[i] = x[i]
      /\ \A i \in 1..Len(y) : bits[Len(x) + i] = y[i]
  BY <1>3, <1>4, <1>5
<1>8. bits = x \o y
  BY ONLY <1>4, <1>5, <1>7, bits \in Seq(Bit), JoinedWhen
<1> QED BY <1>6, <1>8 DEF x, y, B

LEMMA AnyPayload ==
  ASSUME SizeAssumption, NEW kind \in AllKinds, NEW bits \in Payloads(kind)
  PROVE  /\ bits \in Seq(Bit) /\ Len(bits) \in Nat /\ Len(bits) >= 1
         /\ kind \in {"bit", "bool"} => /\ bits[1] \in Bit /\ bits = <<bits[1]>>
                                        /\ Len(bits) = 1
         /\ kind = "byte" => bits \in Byte /\ Len(bits) = ByteBits
         /\ kind = "value" => Len(bits) = 2 * ByteBits
<1>1. CASE kind = "bits"
  <2>1. Payloads(kind) = UNION {[1..n -> Bit] : n \in 1..MaxBits}
    BY <1>1 DEF Payloads
  <2>2. PICK n \in 1..MaxBits : bits \in [1..n -> Bit]
    BY <2>1
  <2>3. n \in Nat /\ n >= 1
    OBVIOUS
  <2>4. bits \in Seq(Bit) /\ Len(bits) = n
    BY <2>2, <2>3
  <2> QED BY <1>1, <2>3, <2>4
<1>2. CASE kind \in Plain
  <2>1. /\ bits \in Seq(Bit)
        /\ kind \in {"bit", "bool"} => Len(bits) = 1 /\ bits[1] \in Bit
        /\ kind = "byte" => bits \in Byte
        /\ kind = "value" => Len(bits) = 2 * ByteBits
    BY <1>2, PayloadIs
  <2>2. kind = "byte" => Len(bits) = ByteBits
    BY <2>1, ByteIsSeq
  <2>3. Len(bits) = 1 => bits = <<bits[1]>>
    BY <2>1
  <2>4. ByteBits \in Nat /\ ByteBits >= 1 /\ 2 * ByteBits \in Nat /\ 2 * ByteBits >= 1
    BY DEF SizeAssumption
  <2>5. kind \in {"bit", "bool", "byte", "value"}
    BY <1>2 DEF Plain, AllKinds
  <2>6. Len(bits) \in Nat /\ Len(bits) >= 1
    BY <2>1, <2>2, <2>4, <2>5
  <2> QED BY <2>1, <2>2, <2>3, <2>6
<1> QED BY <1>1, <1>2 DEF Plain

LEMMA SentIs ==
  ASSUME SizeAssumption, NEW op, op.kind \in AllKinds, op.bits \in Payloads(op.kind)
  PROVE  /\ Wire(op) \in Seq(Bit) /\ Len(Wire(op)) \in Nat /\ Len(Wire(op)) >= 1
         /\ Whole(op.kind) => Len(Wire(op)) = ByteBits * Bytes(op.kind)
         /\ op.kind = "value" => Len(Wire(op)) = ByteBits * 2
         /\ op.kind = "byte" => Len(Wire(op)) = ByteBits
<1>1. /\ op.bits \in Seq(Bit) /\ Len(op.bits) \in Nat /\ Len(op.bits) >= 1
      /\ op.kind \in {"bit", "bool"} => op.bits[1] \in Bit
      /\ op.kind = "byte" => Len(op.bits) = ByteBits
      /\ op.kind = "value" => Len(op.bits) = 2 * ByteBits
  BY AnyPayload
<1>2. ByteBits \in Nat /\ ByteBits >= 1 /\ 2 * ByteBits = ByteBits * 2
      /\ ByteBits * 1 = ByteBits
  BY DEF SizeAssumption
<1>3. CASE op.kind = "bool" /\ ~bitStream
  <2>1. Wire(op) = Bool(op.bits[1])
    BY <1>3 DEF Wire
  <2>2. Wire(op) \in Seq(Bit) /\ Len(Wire(op)) = ByteBits
    BY <1>1, <1>3, <2>1, ByteIsSeq
  <2> QED BY <1>2, <1>3, <2>2 DEF Bytes
<1>4. CASE ~(op.kind = "bool" /\ ~bitStream)
  <2>1. Wire(op) = op.bits
    BY <1>4 DEF Wire
  <2> QED BY <1>1, <1>2, <1>4, <2>1 DEF Whole, Bytes
<1> QED BY <1>3, <1>4

LEMMA WriteAppends ==
  ASSUME SizeAssumption, NEW s, WriterIs(s),
         NEW op, op.kind \in AllKinds, op.bits \in Payloads(op.kind),
         op.kind = "value" \/ Whole(op.kind) => s.bits = 0
  PROVE  Appends(s, Write(s, op.kind, op.bits), Wire(op))
<1> DEFINE kind == op.kind
           bits == op.bits
<1>1. /\ bits \in Seq(Bit)
      /\ kind \in {"bit", "bool"} => bits[1] \in Bit /\ bits = <<bits[1]>>
      /\ kind = "byte" => bits \in Byte
      /\ kind = "value" => Len(bits) = 2 * ByteBits
  BY AnyPayload
<1>2. s = [byte |-> s.byte, bits |-> s.bits, b |-> s.b]
      /\ s.byte \in Byte /\ s.bits \in 0..ByteBits-1 /\ StoreIs(s.b)
      /\ \A i \in s.bits+1..ByteBits : s.byte[i] = 0
  BY DEF WriterIs
(* writeByte, of which only a bitStream may be between two bytes. *)
<1>3. ASSUME NEW byte \in Byte, ~bitStream => s.bits = 0
      PROVE  Appends(s, WriteByte(s, byte), byte)
  <2>1. CASE bitStream /\ Partial(s.bits)
    <3>1. WriteByte(s, byte) = WriteBits(s, byte)
      BY <2>1 DEF WriteByte
    <3>2. byte \in Seq(Bit)
      BY ByteIsSeq
    <3> QED BY <3>1, <3>2, WriteBitsAppends
  <2>2. CASE ~(bitStream /\ Partial(s.bits))
    <3>1. WriteByte(s, byte) = PutByte(s, byte)
      BY <2>2 DEF WriteByte
    <3>2. s.bits = 0
      <4>1. s.bits \in 0..ByteBits-1 /\ ~(s.bits \in 1..ByteBits-1) => s.bits = 0
        BY DEF SizeAssumption
      <4> QED BY <1>2, <1>3, <2>2, <4>1 DEF Partial
    <3> QED BY <3>1, <3>2, PutByteAppends
  <2> QED BY <2>1, <2>2
<1> HIDE DEF kind, bits
<1>4. CASE kind = "bit" \/ (kind = "bool" /\ bitStream)
  <2>1. Write(s, kind, bits) = WriteBit(s, bits[1])
    BY <1>4 DEF Write
  <2>2. Wire(op) = <<bits[1]>> /\ bits[1] \in Bit
    <3>1. Wire(op) = bits
      BY <1>4 DEF Wire, kind, bits
    <3> QED BY <1>1, <1>4, <3>1
  <2>3. Appends(s, WriteBit(s, bits[1]), <<bits[1]>>)
    BY <2>2, WriteBitAppends
  <2> QED BY <2>1, <2>2, <2>3 DEF kind, bits
<1>5. CASE kind = "byte"
  <2>1. Write(s, kind, bits) = WriteByte(s, bits)
    BY <1>5 DEF Write
  <2>2. Wire(op) = bits /\ bits \in Byte
    BY <1>1, <1>5 DEF Wire, kind, bits
  <2>3. ~bitStream => s.bits = 0
    BY <1>5 DEF Whole, kind
  <2>4. Appends(s, WriteByte(s, bits), bits)
    BY <1>3, <2>2, <2>3
  <2> QED BY <2>1, <2>2, <2>4 DEF kind, bits
<1>6. CASE kind = "bits"
  <2>1. Write(s, kind, bits) = WriteBits(s, bits)
    BY <1>6 DEF Write
  <2>2. Wire(op) = bits
    BY <1>6 DEF Wire, kind, bits
  <2>3. Appends(s, WriteBits(s, bits), bits)
    BY <1>1, WriteBitsAppends
  <2> QED BY <2>1, <2>2, <2>3 DEF kind, bits
<1>7. CASE kind = "bool" /\ ~bitStream
  <2>1. Write(s, kind, bits) = WriteByte(s, Bool(bits[1]))
    BY <1>7 DEF Write
  <2>2. Wire(op) = Bool(bits[1]) /\ Bool(bits[1]) \in Byte
    BY <1>1, <1>7, ByteIsSeq DEF Wire, kind, bits
  <2>3. s.bits = 0
    BY <1>7 DEF Whole, kind
  <2>4. Appends(s, WriteByte(s, Bool(bits[1])), Bool(bits[1]))
    BY <1>3, <2>2, <2>3
  <2> QED BY <2>1, <2>2, <2>4 DEF kind, bits
<1>8. CASE kind = "value"
  <2> DEFINE x == SubSeq(bits, 1, ByteBits)
             y == SubSeq(bits, ByteBits + 1, 2 * ByteBits)
             t == WriteBytes(s, <<x, y>>)
  <2>1. Write(s, kind, bits) = t
    BY <1>8 DEF Write
  <2>2. Wire(op) = bits /\ s.bits = 0
    BY <1>8 DEF Wire, kind, bits
  <2>3. x \in Byte /\ y \in Byte /\ bits = x \o y
    BY <1>1, <1>8, HalvesIs
  <2> HIDE DEF x, y
  <2>4. <<x, y>> \in Seq(Byte) /\ FlattenSeq(<<x, y>>) = x \o y
    BY <2>3, FlattenTwo
  <2>5. t = [byte |-> s.byte, bits |-> s.bits, b |-> t.b] /\ Laid(s.b, t.b, <<x, y>>)
    <3> DEFINE z == <<x, y>>
    <3>1. Made(s, s.byte, s.bits, s.b) /\ IsRecord(s.b) /\ z \in Seq(Byte)
      BY <1>2, <2>4 DEF StoreIs, Made
    <3> HIDE DEF z
    <3>2. t = WriteBytes(s, z)
      BY DEF z
    <3> HIDE DEF t
    <3>3. Made(t, s.byte, s.bits, t.b) /\ Laid(s.b, t.b, z)
      BY ONLY <3>1, <3>2, BytesLaid
    <3> QED BY ONLY <3>3 DEF Made, z
  <2> HIDE DEF t
  <2>6. t.byte = s.byte /\ t.bits = s.bits
    BY <2>5
  <2>7. /\ t = [byte |-> t.byte, bits |-> t.bits, b |-> t.b]
        /\ t.bits = 0 /\ t.byte \in Byte /\ \A i \in 1..ByteBits : t.byte[i] = 0
    <3>1. \A i \in 1..ByteBits : i \in 0+1..ByteBits
      OBVIOUS
    <3>2. \A i \in 1..ByteBits : s.byte[i] = 0
      BY <1>2, <2>2, <3>1
    <3> QED BY <1>2, <2>2, <2>5, <2>6, <3>2
  <2>8. Appends(s, t, FlattenSeq(<<x, y>>))
    BY <2>2, <2>4, <2>5, <2>7, LaidAppends
  <2>9. Appends(s, t, bits)
    BY <2>3, <2>4, <2>8
  <2> QED BY <2>1, <2>2, <2>9 DEF kind, bits
<1>9. kind \in AllKinds
  BY DEF kind
<1> QED BY <1>4, <1>5, <1>6, <1>7, <1>8, <1>9 DEF AllKinds

-----------------------------------------------------------------------------
(* Reading.  The reader is at bit p of the buffer: between two bytes, or   *)
(* in the byte before its position, which is then the open one.            *)
ReaderIs(s) ==
  /\ \E S : s \in [byte : Byte, bits : 0..ByteBits, b : S, out : Seq(Bit)]
  /\ IsRecord(s.b) /\ s.b.buffer \in Seq(Byte) /\ s.b.buffer_read_index \in Nat
Kept(s, t) ==
  /\ ReaderIs(t) /\ t.b.buffer = s.b.buffer
  /\ t.b.buffer_write_index = s.b.buffer_write_index

At(s, p) ==
  \/ s.bits \in NoneOpen /\ p = ByteBits * s.b.buffer_read_index
  \/ /\ Partial(s.bits) /\ p + ByteBits = ByteBits * s.b.buffer_read_index + s.bits
     /\ s.b.buffer_read_index \in 1..Len(s.b.buffer)
     /\ s.byte = s.b.buffer[s.b.buffer_read_index]

LEMMA KeptTrans ==
  ASSUME NEW s, NEW t, NEW u, Kept(s, t), Kept(t, u)
  PROVE  Kept(s, u)
BY DEF Kept

LEMMA MemoryType ==
  ASSUME SizeAssumption, NEW s, ReaderIs(s), NEW i \in Nat \ {0}
  PROVE  Memory(s, i) \in Byte /\ (i <= Len(s.b.buffer) => Memory(s, i) = s.b.buffer[i])
<1>1. s.b.buffer \in Seq(Byte)
  BY DEF ReaderIs
<1>2. Len(s.b.buffer) \in Nat /\ \A k \in 1..Len(s.b.buffer) : s.b.buffer[k] \in Byte
  BY <1>1, LenProperties, ElementOfSeq
<1>3. i <= Len(s.b.buffer) => s.b.buffer[i] \in Byte
  BY <1>2
<1> QED BY <1>3, BlankIs DEF Memory

LEMMA BytesRead ==
  ASSUME NEW s, ReaderIs(s), NEW n \in Nat
  PROVE  LET t == ReadBytes(s, n)
         IN  /\ Kept(s, t) /\ t.byte = s.byte /\ t.bits = s.bits /\ t.out = s.out
             /\ t.b.buffer_read_index = IF BufferReads(s.b, n)
                                        THEN s.b.buffer_read_index + n
                                        ELSE s.b.buffer_read_index
<1> DEFINE c == IF bitStream THEN BufferRead(s.b, n) ELSE ReadAll(s.b, n)
           t == [s EXCEPT !.b = c]
<1>1. Fetched(s.b, c, n)
  BY FetchedByAll DEF ReaderIs
<1>2. ReadBytes(s, n) = t
  BY DEF ReadBytes
<1> HIDE DEF c
<1>3. PICK S : s \in [byte : Byte, bits : 0..ByteBits, b : S, out : Seq(Bit)]
  BY DEF ReaderIs
<1> DEFINE T == S \cup {c}
<1>4. s \in [byte : Byte, bits : 0..ByteBits, b : T, out : Seq(Bit)] /\ c \in T
  BY <1>3
<1> HIDE DEF T
<1>5. t \in [byte : Byte, bits : 0..ByteBits, b : T, out : Seq(Bit)]
      /\ t.b = c /\ t.byte = s.byte /\ t.bits = s.bits /\ t.out = s.out
  BY <1>4
<1> HIDE DEF t
<1>6. s.b.buffer \in Seq(Byte) /\ s.b.buffer_read_index \in Nat
  BY DEF ReaderIs
<1>7. c.buffer_read_index \in Nat
  BY <1>1, <1>6 DEF Fetched
<1>8. ReaderIs(t)
  BY <1>1, <1>5, <1>6, <1>7 DEF ReaderIs, Fetched
<1>9. Kept(s, t)
  BY <1>1, <1>5, <1>8 DEF Kept, Fetched
<1> QED BY <1>1, <1>2, <1>5, <1>9 DEF Fetched

LEMMA ByteFetched ==
  ASSUME SizeAssumption, NEW s, ReaderIs(s)
  PROVE  LET f == FetchByte(s)
             i == s.b.buffer_read_index
         IN  /\ Kept(s, f) /\ f.bits = 0 /\ f.out = s.out
             /\ i + 1 <= BufferSize => /\ f.b.buffer_read_index = i + 1
                                       /\ f.byte = Memory(s, i + 1)
<1> DEFINE i == s.b.buffer_read_index
           byte == IF BufferReads(s.b, 1) THEN Memory(s, i + 1) ELSE s.byte
           t == ReadBytes(s, 1)
           f == [t EXCEPT !.byte = byte, !.bits = 0]
<1>1. i \in Nat /\ i + 1 \in Nat \ {0} /\ BufferSize \in Nat /\ 0 \in 0..ByteBits
  BY DEF ReaderIs, SizeAssumption
<1>2. /\ Kept(s, t) /\ t.byte = s.byte /\ t.bits = s.bits /\ t.out = s.out
      /\ t.b.buffer_read_index = IF BufferReads(s.b, 1) THEN i + 1 ELSE i
  BY BytesRead
<1>3. s.byte \in Byte
  <2>1. \A S : s \in [byte : Byte, bits : 0..ByteBits, b : S, out : Seq(Bit)] => s.byte \in Byte
    OBVIOUS
  <2> QED BY <2>1 DEF ReaderIs
<1>4. byte \in Byte
  BY <1>1, <1>3, MemoryType
<1>5. FetchByte(s) = f
  BY <1>2 DEF FetchByte
<1>6. PICK S : t \in [byte : Byte, bits : 0..ByteBits, b : S, out : Seq(Bit)]
  BY <1>2 DEF Kept, ReaderIs
<1> HIDE DEF t, byte
<1>7. /\ f \in [byte : Byte, bits : 0..ByteBits, b : S, out : Seq(Bit)]
      /\ f.b = t.b /\ f.byte = byte /\ f.bits = 0 /\ f.out = t.out
  BY <1>1, <1>4, <1>6
<1> HIDE DEF f
<1>8. Kept(s, f)
  BY <1>2, <1>7 DEF Kept, ReaderIs
<1>9. BufferReads(s.b, 1) = (i + 1 <= BufferSize)
  <2>1. (i <= BufferSize - 1) = (i + 1 <= BufferSize)
    BY <1>1
  <2> QED BY <2>1 DEF BufferReads
<1> HIDE DEF i
<1> QED BY <1>2, <1>5, <1>7, <1>8, <1>9 DEF byte, i

LEMMA BitTaken ==
  ASSUME SizeAssumption, NEW s, ReaderIs(s), s.bits # ByteBits
  PROVE  LET t == TakeBit(s)
         IN  /\ Kept(s, t) /\ t.b = s.b /\ t.byte = s.byte
             /\ t.bits = s.bits + 1 /\ t.bits \in 1..ByteBits
             /\ t.out = Append(s.out, s.byte[s.bits + 1])
<1> DEFINE x == Append(s.out, s.byte[s.bits + 1])
           n == s.bits + 1
           t == [s EXCEPT !.out = x, !.bits = n]
<1>1. PICK S : s \in [byte : Byte, bits : 0..ByteBits, b : S, out : Seq(Bit)]
  BY DEF ReaderIs
<1>2. s.byte \in Byte /\ s.bits \in 0..ByteBits /\ s.out \in Seq(Bit)
  BY <1>1
<1>3. n \in 1..ByteBits /\ n \in 0..ByteBits
  BY <1>2 DEF SizeAssumption
<1>4. s.byte[n] \in Bit
  BY <1>2, <1>3 DEF Byte
<1>5. x \in Seq(Bit)
  BY <1>2, <1>4, AppendProperties
<1>6. TakeBit(s) = t
  BY DEF TakeBit
<1> HIDE DEF x, n
<1>7. /\ t \in [byte : Byte, bits : 0..ByteBits, b : S, out : Seq(Bit)]
      /\ t.b = s.b /\ t.byte = s.byte /\ t.bits = n /\ t.out = x
  BY <1>1, <1>3, <1>5
<1> HIDE DEF t
<1>8. Kept(s, t)
  BY <1>7 DEF Kept, ReaderIs
<1> QED BY <1>3, <1>6, <1>7, <1>8 DEF x, n

(* Bit p + 1 is bit k + 1 of byte i + 1.                                   *)
Divides(p, i, k) == i \in Nat /\ k \in Nat /\ k < ByteBits /\ p = ByteBits * i + k

LEMMA BitAt ==
  ASSUME SizeAssumption, NEW m \in Seq(Byte), NEW i, NEW k, NEW p,
         Divides(p, i, k), i < Len(m)
  PROVE  FlattenSeq(m)[p + 1] = m[i+1][k+1]
<1>1. /\ Len(m) \in Nat
      /\ \A j \in 1..Len(m) : \A l \in 1..ByteBits :
           FlattenSeq(m)[ByteBits * (j - 1) + l] = m[j][l]
  BY BytesFlatten
<1>2. i \in Nat /\ k \in Nat /\ k < ByteBits /\ p = ByteBits * i + k
  BY DEF Divides
<1>3. i + 1 \in 1..Len(m) /\ (i + 1) - 1 = i /\ k + 1 \in 1..ByteBits
  BY <1>1, <1>2 DEF SizeAssumption
<1>4. FlattenSeq(m)[ByteBits * i + (k + 1)] = m[i+1][k+1]
  BY <1>1, <1>3
<1>5. ByteBits * i \in Nat
  BY <1>2, Multiples
<1>6. ByteBits * i + (k + 1) = p + 1
  BY <1>2, <1>5
<1> QED BY <1>4, <1>6

LEMMA NextBitKept ==
  ASSUME SizeAssumption, NEW s, ReaderIs(s), NEW empty, ByteBits \in empty,
         empty \subseteq NoneOpen
  PROVE  LET t == NextBit(s, empty) IN Kept(s, t) /\ t.bits \in 1..ByteBits
<1> DEFINE f == FetchByte(s)
<1>1. CASE s.bits \in empty
  <2>1. NextBit(s, empty) = TakeBit(f)
    BY <1>1 DEF NextBit
  <2>2. Kept(s, f) /\ f.bits = 0
    BY ByteFetched
  <2> HIDE DEF f
  <2>3. ReaderIs(f) /\ f.bits # ByteBits
    BY <2>2 DEF Kept, SizeAssumption
  <2>4. Kept(f, TakeBit(f)) /\ TakeBit(f).bits \in 1..ByteBits
    BY <2>3, BitTaken
  <2> QED BY <2>1, <2>2, <2>4, KeptTrans
<1>2. CASE s.bits \notin empty
  <2>1. NextBit(s, empty) = TakeBit(s)
    BY <1>2 DEF NextBit
  <2>2. s.bits # ByteBits
    BY <1>2
  <2> QED BY <2>1, <2>2, BitTaken
<1> QED BY <1>1, <1>2

(* The next bit is the one at p + 1, if the memory has it.                 *)
LEMMA NextBitIs ==
  ASSUME SizeAssumption, NEW s, ReaderIs(s), NEW empty, ByteBits \in empty,
         empty \subseteq NoneOpen, NEW p \in Nat, At(s, p), s.bits = 0 => 0 \in empty,
         Len(s.b.buffer) <= BufferSize, p + 1 <= ByteBits * Len(s.b.buffer)
  PROVE  LET t == NextBit(s, empty)
         IN  /\ At(t, p + 1) /\ t.out = Append(s.out, FlattenSeq(s.b.buffer)[p + 1])
<1> DEFINE m == s.b.buffer
           ri == s.b.buffer_read_index
           t == NextBit(s, empty)
           F == FlattenSeq(m)
<1>1. /\ m \in Seq(Byte) /\ Len(m) \in Nat /\ ri \in Nat
      /\ ByteBits \in Nat /\ ByteBits > 1
  BY LenProperties DEF ReaderIs, SizeAssumption
<1>2. CASE s.bits \in NoneOpen
  <2> DEFINE f == FetchByte(s)
  <2>1. s.bits \in empty
    BY <1>2 DEF NoneOpen
  <2>2. p = ByteBits * ri
    BY <1>2 DEF At, Partial, NoneOpen
  <2>3. ri < Len(m) /\ ri + 1 <= BufferSize
    <3>1. Len(m) <= ri => ByteBits * Len(m) <= ByteBits * ri
      BY <1>1, Multiples
    <3>2. ByteBits * Len(m) \in Nat
      BY <1>1, Multiples
    <3>3. ~(Len(m) <= ri)
      BY <1>1, <2>2, <3>1, <3>2
    <3>4. BufferSize \in Nat
      BY DEF SizeAssumption
    <3> QED BY <1>1, <3>3, <3>4
  <2>4. /\ Kept(s, f) /\ f.bits = 0 /\ f.out = s.out
        /\ f.b.buffer_read_index = ri + 1 /\ f.byte = m[ri+1]
    <3>1. /\ Kept(s, f) /\ f.bits = 0 /\ f.out = s.out
          /\ f.b.buffer_read_index = ri + 1 /\ f.byte = Memory(s, ri + 1)
      BY <2>3, ByteFetched
    <3>2. ri + 1 \in Nat \ {0} /\ ri + 1 <= Len(m)
      BY <1>1, <2>3
    <3>3. Memory(s, ri + 1) = m[ri+1]
      BY <3>2, MemoryType
    <3> QED BY <3>1, <3>3
  <2>5. t = TakeBit(f)
    BY <2>1 DEF NextBit
  <2> HIDE DEF f, t
  <2>6. ReaderIs(f) /\ f.bits # ByteBits
    BY <1>1, <2>4 DEF Kept
  <2>7. /\ t.b = f.b /\ t.byte = f.byte /\ t.bits = 0 + 1
        /\ t.out = Append(f.out, f.byte[0 + 1])
    BY <2>4, <2>5, <2>6, BitTaken
  <2>8. F[p + 1] = m[ri+1][0+1]
    <3> DEFINE k == 0
    <3>1. Divides(p, ri, k)
      <4>1. ByteBits * ri \in Nat
        BY <1>1, Multiples
      <4> QED BY <1>1, <2>2, <4>1 DEF Divides
    <3> HIDE DEF k
    <3>2. F[p + 1] = m[ri+1][k+1]
      BY <1>1, <2>3, <3>1, BitAt
    <3> QED BY <3>2 DEF k
  <2>9. At(t, p + 1)
    <3>1. Partial(t.bits)
      BY <1>1, <2>7 DEF Partial
    <3>2. (p + 1) + ByteBits = ByteBits * (ri + 1) + (0 + 1)
      <4>1. ByteBits * (ri + 1) = ByteBits * ri + ByteBits
        BY <1>1, Multiples
      <4> QED BY <1>1, <2>2, <4>1
    <3>3. ri + 1 \in 1..Len(m)
      BY <1>1, <2>3
    <3>4. t.b.buffer = m
      BY <2>4, <2>7 DEF Kept
    <3>5. t.b.buffer_read_index = ri + 1 /\ t.byte = m[ri+1] /\ t.bits = 0 + 1
      BY <2>4, <2>7
    <3> HIDE DEF m, ri
    <3> QED BY ONLY <3>1, <3>2, <3>3, <3>4, <3>5 DEF At
  <2>10. t.out = Append(s.out, F[p + 1])
    BY <2>4, <2>7, <2>8
  <2> QED BY <2>9, <2>10 DEF t
<1>3. CASE s.bits \notin NoneOpen
  <2>1. /\ Partial(s.bits) /\ p + ByteBits = ByteBits * ri + s.bits
        /\ ri \in 1..Len(m) /\ s.byte = m[ri]
    BY <1>3 DEF At
  <2>2. t = TakeBit(s)
    BY <1>3 DEF NextBit
  <2>3. s.bits # ByteBits
    BY <1>3 DEF NoneOpen
  <2> HIDE DEF t
  <2>4. /\ t.b = s.b /\ t.byte = s.byte /\ t.bits = s.bits + 1
        /\ t.out = Append(s.out, s.byte[s.bits + 1])
    BY <2>2, <2>3, BitTaken
  <2>5. PICK i \in Nat, k \in Nat : ri = i + 1 /\ k = s.bits /\ k >= 1 /\ k < ByteBits
    <3>1. ri - 1 \in Nat /\ ri = (ri - 1) + 1
      <4>1. ri \in 1..Len(m) /\ Len(m) \in Nat
        BY <1>1, <2>1
      <4> HIDE DEF ri, m
      <4> QED BY ONLY <4>1
    <3>2. s.bits \in 1..ByteBits-1
      BY <2>1 DEF Partial
    <3>3. s.bits \in Nat /\ s.bits >= 1 /\ s.bits < ByteBits
      BY <1>1, <3>2
    <3> QED BY <3>1, <3>3
  <2>6. i < Len(m)
    BY <1>1, <2>1, <2>5
  <2>7. ByteBits * ri = ByteBits * i + ByteBits /\ ByteBits * i \in Nat
    BY <2>5, Multiples
  <2>8. Divides(p, i, k)
    <3> DEFINE x == ByteBits * i
               y == ByteBits * ri
    <3>1. y = x + ByteBits /\ x \in Nat /\ p + ByteBits = y + k
      BY <2>1, <2>5, <2>7
    <3> HIDE DEF x, y
    <3>2. p = x + k
      BY <1>1, <3>1
    <3> QED BY <2>5, <3>2 DEF x, Divides
  <2>9. F[p + 1] = m[i+1][k+1]
    <3>1. m \in Seq(Byte) /\ F = FlattenSeq(m)
      BY <1>1
    <3> HIDE DEF m, F
    <3> QED BY ONLY <2>6, <2>8, <3>1, BitAt, SizeAssumption
  <2>10. t.out = Append(s.out, F[p + 1])
    BY <2>1, <2>4, <2>5, <2>9
  <2>11. (p + 1) + ByteBits = ByteBits * ri + (k + 1)
    <3> DEFINE y == ByteBits * ri
    <3>1. p + ByteBits = y + k /\ y \in Nat
      BY <1>1, <2>1, <2>5, <2>7
    <3> HIDE DEF y
    <3>2. (p + 1) + ByteBits = y + (k + 1)
      BY <1>1, <3>1
    <3> QED BY <3>2 DEF y
  <2>12. CASE k + 1 = ByteBits
    <3>1. p + 1 = ByteBits * ri
      <4> DEFINE y == ByteBits * ri
      <4>1. (p + 1) + ByteBits = y + (k + 1) /\ y \in Int
        <5>1. ByteBits * ri \in Nat
          BY <1>1, Multiples
        <5> QED BY <2>11, <5>1
      <4> HIDE DEF y
      <4>2. p + 1 = y
        BY <1>1, <2>5, <2>12, <4>1
      <4> QED BY <4>2 DEF y
    <3>2. t.bits \in NoneOpen
      BY <2>4, <2>5, <2>12 DEF NoneOpen
    <3>3. At(t, p + 1)
      BY <2>4, <3>1, <3>2 DEF At
    <3> QED BY <2>10, <3>3 DEF t
  <2>13. CASE k + 1 # ByteBits
    <3>1. Partial(t.bits) /\ t.bits = k + 1
      <4>1. t.bits = k + 1
        BY <2>4, <2>5
      <4>2. ByteBits \in Nat /\ k \in Nat
        BY <1>1
      <4>3. k + 1 \in 1..ByteBits-1
        BY ONLY <2>5, <2>13, <4>2
      <4> QED BY ONLY <4>1, <4>3 DEF Partial
    <3>2. /\ t.b.buffer_read_index = ri /\ t.b.buffer = m
          /\ ri \in 1..Len(m) /\ t.byte = m[ri]
      BY <2>1, <2>4
    <3> HIDE DEF m, ri
    <3>3. At(t, p + 1)
      BY ONLY <2>11, <3>1, <3>2 DEF At
    <3> QED BY <2>10, <3>3 DEF t, m
  <2> QED BY <2>12, <2>13
<1> QED BY <1>2, <1>3

(* n bits: the reader after each of them.                                  *)
Taking(f, s, n, empty) ==
  f = [i \in 0..n |-> IF i = 0 THEN s ELSE NextBit(f[i-1], empty)]

LEMMA NextBitsAre ==
  ASSUME NEW s, NEW N \in Nat, NEW empty
  PROVE  \E f : Taking(f, s, N, empty) /\ NextBits(s, N, empty) = f[N]
<1> DEFINE Is(g) == g = [i \in 0..N |-> IF i = 0 THEN s ELSE NextBit(g[i-1], empty)]
           after == CHOOSE g : Is(g)
           S == {n \in Nat : \E f : Taking(f, s, n, empty)}
<1>1. NextBits(s, N, empty) = after[N]
  BY DEF NextBits
<1>2. 0 \in S
  <2> DEFINE f == [i \in 0..0 |-> s]
  <2>1. Taking(f, s, 0, empty)
    BY DEF Taking
  <2> QED BY <2>1
<1>3. ASSUME NEW n \in Nat, n \in S
      PROVE  n + 1 \in S
  <2>1. PICK f : Taking(f, s, n, empty)
    BY <1>3
  <2> DEFINE new == NextBit(f[n], empty)
             g == [i \in 0..n+1 |-> IF i <= n THEN f[i] ELSE new]
  <2>2. \A i \in 0..n : f[i] = IF i = 0 THEN s ELSE NextBit(f[i-1], empty)
    BY <2>1 DEF Taking
  <2>3. \A i \in 0..n+1 : i = 0 \/ (i # 0 /\ i \in 0..n /\ i - 1 \in 0..n)
                          \/ (i # 0 /\ i = n + 1 /\ i - 1 = n)
    OBVIOUS
  <2>4. \A i \in 0..n : i \in 0..n+1 /\ i <= n /\ ~(n + 1 <= n)
    OBVIOUS
  <2>5. 0 \in 0..n /\ n \in 0..n /\ n + 1 \in 0..n+1 /\ 0 \in 0..n+1
    OBVIOUS
  <2>6. (\A i \in 0..n : g[i] = f[i]) /\ g[n+1] = new
    BY <2>4, <2>5
  <2>7. \A i \in 0..n+1 : g[i] = IF i = 0 THEN s ELSE NextBit(g[i-1], empty)
    <3> TAKE i \in 0..n+1
    <3>1. CASE i = 0
      BY <2>2, <2>5, <2>6, <3>1
    <3>2. CASE i # 0 /\ i \in 0..n /\ i - 1 \in 0..n
      <4>1. g[i] = f[i] /\ g[i-1] = f[i-1]
        BY <2>6, <3>2
      <4>2. f[i] = NextBit(f[i-1], empty)
        BY <2>2, <3>2
      <4> HIDE DEF g
      <4> QED BY <3>2, <4>1, <4>2
    <3>3. CASE i # 0 /\ i = n + 1 /\ i - 1 = n
      <4>1. g[i] = new /\ g[i-1] = f[n]
        BY <2>5, <2>6, <3>3
      <4> HIDE DEF g
      <4> QED BY <3>3, <4>1
    <3> QED BY <2>3, <3>1, <3>2, <3>3
  <2>8. g = [i \in 0..n+1 |-> g[i]]
    OBVIOUS
  <2> HIDE DEF g
  <2>9. Taking(g, s, n + 1, empty)
    BY <2>7, <2>8 DEF Taking
  <2> QED BY <2>9
<1>4. \E f : Taking(f, s, N, empty)
  <2>1. N \in S
    <3> HIDE DEF S
    <3> QED BY <1>2, <1>3, Induction
  <2> QED BY <2>1
<1>5. PICK f : Taking(f, s, N, empty)
  BY <1>4
<1>6. Is(f)
  BY <1>5 DEF Taking
<1>7. Is(after)
  BY <1>6
<1> HIDE DEF after
<1>8. Taking(after, s, N, empty)
  BY <1>7 DEF Taking
<1> QED BY <1>1, <1>8

LEMMA NextBitsKept ==
  ASSUME SizeAssumption, NEW s, ReaderIs(s), NEW N \in Nat, NEW empty, ByteBits \in empty,
         empty \subseteq NoneOpen
  PROVE  Kept(s, NextBits(s, N, empty))
<1>1. PICK f : Taking(f, s, N, empty) /\ NextBits(s, N, empty) = f[N]
  BY NextBitsAre
<1>2. \A i \in 0..N : f[i] = IF i = 0 THEN s ELSE NextBit(f[i-1], empty)
  BY <1>1 DEF Taking
<1> DEFINE S == {n \in Nat : n <= N => Kept(s, f[n])}
<1>3. 0 \in S
  <2>1. 0 \in 0..N
    OBVIOUS
  <2>2. f[0] = s
    BY <1>2, <2>1
  <2> QED BY <2>2 DEF Kept
<1>4. ASSUME NEW n \in Nat, n \in S
      PROVE  n + 1 \in S
  <2> SUFFICES ASSUME n + 1 <= N
               PROVE  Kept(s, f[n+1])
    OBVIOUS
  <2>1. n + 1 \in 0..N /\ n + 1 # 0 /\ (n + 1) - 1 = n /\ n <= N
    OBVIOUS
  <2>2. Kept(s, f[n]) /\ f[n+1] = NextBit(f[n], empty)
    BY <1>2, <1>4, <2>1
  <2>3. Kept(f[n], f[n+1])
    <3>1. ReaderIs(f[n])
      BY <2>2 DEF Kept
    <3> QED BY <2>2, <3>1, NextBitKept
  <2> QED BY <2>2, <2>3, KeptTrans
<1>5. N \in S
  <2> HIDE DEF S
  <2> QED BY <1>3, <1>4, Induction
<1> QED BY <1>1, <1>5

(* The bits q after p, or fewer.                                           *)
Took(s, t, p, n) ==
  /\ Kept(s, t) /\ At(t, p + n) /\ t.out \in Seq(Bit) /\ Len(t.out) = n
  /\ \A j \in 1..n : t.out[j] = FlattenSeq(s.b.buffer)[p + j]

LEMMA NextBitsTake ==
  ASSUME SizeAssumption, NEW s, ReaderIs(s), NEW N \in Nat, N >= 1,
         NEW empty, ByteBits \in empty, empty \subseteq NoneOpen,
         NEW p \in Nat, At(s, p), s.bits = 0 => 0 \in empty, s.out = <<>>,
         Len(s.b.buffer) <= BufferSize, p + N <= ByteBits * Len(s.b.buffer)
  PROVE  LET t == NextBits(s, N, empty) IN Took(s, t, p, N) /\ t.bits \in 1..ByteBits
<1> DEFINE F == FlattenSeq(s.b.buffer)
           L == ByteBits * Len(s.b.buffer)
<1>1. PICK f : Taking(f, s, N, empty) /\ NextBits(s, N, empty) = f[N]
  BY NextBitsAre
<1>2. \A i \in 0..N : f[i] = IF i = 0 THEN s ELSE NextBit(f[i-1], empty)
  BY <1>1 DEF Taking
<1>3. L \in Nat /\ p + N <= L
  <2>1. Len(s.b.buffer) \in Nat
    BY LenProperties DEF ReaderIs
  <2> QED BY <2>1, Multiples
<1> DEFINE Good(n) == Took(s, f[n], p, n) /\ (n # 0 => f[n].bits \in 1..ByteBits)
           S == {n \in Nat : n <= N => Good(n)}
<1> HIDE DEF L
<1>4. 0 \in S
  <2>1. f[0] = s
    <3>1. 0 \in 0..N
      OBVIOUS
    <3> QED BY <1>2, <3>1
  <2>2. Took(s, s, p, 0)
    <3>1. p + 0 = p /\ <<>> \in Seq(Bit) /\ Len(<<>>) = 0
      OBVIOUS
    <3> QED BY <3>1 DEF Took, Kept
  <2> QED BY <2>1, <2>2
<1>5. ASSUME NEW n \in Nat, n \in S
      PROVE  n + 1 \in S
  <2> SUFFICES ASSUME n + 1 <= N
               PROVE  Good(n + 1)
    OBVIOUS
  <2> DEFINE u == f[n]
             t == f[n+1]
             q == p + n
  <2>1. /\ n + 1 \in 0..N /\ n + 1 # 0 /\ (n + 1) - 1 = n /\ n <= N /\ n \in 0..N
        /\ q \in Nat /\ q + 1 = p + (n + 1) /\ q + 1 <= L
    BY <1>3
  <2>2. Took(s, u, p, n) /\ (n # 0 => u.bits \in 1..ByteBits)
    BY <1>5, <2>1
  <2>3. t = NextBit(u, empty)
    BY <1>2, <2>1
  <2>4. /\ ReaderIs(u) /\ u.b.buffer = s.b.buffer /\ At(u, q)
        /\ u.out \in Seq(Bit) /\ Len(u.out) = n
        /\ \A j \in 1..n : u.out[j] = F[p + j]
    BY <2>2 DEF Took, Kept
  <2>5. u.bits = 0 => 0 \in empty
    <3>1. CASE n = 0
      <4>1. u = s
        BY <1>2, <2>1, <3>1
      <4> QED BY <4>1
    <3>2. CASE n # 0
      <4>1. u.bits # 0
        BY <2>2, <3>2
      <4> QED BY <4>1
    <3> QED BY <3>1, <3>2
  <2> HIDE DEF t, u, q, F
  <2>6. Kept(u, t) /\ t.bits \in 1..ByteBits
    BY <2>3, <2>4, NextBitKept
  <2>7. At(t, q + 1) /\ t.out = Append(u.out, FlattenSeq(u.b.buffer)[q + 1])
    <3>1. q + 1 <= ByteBits * Len(u.b.buffer) /\ Len(u.b.buffer) <= BufferSize
      BY <2>1, <2>4 DEF L
    <3>2. q \in Nat
      BY <2>1
    <3>3. ByteBits \in empty /\ empty \subseteq NoneOpen
      OBVIOUS
    <3> QED BY ONLY <2>3, <2>4, <2>5, <3>1, <3>2, <3>3, NextBitIs, SizeAssumption
  <2>8. t.out = Append(u.out, F[q + 1]) /\ F[q + 1] \in Bit
    <3>1. s.b.buffer \in Seq(Byte)
      BY DEF ReaderIs
    <3>2. F \in Seq(Bit) /\ Len(F) = L
      BY <3>1, BytesFlatten DEF F, L
    <3>3. q + 1 \in 1..L
      BY <1>3, <2>1
    <3>4. F[q + 1] \in Bit
      BY <3>2, <3>3, ElementOfSeq
    <3> QED BY <2>4, <2>7, <3>4 DEF F
  <2>9. /\ t.out \in Seq(Bit) /\ Len(t.out) = n + 1
        /\ \A j \in 1..n : t.out[j] = u.out[j]
        /\ t.out[n + 1] = F[q + 1]
    BY <2>4, <2>8, AppendProperties
  <2>10. \A j \in 1..n+1 : t.out[j] = F[p + j]
    <3> TAKE j \in 1..n+1
    <3>1. j \in 1..n \/ j = n + 1
      OBVIOUS
    <3> QED BY <2>1, <2>4, <2>9, <3>1
  <2>11. Kept(s, t)
    BY <2>2, <2>6, KeptTrans DEF Took
  <2>12. Took(s, t, p, n + 1)
    BY <2>1, <2>7, <2>9, <2>10, <2>11 DEF Took, F
  <2> QED BY <2>6, <2>12 DEF t
<1>6. Good(N)
  <2>1. N \in S
    <3> HIDE DEF S
    <3> QED BY <1>4, <1>5, Induction
  <2> QED BY <2>1
<1>7. N # 0
  OBVIOUS
<1> QED BY <1>1, <1>6, <1>7

(* A reader at a byte's beginning has no byte open.                        *)
LEMMA AtByte ==
  ASSUME SizeAssumption, NEW s, ReaderIs(s), NEW m \in Nat, At(s, ByteBits * m)
  PROVE  s.bits \in NoneOpen /\ s.b.buffer_read_index = m
<1> DEFINE ri == s.b.buffer_read_index
<1>1. ri \in Nat /\ ByteBits \in Nat /\ ByteBits > 1
  BY DEF ReaderIs, SizeAssumption
<1>2. ByteBits * m \in Nat /\ ByteBits * ri \in Nat /\ ByteBits * (m + 1) = ByteBits * m + ByteBits
  BY <1>1, Multiples
<1>3. ~Partial(s.bits)
  <2> SUFFICES ASSUME Partial(s.bits) PROVE FALSE
    OBVIOUS
  <2>1. s.bits \in 1..ByteBits-1
    BY DEF Partial
  <2>2. s.bits \notin NoneOpen
    BY <1>1, <2>1 DEF NoneOpen
  <2>3. ByteBits * m + ByteBits = ByteBits * ri + s.bits
    BY <2>2 DEF At
  <2>4. PICK x \in 0..ByteBits-1, y \in 0..ByteBits-1, a \in Nat : x = 0 /\ y = s.bits /\ a = m + 1
    <3>1. 0 \in 0..ByteBits-1 /\ s.bits \in 0..ByteBits-1 /\ m + 1 \in Nat
      BY <1>1, <2>1
    <3> QED BY <3>1
  <2>5. ByteBits * a + x = ByteBits * ri + y
    <3>1. ByteBits * a = ByteBits * ri + y
      BY ONLY <1>2, <2>3, <2>4
    <3>2. ByteBits * a + x = ByteBits * a
      <4>1. ByteBits * a \in Nat
        BY ONLY <1>1, <2>4
      <4> QED BY ONLY <2>4, <4>1
    <3> QED BY ONLY <3>1, <3>2
  <2>6. x = y
    <3>1. a \in Nat /\ ri \in Nat /\ x \in 0..ByteBits-1 /\ y \in 0..ByteBits-1
      BY <1>1
    <3> HIDE DEF ri
    <3>2. a = ri /\ x = y
      BY ONLY <2>5, <3>1, OneWay, SizeAssumption
    <3> QED BY <3>2
  <2> QED BY <1>1, <2>1, <2>4, <2>6
<1>4. s.bits \in NoneOpen /\ ByteBits * m = ByteBits * ri
  BY <1>3 DEF At
<1>5. ri = m
  <2>1. ByteBits * m <= ByteBits * ri => m <= ri
    BY <1>1, Multiples
  <2>2. ByteBits * ri <= ByteBits * m => ri <= m
    BY <1>1, Multiples
  <2> QED BY <1>1, <1>2, <1>4, <2>1, <2>2
<1> QED BY <1>4, <1>5

WithOut(f, x) == [f EXCEPT !.out = x]

LEMMA OutSet ==
  ASSUME NEW f, ReaderIs(f), NEW x \in Seq(Bit)
  PROVE  LET t == WithOut(f, x)
         IN  Kept(f, t) /\ t.out = x /\ t.b = f.b /\ t.bits = f.bits /\ t.byte = f.byte
<1> DEFINE t == [f EXCEPT !.out = x]
<1>1. PICK S : f \in [byte : Byte, bits : 0..ByteBits, b : S, out : Seq(Bit)]
  BY DEF ReaderIs
<1>2. /\ t \in [byte : Byte, bits : 0..ByteBits, b : S, out : Seq(Bit)]
      /\ t.b = f.b /\ t.byte = f.byte /\ t.bits = f.bits /\ t.out = x
  BY <1>1
<1> HIDE DEF t
<1>3. Kept(f, t)
  BY <1>2 DEF Kept, ReaderIs
<1> QED BY <1>2, <1>3 DEF WithOut, t

LEMMA ReaderFields ==
  ASSUME NEW s, ReaderIs(s)
  PROVE  s.byte \in Byte /\ s.bits \in 0..ByteBits /\ s.out \in Seq(Bit)
<1>1. PICK S : s \in [byte : Byte, bits : 0..ByteBits, b : S, out : Seq(Bit)]
  BY DEF ReaderIs
<1> QED BY <1>1

(* The three ways of reading: bit by bit, a whole byte, a value.           *)
FetchedByte(s) == WithOut(FetchByte(s), s.out \o FetchByte(s).byte)

LEMMA ByteOut ==
  ASSUME SizeAssumption, NEW s, ReaderIs(s)
  PROVE  LET t == FetchedByte(s)
             f == FetchByte(s)
         IN  /\ Kept(s, t) /\ t.byte = f.byte /\ t.b = f.b /\ t.bits = 0
             /\ t.out = s.out \o f.byte
             /\ ~(bitStream /\ Partial(s.bits)) => ReadByte(s) = t
<1> DEFINE f == FetchByte(s)
           x == s.out \o f.byte
<1>1. Kept(s, f) /\ f.bits = 0 /\ f.out = s.out
  BY ByteFetched
<1>2. ReadByte(s) = [f EXCEPT !.out = f.out \o f.byte]
      \/ (bitStream /\ Partial(s.bits))
  BY DEF ReadByte
<1> HIDE DEF f
<1>3. f.byte \in Seq(Bit) /\ s.out \in Seq(Bit) /\ ReaderIs(f)
  BY <1>1, ReaderFields, ByteIsSeq DEF Kept
<1>4. x \in Seq(Bit)
  BY <1>3, ConcatProperties
<1>5. FetchedByte(s) = WithOut(f, x)
  BY DEF FetchedByte, f
<1>6. ~(bitStream /\ Partial(s.bits)) => ReadByte(s) = WithOut(f, x)
  BY <1>1, <1>2 DEF WithOut
<1> HIDE DEF x
<1>7. /\ Kept(f, WithOut(f, x)) /\ WithOut(f, x).out = x /\ WithOut(f, x).b = f.b
      /\ WithOut(f, x).bits = f.bits /\ WithOut(f, x).byte = f.byte
  BY <1>3, <1>4, OutSet
<1>8. Kept(s, WithOut(f, x))
  BY <1>1, <1>7, KeptTrans
<1> QED BY <1>1, <1>5, <1>6, <1>7, <1>8 DEF f, x

LEMMA ValueOut ==
  ASSUME SizeAssumption, NEW s, ReaderIs(s)
  PROVE  LET t == ReadValue(s)
             i == s.b.buffer_read_index
         IN  /\ Kept(s, t) /\ t.byte = s.byte /\ t.bits = s.bits
             /\ i + 2 <= BufferSize => /\ t.b.buffer_read_index = i + 2
                                       /\ t.out = Memory(s, i + 1) \o Memory(s, i + 2)
<1> DEFINE i == s.b.buffer_read_index
           y == Memory(s, i + 1)
           z == Memory(s, i + 2)
           f == ReadBytes(s, 2)
           x == IF BufferReads(s.b, 2) THEN y \o z ELSE s.out
<1>1. i \in Nat /\ i + 1 \in Nat \ {0} /\ i + 2 \in Nat \ {0} /\ BufferSize \in Nat
  BY DEF ReaderIs, SizeAssumption
<1>2. /\ Kept(s, f) /\ f.byte = s.byte /\ f.bits = s.bits /\ f.out = s.out
      /\ f.b.buffer_read_index = IF BufferReads(s.b, 2) THEN i + 2 ELSE i
  BY BytesRead
<1>3. y \in Seq(Bit) /\ z \in Seq(Bit) /\ s.out \in Seq(Bit)
  BY <1>1, MemoryType, ByteIsSeq, ReaderFields
<1>4. x \in Seq(Bit)
  <2>1. y \o z \in Seq(Bit)
    BY <1>3, ConcatProperties
  <2> QED BY <1>3, <2>1
<1>5. ReadValue(s) = WithOut(f, x)
  BY <1>2 DEF ReadValue, WithOut
<1>6. BufferReads(s.b, 2) = (i + 2 <= BufferSize)
  <2>1. (i <= BufferSize - 2) = (i + 2 <= BufferSize)
    BY <1>1
  <2> QED BY <2>1 DEF BufferReads
<1>7. BufferReads(s.b, 2) => x = y \o z
  OBVIOUS
<1> HIDE DEF f, x, y, z
<1>8. ReaderIs(f)
  BY <1>2 DEF Kept
<1>9. /\ Kept(f, WithOut(f, x)) /\ WithOut(f, x).out = x /\ WithOut(f, x).b = f.b
      /\ WithOut(f, x).bits = f.bits /\ WithOut(f, x).byte = f.byte
  BY <1>4, <1>8, OutSet
<1>10. Kept(s, WithOut(f, x))
  BY <1>2, <1>9, KeptTrans
<1> QED BY <1>2, <1>5, <1>6, <1>7, <1>9, <1>10 DEF y, z

LEMMA ReadKept ==
  ASSUME SizeAssumption, NEW s, ReaderIs(s), NEW kind \in AllKinds, NEW n \in Nat
  PROVE  Kept(s, Read(s, kind, n))
<1>1. ByteBits \in NoneOpen /\ NoneOpen \subseteq NoneOpen /\ {ByteBits} \subseteq NoneOpen
      /\ ByteBits \in {ByteBits} /\ ByteBits \in Nat
  BY DEF NoneOpen, SizeAssumption
<1>2. Kept(s, ReadBit(s))
  BY <1>1, NextBitKept DEF ReadBit
<1>3. Kept(s, ReadBits(s, n))
  BY <1>1, NextBitsKept DEF ReadBits
<1>4. Kept(s, ReadByte(s))
  <2>1. CASE bitStream /\ Partial(s.bits)
    <3>1. ReadByte(s) = NextBits(s, ByteBits, NoneOpen)
      BY <2>1 DEF ReadByte
    <3> QED BY <1>1, <3>1, NextBitsKept
  <2>2. CASE ~(bitStream /\ Partial(s.bits))
    BY <2>2, ByteOut
  <2> QED BY <2>1, <2>2
<1>5. Kept(s, ReadValue(s))
  BY ValueOut
<1>6. CASE kind = "bit" \/ (kind = "bool" /\ bitStream)
  <2>1. Read(s, kind, n) = ReadBit(s)
    BY <1>6 DEF Read
  <2> QED BY <1>2, <2>1
<1>7. CASE kind = "byte"
  <2>1. Read(s, kind, n) = ReadByte(s)
    BY <1>7 DEF Read
  <2> QED BY <1>4, <2>1
<1>8. CASE kind = "bits"
  <2>1. Read(s, kind, n) = ReadBits(s, n)
    BY <1>8 DEF Read
  <2> QED BY <1>3, <2>1
<1>9. CASE kind = "value"
  <2>1. Read(s, kind, n) = ReadValue(s)
    BY <1>9 DEF Read
  <2> QED BY <1>5, <2>1
<1>10. CASE kind = "bool" /\ ~bitStream
  <2> DEFINE f == ReadByte(s)
             x == <<f.byte[1]>>
  <2>1. Read(s, kind, n) = WithOut(f, x)
    BY <1>10 DEF Read, WithOut
  <2> HIDE DEF f
  <2>2. Kept(s, f)
    BY <1>4 DEF f
  <2>3. ReaderIs(f)
    BY <2>2 DEF Kept
  <2>4. f.byte \in Byte /\ 1 \in 1..ByteBits
    BY <1>1, <2>3, ReaderFields DEF SizeAssumption
  <2>5. x \in Seq(Bit)
    <3>1. f.byte[1] \in Bit
      BY <2>4 DEF Byte
    <3> QED BY <3>1
  <2> HIDE DEF x
  <2>6. Kept(f, WithOut(f, x))
    BY <2>3, <2>5, OutSet
  <2> QED BY <2>1, <2>2, <2>6, KeptTrans
<1> QED BY <1>6, <1>7, <1>8, <1>9, <1>10 DEF AllKinds

(* The reader is about to read the bits x.                                 *)
Facing(s, p, x) ==
  /\ ReaderIs(s) /\ s.out = <<>> /\ p \in Nat /\ At(s, p)
  /\ Len(s.b.buffer) <= BufferSize /\ x \in Seq(Bit)
  /\ p + Len(x) <= ByteBits * Len(s.b.buffer)
  /\ \A j \in 1..Len(x) : FlattenSeq(s.b.buffer)[p + j] = x[j]

LEMMA ByteBitsAt ==
  ASSUME SizeAssumption, NEW m \in Seq(Byte), NEW i \in Nat, i < Len(m)
  PROVE  /\ m[i+1] \in Seq(Bit) /\ Len(m[i+1]) = ByteBits /\ m[i+1] \in Byte
         /\ \A k \in 1..ByteBits : FlattenSeq(m)[ByteBits * i + k] = m[i+1][k]
<1>1. /\ Len(m) \in Nat
      /\ \A j \in 1..Len(m) : \A l \in 1..ByteBits :
           FlattenSeq(m)[ByteBits * (j - 1) + l] = m[j][l]
  BY BytesFlatten
<1>2. i + 1 \in 1..Len(m) /\ (i + 1) - 1 = i
  BY <1>1
<1>3. m[i+1] \in Byte
  BY <1>2, ElementOfSeq
<1>4. \A k \in 1..ByteBits : FlattenSeq(m)[ByteBits * i + k] = m[i+1][k]
  BY <1>1, <1>2
<1>5. m[i+1] \in Seq(Bit) /\ Len(m[i+1]) = ByteBits
  BY <1>3, ByteIsSeq
<1> QED BY <1>3, <1>4, <1>5

LEMMA TookAll ==
  ASSUME NEW s, NEW t, NEW p, NEW x, Facing(s, p, x), Took(s, t, p, Len(x))
  PROVE  t.out = x
<1>1. /\ t.out \in Seq(Bit) /\ x \in Seq(Bit) /\ Len(t.out) = Len(x)
      /\ \A j \in 1..Len(x) : t.out[j] = x[j]
  BY DEF Facing, Took
<1> QED BY <1>1, SeqEqual

(* A byte that begins at byte m, by itself.                                *)
LEMMA ByteFaced ==
  ASSUME SizeAssumption, NEW s, NEW x, NEW m \in Nat, Facing(s, ByteBits * m, x),
         Len(x) = ByteBits
  PROVE  LET f == FetchByte(s)
         IN  /\ f.byte = x /\ f.b.buffer_read_index = m + 1 /\ f.bits = 0 /\ Kept(s, f)
             /\ s.bits \in NoneOpen /\ f.out = <<>>
             /\ ByteBits * m + ByteBits = ByteBits * (m + 1) /\ m + 1 <= BufferSize
<1> DEFINE f == FetchByte(s)
           buffer == s.b.buffer
           p == ByteBits * m
<1>1. /\ ReaderIs(s) /\ s.out = <<>> /\ At(s, p) /\ Len(buffer) <= BufferSize
      /\ p + ByteBits <= ByteBits * Len(buffer) /\ x \in Seq(Bit)
      /\ \A j \in 1..ByteBits : FlattenSeq(buffer)[p + j] = x[j]
  BY DEF Facing
<1>2. s.bits \in NoneOpen /\ s.b.buffer_read_index = m
  BY <1>1, AtByte
<1>3. buffer \in Seq(Byte) /\ Len(buffer) \in Nat /\ BufferSize \in Nat
  BY <1>1, LenProperties DEF ReaderIs, SizeAssumption
<1>4. ByteBits * (m + 1) = p + ByteBits
  BY Multiples
<1>5. m < Len(buffer) /\ m + 1 <= BufferSize
  <2>1. ByteBits * (m + 1) <= ByteBits * Len(buffer) => m + 1 <= Len(buffer)
    <3>1. m + 1 \in Nat
      OBVIOUS
    <3>2. PICK u \in Nat, v \in Nat : u = m + 1 /\ v = Len(buffer)
      BY ONLY <1>3, <3>1
    <3>3. u \in Nat /\ v \in Nat
      OBVIOUS
    <3>4. ByteBits * u <= ByteBits * v => u <= v
      BY ONLY <3>3, Multiples, SizeAssumption
    <3> QED BY ONLY <3>2, <3>4
  <2>2. m + 1 <= Len(buffer)
    BY ONLY <1>1, <1>4, <2>1
  <2> QED BY <1>1, <1>3, <2>2
<1>6. /\ Kept(s, f) /\ f.bits = 0 /\ f.out = <<>>
      /\ f.b.buffer_read_index = m + 1 /\ f.byte = Memory(s, m + 1)
  BY <1>1, <1>2, <1>5, ByteFetched
<1>7. Memory(s, m + 1) = buffer[m+1]
  <2>1. m + 1 \in Nat \ {0} /\ m + 1 <= Len(buffer)
    BY <1>3, <1>5
  <2> QED BY <1>1, <2>1, MemoryType
<1>8. /\ buffer[m+1] \in Seq(Bit) /\ Len(buffer[m+1]) = ByteBits
      /\ \A k \in 1..ByteBits : FlattenSeq(buffer)[p + k] = buffer[m+1][k]
  BY <1>3, <1>5, ByteBitsAt
<1>9. buffer[m+1] = x
  <2> HIDE DEF p, buffer
  <2>1. \A k \in 1..ByteBits : buffer[m+1][k] = x[k]
    BY <1>1, <1>8
  <2> QED BY <1>1, <1>8, <2>1, SeqEqual
<1> HIDE DEF f
<1> QED BY <1>2, <1>4, <1>5, <1>6, <1>7, <1>9 DEF f

(* Each kind of call returns the bits that it faces.                       *)
LEMMA BitRead ==
  ASSUME SizeAssumption, NEW s, NEW p, NEW bit, Facing(s, p, <<bit>>)
  PROVE  LET t == ReadBit(s)
         IN  t.out = <<bit>> /\ At(t, p + 1) /\ t.bits \in 1..ByteBits
<1> DEFINE x == <<bit>>
           t == ReadBit(s)
           F == FlattenSeq(s.b.buffer)
<1>1. Len(x) = 1 /\ x[1] = bit /\ 1 \in 1..Len(x)
  OBVIOUS
<1>2. /\ ReaderIs(s) /\ s.out = <<>> /\ p \in Nat /\ At(s, p)
      /\ Len(s.b.buffer) <= BufferSize /\ p + 1 <= ByteBits * Len(s.b.buffer)
      /\ F[p + 1] = bit
  BY <1>1 DEF Facing
<1>3. ByteBits \in NoneOpen /\ NoneOpen \subseteq NoneOpen /\ 0 \in NoneOpen
  BY DEF NoneOpen
<1>4. t = NextBit(s, NoneOpen)
  BY DEF ReadBit
<1> HIDE DEF t
<1>5. t.bits \in 1..ByteBits
  BY <1>2, <1>3, <1>4, NextBitKept
<1>6. At(t, p + 1) /\ t.out = Append(s.out, F[p + 1])
  BY <1>2, <1>3, <1>4, NextBitIs
<1>7. t.out = <<bit>>
  <2>1. Append(<<>>, bit) = <<bit>>
    OBVIOUS
  <2> QED BY <1>2, <1>6, <2>1
<1> QED BY <1>5, <1>6, <1>7 DEF t

LEMMA BitsRead ==
  ASSUME SizeAssumption, NEW s, NEW p, NEW x, Facing(s, p, x), Len(x) >= 1,
         NEW empty, ByteBits \in empty, empty \subseteq NoneOpen,
         s.bits = 0 => 0 \in empty
  PROVE  LET t == NextBits(s, Len(x), empty)
         IN  t.out = x /\ At(t, p + Len(x)) /\ t.bits \in 1..ByteBits
<1> DEFINE N == Len(x)
           t == NextBits(s, N, empty)
<1>1. /\ ReaderIs(s) /\ s.out = <<>> /\ p \in Nat /\ At(s, p) /\ x \in Seq(Bit)
      /\ Len(s.b.buffer) <= BufferSize /\ p + N <= ByteBits * Len(s.b.buffer)
  BY DEF Facing
<1>2. N \in Nat /\ N >= 1
  BY <1>1, LenProperties
<1> HIDE DEF N
<1>3. Took(s, t, p, N) /\ t.bits \in 1..ByteBits
  BY <1>1, <1>2, NextBitsTake
<1> HIDE DEF t
<1>4. t.out = x
  BY <1>3, TookAll DEF N
<1>5. At(t, p + N)
  BY <1>3 DEF Took
<1> QED BY <1>3, <1>4, <1>5 DEF t, N

LEMMA ByteRead ==
  ASSUME SizeAssumption, NEW s, NEW p, NEW x, Facing(s, p, x), Len(x) = ByteBits,
         bitStream \/ \E m \in Nat : p = ByteBits * m
  PROVE  LET t == ReadByte(s) IN t.out = x /\ At(t, p + ByteBits)
<1> DEFINE t == ReadByte(s)
<1>1. ReaderIs(s) /\ p \in Nat /\ At(s, p) /\ s.out = <<>> /\ x \in Seq(Bit)
  BY DEF Facing
<1>2. CASE bitStream /\ Partial(s.bits)
  <2>1. t = NextBits(s, Len(x), NoneOpen)
    BY <1>2 DEF ReadByte
  <2>2. ByteBits \in NoneOpen /\ NoneOpen \subseteq NoneOpen /\ 0 \in NoneOpen /\ Len(x) >= 1
    BY DEF NoneOpen, SizeAssumption
  <2>3. t.out = x /\ At(t, p + Len(x))
    BY <2>1, <2>2, BitsRead
  <2> QED BY <2>3
<1>3. CASE ~(bitStream /\ Partial(s.bits))
  <2>1. PICK m \in Nat : p = ByteBits * m
    <3>1. CASE bitStream
      <4>1. s.b.buffer_read_index \in Nat /\ ~Partial(s.bits)
        BY <1>1, <1>3, <3>1 DEF ReaderIs
      <4> QED BY <1>1, <4>1 DEF At
    <3>2. CASE ~bitStream
      BY <3>2
    <3> QED BY <3>1, <3>2
  <2> DEFINE f == FetchByte(s)
  <2>2. /\ f.byte = x /\ f.b.buffer_read_index = m + 1
        /\ ByteBits * m + ByteBits = ByteBits * (m + 1)
    BY <2>1, ByteFaced
  <2>3. t.b = f.b /\ t.bits = 0 /\ t.out = s.out \o f.byte
    BY <1>1, <1>3, ByteOut
  <2> HIDE DEF f, t
  <2>4. t.out = x
    <3>1. <<>> \o x = x
      BY <1>1, ConcatEmptySeq
    <3> QED BY <1>1, <2>2, <2>3, <3>1
  <2>5. At(t, p + ByteBits)
    <3>1. t.bits \in NoneOpen /\ t.b.buffer_read_index = m + 1
      BY <2>2, <2>3 DEF NoneOpen
    <3>2. p + ByteBits = ByteBits * (m + 1)
      BY <2>1, <2>2
    <3> QED BY ONLY <3>1, <3>2 DEF At
  <2> QED BY <2>4, <2>5 DEF t
<1> QED BY <1>2, <1>3

LEMMA BoolRead ==
  ASSUME SizeAssumption, NEW s, NEW m \in Nat, NEW bit \in Bit,
         Facing(s, ByteBits * m, Bool(bit)), ~bitStream
  PROVE  LET f == ReadByte(s)
             t == WithOut(f, <<f.byte[1]>>)
         IN  t.out = <<bit>> /\ At(t, ByteBits * m + ByteBits)
<1> DEFINE f == ReadByte(s)
           x == <<f.byte[1]>>
           t == WithOut(f, x)
           g == FetchByte(s)
<1>1. ReaderIs(s)
  BY DEF Facing
<1>2. Len(Bool(bit)) = ByteBits /\ Bool(bit)[1] = bit
  <2>1. Bool(bit) \in Byte
    BY ByteIsSeq
  <2>2. 1 \in 1..ByteBits
    BY DEF SizeAssumption
  <2>3. Bool(bit)[1] = bit
    BY <2>2, BlankIs DEF Bool, Blank
  <2> QED BY <2>1, <2>3, ByteIsSeq
<1>3. /\ g.byte = Bool(bit) /\ g.b.buffer_read_index = m + 1
      /\ ByteBits * m + ByteBits = ByteBits * (m + 1)
  BY <1>2, ByteFaced
<1>4. Kept(s, f) /\ f.byte = g.byte /\ f.b = g.b /\ f.bits = 0
  BY <1>1, ByteOut
<1> HIDE DEF f, g
<1>5. x = <<bit>> /\ x \in Seq(Bit)
  BY <1>2, <1>3, <1>4
<1> HIDE DEF x
<1>6. t.out = x /\ t.b = f.b /\ t.bits = f.bits
  BY <1>4, <1>5, OutSet DEF Kept
<1> HIDE DEF t
<1>7. At(t, ByteBits * m + ByteBits)
  <2>1. t.bits \in NoneOpen /\ t.b.buffer_read_index = m + 1
    BY <1>3, <1>4, <1>6 DEF NoneOpen
  <2>2. ByteBits * m + ByteBits = ByteBits * (m + 1)
    BY <1>3
  <2> QED BY ONLY <2>1, <2>2 DEF At
<1> QED BY <1>5, <1>6, <1>7 DEF t, f, x

LEMMA ValueRead ==
  ASSUME SizeAssumption, NEW s, NEW m \in Nat, NEW v, Facing(s, ByteBits * m, v),
         Len(v) = 2 * ByteBits
  PROVE  LET t == ReadValue(s)
         IN  /\ t.out = v /\ At(t, ByteBits * m + 2 * ByteBits)
             /\ t.bits = s.bits
<1> DEFINE buffer == s.b.buffer
           F == FlattenSeq(buffer)
           p == ByteBits * m
           q == ByteBits * (m + 1)
           t == ReadValue(s)
           y == buffer[m+1]
           z == buffer[m+2]
<1>1. /\ ReaderIs(s) /\ At(s, p) /\ Len(buffer) <= BufferSize
      /\ p + 2 * ByteBits <= ByteBits * Len(buffer) /\ v \in Seq(Bit)
      /\ \A j \in 1..2*ByteBits : F[p + j] = v[j]
  BY DEF Facing
<1>2. s.bits \in NoneOpen /\ s.b.buffer_read_index = m
  BY <1>1, AtByte
<1>3. /\ buffer \in Seq(Byte) /\ Len(buffer) \in Nat /\ BufferSize \in Nat
      /\ ByteBits \in Nat /\ 2 * ByteBits = ByteBits + ByteBits
  BY <1>1, LenProperties DEF ReaderIs, SizeAssumption
<1>4. q = p + ByteBits /\ p \in Nat /\ q \in Nat
      /\ ByteBits * (m + 2) = q + ByteBits
  <2>1. m + 1 \in Nat /\ (m + 1) + 1 = m + 2
    OBVIOUS
  <2>2. ByteBits * ((m + 1) + 1) = ByteBits * (m + 1) + ByteBits
    BY <2>1, Multiples
  <2>3. ByteBits * (m + 1) = ByteBits * m + ByteBits /\ ByteBits * m \in Nat
        /\ ByteBits * (m + 1) \in Nat
    BY <2>1, Multiples
  <2> QED BY <2>1, <2>2, <2>3
<1>5. p + 2 * ByteBits = ByteBits * (m + 2)
  <2> HIDE DEF p, q
  <2> QED BY <1>3, <1>4
<1>6. m < Len(buffer) /\ m + 1 < Len(buffer) /\ m + 2 <= BufferSize
      /\ m + 2 <= Len(buffer)
  <2>1. m + 2 \in Nat
    OBVIOUS
  <2>2. ByteBits * (m + 2) <= ByteBits * Len(buffer) => m + 2 <= Len(buffer)
    BY <1>3, <2>1, Multiples
  <2>3. m + 2 <= Len(buffer)
    BY ONLY <1>1, <1>5, <2>2
  <2>4. m \in Nat /\ Len(buffer) <= BufferSize
    BY <1>1
  <2> QED BY ONLY <1>3, <2>3, <2>4
<1>7. /\ t.bits = s.bits /\ t.b.buffer_read_index = m + 2
      /\ t.out = Memory(s, m + 1) \o Memory(s, m + 2)
  BY <1>1, <1>2, <1>6, ValueOut
<1>8. Memory(s, m + 1) = y /\ Memory(s, m + 2) = z
  <2>1. /\ m + 1 \in Nat \ {0} /\ m + 1 <= Len(buffer)
        /\ m + 2 \in Nat \ {0} /\ m + 2 <= Len(buffer)
    BY <1>3, <1>6
  <2> QED BY <1>1, <2>1, MemoryType
<1>9. /\ y \in Seq(Bit) /\ Len(y) = ByteBits
      /\ \A k \in 1..ByteBits : F[p + k] = y[k]
  BY <1>3, <1>6, ByteBitsAt
<1>10. /\ z \in Seq(Bit) /\ Len(z) = ByteBits
       /\ \A k \in 1..ByteBits : F[q + k] = z[k]
  <2>1. m + 1 \in Nat /\ (m + 1) + 1 = m + 2
    OBVIOUS
  <2>2. /\ buffer[(m+1)+1] \in Seq(Bit) /\ Len(buffer[(m+1)+1]) = ByteBits
        /\ \A k \in 1..ByteBits :
             FlattenSeq(buffer)[ByteBits * (m + 1) + k] = buffer[(m+1)+1][k]
    BY <1>3, <1>6, <2>1, ByteBitsAt
  <2> QED BY <2>1, <2>2
<1> HIDE DEF p, q, y, z, F, t
<1>11. v = y \o z
  <2>1. Len(v) = Len(y) + Len(z)
    BY <1>3, <1>9, <1>10
  <2>2. \A i \in 1..Len(y) : v[i] = y[i]
    <3>1. \A i \in 1..ByteBits : i \in 1..2*ByteBits
      BY <1>3
    <3> QED BY <1>1, <1>9, <3>1
  <2>3. \A i \in 1..Len(z) : v[Len(y) + i] = z[i]
    <3> TAKE i \in 1..Len(z)
    <3>1. i \in 1..ByteBits /\ ByteBits + i \in 1..2*ByteBits /\ p + (ByteBits + i) = q + i
      <4>1. i \in 1..ByteBits /\ i \in Nat
        BY <1>10
      <4>2. ByteBits + i \in 1..ByteBits+ByteBits
        BY ONLY <1>3, <4>1
      <4>3. p + (ByteBits + i) = q + i
        BY ONLY <1>3, <1>4, <4>1
      <4> QED BY <1>3, <4>1, <4>2, <4>3
    <3>2. F[p + (ByteBits + i)] = v[ByteBits + i] /\ F[q + i] = z[i]
      BY <1>1, <1>10, <3>1
    <3> QED BY <1>9, <3>1, <3>2
  <2> QED BY <1>1, <1>9, <1>10, <2>1, <2>2, <2>3, JoinedWhen
<1>12. At(t, p + 2 * ByteBits)
  <2>1. t.bits \in NoneOpen /\ t.b.buffer_read_index = m + 2
    BY <1>2, <1>7
  <2> QED BY ONLY <1>5, <2>1 DEF At
<1> QED BY <1>7, <1>8, <1>11, <1>12 DEF p, t

(* What a reading call that faced the bits of op leaves.                   *)
After(op, s, e) ==
  LET t == Read(s, op.kind, Len(op.bits))
  IN  /\ t.out = op.bits /\ At(t, e)
      /\ t.bits = 0 => \/ op.kind = "byte" \/ (op.kind = "bool" /\ ~bitStream)
                       \/ op.kind = "value" /\ s.bits = 0

LEMMA ReadTakes ==
  ASSUME SizeAssumption, NEW s, NEW p, NEW op,
         op.kind \in AllKinds, op.bits \in Payloads(op.kind), Facing(s, p, Wire(op)),
         op.kind = "value" \/ Whole(op.kind) => \E m \in Nat : p = ByteBits * m,
         op.kind = "bits" => s.bits # 0 /\ bitStream
  PROVE  After(op, s, p + Len(Wire(op)))
<1> DEFINE kind == op.kind
           bits == op.bits
           n == Len(bits)
           t == Read(s, kind, n)
           x == Wire(op)
<1>1. /\ bits \in Seq(Bit) /\ n \in Nat /\ n >= 1
      /\ kind \in {"bit", "bool"} => bits[1] \in Bit /\ bits = <<bits[1]>> /\ n = 1
      /\ kind = "byte" => n = ByteBits
      /\ kind = "value" => n = 2 * ByteBits
  BY AnyPayload
<1>2. ~(kind = "bool" /\ ~bitStream) => x = bits
  BY DEF Wire
<1>3. kind = "bool" /\ ~bitStream => x = Bool(bits[1])
  BY DEF Wire
<1>4. ReaderIs(s) /\ Facing(s, p, x) /\ kind \in AllKinds
  BY DEF Facing
<1>5. kind = "value" \/ Whole(kind) => \E m \in Nat : p = ByteBits * m
  OBVIOUS
<1>6. kind = "bits" => s.bits # 0
  OBVIOUS
<1> HIDE DEF kind, bits, n, x
<1> DEFINE Goal == /\ t.out = bits /\ At(t, p + Len(x))
                   /\ t.bits = 0 => \/ kind = "byte" \/ (kind = "bool" /\ ~bitStream)
                                    \/ kind = "value" /\ s.bits = 0
<1>7. Goal => After(op, s, p + Len(Wire(op)))
  BY DEF t, x, kind, bits, n, After
<1> SUFFICES Goal
  BY <1>7
<1>8. CASE kind = "bit" \/ (kind = "bool" /\ bitStream)
  <2>1. t = ReadBit(s)
    BY <1>8 DEF Read
  <2>2. x = bits /\ bits = <<bits[1]>> /\ Len(x) = 1
    BY <1>1, <1>2, <1>8 DEF n
  <2>3. Facing(s, p, <<bits[1]>>)
    BY <1>4, <2>2
  <2>4. ReadBit(s).out = <<bits[1]>> /\ At(ReadBit(s), p + 1) /\ ReadBit(s).bits \in 1..ByteBits
    BY <2>3, BitRead
  <2>5. t.out = bits /\ At(t, p + Len(x)) /\ t.bits # 0
    BY <2>1, <2>2, <2>4
  <2> QED BY <2>5
<1>9. CASE kind = "bits"
  <2>1. t = NextBits(s, Len(x), {ByteBits}) /\ x = bits
    BY <1>2, <1>9 DEF Read, ReadBits, n
  <2>2. {ByteBits} \subseteq NoneOpen /\ ByteBits \in {ByteBits} /\ Len(x) >= 1
    BY <1>1, <2>1 DEF NoneOpen, n
  <2>3. t.out = x /\ At(t, p + Len(x)) /\ t.bits \in 1..ByteBits
    BY <1>4, <1>6, <1>9, <2>1, <2>2, BitsRead
  <2>4. t.out = bits /\ At(t, p + Len(x)) /\ t.bits # 0
    BY <2>1, <2>3
  <2> QED BY <2>4
<1>10. CASE kind = "byte"
  <2>1. t = ReadByte(s) /\ x = bits /\ Len(x) = ByteBits
    BY <1>1, <1>2, <1>10 DEF Read, n
  <2>2. bitStream \/ \E m \in Nat : p = ByteBits * m
    BY <1>5, <1>10 DEF Whole
  <2>3. t.out = bits /\ At(t, p + Len(x))
    BY <1>4, <2>1, <2>2, ByteRead
  <2> QED BY <1>10, <2>3
<1>11. CASE kind = "bool" /\ ~bitStream
  <2> DEFINE f == ReadByte(s)
  <2>1. t = WithOut(f, <<f.byte[1]>>)
    BY <1>11 DEF Read, WithOut
  <2>2. PICK m \in Nat : p = ByteBits * m
    BY <1>5, <1>11 DEF Whole
  <2>3. bits[1] \in Bit /\ bits = <<bits[1]>> /\ Facing(s, ByteBits * m, Bool(bits[1]))
    BY <1>1, <1>3, <1>4, <1>11, <2>2
  <2>4. t.out = <<bits[1]>> /\ At(t, ByteBits * m + ByteBits)
    BY <1>11, <2>1, <2>3, BoolRead
  <2>5. Len(x) = ByteBits
    BY <1>3, <1>11, <2>3, ByteIsSeq
  <2>6. t.out = bits /\ At(t, p + Len(x))
    BY <2>2, <2>3, <2>4, <2>5
  <2> QED BY <1>11, <2>6
<1>12. CASE kind = "value"
  <2>1. t = ReadValue(s) /\ x = bits /\ Len(x) = 2 * ByteBits
    BY <1>1, <1>2, <1>12 DEF Read, n
  <2>2. PICK m \in Nat : p = ByteBits * m
    BY <1>5, <1>12
  <2>3. Facing(s, ByteBits * m, x)
    BY <1>4, <2>2
  <2>4. t.out = x /\ At(t, ByteBits * m + 2 * ByteBits) /\ t.bits = s.bits
    BY <2>1, <2>3, ValueRead
  <2>5. t.out = bits /\ At(t, p + Len(x)) /\ t.bits = s.bits
    BY <2>1, <2>2, <2>4
  <2> QED BY <1>12, <2>5
<1> QED BY <1>4, <1>8, <1>9, <1>10, <1>11, <1>12 DEF AllKinds

-----------------------------------------------------------------------------
(* The log of any program, and the bits that its calls put on the wire.    *)
IsLog(l) ==
  /\ \E S : l \in Seq([kind : AllKinds, bits : Seq(Bit), at : S])
  /\ \A i \in 1..Len(l) : l[i].bits \in Payloads(l[i].kind)
Sent(l) == [i \in 1..Len(l) |-> Wire(l[i])]
Ends(l, i) == End(Sent(l), i)

Even(n) == \E q \in Nat : n = ByteBits * q
ByteLast(l, n) == \E i \in 1..n : /\ l[i].kind = "byte" \/ (l[i].kind = "bool" /\ ~bitStream)
                                  /\ \A j \in i+1..n : l[j].kind = "value"
AfterByteAt(l, n) == Even(Ends(l, n)) /\ ByteLast(l, n)

(* The calls are mixed as MayMix says.                                     *)
Mixed(l) ==
  \A i \in 1..Len(l) :
     /\ l[i].kind = "value" \/ Whole(l[i].kind) => Even(Ends(l, i - 1))
     /\ l[i].kind = "bits" => bitStream /\ ~AfterByteAt(l, i - 1)

LEMMA SentType ==
  ASSUME SizeAssumption, NEW l, IsLog(l)
  PROVE  /\ Sent(l) \in Seq(Seq(Bit)) /\ Len(Sent(l)) = Len(l) /\ Len(l) \in Nat
         /\ \A i \in 1..Len(l) :
              /\ Sent(l)[i] = Wire(l[i]) /\ l[i].kind \in AllKinds
              /\ l[i].bits \in Payloads(l[i].kind)
         /\ \A i \in 0..Len(l) : Ends(l, i) \in Nat
         /\ \A i \in 1..Len(l) : /\ Ends(l, i) = Ends(l, i - 1) + Len(Wire(l[i]))
                                 /\ Ends(l, i - 1) \in Nat
<1>1. PICK S : l \in Seq([kind : AllKinds, bits : Seq(Bit), at : S])
  BY DEF IsLog
<1>2. Len(l) \in Nat /\ \A i \in 1..Len(l) : l[i] \in [kind : AllKinds, bits : Seq(Bit), at : S]
  BY <1>1, LenProperties, ElementOfSeq
<1>3. \A i \in 1..Len(l) : l[i].kind \in AllKinds /\ l[i].bits \in Payloads(l[i].kind)
  BY <1>2 DEF IsLog
<1>4. \A i \in 1..Len(l) : Wire(l[i]) \in Seq(Bit)
  BY <1>3, SentIs
<1>5. Sent(l) \in [1..Len(l) -> Seq(Bit)]
  BY <1>4 DEF Sent
<1>6. Sent(l) \in Seq(Seq(Bit)) /\ Len(Sent(l)) = Len(l)
  BY <1>2, <1>5
<1>7. \A i \in 1..Len(l) : Sent(l)[i] = Wire(l[i])
  BY DEF Sent
<1>8. \A i \in 0..Len(l) : Ends(l, i) \in Nat
  BY <1>6, PreType DEF Ends
<1>9. ASSUME NEW i \in 1..Len(l)
      PROVE  Ends(l, i) = Ends(l, i - 1) + Len(Wire(l[i])) /\ Ends(l, i - 1) \in Nat
  <2>1. i \in 1..Len(Sent(l))
    BY <1>6
  <2>2. /\ End(Sent(l), i) = End(Sent(l), i - 1) + Len(Sent(l)[i])
        /\ End(Sent(l), i - 1) \in Nat
    BY <1>6, <2>1, PreIs
  <2> QED BY <1>7, <2>2 DEF Ends
<1> QED BY <1>2, <1>3, <1>6, <1>7, <1>8, <1>9

LEMMA EndsGrow ==
  ASSUME SizeAssumption, NEW l, IsLog(l), NEW i \in 0..Len(l), NEW j \in i..Len(l)
  PROVE  Ends(l, i) <= Ends(l, j)
<1>1. /\ Sent(l) \in Seq(Seq(Bit)) /\ Len(Sent(l)) = Len(l) /\ Len(l) \in Nat
      /\ \A k \in 0..Len(l) : Ends(l, k) \in Nat
  BY SentType
<1>2. CASE i = 0
  <2>1. Ends(l, 0) = 0
    BY PreOfNone DEF Ends
  <2>2. Ends(l, j) \in Nat
    BY <1>1
  <2> QED BY <1>2, <2>1, <2>2
<1>3. CASE i # 0
  <2>1. i \in 1..Len(Sent(l)) /\ j \in i..Len(Sent(l))
    BY <1>1, <1>3
  <2> QED BY <1>1, <2>1, PreAt DEF Ends
<1> QED BY <1>2, <1>3

(* Two logs with calls of the same kinds and widths.                       *)
Alike(l, m, n) ==
  /\ IsLog(l) /\ IsLog(m) /\ n \in Nat /\ n <= Len(l) /\ n <= Len(m)
  /\ \A i \in 1..n : m[i].kind = l[i].kind /\ Len(Wire(m[i])) = Len(Wire(l[i]))

LEMMA AlikeEnds ==
  ASSUME SizeAssumption, NEW l, NEW m, NEW n, Alike(l, m, n)
  PROVE  /\ \A j \in 0..n : Ends(m, j) = Ends(l, j)
         /\ \A j \in 0..n : AfterByteAt(m, j) <=> AfterByteAt(l, j)
<1>1. /\ IsLog(l) /\ IsLog(m) /\ n \in Nat /\ n <= Len(l) /\ n <= Len(m)
      /\ \A i \in 1..n : m[i].kind = l[i].kind /\ Len(Wire(m[i])) = Len(Wire(l[i]))
  BY DEF Alike
<1>2. /\ Len(l) \in Nat
      /\ \A i \in 1..Len(l) : /\ Ends(l, i) = Ends(l, i - 1) + Len(Wire(l[i]))
  BY <1>1, SentType
<1>3. /\ Len(m) \in Nat
      /\ \A i \in 1..Len(m) : /\ Ends(m, i) = Ends(m, i - 1) + Len(Wire(m[i]))
  BY <1>1, SentType
<1> DEFINE S == {j \in Nat : j <= n => Ends(m, j) = Ends(l, j)}
<1>4. 0 \in S
  BY PreOfNone DEF Ends
<1>5. ASSUME NEW j \in Nat, j \in S
      PROVE  j + 1 \in S
  <2> SUFFICES ASSUME j + 1 <= n
               PROVE  Ends(m, j + 1) = Ends(l, j + 1)
    OBVIOUS
  <2>1. /\ j + 1 \in 1..n /\ j + 1 \in 1..Len(l) /\ j + 1 \in 1..Len(m)
        /\ (j + 1) - 1 = j /\ j <= n
    BY <1>1, <1>2, <1>3
  <2>2. Ends(m, j) = Ends(l, j)
    BY <1>5, <2>1
  <2>3. Ends(m, j + 1) = Ends(m, j) + Len(Wire(m[j+1]))
    BY <1>3, <2>1
  <2>4. Ends(l, j + 1) = Ends(l, j) + Len(Wire(l[j+1]))
    BY <1>2, <2>1
  <2> QED BY <1>1, <2>1, <2>2, <2>3, <2>4
<1>6. ASSUME NEW j \in 0..n PROVE Ends(m, j) = Ends(l, j)
  <2>1. Nat \subseteq S
    <3> HIDE DEF S
    <3> QED BY <1>4, <1>5, Induction
  <2>2. j \in Nat /\ j <= n
    BY <1>1
  <2> QED BY <2>1, <2>2
<1>7. ASSUME NEW j \in 0..n PROVE ByteLast(m, j) <=> ByteLast(l, j)
  <2>1. \A i \in 1..j : i \in 1..n /\ \A k \in i+1..j : k \in 1..n
    BY <1>1
  <2>2. \A i \in 1..j : m[i].kind = l[i].kind /\ \A k \in i+1..j : m[k].kind = l[k].kind
    BY <1>1, <2>1
  <2> QED BY <2>2 DEF ByteLast
<1> QED BY <1>6, <1>7 DEF AfterByteAt

LEMMA MixedMore ==
  ASSUME SizeAssumption, NEW l, NEW m, NEW n, Alike(l, m, n), n = Len(l), Mixed(l),
         Len(m) \in {n, n + 1},
         Len(m) = n + 1 =>
           /\ m[n+1].kind = "value" \/ Whole(m[n+1].kind) => Even(Ends(l, n))
           /\ m[n+1].kind = "bits" => bitStream /\ ~AfterByteAt(l, n)
  PROVE  Mixed(m)
<1>1. /\ n \in Nat /\ \A i \in 1..n : m[i].kind = l[i].kind
  BY DEF Alike
<1>2. \A j \in 0..n : Ends(m, j) = Ends(l, j) /\ (AfterByteAt(m, j) <=> AfterByteAt(l, j))
  BY AlikeEnds
<1> SUFFICES ASSUME NEW i \in 1..Len(m)
             PROVE  /\ m[i].kind = "value" \/ Whole(m[i].kind) => Even(Ends(m, i - 1))
                    /\ m[i].kind = "bits" => bitStream /\ ~AfterByteAt(m, i - 1)
  BY DEF Mixed
<1>3. i - 1 \in 0..n /\ (i \in 1..n \/ (i = n + 1 /\ i - 1 = n /\ Len(m) = n + 1))
  BY <1>1
<1>4. Ends(m, i - 1) = Ends(l, i - 1) /\ (AfterByteAt(m, i - 1) <=> AfterByteAt(l, i - 1))
  BY <1>2, <1>3
<1>5. CASE i \in 1..n
  <2>1. /\ l[i].kind = "value" \/ Whole(l[i].kind) => Even(Ends(l, i - 1))
        /\ l[i].kind = "bits" => bitStream /\ ~AfterByteAt(l, i - 1)
    BY <1>5 DEF Mixed
  <2>2. m[i].kind = l[i].kind
    BY <1>1, <1>5
  <2> QED BY <1>4, <2>1, <2>2
<1>6. CASE i = n + 1 /\ i - 1 = n /\ Len(m) = n + 1
  BY <1>4, <1>6
<1> QED BY <1>3, <1>5, <1>6

LEMMA LogGrows ==
  ASSUME SizeAssumption, NEW l, IsLog(l), NEW op,
         op = [kind |-> op.kind, bits |-> op.bits, at |-> op.at],
         op.kind \in AllKinds, op.bits \in Payloads(op.kind)
  PROVE  LET m == Append(l, op)
             n == Len(l)
         IN  /\ IsLog(m) /\ Len(m) = n + 1 /\ m[n+1] = op /\ Alike(l, m, n)
             /\ \A i \in 1..n : m[i] = l[i]
             /\ Ends(m, n + 1) = Ends(l, n) + Len(Wire(op))
<1> DEFINE m == Append(l, op)
           n == Len(l)
<1>1. PICK S : l \in Seq([kind : AllKinds, bits : Seq(Bit), at : S])
  BY DEF IsLog
<1> DEFINE T == S \cup {op.at}
           Ops2 == [kind : AllKinds, bits : Seq(Bit), at : T]
<1>2. n \in Nat /\ \A i \in 1..n : l[i] \in [kind : AllKinds, bits : Seq(Bit), at : S]
  BY <1>1, LenProperties, ElementOfSeq
<1>3. l \in Seq(Ops2)
  <2>1. \A i \in 1..n : l[i] \in Ops2
    BY <1>2
  <2>2. l = [i \in 1..n |-> l[i]]
    BY <1>1, LenProperties
  <2> HIDE DEF Ops2
  <2> QED BY <1>2, <2>1, <2>2
<1>4. op \in Ops2
  <2>1. op.bits \in Seq(Bit) /\ op.at \in T
    BY AnyPayload
  <2>2. [kind |-> op.kind, bits |-> op.bits, at |-> op.at] \in Ops2
    BY <2>1
  <2> QED BY <2>2
<1> HIDE DEF Ops2
<1>5. /\ m \in Seq(Ops2) /\ Len(m) = n + 1 /\ m[n+1] = op
      /\ \A i \in 1..n : m[i] = l[i]
  BY <1>2, <1>3, <1>4, AppendProperties
<1> HIDE DEF m, n
<1>6. IsLog(m)
  <2>1. \A i \in 1..n : l[i].bits \in Payloads(l[i].kind)
    BY DEF IsLog, n
  <2>2. \A i \in 1..n+1 : i \in 1..n \/ i = n + 1
    BY <1>2
  <2>3. \A i \in 1..n+1 : m[i].bits \in Payloads(m[i].kind)
    BY <1>5, <2>1, <2>2
  <2> QED BY <1>5, <2>3 DEF IsLog, Ops2
<1>7. Alike(l, m, n)
  <2>1. n <= Len(l) /\ n <= Len(m)
    BY <1>2, <1>5 DEF n
  <2> QED BY <1>2, <1>5, <1>6, <2>1 DEF Alike
<1>8. Ends(m, n) = Ends(l, n)
  <2>1. n \in 0..n
    BY <1>2
  <2> QED BY <1>7, <2>1, AlikeEnds
<1>9. Ends(m, n + 1) = Ends(m, n) + Len(Wire(op))
  <2>1. n + 1 \in 1..Len(m) /\ (n + 1) - 1 = n
    <3>1. n \in Nat /\ Len(m) = n + 1
      BY <1>2, <1>5
    <3> QED BY ONLY <3>1
  <2>2. Ends(m, n + 1) = Ends(m, (n + 1) - 1) + Len(Wire(m[n+1]))
    BY <1>6, <2>1, SentType
  <2> QED BY <1>5, <2>1, <2>2
<1> QED BY <1>5, <1>6, <1>7, <1>8, <1>9 DEF m, n

-----------------------------------------------------------------------------
(* What the writer keeps.  Every call that has room is where it began.     *)
Holds(o, l) ==
  \A i \in 1..Len(l) : Ends(l, i) <= Room =>
    /\ Ends(l, i) <= Len(o)
    /\ \A k \in 1..Len(Wire(l[i])) : o[Ends(l, i - 1) + k] = Wire(l[i])[k]
Extends(o, u) ==
  /\ o \in Seq(Bit) /\ u \in Seq(Bit)
  /\ \A k \in 1..Len(o) : k <= Room => k <= Len(u) /\ u[k] = o[k]

LEMMA HoldsMore ==
  ASSUME SizeAssumption, NEW l, IsLog(l), NEW o, NEW u, Holds(o, l), Extends(o, u)
  PROVE  Holds(u, l)
<1> SUFFICES ASSUME NEW i \in 1..Len(l), Ends(l, i) <= Room
             PROVE  /\ Ends(l, i) <= Len(u)
                    /\ \A k \in 1..Len(Wire(l[i])) : u[Ends(l, i - 1) + k] = Wire(l[i])[k]
  BY DEF Holds
<1>1. /\ Ends(l, i) <= Len(o)
      /\ \A k \in 1..Len(Wire(l[i])) : o[Ends(l, i - 1) + k] = Wire(l[i])[k]
  BY DEF Holds
<1>2. /\ o \in Seq(Bit) /\ u \in Seq(Bit)
      /\ \A k \in 1..Len(o) : k <= Room => k <= Len(u) /\ u[k] = o[k]
  BY DEF Extends
<1>3. Ends(l, i) = Ends(l, i - 1) + Len(Wire(l[i])) /\ Ends(l, i - 1) \in Nat
  BY SentType
<1>4. Len(Wire(l[i])) \in Nat
  BY SentType, SentIs
<1>5. Len(o) \in Nat /\ Len(u) \in Nat
  BY <1>2, LenProperties
<1>6. PICK e \in Nat, n \in Nat : e = Ends(l, i - 1) /\ n = Len(Wire(l[i]))
  BY <1>3, <1>4
<1>7. Ends(l, i) = e + n
  BY <1>3, <1>6
<1>8. e + n <= Len(o) /\ e + n <= Room
  BY <1>1, <1>7
<1>9. Room \in Nat
  BY DEF SizeAssumption, Room
<1>10. e + n <= Len(u)
  <2>1. CASE e + n = 0
    BY <1>5, <2>1
  <2>2. CASE e + n # 0
    <3>1. e + n \in 1..Len(o)
      BY <1>5, <1>6, <1>8, <2>2
    <3> QED BY <1>2, <1>8, <3>1
  <2> QED BY <2>1, <2>2
<1>11. ASSUME NEW k \in 1..n PROVE u[e + k] = Wire(l[i])[k]
  <2>1. e + k \in 1..Len(o) /\ e + k <= Room
    BY <1>5, <1>6, <1>8, <1>9
  <2>2. u[e + k] = o[e + k]
    BY <1>2, <2>1
  <2>3. o[e + k] = Wire(l[i])[k]
    BY <1>1, <1>6
  <2> QED BY <2>2, <2>3
<1> QED BY <1>6, <1>7, <1>10, <1>11

LEMMA HoldsAppend ==
  ASSUME SizeAssumption, NEW l, IsLog(l), NEW op,
         op = [kind |-> op.kind, bits |-> op.bits, at |-> op.at],
         op.kind \in AllKinds, op.bits \in Payloads(op.kind),
         NEW o, NEW u, Holds(o, l), Extends(o, u),
         Len(o) + Len(Wire(op)) <= Room => u = o \o Wire(op),
         Ends(l, Len(l)) <= Room => Len(o) = Ends(l, Len(l))
  PROVE  LET m == Append(l, op)
         IN  /\ Holds(u, m)
             /\ Ends(m, Len(m)) <= Room => Len(u) = Ends(m, Len(m))
<1> DEFINE m == Append(l, op)
           n == Len(l)
           x == Wire(op)
<1>1. /\ IsLog(m) /\ Len(m) = n + 1 /\ m[n+1] = op /\ Alike(l, m, n)
      /\ \A i \in 1..n : m[i] = l[i]
      /\ Ends(m, n + 1) = Ends(l, n) + Len(x)
  BY LogGrows
<1>2. n \in Nat /\ Ends(l, n) \in Nat
  <2>1. n \in Nat
    BY SentType
  <2>2. n \in 0..n
    BY <2>1
  <2> QED BY <2>1, <2>2, SentType
<1> HIDE DEF m, n
<1>3. \A i \in 0..n : Ends(m, i) = Ends(l, i)
  BY <1>1, AlikeEnds
<1>4. x \in Seq(Bit) /\ Len(x) \in Nat
  BY SentIs
<1>5. Holds(u, l)
  BY HoldsMore
<1>6. o \in Seq(Bit) /\ u \in Seq(Bit) /\ Room \in Nat
  BY DEF Extends, SizeAssumption, Room
<1> DEFINE e == Ends(l, n)
           len == Len(x)
<1>7. ASSUME e + len <= Room
      PROVE  Len(u) = e + len /\ \A k \in 1..len : u[e + k] = x[k]
  <2>1. e <= Room
    BY <1>2, <1>4, <1>6, <1>7
  <2>2. Len(o) = e
    BY <2>1 DEF n
  <2>3. u = o \o x
    BY <1>7, <2>2
  <2>4. Len(o \o x) = Len(o) + Len(x) /\ \A k \in 1..Len(x) : (o \o x)[Len(o) + k] = x[k]
    BY ONLY <1>4, <1>6, JoinIs
  <2> QED BY <2>2, <2>3, <2>4
<1>8. Ends(m, Len(m)) <= Room => Len(u) = Ends(m, Len(m))
  BY <1>1, <1>7
<1>9. Holds(u, m)
  <2> SUFFICES ASSUME NEW i \in 1..Len(m), Ends(m, i) <= Room
               PROVE  /\ Ends(m, i) <= Len(u)
                      /\ \A k \in 1..Len(Wire(m[i])) :
                           u[Ends(m, i - 1) + k] = Wire(m[i])[k]
    BY DEF Holds
  <2>1. i - 1 \in 0..n /\ (i \in 1..n \/ (i = n + 1 /\ i - 1 = n))
    BY <1>1, <1>2
  <2>2. CASE i \in 1..n
    <3>1. i \in 0..n
      BY <1>2, <2>2
    <3>2. Ends(m, i) = Ends(l, i) /\ Ends(m, i - 1) = Ends(l, i - 1) /\ m[i] = l[i]
      BY <1>1, <1>3, <2>1, <2>2, <3>1
    <3>3. Ends(l, i) <= Len(u)
          /\ \A k \in 1..Len(Wire(l[i])) : u[Ends(l, i - 1) + k] = Wire(l[i])[k]
      BY <1>5, <2>2, <3>2 DEF Holds, n
    <3> QED BY <3>2, <3>3
  <2>3. CASE i = n + 1 /\ i - 1 = n
    <3>1. Ends(m, i) = e + len /\ Ends(m, i - 1) = e /\ m[i] = op
      BY <1>1, <1>3, <2>1, <2>3
    <3>2. e + len <= Room
      BY <3>1
    <3>3. Len(u) = e + len /\ \A k \in 1..len : u[e + k] = x[k]
      BY <1>7, <3>2
    <3>4. e + len <= Len(u)
      BY <1>2, <1>4, <3>3
    <3> QED BY <3>1, <3>3, <3>4
  <2> QED BY <2>1, <2>2, <2>3
<1> QED BY <1>8, <1>9 DEF m

(* A call of whole bytes knows where its bytes are, if they are there.     *)
PlacedAt(l, i, a, n, len) ==
  /\ a \in Nat /\ a <= len /\ (a + n <= len \/ a + n > BufferSize)
  /\ Ends(l, i - 1) <= Room => ByteBits * a = Ends(l, i - 1)
  /\ \A j \in 1..i-1 : Ends(l, j) <= Room => Ends(l, j) <= ByteBits * a
Placed(l, len) ==
  \A i \in 1..Len(l) : Whole(l[i].kind) =>
    PlacedAt(l, i, l[i].at.buffer, Bytes(l[i].kind), len)

LEMMA PlacedMore ==
  ASSUME SizeAssumption, NEW l, IsLog(l), NEW len \in Nat, NEW more \in Nat, len <= more,
         Placed(l, len)
  PROVE  Placed(l, more)
<1> SUFFICES ASSUME NEW i \in 1..Len(l), Whole(l[i].kind)
             PROVE  PlacedAt(l, i, l[i].at.buffer, Bytes(l[i].kind), more)
  BY DEF Placed
<1> DEFINE a == l[i].at.buffer
           n == Bytes(l[i].kind)
<1>1. PlacedAt(l, i, a, n, len)
  BY DEF Placed
<1>2. n \in Nat
  BY DEF Bytes
<1> HIDE DEF a, n
<1>3. a \in Nat /\ a <= len /\ (a + n <= len \/ a + n > BufferSize)
  BY <1>1 DEF PlacedAt
<1>4. a <= more /\ (a + n <= more \/ a + n > BufferSize)
  BY <1>2, <1>3
<1>5. PlacedAt(l, i, a, n, more)
  BY <1>1, <1>3, <1>4 DEF PlacedAt
<1> QED BY <1>5 DEF a, n

LEMMA PlacedAppend ==
  ASSUME SizeAssumption, NEW l, IsLog(l), NEW op,
         op = [kind |-> op.kind, bits |-> op.bits, at |-> op.at],
         op.kind \in AllKinds, op.bits \in Payloads(op.kind),
         NEW len, Placed(l, len),
         Whole(op.kind) =>
           PlacedAt(l, Len(l) + 1, op.at.buffer, Bytes(op.kind), len)
  PROVE  Placed(Append(l, op), len)
<1> DEFINE m == Append(l, op)
           n == Len(l)
<1>1. /\ IsLog(m) /\ Len(m) = n + 1 /\ m[n+1] = op /\ Alike(l, m, n)
      /\ \A i \in 1..n : m[i] = l[i]
  BY LogGrows
<1>2. n \in Nat
  BY SentType
<1> HIDE DEF m, n
<1>3. \A i \in 0..n : Ends(m, i) = Ends(l, i)
  BY <1>1, AlikeEnds
<1> SUFFICES ASSUME NEW i \in 1..Len(m), Whole(m[i].kind)
             PROVE  PlacedAt(m, i, m[i].at.buffer, Bytes(m[i].kind), len)
  BY DEF Placed, m
<1>4. /\ i \in 1..n+1 /\ i - 1 \in 0..n /\ (i \in 1..n \/ i = n + 1)
      /\ \A j \in 1..i-1 : j \in 0..n
  BY <1>1, <1>2
<1>5. PlacedAt(l, i, m[i].at.buffer, Bytes(m[i].kind), len)
  <2>1. CASE i \in 1..n
    BY <1>1, <2>1 DEF Placed, n
  <2>2. CASE i = n + 1
    BY <1>1, <2>2 DEF n
  <2> QED BY <1>4, <2>1, <2>2
<1>6. Ends(m, i - 1) = Ends(l, i - 1) /\ \A j \in 1..i-1 : Ends(m, j) = Ends(l, j)
  BY <1>3, <1>4
<1> QED BY <1>5, <1>6 DEF PlacedAt

(* The writer, with the log l and the state s; done when it has handed the *)
(* backends over.                                                          *)
Exactly(l, s) ==
  /\ \E q \in Nat : Ends(l, Len(l)) = ByteBits * q + s.bits
  /\ Ends(l, Len(l)) <= Room => Len(Out(s)) = Ends(l, Len(l))
Written(l, s, done) ==
  /\ IsLog(l) /\ Mixed(l) /\ WriterIs(s)
  /\ Holds(Out(s), l) /\ Placed(l, Len(s.b.buffer))
  /\ ~done => Exactly(l, s)
  /\ done => s.bits = 0
  /\ Ends(l, Len(l)) <= Room => \A k \in Ends(l, Len(l))+1..Len(Out(s)) : Out(s)[k] = 0

LEMMA WriterOut ==
  ASSUME SizeAssumption, NEW s, WriterIs(s)
  PROVE  /\ s.bits \in 0..ByteBits-1 /\ s.byte \in Byte /\ s.b.buffer \in Seq(Byte)
         /\ Len(s.b.buffer) \in Nat /\ Len(s.b.buffer) <= BufferSize /\ BufferSize \in Nat
         /\ s.b.buffer_write_index = Len(s.b.buffer)
         /\ Out(s) \in Seq(Bit) /\ Len(Out(s)) \in Nat
         /\ Len(Out(s)) = ByteBits * Len(s.b.buffer) + s.bits
         /\ ByteBits * Len(s.b.buffer) \in Nat
         /\ ByteBits * Len(s.b.buffer) <= Room /\ Room \in Nat
<1>1. /\ s.bits \in 0..ByteBits-1 /\ s.byte \in Byte /\ s.b.buffer \in Seq(Byte)
      /\ s.b.buffer_write_index = Len(s.b.buffer) /\ Len(s.b.buffer) <= BufferSize
  BY DEF WriterIs, StoreIs
<1>2. ByteBits \in Nat /\ BufferSize \in Nat /\ Room = BufferSize * ByteBits
  BY DEF SizeAssumption, Room
<1>3. s.bits \in 0..ByteBits /\ s.bits \in Nat
  BY <1>1, <1>2
<1>4. /\ Out(s) \in Seq(Bit) /\ Len(Out(s)) = Len(FlattenSeq(s.b.buffer)) + s.bits
      /\ Len(FlattenSeq(s.b.buffer)) = ByteBits * Len(s.b.buffer)
      /\ Len(FlattenSeq(s.b.buffer)) \in Nat /\ Len(s.b.buffer) \in Nat
  BY <1>1, <1>3, OutIs
<1>5. PICK L \in Nat : L = Len(s.b.buffer)
  BY <1>4
<1>6. /\ ByteBits * L \in Nat /\ ByteBits * BufferSize \in Nat
      /\ L <= BufferSize => ByteBits * L <= ByteBits * BufferSize
  BY <1>2, Multiples
<1>7. Room = ByteBits * BufferSize
  BY ONLY <1>2
<1>8. Len(Out(s)) \in Nat
  BY <1>4, LenProperties
<1>9. Len(Out(s)) = ByteBits * Len(s.b.buffer) + s.bits
  BY ONLY <1>4
<1> QED BY ONLY <1>1, <1>2, <1>4, <1>5, <1>6, <1>7, <1>8, <1>9

LEMMA NewPlace ==
  ASSUME SizeAssumption, NEW l, IsLog(l), NEW s, NEW t, WriterIs(s), s.bits = 0,
         NEW x \in Seq(Bit), NEW n \in Nat, Len(x) = ByteBits * n, Appends(s, t, x),
         Exactly(l, s), Holds(Out(s), l)
  PROVE  PlacedAt(l, Len(l) + 1, Len(s.b.buffer), n, Len(t.b.buffer))
<1> DEFINE a == Len(s.b.buffer)
           c == Len(t.b.buffer)
<1>1. WriterIs(t) /\ a <= c /\ (Len(Out(s)) + Len(x) <= Room => Out(t) = Out(s) \o x)
  BY DEF Appends
<1>2. a \in Nat /\ Len(Out(s)) = ByteBits * a /\ Out(s) \in Seq(Bit) /\ BufferSize \in Nat
  <2>1. Len(Out(s)) = ByteBits * a + s.bits /\ ByteBits * a \in Nat
    BY WriterOut
  <2>2. a \in Nat /\ Out(s) \in Seq(Bit) /\ BufferSize \in Nat
    BY WriterOut
  <2> QED BY <2>1, <2>2
<1>3. /\ c \in Nat /\ t.bits \in 0..ByteBits-1 /\ Len(Out(t)) = ByteBits * c + t.bits
  BY <1>1, WriterOut
<1>4. a + n <= c \/ a + n > BufferSize
  <2> SUFFICES ASSUME a + n <= BufferSize PROVE a + n <= c
    BY <1>2, <1>3
  <2>1. a + n \in Nat
    BY <1>2
  <2>2. /\ ByteBits * (a + n) = ByteBits * a + ByteBits * n
        /\ ByteBits * (a + n) \in Nat
    BY <1>2, <2>1, Multiples
  <2>3. ByteBits * (a + n) <= ByteBits * BufferSize
    BY <1>2, <2>1, Multiples
  <2>4. Room = ByteBits * BufferSize
    BY <1>2 DEF Room, SizeAssumption
  <2>5. Len(Out(s)) + Len(x) = ByteBits * (a + n)
    BY ONLY <1>2, <2>2, Len(x) = ByteBits * n
  <2>6. Len(Out(s)) + Len(x) <= Room
    BY ONLY <2>3, <2>4, <2>5
  <2>7. Out(t) = Out(s) \o x
    BY <1>1, <2>6
  <2>8. Len(Out(s) \o x) = Len(Out(s)) + Len(x)
    BY ONLY <1>2, JoinIs, x \in Seq(Bit)
  <2>9. PICK d \in Nat, y \in 0..ByteBits-1 : d = a + n /\ y = 0
    BY <2>1 DEF SizeAssumption
  <2>10. ByteBits * c + t.bits = ByteBits * d + y
    BY ONLY <1>3, <2>2, <2>5, <2>7, <2>8, <2>9
  <2>11. c = d
    BY ONLY <1>3, <2>10, OneWay, SizeAssumption
  <2>12. c = a + n
    BY <2>9, <2>11
  <2> QED BY <1>3, <2>12
<1>5. Ends(l, Len(l)) <= Room => ByteBits * a = Ends(l, Len(l))
  BY <1>2 DEF Exactly
<1>6. \A j \in 1..Len(l) : Ends(l, j) <= Room => Ends(l, j) <= ByteBits * a
  BY <1>2 DEF Holds
<1>7. (Len(l) + 1) - 1 = Len(l)
  BY SentType
<1> HIDE DEF a, c
<1>8. PlacedAt(l, Len(l) + 1, a, n, c)
  BY <1>1, <1>2, <1>4, <1>5, <1>6, <1>7 DEF PlacedAt
<1> QED BY <1>8 DEF a, c

LEMMA SumsUp ==
  ASSUME NEW e \in Nat, NEW k \in Nat, NEW u \in Nat, NEW v \in Nat,
         NEW p \in Nat, NEW q \in Nat, e = u + p, p + k = v + q
  PROVE  e + k = (u + v) + q
OBVIOUS

LEMMA Called ==
  ASSUME SizeAssumption, NEW l, NEW s, Written(l, s, FALSE), NEW op,
         op = [kind |-> op.kind, bits |-> op.bits, at |-> op.at],
         op.kind \in AllKinds, op.bits \in Payloads(op.kind),
         op.at.buffer = s.b.buffer_write_index,
         op.kind = "value" \/ Whole(op.kind) => s.bits = 0,
         op.kind = "bits" => bitStream /\ ~(s.bits = 0 /\ ByteLast(l, Len(l)))
  PROVE  LET t == Write(s, op.kind, op.bits)
         IN  /\ Written(Append(l, op), t, FALSE)
             /\ t.b.buffer_read_index = s.b.buffer_read_index
<1> DEFINE t == Write(s, op.kind, op.bits)
           m == Append(l, op)
           n == Len(l)
           x == Wire(op)
           T == Ends(l, n)
<1>1. /\ IsLog(l) /\ Mixed(l) /\ WriterIs(s) /\ Holds(Out(s), l)
      /\ Placed(l, Len(s.b.buffer)) /\ Exactly(l, s)
  BY DEF Written
<1>2. x \in Seq(Bit) /\ Len(x) \in Nat /\ Len(x) >= 1
      /\ (Whole(op.kind) => Len(x) = ByteBits * Bytes(op.kind))
  BY SentIs
<1>3. Appends(s, t, x)
  BY <1>1, WriteAppends
<1> HIDE DEF t
<1>4. /\ IsLog(m) /\ Len(m) = n + 1 /\ m[n+1] = op /\ Alike(l, m, n)
      /\ Ends(m, n + 1) = T + Len(x)
  BY <1>1, LogGrows
<1>5. n \in Nat /\ T \in Nat /\ n \in 0..n
  <2>1. n \in Nat
    BY <1>1, SentType
  <2>2. n \in 0..n
    BY <2>1
  <2> QED BY <1>1, <2>1, <2>2, SentType
<1>6. s.bits \in 0..ByteBits-1 /\ Len(s.b.buffer) \in Nat
      /\ s.b.buffer_write_index = Len(s.b.buffer) /\ Out(s) \in Seq(Bit)
  BY <1>1, WriterOut
<1>7. /\ WriterIs(t) /\ t.b.buffer_read_index = s.b.buffer_read_index
      /\ Len(s.b.buffer) <= Len(t.b.buffer)
      /\ Len(Out(s)) + Len(x) <= Room => Out(t) = Out(s) \o x
      /\ \A k \in 1..Len(Out(s)) : k <= Room => k <= Len(Out(t)) /\ Out(t)[k] = Out(s)[k]
  BY <1>3 DEF Appends
<1>8. PICK q1 \in Nat : T = ByteBits * q1 + s.bits
  BY <1>1 DEF Exactly
<1>9. PICK q2 \in Nat : s.bits + Len(x) = ByteBits * q2 + t.bits
  BY <1>3 DEF Appends
<1>10. Out(t) \in Seq(Bit) /\ Len(t.b.buffer) \in Nat /\ t.bits \in 0..ByteBits-1
       /\ Len(Out(t)) \in Nat
  BY <1>7, WriterOut
<1>11. Extends(Out(s), Out(t))
  BY <1>6, <1>7, <1>10 DEF Extends
<1>12. /\ Holds(Out(t), m) /\ (Ends(m, Len(m)) <= Room => Len(Out(t)) = Ends(m, Len(m)))
  <2>1. T <= Room => Len(Out(s)) = T
    BY <1>1 DEF Exactly
  <2> QED BY <1>1, <1>7, <1>11, <2>1, HoldsAppend
<1>13. Exactly(m, t)
  <2>1. q1 + q2 \in Nat
    OBVIOUS
  <2>2. ByteBits * (q1 + q2) = ByteBits * q1 + ByteBits * q2
        /\ ByteBits * q1 \in Nat /\ ByteBits * q2 \in Nat
    BY Multiples
  <2>3. s.bits \in Nat /\ t.bits \in Nat
    BY <1>6, <1>10 DEF SizeAssumption
  <2>4. T + Len(x) = ByteBits * (q1 + q2) + t.bits
    <3>1. PICK u \in Nat, v \in Nat : u = ByteBits * q1 /\ v = ByteBits * q2
      BY <2>2
    <3>2. T = u + s.bits /\ s.bits + Len(x) = v + t.bits
      BY <1>8, <1>9, <3>1
    <3>3. T + Len(x) = (u + v) + t.bits
      <4>1. PICK p \in Nat, q \in Nat, k \in Nat, e \in Nat :
              p = s.bits /\ q = t.bits /\ k = Len(x) /\ e = T
        BY <1>2, <1>5, <2>3
      <4>2. e = u + p /\ p + k = v + q
        BY <3>2, <4>1
      <4>3. u \in Nat /\ v \in Nat
        OBVIOUS
      <4>4. p \in Nat /\ q \in Nat /\ k \in Nat /\ e \in Nat
        OBVIOUS
      <4>5. e + k = (u + v) + q
        BY ONLY <4>2, <4>3, <4>4, SumsUp
      <4> QED BY ONLY <4>1, <4>5
    <3> QED BY <2>2, <3>1, <3>3
  <2>5. Ends(m, Len(m)) = ByteBits * (q1 + q2) + t.bits
    BY <1>4, <2>4
  <2> QED BY <1>12, <2>1, <2>5 DEF Exactly
<1>14. Even(T) <=> s.bits = 0
  <2>1. ASSUME s.bits = 0 PROVE Even(T)
    <3>1. T = ByteBits * q1
      BY <1>8, <2>1, Multiples
    <3> QED BY <3>1 DEF Even
  <2>2. ASSUME Even(T) PROVE s.bits = 0
    <3>1. PICK q \in Nat : T = ByteBits * q
      BY <2>2 DEF Even
    <3>2. ByteBits * q1 + s.bits = ByteBits * q + 0
      BY <1>5, <1>8, <3>1, Multiples
    <3>3. 0 \in 0..ByteBits-1
      BY DEF SizeAssumption
    <3> QED BY ONLY <1>6, <3>2, <3>3, OneWay, SizeAssumption
  <2> QED BY <2>1, <2>2
<1>15. Mixed(m)
  <2>1. AfterByteAt(l, n) <=> s.bits = 0 /\ ByteLast(l, n)
    BY <1>14 DEF AfterByteAt
  <2>2. /\ m[n+1].kind = "value" \/ Whole(m[n+1].kind) => Even(T)
        /\ m[n+1].kind = "bits" => bitStream /\ ~AfterByteAt(l, n)
    BY <1>4, <1>14, <2>1
  <2>3. Len(m) \in {n, n + 1}
    BY <1>4
  <2> QED BY <1>1, <1>4, <2>2, <2>3, MixedMore
<1>16. Placed(m, Len(t.b.buffer))
  <2>1. Placed(l, Len(t.b.buffer))
    BY <1>1, <1>6, <1>7, <1>10, PlacedMore
  <2>2. ASSUME Whole(op.kind)
        PROVE  PlacedAt(l, n + 1, op.at.buffer, Bytes(op.kind), Len(t.b.buffer))
    <3>1. Bytes(op.kind) \in Nat /\ Len(x) = ByteBits * Bytes(op.kind)
      BY <1>2, <2>2 DEF Bytes
    <3>2. s.bits = 0
      BY <2>2
    <3>3. PlacedAt(l, n + 1, Len(s.b.buffer), Bytes(op.kind), Len(t.b.buffer))
      BY <1>1, <1>2, <1>3, <3>1, <3>2, NewPlace
    <3> QED BY <1>6, <3>3
  <2> QED BY <1>1, <2>1, <2>2, PlacedAppend
<1>17. Ends(m, Len(m)) <= Room =>
         \A k \in Ends(m, Len(m))+1..Len(Out(t)) : Out(t)[k] = 0
  <2>1. Ends(m, Len(m)) \in Nat
    BY <1>2, <1>4, <1>5
  <2> QED BY <1>10, <1>12, <2>1
<1> HIDE DEF m, x, n, T
<1>18. Written(m, t, FALSE)
  BY <1>4, <1>7, <1>12, <1>13, <1>15, <1>16, <1>17 DEF Written
<1> QED BY <1>7, <1>18 DEF m, t

(* Synchronizing adds only zeros, and asking for the length nothing.       *)
LEMMA Synced ==
  ASSUME SizeAssumption, NEW l, NEW s, Written(l, s, FALSE)
  PROVE  LET t == Synchronize(s)
         IN  Written(l, t, TRUE) /\ t.b.buffer_read_index = s.b.buffer_read_index
<1> DEFINE t == Synchronize(s)
           T == Ends(l, Len(l))
           F == FlattenSeq(s.b.buffer)
           G == FlattenSeq(t.b.buffer)
           byte == s.byte
           L == Len(s.b.buffer)
<1>1. /\ IsLog(l) /\ Mixed(l) /\ WriterIs(s) /\ Holds(Out(s), l) /\ Placed(l, L)
      /\ T <= Room => Len(Out(s)) = T
      /\ T <= Room => \A k \in T+1..Len(Out(s)) : Out(s)[k] = 0
  BY DEF Written, Exactly
<1>2. /\ s.bits \in 0..ByteBits-1 /\ byte \in Byte /\ s.b.buffer \in Seq(Byte)
      /\ L \in Nat /\ L <= BufferSize /\ BufferSize \in Nat
      /\ Out(s) \in Seq(Bit) /\ Len(Out(s)) = ByteBits * L + s.bits
      /\ ByteBits * L <= Room /\ ByteBits * L \in Nat /\ Room \in Nat
  BY <1>1, WriterOut
<1>3. CASE ~Partial(s.bits)
  <2>1. s.bits = 0 /\ t = s
    BY <1>2, <1>3 DEF Partial, Synchronize, SizeAssumption
  <2> QED BY <1>1, <2>1 DEF Written
<1>4. CASE Partial(s.bits)
  <2>1. t = PutByte(s, byte)
    BY <1>4 DEF Synchronize
  <2>2. s = [byte |-> byte, bits |-> s.bits, b |-> s.b] /\ IsRecord(s.b) /\ StoreIs(s.b)
    BY <1>1 DEF WriterIs, StoreIs
  <2>3. <<byte>> \in Seq(Byte) /\ Len(<<byte>>) = 1 /\ FlattenSeq(<<byte>>) = byte
    BY <1>2, FlattenOne
  <2>4. t = [byte |-> Blank, bits |-> 0, b |-> t.b] /\ Laid(s.b, t.b, <<byte>>)
    <3>1. Made(s, byte, s.bits, s.b) /\ IsRecord(s.b) /\ byte \in Byte
      BY <1>2, <2>2 DEF Made
    <3> HIDE DEF t, byte
    <3>2. Made(t, Blank, 0, t.b) /\ Laid(s.b, t.b, <<byte>>)
      BY ONLY <2>1, <3>1, ByteLaid
    <3> QED BY ONLY <3>2 DEF Made
  <2> HIDE DEF t, byte
  <2>5. t.byte = Blank /\ t.bits = 0
    BY <2>4
  <2>6. /\ StoreIs(t.b) /\ L <= Len(t.b.buffer)
        /\ t.b.buffer_read_index = s.b.buffer_read_index
        /\ L + 1 <= BufferSize => t.b.buffer = s.b.buffer \o <<byte>>
        /\ ~(L + 1 <= BufferSize) => t.b.buffer = s.b.buffer
    <3>1. PICK x : x = <<byte>>
      OBVIOUS
    <3>2. x \in Seq(Byte) /\ StoreIs(s.b) /\ Laid(s.b, t.b, x) /\ Len(x) = 1
      BY ONLY <2>2, <2>3, <2>4, <3>1
    <3>3. StoreIs(t.b)
      BY ONLY <3>2, StoreLaid, SizeAssumption
    <3>4. Len(s.b.buffer) <= Len(t.b.buffer)
      BY ONLY <3>2, StoreLaid, SizeAssumption
    <3>5. t.b.buffer_read_index = s.b.buffer_read_index
      BY ONLY <3>2, StoreLaid, SizeAssumption
    <3>6. Len(s.b.buffer) + Len(x) <= BufferSize => t.b.buffer = s.b.buffer \o x
      <4>1. PICK b, c : b = s.b /\ c = t.b
        OBVIOUS
      <4>2. x \in Seq(Byte) /\ StoreIs(b) /\ Laid(b, c, x)
        BY ONLY <3>2, <4>1
      <4>3. Len(b.buffer) + Len(x) <= BufferSize => c.buffer = b.buffer \o x
        BY <4>2, StoreLaid
      <4> QED BY ONLY <4>1, <4>3
    <3>7. ~(Len(s.b.buffer) + Len(x) <= BufferSize) => t.b.buffer = s.b.buffer
      BY ONLY <3>2, StoreLaid, SizeAssumption
    <3> QED BY ONLY <3>1, <3>2, <3>3, <3>4, <3>5, <3>6, <3>7
  <2>7. WriterIs(t)
    <3>1. Blank \in Byte /\ \A i \in 1..ByteBits : Blank[i] = 0
      BY BlankIs
    <3>2. 0 \in 0..ByteBits-1 /\ 0 + 1 = 1
      BY DEF SizeAssumption
    <3> QED BY <2>4, <2>5, <2>6, <3>1, <3>2 DEF WriterIs
  <2>8. /\ Out(t) \in Seq(Bit) /\ Len(t.b.buffer) \in Nat
    BY <2>7, WriterOut
  <2>9. Out(t) = G
    <3>1. t.b.buffer \in Seq(Byte) /\ t.byte \in Byte
      BY <2>7 DEF WriterIs, StoreIs
    <3>2. t.bits \in 0..ByteBits
      BY <2>5 DEF SizeAssumption
    <3>3. t.bits = 0
      BY <2>5
    <3> HIDE DEF t
    <3>4. Out(t) = FlattenSeq(t.b.buffer)
      BY ONLY <3>1, <3>2, <3>3, OutIs, SizeAssumption
    <3> QED BY <3>4 DEF G
  <2>10. /\ F \in Seq(Bit) /\ Len(F) = ByteBits * L
         /\ \A k \in 1..Len(F) : Out(s)[k] = F[k]
         /\ \A k \in 1..s.bits : Out(s)[Len(F) + k] = byte[k]
    <3>1. s.bits \in 0..ByteBits
      BY <1>2 DEF SizeAssumption
    <3> QED BY <1>2, <3>1, OutIs DEF byte
  <2>11. byte \in Seq(Bit) /\ Len(byte) = ByteBits
    BY <1>2, ByteIsSeq
  <2>12. PICK f \in Nat, n \in Nat : f = Len(F) /\ n = s.bits /\ n \in 1..ByteBits-1
    BY <1>2, <1>4, <2>10 DEF Partial, SizeAssumption
  <2>13. ByteBits \in Nat /\ (\A k \in n+1..ByteBits : byte[k] = 0)
    BY <1>1, <2>12 DEF WriterIs, SizeAssumption, byte
  <2>14. Len(Out(s)) = f + n /\ f <= Room
    BY <1>2, <2>10, <2>12
  <2> HIDE DEF F, G
  <2>15. ASSUME L + 1 <= BufferSize
        PROVE  /\ Extends(Out(s), Out(t))
               /\ T <= Room => \A k \in T+1..Len(Out(t)) : Out(t)[k] = 0
    <3>1. t.b.buffer = s.b.buffer \o <<byte>>
      BY <2>6, <2>15
    <3>2. G = F \o byte
      BY <1>2, <2>3, <3>1, FlattenJoin DEF F, G
    <3>3. /\ Len(F \o byte) = Len(F) + Len(byte)
          /\ \A k \in 1..Len(F) : (F \o byte)[k] = F[k]
          /\ \A k \in 1..Len(byte) : (F \o byte)[Len(F) + k] = byte[k]
      <4>1. F \in Seq(Bit) /\ byte \in Seq(Bit)
        BY <2>10, <2>11
      <4> QED BY ONLY <4>1, JoinIs
    <3>4. /\ Len(G) = f + ByteBits
          /\ \A k \in 1..f : G[k] = F[k]
          /\ \A k \in 1..ByteBits : G[f + k] = byte[k]
      BY <2>11, <2>12, <3>2, <3>3
    <3>5. ASSUME NEW k \in 1..f+n
          PROVE  k <= f + ByteBits /\ G[k] = Out(s)[k]
      <4>1. k <= f + ByteBits
        BY <2>12, <2>13
      <4>2. CASE k <= f
        <5>1. k \in 1..f
          BY <4>2
        <5> QED BY <2>10, <2>12, <3>4, <4>1, <5>1
      <4>3. CASE ~(k <= f)
        <5>1. PICK j \in 1..n : k = f + j
          <6>1. k - f \in 1..n /\ k = f + (k - f)
            BY <4>3
          <6> QED BY <6>1
        <5>2. j \in 1..ByteBits
          BY <2>12, <2>13
        <5> QED BY <2>10, <2>12, <3>4, <4>1, <5>1, <5>2
      <4> QED BY <4>2, <4>3
    <3>6. Extends(Out(s), Out(t))
      BY <1>2, <2>8, <2>9, <2>14, <3>4, <3>5 DEF Extends
    <3>7. T <= Room => \A k \in T+1..Len(G) : G[k] = 0
      <4> SUFFICES ASSUME T <= Room, NEW k \in T+1..Len(G) PROVE G[k] = 0
        OBVIOUS
      <4>1. T = f + n
        BY <1>1, <2>14
      <4>2. k \in f+n+1..f+ByteBits
        BY <3>4, <4>1
      <4>3. PICK j \in n+1..ByteBits : k = f + j
        <5>1. f \in Nat /\ n \in Nat /\ ByteBits \in Nat
          BY <2>12, <2>13
        <5>2. k - f \in n+1..ByteBits /\ k = f + (k - f)
          BY ONLY <4>2, <5>1
        <5> QED BY <5>2
      <4>4. j \in 1..ByteBits
        BY <2>12, <2>13
      <4> QED BY <2>13, <3>4, <4>3, <4>4
    <3> QED BY <2>9, <3>6, <3>7
  <2>16. ASSUME ~(L + 1 <= BufferSize)
        PROVE  /\ Extends(Out(s), Out(t))
               /\ T <= Room => \A k \in T+1..Len(Out(t)) : Out(t)[k] = 0
    <3>1. G = F
      BY <2>6, <2>16 DEF F, G
    <3>2. L = BufferSize /\ f = Room
      <4>1. L = BufferSize
        BY <1>2, <2>16
      <4> QED BY <2>10, <2>12, <4>1 DEF Room, SizeAssumption
    <3>3. \A k \in 1..f : k \in 1..Len(F) /\ G[k] = Out(s)[k]
      BY <2>10, <2>12, <3>1
    <3>4. \A k \in 1..f+n : k <= Room => k <= Len(G) /\ G[k] = Out(s)[k]
      BY <2>12, <3>1, <3>2, <3>3
    <3>5. Extends(Out(s), Out(t))
      BY <1>2, <2>8, <2>9, <2>14, <3>4 DEF Extends
    <3>6. ~(T <= Room)
      BY <1>1, <2>12, <2>14, <3>2
    <3> QED BY <3>5, <3>6
  <2>17. Extends(Out(s), Out(t)) /\ (T <= Room => \A k \in T+1..Len(Out(t)) : Out(t)[k] = 0)
    BY <2>9, <2>15, <2>16
  <2>18. Holds(Out(t), l)
    BY <1>1, <2>17, HoldsMore
  <2>19. Placed(l, Len(t.b.buffer))
    BY <1>1, <1>2, <2>6, <2>8, PlacedMore
  <2>20. Written(l, t, TRUE)
    BY <1>1, <2>5, <2>7, <2>17, <2>18, <2>19 DEF Written
  <2> QED BY <2>6, <2>20 DEF t
<1> QED BY <1>3, <1>4

LEMMA SameWritten ==
  ASSUME SizeAssumption, NEW l, NEW s, NEW c, NEW done, Written(l, s, done),
         SameBuffer(s.b, c)
  PROVE  LET t == [s EXCEPT !.b = c]
         IN  /\ Written(l, t, done) /\ t.b = c
             /\ t = [byte |-> s.byte, bits |-> s.bits, b |-> c]
<1> DEFINE t == [s EXCEPT !.b = c]
           u == [byte |-> s.byte, bits |-> s.bits, b |-> c]
<1>1. WriterIs(s)
  BY DEF Written
<1>2. s = [byte |-> s.byte, bits |-> s.bits, b |-> s.b]
  BY <1>1 DEF WriterIs
<1>3. t = u
  BY <1>2
<1>4. t.byte = s.byte /\ t.bits = s.bits /\ t.b = c
  BY <1>3
<1>5. /\ IsRecord(c) /\ c.buffer = s.b.buffer
      /\ c.buffer_write_index = s.b.buffer_write_index
  BY DEF SameBuffer
<1>6. t = [byte |-> t.byte, bits |-> t.bits, b |-> t.b]
  BY <1>3, <1>4
<1> HIDE DEF t, u
<1>7. WriterIs(t)
  BY <1>1, <1>4, <1>5, <1>6 DEF WriterIs, StoreIs
<1>8. Out(t) = Out(s)
  BY <1>4, <1>5 DEF Out
<1>9. Written(l, t, done)
  BY <1>4, <1>5, <1>7, <1>8 DEF Written, Exactly
<1> QED BY <1>3, <1>4, <1>9 DEF t, u

-----------------------------------------------------------------------------
(* Going back: what a call of whole bytes lays where the writer stands.    *)
LEMMA WholeLaid ==
  ASSUME SizeAssumption, NEW byte \in Byte, \A k \in 1..ByteBits : byte[k] = 0,
         NEW b, IsRecord(b), NEW s, s = [byte |-> byte, bits |-> 0, b |-> b],
         NEW op, op.kind \in AllKinds, op.bits \in Payloads(op.kind), Whole(op.kind)
  PROVE  LET t == Write(s, op.kind, op.bits)
         IN  \E bytes \in Seq(Byte) :
               /\ FlattenSeq(bytes) = Wire(op) /\ Len(bytes) = Bytes(op.kind)
               /\ t = [byte |-> t.byte, bits |-> 0, b |-> t.b] /\ t.byte \in Byte
               /\ \A k \in 1..ByteBits : t.byte[k] = 0
               /\ Laid(b, t.b, bytes)
<1> DEFINE kind == op.kind
           bits == op.bits
           t == Write(s, kind, bits)
<1>1. /\ bits \in Seq(Bit)
      /\ kind \in {"bit", "bool"} => bits[1] \in Bit
      /\ kind = "byte" => bits \in Byte
      /\ kind = "value" => Len(bits) = 2 * ByteBits
  BY AnyPayload
<1>2. ~bitStream /\ kind \in {"value", "byte", "bool"}
  BY DEF Whole
<1>3. Blank \in Byte /\ \A k \in 1..ByteBits : Blank[k] = 0
  BY BlankIs
<1>4. CASE kind # "value"
  <2>1. Wire(op) \in Byte /\ t = PutByte(s, Wire(op))
    <3>1. CASE kind = "byte"
      <4>1. Wire(op) = bits
        BY <3>1 DEF Wire
      <4> QED BY <1>1, <1>2, <3>1, <4>1 DEF Write, WriteByte
    <3>2. CASE kind = "bool"
      <4>1. Wire(op) = Bool(bits[1])
        BY <1>2, <3>2 DEF Wire
      <4>2. Bool(bits[1]) \in Byte
        BY <1>1, <3>2, ByteIsSeq
      <4> QED BY <1>2, <3>2, <4>1, <4>2 DEF Write, WriteByte
    <3> QED BY <1>2, <1>4, <3>1, <3>2
  <2>2. PICK x \in Byte : x = Wire(op)
    BY <2>1
  <2>3. <<x>> \in Seq(Byte) /\ Len(<<x>>) = 1 /\ FlattenSeq(<<x>>) = x
    BY FlattenOne
  <2>4. PICK u : u = PutByte(s, x)
    OBVIOUS
  <2>5. u = [byte |-> Blank, bits |-> 0, b |-> u.b] /\ Laid(b, u.b, <<x>>)
    <3>1. Made(s, byte, 0, b) /\ IsRecord(b) /\ x \in Byte
      BY <1>3 DEF Made
    <3>2. Made(u, Blank, 0, u.b) /\ Laid(b, u.b, <<x>>)
      BY ONLY <2>4, <3>1, ByteLaid
    <3> QED BY ONLY <3>2 DEF Made
  <2>6. u.byte = Blank
    BY <2>5
  <2>7. t = u
    BY <2>1, <2>2, <2>4
  <2>8. Bytes(kind) = 1
    BY <1>4 DEF Bytes
  <2>9. PICK bytes : bytes = <<x>>
    OBVIOUS
  <2> HIDE DEF t, kind
  <2>10. /\ bytes \in Seq(Byte) /\ FlattenSeq(bytes) = Wire(op)
         /\ Len(bytes) = Bytes(kind) /\ t = [byte |-> t.byte, bits |-> 0, b |-> t.b]
         /\ t.byte \in Byte /\ (\A k \in 1..ByteBits : t.byte[k] = 0)
         /\ Laid(b, t.b, bytes)
    BY <1>3, <2>2, <2>3, <2>5, <2>6, <2>7, <2>8, <2>9
  <2> QED BY <2>10 DEF t, kind
<1>5. CASE kind = "value"
  <2> DEFINE x == SubSeq(bits, 1, ByteBits)
             y == SubSeq(bits, ByteBits + 1, 2 * ByteBits)
  <2>1. t = WriteBytes(s, <<x, y>>)
    BY <1>5 DEF Write
  <2>2. Wire(op) = bits
    BY <1>5 DEF Wire
  <2>3. x \in Byte /\ y \in Byte /\ bits = x \o y
    BY <1>1, <1>5, HalvesIs
  <2> HIDE DEF x, y
  <2>4. PICK bytes : bytes = <<x, y>>
    OBVIOUS
  <2>5. bytes \in Seq(Byte) /\ FlattenSeq(bytes) = x \o y /\ Len(bytes) = 2
    BY <2>3, <2>4, FlattenTwo
  <2>6. PICK u : u = WriteBytes(s, bytes)
    OBVIOUS
  <2>7. u = [byte |-> byte, bits |-> 0, b |-> u.b] /\ Laid(b, u.b, bytes)
    <3>1. Made(s, byte, 0, b) /\ IsRecord(b)
      BY <1>3 DEF Made
    <3>2. Made(u, byte, 0, u.b) /\ Laid(b, u.b, bytes)
      BY ONLY <2>5, <2>6, <3>1, BytesLaid
    <3> QED BY ONLY <3>2 DEF Made
  <2>8. u.byte = byte
    BY <2>7
  <2>9. t = u
    BY <2>1, <2>4, <2>6
  <2>10. Bytes(kind) = 2
    BY <1>5 DEF Bytes
  <2> HIDE DEF t, kind, bits
  <2>11. FlattenSeq(bytes) = Wire(op)
    BY <2>2, <2>3, <2>5
  <2>12. /\ bytes \in Seq(Byte) /\ FlattenSeq(bytes) = Wire(op)
         /\ Len(bytes) = Bytes(kind) /\ t = [byte |-> t.byte, bits |-> 0, b |-> t.b]
         /\ t.byte \in Byte /\ (\A k \in 1..ByteBits : t.byte[k] = 0)
         /\ Laid(b, t.b, bytes)
    BY <2>5, <2>7, <2>8, <2>9, <2>10, <2>11
  <2> QED BY <2>12 DEF t, kind, bits
<1> QED BY <1>4, <1>5

LEMMA LogPatched ==
  ASSUME SizeAssumption, NEW l, IsLog(l), NEW i \in 1..Len(l), Whole(l[i].kind)
  PROVE  LET m == [l EXCEPT ![i].bits = Flipped(@)]
         IN  /\ Alike(l, m, Len(l)) /\ Len(m) = Len(l)
             /\ \A j \in 1..Len(l) : /\ m[j].kind = l[j].kind /\ m[j].at = l[j].at
                                     /\ j # i => m[j] = l[j]
             /\ m[i].bits = Flipped(l[i].bits)
<1> DEFINE op == l[i]
           new == [op EXCEPT !.bits = Flipped(@)]
           m == [l EXCEPT ![i] = new]
           n == Len(l)
<1>1. PICK S : l \in Seq([kind : AllKinds, bits : Seq(Bit), at : S])
  BY DEF IsLog
<1> DEFINE Calls == [kind : AllKinds, bits : Seq(Bit), at : S]
<1>2. /\ l \in Seq(Calls) /\ n \in Nat
      /\ \A j \in 1..n : l[j] \in Calls /\ l[j].bits \in Payloads(l[j].kind)
  <2>1. n \in Nat /\ \A j \in 1..n : l[j] \in Calls
    BY <1>1, LenProperties, ElementOfSeq
  <2> QED BY <1>1, <2>1 DEF IsLog
<1>3. [l EXCEPT ![i].bits = Flipped(@)] = m
  OBVIOUS
<1>4. op.kind \in Plain /\ op.bits \in Payloads(op.kind) /\ op \in Calls
  BY <1>2 DEF Whole, Plain, AllKinds
<1>5. Flipped(op.bits) \in Payloads(op.kind) /\ Flipped(op.bits) \in Seq(Bit)
  BY <1>4, PayloadIs
<1> HIDE DEF op
<1>6. /\ new \in Calls /\ new.kind = op.kind /\ new.at = op.at
      /\ new.bits = Flipped(op.bits) /\ new.bits \in Payloads(new.kind)
  BY <1>4, <1>5
<1> HIDE DEF new, Calls
<1>7. /\ m \in Seq(Calls) /\ Len(m) = n /\ m[i] = new
      /\ \A j \in 1..n : j # i => m[j] = l[j]
  BY <1>2, <1>6, ExceptSeq
<1> HIDE DEF m
<1>8. \A j \in 1..n : /\ m[j].kind = l[j].kind /\ m[j].at = l[j].at
                      /\ m[j].bits \in Payloads(m[j].kind)
  <2> TAKE j \in 1..n
  <2>1. CASE j = i
    BY <1>6, <1>7, <2>1 DEF op
  <2>2. CASE j # i
    BY <1>2, <1>7, <2>2
  <2> QED BY <2>1, <2>2
<1>9. IsLog(m)
  BY <1>7, <1>8 DEF IsLog, Calls
<1>10. \A j \in 1..n : Len(Wire(m[j])) = Len(Wire(l[j]))
  <2> TAKE j \in 1..n
  <2>1. CASE j # i
    BY <1>7, <2>1
  <2>2. CASE j = i
    <3>1. Whole(l[j].kind) /\ m[j].kind = l[j].kind
      BY <1>8, <2>2
    <3>2. /\ l[j].kind \in AllKinds /\ m[j].kind \in AllKinds
          /\ l[j].bits \in Payloads(l[j].kind) /\ m[j].bits \in Payloads(m[j].kind)
      BY <1>2, <1>8, <3>1 DEF Calls
    <3>3. Len(Wire(l[j])) = ByteBits * Bytes(l[j].kind)
      BY <3>1, <3>2, SentIs
    <3>4. Len(Wire(m[j])) = ByteBits * Bytes(m[j].kind)
      BY <3>1, <3>2, SentIs
    <3> QED BY <3>1, <3>3, <3>4
  <2> QED BY <2>1, <2>2
<1>11. Alike(l, m, n)
  <2>1. n <= Len(l) /\ n <= Len(m)
    BY <1>2, <1>7
  <2> QED BY <1>2, <1>7, <1>8, <1>9, <1>10, <2>1 DEF Alike
<1>12. m[i].bits = Flipped(l[i].bits)
  BY <1>6, <1>7 DEF op
<1> QED BY <1>3, <1>7, <1>8, <1>11, <1>12

(* Bytes laid within the buffer replace those there; no others change.     *)
LEMMA LaidOver ==
  ASSUME SizeAssumption, NEW b, NEW c, NEW a \in Nat, NEW bytes \in Seq(Byte),
         b.buffer \in Seq(Byte), b.buffer_write_index = a, Laid(b, c, bytes),
         Len(b.buffer) <= BufferSize, a <= Len(b.buffer),
         a + Len(bytes) <= Len(b.buffer) \/ a + Len(bytes) > BufferSize
  PROVE  LET F == FlattenSeq(b.buffer)
             G == FlattenSeq(c.buffer)
             x == FlattenSeq(bytes)
         IN  /\ c.buffer \in Seq(Byte) /\ Len(c.buffer) = Len(b.buffer)
             /\ \A p \in 1..ByteBits * Len(b.buffer) :
                  p <= ByteBits * a \/ p > ByteBits * a + Len(x) => G[p] = F[p]
             /\ a + Len(bytes) <= BufferSize =>
                  \A p \in 1..Len(x) : G[ByteBits * a + p] = x[p]
<1> DEFINE M == b.buffer
           N == c.buffer
           F == FlattenSeq(M)
           G == FlattenSeq(N)
           x == FlattenSeq(bytes)
           n == Len(bytes)
           L == Len(M)
<1>1. /\ n \in Nat /\ L \in Nat /\ BufferSize \in Nat /\ L <= BufferSize
      /\ M \in Seq(Byte) /\ a <= L /\ (a + n <= L \/ a + n > BufferSize)
  BY LenProperties DEF SizeAssumption
<1>2. x \in Seq(Bit) /\ Len(x) = ByteBits * n
  BY BytesFlatten
<1>3. (a <= BufferSize - n) <=> (a + n <= BufferSize)
  <2> HIDE DEF n
  <2> QED BY <1>1
<1>4. ASSUME ~(a + n <= BufferSize)
      PROVE  N = M
  BY <1>3, <1>4 DEF Laid
<1>5. ASSUME a + n <= BufferSize
      PROVE  /\ N \in Seq(Byte) /\ Len(N) = L
             /\ \A p \in 1..ByteBits * L :
                  p <= ByteBits * a \/ p > ByteBits * a + Len(x) => G[p] = F[p]
             /\ \A p \in 1..Len(x) : G[ByteBits * a + p] = x[p]
  <2>1. N = Mem!Over(M, a, bytes)
    BY <1>3, <1>5 DEF Laid
  <2>2. a \in 0..L /\ a + n <= L
    BY <1>1, <1>5
  <2>3. /\ N \in Seq(Byte) /\ Len(N) = Larger(L, a + n)
        /\ \A k \in 1..a : N[k] = M[k]
        /\ \A k \in 1..n : N[a + k] = bytes[k]
        /\ \A k \in a+n+1..L : N[k] = M[k]
    <3>1. PICK memory, over : memory = M /\ over = Mem!Over(memory, a, bytes)
      OBVIOUS
    <3>2. memory \in Seq(Byte) /\ a \in 0..Len(memory)
      BY <1>1, <2>2, <3>1
    <3>3. /\ over \in Seq(Byte) /\ Len(over) = Larger(Len(memory), a + Len(bytes))
          /\ \A k \in 1..a : over[k] = memory[k]
          /\ \A k \in 1..Len(bytes) : over[a + k] = bytes[k]
          /\ \A k \in a+Len(bytes)+1..Len(memory) : over[k] = memory[k]
      <4>1. bytes \in Seq(Byte)
        OBVIOUS
      <4>2. PICK index : index = a
        OBVIOUS
      <4>3. over = Mem!Over(memory, index, bytes) /\ index \in 0..Len(memory)
        BY ONLY <3>1, <3>2, <4>2
      <4>4. /\ over \in Seq(Byte) /\ Len(over) = Larger(Len(memory), index + Len(bytes))
            /\ \A k \in 1..index : over[k] = memory[k]
            /\ \A k \in 1..Len(bytes) : over[index + k] = bytes[k]
            /\ \A k \in index+Len(bytes)+1..Len(memory) : over[k] = memory[k]
        BY ONLY <3>2, <4>1, <4>3, OverAt
      <4> QED BY ONLY <4>2, <4>4
    <3> QED BY ONLY <2>1, <3>1, <3>3
  <2> HIDE DEF M, N, F, G, x, n, L
  <2>4. Len(N) = L
    BY <1>1, <2>2, <2>3 DEF Larger
  <2>5. Shifted(M, N, 0, a, 0)
    <3>1. a <= Len(M) /\ a + 0 <= Len(N) /\ \A k \in 0+1..a : N[0 + k] = M[k]
      BY <1>1, <2>3, <2>4 DEF L
    <3> QED BY <1>1, <2>3, <3>1 DEF Shifted
  <2>6. Shifted(M, N, a + n, L, 0)
    <3>1. L <= Len(M) /\ L + 0 <= Len(N) /\ \A k \in a+n+1..L : N[0 + k] = M[k]
      BY <1>1, <2>3, <2>4 DEF L
    <3>2. a + n \in Nat
      BY <1>1
    <3> QED BY <1>1, <2>3, <3>1, <3>2 DEF Shifted
  <2>7. Shifted(bytes, N, 0, n, a)
    <3>1. n <= Len(bytes) /\ n + a <= Len(N) /\ \A k \in 0+1..n : N[a + k] = bytes[k]
      BY <1>1, <2>2, <2>3, <2>4 DEF n
    <3> QED BY <1>1, <2>3, <3>1 DEF Shifted
  <2>8. /\ ByteBits * 0 = 0 /\ ByteBits * a \in Nat /\ ByteBits * n \in Nat
        /\ ByteBits * L \in Nat /\ ByteBits * (a + n) = ByteBits * a + ByteBits * n
    BY <1>1, Multiples DEF SizeAssumption
  <2>9. \A p \in ByteBits*0 + 1 .. ByteBits*a : G[ByteBits * 0 + p] = F[p]
    BY <2>5, SameBits DEF F, G
  <2>10. \A p \in ByteBits*(a+n) + 1 .. ByteBits*L : G[ByteBits * 0 + p] = F[p]
    BY <2>6, SameBits DEF F, G
  <2>11. \A p \in ByteBits*0 + 1 .. ByteBits*n : G[ByteBits * a + p] = x[p]
    <3>1. \A p \in ByteBits*0 + 1 .. ByteBits*n :
            FlattenSeq(N)[ByteBits * a + p] = FlattenSeq(bytes)[p]
      BY ONLY <2>7, SameBits, SizeAssumption
    <3> QED BY <3>1 DEF G, x
  <2>12. PICK ea \in Nat, en \in Nat, el \in Nat :
           ea = ByteBits * a /\ en = ByteBits * n /\ el = ByteBits * L
    BY <2>8
  <2>13. /\ \A p \in 1..ea : G[0 + p] = F[p]
         /\ \A p \in ea+en+1..el : G[0 + p] = F[p]
         /\ \A p \in 1..en : G[ea + p] = x[p]
    <3>1. /\ ByteBits * 0 = 0 /\ ByteBits * (a + n) = ea + en
          /\ ByteBits * a = ea /\ ByteBits * n = en /\ ByteBits * L = el
      BY ONLY <2>8, <2>12
    <3>2. 0 + 1 = 1
      OBVIOUS
    <3>3. \A p \in 1..ea : G[0 + p] = F[p]
      BY ONLY <2>9, <3>1, <3>2
    <3>4. \A p \in ea+en+1..el : G[0 + p] = F[p]
      BY ONLY <2>10, <3>1
    <3>5. \A p \in 1..en : G[ea + p] = x[p]
      BY ONLY <2>11, <3>1, <3>2
    <3> QED BY ONLY <3>3, <3>4, <3>5
  <2>14. ASSUME NEW p \in 1..el, p <= ea \/ p > ea + en
         PROVE  G[p] = F[p]
    <3>1. 0 + p = p /\ (p \in 1..ea \/ p \in ea+en+1..el)
      BY <2>12, <2>14
    <3> QED BY <2>13, <3>1
  <2> QED BY <1>2, <2>3, <2>4, <2>12, <2>13, <2>14
<1> QED BY <1>1, <1>4, <1>5

Replaced(l, m, i, o, u, e) ==
  /\ IsLog(l) /\ Alike(l, m, Len(l)) /\ Len(m) = Len(l) /\ i \in 1..Len(l)
  /\ \A j \in 1..Len(l) : j # i => m[j] = l[j]
  /\ Holds(o, l) /\ o \in Seq(Bit) /\ u \in Seq(Bit) /\ Len(u) = Len(o) /\ e \in Nat
  /\ \A p \in 1..Len(o) : p <= e \/ p > e + Len(Wire(m[i])) => u[p] = o[p]
  /\ Ends(l, i) <= Room => \A p \in 1..Len(Wire(m[i])) : u[e + p] = Wire(m[i])[p]
  /\ Ends(l, i - 1) <= Room => e = Ends(l, i - 1)
  /\ \A j \in 1..i-1 : Ends(l, j) <= Room => Ends(l, j) <= e

LEMMA PatchHolds ==
  ASSUME SizeAssumption, NEW l, NEW m, NEW i, NEW o, NEW u, NEW e,
         Replaced(l, m, i, o, u, e)
  PROVE  Holds(u, m)
<1>1. /\ IsLog(l) /\ Alike(l, m, Len(l)) /\ Len(m) = Len(l) /\ i \in 1..Len(l)
      /\ \A j \in 1..Len(l) : j # i => m[j] = l[j]
      /\ Holds(o, l) /\ o \in Seq(Bit) /\ u \in Seq(Bit) /\ Len(u) = Len(o) /\ e \in Nat
      /\ \A p \in 1..Len(o) : p <= e \/ p > e + Len(Wire(m[i])) => u[p] = o[p]
      /\ Ends(l, i) <= Room => \A p \in 1..Len(Wire(m[i])) : u[e + p] = Wire(m[i])[p]
      /\ Ends(l, i - 1) <= Room => e = Ends(l, i - 1)
      /\ \A j \in 1..i-1 : Ends(l, j) <= Room => Ends(l, j) <= e
  BY DEF Replaced
<1> DEFINE n == Len(l)
<1>2. /\ n \in Nat /\ i \in 1..n /\ i - 1 \in 0..n /\ Len(o) \in Nat /\ Room \in Nat
  <2>1. n \in Nat
    BY <1>1, SentType
  <2>2. i \in 1..n /\ Len(o) \in Nat
    BY <1>1, LenProperties
  <2>3. i - 1 \in 0..n
    BY ONLY <2>1, <2>2
  <2>4. Room \in Nat
    BY ONLY SizeAssumption DEF Room, SizeAssumption
  <2> QED BY <2>1, <2>2, <2>3, <2>4
<1>3. \A j \in 0..n : Ends(m, j) = Ends(l, j)
  BY <1>1, AlikeEnds
<1>4. /\ \A j \in 0..n : Ends(l, j) \in Nat
      /\ \A j \in 1..n : Ends(l, j) = Ends(l, j - 1) + Len(Wire(l[j]))
                         /\ Ends(l, j - 1) \in Nat
  BY <1>1, SentType
<1>5. Len(Wire(m[i])) = Len(Wire(l[i])) /\ Len(Wire(l[i])) \in Nat
  BY <1>1, SentType, SentIs DEF Alike
<1> SUFFICES ASSUME NEW j \in 1..n, Ends(l, j) <= Room
             PROVE  /\ Ends(l, j) <= Len(u)
                    /\ \A k \in 1..Len(Wire(m[j])) :
                         u[Ends(l, j - 1) + k] = Wire(m[j])[k]
  <2>1. ASSUME NEW j \in 1..n PROVE j - 1 \in 0..n /\ j \in 0..n
    BY <1>2
  <2>2. Len(m) = n
    BY <1>1
  <2> QED BY <1>3, <2>1, <2>2 DEF Holds
<1> USE <1>1
<1>6. /\ Ends(l, j) <= Len(o)
      /\ \A k \in 1..Len(Wire(l[j])) : o[Ends(l, j - 1) + k] = Wire(l[j])[k]
  BY DEF Holds
<1>7. Ends(l, j) <= Len(u)
  BY <1>6
<1>8. PICK d \in Nat, len \in Nat : d = Ends(l, j - 1) /\ len = Len(Wire(l[j]))
  BY <1>4, SentType, SentIs
<1>9. Ends(l, j) = d + len /\ d + len <= Len(o) /\ d <= Room
  <2>1. Ends(l, j) = d + len
    BY <1>4, <1>8
  <2> QED BY <1>2, <1>6, <1>8, <2>1
<1>10. CASE j = i
  <2>1. e = d
    <3>1. d = Ends(l, i - 1) /\ d <= Room
      BY ONLY <1>8, <1>9, <1>10
    <3>2. Ends(l, i - 1) <= Room => e = Ends(l, i - 1)
      OBVIOUS
    <3> QED BY ONLY <3>1, <3>2
  <2>2. \A p \in 1..Len(Wire(m[i])) : u[e + p] = Wire(m[i])[p]
    BY <1>10
  <2> QED BY <1>7, <1>8, <1>10, <2>1, <2>2
<1>11. ASSUME j # i
       PROVE  \A k \in 1..len : d + k \in 1..Len(o)
                                /\ (d + k <= e \/ d + k > e + Len(Wire(m[i])))
  <2> TAKE k \in 1..len
  <2>1. d + k \in 1..Len(o) /\ d + k <= d + len /\ d + k > d
    BY <1>2, <1>8, <1>9
  <2>2. CASE j < i
    <3>1. j \in 1..i-1
      BY <1>2, <2>2
    <3>2. d + len <= e
      BY <1>9, <3>1
    <3> QED BY <1>8, <2>1, <3>2
  <2>3. CASE j > i
    <3>1. i \in 0..n /\ j - 1 \in i..n /\ j \in i..n
      BY <1>2, <2>3
    <3>2. Ends(l, i) <= d
      BY <1>8, <3>1, EndsGrow
    <3>3. Ends(l, i) = Ends(l, i - 1) + Len(Wire(l[i])) /\ Ends(l, i - 1) \in Nat
      BY <1>4
    <3>4. PICK f \in Nat, g \in Nat : f = Ends(l, i - 1) /\ g = Len(Wire(l[i]))
      BY <1>5, <3>3
    <3>5. f + g <= d
      BY <3>2, <3>3, <3>4
    <3>6. f \in Nat /\ g \in Nat /\ d \in Nat /\ k \in Nat
      OBVIOUS
    <3>7. f <= Room
      BY ONLY <1>2, <1>9, <3>5, <3>6
    <3>8. e = f
      BY <3>4, <3>7
    <3>9. Len(Wire(m[i])) = g
      BY <1>5, <3>4
    <3>10. d + k > e + g
      BY ONLY <2>1, <3>5, <3>8, <3>6
    <3> QED BY <2>1, <3>9, <3>10
  <2> QED BY <1>2, <1>11, <2>2, <2>3
<1>12. CASE j # i
  <2>1. m[j] = l[j]
    BY <1>12
  <2>2. ASSUME NEW k \in 1..len PROVE u[d + k] = Wire(l[j])[k]
    <3>1. u[d + k] = o[d + k]
      BY <1>11, <1>12
    <3>2. o[d + k] = Wire(l[j])[k]
      BY <1>6, <1>8
    <3> QED BY <3>1, <3>2
  <2> QED BY <1>7, <1>8, <2>1, <2>2
<1> QED BY <1>10, <1>12

PatchedLog(l, i) == [l EXCEPT ![i].bits = Flipped(@)]
PatchedBy(s, l, i, place) ==
  LET back == [s EXCEPT !.b = setWritePosition(@, l[i].at)]
      over == Write(back, l[i].kind, Flipped(l[i].bits))
  IN  [over EXCEPT !.b = setWritePosition(@, place)]

SameRead(t, s) == t.b.buffer_read_index = s.b.buffer_read_index
Patchable(l, s, i, place) ==
  /\ Written(l, s, FALSE) /\ s.bits = 0 /\ i \in 1..Len(l) /\ Whole(l[i].kind)
  /\ place.buffer = s.b.buffer_write_index

LEMMA Patched ==
  ASSUME SizeAssumption, NEW l, NEW s, NEW i, NEW place, Patchable(l, s, i, place)
  PROVE  LET t == PatchedBy(s, l, i, place)
         IN  Written(PatchedLog(l, i), t, FALSE) /\ SameRead(t, s)
<1> DEFINE n == Len(l)
           m == [l EXCEPT ![i].bits = Flipped(@)]
           b0 == setWritePosition(s.b, l[i].at)
           back == [s EXCEPT !.b = setWritePosition(@, l[i].at)]
           over == Write(back, l[i].kind, Flipped(l[i].bits))
           b2 == setWritePosition(over.b, place)
           t == [over EXCEPT !.b = setWritePosition(@, place)]
           a == l[i].at.buffer
           F == FlattenSeq(s.b.buffer)
           G == FlattenSeq(t.b.buffer)
           L == Len(s.b.buffer)
<1>1. /\ Written(l, s, FALSE) /\ s.bits = 0 /\ i \in 1..Len(l) /\ Whole(l[i].kind)
      /\ place.buffer = s.b.buffer_write_index
  BY DEF Patchable
<1> USE <1>1
<1>2. /\ IsLog(l) /\ Mixed(l) /\ WriterIs(s) /\ Holds(Out(s), l) /\ Placed(l, L)
      /\ Exactly(l, s)
  BY DEF Written
<1>3. /\ s = [byte |-> s.byte, bits |-> 0, b |-> s.b] /\ s.byte \in Byte
      /\ IsRecord(s.b) /\ (\A k \in 1..ByteBits : s.byte[k] = 0)
      /\ s.b.buffer \in Seq(Byte) /\ L \in Nat /\ L <= BufferSize /\ BufferSize \in Nat
      /\ s.b.buffer_write_index = L
  <2>1. /\ s = [byte |-> s.byte, bits |-> s.bits, b |-> s.b] /\ s.byte \in Byte
        /\ IsRecord(s.b) /\ (\A k \in s.bits+1..ByteBits : s.byte[k] = 0)
    BY <1>2 DEF WriterIs, StoreIs
  <2>2. 0 + 1 = 1
    OBVIOUS
  <2>3. s.b.buffer \in Seq(Byte) /\ L \in Nat /\ L <= BufferSize /\ BufferSize \in Nat
        /\ s.b.buffer_write_index = L
    BY <1>2, WriterOut
  <2> QED BY <2>1, <2>2, <2>3
<1>4. /\ Alike(l, m, n) /\ Len(m) = n
      /\ \A j \in 1..n : /\ m[j].kind = l[j].kind /\ m[j].at = l[j].at
                         /\ j # i => m[j] = l[j]
      /\ m[i].bits = Flipped(l[i].bits)
  BY <1>2, LogPatched
<1> HIDE DEF m
<1>5. IsLog(m) /\ n \in Nat /\ (\A j \in 0..n : Ends(m, j) = Ends(l, j))
  <2>1. IsLog(m) /\ n \in Nat
    BY <1>2, <1>4, SentType DEF Alike
  <2>2. \A j \in 0..n : Ends(m, j) = Ends(l, j)
    BY <1>4, AlikeEnds
  <2> QED BY <2>1, <2>2
<1>6. /\ m[i].kind \in AllKinds /\ m[i].bits \in Payloads(m[i].kind)
      /\ m[i].kind = l[i].kind /\ Whole(m[i].kind)
  BY <1>4, <1>5, SentType
(* There, the bytes, and back. *)
<1>7. PICK at0 : at0 = l[i].at
  OBVIOUS
<1>8. /\ IsRecord(b0) /\ b0.buffer = s.b.buffer
      /\ b0.buffer_read_index = s.b.buffer_read_index
      /\ b0.buffer_write_index = at0.buffer
  BY <1>3, <1>7, GoneTo
<1>9. back = [byte |-> s.byte, bits |-> 0, b |-> b0]
  <2>1. back = [s EXCEPT !.b = b0]
    OBVIOUS
  <2> HIDE DEF b0, back
  <2> QED BY <1>3, <2>1
<1> HIDE DEF b0, back
<1>10. over = Write(back, m[i].kind, m[i].bits)
  BY <1>4, <1>6
<1>11. PICK bytes \in Seq(Byte) :
        /\ FlattenSeq(bytes) = Wire(m[i]) /\ Len(bytes) = Bytes(m[i].kind)
        /\ over = [byte |-> over.byte, bits |-> 0, b |-> over.b] /\ over.byte \in Byte
        /\ \A k \in 1..ByteBits : over.byte[k] = 0
        /\ Laid(b0, over.b, bytes)
  <2> HIDE DEF over
  <2> QED BY <1>3, <1>6, <1>8, <1>9, <1>10, WholeLaid
<1> HIDE DEF over
<1>12. IsRecord(over.b) /\ over.b.buffer_read_index = b0.buffer_read_index
  BY <1>11 DEF Laid
<1>13. /\ IsRecord(b2) /\ b2.buffer = over.b.buffer
       /\ b2.buffer_read_index = over.b.buffer_read_index
       /\ b2.buffer_write_index = place.buffer
  BY <1>12, GoneTo
<1>14. t = [byte |-> over.byte, bits |-> 0, b |-> b2]
  <2>1. t = [over EXCEPT !.b = b2]
    OBVIOUS
  <2> HIDE DEF b2, t
  <2> QED BY <1>11, <2>1
<1> HIDE DEF b2, t
<1>15. t.byte = over.byte /\ t.bits = 0 /\ t.b = b2
  BY <1>14
(* The bits of the buffer. *)
<1>16. PlacedAt(l, i, a, Bytes(l[i].kind), L)
  BY <1>2 DEF Placed
<1>17. /\ a \in Nat /\ a <= L /\ (a + Len(bytes) <= L \/ a + Len(bytes) > BufferSize)
       /\ Ends(l, i - 1) <= Room => ByteBits * a = Ends(l, i - 1)
       /\ \A j \in 1..i-1 : Ends(l, j) <= Room => Ends(l, j) <= ByteBits * a
  BY <1>6, <1>11, <1>16 DEF PlacedAt
<1>18. /\ over.b.buffer \in Seq(Byte) /\ Len(over.b.buffer) = L
       /\ \A p \in 1..ByteBits * L :
            p <= ByteBits * a \/ p > ByteBits * a + Len(Wire(m[i])) =>
              FlattenSeq(over.b.buffer)[p] = F[p]
       /\ a + Len(bytes) <= BufferSize =>
            \A p \in 1..Len(Wire(m[i])) :
              FlattenSeq(over.b.buffer)[ByteBits * a + p] = Wire(m[i])[p]
  <2>1. b0.buffer_write_index = a
    BY <1>7, <1>8
  <2> HIDE DEF a
  <2>2. PICK c : c = over.b
    OBVIOUS
  <2>3. /\ c.buffer \in Seq(Byte) /\ Len(c.buffer) = Len(b0.buffer)
        /\ \A p \in 1..ByteBits * Len(b0.buffer) :
             p <= ByteBits * a \/ p > ByteBits * a + Len(FlattenSeq(bytes)) =>
               FlattenSeq(c.buffer)[p] = FlattenSeq(b0.buffer)[p]
        /\ a + Len(bytes) <= BufferSize =>
             \A p \in 1..Len(FlattenSeq(bytes)) :
               FlattenSeq(c.buffer)[ByteBits * a + p] = FlattenSeq(bytes)[p]
    <3>1. /\ b0.buffer \in Seq(Byte) /\ Laid(b0, c, bytes)
          /\ Len(b0.buffer) <= BufferSize /\ a <= Len(b0.buffer) /\ a \in Nat
          /\ a + Len(bytes) <= Len(b0.buffer) \/ a + Len(bytes) > BufferSize
      BY <1>3, <1>8, <1>11, <1>17, <2>2
    <3>2. bytes \in Seq(Byte)
      BY <1>11
    <3> QED BY ONLY <2>1, <3>1, <3>2, LaidOver, SizeAssumption
  <2> QED BY <1>8, <1>11, <2>2, <2>3
<1>19. WriterIs(t)
  <2>1. StoreIs(t.b)
    BY <1>3, <1>13, <1>15, <1>18 DEF StoreIs
  <2>2. t = [byte |-> t.byte, bits |-> t.bits, b |-> t.b]
    BY <1>14, <1>15
  <2>3. 0 \in 0..ByteBits-1 /\ 0 + 1 = 1
    BY DEF SizeAssumption
  <2> QED BY <1>11, <1>15, <2>1, <2>2, <2>3 DEF WriterIs
<1>20. /\ Out(s) \in Seq(Bit) /\ Out(t) \in Seq(Bit)
       /\ Len(Out(s)) = ByteBits * L /\ Len(Out(t)) = ByteBits * L
       /\ Out(s) = F /\ Out(t) = G /\ Len(t.b.buffer) = L
  <2>1. Len(t.b.buffer) = L
    BY <1>13, <1>15, <1>18
  <2>2. /\ Out(s) \in Seq(Bit) /\ Len(Out(s)) = ByteBits * L + s.bits
        /\ ByteBits * L \in Nat
    BY <1>2, WriterOut
  <2>3. /\ Out(t) \in Seq(Bit) /\ Len(Out(t)) = ByteBits * Len(t.b.buffer) + t.bits
    BY <1>19, WriterOut
  <2>4. 0 \in 0..ByteBits
    BY DEF SizeAssumption
  <2>5. Out(s) = F
    BY <1>3, <2>4, OutIs
  <2>6. Out(t) = G
    <3>1. t.b.buffer \in Seq(Byte) /\ t.byte \in Byte
      BY <1>19 DEF WriterIs, StoreIs
    <3> QED BY <1>15, <2>4, <3>1, OutIs
  <2> QED BY <1>15, <2>1, <2>2, <2>3, <2>5, <2>6
<1>21. Holds(Out(t), m)
  <2>1. PICK e \in Nat : e = ByteBits * a
    BY <1>17, Multiples
  <2>2. \A p \in 1..Len(Out(s)) :
          p <= e \/ p > e + Len(Wire(m[i])) => Out(t)[p] = Out(s)[p]
    BY <1>13, <1>15, <1>18, <1>20, <2>1
  <2>3. ASSUME Ends(l, i) <= Room PROVE a + Len(bytes) <= BufferSize
    <3>1. /\ Ends(l, i) = Ends(l, i - 1) + Len(Wire(l[i])) /\ Ends(l, i - 1) \in Nat
          /\ Len(Wire(l[i])) = ByteBits * Bytes(l[i].kind) /\ Len(Wire(l[i])) \in Nat
      BY <1>2, <1>6, SentType, SentIs
    <3>2. Ends(l, i - 1) <= Room
      BY <2>3, <3>1 DEF Room, SizeAssumption
    <3>3. Ends(l, i - 1) = ByteBits * a
      BY <1>17, <3>2
    <3>4. PICK k \in Nat : k = Len(bytes)
      BY LenProperties
    <3>5. Len(Wire(l[i])) = ByteBits * k
      BY <1>6, <1>11, <3>1, <3>4
    <3>6. ByteBits * a + ByteBits * k <= Room
      BY <2>3, <3>1, <3>3, <3>5
    <3>7. PICK d \in Nat : d = a
      BY <1>17
    <3>8. d + k \in Nat
      OBVIOUS
    <3>9. ByteBits * (d + k) = ByteBits * d + ByteBits * k
      BY Multiples
    <3>10. Room = ByteBits * BufferSize
      BY <1>3 DEF Room, SizeAssumption
    <3>11. ByteBits * (d + k) <= ByteBits * BufferSize
      BY <3>6, <3>7, <3>9, <3>10
    <3>12. d + k <= BufferSize
      BY ONLY <1>3, <3>8, <3>11, Multiples, SizeAssumption
    <3> QED BY <3>4, <3>7, <3>12
  <2>4. Ends(l, i) <= Room =>
          \A p \in 1..Len(Wire(m[i])) : Out(t)[e + p] = Wire(m[i])[p]
    BY <1>13, <1>15, <1>18, <1>20, <2>1, <2>3
  <2>5. /\ Ends(l, i - 1) <= Room => e = Ends(l, i - 1)
        /\ \A j \in 1..i-1 : Ends(l, j) <= Room => Ends(l, j) <= e
    BY <1>17, <2>1
  <2>6. \A j \in 1..Len(l) : j # i => m[j] = l[j]
    BY <1>4
  <2>7. PICK o, u : o = Out(s) /\ u = Out(t)
    OBVIOUS
  <2>8. /\ IsLog(l) /\ Alike(l, m, Len(l)) /\ Len(m) = Len(l) /\ Holds(o, l)
        /\ o \in Seq(Bit) /\ u \in Seq(Bit) /\ Len(u) = Len(o)
    BY <1>2, <1>4, <1>20, <2>7
  <2>9. /\ \A p \in 1..Len(o) :
             p <= e \/ p > e + Len(Wire(m[i])) => u[p] = o[p]
        /\ Ends(l, i) <= Room => \A p \in 1..Len(Wire(m[i])) : u[e + p] = Wire(m[i])[p]
    BY <2>2, <2>4, <2>7
  <2>10. i \in 1..Len(l) /\ e \in Nat
    OBVIOUS
  <2>11. Replaced(l, m, i, o, u, e)
    BY ONLY <2>5, <2>6, <2>8, <2>9, <2>10 DEF Replaced
  <2>12. Holds(u, m)
    BY ONLY <2>11, PatchHolds, SizeAssumption
  <2> QED BY <2>7, <2>12
<1>22. Placed(m, Len(t.b.buffer))
  <2> SUFFICES ASSUME NEW j \in 1..n, Whole(l[j].kind)
               PROVE  PlacedAt(m, j, l[j].at.buffer, Bytes(l[j].kind), L)
    BY <1>4, <1>20 DEF Placed
  <2>1. PlacedAt(l, j, l[j].at.buffer, Bytes(l[j].kind), L)
    BY <1>2 DEF Placed
  <2>2. j - 1 \in 0..n /\ \A k \in 1..j-1 : k \in 0..n
    BY <1>5
  <2>3. Ends(m, j - 1) = Ends(l, j - 1) /\ \A k \in 1..j-1 : Ends(m, k) = Ends(l, k)
    BY <1>5, <2>2
  <2> QED BY <2>1, <2>3 DEF PlacedAt
<1>23. Mixed(m)
  <2>1. Len(m) \in {n, n + 1} /\ Len(m) # n + 1
    BY <1>4, <1>5
  <2> QED BY <1>2, <1>4, <2>1, MixedMore
<1>24. Ends(m, Len(m)) = Ends(l, n) /\ Ends(l, n) \in Nat
  <2>1. n \in 0..n
    BY <1>5
  <2> QED BY <1>2, <1>4, <1>5, <2>1, SentType
<1>25. Exactly(m, t)
  BY <1>2, <1>15, <1>20, <1>24 DEF Exactly
<1>26. Ends(m, Len(m)) <= Room =>
         \A k \in Ends(m, Len(m))+1..Len(Out(t)) : Out(t)[k] = 0
  <2> SUFFICES ASSUME Ends(m, Len(m)) <= Room
               PROVE  \A k \in Ends(m, Len(m))+1..Len(Out(t)) : Out(t)[k] = 0
    OBVIOUS
  <2>1. Len(Out(t)) = Ends(m, Len(m))
    BY <1>25 DEF Exactly
  <2>2. \A k \in Ends(m, Len(m))+1..Len(Out(t)) : FALSE
    BY <1>24, <2>1
  <2> QED BY <2>2
<1>27. Written(m, t, FALSE)
  BY <1>5, <1>19, <1>21, <1>22, <1>23, <1>25, <1>26 DEF Written
<1>28. t.b.buffer_read_index = s.b.buffer_read_index
  BY <1>8, <1>12, <1>13, <1>15
<1>29. m = PatchedLog(l, i)
  BY DEF m, PatchedLog
<1>30. t = PatchedBy(s, l, i, place)
  BY DEF t, over, back, PatchedBy
<1> QED BY <1>27, <1>28, <1>29, <1>30 DEF SameRead

-----------------------------------------------------------------------------
(* What the reader keeps: while the calls fit, it stands where the next    *)
(* call began, and has a counter of zero only after a whole byte.          *)
Standing(l, n, s, at) ==
  /\ At(s, Ends(l, n))
  /\ s.bits = 0 => AfterByteAt(l, n)
  /\ n # 0 /\ Whole(l[n].kind) => ByteBits * at.buffer = Ends(l, n - 1)
Returned(l, g, s, at) ==
  /\ ReaderIs(s) /\ g \in Seq(Seq(Bit)) /\ Len(g) <= Len(l) /\ at.buffer \in Nat
  /\ \A i \in 1..Len(g) : Ends(l, i) <= Room => g[i] = l[i].bits
  /\ Ends(l, Len(g)) <= Room => Standing(l, Len(g), s, at)

LEMMA NothingReturned ==
  ASSUME SizeAssumption, NEW l, IsLog(l), NEW s, ReaderIs(s), s.bits = ByteBits,
         s.b.buffer_read_index = 0, NEW at, at.buffer \in Nat
  PROVE  Returned(l, <<>>, s, at)
<1>1. /\ <<>> \in Seq(Seq(Bit)) /\ Len(<<>>) = 0 /\ Len(l) \in Nat
      /\ Len(<<>>) <= Len(l)
  BY SentType
<1>2. Ends(l, 0) = 0
  BY PreOfNone DEF Ends
<1>3. ByteBits * 0 = 0 /\ ByteBits # 0 /\ ByteBits \in NoneOpen
  BY DEF SizeAssumption, NoneOpen
<1>4. At(s, 0)
  BY <1>3 DEF At
<1>5. Standing(l, 0, s, at)
  BY <1>2, <1>3, <1>4 DEF Standing
<1>6. \A i \in 1..0 : FALSE
  OBVIOUS
<1> QED BY <1>1, <1>5, <1>6 DEF Returned

Before(l, v, i, s) ==
  /\ Written(l, v, TRUE) /\ i \in 1..Len(l) /\ Ends(l, i) <= Room
  /\ ReaderIs(s) /\ s.out = <<>> /\ s.b.buffer = v.b.buffer
  /\ At(s, Ends(l, i - 1)) /\ (l[i].kind = "bits" => s.bits # 0)

LEMMA Reads ==
  ASSUME SizeAssumption, NEW l, NEW v, NEW i, NEW s, Before(l, v, i, s)
  PROVE  After(l[i], s, Ends(l, i))
<1> USE DEF Before
<1> DEFINE op == l[i]
           p == Ends(l, i - 1)
           x == Wire(op)
           F == FlattenSeq(s.b.buffer)
<1>1. IsLog(l) /\ Mixed(l) /\ WriterIs(v) /\ Holds(Out(v), l) /\ v.bits = 0
  BY DEF Written
<1>2. /\ v.b.buffer \in Seq(Byte) /\ v.byte \in Byte /\ Len(v.b.buffer) <= BufferSize
  BY <1>1, WriterOut
<1>3. Out(v) = F /\ Len(F) = ByteBits * Len(s.b.buffer)
  <2>1. v.bits \in 0..ByteBits
    BY <1>1 DEF SizeAssumption
  <2> QED BY <1>1, <1>2, <2>1, OutIs
<1>4. /\ op.kind \in AllKinds /\ op.bits \in Payloads(op.kind)
      /\ Ends(l, i) = p + Len(x) /\ p \in Nat
  BY <1>1, SentType
<1>5. x \in Seq(Bit)
  BY <1>4, SentIs
<1>6. /\ Ends(l, i) <= Len(Out(v))
      /\ \A k \in 1..Len(x) : Out(v)[p + k] = x[k]
  BY <1>1 DEF Holds
<1>7. /\ op.kind = "value" \/ Whole(op.kind) => Even(p)
      /\ op.kind = "bits" => bitStream
  BY <1>1 DEF Mixed
<1> HIDE DEF op, p, x
<1>8. Facing(s, p, x)
  <2>1. p + Len(x) <= ByteBits * Len(s.b.buffer)
    BY <1>3, <1>4, <1>6
  <2>2. \A k \in 1..Len(x) : FlattenSeq(s.b.buffer)[p + k] = x[k]
    BY <1>3, <1>6
  <2>3. At(s, p)
    BY DEF p
  <2> QED BY <1>2, <1>4, <1>5, <2>1, <2>2, <2>3 DEF Facing
<1>9. op.kind = "value" \/ Whole(op.kind) => \E m \in Nat : p = ByteBits * m
  BY <1>7 DEF Even
<1>10. op.kind = "bits" => s.bits # 0 /\ bitStream
  BY <1>7 DEF op
<1>11. After(op, s, p + Len(x))
  <2>1. Facing(s, p, Wire(op))
    BY <1>8 DEF x
  <2>2. /\ op.kind \in AllKinds /\ op.bits \in Payloads(op.kind)
        /\ op.kind = "value" \/ Whole(op.kind) => \E m \in Nat : p = ByteBits * m
        /\ op.kind = "bits" => s.bits # 0 /\ bitStream
    BY <1>4, <1>9, <1>10
  <2>3. After(op, s, p + Len(Wire(op)))
    BY ONLY <2>1, <2>2, ReadTakes, SizeAssumption
  <2> QED BY <2>3 DEF x
<1> QED BY <1>4, <1>11 DEF op

LEMMA ZeroAt ==
  ASSUME SizeAssumption, NEW s, ReaderIs(s), NEW e, At(s, e), s.bits = 0
  PROVE  Even(e)
<1>1. ~Partial(s.bits)
  BY DEF Partial
<1>2. e = ByteBits * s.b.buffer_read_index /\ s.b.buffer_read_index \in Nat
  BY <1>1 DEF At, ReaderIs
<1> QED BY <1>2 DEF Even

LEMMA LastByte ==
  ASSUME NEW l, NEW n \in Nat,
         \/ l[n+1].kind = "byte" \/ (l[n+1].kind = "bool" /\ ~bitStream)
         \/ l[n+1].kind = "value" /\ ByteLast(l, n)
  PROVE  ByteLast(l, n + 1)
<1>1. CASE l[n+1].kind = "byte" \/ (l[n+1].kind = "bool" /\ ~bitStream)
  <2>1. n + 1 \in 1..n+1 /\ \A j \in (n+1)+1..n+1 : FALSE
    OBVIOUS
  <2> QED BY <1>1, <2>1 DEF ByteLast
<1>2. CASE l[n+1].kind = "value" /\ ByteLast(l, n)
  <2>1. PICK i \in 1..n : /\ l[i].kind = "byte" \/ (l[i].kind = "bool" /\ ~bitStream)
                          /\ \A j \in i+1..n : l[j].kind = "value"
    BY <1>2 DEF ByteLast
  <2>2. i \in 1..n+1 /\ \A j \in i+1..n+1 : j \in i+1..n \/ j = n + 1
    OBVIOUS
  <2> QED BY <1>2, <2>1, <2>2 DEF ByteLast
<1> QED BY <1>1, <1>2

LEMMA ReadMore ==
  ASSUME SizeAssumption, NEW l, NEW v, Written(l, v, TRUE),
         NEW g, NEW s, NEW at, Returned(l, g, s, at),
         s.out = <<>>, s.b.buffer = v.b.buffer, Len(g) < Len(l),
         NEW place, place.buffer = s.b.buffer_read_index
  PROVE  LET op == l[Len(g)+1]
             t == Read(s, op.kind, Len(op.bits))
             u == [byte |-> t.byte, bits |-> t.bits, b |-> t.b, out |-> <<>>]
         IN  Kept(s, t) /\ Returned(l, Append(g, t.out), u, place)
<1> DEFINE n == Len(g)
           i == n + 1
           op == l[i]
           t == Read(s, op.kind, Len(op.bits))
           u == [byte |-> t.byte, bits |-> t.bits, b |-> t.b, out |-> <<>>]
           h == Append(g, t.out)
<1>1. /\ ReaderIs(s) /\ g \in Seq(Seq(Bit))
      /\ \A k \in 1..n : Ends(l, k) <= Room => g[k] = l[k].bits
      /\ Ends(l, n) <= Room => Standing(l, n, s, at)
  BY DEF Returned
<1>2. IsLog(l) /\ Mixed(l)
  BY DEF Written
<1>3. n \in Nat /\ Len(l) \in Nat
  BY <1>1, <1>2, LenProperties, SentType
<1>4. i \in 1..Len(l) /\ i - 1 = n /\ i # 0
  BY <1>3
<1>5. op.kind \in AllKinds /\ op.bits \in Payloads(op.kind) /\ Len(op.bits) \in Nat
  BY <1>2, <1>4, SentType, AnyPayload
<1>6. Kept(s, t)
  BY <1>1, <1>5, ReadKept
<1> HIDE DEF t
<1>7. ReaderIs(t) /\ t.byte \in Byte /\ t.bits \in 0..ByteBits /\ t.out \in Seq(Bit)
  BY <1>6, ReaderFields DEF Kept
<1>8. u.byte = t.byte /\ u.bits = t.bits /\ u.b = t.b
  OBVIOUS
<1>9. ReaderIs(u)
  <2>1. PICK S : t \in [byte : Byte, bits : 0..ByteBits, b : S, out : Seq(Bit)]
    BY <1>7 DEF ReaderIs
  <2>2. t.b \in S /\ <<>> \in Seq(Bit)
    BY <2>1
  <2>3. u \in [byte : Byte, bits : 0..ByteBits, b : S, out : Seq(Bit)]
    BY <1>7, <2>2
  <2> HIDE DEF u
  <2> QED BY <1>7, <1>8, <2>3 DEF ReaderIs
<1> HIDE DEF u
<1>10. /\ h \in Seq(Seq(Bit)) /\ Len(h) = i /\ h[i] = t.out
       /\ \A k \in 1..n : h[k] = g[k]
  BY <1>1, <1>3, <1>7, AppendProperties
<1>11. /\ Ends(l, i) = Ends(l, n) + Len(Wire(op)) /\ Ends(l, n) \in Nat
       /\ Len(Wire(op)) \in Nat
  BY <1>2, <1>4, <1>5, SentType, SentIs
<1> HIDE DEF h, i, op
<1>12. ASSUME Ends(l, i) <= Room
       PROVE  t.out = op.bits /\ Standing(l, i, u, place)
  <2>1. Ends(l, n) <= Room
    BY <1>11, <1>12 DEF Room, SizeAssumption
  <2>2. Standing(l, n, s, at)
    BY <1>1, <2>1
  <2>3. At(s, Ends(l, n)) /\ (s.bits = 0 => AfterByteAt(l, n))
    BY <2>2 DEF Standing
  <2>4. /\ op.kind = "value" \/ Whole(op.kind) => Even(Ends(l, n))
        /\ op.kind = "bits" => ~AfterByteAt(l, n)
    BY <1>2, <1>4 DEF Mixed, op
  <2>5. /\ t.out = op.bits /\ At(t, Ends(l, i))
        /\ t.bits = 0 => \/ op.kind = "byte" \/ (op.kind = "bool" /\ ~bitStream)
                         \/ op.kind = "value" /\ s.bits = 0
    <3>1. At(s, Ends(l, i - 1)) /\ (l[i].kind = "bits" => s.bits # 0)
      BY <1>4, <2>3, <2>4 DEF op
    <3>2. Before(l, v, i, s)
      BY <1>1, <1>4, <1>12, <3>1 DEF Before
    <3>3. After(l[i], s, Ends(l, i))
      BY ONLY <3>2, Reads, SizeAssumption
    <3> QED BY <3>3 DEF t, op, After
  <2>6. At(u, Ends(l, i))
    BY <1>8, <2>5 DEF At
  <2>7. ASSUME u.bits = 0 PROVE AfterByteAt(l, i)
    <3>1. Even(Ends(l, i))
      BY <1>9, <2>6, <2>7, ZeroAt
    <3>2. ByteLast(l, n) \/ op.kind # "value"
      BY <1>8, <2>3, <2>5, <2>7 DEF AfterByteAt
    <3>3. ByteLast(l, n + 1)
      BY <1>3, <1>8, <2>5, <2>7, <3>2, LastByte DEF op, i
    <3> QED BY <3>1, <3>3 DEF AfterByteAt, i
  <2>8. ASSUME Whole(op.kind) PROVE ByteBits * place.buffer = Ends(l, n)
    <3>1. PICK m \in Nat : Ends(l, n) = ByteBits * m
      BY <2>4, <2>8 DEF Even
    <3>2. At(s, ByteBits * m)
      BY <2>3, <3>1
    <3>3. s.b.buffer_read_index = m
      BY <1>1, <3>2, AtByte
    <3> QED BY <3>1, <3>3
  <2> QED BY <1>4, <2>5, <2>6, <2>7, <2>8 DEF Standing, op
<1>13. ASSUME NEW k \in 1..i, Ends(l, k) <= Room
       PROVE  h[k] = l[k].bits
  <2>1. k \in 1..n \/ k = i
    BY <1>3 DEF i
  <2>2. CASE k \in 1..n
    BY <1>1, <1>10, <1>13, <2>2
  <2>3. CASE k = i
    BY <1>10, <1>12, <1>13, <2>3 DEF op
  <2> QED BY <2>1, <2>2, <2>3
<1>14. place.buffer \in Nat
  BY <1>1 DEF ReaderIs
<1>15. Len(h) <= Len(l)
  BY <1>4, <1>10
<1>16. Returned(l, h, u, place)
  BY <1>9, <1>10, <1>12, <1>13, <1>14, <1>15 DEF Returned
<1> QED BY <1>6, <1>16 DEF h, u, t, op, i

LEMMA ReadOver ==
  ASSUME SizeAssumption, NEW l, NEW v, Written(l, v, TRUE),
         NEW g, NEW s, NEW at, Returned(l, g, s, at),
         s.out = <<>>, s.b.buffer = v.b.buffer, g # <<>>, Whole(l[Len(g)].kind)
  PROVE  LET op == l[Len(g)]
             back == [s EXCEPT !.b = setReadPosition(@, at)]
             t == Read(back, op.kind, Len(op.bits))
             u == [byte |-> t.byte, bits |-> t.bits, b |-> t.b, out |-> <<>>]
         IN  /\ t.b.buffer = s.b.buffer /\ t.b.buffer_write_index = s.b.buffer_write_index
             /\ IsRecord(t.b)
             /\ Returned(l, [g EXCEPT ![Len(g)] = t.out], u, at)
<1> DEFINE n == Len(g)
           op == l[n]
           b0 == setReadPosition(s.b, at)
           back == [s EXCEPT !.b = setReadPosition(@, at)]
           t == Read(back, op.kind, Len(op.bits))
           u == [byte |-> t.byte, bits |-> t.bits, b |-> t.b, out |-> <<>>]
           h == [g EXCEPT ![n] = t.out]
<1>1. /\ ReaderIs(s) /\ g \in Seq(Seq(Bit)) /\ n <= Len(l) /\ at.buffer \in Nat
      /\ \A k \in 1..n : Ends(l, k) <= Room => g[k] = l[k].bits
      /\ Ends(l, n) <= Room => Standing(l, n, s, at)
  BY DEF Returned
<1>2. IsLog(l) /\ Mixed(l)
  BY DEF Written
<1>3. n \in Nat /\ Len(l) \in Nat /\ n # 0
  <2>1. n \in Nat /\ (n = 0 => g = <<>>)
    BY <1>1, LenProperties, EmptySeq
  <2> QED BY <1>2, <2>1, SentType
<1>4. n \in 1..Len(l) /\ n \in 1..n
  BY <1>1, <1>3
<1>5. op.kind \in AllKinds /\ op.bits \in Payloads(op.kind) /\ Len(op.bits) \in Nat
  BY <1>2, <1>4, SentType, AnyPayload
(* Back where the call began. *)
<1>6. /\ IsRecord(b0) /\ b0.buffer = s.b.buffer
      /\ b0.buffer_read_index = at.buffer
      /\ b0.buffer_write_index = s.b.buffer_write_index
  <2>1. IsRecord(s.b)
    BY <1>1 DEF ReaderIs
  <2> QED BY <2>1, GoneTo
<1> HIDE DEF b0
<1>7. /\ ReaderIs(back) /\ back.b = b0 /\ back.bits = s.bits /\ back.byte = s.byte
      /\ back.out = <<>>
  <2>1. PICK S : s \in [byte : Byte, bits : 0..ByteBits, b : S, out : Seq(Bit)]
    BY <1>1 DEF ReaderIs
  <2> DEFINE R == S \cup {b0}
             new == [s EXCEPT !.b = b0]
  <2>2. s \in [byte : Byte, bits : 0..ByteBits, b : R, out : Seq(Bit)] /\ b0 \in R
    BY <2>1
  <2> HIDE DEF R
  <2>3. /\ new \in [byte : Byte, bits : 0..ByteBits, b : R, out : Seq(Bit)]
        /\ new.b = b0 /\ new.bits = s.bits /\ new.byte = s.byte /\ new.out = s.out
    BY <2>2
  <2>4. back = new
    BY DEF b0
  <2> HIDE DEF new, back
  <2>5. s.b.buffer \in Seq(Byte)
    BY <1>1 DEF ReaderIs
  <2> QED BY <1>1, <1>6, <2>3, <2>4, <2>5 DEF ReaderIs
<1> HIDE DEF back
<1>8. Kept(back, t)
  BY <1>5, <1>7, ReadKept
<1> HIDE DEF t
<1>9. ReaderIs(t) /\ t.byte \in Byte /\ t.bits \in 0..ByteBits /\ t.out \in Seq(Bit)
  BY <1>8, ReaderFields DEF Kept
<1>10. u.byte = t.byte /\ u.bits = t.bits /\ u.b = t.b
  OBVIOUS
<1>11. ReaderIs(u)
  <2>1. PICK S : t \in [byte : Byte, bits : 0..ByteBits, b : S, out : Seq(Bit)]
    BY <1>9 DEF ReaderIs
  <2>2. t.b \in S /\ <<>> \in Seq(Bit)
    BY <2>1
  <2>3. u \in [byte : Byte, bits : 0..ByteBits, b : S, out : Seq(Bit)]
    BY <1>9, <2>2
  <2> HIDE DEF u
  <2> QED BY <1>9, <1>10, <2>3 DEF ReaderIs
<1> HIDE DEF u
<1>12. /\ h \in Seq(Seq(Bit)) /\ Len(h) = n /\ h[n] = t.out
       /\ \A k \in 1..n : k # n => h[k] = g[k]
  BY <1>1, <1>4, <1>9, ExceptSeq
<1>13. /\ Ends(l, n) = Ends(l, n - 1) + Len(Wire(op)) /\ Ends(l, n - 1) \in Nat
       /\ Len(Wire(op)) \in Nat
  BY <1>2, <1>4, <1>5, SentType, SentIs
<1>14. op.kind # "bits" /\ op.kind \in {"value", "byte", "bool"} /\ ~bitStream
  BY DEF Whole
<1> HIDE DEF h, op, n
<1>15. ASSUME Ends(l, n) <= Room
       PROVE  t.out = op.bits /\ Standing(l, n, u, at)
  <2>1. Standing(l, n, s, at)
    BY <1>1, <1>15
  <2>2. /\ At(s, Ends(l, n)) /\ (s.bits = 0 => AfterByteAt(l, n))
        /\ ByteBits * at.buffer = Ends(l, n - 1)
    BY <1>3, <2>1 DEF Standing, n
  <2>3. Even(Ends(l, n))
    <3>1. Len(Wire(op)) = ByteBits * Bytes(op.kind) /\ Bytes(op.kind) \in Nat
      BY <1>5, SentIs DEF Bytes, op, n
    <3>2. PICK a \in Nat, k \in Nat : a = at.buffer /\ k = Bytes(op.kind)
      BY <1>1, <3>1
    <3>3. a + k \in Nat
      OBVIOUS
    <3>4. ByteBits * (a + k) = ByteBits * a + ByteBits * k
      BY Multiples
    <3>5. Ends(l, n) = ByteBits * a + ByteBits * k
      BY <1>13, <2>2, <3>1, <3>2
    <3>6. Ends(l, n) = ByteBits * (a + k)
      BY <3>4, <3>5
    <3> QED BY <3>3, <3>6 DEF Even
  <2>4. s.bits \in NoneOpen
    <3>1. PICK m \in Nat : Ends(l, n) = ByteBits * m
      BY <2>3 DEF Even
    <3>2. At(s, ByteBits * m)
      BY <2>2, <3>1
    <3> QED BY <1>1, <3>2, AtByte
  <2>5. At(back, Ends(l, n - 1))
    BY <1>6, <1>7, <2>2, <2>4 DEF At
  <2>6. Before(l, v, n, back)
    BY <1>4, <1>6, <1>7, <1>14, <1>15, <2>5 DEF Before, op, n
  <2>7. After(l[n], back, Ends(l, n))
    BY <2>6, Reads
  <2>8. /\ t.out = op.bits /\ At(t, Ends(l, n))
        /\ t.bits = 0 => \/ op.kind = "byte" \/ (op.kind = "bool" /\ ~bitStream)
                         \/ op.kind = "value" /\ s.bits = 0
    BY <1>7, <2>7 DEF After, t, op, n
  <2>9. At(u, Ends(l, n))
    BY <1>10, <2>8 DEF At
  <2>10. ASSUME u.bits = 0 PROVE AfterByteAt(l, n)
    <3>1. CASE op.kind = "value" /\ s.bits = 0
      BY <2>2, <3>1
    <3>2. CASE op.kind = "byte" \/ (op.kind = "bool" /\ ~bitStream)
      <4>1. PICK k \in Nat : k + 1 = n
        <5>1. n - 1 \in Nat /\ (n - 1) + 1 = n
          BY <1>3
        <5> QED BY <5>1
      <4>2. ByteLast(l, k + 1)
        BY <3>2, <4>1, LastByte DEF op
      <4> QED BY <2>3, <4>1, <4>2 DEF AfterByteAt
    <3> QED BY <1>10, <2>8, <2>10, <3>1, <3>2
  <2> QED BY <2>2, <2>8, <2>9, <2>10 DEF Standing
<1>16. ASSUME NEW k \in 1..n, Ends(l, k) <= Room
       PROVE  h[k] = l[k].bits
  <2>1. CASE k # n
    BY <1>1, <1>12, <1>16, <2>1
  <2>2. CASE k = n
    BY <1>12, <1>15, <1>16, <2>2 DEF op
  <2> QED BY <2>1, <2>2
<1>17. Len(h) <= Len(l)
  BY <1>1, <1>12
<1>18. Returned(l, h, u, at)
  BY <1>1, <1>11, <1>12, <1>15, <1>16, <1>17 DEF Returned
<1>19. /\ t.b.buffer = s.b.buffer /\ t.b.buffer_write_index = s.b.buffer_write_index
       /\ IsRecord(t.b)
  BY <1>6, <1>7, <1>8 DEF Kept, ReaderIs
<1> QED BY <1>18, <1>19 DEF h, u, t, op, n, back

-----------------------------------------------------------------------------
(* The invariant of the program.                                           *)
BitsInv ==
  /\ Written(log, Writer, reading)
  /\ Returned(log, got, Reader, start)
  /\ ~reading => got = <<>> /\ r.bits = ByteBits /\ store.buffer_read_index = 0

(* The flag never changes, so what is true of the next state is true then. *)
LEMMA Later ==
  ASSUME bitStream' = bitStream
  PROVE  /\ Written(log', Writer', reading') => Written(log, Writer, reading)'
         /\ Returned(log', got', Reader', start') => Returned(log, got, Reader, start)'
<1>1. Sent(log)' = Sent(log')
  BY DEF Sent, Wire
<1>2. Holds(Out(Writer'), log') => Holds(Out(Writer), log)'
  BY <1>1 DEF Holds, Ends, Wire
<1>3. Mixed(log') => Mixed(log)'
  BY <1>1 DEF Mixed, Ends, Whole, AfterByteAt, ByteLast
<1>4. Placed(log', Len(Writer'.b.buffer)) => Placed(log, Len(Writer.b.buffer))'
  BY <1>1 DEF Placed, PlacedAt, Ends, Whole
<1>5. Exactly(log', Writer') => Exactly(log, Writer)'
  BY <1>1 DEF Exactly, Ends
<1>6. Written(log', Writer', reading') => Written(log, Writer, reading)'
  BY <1>1, <1>2, <1>3, <1>4, <1>5 DEF Written, Ends
<1>7. Standing(log', Len(got'), Reader', start') => Standing(log, Len(got), Reader, start)'
  BY <1>1 DEF Standing, Ends, Whole, AfterByteAt, ByteLast
<1>8. Returned(log', got', Reader', start') => Returned(log, got, Reader, start)'
  BY <1>1, <1>7 DEF Returned, Ends
<1> QED BY <1>6, <1>8

LEMMA WriterThen ==
  ASSUME NEW s, WriterNow(s), s = [byte |-> s.byte, bits |-> s.bits, b |-> s.b]
  PROVE  Writer' = s
<1>1. w' = [byte |-> s.byte, bits |-> s.bits] /\ store' = s.b
  BY DEF WriterNow
<1>2. Writer' = [byte |-> w'.byte, bits |-> w'.bits, b |-> store']
  BY DEF Writer
<1>3. Writer' = [byte |-> s.byte, bits |-> s.bits, b |-> s.b]
  BY <1>1, <1>2
<1> QED BY <1>3

LEMMA WriterSame ==
  ASSUME NEW l, NEW s, NEW done, Written(l, s, done)
  PROVE  s = [byte |-> s.byte, bits |-> s.bits, b |-> s.b] /\ IsRecord(s.b)
         /\ s.b.buffer \in Seq(Byte) /\ IsLog(l)
BY DEF Written, WriterIs, StoreIs

(* While nothing was read, the reader is at the beginning of any buffer.   *)
LEMMA Unread ==
  ASSUME SizeAssumption, NEW l, NEW s, NEW done, Written(l, s, done),
         s.b.buffer_read_index = 0, r.byte \in Byte, r.bits = ByteBits,
         start.buffer \in Nat
  PROVE  Returned(l, <<>>, [byte |-> r.byte, bits |-> r.bits, b |-> s.b, out |-> <<>>], start)
<1> DEFINE u == [byte |-> r.byte, bits |-> r.bits, b |-> s.b, out |-> <<>>]
<1>1. IsRecord(s.b) /\ s.b.buffer \in Seq(Byte) /\ IsLog(l)
  BY WriterSame
<1>2. u.bits = ByteBits /\ u.b = s.b /\ u.byte = r.byte /\ u.out = <<>>
  OBVIOUS
<1>3. \E S : u \in [byte : Byte, bits : 0..ByteBits, b : S, out : Seq(Bit)]
  <2> DEFINE S == {s.b}
  <2>1. s.b \in S /\ r.bits \in 0..ByteBits /\ <<>> \in Seq(Bit)
    BY DEF SizeAssumption
  <2> HIDE DEF S
  <2>2. u \in [byte : Byte, bits : 0..ByteBits, b : S, out : Seq(Bit)]
    BY <2>1
  <2> QED BY <2>2
<1> HIDE DEF u
<1>4. ReaderIs(u)
  BY <1>1, <1>2, <1>3 DEF ReaderIs
<1>5. Returned(l, <<>>, u, start)
  BY <1>1, <1>2, <1>4, NothingReturned
<1> QED BY <1>5 DEF u

LEMMA ReaderIsNow ==
  ASSUME NEW l, NEW g, NEW at, Returned(l, g, Reader, at)
  PROVE  r.byte \in Byte /\ r.bits \in 0..ByteBits /\ at.buffer \in Nat
         /\ store.buffer_read_index \in Nat
<1>1. ReaderIs(Reader) /\ at.buffer \in Nat
  BY DEF Returned
<1>2. Reader.byte = r.byte /\ Reader.bits = r.bits /\ Reader.b = store
  BY DEF Reader
<1>3. Reader.byte \in Byte /\ Reader.bits \in 0..ByteBits
  BY <1>1, ReaderFields
<1>4. Reader.b.buffer_read_index \in Nat
  BY <1>1 DEF ReaderIs
<1> QED BY <1>1, <1>2, <1>3, <1>4

(* A step of the writer takes the invariant on.                            *)
LEMMA WritingOn ==
  ASSUME SizeAssumption, BitsInv, ~reading, NEW s, NEW done, Written(log', s, done),
         s.b.buffer_read_index = store.buffer_read_index, WriterNow(s),
         reading' <=> done, bitStream' = bitStream, UNCHANGED <<r, start, got>>
  PROVE  BitsInv'
<1>1. s = [byte |-> s.byte, bits |-> s.bits, b |-> s.b]
  BY WriterSame
<1>2. Writer' = s /\ store' = s.b
  BY <1>1, WriterThen DEF WriterNow
<1>3. Written(log', Writer', reading')
  <2>1. Written(log', s, reading')
    BY DEF Written
  <2> QED BY <1>2, <2>1
<1>4. /\ got = <<>> /\ r.bits = ByteBits /\ store.buffer_read_index = 0
      /\ Returned(log, got, Reader, start)
  BY DEF BitsInv
<1>5. r.byte \in Byte /\ start.buffer \in Nat
  BY <1>4, ReaderIsNow
<1>6. Returned(log', <<>>, [byte |-> r.byte, bits |-> r.bits, b |-> s.b, out |-> <<>>],
               start)
  BY <1>4, <1>5, Unread
<1>7. Reader' = [byte |-> r.byte, bits |-> r.bits, b |-> s.b, out |-> <<>>]
  <2>1. Reader' = [byte |-> r'.byte, bits |-> r'.bits, b |-> store', out |-> <<>>]
    BY DEF Reader
  <2> QED BY <1>2, <2>1
<1>8. got' = <<>> /\ start' = start /\ r'.bits = ByteBits
      /\ store'.buffer_read_index = 0
  BY <1>2, <1>4
<1>9. Returned(log', got', Reader', start')
  BY <1>6, <1>7, <1>8
<1>10. Written(log, Writer, reading)' /\ Returned(log, got, Reader, start)'
  BY <1>3, <1>9, Later
<1> QED BY <1>8, <1>10 DEF BitsInv

LEMMA WriterFields ==
  Writer.byte = w.byte /\ Writer.bits = w.bits /\ Writer.b = store
BY DEF Writer

LEMMA CallOn ==
  ASSUME SizeAssumption, FlagAssumption, BitsInv,
         NEW kind \in Kinds, NEW bits \in Payloads(kind), Call(kind, bits)
  PROVE  BitsInv'
<1> DEFINE op == [kind |-> kind, bits |-> bits, at |-> getWritePosition(store)]
           s == Write(Writer, kind, bits)
<1>1. /\ ~reading /\ MayMix(kind) /\ WriterNow(s) /\ log' = Append(log, op)
      /\ reading' = reading /\ bitStream' = bitStream /\ UNCHANGED <<r, start, got>>
  BY DEF Call, progress
<1>2. Written(log, Writer, FALSE)
  BY <1>1 DEF BitsInv, Written
<1>3. /\ op = [kind |-> op.kind, bits |-> op.bits, at |-> op.at]
      /\ op.kind = kind /\ op.bits = bits /\ op.at.buffer = store.buffer_write_index
      /\ kind \in AllKinds
  BY DEF getWritePosition, FlagAssumption
<1> HIDE DEF op
<1>4. /\ kind = "value" \/ Whole(kind) => Writer.bits = 0
      /\ kind = "bits" => bitStream /\ ~(Writer.bits = 0 /\ ByteLast(log, Len(log)))
  <2>1. kind = "value" \/ Whole(kind) => Aligned
    BY <1>1 DEF MayMix, Whole
  <2>2. kind = "bits" => bitStream /\ ~AfterByte
    BY <1>1 DEF MayMix
  <2>3. AfterByte <=> Aligned /\ ByteLast(log, Len(log))
    BY DEF AfterByte, ByteLast
  <2> QED BY <2>1, <2>2, <2>3, WriterFields DEF Aligned
<1>5. Written(Append(log, op), s, FALSE) /\ s.b.buffer_read_index = store.buffer_read_index
  <2>1. PICK l, v : l = log /\ v = Writer
    OBVIOUS
  <2>2. LET t == Write(v, op.kind, op.bits)
        IN  /\ Written(Append(l, op), t, FALSE)
            /\ t.b.buffer_read_index = v.b.buffer_read_index
    <3>1. /\ Written(l, v, FALSE)
          /\ op = [kind |-> op.kind, bits |-> op.bits, at |-> op.at]
          /\ op.kind \in AllKinds /\ op.bits \in Payloads(op.kind)
          /\ op.at.buffer = v.b.buffer_write_index
          /\ op.kind = "value" \/ Whole(op.kind) => v.bits = 0
          /\ op.kind = "bits" => bitStream /\ ~(v.bits = 0 /\ ByteLast(l, Len(l)))
      BY <1>2, <1>3, <1>4, <2>1, WriterFields
    <3> QED BY ONLY <3>1, Called, SizeAssumption
  <2> QED BY <1>3, <2>1, <2>2, WriterFields
<1> HIDE DEF s
<1>6. Written(log', s, FALSE) /\ (reading' <=> FALSE)
  BY <1>1, <1>5
<1> QED BY <1>1, <1>5, <1>6, WritingOn

LEMMA PatchOn ==
  ASSUME SizeAssumption, BitsInv, NEW i, Patch(i)
  PROVE  BitsInv'
<1> DEFINE back == [Writer EXCEPT !.b = setWritePosition(@, log[i].at)]
           over == Write(back, log[i].kind, Flipped(log[i].bits))
           s == [over EXCEPT !.b = setWritePosition(@, getWritePosition(store))]
           m == [log EXCEPT ![i].bits = Flipped(@)]
<1>1. /\ ~reading /\ w.bits = 0 /\ i \in 1..Len(log) /\ Whole(log[i].kind)
      /\ WriterNow(s) /\ log' = m
      /\ reading' = reading /\ bitStream' = bitStream /\ UNCHANGED <<r, start, got>>
  BY DEF Patch, progress, Aligned
<1>2. Written(log, Writer, FALSE)
  BY <1>1 DEF BitsInv, Written
<1>3. Written(m, s, FALSE) /\ s.b.buffer_read_index = store.buffer_read_index
  <2>1. PICK l, v, place : l = log /\ v = Writer /\ place = getWritePosition(store)
    OBVIOUS
  <2>2. /\ Written(l, v, FALSE) /\ v.bits = 0 /\ i \in 1..Len(l) /\ Whole(l[i].kind)
        /\ place.buffer = v.b.buffer_write_index
    BY <1>1, <1>2, <2>1, WriterFields DEF getWritePosition
  <2>3. /\ Written(PatchedLog(l, i), PatchedBy(v, l, i, place), FALSE)
        /\ SameRead(PatchedBy(v, l, i, place), v)
    <3>1. Patchable(l, v, i, place)
      BY ONLY <2>2 DEF Patchable
    <3> QED BY ONLY <3>1, Patched, SizeAssumption
  <2>4. m = PatchedLog(l, i) /\ s = PatchedBy(v, l, i, place)
    BY <2>1 DEF PatchedLog, PatchedBy
  <2> QED BY <2>1, <2>3, <2>4, WriterFields DEF SameRead
<1> HIDE DEF s, m
<1>4. Written(log', s, FALSE) /\ (reading' <=> FALSE)
  BY <1>1, <1>3
<1> QED BY <1>1, <1>3, <1>4, WritingOn

LEMMA HandOverOn ==
  ASSUME SizeAssumption, BitsInv, HandOver
  PROVE  BitsInv'
<1> DEFINE t == Synchronize(Writer)
           s == [t EXCEPT !.b = getWriteLength(@)]
<1>1. /\ ~reading /\ WriterNow(s) /\ reading' = TRUE /\ log' = log
      /\ bitStream' = bitStream /\ UNCHANGED <<r, start, got>>
  BY DEF HandOver
<1>2. Written(log, Writer, FALSE)
  BY <1>1 DEF BitsInv, Written
<1>3. Written(log, t, TRUE) /\ t.b.buffer_read_index = store.buffer_read_index
  BY <1>2, Synced, WriterFields
<1> HIDE DEF t
<1>4. SameBuffer(t.b, getWriteLength(t.b))
  BY <1>3, WriterSame, LengthKeepsBuffer
<1>5. PICK c : c = getWriteLength(t.b)
  OBVIOUS
<1>6. s = [t EXCEPT !.b = c]
  BY <1>5
<1>7. Written(log, s, TRUE) /\ s.b = c
  BY <1>3, <1>4, <1>5, <1>6, SameWritten
<1>8. s.b.buffer_read_index = store.buffer_read_index
  BY <1>3, <1>4, <1>5, <1>7 DEF SameBuffer
<1> HIDE DEF s
<1>9. Written(log', s, TRUE)
  BY <1>1, <1>7
<1>10. reading' <=> TRUE
  BY <1>1
<1> QED BY <1>1, <1>8, <1>9, <1>10, WritingOn

(* The writer is where it was after a step of the reader.                  *)
LEMMA WrittenSame ==
  ASSUME SizeAssumption, NEW l, NEW v, NEW c, Written(l, v, TRUE),
         IsRecord(c), c.buffer = v.b.buffer, c.buffer_write_index = v.b.buffer_write_index
  PROVE  Written(l, [byte |-> v.byte, bits |-> v.bits, b |-> c], TRUE)
<1> DEFINE t == [byte |-> v.byte, bits |-> v.bits, b |-> c]
<1>1. t.byte = v.byte /\ t.bits = v.bits /\ t.b = c
  OBVIOUS
<1>2. t = [byte |-> t.byte, bits |-> t.bits, b |-> t.b]
  OBVIOUS
<1> HIDE DEF t
<1>3. WriterIs(v)
  BY DEF Written
<1>4. WriterIs(t)
  BY <1>1, <1>2, <1>3 DEF WriterIs, StoreIs
<1>5. Out(t) = Out(v)
  BY <1>1 DEF Out
<1>6. Written(l, t, TRUE)
  BY <1>1, <1>4, <1>5 DEF Written
<1> QED BY <1>6 DEF t

(* A step of the reader takes the invariant on.                            *)
LEMMA ReadingOn ==
  ASSUME SizeAssumption, BitsInv, reading, NEW t, ReaderNow(t),
         IsRecord(t.b), t.b.buffer = store.buffer,
         t.b.buffer_write_index = store.buffer_write_index,
         Returned(log, got', [byte |-> t.byte, bits |-> t.bits, b |-> t.b,
                              out |-> <<>>], start'),
         UNCHANGED <<bitStream, log, w, reading>>
  PROVE  BitsInv'
<1>1. r' = [byte |-> t.byte, bits |-> t.bits] /\ store' = t.b
  BY DEF ReaderNow
<1>2. Reader' = [byte |-> t.byte, bits |-> t.bits, b |-> t.b, out |-> <<>>]
  <2>1. Reader' = [byte |-> r'.byte, bits |-> r'.bits, b |-> store', out |-> <<>>]
    BY DEF Reader
  <2> QED BY <1>1, <2>1
<1>3. Writer' = [byte |-> w.byte, bits |-> w.bits, b |-> t.b]
  <2>1. Writer' = [byte |-> w'.byte, bits |-> w'.bits, b |-> store']
    BY DEF Writer
  <2> QED BY <1>1, <2>1
<1>4. Written(log, Writer, TRUE)
  BY DEF BitsInv, Written
<1>5. Written(log, [byte |-> Writer.byte, bits |-> Writer.bits, b |-> t.b], TRUE)
  BY <1>4, WriterFields, WrittenSame
<1>6. Written(log, Writer', TRUE)
  BY <1>3, <1>5, WriterFields
<1>7. Written(log', Writer', reading')
  BY <1>6 DEF Written
<1>8. Returned(log', got', Reader', start')
  BY <1>2
<1>9. Written(log, Writer, reading)' /\ Returned(log, got, Reader, start)'
  BY <1>7, <1>8, Later
<1>10. reading'
  OBVIOUS
<1> QED BY <1>9, <1>10 DEF BitsInv

LEMMA ReaderFieldsNow ==
  /\ Reader.byte = r.byte /\ Reader.bits = r.bits /\ Reader.b = store /\ Reader.out = <<>>
  /\ Writer.b = store
BY DEF Reader, Writer

LEMMA ReadNextOn ==
  ASSUME SizeAssumption, BitsInv, ReadNext
  PROVE  BitsInv'
<1> DEFINE op == log[Len(got)+1]
           t == Read(Reader, op.kind, Len(op.bits))
<1>1. /\ reading /\ Len(got) < Len(log) /\ ReaderNow(t) /\ got' = Append(got, t.out)
      /\ start' = getReadPosition(store) /\ UNCHANGED <<bitStream, log, w, reading>>
  BY DEF ReadNext, writing, progress
<1>2. Written(log, Writer, TRUE) /\ Returned(log, got, Reader, start)
  BY <1>1 DEF BitsInv, Written
<1>3. PICK l, g, v, s, at, place :
        /\ l = log /\ g = got /\ v = Writer /\ s = Reader /\ at = start
        /\ place = getReadPosition(store)
  OBVIOUS
<1>4. /\ Written(l, v, TRUE) /\ Returned(l, g, s, at) /\ s.out = <<>>
      /\ s.b.buffer = v.b.buffer /\ Len(g) < Len(l)
      /\ place.buffer = s.b.buffer_read_index
  BY <1>1, <1>2, <1>3, ReaderFieldsNow DEF getReadPosition
<1>5. LET o == l[Len(g)+1]
          z == Read(s, o.kind, Len(o.bits))
          u == [byte |-> z.byte, bits |-> z.bits, b |-> z.b, out |-> <<>>]
      IN  Kept(s, z) /\ Returned(l, Append(g, z.out), u, place)
  BY ONLY <1>4, ReadMore, SizeAssumption
<1>6. /\ Kept(Reader, t)
      /\ Returned(log, got', [byte |-> t.byte, bits |-> t.bits, b |-> t.b, out |-> <<>>],
                  start')
  BY <1>1, <1>3, <1>5
<1> HIDE DEF t
<1>7. /\ IsRecord(t.b) /\ t.b.buffer = store.buffer
      /\ t.b.buffer_write_index = store.buffer_write_index
  BY <1>6, ReaderFieldsNow DEF Kept, ReaderIs
<1> QED BY <1>1, <1>6, <1>7, ReadingOn

LEMMA ReadAgainOn ==
  ASSUME SizeAssumption, BitsInv, ReadAgain
  PROVE  BitsInv'
<1> DEFINE op == log[Len(got)]
           back == [Reader EXCEPT !.b = setReadPosition(@, start)]
           t == Read(back, op.kind, Len(op.bits))
<1>1. /\ got # <<>> /\ Whole(log[Len(got)].kind) /\ ReaderNow(t)
      /\ got' = [got EXCEPT ![Len(got)] = t.out]
      /\ start' = start /\ UNCHANGED <<bitStream, log, w, reading>>
  BY DEF ReadAgain, writing, progress
<1>2. reading
  BY <1>1 DEF BitsInv
<1>3. Written(log, Writer, TRUE) /\ Returned(log, got, Reader, start)
  BY <1>2 DEF BitsInv, Written
<1>4. PICK l, g, v, s, at :
        l = log /\ g = got /\ v = Writer /\ s = Reader /\ at = start
  OBVIOUS
<1>5. /\ Written(l, v, TRUE) /\ Returned(l, g, s, at) /\ s.out = <<>>
      /\ s.b.buffer = v.b.buffer /\ g # <<>> /\ Whole(l[Len(g)].kind)
  BY <1>1, <1>3, <1>4, ReaderFieldsNow
<1>6. LET o == l[Len(g)]
          a == [s EXCEPT !.b = setReadPosition(@, at)]
          z == Read(a, o.kind, Len(o.bits))
          u == [byte |-> z.byte, bits |-> z.bits, b |-> z.b, out |-> <<>>]
      IN  /\ z.b.buffer = s.b.buffer /\ z.b.buffer_write_index = s.b.buffer_write_index
          /\ IsRecord(z.b)
          /\ Returned(l, [g EXCEPT ![Len(g)] = z.out], u, at)
  BY ONLY <1>5, ReadOver, SizeAssumption
<1>7. /\ t.b.buffer = store.buffer /\ t.b.buffer_write_index = store.buffer_write_index
      /\ IsRecord(t.b)
      /\ Returned(log, got', [byte |-> t.byte, bits |-> t.bits, b |-> t.b, out |-> <<>>],
                  start')
  BY <1>1, <1>4, <1>6, ReaderFieldsNow
<1> HIDE DEF t
<1> QED BY <1>1, <1>2, <1>7, ReadingOn

LEMMA BitsInit ==
  ASSUME SizeAssumption, Init
  PROVE  BitsInv
<1>1. /\ log = <<>> /\ got = <<>> /\ w = [byte |-> Blank, bits |-> 0]
      /\ r = [byte |-> Blank, bits |-> ByteBits] /\ store = NewBackends
      /\ ~reading /\ start = getReadPosition(store)
  BY DEF Init
<1>2. IsRecord(NewBackends)
  <2> DEFINE S == {<<>>, 0, Mem!NewMemory, FALSE, Csb!NewCounting}
  <2>1. <<>> \in S /\ 0 \in S /\ Mem!NewMemory \in S /\ FALSE \in S /\ Csb!NewCounting \in S
    OBVIOUS
  <2> HIDE DEF S
  <2>2. NewBackends \in Records(S)
    BY <2>1 DEF NewBackends, Records
  <2> QED BY <2>2 DEF IsRecord
<1>3. /\ store.buffer = <<>> /\ store.buffer_write_index = 0
      /\ store.buffer_read_index = 0 /\ start.buffer = 0 /\ IsRecord(store)
  BY <1>1, <1>2 DEF NewBackends, getReadPosition
<1>4. Blank \in Byte /\ \A k \in 1..ByteBits : Blank[k] = 0
  BY BlankIs
<1>5. Len(<<>>) = 0 /\ <<>> \in Seq(Byte) /\ 0 <= BufferSize /\ 0 \in 0..ByteBits-1
      /\ ByteBits * 0 = 0 /\ 0 + 1 = 1
  BY DEF SizeAssumption
<1>6. Writer = [byte |-> Blank, bits |-> 0, b |-> store]
  BY <1>1 DEF Writer
<1>7. Writer.byte = Blank /\ Writer.bits = 0 /\ Writer.b = store
  BY <1>6
<1>8. WriterIs(Writer)
  <2>1. StoreIs(store)
    BY <1>3, <1>5 DEF StoreIs
  <2>2. Writer = [byte |-> Writer.byte, bits |-> Writer.bits, b |-> Writer.b]
    BY <1>6, <1>7
  <2>3. \A k \in Writer.bits+1..ByteBits : Writer.byte[k] = 0
    BY <1>4, <1>5, <1>7
  <2> QED BY <1>4, <1>5, <1>7, <2>1, <2>2, <2>3 DEF WriterIs
<1>9. IsLog(<<>>)
  <2>1. \A S : <<>> \in Seq([kind : AllKinds, bits : Seq(Bit), at : S])
    OBVIOUS
  <2>2. \A k \in 1..Len(<<>>) : FALSE
    BY <1>5
  <2> QED BY <2>1, <2>2 DEF IsLog
<1>10. \A k \in 1..Len(log) : FALSE
  BY <1>1, <1>5
<1>11. Ends(log, Len(log)) = 0
  BY <1>1, <1>5, PreOfNone DEF Ends
<1>12. Len(Out(Writer)) = 0
  <2>1. Len(Out(Writer)) = ByteBits * Len(Writer.b.buffer) + Writer.bits
    BY <1>8, WriterOut
  <2>2. Len(Writer.b.buffer) = 0 /\ Writer.bits = 0
    BY <1>3, <1>5, <1>7
  <2> QED BY <1>5, <2>1, <2>2
<1>13. Written(log, Writer, FALSE)
  <2>1. Exactly(log, Writer)
    BY <1>5, <1>7, <1>11, <1>12 DEF Exactly
  <2>2. \A k \in Ends(log, Len(log))+1..Len(Out(Writer)) : FALSE
    BY <1>11, <1>12
  <2>3. Mixed(log) /\ Holds(Out(Writer), log) /\ Placed(log, Len(Writer.b.buffer))
    BY <1>10 DEF Mixed, Holds, Placed
  <2> QED BY <1>1, <1>8, <1>9, <2>1, <2>2, <2>3 DEF Written
<1>14. Written(log, Writer, reading)
  BY <1>1, <1>13 DEF Written
<1>15. r.byte = Blank /\ r.bits = ByteBits
  BY <1>1
<1>16. Returned(log, <<>>, [byte |-> r.byte, bits |-> r.bits, b |-> store, out |-> <<>>],
                start)
  <2>1. start.buffer \in Nat /\ Writer.b.buffer_read_index = 0
    BY <1>3, <1>7
  <2>2. r.byte \in Byte
    BY <1>4, <1>15
  <2>3. Returned(log, <<>>,
                 [byte |-> r.byte, bits |-> r.bits, b |-> Writer.b, out |-> <<>>], start)
    BY <1>13, <1>15, <2>1, <2>2, Unread
  <2> QED BY <1>7, <2>3
<1> QED BY <1>1, <1>3, <1>14, <1>15, <1>16 DEF BitsInv, Reader

(* In every state the writer's bits are those of its calls, the reader is  *)
(* where the next call began, and what was read is what was written.       *)
THEOREM BitsInvariant == Spec => []BitsInv
<1>1. Init => BitsInv
  BY SizeAssumption, BitsInit
<1>2. BitsInv /\ [Next]_vars => BitsInv'
  <2> SUFFICES ASSUME BitsInv, [Next]_vars
               PROVE  BitsInv'
    OBVIOUS
  <2> USE SizeAssumption
  <2>1. ASSUME NEW kind \in Kinds, NEW bits \in Payloads(kind), Call(kind, bits)
        PROVE  BitsInv'
    BY <2>1, FlagAssumption, CallOn
  <2>2. ASSUME NEW i \in 1..MaxOps, Patch(i)
        PROVE  BitsInv'
    BY <2>2, PatchOn
  <2>3. CASE HandOver
    BY <2>3, HandOverOn
  <2>4. CASE ReadNext
    BY <2>4, ReadNextOn
  <2>5. CASE ReadAgain
    BY <2>5, ReadAgainOn
  <2>6. CASE UNCHANGED vars
    <3>1. UNCHANGED <<bitStream, log, w, reading, store, r, start, got>>
      BY <2>6 DEF vars, writing, progress
    <3>2. Writer' = Writer /\ Reader' = Reader
      BY <3>1 DEF Writer, Reader
    <3>3. Written(log', Writer', reading') /\ Returned(log', got', Reader', start')
      BY <3>1, <3>2 DEF BitsInv
    <3>4. Written(log, Writer, reading)' /\ Returned(log, got, Reader, start)'
      BY <3>1, <3>3, Later
    <3> QED BY <3>1, <3>4 DEF BitsInv
  <2> QED BY <2>1, <2>2, <2>3, <2>4, <2>5, <2>6 DEF Next
<1> QED BY <1>1, <1>2, PTL DEF Spec

-----------------------------------------------------------------------------
LEMMA WireUpToIs ==
  ASSUME SizeAssumption, IsLog(log), NEW n \in 0..Len(log)
  PROVE  WireUpTo(n) = Pre(Sent(log), n) /\ (Fits(n) <=> Ends(log, n) <= Room)
<1>1. Len(log) \in Nat /\ \A k \in 1..n : k \in 1..Len(log)
  BY SentType
<1>2. \A k \in 1..n : Sent(log)[k] = Wire(log[k])
  BY <1>1, SentType
<1>3. [k \in 1..n |-> Wire(log[k])] = [k \in 1..n |-> Sent(log)[k]]
  BY <1>2
<1>4. WireUpTo(n) = Pre(Sent(log), n)
  BY <1>3 DEF WireUpTo, Pre
<1> QED BY <1>4 DEF Fits, Ends, End, Room

(* All that was read back was what had been written.                       *)
LEMMA ReadBack ==
  ASSUME SizeAssumption, BitsInv
  PROVE  RoundTrip
<1>1. /\ IsLog(log) /\ Len(got) <= Len(log) /\ Len(got) \in Nat
      /\ \A i \in 1..Len(got) : Ends(log, i) <= Room => got[i] = log[i].bits
  BY LenProperties DEF BitsInv, Written, Returned
<1>2. Len(log) \in Nat
  BY <1>1, SentType
<1>3. ASSUME NEW i \in 1..Len(got), Fits(i)
      PROVE  got[i] = log[i].bits
  <2>1. i \in 0..Len(log)
    BY <1>1, <1>2
  <2>2. Ends(log, i) <= Room
    BY <1>1, <1>3, <2>1, WireUpToIs
  <2> QED BY <1>1, <2>2
<1> QED BY <1>3 DEF RoundTrip

LEMMA AllThere ==
  ASSUME SizeAssumption, BitsInv
  PROVE  NothingLost
<1> DEFINE n == Len(log)
           o == Out(Writer)
           all == WireUpTo(n)
           T == Ends(log, n)
<1> SUFFICES ASSUME Fits(n)
             PROVE  SubSeq(o, 1, Len(all)) = all /\ \A k \in Len(all)+1..Len(o) : o[k] = 0
  BY WriterFields DEF NothingLost, Out
<1>1. /\ IsLog(log) /\ WriterIs(Writer) /\ Holds(o, log)
      /\ T <= Room => \A k \in T+1..Len(o) : o[k] = 0
  BY DEF BitsInv, Written
<1>2. n \in Nat /\ n \in 0..n /\ Sent(log) \in Seq(Seq(Bit)) /\ Len(Sent(log)) = n
      /\ T \in Nat
  <2>1. n \in Nat /\ Sent(log) \in Seq(Seq(Bit)) /\ Len(Sent(log)) = n
    BY <1>1, SentType
  <2>2. n \in 0..n
    BY <2>1
  <2> QED BY <1>1, <2>1, <2>2, SentType
<1>3. all = Pre(Sent(log), n) /\ T <= Room
  BY <1>1, <1>2, WireUpToIs
<1>4. all \in Seq(Bit) /\ Len(all) = T
  BY <1>2, <1>3, PreType DEF Ends, End
<1>5. o \in Seq(Bit) /\ Len(o) \in Nat
  BY <1>1, WriterOut
<1> HIDE DEF o, all, T, n
<1>6. T <= Len(o)
  <2>1. CASE n = 0
    <3>1. T = 0
      BY <2>1, PreOfNone DEF T, Ends
    <3> QED BY <1>5, <3>1
  <2>2. CASE n # 0
    <3>1. n \in 1..n
      BY <1>2, <2>2
    <3> QED BY <1>1, <1>3, <3>1 DEF Holds, T, n
  <2> QED BY <2>1, <2>2
<1>7. ASSUME NEW p \in 1..T PROVE o[p] = all[p]
  <2>1. PICK i \in 1..n : \E k \in 1..Len(Sent(log)[i]) : p = End(Sent(log), i - 1) + k
    <3>1. p \in 1..End(Sent(log), n) /\ n \in 0..Len(Sent(log))
      BY <1>2 DEF T, Ends
    <3> QED BY <1>2, <3>1, PreCovers
  <2>2. PICK k \in 1..Len(Sent(log)[i]) : p = End(Sent(log), i - 1) + k
    BY <2>1
  <2>3. i \in 1..Len(log) /\ i \in 1..Len(Sent(log)) /\ n \in i..Len(Sent(log))
        /\ i \in 0..Len(log) /\ n \in i..Len(log)
    BY <1>2 DEF n
  <2>4. Pre(Sent(log), n)[End(Sent(log), i - 1) + k] = Sent(log)[i][k]
    BY <1>2, <2>3, PreAt
  <2>5. Sent(log)[i] = Wire(log[i])
    BY <1>1, <2>3, SentType
  <2>6. Ends(log, i) <= T /\ Ends(log, i) \in Nat
    BY <1>1, <2>3, EndsGrow, SentType DEF T
  <2>7. Ends(log, i) <= Room
    BY <1>2, <1>3, <2>6 DEF Room, SizeAssumption
  <2>8. o[Ends(log, i - 1) + k] = Wire(log[i])[k]
    BY <1>1, <2>3, <2>5, <2>7 DEF Holds
  <2> QED BY <1>3, <2>2, <2>4, <2>5, <2>8 DEF Ends
<1>8. SubSeq(o, 1, T) = all
  <2> DEFINE front == SubSeq(o, 1, T)
  <2>1. T \in 0..Len(o)
    BY <1>2, <1>5, <1>6
  <2>2. front \in Seq(Bit) /\ Len(front) = T /\ \A p \in 1..T : front[p] = o[p]
    BY <1>5, <2>1, FrontIs
  <2> HIDE DEF front
  <2>3. \A p \in 1..T : front[p] = all[p]
    BY <1>7, <2>2
  <2>4. front = all
    <3>1. front = [p \in 1..T |-> front[p]] /\ all = [p \in 1..T |-> all[p]]
      BY <1>4, <2>2, LenProperties
    <3>2. [p \in 1..T |-> front[p]] = [p \in 1..T |-> all[p]]
      BY <2>3
    <3> QED BY <3>1, <3>2
  <2> QED BY <2>4 DEF front
<1> QED BY <1>1, <1>3, <1>4, <1>8

(* While all calls fit in the buffer, it holds the bits of every call in   *)
(* order and then only zeros, with and without bitStream, whatever calls a *)
(* program mixes, also after a call was replaced.                          *)
THEOREM BitsNothingLost == Spec => []NothingLost
<1>1. BitsInv => NothingLost
  BY SizeAssumption, AllThere
<1> QED BY <1>1, BitsInvariant, PTL

(* Every reading call of a call that fitted returns the bits written, also *)
(* when read again, and when later calls ran over the end of the buffer.   *)
THEOREM BitsRoundTrip == Spec => []RoundTrip
<1>1. BitsInv => RoundTrip
  BY SizeAssumption, ReadBack
<1> QED BY <1>1, BitsInvariant, PTL
==============================================================================
