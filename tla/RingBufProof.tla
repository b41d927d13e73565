----------------------------- MODULE RingBufProof -----------------------------
(***************************************************************************)
(* Proofs about RingBuf for a ring of any size and calls of any length.    *)
(***************************************************************************)
EXTENDS RingBuf, SequenceTheorems, TLAPS

-----------------------------------------------------------------------------
(* The arithmetic of the ring, linearised: every % of the code wraps at    *)
(* most once.                                                              *)

(* Reduction modulo Size of a number below 2 * Size. *)
Wrap(x) == IF x < Size THEN x ELSE x - Size

(* How many bytes lie between two indices. *)
Used(h, t) == IF h >= t THEN h - t ELSE h + Size - t

(* The % of write_internal and read_internal is Wrap. *)
LEMMA ModWrap == ASSUME NEW x \in Nat, x < 2 * Size
                 PROVE  x % Size = Wrap(x)
<1>1. CASE x < Size
  BY <1>1, SizeAssumption DEF Wrap
<1>2. CASE x >= Size
  BY <1>2, SizeAssumption DEF Wrap
<1> QED BY <1>1, <1>2, SizeAssumption

(* What available_read and available_write compute. *)
LEMMA Available ==
  ASSUME NEW h \in Index, NEW t \in Index
  PROVE  /\ (h + Size - t) % Size = Used(h, t)
         /\ (Size - 1 + t - h) % Size = Size - 1 - Used(h, t)
         /\ Used(h, t) \in Index
<1>1. /\ h + Size - t \in Nat /\ h + Size - t < 2 * Size
      /\ Size - 1 + t - h \in Nat /\ Size - 1 + t - h < 2 * Size
  BY SizeAssumption DEF Index
<1>2. /\ (h + Size - t) % Size = Wrap(h + Size - t)
      /\ (Size - 1 + t - h) % Size = Wrap(Size - 1 + t - h)
  BY <1>1, ModWrap
<1> QED BY <1>2, SizeAssumption DEF Index, Wrap, Used

(* The two memcpys of a chunk walk the ring from `from`, wrapping once. *)
LEMMA CopyIndexWrap ==
  ASSUME NEW from \in Index, NEW chunk \in Nat, chunk < Size,
         NEW i \in Nat, i < chunk
  PROVE  /\ CopyIndex(from, chunk, i) = Wrap(from + i)
         /\ Wrap(from + i) \in Index
BY SizeAssumption DEF Index, Wrap, CopyIndex, Smaller

-----------------------------------------------------------------------------
(* RingInv without %, its parts restated for linear arithmetic.            *)

Fill == Used(head, tail)

LinIndices == sent - Released = Fill

LinChunks ==
  /\ wcopied <= wchunk /\ wchunk <= Size - 1 - Fill
  /\ rcopied <= rchunk /\ rchunk <= Fill
  /\ wpc # "copy" => wchunk = 0 /\ wcopied = 0
  /\ rpc \notin {"copy", "seek"} => rchunk = 0 /\ rcopied = 0
  /\ rpc = "seek" => rcopied = rchunk /\ read_bytes <= rn
  /\ written + wchunk <= wn
  /\ rpc = "seek" \/ read_bytes + rchunk <= rn
  /\ rcopied <= Len(received)

LinContents ==
  /\ \A j \in Nat : j < Fill => cells[Wrap(tail + j)] = Released + j + 1
  /\ \A i \in Nat : i < wcopied => cells[Wrap(head + i)] = sent + i + 1

LinInv == TypeOK /\ LinIndices /\ LinChunks /\ LinContents /\ Fifo

(* The two forms of the invariant are the same predicate. *)
LEMMA RingInvLin == RingInv <=> LinInv
<1> SUFFICES ASSUME TypeOK
             PROVE  RingInv <=> LinInv
  BY DEF RingInv, LinInv
<1>1. /\ available_read = Fill /\ available_write = Size - 1 - Fill
      /\ Fill \in Index
  BY Available DEF TypeOK, Fill, available_read, available_write
<1>2. Released \in Int
  BY DEF TypeOK, Released
<1>3. IndicesAgree <=> LinIndices
  BY <1>1, <1>2, SizeAssumption DEF IndicesAgree, LinIndices, Index, TypeOK
<1>4. ChunksFit <=> LinChunks
  BY <1>1 DEF ChunksFit, LinChunks
<1>5. ASSUME LinChunks
      PROVE  Contents <=> LinContents
  <2>1. ASSUME NEW j \in Nat, j < Fill
        PROVE  (tail + j) % Size = Wrap(tail + j)
    <3>1. tail + j \in Nat /\ tail + j < 2 * Size
      BY <1>1, <2>1, SizeAssumption DEF Index, TypeOK
    <3> QED BY <3>1, ModWrap
  <2>2. ASSUME NEW i \in Nat, i < wcopied
        PROVE  (head + i) % Size = Wrap(head + i)
    <3>1. head + i \in Nat /\ head + i < 2 * Size
      BY <1>1, <1>5, <2>2, SizeAssumption DEF Index, TypeOK, LinChunks
    <3> QED BY <3>1, ModWrap
  <2>3. 0..available_read-1 = {j \in Nat : j < Fill}
    BY <1>1 DEF Index
  <2>4. 0..wcopied-1 = {i \in Nat : i < wcopied}
    BY DEF TypeOK
  <2> QED BY <2>1, <2>2, <2>3, <2>4 DEF Contents, LinContents
<1> QED BY <1>3, <1>4, <1>5 DEF RingInv, LinInv

-----------------------------------------------------------------------------
(* A ring just constructed satisfies the invariant. *)
LEMMA InitLinInv == Init => LinInv
<1> SUFFICES ASSUME Init PROVE LinInv
  OBVIOUS
<1>1. TypeOK
  BY SizeAssumption, ModeAssumption DEF Init, TypeOK, Index, Uninit
<1>2. Fill = 0 /\ Released = 0 /\ Len(received) = 0
  BY DEF Init, Fill, Used, Released
<1>3. LinIndices /\ LinChunks
  BY <1>2, SizeAssumption DEF Init, LinIndices, LinChunks
<1>4. LinContents
  BY <1>2 DEF Init, LinContents
<1>5. Fifo
  BY <1>2 DEF Init, Fifo
<1> QED BY <1>1, <1>3, <1>4, <1>5 DEF LinInv

-----------------------------------------------------------------------------
(* The arithmetic facts every step starts from. *)
Facts ==
  /\ Size \in Nat /\ head \in Nat /\ tail \in Nat
  /\ head < Size /\ tail < Size
  /\ Fill \in Nat /\ Fill < Size /\ Released \in Nat /\ sent \in Nat
  /\ Fill = (IF head >= tail THEN head - tail ELSE head + Size - tail)
  /\ available_read = Fill /\ available_write = Size - 1 - Fill
  /\ wn \in Nat /\ written \in Nat /\ wchunk \in Nat /\ wcopied \in Nat
  /\ rn \in Nat /\ read_bytes \in Nat /\ rchunk \in Nat
  /\ rcopied \in Nat /\ Len(received) \in Nat
  /\ Released = Len(received) - rcopied

LEMMA LinFacts == LinInv => Facts /\ LinIndices /\ LinChunks
<1> SUFFICES ASSUME LinInv PROVE Facts
  BY DEF LinInv
<1>1. TypeOK /\ LinIndices /\ LinChunks
  BY DEF LinInv
<1>2. Fill \in Index /\ available_read = Fill /\ available_write = Size - 1 - Fill
  BY <1>1, Available DEF TypeOK, Fill, available_read, available_write
<1>3. Released \in Nat /\ Len(received) \in Nat
  BY <1>1 DEF TypeOK, LinChunks, Released
<1> QED
  BY <1>1, <1>2, <1>3, SizeAssumption DEF Facts, TypeOK, Index, Fill, Used, Released

-----------------------------------------------------------------------------
(* What lies in the ring and what was read are runs of the stream.         *)

(* The n bytes of the stream that follow the r-th. *)
Run(r, n) == [i \in 1..n |-> r + i]

LEMMA RunIsSeq ==
  ASSUME NEW r \in Nat, NEW n \in Nat
  PROVE  /\ Run(r, n) \in Seq(Nat)
         /\ Len(Run(r, n)) = n
         /\ \A i \in 1..n : Run(r, n)[i] = r + i
<1>1. Run(r, n) \in [1..n -> Nat]
  BY DEF Run
<1>2. Run(r, n) \in Seq(Nat)
  BY <1>1, SeqDef
<1> QED BY <1>1, <1>2 DEF Run

(* A sequence is a run when it counts up from r. *)
LEMMA IsRun ==
  ASSUME NEW r \in Nat, NEW n \in Nat, NEW s \in Seq(Nat), Len(s) = n,
         \A i \in 1..n : s[i] = r + i
  PROVE  s = Run(r, n)
<1> DEFINE t == Run(r, n)
<1>1. t \in Seq(Nat) /\ Len(t) = n /\ \A i \in 1..n : t[i] = r + i
  BY RunIsSeq
<1> HIDE DEF t
<1>2. \A i \in 1..Len(s) : s[i] = t[i]
  BY <1>1
<1>3. s = t
  BY <1>1, <1>2, SeqEqual
<1> QED BY <1>3 DEF t

(* Runs that follow each other make one run. *)
LEMMA RunConcat ==
  ASSUME NEW r \in Nat, NEW f \in Nat, NEW k \in Nat
  PROVE  Run(r, f) \o Run(r + f, k) = Run(r, f + k)
<1> DEFINE a == Run(r, f)
           b == Run(r + f, k)
           s == a \o b
<1>1. r + f \in Nat /\ f + k \in Nat
  OBVIOUS
<1>2. a \in Seq(Nat) /\ Len(a) = f /\ \A i \in 1..f : a[i] = r + i
  BY RunIsSeq
<1>3. b \in Seq(Nat) /\ Len(b) = k /\ \A i \in 1..k : b[i] = r + f + i
  BY <1>1, RunIsSeq
<1> HIDE DEF a, b
<1>4. /\ s \in Seq(Nat) /\ Len(s) = f + k
      /\ \A i \in 1..f+k : s[i] = IF i <= f THEN a[i] ELSE b[i - f]
  <2>1. /\ a \o b \in Seq(Nat) /\ Len(a \o b) = Len(a) + Len(b)
        /\ \A i \in 1..Len(a) + Len(b) :
             (a \o b)[i] = IF i <= Len(a) THEN a[i] ELSE b[i - Len(a)]
    BY <1>2, <1>3, ConcatProperties
  <2>2. Len(a) = f /\ Len(b) = k
    BY <1>2, <1>3
  <2> QED BY ONLY <2>1, <2>2, Zenon
<1> HIDE DEF s
<1>5. ASSUME NEW i \in 1..f+k PROVE s[i] = r + i
  <2>1. CASE i <= f
    <3>1. i \in 1..f
      BY <2>1
    <3> QED BY <1>2, <1>4, <2>1, <3>1
  <2>2. CASE i > f
    <3>1. i - f \in 1..k /\ r + f + (i - f) = r + i /\ ~(i <= f)
      BY <2>2
    <3>2. b[i - f] = r + i
      BY <1>3, <3>1
    <3> QED BY <1>4, <3>1, <3>2
  <2> QED BY <2>1, <2>2
<1>6. s = Run(r, f + k)
  BY <1>1, <1>4, <1>5, IsRun
<1> QED BY <1>6 DEF s, a, b

(* Taking the first k bytes of a run leaves the run that follows them. *)
LEMMA RunSplit ==
  ASSUME NEW r \in Nat, NEW f \in Nat, NEW k \in Nat, k <= f
  PROVE  /\ SubSeq(Run(r, f), 1, k) = Run(r, k)
         /\ SubSeq(Run(r, f), k + 1, f) = Run(r + k, f - k)
<1> DEFINE a == Run(r, f)
           s == SubSeq(a, 1, k)
           t == SubSeq(a, k + 1, f)
<1>1. \A i \in 1..f : a[i] = r + i
  BY RunIsSeq
<1>2. r + k \in Nat /\ f - k \in Nat
  OBVIOUS
<1> HIDE DEF a
<1>3. /\ s \in Seq(Nat) /\ Len(s) = k
      /\ \A i \in 1..k : s[i] = r + i
  BY <1>1, SubSeqProperties
<1>4. /\ t \in Seq(Nat) /\ Len(t) = f - k
      /\ \A i \in 1..f-k : t[i] = r + k + i
  BY <1>1, SubSeqProperties
<1> HIDE DEF s, t
<1>5. s = Run(r, k)
  BY <1>3, IsRun
<1>6. t = Run(r + k, f - k)
  BY <1>2, <1>4, IsRun
<1> QED BY <1>5, <1>6 DEF s, t, a

(* What the refinement mapping makes of a ring: both sequences are runs.   *)
Mapped == /\ Between = Run(Released, Fill)
          /\ SubSeq(received, 1, Released) = Run(0, Released)
          /\ sent = Released + Fill
          /\ Released \in Nat /\ Fill \in Nat

LEMMA MappedState == LinInv => Mapped
<1> SUFFICES ASSUME LinInv PROVE Mapped
  OBVIOUS
<1>0. TypeOK /\ LinContents /\ Fifo
  BY DEF LinInv
<1>f. Facts /\ LinIndices /\ LinChunks
  BY LinFacts
<1>1. Between = Run(Released, Fill)
  <2>1. ASSUME NEW i \in 1..Fill
        PROVE  cells[(tail + i - 1) % Size] = Released + i
    <3>1. /\ i - 1 \in Nat /\ i - 1 < Fill
          /\ tail + (i - 1) \in Nat /\ tail + (i - 1) < 2 * Size
          /\ tail + i - 1 = tail + (i - 1)
      BY <1>f DEF Facts
    <3>2. (tail + i - 1) % Size = Wrap(tail + (i - 1))
      BY <3>1, ModWrap
    <3>3. cells[Wrap(tail + (i - 1))] = Released + (i - 1) + 1
      BY <1>0, <3>1 DEF LinContents
    <3> QED BY <1>f, <3>2, <3>3 DEF Facts
  <2>2. available_read = Fill
    BY <1>f DEF Facts
  <2> QED BY <2>1, <2>2 DEF Between, Run
<1>2. SubSeq(received, 1, Released) = Run(0, Released)
  <2> DEFINE s == SubSeq(received, 1, Released)
  <2>1. \A i \in 1..Released : received[i] = i /\ received[i] \in Nat
    BY <1>0, <1>f DEF Facts, Fifo
  <2>2. /\ s \in Seq(Nat) /\ Len(s) = Released
        /\ \A i \in 1..Released : s[i] = 0 + i
    BY <1>f, <2>1, SubSeqProperties DEF Facts
  <2> HIDE DEF s
  <2>3. s = Run(0, Released)
    BY <1>f, <2>2, IsRun DEF Facts
  <2> QED BY <2>3 DEF s
<1> QED BY <1>1, <1>2, <1>f DEF Facts, LinIndices, Mapped

(* The same of the state a step leads to. *)
LEMMA MappedNext == LinInv' => Mapped'
BY MappedState, PTL

-----------------------------------------------------------------------------
(* Every step of either thread preserves it. *)

(* A thread outside a copy has no chunk to count. *)
LEMMA AddZero == ASSUME NEW a \in Nat, NEW b \in Nat, a <= b
                 PROVE  a + 0 <= b
OBVIOUS

(* Calls, returns and yields touch neither the ring nor what was copied. *)
LEMMA StepControl ==
  ASSUME LinInv,
         \/ \E n \in 0..MaxCall : WriteCall(n) \/ ReadCall(n)
         \/ WriteSpin \/ WriteReturn \/ ReadSpin \/ ReadReturn
  PROVE  LinInv'
<1>0. TypeOK /\ LinIndices /\ LinChunks /\ LinContents /\ Fifo
  BY DEF LinInv
<1>f. Facts /\ LinIndices /\ LinChunks
  BY LinFacts
<1>1. UNCHANGED <<non_blocking, head, tail, cells, wchunk, wcopied, rchunk,
                  rcopied, sent, received>>
  BY DEF WriteCall, ReadCall, WriteSpin, WriteReturn, ReadSpin, ReadReturn,
         writer, reader
<1> DEFINE WriterKept == UNCHANGED <<wpc, wn, written, full_spins>>
           ReaderKept == UNCHANGED <<rpc, rn, read_bytes, empty_spins>>
           WriterReset == /\ wpc # "copy" /\ wpc' \in {"idle", "loop"}
                          /\ wn' \in Nat /\ full_spins' \in Nat
                          /\ written' \in Nat /\ written' <= wn'
           ReaderReset == /\ rpc \in {"idle", "loop"} /\ rpc' \in {"idle", "loop"}
                          /\ rn' \in Nat /\ empty_spins' \in Nat
                          /\ read_bytes' \in Nat /\ read_bytes' <= rn'
<1>2. (WriterReset /\ ReaderKept) \/ (WriterKept /\ ReaderReset)
  <2>1. ASSUME NEW n \in 0..MaxCall, WriteCall(n)
        PROVE  WriterReset /\ ReaderKept
    BY <2>1, BoundAssumption DEF WriteCall, reader
  <2>2. ASSUME NEW n \in 0..MaxCall, ReadCall(n)
        PROVE  WriterKept /\ ReaderReset
    BY <2>2, BoundAssumption DEF ReadCall, writer
  <2>3. CASE WriteSpin
    BY <1>0, <2>3 DEF WriteSpin, reader, TypeOK, LinChunks
  <2>4. CASE WriteReturn
    BY <2>4 DEF WriteReturn, reader
  <2>5. CASE ReadSpin
    BY <1>0, <2>5 DEF ReadSpin, writer, TypeOK, LinChunks
  <2>6. CASE ReadReturn
    BY <2>6 DEF ReadReturn, writer
  <2> QED BY <2>1, <2>2, <2>3, <2>4, <2>5, <2>6
<1>3. TypeOK'
  BY <1>0, <1>1, <1>2 DEF TypeOK
<1>4. LinIndices' /\ LinContents' /\ Fifo'
  BY <1>0, <1>1 DEF LinIndices, LinContents, Fifo, Fill, Released
<1>5. LinChunks'
  <2>1. /\ Fill' = Fill /\ Len(received') = Len(received)
        /\ wchunk' = wchunk /\ wcopied' = wcopied
        /\ rchunk' = rchunk /\ rcopied' = rcopied
    BY <1>1 DEF Fill
  <2>2. /\ written' + wchunk <= wn'
        /\ wpc' # "copy" => wchunk = 0 /\ wcopied = 0
    <3>1. CASE WriterReset
      <4>1. wchunk = 0 /\ wcopied = 0
        BY <1>f, <3>1 DEF LinChunks
      <4>2. written' \in Nat /\ wn' \in Nat /\ written' <= wn'
        BY <3>1
      <4> QED BY <4>1, <4>2, AddZero
    <3>2. CASE WriterKept
      BY <1>f, <3>2 DEF LinChunks
    <3> QED BY <1>2, <3>1, <3>2
  <2>3. /\ rpc' = "seek" \/ read_bytes' + rchunk <= rn'
        /\ rpc' \notin {"copy", "seek"} => rchunk = 0 /\ rcopied = 0
        /\ rpc' = "seek" => rcopied = rchunk /\ read_bytes' <= rn'
    <3>1. CASE ReaderReset
      <4>1. rchunk = 0 /\ rcopied = 0
        BY <1>f, <3>1 DEF LinChunks
      <4>2. read_bytes' \in Nat /\ rn' \in Nat /\ read_bytes' <= rn'
        BY <3>1
      <4> QED BY <4>1, <4>2, AddZero
    <3>2. CASE ReaderKept
      BY <1>f, <3>2 DEF LinChunks
    <3> QED BY <1>2, <3>1, <3>2
  <2> QED BY <1>f, <2>1, <2>2, <2>3 DEF LinChunks
<1> QED BY <1>3, <1>4, <1>5 DEF LinInv

LEMMA StepWriteReserve == ASSUME LinInv, WriteReserve PROVE LinInv'
<1>0. TypeOK /\ LinIndices /\ LinChunks /\ LinContents /\ Fifo
  BY DEF LinInv
<1>f. Facts /\ LinIndices /\ LinChunks
  BY LinFacts
<1>1. /\ wchunk' \in Nat /\ wchunk' <= Size - 1 - Fill
      /\ written + wchunk' <= wn
  BY <1>f DEF Facts, WriteReserve, Smaller
<1>2. TypeOK'
  BY <1>0, <1>1 DEF WriteReserve, TypeOK, reader
<1>3. LinIndices' /\ Fifo'
  BY <1>0 DEF WriteReserve, reader, LinIndices, Fifo, Fill, Released
<1>4. LinContents'
  BY <1>0 DEF WriteReserve, reader, LinContents, Fill, Released
<1>5. LinChunks'
  BY <1>1, <1>f DEF Facts, WriteReserve, reader, LinChunks, Fill
<1> QED BY <1>2, <1>3, <1>4, <1>5 DEF LinInv

LEMMA StepReadReserve == ASSUME LinInv, ReadReserve PROVE LinInv'
<1>0. TypeOK /\ LinIndices /\ LinChunks /\ LinContents /\ Fifo
  BY DEF LinInv
<1>f. Facts /\ LinIndices /\ LinChunks
  BY LinFacts
<1>1. /\ rchunk' \in Nat /\ rchunk' <= Fill /\ read_bytes + rchunk' <= rn
  BY <1>f DEF Facts, ReadReserve, Smaller
<1>2. TypeOK'
  BY <1>0, <1>1 DEF ReadReserve, TypeOK, writer
<1>3. UNCHANGED <<head, tail, cells, sent, received, rcopied, wcopied>>
  BY <1>0 DEF ReadReserve, LinChunks, writer
<1>4. LinIndices' /\ LinContents' /\ Fifo'
  BY <1>0, <1>3 DEF LinIndices, LinContents, Fifo, Fill, Released
<1>5. LinChunks'
  BY <1>1, <1>f DEF Facts, ReadReserve, writer, LinChunks, Fill
<1> QED BY <1>2, <1>4, <1>5 DEF LinInv

(* A byte is copied into a cell that is neither unread nor yet filled. *)
LEMMA StepWriteCopy == ASSUME LinInv, WriteCopy PROVE LinInv'
<1> DEFINE c == Wrap(head + wcopied)
<1>0. TypeOK /\ LinIndices /\ LinChunks /\ LinContents /\ Fifo
  BY DEF LinInv
<1>f. Facts /\ LinIndices /\ LinChunks
  BY LinFacts
<1>1. CopyIndex(head, wchunk, wcopied) = c /\ c \in Index
  <2>1. /\ head \in Index /\ wchunk \in Nat /\ wchunk < Size
        /\ wcopied \in Nat /\ wcopied < wchunk
    BY <1>f DEF Facts, WriteCopy, LinChunks, Index
  <2> QED BY <2>1, CopyIndexWrap
<1>2. /\ cells' = [cells EXCEPT ![c] = sent + wcopied + 1]
      /\ cells' \in [Index -> Nat] /\ cells'[c] = sent + wcopied + 1
      /\ \A k \in Index : k # c => cells'[k] = cells[k]
  BY <1>0, <1>1 DEF WriteCopy, TypeOK
<1>3. TypeOK'
  BY <1>0, <1>2 DEF WriteCopy, TypeOK, reader
<1>4. LinIndices' /\ Fifo'
  BY <1>0 DEF WriteCopy, reader, LinIndices, Fifo, Fill, Released
<1>5. LinChunks'
  BY <1>f DEF Facts, WriteCopy, reader, LinChunks, Fill
<1>6. ASSUME NEW j \in Nat, j < Fill
      PROVE  Wrap(tail + j) \in Index /\ Wrap(tail + j) # c
  BY <1>6, <1>f DEF Facts, WriteCopy, LinChunks, Wrap, Index
<1>7. ASSUME NEW i \in Nat, i < wcopied
      PROVE  Wrap(head + i) \in Index /\ Wrap(head + i) # c
  BY <1>7, <1>f DEF Facts, WriteCopy, LinChunks, Wrap, Index
<1>8. ASSUME NEW j \in Nat, j < Fill
      PROVE  cells'[Wrap(tail + j)] = Released + j + 1
  BY <1>0, <1>2, <1>6, <1>8 DEF LinContents
<1>9. ASSUME NEW i \in Nat, i < wcopied + 1
      PROVE  cells'[Wrap(head + i)] = sent + i + 1
  <2>1. CASE i = wcopied
    BY <1>2, <2>1
  <2>2. CASE i < wcopied
    BY <1>0, <1>2, <1>7, <2>2 DEF LinContents
  <2> QED BY <1>9, <2>1, <2>2, <1>f DEF Facts
<1>10. LinContents'
  BY <1>8, <1>9 DEF WriteCopy, reader, LinContents, Fill, Released, Wrap
<1> QED BY <1>3, <1>4, <1>5, <1>10 DEF LinInv

(* Publication: the copied bytes join those between tail and head. *)
LEMMA StepWritePublish == ASSUME LinInv, WritePublish PROVE LinInv'
<1>0. TypeOK /\ LinIndices /\ LinChunks /\ LinContents /\ Fifo
  BY DEF LinInv
<1>f. Facts /\ LinIndices /\ LinChunks
  BY LinFacts
<1>1. head' = Wrap(head + wchunk) /\ head' \in Index
  <2>1. head + wchunk \in Nat /\ head + wchunk < 2 * Size
    BY <1>f DEF Facts, LinChunks
  <2>2. head' = Wrap(head + wchunk)
    BY <2>1, ModWrap DEF WritePublish, Advance
  <2> QED BY <2>1, <2>2, SizeAssumption DEF Wrap, Index
<1>2. Fill' = Fill + wchunk
  BY <1>1, <1>f DEF Facts, WritePublish, LinChunks, Fill, Used, Wrap, Index
<1>3. TypeOK'
  BY <1>0, <1>1 DEF WritePublish, TypeOK, reader
<1>4. Released' = Released
  BY DEF WritePublish, reader, Released
<1>5. LinIndices'
  BY <1>2, <1>4, <1>f DEF Facts, WritePublish, LinIndices
<1>6. LinChunks'
  BY <1>2, <1>f DEF Facts, WritePublish, reader, LinChunks
<1>7. Fifo'
  BY <1>0, <1>f DEF Facts, WritePublish, Fifo
<1>8. ASSUME NEW j \in Nat, j < Fill + wchunk
      PROVE  cells[Wrap(tail + j)] = Released + j + 1
  <2>1. CASE j < Fill
    BY <1>0, <2>1 DEF LinContents
  <2>2. CASE j >= Fill
    <3>1. j - Fill \in Nat /\ j - Fill < wcopied
      BY <1>8, <2>2, <1>f DEF Facts, WritePublish
    <3>2. cells[Wrap(head + (j - Fill))] = sent + (j - Fill) + 1
      BY <1>0, <3>1 DEF LinContents
    <3>3. Wrap(head + (j - Fill)) = Wrap(tail + j)
      BY <1>8, <2>2, <1>f DEF Facts, LinChunks, Wrap
    <3>4. sent + (j - Fill) + 1 = Released + j + 1
      BY <1>f DEF Facts, LinIndices
    <3> QED BY <3>2, <3>3, <3>4
  <2> QED BY <2>1, <2>2, <1>f DEF Facts
<1>9. LinContents'
  BY <1>2, <1>4, <1>8 DEF WritePublish, LinContents, Wrap
<1> QED BY <1>3, <1>5, <1>6, <1>7, <1>9 DEF LinInv

(* A byte copied out is the next one of the stream. *)
LEMMA StepReadCopy == ASSUME LinInv, ReadCopy PROVE LinInv'
<1> DEFINE c == Wrap(tail + rcopied)
<1>0. TypeOK /\ LinIndices /\ LinChunks /\ LinContents /\ Fifo
  BY DEF LinInv
<1>f. Facts /\ LinIndices /\ LinChunks
  BY LinFacts
<1>1. CopyIndex(tail, rchunk, rcopied) = c /\ c \in Index
  <2>1. /\ tail \in Index /\ rchunk \in Nat /\ rchunk < Size
        /\ rcopied \in Nat /\ rcopied < rchunk
    BY <1>f DEF Facts, ReadCopy, LinChunks, Index
  <2> QED BY <2>1, CopyIndexWrap
<1>2. cells[c] = Len(received) + 1
  <2>1. rcopied \in Nat /\ rcopied < Fill
    BY <1>f DEF Facts, ReadCopy, LinChunks
  <2>2. Released + rcopied + 1 = Len(received) + 1
    BY <1>f DEF Facts, Released
  <2> QED BY <1>0, <2>1, <2>2 DEF LinContents
<1>3. /\ Len(received') = Len(received) + 1
      /\ received' \in Seq(Nat)
      /\ \A i \in 1..Len(received) : received'[i] = received[i]
      /\ received'[Len(received) + 1] = Len(received) + 1
  BY <1>0, <1>1, <1>2 DEF ReadCopy, TypeOK
<1>4. TypeOK'
  BY <1>0, <1>3 DEF ReadCopy, TypeOK, writer
<1>5. Released' = Released
  BY <1>3, <1>f DEF Facts, ReadCopy, Released
<1>6. LinIndices' /\ LinContents'
  BY <1>0, <1>5 DEF ReadCopy, writer, LinIndices, LinContents, Fill
<1>7. LinChunks'
  BY <1>3, <1>f DEF Facts, ReadCopy, writer, LinChunks, Fill
<1>8. Fifo'
  <2>1. Len(received') <= sent
    BY <1>3, <1>f DEF Facts, ReadCopy, LinChunks, LinIndices, Released
  <2>2. \A i \in 1..Len(received') : received'[i] = i
    BY <1>0, <1>3, <1>f DEF Facts, Fifo
  <2> QED BY <2>1, <2>2 DEF ReadCopy, Fifo
<1> QED BY <1>4, <1>6, <1>7, <1>8 DEF LinInv

(* Release: the bytes copied out, or skipped, leave the ring. *)
LEMMA StepReadRelease == ASSUME LinInv, ReadRelease \/ SeekStore PROVE LinInv'
<1>0. TypeOK /\ LinIndices /\ LinChunks /\ LinContents /\ Fifo
  BY DEF LinInv
<1>f. Facts /\ LinIndices /\ LinChunks
  BY LinFacts
<1>r. /\ tail' = Advance(tail, rchunk) /\ rcopied = rchunk
      /\ rchunk' = 0 /\ rcopied' = 0
      /\ UNCHANGED <<head, cells, writer, sent, received>>
  BY <1>f DEF ReadRelease, SeekStore, LinChunks
<1>1. tail' = Wrap(tail + rchunk) /\ tail' \in Index
  <2>1. tail + rchunk \in Nat /\ tail + rchunk < 2 * Size
    BY <1>f DEF Facts, LinChunks
  <2>2. tail' = Wrap(tail + rchunk)
    BY <1>r, <2>1, ModWrap DEF Advance
  <2> QED BY <2>1, <2>2, SizeAssumption DEF Wrap, Index
<1>2. Fill' = Fill - rchunk
  BY <1>r, <1>1, <1>f DEF Facts, LinChunks, Fill, Used, Wrap, Index
<1>3. TypeOK'
  <2>1. UNCHANGED <<non_blocking, wpc, wn, written, wchunk, wcopied, full_spins,
                    rn, empty_spins>>
    BY DEF ReadRelease, SeekStore, writer
  <2>2. rpc' \in {"idle", "loop"} /\ read_bytes' \in Nat
    BY <1>f DEF Facts, ReadRelease, SeekStore
  <2> QED BY <1>0, <1>1, <1>r, <2>1, <2>2 DEF TypeOK
<1>4. Released' = Released + rchunk
  BY <1>r, <1>f DEF Facts, Released
<1>5. LinIndices'
  BY <1>r, <1>2, <1>4, <1>f DEF Facts, LinIndices
<1>6. LinChunks'
  <2>1. UNCHANGED <<wpc, wn, written, wchunk, wcopied>>
    BY DEF ReadRelease, SeekStore, writer
  <2>2. wchunk <= Size - 1 - Fill'
    BY <1>2, <1>f DEF Facts, LinChunks
  <2>3. /\ rpc' \in {"idle", "loop"} /\ rchunk' = 0 /\ rcopied' = 0
        /\ 0 <= Fill' /\ 0 <= Len(received')
    BY <1>r, <1>2, <1>f DEF Facts, LinChunks, ReadRelease, SeekStore
  <2>4. read_bytes' + rchunk' <= rn'
    <3>1. CASE ReadRelease
      BY <1>f, <3>1 DEF Facts, LinChunks, ReadRelease
    <3>2. CASE SeekStore
      BY <1>f, <3>2 DEF Facts, LinChunks, SeekStore
    <3> QED BY <3>1, <3>2
  <2> QED BY <1>f, <2>1, <2>2, <2>3, <2>4 DEF LinChunks
<1>7. Fifo'
  BY <1>0, <1>r DEF Fifo
<1>8. ASSUME NEW j \in Nat, j < Fill - rchunk
      PROVE  cells[Wrap(tail' + j)] = Released + rchunk + j + 1
  <2>1. rchunk + j \in Nat /\ rchunk + j < Fill
    BY <1>8, <1>f DEF Facts
  <2>2. cells[Wrap(tail + (rchunk + j))] = Released + (rchunk + j) + 1
    BY <1>0, <2>1 DEF LinContents
  <2>3. Wrap(tail + (rchunk + j)) = Wrap(tail' + j)
    BY <1>1, <2>1, <1>f DEF Facts, LinChunks, Wrap
  <2> QED BY <2>2, <2>3, <1>f DEF Facts
<1>9. LinContents'
  BY <1>0, <1>r, <1>2, <1>4, <1>8 DEF writer, LinContents, Wrap
<1> QED BY <1>3, <1>5, <1>6, <1>7, <1>9 DEF LinInv

(* Seeking to the end: the bytes skipped are the next ones of the stream. *)
LEMMA StepSeekEnd == ASSUME LinInv, SeekEnd PROVE LinInv'
<1> DEFINE len == Len(received)
           skipped == Run(len, Fill)
<1>0. TypeOK /\ LinIndices /\ LinChunks /\ LinContents /\ Fifo
  BY DEF LinInv
<1>f. Facts /\ LinIndices /\ LinChunks
  BY LinFacts
<1>1. /\ rchunk = 0 /\ rcopied = 0 /\ Released = len
      /\ len \in Nat /\ Fill \in Nat /\ sent = len + Fill
  BY <1>f DEF SeekEnd, Facts, LinChunks, LinIndices
<1>2. received' = received \o skipped /\ rchunk' = Fill /\ rcopied' = Fill
  BY <1>1, <1>f, MappedState DEF Mapped, SeekEnd, Facts
<1>3. /\ skipped \in Seq(Nat) /\ Len(skipped) = Fill
      /\ \A i \in 1..Fill : skipped[i] = len + i
  BY <1>1, RunIsSeq
<1>4. received \in Seq(Nat)
  BY <1>0 DEF TypeOK
<1> HIDE DEF skipped
<1>5. /\ received' \in Seq(Nat) /\ Len(received') = len + Fill
      /\ \A i \in 1..len + Fill :
           received'[i] = IF i <= len THEN received[i] ELSE skipped[i - len]
  BY <1>2, <1>3, <1>4, ConcatProperties
<1>6. TypeOK'
  BY <1>0, <1>1, <1>2, <1>5 DEF SeekEnd, TypeOK, writer
<1>7. Released' = Released
  BY <1>1, <1>2, <1>5 DEF Released
<1>8. LinIndices' /\ LinContents'
  BY <1>0, <1>7 DEF SeekEnd, writer, LinIndices, LinContents, Fill
<1>9. LinChunks'
  <2>1. rcopied' <= Len(received')
    BY <1>1, <1>2, <1>5
  <2>2. UNCHANGED <<Fill, wcopied, wchunk, wpc, written, wn>> /\ rpc' = "seek"
    BY DEF SeekEnd, writer, Fill
  <2>3. read_bytes' = read_bytes /\ rn' = rn /\ read_bytes <= rn
    BY <1>0, <1>f, <1>1 DEF Facts, LinChunks, SeekEnd, TypeOK
  <2> QED BY <1>1, <1>2, <1>f, <2>1, <2>2, <2>3 DEF Facts, LinChunks
<1>10. Fifo'
  <2>1. ASSUME NEW i \in 1..len + Fill PROVE received'[i] = i
    <3>1. CASE i <= len
      BY <1>0, <1>1, <1>5, <3>1 DEF Fifo
    <3>2. CASE i > len
      <4>1. i - len \in 1..Fill /\ len + (i - len) = i /\ ~(i <= len)
        BY <1>1, <3>2
      <4>2. skipped[i - len] = i
        BY <1>3, <4>1
      <4> QED BY <1>5, <4>1, <4>2
    <3> QED BY <1>1, <3>1, <3>2
  <2> QED BY <1>1, <1>5, <2>1 DEF SeekEnd, Fifo
<1> QED BY <1>6, <1>8, <1>9, <1>10 DEF LinInv

LEMMA StepLinInv == LinInv /\ [Next]_vars => LinInv'
<1> SUFFICES ASSUME LinInv, [Next]_vars PROVE LinInv'
  OBVIOUS
<1>1. CASE \/ \E n \in 0..MaxCall : WriteCall(n) \/ ReadCall(n)
           \/ WriteSpin \/ WriteReturn \/ ReadSpin \/ ReadReturn
  BY <1>1, StepControl
<1>2. CASE WriteReserve
  BY <1>2, StepWriteReserve
<1>3. CASE WriteCopy
  BY <1>3, StepWriteCopy
<1>4. CASE WritePublish
  BY <1>4, StepWritePublish
<1>5. CASE ReadReserve
  BY <1>5, StepReadReserve
<1>6. CASE ReadCopy
  BY <1>6, StepReadCopy
<1>7. CASE ReadRelease \/ SeekStore
  BY <1>7, StepReadRelease
<1>9. CASE SeekEnd
  BY <1>9, StepSeekEnd
<1>8. CASE UNCHANGED vars
  BY <1>8
  DEF vars, writer, reader, LinInv, TypeOK, LinIndices, LinChunks,
      LinContents, Fifo, Fill, Released
<1> QED
  BY <1>1, <1>2, <1>3, <1>4, <1>5, <1>6, <1>7, <1>8, <1>9
  DEF Next, WriterStep, ReaderStep

-----------------------------------------------------------------------------
(* The inductive invariant holds of every execution, whatever the size of  *)
(* the ring, the mode, the lengths of the calls and their interleaving.    *)
THEOREM RingInvariant == Spec => []RingInv
<1>1. LinInv => RingInv
  BY RingInvLin
<1> QED BY <1>1, InitLinInv, StepLinInv, PTL DEF Spec

(* Type correctness. *)
THEOREM RingTypeOK == Spec => []TypeOK
<1>1. RingInv => TypeOK
  BY DEF RingInv
<1> QED BY <1>1, RingInvariant, PTL

(* No byte is lost, duplicated, reordered or read before it is published,  *)
(* in any interleaving of write_internal and read_internal.                *)
THEOREM RingFifo == Spec => []Fifo
<1>1. RingInv => Fifo
  BY DEF RingInv
<1> QED BY <1>1, RingInvariant, PTL

(* A memcpy of the writer and one of the reader never touch the same byte. *)
THEOREM RingNoDataRace == Spec => []NoDataRace
<1>1. LinInv => NoDataRace
  <2> SUFFICES ASSUME LinInv,
                      NEW i \in wcopied..wchunk-1, NEW j \in rcopied..rchunk-1
               PROVE  CopyIndex(head, wchunk, i) # CopyIndex(tail, rchunk, j)
    BY DEF NoDataRace, WriteWindow, ReadWindow
  <2>f. Facts /\ LinChunks
    BY LinFacts
  <2>1. /\ head \in Index /\ tail \in Index
        /\ i \in Nat /\ i < wchunk /\ wchunk < Size
        /\ j \in Nat /\ j < rchunk /\ rchunk < Size
    BY <2>f DEF Facts, LinChunks, Index
  <2>2. /\ CopyIndex(head, wchunk, i) = Wrap(head + i)
        /\ CopyIndex(tail, rchunk, j) = Wrap(tail + j)
    BY <2>1, <2>f, CopyIndexWrap DEF Facts
  <2> QED BY <2>1, <2>2, <2>f DEF Facts, LinChunks, Wrap
<1> QED BY <1>1, RingInvLin, RingInvariant, PTL

(* A ring that can hold a byte never leaves a writer and a reader waiting  *)
(* for each other.                                                         *)
THEOREM RingNeverBothStuck == ASSUME Size > 1
                              PROVE  Spec => []NeverBothStuck
<1>1. RingInv => NeverBothStuck
  BY SizeAssumption DEF RingInv, IndicesAgree, NeverBothStuck
<1> QED BY <1>1, RingInvariant, PTL

-----------------------------------------------------------------------------
(* The ring implements the bounded pipe.                                   *)

(* Every step of the ring is a step of the pipe, or leaves it alone. *)
LEMMA PipeStep ==
  LinInv /\ LinInv' /\ [Next]_vars => [Pipe!Next]_(Pipe!vars)
<1> DEFINE delivered == SubSeq(received, 1, Released)
<1> SUFFICES ASSUME LinInv, LinInv', [Next]_vars
             PROVE  Pipe!Next \/ UNCHANGED <<sent, Between, delivered>>
  BY DEF Pipe!vars
<1>m. /\ Between = Run(Released, Fill) /\ delivered = Run(0, Released)
      /\ sent = Released + Fill /\ Released \in Nat /\ Fill \in Nat
  BY MappedState DEF Mapped
<1>n. PICK released \in Nat, fill \in Nat :
        /\ Released' = released /\ Fill' = fill
        /\ Between' = Run(released, fill) /\ delivered' = Run(0, released)
        /\ sent' = released + fill
  BY MappedNext DEF Mapped
<1>f. Facts /\ LinChunks
  BY LinFacts
<1>1. ASSUME sent' = sent, Released' = Released
      PROVE  UNCHANGED <<sent, Between, delivered>>
  <2>1. released = Released /\ fill = Fill
    BY <1>1, <1>m, <1>n
  <2> QED BY <1>1, <1>m, <1>n, <2>1
<1>2. CASE WritePublish
  <2>1. sent' = sent + wchunk /\ Released' = Released
    BY <1>2 DEF WritePublish, reader, Released
  <2>0. wchunk \in Nat /\ Fill + wchunk <= Size - 1
    BY <1>f DEF Facts, LinChunks
  <2>2. released = Released /\ fill = Fill + wchunk
    BY <1>m, <1>n, <2>0, <2>1
  <2>3. Len(Between) + wchunk <= Size - 1
    <3>1. Len(Between) = Fill
      BY <1>m, RunIsSeq
    <3> QED BY <2>0, <3>1
  <2>4. Between' = Between \o Pipe!NextBytes(wchunk)
    <3>1. Pipe!NextBytes(wchunk) = Run(Released + Fill, wchunk)
      BY <1>m DEF Pipe!NextBytes, Run
    <3>2. Between' = Run(Released, Fill + wchunk)
      BY <1>n, <2>1, <2>2
    <3>3. Run(Released, Fill) \o Run(Released + Fill, wchunk) =
            Run(Released, Fill + wchunk)
      BY <1>m, <2>0, RunConcat
    <3> QED BY <1>m, <3>1, <3>2, <3>3
  <2>5. Pipe!Put(wchunk)
    BY <1>m, <1>n, <2>1, <2>3, <2>4 DEF Pipe!Put
  <2>6. wchunk = 0 \/ wchunk \in 1..(Size - 1)
    BY <1>f DEF Facts, LinChunks
  <2>7. CASE wchunk = 0
    BY <1>1, <1>f, <2>1, <2>7 DEF Facts
  <2>8. CASE wchunk \in 1..(Size - 1)
    BY <2>5, <2>8 DEF Pipe!Next
  <2> QED BY <2>6, <2>7, <2>8
<1>3. CASE ReadRelease \/ SeekStore
  <2>1. sent' = sent /\ Released' = Released + rchunk
    BY <1>3, <1>f DEF ReadRelease, SeekStore, LinChunks, Released, Facts
  <2>0. rchunk \in Nat /\ rchunk <= Fill
    BY <1>f DEF Facts, LinChunks
  <2>2. released = Released + rchunk /\ fill = Fill - rchunk
    BY <1>m, <1>n, <2>0, <2>1
  <2>3. Len(Between) = Fill
    BY <1>m, RunIsSeq
  <2>4. /\ SubSeq(Between, 1, rchunk) = Run(Released, rchunk)
        /\ SubSeq(Between, rchunk + 1, Fill) =
             Run(Released + rchunk, Fill - rchunk)
    <3>1. PICK r \in Nat, f \in Nat : r = Released /\ f = Fill
      BY <1>m
    <3>2. rchunk \in Nat /\ rchunk <= f
      BY <2>0, <3>1
    <3>3. /\ SubSeq(Run(r, f), 1, rchunk) = Run(r, rchunk)
          /\ SubSeq(Run(r, f), rchunk + 1, f) = Run(r + rchunk, f - rchunk)
      BY ONLY <3>2, r \in Nat, f \in Nat, RunSplit
    <3> QED BY <1>m, <3>1, <3>3
  <2>5. delivered' = delivered \o SubSeq(Between, 1, rchunk)
    <3>1. Run(0, Released) \o Run(0 + Released, rchunk) =
            Run(0, Released + rchunk)
      <4>1. Released \in Nat
        BY <1>m
      <4> QED BY ONLY <2>0, <4>1, RunConcat
    <3>2. 0 + Released = Released
      BY <1>m
    <3>3. delivered' = Run(0, Released + rchunk)
      BY <1>n, <2>1
    <3> QED BY <1>m, <2>4, <3>1, <3>2, <3>3
  <2>6. Between' = SubSeq(Between, rchunk + 1, Len(Between))
    BY <1>n, <2>1, <2>2, <2>3, <2>4
  <2>7. Pipe!Get(rchunk)
    BY <2>0, <2>1, <2>3, <2>5, <2>6 DEF Pipe!Get
  <2>8. rchunk = 0 \/ rchunk \in 1..(Size - 1)
    BY <1>f DEF Facts, LinChunks
  <2>9. CASE rchunk = 0
    BY <1>1, <1>f, <2>1, <2>9 DEF Facts
  <2>10. CASE rchunk \in 1..(Size - 1)
    BY <2>7, <2>10 DEF Pipe!Next
  <2> QED BY <2>8, <2>9, <2>10
<1>4. CASE ReadCopy
  <2>1. received \in Seq(Nat) /\ cells[CopyIndex(tail, rchunk, rcopied)] \in Nat
    <3>1. TypeOK /\ received' \in Seq(Nat)
      BY DEF LinInv, TypeOK
    <3>2. CopyIndex(tail, rchunk, rcopied) \in Index
      <4>1. /\ tail \in Index /\ rchunk < Size /\ rcopied < rchunk
            /\ rchunk \in Nat /\ rcopied \in Nat
        BY <1>4, <1>f DEF ReadCopy, Facts, LinChunks, Index
      <4> QED BY <4>1, CopyIndexWrap
    <3> QED BY <3>1, <3>2 DEF TypeOK
  <2>2. Len(received') = Len(received) + 1 /\ rcopied' = rcopied + 1
    BY <1>4, <2>1 DEF ReadCopy
  <2>3. Released' = Released
    BY <1>f, <2>2 DEF Released, Facts
  <2> QED BY <1>1, <1>4, <2>3 DEF ReadCopy
<1>5. CASE ReadReserve
  <2>1. rcopied' = rcopied /\ received' = received /\ sent' = sent
    BY <1>5, <1>f DEF ReadReserve, LinChunks
  <2> QED BY <1>1, <2>1 DEF Released
<1>7. CASE SeekEnd
  <2>1. received \in Seq(Nat) /\ Between \in Seq(Nat) /\ Len(Between) = Fill
    BY <1>m, RunIsSeq DEF LinInv, TypeOK
  <2>2. Len(received') = Len(received) + Fill /\ rcopied' = rcopied + Fill
    <3>1. /\ received' = received \o Between /\ rcopied = 0 /\ rcopied' = Fill
          /\ Fill \in Nat
      BY <1>7, <1>f DEF SeekEnd, Facts, LinChunks
    <3>2. Len(received \o Between) = Len(received) + Len(Between)
      BY <2>1, ConcatProperties
    <3> QED BY <2>1, <3>1, <3>2
  <2>3. Released' = Released
    BY <1>f, <2>2 DEF Released, Facts
  <2> QED BY <1>1, <1>7, <2>3 DEF SeekEnd
<1>6. CASE /\ ~WritePublish /\ ~ReadRelease /\ ~ReadCopy /\ ~ReadReserve
           /\ ~SeekEnd /\ ~SeekStore
  <2>1. UNCHANGED <<sent, received, rcopied>>
    BY <1>6
    DEF Next, WriterStep, ReaderStep, WriteCall, WriteReserve, WriteSpin,
        WriteCopy, WriteReturn, ReadCall, ReadSpin, ReadReturn, vars, writer,
        reader
  <2> QED BY <1>1, <2>1 DEF Released
<1> QED BY <1>2, <1>3, <1>4, <1>5, <1>6, <1>7

(* Whatever the two threads do, byte by byte, what a reader is handed is   *)
(* what a bounded first-in first-out pipe of Size - 1 bytes would hand it. *)
THEOREM RingImplementsPipe == Spec => ImplementsPipe
<1>1. Init => Pipe!Init
  <2> SUFFICES ASSUME Init PROVE Pipe!Init
    OBVIOUS
  <2>1. LinInv /\ Fill = 0 /\ Released = 0
    BY InitLinInv DEF Init, Fill, Used, Released
  <2>2. Between = Run(0, 0) /\ SubSeq(received, 1, Released) = Run(0, 0)
    BY <2>1, MappedState DEF Mapped
  <2>3. Run(0, 0) = <<>>
    BY RunIsSeq, EmptySeq
  <2> QED BY <2>2, <2>3 DEF Init, Pipe!Init
<1>2. Spec => []LinInv
  BY InitLinInv, StepLinInv, PTL DEF Spec
<1> QED BY <1>1, <1>2, PipeStep, PTL DEF Spec, ImplementsPipe, Pipe!Spec
===============================================================================
