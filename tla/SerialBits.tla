----------------------------- MODULE SerialBits ------------------------------
(***************************************************************************)
(* The bit layer of Serial over the backends of SerialBackends: bits are   *)
(* packed into currentWriteByte, low bit first, whole bytes go to the      *)
(* backend, and a second Serial reads them back with the same calls in the *)
(* same order.  A byte is the sequence of its bits, low bit first.  One    *)
(* program writes to the four backends at once; in a bitStream only the    *)
(* buffer is used, for streams see SerialCalls.  The program may also go   *)
(* back, once, to replace a call's bytes, or to read a call's bytes again. *)
(***************************************************************************)
EXTENDS SerialBackends, SequencesExt

CONSTANTS
  ByteBits,    \* bits in a byte (8 in the code)
  BitStreams,  \* what the bitStream flag may be, a subset of BOOLEAN
  Kinds,       \* the calls the program makes, a subset of AllKinds
  MaxBits,     \* bound: longest container given to writeBits
  MaxOps       \* bound: calls made

AllKinds == {"bit", "byte", "bits", "bool", "value"}

ASSUME SizeAssumption == ByteBits \in Nat \ {0, 1} /\ {BufferSize, MaxBits} \subseteq Nat
ASSUME FlagAssumption == BitStreams \subseteq BOOLEAN /\ Kinds \subseteq AllKinds

VARIABLES
  bitStream,  \* the flag, the same for the writer and the reader
  log,      \* the calls made by the writing program: kind, bits and position
  w,        \* the bits pending in the writing Serial
  store,    \* the backends
  patched,  \* the program has gone back to replace a call
  reading,  \* the backends have been handed over
  told,     \* what getWriteLength said then
  r,        \* the bits open in the reading Serial
  start,    \* where the last reading call began
  again,    \* the program has gone back to read a call again
  got       \* what each reading call returned, as bits

writing == <<bitStream, log, w, patched>>
progress == <<reading, told>>
vars == <<writing, progress, store, r, start, again, got>>

Bit == {0, 1}
Byte == [1..ByteBits -> Bit]
Blank == [i \in 1..ByteBits |-> 0]
Bool(b) == [Blank EXCEPT ![1] = b]   \* a bool written as a whole byte
Partial(bits) == bits \in 1..ByteBits-1

Init == /\ bitStream \in BitStreams
        /\ log = <<>> /\ got = <<>>
        /\ w = [byte |-> Blank, bits |-> 0]
        /\ r = [byte |-> Blank, bits |-> ByteBits]
        /\ store = NewBackends /\ told = Lengths(store)
        /\ reading = FALSE /\ patched = FALSE /\ again = FALSE
        /\ start = getReadPosition(store)

-----------------------------------------------------------------------------
(* Writing.  s is the state of the writing Serial with its backends. *)

WriteBytes(s, bytes) ==
  [s EXCEPT !.b = IF bitStream THEN BufferWrite(@, bytes) ELSE WriteAll(@, bytes)]

(* The end of writeByte: a whole byte goes out and nothing is pending. *)
PutByte_PendingKept(s, byte) ==                              \* mutant
  [WriteBytes(s, <<byte>>) EXCEPT !.bits = 0]
PutByte(s, byte) ==
  [WriteBytes(s, <<byte>>) EXCEPT !.byte = Blank, !.bits = 0]

WriteBit(s, b) ==
  LET byte == [s.byte EXCEPT ![s.bits + 1] = IF @ = 1 THEN 1 ELSE b]
      more == [s EXCEPT !.byte = byte, !.bits = @ + 1]
  IN  IF more.bits = ByteBits THEN PutByte(more, byte) ELSE more

(* writeBits: bit after bit, from the front of the container (its index    *)
(* argument is not used).                                                  *)
WriteBits(s, bits) ==
  LET after[i \in 0..Len(bits)] == IF i = 0 THEN s ELSE WriteBit(after[i-1], bits[i])
  IN  after[Len(bits)]

(* writeByte: bit by bit when bits are pending in a bit stream; otherwise  *)
(* the byte goes out and pending bits are forgotten.                       *)
WriteByte(s, byte) == IF bitStream /\ Partial(s.bits)
                      THEN WriteBits(s, byte)
                      ELSE PutByte(s, byte)

(* synchronize: pending bits go out as a byte filled up with zeros. *)
Synchronize(s) == IF Partial(s.bits) THEN PutByte(s, s.byte) ELSE s

(* operator<< and the public writers.  A trivially copyable value goes     *)
(* straight to writeBytes, past the pending bits.                          *)
Write(s, kind, bits) ==
  CASE kind = "bit"   -> WriteBit(s, bits[1])
    [] kind = "byte"  -> WriteByte(s, bits)
    [] kind = "bits"  -> WriteBits(s, bits)
    [] kind = "bool"  -> IF bitStream THEN WriteBit(s, bits[1])
                                      ELSE WriteByte(s, Bool(bits[1]))
    [] kind = "value" -> WriteBytes(s, <<SubSeq(bits, 1, ByteBits),
                                         SubSeq(bits, ByteBits + 1,
                                                2 * ByteBits)>>)

-----------------------------------------------------------------------------
(* Reading.  s is the state of the reading Serial with its backends; what *)
(* a call returns from the buffer is kept in a field out.                  *)

(* The memory the reader sees: zeros where nothing was written. *)
Memory(s, i) == IF i <= Len(s.b.buffer) THEN s.b.buffer[i] ELSE Blank

ReadBytes(s, n) ==
  [s EXCEPT !.b = IF bitStream THEN BufferRead(@, n) ELSE ReadAll(@, n)]

(* readBytes(&currentReadByte, 1), and the counter starts again. *)
FetchByte(s) ==
  [ReadBytes(s, 1) EXCEPT
     !.byte = IF BufferReads(s.b, 1) THEN Memory(s, s.b.buffer_read_index + 1) ELSE @,
     !.bits = 0]

TakeBit(s) == [s EXCEPT !.out = Append(@, s.byte[s.bits + 1]), !.bits = @ + 1]

(* The next bit, or n of them, where a counter in empty says that the open *)
(* byte has no more.                                                       *)
NextBit(s, empty) == TakeBit(IF s.bits \in empty THEN FetchByte(s) ELSE s)
NextBits(s, n, empty) ==
  LET after[i \in 0..n] == IF i = 0 THEN s ELSE NextBit(after[i-1], empty)
  IN  after[n]

(* readBit fetches a byte when none is open, at 0 bits read or at 8. *)
NoneOpen == {0, ByteBits}
ReadBit_StaleAtZero(s) == NextBit(s, {ByteBits})             \* mutant
ReadBit(s) == NextBit(s, NoneOpen)

(* readByte: readBit for each bit, or a whole byte, which leaves 0 in the  *)
(* counter.                                                                *)
ReadByte(s) ==
  IF bitStream /\ Partial(s.bits) THEN NextBits(s, ByteBits, NoneOpen)
  ELSE LET f == FetchByte(s) IN [f EXCEPT !.out = @ \o f.byte]

(* readBits fetches a byte at 8 bits read only. *)
ReadBits(s, n) == NextBits(s, n, {ByteBits})

(* readBytes of a value of two bytes. *)
ReadValue(s) ==
  [ReadBytes(s, 2) EXCEPT
     !.out = IF BufferReads(s.b, 2) THEN Memory(s, s.b.buffer_read_index + 1)
                                         \o Memory(s, s.b.buffer_read_index + 2)
             ELSE @]

(* operator>> and the public readers. *)
Read(s, kind, n) ==
  CASE kind = "bit"   -> ReadBit(s)
    [] kind = "byte"  -> ReadByte(s)
    [] kind = "bits"  -> ReadBits(s, n)
    [] kind = "bool"  -> IF bitStream THEN ReadBit(s)
                         ELSE LET f == ReadByte(s)
                              IN  [f EXCEPT !.out = <<f.byte[1]>>]
    [] kind = "value" -> ReadValue(s)

-----------------------------------------------------------------------------
(* The payloads of a call. *)
Payloads(kind) == CASE kind \in {"bit", "bool"} -> [1..1 -> Bit]
                    [] kind = "byte" -> Byte
                    [] kind = "bits" -> UNION {[1..n -> Bit] : n \in 1..MaxBits}
                    [] kind = "value" -> [1..2*ByteBits -> Bit]

(* Nothing is pending, and the reader will be between two bytes. *)
Aligned == w.bits = 0

(* A whole byte was the last thing the bit layer saw. *)
AfterByte == /\ Aligned
             /\ \E i \in 1..Len(log) :
                  /\ log[i].kind = "byte" \/ (log[i].kind = "bool" /\ ~bitStream)
                  /\ \A j \in i+1..Len(log) : log[j].kind = "value"

(* How a program has to mix the calls for the buffer to read back: a value *)
(* only between bytes; whole bytes too, unless the Serial is a bitStream;  *)
(* no writeBits right after a whole byte, which readBits would read again; *)
(* and no writeBits at all, since it throws, without bitStream.            *)
MayMix(kind) ==
  CASE kind = "value" -> Aligned
    [] kind \in {"byte", "bool"} -> bitStream \/ Aligned
    [] kind = "bits" -> bitStream /\ ~AfterByte
    [] OTHER -> TRUE

Writer == [byte |-> w.byte, bits |-> w.bits, b |-> store]
Reader == [byte |-> r.byte, bits |-> r.bits, b |-> store, out |-> <<>>]
WriterNow(s) == w' = [byte |-> s.byte, bits |-> s.bits] /\ store' = s.b
ReaderNow(s) == r' = [byte |-> s.byte, bits |-> s.bits] /\ store' = s.b

Call(kind, bits) ==
  /\ ~reading /\ Len(log) < MaxOps
  /\ MayMix(kind)
  /\ WriterNow(Write(Writer, kind, bits))
  /\ log' = Append(log, [kind |-> kind, bits |-> bits, at |-> getWritePosition(store)])
  /\ UNCHANGED <<bitStream, patched, progress, r, start, again, got>>

(* A call of whole bytes, which can be repeated by itself. *)
Whole(kind) == ~bitStream /\ kind \in {"value", "byte", "bool"}

(* The program goes back to call i, writes other bits in its place (every  *)
(* one changed), and returns to where it was.                              *)
Flipped(bits) == [k \in DOMAIN bits |-> 1 - bits[k]]
Patch(i) ==
  /\ ~reading /\ ~patched /\ Aligned
  /\ i \in 1..Len(log) /\ Whole(log[i].kind)
  /\ LET back == [Writer EXCEPT !.b = setWritePosition(@, log[i].at)]
         over == Write(back, log[i].kind, Flipped(log[i].bits))
     IN  WriterNow([over EXCEPT !.b = setWritePosition(@, getWritePosition(store))])
  /\ log' = [log EXCEPT ![i].bits = Flipped(@)]
  /\ patched' = TRUE
  /\ UNCHANGED <<bitStream, progress, r, start, again, got>>

(* The writer synchronizes, asks for the length and lets another Serial    *)
(* read.                                                                   *)
HandOver ==
  /\ ~reading
  /\ LET s == Synchronize(Writer)
     IN  /\ WriterNow([s EXCEPT !.b = getWriteLength(@)])
         /\ told' = Lengths(s.b)
  /\ reading' = TRUE
  /\ UNCHANGED <<bitStream, log, patched, r, start, again, got>>

ReadNext ==
  /\ reading /\ Len(got) < Len(log)
  /\ LET op == log[Len(got) + 1]
         s == Read(Reader, op.kind, Len(op.bits))
     IN  ReaderNow(s) /\ got' = Append(got, s.out)
  /\ start' = getReadPosition(store)
  /\ UNCHANGED <<writing, progress, again>>

(* The program goes back to the last call and reads its bytes again. *)
ReadAgain ==
  /\ got # <<>> /\ ~again /\ Whole(log[Len(got)].kind)
  /\ LET op == log[Len(got)]
         s == Read([Reader EXCEPT !.b = setReadPosition(@, start)], op.kind, Len(op.bits))
     IN  ReaderNow(s) /\ got' = [got EXCEPT ![Len(got)] = s.out]
  /\ again' = TRUE
  /\ UNCHANGED <<writing, progress, start>>

Next == \/ \E kind \in Kinds : \E bits \in Payloads(kind) : Call(kind, bits)
        \/ \E i \in 1..MaxOps : Patch(i)
        \/ HandOver
        \/ ReadNext
        \/ ReadAgain

Spec == Init /\ [][Next]_vars

-----------------------------------------------------------------------------
(* The bits a call puts on the wire. *)
Wire(op) == IF op.kind = "bool" /\ ~bitStream THEN Bool(op.bits[1]) ELSE op.bits

WireUpTo(n) == FlattenSeq([i \in 1..n |-> Wire(log[i])])

(* The first n calls fitted in the buffer. *)
Fits(n) == Len(WireUpTo(n)) <= BufferSize * ByteBits

(* While everything fits, the buffer and the pending bits are exactly the  *)
(* bits of the calls so far, in order; synchronize adds only zeros.        *)
NothingLost ==
  Fits(Len(log)) =>
    LET out == FlattenSeq(store.buffer) \o SubSeq(w.byte, 1, w.bits)
        all == WireUpTo(Len(log))
    IN  /\ SubSeq(out, 1, Len(all)) = all
        /\ \A i \in Len(all)+1..Len(out) : out[i] = 0

(* Every call that reads back a call which fitted returns what was         *)
(* written, also when later calls ran over the end of the buffer.          *)
RoundTrip == \A i \in 1..Len(got) : Fits(i) => got[i] = log[i].bits

(* The bytes that the calls so far asked to write, pending bits left out,  *)
(* the zeros of synchronize included.                                      *)
Extent == (Len(WireUpTo(Len(log))) - w.bits + ByteBits - 1) \div ByteBits

(* Counting, buffering and streaming agree on what a program wrote and     *)
(* where it is: a count never falls short, the counting stream's length is *)
(* exact, the buffer and the stream's memory stay within their size and    *)
(* are the same while all fits, and only the stream tells, by failing,     *)
(* when it did not.  Asking for the length moves nobody.                   *)
WritersAgree ==
  ~bitStream =>
    /\ store.count_write_index = Extent
    /\ store.csb.write_pos = Extent /\ store.csb.length = Extent
    /\ store.count_write = store.csb.total_bytes_written
    /\ store.count_write >= Extent
    /\ ~patched => store.count_write = Extent
    /\ {Len(store.buffer), Len(store.mem.memory)} \subseteq 0..BufferSize
    /\ store.wfailed = (Extent > BufferSize)
    /\ ~store.wfailed => /\ store.buffer = store.mem.memory
                         /\ store.buffer_write_index = Extent /\ store.mem.pptr = Extent
    /\ reading => told = [buffer |-> BufferSize, count |-> store.count_write,
                          mem |-> IF store.wfailed THEN -1 ELSE BufferSize,
                          csb |-> Extent]

(* The readers agree on their positions until the end of the memory, also  *)
(* after a program went back; there the stream fails, the counting stream  *)
(* stops, and until somebody sought its get area is where its count is.    *)
ReadersAgree ==
  ~bitStream =>
    LET asked == store.count_read_index
    IN  /\ store.rfailed = (asked > BufferSize)
        /\ ~store.rfailed => /\ store.buffer_read_index = asked
                             /\ store.mem.gptr = asked
        /\ store.csb.read_pos = IF store.rfailed THEN BufferSize ELSE asked
        /\ ~again => /\ store.csb.gptr = store.csb.read_pos
                     /\ store.csb.total_bytes_read = store.csb.read_pos
==============================================================================
