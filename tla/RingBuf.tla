------------------------------- MODULE RingBuf -------------------------------
(***************************************************************************)
(* ringbuf (ring_streambuf.hpp): a single-producer single-consumer ring of *)
(* bytes in shared memory.  One thread writes (xsputn -> write_internal),  *)
(* one thread reads (xsgetn -> read_internal); they share the atomic       *)
(* indices head and tail and the bytes themselves, which are copied with   *)
(* plain memcpy.  A step is one atomic load of the other thread's index,   *)
(* one byte copied, or one atomic store: the finest interleaving the code  *)
(* allows, since a thread is the only one to store its own index.  A       *)
(* position told (seekoff by 0 from cur) loads and stores a thread's own   *)
(* index unchanged.                                                        *)
(*                                                                         *)
(* Bytes carry their position in the writer's stream: a caller whose write *)
(* was cut short offers the bytes that were not taken again.               *)
(***************************************************************************)
EXTENDS Integers, Sequences

CONSTANTS
  Size,         \* ringbuffer_size
  Modes,        \* what the non_blocking flag may be, a subset of BOOLEAN
  FullSpins,    \* yields before a non-blocking write gives up (100 in the code)
  EmptySpins,   \* yields before a non-blocking read gives up (1000000)
  MaxCall,      \* bound: bytes asked for in one call
  MaxBytes      \* bound: bytes ever offered

ASSUME SizeAssumption == Size \in Nat \ {0}
ASSUME ModeAssumption == Modes \subseteq BOOLEAN
ASSUME BoundAssumption == /\ FullSpins \in Nat /\ EmptySpins \in Nat
                          /\ MaxCall \in Nat /\ MaxBytes \in Nat

VARIABLES
  non_blocking, \* the flag, read by both threads and never changed
  head, tail,   \* the indices of ring_header
  cells,        \* the bytes of ringbuffer
  wpc, wn, written, wchunk, wcopied, full_spins,      \* the writing thread
  rpc, rn, read_bytes, rchunk, rcopied, empty_spins,  \* the reading thread
  sent,         \* how many bytes have been published so far
  received      \* every byte copied to the reader's buffers, or skipped

writer == <<non_blocking, wpc, wn, written, wchunk, wcopied, full_spins>>
reader == <<non_blocking, rpc, rn, read_bytes, rchunk, rcopied, empty_spins>>
vars == <<head, tail, cells, writer, reader, sent, received>>

Index == 0..Size-1
Uninit == 0     \* the constructor does not clear the memory it is given
Smaller(a, b) == IF a <= b THEN a ELSE b

(* The bytes ready to be read and the room left; one slot always stays     *)
(* empty so that head = tail means empty.                                  *)
available_read == (head + Size - tail) % Size

available_write_FullIsEmpty == Size - available_read        \* mutant
available_write_SizeForgotten == (tail + Size - head) % Size  \* mutant
available_write == (Size - 1 + tail - head) % Size

(* An index after k more bytes. *)
Advance_NoWrap(index, k) == index + k                        \* mutant
Advance(index, k) == (index + k) % Size

Init == /\ non_blocking \in Modes
        /\ head = 0 /\ tail = 0
        /\ cells = [i \in Index |-> Uninit]
        /\ wpc = "idle" /\ wn = 0 /\ written = 0 /\ wchunk = 0
        /\ wcopied = 0 /\ full_spins = 0
        /\ rpc = "idle" /\ rn = 0 /\ read_bytes = 0 /\ rchunk = 0
        /\ rcopied = 0 /\ empty_spins = 0
        /\ sent = 0 /\ received = <<>>

(* The cell of the i-th byte of a chunk that starts at index `from`: the   *)
(* first memcpy runs to the end of the ring, the second from its start.    *)
CopyIndex_NoSecondCopy(from, chunk, i) ==                    \* mutant
  Smaller(from + i, Size - 1)
CopyIndex(from, chunk, i) ==
  LET end == Smaller(chunk, Size - from)
  IN  IF i < end THEN from + i ELSE i - end

(* What lies between the two indices, cell by cell. *)
Between == [i \in 1..available_read |-> cells[(tail + i - 1) % Size]]

-----------------------------------------------------------------------------
(* The writing thread. *)

(* xsputn(s, n) is called. *)
WriteCall(n) ==
  /\ wpc = "idle"
  /\ sent + n <= MaxBytes
  /\ wpc' = "loop" /\ wn' = n /\ written' = 0 /\ full_spins' = 0
  /\ UNCHANGED <<head, tail, cells, wchunk, wcopied, reader, sent, received>>

(* There is room: the size of the next chunk is fixed. *)
WriteReserve ==
  /\ wpc = "loop" /\ written < wn
  /\ available_write > 0
  /\ wchunk' = Smaller(available_write, wn - written)
  /\ wcopied' = 0
  /\ wpc' = "copy"
  /\ UNCHANGED <<head, tail, cells, wn, written, full_spins, reader, sent,
                 received>>

(* A non-blocking write that has placed something, or has yielded long     *)
(* enough, does not wait for room.                                         *)
WriteGivesUp == non_blocking /\ (written > 0 \/ full_spins > FullSpins)

(* The ring is full: a non-blocking write that has placed nothing yields   *)
(* and retries; a blocking one does so for ever, with nothing changed.     *)
WriteSpin_Uncounted ==                                       \* mutant
  /\ wpc = "loop" /\ written < wn /\ available_write = 0
  /\ non_blocking /\ ~WriteGivesUp
  /\ UNCHANGED vars
WriteSpin ==
  /\ wpc = "loop" /\ written < wn
  /\ available_write = 0
  /\ non_blocking /\ ~WriteGivesUp
  /\ full_spins' = full_spins + 1
  /\ UNCHANGED <<head, tail, cells, wpc, wn, written, wchunk, wcopied, reader,
                 sent, received>>

WriteCopy ==
  /\ wpc = "copy" /\ wcopied < wchunk
  /\ cells' = [cells EXCEPT ![CopyIndex(head, wchunk, wcopied)] =
                 sent + wcopied + 1]
  /\ wcopied' = wcopied + 1
  /\ UNCHANGED <<head, tail, wpc, wn, written, wchunk, full_spins, reader,
                 sent, received>>

WritePublish ==
  /\ wpc = "copy" /\ wcopied = wchunk
  /\ head' = Advance(head, wchunk)
  /\ written' = written + wchunk
  /\ sent' = sent + wchunk
  /\ wpc' = "loop" /\ wchunk' = 0 /\ wcopied' = 0
  /\ UNCHANGED <<tail, cells, wn, full_spins, reader, received>>

(* The loop ends with every byte placed, or a non-blocking write gives up. *)
WriteReturn ==
  /\ wpc = "loop"
  /\ \/ written = wn
     \/ written < wn /\ available_write = 0 /\ WriteGivesUp
  /\ wpc' = "idle" /\ wn' = 0 /\ written' = 0 /\ full_spins' = 0
  /\ UNCHANGED <<head, tail, cells, wchunk, wcopied, reader, sent, received>>

WriterStep == \/ WriteReserve \/ WriteSpin \/ WriteCopy \/ WritePublish
              \/ WriteReturn

-----------------------------------------------------------------------------
(* The reading thread. *)

(* xsgetn(s, n) is called. *)
ReadCall(n) ==
  /\ rpc = "idle"
  /\ rpc' = "loop" /\ rn' = n /\ read_bytes' = 0 /\ empty_spins' = 0
  /\ UNCHANGED <<head, tail, cells, writer, rchunk, rcopied, sent, received>>

ReadReserve ==
  /\ rpc = "loop" /\ read_bytes < rn
  /\ available_read > 0
  /\ rchunk' = Smaller(available_read, rn - read_bytes)
  /\ rcopied' = 0
  /\ rpc' = "copy"
  /\ UNCHANGED <<head, tail, cells, writer, rn, read_bytes, empty_spins, sent,
                 received>>

ReadGivesUp == non_blocking /\ (read_bytes > 0 \/ empty_spins > EmptySpins)

ReadSpin ==
  /\ rpc = "loop" /\ read_bytes < rn
  /\ available_read = 0
  /\ non_blocking /\ ~ReadGivesUp
  /\ empty_spins' = empty_spins + 1
  /\ UNCHANGED <<head, tail, cells, writer, rpc, rn, read_bytes, rchunk,
                 rcopied, sent, received>>

ReadCopy ==
  /\ rpc = "copy" /\ rcopied < rchunk
  /\ received' = Append(received, cells[CopyIndex(tail, rchunk, rcopied)])
  /\ rcopied' = rcopied + 1
  /\ UNCHANGED <<head, tail, cells, writer, rpc, rn, read_bytes, rchunk,
                 empty_spins, sent>>

ReadRelease ==
  /\ rpc = "copy" /\ rcopied = rchunk
  /\ tail' = Advance(tail, rchunk)
  /\ read_bytes' = read_bytes + rchunk
  /\ rpc' = "loop" /\ rchunk' = 0 /\ rcopied' = 0
  /\ UNCHANGED <<head, cells, writer, rn, empty_spins, sent, received>>

ReadReturn ==
  /\ rpc = "loop"
  /\ \/ read_bytes = rn
     \/ read_bytes < rn /\ available_read = 0 /\ ReadGivesUp
  /\ rpc' = "idle" /\ rn' = 0 /\ read_bytes' = 0 /\ empty_spins' = 0
  /\ UNCHANGED <<head, tail, cells, writer, rchunk, rcopied, sent, received>>

(* seekg(0, end) by the reading thread: it loads the writer's index ...    *)
SeekEnd ==
  /\ rpc = "idle"
  /\ rchunk' = available_read
  /\ received' = received \o Between /\ rcopied' = available_read
  /\ rpc' = "seek"
  /\ UNCHANGED <<head, tail, cells, writer, rn, read_bytes, empty_spins, sent>>

(* ... and stores it as its own, which the writer may have left behind.    *)
SeekStore ==
  /\ rpc = "seek"
  /\ tail' = Advance(tail, rchunk)
  /\ rpc' = "idle" /\ rchunk' = 0 /\ rcopied' = 0
  /\ UNCHANGED <<head, cells, writer, rn, read_bytes, empty_spins, sent,
                 received>>

ReaderStep == \/ ReadReserve \/ ReadSpin \/ ReadCopy \/ ReadRelease
              \/ ReadReturn \/ SeekStore

-----------------------------------------------------------------------------
Next == \/ \E n \in 0..MaxCall : WriteCall(n) \/ ReadCall(n)
        \/ SeekEnd
        \/ WriterStep
        \/ ReaderStep

Spec == Init /\ [][Next]_vars

(* The scheduler runs both threads; nobody has to make a further call.     *)
FairSpec == Spec /\ WF_vars(WriterStep) /\ WF_vars(ReaderStep)

-----------------------------------------------------------------------------
(* Every variable has its type, and the indices stay inside the ring. *)
TypeOK ==
  /\ non_blocking \in BOOLEAN
  /\ head \in Index /\ tail \in Index
  /\ cells \in [Index -> Nat]
  /\ wpc \in {"idle", "loop", "copy"}
  /\ rpc \in {"idle", "loop", "copy", "seek"}
  /\ wn \in Nat /\ written \in Nat /\ wchunk \in Nat /\ wcopied \in Nat
  /\ rn \in Nat /\ read_bytes \in Nat /\ rchunk \in Nat /\ rcopied \in Nat
  /\ full_spins \in Nat /\ empty_spins \in Nat
  /\ sent \in Nat
  /\ received \in Seq(Nat)

(* The cells a memcpy in progress still has to touch. *)
WriteWindow == {CopyIndex(head, wchunk, i) : i \in wcopied..wchunk-1}
ReadWindow == {CopyIndex(tail, rchunk, i) : i \in rcopied..rchunk-1}

(* The plain memcpy of the writer and that of the reader never touch the   *)
(* same byte of the ring while both are under way: were they to, the read  *)
(* would be a data race (write_internal, read_internal).                   *)
NoDataRace == WriteWindow \cap ReadWindow = {}

(* The reader gets every byte, once, in the order written, and never a     *)
(* byte the writer has not published (read_internal's result).             *)
Fifo == /\ \A i \in 1..Len(received) : received[i] = i
        /\ Len(received) <= sent

(* The bytes the reader has finished with: the loop has stored tail. *)
Released == Len(received) - rcopied

(* The two indices, each stored by another thread, never disagree with     *)
(* what was really written and read: the bytes between them are exactly    *)
(* those published and not released, and they never fill the ring.         *)
IndicesAgree == /\ sent - Released = available_read
                /\ available_read + available_write = Size - 1

(* A chunk being copied still fits: the room a writer saw can only grow,   *)
(* the bytes a reader saw can only increase, until the thread itself       *)
(* stores its index.                                                       *)
ChunksFit ==
  /\ wcopied <= wchunk /\ wchunk <= available_write
  /\ rcopied <= rchunk /\ rchunk <= available_read
  /\ wpc # "copy" => wchunk = 0 /\ wcopied = 0
  /\ rpc \notin {"copy", "seek"} => rchunk = 0 /\ rcopied = 0
  /\ rpc = "seek" => rcopied = rchunk /\ read_bytes <= rn
  /\ written + wchunk <= wn
  /\ rpc = "seek" \/ read_bytes + rchunk <= rn
  /\ rcopied <= Len(received)

(* The bytes between tail and head are the unreleased ones, in order, and  *)
(* those the writer has copied past head follow on.                        *)
Contents ==
  /\ \A j \in 0..available_read-1 :
       cells[(tail + j) % Size] = Released + j + 1
  /\ \A i \in 0..wcopied-1 : cells[(head + i) % Size] = sent + i + 1

(* The inductive invariant: no part of it is preserved without the others. *)
RingInv == TypeOK /\ IndicesAgree /\ ChunksFit /\ Contents /\ Fifo

(* Two calls under way cannot both be waiting for the other: a blocking    *)
(* writer and a blocking reader never deadlock, provided the ring holds    *)
(* at least one byte (Size >= 2).                                          *)
NeverBothStuck ==
  ~ /\ wpc = "loop" /\ written < wn /\ available_write = 0
    /\ rpc = "loop" /\ read_bytes < rn /\ available_read = 0

-----------------------------------------------------------------------------
(* The ring implements the bounded pipe: the pipe is what lies between     *)
(* tail and head, read cell by cell.                                       *)
Pipe == INSTANCE BoundedPipe
          WITH Capacity <- Size - 1,
               accepted <- sent,
               pipe <- Between,
               delivered <- SubSeq(received, 1, Released)

(* Each publication of head puts a run of new bytes in the pipe and each   *)
(* publication of tail takes the oldest run out of it; every other step of *)
(* either thread, each byte copied included, leaves the pipe as it was.    *)
ImplementsPipe == Pipe!Spec

(* A non-blocking call returns, whatever the other thread does; and when a *)
(* writer and a reader are both in a call, blocking or not, one of the two *)
(* calls completes (the loops of write_internal and read_internal).        *)
CallsReturn ==
  /\ (non_blocking /\ wpc # "idle") ~> wpc = "idle"
  /\ (non_blocking /\ rpc # "idle") ~> rpc = "idle"
  /\ (wpc # "idle" /\ rpc # "idle") ~> (wpc = "idle" \/ rpc = "idle")
==============================================================================
