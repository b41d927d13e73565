---------------------------- MODULE SerialBackends ----------------------------
(***************************************************************************)
(* What a Serial without bitStream moves its bytes to and from: a buffer   *)
(* (buffer mode), nothing at all (count mode), or a stream, here one on a  *)
(* memory_streambuf and one on a counting_streambuf.  The state of the     *)
(* four is one record, and every operation acts on the four alike, which   *)
(* is what a program does that first counts and then writes.               *)
(***************************************************************************)
EXTENDS Integers, Sequences

CONSTANT BufferSize   \* buffer_size, and the size of the stream's memory

Mem == INSTANCE MemoryStreambuf
Csb == INSTANCE CountingStreambuf

(* failed is the stream's failbit or badbit: once it is set, reading,      *)
(* writing and seeking do nothing and the position is -1.                  *)
NewBackends ==
  [buffer |-> <<>>, buffer_write_index |-> 0, buffer_read_index |-> 0,
   count_write |-> 0, count_write_index |-> 0, count_read_index |-> 0,
   mem |-> Mem!NewMemory, wfailed |-> FALSE, rfailed |-> FALSE,
   csb |-> Csb!NewCounting]

(* Buffer mode moves all of the bytes or none, without a word. *)
BufferWrite(b, bytes) ==
  IF b.buffer_write_index <= BufferSize - Len(bytes)
  THEN [b EXCEPT !.buffer = Mem!Over(@, b.buffer_write_index, bytes),
                 !.buffer_write_index = @ + Len(bytes)]
  ELSE b

BufferReads_Less(b, n) == b.buffer_read_index < BufferSize - n  \* mutant
BufferReads(b, n) == b.buffer_read_index <= BufferSize - n
BufferRead(b, n) == IF BufferReads(b, n)
                    THEN [b EXCEPT !.buffer_read_index = @ + n] ELSE b

(* ostream::write and istream::read on the memory: a short one fails. *)
StreamWrite(b, bytes) ==
  IF b.wfailed THEN b
  ELSE [b EXCEPT !.mem = Mem!xsputn(@, bytes),
                 !.wfailed = Len(bytes) > BufferSize - b.mem.pptr]
StreamRead(b, n) ==
  IF b.rfailed THEN b
  ELSE [b EXCEPT !.mem = Mem!xsgetn(@, n), !.rfailed = n > BufferSize - b.mem.gptr]

CountWrite(b, n) == [b EXCEPT !.count_write = @ + n, !.count_write_index = @ + n,
                              !.csb = Csb!xsputn(@, n)]
CountRead(b, n) == [b EXCEPT !.count_read_index = @ + n, !.csb = Csb!xsgetn(@, n)]

WriteAll(b, bytes) == CountWrite(StreamWrite(BufferWrite(b, bytes), bytes), Len(bytes))
ReadAll(b, n) == CountRead(StreamRead(BufferRead(b, n), n), n)

-----------------------------------------------------------------------------
(* Positions.  Each of the four has its own. *)

getWritePosition(b) == [buffer |-> b.buffer_write_index, count |-> b.count_write_index,
                        mem |-> IF b.wfailed THEN -1 ELSE b.mem.pptr,
                        csb |-> b.csb.write_pos]
getReadPosition(b) == [buffer |-> b.buffer_read_index, count |-> b.count_read_index,
                       mem |-> IF b.rfailed THEN -1 ELSE b.mem.gptr,
                       csb |-> b.csb.read_pos]

(* seekp and seekg of the two streams, from the beginning or the end. *)
SeekOut(b, at, way) ==
  [b EXCEPT !.mem = IF b.wfailed THEN @ ELSE Mem!seekoff_out(@, at.mem, way),
            !.csb = Csb!seekoff_out(@, at.csb, way)]
SeekIn(b, at, way) ==
  [b EXCEPT !.mem = IF b.rfailed THEN @ ELSE Mem!seekoff_in(@, at.mem, way),
            !.csb = Csb!seekoff_in(@, at.csb, way)]

setWritePosition_StreamsOnly(b, at) == SeekOut(b, at, "beg")  \* mutant
setWritePosition(b, at) ==
  SeekOut([b EXCEPT !.buffer_write_index = at.buffer, !.count_write_index = at.count],
          at, "beg")
setReadPosition(b, at) ==
  SeekIn([b EXCEPT !.buffer_read_index = at.buffer, !.count_read_index = at.count],
         at, "beg")

(* getWriteLength: a stream is sought to its end and back, the other two   *)
(* know their size.  Lengths is what the four answer.                      *)
AtEnd(b) == SeekOut(b, [mem |-> 0, csb |-> 0], "end")
Lengths(b) == [getWritePosition(AtEnd(b)) EXCEPT !.buffer = BufferSize,
                                                 !.count = b.count_write]
getWriteLength(b) == SeekOut(AtEnd(b), getWritePosition(b), "beg")
==============================================================================
