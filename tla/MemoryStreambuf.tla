---------------------------- MODULE MemoryStreambuf ---------------------------
(***************************************************************************)
(* memory_streambuf: a put area and a get area, both over all of a memory  *)
(* of a fixed size.  A stream buffer is a record of its memory, as far as  *)
(* it was written, and of the offsets of pptr and gptr.                    *)
(***************************************************************************)
EXTENDS Integers, Sequences

CONSTANT BufferSize   \* bytes of the memory

NewMemory == [memory |-> <<>>, pptr |-> 0, gptr |-> 0]

(* bytes laid over a memory from index on (memcpy). *)
Over(memory, index, bytes) ==
  SubSeq(memory, 1, index) \o bytes
    \o SubSeq(memory, index + Len(bytes) + 1, Len(memory))

(* xsputn and xsgetn move as many bytes as there is room for. *)
AtMost(n, avail) == IF n > avail THEN avail ELSE n
xsputn(m, bytes) ==
  LET n == AtMost(Len(bytes), BufferSize - m.pptr)
  IN  [m EXCEPT !.memory = Over(@, m.pptr, SubSeq(bytes, 1, n)), !.pptr = @ + n]
xsgetn(m, n) == [m EXCEPT !.gptr = @ + AtMost(n, BufferSize - m.gptr)]

(* seekoff: where an area's next pointer goes, or -1 outside the memory. *)
Place(next, off, way) ==
  LET place == CASE way = "beg" -> off
                 [] way = "cur" -> next + off
                 [] way = "end" -> BufferSize + off
  IN  IF place \in 0..BufferSize THEN place ELSE -1
seekoff_out(m, off, way) ==
  LET place == Place(m.pptr, off, way)
  IN  IF place = -1 THEN m ELSE [m EXCEPT !.pptr = place]
seekoff_in(m, off, way) ==
  LET place == Place(m.gptr, off, way)
  IN  IF place = -1 THEN m ELSE [m EXCEPT !.gptr = place]
==============================================================================
