--------------------------- MODULE CountingStreambuf --------------------------
(***************************************************************************)
(* counting_streambuf: what is written is only counted; what is read comes *)
(* from a buffer, through a get area that ends with it, and is counted as  *)
(* well.  The put area that the constructor sets is not used by xsputn.    *)
(***************************************************************************)
EXTENDS Integers

CONSTANT BufferSize   \* buffer_size

NewCounting == [write_pos |-> 0, length |-> 0, total_bytes_written |-> 0,
                read_pos |-> 0, gptr |-> 0, total_bytes_read |-> 0]

(* The length after the write position has come to pos. *)
Longer(c, pos) == IF pos > c.length THEN pos ELSE c.length

xsputn(c, n) == [c EXCEPT !.total_bytes_written = @ + n,
                          !.write_pos = @ + n,
                          !.length = Longer(c, c.write_pos + n)]

(* underflow: where the get area begins again when it is used up, which is *)
(* at its end unless somebody sought.                                      *)
underflow(gptr, read_pos) == IF read_pos < BufferSize THEN read_pos ELSE gptr

(* xsgetn: a round reads what the area has, which is filled first if it is *)
(* used up; after two there is nothing more to take: the first comes to    *)
(* the end of the area, the second to the end of the buffer.               *)
Round(c, n) ==
  LET from == IF c.gptr < BufferSize THEN c.gptr ELSE underflow(c.gptr, c.read_pos)
      k == IF n <= BufferSize - from THEN n ELSE BufferSize - from
  IN  [c EXCEPT !.gptr = from + k, !.read_pos = @ + k, !.total_bytes_read = @ + k]
xsgetn(c, n) == LET once == Round(c, n)
                IN  Round(once, n - (once.read_pos - c.read_pos))

(* seekoff moves a position; the get area stays where it was. *)
Place(pos, length, off, way) == CASE way = "beg" -> off
                                  [] way = "cur" -> pos + off
                                  [] way = "end" -> length + off
seekoff_out(c, off, way) ==
  LET pos == Place(c.write_pos, c.length, off, way)
  IN  [c EXCEPT !.write_pos = pos, !.length = Longer(c, pos)]
seekoff_in(c, off, way) == [c EXCEPT !.read_pos = Place(@, c.length, off, way)]
==============================================================================
