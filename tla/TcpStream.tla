------------------------------ MODULE TcpStream ------------------------------
(***************************************************************************)
(* Two tcp_iostreams on one connection: a program writes to one, another   *)
(* reads from the other.  tcp_streambuf has no buffer of its own: a write  *)
(* is one send, a read is one recv, each after a wait of at most 30 s; the *)
(* kernel cuts and delays the bytes as it likes.  Both ends count their    *)
(* bytes, and both may be closed at any time, the reading end after it has *)
(* drained what is still coming in.  The streams are without TLS.          *)
(***************************************************************************)
EXTENDS Integers, Sequences

CONSTANT SendRoom   \* bytes the kernel holds for a receiver

ASSUME RoomAssumption == SendRoom \in Nat \ {0}

VARIABLES
  sent,               \* every byte the kernel took from the writer, in order
  arrived,            \* how many of them have reached the receiver's kernel
  fin,                \* the writer's end has been shut down
  reset,              \* the connection is broken: nothing passes any more
  write_pos, write_length, wbad,  \* the writing stream and its badbit
  send_failed,                    \* history: a send returned -1
  taken,              \* how many bytes recv has taken out of the kernel
  received,           \* the bytes that read() gave to the program
  read_pos, read_length, rfailed, \* the reading stream, failbit or eofbit set
  stream_empty, connection_closed,
  closing             \* the reader's close: "no", "draining" or "closed"

link == <<sent, arrived, fin, reset>>
wstream == <<write_pos, write_length, wbad, send_failed>>
rflags == <<stream_empty, connection_closed>>
rstream == <<taken, received, read_pos, read_length, rfailed, rflags>>
tcpVars == <<link, wstream, rstream, closing>>

TcpInit == /\ sent = <<>> /\ arrived = 0 /\ fin = FALSE /\ reset = FALSE
           /\ write_pos = 0 /\ write_length = 0
           /\ wbad = FALSE /\ send_failed = FALSE
           /\ taken = 0 /\ received = <<>>
           /\ read_pos = 0 /\ read_length = 0 /\ rfailed = FALSE
           /\ stream_empty = TRUE /\ connection_closed = FALSE
           /\ closing = "no"

(* The network delivers one more byte. *)
Deliver == /\ arrived < Len(sent) /\ closing # "closed" /\ ~reset
           /\ arrived' = arrived + 1
           /\ UNCHANGED <<sent, fin, reset, wstream, rstream, closing>>

(* The connection breaks.  What is on its way is lost, and of what has     *)
(* arrived as much as the kernel drops.                                    *)
ConnectionReset == /\ ~reset /\ closing # "closed"
                   /\ reset' = TRUE
                   /\ arrived' \in taken..arrived
                   /\ UNCHANGED <<sent, fin, wstream, rstream, closing>>

-----------------------------------------------------------------------------
(* The writing stream.  ostream::write sets badbit unless xsputn returns   *)
(* the number of bytes it was given.                                       *)

Room == SendRoom - (Len(sent) - taken)

(* xsputn sends the first k bytes: all of them, or as many as there is     *)
(* room for when the socket is non-blocking.                               *)
Send(bytes, k) ==
  /\ sent' = sent \o SubSeq(bytes, 1, k)
  /\ write_pos' = write_pos + k
  /\ write_length' = write_length + k
  /\ wbad' = (k < Len(bytes))
  /\ UNCHANGED <<arrived, fin, reset, send_failed, rstream, closing>>

(* send fails, since the reading end is closed or the connection broken:   *)
(* sent is a size_t, so that its -1 passes for a number of bytes and is    *)
(* added to the positions.                                                 *)
SendFails == /\ closing = "closed" \/ reset
             /\ write_pos' = write_pos - 1
             /\ write_length' = write_length - 1
             /\ wbad' = TRUE /\ send_failed' = TRUE
             /\ UNCHANGED <<link, rstream, closing>>

(* 30 s pass without room: 0. *)
SendTimesOut == /\ Room = 0 /\ closing # "closed"
                /\ wbad' = TRUE
                /\ UNCHANGED <<link, write_pos, write_length, send_failed,
                               rstream, closing>>

(* write(bytes): nothing is done by a stream that is bad. *)
Write(bytes) ==
  IF wbad \/ bytes = <<>>
  THEN UNCHANGED tcpVars
  ELSE \/ \E k \in 1..Len(bytes) : k <= Room /\ Send(bytes, k)
       \/ SendFails
       \/ SendTimesOut

(* close: shutdown, and the end of the stream follows the last byte.       *)
CloseWriter == /\ fin' = TRUE
               /\ UNCHANGED <<sent, arrived, reset, wstream, rstream, closing>>

-----------------------------------------------------------------------------
(* The reading stream. *)

AtEnd == fin /\ taken = Len(sent)
Waiting == arrived - taken
Lesser(a, b) == IF a <= b THEN a ELSE b

(* What read(n) finds: nothing if the stream has failed before. *)
FoundBy(n) == IF rfailed THEN 0 ELSE Lesser(n, Waiting)

(* recv gives what is there, up to n bytes. *)
Recv_OnePosition(n) ==                                       \* mutant
  /\ taken' = taken + n
  /\ received' = received \o SubSeq(sent, taken + 1, taken + n)
  /\ read_pos' = read_pos + 1
  /\ read_length' = read_length + 1
  /\ stream_empty' = FALSE
  /\ UNCHANGED connection_closed
Recv(n) == /\ taken' = taken + n
           /\ received' = received \o SubSeq(sent, taken + 1, taken + n)
           /\ read_pos' = read_pos + n
           /\ read_length' = read_length + n
           /\ stream_empty' = FALSE
           /\ UNCHANGED connection_closed

(* Nothing is taken.  Either recv returns 0, since the peer has shut down  *)
(* its end, or it fails on a broken connection: both close it.  Or 30 s    *)
(* pass without a byte and nothing is said, or there is none after all     *)
(* (EAGAIN), which sets stream_empty.                                      *)
RecvNothing_TimeoutCloses ==                                 \* mutant
  /\ connection_closed' = TRUE
  /\ UNCHANGED <<taken, received, read_pos, read_length, stream_empty>>
RecvNothing ==
  /\ \/ /\ AtEnd \/ reset
        /\ connection_closed' = TRUE
        /\ UNCHANGED stream_empty
     \/ /\ ~reset
        /\ stream_empty' \in {stream_empty, TRUE}
        /\ UNCHANGED connection_closed
  /\ UNCHANGED <<taken, received, read_pos, read_length>>

(* read(n): istream::read sets eofbit and failbit when it comes short, as  *)
(* it does whenever the one recv gave less than n.                         *)
Read(n) ==
  LET k == FoundBy(n)
  IN  /\ IF rfailed \/ n = 0 THEN UNCHANGED <<taken, received, read_pos,
                                              read_length, rflags>>
         ELSE IF k > 0 THEN Recv(k)
         ELSE RecvNothing
      /\ rfailed' = (rfailed \/ k < n)
      /\ UNCHANGED <<link, wstream, closing>>

(* clear() *)
ClearReader_Not == UNCHANGED rfailed                         \* mutant
ClearReader == rfailed' = FALSE

(* close of the reading end: shutdown, then one byte after another is      *)
(* thrown away until none comes for a millisecond or the peer has ended.   *)
CloseReader == /\ closing = "no"
               /\ closing' = "draining"
               /\ UNCHANGED <<link, wstream, rstream>>

DrainByte_Peeked ==                                          \* mutant
  closing = "draining" /\ Waiting > 0 /\ UNCHANGED tcpVars
DrainByte == /\ closing = "draining" /\ Waiting > 0
             /\ taken' = taken + 1
             /\ UNCHANGED <<link, wstream, received, read_pos, read_length,
                            rfailed, rflags, closing>>

DrainEnds == /\ closing = "draining" /\ Waiting = 0
             /\ closing' = "closed"
             /\ UNCHANGED <<link, wstream, rstream>>

-----------------------------------------------------------------------------
TcpTypeOK ==
  /\ arrived \in 0..Len(sent) /\ taken \in 0..arrived
  /\ Len(sent) - taken <= SendRoom
  /\ fin \in BOOLEAN /\ reset \in BOOLEAN
  /\ wbad \in BOOLEAN /\ send_failed \in BOOLEAN
  /\ rfailed \in BOOLEAN /\ stream_empty \in BOOLEAN
  /\ connection_closed \in BOOLEAN
  /\ closing \in {"no", "draining", "closed"}

(* The two ends count the same bytes: the position of the writer is what   *)
(* the kernel took (as long as no send has failed), that of the reader     *)
(* what it got, whatever was cut, timed out or thrown away on closing.     *)
PositionsCount == /\ ~send_failed => write_pos = Len(sent)
                  /\ read_pos = Len(received) /\ read_length = read_pos

(* The reader gets a prefix of what was sent, each byte once. *)
InOrder == /\ Len(received) <= taken
           /\ received = SubSeq(sent, 1, Len(received))

(* Both ends agree on what passed between them: the same bytes in the same *)
(* order, and as many as each of them counts (xsputn, xsgetn).             *)
EndsAgree == InOrder /\ PositionsCount

(* connection_closed is set only when no byte can come any more: the peer  *)
(* has finished and everything is taken, or the connection broke and what  *)
(* the kernel still had is taken.  No wait that timed out and no EAGAIN    *)
(* passes for the end (xsgetn).                                            *)
ClosedMeansEnd == connection_closed => Waiting = 0 /\ (AtEnd \/ reset)

(* close of the reading end comes back, however much is still on its way,  *)
(* provided the peer stops sending at last: nothing else bounds the loop   *)
(* in close_socket.                                                        *)
CloseReturns == closing = "draining" ~> closing = "closed"
==============================================================================
