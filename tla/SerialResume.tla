----------------------------- MODULE SerialResume ----------------------------
(***************************************************************************)
(* Serial over a TCP connection: a program writes std::strings to its      *)
(* tcp_iostream and closes it; another reads them with readTypeWithBuffer. *)
(* A socket cannot be read twice, so what a read that came short has taken *)
(* from it is kept in a second Serial over a stringstream, the buffer, and *)
(* the next attempt reads from there first.  When readTypeWithBuffer says  *)
(* false, the program clears the stream, puts the buffer back to where the *)
(* string began, and tries again.                                          *)
(***************************************************************************)
EXTENDS TcpStream, SerialString

CONSTANTS
  Lengths,      \* lengths of strings; 0 is never counted as complete
  MaxStrings    \* bound: strings written

ASSUME LengthAssumption == Lengths \subseteq 1..MaxLen /\ MaxStrings \in Nat

VARIABLES
  lengths,      \* the strings written, by length
  wnext,        \* the next call of writeBytes, two for each string
  buffer, bpos, \* the stringstream of the buffer, and its get position
  read_empty, buffer_read_empty,  \* the flags of the two Serials
  pc,           \* where the reading program is
  str,          \* the string read into, used again for each
  begin,        \* the buffer's position where it began
  accepted      \* the strings readTypeWithBuffer took to be whole

program == <<read_empty, buffer_read_empty, buffer, bpos, pc, str, begin,
             accepted>>
vars == <<tcpVars, lengths, wnext, program>>

Init == /\ TcpInit
        /\ lengths \in UNION {[1..n -> Lengths] : n \in 1..MaxStrings}
        /\ wnext = 1
        /\ buffer = <<>> /\ bpos = 0
        /\ read_empty = FALSE /\ buffer_read_empty = FALSE
        /\ pc = "size" /\ str = <<>> /\ begin = 0 /\ accepted = <<>>

-----------------------------------------------------------------------------
(* The writing program.  serialize writes the size and the characters;     *)
(* writeBytes does not look at what became of them.                        *)

Part(k) == LET n == (k + 1) \div 2
           IN  IF k % 2 = 1 THEN Digits(lengths[n]) ELSE Chars(n, lengths[n])

WriteNext == /\ wnext <= 2 * Len(lengths) /\ ~fin
             /\ Write(Part(wnext))
             /\ wnext' = wnext + 1
             /\ UNCHANGED <<lengths, program>>

(* It is done, or leaves its work half done. *)
CloseStream == /\ ~fin
               /\ CloseWriter
               /\ UNCHANGED <<lengths, wnext, program>>

-----------------------------------------------------------------------------
(* The reading program. *)

(* readBytesWithBuffer(dest, n): as much as the buffer has comes from     *)
(* there, and what is left of the n bytes from the socket.                 *)
Kept == Len(buffer) - bpos
FromBuffer(n) == Lesser(n, Kept)
Left_All(n) == n                                             \* mutant
Left(n) == n - FromBuffer(n)
Replayed(n) == SubSeq(buffer, bpos + 1, bpos + FromBuffer(n))
Fresh(n) == SubSeq(sent, taken + 1, taken + FoundBy(Left(n)))

(* What came from the socket is appended to the buffer.  *)
Keep_WholeOnly(n) == buffer' = IF FoundBy(Left(n)) < Left(n) \* mutant
                               THEN buffer ELSE buffer \o Fresh(n)
Keep(n) == buffer' = buffer \o Fresh(n)

(* The buffer's get position moves behind all of it.  in_avail() is what   *)
(* is left of the buffer, and 0 of a socket.                               *)
ReadBytesWithBuffer(n) ==
  LET b == FromBuffer(n)
      k == FoundBy(Left(n))
  IN  /\ buffer_read_empty' = ((b = 0 \/ b # n) /\ Kept = b)
      /\ IF b > 0 /\ b = n
         THEN bpos' = bpos + n /\ UNCHANGED <<tcpVars, buffer, read_empty>>
         ELSE /\ Read(Left(n))
              /\ read_empty' = (k = 0 \/ k # Left(n))
              /\ Keep(n)
              /\ bpos' = bpos + b + k

Found(n) == Replayed(n) \o (IF FromBuffer(n) = n THEN <<>> ELSE Fresh(n))

(* deserialize(serial, str): the size, over that of the string passed in.  *)
(* Nobody asks did_not_read_whole_size, so the guard after it never holds. *)
ReadSize ==
  /\ pc = "size" /\ closing = "no"
  /\ ReadBytesWithBuffer(SizeBytes)
  /\ str' = Resized(str, Size(Into(Digits(Len(str)), SizeBytes,
                                   Found(SizeBytes))))
  /\ pc' = "chars"
  /\ UNCHANGED <<lengths, wnext, begin, accepted>>

ReadChars ==
  /\ pc = "chars"
  /\ ReadBytesWithBuffer(Len(str))
  /\ str' = Into(str, Len(str), Found(Len(str)))
  /\ pc' = "returned"
  /\ UNCHANGED <<lengths, wnext, begin, accepted>>

(* What readTypeWithBuffer returns: both Serials' flags would have to say  *)
(* that bytes were missing.                                                *)
Whole == ~(buffer_read_empty /\ read_empty)

Accept ==
  /\ pc = "returned" /\ Whole
  /\ accepted' = Append(accepted, str)
  /\ begin' = bpos
  /\ pc' = IF Len(accepted') = Len(lengths) THEN "finished" ELSE "size"
  /\ UNCHANGED <<tcpVars, lengths, wnext, read_empty, buffer_read_empty,
                 buffer, bpos, str>>

(* clearRead of the socket's Serial, setReadPosition of the buffer's. *)
Retry ==
  /\ pc = "returned" /\ ~Whole
  /\ ClearReader
  /\ bpos' = begin
  /\ pc' = "size"
  /\ UNCHANGED <<link, wstream, taken, received, read_pos, read_length,
                 rflags, closing, lengths, wnext, read_empty,
                 buffer_read_empty, buffer, str, begin, accepted>>

(* The program gives up, or is done, and closes its end. *)
GiveUp == /\ pc \in {"size", "finished"}
          /\ CloseReader
          /\ UNCHANGED <<lengths, wnext, program>>

-----------------------------------------------------------------------------
Network == Deliver /\ UNCHANGED <<lengths, wnext, program>>
Break == ConnectionReset /\ UNCHANGED <<lengths, wnext, program>>
Draining == (DrainByte \/ DrainEnds) /\ UNCHANGED <<lengths, wnext, program>>
Reading == ReadSize \/ ReadChars \/ Accept \/ Retry

Next == \/ WriteNext \/ CloseStream \/ Network \/ Break
        \/ Reading \/ GiveUp \/ Draining

(* The programs go on, a close under way included, and the network         *)
(* delivers; nobody has to close, and the connection need not break.       *)
Spec == /\ Init /\ [][Next]_vars
        /\ WF_vars(WriteNext) /\ WF_vars(Network) /\ WF_vars(Reading)
        /\ WF_vars(Draining)

-----------------------------------------------------------------------------
(* Every variable has its type; the replaying Serial never runs past what  *)
(* its buffer keeps (readBytesWithBuffer).                                 *)
TypeOK == /\ TcpTypeOK
          /\ wnext \in 1..2 * Len(lengths) + 1
          /\ bpos \in begin..Len(buffer) /\ begin \in Nat
          /\ read_empty \in BOOLEAN /\ buffer_read_empty \in BOOLEAN
          /\ pc \in {"size", "chars", "returned", "finished"}
          /\ Len(accepted) <= Len(lengths)

(* No byte that was taken from the socket is lost to the next attempt,     *)
(* however often a string came short (readBytesWithBuffer).                *)
KeptForRetry == buffer = received

(* A string that readTypeWithBuffer took to be whole is the one that was   *)
(* written: wherever the segments end, whenever a read times out, and also *)
(* when the writer could send only part of it or closed in the middle.     *)
AcceptedWhole ==
  \A n \in 1..Len(accepted) : accepted[n] = Chars(n, lengths[n])

(* As long as nobody closes, no write comes short and the connection does  *)
(* not break, every string is read in the end.                             *)
AllRead == <>(\/ Len(accepted) = Len(lengths)
              \/ wbad \/ fin \/ reset \/ closing # "no")
==============================================================================
