----------------------------- MODULE SerialCalls -----------------------------
(***************************************************************************)
(* Which member function of Serial is running when one is asked to move    *)
(* bytes to or from a stream.  In a bitStream the byte functions are built *)
(* on each other: readBytes calls readByte for each byte, and readByte,    *)
(* when no byte is partly read, calls readBytes for one byte.  A memory    *)
(* buffer, served before that point, has no such loop (SerialBits).  Only  *)
(* the innermost frame is kept: the ones below it wait for it to return.   *)
(***************************************************************************)
EXTENDS Integers

CONSTANTS ByteBits,    \* bits in a byte (8 in the code)
          BitStream    \* the bitStream flag

VARIABLES frame,                \* the innermost function running
          bitsReadReadByte, bitsWrittenWriteByte

vars == <<frame, bitsReadReadByte, bitsWrittenWriteByte>>

Init == /\ frame = "none"
        /\ bitsReadReadByte = ByteBits
        /\ bitsWrittenWriteByte = 0

Partial(bits) == bits \in 1..ByteBits-1

(* The program uses operator>> or operator<< on a trivial value. *)
Call == /\ frame = "none"
        /\ frame' \in {"readBytes", "writeBytes"}
        /\ UNCHANGED <<bitsReadReadByte, bitsWrittenWriteByte>>

(* readBytes and writeBytes hand each byte of a bitStream to readByte and  *)
(* writeByte; otherwise they move the bytes themselves and return.         *)
BytesStep ==
  /\ frame \in {"readBytes", "writeBytes"}
  /\ frame' = IF ~BitStream THEN "none"
              ELSE IF frame = "readBytes" THEN "readByte" ELSE "writeByte"
  /\ UNCHANGED <<bitsReadReadByte, bitsWrittenWriteByte>>

(* With no byte half done, readByte and writeByte call readBytes and       *)
(* writeBytes for the one byte.  (With one half done they would go bit by  *)
(* bit, and call them for the byte that fills up.)                         *)
ByteStep ==
  \/ /\ frame = "readByte" /\ ~Partial(bitsReadReadByte)
     /\ frame' = "readBytes"
     /\ UNCHANGED <<bitsReadReadByte, bitsWrittenWriteByte>>
  \/ /\ frame = "writeByte" /\ ~Partial(bitsWrittenWriteByte)
     /\ frame' = "writeBytes"
     /\ UNCHANGED <<bitsReadReadByte, bitsWrittenWriteByte>>

Next == Call \/ BytesStep \/ ByteStep

(* A function that has been called runs on. *)
Spec == Init /\ [][Next]_vars /\ WF_vars(BytesStep \/ ByteStep)

-----------------------------------------------------------------------------
(* tcp_tests.cpp:79-98, "tcp_server with bitstream mode": a value read     *)
(* from a socket in a bitStream arrives (val is 12345), so the call that   *)
(* reads it returns.                                                       *)
ReadReturns == frame \in {"readBytes", "readByte"} ~> frame = "none"
==============================================================================
