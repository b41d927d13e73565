----------------------------- MODULE SerialString ----------------------------
(***************************************************************************)
(* How Serial puts a std::string on the wire: its size, least significant  *)
(* byte first, and then its characters.                                    *)
(***************************************************************************)
EXTENDS Integers, Sequences

CONSTANTS
  Base,        \* the values of a byte of a size (256 in the code)
  SizeBytes,   \* bytes of a size_t (8 in the code; 2 is the least that tears)
  MaxLen       \* bound: longest string

(* What a one counts for in the byte behind the i-th. *)
Weight[i \in 0..SizeBytes] == IF i = 0 THEN 1 ELSE Base * Weight[i-1]

ASSUME StringAssumption == /\ Base \in Nat \ {0, 1}
                           /\ SizeBytes \in Nat \ {0}
                           /\ MaxLen \in 0..Weight[SizeBytes] - 1

Digit(size, i) == (size \div Weight[i-1]) % Base
Digits(size) == [i \in 1..SizeBytes |-> Digit(size, i)]
Size(digits) ==
  LET sum[i \in 0..SizeBytes] ==
        IF i = 0 THEN 0 ELSE sum[i-1] + digits[i] * Weight[i-1]
  IN  sum[SizeBytes]

(* The characters of the n-th string are told apart by string and place;   *)
(* any number serves, no code looks at them.                               *)
Chars(n, length) == [j \in 1..length |-> Base + n * MaxLen + j]

(* A string with its size in front, and the n-th one of a given length. *)
Prefixed(text) == Digits(Len(text)) \o text
Encoded(n, length) == Prefixed(Chars(n, length))

(* std::string::resize: cut off, or filled up with zeros. *)
Resized(str, size) == SubSeq(str \o [j \in 1..size |-> 0], 1, size)

(* A read of n bytes over dest found these: its first bytes are replaced. *)
Into(dest, n, bytes) == bytes \o SubSeq(dest, Len(bytes) + 1, n)
==============================================================================
