----------------------------- MODULE BoundedPipe -----------------------------
(***************************************************************************)
(* What a ringbuf promises its two users: a first-in first-out pipe of at  *)
(* most Capacity bytes.  A byte is identified with its position in the     *)
(* stream the producer writes, so byte i is the i-th byte ever accepted.   *)
(***************************************************************************)
EXTENDS Integers, Sequences

CONSTANT Capacity

VARIABLES accepted,   \* how many bytes the pipe has taken from the producer
          pipe,       \* the bytes taken and not yet handed out
          delivered   \* the bytes handed out, in the order they were

vars == <<accepted, pipe, delivered>>

Init == /\ accepted = 0
        /\ pipe = <<>>
        /\ delivered = <<>>

(* The next k bytes of the producer's stream. *)
NextBytes(k) == [i \in 1..k |-> accepted + i]

(* k bytes are accepted at once; the pipe never holds more than Capacity.  *)
Put(k) == /\ Len(pipe) + k <= Capacity
          /\ accepted' = accepted + k
          /\ pipe' = pipe \o NextBytes(k)
          /\ UNCHANGED delivered

(* The k oldest bytes are handed out at once. *)
Get(k) == /\ k <= Len(pipe)
          /\ delivered' = delivered \o SubSeq(pipe, 1, k)
          /\ pipe' = SubSeq(pipe, k + 1, Len(pipe))
          /\ UNCHANGED accepted

Next == \E k \in 1..Capacity : Put(k) \/ Get(k)

Spec == Init /\ [][Next]_vars
==============================================================================
