-------------------------- MODULE SerialResumeProof --------------------------
(***************************************************************************)
(* For strings of any lengths and number, sizes of any number of bytes,    *)
(* and a kernel that cuts and delays them at will: both ends of the        *)
(* connection agree, no byte taken from it is lost to the next attempt,    *)
(* and a string that is taken to be whole is the one that was written.     *)
(* First that a size comes back from its bytes, and where in the stream    *)
(* each string begins; then what the reader knows at each of its steps.    *)
(***************************************************************************)
EXTENDS SerialResume, SequenceTheorems, WellFoundedInduction, TLAPS

-----------------------------------------------------------------------------
(* Induction over the natural numbers, for a set.                          *)
LEMMA Induction ==
  ASSUME NEW S, 0 \in S, \A n \in Nat : n \in S => n + 1 \in S
  PROVE  Nat \subseteq S
<1> DEFINE T == Nat \ S
           R == OpToRel(<, Nat)
<1>1. SUFFICES ASSUME T # {} PROVE FALSE
  OBVIOUS
<1>2. IsWellFoundedOn(R, Nat)
  BY NatLessThanWellFounded
<1>3. T \subseteq Nat
  OBVIOUS
<1>4. PICK x \in T : \A y \in T : ~ (<<y, x>> \in R)
  <2> HIDE DEF T, R
  <2> QED BY <1>1, <1>2, <1>3, WFMin
<1>5. \A y \in T : ~(y < x)
  BY <1>4 DEF OpToRel
<1> HIDE DEF R
<1>6. x # 0 /\ x - 1 \in Nat /\ x - 1 < x
  OBVIOUS
<1>7. x - 1 \in S
  BY <1>5, <1>6
<1> QED BY <1>6, <1>7

(* A function that is given by its first value and a step exists.          *)
Steps(N, V) == [1..N -> [V -> V]]
Values(N, V) == [0..N -> V]
GivenBy(g, N, a, step) == /\ g[0] = a
                          /\ \A i \in 1..N : g[i] = step[i][g[i-1]]

LEMMA Recursion ==
  ASSUME NEW N \in Nat, NEW V, NEW a \in V, NEW step \in Steps(N, V)
  PROVE  \E g \in Values(N, V) : GivenBy(g, N, a, step)
<1> USE DEF Steps, Values, GivenBy
<1> DEFINE Made(n, g) == /\ g[0] = a
                         /\ \A i \in 1..n : g[i] = step[i][g[i-1]]
           S == {n \in Nat : n <= N => \E g \in [0..n -> V] : Made(n, g)}
<1>1. 0 \in S
  <2>1. [i \in 0..0 |-> a] \in [0..0 -> V] /\ Made(0, [i \in 0..0 |-> a])
    OBVIOUS
  <2> QED BY <2>1
<1>2. ASSUME NEW n \in Nat, n \in S
      PROVE  n + 1 \in S
  <2> SUFFICES ASSUME n + 1 <= N
               PROVE  \E f \in [0..n+1 -> V] : Made(n + 1, f)
    OBVIOUS
  <2>1. PICK g \in [0..n -> V] : Made(n, g)
    BY <1>2
  <2> DEFINE f == [i \in 0..n+1 |-> IF i <= n THEN g[i] ELSE step[n+1][g[n]]]
  <2>2. g[n] \in V /\ n + 1 \in 1..N
    OBVIOUS
  <2>3. step[n+1][g[n]] \in V
    BY <2>2
  <2>4. f \in [0..n+1 -> V]
    BY <2>3
  <2>5. \A i \in 0..n : f[i] = g[i]
    OBVIOUS
  <2>6. f[n+1] = step[n+1][f[n]]
    <3>1. n + 1 \in 0..n+1 /\ ~(n + 1 <= n) /\ n \in 0..n
      OBVIOUS
    <3>2. f[n+1] = step[n+1][g[n]] /\ f[n] = g[n]
      BY <2>5, <3>1
    <3> QED BY <3>2
  <2> HIDE DEF f
  <2>7. Made(n + 1, f)
    <3>1. \A i \in 1..n : f[i] = step[i][f[i-1]]
      <4> TAKE i \in 1..n
      <4>1. i \in 0..n /\ i - 1 \in 0..n
        OBVIOUS
      <4> QED BY <2>1, <2>5, <4>1
    <3>2. \A i \in 1..n+1 : i \in 1..n \/ i = n + 1
      OBVIOUS
    <3>3. f[0] = a
      BY <2>1, <2>5
    <3>4. \A i \in 1..n+1 : f[i] = step[i][f[i-1]]
      <4> TAKE i \in 1..n+1
      <4>1. CASE i = n + 1
        <5>1. i - 1 = n
          BY <4>1
        <5> QED BY <2>6, <4>1, <5>1
      <4> QED BY <3>1, <3>2, <4>1
    <3> QED BY <3>3, <3>4
  <2> QED BY <2>4, <2>7
<1>3. N \in S
  <2> HIDE DEF S
  <2> QED BY <1>1, <1>2, Induction
<1> QED BY <1>3

(* ... and there is no other.                                              *)
LEMMA Determined ==
  ASSUME NEW N \in Nat, NEW V, NEW a \in V, NEW step \in Steps(N, V), NEW f,
         f = [i \in 0..N |-> f[i]], f[0] = a,
         \A i \in 1..N : f[i-1] \in V => f[i] = step[i][f[i-1]]
  PROVE  f \in Values(N, V) /\ GivenBy(f, N, a, step)
<1> USE DEF Steps, Values, GivenBy
<1> DEFINE S == {n \in Nat : n <= N => f[n] \in V}
<1>1. 0 \in S
  OBVIOUS
<1>2. ASSUME NEW n \in Nat, n \in S
      PROVE  n + 1 \in S
  <2> SUFFICES ASSUME n + 1 <= N
               PROVE  f[n+1] \in V
    OBVIOUS
  <2>1. n + 1 \in 1..N /\ (n + 1) - 1 = n /\ n <= N
    OBVIOUS
  <2>2. f[n] \in V
    BY <1>2, <2>1
  <2>3. step[n+1][f[n]] \in V
    BY <2>1, <2>2
  <2> HIDE DEF S
  <2> QED BY <2>1, <2>2, <2>3
<1>3. Nat \subseteq S
  <2> HIDE DEF S
  <2> QED BY <1>1, <1>2, Induction
<1>4. \A i \in 0..N : f[i] \in V
  BY <1>3
<1>5. \A i \in 1..N : i - 1 \in 0..N
  OBVIOUS
<1> QED BY <1>4, <1>5

(* What the weights are, and the sum that Size makes of the bytes.         *)
LEMMA WeightIs ==
  /\ Weight \in [0..SizeBytes -> Nat \ {0}]
  /\ Weight[0] = 1
  /\ \A i \in 1..SizeBytes : Weight[i] = Base * Weight[i-1]
<1> DEFINE V == Nat \ {0}
           step == [i \in 1..SizeBytes |-> [v \in V |-> Base * v]]
           Is(g) == g = [i \in 0..SizeBytes |-> IF i = 0 THEN 1 ELSE Base * g[i-1]]
<1>1. step \in Steps(SizeBytes, V)
  <2>1. \A v \in V : Base * v \in V
    BY StringAssumption
  <2> QED BY <2>1 DEF Steps
<1>2. SizeBytes \in Nat /\ 1 \in V
  BY StringAssumption
<1>3. PICK g \in Values(SizeBytes, V) : GivenBy(g, SizeBytes, 1, step)
  <2> HIDE DEF V, step
  <2> QED BY <1>1, <1>2, Recursion, Zenon
<1>4. \A i \in 1..SizeBytes : g[i] = Base * g[i-1]
  <2> TAKE i \in 1..SizeBytes
  <2>1. i - 1 \in 0..SizeBytes
    BY <1>2
  <2> QED BY <1>3, <2>1 DEF Values, GivenBy
<1>5. Is(g)
  <2>1. \A i \in 0..SizeBytes : g[i] = IF i = 0 THEN 1 ELSE Base * g[i-1]
    BY <1>2, <1>3, <1>4 DEF Values, GivenBy
  <2> QED BY <2>1 DEF Values
<1>6. Is(Weight)
  <2>1. Weight = CHOOSE f : Is(f)
    BY DEF Weight
  <2> QED BY <1>5, <2>1
<1>7. \A i \in 0..SizeBytes : Weight[i] = IF i = 0 THEN 1 ELSE Base * Weight[i-1]
  BY <1>6
<1>8. Weight = [i \in 0..SizeBytes |-> Weight[i]]
  BY <1>6, Zenon
<1>9. Weight[0] = 1 /\ \A i \in 1..SizeBytes : Weight[i] = Base * Weight[i-1]
  <2>1. 0 \in 0..SizeBytes /\ \A i \in 1..SizeBytes : i \in 0..SizeBytes /\ i # 0
    BY <1>2
  <2> QED BY <1>7, <2>1, Zenon
<1>10. \A i \in 1..SizeBytes :
         Weight[i-1] \in V => Weight[i] = step[i][Weight[i-1]]
  BY <1>9
<1>11. Weight \in Values(SizeBytes, V)
  <2> HIDE DEF V, step
  <2> QED BY <1>1, <1>2, <1>8, <1>9, <1>10, Determined, Zenon
<1> QED BY <1>9, <1>11 DEF Values

LEMMA SizeIs ==
  ASSUME NEW digits \in [1..SizeBytes -> Nat]
  PROVE  \E sum \in [0..SizeBytes -> Nat] :
           /\ sum[0] = 0
           /\ \A i \in 1..SizeBytes :
                sum[i] = sum[i-1] + digits[i] * Weight[i-1]
           /\ Size(digits) = sum[SizeBytes]
<1> DEFINE step == [i \in 1..SizeBytes |->
                      [v \in Nat |-> v + digits[i] * Weight[i-1]]]
           Is(g) == g = [i \in 0..SizeBytes |->
                           IF i = 0 THEN 0 ELSE g[i-1] + digits[i] * Weight[i-1]]
           sum == CHOOSE g : Is(g)
<1>1. SizeBytes \in Nat /\ 0 \in Nat
  BY StringAssumption
<1>2. \A i \in 1..SizeBytes : digits[i] * Weight[i-1] \in Nat
  <2> TAKE i \in 1..SizeBytes
  <2>1. i - 1 \in 0..SizeBytes
    BY <1>1
  <2>2. Weight[i-1] \in Nat
    BY <2>1, WeightIs
  <2>3. digits[i] \in Nat
    OBVIOUS
  <2>4. \A x, y \in Nat : x * y \in Nat
    OBVIOUS
  <2> QED BY <2>2, <2>3, <2>4
<1>3. step \in Steps(SizeBytes, Nat)
  <2>1. \A i \in 1..SizeBytes : \A v \in Nat : v + digits[i] * Weight[i-1] \in Nat
    BY <1>2
  <2> QED BY <2>1 DEF Steps
<1>4. PICK g \in Values(SizeBytes, Nat) : GivenBy(g, SizeBytes, 0, step)
  <2> HIDE DEF step
  <2> QED BY <1>1, <1>3, Recursion, Zenon
<1>5. \A i \in 1..SizeBytes : g[i] = g[i-1] + digits[i] * Weight[i-1]
  <2> TAKE i \in 1..SizeBytes
  <2>1. i - 1 \in 0..SizeBytes
    BY <1>1
  <2> QED BY <1>4, <2>1 DEF Values, GivenBy
<1>6. Is(g)
  <2>1. \A i \in 0..SizeBytes :
          g[i] = IF i = 0 THEN 0 ELSE g[i-1] + digits[i] * Weight[i-1]
    BY <1>1, <1>4, <1>5 DEF Values, GivenBy
  <2> QED BY <2>1 DEF Values
<1>7. Is(sum)
  BY <1>6
<1>8. \A i \in 0..SizeBytes :
        sum[i] = IF i = 0 THEN 0 ELSE sum[i-1] + digits[i] * Weight[i-1]
  <2> HIDE DEF sum
  <2> QED BY <1>7
<1>9. sum = [i \in 0..SizeBytes |-> sum[i]]
  <2> HIDE DEF sum
  <2> QED BY <1>7, Zenon
<1>10. Size(digits) = sum[SizeBytes]
  BY DEF Size
<1> HIDE DEF sum
<1>11. sum[0] = 0 /\ \A i \in 1..SizeBytes :
                       sum[i] = sum[i-1] + digits[i] * Weight[i-1]
  <2>1. 0 \in 0..SizeBytes /\ \A i \in 1..SizeBytes : i \in 0..SizeBytes /\ i # 0
    BY <1>1
  <2> QED BY <1>8, <2>1, Zenon
<1>12. \A i \in 1..SizeBytes : sum[i-1] \in Nat => sum[i] = step[i][sum[i-1]]
  BY <1>11
<1>13. sum \in [0..SizeBytes -> Nat]
  <2> HIDE DEF step
  <2>1. sum \in Values(SizeBytes, Nat)
    BY <1>1, <1>3, <1>9, <1>11, <1>12, Determined, Zenon
  <2> QED BY <2>1 DEF Values
<1> QED BY <1>10, <1>11, <1>13

(* A size comes back from its bytes: the first i of them make up the size  *)
(* modulo the weight of the next one.                                      *)
LEMMA SizeOfDigits ==
  ASSUME NEW n \in Nat, n < Weight[SizeBytes]
  PROVE  Size(Digits(n)) = n
<1>1. \A i \in 0..SizeBytes : Weight[i] \in Nat /\ Weight[i] > 0
  BY WeightIs
<1>2. SizeBytes \in Nat /\ Base \in Nat /\ Base > 0
  BY StringAssumption
<1>3. Digits(n) \in [1..SizeBytes -> Nat]
  <2>1. \A i \in 1..SizeBytes : Digit(n, i) \in Nat
    <3> TAKE i \in 1..SizeBytes
    <3>1. i - 1 \in 0..SizeBytes
      BY <1>2
    <3>2. \A w \in Nat : w > 0 => (n \div w) % Base \in Nat
      BY <1>2
    <3> QED BY <1>1, <3>1, <3>2 DEF Digit
  <2> QED BY <2>1 DEF Digits
<1>4. PICK sum \in [0..SizeBytes -> Nat] :
        /\ sum[0] = 0
        /\ \A i \in 1..SizeBytes :
             sum[i] = sum[i-1] + Digits(n)[i] * Weight[i-1]
        /\ Size(Digits(n)) = sum[SizeBytes]
  BY <1>3, SizeIs
<1> DEFINE S == {i \in Nat : i <= SizeBytes => sum[i] = n % Weight[i]}
<1>5. 0 \in S
  <2>1. n % 1 = 0
    OBVIOUS
  <2> QED BY <1>4, <2>1, WeightIs
<1>6. ASSUME NEW i \in Nat, i \in S
      PROVE  i + 1 \in S
  <2> SUFFICES ASSUME i + 1 <= SizeBytes
               PROVE  sum[i+1] = n % Weight[i+1]
    OBVIOUS
  <2> DEFINE w == Weight[i]
             d == (n \div w) % Base
  <2>1. i \in 0..SizeBytes /\ i + 1 \in 1..SizeBytes /\ (i + 1) - 1 = i
    BY <1>2
  <2>2. sum[i] = n % w
    BY <1>6, <2>1
  <2>3. sum[i+1] = sum[i] + Digits(n)[i+1] * w
    BY <1>4, <2>1
  <2>4. Digits(n)[i+1] = d
    BY <2>1 DEF Digits, Digit
  <2>5. w \in Nat /\ w > 0
    BY <1>1, <2>1
  <2>6. Weight[i+1] = Base * w
    BY <2>1, WeightIs
  <2>7. (n % w) + ((n \div w) % Base) * w = n % (Base * w)
    <3> HIDE DEF w
    <3>1. \A x, y, z \in Nat : z > 0 /\ y > 0 =>
            (x % y) + ((x \div y) % z) * y = x % (z * y)
      <4> TAKE x, y, z \in Nat
      <4> SUFFICES ASSUME z > 0, y > 0
                   PROVE  (x % y) + ((x \div y) % z) * y = x % (z * y)
        OBVIOUS
      <4> DEFINE q == x \div y
                 r == x % y
                 e == q % z
                 p == q \div z
      <4>1. q \in Nat /\ r \in Nat /\ r < y /\ x = y * q + r
        OBVIOUS
      <4>2. e \in Nat /\ p \in Nat /\ e < z /\ q = z * p + e
        <5> HIDE DEF q
        <5> QED BY <4>1
      <4> HIDE DEF q, r, e, p
      <4>3. x = (z * y) * p + (r + e * y)
        <5>1. y * (z * p + e) = (z * y) * p + e * y
          BY <4>1, <4>2
        <5>2. (z * y) * p \in Nat /\ e * y \in Nat
          BY <4>1, <4>2
        <5> QED BY <4>1, <4>2, <5>1, <5>2
      <4>4. r + e * y \in Nat /\ r + e * y < z * y
        <5>1. (e + 1) * y <= z * y
          BY <4>1, <4>2
        <5>2. (e + 1) * y = e * y + y
          BY <4>1, <4>2
        <5>3. e * y \in Nat /\ z * y \in Nat
          BY <4>1, <4>2
        <5> QED BY <4>1, <5>1, <5>2, <5>3
      <4>5. \A a, c, t, b \in Nat : a = b * c + t /\ t < b => t = a % b
        OBVIOUS
      <4>6. z * y \in Nat
        OBVIOUS
      <4>7. r + e * y = x % (z * y)
        <5> DEFINE b == z * y
                   t == r + e * y
        <5>1. b \in Nat /\ t \in Nat /\ t < b /\ x = b * p + t
          BY <4>3, <4>4, <4>6
        <5> HIDE DEF b, t
        <5>2. t = x % b
          BY <4>2, <4>5, <5>1
        <5> QED BY <5>2 DEF b, t
      <4> QED BY <4>7 DEF q, r, e, p
    <3> QED BY <1>2, <2>5, <3>1
  <2> HIDE DEF w
  <2> QED BY <2>2, <2>3, <2>4, <2>6, <2>7
<1>7. Nat \subseteq S
  <2> HIDE DEF S
  <2> QED BY <1>5, <1>6, Induction
<1>8. sum[SizeBytes] = n % Weight[SizeBytes]
  BY <1>2, <1>7
<1>9. n % Weight[SizeBytes] = n
  <2>1. \A b \in Nat : n < b => n % b = n
    OBVIOUS
  <2>2. SizeBytes \in 0..SizeBytes
    BY <1>2
  <2>3. Weight[SizeBytes] \in Nat
    BY <1>1, <2>2
  <2> QED BY <2>1, <2>3
<1> QED BY <1>4, <1>8, <1>9

-----------------------------------------------------------------------------
(* The stream the writer means to send: part k of it, a size or the        *)
(* characters of a string, lies behind Offset[k-1].                        *)
PartLen(ls, k) == IF k % 2 = 1 THEN SizeBytes ELSE ls[(k + 1) \div 2]
Offsets(ls) ==
  LET off[k \in 0..2 * Len(ls)] ==
        IF k = 0 THEN 0 ELSE off[k-1] + PartLen(ls, k)
  IN  off
Parts == 1..2 * Len(lengths)
Offset == Offsets(lengths)

(* The writer keeps to it: what the kernel took is the beginning of it,    *)
(* and a stream that is not bad stands at the next part.                   *)
LengthsInv == lengths \in Seq(Lengths) /\ lengths # <<>>
SentInv == /\ sent \in Seq(Nat) /\ received \in Seq(Nat)
           /\ \A k \in Parts : \A i \in 1..Len(Part(k)) :
                Offset[k-1] + i <= Len(sent) => sent[Offset[k-1] + i] = Part(k)[i]
WriterInv == /\ wnext \in 1..2 * Len(lengths) + 1
             /\ ~wbad => Len(sent) = Offset[wnext-1]

(* The connection. *)
LinkInv == /\ TcpTypeOK /\ EndsAgree /\ ClosedMeansEnd
           /\ closing = "no" => taken = Len(received)

(* The reader: the n-th string begins at begin; a size that was read whole *)
(* is its length, and one that was torn leaves a failed stream and an      *)
(* exhausted buffer, so that the flags of the next read refuse it.         *)
Current == Len(accepted) + 1
SizeRead == Len(str) = lengths[Current] /\ bpos = Offset[2 * Current - 1]
Torn == rfailed /\ bpos = Len(buffer)
FlagsInv == read_empty \in BOOLEAN /\ buffer_read_empty \in BOOLEAN
PlaceInv ==
  /\ pc \in {"size", "chars", "returned", "finished"}
  /\ pc \in {"chars", "returned"} => closing = "no"
  /\ Len(accepted) <= Len(lengths)
  /\ pc # "finished" => Len(accepted) < Len(lengths)
  /\ begin = Offset[2 * Len(accepted)]
  /\ bpos \in begin..Len(buffer)
StringInv ==
  /\ accepted \in Seq(Seq(Nat)) /\ str \in Seq(Nat)
  /\ pc = "size" => bpos = begin
  /\ pc = "chars" => SizeRead \/ Torn
  /\ pc = "returned" /\ Whole => /\ str = Chars(Current, lengths[Current])
                                 /\ bpos = Offset[2 * Current]
  /\ AcceptedWhole

ResumeInv == /\ LengthsInv /\ SentInv /\ WriterInv /\ LinkInv
             /\ KeptForRetry /\ FlagsInv /\ PlaceInv /\ StringInv

-----------------------------------------------------------------------------
(* The parts and where they lie.                                           *)
LEMMA LengthIs ==
  ASSUME NEW l \in Lengths
  PROVE  l \in Nat /\ l > 0 /\ l <= MaxLen /\ l < Weight[SizeBytes]
<1>1. MaxLen \in 0..Weight[SizeBytes] - 1
  BY StringAssumption
<1>2. Weight[SizeBytes] \in Nat
  <2>1. SizeBytes \in 0..SizeBytes
    BY StringAssumption
  <2> QED BY <2>1, WeightIs
<1>3. l \in 1..MaxLen
  BY LengthAssumption
<1> QED BY <1>1, <1>2, <1>3

LEMMA UpTo ==
  ASSUME NEW a \in Nat, NEW b \in Nat, 1..a = 1..b
  PROVE  a = b
<1>1. a \in 1..a \/ a = 0
  OBVIOUS
<1>2. b \in 1..b \/ b = 0
  OBVIOUS
<1> QED BY <1>1, <1>2

LEMMA DigitsShape ==
  ASSUME NEW n \in Nat
  PROVE  /\ Digits(n) \in Seq(Nat) /\ Len(Digits(n)) = SizeBytes
         /\ Digits(n) \in [1..SizeBytes -> Nat]
<1>1. \A i \in 1..SizeBytes : Digit(n, i) \in Nat
  <2> TAKE i \in 1..SizeBytes
  <2>1. i - 1 \in 0..SizeBytes
    BY StringAssumption
  <2>2. Weight[i-1] \in Nat \ {0}
    BY <2>1, WeightIs
  <2>3. \A w \in Nat : w > 0 => (n \div w) % Base \in Nat
    BY StringAssumption
  <2> QED BY <2>2, <2>3 DEF Digit
<1>2. Digits(n) \in [1..SizeBytes -> Nat]
  BY <1>1 DEF Digits
<1>3. SizeBytes \in Nat
  BY StringAssumption
<1>4. Digits(n) \in Seq(Nat)
  BY <1>2, <1>3, SeqDef
<1>5. Len(Digits(n)) = SizeBytes
  <2>1. DOMAIN Digits(n) = 1..Len(Digits(n)) /\ Len(Digits(n)) \in Nat
    BY <1>4, LenProperties
  <2>2. DOMAIN Digits(n) = 1..SizeBytes
    BY <1>2
  <2>3. 1..Len(Digits(n)) = 1..SizeBytes
    BY <2>1, <2>2
  <2> QED BY <1>3, <2>1, <2>3, UpTo
<1> QED BY <1>2, <1>4, <1>5

LEMMA CharsShape ==
  ASSUME NEW n \in Nat, NEW l \in Nat
  PROVE  Chars(n, l) \in Seq(Nat) /\ Len(Chars(n, l)) = l
<1>1. \A j \in 1..l : Base + n * MaxLen + j \in Nat
  <2>1. Base \in Nat /\ MaxLen \in Nat
    BY StringAssumption
  <2>2. n * MaxLen \in Nat
    BY <2>1
  <2> QED BY <2>1, <2>2
<1>2. Chars(n, l) \in [1..l -> Nat]
  BY <1>1 DEF Chars
<1>3. Chars(n, l) \in Seq(Nat)
  BY <1>2, SeqDef
<1>4. DOMAIN Chars(n, l) = 1..Len(Chars(n, l)) /\ Len(Chars(n, l)) \in Nat
  BY <1>3, LenProperties
<1>5. DOMAIN Chars(n, l) = 1..l
  BY <1>2
<1>6. 1..Len(Chars(n, l)) = 1..l
  BY <1>4, <1>5
<1>7. Len(Chars(n, l)) = l
  BY <1>4, <1>6, UpTo
<1> QED BY <1>3, <1>7

LEMMA PartShape ==
  ASSUME LengthsInv, NEW k \in Parts
  PROVE  /\ Part(k) \in Seq(Nat)
         /\ Len(Part(k)) = PartLen(lengths, k)
         /\ PartLen(lengths, k) \in Nat \ {0}
<1> DEFINE n == (k + 1) \div 2
<1>1. Len(lengths) \in Nat
  BY LenProperties DEF LengthsInv
<1>2. n \in 1..Len(lengths) /\ n \in Nat
  BY <1>1 DEF Parts
<1>3. lengths[n] \in Lengths
  BY <1>2, ElementOfSeq DEF LengthsInv
<1> HIDE DEF n
<1>4. lengths[n] \in Nat /\ lengths[n] > 0
  BY <1>3, LengthIs
<1>5. CASE k % 2 = 1
  <2>1. Part(k) = Digits(lengths[n]) /\ PartLen(lengths, k) = SizeBytes
    BY <1>5 DEF Part, PartLen, n
  <2> QED BY <1>4, <2>1, DigitsShape, StringAssumption
<1>6. CASE k % 2 # 1
  <2>1. Part(k) = Chars(n, lengths[n]) /\ PartLen(lengths, k) = lengths[n]
    BY <1>6 DEF Part, PartLen, n
  <2>2. Chars(n, lengths[n]) \in Seq(Nat) /\ Len(Chars(n, lengths[n])) = lengths[n]
    BY <1>2, <1>4, CharsShape
  <2> QED BY <1>4, <2>1, <2>2
<1> QED BY <1>5, <1>6

LEMMA PartsOf ==
  ASSUME LengthsInv, NEW m \in 1..Len(lengths)
  PROVE  /\ 2 * m - 1 \in Parts /\ 2 * m \in Parts
         /\ Part(2 * m - 1) = Digits(lengths[m])
         /\ Part(2 * m) = Chars(m, lengths[m])
         /\ lengths[m] \in Lengths
<1>1. Len(lengths) \in Nat /\ m \in Nat
  BY LenProperties DEF LengthsInv
<1>2. 2 * m - 1 \in Parts /\ 2 * m \in Parts
  BY <1>1 DEF Parts
<1>3. (2 * m - 1) % 2 = 1 /\ ((2 * m - 1) + 1) \div 2 = m
  BY <1>1
<1>4. (2 * m) % 2 # 1 /\ (2 * m + 1) \div 2 = m
  BY <1>1
<1>5. lengths[m] \in Lengths
  BY ElementOfSeq DEF LengthsInv
<1> QED BY <1>2, <1>3, <1>4, <1>5 DEF Part

LEMMA OffsetIs ==
  ASSUME LengthsInv
  PROVE  /\ Offset \in [0..2 * Len(lengths) -> Nat]
         /\ Offset[0] = 0
         /\ \A k \in Parts : Offset[k] = Offset[k-1] + PartLen(lengths, k)
<1> DEFINE N == 2 * Len(lengths)
           step == [k \in 1..N |-> [v \in Nat |-> v + PartLen(lengths, k)]]
           Is(g) == g = [k \in 0..N |->
                           IF k = 0 THEN 0 ELSE g[k-1] + PartLen(lengths, k)]
<1>1. N \in Nat /\ 0 \in Nat
  BY LenProperties DEF LengthsInv
<1>2. step \in Steps(N, Nat)
  <2>1. \A k \in 1..N : PartLen(lengths, k) \in Nat
    BY PartShape DEF Parts
  <2>2. \A k \in 1..N : \A v \in Nat : v + PartLen(lengths, k) \in Nat
    BY <2>1
  <2> QED BY <2>2 DEF Steps
<1>3. PICK g \in Values(N, Nat) : GivenBy(g, N, 0, step)
  <2> HIDE DEF step, N
  <2> QED BY <1>1, <1>2, Recursion, Zenon
<1>4. \A k \in 1..N : g[k] = g[k-1] + PartLen(lengths, k)
  <2> TAKE k \in 1..N
  <2>1. k - 1 \in 0..N
    BY <1>1
  <2>2. g[k-1] \in Nat
    BY <2>1 DEF Values
  <2> QED BY <1>3, <2>2 DEF GivenBy
<1>5. Is(g)
  <2> HIDE DEF N, step
  <2>1. \A k \in 0..N :
          g[k] = IF k = 0 THEN 0 ELSE g[k-1] + PartLen(lengths, k)
    BY <1>1, <1>3, <1>4 DEF GivenBy
  <2> QED BY <2>1 DEF Values
<1>6. Is(Offset)
  <2>1. Offset = CHOOSE f : Is(f)
    BY DEF Offset, Offsets
  <2> QED BY <1>5, <2>1
<1> HIDE DEF N
<1>7. \A k \in 0..N :
        Offset[k] = IF k = 0 THEN 0 ELSE Offset[k-1] + PartLen(lengths, k)
  BY <1>6
<1>8. Offset = [k \in 0..N |-> Offset[k]]
  BY <1>6, Zenon
<1>9. Offset[0] = 0 /\ \A k \in 1..N : Offset[k] = Offset[k-1] + PartLen(lengths, k)
  <2>1. 0 \in 0..N /\ \A k \in 1..N : k \in 0..N /\ k # 0
    BY <1>1
  <2> QED BY <1>7, <2>1, Zenon
<1>10. \A k \in 1..N : Offset[k-1] \in Nat => Offset[k] = step[k][Offset[k-1]]
  BY <1>9
<1>11. Offset \in [0..N -> Nat]
  <2> HIDE DEF step
  <2>1. Offset \in Values(N, Nat)
    BY <1>1, <1>2, <1>8, <1>9, <1>10, Determined, Zenon
  <2> QED BY <2>1 DEF Values
<1> QED BY <1>9, <1>11 DEF N, Parts

LEMMA OffsetGrows ==
  ASSUME LengthsInv, NEW i \in 0..2 * Len(lengths),
         NEW j \in 0..2 * Len(lengths), i <= j
  PROVE  Offset[i] <= Offset[j]
<1> DEFINE N == 2 * Len(lengths)
           S == {d \in Nat : i + d <= N => Offset[i] <= Offset[i+d]}
<1>1. N \in Nat
  BY LenProperties DEF LengthsInv
<1>2. \A k \in 0..N : Offset[k] \in Nat
  BY OffsetIs
<1>3. 0 \in S
  BY <1>2
<1>4. ASSUME NEW d \in Nat, d \in S
      PROVE  d + 1 \in S
  <2> SUFFICES ASSUME i + (d + 1) <= N
               PROVE  Offset[i] <= Offset[i + (d + 1)]
    OBVIOUS
  <2> DEFINE k == i + (d + 1)
  <2>1. k \in Parts /\ k \in 0..N /\ i + d \in 0..N /\ k - 1 = i + d /\ i + d <= N
    BY <1>1 DEF Parts
  <2>2. Offset[i] <= Offset[i+d]
    BY <1>4, <2>1
  <2>3. Offset[k] = Offset[i+d] + PartLen(lengths, k)
    BY <2>1, OffsetIs
  <2>4. PartLen(lengths, k) \in Nat
    BY <2>1, PartShape
  <2> HIDE DEF S, k
  <2>5. Offset[i] \in Nat /\ Offset[i+d] \in Nat /\ Offset[k] \in Nat
    BY <1>2, <2>1
  <2>6. Offset[i] <= Offset[k]
    BY <2>2, <2>3, <2>4, <2>5
  <2> QED BY <2>6 DEF k
<1>5. Nat \subseteq S
  <2> HIDE DEF S
  <2> QED BY <1>3, <1>4, Induction
<1>6. j - i \in Nat /\ i + (j - i) = j
  BY <1>1
<1>7. j - i \in S
  BY <1>5, <1>6
<1> QED BY <1>1, <1>6, <1>7

-----------------------------------------------------------------------------
(* A piece of a sequence. *)
LEMMA Piece ==
  ASSUME NEW s \in Seq(Nat), NEW i \in Nat, NEW n \in Nat, i + n <= Len(s)
  PROVE  /\ SubSeq(s, i + 1, i + n) \in Seq(Nat)
         /\ Len(SubSeq(s, i + 1, i + n)) = n
         /\ \A j \in 1..n : SubSeq(s, i + 1, i + n)[j] = s[i+j]
<1>1. Len(s) \in Nat
  BY LenProperties
<1>2. \A j \in i+1..i+n : j \in 1..Len(s)
  BY <1>1
<1>3. \A j \in i+1..i+n : s[j] \in Nat
  BY <1>2, ElementOfSeq
<1>4. i + 1 \in Int /\ i + n \in Int
  OBVIOUS
<1>5. /\ SubSeq(s, i + 1, i + n) \in Seq(Nat)
      /\ Len(SubSeq(s, i + 1, i + n)) =
           IF i + 1 <= i + n THEN (i + n) - (i + 1) + 1 ELSE 0
      /\ \A j \in 1..(i + n) - (i + 1) + 1 : SubSeq(s, i + 1, i + n)[j] = s[i+1+j-1]
  BY <1>3, <1>4, SubSeqProperties
<1>6. (i + n) - (i + 1) + 1 = n /\ \A j \in 1..n : i + 1 + j - 1 = i + j
  OBVIOUS
<1>7. (IF i + 1 <= i + n THEN (i + n) - (i + 1) + 1 ELSE 0) = n
  OBVIOUS
<1>8. \A j \in 1..n : SubSeq(s, i + 1, i + n)[j] = s[i+j]
  BY <1>5, <1>6
<1> QED BY <1>5, <1>7, <1>8

LEMMA Pieces ==
  ASSUME NEW s \in Seq(Nat), NEW i \in Nat, NEW m \in Nat, NEW n \in Nat,
         i + m + n <= Len(s)
  PROVE  SubSeq(s, i + 1, i + m) \o SubSeq(s, i + m + 1, i + m + n)
           = SubSeq(s, i + 1, i + m + n)
<1>1. Len(s) \in Nat
  BY LenProperties
<1>2. i + 1 \in 1..Len(s)+1 /\ i + m \in (i+1)-1..Len(s) /\ i + m + n \in i+m..Len(s)
  BY <1>1
<1> QED BY <1>2, ConcatAdjacentSubSeq

(* What a read of the socket does to the two ends. *)
LEMMA ReadLink ==
  ASSUME sent \in Seq(Nat), received \in Seq(Nat), LinkInv, closing = "no",
         NEW n \in Nat, Read(n)
  PROVE  /\ FoundBy(n) \in 0..n
         /\ taken + FoundBy(n) <= Len(sent)
         /\ rfailed' = (rfailed \/ FoundBy(n) < n)
         /\ received' = received \o SubSeq(sent, taken + 1, taken + FoundBy(n))
         /\ received' \in Seq(Nat)
         /\ Len(received') = Len(received) + FoundBy(n)
         /\ LinkInv'
         /\ UNCHANGED <<link, wstream, closing>>
<1> DEFINE k == FoundBy(n)
           t == SubSeq(sent, taken + 1, taken + k)
<1>1. /\ Len(sent) \in Nat /\ arrived \in Nat /\ taken \in Nat
      /\ arrived <= Len(sent) /\ taken <= arrived
      /\ Len(sent) - taken <= SendRoom /\ SendRoom \in Nat
  BY LenProperties, RoomAssumption DEF LinkInv, TcpTypeOK
<1>2. Len(received) = taken /\ Len(received) \in Nat
  BY LenProperties DEF LinkInv
<1>3. k \in 0..n /\ taken + k <= arrived
  BY <1>1 DEF FoundBy, Lesser, Waiting
<1>4. UNCHANGED <<link, wstream, closing>>
  BY DEF Read
<1>5. rfailed' = (rfailed \/ k < n)
  BY DEF Read
<1> HIDE DEF k
<1>6. t \in Seq(Nat) /\ Len(t) = k
  BY <1>1, <1>3, Piece
<1>7. /\ received \o t \in Seq(Nat) /\ Len(received \o t) = taken + k
  BY <1>2, <1>6, ConcatProperties
<1>8. received = SubSeq(sent, 1, taken)
  BY <1>2 DEF LinkInv, EndsAgree, InOrder
<1>9. received \o t = SubSeq(sent, 1, taken + k)
  <2>1. SubSeq(sent, 0 + 1, 0 + taken) \o SubSeq(sent, 0 + taken + 1, 0 + taken + k)
          = SubSeq(sent, 0 + 1, 0 + taken + k)
    <3>1. sent \in Seq(Nat) /\ taken \in Nat /\ k \in Nat /\ 0 + taken + k <= Len(sent)
      BY <1>1, <1>3
    <3> HIDE DEF t
    <3> QED BY ONLY <3>1, Pieces
  <2>2. 0 + 1 = 1 /\ 0 + taken = taken
    BY <1>1
  <2> QED BY <1>8, <2>1, <2>2
<1>10. read_pos = taken /\ read_length = taken
  BY <1>2 DEF LinkInv, EndsAgree, PositionsCount
<1>11. /\ taken' = taken + k
       /\ received' = received \o t
       /\ read_pos' = read_pos + k /\ read_length' = read_length + k
       /\ stream_empty' \in BOOLEAN /\ connection_closed' \in BOOLEAN
       /\ connection_closed' => k = 0 /\ arrived = taken /\ (AtEnd \/ reset)
  <2>0. stream_empty \in BOOLEAN /\ connection_closed \in BOOLEAN /\ rfailed \in BOOLEAN
    BY DEF LinkInv, TcpTypeOK
  <2>a. connection_closed => arrived = taken /\ (AtEnd \/ reset)
    BY <1>1 DEF LinkInv, ClosedMeansEnd, Waiting
  <2>1. CASE k = 0
    <3>1. ~(k > 0)
      BY <2>1
    <3>2. UNCHANGED <<taken, received, read_pos, read_length>>
      BY <3>1 DEF Read, RecvNothing, rflags, k
    <3>3. \/ rfailed \/ n = 0
          \/ ~rfailed /\ n # 0 /\ RecvNothing
      BY <3>1, <2>0 DEF Read, k
    <3>9. ASSUME rfailed \/ n = 0
          PROVE  /\ stream_empty' \in BOOLEAN
                 /\ connection_closed' = connection_closed
      <4>1. connection_closed' = connection_closed /\ stream_empty' = stream_empty
        BY <3>9 DEF Read, rflags
      <4> QED BY <4>1, <2>0
    <3>10. ASSUME ~rfailed /\ n # 0 /\ RecvNothing
           PROVE  /\ stream_empty' \in BOOLEAN /\ arrived = taken
                  /\ \/ connection_closed' = connection_closed
                     \/ connection_closed' = TRUE /\ (AtEnd \/ reset)
      <4>1. arrived = taken
        BY <1>1, <2>1, <3>10 DEF FoundBy, Lesser, Waiting, k
      <4>2. stream_empty' \in BOOLEAN
        BY <2>0, <3>10 DEF RecvNothing
      <4>3. \/ connection_closed' = connection_closed
            \/ connection_closed' = TRUE /\ (AtEnd \/ reset)
        BY <3>10 DEF RecvNothing
      <4> QED BY <2>0, <4>1, <4>2, <4>3
    <3>4. t = <<>>
      BY <1>6, <2>1, EmptySeq
    <3>5. received \o t = received
      BY <3>4, ConcatEmptySeq
    <3>6. taken + k = taken /\ read_pos + k = read_pos /\ read_length + k = read_length
      BY <1>1, <1>10, <2>1
    <3>8. /\ connection_closed' \in BOOLEAN /\ stream_empty' \in BOOLEAN
          /\ connection_closed' => arrived = taken /\ (AtEnd \/ reset)
      <4>1. ASSUME rfailed \/ n = 0
            PROVE  /\ connection_closed' \in BOOLEAN /\ stream_empty' \in BOOLEAN
                   /\ connection_closed' => arrived = taken /\ (AtEnd \/ reset)
        <5>1. connection_closed' = connection_closed /\ stream_empty' \in BOOLEAN
          BY <3>9, <4>1
        <5> QED BY <2>0, <2>a, <5>1
      <4>2. ASSUME ~rfailed /\ n # 0 /\ RecvNothing
            PROVE  /\ connection_closed' \in BOOLEAN /\ stream_empty' \in BOOLEAN
                   /\ connection_closed' => arrived = taken /\ (AtEnd \/ reset)
        <5>1. /\ stream_empty' \in BOOLEAN /\ arrived = taken
              /\ \/ connection_closed' = connection_closed
                 \/ connection_closed' = TRUE /\ (AtEnd \/ reset)
          BY <3>10, <4>2
        <5>2. CASE connection_closed' = connection_closed
          BY <2>0, <2>a, <5>1, <5>2
        <5>3. CASE connection_closed' = TRUE /\ (AtEnd \/ reset)
          BY <5>1, <5>3
        <5> QED BY <5>1, <5>2, <5>3
      <4> QED BY <3>3, <4>1, <4>2
    <3> QED BY <2>1, <3>2, <3>5, <3>6, <3>8
  <2>2. CASE k # 0
    <3>1. k > 0 /\ n # 0
      BY <1>3, <2>2
    <3>2. ~rfailed
      BY <3>1 DEF FoundBy, k
    <3>3. Recv(k)
      BY <3>1, <3>2 DEF Read, k
    <3>4. ~connection_closed'
      <4>1. arrived # taken
        BY <1>1, <1>3, <3>1
      <4> QED BY <2>a, <3>3, <4>1 DEF Recv
    <3> QED BY <2>0, <3>3, <3>4 DEF Recv
  <2> QED BY <2>1, <2>2
<1> HIDE DEF t
<1>12. sent' = sent /\ arrived' = arrived /\ fin' = fin /\ reset' = reset
  BY <1>4 DEF link
<1>13. TcpTypeOK'
  <2>1. arrived' \in 0..Len(sent') /\ taken' \in 0..arrived'
    BY <1>1, <1>3, <1>11, <1>12
  <2>2. Len(sent') - taken' <= SendRoom
    BY <1>1, <1>3, <1>11, <1>12
  <2>3. rfailed' \in BOOLEAN
    BY <1>5
  <2>4. /\ fin' \in BOOLEAN /\ reset' \in BOOLEAN /\ wbad' \in BOOLEAN /\ send_failed' \in BOOLEAN
        /\ closing' \in {"no", "draining", "closed"}
    BY <1>4 DEF LinkInv, TcpTypeOK, link, wstream
  <2> QED BY <1>11, <2>1, <2>2, <2>3, <2>4 DEF TcpTypeOK
<1>14. EndsAgree'
  <2>1. Len(received') = taken + k
    BY <1>7, <1>11
  <2>2. InOrder'
    <3>1. Len(received') <= taken'
      BY <1>1, <1>3, <1>11, <2>1
    <3>2. received' = SubSeq(sent', 1, Len(received'))
      BY <1>9, <1>11, <1>12, <2>1
    <3> QED BY <3>1, <3>2 DEF InOrder
  <2>3. PositionsCount'
    <3>1. ~send_failed' => write_pos' = Len(sent')
      BY <1>4 DEF LinkInv, EndsAgree, PositionsCount, link, wstream
    <3>2. read_pos' = Len(received') /\ read_length' = read_pos'
      BY <1>10, <1>11, <2>1
    <3> QED BY <3>1, <3>2 DEF PositionsCount
  <2> QED BY <2>2, <2>3 DEF EndsAgree
<1>15. ClosedMeansEnd'
  <2>1. ASSUME connection_closed'
        PROVE  arrived' - taken' = 0 /\ ((fin' /\ taken' = Len(sent')) \/ reset')
    <3>1. k = 0 /\ arrived = taken /\ ((fin /\ taken = Len(sent)) \/ reset)
      BY <1>11, <2>1 DEF AtEnd
    <3>2. taken' = taken
      BY <1>1, <1>11, <3>1
    <3> QED BY <1>1, <1>12, <3>1, <3>2
  <2> QED BY <2>1 DEF ClosedMeansEnd, Waiting, AtEnd
<1>16. taken' = Len(received')
  BY <1>7, <1>11
<1>17. LinkInv'
  BY <1>13, <1>14, <1>15, <1>16 DEF LinkInv
<1>18. taken + k <= Len(sent)
  BY <1>1, <1>3
<1> QED BY <1>2, <1>3, <1>4, <1>5, <1>7, <1>11, <1>17, <1>18 DEF t, k

LEMMA PieceOfPrefix ==
  ASSUME NEW s \in Seq(Nat), NEW t \in Seq(Nat), Len(t) <= Len(s),
         t = SubSeq(s, 1, Len(t)), NEW i \in Nat, NEW n \in Nat, i + n <= Len(t)
  PROVE  SubSeq(t, i + 1, i + n) = SubSeq(s, i + 1, i + n)
<1>1. Len(s) \in Nat /\ Len(t) \in Nat
  BY LenProperties
<1>2. \A j \in 1..Len(t) : t[j] = s[j]
  <2>1. \A j \in 1..Len(t) : SubSeq(s, 0 + 1, 0 + Len(t))[j] = s[0+j]
    BY <1>1, Piece
  <2>2. 0 + 1 = 1 /\ 0 + Len(t) = Len(t) /\ \A j \in 1..Len(t) : 0 + j = j
    BY <1>1
  <2> QED BY <2>1, <2>2
<1> DEFINE u == SubSeq(t, i + 1, i + n)
           v == SubSeq(s, i + 1, i + n)
<1>3. u \in Seq(Nat) /\ Len(u) = n /\ \A j \in 1..n : u[j] = t[i+j]
  BY Piece
<1>4. v \in Seq(Nat) /\ Len(v) = n /\ \A j \in 1..n : v[j] = s[i+j]
  BY <1>1, Piece
<1>5. \A j \in 1..n : i + j \in 1..Len(t)
  BY <1>1
<1>6. \A j \in 1..n : u[j] = v[j]
  BY <1>2, <1>3, <1>4, <1>5
<1> HIDE DEF u, v
<1>7. u = v
  BY <1>3, <1>4, <1>6, SeqEqual
<1> QED BY <1>7 DEF u, v

(* Reading n bytes by way of the buffer: they are the next n of the stream *)
(* and the buffer moves behind them, or the read comes short, everything   *)
(* is used up and both flags say so.                                       *)
LEMMA ReadBuffered ==
  ASSUME sent \in Seq(Nat), received \in Seq(Nat), LinkInv, KeptForRetry,
         FlagsInv, closing = "no", bpos \in 0..Len(buffer),
         NEW n \in Nat, ReadBytesWithBuffer(n)
  PROVE  /\ received' \in Seq(Nat) /\ LinkInv' /\ KeptForRetry' /\ FlagsInv'
         /\ UNCHANGED <<link, wstream, closing>>
         /\ bpos' \in bpos..Len(buffer')
         /\ Found(n) \in Seq(Nat) /\ Len(Found(n)) <= n
         /\ \/ /\ Found(n) = SubSeq(sent, bpos + 1, bpos + n)
               /\ bpos' = bpos + n /\ bpos + n <= Len(sent)
            \/ Torn' /\ read_empty' /\ buffer_read_empty'
         /\ Torn => Torn' /\ read_empty' /\ buffer_read_empty'
<1> DEFINE b == FromBuffer(n)
           k == FoundBy(Left(n))
           l == Left(n)
<1>1. /\ Len(buffer) \in Nat /\ bpos \in Nat /\ bpos <= Len(buffer)
      /\ buffer = received /\ taken = Len(buffer)
  BY LenProperties DEF KeptForRetry, LinkInv
<1>2. Kept \in Nat /\ Kept = Len(buffer) - bpos
  BY <1>1 DEF Kept
<1>3. b \in Nat /\ b <= n /\ b <= Kept /\ (b = n \/ b = Kept)
  BY <1>2 DEF FromBuffer, Lesser
<1>4. l \in Nat /\ l = n - b
  BY <1>3 DEF Left
<1>5. Len(sent) \in Nat /\ Len(buffer) <= Len(sent)
  BY <1>1, LenProperties DEF LinkInv, TcpTypeOK
<1>6. buffer = SubSeq(sent, 1, Len(buffer))
  BY <1>1 DEF LinkInv, EndsAgree, InOrder
<1> DEFINE old == Replayed(n)
<1>7. /\ old = SubSeq(sent, bpos + 1, bpos + b)
      /\ old \in Seq(Nat) /\ Len(old) = b
  <2> HIDE DEF b
  <2>1. bpos + b <= Len(buffer)
    BY <1>1, <1>2, <1>3
  <2>2. SubSeq(buffer, bpos + 1, bpos + b) = SubSeq(sent, bpos + 1, bpos + b)
    BY <1>1, <1>3, <1>5, <1>6, <2>1, PieceOfPrefix
  <2>3. /\ SubSeq(sent, bpos + 1, bpos + b) \in Seq(Nat)
        /\ Len(SubSeq(sent, bpos + 1, bpos + b)) = b
    <3>1. bpos + b <= Len(sent) /\ bpos \in Nat /\ b \in Nat /\ sent \in Seq(Nat)
      BY <1>1, <1>3, <1>5, <2>1
    <3> HIDE DEF old
    <3> QED BY ONLY <3>1, Piece
  <2>4. old = SubSeq(buffer, bpos + 1, bpos + b)
    BY DEF Replayed, b
  <2> QED BY <2>2, <2>3, <2>4
<1>8. buffer_read_empty' = ((b = 0 \/ b # n) /\ Kept = b)
  BY DEF ReadBytesWithBuffer
<1>9. CASE b > 0 /\ b = n
  <2>1. bpos' = bpos + n /\ UNCHANGED <<tcpVars, buffer, read_empty>>
    BY <1>9 DEF ReadBytesWithBuffer
  <2>2. Found(n) = old
    <3>1. Found(n) = old \o <<>>
      BY <1>9 DEF Found
    <3> QED BY <1>7, <3>1, ConcatEmptySeq
  <2>3. /\ UNCHANGED <<link, wstream, rstream, closing>>
        /\ buffer' = buffer /\ read_empty' = read_empty
    BY <2>1 DEF tcpVars
  <2>4. received' = received /\ sent' = sent /\ rfailed' = rfailed
    BY <2>3 DEF link, rstream
  <2>5. LinkInv'
    BY <2>3, <2>4 DEF LinkInv, TcpTypeOK, EndsAgree, InOrder, PositionsCount,
                 ClosedMeansEnd, Waiting, AtEnd, link, wstream, rstream, rflags
  <2>6. KeptForRetry' /\ received' \in Seq(Nat)
    BY <2>3, <2>4 DEF KeptForRetry
  <2>7. FlagsInv'
    BY <1>8, <2>3 DEF FlagsInv
  <2> HIDE DEF b, k, l, old
  <2>8. bpos + n <= Len(buffer)
    BY <1>1, <1>2, <1>3, <1>9
  <2>9. bpos' \in bpos..Len(buffer') /\ bpos + n <= Len(sent)
    BY <1>1, <1>5, <2>1, <2>3, <2>8
  <2>10. ~Torn
    BY <1>1, <1>9, <2>8 DEF Torn
  <2>11. Found(n) = SubSeq(sent, bpos + 1, bpos + n)
    BY <1>7, <1>9, <2>2
  <2>12. Found(n) \in Seq(Nat) /\ Len(Found(n)) <= n
    BY <1>7, <1>9, <2>2
  <2> QED BY <2>1, <2>3, <2>5, <2>6, <2>7, <2>9, <2>10, <2>11, <2>12
<1>10. CASE ~(b > 0 /\ b = n)
  <2>1. /\ Read(l)
        /\ read_empty' = (k = 0 \/ k # l)
        /\ buffer' = buffer \o Fresh(n)
        /\ bpos' = bpos + b + k
    BY <1>10 DEF ReadBytesWithBuffer, Keep
  <2>2. k = FoundBy(l) /\ Fresh(n) = SubSeq(sent, taken + 1, taken + k)
    BY DEF Fresh
  <2> HIDE DEF b, k, l, old
  <2>3. /\ k \in 0..l
        /\ taken + k <= Len(sent)
        /\ rfailed' = (rfailed \/ k < l)
        /\ received' = received \o SubSeq(sent, taken + 1, taken + k)
        /\ received' \in Seq(Nat)
        /\ Len(received') = Len(received) + k
        /\ LinkInv'
        /\ UNCHANGED <<link, wstream, closing>>
    BY <1>4, <2>1, <2>2, ReadLink
  <2>4. buffer' = received'
    BY <1>1, <2>1, <2>2, <2>3
  <2>5. KeptForRetry' /\ FlagsInv'
    <3>1. read_empty' \in BOOLEAN /\ buffer_read_empty' \in BOOLEAN
      BY <1>8, <2>1
    <3> QED BY <2>4, <3>1 DEF KeptForRetry, FlagsInv
  <2>6. Len(buffer') = Len(buffer) + k /\ k \in Nat /\ k <= l
    BY <1>1, <1>4, <2>3, <2>4
  <2>7. bpos' \in bpos..Len(buffer')
    BY <1>1, <1>2, <1>3, <2>1, <2>6
  <2>8. Fresh(n) \in Seq(Nat) /\ Len(Fresh(n)) = k
    <3>1. taken \in Nat
      BY <1>1
    <3>2. /\ SubSeq(sent, taken + 1, taken + k) \in Seq(Nat)
          /\ Len(SubSeq(sent, taken + 1, taken + k)) = k
      BY <2>3, <2>6, <3>1, Piece
    <3> QED BY <2>2, <3>2
  <2>9. CASE b = n
    <3>1. n = 0 /\ l = 0 /\ k = 0 /\ b = 0
      BY <1>3, <1>4, <1>10, <2>6, <2>9
    <3>2. Found(n) = old
      <4>1. Found(n) = old \o <<>>
        BY <2>9 DEF Found, old, b
      <4> QED BY <1>7, <4>1, ConcatEmptySeq
    <3>3. Found(n) = SubSeq(sent, bpos + 1, bpos + n)
      BY <1>7, <2>9, <3>2
    <3>4. bpos' = bpos + n /\ bpos + n <= Len(sent)
      BY <1>1, <1>5, <2>1, <3>1
    <3>5. Found(n) \in Seq(Nat) /\ Len(Found(n)) <= n
      BY <1>7, <2>9, <3>1, <3>2
    <3>6. ASSUME Torn
          PROVE  Torn' /\ read_empty' /\ buffer_read_empty'
      <4>1. bpos' = Len(buffer')
        BY <1>1, <2>1, <2>6, <3>1, <3>6 DEF Torn
      <4>2. Kept = 0
        BY <1>1, <1>2, <3>6 DEF Torn
      <4>3. buffer_read_empty' /\ read_empty'
        BY <1>8, <2>1, <3>1, <4>2
      <4>4. rfailed'
        BY <2>3, <3>6 DEF Torn
      <4> QED BY <4>1, <4>3, <4>4 DEF Torn
    <3> QED BY <2>3, <2>5, <2>7, <3>3, <3>4, <3>5, <3>6
  <2>10. CASE b # n
    <3>1. b = Kept /\ l > 0 /\ bpos + b = Len(buffer)
      BY <1>1, <1>2, <1>3, <1>4, <2>10
    <3>2. Found(n) = old \o Fresh(n)
      BY <2>10 DEF Found, old, b
    <3>3. Found(n) \in Seq(Nat) /\ Len(Found(n)) = b + k
      BY <1>7, <2>8, <3>2, ConcatProperties
    <3>4. Len(Found(n)) <= n
      BY <1>3, <1>4, <2>6, <3>3
    <3>5. bpos' = Len(buffer')
      BY <1>1, <1>3, <2>1, <2>6, <3>1
    <3>6. buffer_read_empty'
      BY <1>8, <2>10, <3>1
    <3>7. CASE k = l
      <4>1. bpos' = bpos + n
        BY <1>1, <1>3, <1>4, <2>1, <3>7
      <4>2. bpos + n <= Len(sent)
        BY <1>1, <1>3, <1>4, <2>3, <3>1, <3>7
      <4>3. Found(n) = SubSeq(sent, bpos + 1, bpos + n)
        <5>1. SubSeq(sent, bpos + 1, bpos + b) \o SubSeq(sent, bpos + b + 1, bpos + b + k)
                = SubSeq(sent, bpos + 1, bpos + b + k)
          <6>1. bpos + b + k <= Len(sent)
            BY <1>1, <1>3, <2>3, <3>1
          <6>2. bpos \in Nat /\ b \in Nat /\ k \in Nat /\ sent \in Seq(Nat)
            BY <1>1, <1>3, <2>6
          <6> QED BY ONLY <6>1, <6>2, Pieces
        <5>2. taken = bpos + b /\ bpos + b + k = bpos + n
          BY <1>1, <1>3, <1>4, <3>1, <3>7
        <5> QED BY <1>7, <2>2, <3>2, <5>1, <5>2
      <4>4. ASSUME Torn
            PROVE  Torn' /\ read_empty' /\ buffer_read_empty'
        <5>1. rfailed
          BY <4>4 DEF Torn
        <5>2. k = 0
          BY <2>2, <5>1 DEF FoundBy
        <5> QED BY <3>1, <3>7, <5>2
      <4> QED BY <2>3, <2>5, <2>7, <3>3, <3>4, <4>1, <4>2, <4>3, <4>4
    <3>8. CASE k # l
      <4>1. k < l
        BY <1>4, <2>6, <3>8
      <4>2. rfailed' /\ read_empty'
        BY <2>1, <2>3, <3>8, <4>1
      <4>3. Torn'
        BY <3>5, <4>2 DEF Torn
      <4> QED BY <2>3, <2>5, <2>7, <3>3, <3>4, <3>6, <4>2, <4>3
    <3> QED BY <3>7, <3>8
  <2> QED BY <2>9, <2>10
<1> QED BY <1>9, <1>10

-----------------------------------------------------------------------------
(* The two programs start at the beginning of the stream.                  *)
LEMMA InitResumeInv == Init => ResumeInv
<1> SUFFICES ASSUME Init PROVE ResumeInv
  OBVIOUS
<1> USE DEF Init, TcpInit
<1>1. LengthsInv /\ Len(lengths) \in Nat /\ Len(lengths) > 0
  <2>1. PICK n \in 1..MaxStrings : lengths \in [1..n -> Lengths]
    OBVIOUS
  <2>2. n \in Nat /\ n > 0
    BY LengthAssumption
  <2>3. lengths \in Seq(Lengths)
    BY <2>1, <2>2, SeqDef
  <2>4. DOMAIN lengths = 1..Len(lengths) /\ Len(lengths) \in Nat
    BY <2>3, LenProperties
  <2>5. 1..Len(lengths) = 1..n
    BY <2>1, <2>4
  <2>6. Len(lengths) = n
    BY <2>2, <2>4, <2>5, UpTo
  <2>7. lengths # <<>>
    BY <2>2, <2>6, EmptySeq
  <2> QED BY <2>2, <2>3, <2>6, <2>7 DEF LengthsInv
<1>2. <<>> \in Seq(Nat) /\ Len(<<>>) = 0 /\ <<>> \in Seq(Seq(Nat))
  BY EmptySeq
<1>3. SubSeq(<<>>, 1, 0) = <<>>
  BY SubSeqEmpty
<1>4. Offset[0] = 0
  BY <1>1, OffsetIs
<1>5. SentInv
  <2>1. \A k \in Parts : \A i \in 1..Len(Part(k)) : ~(Offset[k-1] + i <= 0)
    <3> TAKE k \in Parts
    <3> TAKE i \in 1..Len(Part(k))
    <3>1. k - 1 \in 0..2 * Len(lengths)
      BY <1>1 DEF Parts
    <3>2. Offset[k-1] \in Nat
      BY <1>1, <3>1, OffsetIs
    <3>3. i \in Nat /\ i > 0
      BY <1>1, PartShape
    <3> QED BY <3>2, <3>3
  <2> QED BY <1>2, <2>1 DEF SentInv
<1>6. WriterInv
  <2>1. 1 - 1 = 0 /\ 1 \in 1..2 * Len(lengths) + 1
    BY <1>1
  <2> QED BY <1>2, <1>4, <2>1 DEF WriterInv
<1>7. LinkInv
  <2>1. TcpTypeOK
    <3>1. Len(sent) = 0
      BY <1>2
    <3>2. 0 \in 0..Len(sent) /\ 0 \in 0..0 /\ Len(sent) - 0 <= SendRoom
      BY <3>1, RoomAssumption
    <3> QED BY <3>2 DEF TcpTypeOK
  <2>2. EndsAgree
    BY <1>2, <1>3 DEF EndsAgree, InOrder, PositionsCount
  <2> QED BY <1>2, <2>1, <2>2 DEF LinkInv, ClosedMeansEnd
<1>8. KeptForRetry /\ FlagsInv
  BY DEF KeptForRetry, FlagsInv
<1>9. PlaceInv
  <2>1. 2 * Len(accepted) = 0
    BY <1>2
  <2> QED BY <1>1, <1>2, <1>4, <2>1 DEF PlaceInv
<1>10. StringInv
  BY <1>2 DEF StringInv, AcceptedWhole
<1> QED BY <1>1, <1>5, <1>6, <1>7, <1>8, <1>9, <1>10 DEF ResumeInv

(* Steps that leave one of the programs where it is.                       *)
LEMMA LengthsStay ==
  ASSUME lengths' = lengths
  PROVE  /\ Offset' = Offset /\ Parts' = Parts
         /\ \A k : Part(k)' = Part(k)
         /\ LengthsInv => LengthsInv'
<1>1. Offset' = Offset
  BY DEF Offset
<1>2. \A k : Part(k)' = Part(k)
  BY DEF Part
<1> QED BY <1>1, <1>2 DEF Parts, LengthsInv

LEMMA WriterStays ==
  ASSUME SentInv, WriterInv, UNCHANGED <<lengths, wnext, sent, wbad>>,
         received' \in Seq(Nat)
  PROVE  SentInv' /\ WriterInv'
<1>1. Offset' = Offset /\ Parts' = Parts /\ \A k : Part(k)' = Part(k)
  BY LengthsStay
<1>2. SentInv'
  BY <1>1 DEF SentInv
<1>3. WriterInv'
  BY <1>1 DEF WriterInv
<1> QED BY <1>2, <1>3

LEMMA ReaderStays ==
  ASSUME KeptForRetry, FlagsInv, PlaceInv, StringInv,
         UNCHANGED <<lengths, program, received, rfailed>>,
         pc \in {"chars", "returned"} => closing' = "no"
  PROVE  KeptForRetry' /\ FlagsInv' /\ PlaceInv' /\ StringInv'
<1>1. /\ read_empty' = read_empty /\ buffer_read_empty' = buffer_read_empty
      /\ buffer' = buffer /\ bpos' = bpos /\ pc' = pc /\ str' = str
      /\ begin' = begin /\ accepted' = accepted
      /\ lengths' = lengths /\ received' = received /\ rfailed' = rfailed
  BY DEF program
<1>2. Offset' = Offset
  BY <1>1, LengthsStay
<1>3. PlaceInv'
  BY <1>1, <1>2 DEF PlaceInv
<1>4. StringInv'
  BY <1>1, <1>2 DEF StringInv, SizeRead, Torn, Current, Whole, AcceptedWhole
<1> QED BY <1>1, <1>3, <1>4 DEF KeptForRetry, FlagsInv

(* The writer: what a write adds lies within the part it is at.            *)
LEMMA WriteKeeps ==
  ASSUME LengthsInv, SentInv, WriterInv, LinkInv, WriteNext
  PROVE  SentInv' /\ WriterInv' /\ LinkInv'
         /\ UNCHANGED <<lengths, program, received, rfailed, closing>>
<1> DEFINE L == Len(lengths)
           bytes == Part(wnext)
<1>1. L \in Nat /\ wnext \in Parts /\ wnext' = wnext + 1
  BY LenProperties DEF WriteNext, WriterInv, LengthsInv, Parts
<1>2. wnext' \in 1..2 * L + 1 /\ wnext \in 0..2 * L /\ wnext - 1 \in 0..2 * L
      /\ wnext \in Nat
  BY <1>1 DEF Parts
<1>3. /\ bytes \in Seq(Nat) /\ Len(bytes) \in Nat /\ Len(bytes) > 0
      /\ Len(bytes) = PartLen(lengths, wnext)
  BY <1>1, PartShape
<1>4. bytes # <<>>
  BY <1>3, EmptySeq
<1>5. /\ Offset[wnext] = Offset[wnext-1] + Len(bytes)
      /\ Offset[wnext-1] \in Nat /\ Offset[wnext] \in Nat
  BY <1>1, <1>2, <1>3, OffsetIs
<1>6. /\ Len(sent) \in Nat /\ arrived \in Nat /\ taken \in Nat
      /\ arrived <= Len(sent) /\ taken <= arrived
      /\ Len(sent) - taken <= SendRoom /\ SendRoom \in Nat
  BY LenProperties, RoomAssumption DEF SentInv, LinkInv, TcpTypeOK
<1>7. lengths' = lengths /\ UNCHANGED program /\ ~fin /\ Write(bytes)
  BY DEF WriteNext
<1>8. Offset' = Offset /\ Parts' = Parts /\ \A k : Part(k)' = Part(k)
  BY <1>7, LengthsStay
<1>9. wnext' - 1 = wnext
  BY <1>1, <1>2
<1>10. ~wbad => Len(sent) = Offset[wnext-1]
  BY DEF WriterInv
<1>11. wnext' \in 1..2 * Len(lengths') + 1
  BY <1>2, <1>7
<1>12. received \in Seq(Nat) /\ sent \in Seq(Nat)
  BY DEF SentInv
<1> HIDE DEF bytes, L
<1>13. CASE wbad
  <2>1. UNCHANGED tcpVars
    BY <1>7, <1>13 DEF Write
  <2>2. UNCHANGED <<link, wstream, rstream, closing, sent, received, rfailed>> /\ wbad'
    BY <1>13, <2>1 DEF tcpVars, link, wstream, rstream
  <2>3. SentInv'
    BY <1>8, <2>2 DEF SentInv
  <2>4. WriterInv'
    BY <1>11, <2>2 DEF WriterInv
  <2>5. LinkInv'
    BY <2>2 DEF LinkInv, TcpTypeOK, EndsAgree, InOrder, PositionsCount,
                ClosedMeansEnd, Waiting, AtEnd, link, wstream, rstream, rflags
  <2> QED BY <1>7, <2>2, <2>3, <2>4, <2>5
<1>14. CASE ~wbad /\ \E k \in 1..Len(bytes) : k <= Room /\ Send(bytes, k)
  <2>1. PICK k \in 1..Len(bytes) : k <= Room /\ Send(bytes, k)
    BY <1>14
  <2> DEFINE t == SubSeq(bytes, 1, k)
  <2>2. /\ sent' = sent \o t /\ wbad' = (k < Len(bytes))
        /\ write_pos' = write_pos + k /\ write_length' = write_length + k
        /\ UNCHANGED <<arrived, fin, reset, send_failed, rstream, closing>>
    BY <2>1 DEF Send
  <2>3. k \in Nat /\ k > 0 /\ k <= Len(bytes) /\ k <= SendRoom - (Len(sent) - taken)
    BY <1>3, <2>1 DEF Room
  <2>4. t \in Seq(Nat) /\ Len(t) = k /\ \A j \in 1..k : t[j] = bytes[j]
    <3>1. /\ SubSeq(bytes, 0 + 1, 0 + k) \in Seq(Nat)
          /\ Len(SubSeq(bytes, 0 + 1, 0 + k)) = k
          /\ \A j \in 1..k : SubSeq(bytes, 0 + 1, 0 + k)[j] = bytes[0+j]
      BY <1>3, <2>3, Piece
    <3>2. 0 + 1 = 1 /\ 0 + k = k /\ \A j \in 1..k : 0 + j = j
      BY <2>3
    <3> QED BY <3>1, <3>2
  <2> HIDE DEF t
  <2>5. /\ sent' \in Seq(Nat) /\ Len(sent') = Len(sent) + k
        /\ \A j \in 1..Len(sent) + k :
             sent'[j] = IF j <= Len(sent) THEN sent[j] ELSE t[j - Len(sent)]
    <3>1. /\ sent \o t \in Seq(Nat) /\ Len(sent \o t) = Len(sent) + Len(t)
          /\ \A j \in 1..Len(sent) + Len(t) :
               (sent \o t)[j] = IF j <= Len(sent) THEN sent[j] ELSE t[j - Len(sent)]
      BY <1>12, <2>4, ConcatProperties
    <3>2. sent' = sent \o t /\ Len(t) = k
      BY <2>2, <2>4
    <3> QED BY ONLY <3>1, <3>2, Zenon
  <2>6. /\ taken' = taken /\ received' = received /\ rfailed' = rfailed
        /\ read_pos' = read_pos /\ read_length' = read_length
        /\ stream_empty' = stream_empty /\ connection_closed' = connection_closed
    BY <2>2 DEF rstream, rflags
  <2>7. Len(sent) = Offset[wnext-1]
    BY <1>10, <1>14
  <2>8. SentInv'
    <3>1. ASSUME NEW p \in Parts, NEW i \in 1..Len(Part(p)),
                 Offset[p-1] + i <= Len(sent')
          PROVE  sent'[Offset[p-1] + i] = Part(p)[i]
      <4> DEFINE x == Offset[p-1] + i
      <4>1. /\ p \in 0..2 * L /\ p - 1 \in 0..2 * L
            /\ Len(Part(p)) = PartLen(lengths, p) /\ Len(Part(p)) \in Nat
        BY <1>1, PartShape DEF Parts, L
      <4>2. /\ Offset[p-1] \in Nat /\ Offset[p] \in Nat
            /\ Offset[p] = Offset[p-1] + Len(Part(p))
        BY <4>1, OffsetIs DEF L
      <4>3. x \in 1..Len(sent) + k /\ x <= Offset[p] /\ x > Offset[p-1]
        <5>1. i \in Nat /\ i > 0 /\ i <= Len(Part(p))
          BY <4>1
        <5>2. x <= Len(sent) + k
          BY <2>5, <3>1
        <5>3. x = Offset[p-1] + i
          OBVIOUS
        <5>4. Offset[p-1] \in Nat /\ Len(Part(p)) \in Nat /\ Len(sent) + k \in Nat
          BY <1>6, <2>3, <4>1, <4>2
        <5> HIDE DEF x
        <5> QED BY ONLY <4>2, <5>1, <5>2, <5>3, <5>4
      <4>4. CASE x <= Len(sent)
        <5>1. sent[x] = Part(p)[i]
          BY <4>4 DEF SentInv
        <5> HIDE DEF x
        <5>2. sent'[x] = sent[x]
          BY <2>5, <4>3, <4>4
        <5>3. sent'[x] = Part(p)[i]
          BY <5>1, <5>2
        <5> QED BY <5>3 DEF x
      <4>5. CASE x > Len(sent)
        <5> HIDE DEF x
        <5>1. x <= Offset[wnext]
          BY <1>5, <1>6, <2>3, <2>7, <4>3
        <5>2. p = wnext
          <6>1. p \in Nat /\ x \in Nat
            BY <1>6, <2>3, <4>1, <4>3
          <6>2. CASE p < wnext
            <7>1. p <= wnext - 1
              BY <1>2, <6>1, <6>2
            <7>2. Offset[p] <= Offset[wnext-1]
              BY <1>2, <4>1, <7>1, OffsetGrows DEF L
            <7>3. x <= Offset[p]
              BY <4>3
            <7> QED BY ONLY <1>5, <2>7, <4>2, <4>5, <6>1, <7>2, <7>3
          <6>3. CASE wnext < p
            <7>1. wnext <= p - 1
              BY <1>2, <6>1, <6>3
            <7>2. Offset[wnext] <= Offset[p-1]
              BY <1>2, <4>1, <7>1, OffsetGrows DEF L
            <7>3. x > Offset[p-1]
              BY <4>3
            <7> QED BY ONLY <1>5, <4>2, <5>1, <6>1, <7>2, <7>3
          <6> QED BY <1>2, <6>1, <6>2, <6>3
        <5>3. x - Len(sent) = i /\ i \in 1..k
          <6>1. x = Offset[p-1] + i /\ i \in Nat
            BY <4>1 DEF x
          <6>2. x = Len(sent) + i
            BY <2>7, <5>2, <6>1
          <6>3. /\ x \in 1..Len(sent) + k /\ Len(sent) \in Nat /\ x > Len(sent)
                /\ k \in Nat
            BY <1>5, <1>6, <2>3, <4>3, <4>5
          <6> QED BY ONLY <6>1, <6>2, <6>3
        <5>4. sent'[x] = t[i]
          BY <1>6, <2>5, <4>3, <4>5, <5>3
        <5>5. t[i] = Part(p)[i]
          BY <2>4, <5>2, <5>3 DEF bytes
        <5> QED BY <5>4, <5>5 DEF x
      <4>6. x \in Nat /\ Len(sent) \in Nat
        BY <1>6, <2>3, <4>3
      <4> HIDE DEF x
      <4>7. x <= Len(sent) \/ x > Len(sent)
        BY <4>6
      <4> QED BY <4>4, <4>5, <4>7 DEF x
    <3> QED BY <1>8, <1>12, <2>5, <2>6, <3>1 DEF SentInv
  <2>9. WriterInv'
    <3>1. ASSUME ~wbad'
          PROVE  Len(sent') = Offset[wnext]
      <4>1. k = Len(bytes)
        <5>1. ~(k < Len(bytes))
          BY <2>2, <3>1, Zenon
        <5> QED BY <1>3, <2>3, <5>1
      <4> QED BY <1>5, <2>5, <2>7, <4>1
    <3> QED BY <1>8, <1>9, <1>11, <3>1 DEF WriterInv
  <2>10. TcpTypeOK'
    <3>1. arrived' \in 0..Len(sent') /\ taken' \in 0..arrived'
          /\ Len(sent') - taken' <= SendRoom
      BY <1>6, <2>2, <2>3, <2>5, <2>6
    <3> QED BY <2>2, <2>6, <3>1 DEF LinkInv, TcpTypeOK
  <2>11. EndsAgree'
    <3>1. received' = SubSeq(sent', 1, Len(received'))
      <4> DEFINE m == Len(received)
      <4>1. m \in Nat /\ m <= Len(sent)
        <5>1. m \in Nat
          BY <1>12, LenProperties
        <5>2. m <= taken
          BY DEF LinkInv, EndsAgree, InOrder
        <5> HIDE DEF m
        <5> QED BY <1>6, <5>1, <5>2
      <4>2. received = SubSeq(sent, 1, m)
        BY DEF LinkInv, EndsAgree, InOrder
      <4>3. SubSeq(sent', 1, m) = SubSeq(sent, 1, m)
        <5> HIDE DEF m
        <5>1. CASE m = 0
          <6>1. SubSeq(sent', 1, m) = <<>> /\ SubSeq(sent, 1, m) = <<>>
            BY <5>1, SubSeqEmpty
          <6> QED BY <6>1
        <5>2. CASE m # 0
          <6>1. 1 \in 1..Len(sent) /\ m \in 1..Len(sent)
            BY <1>6, <4>1, <5>2
          <6> QED BY <1>12, <2>2, <2>4, <6>1, SubSeqOfConcat1
        <5> QED BY <5>1, <5>2
      <4> QED BY <2>6, <4>2, <4>3
    <3>2. Len(received') <= taken'
      BY <2>6 DEF LinkInv, EndsAgree, InOrder
    <3>3. PositionsCount'
      <4>1. ~send_failed' => write_pos' = Len(sent')
        BY <1>6, <2>2, <2>3, <2>5 DEF LinkInv, EndsAgree, PositionsCount
      <4> QED BY <2>6, <4>1 DEF LinkInv, EndsAgree, PositionsCount
    <3> QED BY <3>1, <3>2, <3>3 DEF EndsAgree, InOrder
  <2>12. ClosedMeansEnd'
    BY <1>7, <2>2, <2>6 DEF LinkInv, ClosedMeansEnd, Waiting, AtEnd
  <2>13. (closing = "no" => taken = Len(received))'
    BY <2>2, <2>6 DEF LinkInv
  <2>14. LinkInv'
    BY <2>10, <2>11, <2>12, <2>13 DEF LinkInv
  <2> QED BY <1>7, <2>2, <2>6, <2>8, <2>9, <2>14
<1>15. CASE ~wbad /\ (SendFails \/ SendTimesOut)
  <2>1. /\ UNCHANGED <<link, rstream, closing>> /\ wbad' = TRUE
        /\ send_failed' = TRUE \/ UNCHANGED <<write_pos, send_failed>>
    BY <1>15 DEF SendFails, SendTimesOut
  <2>2. UNCHANGED <<sent, received, rfailed>>
    BY <2>1 DEF link, rstream
  <2>3. SentInv'
    BY <1>8, <2>2 DEF SentInv
  <2>4. WriterInv'
    BY <1>11, <2>1 DEF WriterInv
  <2>5. TcpTypeOK'
    BY <2>1 DEF LinkInv, TcpTypeOK, link, rstream, rflags
  <2>6. EndsAgree' /\ ClosedMeansEnd'
    BY <2>1 DEF LinkInv, EndsAgree, InOrder, PositionsCount,
                ClosedMeansEnd, Waiting, AtEnd, link, rstream, rflags
  <2>7. LinkInv'
    BY <2>1, <2>5, <2>6 DEF LinkInv, rstream
  <2> QED BY <1>7, <2>1, <2>2, <2>3, <2>4, <2>7
<1>16. wbad \/ (~wbad /\ \E k \in 1..Len(bytes) : k <= Room /\ Send(bytes, k))
       \/ (~wbad /\ (SendFails \/ SendTimesOut))
  BY <1>4, <1>7 DEF Write
<1> QED BY <1>13, <1>14, <1>15, <1>16

(* The network, and both ends as they close. *)
LEMMA LinkKeeps ==
  ASSUME LinkInv, received \in Seq(Nat), sent \in Seq(Nat),
         \/ CloseWriter \/ Deliver \/ ConnectionReset \/ CloseReader
         \/ DrainByte \/ DrainEnds
  PROVE  LinkInv' /\ UNCHANGED <<sent, wbad, received, rfailed>>
<1>1. /\ Len(sent) \in Nat /\ arrived \in Nat /\ taken \in Nat
      /\ arrived <= Len(sent) /\ taken <= arrived
      /\ Len(sent) - taken <= SendRoom /\ SendRoom \in Nat
      /\ Len(received) \in Nat /\ Len(received) <= taken
  <2>1. Len(sent) \in Nat /\ Len(received) \in Nat
    BY LenProperties
  <2>2. /\ arrived \in 0..Len(sent) /\ taken \in 0..arrived
        /\ Len(sent) - taken <= SendRoom
    BY DEF LinkInv, TcpTypeOK
  <2>3. Len(received) <= taken
    BY DEF LinkInv, EndsAgree, InOrder
  <2> QED BY <2>1, <2>2, <2>3, RoomAssumption
<1>2. /\ UNCHANGED <<wstream, sent, received, read_pos, read_length, rfailed, rflags>>
      /\ fin' \in BOOLEAN /\ (fin => fin')
      /\ reset' \in BOOLEAN /\ (reset => reset')
      /\ arrived' \in taken..Len(sent) /\ taken' \in taken..arrived'
      /\ connection_closed => arrived' = taken /\ taken' = taken
      /\ closing' \in {"no", "draining", "closed"}
      /\ closing' = "no" => closing = "no" /\ taken' = taken
  <2>0. /\ fin \in BOOLEAN /\ reset \in BOOLEAN
        /\ closing \in {"no", "draining", "closed"}
    BY DEF LinkInv, TcpTypeOK
  <2>a. connection_closed => arrived = taken /\ (taken = Len(sent) \/ reset)
    BY <1>1 DEF LinkInv, ClosedMeansEnd, Waiting, AtEnd
  <2>1. CASE CloseWriter
    BY <1>1, <2>0, <2>a, <2>1 DEF CloseWriter, rstream
  <2>2. CASE Deliver
    BY <1>1, <2>0, <2>a, <2>2 DEF Deliver, rstream
  <2>3. CASE ConnectionReset
    BY <1>1, <2>0, <2>a, <2>3 DEF ConnectionReset, rstream
  <2>4. CASE CloseReader
    BY <1>1, <2>0, <2>a, <2>4 DEF CloseReader, rstream, link
  <2>5. CASE DrainByte
    BY <1>1, <2>0, <2>a, <2>5 DEF DrainByte, Waiting, link
  <2>6. CASE DrainEnds
    BY <1>1, <2>0, <2>a, <2>6 DEF DrainEnds, rstream, link
  <2> QED BY <2>1, <2>2, <2>3, <2>4, <2>5, <2>6
<1>3. /\ write_pos' = write_pos /\ wbad' = wbad /\ send_failed' = send_failed
      /\ sent' = sent /\ received' = received /\ rfailed' = rfailed
      /\ read_pos' = read_pos /\ read_length' = read_length
      /\ stream_empty' = stream_empty /\ connection_closed' = connection_closed
  BY <1>2 DEF wstream, rflags
<1>4. TcpTypeOK'
  <2>1. arrived' \in 0..Len(sent') /\ taken' \in 0..arrived'
        /\ Len(sent') - taken' <= SendRoom
    BY <1>1, <1>2, <1>3
  <2> QED BY <1>2, <1>3, <2>1 DEF LinkInv, TcpTypeOK
<1>5. EndsAgree'
  <2>1. Len(received') <= taken'
    BY <1>1, <1>2, <1>3
  <2> QED BY <1>3, <2>1 DEF LinkInv, EndsAgree, InOrder, PositionsCount
<1>6. ClosedMeansEnd'
  <2>1. ASSUME connection_closed'
        PROVE  arrived' - taken' = 0 /\ ((fin' /\ taken' = Len(sent')) \/ reset')
    <3>1. (fin /\ taken = Len(sent)) \/ reset
      BY <1>3, <2>1 DEF LinkInv, ClosedMeansEnd, AtEnd
    <3> QED BY <1>1, <1>2, <1>3, <2>1, <3>1
  <2> QED BY <2>1 DEF ClosedMeansEnd, Waiting, AtEnd
<1>7. closing' = "no" => taken' = Len(received')
  BY <1>2, <1>3 DEF LinkInv
<1> QED BY <1>3, <1>4, <1>5, <1>6, <1>7 DEF LinkInv

(* The reader: a part that was read whole is the one that was written.     *)
LEMMA PartRead ==
  ASSUME LengthsInv, SentInv, NEW k \in Parts, NEW n, n = Len(Part(k)),
         Offset[k-1] + n <= Len(sent)
  PROVE  SubSeq(sent, Offset[k-1] + 1, Offset[k-1] + n) = Part(k)
<1>1. Part(k) \in Seq(Nat) /\ n \in Nat
  BY PartShape
<1>2. Offset[k-1] \in Nat
  <2>1. k - 1 \in 0..2 * Len(lengths)
    BY LenProperties DEF Parts, LengthsInv
  <2> QED BY <2>1, OffsetIs
<1> DEFINE o == Offset[k-1]
           t == SubSeq(sent, o + 1, o + n)
<1>3. /\ t \in Seq(Nat) /\ Len(t) = n
      /\ \A j \in 1..n : t[j] = sent[o+j]
  <2>1. sent \in Seq(Nat) /\ o + n <= Len(sent)
    BY DEF SentInv
  <2>2. /\ SubSeq(sent, o + 1, o + n) \in Seq(Nat)
        /\ Len(SubSeq(sent, o + 1, o + n)) = n
        /\ \A j \in 1..n : SubSeq(sent, o + 1, o + n)[j] = sent[o+j]
    <3>1. \A s \in Seq(Nat) : \A i, m \in Nat : i + m <= Len(s) =>
            /\ SubSeq(s, i + 1, i + m) \in Seq(Nat)
            /\ Len(SubSeq(s, i + 1, i + m)) = m
            /\ \A j \in 1..m : SubSeq(s, i + 1, i + m)[j] = s[i+j]
      BY Piece, Zenon
    <3>2. o \in Nat /\ n \in Nat
      BY <1>1, <1>2
    <3> HIDE DEF o
    <3> QED BY ONLY <2>1, <3>1, <3>2, Zenon
  <2> QED BY <2>2
<1>4. \A j \in 1..n : sent[o+j] = Part(k)[j]
  <2> TAKE j \in 1..n
  <2>1. o + j <= Len(sent)
    BY <1>1, <1>2, LenProperties DEF SentInv
  <2> QED BY <2>1 DEF SentInv
<1> HIDE DEF t
<1>5. t = Part(k)
  BY <1>1, <1>3, <1>4, SeqEqual
<1> QED BY <1>5 DEF t

LEMMA ResizedShape ==
  ASSUME NEW s \in Seq(Nat), NEW n \in Nat
  PROVE  Resized(s, n) \in Seq(Nat) /\ Len(Resized(s, n)) = n
<1> DEFINE z == [j \in 1..n |-> 0]
<1>1. z \in Seq(Nat) /\ Len(z) = n
  <2>1. z \in [1..n -> Nat]
    OBVIOUS
  <2>2. z \in Seq(Nat)
    BY <2>1, SeqDef
  <2>3. DOMAIN z = 1..Len(z) /\ Len(z) \in Nat
    BY <2>2, LenProperties
  <2>4. 1..Len(z) = 1..n
    BY <2>1, <2>3
  <2> HIDE DEF z
  <2> QED BY <2>2, <2>3, <2>4, UpTo
<1> DEFINE t == s \o z
<1>2. t \in Seq(Nat) /\ Len(t) = Len(s) + n
  <2> HIDE DEF z
  <2> QED BY <1>1, ConcatProperties
<1>3. Len(s) \in Nat
  BY LenProperties
<1> HIDE DEF t
<1>4. SubSeq(t, 0 + 1, 0 + n) \in Seq(Nat) /\ Len(SubSeq(t, 0 + 1, 0 + n)) = n
  BY <1>2, <1>3, Piece
<1>5. 0 + 1 = 1 /\ 0 + n = n
  OBVIOUS
<1> QED BY <1>4, <1>5 DEF Resized, t

LEMMA IntoShape ==
  ASSUME NEW dest \in Seq(Nat), NEW bytes \in Seq(Nat), Len(bytes) <= Len(dest)
  PROVE  /\ Into(dest, Len(dest), bytes) \in Seq(Nat)
         /\ Len(Into(dest, Len(dest), bytes)) = Len(dest)
         /\ Len(bytes) = Len(dest) => Into(dest, Len(dest), bytes) = bytes
<1> DEFINE n == Len(dest)
           m == Len(bytes)
           rest == SubSeq(dest, m + 1, m + (n - m))
<1>1. n \in Nat /\ m \in Nat /\ n - m \in Nat /\ m + (n - m) = n
  BY LenProperties
<1>2. rest \in Seq(Nat) /\ Len(rest) = n - m
  <2> HIDE DEF n, m
  <2>1. m + (n - m) <= Len(dest)
    BY <1>1 DEF n
  <2> QED BY <1>1, <2>1, Piece
<1>3. Into(dest, n, bytes) = bytes \o rest
  <2> HIDE DEF n
  <2> QED BY <1>1 DEF Into
<1> HIDE DEF rest
<1>4. bytes \o rest \in Seq(Nat) /\ Len(bytes \o rest) = m + (n - m)
  BY <1>2, ConcatProperties
<1>5. m = n => bytes \o rest = bytes
  <2>1. m = n => Len(rest) = 0
    BY <1>1, <1>2
  <2>2. m = n => rest = <<>>
    BY <1>2, <2>1, EmptySeq
  <2> QED BY <2>2, ConcatEmptySeq
<1> QED BY <1>1, <1>3, <1>4, <1>5

(* What the reader's steps know of the string they are at. *)
LEMMA AtString ==
  ASSUME LengthsInv, PlaceInv, StringInv, pc # "finished"
  PROVE  /\ Current \in 1..Len(lengths) /\ Current \in Nat
         /\ Len(accepted) \in Nat
         /\ Offset[2 * Current - 1] = begin + SizeBytes
         /\ Offset[2 * Current] = Offset[2 * Current - 1] + lengths[Current]
         /\ begin = Offset[(2 * Current - 1) - 1] /\ begin \in Nat
         /\ Offset[2 * Current - 1] \in Nat
         /\ Len(Part(2 * Current - 1)) = SizeBytes
         /\ Len(Part(2 * Current)) = lengths[Current]
         /\ lengths[Current] \in Nat
<1> DEFINE c == Current
<1>1. /\ Len(accepted) \in Nat /\ Len(lengths) \in Nat
      /\ Len(accepted) < Len(lengths)
  BY LenProperties DEF LengthsInv, PlaceInv, StringInv
<1>2. /\ c \in 1..Len(lengths) /\ c \in Nat /\ 2 * c - 1 - 1 = 2 * Len(accepted)
      /\ 2 * c - 1 \in 0..2 * Len(lengths) /\ 2 * Len(accepted) \in 0..2 * Len(lengths)
  BY <1>1 DEF Current
<1> HIDE DEF c
<1>3. /\ 2 * c - 1 \in Parts /\ 2 * c \in Parts
      /\ Part(2 * c - 1) = Digits(lengths[c])
      /\ Part(2 * c) = Chars(c, lengths[c])
      /\ lengths[c] \in Lengths
  BY <1>2, PartsOf
<1>4. lengths[c] \in Nat
  BY <1>3, LengthIs
<1>5. Len(Part(2 * c - 1)) = SizeBytes /\ Len(Part(2 * c)) = lengths[c]
  BY <1>2, <1>3, <1>4, DigitsShape, CharsShape
<1>6. /\ PartLen(lengths, 2 * c - 1) = SizeBytes
      /\ PartLen(lengths, 2 * c) = lengths[c]
  BY <1>3, <1>5, PartShape
<1>7. /\ Offset[2 * c - 1] = Offset[2 * c - 1 - 1] + SizeBytes
      /\ Offset[2 * c] = Offset[2 * c - 1] + lengths[c]
  BY <1>3, <1>6, OffsetIs
<1>8. begin = Offset[2 * c - 1 - 1]
  BY <1>2 DEF PlaceInv
<1>9. begin \in Nat /\ Offset[2 * c - 1] \in Nat
  BY <1>2, <1>8, OffsetIs
<1> QED BY <1>1, <1>2, <1>4, <1>5, <1>7, <1>8, <1>9 DEF c

LEMMA ReadSizeKeeps ==
  ASSUME ResumeInv, ReadSize
  PROVE  ResumeInv'
<1> USE DEF ResumeInv
<1> DEFINE c == Current
           size == Into(Digits(Len(str)), SizeBytes, Found(SizeBytes))
<1>1. /\ pc = "size" /\ closing = "no" /\ ReadBytesWithBuffer(SizeBytes)
      /\ str' = Resized(str, Size(size))
      /\ pc' = "chars"
      /\ lengths' = lengths /\ wnext' = wnext /\ begin' = begin
      /\ accepted' = accepted
  BY DEF ReadSize
<1>2. SizeBytes \in Nat /\ sent \in Seq(Nat) /\ received \in Seq(Nat)
  BY StringAssumption DEF SentInv
<1>3. /\ c \in 1..Len(lengths) /\ c \in Nat
      /\ Offset[2 * c - 1] = begin + SizeBytes
      /\ begin = Offset[(2 * c - 1) - 1] /\ begin \in Nat
      /\ Len(Part(2 * c - 1)) = SizeBytes
  BY <1>1, AtString
<1>4. bpos = begin /\ bpos \in begin..Len(buffer) /\ str \in Seq(Nat)
  BY <1>1 DEF PlaceInv, StringInv
<1>5. bpos \in 0..Len(buffer)
  BY <1>3, <1>4
<1>6. /\ received' \in Seq(Nat) /\ LinkInv' /\ KeptForRetry' /\ FlagsInv'
      /\ UNCHANGED <<link, wstream, closing>>
      /\ bpos' \in bpos..Len(buffer')
      /\ Found(SizeBytes) \in Seq(Nat) /\ Len(Found(SizeBytes)) <= SizeBytes
      /\ \/ /\ Found(SizeBytes) = SubSeq(sent, bpos + 1, bpos + SizeBytes)
            /\ bpos' = bpos + SizeBytes /\ bpos + SizeBytes <= Len(sent)
         \/ Torn' /\ read_empty' /\ buffer_read_empty'
  BY <1>1, <1>2, <1>5, ReadBuffered
<1>7. SentInv' /\ WriterInv' /\ LengthsInv'
  <2>1. sent' = sent /\ wbad' = wbad
    BY <1>6 DEF link, wstream
  <2> QED BY <1>1, <1>6, <2>1, WriterStays, LengthsStay
<1>8. Offset' = Offset /\ c' = c
  BY <1>1, LengthsStay DEF Current
<1>9. Len(str) \in Nat /\ Digits(Len(str)) \in Seq(Nat)
      /\ Len(Digits(Len(str))) = SizeBytes
  BY <1>4, LenProperties, DigitsShape
<1>10. /\ size \in Seq(Nat) /\ Len(size) = SizeBytes
       /\ Len(Found(SizeBytes)) = SizeBytes => size = Found(SizeBytes)
  BY <1>6, <1>9, IntoShape
<1>11. Size(size) \in Nat
  <2> HIDE DEF size
  <2>1. size \in [1..SizeBytes -> Nat]
    BY <1>10, LenProperties
  <2>2. SizeBytes \in 0..SizeBytes
    BY <1>2
  <2> QED BY <2>1, <2>2, SizeIs
<1>12. str' \in Seq(Nat) /\ Len(str') = Size(size)
  <2> HIDE DEF size
  <2> QED BY <1>1, <1>4, <1>11, ResizedShape
<1>13. PlaceInv'
  <2>1. bpos' \in begin'..Len(buffer')
    BY <1>1, <1>3, <1>4, <1>6
  <2>2. closing' = "no"
    BY <1>1, <1>6
  <2> QED BY <1>1, <1>8, <2>1, <2>2 DEF PlaceInv
<1>14. SizeRead' \/ Torn'
  <2>1. CASE /\ Found(SizeBytes) = SubSeq(sent, bpos + 1, bpos + SizeBytes)
             /\ bpos' = bpos + SizeBytes /\ bpos + SizeBytes <= Len(sent)
    <3>1. /\ 2 * c - 1 \in Parts /\ Part(2 * c - 1) = Digits(lengths[c])
          /\ lengths[c] \in Lengths
      BY <1>3, PartsOf
    <3>2. Found(SizeBytes) = Part(2 * c - 1)
      <4>1. bpos = Offset[(2 * c - 1) - 1]
        BY <1>3, <1>4
      <4> HIDE DEF c
      <4>2. SubSeq(sent, Offset[(2 * c - 1) - 1] + 1,
                   Offset[(2 * c - 1) - 1] + SizeBytes)
              = Part(2 * c - 1)
        BY <1>3, <2>1, <3>1, <4>1, PartRead
      <4> QED BY <2>1, <4>1, <4>2
    <3>3. size = Digits(lengths[c])
      BY <1>3, <1>10, <3>1, <3>2
    <3>4. Size(size) = lengths[c]
      <4> HIDE DEF size
      <4>1. lengths[c] \in Nat /\ lengths[c] < Weight[SizeBytes]
        BY <3>1, LengthIs
      <4> QED BY <3>3, <4>1, SizeOfDigits
    <3>5. bpos' = Offset[2 * c - 1]
      BY <1>3, <1>4, <2>1
    <3> QED BY <1>1, <1>8, <1>12, <3>4, <3>5 DEF SizeRead
  <2> QED BY <1>6, <2>1
<1>15. StringInv'
  <2>1. AcceptedWhole'
    BY <1>1 DEF StringInv, AcceptedWhole
  <2> QED BY <1>1, <1>12, <1>14, <2>1 DEF StringInv
<1> QED BY <1>6, <1>7, <1>13, <1>15

LEMMA ReadCharsKeeps ==
  ASSUME ResumeInv, ReadChars
  PROVE  ResumeInv'
<1> USE DEF ResumeInv
<1> DEFINE c == Current
           n == Len(str)
<1>1. /\ pc = "chars" /\ ReadBytesWithBuffer(n)
      /\ str' = Into(str, n, Found(n))
      /\ pc' = "returned"
      /\ lengths' = lengths /\ wnext' = wnext /\ begin' = begin
      /\ accepted' = accepted
  BY DEF ReadChars
<1>2. /\ sent \in Seq(Nat) /\ received \in Seq(Nat) /\ closing = "no"
      /\ str \in Seq(Nat) /\ n \in Nat
  BY <1>1, LenProperties DEF SentInv, PlaceInv, StringInv
<1>3. /\ c \in 1..Len(lengths) /\ c \in Nat /\ begin \in Nat
      /\ Offset[2 * c] = Offset[2 * c - 1] + lengths[c]
      /\ Len(Part(2 * c)) = lengths[c]
  BY <1>1, AtString
<1>4. bpos \in begin..Len(buffer) /\ (SizeRead \/ Torn)
  BY <1>1 DEF PlaceInv, StringInv
<1>5. bpos \in 0..Len(buffer)
  BY <1>3, <1>4
<1>6. /\ received' \in Seq(Nat) /\ LinkInv' /\ KeptForRetry' /\ FlagsInv'
      /\ UNCHANGED <<link, wstream, closing>>
      /\ bpos' \in bpos..Len(buffer')
      /\ Found(n) \in Seq(Nat) /\ Len(Found(n)) <= n
      /\ \/ /\ Found(n) = SubSeq(sent, bpos + 1, bpos + n)
            /\ bpos' = bpos + n /\ bpos + n <= Len(sent)
         \/ Torn' /\ read_empty' /\ buffer_read_empty'
      /\ Torn => Torn' /\ read_empty' /\ buffer_read_empty'
  <2> HIDE DEF n
  <2> QED BY <1>1, <1>2, <1>5, ReadBuffered
<1>7. SentInv' /\ WriterInv' /\ LengthsInv'
  <2>1. sent' = sent /\ wbad' = wbad
    BY <1>6 DEF link, wstream
  <2> QED BY <1>1, <1>6, <2>1, WriterStays, LengthsStay
<1>8. Offset' = Offset /\ c' = c
  BY <1>1, LengthsStay DEF Current
<1>9. str' \in Seq(Nat) /\ (Len(Found(n)) = n => str' = Found(n))
  BY <1>1, <1>2, <1>6, IntoShape
<1>10. PlaceInv'
  <2>1. bpos' \in begin'..Len(buffer')
    BY <1>1, <1>3, <1>4, <1>6
  <2>2. closing' = "no"
    BY <1>2, <1>6
  <2> QED BY <1>1, <1>8, <2>1, <2>2 DEF PlaceInv
<1>11. Whole' => str' = Chars(c, lengths[c]) /\ bpos' = Offset[2 * c]
  <2>1. CASE Torn \/ (Torn' /\ read_empty' /\ buffer_read_empty')
    BY <1>6, <2>1 DEF Whole
  <2>2. CASE /\ SizeRead
             /\ Found(n) = SubSeq(sent, bpos + 1, bpos + n)
             /\ bpos' = bpos + n /\ bpos + n <= Len(sent)
    <3>1. /\ 2 * c \in Parts /\ Part(2 * c) = Chars(c, lengths[c])
      BY <1>3, PartsOf
    <3>2. n = lengths[c] /\ bpos = Offset[2 * c - 1]
      BY <2>2 DEF SizeRead
    <3>3. Found(n) = Part(2 * c)
      <4> HIDE DEF c, n
      <4>1. SubSeq(sent, Offset[2 * c - 1] + 1, Offset[2 * c - 1] + n) = Part(2 * c)
        BY <1>3, <2>2, <3>1, <3>2, PartRead
      <4> QED BY <2>2, <3>2, <4>1
    <3>4. str' = Found(n)
      BY <1>3, <1>9, <3>2, <3>3
    <3> QED BY <1>3, <2>2, <3>1, <3>2, <3>3, <3>4
  <2> QED BY <1>4, <1>6, <2>1, <2>2
<1>12. StringInv'
  <2>1. AcceptedWhole'
    BY <1>1 DEF StringInv, AcceptedWhole
  <2>2. accepted' \in Seq(Seq(Nat))
    BY <1>1 DEF StringInv
  <2> QED BY <1>1, <1>8, <1>9, <1>11, <2>1, <2>2 DEF StringInv
<1> QED BY <1>6, <1>7, <1>10, <1>12

LEMMA AcceptKeeps ==
  ASSUME ResumeInv, Accept
  PROVE  ResumeInv'
<1> USE DEF ResumeInv
<1> DEFINE c == Current
<1>1. /\ pc = "returned" /\ Whole
      /\ accepted' = Append(accepted, str)
      /\ begin' = bpos
      /\ pc' = IF Len(accepted') = Len(lengths) THEN "finished" ELSE "size"
      /\ UNCHANGED <<tcpVars, lengths, wnext, read_empty, buffer_read_empty,
                     buffer, bpos, str>>
  BY DEF Accept
<1>2. UNCHANGED <<link, wstream, rstream, closing, sent, wbad, received, rfailed>>
  BY <1>1 DEF tcpVars, link, wstream, rstream
<1>3. SentInv' /\ WriterInv' /\ LengthsInv'
  <2>1. received' \in Seq(Nat)
    BY <1>2 DEF SentInv
  <2> QED BY <1>1, <1>2, <2>1, WriterStays, LengthsStay
<1>4. LinkInv'
  BY <1>2 DEF LinkInv, TcpTypeOK, EndsAgree, InOrder, PositionsCount,
              ClosedMeansEnd, Waiting, AtEnd, link, wstream, rstream, rflags
<1>5. KeptForRetry' /\ FlagsInv'
  BY <1>1, <1>2 DEF KeptForRetry, FlagsInv
<1>6. Offset' = Offset
  BY <1>1, LengthsStay
<1>7. /\ Current \in 1..Len(lengths) /\ Current \in Nat
      /\ Len(accepted) \in Nat /\ Current = Len(accepted) + 1
  BY <1>1, AtString DEF Current
<1>8. /\ accepted \in Seq(Seq(Nat)) /\ str \in Seq(Nat)
      /\ str = Chars(c, lengths[c]) /\ bpos = Offset[2 * c]
  BY <1>1 DEF StringInv
<1>9. /\ accepted' \in Seq(Seq(Nat))
      /\ Len(accepted') = c
      /\ \A i \in 1..Len(accepted) : accepted'[i] = accepted[i]
      /\ accepted'[c] = str
  BY <1>1, <1>7, <1>8, AppendProperties
<1>10. Len(lengths) \in Nat
  BY LenProperties DEF LengthsInv
<1>11. bpos \in Nat /\ Len(buffer) \in Nat /\ bpos <= Len(buffer)
  <2>1. begin \in Nat /\ bpos \in begin..Len(buffer)
    BY <1>1, AtString DEF PlaceInv
  <2>2. Len(buffer) \in Nat
    BY LenProperties DEF KeptForRetry, SentInv
  <2> QED BY <2>1, <2>2
<1> HIDE DEF c
<1>12. PlaceInv'
  <2>1. pc' \in {"size", "finished"}
    BY <1>1
  <2>2. Len(accepted') <= Len(lengths')
    BY <1>1, <1>7, <1>9, <1>10 DEF c
  <2>3. pc' # "finished" => Len(accepted') < Len(lengths')
    BY <1>1, <1>7, <1>9, <1>10 DEF c
  <2>4. begin' = Offset'[2 * Len(accepted')]
    BY <1>1, <1>6, <1>8, <1>9
  <2>5. bpos' \in begin'..Len(buffer')
    BY <1>1, <1>11
  <2> QED BY <2>1, <2>2, <2>3, <2>4, <2>5 DEF PlaceInv
<1>13. AcceptedWhole'
  <2>1. ASSUME NEW i \in 1..Len(accepted')
        PROVE  accepted'[i] = Chars(i, lengths[i])
    <3>1. i = c \/ i \in 1..Len(accepted)
      BY <1>7, <1>9 DEF c
    <3>2. CASE i = c
      BY <1>8, <1>9, <3>2
    <3>3. CASE i \in 1..Len(accepted)
      BY <1>9, <3>3 DEF StringInv, AcceptedWhole
    <3> QED BY <3>1, <3>2, <3>3
  <2> QED BY <1>1, <2>1 DEF AcceptedWhole
<1>14. StringInv'
  <2>1. pc' \in {"size", "finished"}
    BY <1>1
  <2>2. str' = str /\ bpos' = begin'
    BY <1>1
  <2> QED BY <1>8, <1>9, <1>13, <2>1, <2>2 DEF StringInv
<1> QED BY <1>3, <1>4, <1>5, <1>12, <1>14

LEMMA RetryKeeps ==
  ASSUME ResumeInv, Retry
  PROVE  ResumeInv'
<1> USE DEF ResumeInv
<1>1. /\ pc = "returned" /\ rfailed' = FALSE /\ bpos' = begin /\ pc' = "size"
      /\ UNCHANGED <<link, wstream, taken, received, read_pos, read_length,
                     rflags, closing, lengths, wnext, read_empty,
                     buffer_read_empty, buffer, str, begin, accepted>>
  BY DEF Retry, ClearReader
<1>2. UNCHANGED <<sent, wbad>>
  BY <1>1 DEF link, wstream
<1>3. SentInv' /\ WriterInv' /\ LengthsInv'
  <2>1. received' \in Seq(Nat)
    BY <1>1 DEF SentInv
  <2> QED BY <1>1, <1>2, <2>1, WriterStays, LengthsStay
<1>4. LinkInv'
  BY <1>1 DEF LinkInv, TcpTypeOK, EndsAgree, InOrder, PositionsCount,
              ClosedMeansEnd, Waiting, AtEnd, link, wstream, rflags
<1>5. KeptForRetry' /\ FlagsInv'
  BY <1>1 DEF KeptForRetry, FlagsInv
<1>6. Offset' = Offset
  BY <1>1, LengthsStay
<1>7. begin \in Nat /\ bpos \in begin..Len(buffer) /\ Len(buffer) \in Nat
  BY <1>1, AtString, LenProperties DEF PlaceInv, KeptForRetry, SentInv
<1>8. PlaceInv'
  <2>1. bpos' \in begin'..Len(buffer')
    BY <1>1, <1>7
  <2> QED BY <1>1, <1>6, <2>1 DEF PlaceInv
<1>9. StringInv'
  BY <1>1 DEF StringInv, AcceptedWhole
<1> QED BY <1>3, <1>4, <1>5, <1>8, <1>9

LEMMA ResumeStep ==
  ASSUME ResumeInv, [Next]_vars
  PROVE  ResumeInv'
<1> USE DEF ResumeInv
<1>1. sent \in Seq(Nat) /\ received \in Seq(Nat)
  BY DEF SentInv
<1>2. CASE WriteNext
  <2>1. /\ SentInv' /\ WriterInv' /\ LinkInv'
        /\ UNCHANGED <<lengths, program, received, rfailed, closing>>
    BY <1>2, WriteKeeps
  <2>2. pc \in {"chars", "returned"} => closing' = "no"
    BY <2>1 DEF PlaceInv
  <2> QED BY <2>1, <2>2, LengthsStay, ReaderStays
<1>3. ASSUME \/ CloseWriter \/ Deliver \/ ConnectionReset
             \/ CloseReader /\ pc \in {"size", "finished"}
             \/ DrainByte \/ DrainEnds,
             UNCHANGED <<lengths, wnext, program>>
      PROVE  ResumeInv'
  <2>1. LinkInv' /\ UNCHANGED <<sent, wbad, received, rfailed>>
    BY <1>1, <1>3, LinkKeeps
  <2>2. pc \in {"chars", "returned"} => closing' = "no"
    <3>1. pc \in {"chars", "returned"} => closing = "no" /\ pc \notin {"size", "finished"}
      BY DEF PlaceInv
    <3> QED BY <1>3, <3>1 DEF CloseWriter, Deliver, ConnectionReset, DrainByte, DrainEnds
  <2>3. received' \in Seq(Nat)
    BY <1>1, <2>1
  <2> QED BY <1>3, <2>1, <2>2, <2>3, LengthsStay, WriterStays, ReaderStays
<1>4. CASE CloseStream
  BY <1>3, <1>4 DEF CloseStream
<1>5. CASE Network
  BY <1>3, <1>5 DEF Network
<1>10. CASE Break
  BY <1>3, <1>10 DEF Break
<1>6. CASE GiveUp
  BY <1>3, <1>6 DEF GiveUp
<1>7. CASE Draining
  BY <1>3, <1>7 DEF Draining
<1>8. CASE Reading
  BY <1>8, ReadSizeKeeps, ReadCharsKeeps, AcceptKeeps, RetryKeeps DEF Reading
<1>9. CASE UNCHANGED vars
  <2>1. /\ UNCHANGED <<lengths, wnext, program, link, wstream, rstream, closing>>
        /\ UNCHANGED <<sent, wbad, received, rfailed>>
    BY <1>9 DEF vars, tcpVars, link, wstream, rstream
  <2>2. LinkInv'
    BY <2>1 DEF LinkInv, TcpTypeOK, EndsAgree, InOrder, PositionsCount,
                ClosedMeansEnd, Waiting, AtEnd, link, wstream, rstream, rflags
  <2>3. pc \in {"chars", "returned"} => closing' = "no"
    BY <2>1 DEF PlaceInv
  <2>4. received' \in Seq(Nat)
    BY <1>1, <2>1
  <2> QED BY <2>1, <2>2, <2>3, <2>4, LengthsStay, WriterStays, ReaderStays
<1> QED BY <1>2, <1>4, <1>5, <1>6, <1>7, <1>8, <1>9, <1>10 DEF Next

LEMMA ResumeInvariant == Spec => []ResumeInv
<1>1. Init => ResumeInv
  BY InitResumeInv
<1>2. ResumeInv /\ [Next]_vars => ResumeInv'
  BY ResumeStep
<1> QED BY <1>1, <1>2, PTL DEF Spec

-----------------------------------------------------------------------------
(* Every variable has its type, and readBytesWithBuffer never runs past    *)
(* what the buffer keeps.                                                  *)
THEOREM ResumeTypeOK == Spec => []TypeOK
<1>1. ResumeInv => TypeOK
  <2> SUFFICES ASSUME ResumeInv PROVE TypeOK
    OBVIOUS
  <2> USE DEF ResumeInv
  <2>1. begin \in Nat
    <3>1. Len(accepted) \in Nat /\ Len(accepted) <= Len(lengths) /\ Len(lengths) \in Nat
      BY LenProperties DEF StringInv, PlaceInv, LengthsInv
    <3>2. 2 * Len(accepted) \in 0..2 * Len(lengths)
      BY <3>1
    <3> QED BY <3>2, OffsetIs DEF PlaceInv
  <2> QED BY <2>1 DEF TypeOK, WriterInv, LinkInv, FlagsInv, PlaceInv
<1> QED BY <1>1, ResumeInvariant, PTL

(* Both ends of the connection count and see the same bytes, whatever      *)
(* xsputn and xsgetn cut, timed out or threw away.                         *)
THEOREM ResumeEndsAgree == Spec => []EndsAgree
<1>1. ResumeInv => EndsAgree
  BY DEF ResumeInv, LinkInv
<1> QED BY <1>1, ResumeInvariant, PTL

(* A reader that calls the connection closed gets no byte any more: it has *)
(* all that the peer sent, or the connection broke (xsgetn).               *)
THEOREM ResumeClosedMeansEnd == Spec => []ClosedMeansEnd
<1>1. ResumeInv => ClosedMeansEnd
  BY DEF ResumeInv, LinkInv
<1> QED BY <1>1, ResumeInvariant, PTL

(* What came short is kept for the next attempt (readBytesWithBuffer).     *)
THEOREM ResumeKeptForRetry == Spec => []KeptForRetry
<1>1. ResumeInv => KeptForRetry
  BY DEF ResumeInv
<1> QED BY <1>1, ResumeInvariant, PTL

(* A string that readTypeWithBuffer took to be whole is the one that was   *)
(* written, however often it came short before.                            *)
THEOREM ResumeAcceptedWhole == Spec => []AcceptedWhole
<1>1. ResumeInv => AcceptedWhole
  BY DEF ResumeInv, StringInv
<1> QED BY <1>1, ResumeInvariant, PTL
=============================================================================
