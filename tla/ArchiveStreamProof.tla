------------------------- MODULE ArchiveStreamProof --------------------------
(***************************************************************************)
(* For any names and numbers of entries and bytes: what was set and        *)
(* written is what the archive holds, up to where a disk was full, and     *)
(* what is read of an entry is what was written to it, when entries are    *)
(* read to their end.  The writer always owes the archive just the entry   *)
(* that is set; the reader's get area is always used up.                   *)
(***************************************************************************)
EXTENDS ArchiveStream, SequenceTheorems, WellFoundedInduction, TLAPS

Entry == [name : Names, data : Seq(Nat)]

(* The writer: flushing what it holds would complete the archive.          *)
WriterTyped == /\ sets \in Seq(Entry) /\ archive \in Seq(Entry)
               /\ entry \in Names \cup {NoName} /\ data \in Seq(Nat)
               /\ written \in Nat /\ full \in BOOLEAN /\ open \in BOOLEAN
Owed == open => sets = Flushed(archive)

(* The file: each entry is the one that was set, and the last may have     *)
(* lost bytes to a full disk.                                              *)
SameEntry(a, b, torn) ==
  /\ a.name = b.name /\ Len(a.data) = Len(b.data)
  /\ ~torn => a = b
  /\ \A j \in 1..Len(b.data) : a.data[j] \in {b.data[j]} \cup (IF torn THEN {0} ELSE {})
Holds(arc, all, cut) ==
  /\ arc \in Seq(Entry)
  /\ Len(arc) <= Len(all) /\ (~cut => Len(arc) = Len(all))
  /\ \A i \in 1..Len(arc) : SameEntry(arc[i], all[i], cut /\ i = Len(arc))
FileInv == ~open => Holds(file, sets, full)
WriterInv == WriterTyped /\ Owed /\ FileInv

(* The reader: its get area is always used up, and what it has read of an  *)
(* entry is nothing, or, once underflow was called, all of it.             *)
ReaderInv ==
  /\ storage \in Seq(Nat) /\ size \in 0..Len(storage)
  /\ gptr \in Nat /\ egptr = gptr /\ dirty \in BOOLEAN
  /\ out \in Seq(Nat)
  /\ open => current = 0
  /\ current \in 0..Len(file)
  /\ current # 0 =>
       /\ size = Len(file[current].data)
       /\ SubSeq(storage, 1, size) = file[current].data
       /\ IF dirty THEN out = <<>> /\ ~to_end ELSE out = file[current].data

-----------------------------------------------------------------------------
LEMMA AppendLast ==
  ASSUME NEW T, NEW s \in Seq(T), NEW e \in T, NEW f \in T
  PROVE  [Append(s, e) EXCEPT ![Len(s) + 1] = f] = Append(s, f)
<1> DEFINE a == Append(s, e)
           b == Append(s, f)
           c == [a EXCEPT ![Len(s) + 1] = f]
<1>1. /\ Len(s) \in Nat
      /\ a \in Seq(T) /\ Len(a) = Len(s) + 1
      /\ \A i \in 1..Len(s) : a[i] = s[i]
  BY AppendProperties, LenProperties
<1>2. /\ b \in Seq(T) /\ Len(b) = Len(s) + 1
      /\ \A i \in 1..Len(s) : b[i] = s[i]
      /\ b[Len(s) + 1] = f
  BY AppendProperties
<1> HIDE DEF a, b
<1>3. Len(s) + 1 \in 1..Len(a)
  BY <1>1
<1>4. /\ c \in Seq(T) /\ Len(c) = Len(a)
      /\ \A j \in 1..Len(a) : c[j] = IF j = Len(s) + 1 THEN f ELSE a[j]
  BY <1>1, <1>3, ExceptSeq
<1> HIDE DEF c
<1>5. ASSUME NEW i \in 1..Len(c) PROVE c[i] = b[i]
  <2>1. i = Len(s) + 1 \/ (i # Len(s) + 1 /\ i \in 1..Len(s))
    BY <1>1, <1>4
  <2> QED BY <1>1, <1>2, <1>4, <2>1
<1>6. c = b
  BY <1>1, <1>2, <1>4, <1>5, SeqEqual
<1> QED BY <1>6 DEF a, b, c

(* An entry is the same as itself, and an archive holds all of itself.     *)
LEMMA SameAsItself ==
  ASSUME NEW a, NEW torn \in BOOLEAN
  PROVE  SameEntry(a, a, torn)
BY DEF SameEntry

LEMMA HoldsItself ==
  ASSUME NEW arc \in Seq(Entry), NEW cut \in BOOLEAN
  PROVE  Holds(arc, arc, cut)
<1>1. Len(arc) \in Nat
  BY LenProperties
<1>2. \A i \in 1..Len(arc) : SameEntry(arc[i], arc[i], cut /\ i = Len(arc))
  BY SameAsItself
<1> QED BY <1>1, <1>2 DEF Holds

(* What a full disk leaves of an archive are its entries, the last of      *)
(* them perhaps torn.                                                      *)
LEMMA CutsHold ==
  ASSUME ArchiveAssumption, NEW arc \in Seq(Entry), NEW f \in Cuts(arc)
  PROVE  Holds(f, arc, TRUE)
<1>1. Len(arc) \in Nat /\ DOMAIN arc = 1..Len(arc)
  BY LenProperties
<1>2. \A i \in 1..Len(arc) : arc[i] \in Entry
  BY ElementOfSeq
<1>3. ASSUME NEW n \in 0..Len(arc)
      PROVE  /\ SubSeq(arc, 1, n) \in Seq(Entry)
             /\ Len(SubSeq(arc, 1, n)) = n
             /\ \A i \in 1..n : SubSeq(arc, 1, n)[i] = arc[i]
  <2>1. \A i \in 1..n : i \in 1..Len(arc)
    BY <1>1
  <2>2. \A i \in 1..n : arc[i] \in Entry
    BY <1>2, <2>1
  <2>3. n \in Int /\ n - 1 + 1 = n /\ (IF 1 <= n THEN n - 1 + 1 ELSE 0) = n
    BY <1>1
  <2>4. /\ SubSeq(arc, 1, n) \in Seq(Entry)
        /\ Len(SubSeq(arc, 1, n)) = (IF 1 <= n THEN n - 1 + 1 ELSE 0)
        /\ \A i \in 1..(n - 1 + 1) : SubSeq(arc, 1, n)[i] = arc[1 + i - 1]
    BY <2>2, <2>3, SubSeqProperties
  <2>5. \A i \in 1..n : 1 + i - 1 = i
    OBVIOUS
  <2> QED BY <2>3, <2>4, <2>5
<1>4. CASE \E n \in 0..Len(arc) : f = SubSeq(arc, 1, n)
  <2>1. PICK n \in 0..Len(arc) : f = SubSeq(arc, 1, n)
    BY <1>4
  <2>2. f \in Seq(Entry) /\ Len(f) = n /\ \A i \in 1..n : f[i] = arc[i]
    BY <1>3, <2>1
  <2>3. Len(f) <= Len(arc) /\ \A i \in 1..Len(f) : f[i] = arc[i]
    BY <1>1, <2>2
  <2>4. \A i \in 1..Len(f) : SameEntry(f[i], arc[i], TRUE /\ i = Len(f))
    BY <2>3, SameAsItself
  <2> QED BY <2>2, <2>3, <2>4 DEF Holds
<1>5. CASE \E n \in DOMAIN arc, k \in 0..MaxEntry :
             f = Append(SubSeq(arc, 1, n - 1), CutAt(arc[n], k))
  <2>1. PICK n \in 1..Len(arc), k \in 0..MaxEntry :
               f = Append(SubSeq(arc, 1, n - 1), CutAt(arc[n], k))
    BY <1>1, <1>5
  <2> DEFINE d == arc[n].data
             t == [i \in 1..Len(d) |-> IF i <= k THEN d[i] ELSE 0]
             c == CutAt(arc[n], k)
             s == SubSeq(arc, 1, n - 1)
  <2>2. arc[n] \in Entry /\ d \in Seq(Nat) /\ arc[n].name \in Names
    BY <1>2 DEF Entry
  <2>3. DOMAIN d = 1..Len(d) /\ Len(d) \in Nat /\ \A i \in 1..Len(d) : d[i] \in Nat
    BY <2>2, LenProperties, ElementOfSeq
  <2>4. c = [arc[n] EXCEPT !.data = t]
    BY <2>3 DEF CutAt
  <2>5. t \in [1..Len(d) -> Nat]
    BY <2>3
  <2>6. t \in Seq(Nat) /\ Len(t) = Len(d)
    BY <2>3, <2>5
  <2>7. \A j \in 1..Len(d) : t[j] \in {d[j]} \cup {0}
    OBVIOUS
  <2> HIDE DEF t
  <2>8. c.name = arc[n].name /\ c.data = t /\ c \in Entry
    BY <2>2, <2>4, <2>6 DEF Entry
  <2>9. SameEntry(c, arc[n], TRUE)
    BY <2>6, <2>7, <2>8 DEF SameEntry
  <2> HIDE DEF d, c
  <2>10. n - 1 \in 0..Len(arc)
    BY <1>1
  <2>11. /\ s \in Seq(Entry) /\ Len(s) = n - 1
         /\ \A i \in 1..(n - 1) : s[i] = arc[i]
    BY <1>3, <2>10
  <2>12. f = Append(s, c)
    BY <2>1 DEF c
  <2> HIDE DEF s
  <2>13. /\ f \in Seq(Entry) /\ Len(f) = Len(s) + 1
         /\ \A i \in 1..Len(s) : f[i] = s[i]
         /\ f[Len(s) + 1] = c
    BY <2>8, <2>11, <2>12, AppendProperties
  <2>14. Len(f) = n /\ f[n] = c /\ \A i \in 1..(n - 1) : f[i] = arc[i]
    BY <1>1, <2>11, <2>13
  <2>15. \A i \in 1..Len(f) : SameEntry(f[i], arc[i], TRUE /\ i = Len(f))
    <3> TAKE i \in 1..Len(f)
    <3>1. CASE i = n
      BY <2>9, <2>14, <3>1
    <3>2. CASE i # n
      <4>1. i \in 1..(n - 1)
        BY <2>14, <3>2
      <4> QED BY <2>14, <4>1, SameAsItself
    <3> QED BY <3>1, <3>2
  <2>16. Len(f) <= Len(arc)
    BY <1>1, <2>14
  <2> QED BY <2>13, <2>15, <2>16 DEF Holds
<1> DEFINE whole == {SubSeq(arc, 1, n) : n \in 0..Len(arc)}
           torn == {Append(SubSeq(arc, 1, n - 1), CutAt(arc[n], k)) :
                      n \in DOMAIN arc, k \in 0..MaxEntry}
<1>6. Cuts(arc) = whole \cup torn
  BY DEF Cuts
<1>7. f \in whole => \E n \in 0..Len(arc) : f = SubSeq(arc, 1, n)
  OBVIOUS
<1>8. f \in torn => \E n \in DOMAIN arc, k \in 0..MaxEntry :
                     f = Append(SubSeq(arc, 1, n - 1), CutAt(arc[n], k))
  OBVIOUS
<1> HIDE DEF whole, torn
<1>9. f \in whole \/ f \in torn
  BY <1>6
<1> QED BY <1>4, <1>5, <1>7, <1>8, <1>9

-----------------------------------------------------------------------------
(* The writing stream, step by step.                                       *)
LEMMA FlushedIs ==
  ASSUME WriterTyped
  PROVE  Flushed(archive) \in Seq(Entry)
<1>1. CASE entry = NoName
  BY <1>1 DEF Flushed, WriterTyped
<1>2. CASE entry # NoName
  <2>1. [name |-> entry, data |-> data] \in Entry
    BY <1>2 DEF WriterTyped, Entry
  <2>2. Append(archive, [name |-> entry, data |-> data]) \in Seq(Entry)
    BY <2>1, AppendProperties DEF WriterTyped
  <2> QED BY <1>2, <2>2 DEF Flushed
<1> QED BY <1>1, <1>2

LEMMA InitWriter ==
  ASSUME Init
  PROVE  WriterInv
<1>1. <<>> \in Seq(Entry) /\ <<>> \in Seq(Nat)
  BY EmptySeq
<1>2. WriterTyped
  BY <1>1 DEF Init, WriterTyped
<1>3. Owed
  BY DEF Init, Owed, Flushed
<1> QED BY <1>2, <1>3 DEF WriterInv, FileInv, Init

LEMMA WriterUnchanged ==
  ASSUME WriterInv, UNCHANGED writer
  PROVE  WriterInv'
BY DEF WriterInv, WriterTyped, Owed, FileInv, Flushed, writer

LEMMA SetEntryKeepsWriter ==
  ASSUME ArchiveAssumption, WriterInv, NEW name \in Names, SetEntry(name)
  PROVE  WriterInv'
<1> DEFINE e == [name |-> name, data |-> <<>>]
<1>1. open /\ WriterTyped /\ sets = Flushed(archive)
  BY DEF SetEntry, WriterInv, Owed
<1>2. e \in Entry
  BY EmptySeq DEF Entry
<1>3. Append(sets, e) \in Seq(Entry)
  BY <1>1, <1>2, AppendProperties DEF WriterTyped
<1>4. Flushed(archive) \in Seq(Entry)
  BY <1>1, FlushedIs
<1>5. /\ archive' = sets /\ entry' = name /\ data' = <<>>
      /\ sets' = Append(sets, e)
      /\ open' = open /\ full' = full /\ written' = written
  BY <1>1 DEF SetEntry
<1>6. WriterTyped'
  BY <1>1, <1>3, <1>5, EmptySeq DEF WriterTyped
<1>7. name # NoName
  BY DEF ArchiveAssumption
<1>8. Owed'
  BY <1>5, <1>7 DEF Owed, Flushed
<1> QED BY <1>1, <1>5, <1>6, <1>8 DEF WriterInv, FileInv

LEMMA PutKeepsWriter ==
  ASSUME ArchiveAssumption, WriterInv, Put
  PROVE  WriterInv'
<1> DEFINE b == written + 1
           before == [name |-> entry, data |-> data]
           after == [name |-> entry, data |-> Append(data, b)]
<1>1. open /\ WriterTyped /\ sets = Flushed(archive)
  BY DEF Put, WriterInv, Owed
<1>2. /\ written' = b /\ data' = Append(data, b)
      /\ archive' = archive /\ entry' = entry /\ open' = open /\ full' = full
  BY DEF Put
<1>3. b \in Nat /\ Append(data, b) \in Seq(Nat)
  <2>1. b \in Nat
    BY <1>1 DEF WriterTyped
  <2> QED BY <1>1, <2>1, AppendProperties DEF WriterTyped
<1>4. sets' \in Seq(Entry) /\ sets' = Flushed(archive)'
  <2>1. CASE entry = NoName
    BY <1>1, <1>2, <2>1 DEF Put, Flushed, WriterTyped
  <2>2. CASE entry # NoName
    <3>1. entry \in Names /\ archive \in Seq(Entry) /\ data \in Seq(Nat)
      BY <1>1, <2>2 DEF WriterTyped
    <3>2. before \in Entry /\ after \in Entry
      BY <1>3, <3>1 DEF Entry
    <3>3. sets = Append(archive, before)
      BY <1>1, <2>2 DEF Flushed
    <3>4. /\ Len(sets) = Len(archive) + 1 /\ sets[Len(sets)] = before
          /\ sets \in Seq(Entry)
      <4>1. archive \in Seq(Entry) /\ before \in Entry
        BY <3>1, <3>2
      <4> HIDE DEF before, after
      <4>2. /\ Append(archive, before) \in Seq(Entry)
            /\ Len(Append(archive, before)) = Len(archive) + 1
            /\ Append(archive, before)[Len(archive) + 1] = before
        BY ONLY <4>1, AppendProperties
      <4> QED BY <3>3, <4>2
    <3>5. Len(sets) \in 1..Len(sets)
      BY <3>1, <3>4, LenProperties
    <3>6. DOMAIN sets = 1..Len(sets)
      BY <3>4, LenProperties
    <3>7. sets' = [sets EXCEPT ![Len(sets)].data = Append(@, b)]
      BY <2>2 DEF Put
    <3>8. [sets[Len(sets)] EXCEPT !.data = Append(@, b)] = after
      BY <3>4
    <3>9. sets' = [sets EXCEPT ![Len(sets)] = after]
      <4>1. sets' = [sets EXCEPT ![Len(sets)] =
                       [sets[Len(sets)] EXCEPT !.data = Append(@, b)]]
        BY <3>7
      <4> QED BY <3>8, <4>1
    <3> HIDE DEF before, after
    <3>10. sets' = [Append(archive, before) EXCEPT ![Len(archive) + 1] = after]
      BY <3>3, <3>4, <3>9
    <3>11. sets' = Append(archive, after)
      BY <3>1, <3>2, <3>10, AppendLast
    <3>12. sets' \in Seq(Entry)
      BY <3>1, <3>2, <3>11, AppendProperties
    <3>13. Flushed(archive)' = Append(archive, after)
      BY <1>2, <2>2 DEF Flushed, after
    <3> QED BY <3>11, <3>12, <3>13
  <2> QED BY <2>1, <2>2
<1>5. WriterTyped'
  BY <1>1, <1>2, <1>3, <1>4 DEF WriterTyped
<1>6. Owed'
  BY <1>4 DEF Owed
<1> QED BY <1>1, <1>2, <1>5, <1>6 DEF WriterInv, FileInv

LEMMA CloseKeepsWriter ==
  ASSUME ArchiveAssumption, WriterInv, Close
  PROVE  WriterInv'
<1>1. open /\ WriterTyped /\ sets = Flushed(archive)
  BY DEF Close, WriterInv, Owed
<1>2. /\ ~open' /\ archive' = sets /\ sets' = sets /\ full' = full
      /\ entry' = entry /\ data' = data /\ written' = written /\ open' \in BOOLEAN
      /\ file' \in IF full THEN Cuts(sets) ELSE {sets}
  BY <1>1 DEF Close
<1>3. sets \in Seq(Entry) /\ full \in BOOLEAN
  BY <1>1 DEF WriterTyped
<1>4. Holds(file', sets, full)
  <2>1. CASE full
    <3>1. full = TRUE /\ file' \in Cuts(sets)
      BY <1>2, <1>3, <2>1
    <3>2. Holds(file', sets, TRUE)
      BY <1>3, <3>1, CutsHold
    <3> QED BY <3>1, <3>2
  <2>2. CASE ~full
    BY <1>2, <1>3, <2>2, HoldsItself
  <2> QED BY <2>1, <2>2
<1>5. WriterTyped'
  BY <1>1, <1>2 DEF WriterTyped
<1> QED BY <1>2, <1>4, <1>5 DEF WriterInv, Owed, FileInv

LEMMA WriterStep ==
  ASSUME ArchiveAssumption, WriterInv, [Next]_vars
  PROVE  WriterInv'
<1>1. ASSUME NEW name \in Names, SetEntry(name) PROVE WriterInv'
  BY <1>1, SetEntryKeepsWriter
<1>2. CASE Put
  BY <1>2, PutKeepsWriter
<1>3. CASE Close
  BY <1>3, CloseKeepsWriter
<1>4. CASE DiskFull
  BY <1>4 DEF DiskFull, WriterInv, WriterTyped, Owed, FileInv, Flushed
<1>5. ASSUME NEW name \in Names, LoadEntry(name) PROVE WriterInv'
  BY <1>5, WriterUnchanged DEF LoadEntry
<1>6. CASE GetEntryString
  BY <1>6, WriterUnchanged DEF GetEntryString
<1>7. ASSUME NEW n \in 1..MaxEntry + 1, Read(n) PROVE WriterInv'
  BY <1>7, WriterUnchanged DEF Read
<1>8. CASE Clear
  BY <1>8, WriterUnchanged DEF Clear
<1>9. CASE UNCHANGED vars
  BY <1>9, WriterUnchanged DEF vars
<1> QED BY <1>1, <1>2, <1>3, <1>4, <1>5, <1>6, <1>7, <1>8, <1>9 DEF Next

LEMMA WriterInvariant ==
  ASSUME ArchiveAssumption
  PROVE  Spec => []WriterInv
<1>1. Init => WriterInv
  BY InitWriter
<1>2. WriterInv /\ [Next]_vars => WriterInv'
  BY WriterStep
<1> QED BY <1>1, <1>2, PTL DEF Spec

(* A closed archive holds every entry that was set, complete and in order, *)
(* up to where the disk was full: FileComplete.  The destructor flushes    *)
(* the last entry, and an empty one too.                                   *)
THEOREM ArchiveFileComplete == Spec => []FileComplete
<1>1. WriterInv => FileComplete
  <2> SUFFICES ASSUME WriterInv, ~open PROVE FileComplete
    BY DEF FileComplete
  <2>1. Holds(file, sets, full) /\ full \in BOOLEAN
    BY DEF WriterInv, FileInv, WriterTyped
  <2>2. /\ DOMAIN file = 1..Len(file)
        /\ Len(file) <= Len(sets) /\ (full \/ Len(file) = Len(sets))
    BY <2>1, LenProperties DEF Holds
  <2>3. \A i \in DOMAIN file : SameEntry(file[i], sets[i], full /\ i = Len(file))
    BY <2>1, <2>2 DEF Holds
  <2>4. \A i \in DOMAIN file :
          \/ file[i] = sets[i]
          \/ full /\ i = Len(file) /\ Len(file[i].data) = Len(sets[i].data)
    BY <2>3 DEF SameEntry
  <2> QED BY <2>2, <2>4 DEF FileComplete
<1>2. Spec => []WriterInv
  BY ArchiveAssumption, WriterInvariant
<1> QED BY <1>1, <1>2, PTL

-----------------------------------------------------------------------------
(* The reading stream.  Of the entries of a name there is a first one.     *)
LEMMA Least ==
  ASSUME NEW S, S \subseteq Nat, S # {}
  PROVE  First(S) \in S
<1> DEFINE R == OpToRel(<, Nat)
<1>1. IsWellFoundedOn(R, Nat)
  BY NatLessThanWellFounded
<1>2. PICK x \in S : \A y \in S : ~ (<<y, x>> \in R)
  <2> HIDE DEF R
  <2> QED BY <1>1, WFMin
<1>3. \A y \in S : ~(y < x)
  BY <1>2 DEF OpToRel
<1>4. \A y \in S : x <= y
  BY <1>3
<1> QED BY <1>4 DEF First

(* The buffer after an entry was loaded begins with its bytes.             *)
LEMMA StoreIs ==
  ASSUME storage \in Seq(Nat), NEW bytes \in Seq(Nat)
  PROVE  /\ Store(bytes) \in Seq(Nat)
         /\ Len(bytes) \in 0..Len(Store(bytes))
         /\ SubSeq(Store(bytes), 1, Len(bytes)) = bytes
<1> DEFINE rest == SubSeq(storage, Len(bytes) + 1, Len(storage))
           all == Store(bytes)
<1>1. Len(bytes) \in Nat /\ Len(storage) \in Nat
  BY LenProperties
<1>2. \A i \in 1..Len(storage) : storage[i] \in Nat
  BY ElementOfSeq
<1>3. \A i \in (Len(bytes) + 1)..Len(storage) : storage[i] \in Nat
  BY <1>1, <1>2
<1>4. rest \in Seq(Nat)
  BY <1>1, <1>3, SubSeqProperties
<1>5. Len(rest) \in Nat
  BY <1>4, LenProperties
<1> HIDE DEF rest
<1>6. /\ all \in Seq(Nat) /\ Len(all) = Len(bytes) + Len(rest)
      /\ \A i \in 1..(Len(bytes) + Len(rest)) :
           all[i] = IF i <= Len(bytes) THEN bytes[i] ELSE rest[i - Len(bytes)]
  BY <1>4, ConcatProperties DEF Store, rest
<1>7. \A i \in 1..Len(bytes) : all[i] = bytes[i]
  BY <1>1, <1>5, <1>6
<1>8. Len(bytes) \in 0..Len(all)
  BY <1>1, <1>5, <1>6
<1> HIDE DEF all
<1>9. \A i \in 1..Len(bytes) : all[i] \in Nat
  BY <1>7, ElementOfSeq
<1> DEFINE start == SubSeq(all, 1, Len(bytes))
           n == Len(bytes)
<1>10. n - 1 + 1 = n /\ (IF 1 <= n THEN n - 1 + 1 ELSE 0) = n
  BY <1>1
<1>11. /\ start \in Seq(Nat)
       /\ Len(start) = (IF 1 <= n THEN n - 1 + 1 ELSE 0)
       /\ \A i \in 1..(n - 1 + 1) : start[i] = all[1 + i - 1]
  BY <1>1, <1>9, SubSeqProperties
<1>12. \A i \in 1..n : 1 + i - 1 = i
  OBVIOUS
<1>13. Len(start) = n /\ \A i \in 1..n : start[i] = bytes[i]
  BY <1>7, <1>10, <1>11, <1>12
<1>14. start = bytes
  BY <1>11, <1>13, SeqEqual
<1> QED BY <1>6, <1>8, <1>14 DEF all

(* Taking at least what is left, with the get area used up: the whole      *)
(* buffer after set_entry, else nothing.                                   *)
AreaTyped == /\ storage \in Seq(Nat) /\ size \in 0..Len(storage)
             /\ gptr \in Nat /\ egptr = gptr /\ dirty \in BOOLEAN
             /\ out \in Seq(Nat)
LEMMA TakenIs ==
  ASSUME AreaTyped, NEW n \in Nat, n > 0, n >= Available, Taken(n)
  PROVE  /\ dirty' = FALSE /\ gptr' \in Nat /\ egptr' = gptr'
         /\ out' = IF dirty THEN out \o SubSeq(storage, 1, size) ELSE out
<1> DEFINE now == IF n <= egptr - gptr THEN n ELSE egptr - gptr
           more == IF n = now \/ ~Refills THEN 0
                   ELSE IF n - now <= size THEN n - now ELSE size
<1>1. /\ size \in Nat /\ gptr \in Nat /\ egptr = gptr
      /\ storage \in Seq(Nat) /\ out \in Seq(Nat)
  BY LenProperties DEF AreaTyped
<1>2. now = 0
  BY <1>1
<1>3. Refills => n >= size
  BY <1>1 DEF Available
<1>4. more = IF Refills THEN size ELSE 0
  BY <1>1, <1>2, <1>3
<1>5. /\ out' = out \o Bytes(gptr, gptr + now) \o Bytes(0, more)
      /\ IF n > now /\ dirty
         THEN /\ dirty' = FALSE
              /\ gptr' = IF Refills THEN more ELSE gptr + now
              /\ egptr' = IF Refills THEN size ELSE egptr
         ELSE gptr' = gptr + now /\ UNCHANGED <<dirty, egptr>>
  BY DEF Taken
<1> HIDE DEF now, more
<1>6. dirty' = FALSE /\ gptr' \in Nat /\ egptr' = gptr'
  BY <1>1, <1>2, <1>4, <1>5 DEF AreaTyped
<1>7. Bytes(gptr, gptr + now) = <<>>
  BY <1>1, <1>2, SubSeqEmpty DEF Bytes
<1>8. out' = out \o Bytes(0, more)
  BY <1>1, <1>5, <1>7, ConcatEmptySeq
<1>9. more = IF dirty THEN size ELSE 0
  BY <1>1, <1>4 DEF Refills
<1>10. CASE dirty
  <2>1. more = size /\ 0 + 1 = 1
    BY <1>9, <1>10
  <2>2. Bytes(0, more) = SubSeq(storage, 1, size)
    BY <2>1 DEF Bytes
  <2> QED BY <1>6, <1>8, <1>10, <2>2
<1>11. CASE ~dirty
  <2>1. Bytes(0, more) = <<>>
    BY <1>9, <1>11, SubSeqEmpty DEF Bytes
  <2> QED BY <1>1, <1>6, <1>8, <1>11, <2>1, ConcatEmptySeq
<1> QED BY <1>10, <1>11

LEMMA InitReader ==
  ASSUME Init
  PROVE  ReaderInv
<1>1. <<>> \in Seq(Nat) /\ Len(<<>>) = 0
  BY EmptySeq
<1> QED BY <1>1 DEF Init, ReaderInv

LEMMA ReaderUnchanged ==
  ASSUME ReaderInv, UNCHANGED <<file, open, storage, size, area, current, out, to_end>>
  PROVE  ReaderInv'
BY DEF ReaderInv, area

(* As long as the writer is there nothing has been loaded.                 *)
LEMMA WritingKeepsReader ==
  ASSUME ReaderInv, open, UNCHANGED reader, file' = file \/ Len(file') \in Nat
  PROVE  ReaderInv'
<1>1. current = 0 /\ current' = 0
  BY DEF ReaderInv, reader
<1>2. current' \in 0..Len(file')
  BY <1>1 DEF ReaderInv
<1> QED BY <1>1, <1>2 DEF ReaderInv, reader, area

LEMMA LoadEntryKeepsReader ==
  ASSUME WriterInv, ReaderInv, ReadsToEnd, NEW name \in Names, LoadEntry(name)
  PROVE  ReaderInv'
<1>1. /\ ~open /\ file' = file /\ open' = open
      /\ dirty' = TRUE /\ out' = <<>> /\ to_end' = FALSE
      /\ gptr' = gptr /\ egptr' = egptr
  BY DEF LoadEntry, DirtyAfter, writer
<1>2. file \in Seq(Entry)
  BY <1>1 DEF WriterInv, FileInv, Holds
<1>3. Len(file) \in Nat
  BY <1>2, LenProperties
<1>4. <<>> \in Seq(Nat)
  BY EmptySeq
<1>5. CASE Entries(name) = {}
  <2>1. current' = 0 /\ size' = 0 /\ storage' = storage
    BY <1>5 DEF LoadEntry
  <2>2. Len(storage) \in Nat /\ storage \in Seq(Nat)
    BY LenProperties DEF ReaderInv
  <2> QED BY <1>1, <1>3, <1>4, <2>1, <2>2 DEF ReaderInv
<1>6. CASE Entries(name) # {}
  <2>1. /\ current' = First(Entries(name))
        /\ storage' = Store(file[current'].data)
        /\ size' = Len(file[current'].data)
    BY <1>6 DEF LoadEntry
  <2>2. Entries(name) \subseteq 1..Len(file)
    BY DEF Entries
  <2>3. Entries(name) \subseteq Nat
    BY <2>2
  <2>4. current' \in 1..Len(file)
    BY <1>6, <2>1, <2>2, <2>3, Least
  <2>5. PICK c \in 1..Len(file) : c = current'
    BY <2>4
  <2> DEFINE d == file[c].data
  <2>6. d \in Seq(Nat)
    <3>1. file[c] \in Entry
      BY <1>2, ElementOfSeq
    <3> QED BY <3>1 DEF Entry
  <2>7. storage' = Store(d) /\ size' = Len(d)
    BY <2>1, <2>5
  <2> HIDE DEF d
  <2>8. /\ storage' \in Seq(Nat) /\ size' \in 0..Len(storage')
        /\ SubSeq(storage', 1, size') = d
    BY <2>6, <2>7, StoreIs DEF ReaderInv
  <2>9. /\ size' = Len(file'[current'].data)
        /\ SubSeq(storage', 1, size') = file'[current'].data
    BY <1>1, <2>5, <2>7, <2>8 DEF d
  <2>10. current' \in 0..Len(file')
    BY <1>1, <1>3, <2>4
  <2> QED BY <1>1, <1>4, <2>8, <2>9, <2>10 DEF ReaderInv
<1> QED BY <1>5, <1>6

(* What underflow finds is the entry, once.                                *)
LEMMA TakenKeepsReader ==
  ASSUME WriterInv, ReaderInv, ~open, NEW n \in Nat, n > 0, n >= Available, Taken(n),
         UNCHANGED <<writer, storage, size, current>>
  PROVE  ReaderInv'
<1>1. AreaTyped
  BY DEF ReaderInv, AreaTyped
<1>2. /\ dirty' = FALSE /\ gptr' \in Nat /\ egptr' = gptr'
      /\ out' = IF dirty THEN out \o SubSeq(storage, 1, size) ELSE out
  BY <1>1, TakenIs
<1>3. /\ file' = file /\ open' = open /\ storage' = storage /\ size' = size
      /\ current' = current
  BY DEF writer
<1>4. SubSeq(storage, 1, size) \in Seq(Nat)
  <2>1. \A i \in 1..Len(storage) : storage[i] \in Nat
    BY ElementOfSeq DEF ReaderInv
  <2>2. Len(storage) \in Nat /\ size \in 0..Len(storage)
    BY LenProperties DEF ReaderInv
  <2>3. \A i \in 1..size : storage[i] \in Nat
    BY <2>1, <2>2
  <2>4. size \in Int
    BY <2>2
  <2> QED BY <2>3, <2>4, SubSeqProperties
<1>5. out' \in Seq(Nat)
  <2>1. out \in Seq(Nat)
    BY DEF ReaderInv
  <2>2. out \o SubSeq(storage, 1, size) \in Seq(Nat)
    BY <1>4, <2>1, ConcatProperties
  <2> QED BY <1>2, <2>1, <2>2
<1>6. current # 0 => out' = file[current].data
  <2> SUFFICES ASSUME current # 0 PROVE out' = file[current].data
    OBVIOUS
  <2>1. CASE dirty
    <3>1. out = <<>> /\ SubSeq(storage, 1, size) = file[current].data
      BY <2>1 DEF ReaderInv
    <3>2. <<>> \o SubSeq(storage, 1, size) = SubSeq(storage, 1, size)
      BY <1>4, ConcatEmptySeq
    <3> QED BY <1>2, <2>1, <3>1, <3>2
  <2>2. CASE ~dirty
    BY <1>2, <2>2 DEF ReaderInv
  <2> QED BY <2>1, <2>2
<1> QED BY <1>2, <1>3, <1>5, <1>6 DEF ReaderInv

LEMMA ReadKeepsReader ==
  ASSUME ArchiveAssumption, WriterInv, ReaderInv, ReadsToEnd,
         NEW n \in 1..MaxEntry + 1, Read(n)
  PROVE  ReaderInv'
<1>1. ~open /\ n >= Available /\ UNCHANGED <<writer, storage, size, current>>
  BY DEF Read
<1>2. CASE ios_failed
  <2>1. UNCHANGED <<out, area, ios_failed, to_end>>
    BY <1>2 DEF Read
  <2> QED BY <1>1, <2>1, ReaderUnchanged DEF writer
<1>3. CASE ~ios_failed
  <2>1. Taken(n) /\ n \in Nat /\ n > 0
    BY <1>3 DEF Read, ArchiveAssumption
  <2> QED BY <1>1, <2>1, TakenKeepsReader
<1> QED BY <1>2, <1>3

LEMMA GetEntryStringKeepsReader ==
  ASSUME WriterInv, ReaderInv, GetEntryString
  PROVE  ReaderInv'
<1> DEFINE n == egptr - gptr + size + 1
<1>1. ~open /\ Taken(n) /\ UNCHANGED <<writer, storage, size, current>>
  BY DEF GetEntryString
<1>2. size \in Nat /\ egptr = gptr /\ gptr \in Nat
  BY LenProperties DEF ReaderInv
<1>3. n \in Nat /\ n > 0 /\ n >= Available
  BY <1>2 DEF Available
<1> HIDE DEF n
<1> QED BY <1>1, <1>3, TakenKeepsReader

LEMMA ReaderStep ==
  ASSUME ArchiveAssumption, ReadsToEnd, WriterInv, WriterInv', ReaderInv, [Next]_vars
  PROVE  ReaderInv'
<1>1. ASSUME NEW name \in Names, SetEntry(name) PROVE ReaderInv'
  BY <1>1, WritingKeepsReader DEF SetEntry
<1>2. CASE Put
  BY <1>2, WritingKeepsReader DEF Put
<1>3. CASE DiskFull
  BY <1>3, WritingKeepsReader DEF DiskFull
<1>4. CASE Close
  <2>1. open /\ ~open' /\ UNCHANGED reader
    BY <1>4 DEF Close
  <2>2. file' \in Seq(Entry)
    BY <2>1 DEF WriterInv, FileInv, Holds
  <2>3. Len(file') \in Nat
    BY <2>2, LenProperties
  <2> QED BY <2>1, <2>3, WritingKeepsReader
<1>5. ASSUME NEW name \in Names, LoadEntry(name) PROVE ReaderInv'
  BY <1>5, LoadEntryKeepsReader
<1>6. CASE GetEntryString
  BY <1>6, GetEntryStringKeepsReader
<1>7. ASSUME NEW n \in 1..MaxEntry + 1, Read(n) PROVE ReaderInv'
  BY <1>7, ReadKeepsReader
<1>8. CASE Clear
  BY <1>8, ReaderUnchanged DEF Clear, writer
<1>9. CASE UNCHANGED vars
  BY <1>9, ReaderUnchanged DEF vars, writer, reader
<1> QED BY <1>1, <1>2, <1>3, <1>4, <1>5, <1>6, <1>7, <1>8, <1>9 DEF Next

LEMMA ReaderInvariant ==
  ASSUME ArchiveAssumption, ReadsToEnd
  PROVE  Spec => [](WriterInv /\ ReaderInv)
<1>1. Init => WriterInv /\ ReaderInv
  BY InitWriter, InitReader
<1>2. WriterInv /\ ReaderInv /\ [Next]_vars => (WriterInv /\ ReaderInv)'
  BY WriterStep, ReaderStep
<1> QED BY <1>1, <1>2, PTL DEF Spec

(* Since an entry was set, only its bytes have been read, each once and    *)
(* all of them at the end: EntryReadsBack.  set_entry has the next         *)
(* underflow set the get area again, which holds when that area was used   *)
(* up: where the program reads an entry to its end before the next.        *)
THEOREM ArchiveEntryReadsBack ==
  ASSUME ReadsToEnd
  PROVE  Spec => []EntryReadsBack
<1>1. WriterInv /\ ReaderInv => EntryReadsBack
  <2> SUFFICES ASSUME WriterInv, ReaderInv, current # 0 PROVE EntryReadsBack
    BY DEF EntryReadsBack
  <2> DEFINE d == file[current].data
             w == sets[current].data
  <2>1. Holds(file, sets, full) /\ full \in BOOLEAN
    BY DEF ReaderInv, WriterInv, FileInv, WriterTyped
  <2>2. file \in Seq(Entry) /\ Len(file) \in Nat
    BY <2>1, LenProperties DEF Holds
  <2>3. current \in 1..Len(file)
    BY <2>2 DEF ReaderInv
  <2>4. d \in Seq(Nat)
    <3>1. file[current] \in Entry
      BY <2>2, <2>3, ElementOfSeq
    <3> QED BY <3>1 DEF Entry
  <2>5. Len(d) \in Nat /\ DOMAIN d = 1..Len(d)
    BY <2>4, LenProperties
  <2>6. Len(d) = Len(w) /\ \A i \in 1..Len(w) :
          d[i] \in {w[i]} \cup (IF Torn(current) THEN {0} ELSE {})
    BY <2>1, <2>3 DEF Holds, SameEntry, Torn
  <2>7. (out = <<>> /\ ~to_end) \/ out = d
    BY DEF ReaderInv
  <2>8. /\ IsPrefix(out, d)
        /\ \A i \in DOMAIN out :
             out[i] \in {w[i]} \cup (IF Torn(current) THEN {0} ELSE {})
        /\ to_end => Len(out) = Len(w)
    <3> HIDE DEF d, w
    <3>1. CASE out = <<>> /\ ~to_end
      <4>1. Len(out) = 0 /\ DOMAIN out = {}
        BY <3>1
      <4>2. SubSeq(out, 1, 0) = <<>> /\ SubSeq(d, 1, 0) = <<>>
        BY SubSeqEmpty
      <4> QED BY <2>5, <3>1, <4>1, <4>2 DEF IsPrefix
    <3>2. CASE out = d
      BY <2>5, <2>6, <3>2 DEF IsPrefix
    <3> QED BY <2>7, <3>1, <3>2
  <2> QED BY <2>8 DEF EntryReadsBack
<1>2. Spec => [](WriterInv /\ ReaderInv)
  BY ArchiveAssumption, ReaderInvariant
<1> QED BY <1>1, <1>2, PTL
==============================================================================
