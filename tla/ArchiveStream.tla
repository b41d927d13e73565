---------------------------- MODULE ArchiveStream -----------------------------
(***************************************************************************)
(* archive_stream: one stream writes an archive entry by entry, another    *)
(* reads entries of the file by name.  An entry is collected in a memory   *)
(* buffer and goes to the archive when the next entry is set or the stream *)
(* is destroyed; set_entry of a reader loads an entry into the buffer, but *)
(* leaves the get area of the streambuf where the last reads put it.       *)
(* libarchive keeps what it is given, in order, until the disk is full;    *)
(* nobody looks at what it answers, neither writing nor reading.           *)
(***************************************************************************)
EXTENDS Integers, Sequences, SequencesExt

CONSTANTS
  Names,        \* names of entries
  NoName,       \* no entry is set
  MaxEntry,     \* bound: bytes in an entry
  MaxBytes,     \* bound: bytes written in all
  MaxSets,      \* bound: calls of set_entry by the writer
  MaxReads,     \* bound: calls of set_entry and read by the reader
  ReadsToEnd    \* the reading program leaves no entry half read

ASSUME ArchiveAssumption == /\ NoName \notin Names /\ ReadsToEnd \in BOOLEAN
                            /\ MaxEntry \in Nat

VARIABLES
  file,       \* the entries of the archive file, once it has been closed
  archive,    \* the entries given to the open archive so far
  entry, data,          \* the writing stream's entry and its buffer
  open,                 \* the writing stream exists
  full,                 \* from now on libarchive fails to write
  sets,                 \* history: what was written to each entry set
  written,              \* bytes written so far, which name the next one
  storage, size,        \* the reading stream's buffer.data: memory and size
  dirty, gptr, egptr,   \* its get area, as offsets, [gptr, egptr)
  ios_failed,           \* its failbit
  current,              \* history: index in file of the entry last set
  out,                  \* history: bytes read since then
  to_end,               \* history: get_entry_string was among the calls
  reads                 \* calls made by the reader

writer == <<file, archive, entry, data, open, full, sets, written>>
area == <<dirty, gptr, egptr>>
reader == <<storage, size, area, ios_failed, current, out, to_end, reads>>
vars == <<writer, reader>>

Init == /\ file = <<>> /\ archive = <<>>
        /\ entry = NoName /\ data = <<>> /\ open = TRUE /\ full = FALSE
        /\ sets = <<>> /\ written = 0
        /\ storage = <<>> /\ size = 0
        /\ dirty = TRUE /\ gptr = 0 /\ egptr = 0 /\ ios_failed = FALSE
        /\ current = 0 /\ out = <<>> /\ to_end = FALSE /\ reads = 0

-----------------------------------------------------------------------------
(* The writing stream. *)

(* flush_write, for the entry that is set. *)
Flushed_Never(arc) == arc                                    \* mutant
Flushed(arc) == IF entry = NoName THEN arc
                ELSE Append(arc, [name |-> entry, data |-> data])

(* set_entry(name): the entry before goes out, and the buffer is cleared.  *)
SetEntry(name) ==
  /\ open /\ Len(sets) < MaxSets
  /\ archive' = Flushed(archive)
  /\ entry' = name /\ data' = <<>>
  /\ sets' = Append(sets, [name |-> name, data |-> <<>>])
  /\ UNCHANGED <<file, open, full, written, reader>>

(* A byte is inserted: MemoryBuffer::overflow.  What is written before an  *)
(* entry is set is lost with the buffer.                                   *)
Put == /\ open /\ written < MaxBytes
       /\ Len(data) < MaxEntry
       /\ written' = written + 1
       /\ data' = Append(data, written + 1)
       /\ sets' = IF entry = NoName THEN sets
                  ELSE [sets EXCEPT ![Len(sets)].data =
                          Append(@, written + 1)]
       /\ UNCHANGED <<file, archive, entry, open, full, reader>>

(* What a full disk leaves of an archive: the first entries, and of the    *)
(* next one perhaps its header and a beginning.                            *)
CutAt(e, k) == [e EXCEPT !.data = [i \in DOMAIN @ |-> IF i <= k THEN @[i] ELSE 0]]
Cuts(arc) ==
  {SubSeq(arc, 1, n) : n \in 0..Len(arc)}
    \cup {Append(SubSeq(arc, 1, n - 1), CutAt(arc[n], k)) :
            n \in DOMAIN arc, k \in 0..MaxEntry}

DiskFull == /\ open /\ ~full
            /\ full' = TRUE
            /\ UNCHANGED <<file, archive, entry, data, open, sets, written, reader>>

(* ~archive_stream: the last entry goes out and the archive is closed. *)
Close == /\ open
         /\ open' = FALSE
         /\ archive' = Flushed(archive)
         /\ file' \in IF full THEN Cuts(archive') ELSE {archive'}
         /\ UNCHANGED <<entry, data, full, sets, written, reader>>

-----------------------------------------------------------------------------
(* The reading stream, on the finished file. *)

Entries(name) == {i \in 1..Len(file) : file[i].name = name}
First(S) == CHOOSE i \in S : \A j \in S : i <= j

(* vector::resize within the reserved capacity: bytes past the new size    *)
(* stay in memory.                                                         *)
Store(bytes) == bytes \o SubSeq(storage, Len(bytes) + 1, Len(storage))

(* Nothing is left in the get area. *)
Finished == gptr = egptr

(* set_entry(name): the first entry of that name is loaded, with zeros     *)
(* where its bytes are missing.  For a name that is not there it throws,   *)
(* with the buffer cleared.  The get area is left as it is, to be set by   *)
(* the next underflow, and so is the state of the stream.                  *)
DirtyAfter_Kept == dirty                                     \* mutant
DirtyAfter == TRUE
LoadEntry(name) ==
  /\ ~open /\ reads < MaxReads
  /\ ReadsToEnd => Finished
  /\ IF Entries(name) = {}
     THEN current' = 0 /\ size' = 0 /\ UNCHANGED storage
     ELSE /\ current' = First(Entries(name))
          /\ storage' = Store(file[current'].data)
          /\ size' = Len(file[current'].data)
  /\ dirty' = DirtyAfter
  /\ out' = <<>> /\ to_end' = FALSE
  /\ reads' = reads + 1
  /\ UNCHANGED <<writer, gptr, egptr, ios_failed>>

(* Bytes i+1..j of the memory, where the get area points. *)
Bytes(i, j) == SubSeq(storage, i + 1, j)

(* underflow, called with the get area used up: the whole buffer after     *)
(* set_entry, otherwise end of file.                                       *)
Refills == dirty /\ size > 0

(* Up to n bytes are taken: the get area first, then what underflow finds. *)
Taken(n) ==
  LET now == IF n <= egptr - gptr THEN n ELSE egptr - gptr
      more == IF n = now \/ ~Refills THEN 0
              ELSE IF n - now <= size THEN n - now ELSE size
  IN  /\ out' = out \o Bytes(gptr, gptr + now) \o Bytes(0, more)
      /\ IF n > now /\ dirty
         THEN /\ dirty' = FALSE
              /\ gptr' = IF Refills THEN more ELSE gptr + now
              /\ egptr' = IF Refills THEN size ELSE egptr
         ELSE gptr' = gptr + now /\ UNCHANGED <<dirty, egptr>>
      /\ reads' = reads + 1

(* get_entry_string: iterators over the streambuf, to its end; the state   *)
(* of the stream does not matter to them.                                  *)
GetEntryString ==
  /\ ~open /\ reads < MaxReads
  /\ Taken(egptr - gptr + size + 1)
  /\ to_end' = TRUE
  /\ UNCHANGED <<writer, storage, size, ios_failed, current>>

(* read(s, n) and gcount: nothing from a stream that has failed; a read    *)
(* that comes short fails it, until the program clears it.                 *)
Available == egptr - gptr + (IF Refills THEN size ELSE 0)
Read(n) ==
  /\ ~open /\ reads < MaxReads
  /\ ReadsToEnd => n >= Available
  /\ IF ios_failed
     THEN reads' = reads + 1 /\ UNCHANGED <<out, area, ios_failed, to_end>>
     ELSE /\ Taken(n) /\ ios_failed' = (n > Available)
          /\ to_end' = (to_end \/ n > Available)
  /\ UNCHANGED <<writer, storage, size, current>>

Clear == /\ ~open /\ ios_failed
         /\ ios_failed' = FALSE
         /\ UNCHANGED <<writer, storage, size, area, current, out, to_end, reads>>

-----------------------------------------------------------------------------
Next == \/ \E name \in Names : SetEntry(name) \/ LoadEntry(name)
        \/ Put \/ DiskFull \/ Close
        \/ GetEntryString \/ Clear
        \/ \E n \in 1..MaxEntry + 1 : Read(n)

Spec == Init /\ [][Next]_vars

-----------------------------------------------------------------------------
(* A closed archive holds every entry that was set, in order, each with    *)
(* the bytes written between setting it and setting the next: the last     *)
(* and the empty ones too.  If the disk was full, then the first of them,  *)
(* and only the last of those can be torn.                                 *)
FileComplete ==
  ~open =>
    /\ full \/ Len(file) = Len(sets)
    /\ Len(file) <= Len(sets)
    /\ \A i \in DOMAIN file :
         \/ file[i] = sets[i]
         \/ full /\ i = Len(file) /\ Len(file[i].data) = Len(sets[i].data)

(* Since an entry was set, only its bytes have been read, in order, each   *)
(* once, and all of them when the program has read to the end, whatever    *)
(* entry and whatever short read came before; from an entry that a full    *)
(* disk tore, zeros for the bytes that are missing.                        *)
Torn(i) == full /\ i = Len(file)
EntryReadsBack ==
  current # 0 =>
    /\ IsPrefix(out, file[current].data)
    /\ \A i \in DOMAIN out :
         out[i] \in {sets[current].data[i]} \cup (IF Torn(current) THEN {0} ELSE {})
    /\ to_end => Len(out) = Len(sets[current].data)

(* archive_tests.cpp:103-107: after set_entry("two.txt"), whatever was read *)
(* before, get_entry_string is the content of two.txt.                     *)
SetEntryStartsOver ==
  [][GetEntryString /\ current # 0 /\ dirty /\ out = <<>>
       => out' = file[current].data]_vars
==============================================================================
