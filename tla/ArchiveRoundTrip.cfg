\* Entries are read to their end or past it, in any order and again; the disk
\* may fill up.
SPECIFICATION Spec
CONSTANTS Names = {n1, n2}  NoName = NoName
          MaxEntry = 2  MaxBytes = 3  MaxSets = 3  MaxReads = 4  ReadsToEnd = TRUE
INVARIANTS FileComplete EntryReadsBack
CHECK_DEADLOCK FALSE
