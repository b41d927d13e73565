\* Entries may be left half read.
SPECIFICATION Spec
CONSTANTS Names = {n1, n2}  NoName = NoName
          MaxEntry = 2  MaxBytes = 4  MaxSets = 2  MaxReads = 4  ReadsToEnd = FALSE
PROPERTIES SetEntryStartsOver
CHECK_DEADLOCK FALSE
