\* Both modes, in a ring of three cells (two bytes), with calls longer than it.
\* Deadlock is allowed: a blocking reader may wait for bytes beyond MaxBytes.
SPECIFICATION FairSpec
CONSTANTS Size = 3  Modes = {TRUE, FALSE}  FullSpins = 1  EmptySpins = 1
          MaxCall = 4  MaxBytes = 6
INVARIANTS RingInv NoDataRace Fifo NeverBothStuck
PROPERTIES ImplementsPipe CallsReturn
CHECK_DEADLOCK FALSE
