\* Strings of one to three characters, a byte at a time, with a small window.
SPECIFICATION Spec
CONSTANTS Base = 2  SizeBytes = 2  MaxLen = 3  Lengths = {1, 3}  MaxStrings = 2
          SendRoom = 4
INVARIANTS TypeOK EndsAgree ClosedMeansEnd KeptForRetry AcceptedWhole
PROPERTIES AllRead CloseReturns
CHECK_DEADLOCK FALSE
