\* Strings, containers and anys whose bytes arrive one at a time.
SPECIFICATION Spec
CONSTANTS Base = 2  SizeBytes = 2  MaxLen = 3  Names = {1, 2}
          MaxItems = 2  MaxCount = 2  MaxTypes = 2
INVARIANTS AcceptedWhole
PROPERTIES AllRead
