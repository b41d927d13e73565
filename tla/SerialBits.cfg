\* Every call, with bitStream and without, over a buffer that fills up.
SPECIFICATION Spec
CONSTANTS ByteBits = 2  BufferSize = 4  BitStreams = {TRUE, FALSE}
          Kinds = {"bit", "byte", "bits", "bool", "value"}  MaxBits = 3  MaxOps = 3
INVARIANTS NothingLost RoundTrip WritersAgree ReadersAgree
CHECK_DEADLOCK FALSE
