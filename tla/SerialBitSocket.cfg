\* A bitStream over a socket.
SPECIFICATION Spec
CONSTANTS ByteBits = 8  BitStream = TRUE
PROPERTIES ReadReturns
