\* Two threads accept and close clients, two close the server.
SPECIFICATION FairSpec
CONSTANTS Acceptors = {a1, a2}  Closers = {k1, k2}  Clients = {c1, c2, c3}
          NoThread = NoThread  NoClient = NoClient
          Ids = 4  InitialTotals <- AnyTotal  SelectSeesFd = TRUE
INVARIANTS ServerInv AcceptsOpenListener ClosedOnce HandedStaysValid
PROPERTIES MutexReleased
