\* select(1, ...) on a POSIX system.
SPECIFICATION FairSpec
CONSTANTS Acceptors = {a1}  Closers = {k1}  Clients = {c1}
          NoThread = NoThread  NoClient = NoClient
          Ids = 4  InitialTotals <- AnyTotal  SelectSeesFd = FALSE
PROPERTIES AcceptsWaitingClient
