\* Two contexts, two connections besides the server, three numbers.
SPECIFICATION Spec
CONSTANTS Ctxs = {x1, x2}  Conns = {k1, k2}  Server = server  Fds = {f1, f2, f3}
          Ids = 3  InitialTotals = {1}
          NoCtx = NoCtx  NoConn = NoConn  NoFd = NoFd
          Free = Free  Other = Other  Lost = Lost
INVARIANTS NumbersKept ContextsCounted StreamsAlive FactoryLeavesNothing
SYMMETRY Names
CHECK_DEADLOCK FALSE
