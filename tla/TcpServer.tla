------------------------------ MODULE TcpServer ------------------------------
(***************************************************************************)
(* tcp_server: a listening socket guarded by a mutex, and a map of the     *)
(* accepted clients that the mutex does not guard.  Acceptors are the      *)
(* threads that call acceptOne and closeClient, Closers those that call    *)
(* close.  A connection is accepted in several steps: the listening socket *)
(* is polled and accepted from under the mutex, the client is numbered and *)
(* entered in the map without it.                                          *)
(***************************************************************************)
EXTENDS Integers, FiniteSets

CONSTANTS
  Acceptors, Closers,  \* the threads
  Clients,             \* the connections that may come in
  NoThread, NoClient,
  Ids,                 \* how many values size_t has (2^64 in the code)
  InitialTotals,       \* what totalClients, never initialised, may hold
  SelectSeesFd         \* FALSE where select(1, ...) looks at fd 0 only (POSIX),
                       \* TRUE where it ignores its first argument (Windows)

Threads == Acceptors \cup Closers

ASSUME ThreadAssumption == NoThread \notin Threads /\ NoClient \notin Clients
ASSUME IdAssumption == Ids \in Nat \ {0} /\ InitialTotals \subseteq 0..Ids-1

VARIABLES
  mutex,            \* the thread that holds it, or NoThread
  fd_closed,
  listener_closes,  \* how many times the listening descriptor was closed
  backlog,          \* connections the kernel holds for accept
  arrived,          \* connections that have come in
  totalClients,
  clientStreamMap,  \* ids to clients
  stream,           \* what became of each client's stream
  pc, conn, id,     \* per thread: its place, the accepted client, its number
  handed,           \* clients handed to a caller who still uses them, by id
  overlapped,       \* two threads touched totalClients, or the map, at once
  won               \* threads to which close returned true

kernel == <<backlog, arrived>>
table == <<clientStreamMap, stream, handed>>
count == <<totalClients, overlapped>>
vars == <<mutex, fd_closed, listener_closes, kernel, count, table,
          pc, conn, id, won>>

Init == /\ mutex = NoThread
        /\ fd_closed = FALSE /\ listener_closes = 0
        /\ backlog = {} /\ arrived = {}
        /\ totalClients \in InitialTotals
        /\ clientStreamMap = [i \in {} |-> NoClient]
        /\ stream = [c \in Clients |-> "none"]
        /\ pc = [t \in Threads |-> "idle"]
        /\ conn = [t \in Threads |-> NoClient]
        /\ id = [t \in Threads |-> 0]
        /\ handed = {}
        /\ overlapped = FALSE
        /\ won = {}

Goto(t, place) == pc' = [pc EXCEPT ![t] = place]

-----------------------------------------------------------------------------
(* The network, and the kernel's side of the listening socket. *)

Arrive(c) == /\ c \notin arrived /\ listener_closes = 0
             /\ arrived' = arrived \cup {c}
             /\ backlog' = backlog \cup {c}
             /\ UNCHANGED <<mutex, fd_closed, listener_closes, count,
                            table, pc, conn, id, won>>

(* A peer that resets its connection disappears from the backlog. *)
Reset(c) == /\ c \in backlog
            /\ backlog' = backlog \ {c}
            /\ UNCHANGED <<mutex, fd_closed, listener_closes, arrived,
                           count, table, pc, conn, id, won>>

-----------------------------------------------------------------------------
(* acceptOne *)

Quiet == <<fd_closed, listener_closes, arrived, table, won>>

(* No lock guards totalClients and the map: a thread that gets there while *)
(* another is there makes a data race, after which C++ promises nothing.   *)
Meets(t, place) ==
  overlapped' = (overlapped \/ \E u \in Acceptors \ {t} : pc[u] = place)

AcceptCall(t) == /\ pc[t] = "idle"
                 /\ Goto(t, "lock")
                 /\ UNCHANGED <<mutex, backlog, count, conn, id, Quiet>>

(* The lock is taken; a closed server returns -1 at once. *)
AcceptLock_NoMutex(t) ==                                     \* mutant
  /\ pc[t] = "lock" /\ ~fd_closed
  /\ Goto(t, "select")
  /\ UNCHANGED <<mutex, backlog, count, conn, id, Quiet>>
AcceptLock(t) ==
  /\ pc[t] = "lock" /\ mutex = NoThread
  /\ IF fd_closed THEN Goto(t, "idle") /\ UNCHANGED mutex
                  ELSE Goto(t, "select") /\ mutex' = t
  /\ UNCHANGED <<backlog, count, conn, id, Quiet>>

(* What select reports of the listening descriptor. *)
Readable == SelectSeesFd /\ backlog # {}

SelectReady(t) == /\ pc[t] = "select" /\ Readable
                  /\ Goto(t, "accept")
                  /\ UNCHANGED <<mutex, backlog, count, conn, id, Quiet>>

(* 175 ms pass with nothing readable: -1. *)
SelectTimeout(t) == /\ pc[t] = "select" /\ ~Readable
                    /\ Goto(t, "idle")
                    /\ mutex' = NoThread
                    /\ UNCHANGED <<backlog, count, conn, id, Quiet>>

AcceptTake(t, c) == /\ pc[t] = "accept" /\ c \in backlog
                    /\ backlog' = backlog \ {c}
                    /\ conn' = [conn EXCEPT ![t] = c]
                    /\ Goto(t, "count")
                    /\ mutex' = NoThread
                    /\ UNCHANGED <<count, id, Quiet>>

(* The connection was reset in between.  The constructor has made the      *)
(* socket non-blocking, so accept returns -1 instead of waiting for the    *)
(* next one with the mutex held.                                           *)
AcceptNone_Blocking(t) == /\ pc[t] = "accept" /\ backlog = {}  \* mutant
                          /\ UNCHANGED vars
AcceptNone(t) == /\ pc[t] = "accept" /\ backlog = {}
                 /\ Goto(t, "idle")
                 /\ mutex' = NoThread
                 /\ UNCHANGED <<backlog, count, conn, id, Quiet>>

(* id = ++totalClients, a load and a store without the mutex. *)
CountLoad_Same(t) == /\ pc[t] = "count"                      \* mutant
                     /\ id' = [id EXCEPT ![t] = totalClients]
                     /\ Goto(t, "store") /\ Meets(t, "store")
                     /\ UNCHANGED <<mutex, backlog, totalClients, conn, Quiet>>
CountLoad(t) == /\ pc[t] = "count"
                /\ id' = [id EXCEPT ![t] = (totalClients + 1) % Ids]
                /\ Goto(t, "store") /\ Meets(t, "store")
                /\ UNCHANGED <<mutex, backlog, totalClients, conn, Quiet>>

CountStore(t) == /\ pc[t] = "store"
                 /\ totalClients' = id[t]
                 /\ Goto(t, "register") /\ Meets(t, "store")
                 /\ UNCHANGED <<mutex, backlog, conn, id, Quiet>>

(* clientStreamMap[id] = the client's tuple, whatever the TLS handshake    *)
(* said.  A client already there under the same id loses its last          *)
(* reference, and its stream is destroyed.  The caller gets a pointer into *)
(* the map.                                                                *)
Register(t) ==
  LET c == conn[t]
      i == id[t]
      taken == i \in DOMAIN clientStreamMap
  IN  /\ pc[t] = "register"
      /\ clientStreamMap' = [k \in DOMAIN clientStreamMap \cup {i} |->
                               IF k = i THEN c ELSE clientStreamMap[k]]
      /\ stream' = [d \in Clients |->
                      IF d = c THEN "open"
                      ELSE IF taken /\ d = clientStreamMap[i] THEN "destroyed"
                      ELSE stream[d]]
      /\ handed' = handed \cup {<<i, c>>}
      /\ conn' = [conn EXCEPT ![t] = NoClient]
      /\ id' = [id EXCEPT ![t] = 0]
      /\ Goto(t, "idle") /\ Meets(t, "register")
      /\ UNCHANGED <<mutex, fd_closed, listener_closes, kernel, totalClients,
                     won>>

-----------------------------------------------------------------------------
(* closeClient(i): erasing the tuple destroys the stream, whose destructor *)
(* closes the descriptor; an id that is not in the map changes nothing.    *)
CloseClient(t, i) ==
  /\ pc[t] = "idle"
  /\ i \in DOMAIN clientStreamMap
  /\ clientStreamMap' = [k \in DOMAIN clientStreamMap \ {i} |->
                           clientStreamMap[k]]
  /\ stream' = [stream EXCEPT ![clientStreamMap[i]] = "destroyed"]
  /\ handed' = {h \in handed : h[1] # i}
  /\ Meets(t, "register")
  /\ UNCHANGED <<mutex, fd_closed, listener_closes, kernel, totalClients, pc,
                 conn, id, won>>

-----------------------------------------------------------------------------
(* close *)

CloseCall(t) == /\ pc[t] = "idle"
                /\ Goto(t, "closelock")
                /\ UNCHANGED <<mutex, backlog, count, conn, id, Quiet>>

(* Under the mutex: a server closed before returns false, otherwise the    *)
(* listening descriptor is closed and the kernel drops the backlog.        *)
CloseLock_NoCheck(t) ==                                      \* mutant
  /\ pc[t] = "closelock" /\ mutex = NoThread
  /\ Goto(t, "closing")
  /\ mutex' = t
  /\ listener_closes' = listener_closes + 1
  /\ backlog' = {}
  /\ UNCHANGED <<fd_closed, arrived, count, table, conn, id, won>>
CloseLock(t) ==
  /\ pc[t] = "closelock" /\ mutex = NoThread
  /\ IF fd_closed
     THEN Goto(t, "idle") /\ UNCHANGED <<mutex, listener_closes, backlog>>
     ELSE /\ Goto(t, "closing")
          /\ mutex' = t
          /\ listener_closes' = listener_closes + 1
          /\ backlog' = {}
  /\ UNCHANGED <<fd_closed, arrived, count, table, conn, id, won>>

CloseDone(t) == /\ pc[t] = "closing"
                /\ fd_closed' = TRUE
                /\ won' = won \cup {t}
                /\ mutex' = NoThread
                /\ Goto(t, "idle")
                /\ UNCHANGED <<listener_closes, kernel, count, table,
                               conn, id>>

-----------------------------------------------------------------------------
AcceptStep(t) == \/ AcceptLock(t) \/ SelectReady(t) \/ SelectTimeout(t)
                 \/ \E c \in Clients : AcceptTake(t, c)
                 \/ AcceptNone(t) \/ CountLoad(t) \/ CountStore(t)
                 \/ Register(t)

CloseStep(t) == CloseLock(t) \/ CloseDone(t)

Next == \/ \E c \in Clients : Arrive(c) \/ Reset(c)
        \/ \E t \in Acceptors : \/ AcceptCall(t)
                                \/ AcceptStep(t)
                                \/ \E i \in 0..Ids-1 : CloseClient(t, i)
        \/ \E t \in Closers : CloseCall(t) \/ CloseStep(t)

Spec == Init /\ [][Next]_vars

(* Threads run, but std::mutex promises no thread that it gets its turn: a *)
(* thread is only sure to go on once it holds the mutex or needs none.     *)
FairSpec == /\ Spec
            /\ \A t \in Acceptors : WF_vars(AcceptStep(t))
            /\ \A t \in Closers : WF_vars(CloseStep(t))

-----------------------------------------------------------------------------
(* Every variable has its type; ids, and the count they come from, wrap    *)
(* around (tcp_server::acceptOne).                                         *)
TypeOK ==
  /\ mutex \in Threads \cup {NoThread}
  /\ fd_closed \in BOOLEAN /\ listener_closes \in Nat
  /\ backlog \subseteq arrived /\ arrived \subseteq Clients
  /\ totalClients \in 0..Ids-1
  /\ DOMAIN clientStreamMap \subseteq 0..Ids-1
  /\ \A i \in DOMAIN clientStreamMap : clientStreamMap[i] \in Clients
  /\ stream \in [Clients -> {"none", "open", "destroyed"}]
  /\ pc \in [Threads -> {"idle", "lock", "select", "accept", "count", "store",
                         "register", "closelock", "closing"}]
  /\ conn \in [Threads -> Clients \cup {NoClient}]
  /\ id \in [Threads -> 0..Ids-1]
  /\ handed \subseteq (0..Ids-1) \X Clients /\ overlapped \in BOOLEAN
  /\ won \subseteq Closers

(* acceptOne never polls, nor accepts from, a descriptor that close has    *)
(* given back to the system (where it may already name something else).    *)
AcceptsOpenListener ==
  \A t \in Acceptors : pc[t] \in {"select", "accept"} => listener_closes = 0

(* However many threads close the server, and however often, the           *)
(* descriptor is closed once and close returns true once.                  *)
ClosedOnce == listener_closes <= 1 /\ \A t, u \in won : t = u

(* The inductive invariant behind both: only the thread that holds the     *)
(* mutex is inside select, accept or close; the listening descriptor has   *)
(* been closed exactly when fd_closed says so, or a thread is just about   *)
(* to set it; and a thread with a connection in hand has a real one.       *)
Inside == {"select", "accept", "closing"}
Locked == \A t \in Threads : pc[t] \in Inside => mutex = t /\ ~fd_closed
CloseCounted ==
  listener_closes = IF fd_closed \/ \E t \in Threads : pc[t] = "closing"
                    THEN 1 ELSE 0
WonAfterClose == won # {} => fd_closed
InHand == \A t \in Threads :
            pc[t] \in {"count", "store", "register"} => conn[t] \in Clients
ServerInv == /\ TypeOK /\ Locked /\ CloseCounted /\ WonAfterClose /\ InHand
             /\ ClosedOnce

(* A caller's pointer into the map stays good until it closes that client: *)
(* the id still names the same client, whose stream is still open.  Any    *)
(* thread may accept or close clients, also while another waits in select; *)
(* all it takes is that no two of them count, enter or erase at once (and  *)
(* fewer clients than ids).                                                *)
HandedStaysValid ==
  ~overlapped =>
  \A h \in handed : /\ h[1] \in DOMAIN clientStreamMap
                    /\ clientStreamMap[h[1]] = h[2]
                    /\ stream[h[2]] = "open"

(* No thread keeps the mutex for ever, so that acceptOne, however idle the *)
(* network, never locks close out: accept cannot block under the mutex.    *)
MutexReleased == \A t \in Threads : mutex = t ~> mutex # t

(* tcp_tests.cpp:18: "tcp_server accepts client connection".  acceptOne    *)
(* does not give up while a connection is waiting to be accepted.          *)
AcceptsWaitingClient ==
  [][\A t \in Acceptors : SelectTimeout(t) => backlog = {}]_vars
==============================================================================
