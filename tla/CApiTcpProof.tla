---------------------------- MODULE CApiTcpProof -----------------------------
(***************************************************************************)
(* For any contexts, connections, descriptor numbers and ids, whatever the *)
(* program calls: NumbersKept, since each step opens one number for one    *)
(* holder, closes the numbers of some, or leaves them alone; StreamsAlive, *)
(* since whoever has a handle owns, or is owned by, a live connection;     *)
(* ContextsCounted, since each step moves the references it counts by as   *)
(* much as OpenSSL's count; and FactoryLeavesNothing, call by call of the  *)
(* ssl_factory.  One lemma for each kind of step.                          *)
(***************************************************************************)
EXTENDS CApiTcp, FiniteSetTheorems, TLAPS

(* The part of TypeOK that numbers depend on. *)
NumbersTyped == /\ life \in [Holders -> {"none", "live", "gone"}]
                /\ fd \in [Holders -> Fds \cup {NoFd}]
                /\ closed \in [Holders -> BOOLEAN]
                /\ fds \in [Fds -> Holders \cup {Free, Other, Lost}]
                /\ clientStreamMap \in [0..Ids-1 -> Conns \cup {NoConn}]

(* What has not been opened has not been closed, and what is open has a    *)
(* number.                                                                 *)
OpenedFirst == /\ \A h \in Holders : life[h] = "none" => ~closed[h]
               /\ \A h \in StillOpen : fd[h] \in Fds

(* The inductive invariant. *)
NumbersInv == NumbersTyped /\ OpenedFirst /\ NumbersKept

-----------------------------------------------------------------------------
(* A holder that was not there before gets a number that is free.          *)
LEMMA OpenKeeps ==
  ASSUME NumbersInv, NEW h \in Holders, NEW f \in Fds, NEW c, NEW g,
         life[h] = "none", Open(h, f, c, g),
         clientStreamMap' \in [0..Ids-1 -> Conns \cup {NoConn}]
  PROVE  NumbersInv'
<1> USE DEF NumbersInv, NumbersTyped, Open, OpenNumber
<1>1. NumbersTyped'
  OBVIOUS
<1>2. StillOpen' = StillOpen \cup {h}
  BY DEF StillOpen, OpenedFirst
<1>3. h \notin StillOpen
  BY DEF StillOpen
<1>4. OpenedFirst'
  BY <1>2 DEF OpenedFirst
<1>5. \A k \in StillOpen : fd[k] # f
  BY NameAssumption DEF NumbersKept, StillOpen
<1>6. NumbersKept'
  <2>1. \A k \in StillOpen' : fds'[fd'[k]] = k
    BY <1>2, <1>3, <1>5 DEF NumbersKept, OpenedFirst, StillOpen
  <2>2. \A e \in Fds : fds'[e] \in Holders
                         => fds'[e] \in StillOpen' /\ fd'[fds'[e]] = e
    BY <1>2, <1>3 DEF NumbersKept
  <2> QED BY <2>1, <2>2 DEF NumbersKept
<1> QED BY <1>1, <1>4, <1>6

(* Holders are closed, and some of those are destroyed.                    *)
LEMMA CloseKeeps ==
  ASSUME NumbersInv, NEW S \in SUBSET Holders, NEW freed,
         NEW Gone \in SUBSET S, Close(S, freed, Gone),
         clientStreamMap' \in [0..Ids-1 -> Conns \cup {NoConn}]
  PROVE  NumbersInv'
<1> USE DEF NumbersInv, NumbersTyped
<1>1. Unclosed(S) = StillOpen \cap S
  BY DEF Unclosed, StillOpen
<1>2. /\ life' = [h \in Holders |-> IF h \in Gone THEN "gone" ELSE life[h]]
      /\ closed' = [h \in Holders |-> closed[h] \/ h \in Unclosed(S)]
      /\ fds' = [f \in Fds |-> IF f \in {fd[h] : h \in Unclosed(S)} THEN Free
                               ELSE fds[f]]
      /\ stray' = (stray \/ \E h \in Unclosed(S) : fds[fd[h]] # h)
      /\ fd' = fd
  BY DEF Close
<1>3. NumbersTyped'
  BY <1>2
<1>4. StillOpen' = StillOpen \ S
  BY <1>1, <1>2 DEF StillOpen
<1>5. OpenedFirst'
  BY <1>1, <1>2, <1>4 DEF OpenedFirst, StillOpen
<1>6. NumbersKept'
  <2>1. ~stray'
    BY <1>1, <1>2 DEF NumbersKept
  <2>2. ASSUME NEW k \in StillOpen' PROVE fds'[fd'[k]] = k
    BY <1>1, <1>2, <1>4 DEF NumbersKept, OpenedFirst
  <2>3. ASSUME NEW e \in Fds, fds'[e] \in Holders
        PROVE  fds'[e] \in StillOpen' /\ fd'[fds'[e]] = e
    <3>1. e \notin {fd[h] : h \in Unclosed(S)} /\ fds'[e] = fds[e]
      BY <1>2, <2>3, NameAssumption
    <3>2. fds[e] \in StillOpen /\ fd[fds[e]] = e
      BY <3>1, <2>3 DEF NumbersKept
    <3> QED BY <3>1, <3>2, <1>1, <1>2, <1>4
  <2> QED BY <2>1, <2>2, <2>3 DEF NumbersKept
<1> QED BY <1>3, <1>5, <1>6

(* A number goes from one who is no holder to another, or nothing changes. *)
LEMMA OtherKeeps ==
  ASSUME NumbersInv, NEW f \in Fds, NEW who \in {Free, Other, Lost},
         fds[f] \notin Holders,
         fds' = [fds EXCEPT ![f] = who] \/ fds' = fds,
         UNCHANGED <<stray, holder, clientStreamMap>>
  PROVE  NumbersInv'
<1> USE DEF NumbersInv, NumbersTyped, holder
<1>1. NumbersTyped' /\ StillOpen' = StillOpen
  BY DEF StillOpen
<1>2. OpenedFirst'
  BY <1>1 DEF OpenedFirst
<1>3. NumbersKept'
  <2>0. who \notin Holders
    BY NameAssumption
  <2>1. ASSUME NEW k \in StillOpen PROVE fds'[fd[k]] = k
    <3>1. fds[fd[k]] = k /\ fd[k] \in Fds /\ k \in Holders
      BY DEF NumbersKept, OpenedFirst, StillOpen
    <3>2. fd[k] # f
      BY <3>1
    <3> QED BY <3>1, <3>2
  <2>2. ASSUME NEW e \in Fds, fds'[e] \in Holders
        PROVE  fds'[e] \in StillOpen /\ fd[fds'[e]] = e
    <3>1. fds'[e] = fds[e]
      BY <2>0, <2>2
    <3> QED BY <3>1, <2>2 DEF NumbersKept
  <2> QED BY <1>1, <2>1, <2>2 DEF NumbersKept
<1> QED BY <1>1, <1>2, <1>3

LEMMA SameKeeps ==
  ASSUME NumbersInv, UNCHANGED <<numbers, holder, clientStreamMap>>
  PROVE  NumbersInv'
BY DEF NumbersInv, NumbersTyped, OpenedFirst, NumbersKept, StillOpen, holder,
       numbers

-----------------------------------------------------------------------------
(* At first nothing is open. *)
LEMMA InitNumbersInv == Init => NumbersInv
BY NameAssumption DEF Init, NumbersInv, NumbersTyped, OpenedFirst, NumbersKept,
                      StillOpen

(* Every call keeps the invariant. *)
LEMMA NextNumbersInv == NumbersInv /\ [Next]_vars => NumbersInv'
<1> SUFFICES ASSUME NumbersInv, [Next]_vars PROVE NumbersInv'
  OBVIOUS
<1>0. clientStreamMap \in [0..Ids-1 -> Conns \cup {NoConn}]
  BY DEF NumbersInv, NumbersTyped
<1>1. ASSUME CtxCall PROVE NumbersInv'
  BY <1>1, SameKeeps DEF CtxCall, SslCreate, SslCreateFails, SslFree, map
<1>2. ASSUME ClientCall PROVE NumbersInv'
  <2> PICK k \in Conns : \/ \E c \in Ctxs \cup {NoCtx}, f \in Fds :
                              ClientCreate(k, c, f)
                         \/ ClientClose(k) \/ ClientDestroy(k)
    BY <1>2 DEF ClientCall
  <2>0. k \in Holders
    BY DEF Holders
  <2>1. ASSUME NEW c \in Ctxs \cup {NoCtx}, NEW f \in Fds, ClientCreate(k, c, f)
        PROVE  NumbersInv'
    BY <2>0, <2>1, <1>0, OpenKeeps DEF ClientCreate, map
  <2>2. ASSUME ClientClose(k) PROVE NumbersInv'
    BY <2>0, <2>2, <1>0, CloseKeeps DEF ClientClose, map
  <2>3. ASSUME ClientDestroy(k) PROVE NumbersInv'
    BY <2>0, <2>3, <1>0, CloseKeeps DEF ClientDestroy, map
  <2> QED BY <2>1, <2>2, <2>3
<1>3. ASSUME FailedCall PROVE NumbersInv'
  BY <1>3, OtherKeeps, NameAssumption
     DEF FailedCall, ClientCreateFails, OpenNumber, map
<1>4. ASSUME ServerCall PROVE NumbersInv'
  <2>0. Server \in Holders /\ InServer \subseteq Holders
    BY <1>0 DEF Holders, InServer, Mapped
  <2>1. ASSUME NEW c \in Ctxs \cup {NoCtx}, NEW f \in Fds, ServerCreate(c, f)
        PROVE  NumbersInv'
    BY <2>0, <2>1, <1>0, OpenKeeps DEF ServerCreate, map
  <2>2. ASSUME ServerClose PROVE NumbersInv'
    BY <2>0, <2>2, <1>0, CloseKeeps DEF ServerClose, map
  <2>3. ASSUME ServerDestroy PROVE NumbersInv'
    BY <2>0, <2>3, CloseKeeps DEF ServerDestroy, InServer
  <2>4. ASSUME NEW k \in Conns, NEW f \in Fds, Accept(k, f) PROVE NumbersInv'
    <3>1. k \in Holders /\ clientStreamMap' \in [0..Ids-1 -> Conns \cup {NoConn}]
      BY <2>4, <1>0 DEF Accept, Holders
    <3> QED BY <3>1, <2>4, OpenKeeps DEF Accept
  <2>5. ASSUME NEW i \in 0..Ids-1, CloseClient(i) PROVE NumbersInv'
    <3> DEFINE k == clientStreamMap[i]
    <3>1. k \in Holders /\ clientStreamMap' \in [0..Ids-1 -> Conns \cup {NoConn}]
      BY <2>5, <1>0 DEF CloseClient, Holders
    <3> QED BY <3>1, <2>5, CloseKeeps DEF CloseClient
  <2> QED BY <1>4, <2>1, <2>2, <2>3, <2>4, <2>5 DEF ServerCall
<1>5. ASSUME StreamCall PROVE NumbersInv'
  <2> PICK k \in Conns : \/ StreamClose(k) \/ StreamDestroy(k)
                         \/ SerialCreate(k) \/ SerialDestroy(k)
    BY <1>5 DEF StreamCall
  <2>1. ASSUME StreamClose(k) PROVE NumbersInv'
    BY <2>1, <1>0, CloseKeeps DEF StreamClose, map, Holders
  <2>2. ASSUME StreamDestroy(k) \/ SerialCreate(k) \/ SerialDestroy(k)
        PROVE  NumbersInv'
    BY <2>2, SameKeeps DEF StreamDestroy, SerialCreate, SerialDestroy, map
  <2> QED BY <2>1, <2>2
<1>6. ASSUME OtherCall PROVE NumbersInv'
  BY <1>6, OtherKeeps, NameAssumption
     DEF OtherCall, OtherOpens, OtherCloses, OpenNumber, map
<1>7. ASSUME UNCHANGED vars PROVE NumbersInv'
  BY <1>7, SameKeeps DEF vars, map
<1> QED BY <1>1, <1>2, <1>3, <1>4, <1>5, <1>6, <1>7 DEF Next

-----------------------------------------------------------------------------
(* Whatever the program closes, destroys and opens again, in any order,    *)
(* tcp_streambuf::close and tcp_server::close hit their own number and     *)
(* never another's, and nobody loses its number before it is closed.       *)
THEOREM CApiNumbersKept == Spec => []NumbersKept
<1>1. NumbersInv => NumbersKept
  BY DEF NumbersInv
<1> QED BY <1>1, InitNumbersInv, NextNumbersInv, PTL DEF Spec

-----------------------------------------------------------------------------
(* Who owns a connection: the tcp_client of a handle, or the server, with  *)
(* a handle to every connection it ever accepted.                          *)
HandlesTyped == /\ client \in [Conns -> {"none", "live", "destroyed"}]
                /\ stream \in [Conns -> {"none", "live", "destroyed"}]
HandlesInv ==
  /\ HandlesTyped
  /\ \A k \in Conns :
       /\ client[k] = "none" \/ stream[k] = "none"
       /\ life[k] = "none" <=> client[k] = "none" /\ stream[k] = "none"
       /\ client[k] = "live" => life[k] = "live"
       /\ stream[k] # "none" => life[Server] # "none"
       /\ stream[k] # "none" /\ k \notin dismissed /\ life[Server] = "live"
            => life[k] = "live"
       /\ k \in serials => client[k] # "none" \/ stream[k] # "none"
  /\ \A i \in 0..Ids-1 :
       clientStreamMap[i] # NoConn => stream[clientStreamMap[i]] # "none"

LEMMA InitHandlesInv == Init => HandlesInv
BY DEF Init, HandlesInv, HandlesTyped, Holders

(* A close that destroys nobody leaves all lives as they are. *)
LEMMA CloseLives ==
  ASSUME NumbersTyped, NEW S, NEW freed, NEW Gone \in SUBSET Holders,
         Close(S, freed, Gone)
  PROVE  /\ \A h \in Holders : life'[h] = IF h \in Gone THEN "gone" ELSE life[h]
         /\ Gone = {} => life' = life
<1>1. life' = [h \in Holders |-> IF h \in Gone THEN "gone" ELSE life[h]]
  BY DEF Close
<1>2. life = [h \in Holders |-> life[h]]
  BY DEF NumbersTyped
<1>3. Gone = {} => life' = life
  BY <1>1, <1>2
<1> QED BY <1>1, <1>3

LEMMA HandlesSame ==
  ASSUME HandlesInv, life' = life,
         UNCHANGED <<client, stream, dismissed, serials, clientStreamMap>>
  PROVE  HandlesInv'
BY DEF HandlesInv, HandlesTyped

LEMMA NextHandlesInv ==
  ASSUME NumbersInv, HandlesInv, [Next]_vars
  PROVE  HandlesInv'
<1>0. /\ NumbersTyped /\ HandlesTyped
      /\ life \in [Holders -> {"none", "live", "gone"}]
      /\ clientStreamMap \in [0..Ids-1 -> Conns \cup {NoConn}]
  BY DEF NumbersInv, NumbersTyped, HandlesInv
<1>h. Server \in Holders /\ Conns \subseteq Holders /\ Server \notin Conns
  BY NameAssumption DEF Holders
<1>c. Mapped \subseteq Conns
  BY <1>0 DEF Mapped
<1>1. CASE CtxCall
  BY <1>1, HandlesSame DEF CtxCall, SslCreate, SslCreateFails, SslFree, map,
                           handles, holder
<1>2. ASSUME ClientCall PROVE HandlesInv'
  <2> PICK k \in Conns : \/ \E c \in Ctxs \cup {NoCtx}, f \in Fds :
                              ClientCreate(k, c, f)
                         \/ ClientClose(k) \/ ClientDestroy(k)
    BY <1>2 DEF ClientCall
  <2>1. ASSUME NEW c \in Ctxs \cup {NoCtx}, NEW f \in Fds, ClientCreate(k, c, f)
        PROVE  HandlesInv'
    <3>1. /\ life[k] = "none" /\ life' = [life EXCEPT ![k] = "live"]
          /\ client' = [client EXCEPT ![k] = "live"]
          /\ UNCHANGED <<stream, dismissed, serials, clientStreamMap>>
      BY <2>1 DEF ClientCreate, Open, map
    <3> QED BY <1>0, <1>h, <3>1 DEF HandlesInv, HandlesTyped
  <2>2. ASSUME ClientClose(k) PROVE HandlesInv'
    <3>1. life' = life
      BY <1>0, <2>2, CloseLives DEF ClientClose
    <3> QED BY <2>2, <3>1, HandlesSame DEF ClientClose, map, handles
  <2>3. ASSUME ClientDestroy(k) PROVE HandlesInv'
    <3>1. {k} \in SUBSET Holders
      BY <1>h
    <3>2. \A h \in Holders : life'[h] = IF h = k THEN "gone" ELSE life[h]
      BY <1>0, <2>3, <3>1, CloseLives DEF ClientDestroy
    <3>3. /\ client[k] = "live" /\ client' = [client EXCEPT ![k] = "destroyed"]
          /\ UNCHANGED <<stream, dismissed, serials, clientStreamMap>>
      BY <2>3 DEF ClientDestroy, map
    <3> QED BY <1>0, <1>h, <3>2, <3>3 DEF HandlesInv, HandlesTyped
  <2> QED BY <2>1, <2>2, <2>3
<1>3. CASE FailedCall
  BY <1>3, HandlesSame DEF FailedCall, ClientCreateFails, map, handles, holder
<1>4. ASSUME ServerCall PROVE HandlesInv'
  <2>1. ASSUME NEW c \in Ctxs \cup {NoCtx}, NEW f \in Fds, ServerCreate(c, f)
        PROVE  HandlesInv'
    <3>1. /\ life[Server] = "none" /\ life' = [life EXCEPT ![Server] = "live"]
          /\ UNCHANGED <<client, stream, dismissed, serials, clientStreamMap>>
      BY <2>1 DEF ServerCreate, Open, map, handles
    <3> QED BY <1>0, <1>h, <3>1 DEF HandlesInv, HandlesTyped
  <2>2. ASSUME ServerClose PROVE HandlesInv'
    <3>1. life' = life
      BY <1>0, <2>2, CloseLives DEF ServerClose
    <3> QED BY <2>2, <3>1, HandlesSame DEF ServerClose, map, handles
  <2>3. ASSUME ServerDestroy PROVE HandlesInv'
    <3>1. {Server} \cup Mapped \in SUBSET Holders
      BY <1>h, <1>c
    <3>2. \A h \in Holders : life'[h] = IF h = Server \/ h \in Mapped THEN "gone"
                                        ELSE life[h]
      BY <1>0, <2>3, <3>1, CloseLives DEF ServerDestroy
    <3>3. /\ life[Server] = "live"
          /\ clientStreamMap' = [i \in 0..Ids-1 |-> NoConn]
          /\ UNCHANGED <<client, stream, dismissed, serials>>
      BY <2>3 DEF ServerDestroy, handles
    <3>4. \A k \in Mapped : stream[k] # "none"
      BY DEF HandlesInv, Mapped
    <3> QED BY <1>0, <1>h, <1>c, <3>2, <3>3, <3>4 DEF HandlesInv, HandlesTyped
  <2>4. ASSUME NEW k \in Conns, NEW f \in Fds, Accept(k, f) PROVE HandlesInv'
    <3>1. /\ life[k] = "none" /\ life[Server] = "live"
          /\ life' = [life EXCEPT ![k] = "live"]
          /\ stream' = [stream EXCEPT ![k] = "live"]
          /\ clientStreamMap' = [clientStreamMap EXCEPT ![totalClients'] = k]
          /\ UNCHANGED <<client, dismissed, serials>>
      BY <2>4 DEF Accept, Accepting, Open
    <3> QED BY <1>0, <1>h, <3>1 DEF HandlesInv, HandlesTyped
  <2>5. ASSUME NEW i \in 0..Ids-1, CloseClient(i) PROVE HandlesInv'
    <3> DEFINE k == clientStreamMap[i]
    <3>0. k \in Conns /\ stream[k] # "none"
      BY <1>0, <2>5 DEF CloseClient, HandlesInv
    <3>1. {k} \in SUBSET Holders
      BY <1>h, <3>0
    <3>2. \A h \in Holders : life'[h] = IF h = k THEN "gone" ELSE life[h]
      BY <1>0, <2>5, <3>1, CloseLives DEF CloseClient
    <3>3. /\ clientStreamMap' = [clientStreamMap EXCEPT ![i] = NoConn]
          /\ dismissed' = dismissed \cup {k}
          /\ UNCHANGED <<client, stream, serials>>
      BY <2>5 DEF CloseClient, handles
    <3> HIDE DEF k
    <3> QED BY <1>0, <1>h, <3>0, <3>2, <3>3 DEF HandlesInv, HandlesTyped
  <2> QED BY <1>4, <2>1, <2>2, <2>3, <2>4, <2>5 DEF ServerCall
<1>5. ASSUME StreamCall PROVE HandlesInv'
  <2> PICK k \in Conns : \/ StreamClose(k) \/ StreamDestroy(k)
                         \/ SerialCreate(k) \/ SerialDestroy(k)
    BY <1>5 DEF StreamCall
  <2>1. ASSUME StreamClose(k) PROVE HandlesInv'
    <3>1. life' = life
      BY <1>0, <2>1, CloseLives DEF StreamClose
    <3> QED BY <2>1, <3>1, HandlesSame DEF StreamClose, map, handles
  <2>2. ASSUME StreamDestroy(k) PROVE HandlesInv'
    <3>1. /\ stream[k] = "live" /\ stream' = [stream EXCEPT ![k] = "destroyed"]
          /\ UNCHANGED <<life, client, dismissed, serials, clientStreamMap>>
      BY <2>2 DEF StreamDestroy, holder, map
    <3> QED BY <1>0, <1>h, <3>1 DEF HandlesInv, HandlesTyped
  <2>3. ASSUME SerialCreate(k) \/ SerialDestroy(k) PROVE HandlesInv'
    <3>1. /\ \/ serials' = serials \cup {k} /\ (client[k] # "none" \/ stream[k] # "none")
             \/ serials' = serials \ {k}
          /\ UNCHANGED <<life, client, stream, dismissed, clientStreamMap>>
      BY <2>3 DEF SerialCreate, SerialDestroy, holder, map
    <3> QED BY <1>0, <1>h, <3>1 DEF HandlesInv, HandlesTyped
  <2> QED BY <2>1, <2>2, <2>3
<1>6. CASE OtherCall
  BY <1>6, HandlesSame DEF OtherCall, OtherOpens, OtherCloses, map, handles, holder
<1>7. CASE UNCHANGED vars
  BY <1>7, HandlesSame DEF vars, map, handles, holder
<1> QED BY <1>1, <1>2, <1>3, <1>4, <1>5, <1>6, <1>7 DEF Next

(* A handle to an accepted stream, and a Serial over a connection, never   *)
(* outlive it but when the server is destroyed, that connection is closed  *)
(* by its id, or the client is destroyed.                                  *)
THEOREM CApiStreamsAlive == Spec => []StreamsAlive
<1>1. HandlesInv => StreamsAlive
  BY DEF HandlesInv, HandlesTyped, StreamsAlive
<1>2. NumbersInv /\ HandlesInv /\ [Next]_vars => NumbersInv' /\ HandlesInv'
  BY NextNumbersInv, NextHandlesInv
<1> QED BY <1>1, <1>2, InitNumbersInv, InitHandlesInv, PTL DEF Spec

-----------------------------------------------------------------------------
(* Contexts: one is made before it is used, and given away at most once,   *)
(* so that neither a client nor the server holds one that was freed.       *)
CtxTyped == /\ refs \in [Ctxs -> Nat] /\ lost \in [Ctxs -> Nat]
            /\ ctx \in [Ctxs -> {"none", "live", "freed"}]
            /\ taken \subseteq Ctxs
            /\ ssl \in [Holders -> Ctxs \cup {NoCtx}]
            /\ ssl_ctx \in [Holders -> Ctxs \cup {NoCtx}]
MadeFirst ==
  \A c \in Ctxs : ctx[c] = "none" =>
    /\ lost[c] = 0
    /\ \A h \in Holders : ssl[h] # c /\ ssl_ctx[h] # c
TakenOnce ==
  /\ \A c \in taken : ctx[c] = "live"
  /\ \A k \in Conns : client[k] = "live" => ssl_ctx[k] \in taken \cup {NoCtx}
  /\ Accepting /\ ssl_ctx[Server] # NoCtx
       => ctx[ssl_ctx[Server]] = "live" /\ ssl_ctx[Server] \notin taken
CtxInv == CtxTyped /\ MadeFirst /\ TakenOnce /\ ContextsCounted

(* Those that Owning and Using count. *)
Owners(c) == {k \in Conns : client[k] = "live" /\ ssl_ctx[k] = c}
Users(c) == {h \in StillOpen : ssl[h] = c}
Handle(c) == IF ctx[c] = "live" /\ c \notin taken THEN 1 ELSE 0

LEMMA Finite ==
  /\ IsFiniteSet(Conns) /\ IsFiniteSet(Holders)
  /\ \A c : IsFiniteSet(Owners(c)) /\ IsFiniteSet(Users(c))
<1>1. IsFiniteSet(Conns)
  BY NumberAssumption
<1>2. IsFiniteSet(Holders)
  BY <1>1, FS_AddElement DEF Holders
<1>3. \A c : Owners(c) \subseteq Conns /\ Users(c) \subseteq Holders
  BY DEF Owners, Users, StillOpen
<1>4. ASSUME NEW c PROVE IsFiniteSet(Owners(c)) /\ IsFiniteSet(Users(c))
  BY <1>1, <1>2, <1>3, FS_Subset
<1> QED BY <1>1, <1>2, <1>4

LEMMA Counts ==
  ASSUME NEW c
  PROVE  /\ Owning(c) = Handle(c) + Cardinality(Owners(c))
         /\ Using(c) = Cardinality(Users(c))
         /\ Handle(c) \in {0, 1}
         /\ Cardinality(Owners(c)) \in Nat /\ Cardinality(Users(c)) \in Nat
         /\ Owning(c) \in Nat /\ Using(c) \in Nat
<1>1. Owning(c) = Handle(c) + Cardinality(Owners(c))
  BY DEF Owning, Handle, Owners
<1>2. Using(c) = Cardinality(Users(c))
  BY DEF Using, Users
<1>3. Handle(c) \in {0, 1}
  BY DEF Handle
<1>4. Cardinality(Owners(c)) \in Nat /\ Cardinality(Users(c)) \in Nat
  BY Finite, FS_CardinalityType
<1> QED BY <1>1, <1>2, <1>3, <1>4

(* The SSLs that a close frees are no longer among those in use.           *)
LEMMA CloseCounts ==
  ASSUME NumbersTyped, CtxTyped, NEW S \in SUBSET Holders, NEW freed,
         NEW Gone \in SUBSET S, Close(S, freed, Gone), NEW c
  PROVE  LET D == Cardinality({h \in Unclosed(S) : ssl[h] = c})
         IN  D \in Nat /\ D <= Using(c) /\ Using(c)' = Using(c) - D
<1> DEFINE X == {h \in Unclosed(S) : ssl[h] = c}
<1>1. Unclosed(S) = StillOpen \cap S
  BY DEF Unclosed, StillOpen
<1>2. /\ life' = [h \in Holders |-> IF h \in Gone THEN "gone" ELSE life[h]]
      /\ closed' = [h \in Holders |-> closed[h] \/ h \in Unclosed(S)]
      /\ ssl' = ssl
  BY DEF Close
<1>3. StillOpen' = StillOpen \ S
  BY <1>1, <1>2 DEF StillOpen, NumbersTyped
<1>4. Users(c)' = Users(c) \ X /\ X \subseteq Users(c)
  BY <1>1, <1>2, <1>3 DEF Users
<1>5. IsFiniteSet(Users(c))
  BY Finite
<1> HIDE DEF X
<1>6. IsFiniteSet(X) /\ Cardinality(X) <= Cardinality(Users(c))
  BY <1>4, <1>5, FS_Subset
<1>7. Cardinality(X) \in Nat /\ Cardinality(Users(c)) \in Nat
  BY <1>5, <1>6, FS_CardinalityType
<1>8. Cardinality(Users(c) \ X) = Cardinality(Users(c)) - Cardinality(X)
  <2>1. Users(c) \cap X = X
    BY <1>4
  <2>2. Cardinality(Users(c) \ X)
          = Cardinality(Users(c)) - Cardinality(Users(c) \cap X)
    BY <1>5, FS_Difference
  <2> QED BY <2>1, <2>2
<1>9. Using(c) = Cardinality(Users(c)) /\ Using(c)' = Cardinality(Users(c)')
  BY DEF Using, Users
<1> QED BY <1>4, <1>6, <1>7, <1>8, <1>9 DEF X

(* OpenSSL drops as many references as the count goes down by: none that   *)
(* are not there.                                                          *)
LEMMA ReleaseCounts ==
  ASSUME CtxTyped, ContextsCounted, NEW S, NEW freed \in Ctxs \cup {NoCtx},
         Release(S, freed), lost' = lost,
         \A c \in Ctxs :
           LET D == Cardinality({h \in Unclosed(S) : ssl[h] = c})
           IN  D \in Nat /\ D <= Using(c) /\ Using(c)' = Using(c) - D,
         \A c \in Ctxs : c # freed => Owning(c)' = Owning(c),
         freed \in Ctxs => Owning(freed) >= 1 /\ Owning(freed)' = Owning(freed) - 1
  PROVE  ContextsCounted' /\ refs' \in [Ctxs -> Nat]
<1>1. ASSUME NEW c \in Ctxs
      PROVE  /\ Dropped(S, freed, c) <= refs[c]
             /\ refs[c] - Dropped(S, freed, c) = Owning(c)' + Using(c)' + lost'[c]
             /\ refs[c] - Dropped(S, freed, c) \in Nat
  <2> DEFINE D == Cardinality({h \in Unclosed(S) : ssl[h] = c})
             o == IF c = freed THEN 1 ELSE 0
  <2>1. Dropped(S, freed, c) = D + o
    BY DEF Dropped
  <2>2. D \in Nat /\ D <= Using(c) /\ Using(c)' = Using(c) - D
    OBVIOUS
  <2>3. o \in {0, 1} /\ o <= Owning(c) /\ Owning(c)' = Owning(c) - o
    BY Counts
  <2>4. /\ refs[c] = Owning(c) + Using(c) + lost[c] /\ lost[c] \in Nat
        /\ Owning(c) \in Nat /\ Using(c) \in Nat
    BY Counts DEF ContextsCounted, CtxTyped
  <2> HIDE DEF D, o
  <2>5. lost'[c] = lost[c]
    OBVIOUS
  <2>6. \A x, y, z, d, e, r, a, b \in Nat :
          d <= y /\ e <= x /\ a = x - e /\ b = y - d /\ r = x + y + z
            => d + e <= r /\ r - (d + e) = a + b + z /\ r - (d + e) \in Nat
    OBVIOUS
  <2>7. /\ Owning(c)' \in Nat /\ Using(c)' \in Nat /\ refs[c] \in Nat /\ o \in Nat
    BY <2>2, <2>3, <2>4
  <2>8. D + o <= refs[c] /\ refs[c] - (D + o) = Owning(c)' + Using(c)' + lost[c]
        /\ refs[c] - (D + o) \in Nat
    BY <2>2, <2>3, <2>4, <2>6, <2>7
  <2> QED BY <2>1, <2>5, <2>8
<1>2. /\ refs' = [c \in Ctxs |-> IF Dropped(S, freed, c) > refs[c] THEN 0
                                 ELSE refs[c] - Dropped(S, freed, c)]
      /\ touched' = touched \cup {c \in Ctxs : Dropped(S, freed, c) > refs[c]}
  BY DEF Release
<1>3. \A c \in Ctxs : ~(Dropped(S, freed, c) > refs[c])
  <2> TAKE c \in Ctxs
  <2>1. refs[c] \in Nat
    BY DEF CtxTyped
  <2> DEFINE d == Dropped(S, freed, c)
  <2>2. refs[c] - d \in Nat /\ d \in Int
    <3>1. \E x \in Nat : d = x
      <4>1. Cardinality({h \in Unclosed(S) : ssl[h] = c}) \in Nat
        OBVIOUS
      <4>2. \A x \in Nat : x + (IF c = freed THEN 1 ELSE 0) \in Nat
        OBVIOUS
      <4>3. Dropped(S, freed, c) \in Nat
        BY <4>1, <4>2 DEF Dropped
      <4> QED BY <4>3
    <3> QED BY <1>1, <3>1
  <2>3. d <= refs[c]
    BY <1>1
  <2> HIDE DEF d
  <2>4. ~(d > refs[c])
    BY <2>1, <2>2, <2>3
  <2> QED BY <2>4 DEF d
<1>4. touched' = {}
  BY <1>2, <1>3 DEF ContextsCounted
<1>5. \A c \in Ctxs : refs'[c] = refs[c] - Dropped(S, freed, c)
  BY <1>2, <1>3
<1>6. refs' \in [Ctxs -> Nat]
  <2>1. refs' = [c \in Ctxs |-> refs'[c]]
    BY <1>2, Zenon
  <2>2. \A c \in Ctxs : refs'[c] \in Nat
    BY <1>1, <1>5
  <2> QED BY <2>1, <2>2, Zenon
<1>7. \A c \in Ctxs : refs'[c] = Owning(c)' + Using(c)' + lost'[c]
  BY <1>1, <1>5
<1> QED BY <1>4, <1>6, <1>7 DEF ContextsCounted

(* A reference is only taken to a context that is there. *)
LEMMA NewCounts ==
  ASSUME CtxTyped, ContextsCounted, NEW c \in Ctxs \cup {NoCtx}, SSL_new(c),
         c # NoCtx => Owning(c) >= 1,
         lost' \in [Ctxs -> Nat],
         \A d \in Ctxs :
           Owning(d)' + Using(d)' + lost'[d]
             = (Owning(d) + Using(d) + lost[d]) + (IF d = c THEN 1 ELSE 0)
  PROVE  ContextsCounted' /\ refs' \in [Ctxs -> Nat]
<1>1. \A d \in Ctxs : refs[d] = Owning(d) + Using(d) + lost[d] /\ refs[d] \in Nat
  BY DEF ContextsCounted, CtxTyped
<1>2. CASE c = NoCtx
  <2>1. refs' = refs /\ touched' = touched
    BY <1>2 DEF SSL_new, counts
  <2>2. \A d \in Ctxs : d # c
    BY <1>2, NameAssumption
  <2>3. \A d \in Ctxs : refs'[d] = Owning(d)' + Using(d)' + lost'[d]
    <3> TAKE d \in Ctxs
    <3>1. Owning(d)' + Using(d)' + lost'[d] = (Owning(d) + Using(d) + lost[d]) + 0
      BY <2>2
    <3> QED BY <1>1, <2>1, <3>1
  <2> QED BY <2>1, <2>3 DEF ContextsCounted, CtxTyped
<1>3. CASE c # NoCtx
  <2>1. c \in Ctxs
    BY <1>3
  <2>2. /\ refs' = [refs EXCEPT ![c] = @ + 1]
        /\ touched' = touched \cup {d \in {c} : refs[d] = 0}
    BY <1>3 DEF SSL_new
  <2>3. refs[c] # 0
    <3>1. Owning(c) \in Nat /\ Using(c) \in Nat /\ lost[c] \in Nat /\ Owning(c) >= 1
      BY <1>3, <2>1, Counts DEF CtxTyped
    <3> QED BY <1>1, <2>1, <3>1
  <2>4. touched' = {}
    BY <2>2, <2>3 DEF ContextsCounted
  <2>5. refs' \in [Ctxs -> Nat]
    BY <2>1, <2>2 DEF CtxTyped
  <2>6. \A d \in Ctxs : refs'[d] = refs[d] + (IF d = c THEN 1 ELSE 0)
    BY <1>1, <2>1, <2>2 DEF CtxTyped
  <2>7. \A d \in Ctxs : refs'[d] = Owning(d)' + Using(d)' + lost'[d]
    BY <1>1, <2>6
  <2> QED BY <2>4, <2>5, <2>7 DEF ContextsCounted
<1> QED BY <1>2, <1>3

LEMMA OwningStays ==
  ASSUME UNCHANGED <<ctx, taken, client>>,
         \A k \in Conns : client[k] = "live" => ssl_ctx'[k] = ssl_ctx[k]
  PROVE  \A c : Owning(c)' = Owning(c)
<1> TAKE c
<1>1. Owners(c)' = Owners(c) /\ Handle(c)' = Handle(c)
  BY DEF Owners, Handle
<1>2. /\ Owning(c) = Handle(c) + Cardinality(Owners(c))
      /\ Owning(c)' = Handle(c)' + Cardinality(Owners(c)')
  BY DEF Owning, Handle, Owners
<1> QED BY <1>1, <1>2

LEMMA UsingStays ==
  ASSUME UNCHANGED holder
  PROVE  \A c : Using(c)' = Using(c)
BY DEF Using, StillOpen, holder

(* A new holder's SSL is one more in use. *)
LEMMA OpenCounts ==
  ASSUME NumbersInv, CtxTyped, NEW h \in Holders, NEW f, NEW c \in Ctxs \cup {NoCtx},
         NEW g, life[h] = "none", Open(h, f, c, g), NEW d \in Ctxs
  PROVE  Using(d)' = Using(d) + (IF d = c THEN 1 ELSE 0)
<1>1. /\ life' = [life EXCEPT ![h] = "live"] /\ closed' = closed
      /\ ssl' = [ssl EXCEPT ![h] = c]
  BY DEF Open
<1>2. StillOpen' = StillOpen \cup {h} /\ h \notin StillOpen
  BY <1>1 DEF StillOpen, NumbersInv, NumbersTyped, OpenedFirst
<1>3. \A e \in StillOpen : ssl'[e] = ssl[e]
  BY <1>1, <1>2 DEF CtxTyped, StillOpen
<1>4. ssl'[h] = c
  BY <1>1 DEF CtxTyped
<1>5. /\ Using(d) = Cardinality(Users(d)) /\ Using(d)' = Cardinality(Users(d)')
      /\ IsFiniteSet(Users(d)) /\ Cardinality(Users(d)) \in Nat
  BY Finite, FS_CardinalityType DEF Using, Users
<1>6. CASE d = c
  <2>1. Users(d)' = Users(d) \cup {h} /\ h \notin Users(d)
    BY <1>2, <1>3, <1>4, <1>6 DEF Users
  <2>2. Cardinality(Users(d) \cup {h}) = Cardinality(Users(d)) + 1
    BY <1>5, <2>1, FS_AddElement
  <2> QED BY <1>5, <1>6, <2>1, <2>2
<1>7. CASE d # c
  <2>1. Users(d)' = Users(d)
    BY <1>2, <1>3, <1>4, <1>7 DEF Users
  <2> QED BY <1>5, <1>7, <2>1
<1> QED BY <1>6, <1>7

(* Calls that leave the contexts alone, but for what a close gives back.   *)
LEMMA CtxClose ==
  ASSUME NumbersInv, CtxInv, NEW S \in SUBSET Holders, NEW Gone \in SUBSET S,
         Close(S, NoCtx, Gone), UNCHANGED <<ctx, taken, lost, client>>
  PROVE  CtxInv'
<1> USE DEF CtxInv
<1>1. UNCHANGED <<fd, ssl, ssl_ctx>> /\ Release(S, NoCtx)
  BY DEF Close
<1>2. NumbersTyped /\ NoCtx \notin Ctxs
  BY NameAssumption DEF NumbersInv
<1>3. \A c : Owning(c)' = Owning(c)
  BY <1>1, OwningStays
<1>4. \A c \in Ctxs :
        LET D == Cardinality({h \in Unclosed(S) : ssl[h] = c})
        IN  D \in Nat /\ D <= Using(c) /\ Using(c)' = Using(c) - D
  BY <1>2, CloseCounts
<1>5. ContextsCounted' /\ refs' \in [Ctxs -> Nat]
  BY <1>1, <1>2, <1>3, <1>4, ReleaseCounts
<1>6. CtxTyped' /\ MadeFirst'
  BY <1>1, <1>5 DEF CtxTyped, MadeFirst
<1>7. Accepting' => Accepting
  <2>1. Server \in Holders
    BY DEF Holders
  <2> QED BY <1>2, <2>1 DEF Close, Accepting, NumbersTyped
<1>8. TakenOnce'
  BY <1>1, <1>7 DEF TakenOnce
<1> QED BY <1>5, <1>6, <1>8

LEMMA CtxSame ==
  ASSUME CtxInv, UNCHANGED <<refs, touched, holder, ctx, taken, lost, client>>
  PROVE  CtxInv'
BY DEF CtxInv, CtxTyped, MadeFirst, TakenOnce, ContextsCounted, Accepting,
       Owning, Using, StillOpen, holder

-----------------------------------------------------------------------------
(* One lemma for each call that moves references about.                    *)
LEMMA UsableIs ==
  ASSUME CtxInv, NEW c \in Usable
  PROVE  /\ c \in Ctxs \cup {NoCtx}
         /\ c # NoCtx => /\ c \in Ctxs /\ ctx[c] = "live" /\ c \notin taken
                         /\ Owning(c) >= 1
         /\ Accepting /\ c # NoCtx => ssl_ctx[Server] # c
<1>1. c \in Ctxs \cup {NoCtx}
  BY DEF Usable
<1>2. c # NoCtx => c \in Ctxs /\ ctx[c] = "live" /\ c \notin taken
  BY DEF Usable, Claimed
<1>3. c # NoCtx => Owning(c) >= 1
  <2> SUFFICES ASSUME c # NoCtx PROVE Owning(c) >= 1
    OBVIOUS
  <2>1. Handle(c) = 1
    BY <1>2 DEF Handle
  <2> QED BY <2>1, Counts
<1>4. Accepting /\ c # NoCtx => ssl_ctx[Server] # c
  BY <1>2 DEF Usable, Claimed
<1> QED BY <1>1, <1>2, <1>3, <1>4

LEMMA SslCreateKeeps ==
  ASSUME CtxInv, NEW c \in Ctxs, SslCreate(c)
  PROVE  CtxInv'
<1> USE DEF CtxInv
<1>1. /\ ctx[c] = "none" /\ ctx' = [ctx EXCEPT ![c] = "live"]
      /\ refs' = [refs EXCEPT ![c] = 1]
      /\ UNCHANGED <<touched, taken, lost, client>>
      /\ UNCHANGED <<life, fd, closed, ssl, ssl_ctx>> /\ UNCHANGED holder
  BY DEF SslCreate, handles, holder
<1>2. CtxTyped'
  BY <1>1 DEF CtxTyped
<1>3. MadeFirst'
  BY <1>1 DEF MadeFirst, CtxTyped
<1>4. TakenOnce'
  BY <1>1 DEF TakenOnce, CtxTyped, Accepting
<1>5. c \notin taken
  BY <1>1 DEF TakenOnce
<1>6. ASSUME NEW d \in Ctxs, d # c
      PROVE  refs'[d] = Owning(d)' + Using(d)' + lost'[d]
  <2>1. Owners(d)' = Owners(d) /\ Handle(d)' = Handle(d)
    BY <1>1, <1>6 DEF Owners, Handle, CtxTyped
  <2>2. /\ Owning(d) = Handle(d) + Cardinality(Owners(d))
        /\ Owning(d)' = Handle(d)' + Cardinality(Owners(d)')
    BY DEF Owning, Handle, Owners
  <2>3. Using(d)' = Using(d) /\ lost'[d] = lost[d] /\ refs'[d] = refs[d]
    BY <1>1, <1>6, UsingStays DEF CtxTyped
  <2> QED BY <2>1, <2>2, <2>3 DEF ContextsCounted
<1>7. refs'[c] = Owning(c)' + Using(c)' + lost'[c]
  <2>1. Users(c)' = {} /\ Owners(c)' = {}
    <3>1. \A h \in Holders : ssl[h] # c /\ ssl_ctx[h] # c
      BY <1>1 DEF MadeFirst
    <3> QED BY <1>1, <3>1 DEF Users, Owners, StillOpen, Holders
  <2>2. Handle(c)' = 1
    BY <1>1, <1>5 DEF Handle, CtxTyped
  <2>3. /\ Owning(c)' = Handle(c)' + Cardinality(Owners(c)')
        /\ Using(c)' = Cardinality(Users(c)')
    BY DEF Owning, Handle, Owners, Using, Users
  <2>4. lost'[c] = 0 /\ refs'[c] = 1
    BY <1>1 DEF MadeFirst, CtxTyped
  <2>5. Cardinality({}) = 0
    BY FS_EmptySet
  <2> QED BY <2>1, <2>2, <2>3, <2>4, <2>5
<1>8. ContextsCounted'
  BY <1>1, <1>6, <1>7 DEF ContextsCounted
<1> QED BY <1>2, <1>3, <1>4, <1>8

LEMMA SslFreeKeeps ==
  ASSUME CtxInv, NEW c \in Ctxs, SslFree(c)
  PROVE  CtxInv'
<1> USE DEF CtxInv
<1>1. /\ ctx' = [ctx EXCEPT ![c] = "freed"] /\ Release({}, c)
      /\ UNCHANGED <<taken, lost, client>>
      /\ UNCHANGED <<life, fd, closed, ssl, ssl_ctx>> /\ UNCHANGED holder
  BY DEF SslFree, handles, holder
<1>2. c # NoCtx /\ ctx[c] = "live" /\ c \notin taken /\ Owning(c) >= 1
  BY UsableIs, NameAssumption DEF SslFree
<1>3. Accepting => ssl_ctx[Server] # c
  BY <1>2, UsableIs DEF SslFree
<1>4. \A d \in Ctxs :
        LET D == Cardinality({h \in Unclosed({}) : ssl[h] = d})
        IN  D \in Nat /\ D <= Using(d) /\ Using(d)' = Using(d) - D
  <2> TAKE d \in Ctxs
  <2>1. {h \in Unclosed({}) : ssl[h] = d} = {}
    BY DEF Unclosed
  <2>2. Cardinality({}) = 0
    BY FS_EmptySet
  <2>3. Using(d)' = Using(d) /\ Using(d) \in Nat
    BY <1>1, UsingStays, Counts
  <2> QED BY <2>1, <2>2, <2>3
<1>5. ASSUME NEW d \in Ctxs
      PROVE  Owning(d)' = Owning(d) - (IF d = c THEN 1 ELSE 0)
  <2>1. Owners(d)' = Owners(d)
    BY <1>1 DEF Owners
  <2>2. Handle(d)' = Handle(d) - (IF d = c THEN 1 ELSE 0)
    <3>1. CASE d = c
      BY <1>1, <1>2, <3>1 DEF Handle, CtxTyped
    <3>2. CASE d # c
      <4>1. Handle(d)' = Handle(d)
        BY <1>1, <3>2 DEF Handle, CtxTyped
      <4> QED BY <3>2, <4>1, Counts
    <3> QED BY <3>1, <3>2
  <2>3. /\ Owning(d) = Handle(d) + Cardinality(Owners(d))
        /\ Owning(d)' = Handle(d)' + Cardinality(Owners(d)')
    BY DEF Owning, Handle, Owners
  <2>4. Handle(d) \in {0, 1} /\ Cardinality(Owners(d)) \in Nat
    BY Counts
  <2> QED BY <2>1, <2>2, <2>3, <2>4
<1>6. /\ \A d \in Ctxs : d # c => Owning(d)' = Owning(d)
      /\ Owning(c)' = Owning(c) - 1
  BY <1>5, Counts
<1>7. ContextsCounted' /\ refs' \in [Ctxs -> Nat]
  BY <1>1, <1>2, <1>4, <1>6, ReleaseCounts
<1>8. CtxTyped' /\ MadeFirst'
  BY <1>1, <1>2, <1>7 DEF CtxTyped, MadeFirst
<1>9. TakenOnce'
  BY <1>1, <1>2, <1>3 DEF TakenOnce, CtxTyped, Accepting
<1> QED BY <1>7, <1>8, <1>9

(* The context passes from its handle to the client: the count of owners   *)
(* is the same, and that of its SSLs one higher.                           *)
LEMMA ClientCreateKeeps ==
  ASSUME NumbersInv, HandlesInv, CtxInv, NEW k \in Conns,
         NEW c \in Ctxs \cup {NoCtx}, NEW f \in Fds, ClientCreate(k, c, f)
  PROVE  CtxInv'
<1> USE DEF CtxInv
<1>1. /\ life[k] = "none" /\ c \in Usable
      /\ Open(k, f, c, c) /\ SSL_new(c)
      /\ client' = [client EXCEPT ![k] = "live"]
      /\ taken' = taken \cup ({c} \ {NoCtx})
      /\ UNCHANGED <<ctx, lost>>
      /\ life' = [life EXCEPT ![k] = "live"] /\ closed' = closed
      /\ ssl' = [ssl EXCEPT ![k] = c] /\ ssl_ctx' = [ssl_ctx EXCEPT ![k] = c]
  BY DEF ClientCreate, Open
<1>2. k \in Holders /\ k # Server /\ Server \in Holders /\ client[k] = "none"
      /\ Conns \subseteq Holders /\ NoCtx \notin Ctxs
  BY <1>1, NameAssumption DEF Holders, HandlesInv, HandlesTyped
<1>3. /\ c # NoCtx => /\ c \in Ctxs /\ ctx[c] = "live" /\ c \notin taken
                      /\ Owning(c) >= 1
      /\ Accepting /\ c # NoCtx => ssl_ctx[Server] # c
  BY <1>1, UsableIs
<1>4. ASSUME NEW d \in Ctxs
      PROVE  Owning(d)' = Owning(d)
  <2>1. /\ Owning(d) = Handle(d) + Cardinality(Owners(d))
        /\ Owning(d)' = Handle(d)' + Cardinality(Owners(d)')
    BY DEF Owning, Handle, Owners
  <2>2. CASE d = c
    <3>0. c # NoCtx /\ c \in Ctxs
      BY <1>2, <2>2
    <3>1. Handle(d) = 1 /\ Handle(d)' = 0
      BY <1>1, <1>3, <2>2, <3>0 DEF Handle
    <3>2. Owners(d)' = Owners(d) \cup {k} /\ k \notin Owners(d)
      BY <1>1, <1>2, <2>2 DEF Owners, CtxTyped, HandlesInv, HandlesTyped
    <3>3. Cardinality(Owners(d) \cup {k}) = Cardinality(Owners(d)) + 1
      BY <3>2, Finite, FS_AddElement
    <3>4. Cardinality(Owners(d)) \in Nat
      BY Counts
    <3> QED BY <2>1, <3>1, <3>2, <3>3, <3>4
  <2>3. CASE d # c
    <3>1. Owners(d)' = Owners(d)
      BY <1>1, <1>2, <2>3 DEF Owners, CtxTyped, HandlesInv, HandlesTyped
    <3>2. Handle(d)' = Handle(d)
      BY <1>1, <2>3 DEF Handle
    <3> QED BY <2>1, <3>1, <3>2
  <2> QED BY <2>2, <2>3
<1>5. ASSUME NEW d \in Ctxs
      PROVE  Owning(d)' + Using(d)' + lost'[d]
               = (Owning(d) + Using(d) + lost[d]) + (IF d = c THEN 1 ELSE 0)
  <2>1. Using(d)' = Using(d) + (IF d = c THEN 1 ELSE 0)
    BY <1>1, <1>2, OpenCounts
  <2>2. Owning(d) \in Nat /\ Using(d) \in Nat /\ lost[d] \in Nat
    BY Counts DEF CtxTyped
  <2> QED BY <1>1, <1>4, <2>1, <2>2
<1>6. lost' \in [Ctxs -> Nat]
  BY <1>1 DEF CtxTyped
<1>7. ContextsCounted' /\ refs' \in [Ctxs -> Nat]
  BY <1>1, <1>3, <1>5, <1>6, NewCounts
<1>8. CtxTyped'
  BY <1>1, <1>2, <1>3, <1>7 DEF CtxTyped
<1>9. MadeFirst'
  BY <1>1, <1>2, <1>3 DEF MadeFirst, CtxTyped
<1>10. Accepting' = Accepting /\ ssl_ctx'[Server] = ssl_ctx[Server]
  BY <1>1, <1>2 DEF Accepting, CtxTyped, NumbersInv, NumbersTyped
<1>11. TakenOnce'
  <2>1. \A d \in taken' : ctx'[d] = "live"
    BY <1>1, <1>3 DEF TakenOnce
  <2>2. \A j \in Conns : client'[j] = "live" => ssl_ctx'[j] \in taken' \cup {NoCtx}
    BY <1>1, <1>2 DEF TakenOnce, CtxTyped, HandlesInv, HandlesTyped
  <2>3. Accepting' /\ ssl_ctx'[Server] # NoCtx
          => ctx'[ssl_ctx'[Server]] = "live" /\ ssl_ctx'[Server] \notin taken'
    BY <1>1, <1>3, <1>10 DEF TakenOnce
  <2> QED BY <2>1, <2>2, <2>3 DEF TakenOnce
<1> QED BY <1>7, <1>8, <1>9, <1>11

LEMMA ClientCreateFailsKeeps ==
  ASSUME CtxInv, NEW c \in Ctxs \cup {NoCtx}, NEW f \in Fds, ClientCreateFails(c, f)
  PROVE  CtxInv'
<1> USE DEF CtxInv
<1>1. /\ c \in Usable /\ SSL_new(c)
      /\ lost' = [d \in Ctxs |-> IF d = c THEN lost[d] + 1 ELSE lost[d]]
      /\ UNCHANGED <<ctx, taken, client, life, closed, ssl, ssl_ctx>>
      /\ UNCHANGED holder
  BY DEF ClientCreateFails, holder, handles
<1>2. c # NoCtx => c \in Ctxs /\ ctx[c] = "live" /\ Owning(c) >= 1
  BY <1>1, UsableIs
<1>3. lost' \in [Ctxs -> Nat]
  BY <1>1 DEF CtxTyped
<1>4. ASSUME NEW d \in Ctxs
      PROVE  Owning(d)' + Using(d)' + lost'[d]
               = (Owning(d) + Using(d) + lost[d]) + (IF d = c THEN 1 ELSE 0)
  <2>1. Owning(d)' = Owning(d) /\ Using(d)' = Using(d)
    BY <1>1, OwningStays, UsingStays
  <2>2. Owning(d) \in Nat /\ Using(d) \in Nat /\ lost[d] \in Nat
    BY Counts DEF CtxTyped
  <2>3. lost'[d] = lost[d] + (IF d = c THEN 1 ELSE 0)
    BY <1>1, <2>2
  <2> QED BY <2>1, <2>2, <2>3
<1>5. ContextsCounted' /\ refs' \in [Ctxs -> Nat]
  BY <1>1, <1>2, <1>3, <1>4, NewCounts
<1>6. CtxTyped' /\ MadeFirst'
  <2>1. CtxTyped'
    BY <1>1, <1>3, <1>5 DEF CtxTyped
  <2>2. \A d \in Ctxs : ctx[d] = "none" => lost'[d] = lost[d]
    BY <1>1, <1>2, NameAssumption
  <2> QED BY <1>1, <2>1, <2>2 DEF MadeFirst
<1>7. TakenOnce'
  BY <1>1 DEF TakenOnce, Accepting
<1> QED BY <1>5, <1>6, <1>7

LEMMA ClientDestroyKeeps ==
  ASSUME NumbersInv, HandlesInv, CtxInv, NEW k \in Conns, ClientDestroy(k)
  PROVE  CtxInv'
<1> USE DEF CtxInv
<1>0. PICK c \in Ctxs \cup {NoCtx} : c = ssl_ctx[k]
  BY DEF CtxTyped, Holders
<1>1. /\ client[k] = "live" /\ Close({k}, c, {k})
      /\ client' = [client EXCEPT ![k] = "destroyed"]
      /\ UNCHANGED <<ctx, taken, lost, ssl, ssl_ctx, fd>>
      /\ Release({k}, c)
  BY <1>0 DEF ClientDestroy, FreedBy, given, Close
<1>2. {k} \in SUBSET Holders /\ NumbersTyped
      /\ Server \in Holders /\ k \in Holders
  BY DEF Holders, NumbersInv
<1>3. \A d \in Ctxs :
        LET D == Cardinality({h \in Unclosed({k}) : ssl[h] = d})
        IN  D \in Nat /\ D <= Using(d) /\ Using(d)' = Using(d) - D
  BY <1>1, <1>2, CloseCounts
<1>4. ASSUME NEW d \in Ctxs
      PROVE  /\ Owning(d) = Handle(d) + Cardinality(Owners(d))
             /\ Owning(d)' = Handle(d) + Cardinality(Owners(d)')
  <2>1. Handle(d)' = Handle(d)
    BY <1>1 DEF Handle
  <2> QED BY <2>1 DEF Owning, Handle, Owners
<1>5. ASSUME NEW d \in Ctxs, d # c
      PROVE  Owning(d)' = Owning(d)
  <2>1. Owners(d)' = Owners(d)
    BY <1>0, <1>1, <1>5 DEF Owners, HandlesInv, HandlesTyped
  <2> QED BY <1>4, <2>1
<1>6. ASSUME c \in Ctxs
      PROVE  Owning(c) >= 1 /\ Owning(c)' = Owning(c) - 1
  <2>1. Owners(c)' = Owners(c) \ {k} /\ k \in Owners(c)
    BY <1>0, <1>1 DEF Owners, HandlesInv, HandlesTyped
  <2>2. Cardinality(Owners(c) \ {k}) = Cardinality(Owners(c)) - 1
    BY <2>1, Finite, FS_RemoveElement
  <2>3. /\ Cardinality(Owners(c)) \in Nat /\ Handle(c) \in {0, 1}
        /\ Cardinality(Owners(c) \ {k}) \in Nat
    <3>1. IsFiniteSet(Owners(c) \ {k})
      BY <2>1, Finite, FS_RemoveElement
    <3> QED BY <3>1, Counts, FS_CardinalityType
  <2>4. Cardinality(Owners(c)') = Cardinality(Owners(c)) - 1
    BY <2>1, <2>2
  <2>5. Cardinality(Owners(c)) >= 1
    BY <2>2, <2>3
  <2>6. \A h, x, y, o, p \in Int :
          h >= 0 /\ x >= 1 /\ y = x - 1 /\ o = h + x /\ p = h + y
            => o >= 1 /\ p = o - 1
    OBVIOUS
  <2>7. /\ Owning(c) = Handle(c) + Cardinality(Owners(c))
        /\ Owning(c)' = Handle(c) + Cardinality(Owners(c)')
    BY <1>4, <1>6
  <2> QED BY <2>3, <2>4, <2>5, <2>6, <2>7
<1>7. ContextsCounted' /\ refs' \in [Ctxs -> Nat]
  <2>1. \A d \in Ctxs : d # c => Owning(d)' = Owning(d)
    BY <1>5
  <2>2. c \in Ctxs => Owning(c) >= 1 /\ Owning(c)' = Owning(c) - 1
    BY <1>6
  <2> QED BY <1>1, <1>2, <1>3, <2>1, <2>2, ReleaseCounts
<1>8. CtxTyped' /\ MadeFirst'
  BY <1>1, <1>7 DEF CtxTyped, MadeFirst
<1>9. Accepting' => Accepting
  BY <1>1, <1>2 DEF Close, Accepting, NumbersTyped
<1>10. TakenOnce'
  BY <1>1, <1>9 DEF TakenOnce, HandlesInv, HandlesTyped
<1> QED BY <1>7, <1>8, <1>10

LEMMA ServerCreateKeeps ==
  ASSUME NumbersInv, CtxInv, NEW c \in Ctxs \cup {NoCtx}, NEW f \in Fds,
         ServerCreate(c, f)
  PROVE  CtxInv'
<1> USE DEF CtxInv
<1>1. /\ life[Server] = "none" /\ c \in Usable /\ Open(Server, f, NoCtx, c)
      /\ UNCHANGED <<ctx, taken, lost, client, refs, touched>>
      /\ ssl' = [ssl EXCEPT ![Server] = NoCtx]
      /\ ssl_ctx' = [ssl_ctx EXCEPT ![Server] = c]
  BY DEF ServerCreate, Open, given, handles, counts
<1>2. Server \in Holders /\ Server \notin Conns /\ NoCtx \notin Ctxs
      /\ Conns \subseteq Holders
  BY NameAssumption DEF Holders
<1>3. c # NoCtx => c \in Ctxs /\ ctx[c] = "live" /\ c \notin taken
  BY <1>1, UsableIs
<1>4. CtxTyped' /\ MadeFirst'
  BY <1>1, <1>2, <1>3 DEF CtxTyped, MadeFirst
<1>5. \A j \in Conns : ssl_ctx'[j] = ssl_ctx[j]
  BY <1>1, <1>2 DEF CtxTyped
<1>6. ssl_ctx'[Server] = c
  BY <1>1, <1>2 DEF CtxTyped
<1>7. TakenOnce'
  BY <1>1, <1>3, <1>5, <1>6 DEF TakenOnce
<1>8. ASSUME NEW d \in Ctxs
      PROVE  refs'[d] = Owning(d)' + Using(d)' + lost'[d]
  <2>1. Owning(d)' = Owning(d)
    BY <1>1, <1>5, OwningStays
  <2>2. Using(d)' = Using(d) + (IF d = NoCtx THEN 1 ELSE 0)
    BY <1>1, <1>2, OpenCounts
  <2>3. Using(d)' = Using(d)
    BY <1>2, <2>2, Counts
  <2> QED BY <1>1, <2>1, <2>3 DEF ContextsCounted
<1>9. ContextsCounted'
  BY <1>1, <1>8 DEF ContextsCounted
<1> QED BY <1>4, <1>7, <1>9

LEMMA AcceptKeeps ==
  ASSUME NumbersInv, HandlesInv, CtxInv, NEW k \in Conns, NEW f \in Fds, Accept(k, f)
  PROVE  CtxInv'
<1> USE DEF CtxInv
<1> DEFINE c == ssl_ctx[Server]
<1>1. /\ Accepting /\ life[k] = "none" /\ Open(k, f, c, NoCtx) /\ SSL_new(c)
      /\ UNCHANGED <<ctx, taken, lost, client>>
      /\ life' = [life EXCEPT ![k] = "live"] /\ closed' = closed
      /\ ssl' = [ssl EXCEPT ![k] = c] /\ ssl_ctx' = [ssl_ctx EXCEPT ![k] = NoCtx]
  BY DEF Accept, Open, given
<1>2. k \in Holders /\ k # Server /\ Server \in Holders /\ client[k] = "none"
      /\ Conns \subseteq Holders /\ c \in Ctxs \cup {NoCtx}
  BY <1>1, NameAssumption DEF Holders, HandlesInv, HandlesTyped, CtxTyped
<1>3. c # NoCtx => c \in Ctxs /\ ctx[c] = "live" /\ c \notin taken
  BY <1>1, <1>2 DEF TakenOnce
<1>4. ssl_ctx'[Server] = c /\ Accepting' = Accepting
  BY <1>1, <1>2 DEF CtxTyped, Accepting, NumbersInv, NumbersTyped
<1> HIDE DEF c
<1>5. c # NoCtx => Owning(c) >= 1
  <2> SUFFICES ASSUME c # NoCtx PROVE Owning(c) >= 1
    OBVIOUS
  <2>1. Handle(c) = 1
    BY <1>3 DEF Handle
  <2> QED BY <2>1, Counts
<1>6. \A d : Owning(d)' = Owning(d)
  <2>1. \A j \in Conns : client[j] = "live" => ssl_ctx'[j] = ssl_ctx[j]
    BY <1>1, <1>2 DEF CtxTyped
  <2> QED BY <1>1, <2>1, OwningStays
<1>7. ASSUME NEW d \in Ctxs
      PROVE  Owning(d)' + Using(d)' + lost'[d]
               = (Owning(d) + Using(d) + lost[d]) + (IF d = c THEN 1 ELSE 0)
  <2>1. Using(d)' = Using(d) + (IF d = c THEN 1 ELSE 0)
    BY <1>1, <1>2, OpenCounts
  <2>2. Owning(d) \in Nat /\ Using(d) \in Nat /\ lost[d] \in Nat
    BY Counts DEF CtxTyped
  <2> QED BY <1>1, <1>6, <2>1, <2>2
<1>8. lost' \in [Ctxs -> Nat]
  BY <1>1 DEF CtxTyped
<1>9. ContextsCounted' /\ refs' \in [Ctxs -> Nat]
  BY <1>1, <1>2, <1>5, <1>7, <1>8, NewCounts
<1>10. CtxTyped'
  BY <1>1, <1>2, <1>9 DEF CtxTyped
<1>11. MadeFirst'
  BY <1>1, <1>2, <1>3, NameAssumption DEF MadeFirst, CtxTyped
<1>12. TakenOnce'
  <2>1. \A j \in Conns : client'[j] = "live" => ssl_ctx'[j] \in taken' \cup {NoCtx}
    BY <1>1, <1>2 DEF TakenOnce, CtxTyped
  <2> QED BY <1>1, <1>3, <1>4, <2>1 DEF TakenOnce
<1> QED BY <1>9, <1>10, <1>11, <1>12

-----------------------------------------------------------------------------
LEMMA InitCtxInv == Init => CtxInv
<1> SUFFICES ASSUME Init PROVE CtxInv
  OBVIOUS
<1>1. CtxTyped /\ MadeFirst /\ TakenOnce
  BY NameAssumption DEF Init, CtxTyped, MadeFirst, TakenOnce, Accepting, Holders
<1>2. ASSUME NEW c \in Ctxs
      PROVE  refs[c] = Owning(c) + Using(c) + lost[c]
  <2>1. Users(c) = {} /\ Owners(c) = {} /\ Handle(c) = 0
    BY DEF Init, Users, Owners, Handle, StillOpen
  <2>2. Cardinality({}) = 0
    BY FS_EmptySet
  <2>3. Owning(c) = 0 /\ Using(c) = 0
    BY <2>1, <2>2, Counts
  <2> QED BY <2>3 DEF Init
<1> QED BY <1>1, <1>2 DEF Init, CtxInv, ContextsCounted

LEMMA NextCtxInv ==
  ASSUME NumbersInv, HandlesInv, CtxInv, [Next]_vars
  PROVE  CtxInv'
<1>h. Server \in Holders /\ Conns \subseteq Holders /\ Mapped \subseteq Holders
  BY DEF Holders, Mapped, NumbersInv, NumbersTyped
<1>1. CASE CtxCall
  <2>1. CASE SslCreateFails
    BY <2>1, CtxSame DEF SslCreateFails, counts, handles
  <2> QED BY <1>1, <2>1, SslCreateKeeps, SslFreeKeeps DEF CtxCall
<1>2. ASSUME ClientCall PROVE CtxInv'
  <2> PICK k \in Conns : \/ \E c \in Ctxs \cup {NoCtx}, f \in Fds :
                              ClientCreate(k, c, f)
                         \/ ClientClose(k) \/ ClientDestroy(k)
    BY <1>2 DEF ClientCall
  <2>1. ASSUME ClientClose(k) PROVE CtxInv'
    <3>1. {k} \in SUBSET Holders /\ {} \in SUBSET {k}
      BY <1>h
    <3> QED BY <2>1, <3>1, CtxClose DEF ClientClose, given, handles
  <2> QED BY <2>1, ClientCreateKeeps, ClientDestroyKeeps
<1>3. CASE FailedCall
  BY <1>3, ClientCreateFailsKeeps DEF FailedCall
<1>4. ASSUME ServerCall PROVE CtxInv'
  <2>1. ASSUME ServerClose PROVE CtxInv'
    <3>1. {Server} \in SUBSET Holders /\ {} \in SUBSET {Server}
      BY <1>h
    <3> QED BY <2>1, <3>1, CtxClose DEF ServerClose, given, handles
  <2>2. ASSUME ServerDestroy PROVE CtxInv'
    <3>1. InServer \in SUBSET Holders /\ {Server} \cup Mapped \in SUBSET InServer
      BY <1>h DEF InServer
    <3> QED BY <2>2, <3>1, CtxClose DEF ServerDestroy, given, handles
  <2>3. ASSUME NEW i \in 0..Ids-1, CloseClient(i) PROVE CtxInv'
    <3> DEFINE k == clientStreamMap[i]
    <3>1. {k} \in SUBSET Holders /\ {k} \in SUBSET {k}
      BY <1>h, <2>3 DEF CloseClient, Mapped
    <3> QED BY <2>3, <3>1, CtxClose DEF CloseClient, given, handles
  <2> QED BY <1>4, <2>1, <2>2, <2>3, ServerCreateKeeps, AcceptKeeps DEF ServerCall
<1>5. ASSUME StreamCall PROVE CtxInv'
  <2> PICK k \in Conns : \/ StreamClose(k) \/ StreamDestroy(k)
                         \/ SerialCreate(k) \/ SerialDestroy(k)
    BY <1>5 DEF StreamCall
  <2>1. ASSUME StreamClose(k) PROVE CtxInv'
    <3>1. {k} \in SUBSET Holders /\ {} \in SUBSET {k}
      BY <1>h
    <3> QED BY <2>1, <3>1, CtxClose DEF StreamClose, given, handles
  <2>2. ASSUME StreamDestroy(k) \/ SerialCreate(k) \/ SerialDestroy(k)
        PROVE  CtxInv'
    BY <2>2, CtxSame DEF StreamDestroy, SerialCreate, SerialDestroy, counts, given
  <2> QED BY <2>1, <2>2
<1>6. CASE OtherCall
  BY <1>6, CtxSame DEF OtherCall, OtherOpens, OtherCloses, counts, given, handles
<1>7. CASE UNCHANGED vars
  BY <1>7, CtxSame DEF vars, counts, given, handles
<1> QED BY <1>1, <1>2, <1>3, <1>4, <1>5, <1>6, <1>7 DEF Next

(* OpenSSL's count of each context is that of its owner and of the SSLs    *)
(* not freed yet, so that io_ssl_free and ~tcp_client never free one       *)
(* twice, nor does SSL_new take one that was freed, nor is one left over.  *)
THEOREM CApiContextsCounted == Spec => []ContextsCounted
<1>1. CtxInv => ContextsCounted
  BY DEF CtxInv
<1>2. NumbersInv /\ HandlesInv /\ CtxInv /\ [Next]_vars
        => NumbersInv' /\ HandlesInv' /\ CtxInv'
  BY NextNumbersInv, NextHandlesInv, NextCtxInv
<1> QED BY <1>1, <1>2, InitNumbersInv, InitHandlesInv, InitCtxInv, PTL DEF Spec

-----------------------------------------------------------------------------
(* The ssl_factory.  Only these objects are ever made for a call, and what *)
(* each of the calls gives back is enough wherever it stands in its row.   *)
Made == All \cup {"ctx", "certificate"}

LEMMA ClientRow == DOMAIN Client = 1..1 /\ Len(Client) = 1 /\ Client[1] = NewContext
BY DEF Client

LEMMA SelfSignedRow ==
  /\ DOMAIN SelfSigned = 1..8 /\ Len(SelfSigned) = 8
  /\ SelfSigned[1] = NewContext
  /\ SelfSigned[2] = Cleanup({"bne"}, {})
  /\ SelfSigned[3] = Cleanup({"rsa"}, {})
  /\ SelfSigned[4] = Cleanup({"pkey"}, {"rsa"})
  /\ SelfSigned[5] = Cleanup({"x509"}, {})
  /\ SelfSigned[6] = Cleanup({"certBio", "keyBio"}, {})
  /\ SelfSigned[7] = Cleanup({}, {})
  /\ SelfSigned[8] = Throws({}, {"certificate"}, All, {})
BY DEF SelfSigned

LEMMA FromPemRow ==
  /\ DOMAIN FromPem = 1..6 /\ Len(FromPem) = 6
  /\ FromPem[1] = NewContext
  /\ FromPem[2] = Throws({}, {"x509"}, {}, {"ctx"})
  /\ FromPem[3] = Throws({}, {"certificate"}, {}, {"x509", "ctx"})
  /\ FromPem[4] = Throws({}, {"pkey"}, {}, {"x509", "ctx"})
  /\ FromPem[5] = Throws({}, {}, {}, {"pkey", "x509", "ctx"})
  /\ FromPem[6] = Throws({}, {}, {"pkey", "x509"}, {"pkey", "x509", "ctx"})
BY DEF FromPem

LEMMA SelfSignedMakes ==
  ASSUME NEW i \in DOMAIN SelfSigned
  PROVE  SelfSigned[i].makes \cup SelfSigned[i].gives \subseteq Made
<1>1. i = 1 \/ i = 2 \/ i = 3 \/ i = 4 \/ i = 5 \/ i = 6 \/ i = 7 \/ i = 8
  BY SelfSignedRow
<1> QED BY <1>1, SelfSignedRow DEF NewContext, Throws, Cleanup, Made, All

(* What there is before a call was made by a call up to it, and not given  *)
(* back by one before it.                                                  *)
LEMMA BeforeIs ==
  ASSUME NEW calls, NEW k \in Nat \ {0}, NEW x \in Before(calls, k)
  PROVE  \/ \E i \in 1..k-1 : x \in calls[i].makes \cup calls[i].gives
         \/ k \in DOMAIN calls /\ x \in calls[k].makes
BY DEF Before

LEMMA NotBefore ==
  ASSUME NEW calls, NEW k \in Nat \ {0}, NEW i \in 1..k-1, NEW x \in calls[i].drops,
         k \notin DOMAIN calls
  PROVE  x \notin Before(calls, k)
<1> DEFINE made == UNION {calls[j].makes \cup calls[j].gives : j \in 1..k-1}
           given_back == UNION {calls[j].drops : j \in 1..k-1}
<1>1. x \in given_back
  OBVIOUS
<1>2. Before(calls, k) = (made \ given_back)
                         \cup (IF k \in DOMAIN calls THEN calls[k].makes ELSE {})
  BY Zenon DEF Before
<1> HIDE DEF made, given_back
<1> QED BY <1>1, <1>2

(* createClient leaves only its context.                                   *)
LEMMA ClientClean ==
  ASSUME NEW k \in 0..1
  PROVE  Debris(Client, k) = {}
<1>1. CASE k = 0
  <2>1. ASSUME NEW x \in Before(Client, 2) PROVE x = "ctx"
    <3>1. 2 \notin DOMAIN Client /\ 2 \in Nat \ {0} /\ 2 - 1 = 1
      BY ClientRow
    <3>2. PICK i \in 1..1 : x \in Client[i].makes \cup Client[i].gives
      BY <3>1, BeforeIs
    <3>3. i = 1
      BY <3>2
    <3> QED BY <3>2, <3>3, ClientRow DEF NewContext, Throws
  <2>2. After(Client, 0) = Before(Client, 2) /\ Returns(Client, 0)
    BY ClientRow DEF After, Returns
  <2> QED BY <1>1, <2>1, <2>2 DEF Debris
<1>2. CASE k = 1
  <2>1. ASSUME NEW x \in Before(Client, 1) PROVE FALSE
    <3>1. Client[1].makes = {} /\ 1..1-1 = {}
      BY ClientRow DEF NewContext, Throws
    <3> QED BY <3>1, BeforeIs
  <2>2. After(Client, 1) = {}
    BY <2>1 DEF After
  <2> QED BY <1>2, <2>2 DEF Debris
<1> QED BY <1>1, <1>2

(* createServer() reaches its cleanup with nothing that this does not give *)
(* back; only its last call throws.                                        *)
LEMMA SelfSignedClean ==
  ASSUME NEW k \in 0..7
  PROVE  Debris(SelfSigned, k) = {}
<1>1. CASE k = 0
  <2>1. ASSUME NEW x \in Before(SelfSigned, 9) PROVE x \in {"ctx", "certificate"}
    <3>1. 9 \notin DOMAIN SelfSigned /\ 9 \in Nat \ {0} /\ 8 \in 1..9-1
      BY SelfSignedRow
    <3>2. PICK i \in 1..9-1 : x \in SelfSigned[i].makes \cup SelfSigned[i].gives
      BY <3>1, BeforeIs
    <3>3. i \in DOMAIN SelfSigned
      BY <3>2, SelfSignedRow
    <3>4. x \in Made
      BY <3>2, <3>3, SelfSignedMakes
    <3>5. SelfSigned[8].drops = All
      BY SelfSignedRow DEF Throws
    <3>6. x \notin All
      BY <3>1, <3>5, NotBefore
    <3> QED BY <3>4, <3>6 DEF Made
  <2>2. After(SelfSigned, 0) = Before(SelfSigned, 9) /\ Returns(SelfSigned, 0)
    BY SelfSignedRow DEF After, Returns
  <2> QED BY <1>1, <2>1, <2>2 DEF Debris
<1>2. CASE k = 1
  <2>1. ASSUME NEW x \in Before(SelfSigned, 1) PROVE FALSE
    <3>1. SelfSigned[1].makes = {} /\ 1..1-1 = {}
      BY SelfSignedRow DEF NewContext, Throws
    <3> QED BY <3>1, BeforeIs
  <2>2. After(SelfSigned, 1) = {}
    BY <2>1 DEF After
  <2> QED BY <1>2, <2>2 DEF Debris
<1>3. CASE k \in 2..7
  <2>1. k \in DOMAIN SelfSigned /\ k \in Nat \ {0} /\ k # 0
    BY <1>3, SelfSignedRow
  <2>2. SelfSigned[k].frees = All /\ SelfSigned[k].returns
    <3>1. k = 2 \/ k = 3 \/ k = 4 \/ k = 5 \/ k = 6 \/ k = 7
      BY <1>3
    <3> QED BY <3>1, SelfSignedRow DEF Cleanup
  <2>3. ASSUME NEW x \in Before(SelfSigned, k) PROVE x \in Made
    <3>1. 1..k-1 \subseteq DOMAIN SelfSigned
      BY <1>3, SelfSignedRow
    <3>2. \E i \in DOMAIN SelfSigned :
             x \in SelfSigned[i].makes \cup SelfSigned[i].gives
      BY <2>1, <3>1, BeforeIs
    <3> QED BY <3>2, SelfSignedMakes
  <2>4. Returns(SelfSigned, k)
    BY <2>1, <2>2 DEF Returns
  <2>5. After(SelfSigned, k) \subseteq {"ctx", "certificate"}
    BY <2>1, <2>2, <2>3 DEF After, Made
  <2> QED BY <2>4, <2>5 DEF Debris
<1> QED BY <1>1, <1>2, <1>3

(* createServer(cert, key) gives back what it has made wherever it fails.  *)
LEMMA FromPemClean ==
  ASSUME NEW k \in 0..6
  PROVE  Debris(FromPem, k) = {}
<1> DEFINE Pem == {"ctx", "x509", "certificate", "pkey"}
<1>1. \A i \in 1..6 : FromPem[i].makes = {} /\ FromPem[i].gives \subseteq Pem
  <2> TAKE i \in 1..6
  <2>1. i = 1 \/ i = 2 \/ i = 3 \/ i = 4 \/ i = 5 \/ i = 6
    OBVIOUS
  <2> QED BY <2>1, FromPemRow DEF NewContext, Throws
<1>2. ASSUME NEW j \in 1..7, NEW x \in Before(FromPem, j)
      PROVE  x \in Pem /\ \E i \in 1..j-1 : x \in FromPem[i].gives
  <2>1. j \in Nat \ {0} /\ 1..j-1 \subseteq 1..6
    OBVIOUS
  <2>2. ~(j \in DOMAIN FromPem /\ x \in FromPem[j].makes)
    BY <1>1, FromPemRow
  <2>3. PICK i \in 1..j-1 : x \in FromPem[i].makes \cup FromPem[i].gives
    BY <2>1, <2>2, BeforeIs
  <2> QED BY <1>1, <2>1, <2>3
<1>3. CASE k = 0
  <2>1. 7 \notin DOMAIN FromPem /\ 7 \in Nat \ {0} /\ 6 \in 1..7-1
    BY FromPemRow
  <2>2. FromPem[6].drops = {"pkey", "x509"}
    BY FromPemRow DEF Throws
  <2>3. "pkey" \notin Before(FromPem, 7) /\ "x509" \notin Before(FromPem, 7)
    BY <2>1, <2>2, NotBefore
  <2>4. Before(FromPem, 7) \subseteq {"ctx", "certificate"}
    BY <1>2, <2>3
  <2>5. After(FromPem, 0) = Before(FromPem, 7) /\ Returns(FromPem, 0)
    BY FromPemRow DEF After, Returns
  <2> QED BY <1>3, <2>4, <2>5 DEF Debris
<1>4. CASE k \in 1..6
  <2>1. Before(FromPem, k) \ FromPem[k].frees \subseteq {"certificate"}
    <3>1. CASE k = 1
      <4>1. 1..1-1 = {}
        OBVIOUS
      <4> QED BY <1>2, <3>1, <4>1
    <3>2. CASE k = 2
      <4>1. \A i \in 1..2-1 : FromPem[i].gives = {"ctx"}
        BY FromPemRow DEF NewContext, Throws
      <4>2. FromPem[2].frees = {"ctx"}
        BY FromPemRow DEF Throws
      <4> QED BY <1>2, <3>2, <4>1, <4>2
    <3>3. CASE k = 3
      <4>1. \A i \in 1..3-1 : i = 1 \/ i = 2
        OBVIOUS
      <4>2. \A i \in 1..3-1 : FromPem[i].gives \subseteq {"ctx", "x509"}
        BY <4>1, FromPemRow DEF NewContext, Throws
      <4>3. FromPem[3].frees = {"x509", "ctx"}
        BY FromPemRow DEF Throws
      <4> QED BY <1>2, <3>3, <4>2, <4>3
    <3>4. CASE k = 4
      <4>1. \A i \in 1..4-1 : i = 1 \/ i = 2 \/ i = 3
        OBVIOUS
      <4>2. \A i \in 1..4-1 : FromPem[i].gives \subseteq {"ctx", "x509", "certificate"}
        BY <4>1, FromPemRow DEF NewContext, Throws
      <4>3. FromPem[4].frees = {"x509", "ctx"}
        BY FromPemRow DEF Throws
      <4> QED BY <1>2, <3>4, <4>2, <4>3
    <3>5. CASE k = 5 \/ k = 6
      <4>1. FromPem[k].frees = {"pkey", "x509", "ctx"}
        BY <3>5, FromPemRow DEF Throws
      <4>2. k \in 1..7
        BY <3>5
      <4>3. Before(FromPem, k) \subseteq Pem
        BY <1>2, <4>2
      <4> QED BY <4>1, <4>3
    <3> QED BY <1>4, <3>1, <3>2, <3>3, <3>4, <3>5
  <2>2. After(FromPem, k) = {}
    BY <1>4, <2>1 DEF After
  <2> QED BY <2>2 DEF Debris
<1> QED BY <1>3, <1>4

(* Whatever call fails, the objects left are none, or those of the last    *)
(* call of createServer().                                                 *)
LEMMA LeftIs ==
  ASSUME NEW left \in LeftByMade \cup LeftByFailed
  PROVE  left \in {{}, Debris(SelfSigned, Len(SelfSigned))}
<1>1. PICK u \in Runs : left = Debris(u[1], u[2])
  BY DEF LeftByMade, LeftByFailed
<1>2. PICK calls \in {Client, SelfSigned, FromPem} : u \in {calls} \X (0..Len(calls))
  BY DEF Runs
<1>3. PICK k \in 0..Len(calls) : u[1] = calls /\ u[2] = k
  BY <1>2
<1>4. left = Debris(calls, k)
  BY <1>1, <1>3
<1>5. CASE calls = Client
  <2>1. k \in 0..1
    BY <1>5, ClientRow
  <2> QED BY <1>4, <1>5, <2>1, ClientClean
<1>6. CASE calls = SelfSigned
  <2>1. k \in 0..7 \/ k = Len(SelfSigned)
    BY <1>6, SelfSignedRow
  <2> QED BY <1>4, <1>6, <2>1, SelfSignedClean
<1>7. CASE calls = FromPem
  <2>1. k \in 0..6
    BY <1>7, FromPemRow
  <2> QED BY <1>4, <1>7, <2>1, FromPemClean
<1> QED BY <1>5, <1>6, <1>7

(* FactoryLeavesNothing holds for every run: whatever calls of OpenSSL     *)
(* fail, in however many contexts the program asks for                     *)
(* (ssl_factory::createClient and both of createServer).                   *)
THEOREM CApiFactoryLeavesNothing == Spec => []FactoryLeavesNothing
<1> DEFINE D == Debris(SelfSigned, Len(SelfSigned))
<1>1. Init => FactoryLeavesNothing
  BY DEF Init, FactoryLeavesNothing
<1>2. ASSUME FactoryLeavesNothing, [Next]_vars
      PROVE  FactoryLeavesNothing'
  <2>1. debris' = debris \/ \E left \in LeftByMade \cup LeftByFailed : debris' = debris \cup left
    <3>1. CASE UNCHANGED vars
      BY <3>1 DEF vars, given
    <3>2. CASE CtxCall
      <4>1. CASE SslCreateFails
        BY <4>1 DEF SslCreateFails
      <4>2. ASSUME NEW c \in Ctxs, SslCreate(c) \/ SslFree(c)
            PROVE  debris' = debris
                   \/ \E left \in LeftByMade \cup LeftByFailed : debris' = debris \cup left
        BY <4>2 DEF SslCreate, SslFree
      <4> QED BY <3>2, <4>1, <4>2 DEF CtxCall
    <3>3. CASE ClientCall \/ FailedCall
      BY <3>3 DEF ClientCall, FailedCall, ClientCreate, ClientClose, ClientDestroy,
                  ClientCreateFails, given
    <3>4. CASE ServerCall
      BY <3>4 DEF ServerCall, ServerCreate, ServerClose, ServerDestroy, Accept,
                  CloseClient, given
    <3>5. CASE StreamCall \/ OtherCall
      BY <3>5 DEF StreamCall, OtherCall, StreamClose, StreamDestroy, SerialCreate,
                  SerialDestroy, OtherOpens, OtherCloses, given
    <3> QED BY <1>2, <3>1, <3>2, <3>3, <3>4, <3>5 DEF Next
  <2>2. \A left \in LeftByMade \cup LeftByFailed : left \in {{}, D}
    BY LeftIs
  <2> HIDE DEF D
  <2>3. debris \in {{}, D}
    BY <1>2 DEF FactoryLeavesNothing, D
  <2>4. ASSUME NEW left \in {{}, D}
        PROVE  debris \cup left \in {{}, D}
    <3>1. (debris = {} \/ debris = D) /\ (left = {} \/ left = D)
      BY <2>3, <2>4
    <3> QED BY <3>1
  <2>5. debris' \in {{}, D}
    BY <2>1, <2>2, <2>3, <2>4
  <2> QED BY <2>5 DEF FactoryLeavesNothing, D
<1> QED BY <1>1, <1>2, PTL DEF Spec
==============================================================================
