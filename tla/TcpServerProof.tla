---------------------------- MODULE TcpServerProof ----------------------------
(***************************************************************************)
(* For any threads, clients and id width: the mutex keeps acceptOne and    *)
(* close apart.  The invariant ServerInv is shown to be preserved action   *)
(* by action; what is stated of select, accept and close follows from it.  *)
(***************************************************************************)
EXTENDS TcpServer, FiniteSetTheorems, TLAPS

(* The initial states: nobody is inside, and nothing has been closed.      *)
LEMMA InitServerInv == Init => ServerInv
  <1> SUFFICES ASSUME Init PROVE ServerInv
    OBVIOUS
  <1> USE DEF Init
  <1>0. Ids \in Nat /\ 0 \in 0..Ids-1
    BY IdAssumption
  <1>1. TypeOK
    <2>1. /\ mutex \in Threads \cup {NoThread} /\ fd_closed \in BOOLEAN
          /\ listener_closes \in Nat
          /\ backlog \subseteq arrived /\ arrived \subseteq Clients
          /\ totalClients \in 0..Ids-1
      BY IdAssumption
    <2>2. DOMAIN clientStreamMap = {}
      OBVIOUS
    <2>3. /\ stream \in [Clients -> {"none", "open", "destroyed"}]
          /\ pc \in [Threads -> {"idle", "lock", "select", "accept", "count",
                                 "store", "register", "closelock", "closing"}]
          /\ conn \in [Threads -> Clients \cup {NoClient}]
      OBVIOUS
    <2>4. id \in [Threads -> 0..Ids-1]
      BY <1>0
    <2>5. handed \subseteq (0..Ids-1) \X Clients /\ won \subseteq Closers
      OBVIOUS
    <2>6. QED BY <2>1, <2>2, <2>3, <2>4, <2>5 DEF TypeOK
  <1>2. Locked /\ InHand /\ CloseCounted
    BY DEF Locked, InHand, CloseCounted, Inside
  <1>3. WonAfterClose /\ ClosedOnce
    BY DEF WonAfterClose, ClosedOnce
  <1>4. QED BY <1>1, <1>2, <1>3 DEF ServerInv

(* Every step preserves it: whoever goes inside finds the mutex free, so   *)
(* nobody else is there; and only the thread that closes touches fd_closed *)
(* and the descriptor.                                                     *)
LEMMA NextServerInv == ServerInv /\ [Next]_vars => ServerInv'
  <1> SUFFICES ASSUME ServerInv, [Next]_vars PROVE ServerInv'
    OBVIOUS
  <1> USE ThreadAssumption, IdAssumption
  <1> USE DEF ServerInv, Threads, Goto, Quiet, count, table, kernel, Meets
  <1>1. ASSUME NEW c \in Clients, Arrive(c) \/ Reset(c) PROVE ServerInv'
    BY <1>1 DEF Arrive, Reset, TypeOK, Locked, CloseCounted, WonAfterClose,
                InHand, ClosedOnce
  <1>2. ASSUME NEW t \in Acceptors, AcceptCall(t) PROVE ServerInv'
    BY <1>2 DEF AcceptCall, TypeOK, Locked, CloseCounted, WonAfterClose,
                InHand, ClosedOnce, Inside
  <1>3. ASSUME NEW t \in Acceptors, AcceptLock(t) PROVE ServerInv'
    BY <1>3 DEF AcceptLock, TypeOK, Locked, CloseCounted, WonAfterClose,
                InHand, ClosedOnce, Inside
  <1>4. ASSUME NEW t \in Acceptors, SelectReady(t) PROVE ServerInv'
    BY <1>4 DEF SelectReady, TypeOK, Locked, CloseCounted, WonAfterClose,
                InHand, ClosedOnce, Inside
  <1>5. ASSUME NEW t \in Acceptors, SelectTimeout(t) \/ AcceptNone(t)
        PROVE  ServerInv'
    BY <1>5 DEF SelectTimeout, AcceptNone, TypeOK, Locked, CloseCounted,
                WonAfterClose, InHand, ClosedOnce, Inside
  <1>6. ASSUME NEW t \in Acceptors, NEW c \in Clients, AcceptTake(t, c)
        PROVE  ServerInv'
    BY <1>6 DEF AcceptTake, TypeOK, Locked, CloseCounted, WonAfterClose,
                InHand, ClosedOnce, Inside
  <1>7. ASSUME NEW t \in Acceptors, CountLoad(t) PROVE ServerInv'
    BY <1>7 DEF CountLoad, TypeOK, Locked, CloseCounted, WonAfterClose,
                InHand, ClosedOnce, Inside
  <1>8. ASSUME NEW t \in Acceptors, CountStore(t) PROVE ServerInv'
    BY <1>8 DEF CountStore, TypeOK, Locked, CloseCounted, WonAfterClose,
                InHand, ClosedOnce, Inside
  <1>9. ASSUME NEW t \in Acceptors, Register(t) PROVE ServerInv'
    BY <1>9 DEF Register, TypeOK, Locked, CloseCounted, WonAfterClose,
                InHand, ClosedOnce, Inside
  <1>10. ASSUME NEW t \in Acceptors, NEW i \in 0..Ids-1, CloseClient(t, i)
         PROVE  ServerInv'
    BY <1>10 DEF CloseClient, TypeOK, Locked, CloseCounted, WonAfterClose,
                 InHand, ClosedOnce, Inside
  <1>11. ASSUME NEW t \in Closers, CloseCall(t) PROVE ServerInv'
    BY <1>11 DEF CloseCall, TypeOK, Locked, CloseCounted, WonAfterClose,
                 InHand, ClosedOnce, Inside
  <1>12. ASSUME NEW t \in Closers, CloseLock(t) PROVE ServerInv'
    BY <1>12 DEF CloseLock, TypeOK, Locked, CloseCounted, WonAfterClose,
                 InHand, ClosedOnce, Inside
  <1>13. ASSUME NEW t \in Closers, CloseDone(t) PROVE ServerInv'
    BY <1>13 DEF CloseDone, TypeOK, Locked, CloseCounted, WonAfterClose,
                 InHand, ClosedOnce, Inside
  <1>14. CASE UNCHANGED vars
    BY <1>14 DEF vars, TypeOK, Locked, CloseCounted, WonAfterClose, InHand,
                 ClosedOnce
  <1>15. QED
    BY <1>1, <1>2, <1>3, <1>4, <1>5, <1>6, <1>7, <1>8, <1>9, <1>10, <1>11,
       <1>12, <1>13, <1>14
    DEF Next, AcceptStep, CloseStep

(* ServerInv holds in every state the server reaches. *)
THEOREM ServerInvariant == Spec => []ServerInv
  BY InitServerInv, NextServerInv, PTL DEF Spec

(* Every variable keeps its type, totalClients wrapping around included.   *)
THEOREM ServerTypeOK == Spec => []TypeOK
  <1>1. ServerInv => TypeOK
    BY DEF ServerInv
  <1>2. QED BY <1>1, ServerInvariant, PTL

(* acceptOne polls and accepts only while the listening descriptor is open *)
(* (accept_with_timeout runs under the mutex that close takes).            *)
THEOREM ServerAcceptsOpenListener == Spec => []AcceptsOpenListener
  <1>1. ServerInv => AcceptsOpenListener
    <2> SUFFICES ASSUME ServerInv, NEW t \in Acceptors,
                        pc[t] \in {"select", "accept"}
                 PROVE  listener_closes = 0
      BY DEF AcceptsOpenListener
    <2>1. t \in Threads /\ mutex = t /\ ~fd_closed
      BY DEF ServerInv, Locked, Inside, Threads
    <2>2. \A u \in Threads : pc[u] # "closing"
      BY <2>1 DEF ServerInv, Locked, Inside
    <2>3. QED BY <2>1, <2>2 DEF ServerInv, CloseCounted
  <1>2. QED BY <1>1, ServerInvariant, PTL

(* However many threads call close, one of them closes the descriptor and  *)
(* is told so.                                                             *)
THEOREM ServerClosedOnce == Spec => []ClosedOnce
  <1>1. ServerInv => ClosedOnce
    BY DEF ServerInv
  <1>2. QED BY <1>1, ServerInvariant, PTL

-----------------------------------------------------------------------------
(* Handed-out streams, whose ids no lock guards.                           *)

(* Threads with an accepted client in hand, and those that have numbered   *)
(* it.                                                                     *)
Carrying == {t \in Acceptors : pc[t] \in {"count", "store", "register"}}
Numbered == {t \in Acceptors : pc[t] = "register"}

(* A client is accepted once: as long as the kernel or a thread has it,    *)
(* its stream does not exist, and nobody else has it.                      *)
AcceptedOnce ==
  /\ \A c \in Clients : stream[c] # "none" => c \in arrived \ backlog
  /\ \A i \in DOMAIN clientStreamMap : stream[clientStreamMap[i]] # "none"
  /\ \A t \in Carrying : /\ conn[t] \in arrived \ backlog
                         /\ stream[conn[t]] = "none"
                         /\ \A u \in Carrying : conn[t] = conn[u] => t = u

(* The clients that have a number, the numbers still in use, and how many  *)
(* numbers ago one was given.                                              *)
Counted == {c \in Clients : stream[c] # "none"} \cup {conn[t] : t \in Numbered}
InUse == DOMAIN clientStreamMap \cup {id[t] : t \in Numbered}
Ago(i) == IF i <= totalClients THEN totalClients - i ELSE totalClients - i + Ids
NextId == IF totalClients + 1 = Ids THEN 0 ELSE totalClients + 1

(* Every number in use is among the last ones given, as many of them as    *)
(* clients have got one; and these are fewer than the numbers there are.   *)
RecentlyGiven == \A i \in InUse : Ago(i) < Cardinality(Counted)

(* Only one thread is between the load and the store, with the next id;    *)
(* no id that is waiting to be entered is in the map.                      *)
OneCounts ==
  /\ \A t \in Acceptors : pc[t] = "store" =>
       /\ id[t] = NextId
       /\ \A u \in Acceptors : pc[u] = "store" => t = u
  /\ \A t \in Numbered : id[t] \notin DOMAIN clientStreamMap

(* The clients in the map are different ones, all open.                    *)
MapOpen == \A i \in DOMAIN clientStreamMap :
             /\ stream[clientStreamMap[i]] = "open"
             /\ \A j \in DOMAIN clientStreamMap :
                  clientStreamMap[i] = clientStreamMap[j] => i = j

HandedInMap == \A h \in handed : /\ h[1] \in DOMAIN clientStreamMap
                                 /\ clientStreamMap[h[1]] = h[2]

HandedInv == /\ AcceptedOnce
             /\ ~overlapped => RecentlyGiven /\ OneCounts /\ MapOpen /\ HandedInMap

(* Fewer clients than ids (the code has 2^64 of them).                     *)
FewClients == IsFiniteSet(Clients) /\ Cardinality(Clients) < Ids

-----------------------------------------------------------------------------
(* id = ++totalClients, without %.                                         *)
LEMMA NextIdWraps ==
  ASSUME TypeOK
  PROVE  (totalClients + 1) % Ids = NextId /\ NextId \in 0..Ids-1
<1>1. totalClients \in 0..Ids-1 /\ Ids \in Nat \ {0}
  BY IdAssumption DEF TypeOK
<1>2. CASE totalClients + 1 = Ids
  BY <1>1, <1>2 DEF NextId
<1>3. CASE totalClients + 1 # Ids
  <2>1. totalClients + 1 \in 0..Ids-1
    BY <1>1, <1>3
  <2> QED BY <1>1, <1>3, <2>1 DEF NextId
<1> QED BY <1>2, <1>3

(* A number is at hand for each client, and there are not too many.        *)
LEMMA CountedFinite ==
  ASSUME ServerInv, FewClients
  PROVE  /\ Counted \subseteq Clients /\ IsFiniteSet(Counted)
         /\ Cardinality(Counted) \in 0..Ids-1
<1>1. Counted \subseteq Clients
  BY DEF ServerInv, InHand, Counted, Numbered, Threads
<1>2. /\ IsFiniteSet(Counted) /\ Cardinality(Counted) <= Cardinality(Clients)
      /\ Cardinality(Counted) \in Nat /\ Cardinality(Clients) \in Nat
  BY <1>1, FS_Subset, FS_CardinalityType DEF FewClients
<1> QED BY <1>1, <1>2, IdAssumption DEF FewClients

(* At first nothing is handed out.                                         *)
LEMMA InitHandedInv == Init => HandedInv
BY DEF Init, HandedInv, AcceptedOnce, RecentlyGiven, OneCounts, MapOpen,
       HandedInMap, Carrying, Numbered, InUse, Threads

(* A client goes from the kernel to one thread, and from there to the map. *)
LEMMA NextAcceptedOnce ==
  ASSUME ServerInv, AcceptedOnce, [Next]_vars
  PROVE  AcceptedOnce'
<1> USE DEF ServerInv, TypeOK, AcceptedOnce, Carrying, Threads, Goto, Quiet,
            count, table, kernel
<1>1. ASSUME NEW c \in Clients, Arrive(c) \/ Reset(c) PROVE AcceptedOnce'
  BY <1>1 DEF Arrive, Reset
<1>2. ASSUME NEW t \in Acceptors, AcceptCall(t) PROVE AcceptedOnce'
  BY <1>2 DEF AcceptCall
<1>3. ASSUME NEW t \in Acceptors, AcceptLock(t) PROVE AcceptedOnce'
  BY <1>3 DEF AcceptLock
<1>4. ASSUME NEW t \in Acceptors,
             SelectReady(t) \/ SelectTimeout(t) \/ AcceptNone(t)
      PROVE  AcceptedOnce'
  BY <1>4 DEF SelectReady, SelectTimeout, AcceptNone
<1>5. ASSUME NEW t \in Acceptors, NEW c \in Clients, AcceptTake(t, c)
      PROVE  AcceptedOnce'
  <2>1. c \in backlog /\ c \in arrived /\ stream[c] = "none"
    BY <1>5 DEF AcceptTake
  <2>2. \A u \in Carrying : conn[u] # c
    BY <2>1
  <2>3. /\ Carrying' = Carrying \cup {t} /\ t \notin Carrying
        /\ conn'[t] = c /\ \A u \in Carrying : conn'[u] = conn[u]
        /\ backlog' = backlog \ {c} /\ UNCHANGED <<arrived, stream, clientStreamMap>>
    BY <1>5 DEF AcceptTake
  <2> QED BY <2>1, <2>2, <2>3
<1>6. ASSUME NEW t \in Acceptors, CountLoad(t) \/ CountStore(t)
      PROVE  AcceptedOnce'
  <2>1. /\ Carrying' = Carrying
        /\ UNCHANGED <<conn, stream, arrived, backlog, clientStreamMap>>
    BY <1>6 DEF CountLoad, CountStore
  <2> QED BY <2>1
<1>7. ASSUME NEW t \in Acceptors, Register(t) PROVE AcceptedOnce'
  <2>1. t \in Carrying /\ Carrying' = Carrying \ {t} /\ conn[t] \in Clients
    BY <1>7 DEF Register, InHand
  <2>2. /\ \A u \in Carrying' : conn'[u] = conn[u]
        /\ UNCHANGED <<arrived, backlog>>
    BY <1>7, <2>1 DEF Register
  <2>3. \A d \in Clients : \/ stream'[d] = stream[d]
                           \/ d = conn[t]
                           \/ \E i \in DOMAIN clientStreamMap : d = clientStreamMap[i]
    BY <1>7 DEF Register
  <2> QED BY <2>1, <2>2, <2>3, <1>7 DEF Register
<1>8. ASSUME NEW t \in Acceptors, NEW i \in 0..Ids-1, CloseClient(t, i)
      PROVE  AcceptedOnce'
  <2>1. /\ i \in DOMAIN clientStreamMap /\ clientStreamMap[i] \in Clients
        /\ stream' = [stream EXCEPT ![clientStreamMap[i]] = "destroyed"]
        /\ Carrying' = Carrying /\ UNCHANGED <<conn, arrived, backlog>>
        /\ DOMAIN clientStreamMap' = DOMAIN clientStreamMap \ {i}
        /\ \A k \in DOMAIN clientStreamMap' :
             clientStreamMap'[k] = clientStreamMap[k]
    BY <1>8 DEF CloseClient
  <2> QED BY <2>1
<1>9. ASSUME NEW t \in Closers, CloseCall(t) \/ CloseLock(t) \/ CloseDone(t)
      PROVE  AcceptedOnce'
  BY <1>9 DEF CloseCall, CloseLock, CloseDone
<1>10. CASE UNCHANGED vars
  BY <1>10 DEF vars
<1> QED
  BY <1>1, <1>2, <1>3, <1>4, <1>5, <1>6, <1>7, <1>8, <1>9, <1>10
  DEF Next, AcceptStep, CloseStep

(* The part of HandedInv that a meeting of two threads ends.               *)
Orderly == RecentlyGiven /\ OneCounts /\ MapOpen /\ HandedInMap

(* Steps of a thread that neither counts nor enters.                       *)
LEMMA OrderlyElsewhere ==
  ASSUME TypeOK, Orderly, UNCHANGED <<count, table, id>>,
         \A t \in Acceptors :
           \/ pc'[t] = pc[t] /\ conn'[t] = conn[t]
           \/ {pc[t], pc'[t]} \cap {"store", "register"} = {}
  PROVE  Orderly'
<1>1. Numbered' = Numbered /\ \A t \in Numbered : conn'[t] = conn[t]
  BY DEF Numbered
<1>2. Counted' = Counted /\ InUse' = InUse
  BY <1>1 DEF Counted, InUse, table
<1>3. NextId' = NextId /\ \A i : Ago(i)' = Ago(i)
  BY DEF NextId, Ago, count
<1>4. RecentlyGiven'
  BY <1>2, <1>3 DEF RecentlyGiven, Orderly
<1>5. OneCounts'
  BY <1>1, <1>3 DEF OneCounts, Orderly, table
<1>6. MapOpen' /\ HandedInMap'
  BY DEF MapOpen, HandedInMap, Orderly, table
<1> QED BY <1>4, <1>5, <1>6 DEF Orderly

(* ++totalClients: the load ...                                            *)
LEMMA OrderlyLoad ==
  ASSUME ServerInv, HandedInv, ~overlapped',
         NEW t \in Acceptors, CountLoad(t)
  PROVE  Orderly'
<1>0. Orderly /\ \A u \in Acceptors : pc[u] # "store"
  BY DEF CountLoad, Meets, HandedInv, Orderly
<1>1. /\ pc[t] = "count" /\ pc' = [pc EXCEPT ![t] = "store"]
      /\ id' = [id EXCEPT ![t] = NextId]
      /\ UNCHANGED <<totalClients, conn, table>>
  BY NextIdWraps DEF CountLoad, Goto, Quiet, ServerInv
<1>2. /\ t \in Threads /\ id \in [Threads -> 0..Ids-1]
      /\ \A u \in Threads : pc'[u] = IF u = t THEN "store" ELSE pc[u]
  BY <1>1 DEF ServerInv, TypeOK, Threads
<1>3. /\ Numbered' = Numbered /\ t \notin Numbered
      /\ \A u \in Numbered : id'[u] = id[u]
  BY <1>1, <1>2 DEF Numbered, Threads
<1>4. Counted' = Counted /\ InUse' = InUse
  BY <1>1, <1>3 DEF Counted, InUse, table
<1>5. NextId' = NextId /\ \A i : Ago(i)' = Ago(i)
  BY <1>1 DEF NextId, Ago
<1>6. RecentlyGiven'
  BY <1>0, <1>4, <1>5 DEF RecentlyGiven, Orderly
<1>7. OneCounts'
  BY <1>0, <1>1, <1>2, <1>3, <1>5 DEF OneCounts, Orderly, table, Threads
<1>8. MapOpen' /\ HandedInMap'
  BY <1>0, <1>1 DEF MapOpen, HandedInMap, Orderly, table
<1> QED BY <1>6, <1>7, <1>8 DEF Orderly

(* ... and the store, of a number that is not in use: it could only be one *)
(* given Ids numbers ago.                                                  *)
LEMMA OrderlyStore ==
  ASSUME FewClients, ServerInv, HandedInv, ~overlapped',
         NEW t \in Acceptors, CountStore(t)
  PROVE  Orderly'
<1>0. ~overlapped /\ Orderly /\ AcceptedOnce
  BY DEF CountStore, Meets, HandedInv, Orderly
<1>1. /\ pc[t] = "store" /\ pc' = [pc EXCEPT ![t] = "register"]
      /\ totalClients' = id[t] /\ id[t] = NextId
      /\ \A u \in Acceptors \ {t} : pc[u] # "store"
      /\ UNCHANGED <<id, conn, table>>
  BY <1>0 DEF CountStore, Goto, Quiet, Orderly, OneCounts
<1>2. /\ t \in Threads /\ id \in [Threads -> 0..Ids-1]
      /\ \A u \in Threads : pc'[u] = IF u = t THEN "register" ELSE pc[u]
  BY <1>1 DEF ServerInv, TypeOK, Threads
<1>3. Numbered' = Numbered \cup {t}
  BY <1>1, <1>2 DEF Numbered, Threads
<1>4. Counted' = Counted \cup {conn[t]}
  BY <1>1, <1>3 DEF Counted, table
<1>5. conn[t] \notin Counted
  <2>1. t \in Carrying /\ \A u \in Numbered : u \in Carrying /\ u # t
    BY <1>1 DEF Carrying, Numbered
  <2> QED BY <2>1, <1>0 DEF Counted, AcceptedOnce
<1>6. /\ Cardinality(Counted') = Cardinality(Counted) + 1
      /\ Cardinality(Counted) \in 0..Ids-1
  BY <1>4, <1>5, CountedFinite, FS_AddElement
<1>7. InUse' = InUse \cup {NextId} /\ InUse \subseteq 0..Ids-1
  BY <1>1, <1>2, <1>3 DEF InUse, Numbered, table, ServerInv, TypeOK, Threads
<1>8. totalClients \in 0..Ids-1 /\ Ids \in Nat \ {0} /\ NextId \in 0..Ids-1
  BY NextIdWraps, IdAssumption DEF ServerInv, TypeOK
<1>9. \A i \in InUse : Ago(i) < Cardinality(Counted)
  BY <1>0 DEF Orderly, RecentlyGiven
<1>10. NextId \notin InUse
  <2>1. Ago(NextId) = Ids - 1
    BY <1>8 DEF Ago, NextId
  <2> QED BY <2>1, <1>6, <1>8, <1>9
<1>11. RecentlyGiven'
  <2> SUFFICES ASSUME NEW i \in InUse'
               PROVE  (IF i <= NextId THEN NextId - i ELSE NextId - i + Ids)
                        < Cardinality(Counted) + 1
    BY <1>1, <1>6 DEF RecentlyGiven, Ago
  <2>1. CASE i = NextId
    BY <2>1, <1>6, <1>8
  <2>2. CASE i # NextId
    <3>1. i \in InUse /\ i \in 0..Ids-1 /\ Ago(i) < Cardinality(Counted)
      BY <2>2, <1>7, <1>9
    <3> QED BY <3>1, <2>2, <1>6, <1>8 DEF Ago, NextId
  <2> QED BY <2>1, <2>2
<1>12. OneCounts'
  <2>1. \A u \in Acceptors : pc'[u] # "store"
    BY <1>1, <1>2 DEF Threads
  <2>2. \A u \in Numbered' : id[u] \notin DOMAIN clientStreamMap
    BY <1>0, <1>1, <1>3, <1>10 DEF Orderly, OneCounts, InUse
  <2> QED BY <1>1, <2>1, <2>2 DEF OneCounts, table
<1>13. MapOpen' /\ HandedInMap'
  BY <1>0, <1>1 DEF MapOpen, HandedInMap, Orderly, table
<1> QED BY <1>11, <1>12, <1>13 DEF Orderly
(* clientStreamMap[id] = client: the id is not in the map, so no stream    *)
(* goes, and the client is not in it.                                      *)
LEMMA OrderlyRegister ==
  ASSUME ServerInv, HandedInv, ~overlapped',
         NEW t \in Acceptors, Register(t)
  PROVE  Orderly'
<1> DEFINE c == conn[t]
           i == id[t]
<1>0. ~overlapped /\ Orderly /\ AcceptedOnce /\ TypeOK
  BY DEF Register, Meets, HandedInv, Orderly, ServerInv
<1>1. t \in Threads /\ t \in Numbered /\ t \in Carrying /\ c \in Clients
  BY DEF Register, Numbered, Carrying, Threads, ServerInv, InHand
<1>2. i \notin DOMAIN clientStreamMap /\ stream[c] = "none"
  BY <1>0, <1>1 DEF Orderly, OneCounts, AcceptedOnce
<1>3. /\ DOMAIN clientStreamMap' = DOMAIN clientStreamMap \cup {i}
      /\ clientStreamMap'[i] = c
      /\ \A k \in DOMAIN clientStreamMap : clientStreamMap'[k] = clientStreamMap[k]
  BY <1>2 DEF Register
<1>4. stream' = [stream EXCEPT ![c] = "open"]
  BY <1>0, <1>2 DEF Register, TypeOK
<1>5. /\ handed' = handed \cup {<<i, c>>}
      /\ \A u \in Threads : pc'[u] = IF u = t THEN "idle" ELSE pc[u]
      /\ \A u \in Threads \ {t} : conn'[u] = conn[u] /\ id'[u] = id[u]
      /\ \A u \in Acceptors \ {t} : pc[u] # "register"
      /\ UNCHANGED totalClients
  BY <1>0, <1>1 DEF Register, Goto, Meets, TypeOK
<1>6. Numbered = {t} /\ Numbered' = {}
  BY <1>1, <1>5 DEF Numbered, Threads
<1>7. Counted' = Counted /\ InUse' = InUse
  BY <1>0, <1>1, <1>3, <1>4, <1>6 DEF Counted, InUse, TypeOK
<1>8. NextId' = NextId /\ \A k : Ago(k)' = Ago(k)
  BY <1>5 DEF NextId, Ago
<1>9. RecentlyGiven'
  BY <1>0, <1>7, <1>8 DEF RecentlyGiven, Orderly
<1>10. OneCounts'
  BY <1>0, <1>5, <1>6, <1>8 DEF OneCounts, Orderly, Threads
<1>11. \A k \in DOMAIN clientStreamMap : /\ clientStreamMap[k] \in Clients \ {c}
                                        /\ stream'[clientStreamMap[k]] = "open"
  BY <1>0, <1>2, <1>4 DEF Orderly, MapOpen, TypeOK
<1>12. MapOpen'
  BY <1>0, <1>1, <1>3, <1>4, <1>11 DEF MapOpen, Orderly, TypeOK
<1>13. HandedInMap'
  BY <1>0, <1>2, <1>3, <1>5 DEF HandedInMap, Orderly
<1> QED BY <1>9, <1>10, <1>12, <1>13 DEF Orderly

(* closeClient takes one client out, and no other.                         *)
LEMMA OrderlyCloseClient ==
  ASSUME ServerInv, HandedInv, ~overlapped',
         NEW t \in Acceptors, NEW i \in 0..Ids-1, CloseClient(t, i)
  PROVE  Orderly'
<1> DEFINE c == clientStreamMap[i]
<1>0. ~overlapped /\ Orderly /\ AcceptedOnce /\ TypeOK
  BY DEF CloseClient, Meets, HandedInv, Orderly, ServerInv
<1>1. /\ i \in DOMAIN clientStreamMap /\ c \in Clients
      /\ DOMAIN clientStreamMap' = DOMAIN clientStreamMap \ {i}
      /\ \A k \in DOMAIN clientStreamMap' : clientStreamMap'[k] = clientStreamMap[k]
      /\ stream' = [stream EXCEPT ![c] = "destroyed"]
      /\ handed' = {h \in handed : h[1] # i}
      /\ UNCHANGED <<totalClients, pc, conn, id>>
  BY <1>0 DEF CloseClient, TypeOK
<1>2. /\ Numbered' = Numbered /\ InUse' \subseteq InUse
      /\ NextId' = NextId /\ \A k : Ago(k)' = Ago(k)
  BY <1>1 DEF Numbered, InUse, NextId, Ago
<1>3. Counted' = Counted
  BY <1>0, <1>1, <1>2 DEF Counted, TypeOK, Orderly, MapOpen
<1>4. RecentlyGiven'
  BY <1>0, <1>2, <1>3 DEF RecentlyGiven, Orderly
<1>5. OneCounts'
  BY <1>0, <1>1, <1>2 DEF OneCounts, Orderly
<1>6. MapOpen'
  BY <1>0, <1>1 DEF MapOpen, Orderly, TypeOK
<1>7. HandedInMap'
  BY <1>0, <1>1 DEF HandedInMap, Orderly
<1> QED BY <1>4, <1>5, <1>6, <1>7 DEF Orderly

(* Every step keeps it.                                                    *)
LEMMA NextHandedInv ==
  ASSUME FewClients, ServerInv, HandedInv, [Next]_vars
  PROVE  HandedInv'
<1>1. AcceptedOnce'
  BY NextAcceptedOnce DEF HandedInv
<1> SUFFICES ASSUME ~overlapped' PROVE Orderly'
  BY <1>1 DEF HandedInv, Orderly
<1>2. TypeOK /\ (~overlapped => Orderly)
  BY DEF ServerInv, HandedInv, Orderly
<1> USE DEF Goto, Quiet, count, table, kernel, TypeOK, Threads
<1>3. ASSUME NEW c \in Clients, Arrive(c) \/ Reset(c) PROVE Orderly'
  BY <1>2, <1>3, OrderlyElsewhere DEF Arrive, Reset
<1>4. ASSUME NEW t \in Acceptors,
             \/ AcceptCall(t) \/ AcceptLock(t) \/ SelectReady(t)
             \/ SelectTimeout(t) \/ AcceptNone(t)
      PROVE  Orderly'
  BY <1>2, <1>4, OrderlyElsewhere
     DEF AcceptCall, AcceptLock, SelectReady, SelectTimeout, AcceptNone
<1>5. ASSUME NEW t \in Acceptors, NEW c \in Clients, AcceptTake(t, c)
      PROVE  Orderly'
  BY <1>2, <1>5, OrderlyElsewhere DEF AcceptTake
<1>6. ASSUME NEW t \in Closers, CloseCall(t) \/ CloseLock(t) \/ CloseDone(t)
      PROVE  Orderly'
  BY <1>2, <1>6, OrderlyElsewhere DEF CloseCall, CloseLock, CloseDone
<1>7. CASE UNCHANGED vars
  BY <1>2, <1>7, OrderlyElsewhere DEF vars
<1> QED
  BY <1>3, <1>4, <1>5, <1>6, <1>7, OrderlyLoad, OrderlyStore, OrderlyRegister,
     OrderlyCloseClient
  DEF Next, AcceptStep, CloseStep

(* Whatever totalClients started from and however the threads take turns   *)
(* at accepting and closing clients, a stream that acceptOne handed out is *)
(* the one its id names, and open, until it is closed by that id; as long  *)
(* as no two threads have counted, entered or erased at once, and size_t   *)
(* has more values than clients come.                                      *)
THEOREM ServerHandedStaysValid ==
  ASSUME FewClients
  PROVE  Spec => []HandedStaysValid
<1>1. HandedInv /\ ServerInv => HandedStaysValid
  BY DEF HandedInv, HandedInMap, MapOpen, HandedStaysValid, ServerInv, TypeOK
<1>2. Init => HandedInv
  BY InitHandedInv
<1>3. ServerInv /\ HandedInv /\ [Next]_vars => HandedInv'
  BY NextHandedInv
<1> QED BY <1>1, <1>2, <1>3, ServerInvariant, PTL DEF Spec
==============================================================================
