--------------------------- MODULE UdpServerProof ----------------------------
(***************************************************************************)
(* For any senders, any number of datagrams of any size, and whatever the  *)
(* program does with its streams.  Datagrams leave the queue in the order  *)
(* in which they came in, each to one stream: what a stream has been read  *)
(* of ends with the beginning of the last datagram it got, and the rest of *)
(* that one is its get area.                                               *)
(***************************************************************************)
EXTENDS UdpServer, SequenceTheorems, FiniteSetTheorems, TLAPS

(* The types, as the steps need them. *)
Typed ==
  /\ queue \in Seq(Datagrams) /\ arrived \in 0..MaxDatagrams
  /\ timeout \in {0} \cup Timeouts /\ server \in BOOLEAN
  /\ clientStreams \cup held \subseteq created /\ created \subseteq Keys
  /\ area \in [Keys -> Seq(Bytes)] /\ read \in [Keys -> Seq(Bytes)]
  /\ addr \in [Keys -> Addresses] /\ good \in [Keys -> BOOLEAN]
  /\ last \in [Keys -> Datagrams \cup Strange \cup {None}]
  /\ pulled \in [Keys -> Keys \cup {Stranger}] /\ strange \subseteq 1..arrived
  /\ number \in {"ours", "free", "other"} /\ stray \in BOOLEAN

(* While the server is, every stream ever made is in its map, and nobody   *)
(* closes the number.                                                      *)
OwnersInv ==
  /\ IsFiniteSet(created)
  /\ clientStreams = IF server THEN created ELSE {}
  /\ server => number = "ours"
  /\ created # {} /\ ~server /\ held = {} => number # "ours"
  /\ Cardinality(created) <= 1 =>
       ~stray /\ (server \/ held # {} => number = "ours")
  /\ strange # {} => stray /\ ~server

(* The address of a stream is its own, or Bad, until underflow takes a     *)
(* datagram; then it is the sender's of the one that it took last, if that *)
(* was not a stranger's.                                                   *)
AddressInv ==
  \A k \in Keys :
    /\ k \notin created => pulled[k] = Nobody
    /\ pulled[k] \notin {Nobody, Stranger} => addr[k] = pulled[k]
    /\ pulled[k] = Nobody => /\ addr[k] \in {k, Bad}
                             /\ last[k] # None => last[k].from = k

(* Datagrams stand in the queue in the order of their arrival, all of them *)
(* behind what any stream has got; a number that is not ours has none.     *)
QueueInv ==
  /\ number # "ours" => queue = <<>>
  /\ \A i \in 1..Len(queue) : queue[i].id <= arrived
  /\ \A i, j \in 1..Len(queue) : i < j => queue[i].id < queue[j].id
  /\ \A k \in Keys : last[k].id <= arrived
  /\ \A k \in Keys : \A i \in 1..Len(queue) : last[k].id < queue[i].id

(* How much has been read of the datagram that stream k got last; before   *)
(* that, it was read of older ones.                                        *)
Begun(k) == Length(last[k]) - Len(area[k])
Older(k) == Len(read[k]) - Begun(k)
ContentInv ==
  \A k \in Keys :
    /\ Begun(k) >= 0 /\ Older(k) >= 0
    /\ \A i \in 1..Len(area[k]) : area[k][i] = <<last[k].id, Begun(k) + i>>
    /\ \A i \in 1..Begun(k) : read[k][Older(k) + i] = <<last[k].id, i>>
    /\ \A i \in 1..Older(k) : read[k][i][1] < last[k].id

(* What was read of a stream are beginnings of datagrams, one after another.*)
ReadInOrder ==
  \A k \in Keys : \A i \in 1..Len(read[k]) :
    IF i = 1 THEN read[k][i][2] = 1 ELSE Follows(read[k][i-1], read[k][i])

(* No datagram went to two streams. *)
Apart ==
  \A j, k \in Keys : j # k =>
    /\ last[j] # None => last[j].id # last[k].id
    /\ \A i \in 1..Len(read[j]) :
         /\ read[j][i][1] # last[k].id
         /\ \A m \in 1..Len(read[k]) : read[j][i][1] # read[k][m][1]

DataInv == QueueInv /\ ContentInv /\ ReadInOrder /\ Apart
UdpInv == Typed /\ OwnersInv /\ AddressInv /\ DataInv

-----------------------------------------------------------------------------
(* What one recvfrom gives of a datagram. *)
LEMMA ContentOf ==
  ASSUME NEW d \in Datagrams \cup Strange
  PROVE  /\ Length(d) \in 0..Buffer /\ Length(d) \in Nat
         /\ Content(d) \in Seq(Bytes) /\ Len(Content(d)) = Length(d)
         /\ \A i \in 1..Length(d) : Content(d)[i] = <<d.id, i>>
<1>1. Length(d) \in 0..Buffer /\ Length(d) \in Nat
  BY SizeAssumption DEF Datagrams, Strange, Length
<1>2. \A i \in 1..Length(d) : <<d.id, i>> \in Bytes
  BY <1>1, SizeAssumption DEF Datagrams, Strange, Bytes
<1>3. Content(d) \in [1..Length(d) -> Bytes]
  BY <1>2 DEF Content
<1>4. \A i \in 1..Length(d) : Content(d)[i] = <<d.id, i>>
  BY DEF Content
<1>5. Content(d) \in Seq(Bytes) /\ Len(Content(d)) = Length(d)
  BY <1>1, <1>3
<1> QED BY <1>1, <1>4, <1>5

(* The first datagram of the queue, and what is left without it.           *)
LEMMA Dequeue ==
  ASSUME Typed, queue # <<>>
  PROVE  /\ Head(queue) \in Datagrams /\ Head(queue) = queue[1]
         /\ Head(queue).from \in Peers /\ Head(queue).from \in Keys
         /\ Head(queue).from \notin {Nobody, Stranger} /\ Head(queue) # None
         /\ Len(queue) \in Nat \ {0}
         /\ Dequeued \in Seq(Datagrams) /\ Len(Dequeued) = Len(queue) - 1
         /\ \A i \in 1..Len(queue) - 1 : Dequeued[i] = queue[i+1]
<1>1. queue \in Seq(Datagrams)
  BY DEF Typed
<1>2. Head(queue) \in Datagrams /\ Head(queue) = queue[1]
  BY <1>1
<1>3. Head(queue).from \in Peers /\ Head(queue).from \notin {Nobody, Stranger}
  BY <1>2, AddressAssumption DEF Datagrams
<1>4. Head(queue) # None
  BY <1>3 DEF None
<1>5. /\ Dequeued \in Seq(Datagrams) /\ Len(Dequeued) = Len(queue) - 1
      /\ \A i \in 1..Len(queue) - 1 : Dequeued[i] = queue[i+1]
      /\ Len(queue) \in Nat \ {0}
  BY <1>1, HeadTailProperties, EmptySeq DEF Dequeued
<1> QED BY <1>2, <1>3, <1>4, <1>5 DEF Keys

LEMMA InitTyped == Init => Typed
<1> SUFFICES ASSUME Init PROVE Typed
  OBVIOUS
<1>1. queue \in Seq(Datagrams) /\ arrived \in 0..MaxDatagrams
  BY SizeAssumption DEF Init
<1>2. /\ area \in [Keys -> Seq(Bytes)] /\ read \in [Keys -> Seq(Bytes)]
  BY DEF Init
<1>3. /\ addr \in [Keys -> Addresses]
      /\ last \in [Keys -> Datagrams \cup Strange \cup {None}]
      /\ pulled \in [Keys -> Keys \cup {Stranger}] /\ strange \subseteq 1..arrived
  BY DEF Init, Keys, Addresses
<1>4. /\ timeout \in {0} \cup Timeouts /\ server \in BOOLEAN
      /\ clientStreams \cup held \subseteq created /\ created \subseteq Keys
      /\ good \in [Keys -> BOOLEAN]
      /\ number \in {"ours", "free", "other"} /\ stray \in BOOLEAN
  BY DEF Init
<1> QED BY <1>1, <1>2, <1>3, <1>4 DEF Typed

LEMMA NextTyped == Typed /\ [Next]_vars => Typed'
<1> SUFFICES ASSUME Typed, [Next]_vars PROVE Typed'
  OBVIOUS
<1> USE DEF Typed, socket, streams, owners
<1>1. ASSUME NEW p \in Peers, NEW n \in 0..MaxSize, Arrive(p, n)
      PROVE  Typed'
  <2>1. arrived' \in 1..MaxDatagrams /\ arrived' \in 0..MaxDatagrams
    BY <1>1, SizeAssumption DEF Arrive
  <2>2. [from |-> p, id |-> arrived', size |-> n] \in Datagrams
    BY <2>1 DEF Datagrams
  <2>3. queue' \in Seq(Datagrams)
    BY <1>1, <2>2 DEF Arrive
  <2>4. strange' \subseteq 1..arrived'
    BY <1>1, <2>1, SizeAssumption DEF Arrive
  <2> QED BY <1>1, <2>1, <2>3, <2>4 DEF Arrive
<1>2. ASSUME NEW nonBlock \in BOOLEAN, NEW t \in {0} \cup Timeouts,
             Receive(nonBlock, t)
      PROVE  Typed'
  <2>1. /\ queue # <<>> /\ queue' = Dequeued
        /\ UNCHANGED <<arrived, server, addr, good, read, pulled, strange,
                       number, stray>>
    BY <1>2 DEF Receive
  <2>2. /\ area' \in [Keys -> Seq(Bytes)]
        /\ last' \in [Keys -> Datagrams \cup Strange \cup {None}]
    BY <1>2, <2>1, Dequeue, ContentOf DEF Receive, Feed
  <2>3. /\ clientStreams' \cup held' \subseteq created' /\ created' \subseteq Keys
    BY <1>2, <2>1, Dequeue DEF Receive
  <2>4. timeout' \in {0} \cup Timeouts
    BY <1>2 DEF Receive, TimeoutAfter
  <2> QED BY <2>1, <2>2, <2>3, <2>4, Dequeue
<1>3. ASSUME NEW nonBlock \in BOOLEAN, NEW t \in {0} \cup Timeouts,
             NEW k \in Keys, NEW a \in {k, Bad}, ReceiveTimesOut(nonBlock, t, k, a)
      PROVE  Typed'
  <2>1. timeout' \in {0} \cup Timeouts
    BY <1>3 DEF ReceiveTimesOut, TimeoutAfter
  <2>2. area' = [area EXCEPT ![k] = area[k]]
    BY <1>3 DEF ReceiveTimesOut, AreaAfterTimeout
  <2>3. area' \in [Keys -> Seq(Bytes)] /\ addr' \in [Keys -> Addresses]
    BY <1>3, <2>2 DEF ReceiveTimesOut, Addresses
  <2> QED BY <1>3, <2>1, <2>3 DEF ReceiveTimesOut
<1>4. ASSUME NEW k \in Keys, Read(k)
      PROVE  Typed'
  <2>1. area[k] \in Seq(Bytes) /\ area[k] # <<>> /\ read[k] \in Seq(Bytes)
    BY <1>4 DEF Read
  <2>2. /\ Tail(area[k]) \in Seq(Bytes) /\ Append(read[k], Head(area[k])) \in Seq(Bytes)
    BY <2>1
  <2>3. area' \in [Keys -> Seq(Bytes)] /\ read' \in [Keys -> Seq(Bytes)]
    BY <1>4, <2>2 DEF Read
  <2> QED BY <1>4, <2>3 DEF Read
<1>5. ASSUME NEW k \in Keys, Underflow(k)
      PROVE  Typed'
  <2>1. /\ queue # <<>> /\ queue' = Dequeued
        /\ UNCHANGED <<arrived, read, strange, owners, number, stray>>
    BY <1>5 DEF Underflow
  <2>2. /\ area' \in [Keys -> Seq(Bytes)]
        /\ last' \in [Keys -> Datagrams \cup Strange \cup {None}]
    BY <1>5, <2>1, Dequeue, ContentOf DEF Underflow, Feed
  <2>3. /\ addr' \in [Keys -> Addresses]
        /\ pulled' \in [Keys -> Keys \cup {Stranger}]
    BY <1>5, <2>1, Dequeue DEF Underflow, AddressAfter, Addresses
  <2>4. good' \in [Keys -> BOOLEAN]
    BY <1>5 DEF Underflow
  <2> QED BY <2>1, <2>2, <2>3, <2>4, Dequeue
<1>6. ASSUME NEW k \in Keys,
             UnderflowFails(k) \/ Clear(k) \/ \E sent \in BOOLEAN : Overflow(k, sent)
      PROVE  Typed'
  <2>1. UNCHANGED <<socket, area, addr, read, last, pulled, strange, owners, number>>
    BY <1>6 DEF UnderflowFails, Clear, Overflow
  <2>2. good' \in [Keys -> BOOLEAN] /\ stray' \in BOOLEAN
    BY <1>6 DEF UnderflowFails, Clear, Overflow
  <2> QED BY <2>1, <2>2
<1>7. ASSUME NEW gone, CloseNumber(gone),
             UNCHANGED <<arrived, streams, timeout, created>>,
             clientStreams' \subseteq clientStreams, held' \subseteq held,
             server' \in BOOLEAN
      PROVE  Typed'
  <2>1. queue' \in Seq(Datagrams) /\ number' \in {"ours", "free", "other"}
    BY <1>7 DEF CloseNumber
  <2>2. stray' \in BOOLEAN
    BY <1>7 DEF CloseNumber
  <2> QED BY <1>7, <2>1, <2>2
<1>8. ASSUME NEW k \in Keys, Release(k)
      PROVE  Typed'
  BY <1>7, <1>8 DEF Release
<1>9. CASE ServerDestroy
  BY <1>7, <1>9 DEF ServerDestroy
<1>10. CASE OtherOpens
  BY <1>10 DEF OtherOpens
<1>11. CASE UNCHANGED vars
  BY <1>11 DEF vars
<1>12. ASSUME NEW k \in Keys, NEW n \in 0..MaxSize, NEW a \in {addr[k], Stranger},
              UnderflowForeign(k, n, a)
       PROVE  Typed'
  <2> DEFINE d == [from |-> Stranger, id |-> arrived + 1, size |-> n]
  <2>1. /\ arrived' = arrived + 1 /\ arrived + 1 \in 1..MaxDatagrams
        /\ arrived' \in 0..MaxDatagrams
    BY <1>12, SizeAssumption DEF UnderflowForeign
  <2>2. d \in Strange
    BY <2>1 DEF Strange
  <2>3. d.id = arrived + 1
    OBVIOUS
  <2>4. /\ area' = [area EXCEPT ![k] = Content(d)] /\ last' = [last EXCEPT ![k] = d]
        /\ strange' = strange \cup {d.id}
    BY <1>12 DEF UnderflowForeign, Feed
  <2> HIDE DEF d
  <2>5. /\ area' \in [Keys -> Seq(Bytes)]
        /\ last' \in [Keys -> Datagrams \cup Strange \cup {None}]
    BY <2>2, <2>4, ContentOf
  <2>6. strange' \subseteq 1..arrived'
    BY <2>1, <2>3, <2>4, SizeAssumption
  <2>7. /\ addr' \in [Keys -> Addresses]
        /\ pulled' \in [Keys -> Keys \cup {Stranger}]
    BY <1>12 DEF UnderflowForeign, Addresses
  <2>8. good' \in [Keys -> BOOLEAN] /\ stray' \in BOOLEAN
    BY <1>12 DEF UnderflowForeign
  <2>9. UNCHANGED <<queue, read, owners, number>>
    BY <1>12 DEF UnderflowForeign
  <2> QED BY <2>1, <2>5, <2>6, <2>7, <2>8, <2>9
<1> HIDE DEF Typed, socket, streams, owners
<1>13. CASE ServerCall
  BY <1>2, <1>3, <1>9, <1>13 DEF ServerCall
<1>14. CASE StreamCall
  <2>1. PICK k \in Keys :
          \/ Read(k) \/ Underflow(k) \/ UnderflowFails(k)
          \/ \E n \in 0..MaxSize, a \in {addr[k], Stranger} :
               UnderflowForeign(k, n, a)
          \/ \E sent \in BOOLEAN : Overflow(k, sent)
          \/ Clear(k) \/ Release(k)
    BY <1>14 DEF StreamCall
  <2> QED BY <1>4, <1>5, <1>6, <1>8, <1>12, <2>1
<1>15. CASE Environment
  BY <1>1, <1>10, <1>15 DEF Environment
<1> QED
  BY <1>11, <1>13, <1>14, <1>15 DEF Next

-----------------------------------------------------------------------------
LEMMA OnlyOne ==
  ASSUME NEW S, IsFiniteSet(S), Cardinality(S) <= 1, NEW x \in S
  PROVE  S = {x}
<1>1. {x} \in SUBSET S /\ Cardinality({x}) = 1
  BY FS_Singleton
<1> QED BY <1>1, FS_Subset, FS_CardinalityType

(* A stream for k is made, or is there already: with at most one, nothing  *)
(* can have been stray.                                                    *)
LEMMA OwnersAdd ==
  ASSUME OwnersInv, NEW k, server, created' = created \cup {k},
         clientStreams' = clientStreams \cup {k},
         UNCHANGED <<server, number, stray, strange>>
  PROVE  OwnersInv'
<1>1. IsFiniteSet(created')
  BY FS_AddElement DEF OwnersInv
<1>2. Cardinality(created') <= 1 => Cardinality(created) <= 1
  BY <1>1, FS_Subset, FS_CardinalityType DEF OwnersInv
<1> QED BY <1>1, <1>2 DEF OwnersInv

(* Streams go: if there was only one, it is closed once. *)
LEMMA OwnersClose ==
  ASSUME Typed, OwnersInv, NEW gone, gone \subseteq created, CloseNumber(gone),
         created' = created, strange' = strange,
         clientStreams' = IF server' THEN created ELSE {},
         server' => server /\ gone = {},
         ~server' /\ created # {} /\ held' = {} => gone # {} \/ (~server /\ held = {}),
         created # {} /\ Cardinality(created) <= 1 /\ gone # {} =>
           ~server' /\ held' = {} /\ (server \/ held # {}),
         held' # {} => held # {}
  PROVE  OwnersInv'
<1>1. number' = IF gone = {} THEN number ELSE "free"
  BY DEF CloseNumber
<1>2. created' # {} /\ ~server' /\ held' = {} => number' # "ours"
  BY <1>1 DEF OwnersInv
<1>3. ASSUME Cardinality(created) <= 1
      PROVE  ~stray' /\ (server' \/ held' # {} => number' = "ours")
  <2>1. ~(Cardinality(gone) > 1)
    BY <1>3, FS_Subset, FS_CardinalityType DEF OwnersInv
  <2>2. ~stray /\ (server \/ held # {} => number = "ours")
    BY <1>3 DEF OwnersInv
  <2>3. stray' = (stray \/ (gone # {} /\ number = "other"))
    BY <2>1 DEF CloseNumber
  <2>4. ~(gone # {} /\ number = "other")
    BY <1>3, <2>2
  <2>5. ~stray'
    BY <2>2, <2>3, <2>4, Zenon
  <2> QED BY <1>1, <1>3, <2>2, <2>5
<1>4. strange' # {} => stray' /\ ~server'
  <2>1. strange' # {} => stray /\ ~server
    BY DEF OwnersInv
  <2>2. stray => stray'
    BY DEF CloseNumber
  <2> QED BY <2>1, <2>2
<1> QED BY <1>1, <1>2, <1>3, <1>4 DEF OwnersInv

LEMMA NextOwnersInv == Typed /\ OwnersInv /\ [Next]_vars => OwnersInv'
<1> SUFFICES ASSUME Typed, OwnersInv, [Next]_vars PROVE OwnersInv'
  OBVIOUS
<1> USE DEF socket, streams, owners
<1>0. clientStreams \cup held \subseteq created /\ server \in BOOLEAN
  BY DEF Typed
<1>1. CASE UNCHANGED <<server, clientStreams, held, created, number, stray, strange>>
  BY <1>1 DEF OwnersInv
<1>2. ASSUME NEW nonBlock \in BOOLEAN, NEW t \in {0} \cup Timeouts,
             Receive(nonBlock, t)
      PROVE  OwnersInv'
  BY <1>2, OwnersAdd DEF Receive
<1>3. ASSUME NEW nonBlock \in BOOLEAN, NEW t \in {0} \cup Timeouts,
             NEW k \in Keys, NEW a \in {k, Bad}, ReceiveTimesOut(nonBlock, t, k, a)
      PROVE  OwnersInv'
  BY <1>3, OwnersAdd DEF ReceiveTimesOut
<1>4. ASSUME NEW k \in Keys, UnderflowFails(k) \/ \E sent \in BOOLEAN : Overflow(k, sent)
      PROVE  OwnersInv'
  <2>1. /\ UNCHANGED <<server, clientStreams, held, created, number, strange>>
        /\ stray' = (stray \/ number = "other") /\ held # {}
    BY <1>4 DEF UnderflowFails, Overflow
  <2>2. Cardinality(created) <= 1 => ~stray'
    BY <2>1 DEF OwnersInv
  <2>3. strange' # {} => stray' /\ ~server'
    BY <2>1 DEF OwnersInv
  <2> QED BY <2>1, <2>2, <2>3 DEF OwnersInv
<1>10. ASSUME NEW k \in Keys, NEW n \in 0..MaxSize, NEW a \in {addr[k], Stranger},
              UnderflowForeign(k, n, a)
       PROVE  OwnersInv'
  <2>1. /\ UNCHANGED <<server, clientStreams, held, created, number>>
        /\ stray' = TRUE /\ held # {} /\ number = "other"
    BY <1>10 DEF UnderflowForeign
  <2>2. ~server /\ ~(Cardinality(created) <= 1)
    BY <2>1 DEF OwnersInv
  <2> QED BY <2>1, <2>2 DEF OwnersInv
<1>5. ASSUME NEW k \in Keys, Release(k)
      PROVE  OwnersInv'
  <2> DEFINE gone == Destroyed(clientStreams, held')
  <2>1. /\ k \in held /\ held' = held \ {k} /\ CloseNumber(gone)
        /\ UNCHANGED <<server, clientStreams, created, strange>>
    BY <1>5 DEF Release
  <2>2. gone = IF server THEN {} ELSE {k}
    BY <1>0, <2>1 DEF Destroyed, OwnersInv
  <2>3. clientStreams' = IF server' THEN created ELSE {}
    BY <2>1 DEF OwnersInv
  <2>4. k \in created
    BY <1>0, <2>1
  <2>5. Cardinality(created) <= 1 => created = {k}
    BY <2>4, OnlyOne DEF OwnersInv
  <2>6. Cardinality(created) <= 1 => held' = {}
    BY <1>0, <2>1, <2>5
  <2> HIDE DEF gone
  <2>7. gone \subseteq created /\ held # {} /\ (server' => server /\ gone = {})
    BY <2>1, <2>2, <2>4
  <2>8. ~server' => gone # {}
    BY <2>1, <2>2
  <2>9. Cardinality(created) <= 1 /\ gone # {} => ~server' /\ held' = {}
    BY <2>1, <2>2, <2>6
  <2>10. /\ ~server' /\ created # {} /\ held' = {} => gone # {} \/ (~server /\ held = {})
         /\ created # {} /\ Cardinality(created) <= 1 /\ gone # {} =>
              ~server' /\ held' = {} /\ (server \/ held # {})
         /\ held' # {} => held # {}
    BY <2>7, <2>8, <2>9
  <2> QED BY <2>1, <2>3, <2>7, <2>10, OwnersClose
<1>6. CASE ServerDestroy
  <2> DEFINE gone == Destroyed({}, held)
  <2>1. /\ server /\ server' = FALSE /\ clientStreams' = {} /\ CloseNumber(gone)
        /\ UNCHANGED <<held, created, strange>>
    BY <1>6 DEF ServerDestroy
  <2>2. gone = created \ held
    BY <1>0, <2>1 DEF Destroyed, OwnersInv
  <2>3. Cardinality(created) <= 1 /\ gone # {} => held = {}
    <3>1. ASSUME Cardinality(created) <= 1, NEW c \in created \ held
          PROVE  created = {c}
      BY <3>1, OnlyOne DEF OwnersInv
    <3> QED BY <1>0, <2>2, <3>1
  <2> HIDE DEF gone
  <2> QED BY <2>1, <2>2, <2>3, OwnersClose
<1>7. CASE OtherOpens
  BY <1>7 DEF OtherOpens, OwnersInv
<1>8. CASE \/ \E p \in Peers, n \in 0..MaxSize : Arrive(p, n)
           \/ \E k \in Keys : Read(k) \/ Underflow(k) \/ Clear(k)
  BY <1>1, <1>8 DEF Arrive, Read, Underflow, Clear
<1>9. CASE UNCHANGED vars
  BY <1>1, <1>9 DEF vars
<1> QED
  BY <1>2, <1>3, <1>4, <1>5, <1>6, <1>7, <1>8, <1>9, <1>10
  DEF Next, ServerCall, StreamCall, Environment

-----------------------------------------------------------------------------
LEMMA NextAddressInv ==
  Typed /\ OwnersInv /\ AddressInv /\ [Next]_vars => AddressInv'
<1> SUFFICES ASSUME Typed, OwnersInv, AddressInv, [Next]_vars PROVE AddressInv'
  OBVIOUS
<1> USE DEF socket, streams, owners
<1>1. CASE UNCHANGED <<created, addr, last, pulled>>
  BY <1>1 DEF AddressInv
<1>2. ASSUME NEW nonBlock \in BOOLEAN, NEW t \in {0} \cup Timeouts,
             Receive(nonBlock, t)
      PROVE  AddressInv'
  <2> DEFINE d == Head(queue)
  <2>1. /\ d.from \in Keys /\ created' = created \cup {d.from}
        /\ last' = [last EXCEPT ![d.from] = d] /\ UNCHANGED <<addr, pulled>>
    BY <1>2, Dequeue DEF Receive
  <2> HIDE DEF d
  <2>2. \A k \in Keys : last'[k] = IF k = d.from THEN d ELSE last[k]
    BY <2>1 DEF Typed
  <2> QED BY <2>1, <2>2 DEF AddressInv
<1>3. ASSUME NEW nonBlock \in BOOLEAN, NEW t \in {0} \cup Timeouts,
             NEW k \in Keys, NEW a \in {k, Bad}, ReceiveTimesOut(nonBlock, t, k, a)
      PROVE  AddressInv'
  <2>1. /\ created' = created \cup {k} /\ UNCHANGED <<last, pulled>>
        /\ \A j \in Keys : addr'[j] = IF j = k /\ k \notin created THEN a
                                     ELSE addr[j]
    BY <1>3 DEF ReceiveTimesOut, OwnersInv, Typed
  <2> QED BY <2>1 DEF AddressInv
<1>4. ASSUME NEW k \in Keys, Underflow(k)
      PROVE  AddressInv'
  <2> DEFINE d == Head(queue)
  <2>1. /\ d.from \in Keys /\ d.from \notin {Nobody, Stranger}
        /\ k \in created /\ created' = created
        /\ addr' = [addr EXCEPT ![k] = d.from]
        /\ pulled' = [pulled EXCEPT ![k] = d.from]
        /\ last' = [last EXCEPT ![k] = d]
    BY <1>4, Dequeue DEF Underflow, AddressAfter, Typed
  <2> HIDE DEF d
  <2>2. \A j \in Keys : /\ last'[j] = IF j = k THEN d ELSE last[j]
                        /\ addr'[j] = IF j = k THEN d.from ELSE addr[j]
                        /\ pulled'[j] = IF j = k THEN d.from ELSE pulled[j]
    <3>1. \A j \in Keys : last'[j] = IF j = k THEN d ELSE last[j]
      BY <2>1 DEF Typed
    <3>2. \A j \in Keys : addr'[j] = IF j = k THEN d.from ELSE addr[j]
      BY <2>1 DEF Typed
    <3>3. \A j \in Keys : pulled'[j] = IF j = k THEN d.from ELSE pulled[j]
      BY <2>1 DEF Typed
    <3> QED BY <3>1, <3>2, <3>3
  <2>3. ASSUME NEW j \in Keys
        PROVE  /\ j \notin created' => pulled'[j] = Nobody
               /\ pulled'[j] \notin {Nobody, Stranger} => addr'[j] = pulled'[j]
               /\ pulled'[j] = Nobody => /\ addr'[j] \in {j, Bad}
                                         /\ last'[j] # None => last'[j].from = j
    <3>1. CASE j = k
      BY <2>1, <2>2, <3>1
    <3>2. CASE j # k
      BY <2>1, <2>2, <3>2 DEF AddressInv
    <3> QED BY <3>1, <3>2
  <2> QED BY <2>3 DEF AddressInv
<1>5. CASE OtherOpens \/ ServerDestroy
  BY <1>1, <1>5 DEF OtherOpens, ServerDestroy
<1>6. CASE \/ \E p \in Peers, n \in 0..MaxSize : Arrive(p, n)
           \/ \E k \in Keys : Read(k) \/ UnderflowFails(k) \/ Clear(k) \/ Release(k)
           \/ \E k \in Keys, sent \in BOOLEAN : Overflow(k, sent)
  BY <1>1, <1>6 DEF Arrive, Read, UnderflowFails, Overflow, Clear, Release
<1>7. CASE UNCHANGED vars
  BY <1>1, <1>7 DEF vars
<1>8. ASSUME NEW k \in Keys, NEW n \in 0..MaxSize, NEW a \in {addr[k], Stranger},
             UnderflowForeign(k, n, a)
      PROVE  AddressInv'
  <2>1. /\ k \in created /\ created' = created
        /\ \A j \in Keys : pulled'[j] = IF j = k THEN Stranger ELSE pulled[j]
        /\ \A j \in Keys : j # k => addr'[j] = addr[j] /\ last'[j] = last[j]
    BY <1>8 DEF UnderflowForeign, Typed
  <2>2. Stranger # Nobody
    BY AddressAssumption
  <2>3. ASSUME NEW j \in Keys
        PROVE  /\ j \notin created' => pulled'[j] = Nobody
               /\ pulled'[j] \notin {Nobody, Stranger} => addr'[j] = pulled'[j]
               /\ pulled'[j] = Nobody => /\ addr'[j] \in {j, Bad}
                                         /\ last'[j] # None => last'[j].from = j
    <3>1. CASE j = k
      BY <2>1, <2>2, <3>1
    <3>2. CASE j # k
      BY <2>1, <3>2 DEF AddressInv
    <3> QED BY <3>1, <3>2
  <2> QED BY <2>3 DEF AddressInv
<1> QED
  BY <1>2, <1>3, <1>4, <1>5, <1>6, <1>7, <1>8
  DEF Next, ServerCall, StreamCall, Environment

-----------------------------------------------------------------------------
LEMMA StreamTypes ==
  ASSUME Typed, NEW k \in Keys
  PROVE  /\ last[k].id \in Nat /\ Length(last[k]) \in Nat
         /\ area[k] \in Seq(Bytes) /\ Len(area[k]) \in Nat
         /\ read[k] \in Seq(Bytes) /\ Len(read[k]) \in Nat
         /\ Begun(k) \in Int /\ Older(k) \in Int
         /\ \A i \in 1..Len(read[k]) : read[k][i][1] \in Nat
         /\ last[k] = None => Length(last[k]) = 0
<1>1. last[k] \in Datagrams \cup Strange \cup {None}
  BY DEF Typed
<1>2. /\ last[k].id \in Nat /\ Length(last[k]) \in Nat
      /\ last[k] = None => Length(last[k]) = 0
  BY <1>1, ContentOf, SizeAssumption DEF Datagrams, Strange, None, Length
<1>3. /\ area[k] \in Seq(Bytes) /\ Len(area[k]) \in Nat
      /\ read[k] \in Seq(Bytes) /\ Len(read[k]) \in Nat
  BY DEF Typed
<1>4. \A i \in 1..Len(read[k]) : read[k][i] \in Bytes
  BY <1>3, ElementOfSeq
<1>5. \A b \in Bytes : b[1] \in Nat
  BY SizeAssumption DEF Bytes
<1> QED BY <1>2, <1>3, <1>4, <1>5 DEF Begun, Older

(* Nothing read of a stream is younger than the datagram it got last.      *)
LEMMA NothingYounger ==
  ASSUME Typed, DataInv, NEW k \in Keys, NEW i \in 1..Len(read[k])
  PROVE  read[k][i][1] <= last[k].id
<1>1. /\ Begun(k) \in Nat /\ Older(k) \in Nat /\ last[k].id \in Nat
      /\ read[k][i][1] \in Nat /\ Len(read[k]) = Older(k) + Begun(k)
  BY StreamTypes DEF DataInv, ContentInv, Older
<1>2. CASE i <= Older(k)
  <2>1. i \in 1..Older(k)
    BY <1>1, <1>2
  <2>2. read[k][i][1] < last[k].id
    BY <2>1 DEF DataInv, ContentInv
  <2> QED BY <1>1, <2>2
<1>3. CASE i > Older(k)
  <2>1. /\ i - Older(k) \in 1..Begun(k) /\ Older(k) + (i - Older(k)) = i
    BY <1>1, <1>3
  <2>2. read[k][Older(k) + (i - Older(k))] = <<last[k].id, i - Older(k)>>
    BY <2>1 DEF DataInv, ContentInv
  <2>3. read[k][i][1] = last[k].id
    BY <2>1, <2>2
  <2> QED BY <1>1, <2>3
<1> QED BY <1>1, <1>2, <1>3

LEMMA DataElsewhere ==
  ASSUME DataInv, UNCHANGED <<arrived, area, read, last>>, queue' \in {queue, <<>>},
         queue' = <<>> \/ number' = number \/ number # "ours"
  PROVE  DataInv'
<1>1. QueueInv'
  <2>1. CASE queue' = queue
    BY <2>1 DEF DataInv, QueueInv
  <2>2. CASE queue' = <<>>
    BY <2>2 DEF DataInv, QueueInv
  <2> QED BY <2>1, <2>2
<1>2. \A k \in Keys : Begun(k)' = Begun(k) /\ Older(k)' = Older(k)
  BY DEF Begun, Older
<1>3. ContentInv'
  BY <1>2 DEF DataInv, ContentInv
<1>4. ReadInOrder'
  BY DEF DataInv, ReadInOrder
<1>5. Apart'
  BY DEF DataInv, Apart
<1> QED BY <1>1, <1>3, <1>4, <1>5 DEF DataInv

LEMMA DataArrive ==
  ASSUME Typed, DataInv, NEW p \in Peers, NEW n \in 0..MaxSize, Arrive(p, n)
  PROVE  DataInv'
<1> DEFINE d == [from |-> p, id |-> arrived', size |-> n]
<1>1. /\ queue' = Append(queue, d) /\ arrived' = arrived + 1
      /\ UNCHANGED <<area, read, last>>
  BY DEF Arrive, streams
<1>2. /\ queue \in Seq(Datagrams) /\ Len(queue) \in Nat /\ arrived \in Nat
      /\ \A i \in 1..Len(queue) : queue[i] \in Datagrams
  BY SizeAssumption DEF Typed
<1>3. /\ Len(queue') = Len(queue) + 1
      /\ \A i \in 1..Len(queue) : queue'[i] = queue[i]
      /\ queue'[Len(queue) + 1].id = arrived + 1
  BY <1>1, <1>2
<1>4. \A e \in Datagrams : e.id \in Nat
  BY DEF Datagrams
<1> HIDE DEF d
<1>5. \A i \in 1..Len(queue) : queue[i].id <= arrived /\ queue[i].id \in Nat
  BY <1>2, <1>4 DEF DataInv, QueueInv
<1>6. \A k \in Keys : last[k].id <= arrived /\ last[k].id \in Nat
  BY StreamTypes DEF DataInv, QueueInv
<1>7. \A i \in 1..Len(queue') : i \in 1..Len(queue) \/ i = Len(queue) + 1
  BY <1>2, <1>3
<1>8. \A i \in 1..Len(queue') : queue'[i].id <= arrived'
  BY <1>1, <1>2, <1>3, <1>5, <1>7
<1>9. \A i, j \in 1..Len(queue') : i < j => queue'[i].id < queue'[j].id
  <2> TAKE i, j \in 1..Len(queue')
  <2>1. CASE j \in 1..Len(queue)
    BY <1>2, <1>3, <1>7, <2>1 DEF DataInv, QueueInv
  <2>2. CASE j = Len(queue) + 1
    BY <1>2, <1>3, <1>5, <1>7, <2>2
  <2> QED BY <1>7, <2>1, <2>2
<1>10. \A k \in Keys : last'[k].id <= arrived'
  BY <1>1, <1>2, <1>6
<1>11. \A k \in Keys : \A i \in 1..Len(queue') : last'[k].id < queue'[i].id
  <2> TAKE k \in Keys
  <2> TAKE i \in 1..Len(queue')
  <2>1. CASE i \in 1..Len(queue)
    BY <1>1, <1>3, <2>1 DEF DataInv, QueueInv
  <2>2. CASE i = Len(queue) + 1
    BY <1>1, <1>2, <1>3, <1>6, <2>2
  <2> QED BY <1>7, <2>1, <2>2
<1>12. QueueInv'
  <2>1. number' = "ours"
    BY DEF Arrive
  <2> QED BY <1>8, <1>9, <1>10, <1>11, <2>1 DEF QueueInv
<1>13. QueueInv /\ ContentInv /\ ReadInOrder /\ Apart
  BY DEF DataInv
<1>14. \A k \in Keys : Begun(k)' = Begun(k) /\ Older(k)' = Older(k)
  BY <1>1 DEF Begun, Older
<1>15. ContentInv'
  BY <1>1, <1>13, <1>14 DEF ContentInv
<1>16. ReadInOrder'
  BY <1>1, <1>13 DEF ReadInOrder
<1>17. Apart'
  BY <1>1, <1>13 DEF Apart
<1> QED BY <1>12, <1>15, <1>16, <1>17 DEF DataInv

(* A datagram that is younger than all before it goes to stream k.         *)
LEMMA DataFed ==
  ASSUME Typed, DataInv, QueueInv', NEW k \in Keys, NEW d \in Datagrams \cup Strange,
         \A j \in Keys : last[j].id < d.id,
         read' = read, Feed(k, d), last' = [last EXCEPT ![k] = d]
  PROVE  DataInv'
<1>2. /\ Length(d) \in Nat /\ Len(Content(d)) = Length(d)
      /\ \A i \in 1..Length(d) : Content(d)[i] = <<d.id, i>>
  BY ContentOf
<1>3. /\ \A j \in Keys : last'[j] = IF j = k THEN d ELSE last[j]
      /\ \A j \in Keys : area'[j] = IF j = k THEN Content(d) ELSE area[j]
  BY DEF Feed, Typed
<1>4. d.id \in Nat
  BY DEF Datagrams, Strange
<1>5. \A j \in Keys : last[j].id \in Nat /\ last[j].id < d.id
  BY StreamTypes
<1>6. ASSUME NEW j \in Keys, NEW i \in 1..Len(read[j])
      PROVE  read[j][i][1] < d.id /\ read[j][i][1] \in Nat
  <2>1. read[j][i][1] <= last[j].id /\ read[j][i][1] \in Nat
    BY NothingYounger, StreamTypes
  <2> QED BY <1>4, <1>5, <2>1
<1>8. ContentInv'
  <2>1. ASSUME NEW j \in Keys, j # k
        PROVE  /\ area'[j] = area[j] /\ read'[j] = read[j] /\ last'[j] = last[j]
               /\ Begun(j)' = Begun(j) /\ Older(j)' = Older(j)
    BY <1>3, <2>1 DEF Begun, Older
  <2>2. /\ area'[k] = Content(d) /\ read'[k] = read[k] /\ last'[k] = d
        /\ Begun(k)' = 0 /\ Older(k)' = Len(read[k]) /\ Len(read[k]) \in Nat
    <3>1. area'[k] = Content(d) /\ read'[k] = read[k] /\ last'[k] = d
      BY <1>3
    <3>2. Len(read[k]) \in Nat
      BY StreamTypes
    <3> QED BY <1>2, <3>1, <3>2 DEF Begun, Older
  <2>3. ASSUME NEW j \in Keys
        PROVE  /\ Begun(j)' >= 0 /\ Older(j)' >= 0
               /\ \A i \in 1..Len(area'[j]) :
                    area'[j][i] = <<last'[j].id, Begun(j)' + i>>
               /\ \A i \in 1..Begun(j)' :
                    read'[j][Older(j)' + i] = <<last'[j].id, i>>
               /\ \A i \in 1..Older(j)' : read'[j][i][1] < last'[j].id
    <3>1. CASE j = k
      <4>1. \A i \in 1..Len(area'[k]) :
              area'[k][i] = <<last'[k].id, Begun(k)' + i>>
        BY <1>2, <2>2
      <4>2. \A i \in 1..Older(k)' : read'[k][i][1] < last'[k].id
        BY <1>6, <2>2
      <4> QED BY <2>2, <3>1, <4>1, <4>2
    <3>2. CASE j # k
      BY <2>1, <3>2 DEF DataInv, ContentInv
    <3> QED BY <3>1, <3>2
  <2> QED BY <2>3 DEF ContentInv
<1>9. ReadInOrder'
  BY DEF DataInv, ReadInOrder
<1>10. Apart'
  <2>1. ASSUME NEW j \in Keys, NEW m \in Keys, j # m
        PROVE  /\ last'[j] # None => last'[j].id # last'[m].id
               /\ \A i \in 1..Len(read[j]) : read[j][i][1] # last'[m].id
    <3>1. CASE j = k
      BY <1>3, <1>4, <1>5, <2>1, <3>1 DEF DataInv, Apart
    <3>2. CASE m = k
      BY <1>3, <1>4, <1>5, <1>6, <2>1, <3>2 DEF DataInv, Apart
    <3>3. CASE j # k /\ m # k
      BY <1>3, <2>1, <3>3 DEF DataInv, Apart
    <3> QED BY <3>1, <3>2, <3>3
  <2> QED BY <2>1 DEF DataInv, Apart
<1> QED BY <1>8, <1>9, <1>10 DEF DataInv

(* The oldest datagram goes to stream k, by receiveOne or by underflow.    *)
LEMMA DataDeliver ==
  ASSUME Typed, DataInv, queue # <<>>, NEW k \in Keys, number' = number,
         queue' = Dequeued, arrived' = arrived, read' = read,
         Feed(k, Head(queue)), last' = [last EXCEPT ![k] = Head(queue)]
  PROVE  DataInv'
<1> DEFINE d == Head(queue)
<1>1. /\ d \in Datagrams /\ d = queue[1] /\ d # None /\ Len(queue) \in Nat \ {0}
      /\ Len(queue') = Len(queue) - 1
      /\ \A i \in 1..Len(queue) - 1 : queue'[i] = queue[i+1]
  BY Dequeue
<1>2. Feed(k, d) /\ last' = [last EXCEPT ![k] = d]
  OBVIOUS
<1>3. \A j \in Keys : last'[j] = IF j = k THEN d ELSE last[j]
  BY DEF Typed
<1>4. d.id \in Nat /\ d.id <= arrived
  BY <1>1 DEF Datagrams, DataInv, QueueInv
<1>5. \A j \in Keys : last[j].id < d.id
  BY <1>1 DEF DataInv, QueueInv
<1> HIDE DEF d
<1>7. QueueInv'
  <2>1. \A i \in 1..Len(queue') : i + 1 \in 1..Len(queue) /\ i \in 1..Len(queue) - 1
    BY <1>1
  <2>2. \A i \in 1..Len(queue') : queue'[i].id <= arrived'
    BY <1>1, <2>1 DEF DataInv, QueueInv
  <2>3. \A i, j \in 1..Len(queue') : i < j => queue'[i].id < queue'[j].id
    BY <1>1, <2>1 DEF DataInv, QueueInv
  <2>4. \A j \in Keys : last'[j].id <= arrived'
    BY <1>3, <1>4 DEF DataInv, QueueInv
  <2>5. \A j \in Keys : \A i \in 1..Len(queue') : last'[j].id < queue'[i].id
    <3> TAKE j \in Keys
    <3> TAKE i \in 1..Len(queue')
    <3>1. queue'[i] = queue[i+1] /\ i + 1 \in 1..Len(queue) /\ 1 < i + 1
      BY <1>1, <2>1
    <3>2. CASE j = k
      <4>1. 1 \in 1..Len(queue) /\ queue[1].id < queue[i+1].id
        BY <1>1, <3>1 DEF DataInv, QueueInv
      <4> QED BY <1>1, <1>3, <3>1, <3>2, <4>1
    <3>3. CASE j # k
      BY <1>3, <3>1, <3>3 DEF DataInv, QueueInv
    <3> QED BY <3>2, <3>3
  <2>6. number' = "ours"
    BY DEF DataInv, QueueInv
  <2> QED BY <2>2, <2>3, <2>4, <2>5, <2>6 DEF QueueInv
<1> QED BY <1>1, <1>2, <1>5, <1>7, DataFed

(* A stranger's datagram goes to stream k: the queue is empty, since the   *)
(* number is not ours.                                                     *)
LEMMA DataForeign ==
  ASSUME Typed, DataInv, NEW k \in Keys, NEW n \in 0..MaxSize, NEW a,
         UnderflowForeign(k, n, a)
  PROVE  DataInv'
<1> DEFINE d == [from |-> Stranger, id |-> arrived + 1, size |-> n]
<1>1. arrived \in Nat /\ arrived' = arrived + 1 /\ arrived + 1 \in 1..MaxDatagrams
  BY SizeAssumption DEF UnderflowForeign, Typed
<1>2. d \in Strange /\ d.id = arrived + 1
  BY <1>1 DEF Strange
<1>3. Feed(k, d) /\ last' = [last EXCEPT ![k] = d] /\ read' = read
  BY DEF UnderflowForeign
<1> HIDE DEF d
<1>4. \A j \in Keys : last[j].id \in Nat /\ last[j].id <= arrived
  BY StreamTypes DEF DataInv, QueueInv
<1>5. \A j \in Keys : last[j].id < d.id
  BY <1>1, <1>2, <1>4
<1>6. queue = <<>> /\ queue' = <<>>
  BY DEF DataInv, QueueInv, UnderflowForeign
<1>7. \A j \in Keys : last'[j].id <= arrived'
  <2>1. \A j \in Keys : last'[j] = IF j = k THEN d ELSE last[j]
    BY <1>3 DEF Typed
  <2> QED BY <1>1, <1>2, <1>4, <2>1
<1>8. QueueInv'
  BY <1>6, <1>7 DEF QueueInv
<1> QED BY <1>2, <1>3, <1>5, <1>8, DataFed

(* One more byte is read of stream k. *)
LEMMA DataRead ==
  ASSUME Typed, DataInv, NEW k \in Keys, Read(k)
  PROVE  DataInv'
<1> DEFINE b == Head(area[k])
           n == Len(read[k]) + 1
<1>1. /\ UNCHANGED <<queue, arrived, last, number>> /\ area[k] # <<>>
      /\ read' = [read EXCEPT ![k] = Append(read[k], b)]
      /\ area' = [area EXCEPT ![k] = Tail(area[k])]
  BY DEF Read, socket
<1>2. /\ last[k].id \in Nat /\ Length(last[k]) \in Nat
      /\ area[k] \in Seq(Bytes) /\ read[k] \in Seq(Bytes) /\ Len(read[k]) \in Nat
      /\ last[k] = None => Length(last[k]) = 0
  BY StreamTypes
<1>3. /\ b \in Bytes /\ b = area[k][1] /\ Len(area[k]) \in Nat \ {0}
      /\ Len(Tail(area[k])) = Len(area[k]) - 1
      /\ \A i \in 1..Len(area[k]) - 1 : Tail(area[k])[i] = area[k][i+1]
  BY <1>1, <1>2, HeadTailProperties, EmptySeq
<1>4. /\ Begun(k) \in Nat /\ Older(k) \in Nat
      /\ Len(read[k]) = Older(k) + Begun(k)
      /\ Begun(k) = Length(last[k]) - Len(area[k])
  BY StreamTypes DEF DataInv, ContentInv, Begun, Older
<1>5. b = <<last[k].id, Begun(k) + 1>>
  BY <1>3 DEF DataInv, ContentInv
<1>6. last[k] # None
  BY <1>2, <1>3, <1>4
<1> HIDE DEF b
<1>7. /\ \A j \in Keys : j # k => area'[j] = area[j] /\ read'[j] = read[j]
      /\ area'[k] = Tail(area[k]) /\ read'[k] = Append(read[k], b)
  BY <1>1 DEF Typed
<1>8. /\ Len(read'[k]) = n /\ read'[k][n] = b /\ n \in Nat \ {0}
      /\ \A i \in 1..Len(read[k]) : read'[k][i] = read[k][i]
  BY <1>2, <1>3, <1>7
<1>9. QueueInv'
  BY <1>1 DEF DataInv, QueueInv
<1>10. Begun(k)' = Begun(k) + 1 /\ Older(k)' = Older(k)
  <2>1. Begun(k)' = Begun(k) + 1
    <3>1. Length(last'[k]) = Length(last[k]) /\ Len(area'[k]) = Len(area[k]) - 1
      BY <1>1, <1>3, <1>7
    <3>2. Begun(k)' = Length(last'[k]) - Len(area'[k])
      BY DEF Begun
    <3> QED BY <1>2, <1>3, <1>4, <3>1, <3>2
  <2>2. Older(k)' = Len(read'[k]) - Begun(k)'
    BY DEF Older
  <2> QED BY <1>2, <1>4, <1>8, <2>1, <2>2
<1>11. ContentInv'
  <2>1. \A i \in 1..Len(area'[k]) : area'[k][i] = <<last[k].id, Begun(k)' + i>>
    <3> TAKE i \in 1..Len(area'[k])
    <3>1. i \in 1..Len(area[k]) - 1 /\ i + 1 \in 1..Len(area[k])
      BY <1>3, <1>7
    <3>2. area'[k][i] = <<last[k].id, Begun(k) + (i + 1)>>
      BY <1>3, <1>7, <3>1 DEF DataInv, ContentInv
    <3> QED BY <1>4, <1>10, <3>1, <3>2
  <2>2. \A i \in 1..Begun(k)' : read'[k][Older(k)' + i] = <<last[k].id, i>>
    <3> TAKE i \in 1..Begun(k)'
    <3>1. CASE i = Begun(k) + 1
      BY <1>4, <1>5, <1>8, <1>10, <3>1
    <3>2. CASE i \in 1..Begun(k)
      <4>1. Older(k) + i \in 1..Len(read[k])
        BY <1>4, <3>2
      <4> QED BY <1>8, <1>10, <3>2, <4>1 DEF DataInv, ContentInv
    <3> QED BY <1>4, <1>10, <3>1, <3>2
  <2>3. \A i \in 1..Older(k)' : read'[k][i][1] < last[k].id
    <3> TAKE i \in 1..Older(k)'
    <3>1. i \in 1..Older(k) /\ i \in 1..Len(read[k])
      BY <1>4, <1>10
    <3> QED BY <1>8, <3>1 DEF DataInv, ContentInv
  <2>4. ASSUME NEW j \in Keys, j # k
        PROVE  /\ area'[j] = area[j] /\ read'[j] = read[j] /\ last'[j] = last[j]
               /\ Begun(j)' = Begun(j) /\ Older(j)' = Older(j)
    BY <1>1, <1>7, <2>4 DEF Begun, Older
  <2>5. ASSUME NEW j \in Keys
        PROVE  /\ Begun(j)' >= 0 /\ Older(j)' >= 0
               /\ \A i \in 1..Len(area'[j]) :
                    area'[j][i] = <<last'[j].id, Begun(j)' + i>>
               /\ \A i \in 1..Begun(j)' :
                    read'[j][Older(j)' + i] = <<last'[j].id, i>>
               /\ \A i \in 1..Older(j)' : read'[j][i][1] < last'[j].id
    <3>1. CASE j = k
      <4>1. Begun(k)' >= 0 /\ Older(k)' >= 0 /\ last'[k] = last[k]
        BY <1>1, <1>4, <1>10
      <4> QED BY <2>1, <2>2, <2>3, <3>1, <4>1
    <3>2. CASE j # k
      BY <2>4, <3>2 DEF DataInv, ContentInv
    <3> QED BY <3>1, <3>2
  <2> QED BY <2>5 DEF ContentInv
<1>12. ReadInOrder'
  <2>1. IF n = 1 THEN b[2] = 1 ELSE Follows(read[k][n-1], b)
    <3>1. CASE Begun(k) = 0
      <4>1. b[2] = 1 /\ b[1] = last[k].id
        BY <1>5, <3>1
      <4>2. n # 1 => n - 1 \in 1..Older(k)
        BY <1>4, <1>8, <3>1
      <4>3. n # 1 => read[k][n-1][1] < last[k].id /\ read[k][n-1][1] \in Nat
        BY <1>4, <4>2, StreamTypes DEF DataInv, ContentInv
      <4> QED BY <1>2, <4>1, <4>3 DEF Follows
    <3>2. CASE Begun(k) > 0
      <4>1. n # 1 /\ n - 1 = Older(k) + Begun(k) /\ Begun(k) \in 1..Begun(k)
        BY <1>4, <1>8, <3>2
      <4>2. read[k][n-1] = <<last[k].id, Begun(k)>>
        BY <4>1 DEF DataInv, ContentInv
      <4> QED BY <1>5, <4>1, <4>2 DEF Follows
    <3> QED BY <1>4, <3>1, <3>2
  <2>2. ASSUME NEW i \in 1..Len(read'[k])
        PROVE  IF i = 1 THEN read'[k][i][2] = 1
               ELSE Follows(read'[k][i-1], read'[k][i])
    <3>1. CASE i = n
      <4>1. n # 1 => n - 1 \in 1..Len(read[k])
        BY <1>8, <1>2
      <4> QED BY <1>8, <2>1, <3>1, <4>1
    <3>2. CASE i # n
      <4>1. i \in 1..Len(read[k]) /\ (i # 1 => i - 1 \in 1..Len(read[k]))
        BY <1>2, <1>8, <3>2
      <4> QED BY <1>8, <4>1 DEF DataInv, ReadInOrder
    <3> QED BY <3>1, <3>2
  <2>3. ASSUME NEW j \in Keys, j # k, NEW i \in 1..Len(read'[j])
        PROVE  IF i = 1 THEN read'[j][i][2] = 1
               ELSE Follows(read'[j][i-1], read'[j][i])
    BY <1>7, <2>3 DEF DataInv, ReadInOrder
  <2> QED BY <2>2, <2>3 DEF ReadInOrder
<1>13. Apart'
  <2>1. \A i \in 1..Len(read'[k]) : read'[k][i][1] = last[k].id
          \/ (i \in 1..Len(read[k]) /\ read'[k][i] = read[k][i])
    <3>1. \A i \in 1..Len(read'[k]) : i = n \/ i \in 1..Len(read[k])
      BY <1>2, <1>8
    <3>2. b[1] = last[k].id
      BY <1>5
    <3> QED BY <1>8, <3>1, <3>2
  <2>2. ASSUME NEW j \in Keys, NEW m \in Keys, j # m,
               NEW i \in 1..Len(read'[j])
        PROVE  /\ read'[j][i][1] # last[m].id
               /\ \A l \in 1..Len(read'[m]) : read'[j][i][1] # read'[m][l][1]
    <3>1. CASE j = k
      <4>1. read'[m] = read[m]
        BY <1>7, <2>2, <3>1
      <4>2. CASE read'[k][i][1] = last[k].id
        BY <1>6, <2>2, <3>1, <4>1, <4>2 DEF DataInv, Apart
      <4>3. CASE i \in 1..Len(read[k]) /\ read'[k][i] = read[k][i]
        BY <2>2, <3>1, <4>1, <4>3 DEF DataInv, Apart
      <4> QED BY <2>1, <3>1, <4>2, <4>3
    <3>2. CASE m = k
      <4>1. read'[j] = read[j] /\ i \in 1..Len(read[j])
        BY <1>7, <2>2, <3>2
      <4>2. read[j][i][1] # last[k].id
              /\ \A l \in 1..Len(read[k]) : read[j][i][1] # read[k][l][1]
        BY <2>2, <3>2, <4>1 DEF DataInv, Apart
      <4> QED BY <2>1, <3>2, <4>1, <4>2
    <3>3. CASE j # k /\ m # k
      BY <1>7, <2>2, <3>3 DEF DataInv, Apart
    <3> QED BY <3>1, <3>2, <3>3
  <2> QED BY <1>1, <2>2 DEF DataInv, Apart
<1> QED BY <1>9, <1>11, <1>12, <1>13 DEF DataInv

-----------------------------------------------------------------------------
LEMMA NextDataInv == Typed /\ DataInv /\ [Next]_vars => DataInv'
<1> SUFFICES ASSUME Typed, DataInv, [Next]_vars PROVE DataInv'
  OBVIOUS
<1> USE DEF socket, streams, owners
<1>1. ASSUME NEW nonBlock \in BOOLEAN, NEW t \in {0} \cup Timeouts,
             Receive(nonBlock, t)
      PROVE  DataInv'
  BY <1>1, Dequeue, DataDeliver DEF Receive
<1>2. ASSUME NEW nonBlock \in BOOLEAN, NEW t \in {0} \cup Timeouts,
             NEW k \in Keys, NEW a \in {k, Bad}, ReceiveTimesOut(nonBlock, t, k, a)
      PROVE  DataInv'
  <2>1. /\ area' = [area EXCEPT ![k] = area[k]]
        /\ UNCHANGED <<queue, arrived, read, last, number>>
    BY <1>2 DEF ReceiveTimesOut, AreaAfterTimeout
  <2>2. area' = area
    BY <2>1 DEF Typed
  <2> QED BY <2>1, <2>2, DataElsewhere
<1>3. ASSUME NEW k \in Keys, Underflow(k)
      PROVE  DataInv'
  BY <1>3, DataDeliver DEF Underflow
<1>4. ASSUME NEW k \in Keys, Release(k)
      PROVE  DataInv'
  BY <1>4, DataElsewhere DEF Release, CloseNumber
<1>5. CASE ServerDestroy
  BY <1>5, DataElsewhere DEF ServerDestroy, CloseNumber
<1>6. CASE \/ \E k \in Keys : UnderflowFails(k) \/ Clear(k)
           \/ \E k \in Keys, sent \in BOOLEAN : Overflow(k, sent)
           \/ OtherOpens
  BY <1>6, DataElsewhere DEF UnderflowFails, Clear, Overflow, OtherOpens
<1>7. CASE UNCHANGED vars
  BY <1>7, DataElsewhere DEF vars
<1>8. ASSUME NEW k \in Keys, NEW n \in 0..MaxSize, NEW a \in {addr[k], Stranger},
             UnderflowForeign(k, n, a)
      PROVE  DataInv'
  BY <1>8, DataForeign
<1> QED
  BY <1>1, <1>2, <1>3, <1>4, <1>5, <1>6, <1>7, <1>8, DataArrive, DataRead
  DEF Next, ServerCall, StreamCall, Environment

LEMMA InitUdpInv == Init => UdpInv
<1> SUFFICES ASSUME Init PROVE UdpInv
  OBVIOUS
<1>1. Typed
  BY InitTyped
<1>2. OwnersInv
  BY FS_EmptySet DEF Init, OwnersInv
<1>3. AddressInv
  BY DEF Init, AddressInv
<1>4. \A k \in Keys : /\ last[k] = None /\ area[k] = <<>> /\ read[k] = <<>>
                      /\ Length(last[k]) = 0
  BY SizeAssumption DEF Init, Length, None
<1>5. queue = <<>> /\ arrived = 0 /\ None.id = 0
  BY DEF Init, None
<1>6. \A k \in Keys : Begun(k) = 0 /\ Older(k) = 0
  BY <1>4 DEF Begun, Older
<1>7. QueueInv
  BY <1>4, <1>5 DEF QueueInv, Init
<1>8. ContentInv
  BY <1>4, <1>6 DEF ContentInv
<1>9. ReadInOrder /\ Apart
  BY <1>4 DEF ReadInOrder, Apart
<1> QED BY <1>1, <1>2, <1>3, <1>7, <1>8, <1>9 DEF UdpInv, DataInv

LEMMA UdpInvariant == Spec => []UdpInv
<1>1. UdpInv /\ [Next]_vars => UdpInv'
  BY NextTyped, NextOwnersInv, NextAddressInv, NextDataInv DEF UdpInv
<1> QED BY InitUdpInv, <1>1, PTL DEF Spec

(* Every variable keeps its type; no get area holds more than one recvfrom *)
(* takes (udp_server::receiveOne, add_received_data).                      *)
THEOREM UdpTypeOK == Spec => []TypeOK
<1>1. UdpInv => TypeOK
  <2> SUFFICES ASSUME Typed PROVE TypeOK
    BY DEF UdpInv
  <2>1. \A S : \A q \in Seq(S) : \A i \in 1..Len(q) : q[i] \in S
    BY ElementOfSeq
  <2>2. \A i \in 1..Len(queue) : queue[i] \in Datagrams
    BY <2>1 DEF Typed
  <2>3. ASSUME NEW k \in Keys
        PROVE  /\ \A i \in 1..Len(area[k]) : area[k][i] \in Bytes
               /\ \A i \in 1..Len(read[k]) : read[k][i] \in Bytes
    BY <2>1, StreamTypes
  <2> QED BY <2>2, <2>3 DEF TypeOK, Typed
<1> QED BY UdpInvariant, <1>1, PTL

(* No byte of a datagram is read twice, from one stream or from two, what  *)
(* is read of a stream is in the order of arrival, and a byte that was not *)
(* sent to the server is read only by a stream that outlived it and whose  *)
(* number another stream closed (receiveOne, underflow, ~udp_streambuf).   *)
THEOREM UdpReadOnce == Spec => []ReadOnce
<1>1. ASSUME Typed, OwnersInv, NEW k \in Keys, NEW i \in 1..Len(read[k]),
             read[k][i][1] \in strange
      PROVE  stray /\ ~server /\ created \ {k} # {}
  <2>1. stray /\ ~server /\ IsFiniteSet(created) /\ ~(Cardinality(created) <= 1)
    BY <1>1 DEF OwnersInv
  <2>2. ASSUME created \subseteq {k} PROVE FALSE
    <3>1. IsFiniteSet({k}) /\ Cardinality({k}) = 1
      BY FS_Singleton
    <3>2. Cardinality(created) <= Cardinality({k})
      BY <2>2, <3>1, FS_Subset
    <3> QED BY <2>1, <3>1, <3>2
  <2> QED BY <2>1, <2>2
<1>2. UdpInv => ReadOnce
  BY <1>1 DEF UdpInv, DataInv, ReadInOrder, Apart, ReadOnce
<1> QED BY UdpInvariant, <1>2, PTL

(* Of the last datagram that a stream got, every byte that was taken is    *)
(* read or still in the get area, also after a receive that timed out.     *)
THEOREM UdpLatestKept == Spec => []LatestKept
<1>1. UdpInv => LatestKept
  <2> SUFFICES ASSUME Typed, DataInv, NEW k \in Keys, NEW i \in 1..Length(last[k])
               PROVE  \/ <<last[k].id, i>> \in {area[k][j] : j \in 1..Len(area[k])}
                      \/ <<last[k].id, i>> \in {read[k][j] : j \in 1..Len(read[k])}
    BY DEF UdpInv, LatestKept, Typed
  <2>1. /\ Begun(k) \in Nat /\ Older(k) \in Nat /\ Len(area[k]) \in Nat
        /\ Length(last[k]) = Begun(k) + Len(area[k])
        /\ Len(read[k]) = Older(k) + Begun(k)
    <3>1. Begun(k) >= 0 /\ Older(k) >= 0
      BY DEF DataInv, ContentInv
    <3>2. Len(area[k]) \in Nat /\ Length(last[k]) \in Nat /\ Len(read[k]) \in Nat
      BY StreamTypes
    <3>3. Begun(k) = Length(last[k]) - Len(area[k])
      BY DEF Begun
    <3>4. Older(k) = Len(read[k]) - Begun(k)
      BY DEF Older
    <3> QED BY ONLY <3>1, <3>2, <3>3, <3>4
  <2>2. CASE i > Begun(k)
    <3>1. i - Begun(k) \in 1..Len(area[k]) /\ Begun(k) + (i - Begun(k)) = i
      BY <2>1, <2>2
    <3>2. area[k][i - Begun(k)] = <<last[k].id, i>>
      BY <3>1 DEF DataInv, ContentInv
    <3> QED BY <3>1, <3>2
  <2>3. CASE i <= Begun(k)
    <3>1. i \in 1..Begun(k) /\ Older(k) + i \in 1..Len(read[k])
      BY <2>1, <2>3
    <3>2. read[k][Older(k) + i] = <<last[k].id, i>>
      BY <3>1 DEF DataInv, ContentInv
    <3> QED BY <3>1, <3>2
  <2>4. i > Begun(k) \/ i <= Begun(k)
    BY <2>1
  <2> QED BY <2>2, <2>3, <2>4
<1> QED BY UdpInvariant, <1>1, PTL

(* A reply goes to the sender of the datagram that was got last, or        *)
(* nowhere (udp_streambuf::overflow, underflow).                           *)
THEOREM UdpReplyToSender == Spec => []ReplyToSender
<1>1. UdpInv => ReplyToSender
  <2> SUFFICES ASSUME Typed, AddressInv, NEW k \in created, last[k] # None,
                      pulled[k] \in {Nobody, last[k].from} \ {Stranger}
               PROVE  addr[k] \in {last[k].from, Bad}
    BY DEF UdpInv, ReplyToSender
  <2>1. k \in Keys
    BY DEF Typed
  <2> QED BY <2>1 DEF AddressInv
<1> QED BY UdpInvariant, <1>1, PTL

(* The number stays the server's own while it lives; with one stream it is *)
(* closed once (~udp_server, ~udp_streambuf).                              *)
THEOREM UdpNumberKept == Spec => []NumberKept
<1>1. UdpInv => NumberKept
  BY DEF UdpInv, OwnersInv, NumberKept
<1> QED BY UdpInvariant, <1>1, PTL
=============================================================================
