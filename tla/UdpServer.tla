----------------------------- MODULE UdpServer -----------------------------
(***************************************************************************)
(* A udp_server and the udp_iostreams that it makes, one for each sender.  *)
(* All of them read and write the one descriptor of the server, and each   *)
(* closes it when it is destroyed.  The server owns its streams through a  *)
(* map that only grows; the program may hold shared pointers of its own    *)
(* and outlive the server with them.  One thread makes the calls; datagrams*)
(* come in at any time.                                                    *)
(***************************************************************************)
EXTENDS Integers, Sequences, FiniteSets

CONSTANTS
  Peers,         \* addresses that send datagrams
  Nobody,        \* every other address that an uninitialised one may hold
  Bad,           \* an address that cannot be sent to
  Stranger,      \* who sends to a descriptor that is not ours
  Timeouts,      \* values of nonBlockMicroSecTimeout, besides 0
  Buffer,        \* how much one recvfrom takes at most (4096 in the code)
  MaxSize,       \* longest datagram
  MaxDatagrams   \* bound: how many datagrams come in, strangers' included

ASSUME SizeAssumption == Buffer \in Nat \ {0} /\ MaxSize \in Nat
                         /\ MaxDatagrams \in Nat /\ Timeouts \subseteq Nat \ {0}
ASSUME AddressAssumption == /\ Nobody \notin Peers /\ Bad \notin Peers \cup {Nobody}
                            /\ Stranger \notin Peers \cup {Nobody, Bad}

Keys == Peers \cup {Nobody}      \* keys of clientStreams: one stream for each
Addresses == Keys \cup {Bad, Stranger}
Datagrams == [from : Peers, id : 1..MaxDatagrams, size : 0..MaxSize]
Strange == [from : {Stranger}, id : 1..MaxDatagrams, size : 0..MaxSize]
Bytes == (1..MaxDatagrams) \X (1..Buffer)    \* datagram and place in it
None == [from |-> Nobody, id |-> 0, size |-> 0]

VARIABLES
  queue, arrived,  \* datagrams that the descriptor holds; how many came in,
                   \* with those that were read of another's descriptor
  timeout,         \* m_nonBlockMicroSecTimeout; 0: recvfrom blocks
  server,          \* whether the udp_server still is
  clientStreams,   \* keys in its map
  held,            \* streams that the program has a pointer to
  area, addr,      \* of each stream: what is left to read, and its address
  good,            \* whether its iostate is good
  number,          \* who has the descriptor's number: "ours", "free", "other"
  created,         \* history: streams ever made
  read,            \* history: the bytes read from each stream, in order
  last,            \* history: the datagram each stream got last
  pulled,          \* history: whose datagram its underflow took last
  strange,         \* history: the datagrams read of another's descriptor
  stray            \* history: a number that was not ours was used or closed

socket == <<queue, arrived>>
streams == <<area, addr, good, read, last, pulled, strange>>
owners == <<timeout, server, clientStreams, held, created>>
vars == <<socket, streams, owners, number, stray>>

Init == /\ queue = <<>> /\ arrived = 0
        /\ timeout = 0 /\ server = TRUE
        /\ clientStreams = {} /\ held = {} /\ created = {}
        /\ area = [k \in Keys |-> <<>>] /\ addr = [k \in Keys |-> k]
        /\ good = [k \in Keys |-> TRUE]
        /\ read = [k \in Keys |-> <<>>] /\ last = [k \in Keys |-> None]
        /\ pulled = [k \in Keys |-> Nobody] /\ strange = {}
        /\ number = "ours" /\ stray = FALSE

-----------------------------------------------------------------------------
Arrive(p, n) == /\ arrived < MaxDatagrams /\ number = "ours"
                /\ arrived' = arrived + 1
                /\ queue' = Append(queue, [from |-> p, id |-> arrived', size |-> n])
                /\ UNCHANGED <<streams, owners, number, stray>>

(* recvfrom: the rest of a datagram that is too long is gone. *)
Length_Whole(d) == d.size                                    \* mutant
Length(d) == IF d.size > Buffer THEN Buffer ELSE d.size
Content(d) == [i \in 1..Length(d) |-> <<d.id, i>>]

Dequeued_Peeked == queue                                     \* mutant
Dequeued == Tail(queue)

Feed(k, d) == area' = [area EXCEPT ![k] = Content(d)]

-----------------------------------------------------------------------------
(* udp_server::receiveOne.  A timeout stays set for every later recvfrom.  *)

TimeoutAfter(nonBlock, t) == IF nonBlock THEN t ELSE timeout

Receive(nonBlock, t) ==
  LET d == Head(queue)
      k == d.from
  IN  /\ server /\ queue # <<>>
      /\ timeout' = TimeoutAfter(nonBlock, t)
      /\ queue' = Dequeued
      /\ clientStreams' = clientStreams \cup {k}
      /\ created' = created \cup {k}
      /\ Feed(k, d)
      /\ last' = [last EXCEPT ![k] = d]
      /\ held' = held \cup {k}
      /\ UNCHANGED <<arrived, server, addr, good, read, pulled, strange, number,
                     stray>>

(* The key is made of an address that nobody has written.  A stream is     *)
(* made if that key has none, and then add_received_data throws: -1 as a   *)
(* size is more than a vector can hold.                                    *)
AreaAfterTimeout_Emptied(k) == <<>>                          \* mutant
AreaAfterTimeout(k) == area[k]

ReceiveTimesOut(nonBlock, t, k, a) ==
  /\ server /\ queue = <<>>
  /\ timeout' = TimeoutAfter(nonBlock, t) /\ timeout' # 0
  /\ clientStreams' = clientStreams \cup {k}
  /\ created' = created \cup {k}
  /\ addr' = [addr EXCEPT ![k] = IF k \in clientStreams THEN @ ELSE a]
  /\ area' = [area EXCEPT ![k] = AreaAfterTimeout(k)]
  /\ UNCHANGED <<socket, server, held, good, read, last, pulled, strange,
                 number, stray>>

-----------------------------------------------------------------------------
(* A held stream.  Its get area is read first; underflow then takes the    *)
(* next datagram, whoever sent it, and its address.                        *)

Read(k) ==
  /\ k \in held /\ good[k] /\ area[k] # <<>>
  /\ read' = [read EXCEPT ![k] = Append(@, Head(area[k]))]
  /\ area' = [area EXCEPT ![k] = Tail(@)]
  /\ UNCHANGED <<socket, addr, good, last, pulled, strange, owners, number,
                 stray>>

AddressAfter_Kept(k, d) == addr[k]                           \* mutant
AddressAfter(k, d) == d.from

Underflow(k) ==
  LET d == Head(queue)
  IN  /\ k \in held /\ good[k] /\ area[k] = <<>>
      /\ number = "ours" /\ queue # <<>>
      /\ queue' = Dequeued
      /\ addr' = [addr EXCEPT ![k] = AddressAfter(k, d)]
      /\ Feed(k, d)
      /\ good' = [good EXCEPT ![k] = d.size > 0]
      /\ last' = [last EXCEPT ![k] = d]
      /\ pulled' = [pulled EXCEPT ![k] = d.from]
      /\ UNCHANGED <<arrived, read, strange, owners, number, stray>>

(* The number has become somebody else's, and there is something to read   *)
(* from it: the stream gets a stranger's bytes, and the stranger's address *)
(* if the descriptor is one that tells it.                                 *)
UnderflowForeign(k, n, a) ==
  LET d == [from |-> Stranger, id |-> arrived + 1, size |-> n]
  IN  /\ k \in held /\ good[k] /\ area[k] = <<>>
      /\ number = "other" /\ arrived < MaxDatagrams
      /\ arrived' = arrived + 1
      /\ strange' = strange \cup {d.id}
      /\ addr' = [addr EXCEPT ![k] = a]
      /\ Feed(k, d)
      /\ good' = [good EXCEPT ![k] = n > 0]
      /\ last' = [last EXCEPT ![k] = d]
      /\ pulled' = [pulled EXCEPT ![k] = Stranger]
      /\ stray' = TRUE
      /\ UNCHANGED <<queue, read, owners, number>>

(* End of file: the timeout, a number that is not open any more, or one of *)
(* somebody else's that has nothing to read or cannot be read so.          *)
UnderflowFails(k) ==
  /\ k \in held /\ good[k] /\ area[k] = <<>>
  /\ number = "ours" => queue = <<>> /\ timeout # 0
  /\ good' = [good EXCEPT ![k] = FALSE]
  /\ stray' = (stray \/ number = "other")
  /\ UNCHANGED <<socket, area, addr, read, last, pulled, strange, owners,
                 number>>

(* overflow: with no put area, each character goes out on its own, and     *)
(* sendto may fail.                                                        *)
Overflow(k, sent) ==
  /\ k \in held /\ good[k]
  /\ sent => addr[k] # Bad /\ number # "free"
  /\ good' = [good EXCEPT ![k] = sent]
  /\ stray' = (stray \/ number = "other")
  /\ UNCHANGED <<socket, area, addr, read, last, pulled, strange, owners,
                 number>>

Clear(k) == /\ k \in held /\ ~good[k]
            /\ good' = [good EXCEPT ![k] = TRUE]
            /\ UNCHANGED <<socket, area, addr, read, last, pulled, strange,
                           owners, number, stray>>

-----------------------------------------------------------------------------
(* Destruction.  A stream goes with the last pointer to it, and closes.    *)
(* When several go, the number may have been opened again between the      *)
(* first close and the next.                                               *)

Destroyed_Unmapped(mapped, handles) == held \ handles        \* mutant
Destroyed(mapped, handles) == (clientStreams \cup held) \ (mapped \cup handles)

CloseNumber(gone) ==
  /\ number' = IF gone = {} THEN number ELSE "free"
  /\ queue' = IF gone = {} THEN queue ELSE <<>>
  /\ \E again \in {FALSE, Cardinality(gone) > 1} :
       stray' = (stray \/ again \/ (gone # {} /\ number = "other"))

(* io_udp_stream_close and io_udp_stream_destroy both let go of the stream. *)
Release(k) == /\ k \in held
              /\ held' = held \ {k}
              /\ CloseNumber(Destroyed(clientStreams, held'))
              /\ UNCHANGED <<arrived, streams, timeout, server, clientStreams,
                             created>>

(* The destructor leaves the descriptor to the streams. *)
ServerDestroy == /\ server
                 /\ server' = FALSE /\ clientStreams' = {}
                 /\ CloseNumber(Destroyed({}, held))
                 /\ UNCHANGED <<arrived, streams, timeout, held, created>>

OtherOpens == /\ number = "free" /\ number' = "other"
              /\ UNCHANGED <<socket, streams, owners, stray>>

ServerCall == \/ \E nonBlock \in BOOLEAN, t \in {0} \cup Timeouts :
                   \/ Receive(nonBlock, t)
                   \/ \E k \in Keys : \E a \in {k, Bad} :
                        ReceiveTimesOut(nonBlock, t, k, a)
              \/ ServerDestroy
StreamCall == \E k \in Keys :
  \/ Read(k) \/ Underflow(k) \/ UnderflowFails(k)
  \/ \E n \in 0..MaxSize, a \in {addr[k], Stranger} : UnderflowForeign(k, n, a)
  \/ \E sent \in BOOLEAN : Overflow(k, sent)
  \/ Clear(k) \/ Release(k)
Environment == \/ \E p \in Peers, n \in 0..MaxSize : Arrive(p, n)
               \/ OtherOpens

Next == ServerCall \/ StreamCall \/ Environment

Spec == Init /\ [][Next]_vars

-----------------------------------------------------------------------------
(* What each variable holds; no get area is longer than what one recvfrom  *)
(* can take (udp_server::receiveOne, udp_streambuf::add_received_data).    *)
TypeOK == /\ \A i \in 1..Len(queue) : queue[i] \in Datagrams
          /\ arrived \in 0..MaxDatagrams
          /\ timeout \in {0} \cup Timeouts /\ server \in BOOLEAN
          /\ clientStreams \cup held \subseteq created /\ created \subseteq Keys
          /\ \A k \in Keys :
               /\ \A i \in 1..Len(area[k]) : area[k][i] \in Bytes
               /\ addr[k] \in Addresses /\ good[k] \in BOOLEAN
               /\ \A i \in 1..Len(read[k]) : read[k][i] \in Bytes
               /\ last[k] \in Datagrams \cup Strange \cup {None}
               /\ pulled[k] \in Keys \cup {Stranger}
          /\ strange \subseteq 1..arrived
          /\ number \in {"ours", "free", "other"} /\ stray \in BOOLEAN

(* Though all streams read one descriptor and each receiveOne overwrites   *)
(* what a stream has left, what is read from a stream is the beginnings of *)
(* datagrams, in the order of their arrival, and no byte is read twice,    *)
(* neither from one stream nor from two.  Bytes that were never sent to    *)
(* the server are read only from a stream that has outlived it together    *)
(* with another, which closed the number: the server alone, or a single    *)
(* stream, never gives such a byte away (~udp_streambuf closes, underflow).*)
Follows(b, c) == \/ c[1] = b[1] /\ c[2] = b[2] + 1
                 \/ c[1] > b[1] /\ c[2] = 1
ReadOnce ==
  /\ \A k \in Keys : \A i \in 1..Len(read[k]) :
       IF i = 1 THEN read[k][i][2] = 1 ELSE Follows(read[k][i-1], read[k][i])
  /\ \A j, k \in Keys : j # k =>
       {read[j][i][1] : i \in 1..Len(read[j])}
         \cap {read[k][i][1] : i \in 1..Len(read[k])} = {}
  /\ \A k \in Keys : \A i \in 1..Len(read[k]) :
       read[k][i][1] \in strange => /\ stray /\ ~server
                                    /\ created \ {k} # {}

(* Only a newer datagram for the same stream makes it lose bytes: those of *)
(* the last one it got are read or still to be read, even after a receive  *)
(* that timed out and was told an address nobody wrote.                    *)
LatestKept ==
  \A k \in created : last[k] # None =>
    \A i \in 1..Length(last[k]) :
      \/ <<last[k].id, i>> \in {area[k][j] : j \in 1..Len(area[k])}
      \/ <<last[k].id, i>> \in {read[k][j] : j \in 1..Len(read[k])}

(* What is written to a stream goes to the sender of the datagram that it  *)
(* got last, or nowhere, though underflow takes other senders' datagrams;  *)
(* but not once receiveOne has fed the stream after it took such a one:    *)
(* add_received_data leaves the address alone; nor after a read of         *)
(* another's descriptor, which may leave any address.                      *)
ReplyToSender ==
  \A k \in created :
    last[k] # None /\ pulled[k] \in {Nobody, last[k].from} \ {Stranger}
      => addr[k] \in {last[k].from, Bad}

(* The server's number stays its own while it lives, and is given back     *)
(* when it and its streams are gone, if there were any.  With one stream   *)
(* it is closed once, with the last pointer to it, and never hits a number *)
(* that has become somebody else's.                                        *)
NumberKept ==
  /\ server => number = "ours"
  /\ created # {} /\ ~server /\ held = {} => number # "ours"
  /\ Cardinality(created) = 1 =>
       ~stray /\ (server \/ held # {} => number = "ours")
=============================================================================
