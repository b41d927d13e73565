------------------------------- MODULE CApiTcp -------------------------------
(***************************************************************************)
(* The handles of the C API for TCP and TLS, and what they stand for:      *)
(* SSL_CTX objects with OpenSSL's reference counts, tcp_clients, a         *)
(* tcp_server with the connections in its map, and descriptor numbers,     *)
(* which the system gives out again once they are closed.  The program     *)
(* makes the calls in any order.  It keeps three rules: a handle is not    *)
(* used after it was destroyed, nor a stream whose connection is gone, and *)
(* a context that has an owner is neither freed nor given to another.      *)
(***************************************************************************)
EXTENDS SslFactory, FiniteSets

CONSTANTS
  Ctxs,            \* SSL_CTX objects
  Conns,           \* tcp_iostreams: those of clients, and accepted ones
  Server,          \* the tcp_server, which holds a number as they do
  Fds,             \* descriptor numbers the process may have open
  Ids,             \* how many values size_t has (2^64 in the code)
  InitialTotals,   \* what totalClients, never initialised, may hold
  NoCtx, NoConn, NoFd,
  Free, Other, Lost  \* a number that is free, somebody else's, or leaked

Holders == Conns \cup {Server}

ASSUME NumberAssumption == /\ IsFiniteSet(Conns)
                           /\ Ids \in Nat /\ Ids > Cardinality(Conns)
                           /\ InitialTotals \subseteq 0..Ids-1
ASSUME NameAssumption == /\ NoCtx \notin Ctxs /\ NoConn \notin Conns
                         /\ NoFd \notin Fds /\ Server \notin Conns
                         /\ {Free, Other, Lost} \cap Holders = {}

VARIABLES
  refs,       \* references to each SSL_CTX; 0: freed, or not made yet
  ctx,        \* its handle: "none", "live" or "freed"
  life,       \* of each holder: "none", "live" or "gone"
  fd, closed, \* its number, and ctx_fd_closed or fd_closed
  ssl,        \* the context of its SSL
  ssl_ctx,    \* the context that a tcp_client or the server was given
  totalClients, clientStreamMap,
  client,     \* the handle of a tcp_client: "none", "live" or "destroyed"
  stream,     \* the handle of an accepted connection, likewise
  serials,    \* connections that a Serial of the program refers to
  fds,        \* who opened each number
  taken,      \* history: contexts given to a tcp_client
  lost,       \* history: SSLs of each context left behind by connect
  debris,     \* history: what the ssl_factory left behind
  touched,    \* history: contexts used after they were freed
  stray,      \* history: a number was closed that was another's
  dismissed   \* history: connections closed with close_client

counts == <<refs, touched>>
numbers == <<fds, stray>>
holder == <<life, fd, closed, ssl, ssl_ctx>>
given == <<ctx, taken, lost, debris>>
map == <<totalClients, clientStreamMap, dismissed>>
handles == <<client, stream, serials>>
vars == <<counts, numbers, holder, given, map, handles>>

Init == /\ refs = [c \in Ctxs |-> 0] /\ touched = {}
        /\ fds = [f \in Fds |-> Free] /\ stray = FALSE
        /\ life = [h \in Holders |-> "none"] /\ fd = [h \in Holders |-> NoFd]
        /\ closed = [h \in Holders |-> FALSE]
        /\ ssl = [h \in Holders |-> NoCtx]
        /\ ssl_ctx = [h \in Holders |-> NoCtx]
        /\ ctx = [c \in Ctxs |-> "none"]
        /\ taken = {} /\ debris = {} /\ lost = [c \in Ctxs |-> 0]
        /\ totalClients \in InitialTotals
        /\ clientStreamMap = [i \in 0..Ids-1 |-> NoConn] /\ dismissed = {}
        /\ client = [k \in Conns |-> "none"]
        /\ stream = [k \in Conns |-> "none"] /\ serials = {}

-----------------------------------------------------------------------------
(* Numbers and references. *)

(* The system gives out a number that is free: which one, it decides.      *)
OpenNumber(f, who) == /\ fds[f] = Free
                      /\ fds' = [fds EXCEPT ![f] = who]
                      /\ UNCHANGED stray

(* SSL_new, which takes a reference, or no TLS. *)
SSL_new(c) == IF c = NoCtx THEN UNCHANGED counts
              ELSE /\ refs' = [refs EXCEPT ![c] = @ + 1]
                   /\ touched' = touched \cup {d \in {c} : refs[d] = 0}

(* A holder on a new number, with an SSL of context c, given context g. *)
Open(h, f, c, g) == /\ OpenNumber(f, h)
                    /\ life' = [life EXCEPT ![h] = "live"]
                    /\ fd' = [fd EXCEPT ![h] = f]
                    /\ ssl' = [ssl EXCEPT ![h] = c]
                    /\ ssl_ctx' = [ssl_ctx EXCEPT ![h] = g]
                    /\ UNCHANGED closed

(* close() of the holders S, which passes over those that were closed      *)
(* before: SSL_free gives a reference back, close_socket the number.  A    *)
(* reference to context c is freed first; Gone are destroyed afterwards.   *)
Unclosed(S) == {h \in S : life[h] = "live" /\ ~closed[h]}

Dropped(S, freed, c) ==
  Cardinality({h \in Unclosed(S) : ssl[h] = c}) + (IF c = freed THEN 1 ELSE 0)

Release(S, freed) ==
  /\ refs' = [c \in Ctxs |-> IF Dropped(S, freed, c) > refs[c] THEN 0
                             ELSE refs[c] - Dropped(S, freed, c)]
  /\ touched' = touched \cup {c \in Ctxs : Dropped(S, freed, c) > refs[c]}

Close(S, freed, Gone) ==
  /\ Release(S, freed)
  /\ fds' = [f \in Fds |-> IF f \in {fd[h] : h \in Unclosed(S)} THEN Free
                           ELSE fds[f]]
  /\ stray' = (stray \/ \E h \in Unclosed(S) : fds[fd[h]] # h)
  /\ closed' = [h \in Holders |-> closed[h] \/ h \in Unclosed(S)]
  /\ life' = [h \in Holders |-> IF h \in Gone THEN "gone" ELSE life[h]]
  /\ UNCHANGED <<fd, ssl, ssl_ctx>>

-----------------------------------------------------------------------------
(* SSL contexts.  A tcp_client frees the context that it was given, and a  *)
(* tcp_server uses the one it was given as long as it accepts.             *)

Accepting == life[Server] = "live" /\ ~closed[Server]
Claimed == taken \cup {c \in Ctxs : Accepting /\ c = ssl_ctx[Server]}
Usable == {NoCtx} \cup ({c \in Ctxs : ctx[c] = "live"} \ Claimed)

(* The ssl_factory makes a context, or throws. *)
SslCreate(c) ==
  /\ ctx[c] = "none"
  /\ \E left \in LeftByMade : debris' = debris \cup left
  /\ ctx' = [ctx EXCEPT ![c] = "live"]
  /\ refs' = [refs EXCEPT ![c] = 1]
  /\ UNCHANGED <<touched, numbers, holder, taken, lost, map, handles>>

SslCreateFails ==
  /\ \E left \in LeftByFailed : debris' = debris \cup left
  /\ UNCHANGED <<counts, numbers, holder, ctx, taken, lost, map, handles>>

SslFree(c) == /\ c \in Usable
              /\ ctx' = [ctx EXCEPT ![c] = "freed"]
              /\ Release({}, c)
              /\ UNCHANGED <<numbers, holder, taken, lost, debris, map, handles>>

-----------------------------------------------------------------------------
(* Clients *)

ClientCreate(k, c, f) ==
  /\ life[k] = "none" /\ c \in Usable
  /\ Open(k, f, c, c)
  /\ SSL_new(c)
  /\ client' = [client EXCEPT ![k] = "live"]
  /\ taken' = taken \cup ({c} \ {NoCtx})
  /\ UNCHANGED <<ctx, lost, debris, map, stream, serials>>

(* connect throws: the number and the SSL are not given back, and there is *)
(* no tcp_client that would free the context.                              *)
ClientCreateFails(c, f) ==
  /\ c \in Usable
  /\ OpenNumber(f, Lost)
  /\ SSL_new(c)
  /\ lost' = [d \in Ctxs |-> IF d = c THEN lost[d] + 1 ELSE lost[d]]
  /\ UNCHANGED <<holder, ctx, taken, debris, map, handles>>

ClientClose(k) == /\ client[k] = "live"
                  /\ Close({k}, NoCtx, {})
                  /\ UNCHANGED <<given, map, handles>>

(* ~tcp_client frees the context, and the stream is destroyed. *)
FreedBy_None(k) == NoCtx                                     \* mutant
FreedBy(k) == ssl_ctx[k]

ClientDestroy(k) == /\ client[k] = "live"
                    /\ Close({k}, FreedBy(k), {k})
                    /\ client' = [client EXCEPT ![k] = "destroyed"]
                    /\ UNCHANGED <<given, map, stream, serials>>

-----------------------------------------------------------------------------
(* The server *)

ServerCreate(c, f) == /\ life[Server] = "none" /\ c \in Usable
                      /\ Open(Server, f, NoCtx, c)
                      /\ UNCHANGED <<counts, given, map, handles>>

ServerClose == /\ life[Server] = "live"
               /\ Close({Server}, NoCtx, {})
               /\ UNCHANGED <<given, map, handles>>

(* close, and the map goes with every connection in it.                    *)
Mapped == {clientStreamMap[i] : i \in 0..Ids-1} \ {NoConn}
InServer_MapOnly == Mapped                                   \* mutant
InServer == {Server} \cup Mapped

ServerDestroy == /\ life[Server] = "live"
                 /\ Close(InServer, NoCtx, {Server} \cup Mapped)
                 /\ clientStreamMap' = [i \in 0..Ids-1 |-> NoConn]
                 /\ UNCHANGED <<given, totalClients, dismissed, handles>>

(* A client is waiting.  The handle points to the stream in the map; the   *)
(* id under which it is there is not told.                                 *)
NextId == (totalClients + 1) % Ids

Accept(k, f) ==
  /\ Accepting /\ life[k] = "none"
  /\ Open(k, f, ssl_ctx[Server], NoCtx)
  /\ SSL_new(ssl_ctx[Server])
  /\ totalClients' = NextId
  /\ clientStreamMap' = [clientStreamMap EXCEPT ![totalClients'] = k]
  /\ stream' = [stream EXCEPT ![k] = "live"]
  /\ UNCHANGED <<given, dismissed, client, serials>>

(* close_client of any id: 0 is the one that accept told. *)
CloseClient(i) ==
  LET k == clientStreamMap[i]
  IN  /\ life[Server] = "live" /\ k # NoConn
      /\ Close({k}, NoCtx, {k})
      /\ clientStreamMap' = [clientStreamMap EXCEPT ![i] = NoConn]
      /\ dismissed' = dismissed \cup {k}
      /\ UNCHANGED <<given, totalClients, handles>>

-----------------------------------------------------------------------------
(* Streams and Serials: handles to what another owns. *)

StreamClose(k) == /\ stream[k] = "live" /\ life[k] = "live"
                  /\ Close({k}, NoCtx, {})
                  /\ UNCHANGED <<given, map, handles>>

StreamDestroy_Owning(k) ==                                   \* mutant
  /\ stream[k] = "live" /\ life[k] = "live"
  /\ Close({k}, NoCtx, {k})
  /\ stream' = [stream EXCEPT ![k] = "destroyed"]
  /\ UNCHANGED <<given, map, client, serials>>
StreamDestroy(k) == /\ stream[k] = "live"
                    /\ stream' = [stream EXCEPT ![k] = "destroyed"]
                    /\ UNCHANGED <<counts, numbers, holder, given, map,
                                   client, serials>>

SerialCreate(k) == /\ "live" \in {stream[k], client[k]} /\ k \notin serials
                   /\ life[k] = "live"
                   /\ serials' = serials \cup {k}
                   /\ UNCHANGED <<counts, numbers, holder, given, map,
                                  client, stream>>

SerialDestroy(k) == /\ k \in serials
                    /\ serials' = serials \ {k}
                    /\ UNCHANGED <<counts, numbers, holder, given, map,
                                   client, stream>>

(* The rest of the program opens and closes numbers of its own. *)
OtherOpens(f) == /\ OpenNumber(f, Other)
                 /\ UNCHANGED <<counts, holder, given, map, handles>>
OtherCloses(f) == /\ fds[f] = Other
                  /\ fds' = [fds EXCEPT ![f] = Free]
                  /\ UNCHANGED <<counts, stray, holder, given, map, handles>>

CtxCall == SslCreateFails \/ \E c \in Ctxs : SslCreate(c) \/ SslFree(c)
ClientCall == \E k \in Conns :
  \/ \E c \in Ctxs \cup {NoCtx}, f \in Fds : ClientCreate(k, c, f)
  \/ ClientClose(k) \/ ClientDestroy(k)
FailedCall == \E c \in Ctxs \cup {NoCtx}, f \in Fds : ClientCreateFails(c, f)
ServerCall == \/ \E c \in Ctxs \cup {NoCtx}, f \in Fds : ServerCreate(c, f)
              \/ ServerClose \/ ServerDestroy
              \/ \E k \in Conns, f \in Fds : Accept(k, f)
              \/ \E i \in 0..Ids-1 : CloseClient(i)
StreamCall == \E k \in Conns : \/ StreamClose(k) \/ StreamDestroy(k)
                               \/ SerialCreate(k) \/ SerialDestroy(k)
OtherCall == \E f \in Fds : OtherOpens(f) \/ OtherCloses(f)

Next == CtxCall \/ ClientCall \/ FailedCall \/ ServerCall \/ StreamCall
        \/ OtherCall

Spec == Init /\ [][Next]_vars

-----------------------------------------------------------------------------
StillOpen == {h \in Holders : life[h] = "live" /\ ~closed[h]}

(* Whatever is closed, destroyed and opened again in between, a connection *)
(* that nobody has closed and an open server keep their own numbers, no    *)
(* close ever hits a number that has become somebody else's, and no number *)
(* is left open by one that is gone                                        *)
(* (tcp_streambuf::close, tcp_server::close and their flags).              *)
NumbersKept == /\ ~stray
               /\ \A h \in StillOpen : fds[fd[h]] = h
               /\ \A f \in Fds : fds[f] \in Holders
                    => fds[f] \in StillOpen /\ fd[fds[f]] = f

(* The references to a context are those of its handle or of the client    *)
(* that took it over, and one for each SSL that is not freed yet: none is  *)
(* left when all of these are gone, but for those that a failing connect   *)
(* left behind.  And OpenSSL is never called with a context that was       *)
(* freed, nor frees one twice (io_ssl_free, ~tcp_client, SSL_new, SSL_free).*)
Owning(c) == (IF ctx[c] = "live" /\ c \notin taken THEN 1 ELSE 0)
             + Cardinality({k \in Conns : client[k] = "live"
                                         /\ ssl_ctx[k] = c})
Using(c) == Cardinality({h \in StillOpen : ssl[h] = c})
ContextsCounted ==
  /\ \A c \in Ctxs : refs[c] = Owning(c) + Using(c) + lost[c]
  /\ touched = {}

(* Whatever call of OpenSSL fails in createClient or createServer, they    *)
(* leave nothing behind but the context that they return, except that      *)
(* createServer() keeps all it has made when its context refuses the       *)
(* certificate made for it.                                                *)
FactoryLeavesNothing == debris \in {{}, Debris(SelfSigned, Len(SelfSigned))}

(* A handle to an accepted stream, and a Serial over one, stay good until  *)
(* the server is destroyed or that connection is closed by its id, however *)
(* other handles to it and other connections fare; a Serial over a client  *)
(* until the client is destroyed.                                          *)
StreamsAlive ==
  \A k \in Conns :
    /\ stream[k] = "live" \/ k \in serials
    /\ client[k] # "destroyed" /\ k \notin dismissed
    /\ stream[k] # "none" => life[Server] = "live"
    => life[k] = "live"
==============================================================================
