----------------------------- MODULE HttpClient ------------------------------
(***************************************************************************)
(* http_client::restSync: a connection, a request written to it, a         *)
(* response taken in line by line and its body with one read, and the same *)
(* again, one call deeper, as long as the answer is a 302.  The request    *)
(* may not go out; what a server sends comes in at any pace, may be late,  *)
(* and may end anywhere.  A line stands for its characters, and is there   *)
(* when its line feed is.                                                  *)
(***************************************************************************)
EXTENDS Integers, Sequences

CONSTANTS
  Uris, Secure,  \* addresses that extractUri takes, and those with https
  NoUri,         \* no Location, or one that extractUri refuses
  Absent, NotANumber,  \* Content-Length is not there, or stoll refuses it
  MinusOne,      \* stoll takes it, and it is SIZE_MAX as a size_t
  TooLong,       \* another size_t that malloc has no memory for
  MaxBody,       \* bound: bytes of a body
  MaxCalls       \* bound: calls of restSync inside each other

ASSUME UriAssumption == Secure \subseteq Uris /\ NoUri \notin Uris
ASSUME SizeAssumption == MaxBody \in Nat /\ MaxCalls \in Nat \ {0}
ASSUME LengthAssumption ==
  /\ Absent \notin {NotANumber, MinusOne, TooLong}
  /\ NotANumber \notin {MinusOne, TooLong} /\ MinusOne # TooLong
  /\ {Absent, NotANumber, MinusOne, TooLong} \cap (0..MaxBody) = {}

(* What a server may send: the status line may lack its reason phrase, and *)
(* the length is what stoll makes of it, converted to a size_t.            *)
Lengths == {Absent, NotANumber, MinusOne, TooLong} \cup 0..MaxBody
Replies == [reason : BOOLEAN, code : {"200", "302"},
            Location : Uris \cup {NoUri},
            ContentLength : Lengths]

One(name) == <<<<"line", name>>>>
Lines(reply) ==
  One("status")
  \o (IF reply.Location = NoUri THEN <<>> ELSE One("Location"))
  \o (IF reply.ContentLength = Absent THEN <<>> ELSE One("Content-Length"))
  \o One("empty")
Byte(i) == <<"byte", i>>
Wire(reply) == Lines(reply) \o [i \in 1..MaxBody |-> Byte(i)]

VARIABLES
  calls,      \* the calls under way, the innermost last: uri and reply
  pc,         \* where the innermost call is
  unsent,     \* history: its request did not go out whole
  arrived, ended,    \* what has come in of its reply; no more is sent
  position, failed,  \* what its stream was read of, and whether it failed
  response,   \* its http_response
  clients,    \* the calls, by depth, whose tcp_client exists
  refs,       \* references to the SSL_CTX of each call
  lost        \* history: those that a failing connect left behind

incoming == <<unsent, arrived, ended>>
owned == <<clients, refs, lost>>
vars == <<calls, pc, incoming, position, failed, response, owned>>

Depth == Len(calls)
Call == calls[Depth]

Empty == [code |-> "", Location |-> NoUri, ContentLength |-> Absent,
          body |-> <<>>]

Init == /\ \E uri \in Uris, reply \in Replies :
             calls = <<[uri |-> uri, reply |-> reply]>>
        /\ pc = "connect"
        /\ unsent = FALSE /\ arrived = 0 /\ ended = FALSE
        /\ position = 0 /\ failed = FALSE
        /\ response = Empty
        /\ clients = {} /\ refs = [d \in 1..MaxCalls |-> 0]
        /\ lost = [d \in 1..MaxCalls |-> 0]

-----------------------------------------------------------------------------
(* The server and the network. *)

Reading == pc \in {"line", "body"}

Arrive == /\ Reading /\ ~ended /\ arrived < Len(Wire(Call.reply))
          /\ arrived' = arrived + 1
          /\ UNCHANGED <<calls, pc, unsent, ended, position, failed, response,
                         owned>>

ServerEnds == /\ Reading /\ ~ended
              /\ ended' = TRUE
              /\ UNCHANGED <<calls, pc, unsent, arrived, position, failed,
                             response, owned>>

-----------------------------------------------------------------------------
(* createClient makes a context, and connect an SSL that refers to it.     *)
References == IF Call.uri \in Secure THEN 2 ELSE 0

Connect == /\ pc = "connect"
           /\ pc' = "request"
           /\ clients' = clients \cup {Depth}
           /\ refs' = [refs EXCEPT ![Depth] = References]
           /\ UNCHANGED <<calls, incoming, position, failed, response, lost>>

(* connect throws: nobody is left to free either. *)
ConnectFails == /\ pc = "connect"
                /\ pc' = "threw"
                /\ refs' = [refs EXCEPT ![Depth] = References]
                /\ lost' = [lost EXCEPT ![Depth] = References]
                /\ UNCHANGED <<calls, incoming, position, failed, response,
                               clients>>

WriteRequest == /\ pc = "request"
                /\ pc' = "line"
                /\ UNCHANGED <<calls, incoming, position, failed, response,
                               owned>>

(* A send comes short, fails or times out.  Nobody asks: the stream that   *)
(* is bad by that is read of like any other.                               *)
RequestFails == /\ pc = "request"
                /\ pc' = "line"
                /\ unsent' = TRUE /\ failed' = TRUE
                /\ UNCHANGED <<calls, arrived, ended, position, response,
                               owned>>

Line(name) == Wire(Call.reply)[position + 1] = <<"line", name>>

(* Without a second blank in the status line the rest is left unread.      *)
ReadStatus ==
  /\ pc = "line" /\ position = 0 /\ arrived > 0 /\ ~failed
  /\ position' = 1
  /\ IF Call.reply.reason
     THEN response' = [response EXCEPT !.code = Call.reply.code]
          /\ UNCHANGED pc
     ELSE pc' = "decide" /\ UNCHANGED response
  /\ UNCHANGED <<calls, incoming, failed, owned>>

HeadersEnd == Line("empty")

Header == IF Line("Location")
          THEN [response EXCEPT !.Location = Call.reply.Location]
          ELSE IF Line("Content-Length")
          THEN [response EXCEPT !.ContentLength = Call.reply.ContentLength]
          ELSE response

ReadHeader ==
  /\ pc = "line" /\ position > 0 /\ arrived > position /\ ~failed
  /\ position' = position + 1
  /\ response' = Header
  /\ pc' = IF HeadersEnd THEN "body" ELSE "line"
  /\ UNCHANGED <<calls, incoming, failed, owned>>

(* A character does not come within 30 s, or never: the stream has failed. *)
LineFails == /\ pc = "line" /\ arrived = position /\ ~failed
             /\ failed' = TRUE
             /\ UNCHANGED <<calls, pc, incoming, position, response, owned>>

(* On a stream that has failed, now or at the request, every character is  *)
(* 0, and read_line goes on looking for a line feed, whatever comes in.    *)
Loops == pc = "line" /\ failed /\ UNCHANGED vars

(* One read takes of the body what one recv gives: the rest stays 0.       *)
Got_Announced(length) == length                              \* mutant
Got(length) == IF arrived - position < length THEN arrived - position
               ELSE length

ReadBody ==
  LET length == response.ContentLength
      k == Got(length)
  IN  /\ pc = "body" /\ length \in 0..MaxBody
      /\ response' = [response EXCEPT !.body =
           [i \in 1..length |-> IF i <= k THEN Wire(Call.reply)[position + i]
                                ELSE Byte(0)]]
      /\ position' = position + k
      /\ failed' = (k < length)
      /\ pc' = "decide"
      /\ UNCHANGED <<calls, incoming, owned>>

(* malloc gives no bytes for SIZE_MAX + 1, which is 0, memset writes none, *)
(* and read of a streamsize of -1 takes none and fails.                    *)
ReadMinusOne == /\ pc = "body" /\ response.ContentLength = MinusOne
                /\ failed' = TRUE
                /\ pc' = "decide"
                /\ UNCHANGED <<calls, incoming, position, response, owned>>

(* memset writes to the null that malloc gave. *)
MemsetCrashes == /\ pc = "body" /\ response.ContentLength = TooLong
                 /\ pc' = "crashed"
                 /\ UNCHANGED <<calls, incoming, position, failed, response,
                                owned>>

NoBody == /\ pc = "body" /\ response.ContentLength = Absent
          /\ pc' = "decide"
          /\ UNCHANGED <<calls, incoming, position, failed, response, owned>>

StollThrows == /\ pc = "body" /\ response.ContentLength = NotANumber
               /\ pc' = "threw"
               /\ UNCHANGED <<calls, incoming, position, failed, response,
                              owned>>

-----------------------------------------------------------------------------
(* A 302 is followed while this call and its connection stay.              *)
Redirected_ByLocation == response.Location # NoUri           \* mutant
Redirected == response.code = "302"

Follow(reply) ==
  /\ pc = "decide" /\ Redirected /\ Depth < MaxCalls
  /\ response.Location \in Uris
  /\ calls' = Append(calls, [uri |-> response.Location, reply |-> reply])
  /\ pc' = "connect"
  /\ unsent' = FALSE /\ arrived' = 0 /\ ended' = FALSE
  /\ position' = 0 /\ failed' = FALSE
  /\ response' = Empty
  /\ UNCHANGED owned

ExtractUriThrows ==
  /\ pc = "decide" /\ Redirected /\ response.Location = NoUri
  /\ pc' = "threw"
  /\ UNCHANGED <<calls, incoming, position, failed, response, owned>>

(* A length of SIZE_MAX is copied from where malloc(0) put the body.  When *)
(* it gave null instead, the response is answered with no body.            *)
CopyCrashes == /\ pc = "decide" /\ ~Redirected
               /\ response.ContentLength = MinusOne
               /\ pc' = "crashed"
               /\ UNCHANGED <<calls, incoming, position, failed, response,
                              owned>>

Answer == /\ pc = "decide" /\ ~Redirected
          /\ pc' = "answered"
          /\ UNCHANGED <<calls, incoming, position, failed, response, owned>>

(* The calls return, or the exception passes through them, the innermost   *)
(* first: ~tcp_client frees the context and the SSL, if there are any.     *)
Dropped_Once(d) == IF calls[d].uri \in Secure THEN 1 ELSE 0   \* mutant
Dropped(d) == IF calls[d].uri \in Secure THEN 2 ELSE 0

Return(d) == /\ pc \in {"answered", "threw"}
             /\ d \in clients /\ \A e \in clients : e <= d
             /\ clients' = clients \ {d}
             /\ refs' = [refs EXCEPT ![d] = @ - Dropped(d)]
             /\ UNCHANGED <<calls, pc, incoming, position, failed, response,
                            lost>>

Returned == pc \in {"answered", "threw"} /\ clients = {}
TooDeep == pc = "decide" /\ Redirected /\ Depth = MaxCalls

Crashed == pc = "crashed"

Stops == (Returned \/ TooDeep \/ Crashed) /\ UNCHANGED vars

(* What io_http_get and the like hand over to C: a copy of the response,   *)
(* the body by its length and not up to a 0, or, if an exception came      *)
(* through, an error response with the code 0.                             *)
make_http_response_CutAtZero ==                              \* mutant
  [code |-> response.code,
   body |-> SelectSeq(response.body, LAMBDA b : b # Byte(0))]
make_http_response == [code |-> response.code, body |-> response.body]
make_http_error_response == [code |-> "0", body |-> <<>>]
Result == IF pc = "threw" THEN make_http_error_response ELSE make_http_response

Network == Arrive \/ ServerEnds \/ LineFails
Client == \/ Connect \/ ConnectFails \/ WriteRequest \/ RequestFails
          \/ ReadStatus \/ ReadHeader
          \/ ReadBody \/ ReadMinusOne \/ MemsetCrashes
          \/ NoBody \/ StollThrows
          \/ \E reply \in Replies : Follow(reply)
          \/ ExtractUriThrows \/ Answer \/ CopyCrashes
          \/ \E d \in 1..MaxCalls : Return(d)

Next == Network \/ Client \/ Loops \/ Stops

(* The program goes on, and something comes in or 30 s pass.               *)
Spec == Init /\ [][Next]_vars /\ WF_vars(Client) /\ WF_vars(Network)

-----------------------------------------------------------------------------
(* Every variable has its type, and nothing is taken from the connection   *)
(* that has not come in (deserialize of http_response, readBytes).         *)
TypeOK ==
  /\ Depth \in 1..MaxCalls
  /\ \A d \in 1..Depth : calls[d].uri \in Uris /\ calls[d].reply \in Replies
  /\ pc \in {"connect", "request", "line", "body", "decide", "answered",
             "threw", "crashed"}
  /\ position \in 0..arrived /\ arrived \in 0..Len(Wire(Call.reply))
  /\ unsent \in BOOLEAN /\ ended \in BOOLEAN /\ failed \in BOOLEAN
  /\ response.ContentLength \in Lengths
  /\ clients \subseteq 1..Depth
  /\ \A d \in 1..MaxCalls : refs[d] \in 0..2 /\ lost[d] \in 0..2

(* What a caller of the C API gets is what the last server sent: the code, *)
(* if there is a reason phrase; and of the body, at the length announced,  *)
(* exactly what had come in when it was read, and zeros from there on: a   *)
(* whole reply whose end is late is cut too, and nothing tells.  An        *)
(* exception is told.  No answer is made of a length that malloc or stoll  *)
(* refuses; for one below 0 or too long, and only then, the program may    *)
(* end (deserialize of http_response, restSync, make_http_response).       *)
AnswerExact ==
  LET reply == Call.reply
      announced == IF reply.reason THEN reply.ContentLength ELSE Absent
      length == IF announced \in 0..MaxBody THEN announced ELSE 0
      came == arrived - Len(Lines(reply))
  IN  /\ pc = "threw" => Result.code = "0" /\ Result.body = <<>>
      /\ pc = "answered" =>
           /\ announced \notin {NotANumber, TooLong}
           /\ Result.code = IF reply.reason THEN reply.code ELSE ""
           /\ Result.body =
                [i \in 1..length |-> Byte(IF i <= came THEN i ELSE 0)]
      /\ Crashed => announced \in {MinusOne, TooLong}

(* A call is made only for a 302, to the address it named, and no 302 is   *)
(* given back, unless its status line had no reason phrase.                *)
OnlyRedirectsFollowed ==
  /\ \A d \in 1..Depth-1 :
       LET reply == calls[d].reply
       IN  reply.reason /\ reply.code = "302" /\ reply.Location = calls[d+1].uri
  /\ pc = "answered" => ~(Call.reply.reason /\ Call.reply.code = "302")

(* However restSync ends, with an answer or with an exception from any     *)
(* depth, all its clients are gone and their contexts freed, but for the   *)
(* one of a connect that threw.                                            *)
NothingKept == Returned => refs = lost

=============================================================================
