--------------------------- MODULE HttpClientProof ---------------------------
(***************************************************************************)
(* For any addresses, bodies of any length and any number of redirects:    *)
(* what is known of the innermost response follows where in the lines of   *)
(* its reply the client is, and of the outer calls that they are open, and *)
(* were each redirected to the next.                                       *)
(***************************************************************************)
EXTENDS HttpClient, SequenceTheorems, TLAPS

(* What is on the wire, and where: the status line, a line for Location    *)
(* and one for Content-Length if there are such, the empty line, the body. *)
Items == {<<"line", name>> : name \in {"status", "Location",
                                       "Content-Length", "empty"}}
         \cup {Byte(i) : i \in 0..MaxBody}
HasLocation(reply) == IF reply.Location = NoUri THEN 0 ELSE 1
HasLength(reply) == IF reply.ContentLength = Absent THEN 0 ELSE 1
EmptyLine(reply) == 2 + HasLocation(reply) + HasLength(reply)
Expected(reply, p) ==
  IF p = 1 THEN <<"line", "status">>
  ELSE IF p = EmptyLine(reply) THEN <<"line", "empty">>
  ELSE IF p > EmptyLine(reply) THEN Byte(p - EmptyLine(reply))
  ELSE IF p = 2 /\ HasLocation(reply) = 1 THEN <<"line", "Location">>
  ELSE <<"line", "Content-Length">>

Places == {"connect", "request", "line", "body", "decide", "answered",
           "threw", "crashed"}
Responses == [code : {"", "200", "302"}, Location : Uris \cup {NoUri},
              ContentLength : Lengths,
              body : Seq(Items)]

(* The calls and what is counted of the innermost one's reply. *)
CallsInv ==
  /\ calls \in Seq([uri : Uris, reply : Replies])
  /\ Depth \in 1..MaxCalls
  /\ pc \in Places
  /\ unsent \in BOOLEAN /\ ended \in BOOLEAN /\ failed \in BOOLEAN
  /\ response \in Responses
  /\ arrived \in 0..Len(Wire(Call.reply)) /\ position \in 0..arrived

(* The calls that are outside of the innermost one are connected, that one *)
(* once it is past "connect"; what a client refers to is freed with it,    *)
(* and nothing else is referred to but what is lost.                       *)
OwnedInv ==
  /\ refs \in [1..MaxCalls -> 0..2] /\ lost \in [1..MaxCalls -> 0..2]
  /\ clients \subseteq 1..Depth
  /\ pc = "connect" => Depth \notin clients
  /\ \A d \in 1..MaxCalls :
       /\ d \in clients => lost[d] = 0 /\ refs[d] = Dropped(d)
       /\ d \notin clients => refs[d] = lost[d]
       /\ d > Depth \/ (d = Depth /\ pc = "connect") => lost[d] = 0

(* Each outer call got a 302 that named the address of the next. *)
FollowedInv ==
  \A d \in 1..Depth-1 :
    LET reply == calls[d].reply
    IN  reply.reason /\ reply.code = "302" /\ reply.Location = calls[d+1].uri

(* The response is what its reply says as far as it has been read.         *)
HeadersRead(reply) ==
  /\ response.code = IF position > 0 /\ reply.reason THEN reply.code ELSE ""
  /\ response.Location = IF position >= 2 THEN reply.Location ELSE NoUri
  /\ response.ContentLength =
       IF position >= 2 + HasLocation(reply) THEN reply.ContentLength
       ELSE Absent
Announced(reply) == IF reply.reason THEN reply.ContentLength ELSE Absent
BodyRead(reply) ==
  LET length == IF Announced(reply) \in 0..MaxBody THEN Announced(reply) ELSE 0
      came == arrived - Len(Lines(reply))
  IN  /\ Announced(reply) \notin {NotANumber, TooLong}
      /\ response.body = [i \in 1..length |-> Byte(IF i <= came THEN i ELSE 0)]
ResponseInv ==
  LET reply == Call.reply
  IN  /\ HeadersRead(reply)
      /\ pc \in {"connect", "request"} => position = 0
      /\ pc = "line" => /\ position < EmptyLine(reply)
                        /\ position > 0 => reply.reason
      /\ pc = "body" => position = EmptyLine(reply) /\ reply.reason
      /\ pc \in {"connect", "request", "line", "body"} => response.body = <<>>
      /\ pc \in {"decide", "answered"} =>
           /\ IF reply.reason THEN position >= EmptyLine(reply)
              ELSE position = 1
           /\ BodyRead(reply)
      /\ pc = "answered" => response.code # "302"
      /\ pc = "crashed" => Announced(reply) \in {MinusOne, TooLong}

HttpInv == CallsInv /\ OwnedInv /\ FollowedInv /\ ResponseInv
-----------------------------------------------------------------------------
(* Two sequences of items, one after the other. *)
LEMMA Joined ==
  ASSUME NEW s \in Seq(Items), NEW t \in Seq(Items)
  PROVE  /\ s \o t \in Seq(Items) /\ Len(s \o t) = Len(s) + Len(t)
         /\ \A i \in 1..Len(s) : (s \o t)[i] = s[i]
         /\ \A i \in 1..Len(t) : (s \o t)[Len(s) + i] = t[i]
<1>1. Len(s) \in Nat /\ Len(t) \in Nat
  BY LenProperties
<1>2. /\ s \o t \in Seq(Items) /\ Len(s \o t) = Len(s) + Len(t)
      /\ \A i \in 1..Len(s) + Len(t) :
           (s \o t)[i] = IF i <= Len(s) THEN s[i] ELSE t[i - Len(s)]
  BY ConcatProperties
<1>3. ASSUME NEW i \in 1..Len(t) PROVE (s \o t)[Len(s) + i] = t[i]
  <2>1. /\ Len(s) + i \in 1..Len(s) + Len(t) /\ ~(Len(s) + i <= Len(s))
        /\ (Len(s) + i) - Len(s) = i
    BY <1>1
  <2> QED BY <1>2, <2>1
<1>4. \A i \in 1..Len(s) : i \in 1..Len(s) + Len(t) /\ i <= Len(s)
  BY <1>1
<1> QED BY <1>2, <1>3, <1>4

LEMMA WireShape ==
  ASSUME NEW reply \in Replies
  PROVE  /\ Wire(reply) \in Seq(Items)
         /\ Len(Wire(reply)) = EmptyLine(reply) + MaxBody
         /\ Len(Lines(reply)) = EmptyLine(reply)
         /\ \A p \in 1..EmptyLine(reply) + MaxBody :
              Wire(reply)[p] = Expected(reply, p)
<1> DEFINE body == [i \in 1..MaxBody |-> Byte(i)]
           place == IF reply.Location = NoUri THEN <<>> ELSE One("Location")
           size == IF reply.ContentLength = Absent THEN <<>>
                   ELSE One("Content-Length")
           first == One("status") \o place
           second == first \o size
           lines == second \o One("empty")
<1>1. \A name \in {"status", "Location", "Content-Length", "empty"} :
        One(name) \in Seq(Items) /\ Len(One(name)) = 1
          /\ One(name)[1] = <<"line", name>>
  BY DEF One, Items
<1>2. /\ body \in Seq(Items) /\ Len(body) = MaxBody
      /\ \A i \in 1..MaxBody : body[i] = Byte(i)
  BY SizeAssumption DEF Items
<1>3. /\ place \in Seq(Items) /\ Len(place) = HasLocation(reply)
      /\ HasLocation(reply) \in {0, 1}
      /\ HasLocation(reply) = 1 => place[1] = <<"line", "Location">>
  BY <1>1 DEF HasLocation
<1>4. /\ size \in Seq(Items) /\ Len(size) = HasLength(reply)
      /\ HasLength(reply) \in {0, 1}
      /\ HasLength(reply) = 1 => size[1] = <<"line", "Content-Length">>
  BY <1>1 DEF HasLength
<1> HIDE DEF body, place, size
<1>0. /\ EmptyLine(reply) \in Nat
      /\ EmptyLine(reply) = 2 + HasLocation(reply) + HasLength(reply)
  BY <1>3, <1>4 DEF EmptyLine
<1>5. /\ first \in Seq(Items) /\ Len(first) = 1 + HasLocation(reply)
      /\ first[1] = <<"line", "status">>
      /\ HasLocation(reply) = 1 => first[2] = <<"line", "Location">>
  <2>1. /\ One("status") \in Seq(Items) /\ Len(One("status")) = 1
        /\ One("status")[1] = <<"line", "status">>
    BY <1>1
  <2>2. /\ first \in Seq(Items) /\ Len(first) = 1 + Len(place)
        /\ \A i \in 1..1 : first[i] = One("status")[i]
        /\ \A i \in 1..Len(place) : first[1 + i] = place[i]
    BY ONLY <1>3, <2>1, Joined DEF first
  <2> HIDE DEF first
  <2>3. first[1] = <<"line", "status">>
    BY <2>1, <2>2
  <2>4. HasLocation(reply) = 1 => first[2] = place[1]
    <3>1. ASSUME HasLocation(reply) = 1 PROVE first[1 + 1] = place[1]
      BY <1>3, <2>2, <3>1
    <3> QED BY <3>1
  <2> QED BY <1>3, <2>2, <2>3, <2>4
<1> HIDE DEF first
<1>6. /\ second \in Seq(Items)
      /\ Len(second) = 1 + HasLocation(reply) + HasLength(reply)
      /\ \A p \in 1..1 + HasLocation(reply) : second[p] = first[p]
      /\ HasLength(reply) = 1
           => second[2 + HasLocation(reply)] = <<"line", "Content-Length">>
  <2>1. /\ second \in Seq(Items) /\ Len(second) = Len(first) + Len(size)
        /\ \A i \in 1..Len(first) : second[i] = first[i]
        /\ \A i \in 1..Len(size) : second[Len(first) + i] = size[i]
    BY ONLY <1>4, <1>5, Joined DEF second
  <2> HIDE DEF second
  <2>2. ASSUME HasLength(reply) = 1
        PROVE  second[2 + HasLocation(reply)] = <<"line", "Content-Length">>
    <3>1. 1 \in 1..Len(size) /\ Len(first) + 1 = 2 + HasLocation(reply)
      BY <1>3, <1>4, <1>5, <2>2
    <3>2. second[Len(first) + 1] = size[1]
      BY <2>1, <3>1
    <3> QED BY <1>4, <2>2, <3>1, <3>2
  <2>3. /\ Len(second) = 1 + HasLocation(reply) + HasLength(reply)
        /\ \A p \in 1..1 + HasLocation(reply) : second[p] = first[p]
    BY <1>4, <1>5, <2>1
  <2> QED BY <2>1, <2>2, <2>3
<1> HIDE DEF second
<1>7. /\ lines \in Seq(Items) /\ Len(lines) = EmptyLine(reply)
      /\ \A p \in 1..EmptyLine(reply) - 1 : lines[p] = second[p]
      /\ lines[EmptyLine(reply)] = <<"line", "empty">>
  <2>1. /\ One("empty") \in Seq(Items) /\ Len(One("empty")) = 1
        /\ One("empty")[1] = <<"line", "empty">>
    BY <1>1
  <2>2. /\ lines \in Seq(Items) /\ Len(lines) = Len(second) + 1
        /\ \A p \in 1..Len(second) : lines[p] = second[p]
        /\ \A i \in 1..1 : lines[Len(second) + i] = One("empty")[i]
    BY ONLY <1>6, <2>1, Joined DEF lines
  <2> HIDE DEF lines
  <2>3. Len(second) = EmptyLine(reply) - 1
    BY <1>0, <1>3, <1>4, <1>6
  <2>4. Len(second) + 1 = EmptyLine(reply)
    BY <1>0, <2>3
  <2>5. lines[Len(second) + 1] = <<"line", "empty">>
    BY <2>1, <2>2
  <2> QED BY <2>2, <2>3, <2>4, <2>5
<1> HIDE DEF lines
<1>8. Wire(reply) = lines \o body /\ Lines(reply) = lines
  BY DEF Wire, Lines, lines, second, first, place, size, body
<1>9. /\ Wire(reply) \in Seq(Items)
      /\ Len(Wire(reply)) = EmptyLine(reply) + MaxBody
      /\ \A p \in 1..EmptyLine(reply) : Wire(reply)[p] = lines[p]
      /\ \A i \in 1..MaxBody : Wire(reply)[EmptyLine(reply) + i] = Byte(i)
  <2>1. /\ lines \o body \in Seq(Items)
        /\ Len(lines \o body) = Len(lines) + Len(body)
        /\ \A p \in 1..Len(lines) : (lines \o body)[p] = lines[p]
        /\ \A i \in 1..Len(body) : (lines \o body)[Len(lines) + i] = body[i]
    BY ONLY <1>2, <1>7, Joined
  <2>2. Len(lines) = EmptyLine(reply) /\ Len(body) = MaxBody
    BY <1>2, <1>7
  <2>3. \A i \in 1..MaxBody : (lines \o body)[EmptyLine(reply) + i] = body[i]
    BY ONLY <2>1, <2>2, Zenon
  <2>4. \A i \in 1..MaxBody : (lines \o body)[EmptyLine(reply) + i] = Byte(i)
    BY ONLY <1>2, <2>3, Zenon
  <2> QED BY ONLY <1>8, <2>1, <2>2, <2>4, Zenon
<1>10. ASSUME NEW p \in 1..EmptyLine(reply) + MaxBody
       PROVE  Wire(reply)[p] = Expected(reply, p)
  <2>1. CASE p > EmptyLine(reply)
    <3>1. /\ p - EmptyLine(reply) \in 1..MaxBody
          /\ p = EmptyLine(reply) + (p - EmptyLine(reply))
      BY <2>1, <1>3, <1>4, SizeAssumption DEF EmptyLine
    <3> QED BY <2>1, <3>1, <1>3, <1>4, <1>9 DEF Expected, EmptyLine
  <2>2. CASE p <= EmptyLine(reply)
    <3>1. CASE p = EmptyLine(reply)
      <4>1. p \in 1..EmptyLine(reply) /\ p # 1
        BY <3>1, <1>0, <1>3, <1>4
      <4>2. Wire(reply)[p] = <<"line", "empty">>
        BY <3>1, <4>1, <1>7, <1>9
      <4> QED BY <3>1, <4>1, <4>2 DEF Expected
    <3>2. CASE p < EmptyLine(reply)
      <4>1. Wire(reply)[p] = second[p]
        BY <3>2, <1>0, <1>7, <1>9, SizeAssumption
      <4>2. CASE p = 1
        BY <4>1, <4>2, <1>0, <1>3, <1>4, <1>5, <1>6 DEF Expected
      <4>3. CASE p = 2 /\ HasLocation(reply) = 1
        <5>1. Wire(reply)[p] = <<"line", "Location">>
          BY <4>1, <4>3, <1>5, <1>6
        <5> QED BY <5>1, <4>3, <3>2, <1>0 DEF Expected
      <4>4. CASE p = 2 + HasLocation(reply)
        <5>1. HasLength(reply) = 1
          BY <4>4, <3>2, <1>0, <1>4, <1>3
        <5>2. Wire(reply)[p] = <<"line", "Content-Length">>
          BY <4>1, <4>4, <5>1, <1>6
        <5> QED BY <5>1, <5>2, <4>4, <3>2, <1>0, <1>3 DEF Expected
      <4> QED
        BY <3>2, <4>2, <4>3, <4>4, <1>0, <1>3, <1>4, SizeAssumption
    <3> QED BY <2>2, <3>1, <3>2, <1>3, <1>4 DEF EmptyLine
  <2> QED BY <2>1, <2>2, <1>3, <1>4, SizeAssumption DEF EmptyLine
<1> QED BY <1>7, <1>8, <1>9, <1>10

-----------------------------------------------------------------------------
(* The reply of the innermost call is one that a server may send.          *)
LEMMA CallReply ==
  ASSUME CallsInv
  PROVE  /\ Depth \in 1..MaxCalls /\ Call.uri \in Uris
         /\ Call.reply \in Replies
         /\ Call.reply.Location \in Uris \cup {NoUri}
         /\ Call.reply.ContentLength \in Lengths
         /\ Call.reply.code \in {"200", "302"} /\ Call.reply.reason \in BOOLEAN
         /\ EmptyLine(Call.reply) \in 2..4
         /\ Len(Wire(Call.reply)) = EmptyLine(Call.reply) + MaxBody
         /\ Len(Lines(Call.reply)) = EmptyLine(Call.reply)
         /\ arrived \in 0..EmptyLine(Call.reply) + MaxBody
         /\ arrived \in Nat /\ position \in Nat
<1>1. calls \in Seq([uri : Uris, reply : Replies]) /\ Depth \in 1..MaxCalls
  BY DEF CallsInv
<1>2. Call \in [uri : Uris, reply : Replies]
  <2>1. Len(calls) \in 1..Len(calls)
    BY <1>1, SizeAssumption DEF Depth
  <2>2. calls[Len(calls)] \in [uri : Uris, reply : Replies]
    BY <1>1, <2>1, ElementOfSeq
  <2> QED BY <2>2 DEF Depth, Call
<1>3. EmptyLine(Call.reply) \in 2..4
  BY DEF EmptyLine, HasLocation, HasLength
<1>4. /\ Len(Wire(Call.reply)) = EmptyLine(Call.reply) + MaxBody
      /\ Len(Lines(Call.reply)) = EmptyLine(Call.reply)
  BY <1>2, WireShape
<1>5. /\ arrived \in 0..EmptyLine(Call.reply) + MaxBody
      /\ arrived \in Nat /\ position \in Nat
  <2>1. arrived \in 0..Len(Wire(Call.reply)) /\ position \in 0..arrived
    BY DEF CallsInv
  <2> QED BY <2>1, <1>3, <1>4, SizeAssumption
<1> QED BY <1>1, <1>2, <1>3, <1>4, <1>5 DEF Replies

(* What the line at a place in a reply is.                                 *)
LEMMA LineAt ==
  ASSUME CallsInv, position < arrived
  PROVE  /\ position < EmptyLine(Call.reply) - 1 => ~Line("empty")
         /\ position = EmptyLine(Call.reply) - 1 =>
              Line("empty") /\ ~Line("Location") /\ ~Line("Content-Length")
         /\ position \in 1..EmptyLine(Call.reply) - 2 =>
              /\ Line("Location") <=> position = 1 /\ HasLocation(Call.reply) = 1
              /\ Line("Content-Length") <=> ~Line("Location")
<1> DEFINE reply == Call.reply
<1>1. reply \in Replies /\ EmptyLine(reply) \in 2..4
  BY CallReply
<1>2. position \in Nat /\ position + 1 \in 1..EmptyLine(reply) + MaxBody
  BY CallReply, SizeAssumption
<1>3. \A name : Line(name) <=> Expected(reply, position + 1) = <<"line", name>>
  BY <1>1, <1>2, WireShape DEF Line
<1>4. CASE position = EmptyLine(reply) - 1
  <2>1. Expected(reply, position + 1) = <<"line", "empty">>
    BY <1>1, <1>2, <1>4 DEF Expected
  <2> QED BY <1>1, <1>3, <1>4, <2>1
<1>5. CASE position < EmptyLine(reply) - 1
  <2>1. CASE position = 0
    BY <1>1, <1>3, <1>5, <2>1 DEF Expected
  <2>2. CASE position = 1 /\ HasLocation(reply) = 1
    <3>1. Expected(reply, position + 1) = <<"line", "Location">>
      BY <1>1, <1>5, <2>2 DEF Expected
    <3> QED BY <1>1, <1>3, <1>5, <2>2, <3>1
  <2>3. CASE position > 0 /\ ~(position = 1 /\ HasLocation(reply) = 1)
    <3>1. Expected(reply, position + 1) = <<"line", "Content-Length">>
      BY <1>1, <1>2, <1>5, <2>3 DEF Expected
    <3> QED BY <1>1, <1>2, <1>3, <1>5, <2>3, <3>1
  <2> QED BY <1>2, <2>1, <2>2, <2>3
<1> QED BY <1>1, <1>2, <1>4, <1>5

LEMMA InitHttpInv == Init => HttpInv
<1> SUFFICES ASSUME Init PROVE HttpInv
  OBVIOUS
<1>1. PICK uri \in Uris, reply \in Replies :
        calls = <<[uri |-> uri, reply |-> reply]>>
  BY DEF Init
<1>2. Depth = 1 /\ Call.reply = reply /\ Call.reply \in Replies
  BY <1>1 DEF Depth, Call
<1>0. /\ pc = "connect" /\ unsent = FALSE /\ arrived = 0 /\ ended = FALSE
      /\ position = 0 /\ failed = FALSE /\ response = Empty
  BY DEF Init
<1>3. CallsInv
  <2>1. calls \in Seq([uri : Uris, reply : Replies])
    BY <1>1
  <2>2. Len(Wire(Call.reply)) \in Nat
    BY <1>2, WireShape
  <2>3. response \in Responses
    <3>1. <<>> \in Seq(Items)
      OBVIOUS
    <3> QED BY <3>1, <1>0 DEF Responses, Empty, Lengths
  <2>4. Depth \in 1..MaxCalls
    BY <1>2, SizeAssumption
  <2>5. /\ pc \in Places
        /\ unsent \in BOOLEAN /\ ended \in BOOLEAN /\ failed \in BOOLEAN
    BY <1>0 DEF Places
  <2>6. arrived \in 0..Len(Wire(Call.reply)) /\ position \in 0..arrived
    BY <1>0, <2>2
  <2> QED BY <2>1, <2>3, <2>4, <2>5, <2>6 DEF CallsInv
<1>4. OwnedInv
  BY <1>2 DEF Init, OwnedInv
<1>5. FollowedInv
  BY <1>2 DEF FollowedInv
<1>6. ResponseInv
  <2>1. EmptyLine(Call.reply) > 0
    BY CallReply, <1>3
  <2>2. HeadersRead(Call.reply)
    <3>1. HasLocation(Call.reply) \in {0, 1}
      BY DEF HasLocation
    <3>2. ~(position > 0) /\ ~(position >= 2)
          /\ ~(position >= 2 + HasLocation(Call.reply))
      BY <1>0, <3>1
    <3>3. response = Empty
      BY <1>0
    <3> QED BY <3>2, <3>3 DEF Empty, HeadersRead
  <2> QED BY <2>1, <2>2 DEF Init, ResponseInv, Empty
<1> QED BY <1>3, <1>4, <1>5, <1>6 DEF HttpInv

-----------------------------------------------------------------------------
(* A step of the innermost call, or of the network. *)
LEMMA CallGoesOn ==
  ASSUME CallsInv, UNCHANGED calls,
         pc' \in Places, unsent' \in BOOLEAN,
         ended' \in BOOLEAN, failed' \in BOOLEAN, response' \in Responses,
         arrived' \in 0..Len(Wire(Call.reply)), position' \in 0..arrived'
  PROVE  CallsInv'
BY DEF CallsInv, Depth, Call

LEMMA NextCallsInv == CallsInv /\ [Next]_vars => CallsInv'
<1> SUFFICES ASSUME CallsInv, [Next]_vars PROVE CallsInv'
  OBVIOUS
<1> USE DEF incoming, owned, Places
<1>0. /\ pc \in Places /\ unsent \in BOOLEAN
      /\ ended \in BOOLEAN /\ failed \in BOOLEAN /\ response \in Responses
      /\ arrived \in 0..Len(Wire(Call.reply)) /\ position \in 0..arrived
      /\ arrived \in Nat /\ position \in Nat /\ Len(Wire(Call.reply)) \in Nat
  BY CallReply, SizeAssumption DEF CallsInv
<1>1. CASE Arrive
  BY <1>0, <1>1, CallGoesOn DEF Arrive
<1>2. CASE ServerEnds
  BY <1>0, <1>2, CallGoesOn DEF ServerEnds
<1>3. CASE LineFails
  BY <1>0, <1>3, CallGoesOn DEF LineFails
<1>4. CASE Connect \/ ConnectFails \/ WriteRequest \/ RequestFails
  BY <1>0, <1>4, CallGoesOn
  DEF Connect, ConnectFails, WriteRequest, RequestFails
<1>5. CASE ReadStatus
  <2>1. response' \in Responses
    BY <1>0, <1>5, CallReply DEF ReadStatus, Responses
  <2>2. /\ pc' \in {"line", "decide"}
        /\ UNCHANGED <<calls, unsent, arrived, ended, failed>>
    BY <1>5 DEF ReadStatus
  <2>3. position' \in 0..arrived'
    BY <1>0, <1>5 DEF ReadStatus
  <2> QED BY <1>0, <2>1, <2>2, <2>3, CallGoesOn
<1>6. CASE ReadHeader
  <2>1. response' \in Responses
    BY <1>0, <1>6, CallReply DEF ReadHeader, Header, Responses
  <2>2. /\ pc' \in {"line", "body"}
        /\ UNCHANGED <<calls, unsent, arrived, ended, failed>>
    BY <1>6 DEF ReadHeader
  <2>3. position' \in 0..arrived'
    BY <1>0, <1>6 DEF ReadHeader
  <2> QED BY <1>0, <2>1, <2>2, <2>3, CallGoesOn
<1>7. CASE ReadBody
  <2> DEFINE length == response.ContentLength
             k == Got(length)
             body == [i \in 1..length |->
                        IF i <= k THEN Wire(Call.reply)[position + i] ELSE Byte(0)]
  <2>1. length \in 0..MaxBody
    BY <1>7 DEF ReadBody
  <2>2. k \in 0..length /\ k <= arrived - position /\ k \in Nat /\ length \in Nat
    BY <1>0, <2>1, SizeAssumption DEF Got
  <2>3. \A i \in 1..length : body[i] \in Items
    <3>1. Byte(0) \in Items
      BY SizeAssumption DEF Items
    <3>2. ASSUME NEW i \in 1..length, i <= k
          PROVE  Wire(Call.reply)[position + i] \in Items
      <4>1. position + i \in 1..Len(Wire(Call.reply))
        BY <1>0, <2>2, <3>2
      <4> QED BY <4>1, CallReply, WireShape, ElementOfSeq
    <3> QED BY <3>1, <3>2
  <2>4. body \in Seq(Items)
    BY <2>2, <2>3
  <2>5. response' = [response EXCEPT !.body = body]
    BY <1>7 DEF ReadBody
  <2>6. response' \in Responses
    BY <1>0, <2>4, <2>5 DEF Responses
  <2>7. /\ pc' = "decide" /\ UNCHANGED <<calls, unsent, arrived, ended>>
        /\ position' = position + k /\ failed' = (k < length)
    BY <1>7 DEF ReadBody
  <2>8. position' \in 0..arrived'
    BY <1>0, <2>2, <2>7
  <2>9. failed' \in BOOLEAN
    BY <2>7
  <2> QED BY <1>0, <2>6, <2>7, <2>8, <2>9, CallGoesOn
<1>8. CASE \/ ReadMinusOne \/ MemsetCrashes \/ NoBody \/ StollThrows
           \/ ExtractUriThrows \/ CopyCrashes \/ Answer
  BY <1>0, <1>8, CallGoesOn
  DEF ReadMinusOne, MemsetCrashes, NoBody, StollThrows, ExtractUriThrows,
      CopyCrashes, Answer
<1>9. ASSUME NEW next \in Replies, Follow(next)
      PROVE  CallsInv'
  <2> DEFINE call == [uri |-> response.Location, reply |-> next]
  <2>1. /\ calls' = Append(calls, call) /\ pc' = "connect" /\ position' = 0
        /\ unsent' = FALSE /\ arrived' = 0 /\ ended' = FALSE
        /\ failed' = FALSE /\ response' = Empty
        /\ response.Location \in Uris /\ Depth < MaxCalls
    BY <1>9 DEF Follow
  <2>2. calls \in Seq([uri : Uris, reply : Replies]) /\ Depth \in 1..MaxCalls
    BY DEF CallsInv
  <2>3. calls' \in Seq([uri : Uris, reply : Replies])
    BY <2>1, <2>2
  <2>4. Depth' = Depth + 1 /\ Depth' \in 1..MaxCalls
    BY <2>1, <2>2, SizeAssumption DEF Depth
  <2>5. Call' = call
    BY <2>1, <2>2, <2>4 DEF Call, Depth
  <2>6. Len(Wire(Call'.reply)) \in Nat
    BY <2>5, WireShape, SizeAssumption DEF EmptyLine, HasLocation, HasLength
  <2>7. Empty \in Responses
    <3>1. <<>> \in Seq(Items)
      OBVIOUS
    <3> QED BY <3>1 DEF Empty, Responses, Lengths
  <2>8. arrived' \in 0..Len(Wire(Call'.reply)) /\ position' \in 0..arrived'
    BY <2>1, <2>6
  <2> QED BY <2>1, <2>3, <2>4, <2>7, <2>8 DEF CallsInv
<1>10. CASE \E d \in 1..MaxCalls : Return(d)
  BY <1>0, <1>10, CallGoesOn DEF Return
<1>11. CASE UNCHANGED vars
  BY <1>0, <1>11, CallGoesOn DEF vars
<1> QED
  BY <1>1, <1>2, <1>3, <1>4, <1>5, <1>6, <1>7, <1>8, <1>9, <1>10, <1>11
  DEF Next, Network, Client, Loops, Stops

-----------------------------------------------------------------------------
LEMMA NextOwnedInv == CallsInv /\ OwnedInv /\ [Next]_vars => OwnedInv'
<1> SUFFICES ASSUME CallsInv, OwnedInv, [Next]_vars PROVE OwnedInv'
  OBVIOUS
<1> USE DEF incoming, owned
<1>0. Depth \in 1..MaxCalls /\ \A d \in 1..MaxCalls : Dropped(d) \in {0, 2}
  BY DEF CallsInv, Dropped
<1>1. CASE UNCHANGED <<calls, owned>> /\ (pc' = "connect" => pc = "connect")
  <2>1. UNCHANGED <<calls, clients, refs, lost>>
    BY <1>1
  <2>2. Depth' = Depth /\ \A d : Dropped(d)' = Dropped(d)
    BY <2>1 DEF Depth, Dropped
  <2> QED BY <1>1, <2>1, <2>2 DEF OwnedInv
<1>2. CASE Connect \/ ConnectFails
  <2>1. /\ Depth' = Depth /\ \A d : Dropped(d)' = Dropped(d)
        /\ References = Dropped(Depth) /\ Depth \notin clients
        /\ pc = "connect" /\ pc' # "connect"
        /\ refs' = [refs EXCEPT ![Depth] = References]
    BY <1>2 DEF Connect, ConnectFails, OwnedInv, Depth, Dropped, References, Call
  <2>2. CASE Connect
    <3>1. clients' = clients \cup {Depth} /\ lost' = lost
      BY <2>2 DEF Connect
    <3> QED BY <1>0, <2>1, <3>1, SizeAssumption DEF OwnedInv
  <2>3. CASE ConnectFails
    <3>1. clients' = clients /\ lost' = [lost EXCEPT ![Depth] = References]
      BY <2>3 DEF ConnectFails
    <3> QED BY <1>0, <2>1, <3>1, SizeAssumption DEF OwnedInv
  <2> QED BY <1>2, <2>2, <2>3
<1>3. ASSUME NEW next \in Replies, Follow(next)
      PROVE  OwnedInv'
  <2>1. /\ Depth' = Depth + 1 /\ UNCHANGED <<clients, refs, lost>>
        /\ \A d \in 1..Depth : Dropped(d)' = Dropped(d)
    BY <1>3, SizeAssumption DEF Follow, CallsInv, Depth, Dropped
  <2> QED BY <1>0, <2>1, SizeAssumption DEF OwnedInv
<1>4. ASSUME NEW d \in 1..MaxCalls, Return(d)
      PROVE  OwnedInv'
  <2>1. /\ Depth' = Depth /\ \A e : Dropped(e)' = Dropped(e)
        /\ pc' # "connect" /\ pc # "connect" /\ d \in clients
        /\ clients' = clients \ {d} /\ lost' = lost
        /\ refs' = [refs EXCEPT ![d] = refs[d] - Dropped(d)]
    BY <1>4 DEF Return, Depth, Dropped
  <2>2. refs[d] - Dropped(d) = 0 /\ lost[d] = 0
    BY <1>0, <2>1 DEF OwnedInv
  <2> QED BY <1>0, <2>1, <2>2 DEF OwnedInv
<1>5. CASE Network \/ Loops \/ Stops
  BY <1>1, <1>5
  DEF Network, Arrive, ServerEnds, LineFails, Loops, Stops, vars
<1>6. CASE \/ WriteRequest \/ RequestFails \/ ReadStatus \/ ReadHeader
           \/ ReadBody \/ ReadMinusOne \/ MemsetCrashes \/ NoBody
           \/ StollThrows \/ ExtractUriThrows \/ CopyCrashes \/ Answer
  BY <1>1, <1>6
  DEF WriteRequest, RequestFails, ReadStatus, ReadHeader, ReadBody,
      ReadMinusOne, MemsetCrashes, NoBody, StollThrows, ExtractUriThrows,
      CopyCrashes, Answer
<1>7. CASE UNCHANGED vars
  BY <1>1, <1>7 DEF vars
<1> QED
  BY <1>2, <1>3, <1>4, <1>5, <1>6, <1>7 DEF Next, Client

LEMMA NextFollowedInv ==
  CallsInv /\ ResponseInv /\ FollowedInv /\ [Next]_vars => FollowedInv'
<1> SUFFICES ASSUME CallsInv, ResponseInv, FollowedInv, [Next]_vars
             PROVE  FollowedInv'
  OBVIOUS
<1>1. CASE UNCHANGED calls
  BY <1>1 DEF FollowedInv, Depth
<1>2. ASSUME NEW next \in Replies, Follow(next)
      PROVE  FollowedInv'
  <2>1. /\ calls' = Append(calls, [uri |-> response.Location, reply |-> next])
        /\ pc = "decide" /\ response.code = "302" /\ response.Location \in Uris
    BY <1>2 DEF Follow, Redirected
  <2>2. calls \in Seq([uri : Uris, reply : Replies]) /\ Depth \in Nat
    BY SizeAssumption DEF CallsInv
  <2>3. /\ Depth' = Depth + 1
        /\ \A d \in 1..Depth : calls'[d] = calls[d]
        /\ calls'[Depth + 1].uri = response.Location
    BY <2>1, <2>2 DEF Depth
  <2>4. Call.reply.reason /\ Call.reply.code = "302"
          /\ Call.reply.Location = response.Location
    BY <2>1, UriAssumption DEF ResponseInv, HeadersRead
  <2>5. \A d \in 1..Depth-1 : d \in 1..Depth /\ d + 1 \in 1..Depth
    BY <2>2
  <2>6. ASSUME NEW d \in 1..Depth
        PROVE  /\ calls[d].reply.reason /\ calls[d].reply.code = "302"
               /\ calls[d].reply.Location = calls'[d+1].uri
    <3>1. CASE d = Depth
      BY <2>3, <2>4, <3>1 DEF Call
    <3>2. CASE d # Depth
      <4>1. d \in 1..Depth-1 /\ d + 1 \in 1..Depth
        BY <2>2, <3>2
      <4> QED BY <2>3, <4>1 DEF FollowedInv
    <3> QED BY <3>1, <3>2
  <2>7. \A d \in 1..Depth'-1 : d \in 1..Depth /\ calls'[d] = calls[d]
    BY <2>2, <2>3
  <2> QED BY <2>6, <2>7 DEF FollowedInv
<1>3. CASE Network \/ Loops \/ Stops
  BY <1>1, <1>3
  DEF Network, Arrive, ServerEnds, LineFails, Loops, Stops, vars
<1>4. CASE \/ Connect \/ ConnectFails \/ WriteRequest \/ RequestFails
           \/ ReadStatus \/ ReadHeader \/ ReadBody \/ ReadMinusOne
           \/ MemsetCrashes \/ NoBody \/ StollThrows \/ ExtractUriThrows
           \/ CopyCrashes \/ Answer \/ \E d \in 1..MaxCalls : Return(d)
  BY <1>1, <1>4
  DEF Connect, ConnectFails, WriteRequest, RequestFails, ReadStatus,
      ReadHeader, ReadBody, ReadMinusOne, MemsetCrashes, NoBody, StollThrows,
      ExtractUriThrows, CopyCrashes, Answer, Return
<1>5. CASE UNCHANGED vars
  BY <1>1, <1>5 DEF vars
<1> QED
  BY <1>2, <1>3, <1>4, <1>5 DEF Next, Client

-----------------------------------------------------------------------------
LEMMA NextResponseInv == CallsInv /\ ResponseInv /\ [Next]_vars => ResponseInv'
<1> SUFFICES ASSUME CallsInv, ResponseInv, [Next]_vars PROVE ResponseInv'
  OBVIOUS
<1> DEFINE reply == Call.reply
<1> USE DEF incoming, owned
<1>0. /\ position \in Nat /\ arrived \in Nat
      /\ EmptyLine(reply) \in 2..4 /\ response \in Responses
      /\ HasLocation(reply) \in {0, 1} /\ HasLength(reply) \in {0, 1}
      /\ EmptyLine(reply) = 2 + HasLocation(reply) + HasLength(reply)
  BY CallReply DEF CallsInv, EmptyLine, HasLocation, HasLength
<1>1. CASE ServerEnds \/ \E d \in 1..MaxCalls : Return(d)
  <2>1. UNCHANGED <<calls, pc, arrived, position, response>>
    BY <1>1 DEF ServerEnds, Return
  <2> QED BY <2>1 DEF ResponseInv, HeadersRead, BodyRead, Call, Depth
<1>2. CASE Arrive \/ Connect
  <2>1. /\ UNCHANGED <<calls, position, response>>
        /\ pc' \notin {"decide", "answered", "crashed"}
        /\ pc' = pc \/ (pc = "connect" /\ pc' = "request")
    BY <1>2 DEF Arrive, Reading, Connect
  <2> QED BY <2>1 DEF ResponseInv, HeadersRead, Call, Depth
<1>11. CASE LineFails \/ WriteRequest \/ RequestFails
  <2>1. UNCHANGED <<calls, position, response>> /\ pc' = "line"
    BY <1>11 DEF LineFails, WriteRequest, RequestFails
  <2>2. position < EmptyLine(reply) /\ (position > 0 => reply.reason)
    BY <1>0, <1>11 DEF ResponseInv, LineFails, WriteRequest, RequestFails
  <2>3. response.body = <<>>
    BY <1>11 DEF ResponseInv, LineFails, WriteRequest, RequestFails
  <2> QED BY <2>1, <2>2, <2>3 DEF ResponseInv, HeadersRead, Call, Depth
<1>3. CASE ConnectFails \/ StollThrows \/ ExtractUriThrows
  <2>1. UNCHANGED <<calls, position, response>> /\ pc' = "threw"
    BY <1>3 DEF ConnectFails, StollThrows, ExtractUriThrows
  <2> QED BY <2>1 DEF ResponseInv, HeadersRead, Call, Depth
<1>4. CASE ReadStatus
  <2>1. /\ pc = "line" /\ position = 0 /\ position' = 1
        /\ UNCHANGED calls /\ response.body = <<>>
    BY <1>4 DEF ReadStatus, ResponseInv
  <2>2. Call'.reply = reply
    BY <2>1 DEF Call, Depth
  <2>3. /\ response.Location = NoUri /\ response.ContentLength = Absent
        /\ response.code = ""
    <3>1. ~(position > 0) /\ ~(position >= 2)
          /\ ~(position >= 2 + HasLocation(reply))
      BY <1>0, <2>1
    <3> QED BY <3>1 DEF ResponseInv, HeadersRead
  <2>4. position' > 0 /\ ~(position' >= 2)
        /\ ~(position' >= 2 + HasLocation(reply))
    BY <1>0, <2>1
  <2>5. CASE reply.reason
    <3>1. response' = [response EXCEPT !.code = reply.code] /\ pc' = "line"
      BY <1>4, <2>1, <2>5 DEF ReadStatus
    <3>2. /\ response'.Location = NoUri /\ response'.ContentLength = Absent
          /\ response'.code = reply.code /\ response'.body = <<>>
      BY <1>0, <2>1, <2>3, <3>1 DEF Responses
    <3>3. HeadersRead(reply)'
      BY <2>2, <2>5, <2>4, <3>2 DEF HeadersRead
    <3> QED BY <1>0, <2>1, <2>2, <2>5, <3>1, <3>2, <3>3 DEF ResponseInv
  <2>6. CASE ~reply.reason
    <3>1. response' = response /\ pc' = "decide"
      BY <1>4, <2>6 DEF ReadStatus
    <3>2. HeadersRead(reply)'
      BY <2>2, <2>3, <2>6, <2>4, <3>1 DEF HeadersRead
    <3>3. BodyRead(reply)'
      <4>1. Announced(reply) = Absent /\ response'.body = <<>>
        BY <2>1, <2>6, <3>1 DEF Announced
      <4> QED BY <2>2, <4>1, LengthAssumption DEF BodyRead, Announced
    <3> QED BY <2>1, <2>2, <2>6, <3>1, <3>2, <3>3 DEF ResponseInv
  <2> QED BY <2>5, <2>6
<1>5. CASE ReadHeader
  <2>1. /\ pc = "line" /\ position > 0 /\ arrived > position
        /\ position' = position + 1 /\ response' = Header
        /\ pc' = IF HeadersEnd THEN "body" ELSE "line"
        /\ UNCHANGED calls
    BY <1>5 DEF ReadHeader
  <2>2. /\ position < EmptyLine(reply) /\ reply.reason /\ response.body = <<>>
        /\ HeadersRead(reply)
    BY <2>1 DEF ResponseInv
  <2>3. Call'.reply = reply
    BY <2>1 DEF Call, Depth
  <2>4. CASE position = EmptyLine(reply) - 1
    <3>1. response' = response /\ pc' = "body" /\ position' = EmptyLine(reply)
      BY <1>0, <2>1, <2>4, LineAt DEF Header, HeadersEnd
    <3>2. /\ HasLocation(reply) = 0 => reply.Location = NoUri
          /\ HasLength(reply) = 0 => reply.ContentLength = Absent
      BY DEF HasLocation, HasLength
    <3>3. HeadersRead(reply)'
      <4>1. /\ position > 0 /\ position' > 0 /\ position' >= 2
            /\ position' >= 2 + HasLocation(reply)
            /\ ~(position >= 2) => HasLocation(reply) = 0
            /\ ~(position >= 2 + HasLocation(reply)) => HasLength(reply) = 0
        BY <1>0, <2>1, <2>4
      <4> QED BY <2>2, <2>3, <3>1, <3>2, <4>1 DEF HeadersRead
    <3> QED BY <2>2, <2>3, <3>1, <3>3 DEF ResponseInv
  <2>5. CASE position < EmptyLine(reply) - 1
    <3>1. position \in 1..EmptyLine(reply) - 2
      BY <1>0, <2>1, <2>5
    <3>2. pc' = "line" /\ position' < EmptyLine(reply)
      BY <1>0, <2>1, <2>5, LineAt DEF HeadersEnd
    <3>3. response'.body = <<>> /\ HeadersRead(reply)'
      <4>1. CASE position = 1 /\ HasLocation(reply) = 1
        <5>1. response' = [response EXCEPT !.Location = reply.Location]
          BY <2>1, <3>1, <4>1, LineAt DEF Header
        <5>2. /\ response'.Location = reply.Location
              /\ response'.ContentLength = response.ContentLength
              /\ response'.code = response.code /\ response'.body = <<>>
          BY <1>0, <2>2, <5>1 DEF Responses
        <5> QED BY <1>0, <2>1, <2>2, <2>3, <4>1, <5>2 DEF HeadersRead
      <4>2. CASE ~(position = 1 /\ HasLocation(reply) = 1)
        <5>1. response' = [response EXCEPT !.ContentLength = reply.ContentLength]
          BY <2>1, <3>1, <4>2, LineAt DEF Header
        <5>2. /\ response'.ContentLength = reply.ContentLength
              /\ response'.Location = response.Location
              /\ response'.code = response.code /\ response'.body = <<>>
          BY <1>0, <2>2, <5>1 DEF Responses
        <5>3. position = 1 + HasLocation(reply)
          BY <1>0, <3>1, <4>2
        <5>4. HasLocation(reply) = 0 => reply.Location = NoUri
          BY DEF HasLocation
        <5>5. /\ position > 0 /\ position' > 0 /\ position' >= 2
              /\ position' >= 2 + HasLocation(reply)
              /\ ~(position >= 2) => HasLocation(reply) = 0
          BY <1>0, <2>1, <5>3
        <5> QED BY <2>2, <2>3, <5>2, <5>4, <5>5 DEF HeadersRead
      <4> QED BY <4>1, <4>2
    <3> QED BY <2>2, <2>3, <3>2, <3>3 DEF ResponseInv
  <2> QED BY <1>0, <2>2, <2>4, <2>5
<1>6. CASE ReadBody
  <2> DEFINE length == response.ContentLength
             k == Got(length)
             body == [i \in 1..length |->
                        IF i <= k THEN Wire(reply)[position + i] ELSE Byte(0)]
  <2>1. /\ pc = "body" /\ length \in 0..MaxBody
        /\ response' = [response EXCEPT !.body = body]
        /\ position' = position + k /\ failed' = (k < length)
        /\ pc' = "decide" /\ UNCHANGED calls
    BY <1>6 DEF ReadBody
  <2>2. /\ position = EmptyLine(reply) /\ reply.reason
        /\ response.ContentLength = reply.ContentLength /\ HeadersRead(reply)
    <3>1. position = EmptyLine(reply) /\ reply.reason /\ HeadersRead(reply)
      BY <2>1 DEF ResponseInv
    <3>2. position >= 2 + HasLocation(reply)
      BY <1>0, <3>1
    <3> QED BY <3>1, <3>2 DEF HeadersRead
  <2>3. Call'.reply = reply
    BY <2>1 DEF Call, Depth
  <2>4. k \in 0..length /\ k \in Nat /\ length \in Nat
    <3>1. position <= arrived
      BY <1>0 DEF CallsInv
    <3> QED BY <1>0, <2>1, <3>1, SizeAssumption DEF Got
  <2>5. \A i \in 1..length : body[i] = Byte(IF i <= k THEN i ELSE 0)
    <3>1. ASSUME NEW i \in 1..length, i <= k
          PROVE  Wire(reply)[position + i] = Byte(i)
      <4>1. /\ position + i \in 1..EmptyLine(reply) + MaxBody
            /\ position + i > EmptyLine(reply) /\ position + i # 1
            /\ (position + i) - EmptyLine(reply) = i
        <5>1. position \in Nat /\ position = EmptyLine(reply) /\ position >= 1
          BY <1>0, <2>2
        <5>2. MaxBody \in Nat /\ i \in 1..MaxBody
          BY <1>0, <2>1, SizeAssumption
        <5> QED BY ONLY <5>1, <5>2
      <4>2. Wire(reply)[position + i] = Expected(reply, position + i)
        BY <4>1, CallReply, WireShape
      <4>3. position + i # EmptyLine(reply)
        BY <1>0, <4>1, SizeAssumption
      <4> QED BY <4>1, <4>2, <4>3 DEF Expected
    <3> QED BY <3>1
  <2>6. /\ response'.body = body /\ response'.code = response.code
        /\ response'.Location = response.Location
        /\ response'.ContentLength = response.ContentLength
    BY <1>0, <2>1 DEF Responses
  <2>7. HeadersRead(reply)'
    <3>1. position \in Nat /\ position' \in Nat /\ position' >= EmptyLine(reply)
      BY <1>0, <2>1, <2>2, <2>4
    <3>2. /\ position > 0 /\ position >= 2 /\ position >= 2 + HasLocation(reply)
          /\ position' > 0 /\ position' >= 2 /\ position' >= 2 + HasLocation(reply)
      BY <1>0, <2>2, <3>1
    <3> QED BY <2>2, <2>3, <2>6, <3>2 DEF HeadersRead
  <2>8. BodyRead(reply)'
    <3> DEFINE came == arrived - Len(Lines(reply))
    <3>1. came = arrived - position /\ came \in Int
      BY <1>0, <2>2, CallReply
    <3>2. \A i \in 1..length : i <= k <=> i <= came
      BY <2>4, <3>1 DEF Got
    <3>3. body = [i \in 1..length |-> Byte(IF i <= came THEN i ELSE 0)]
      BY <2>5, <3>2
    <3>4. /\ Announced(reply) = length /\ length \in 0..MaxBody
          /\ length \notin {NotANumber, TooLong} /\ arrived' = arrived
      BY <1>6, <2>1, <2>2, LengthAssumption DEF Announced, ReadBody
    <3> HIDE DEF body, k
    <3> QED BY <2>3, <2>6, <3>3, <3>4 DEF BodyRead, Announced
  <2> QED BY <1>0, <2>1, <2>2, <2>3, <2>4, <2>7, <2>8 DEF ResponseInv
<1>7. CASE NoBody \/ ReadMinusOne
  <2>1. /\ pc = "body" /\ response.ContentLength \in {Absent, MinusOne}
        /\ pc' = "decide" /\ UNCHANGED <<calls, response, position>>
    BY <1>7 DEF NoBody, ReadMinusOne
  <2>2. /\ position = EmptyLine(reply) /\ reply.reason
        /\ reply.ContentLength \in {Absent, MinusOne} /\ HeadersRead(reply)
        /\ response.body = <<>>
    <3>1. /\ position = EmptyLine(reply) /\ reply.reason /\ HeadersRead(reply)
          /\ response.body = <<>>
      BY <2>1 DEF ResponseInv
    <3>2. position >= 2 + HasLocation(reply)
      BY <1>0, <3>1
    <3> QED BY <2>1, <3>1, <3>2 DEF HeadersRead
  <2>3. Call'.reply = reply
    BY <2>1 DEF Call, Depth
  <2>4. BodyRead(reply)'
    <3>1. /\ Announced(reply) \notin {NotANumber, TooLong} \cup 0..MaxBody
          /\ response'.body = <<>>
      BY <2>1, <2>2, LengthAssumption DEF Announced
    <3> QED BY <2>3, <3>1 DEF BodyRead, Announced
  <2>5. HeadersRead(reply)'
    BY <2>1, <2>2, <2>3 DEF HeadersRead
  <2> QED BY <1>0, <2>1, <2>2, <2>3, <2>4, <2>5 DEF ResponseInv
<1>8. CASE Answer
  <2>1. /\ pc = "decide" /\ response.code # "302" /\ pc' = "answered"
        /\ UNCHANGED <<calls, response, position, arrived>>
    BY <1>8 DEF Answer, Redirected
  <2> QED BY <2>1 DEF ResponseInv, HeadersRead, BodyRead, Call, Depth
<1>12. CASE MemsetCrashes \/ CopyCrashes
  <2>1. /\ pc \in {"body", "decide"} /\ pc' = "crashed"
        /\ response.ContentLength \in {MinusOne, TooLong}
        /\ UNCHANGED <<calls, response, position>>
    BY <1>12 DEF MemsetCrashes, CopyCrashes
  <2>2. HeadersRead(reply) /\ response.ContentLength # Absent
    BY <2>1, LengthAssumption DEF ResponseInv
  <2>3. reply.ContentLength = response.ContentLength
    BY <2>2 DEF HeadersRead
  <2>4. reply.reason
    <3>1. CASE position = 1
      <4>1. ~(position >= 2 + HasLocation(reply))
        BY <1>0, <3>1
      <4> QED BY <2>2, <4>1 DEF HeadersRead
    <3>2. CASE position # 1
      BY <2>1, <3>2 DEF ResponseInv
    <3> QED BY <3>1, <3>2
  <2>5. Call'.reply = reply /\ Announced(reply) \in {MinusOne, TooLong}
    BY <2>1, <2>3, <2>4 DEF Call, Depth, Announced
  <2>6. HeadersRead(reply)'
    BY <2>1, <2>2, <2>5 DEF HeadersRead
  <2> QED BY <2>1, <2>5, <2>6 DEF ResponseInv, Announced
<1>9. ASSUME NEW next \in Replies, Follow(next)
      PROVE  ResponseInv'
  <2>1. pc' = "connect" /\ position' = 0 /\ response' = Empty
    BY <1>9 DEF Follow
  <2>2. EmptyLine(Call.reply)' \in 2..4
    BY DEF EmptyLine, HasLocation, HasLength
  <2>3. HasLocation(Call.reply)' \in {0, 1}
    BY DEF HasLocation
  <2>4. HeadersRead(Call.reply)'
    <3>1. ~(position' > 0) /\ ~(position' >= 2)
          /\ ~(position' >= 2 + HasLocation(Call.reply)')
      BY <2>1, <2>3
    <3> QED BY <2>1, <3>1 DEF HeadersRead, Empty
  <2> QED BY <2>1, <2>2, <2>4 DEF ResponseInv, Empty
<1>10. CASE UNCHANGED vars
  BY <1>10 DEF vars, ResponseInv, HeadersRead, BodyRead, Call, Depth
<1> QED
  BY <1>1, <1>2, <1>3, <1>4, <1>5, <1>6, <1>7, <1>8, <1>9, <1>10, <1>11, <1>12
  DEF Next, Network, Client, Loops, Stops

-----------------------------------------------------------------------------
LEMMA HttpInvariant == Spec => []HttpInv
<1>1. HttpInv /\ [Next]_vars => HttpInv'
  BY NextCallsInv, NextOwnedInv, NextFollowedInv, NextResponseInv DEF HttpInv
<1> QED BY InitHttpInv, <1>1, PTL DEF Spec

(* Every variable keeps its type, and what a client has read of a reply is *)
(* never more than has come in (deserialize of http_response, readBytes).  *)
THEOREM HttpTypeOK == Spec => []TypeOK
<1>1. HttpInv => TypeOK
  <2> SUFFICES ASSUME CallsInv, OwnedInv PROVE TypeOK
    BY DEF HttpInv
  <2>1. calls \in Seq([uri : Uris, reply : Replies])
    BY DEF CallsInv
  <2>2. \A d \in 1..Depth : calls[d].uri \in Uris /\ calls[d].reply \in Replies
    <3>1. \A d \in 1..Len(calls) : calls[d] \in [uri : Uris, reply : Replies]
      BY <2>1, ElementOfSeq
    <3> QED BY <3>1 DEF Depth
  <2>3. response.ContentLength \in Lengths
    BY DEF CallsInv, Responses
  <2>4. /\ clients \subseteq 1..Depth
        /\ \A d \in 1..MaxCalls : refs[d] \in 0..2 /\ lost[d] \in 0..2
    BY DEF OwnedInv
  <2> QED BY <2>2, <2>3, <2>4 DEF TypeOK, CallsInv, Places
<1> QED BY HttpInvariant, <1>1, PTL

(* Whatever the pace, wherever it ends and whatever length it announces,   *)
(* what the caller gets is the code that the last server sent and as many  *)
(* bytes as it announced, those that had come in when they were read and   *)
(* zeros; an exception is told, and only a length below 0 or too long ends *)
(* the program (deserialize of http_response, restSync,                    *)
(* make_http_response).                                                    *)
THEOREM HttpAnswerExact == Spec => []AnswerExact
<1>1. HttpInv => AnswerExact
  <2> SUFFICES ASSUME CallsInv, ResponseInv PROVE AnswerExact
    BY DEF HttpInv
  <2>1. pc = "threw" => Result.code = "0" /\ Result.body = <<>>
    BY DEF Result, make_http_error_response
  <2>2. ASSUME pc = "answered"
        PROVE  /\ Result.code = response.code /\ Result.body = response.body
               /\ response.code = IF Call.reply.reason THEN Call.reply.code ELSE ""
               /\ BodyRead(Call.reply)
    <3>1. Result.code = response.code /\ Result.body = response.body
      BY <2>2 DEF Result, make_http_response
    <3>2. BodyRead(Call.reply) /\ HeadersRead(Call.reply)
          /\ (IF Call.reply.reason THEN position >= EmptyLine(Call.reply)
              ELSE position = 1)
      BY <2>2 DEF ResponseInv
    <3>3. position > 0
      BY <3>2, CallReply
    <3> QED BY <3>1, <3>2, <3>3 DEF HeadersRead
  <2>3. Crashed => Announced(Call.reply) \in {MinusOne, TooLong}
    BY DEF Crashed, ResponseInv
  <2> QED BY <2>1, <2>2, <2>3 DEF AnswerExact, BodyRead, Announced
<1> QED BY HttpInvariant, <1>1, PTL

(* Every call after the first was named by a 302, and no 302 with a reason *)
(* phrase is given to the caller (restSync).                               *)
THEOREM HttpOnlyRedirectsFollowed == Spec => []OnlyRedirectsFollowed
<1>1. HttpInv => OnlyRedirectsFollowed
  <2> SUFFICES ASSUME HttpInv PROVE OnlyRedirectsFollowed
    OBVIOUS
  <2>1. ASSUME pc = "answered", Call.reply.reason, Call.reply.code = "302"
        PROVE  FALSE
    <3>1. /\ HeadersRead(Call.reply) /\ position >= EmptyLine(Call.reply)
          /\ response.code # "302"
      BY <2>1 DEF HttpInv, ResponseInv
    <3>2. position > 0
      BY <3>1, CallReply DEF HttpInv
    <3> QED BY <2>1, <3>1, <3>2 DEF HeadersRead
  <2> QED BY <2>1 DEF HttpInv, FollowedInv, OnlyRedirectsFollowed
<1> QED BY HttpInvariant, <1>1, PTL

(* When restSync is over, nothing is left but the context of a connect     *)
(* that threw (~tcp_client, restSync).                                     *)
THEOREM HttpNothingKept == Spec => []NothingKept
<1>1. HttpInv => NothingKept
  <2> SUFFICES ASSUME OwnedInv, clients = {} PROVE refs = lost
    BY DEF HttpInv, NothingKept, Returned
  <2>1. \A d \in 1..MaxCalls : refs[d] = lost[d]
    BY DEF OwnedInv
  <2>2. refs \in [1..MaxCalls -> 0..2] /\ lost \in [1..MaxCalls -> 0..2]
    BY DEF OwnedInv
  <2>3. /\ refs = [d \in 1..MaxCalls |-> refs[d]]
        /\ lost = [d \in 1..MaxCalls |-> lost[d]]
    BY <2>2
  <2>4. [d \in 1..MaxCalls |-> refs[d]] = [d \in 1..MaxCalls |-> lost[d]]
    BY <2>1, Zenon
  <2> QED BY <2>3, <2>4
<1> QED BY HttpInvariant, <1>1, PTL
=============================================================================
