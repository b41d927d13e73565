---------------------------- MODULE SerialStream ------------------------------
(***************************************************************************)
(* Serial reading strings, containers of strings and std::anys from a      *)
(* std::istream while another part of the program is still filling it (a   *)
(* stringstream: bytes arrive at its end and can be read again after a     *)
(* seek).  A read that finds too few bytes takes those, sets a flag, and   *)
(* leaves the istream failed; whoever asked for it goes on.  The program   *)
(* asks did_not_read_whole_size after each item; when it says yes, the     *)
(* program clears, goes back to where the item began, and tries again      *)
(* later.  It reads all strings into one variable; containers and anys get *)
(* a new one each, and a container is emptied before it is tried again.    *)
(***************************************************************************)
EXTENDS SerialString, SequencesExt, TLC

CONSTANTS Names,      \* stable names, one character each and not 0
          MaxItems,   \* bound: items written
          MaxCount,   \* bound: strings in a container
          MaxTypes    \* bound: calls of register_type

Types == {"int", "string"}

ASSUME BoundAssumption == /\ {MaxItems, MaxCount, MaxTypes} \subseteq Nat
                          /\ MaxCount < Weight[SizeBytes] /\ Names \subseteq Nat \ {0}

VARIABLES
  registry,  \* any_registry: the name of each type and the type of each name
  items,     \* the items written
  wire,      \* their bytes
  arrived,   \* bytes of them that are in the stream so far
  position,  \* the get position of the stream
  failed,    \* the stream's failbit
  _size_mismatch_flag, __size_mismatch_flag, read_empty,
  currentReadByte,
  pc,        \* what the program does next
  todo,      \* the steps that deserialize has left
  text,      \* the string or number being read
  out,       \* the container or any read into
  begin,     \* the position the program goes back to
  accepted   \* the items the program took to be whole

written == <<registry, items, wire>>
stream == <<position, failed>>
flags == <<_size_mismatch_flag, __size_mismatch_flag, read_empty>>
vars == <<written, arrived, stream, flags, currentReadByte, pc, todo, text, out,
          begin, accepted>>

-----------------------------------------------------------------------------
(* The registry, and what is written. *)

(* register_type: a name that is taken is left alone, a type that is known *)
(* under another name gets a new one, and both can be read.                *)
register_type_NameTaken(reg, call) ==                        \* mutant
  [name |-> call.type :> call.name @@ reg.name, type |-> call.name :> call.type @@ reg.type]
register_type(reg, call) ==
  IF call.name \in DOMAIN reg.type THEN reg
  ELSE [name |-> call.type :> call.name @@ reg.name,
        type |-> call.name :> call.type @@ reg.type]

Registries ==
  {FoldLeft(register_type, [name |-> <<>>, type |-> <<>>], calls) :
     calls \in UNION {[1..n -> [type : Types, name : Names]] : n \in 0..MaxTypes}}

(* A string, a container of strings (a map is one of keys and values), or  *)
(* an any that is empty or has a value of a type that may be registered.   *)
Items == [kind : {"string"}, lengths : [1..1 -> 0..MaxLen]]
           \cup [kind : {"container"}, lengths : UNION {[1..n -> 0..1] : n \in 0..MaxCount}]
           \cup [kind : {"any"}, type : {"none"}]
           \cup [kind : {"any"}, type : Types]

(* The i-th string of the n-th item, and the number in it. *)
Text(n, i, length) == Chars((MaxCount + 1) * n + i, length)
Number(n) == Text(n, 0, SizeBytes)
Value(n) == IF items[n].type = "int" THEN Number(n) ELSE Text(n, 0, 1)

Registered(item) == item.type \in DOMAIN registry.name

(* serialize.  An any without a value, or of a type that nobody            *)
(* registered, is the byte 0; others are 1, the stable name and the value. *)
Serialized(n) ==
  LET item == items[n]
  IN  CASE item.kind = "string" -> Prefixed(Text(n, 0, item.lengths[1]))
        [] item.kind = "container" ->
             Digits(Len(item.lengths)) \o
             FlattenSeq([i \in DOMAIN item.lengths |-> Prefixed(Text(n, i, item.lengths[i]))])
        [] item.kind = "any" ->
             IF ~Registered(item) THEN <<0>>
             ELSE <<1>> \o Prefixed(<<registry.name[item.type]>>) \o
                  (IF item.type = "int" THEN Value(n) ELSE Prefixed(Value(n)))

(* What the reader ought to end up with. *)
Whole(n) ==
  LET item == items[n]
  IN  CASE item.kind = "string" -> Text(n, 0, item.lengths[1])
        [] item.kind = "container" -> [i \in DOMAIN item.lengths |-> Text(n, i, item.lengths[i])]
        [] item.kind = "any" -> IF Registered(item) THEN <<item.type, Value(n)>> ELSE <<>>

(* The steps of deserialize for the n-th item. *)
Plan(n) == CASE items[n].kind = "string" -> <<"size", "chars">>
             [] items[n].kind = "container" -> <<"count">>
             [] items[n].kind = "any" -> <<"tag">>

Init == /\ registry \in Registries
        /\ items \in UNION {[1..n -> Items] : n \in 1..MaxItems}
        /\ \E i \in DOMAIN items : items[i].kind = "any" \/ registry.name = <<>>
        /\ wire = FlattenSeq([n \in DOMAIN items |-> Serialized(n)])
        /\ arrived = 0 /\ position = 0 /\ failed = FALSE
        /\ _size_mismatch_flag = FALSE /\ __size_mismatch_flag = FALSE
        /\ read_empty = FALSE /\ currentReadByte = 0
        /\ pc = "reading" /\ todo = Plan(1) /\ text = <<>> /\ out = <<>>
        /\ begin = 0 /\ accepted = <<>>

Arrive == /\ arrived < Len(wire)
          /\ arrived' = arrived + 1
          /\ UNCHANGED <<written, stream, flags, currentReadByte, pc, todo, text, out,
                         begin, accepted>>

-----------------------------------------------------------------------------
(* What read(dest, n) takes from the stream: nothing once it has failed.   *)
Takes(n) == IF failed THEN 0
            ELSE IF n <= arrived - position THEN n ELSE arrived - position

(* The bytes that readBytes(dest, n) puts at the front of dest. *)
Found(n) == SubSeq(wire, position + 1, position + Takes(n))

(* readBytes's effect on the stream and on the flags; in_avail() is what   *)
(* is left in the stream.                                                  *)
ReadBytes(n) ==
  LET k == Takes(n)
      left == arrived - position - k
  IN  /\ position' = position + k
      /\ failed' = (failed \/ k < n)
      /\ _size_mismatch_flag' = (_size_mismatch_flag \/ k # n)
      /\ read_empty' = ((k = 0 \/ k # n) /\ left = 0)
      /\ UNCHANGED __size_mismatch_flag

Step(name) == pc = "reading" /\ todo # <<>> /\ Head(todo) = name
outside == <<written, arrived, pc, begin, accepted>>

(* deserialize(serial, str): the size, over that of the string passed in   *)
(* (a new one, for a string within a container or an any).  The guard      *)
(* after it looks at what did_not_read_whole_size answered last, not at    *)
(* the read just made.                                                     *)
ReadSize ==
  /\ Step("size") \/ Step("new size")
  /\ LET old == IF Step("size") THEN text ELSE <<>>
         size == Size(Into(Digits(Len(old)), SizeBytes, Found(SizeBytes)))
     IN  IF __size_mismatch_flag
         THEN text' = old /\ todo' = Tail(Tail(todo))
         ELSE text' = Resized(old, size) /\ todo' = Tail(todo)
  /\ ReadBytes(SizeBytes)
  /\ UNCHANGED <<outside, currentReadByte, out>>

ReadChars ==
  /\ Step("chars")
  /\ ReadBytes(Len(text))
  /\ text' = Into(text, Len(text), Found(Len(text)))
  /\ todo' = Tail(todo)
  /\ UNCHANGED <<outside, currentReadByte, out>>

(* deserialize_vector and its like: as many strings as the size that was   *)
(* read says, each put in whether or not it was whole.                     *)
ReadCount ==
  /\ Step("count")
  /\ ReadBytes(SizeBytes)
  /\ LET size == Size(Into(Digits(0), SizeBytes, Found(SizeBytes)))
     IN  todo' = FlattenSeq([i \in 1..size |-> <<"new size", "chars", "put in">>])
  /\ UNCHANGED <<outside, currentReadByte, text, out>>

PutIn ==
  /\ Step("put in")
  /\ out' = Append(out, text) /\ todo' = Tail(todo)
  /\ UNCHANGED <<outside, stream, flags, currentReadByte, text>>

(* deserialize(serial, any).  readByte answers with the byte it had when   *)
(* there is none to read.  A name that nobody registered is thrown out, a  *)
(* value is assigned whether or not it was whole.                          *)
ReadTag ==
  /\ Step("tag")
  /\ ReadBytes(1)
  /\ currentReadByte' = IF Takes(1) = 1 THEN Found(1)[1] ELSE currentReadByte
  /\ todo' = IF __size_mismatch_flag \/ currentReadByte' = 0 THEN <<>>
             ELSE <<"new size", "chars", "look up">>
  /\ UNCHANGED <<outside, text, out>>

KnownName == Len(text) = 1 /\ text[1] \in DOMAIN registry.type

LookUp ==
  /\ Step("look up") /\ (__size_mismatch_flag \/ KnownName)
  /\ todo' = IF __size_mismatch_flag THEN <<>>
             ELSE IF registry.type[text[1]] = "int" THEN <<"number", "int">>
             ELSE <<"new size", "chars", "string">>
  /\ UNCHANGED <<outside, stream, flags, currentReadByte, text, out>>

Throw ==
  /\ Step("look up") /\ ~__size_mismatch_flag /\ ~KnownName
  /\ pc' = "thrown" /\ todo' = <<>>
  /\ UNCHANGED <<written, arrived, begin, accepted, stream, flags, currentReadByte,
                 text, out>>

(* int value: its memory is what it is (marked -1) until it has been read. *)
ReadNumber ==
  /\ Step("number")
  /\ ReadBytes(SizeBytes)
  /\ text' = Into([i \in 1..SizeBytes |-> -1], SizeBytes, Found(SizeBytes))
  /\ todo' = Tail(todo)
  /\ UNCHANGED <<outside, currentReadByte, out>>

Assign ==
  /\ Step("int") \/ Step("string")
  /\ out' = IF __size_mismatch_flag THEN out ELSE <<Head(todo), text>>
  /\ todo' = Tail(todo)
  /\ UNCHANGED <<outside, stream, flags, currentReadByte, text>>

-----------------------------------------------------------------------------
(* The program that reads, between two calls of deserialize. *)

did_not_read_whole_size == /\ __size_mismatch_flag' = _size_mismatch_flag
                           /\ _size_mismatch_flag' = FALSE

Current == Len(accepted) + 1
Returned == pc \in {"reading", "thrown"} /\ todo = <<>>

(* The item is whole, and the next one begins here. *)
Accept ==
  /\ pc = "reading" /\ todo = <<>> /\ ~_size_mismatch_flag
  /\ did_not_read_whole_size
  /\ accepted' = Append(accepted, IF items[Current].kind = "string" THEN text ELSE out)
  /\ begin' = position
  /\ out' = <<>>
  /\ IF Current = Len(items) THEN pc' = "finished" /\ todo' = <<>>
                               ELSE pc' = "reading" /\ todo' = Plan(Current + 1)
  /\ UNCHANGED <<written, arrived, stream, read_empty, currentReadByte, text>>

(* It is not; an exception is caught and treated the same. *)
Reject ==
  /\ Returned /\ _size_mismatch_flag
  /\ did_not_read_whole_size
  /\ pc' = "retry"
  /\ UNCHANGED <<written, arrived, stream, read_empty, currentReadByte, todo, text,
                 out, begin, accepted>>

(* clearRead, then setReadPosition: a failed stream does not seek.         *)
clearRead_StreamOnly ==                                      \* mutant
  failed' = FALSE /\ UNCHANGED <<_size_mismatch_flag, __size_mismatch_flag>>
clearRead_FlagsOnly ==                                       \* mutant
  /\ _size_mismatch_flag' = FALSE /\ __size_mismatch_flag' = FALSE
  /\ UNCHANGED failed
clearRead == /\ failed' = FALSE
             /\ _size_mismatch_flag' = FALSE
             /\ __size_mismatch_flag' = FALSE

Retry ==
  /\ pc = "retry"
  /\ clearRead
  /\ position' = IF failed' THEN position ELSE begin
  /\ out' = IF items[Current].kind = "container" THEN <<>> ELSE out
  /\ pc' = "reading" /\ todo' = Plan(Current)
  /\ UNCHANGED <<written, arrived, read_empty, currentReadByte, text, begin, accepted>>

Finished == pc = "finished" /\ UNCHANGED vars

Reading == \/ ReadSize \/ ReadChars \/ ReadCount \/ PutIn \/ ReadTag \/ LookUp \/ Throw
           \/ ReadNumber \/ Assign \/ Accept \/ Reject \/ Retry

Next == Arrive \/ Reading \/ Finished

(* The bytes arrive in the end, and the program goes on. *)
Spec == Init /\ [][Next]_vars /\ WF_vars(Arrive) /\ WF_vars(Reading)

-----------------------------------------------------------------------------
(* An item the program took to be whole is the one that was written,       *)
(* wherever the bytes ran out and however often it was tried before: a     *)
(* torn string, a container cut short or filled up, or an any with another *)
(* item's value or under another type's name is never taken for one.       *)
AcceptedWhole == \A n \in DOMAIN accepted : accepted[n] = Whole(n)

(* Once all bytes are there every item is read: no flag of an earlier      *)
(* attempt keeps a later one from succeeding, and nothing is thrown at a   *)
(* reader who has got all the bytes.                                       *)
AllRead == <>(Len(accepted) = Len(items))
==============================================================================
