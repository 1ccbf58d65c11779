----------------------------- MODULE ScMessage -----------------------------
(***************************************************************************)
(* What goes over the connection: ScMessage and Message as text.  Texts    *)
(* are sequences of characters, because whether a message is read as it    *)
(* was written depends on where separators stand.  Names of types and of   *)
(* properties and dates are single symbols that no text contains.          *)
(*                                                                         *)
(* Conversions that throw return Invalid.                                  *)
(***************************************************************************)
EXTENDS Misc

CONSTANT Summer  \* the times, in half seconds, of daylight saving time

Invalid == [type |-> "Invalid"]

-----------------------------------------------------------------------------
(* ScMessage: a type and properties *)

LOGIN == 0
REGISTER == 3
MESSAGE == 6
END == 8

(* ScMessageTypeToStr and ScMessageTypeFromStr, with END for anything else *)
(* than the name of a type.                                                *)
TypeSymbol(type) == 200 + type
TypeToStr(type) == <<TypeSymbol(type)>>
TypeFromStr(text) ==
  IF \E type \in 0 .. END - 1 : text = TypeToStr(type)
  THEN CHOOSE type \in 0 .. END - 1 : text = TypeToStr(type)
  ELSE END

(* Properties, in the order of std::map. *)
MessageProperty == <<301>>  \* "message[0]"
Password        == <<302>>
Username        == <<303>>
PropertyOrder(p, q) == p[1] < q[1]

(* The last separator is erased. *)
Serialize(msg) ==
  LET names == Keys(DOMAIN msg.properties, PropertyOrder)
      block(p) == p \o <<Colon, Space>> \o msg.properties[p] \o <<US>>
  IN  Front(TypeToStr(msg.type) \o <<US>>
              \o FlattenSeq([i \in DOMAIN names |-> block(names[i])]))

(* ParseProperty: the first colon ends the name, a space follows it. *)
FindLast(text, char) == SelectLastInSeq(text, LAMBDA c : c = char)  \* mutant
LastColon(line) == FindLast(line, Colon)                            \* mutant
ColonOf(line) == Find(line, Colon)
IsProperty(line) ==
  ColonOf(line) \in 1 .. Len(line) - 1 /\ line[ColonOf(line) + 1] = Space
NameOf(line)  == SubSeq(line, 1, ColonOf(line) - 1)
ValueOf(line) == From(line, ColonOf(line) + 2)

(* The NUL that ends the message is the last character of the last line. *)
Deserialize(buffer) ==
  LET split == Split(buffer, US)
      lines == [split EXCEPT ![Len(split)] = Front(@)]
      blocks == Tail(lines)
      set(properties, line) == MapWith(properties, NameOf(line), ValueOf(line))
      type == TypeFromStr(Head(lines))
  IN  IF type = END \/ \E i \in DOMAIN blocks : ~IsProperty(blocks[i])
      THEN Invalid
      ELSE [type |-> type, properties |-> FoldLeft(set, <<>>, blocks)]

(* WriteScMessage sends the NUL of the string, too; it comes in one piece. *)
Sent(msg) == Append(Serialize(msg), NUL)
Received(text) == Deserialize(text)

-----------------------------------------------------------------------------
(* Message: who, when, what *)

Dash == 45

Hour == 7200

(* TimePointToStr writes local time in seconds; TimePointFromStr reads it  *)
(* as standard time, whatever the season.                                  *)
Local(time) == IF time \in Summer THEN time + Hour ELSE time
DateOf(time) == 1000 + Local(time) \div 2
TimeOf(date) == 2 * (date - 1000)

(* strftime fills a buffer of 20 characters but for its last one, which is *)
(* taken away.                                                             *)
UserOf(m) == IF m.username = <<>> THEN <<Dash>> ELSE m.username
BufferToStr(m) ==                                                   \* mutant
  UserOf(m) \o <<LF, DateOf(m.time), NUL, LF>> \o m.text
MessageToStr(m) == UserOf(m) \o <<LF, DateOf(m.time), LF>> \o m.text

MessageFromStr(text) ==
  LET first == Find(text, LF)
      rest  == From(text, first + 1)
      second == Find(rest, LF)
  IN  IF first = 0 \/ second # 2 \/ rest[1] < 1000
      THEN Invalid
      ELSE [username |-> SubSeq(text, 1, first - 1),
            time |-> TimeOf(rest[1]),
            text |-> From(rest, second + 1)]

GetAuthScMessage(type, user, password) ==
  [type |-> type,
   properties |-> MapWith(MapWith(<<>>, Username, user), Password, password)]

GetMessageScMessage(m) ==
  [type |-> MESSAGE,
   properties |-> MapWith(<<>>, MessageProperty, MessageToStr(m))]

=============================================================================
