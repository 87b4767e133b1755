------------------------------ MODULE MqttWire ------------------------------
(***************************************************************************)
(* The wire format of the browser's MQTT client (public/mqttws31.js):      *)
(* WireMessage.encode, decodeMessage and the helpers under them.           *)
(*                                                                         *)
(* A byte is a number 0..255, a string a sequence of UTF-16 code units, a  *)
(* message a record whose fields are those of a WireMessage.  Positions in *)
(* a byte sequence count from 1 (the code counts from 0).                  *)
(***************************************************************************)
EXTENDS Integers, Sequences, SequencesExt

MessageTypes ==
  [CONNECT     |->  1, CONNACK  |->  2, PUBLISH  |->  3, PUBACK     |->  4,
   PUBREC      |->  5, PUBREL   |->  6, PUBCOMP  |->  7, SUBSCRIBE  |->  8,
   SUBACK      |->  9, UNSUBSCRIBE |-> 10, UNSUBACK |-> 11, PINGREQ |-> 12,
   PINGRESP    |-> 13, DISCONNECT  |-> 14]

Code(type) == MessageTypes[type]

\* A 16-bit value that is read past the end of the input is NaN in the code.
NaN == -1

-----------------------------------------------------------------------------
(***************************************************************************)
(* Strings.                                                                *)
(***************************************************************************)
IsLead(unit) == unit \in 55296 .. 56319       \* 0xd800 .. 0xdbff

\* The length that is announced: a lead surrogate counts four bytes and
\* takes the next unit with it, whatever that unit is.
UTF8Length(input) ==
  LET from[i \in 1 .. Len(input) + 2] ==
        IF i > Len(input) THEN 0
        ELSE CASE IsLead(input[i])                         -> 4 + from[i + 2]
               [] input[i] > 2047 /\ ~IsLead(input[i])     -> 3 + from[i + 1]
               [] input[i] > 127  /\ input[i] <= 2047      -> 2 + from[i + 1]
               [] OTHER                                    -> 1 + from[i + 1]
  IN from[1]

\* The bytes of one code point.
BytesOf(charCode) ==
  IF charCode <= 127 THEN <<charCode>>
  ELSE IF charCode <= 2047
       THEN <<192 + ((charCode \div 64) % 32), 128 + (charCode % 64)>>
  ELSE IF charCode <= 65535
       THEN <<224 + ((charCode \div 4096) % 16), 128 + ((charCode \div 64) % 64),
              128 + (charCode % 64)>>
  ELSE <<240 + ((charCode \div 262144) % 8), 128 + ((charCode \div 4096) % 64),
         128 + ((charCode \div 64) % 64), 128 + (charCode % 64)>>

\* A lead surrogate with nothing after it throws MALFORMED_UNICODE.
Encodable(input) ==
  LET from[i \in 1 .. Len(input) + 2] ==
        IF i > Len(input) THEN i = Len(input) + 1
        ELSE IF IsLead(input[i]) THEN from[i + 2] ELSE from[i + 1]
  IN from[1]

\* The code point of a surrogate pair.
PairOf(lead, trail) == (lead - 55296) * 1024 + (trail - 56320) + 65536

stringToUTF8(input) ==
  LET from[i \in 1 .. Len(input) + 1] ==
        IF i > Len(input) THEN <<>>
        ELSE IF IsLead(input[i])
             THEN BytesOf(PairOf(input[i], input[i + 1])) \o from[i + 2]
             ELSE BytesOf(input[i]) \o from[i + 1]
  IN from[1]

\* The code units of one decoded number: above 0xffff a surrogate pair.
UnitsOf(utf16) ==
  IF utf16 > 65535
  THEN <<55296 + (utf16 - 65536) \div 1024, 56320 + ((utf16 - 65536) % 1024)>>
  ELSE <<utf16 % 65536>>

\* The bytes of a character, by the first of them; none from 0xf8 on.
CharSize(first) ==
  IF first < 128 THEN 1 ELSE IF first < 224 THEN 2
  ELSE IF first < 240 THEN 3 ELSE IF first < 248 THEN 4 ELSE 0

\* A continuation byte below 128, a lead byte above 0xf7 and an input that
\* ends first all throw.
CharIsWhole(input, i) ==
  /\ i \in DOMAIN input /\ CharSize(input[i]) > 0
  /\ \A k \in 1 .. CharSize(input[i]) - 1 : i + k \in DOMAIN input /\ input[i + k] >= 128

CharAt(input, i) ==
  LET c(k) == input[i + k] - 128
  IN CASE CharSize(input[i]) = 1 -> input[i]
       [] CharSize(input[i]) = 2 -> 64 * (input[i] - 192) + c(1)
       [] CharSize(input[i]) = 3 -> 4096 * (input[i] - 224) + 64 * c(1) + c(2)
       [] CharSize(input[i]) = 4 -> 262144 * (input[i] - 240) + 4096 * c(1) + 64 * c(2) + c(3)

\* parseUTF8 reads characters until it has passed offset + length, the last
\* one possibly beyond it.
Unread == [ok |-> FALSE, units |-> <<>>]
parseUTF8(input, offset, length) ==
  LET from[i \in 1 .. Len(input) + 4] ==
        IF i >= offset + length THEN [ok |-> TRUE, units |-> <<>>]
        ELSE IF ~CharIsWhole(input, i) THEN Unread
        ELSE LET rest == from[i + CharSize(input[i])]
             IN IF rest.ok THEN [ok |-> TRUE, units |-> UnitsOf(CharAt(input, i)) \o rest.units]
                ELSE Unread
  IN from[offset]

-----------------------------------------------------------------------------
(***************************************************************************)
(* Numbers.                                                                *)
(***************************************************************************)
\* Stored in bytes: what exceeds sixteen bits is lost.
writeUint16(input) == <<(input \div 256) % 256, input % 256>>

readUint16(input, pos) ==
  IF {pos, pos + 1} \subseteq DOMAIN input
  THEN 256 * input[pos] + input[pos + 1] ELSE NaN

\* Seven bits a byte, least significant first, at most four bytes.
MutantEncodeMBI(number) ==
  LET more(k) == number \div (128 ^ k) > 1
      size    == IF ~more(1) THEN 1 ELSE IF ~more(2) THEN 2 ELSE 3
  IN [k \in 1 .. size |->
        ((number \div (128 ^ (k - 1))) % 128) + IF more(k) THEN 128 ELSE 0]
encodeMBI(number) ==
  LET more(k) == number \div (128 ^ k) > 0
      size    == IF ~more(1) THEN 1 ELSE IF ~more(2) THEN 2
                 ELSE IF ~more(3) THEN 3 ELSE 4
  IN [k \in 1 .. size |->
        ((number \div (128 ^ (k - 1))) % 128) + IF more(k) THEN 128 ELSE 0]

\* The number that starts at pos and the position after it, or nothing while
\* no byte without the continuation bit has arrived.
decodeMBI(input, pos) ==
  LET last == {i \in pos .. Len(input) : input[i] < 128}
      to   == CHOOSE i \in last : \A j \in last : i <= j
      sum[i \in pos .. to + 1] ==
        IF i > to THEN 0 ELSE (input[i] % 128) + 128 * sum[i + 1]
  IN IF last = {} THEN [found |-> FALSE, number |-> 0, next |-> pos]
     ELSE [found |-> TRUE, number |-> sum[pos], next |-> to + 1]

\* A string field: its announced length, then the bytes, in as many places.
writeString(input) ==
  LET bytes == stringToUTF8(input)
      size  == UTF8Length(input)
  IN writeUint16(size)
     \o [k \in 1 .. size |-> IF k <= Len(bytes) THEN bytes[k] ELSE 0]

-----------------------------------------------------------------------------
(***************************************************************************)
(* Messages the client writes.                                             *)
(***************************************************************************)
NoId   == 0
NoText == <<>>

Bare(type)         == [type |-> Code(type), id |-> NoId]
WithId(type, id)   == [type |-> Code(type), id |-> id]

\* willMessage, userName and password are optional: a record field "has".
Connect(version, cleanSession, clientId, willMessage, userName, password) ==
  [type |-> Code("CONNECT"), id |-> NoId, mqttVersion |-> version,
   cleanSession |-> cleanSession, clientId |-> clientId,
   willMessage |-> willMessage, userName |-> userName, password |-> password,
   keepAliveInterval |-> 60]
NoOption == [has |-> FALSE]
Publish(id, qos, duplicate, retained, topic, payload) ==
  [type |-> Code("PUBLISH"), id |-> id, qos |-> qos, duplicate |-> duplicate,
   retained |-> retained, destinationName |-> topic, payload |-> payload]
Subscribe(id, topic, qos) ==
  [type |-> Code("SUBSCRIBE"), id |-> id, topics |-> <<topic>>,
   requestedQos |-> <<qos>>]
Unsubscribe(id, topic) ==
  [type |-> Code("UNSUBSCRIBE"), id |-> id, topics |-> <<topic>>]

Bit(condition, value) == IF condition THEN value ELSE 0
SumOf(sequence) == FoldLeft(LAMBDA x, y : x + y, 0, sequence)

\* The protocol's name and version, as the two constants spell them.
ProtoIdentifier(version) ==
  IF version = 3 THEN <<0, 6, 77, 81, 73, 115, 100, 112, 3>>
  ELSE <<0, 4, 77, 81, 84, 84, 4>>

\* The first byte of the fixed header: type and flags.
FirstByte(m) ==
  16 * (m.type % 16)
  + Bit(m.type \in {Code("SUBSCRIBE"), Code("UNSUBSCRIBE"), Code("PUBREL")}, 2)
  + IF m.type = Code("PUBLISH")
    THEN Bit(m.duplicate, 8) + 2 * m.qos + Bit(m.retained, 1) ELSE 0

\* The remaining length, computed before anything is written.
RemainingLength(m) ==
  Bit(m.id # NoId, 2)
  + CASE m.type = Code("CONNECT") ->
           Len(ProtoIdentifier(m.mqttVersion)) + 3 + UTF8Length(m.clientId) + 2
           + (IF m.willMessage.has
              THEN UTF8Length(m.willMessage.destinationName) + 2
                   + Len(m.willMessage.payload) + 2 ELSE 0)
           + (IF m.userName.has THEN UTF8Length(m.userName.text) + 2 ELSE 0)
           + (IF m.password.has THEN UTF8Length(m.password.text) + 2 ELSE 0)
      [] m.type = Code("SUBSCRIBE") ->
           SumOf([i \in DOMAIN m.topics |-> UTF8Length(m.topics[i]) + 2])
           + Len(m.requestedQos)
      [] m.type = Code("UNSUBSCRIBE") ->
           SumOf([i \in DOMAIN m.topics |-> UTF8Length(m.topics[i]) + 2])
      [] m.type = Code("PUBLISH") ->
           UTF8Length(m.destinationName) + 2 + Len(m.payload)
      [] OTHER -> 0

ConnectFlags(m) ==
  Bit(m.cleanSession, 2)
  + (IF m.willMessage.has
     THEN 4 + 8 * m.willMessage.qos + Bit(m.willMessage.retained, 32) ELSE 0)
  + Bit(m.userName.has, 128) + Bit(m.password.has, 64)

\* What precedes the message identifier.
VariableHeader(m) ==
  CASE m.type = Code("PUBLISH") -> writeString(m.destinationName)
    [] m.type = Code("CONNECT") ->
         ProtoIdentifier(m.mqttVersion) \o <<ConnectFlags(m)>>
         \o writeUint16(m.keepAliveInterval)
    [] OTHER -> <<>>

\* What follows it.
Payload(m) ==
  CASE m.type = Code("CONNECT") ->
         writeString(m.clientId)
         \o (IF m.willMessage.has
             THEN writeString(m.willMessage.destinationName)
                  \o writeUint16(Len(m.willMessage.payload))
                  \o m.willMessage.payload ELSE <<>>)
         \o (IF m.userName.has THEN writeString(m.userName.text) ELSE <<>>)
         \o (IF m.password.has THEN writeString(m.password.text) ELSE <<>>)
    [] m.type = Code("PUBLISH") -> m.payload
    [] m.type = Code("SUBSCRIBE") ->
         FlattenSeq([i \in DOMAIN m.topics |->
                       writeString(m.topics[i]) \o <<m.requestedQos[i]>>])
    [] m.type = Code("UNSUBSCRIBE") ->
         FlattenSeq([i \in DOMAIN m.topics |-> writeString(m.topics[i])])
    [] OTHER -> <<>>

encode(m) ==
  <<FirstByte(m)>> \o encodeMBI(RemainingLength(m)) \o VariableHeader(m)
  \o (IF m.id # NoId THEN writeUint16(m.id) ELSE <<>>) \o Payload(m)

-----------------------------------------------------------------------------
(***************************************************************************)
(* Messages the client reads.  The result is "incomplete" (wait for more), *)
(* "throws", or a message and the position after it.                       *)
(***************************************************************************)
Incomplete == [outcome |-> "incomplete"]
Throws     == [outcome |-> "throws"]
Decoded(m, next) == [outcome |-> "message", message |-> m, next |-> next]

\* `subarray(pos, endPos)`: empty when the fields before it have already
\* passed the end.
SubArray(input, pos, end) ==
  SubSeq(input, pos, IF end - 1 <= Len(input) THEN end - 1 ELSE Len(input))

\* All bytes of a message have arrived.
MutantArrived(input, end) == end <= Len(input) + 2
Arrived(input, end) == end <= Len(input) + 1

DecodePublish(input, pos, end, info) ==
  LET qos  == (info \div 2) % 4
      size == readUint16(input, pos)
      text == parseUTF8(input, pos + 2, size)
      idAt == pos + 2 + size
      at   == IF qos > 0 THEN idAt + 2 ELSE idAt
  IN IF size = NaN \/ ~text.ok \/ qos = 3 THEN Throws
     ELSE Decoded(Publish(IF qos > 0 THEN readUint16(input, idAt) ELSE NoId,
                          qos, (info \div 8) % 2 = 1, info % 2 = 1,
                          text.units, SubArray(input, at, end)), end)

decodeMessage(input, startingPos) ==
  LET type   == input[startingPos] \div 16
      length == decodeMBI(input, startingPos + 1)
      pos    == length.next
      end    == pos + length.number
      IsOf(types) == type \in {Code(t) : t \in types}
  IN IF ~length.found \/ ~Arrived(input, end) THEN Incomplete
     ELSE CASE IsOf({"CONNACK"}) ->
                 Decoded([type |-> type, id |-> NoId,
                          returnCode |-> IF pos + 1 \in DOMAIN input
                                         THEN input[pos + 1] ELSE NaN], end)
            [] IsOf({"PUBLISH"}) ->
                 DecodePublish(input, pos, end, input[startingPos] % 16)
            [] IsOf({"PUBACK", "PUBREC", "PUBREL", "PUBCOMP", "UNSUBACK"}) ->
                 Decoded([type |-> type, id |-> readUint16(input, pos)], end)
            [] IsOf({"SUBACK"}) ->
                 Decoded([type |-> type, id |-> readUint16(input, pos),
                          returnCode |-> SubArray(input, pos + 2, end)], end)
            [] OTHER -> Decoded([type |-> type, id |-> NoId], end)

-----------------------------------------------------------------------------
(***************************************************************************)
(* What the codec must satisfy of a message: the length announced is the   *)
(* number of bytes written, and a message both sides may send is read back *)
(* as it was written, with nothing left over.                              *)
(***************************************************************************)
LengthIsExact(m) ==
  LET bytes  == encode(m)
      length == decodeMBI(bytes, 2)
  IN length.found /\ length.next + length.number = Len(bytes) + 1

RoundTrips(m) ==
  m.type \in {Code(t) : t \in {"PUBLISH", "PUBACK", "PUBREC", "PUBREL", "PUBCOMP"}} =>
    LET bytes == encode(m) IN decodeMessage(bytes, 1) = Decoded(m, Len(bytes) + 1)

=============================================================================
