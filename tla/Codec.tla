--------------------------------- MODULE Codec ---------------------------------
(***************************************************************************)
(* The MQTT 3.1.1 wire codec as operators on sequences of bytes.           *)
(*                                                                         *)
(* Source: src/codec/ (mod.rs, varint.rs, primitives.rs, decode.rs,        *)
(* encode.rs), with the packet and flag types of src/packet.rs and         *)
(* src/request.rs.                                                         *)
(*                                                                         *)
(* A byte is a number below 256, a string is its bytes, an Option is a     *)
(* sequence of length 0 or 1.  Results keep Ok, Err and None apart, not the*)
(* kinds of error; "used" counts the bytes that have left the buffer.      *)
(*                                                                         *)
(* A loop of the code is a recursive function: its value at i is what the  *)
(* loop holds after i rounds.                                              *)
(***************************************************************************)
EXTENDS Naturals, Sequences, FiniteSetsExt, Functions

MQTT_SPEC_MAX_PACKET_SIZE == 268435455
U16_MAX == 65535

PacketType == <<"Connect", "Connack", "Publish", "Puback", "Pubrec", "Pubrel",
                "Pubcomp", "Subscribe", "Suback", "Unsubscribe", "Unsuback", "Pingreq",
                "Pingresp", "Disconnect">>

TypeByte(type) == 16 * (CHOOSE n \in DOMAIN PacketType : PacketType[n] = type)

QoS == 0 .. 2
ConnackReturnCode == 0 .. 5
SubackCode == {0, 1, 2, 128}

Err == [is |-> "Err", used |-> 0]
None == [is |-> "None"]
Ok(v) == [is |-> "Ok", val |-> v]

Bit(byte, mask) == (byte \div mask) % 2 = 1
Flag(mask, set) == IF set THEN mask ELSE 0

be_bytes(n) == <<n \div 256, n % 256>>
from_be_bytes(hi, lo) == 256 * hi + lo

--------------------------------------------------------------------------------
(* packet.rs: what a packet may hold.  Text is ASCII here. *)

Byte == 0 .. 255
U16 == 0 .. U16_MAX
Bytes == Seq(Byte)
Str == Seq(0 .. 127)
Option(S) == {o \in Seq(S) : Len(o) <= 1}

WillPacket == [topic : Str, payload : Bytes, qos : QoS, retain : BOOLEAN]
ConnectPacket ==
  [type : {"Connect"}, client_id : Str, clean_session : BOOLEAN, keep_alive : U16,
   username : Option(Str), password : Option(Bytes), will : Option(WillPacket)]
ConnackPacket ==
  [type : {"Connack"}, session_present : BOOLEAN, return_code : ConnackReturnCode]
PublishPacket ==
  [type : {"Publish"}, topic : Str, payload : Bytes, dup : BOOLEAN, qos : QoS,
   retain : BOOLEAN, packet_id : Option(U16)]
TopicSubscription == [topic : Str, qos : QoS]
SubscribePacket ==
  [type : {"Subscribe"}, packet_id : U16, subscriptions : Seq(TopicSubscription)]
SubackPacket == [type : {"Suback"}, packet_id : U16, return_codes : Seq(SubackCode)]
UnsubscribePacket == [type : {"Unsubscribe"}, packet_id : U16, topics : Seq(Str)]
IdPacket == [type : {"Puback", "Pubrec", "Pubrel", "Pubcomp", "Unsuback"}, id : U16]
BarePacket == [type : {"Pingreq", "Pingresp", "Disconnect"}]

Packet ==
  ConnectPacket \cup ConnackPacket \cup PublishPacket \cup SubscribePacket
    \cup SubackPacket \cup UnsubscribePacket \cup IdPacket \cup BarePacket

--------------------------------------------------------------------------------
(* varint.rs: the remaining length. *)

encode_remaining_length[value \in Nat] ==
  IF value < 128 THEN <<value>>
  ELSE <<128 + (value % 128)>> \o encode_remaining_length[value \div 128]

\* The number that the low seven bits of the first bytes make.
LengthOf(bytes, used) ==
  LET Digit(i) == IF i <= used THEN bytes[i] % 128 ELSE 0
  IN  [is |-> "Ok", used |-> used,
       val |-> Digit(1) + 128 * Digit(2) + 16384 * Digit(3) + 2097152 * Digit(4)]

\* Faulty: the fourth byte is refused.
ThreeLengthBytes(data) ==
  LET ends == {i \in DOMAIN data : i <= 3 /\ data[i] < 128}
  IN  IF ends # {} THEN LengthOf(data, Min(ends))
      ELSE IF Len(data) >= 3 THEN Err ELSE None

\* The first byte without the continuation bit ends the number, within four bytes.
decode_remaining_length_from_slice(data) ==
  LET ends == {i \in DOMAIN data : i <= 4 /\ data[i] < 128}
  IN  IF ends # {} THEN LengthOf(data, Min(ends))
      ELSE IF Len(data) >= 4 THEN Err ELSE None

\* The four rounds of the asynchronous reader on the bytes that have arrived so far;
\* None where it waits for the next one.
read_remaining_length(bytes) ==
  LET Round(i, next) == IF Len(bytes) < i THEN None
                        ELSE IF bytes[i] < 128 THEN LengthOf(bytes, i)
                        ELSE next
  IN  Round(1, Round(2, Round(3, Round(4, Err))))

--------------------------------------------------------------------------------
(* primitives.rs: length-prefixed fields.  A cursor counts the bytes read. *)

read_u16(body, cursor) ==
  IF cursor + 2 > Len(body) THEN Err
  ELSE [is |-> "Ok", val |-> from_be_bytes(body[cursor + 1], body[cursor + 2]),
        next |-> cursor + 2]

read_bytes(body, cursor) ==
  LET len == read_u16(body, cursor)
  IN  IF len.is = "Err" \/ len.next + len.val > Len(body) THEN Err
      ELSE [is |-> "Ok", val |-> SubSeq(body, len.next + 1, len.next + len.val),
            next |-> len.next + len.val]

\* str::from_utf8, on ASCII and on bytes that occur in no UTF-8 text.
Utf8(field) ==
  IF field.is = "Ok" /\ \A i \in DOMAIN field.val : field.val[i] < 128 THEN field ELSE Err

\* Faulty: the bytes are taken for text as they are.
read_arc_str_unchecked(body, cursor) == read_bytes(body, cursor)

read_arc_str(body, cursor) == Utf8(read_bytes(body, cursor))

write_bytes(b) == be_bytes(Len(b) % (U16_MAX + 1)) \o b
write_arc_str(s) == write_bytes(s)

\* What a loop that writes one piece after the other leaves.
Joined(pieces) ==
  LET upTo[i \in 0 .. Len(pieces)] ==
        IF i = 0 THEN <<>> ELSE upTo[i - 1] \o pieces[i]
  IN  upTo[Len(pieces)]

WriteFields(fields) == Joined([i \in DOMAIN fields |-> write_bytes(fields[i])])

\* One more field, unless an earlier one has failed.
NextField(read, field) ==
  IF read.is = "Err" \/ field.is = "Err" THEN Err
  ELSE [is |-> "Ok", val |-> Append(read.val, field.val), next |-> field.next]

ReadFields(body, cursor, kinds) ==
  LET read[i \in 0 .. Len(kinds)] ==
        IF i = 0 THEN [is |-> "Ok", val |-> <<>>, next |-> cursor]
        ELSE NextField(read[i - 1], IF kinds[i] = "str" THEN read_arc_str(body, read[i - 1].next)
                                    ELSE read_bytes(body, read[i - 1].next))
  IN  read[Len(kinds)]

--------------------------------------------------------------------------------
(* decode.rs. *)

require_empty_body(type, body) ==
  IF body # <<>> THEN Err ELSE Ok([type |-> type])

\* The fields of the payload that the flags announce.
ConnectKinds(flags) ==
  <<"str">> \o (IF Bit(flags, 4) THEN <<"str", "bytes">> ELSE <<>>)
            \o (IF Bit(flags, 128) THEN <<"str">> ELSE <<>>)
            \o (IF Bit(flags, 64) THEN <<"bytes">> ELSE <<>>)

ConnectOf(flags, keep_alive, f) ==
  LET has_will == Bit(flags, 4)
  IN  [type |-> "Connect", client_id |-> f[1], clean_session |-> Bit(flags, 2),
       keep_alive |-> keep_alive,
       will |-> IF has_will
                  THEN <<[topic |-> f[2], payload |-> f[3], qos |-> (flags \div 8) % 4,
                          retain |-> Bit(flags, 32)]>>
                  ELSE <<>>,
       username |-> IF Bit(flags, 128) THEN <<f[IF has_will THEN 4 ELSE 2]>> ELSE <<>>,
       password |-> IF Bit(flags, 64) THEN <<f[Len(f)]>> ELSE <<>>]

parse_connect(body) ==
  LET flags == body[8]
      fields == ReadFields(body, 10, ConnectKinds(flags))
  IN  IF \/ Len(body) < 10
         \/ SubSeq(body, 1, 7) # <<0, 4, 77, 81, 84, 84, 4>>
         \/ fields.is = "Err"
         \/ Bit(flags, 4) /\ (flags \div 8) % 4 \notin QoS
        THEN Err
      ELSE Ok(ConnectOf(flags, from_be_bytes(body[9], body[10]), fields.val))

parse_connack(body) ==
  IF Len(body) < 2 \/ body[2] \notin ConnackReturnCode THEN Err
  ELSE Ok([type |-> "Connack", session_present |-> Bit(body[1], 1), return_code |-> body[2]])

parse_publish(first, body) ==
  LET qos == (first \div 2) % 4
      topic == read_arc_str(body, 0)
      id == read_u16(body, topic.next)
      start == IF qos = 0 THEN topic.next ELSE id.next
  IN  IF Len(body) < 2 \/ qos \notin QoS \/ topic.is = "Err" \/ (qos # 0 /\ id.is = "Err")
        THEN Err
      ELSE Ok([type |-> "Publish", topic |-> topic.val,
               payload |-> SubSeq(body, start + 1, Len(body)),
               dup |-> Bit(first, 8), qos |-> qos, retain |-> Bit(first, 1),
               packet_id |-> IF qos = 0 THEN <<>> ELSE <<id.val>>])

\* Faulty: PUBREL's flags are taken for reserved ones.
ParseAckNoFlags(first, type, body) ==
  IF Len(body) # 2 \/ first % 16 # 0 THEN Err
  ELSE Ok([type |-> type, id |-> from_be_bytes(body[1], body[2])])

parse_ack_packet(first, type, body) ==
  IF Len(body) # 2 \/ first % 16 # (IF type = "Pubrel" THEN 2 ELSE 0) THEN Err
  ELSE Ok([type |-> type, id |-> from_be_bytes(body[1], body[2])])

\* A round of the while loop, none once the body is used up or has failed.
NextSubscription(body, read) ==
  LET topic == read_arc_str(body, read.next)
      qos == body[topic.next + 1]
  IN  IF read.is = "Err" \/ read.next >= Len(body) THEN read
      ELSE IF topic.is = "Err" \/ topic.next >= Len(body) \/ qos \notin QoS THEN Err
      ELSE [is |-> "Ok", val |-> Append(read.val, [topic |-> topic.val, qos |-> qos]),
            next |-> topic.next + 1]

parse_subscribe(body) ==
  LET read[i \in 0 .. Len(body)] ==
        IF i = 0 THEN [is |-> "Ok", val |-> <<>>, next |-> 2]
        ELSE NextSubscription(body, read[i - 1])
      subscriptions == read[Len(body)]
  IN  IF Len(body) < 5 \/ subscriptions.is = "Err" THEN Err
      ELSE Ok([type |-> "Subscribe", packet_id |-> read_u16(body, 0).val,
               subscriptions |-> subscriptions.val])

parse_suback(body) ==
  IF Len(body) < 3 \/ \E i \in 3 .. Len(body) : body[i] \notin SubackCode THEN Err
  ELSE Ok([type |-> "Suback", packet_id |-> from_be_bytes(body[1], body[2]),
           return_codes |-> SubSeq(body, 3, Len(body))])

NextTopic(body, read) ==
  LET topic == read_arc_str(body, read.next)
  IN  IF read.is = "Err" \/ read.next >= Len(body) THEN read
      ELSE IF topic.is = "Err" THEN Err
      ELSE [is |-> "Ok", val |-> Append(read.val, topic.val), next |-> topic.next]

parse_unsubscribe(body) ==
  LET read[i \in 0 .. Len(body)] ==
        IF i = 0 THEN [is |-> "Ok", val |-> <<>>, next |-> 2]
        ELSE NextTopic(body, read[i - 1])
      topics == read[Len(body)]
  IN  IF Len(body) < 4 \/ topics.is = "Err" THEN Err
      ELSE Ok([type |-> "Unsubscribe", packet_id |-> read_u16(body, 0).val,
               topics |-> topics.val])

parse_unsuback(body) ==
  IF Len(body) # 2 THEN Err
  ELSE Ok([type |-> "Unsuback", id |-> from_be_bytes(body[1], body[2])])

parse_packet(first, body) ==
  LET type == PacketType[first \div 16]
  IN  CASE type = "Connect" -> parse_connect(body)
        [] type = "Connack" -> parse_connack(body)
        [] type = "Publish" -> parse_publish(first, body)
        [] type \in {"Puback", "Pubrec", "Pubrel", "Pubcomp"} ->
             parse_ack_packet(first, type, body)
        [] type = "Subscribe" -> parse_subscribe(body)
        [] type = "Suback" -> parse_suback(body)
        [] type = "Unsubscribe" -> parse_unsubscribe(body)
        [] type = "Unsuback" -> parse_unsuback(body)
        [] OTHER -> require_empty_body(type, body)

--------------------------------------------------------------------------------
(* encode.rs. *)

Framed(first, body) == <<first>> \o encode_remaining_length[Len(body)] \o body

ConnectFlags(conn) ==
  Flag(2, conn.clean_session) + Flag(128, conn.username # <<>>)
    + Flag(64, conn.password # <<>>)
    + (IF conn.will = <<>> THEN 0
       ELSE Flag(4, TRUE) + 8 * conn.will[1].qos + Flag(32, conn.will[1].retain))

\* The fields of the payload that are there, in order.
ConnectFields(conn) ==
  <<conn.client_id>>
    \o (IF conn.will = <<>> THEN <<>> ELSE <<conn.will[1].topic, conn.will[1].payload>>)
    \o conn.username \o conn.password

encode_connect(conn) ==
  Framed(TypeByte("Connect"),
         <<0, 4, 77, 81, 84, 84, 4, ConnectFlags(conn)>> \o be_bytes(conn.keep_alive)
           \o WriteFields(ConnectFields(conn)))

encode_connack(ack) ==
  <<TypeByte("Connack"), 2, Flag(1, ack.session_present), ack.return_code>>

\* The packet id to write, if any.
validate_publish_for_encode(publish) ==
  IF Len(publish.topic) > U16_MAX THEN Err
  ELSE IF publish.qos = 0 THEN Ok(<<>>)
  ELSE IF publish.packet_id \in {<<>>, <<0>>} THEN Err
  ELSE Ok(publish.packet_id)

\* Faulty: the QoS is not shifted into its place.
FlagsQosUnshifted(p) == Flag(8, p.dup) + Flag(1, p.retain) + p.qos

pack_publish_flags(p) == Flag(8, p.dup) + Flag(1, p.retain) + 2 * p.qos

encode_publish(publish) ==
  LET id == validate_publish_for_encode(publish)
      body == be_bytes(Len(publish.topic)) \o publish.topic
                \o (IF id.val = <<>> THEN <<>> ELSE be_bytes(id.val[1])) \o publish.payload
  IN  IF id.is = "Err" \/ Len(body) > MQTT_SPEC_MAX_PACKET_SIZE THEN Err
      ELSE Ok(Framed(TypeByte("Publish") + pack_publish_flags(publish), body))

encode_subscribe(s) ==
  Framed(TypeByte("Subscribe") + 2,
         be_bytes(s.packet_id)
           \o Joined([i \in DOMAIN s.subscriptions |->
                        Append(write_arc_str(s.subscriptions[i].topic),
                               s.subscriptions[i].qos)]))

encode_suback(s) == Framed(TypeByte("Suback"), be_bytes(s.packet_id) \o s.return_codes)

encode_unsubscribe(u) ==
  Framed(TypeByte("Unsubscribe") + 2, be_bytes(u.packet_id) \o WriteFields(u.topics))

--------------------------------------------------------------------------------
(* mod.rs. *)

encode_packet(p) ==
  CASE p.type = "Connect" -> Ok(encode_connect(p))
    [] p.type = "Connack" -> Ok(encode_connack(p))
    [] p.type = "Publish" -> encode_publish(p)
    [] p.type = "Subscribe" -> Ok(encode_subscribe(p))
    [] p.type = "Suback" -> Ok(encode_suback(p))
    [] p.type = "Unsubscribe" -> Ok(encode_unsubscribe(p))
    [] p.type \in {"Pingreq", "Pingresp", "Disconnect"} -> Ok(<<TypeByte(p.type), 0>>)
    [] OTHER -> Ok(<<TypeByte(p.type) + (IF p.type = "Pubrel" THEN 2 ELSE 0), 2>>
                     \o be_bytes(p.id))

\* Faulty: the length is that of the payload and the topic alone.
PublishForgetsId(p) ==
  LET id == validate_publish_for_encode(p)
      body_len == 2 + Len(p.topic) + Len(p.payload)
  IN  IF id.is = "Err" \/ body_len > MQTT_SPEC_MAX_PACKET_SIZE THEN Err
      ELSE Ok(<<TypeByte("Publish") + pack_publish_flags(p)>>
                \o encode_remaining_length[body_len]
                \o be_bytes(Len(p.topic)) \o p.topic
                \o (IF id.val = <<>> THEN <<>> ELSE be_bytes(id.val[1])) \o p.payload)

\* The header in one write, then the payload.
write_publish_packet(p) ==
  LET id == validate_publish_for_encode(p)
      body_len == 2 + Len(p.topic) + 2 * Len(id.val) + Len(p.payload)
  IN  IF id.is = "Err" \/ body_len > MQTT_SPEC_MAX_PACKET_SIZE THEN Err
      ELSE Ok(<<TypeByte("Publish") + pack_publish_flags(p)>>
                \o encode_remaining_length[body_len]
                \o be_bytes(Len(p.topic)) \o p.topic
                \o (IF id.val = <<>> THEN <<>> ELSE be_bytes(id.val[1])) \o p.payload)

\* A whole frame of "used" bytes; a body that does not parse costs its bytes too.
Parsed(packet, used) ==
  IF packet.is = "Err" THEN [Err EXCEPT !.used = used]
  ELSE [is |-> "Ok", val |-> packet.val, used |-> used]

\* The frame that starts with these bytes, its length field read: refused before its
\* body is there when it is too large.
Frame(bytes, len, max_size) ==
  LET total == 1 + len.used + len.val
  IN  IF len.is # "Ok" THEN len
      ELSE IF len.val > max_size THEN Err
      ELSE IF Len(bytes) < total THEN None
      ELSE Parsed(parse_packet(bytes[1], SubSeq(bytes, len.used + 2, total)), total)

\* One call of read_packet on the bytes it has taken off the wire so far; None where
\* it waits for more.
read_packet(bytes, max_size) ==
  IF bytes = <<>> THEN None
  ELSE IF bytes[1] \div 16 \notin DOMAIN PacketType THEN Err
  ELSE Frame(bytes, read_remaining_length(Tail(bytes)), max_size)

\* Faulty: the body is allocated before its size is checked.
BodyAllocatedFirst(bytes, max_size) ==
  LET len == read_remaining_length(Tail(bytes))
  IN  IF bytes[1] \div 16 \in DOMAIN PacketType /\ len.is = "Ok" THEN len.val ELSE 0

\* What the same call has allocated for the body: nothing before the size is checked.
BodyAllocated(bytes, max_size) ==
  LET len == read_remaining_length(Tail(bytes))
  IN  IF bytes[1] \div 16 \in DOMAIN PacketType /\ len.is = "Ok" /\ len.val <= max_size
        THEN len.val ELSE 0

\* Faulty: the cap is not enforced on this path.
DecodeWithoutCap(buf, max_size) ==
  IF Len(buf) < 2 THEN None
  ELSE IF buf[1] \div 16 \notin DOMAIN PacketType THEN Err
  ELSE Frame(buf, decode_remaining_length_from_slice(Tail(buf)), MQTT_SPEC_MAX_PACKET_SIZE)

decode_packet_from_bytes(buf, max_size) ==
  IF Len(buf) < 2 THEN None
  ELSE IF buf[1] \div 16 \notin DOMAIN PacketType THEN Err
  ELSE Frame(buf, decode_remaining_length_from_slice(Tail(buf)), max_size)

================================================================================
