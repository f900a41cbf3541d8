-------------------------------- MODULE Framing --------------------------------
(***************************************************************************)
(* Packets on their way through a byte stream: the writer actor encodes    *)
(* them, the bytes arrive one at a time, the read loop puts packets        *)
(* together again, and the connection may be cut between any two bytes.    *)
(*                                                                         *)
(* Source: src/channel.rs (writer_actor), src/codec/mod.rs (read_packet,   *)
(* decode_packet_from_bytes, Message::decode), and the loops, once the     *)
(* handshake is over, of src/protocol/server.rs and src/protocol/client.rs.*)
(*                                                                         *)
(* read_packet takes its bytes off the reader as they come.  When another  *)
(* branch of the select! wins, the call is dropped together with the bytes *)
(* it has taken.  The server's other branches end its loop; the client's   *)
(* ping timer does not.                                                    *)
(*                                                                         *)
(* A packet that was read is dispatched, which may fail too: on a second   *)
(* CONNECT, or where an answer cannot be sent.  Such a connection is       *)
(* "refused"; "failed" is a read that failed.                              *)
(***************************************************************************)
EXTENDS Codec

CONSTANTS
  Packets,          \* the packets handed to the writer
  Frames,           \* frames of another make that no packet encodes to
  MaxSent,          \* bound: packets and frames per connection
  max_packet_size,  \* MqttSafety.max_packet_size
  Role,             \* the reading side: "server" or "client"
  MaxTicks,         \* bound: wins of the select!'s other branch
  Publishes,        \* PUBLISH packets that both encoders are given
  Lengths,          \* remaining lengths, up to one more than the format has
  Fields            \* strings and byte arrays

VARIABLES
  sent,      \* what was written, in order
  writer,    \* the writer actor: up or gone
  wire,      \* bytes written and not yet arrived
  pending,   \* bytes taken by the read_packet call under way
  allocated, \* bytes that call has allocated for the body
  got,       \* packets the read loop was given
  reader,    \* the read loop: reading, failed, refused, closed
  open,      \* is_open() of the reading side's own channel
  buf,       \* the same bytes in a buffer, for Message::decode
  decoded,   \* packets it was given from there
  decoder,   \* decoding, failed
  ticks      \* wins of the other branch so far

vars == <<sent, writer, wire, pending, allocated, got, reader, open, buf, decoded, decoder,
          ticks>>

receiverVars == <<pending, allocated, got, reader, open, buf, decoded, decoder>>

Malformed == [type |-> "Malformed"]

--------------------------------------------------------------------------------
(* What the constants stand for. *)

\* with_max_packet_size clamps to what the format can express.
ASSUME SizeAssumption == max_packet_size \in 0 .. MQTT_SPEC_MAX_PACKET_SIZE

ASSUME PacketsAssumption ==
  /\ \A p \in Packets : p \in Packet
  /\ \A p \in Publishes : p \in PublishPacket
  /\ \A f \in Frames : f \in Bytes

ASSUME BoundsAssumption ==
  /\ MaxSent \in Nat /\ MaxTicks \in Nat
  /\ Lengths \subseteq Nat
  /\ \A b \in Fields : b \in Bytes /\ Len(b) <= U16_MAX

--------------------------------------------------------------------------------
(* The writer. *)

MayWrite ==
  /\ writer = "up"
  /\ Len(sent) < MaxSent
  /\ sent # <<>> => sent[Len(sent)].type # "Disconnect"

\* writer_actor: a packet that cannot be encoded ends the actor before a byte of it
\* is written.
WritePacket(p) ==
  LET bytes == IF p.type = "Publish" THEN write_publish_packet(p) ELSE encode_packet(p)
  IN  /\ MayWrite
      /\ IF bytes.is = "Ok"
           THEN /\ wire' = wire \o bytes.val
                /\ sent' = Append(sent, p)
                /\ UNCHANGED writer
           ELSE /\ writer' = "gone"
                /\ UNCHANGED <<wire, sent>>
      /\ UNCHANGED <<receiverVars, ticks>>

\* A peer of another make writes a frame this codec refuses.
WriteFrame(f) ==
  /\ MayWrite
  /\ wire' = wire \o f
  /\ sent' = Append(sent, Malformed)
  /\ UNCHANGED <<writer, receiverVars, ticks>>

\* The connection is cut: what has not arrived is lost from some byte on.
Cut ==
  /\ writer = "up"
  /\ writer' = "gone"
  /\ \E n \in 0 .. Len(wire) : wire' = SubSeq(wire, 1, n)
  /\ UNCHANGED <<sent, receiverVars, ticks>>

--------------------------------------------------------------------------------
(* The reader. *)

Drop(bytes, n) == SubSeq(bytes, n + 1, Len(bytes))

\* Dispatching the packet sends something back, and passes a failure on.
Answered(p) ==
  \/ p.type = "Publish" /\ p.qos > 0
  \/ p.type \in {"Pubrec", "Pubrel"}
  \/ Role = "server" /\ p.type \in {"Subscribe", "Unsubscribe", "Pingreq"}

\* Where the loop may be after a packet: DISCONNECT ends it, a server refuses a second
\* CONNECT, and on a channel that is closed is_open() ends it, unless the writer has
\* left already and an answer cannot be sent.
Dispatched(p) ==
  IF p.type = "Disconnect" THEN {"closed"}
  ELSE IF Role = "server" /\ p.type = "Connect" THEN {"refused"}
  ELSE IF open THEN {"reading"}
  ELSE {"closed"} \cup {r \in {"refused"} : Answered(p)}

\* The read_packet call waits for more, fails and ends the loop, or gives it a packet.
Polled(bytes, result) ==
  /\ allocated' = IF result.is = "Ok" THEN 0 ELSE BodyAllocated(bytes, max_packet_size)
  /\ \/ /\ result.is = "None"
        /\ pending' = bytes
        /\ UNCHANGED <<got, reader>>
     \/ /\ result.is = "Err"
        /\ pending' = <<>>
        /\ reader' = "failed"
        /\ UNCHANGED got
     \/ /\ result.is = "Ok"
        /\ pending' = <<>>
        /\ got' = Append(got, result.val)
        /\ reader' \in Dispatched(result.val)

\* The next byte arrives, and read_packet goes on with it.
Arrive ==
  LET bytes == Append(pending, Head(wire))
  IN  /\ reader = "reading"
      /\ wire # <<>>
      /\ wire' = Tail(wire)
      /\ buf' = Append(buf, Head(wire))
      /\ Polled(bytes, read_packet(bytes, max_packet_size))
      /\ UNCHANGED <<sent, writer, open, decoded, decoder, ticks>>

\* What Message::decode makes of its buffer.  A frame whose body does not parse leaves
\* the buffer too.
Taken(result) ==
  /\ result.is # "None"
  /\ buf' = Drop(buf, result.used)
  /\ IF result.is = "Ok"
       THEN decoded' = Append(decoded, result.val) /\ UNCHANGED decoder
       ELSE decoder' = "failed" /\ UNCHANGED decoded

\* A call of Message::decode that finds a packet or fails; however late it comes, it
\* takes one frame.
Decode ==
  /\ decoder = "decoding"
  /\ Taken(decode_packet_from_bytes(buf, max_packet_size))
  /\ UNCHANGED <<sent, writer, wire, pending, allocated, got, reader, open, ticks>>

\* The wire is closed: read_exact fails, whatever the call has taken.
EndOfWire ==
  /\ reader = "reading"
  /\ writer = "gone"
  /\ wire = <<>>
  /\ reader' = "closed"
  /\ pending' = <<>>
  /\ allocated' = 0
  /\ UNCHANGED <<sent, writer, wire, got, open, buf, decoded, decoder, ticks>>

\* The reading side's own channel closes: close() is called, or its writer leaves.
OwnChannelCloses ==
  /\ open
  /\ reader = "reading"
  /\ open' = FALSE
  /\ UNCHANGED <<sent, writer, wire, pending, allocated, got, reader, buf, decoded, decoder,
                 ticks>>

\* Another branch of the select! wins and read_packet is dropped: the server's loop
\* ends on its deadline or the shutdown signal; the client sends a PINGREQ and goes
\* on, unless its channel is closed.
OtherBranchWins ==
  /\ reader = "reading"
  /\ ticks < MaxTicks
  /\ ticks' = ticks + 1
  /\ pending' = <<>>
  /\ allocated' = 0
  /\ reader' = IF Role = "server" \/ ~ open THEN "closed" ELSE "reading"
  /\ UNCHANGED <<sent, writer, wire, got, open, buf, decoded, decoder>>

--------------------------------------------------------------------------------
Init ==
  /\ sent = <<>> /\ writer = "up" /\ wire = <<>>
  /\ pending = <<>> /\ allocated = 0 /\ got = <<>> /\ reader = "reading" /\ open = TRUE
  /\ buf = <<>> /\ decoded = <<>> /\ decoder = "decoding"
  /\ ticks = 0

Next ==
  \/ \E p \in Packets : WritePacket(p)
  \/ \E f \in Frames : WriteFrame(f)
  \/ Cut
  \/ Arrive
  \/ Decode
  \/ EndOfWire
  \/ OwnChannelCloses
  \/ OtherBranchWins

Spec == Init /\ [][Next]_vars

--------------------------------------------------------------------------------
(* Properties. *)

Begins(s, t) == Len(s) <= Len(t) /\ \A i \in 1 .. Len(s) : s[i] = t[i]

\* What the packets up to the first malformed frame look like on the other side: a
\* QoS 0 PUBLISH carries no id.
Intact ==
  LET bad == {i \in DOMAIN sent : sent[i] = Malformed}
      good == IF bad = {} THEN Len(sent) ELSE Min(bad) - 1
  IN  [i \in 1 .. good |->
         IF sent[i].type = "Publish" /\ sent[i].qos = 0
           THEN [sent[i] EXCEPT !.packet_id = <<>>] ELSE sent[i]]

\* Every variable keeps its type: whatever bytes arrive, both readers give out packets
\* as packet.rs declares them, with text that is text (parse_packet, read_arc_str).
TypeOK ==
  /\ \A i \in DOMAIN sent : sent[i] \in Packets \cup {Malformed}
  /\ writer \in {"up", "gone"}
  /\ wire \in Bytes /\ pending \in Bytes /\ buf \in Bytes
  /\ allocated \in Nat
  /\ got \in Seq(Packet) /\ decoded \in Seq(Packet)
  /\ reader \in {"reading", "failed", "refused", "closed"}
  /\ open \in BOOLEAN
  /\ decoder \in {"decoding", "failed"}
  /\ ticks \in 0 .. MaxTicks

\* The read loop is given the packets that were written, in order and unchanged, and
\* once everything has arrived, all of them: a frame is put together byte by byte
\* as it arrives, and a cut leaves no half packet behind (read_packet).
WholePackets ==
  /\ Begins(got, Intact)
  /\ reader = "reading" /\ wire = <<>> /\ writer = "up" => got = Intact /\ pending = <<>>

\* read_packet fails on a malformed frame, at the frame itself, and on no other bytes
\* (parse_packet and the functions below it): what it fails on was not sent by a writer
\* of this codec.
FailsOnMalformedOnly ==
  reader = "failed" => Malformed \in Range(sent) /\ got = Intact

\* Whatever length a peer declares, read_packet allocates at most max_packet_size for
\* the body, and never takes more off the wire than a header and what it allocated.
HeldWithinCap == allocated <= max_packet_size /\ Len(pending) <= 5 + allocated

\* The buffered path gives the packets and the refusals of the asynchronous one,
\* however late it is called, and once it finds nothing more it waits at the same
\* byte; only a lone first byte it does not judge (decode_packet_from_bytes).
PathsAgree ==
  reader # "closed" =>
    /\ Begins(decoded, got)
    /\ decoder = "failed" => reader = "failed" /\ decoded = got
    /\ decoder = "decoding" /\ decode_packet_from_bytes(buf, max_packet_size) = None =>
         /\ decoded = got
         /\ IF reader = "failed" THEN Len(buf) = 1 ELSE buf = pending

SameBytes == \A p \in Publishes : write_publish_packet(p) = encode_publish(p)

\* Whatever the writer is handed, both PUBLISH encoders emit the same bytes or refuse
\* alike, the longest topic and one that is a byte longer included
\* (validate_publish_for_encode).
EncodersAgree == MayWrite => SameBytes

\* Each length that fits the format, by each of its two readers; one past the format is
\* refused.
LengthsReadBack ==
  \A v \in Lengths : \A path \in {"read_packet", "decode_packet_from_bytes"} :
    LET bytes == encode_remaining_length[v]
        Read(b) == IF path = "read_packet" THEN read_remaining_length(b)
                   ELSE decode_remaining_length_from_slice(b)
    IN  IF v <= MQTT_SPEC_MAX_PACKET_SIZE
          THEN /\ Read(bytes \o <<0>>) = [is |-> "Ok", used |-> Len(bytes), val |-> v]
               /\ \A n \in 0 .. Len(bytes) - 1 : Read(SubSeq(bytes, 1, n)) = None
          ELSE Read(bytes) = Err

FieldsReadBack ==
  \A b \in Fields : read_bytes(write_bytes(b) \o <<0>>, 0)
                      = [is |-> "Ok", val |-> b, next |-> Len(b) + 2]

\* Whatever the writer is handed, a length or a field that fits its format is read back
\* as it was written, on both paths and however many bytes are still missing; a length
\* one past the format is refused on both (varint.rs, primitives.rs).
LengthsRoundTrip == MayWrite => LengthsReadBack /\ FieldsReadBack

================================================================================
