------------------------------- MODULE MCFraming -------------------------------
(***************************************************************************)
(* Small instances of Framing: every packet type, with the values at which *)
(* its encoding changes shape, and malformed frames like those of          *)
(* src/codec/test.rs.                                                      *)
(***************************************************************************)
EXTENDS Framing

A == <<97>>

Publish(topic, payload, dup, qos, retain, id) ==
  [type |-> "Publish", topic |-> topic, payload |-> payload, dup |-> dup, qos |-> qos,
   retain |-> retain, packet_id |-> id]

Connect(id, will, user, pass) ==
  [type |-> "Connect", client_id |-> id, clean_session |-> will = <<>>, keep_alive |-> 60,
   will |-> will, username |-> user, password |-> pass]

Will(qos, retain) == <<[topic |-> A, payload |-> <<200>>, qos |-> qos, retain |-> retain]>>

MCPackets ==
  { Publish(A, <<>>, FALSE, 0, TRUE, <<>>),
    Publish(A, <<255>>, FALSE, 0, FALSE, <<7>>),
    Publish(A, <<0, 1>>, TRUE, 1, FALSE, <<256>>),
    Publish(<<>>, <<9>>, FALSE, 2, FALSE, <<65535>>),
    Publish(A, <<>>, FALSE, 1, FALSE, <<>>),
    Publish(A, <<>>, FALSE, 2, FALSE, <<0>>),
    Connect(<<>>, <<>>, <<>>, <<>>),
    Connect(A, Will(2, TRUE), <<A>>, << <<1>> >>),
    [type |-> "Connack", session_present |-> TRUE, return_code |-> 5],
    [type |-> "Subscribe", packet_id |-> 255,
     subscriptions |-> <<[topic |-> A, qos |-> 2], [topic |-> <<35>>, qos |-> 0]>>],
    [type |-> "Suback", packet_id |-> 1, return_codes |-> <<2, 128, 0>>],
    [type |-> "Unsubscribe", packet_id |-> 512, topics |-> <<A, <<>>, A>>],
    [type |-> "Pubrel", id |-> 258],
    [type |-> "Pingreq"],
    [type |-> "Pingresp"],
    [type |-> "Disconnect"] }
    \cup [type : {"Puback", "Pubrec", "Pubcomp", "Unsuback"}, id : {1}]

\* A reserved type, reserved flags, an endless length, one that is a byte too large and
\* one that is far too large, bodies that are too long, too short, or hold what no field
\* may hold.  The CONNECT with a Will is as large as max_packet_size allows.
MCFrames ==
  { <<240, 0>>, <<66, 2, 0, 1>>, <<48, 255, 255, 255, 255, 1>>,
    <<48, 26, 0, 1>> \o [i \in 1 .. 24 |-> 97], <<48, 255, 127>>, <<192, 1, 0>>,
    <<48, 4, 0, 9, 97, 98>>, <<48, 3, 0, 1, 255>>, <<54, 3, 0, 1, 97>>,
    <<130, 6, 0, 1, 0, 1, 97, 3>>, <<32, 2, 0, 6>> }

\* Those of the packets, and topics as long as the format allows and a byte longer.
MCPublishes ==
  {p \in MCPackets : p.type = "Publish"}
    \cup {Publish([i \in 1 .. n |-> 97], <<>>, FALSE, 0, FALSE, <<>>) : n \in U16_MAX .. U16_MAX + 1}

\* Where the number of length bytes changes, and the first length that needs five.
MCLengths == {0, 127, 128, 16383, 16384, 2097151, 2097152, 268435455, 268435456}
\* Around the byte boundaries of the 16-bit length of a field.
MCFields == {[i \in 1 .. n |-> 97] : n \in {0, 1, 255, 256, U16_MAX}}

OnePacket == {Publish(A, <<0, 1>>, FALSE, 1, FALSE, <<256>>), [type |-> "Pingresp"]}
NoFrames == {}

================================================================================
