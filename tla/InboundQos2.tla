------------------------------ MODULE InboundQos2 ------------------------------
(***************************************************************************)
(* Receiving QoS 2: a PUBLISH is stashed under the peer's packet id and    *)
(* answered with PUBREC, its PUBREL takes it out, hands it on and is       *)
(* answered with PUBCOMP, while the channel may be closed from another     *)
(* task, the writer may die and the peer may come back on a new connection.*)
(*                                                                         *)
(* Source: src/protocol/mod.rs (ack_inbound_publish_pre_chain),            *)
(* src/protocol/server.rs and client.rs (the PUBREL arms and the loop they *)
(* run in), src/session.rs (stash, take, abandon), src/channel.rs (close,  *)
(* the writer's exit).                                                     *)
(*                                                                         *)
(* Each connection has a session of its own, so the stash of one           *)
(* connection is unknown to the next.  The peer is a conforming sender: it *)
(* repeats the packet it has no answer to on every new connection, and     *)
(* uses an id again once its flow has completed.  Packets of different ids *)
(* may overtake each other here, which TCP does not allow: this only adds  *)
(* behaviours.  Every packet names the message it belongs to in "of", a    *)
(* history field that neither side looks at.                               *)
(***************************************************************************)
EXTENDS Naturals

CONSTANTS
  Msgs,      \* the QoS 2 messages of the peer
  Ids,       \* its packet ids
  IdOf,      \* the id each message is sent under
  MaxConns,  \* bound: connections the peer opens, one after the other
  Faulty     \* the connections that may fail

Conns == 1 .. MaxConns

ASSUME Qos2Assumption ==
  /\ IdOf \in [Msgs -> Ids]
  /\ MaxConns \in Nat \ {0}
  /\ Faulty \subseteq Conns

VARIABLES
  peer,       \* per message: new, publishing, releasing, complete
  cur,        \* the peer's connection
  resend,     \* the flows it still has to take up again on cur
  inbox,      \* per connection: packets on their way to the read loop
  outbox,     \* per connection: packets handed to the writer, on their way back
  at,         \* the read loop: check, select, stashed, answering, gone
  handling,   \* the packet it dispatches
  qos2_recv,  \* per connection: the message held under each id, if any
  open,       \* MqttChannel.open
  closer,     \* the close() that flipped the flag: no, flipped, abandoned
  writer,     \* whether the writer actor still takes commands
  released,   \* per message: how often it was handed on
  cut         \* the flows that were under way when their connection was cut

vars == <<peer, cur, resend, inbox, outbox, at, handling, qos2_recv, open, closer,
          writer, released, cut>>

peerVars == <<peer, cur, resend>>
channelVars == <<open, closer, writer>>

Packets == [kind : {"Publish", "Pubrec", "Pubrel", "Pubcomp"}, id : Ids, of : Msgs]

Packet(k, m) == [kind |-> k, id |-> IdOf[m], of |-> m]

Active == {m \in Msgs : peer[m] \in {"publishing", "releasing"}}

--------------------------------------------------------------------------------
(* The peer. *)

PeerPublishes(m) ==
  /\ peer[m] = "new"
  /\ \A n \in Active : IdOf[n] # IdOf[m]
  /\ peer' = [peer EXCEPT ![m] = "publishing"]
  /\ inbox' = [inbox EXCEPT ![cur] = @ \cup {Packet("Publish", m)}]
  /\ UNCHANGED <<cur, resend, outbox, at, handling, qos2_recv, channelVars,
                 released, cut>>

PeerGetsPubrec(m) ==
  /\ peer[m] = "publishing"
  /\ m \notin resend
  /\ \E p \in outbox[cur] :
       /\ p.kind = "Pubrec" /\ p.id = IdOf[m]
       /\ outbox' = [outbox EXCEPT ![cur] = @ \ {p}]
  /\ peer' = [peer EXCEPT ![m] = "releasing"]
  /\ inbox' = [inbox EXCEPT ![cur] = @ \cup {Packet("Pubrel", m)}]
  /\ UNCHANGED <<cur, resend, at, handling, qos2_recv, channelVars, released, cut>>

PeerGetsPubcomp(m) ==
  /\ peer[m] = "releasing"
  /\ m \notin resend
  /\ \E p \in outbox[cur] :
       /\ p.kind = "Pubcomp" /\ p.id = IdOf[m]
       /\ outbox' = [outbox EXCEPT ![cur] = @ \ {p}]
  /\ peer' = [peer EXCEPT ![m] = "complete"]
  /\ UNCHANGED <<cur, resend, inbox, at, handling, qos2_recv, channelVars, released,
                 cut>>

\* The peer gives its connection up, for whatever reason, and opens the next.
PeerReconnects ==
  /\ cur < MaxConns
  /\ cur \in Faulty
  /\ cur' = cur + 1
  /\ resend' = Active
  /\ cut' = cut \cup Active
  /\ UNCHANGED <<peer, inbox, outbox, at, handling, qos2_recv, channelVars, released>>

PeerResends(m) ==
  /\ m \in resend
  /\ resend' = resend \ {m}
  /\ inbox' = [inbox EXCEPT ![cur] =
                 @ \cup {Packet(IF peer[m] = "publishing" THEN "Publish" ELSE "Pubrel", m)}]
  /\ UNCHANGED <<peer, cur, outbox, at, handling, qos2_recv, channelVars, released,
                 cut>>

--------------------------------------------------------------------------------
(* The read loop. *)

\* Faulty: the loop starts over without looking at the flag.
ReaderNeverChecks(c) ==
  /\ at[c] = "check"
  /\ at' = [at EXCEPT ![c] = "select"]
  /\ UNCHANGED <<peerVars, inbox, outbox, handling, qos2_recv, channelVars, released,
                 cut>>

ReaderChecks(c) ==
  /\ at[c] = "check"
  /\ at' = [at EXCEPT ![c] = IF open[c] THEN "select" ELSE "gone"]
  /\ UNCHANGED <<peerVars, inbox, outbox, handling, qos2_recv, channelVars, released,
                 cut>>

\* Faulty: the PUBLISH is stashed and also handed on at once, as for QoS 1.
StashAndHandOn(c, p) ==
  /\ at[c] = "select"
  /\ p \in inbox[c]
  /\ p.kind = "Publish"
  /\ inbox' = [inbox EXCEPT ![c] = @ \ {p}]
  /\ qos2_recv' = [qos2_recv EXCEPT ![c] = [@ EXCEPT ![p.id] = {p.of}]]
  /\ released' = [released EXCEPT ![p.of] = @ + 1]
  /\ at' = [at EXCEPT ![c] = "stashed"]
  /\ handling' = [handling EXCEPT ![c] = {p}]
  /\ UNCHANGED <<peerVars, outbox, channelVars, cut>>

\* ack_inbound_publish_pre_chain: the insert overwrites what the id held.
stash_qos2_publish(c, p) ==
  /\ at[c] = "select"
  /\ p \in inbox[c]
  /\ p.kind = "Publish"
  /\ inbox' = [inbox EXCEPT ![c] = @ \ {p}]
  /\ qos2_recv' = [qos2_recv EXCEPT ![c] = [@ EXCEPT ![p.id] = {p.of}]]
  /\ at' = [at EXCEPT ![c] = "stashed"]
  /\ handling' = [handling EXCEPT ![c] = {p}]
  /\ UNCHANGED <<peerVars, outbox, channelVars, released, cut>>

\* Faulty: a PUBREL for an id that holds nothing gets no answer.
TakeOrIgnore(c, p) ==
  /\ at[c] = "select"
  /\ p \in inbox[c]
  /\ p.kind = "Pubrel"
  /\ inbox' = [inbox EXCEPT ![c] = @ \ {p}]
  /\ released' = [m \in Msgs |->
                    IF m \in qos2_recv[c][p.id] THEN released[m] + 1 ELSE released[m]]
  /\ qos2_recv' = [qos2_recv EXCEPT ![c] = [@ EXCEPT ![p.id] = {}]]
  /\ at' = [at EXCEPT ![c] = IF qos2_recv[c][p.id] = {} THEN "check" ELSE "answering"]
  /\ handling' = [handling EXCEPT ![c] = IF qos2_recv[c][p.id] = {} THEN {} ELSE {p}]
  /\ UNCHANGED <<peerVars, outbox, channelVars, cut>>

\* The PUBREL arm: what the id holds is taken out and handed on.
take_qos2_publish(c, p) ==
  /\ at[c] = "select"
  /\ p \in inbox[c]
  /\ p.kind = "Pubrel"
  /\ inbox' = [inbox EXCEPT ![c] = @ \ {p}]
  /\ released' = [m \in Msgs |->
                    IF m \in qos2_recv[c][p.id] THEN released[m] + 1 ELSE released[m]]
  /\ qos2_recv' = [qos2_recv EXCEPT ![c] = [@ EXCEPT ![p.id] = {}]]
  /\ at' = [at EXCEPT ![c] = "answering"]
  /\ handling' = [handling EXCEPT ![c] = {p}]
  /\ UNCHANGED <<peerVars, outbox, channelVars, cut>>

Reply(c) == IF at[c] = "stashed" THEN "Pubrec" ELSE "Pubcomp"

\* The answer goes to the writer, whether or not something was held; a writer that
\* is gone refuses it, which ends the loop.
send_packet(c) ==
  /\ at[c] \in {"stashed", "answering"}
  /\ IF writer[c]
       THEN /\ outbox' = [outbox EXCEPT ![c] =
                            @ \cup {[p EXCEPT !.kind = Reply(c)] : p \in handling[c]}]
            /\ at' = [at EXCEPT ![c] = "check"]
       ELSE /\ at' = [at EXCEPT ![c] = "gone"]
            /\ UNCHANGED outbox
  /\ handling' = [handling EXCEPT ![c] = {}]
  /\ UNCHANGED <<peerVars, inbox, qos2_recv, channelVars, released, cut>>

\* The select! ends the loop: the shutdown signal, the deadline, a closed wire or a
\* malformed packet.
ReaderStops(c) ==
  /\ at[c] = "select"
  /\ c \in Faulty
  /\ at' = [at EXCEPT ![c] = "gone"]
  /\ UNCHANGED <<peerVars, inbox, outbox, handling, qos2_recv, channelVars, released,
                 cut>>

--------------------------------------------------------------------------------
(* The channel. *)

\* close(), by the loop that has ended or by another holder of the channel (a
\* takeover): the first caller flips the flag.
close(c) ==
  /\ open[c]
  /\ c \in Faulty
  /\ open' = [open EXCEPT ![c] = FALSE]
  /\ closer' = [closer EXCEPT ![c] = "flipped"]
  /\ cut' = IF c = cur THEN cut \cup Active ELSE cut
  /\ UNCHANGED <<peerVars, inbox, outbox, at, handling, qos2_recv, writer, released>>

\* The same call, later: the stash is emptied.
abandon(c) ==
  /\ closer[c] = "flipped"
  /\ closer' = [closer EXCEPT ![c] = "abandoned"]
  /\ qos2_recv' = [qos2_recv EXCEPT ![c] = [i \in Ids |-> {}]]
  /\ UNCHANGED <<peerVars, inbox, outbox, at, handling, open, writer, released, cut>>

\* The writer leaves, on a failed write or on the shutdown signal; it clears the
\* flag itself and abandons nothing.
WriterExits(c) ==
  /\ writer[c]
  /\ c \in Faulty
  /\ writer' = [writer EXCEPT ![c] = FALSE]
  /\ open' = [open EXCEPT ![c] = FALSE]
  /\ UNCHANGED <<peerVars, inbox, outbox, at, handling, qos2_recv, closer, released,
                 cut>>

--------------------------------------------------------------------------------
Init ==
  /\ peer = [m \in Msgs |-> "new"]
  /\ cur = 1
  /\ resend = {}
  /\ inbox = [c \in Conns |-> {}]
  /\ outbox = [c \in Conns |-> {}]
  /\ at = [c \in Conns |-> "check"]
  /\ handling = [c \in Conns |-> {}]
  /\ qos2_recv = [c \in Conns |-> [i \in Ids |-> {}]]
  /\ open = [c \in Conns |-> TRUE]
  /\ closer = [c \in Conns |-> "no"]
  /\ writer = [c \in Conns |-> TRUE]
  /\ released = [m \in Msgs |-> 0]
  /\ cut = {}

PeerStep(m) ==
  \/ PeerGetsPubrec(m)
  \/ PeerGetsPubcomp(m)
  \/ PeerResends(m)

ReaderStep(c) ==
  \/ ReaderChecks(c)
  \/ \E p \in inbox[c] : stash_qos2_publish(c, p) \/ take_qos2_publish(c, p)
  \/ send_packet(c)

Next ==
  \/ \E m \in Msgs : PeerPublishes(m) \/ PeerStep(m)
  \/ PeerReconnects
  \/ \E c \in Conns : c <= cur /\ (ReaderStep(c) \/ ReaderStops(c) \/ close(c)
                                     \/ abandon(c) \/ WriterExits(c))

Spec == Init /\ [][Next]_vars

\* A connection on which nothing more will come of a flow.
Dead(c) == at[c] = "gone" \/ ~ writer[c]

\* The tasks keep being polled, a closed channel's loop ends (Channel, ReaderLeaves)
\* and the peer answers what it gets and replaces a dead connection.
FairSpec ==
  /\ Spec
  /\ \A m \in Msgs : WF_vars(PeerStep(m))
  /\ \A c \in Conns : WF_vars(c <= cur /\ ReaderStep(c))
  /\ \A c \in Conns : WF_vars(c <= cur /\ ~ open[c] /\ ReaderStops(c))
  /\ WF_vars(PeerReconnects /\ Dead(cur))

--------------------------------------------------------------------------------
(* Properties. *)

\* Every variable keeps its type; a message is handed on at most once.
TypeOK ==
  /\ peer \in [Msgs -> {"new", "publishing", "releasing", "complete"}]
  /\ cur \in Conns
  /\ resend \subseteq Msgs
  /\ inbox \in [Conns -> SUBSET Packets]
  /\ outbox \in [Conns -> SUBSET Packets]
  /\ at \in [Conns -> {"check", "select", "stashed", "answering", "gone"}]
  /\ handling \in [Conns -> SUBSET Packets]
  /\ qos2_recv \in [Conns -> [Ids -> SUBSET Msgs]]
  /\ open \in [Conns -> BOOLEAN]
  /\ closer \in [Conns -> {"no", "flipped", "abandoned"}]
  /\ writer \in [Conns -> BOOLEAN]
  /\ released \in [Msgs -> 0 .. 1]
  /\ cut \subseteq Msgs

\* The exactly-once promise (stash_qos2_publish, take_qos2_publish, abandon).
Promise ==
  INSTANCE ExactlyOnce WITH
    offered <- {m \in Msgs : peer[m] # "new"},
    delivered <- released,
    finished <- {m \in Msgs : peer[m] = "complete"},
    excused <- cut

\* No message is handed on twice, and none whose handshake completed on a connection
\* nobody cut is lost: the receiver implements the promise of ExactlyOnce.
ExactlyOnceSpec == Promise!Spec

\* Every flow the peer has begun completes once a connection stays up, although its
\* stash may be gone: a PUBREL for an id that holds nothing is answered all the same.
FlowsComplete ==
  \A m \in Msgs : (peer[m] = "publishing") ~> (peer[m] = "complete")

================================================================================
