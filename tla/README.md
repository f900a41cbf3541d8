# A TLA+ development of hotaru_mqtt

`hotaru_mqtt` is an MQTT 3.1.1 broker and client in Rust on the tokio runtime.
This directory holds TLA+ models of its concurrent core and its wire codec, the
TLC configurations that check them on small instances, and TLAPS proofs of the
properties that matter most. `PROJECT.json` lists components, runs, hazards and theorems, and
maps every definition to the lines it models.

## 1. Inventory

| Part | Source | State | Operations | Talks to |
|---|---|---|---|---|
| Session | `session.rs` | id counter, ack slots, retransmit records, inbound QoS 2 table | allocate, park, wake, cancel, track, clear, stash, take, abandon | send path, readers, `Channel::close` |
| Send path | `protocol/send.rs` | one task per call | publish at QoS 0, 1, 2; subscribe; unsubscribe | session, channel |
| Channel | `channel.rs` | open flag, shutdown `Notify`, command queue | `send_*`, `close`, the writer actor | everybody |
| Broker | `broker.rs` | session table, subscription tree | register, unregister, subscribe, unsubscribe, publish, Will | server handlers and workers |
| Server handler | `protocol/server.rs` | one handler and one worker per connection | admission, CONNACK, read loop, dispatch, chain worker, teardown | broker, session, channel |
| Client handler | `protocol/client.rs`, `client.rs` | one loop per client | handshake, initial subscriptions, ping, dispatch | session, channel |
| Topic filters | `topic.rs`, `filter_matches` | none | parse, validate, print, match | broker, endpoints |
| Codec | `codec/*`, `packet.rs` | none | frame, decode, encode | readers, writer |
| Keep-alive | `server.rs`, `client.rs`, `safety.rs` | two timers per connection | ping, read deadline, admission policy, handshake timeouts | both handlers |
| Limits, types, glue | `safety.rs`, `request.rs`, `context.rs`, `error.rs`, `protocol/mod.rs` | configuration | builders, `open_channel`, `acquire_channel` | all |

What is hard here: nothing wider than one `DashMap` access is atomic; three kinds
of task share a session; the name of a client stops identifying a connection as
soon as a takeover is under way; `Notify::notify_waiters` keeps no permit; and
`select!` takes any branch that is ready and drops the others with what they
hold. Most hazards of `PROJECT.json` follow from these five facts; the rest are
the peer's (repeated, late and missing packets) and the byte format's.

## 2. Modules

| Module | Contents |
|---|---|
| `MqttSession` | the acknowledged sends of one connection, and the broker's deliveries to it |
| `Broker` | session table, subscription tree, handlers, workers, Wills |
| `Channel` | open flag, shutdown signal, writer actor, read-loop skeleton |
| `TopicFilter` | parsing, printing and matching of a filter |
| `InboundQos2` | the receiving half of QoS 2 over successive connections of one peer |
| `ExactlyOnce` | what that half promises, as an abstract specification |
| `KeepAlive` | ping timer, read deadline, policy and handshake timeouts |
| `Codec` | the wire format as operators on byte sequences |
| `Framing` | packets through a byte stream: writer, bytes, cuts, both readers |
| `MCMqttSession`, `MCBroker`, `MCTopicFilter`, `MCInboundQos2`, `MCFraming` | definitions the small instances need (`Channel` and `KeepAlive` need none) |
| `MqttSessionProofs` | type correctness and inductive invariant of the session, the theorems |
| `BrokerTables`, `BrokerSerial`, `BrokerFanout` | types and what holds of the tables under any overlap; what holds when CONNECTs are serial; the order of publishes and Wills |
| `ChannelProofs` | types of the channel, the order of commands on the wire |
| `KeepAliveProofs` | types of the two timers, the three promises of the read deadline |
| `TopicFilterProofs` | correctness of the two loops for any length |
| `InboundQos2Proofs` | the receiver implements `ExactlyOnce` |

Definitions whose comment begins with "Faulty" are plausible mistakes in the code,
placed before the definition they would replace. No specification uses them: they
show that a property can fail.

### How the modules fit together

`MqttSession` looks inside one connection, `Broker` at all connections at once.
The fanout steps of `MqttSession` (`StartFanout`, `DeliverFanout`) are the inside
of `Broker`'s `Deliver` at QoS 1 and 2. `Channel` gives the reason for two
assumptions: a closed channel ends its read loop (`ReaderLeaves`), which `Broker`
uses as fairness of `Leave`, and a failing writer clears the flag without a
signal, which is `WriterLeaves` in `MqttSession` and `WriterFails` in `Broker`.
`TopicFilter` gives the meaning of `Broker`'s constant `filter_matches`.
`InboundQos2` is the other direction of the session `MqttSession` models; where
its `take_qos2_publish` finds a message, `Broker` has the step `Pubrel`. It composes the read loop, `close()`, `abandon` and the writer's exit,
each one step. `KeepAlive` justifies the read deadline that `Channel` and `Broker`
take for granted. `Framing` shows that the readers of all these modules are given
whole packets, and where they are not.

### MqttSession

A `DashMap` keyed by packet id is a set of records with one record per id. A call
walks through `idle, allocated, parked, waiting, received, expired, done`; each label
lies between two accesses to shared state. A timeout is two steps: the poll in which
the timer wins over an empty receiver (`PollExpires`), and `cancel_ack_waiter`
(`AckTimeout`). An ack dispatched between the two is lost, and
`FirstAnswerNeverMissed` is about those dispatched before the poll. A wake is two steps (`ReadAck`,
`WakeWaiter`), because the code drops the guard between lookup and removal. A
packet is represented by the ack it solicits. The field `of` says which flow the
peer is answering; it exists only to state properties and no action reads it.
The peer may answer in any order, late, repeatedly, or never.

### Broker

The variable `pc` follows `handle_server` and the functions it calls. `sessions`
is a set of (client, connection) pairs; `subs` a set of (client, filter) pairs.
`subscribe` and `unsubscribe` hold the entry's guard while they change the tree,
so each is one step. `register_session` is six steps and `unregister_session`
three. `carry` and `todo` are the locals of `Broker::publish`: the matching
subscriptions are collected first, and each entry is looked up when it is served.
A PUBLISH of QoS 0 or 1 is handed to the worker at once (`Publish`), one of QoS 2 is
held in `stash` (`PublishQos2`) and handed over by its PUBREL (`Pubrel`); `close()`
drops the stash. A message carries two numbers: the place of its PUBLISH (`sent`) and
the place of its hand-over (`n`, counted by `released`). Order is kept between
hand-overs; between PUBLISH packets it is not once QoS 2 is mixed with others.
`ClientChoices` says which client identifiers the connections of an instance carry.
`outbox` records what was queued while the channel was open (`Receivers`): a command
queued between `close()` and the writer's exit may never be written.
`SerialConnects` restricts clients, not the broker: a connection's CONNECT is not
processed while another of the same client is between CONNECT and CONNACK.

### Channel

Each `select!` is a state in which the signal is heard; `wsignal` and `rsignal`
are the `Notified` futures. The reader's `arming` state is the gap between its
`is_open` test and its `select!`.

### TopicFilter

The parse loop and the match loop, one iteration per step, over sequences of
levels. A level is a literal, the empty level, `+`, `#`, or a mixed level such as
`a+`. The broker does not validate the topics it is sent, so a topic may hold
any level. `Matches`, the definition that `filter_matches` is compared with, is what
MQTT 3.1.1 section 4.7.1 says of wildcards. Section 4.7.2 adds that a filter with a
leading wildcard does not match topics that begin with `$`; the code has no such rule.
`Dollars` is the set of levels that begin with `$`, and `HidesDollarTopics` states
the rule.

### InboundQos2 and ExactlyOnce

Each connection has a stash of its own. The read loop is five labels: the `is_open`
test, the `select!`, between stash or take and the answer, and gone. `close()` is
two steps (flag, then `abandon`), so another task may empty the stash between the
test and a PUBREL. The peer is a conforming sender that gives a connection up at
any time, repeats what has no answer on the next one and uses an id again after
PUBCOMP. The packets on their way are sets; packets of different ids may overtake
each other, which adds behaviours TCP would not allow. The server hands a released
message to its worker's queue and the client spawns its endpoints; both are one
count, `released`. The step that fails when the worker is gone is left out: the
worker ends only after the loop that feeds it, unless user code panics.

`ExactlyOnce` knows four things: which messages were offered, how often each was
delivered, which handshakes completed, and which flows were cut. A message is
delivered at most once, whatever happens; and a handshake that completed without a
cut has delivered. The excuse is necessary: the stash dies with its connection,
and a PUBREL for an unknown id is answered with PUBCOMP.

### KeepAlive

Time is counted in ticks and kept as ages. A packet reaches the other side at most
`MaxDelay` ticks after it was due; the delay stands for everything between a timer
and the peer's read loop. `KeepAliveAssumption` says that a delay is below a quarter
of the keep-alive. The grace the code gives is half of it, and two delays count
against it before the first ping: CONNACK's, after which the client's timer
starts, and the ping's own. Half seconds are exact, so an odd keep-alive tells
exact arithmetic from truncation. A client in its handshake also fails when the wire
is closed before CONNACK (`WireClosed`): the server gave up waiting for CONNECT, or it
refused the client and its writer left before the refusal was written, since `close()`
follows at once and does not drain. Tokio's interval keeps its schedule when a tick is
served late.

### Codec and Framing

A byte is a number below 256. `read_packet` and `read_remaining_length` are given
the bytes that have arrived and say whether the call returns, fails or waits. All
fourteen packet types are encoded and parsed, and `Packet` is the set of values
`packet.rs` declares. Errors are not told apart. `Utf8` is right for ASCII and for
bytes that occur in no UTF-8 text, and the instances use no others.

`Framing` begins after the handshake. Bytes arrive one at a time (`Arrive`) and go to
the asynchronous reader and into a buffer from which `Message::decode` may be called
at any time (`Decode`). Both are given the same limit; in the code `Message::decode`
has no configuration and applies the default limit. `allocated` is the body buffer of
the `read_packet` call under way. `got` is what the loop was given. A packet that was
read is dispatched, and dispatching may fail: the server refuses a second CONNECT, and
an answer cannot be sent when the loop's own writer has left (`OwnChannelCloses`).
Such a loop is `refused`, one whose read failed is `failed`; DISCONNECT, the end of
the wire and a closed channel leave it `closed`. `OtherBranchWins` drops the
`read_packet` call under way: for the server that is the shutdown signal or the
deadline, for the client the ping timer.

## 3. What the runs show

| Run | Instance | Result |
|---|---|---|
| `Session` | 1 call of any kind, 1 delivery; write errors; fairness | own ack only, no false `ChannelClosed`, timer never expires on a first answer already dispatched, record lives as long as the flow, every call returns |
| `BrokerTakeover` | 3 connections, 1 client, serial CONNECTs, write errors | Will not lost, superseded closed, clean sessions clean |
| `BrokerOrder` | 2 connections, 2 clients, 2 publishes of any QoS, free overlap, write errors; fairness | one entry per client, Will at most once, no leaked entry or subscription, stale teardown harmless, order of release kept, Will last, closed connections end |
| `ChannelServer` | 3 commands, server, write errors; fairness | wire order, reader and writer end |
| `TopicFilter` | all filters and topics of up to 3 levels, with empty and `$` levels | matches as 4.7.1 says, accepts exactly the legal filters, prints what it parsed |
| `InboundQos2` | 2 messages under one id, 2 connections, the first may fail; fairness | implements `ExactlyOnce`, every flow completes |
| `KeepAlive` | keep-alives 0 to 3 s, limit 2 s, with and without the opt-in for 0; fairness | punctual clients stay, vanished ones go in time, policy kept, handshake ends |
| `Framing` | 20 packets of all types, 11 malformed frames, 2 per connection, byte by byte, cuts | packets arrive whole and well-typed, reads fail on malformed frames only, no allocation beyond the limit, both readers and both encoders agree, lengths read back |

Four runs show where the code does something other than its comments say; the
findings of `PROJECT.json` quote the lines.

- `SessionPubcomp`: a PUBCOMP dispatched before the sender parks for it is lost,
  and the send times out although the peer answered.
- `BrokerRouted`: `remove_client` wipes what a newer session was granted meanwhile.
- `BrokerTwoConnects`: overlapping CONNECTs leave the earlier connection open. The
  other two properties of `BrokerSerial` fail in the same situation, with a Will or
  with one subscription.
- `ClientFraming`: the client's ping timer wins the `select!` while `read_packet`
  holds the first byte of a packet; the rest is read as a packet of its own and the
  session fails. The server has no such branch: its timer ends the loop.

Six more configurations are kept for use by hand. `SessionCalls.cfg` (two
concurrent calls) and `BrokerOverlap.cfg` (three overlapping connections of one
client) are larger instances of safety properties above and pass.
`SessionWriterDies.cfg` violates `ClosedResolvesWaiters`: after a write error
`close()` returns early, `abandon` never runs, and a parked send waits for its
timer, although `server.rs:271-275` counts on the close to resolve it.
`ChannelDrain.cfg` violates `CloseDrainsFirst`: `close()` does not drain the queue,
as `channel.rs:101` says it does. `BrokerSentOrder.cfg` violates `SentOrderKept`: a
QoS 2 publish is overtaken by a later one that is released first, although
`server.rs:298` speaks of "the order they were sent". `TopicFilterDollar.cfg` violates
`HidesDollarTopics`: the filter `#` matches the topic `$`, although `broker.rs:161`
names the whole of section 4.7.

### Bounds

A call and a delivery share one id counter and one reader, which is enough for one
flow to disturb another; `SessionCalls.cfg` adds the case of two calls that wait.
The id space of 4 keeps ids distinct within a run. Three connections of
one client allow a takeover of a connection that is itself taking over. Two
clients are needed only for delivery, since a worker skips its own client.
`MaxSubscribes = 1` per connection already lets three connections disagree about
one filter. `Publishers` limits who publishes in `BrokerOrder`; the
publisher's client is fixed, as clients are interchangeable. Three levels
reach every combination of wildcard, end of filter and end of topic; the theorems
remove this bound. `MaxTopicLen = 5` in `TopicFilter` makes over-long filters occur.
In `InboundQos2` two messages under one id are what a stale stash could confuse,
and the second connection stays up so that flows can complete; the theorem covers
any number. In `KeepAlive` the keep-alives are on both sides of the limit and of
both parities, `MaxDelay` is just below a quarter of the smallest,
both handshake timers can elapse on packets that are still on their way, and `MaxInFlight` bounds what a client sends unasked. In `Framing` two packets per
connection show whether the first leaves the stream in place for the second;
the limit of 25 bytes is the body of the longest packet, and one malformed frame
declares 26; the topics of `Publishes` reach 65535 and 65536 bytes; lengths
and fields are the values at which their encoding changes shape.
Deadlock is not checked: every run may end with all tasks done.
Safety runs whose constants are interchangeable use symmetry; those with liveness
do not.

### Fairness

- `MqttSession`: a spawned call keeps being polled and its timer elapses
  (`timeout(DEFAULT_ACK_TIMEOUT, ..)`). Nothing is assumed of peer, reader, writer.
- `Channel`: the tasks are polled, the read deadline elapses, and the last clone is
  dropped after `handle()` returns. A write may block for ever, so `WriterEnds`
  says: the writer ends, or stays in one write.
- `Broker`: handlers and workers are polled. A closed channel ends its read loop,
  which `Channel` shows for connections with a keep-alive. Endpoint chains are
  user code and are assumed to return; their own sends do (`CallsReturn`).
- `InboundQos2`: read loops are polled, a closed channel ends its loop (shown by
  `Channel`), and the peer answers what it gets and replaces a dead connection.
- `KeepAlive`: time goes on, and what is due happens.

## 4. What is proved

TLAPS checks these for all values of the constants.

**Session.** `TypeCorrect`, then `SuccessCorrect`, `ClosedCorrect`,
`InflightCorrect` and `FirstAnswerCorrect`, the last four under the assumption
`MaxAllocs < IdSpace`: the counter has not wrapped. The inductive invariant says
that ids in use are pairwise distinct (`IdInv`); which ack a flow can be waiting for
where (`FlowInv`); that every ack answers a packet its flow did send (`AckInv`);
that a slot belongs to the call that holds its id, and that a call waiting with
nothing received has one (`SlotInv`); that between the two lookups of a wake the
awaited kind does not change (`MatchInv`); that a filled oneshot was filled by the
ack its call awaits (`FilledInv`); that the first ack fills the oneshot before its
dispatch is over (`FirstAckInv`); that a dropped sender means a closed channel
(`CloseInv`); and that a record belongs to the delivery that holds its id
(`RecordInv`). None of the four theorems is inductive by itself: each needs the
distinctness of ids, which needs the counter's history.

**Broker tables.** `TypeCorrect`, which includes that the session table has one entry
per client; then `WillOnceCorrect`, `EntriesCorrect`, `OwnedCorrect` and
`StaleTeardownCorrect` need no assumption on how clients connect. A Will is an
obligation with one holder: the table entry, then whichever takeover or teardown
removed that entry. The invariant says that there is one holder and that a held
obligation has not been discharged.

**Broker, serial CONNECTs.** `SupersededCorrect`, `CleanSessionCorrect` and
`WillNotLostCorrect` assume `SerialConnects`. The invariant adds that a client has
at most one connection in admission, that it has no entry until the insertion, and
that a parted connection's Will is published or owed.

**Broker, order of delivery.** `PublishesOrderCorrect` and `WillLastCorrect` need no
assumption on how clients connect. The order in a subscriber's queue is decided
before the queue, and it is the order of hand-over to the worker: a publish waits in the work queue, is then the one message its
worker carries, and is handed over. The invariant says of each place that its
numbers do not exceed those behind it (`WorkInv`, `WorkerInv`, `HandedInv`), that
a connection outside its read loop, drain and join has no work left (`StageInv`),
that a handler carries only Wills, its own from `own_will` on or those of
connections it evicted (`HandlerInv`), and that a connection nobody evicted has its
Will in no queue before `own_will` (`WillHandedInv`). Together: when the Will is
handed over the worker has been joined, and nothing can follow it.

**Channel.** `TypeCorrect`, which includes that `close()` signals and abandons only once
the flag is down, and `WireOrderCorrect`, for any number of commands.
`OrderInv` says that the written commands count from 1 and that, until a write
fails, written and queued commands make up what was handed over; `WriterInv` that
the actor writes only the head of a queue that is not empty, and that a failed
write is its last. After a failed write one command is missing, so the equality is
lost; that nothing is written any more takes its place.

**Keep-alive.** `TypeCorrect`, `PunctualCorrect`, `VanishedCorrect` and
`PolicyCorrect`, for any set of keep-alives, limit, tick length and delay under
`KeepAliveAssumption`. What the server has waited is not bounded by its own
variables. `IdleInv` bounds it by the other side's: before CONNACK arrives by
CONNACK's age; with nothing on its way by the age of the client's timer and one
delay, that of the packet that arrived last; otherwise by one ping interval, that
delay, and the age of the oldest packet on its way. The sum stays below the
deadline because two delays are less than half a keep-alive (`TimerFacts`).
`QuietInv` ties the silence of a vanished client to the packets it left behind,
`EndInv` says that a client that left in order has its last packet on the way,
`HandshakeInv` and `PolicyInv` what holds before and by admission.

**Topic filters.** `TypeCorrect`, `MatchingCorrect`, `AcceptanceCorrect` and `RoundTripCorrect`
hold for sequences of levels of any length, `MatchingCorrect` in the sense of 4.7.1.
The loop invariant says that the
levels already passed agree with their patterns and cover the topic.

**Inbound QoS 2.** `TypeCorrect` and `ReceiverImplementsExactlyOnce`, for any
messages, ids, connections and sets of connections that may fail. `released` being
0 or 1 is not inductive: that a second PUBREL finds nothing depends on where every
packet of the flow is. The invariant has seven parts: packets go the way of their
kind, one per connection and id (`WireInv`); flows under way have different ids,
and a packet shows where its flow is (`PeerInv`); connections not opened yet are
untouched (`FreshInv`); what an id holds belongs to the flow that uses it
(`StashInv`); a message is held only on connections up to the one its release was
first sent on (`OrderInv`); a released message is not held where a release is still
to come (`ReleaseInv`); and the message of a flow that nobody cut is held until it
is taken out (`UncutInv`). One lemma per action shows that it keeps the seven;
lemmas about what an action leaves alone (`PeerStays`, `StashStays`, `OrderStays`,
`ReleaseStays`, `WireStays`) are shared. The refinement maps each step to a step of `ExactlyOnce` or to none.

Every safety property of the passing runs of `MqttSession`, `Broker`, `Channel`,
`TopicFilter`, `InboundQos2` and `KeepAlive` has its theorem. Only model-checked are

- all liveness (`CallsReturn`, `SupersededEnds`, `ReaderLeaves`, `WriterEnds`,
  `FlowsComplete`, `HandshakeEnds`): TLAPS does not reason about `ENABLED`, and so
  not about fairness;
- `Codec` and `Framing` (`TypeOK`, `WholePackets`, `FailsOnMalformedOnly`,
  `HeldWithinCap`, `PathsAgree`, `EncodersAgree`, `LengthsRoundTrip`): what
  the loops of the codec compute for every input takes an induction over bytes, whose
  theorems the installed provers cannot instantiate.

The proof modules begin with `USE SMTT(60)`, and leaves without arithmetic cite
`ZenonT(60)`: the default limits are wall-clock seconds, which the larger modules
exceed on a busy machine.

## 5. Abstractions

- `wake_*` puts a slot of a foreign kind back by remove and insert; the model takes
  both as one step that changes nothing. `MatchInv` shows that below the wrap the
  case does not arise.
- `remove_client` and `matching` walk the tree in one step.
- The three `clear` calls of `abandon`, and the record and hand-over of one
  delivery, are one step each.
- Outside `Codec` and `Framing`, payloads, topics, QoS of subscriptions, return codes
  and DUP flags are left out.
- A SUBSCRIBE or UNSUBSCRIBE carries one filter, and SUBACK, UNSUBACK and PINGRESP
  are not in `outbox` of `Broker`.
- `Regex` path patterns, which only endpoint registration can create, are left out
  of `path_to_wire_filter`.
- A length field of a string or byte array is cut to 16 bits as in the code; that it
  is read back is claimed of fields that fit.
- `InboundQos2` leaves out the error path of a PUBREL whose message the worker's queue
  no longer takes (`server.rs:421-423`), for the reason given in section 2.

## 6. Not modelled

- The client's initial SUBSCRIBE: it is queued after CONNACK and nobody waits for
  its answer. The spawning of endpoint tasks for inbound messages: they run
  unordered by design and share nothing with the loop.
- Endpoint matching (`root.walk_cursor`) and the framework's traits, which belong to
  `hotaru_core`.
- The builders of `client.rs`, `safety.rs`, `context.rs` and `request.rs`, and the
  error types: data without shared state.
- `WriteCmd::Flush` and `WriteCmd::Shutdown`, `parse_publish_topic` and
  `validate_publish_topic`: nothing in the crate uses them.
- Sends past the wrap of the packet-id counter: collisions are accepted by the code
  (`session.rs:101-105`), and the session theorems stop there.
