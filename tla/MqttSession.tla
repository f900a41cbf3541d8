------------------------------ MODULE MqttSession ------------------------------
(***************************************************************************)
(* The acknowledged outbound sends of one MQTT connection.                 *)
(*                                                                         *)
(* Source: src/session.rs (packet ids, ack slots, in-flight records),      *)
(* src/protocol/send.rs (the send path of both roles), the ack arms of     *)
(* src/protocol/server.rs and src/protocol/client.rs, Channel::close of    *)
(* src/channel.rs, and the per-subscriber part of Broker::publish.         *)
(*                                                                         *)
(* Three kinds of task share the session: the calls (one per P::send), the *)
(* fanouts (one per Broker::publish that reaches this subscriber) and the  *)
(* connection's reader, which dispatches the acks of the peer.  Each step  *)
(* below is one access to a shared table, so every interleaving of the     *)
(* tasks on a multi-threaded runtime is a behaviour.                       *)
(*                                                                         *)
(* A DashMap keyed by packet id is a set of records with at most one       *)
(* record per id.  A packet that solicits an ack is represented by the ack *)
(* it solicits; the field "of" (which flow the peer is answering) is not   *)
(* on the wire, and no action of the program reads it.                     *)
(***************************************************************************)
EXTENDS Naturals

CONSTANTS
  Calls,        \* the P::send invocations of the run
  Fanouts,      \* the Broker::publish deliveries to this session
  Requests,     \* the requests a call may carry
  IdSpace,      \* number of values of the packet-id counter, 2^16 in the code
  MaxAllocs,    \* bound: packet ids handed out in one behaviour
  WriteErrors   \* whether the socket may fail under the writer actor

Flows == Calls \cup Fanouts

PacketIds == 1 .. (IdSpace - 1)
PublishAcks == {"Puback", "Pubrec", "Pubcomp"}
AckKinds == PublishAcks \cup {"Suback", "Unsuback"}
AllRequests == {"publish0", "publish1", "publish2", "subscribe", "unsubscribe"}

ASSUME ConstantsAssumption ==
  /\ Calls \cap Fanouts = {}
  /\ Requests \subseteq AllRequests
  /\ IdSpace \in Nat /\ IdSpace >= 2
  /\ MaxAllocs \in Nat
  /\ WriteErrors \in BOOLEAN

VARIABLES
  pkt_counter,        \* AtomicU16
  pending_acks,       \* the parked AckSlots
  outbound_inflight,  \* the retransmit records
  pc,                 \* where each flow is in its send path
  req,                \* what each flow sends
  id,                 \* the packet id of each flow, 0 before it has one
  await,              \* the ack each call is waiting for
  rx,                 \* the receiving half of each call's current oneshot
  woken_by,           \* the ack that filled that oneshot
  result,             \* what each call returned
  sent,               \* packets handed to the writer, as the acks they solicit
  acks,               \* acks of the peer that the reader has not read yet
  handling,           \* the ack being dispatched
  dispatched,         \* the acks whose dispatch is over
  reader_up,          \* the read loop is running
  writer,             \* the writer actor: running, leaving its loop, gone
  open,               \* MqttChannel.open
  closing,            \* close() has flipped open and not yet abandoned
  allocs              \* packet ids handed out so far

callVars == <<req, id, await, woken_by, result>>
tableVars == <<pending_acks, outbound_inflight>>
peerVars == <<sent, acks>>
readerVars == <<handling, dispatched, reader_up>>
channelVars == <<writer, open, closing>>
idVars == <<pkt_counter, allocs>>

vars == <<pkt_counter, pending_acks, outbound_inflight, pc, req, id, await, rx,
          woken_by, result, sent, acks, handling, dispatched, reader_up,
          writer, open, closing, allocs>>

Slots == [id : PacketIds, kind : AckKinds, waiter : Calls]
Records == [id : PacketIds, flow : Fanouts]
Acks == [id : PacketIds, kind : AckKinds, of : Flows]
Stages == {"matched", "woken"}
Handlings == [ack : Acks, stage : Stages]

PcValues == {"idle", "allocated", "parked", "waiting", "received", "expired", "done"}
Results == {"none", "Sent", "Acknowledged", "Completed", "Subscribed",
            "Unsubscribed", "Timeout", "ChannelClosed"}
Successes == {"Acknowledged", "Completed", "Subscribed", "Unsubscribed"}

--------------------------------------------------------------------------------
(* Operators the actions are built from. *)

\* The first ack a request waits for.
FirstAck(r) ==
  CASE r = "publish1"    -> "Puback"
    [] r = "publish2"    -> "Pubrec"
    [] r = "subscribe"   -> "Suback"
    [] r = "unsubscribe" -> "Unsuback"

\* What a call returns when the last ack of its flow arrives.
Outcome(kind) ==
  CASE kind = "Puback"   -> "Acknowledged"
    [] kind = "Pubcomp"  -> "Completed"
    [] kind = "Suback"   -> "Subscribed"
    [] kind = "Unsuback" -> "Unsubscribed"

\* The counter after fetch_add, and the id that 0 is replaced by.
Incremented == (pkt_counter + 1) % IdSpace
\* Faulty: the value fetch_add returns is used as it is.
NextPacketIdBeforeAdd == pkt_counter
NextPacketId == IF Incremented = 0 THEN 1 ELSE Incremented

allocate_packet_id(f) ==
  /\ allocs < MaxAllocs
  /\ allocs' = allocs + 1
  /\ pkt_counter' = Incremented
  /\ id' = [id EXCEPT ![f] = NextPacketId]

SlotsAt(i) == {s \in pending_acks : s.id = i}

\* The receiver is alive from park until the call stops awaiting it.
Listening(c) == pc[c] \in {"parked", "waiting"}

\* Dropping the senders of the slots in S resolves their receivers with RecvError.
Dropped(S) ==
  [c \in Calls |->
     IF Listening(c) /\ \E s \in S : s.waiter = c THEN "dropped" ELSE rx[c]]

\* cmd_tx.send: fails once the receiver is gone, and is read by nobody once the
\* writer has left its loop.
SendFails == writer = "gone"
Enqueue(a) == sent' = IF writer = "running" THEN sent \cup {a} ELSE sent

--------------------------------------------------------------------------------
(* The send path: send_publish, send_subscribe, send_unsubscribe. *)

\* QoS 0: no packet id, no ack.
SendQos0(c) ==
  /\ pc[c] = "idle"
  /\ "publish0" \in Requests
  /\ req' = [req EXCEPT ![c] = "publish0"]
  /\ pc' = [pc EXCEPT ![c] = "done"]
  /\ result' = [result EXCEPT ![c] = IF SendFails THEN "ChannelClosed" ELSE "Sent"]
  /\ UNCHANGED <<idVars, tableVars, peerVars, readerVars, channelVars, id, await,
                 rx, woken_by>>

Start(c, r) ==
  /\ pc[c] = "idle"
  /\ r \in Requests \ {"publish0"}
  /\ allocate_packet_id(c)
  /\ req' = [req EXCEPT ![c] = r]
  /\ pc' = [pc EXCEPT ![c] = "allocated"]
  /\ UNCHANGED <<tableVars, peerVars, readerVars, channelVars, await, rx,
                 woken_by, result>>

\* Insert a fresh slot; an occupied id loses the slot it held.
ParkSlot(c, kind) ==
  /\ pending_acks' = (pending_acks \ SlotsAt(id[c]))
                       \cup {[id |-> id[c], kind |-> kind, waiter |-> c]}
  /\ rx' = [Dropped(SlotsAt(id[c])) EXCEPT ![c] = "empty"]
  /\ await' = [await EXCEPT ![c] = kind]

Park(c) ==
  /\ pc[c] = "allocated"
  /\ ParkSlot(c, FirstAck(req[c]))
  /\ pc' = [pc EXCEPT ![c] = "parked"]
  /\ UNCHANGED <<idVars, peerVars, readerVars, channelVars, outbound_inflight,
                 req, id, woken_by, result>>

\* A failed send returns at once and leaves the slot parked.
SendRequest(c) ==
  /\ pc[c] = "parked"
  /\ pc' = [pc EXCEPT ![c] = IF SendFails THEN "done" ELSE "waiting"]
  /\ result' = [result EXCEPT ![c] = IF SendFails THEN "ChannelClosed" ELSE @]
  /\ Enqueue([id |-> id[c], kind |-> FirstAck(req[c]), of |-> c])
  /\ UNCHANGED <<idVars, tableVars, readerVars, channelVars, acks, req, id,
                 await, rx, woken_by>>

\* The oneshot resolved: PUBREC starts phase two, any other ack ends the call.
Received(c) ==
  /\ pc[c] = "waiting"
  /\ rx[c] = "value"
  /\ IF await[c] = "Pubrec"
       THEN /\ pc' = [pc EXCEPT ![c] = "received"]
            /\ UNCHANGED result
       ELSE /\ pc' = [pc EXCEPT ![c] = "done"]
            /\ result' = [result EXCEPT ![c] = Outcome(await[c])]
  /\ UNCHANGED <<idVars, tableVars, peerVars, readerVars, channelVars, req, id,
                 await, rx, woken_by>>

ParkPubcomp(c) ==
  /\ pc[c] = "received"
  /\ ParkSlot(c, "Pubcomp")
  /\ pc' = [pc EXCEPT ![c] = "waiting"]
  /\ UNCHANGED <<idVars, peerVars, readerVars, channelVars, outbound_inflight,
                 req, id, woken_by, result>>

SenderDropped(c) ==
  /\ pc[c] = "waiting"
  /\ rx[c] = "dropped"
  /\ pc' = [pc EXCEPT ![c] = "done"]
  /\ result' = [result EXCEPT ![c] = "ChannelClosed"]
  /\ UNCHANGED <<idVars, tableVars, peerVars, readerVars, channelVars, req, id,
                 await, rx, woken_by>>

\* Faulty: only the first phase of a send has a timer.
PollExpiresFirstPhase(c) ==
  /\ pc[c] = "waiting"
  /\ rx[c] = "empty"
  /\ await[c] # "Pubcomp"
  /\ pc' = [pc EXCEPT ![c] = "expired"]
  /\ UNCHANGED <<idVars, tableVars, peerVars, readerVars, channelVars, callVars, rx>>

\* The wait is polled after its timer elapsed and finds the oneshot empty: it ends
\* with Elapsed, and the receiver is dropped.
PollExpires(c) ==
  /\ pc[c] = "waiting"
  /\ rx[c] = "empty"
  /\ pc' = [pc EXCEPT ![c] = "expired"]
  /\ UNCHANGED <<idVars, tableVars, peerVars, readerVars, channelVars, callVars, rx>>

\* cancel_ack_waiter removes whatever slot the id holds by now, and the call
\* returns AckTimeout. An ack dispatched since the poll found no receiver.
AckTimeout(c) ==
  /\ pc[c] = "expired"
  /\ pending_acks' = pending_acks \ SlotsAt(id[c])
  /\ rx' = Dropped(SlotsAt(id[c]))
  /\ pc' = [pc EXCEPT ![c] = "done"]
  /\ result' = [result EXCEPT ![c] = "Timeout"]
  /\ UNCHANGED <<idVars, peerVars, readerVars, channelVars, outbound_inflight,
                 req, id, await, woken_by>>

--------------------------------------------------------------------------------
(* Broker::publish delivering to this subscriber at QoS 1 or 2. *)

StartFanout(f, r) ==
  /\ pc[f] = "idle"
  /\ r \in Requests \cap {"publish1", "publish2"}
  /\ allocate_packet_id(f)
  /\ req' = [req EXCEPT ![f] = r]
  /\ pc' = [pc EXCEPT ![f] = "allocated"]
  /\ UNCHANGED <<tableVars, peerVars, readerVars, channelVars, await, rx,
                 woken_by, result>>

\* The retransmit record is written before the packet is handed over, and a
\* failed hand-over is ignored.
DeliverFanout(f) ==
  /\ pc[f] = "allocated"
  /\ outbound_inflight' = {t \in outbound_inflight : t.id # id[f]}
                            \cup {[id |-> id[f], flow |-> f]}
  /\ Enqueue([id |-> id[f], kind |-> FirstAck(req[f]), of |-> f])
  /\ pc' = [pc EXCEPT ![f] = "done"]
  /\ UNCHANGED <<idVars, readerVars, channelVars, callVars, pending_acks, acks,
                 rx>>

--------------------------------------------------------------------------------
(* The peer, and the reader that dispatches its acks. *)

\* The peer answers a packet it was sent, in any order, possibly again.
PeerAnswers(a) ==
  /\ a \in sent
  /\ acks' = acks \cup {a}
  /\ UNCHANGED <<idVars, tableVars, readerVars, channelVars, callVars, pc, rx,
                 sent>>

\* Faulty: any parked slot of the id is taken for the one this ack answers.
ReadAckAnyKind(a) ==
  /\ reader_up
  /\ handling = {}
  /\ a \in acks
  /\ acks' = acks \ {a}
  /\ handling' = {[ack |-> a, stage |-> IF SlotsAt(a.id) # {} THEN "matched" ELSE "woken"]}
  /\ UNCHANGED <<idVars, tableVars, channelVars, callVars, pc, rx, sent,
                 dispatched, reader_up>>

\* Faulty: a slot of another kind is removed instead of left where it is.
ReadAckConsumes(a) ==
  LET matched == \E s \in SlotsAt(a.id) : s.kind = a.kind IN
    /\ reader_up
    /\ handling = {}
    /\ a \in acks
    /\ acks' = acks \ {a}
    /\ handling' = {[ack |-> a, stage |-> IF matched THEN "matched" ELSE "woken"]}
    /\ pending_acks' = IF matched THEN pending_acks ELSE pending_acks \ SlotsAt(a.id)
    /\ rx' = IF matched THEN rx ELSE Dropped(SlotsAt(a.id))
    /\ UNCHANGED <<idVars, outbound_inflight, channelVars, callVars, pc, sent,
                   dispatched, reader_up>>

\* Faulty: PUBREC is answered with PUBREL and wakes nobody.
ReadAckNoPubrec(a) ==
  /\ reader_up
  /\ handling = {}
  /\ a \in acks
  /\ acks' = acks \ {a}
  /\ handling' = {[ack |-> a,
                   stage |-> IF a.kind # "Pubrec" /\ \E s \in SlotsAt(a.id) : s.kind = a.kind
                               THEN "matched" ELSE "woken"]}
  /\ UNCHANGED <<idVars, tableVars, channelVars, callVars, pc, rx, sent,
                 dispatched, reader_up>>

\* First half of a wake: look the slot up, drop the guard, compare the kinds.
\* Without a slot of this kind the wake is over.
ReadAck(a) ==
  /\ reader_up
  /\ handling = {}
  /\ a \in acks
  /\ acks' = acks \ {a}
  /\ handling' = {[ack |-> a,
                   stage |-> IF \E s \in SlotsAt(a.id) : s.kind = a.kind
                               THEN "matched" ELSE "woken"]}
  /\ UNCHANGED <<idVars, tableVars, channelVars, callVars, pc, rx, sent,
                 dispatched, reader_up>>

\* The kinds of slot the second half accepts; any other slot is put back.
Accepts(kind) == IF kind \in PublishAcks THEN PublishAcks ELSE {kind}

\* The slots the second half removes for good.
Taken(a) == {s \in SlotsAt(a.id) : s.kind \in Accepts(a.kind)}

\* Second half of a wake: remove the slot and fill its oneshot.
WakeWaiter(h) ==
  /\ h.stage = "matched"
  /\ pending_acks' = pending_acks \ Taken(h.ack)
  /\ LET woken == {c \in Calls : Listening(c) /\ \E s \in Taken(h.ack) : s.waiter = c}
     IN /\ rx' = [c \in Calls |-> IF c \in woken THEN "value" ELSE rx[c]]
        /\ woken_by' = [c \in Calls |-> IF c \in woken THEN {h.ack} ELSE woken_by[c]]
  /\ handling' = {[ack |-> h.ack, stage |-> "woken"]}
  /\ UNCHANGED <<idVars, channelVars, peerVars, outbound_inflight, pc, req, id,
                 await, result, dispatched, reader_up>>

\* Faulty: PUBREC clears the retransmit record too.
EndsFlowOnPubrec(kind) == kind \in PublishAcks

\* PUBACK and PUBCOMP end the flow; PUBREC does not.
EndsFlow(kind) == kind \in {"Puback", "Pubcomp"}

\* What the dispatch arm does after the wake: clear the retransmit record, or
\* answer PUBREC with PUBREL (a failed send ends the read loop).
FinishDispatch(h) ==
  /\ h.stage = "woken"
  /\ outbound_inflight' = {t \in outbound_inflight :
                             ~ (EndsFlow(h.ack.kind) /\ t.id = h.ack.id)}
  /\ IF h.ack.kind = "Pubrec"
       THEN /\ Enqueue([id |-> h.ack.id, kind |-> "Pubcomp", of |-> h.ack.of])
            /\ reader_up' = ~ SendFails
       ELSE UNCHANGED <<sent, reader_up>>
  /\ handling' = {}
  /\ dispatched' = dispatched \cup {h.ack}
  /\ UNCHANGED <<idVars, channelVars, callVars, pc, rx, pending_acks, acks>>

\* The read loop ends: wire closed, deadline, DISCONNECT or shutdown.
ReaderStops ==
  /\ reader_up
  /\ handling = {}
  /\ reader_up' = FALSE
  /\ UNCHANGED <<idVars, tableVars, peerVars, channelVars, callVars, pc, rx,
                 handling, dispatched>>

--------------------------------------------------------------------------------
(* The channel's life: Channel::close by any holder, and the writer actor. *)

\* The first caller flips the flag; a later caller returns at once.
Close ==
  /\ open
  /\ open' = FALSE
  /\ closing' = TRUE
  /\ UNCHANGED <<idVars, tableVars, peerVars, readerVars, callVars, pc, rx,
                 writer>>

abandon ==
  /\ closing
  /\ closing' = FALSE
  /\ pending_acks' = {}
  /\ rx' = Dropped(pending_acks)
  /\ outbound_inflight' = {}
  /\ UNCHANGED <<idVars, peerVars, readerVars, callVars, pc, writer, open>>

\* The writer leaves its loop, on the shutdown signal or on a write error, and
\* marks the channel closed itself.
WriterLeaves ==
  /\ writer = "running"
  /\ ~ open \/ WriteErrors
  /\ writer' = "leaving"
  /\ open' = FALSE
  /\ UNCHANGED <<idVars, tableVars, peerVars, readerVars, callVars, pc, rx,
                 closing>>

\* The socket is shut down and the command receiver dropped.
WriterGone ==
  /\ writer = "leaving"
  /\ writer' = "gone"
  /\ UNCHANGED <<idVars, tableVars, peerVars, readerVars, callVars, pc, rx, open,
                 closing>>

--------------------------------------------------------------------------------
Init ==
  /\ pkt_counter = 0
  /\ allocs = 0
  /\ pending_acks = {}
  /\ outbound_inflight = {}
  /\ pc = [f \in Flows |-> "idle"]
  /\ req = [f \in Flows |-> "publish0"]
  /\ id = [f \in Flows |-> 0]
  /\ await = [c \in Calls |-> "Puback"]
  /\ rx = [c \in Calls |-> "empty"]
  /\ woken_by = [c \in Calls |-> {}]
  /\ result = [c \in Calls |-> "none"]
  /\ sent = {}
  /\ acks = {}
  /\ handling = {}
  /\ dispatched = {}
  /\ reader_up = TRUE
  /\ writer = "running"
  /\ open = TRUE
  /\ closing = FALSE

\* What the runtime schedules for a call once it has started.
CallStep(c) ==
  \/ Park(c)
  \/ SendRequest(c)
  \/ Received(c)
  \/ ParkPubcomp(c)
  \/ SenderDropped(c)
  \/ PollExpires(c)
  \/ AckTimeout(c)

Next ==
  \/ \E c \in Calls : SendQos0(c)
  \/ \E c \in Calls, r \in AllRequests : Start(c, r)
  \/ \E c \in Calls : CallStep(c)
  \/ \E f \in Fanouts, r \in AllRequests : StartFanout(f, r)
  \/ \E f \in Fanouts : DeliverFanout(f)
  \/ \E a \in sent : PeerAnswers(a)
  \/ \E a \in acks : ReadAck(a)
  \/ \E h \in handling : WakeWaiter(h) \/ FinishDispatch(h)
  \/ ReaderStops
  \/ Close
  \/ abandon
  \/ WriterLeaves
  \/ WriterGone

Spec == Init /\ [][Next]_vars

\* A spawned task keeps being polled, and its ack timer always elapses.
FairSpec == Spec /\ \A c \in Calls : WF_vars(CallStep(c))

--------------------------------------------------------------------------------
(* Properties. *)

\* Every variable keeps its type; a table holds at most one entry per packet id.
TypeOK ==
  /\ pkt_counter \in 0 .. (IdSpace - 1)
  /\ allocs \in 0 .. MaxAllocs
  /\ pending_acks \subseteq Slots
  /\ \A s, t \in pending_acks : s.id = t.id => s = t
  /\ outbound_inflight \subseteq Records
  /\ \A s, t \in outbound_inflight : s.id = t.id => s = t
  /\ pc \in [Flows -> PcValues]
  /\ req \in [Flows -> AllRequests]
  /\ id \in [Flows -> 0 .. (IdSpace - 1)]
  /\ await \in [Calls -> AckKinds]
  /\ rx \in [Calls -> {"empty", "value", "dropped"}]
  /\ woken_by \in [Calls -> SUBSET Acks]
  /\ result \in [Calls -> Results]
  /\ sent \subseteq Acks
  /\ acks \subseteq Acks
  /\ handling \subseteq Handlings
  /\ dispatched \subseteq Acks
  /\ reader_up \in BOOLEAN
  /\ writer \in {"running", "leaving", "gone"}
  /\ open \in BOOLEAN
  /\ closing \in BOOLEAN

\* A call returns success only on the peer's answer to its own request: no ack
\* of another flow, and no earlier ack of its own flow, ever completes it
\* (wake_ack_waiter, wake_suback_waiter, wake_unsuback_waiter).
SuccessIsOwnAck ==
  \A c \in Calls : result[c] \in Successes =>
    /\ woken_by[c] = {[id |-> id[c], kind |-> await[c], of |-> c]}
    /\ await[c] = (IF req[c] = "publish2" THEN "Pubcomp" ELSE FirstAck(req[c]))

\* A call reports ChannelClosed only when the channel did close: no live slot is
\* displaced, cancelled or consumed by somebody else's step ("a disconnection
\* that never happened", session.rs:231).
ClosedIsReal ==
  \A c \in Calls : result[c] = "ChannelClosed" => ~ open

\* A retransmit record lives exactly as long as its flow: from the hand-over
\* until PUBACK or PUBCOMP is dispatched, PUBREC included
\* (clear_outbound_inflight, track_outbound_inflight).
InflightUntilFlowEnds ==
  open => \A f \in Fanouts : pc[f] = "done" =>
    ( [id |-> id[f], flow |-> f] \in outbound_inflight
      <=> ~ \E a \in dispatched : a.of = f /\ a.kind \in {"Puback", "Pubcomp"} )

\* A wait for the first ack of a request ends with a timeout only if, at its last
\* poll, the reader had not dispatched that ack: no ack is processed before its
\* slot is parked, none goes to another slot (park before send, wake_ack_waiter).
\* An ack dispatched after that poll and before cancel_ack_waiter is lost, and
\* the call still returns AckTimeout: the code accepts that race.
FirstAnswerNeverMissed ==
  [][\A c \in Calls :
       (pc[c] = "waiting" /\ pc'[c] = "expired" /\ await[c] # "Pubcomp")
         => [id |-> id[c], kind |-> await[c], of |-> c] \notin dispatched]_vars

\* Likewise for the wait for the PUBCOMP of a QoS 2 publish.
PubcompNeverMissed ==
  [][\A c \in Calls :
       (pc[c] = "waiting" /\ pc'[c] = "expired" /\ await[c] = "Pubcomp")
         => [id |-> id[c], kind |-> "Pubcomp", of |-> c] \notin dispatched]_vars

\* Once the channel has closed and close() has returned, no call is left waiting
\* on an ack that nobody can deliver.
ClosedResolvesWaiters ==
  (~ open /\ ~ closing /\ ~ reader_up) =>
    \A c \in Calls : ~ (pc[c] = "waiting" /\ rx[c] = "empty")

\* Every request that was started returns, whatever the peer, the writer and the
\* other holders of the channel do.
CallsReturn == \A c \in Calls : (pc[c] # "idle") ~> (pc[c] = "done")

================================================================================
