--------------------------- MODULE MqttSessionProofs ---------------------------
(***************************************************************************)
(* Proofs about MqttSession, for any calls, fanouts, id width and bounds:  *)
(* type correctness; then the inductive invariant that holds below the     *)
(* wrap of the packet-id counter, one lemma per step (starting, answering  *)
(* and ending a flow; the send path; fanouts and the reader), and what     *)
(* follows from it.                                                        *)
(***************************************************************************)
EXTENDS MqttSession, TLAPS

\* The obligations are many and large: the provers get more than their usual time.
USE SMTT(60)

\* A flow between its allocation and its end carries a request with an ack and a
\* packet id.
BusyFlows ==
  \A f \in Flows : pc[f] \notin {"idle", "done"} =>
    req[f] \in AllRequests \ {"publish0"} /\ id[f] \in PacketIds

\* TypeOK is preserved only together with BusyFlows.
TypeInv == TypeOK /\ BusyFlows

\* The counter stays within its width and never yields packet id 0
\* (allocate_packet_id).
LEMMA IdRange ==
  ASSUME TypeOK
  PROVE  Incremented \in 0 .. (IdSpace - 1) /\ NextPacketId \in PacketIds
BY ConstantsAssumption DEF TypeOK, Incremented, NextPacketId, PacketIds

\* What the two tables of requests and outcomes hold.
LEMMA FirstAckValues ==
  /\ FirstAck("publish1") = "Puback"
  /\ FirstAck("publish2") = "Pubrec"
  /\ FirstAck("subscribe") = "Suback"
  /\ FirstAck("unsubscribe") = "Unsuback"
BY ZenonT(60) DEF FirstAck

LEMMA FirstAckKind ==
  ASSUME NEW r \in AllRequests \ {"publish0"}
  PROVE  /\ FirstAck(r) \in AckKinds /\ FirstAck(r) # "Pubcomp"
         /\ FirstAck(r) = "Pubrec" <=> r = "publish2"
BY ZenonT(60), FirstAckValues DEF AllRequests, AckKinds, PublishAcks

LEMMA OutcomeValues ==
  /\ Outcome("Puback") = "Acknowledged"
  /\ Outcome("Pubcomp") = "Completed"
  /\ Outcome("Suback") = "Subscribed"
  /\ Outcome("Unsuback") = "Unsubscribed"
BY ZenonT(60) DEF Outcome

LEMMA OutcomeKind ==
  ASSUME NEW k \in AckKinds \ {"Pubrec"}
  PROVE  Outcome(k) \in Successes /\ Outcome(k) \in Results
BY ZenonT(60), OutcomeValues DEF AckKinds, PublishAcks, Successes, Results

LEMMA TypeInvInit == Init => TypeInv
<1> SUFFICES ASSUME Init PROVE TypeInv
  BY ZenonT(60)
<1>1. pkt_counter \in 0 .. (IdSpace - 1) /\ allocs \in 0 .. MaxAllocs
  BY ConstantsAssumption DEF Init
<1>2. id \in [Flows -> 0 .. (IdSpace - 1)]
  BY ConstantsAssumption DEF Init
<1>3. /\ pc \in [Flows -> PcValues] /\ req \in [Flows -> AllRequests]
      /\ await \in [Calls -> AckKinds] /\ result \in [Calls -> Results]
      /\ rx \in [Calls -> {"empty", "value", "dropped"}]
      /\ woken_by \in [Calls -> SUBSET Acks]
  BY ZenonT(60) DEF Init, PcValues, AllRequests, AckKinds, PublishAcks, Results
<1>4. BusyFlows
  BY ZenonT(60) DEF Init, BusyFlows
<1> QED
  BY ZenonT(60), <1>1, <1>2, <1>3, <1>4 DEF Init, TypeInv, TypeOK

LEMMA TypeInvNext == TypeInv /\ [Next]_vars => TypeInv'
<1> SUFFICES ASSUME TypeInv, [Next]_vars PROVE TypeInv'
  BY ZenonT(60)
<1> USE DEF TypeInv, TypeOK, BusyFlows
<1>1. ASSUME NEW c \in Calls, SendQos0(c) PROVE TypeInv'
  BY ZenonT(60), <1>1 DEF SendQos0, idVars, tableVars, peerVars, readerVars, channelVars, Flows,
     PcValues, AllRequests, Results
<1>2. ASSUME NEW c \in Calls, NEW r \in AllRequests, Start(c, r) PROVE TypeInv'
  BY <1>2, IdRange, ConstantsAssumption
     DEF Start, allocate_packet_id, tableVars, peerVars,
     readerVars, channelVars, Flows, PcValues, AllRequests, PacketIds
<1>3. ASSUME NEW c \in Calls, Park(c) PROVE TypeInv'
  BY <1>3, FirstAckKind DEF Park, ParkSlot, SlotsAt, Dropped, Slots, idVars, peerVars,
     readerVars, channelVars, Flows, PcValues
<1>4. ASSUME NEW c \in Calls, SendRequest(c) PROVE TypeInv'
  BY <1>4, FirstAckKind DEF SendRequest, SendFails, Enqueue, Acks, idVars, tableVars,
     readerVars, channelVars, Flows, PcValues, Results
<1>5. ASSUME NEW c \in Calls, Received(c) PROVE TypeInv'
  BY <1>5, OutcomeKind
     DEF Received, idVars, tableVars, peerVars, readerVars, channelVars,
     Flows, PcValues
<1>6. ASSUME NEW c \in Calls, ParkPubcomp(c) PROVE TypeInv'
  BY <1>6 DEF ParkPubcomp, ParkSlot, SlotsAt, Dropped, Slots, idVars, peerVars,
     readerVars, channelVars, Flows, PcValues, AckKinds, PublishAcks
<1>7. ASSUME NEW c \in Calls, SenderDropped(c) PROVE TypeInv'
  BY ZenonT(60), <1>7 DEF SenderDropped, idVars, tableVars, peerVars, readerVars, channelVars,
     Flows, PcValues, Results
<1>8. ASSUME NEW c \in Calls, AckTimeout(c) PROVE TypeInv'
  BY ZenonT(60), <1>8 DEF AckTimeout, SlotsAt, Dropped, idVars, peerVars, readerVars, channelVars,
     Flows, PcValues, Results
<1>21. ASSUME NEW c \in Calls, PollExpires(c) PROVE TypeInv'
  BY ZenonT(60), <1>21 DEF PollExpires, idVars, tableVars, peerVars, readerVars, channelVars,
     callVars, Flows, PcValues
<1>9. ASSUME NEW f \in Fanouts, NEW r \in AllRequests, StartFanout(f, r) PROVE TypeInv'
  BY <1>9, IdRange, ConstantsAssumption
     DEF StartFanout, allocate_packet_id, tableVars,
     peerVars, readerVars, channelVars, Flows, PcValues, AllRequests, PacketIds
<1>10. ASSUME NEW f \in Fanouts, DeliverFanout(f) PROVE TypeInv'
  BY <1>10, FirstAckKind
     DEF DeliverFanout, Enqueue, Acks, Records, idVars, readerVars,
     channelVars, callVars, Flows, PcValues
<1>11. ASSUME NEW a \in sent, PeerAnswers(a) PROVE TypeInv'
  BY ZenonT(60), <1>11 DEF PeerAnswers, idVars, tableVars, readerVars, channelVars, callVars
<1>12. ASSUME NEW a \in acks, ReadAck(a) PROVE TypeInv'
  BY <1>12 DEF ReadAck, Handlings, Stages, idVars, tableVars, channelVars, callVars
<1>13. ASSUME NEW h \in handling, WakeWaiter(h) PROVE TypeInv'
  BY <1>13 DEF WakeWaiter, Handlings, Stages, idVars, channelVars, peerVars
<1>20. ASSUME NEW h \in handling, FinishDispatch(h) PROVE TypeInv'
  <2>1. h.ack \in Acks
    BY ZenonT(60) DEF Handlings
  <2>2. [id |-> h.ack.id, kind |-> "Pubcomp", of |-> h.ack.of] \in Acks
    BY ZenonT(60), <2>1 DEF Acks, AckKinds, PublishAcks
  <2> QED
    BY ZenonT(60), <1>20, <2>1, <2>2 DEF FinishDispatch, Enqueue, SendFails, idVars, channelVars,
       callVars
<1>14. CASE ReaderStops
  BY ZenonT(60), <1>14 DEF ReaderStops, idVars, tableVars, peerVars, channelVars, callVars
<1>15. CASE Close
  BY ZenonT(60), <1>15 DEF Close, idVars, tableVars, peerVars, readerVars, callVars
<1>16. CASE abandon
  BY ZenonT(60), <1>16 DEF abandon, Dropped, idVars, peerVars, readerVars, callVars
<1>17. CASE WriterLeaves
  BY ZenonT(60), <1>17 DEF WriterLeaves, idVars, tableVars, peerVars, readerVars, callVars
<1>18. CASE WriterGone
  BY ZenonT(60), <1>18 DEF WriterGone, idVars, tableVars, peerVars, readerVars, callVars
<1>19. CASE UNCHANGED vars
  BY ZenonT(60), <1>19 DEF vars
<1> QED
  BY ZenonT(60), <1>1, <1>2, <1>3, <1>4, <1>5, <1>6, <1>7, <1>8, <1>9, <1>10, <1>11, <1>12,
     <1>13, <1>14, <1>15, <1>16, <1>17, <1>18, <1>19, <1>20, <1>21 DEF Next, CallStep

\* Every variable of the session keeps its type: in particular no slot, record or
\* packet ever carries packet id 0, whatever the counter does at its wrap.
THEOREM TypeCorrect == Spec => []TypeOK
<1>1. TypeInv => TypeOK
  BY ZenonT(60) DEF TypeInv
<1> QED
  BY <1>1, TypeInvInit, TypeInvNext, PTL DEF Spec

--------------------------------------------------------------------------------
(***************************************************************************)
(* Below the wrap.  Each conjunct of the inductive invariant needs others: *)
(* that a slot, an ack or a record belongs to the one flow that holds its  *)
(* id rests on the ids being distinct.                                     *)
(***************************************************************************)

\* The counter has never wrapped: it has handed out each id at most once.
IdInv ==
  /\ pkt_counter = allocs
  /\ \A f \in Flows : id[f] <= pkt_counter
  /\ \A f, g \in Flows : (id[f] = id[g] /\ id[f] # 0) => f = g

\* Where a flow can be, and which ack it can be waiting for there.
FlowInv ==
  /\ \A f \in Flows : pc[f] = "idle" => id[f] = 0
  /\ \A f \in Fanouts : /\ pc[f] \in {"idle", "allocated", "done"}
                        /\ pc[f] # "idle" => id[f] # 0
  /\ \A c \in Calls :
       /\ pc[c] = "parked" => await[c] = FirstAck(req[c])
       /\ pc[c] = "waiting" => \/ await[c] = FirstAck(req[c])
                               \/ req[c] = "publish2" /\ await[c] = "Pubcomp"
       /\ pc[c] = "received" => req[c] = "publish2"
       /\ result[c] # "none" => pc[c] = "done"

\* An ack that is or was on its way answers a packet its flow did send.
Genuine(a) == a.id = id[a.of] /\ pc[a.of] \in {"waiting", "received", "expired", "done"}

AckInv ==
  /\ \A a \in sent : Genuine(a)
  /\ \A a \in acks : Genuine(a)
  /\ \A a \in dispatched : Genuine(a)
  /\ \A h \in handling : Genuine(h.ack)
  /\ \A g, h \in handling : g = h

\* A slot belongs to the call that holds its id, and a call that is waiting with
\* nothing received has its slot in the table.
SlotInv ==
  /\ \A s \in pending_acks :
       /\ s.id = id[s.waiter]
       /\ \/ Listening(s.waiter) /\ rx[s.waiter] = "empty" /\ s.kind = await[s.waiter]
          \/ pc[s.waiter] \in {"expired", "done"}
  /\ \A c \in Calls : (Listening(c) /\ rx[c] = "empty") =>
       \E s \in pending_acks : s.waiter = c

\* Between the two lookups of a wake the slot does not change its kind.
MatchInv ==
  \A h \in handling : h.stage = "matched" =>
    /\ h.ack.of \in Calls
    /\ \/ pc[h.ack.of] \in {"expired", "done"}
       \/ /\ Listening(h.ack.of)
          /\ rx[h.ack.of] # "value"
          /\ await[h.ack.of] = h.ack.kind

\* A filled oneshot was filled by the ack its call is waiting for.
FilledInv ==
  \A c \in Calls : (Listening(c) /\ rx[c] = "value") =>
    woken_by[c] = {[id |-> id[c], kind |-> await[c], of |-> c]}

\* The first ack of a request fills the oneshot before its dispatch is over.
FirstAckInv ==
  \A c \in Calls : (Listening(c) /\ rx[c] = "empty" /\ await[c] # "Pubcomp") =>
    /\ \A a \in dispatched : a.of = c => a.kind # await[c]
    /\ \A h \in handling : (h.ack.of = c /\ h.ack.kind = await[c]) => h.stage = "matched"

\* A dropped sender means a closed channel.
CloseInv ==
  /\ (closing \/ writer # "running") => ~ open
  /\ \A c \in Calls : (Listening(c) /\ rx[c] = "dropped") => ~ open

\* A record belongs to the fanout that holds its id.
RecordInv ==
  \A t \in outbound_inflight : t.id = id[t.flow] /\ pc[t.flow] = "done"

Inv ==
  /\ IdInv /\ FlowInv /\ AckInv /\ SlotInv /\ MatchInv /\ FilledInv
  /\ FirstAckInv /\ CloseInv /\ RecordInv
  /\ SuccessIsOwnAck /\ ClosedIsReal /\ InflightUntilFlowEnds

IInv == TypeInv /\ Inv

\* What the steps below use of TypeInv.
Typed ==
  /\ Calls \subseteq Flows /\ Fanouts \subseteq Flows /\ Calls \cap Fanouts = {}
  /\ pc \in [Flows -> PcValues]
  /\ req \in [Flows -> AllRequests]
  /\ id \in [Flows -> Nat]
  /\ await \in [Calls -> AckKinds]
  /\ rx \in [Calls -> {"empty", "value", "dropped"}]
  /\ woken_by \in [Calls -> SUBSET Acks]
  /\ result \in [Calls -> Results]
  /\ \A s \in pending_acks : s.waiter \in Calls /\ s.id # 0
  /\ \A t \in outbound_inflight : t.flow \in Fanouts /\ t.id # 0
  /\ \A a \in sent : a.of \in Flows /\ a.id # 0
  /\ \A a \in acks : a.of \in Flows /\ a.id # 0
  /\ \A a \in dispatched : a.of \in Flows /\ a.id # 0
  /\ \A h \in handling :
       /\ h.ack.of \in Flows /\ h.ack.id # 0
       /\ h.ack = [id |-> h.ack.id, kind |-> h.ack.kind, of |-> h.ack.of]
  /\ \A f \in Flows : pc[f] \notin {"idle", "done"} =>
       req[f] \in AllRequests \ {"publish0"} /\ id[f] # 0

\* A step that preserves Inv.  One lemma says it of each action.
Keeps(step) == TypeInv /\ Inv /\ step => Inv'

LEMMA TypedInv == TypeInv => Typed
BY ConstantsAssumption DEF TypeInv, TypeOK, BusyFlows, Typed, Flows, PacketIds, Slots,
   Records, Acks, Handlings

\* Below the wrap the next id is the next number, and no flow holds it.
LEMMA FreshId ==
  ASSUME TypeOK, IdInv, MaxAllocs < IdSpace, allocs < MaxAllocs
  PROVE  /\ Incremented = pkt_counter + 1
         /\ NextPacketId = pkt_counter + 1
         /\ \A f \in Flows : id[f] # NextPacketId
BY ConstantsAssumption DEF TypeOK, IdInv, Incremented, NextPacketId

\* A flow that has sent its packet never goes back.
LEMMA AckFrame ==
  ASSUME Typed, AckInv, id' = id,
         \A f \in Flows : pc[f] \in {"waiting", "received", "expired", "done"} =>
           pc'[f] \in {"waiting", "received", "expired", "done"},
         acks' = acks, dispatched' = dispatched, handling' = handling,
         \A a \in sent' : a \in sent \/ Genuine(a)'
  PROVE  AckInv'
<1>1. ASSUME NEW a, a.of \in Flows, Genuine(a)
      PROVE  Genuine(a)'
  BY ZenonT(60), <1>1 DEF Genuine
<1> QED
  BY ZenonT(60), <1>1 DEF AckInv, Typed

\* Most of the invariant does not speak of the wire, the read loop or the channel.
LEMMA FlowFrame ==
  ASSUME Inv, UNCHANGED <<idVars, tableVars, callVars, pc, rx, handling, dispatched>>
  PROVE  /\ IdInv' /\ FlowInv' /\ SlotInv' /\ MatchInv' /\ FilledInv'
         /\ FirstAckInv' /\ RecordInv' /\ SuccessIsOwnAck'
<1> USE DEF Inv, idVars, tableVars, callVars
<1>1. IdInv' /\ FlowInv' /\ RecordInv' /\ SuccessIsOwnAck'
  BY ZenonT(60) DEF IdInv, FlowInv, RecordInv, SuccessIsOwnAck
<1>2. SlotInv' /\ MatchInv'
  BY ZenonT(60) DEF SlotInv, MatchInv, Listening
<1>3. FilledInv' /\ FirstAckInv'
  BY ZenonT(60) DEF FilledInv, FirstAckInv, Listening
<1> QED
  BY ZenonT(60), <1>1, <1>2, <1>3

LEMMA PeerAnswersKeeps ==
  ASSUME NEW a \in sent
  PROVE  Keeps(PeerAnswers(a))
<1> SUFFICES ASSUME Inv, PeerAnswers(a) PROVE Inv'
  BY ZenonT(60) DEF Keeps
<1> USE DEF PeerAnswers, callVars, tableVars, channelVars, readerVars
<1>1. UNCHANGED <<idVars, tableVars, callVars, pc, rx, handling, dispatched>>
  BY ZenonT(60)
<1>2. AckInv'
  BY ZenonT(60) DEF Inv, AckInv, Genuine
<1>3. CloseInv' /\ ClosedIsReal' /\ InflightUntilFlowEnds'
  BY ZenonT(60) DEF Inv, CloseInv, ClosedIsReal, InflightUntilFlowEnds, Listening
<1> QED
  BY ZenonT(60), <1>1, <1>2, <1>3, FlowFrame DEF Inv

\* The channel only ever closes.
LEMMA ChannelKeeps ==
  Keeps(ReaderStops \/ Close \/ WriterLeaves \/ WriterGone \/ UNCHANGED vars)
<1> SUFFICES ASSUME Inv, ReaderStops \/ Close \/ WriterLeaves \/ WriterGone \/ UNCHANGED vars PROVE Inv'
  BY ZenonT(60) DEF Keeps
<1> USE DEF ReaderStops, Close, WriterLeaves, WriterGone, vars, channelVars, readerVars,
        peerVars, callVars, tableVars
<1>1. /\ UNCHANGED <<idVars, tableVars, callVars, pc, rx, handling, dispatched>>
      /\ UNCHANGED <<sent, acks>>
      /\ open' => open
  BY DEF idVars
<1>2. CloseInv'
  BY DEF Inv, CloseInv, Listening
<1>3. AckInv'
  BY ZenonT(60), <1>1 DEF Inv, AckInv, Genuine
<1>4. ClosedIsReal'
  BY ZenonT(60), <1>1 DEF Inv, ClosedIsReal
<1>5. InflightUntilFlowEnds'
  BY ZenonT(60), <1>1 DEF Inv, InflightUntilFlowEnds
<1> QED
  BY ZenonT(60), <1>1, <1>2, <1>3, <1>4, <1>5, FlowFrame DEF Inv

LEMMA SendQos0Keeps ==
  ASSUME NEW c \in Calls
  PROVE  Keeps(SendQos0(c))
<1> SUFFICES ASSUME TypeInv, Inv, SendQos0(c) PROVE Inv'
  BY ZenonT(60) DEF Keeps
<1> USE SMTT(120) DEF idVars, tableVars, peerVars, readerVars, channelVars
<1>b. Typed
  BY ZenonT(60), TypedInv
<1>1. IdInv' /\ AckInv' /\ SlotInv' /\ MatchInv'
  BY DEF SendQos0, IdInv, AckInv, Genuine, SlotInv, Listening, MatchInv, Inv
<1>2. FilledInv' /\ FirstAckInv' /\ CloseInv' /\ RecordInv'
  BY ZenonT(60), <1>b DEF SendQos0, FilledInv, Listening, FirstAckInv, CloseInv,
     RecordInv, Inv, Typed
<1>3. FlowInv' /\ InflightUntilFlowEnds'
  BY ZenonT(60), <1>b DEF SendQos0, FlowInv, InflightUntilFlowEnds, Typed, Inv
<1>4. SuccessIsOwnAck'
  BY ZenonT(60), <1>b DEF SendQos0, SuccessIsOwnAck, FlowInv, Successes, Typed, Inv
<1>5. ClosedIsReal'
  BY ZenonT(60), <1>b DEF SendQos0, ClosedIsReal, CloseInv, Listening, SendFails, Typed, Inv
<1> QED
  BY ZenonT(60), <1>1, <1>2, <1>3, <1>4, <1>5 DEF Inv

LEMMA StartKeeps ==
  ASSUME MaxAllocs < IdSpace, NEW c \in Calls, NEW r \in AllRequests
  PROVE  Keeps(Start(c, r))
<1> SUFFICES ASSUME TypeInv, Inv, Start(c, r) PROVE Inv'
  BY ZenonT(60) DEF Keeps
<1> USE SMTT(120) DEF idVars, tableVars, peerVars, readerVars, channelVars
<1>b. Typed
  BY ZenonT(60), TypedInv
<1>d. /\ Incremented = pkt_counter + 1
      /\ NextPacketId = pkt_counter + 1
      /\ pkt_counter \in Nat
      /\ \A f \in Flows : id[f] # NextPacketId
  BY FreshId DEF Start, allocate_packet_id, TypeInv, TypeOK, Inv
<1>1. MatchInv' /\ FirstAckInv' /\ CloseInv' /\ ClosedIsReal'
  BY ZenonT(60), <1>b DEF Start, MatchInv, Listening, FirstAckInv, CloseInv,
     ClosedIsReal, Inv, Typed
<1>2. IdInv'
  BY <1>b, <1>d DEF Start, allocate_packet_id, IdInv, Typed, Inv
<1>3. FlowInv'
  BY ZenonT(60), <1>b, <1>d DEF Start, allocate_packet_id, FlowInv, Typed, Inv
<1>4. AckInv'
  BY ZenonT(60), <1>b, <1>d DEF Start, allocate_packet_id, AckInv, Genuine, Typed, Inv
<1>5. SlotInv'
  BY ZenonT(60), <1>b, <1>d DEF Start, allocate_packet_id, SlotInv, Listening, Typed, Inv
<1>6. FilledInv'
  BY ZenonT(60), <1>b, <1>d DEF Start, allocate_packet_id, FilledInv, Listening, Typed, Inv
<1>7. RecordInv'
  BY ZenonT(60), <1>b, <1>d DEF Start, allocate_packet_id, RecordInv, Typed, Inv
<1>8. SuccessIsOwnAck'
  BY ZenonT(60), <1>b, <1>d
     DEF Start, allocate_packet_id, SuccessIsOwnAck, FlowInv, Successes, Typed, Inv
<1>9. InflightUntilFlowEnds'
  BY <1>b DEF Start, allocate_packet_id, InflightUntilFlowEnds, Typed, Inv
<1> QED
  BY ZenonT(60), <1>1, <1>2, <1>3, <1>4, <1>5, <1>6, <1>7, <1>8, <1>9 DEF Inv

LEMMA StartFanoutKeeps ==
  ASSUME MaxAllocs < IdSpace, NEW f \in Fanouts, NEW r \in AllRequests
  PROVE  Keeps(StartFanout(f, r))
<1> SUFFICES ASSUME TypeInv, Inv, StartFanout(f, r) PROVE Inv'
  BY ZenonT(60) DEF Keeps
<1> USE SMTT(120) DEF idVars, tableVars, peerVars, readerVars, channelVars
<1>b. Typed
  BY ZenonT(60), TypedInv
<1>d. /\ Incremented = pkt_counter + 1
      /\ NextPacketId = pkt_counter + 1
      /\ pkt_counter \in Nat
      /\ \A g \in Flows : id[g] # NextPacketId
  BY FreshId DEF StartFanout, allocate_packet_id, TypeInv, TypeOK, Inv
<1>1. MatchInv' /\ FirstAckInv' /\ CloseInv' /\ ClosedIsReal'
  BY ZenonT(60), <1>b DEF StartFanout, MatchInv, Listening, FirstAckInv,
     CloseInv, ClosedIsReal, Inv, Typed
<1>2. IdInv'
  BY <1>b, <1>d DEF StartFanout, allocate_packet_id, IdInv, Typed, Inv
<1>3. FlowInv'
  BY ZenonT(60), <1>b, <1>d DEF StartFanout, allocate_packet_id, FlowInv, Typed, Inv
<1>4. AckInv'
  BY ZenonT(60), <1>b, <1>d DEF StartFanout, allocate_packet_id, AckInv, Genuine, Typed, Inv
<1>5. SlotInv'
  BY ZenonT(60), <1>b, <1>d DEF StartFanout, allocate_packet_id, SlotInv, Listening, Typed, Inv
<1>6. FilledInv'
  BY ZenonT(60), <1>b, <1>d DEF StartFanout, allocate_packet_id, FilledInv, Listening, Typed, Inv
<1>7. RecordInv'
  BY ZenonT(60), <1>b, <1>d DEF StartFanout, allocate_packet_id, RecordInv, Typed, Inv
<1>8. SuccessIsOwnAck'
  BY ZenonT(60), <1>b, <1>d DEF StartFanout, allocate_packet_id, SuccessIsOwnAck, Typed, Inv
<1>9. InflightUntilFlowEnds'
  BY <1>b DEF StartFanout, allocate_packet_id, InflightUntilFlowEnds, Typed, Inv
<1> QED
  BY ZenonT(60), <1>1, <1>2, <1>3, <1>4, <1>5, <1>6, <1>7, <1>8, <1>9 DEF Inv

--------------------------------------------------------------------------------
(* The send path preserves the invariant. *)

LEMMA ParkKeeps ==
  ASSUME NEW c \in Calls
  PROVE  Keeps(Park(c))
<1> SUFFICES ASSUME TypeInv, Inv, Park(c) PROVE Inv'
  BY ZenonT(60) DEF Keeps
<1> USE SMTT(120) DEF idVars, tableVars, peerVars, readerVars, channelVars
<1>b. Typed
  BY ZenonT(60), TypedInv
<1>1. IdInv' /\ AckInv'
  <2>1. IdInv'
    BY ZenonT(60) DEF Park, IdInv, Genuine, Inv
  <2>2. AckInv'
    BY ZenonT(60), <1>b DEF Park, AckInv, Genuine, Inv, Typed
  <2> QED
    BY ZenonT(60), <2>1, <2>2
<1>2. RecordInv' /\ ClosedIsReal' /\ InflightUntilFlowEnds'
  <2>1. RecordInv'
    BY ZenonT(60), <1>b DEF Park, RecordInv, Inv, Typed
  <2>2. ClosedIsReal'
    BY ZenonT(60) DEF Park, ClosedIsReal, Inv
  <2>3. InflightUntilFlowEnds'
    BY ZenonT(60), <1>b DEF Park, InflightUntilFlowEnds, Inv, Typed
  <2> QED
    BY ZenonT(60), <2>1, <2>2, <2>3
<1>3. FlowInv'
  BY <1>b, FirstAckKind DEF Park, ParkSlot, SlotsAt, Dropped, FlowInv, Typed, Inv
<1>4. SlotInv'
  <2>1. SlotsAt(id[c]) = {}
    BY <1>b DEF Park, SlotsAt, SlotInv, IdInv, Listening, Typed, Inv
  <2>2. Dropped(SlotsAt(id[c])) = rx
    BY ZenonT(60), <1>b, <2>1 DEF Dropped, Typed
  <2>3. /\ pending_acks' = pending_acks \cup {[id |-> id[c], kind |-> await'[c], waiter |-> c]}
        /\ rx' = [rx EXCEPT ![c] = "empty"]
    BY ZenonT(60), <1>b, <2>1, <2>2 DEF Park, ParkSlot, Typed
  <2>4. /\ pc' = [pc EXCEPT ![c] = pc'[c]] /\ pc'[c] \in {"parked", "waiting"}
        /\ await' = [await EXCEPT ![c] = await'[c]]
        /\ id' = id
    BY ZenonT(60), <1>b DEF Park, ParkSlot, Typed
  <2>5. \A s \in pending_acks : s.waiter # c
    BY ZenonT(60), <1>b, <2>1 DEF SlotsAt, SlotInv, Inv
  <2>6. ASSUME NEW s \in pending_acks'
        PROVE  /\ s.id = id'[s.waiter]
               /\ \/ Listening(s.waiter)' /\ rx'[s.waiter] = "empty" /\ s.kind = await'[s.waiter]
                  \/ pc'[s.waiter] \in {"expired", "done"}
    BY <1>b, <2>3, <2>4, <2>5 DEF SlotInv, Listening, Typed, Inv
  <2>7. ASSUME NEW d \in Calls, Listening(d)', rx'[d] = "empty"
        PROVE  \E s \in pending_acks' : s.waiter = d
    <3>1. CASE d = c
      <4> DEFINE slot == [id |-> id[c], kind |-> await'[c], waiter |-> c]
      <4>1. slot \in pending_acks' /\ slot.waiter = c
        BY ZenonT(60), <2>3
      <4> QED
        BY ZenonT(60), <3>1, <4>1
    <3>2. CASE d # c
      BY ZenonT(60), <1>b, <2>3, <2>4, <2>7, <3>2 DEF SlotInv, Listening, Typed, Inv
    <3> QED
      BY ZenonT(60), <3>1, <3>2
  <2> QED
    BY ZenonT(60), <2>6, <2>7 DEF SlotInv
<1>5. MatchInv'
  BY ZenonT(60), <1>b, FirstAckKind
     DEF Park, ParkSlot, SlotsAt, Dropped, MatchInv, Listening, Typed, Inv
<1>6. FilledInv'
  BY ZenonT(60), <1>b, FirstAckKind
     DEF Park, ParkSlot, SlotsAt, Dropped, FilledInv, Listening, Typed, Inv
<1>7. FirstAckInv'
  BY <1>b, FirstAckKind
     DEF Park, ParkSlot, SlotsAt, Dropped, FirstAckInv, Listening, SlotInv, AckInv,
         IdInv, Genuine, Typed, Inv
<1>8. CloseInv'
  BY <1>b, FirstAckKind
     DEF Park, ParkSlot, SlotsAt, Dropped, CloseInv, Listening, SlotInv, IdInv, Typed,
         Inv
<1>9. SuccessIsOwnAck'
  BY ZenonT(60), <1>b, FirstAckKind
     DEF Park, ParkSlot, SlotsAt, Dropped, SuccessIsOwnAck, FlowInv, Successes, Typed,
         Inv
<1> QED
  BY ZenonT(60), <1>1, <1>2, <1>3, <1>4, <1>5, <1>6, <1>7, <1>8, <1>9 DEF Inv

LEMMA SendRequestKeeps ==
  ASSUME NEW c \in Calls
  PROVE  Keeps(SendRequest(c))
<1> SUFFICES ASSUME TypeInv, Inv, SendRequest(c) PROVE Inv'
  BY ZenonT(60) DEF Keeps
<1> USE SMTT(120) DEF idVars, tableVars, peerVars, readerVars, channelVars
<1>b. Typed
  BY ZenonT(60), TypedInv
<1>1. IdInv' /\ SlotInv' /\ MatchInv'
  <2>1. IdInv'
    BY ZenonT(60) DEF SendRequest, IdInv, Listening, Inv
  <2>2. SlotInv'
    BY ZenonT(60), <1>b DEF SendRequest, SlotInv, Listening, Inv, Typed
  <2>3. MatchInv'
    BY ZenonT(60), <1>b DEF SendRequest, Listening, MatchInv, Inv, Typed
  <2> QED
    BY ZenonT(60), <2>1, <2>2, <2>3
<1>2. FilledInv' /\ FirstAckInv' /\ CloseInv' /\ RecordInv'
  <2>1. FilledInv'
    BY ZenonT(60), <1>b DEF SendRequest, FilledInv, Listening, Inv, Typed
  <2>2. FirstAckInv'
    BY ZenonT(60), <1>b DEF SendRequest, Listening, FirstAckInv, Inv, Typed
  <2>3. CloseInv'
    BY ZenonT(60), <1>b DEF SendRequest, Listening, CloseInv, Inv, Typed
  <2>4. RecordInv'
    BY ZenonT(60), <1>b DEF SendRequest, Listening, RecordInv, Inv, Typed
  <2> QED
    BY ZenonT(60), <2>1, <2>2, <2>3, <2>4
<1>3. FlowInv' /\ InflightUntilFlowEnds'
  <2>1. FlowInv'
    BY ZenonT(60), <1>b DEF SendRequest, FlowInv, Typed, Inv
  <2>2. InflightUntilFlowEnds'
    BY ZenonT(60), <1>b DEF SendRequest, InflightUntilFlowEnds, Typed, Inv
  <2> QED
    BY ZenonT(60), <2>1, <2>2
<1>4. AckInv'
  <2>1. \A f \in Flows : pc[f] \in {"waiting", "received", "expired", "done"} =>
          pc'[f] \in {"waiting", "received", "expired", "done"}
    BY ZenonT(60), <1>b DEF SendRequest, Typed
  <2>2. \A a \in sent' : a \in sent \/ Genuine(a)'
    BY <1>b DEF SendRequest, SendFails, Enqueue, Genuine, Typed
  <2> QED
    BY ZenonT(60), <1>b, <2>1, <2>2, AckFrame DEF SendRequest, Inv
<1>5. SuccessIsOwnAck'
  BY ZenonT(60), <1>b DEF SendRequest, SuccessIsOwnAck, FlowInv, Successes, Typed, Inv
<1>6. ClosedIsReal'
  BY ZenonT(60), <1>b DEF SendRequest, ClosedIsReal, CloseInv, Listening, SendFails, Typed, Inv
<1> QED
  BY ZenonT(60), <1>1, <1>2, <1>3, <1>4, <1>5, <1>6 DEF Inv

LEMMA ReceivedKeeps ==
  ASSUME NEW c \in Calls
  PROVE  Keeps(Received(c))
<1> SUFFICES ASSUME TypeInv, Inv, Received(c) PROVE Inv'
  BY ZenonT(60) DEF Keeps
<1> USE SMTT(120) DEF idVars, tableVars, peerVars, readerVars, channelVars
<1>b. Typed
  BY ZenonT(60), TypedInv
<1>1. IdInv'
  BY ZenonT(60) DEF Received, IdInv, Inv
<1>2. /\ SlotInv' /\ MatchInv' /\ FilledInv' /\ FirstAckInv' /\ CloseInv'
      /\ RecordInv' /\ InflightUntilFlowEnds'
  <2>1. SlotInv'
    BY <1>b DEF Received, SlotInv, Listening, Typed, Inv
  <2>2. MatchInv'
    BY ZenonT(60), <1>b DEF Received, Listening, MatchInv, Typed, Inv
  <2>3. FilledInv'
    BY ZenonT(60), <1>b DEF Received, Listening, FilledInv, Typed, Inv
  <2>4. FirstAckInv'
    BY ZenonT(60), <1>b DEF Received, Listening, FirstAckInv, Typed, Inv
  <2>5. CloseInv'
    BY ZenonT(60), <1>b DEF Received, Listening, CloseInv, Typed, Inv
  <2>6. RecordInv'
    BY ZenonT(60), <1>b DEF Received, Listening, RecordInv, Typed, Inv
  <2>7. InflightUntilFlowEnds'
    BY ZenonT(60), <1>b DEF Received, Listening, InflightUntilFlowEnds, Typed, Inv
  <2> QED
    BY ZenonT(60), <2>1, <2>2, <2>3, <2>4, <2>5, <2>6, <2>7
<1>3. FlowInv'
  BY <1>b, FirstAckKind DEF Received, FlowInv, Typed, Inv
<1>4. AckInv'
  <2>1. \A f \in Flows : pc[f] \in {"waiting", "received", "expired", "done"} =>
          pc'[f] \in {"waiting", "received", "expired", "done"}
    BY ZenonT(60), <1>b DEF Received, Typed
  <2> QED
    BY ZenonT(60), <1>b, <2>1, AckFrame DEF Received, Inv
<1>5. SuccessIsOwnAck'
  <2>1. await[c] # "Pubrec" =>
          await[c] = (IF req[c] = "publish2" THEN "Pubcomp" ELSE FirstAck(req[c]))
    BY ZenonT(60), <1>b, FirstAckKind DEF Received, FlowInv, Typed, Inv
  <2>2. woken_by[c] = {[id |-> id[c], kind |-> await[c], of |-> c]}
    BY ZenonT(60) DEF Received, FilledInv, Listening, Inv
  <2> QED
    BY ZenonT(60), <1>b, <2>1, <2>2 DEF Received, SuccessIsOwnAck, FlowInv, Successes, Typed, Inv
<1>6. ClosedIsReal'
  BY <1>b, OutcomeKind DEF Received, ClosedIsReal, Typed, Successes, Inv
<1> QED
  BY ZenonT(60), <1>1, <1>2, <1>3, <1>4, <1>5, <1>6 DEF Inv

LEMMA ParkPubcompKeeps ==
  ASSUME NEW c \in Calls
  PROVE  Keeps(ParkPubcomp(c))
<1> SUFFICES ASSUME TypeInv, Inv, ParkPubcomp(c) PROVE Inv'
  BY ZenonT(60) DEF Keeps
<1> USE SMTT(120) DEF idVars, tableVars, peerVars, readerVars, channelVars
<1>b. Typed
  BY ZenonT(60), TypedInv
<1>1. IdInv' /\ AckInv' /\ RecordInv' /\ ClosedIsReal'
  <2>1. IdInv'
    BY ZenonT(60) DEF ParkPubcomp, IdInv, Genuine, Inv
  <2>2. AckInv'
    BY ZenonT(60), <1>b DEF ParkPubcomp, AckInv, Genuine, Inv, Typed
  <2>3. RecordInv'
    BY ZenonT(60), <1>b DEF ParkPubcomp, Genuine, RecordInv, Inv, Typed
  <2>4. ClosedIsReal'
    BY ZenonT(60) DEF ParkPubcomp, Genuine, ClosedIsReal, Inv
  <2> QED
    BY ZenonT(60), <2>1, <2>2, <2>3, <2>4
<1>2. InflightUntilFlowEnds'
  BY ZenonT(60), <1>b DEF ParkPubcomp, InflightUntilFlowEnds, Typed, Inv
<1>3. FlowInv'
  BY ZenonT(60), <1>b DEF ParkPubcomp, ParkSlot, SlotsAt, Dropped, FlowInv, Typed, Inv
<1>4. SlotInv'
  <2>1. SlotsAt(id[c]) = {}
    BY <1>b DEF ParkPubcomp, SlotsAt, SlotInv, IdInv, Listening, Typed, Inv
  <2>2. Dropped(SlotsAt(id[c])) = rx
    BY ZenonT(60), <1>b, <2>1 DEF Dropped, Typed
  <2>3. /\ pending_acks' = pending_acks \cup {[id |-> id[c], kind |-> await'[c], waiter |-> c]}
        /\ rx' = [rx EXCEPT ![c] = "empty"]
    BY ZenonT(60), <1>b, <2>1, <2>2 DEF ParkPubcomp, ParkSlot, Typed
  <2>4. /\ pc' = [pc EXCEPT ![c] = pc'[c]] /\ pc'[c] \in {"parked", "waiting"}
        /\ await' = [await EXCEPT ![c] = await'[c]]
        /\ id' = id
    BY ZenonT(60), <1>b DEF ParkPubcomp, ParkSlot, Typed
  <2>5. \A s \in pending_acks : s.waiter # c
    BY ZenonT(60), <1>b, <2>1 DEF SlotsAt, SlotInv, Inv
  <2>6. ASSUME NEW s \in pending_acks'
        PROVE  /\ s.id = id'[s.waiter]
               /\ \/ Listening(s.waiter)' /\ rx'[s.waiter] = "empty" /\ s.kind = await'[s.waiter]
                  \/ pc'[s.waiter] \in {"expired", "done"}
    BY <1>b, <2>3, <2>4, <2>5 DEF SlotInv, Listening, Typed, Inv
  <2>7. ASSUME NEW d \in Calls, Listening(d)', rx'[d] = "empty"
        PROVE  \E s \in pending_acks' : s.waiter = d
    <3>1. CASE d = c
      <4> DEFINE slot == [id |-> id[c], kind |-> await'[c], waiter |-> c]
      <4>1. slot \in pending_acks' /\ slot.waiter = c
        BY ZenonT(60), <2>3
      <4> QED
        BY ZenonT(60), <3>1, <4>1
    <3>2. CASE d # c
      BY ZenonT(60), <1>b, <2>3, <2>4, <2>7, <3>2 DEF SlotInv, Listening, Typed, Inv
    <3> QED
      BY ZenonT(60), <3>1, <3>2
  <2> QED
    BY ZenonT(60), <2>6, <2>7 DEF SlotInv
<1>5. MatchInv'
  BY ZenonT(60), <1>b DEF ParkPubcomp, ParkSlot, SlotsAt, Dropped, MatchInv, Listening, Typed, Inv
<1>6. FilledInv'
  BY ZenonT(60), <1>b
     DEF ParkPubcomp, ParkSlot, SlotsAt, Dropped, FilledInv, Listening, Typed, Inv
<1>7. FirstAckInv'
  BY ZenonT(60), <1>b
     DEF ParkPubcomp, ParkSlot, SlotsAt, Dropped, FirstAckInv, Listening, Typed, Inv
<1>8. CloseInv'
  BY <1>b
     DEF ParkPubcomp, ParkSlot, SlotsAt, Dropped, CloseInv, Listening, SlotInv, IdInv,
         Typed, Inv
<1>9. SuccessIsOwnAck'
  BY ZenonT(60), <1>b
     DEF ParkPubcomp, ParkSlot, SlotsAt, Dropped, SuccessIsOwnAck, FlowInv, Successes,
         Typed, Inv
<1> QED
  BY ZenonT(60), <1>1, <1>2, <1>3, <1>4, <1>5, <1>6, <1>7, <1>8, <1>9 DEF Inv

LEMMA SenderDroppedKeeps ==
  ASSUME NEW c \in Calls
  PROVE  Keeps(SenderDropped(c))
<1> SUFFICES ASSUME TypeInv, Inv, SenderDropped(c) PROVE Inv'
  BY ZenonT(60) DEF Keeps
<1> USE SMTT(120) DEF idVars, tableVars, peerVars, readerVars, channelVars
<1>b. Typed
  BY ZenonT(60), TypedInv
<1>1. IdInv' /\ AckInv' /\ SlotInv' /\ MatchInv'
  <2>1. IdInv'
    BY ZenonT(60) DEF SenderDropped, IdInv, Genuine, Listening, Inv
  <2>2. AckInv'
    BY ZenonT(60), <1>b DEF SenderDropped, AckInv, Genuine, Listening, Inv, Typed
  <2>3. SlotInv'
    BY ZenonT(60), <1>b DEF SenderDropped, Genuine, SlotInv, Listening, Inv,
       Typed
  <2>4. MatchInv'
    BY ZenonT(60), <1>b DEF SenderDropped, Genuine, Listening, MatchInv, Inv,
       Typed
  <2> QED
    BY ZenonT(60), <2>1, <2>2, <2>3, <2>4
<1>2. FilledInv' /\ FirstAckInv' /\ CloseInv' /\ RecordInv'
  <2>1. FilledInv'
    BY ZenonT(60), <1>b DEF SenderDropped, FilledInv, Listening, Inv, Typed
  <2>2. FirstAckInv'
    BY ZenonT(60), <1>b DEF SenderDropped, Listening, FirstAckInv, Inv, Typed
  <2>3. CloseInv'
    BY ZenonT(60) DEF SenderDropped, Listening, CloseInv, Inv
  <2>4. RecordInv'
    BY ZenonT(60), <1>b DEF SenderDropped, Listening, RecordInv, Inv, Typed
  <2> QED
    BY ZenonT(60), <2>1, <2>2, <2>3, <2>4
<1>3. FlowInv' /\ InflightUntilFlowEnds'
  <2>1. FlowInv'
    BY ZenonT(60), <1>b DEF SenderDropped, FlowInv, Typed, Inv
  <2>2. InflightUntilFlowEnds'
    BY ZenonT(60), <1>b DEF SenderDropped, InflightUntilFlowEnds, Typed, Inv
  <2> QED
    BY ZenonT(60), <2>1, <2>2
<1>4. SuccessIsOwnAck'
  BY ZenonT(60), <1>b DEF SenderDropped, SuccessIsOwnAck, FlowInv, Successes, Typed, Inv
<1>5. ClosedIsReal'
  BY ZenonT(60), <1>b DEF SenderDropped, ClosedIsReal, CloseInv, Listening, SendFails, Typed, Inv
<1> QED
  BY ZenonT(60), <1>1, <1>2, <1>3, <1>4, <1>5 DEF Inv

LEMMA PollExpiresKeeps ==
  ASSUME NEW c \in Calls
  PROVE  Keeps(PollExpires(c))
<1> SUFFICES ASSUME TypeInv, Inv, PollExpires(c) PROVE Inv'
  BY ZenonT(60) DEF Keeps
<1> USE DEF idVars, tableVars, peerVars, readerVars, channelVars, callVars
<1>b. Typed
  BY ZenonT(60), TypedInv
<1>1. IdInv' /\ RecordInv' /\ ClosedIsReal' /\ SuccessIsOwnAck'
  BY ZenonT(60), <1>b
     DEF PollExpires, IdInv, RecordInv, ClosedIsReal, SuccessIsOwnAck, Typed, Inv
<1>2. AckInv'
  <2>1. \A f \in Flows : pc[f] \in {"waiting", "received", "expired", "done"} =>
          pc'[f] \in {"waiting", "received", "expired", "done"}
    BY ZenonT(60), <1>b DEF PollExpires, Typed
  <2> QED
    BY ZenonT(60), <1>b, <2>1, AckFrame DEF PollExpires, Inv
<1>3. FlowInv'
  BY ZenonT(60), <1>b DEF PollExpires, FlowInv, Typed, Inv
<1>4. InflightUntilFlowEnds'
  BY ZenonT(60), <1>b DEF PollExpires, InflightUntilFlowEnds, Typed, Inv
<1>5. SlotInv'
  BY ZenonT(60), <1>b DEF PollExpires, SlotInv, Listening, Typed, Inv
<1>6. MatchInv'
  BY ZenonT(60), <1>b DEF PollExpires, MatchInv, Listening, Typed, Inv
<1>7. FilledInv' /\ FirstAckInv'
  BY ZenonT(60), <1>b DEF PollExpires, FilledInv, FirstAckInv, Listening, Typed, Inv
<1>8. CloseInv'
  BY ZenonT(60), <1>b DEF PollExpires, CloseInv, Listening, Typed, Inv
<1> QED
  BY ZenonT(60), <1>1, <1>2, <1>3, <1>4, <1>5, <1>6, <1>7, <1>8 DEF Inv

LEMMA AckTimeoutKeeps ==
  ASSUME NEW c \in Calls
  PROVE  Keeps(AckTimeout(c))
<1> SUFFICES ASSUME TypeInv, Inv, AckTimeout(c) PROVE Inv'
  BY ZenonT(60) DEF Keeps
<1> USE SMTT(120) DEF idVars, tableVars, peerVars, readerVars, channelVars
<1>b. Typed
  BY ZenonT(60), TypedInv
<1>1. IdInv' /\ RecordInv' /\ ClosedIsReal'
  BY ZenonT(60), <1>b DEF AckTimeout, IdInv, RecordInv, ClosedIsReal, Typed, Inv
<1>a. AckInv'
  <2>1. \A f \in Flows : pc[f] \in {"waiting", "received", "expired", "done"} =>
          pc'[f] \in {"waiting", "received", "expired", "done"}
    BY ZenonT(60), <1>b DEF AckTimeout, Typed
  <2> QED
    BY ZenonT(60), <1>b, <2>1, AckFrame DEF AckTimeout, Inv
<1>2. FlowInv' /\ InflightUntilFlowEnds'
  <2>1. FlowInv'
    BY ZenonT(60), <1>b DEF AckTimeout, FlowInv, Typed, Inv
  <2>2. InflightUntilFlowEnds'
    BY ZenonT(60), <1>b DEF AckTimeout, InflightUntilFlowEnds, Typed, Inv
  <2> QED
    BY ZenonT(60), <2>1, <2>2
<1>3. SlotInv'
  BY <1>b DEF AckTimeout, SlotsAt, Dropped, SlotInv, Listening, Typed, Inv
<1>4. MatchInv'
  BY ZenonT(60), <1>b DEF AckTimeout, SlotsAt, Dropped, MatchInv, Listening, Typed, Inv
<1>5. FilledInv'
  BY ZenonT(60), <1>b DEF AckTimeout, SlotsAt, Dropped, FilledInv, Listening, Typed, Inv
<1>6. FirstAckInv'
  BY ZenonT(60), <1>b DEF AckTimeout, SlotsAt, Dropped, FirstAckInv, Listening, Typed, Inv
<1>7. CloseInv'
  BY <1>b
     DEF AckTimeout, SlotsAt, Dropped, CloseInv, Listening, SlotInv, IdInv, Typed,
         Inv
<1>8. SuccessIsOwnAck'
  BY ZenonT(60), <1>b DEF AckTimeout, SuccessIsOwnAck, FlowInv, Successes, Typed, Inv
<1> QED
  BY ZenonT(60), <1>a, <1>1, <1>2, <1>3, <1>4, <1>5, <1>6, <1>7, <1>8 DEF Inv

--------------------------------------------------------------------------------
(* Fanouts and the reader preserve it, and what follows. *)

LEMMA DeliverFanoutKeeps ==
  ASSUME NEW f \in Fanouts
  PROVE  Keeps(DeliverFanout(f))
<1> SUFFICES ASSUME TypeInv, Inv, DeliverFanout(f) PROVE Inv'
  BY ZenonT(60) DEF Keeps
<1> USE SMTT(120) DEF idVars, tableVars, peerVars, readerVars, channelVars
<1>b. Typed
  BY ZenonT(60), TypedInv
<1>1. IdInv' /\ FlowInv' /\ SlotInv' /\ MatchInv'
  <2>1. IdInv'
    BY ZenonT(60) DEF DeliverFanout, callVars, IdInv, Listening, Inv
  <2>2. FlowInv'
    BY ZenonT(60), <1>b DEF DeliverFanout, callVars, FlowInv, Listening, Inv,
       Typed
  <2>3. SlotInv'
    BY ZenonT(60), <1>b DEF DeliverFanout, callVars, SlotInv, Listening, Inv,
       Typed
  <2>4. MatchInv'
    BY ZenonT(60), <1>b DEF DeliverFanout, callVars, Listening, MatchInv, Inv,
       Typed
  <2> QED
    BY ZenonT(60), <2>1, <2>2, <2>3, <2>4
<1>2. FilledInv' /\ CloseInv' /\ SuccessIsOwnAck' /\ ClosedIsReal'
  <2>1. FilledInv'
    BY ZenonT(60), <1>b DEF DeliverFanout, callVars, FilledInv, Listening, Inv,
       Typed
  <2>2. CloseInv'
    BY ZenonT(60), <1>b DEF DeliverFanout, callVars, Listening, CloseInv, Inv,
       Typed
  <2>3. SuccessIsOwnAck'
    BY ZenonT(60) DEF DeliverFanout, callVars, Listening, SuccessIsOwnAck, Inv
  <2>4. ClosedIsReal'
    BY ZenonT(60) DEF DeliverFanout, callVars, Listening, ClosedIsReal, Inv
  <2> QED
    BY ZenonT(60), <2>1, <2>2, <2>3, <2>4
<1>3. AckInv'
  <2>1. /\ pc' = [pc EXCEPT ![f] = "done"] /\ id' = id
        /\ acks' = acks /\ dispatched' = dispatched /\ handling' = handling
        /\ \A a \in sent' : a \in sent \/ (a.id = id[f] /\ a.of = f)
    BY DEF DeliverFanout, callVars, Enqueue
  <2>2. \A g \in Flows : pc[g] \in {"waiting", "received", "expired", "done"} =>
          pc'[g] \in {"waiting", "received", "expired", "done"}
    BY ZenonT(60), <1>b, <2>1 DEF Typed
  <2>3. \A a \in sent' : a \in sent \/ Genuine(a)'
    BY ZenonT(60), <1>b, <2>1 DEF Genuine, Typed
  <2> QED
    BY ZenonT(60), <1>b, <2>1, <2>2, <2>3, AckFrame DEF Inv
<1>4. FirstAckInv'
  BY ZenonT(60), <1>b DEF DeliverFanout, callVars, FirstAckInv, Listening, Typed, Inv
<1>5. RecordInv'
  <2>1. /\ pc' = [pc EXCEPT ![f] = "done"] /\ id' = id
        /\ \A t \in outbound_inflight' : t \in outbound_inflight \/ (t.id = id[f] /\ t.flow = f)
    BY DEF DeliverFanout, callVars
  <2>2. RecordInv
    BY ZenonT(60) DEF Inv
  <2> QED
    BY ZenonT(60), <1>b, <2>1, <2>2 DEF RecordInv, Typed
<1>6. InflightUntilFlowEnds'
  <2> SUFFICES ASSUME open', NEW g \in Fanouts, pc'[g] = "done"
               PROVE  [id |-> id[g], flow |-> g] \in outbound_inflight'
                        <=> ~ \E a \in dispatched : a.of = g /\ a.kind \in {"Puback", "Pubcomp"}
    BY ZenonT(60) DEF DeliverFanout, callVars, InflightUntilFlowEnds
  <2>1. CASE g = f
    <3>1. \A a \in dispatched : a.of # f
      BY ZenonT(60) DEF DeliverFanout, callVars, AckInv, Genuine, Inv
    <3> QED
      BY ZenonT(60), <2>1, <3>1 DEF DeliverFanout, callVars
  <2>2. CASE g # f
    <3>1. id[g] # id[f] /\ pc[g] = "done"
      BY ZenonT(60), <1>b, <2>2 DEF DeliverFanout, callVars, IdInv, Typed, Inv
    <3> QED
      BY ZenonT(60), <2>2, <3>1 DEF DeliverFanout, callVars, InflightUntilFlowEnds, Inv
  <2> QED
    BY ZenonT(60), <2>1, <2>2
<1> QED
  BY ZenonT(60), <1>1, <1>2, <1>3, <1>4, <1>5, <1>6 DEF Inv

LEMMA ReadAckKeeps ==
  ASSUME NEW a \in acks
  PROVE  Keeps(ReadAck(a))
<1> SUFFICES ASSUME TypeInv, Inv, ReadAck(a) PROVE Inv'
  BY ZenonT(60) DEF Keeps
<1> USE SMTT(120) DEF idVars, tableVars, peerVars, readerVars, channelVars
<1>b. Typed
  BY ZenonT(60), TypedInv
<1>1. IdInv' /\ FlowInv' /\ SlotInv'
  <2>1. IdInv'
    BY ZenonT(60) DEF ReadAck, callVars, IdInv, Listening, Inv
  <2>2. FlowInv'
    BY ZenonT(60) DEF ReadAck, callVars, FlowInv, Listening, Inv
  <2>3. SlotInv'
    BY ZenonT(60) DEF ReadAck, callVars, SlotInv, Listening, Inv
  <2> QED
    BY ZenonT(60), <2>1, <2>2, <2>3
<1>2. FilledInv' /\ CloseInv' /\ RecordInv'
  <2>1. FilledInv'
    BY ZenonT(60) DEF ReadAck, callVars, FilledInv, Listening, Inv
  <2>2. CloseInv'
    BY ZenonT(60) DEF ReadAck, callVars, Listening, CloseInv, Inv
  <2>3. RecordInv'
    BY ZenonT(60) DEF ReadAck, callVars, Listening, RecordInv, Inv
  <2> QED
    BY ZenonT(60), <2>1, <2>2, <2>3
<1>3. SuccessIsOwnAck' /\ ClosedIsReal' /\ InflightUntilFlowEnds'
  <2>1. SuccessIsOwnAck'
    BY ZenonT(60) DEF ReadAck, callVars, SuccessIsOwnAck, Inv
  <2>2. ClosedIsReal'
    BY ZenonT(60) DEF ReadAck, callVars, ClosedIsReal, Inv
  <2>3. InflightUntilFlowEnds'
    BY ZenonT(60) DEF ReadAck, callVars, InflightUntilFlowEnds, Inv
  <2> QED
    BY ZenonT(60), <2>1, <2>2, <2>3
<1>4. AckInv'
  <2>1. \A h \in handling' : h.ack = a
    BY DEF ReadAck, callVars
  <2> QED
    BY ZenonT(60), <2>1 DEF ReadAck, callVars, AckInv, Genuine, Inv
<1>5. MatchInv'
  <2> SUFFICES ASSUME NEW h \in handling', h.stage = "matched"
               PROVE  /\ h.ack.of \in Calls
                      /\ \/ pc[h.ack.of] \in {"expired", "done"}
                         \/ /\ Listening(h.ack.of)
                            /\ rx[h.ack.of] # "value"
                            /\ await[h.ack.of] = h.ack.kind
    BY ZenonT(60) DEF ReadAck, callVars, MatchInv, Listening
  <2>1. h.ack = a
    BY DEF ReadAck, callVars
  <2>2. PICK s \in pending_acks : s.id = a.id /\ s.kind = a.kind
    BY DEF ReadAck, callVars, SlotsAt
  <2>3. s.waiter = a.of
    BY <1>b, <2>2 DEF SlotInv, AckInv, Genuine, IdInv, Typed, Inv
  <2> QED
    BY ZenonT(60), <1>b, <2>1, <2>2, <2>3 DEF SlotInv, Typed, Inv
<1>6. FirstAckInv'
  <2> SUFFICES ASSUME NEW c \in Calls, Listening(c), rx[c] = "empty", await[c] # "Pubcomp"
               PROVE  /\ \A b \in dispatched : b.of = c => b.kind # await[c]
                      /\ \A h \in handling' : (h.ack.of = c /\ h.ack.kind = await[c])
                           => h.stage = "matched"
    BY ZenonT(60) DEF ReadAck, callVars, FirstAckInv, Listening
  <2>1. (a.of = c /\ a.kind = await[c]) => \E s \in SlotsAt(a.id) : s.kind = a.kind
    BY <1>b DEF SlotsAt, SlotInv, AckInv, Genuine, Listening, Inv
  <2> QED
    BY <2>1 DEF ReadAck, callVars, FirstAckInv, Inv
<1> QED
  BY ZenonT(60), <1>1, <1>2, <1>3, <1>4, <1>5, <1>6 DEF Inv

LEMMA WakeWaiterKeeps ==
  ASSUME NEW h \in handling
  PROVE  Keeps(WakeWaiter(h))
<1> SUFFICES ASSUME TypeInv, Inv, WakeWaiter(h) PROVE Inv'
  BY ZenonT(60) DEF Keeps
<1> USE SMTT(120) DEF idVars, tableVars, peerVars, readerVars, channelVars
<1>b. Typed
  BY ZenonT(60), TypedInv
<1>u. \A s, t \in pending_acks : s.id = t.id => s = t
  BY ZenonT(60) DEF TypeInv, TypeOK
<1>w. \A c \in Calls :
        IF Listening(c) /\ \E s \in Taken(h.ack) : s.waiter = c
          THEN rx'[c] = "value" /\ woken_by'[c] = {h.ack}
          ELSE rx'[c] = rx[c] /\ woken_by'[c] = woken_by[c]
  BY ZenonT(60) DEF WakeWaiter
<1>1. IdInv' /\ FlowInv'
  BY ZenonT(60) DEF WakeWaiter, IdInv, FlowInv, Inv
<1>2. RecordInv' /\ ClosedIsReal' /\ InflightUntilFlowEnds'
  <2>1. RecordInv'
    BY ZenonT(60) DEF WakeWaiter, RecordInv, Inv
  <2>2. ClosedIsReal'
    BY ZenonT(60) DEF WakeWaiter, ClosedIsReal, Inv
  <2>3. InflightUntilFlowEnds'
    BY ZenonT(60) DEF WakeWaiter, InflightUntilFlowEnds, Inv
  <2> QED
    BY ZenonT(60), <2>1, <2>2, <2>3
<1>3. AckInv'
  <2>1. \A g \in handling' : g.ack = h.ack
    BY DEF WakeWaiter
  <2> QED
    BY ZenonT(60), <2>1 DEF WakeWaiter, AckInv, Genuine, Inv
<1>4. SlotInv'
  <2> SUFFICES /\ \A s \in pending_acks' :
                    /\ s.id = id[s.waiter]
                    /\ \/ Listening(s.waiter) /\ rx'[s.waiter] = "empty" /\ s.kind = await[s.waiter]
                       \/ pc[s.waiter] \in {"expired", "done"}
               /\ \A c \in Calls : (Listening(c) /\ rx'[c] = "empty") =>
                    \E s \in pending_acks' : s.waiter = c
    BY ZenonT(60) DEF WakeWaiter, SlotInv, Listening
  <2>1. \A s \in pending_acks' : rx'[s.waiter] = rx[s.waiter]
    <3> SUFFICES ASSUME NEW s \in pending_acks, s \notin Taken(h.ack), NEW t \in Taken(h.ack), t.waiter = s.waiter
                 PROVE  FALSE
      BY ZenonT(60), <1>b, <1>w DEF WakeWaiter, Typed
    <3> QED
      BY <1>u DEF SlotInv, Taken, SlotsAt, Inv
  <2> QED
    BY ZenonT(60), <1>b, <1>w, <2>1 DEF WakeWaiter, SlotInv, Typed, Inv
<1>5. MatchInv'
  BY DEF WakeWaiter, MatchInv
<1>6. FilledInv'
  <2> SUFFICES ASSUME NEW c \in Calls, Listening(c), rx'[c] = "value"
               PROVE  woken_by'[c] = {[id |-> id[c], kind |-> await[c], of |-> c]}
    BY ZenonT(60) DEF WakeWaiter, FilledInv, Listening
  <2>1. CASE \E s \in Taken(h.ack) : s.waiter = c
    <3>1. c = h.ack.of /\ h.ack.id = id[c]
      <4>1. PICK s \in pending_acks : s.waiter = c /\ s.id = h.ack.id
        BY ZenonT(60), <2>1 DEF Taken, SlotsAt
      <4>2. h.ack.id = id[h.ack.of] /\ h.ack.id # 0 /\ h.ack.of \in Flows
        BY ZenonT(60), <1>b DEF AckInv, Genuine, Typed, Inv
      <4>3. s.id = id[c]
        BY ZenonT(60), <4>1 DEF SlotInv, Inv
      <4> QED
        BY ZenonT(60), <1>b, <4>1, <4>2, <4>3 DEF IdInv, Typed, Inv
    <3>2. await[c] = h.ack.kind
      BY ZenonT(60), <3>1 DEF WakeWaiter, MatchInv, Listening, Inv
    <3> QED
      BY ZenonT(60), <1>b, <1>w, <2>1, <3>1, <3>2 DEF Typed
  <2>2. CASE ~ \E s \in Taken(h.ack) : s.waiter = c
    BY ZenonT(60), <1>w, <2>2 DEF FilledInv, Inv
  <2> QED
    BY ZenonT(60), <2>1, <2>2
<1>7. FirstAckInv'
  <2> SUFFICES ASSUME NEW c \in Calls, Listening(c), rx'[c] = "empty", await[c] # "Pubcomp"
               PROVE  /\ \A b \in dispatched : b.of = c => b.kind # await[c]
                      /\ \A g \in handling' : ~ (g.ack.of = c /\ g.ack.kind = await[c])
    BY ZenonT(60) DEF WakeWaiter, FirstAckInv, Listening
  <2>1. rx[c] = "empty" /\ ~ \E s \in Taken(h.ack) : s.waiter = c
    BY ZenonT(60), <1>w
  <2>2. ~ (h.ack.of = c /\ h.ack.kind = await[c])
    BY <1>b, <2>1
       DEF SlotInv, AckInv, Genuine, Taken, SlotsAt, Accepts, Listening, Typed, Inv
  <2> QED
    BY <2>1, <2>2 DEF WakeWaiter, FirstAckInv, Inv
<1>8. CloseInv'
  BY ZenonT(60), <1>w DEF WakeWaiter, CloseInv, Listening, Inv
<1>9. SuccessIsOwnAck'
  <2>1. \A c \in Calls : result[c] \in Successes => woken_by'[c] = woken_by[c]
    BY ZenonT(60), <1>w DEF FlowInv, Listening, Successes, Inv
  <2> QED
    BY ZenonT(60), <2>1 DEF WakeWaiter, SuccessIsOwnAck, Inv
<1> QED
  BY ZenonT(60), <1>1, <1>2, <1>3, <1>4, <1>5, <1>6, <1>7, <1>8, <1>9 DEF Inv

LEMMA FinishDispatchKeeps ==
  ASSUME NEW h \in handling
  PROVE  Keeps(FinishDispatch(h))
<1> SUFFICES ASSUME TypeInv, Inv, FinishDispatch(h) PROVE Inv'
  BY ZenonT(60) DEF Keeps
<1> USE SMTT(120) DEF idVars, tableVars, peerVars, readerVars, channelVars
<1>b. Typed
  BY ZenonT(60), TypedInv
<1>1. IdInv' /\ FlowInv' /\ SlotInv'
  <2>1. IdInv'
    BY ZenonT(60) DEF FinishDispatch, callVars, IdInv, Listening, Inv
  <2>2. FlowInv'
    BY ZenonT(60) DEF FinishDispatch, callVars, FlowInv, Listening, Inv
  <2>3. SlotInv'
    BY ZenonT(60) DEF FinishDispatch, callVars, SlotInv, Listening, Inv
  <2> QED
    BY ZenonT(60), <2>1, <2>2, <2>3
<1>2. MatchInv' /\ FilledInv' /\ CloseInv'
  BY ZenonT(60) DEF FinishDispatch, callVars, MatchInv, Listening, FilledInv, CloseInv, Inv
<1>3. RecordInv' /\ SuccessIsOwnAck' /\ ClosedIsReal'
  BY ZenonT(60) DEF FinishDispatch, callVars, RecordInv, SuccessIsOwnAck, ClosedIsReal, Inv
<1>4. AckInv'
  <2>1. Genuine(h.ack)
    BY ZenonT(60) DEF AckInv, Inv
  <2>2. \A a \in sent' : Genuine(a)
    BY <2>1 DEF FinishDispatch, callVars, Enqueue, AckInv, Genuine, Inv
  <2>3. \A a \in dispatched' : Genuine(a)
    BY ZenonT(60), <2>1 DEF FinishDispatch, callVars, AckInv, Inv
  <2> QED
    BY ZenonT(60), <2>2, <2>3 DEF FinishDispatch, callVars, AckInv, Genuine, Inv
<1>5. FirstAckInv'
  <2> SUFFICES ASSUME NEW c \in Calls, Listening(c), rx[c] = "empty", await[c] # "Pubcomp"
               PROVE  \A b \in dispatched' : b.of = c => b.kind # await[c]
    BY ZenonT(60) DEF FinishDispatch, callVars, FirstAckInv, Listening
  <2> QED
    BY ZenonT(60) DEF FinishDispatch, callVars, FirstAckInv, Inv
<1>6. InflightUntilFlowEnds'
  <2> SUFFICES ASSUME open, NEW g \in Fanouts, pc[g] = "done"
               PROVE  [id |-> id[g], flow |-> g] \in outbound_inflight'
                        <=> ~ \E a \in dispatched' : a.of = g /\ a.kind \in {"Puback", "Pubcomp"}
    BY ZenonT(60) DEF FinishDispatch, callVars, InflightUntilFlowEnds
  <2>0. [id |-> id[g], flow |-> g] \in outbound_inflight
          <=> ~ \E a \in dispatched : a.of = g /\ a.kind \in {"Puback", "Pubcomp"}
    BY ZenonT(60) DEF InflightUntilFlowEnds, Inv
  <2>1. dispatched' = dispatched \cup {h.ack}
    BY ZenonT(60) DEF FinishDispatch, callVars
  <2>2. [id |-> id[g], flow |-> g] \in outbound_inflight'
          <=> /\ [id |-> id[g], flow |-> g] \in outbound_inflight
              /\ ~ (h.ack.kind \in {"Puback", "Pubcomp"} /\ id[g] = h.ack.id)
    BY ZenonT(60) DEF FinishDispatch, callVars, EndsFlow
  <2>3. id[g] = h.ack.id <=> h.ack.of = g
    <3>1. h.ack.id = id[h.ack.of] /\ h.ack.id # 0 /\ h.ack.of \in Flows
      BY ZenonT(60), <1>b DEF AckInv, Genuine, Typed, Inv
    <3>2. g \in Flows
      BY ZenonT(60), <1>b DEF Typed
    <3> QED
      BY ZenonT(60), <3>1, <3>2 DEF IdInv, Inv
  <2> QED
    BY ZenonT(60), <2>0, <2>1, <2>2, <2>3
<1> QED
  BY ZenonT(60), <1>1, <1>2, <1>3, <1>4, <1>5, <1>6 DEF Inv

LEMMA abandonKeeps ==
  Keeps(abandon)
<1> SUFFICES ASSUME TypeInv, Inv, abandon PROVE Inv'
  BY ZenonT(60) DEF Keeps
<1> USE SMTT(120) DEF idVars, tableVars, peerVars, readerVars, channelVars
<1>b. Typed
  BY ZenonT(60), TypedInv
<1>1. IdInv' /\ FlowInv' /\ AckInv'
  BY ZenonT(60) DEF abandon, callVars, IdInv, FlowInv, AckInv, Genuine, Inv
<1>2. CloseInv' /\ RecordInv' /\ SuccessIsOwnAck' /\ ClosedIsReal'
  BY ZenonT(60) DEF abandon, callVars, CloseInv, Listening, RecordInv, SuccessIsOwnAck,
     ClosedIsReal, Inv
<1>3. SlotInv'
  BY ZenonT(60), <1>b DEF abandon, callVars, Dropped, SlotInv, Listening, Typed, Inv
<1>4. MatchInv'
  BY ZenonT(60), <1>b DEF abandon, callVars, Dropped, MatchInv, Listening, Typed, Inv
<1>5. FilledInv'
  BY ZenonT(60), <1>b DEF abandon, callVars, Dropped, FilledInv, Listening, Typed, Inv
<1>6. FirstAckInv'
  BY ZenonT(60), <1>b DEF abandon, callVars, Dropped, FirstAckInv, Listening, Typed, Inv
<1>7. InflightUntilFlowEnds'
  BY ZenonT(60) DEF abandon, callVars, InflightUntilFlowEnds, CloseInv, Inv
<1> QED
  BY ZenonT(60), <1>1, <1>2, <1>3, <1>4, <1>5, <1>6, <1>7 DEF Inv

LEMMA IInvNext ==
  ASSUME MaxAllocs < IdSpace
  PROVE  IInv /\ [Next]_vars => IInv'
<1> SUFFICES ASSUME TypeInv, Inv, [Next]_vars PROVE IInv'
  BY ZenonT(60) DEF IInv
<1>1. TypeInv'
  BY ZenonT(60), TypeInvNext
<1>2. ASSUME \/ \E c \in Calls : SendQos0(c) \/ CallStep(c)
             \/ \E c \in Calls, r \in AllRequests : Start(c, r)
      PROVE  Inv'
  BY ZenonT(60), <1>2, SendQos0Keeps, StartKeeps, ParkKeeps, SendRequestKeeps, ReceivedKeeps,
     ParkPubcompKeeps, SenderDroppedKeeps, PollExpiresKeeps, AckTimeoutKeeps
     DEF CallStep, Keeps
<1>3. ASSUME \/ \E f \in Fanouts, r \in AllRequests : StartFanout(f, r)
             \/ \E f \in Fanouts : DeliverFanout(f)
      PROVE  Inv'
  BY ZenonT(60), <1>3, StartFanoutKeeps, DeliverFanoutKeeps DEF Keeps
<1>4. ASSUME \/ \E a \in sent : PeerAnswers(a)
             \/ \E a \in acks : ReadAck(a)
             \/ \E h \in handling : WakeWaiter(h) \/ FinishDispatch(h)
      PROVE  Inv'
  BY ZenonT(60), <1>4, PeerAnswersKeeps, ReadAckKeeps, WakeWaiterKeeps, FinishDispatchKeeps
     DEF Keeps
<1>5. ASSUME abandon \/ ReaderStops \/ Close \/ WriterLeaves \/ WriterGone \/ UNCHANGED vars
      PROVE  Inv'
  BY ZenonT(60), <1>5, abandonKeeps, ChannelKeeps DEF Keeps
<1> QED
  BY ZenonT(60), <1>1, <1>2, <1>3, <1>4, <1>5 DEF Next, IInv

LEMMA IInvInit == Init => IInv
<1> SUFFICES ASSUME Init PROVE IInv
  BY ZenonT(60)
<1>1. TypeInv
  BY ZenonT(60), TypeInvInit
<1>2. IdInv /\ FlowInv
  BY ConstantsAssumption DEF Init, IdInv, FlowInv, Flows
<1>3. /\ AckInv /\ SlotInv /\ MatchInv /\ FilledInv /\ FirstAckInv /\ CloseInv
      /\ RecordInv
  BY ZenonT(60) DEF Init, AckInv, SlotInv, MatchInv, FilledInv, FirstAckInv, CloseInv,
     RecordInv, Listening, Flows
<1>4. SuccessIsOwnAck /\ ClosedIsReal /\ InflightUntilFlowEnds
  BY ZenonT(60) DEF Init, SuccessIsOwnAck, ClosedIsReal, InflightUntilFlowEnds, Successes, Flows
<1> QED
  BY ZenonT(60), <1>1, <1>2, <1>3, <1>4 DEF IInv, Inv

LEMMA IInvAlways ==
  ASSUME MaxAllocs < IdSpace
  PROVE  Spec => []IInv
BY IInvInit, IInvNext, PTL DEF Spec

\* Below the wrap of the id counter, for any number of calls, fanouts and peer
\* answers: a call reports success only for the ack the peer sent in answer to its
\* own request (wake_ack_waiter, wake_suback_waiter, wake_unsuback_waiter).
THEOREM SuccessCorrect ==
  ASSUME MaxAllocs < IdSpace
  PROVE  Spec => []SuccessIsOwnAck
<1>1. IInv => SuccessIsOwnAck
  BY ZenonT(60) DEF IInv, Inv
<1> QED
  BY <1>1, IInvAlways, PTL

\* Below the wrap, ChannelClosed is reported only when the channel is closed: no
\* waiter is displaced from the table while the channel is open.
THEOREM ClosedCorrect ==
  ASSUME MaxAllocs < IdSpace
  PROVE  Spec => []ClosedIsReal
<1>1. IInv => ClosedIsReal
  BY ZenonT(60) DEF IInv, Inv
<1> QED
  BY <1>1, IInvAlways, PTL

\* Below the wrap, a fanout keeps its in-flight record until the ack that ends its
\* flow is dispatched: no other flow's ack clears it (clear_outbound_inflight).
THEOREM InflightCorrect ==
  ASSUME MaxAllocs < IdSpace
  PROVE  Spec => []InflightUntilFlowEnds
<1>1. IInv => InflightUntilFlowEnds
  BY ZenonT(60) DEF IInv, Inv
<1> QED
  BY <1>1, IInvAlways, PTL

\* Below the wrap, a wait for a first ack ends with Elapsed only if the ack was not
\* dispatched when the wait was last polled: parking before sending leaves no
\* window before the poll in which it could be lost (send_publish, send_subscribe,
\* send_unsubscribe). Between the poll and cancel_ack_waiter it can be.
THEOREM FirstAnswerCorrect ==
  ASSUME MaxAllocs < IdSpace
  PROVE  Spec => FirstAnswerNeverMissed
<1> DEFINE Step == \A c \in Calls :
        (pc[c] = "waiting" /\ pc'[c] = "expired" /\ await[c] # "Pubcomp")
          => [id |-> id[c], kind |-> await[c], of |-> c] \notin dispatched
<1>1. ASSUME IInv, [Next]_vars PROVE Step
  <2> SUFFICES ASSUME NEW c \in Calls,
                      pc[c] = "waiting", pc'[c] = "expired", await[c] # "Pubcomp"
               PROVE  [id |-> id[c], kind |-> await[c], of |-> c] \notin dispatched
    BY ZenonT(60)
  <2>1. Typed /\ FirstAckInv
    BY ZenonT(60), <1>1, TypedInv DEF IInv, Inv
  <2>2. rx[c] = "empty"
    <3>1. pc \in [Flows -> PcValues] /\ Calls \subseteq Flows /\ Fanouts \subseteq Flows
      BY ZenonT(60), <2>1 DEF Typed
    <3>2. pc' # pc
      BY ZenonT(60)
    <3>3. \/ \E d \in Calls : \/ SendQos0(d) \/ CallStep(d)
                             \/ \E r \in AllRequests : Start(d, r)
          \/ \E f \in Fanouts : DeliverFanout(f) \/ \E r \in AllRequests : StartFanout(f, r)
      BY ZenonT(60), <1>1, <3>2
         DEF Next, PeerAnswers, ReadAck, WakeWaiter, FinishDispatch, ReaderStops, Close,
             abandon, WriterLeaves, WriterGone, vars
    <3>4. ASSUME NEW d \in Calls, NEW r \in AllRequests,
                 \/ SendQos0(d) \/ Start(d, r) \/ Park(d) \/ SendRequest(d) \/ Received(d)
                 \/ ParkPubcomp(d) \/ SenderDropped(d) \/ AckTimeout(d)
          PROVE  FALSE
      BY ZenonT(60), <3>1, <3>4
         DEF SendQos0, Start, Park, SendRequest, Received, ParkPubcomp, SenderDropped, AckTimeout
    <3>5. ASSUME NEW f \in Fanouts, NEW r \in AllRequests,
                 DeliverFanout(f) \/ StartFanout(f, r)
          PROVE  FALSE
      BY ZenonT(60), <3>1, <3>5 DEF DeliverFanout, StartFanout
    <3>6. \E d \in Calls : PollExpires(d)
      BY ZenonT(60), <3>3, <3>4, <3>5 DEF CallStep, AllRequests
    <3> QED
      BY ZenonT(60), <3>1, <3>6 DEF PollExpires
  <2> QED
    BY ZenonT(60), <2>1, <2>2 DEF Listening, FirstAckInv
<1> QED
  BY <1>1, IInvAlways, PTL DEF Spec, FirstAnswerNeverMissed

================================================================================
