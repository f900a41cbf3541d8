----------------------------- MODULE BrokerTables ------------------------------
(***************************************************************************)
(* Type correctness of Broker; then the session table, the subscription    *)
(* tree and the Wills, whatever the order in which connections register,   *)
(* are taken over and tear down.                                           *)
(*                                                                         *)
(* The Will of a connection is an obligation with one holder: its table    *)
(* entry, then either the takeover or the teardown that removed the entry. *)
(* Whoever holds it has not published it yet.                              *)
(***************************************************************************)
EXTENDS Broker, TLAPS

\* The obligations are many and large: the provers get more than their usual time.
USE SMTT(60)

\* A task that still has subscriptions to serve has a message to serve them with.
CarryInv == \A t \in Tasks : todo[t] # {} => carry[t] # {}

\* TypeOK is preserved only together with CarryInv.
TypeInv == TypeOK /\ CarryInv

LEMMA TypeInvInit == Init => TypeInv
<1> SUFFICES ASSUME Init PROVE TypeInv
  BY ZenonT(60)
<1>1. outbox \in [Conns -> Seq(Commands)] /\ work \in [Conns -> Seq(Messages)]
  BY DEF Init
<1>2. /\ published \in [Conns -> 0 .. MaxPublishes]
      /\ requested \in [Conns -> 0 .. MaxSubscribes]
      /\ wills \in [Conns -> Nat] /\ released \in [Conns -> Nat]
      /\ client \in [Conns -> Clients]
  BY BrokerAssumption DEF Init
<1>3. clean \in [Conns -> BOOLEAN] /\ will \in [Conns -> SUBSET Topics]
  BY BrokerAssumption DEF Init
<1>4. CarryInv
  BY ZenonT(60) DEF Init, CarryInv
<1>5. pc \in [Conns -> PcValues]
  BY ZenonT(60) DEF Init, PcValues
<1> QED
  BY ZenonT(60), <1>1, <1>2, <1>3, <1>4, <1>5 DEF Init, TypeInv, TypeOK

\* Entering Broker::publish keeps the two fanout variables typed.
LEMMA StartPublishType ==
  ASSUME TypeInv, NEW t \in Tasks, NEW M \in SUBSET Messages, StartPublish(t, M)
  PROVE  /\ carry' \in [Tasks -> SUBSET Messages]
         /\ todo' \in [Tasks -> SUBSET [client : Clients, filter : Filters]]
         /\ \A u \in Tasks : todo'[u] # {} => carry'[u] # {}
<1> DEFINE D == UNION {matching(m.topic) : m \in M}
<1>1. D \in SUBSET [client : Clients, filter : Filters]
  BY DEF TypeInv, TypeOK, matching
<1>2. D # {} => M # {}
  BY ZenonT(60)
<1>3. /\ carry' = [carry EXCEPT ![t] = M]
      /\ todo' = [todo EXCEPT ![t] = D]
  BY ZenonT(60) DEF StartPublish
<1> HIDE DEF D
<1> QED
  BY ZenonT(60), <1>1, <1>2, <1>3 DEF TypeInv, TypeOK, CarryInv

LEMMA publish_willType ==
  ASSUME TypeInv, NEW t \in Tasks, NEW D \in SUBSET Conns, publish_will(t, D)
  PROVE  /\ carry' \in [Tasks -> SUBSET Messages]
         /\ todo' \in [Tasks -> SUBSET [client : Clients, filter : Filters]]
         /\ \A u \in Tasks : todo'[u] # {} => carry'[u] # {}
         /\ wills' \in [Conns -> Nat]
<1> DEFINE M == UNION {WillOf(d) : d \in D}
<1>1. M \in SUBSET Messages
  BY BrokerAssumption DEF TypeInv, TypeOK, WillOf, Messages
<1>2. StartPublish(t, M)
  BY ZenonT(60) DEF publish_will
<1>3. wills' \in [Conns -> Nat]
  BY DEF publish_will, TypeInv, TypeOK
<1> HIDE DEF M
<1> QED
  BY ZenonT(60), <1>1, <1>2, <1>3, StartPublishType

\* What a delivery queues is a command.
LEMMA DeliveredCommand ==
  ASSUME TypeInv, NEW t \in Tasks, todo[t] # {}
  PROVE  [msg |-> CHOOSE m \in carry[t] : TRUE] \in Commands
<1>1. (CHOOSE m \in carry[t] : TRUE) \in carry[t]
  BY ZenonT(60) DEF TypeInv, CarryInv
<1>2. (CHOOSE m \in carry[t] : TRUE) \in Messages
  BY ZenonT(60), <1>1 DEF TypeInv, TypeOK
<1> QED
  BY ZenonT(60), <1>2 DEF Commands

\* What a reader hands to its worker is a message.
LEMMA HandOverType ==
  ASSUME TypeInv, NEW c \in Conns, NEW m \in Stashed, HandOver(c, m)
  PROVE  work' \in [Conns -> Seq(Messages)] /\ released' \in [Conns -> Nat]
<1> DEFINE msg == [conn |-> c, n |-> released[c] + 1, sent |-> m.sent, topic |-> m.topic]
<1> USE DEF TypeInv, TypeOK
<1>1. released[c] + 1 \in Nat /\ released' = [released EXCEPT ![c] = released[c] + 1]
  BY DEF HandOver
<1>2. msg \in Messages
  BY ZenonT(60), <1>1 DEF Messages, Stashed
<1>3. work' = [work EXCEPT ![c] = Append(work[c], msg)]
  BY ZenonT(60) DEF HandOver
<1> HIDE DEF msg
<1>4. Append(work[c], msg) \in Seq(Messages)
  BY <1>2
<1> QED
  BY ZenonT(60), <1>1, <1>3, <1>4

LEMMA TypeInvNext == TypeInv /\ [Next]_vars => TypeInv'
<1> SUFFICES ASSUME TypeInv, [Next]_vars PROVE TypeInv'
  BY ZenonT(60)
<1> USE DEF TypeInv, TypeOK, CarryInv
<1>a. \A c \in Conns : Handler(c) \in Tasks /\ Worker(c) \in Tasks
  BY ZenonT(60) DEF Handler, Worker, Tasks
<1>1. ASSUME NEW c \in Conns, Refuse(c)
      PROVE  TypeInv'
  BY ZenonT(60), <1>1 DEF Refuse, Goto, PcValues, connVars, fanoutVars, inboundVars
<1>2. ASSUME NEW c \in Conns, TakeOver(c)
      PROVE  TypeInv'
  <2>1. /\ sessions' \subseteq [client : Clients, conn : Conns]
        /\ \A s, t \in sessions' : s.client = t.client => s = t
    BY ZenonT(60), <1>2 DEF TakeOver
  <2>2. {s.conn : s \in EntriesOf(client[c])} \in SUBSET Conns
    BY DEF EntriesOf
  <2>3. evicted' \in [Conns -> SUBSET Conns] /\ pc' \in [Conns -> PcValues]
    BY ZenonT(60), <1>2, <2>2 DEF TakeOver, Goto, PcValues
  <2> QED
    BY ZenonT(60), <1>2, <2>1, <2>3 DEF TakeOver, connVars, fanoutVars, inboundVars
<1>3. ASSUME NEW c \in Conns, CloseEvicted(c)
      PROVE  TypeInv'
  BY ZenonT(60), <1>3 DEF CloseEvicted, Goto, PcValues, connVars, fanoutVars, inboundVars
<1>4. ASSUME NEW c \in Conns, EvictWill(c)
      PROVE  TypeInv'
  BY ZenonT(60), <1>4, <1>a, publish_willType
     DEF EvictWill, Goto, PcValues, connVars, fanoutVars, inboundVars
<1>5. ASSUME NEW c \in Conns, WipeSubscriptions(c)
      PROVE  TypeInv'
  BY ZenonT(60), <1>5
     DEF WipeSubscriptions, remove_client, Goto, PcValues, connVars, fanoutVars,
         inboundVars
<1>6. ASSUME NEW c \in Conns, InsertSession(c)
      PROVE  TypeInv'
  <2>1. Entry(c) \in [client : Clients, conn : Conns] /\ Entry(c).client = client[c]
    BY ZenonT(60) DEF Entry
  <2>2. pc' \in [Conns -> PcValues]
    BY ZenonT(60), <1>6 DEF InsertSession, Goto, PcValues
  <2>3. \A s, t \in sessions' : s.client = t.client => s = t
    BY ZenonT(60), <1>6, <2>1 DEF InsertSession, EntriesOf
  <2> QED
    BY ZenonT(60), <1>6, <2>1, <2>2, <2>3 DEF InsertSession, connVars, fanoutVars, inboundVars
<1>7. ASSUME NEW c \in Conns, SendConnack(c)
      PROVE  TypeInv'
  <2>1. [connack |-> TRUE] \in Commands
    BY ZenonT(60) DEF Commands
  <2>2. outbox' \in [Conns -> Seq(Commands)]
    <3>1. Append(outbox[c], [connack |-> TRUE]) \in Seq(Commands)
      BY <2>1
    <3>2. \/ outbox' = outbox
          \/ outbox' = [outbox EXCEPT ![c] = Append(outbox[c], [connack |-> TRUE])]
      BY ZenonT(60), <1>7 DEF SendConnack
    <3> QED
      BY ZenonT(60), <3>1, <3>2
  <2>3. pc' \in [Conns -> PcValues]
    BY ZenonT(60), <1>7 DEF SendConnack, Goto, PcValues
  <2> QED
    BY ZenonT(60), <1>7, <2>2, <2>3 DEF SendConnack, connVars, fanoutVars, inboundVars
<1>8. ASSUME NEW c \in Conns, CheckOpen(c)
      PROVE  TypeInv'
  BY ZenonT(60), <1>8 DEF CheckOpen, Goto, PcValues, connVars, fanoutVars, inboundVars
<1>9. ASSUME NEW c \in Conns, NEW f \in Filters, Subscribe(c, f)
      PROVE  TypeInv'
  <2>1. requested' \in [Conns -> 0 .. MaxSubscribes]
    BY <1>9, BrokerAssumption DEF Subscribe
  <2>2. [client |-> client[c], filter |-> f] \in [client : Clients, filter : Filters]
    BY ZenonT(60)
  <2>3. filters' \in [Conns -> SUBSET Filters]
    <3>1. filters[c] \cup {f} \in SUBSET Filters
      BY ZenonT(60)
    <3>2. filters' = filters \/ filters' = [filters EXCEPT ![c] = filters[c] \cup {f}]
      BY ZenonT(60), <1>9 DEF Subscribe
    <3> QED
      BY ZenonT(60), <3>1, <3>2
  <2>5. subs' \subseteq [client : Clients, filter : Filters]
    BY ZenonT(60), <1>9, <2>2 DEF Subscribe
  <2>4. pc' \in [Conns -> PcValues]
    BY ZenonT(60), <1>9 DEF Subscribe, Goto, PcValues
  <2> QED
    BY ZenonT(60), <1>9, <2>1, <2>3, <2>4, <2>5 DEF Subscribe, connVars, fanoutVars
<1>10. ASSUME NEW c \in Conns, NEW f \in Filters, Unsubscribe(c, f)
      PROVE  TypeInv'
  <2>1. requested' \in [Conns -> 0 .. MaxSubscribes]
    BY <1>10, BrokerAssumption DEF Unsubscribe
  <2>2. [client |-> client[c], filter |-> f] \in [client : Clients, filter : Filters]
    BY ZenonT(60)
  <2>3. filters' \in [Conns -> SUBSET Filters]
    <3>1. filters[c] \ {f} \in SUBSET Filters
      BY ZenonT(60)
    <3>2. filters' = filters \/ filters' = [filters EXCEPT ![c] = filters[c] \ {f}]
      BY ZenonT(60), <1>10 DEF Unsubscribe
    <3> QED
      BY ZenonT(60), <3>1, <3>2
  <2>5. subs' \subseteq [client : Clients, filter : Filters]
    BY ZenonT(60), <1>10, <2>2 DEF Unsubscribe
  <2>4. pc' \in [Conns -> PcValues]
    BY ZenonT(60), <1>10 DEF Unsubscribe, Goto, PcValues
  <2> QED
    BY ZenonT(60), <1>10, <2>1, <2>3, <2>4, <2>5 DEF Unsubscribe, connVars, fanoutVars
<1>11. ASSUME NEW c \in Conns, NEW t \in Topics, Publish(c, t)
      PROVE  TypeInv'
  <2> DEFINE m == [sent |-> published[c] + 1, topic |-> t]
  <2>1. published' \in [Conns -> 0 .. MaxPublishes] /\ published[c] + 1 \in 0 .. MaxPublishes
    BY <1>11, BrokerAssumption DEF Publish
  <2>2. m \in Stashed
    BY ZenonT(60), <2>1 DEF Stashed
  <2>3. HandOver(c, m)
    BY ZenonT(60), <1>11 DEF Publish
  <2> HIDE DEF m
  <2>4. work' \in [Conns -> Seq(Messages)] /\ released' \in [Conns -> Nat]
    BY ZenonT(60), <2>2, <2>3, HandOverType
  <2>5. pc' \in [Conns -> PcValues]
    BY ZenonT(60), <1>11 DEF Publish, Goto, PcValues
  <2> QED
    BY ZenonT(60), <1>11, <2>1, <2>4, <2>5 DEF Publish, connVars, fanoutVars
<1>24. ASSUME NEW c \in Conns, NEW t \in Topics, PublishQos2(c, t)
      PROVE  TypeInv'
  <2> DEFINE m == [sent |-> published[c] + 1, topic |-> t]
  <2>1. published' \in [Conns -> 0 .. MaxPublishes] /\ published[c] + 1 \in 0 .. MaxPublishes
    BY <1>24, BrokerAssumption DEF PublishQos2
  <2>2. m \in Stashed
    BY ZenonT(60), <2>1 DEF Stashed
  <2>3. stash' = [stash EXCEPT ![c] = stash[c] \cup {m}]
    BY ZenonT(60), <1>24 DEF PublishQos2
  <2> HIDE DEF m
  <2>4. stash' \in [Conns -> SUBSET Stashed]
    <3>1. stash[c] \cup {m} \in SUBSET Stashed
      BY ZenonT(60), <2>2
    <3> QED
      BY ZenonT(60), <2>3, <3>1
  <2>5. pc' \in [Conns -> PcValues]
    BY ZenonT(60), <1>24 DEF PublishQos2, Goto, PcValues
  <2> QED
    BY ZenonT(60), <1>24, <2>1, <2>4, <2>5 DEF PublishQos2, connVars, fanoutVars
<1>25. ASSUME NEW c \in Conns, NEW m \in stash[c], Pubrel(c, m)
      PROVE  TypeInv'
  <2>1. m \in Stashed /\ stash[c] \ {m} \in SUBSET Stashed
    BY ZenonT(60)
  <2>2. work' \in [Conns -> Seq(Messages)] /\ released' \in [Conns -> Nat]
    BY ZenonT(60), <1>25, <2>1, HandOverType DEF Pubrel
  <2>3. stash' \in [Conns -> SUBSET Stashed]
    BY ZenonT(60), <1>25, <2>1 DEF Pubrel
  <2>4. pc' \in [Conns -> PcValues]
    BY ZenonT(60), <1>25 DEF Pubrel, Goto, PcValues
  <2> QED
    BY ZenonT(60), <1>25, <2>2, <2>3, <2>4 DEF Pubrel, connVars, fanoutVars
<1>12. ASSUME NEW c \in Conns, NEW g \in BOOLEAN, Leave(c, g)
      PROVE  TypeInv'
  BY ZenonT(60), <1>12 DEF Leave, Goto, PcValues, connVars, fanoutVars, inboundVars
<1>13. ASSUME NEW c \in Conns, NEW fanout \in BOOLEAN, NEW t \in Topics, RunChain(c, fanout, t)
      PROVE  TypeInv'
  <2> DEFINE M == IF fanout THEN {[Head(work[c]) EXCEPT !.topic = t]} ELSE {}
  <2>1. Head(work[c]) \in Messages /\ Tail(work[c]) \in Seq(Messages)
    BY <1>13 DEF RunChain
  <2>2. M \in SUBSET Messages
    BY ZenonT(60), <2>1 DEF Messages
  <2>3. work' \in [Conns -> Seq(Messages)]
    BY ZenonT(60), <1>13, <2>1 DEF RunChain
  <2>4. StartPublish(Worker(c), M)
    BY ZenonT(60), <1>13 DEF RunChain
  <2> HIDE DEF M
  <2>5. /\ carry' \in [Tasks -> SUBSET Messages]
        /\ todo' \in [Tasks -> SUBSET [client : Clients, filter : Filters]]
        /\ \A u \in Tasks : todo'[u] # {} => carry'[u] # {}
    BY ZenonT(60), <1>a, <2>2, <2>4, StartPublishType
  <2> QED
    BY ZenonT(60), <1>13, <2>3, <2>5 DEF RunChain, connVars, inboundVars
<1>14. ASSUME NEW c \in Conns, NEW t \in {Handler(c), Worker(c)}, NEW p \in todo[t], Deliver(t, p)
      PROVE  TypeInv'
  <2> DEFINE cmd == [msg |-> CHOOSE m \in carry[t] : TRUE]
  <2>1. t \in Tasks
    BY ZenonT(60), <1>a
  <2>2. cmd \in Commands
    BY ZenonT(60), <2>1, DeliveredCommand
  <2>3. outbox' = [d \in Conns |->
                     IF d \in Receivers(t, p) THEN Append(outbox[d], cmd) ELSE outbox[d]]
    BY ZenonT(60), <1>14 DEF Deliver
  <2> HIDE DEF cmd
  <2>4. outbox' \in [Conns -> Seq(Commands)]
    BY <2>2, <2>3
  <2> QED
    BY ZenonT(60), <1>14, <2>1, <2>4 DEF Deliver, connVars, inboundVars
<1>15. ASSUME NEW c \in Conns, WorkerPublished(c)
      PROVE  TypeInv'
  BY ZenonT(60), <1>15, <1>a DEF WorkerPublished, connVars, fanoutVars, inboundVars
<1>16. ASSUME NEW c \in Conns, WillPublished(c)
      PROVE  TypeInv'
  BY ZenonT(60), <1>16, <1>a DEF WillPublished, Goto, PcValues, connVars, fanoutVars, inboundVars
<1>17. ASSUME NEW c \in Conns, CloseOwnChannel(c)
      PROVE  TypeInv'
  BY ZenonT(60), <1>17 DEF CloseOwnChannel, Goto, PcValues, connVars, fanoutVars, inboundVars
<1>18. ASSUME NEW c \in Conns, JoinWorker(c)
      PROVE  TypeInv'
  BY ZenonT(60), <1>18 DEF JoinWorker, Goto, PcValues, connVars, fanoutVars, inboundVars
<1>19. ASSUME NEW c \in Conns, UnregisterSession(c)
      PROVE  TypeInv'
  BY ZenonT(60), <1>19 DEF UnregisterSession, Goto, PcValues, connVars, fanoutVars, inboundVars
<1>20. ASSUME NEW c \in Conns, RemoveSubscriptions(c)
      PROVE  TypeInv'
  BY ZenonT(60), <1>20
     DEF RemoveSubscriptions, remove_client, Goto, PcValues, connVars, fanoutVars,
         inboundVars
<1>21. ASSUME NEW c \in Conns, OwnWill(c)
      PROVE  TypeInv'
  BY ZenonT(60), <1>21, <1>a, publish_willType
     DEF OwnWill, Goto, PcValues, connVars, fanoutVars, inboundVars
<1>22. ASSUME NEW c \in Conns, WriterFails(c)
      PROVE  TypeInv'
  BY ZenonT(60), <1>22 DEF WriterFails, connVars, fanoutVars, inboundVars
<1>23. ASSUME UNCHANGED vars
      PROVE  TypeInv'
  BY ZenonT(60), <1>23 DEF vars, connVars, fanoutVars, inboundVars
<1> QED
  BY ZenonT(60), <1>1, <1>2, <1>3, <1>4, <1>5, <1>6, <1>7, <1>8, <1>9, <1>10, <1>11, <1>12, <1>13,
     <1>14, <1>15, <1>16, <1>17, <1>18, <1>19, <1>20, <1>21, <1>22, <1>23, <1>24, <1>25
     DEF Next, Register, ReadLoop, Fanout, TearDown

\* Every variable of the broker keeps its type, in any number of connections, and
\* the session table one entry per client id (register_session's insert replaces).
THEOREM TypeCorrect == Spec => []TypeOK
<1>1. TypeInv => TypeOK
  BY ZenonT(60) DEF TypeInv
<1> QED
  BY <1>1, TypeInvInit, TypeInvNext, PTL DEF Spec

--------------------------------------------------------------------------------
(* The tables and the Wills. *)

Unregistered(x) == pc[x] = "new" \/ Registering(x)

ServedLabels == {"connack", "check", "select", "draining", "joining", "unregistering"}

\* The registration d has removed the entry of x and still owes its Will.
Owes(d, x) == x \in evicted[d] /\ pc[d] \in {"superseding", "evicting"}

\* Only connections that were registered are evicted.
EvictedInv == \A d, x \in Conns : x \in evicted[d] => ~ Unregistered(x)

\* The obligation has one holder.
HolderInv ==
  /\ \A d, x \in Conns : Owes(d, x) =>
       Entry(x) \notin sessions /\ pc[x] \notin {"unsubscribing", "will"}
  /\ \A d, e, x \in Conns : (Owes(d, x) /\ Owes(e, x)) => d = e

\* The obligation of x is held, or not yet taken on.
Undischarged(x) ==
  \/ Unregistered(x)
  \/ Entry(x) \in sessions
  \/ pc[x] \in {"unsubscribing", "will"}
  \/ \E d \in Conns : Owes(d, x)

WillInv ==
  /\ WillAtMostOnce
  /\ \A x \in Conns : Undischarged(x) => wills[x] = 0

Inv == EntriesAreLive /\ EvictedInv /\ HolderInv /\ WillInv /\ OwnedSubscriptions

\* What the steps below use of TypeInv.
Typed ==
  /\ sessions \subseteq [client : Clients, conn : Conns]
  /\ pc \in [Conns -> PcValues]
  /\ client \in [Conns -> Clients]
  /\ evicted \in [Conns -> SUBSET Conns]
  /\ wills \in [Conns -> Nat]

LEMMA TypedInv == TypeInv => Typed
BY ZenonT(60) DEF TypeInv, TypeOK, Typed

\* The steps that leave the tables alone.
LEMMA FrameKeeps ==
  ASSUME Inv, UNCHANGED <<sessions, subs, pc, client, evicted, wills>>
  PROVE  Inv'
<1> USE DEF Inv
<1>1. EntriesAreLive' /\ EvictedInv' /\ HolderInv'
  BY ZenonT(60) DEF EntriesAreLive, EvictedInv, HolderInv, Owes, Entry, Unregistered, Registering
<1>2. WillInv'
  BY ZenonT(60) DEF WillInv, WillAtMostOnce, Undischarged, Owes, Entry, Unregistered, Registering
<1>3. OwnedSubscriptions'
  BY ZenonT(60) DEF OwnedSubscriptions, EntriesOf, Registering
<1> QED
  BY ZenonT(60), <1>1, <1>2, <1>3

\* The steps of the read loop and of the wind-down before unregister_session.
LEMMA ServedKeeps ==
  ASSUME Typed, EntriesAreLive, EvictedInv, HolderInv, WillInv,
         UNCHANGED <<sessions, client, evicted, wills>>,
         NEW c \in Conns, NEW label \in ServedLabels, pc[c] \in ServedLabels, Goto(c, label)
  PROVE  EntriesAreLive' /\ EvictedInv' /\ HolderInv' /\ WillInv'
<1> USE DEF Typed, Goto, ServedLabels
<1>1. EntriesAreLive'
  BY ZenonT(60) DEF EntriesAreLive
<1>2. \A x \in Conns : /\ Unregistered(x)' = Unregistered(x)
                       /\ Entry(x)' = Entry(x)
                       /\ (pc'[x] \in {"unsubscribing", "will"}) = (pc[x] \in {"unsubscribing", "will"})
                       /\ \A d \in Conns : Owes(d, x)' = Owes(d, x)
  BY DEF Unregistered, Registering, Entry, Owes
<1>3. EvictedInv' /\ HolderInv'
  BY <1>2 DEF EvictedInv, HolderInv
<1>4. WillInv'
  BY ZenonT(60), <1>2 DEF WillInv, WillAtMostOnce, Undischarged
<1> QED
  BY ZenonT(60), <1>1, <1>3, <1>4

\* The subscriptions stay owned when only served clients gain some.
LEMMA ServedOwned ==
  ASSUME Typed, OwnedSubscriptions, UNCHANGED <<sessions, client>>,
         NEW c \in Conns, NEW label \in ServedLabels, pc[c] \in ServedLabels, Goto(c, label),
         \A p \in subs' : p \in subs \/ EntriesOf(p.client) # {}
  PROVE  OwnedSubscriptions'
<1> USE DEF Typed, Goto, ServedLabels
<1>1. \A k : EntriesOf(k)' = EntriesOf(k)
  BY ZenonT(60) DEF EntriesOf
<1>2. \A x \in Conns : (Registering(x) \/ pc[x] = "unsubscribing") <=>
                         (Registering(x) \/ pc[x] = "unsubscribing")'
  BY ZenonT(60) DEF Registering
<1> QED
  BY ZenonT(60), <1>1, <1>2 DEF OwnedSubscriptions

LEMMA LoopKeeps ==
  ASSUME Typed, Inv, NEW c \in Conns,
         SendConnack(c) \/ ReadLoop(c) \/ CloseOwnChannel(c) \/ JoinWorker(c)
  PROVE  Inv'
<1>1. PICK label \in ServedLabels :
        /\ UNCHANGED <<sessions, client, evicted, wills>>
        /\ pc[c] \in ServedLabels
        /\ Goto(c, label)
  BY ZenonT(60) DEF SendConnack, ReadLoop, CheckOpen, Subscribe, Unsubscribe, Publish, PublishQos2, Pubrel, Leave,
         CloseOwnChannel, JoinWorker, connVars, ServedLabels, Goto
<1>2. \A p \in subs' : p \in subs \/ EntriesOf(p.client) # {}
  <2>1. CASE UNCHANGED subs
    BY ZenonT(60), <2>1
  <2>2. ASSUME NEW f \in Filters, Subscribe(c, f)
        PROVE  \A p \in subs' : p \in subs \/ EntriesOf(p.client) # {}
    BY <2>2 DEF Subscribe, EntriesOf, Entry
  <2>3. ASSUME NEW f \in Filters, Unsubscribe(c, f)
        PROVE  \A p \in subs' : p \in subs \/ EntriesOf(p.client) # {}
    BY ZenonT(60), <2>3 DEF Unsubscribe
  <2> QED
    BY ZenonT(60), <2>1, <2>2, <2>3 DEF SendConnack, ReadLoop, CheckOpen, Publish, PublishQos2, Pubrel, Leave,
         CloseOwnChannel, JoinWorker
<1> QED
  BY ZenonT(60), <1>1, <1>2, ServedKeeps, ServedOwned DEF Inv

LEMMA RefuseKeeps ==
  ASSUME Typed, Inv, NEW c \in Conns, Refuse(c)
  PROVE  Inv'
<1> USE SMTT(60) DEF Typed, Inv, Refuse, Goto, connVars
<1>1. EntriesAreLive'
  BY ZenonT(60) DEF EntriesAreLive
<1>2. EvictedInv' /\ HolderInv'
  BY ZenonT(60) DEF EvictedInv, HolderInv, Owes, Entry, Unregistered, Registering
<1>3. WillInv'
  BY ZenonT(60) DEF WillInv, WillAtMostOnce, Undischarged, Owes, Entry, Unregistered, Registering
<1>4. OwnedSubscriptions'
  BY ZenonT(60) DEF OwnedSubscriptions, EntriesOf, Registering
<1> QED
  BY ZenonT(60), <1>1, <1>2, <1>3, <1>4

LEMMA TakeOverKeeps ==
  ASSUME Typed, Inv, NEW c \in Conns, TakeOver(c)
  PROVE  Inv'
<1> DEFINE prev == {s.conn : s \in EntriesOf(client[c])}
<1>1. /\ sessions' = sessions \ EntriesOf(client[c])
      /\ evicted' = [evicted EXCEPT ![c] = prev]
      /\ pc[c] = "new"
      /\ pc' = [pc EXCEPT ![c] = IF prev = {} THEN "wiping" ELSE "superseding"]
      /\ UNCHANGED <<subs, client, wills>>
  BY ZenonT(60) DEF TakeOver, Goto, connVars
<1>2. \A x \in prev : x \in Conns /\ Entry(x) \in sessions /\ Entry(x) \notin sessions'
  BY <1>1 DEF Typed, Inv, EntriesAreLive, EntriesOf, Entry
<1>3. \A x \in prev : pc[x] \in ServedLabels
  BY ZenonT(60), <1>2 DEF Inv, EntriesAreLive, Entry, ServedLabels
<1> HIDE DEF prev
<1> USE SMTT(60), <1>1 DEF Typed, Inv
<1>4. EntriesAreLive'
  BY ZenonT(60) DEF EntriesAreLive
<1>5. EvictedInv'
  BY ZenonT(60), <1>3 DEF EvictedInv, Unregistered, Registering, ServedLabels
<1>6. \A x \in Conns : Entry(x)' = Entry(x)
  BY ZenonT(60) DEF Entry
<1>7. HolderInv'
  <2>1. \A d, x \in Conns : Owes(d, x)' => Owes(d, x) \/ (d = c /\ x \in prev)
    BY ZenonT(60) DEF Owes
  <2>2. \A d \in Conns, x \in prev : ~ Owes(d, x)
    BY ZenonT(60), <1>2 DEF HolderInv
  <2>3. \A d, x \in Conns : Owes(d, x)' =>
          Entry(x)' \notin sessions' /\ pc'[x] \notin {"unsubscribing", "will"}
    BY <2>1, <1>2, <1>3, <1>6 DEF HolderInv, ServedLabels
  <2>4. \A d, e, x \in Conns : (Owes(d, x)' /\ Owes(e, x)') => d = e
    BY ZenonT(60), <2>1, <2>2 DEF HolderInv
  <2> QED
    BY ZenonT(60), <2>3, <2>4 DEF HolderInv
<1>8. WillInv'
  <2>1. \A x \in Conns : Undischarged(x)' => Undischarged(x)
    <3>1. \A d, x \in Conns : Owes(d, x)' => Owes(d, x) \/ x \in prev
      BY ZenonT(60) DEF Owes
    <3>2. \A x \in Conns : Unregistered(x)' => Unregistered(x)
      BY ZenonT(60) DEF Unregistered, Registering
    <3> QED
      BY ZenonT(60), <3>1, <3>2, <1>2, <1>6 DEF Undischarged
  <2> QED
    BY ZenonT(60), <2>1 DEF WillInv, WillAtMostOnce
<1>9. OwnedSubscriptions'
  <2>1. \A k : k # client[c] => EntriesOf(k)' = EntriesOf(k)
    BY ZenonT(60) DEF EntriesOf
  <2>2. Registering(c)'
    BY ZenonT(60) DEF Registering
  <2>3. \A x \in Conns : (Registering(x) \/ pc[x] = "unsubscribing") =>
                           (Registering(x) \/ pc[x] = "unsubscribing")'
    BY ZenonT(60) DEF Registering
  <2> QED
    BY ZenonT(60), <2>1, <2>2, <2>3 DEF OwnedSubscriptions
<1> QED
  BY ZenonT(60), <1>4, <1>5, <1>7, <1>8, <1>9

LEMMA CloseEvictedKeeps ==
  ASSUME Typed, Inv, NEW c \in Conns, CloseEvicted(c)
  PROVE  Inv'
<1> USE SMTT(60) DEF Typed, Inv, CloseEvicted, Goto, connVars
<1>1. \A x \in Conns : /\ Unregistered(x)' = Unregistered(x)
                       /\ Entry(x)' = Entry(x)
                       /\ (pc'[x] \in {"unsubscribing", "will"}) = (pc[x] \in {"unsubscribing", "will"})
                       /\ \A d \in Conns : Owes(d, x)' = Owes(d, x)
  BY DEF Unregistered, Registering, Entry, Owes
<1>2. EntriesAreLive' /\ EvictedInv' /\ HolderInv'
  BY <1>1 DEF EntriesAreLive, EvictedInv, HolderInv
<1>3. WillInv'
  BY ZenonT(60), <1>1 DEF WillInv, WillAtMostOnce, Undischarged
<1>4. OwnedSubscriptions'
  BY ZenonT(60) DEF OwnedSubscriptions, EntriesOf, Registering
<1> QED
  BY ZenonT(60), <1>2, <1>3, <1>4

LEMMA EvictWillKeeps ==
  ASSUME Typed, Inv, NEW c \in Conns, EvictWill(c)
  PROVE  Inv'
<1>1. /\ pc[c] = "evicting"
      /\ pc' = [pc EXCEPT ![c] = "evict_will"]
      /\ wills' = [d \in Conns |->
                     IF d \in evicted[c] /\ will[d] # {} THEN wills[d] + 1 ELSE wills[d]]
      /\ UNCHANGED <<sessions, subs, client, evicted>>
  BY ZenonT(60) DEF EvictWill, publish_will, Goto, connVars
<1> USE SMTT(60), <1>1 DEF Typed, Inv
<1>2. \A x \in Conns : Entry(x)' = Entry(x) /\ Unregistered(x)' = Unregistered(x)
  BY ZenonT(60) DEF Entry, Unregistered, Registering
<1>3. \A d, x \in Conns : Owes(d, x)' => Owes(d, x) /\ d # c
  BY ZenonT(60) DEF Owes
<1>4. EntriesAreLive' /\ EvictedInv'
  BY ZenonT(60), <1>2 DEF EntriesAreLive, EvictedInv
<1>5. HolderInv'
  BY <1>2, <1>3 DEF HolderInv
<1>6. WillInv'
  <2>1. \A x \in Conns : x \in evicted[c] => Owes(c, x)
    BY ZenonT(60) DEF Owes
  <2>2. \A x \in Conns : x \in evicted[c] => wills[x] = 0 /\ ~ Undischarged(x)'
    BY <2>1, <1>2, <1>3 DEF WillInv, HolderInv, EvictedInv, Undischarged
  <2>3. \A x \in Conns : Undischarged(x)' => Undischarged(x)
    BY ZenonT(60), <1>2, <1>3 DEF Undischarged
  <2>4. \A x \in Conns : x \notin evicted[c] => wills'[x] = wills[x]
    BY ZenonT(60)
  <2>5. \A x \in Conns : x \in evicted[c] => wills'[x] <= 1
    BY <2>2
  <2> QED
    BY ZenonT(60), <2>2, <2>3, <2>4, <2>5 DEF WillInv, WillAtMostOnce
<1>7. OwnedSubscriptions'
  BY ZenonT(60) DEF OwnedSubscriptions, EntriesOf, Registering
<1> QED
  BY ZenonT(60), <1>4, <1>5, <1>6, <1>7

LEMMA WipeSubscriptionsKeeps ==
  ASSUME Typed, Inv, NEW c \in Conns, WipeSubscriptions(c)
  PROVE  Inv'
<1> USE SMTT(60) DEF Typed, Inv, WipeSubscriptions, Goto, connVars
<1>1. \A x \in Conns : /\ Unregistered(x)' = Unregistered(x)
                       /\ Entry(x)' = Entry(x)
                       /\ (pc'[x] \in {"unsubscribing", "will"}) = (pc[x] \in {"unsubscribing", "will"})
                       /\ \A d \in Conns : Owes(d, x)' = Owes(d, x)
  BY DEF Unregistered, Registering, Entry, Owes
<1>2. EntriesAreLive' /\ EvictedInv' /\ HolderInv'
  BY <1>1 DEF EntriesAreLive, EvictedInv, HolderInv
<1>3. WillInv'
  BY ZenonT(60), <1>1 DEF WillInv, WillAtMostOnce, Undischarged
<1>4. OwnedSubscriptions'
  BY ZenonT(60) DEF OwnedSubscriptions, EntriesOf, Registering, remove_client
<1> QED
  BY ZenonT(60), <1>2, <1>3, <1>4

LEMMA InsertSessionKeeps ==
  ASSUME Typed, Inv, NEW c \in Conns, InsertSession(c)
  PROVE  Inv'
<1> USE SMTT(60) DEF Typed, Inv, InsertSession, Goto, connVars
<1>1. \A x \in Conns : Entry(x)' = Entry(x)
  BY ZenonT(60) DEF Entry
<1>2. \A x \in Conns : Unregistered(x)' => Unregistered(x) /\ x # c
  BY ZenonT(60) DEF Unregistered, Registering
<1>3. \A d, x \in Conns : Owes(d, x)' => Owes(d, x) /\ x # c
  BY ZenonT(60) DEF Owes, EvictedInv, Unregistered, Registering
<1>4. \A x \in Conns : x # c => (Entry(x) \in sessions' => Entry(x) \in sessions)
  BY ZenonT(60) DEF Entry
<1>5. EntriesAreLive'
  BY DEF EntriesAreLive, Entry
<1>6. EvictedInv'
  BY ZenonT(60), <1>2 DEF EvictedInv
<1>7. HolderInv'
  BY ZenonT(60), <1>1, <1>3, <1>4 DEF HolderInv
<1>8. WillInv'
  <2>1. Undischarged(c)
    BY ZenonT(60) DEF Undischarged, Unregistered, Registering
  <2>2. \A x \in Conns : x # c => (Undischarged(x)' => Undischarged(x))
    BY ZenonT(60), <1>1, <1>2, <1>3, <1>4 DEF Undischarged
  <2> QED
    BY ZenonT(60), <2>1, <2>2 DEF WillInv, WillAtMostOnce
<1>9. OwnedSubscriptions'
  <2>1. \A k : k # client[c] => EntriesOf(k)' = EntriesOf(k)
    BY DEF EntriesOf, Entry
  <2>2. EntriesOf(client[c])' # {}
    <3>1. Entry(c) \in sessions' /\ Entry(c).client = client'[c]
      BY ZenonT(60) DEF Entry
    <3> QED
      BY ZenonT(60), <3>1 DEF EntriesOf
  <2>3. \A x \in Conns : x # c => ((Registering(x) \/ pc[x] = "unsubscribing") =>
                                     (Registering(x) \/ pc[x] = "unsubscribing")')
    BY ZenonT(60) DEF Registering
  <2> QED
    BY ZenonT(60), <2>1, <2>2, <2>3 DEF OwnedSubscriptions
<1> QED
  BY ZenonT(60), <1>5, <1>6, <1>7, <1>8, <1>9

LEMMA WillPublishedKeeps ==
  ASSUME Typed, Inv, NEW c \in Conns, WillPublished(c)
  PROVE  Inv'
<1> USE SMTT(60) DEF Typed, Inv, WillPublished, Goto, connVars
<1>1. \A x \in Conns : /\ Unregistered(x)' = Unregistered(x)
                       /\ Entry(x)' = Entry(x)
                       /\ (pc'[x] \in {"unsubscribing", "will"}) = (pc[x] \in {"unsubscribing", "will"})
                       /\ \A d \in Conns : Owes(d, x)' = Owes(d, x)
  BY DEF Unregistered, Registering, Entry, Owes
<1>2. EntriesAreLive' /\ EvictedInv' /\ HolderInv'
  BY <1>1 DEF EntriesAreLive, EvictedInv, HolderInv
<1>3. WillInv'
  BY ZenonT(60), <1>1 DEF WillInv, WillAtMostOnce, Undischarged
<1>4. OwnedSubscriptions'
  BY ZenonT(60) DEF OwnedSubscriptions, EntriesOf, Registering
<1> QED
  BY ZenonT(60), <1>2, <1>3, <1>4

LEMMA UnregisterSessionKeeps ==
  ASSUME Typed, Inv, NEW c \in Conns, UnregisterSession(c)
  PROVE  Inv'
<1> USE SMTT(60) DEF Typed, Inv, UnregisterSession, Goto, connVars
<1>1. \A x \in Conns : Entry(x)' = Entry(x) /\ Unregistered(x)' = Unregistered(x)
  BY ZenonT(60) DEF Entry, Unregistered, Registering
<1>2. \A d, x \in Conns : Owes(d, x)' = Owes(d, x)
  BY ZenonT(60) DEF Owes
<1>3. EntriesAreLive'
  BY DEF EntriesAreLive, Entry
<1>4. EvictedInv' /\ HolderInv'
  BY <1>1, <1>2 DEF EvictedInv, HolderInv
<1>5. WillInv'
  <2>1. \A x \in Conns : Undischarged(x)' => Undischarged(x)
    BY ZenonT(60), <1>1, <1>2 DEF Undischarged
  <2> QED
    BY ZenonT(60), <2>1 DEF WillInv, WillAtMostOnce
<1>6. OwnedSubscriptions'
  <2>1. \A k : EntriesOf(k) # {} /\ EntriesOf(k)' = {} =>
                 k = client[c] /\ Entry(c) \in sessions
    BY DEF EntriesOf, Entry
  <2>2. \A x \in Conns : (Registering(x) \/ pc[x] = "unsubscribing") =>
                           (Registering(x) \/ pc[x] = "unsubscribing")'
    BY ZenonT(60) DEF Registering
  <2> QED
    BY ZenonT(60), <2>1, <2>2 DEF OwnedSubscriptions
<1> QED
  BY ZenonT(60), <1>3, <1>4, <1>5, <1>6

LEMMA RemoveSubscriptionsKeeps ==
  ASSUME Typed, Inv, NEW c \in Conns, RemoveSubscriptions(c)
  PROVE  Inv'
<1> USE SMTT(60) DEF Typed, Inv, RemoveSubscriptions, Goto, connVars
<1>1. \A x \in Conns : Entry(x)' = Entry(x) /\ Unregistered(x)' = Unregistered(x)
  BY ZenonT(60) DEF Entry, Unregistered, Registering
<1>2. \A d, x \in Conns : Owes(d, x)' = Owes(d, x)
  BY ZenonT(60) DEF Owes
<1>3. EntriesAreLive'
  BY ZenonT(60) DEF EntriesAreLive
<1>4. EvictedInv' /\ HolderInv'
  BY <1>1, <1>2 DEF EvictedInv, HolderInv
<1>5. WillInv'
  <2>1. \A x \in Conns : Undischarged(x)' => Undischarged(x)
    BY ZenonT(60), <1>1, <1>2 DEF Undischarged
  <2> QED
    BY ZenonT(60), <2>1 DEF WillInv, WillAtMostOnce
<1>6. OwnedSubscriptions'
  BY ZenonT(60) DEF OwnedSubscriptions, EntriesOf, Registering, remove_client
<1> QED
  BY ZenonT(60), <1>3, <1>4, <1>5, <1>6

LEMMA OwnWillKeeps ==
  ASSUME Typed, Inv, NEW c \in Conns, OwnWill(c)
  PROVE  Inv'
<1>1. /\ pc[c] = "will"
      /\ pc' = [pc EXCEPT ![c] = "own_will"]
      /\ wills' = [d \in Conns |->
                     IF d = c /\ will[d] # {} THEN wills[d] + 1 ELSE wills[d]]
      /\ UNCHANGED <<sessions, subs, client, evicted>>
  BY ZenonT(60) DEF OwnWill, publish_will, Goto, connVars
<1> USE SMTT(60), <1>1 DEF Typed, Inv
<1>2. \A x \in Conns : Entry(x)' = Entry(x) /\ Unregistered(x)' = Unregistered(x)
  BY ZenonT(60) DEF Entry, Unregistered, Registering
<1>3. \A d, x \in Conns : Owes(d, x)' = Owes(d, x)
  BY ZenonT(60) DEF Owes
<1>4. EntriesAreLive'
  BY ZenonT(60) DEF EntriesAreLive
<1>5. EvictedInv' /\ HolderInv'
  BY <1>2, <1>3 DEF EvictedInv, HolderInv
<1>6. WillInv'
  <2>1. wills[c] = 0
    BY ZenonT(60) DEF WillInv, Undischarged
  <2>2. ~ Undischarged(c)'
    <3>1. Entry(c) \notin sessions
      BY ZenonT(60) DEF EntriesAreLive, Entry
    <3>2. \A d \in Conns : ~ Owes(d, c)
      BY ZenonT(60) DEF HolderInv
    <3>3. ~ Unregistered(c)
      BY ZenonT(60) DEF Unregistered, Registering
    <3> QED
      BY ZenonT(60), <1>2, <1>3, <3>1, <3>2, <3>3 DEF Undischarged
  <2>3. \A x \in Conns : x # c => (Undischarged(x)' => Undischarged(x))
    BY ZenonT(60), <1>2, <1>3 DEF Undischarged
  <2> QED
    BY <2>1, <2>2, <2>3 DEF WillInv, WillAtMostOnce
<1>7. OwnedSubscriptions'
  BY ZenonT(60) DEF OwnedSubscriptions, EntriesOf, Registering
<1> QED
  BY ZenonT(60), <1>4, <1>5, <1>6, <1>7

--------------------------------------------------------------------------------
IInv == TypeInv /\ Inv

LEMMA IInvInit == Init => IInv
<1> SUFFICES ASSUME Init PROVE Inv
  BY ZenonT(60), TypeInvInit DEF IInv
<1> USE DEF Init
<1>1. EntriesAreLive /\ OwnedSubscriptions
  BY ZenonT(60) DEF EntriesAreLive, OwnedSubscriptions
<1>2. EvictedInv /\ HolderInv
  BY ZenonT(60) DEF EvictedInv, HolderInv, Owes
<1>3. WillInv
  BY DEF WillInv, WillAtMostOnce
<1> QED
  BY ZenonT(60), <1>1, <1>2, <1>3 DEF Inv

LEMMA IInvNext == IInv /\ [Next]_vars => IInv'
<1> SUFFICES ASSUME IInv, [Next]_vars PROVE Inv'
  BY ZenonT(60), TypeInvNext DEF IInv
<1> USE DEF IInv
<1>1. Typed
  BY ZenonT(60), TypedInv
<1>2. CASE UNCHANGED vars
  BY ZenonT(60), <1>2, FrameKeeps DEF vars
<1>3. ASSUME NEW c \in Conns, Refuse(c) \/ Register(c)
      PROVE  Inv'
  BY ZenonT(60), <1>1, <1>3, RefuseKeeps, TakeOverKeeps, CloseEvictedKeeps, EvictWillKeeps,
     WipeSubscriptionsKeeps, InsertSessionKeeps, LoopKeeps DEF Register
<1>4. ASSUME NEW c \in Conns, ReadLoop(c)
      PROVE  Inv'
  BY ZenonT(60), <1>1, <1>4, LoopKeeps
<1>5. ASSUME NEW c \in Conns, Fanout(c)
      PROVE  Inv'
  <2>1. CASE WillPublished(c)
    BY ZenonT(60), <1>1, <2>1, WillPublishedKeeps
  <2>2. CASE ~ WillPublished(c)
    <3>1. UNCHANGED <<sessions, subs, pc, client, evicted, wills>>
      BY ZenonT(60), <1>5, <2>2 DEF Fanout, RunChain, Deliver, WorkerPublished, connVars
    <3> QED
      BY ZenonT(60), <3>1, FrameKeeps
  <2> QED
    BY ZenonT(60), <2>1, <2>2
<1>6. ASSUME NEW c \in Conns, TearDown(c)
      PROVE  Inv'
  BY ZenonT(60), <1>1, <1>6, LoopKeeps, UnregisterSessionKeeps, RemoveSubscriptionsKeeps,
     OwnWillKeeps DEF TearDown
<1>7. ASSUME NEW c \in Conns, WriterFails(c)
      PROVE  Inv'
  BY ZenonT(60), <1>7, FrameKeeps DEF WriterFails, connVars
<1> QED
  BY ZenonT(60), <1>2, <1>3, <1>4, <1>5, <1>6, <1>7 DEF Next

LEMMA IInvAlways == Spec => []IInv
BY IInvInit, IInvNext, PTL DEF Spec

\* However connections of one client overlap, the Will of a connection is
\* published at most once by register_session and unregister_session together.
THEOREM WillOnceCorrect == Spec => []WillAtMostOnce
<1>1. IInv => WillAtMostOnce
  BY ZenonT(60) DEF IInv, Inv, WillInv
<1> QED
  BY <1>1, IInvAlways, PTL

\* No path out of handle_server leaves its entry in the session table.
THEOREM EntriesCorrect == Spec => []EntriesAreLive
<1>1. IInv => EntriesAreLive
  BY ZenonT(60) DEF IInv, Inv
<1> QED
  BY <1>1, IInvAlways, PTL

\* No subscription outlives the sessions of its client.
THEOREM OwnedCorrect == Spec => []OwnedSubscriptions
<1>1. IInv => OwnedSubscriptions
  BY ZenonT(60) DEF IInv, Inv
<1> QED
  BY <1>1, IInvAlways, PTL

\* An entry is removed by its own connection or by a later CONNECT of its client,
\* never by the unregister_session of a connection that was taken over.
THEOREM StaleTeardownCorrect == Spec => StaleTeardownHarmless
<1> DEFINE Removal == \A s \in sessions \ sessions' :
                        \E d \in Conns :
                          /\ pc'[d] # pc[d]
                          /\ client[d] = s.client
                          /\ d = s.conn \/ pc[d] \in {"new", "inserting"}
<1>1. ASSUME IInv, Next PROVE Removal
  <2>1. Typed
    BY ZenonT(60), <1>1, TypedInv DEF IInv
  <2>2. PICK c \in Conns : \/ Refuse(c) \/ Register(c) \/ ReadLoop(c)
                          \/ WriterFails(c) \/ Fanout(c) \/ TearDown(c)
    BY ZenonT(60), <1>1 DEF Next
  <2>3. CASE TakeOver(c)
    BY ZenonT(60), <2>1, <2>3 DEF TakeOver, EntriesOf, Goto, Typed
  <2>4. CASE InsertSession(c)
    BY ZenonT(60), <2>1, <2>4 DEF InsertSession, EntriesOf, Goto, Typed
  <2>5. CASE UnregisterSession(c)
    BY <2>1, <2>5 DEF UnregisterSession, Entry, Goto, Typed
  <2>6. CASE UNCHANGED sessions
    BY ZenonT(60), <2>6
  <2> QED
    BY ZenonT(60), <2>2, <2>3, <2>4, <2>5, <2>6 DEF Refuse, Register, CloseEvicted, EvictWill,
       WipeSubscriptions, SendConnack, ReadLoop, CheckOpen, Subscribe, Unsubscribe,
       Publish, PublishQos2, Pubrel, Leave, WriterFails, Fanout, RunChain, Deliver, WorkerPublished, WillPublished,
       TearDown, CloseOwnChannel, JoinWorker, RemoveSubscriptions, OwnWill
<1>2. IInv /\ [Next]_vars => [Removal]_vars
  BY ZenonT(60), <1>1
<1> QED
  BY <1>2, IInvAlways, PTL DEF Spec, StaleTeardownHarmless

================================================================================
