------------------------------ MODULE BrokerFanout -----------------------------
(***************************************************************************)
(* The order in which subscribers are handed the publishes and the Will of *)
(* a connection, for any number of connections, clients and publishes.     *)
(*                                                                         *)
(* A publish passes through three places: the work queue, the one message  *)
(* its worker is fanning out, and the subscribers' queues.  Its number     *)
(* never exceeds the ones behind it.  A Will is fanned out by a handler,   *)
(* and by the connection's own handler only once its worker has ended.     *)
(***************************************************************************)
EXTENDS BrokerTables, SequenceTheorems

\* The obligations are many and large: the provers get more than their usual time.
USE SMTT(60)

\* Where a connection may have publishes that have not been fanned out.
Working == {"check", "select", "draining", "joining"}

\* The worker lives between CONNACK and its join; a connection that has not
\* registered has evicted nobody.
StageInv ==
  \A c \in Conns :
    /\ pc[c] \notin Working => work[c] = <<>> /\ carry[Worker(c)] = {}
    /\ pc[c] = "new" => evicted[c] = {}

\* The work queue holds publishes of its own connection, in the order
\* of their hand-over.
WorkInv ==
  \A c \in Conns :
    /\ \A i \in 1 .. Len(work[c]) :
         work[c][i].conn = c /\ 0 < work[c][i].n /\ work[c][i].n <= released[c]
    /\ \A i, j \in 1 .. Len(work[c]) : i < j => work[c][i].n < work[c][j].n

\* A worker fans out one publish at a time, older than what is queued.
WorkerInv ==
  \A c \in Conns : \A m \in carry[Worker(c)] :
    /\ m.conn = c /\ 0 < m.n /\ m.n <= released[c]
    /\ \A x \in carry[Worker(c)] : x = m
    /\ \A i \in 1 .. Len(work[c]) : m.n < work[c][i].n

\* A handler fans out its own connection's Will, or that of one it has evicted.
HandlerInv ==
  \A c \in Conns : \A m \in carry[Handler(c)] :
    /\ m.n = 0
    /\ (m.conn = c /\ pc[c] = "own_will") \/ m.conn \in evicted[c]

\* What a subscriber has been handed is not newer than what is still to come.
HandedInv ==
  \A c, d \in Conns : \A i \in 1 .. Len(outbox[d]) : IsPublishOf(outbox[d][i], c) =>
    /\ outbox[d][i].msg.n <= released[c]
    /\ \A j \in 1 .. Len(work[c]) : outbox[d][i].msg.n < work[c][j].n
    /\ \A m \in carry[Worker(c)] : outbox[d][i].msg.n <= m.n

Spared(c) == \A d \in Conns : c \notin evicted[d]

\* Nobody holds the Will of a connection that was not taken over before its own
\* handler publishes it.
WillHandedInv ==
  \A c, d \in Conns : \A i \in 1 .. Len(outbox[d]) :
    Spared(c) /\ IsWillOf(outbox[d][i], c) => pc[c] \in {"own_will", "done"}

FanoutInv ==
  /\ StageInv /\ WorkInv /\ WorkerInv /\ HandlerInv /\ HandedInv /\ WillHandedInv
  /\ PublishesKeepOrder /\ WillLastUnlessTakenOver

--------------------------------------------------------------------------------
(* What the steps below use of the types. *)

FTyped ==
  /\ pc \in [Conns -> PcValues]
  /\ evicted \in [Conns -> SUBSET Conns]
  /\ outbox \in [Conns -> Seq(Commands)]
  /\ work \in [Conns -> Seq(Messages)]
  /\ carry \in [Tasks -> SUBSET Messages]
  /\ released \in [Conns -> Nat]

LEMMA FTypedInv == TypeInv => FTyped
<1> SUFFICES ASSUME TypeInv PROVE FTyped
  BY ZenonT(60)
<1> QED
  BY ZenonT(60) DEF TypeInv, TypeOK, FTyped

LEMMA MessageFacts == \A m \in Messages : m.n \in Nat /\ m.conn \in Conns
BY BrokerAssumption DEF Messages

\* CONNACK is neither a publish nor a Will.
LEMMA ConnackFacts ==
  \A c \in Conns : ~ IsPublishOf([connack |-> TRUE], c) /\ ~ IsWillOf([connack |-> TRUE], c)
BY ZenonT(60) DEF IsPublishOf, IsWillOf

\* A PUBLISH is the publish or the Will its message is.
LEMMA PublishFacts ==
  ASSUME NEW m \in Messages, NEW c \in Conns
  PROVE  /\ IsPublishOf([msg |-> m], c) <=> (m.conn = c /\ m.n > 0)
         /\ IsWillOf([msg |-> m], c) <=> (m.conn = c /\ m.n = 0)
         /\ [msg |-> m].msg = m
BY ZenonT(60) DEF IsPublishOf, IsWillOf

LEMMA CommandFacts ==
  ASSUME NEW e \in Commands, NEW c \in Conns, IsPublishOf(e, c)
  PROVE  e.msg \in Messages /\ e.msg.n \in Nat /\ ~ IsWillOf(e, c)
<1>1. e \in [connack : {TRUE}] => ~ ("msg" \in DOMAIN e)
  BY ZenonT(60)
<1>2. e \in [msg : Messages]
  BY ZenonT(60), <1>1 DEF Commands, IsPublishOf
<1>3. e.msg \in Messages
  BY ZenonT(60), <1>2
<1>4. e.msg.n \in Nat
  BY ZenonT(60), <1>3, MessageFacts
<1> QED
  BY <1>3, <1>4 DEF IsPublishOf, IsWillOf

\* The tasks of the connections are distinct.
LEMMA TaskFacts ==
  \A c, d \in Conns :
    /\ Handler(c) \in Tasks /\ Worker(c) \in Tasks /\ Handler(c) # Worker(d)
    /\ Handler(c) = Handler(d) => c = d
    /\ Worker(c) = Worker(d) => c = d
BY ZenonT(60) DEF Handler, Worker, Tasks

\* One worker's carry changes.
LEMMA WorkerCarry ==
  ASSUME FTyped, NEW c \in Conns, NEW M, carry' = [carry EXCEPT ![Worker(c)] = M]
  PROVE  /\ carry'[Worker(c)] = M
         /\ \A d \in Conns : carry'[Handler(d)] = carry[Handler(d)]
         /\ \A d \in Conns : d # c => carry'[Worker(d)] = carry[Worker(d)]
BY TaskFacts, ZenonT(60) DEF FTyped

\* One handler's carry changes.
LEMMA HandlerCarry ==
  ASSUME FTyped, NEW c \in Conns, NEW M, carry' = [carry EXCEPT ![Handler(c)] = M]
  PROVE  /\ carry'[Handler(c)] = M
         /\ \A d \in Conns : carry'[Worker(d)] = carry[Worker(d)]
         /\ \A d \in Conns : d # c => carry'[Handler(d)] = carry[Handler(d)]
BY TaskFacts, ZenonT(60) DEF FTyped

\* The places of a sequence that grew by one.
LEMMA Appending ==
  ASSUME NEW S, NEW s \in Seq(S), NEW e \in S, NEW i \in 1 .. Len(Append(s, e))
  PROVE  /\ Len(s) \in Nat
         /\ \/ i = Len(s) + 1 /\ Append(s, e)[i] = e
            \/ i \in 1 .. Len(s) /\ Append(s, e)[i] = s[i]
<1>1. Len(s) \in Nat /\ Len(Append(s, e)) = Len(s) + 1
  BY ZenonT(60), LenProperties, AppendProperties
<1>2. CASE i = Len(s) + 1
  BY ZenonT(60), <1>1, <1>2, AppendProperties
<1>3. CASE i # Len(s) + 1
  <2>1. i \in 1 .. Len(s)
    BY <1>1, <1>3
  <2> QED
    BY ZenonT(60), <1>1, <2>1, AppendProperties
<1> QED
  BY ZenonT(60), <1>2, <1>3

--------------------------------------------------------------------------------
(* The steps that queue nothing, publish nothing and evict nobody. *)

LEMMA FrameFanout ==
  ASSUME FanoutInv, UNCHANGED <<outbox, work, carry, released, evicted, pc>>
  PROVE  FanoutInv'
<1> USE DEF FanoutInv
<1>1. StageInv' /\ WorkInv' /\ WorkerInv' /\ HandlerInv'
  BY ZenonT(60) DEF StageInv, WorkInv, WorkerInv, HandlerInv
<1>2. HandedInv' /\ WillHandedInv'
  BY ZenonT(60) DEF HandedInv, WillHandedInv, Spared
<1>3. PublishesKeepOrder' /\ WillLastUnlessTakenOver'
  BY ZenonT(60) DEF PublishesKeepOrder, WillLastUnlessTakenOver, WillComesLast
<1> QED
  BY ZenonT(60), <1>1, <1>2, <1>3

\* A handler moves on; it leaves the stretch in which its worker lives only when
\* the worker has nothing left.
LEMMA MoveFanout ==
  ASSUME FTyped, FanoutInv, UNCHANGED <<outbox, work, carry, released, evicted>>,
         NEW c \in Conns, NEW label, Goto(c, label), label # "new",
         pc[c] \notin {"own_will", "done"},
         \/ label \in Working
         \/ pc[c] \notin Working
         \/ work[c] = <<>> /\ carry[Worker(c)] = {}
  PROVE  FanoutInv'
<1> USE DEF FanoutInv
<1>p. \A d \in Conns : pc'[d] = IF d = c THEN label ELSE pc[d]
  BY ZenonT(60) DEF FTyped, Goto
<1>1. StageInv'
  BY ZenonT(60), <1>p DEF StageInv
<1>2. WorkInv' /\ WorkerInv' /\ HandedInv'
  BY ZenonT(60) DEF WorkInv, WorkerInv, HandedInv
<1>3. HandlerInv'
  BY ZenonT(60), <1>p DEF HandlerInv
<1>4. WillHandedInv'
  BY ZenonT(60), <1>p DEF WillHandedInv, Spared
<1>5. PublishesKeepOrder' /\ WillLastUnlessTakenOver'
  BY ZenonT(60) DEF PublishesKeepOrder, WillLastUnlessTakenOver, WillComesLast
<1> QED
  BY ZenonT(60), <1>1, <1>2, <1>3, <1>4, <1>5

\* The steps of a handler that only move it on.
LEMMA HandlerMoves ==
  ASSUME FTyped, FanoutInv, NEW c \in Conns,
         \/ Refuse(c) \/ CloseEvicted(c) \/ WipeSubscriptions(c) \/ InsertSession(c)
         \/ CheckOpen(c) \/ (\E f \in Filters : Subscribe(c, f) \/ Unsubscribe(c, f))
         \/ (\E t \in Topics : PublishQos2(c, t))
         \/ (\E g \in BOOLEAN : Leave(c, g)) \/ CloseOwnChannel(c) \/ JoinWorker(c)
         \/ UnregisterSession(c) \/ RemoveSubscriptions(c)
  PROVE  FanoutInv'
<1> USE DEF Working
<1> DEFINE MovesTo(label) ==
             /\ UNCHANGED <<outbox, work, carry, released, evicted>>
             /\ Goto(c, label) /\ label # "new" /\ pc[c] \notin {"own_will", "done"}
             /\ \/ label \in Working
                \/ pc[c] \notin Working
                \/ work[c] = <<>> /\ carry[Worker(c)] = {}
<1>1. \E label : MovesTo(label)
  <2> USE DEF Goto, fanoutVars, inboundVars
  <2>1. CASE Refuse(c)
    BY ZenonT(60), <2>1 DEF Refuse
  <2>2. CASE CloseEvicted(c)
    BY ZenonT(60), <2>2 DEF CloseEvicted
  <2>3. CASE WipeSubscriptions(c)
    BY ZenonT(60), <2>3 DEF WipeSubscriptions
  <2>4. CASE InsertSession(c)
    BY ZenonT(60), <2>4 DEF InsertSession
  <2>5. CASE CheckOpen(c)
    BY ZenonT(60), <2>5 DEF CheckOpen
  <2>6. ASSUME NEW f \in Filters, Subscribe(c, f) PROVE \E label : MovesTo(label)
    BY ZenonT(60), <2>6 DEF Subscribe
  <2>7. ASSUME NEW f \in Filters, Unsubscribe(c, f) PROVE \E label : MovesTo(label)
    BY ZenonT(60), <2>7 DEF Unsubscribe
  <2>8. ASSUME NEW g \in BOOLEAN, Leave(c, g) PROVE \E label : MovesTo(label)
    BY ZenonT(60), <2>8 DEF Leave
  <2>9. CASE CloseOwnChannel(c)
    BY ZenonT(60), <2>9 DEF CloseOwnChannel
  <2>10. CASE JoinWorker(c)
    BY ZenonT(60), <2>10 DEF JoinWorker
  <2>11. CASE UnregisterSession(c)
    BY ZenonT(60), <2>11 DEF UnregisterSession
  <2>12. CASE RemoveSubscriptions(c)
    BY ZenonT(60), <2>12 DEF RemoveSubscriptions
  <2>13. ASSUME NEW t \in Topics, PublishQos2(c, t) PROVE \E label : MovesTo(label)
    BY ZenonT(60), <2>13 DEF PublishQos2
  <2> QED
    BY ZenonT(60), <2>1, <2>2, <2>3, <2>4, <2>5, <2>6, <2>7, <2>8, <2>9, <2>10, <2>11, <2>12, <2>13
<1> QED
  BY ZenonT(60), <1>1, MoveFanout

\* A takeover: more connections are evicted, none fewer.
LEMMA TakeOverFanout ==
  ASSUME FTyped, FanoutInv, NEW c \in Conns, TakeOver(c)
  PROVE  FanoutInv'
<1> USE DEF FanoutInv
<1> DEFINE prev == {s.conn : s \in EntriesOf(client[c])}
<1>1. /\ pc[c] = "new" /\ UNCHANGED <<outbox, work, carry, released>>
      /\ evicted' = [evicted EXCEPT ![c] = prev]
      /\ pc' = [pc EXCEPT ![c] = IF prev = {} THEN "wiping" ELSE "superseding"]
  BY ZenonT(60) DEF TakeOver, Goto, fanoutVars, inboundVars
<1> HIDE DEF prev
<1>2. /\ \A d \in Conns : d # c => pc'[d] = pc[d] /\ evicted'[d] = evicted[d]
      /\ pc'[c] \in {"wiping", "superseding"}
  BY ZenonT(60), <1>1 DEF FTyped
<1>3. work[c] = <<>> /\ carry[Worker(c)] = {} /\ evicted[c] = {}
  BY ZenonT(60), <1>1 DEF StageInv, Working
<1>4. \A d \in Conns : evicted[d] \subseteq evicted'[d]
  BY ZenonT(60), <1>2, <1>3
<1>5. \A x \in Conns : Spared(x)' => Spared(x)
  BY ZenonT(60), <1>4 DEF Spared
<1>6. StageInv'
  BY ZenonT(60), <1>1, <1>2, <1>3 DEF StageInv
<1>7. WorkInv' /\ WorkerInv' /\ HandedInv' /\ PublishesKeepOrder'
  BY ZenonT(60), <1>1 DEF WorkInv, WorkerInv, HandedInv, PublishesKeepOrder
<1>8. HandlerInv'
  BY ZenonT(60), <1>1, <1>2, <1>4 DEF HandlerInv
<1>9. WillHandedInv'
  BY ZenonT(60), <1>1, <1>2, <1>5 DEF WillHandedInv
<1>10. WillLastUnlessTakenOver'
  <2>1. \A x \in Conns : WillComesLast(x) => WillComesLast(x)'
    BY ZenonT(60), <1>1 DEF WillComesLast
  <2> QED
    BY ZenonT(60), <1>5, <2>1 DEF WillLastUnlessTakenOver, Spared
<1> QED
  BY ZenonT(60), <1>6, <1>7, <1>8, <1>9, <1>10

\* A handler enters publish_will with the Wills of D.
LEMMA WillFanout ==
  ASSUME FTyped, FanoutInv, NEW c \in Conns, NEW D \in SUBSET Conns, NEW label,
         publish_will(Handler(c), D), UNCHANGED <<outbox, work, released, evicted>>,
         Goto(c, label), label # "new", label \notin Working,
         pc[c] \notin Working \cup {"own_will", "done"},
         D = evicted[c] \/ (D = {c} /\ label = "own_will")
  PROVE  FanoutInv'
<1> USE DEF FanoutInv
<1> DEFINE M == UNION {WillOf(d) : d \in D}
<1>1. carry' = [carry EXCEPT ![Handler(c)] = M]
  BY ZenonT(60) DEF publish_will, StartPublish
<1>2. \A m \in M : m.n = 0 /\ m.conn \in D
  BY DEF WillOf
<1> HIDE DEF M
<1>3. /\ carry'[Handler(c)] = M
      /\ \A d \in Conns : carry'[Worker(d)] = carry[Worker(d)]
      /\ \A d \in Conns : d # c => carry'[Handler(d)] = carry[Handler(d)]
  BY ZenonT(60), <1>1, HandlerCarry
<1>p. \A d \in Conns : pc'[d] = IF d = c THEN label ELSE pc[d]
  BY ZenonT(60) DEF FTyped, Goto
<1>4. StageInv'
  BY ZenonT(60), <1>3, <1>p DEF StageInv
<1>5. WorkInv' /\ PublishesKeepOrder' /\ WillLastUnlessTakenOver'
  BY ZenonT(60) DEF WorkInv, PublishesKeepOrder, WillLastUnlessTakenOver, WillComesLast
<1>6. WorkerInv' /\ HandedInv'
  BY ZenonT(60), <1>3 DEF WorkerInv, HandedInv
<1>7. HandlerInv'
  <2>1. ASSUME NEW m \in M
        PROVE  m.n = 0 /\ ((m.conn = c /\ pc'[c] = "own_will") \/ m.conn \in evicted[c])
    BY ZenonT(60), <1>2, <1>p, <2>1
  <2> QED
    BY ZenonT(60), <1>3, <1>p, <2>1 DEF HandlerInv
<1>8. WillHandedInv'
  BY ZenonT(60), <1>p DEF WillHandedInv, Spared
<1> QED
  BY ZenonT(60), <1>4, <1>5, <1>6, <1>7, <1>8

LEMMA WillsFanout ==
  ASSUME FTyped, FanoutInv, NEW c \in Conns, EvictWill(c) \/ OwnWill(c)
  PROVE  FanoutInv'
<1>1. CASE EvictWill(c)
  <2>1. evicted[c] \in SUBSET Conns
    BY ZenonT(60) DEF FTyped
  <2>2. /\ publish_will(Handler(c), evicted[c]) /\ pc[c] = "evicting" /\ Goto(c, "evict_will")
        /\ UNCHANGED <<outbox, work, released, evicted>>
    BY ZenonT(60), <1>1 DEF EvictWill, inboundVars
  <2> QED
    BY ZenonT(60), <2>1, <2>2, WillFanout DEF Working
<1>2. CASE OwnWill(c)
  <2>1. /\ publish_will(Handler(c), {c}) /\ pc[c] = "will" /\ Goto(c, "own_will")
        /\ UNCHANGED <<outbox, work, released, evicted>>
    BY ZenonT(60), <1>2 DEF OwnWill, inboundVars
  <2> QED
    BY ZenonT(60), <2>1, WillFanout DEF Working
<1> QED
  BY ZenonT(60), <1>1, <1>2

\* What a reader hands over is newer than all before it.
LEMMA HandOverFanout ==
  ASSUME FTyped, FanoutInv, NEW c \in Conns, NEW m \in Stashed, HandOver(c, m),
         pc[c] = "select", Goto(c, "check"), UNCHANGED <<outbox, carry, evicted>>
  PROVE  FanoutInv'
<1> USE DEF FanoutInv
<1> DEFINE msg == [conn |-> c, n |-> released[c] + 1, sent |-> m.sent, topic |-> m.topic]
<1>1. /\ UNCHANGED <<outbox, carry, evicted>>
      /\ pc[c] = "select" /\ pc' = [pc EXCEPT ![c] = "check"]
      /\ released' = [released EXCEPT ![c] = released[c] + 1]
      /\ work' = [work EXCEPT ![c] = Append(work[c], msg)]
  BY ZenonT(60) DEF HandOver, Goto
<1>0. released[c] + 1 \in Nat
  BY DEF FTyped
<1>m. msg \in Messages /\ msg.conn = c /\ msg.n = released[c] + 1
  BY ZenonT(60), <1>0 DEF Messages, Stashed
<1> HIDE DEF msg
<1>2. /\ \A d \in Conns : d # c => work'[d] = work[d] /\ released'[d] = released[d] /\ pc'[d] = pc[d]
      /\ work'[c] = Append(work[c], msg) /\ released'[c] = released[c] + 1 /\ pc'[c] = "check"
      /\ released[c] \in Nat /\ work[c] \in Seq(Messages)
  BY ZenonT(60), <1>1 DEF FTyped
<1>3. ASSUME NEW i \in 1 .. Len(work'[c])
      PROVE  /\ Len(work[c]) \in Nat
             /\ \/ i = Len(work[c]) + 1 /\ work'[c][i] = msg
                \/ i \in 1 .. Len(work[c]) /\ work'[c][i] = work[c][i]
  BY <1>m, <1>2, Appending
<1>4. \A i \in 1 .. Len(work[c]) : work[c][i] \in Messages /\ work[c][i].n \in Nat
  BY <1>2, MessageFacts
<1>5. StageInv'
  BY ZenonT(60), <1>1, <1>2 DEF StageInv, Working
<1>6. WorkInv'
  <2>1. ASSUME NEW i \in 1 .. Len(work'[c])
        PROVE  work'[c][i].conn = c /\ 0 < work'[c][i].n /\ work'[c][i].n <= released'[c]
    <3>1. CASE work'[c][i] = msg
      BY <1>m, <1>2, <3>1
    <3>2. CASE i \in 1 .. Len(work[c]) /\ work'[c][i] = work[c][i]
      BY <1>2, <1>4, <3>2 DEF WorkInv
    <3> QED
      BY ZenonT(60), <1>3, <3>1, <3>2
  <2>2. ASSUME NEW i \in 1 .. Len(work'[c]), NEW j \in 1 .. Len(work'[c]), i < j
        PROVE  work'[c][i].n < work'[c][j].n
    <3>1. i \in 1 .. Len(work[c]) /\ work'[c][i] = work[c][i]
      BY <1>3, <2>2
    <3>2. work[c][i].n \in Nat /\ work[c][i].n <= released[c]
      BY ZenonT(60), <1>4, <3>1 DEF WorkInv
    <3>3. CASE work'[c][j] = msg
      BY <1>m, <1>2, <3>1, <3>2, <3>3
    <3>4. CASE j \in 1 .. Len(work[c]) /\ work'[c][j] = work[c][j]
      BY ZenonT(60), <2>2, <3>1, <3>4 DEF WorkInv
    <3> QED
      BY ZenonT(60), <1>3, <3>3, <3>4
  <2> QED
    BY ZenonT(60), <1>2, <2>1, <2>2 DEF WorkInv
<1>7. WorkerInv'
  <2>1. ASSUME NEW w \in carry[Worker(c)]
        PROVE  /\ w.conn = c /\ 0 < w.n /\ w.n <= released'[c]
               /\ \A x \in carry[Worker(c)] : x = w
               /\ \A i \in 1 .. Len(work'[c]) : w.n < work'[c][i].n
    <3>1. w.n \in Nat
      BY ZenonT(60), TaskFacts, MessageFacts DEF FTyped
    <3>2. w.n <= released[c] /\ \A i \in 1 .. Len(work[c]) : w.n < work[c][i].n
      BY ZenonT(60) DEF WorkerInv
    <3>3. w.n <= released'[c] /\ w.n < released[c] + 1
      BY <1>2, <3>1, <3>2
    <3>4. \A i \in 1 .. Len(work'[c]) : w.n < work'[c][i].n
      BY ZenonT(60), <1>m, <1>3, <3>2, <3>3
    <3>5. w.conn = c /\ 0 < w.n /\ \A x \in carry[Worker(c)] : x = w
      BY ZenonT(60) DEF WorkerInv
    <3> QED
      BY ZenonT(60), <3>3, <3>4, <3>5
  <2> QED
    BY <1>1, <1>2, <2>1 DEF WorkerInv
<1>8. HandlerInv'
  BY ZenonT(60), <1>1, <1>2 DEF HandlerInv
<1>9. HandedInv'
  <2>1. ASSUME NEW d \in Conns, NEW i \in 1 .. Len(outbox[d]), IsPublishOf(outbox[d][i], c)
        PROVE  /\ outbox[d][i].msg.n <= released'[c]
               /\ \A j \in 1 .. Len(work'[c]) : outbox[d][i].msg.n < work'[c][j].n
               /\ \A w \in carry[Worker(c)] : outbox[d][i].msg.n <= w.n
    <3>1. outbox[d][i] \in Commands
      BY DEF FTyped
    <3>2. outbox[d][i].msg.n \in Nat
      BY ZenonT(60), <2>1, <3>1, CommandFacts
    <3>3. /\ outbox[d][i].msg.n <= released[c]
          /\ \A j \in 1 .. Len(work[c]) : outbox[d][i].msg.n < work[c][j].n
          /\ \A w \in carry[Worker(c)] : outbox[d][i].msg.n <= w.n
      BY ZenonT(60), <2>1 DEF HandedInv
    <3>4. outbox[d][i].msg.n <= released'[c] /\ outbox[d][i].msg.n < released[c] + 1
      BY <1>2, <3>2, <3>3
    <3>5. \A j \in 1 .. Len(work'[c]) : outbox[d][i].msg.n < work'[c][j].n
      BY ZenonT(60), <1>m, <1>3, <3>3, <3>4
    <3> QED
      BY ZenonT(60), <3>3, <3>4, <3>5
  <2> QED
    BY <1>1, <1>2, <2>1 DEF HandedInv
<1>10. WillHandedInv'
  BY ZenonT(60), <1>1, <1>2 DEF WillHandedInv, Spared
<1>11. PublishesKeepOrder' /\ WillLastUnlessTakenOver'
  BY ZenonT(60), <1>1 DEF PublishesKeepOrder, WillLastUnlessTakenOver, WillComesLast
<1> QED
  BY ZenonT(60), <1>5, <1>6, <1>7, <1>8, <1>9, <1>10, <1>11

\* A command e is queued to some subscribers: behind every publish of its
\* connection, and ahead of the Will unless the connection was taken over.
LEMMA GrowFanout ==
  ASSUME FTyped, FanoutInv, UNCHANGED <<work, carry, released, evicted>>, NEW e \in Commands,
         \A d \in Conns : outbox'[d] = outbox[d] \/ outbox'[d] = Append(outbox[d], e),
         \A x \in Conns : IsPublishOf(e, x) =>
           /\ e.msg.n <= released[x]
           /\ \A j \in 1 .. Len(work[x]) : e.msg.n < work[x][j].n
           /\ \A m \in carry[Worker(x)] : e.msg.n <= m.n
           /\ \A d \in Conns : \A i \in 1 .. Len(outbox[d]) :
                IsPublishOf(outbox[d][i], x) => outbox[d][i].msg.n <= e.msg.n
           /\ pc[x] \notin {"own_will", "done"},
         \A x \in Conns : pc[x] \in {"own_will", "done"} => pc'[x] \in {"own_will", "done"},
         \A x \in Conns : IsWillOf(e, x) /\ Spared(x) => pc'[x] \in {"own_will", "done"}
  PROVE  HandedInv' /\ WillHandedInv' /\ PublishesKeepOrder' /\ WillLastUnlessTakenOver'
<1> USE DEF FanoutInv
<1>1. ASSUME NEW d \in Conns, NEW i \in 1 .. Len(outbox'[d])
      PROVE  \/ i = Len(outbox[d]) + 1 /\ outbox'[d][i] = e
             \/ i \in 1 .. Len(outbox[d]) /\ outbox'[d][i] = outbox[d][i]
  <2>1. outbox[d] \in Seq(Commands)
    BY ZenonT(60) DEF FTyped
  <2>2. CASE outbox'[d] = outbox[d]
    BY ZenonT(60), <1>1, <2>2
  <2>3. CASE outbox'[d] = Append(outbox[d], e)
    BY <1>1, <2>1, <2>3, Appending
  <2> QED
    BY ZenonT(60), <2>2, <2>3
<1>2. \A d \in Conns : Len(outbox[d]) \in Nat
  BY ZenonT(60), LenProperties DEF FTyped
<1>3. HandedInv'
  <2> SUFFICES ASSUME NEW c \in Conns, NEW d \in Conns, NEW i \in 1 .. Len(outbox'[d]),
                      IsPublishOf(outbox'[d][i], c)
               PROVE  /\ outbox'[d][i].msg.n <= released[c]
                      /\ \A j \in 1 .. Len(work[c]) : outbox'[d][i].msg.n < work[c][j].n
                      /\ \A m \in carry[Worker(c)] : outbox'[d][i].msg.n <= m.n
    BY ZenonT(60) DEF HandedInv
  <2>1. CASE outbox'[d][i] = e
    BY ZenonT(60), <2>1
  <2>2. CASE i \in 1 .. Len(outbox[d]) /\ outbox'[d][i] = outbox[d][i]
    BY ZenonT(60), <2>2 DEF HandedInv
  <2> QED
    BY ZenonT(60), <1>1, <2>1, <2>2
<1>4. PublishesKeepOrder'
  <2> SUFFICES ASSUME NEW c \in Conns, NEW d \in Conns,
                      NEW i \in 1 .. Len(outbox'[d]), NEW j \in 1 .. Len(outbox'[d]), i < j,
                      IsPublishOf(outbox'[d][i], c), IsPublishOf(outbox'[d][j], c)
               PROVE  outbox'[d][i].msg.n <= outbox'[d][j].msg.n
    BY ZenonT(60) DEF PublishesKeepOrder
  <2>1. i \in 1 .. Len(outbox[d]) /\ outbox'[d][i] = outbox[d][i]
    BY <1>1, <1>2
  <2>2. CASE outbox'[d][j] = e
    BY ZenonT(60), <2>1, <2>2
  <2>3. CASE j \in 1 .. Len(outbox[d]) /\ outbox'[d][j] = outbox[d][j]
    BY ZenonT(60), <2>1, <2>3 DEF PublishesKeepOrder
  <2> QED
    BY ZenonT(60), <1>1, <2>2, <2>3
<1>5. \A x \in Conns : Spared(x)' <=> Spared(x)
  BY ZenonT(60) DEF Spared
<1>6. WillHandedInv'
  <2> SUFFICES ASSUME NEW c \in Conns, NEW d \in Conns, NEW i \in 1 .. Len(outbox'[d]),
                      Spared(c), IsWillOf(outbox'[d][i], c)
               PROVE  pc'[c] \in {"own_will", "done"}
    BY ZenonT(60), <1>5 DEF WillHandedInv
  <2>1. CASE outbox'[d][i] = e
    BY ZenonT(60), <2>1
  <2>2. CASE i \in 1 .. Len(outbox[d]) /\ outbox'[d][i] = outbox[d][i]
    BY ZenonT(60), <2>2 DEF WillHandedInv
  <2> QED
    BY ZenonT(60), <1>1, <2>1, <2>2
<1>7. WillLastUnlessTakenOver'
  <2> SUFFICES ASSUME NEW c \in Conns, Spared(c), NEW d \in Conns,
                      NEW i \in 1 .. Len(outbox'[d]), NEW j \in 1 .. Len(outbox'[d]),
                      IsWillOf(outbox'[d][i], c), IsPublishOf(outbox'[d][j], c)
               PROVE  j < i
    BY ZenonT(60), <1>5 DEF WillLastUnlessTakenOver, WillComesLast, Spared
  <2>1. CASE outbox'[d][j] = e
    <3>1. pc[c] \notin {"own_will", "done"} /\ ~ IsWillOf(e, c)
      BY ZenonT(60), <2>1, CommandFacts
    <3>2. i \in 1 .. Len(outbox[d]) /\ outbox'[d][i] = outbox[d][i]
      BY ZenonT(60), <1>1, <3>1
    <3> QED
      BY ZenonT(60), <3>1, <3>2 DEF WillHandedInv
  <2>2. CASE j \in 1 .. Len(outbox[d]) /\ outbox'[d][j] = outbox[d][j]
    <3>1. CASE i = Len(outbox[d]) + 1
      BY <1>2, <2>2, <3>1
    <3>2. CASE i \in 1 .. Len(outbox[d]) /\ outbox'[d][i] = outbox[d][i]
      BY ZenonT(60), <2>2, <3>2 DEF WillLastUnlessTakenOver, WillComesLast, Spared
    <3> QED
      BY ZenonT(60), <1>1, <3>1, <3>2
  <2> QED
    BY ZenonT(60), <1>1, <2>1, <2>2
<1> QED
  BY ZenonT(60), <1>3, <1>4, <1>6, <1>7

LEMMA SendConnackFanout ==
  ASSUME FTyped, FanoutInv, NEW c \in Conns, SendConnack(c)
  PROVE  FanoutInv'
<1> USE DEF FanoutInv
<1> DEFINE ack == [connack |-> TRUE]
<1>1. /\ pc[c] = "connack" /\ UNCHANGED <<work, carry, released, evicted>>
      /\ \E label \in {"check", "unregistering"} : pc' = [pc EXCEPT ![c] = label]
      /\ \/ outbox' = [outbox EXCEPT ![c] = Append(outbox[c], ack)]
         \/ outbox' = outbox
  <2>1. pc[c] = "connack" /\ UNCHANGED <<work, carry, released, evicted>>
    BY ZenonT(60) DEF SendConnack, fanoutVars, inboundVars
  <2>2. \E label \in {"check", "unregistering"} : pc' = [pc EXCEPT ![c] = label]
    BY ZenonT(60) DEF SendConnack, Goto
  <2>3. \/ outbox' = [outbox EXCEPT ![c] = Append(outbox[c], ack)]
        \/ outbox' = [outbox EXCEPT ![c] = outbox[c]]
        \/ outbox' = outbox
    BY ZenonT(60) DEF SendConnack
  <2>4. [outbox EXCEPT ![c] = outbox[c]] = outbox
    BY ZenonT(60) DEF FTyped
  <2> HIDE DEF ack
  <2> QED
    BY <2>1, <2>2, <2>3, <2>4, ZenonT(60)
<1>2. /\ \A d \in Conns : d # c => pc'[d] = pc[d]
      /\ pc'[c] \in {"check", "unregistering"}
      /\ \A d \in Conns : outbox'[d] = outbox[d] \/ outbox'[d] = Append(outbox[d], ack)
  BY ZenonT(60), <1>1 DEF FTyped
<1>3. work[c] = <<>> /\ carry[Worker(c)] = {}
  BY ZenonT(60), <1>1 DEF StageInv, Working
<1>4. ack \in Commands /\ \A x \in Conns : ~ IsPublishOf(ack, x) /\ ~ IsWillOf(ack, x)
  BY ZenonT(60), ConnackFacts DEF Commands
<1> HIDE DEF ack
<1>5. \A x \in Conns : pc[x] \in {"own_will", "done"} => pc'[x] \in {"own_will", "done"}
  BY ZenonT(60), <1>1, <1>2
<1>6. HandedInv' /\ WillHandedInv' /\ PublishesKeepOrder' /\ WillLastUnlessTakenOver'
  BY ZenonT(60), <1>1, <1>2, <1>4, <1>5, GrowFanout
<1>7. StageInv'
  BY ZenonT(60), <1>1, <1>2, <1>3 DEF StageInv
<1>8. WorkInv' /\ WorkerInv'
  BY ZenonT(60), <1>1 DEF WorkInv, WorkerInv
<1>9. HandlerInv'
  BY ZenonT(60), <1>1, <1>2 DEF HandlerInv
<1> QED
  BY ZenonT(60), <1>6, <1>7, <1>8, <1>9

\* A delivery queues the message its task carries.
LEMMA DeliverFanout ==
  ASSUME TypeInv, FTyped, FanoutInv, NEW c \in Conns, NEW t \in {Handler(c), Worker(c)},
         NEW p \in todo[t], Deliver(t, p)
  PROVE  FanoutInv'
<1> USE DEF FanoutInv
<1>1. t \in Tasks /\ todo[t] # {}
  BY ZenonT(60), TaskFacts
<1>2. carry[t] # {} /\ carry[t] \subseteq Messages
  BY ZenonT(60), <1>1 DEF TypeInv, CarryInv, FTyped
<1> DEFINE m == CHOOSE x \in carry[t] : TRUE
<1> DEFINE e == [msg |-> m]
<1>3. m \in carry[t] /\ m \in Messages
  BY ZenonT(60), <1>2
<1>4. /\ UNCHANGED <<pc, work, carry, released, evicted>>
      /\ outbox' = [d \in Conns |->
                      IF d \in Receivers(t, p) THEN Append(outbox[d], e) ELSE outbox[d]]
  BY ZenonT(60) DEF Deliver, inboundVars
<1>5. e \in Commands /\ e.msg = m
  BY ZenonT(60), <1>3 DEF Commands
<1> HIDE DEF m
<1>6. \A x \in Conns : /\ IsPublishOf(e, x) <=> (m.conn = x /\ m.n > 0)
                       /\ IsWillOf(e, x) <=> (m.conn = x /\ m.n = 0)
  BY ZenonT(60), <1>3, PublishFacts
<1> HIDE DEF e
<1>7. \A d \in Conns : outbox'[d] = outbox[d] \/ outbox'[d] = Append(outbox[d], e)
  BY ZenonT(60), <1>4
<1>8. StageInv' /\ WorkInv' /\ WorkerInv' /\ HandlerInv'
  BY ZenonT(60), <1>4 DEF StageInv, WorkInv, WorkerInv, HandlerInv
<1>n. m.n \in Nat
  BY ZenonT(60), <1>3, MessageFacts
<1>9. CASE t = Handler(c)
  <2>1. m.n = 0 /\ ((m.conn = c /\ pc[c] = "own_will") \/ m.conn \in evicted[c])
    BY ZenonT(60), <1>3, <1>9 DEF HandlerInv
  <2>2. \A x \in Conns : ~ IsPublishOf(e, x)
    <3>1. ~ (m.n > 0)
      BY <2>1
    <3> QED
      BY <1>6, <3>1, ZenonT(60)
  <2>3. \A x \in Conns : IsWillOf(e, x) /\ Spared(x) => pc[x] \in {"own_will", "done"}
    BY ZenonT(60), <1>6, <2>1 DEF Spared
  <2> QED
    BY ZenonT(60), <1>4, <1>5, <1>7, <1>8, <2>2, <2>3, GrowFanout
<1>10. CASE t = Worker(c)
  <2>1. /\ m.conn = c /\ 0 < m.n /\ m.n <= released[c]
        /\ \A x \in carry[Worker(c)] : x = m
        /\ \A i \in 1 .. Len(work[c]) : m.n < work[c][i].n
    BY ZenonT(60), <1>3, <1>10 DEF WorkerInv
  <2>2. pc[c] \in Working
    BY ZenonT(60), <1>2, <1>10 DEF StageInv
  <2>3. \A x \in Conns : ~ IsWillOf(e, x)
    <3>1. m.n # 0
      BY <1>n, <2>1
    <3> QED
      BY <1>6, <3>1, ZenonT(60)
  <2>4. \A d \in Conns : \A i \in 1 .. Len(outbox[d]) :
          IsPublishOf(outbox[d][i], c) => outbox[d][i].msg.n <= m.n
    BY ZenonT(60), <1>3, <1>10 DEF HandedInv
  <2>5. m.n <= m.n
    BY <1>n
  <2>6. \A x \in Conns : IsPublishOf(e, x) =>
           /\ e.msg.n <= released[x]
           /\ \A j \in 1 .. Len(work[x]) : e.msg.n < work[x][j].n
           /\ \A y \in carry[Worker(x)] : e.msg.n <= y.n
           /\ \A d \in Conns : \A i \in 1 .. Len(outbox[d]) :
                IsPublishOf(outbox[d][i], x) => outbox[d][i].msg.n <= e.msg.n
           /\ pc[x] \notin {"own_will", "done"}
    <3> SUFFICES ASSUME IsPublishOf(e, c) PROVE
           /\ e.msg.n <= released[c]
           /\ \A j \in 1 .. Len(work[c]) : e.msg.n < work[c][j].n
           /\ \A y \in carry[Worker(c)] : e.msg.n <= y.n
           /\ \A d \in Conns : \A i \in 1 .. Len(outbox[d]) :
                IsPublishOf(outbox[d][i], c) => outbox[d][i].msg.n <= e.msg.n
           /\ pc[c] \notin {"own_will", "done"}
      BY ZenonT(60), <1>6, <2>1
    <3>1. pc[c] \notin {"own_will", "done"}
      BY ZenonT(60), <2>2 DEF Working
    <3>2. \A y \in carry[Worker(c)] : e.msg.n <= y.n
      BY ZenonT(60), <1>5, <2>1, <2>5
    <3> QED
      BY ZenonT(60), <1>5, <2>1, <2>4, <3>1, <3>2
  <2> QED
    BY ZenonT(60), <1>4, <1>5, <1>7, <1>8, <2>3, <2>6, GrowFanout
<1> QED
  BY ZenonT(60), <1>9, <1>10

\* The oldest queued publish goes into the worker's hands, or is suppressed.
LEMMA RunChainFanout ==
  ASSUME FTyped, FanoutInv, NEW c \in Conns, NEW fanout \in BOOLEAN, NEW t \in Topics,
         RunChain(c, fanout, t)
  PROVE  FanoutInv'
<1> USE DEF FanoutInv
<1> DEFINE M == IF fanout THEN {[Head(work[c]) EXCEPT !.topic = t]} ELSE {}
<1>1. /\ work[c] # <<>> /\ carry[Worker(c)] = {}
      /\ UNCHANGED <<pc, outbox, released, evicted>>
      /\ work' = [work EXCEPT ![c] = Tail(work[c])]
      /\ carry' = [carry EXCEPT ![Worker(c)] = M]
  BY ZenonT(60) DEF RunChain, StartPublish, inboundVars
<1>2. /\ work[c] \in Seq(Messages) /\ Len(work[c]) \in Nat /\ Len(work[c]) >= 1
  <2>1. work[c] \in Seq(Messages)
    BY ZenonT(60) DEF FTyped
  <2> QED
    BY <1>1, <2>1, LenProperties, EmptySeq
<1>3. /\ Head(work[c]) = work[c][1] /\ work[c][1] \in Messages
      /\ Len(Tail(work[c])) = Len(work[c]) - 1
      /\ \A i \in 1 .. Len(Tail(work[c])) : Tail(work[c])[i] = work[c][i + 1]
  BY <1>2, HeadTailProperties
<1>4. \A m \in M : /\ m.conn = work[c][1].conn /\ m.n = work[c][1].n
                   /\ \A x \in M : x = m
  BY ZenonT(60), <1>3 DEF Messages
<1> HIDE DEF M
<1>5. /\ carry'[Worker(c)] = M
      /\ \A d \in Conns : carry'[Handler(d)] = carry[Handler(d)]
      /\ \A d \in Conns : d # c => carry'[Worker(d)] = carry[Worker(d)]
  BY ZenonT(60), <1>1, WorkerCarry
<1>6. /\ \A d \in Conns : d # c => work'[d] = work[d]
      /\ Len(work'[c]) = Len(work[c]) - 1
      /\ \A i \in 1 .. Len(work'[c]) : i + 1 \in 1 .. Len(work[c]) /\ 1 < i + 1 /\ work'[c][i] = work[c][i + 1]
  BY <1>1, <1>2, <1>3 DEF FTyped
<1>7. 1 \in 1 .. Len(work[c])
  BY <1>2
<1>8. StageInv'
  <2>1. pc[c] \in Working
    BY ZenonT(60), <1>1 DEF StageInv
  <2> QED
    BY ZenonT(60), <1>1, <1>5, <1>6, <2>1 DEF StageInv
<1>9. WorkInv'
  <2>1. ASSUME NEW i \in 1 .. Len(work'[c]), NEW j \in 1 .. Len(work'[c]), i < j
        PROVE  work'[c][i].n < work'[c][j].n
    <3>1. i + 1 < j + 1
      BY <2>1
    <3>2. work[c][i + 1].n < work[c][j + 1].n
      BY ZenonT(60), <1>6, <3>1 DEF WorkInv
    <3> QED
      BY ZenonT(60), <1>6, <3>2
  <2>2. ASSUME NEW i \in 1 .. Len(work'[c])
        PROVE  work'[c][i].conn = c /\ 0 < work'[c][i].n /\ work'[c][i].n <= released[c]
    BY <1>6, <2>2 DEF WorkInv
  <2> QED
    BY <1>1, <1>6, <2>1, <2>2 DEF WorkInv
<1>10. WorkerInv'
  <2>1. ASSUME NEW m \in M
        PROVE  /\ m.conn = c /\ 0 < m.n /\ m.n <= released[c]
               /\ \A x \in M : x = m
               /\ \A i \in 1 .. Len(work'[c]) : m.n < work'[c][i].n
    BY ZenonT(60), <1>4, <1>6, <1>7, <2>1 DEF WorkInv
  <2> SUFFICES ASSUME NEW d \in Conns, NEW m \in carry'[Worker(d)]
               PROVE  /\ m.conn = d /\ 0 < m.n /\ m.n <= released'[d]
                      /\ \A x \in carry'[Worker(d)] : x = m
                      /\ \A i \in 1 .. Len(work'[d]) : m.n < work'[d][i].n
    BY ZenonT(60) DEF WorkerInv
  <2>2. CASE d = c
    BY ZenonT(60), <1>1, <1>5, <2>1, <2>2
  <2>3. CASE d # c
    BY ZenonT(60), <1>1, <1>5, <1>6, <2>3 DEF WorkerInv
  <2> QED
    BY ZenonT(60), <2>2, <2>3
<1>11. HandlerInv'
  BY ZenonT(60), <1>1, <1>5 DEF HandlerInv
<1>12. HandedInv'
  <2>1. ASSUME NEW d \in Conns, NEW i \in 1 .. Len(outbox[d]), IsPublishOf(outbox[d][i], c)
        PROVE  /\ outbox[d][i].msg.n <= released[c]
               /\ \A j \in 1 .. Len(work'[c]) : outbox[d][i].msg.n < work'[c][j].n
               /\ \A m \in M : outbox[d][i].msg.n <= m.n
    <3>1. outbox[d][i].msg.n \in Nat /\ work[c][1].n \in Nat
      BY <1>3, <2>1, CommandFacts, MessageFacts DEF FTyped
    <3>2. outbox[d][i].msg.n < work[c][1].n
      BY ZenonT(60), <1>7, <2>1 DEF HandedInv
    <3>3. \A m \in M : outbox[d][i].msg.n <= m.n
      BY <1>4, <3>1, <3>2
    <3> QED
      BY ZenonT(60), <1>6, <2>1, <3>3 DEF HandedInv
  <2> QED
    BY <1>1, <1>5, <1>6, <2>1 DEF HandedInv
<1>13. WillHandedInv'
  BY ZenonT(60), <1>1 DEF WillHandedInv, Spared
<1>14. PublishesKeepOrder' /\ WillLastUnlessTakenOver'
  BY ZenonT(60), <1>1 DEF PublishesKeepOrder, WillLastUnlessTakenOver, WillComesLast
<1> QED
  BY ZenonT(60), <1>8, <1>9, <1>10, <1>11, <1>12, <1>13, <1>14

\* Broker::publish returns to the worker.
LEMMA WorkerPublishedFanout ==
  ASSUME FTyped, FanoutInv, NEW c \in Conns, WorkerPublished(c)
  PROVE  FanoutInv'
<1> USE DEF FanoutInv
<1>1. /\ UNCHANGED <<pc, outbox, work, released, evicted>>
      /\ carry' = [carry EXCEPT ![Worker(c)] = {}]
  BY ZenonT(60) DEF WorkerPublished, inboundVars
<1>2. /\ carry'[Worker(c)] = {}
      /\ \A d \in Conns : carry'[Handler(d)] = carry[Handler(d)]
      /\ \A d \in Conns : d # c => carry'[Worker(d)] = carry[Worker(d)]
  BY ZenonT(60), <1>1, WorkerCarry
<1>3. StageInv' /\ WorkInv' /\ WorkerInv' /\ HandlerInv'
  BY <1>1, <1>2 DEF StageInv, WorkInv, WorkerInv, HandlerInv
<1>4. HandedInv' /\ WillHandedInv'
  BY ZenonT(60), <1>1, <1>2 DEF HandedInv, WillHandedInv, Spared
<1>5. PublishesKeepOrder' /\ WillLastUnlessTakenOver'
  BY ZenonT(60), <1>1 DEF PublishesKeepOrder, WillLastUnlessTakenOver, WillComesLast
<1> QED
  BY ZenonT(60), <1>3, <1>4, <1>5

\* publish_will returns to the handler.
LEMMA WillPublishedFanout ==
  ASSUME FTyped, FanoutInv, NEW c \in Conns, WillPublished(c)
  PROVE  FanoutInv'
<1> USE DEF FanoutInv
<1> DEFINE label == IF pc[c] = "evict_will" THEN "wiping" ELSE "done"
<1>1. /\ pc[c] \in {"evict_will", "own_will"} /\ UNCHANGED <<outbox, work, released, evicted>>
      /\ carry' = [carry EXCEPT ![Handler(c)] = {}]
      /\ pc' = [pc EXCEPT ![c] = label]
  BY ZenonT(60) DEF WillPublished, Goto, inboundVars
<1>2. /\ carry'[Handler(c)] = {}
      /\ \A d \in Conns : carry'[Worker(d)] = carry[Worker(d)]
      /\ \A d \in Conns : d # c => carry'[Handler(d)] = carry[Handler(d)]
  BY ZenonT(60), <1>1, HandlerCarry
<1>p. /\ \A d \in Conns : d # c => pc'[d] = pc[d]
      /\ pc'[c] \in {"wiping", "done"} /\ (pc[c] = "own_will" => pc'[c] = "done")
  BY ZenonT(60), <1>1 DEF FTyped
<1>3. StageInv'
  BY ZenonT(60), <1>1, <1>2, <1>p DEF StageInv, Working
<1>4. WorkInv' /\ PublishesKeepOrder' /\ WillLastUnlessTakenOver'
  BY ZenonT(60), <1>1 DEF WorkInv, PublishesKeepOrder, WillLastUnlessTakenOver, WillComesLast
<1>5. WorkerInv' /\ HandedInv'
  BY <1>1, <1>2 DEF WorkerInv, HandedInv
<1>6. HandlerInv'
  BY ZenonT(60), <1>1, <1>2, <1>p DEF HandlerInv
<1>7. WillHandedInv'
  BY ZenonT(60), <1>1, <1>p DEF WillHandedInv, Spared
<1> QED
  BY ZenonT(60), <1>3, <1>4, <1>5, <1>6, <1>7

--------------------------------------------------------------------------------
LEMMA FanoutInit == Init => FanoutInv
<1> SUFFICES ASSUME Init PROVE FanoutInv
  BY ZenonT(60)
<1>1. \A c \in Conns : /\ pc[c] = "new" /\ evicted[c] = {} /\ work[c] = <<>> /\ outbox[c] = <<>>
                       /\ carry[Worker(c)] = {} /\ carry[Handler(c)] = {}
  BY ZenonT(60), TaskFacts DEF Init
<1>2. \A c \in Conns : 1 .. Len(work[c]) = {} /\ 1 .. Len(outbox[c]) = {}
  <2>1. Len(<<>>) = 0 /\ 1 .. 0 = {}
    OBVIOUS
  <2> QED
    BY <1>1, <2>1, ZenonT(60)
<1>3. StageInv /\ WorkInv /\ WorkerInv /\ HandlerInv
  BY ZenonT(60), <1>1, <1>2 DEF StageInv, WorkInv, WorkerInv, HandlerInv
<1>4. HandedInv /\ WillHandedInv
  BY ZenonT(60), <1>2 DEF HandedInv, WillHandedInv
<1>5. PublishesKeepOrder /\ WillLastUnlessTakenOver
  BY ZenonT(60), <1>2 DEF PublishesKeepOrder, WillLastUnlessTakenOver, WillComesLast
<1> QED
  BY ZenonT(60), <1>3, <1>4, <1>5 DEF FanoutInv

LEMMA FanoutNext == TypeInv /\ FanoutInv /\ [Next]_vars => FanoutInv'
<1> SUFFICES ASSUME TypeInv, FanoutInv, [Next]_vars PROVE FanoutInv'
  BY ZenonT(60)
<1>t. FTyped
  BY ZenonT(60), FTypedInv
<1>1. CASE UNCHANGED vars
  BY ZenonT(60), <1>1, FrameFanout DEF vars
<1>2. ASSUME NEW c \in Conns, Refuse(c) \/ Register(c) PROVE FanoutInv'
  BY ZenonT(60), <1>t, <1>2, HandlerMoves, TakeOverFanout, WillsFanout, SendConnackFanout DEF Register
<1>3. ASSUME NEW c \in Conns, ReadLoop(c) PROVE FanoutInv'
  <2>1. ASSUME NEW t \in Topics, Publish(c, t) PROVE FanoutInv'
    <3> DEFINE m == [sent |-> published[c] + 1, topic |-> t]
    <3>1. published[c] + 1 \in 0 .. MaxPublishes
      BY <2>1, BrokerAssumption DEF Publish, TypeInv, TypeOK
    <3>2. m \in Stashed
      BY ZenonT(60), <3>1 DEF Stashed
    <3>3. /\ HandOver(c, m) /\ pc[c] = "select" /\ Goto(c, "check")
          /\ UNCHANGED <<outbox, carry, evicted>>
      BY ZenonT(60), <2>1 DEF Publish, fanoutVars
    <3> HIDE DEF m
    <3> QED
      BY ZenonT(60), <1>t, <3>2, <3>3, HandOverFanout
  <2>2. ASSUME NEW m \in stash[c], Pubrel(c, m) PROVE FanoutInv'
    <3>1. m \in Stashed
      BY ZenonT(60) DEF TypeInv, TypeOK
    <3>2. /\ HandOver(c, m) /\ pc[c] = "select" /\ Goto(c, "check")
          /\ UNCHANGED <<outbox, carry, evicted>>
      BY ZenonT(60), <2>2 DEF Pubrel, fanoutVars
    <3> QED
      BY ZenonT(60), <1>t, <3>1, <3>2, HandOverFanout
  <2> QED
    BY ZenonT(60), <1>t, <1>3, <2>1, <2>2, HandlerMoves DEF ReadLoop
<1>4. ASSUME NEW c \in Conns, WriterFails(c) PROVE FanoutInv'
  BY ZenonT(60), <1>4, FrameFanout DEF WriterFails, fanoutVars, inboundVars
<1>5. ASSUME NEW c \in Conns, Fanout(c) PROVE FanoutInv'
  BY ZenonT(60), <1>t, <1>5, RunChainFanout, DeliverFanout, WorkerPublishedFanout, WillPublishedFanout
     DEF Fanout
<1>6. ASSUME NEW c \in Conns, TearDown(c) PROVE FanoutInv'
  BY ZenonT(60), <1>t, <1>6, HandlerMoves, WillsFanout DEF TearDown
<1> QED
  BY ZenonT(60), <1>1, <1>2, <1>3, <1>4, <1>5, <1>6 DEF Next

LEMMA FanoutAlways == Spec => [](TypeInv /\ FanoutInv)
<1>1. TypeInv /\ FanoutInv /\ [Next]_vars => (TypeInv /\ FanoutInv)'
  BY ZenonT(60), TypeInvNext, FanoutNext
<1> QED
  BY <1>1, TypeInvInit, FanoutInit, PTL DEF Spec

\* Every subscriber is handed the publishes of a connection in the order in which
\* the packets that release them (PUBLISH for QoS 0 and 1, PUBREL for QoS 2) came
\* in, whatever else is fanned out meanwhile (dispatch_server_inbound,
\* run_publish_chain_worker, Broker::publish).
THEOREM PublishesOrderCorrect == Spec => []PublishesKeepOrder
<1>1. TypeInv /\ FanoutInv => PublishesKeepOrder
  BY ZenonT(60) DEF FanoutInv
<1> QED
  BY <1>1, FanoutAlways, PTL

\* Unless a connection was taken over, no subscriber is handed a publish of it
\* behind its Will (handle_server joins the chain worker before
\* unregister_session).
THEOREM WillLastCorrect == Spec => []WillLastUnlessTakenOver
<1>1. TypeInv /\ FanoutInv => WillLastUnlessTakenOver
  BY ZenonT(60) DEF FanoutInv
<1> QED
  BY <1>1, FanoutAlways, PTL

================================================================================
