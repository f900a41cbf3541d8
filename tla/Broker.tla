--------------------------------- MODULE Broker --------------------------------
(***************************************************************************)
(* The broker's session and subscription tables, and the connections that  *)
(* share them.                                                             *)
(*                                                                         *)
(* Source: src/broker.rs (register_session, unregister_session, subscribe, *)
(* unsubscribe, publish, SubscriptionTree) and the connection task of      *)
(* src/protocol/server.rs (handle_server and its chain worker).            *)
(*                                                                         *)
(* Every connection runs two tasks: its handler, which admits the CONNECT, *)
(* runs the read loop and tears down, and its worker, which fans out the   *)
(* publishes the reader queued.  The tables are DashMaps, so each lookup,  *)
(* insert or removal is atomic and nothing wider is: one step below is one *)
(* such access.  subscribe and unsubscribe keep the guard of the session   *)
(* entry while they update the tree, which makes them single steps; the    *)
(* walks of remove_client and matching over the tree are one step each.    *)
(*                                                                         *)
(* sessions (client id -> entry) is a set of pairs with one pair per       *)
(* client; the rest of an entry (filters, will) is kept per connection.    *)
(* The QoS of a subscription and the acks of a delivery are not modelled   *)
(* here (see MqttSession), nor are retransmitted QoS 2 publishes (see      *)
(* InboundQos2): each PUBLISH of a connection is a new message.            *)
(***************************************************************************)
EXTENDS Naturals, Sequences

CONSTANTS
  Conns,           \* the connections of the run
  Clients,         \* client identifiers
  Filters,         \* subscription filters
  Topics,          \* topic names
  filter_matches(_, _),  \* filter_matches(f, t): the filter f matches the topic t
  Publishers,      \* the connections that send PUBLISH packets
  MaxPublishes,    \* bound: inbound PUBLISH packets per connection
  MaxSubscribes,   \* bound: SUBSCRIBE and UNSUBSCRIBE packets per connection
  ClientChoices,   \* which client identifier each connection may carry
  CleanChoices,    \* the clean_session flags clients may use
  WillChoices,     \* the Wills clients may carry, each {} or one topic
  WriteErrors,     \* whether a socket may fail under its writer actor
  SerialConnects   \* whether clients wait for CONNACK before connecting again

ASSUME BrokerAssumption ==
  /\ Publishers \subseteq Conns
  /\ MaxPublishes \in Nat
  /\ MaxSubscribes \in Nat
  /\ ClientChoices \subseteq [Conns -> Clients]
  /\ CleanChoices \subseteq BOOLEAN
  /\ WillChoices \subseteq SUBSET Topics
  /\ \A w \in WillChoices : \A s, t \in w : s = t
  /\ WriteErrors \in BOOLEAN
  /\ SerialConnects \in BOOLEAN
  /\ \A f \in Filters, t \in Topics : filter_matches(f, t) \in BOOLEAN

VARIABLES
  sessions,   \* the entries of Broker.sessions
  subs,       \* the pairs (client, filter) of the subscription tree
  pc,         \* where the handler of each connection is
  client,     \* the client id each connection's CONNECT carries
  clean,      \* its clean_session flag
  will,       \* its Will: {} or {topic}
  open,       \* MqttChannel.open
  evicted,    \* the connection whose entry this registration removed, if any
  filters,    \* SubscriberEntry.filters of the entry the connection inserted
  graceful,   \* the read loop ended on DISCONNECT
  outbox,     \* what was queued to the connection's writer while it was open
  stash,      \* MqttSession.qos2_recv: the QoS 2 publishes that await their PUBREL
  work,       \* the publish work queue from reader to worker
  carry,      \* the message a task inside Broker::publish is fanning out
  todo,       \* the matching subscriptions it has not served yet
  wills,      \* how often each connection's Will was published
  published,  \* PUBLISH packets each connection has sent
  released,   \* how many of them its reader has handed to its worker
  requested   \* SUBSCRIBE and UNSUBSCRIBE packets each connection has sent

connVars == <<client, clean, will>>
fanoutVars == <<carry, todo>>
inboundVars == <<published, released, stash, requested>>

vars == <<sessions, subs, pc, client, clean, will, open, evicted, filters,
          graceful, outbox, stash, work, carry, todo, wills, published, released,
          requested>>

Tasks == Conns \X {"handler", "worker"}
Handler(c) == <<c, "handler">>
Worker(c) == <<c, "worker">>

\* A publish is numbered twice, by its PUBLISH packet and by its hand-over to the
\* worker.  Both count from 1; the Will of a connection is message 0.
Messages == [conn : Conns, n : Nat, sent : 0 .. MaxPublishes, topic : Topics]
Stashed == [sent : 0 .. MaxPublishes, topic : Topics]
\* What a writer queue holds: CONNACK, or a PUBLISH.
Commands == [connack : {TRUE}] \cup [msg : Messages]

PcValues == {"new", "superseding", "evicting", "evict_will", "wiping",
             "inserting", "connack", "check", "select", "draining", "joining",
             "unregistering", "unsubscribing", "will", "own_will", "done",
             "refused"}

\* Between the first and the last table access of register_session.
Registering(c) ==
  pc[c] \in {"superseding", "evicting", "evict_will", "wiping", "inserting"}
InLoop(c) == pc[c] \in {"check", "select"}
Entry(c) == [client |-> client[c], conn |-> c]
EntriesOf(k) == {s \in sessions : s.client = k}
Goto(c, label) == pc' = [pc EXCEPT ![c] = label]

\* set.remove(client_id) for every filter of the tree.
remove_client(k) == {p \in subs : p.client # k}

\* SubscriptionTree::matching.
matching(topic) == {p \in subs : filter_matches(p.filter, topic)}

WillOf(c) == {[conn |-> c, n |-> 0, sent |-> 0, topic |-> t] : t \in will[c]}

\* Enter Broker::publish with the messages of M (none or one).
StartPublish(t, M) ==
  /\ carry' = [carry EXCEPT ![t] = M]
  /\ todo' = [todo EXCEPT ![t] = UNION {matching(m.topic) : m \in M}]

\* publish_will for the connections of D (none or one).
publish_will(t, D) ==
  /\ StartPublish(t, UNION {WillOf(d) : d \in D})
  /\ wills' = [d \in Conns |->
                 IF d \in D /\ will[d] # {} THEN wills[d] + 1 ELSE wills[d]]

--------------------------------------------------------------------------------
(* CONNECT: admission and register_session. *)

\* No CONNECT in time, not a CONNECT, or refused by the keep-alive policy or the
\* authenticator: the handler returns before it touches the tables.
Refuse(c) ==
  /\ pc[c] = "new"
  /\ Goto(c, "refused")
  /\ open' = [open EXCEPT ![c] = FALSE]
  /\ UNCHANGED <<sessions, subs, connVars, evicted, filters, graceful, outbox,
                 work, fanoutVars, wills, inboundVars>>

\* sessions.remove(client_id).
TakeOver(c) ==
  /\ pc[c] = "new"
  /\ SerialConnects =>
       \A d \in Conns : client[d] = client[c] => ~ Registering(d) /\ pc[d] # "connack"
  /\ LET prev == {s.conn : s \in EntriesOf(client[c])} IN
       /\ sessions' = sessions \ EntriesOf(client[c])
       /\ evicted' = [evicted EXCEPT ![c] = prev]
       /\ Goto(c, IF prev = {} THEN "wiping" ELSE "superseding")
  /\ UNCHANGED <<subs, connVars, open, filters, graceful, outbox, work, fanoutVars,
                 wills, inboundVars>>

\* Faulty: the earlier connection is left open.
CloseEvictedNot(c) ==
  /\ pc[c] = "superseding"
  /\ Goto(c, "evicting")
  /\ UNCHANGED <<sessions, subs, connVars, open, evicted, filters, graceful, outbox, work,
                 fanoutVars, wills, inboundVars>>

\* prev.channel.close(): abandon drops the stash.  The one packet the evicted
\* reader may still dispatch between the two is as good as dispatched before them.
CloseEvicted(c) ==
  /\ pc[c] = "superseding"
  /\ open' = [d \in Conns |-> open[d] /\ d \notin evicted[c]]
  /\ stash' = [d \in Conns |-> IF open[d] /\ d \in evicted[c] THEN {} ELSE stash[d]]
  /\ Goto(c, "evicting")
  /\ UNCHANGED <<sessions, subs, connVars, evicted, filters, graceful, outbox, work,
                 fanoutVars, wills, published, released, requested>>

\* Faulty: the Will is left to the earlier connection's teardown.
EvictWillForgotten(c) ==
  /\ pc[c] = "evicting"
  /\ publish_will(Handler(c), {})
  /\ Goto(c, "evict_will")
  /\ UNCHANGED <<sessions, subs, connVars, open, evicted, filters, graceful,
                 outbox, work, inboundVars>>

\* The Will of the connection that was taken over.
EvictWill(c) ==
  /\ pc[c] = "evicting"
  /\ publish_will(Handler(c), evicted[c])
  /\ Goto(c, "evict_will")
  /\ UNCHANGED <<sessions, subs, connVars, open, evicted, filters, graceful,
                 outbox, work, inboundVars>>

WipeSubscriptions(c) ==
  /\ pc[c] = "wiping"
  /\ subs' = IF clean[c] THEN remove_client(client[c]) ELSE subs
  /\ Goto(c, "inserting")
  /\ UNCHANGED <<sessions, connVars, open, evicted, filters, graceful, outbox,
                 work, fanoutVars, wills, inboundVars>>

\* Faulty: the table is keyed by connection, so that insert replaces nothing.
InsertSessionBeside(c) ==
  /\ pc[c] = "inserting"
  /\ sessions' = sessions \cup {Entry(c)}
  /\ Goto(c, "connack")
  /\ UNCHANGED <<subs, connVars, open, evicted, filters, graceful, outbox, work,
                 fanoutVars, wills, inboundVars>>

\* sessions.insert replaces whatever entry the client id has by now.
InsertSession(c) ==
  /\ pc[c] = "inserting"
  /\ sessions' = (sessions \ EntriesOf(client[c])) \cup {Entry(c)}
  /\ Goto(c, "connack")
  /\ UNCHANGED <<subs, connVars, open, evicted, filters, graceful, outbox, work,
                 fanoutVars, wills, inboundVars>>

\* Queue CONNACK; when the writer is gone, unregister as a crash instead.
SendConnack(c) ==
  /\ pc[c] = "connack"
  /\ \/ /\ outbox' = [outbox EXCEPT ![c] =
                        IF open[c] THEN Append(@, [connack |-> TRUE]) ELSE @]
        /\ Goto(c, "check")
     \/ /\ ~ open[c]
        /\ Goto(c, "unregistering")
        /\ UNCHANGED outbox
  /\ UNCHANGED <<sessions, subs, connVars, open, evicted, filters, graceful,
                 work, fanoutVars, wills, inboundVars>>

--------------------------------------------------------------------------------
(* The read loop. *)

\* The top of the loop: leave when the channel is closed, else select.
CheckOpen(c) ==
  /\ pc[c] = "check"
  /\ Goto(c, IF open[c] THEN "select" ELSE "draining")
  /\ UNCHANGED <<sessions, subs, connVars, open, evicted, filters, graceful,
                 outbox, work, fanoutVars, wills, inboundVars>>

\* Faulty: the entry's connection id is not compared.
SubscribeAnyEntry(c, f) ==
  /\ pc[c] = "select"
  /\ requested[c] < MaxSubscribes
  /\ requested' = [requested EXCEPT ![c] = @ + 1]
  /\ IF EntriesOf(client[c]) # {}
       THEN /\ filters' = [filters EXCEPT ![c] = @ \cup {f}]
            /\ subs' = subs \cup {[client |-> client[c], filter |-> f]}
       ELSE UNCHANGED <<filters, subs>>
  /\ Goto(c, "check")
  /\ UNCHANGED <<sessions, connVars, open, evicted, graceful, outbox, work,
                 fanoutVars, wills, published, released, stash>>

\* SUBSCRIBE is honoured only while the entry is this connection's.
Subscribe(c, f) ==
  /\ pc[c] = "select"
  /\ requested[c] < MaxSubscribes
  /\ requested' = [requested EXCEPT ![c] = @ + 1]
  /\ IF Entry(c) \in sessions
       THEN /\ filters' = [filters EXCEPT ![c] = @ \cup {f}]
            /\ subs' = subs \cup {[client |-> client[c], filter |-> f]}
       ELSE UNCHANGED <<filters, subs>>
  /\ Goto(c, "check")
  /\ UNCHANGED <<sessions, connVars, open, evicted, graceful, outbox, work,
                 fanoutVars, wills, published, released, stash>>

Unsubscribe(c, f) ==
  /\ pc[c] = "select"
  /\ requested[c] < MaxSubscribes
  /\ requested' = [requested EXCEPT ![c] = @ + 1]
  /\ IF Entry(c) \in sessions
       THEN /\ filters' = [filters EXCEPT ![c] = @ \ {f}]
            /\ subs' = subs \ {[client |-> client[c], filter |-> f]}
       ELSE UNCHANGED <<filters, subs>>
  /\ Goto(c, "check")
  /\ UNCHANGED <<sessions, connVars, open, evicted, graceful, outbox, work,
                 fanoutVars, wills, published, released, stash>>

\* publish_work_queue.send: the message becomes the next to run.
HandOver(c, m) ==
  /\ released' = [released EXCEPT ![c] = @ + 1]
  /\ work' = [work EXCEPT ![c] = Append(@, [conn |-> c, n |-> released[c] + 1,
                                           sent |-> m.sent, topic |-> m.topic])]

\* A PUBLISH of QoS 0 or 1 goes to the worker at once.
Publish(c, t) ==
  /\ c \in Publishers
  /\ pc[c] = "select"
  /\ published[c] < MaxPublishes
  /\ published' = [published EXCEPT ![c] = @ + 1]
  /\ HandOver(c, [sent |-> published[c] + 1, topic |-> t])
  /\ Goto(c, "check")
  /\ UNCHANGED <<sessions, subs, connVars, open, evicted, filters, graceful,
                 outbox, fanoutVars, wills, stash, requested>>

\* One of QoS 2 is stored until its PUBREL.
PublishQos2(c, t) ==
  /\ c \in Publishers
  /\ pc[c] = "select"
  /\ published[c] < MaxPublishes
  /\ published' = [published EXCEPT ![c] = @ + 1]
  /\ stash' = [stash EXCEPT ![c] = @ \cup {[sent |-> published[c] + 1, topic |-> t]}]
  /\ Goto(c, "check")
  /\ UNCHANGED <<sessions, subs, connVars, open, evicted, filters, graceful,
                 outbox, work, fanoutVars, wills, released, requested>>

\* PUBREL releases the stored publish m, in whatever order the client sends its
\* PUBRELs.  One that finds nothing stored changes nothing here.
Pubrel(c, m) ==
  /\ pc[c] = "select"
  /\ m \in stash[c]
  /\ stash' = [stash EXCEPT ![c] = @ \ {m}]
  /\ HandOver(c, m)
  /\ Goto(c, "check")
  /\ UNCHANGED <<sessions, subs, connVars, open, evicted, filters, graceful,
                 outbox, fanoutVars, wills, published, requested>>

\* Faulty: only DISCONNECT ends the loop.
LeaveOnDisconnect(c, g) ==
  /\ g
  /\ pc[c] = "select"
  /\ graceful' = [graceful EXCEPT ![c] = g]
  /\ Goto(c, "draining")
  /\ UNCHANGED <<sessions, subs, connVars, open, evicted, filters, outbox, work,
                 fanoutVars, wills, inboundVars>>

\* Faulty: a crash returns from inside the loop and skips the teardown.
LeaveReturns(c, g) ==
  /\ pc[c] = "select"
  /\ graceful' = [graceful EXCEPT ![c] = g]
  /\ Goto(c, IF g THEN "draining" ELSE "done")
  /\ UNCHANGED <<sessions, subs, connVars, open, evicted, filters, outbox, work,
                 fanoutVars, wills, inboundVars>>

\* The loop ends: on DISCONNECT gracefully; on wire closed, deadline, malformed
\* packet, failed dispatch or the shutdown signal not.
Leave(c, g) ==
  /\ pc[c] = "select"
  /\ graceful' = [graceful EXCEPT ![c] = g]
  /\ Goto(c, "draining")
  /\ UNCHANGED <<sessions, subs, connVars, open, evicted, filters, outbox, work,
                 fanoutVars, wills, inboundVars>>

\* A write of something queued fails: the writer actor clears the flag, signals
\* nobody and drops its queue.
WriterFails(c) ==
  /\ WriteErrors
  /\ open[c]
  /\ outbox[c] # <<>>
  /\ open' = [open EXCEPT ![c] = FALSE]
  /\ UNCHANGED <<sessions, subs, pc, connVars, evicted, filters, graceful, outbox,
                 work, fanoutVars, wills, inboundVars>>

--------------------------------------------------------------------------------
(* The chain worker and the fanout loop of Broker::publish. *)

\* Faulty: a task is spawned per publish, and their chains end in any order.
RunChainSpawned(c, fanout, t) ==
  /\ carry[Worker(c)] = {}
  /\ \E i \in 1 .. Len(work[c]) :
       /\ work' = [work EXCEPT ![c] = SubSeq(@, 1, i - 1) \o SubSeq(@, i + 1, Len(@))]
       /\ StartPublish(Worker(c), IF fanout THEN {[work[c][i] EXCEPT !.topic = t]} ELSE {})
  /\ UNCHANGED <<sessions, subs, pc, connVars, open, evicted, filters, graceful,
                 outbox, wills, inboundVars>>

\* The endpoint chains of the oldest queued publish have run: they suppressed
\* its fanout, or the worker enters Broker::publish with it, on the topic t the
\* chains left it with.
RunChain(c, fanout, t) ==
  /\ work[c] # <<>>
  /\ carry[Worker(c)] = {}
  /\ work' = [work EXCEPT ![c] = Tail(@)]
  /\ StartPublish(Worker(c), IF fanout THEN {[Head(work[c]) EXCEPT !.topic = t]} ELSE {})
  /\ UNCHANGED <<sessions, subs, pc, connVars, open, evicted, filters, graceful,
                 outbox, wills, inboundVars>>

\* A worker skips the publisher's own client id; a Will has no source.
Skips(t, p) == t[2] = "worker" /\ p.client = client[t[1]]

\* The connections a delivery to the subscription p reaches: the one whose entry
\* the client id resolves to now.  A command queued on a closed channel may never
\* be written, so outbox records what was queued while the channel was open.
Receivers(t, p) ==
  {s.conn : s \in {e \in EntriesOf(p.client) : ~ Skips(t, p) /\ open[e.conn]}}

Deliver(t, p) ==
  /\ p \in todo[t]
  /\ todo' = [todo EXCEPT ![t] = @ \ {p}]
  /\ outbox' = [d \in Conns |->
                  IF d \in Receivers(t, p)
                    THEN Append(outbox[d], [msg |-> CHOOSE m \in carry[t] : TRUE])
                    ELSE outbox[d]]
  /\ UNCHANGED <<sessions, subs, pc, connVars, open, evicted, filters, graceful,
                 work, carry, wills, inboundVars>>

\* Broker::publish returns to the worker.
WorkerPublished(c) ==
  /\ carry[Worker(c)] # {}
  /\ todo[Worker(c)] = {}
  /\ carry' = [carry EXCEPT ![Worker(c)] = {}]
  /\ UNCHANGED <<sessions, subs, pc, connVars, open, evicted, filters, graceful,
                 outbox, work, todo, wills, inboundVars>>

\* publish_will returns to register_session or to unregister_session.
WillPublished(c) ==
  /\ pc[c] \in {"evict_will", "own_will"}
  /\ todo[Handler(c)] = {}
  /\ carry' = [carry EXCEPT ![Handler(c)] = {}]
  /\ Goto(c, IF pc[c] = "evict_will" THEN "wiping" ELSE "done")
  /\ UNCHANGED <<sessions, subs, connVars, open, evicted, filters, graceful,
                 outbox, work, todo, wills, inboundVars>>

--------------------------------------------------------------------------------
(* Teardown: wind the worker down, then unregister_session. *)

\* channel.close(): the first to close drops the stash.
CloseOwnChannel(c) ==
  /\ pc[c] = "draining"
  /\ open' = [open EXCEPT ![c] = FALSE]
  /\ stash' = [stash EXCEPT ![c] = IF open[c] THEN {} ELSE @]
  /\ Goto(c, "joining")
  /\ UNCHANGED <<sessions, subs, connVars, evicted, filters, graceful, outbox,
                 work, fanoutVars, wills, published, released, requested>>

\* Faulty: the worker is not awaited.
JoinWorkerNot(c) ==
  /\ pc[c] = "joining"
  /\ Goto(c, "unregistering")
  /\ UNCHANGED <<sessions, subs, connVars, open, evicted, filters, graceful,
                 outbox, work, fanoutVars, wills, inboundVars>>

\* chain_worker.await: the worker ends once its queue is drained.
JoinWorker(c) ==
  /\ pc[c] = "joining"
  /\ work[c] = <<>>
  /\ carry[Worker(c)] = {}
  /\ Goto(c, "unregistering")
  /\ UNCHANGED <<sessions, subs, connVars, open, evicted, filters, graceful,
                 outbox, work, fanoutVars, wills, inboundVars>>

\* Faulty: remove instead of remove_if.
UnregisterAny(c) ==
  /\ pc[c] = "unregistering"
  /\ sessions' = sessions \ EntriesOf(client[c])
  /\ Goto(c, IF EntriesOf(client[c]) # {} THEN "unsubscribing" ELSE "done")
  /\ UNCHANGED <<subs, connVars, open, evicted, filters, graceful, outbox, work,
                 fanoutVars, wills, inboundVars>>

\* sessions.remove_if(client_id, same connection).
UnregisterSession(c) ==
  /\ pc[c] = "unregistering"
  /\ sessions' = sessions \ {Entry(c)}
  /\ Goto(c, IF Entry(c) \in sessions THEN "unsubscribing" ELSE "done")
  /\ UNCHANGED <<subs, connVars, open, evicted, filters, graceful, outbox, work,
                 fanoutVars, wills, inboundVars>>

\* Faulty: the tree keeps the subscriptions.
RemoveSubscriptionsNot(c) ==
  /\ pc[c] = "unsubscribing"
  /\ Goto(c, IF graceful[c] THEN "done" ELSE "will")
  /\ UNCHANGED <<sessions, subs, connVars, open, evicted, filters, graceful, outbox,
                 work, fanoutVars, wills, inboundVars>>

RemoveSubscriptions(c) ==
  /\ pc[c] = "unsubscribing"
  /\ subs' = remove_client(client[c])
  /\ Goto(c, IF graceful[c] THEN "done" ELSE "will")
  /\ UNCHANGED <<sessions, connVars, open, evicted, filters, graceful, outbox,
                 work, fanoutVars, wills, inboundVars>>

OwnWill(c) ==
  /\ pc[c] = "will"
  /\ publish_will(Handler(c), {c})
  /\ Goto(c, "own_will")
  /\ UNCHANGED <<sessions, subs, connVars, open, evicted, filters, graceful,
                 outbox, work, inboundVars>>

--------------------------------------------------------------------------------
Init ==
  /\ sessions = {}
  /\ subs = {}
  /\ pc = [c \in Conns |-> "new"]
  /\ client \in ClientChoices
  /\ clean \in [Conns -> CleanChoices]
  /\ will \in [Conns -> WillChoices]
  /\ open = [c \in Conns |-> TRUE]
  /\ evicted = [c \in Conns |-> {}]
  /\ filters = [c \in Conns |-> {}]
  /\ graceful = [c \in Conns |-> FALSE]
  /\ outbox = [c \in Conns |-> <<>>]
  /\ stash = [c \in Conns |-> {}]
  /\ work = [c \in Conns |-> <<>>]
  /\ carry = [t \in Tasks |-> {}]
  /\ todo = [t \in Tasks |-> {}]
  /\ wills = [c \in Conns |-> 0]
  /\ published = [c \in Conns |-> 0]
  /\ released = [c \in Conns |-> 0]
  /\ requested = [c \in Conns |-> 0]

Register(c) ==
  \/ TakeOver(c)
  \/ CloseEvicted(c)
  \/ EvictWill(c)
  \/ WipeSubscriptions(c)
  \/ InsertSession(c)
  \/ SendConnack(c)

ReadLoop(c) ==
  \/ CheckOpen(c)
  \/ \E f \in Filters : Subscribe(c, f) \/ Unsubscribe(c, f)
  \/ \E t \in Topics : Publish(c, t) \/ PublishQos2(c, t)
  \/ \E m \in stash[c] : Pubrel(c, m)
  \/ \E g \in BOOLEAN : Leave(c, g)

Fanout(c) ==
  \/ \E fanout \in BOOLEAN, t \in Topics : RunChain(c, fanout, t)
  \/ \E t \in {Handler(c), Worker(c)} : \E p \in todo[t] : Deliver(t, p)
  \/ WorkerPublished(c)
  \/ WillPublished(c)

TearDown(c) ==
  \/ CloseOwnChannel(c)
  \/ JoinWorker(c)
  \/ UnregisterSession(c)
  \/ RemoveSubscriptions(c)
  \/ OwnWill(c)

Next ==
  \E c \in Conns :
    Refuse(c) \/ Register(c) \/ ReadLoop(c) \/ WriterFails(c) \/ Fanout(c) \/ TearDown(c)

Spec == Init /\ [][Next]_vars

\* The runtime keeps polling a handler and a worker.  A closed channel ends the
\* read loop: through the shutdown signal, the next packet or the read deadline.
HandlerStep(c) ==
  \/ CloseEvicted(c)
  \/ EvictWill(c)
  \/ WipeSubscriptions(c)
  \/ InsertSession(c)
  \/ SendConnack(c)
  \/ CheckOpen(c)
  \/ ~ open[c] /\ Leave(c, FALSE)
  \/ WillPublished(c)
  \/ TearDown(c)
  \/ \E p \in todo[Handler(c)] : Deliver(Handler(c), p)

WorkerStep(c) ==
  \/ \E fanout \in BOOLEAN, t \in Topics : RunChain(c, fanout, t)
  \/ \E p \in todo[Worker(c)] : Deliver(Worker(c), p)
  \/ WorkerPublished(c)

FairSpec ==
  Spec /\ \A c \in Conns : WF_vars(HandlerStep(c)) /\ WF_vars(WorkerStep(c))

--------------------------------------------------------------------------------
(* Properties. *)

\* Every variable keeps its type; a client id has at most one entry, however its
\* connections' registrations interleave.
TypeOK ==
  /\ sessions \subseteq [client : Clients, conn : Conns]
  /\ \A s, t \in sessions : s.client = t.client => s = t
  /\ subs \subseteq [client : Clients, filter : Filters]
  /\ pc \in [Conns -> PcValues]
  /\ client \in [Conns -> Clients]
  /\ clean \in [Conns -> BOOLEAN]
  /\ will \in [Conns -> SUBSET Topics]
  /\ open \in [Conns -> BOOLEAN]
  /\ evicted \in [Conns -> SUBSET Conns]
  /\ filters \in [Conns -> SUBSET Filters]
  /\ graceful \in [Conns -> BOOLEAN]
  /\ outbox \in [Conns -> Seq(Commands)]
  /\ stash \in [Conns -> SUBSET Stashed]
  /\ work \in [Conns -> Seq(Messages)]
  /\ carry \in [Tasks -> SUBSET Messages]
  /\ todo \in [Tasks -> SUBSET [client : Clients, filter : Filters]]
  /\ wills \in [Conns -> Nat]
  /\ published \in [Conns -> 0 .. MaxPublishes]
  /\ released \in [Conns -> Nat]
  /\ requested \in [Conns -> 0 .. MaxSubscribes]

\* The Will of a connection is published at most once, although both a takeover
\* and the connection's own teardown may publish it (register_session,
\* unregister_session).
WillAtMostOnce == \A c \in Conns : wills[c] <= 1

\* A connection that ended without DISCONNECT has had its Will published, or the
\* takeover that removed its entry is about to publish it.
WillNotLost ==
  \A c \in Conns :
    (pc[c] = "done" /\ ~ graceful[c] /\ will[c] # {}) =>
      \/ wills[c] = 1
      \/ \E d \in Conns : c \in evicted[d] /\ pc[d] \in {"superseding", "evicting"}

\* Every entry of the session table belongs to a connection that is still being
\* served, so no path out of handle_server leaves an entry behind.
EntriesAreLive ==
  \A s \in sessions :
    /\ client[s.conn] = s.client
    /\ pc[s.conn] \in {"connack", "check", "select", "draining", "joining",
                       "unregistering"}

\* Every subscription of the tree belongs to a client that has an entry, or to one
\* that a registration or a teardown under way will account for: none leaks.
OwnedSubscriptions ==
  \A p \in subs :
    \/ EntriesOf(p.client) # {}
    \/ \E c \in Conns : client[c] = p.client /\ (Registering(c) \/ pc[c] = "unsubscribing")

\* An entry leaves the table only through its own connection's teardown or
\* through a later CONNECT of the same client: the teardown of a connection that
\* was taken over never removes the session that replaced it.
StaleTeardownHarmless ==
  [][\A s \in sessions \ sessions' :
       \E d \in Conns :
         /\ pc'[d] # pc[d]
         /\ client[d] = s.client
         /\ d = s.conn \/ pc[d] \in {"new", "inserting"}]_vars

\* A connection whose entry is no longer in the table has been closed, or the
\* takeover that removed the entry is about to close it (MQTT-3.1.4-2,
\* register_session).
SupersededIsClosed ==
  \A c \in Conns : (InLoop(c) /\ Entry(c) \notin sessions) =>
    \/ ~ open[c]
    \/ \E d \in Conns : c \in evicted[d] /\ pc[d] = "superseding"

\* A clean session is subscribed to nothing but what it asked for itself, also
\* when it replaced a connection that still had packets to dispatch.
CleanSessionStartsClean ==
  \A c \in Conns : (clean[c] /\ Entry(c) \in sessions) =>
    \A p \in subs : p.client = client[c] => p.filter \in filters[c]

\* What a session was granted is routed: every filter in its entry is in the tree.
GrantedIsRouted ==
  \A c \in Conns : Entry(c) \in sessions =>
    \A f \in filters[c] : [client |-> client[c], filter |-> f] \in subs

IsPublishOf(cmd, c) == "msg" \in DOMAIN cmd /\ cmd.msg.conn = c /\ cmd.msg.n > 0
IsWillOf(cmd, c) == "msg" \in DOMAIN cmd /\ cmd.msg.conn = c /\ cmd.msg.n = 0

\* A subscriber is handed the publishes of one connection in the order in which
\* the packets that release them came in: the PUBLISH for QoS 0 and 1, the PUBREL
\* for QoS 2 (dispatch_server_inbound, run_publish_chain_worker).
PublishesKeepOrder ==
  \A c, d \in Conns : \A i, j \in 1 .. Len(outbox[d]) :
    (i < j /\ IsPublishOf(outbox[d][i], c) /\ IsPublishOf(outbox[d][j], c))
      => outbox[d][i].msg.n <= outbox[d][j].msg.n

\* The order of the PUBLISH packets themselves ("in the order they were sent",
\* server.rs:298) is not kept: a QoS 2 publish is overtaken by every later one
\* that is released before its PUBREL.  BrokerSentOrder.cfg shows it.
SentOrderKept ==
  \A c, d \in Conns : \A i, j \in 1 .. Len(outbox[d]) :
    (i < j /\ IsPublishOf(outbox[d][i], c) /\ IsPublishOf(outbox[d][j], c))
      => outbox[d][i].msg.sent <= outbox[d][j].msg.sent

\* The Will of connection c is never followed by a publish of c.
WillComesLast(c) ==
  \A d \in Conns : \A i, j \in 1 .. Len(outbox[d]) :
    (IsWillOf(outbox[d][i], c) /\ IsPublishOf(outbox[d][j], c)) => j < i

\* A Will published by the connection's own teardown comes after everything the
\* connection published (the worker is joined before unregister_session).
WillLastUnlessTakenOver ==
  \A c \in Conns : (\A d \in Conns : c \notin evicted[d]) => WillComesLast(c)

\* A connection that was closed, by a takeover or by its writer, leaves its loop,
\* finishes its teardown and ends.
SupersededEnds == \A c \in Conns : (InLoop(c) /\ ~ open[c]) ~> (pc[c] = "done")

================================================================================
