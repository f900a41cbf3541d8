------------------------------ MODULE BrokerSerial -----------------------------
(***************************************************************************)
(* What the tables promise when the connections of one client connect one  *)
(* after the other (SerialConnects).  Without that assumption the          *)
(* registrations of two connections interleave and each of these           *)
(* properties fails.                                                       *)
(***************************************************************************)
EXTENDS BrokerTables

\* The obligations are many and large: the provers get more than their usual time.
USE SMTT(60)

Admitting(x) == Registering(x) \/ pc[x] = "connack"

\* One connection of a client is admitted at a time; the client has no entry
\* before the insertion and this connection's right after it.
AdmissionInv ==
  /\ \A s, t \in sessions : s.client = t.client => s = t
  /\ \A c, d \in Conns : (Admitting(c) /\ Admitting(d) /\ client[c] = client[d]) => c = d
  /\ \A c \in Conns : Registering(c) => \A s \in sessions : s.client # client[c]
  /\ \A c \in Conns : pc[c] = "connack" => Entry(c) \in sessions

\* A clean session is inserted with nothing in the tree and nothing granted.
CleanInv ==
  /\ \A c \in Conns : (Unregistered(c) \/ pc[c] = "connack") => filters[c] = {}
  /\ \A c \in Conns : (pc[c] = "inserting" /\ clean[c]) =>
       \A p \in subs : p.client # client[c]

\* The connection has lost its entry, or is publishing its Will.
Parted(x) == (pc[x] \in ServedLabels /\ Entry(x) \notin sessions) \/ pc[x] = "own_will"

\* The Will of a parted connection has been published, or somebody owes it.
OwedInv ==
  \A x \in Conns : (will[x] # {} /\ Parted(x)) => wills[x] = 1 \/ \E d \in Conns : Owes(d, x)

SerialInv ==
  /\ AdmissionInv
  /\ CleanInv
  /\ CleanSessionStartsClean
  /\ SupersededIsClosed
  /\ OwedInv
  /\ WillNotLost

\* What the steps below use of TypeInv.
STyped ==
  /\ Typed
  /\ subs \subseteq [client : Clients, filter : Filters]
  /\ clean \in [Conns -> BOOLEAN]
  /\ will \in [Conns -> SUBSET Topics]
  /\ open \in [Conns -> BOOLEAN]
  /\ filters \in [Conns -> SUBSET Filters]
  /\ graceful \in [Conns -> BOOLEAN]

LEMMA STypedInv == TypeInv => STyped
BY ZenonT(60), TypedInv DEF TypeInv, TypeOK, STyped

LEMMA SerialFrame ==
  ASSUME SerialInv, UNCHANGED <<sessions, subs, pc, client, clean, will, open, evicted,
                                filters, graceful, wills>>
  PROVE  SerialInv'
<1> USE DEF SerialInv
<1>1. AdmissionInv' /\ CleanInv'
  BY DEF AdmissionInv, Admitting, CleanInv, Unregistered, Registering, Entry
<1>2. CleanSessionStartsClean' /\ SupersededIsClosed'
  BY DEF CleanSessionStartsClean, SupersededIsClosed, InLoop, Entry
<1>3. OwedInv' /\ WillNotLost'
  BY DEF OwedInv, Parted, Owes, Entry, WillNotLost
<1> QED
  BY <1>1, <1>2, <1>3

\* The steps of the read loop and of the wind-down that change neither table.
LEMMA WindSerial ==
  ASSUME STyped, Inv, SerialInv, NEW c \in Conns, NEW label \in ServedLabels \ {"connack"},
         pc[c] \in ServedLabels \ {"connack"}, Goto(c, label),
         label \in {"check", "select"} => InLoop(c),
         UNCHANGED <<sessions, subs, client, clean, will, evicted, filters, wills>>,
         \A x \in Conns : open'[x] => open[x],
         graceful' \in [Conns -> BOOLEAN],
         \A x \in Conns : x # c => graceful'[x] = graceful[x]
  PROVE  SerialInv'
<1> USE SMTT(120) DEF STyped, Typed, SerialInv, Goto, ServedLabels
<1>1. AdmissionInv'
  BY DEF AdmissionInv, Admitting, Registering, Entry
<1>2. CleanInv'
  BY DEF CleanInv, Unregistered, Registering
<1>3. CleanSessionStartsClean'
  BY DEF CleanSessionStartsClean, Entry
<1>4. SupersededIsClosed'
  BY DEF SupersededIsClosed, InLoop, Entry
<1>5. OwedInv'
  <2>1. \A x \in Conns : Parted(x)' = Parted(x)
    BY DEF Parted, Entry
  <2>2. \A d, x \in Conns : Owes(d, x)' = Owes(d, x)
    BY DEF Owes
  <2> QED
    BY <2>1, <2>2 DEF OwedInv
<1>6. WillNotLost'
  BY DEF WillNotLost
<1> QED
  BY <1>1, <1>2, <1>3, <1>4, <1>5, <1>6

LEMMA RefuseSerial ==
  ASSUME STyped, Inv, SerialInv, NEW c \in Conns, Refuse(c)
  PROVE  SerialInv'
<1> USE SMTT(120) DEF STyped, Typed, SerialInv, Refuse, Goto, connVars
<1>1. AdmissionInv'
  BY DEF AdmissionInv, Admitting, Registering, Entry
<1>2. CleanInv'
  BY DEF CleanInv, Unregistered, Registering
<1>3. CleanSessionStartsClean'
  BY DEF CleanSessionStartsClean, Entry
<1>4. SupersededIsClosed'
  BY DEF SupersededIsClosed, InLoop, Entry
<1>5. OwedInv'
  BY DEF OwedInv, Parted, Owes, Entry, ServedLabels
<1>6. WillNotLost'
  BY DEF WillNotLost
<1> QED
  BY <1>1, <1>2, <1>3, <1>4, <1>5, <1>6

LEMMA TakeOverSerial ==
  ASSUME STyped, Inv, SerialInv, SerialConnects, NEW c \in Conns, TakeOver(c)
  PROVE  SerialInv'
<1> USE SMTT(120) DEF STyped, Typed, SerialInv, ServedLabels
<1> DEFINE prev == {s.conn : s \in EntriesOf(client[c])}
<1>a. /\ sessions' = sessions \ EntriesOf(client[c])
      /\ evicted' = [evicted EXCEPT ![c] = prev]
      /\ pc[c] = "new"
      /\ pc' = [pc EXCEPT ![c] = IF prev = {} THEN "wiping" ELSE "superseding"]
      /\ \A d \in Conns : client[d] = client[c] => ~ Admitting(d)
      /\ UNCHANGED <<subs, client, clean, will, open, filters, graceful, wills>>
  BY DEF TakeOver, Goto, connVars, Admitting
<1>b. \A x \in Conns : (Entry(x) \in sessions /\ Entry(x)' \notin sessions') => x \in prev
  BY <1>a DEF EntriesOf, Entry
<1>c. prev # {} => pc'[c] = "superseding"
  <2> HIDE DEF prev
  <2> QED
    BY <1>a
<1>d. prev \subseteq Conns
  BY DEF EntriesOf
<1>e. \A s \in sessions' : s \in sessions /\ s.client # client[c]
  BY <1>a DEF EntriesOf
<1> HIDE DEF prev
<1> USE <1>a
<1>1. AdmissionInv'
  <2>1. \A x \in Conns : x # c => (Admitting(x)' = Admitting(x) /\ Registering(x)' = Registering(x))
    BY DEF Admitting, Registering
  <2>2. \A x, y \in Conns : (Admitting(x)' /\ Admitting(y)' /\ client[x] = client[y]) => x = y
    BY <2>1 DEF AdmissionInv
  <2>3. \A x \in Conns : Registering(x)' => \A s \in sessions' : s.client # client[x]
    BY <1>e, <2>1 DEF AdmissionInv
  <2>4. \A x \in Conns : pc'[x] = "connack" => Entry(x)' \in sessions'
    <3>1. ASSUME NEW x \in Conns, pc'[x] = "connack"
          PROVE  Entry(x)' \in sessions'
      <4>1. x # c /\ Admitting(x) /\ Entry(x) \in sessions
        BY <3>1 DEF Admitting, AdmissionInv
      <4>2. client[x] # client[c]
        BY <4>1
      <4> QED
        BY <4>1, <4>2 DEF Entry, EntriesOf
    <3> QED
      BY <3>1
  <2>5. \A s, t \in sessions' : s.client = t.client => s = t
    BY <1>e DEF AdmissionInv
  <2> QED
    BY <2>2, <2>3, <2>4, <2>5 DEF AdmissionInv
<1>2. CleanInv'
  BY DEF CleanInv, Unregistered, Registering
<1>3. CleanSessionStartsClean'
  BY DEF CleanSessionStartsClean, Entry
<1>4. SupersededIsClosed'
  <2> SUFFICES ASSUME NEW x \in Conns, InLoop(x)', Entry(x)' \notin sessions', open[x]
              PROVE  \E d \in Conns : x \in evicted'[d] /\ pc'[d] = "superseding"
    BY DEF SupersededIsClosed
  <2>1. InLoop(x)
    BY DEF InLoop
  <2>2. CASE x \in prev
    BY <2>2, <1>c
  <2>3. CASE Entry(x) \notin sessions
    <3>1. PICK d \in Conns : x \in evicted[d] /\ pc[d] = "superseding"
      BY <2>1, <2>3 DEF SupersededIsClosed
    <3> QED
      BY <3>1
  <2> QED
    BY <2>2, <2>3, <1>b
<1>5. OwedInv'
  <2> SUFFICES ASSUME NEW x \in Conns, will[x] # {}, Parted(x)'
              PROVE  wills[x] = 1 \/ \E d \in Conns : Owes(d, x)'
    BY DEF OwedInv
  <2>1. CASE x \in prev
    BY <2>1, <1>c DEF Owes
  <2>2. CASE Parted(x)
    BY <2>2 DEF OwedInv, Owes
  <2> QED
    BY <2>1, <2>2, <1>b DEF Parted
<1>6. WillNotLost'
  BY DEF WillNotLost
<1> QED
  BY <1>1, <1>2, <1>3, <1>4, <1>5, <1>6

LEMMA CloseEvictedSerial ==
  ASSUME STyped, Inv, SerialInv, NEW c \in Conns, CloseEvicted(c)
  PROVE  SerialInv'
<1> USE SMTT(120) DEF STyped, Typed, SerialInv, CloseEvicted, Goto, connVars
<1>1. AdmissionInv'
  BY DEF AdmissionInv, Admitting, Registering, Entry
<1>2. CleanInv'
  BY DEF CleanInv, Unregistered, Registering
<1>3. CleanSessionStartsClean'
  BY ZenonT(60) DEF CleanSessionStartsClean, Entry
<1>4. SupersededIsClosed'
  <2> SUFFICES ASSUME NEW x \in Conns, InLoop(x), Entry(x) \notin sessions, open'[x]
              PROVE  \E d \in Conns : x \in evicted[d] /\ pc'[d] = "superseding"
    BY DEF SupersededIsClosed, InLoop, Entry
  <2>1. open[x]
    OBVIOUS
  <2>2. PICK d \in Conns : x \in evicted[d] /\ pc[d] = "superseding"
    BY <2>1, ZenonT(60) DEF SupersededIsClosed
  <2>3. x \notin evicted[c]
    BY ZenonT(60)
  <2> QED
    BY <2>2, <2>3
<1>5. OwedInv'
  BY DEF OwedInv, Parted, Owes, Entry, ServedLabels
<1>6. WillNotLost'
  BY ZenonT(60) DEF WillNotLost
<1> QED
  BY <1>1, <1>2, <1>3, <1>4, <1>5, <1>6

LEMMA EvictWillSerial ==
  ASSUME STyped, Inv, SerialInv, NEW c \in Conns, EvictWill(c)
  PROVE  SerialInv'
<1> USE SMTT(120) DEF STyped, Typed, SerialInv, ServedLabels
<1>a. /\ pc[c] = "evicting"
      /\ pc' = [pc EXCEPT ![c] = "evict_will"]
      /\ wills' = [d \in Conns |->
                     IF d \in evicted[c] /\ will[d] # {} THEN wills[d] + 1 ELSE wills[d]]
      /\ UNCHANGED <<sessions, subs, client, clean, will, open, evicted, filters, graceful>>
  BY DEF EvictWill, publish_will, Goto, connVars
<1>b. \A x \in Conns : (will[x] # {} /\ x \in evicted[c]) => wills'[x] = 1
  BY <1>a DEF Inv, WillInv, Undischarged, Owes
<1>c. \A x \in Conns : x \notin evicted[c] => wills'[x] = wills[x]
  BY <1>a
<1>d. \A x \in Conns : \A d \in Conns : d # c => Owes(d, x)' = Owes(d, x)
  BY <1>a DEF Owes
<1> USE <1>a
<1>1. AdmissionInv'
  BY DEF AdmissionInv, Admitting, Registering, Entry
<1>2. CleanInv'
  BY ZenonT(60) DEF CleanInv, Unregistered, Registering
<1>3. CleanSessionStartsClean'
  BY ZenonT(60) DEF CleanSessionStartsClean, Entry
<1>4. SupersededIsClosed'
  BY ZenonT(60) DEF SupersededIsClosed, InLoop, Entry
<1>5. OwedInv'
  <2>1. \A x \in Conns : Parted(x)' = Parted(x)
    BY ZenonT(60) DEF Parted, Entry
  <2>2. \A x \in Conns : Owes(c, x) => x \in evicted[c]
    BY DEF Owes
  <2> QED
    BY ZenonT(60), <1>b, <1>c, <1>d, <2>1, <2>2 DEF OwedInv
<1>6. WillNotLost'
  <2>1. \A x \in Conns : pc'[x] = "done" => pc[x] = "done"
    OBVIOUS
  <2> QED
    BY ZenonT(60), <1>b, <1>c, <2>1 DEF WillNotLost
<1> QED
  BY <1>1, <1>2, <1>3, <1>4, <1>5, <1>6

LEMMA WipeSubscriptionsSerial ==
  ASSUME STyped, Inv, SerialInv, NEW c \in Conns, WipeSubscriptions(c)
  PROVE  SerialInv'
<1> USE SMTT(120) DEF STyped, Typed, SerialInv, WipeSubscriptions, remove_client, Goto, connVars
<1>1. AdmissionInv'
  BY DEF AdmissionInv, Admitting, Registering, Entry
<1>2. CleanInv'
  BY ZenonT(60) DEF CleanInv, Unregistered, Registering
<1>3. CleanSessionStartsClean'
  BY ZenonT(60) DEF CleanSessionStartsClean, Entry
<1>4. SupersededIsClosed'
  BY ZenonT(60) DEF SupersededIsClosed, InLoop, Entry
<1>5. OwedInv'
  BY DEF OwedInv, Parted, Owes, Entry, ServedLabels
<1>6. WillNotLost'
  BY ZenonT(60) DEF WillNotLost
<1> QED
  BY ZenonT(60), <1>1, <1>2, <1>3, <1>4, <1>5, <1>6

LEMMA InsertSessionSerial ==
  ASSUME STyped, Inv, SerialInv, NEW c \in Conns, InsertSession(c)
  PROVE  SerialInv'
<1> USE SMTT(120) DEF STyped, Typed, SerialInv, ServedLabels
<1>a. /\ pc[c] = "inserting"
      /\ sessions' = sessions \cup {Entry(c)}
      /\ pc' = [pc EXCEPT ![c] = "connack"]
      /\ UNCHANGED <<subs, client, clean, will, open, evicted, filters, graceful, wills>>
  <2>1. EntriesOf(client[c]) = {}
    BY ZenonT(60) DEF InsertSession, AdmissionInv, Registering, EntriesOf
  <2> QED
    BY ZenonT(60), <2>1 DEF InsertSession, Goto, connVars
<1>b. \A x \in Conns : Entry(x)' = Entry(x)
  BY ZenonT(60), <1>a DEF Entry
<1>c. \A x \in Conns : x # c => (Entry(x) \in sessions' => Entry(x) \in sessions)
  BY ZenonT(60), <1>a DEF Entry
<1> USE <1>a
<1>1. AdmissionInv'
  BY DEF AdmissionInv, Admitting, Registering, Entry
<1>2. CleanInv'
  BY ZenonT(60) DEF CleanInv, Unregistered, Registering
<1>3. CleanSessionStartsClean'
  <2>1. clean[c] => \A p \in subs : p.client # client[c]
    BY ZenonT(60) DEF CleanInv
  <2> QED
    BY ZenonT(60), <1>b, <1>c, <2>1 DEF CleanSessionStartsClean
<1>4. SupersededIsClosed'
  <2>1. \A x \in Conns : InLoop(x)' => InLoop(x)
    BY DEF InLoop
  <2>2. \A d \in Conns : pc[d] = "superseding" => pc'[d] = "superseding"
    OBVIOUS
  <2> QED
    BY <1>b, <2>1, <2>2 DEF SupersededIsClosed
<1>5. OwedInv'
  <2>1. \A x \in Conns : Parted(x)' => Parted(x)
    BY ZenonT(60), <1>b DEF Parted
  <2>2. \A d, x \in Conns : Owes(d, x)' = Owes(d, x)
    BY ZenonT(60) DEF Owes
  <2> QED
    BY ZenonT(60), <2>1, <2>2 DEF OwedInv
<1>6. WillNotLost'
  BY ZenonT(60) DEF WillNotLost
<1> QED
  BY ZenonT(60), <1>1, <1>2, <1>3, <1>4, <1>5, <1>6

LEMMA SendConnackSerial ==
  ASSUME STyped, Inv, SerialInv, NEW c \in Conns, SendConnack(c)
  PROVE  SerialInv'
<1> USE SMTT(120) DEF STyped, Typed, SerialInv, ServedLabels
<1>a. PICK label \in {"check", "unregistering"} : pc' = [pc EXCEPT ![c] = label]
  BY ZenonT(60) DEF SendConnack, Goto
<1>b. /\ pc[c] = "connack"
      /\ UNCHANGED <<sessions, subs, client, clean, will, open, evicted, filters, graceful, wills>>
  BY ZenonT(60) DEF SendConnack, connVars
<1>c. \A x \in Conns : Entry(x)' = Entry(x)
  BY ZenonT(60), <1>b DEF Entry
<1>d. Entry(c) \in sessions
  BY ZenonT(60), <1>b DEF AdmissionInv
<1> USE <1>a, <1>b
<1>1. AdmissionInv'
  <2>1. \A x \in Conns : /\ Admitting(x)' => Admitting(x)
                         /\ Registering(x)' = Registering(x)
                         /\ pc'[x] = "connack" => pc[x] = "connack"
    BY DEF Admitting, Registering
  <2> QED
    BY <1>c, <2>1 DEF AdmissionInv
<1>2. CleanInv'
  BY ZenonT(60) DEF CleanInv, Unregistered, Registering
<1>3. CleanSessionStartsClean'
  BY ZenonT(60) DEF CleanSessionStartsClean, Entry
<1>4. SupersededIsClosed'
  <2>1. \A x \in Conns : InLoop(x)' => InLoop(x) \/ x = c
    BY DEF InLoop
  <2>2. \A d \in Conns : pc[d] = "superseding" => pc'[d] = "superseding"
    OBVIOUS
  <2> QED
    BY <1>c, <1>d, <2>1, <2>2 DEF SupersededIsClosed
<1>5. OwedInv'
  <2>1. \A x \in Conns : Parted(x)' = Parted(x)
    BY ZenonT(60), <1>c DEF Parted
  <2>2. \A d, x \in Conns : Owes(d, x)' = Owes(d, x)
    BY ZenonT(60) DEF Owes
  <2> QED
    BY <2>1, <2>2 DEF OwedInv
<1>6. WillNotLost'
  <2>1. \A x \in Conns : pc'[x] = "done" => pc[x] = "done"
    OBVIOUS
  <2>2. \A d \in Conns : pc[d] \in {"superseding", "evicting"} => pc'[d] = pc[d]
    OBVIOUS
  <2> QED
    BY ZenonT(60), <2>1, <2>2 DEF WillNotLost
<1> QED
  BY ZenonT(60), <1>1, <1>2, <1>3, <1>4, <1>5, <1>6

LEMMA SubscribeSerial ==
  ASSUME STyped, Inv, SerialInv, NEW c \in Conns, NEW f \in Filters, Subscribe(c, f)
  PROVE  SerialInv'
<1> USE SMTT(120) DEF STyped, Typed, SerialInv, Subscribe, Goto, connVars
<1>a. \A d \in Conns : (Entry(c) \in sessions /\ client[d] = client[c]) =>
        /\ ~ Registering(d)
        /\ Entry(d) \in sessions => d = c
  BY ZenonT(60) DEF AdmissionInv, Entry
<1>1. AdmissionInv'
  BY ZenonT(60) DEF AdmissionInv, Admitting, Registering, Entry
<1>2. CleanInv'
  <2>1. \A x \in Conns : /\ (Unregistered(x) \/ pc[x] = "connack")' => x # c
                         /\ (Unregistered(x) \/ pc[x] = "connack")' => (Unregistered(x) \/ pc[x] = "connack")
    BY ZenonT(60) DEF Unregistered, Registering
  <2>2. \A x \in Conns : (Unregistered(x) \/ pc[x] = "connack")' => filters'[x] = {}
    BY ZenonT(60), <2>1 DEF CleanInv
  <2>3. \A x \in Conns : (pc'[x] = "inserting" /\ clean'[x]) =>
                            \A p \in subs' : p.client # client'[x]
    BY <1>a DEF CleanInv, Registering
  <2> QED
    BY ZenonT(60), <2>2, <2>3 DEF CleanInv
<1>3. CleanSessionStartsClean'
  <2>1. CASE Entry(c) \notin sessions
    BY ZenonT(60), <2>1 DEF CleanSessionStartsClean, Entry
  <2>2. CASE Entry(c) \in sessions
    <3> SUFFICES ASSUME NEW x \in Conns, clean[x], Entry(x) \in sessions,
                        NEW p \in subs', p.client = client[x]
                 PROVE  p.filter \in filters'[x]
      BY ZenonT(60) DEF CleanSessionStartsClean, Entry
    <3>1. CASE p \in subs
      BY <2>2, <3>1 DEF CleanSessionStartsClean
    <3>2. CASE p = [client |-> client[c], filter |-> f]
      BY <2>2, <3>2, <1>a
    <3> QED
      BY ZenonT(60), <2>2, <3>1, <3>2
  <2> QED
    BY ZenonT(60), <2>1, <2>2
<1>4. SupersededIsClosed'
  BY DEF SupersededIsClosed, InLoop, Entry
<1>5. OwedInv'
  BY DEF OwedInv, Parted, Owes, Entry, ServedLabels
<1>6. WillNotLost'
  BY ZenonT(60) DEF WillNotLost
<1> QED
  BY ZenonT(60), <1>1, <1>2, <1>3, <1>4, <1>5, <1>6

LEMMA UnsubscribeSerial ==
  ASSUME STyped, Inv, SerialInv, NEW c \in Conns, NEW f \in Filters, Unsubscribe(c, f)
  PROVE  SerialInv'
<1> USE SMTT(120) DEF STyped, Typed, SerialInv, Unsubscribe, Goto, connVars
<1>1. AdmissionInv'
  BY ZenonT(60) DEF AdmissionInv, Admitting, Registering, Entry
<1>2. CleanInv'
  BY ZenonT(60) DEF CleanInv, Unregistered, Registering
<1>3. CleanSessionStartsClean'
  BY DEF CleanSessionStartsClean, Entry
<1>4. SupersededIsClosed'
  BY ZenonT(60) DEF SupersededIsClosed, InLoop, Entry
<1>5. OwedInv'
  BY DEF OwedInv, Parted, Owes, Entry, ServedLabels
<1>6. WillNotLost'
  BY ZenonT(60) DEF WillNotLost
<1> QED
  BY ZenonT(60), <1>1, <1>2, <1>3, <1>4, <1>5, <1>6

LEMMA WillPublishedSerial ==
  ASSUME STyped, Inv, SerialInv, NEW c \in Conns, WillPublished(c)
  PROVE  SerialInv'
<1>u. UNCHANGED <<sessions, subs, client, clean, will, open, evicted, filters, graceful, wills>>
  BY ZenonT(60) DEF WillPublished, connVars
<1>v. \/ pc[c] = "evict_will" /\ pc' = [pc EXCEPT ![c] = "wiping"]
      \/ pc[c] = "own_will" /\ pc' = [pc EXCEPT ![c] = "done"]
  BY ZenonT(60) DEF WillPublished, Goto
<1> USE SMTT(120), <1>u, <1>v DEF STyped, Typed, SerialInv
<1>a. \A d, x \in Conns : Owes(d, x)' = Owes(d, x)
  BY DEF Owes
<1>1. AdmissionInv'
  BY DEF AdmissionInv, Admitting, Registering, Entry
<1>2. CleanInv'
  BY DEF CleanInv, Unregistered, Registering
<1>3. CleanSessionStartsClean'
  BY ZenonT(60) DEF CleanSessionStartsClean, Entry
<1>4. SupersededIsClosed'
  BY DEF SupersededIsClosed, InLoop, Entry
<1>5. OwedInv'
  <2>1. \A x \in Conns : Parted(x)' => Parted(x)
    BY DEF Parted, Entry, ServedLabels
  <2> QED
    BY ZenonT(60), <1>u, <1>a, <2>1 DEF OwedInv
<1>6. WillNotLost'
  <2>1. \A x \in Conns : (x # c /\ pc'[x] = "done") => pc[x] = "done"
    OBVIOUS
  <2>2. (pc'[c] = "done" /\ will[c] # {}) => wills[c] = 1 \/ \E d \in Conns : Owes(d, c)
    BY DEF OwedInv, Parted
  <2> QED
    BY <1>a, <2>1, <2>2 DEF WillNotLost, Owes
<1> QED
  BY ZenonT(60), <1>1, <1>2, <1>3, <1>4, <1>5, <1>6 DEF SerialInv

LEMMA UnregisterSessionSerial ==
  ASSUME STyped, Inv, SerialInv, NEW c \in Conns, UnregisterSession(c)
  PROVE  SerialInv'
<1> USE SMTT(120) DEF STyped, Typed, SerialInv, ServedLabels, UnregisterSession, Goto, connVars
<1>a. \A d, x \in Conns : Owes(d, x)' = Owes(d, x)
  BY ZenonT(60) DEF Owes
<1>1. AdmissionInv'
  BY ZenonT(60) DEF AdmissionInv, Admitting, Registering, Entry
<1>2. CleanInv'
  BY ZenonT(60) DEF CleanInv, Unregistered, Registering
<1>3. CleanSessionStartsClean'
  BY ZenonT(60) DEF CleanSessionStartsClean, Entry
<1>4. SupersededIsClosed'
  BY DEF SupersededIsClosed, InLoop, Entry
<1>5. OwedInv'
  BY DEF OwedInv, Parted, Owes, Entry, ServedLabels
<1>6. WillNotLost'
  <2>1. \A x \in Conns : (x # c /\ pc'[x] = "done") => pc[x] = "done"
    BY ZenonT(60)
  <2>2. (pc'[c] = "done" /\ will[c] # {}) => wills[c] = 1 \/ \E d \in Conns : Owes(d, c)
    BY ZenonT(60) DEF OwedInv, Parted
  <2> QED
    BY <1>a, <2>1, <2>2 DEF WillNotLost, Owes
<1> QED
  BY ZenonT(60), <1>1, <1>2, <1>3, <1>4, <1>5, <1>6

LEMMA RemoveSubscriptionsSerial ==
  ASSUME STyped, Inv, SerialInv, NEW c \in Conns, RemoveSubscriptions(c)
  PROVE  SerialInv'
<1> USE SMTT(120) DEF STyped, Typed, SerialInv, RemoveSubscriptions, remove_client, Goto, connVars
<1>1. AdmissionInv'
  BY ZenonT(60) DEF AdmissionInv, Admitting, Registering, Entry
<1>2. CleanInv'
  BY ZenonT(60) DEF CleanInv, Unregistered, Registering
<1>3. CleanSessionStartsClean'
  BY ZenonT(60) DEF CleanSessionStartsClean, Entry
<1>4. SupersededIsClosed'
  BY ZenonT(60) DEF SupersededIsClosed, InLoop, Entry
<1>5. OwedInv'
  BY DEF OwedInv, Parted, Owes, Entry, ServedLabels
<1>6. WillNotLost'
  BY ZenonT(60) DEF WillNotLost
<1> QED
  BY ZenonT(60), <1>1, <1>2, <1>3, <1>4, <1>5, <1>6

LEMMA OwnWillSerial ==
  ASSUME STyped, Inv, SerialInv, NEW c \in Conns, OwnWill(c)
  PROVE  SerialInv'
<1> USE SMTT(120) DEF STyped, Typed, SerialInv, ServedLabels
<1>a. /\ pc[c] = "will"
      /\ pc' = [pc EXCEPT ![c] = "own_will"]
      /\ wills' = [d \in Conns |->
                     IF d = c /\ will[d] # {} THEN wills[d] + 1 ELSE wills[d]]
      /\ UNCHANGED <<sessions, subs, client, clean, will, open, evicted, filters, graceful>>
  BY ZenonT(60) DEF OwnWill, publish_will, Goto, connVars
<1>b. will[c] # {} => wills'[c] = 1
  BY <1>a DEF Inv, WillInv, Undischarged
<1>c. \A x \in Conns : x # c => wills'[x] = wills[x]
  BY ZenonT(60), <1>a
<1> USE <1>a
<1>1. AdmissionInv'
  BY DEF AdmissionInv, Admitting, Registering, Entry
<1>2. CleanInv'
  BY ZenonT(60) DEF CleanInv, Unregistered, Registering
<1>3. CleanSessionStartsClean'
  BY ZenonT(60) DEF CleanSessionStartsClean, Entry
<1>4. SupersededIsClosed'
  BY ZenonT(60) DEF SupersededIsClosed, InLoop, Entry
<1>5. OwedInv'
  <2>1. \A x \in Conns : x # c => Parted(x)' = Parted(x)
    BY ZenonT(60) DEF Parted, Entry
  <2>2. \A d, x \in Conns : Owes(d, x)' = Owes(d, x)
    BY ZenonT(60) DEF Owes
  <2> QED
    BY ZenonT(60), <1>b, <1>c, <2>1, <2>2 DEF OwedInv
<1>6. WillNotLost'
  <2>1. \A x \in Conns : pc'[x] = "done" => pc[x] = "done" /\ x # c
    BY ZenonT(60)
  <2> QED
    BY ZenonT(60), <1>c, <2>1 DEF WillNotLost
<1> QED
  BY ZenonT(60), <1>1, <1>2, <1>3, <1>4, <1>5, <1>6

LEMMA WriterFailsSerial ==
  ASSUME STyped, SerialInv, NEW c \in Conns, WriterFails(c)
  PROVE  SerialInv'
<1>1. UNCHANGED <<sessions, subs, pc, client, clean, will, evicted, filters, graceful, wills>>
  BY ZenonT(60) DEF WriterFails, connVars
<1>2. \A x \in Conns : open'[x] => open[x]
  BY ZenonT(60) DEF WriterFails, STyped
<1> USE <1>1 DEF SerialInv
<1>3. AdmissionInv' /\ CleanInv'
  BY ZenonT(60) DEF AdmissionInv, Admitting, CleanInv, Unregistered, Registering, Entry
<1>4. CleanSessionStartsClean'
  BY ZenonT(60) DEF CleanSessionStartsClean, Entry
<1>5. SupersededIsClosed'
  BY ZenonT(60), <1>2 DEF SupersededIsClosed, InLoop, Entry
<1>6. OwedInv' /\ WillNotLost'
  BY ZenonT(60) DEF OwedInv, Parted, Owes, Entry, WillNotLost
<1> QED
  BY ZenonT(60), <1>3, <1>4, <1>5, <1>6

--------------------------------------------------------------------------------
LEMMA SerialInit == Init => SerialInv
<1> SUFFICES ASSUME Init PROVE SerialInv
  OBVIOUS
<1> USE DEF Init
<1>1. AdmissionInv /\ CleanInv
  BY ZenonT(60) DEF AdmissionInv, Admitting, Registering, CleanInv
<1>2. CleanSessionStartsClean /\ SupersededIsClosed
  BY ZenonT(60) DEF CleanSessionStartsClean, SupersededIsClosed, InLoop
<1>3. OwedInv /\ WillNotLost
  BY ZenonT(60) DEF OwedInv, Parted, ServedLabels, WillNotLost
<1> QED
  BY ZenonT(60), <1>1, <1>2, <1>3 DEF SerialInv

LEMMA SerialLoop ==
  ASSUME STyped, Inv, SerialInv, NEW c \in Conns,
         ReadLoop(c) \/ CloseOwnChannel(c) \/ JoinWorker(c)
  PROVE  SerialInv'
<1>1. CASE \E f \in Filters : Subscribe(c, f) \/ Unsubscribe(c, f)
  BY <1>1, SubscribeSerial, UnsubscribeSerial
<1>2. CASE \/ CheckOpen(c)
           \/ \E t \in Topics : Publish(c, t) \/ PublishQos2(c, t)
           \/ \E m \in stash[c] : Pubrel(c, m)
           \/ \E g \in BOOLEAN : Leave(c, g)
           \/ CloseOwnChannel(c)
           \/ JoinWorker(c)
  <2>1. PICK label \in ServedLabels \ {"connack"} :
          /\ Goto(c, label)
          /\ label \in {"check", "select"} => InLoop(c)
          /\ pc[c] \in ServedLabels \ {"connack"}
    BY <1>2, ZenonT(30) DEF CheckOpen, Publish, PublishQos2, Pubrel, Leave, CloseOwnChannel, JoinWorker, Goto, InLoop,
                ServedLabels
  <2>2. UNCHANGED <<sessions, subs, client, clean, will, evicted, filters, wills>>
    BY <1>2, ZenonT(30) DEF CheckOpen, Publish, PublishQos2, Pubrel, Leave, CloseOwnChannel, JoinWorker, connVars
  <2>3. \A x \in Conns : open'[x] => open[x]
    <3>1. CASE UNCHANGED open
      BY <3>1
    <3>2. CASE CloseOwnChannel(c)
      BY ZenonT(60), <3>2 DEF CloseOwnChannel, STyped
    <3> QED
      BY <1>2, <3>1, <3>2, ZenonT(60) DEF CheckOpen, Publish, PublishQos2, Pubrel, Leave, JoinWorker
  <2>4. graceful' \in [Conns -> BOOLEAN] /\ \A x \in Conns : x # c => graceful'[x] = graceful[x]
    <3>1. CASE UNCHANGED graceful
      BY <3>1 DEF STyped
    <3>2. CASE \E g \in BOOLEAN : Leave(c, g)
      BY <3>2 DEF Leave, STyped
    <3> QED
      BY <1>2, <3>1, <3>2, ZenonT(60) DEF CheckOpen, Publish, PublishQos2, Pubrel, CloseOwnChannel, JoinWorker
  <2> QED
    BY <2>1, <2>2, <2>3, <2>4, WindSerial, ZenonT(120)
<1> QED
  BY ZenonT(60), <1>1, <1>2 DEF ReadLoop

LEMMA SerialNext ==
  ASSUME SerialConnects, IInv, SerialInv, [Next]_vars
  PROVE  SerialInv'
<1>1. STyped /\ Inv
  BY STypedInv DEF IInv
<1>2. CASE UNCHANGED vars
  BY ZenonT(60), <1>2, SerialFrame DEF vars
<1>3. ASSUME NEW c \in Conns, Refuse(c) \/ Register(c)
      PROVE  SerialInv'
  BY ZenonT(60), <1>1, <1>3, RefuseSerial, TakeOverSerial, CloseEvictedSerial, EvictWillSerial,
     WipeSubscriptionsSerial, InsertSessionSerial, SendConnackSerial DEF Register
<1>4. ASSUME NEW c \in Conns, ReadLoop(c)
      PROVE  SerialInv'
  BY <1>1, <1>4, SerialLoop
<1>5. ASSUME NEW c \in Conns, Fanout(c)
      PROVE  SerialInv'
  <2>1. CASE WillPublished(c)
    BY <1>1, <2>1, WillPublishedSerial
  <2>2. CASE ~ WillPublished(c)
    <3>1. UNCHANGED <<sessions, subs, pc, client, clean, will, open, evicted, filters,
                      graceful, wills>>
      BY <1>5, <2>2, ZenonT(60) DEF Fanout, RunChain, Deliver, WorkerPublished, connVars
    <3> QED
      BY ZenonT(60), <3>1, SerialFrame
  <2> QED
    BY <2>1, <2>2
<1>6. ASSUME NEW c \in Conns, TearDown(c)
      PROVE  SerialInv'
  BY ZenonT(60), <1>1, <1>6, SerialLoop, UnregisterSessionSerial, RemoveSubscriptionsSerial,
     OwnWillSerial DEF TearDown
<1>7. ASSUME NEW c \in Conns, WriterFails(c)
      PROVE  SerialInv'
  BY <1>1, <1>7, WriterFailsSerial
<1> QED
  BY ZenonT(60), <1>2, <1>3, <1>4, <1>5, <1>6, <1>7 DEF Next

LEMMA SerialAlways ==
  ASSUME SerialConnects
  PROVE  Spec => [](IInv /\ SerialInv)
<1>1. Init => IInv /\ SerialInv
  BY IInvInit, SerialInit
<1>2. (IInv /\ SerialInv) /\ [Next]_vars => (IInv /\ SerialInv)'
  BY IInvNext, SerialNext
<1> QED
  BY <1>1, <1>2, PTL DEF Spec

\* A connection that was taken over has been closed, or register_session is about
\* to close it.
THEOREM SupersededCorrect ==
  ASSUME SerialConnects
  PROVE  Spec => []SupersededIsClosed
<1>1. IInv /\ SerialInv => SupersededIsClosed
  BY DEF SerialInv
<1> QED
  BY <1>1, SerialAlways, PTL

\* A clean session never inherits a subscription, although the connection it
\* replaced may still be dispatching SUBSCRIBE packets.
THEOREM CleanSessionCorrect ==
  ASSUME SerialConnects
  PROVE  Spec => []CleanSessionStartsClean
<1>1. IInv /\ SerialInv => CleanSessionStartsClean
  BY DEF SerialInv
<1> QED
  BY <1>1, SerialAlways, PTL

\* The Will of a connection that ended without DISCONNECT is published, by its own
\* teardown or by the takeover that removed its entry.
THEOREM WillNotLostCorrect ==
  ASSUME SerialConnects
  PROVE  Spec => []WillNotLost
<1>1. IInv /\ SerialInv => WillNotLost
  BY DEF SerialInv
<1> QED
  BY <1>1, SerialAlways, PTL

================================================================================
