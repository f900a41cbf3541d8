--------------------------- MODULE InboundQos2Proofs ---------------------------
(***************************************************************************)
(* Proofs about InboundQos2, for any messages, ids and connections: type   *)
(* correctness, and that the receiver implements ExactlyOnce.              *)
(***************************************************************************)
EXTENDS InboundQos2, TLAPS

\* The obligations are many and large: the provers get more than their usual time.
USE SMTT(60)

\* The packets of a connection that are under way, the dispatched one included.
Under(c) == inbox[c] \cup handling[c] \cup outbox[c]

\* Packets of the first half of a flow, and of the second.
Stored(c) == IF at[c] = "stashed" THEN handling[c] ELSE {}
Taken(c) == IF at[c] = "answering" THEN handling[c] ELSE {}
First(c) == {p \in Under(c) : p.kind \in {"Publish", "Pubrec"}}
Second(c) == {p \in Under(c) : p.kind \in {"Pubrel", "Pubcomp"}}

\* A flow that has been stashed and not yet taken out.
Halfway(c) ==
  Stored(c) \cup {p \in inbox[c] : p.kind = "Pubrel"} \cup {p \in outbox[c] : p.kind = "Pubrec"}

\* A flow whose message has been taken out.
Settled(c) == Taken(c) \cup {p \in outbox[c] : p.kind = "Pubcomp"}

\* Packets go the way of their kind, and one packet is under way per connection
\* and id.
WireInv ==
  /\ \A c \in Conns : \A p \in inbox[c] : p.kind \in {"Publish", "Pubrel"}
  /\ \A c \in Conns : \A p \in outbox[c] : p.kind \in {"Pubrec", "Pubcomp"}
  /\ \A c \in Conns : \A p \in handling[c] :
       \/ at[c] = "stashed" /\ p.kind = "Publish"
       \/ at[c] = "answering" /\ p.kind = "Pubrel"
  /\ \A c \in Conns : \A p \in Under(c) : p.id = IdOf[p.of]
  /\ \A c \in Conns : \A p, q \in Under(c) : p.id = q.id => p = q
  /\ \A c \in Conns : inbox[c] \cap handling[c] = {}
  /\ \A c \in Conns : at[c] \in {"stashed", "answering"} => \E p \in Packets : handling[c] = {p}

\* The peer's side: flows under way have different ids, and on the peer's connection
\* a packet shows where its flow is.
PeerInv ==
  /\ \A m, n \in Active : IdOf[m] = IdOf[n] => m = n
  /\ resend \subseteq Active \cap cut
  /\ \A p \in First(cur) : peer[p.of] = "publishing" /\ p.of \notin resend
  /\ \A p \in Second(cur) : peer[p.of] = "releasing" /\ p.of \notin resend
  /\ \A c \in Conns : \A p \in Under(c) : peer[p.of] # "new"
  /\ \A c \in Conns : \A p \in Second(c) : peer[p.of] # "publishing"

\* A connection the peer has not opened yet is as it was created.
FreshInv ==
  \A c \in Conns : c > cur =>
    /\ Under(c) = {} /\ qos2_recv[c] = [i \in Ids |-> {}]
    /\ open[c] /\ closer[c] = "no"

\* What an id holds belongs to the flow that is using it.
StashInv ==
  /\ \A c \in Conns : \A i \in Ids : \A m \in qos2_recv[c][i] :
       /\ IdOf[m] = i /\ qos2_recv[c][i] = {m} /\ peer[m] # "new"
       /\ \A p \in Under(c) : p.id = i => p.of = m
  /\ \A i \in Ids : \A m \in qos2_recv[cur][i] : m \in Active \ resend
  /\ \A c \in Conns : \A p \in Settled(c) : qos2_recv[c][p.id] = {}

\* The message is held, or may come to be held, only on connections up to the one
\* its release was first sent on.
OrderInv ==
  \A c, d \in Conns : \A p \in Second(c) :
    /\ p.of \in qos2_recv[d][p.id] => d <= c
    /\ \A q \in First(d) : q.of = p.of => d <= c

\* A message that was handed on is not held where its release is still to come.
ReleaseInv ==
  \A m \in Msgs : released[m] = 1 =>
    /\ peer[m] \in {"releasing", "complete"}
    /\ \A c \in Conns : m \in qos2_recv[c][IdOf[m]] =>
         \A p \in inbox[c] : p.kind = "Pubrel" => p.of # m

\* A flow that nobody cut: its message is held until it is taken out; after a close
\* the loop does not come to dispatch its release.
UncutInv ==
  /\ \A c \in Conns : closer[c] # "no" => ~ open[c]
  /\ \A p \in Halfway(cur) : p.of \notin cut =>
       IF closer[cur] = "no" THEN p.of \in qos2_recv[cur][p.id] ELSE at[cur] # "select"
  /\ \A p \in Settled(cur) : p.of \notin cut => released[p.of] = 1
  /\ \A m \in Msgs : peer[m] = "complete" /\ m \notin cut => released[m] = 1

Inv ==
  /\ WireInv /\ PeerInv /\ FreshInv /\ StashInv
  /\ OrderInv /\ ReleaseInv /\ UncutInv

\* Fewer packets under way and the peer where it was: its side of the invariant stays.
LEMMA PeerStays ==
  ASSUME PeerInv, cur \in Conns, UNCHANGED <<peer, cur, resend>>, cut \subseteq cut',
         \A d \in Conns : /\ Under(d)' \subseteq Under(d)
                          /\ First(d)' \subseteq First(d) /\ Second(d)' \subseteq Second(d)
  PROVE  PeerInv'
<1>1. Active' = Active
  BY ZenonT(60) DEF Active
<1>2. /\ \A m, n \in Active' : IdOf[m] = IdOf[n] => m = n
      /\ resend' \subseteq Active' \cap cut'
  BY ZenonT(60), <1>1 DEF PeerInv
<1>3. /\ \A p \in First(cur)' : peer'[p.of] = "publishing" /\ p.of \notin resend'
      /\ \A p \in Second(cur)' : peer'[p.of] = "releasing" /\ p.of \notin resend'
  BY ZenonT(60) DEF PeerInv
<1>4. /\ \A c \in Conns : \A p \in Under(c)' : peer'[p.of] # "new"
      /\ \A c \in Conns : \A p \in Second(c)' : peer'[p.of] # "publishing"
  BY ZenonT(60) DEF PeerInv
<1> QED
  BY <1>2, <1>3, <1>4, ZenonT(60) DEF PeerInv

\* The stash as it was, and fewer packets under way.
LEMMA StashStays ==
  ASSUME StashInv, cur \in Conns, UNCHANGED <<peer, cur, resend, qos2_recv>>,
         \A d \in Conns : Under(d)' \subseteq Under(d) /\ Settled(d)' \subseteq Settled(d)
  PROVE  StashInv'
<1>1. Active' = Active
  BY ZenonT(60) DEF Active
<1>2. \A d \in Conns : \A i \in Ids : \A m \in qos2_recv'[d][i] :
        /\ IdOf[m] = i /\ qos2_recv'[d][i] = {m} /\ peer'[m] # "new"
        /\ \A p \in Under(d)' : p.id = i => p.of = m
  <2>1. \A d \in Conns : \A i \in Ids : \A m \in qos2_recv[d][i] :
          /\ IdOf[m] = i /\ qos2_recv[d][i] = {m} /\ peer[m] # "new"
          /\ \A p \in Under(d) : p.id = i => p.of = m
    BY ZenonT(60) DEF StashInv
  <2> QED
    BY <2>1
<1>3. \A i \in Ids : \A m \in qos2_recv'[cur'][i] : m \in Active' \ resend'
  BY <1>1, ZenonT(60) DEF StashInv
<1>4. \A d \in Conns : \A p \in Settled(d)' : qos2_recv'[d][p.id] = {}
  BY ZenonT(60) DEF StashInv
<1> QED
  BY <1>2, <1>3, <1>4, ZenonT(60) DEF StashInv

\* Fewer packets under way, and less held.
LEMMA OrderStays ==
  ASSUME OrderInv, \A d \in Conns : \A p \in Second(d) : p.id \in Ids,
         \A d \in Conns : \A i \in Ids : qos2_recv'[d][i] \subseteq qos2_recv[d][i],
         \A d \in Conns : First(d)' \subseteq First(d) /\ Second(d)' \subseteq Second(d)
  PROVE  OrderInv'
BY ZenonT(60) DEF OrderInv

\* Fewer packets to be read, less held, and nothing handed on.
LEMMA ReleaseStays ==
  ASSUME ReleaseInv, IdOf \in [Msgs -> Ids], UNCHANGED <<peer, released>>,
         \A d \in Conns : inbox'[d] \subseteq inbox[d],
         \A d \in Conns : \A i \in Ids : qos2_recv'[d][i] \subseteq qos2_recv[d][i]
  PROVE  ReleaseInv'
<1>1. \A m \in Msgs : IdOf[m] \in Ids
  BY ZenonT(60)
<1> QED
  BY <1>1, ZenonT(60) DEF ReleaseInv

\* Packets under way that have not moved.
LEMMA WireStays ==
  ASSUME WireInv, UNCHANGED <<inbox, outbox, handling, at>>
  PROVE  WireInv'
BY DEF WireInv, Under

\* A new PUBLISH of the peer keeps the invariant.
LEMMA PeerPublishesKeeps ==
  ASSUME TypeOK, Inv, NEW m \in Msgs, PeerPublishes(m)
  PROVE  Inv'
<1>n. Conns \subseteq Nat /\ IdOf \in [Msgs -> Ids]
  BY Qos2Assumption DEF Conns
<1> USE <1>n DEF peerVars, channelVars
<1>1. WireInv'
  BY DEF PeerPublishes, Packet, Active, WireInv, Under, Packets, PeerInv, First, Second, Inv, TypeOK
<1>2. PeerInv'
  BY DEF PeerPublishes, Packet, Active, PeerInv, Under, First, Second, WireInv, Inv, TypeOK
<1>3. FreshInv'
  BY DEF PeerPublishes, Packet, Active, FreshInv, Under, Inv, TypeOK
<1>4. StashInv'
  BY DEF PeerPublishes, Packet, Active, StashInv, Under, Settled, Taken, WireInv, FreshInv, PeerInv, First, Second, Inv, TypeOK
<1>5. OrderInv'
  BY DEF PeerPublishes, Packet, Active, OrderInv, Under, First, Second, StashInv, WireInv, PeerInv, FreshInv, Inv, TypeOK
<1>6. ReleaseInv'
  BY DEF PeerPublishes, Packet, Active, ReleaseInv, StashInv, WireInv, PeerInv, Under, Inv, TypeOK
<1>7. UncutInv'
  BY DEF PeerPublishes, Packet, Active, UncutInv, Halfway, Settled, Stored, Taken, StashInv, WireInv, PeerInv, Under, First, Second, Inv, TypeOK
<1> QED
  BY ZenonT(60), <1>1, <1>2, <1>3, <1>4, <1>5, <1>6, <1>7 DEF Inv

\* The peer's answer to a PUBREC keeps the invariant.
LEMMA PeerGetsPubrecKeeps ==
  ASSUME TypeOK, Inv, NEW m \in Msgs, PeerGetsPubrec(m)
  PROVE  Inv'
<1>n. Conns \subseteq Nat /\ IdOf \in [Msgs -> Ids]
  BY Qos2Assumption DEF Conns
<1> USE <1>n DEF peerVars, channelVars
<1>p. PICK p \in outbox[cur] :
        /\ p.kind = "Pubrec" /\ p.id = IdOf[m]
        /\ outbox' = [outbox EXCEPT ![cur] = @ \ {p}]
  BY ZenonT(60) DEF PeerGetsPubrec
<1>q. /\ p \in Under(cur) /\ p.of = m
      /\ \A q \in Under(cur) : q.id = IdOf[m] => q = p
  BY <1>p DEF PeerGetsPubrec, WireInv, PeerInv, Under, First, Active, Packets, Inv, TypeOK
<1>1. WireInv'
  BY <1>p, <1>q DEF PeerGetsPubrec, Packet, Active, WireInv, Under, Packets, PeerInv, First, Second, Inv, TypeOK
<1>2. PeerInv'
  BY <1>p, <1>q DEF PeerGetsPubrec, Packet, Active, PeerInv, Under, First, Second, WireInv, Inv, TypeOK
<1>3. FreshInv'
  BY <1>p, <1>q DEF PeerGetsPubrec, Packet, Active, FreshInv, Under, Inv, TypeOK
<1>4. StashInv'
  BY <1>p, <1>q DEF PeerGetsPubrec, Packet, Active, StashInv, Under, Settled, Taken, WireInv, FreshInv, PeerInv, First, Second, Inv, TypeOK
<1>5. OrderInv'
  <2>1. \A d \in Conns : d <= cur \/ (Under(d) = {} /\ qos2_recv[d] = [i \in Ids |-> {}])
    BY DEF FreshInv, Inv, TypeOK
  <2>2. /\ \A d \in Conns : First(d)' \subseteq First(d) /\ First(d) \subseteq Under(d)
        /\ \A d \in Conns : \A x \in Second(d)' : x \in Second(d) \/ (d = cur /\ x.id = IdOf[m])
        /\ UNCHANGED qos2_recv
    BY <1>p DEF PeerGetsPubrec, Packet, First, Second, Under, TypeOK
  <2> QED
    BY <2>1, <2>2, ZenonT(60) DEF OrderInv, Inv
<1>6. ReleaseInv'
  BY <1>p, <1>q DEF PeerGetsPubrec, Packet, Active, ReleaseInv, StashInv, WireInv, PeerInv, Under, Inv, TypeOK
<1>7. UncutInv'
  BY <1>p, <1>q DEF PeerGetsPubrec, Packet, Active, UncutInv, Halfway, Settled, Stored, Taken, StashInv, WireInv, PeerInv, Under, First, Second, Inv, TypeOK
<1> QED
  BY ZenonT(60), <1>1, <1>2, <1>3, <1>4, <1>5, <1>6, <1>7 DEF Inv

\* The end of a flow keeps the invariant.
LEMMA PeerGetsPubcompKeeps ==
  ASSUME TypeOK, Inv, NEW m \in Msgs, PeerGetsPubcomp(m)
  PROVE  Inv'
<1>n. Conns \subseteq Nat /\ IdOf \in [Msgs -> Ids]
  BY Qos2Assumption DEF Conns
<1> USE <1>n DEF peerVars, channelVars
<1>p. PICK p \in outbox[cur] :
        /\ p.kind = "Pubcomp" /\ p.id = IdOf[m]
        /\ outbox' = [outbox EXCEPT ![cur] = @ \ {p}]
  BY ZenonT(60) DEF PeerGetsPubcomp
<1>q. /\ p \in Under(cur) /\ p.of = m
      /\ \A q \in Under(cur) : q.id = IdOf[m] => q = p
  BY <1>p DEF PeerGetsPubcomp, WireInv, PeerInv, Under, Second, Active, Packets, Inv, TypeOK
<1>1. WireInv'
  BY <1>p, <1>q DEF PeerGetsPubcomp, Packet, Active, WireInv, Under, Packets, PeerInv, First, Second, Inv, TypeOK
<1>2. PeerInv'
  BY <1>p, <1>q DEF PeerGetsPubcomp, Packet, Active, PeerInv, Under, First, Second, WireInv, Inv, TypeOK
<1>3. FreshInv'
  BY ZenonT(60), <1>p, <1>q DEF PeerGetsPubcomp, Packet, Active, FreshInv, Under, Inv, TypeOK
<1>4. StashInv'
  BY <1>p, <1>q DEF PeerGetsPubcomp, Packet, Active, StashInv, Under, Settled, Taken, WireInv, FreshInv, PeerInv, First, Second, Inv, TypeOK
<1>5. OrderInv'
  BY <1>p, <1>q DEF PeerGetsPubcomp, Packet, Active, OrderInv, Under, First, Second, StashInv, WireInv, PeerInv, FreshInv, Inv, TypeOK
<1>6. ReleaseInv'
  BY <1>p, <1>q DEF PeerGetsPubcomp, Packet, Active, ReleaseInv, StashInv, WireInv, PeerInv, Under, Inv, TypeOK
<1>7. UncutInv'
  BY <1>p, <1>q DEF PeerGetsPubcomp, Packet, Active, UncutInv, Halfway, Settled, Stored, Taken, StashInv, WireInv, PeerInv, Under, First, Second, Inv, TypeOK
<1> QED
  BY ZenonT(60), <1>1, <1>2, <1>3, <1>4, <1>5, <1>6, <1>7 DEF Inv

\* A new connection of the peer keeps the invariant.
LEMMA PeerReconnectsKeeps ==
  ASSUME TypeOK, Inv, PeerReconnects
  PROVE  Inv'
<1>n. Conns \subseteq Nat /\ IdOf \in [Msgs -> Ids]
  BY Qos2Assumption DEF Conns
<1> USE <1>n DEF peerVars, channelVars
<1>p. /\ cur' = cur + 1 /\ cur' \in Conns /\ cur' > cur
      /\ \A c \in Conns : c > cur' => c > cur
  BY Qos2Assumption DEF PeerReconnects, Conns, TypeOK
<1>q. /\ inbox[cur'] = {} /\ handling[cur'] = {} /\ outbox[cur'] = {}
      /\ qos2_recv[cur'] = [i \in Ids |-> {}] /\ closer[cur'] = "no"
  BY <1>p, ZenonT(60) DEF FreshInv, Under, Inv
<1>1. WireInv'
  BY <1>p, <1>q DEF PeerReconnects, Active, WireInv, Under, Packet, Packets, PeerInv, First, Second, Inv, TypeOK
<1>2. PeerInv'
  BY <1>p, <1>q DEF PeerReconnects, Active, PeerInv, Under, First, Second, WireInv, Inv, TypeOK
<1>3. FreshInv'
  BY ZenonT(60), <1>p, <1>q DEF PeerReconnects, Active, FreshInv, Under, Inv, TypeOK
<1>4. StashInv'
  BY <1>p, <1>q DEF PeerReconnects, Active, StashInv, Under, Settled, Taken, WireInv, FreshInv, PeerInv, First, Second, Inv, TypeOK
<1>5. OrderInv'
  BY <1>p, <1>q DEF PeerReconnects, Active, OrderInv, Under, First, Second, StashInv, WireInv, PeerInv, FreshInv, Inv, TypeOK
<1>6. ReleaseInv'
  BY <1>p, <1>q DEF PeerReconnects, Active, ReleaseInv, StashInv, WireInv, PeerInv, Under, Inv, TypeOK
<1>7. UncutInv'
  BY ZenonT(60), <1>p, <1>q DEF PeerReconnects, Active, UncutInv, Halfway, Settled, Stored, Taken, StashInv, WireInv, PeerInv, Under, First, Second, Inv, TypeOK
<1> QED
  BY ZenonT(60), <1>1, <1>2, <1>3, <1>4, <1>5, <1>6, <1>7 DEF Inv

\* A packet the peer repeats keeps the invariant.
LEMMA PeerResendsKeeps ==
  ASSUME TypeOK, Inv, NEW m \in Msgs, PeerResends(m)
  PROVE  Inv'
<1>n. Conns \subseteq Nat /\ IdOf \in [Msgs -> Ids]
  BY Qos2Assumption DEF Conns
<1> USE <1>n DEF peerVars, channelVars
<1>q. \A p \in Under(cur) : p.id # IdOf[m] /\ p.of # m
  BY DEF PeerResends, WireInv, PeerInv, Under, First, Second, Active, Packets, Inv, TypeOK
<1>r. m \notin qos2_recv[cur][IdOf[m]] /\ qos2_recv[cur][IdOf[m]] = {}
  BY DEF PeerResends, StashInv, PeerInv, Active, Inv, TypeOK
<1>1. WireInv'
  BY <1>q, <1>r DEF PeerResends, Packet, Active, WireInv, Under, Packets, PeerInv, First, Second, Inv, TypeOK
<1>2. PeerInv'
  BY <1>q, <1>r DEF PeerResends, Packet, Active, PeerInv, Under, First, Second, WireInv, Inv, TypeOK
<1>3. FreshInv'
  BY <1>q, <1>r DEF PeerResends, Packet, Active, FreshInv, Under, Inv, TypeOK
<1>4. StashInv'
  BY <1>q, <1>r DEF PeerResends, Packet, Active, StashInv, Under, Settled, Taken, WireInv, FreshInv, PeerInv, First, Second, Inv, TypeOK
<1>5. OrderInv'
  <2>1. \A d \in Conns : d <= cur \/ (Under(d) = {} /\ qos2_recv[d] = [i \in Ids |-> {}])
    BY DEF FreshInv, Inv, TypeOK
  <2>2. /\ \A d \in Conns : First(d) \subseteq Under(d)
        /\ \A d \in Conns : \A x \in First(d)' :
             x \in First(d) \/ (d = cur /\ x.of = m /\ peer[m] = "publishing")
        /\ \A d \in Conns : \A x \in Second(d)' :
             x \in Second(d) \/ (d = cur /\ x.of = m /\ x.id = IdOf[m] /\ peer[m] # "publishing")
        /\ UNCHANGED qos2_recv
    BY DEF PeerResends, Packet, First, Second, Under, TypeOK
  <2>3. \A d \in Conns : \A x \in Second(d) : peer[x.of] # "publishing"
    BY ZenonT(60) DEF PeerInv, Inv
  <2> QED
    BY <2>1, <2>2, <2>3 DEF OrderInv, Inv
<1>6. ReleaseInv'
  BY <1>q, <1>r DEF PeerResends, Packet, Active, ReleaseInv, StashInv, WireInv, PeerInv, Under, Inv, TypeOK
<1>7. UncutInv'
  BY <1>q, <1>r DEF PeerResends, Packet, Active, UncutInv, Halfway, Settled, Stored, Taken, StashInv, WireInv, PeerInv, Under, First, Second, Inv, TypeOK
<1> QED
  BY ZenonT(60), <1>1, <1>2, <1>3, <1>4, <1>5, <1>6, <1>7 DEF Inv

\* The loop's is_open test keeps the invariant.
LEMMA ReaderChecksKeeps ==
  ASSUME TypeOK, Inv, NEW c \in Conns, c <= cur, ReaderChecks(c)
  PROVE  Inv'
<1>n. Conns \subseteq Nat /\ IdOf \in [Msgs -> Ids]
  BY Qos2Assumption DEF Conns
<1> USE <1>n DEF peerVars, channelVars
<1>i. cur \in Conns /\ \A d \in Conns : \A p \in Second(d) : p.id \in Ids
  BY DEF Second, Under, Packets, TypeOK
<1>f. UNCHANGED <<peer, cur, resend, inbox, outbox, handling, qos2_recv, open, closer, released, cut>>
  BY ZenonT(60) DEF ReaderChecks
<1>h. /\ at[c] \notin {"stashed", "answering"} /\ at'[c] \in {"select", "gone"}
      /\ \A d \in Conns : d # c => at'[d] = at[d]
  BY ZenonT(60) DEF ReaderChecks, TypeOK
<1>g. \A d \in Conns : /\ Under(d)' = Under(d) /\ Stored(d)' = Stored(d) /\ Taken(d)' = Taken(d)
  <2>1. handling[c] = {}
    BY ZenonT(60), <1>h DEF WireInv, Inv, TypeOK
  <2> QED
    BY <1>f, <1>h, <2>1, ZenonT(60) DEF Under, Stored, Taken
<1>k. \A d \in Conns : /\ First(d)' = First(d) /\ Second(d)' = Second(d)
                       /\ Halfway(d)' = Halfway(d) /\ Settled(d)' = Settled(d)
  BY <1>f, <1>g, ZenonT(60) DEF First, Second, Halfway, Settled
<1>1. WireInv'
  <2>1. /\ \A d \in Conns : \A p \in handling'[d] :
             \/ at'[d] = "stashed" /\ p.kind = "Publish"
             \/ at'[d] = "answering" /\ p.kind = "Pubrel"
        /\ \A d \in Conns : at'[d] \in {"stashed", "answering"} => \E p \in Packets : handling'[d] = {p}
    BY ZenonT(60), <1>f, <1>h DEF WireInv, Inv
  <2> QED
    BY <1>f, <1>g, <2>1 DEF WireInv, Inv
<1>2. PeerInv'
  BY ZenonT(60), <1>f, <1>i, <1>g, <1>k, PeerStays DEF Inv
<1>3. FreshInv'
  BY <1>f, <1>g, ZenonT(60) DEF FreshInv, Inv
<1>4. StashInv'
  BY ZenonT(60), <1>f, <1>i, <1>g, <1>k, StashStays DEF Inv
<1>5. OrderInv'
  BY ZenonT(60), <1>f, <1>i, <1>k, OrderStays DEF Inv
<1>6. ReleaseInv'
  BY ZenonT(60), <1>f, ReleaseStays DEF Inv
<1>7. UncutInv'
  <2>1. \A d \in Conns : closer'[d] # "no" => ~ open'[d]
    BY <1>f, ZenonT(60) DEF UncutInv, Inv
  <2>2. cur = c /\ closer[cur] # "no" => at'[cur] # "select"
    BY ZenonT(60) DEF ReaderChecks, UncutInv, Inv, TypeOK
  <2>3. cur # c => at'[cur] = at[cur]
    BY ZenonT(60), <1>h, <1>i
  <2>4. \A p \in Halfway(cur)' : p.of \notin cut' =>
          IF closer'[cur] = "no" THEN p.of \in qos2_recv'[cur][p.id] ELSE at'[cur] # "select"
    BY ZenonT(60), <1>f, <1>k, <1>i, <2>2, <2>3 DEF UncutInv, Inv
  <2>5. /\ \A p \in Settled(cur)' : p.of \notin cut' => released'[p.of] = 1
        /\ \A m \in Msgs : peer'[m] = "complete" /\ m \notin cut' => released'[m] = 1
    BY ZenonT(60), <1>f, <1>k, <1>i DEF UncutInv, Inv
  <2> QED
    BY <1>f, <2>1, <2>4, <2>5, ZenonT(60) DEF UncutInv
<1> QED
  BY ZenonT(60), <1>1, <1>2, <1>3, <1>4, <1>5, <1>6, <1>7 DEF Inv

\* stash_qos2_publish keeps the invariant.
LEMMA StashKeeps ==
  ASSUME TypeOK, Inv, NEW c \in Conns, c <= cur, NEW p \in inbox[c], stash_qos2_publish(c, p)
  PROVE  Inv'
<1>n. Conns \subseteq Nat /\ IdOf \in [Msgs -> Ids]
  BY Qos2Assumption DEF Conns
<1> USE <1>n DEF peerVars, channelVars
<1>p. /\ handling[c] = {} /\ p \in Under(c)
      /\ \A q \in Under(c) : q.id = p.id => q = p
  BY DEF stash_qos2_publish, WireInv, Under, Inv, TypeOK
<1>t. p \in Packets /\ p.id \in Ids /\ p.of \in Msgs
  BY DEF TypeOK, Packets
<1>i. cur \in Conns /\ \A d \in Conns : \A q \in Second(d) : q.id \in Ids
  BY DEF Second, Under, Packets, TypeOK
<1>f. /\ UNCHANGED <<peer, cur, resend, outbox, open, closer, cut>>
      /\ inbox' = [inbox EXCEPT ![c] = @ \ {p}] /\ handling' = [handling EXCEPT ![c] = {p}]
  BY ZenonT(60) DEF stash_qos2_publish
<1>g. \A d \in Conns : Under(d)' = Under(d)
  BY ZenonT(60), <1>f, <1>p DEF Under, TypeOK
<1>k. \A d \in Conns : First(d)' = First(d) /\ Second(d)' = Second(d)
  BY ZenonT(60), <1>g DEF First, Second
<1>1. WireInv'
  <2>1. /\ \A d \in Conns : d # c => at'[d] = at[d] /\ handling'[d] = handling[d]
        /\ at'[c] = "stashed" /\ handling'[c] = {p} /\ p.kind = "Publish"
        /\ \A d \in Conns : inbox'[d] \subseteq inbox[d] /\ p \notin inbox'[c]
    BY ZenonT(60) DEF stash_qos2_publish, TypeOK
  <2>2. /\ \A d \in Conns : \A q \in handling'[d] :
             \/ at'[d] = "stashed" /\ q.kind = "Publish"
             \/ at'[d] = "answering" /\ q.kind = "Pubrel"
        /\ \A d \in Conns : at'[d] \in {"stashed", "answering"} => \E q \in Packets : handling'[d] = {q}
    <3> SUFFICES ASSUME NEW d \in Conns
                 PROVE  /\ \A q \in handling'[d] :
                             \/ at'[d] = "stashed" /\ q.kind = "Publish"
                             \/ at'[d] = "answering" /\ q.kind = "Pubrel"
                        /\ at'[d] \in {"stashed", "answering"} => \E q \in Packets : handling'[d] = {q}
      BY ZenonT(60)
    <3>1. CASE d = c
      BY ZenonT(60), <1>t, <2>1, <3>1
    <3>2. CASE d # c
      <4>1. /\ \A q \in handling[d] : \/ at[d] = "stashed" /\ q.kind = "Publish"
                                      \/ at[d] = "answering" /\ q.kind = "Pubrel"
            /\ at[d] \in {"stashed", "answering"} => \E q \in Packets : handling[d] = {q}
        BY SMTT(60) DEF WireInv, Inv
      <4>2. at'[d] = at[d] /\ handling'[d] = handling[d]
        BY ZenonT(60), <2>1, <3>2
      <4> QED
        BY SMTT(60), <4>1, <4>2
    <3> QED
      BY ZenonT(60), <3>1, <3>2
  <2>3. \A d \in Conns : inbox'[d] \cap handling'[d] = {}
    BY <2>1 DEF WireInv, Inv
  <2>4. /\ \A d \in Conns : \A q \in inbox'[d] : q.kind \in {"Publish", "Pubrel"}
        /\ \A d \in Conns : \A q \in outbox'[d] : q.kind \in {"Pubrec", "Pubcomp"}
    BY ZenonT(60), <1>f, <2>1 DEF WireInv, Inv
  <2>5. /\ \A d \in Conns : \A q \in Under(d)' : q.id = IdOf[q.of]
        /\ \A d \in Conns : \A q, r \in Under(d)' : q.id = r.id => q = r
    BY <1>g DEF WireInv, Inv
  <2> QED
    BY <2>2, <2>3, <2>4, <2>5, ZenonT(60) DEF WireInv
<1>2. PeerInv'
  BY ZenonT(60), <1>f, <1>i, <1>g, <1>k, PeerStays DEF Inv
<1>3. FreshInv'
  <2>1. \A d \in Conns : d > cur => qos2_recv'[d] = qos2_recv[d]
    BY <1>i DEF stash_qos2_publish, TypeOK
  <2> QED
    BY <1>f, <1>g, <2>1, ZenonT(60) DEF FreshInv, Inv
<1>4. StashInv'
  <2>1. \A d \in Conns : \A i \in Ids :
          qos2_recv'[d][i] = IF d = c /\ i = p.id THEN {p.of} ELSE qos2_recv[d][i]
    BY ZenonT(60), <1>t DEF stash_qos2_publish, TypeOK
  <2>2. /\ \A d \in Conns : Under(d)' \subseteq Under(d) /\ Settled(d)' \subseteq Settled(d)
        /\ UNCHANGED <<peer, cur, resend>>
    BY ZenonT(60), <1>p DEF stash_qos2_publish, Under, Settled, Taken, TypeOK
  <2>3. \A d \in Conns : \A q \in Settled(d) : q.id \in Ids /\ (d = c => q.id # p.id)
    BY <1>p DEF stash_qos2_publish, Settled, Taken, Under, WireInv, Inv, TypeOK, Packets
  <2>4. /\ IdOf[p.of] = p.id /\ peer[p.of] # "new"
        /\ c = cur => peer[p.of] = "publishing" /\ p.of \notin resend
    BY <1>p DEF stash_qos2_publish, WireInv, PeerInv, First, Under, Inv
  <2>5. \A d \in Conns : \A i \in Ids : \A m \in qos2_recv'[d][i] :
          /\ IdOf[m] = i /\ qos2_recv'[d][i] = {m} /\ peer[m] # "new"
          /\ \A q \in Under(d) : q.id = i => q.of = m
    BY <1>p, <2>1, <2>4 DEF StashInv, Inv
  <2>6. \A i \in Ids : \A m \in qos2_recv'[cur][i] : m \in Active \ resend
    BY <1>t, <2>1, <2>4 DEF StashInv, Active, Inv, TypeOK
  <2>7. \A d \in Conns : \A q \in Settled(d) : qos2_recv'[d][q.id] = {}
    BY <2>1, <2>3 DEF StashInv, Inv
  <2> QED
    BY <2>2, <2>5, <2>6, <2>7 DEF StashInv, Active
<1>5. OrderInv'
  <2>1. \A d \in Conns : \A i \in Ids :
          qos2_recv'[d][i] = IF d = c /\ i = p.id THEN {p.of} ELSE qos2_recv[d][i]
    BY ZenonT(60), <1>t DEF stash_qos2_publish, TypeOK
  <2>2. \A d \in Conns : First(d)' \subseteq First(d) /\ Second(d)' \subseteq Second(d)
    BY ZenonT(60), <1>p DEF stash_qos2_publish, First, Second, Under, TypeOK
  <2>3. p \in First(c) /\ \A d \in Conns : \A x \in Second(d) : x.id \in Ids
    BY <1>p DEF stash_qos2_publish, First, Second, Under, TypeOK, Packets
  <2> QED
    BY <2>1, <2>2, <2>3 DEF OrderInv, Inv
<1>6. ReleaseInv'
  BY <1>p DEF stash_qos2_publish, ReleaseInv, StashInv, WireInv, PeerInv, Under, Inv, TypeOK
<1>7. UncutInv'
  <2>1. \A i \in Ids : qos2_recv'[cur][i] = IF cur = c /\ i = p.id THEN {p.of} ELSE qos2_recv[cur][i]
    BY ZenonT(60), <1>t DEF stash_qos2_publish, TypeOK
  <2>2. /\ Settled(cur)' \subseteq Settled(cur)
        /\ \A q \in Halfway(cur)' : q \in Halfway(cur) \/ (cur = c /\ q = p)
        /\ \A q \in Halfway(cur) : cur = c => q.id # p.id
    BY <1>p DEF stash_qos2_publish, Settled, Taken, Halfway, Stored, Under, WireInv, Inv, TypeOK
  <2>3. /\ UNCHANGED <<open, closer, cut, peer, released, cur>>
        /\ at'[c] = "stashed" /\ \A d \in Conns : d # c => at'[d] = at[d]
    BY ZenonT(60) DEF stash_qos2_publish, TypeOK
  <2>4. cur \in Conns /\ \A q \in Halfway(cur) : q.id \in Ids
    BY DEF Halfway, Stored, Packets, TypeOK
  <2> QED
    BY <1>t, <2>1, <2>2, <2>3, <2>4, ZenonT(60) DEF UncutInv, Inv
<1> QED
  BY ZenonT(60), <1>1, <1>2, <1>3, <1>4, <1>5, <1>6, <1>7 DEF Inv

\* take_qos2_publish keeps the invariant.
LEMMA TakeKeeps ==
  ASSUME TypeOK, Inv, NEW c \in Conns, c <= cur, NEW p \in inbox[c], take_qos2_publish(c, p)
  PROVE  Inv'
<1>n. Conns \subseteq Nat /\ IdOf \in [Msgs -> Ids]
  BY Qos2Assumption DEF Conns
<1> USE <1>n DEF peerVars, channelVars
<1>p. /\ handling[c] = {} /\ p \in Under(c)
      /\ \A q \in Under(c) : q.id = p.id => q = p
  BY DEF take_qos2_publish, WireInv, Under, Inv, TypeOK
<1>t. p \in Packets /\ p.id \in Ids /\ p.of \in Msgs
  BY DEF TypeOK, Packets
<1>i. cur \in Conns /\ \A d \in Conns : \A q \in Second(d) : q.id \in Ids
  BY DEF Second, Under, Packets, TypeOK
<1>f. /\ UNCHANGED <<peer, cur, resend, outbox, open, closer, cut>>
      /\ inbox' = [inbox EXCEPT ![c] = @ \ {p}] /\ handling' = [handling EXCEPT ![c] = {p}]
  BY ZenonT(60) DEF take_qos2_publish
<1>g. \A d \in Conns : Under(d)' = Under(d)
  BY ZenonT(60), <1>f, <1>p DEF Under, TypeOK
<1>k. \A d \in Conns : First(d)' = First(d) /\ Second(d)' = Second(d)
  BY ZenonT(60), <1>g DEF First, Second
<1>1. WireInv'
  <2>1. /\ \A d \in Conns : d # c => at'[d] = at[d] /\ handling'[d] = handling[d]
        /\ at'[c] = "answering" /\ handling'[c] = {p} /\ p.kind = "Pubrel"
        /\ \A d \in Conns : inbox'[d] \subseteq inbox[d] /\ p \notin inbox'[c]
    BY ZenonT(60) DEF take_qos2_publish, TypeOK
  <2>2. /\ \A d \in Conns : \A q \in handling'[d] :
             \/ at'[d] = "stashed" /\ q.kind = "Publish"
             \/ at'[d] = "answering" /\ q.kind = "Pubrel"
        /\ \A d \in Conns : at'[d] \in {"stashed", "answering"} => \E q \in Packets : handling'[d] = {q}
    <3> SUFFICES ASSUME NEW d \in Conns
                 PROVE  /\ \A q \in handling'[d] :
                             \/ at'[d] = "stashed" /\ q.kind = "Publish"
                             \/ at'[d] = "answering" /\ q.kind = "Pubrel"
                        /\ at'[d] \in {"stashed", "answering"} => \E q \in Packets : handling'[d] = {q}
      BY ZenonT(60)
    <3>1. CASE d = c
      BY ZenonT(60), <1>t, <2>1, <3>1
    <3>2. CASE d # c
      <4>1. /\ \A q \in handling[d] : \/ at[d] = "stashed" /\ q.kind = "Publish"
                                      \/ at[d] = "answering" /\ q.kind = "Pubrel"
            /\ at[d] \in {"stashed", "answering"} => \E q \in Packets : handling[d] = {q}
        BY SMTT(60) DEF WireInv, Inv
      <4>2. at'[d] = at[d] /\ handling'[d] = handling[d]
        BY ZenonT(60), <2>1, <3>2
      <4> QED
        BY SMTT(60), <4>1, <4>2
    <3> QED
      BY ZenonT(60), <3>1, <3>2
  <2>3. \A d \in Conns : inbox'[d] \cap handling'[d] = {}
    BY <2>1 DEF WireInv, Inv
  <2>4. /\ \A d \in Conns : \A q \in inbox'[d] : q.kind \in {"Publish", "Pubrel"}
        /\ \A d \in Conns : \A q \in outbox'[d] : q.kind \in {"Pubrec", "Pubcomp"}
    BY ZenonT(60), <1>f, <2>1 DEF WireInv, Inv
  <2>5. /\ \A d \in Conns : \A q \in Under(d)' : q.id = IdOf[q.of]
        /\ \A d \in Conns : \A q, r \in Under(d)' : q.id = r.id => q = r
    BY <1>g DEF WireInv, Inv
  <2> QED
    BY <2>2, <2>3, <2>4, <2>5, ZenonT(60) DEF WireInv
<1>2. PeerInv'
  BY ZenonT(60), <1>f, <1>i, <1>g, <1>k, PeerStays DEF Inv
<1>3. FreshInv'
  <2>1. \A d \in Conns : d > cur => qos2_recv'[d] = qos2_recv[d]
    BY <1>i DEF take_qos2_publish, TypeOK
  <2> QED
    BY <1>f, <1>g, <2>1, ZenonT(60) DEF FreshInv, Inv
<1>4. StashInv'
  <2>1. \A d \in Conns : \A i \in Ids :
          qos2_recv'[d][i] = IF d = c /\ i = p.id THEN {} ELSE qos2_recv[d][i]
    BY ZenonT(60), <1>t DEF take_qos2_publish, TypeOK
  <2>2. /\ \A d \in Conns : Under(d)' \subseteq Under(d)
        /\ \A d \in Conns : \A q \in Settled(d)' : q \in Settled(d) \/ (d = c /\ q = p)
        /\ UNCHANGED <<peer, cur, resend>>
    BY ZenonT(60), <1>p DEF take_qos2_publish, Under, Settled, Taken, TypeOK
  <2>3. \A d \in Conns : \A q \in Settled(d) : q.id \in Ids
    BY DEF Settled, Taken, Packets, TypeOK
  <2>h. \A d \in Conns : \A q \in Settled(d) : qos2_recv[d][q.id] = {}
    BY ZenonT(60) DEF StashInv, Inv
  <2>4. \A d \in Conns : \A q \in Settled(d)' : qos2_recv'[d][q.id] = {}
    BY <1>t, <2>1, <2>2, <2>3, <2>h
  <2>5. \A i \in Ids : \A m \in qos2_recv'[cur][i] : m \in Active \ resend
    BY <2>1 DEF StashInv, Inv, TypeOK
  <2>6. \A d \in Conns : \A i \in Ids : \A m \in qos2_recv'[d][i] :
          /\ IdOf[m] = i /\ qos2_recv'[d][i] = {m} /\ peer[m] # "new"
          /\ \A q \in Under(d) : q.id = i => q.of = m
    BY <2>1 DEF StashInv, Inv
  <2> QED
    BY <2>2, <2>4, <2>5, <2>6 DEF StashInv, Active
<1>5. OrderInv'
  <2>1. \A d \in Conns : \A i \in Ids : qos2_recv'[d][i] \subseteq qos2_recv[d][i]
    BY ZenonT(60), <1>t DEF take_qos2_publish, TypeOK
  <2> QED
    BY <1>i, <1>k, <2>1, OrderStays, ZenonT(60) DEF Inv
<1>6. ReleaseInv'
  <2>1. \A d \in Conns : \A i \in Ids :
          qos2_recv'[d][i] = IF d = c /\ i = p.id THEN {} ELSE qos2_recv[d][i]
    BY ZenonT(60), <1>t DEF take_qos2_publish, TypeOK
  <2>2. \A m \in Msgs : m \in qos2_recv[c][p.id] => m = p.of
    BY <1>p, <1>t DEF StashInv, Inv
  <2>3. \A m \in Msgs : m # p.of => released'[m] = released[m]
    BY ZenonT(60), <2>2 DEF take_qos2_publish
  <2>4. p.id = IdOf[p.of] /\ peer[p.of] \in {"releasing", "complete"} /\ p \in Second(c)
    <3>1. p \in Second(c)
      BY ZenonT(60), <1>p DEF take_qos2_publish, Second
    <3>2. p.id = IdOf[p.of]
      BY ZenonT(60), <1>p DEF WireInv, Inv
    <3>3. peer[p.of] # "new" /\ peer[p.of] # "publishing"
      BY ZenonT(60), <1>p, <3>1 DEF PeerInv, Inv
    <3>4. peer[p.of] \in {"new", "publishing", "releasing", "complete"}
      BY ZenonT(60), <1>t DEF TypeOK
    <3> QED
      BY ZenonT(60), <3>1, <3>2, <3>3, <3>4
  <2>5. UNCHANGED peer /\ \A d \in Conns : inbox'[d] \subseteq inbox[d]
    BY ZenonT(60) DEF take_qos2_publish, TypeOK
  <2>6. ASSUME NEW d \in Conns, p.of \in qos2_recv'[d][p.id], released'[p.of] = 1,
               NEW q \in inbox'[d], q.kind = "Pubrel"
        PROVE  q.of # p.of
    <3>1. d # c /\ p.of \in qos2_recv[d][p.id] /\ q \in inbox[d] /\ q \in Second(d)
      BY <1>t, <2>1, <2>5, <2>6, ZenonT(60) DEF Second, Under
    <3>2. CASE released[p.of] = 1
      BY ZenonT(60), <1>t, <2>4, <2>6, <3>1, <3>2 DEF ReleaseInv, Inv
    <3>3. CASE released[p.of] # 1
      <4>1. p.of \in qos2_recv[c][p.id]
        BY ZenonT(60), <1>t, <2>6, <3>3 DEF take_qos2_publish
      <4>2. q.of = p.of => q.id = p.id
        BY <2>4, <3>1 DEF WireInv, Under, Inv
      <4>3. q.of = p.of => c <= d /\ d <= c
        BY ZenonT(60), <2>4, <3>1, <4>1, <4>2 DEF OrderInv, Inv
      <4>4. c \in Nat /\ d \in Nat /\ d # c
        BY ZenonT(60), <3>1
      <4> QED
        BY <4>3, <4>4
    <3> QED
      BY ZenonT(60), <3>2, <3>3
  <2>7. \A m \in Msgs : m # p.of => \A d \in Conns :
          m \in qos2_recv'[d][IdOf[m]] => m \in qos2_recv[d][IdOf[m]]
    BY ZenonT(60), <2>1
  <2> QED
    BY <1>t, <2>3, <2>4, <2>5, <2>6, <2>7 DEF ReleaseInv, Inv
<1>7. UncutInv'
  <2>1. \A i \in Ids : qos2_recv'[cur][i] = IF cur = c /\ i = p.id THEN {} ELSE qos2_recv[cur][i]
    BY ZenonT(60), <1>t DEF take_qos2_publish, TypeOK
  <2>2. /\ \A q \in Settled(cur)' : q \in Settled(cur) \/ (cur = c /\ q = p)
        /\ \A q \in Halfway(cur)' : q \in Halfway(cur) /\ (cur = c => q # p)
        /\ \A q \in Halfway(cur) : cur = c => (q = p \/ q.id # p.id)
        /\ p \in Halfway(c)
    BY ZenonT(60), <1>p DEF take_qos2_publish, Settled, Taken, Halfway, Stored, Under, WireInv, Inv, TypeOK
  <2>3. /\ UNCHANGED <<open, closer, cut, peer, cur>> /\ at[c] = "select"
        /\ at'[c] = "answering" /\ \A d \in Conns : d # c => at'[d] = at[d]
    BY ZenonT(60) DEF take_qos2_publish, TypeOK
  <2>4. /\ cur \in Conns
        /\ \A q \in Halfway(cur) : q.id \in Ids
        /\ \A q \in Settled(cur) : q.of \in Msgs
    BY DEF Halfway, Stored, Settled, Taken, Packets, TypeOK
  <2>5. \A m \in Msgs : released[m] = 1 => m \notin qos2_recv[c][p.id]
    <3> SUFFICES ASSUME NEW m \in Msgs, released[m] = 1, m \in qos2_recv[c][p.id] PROVE FALSE
      BY ZenonT(60)
    <3>1. p.of = m /\ IdOf[m] = p.id
      BY <1>p, <1>t DEF StashInv, Inv
    <3> QED
      BY ZenonT(60), <3>1 DEF ReleaseInv, take_qos2_publish, Inv
  <2>6. /\ \A m \in Msgs : released[m] = 1 => released'[m] = 1
        /\ cur = c /\ p.of \notin cut => released'[p.of] = 1
    <3>1. cur = c /\ p.of \notin cut => p.of \in qos2_recv[c][p.id]
      BY ZenonT(60), <2>2, <2>3 DEF UncutInv, Inv
    <3>2. p.of \in qos2_recv[c][p.id] => released[p.of] = 0
      BY <1>t, <2>5 DEF TypeOK
    <3> QED
      BY <1>t, <2>5, <3>1, <3>2 DEF take_qos2_publish
  <2> QED
    BY ZenonT(60), <1>t, <2>1, <2>2, <2>3, <2>4, <2>6 DEF UncutInv, Inv
<1> QED
  BY ZenonT(60), <1>1, <1>2, <1>3, <1>4, <1>5, <1>6, <1>7 DEF Inv

\* The loop's answer keeps the invariant.
LEMMA SendKeeps ==
  ASSUME TypeOK, Inv, NEW c \in Conns, c <= cur, send_packet(c)
  PROVE  Inv'
<1>n. Conns \subseteq Nat /\ IdOf \in [Msgs -> Ids]
  BY Qos2Assumption DEF Conns
<1> USE <1>n DEF peerVars, channelVars
<1>p. PICK p \in Packets : handling[c] = {p}
  BY ZenonT(60) DEF send_packet, WireInv, Inv
<1>q. PICK q \in Packets : q.kind = Reply(c) /\ q.id = p.id /\ q.of = p.of /\ q = [p EXCEPT !.kind = Reply(c)]
  BY ZenonT(60) DEF Packets, Reply
<1>r. /\ handling' = [handling EXCEPT ![c] = {}]
      /\ \/ outbox' = [outbox EXCEPT ![c] = @ \cup {q}] /\ at' = [at EXCEPT ![c] = "check"]
         \/ outbox' = outbox /\ at' = [at EXCEPT ![c] = "gone"]
      /\ UNCHANGED <<peer, cur, resend, inbox, qos2_recv, closer, open, released, cut>>
  BY <1>p, <1>q DEF send_packet
<1>k. \/ at[c] = "stashed" /\ p.kind = "Publish" /\ q.kind = "Pubrec"
      \/ at[c] = "answering" /\ p.kind = "Pubrel" /\ q.kind = "Pubcomp"
  BY ZenonT(60), <1>p, <1>q DEF send_packet, Reply, WireInv, Inv
<1>s. /\ p \in Under(c) /\ p \notin inbox[c] /\ p \notin outbox[c]
      /\ \A x \in Under(c) : x.id = p.id => x = p
  <2>1. p \in handling[c] /\ p \in Under(c)
    BY <1>p, ZenonT(60) DEF Under
  <2>2. /\ inbox[c] \cap handling[c] = {}
        /\ \A x \in outbox[c] : x.kind \in {"Pubrec", "Pubcomp"}
        /\ \A x, y \in Under(c) : x.id = y.id => x = y
    BY ZenonT(60) DEF WireInv, Inv
  <2>3. p \notin outbox[c]
    BY ZenonT(60), <1>k, <2>2
  <2> QED
    BY <2>1, <2>2, <2>3, ZenonT(60)
<1>u. /\ \A d \in Conns : \A x \in Under(d)' : x \in Under(d) \/ (d = c /\ x = q)
      /\ \A x \in Under(c)' : x # q => x.id # p.id
      /\ \A d \in Conns : d # c => handling'[d] = handling[d] /\ at'[d] = at[d] /\ outbox'[d] = outbox[d]
      /\ handling'[c] = {} /\ at'[c] \in {"check", "gone"}
      /\ \A x \in outbox'[c] : x \in outbox[c] \/ x = q
  BY <1>p, <1>q, <1>r, <1>s DEF Under, TypeOK
<1>1. WireInv'
  <2>1. \A d \in Conns : \A x \in inbox'[d] : x.kind \in {"Publish", "Pubrel"}
    BY <1>r, ZenonT(60) DEF WireInv, Inv
  <2>2. \A d \in Conns : \A x \in outbox'[d] : x.kind \in {"Pubrec", "Pubcomp"}
    BY ZenonT(60), <1>k, <1>u DEF WireInv, Inv
  <2>3. \A d \in Conns : \A x \in handling'[d] :
          \/ at'[d] = "stashed" /\ x.kind = "Publish"
          \/ at'[d] = "answering" /\ x.kind = "Pubrel"
    BY ZenonT(60), <1>u DEF WireInv, Inv
  <2>4. \A d \in Conns : \A x \in Under(d)' : x.id = IdOf[x.of]
    <3>1. \A d \in Conns : \A x \in Under(d) : x.id = IdOf[x.of]
      BY ZenonT(60) DEF WireInv, Inv
    <3>2. q.id = IdOf[q.of]
      BY ZenonT(60), <1>q, <1>s, <3>1
    <3> QED
      BY ZenonT(60), <1>u, <3>1, <3>2
  <2>5. \A d \in Conns : \A x, y \in Under(d)' : x.id = y.id => x = y
    <3>1. \A d \in Conns : \A x, y \in Under(d) : x.id = y.id => x = y
      BY ZenonT(60) DEF WireInv, Inv
    <3> QED
      BY <1>q, <1>u, <3>1, ZenonT(60)
  <2>6. \A d \in Conns : inbox'[d] \cap handling'[d] = {}
    BY ZenonT(60), <1>r, <1>u DEF WireInv, Inv
  <2>7. \A d \in Conns : at'[d] \in {"stashed", "answering"} => \E x \in Packets : handling'[d] = {x}
    BY <1>u DEF WireInv, Inv
  <2> QED
    BY <2>1, <2>2, <2>3, <2>4, <2>5, <2>6, <2>7, ZenonT(60) DEF WireInv
<1>2. PeerInv'
  <2>1. \A d \in Conns : \A x \in First(d)' : \E y \in First(d) : y.of = x.of
    BY <1>p, <1>q, <1>k, <1>s, <1>u, ZenonT(60) DEF First
  <2>2. \A d \in Conns : \A x \in Second(d)' : \E y \in Second(d) : y.of = x.of
    BY <1>p, <1>q, <1>k, <1>s, <1>u, ZenonT(60) DEF Second
  <2>3. \A d \in Conns : \A x \in Under(d)' : \E y \in Under(d) : y.of = x.of
    BY <1>p, <1>q, <1>s, <1>u, ZenonT(60)
  <2> QED
    <3>1. cur \in Conns /\ peer' = peer /\ cur' = cur /\ resend' = resend /\ cut' = cut /\ Active' = Active
      BY ZenonT(60), <1>r DEF TypeOK, Active
    <3>2. \A x \in First(cur)' : peer[x.of] = "publishing" /\ x.of \notin resend
      <4>1. \A y \in First(cur) : peer[y.of] = "publishing" /\ y.of \notin resend
        BY ZenonT(60) DEF PeerInv, Inv
      <4> QED
        BY <2>1, <3>1, <4>1
    <3>3. \A x \in Second(cur)' : peer[x.of] = "releasing" /\ x.of \notin resend
      BY <2>2, <3>1 DEF PeerInv, Inv
    <3>4. /\ \A d \in Conns : \A x \in Under(d)' : peer[x.of] # "new"
          /\ \A d \in Conns : \A x \in Second(d)' : peer[x.of] # "publishing"
      BY <2>2, <2>3 DEF PeerInv, Inv
    <3> QED
      BY <3>1, <3>2, <3>3, <3>4, ZenonT(60) DEF PeerInv, Inv
<1>3. FreshInv'
  BY <1>r, <1>u DEF FreshInv, Under, Inv, TypeOK
<1>4. StashInv'
  <2>a. /\ \A d \in Conns : Taken(d)' \subseteq Taken(d) /\ Stored(d)' \subseteq Stored(d)
        /\ q.kind = "Pubcomp" => p \in Taken(c)
        /\ q.kind = "Pubrec" => p \in Stored(c)
    BY ZenonT(60), <1>p, <1>k, <1>u DEF Taken, Stored
  <2>1. \A d \in Conns : \A x \in Under(d)' : \E y \in Under(d) : y.of = x.of /\ y.id = x.id
    BY <1>p, <1>q, <1>s, <1>u, ZenonT(60)
  <2>2. \A d \in Conns : \A x \in Settled(d)' : \E y \in Settled(d) : y.id = x.id
    BY <1>q, <1>u, <2>a, ZenonT(60) DEF Settled
  <2>3. \A d \in Conns : \A i \in Ids : \A m \in qos2_recv[d][i] :
          /\ IdOf[m] = i /\ qos2_recv[d][i] = {m} /\ peer[m] # "new"
          /\ \A x \in Under(d)' : x.id = i => x.of = m
    <3>1. \A d \in Conns : \A i \in Ids : \A m \in qos2_recv[d][i] :
            /\ IdOf[m] = i /\ qos2_recv[d][i] = {m} /\ peer[m] # "new"
            /\ \A y \in Under(d) : y.id = i => y.of = m
      BY ZenonT(60) DEF StashInv, Inv
    <3> SUFFICES ASSUME NEW d \in Conns, NEW i \in Ids, NEW m \in qos2_recv[d][i]
                 PROVE  /\ IdOf[m] = i /\ qos2_recv[d][i] = {m} /\ peer[m] # "new"
                        /\ \A x \in Under(d)' : x.id = i => x.of = m
      BY ZenonT(60)
    <3>2. /\ IdOf[m] = i /\ qos2_recv[d][i] = {m} /\ peer[m] # "new"
          /\ \A y \in Under(d) : y.id = i => y.of = m
      BY <3>1, ZenonT(60)
    <3>3. ASSUME NEW x \in Under(d)', x.id = i PROVE x.of = m
      <4>1. PICK y \in Under(d) : y.of = x.of /\ y.id = x.id
        BY <2>1, ZenonT(60)
      <4>2. y.of = m
        BY <3>2, <3>3, <4>1, ZenonT(60)
      <4> QED
        BY ZenonT(60), <4>1, <4>2
    <3> QED
      BY <3>2, <3>3, ZenonT(60)
  <2>4. \A d \in Conns : \A x \in Settled(d)' : qos2_recv[d][x.id] = {}
    <3>1. \A d \in Conns : \A y \in Settled(d) : qos2_recv[d][y.id] = {}
      BY ZenonT(60) DEF StashInv, Inv
    <3> QED
      BY <2>2, <3>1
  <2>5. peer' = peer /\ qos2_recv' = qos2_recv /\ cur' = cur /\ resend' = resend /\ Active' = Active
    BY ZenonT(60), <1>r DEF Active
  <2>6. \A i \in Ids : \A m \in qos2_recv[cur][i] : m \in Active \ resend
    BY ZenonT(60) DEF StashInv, Inv
  <2>7. \A i \in Ids : \A m \in qos2_recv'[cur'][i] : m \in Active' \ resend'
    BY <2>5, <2>6, ZenonT(60)
  <2>8. \A d \in Conns : \A i \in Ids : \A m \in qos2_recv'[d][i] :
          /\ IdOf[m] = i /\ qos2_recv'[d][i] = {m} /\ peer'[m] # "new"
          /\ \A x \in Under(d)' : x.id = i => x.of = m
    <3> SUFFICES ASSUME NEW d \in Conns, NEW i \in Ids, NEW m \in qos2_recv'[d][i]
                 PROVE  /\ IdOf[m] = i /\ qos2_recv'[d][i] = {m} /\ peer'[m] # "new"
                        /\ \A x \in Under(d)' : x.id = i => x.of = m
      BY ZenonT(60)
    <3>1. qos2_recv'[d][i] = qos2_recv[d][i] /\ peer'[m] = peer[m]
      BY <2>5, ZenonT(60)
    <3>2. m \in qos2_recv[d][i]
      BY ZenonT(60), <3>1
    <3>3. /\ IdOf[m] = i /\ qos2_recv[d][i] = {m} /\ peer[m] # "new"
          /\ \A x \in Under(d)' : x.id = i => x.of = m
      BY <2>3, <3>2, ZenonT(60)
    <3> QED
      BY <3>1, <3>3, ZenonT(60)
  <2>9. \A d \in Conns : \A x \in Settled(d)' : qos2_recv'[d][x.id] = {}
    BY <2>4, <2>5, ZenonT(60)
  <2> QED
    BY <2>7, <2>8, <2>9, ZenonT(60) DEF StashInv
<1>5. OrderInv'
  <2>1. \A d \in Conns : \A x \in First(d)' : \E y \in First(d) : y.of = x.of
    BY <1>p, <1>q, <1>k, <1>s, <1>u, ZenonT(60) DEF First
  <2>2. \A d \in Conns : \A x \in Second(d)' : \E y \in Second(d) : y.of = x.of /\ y.id = x.id
    BY <1>p, <1>q, <1>k, <1>s, <1>u, ZenonT(60) DEF Second
  <2> QED
    <3> SUFFICES ASSUME NEW d \in Conns, NEW e \in Conns, NEW x \in Second(d)'
                 PROVE  /\ x.of \in qos2_recv'[e][x.id] => e <= d
                        /\ \A z \in First(e)' : z.of = x.of => e <= d
      BY ZenonT(60) DEF OrderInv
    <3>1. PICK y \in Second(d) : y.of = x.of /\ y.id = x.id
      BY <2>2, ZenonT(60)
    <3>2. /\ y.of \in qos2_recv[e][y.id] => e <= d
          /\ \A z \in First(e) : z.of = y.of => e <= d
      BY ZenonT(60) DEF OrderInv, Inv
    <3>3. x.of \in qos2_recv'[e][x.id] => e <= d
      BY ZenonT(60), <1>r, <3>1, <3>2
    <3>4. ASSUME NEW z \in First(e)', z.of = x.of PROVE e <= d
      <4>1. PICK w \in First(e) : w.of = z.of
        BY <2>1, ZenonT(60)
      <4> QED
        BY ZenonT(60), <3>1, <3>2, <3>4, <4>1
    <3> QED
      BY <3>3, <3>4, ZenonT(60)
<1>6. ReleaseInv'
  BY <1>p, <1>q, <1>r, <1>k, <1>s, <1>u DEF send_packet, Reply, ReleaseInv, StashInv, WireInv, PeerInv, Under, Inv, TypeOK
<1>7. UncutInv'
  <2>a. /\ \A d \in Conns : Taken(d)' \subseteq Taken(d) /\ Stored(d)' \subseteq Stored(d)
        /\ q.kind = "Pubcomp" => p \in Taken(c)
        /\ q.kind = "Pubrec" => p \in Stored(c)
    BY ZenonT(60), <1>p, <1>k, <1>u DEF Taken, Stored
  <2>1. cur \in Conns /\ inbox' = inbox /\ cur' = cur
    BY ZenonT(60), <1>r DEF TypeOK
  <2>2. \A x \in Halfway(cur)' : \E y \in Halfway(cur) : y.of = x.of /\ y.id = x.id
    BY <1>q, <1>u, <2>a, <2>1, ZenonT(60) DEF Halfway
  <2>3. \A x \in Settled(cur)' : \E y \in Settled(cur) : y.of = x.of
    BY <1>q, <1>u, <2>a, <2>1, ZenonT(60) DEF Settled
  <2>4. at'[cur] = "select" => at[cur] = "select"
    BY <1>u, <2>1, ZenonT(60)
  <2> QED
    BY ZenonT(60), <1>r, <2>1, <2>2, <2>3, <2>4 DEF UncutInv, Inv
<1> QED
  BY ZenonT(60), <1>1, <1>2, <1>3, <1>4, <1>5, <1>6, <1>7 DEF Inv

\* The end of the loop keeps the invariant.
LEMMA ReaderStopsKeeps ==
  ASSUME TypeOK, Inv, NEW c \in Conns, c <= cur, ReaderStops(c)
  PROVE  Inv'
<1>n. Conns \subseteq Nat /\ IdOf \in [Msgs -> Ids]
  BY Qos2Assumption DEF Conns
<1> USE <1>n DEF peerVars, channelVars
<1>i. cur \in Conns /\ \A d \in Conns : \A p \in Second(d) : p.id \in Ids
  BY DEF Second, Under, Packets, TypeOK
<1>f. UNCHANGED <<peer, cur, resend, inbox, outbox, handling, qos2_recv, open, closer, released, cut>>
  BY ZenonT(60) DEF ReaderStops
<1>h. /\ at[c] \notin {"stashed", "answering"} /\ at'[c] \in {"select", "gone"}
      /\ \A d \in Conns : d # c => at'[d] = at[d]
  BY ZenonT(60) DEF ReaderStops, TypeOK
<1>g. \A d \in Conns : /\ Under(d)' = Under(d) /\ Stored(d)' = Stored(d) /\ Taken(d)' = Taken(d)
  <2>1. handling[c] = {}
    BY ZenonT(60), <1>h DEF WireInv, Inv, TypeOK
  <2> QED
    BY ZenonT(60), <1>f, <1>h, <2>1 DEF Under, Stored, Taken
<1>k. \A d \in Conns : /\ First(d)' = First(d) /\ Second(d)' = Second(d)
                       /\ Halfway(d)' = Halfway(d) /\ Settled(d)' = Settled(d)
  BY <1>f, <1>g, ZenonT(60) DEF First, Second, Halfway, Settled
<1>1. WireInv'
  <2>1. /\ \A d \in Conns : \A p \in handling'[d] :
             \/ at'[d] = "stashed" /\ p.kind = "Publish"
             \/ at'[d] = "answering" /\ p.kind = "Pubrel"
        /\ \A d \in Conns : at'[d] \in {"stashed", "answering"} => \E p \in Packets : handling'[d] = {p}
    BY ZenonT(60), <1>f, <1>h DEF WireInv, Inv
  <2> QED
    BY <1>f, <1>g, <2>1 DEF WireInv, Inv
<1>2. PeerInv'
  BY ZenonT(60), <1>f, <1>i, <1>g, <1>k, PeerStays DEF Inv
<1>3. FreshInv'
  BY <1>f, <1>g, ZenonT(60) DEF FreshInv, Inv
<1>4. StashInv'
  BY ZenonT(60), <1>f, <1>i, <1>g, <1>k, StashStays DEF Inv
<1>5. OrderInv'
  BY ZenonT(60), <1>f, <1>i, <1>k, OrderStays DEF Inv
<1>6. ReleaseInv'
  BY ZenonT(60), <1>f, ReleaseStays DEF Inv
<1>7. UncutInv'
  <2>1. \A d \in Conns : closer'[d] # "no" => ~ open'[d]
    BY <1>f, ZenonT(60) DEF UncutInv, Inv
  <2>2. cur = c /\ closer[cur] # "no" => at'[cur] # "select"
    BY ZenonT(60) DEF ReaderStops, UncutInv, Inv, TypeOK
  <2>3. cur # c => at'[cur] = at[cur]
    BY ZenonT(60), <1>h, <1>i
  <2>4. \A p \in Halfway(cur)' : p.of \notin cut' =>
          IF closer'[cur] = "no" THEN p.of \in qos2_recv'[cur][p.id] ELSE at'[cur] # "select"
    BY ZenonT(60), <1>f, <1>k, <1>i, <2>2, <2>3 DEF UncutInv, Inv
  <2>5. /\ \A p \in Settled(cur)' : p.of \notin cut' => released'[p.of] = 1
        /\ \A m \in Msgs : peer'[m] = "complete" /\ m \notin cut' => released'[m] = 1
    BY ZenonT(60), <1>f, <1>k, <1>i DEF UncutInv, Inv
  <2> QED
    BY <1>f, <2>1, <2>4, <2>5, ZenonT(60) DEF UncutInv
<1> QED
  BY ZenonT(60), <1>1, <1>2, <1>3, <1>4, <1>5, <1>6, <1>7 DEF Inv

\* close(), up to the flag, keeps the invariant.
LEMMA closeKeeps ==
  ASSUME TypeOK, Inv, NEW c \in Conns, c <= cur, close(c)
  PROVE  Inv'
<1>n. Conns \subseteq Nat /\ IdOf \in [Msgs -> Ids]
  BY Qos2Assumption DEF Conns
<1> USE <1>n DEF peerVars, channelVars
<1>i. cur \in Conns /\ \A d \in Conns : \A p \in Second(d) : p.id \in Ids
  BY DEF Second, Under, Packets, TypeOK
<1>f. UNCHANGED <<peer, cur, resend, inbox, outbox, at, handling, released, qos2_recv>>
  BY ZenonT(60) DEF close
<1>g. \A d \in Conns : /\ Under(d)' = Under(d) /\ First(d)' = First(d) /\ Second(d)' = Second(d)
                       /\ Halfway(d)' = Halfway(d) /\ Settled(d)' = Settled(d)
  BY <1>f, ZenonT(60) DEF Under, First, Second, Halfway, Settled, Stored, Taken
<1>1. WireInv'
  BY ZenonT(60), <1>f, WireStays DEF Inv
<1>2. PeerInv'
  <2>1. cut \subseteq cut'
    BY ZenonT(60) DEF close
  <2> QED
    BY ZenonT(60), <1>f, <1>i, <1>g, <2>1, PeerStays DEF Inv
<1>3. FreshInv'
  <2>0. \A d \in Conns : d # c => open'[d] = open[d] /\ closer'[d] = closer[d]
    BY ZenonT(60) DEF close, TypeOK
  <2>1. \A d \in Conns : d > cur => open'[d] = open[d] /\ closer'[d] = closer[d]
    BY <1>i, <2>0
  <2> QED
    BY <1>f, <1>g, <2>1, ZenonT(60) DEF FreshInv, Inv
<1>4. StashInv'
  BY ZenonT(60), <1>f, <1>i, <1>g, StashStays DEF Inv
<1>5. OrderInv'
  BY <1>f, <1>i, <1>g, OrderStays, ZenonT(60) DEF Inv
<1>6. ReleaseInv'
  BY ZenonT(60), <1>f, ReleaseStays DEF Inv
<1>7. UncutInv'
  <2>1. /\ UNCHANGED <<peer, cur, at, qos2_recv, released>>
        /\ \A d \in Conns : d # c => closer'[d] = closer[d] /\ open'[d] = open[d]
        /\ ~ open'[c] /\ cut \subseteq cut' /\ (c = cur => cut' = cut \cup Active)
    BY ZenonT(60) DEF close, TypeOK
  <2>2. Halfway(cur)' = Halfway(cur) /\ Settled(cur)' = Settled(cur)
    BY ZenonT(60) DEF close, Halfway, Stored, Settled, Taken
  <2>3. \A p \in Halfway(cur) \cup Settled(cur) : p.of \in Active
    <3>1. \A p \in Halfway(cur) \cup Settled(cur) : p \in First(cur) \cup Second(cur) /\ p.of \in Msgs
      BY DEF Halfway, Stored, Settled, Taken, First, Second, Under, WireInv, Inv, TypeOK, Packets
    <3> QED
      BY ZenonT(60), <3>1 DEF PeerInv, Active, Inv
  <2> QED
    BY ZenonT(60), <2>1, <2>2, <2>3 DEF UncutInv, Inv, TypeOK
<1> QED
  BY ZenonT(60), <1>1, <1>2, <1>3, <1>4, <1>5, <1>6, <1>7 DEF Inv

\* The abandon() of close() keeps the invariant.
LEMMA abandonKeeps ==
  ASSUME TypeOK, Inv, NEW c \in Conns, c <= cur, abandon(c)
  PROVE  Inv'
<1>n. Conns \subseteq Nat /\ IdOf \in [Msgs -> Ids]
  BY Qos2Assumption DEF Conns
<1> USE <1>n DEF peerVars, channelVars
<1>i. cur \in Conns /\ \A d \in Conns : \A p \in Second(d) : p.id \in Ids
  BY DEF Second, Under, Packets, TypeOK
<1>f. UNCHANGED <<peer, cur, resend, inbox, outbox, at, handling, released, open, cut>>
  BY ZenonT(60) DEF abandon
<1>g. \A d \in Conns : /\ Under(d)' = Under(d) /\ First(d)' = First(d) /\ Second(d)' = Second(d)
                       /\ Halfway(d)' = Halfway(d) /\ Settled(d)' = Settled(d)
  BY <1>f, ZenonT(60) DEF Under, First, Second, Halfway, Settled, Stored, Taken
<1>r. \A d \in Conns : \A i \in Ids :
        qos2_recv'[d][i] = (IF d = c THEN {} ELSE qos2_recv[d][i])
  BY ZenonT(60) DEF abandon, TypeOK
<1>1. WireInv'
  BY ZenonT(60), <1>f, WireStays DEF Inv
<1>2. PeerInv'
  BY ZenonT(60), <1>f, <1>i, <1>g, PeerStays DEF Inv
<1>3. FreshInv'
  <2>1. \A d \in Conns : d > cur => qos2_recv'[d] = qos2_recv[d] /\ closer'[d] = closer[d]
    BY <1>i DEF abandon, TypeOK
  <2> QED
    BY <1>f, <1>g, <2>1, ZenonT(60) DEF FreshInv, Inv
<1>4. StashInv'
  <2>1. Active' = Active
    BY ZenonT(60), <1>f DEF Active
  <2>2. \A d \in Conns : \A p \in Settled(d) : p.id \in Ids
    BY DEF Settled, Taken, Packets, TypeOK
  <2>3. \A d \in Conns : \A p \in Settled(d)' : qos2_recv'[d][p.id] = {}
    <3>1. \A d \in Conns : \A p \in Settled(d) : qos2_recv[d][p.id] = {}
      BY ZenonT(60) DEF StashInv, Inv
    <3> SUFFICES ASSUME NEW d \in Conns, NEW p \in Settled(d) PROVE qos2_recv'[d][p.id] = {}
      BY <1>g, ZenonT(60)
    <3>2. p.id \in Ids /\ qos2_recv[d][p.id] = {}
      BY <2>2, <3>1, ZenonT(60)
    <3> QED
      BY ZenonT(60), <1>r, <3>2
  <2>4. \A i \in Ids : \A m \in qos2_recv'[cur'][i] : m \in Active' \ resend'
    <3>1. \A i \in Ids : \A m \in qos2_recv[cur][i] : m \in Active \ resend
      BY ZenonT(60) DEF StashInv, Inv
    <3> QED
      BY <1>f, <1>i, <1>r, <2>1, <3>1, ZenonT(60)
  <2>5. \A d \in Conns : \A i \in Ids : \A m \in qos2_recv'[d][i] :
          /\ IdOf[m] = i /\ qos2_recv'[d][i] = {m} /\ peer'[m] # "new"
          /\ \A p \in Under(d)' : p.id = i => p.of = m
    <3>1. \A d \in Conns : \A i \in Ids : \A m \in qos2_recv[d][i] :
            /\ IdOf[m] = i /\ qos2_recv[d][i] = {m} /\ peer[m] # "new"
            /\ \A p \in Under(d) : p.id = i => p.of = m
      BY ZenonT(60) DEF StashInv, Inv
    <3> QED
      <4> SUFFICES ASSUME NEW d \in Conns, NEW i \in Ids, NEW m \in qos2_recv'[d][i]
                   PROVE  /\ IdOf[m] = i /\ qos2_recv'[d][i] = {m} /\ peer'[m] # "new"
                          /\ \A p \in Under(d)' : p.id = i => p.of = m
        BY ZenonT(60)
      <4>1. qos2_recv'[d][i] = qos2_recv[d][i] /\ m \in qos2_recv[d][i]
        BY ZenonT(60), <1>r
      <4>2. peer'[m] = peer[m] /\ Under(d)' = Under(d)
        BY <1>f, <1>g, ZenonT(60)
      <4>3. /\ IdOf[m] = i /\ qos2_recv[d][i] = {m} /\ peer[m] # "new"
            /\ \A p \in Under(d) : p.id = i => p.of = m
        BY <3>1, <4>1, ZenonT(60)
      <4> QED
        BY ZenonT(60), <4>1, <4>2, <4>3
  <2> QED
    BY <2>3, <2>4, <2>5, ZenonT(60) DEF StashInv
<1>5. OrderInv'
  <2>1. \A d \in Conns : \A i \in Ids : qos2_recv'[d][i] \subseteq qos2_recv[d][i]
    BY <1>r, ZenonT(60)
  <2> QED
    BY <1>i, <1>g, <2>1, OrderStays, ZenonT(60) DEF Inv
<1>6. ReleaseInv'
  <2>1. \A d \in Conns : \A i \in Ids : qos2_recv'[d][i] \subseteq qos2_recv[d][i]
    BY ZenonT(60), <1>r
  <2> QED
    BY <1>f, <2>1, ReleaseStays, ZenonT(60) DEF Inv
<1>7. UncutInv'
  <2>1. /\ closer[c] # "no" /\ ~ open[c]
        /\ \A d \in Conns : d # c => closer'[d] = closer[d]
        /\ closer'[c] # "no"
    BY ZenonT(60) DEF abandon, UncutInv, Inv, TypeOK
  <2>2. \A d \in Conns : closer'[d] # "no" => ~ open'[d]
    BY <1>f, <2>1, ZenonT(60) DEF UncutInv, Inv
  <2>3. \A p \in Halfway(cur) : p.id \in Ids
    BY DEF Halfway, Stored, Packets, TypeOK
  <2>4. \A p \in Halfway(cur)' : p.of \notin cut' =>
          IF closer'[cur] = "no" THEN p.of \in qos2_recv'[cur][p.id] ELSE at'[cur] # "select"
    <3> SUFFICES ASSUME NEW p \in Halfway(cur), p.of \notin cut
                 PROVE  IF closer'[cur] = "no" THEN p.of \in qos2_recv'[cur][p.id]
                        ELSE at[cur] # "select"
      BY ZenonT(60), <1>f, <1>g, <1>i
    <3>1. IF closer[cur] = "no" THEN p.of \in qos2_recv[cur][p.id] ELSE at[cur] # "select"
      BY ZenonT(60) DEF UncutInv, Inv
    <3>2. p.id \in Ids
      BY <2>3, ZenonT(60)
    <3>3. cur # c => closer'[cur] = closer[cur] /\ qos2_recv'[cur][p.id] = qos2_recv[cur][p.id]
      BY <1>i, <1>r, <2>1, <3>2, ZenonT(60)
    <3> QED
      BY ZenonT(60), <2>1, <3>1, <3>3
  <2>5. /\ \A p \in Settled(cur)' : p.of \notin cut' => released'[p.of] = 1
        /\ \A m \in Msgs : peer'[m] = "complete" /\ m \notin cut' => released'[m] = 1
    BY <1>f, <1>g, <1>i, ZenonT(60) DEF UncutInv, Inv
  <2> QED
    BY <1>f, <2>2, <2>4, <2>5, ZenonT(60) DEF UncutInv
<1> QED
  BY ZenonT(60), <1>1, <1>2, <1>3, <1>4, <1>5, <1>6, <1>7 DEF Inv

\* The writer's exit keeps the invariant.
LEMMA WriterExitsKeeps ==
  ASSUME TypeOK, Inv, NEW c \in Conns, c <= cur, WriterExits(c)
  PROVE  Inv'
<1>n. Conns \subseteq Nat /\ IdOf \in [Msgs -> Ids]
  BY Qos2Assumption DEF Conns
<1> USE <1>n DEF peerVars, channelVars
<1>i. cur \in Conns /\ \A d \in Conns : \A p \in Second(d) : p.id \in Ids
  BY DEF Second, Under, Packets, TypeOK
<1>f. UNCHANGED <<peer, cur, resend, inbox, outbox, at, handling, released, qos2_recv, closer, cut>>
  BY ZenonT(60) DEF WriterExits
<1>g. \A d \in Conns : /\ Under(d)' = Under(d) /\ First(d)' = First(d) /\ Second(d)' = Second(d)
                       /\ Halfway(d)' = Halfway(d) /\ Settled(d)' = Settled(d)
  BY <1>f, ZenonT(60) DEF Under, First, Second, Halfway, Settled, Stored, Taken
<1>1. WireInv'
  BY ZenonT(60), <1>f, WireStays DEF Inv
<1>2. PeerInv'
  BY ZenonT(60), <1>f, <1>i, <1>g, PeerStays DEF Inv
<1>3. FreshInv'
  <2>0. \A d \in Conns : d # c => open'[d] = open[d]
    BY ZenonT(60) DEF WriterExits, TypeOK
  <2>1. \A d \in Conns : d > cur => open'[d] = open[d]
    BY <1>i, <2>0
  <2> QED
    BY <1>f, <1>g, <2>1, ZenonT(60) DEF FreshInv, Inv
<1>4. StashInv'
  BY ZenonT(60), <1>f, <1>i, <1>g, StashStays DEF Inv
<1>5. OrderInv'
  BY <1>f, <1>i, <1>g, OrderStays, ZenonT(60) DEF Inv
<1>6. ReleaseInv'
  BY ZenonT(60), <1>f, ReleaseStays DEF Inv
<1>7. UncutInv'
  <2>1. \A d \in Conns : open'[d] => open[d]
    BY ZenonT(60) DEF WriterExits, TypeOK
  <2>2. \A d \in Conns : closer'[d] # "no" => ~ open'[d]
    BY <1>f, <2>1, ZenonT(60) DEF UncutInv, Inv
  <2> QED
    BY <1>f, <1>g, <1>i, <2>2, ZenonT(60) DEF UncutInv, Inv
<1> QED
  BY ZenonT(60), <1>1, <1>2, <1>3, <1>4, <1>5, <1>6, <1>7 DEF Inv

\* The initial states satisfy the invariant.
LEMMA InitInv == Init => TypeOK /\ Inv
<1> SUFFICES ASSUME Init PROVE TypeOK /\ Inv
  BY ZenonT(60)
<1>n. Conns \subseteq Nat /\ 1 \in Conns
  BY Qos2Assumption DEF Conns
<1>1. TypeOK
  BY <1>n DEF Init, TypeOK
<1>u. \A c \in Conns : Under(c) = {} /\ Halfway(c) = {} /\ Settled(c) = {} /\ First(c) = {} /\ Second(c) = {}
  BY ZenonT(60) DEF Init, Under, First, Second, Halfway, Settled, Stored, Taken
<1>2. WireInv /\ PeerInv
  BY <1>n, <1>u, ZenonT(60) DEF Init, WireInv, PeerInv, Active
<1>3. FreshInv /\ StashInv
  BY <1>n, <1>u, Qos2Assumption, ZenonT(60) DEF Init, FreshInv, StashInv
<1>4. OrderInv /\ ReleaseInv /\ UncutInv
  BY <1>n, <1>u DEF Init, OrderInv, ReleaseInv, UncutInv
<1> QED
  BY ZenonT(60), <1>1, <1>2, <1>3, <1>4 DEF Inv

\* take_qos2_publish hands on at most the message its PUBREL belongs to, and only
\* if it was never handed on before.
LEMMA TakeReleases ==
  ASSUME TypeOK, Inv, NEW c \in Conns, NEW p \in inbox[c], take_qos2_publish(c, p)
  PROVE  /\ p.of \in Msgs
         /\ \/ released' = released
            \/ released[p.of] = 0 /\ released' = [released EXCEPT ![p.of] = 1]
<1>t. p \in Packets /\ p.id \in Ids /\ p.of \in Msgs /\ p \in Under(c)
  BY DEF TypeOK, Packets, Under
<1>1. \A m \in Msgs : m \in qos2_recv[c][p.id] => m = p.of /\ IdOf[m] = p.id
  BY <1>t DEF StashInv, Inv
<1>2. p.of \in qos2_recv[c][p.id] => released[p.of] # 1
  BY ZenonT(60), <1>t, <1>1 DEF ReleaseInv, Inv, take_qos2_publish
<1>3. released \in [Msgs -> 0 .. 1]
  BY ZenonT(60) DEF TypeOK
<1>4. released' = [m \in Msgs |->
                    IF m \in qos2_recv[c][p.id] THEN released[m] + 1 ELSE released[m]]
  BY ZenonT(60) DEF take_qos2_publish
<1>5. CASE p.of \in qos2_recv[c][p.id]
  <2>0. released[p.of] \in 0 .. 1 /\ released[p.of] # 1
    BY <1>t, <1>2, <1>3, <1>5, ZenonT(60)
  <2>1. released[p.of] = 0
    <3>1. \A n \in 0 .. 1 : n # 1 => n = 0
      OBVIOUS
    <3> QED
      BY <2>0, <3>1, ZenonT(60)
  <2>2. \A m \in Msgs : released'[m] = IF m = p.of THEN 1 ELSE released[m]
    BY <1>t, <1>1, <1>4, <1>5, <2>1
  <2>3. released' = [released EXCEPT ![p.of] = 1]
    BY <1>3, <1>4, <2>2, ZenonT(60)
  <2> QED
    BY ZenonT(60), <1>t, <2>1, <2>3
<1>6. CASE p.of \notin qos2_recv[c][p.id]
  BY <1>t, <1>1, <1>3, <1>4, <1>6, ZenonT(60)
<1> QED
  BY <1>t, <1>5, <1>6, ZenonT(60)

\* Every step keeps the types.
LEMMA TypeNext == TypeOK /\ Inv /\ [Next]_vars => TypeOK'
<1> SUFFICES ASSUME TypeOK, Inv, [Next]_vars PROVE TypeOK'
  BY ZenonT(60)
<1>n. IdOf \in [Msgs -> Ids]
  BY ZenonT(60), Qos2Assumption
<1> USE <1>n DEF peerVars, channelVars
<1>0. CASE UNCHANGED vars
  BY <1>0, ZenonT(60) DEF TypeOK, vars
<1>1. ASSUME NEW m \in Msgs, PeerPublishes(m) PROVE TypeOK'
  BY <1>1 DEF TypeOK, PeerPublishes, Packet, Packets
<1>2. ASSUME NEW m \in Msgs, PeerGetsPubrec(m) PROVE TypeOK'
  BY <1>2 DEF TypeOK, PeerGetsPubrec, Packet, Packets
<1>3. ASSUME NEW m \in Msgs, PeerGetsPubcomp(m) PROVE TypeOK'
  BY ZenonT(60), <1>3 DEF TypeOK, PeerGetsPubcomp
<1>4. CASE PeerReconnects
  BY <1>4, Qos2Assumption DEF TypeOK, PeerReconnects, Active, Conns
<1>5. ASSUME NEW m \in Msgs, PeerResends(m) PROVE TypeOK'
  BY <1>5 DEF TypeOK, PeerResends, Packet, Packets
<1>6. ASSUME NEW c \in Conns, ReaderChecks(c) PROVE TypeOK'
  BY ZenonT(60), <1>6 DEF TypeOK, ReaderChecks
<1>7. ASSUME NEW c \in Conns, NEW p \in inbox[c], stash_qos2_publish(c, p) PROVE TypeOK'
  <2>1. p \in Packets /\ p.id \in Ids /\ p.of \in Msgs
    BY DEF TypeOK, Packets
  <2> QED
    BY <1>7, <2>1, ZenonT(60) DEF TypeOK, stash_qos2_publish
<1>8. ASSUME NEW c \in Conns, NEW p \in inbox[c], take_qos2_publish(c, p) PROVE TypeOK'
  <2>1. p \in Packets /\ released' \in [Msgs -> 0 .. 1]
    BY <1>8, TakeReleases DEF TypeOK
  <2> QED
    BY <1>8, <2>1, ZenonT(60) DEF TypeOK, take_qos2_publish
<1>9. ASSUME NEW c \in Conns, send_packet(c) PROVE TypeOK'
  <2>1. \A p \in Packets : [p EXCEPT !.kind = Reply(c)] \in Packets
    BY ZenonT(60) DEF Packets, Reply
  <2>2. outbox' \in [Conns -> SUBSET Packets]
    BY <1>9, <2>1 DEF TypeOK, send_packet
  <2> QED
    BY <1>9, <2>2, ZenonT(60) DEF TypeOK, send_packet
<1>10. ASSUME NEW c \in Conns, ReaderStops(c) PROVE TypeOK'
  BY ZenonT(60), <1>10 DEF TypeOK, ReaderStops
<1>11. ASSUME NEW c \in Conns, close(c) PROVE TypeOK'
  BY <1>11, ZenonT(60) DEF TypeOK, close, Active
<1>12. ASSUME NEW c \in Conns, abandon(c) PROVE TypeOK'
  BY <1>12, ZenonT(60) DEF TypeOK, abandon
<1>13. ASSUME NEW c \in Conns, WriterExits(c) PROVE TypeOK'
  BY <1>13, ZenonT(60) DEF TypeOK, WriterExits
<1> QED
  BY <1>0, <1>1, <1>2, <1>3, <1>4, <1>5, <1>6, <1>7, <1>8, <1>9, <1>10, <1>11, <1>12, <1>13, ZenonT(60)
     DEF Next, PeerStep, ReaderStep

\* Every step keeps the invariant.
LEMMA InvNext == TypeOK /\ Inv /\ [Next]_vars => Inv'
<1> SUFFICES ASSUME TypeOK, Inv, [Next]_vars PROVE Inv'
  BY ZenonT(60)
<1>0. CASE UNCHANGED vars
  <2>1. UNCHANGED <<peer, cur, resend, inbox, outbox, at, handling, qos2_recv, open, closer, released, cut>>
    BY ZenonT(60), <1>0 DEF vars
  <2>2. \A d \in Conns : /\ Under(d)' = Under(d) /\ First(d)' = First(d) /\ Second(d)' = Second(d)
                         /\ Halfway(d)' = Halfway(d) /\ Settled(d)' = Settled(d)
    BY <2>1, ZenonT(60) DEF Under, First, Second, Halfway, Settled, Stored, Taken
  <2>3. /\ cur \in Conns /\ IdOf \in [Msgs -> Ids]
        /\ \A d \in Conns : \A p \in Second(d) : p.id \in Ids
    BY Qos2Assumption DEF Second, Under, Packets, TypeOK
  <2>4. WireInv' /\ PeerInv'
    BY ZenonT(60), <2>1, <2>2, <2>3, WireStays, PeerStays DEF Inv
  <2>5. StashInv' /\ OrderInv' /\ ReleaseInv'
    BY <2>1, <2>2, <2>3, StashStays, OrderStays, ReleaseStays, ZenonT(60) DEF Inv
  <2>6. FreshInv'
    BY <2>1, <2>2, ZenonT(60) DEF FreshInv, Inv
  <2>7. UncutInv'
    BY <2>1, <2>2, <2>3, ZenonT(60) DEF UncutInv, Inv
  <2> QED
    BY ZenonT(60), <2>4, <2>5, <2>6, <2>7 DEF Inv
<1>1. ASSUME NEW m \in Msgs, PeerPublishes(m) \/ PeerStep(m) PROVE Inv'
  BY ZenonT(60), <1>1, PeerPublishesKeeps, PeerGetsPubrecKeeps, PeerGetsPubcompKeeps, PeerResendsKeeps
     DEF PeerStep
<1>2. CASE PeerReconnects
  BY ZenonT(60), <1>2, PeerReconnectsKeeps
<1>3. ASSUME NEW c \in Conns, c <= cur, ReaderStep(c) PROVE Inv'
  BY <1>3, ReaderChecksKeeps, StashKeeps, TakeKeeps, SendKeeps, ZenonT(60) DEF ReaderStep
<1>4. ASSUME NEW c \in Conns, c <= cur, ReaderStops(c) \/ close(c) \/ abandon(c) \/ WriterExits(c)
      PROVE  Inv'
  BY ZenonT(60), <1>4, ReaderStopsKeeps, closeKeeps, abandonKeeps, WriterExitsKeeps
<1> QED
  BY ZenonT(60), <1>0, <1>1, <1>2, <1>3, <1>4 DEF Next

\* Type correctness, and with it that no message is handed on twice, for any
\* number of messages, ids and connections (take_qos2_publish).
THEOREM TypeCorrect == Spec => []TypeOK
<1>1. Init => TypeOK /\ Inv
  BY ZenonT(60), InitInv
<1>2. TypeOK /\ Inv /\ [Next]_vars => (TypeOK /\ Inv)'
  BY ZenonT(60), TypeNext, InvNext
<1> QED
  BY <1>1, <1>2, PTL DEF Spec

\* Every step of the receiver is a step of the promise, or leaves it as it is.
LEMMA StepRefines == TypeOK /\ Inv /\ [Next]_vars => [Promise!Next]_(Promise!vars)
<1> SUFFICES ASSUME TypeOK, Inv, [Next]_vars PROVE [Promise!Next]_(Promise!vars)
  BY ZenonT(60)
<1> USE DEF peerVars, channelVars
<1>s. ASSUME UNCHANGED <<peer, released, cut>> PROVE UNCHANGED Promise!vars
  BY ZenonT(60), <1>s DEF Promise!vars
<1>0. CASE UNCHANGED vars
  BY ZenonT(60), <1>0, <1>s DEF vars
<1>1. ASSUME NEW m \in Msgs, PeerPublishes(m) PROVE Promise!Next
  <2>1. peer[m] = "new" /\ peer' = [peer EXCEPT ![m] = "publishing"] /\ UNCHANGED <<released, cut>>
    BY ZenonT(60), <1>1 DEF PeerPublishes
  <2>2. Promise!Offer(m)
    BY ZenonT(60), <2>1 DEF Promise!Offer, TypeOK
  <2> QED
    BY ZenonT(60), <2>2 DEF Promise!Next
<1>2. ASSUME NEW m \in Msgs, PeerGetsPubrec(m) PROVE UNCHANGED Promise!vars
  BY <1>2, ZenonT(60) DEF PeerGetsPubrec, Promise!vars, TypeOK
<1>3. ASSUME NEW m \in Msgs, PeerGetsPubcomp(m) PROVE Promise!Next
  <2>1. peer[m] = "releasing" /\ peer' = [peer EXCEPT ![m] = "complete"] /\ UNCHANGED <<released, cut>>
    BY <1>3, ZenonT(60) DEF PeerGetsPubcomp
  <2>2. PICK p \in outbox[cur] : p.kind = "Pubcomp" /\ p.id = IdOf[m]
    BY <1>3, ZenonT(60) DEF PeerGetsPubcomp
  <2>3. p \in Settled(cur) /\ p \in Second(cur) /\ p.of \in Msgs /\ p.id = IdOf[p.of]
    BY <2>2 DEF Settled, Second, Under, WireInv, Inv, TypeOK, Packets
  <2>4. p.of \in Active /\ m \in Active
    BY <2>1, <2>3, ZenonT(60) DEF PeerInv, Inv, Active
  <2>5. p.of = m
    BY <2>2, <2>3, <2>4, ZenonT(60) DEF PeerInv, Inv
  <2>6. released[m] = 1 \/ m \in cut
    BY <2>3, <2>5, ZenonT(60) DEF UncutInv, Inv
  <2>7. Promise!Finish(m)
    BY <2>1, <2>6, ZenonT(60) DEF Promise!Finish, TypeOK
  <2> QED
    BY <2>7, ZenonT(60) DEF Promise!Next
<1>c. ASSUME cut' = cut \cup Active, UNCHANGED <<peer, released>> PROVE Promise!Next
  BY ZenonT(60), <1>c DEF Promise!Next, Promise!Cut, Active, TypeOK
<1>4. CASE PeerReconnects
  BY ZenonT(60), <1>4, <1>c DEF PeerReconnects
<1>5. ASSUME NEW m \in Msgs, PeerResends(m) PROVE UNCHANGED Promise!vars
  BY ZenonT(60), <1>5, <1>s DEF PeerResends
<1>6. ASSUME NEW c \in Conns, ReaderChecks(c) \/ send_packet(c) \/ ReaderStops(c)
      PROVE  UNCHANGED Promise!vars
  BY ZenonT(60), <1>6, <1>s DEF ReaderChecks, send_packet, ReaderStops
<1>7. ASSUME NEW c \in Conns, abandon(c) \/ WriterExits(c) PROVE UNCHANGED Promise!vars
  BY ZenonT(60), <1>7, <1>s DEF abandon, WriterExits
<1>8. ASSUME NEW c \in Conns, NEW p \in inbox[c], stash_qos2_publish(c, p)
      PROVE  UNCHANGED Promise!vars
  BY ZenonT(60), <1>8, <1>s DEF stash_qos2_publish
<1>9. ASSUME NEW c \in Conns, NEW p \in inbox[c], take_qos2_publish(c, p)
      PROVE  Promise!Next \/ UNCHANGED Promise!vars
  <2>1. UNCHANGED <<peer, cut>>
    BY ZenonT(60), <1>9 DEF take_qos2_publish
  <2>2. CASE released' = released
    BY ZenonT(60), <1>s, <2>1, <2>2
  <2>3. CASE released[p.of] = 0 /\ released' = [released EXCEPT ![p.of] = 1]
    <3>1. p.of \in Msgs /\ p \in Under(c)
      BY DEF TypeOK, Packets, Under
    <3>2. peer[p.of] # "new"
      BY <3>1, ZenonT(60) DEF PeerInv, Inv
    <3>3. peer[p.of] = "complete" => p.of \in cut
      BY <2>3, <3>1 DEF UncutInv, Inv
    <3>4. Promise!Deliver(p.of)
      BY <2>1, <2>3, <3>1, <3>2, <3>3, ZenonT(60) DEF Promise!Deliver
    <3> QED
      BY ZenonT(60), <3>1, <3>4 DEF Promise!Next
  <2> QED
    BY <1>9, <2>2, <2>3, TakeReleases, ZenonT(60)
<1>10. ASSUME NEW c \in Conns, close(c) PROVE Promise!Next \/ UNCHANGED Promise!vars
  BY ZenonT(60), <1>10, <1>c, <1>s DEF close
<1> QED
  BY <1>0, <1>1, <1>2, <1>3, <1>4, <1>5, <1>6, <1>7, <1>8, <1>9, <1>10, ZenonT(60)
     DEF Next, PeerStep, ReaderStep

\* The receiver implements the exactly-once promise, for any number of messages,
\* ids and connections (stash_qos2_publish, take_qos2_publish, abandon).
THEOREM ReceiverImplementsExactlyOnce == Spec => ExactlyOnceSpec
<1>1. Init => Promise!Init
  BY DEF Init, Promise!Init
<1>2. Init => TypeOK /\ Inv
  BY ZenonT(60), InitInv
<1>3. TypeOK /\ Inv /\ [Next]_vars => (TypeOK /\ Inv)'
  BY ZenonT(60), TypeNext, InvNext
<1>4. TypeOK /\ Inv /\ [Next]_vars => [Promise!Next]_(Promise!vars)
  BY ZenonT(60), StepRefines
<1> QED
  BY <1>1, <1>2, <1>3, <1>4, PTL DEF Spec, ExactlyOnceSpec, Promise!Spec

================================================================================
