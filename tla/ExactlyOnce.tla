------------------------------ MODULE ExactlyOnce ------------------------------
(***************************************************************************)
(* What the receiving side of a QoS 2 flow promises its peer: a message    *)
(* goes to the application at most once, ever; and a handshake that        *)
(* completes without its connection having been cut has delivered.  A flow *)
(* whose connection was cut, by either side, may complete undelivered: the *)
(* held message dies with the session of the connection.                   *)
(***************************************************************************)
EXTENDS Naturals

CONSTANT Msgs

VARIABLES
  offered,    \* the messages the peer has begun to send
  delivered,  \* how often each went to the application
  finished,   \* the messages whose handshake the peer has seen complete
  excused     \* the messages whose connection was cut in mid-flow

vars == <<offered, delivered, finished, excused>>

Init ==
  /\ offered = {}
  /\ delivered = [m \in Msgs |-> 0]
  /\ finished = {}
  /\ excused = {}

Offer(m) ==
  /\ m \notin offered
  /\ offered' = offered \cup {m}
  /\ UNCHANGED <<delivered, finished, excused>>

Deliver(m) ==
  /\ m \in offered
  /\ delivered[m] = 0
  /\ m \in finished => m \in excused
  /\ delivered' = [delivered EXCEPT ![m] = 1]
  /\ UNCHANGED <<offered, finished, excused>>

Finish(m) ==
  /\ m \in offered \ finished
  /\ delivered[m] = 1 \/ m \in excused
  /\ finished' = finished \cup {m}
  /\ UNCHANGED <<offered, delivered, excused>>

\* A cut hits every flow that is under way.
Cut ==
  /\ excused' = excused \cup (offered \ finished)
  /\ UNCHANGED <<offered, delivered, finished>>

Next ==
  \/ \E m \in Msgs : Offer(m) \/ Deliver(m) \/ Finish(m)
  \/ Cut

Spec == Init /\ [][Next]_vars

================================================================================
