------------------------------- MODULE KeepAlive -------------------------------
(***************************************************************************)
(* The keep-alive contract between a client and the broker: the client     *)
(* pings once per keep_alive, the broker admits only keep-alives its policy*)
(* allows and drops a client it has not heard from for 1.5 times as long.  *)
(*                                                                         *)
(* Source: src/protocol/server.rs (server_read_deadline,                   *)
(* read_packet_before, the admission in handle_server),                    *)
(* src/protocol/client.rs (client_ping_interval, tick_or_never, the        *)
(* handshake in handle_client), src/safety.rs.                             *)
(*                                                                         *)
(* Time is counted in ticks, Half of them to half a second, and is kept as *)
(* ages, so no clock grows without bound.  A packet reaches the other side *)
(* at most MaxDelay ticks after the moment it was due, in order; the delay *)
(* stands for everything between a timer and the peer's read loop: a late  *)
(* poll, the writer's queue, the network.  A timer that is due fires before*)
(* time goes on.                                                           *)
(***************************************************************************)
EXTENDS Naturals, Sequences

CONSTANTS
  KeepAlives,       \* the keep-alives clients ask for, in seconds
  max_keep_alive,   \* MqttSafety.max_keep_alive
  Half,             \* ticks in half a second
  MaxDelay,         \* ticks a packet takes at most
  connect_timeout,  \* ticks the client waits for CONNACK
  CONNECT_RECEIVE_TIMEOUT,  \* ticks the server waits for CONNECT
  MaxInFlight       \* bound: packets on their way to the server

Second == 2 * Half

\* A packet's delay is below a quarter of every keep-alive that is in use.
ASSUME KeepAliveAssumption ==
  /\ KeepAlives \subseteq Nat
  /\ max_keep_alive \in Nat
  /\ Half \in Nat \ {0}
  /\ MaxDelay \in Nat
  /\ \A k \in KeepAlives : k # 0 => 4 * MaxDelay < k * Second
  /\ connect_timeout \in Nat /\ CONNECT_RECEIVE_TIMEOUT \in Nat
  /\ MaxInFlight \in Nat \ {0}

VARIABLES
  keep_alive,     \* what this client declares in CONNECT
  allow_disabled, \* MqttSafety.allow_disabled_keep_alive
  client,         \* connecting, up, failed, left, vanished
  waited,         \* ticks since it sent CONNECT
  since_tick,     \* ticks since its ping timer was last due
  up,             \* packets on their way to the server, oldest first
  down,           \* the CONNACK on its way to the client, if any
  server,         \* connect, serving, refused, expired, ended
  idle,           \* ticks since the server began to wait for a packet
  quiet           \* ticks since the client vanished

vars == <<keep_alive, allow_disabled, client, waited, since_tick, up, down, server,
          idle, quiet>>

config == <<keep_alive, allow_disabled>>

Packet(k) == [kind |-> k, age |-> 0]

--------------------------------------------------------------------------------
(* The two timers and the policy. *)

\* Faulty: whole seconds, rounded down.
DeadlineInSeconds(k) == ((k * 3) \div 2) * Second

\* 1500 ms per second of keep-alive; 0 stands for None.
server_read_deadline(k) == k * 3 * Half

client_ping_interval(k) == k * Second

\* Faulty: no keep-alive at all passes for a short one.
RefuseLongOnly(k) == k > max_keep_alive

keep_alive_refused(k) ==
  IF k = 0 THEN ~ allow_disabled ELSE k > max_keep_alive

--------------------------------------------------------------------------------
(* The client. *)

\* handle() closes the channel behind a client that gives up.
Fail ==
  /\ client' = "failed"
  /\ up' = Append(up, Packet("Closed"))

\* CONNACK arrives: the session is refused, or the ping timer starts.
ClientGetsConnack ==
  /\ client = "connecting"
  /\ down # <<>>
  /\ IF Head(down).kind = "Accepted"
       THEN /\ client' = "up"
            /\ UNCHANGED up
       ELSE Fail
  /\ since_tick' = 0
  /\ down' = Tail(down)
  /\ UNCHANGED <<config, waited, server, idle, quiet>>

ConnackTimeout ==
  /\ client = "connecting"
  /\ waited = connect_timeout
  /\ Fail
  /\ UNCHANGED <<config, waited, since_tick, down, server, idle, quiet>>

\* The server has closed the wire, no CONNACK is on its way, and read_packet fails.
WireClosed ==
  /\ client = "connecting"
  /\ down = <<>>
  /\ server \in {"refused", "expired", "ended"}
  /\ Fail
  /\ UNCHANGED <<config, waited, since_tick, down, server, idle, quiet>>

\* Faulty: the client queues the server's half of the exchange.
TickSendsPingresp ==
  /\ client = "up"
  /\ keep_alive # 0
  /\ since_tick = client_ping_interval(keep_alive)
  /\ since_tick' = 0
  /\ up' = Append(up, Packet("Pingresp"))
  /\ UNCHANGED <<config, client, waited, down, server, idle, quiet>>

\* The interval's tick is due: PINGREQ goes out, and the next tick is due one
\* interval after this one, however late this one was served.
tick_or_never ==
  /\ client = "up"
  /\ keep_alive # 0
  /\ since_tick = client_ping_interval(keep_alive)
  /\ since_tick' = 0
  /\ up' = Append(up, Packet("Pingreq"))
  /\ UNCHANGED <<config, client, waited, down, server, idle, quiet>>

\* Whatever else the client sends; it does not put the ping timer off.
ClientSends ==
  /\ client = "up"
  /\ Len(up) < MaxInFlight
  /\ up' = Append(up, Packet("Other"))
  /\ UNCHANGED <<config, client, waited, since_tick, down, server, idle, quiet>>

\* The loop ends and sends DISCONNECT.
ClientLeaves ==
  /\ client = "up"
  /\ client' = "left"
  /\ up' = Append(up, Packet("Disconnect"))
  /\ UNCHANGED <<config, waited, since_tick, down, server, idle, quiet>>

\* The host or the network dies without a word, at any time, with what has not
\* arrived yet.
ClientVanishes ==
  /\ client \in {"connecting", "up"}
  /\ client' = "vanished"
  /\ \E n \in 0 .. Len(up) : up' = SubSeq(up, 1, n)
  /\ down' = <<>>
  /\ UNCHANGED <<config, waited, since_tick, server, idle, quiet>>

--------------------------------------------------------------------------------
(* The server. *)

\* CONNECT arrives in time: the policy decides, CONNACK says how, and the read loop
\* begins.  CONNECT is the first packet a client sends.  handle() closes the channel
\* right behind a refusal, and the writer may leave before it has written it.
ServerGetsConnect ==
  /\ server = "connect"
  /\ up # <<>>
  /\ up' = Tail(up)
  /\ \/ down' = IF client = "vanished" THEN down
                ELSE Append(down, Packet(IF keep_alive_refused(keep_alive)
                                           THEN "ServerUnavailable" ELSE "Accepted"))
     \/ keep_alive_refused(keep_alive) /\ UNCHANGED down
  /\ server' = IF keep_alive_refused(keep_alive) THEN "refused" ELSE "serving"
  /\ idle' = 0
  /\ UNCHANGED <<config, client, waited, since_tick, quiet>>

\* Faulty: the timer starts over.
ConnectWaitsOn ==
  /\ server = "connect"
  /\ idle = CONNECT_RECEIVE_TIMEOUT
  /\ idle' = 0
  /\ UNCHANGED <<config, client, waited, since_tick, up, down, server, quiet>>

ConnectTimeout ==
  /\ server = "connect"
  /\ idle = CONNECT_RECEIVE_TIMEOUT
  /\ server' = "ended"
  /\ UNCHANGED <<config, client, waited, since_tick, up, down, idle, quiet>>

\* read_packet_before returns a packet, or fails on a closed wire; the next read gets a
\* deadline of its own.
ServerReads ==
  /\ server = "serving"
  /\ up # <<>>
  /\ up' = Tail(up)
  /\ server' = IF Head(up).kind \in {"Disconnect", "Closed"} THEN "ended" ELSE "serving"
  /\ idle' = 0
  /\ UNCHANGED <<config, client, waited, since_tick, down, quiet>>

\* Faulty: an elapsed deadline is not the end of the loop.
DeadlineIsRearmed ==
  /\ server = "serving"
  /\ keep_alive # 0
  /\ idle = server_read_deadline(keep_alive)
  /\ idle' = 0
  /\ UNCHANGED <<config, client, waited, since_tick, up, down, server, quiet>>

\* read_packet_before gives up.
DeadlineElapsed ==
  /\ server = "serving"
  /\ keep_alive # 0
  /\ idle = server_read_deadline(keep_alive)
  /\ server' = "expired"
  /\ UNCHANGED <<config, client, waited, since_tick, up, down, idle, quiet>>

--------------------------------------------------------------------------------
\* Nobody reads what reaches a side that has ended: its age stops counting.
Older(s) == [i \in DOMAIN s |-> [s[i] EXCEPT !.age = IF @ < MaxDelay THEN @ + 1 ELSE @]]

InTime(s) == \A i \in DOMAIN s : s[i].age < MaxDelay

Reading == server \in {"connect", "serving"}

\* What the server will have waited for a vanished client at most.
LastWait == MaxDelay + server_read_deadline(keep_alive)

Tick ==
  /\ Reading \/ client = "connecting"
  /\ Reading => InTime(up)
  /\ client = "connecting" => InTime(down)
  /\ client = "connecting" => waited < connect_timeout
  /\ client = "up" /\ keep_alive # 0 => since_tick < client_ping_interval(keep_alive)
  /\ server = "connect" => idle < CONNECT_RECEIVE_TIMEOUT
  /\ server = "serving" /\ keep_alive # 0 => idle < server_read_deadline(keep_alive)
  /\ up' = Older(up)
  /\ down' = Older(down)
  /\ waited' = IF client = "connecting" THEN waited + 1 ELSE waited
  /\ since_tick' = IF client = "up" /\ keep_alive # 0 THEN since_tick + 1 ELSE since_tick
  /\ idle' = IF server = "connect" \/ (server = "serving" /\ keep_alive # 0)
               THEN idle + 1 ELSE idle
  /\ quiet' = IF client = "vanished" /\ quiet <= LastWait THEN quiet + 1 ELSE quiet
  /\ UNCHANGED <<config, client, server>>

Init ==
  /\ keep_alive \in KeepAlives
  /\ allow_disabled \in BOOLEAN
  /\ client = "connecting"
  /\ waited = 0
  /\ since_tick = 0
  /\ up = <<Packet("Connect")>>
  /\ down = <<>>
  /\ server = "connect"
  /\ idle = 0
  /\ quiet = 0

\* What happens when it is due; the rest happens or not.
Due ==
  \/ ClientGetsConnack
  \/ ConnackTimeout
  \/ WireClosed
  \/ tick_or_never
  \/ ServerGetsConnect
  \/ ConnectTimeout
  \/ ServerReads
  \/ DeadlineElapsed

Next ==
  \/ Due
  \/ ClientSends
  \/ ClientLeaves
  \/ ClientVanishes
  \/ Tick

Spec == Init /\ [][Next]_vars

\* Time goes on and timers fire.
FairSpec == Spec /\ WF_vars(Due) /\ WF_vars(Tick)

--------------------------------------------------------------------------------
(* Properties. *)

UpPackets == [kind : {"Connect", "Pingreq", "Other", "Disconnect", "Closed"},
              age : 0 .. MaxDelay]
DownPackets == [kind : {"Accepted", "ServerUnavailable"}, age : 0 .. MaxDelay]

\* Every variable keeps its type.
TypeOK ==
  /\ keep_alive \in KeepAlives
  /\ allow_disabled \in BOOLEAN
  /\ client \in {"connecting", "up", "failed", "left", "vanished"}
  /\ waited \in 0 .. connect_timeout
  /\ since_tick \in 0 .. client_ping_interval(keep_alive)
  /\ up \in Seq(UpPackets)
  /\ down \in Seq(DownPackets)
  /\ server \in {"connect", "serving", "refused", "expired", "ended"}
  /\ idle \in Nat
  /\ quiet \in Nat

\* A client that pings on schedule survives ordinary jitter (server_read_deadline):
\* the deadline elapses only on a client that has vanished.
PunctualStays == server = "expired" => client = "vanished"

\* A client that vanished is let go of within the deadline it declared, counted from
\* the last packet of its that could still arrive (read_packet_before).
VanishedIsDropped ==
  client = "vanished" /\ server = "serving" /\ keep_alive # 0 => quiet <= LastWait

\* Whatever a peer declares, its silence holds a session for at most 1.5 times the
\* operator's maximum, unless the operator allows to disable keep-alive.
IdleWithinPolicy ==
  server = "serving" =>
    IF keep_alive = 0 THEN allow_disabled ELSE idle <= 3 * Half * max_keep_alive

\* Neither side waits for ever on the other's half of the handshake (connect_timeout,
\* CONNECT_RECEIVE_TIMEOUT).
HandshakeEnds == (client = "connecting" \/ server = "connect") ~>
                 (client # "connecting" /\ server # "connect")

================================================================================
