---------------------------- MODULE KeepAliveProofs ----------------------------
(***************************************************************************)
(* Proofs about KeepAlive, for any keep-alives, policy, tick and delay that *)
(* satisfy KeepAliveAssumption: type correctness, and the invariant behind *)
(* the three promises of the read deadline.                                *)
(*                                                                         *)
(* What the server has waited is bounded by what the client has let pass:  *)
(* since the last packet arrived, at most one ping interval plus the time  *)
(* the oldest packet on its way has taken, plus the delay of the packet    *)
(* that arrived last.                                                      *)
(***************************************************************************)
EXTENDS KeepAlive, SequenceTheorems, TLAPS

\* The obligations are many and large: the provers get more than their usual time.
USE SMTT(60)

\* Until CONNECT is read nothing came back, and nothing but the end of the wire can be
\* behind it.
HandshakeInv ==
  server = "connect" =>
    /\ down = <<>>
    /\ client \in {"connecting", "failed", "vanished"}
    /\ client = "connecting" => Len(up) = 1
    /\ client = "failed" => Len(up) = 2 /\ up[2].kind = "Closed"

\* A client is served under a keep-alive the policy admits.
PolicyInv == server = "serving" => ~ keep_alive_refused(keep_alive)

\* What a client that has gone in order sent last is still on its way.
EndInv ==
  server = "serving" /\ client \in {"left", "failed"} =>
    up # <<>> /\ up[Len(up)].kind \in {"Disconnect", "Closed"}

\* A client has been silent for no longer than its last packets have been on their way.
QuietInv ==
  /\ client # "vanished" => quiet = 0
  /\ client = "vanished" /\ Reading => \A i \in 1 .. Len(up) : quiet <= up[i].age

\* What the server has waited, by where the client is.
IdleInv ==
  server = "serving" /\ keep_alive # 0 =>
    /\ idle <= server_read_deadline(keep_alive)
    /\ client = "connecting" => up = <<>> /\ down # <<>> /\ idle <= down[1].age
    /\ client = "up" /\ up = <<>> => idle <= since_tick + MaxDelay
    /\ client \in {"up", "left", "failed"} /\ up # <<>> =>
         idle <= client_ping_interval(keep_alive) + MaxDelay + up[1].age
    /\ client = "vanished" /\ up = <<>> => quiet <= MaxDelay + idle

Inv == HandshakeInv /\ PolicyInv /\ EndInv /\ QuietInv /\ IdleInv /\ PunctualStays

--------------------------------------------------------------------------------
(* The timers and the queues. *)

\* The two timers of a keep-alive are whole ticks; when there are any, the deadline
\* outlasts an interval and two delays.
LEMMA TimerFacts ==
  ASSUME NEW k \in KeepAlives
  PROVE  /\ client_ping_interval(k) \in Nat
         /\ server_read_deadline(k) \in Nat
         /\ k # 0 => client_ping_interval(k) + 2 * MaxDelay < server_read_deadline(k)
<1>1. k \in Nat /\ Half \in Nat /\ MaxDelay \in Nat /\ (k # 0 => 4 * MaxDelay < k * (2 * Half))
  BY ZenonT(60), KeepAliveAssumption DEF Second
<1>2. k * Half \in Nat
  BY <1>1
<1>3. k * (2 * Half) = 2 * (k * Half) /\ k * 3 * Half = 3 * (k * Half)
  BY <1>1
<1> QED
  BY <1>1, <1>2, <1>3 DEF client_ping_interval, server_read_deadline, Second

\* The deadline of a keep-alive the policy admits is within that of the longest one.
LEMMA DeadlineWithinPolicy ==
  ASSUME NEW k \in KeepAlives, k <= max_keep_alive
  PROVE  server_read_deadline(k) <= 3 * Half * max_keep_alive
<1>1. k \in Nat /\ Half \in Nat /\ max_keep_alive \in Nat
  BY ZenonT(60), KeepAliveAssumption
<1>2. PICK d \in Nat : max_keep_alive = k + d
  BY <1>1
<1>3. k * Half \in Nat /\ d * Half \in Nat
  BY <1>1
<1>4. 3 * Half * (k + d) = 3 * (k * Half) + 3 * (d * Half) /\ k * 3 * Half = 3 * (k * Half)
  BY <1>1
<1> QED
  BY <1>2, <1>3, <1>4 DEF server_read_deadline

\* A tick keeps the packets on their way and, while they are in time, makes each one
\* tick older.
LEMMA OlderFacts ==
  ASSUME NEW K, NEW s \in Seq([kind : K, age : 0 .. MaxDelay])
  PROVE  /\ Older(s) \in Seq([kind : K, age : 0 .. MaxDelay])
         /\ Len(Older(s)) = Len(s)
         /\ (Older(s) = <<>>) <=> (s = <<>>)
         /\ \A i \in 1 .. Len(s) :
              /\ Older(s)[i].kind = s[i].kind
              /\ InTime(s) => Older(s)[i].age = s[i].age + 1
<1>1. MaxDelay \in Nat
  BY ZenonT(60), KeepAliveAssumption
<1>2. Len(s) \in Nat /\ DOMAIN s = 1 .. Len(s)
      /\ \A i \in 1 .. Len(s) : s[i] \in [kind : K, age : 0 .. MaxDelay]
  BY ZenonT(60), LenProperties
<1>3. Older(s) = [i \in 1 .. Len(s) |-> [s[i] EXCEPT !.age = IF @ < MaxDelay THEN @ + 1 ELSE @]]
  BY ZenonT(60), <1>2 DEF Older
<1>4. \A i \in 1 .. Len(s) : Older(s)[i] = [s[i] EXCEPT !.age = IF @ < MaxDelay THEN @ + 1 ELSE @]
  BY ZenonT(60), <1>3
<1>5. ASSUME NEW i \in 1 .. Len(s)
      PROVE  /\ Older(s)[i] \in [kind : K, age : 0 .. MaxDelay]
             /\ Older(s)[i].kind = s[i].kind
             /\ InTime(s) => Older(s)[i].age = s[i].age + 1
  <2> DEFINE a == IF s[i].age < MaxDelay THEN s[i].age + 1 ELSE s[i].age
  <2>1. s[i] \in [kind : K, age : 0 .. MaxDelay] /\ s[i].age \in 0 .. MaxDelay
    BY ZenonT(60), <1>2
  <2>2. Older(s)[i] = [s[i] EXCEPT !.age = a]
    BY ZenonT(60), <1>4
  <2>3. a \in 0 .. MaxDelay
    BY <1>1, <2>1
  <2>4. InTime(s) => a = s[i].age + 1
    BY ZenonT(60), <1>2 DEF InTime
  <2> HIDE DEF a
  <2> QED
    BY ZenonT(60), <2>1, <2>2, <2>3, <2>4
<1>6. Older(s) \in [1 .. Len(s) -> [kind : K, age : 0 .. MaxDelay]]
  BY ZenonT(60), <1>3, <1>5
<1>7. Older(s) \in Seq([kind : K, age : 0 .. MaxDelay]) /\ Len(Older(s)) = Len(s)
  BY <1>2, <1>6
<1> QED
  BY <1>2, <1>5, <1>7

\* The queues as sequences of packets.
LEMMA Queues ==
  ASSUME TypeOK
  PROVE  /\ up \in Seq(UpPackets) /\ down \in Seq(DownPackets)
         /\ Len(up) \in Nat /\ DOMAIN up = 1 .. Len(up) /\ DOMAIN down = 1 .. Len(down)
         /\ (up = <<>>) <=> (Len(up) = 0)
         /\ \A i \in 1 .. Len(up) : up[i] \in UpPackets /\ up[i].age \in 0 .. MaxDelay
         /\ down # <<>> => down[1].age \in 0 .. MaxDelay
<1>1. up \in Seq(UpPackets) /\ down \in Seq(DownPackets)
  BY ZenonT(60) DEF TypeOK
<1>2. /\ Len(up) \in Nat /\ DOMAIN up = 1 .. Len(up)
      /\ \A i \in 1 .. Len(up) : up[i] \in UpPackets
  BY ZenonT(60), <1>1, LenProperties
<1>3. /\ Len(down) \in Nat /\ DOMAIN down = 1 .. Len(down)
      /\ \A i \in 1 .. Len(down) : down[i] \in DownPackets
  BY ZenonT(60), <1>1, LenProperties
<1>4. (up = <<>> <=> Len(up) = 0) /\ (down = <<>> <=> Len(down) = 0)
  BY <1>1
<1> QED
  BY <1>1, <1>2, <1>3, <1>4 DEF UpPackets, DownPackets

\* What the client queues goes behind what is on its way.
LEMMA Queueing ==
  ASSUME TypeOK, NEW k \in {"Pingreq", "Other", "Disconnect", "Closed"}
  PROVE  /\ Append(up, Packet(k)) \in Seq(UpPackets)
         /\ Append(up, Packet(k)) # <<>>
         /\ Len(Append(up, Packet(k))) = Len(up) + 1
         /\ Append(up, Packet(k))[Len(up) + 1].kind = k
         /\ up = <<>> => Append(up, Packet(k))[1].age = 0
         /\ up # <<>> => Append(up, Packet(k))[1] = up[1]
<1>1. Packet(k) \in UpPackets /\ Packet(k).kind = k /\ Packet(k).age = 0
  BY KeepAliveAssumption DEF Packet, UpPackets
<1>2. /\ up \in Seq(UpPackets) /\ Len(up) \in Nat /\ (up = <<>> <=> Len(up) = 0)
  BY ZenonT(60), Queues
<1>3. /\ Append(up, Packet(k)) \in Seq(UpPackets)
      /\ Append(up, Packet(k)) # <<>>
      /\ Len(Append(up, Packet(k))) = Len(up) + 1
      /\ \A i \in 1 .. Len(up) : Append(up, Packet(k))[i] = up[i]
      /\ Append(up, Packet(k))[Len(up) + 1] = Packet(k)
  BY <1>1, <1>2, AppendProperties
<1> QED
  BY <1>1, <1>2, <1>3

\* The server reads the oldest packet.
LEMMA Reads ==
  ASSUME TypeOK, up # <<>>
  PROVE  /\ Tail(up) \in Seq(UpPackets)
         /\ Len(up) >= 1 /\ Len(Tail(up)) = Len(up) - 1
         /\ Head(up) = up[1]
         /\ \A i \in 1 .. Len(Tail(up)) : Tail(up)[i] = up[i + 1]
         /\ (Tail(up) = <<>>) <=> (Len(up) = 1)
<1>1. up \in Seq(UpPackets) /\ Len(up) \in Nat /\ (up = <<>> <=> Len(up) = 0)
  BY ZenonT(60), Queues
<1>2. /\ Tail(up) \in Seq(UpPackets) /\ Len(Tail(up)) = Len(up) - 1
      /\ \A i \in 1 .. Len(Tail(up)) : Tail(up)[i] = up[i + 1]
  BY ZenonT(60), <1>1, HeadTailProperties
<1>3. Head(up) = up[1]
  BY <1>1
<1>4. (Tail(up) = <<>>) <=> (Len(Tail(up)) = 0)
  BY ZenonT(60), <1>2, EmptySeq
<1> QED
  BY <1>1, <1>2, <1>3, <1>4

\* The same for CONNACK.
LEMMA Connack ==
  ASSUME TypeOK
  PROVE  /\ \A k \in {"Accepted", "ServerUnavailable"} :
              /\ Append(down, Packet(k)) \in Seq(DownPackets)
              /\ Append(down, Packet(k)) # <<>>
              /\ down = <<>> => Append(down, Packet(k))[1].age = 0
         /\ down # <<>> => Tail(down) \in Seq(DownPackets)
<1>1. down \in Seq(DownPackets)
  BY ZenonT(60), Queues
<1>2. ASSUME NEW k \in {"Accepted", "ServerUnavailable"}
      PROVE  /\ Append(down, Packet(k)) \in Seq(DownPackets)
             /\ Append(down, Packet(k)) # <<>>
             /\ down = <<>> => Append(down, Packet(k))[1].age = 0
  <2>1. Packet(k) \in DownPackets /\ Packet(k).age = 0
    BY KeepAliveAssumption DEF Packet, DownPackets
  <2> QED
    BY <1>1, <2>1, AppendProperties
<1>3. down # <<>> => Tail(down) \in Seq(DownPackets)
  BY ZenonT(60), <1>1, HeadTailProperties
<1> QED
  BY ZenonT(60), <1>2, <1>3

--------------------------------------------------------------------------------
(* Type correctness. *)

\* The initial states satisfy the types and the invariant.
LEMMA InitInv == Init => TypeOK /\ Inv
<1> SUFFICES ASSUME Init PROVE TypeOK /\ Inv
  BY ZenonT(60)
<1>1. keep_alive \in KeepAlives /\ client_ping_interval(keep_alive) \in Nat
  BY ZenonT(60), TimerFacts DEF Init
<1>2. Packet("Connect") \in UpPackets
  BY KeepAliveAssumption DEF Packet, UpPackets
<1>3. up \in Seq(UpPackets) /\ Len(up) = 1 /\ down \in Seq(DownPackets)
  BY <1>2 DEF Init
<1>4. TypeOK
  BY <1>1, <1>3, KeepAliveAssumption DEF Init, TypeOK
<1> QED
  BY ZenonT(60), <1>3, <1>4 DEF Init, Inv, HandshakeInv, PolicyInv, EndInv, QuietInv, IdleInv,
                    PunctualStays

\* Every step keeps the types.
LEMMA TypeNext == TypeOK /\ [Next]_vars => TypeOK'
<1> SUFFICES ASSUME TypeOK, [Next]_vars PROVE TypeOK'
  BY ZenonT(60)
<1>t. /\ client_ping_interval(keep_alive) \in Nat /\ MaxDelay \in Nat
      /\ connect_timeout \in Nat
  BY ZenonT(60), TimerFacts, KeepAliveAssumption DEF TypeOK
<1>a. \A k \in {"Pingreq", "Other", "Disconnect", "Closed"} :
        Append(up, Packet(k)) \in Seq(UpPackets)
  BY ZenonT(60), Queueing
<1>b. up # <<>> => Tail(up) \in Seq(UpPackets)
  BY ZenonT(60), Reads
<1>0. CASE UNCHANGED vars
  BY ZenonT(60), <1>0 DEF TypeOK, vars, client_ping_interval
<1>1. CASE ClientGetsConnack
  <2>1. down' \in Seq(DownPackets) /\ since_tick' = 0 /\ keep_alive' = keep_alive
    BY ZenonT(60), <1>1, Connack DEF ClientGetsConnack, config
  <2>2. up' \in Seq(UpPackets) /\ client' \in {"up", "failed"}
    BY ZenonT(60), <1>1, <1>a DEF ClientGetsConnack, Fail, TypeOK
  <2> QED
    BY <1>1, <1>t, <2>1, <2>2 DEF ClientGetsConnack, TypeOK, config, client_ping_interval
<1>2. CASE ConnackTimeout \/ WireClosed
  <2>1. Fail /\ UNCHANGED <<config, waited, since_tick, down, server, idle, quiet>>
    BY ZenonT(60), <1>2 DEF ConnackTimeout, WireClosed
  <2> QED
    BY ZenonT(60), <2>1, <1>a DEF Fail, TypeOK, config, client_ping_interval
<1>3. CASE tick_or_never
  BY <1>3, <1>a, <1>t DEF tick_or_never, TypeOK, config, client_ping_interval
<1>4. CASE ServerGetsConnect
  BY ZenonT(60), <1>4, <1>b, Connack DEF ServerGetsConnect, TypeOK, config, client_ping_interval
<1>5. CASE ConnectTimeout
  BY ZenonT(60), <1>5 DEF ConnectTimeout, TypeOK, config, client_ping_interval
<1>6. CASE ServerReads
  BY ZenonT(60), <1>6, <1>b DEF ServerReads, TypeOK, config, client_ping_interval
<1>7. CASE DeadlineElapsed
  BY ZenonT(60), <1>7 DEF DeadlineElapsed, TypeOK, config, client_ping_interval
<1>8. CASE ClientSends
  BY ZenonT(60), <1>8, <1>a DEF ClientSends, TypeOK, config, client_ping_interval
<1>9. CASE ClientLeaves
  BY ZenonT(60), <1>9, <1>a DEF ClientLeaves, TypeOK, config, client_ping_interval
<1>10. CASE ClientVanishes
  <2>1. \A n \in 0 .. Len(up) : SubSeq(up, 1, n) \in Seq(UpPackets)
    BY Queues, SubSeqProperties
  <2> QED
    BY <1>10, <2>1 DEF ClientVanishes, TypeOK, config, client_ping_interval
<1>11. CASE Tick
  <2>1. Older(up) \in Seq(UpPackets) /\ Older(down) \in Seq(DownPackets)
    BY ZenonT(60), Queues, OlderFacts DEF UpPackets, DownPackets
  <2> QED
    BY <1>11, <1>t, <2>1 DEF Tick, TypeOK, config, client_ping_interval
<1> QED
  BY ZenonT(60), <1>0, <1>1, <1>2, <1>3, <1>4, <1>5, <1>6, <1>7, <1>8, <1>9, <1>10, <1>11 DEF Next, Due

--------------------------------------------------------------------------------
(* The invariant. *)

\* The configuration never changes, and with it the verdict of the policy.
LEMMA ConfigStays ==
  ASSUME [Next]_vars
  PROVE  /\ keep_alive' = keep_alive /\ allow_disabled' = allow_disabled
         /\ keep_alive_refused(keep_alive)' = keep_alive_refused(keep_alive)
<1>1. keep_alive' = keep_alive /\ allow_disabled' = allow_disabled
  BY ZenonT(60) DEF Next, Due, vars, config, ClientGetsConnack, ConnackTimeout, WireClosed, tick_or_never,
         ServerGetsConnect, ConnectTimeout, ServerReads, DeadlineElapsed, ClientSends,
         ClientLeaves, ClientVanishes, Tick
<1> QED
  BY ZenonT(60), <1>1 DEF keep_alive_refused

\* While something of a vanished client still arrives, it has been silent for at most
\* one delay.
LEMMA QuietWhileArriving ==
  ASSUME TypeOK, Inv, client = "vanished", Reading, up # <<>>
  PROVE  quiet <= MaxDelay
<1>1. 1 \in 1 .. Len(up) /\ up[1].age \in 0 .. MaxDelay
  BY Queues
<1>2. quiet <= up[1].age
  BY ZenonT(60), <1>1 DEF Inv, QuietInv
<1> QED
  BY <1>1, <1>2, KeepAliveAssumption DEF TypeOK

\* Every step keeps the invariant.
LEMMA InvNext == TypeOK /\ Inv /\ [Next]_vars => Inv'
<1> SUFFICES ASSUME TypeOK, Inv, [Next]_vars PROVE Inv'
  BY ZenonT(60)
<1>k. /\ keep_alive' = keep_alive
      /\ keep_alive_refused(keep_alive)' = keep_alive_refused(keep_alive)
  BY ZenonT(60), ConfigStays
<1>t. /\ client_ping_interval(keep_alive) \in Nat /\ server_read_deadline(keep_alive) \in Nat
      /\ MaxDelay \in Nat
      /\ keep_alive # 0 =>
           client_ping_interval(keep_alive) + 2 * MaxDelay < server_read_deadline(keep_alive)
  BY ZenonT(60), TimerFacts, KeepAliveAssumption DEF TypeOK
<1>v. /\ idle \in Nat /\ quiet \in Nat /\ since_tick \in Nat
      /\ since_tick <= client_ping_interval(keep_alive)
  BY <1>t DEF TypeOK
<1>0. CASE UNCHANGED vars
  BY ZenonT(60), <1>0, <1>k DEF Inv, HandshakeInv, PolicyInv, EndInv, QuietInv, IdleInv, PunctualStays,
                    Reading, vars
<1>1. CASE ClientGetsConnack
  <2>1. HandshakeInv' /\ PolicyInv' /\ QuietInv' /\ PunctualStays'
    BY ZenonT(60), <1>1, <1>k DEF ClientGetsConnack, Fail, Inv, HandshakeInv, PolicyInv, QuietInv,
                      PunctualStays
  <2>2. EndInv'
    BY ZenonT(60), <1>1, Queueing, Queues DEF ClientGetsConnack, Fail, Inv, EndInv
  <2>3. IdleInv'
    BY <1>1, <1>k, <1>t, <1>v, Queueing, Queues DEF ClientGetsConnack, Fail, Inv, IdleInv
  <2> QED
    BY ZenonT(60), <2>1, <2>2, <2>3 DEF Inv
<1>2. CASE ConnackTimeout \/ WireClosed
  <2>0. /\ client = "connecting" /\ Fail
        /\ UNCHANGED <<config, waited, since_tick, down, server, idle, quiet>>
    BY ZenonT(60), <1>2 DEF ConnackTimeout, WireClosed
  <2>1. HandshakeInv'
    BY <2>0, Queueing, Queues DEF Fail, Inv, HandshakeInv
  <2>2. PolicyInv' /\ QuietInv' /\ PunctualStays'
    BY ZenonT(60), <2>0, <1>k DEF Fail, Inv, PolicyInv, QuietInv, PunctualStays
  <2>3. EndInv'
    BY ZenonT(60), <2>0, Queueing, Queues DEF Fail, Inv, EndInv
  <2>4. IdleInv'
    BY <2>0, <1>k, <1>t, <1>v, Queueing, Queues DEF Fail, Inv, IdleInv
  <2> QED
    BY ZenonT(60), <2>1, <2>2, <2>3, <2>4 DEF Inv
<1>3. CASE tick_or_never
  <2>1. HandshakeInv' /\ PolicyInv' /\ EndInv' /\ QuietInv' /\ PunctualStays'
    BY ZenonT(60), <1>3, <1>k DEF tick_or_never, Inv, HandshakeInv, PolicyInv, EndInv, QuietInv, PunctualStays
  <2>2. IdleInv'
    BY <1>3, <1>k, <1>t, <1>v, Queueing, Queues DEF tick_or_never, Inv, IdleInv
  <2> QED
    BY ZenonT(60), <2>1, <2>2 DEF Inv
<1>4. CASE ServerGetsConnect
  <2>1. HandshakeInv' /\ PunctualStays'
    BY ZenonT(60), <1>4 DEF ServerGetsConnect, HandshakeInv, PunctualStays
  <2>2. PolicyInv'
    BY ZenonT(60), <1>4, <1>k DEF ServerGetsConnect, PolicyInv
  <2>3. EndInv'
    BY <1>4, Reads DEF ServerGetsConnect, Inv, HandshakeInv, EndInv
  <2>4. QuietInv'
    BY <1>4, Reads DEF ServerGetsConnect, Inv, QuietInv, Reading
  <2>5. IdleInv'
    <3> SUFFICES ASSUME server' = "serving", keep_alive # 0
                 PROVE  IdleInv'
      BY ZenonT(60), <1>k DEF IdleInv
    <3>1. /\ idle' = 0 /\ up' = Tail(up) /\ client' = client /\ quiet' = quiet
          /\ client # "vanished" => down' # <<>> /\ down'[1].age = 0
          /\ client \notin {"up", "left"} /\ (client = "connecting" => Len(up) = 1)
      BY ZenonT(60), <1>4, Connack DEF ServerGetsConnect, Inv, HandshakeInv
    <3>2. /\ up' # <<>> => up'[1].age \in 0 .. MaxDelay
          /\ Len(up) = 1 => up' = <<>>
      BY <1>4, <3>1, Reads, Queues DEF ServerGetsConnect
    <3>3. client = "vanished" => quiet <= MaxDelay
      BY ZenonT(60), <1>4, QuietWhileArriving DEF ServerGetsConnect, Reading
    <3> QED
      BY <1>k, <1>t, <1>v, <3>1, <3>2, <3>3 DEF IdleInv
  <2> QED
    BY ZenonT(60), <2>1, <2>2, <2>3, <2>4, <2>5 DEF Inv
<1>5. CASE ConnectTimeout
  BY ZenonT(60), <1>5, <1>k DEF ConnectTimeout, Inv, HandshakeInv, PolicyInv, EndInv, QuietInv, IdleInv,
                    PunctualStays, Reading
<1>6. CASE ServerReads
  <2>1. HandshakeInv' /\ PolicyInv' /\ PunctualStays'
    BY ZenonT(60), <1>6, <1>k DEF ServerReads, Inv, HandshakeInv, PolicyInv, PunctualStays
  <2>2. EndInv'
    BY <1>6, Reads, Queues DEF ServerReads, Inv, EndInv
  <2>3. QuietInv'
    BY <1>6, Reads DEF ServerReads, Inv, QuietInv, Reading
  <2>4. IdleInv'
    <3> SUFFICES ASSUME server' = "serving", keep_alive # 0
                 PROVE  IdleInv'
      BY ZenonT(60), <1>k DEF IdleInv
    <3>1. /\ idle' = 0 /\ client' = client /\ quiet' = quiet /\ since_tick' = since_tick
          /\ client # "connecting"
      BY ZenonT(60), <1>6 DEF ServerReads, Inv, IdleInv
    <3>2. up' # <<>> => up'[1].age \in 0 .. MaxDelay
      BY <1>6, Reads, Queues DEF ServerReads
    <3>3. client = "vanished" => quiet <= MaxDelay
      BY ZenonT(60), <1>6, QuietWhileArriving DEF ServerReads, Reading
    <3> QED
      BY <1>k, <1>t, <1>v, <3>1, <3>2, <3>3 DEF IdleInv
  <2> QED
    BY ZenonT(60), <2>1, <2>2, <2>3, <2>4 DEF Inv
<1>7. CASE DeadlineElapsed
  <2>1. HandshakeInv' /\ PolicyInv' /\ EndInv' /\ QuietInv' /\ IdleInv'
    BY ZenonT(60), <1>7 DEF DeadlineElapsed, Inv, HandshakeInv, PolicyInv, EndInv, QuietInv, IdleInv, Reading
  <2>2. client = "vanished"
    BY <1>7, <1>t, <1>v, Queues DEF DeadlineElapsed, Inv, EndInv, IdleInv, TypeOK
  <2> QED
    BY ZenonT(60), <1>7, <2>1, <2>2 DEF DeadlineElapsed, Inv, PunctualStays
<1>8. CASE ClientSends
  <2>1. HandshakeInv' /\ PolicyInv' /\ EndInv' /\ QuietInv' /\ PunctualStays'
    BY ZenonT(60), <1>8, <1>k DEF ClientSends, Inv, HandshakeInv, PolicyInv, EndInv, QuietInv, PunctualStays
  <2>2. IdleInv'
    BY <1>8, <1>k, <1>t, <1>v, Queueing, Queues DEF ClientSends, Inv, IdleInv
  <2> QED
    BY ZenonT(60), <2>1, <2>2 DEF Inv
<1>9. CASE ClientLeaves
  <2>1. HandshakeInv' /\ PolicyInv' /\ QuietInv' /\ PunctualStays'
    BY ZenonT(60), <1>9, <1>k DEF ClientLeaves, Inv, HandshakeInv, PolicyInv, QuietInv, PunctualStays
  <2>2. EndInv'
    BY ZenonT(60), <1>9, Queueing, Queues DEF ClientLeaves, EndInv
  <2>3. IdleInv'
    BY <1>9, <1>k, <1>t, <1>v, Queueing, Queues DEF ClientLeaves, Inv, IdleInv
  <2> QED
    BY ZenonT(60), <2>1, <2>2, <2>3 DEF Inv
<1>10. CASE ClientVanishes
  <2>1. HandshakeInv' /\ PolicyInv' /\ EndInv' /\ PunctualStays'
    BY ZenonT(60), <1>10, <1>k DEF ClientVanishes, Inv, HandshakeInv, PolicyInv, EndInv, PunctualStays
  <2>2. PICK n \in 0 .. Len(up) : up' = SubSeq(up, 1, n)
    BY ZenonT(60), <1>10 DEF ClientVanishes
  <2>3. Len(up') = n /\ \A i \in 1 .. n : up'[i] = up[i]
    BY <2>2, Queues, SubSeqProperties
  <2>4. QuietInv'
    BY <1>10, <1>v, <2>3, Queues DEF ClientVanishes, Inv, QuietInv
  <2>5. IdleInv'
    BY <1>10, <1>k, <1>t, <1>v DEF ClientVanishes, Inv, QuietInv, IdleInv
  <2> QED
    BY ZenonT(60), <2>1, <2>4, <2>5 DEF Inv
<1>11. CASE Tick
  <2>o. /\ Len(up') = Len(up) /\ (up' = <<>> <=> up = <<>>) /\ (down' = <<>> <=> down = <<>>)
        /\ \A i \in 1 .. Len(up) :
             up'[i].kind = up[i].kind /\ (InTime(up) => up'[i].age = up[i].age + 1)
        /\ down # <<>> /\ InTime(down) => down'[1].age = down[1].age + 1
    <3>1. up \in Seq(UpPackets) /\ down \in Seq(DownPackets) /\ (down # <<>> => 1 \in 1 .. Len(down))
      BY Queues, EmptySeq
    <3>2. up' = Older(up) /\ down' = Older(down)
      BY ZenonT(60), <1>11 DEF Tick
    <3> QED
      BY ZenonT(60), <3>1, <3>2, OlderFacts DEF UpPackets, DownPackets
  <2>1. HandshakeInv' /\ PolicyInv' /\ PunctualStays'
    BY <1>11, <1>k, <2>o, Queues DEF Tick, Inv, HandshakeInv, PolicyInv, PunctualStays
  <2>2. EndInv'
    BY <1>11, <2>o, Queues DEF Tick, Inv, EndInv
  <2>3. QuietInv'
    BY <1>11, <1>v, <2>o, Queues DEF Tick, Inv, QuietInv, Reading
  <2>4. IdleInv'
    <3> SUFFICES ASSUME server = "serving", keep_alive # 0
                 PROVE  IdleInv'
      BY ZenonT(60), <1>11, <1>k DEF Tick, IdleInv
    <3>1. /\ client' = client /\ server' = server /\ idle' = idle + 1 /\ InTime(up)
          /\ idle < server_read_deadline(keep_alive)
          /\ client = "connecting" => InTime(down)
          /\ client = "up" => since_tick' = since_tick + 1
          /\ quiet' \in {quiet, quiet + 1}
      BY ZenonT(60), <1>11 DEF Tick, Reading
    <3>2. /\ up # <<>> => up'[1].age = up[1].age + 1 /\ up[1].age \in Nat
          /\ down # <<>> => down[1].age \in Nat
      BY <1>t, <2>o, <3>1, Queues
    <3> QED
      BY <1>k, <1>t, <1>v, <2>o, <3>1, <3>2 DEF Inv, IdleInv
  <2> QED
    BY ZenonT(60), <2>1, <2>2, <2>3, <2>4 DEF Inv
<1> QED
  BY ZenonT(60), <1>0, <1>1, <1>2, <1>3, <1>4, <1>5, <1>6, <1>7, <1>8, <1>9, <1>10, <1>11 DEF Next, Due

--------------------------------------------------------------------------------
(* The theorems. *)

\* Types and invariant hold in every reachable state.
LEMMA InvHolds == Spec => [](TypeOK /\ Inv)
<1>1. TypeOK /\ Inv /\ [Next]_vars => (TypeOK /\ Inv)'
  BY ZenonT(60), TypeNext, InvNext
<1> QED
  BY <1>1, InitInv, PTL DEF Spec

\* Every variable of the two sides keeps its type: no timer runs past the moment it is
\* due, no packet is older than MaxDelay (the timers of handle_client and
\* handle_server).
THEOREM TypeCorrect == Spec => []TypeOK
BY InvHolds, PTL

\* Whatever the keep-alive, the tick and the delay, as long as a packet takes less than
\* a quarter of the keep-alive: the deadline elapses only on a client that has vanished
\* (server_read_deadline, client_ping_interval).
THEOREM PunctualCorrect == Spec => []PunctualStays
<1>1. Inv => PunctualStays
  BY ZenonT(60) DEF Inv
<1> QED
  BY <1>1, InvHolds, PTL

\* A client that vanished is let go of within one delay and the deadline of its
\* keep-alive (read_packet_before).
THEOREM VanishedCorrect == Spec => []VanishedIsDropped
<1>1. ASSUME TypeOK, Inv PROVE VanishedIsDropped
  <2> SUFFICES ASSUME client = "vanished", server = "serving", keep_alive # 0
               PROVE  quiet <= LastWait
    BY ZenonT(60) DEF VanishedIsDropped
  <2>1. /\ server_read_deadline(keep_alive) \in Nat /\ MaxDelay \in Nat
        /\ quiet \in Nat /\ idle \in Nat /\ idle <= server_read_deadline(keep_alive)
    BY ZenonT(60), <1>1, TimerFacts, KeepAliveAssumption DEF TypeOK, Inv, IdleInv
  <2>2. CASE up = <<>>
    BY <1>1, <2>1, <2>2 DEF Inv, IdleInv, LastWait
  <2>3. CASE up # <<>>
    BY <1>1, <2>1, <2>3, QuietWhileArriving DEF Reading, LastWait
  <2> QED
    BY ZenonT(60), <2>2, <2>3
<1> QED
  BY <1>1, InvHolds, PTL

\* A silent session is held for at most 1.5 times the operator's maximum, unless the
\* operator allows to disable keep-alive (the admission in handle_server).
THEOREM PolicyCorrect == Spec => []IdleWithinPolicy
<1>1. ASSUME TypeOK, Inv PROVE IdleWithinPolicy
  <2> SUFFICES ASSUME server = "serving"
               PROVE  IF keep_alive = 0 THEN allow_disabled
                      ELSE idle <= 3 * Half * max_keep_alive
    BY ZenonT(60) DEF IdleWithinPolicy
  <2>1. CASE keep_alive = 0
    BY ZenonT(60), <1>1, <2>1 DEF Inv, PolicyInv, keep_alive_refused
  <2>2. CASE keep_alive # 0
    <3>1. keep_alive \in KeepAlives /\ keep_alive <= max_keep_alive /\ idle \in Nat
      BY <1>1, <2>2, KeepAliveAssumption DEF TypeOK, Inv, PolicyInv, keep_alive_refused
    <3>2. idle <= server_read_deadline(keep_alive) /\ server_read_deadline(keep_alive) \in Nat
      BY ZenonT(60), <1>1, <2>2, <3>1, TimerFacts DEF Inv, IdleInv
    <3>3. server_read_deadline(keep_alive) <= 3 * Half * max_keep_alive
      BY ZenonT(60), <3>1, DeadlineWithinPolicy
    <3>4. 3 * Half * max_keep_alive \in Nat
      BY KeepAliveAssumption
    <3> QED
      BY <2>2, <3>1, <3>2, <3>3, <3>4
  <2> QED
    BY ZenonT(60), <2>1, <2>2
<1> QED
  BY <1>1, InvHolds, PTL

================================================================================
