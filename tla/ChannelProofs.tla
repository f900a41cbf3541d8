----------------------------- MODULE ChannelProofs -----------------------------
(***************************************************************************)
(* Proofs about Channel, for any number of commands, both roles, with and  *)
(* without write errors and deadlines: type correctness, and the order of  *)
(* the commands on the wire.                                               *)
(***************************************************************************)
EXTENDS Channel, SequenceTheorems, TLAPS

\* The obligations are many and large: the provers get more than their usual time.
USE SMTT(60)

Left == {"leaving", "shutting", "gone"}

\* The actor writes only what it has taken from the queue, and a failed write is its
\* last.
WriterInv ==
  /\ writer = "writing" => cmds # <<>>
  /\ failed => writer \in Left

\* What is written and what is queued make up what was handed over, in order; the
\* command whose write failed is missing, and nothing is written after it.
OrderInv ==
  /\ Len(written) + Len(cmds) <= enqueued
  /\ \A i \in 1 .. Len(written) : written[i] = i
  /\ ~ failed => /\ Len(written) + Len(cmds) = enqueued
                 /\ \A i \in 1 .. Len(cmds) : cmds[i] = Len(written) + i

Inv == WriterInv /\ OrderInv

--------------------------------------------------------------------------------
\* A sequence that counts from 1 is a prefix of the commands.
LEMMA CountingIsPrefix ==
  ASSUME NEW s \in Seq(Nat), NEW n \in Nat, Len(s) <= n, \A i \in 1 .. Len(s) : s[i] = i
  PROVE  IsPrefix(s, [i \in 1 .. n |-> i])
<1>1. Len(s) \in Nat
  BY ZenonT(60), LenProperties
<1> QED
  BY <1>1 DEF IsPrefix

\* The queue and the wire as sequences of commands.
LEMMA Queues ==
  ASSUME TypeOK
  PROVE  /\ MaxCmds \in Nat /\ enqueued \in Nat
         /\ cmds \in Seq(1 .. MaxCmds) /\ Len(cmds) \in Nat
         /\ written \in Seq(1 .. MaxCmds) /\ Len(written) \in Nat
         /\ (cmds = <<>>) <=> (Len(cmds) = 0)
<1>1. MaxCmds \in Nat /\ cmds \in Seq(1 .. MaxCmds) /\ written \in Seq(1 .. MaxCmds)
  BY ZenonT(60), ChannelAssumption DEF TypeOK
<1> QED
  BY <1>1, EmptySeq, LenProperties DEF TypeOK

\* A command that is handed over goes to the end of the queue.
LEMMA SendQueues ==
  ASSUME TypeOK, Send
  PROVE  /\ enqueued + 1 \in 1 .. MaxCmds /\ enqueued' = enqueued + 1
         /\ cmds' \in Seq(1 .. MaxCmds) /\ Len(cmds') = Len(cmds) + 1 /\ cmds' # <<>>
         /\ \A i \in 1 .. Len(cmds) : cmds'[i] = cmds[i]
         /\ cmds'[Len(cmds) + 1] = enqueued + 1
<1>1. cmds \in Seq(1 .. MaxCmds) /\ enqueued + 1 \in 1 .. MaxCmds
  BY Queues DEF Send, TypeOK
<1>2. cmds' = Append(cmds, enqueued + 1) /\ enqueued' = enqueued + 1
  BY ZenonT(60) DEF Send
<1> QED
  BY <1>1, <1>2, AppendProperties

\* The command the actor has taken leaves the queue.
LEMMA QueueShrinks ==
  ASSUME TypeOK, cmds # <<>>
  PROVE  /\ Tail(cmds) \in Seq(1 .. MaxCmds) /\ Len(Tail(cmds)) = Len(cmds) - 1
         /\ \A i \in 1 .. Len(Tail(cmds)) : Tail(cmds)[i] = cmds[i + 1]
         /\ Head(cmds) = cmds[1] /\ Head(cmds) \in 1 .. MaxCmds
         /\ Len(cmds) >= 1
<1>1. cmds \in Seq(1 .. MaxCmds) /\ Len(cmds) \in Nat /\ (cmds = <<>> <=> Len(cmds) = 0)
  BY ZenonT(60), Queues
<1>2. Head(cmds) = cmds[1]
  BY <1>1
<1>3. /\ Head(cmds) \in 1 .. MaxCmds
      /\ Tail(cmds) \in Seq(1 .. MaxCmds) /\ Len(Tail(cmds)) = Len(cmds) - 1
      /\ \A i \in 1 .. Len(Tail(cmds)) : Tail(cmds)[i] = cmds[i + 1]
  BY <1>1, HeadTailProperties, ZenonT(60)
<1>4. Len(cmds) >= 1
  BY <1>1
<1> QED
  BY <1>2, <1>3, <1>4, ZenonT(60)

\* A command that is written goes to the end of the wire.
LEMMA WriteExtends ==
  ASSUME TypeOK, WriterInv, WriterWrites
  PROVE  /\ written' \in Seq(1 .. MaxCmds) /\ Len(written') = Len(written) + 1
         /\ \A i \in 1 .. Len(written) : written'[i] = written[i]
         /\ written'[Len(written) + 1] = cmds[1]
<1>1. written \in Seq(1 .. MaxCmds) /\ Head(cmds) = cmds[1] /\ Head(cmds) \in 1 .. MaxCmds
  BY ZenonT(60), Queues, QueueShrinks DEF WriterInv, WriterWrites
<1>2. written' = Append(written, Head(cmds))
  BY ZenonT(60) DEF WriterWrites
<1> QED
  BY <1>1, <1>2, AppendProperties

--------------------------------------------------------------------------------
\* The initial states satisfy the types and the invariant.
LEMMA InitInv == Init => TypeOK /\ Inv
<1> SUFFICES ASSUME Init PROVE TypeOK /\ Inv
  BY ZenonT(60)
<1>1. /\ cmds = <<>> /\ written = <<>> /\ enqueued = 0 /\ failed = FALSE /\ writer = "select"
      /\ Len(cmds) = 0 /\ Len(written) = 0
  BY ZenonT(60) DEF Init
<1>2. cmds \in Seq(1 .. MaxCmds) /\ written \in Seq(1 .. MaxCmds)
  BY <1>1
<1>3. TypeOK
  <2>1. 0 \in 0 .. MaxCmds
    BY ChannelAssumption
  <2> QED
    BY <1>2, <2>1, ZenonT(60) DEF Init, TypeOK
<1>4. WriterInv
  BY ZenonT(60), <1>1 DEF WriterInv
<1>5. OrderInv
  BY <1>1 DEF OrderInv
<1> QED
  BY ZenonT(60), <1>3, <1>4, <1>5 DEF Inv

\* Every step keeps the types.
LEMMA TypeNext == TypeOK /\ Inv /\ [Next]_vars => TypeOK'
<1> SUFFICES ASSUME TypeOK, Inv, [Next]_vars PROVE TypeOK'
  BY ZenonT(60)
<1> USE DEF writerVars, readerVars
<1>0. CASE UNCHANGED vars
  BY ZenonT(60), <1>0 DEF vars, TypeOK
<1>1. CASE Send
  BY <1>1, SendQueues DEF Send, TypeOK
<1>2. CASE CloseByHolder
  BY ZenonT(60), <1>2 DEF CloseByHolder, Flip, TypeOK
<1>3. CASE notify_waiters
  BY ZenonT(60), <1>3 DEF notify_waiters, TypeOK
<1>4. CASE ReleaseClones
  BY ZenonT(60), <1>4 DEF ReleaseClones, TypeOK
<1>5. CASE WriterStep
  <2>1. CASE WriterTakes
    BY ZenonT(60), <2>1 DEF WriterTakes, TypeOK
  <2>2. CASE WriterHearsShutdown
    BY ZenonT(60), <2>2 DEF WriterHearsShutdown, TypeOK
  <2>5. CASE WriterSeesNoSenders
    BY ZenonT(60), <2>5 DEF WriterSeesNoSenders, TypeOK
  <2>3. CASE WriterExits
    BY ZenonT(60), <2>3 DEF WriterExits, TypeOK
  <2>4. CASE WriterGone
    BY ZenonT(60), <2>4 DEF WriterGone, TypeOK
  <2> QED
    BY ZenonT(60), <1>5, <2>1, <2>2, <2>3, <2>4, <2>5 DEF WriterStep
<1>6. CASE WriterWrites
  BY ZenonT(60), <1>6, WriteExtends, QueueShrinks DEF WriterWrites, TypeOK, Inv, WriterInv
<1>7. CASE WriteFails
  BY ZenonT(60), <1>7, QueueShrinks DEF WriteFails, TypeOK, Inv, WriterInv
<1>8. CASE ReaderStep
  <2>1. CASE ReaderChecks
    BY ZenonT(60), <2>1 DEF ReaderChecks, TypeOK
  <2>4. CASE ReaderSelects
    BY ZenonT(60), <2>4 DEF ReaderSelects, TypeOK
  <2>2. CASE ReadDeadline
    BY ZenonT(60), <2>2 DEF ReadDeadline, PeerLeaves, TypeOK
  <2>5. CASE ReaderHearsShutdown
    BY ZenonT(60), <2>5 DEF ReaderHearsShutdown, TypeOK
  <2>3. CASE ReaderCloses
    BY ZenonT(60), <2>3 DEF ReaderCloses, Flip, TypeOK
  <2> QED
    BY ZenonT(60), <1>8, <2>1, <2>2, <2>3, <2>4, <2>5 DEF ReaderStep
<1>9. CASE ReaderGetsPacket
  BY ZenonT(60), <1>9 DEF ReaderGetsPacket, TypeOK
<1>10. CASE PeerLeaves
  BY ZenonT(60), <1>10 DEF PeerLeaves, TypeOK
<1> QED
  BY ZenonT(60), <1>0, <1>1, <1>2, <1>3, <1>4, <1>5, <1>6, <1>7, <1>8, <1>9, <1>10 DEF Next

\* Every step keeps the invariant.
LEMMA InvNext == TypeOK /\ Inv /\ [Next]_vars => Inv'
<1> SUFFICES ASSUME TypeOK, Inv, [Next]_vars PROVE Inv'
  BY ZenonT(60)
<1> USE DEF writerVars, readerVars
<1>q. /\ enqueued \in Nat /\ Len(cmds) \in Nat /\ Len(written) \in Nat
      /\ (cmds = <<>>) <=> (Len(cmds) = 0)
  BY ZenonT(60), Queues
<1>0. CASE UNCHANGED <<cmds, written, enqueued, failed, writer>>
  BY ZenonT(60), <1>0 DEF Inv, WriterInv, OrderInv
<1>1. CASE Send
  <2>1. WriterInv'
    BY ZenonT(60), <1>1, SendQueues DEF Send, Inv, WriterInv
  <2>2. /\ enqueued' = enqueued + 1 /\ Len(cmds') = Len(cmds) + 1
        /\ \A i \in 1 .. Len(cmds) : cmds'[i] = cmds[i]
        /\ cmds'[Len(cmds) + 1] = enqueued + 1
        /\ written' = written /\ failed' = failed
    BY ZenonT(60), <1>1, SendQueues DEF Send
  <2>3. ASSUME ~ failed, NEW i \in 1 .. Len(cmds) + 1 PROVE cmds'[i] = Len(written) + i
    <3>1. CASE i = Len(cmds) + 1
      BY <1>q, <2>2, <2>3, <3>1 DEF Inv, OrderInv
    <3>2. CASE i # Len(cmds) + 1
      BY <1>q, <2>2, <2>3, <3>2 DEF Inv, OrderInv
    <3> QED
      BY ZenonT(60), <3>1, <3>2
  <2>4. Len(written) + Len(cmds') <= enqueued' /\ (~ failed => Len(written) + Len(cmds') = enqueued')
    BY <1>q, <2>2 DEF Inv, OrderInv
  <2>5. OrderInv'
    BY ZenonT(60), <2>2, <2>3, <2>4 DEF Inv, OrderInv
  <2> QED
    BY ZenonT(60), <2>1, <2>5 DEF Inv
<1>2. CASE WriterStep
  <2>1. UNCHANGED <<cmds, written, enqueued, failed>>
    BY ZenonT(60), <1>2 DEF WriterStep, WriterTakes, WriterHearsShutdown, WriterSeesNoSenders, WriterExits,
                WriterGone
  <2>2. /\ writer' = "writing" => cmds # <<>>
        /\ writer \in Left => writer' \in Left
    BY ZenonT(60), <1>2 DEF WriterStep, WriterTakes, WriterHearsShutdown, WriterSeesNoSenders, WriterExits,
                WriterGone, Left
  <2>3. WriterInv'
    BY ZenonT(60), <2>1, <2>2 DEF Inv, WriterInv
  <2>4. OrderInv'
    BY ZenonT(60), <2>1 DEF Inv, OrderInv
  <2> QED
    BY ZenonT(60), <2>3, <2>4 DEF Inv
<1>3. CASE WriterWrites
  <2>1. cmds # <<>> /\ ~ failed
    BY ZenonT(60), <1>3 DEF WriterWrites, Inv, WriterInv, Left
  <2>2. WriterInv'
    BY ZenonT(60), <1>3, <2>1 DEF WriterWrites, WriterInv
  <2>3. /\ enqueued' = enqueued /\ failed' = failed
        /\ Len(cmds) >= 1 /\ Len(cmds') = Len(cmds) - 1
        /\ \A i \in 1 .. Len(cmds') : cmds'[i] = cmds[i + 1]
    BY ZenonT(60), <1>3, <2>1, QueueShrinks DEF WriterWrites
  <2>4. /\ Len(written') = Len(written) + 1
        /\ \A i \in 1 .. Len(written) : written'[i] = written[i]
        /\ written'[Len(written) + 1] = cmds[1]
    BY ZenonT(60), <1>3, WriteExtends DEF Inv
  <2>5. /\ Len(written) + Len(cmds) = enqueued
        /\ \A i \in 1 .. Len(cmds) : cmds[i] = Len(written) + i
        /\ \A i \in 1 .. Len(written) : written[i] = i
    BY ZenonT(60), <2>1 DEF Inv, OrderInv
  <2>6. ASSUME NEW i \in 1 .. Len(written') PROVE written'[i] = i
    <3>1. CASE i = Len(written) + 1
      BY <1>q, <2>3, <2>4, <2>5, <3>1
    <3>2. CASE i # Len(written) + 1
      BY <1>q, <2>4, <2>5, <3>2
    <3> QED
      BY ZenonT(60), <3>1, <3>2
  <2>7. ASSUME NEW i \in 1 .. Len(cmds') PROVE cmds'[i] = Len(written') + i
    <3>1. i + 1 \in 1 .. Len(cmds) /\ cmds'[i] = cmds[i + 1]
      BY <1>q, <2>3
    <3>2. cmds[i + 1] = Len(written) + (i + 1)
      BY ZenonT(60), <2>5, <3>1
    <3> QED
      BY <1>q, <2>4, <3>1, <3>2
  <2>8. Len(written') + Len(cmds') = enqueued'
    <3>1. \A m, n \in Nat : (m + 1) + (n - 1) = m + n
      OBVIOUS
    <3>2. (Len(written) + 1) + (Len(cmds) - 1) = enqueued
      BY <1>q, <2>5, <3>1, ZenonT(60)
    <3> QED
      BY <2>3, <2>4, <3>2, ZenonT(60)
  <2>9. OrderInv'
    <3>1. Len(written') + Len(cmds') <= enqueued'
      BY <1>q, <2>3, <2>8
    <3> QED
      BY ZenonT(60), <2>6, <2>7, <2>8, <3>1 DEF OrderInv
  <2> QED
    BY ZenonT(60), <2>2, <2>9 DEF Inv
<1>4. CASE WriteFails
  <2>1. cmds # <<>>
    BY ZenonT(60), <1>4 DEF WriteFails, Inv, WriterInv
  <2> QED
    BY <1>4, <1>q, <2>1, QueueShrinks DEF WriteFails, Inv, WriterInv, OrderInv, Left
<1>5. CASE CloseByHolder \/ notify_waiters \/ ReleaseClones \/ ReaderStep
             \/ ReaderGetsPacket \/ PeerLeaves
  BY ZenonT(60), <1>0, <1>5 DEF CloseByHolder, notify_waiters, ReleaseClones, ReaderStep, ReaderChecks,
                    ReaderSelects, ReadDeadline, ReaderHearsShutdown, ReaderCloses,
                    ReaderGetsPacket, PeerLeaves
<1> QED
  BY ZenonT(60), <1>0, <1>1, <1>2, <1>3, <1>4, <1>5 DEF Next, vars

--------------------------------------------------------------------------------
\* Types and invariant hold in every reachable state.
LEMMA InvHolds == Spec => [](TypeOK /\ Inv)
<1>1. TypeOK /\ Inv /\ [Next]_vars => (TypeOK /\ Inv)'
  BY ZenonT(60), TypeNext, InvNext
<1> QED
  BY <1>1, InitInv, PTL DEF Spec

\* Every variable of a channel keeps its type, and close() notifies only after it
\* has cleared the flag (MqttChannel, writer_actor).
THEOREM TypeCorrect == Spec => []TypeOK
BY InvHolds, PTL

\* However commands, close() and write errors interleave, the socket carries the
\* commands in the order they were handed over, up to the one the writer stopped at
\* (writer_actor).
THEOREM WireOrderCorrect == Spec => []WireOrder
<1>1. ASSUME TypeOK, Inv PROVE WireOrder
  <2>1. written \in Seq(Nat) /\ enqueued \in Nat /\ Len(written) <= enqueued
        /\ \A i \in 1 .. Len(written) : written[i] = i
    BY <1>1, Queues, SeqMonotonic DEF Inv, OrderInv
  <2> QED
    BY ZenonT(60), <2>1, CountingIsPrefix DEF WireOrder
<1> QED
  BY <1>1, InvHolds, PTL

================================================================================
