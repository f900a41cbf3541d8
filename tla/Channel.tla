-------------------------------- MODULE Channel --------------------------------
(***************************************************************************)
(* The lifecycle of one MqttChannel: the open flag, the shutdown Notify,   *)
(* the writer actor and the read loop that select on it.                   *)
(*                                                                         *)
(* Source: src/channel.rs (close, writer_actor, send_packet) and the loop  *)
(* skeletons of src/protocol/server.rs and src/protocol/client.rs.         *)
(*                                                                         *)
(* Notify::notify_waiters wakes the Notified futures that exist when it is *)
(* called and leaves no permit behind.  A task therefore hears the signal  *)
(* only while it sits in its select!; a signal fired while the writer is   *)
(* inside a write, or while the reader is between its is_open test and its *)
(* select!, is not heard.                                                  *)
(***************************************************************************)
EXTENDS Naturals, Sequences, SequencesExt

CONSTANTS
  MaxCmds,      \* bound: commands handed to the writer
  Role,         \* "server" or "client"
  WriteErrors,  \* whether a write to the socket may fail
  KeepAlive     \* whether the read loop has a deadline of its own

ASSUME ChannelAssumption ==
  /\ MaxCmds \in Nat
  /\ Role \in {"server", "client"}
  /\ WriteErrors \in BOOLEAN
  /\ KeepAlive \in BOOLEAN

VARIABLES
  open,      \* MqttChannel.open
  closer,    \* progress of the close() call that flipped the flag
  enqueued,  \* commands handed to cmd_tx so far; command n is the number n
  cmds,      \* the command queue
  written,   \* commands written to the socket
  writer,    \* the writer actor: select, writing, leaving, shutting, gone
  wsignal,   \* its Notified future has fired
  failed,    \* a write has failed
  reader,    \* the read loop: check, arming, select, teardown, done
  rsignal,   \* its Notified future has fired
  held,      \* some clone of the channel, and so of cmd_tx, is alive
  accepted   \* commands accepted before the flag was flipped

vars == <<open, closer, enqueued, cmds, written, writer, wsignal, failed, reader,
          rsignal, held, accepted>>

writerVars == <<cmds, written, writer, wsignal, failed>>
readerVars == <<reader, rsignal>>

--------------------------------------------------------------------------------
(* The holders of the channel. *)

\* cmd_tx.send: refused once the receiver has been dropped.
Send ==
  /\ held
  /\ enqueued < MaxCmds
  /\ writer # "gone"
  /\ enqueued' = enqueued + 1
  /\ cmds' = Append(cmds, enqueued + 1)
  /\ accepted' = IF open THEN enqueued + 1 ELSE accepted
  /\ UNCHANGED <<open, closer, written, writer, wsignal, failed, readerVars, held>>

\* Faulty: close() goes on to notify without having cleared the flag.
FlipForgotten ==
  /\ open
  /\ closer' = "flipped"
  /\ UNCHANGED open

\* close(): the first caller flips the flag, later callers return at once.
Flip ==
  /\ open
  /\ open' = FALSE
  /\ closer' = "flipped"

\* Another holder of the channel closes it: a takeover, or the framework.
CloseByHolder ==
  /\ held
  /\ Flip
  /\ UNCHANGED <<enqueued, writerVars, readerVars, held, accepted>>

notify_waiters ==
  /\ closer = "flipped"
  /\ closer' = "notified"
  /\ wsignal' = (wsignal \/ writer = "select")
  /\ rsignal' = (rsignal \/ reader = "select")
  /\ UNCHANGED <<open, enqueued, cmds, written, writer, failed, reader, held,
                 accepted>>

\* The last clone goes away once handle() has returned and the broker's entry is
\* gone.  A client protocol keeps one clone in its session_channel slot.
ReleaseClones ==
  /\ Role = "server"
  /\ reader = "done"
  /\ held
  /\ held' = FALSE
  /\ UNCHANGED <<open, closer, enqueued, writerVars, readerVars, accepted>>

--------------------------------------------------------------------------------
(* writer_actor. *)

WriterTakes ==
  /\ writer = "select"
  /\ cmds # <<>>
  /\ writer' = "writing"
  /\ wsignal' = FALSE
  /\ UNCHANGED <<open, closer, enqueued, cmds, written, failed, readerVars, held,
                 accepted>>

WriterWrites ==
  /\ writer = "writing"
  /\ written' = Append(written, Head(cmds))
  /\ cmds' = Tail(cmds)
  /\ writer' = "select"
  /\ UNCHANGED <<open, closer, enqueued, wsignal, failed, readerVars, held,
                 accepted>>

\* Faulty: the result of the write is ignored, and the loop goes on.
WriteFailsIgnored ==
  /\ writer = "writing"
  /\ WriteErrors
  /\ failed' = TRUE
  /\ cmds' = Tail(cmds)
  /\ writer' = "select"
  /\ UNCHANGED <<open, closer, enqueued, written, wsignal, readerVars, held,
                 accepted>>

WriteFails ==
  /\ writer = "writing"
  /\ WriteErrors
  /\ failed' = TRUE
  /\ cmds' = Tail(cmds)
  /\ writer' = "leaving"
  /\ UNCHANGED <<open, closer, enqueued, written, wsignal, readerVars, held,
                 accepted>>

\* The shutdown branch: select! may take it although commands are queued.
WriterHearsShutdown ==
  /\ writer = "select"
  /\ wsignal
  /\ writer' = "leaving"
  /\ UNCHANGED <<open, closer, enqueued, cmds, written, wsignal, failed,
                 readerVars, held, accepted>>

\* Faulty: a closed channel's writer ignores that the senders are gone.
WriterSeesNoSendersWhileOpen ==
  /\ open
  /\ writer = "select"
  /\ cmds = <<>>
  /\ ~ held
  /\ writer' = "leaving"
  /\ UNCHANGED <<open, closer, enqueued, cmds, written, wsignal, failed,
                 readerVars, held, accepted>>

\* recv() yields None: the queue is empty and every sender was dropped.
WriterSeesNoSenders ==
  /\ writer = "select"
  /\ cmds = <<>>
  /\ ~ held
  /\ writer' = "leaving"
  /\ UNCHANGED <<open, closer, enqueued, cmds, written, wsignal, failed,
                 readerVars, held, accepted>>

\* Out of its loop, the actor marks the channel closed itself, with no notify.
WriterExits ==
  /\ writer = "leaving"
  /\ writer' = "shutting"
  /\ open' = FALSE
  /\ UNCHANGED <<closer, enqueued, cmds, written, wsignal, failed, readerVars,
                 held, accepted>>

\* The socket is shut down and the receiver dropped.
WriterGone ==
  /\ writer = "shutting"
  /\ writer' = "gone"
  /\ UNCHANGED <<open, closer, enqueued, cmds, written, wsignal, failed,
                 readerVars, held, accepted>>

--------------------------------------------------------------------------------
(* The read loop of handle_server and handle_client. *)

ReaderChecks ==
  /\ reader = "check"
  /\ reader' = IF open THEN "arming" ELSE "teardown"
  /\ UNCHANGED <<open, closer, enqueued, writerVars, rsignal, held, accepted>>

\* select! creates the Notified future.
ReaderSelects ==
  /\ reader = "arming"
  /\ reader' = "select"
  /\ rsignal' = FALSE
  /\ UNCHANGED <<open, closer, enqueued, writerVars, held, accepted>>

\* A packet arrives and is dispatched; the loop starts over.
ReaderGetsPacket ==
  /\ reader = "select"
  /\ reader' = "check"
  /\ UNCHANGED <<open, closer, enqueued, writerVars, rsignal, held, accepted>>

\* The peer leaves: DISCONNECT, wire closed, malformed packet.
PeerLeaves ==
  /\ reader = "select"
  /\ reader' = "teardown"
  /\ UNCHANGED <<open, closer, enqueued, writerVars, rsignal, held, accepted>>

\* Faulty: the deadline applies to an open channel only.
ReadDeadlineWhileOpen ==
  /\ open
  /\ KeepAlive
  /\ PeerLeaves

ReadDeadline ==
  /\ KeepAlive
  /\ PeerLeaves

ReaderHearsShutdown ==
  /\ reader = "select"
  /\ rsignal
  /\ reader' = "teardown"
  /\ UNCHANGED <<open, closer, enqueued, writerVars, rsignal, held, accepted>>

\* The loop's own close() and the return from handle().
ReaderCloses ==
  /\ reader = "teardown"
  /\ reader' = "done"
  /\ IF open THEN Flip ELSE UNCHANGED <<open, closer>>
  /\ UNCHANGED <<enqueued, writerVars, rsignal, held, accepted>>

--------------------------------------------------------------------------------
Init ==
  /\ open = TRUE
  /\ closer = "none"
  /\ enqueued = 0
  /\ cmds = <<>>
  /\ written = <<>>
  /\ writer = "select"
  /\ wsignal = FALSE
  /\ failed = FALSE
  /\ reader = "check"
  /\ rsignal = FALSE
  /\ held = TRUE
  /\ accepted = 0

\* Steps the writer takes without waiting for the socket to accept bytes.
WriterStep ==
  \/ WriterTakes
  \/ WriterHearsShutdown
  \/ WriterSeesNoSenders
  \/ WriterExits
  \/ WriterGone

\* Steps the read loop takes without hearing from the peer.
ReaderStep ==
  \/ ReaderChecks
  \/ ReaderSelects
  \/ ReadDeadline
  \/ ReaderHearsShutdown
  \/ ReaderCloses

Next ==
  \/ Send
  \/ CloseByHolder
  \/ notify_waiters
  \/ ReleaseClones
  \/ WriterStep
  \/ WriterWrites
  \/ WriteFails
  \/ ReaderStep
  \/ ReaderGetsPacket
  \/ PeerLeaves

Spec == Init /\ [][Next]_vars

\* Spawned tasks keep being polled and timers elapse.  Nothing is assumed of the
\* peer: it may send nothing, and it may stop reading, which blocks a write.
FairSpec ==
  Spec /\ WF_vars(notify_waiters) /\ WF_vars(WriterStep) /\ WF_vars(ReaderStep)
       /\ WF_vars(ReleaseClones)

--------------------------------------------------------------------------------
(* Properties. *)

\* Every variable keeps its type; nobody is notified of the closing of a channel
\* whose flag still says open.
TypeOK ==
  /\ open \in BOOLEAN
  /\ closer \in {"none", "flipped", "notified"}
  /\ closer # "none" => ~ open
  /\ enqueued \in 0 .. MaxCmds
  /\ cmds \in Seq(1 .. MaxCmds)
  /\ written \in Seq(1 .. MaxCmds)
  /\ writer \in {"select", "writing", "leaving", "shutting", "gone"}
  /\ wsignal \in BOOLEAN
  /\ failed \in BOOLEAN
  /\ reader \in {"check", "arming", "select", "teardown", "done"}
  /\ rsignal \in BOOLEAN
  /\ held \in BOOLEAN
  /\ accepted \in 0 .. MaxCmds

\* The socket carries the commands in the order they were handed over, none
\* skipped and none twice, up to the point where the writer stopped; after a
\* close() nobody's command overtakes one accepted before it.
WireOrder ==
  IsPrefix(written, [n \in 1 .. enqueued |-> n])

\* close() drains the commands accepted while the channel was open before the
\* writer exits, unless the socket fails.
CloseDrainsFirst ==
  (writer = "gone" /\ ~ failed) => Len(written) >= accepted

\* Once the channel is closed, by whomever, the read loop ends.
ReaderLeaves == (~ open) ~> (reader = "done")

\* Once the read loop has ended, the writer ends and shuts the socket down, unless
\* a write it has begun blocks for ever.
WriterEnds == (reader = "done") ~> (writer = "gone" \/ [](writer = "writing"))

================================================================================
