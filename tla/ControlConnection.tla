--------------------------- MODULE ControlConnection ---------------------------
(***************************************************************************)
(* One control connection (crates/sealant-control/src/server.rs, with the  *)
(* streaming commands of crates/sealantd/src/runtime.rs): the reader loop, *)
(* the opens of forwards that run beside it, the bounded outbound queue    *)
(* and its writer, the forwarder of telemetry events, the channels and     *)
(* their pumps, the teardown, and the drain of serve_unix at shutdown.     *)
(*                                                                         *)
(* A frame reaches the daemon as a header and a body.  A channel is named  *)
(* by the request that opens it.  `entries' is what the runtimes'          *)
(* (ForwardRuntime, SftpRuntime, sessions) maps hold for this connection.  *)
(***************************************************************************)
EXTENDS Integers, Sequences, SequencesExt, FiniteSets, TLC

CONSTANTS
  Kinds,         \* the frames the peer sends
  Splits,        \* a frame's body may arrive after its header
  Reads,         \* the peer reads all it is sent
  Escapes,       \* a killed exec's descendants may keep its output open
  Mismatched,    \* the peer may close a channel with another kind's command
  OutCapacity,   \* OUTBOUND_CAPACITY
  InCapacity,    \* a channel's inbound queue (64 in forward.rs)
  MaxFrames,     \* bound: frames the peer sends
  MaxOutput      \* bound: events and data frames queued

\* What the constants may be.
ConnectionConstants ==
  /\ Kinds \subseteq {"plain", "shutdown", "forward", "sftp", "attach", "exec",
                      "closeForward", "closeSftp", "detachSession", "data", "end"}
  /\ {Splits, Reads, Escapes, Mismatched} \subseteq BOOLEAN
  /\ OutCapacity \in Nat \ {0} /\ InCapacity \in Nat \ {0}
  /\ MaxFrames \in Nat /\ MaxOutput \in Nat

VARIABLES
  peer,       \* the peer: frames sent, one half sent, whether it closed or stopped reading
  wire,       \* header and body parts on their way to the reader
  pc,         \* where handle_connection is
  cur,        \* the frame it handles
  partial,    \* the header that the pending read_frame has consumed
  opened,     \* the kind of each channel that was opened
  beside,     \* the JoinSet of forward opens, by request: where each is
  entries,    \* channels with a runtime map entry
  pumps,      \* channels whose outbound pump runs, and holds an out_tx
  sinks,      \* ChannelRegistry
  closers,    \* CloserRegistry
  inbound,    \* per channel, frames in its inbound queue
  killed,     \* exec channels whose process group was killed
  outq,       \* the outbound queue
  writer,     \* the writer task runs
  forwarder,  \* the forwarder task runs
  stopEvents, \* ConnHandle.stop_events was notified
  output,     \* events and data frames queued so far
  phase,      \* the daemon: serving, shutdown requested, announced, stopping, over
  \* What happened, for the properties:
  received,   \* requests read_frame returned
  written,    \* requests whose response was written, in order
  desynced    \* read_frame took part of a frame's body for a header

reader == <<pc, cur, partial>>
channels == <<opened, entries, pumps, sinks, closers, inbound, killed>>
tasks == <<writer, forwarder, stopEvents>>
vars == <<peer, wire, reader, beside, channels, outq, tasks, output, phase,
          received, written, desynced>>

Ids == 1..MaxFrames
NoFrame == [id |-> 0, kind |-> "plain", ch |-> 0]
Stream(f) == f.kind \in {"data", "end"}
Response(id) == [type |-> "response", id |-> id]
Frame(ch) == [type |-> "stream", id |-> ch]
Ended == {"done", "aborted"}
Closes == [closeForward |-> "forward", closeSftp |-> "sftp", detachSession |-> "attach"]

Init ==
  /\ peer = [sent |-> 0, half |-> NoFrame, shut |-> FALSE, gone |-> FALSE, reads |-> TRUE]
  /\ wire = << >> /\ pc = "select" /\ cur = NoFrame /\ partial = NoFrame
  /\ opened = [c \in Ids |-> "none"] /\ beside = << >> /\ entries = {} /\ pumps = {} /\ sinks = {} /\ closers = {}
  /\ inbound = [c \in Ids |-> 0] /\ killed = {}
  /\ outq = << >> /\ writer = TRUE /\ forwarder = TRUE
  /\ stopEvents = FALSE /\ output = 0 /\ phase = "serving"
  /\ received = {} /\ written = << >> /\ desynced = FALSE

-----------------------------------------------------------------------------
(* The peer (external).  It closes or addresses channels it was told of.   *)
Told == ToSet(written)
PeerSends(kind, ch) ==
  LET f == [id |-> peer.sent + 1, kind |-> kind, ch |-> ch]
      head == [part |-> "head", frame |-> f]
      body == [part |-> "body", frame |-> f]
  IN  /\ peer.sent < MaxFrames /\ peer.half = NoFrame /\ ~peer.shut
      /\ IF kind \in DOMAIN Closes \cup {"data", "end"} THEN ch \in Told ELSE ch = 0
      /\ kind \in DOMAIN Closes /\ ~Mismatched => opened[ch] = Closes[kind]
      /\ \/ /\ wire' = wire \o <<head, body>>
            /\ peer' = [peer EXCEPT !.sent = @ + 1]
         \/ /\ Splits /\ wire' = Append(wire, head)
            /\ peer' = [peer EXCEPT !.sent = @ + 1, !.half = f]
      /\ UNCHANGED <<reader, beside, channels, outq, tasks, output, phase,
                     received, written, desynced>>

(* The rest of a frame that arrives in two parts.                          *)
BodyArrives ==
  /\ peer.half # NoFrame /\ ~peer.shut
  /\ wire' = Append(wire, [part |-> "body", frame |-> peer.half])
  /\ peer' = [peer EXCEPT !.half = NoFrame]
  /\ UNCHANGED <<reader, beside, channels, outq, tasks, output, phase,
                 received, written, desynced>>

PeerStops ==
  /\ \/ ~peer.shut /\ peer' = [peer EXCEPT !.shut = TRUE]
     \/ ~peer.gone /\ peer' = [peer EXCEPT !.shut = TRUE, !.gone = TRUE]
     \/ ~Reads /\ peer.reads /\ peer' = [peer EXCEPT !.reads = FALSE]
  /\ UNCHANGED <<wire, reader, beside, channels, outq, tasks, output, phase,
                 received, written, desynced>>

-----------------------------------------------------------------------------
(* read_frame, the branch of the reader's select.  A frame all there is    *)
(* read at once; otherwise its header is consumed and the read waits.      *)
Took(f) ==
  /\ pc' = IF Stream(f) THEN "route" ELSE "handle"
  /\ cur' = f
  /\ partial' = NoFrame
  /\ received' = IF Stream(f) THEN received ELSE received \cup {f.id}

ReadWhole ==
  /\ pc = "select" /\ partial = NoFrame /\ Len(wire) >= 2
  /\ wire[1].part = "head" /\ wire[2].part = "body"
  /\ Took(wire[1].frame)
  /\ wire' = SubSeq(wire, 3, Len(wire))
  /\ UNCHANGED <<peer, beside, channels, outq, tasks, output, phase,
                 written, desynced>>

ReadHead ==
  /\ pc = "select" /\ partial = NoFrame /\ Len(wire) = 1 /\ wire[1].part = "head"
  /\ partial' = wire[1].frame
  /\ wire' = << >>
  /\ UNCHANGED <<peer, pc, cur, beside, channels, outq, tasks, output, phase,
                 received, written, desynced>>

ReadBody ==
  /\ pc = "select" /\ partial # NoFrame /\ wire # << >>
  /\ Took(partial)
  /\ wire' = Tail(wire)
  /\ UNCHANGED <<peer, beside, channels, outq, tasks, output, phase,
                 written, desynced>>

(* Bytes of a body taken for a header: the length is too large, which ends *)
(* the connection, or the bytes that follow are swallowed up to it.        *)
ReadJunk ==
  /\ pc = "select" /\ partial = NoFrame /\ wire # << >> /\ wire[1].part = "body"
  /\ desynced' = TRUE
  /\ pc' \in {"select", "cancel"}
  /\ wire' = << >>
  /\ UNCHANGED <<peer, cur, partial, beside, channels, outq, tasks, output,
                 phase, received, written>>

ReadEof ==
  /\ pc = "select" /\ wire = << >> /\ peer.shut
  /\ pc' = "cancel"
  /\ UNCHANGED <<peer, wire, cur, partial, beside, channels, outq, tasks,
                 output, phase, received, written, desynced>>

(* The other branches: a forward's open has ended, or shutdown.  Either    *)
(* drops the pending read_frame, with the header it had consumed.          *)
BesideJoined ==
  /\ pc = "select"
  /\ \E r \in DOMAIN beside :
       /\ beside[r] = "done"
       /\ beside' = [q \in DOMAIN beside \ {r} |-> beside[q]]
  /\ partial' = NoFrame
  /\ UNCHANGED <<peer, wire, pc, cur, channels, outq, tasks, output, phase,
                 received, written, desynced>>

ShutdownSeen ==
  /\ pc = "select" /\ phase \in {"stopping", "over"}
  /\ pc' = "cancel"
  /\ UNCHANGED <<peer, wire, cur, partial, beside, channels, outq, tasks,
                 output, phase, received, written, desynced>>

-----------------------------------------------------------------------------
(* handle_on_connection.  An open of a forward is spawned beside the loop. *)
HandleForward ==
  /\ pc = "handle" /\ cur.kind = "forward"
  /\ beside' = [r \in DOMAIN beside \cup {cur.id} |->
                  IF r = cur.id THEN "check" ELSE beside[r]]
  /\ pc' = "select"
  /\ UNCHANGED <<peer, wire, cur, partial, channels, outq, tasks, output,
                 phase, received, written, desynced>>

(* openSftp, attachSession and exec with attach run in the reader's task:  *)
(* the channel opens, its pump runs, its sink and closer are registered.   *)
(* Or the open is refused, in any case once the shutdown is announced.     *)
Admits == phase \in {"serving", "requested"}
Opens(ch, kind) ==
  /\ opened' = [opened EXCEPT ![ch] = kind]
  /\ entries' = entries \cup {ch}
  /\ pumps' = pumps \cup {ch}

HandleOpen ==
  /\ pc = "handle" /\ cur.kind \in {"sftp", "attach", "exec"}
  /\ \/ /\ Admits
        /\ Opens(cur.id, cur.kind)
        /\ closers' = closers \cup {cur.id}
        /\ sinks' = IF cur.kind = "sftp" THEN sinks \cup {cur.id} ELSE sinks
     \/ UNCHANGED <<opened, entries, pumps, closers, sinks>>
  /\ pc' = "reply"
  /\ UNCHANGED <<peer, wire, cur, partial, beside, inbound, killed, outq,
                 tasks, output, phase, received, written, desynced>>

(* closeForward, closeSftp, detachSession: the runtime of that kind closes *)
(* the channel if it has it; the connection forgets its sink and closer.   *)
(* They too are refused once the shutdown is announced.                    *)
HandleClose ==
  /\ pc = "handle" /\ cur.kind \in DOMAIN Closes
  /\ IF Admits
     THEN /\ LET chs == {c \in {cur.ch} : opened[c] = Closes[cur.kind]}
             IN  entries' = entries \ chs /\ pumps' = pumps \ chs
          /\ sinks' = sinks \ {cur.ch}
          /\ closers' = closers \ {cur.ch}
     ELSE UNCHANGED <<entries, pumps, sinks, closers>>
  /\ pc' = "reply"
  /\ UNCHANGED <<peer, wire, cur, partial, opened, beside, inbound, killed, 
                 outq, tasks, output, phase, received, written, desynced>>

(* Any other command; the shutdown command requests the shutdown.          *)
HandlePlain ==
  /\ pc = "handle" /\ cur.kind \in {"plain", "shutdown"}
  /\ phase' = IF cur.kind = "shutdown" /\ phase = "serving" THEN "requested" ELSE phase
  /\ pc' = "reply"
  /\ UNCHANGED <<peer, wire, cur, partial, beside, channels, outq, tasks,
                 output, received, written, desynced>>

(* Mutation: the outbound queue is unbounded.                              *)
RoomAlways == TRUE

(* out_tx.send of the response waits for room; it fails without a writer.  *)
Room == Len(outq) < OutCapacity
Reply ==
  /\ pc = "reply"
  /\ \/ writer /\ Room /\ outq' = Append(outq, Response(cur.id)) /\ pc' = "select"
     \/ ~writer /\ pc' = "cancel" /\ UNCHANGED outq
  /\ UNCHANGED <<peer, wire, cur, partial, beside, channels, tasks, output,
                 phase, received, written, desynced>>

(* route_inbound_stream: the reader waits for room in the channel's queue; *)
(* a frame for a channel without a sink is dropped; an end deregisters.    *)
Route ==
  /\ pc = "route"
  /\ IF cur.ch \in sinks /\ cur.ch \in entries
     THEN inbound[cur.ch] < InCapacity /\ inbound' = [inbound EXCEPT ![cur.ch] = @ + 1]
     ELSE UNCHANGED inbound
  /\ sinks' = IF cur.kind = "end" THEN sinks \ {cur.ch} ELSE sinks
  /\ pc' = "select"
  /\ UNCHANGED <<peer, wire, cur, partial, opened, beside, entries, pumps, closers,
                 killed, outq, tasks, output, phase, received, written, desynced>>

-----------------------------------------------------------------------------
(* The task of a forward's open.  It is refused once the shutdown is       *)
(* announced; a dedicated forward stops the connection's events.  Then the *)
(* dial and, for a bound forward, the check of the owner: it opens, it     *)
(* fails, or it gives up because the connection closed.  Once it is open   *)
(* the pumps run and the map has the entry; then come the sink, the closer *)
(* and the response.                                                       *)
Beside(r, to) == beside' = [beside EXCEPT ![r] = to]

BesideCheck(r) ==
  /\ beside[r] = "check"
  /\ IF Admits THEN Beside(r, "dial") /\ stopEvents' \in {stopEvents, TRUE}
     ELSE Beside(r, "reply") /\ UNCHANGED stopEvents
  /\ UNCHANGED <<peer, wire, reader, channels, outq, writer, forwarder,
                 output, phase, received, written, desynced>>

BesideDial(r) ==
  /\ beside[r] = "dial"
  /\ \/ Opens(r, "forward") /\ Beside(r, "sink")
     \/ Beside(r, "reply") /\ UNCHANGED <<opened, entries, pumps>>
  /\ UNCHANGED <<peer, wire, reader, sinks, closers, inbound, killed, outq,
                 tasks, output, phase, received, written, desynced>>

BesideSink(r) ==
  /\ beside[r] = "sink" /\ Beside(r, "closer")
  /\ sinks' = sinks \cup {r}
  /\ UNCHANGED <<peer, wire, reader, opened, entries, pumps, closers, inbound, killed,
                 outq, tasks, output, phase, received, written, desynced>>

BesideCloser(r) ==
  /\ beside[r] = "closer" /\ Beside(r, "reply")
  /\ closers' = closers \cup {r}
  /\ UNCHANGED <<peer, wire, reader, opened, entries, pumps, sinks, inbound, killed,
                 outq, tasks, output, phase, received, written, desynced>>

BesideReply(r) ==
  /\ beside[r] = "reply" /\ Beside(r, "done")
  /\ \/ writer /\ Room /\ outq' = Append(outq, Response(r))
     \/ ~writer /\ UNCHANGED outq
  /\ UNCHANGED <<peer, wire, reader, channels, tasks, output, phase,
                 received, written, desynced>>

(* A pump forwards what the far end sends, and ends with it; the map entry *)
(* of an exec goes when its process is gone and its output is at its end.  *)
PumpData(ch) ==
  /\ ch \in pumps /\ output < MaxOutput /\ writer /\ Room
  /\ outq' = Append(outq, Frame(ch)) /\ output' = output + 1
  /\ UNCHANGED <<peer, wire, reader, beside, channels, tasks, phase,
                 received, written, desynced>>

PumpEnds(ch) ==
  /\ ch \in pumps /\ (Room \/ ~writer)
  /\ pumps' = pumps \ {ch}
  /\ entries' = IF opened[ch] = "exec" THEN entries \ {ch} ELSE entries
  /\ outq' = IF writer THEN Append(outq, Frame(ch)) ELSE outq
  /\ UNCHANGED <<peer, wire, reader, opened, beside, sinks, closers, inbound, killed,
                 tasks, output, phase, received, written, desynced>>

(* The far end takes a frame from the channel's inbound queue.             *)
PumpInbound(ch) ==
  /\ inbound[ch] > 0
  /\ inbound' = [inbound EXCEPT ![ch] = @ - 1]
  /\ UNCHANGED <<peer, wire, reader, opened, beside, entries, pumps, sinks, closers,
                 killed, outq, tasks, output, phase, received, written, desynced>>

-----------------------------------------------------------------------------
(* The forwarder queues an event, or stops when told to.                   *)
ForwardEvent ==
  /\ forwarder /\ ~stopEvents /\ output < MaxOutput /\ writer /\ Room
  /\ outq' = Append(outq, [type |-> "event", id |-> 0]) /\ output' = output + 1
  /\ UNCHANGED <<peer, wire, reader, beside, channels, tasks, phase,
                 received, written, desynced>>

ForwarderStops ==
  /\ forwarder /\ (stopEvents \/ ~writer)
  /\ forwarder' = FALSE
  /\ UNCHANGED <<peer, wire, reader, beside, channels, outq, writer,
                 stopEvents, output, phase, received, written, desynced>>

(* The writer writes, fails when the peer is gone, and ends when the queue *)
(* is empty and no sender is left.                                         *)
Write ==
  /\ writer /\ outq # << >>
  /\ IF peer.gone
     THEN writer' = FALSE /\ outq' = << >> /\ UNCHANGED written
     ELSE /\ peer.reads
          /\ outq' = Tail(outq)
          /\ written' = IF Head(outq).type = "response"
                        THEN Append(written, Head(outq).id) ELSE written
          /\ UNCHANGED writer
  /\ UNCHANGED <<peer, wire, reader, beside, channels, forwarder, stopEvents,
                 output, phase, received, desynced>>

(* Mutation: handle_connection keeps a sender of its own.                  *)
SendersLeaked == TRUE

Senders == pumps # {} \/ forwarder \/ beside # << >> \/ pc \notin {"await", "done"}
WriterEnds ==
  /\ writer /\ outq = << >> /\ ~Senders
  /\ writer' = FALSE
  /\ UNCHANGED <<peer, wire, reader, beside, channels, outq, forwarder,
                 stopEvents, output, phase, received, written, desynced>>

-----------------------------------------------------------------------------
(* The teardown: cancel what runs beside, join it, run the closers, clear  *)
(* the sinks, abort the forwarder, wait for the writer.  The cancellation  *)
(* makes a dial give up, which it may do at any time.                      *)
Cancel ==
  /\ pc = "cancel" /\ pc' = "join"
  /\ UNCHANGED <<peer, wire, cur, partial, beside, channels, outq, tasks, output,
                 phase, received, written, desynced>>

(* Mutation: opens under way are not waited for.                           *)
JoinNothing ==
  /\ pc = "join" /\ pc' = "close"
  /\ UNCHANGED <<peer, wire, cur, partial, beside, channels, outq, tasks, output,
                 phase, received, written, desynced>>

Join ==
  /\ pc = "join" /\ \A r \in DOMAIN beside : beside[r] = "done"
  /\ pc' = "close"
  /\ beside' = << >>
  /\ UNCHANGED <<peer, wire, cur, partial, channels, outq, tasks, output,
                 phase, received, written, desynced>>

(* The closer of an exec kills its process group; any other aborts the     *)
(* channel's pumps and reaps its map entry.                                *)
RunClosers ==
  /\ pc = "close" /\ pc' = "await"
  /\ LET execs == {c \in closers : opened[c] = "exec"}
     IN  /\ entries' = entries \ (closers \ execs)
         /\ pumps' = pumps \ (closers \ execs)
         /\ killed' = killed \cup execs
  /\ closers' = {} /\ sinks' = {}
  /\ forwarder' = FALSE
  /\ UNCHANGED <<peer, wire, cur, partial, opened, beside, inbound, outq,
                 writer, stopEvents, output, phase, received, written, desynced>>

(* Mutation: the writer is not waited for.                                 *)
WriterDetached == TRUE

WriterJoined == ~writer

Finish ==
  /\ pc = "await" /\ WriterJoined
  /\ pc' = "done"
  /\ UNCHANGED <<peer, wire, cur, partial, beside, channels, outq, tasks,
                 output, phase, received, written, desynced>>

(* The daemon: a signal or the shutdown command, begin_shutdown, the       *)
(* serve signal, and the end of serve_unix's grace, which aborts.          *)
Daemon ==
  /\ \/ phase = "serving" /\ phase' = "requested" /\ UNCHANGED <<pc, beside>>
     \/ phase = "requested" /\ phase' = "announced" /\ UNCHANGED <<pc, beside>>
     \/ phase = "announced" /\ phase' = "stopping" /\ UNCHANGED <<pc, beside>>
     \/ /\ phase = "stopping" /\ phase' = "over"
        /\ pc' = IF pc = "done" THEN "done" ELSE "aborted"
        /\ beside' = << >>
  /\ UNCHANGED <<peer, wire, cur, partial, channels, outq, tasks,
                 output, received, written, desynced>>

-----------------------------------------------------------------------------
PeerActs ==
  \/ \E kind \in Kinds, ch \in 0..MaxFrames : PeerSends(kind, ch)
  \/ BodyArrives \/ PeerStops
Read == ReadWhole \/ ReadHead \/ ReadBody \/ ReadJunk \/ ReadEof
Handle == HandleForward \/ HandleOpen \/ HandleClose \/ HandlePlain \/ Reply \/ Route
BesideStep(r) == r \in DOMAIN beside /\
  (BesideCheck(r) \/ BesideDial(r) \/ BesideSink(r) \/ BesideCloser(r) \/ BesideReply(r))
Teardown == Cancel \/ Join \/ RunClosers \/ Finish

Next ==
  \/ PeerActs
  \/ Read \/ BesideJoined \/ ShutdownSeen \/ Handle \/ Teardown
  \/ \E r \in Ids : BesideStep(r) \/ PumpData(r) \/ PumpEnds(r) \/ PumpInbound(r)
  \/ ForwardEvent \/ ForwarderStops \/ Write \/ WriterEnds
  \/ Daemon

Spec == Init /\ [][Next]_vars

(* Every task is polled.  A dial and a check end by their deadline; far    *)
(* ends take what they are sent; the output of a killed exec ends, unless  *)
(* a descendant that left its process group keeps it open.                 *)
Fairness ==
  /\ WF_vars(Read \/ ShutdownSeen) /\ WF_vars(BesideJoined)
  /\ WF_vars(Handle) /\ WF_vars(Teardown)
  /\ WF_vars(ForwarderStops) /\ WF_vars(Write) /\ WF_vars(WriterEnds)
  /\ \A r \in Ids :
       /\ SF_vars(BesideStep(r)) /\ WF_vars(PumpInbound(r))
       /\ SF_vars(~Escapes /\ r \in killed /\ PumpEnds(r))

FairSpec == Spec /\ Fairness

-----------------------------------------------------------------------------
TypeOK ==
  /\ pc \in {"select", "handle", "route", "reply", "cancel", "join", "close",
             "await", "done", "aborted"}
  /\ phase \in {"serving", "requested", "announced", "stopping", "over"}
  /\ DOMAIN beside \subseteq Ids
  /\ \A r \in DOMAIN beside :
       beside[r] \in {"check", "dial", "sink", "closer", "reply", "done"}
  /\ entries \subseteq Ids /\ pumps \subseteq entries
  /\ sinks \subseteq Ids /\ closers \subseteq Ids /\ killed \subseteq Ids
  /\ inbound \in [Ids -> 0..InCapacity]
  /\ Len(outq) <= OutCapacity
  /\ {writer, forwarder, stopEvents, desynced} \subseteq BOOLEAN
  /\ output \in 0..MaxOutput /\ received \subseteq Ids /\ Told \subseteq Ids

(* Channels are connection-scoped (handle_connection, server.rs): once the *)
(* closers have run no forward, sftp bridge or attach of the connection is *)
(* left, whatever opens were still under way when it closed, and every     *)
(* attached exec has been killed.                                          *)
NoChannelOutlives ==
  pc \in {"await", "done"} =>
    \A c \in entries : opened[c] = "exec" /\ c \in killed

(* Every request gets exactly one response (ControlService, service.rs),   *)
(* and it has been written before the connection ends, so a shutdown that  *)
(* does not outlast its grace cannot swallow the reply to the command that *)
(* asked for it (serve_unix, server.rs).                                   *)
EveryRequestAnswered ==
  /\ \A i, j \in DOMAIN written : written[i] = written[j] => i = j
  /\ Told \subseteq received
  /\ pc = "done" /\ ~peer.gone => received \subseteq Told

(* The reader keeps "reading the connection's other frames" while a        *)
(* forward opens beside it (server.rs): it never loses its place between   *)
(* frames.                                                                 *)
NeverDesynced == ~desynced

(* A connection whose peer closed ends, so that its task, its sockets and, *)
(* for a WSS connection, its permit are released; a shutdown ends it too.  *)
ConnectionEnds == (peer.shut \/ phase = "stopping") ~> pc \in Ended
===============================================================================
