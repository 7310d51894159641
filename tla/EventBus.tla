-------------------------------- MODULE EventBus --------------------------------
(***************************************************************************)
(* The runtime's event bus (crates/sealant-telemetry/src/bus.rs): the one  *)
(* point that assigns sequences, the bounded submit queue, the delivery    *)
(* task that spools and broadcasts, the inline delivery of critical events *)
(* under pressure, the periodic ack, the replay after a restart, and the   *)
(* broadcast subscribers of the control connections.                       *)
(*                                                                         *)
(* Publishers are threads; publish is not atomic: the sequence is taken,   *)
(* then the event is submitted, and an inline delivery is three further    *)
(* steps (append under the spool's lock, send, fetch_max).                 *)
(*                                                                         *)
(* Abstractions: a record has size 1, so SegmentBytes and DiskLimit count  *)
(* records; Spool.tla has the bytes, the files and the syncs.              *)
(***************************************************************************)
EXTENDS SpoolOps, FiniteSets, SequencesExt

CONSTANTS
  Publishers,    \* threads that publish
  Task,          \* the delivery task
  Subscribers,   \* control connections' event receivers
  Modes,         \* which buses to consider: TRUE durable, FALSE direct
  AppendFails,   \* a spool append may fail
  Capacity,      \* limits.event_queue_capacity: the submit queue
  RingSize,      \* the broadcast channel's buffer (external: tokio)
  MaxSeq,        \* bound: no publish takes a sequence of this or more
  MaxBoots       \* bound: incarnations of the daemon

ASSUME BusConstants ==
  /\ Task \notin Publishers
  /\ Modes \subseteq BOOLEAN /\ AppendFails \in BOOLEAN
  /\ Capacity \in Nat \ {0} /\ RingSize \in Nat \ {0}
  /\ MaxSeq \in Nat /\ MaxBoots \in Nat \ {0}

VARIABLES
  durable,     \* Delivery::Durable, else Delivery::Direct: chosen at boot
  boot,        \* which incarnation (its RuntimeId)
  sequence,    \* EventBus.sequence: the next sequence
  queue,       \* the mpsc submit queue
  hand,        \* per publisher and the task: where it is, with which event
  highWater,   \* Durable.high_water
  drops,       \* DropCounters low + normal
  lastDrops,   \* run_delivery's last_drops
  segments,    \* the spool's segments, each with the events it holds
  nextIndex,   \* the spool's next_index
  replayAt,    \* replay_spool: the segment and the record it is at
  sent,        \* everything broadcast in this boot, in order
  cursor,      \* per subscriber: how much of sent it has passed; -1 detached
  \* What happened, for the properties:
  dropped,     \* events of this boot that publish dropped
  everSent,    \* events broadcast in any boot
  unspooled,   \* events the spool evicted, or whose append failed
  spilled,     \* events that were delivered inline
  acked        \* events in segments an ack deleted

spool == <<segments, nextIndex>>
history == <<dropped, everSent, unspooled, spilled, acked>>
vars == <<durable, boot, sequence, queue, hand, highWater, drops, lastDrops, spool,
          replayAt, sent, cursor, history>>

Actors == Publishers \cup {Task}
Priorities == {"critical", "normal"}   \* low events are treated as normal ones
Event == [boot : Nat \ {0}, seq : Nat, prio : Priorities, report : BOOLEAN]
None == [boot |-> 0, seq |-> 0, prio |-> "normal", report |-> FALSE]
Idle == [pc |-> "idle", ev |-> None]
At(pc, ev) == [pc |-> pc, ev |-> ev]
PublisherPcs == {"idle", "built", "append", "send", "mark"}
Holding == {"built", "append", "send"}
TaskPcs == {"replay", "idle", "append", "send", "mark", "report"}

ReplayStart == [seg |-> 1, rec |-> 1]

(* Between boots only the spool survives.                                  *)
Started ==
  [a \in Actors |-> IF a = Task /\ durable THEN At("replay", None) ELSE Idle]

Init ==
  /\ durable \in Modes
  /\ boot = 1 /\ sequence = 0 /\ queue = << >> /\ hand = Started
  /\ highWater = 0 /\ drops = 0 /\ lastDrops = 0
  /\ segments = << >> /\ nextIndex = 0 /\ replayAt = ReplayStart
  /\ sent = << >> /\ cursor = [s \in Subscribers |-> -1]
  /\ dropped = {} /\ everSent = {} /\ unspooled = {} /\ spilled = {}
  /\ acked = {}

-----------------------------------------------------------------------------
(* Mutation: the sequence is read, and not advanced, by a publish.         *)
SequenceKept == sequence

(* fetch_add(1).                                                           *)
SequenceAdvanced == sequence + 1

(* publish, first half: build_envelope takes the next sequence.            *)
Build(p, prio) ==
  /\ hand[p].pc = "idle" /\ sequence < MaxSeq
  /\ hand' = [hand EXCEPT ![p] =
       At("built", [boot |-> boot, seq |-> sequence, prio |-> prio, report |-> FALSE])]
  /\ sequence' = SequenceAdvanced
  /\ UNCHANGED <<durable, boot, replayAt, queue, highWater, drops, lastDrops, spool, sent, cursor, history>>

(* Mutation: an event without a subscriber is not sent, nor counted.       *)
SubmitToSomeone(p) ==
  /\ hand[p].pc = "built" /\ ~durable
  /\ hand' = [hand EXCEPT ![p] = Idle]
  /\ IF \E s \in Subscribers : cursor[s] >= 0
     THEN sent' = Append(sent, hand[p].ev) /\ everSent' = everSent \cup {hand[p].ev}
     ELSE UNCHANGED <<sent, everSent>>
  /\ UNCHANGED <<durable, boot, replayAt, sequence, queue, highWater, drops, lastDrops, spool, cursor,
                 dropped, unspooled, spilled, acked>>

(* publish, second half on a direct bus: broadcast at once.                *)
SubmitDirect(p) ==
  /\ hand[p].pc = "built" /\ ~durable
  /\ hand' = [hand EXCEPT ![p] = Idle]
  /\ sent' = Append(sent, hand[p].ev)
  /\ everSent' = everSent \cup {hand[p].ev}
  /\ UNCHANGED <<durable, boot, replayAt, sequence, queue, highWater, drops, lastDrops, spool, cursor,
                 dropped, unspooled, spilled, acked>>

(* publish, second half on a durable bus: try_send finds room.             *)
SubmitQueued(p) ==
  /\ hand[p].pc = "built" /\ durable /\ Len(queue) < Capacity
  /\ hand' = [hand EXCEPT ![p] = Idle]
  /\ queue' = Append(queue, hand[p].ev)
  /\ UNCHANGED <<durable, boot, replayAt, sequence, highWater, drops, lastDrops, spool, sent, cursor, history>>

(* Mutation: every event is dropped when the queue is full.                *)
DropsAny(ev) == TRUE

DropsWhenFull(ev) == ev.prio # "critical"

(* The queue is full: a critical event is delivered inline, any other is   *)
(* dropped and counted.                                                    *)
SubmitFull(p) ==
  /\ hand[p].pc = "built" /\ durable /\ Len(queue) >= Capacity
  /\ IF ~DropsWhenFull(hand[p].ev)
     THEN /\ hand' = [hand EXCEPT ![p] = At("append", hand[p].ev)]
          /\ spilled' = spilled \cup {hand[p].ev}
          /\ UNCHANGED <<drops, dropped>>
     ELSE /\ hand' = [hand EXCEPT ![p] = Idle]
          /\ drops' = drops + 1
          /\ dropped' = dropped \cup {hand[p].ev}
          /\ UNCHANGED spilled
  /\ UNCHANGED <<durable, boot, replayAt, sequence, queue, highWater, lastDrops, spool, sent, cursor,
                 everSent, unspooled, acked>>

-----------------------------------------------------------------------------
(* deliver_durable, by the delivery task or inline by a publisher: append  *)
(* under the spool's lock, broadcast, raise the high-water mark.           *)
EventsIn(segs) == UNION {ToSet(segs[n].events) : n \in DOMAIN segs}
Held(segs) == BytesOfFirst(segs, Len(segs))

Room(k) ==
  LET left == DropFirst(segments, k)
  IN  IF NeedsNewSegment(left, 1)
      THEN Append(left, [index |-> nextIndex, maxSequence |-> 0, bytes |-> 0, events |-> << >>])
      ELSE left
Grown(segment, ev) ==
  [segment EXCEPT !.events = Append(@, ev), !.bytes = @ + 1,
                  !.maxSequence = IF @ > ev.seq THEN @ ELSE ev.seq]

SpoolAppend(ev, k) ==
  /\ Evicts(segments, Held(segments), 1, k)
  /\ segments' = [Room(k) EXCEPT ![Len(Room(k))] = Grown(@, ev)]
  /\ nextIndex' = IF NeedsNewSegment(DropFirst(segments, k), 1)
                  THEN nextIndex + 1 ELSE nextIndex
  /\ unspooled' = unspooled \cup EventsIn(SubSeq(segments, 1, k))

(* The replay holds the spool's lock.                                      *)
SpoolLocked == replayAt # ReplayStart

(* Mutation: the event is broadcast without having been spooled.           *)
DeliverUnspooled(a) ==
  /\ hand[a].pc = "append" /\ ~SpoolLocked
  /\ hand' = [hand EXCEPT ![a] = At("send", hand[a].ev)]
  /\ UNCHANGED <<durable, boot, replayAt, sequence, queue, highWater, drops, lastDrops, spool, sent,
                 cursor, history>>

DeliverAppend(a) ==
  /\ hand[a].pc = "append" /\ ~SpoolLocked
  /\ \/ \E k \in 0..Len(segments) : SpoolAppend(hand[a].ev, k)
     \/ /\ AppendFails
        /\ unspooled' = unspooled \cup {hand[a].ev}
        /\ UNCHANGED spool
  /\ hand' = [hand EXCEPT ![a] = At("send", hand[a].ev)]
  /\ UNCHANGED <<durable, boot, replayAt, sequence, queue, highWater, drops, lastDrops, sent, cursor,
                 dropped, everSent, spilled, acked>>

DeliverSend(a) ==
  /\ hand[a].pc = "send"
  /\ sent' = Append(sent, hand[a].ev)
  /\ everSent' = everSent \cup {hand[a].ev}
  /\ hand' = [hand EXCEPT ![a] = At("mark", hand[a].ev)]
  /\ UNCHANGED <<durable, boot, replayAt, sequence, queue, highWater, drops, lastDrops, spool, cursor,
                 dropped, unspooled, spilled, acked>>

DeliverMark(a) ==
  /\ hand[a].pc = "mark"
  /\ highWater' = IF highWater > hand[a].ev.seq THEN highWater ELSE hand[a].ev.seq
  /\ hand' = [hand EXCEPT ![a] = Idle]
  /\ UNCHANGED <<durable, boot, replayAt, sequence, queue, drops, lastDrops, spool, sent, cursor, history>>

-----------------------------------------------------------------------------
(* The delivery task.  It first replays what the spool holds: record by    *)
(* record it raises the high-water mark and broadcasts again, holding the  *)
(* spool's lock; then it acks.                                             *)
AckUpTo(mark) ==
  \E k \in 0..Len(segments) :
    /\ AckDeletes(segments, mark, k)
    /\ segments' = DropFirst(segments, k)
    /\ acked' = acked \cup EventsIn(SubSeq(segments, 1, k))

ReplayRecord ==
  /\ hand[Task].pc = "replay" /\ replayAt.seg \in DOMAIN segments
  /\ LET events == segments[replayAt.seg].events
         ev == events[replayAt.rec]
     IN  /\ replayAt.rec \in DOMAIN events
         /\ highWater' = IF highWater > ev.seq THEN highWater ELSE ev.seq
         /\ sent' = Append(sent, ev)
         /\ everSent' = everSent \cup {ev}
         /\ replayAt' = IF replayAt.rec < Len(events)
                        THEN [replayAt EXCEPT !.rec = @ + 1]
                        ELSE [seg |-> replayAt.seg + 1, rec |-> 1]
  /\ UNCHANGED <<durable, boot, sequence, queue, hand, drops, lastDrops, spool, cursor,
                 dropped, unspooled, spilled, acked>>

(* Mutation: the last segment, the active one, is not replayed.            *)
ReplayedButActive == replayAt.seg >= Len(segments)

Replayed == replayAt.seg > Len(segments)

ReplayEnd ==
  /\ hand[Task].pc = "replay" /\ Replayed
  /\ AckUpTo(highWater)
  /\ hand' = [hand EXCEPT ![Task] = Idle]
  /\ replayAt' = ReplayStart
  /\ UNCHANGED <<durable, boot, sequence, queue, highWater, drops, lastDrops, nextIndex, sent,
                 cursor, dropped, everSent, unspooled, spilled>>

Replay == ReplayRecord \/ ReplayEnd

(* Mutation: an event is delivered and stays in the queue.                 *)
RecvKeeps ==
  /\ durable /\ hand[Task].pc = "idle" /\ queue # << >>
  /\ hand' = [hand EXCEPT ![Task] = At("append", Head(queue))]
  /\ UNCHANGED <<durable, boot, replayAt, sequence, queue, highWater, drops, lastDrops, spool, sent,
                 cursor, history>>

(* Mutation: an event that was received is not delivered.                  *)
RecvForgets ==
  /\ durable /\ hand[Task].pc = "idle" /\ queue # << >>
  /\ queue' = Tail(queue)
  /\ UNCHANGED <<durable, boot, replayAt, sequence, hand, highWater, drops, lastDrops, spool, sent,
                 cursor, history>>

Recv ==
  /\ durable /\ hand[Task].pc = "idle" /\ queue # << >>
  /\ hand' = [hand EXCEPT ![Task] = At("append", Head(queue))]
  /\ queue' = Tail(queue)
  /\ UNCHANGED <<durable, boot, replayAt, sequence, highWater, drops, lastDrops, spool, sent, cursor, history>>

(* The flush tick: ack what has been broadcast, by the high-water mark.    *)
Tick ==
  /\ durable /\ hand[Task].pc = "idle"
  /\ AckUpTo(highWater)
  /\ hand' = [hand EXCEPT ![Task] = At("report", None)]
  /\ UNCHANGED <<durable, boot, replayAt, sequence, queue, highWater, drops, lastDrops, nextIndex, sent,
                 cursor, dropped, everSent, unspooled, spilled>>

(* Mutation: a single drop is not reported.                                *)
UnreportedOffByOne == drops > lastDrops + 1

Unreported == drops > lastDrops

(* Mutation: last_drops accumulates totals.                                *)
ReportedTwice == lastDrops + drops

ReportedUpTo == drops

(* ... and report the drops since the last report, if any, straight to the *)
(* broadcast channel (emit_drop_report).                                   *)
Report ==
  /\ hand[Task].pc = "report"
  /\ hand' = [hand EXCEPT ![Task] = Idle]
  /\ IF Unreported
     THEN LET ev == [boot |-> boot, seq |-> sequence, prio |-> "critical", report |-> TRUE]
          IN  /\ sequence' = sequence + 1
              /\ lastDrops' = ReportedUpTo
              /\ sent' = Append(sent, ev)
              /\ everSent' = everSent \cup {ev}
     ELSE UNCHANGED <<sequence, lastDrops, sent, everSent>>
  /\ UNCHANGED <<durable, boot, replayAt, queue, highWater, drops, spool, cursor,
                 dropped, unspooled, spilled, acked>>

-----------------------------------------------------------------------------
(* A control connection subscribes from the current tail, receives the     *)
(* next event, or is told it lagged: what fell out of the ring is skipped  *)
(* (external: tokio's broadcast channel; forwarder in server.rs).          *)
Subscribe(s) ==
  /\ cursor[s] = -1
  /\ cursor' = [cursor EXCEPT ![s] = Len(sent)]
  /\ UNCHANGED <<durable, boot, replayAt, sequence, queue, hand, highWater, drops, lastDrops, spool,
                 sent, history>>

Receive(s) ==
  /\ cursor[s] >= 0 /\ cursor[s] < Len(sent)
  /\ IF Len(sent) - cursor[s] > RingSize
     THEN cursor' = [cursor EXCEPT ![s] = Len(sent) - RingSize]
     ELSE cursor' = [cursor EXCEPT ![s] = @ + 1]
  /\ UNCHANGED <<durable, boot, replayAt, sequence, queue, hand, highWater, drops, lastDrops, spool,
                 sent, dropped, everSent, unspooled, spilled, acked>>

Disconnect(s) ==
  /\ cursor[s] >= 0
  /\ cursor' = [cursor EXCEPT ![s] = -1]
  /\ UNCHANGED <<durable, boot, replayAt, sequence, queue, hand, highWater, drops, lastDrops, spool,
                 sent, history>>

(* The daemon dies and starts again: a new RuntimeId, sequences from 0.    *)
Restart ==
  /\ boot < MaxBoots
  /\ boot' = boot + 1 /\ sequence' = 0 /\ queue' = << >> /\ hand' = Started
  /\ replayAt' = ReplayStart /\ highWater' = 0 /\ drops' = 0 /\ lastDrops' = 0
  /\ sent' = << >> /\ cursor' = [s \in Subscribers |-> -1]
  /\ dropped' = {}
  /\ UNCHANGED <<durable, spool, everSent, unspooled, spilled, acked>>

-----------------------------------------------------------------------------
Deliver(a) == DeliverAppend(a) \/ DeliverSend(a) \/ DeliverMark(a)
Submit(p) == SubmitDirect(p) \/ SubmitQueued(p) \/ SubmitFull(p)

Next ==
  \/ \E p \in Publishers :
       (\E prio \in Priorities : Build(p, prio)) \/ Submit(p)
  \/ \E a \in Actors : Deliver(a)
  \/ Replay \/ Recv \/ Tick \/ Report
  \/ \E s \in Subscribers : Subscribe(s) \/ Receive(s) \/ Disconnect(s)
  \/ Restart

Spec == Init /\ [][Next]_vars

(* The runtime's threads keep running: a publish that began ends, and the  *)
(* delivery task is polled; of its two ready branches select picks either, *)
(* at random, so neither is starved.                                       *)
Fairness ==
  /\ \A p \in Publishers : WF_vars(Submit(p)) /\ WF_vars(Deliver(p))
  /\ WF_vars(Replay) /\ WF_vars(Deliver(Task)) /\ WF_vars(Report)
  /\ SF_vars(Recv) /\ SF_vars(Tick)

FairSpec == Spec /\ Fairness

-----------------------------------------------------------------------------
Segment == [index : Nat, maxSequence : Nat, bytes : Nat, events : Seq(Event)]

TypeOK ==
  /\ durable \in BOOLEAN
  /\ boot \in 1..MaxBoots /\ sequence \in Nat
  /\ queue \in Seq(Event)
  /\ hand \in [Actors -> [pc : PublisherPcs \cup TaskPcs, ev : Event \cup {None}]]
  /\ \A a \in Actors :
       /\ hand[a].pc \in (IF a = Task THEN TaskPcs ELSE PublisherPcs)
       /\ hand[a].pc \in Holding \cup {"mark"} => hand[a].ev \in Event
  /\ highWater \in Nat /\ drops \in Nat /\ lastDrops \in 0..drops
  /\ segments \in Seq(Segment) /\ nextIndex \in Nat
  /\ replayAt \in [seg : Nat \ {0}, rec : Nat \ {0}]
  /\ sent \in Seq(Event)
  /\ cursor \in [Subscribers -> Int]
  /\ \A s \in Subscribers : cursor[s] \in -1..Len(sent)
  /\ dropped \subseteq Event /\ everSent \subseteq Event /\ unspooled \subseteq Event
  /\ spilled \subseteq Event /\ acked \subseteq Event

(* Where the event of this boot with sequence n can be.                    *)
InHand(a, n) == hand[a].pc \in Holding /\ hand[a].ev.seq = n
InQueue(i, n) == queue[i].seq = n
InSent(i, n) == sent[i].boot = boot /\ sent[i].seq = n

(* No event is lost silently while the daemon runs: every sequence that    *)
(* was assigned is in a publisher's or the task's hand, in the queue, was  *)
(* broadcast, or was dropped; the drop counters count every drop, and no   *)
(* critical event is dropped (publish_recorded, deliver_durable, bus.rs).  *)
NoSilentLoss ==
  /\ \A n \in 0..(sequence - 1) :
       \/ \E a \in Actors : InHand(a, n)
       \/ \E i \in DOMAIN queue : InQueue(i, n)
       \/ \E i \in DOMAIN sent : InSent(i, n)
       \/ \E ev \in dropped : ev.seq = n
  /\ Cardinality(dropped) = drops
  /\ \A ev \in dropped : ev.prio # "critical"

(* An event of this boot is broadcast at most once, and never after it was *)
(* counted as dropped: the queue and the task hand it on, never copy it.   *)
(* The exception is an inline delivery that the replay of the same boot    *)
(* finds in the spool and repeats.                                         *)
BroadcastOnce ==
  \A i \in DOMAIN sent : sent[i].boot = boot =>
    /\ \A j \in DOMAIN sent : sent[j] = sent[i] /\ j # i => sent[i] \in spilled
    /\ sent[i] \notin dropped

(* Write-ahead durability (deliver_durable): whatever was broadcast, drop  *)
(* reports aside, is in the spool until it is acked or evicted, across     *)
(* restarts; only an append that failed, which is logged, is an exception. *)
WriteAhead ==
  durable => {ev \in everSent : ~ev.report} \subseteq EventsIn(segments) \cup acked \cup unspooled

(* The tick's ack deletes only what has been broadcast, in this boot or by *)
(* the replay of a later one, as far as the delivery task's own events go: *)
(* the high-water mark of the replay, which is of another boot's           *)
(* sequences, does not let it delete an event between append and send.     *)
AckedQueuedWasSent == acked \ spilled \subseteq everSent

(* Every event a publisher put in the queue, or delivers inline, is        *)
(* broadcast, unless the daemon dies first.                                *)
QueuedIsSent ==
  \A n \in 0..(MaxSeq - 1), b \in 1..MaxBoots :
    (boot = b /\ \E i \in DOMAIN queue : queue[i].seq = n)
      ~> (boot # b \/ \E i \in DOMAIN sent : InSent(i, n))

(* What was spooled and not broadcast when the daemon died is broadcast by *)
(* the replay of the next boot: nothing stays in the spool unsent.         *)
SpooledIsSent ==
  \A ev \in [boot : 1..MaxBoots, seq : 0..(MaxSeq - 1), prio : Priorities, report : {FALSE}] :
    (ev \in EventsIn(segments)) ~> (ev \in everSent \cup unspooled \cup acked)

(* Every drop is reported, in a later telemetry.dropped event, unless the  *)
(* daemon dies first (run_delivery's tick).                                *)
DropsAreReported ==
  \A n \in 1..MaxSeq, b \in 1..MaxBoots :
    (boot = b /\ drops >= n) ~> (boot # b \/ lastDrops >= n)

(* The bus keeps what it promises of every event it took, over restarts:   *)
(* write-ahead, once, and acknowledged only when broadcast                 *)
(* (publish_recorded, run_delivery, ack, bus.rs).                          *)
BusKeeps == BroadcastOnce /\ AckedQueuedWasSent /\ WriteAhead

(* What the bus took is broadcast, and a drop reported, in the end         *)
(* (run_delivery, replay_spool, emit_drop_report, bus.rs).                 *)
BusDelivers == SpooledIsSent /\ QueuedIsSent /\ DropsAreReported
===============================================================================
