---------------------------- MODULE EventBusProofs ----------------------------
(***************************************************************************)
(* Proofs about EventBus, for every set of publishers and subscribers,     *)
(* every capacity and every number of boots: the type invariant, that no   *)
(* event is lost silently while the daemon runs, that what was broadcast   *)
(* is in the spool first, that an ack deletes only what was broadcast, and *)
(* that nothing is broadcast twice.                                        *)
(***************************************************************************)
EXTENDS EventBus, SequenceTheorems, FiniteSetTheorems, TLAPS

(* What is left of a sequence when its head is taken.                      *)
LEMMA TailFacts ==
  ASSUME NEW S, NEW s \in Seq(S), s # << >>
  PROVE  /\ Tail(s) \in Seq(S) /\ Head(s) \in S /\ Len(Tail(s)) = Len(s) - 1
         /\ \A i \in 1..(Len(s) - 1) : Tail(s)[i] = s[i + 1]
  OBVIOUS

(* What a sequence is with one more element.                               *)
LEMMA AppendFacts ==
  ASSUME NEW S, NEW s \in Seq(S), NEW e \in S
  PROVE  /\ Append(s, e) \in Seq(S) /\ Len(Append(s, e)) = Len(s) + 1
         /\ \A i \in 1..Len(s) : Append(s, e)[i] = s[i]
         /\ Append(s, e)[Len(s) + 1] = e
  OBVIOUS

(* Cutting segments off the front, or off the end, leaves segments.        *)
LEMMA CutFacts ==
  ASSUME NEW segs \in Seq(Segment), NEW k \in 0..Len(segs)
  PROVE  DropFirst(segs, k) \in Seq(Segment) /\ SubSeq(segs, 1, k) \in Seq(Segment)
  BY DEF DropFirst

(* What segments hold are events.                                          *)
LEMMA EventsAreEvents ==
  ASSUME NEW segs \in Seq(Segment)
  PROVE  EventsIn(segs) \subseteq Event
<1> SUFFICES ASSUME NEW n \in DOMAIN segs, NEW e \in ToSet(segs[n].events) PROVE e \in Event
  BY DEF EventsIn
<1>1. segs[n] \in Segment
  OBVIOUS
<1>2. segs[n].events \in Seq(Event)
  BY <1>1 DEF Segment
<1>3. QED
  BY <1>2 DEF ToSet

-----------------------------------------------------------------------------
(* What an append to the spool changes keeps its type.                     *)
LEMMA SpoolAppendType ==
  ASSUME TypeOK, NEW ev \in Event, NEW k \in 0..Len(segments), SpoolAppend(ev, k)
  PROVE  segments' \in Seq(Segment) /\ nextIndex' \in Nat /\ unspooled' \subseteq Event
<1> DEFINE last == Room(k)[Len(Room(k))]
<1>1. DropFirst(segments, k) \in Seq(Segment) /\ SubSeq(segments, 1, k) \in Seq(Segment)
  BY CutFacts DEF TypeOK
<1>2. [index |-> nextIndex, maxSequence |-> 0, bytes |-> 0, events |-> << >>] \in Segment
  BY DEF TypeOK, Segment
<1>3. Room(k) \in Seq(Segment) /\ Room(k) # << >>
  BY <1>1, <1>2 DEF NeedsNewSegment, Room
<1>4. last \in Segment
  BY <1>3
<1>5. Grown(last, ev) \in Segment
  <2>1. Append(last.events, ev) \in Seq(Event) /\ last.bytes + 1 \in Nat
    BY <1>4 DEF Segment
  <2>2. QED
    BY <1>4, <2>1 DEF Segment, Grown, Event
<1>6. segments' \in Seq(Segment)
  BY <1>3, <1>5 DEF SpoolAppend
<1>7. nextIndex' \in Nat
  BY DEF SpoolAppend, TypeOK
<1>8. unspooled' \subseteq Event
  BY <1>1, EventsAreEvents DEF SpoolAppend, TypeOK
<1>9. QED
  BY <1>6, <1>7, <1>8

(* An ack leaves segments in the spool and events among the acked ones.    *)
LEMMA AckType ==
  ASSUME TypeOK, NEW mark, AckUpTo(mark)
  PROVE  segments' \in Seq(Segment) /\ acked' \subseteq Event
  BY CutFacts, EventsAreEvents DEF AckUpTo, TypeOK

-----------------------------------------------------------------------------
HandOK ==
  /\ hand \in [Actors -> [pc : PublisherPcs \cup TaskPcs, ev : Event \cup {None}]]
  /\ \A a \in Actors :
       /\ hand[a].pc \in (IF a = Task THEN TaskPcs ELSE PublisherPcs)
       /\ hand[a].pc \in Holding \cup {"mark"} => hand[a].ev \in Event

SentOK ==
  sent \in Seq(Event) /\ \A c \in Subscribers : cursor[c] \in -1..Len(sent)

(* One more broadcast leaves every subscriber's place in it.               *)
LEMMA SentGrows ==
  ASSUME TypeOK, NEW e \in Event, sent' = Append(sent, e), cursor' = cursor
  PROVE  SentOK'
  BY DEF TypeOK, SentOK

(* An actor that moves within its own places keeps the type of the hands.  *)
LEMMA HandMoves ==
  ASSUME HandOK, NEW a \in Actors, NEW pc, NEW ev,
         hand' = [hand EXCEPT ![a] = At(pc, ev)],
         pc \in (IF a = Task THEN TaskPcs ELSE PublisherPcs),
         ev \in Event \/ (ev = None /\ pc \notin Holding \cup {"mark"})
  PROVE  HandOK'
  BY DEF HandOK, At

(* Every step keeps the types.                                             *)
LEMMA TypeStep == TypeOK /\ [Next]_vars => TypeOK'
<1> SUFFICES ASSUME TypeOK, [Next]_vars PROVE TypeOK'
  OBVIOUS
<1> USE BusConstants DEF TypeOK, Idle, At, Actors, PublisherPcs, TaskPcs, Holding, history, spool
<1>0. \A e \in Event : e.seq \in Nat
  BY DEF Event
<1>1. ASSUME NEW p \in Publishers, NEW prio \in Priorities, Build(p, prio) PROVE TypeOK'
  BY <1>1 DEF Build, SequenceAdvanced, Event
<1>2. ASSUME NEW p \in Publishers, SubmitDirect(p) PROVE TypeOK'
  BY <1>2 DEF SubmitDirect
<1>3. ASSUME NEW p \in Publishers, SubmitQueued(p) PROVE TypeOK'
  BY <1>3 DEF SubmitQueued
<1>4. ASSUME NEW p \in Publishers, SubmitFull(p) PROVE TypeOK'
  <2>1. hand[p].ev \in Event
    BY <1>4 DEF SubmitFull, DropsWhenFull
  <2>2. HandOK'
    <3>1. CASE hand[p].ev.prio = "critical"
      <4>1. hand' = [hand EXCEPT ![p] = At("append", hand[p].ev)]
        BY <1>4, <3>1 DEF SubmitFull, DropsWhenFull
      <4>2. HandOK /\ p \in Actors /\ p # Task
        BY DEF HandOK
      <4>3. QED
        BY <2>1, <4>1, <4>2, HandMoves
    <3>2. CASE hand[p].ev.prio # "critical"
      <4>1. hand' = [hand EXCEPT ![p] = At("idle", None)]
        BY <1>4, <3>2 DEF SubmitFull, DropsWhenFull
      <4>2. HandOK /\ p \in Actors /\ p # Task
        BY DEF HandOK
      <4>3. QED
        BY <4>1, <4>2, HandMoves
    <3>3. QED
      BY <3>1, <3>2
  <2>3. drops' \in Nat /\ lastDrops' \in 0..drops' /\ spilled' \subseteq Event /\ dropped' \subseteq Event
    BY <1>4, <2>1 DEF SubmitFull, DropsWhenFull
  <2>4. QED
    BY <1>4, <2>2, <2>3 DEF SubmitFull, DropsWhenFull, HandOK
<1>5. ASSUME NEW a \in Actors, DeliverAppend(a) PROVE TypeOK'
  <2>1. hand[a].ev \in Event
    BY <1>5 DEF DeliverAppend
  <2>2. HandOK'
    <3>1. hand' = [hand EXCEPT ![a] = At("send", hand[a].ev)]
      BY <1>5 DEF DeliverAppend
    <3>2. HandOK
      BY DEF HandOK
    <3>3. QED
      BY <2>1, <3>1, <3>2, HandMoves
  <2>3. segments' \in Seq(Segment) /\ nextIndex' \in Nat /\ unspooled' \subseteq Event
    BY <1>5, <2>1, SpoolAppendType DEF DeliverAppend
  <2>4. QED
    BY <1>5, <2>2, <2>3 DEF DeliverAppend, HandOK
<1>6. ASSUME NEW a \in Actors, DeliverSend(a) PROVE TypeOK'
  <2>1. hand[a].ev \in Event
    BY <1>6 DEF DeliverSend
  <2>2. HandOK'
    <3>1. hand' = [hand EXCEPT ![a] = At("mark", hand[a].ev)]
      BY <1>6 DEF DeliverSend
    <3>2. HandOK
      BY DEF HandOK
    <3>3. QED
      BY <2>1, <3>1, <3>2, HandMoves
  <2>3. SentOK' /\ everSent' \subseteq Event
    BY <1>6, <2>1, SentGrows DEF DeliverSend
  <2>4. QED
    BY <1>6, <2>2, <2>3 DEF DeliverSend, HandOK, SentOK
<1>7. ASSUME NEW a \in Actors, DeliverMark(a) PROVE TypeOK'
  BY <1>0, <1>7 DEF DeliverMark
<1>8. ASSUME ReplayRecord PROVE TypeOK'
  <2> DEFINE events == segments[replayAt.seg].events
             ev == events[replayAt.rec]
  <2>1. segments[replayAt.seg] \in Segment
    BY <1>8 DEF ReplayRecord
  <2>2. events \in Seq(Event)
    BY <2>1 DEF Segment
  <2>3. ev \in Event
    <3>1. replayAt.rec \in DOMAIN events
      BY <1>8 DEF ReplayRecord
    <3> HIDE DEF events
    <3>2. QED
      BY <2>2, <3>1
  <2>4. SentOK' /\ everSent' \subseteq Event
    BY <1>8, <2>3, SentGrows DEF ReplayRecord
  <2>5. highWater' \in Nat /\ replayAt' \in [seg : Nat \ {0}, rec : Nat \ {0}]
    <3>1. ev.seq \in Nat
      BY <1>0, <2>3
    <3>2. highWater' \in Nat
      BY <1>8, <3>1 DEF ReplayRecord
    <3>3. replayAt' \in [seg : Nat \ {0}, rec : Nat \ {0}]
      <4>1. replayAt.seg \in Nat \ {0} /\ replayAt.rec \in Nat \ {0}
        OBVIOUS
      <4>2. \/ replayAt' = [replayAt EXCEPT !.rec = replayAt.rec + 1]
            \/ replayAt' = [seg |-> replayAt.seg + 1, rec |-> 1]
        BY <1>8 DEF ReplayRecord
      <4>3. replayAt = [seg |-> replayAt.seg, rec |-> replayAt.rec]
        OBVIOUS
      <4>4. \/ replayAt' = [seg |-> replayAt.seg, rec |-> replayAt.rec + 1]
            \/ replayAt' = [seg |-> replayAt.seg + 1, rec |-> 1]
        BY <4>2, <4>3
      <4>5. QED
        BY <4>1, <4>4
    <3>4. QED
      BY <3>2, <3>3
  <2>6. QED
    BY <1>8, <2>4, <2>5 DEF ReplayRecord, SentOK
<1>9. ASSUME ReplayEnd PROVE TypeOK'
  BY <1>9, AckType DEF ReplayEnd, ReplayStart
<1>10. ASSUME Recv PROVE TypeOK'
  BY <1>10 DEF Recv
<1>11. ASSUME Tick PROVE TypeOK'
  BY <1>11, AckType DEF Tick
<1>12. ASSUME Report PROVE TypeOK'
  <2> DEFINE ev == [boot |-> boot, seq |-> sequence, prio |-> "critical", report |-> TRUE]
  <2>1. ev \in Event
    BY DEF Event, Priorities
  <2>2. HandOK'
    BY <1>12 DEF Report, Unreported, ReportedUpTo, HandOK
  <2>3. SentOK' /\ everSent' \subseteq Event /\ sequence' \in Nat /\ lastDrops' \in 0..drops'
    <3>1. CASE drops > lastDrops
      <4>1. sent' = Append(sent, ev) /\ cursor' = cursor /\ everSent' = everSent \cup {ev}
        BY <1>12, <3>1 DEF Report, Unreported, ReportedUpTo
      <4>2. sequence' \in Nat /\ lastDrops' \in 0..drops'
        BY <1>12, <3>1 DEF Report, Unreported, ReportedUpTo
      <4> HIDE DEF ev
      <4>3. QED
        BY <2>1, <4>1, <4>2, SentGrows
    <3>2. CASE ~(drops > lastDrops)
      BY <1>12, <3>2 DEF Report, Unreported, ReportedUpTo, SentOK
    <3>3. QED
      BY <3>1, <3>2
  <2>4. QED
    BY <1>12, <2>2, <2>3 DEF Report, Unreported, ReportedUpTo, HandOK, SentOK
<1>13. ASSUME NEW c \in Subscribers, Subscribe(c) PROVE TypeOK'
  BY <1>13 DEF Subscribe
<1>14. ASSUME NEW c \in Subscribers, Receive(c) PROVE TypeOK'
  <2>1. SentOK' /\ cursor' \in [Subscribers -> Int]
    <3>1. Len(sent) \in Nat /\ cursor[c] \in Int /\ sent' = sent
      BY <1>14 DEF Receive
    <3>2. CASE Len(sent) - cursor[c] > RingSize
      <4>1. cursor' = [cursor EXCEPT ![c] = Len(sent) - RingSize]
        BY <1>14, <3>2 DEF Receive
      <4>2. Len(sent) - RingSize \in -1..Len(sent)
        BY <1>14, <3>1, <3>2 DEF Receive
      <4>3. QED
        BY <3>1, <4>1, <4>2 DEF SentOK
    <3>3. CASE ~(Len(sent) - cursor[c] > RingSize)
      <4>1. cursor' = [cursor EXCEPT ![c] = cursor[c] + 1]
        BY <1>14, <3>3 DEF Receive
      <4>2. cursor[c] + 1 \in -1..Len(sent)
        BY <1>14, <3>1 DEF Receive
      <4>3. QED
        BY <3>1, <4>1, <4>2 DEF SentOK
    <3>4. QED
      BY <3>2, <3>3
  <2>2. QED
    BY <1>14, <2>1 DEF Receive, SentOK
<1>15. ASSUME NEW c \in Subscribers, Disconnect(c) PROVE TypeOK'
  BY <1>15 DEF Disconnect
<1>16. ASSUME Restart PROVE TypeOK'
  BY <1>16 DEF Restart, Started, ReplayStart
<1>17. CASE UNCHANGED vars
  BY <1>17 DEF vars
<1>18. QED
  BY <1>1, <1>2, <1>3, <1>4, <1>5, <1>6, <1>7, <1>8, <1>9, <1>10, <1>11, <1>12, <1>13, <1>14, <1>15, <1>16, <1>17
     DEF Next, Submit, Deliver, Replay

(* Every variable keeps its type in every reachable state (EventBus.tla).  *)
THEOREM TypeCorrect == Spec => []TypeOK
<1>1. Init => TypeOK
  BY BusConstants DEF Init, TypeOK, Started, Idle, At, Actors, PublisherPcs, TaskPcs,
     Holding, ReplayStart
<1>2. QED
  BY <1>1, TypeStep, PTL DEF Spec

-----------------------------------------------------------------------------
(* No silent loss.  An event is found by its sequence; that needs it to be *)
(* of this boot wherever it is, and a drop to add an event not yet in      *)
(* `dropped': events under construction have sequences of their own.       *)
Located(n) ==
  \/ \E a \in Actors : InHand(a, n)
  \/ \E i \in DOMAIN queue : InQueue(i, n)
  \/ \E i \in DOMAIN sent : InSent(i, n)
  \/ \E ev \in dropped : ev.seq = n

AllLocated == \A n \in 0..(sequence - 1) : Located(n)

OfThisBoot ==
  /\ \A a \in Actors : hand[a].pc \in Holding => hand[a].ev.boot = boot
  /\ \A i \in DOMAIN queue : queue[i].boot = boot

Built(p) == hand[p].pc = "built"

OwnSequences ==
  /\ \A p \in Publishers : Built(p) => hand[p].ev.seq < sequence
  /\ \A ev \in dropped : ev.seq < sequence
  /\ \A p, q \in Publishers :
       p # q /\ Built(p) /\ Built(q) => hand[p].ev.seq # hand[q].ev.seq
  /\ \A p \in Publishers, ev \in dropped : Built(p) => hand[p].ev.seq # ev.seq

DropsCounted ==
  /\ IsFiniteSet(dropped) /\ Cardinality(dropped) = drops
  /\ \A ev \in dropped : ev.prio # "critical"

LossInv == TypeOK /\ AllLocated /\ OfThisBoot /\ OwnSequences /\ DropsCounted

(* Broadcasting keeps what was broadcast; the new event is there.          *)
LEMMA SentFinds ==
  ASSUME TypeOK, NEW e \in Event, sent' = Append(sent, e), boot' = boot, e.boot = boot
  PROVE  /\ \A n \in Nat : (\E i \in DOMAIN sent : InSent(i, n))
                            => \E i \in DOMAIN sent' : InSent(i, n)'
         /\ \E i \in DOMAIN sent' : sent'[i].boot = boot' /\ sent'[i].seq = e.seq
<1>1. sent \in Seq(Event)
  BY DEF TypeOK
<1>2. \A i \in DOMAIN sent : i \in DOMAIN sent' /\ sent'[i] = sent[i]
  BY <1>1
<1>3. Len(sent) + 1 \in DOMAIN sent' /\ sent'[Len(sent) + 1] = e
  BY <1>1
<1>4. QED
  BY <1>2, <1>3 DEF InSent

(* Every step leaves each sequence assigned where it can be found.         *)
LEMMA LocatedStep ==
  ASSUME LossInv, [Next]_vars
  PROVE  AllLocated'
<1> SUFFICES ASSUME NEW n \in 0..(sequence' - 1) PROVE Located(n)'
  BY DEF AllLocated
<1>0. TypeOK /\ AllLocated /\ OfThisBoot /\ sequence \in Nat /\ TypeOK'
  BY TypeStep DEF LossInv, TypeOK
<1> USE BusConstants DEF Actors, Holding
<1>1. ASSUME NEW p \in Publishers, NEW prio \in Priorities, Build(p, prio) PROVE Located(n)'
  <2>1. hand \in [Actors -> [pc : PublisherPcs \cup TaskPcs, ev : Event \cup {None}]]
    BY <1>0 DEF TypeOK
  <2>2. sequence' = sequence + 1 /\ hand'[p].pc = "built" /\ hand'[p].ev.seq = sequence
    BY <1>1, <2>1 DEF Build, SequenceAdvanced, At
  <2>3. CASE n = sequence
    BY <2>2, <2>3 DEF Located, InHand
  <2>4. CASE n # sequence
    <3>1. Located(n)
      BY <1>0, <2>2, <2>4 DEF AllLocated
    <3>2. \A a \in Actors : InHand(a, n) => InHand(a, n)'
      BY <1>1, <2>1 DEF Build, InHand
    <3>3. queue' = queue /\ sent' = sent /\ dropped' = dropped /\ boot' = boot
      BY <1>1 DEF Build, SequenceAdvanced, history
    <3>4. QED
      BY <3>1, <3>2, <3>3 DEF Located, InQueue, InSent
  <2>5. QED
    BY <2>3, <2>4
<1>2. ASSUME sequence' = sequence PROVE Located(n)
  BY <1>0, <1>2 DEF AllLocated
<1>3. ASSUME NEW p \in Publishers, SubmitDirect(p) PROVE Located(n)'
  <2>1. hand[p].ev \in Event /\ hand[p].ev.boot = boot
    BY <1>0, <1>3 DEF SubmitDirect, TypeOK, OfThisBoot
  <2>2. \A a \in Actors : InHand(a, n) => InHand(a, n)' \/ n = hand[p].ev.seq
    BY <1>0, <1>3 DEF SubmitDirect, InHand, TypeOK
  <2>3. sent' = Append(sent, hand[p].ev) /\ boot' = boot /\ queue' = queue /\ dropped' = dropped
    BY <1>3 DEF SubmitDirect
  <2>4. Located(n)
    BY <1>2, <1>3 DEF SubmitDirect
  <2>5. QED
    BY <1>0, <2>1, <2>2, <2>3, <2>4, SentFinds DEF Located, InQueue, InSent
<1>4. ASSUME NEW p \in Publishers, SubmitQueued(p) PROVE Located(n)'
  <2>1. \A a \in Actors : InHand(a, n) => InHand(a, n)' \/ n = hand[p].ev.seq
    BY <1>0, <1>4 DEF SubmitQueued, InHand, TypeOK
  <2>2. queue \in Seq(Event) /\ hand[p].ev \in Event
    BY <1>0, <1>4 DEF SubmitQueued, TypeOK
  <2>3. queue' = Append(queue, hand[p].ev)
    BY <1>4 DEF SubmitQueued
  <2>4. /\ \A i \in DOMAIN queue : i \in DOMAIN queue' /\ queue'[i] = queue[i]
        /\ Len(queue) + 1 \in DOMAIN queue' /\ queue'[Len(queue) + 1] = hand[p].ev
    BY <2>2, <2>3
  <2>5. Located(n) /\ sent' = sent /\ boot' = boot /\ dropped' = dropped
    BY <1>2, <1>4 DEF SubmitQueued, history
  <2>6. QED
    BY <2>1, <2>4, <2>5 DEF Located, InQueue, InSent
<1>5. ASSUME NEW p \in Publishers, SubmitFull(p) PROVE Located(n)'
  <2>1. \A a \in Actors : InHand(a, n) => InHand(a, n)' \/ \E ev \in dropped' : ev.seq = n
    <3>1. CASE hand[p].ev.prio = "critical"
      <4>1. hand' = [hand EXCEPT ![p] = At("append", hand[p].ev)]
        BY <1>5, <3>1 DEF SubmitFull, DropsWhenFull
      <4>2. hand \in [Actors -> [pc : PublisherPcs \cup TaskPcs, ev : Event \cup {None}]]
        BY <1>0 DEF TypeOK
      <4>3. QED
        BY <4>1, <4>2 DEF InHand, At
    <3>2. CASE hand[p].ev.prio # "critical"
      BY <1>0, <1>5, <3>2 DEF SubmitFull, DropsWhenFull, InHand, TypeOK
    <3>3. QED
      BY <3>1, <3>2
  <2>2. Located(n) /\ sent' = sent /\ boot' = boot /\ queue' = queue /\ dropped \subseteq dropped'
    BY <1>2, <1>5 DEF SubmitFull, DropsWhenFull
  <2>3. QED
    BY <2>1, <2>2 DEF Located, InQueue, InSent
<1>6. ASSUME NEW a \in Actors, DeliverAppend(a) PROVE Located(n)'
  <2>1. \A b \in Actors : InHand(b, n) => InHand(b, n)'
    BY <1>0, <1>6 DEF DeliverAppend, InHand, TypeOK, At
  <2>2. Located(n) /\ sent' = sent /\ boot' = boot /\ queue' = queue /\ dropped' = dropped
    BY <1>2, <1>6 DEF DeliverAppend
  <2>3. QED
    BY <2>1, <2>2 DEF Located, InQueue, InSent
<1>7. ASSUME NEW a \in Actors, DeliverSend(a) PROVE Located(n)'
  <2>1. hand[a].ev \in Event /\ hand[a].ev.boot = boot
    BY <1>0, <1>7 DEF DeliverSend, TypeOK, OfThisBoot
  <2>2. \A b \in Actors : InHand(b, n) => InHand(b, n)' \/ n = hand[a].ev.seq
    BY <1>0, <1>7 DEF DeliverSend, InHand, TypeOK, At
  <2>3. sent' = Append(sent, hand[a].ev) /\ boot' = boot /\ queue' = queue /\ dropped' = dropped
    BY <1>7 DEF DeliverSend
  <2>4. Located(n)
    BY <1>2, <1>7 DEF DeliverSend
  <2>5. QED
    BY <1>0, <2>1, <2>2, <2>3, <2>4, SentFinds DEF Located, InQueue, InSent
<1>8. ASSUME NEW a \in Actors, DeliverMark(a) PROVE Located(n)'
  <2>1. \A b \in Actors : InHand(b, n) => InHand(b, n)'
    BY <1>0, <1>8 DEF DeliverMark, InHand, TypeOK
  <2>2. Located(n) /\ sent' = sent /\ boot' = boot /\ queue' = queue /\ dropped' = dropped
    BY <1>2, <1>8 DEF DeliverMark, history
  <2>3. QED
    BY <2>1, <2>2 DEF Located, InQueue, InSent
<1>9. ASSUME ReplayRecord PROVE Located(n)'
  <2>1. Located(n) /\ hand' = hand /\ boot' = boot /\ queue' = queue /\ dropped' = dropped
    BY <1>2, <1>9 DEF ReplayRecord
  <2>2. sent \in Seq(Event) /\ sent' = Append(sent, segments[replayAt.seg].events[replayAt.rec])
    BY <1>0, <1>9 DEF ReplayRecord, TypeOK
  <2>3. \A i \in DOMAIN sent : i \in DOMAIN sent' /\ sent'[i] = sent[i]
    BY <2>2
  <2>4. QED
    BY <2>1, <2>3 DEF Located, InHand, InQueue, InSent
<1>10. ASSUME ReplayEnd \/ Tick PROVE Located(n)'
  <2>1. \A b \in Actors : InHand(b, n) => InHand(b, n)'
    BY <1>0, <1>10 DEF ReplayEnd, Tick, InHand, TypeOK
  <2>2. Located(n) /\ sent' = sent /\ boot' = boot /\ queue' = queue /\ dropped' = dropped
    BY <1>2, <1>10 DEF ReplayEnd, Tick
  <2>3. QED
    BY <2>1, <2>2 DEF Located, InQueue, InSent
<1>11. ASSUME Recv PROVE Located(n)'
  <2>1. queue \in Seq(Event) /\ queue # << >> /\ queue' = Tail(queue)
    BY <1>0, <1>11 DEF Recv, TypeOK
  <2>2. hand'[Task].pc = "append" /\ hand'[Task].ev = queue[1]
    BY <1>0, <1>11, <2>1 DEF Recv, TypeOK, At
  <2>3. \A i \in DOMAIN queue : i = 1 \/ (i - 1 \in DOMAIN queue' /\ queue'[i - 1] = queue[i])
    BY <2>1
  <2>4. \A b \in Actors : InHand(b, n) => InHand(b, n)'
    BY <1>0, <1>11 DEF Recv, InHand, TypeOK
  <2>5. Located(n) /\ sent' = sent /\ boot' = boot /\ dropped' = dropped
    BY <1>2, <1>11 DEF Recv, history
  <2>6. QED
    BY <2>2, <2>3, <2>4, <2>5 DEF Located, InQueue, InSent, InHand
<1>12. ASSUME Report PROVE Located(n)'
  <2> DEFINE ev == [boot |-> boot, seq |-> sequence, prio |-> "critical", report |-> TRUE]
  <2>1. \A b \in Actors : InHand(b, n) => InHand(b, n)'
    BY <1>0, <1>12 DEF Report, Unreported, ReportedUpTo, InHand, TypeOK
  <2>2. boot' = boot /\ queue' = queue /\ dropped' = dropped
    BY <1>12 DEF Report, Unreported, ReportedUpTo
  <2>3. CASE drops > lastDrops
    <3>1. ev \in Event /\ ev.boot = boot /\ ev.seq = sequence
      BY <1>0 DEF TypeOK, Event, Priorities
    <3>2. sent' = Append(sent, ev) /\ sequence' = sequence + 1
      BY <1>12, <2>3 DEF Report, Unreported, ReportedUpTo
    <3> HIDE DEF ev
    <3>3. CASE n = sequence
      <4>1. \E i \in DOMAIN sent' : sent'[i].boot = boot' /\ sent'[i].seq = ev.seq
        BY <1>0, <2>2, <3>1, <3>2, SentFinds
      <4>2. QED
        BY <3>1, <3>3, <4>1 DEF Located, InSent
    <3>4. CASE n # sequence
      <4>1. Located(n)
        BY <1>0, <3>2, <3>4 DEF AllLocated
      <4>2. (\E i \in DOMAIN sent : InSent(i, n)) => \E i \in DOMAIN sent' : InSent(i, n)'
        BY <1>0, <2>2, <3>1, <3>2, SentFinds
      <4>3. QED
        BY <2>1, <2>2, <4>1, <4>2 DEF Located, InQueue
    <3>5. QED
      BY <3>3, <3>4
  <2>4. CASE ~(drops > lastDrops)
    <3>1. Located(n) /\ sent' = sent
      BY <1>2, <1>12, <2>4 DEF Report, Unreported, ReportedUpTo
    <3>2. QED
      BY <2>1, <2>2, <3>1 DEF Located, InQueue, InSent
  <2>5. QED
    BY <2>3, <2>4
<1>13. ASSUME NEW c \in Subscribers, Subscribe(c) \/ Receive(c) \/ Disconnect(c)
       PROVE  Located(n)'
  BY <1>2, <1>13 DEF Subscribe, Receive, Disconnect, history, Located, InHand, InQueue, InSent
<1>14. ASSUME Restart PROVE Located(n)'
  BY <1>14 DEF Restart
<1>15. CASE UNCHANGED vars
  BY <1>2, <1>15 DEF vars, history, Located, InHand, InQueue, InSent
<1>16. QED
  BY <1>1, <1>3, <1>4, <1>5, <1>6, <1>7, <1>8, <1>9, <1>10, <1>11, <1>12, <1>13, <1>14, <1>15
     DEF Next, Submit, Deliver, Replay

(* What each group of actions does to the hands, and leaves alone.         *)
LEMMA SubmitMoves ==
  ASSUME TypeOK, NEW p \in Publishers, Submit(p)
  PROVE  /\ hand[p].pc = "built" /\ \A b \in Actors \ {p} : hand'[b] = hand[b]
         /\ \/ hand'[p] = Idle
            \/ hand'[p] = At("append", hand[p].ev) /\ drops' = drops /\ dropped' = dropped
         /\ boot' = boot /\ sequence' = sequence
<1> USE BusConstants DEF TypeOK, Actors
<1>1. CASE SubmitDirect(p)
  BY <1>1 DEF SubmitDirect
<1>2. CASE SubmitQueued(p)
  BY <1>2 DEF SubmitQueued
<1>3. CASE SubmitFull(p)
  BY <1>3 DEF SubmitFull, DropsWhenFull
<1>4. QED
  BY <1>1, <1>2, <1>3 DEF Submit

(* A step of a delivery passes the event on from append to send, or is     *)
(* done with it, and leaves queue and counters alone.                      *)
LEMMA DeliverMoves ==
  ASSUME TypeOK, NEW a \in Actors, Deliver(a)
  PROVE  /\ \A b \in Actors \ {a} : hand'[b] = hand[b]
         /\ \/ hand[a].pc = "append" /\ hand'[a].pc = "send" /\ hand'[a].ev = hand[a].ev
            \/ hand'[a].pc \in {"mark", "idle"}
         /\ UNCHANGED <<boot, sequence, queue, drops, dropped>>
<1> USE DEF TypeOK
<1>1. CASE DeliverAppend(a)
  BY <1>1 DEF DeliverAppend, At
<1>2. CASE DeliverSend(a)
  BY <1>2 DEF DeliverSend, At
<1>3. CASE DeliverMark(a)
  BY <1>3 DEF DeliverMark, Idle, history
<1>4. QED
  BY <1>1, <1>2, <1>3 DEF Deliver

(* A step of the task's replay, tick or report leaves publishers, queue    *)
(* and drops alone, and takes at most one sequence.                        *)
LEMMA TaskMoves ==
  ASSUME TypeOK, Replay \/ Tick \/ Report
  PROVE  /\ \A p \in Publishers : hand'[p] = hand[p]
         /\ hand'[Task].pc \in {"replay", "report", "idle"}
         /\ UNCHANGED <<boot, queue, drops, dropped>>
         /\ sequence' \in {sequence, sequence + 1}
<1> USE BusConstants DEF TypeOK, Actors, Idle, At
<1>1. CASE ReplayRecord
  BY <1>1 DEF ReplayRecord
<1>2. CASE ReplayEnd
  BY <1>2 DEF ReplayEnd
<1>3. CASE Tick
  BY <1>3 DEF Tick
<1>4. CASE Report
  BY <1>4 DEF Report, Unreported, ReportedUpTo
<1>5. QED
  BY <1>1, <1>2, <1>3, <1>4 DEF Replay

(* What is queued or held stays of this boot: a restart empties both.      *)
LEMMA BootStep ==
  ASSUME LossInv, [Next]_vars
  PROVE  OfThisBoot'
<1> USE BusConstants DEF LossInv, OfThisBoot, TypeOK, Actors, Holding, Idle, At
<1>1. ASSUME NEW p \in Publishers, NEW prio \in Priorities, Build(p, prio) PROVE OfThisBoot'
  BY <1>1 DEF Build
<1>2. ASSUME NEW p \in Publishers, Submit(p) PROVE OfThisBoot'
  <2>1. \A a \in Actors : hand'[a].pc \in Holding => hand'[a].ev.boot = boot'
    <3> HIDE DEF TypeOK, LossInv
    <3>1. TypeOK /\ OfThisBoot
      BY DEF LossInv
    <3>2. /\ hand[p].pc = "built" /\ boot' = boot /\ \A b \in Actors \ {p} : hand'[b] = hand[b]
          /\ hand'[p] = Idle \/ hand'[p] = At("append", hand[p].ev)
      BY <1>2, <3>1, SubmitMoves
    <3>3. QED
      BY <3>1, <3>2
  <2>2. \A i \in DOMAIN queue' : queue'[i].boot = boot'
    <3>1. CASE SubmitQueued(p)
      <4>1. queue' = Append(queue, hand[p].ev) /\ boot' = boot /\ hand[p].ev.boot = boot
        BY <3>1 DEF SubmitQueued
      <4>2. QED
        BY <4>1
    <3>2. CASE SubmitDirect(p) \/ SubmitFull(p)
      BY <3>2 DEF SubmitDirect, SubmitFull
    <3>3. QED
      BY <1>2, <3>1, <3>2 DEF Submit
  <2>3. QED
    BY <2>1, <2>2
<1>3. ASSUME NEW a \in Actors, Deliver(a) PROVE OfThisBoot'
  <2>1. \A b \in Actors : hand'[b].pc \in Holding => hand'[b].ev.boot = boot'
    <3> HIDE DEF TypeOK, LossInv
    <3>1. TypeOK /\ OfThisBoot
      BY DEF LossInv
    <3>2. /\ \A b \in Actors \ {a} : hand'[b] = hand[b]
          /\ \/ hand[a].pc = "append" /\ hand'[a].ev = hand[a].ev
             \/ hand'[a].pc \in {"mark", "idle"}
          /\ boot' = boot
      BY <1>3, <3>1, DeliverMoves
    <3>3. QED
      BY <3>1, <3>2
  <2>2. QED
    BY <1>3, <2>1, DeliverMoves
<1>4. ASSUME Replay \/ Tick \/ Report PROVE OfThisBoot'
  BY <1>4, TaskMoves
<1>5. ASSUME Recv PROVE OfThisBoot'
  <2>1. queue' = Tail(queue) /\ hand' = [hand EXCEPT ![Task] = At("append", Head(queue))]
          /\ boot' = boot /\ queue # << >>
    BY <1>5 DEF Recv
  <2>2. Head(queue).boot = boot
    BY <2>1
  <2>3. \A i \in DOMAIN queue' : queue'[i].boot = boot'
    BY <2>1
  <2>4. \A a \in Actors : hand'[a].pc \in Holding => hand'[a].ev.boot = boot'
    BY <2>1, <2>2
  <2>5. QED
    BY <2>3, <2>4
<1>6. ASSUME NEW c \in Subscribers, Subscribe(c) \/ Receive(c) \/ Disconnect(c)
      PROVE  OfThisBoot'
  BY <1>6 DEF Subscribe, Receive, Disconnect
<1>7. ASSUME Restart PROVE OfThisBoot'
  BY <1>7 DEF Restart, Started
<1>8. CASE UNCHANGED vars
  BY <1>8 DEF vars
<1>9. QED
  BY <1>1, <1>2, <1>3, <1>4, <1>5, <1>6, <1>7, <1>8 DEF Next

(* Only a publisher at the full queue drops, and its event's sequence is   *)
(* no other's: the set of drops grows by one when the counter does.        *)
LEMMA DropStep ==
  ASSUME LossInv, [Next]_vars
  PROVE  OwnSequences' /\ DropsCounted'
<1> DEFINE Goal == OwnSequences' /\ DropsCounted'
<1> USE BusConstants DEF LossInv, OwnSequences, DropsCounted, TypeOK, Actors, Built, Idle, At
<1>0. \A p \in Publishers : Built(p) => hand[p].ev \in Event /\ hand[p].ev.seq \in Nat
  BY DEF Holding, Event
<1>1. ASSUME NEW p \in Publishers, NEW prio \in Priorities, Build(p, prio) PROVE Goal
  <2>1. /\ hand' = [hand EXCEPT ![p] = At("built", [boot |-> boot, seq |-> sequence,
                                                  prio |-> prio, report |-> FALSE])]
        /\ sequence' = sequence + 1 /\ drops' = drops /\ dropped' = dropped
    BY <1>1 DEF Build, SequenceAdvanced, history
  <2>2. \A q \in Publishers \ {p} : hand'[q] = hand[q]
    BY <2>1
  <2>3. hand'[p].ev.seq = sequence
    BY <2>1
  <2>4. \A ev \in dropped : ev.seq \in Nat
    BY DEF Event
  <2>5. QED
    BY <1>0, <2>1, <2>2, <2>3, <2>4
<1>2. ASSUME NEW p \in Publishers, SubmitDirect(p) \/ SubmitQueued(p) PROVE Goal
  <2>1. drops' = drops /\ dropped' = dropped
    BY <1>2 DEF SubmitDirect, SubmitQueued, history
  <2>2. \A q \in Publishers : Built(q)' => Built(q) /\ hand'[q] = hand[q]
    <3> HIDE DEF TypeOK, LossInv
    <3>1. TypeOK
      BY DEF LossInv
    <3>2. /\ \A b \in Actors \ {p} : hand'[b] = hand[b]
          /\ hand'[p] = Idle \/ hand'[p] = At("append", hand[p].ev)
      BY <1>2, <3>1, SubmitMoves DEF Submit
    <3>3. QED
      BY <3>2
  <2>3. sequence' = sequence
    BY <1>2, SubmitMoves DEF Submit
  <2>4. QED
    BY <2>1, <2>2, <2>3
<1>3. ASSUME NEW p \in Publishers, SubmitFull(p) PROVE Goal
  <2>1. CASE hand[p].ev.prio = "critical"
    <3>1. drops' = drops /\ dropped' = dropped
      BY <1>3, <2>1 DEF SubmitFull, DropsWhenFull
    <3>2. \A q \in Publishers : Built(q)' => Built(q) /\ hand'[q] = hand[q]
      <4> HIDE DEF TypeOK, LossInv
      <4>1. TypeOK
        BY DEF LossInv
      <4>2. /\ \A b \in Actors \ {p} : hand'[b] = hand[b]
            /\ hand'[p] = Idle \/ hand'[p] = At("append", hand[p].ev)
        BY <1>3, <4>1, SubmitMoves DEF Submit
      <4>3. QED
        BY <4>2
    <3>3. sequence' = sequence
      BY <1>3, SubmitMoves DEF Submit
    <3>4. QED
      BY <3>1, <3>2, <3>3
  <2>2. CASE hand[p].ev.prio # "critical"
    <3>1. /\ dropped' = dropped \cup {hand[p].ev} /\ drops' = drops + 1 /\ Built(p)
          /\ hand' = [hand EXCEPT ![p] = Idle] /\ sequence' = sequence
      BY <1>3, <2>2 DEF SubmitFull, DropsWhenFull
    <3>2. hand[p].ev \notin dropped
      BY <3>1
    <3>3. IsFiniteSet(dropped') /\ Cardinality(dropped') = drops'
      BY <3>1, <3>2, FS_AddElement
    <3>4. \A ev \in dropped' : ev.prio # "critical" /\ ev.seq < sequence'
      BY <2>2, <3>1
    <3>5. \A q \in Publishers : Built(q)' => Built(q) /\ q # p /\ hand'[q] = hand[q]
      BY <3>1
    <3>6. OwnSequences'
      BY <3>1, <3>4, <3>5
    <3>7. QED
      BY <3>3, <3>4, <3>6
  <2>3. QED
    BY <2>1, <2>2
<1>4. ASSUME NEW a \in Actors, Deliver(a) PROVE Goal
  <2>1. \A q \in Publishers : Built(q)' => Built(q) /\ hand'[q] = hand[q]
    BY <1>4, DeliverMoves
  <2>2. QED
    BY <1>4, <2>1, DeliverMoves
<1>5. ASSUME Replay \/ Tick \/ Report PROVE Goal
  <2>1. \A q \in Publishers : hand'[q] = hand[q]
    BY <1>5, TaskMoves
  <2>2. \A ev \in dropped : ev.seq \in Nat
    BY DEF Event
  <2>3. QED
    BY <1>0, <1>5, <2>1, <2>2, TaskMoves
<1>6. ASSUME Recv PROVE Goal
  <2>1. \A q \in Publishers : hand'[q] = hand[q]
    BY <1>6 DEF Recv
  <2>2. UNCHANGED <<sequence, drops, dropped>>
    BY <1>6 DEF Recv, history
  <2>3. QED
    BY <2>1, <2>2
<1>7. ASSUME NEW c \in Subscribers, Subscribe(c) \/ Receive(c) \/ Disconnect(c) PROVE Goal
  BY <1>7 DEF Subscribe, Receive, Disconnect, history
<1>8. ASSUME Restart PROVE Goal
  BY <1>8, FS_EmptySet DEF Restart, Started
<1>9. CASE UNCHANGED vars
  BY <1>9 DEF vars, history
<1>10. QED
  BY <1>1, <1>2, <1>3, <1>4, <1>5, <1>6, <1>7, <1>8, <1>9 DEF Next, Submit

(* The inductive invariant of the places of events holds.                  *)
LEMMA LossInvariant == Spec => []LossInv
<1>1. Init => LossInv
  <2>1. Init => TypeOK
    BY BusConstants DEF Init, TypeOK, Started, Idle, At, Actors, PublisherPcs, TaskPcs,
       Holding, ReplayStart
  <2>2. Init => AllLocated /\ OfThisBoot /\ OwnSequences /\ DropsCounted
    BY FS_EmptySet, BusConstants DEF Init, AllLocated, OfThisBoot, OwnSequences, DropsCounted,
       Started, Idle, At, Actors, Holding, Built
  <2>3. QED
    BY <2>1, <2>2 DEF LossInv
<1>2. LossInv /\ [Next]_vars => LossInv'
  BY TypeStep, LocatedStep, BootStep, DropStep DEF LossInv
<1>3. QED
  BY <1>1, <1>2, PTL DEF Spec

(* No event is lost silently while the daemon runs: each has a place or    *)
(* was dropped, every drop is counted, and none is critical                *)
(* (publish_recorded, deliver_durable, run_delivery, bus.rs).              *)
THEOREM LossCorrect == Spec => []NoSilentLoss
<1>1. LossInv => NoSilentLoss
  BY DEF LossInv, AllLocated, Located, DropsCounted, NoSilentLoss
<1>2. QED
  BY <1>1, LossInvariant, PTL

-----------------------------------------------------------------------------
(* What is in the spool, record by record.                                 *)
LEMMA InEvents ==
  ASSUME NEW segs \in Seq(Segment)
  PROVE  \A e : e \in EventsIn(segs) <=>
           \E n \in DOMAIN segs : \E r \in DOMAIN segs[n].events : segs[n].events[r] = e
  BY DEF EventsIn, ToSet

(* Cutting the segments in two keeps every event in one of the parts.      *)
LEMMA EventsSplit ==
  ASSUME NEW segs \in Seq(Segment), NEW k \in 0..Len(segs)
  PROVE  EventsIn(segs) = EventsIn(SubSeq(segs, 1, k)) \cup EventsIn(DropFirst(segs, k))
<1> DEFINE front == SubSeq(segs, 1, k)
           back == DropFirst(segs, k)
<1>1. front \in Seq(Segment) /\ Len(front) = k /\ \A n \in 1..k : front[n] = segs[n]
  OBVIOUS
<1>2. /\ back \in Seq(Segment) /\ Len(back) = Len(segs) - k
      /\ \A n \in 1..(Len(segs) - k) : back[n] = segs[n + k]
  BY DEF DropFirst
<1> HIDE DEF front, back
<1>3. EventsIn(front) \cup EventsIn(back) \subseteq EventsIn(segs)
  <2>1. \A n \in DOMAIN front : n \in DOMAIN segs /\ front[n] = segs[n]
    BY <1>1
  <2>2. \A n \in DOMAIN back : n + k \in DOMAIN segs /\ back[n] = segs[n + k]
    BY <1>2
  <2>3. EventsIn(front) \subseteq EventsIn(segs)
    BY <1>1, <2>1, InEvents
  <2>4. EventsIn(back) \subseteq EventsIn(segs)
    BY <1>2, <2>2, InEvents
  <2>5. QED
    BY <2>3, <2>4
<1>4. ASSUME NEW e \in EventsIn(segs) PROVE e \in EventsIn(front) \cup EventsIn(back)
  <2>1. PICK n \in DOMAIN segs : \E r \in DOMAIN segs[n].events : segs[n].events[r] = e
    BY InEvents
  <2>2. CASE n <= k
    <3>1. n \in DOMAIN front /\ front[n] = segs[n]
      BY <1>1, <2>2
    <3>2. QED
      BY <1>1, <2>1, <3>1, InEvents
  <2>3. CASE n > k
    <3>1. n - k \in DOMAIN back /\ back[n - k] = segs[n]
      BY <1>2, <2>3
    <3>2. QED
      BY <1>2, <2>1, <3>1, InEvents
  <2>4. QED
    BY <2>2, <2>3
<1>5. QED
  BY <1>3, <1>4 DEF front, back

(* An append leaves in the spool what it did not evict, and the event.     *)
LEMMA AppendedEvents ==
  ASSUME TypeOK, NEW ev \in Event, NEW k \in 0..Len(segments), SpoolAppend(ev, k)
  PROVE  EventsIn(segments') = EventsIn(DropFirst(segments, k)) \cup {ev}
<1> DEFINE left == DropFirst(segments, k)
           room == Room(k)
           fresh == [index |-> nextIndex, maxSequence |-> 0, bytes |-> 0, events |-> << >>]
           last == Len(room)
<1>1. left \in Seq(Segment) /\ fresh \in Segment
  <2>1. left \in Seq(Segment)
    BY CutFacts DEF TypeOK
  <2>2. fresh \in Segment
    BY DEF TypeOK, Segment
  <2>3. QED
    BY <2>1, <2>2
<1>2. room = Append(left, fresh) \/ (room = left /\ left # << >>)
  BY DEF Room, NeedsNewSegment
<1>3. room \in Seq(Segment) /\ room # << >>
  BY <1>1, <1>2
<1>4. segments' = [room EXCEPT ![last] = Grown(@, ev)]
  BY DEF SpoolAppend
<1>5. segments' \in Seq(Segment)
  BY SpoolAppendType
<1>6. EventsIn(room) = EventsIn(left)
  <2>1. CASE room = left
    BY <2>1
  <2>2. CASE room = Append(left, fresh)
    <3>1. /\ Len(room) = Len(left) + 1 /\ \A n \in 1..Len(left) : room[n] = left[n]
          /\ room[Len(left) + 1] = fresh /\ fresh.events = << >>
      BY <1>1, <2>2
    <3> HIDE DEF room, left, fresh
    <3>2. \A n \in DOMAIN room : n \in DOMAIN left \/ room[n].events = << >>
      BY <1>1, <1>3, <3>1
    <3>3. \A n \in DOMAIN left : n \in DOMAIN room /\ room[n] = left[n]
      BY <1>1, <1>3, <3>1
    <3>4. \A e : e \in EventsIn(room) <=> e \in EventsIn(left)
      BY <1>1, <1>3, <3>2, <3>3, InEvents
    <3>5. QED
      BY <3>4
  <2>3. QED
    BY <1>2, <2>1, <2>2
<1> HIDE DEF room, left, fresh
<1>7. last \in DOMAIN room /\ DOMAIN segments' = DOMAIN room /\ room[last] \in Segment
  BY <1>3, <1>4
<1>8. \A n \in DOMAIN room : n # last => segments'[n] = room[n]
  BY <1>3, <1>4
<1>9. segments'[last].events = Append(room[last].events, ev)
  BY <1>3, <1>4, <1>7 DEF Grown, Segment
<1>10. room[last].events \in Seq(Event)
  BY <1>7 DEF Segment
<1>11. /\ \A r \in DOMAIN room[last].events :
            r \in DOMAIN segments'[last].events /\ segments'[last].events[r] = room[last].events[r]
       /\ \A r \in DOMAIN segments'[last].events :
            r \in DOMAIN room[last].events \/ segments'[last].events[r] = ev
       /\ \E r \in DOMAIN segments'[last].events : segments'[last].events[r] = ev
  <2> DEFINE old == room[last].events
  <2>1. old \in Seq(Event) /\ segments'[last].events = Append(old, ev)
    BY <1>9, <1>10
  <2> HIDE DEF old
  <2>2. Len(old) + 1 \in DOMAIN Append(old, ev) /\ Append(old, ev)[Len(old) + 1] = ev
    BY <2>1
  <2>3. /\ \A r \in DOMAIN old : r \in DOMAIN Append(old, ev) /\ Append(old, ev)[r] = old[r]
        /\ \A r \in DOMAIN Append(old, ev) : r \in DOMAIN old \/ Append(old, ev)[r] = ev
    BY <2>1
  <2>4. QED
    BY <2>1, <2>2, <2>3 DEF old
<1>12. ev \in EventsIn(segments')
  BY <1>5, <1>7, <1>11, InEvents
<1>13. EventsIn(room) \subseteq EventsIn(segments')
  <2> SUFFICES ASSUME NEW e \in EventsIn(room) PROVE e \in EventsIn(segments')
    OBVIOUS
  <2>1. PICK n \in DOMAIN room : \E r \in DOMAIN room[n].events : room[n].events[r] = e
    BY <1>3, InEvents
  <2>2. \E r \in DOMAIN segments'[n].events : segments'[n].events[r] = e
    BY <2>1, <1>8, <1>11
  <2>3. QED
    BY <1>5, <1>7, <2>2, InEvents
<1>14. EventsIn(segments') \subseteq EventsIn(room) \cup {ev}
  <2> SUFFICES ASSUME NEW e \in EventsIn(segments'), e # ev PROVE e \in EventsIn(room)
    OBVIOUS
  <2>1. PICK n \in DOMAIN segments' :
          \E r \in DOMAIN segments'[n].events : segments'[n].events[r] = e
    BY <1>5, InEvents
  <2>2. \E r \in DOMAIN room[n].events : room[n].events[r] = e
    BY <2>1, <1>7, <1>8, <1>11
  <2>3. QED
    BY <1>3, <1>7, <2>1, <2>2, InEvents
<1>15. QED
  BY <1>6, <1>12, <1>13, <1>14 DEF left

-----------------------------------------------------------------------------
(* Write-ahead.  Between append and send the event is in nobody's history  *)
(* but the actor's hand: it is already where WriteAhead wants it.          *)
Covered == EventsIn(segments) \cup acked \cup unspooled

SendingIsCovered == \A a \in Actors : hand[a].pc = "send" => hand[a].ev \in Covered

AheadInv == TypeOK /\ (durable => SendingIsCovered) /\ WriteAhead


(* An ack moves what it deletes from the spool to `acked'.                 *)
LEMMA AckMoves ==
  ASSUME TypeOK, AckUpTo(highWater)
  PROVE  /\ EventsIn(segments) \cup acked = EventsIn(segments') \cup acked'
         /\ \E k \in 0..Len(segments) : segments' = DropFirst(segments, k)
         /\ acked \subseteq acked' /\ EventsIn(segments') \subseteq EventsIn(segments)
<1>1. PICK k \in 0..Len(segments) :
        /\ segments' = DropFirst(segments, k)
        /\ acked' = acked \cup EventsIn(SubSeq(segments, 1, k))
  BY DEF AckUpTo
<1>2. EventsIn(segments) = EventsIn(SubSeq(segments, 1, k)) \cup EventsIn(DropFirst(segments, k))
  BY EventsSplit DEF TypeOK
<1>3. QED
  BY <1>1, <1>2

(* Nothing is uncovered by any step, and an append covers its event.       *)
LEMMA CoveredGrows ==
  ASSUME TypeOK, [Next]_vars
  PROVE  /\ Covered \subseteq Covered'
         /\ \A a \in Actors : DeliverAppend(a) => hand[a].ev \in Covered'
<1>1. ASSUME NEW a \in Actors, DeliverAppend(a)
      PROVE  Covered \subseteq Covered' /\ hand[a].ev \in Covered'
  <2>1. hand[a].ev \in Event
    BY <1>1 DEF DeliverAppend, TypeOK, Holding
  <2>2. acked' = acked
    BY <1>1 DEF DeliverAppend
  <2>3. ASSUME NEW k \in 0..Len(segments), SpoolAppend(hand[a].ev, k)
        PROVE  Covered \subseteq Covered' /\ hand[a].ev \in Covered'
    <3>1. unspooled' = unspooled \cup EventsIn(SubSeq(segments, 1, k))
      BY <2>3 DEF SpoolAppend
    <3>2. EventsIn(segments') = EventsIn(DropFirst(segments, k)) \cup {hand[a].ev}
      BY <2>1, <2>3, AppendedEvents
    <3>3. EventsIn(segments) = EventsIn(SubSeq(segments, 1, k)) \cup EventsIn(DropFirst(segments, k))
      BY EventsSplit DEF TypeOK
    <3>4. QED
      BY <2>2, <3>1, <3>2, <3>3 DEF Covered
  <2>4. ASSUME unspooled' = unspooled \cup {hand[a].ev}, segments' = segments
        PROVE  Covered \subseteq Covered' /\ hand[a].ev \in Covered'
    BY <2>2, <2>4 DEF Covered
  <2>5. QED
    BY <1>1, <2>3, <2>4 DEF DeliverAppend, spool
<1>2. ASSUME ReplayEnd \/ Tick PROVE Covered \subseteq Covered'
  <2>1. AckUpTo(highWater) /\ unspooled' = unspooled
    BY <1>2 DEF ReplayEnd, Tick
  <2>2. QED
    BY <2>1, AckMoves DEF Covered
<1>3. ASSUME UNCHANGED <<segments, acked, unspooled>> PROVE Covered \subseteq Covered'
  BY <1>3 DEF Covered
<1>4. ASSUME NEW p \in Publishers, (\E prio \in Priorities : Build(p, prio)) \/ Submit(p)
      PROVE  UNCHANGED <<segments, acked, unspooled>>
  BY <1>4 DEF Build, Submit, SubmitDirect, SubmitQueued, SubmitFull, history, spool
<1>5. ASSUME NEW a \in Actors, DeliverSend(a) \/ DeliverMark(a)
      PROVE  UNCHANGED <<segments, acked, unspooled>>
  BY <1>5 DEF DeliverSend, DeliverMark, history, spool
<1>6. ASSUME ReplayRecord \/ Recv \/ Report \/ Restart PROVE UNCHANGED <<segments, acked, unspooled>>
  BY <1>6 DEF ReplayRecord, Recv, Report, Restart, history, spool
<1>7. ASSUME NEW c \in Subscribers, Subscribe(c) \/ Receive(c) \/ Disconnect(c)
      PROVE  UNCHANGED <<segments, acked, unspooled>>
  BY <1>7 DEF Subscribe, Receive, Disconnect, history, spool
<1>8. ASSUME UNCHANGED vars PROVE UNCHANGED <<segments, acked, unspooled>>
  BY <1>8 DEF vars, spool, history
<1>9. QED
  BY <1>1, <1>2, <1>3, <1>4, <1>5, <1>6, <1>7, <1>8 DEF Next, Deliver, Replay

(* Who holds an event to send after a step held it, or appended it, before. *)
LEMMA SendersStep ==
  ASSUME TypeOK, [Next]_vars, NEW a \in Actors, hand'[a].pc = "send"
  PROVE  hand'[a].ev = hand[a].ev /\ (hand[a].pc = "send" \/ DeliverAppend(a))
<1> USE BusConstants DEF TypeOK, Actors, Idle, At
<1>1. ASSUME NEW p \in Publishers, NEW prio \in Priorities, Build(p, prio)
      PROVE  hand'[a] = hand[a]
  BY <1>1 DEF Build
<1>2. ASSUME NEW p \in Publishers, Submit(p) PROVE hand'[a] = hand[a]
  <2> HIDE DEF TypeOK
  <2>1. /\ \A b \in Actors \ {p} : hand'[b] = hand[b]
        /\ hand'[p] = Idle \/ hand'[p] = At("append", hand[p].ev)
    BY <1>2, SubmitMoves
  <2>2. QED
    BY <2>1
<1>3. ASSUME NEW b \in Actors, DeliverAppend(b)
      PROVE  hand'[a].ev = hand[a].ev /\ (hand[a].pc = "send" \/ DeliverAppend(a))
  BY <1>3 DEF DeliverAppend
<1>4. ASSUME NEW b \in Actors, DeliverSend(b) \/ DeliverMark(b) PROVE hand'[a] = hand[a]
  BY <1>4 DEF DeliverSend, DeliverMark
<1>5. CASE Replay \/ Tick \/ Report
  BY <1>5, TaskMoves
<1>6. CASE Recv
  BY <1>6 DEF Recv
<1>7. ASSUME NEW c \in Subscribers, Subscribe(c) \/ Receive(c) \/ Disconnect(c)
      PROVE  hand'[a] = hand[a]
  BY <1>7 DEF Subscribe, Receive, Disconnect
<1>8. CASE Restart
  BY <1>8 DEF Restart, Started
<1>9. CASE UNCHANGED vars
  BY <1>9 DEF vars
<1>10. QED
  BY <1>1, <1>2, <1>3, <1>4, <1>5, <1>6, <1>7, <1>8, <1>9 DEF Next, Deliver

(* What a step of a durable bus broadcasts was to be sent, is a record of  *)
(* the spool, or is a drop report.                                         *)
LEMMA BroadcastStep ==
  ASSUME TypeOK, [Next]_vars, durable, NEW e \in everSent', e \notin everSent
  PROVE  \/ \E a \in Actors : hand[a].pc = "send" /\ hand[a].ev = e
         \/ e \in EventsIn(segments)
         \/ e.report
<1>1. ASSUME NEW p \in Publishers, (\E prio \in Priorities : Build(p, prio)) \/ Submit(p)
      PROVE  everSent' = everSent
  BY <1>1 DEF Build, Submit, SubmitDirect, SubmitQueued, SubmitFull, history
<1>2. ASSUME NEW a \in Actors, DeliverAppend(a) \/ DeliverMark(a) PROVE everSent' = everSent
  BY <1>2 DEF DeliverAppend, DeliverMark, history
<1>3. ASSUME NEW a \in Actors, DeliverSend(a) PROVE hand[a].pc = "send" /\ hand[a].ev = e
  BY <1>3 DEF DeliverSend
<1>4. CASE ReplayRecord
  <2>1. /\ replayAt.seg \in DOMAIN segments
        /\ replayAt.rec \in DOMAIN segments[replayAt.seg].events
        /\ e = segments[replayAt.seg].events[replayAt.rec]
    BY <1>4 DEF ReplayRecord
  <2>2. e \in EventsIn(segments)
    BY <2>1, InEvents DEF TypeOK
  <2>3. QED
    BY <2>2
<1>5. CASE ReplayEnd \/ Tick \/ Recv \/ Restart
  BY <1>5 DEF ReplayEnd, Tick, Recv, Restart, history
<1>6. CASE Report
  BY <1>6 DEF Report, Unreported
<1>7. ASSUME NEW c \in Subscribers, Subscribe(c) \/ Receive(c) \/ Disconnect(c)
      PROVE  everSent' = everSent
  BY <1>7 DEF Subscribe, Receive, Disconnect, history
<1>8. CASE UNCHANGED vars
  BY <1>8 DEF vars, history
<1>9. QED
  BY <1>1, <1>2, <1>3, <1>4, <1>5, <1>6, <1>7, <1>8 DEF Next, Deliver, Replay

(* A bus stays durable, or direct, for good.                               *)
LEMMA ModeStays == [Next]_vars => durable' = durable
  BY DEF Next, vars, Build, Submit, SubmitDirect, SubmitQueued, SubmitFull, Deliver, DeliverAppend,
     DeliverSend, DeliverMark, Replay, ReplayRecord, ReplayEnd, Recv, Tick, Report, Subscribe, Receive,
     Disconnect, Restart

(* Write-ahead: whatever a durable bus broadcast, drop reports aside, is   *)
(* in its spool, or was acknowledged, evicted or failed to be written,     *)
(* over any number of restarts (deliver_durable, replay_spool, bus.rs).    *)
THEOREM WriteAheadCorrect == Spec => []WriteAhead
<1>1. Init => AheadInv
  <2>1. Init => TypeOK
    BY BusConstants DEF Init, TypeOK, Started, Idle, At, Actors, PublisherPcs, TaskPcs,
       Holding, ReplayStart
  <2>2. Init => SendingIsCovered /\ WriteAhead
    BY DEF Init, SendingIsCovered, WriteAhead, Started, Idle, At
  <2>3. QED
    BY <2>1, <2>2 DEF AheadInv
<1>2. AheadInv /\ [Next]_vars => AheadInv'
  <2> SUFFICES ASSUME AheadInv, [Next]_vars, durable'
               PROVE  TypeOK' /\ SendingIsCovered' /\ WriteAhead'
    BY TypeStep DEF AheadInv, WriteAhead
  <2>1. TypeOK /\ TypeOK' /\ durable /\ SendingIsCovered
    BY TypeStep, ModeStays DEF AheadInv
  <2>2. Covered \subseteq Covered'
    BY <2>1, CoveredGrows
  <2>3. SendingIsCovered'
    BY <2>1, <2>2, CoveredGrows, SendersStep DEF SendingIsCovered
  <2>4. \A e \in everSent' : ~e.report => e \in Covered
    <3> SUFFICES ASSUME NEW e \in everSent', ~e.report PROVE e \in Covered
      OBVIOUS
    <3>1. CASE e \in everSent
      BY <2>1, <3>1 DEF AheadInv, WriteAhead, Covered
    <3>2. CASE e \notin everSent
      BY <2>1, <3>2, BroadcastStep DEF SendingIsCovered, Covered
    <3>3. QED
      BY <3>1, <3>2
  <2>5. QED
    BY <2>1, <2>2, <2>3, <2>4 DEF WriteAhead, Covered
<1>3. QED
  BY <1>1, <1>2, PTL DEF Spec, AheadInv

-----------------------------------------------------------------------------
(* What an acknowledgement leaves.  Of the task's own events in the spool, *)
(* each was broadcast, is about to be, or waits for the replay; what the   *)
(* publishers deliver inline is spilled.                                   *)
Awaits(n, r) == n > replayAt.seg \/ (n = replayAt.seg /\ r >= replayAt.rec)

SpooledOf(ev) ==
  \/ ev \in spilled \cup everSent
  \/ hand[Task].pc = "send" /\ hand[Task].ev = ev

SpooledWas ==
  \A n \in DOMAIN segments : \A r \in DOMAIN segments[n].events :
    SpooledOf(segments[n].events[r]) \/ (hand[Task].pc = "replay" /\ Awaits(n, r))

InlineIsSpilled ==
  \A p \in Publishers : hand[p].pc \in {"append", "send"} => hand[p].ev \in spilled

ReplayHolds == SpoolLocked => hand[Task].pc = "replay"

(* A bus without a spool never appends to it.                              *)
DirectIsEmpty ==
  ~durable => segments = << >> /\ \A a \in Actors : hand[a].pc \in {"idle", "built"}

AckInv ==
  /\ TypeOK /\ SpooledWas /\ InlineIsSpilled /\ ReplayHolds /\ DirectIsEmpty
  /\ AckedQueuedWasSent

(* What was spilled, and what was broadcast, only grows; only ReplayRecord *)
(* and ReplayEnd move the replay, within a boot.                           *)
LEMMA HistoryGrows ==
  ASSUME TypeOK, [Next]_vars
  PROVE  spilled \subseteq spilled' /\ everSent \subseteq everSent'
<1>1. ASSUME NEW p \in Publishers, (\E prio \in Priorities : Build(p, prio)) \/ Submit(p)
      PROVE  spilled \subseteq spilled' /\ everSent \subseteq everSent'
  BY <1>1 DEF Build, Submit, SubmitDirect, SubmitQueued, SubmitFull, history
<1>2. ASSUME NEW a \in Actors, Deliver(a)
      PROVE  spilled \subseteq spilled' /\ everSent \subseteq everSent'
  BY <1>2 DEF Deliver, DeliverAppend, DeliverSend, DeliverMark, history
<1>3. CASE Replay \/ Tick \/ Recv \/ Report \/ Restart
  BY <1>3 DEF Replay, ReplayRecord, ReplayEnd, Tick, Recv, Report, Restart, history
<1>4. ASSUME NEW c \in Subscribers, Subscribe(c) \/ Receive(c) \/ Disconnect(c)
      PROVE  spilled \subseteq spilled' /\ everSent \subseteq everSent'
  BY <1>4 DEF Subscribe, Receive, Disconnect, history
<1>5. CASE UNCHANGED vars
  BY <1>5 DEF vars, history
<1>6. QED
  BY <1>1, <1>2, <1>3, <1>4, <1>5 DEF Next

(* What a publisher delivers itself stays among the spilled events.        *)
LEMMA InlineStep ==
  ASSUME TypeOK, InlineIsSpilled, [Next]_vars
  PROVE  InlineIsSpilled'
<1> SUFFICES ASSUME NEW p \in Publishers, hand'[p].pc \in {"append", "send"}
             PROVE  hand'[p].ev \in spilled'
  BY DEF InlineIsSpilled
<1> USE BusConstants DEF Actors, Idle, At
<1>1. spilled \subseteq spilled'
  BY HistoryGrows
<1>2. CASE hand'[p].pc = "send"
  <2>1. hand'[p].ev = hand[p].ev /\ (hand[p].pc = "send" \/ DeliverAppend(p))
    BY <1>2, SendersStep
  <2>2. QED
    BY <1>1, <2>1 DEF InlineIsSpilled, DeliverAppend
<1>3. CASE hand'[p].pc = "append"
  <2>1. ASSUME NEW q \in Publishers, NEW prio \in Priorities, Build(q, prio)
        PROVE  hand'[p] = hand[p]
    BY <1>3, <2>1 DEF Build, TypeOK
  <2>2. ASSUME NEW q \in Publishers, Submit(q) PROVE hand'[p] = hand[p] \/ hand'[p].ev \in spilled'
    <3>1. CASE q # p
      BY <2>2, <3>1, SubmitMoves
    <3>2. CASE q = p
      BY <1>3, <2>2, <3>2 DEF Submit, SubmitDirect, SubmitQueued, SubmitFull, DropsWhenFull, TypeOK
    <3>3. QED
      BY <3>1, <3>2
  <2>3. ASSUME NEW a \in Actors, Deliver(a) PROVE hand'[p] = hand[p]
    BY <1>3, <2>3, DeliverMoves
  <2>4. ASSUME Replay \/ Tick \/ Report PROVE hand'[p] = hand[p]
    BY <2>4, TaskMoves
  <2>5. ASSUME Recv PROVE hand'[p] = hand[p]
    BY <2>5 DEF Recv, TypeOK
  <2>6. ASSUME NEW c \in Subscribers, Subscribe(c) \/ Receive(c) \/ Disconnect(c)
        PROVE  hand'[p] = hand[p]
    BY <2>6 DEF Subscribe, Receive, Disconnect
  <2>7. ASSUME Restart PROVE FALSE
    BY <1>3, <2>7 DEF Restart, Started
  <2>8. ASSUME UNCHANGED vars PROVE hand'[p] = hand[p]
    BY <2>8 DEF vars
  <2>9. hand'[p] = hand[p] => hand'[p].ev \in spilled'
    BY <1>1, <1>3 DEF InlineIsSpilled
  <2>10. QED
    BY <2>1, <2>2, <2>3, <2>4, <2>5, <2>6, <2>7, <2>8, <2>9 DEF Next
<1>4. QED
  BY <1>2, <1>3

(* A direct bus has no spool and delivers in one step.                     *)
LEMMA DirectStep ==
  ASSUME TypeOK, DirectIsEmpty, [Next]_vars
  PROVE  DirectIsEmpty'
<1> SUFFICES ASSUME ~durable, ~durable'
             PROVE  segments' = << >> /\ \A a \in Actors : hand'[a].pc \in {"idle", "built"}
  BY ModeStays DEF DirectIsEmpty
<1> USE BusConstants DEF TypeOK, Actors, Idle, At, DirectIsEmpty
<1>1. ASSUME NEW p \in Publishers, (\E prio \in Priorities : Build(p, prio)) \/ Submit(p)
      PROVE  segments' = << >> /\ \A a \in Actors : hand'[a].pc \in {"idle", "built"}
  BY <1>1 DEF Build, Submit, SubmitDirect, SubmitQueued, SubmitFull, spool
<1>2. ASSUME NEW a \in Actors, Deliver(a) PROVE FALSE
  BY <1>2 DEF Deliver, DeliverAppend, DeliverSend, DeliverMark
<1>3. ASSUME Replay \/ Tick \/ Recv \/ Report PROVE FALSE
  BY <1>3 DEF Replay, ReplayRecord, ReplayEnd, Tick, Recv, Report
<1>4. ASSUME NEW c \in Subscribers, Subscribe(c) \/ Receive(c) \/ Disconnect(c)
      PROVE  hand' = hand /\ segments' = segments
  BY <1>4 DEF Subscribe, Receive, Disconnect, spool
<1>5. CASE Restart
  BY <1>5 DEF Restart, Started, spool
<1>6. CASE UNCHANGED vars
  BY <1>6 DEF vars, spool
<1>7. QED
  BY <1>1, <1>2, <1>3, <1>4, <1>5, <1>6 DEF Next

(* The spool holds the lock of the replay only while the task replays.     *)
LEMMA LockStep ==
  ASSUME TypeOK, ReplayHolds, [Next]_vars
  PROVE  ReplayHolds'
<1> SUFFICES ASSUME replayAt' # ReplayStart PROVE hand'[Task].pc = "replay"
  BY DEF ReplayHolds, SpoolLocked
<1> USE BusConstants DEF Actors, ReplayHolds, SpoolLocked
<1>1. ASSUME NEW p \in Publishers, NEW prio \in Priorities, Build(p, prio)
      PROVE  replayAt' = replayAt /\ hand'[Task] = hand[Task]
  BY <1>1 DEF Build, TypeOK
<1>2. ASSUME NEW p \in Publishers, Submit(p)
      PROVE  replayAt' = replayAt /\ hand'[Task] = hand[Task]
  <2>1. replayAt' = replayAt
    BY <1>2 DEF Submit, SubmitDirect, SubmitQueued, SubmitFull
  <2>2. QED
    BY <1>2, <2>1, SubmitMoves
<1>3. ASSUME NEW a \in Actors, Deliver(a)
      PROVE  replayAt' = replayAt /\ (hand'[Task] = hand[Task] \/ hand[Task].pc # "replay")
  <2>1. replayAt' = replayAt /\ hand[a].pc # "replay"
    BY <1>3 DEF Deliver, DeliverAppend, DeliverSend, DeliverMark
  <2>2. QED
    BY <1>3, <2>1, DeliverMoves
<1>4. CASE ReplayRecord
  BY <1>4 DEF ReplayRecord
<1>5. CASE ReplayEnd
  BY <1>5 DEF ReplayEnd
<1>6. ASSUME Tick \/ Recv \/ Report PROVE replayAt' = replayAt /\ hand[Task].pc # "replay"
  BY <1>6 DEF Tick, Recv, Report
<1>7. ASSUME NEW c \in Subscribers, Subscribe(c) \/ Receive(c) \/ Disconnect(c)
      PROVE  hand' = hand /\ replayAt' = replayAt
  BY <1>7 DEF Subscribe, Receive, Disconnect
<1>8. CASE Restart
  BY <1>8 DEF Restart
<1>9. CASE UNCHANGED vars
  BY <1>9 DEF vars
<1>10. QED
  BY <1>1, <1>2, <1>3, <1>4, <1>5, <1>6, <1>7, <1>8, <1>9 DEF Next, Replay

(* Once the replay is over, and with nothing in the task's hand, whatever  *)
(* the spool holds was broadcast or spilled.                               *)
LEMMA RestedSpool ==
  ASSUME TypeOK, SpooledWas, hand[Task].pc # "send", hand[Task].pc = "replay" => Replayed
  PROVE  EventsIn(segments) \subseteq spilled \cup everSent
<1> SUFFICES ASSUME NEW e \in EventsIn(segments) PROVE e \in spilled \cup everSent
  OBVIOUS
<1>1. PICK n \in DOMAIN segments : \E r \in DOMAIN segments[n].events : segments[n].events[r] = e
  BY InEvents DEF TypeOK
<1>2. PICK r \in DOMAIN segments[n].events : segments[n].events[r] = e
  BY <1>1
<1>3. hand[Task].pc = "replay" => ~Awaits(n, r)
  <2>1. n \in 1..Len(segments) /\ replayAt.seg \in Nat
    BY DEF TypeOK
  <2>2. QED
    BY <2>1 DEF Awaits, Replayed
<1>4. QED
  BY <1>2, <1>3 DEF SpooledWas, SpooledOf

(* A record is where it was, or in an event the task broadcast or spilled. *)
LEMMA SpooledSubset ==
  ASSUME TypeOK', EventsIn(segments') \subseteq spilled' \cup everSent'
  PROVE  SpooledWas'
<1>1. \A n \in DOMAIN segments' : \A r \in DOMAIN segments'[n].events :
        segments'[n].events[r] \in EventsIn(segments')
  BY InEvents DEF TypeOK
<1>2. QED
  BY <1>1 DEF SpooledWas, SpooledOf

(* Segments and records are numbered from one.                             *)
LEMMA RecordPlaces ==
  ASSUME NEW segs \in Seq(Segment), NEW n \in DOMAIN segs
  PROVE  /\ segs[n].events \in Seq(Event) /\ n \in Nat /\ n >= 1
         /\ \A r \in DOMAIN segs[n].events : r \in Nat /\ r >= 1
<1>1. segs[n] \in Segment
  OBVIOUS
<1>2. segs[n].events \in Seq(Event)
  BY <1>1 DEF Segment
<1>3. QED
  BY <1>2

(* At the start of the replay every record awaits it.                      *)
LEMMA StartAwaitsAll ==
  ASSUME TypeOK', replayAt' = ReplayStart, hand'[Task].pc = "replay"
  PROVE  SpooledWas'
<1> SUFFICES ASSUME NEW n \in DOMAIN segments', NEW r \in DOMAIN segments'[n].events
             PROVE  Awaits(n, r)'
  BY DEF SpooledWas
<1>1. segments' \in Seq(Segment)
  BY DEF TypeOK
<1>2. n \in Nat /\ n >= 1 /\ r \in Nat /\ r >= 1
  BY <1>1, RecordPlaces
<1>3. QED
  BY <1>2 DEF Awaits, ReplayStart

(* A record in the spool stays what it is against the replay and the hand  *)
(* of the task: broadcast, spilled, or still before it.                    *)
LEMMA SpooledStep ==
  ASSUME AckInv, [Next]_vars
  PROVE  SpooledWas'
<1>0. /\ TypeOK /\ TypeOK' /\ SpooledWas /\ InlineIsSpilled /\ ReplayHolds /\ DirectIsEmpty
      /\ spilled \subseteq spilled' /\ everSent \subseteq everSent'
  BY TypeStep, HistoryGrows DEF AckInv
<1> USE BusConstants DEF Actors
<1>1. ASSUME segments' = segments, replayAt' = replayAt, hand'[Task] = hand[Task]
      PROVE  SpooledWas'
  BY <1>0, <1>1 DEF SpooledWas, SpooledOf, Awaits
<1>2. ASSUME NEW p \in Publishers, (\E prio \in Priorities : Build(p, prio)) \/ Submit(p)
      PROVE  segments' = segments /\ replayAt' = replayAt /\ hand'[Task] = hand[Task]
  <2>1. segments' = segments /\ replayAt' = replayAt
    BY <1>2 DEF Build, Submit, SubmitDirect, SubmitQueued, SubmitFull, spool
  <2>2. CASE \E prio \in Priorities : Build(p, prio)
    BY <1>0, <2>1, <2>2 DEF Build, TypeOK
  <2>3. CASE Submit(p)
    BY <1>0, <2>1, <2>3, SubmitMoves
  <2>4. QED
    BY <1>2, <2>2, <2>3
<1>3. ASSUME NEW a \in Actors, DeliverAppend(a) PROVE SpooledWas'
  <2>1. /\ hand[a].ev \in Event /\ hand[a].pc = "append" /\ ~SpoolLocked /\ replayAt' = replayAt
        /\ hand' = [hand EXCEPT ![a] = At("send", hand[a].ev)]
    BY <1>0, <1>3 DEF DeliverAppend, TypeOK, Holding
  <2>2. EventsIn(segments') \subseteq EventsIn(segments) \cup {hand[a].ev}
    <3>1. ASSUME NEW k \in 0..Len(segments), SpoolAppend(hand[a].ev, k)
          PROVE  EventsIn(segments') \subseteq EventsIn(segments) \cup {hand[a].ev}
      <4>1. EventsIn(segments') = EventsIn(DropFirst(segments, k)) \cup {hand[a].ev}
        BY <1>0, <2>1, <3>1, AppendedEvents
      <4>2. EventsIn(DropFirst(segments, k)) \subseteq EventsIn(segments)
        BY <1>0, EventsSplit DEF TypeOK
      <4>3. QED
        BY <4>1, <4>2
    <3>2. QED
      BY <1>3, <3>1 DEF DeliverAppend, spool
  <2>3. CASE hand[Task].pc = "replay"
    <3>1. hand'[Task].pc = "replay"
      BY <1>0, <2>1, <2>3 DEF TypeOK
    <3>2. QED
      BY <1>0, <2>1, <3>1, StartAwaitsAll DEF SpoolLocked
  <2>4. CASE hand[Task].pc # "replay"
    <3> SUFFICES ASSUME NEW n \in DOMAIN segments', NEW r \in DOMAIN segments'[n].events
                 PROVE  \/ segments'[n].events[r] \in spilled' \cup everSent'
                        \/ hand'[Task].pc = "send" /\ hand'[Task].ev = segments'[n].events[r]
      BY DEF SpooledWas, SpooledOf
    <3> DEFINE e == segments'[n].events[r]
    <3>1. e \in EventsIn(segments')
      BY <1>0, InEvents DEF TypeOK
    <3> HIDE DEF e
    <3>2. CASE e = hand[a].ev
      <4>1. CASE a = Task
        <5>1. hand'[Task].pc = "send" /\ hand'[Task].ev = hand[a].ev
          BY <1>0, <2>1, <4>1 DEF TypeOK, At
        <5>2. QED
          BY <3>2, <5>1 DEF e
      <4>2. CASE a # Task
        BY <1>0, <2>1, <3>2, <4>2 DEF InlineIsSpilled, e
      <4>3. QED
        BY <4>1, <4>2
    <3>3. CASE e # hand[a].ev
      <4>1. PICK m \in DOMAIN segments : \E q \in DOMAIN segments[m].events : segments[m].events[q] = e
        BY <1>0, <2>2, <3>1, <3>3, InEvents DEF TypeOK
      <4>2. SpooledOf(e)
        BY <1>0, <2>4, <4>1 DEF SpooledWas
      <4>3. e \in spilled \cup everSent \/ hand'[Task] = hand[Task]
        BY <1>0, <2>1, <4>2 DEF SpooledOf, TypeOK
      <4>4. QED
        BY <1>0, <4>2, <4>3 DEF SpooledOf, e
    <3>4. QED
      BY <3>2, <3>3
  <2>5. QED
    BY <2>3, <2>4
<1>4. ASSUME NEW a \in Actors, DeliverSend(a) PROVE SpooledWas'
  <2>1. segments' = segments /\ replayAt' = replayAt /\ hand[a].ev \in everSent' /\ hand[a].pc = "send"
    BY <1>4 DEF DeliverSend, spool
  <2>2. CASE a = Task
    <3>1. EventsIn(segments) \subseteq spilled \cup everSent \cup {hand[a].ev}
      <4> SUFFICES ASSUME NEW e \in EventsIn(segments)
                   PROVE  e \in spilled \cup everSent \cup {hand[a].ev}
        OBVIOUS
      <4>1. PICK n \in DOMAIN segments : \E r \in DOMAIN segments[n].events : segments[n].events[r] = e
        BY <1>0, InEvents DEF TypeOK
      <4>2. QED
        BY <1>0, <2>1, <2>2, <4>1 DEF SpooledWas, SpooledOf
    <3>2. QED
      BY <1>0, <2>1, <3>1, SpooledSubset
  <2>3. CASE a # Task
    <3>1. hand'[Task] = hand[Task]
      BY <1>0, <1>4, <2>3 DEF DeliverSend, TypeOK
    <3>2. QED
      BY <1>1, <2>1, <3>1
  <2>4. QED
    BY <2>2, <2>3
<1>5. ASSUME NEW a \in Actors, DeliverMark(a) PROVE SpooledWas'
  <2>1. segments' = segments /\ replayAt' = replayAt /\ hand[a].pc = "mark"
    BY <1>5 DEF DeliverMark, spool
  <2>2. CASE a = Task
    BY <1>0, <2>1, <2>2, RestedSpool, SpooledSubset
  <2>3. CASE a # Task
    <3>1. hand'[Task] = hand[Task]
      BY <1>0, <1>5, <2>3 DEF DeliverMark, TypeOK
    <3>2. QED
      BY <1>1, <2>1, <3>1
  <2>4. QED
    BY <2>2, <2>3
<1>6. ASSUME ReplayRecord PROVE SpooledWas'
  <2> DEFINE here == segments[replayAt.seg].events
  <2>1. /\ segments' = segments /\ hand' = hand /\ hand[Task].pc = "replay"
        /\ replayAt.seg \in DOMAIN segments /\ replayAt.rec \in DOMAIN here
        /\ here[replayAt.rec] \in everSent'
        /\ replayAt' = IF replayAt.rec < Len(here) THEN [replayAt EXCEPT !.rec = @ + 1]
                       ELSE [seg |-> replayAt.seg + 1, rec |-> 1]
    BY <1>6 DEF ReplayRecord, spool
  <2>2. here \in Seq(Event) /\ replayAt \in [seg : Nat \ {0}, rec : Nat \ {0}]
    <3>1. segments \in Seq(Segment) /\ replayAt \in [seg : Nat \ {0}, rec : Nat \ {0}]
      BY <1>0 DEF TypeOK
    <3>2. QED
      BY <2>1, <3>1, RecordPlaces
  <2> SUFFICES ASSUME NEW n \in DOMAIN segments, NEW r \in DOMAIN segments[n].events,
                      ~SpooledOf(segments[n].events[r])', Awaits(n, r)
               PROVE  Awaits(n, r)'
    BY <1>0, <2>1 DEF SpooledWas, SpooledOf
  <2>3. ~(n = replayAt.seg /\ r = replayAt.rec)
    BY <2>1 DEF SpooledOf
  <2>4. n \in Nat /\ r \in Nat /\ r >= 1
    <3>1. segments \in Seq(Segment)
      BY <1>0 DEF TypeOK
    <3>2. QED
      BY <3>1, RecordPlaces
  <2>5. CASE replayAt.rec < Len(here)
    <3>1. replayAt'.seg = replayAt.seg /\ replayAt'.rec = replayAt.rec + 1
      BY <2>1, <2>2, <2>5
    <3>2. QED
      BY <2>2, <2>3, <2>4, <3>1 DEF Awaits
  <2>6. CASE ~(replayAt.rec < Len(here))
    <3>1. replayAt'.seg = replayAt.seg + 1 /\ replayAt'.rec = 1
      BY <2>1, <2>6
    <3>2. n = replayAt.seg => r <= Len(here)
      BY <2>2
    <3> HIDE DEF here
    <3>3. Len(here) \in Nat
      BY <2>2
    <3>4. QED
      BY <2>2, <2>3, <2>4, <2>6, <3>1, <3>2, <3>3 DEF Awaits
  <2>7. QED
    BY <2>5, <2>6
<1>7. ASSUME ReplayEnd \/ Tick PROVE SpooledWas'
  <2>1. AckUpTo(highWater) /\ hand[Task].pc # "send" /\ (hand[Task].pc = "replay" => Replayed)
    BY <1>7 DEF ReplayEnd, Tick
  <2>2. EventsIn(segments') \subseteq EventsIn(segments)
    BY <1>0, <2>1, AckMoves
  <2>3. EventsIn(segments) \subseteq spilled \cup everSent
    BY <1>0, <2>1, RestedSpool
  <2>4. QED
    BY <1>0, <2>2, <2>3, SpooledSubset
<1>8. ASSUME Recv \/ Report PROVE SpooledWas'
  <2>1. segments' = segments /\ hand[Task].pc \notin {"send", "replay"}
    BY <1>8 DEF Recv, Report, spool
  <2>2. EventsIn(segments) \subseteq spilled \cup everSent
    BY <1>0, <2>1, RestedSpool
  <2>3. QED
    BY <1>0, <2>1, <2>2, SpooledSubset
<1>9. ASSUME NEW c \in Subscribers, Subscribe(c) \/ Receive(c) \/ Disconnect(c)
      PROVE  segments' = segments /\ replayAt' = replayAt /\ hand' = hand
  BY <1>9 DEF Subscribe, Receive, Disconnect, spool
<1>10. ASSUME Restart PROVE SpooledWas'
  <2>1. /\ replayAt' = ReplayStart /\ segments' = segments /\ durable' = durable
        /\ hand'[Task].pc = IF durable THEN "replay" ELSE "idle"
    BY <1>10 DEF Restart, Started, spool, At, Idle
  <2>2. CASE durable
    BY <1>0, <2>1, <2>2, StartAwaitsAll
  <2>3. CASE ~durable
    BY <1>0, <2>1, <2>3 DEF DirectIsEmpty, SpooledWas
  <2>4. QED
    BY <2>2, <2>3
<1>11. ASSUME UNCHANGED vars PROVE segments' = segments /\ replayAt' = replayAt /\ hand' = hand
  BY <1>11 DEF vars, spool
<1>12. QED
  BY <1>1, <1>2, <1>3, <1>4, <1>5, <1>6, <1>7, <1>8, <1>9, <1>10, <1>11 DEF Next, Deliver, Replay

(* What is acked was broadcast: an ack cuts whole segments up to the mark. *)
LEMMA AckedStep ==
  ASSUME AckInv, [Next]_vars
  PROVE  AckedQueuedWasSent'
<1>0. /\ TypeOK /\ SpooledWas /\ acked \ spilled \subseteq everSent
      /\ spilled \subseteq spilled' /\ everSent \subseteq everSent'
  BY HistoryGrows DEF AckInv, AckedQueuedWasSent
<1>1. ASSUME acked' = acked PROVE AckedQueuedWasSent'
  BY <1>0, <1>1 DEF AckedQueuedWasSent
<1>2. ASSUME ReplayEnd \/ Tick PROVE AckedQueuedWasSent'
  <2>1. AckUpTo(highWater) /\ hand[Task].pc # "send" /\ (hand[Task].pc = "replay" => Replayed)
    BY <1>2 DEF ReplayEnd, Tick
  <2>2. acked' \subseteq EventsIn(segments) \cup acked
    BY <1>0, <2>1, AckMoves
  <2>3. EventsIn(segments) \subseteq spilled \cup everSent
    BY <1>0, <2>1, RestedSpool
  <2>4. QED
    BY <1>0, <2>2, <2>3 DEF AckedQueuedWasSent
<1>3. ASSUME NEW p \in Publishers, (\E prio \in Priorities : Build(p, prio)) \/ Submit(p)
      PROVE  acked' = acked
  BY <1>3 DEF Build, Submit, SubmitDirect, SubmitQueued, SubmitFull, history
<1>4. ASSUME NEW a \in Actors, Deliver(a) PROVE acked' = acked
  BY <1>4 DEF Deliver, DeliverAppend, DeliverSend, DeliverMark, history
<1>5. ASSUME ReplayRecord \/ Recv \/ Report \/ Restart PROVE acked' = acked
  BY <1>5 DEF ReplayRecord, Recv, Report, Restart, history
<1>6. ASSUME NEW c \in Subscribers, Subscribe(c) \/ Receive(c) \/ Disconnect(c)
      PROVE  acked' = acked
  BY <1>6 DEF Subscribe, Receive, Disconnect, history
<1>7. ASSUME UNCHANGED vars PROVE acked' = acked
  BY <1>7 DEF vars, history
<1>8. QED
  BY <1>1, <1>2, <1>3, <1>4, <1>5, <1>6, <1>7 DEF Next, Replay

(* An ack deletes from the spool only what was broadcast, in this boot or  *)
(* by the replay of a later one, whatever the high-water mark it is given; *)
(* the events publishers deliver inline are the exception (run_delivery,   *)
(* replay_spool, bus.rs).                                                  *)
THEOREM AckCorrect == Spec => []AckedQueuedWasSent
<1>1. Init => AckInv
  <2>1. Init => TypeOK
    BY BusConstants DEF Init, TypeOK, Started, Idle, At, Actors, PublisherPcs, TaskPcs,
       Holding, ReplayStart
  <2>2. Init => SpooledWas /\ InlineIsSpilled /\ ReplayHolds /\ DirectIsEmpty /\ AckedQueuedWasSent
    BY BusConstants DEF Init, SpooledWas, InlineIsSpilled, ReplayHolds, SpoolLocked, DirectIsEmpty,
       AckedQueuedWasSent, Started, Idle, At, Actors
  <2>3. QED
    BY <2>1, <2>2 DEF AckInv
<1>2. AckInv /\ [Next]_vars => AckInv'
  BY TypeStep, SpooledStep, InlineStep, LockStep, DirectStep, AckedStep DEF AckInv
<1>3. QED
  BY <1>1, <1>2, PTL DEF Spec, AckInv

-----------------------------------------------------------------------------
(* Once.  An event of this boot is in one hand, or at one place of the     *)
(* queue, or dropped, or broadcast; only a spilled one is broadcast while  *)
(* it is in a hand, and only the replay broadcasts it again.               *)
Ours(ev) == ev.boot = boot
Holds(a) == hand[a].pc \in Holding

Fresh ==
  /\ \A a \in Actors : Holds(a) => hand[a].ev.seq < sequence
  /\ \A i \in DOMAIN queue : queue[i].seq < sequence
  /\ \A i \in DOMAIN sent : Ours(sent[i]) => sent[i].seq < sequence
  /\ \A ev \in dropped : Ours(ev) /\ ev.seq < sequence
  /\ \A ev \in spilled \cup EventsIn(segments) :
       ev.boot <= boot /\ (Ours(ev) => ev.seq < sequence)

InOnePlace ==
  /\ \A a, b \in Actors : Holds(a) /\ Holds(b) /\ hand[a].ev = hand[b].ev => a = b
  /\ \A a \in Actors, i \in DOMAIN queue : Holds(a) => hand[a].ev # queue[i]
  /\ \A i, j \in DOMAIN queue : queue[i] = queue[j] => i = j

DroppedIsGone ==
  /\ \A a \in Actors : Holds(a) => hand[a].ev \notin dropped
  /\ \A i \in DOMAIN queue : queue[i] \notin dropped
  /\ spilled \cap dropped = {}

SpilledIsInline ==
  /\ \A a \in Actors : Holds(a) /\ hand[a].ev \in spilled => a # Task /\ hand[a].pc # "built"
  /\ \A i \in DOMAIN queue : queue[i] \notin spilled
  /\ hand[Task].pc = "replay" => \A ev \in EventsIn(segments) : Ours(ev) => ev \in spilled

SentIsOut ==
  \A i \in DOMAIN sent :
    /\ sent[i] \notin dropped
    /\ \A j \in DOMAIN queue : sent[i] # queue[j]
    /\ \A a \in Actors : Holds(a) /\ hand[a].ev = sent[i] => sent[i] \in spilled
    /\ \A j \in DOMAIN sent : sent[j] = sent[i] /\ j # i /\ Ours(sent[i]) => sent[i] \in spilled

OnceInv ==
  /\ TypeOK /\ OfThisBoot /\ InlineIsSpilled
  /\ Fresh /\ InOnePlace /\ DroppedIsGone /\ SpilledIsInline /\ SentIsOut

(* The places of a sequence with one more element, seen from either end.   *)
LEMMA AppendView ==
  ASSUME NEW S, NEW s \in Seq(S), NEW e \in S
  PROVE  /\ \A i \in DOMAIN Append(s, e) :
              (i \in DOMAIN s /\ Append(s, e)[i] = s[i]) \/ (i = Len(s) + 1 /\ Append(s, e)[i] = e)
         /\ Len(s) + 1 \notin DOMAIN s
  OBVIOUS

(* Hands that only let go, or go on with the event they had.               *)
Kept(a) == hand'[a].pc \in Holding => hand[a].pc \in Holding /\ hand'[a].ev = hand[a].ev

(* Broadcasting an event nobody else will broadcast, or a spilled one.     *)
LEMMA OneMoreSent ==
  ASSUME TypeOK, SentIsOut, NEW e \in Event, sent' = Append(sent, e), \A a \in Actors : Kept(a),
         UNCHANGED <<queue, dropped, boot, spilled>>,
         e \notin dropped, \A j \in DOMAIN queue : e # queue[j],
         \A a \in Actors : hand'[a].pc \in Holding /\ hand'[a].ev = e => e \in spilled,
         \A i \in DOMAIN sent : sent[i] = e /\ Ours(e) => e \in spilled
  PROVE  SentIsOut'
<1>1. sent \in Seq(Event)
  BY DEF TypeOK
<1>2. \A i \in DOMAIN sent' :
        (i \in DOMAIN sent /\ sent'[i] = sent[i]) \/ (i = Len(sent) + 1 /\ sent'[i] = e)
  BY <1>1, AppendView
<1> SUFFICES ASSUME NEW i \in DOMAIN sent'
             PROVE  /\ sent'[i] \notin dropped
                    /\ \A j \in DOMAIN queue : sent'[i] # queue[j]
                    /\ \A a \in Actors : hand'[a].pc \in Holding /\ hand'[a].ev = sent'[i]
                                           => sent'[i] \in spilled
                    /\ \A j \in DOMAIN sent' : sent'[j] = sent'[i] /\ j # i /\ Ours(sent'[i])
                                                 => sent'[i] \in spilled
  BY DEF SentIsOut, Holds, Ours
<1>3. sent'[i] \notin dropped /\ \A j \in DOMAIN queue : sent'[i] # queue[j]
  BY <1>2 DEF SentIsOut
<1>4. \A a \in Actors : hand'[a].pc \in Holding /\ hand'[a].ev = sent'[i] => sent'[i] \in spilled
  BY <1>2 DEF SentIsOut, Holds, Kept
<1>5. \A j \in DOMAIN sent' : sent'[j] = sent'[i] /\ j # i /\ Ours(sent'[i]) => sent'[i] \in spilled
  BY <1>2 DEF SentIsOut
<1>6. QED
  BY <1>3, <1>4, <1>5

(* Nothing new in a hand, the queue or the history.                        *)
LEMMA NothingNew ==
  ASSUME InOnePlace, DroppedIsGone, SpilledIsInline, \A a \in Actors : Kept(a),
         \A a \in Actors : hand[a].pc # "built" => hand'[a].pc # "built",
         UNCHANGED <<queue, dropped, spilled, boot>>,
         \/ hand'[Task].pc # "replay"
         \/ hand[Task].pc = "replay" /\ EventsIn(segments') = EventsIn(segments)
  PROVE  InOnePlace' /\ DroppedIsGone' /\ SpilledIsInline'
<1>1. InOnePlace' /\ DroppedIsGone'
  BY DEF InOnePlace, DroppedIsGone, Kept, Holds
<1>2. \A a \in Actors : hand'[a].pc \in Holding /\ hand'[a].ev \in spilled
                          => a # Task /\ hand'[a].pc # "built"
  BY DEF SpilledIsInline, Kept, Holds
<1>3. hand'[Task].pc = "replay" => \A ev \in EventsIn(segments') : Ours(ev) => ev \in spilled
  BY DEF SpilledIsInline
<1>4. QED
  BY <1>1, <1>2, <1>3 DEF SpilledIsInline, Holds, Ours

(* Nobody held or broadcast anything new, so what was broadcast is still   *)
(* out.                                                                    *)
LEMMA SentStays ==
  ASSUME SentIsOut, \A a \in Actors : Kept(a), UNCHANGED <<queue, dropped, boot, spilled, sent>>
  PROVE  SentIsOut'
  BY DEF SentIsOut, Kept, Holds, Ours

(* The parts that say where an event is, after a step.                     *)
Placed == InOnePlace /\ DroppedIsGone /\ SpilledIsInline /\ SentIsOut

(* A new event has a sequence nothing else has.                            *)
LEMMA OnceBuild ==
  ASSUME OnceInv, NEW p \in Publishers, NEW prio \in Priorities, Build(p, prio)
  PROVE  Fresh' /\ Placed'
<1> DEFINE e == [boot |-> boot, seq |-> sequence, prio |-> prio, report |-> FALSE]
<1> USE BusConstants DEF Actors
<1>0. TypeOK /\ OfThisBoot /\ Fresh /\ InOnePlace /\ DroppedIsGone /\ SpilledIsInline /\ SentIsOut
  BY DEF OnceInv
<1>1. /\ hand' = [hand EXCEPT ![p] = At("built", e)] /\ sequence' = sequence + 1
      /\ UNCHANGED <<boot, queue, sent, dropped, spilled, segments>>
  BY DEF Build, SequenceAdvanced, history, spool
<1>2. e.boot = boot /\ e.seq = sequence /\ sequence \in Nat
  BY <1>0 DEF TypeOK
<1> HIDE DEF e
<1>3. hand'[p].pc = "built" /\ hand'[p].ev = e /\ \A a \in Actors \ {p} : hand'[a] = hand[a]
  BY <1>0, <1>1 DEF TypeOK, At
<1>4. /\ \A a \in Actors : Holds(a) => hand[a].ev # e
      /\ \A i \in DOMAIN queue : queue[i] # e
      /\ \A i \in DOMAIN sent : sent[i] # e
      /\ e \notin dropped \cup spilled
  BY <1>0, <1>2 DEF Fresh, Ours
<1>5. /\ \A a \in Actors : Holds(a) => hand[a].ev.seq \in Nat
      /\ \A i \in DOMAIN queue : queue[i].seq \in Nat
      /\ \A i \in DOMAIN sent : sent[i].seq \in Nat
      /\ \A ev \in dropped \cup spilled \cup EventsIn(segments) : ev.seq \in Nat
  <2>1. \A a \in Actors : Holds(a) => hand[a].ev \in Event
    BY <1>0 DEF TypeOK, Holds
  <2>2. /\ \A i \in DOMAIN queue : queue[i] \in Event
        /\ \A i \in DOMAIN sent : sent[i] \in Event
        /\ dropped \cup spilled \cup EventsIn(segments) \subseteq Event
    BY <1>0, EventsAreEvents DEF TypeOK
  <2>3. \A ev \in Event : ev.seq \in Nat
    BY DEF Event
  <2>4. QED
    BY <2>1, <2>2, <2>3
<1>6. Fresh'
  BY <1>0, <1>1, <1>2, <1>3, <1>5 DEF Fresh, Holds, Ours
<1>7. InOnePlace' /\ DroppedIsGone'
  BY <1>0, <1>1, <1>3, <1>4 DEF InOnePlace, DroppedIsGone, Holds
<1>8. SpilledIsInline'
  BY <1>0, <1>1, <1>3, <1>4 DEF SpilledIsInline, Holds, Ours
<1>9. SentIsOut'
  BY <1>0, <1>1, <1>3, <1>4 DEF SentIsOut, Holds, Ours
<1>10. QED
  BY <1>6, <1>7, <1>8, <1>9 DEF Placed

(* Freshness of what a step leaves where it was, or moves between places.  *)
LEMMA FreshStays ==
  ASSUME TypeOK, Fresh, OfThisBoot, UNCHANGED <<boot, sequence>>,
         \A a \in Actors : Kept(a) \/ \E i \in DOMAIN queue : hand'[a].ev = queue[i],
         \A i \in DOMAIN queue' : (\E j \in DOMAIN queue : queue'[i] = queue[j])
                                     \/ \E a \in Actors : Holds(a) /\ queue'[i] = hand[a].ev,
         \A i \in DOMAIN sent' : \/ \E j \in DOMAIN sent : sent'[i] = sent[j]
                                 \/ \E a \in Actors : Holds(a) /\ sent'[i] = hand[a].ev
                                 \/ sent'[i] \in EventsIn(segments),
         \A ev \in dropped' : ev \in dropped \/ \E a \in Actors : Holds(a) /\ ev = hand[a].ev,
         \A ev \in spilled' \cup EventsIn(segments') :
           \/ ev \in spilled \cup EventsIn(segments)
           \/ \E a \in Actors : Holds(a) /\ ev = hand[a].ev
  PROVE  Fresh'
<1>1. \A a \in Actors : Holds(a) => Ours(hand[a].ev) /\ hand[a].ev.seq < sequence
  BY DEF OfThisBoot, Holds, Ours, Fresh
<1>2. boot \in Int
  BY DEF TypeOK
<1>3. \A a \in Actors : Holds(a)' => hand'[a].ev.seq < sequence
  BY <1>1 DEF Fresh, Kept, Holds
<1>4. \A i \in DOMAIN queue' : queue'[i].seq < sequence
  BY <1>1 DEF Fresh
<1>5. \A i \in DOMAIN sent' : Ours(sent'[i]) => sent'[i].seq < sequence
  BY <1>1 DEF Fresh
<1>6. \A ev \in dropped' : Ours(ev) /\ ev.seq < sequence
  BY <1>1 DEF Fresh
<1>7. \A ev \in spilled' \cup EventsIn(segments') :
        ev.boot <= boot /\ (Ours(ev) => ev.seq < sequence)
  BY <1>1, <1>2 DEF Fresh, Ours
<1>8. QED
  BY <1>3, <1>4, <1>5, <1>6, <1>7 DEF Fresh, Ours, Holds

(* A submitted event is queued, counted as dropped, or taken inline: one   *)
(* of them.                                                                *)
LEMMA OnceSubmit ==
  ASSUME OnceInv, NEW p \in Publishers, Submit(p)
  PROVE  Fresh' /\ Placed'
<1> DEFINE e == hand[p].ev
<1> USE BusConstants DEF Actors
<1>0. TypeOK /\ OfThisBoot /\ Fresh /\ InOnePlace /\ DroppedIsGone /\ SpilledIsInline /\ SentIsOut
  BY DEF OnceInv
<1>1. /\ hand[p].pc = "built" /\ boot' = boot /\ sequence' = sequence
      /\ \A b \in Actors \ {p} : hand'[b] = hand[b]
      /\ hand'[p] = Idle \/ hand'[p] = At("append", e)
  BY <1>0, SubmitMoves
<1>2. Holds(p) /\ e \in Event
  BY <1>0, <1>1 DEF Holds, Holding, TypeOK
<1>3. segments' = segments
  BY DEF Submit, SubmitDirect, SubmitQueued, SubmitFull, spool
<1>4. /\ e \notin dropped \cup spilled /\ \A i \in DOMAIN queue : queue[i] # e
      /\ \A i \in DOMAIN sent : sent[i] # e
      /\ \A a \in Actors \ {p} : Holds(a) => hand[a].ev # e
  BY <1>0, <1>1, <1>2 DEF InOnePlace, DroppedIsGone, SpilledIsInline, SentIsOut
<1>5. /\ \A a \in Actors : Kept(a)
      /\ \A a \in Actors : hand[a].pc # "built" => hand'[a].pc # "built"
  BY <1>1, <1>2 DEF Kept, Holds, Holding, Idle, At
<1> HIDE DEF e
<1>6. CASE SubmitDirect(p)
  <2>1. /\ sent' = Append(sent, e) /\ UNCHANGED <<queue, dropped, spilled>> /\ hand'[p] = Idle
    BY <1>0, <1>6 DEF SubmitDirect, TypeOK, e
  <2>2. InOnePlace' /\ DroppedIsGone' /\ SpilledIsInline'
    BY <1>0, <1>1, <1>3, <1>5, <2>1, NothingNew
  <2>3. \A a \in Actors : hand'[a].pc \in Holding /\ hand'[a].ev = e => e \in spilled
    BY <1>1, <1>4, <2>1 DEF Idle, Holding, Holds
  <2>4. SentIsOut'
    BY <1>0, <1>1, <1>2, <1>4, <1>5, <2>1, <2>3, OneMoreSent
  <2>5. \A i \in DOMAIN sent' : (\E j \in DOMAIN sent : sent'[i] = sent[j]) \/ sent'[i] = e
    BY <1>0, <1>2, <2>1, AppendView DEF TypeOK
  <2>6. Fresh'
    BY <1>0, <1>1, <1>2, <1>3, <1>5, <2>1, <2>5, FreshStays DEF e
  <2>7. QED
    BY <2>2, <2>4, <2>6 DEF Placed
<1>7. CASE SubmitQueued(p)
  <2>1. queue' = Append(queue, e) /\ UNCHANGED <<sent, dropped, spilled>> /\ hand'[p] = Idle
    BY <1>0, <1>7 DEF SubmitQueued, TypeOK, history, e
  <2>2. /\ \A i \in DOMAIN queue' :
             (i \in DOMAIN queue /\ queue'[i] = queue[i]) \/ (i = Len(queue) + 1 /\ queue'[i] = e)
        /\ Len(queue) + 1 \notin DOMAIN queue
    BY <1>0, <1>2, <2>1, AppendView DEF TypeOK
  <2>3. \A a \in Actors : Holds(a)' => a # p /\ Holds(a) /\ hand'[a] = hand[a]
    BY <1>1, <2>1 DEF Holds, Idle, Holding
  <2>4. InOnePlace'
    <3>1. \A a, b \in Actors : Holds(a)' /\ Holds(b)' /\ hand'[a].ev = hand'[b].ev => a = b
      BY <1>0, <2>3 DEF InOnePlace
    <3>2. \A a \in Actors, i \in DOMAIN queue' : Holds(a)' => hand'[a].ev # queue'[i]
      BY <1>0, <1>4, <2>2, <2>3 DEF InOnePlace
    <3>3. \A i, j \in DOMAIN queue' : queue'[i] = queue'[j] => i = j
      BY <1>0, <1>4, <2>2 DEF InOnePlace
    <3>4. QED
      BY <3>1, <3>2, <3>3 DEF InOnePlace
  <2>5. DroppedIsGone'
    BY <1>0, <1>4, <2>1, <2>2, <2>3 DEF DroppedIsGone
  <2>6. SpilledIsInline'
    <3>1. \A a \in Actors : Holds(a)' /\ hand'[a].ev \in spilled => a # Task /\ hand'[a].pc # "built"
      BY <1>0, <2>3 DEF SpilledIsInline
    <3>2. \A i \in DOMAIN queue' : queue'[i] \notin spilled
      BY <1>0, <1>4, <2>2 DEF SpilledIsInline
    <3>3. hand'[Task].pc = "replay" => \A ev \in EventsIn(segments) : Ours(ev) => ev \in spilled
      BY <1>0, <1>1 DEF SpilledIsInline
    <3>4. QED
      BY <1>1, <1>3, <2>1, <3>1, <3>2, <3>3 DEF SpilledIsInline, Ours
  <2>7. SentIsOut'
    BY <1>0, <1>1, <1>4, <2>1, <2>2, <2>3 DEF SentIsOut, Ours
  <2>8. Fresh'
    BY <1>0, <1>1, <1>2, <1>3, <1>5, <2>1, <2>2, FreshStays DEF e
  <2>9. QED
    BY <2>4, <2>5, <2>6, <2>7, <2>8 DEF Placed
<1>8. CASE SubmitFull(p) /\ ~DropsWhenFull(e)
  <2>1. /\ hand'[p] = At("append", e) /\ spilled' = spilled \cup {e} /\ UNCHANGED <<queue, sent, dropped>>
    BY <1>0, <1>8 DEF SubmitFull, TypeOK, e
  <2>2. \A a \in Actors : hand'[a].pc \in Holding => Holds(a) /\ hand'[a].ev = hand[a].ev
    BY <1>5 DEF Kept, Holds
  <2>3. InOnePlace'
    BY <1>0, <2>1, <2>2 DEF InOnePlace, Holds
  <2>4. DroppedIsGone'
    BY <1>0, <1>4, <2>1, <2>2 DEF DroppedIsGone, Holds
  <2>5. SpilledIsInline'
    <3>1. \A a \in Actors : Holds(a)' /\ hand'[a].ev \in spilled' => a # Task /\ hand'[a].pc # "built"
      BY <1>0, <1>1, <1>4, <1>5, <2>1, <2>2 DEF SpilledIsInline, Holds, At
    <3>2. \A i \in DOMAIN queue : queue[i] \notin spilled'
      BY <1>0, <1>4, <2>1 DEF SpilledIsInline
    <3>3. hand'[Task].pc = "replay" => \A ev \in EventsIn(segments) : Ours(ev) => ev \in spilled'
      BY <1>0, <1>1, <2>1 DEF SpilledIsInline
    <3>4. QED
      BY <1>1, <1>3, <2>1, <3>1, <3>2, <3>3 DEF SpilledIsInline, Ours
  <2>6. SentIsOut'
    BY <1>0, <1>1, <2>1, <2>2 DEF SentIsOut, Holds, Ours
  <2>7. Fresh'
    BY <1>0, <1>1, <1>2, <1>3, <1>5, <2>1, FreshStays DEF e
  <2>8. QED
    BY <2>3, <2>4, <2>5, <2>6, <2>7 DEF Placed
<1>9. CASE SubmitFull(p) /\ DropsWhenFull(e)
  <2>1. hand'[p] = Idle /\ dropped' = dropped \cup {e} /\ UNCHANGED <<queue, sent, spilled>>
    BY <1>0, <1>9 DEF SubmitFull, TypeOK, e
  <2>2. \A a \in Actors : Holds(a)' => a # p /\ Holds(a) /\ hand'[a] = hand[a]
    BY <1>1, <2>1 DEF Holds, Idle, Holding
  <2>3. InOnePlace' /\ DroppedIsGone'
    BY <1>0, <1>4, <2>1, <2>2 DEF InOnePlace, DroppedIsGone
  <2>4. SpilledIsInline'
    BY <1>0, <1>1, <1>3, <2>1, <2>2 DEF SpilledIsInline, Ours
  <2>5. SentIsOut'
    BY <1>0, <1>1, <1>4, <2>1, <2>2 DEF SentIsOut, Ours
  <2>6. Fresh'
    BY <1>0, <1>1, <1>2, <1>3, <1>5, <2>1, FreshStays DEF e
  <2>7. QED
    BY <2>3, <2>4, <2>5, <2>6 DEF Placed
<1>10. QED
  BY <1>6, <1>7, <1>8, <1>9 DEF Submit

(* A delivery broadcasts what only its actor holds.                        *)
LEMMA OnceDeliver ==
  ASSUME OnceInv, NEW a \in Actors, Deliver(a)
  PROVE  Fresh' /\ Placed'
<1> DEFINE e == hand[a].ev
<1> USE BusConstants DEF Actors
<1>0. /\ TypeOK /\ OfThisBoot /\ InlineIsSpilled
      /\ Fresh /\ InOnePlace /\ DroppedIsGone /\ SpilledIsInline /\ SentIsOut
  BY DEF OnceInv
<1>1. /\ \A b \in Actors \ {a} : hand'[b] = hand[b]
      /\ UNCHANGED <<boot, sequence, queue, dropped>>
  BY <1>0, DeliverMoves
<1>2. /\ \A b \in Actors : Kept(b)
      /\ \A b \in Actors : hand[b].pc # "built" => hand'[b].pc # "built"
      /\ hand'[Task].pc = "replay" => a # Task /\ hand[Task].pc = "replay"
  BY <1>0, DeliverMoves DEF Kept, Holding
<1>3. spilled' = spilled
  BY DEF Deliver, DeliverAppend, DeliverSend, DeliverMark, history
<1>4. CASE DeliverAppend(a)
  <2>1. sent' = sent /\ hand[a].pc = "append"
    BY <1>4 DEF DeliverAppend
  <2>2. Holds(a) /\ e \in Event
    BY <1>0, <2>1 DEF Holds, Holding, TypeOK
  <2>3. EventsIn(segments') \subseteq EventsIn(segments) \cup {e}
    <3>1. ASSUME NEW k \in 0..Len(segments), SpoolAppend(e, k)
          PROVE  EventsIn(segments') \subseteq EventsIn(segments) \cup {e}
      <4>1. EventsIn(segments') = EventsIn(DropFirst(segments, k)) \cup {e}
        BY <1>0, <2>2, <3>1, AppendedEvents
      <4>2. EventsIn(DropFirst(segments, k)) \subseteq EventsIn(segments)
        BY <1>0, EventsSplit DEF TypeOK
      <4>3. QED
        BY <4>1, <4>2
    <3>2. QED
      BY <1>4, <3>1 DEF DeliverAppend, spool
  <2>4. InOnePlace' /\ DroppedIsGone'
    BY <1>0, <1>1, <1>2, <1>3 DEF InOnePlace, DroppedIsGone, Kept, Holds
  <2>5. SpilledIsInline'
    <3>1. \A b \in Actors : Holds(b)' /\ hand'[b].ev \in spilled => b # Task /\ hand'[b].pc # "built"
      BY <1>0, <1>2 DEF SpilledIsInline, Kept, Holds
    <3>2. hand'[Task].pc = "replay" => \A ev \in EventsIn(segments') : Ours(ev) => ev \in spilled
      BY <1>0, <1>2, <2>1, <2>3 DEF SpilledIsInline, InlineIsSpilled
    <3>3. QED
      BY <1>0, <1>1, <1>3, <3>1, <3>2 DEF SpilledIsInline, Ours
  <2>6. SentIsOut'
    BY <1>0, <1>1, <1>2, <1>3, <2>1, SentStays
  <2>7. Fresh'
    BY <1>0, <1>1, <1>2, <1>3, <2>1, <2>2, <2>3, FreshStays
  <2>8. QED
    BY <2>4, <2>5, <2>6, <2>7 DEF Placed
<1>5. CASE DeliverSend(a)
  <2>1. /\ sent' = Append(sent, e) /\ segments' = segments /\ hand[a].pc = "send"
        /\ hand'[a].pc = "mark"
    BY <1>0, <1>5 DEF DeliverSend, spool, At, TypeOK
  <2>2. Holds(a) /\ e \in Event /\ sent \in Seq(Event)
    BY <1>0, <2>1 DEF Holds, Holding, TypeOK
  <2>3. InOnePlace' /\ DroppedIsGone' /\ SpilledIsInline'
    BY <1>0, <1>1, <1>2, <1>3, <2>1, NothingNew
  <2>4. /\ e \notin dropped /\ \A j \in DOMAIN queue : e # queue[j]
        /\ \A b \in Actors : hand'[b].pc \in Holding /\ hand'[b].ev = e => e \in spilled
        /\ \A i \in DOMAIN sent : sent[i] = e /\ Ours(e) => e \in spilled
    <3>1. e \notin dropped /\ \A j \in DOMAIN queue : e # queue[j]
      BY <1>0, <2>2 DEF DroppedIsGone, InOnePlace
    <3>2. \A b \in Actors : hand'[b].pc \in Holding /\ hand'[b].ev = e => FALSE
      BY <1>0, <1>1, <2>1, <2>2 DEF InOnePlace, Holds, Holding
    <3>3. \A i \in DOMAIN sent : sent[i] = e => e \in spilled
      BY <1>0, <2>2 DEF SentIsOut
    <3>4. QED
      BY <3>1, <3>2, <3>3
  <2>5. SentIsOut'
    BY <1>0, <1>1, <1>2, <1>3, <2>1, <2>2, <2>4, OneMoreSent
  <2>6. \A i \in DOMAIN sent' : (\E j \in DOMAIN sent : sent'[i] = sent[j]) \/ sent'[i] = e
    BY <2>1, <2>2, AppendView
  <2>7. Fresh'
    BY <1>0, <1>1, <1>2, <1>3, <2>1, <2>2, <2>6, FreshStays
  <2>8. QED
    BY <2>3, <2>5, <2>7 DEF Placed
<1>6. CASE DeliverMark(a)
  <2>1. sent' = sent /\ segments' = segments
    BY <1>6 DEF DeliverMark, spool
  <2>2. InOnePlace' /\ DroppedIsGone' /\ SpilledIsInline'
    BY <1>0, <1>1, <1>2, <1>3, <2>1, NothingNew
  <2>3. SentIsOut'
    BY <1>0, <1>1, <1>2, <1>3, <2>1, SentStays
  <2>4. Fresh'
    BY <1>0, <1>1, <1>2, <1>3, <2>1, FreshStays
  <2>5. QED
    BY <2>2, <2>3, <2>4 DEF Placed
<1>7. QED
  BY <1>4, <1>5, <1>6 DEF Deliver

(* A replay broadcasts what an earlier boot, or a publisher inline,        *)
(* spooled.                                                                *)
LEMMA OnceReplay ==
  ASSUME OnceInv, ReplayRecord
  PROVE  Fresh' /\ Placed'
<1> DEFINE e == segments[replayAt.seg].events[replayAt.rec]
<1> USE BusConstants DEF Actors
<1>0. TypeOK /\ OfThisBoot /\ Fresh /\ InOnePlace /\ DroppedIsGone /\ SpilledIsInline /\ SentIsOut
  BY DEF OnceInv
<1>1. /\ sent' = Append(sent, e) /\ hand' = hand /\ hand[Task].pc = "replay"
      /\ replayAt.seg \in DOMAIN segments /\ replayAt.rec \in DOMAIN segments[replayAt.seg].events
      /\ UNCHANGED <<boot, sequence, queue, dropped, spilled, segments>>
  BY DEF ReplayRecord, spool
<1>2. e \in EventsIn(segments)
  BY <1>0, <1>1, InEvents DEF TypeOK
<1>3. e \in Event /\ sent \in Seq(Event)
  BY <1>0, <1>2, EventsAreEvents DEF TypeOK
<1> HIDE DEF e
<1>4. Ours(e) => e \in spilled
  BY <1>0, <1>1, <1>2 DEF SpilledIsInline
<1>5. \A a \in Actors : Kept(a)
  BY <1>1 DEF Kept
<1>6. /\ e \notin dropped /\ \A j \in DOMAIN queue : e # queue[j]
      /\ \A a \in Actors : hand'[a].pc \in Holding /\ hand'[a].ev = e => e \in spilled
      /\ \A i \in DOMAIN sent : sent[i] = e /\ Ours(e) => e \in spilled
  <2>1. e \in dropped => Ours(e)
    BY <1>0 DEF Fresh
  <2>2. e \notin dropped
    BY <1>0, <1>4, <2>1 DEF DroppedIsGone
  <2>3. \A j \in DOMAIN queue : e # queue[j]
    BY <1>0, <1>4 DEF OfThisBoot, SpilledIsInline, Ours
  <2>4. \A a \in Actors : hand'[a].pc \in Holding /\ hand'[a].ev = e => e \in spilled
    BY <1>0, <1>1, <1>4 DEF OfThisBoot, Ours
  <2>5. QED
    BY <1>4, <2>2, <2>3, <2>4
<1>7. SentIsOut'
  BY <1>0, <1>1, <1>3, <1>5, <1>6, OneMoreSent
<1>8. InOnePlace' /\ DroppedIsGone' /\ SpilledIsInline'
  BY <1>0, <1>1, <1>5, NothingNew
<1>9. \A i \in DOMAIN sent' : (\E j \in DOMAIN sent : sent'[i] = sent[j]) \/ sent'[i] = e
  BY <1>1, <1>3, AppendView
<1>10. Fresh'
  BY <1>0, <1>1, <1>2, <1>5, <1>9, FreshStays
<1>11. QED
  BY <1>7, <1>8, <1>10 DEF Placed

(* An ack broadcasts nothing.                                              *)
LEMMA OnceAck ==
  ASSUME OnceInv, ReplayEnd \/ Tick
  PROVE  Fresh' /\ Placed'
<1> USE BusConstants DEF Actors
<1>0. TypeOK /\ OfThisBoot /\ Fresh /\ InOnePlace /\ DroppedIsGone /\ SpilledIsInline /\ SentIsOut
  BY DEF OnceInv
<1>1. AckUpTo(highWater) /\ UNCHANGED <<boot, sequence, queue, sent, dropped, spilled>>
  BY DEF ReplayEnd, Tick
<1>2. hand'[Task].pc \in {"idle", "report"} /\ \A p \in Publishers : hand'[p] = hand[p]
  BY <1>0 DEF ReplayEnd, Tick, TypeOK, Idle, At
<1>3. /\ \A a \in Actors : Kept(a)
      /\ \A a \in Actors : hand[a].pc # "built" => hand'[a].pc # "built"
  BY <1>2 DEF Kept, Holding
<1>4. EventsIn(segments') \subseteq EventsIn(segments)
  BY <1>0, <1>1, AckMoves
<1>5. InOnePlace' /\ DroppedIsGone' /\ SpilledIsInline'
  BY <1>0, <1>1, <1>2, <1>3, NothingNew
<1>6. SentIsOut'
  BY <1>0, <1>1, <1>3, SentStays
<1>7. Fresh'
  BY <1>0, <1>1, <1>3, <1>4, FreshStays
<1>8. QED
  BY <1>5, <1>6, <1>7 DEF Placed

(* The task takes an event out of the queue into its hand.                 *)
LEMMA OnceRecv ==
  ASSUME OnceInv, Recv
  PROVE  Fresh' /\ Placed'
<1> DEFINE e == Head(queue)
<1> USE BusConstants DEF Actors
<1>0. TypeOK /\ OfThisBoot /\ Fresh /\ InOnePlace /\ DroppedIsGone /\ SpilledIsInline /\ SentIsOut
  BY DEF OnceInv
<1>1. /\ queue \in Seq(Event) /\ queue # << >> /\ queue' = Tail(queue)
      /\ UNCHANGED <<boot, sequence, sent, dropped, spilled, segments>>
  BY <1>0 DEF Recv, TypeOK, history, spool
<1>2. /\ hand'[Task].pc = "append" /\ hand'[Task].ev = e /\ \A p \in Publishers : hand'[p] = hand[p]
      /\ hand[Task].pc = "idle"
  BY <1>0 DEF Recv, TypeOK, At
<1>3. /\ 1 \in DOMAIN queue /\ queue[1] = e
      /\ \A i \in DOMAIN queue' : i + 1 \in DOMAIN queue /\ i + 1 # 1 /\ queue'[i] = queue[i + 1]
      /\ \A i \in DOMAIN queue' : i \in Nat
  BY <1>1, TailFacts
<1> HIDE DEF e
<1>4. /\ \A i \in DOMAIN queue' : queue'[i] # e
      /\ \A i, j \in DOMAIN queue' : queue'[i] = queue'[j] => i = j
    <2>1. \A i \in DOMAIN queue' : queue'[i] # e
      BY <1>0, <1>3 DEF InOnePlace
    <2>2. ASSUME NEW i \in DOMAIN queue', NEW j \in DOMAIN queue', queue'[i] = queue'[j] PROVE i = j
      <3>1. i + 1 = j + 1
        BY <1>0, <1>3, <2>2 DEF InOnePlace
      <3>2. QED
        BY <1>3, <3>1
    <2>3. QED
      BY <2>1, <2>2
<1>5. /\ e \notin dropped \cup spilled /\ \A i \in DOMAIN sent : sent[i] # e
      /\ \A p \in Publishers : Holds(p) => hand[p].ev # e
  BY <1>0, <1>3 DEF DroppedIsGone, SpilledIsInline, SentIsOut, InOnePlace
<1>6. \A i \in DOMAIN queue' : \E j \in DOMAIN queue : queue'[i] = queue[j]
  BY <1>3
<1>7. InOnePlace'
  <2>1. \A a, b \in Actors : Holds(a)' /\ Holds(b)' /\ hand'[a].ev = hand'[b].ev => a = b
    BY <1>0, <1>2, <1>5 DEF InOnePlace, Holds
  <2>2. \A a \in Actors, i \in DOMAIN queue' : Holds(a)' => hand'[a].ev # queue'[i]
    BY <1>0, <1>2, <1>4, <1>6 DEF InOnePlace, Holds
  <2>3. QED
    BY <1>4, <2>1, <2>2 DEF InOnePlace
<1>8. DroppedIsGone'
  BY <1>0, <1>1, <1>2, <1>5, <1>6 DEF DroppedIsGone, Holds
<1>9. SpilledIsInline'
  BY <1>0, <1>1, <1>2, <1>5, <1>6 DEF SpilledIsInline, Holds
<1>10. SentIsOut'
  BY <1>0, <1>1, <1>2, <1>5, <1>6 DEF SentIsOut, Holds, Ours
<1>11. \A a \in Actors : Kept(a) \/ \E i \in DOMAIN queue : hand'[a].ev = queue[i]
  BY <1>2, <1>3 DEF Kept
<1>12. Fresh'
  BY <1>0, <1>1, <1>6, <1>11, FreshStays
<1>13. QED
  BY <1>7, <1>8, <1>9, <1>10, <1>12 DEF Placed

(* A report has a sequence of its own.                                     *)
LEMMA OnceReport ==
  ASSUME OnceInv, Report
  PROVE  Fresh' /\ Placed'
<1> DEFINE e == [boot |-> boot, seq |-> sequence, prio |-> "critical", report |-> TRUE]
<1> USE BusConstants DEF Actors
<1>0. TypeOK /\ OfThisBoot /\ Fresh /\ InOnePlace /\ DroppedIsGone /\ SpilledIsInline /\ SentIsOut
  BY DEF OnceInv
<1>1. /\ UNCHANGED <<boot, queue, dropped, spilled, segments>>
      /\ \/ sent' = Append(sent, e) /\ sequence' = sequence + 1
         \/ UNCHANGED <<sent, sequence>>
  BY DEF Report, spool
<1>2. hand'[Task].pc = "idle" /\ \A p \in Publishers : hand'[p] = hand[p]
  BY <1>0 DEF Report, TypeOK, Idle
<1>3. /\ \A a \in Actors : Kept(a)
      /\ \A a \in Actors : hand[a].pc # "built" => hand'[a].pc # "built"
  BY <1>2 DEF Kept, Holding
<1>4. e \in Event /\ e.boot = boot /\ e.seq = sequence /\ sent \in Seq(Event) /\ sequence \in Nat
  BY <1>0 DEF TypeOK, Event, Priorities
<1> HIDE DEF e
<1>5. InOnePlace' /\ DroppedIsGone' /\ SpilledIsInline'
  BY <1>0, <1>1, <1>2, <1>3, NothingNew
<1>6. CASE UNCHANGED <<sent, sequence>>
  BY <1>0, <1>1, <1>3, <1>5, <1>6, SentStays, FreshStays DEF Placed
<1>7. CASE sent' = Append(sent, e) /\ sequence' = sequence + 1
  <2>1. /\ \A a \in Actors : Holds(a) => hand[a].ev # e
        /\ \A i \in DOMAIN queue : queue[i] # e
        /\ \A i \in DOMAIN sent : sent[i] # e
        /\ e \notin dropped
    BY <1>0, <1>4 DEF Fresh, Ours
  <2>2. \A a \in Actors : hand'[a].pc \in Holding /\ hand'[a].ev = e => e \in spilled
    BY <1>3, <2>1 DEF Kept, Holds
  <2>3. SentIsOut'
    BY <1>0, <1>1, <1>3, <1>4, <1>7, <2>1, <2>2, OneMoreSent
  <2>4. \A i \in DOMAIN sent' : (\E j \in DOMAIN sent : sent'[i] = sent[j]) \/ sent'[i] = e
    BY <1>4, <1>7, AppendView
  <2>5. \A ev \in Event : ev.seq < sequence => ev.seq < sequence'
    BY <1>4, <1>7 DEF Event
  <2>6. /\ \A a \in Actors : Holds(a) => hand[a].ev \in Event
        /\ \A i \in DOMAIN queue : queue[i] \in Event
        /\ \A i \in DOMAIN sent : sent[i] \in Event
        /\ dropped \cup spilled \cup EventsIn(segments) \subseteq Event
    BY <1>0, EventsAreEvents DEF TypeOK, Holds
  <2>7. \A a \in Actors : Holds(a)' => hand'[a].ev.seq < sequence'
    BY <1>0, <1>3, <2>5, <2>6 DEF Fresh, Kept, Holds
  <2>8. \A i \in DOMAIN sent' : Ours(sent'[i]) => sent'[i].seq < sequence'
    BY <1>0, <1>4, <1>7, <2>4, <2>5, <2>6 DEF Fresh
  <2>9. Fresh'
    BY <1>0, <1>1, <2>5, <2>6, <2>7, <2>8 DEF Fresh, Ours
  <2>10. QED
    BY <1>5, <2>3, <2>9 DEF Placed
<1>8. QED
  BY <1>1, <1>6, <1>7

(* A restart forgets the queue and the hands, and starts new sequences.    *)
LEMMA OnceRestart ==
  ASSUME OnceInv, Restart
  PROVE  Fresh' /\ Placed'
<1> USE BusConstants DEF Actors
<1>0. TypeOK /\ Fresh
  BY DEF OnceInv
<1>1. /\ boot' = boot + 1 /\ queue' = << >> /\ sent' = << >> /\ dropped' = {}
      /\ spilled' = spilled /\ segments' = segments
  BY DEF Restart, spool
<1>2. \A a \in Actors : hand'[a].pc \notin Holding
  BY DEF Restart, Started, Idle, At, Holding
<1>3. \A ev \in spilled \cup EventsIn(segments) : ev.boot <= boot' /\ ev.boot # boot'
  <2>1. spilled \cup EventsIn(segments) \subseteq Event /\ boot \in Nat
    BY <1>0, EventsAreEvents DEF TypeOK
  <2>2. \A ev \in Event : ev.boot \in Nat
    BY DEF Event
  <2>3. QED
    BY <1>0, <1>1, <2>1, <2>2 DEF Fresh
<1>4. Fresh'
  BY <1>1, <1>2, <1>3 DEF Fresh, Holds, Ours
<1>5. InOnePlace' /\ DroppedIsGone'
  BY <1>1, <1>2 DEF InOnePlace, DroppedIsGone, Holds
<1>6. SpilledIsInline'
  BY <1>1, <1>2, <1>3 DEF SpilledIsInline, Holds, Ours
<1>7. SentIsOut'
  BY <1>1 DEF SentIsOut
<1>8. QED
  BY <1>4, <1>5, <1>6, <1>7 DEF Placed

(* A step that touches none of this keeps it.                              *)
LEMMA OnceQuiet ==
  ASSUME OnceInv, UNCHANGED <<boot, sequence, queue, hand, sent, dropped, spilled, segments>>
  PROVE  Fresh' /\ Placed'
  BY DEF OnceInv, Fresh, Placed, InOnePlace, DroppedIsGone, SpilledIsInline, SentIsOut, Holds, Ours

(* An event of this boot is broadcast at most once, but for one delivered  *)
(* inline that the replay finds in the spool, and never after it was       *)
(* counted as dropped: the queue and the hands pass it on and never copy   *)
(* it (publish_recorded, run_delivery, replay_spool, bus.rs).              *)
THEOREM OnceCorrect == Spec => []BroadcastOnce
<1>1. Init => OnceInv
  <2>1. Init => TypeOK
    BY BusConstants DEF Init, TypeOK, Started, Idle, At, Actors, PublisherPcs, TaskPcs,
       Holding, ReplayStart
  <2>2. ASSUME Init PROVE EventsIn(segments) = {} /\ \A a \in Actors : hand[a].pc \in {"idle", "replay"}
    BY <2>2 DEF Init, EventsIn, Started, Idle, At
  <2>3. Init => OfThisBoot /\ InlineIsSpilled /\ Fresh
    BY <2>2 DEF Init, OfThisBoot, InlineIsSpilled, Fresh, Holds, Holding, Actors
  <2>4. Init => InOnePlace /\ DroppedIsGone /\ SpilledIsInline /\ SentIsOut
    BY <2>2 DEF Init, InOnePlace, DroppedIsGone, SpilledIsInline, SentIsOut, Holds, Holding
  <2>5. QED
    BY <2>1, <2>3, <2>4 DEF OnceInv
<1>2. OnceInv /\ LossInv /\ [Next]_vars => OnceInv'
  <2> SUFFICES ASSUME OnceInv, LossInv, [Next]_vars PROVE OnceInv'
    OBVIOUS
  <2>1. TypeOK' /\ OfThisBoot' /\ InlineIsSpilled'
    BY TypeStep, BootStep, InlineStep DEF OnceInv
  <2>2. ASSUME NEW c \in Subscribers, Subscribe(c) \/ Receive(c) \/ Disconnect(c)
        PROVE  Fresh' /\ Placed'
    BY <2>2, OnceQuiet DEF Subscribe, Receive, Disconnect, history, spool
  <2>3. ASSUME UNCHANGED vars PROVE Fresh' /\ Placed'
    BY <2>3, OnceQuiet DEF vars, history, spool
  <2>4. Fresh' /\ Placed'
    BY <2>2, <2>3, OnceBuild, OnceSubmit, OnceDeliver, OnceReplay, OnceAck, OnceRecv, OnceReport,
       OnceRestart DEF Next, Replay
  <2>5. QED
    BY <2>1, <2>4 DEF OnceInv, Placed
<1>3. OnceInv => BroadcastOnce
  BY DEF OnceInv, SentIsOut, BroadcastOnce, Ours
<1>4. Spec => []LossInv
  BY LossInvariant
<1>5. QED
  BY <1>1, <1>2, <1>3, <1>4, PTL DEF Spec

(* The bus keeps what it promises of every event it took, over restarts:   *)
(* write-ahead, once, and acknowledged only when broadcast (bus.rs).       *)
THEOREM KeepsCorrect == Spec => []BusKeeps
  BY OnceCorrect, AckCorrect, WriteAheadCorrect, PTL DEF BusKeeps
===============================================================================
