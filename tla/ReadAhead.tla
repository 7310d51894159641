------------------------------ MODULE ReadAhead ------------------------------
(***************************************************************************)
(* Threads that read a final build's files ahead of it (readahead.rs, used *)
(* by TreeBuilder in index.rs).  Workers take the planned files in order   *)
(* while the results that wait stay under a budget; the build takes each   *)
(* result as it reaches the file, waits for a read in progress, and reads  *)
(* itself what no worker started.  A large file is streamed: its parts are *)
(* packed by a pool of threads of their own and put in the file's order.   *)
(*                                                                         *)
(* A content is a number; a file is written while it is read.  One mutex   *)
(* guards the slots, so every step that holds it is atomic; waiting on the *)
(* condition variable is a place of its own.                               *)
(***************************************************************************)
EXTENDS Integers, FiniteSets, FiniteSetsExt, Sequences, SequencesExt

CONSTANTS Readers,      \* the threads a build may have
          ReadLimits    \* records [order, plan, large, size, budget, parts, crews, writes, faults]

VARIABLES ahead,    \* State: slots, queue, held, stop; the contents the results hold
          crew,     \* each worker: where it is, its file and what the file's stat was
          builder,  \* the build: the file it is at, what it took and what it read itself
          pool,     \* pack_parts of the large file the build is at
          disk,     \* the content of each file
          rleft

readVars == <<ahead, crew, builder, pool, disk, rleft>>

FilesOf(l) == ToSet(l.order)
Window == 2 * Cardinality(Readers)
NoPool == [crew |-> <<>>, jobs |-> <<>>, pending |-> <<>>, packed |-> {}, bad |-> {},
           cut |-> 0, put |-> <<>>, open |-> FALSE, ok |-> TRUE]

\* ReadAhead::start: a thread that cannot be started is left out.
ReadInit ==
    \E l \in ReadLimits : \E alive \in l.crews :
       /\ rleft = l
       /\ disk = [f \in FilesOf(l) |-> 1]
       /\ ahead = [slots |-> [f \in FilesOf(l) |-> IF f \in ToSet(l.plan) THEN "queued" ELSE "absent"],
                   queue |-> l.plan, held |-> 0, stop |-> FALSE, found |-> disk]
       /\ crew = [w \in Readers |-> [pc |-> IF w \in alive THEN "loop" ELSE "ended", file |-> "", before |-> 0]]
       /\ builder = [pc |-> "next", at |-> 1, got |-> [f \in FilesOf(l) |-> 0], own |-> {}, failed |-> {}]
       /\ pool = NoPool

Ask == rleft.order[builder.at]
BuildAt(pc) == builder.pc = pc
Goes(pc) == [builder EXCEPT !.pc = pc]
Faulty(cost) == rleft.faults >= cost /\ rleft' = [rleft EXCEPT !.faults = @ - cost]

\* Condvar::notify_all
WokenCrew == [w \in Readers |-> IF crew[w].pc = "waiting" THEN [crew[w] EXCEPT !.pc = "loop"] ELSE crew[w]]
WokenBuild == IF BuildAt("waiting") THEN Goes("take") ELSE builder

Write(f) ==
    /\ rleft.writes > 0 /\ rleft' = [rleft EXCEPT !.writes = @ - 1]
    /\ disk' = [disk EXCEPT ![f] = @ + 1]
    /\ UNCHANGED <<ahead, crew, builder, pool>>

----------------------------------------------------------------------------
(* A worker.                                                               *)

\* The queued files from the first one the build has not read itself.
Queue == SelectSeq(ahead.queue, LAMBDA f : ahead.slots[f] = "queued")
CrewEnds(w) ==
    /\ crew[w].pc = "loop"
    /\ ahead.stop \/ (ahead.held < rleft.budget /\ Queue = <<>>)
    /\ crew' = [crew EXCEPT ![w].pc = "ended"]
    /\ UNCHANGED <<ahead, builder, pool, disk, rleft>>
CrewWaits(w) ==
    /\ crew[w].pc = "loop" /\ ~ahead.stop /\ ahead.held >= rleft.budget
    /\ crew' = [crew EXCEPT ![w].pc = "waiting"]
    /\ UNCHANGED <<ahead, builder, pool, disk, rleft>>
CrewPicks(w) ==
    /\ crew[w].pc = "loop" /\ ~ahead.stop /\ ahead.held < rleft.budget /\ Queue # <<>>
    /\ LET f == Head(Queue) IN
         /\ ahead' = [ahead EXCEPT !.queue = Tail(Queue), !.slots[f] = "reading"]
         /\ crew' = [crew EXCEPT ![w] = [pc |-> "reading", file |-> f, before |-> disk[f]]]
    /\ UNCHANGED <<builder, pool, disk, rleft>>
\* read_whole: a read that fails, panics or whose file changed underneath holds nothing.
Torn == -1
CrewRead(w) ==
    LET f == crew[w].file
        content == IF disk[f] = crew[w].before THEN disk[f] ELSE Torn
    IN
    /\ crew[w].pc = "reading"
    /\ \E cost \in 0..1 :
         /\ Faulty(cost)
         /\ ahead' = IF cost = 0 /\ content # Torn
                     THEN [ahead EXCEPT !.slots[f] = "read", !.found[f] = content, !.held = @ + rleft.size[f]]
                     ELSE [ahead EXCEPT !.slots[f] = "failed"]
    /\ crew' = [WokenCrew EXCEPT ![w].pc = "loop"]
    /\ builder' = WokenBuild
    /\ UNCHANGED <<pool, disk>>
Crew(w) == CrewEnds(w) \/ CrewWaits(w) \/ CrewPicks(w) \/ CrewRead(w)

----------------------------------------------------------------------------
(* The build.                                                              *)

Pass(b) == [b EXCEPT !.at = @ + 1, !.pc = "next"]
\* The next file; or the end of the build, after the last or because it yielded or failed.
Asks ==
    /\ BuildAt("next") /\ builder.at <= Len(rleft.order)
    /\ builder' = Goes(IF Ask \in rleft.large THEN "pack" ELSE "take")
    /\ UNCHANGED <<ahead, crew, pool, disk, rleft>>
\* Drop for ReadAhead: stop, wake everybody, join.
Drop ==
    /\ BuildAt("next")
    /\ IF builder.at > Len(rleft.order) THEN UNCHANGED rleft ELSE Faulty(1)
    /\ ahead' = [ahead EXCEPT !.stop = TRUE]
    /\ crew' = WokenCrew
    /\ builder' = Goes("join")
    /\ UNCHANGED <<pool, disk>>
Joined ==
    /\ BuildAt("join") /\ \A w \in Readers : crew[w].pc = "ended"
    /\ builder' = Goes("gone")
    /\ UNCHANGED <<ahead, crew, pool, disk, rleft>>
\* ReadAhead::take
TakeUnread ==
    /\ BuildAt("take") /\ ahead.slots[Ask] \in {"absent", "taken", "queued"}
    /\ ahead' = [ahead EXCEPT !.slots[Ask] = IF @ = "queued" THEN "taken" ELSE @]
    /\ builder' = Goes("own")
    /\ UNCHANGED <<crew, pool, disk, rleft>>
TakeWaits ==
    /\ BuildAt("take") /\ ahead.slots[Ask] = "reading"
    /\ builder' = Goes("waiting")
    /\ UNCHANGED <<ahead, crew, pool, disk, rleft>>
TakeRead ==
    /\ BuildAt("take") /\ ahead.slots[Ask] \in {"read", "failed"}
    /\ LET whole == ahead.slots[Ask] = "read" IN
         /\ ahead' = [ahead EXCEPT !.slots[Ask] = "absent", !.held = IF whole THEN @ - rleft.size[Ask] ELSE @]
         /\ builder' = IF whole THEN Pass([builder EXCEPT !.got[Ask] = ahead.found[Ask]]) ELSE Goes("own")
    /\ crew' = WokenCrew
    /\ UNCHANGED <<pool, disk, rleft>>
\* TreeBuilder::read_file when there is nothing to take; its retries are ChangeDetection's.
OwnRead ==
    /\ BuildAt("own")
    /\ builder' = Pass([builder EXCEPT !.got[Ask] = disk[Ask], !.own = @ \union {Ask}])
    /\ UNCHANGED <<ahead, crew, pool, disk, rleft>>

----------------------------------------------------------------------------
(* pack_parts: the build cuts the file and puts its parts, a pool of       *)
(* threads packs them, at most Window in flight.                           *)

PackBegins ==
    /\ BuildAt("pack")
    /\ \E alive \in rleft.crews :
         pool' = [NoPool EXCEPT !.crew = [w \in Readers |-> IF w \in alive THEN 0 ELSE -1], !.open = TRUE]
    /\ builder' = Goes("cut")
    /\ UNCHANGED <<ahead, crew, disk, rleft>>
Packers == {w \in DOMAIN pool.crew : pool.crew[w] >= 0}
Serial == BuildAt("cut") /\ \A w \in DOMAIN pool.crew : pool.crew[w] = -1 /\ pool.jobs = <<>>
Ends(p, ok) == [p EXCEPT !.open = FALSE, !.ok = ok]
\* The next part is read and sent; reading it may fail.
PackCuts ==
    /\ BuildAt("cut") /\ ~Serial /\ pool.cut < rleft.parts /\ Len(pool.jobs) < Window
    /\ \E cost \in 0..1 :
         /\ Faulty(cost)
         /\ LET sent == [pool EXCEPT !.cut = @ + 1, !.jobs = Append(@, pool.cut + 1),
                                     !.pending = Append(@, pool.cut + 1)]
            IN  /\ pool' = IF cost = 0 THEN sent ELSE Ends(pool, FALSE)
                /\ builder' = Goes(IF cost = 1 THEN "closed" ELSE IF Len(sent.pending) >= Window THEN "put" ELSE "cut")
    /\ UNCHANGED <<ahead, crew, disk>>
\* The oldest part in flight is waited for and put, unless it, or putting it, fails.
PackPuts ==
    /\ BuildAt("put") \/ (BuildAt("cut") /\ ~Serial /\ pool.cut = rleft.parts)
    /\ pool.pending # <<>> /\ Head(pool.pending) \in pool.packed \union pool.bad
    /\ \E cost \in 0..1 :
         /\ Faulty(cost)
         /\ IF cost = 1 \/ Head(pool.pending) \in pool.bad
            THEN pool' = Ends(pool, FALSE) /\ builder' = Goes("closed")
            ELSE /\ pool' = [pool EXCEPT !.pending = Tail(@), !.put = Append(@, Head(pool.pending))]
                 /\ builder' = Goes("cut")
    /\ UNCHANGED <<ahead, crew, disk>>
PackAllPut ==
    /\ BuildAt("cut") /\ ~Serial /\ pool.cut = rleft.parts /\ pool.pending = <<>>
    /\ pool' = Ends(pool, TRUE) /\ builder' = Goes("closed")
    /\ UNCHANGED <<ahead, crew, disk, rleft>>
\* No thread could be started: the build packs the parts itself.
PackSerially ==
    /\ Serial
    /\ \E cost \in 0..1 :
         /\ Faulty(cost)
         /\ \E n \in IF cost = 0 THEN {rleft.parts} ELSE 0..(rleft.parts - 1) :
              pool' = [Ends(pool, cost = 0) EXCEPT !.cut = n, !.put = [i \in 1..n |-> i]]
    /\ builder' = Goes("closed")
    /\ UNCHANGED <<ahead, crew, disk>>
\* The scope joins its threads, which take what is left in the channel first.
PackJoins ==
    /\ BuildAt("closed") /\ Packers = {}
    /\ builder' = Pass(IF pool.ok THEN [builder EXCEPT !.got[Ask] = disk[Ask]]
                       ELSE [builder EXCEPT !.failed = @ \union {Ask}])
    /\ UNCHANGED <<ahead, crew, pool, disk, rleft>>
PackStep(w) ==
    /\ w \in Packers
    /\ \/ /\ pool.crew[w] = 0 /\ pool.jobs # <<>>
          /\ pool' = [pool EXCEPT !.crew[w] = Head(pool.jobs), !.jobs = Tail(@)]
          /\ UNCHANGED rleft
       \/ /\ pool.crew[w] > 0
          /\ \E cost \in 0..1 :
               /\ Faulty(cost)
               /\ pool' = [pool EXCEPT !.crew[w] = 0,
                             !.packed = IF cost = 0 THEN @ \union {pool.crew[w]} ELSE @,
                             !.bad = IF cost = 1 THEN @ \union {pool.crew[w]} ELSE @]
       \/ /\ pool.crew[w] = 0 /\ pool.jobs = <<>> /\ ~pool.open
          /\ pool' = [pool EXCEPT !.crew[w] = -1]
          /\ UNCHANGED rleft
    /\ UNCHANGED <<ahead, crew, builder, disk>>

----------------------------------------------------------------------------
Build ==
    \/ Asks \/ Drop \/ Joined \/ TakeUnread \/ TakeWaits \/ TakeRead \/ OwnRead
    \/ PackBegins \/ PackCuts \/ PackPuts \/ PackAllPut \/ PackSerially \/ PackJoins
ReadNext ==
    \/ Build
    \/ \E w \in Readers : Crew(w) \/ PackStep(w)
    \/ \E f \in DOMAIN disk : Write(f)

ReadSpec ==
    /\ ReadInit /\ [][ReadNext]_readVars
    /\ WF_readVars(Build) /\ \A w \in Readers : WF_readVars(Crew(w)) /\ WF_readVars(PackStep(w))

Waiting == {f \in DOMAIN disk : ahead.slots[f] = "read"}

\* What the build makes of its files with threads is what it would make alone: no file is read both by
\* a worker and by the build, a result is one content of the file, a build that ends has every file it
\* could read, a large file's parts are put in its order and all of them; the results that wait are counted against the budget, which
\* is passed by no more than the reads that were under way.
ReadsAsAlone ==
    /\ \A f \in builder.own : ahead.slots[f] \notin {"reading", "read"}
    /\ \A f \in DOMAIN disk : builder.got[f] # Torn
    /\ BuildAt("join") /\ builder.at > Len(rleft.order) =>
         \A f \in DOMAIN disk : builder.got[f] = 0 => f \in builder.failed
    /\ pool.put = [i \in 1..Len(pool.put) |-> i]
    /\ BuildAt("closed") /\ pool.ok => Len(pool.put) = rleft.parts
    /\ ahead.held = MapThenSumSet(LAMBDA f : rleft.size[f], Waiting)
    /\ ahead.held < rleft.budget + Cardinality(Readers) * Max({rleft.size[f] : f \in DOMAIN disk})

\* A build that began ends with its threads joined: it never waits for a read nobody makes.
BuildReturns == BuildAt("next") ~> BuildAt("gone")
=============================================================================
