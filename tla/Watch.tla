-------------------------------- MODULE Watch --------------------------------
(***************************************************************************)
(* The capture watcher (sealant-capture/watch.rs): one inotify watch per   *)
(* directory, added as directories appear, retried where they could not be *)
(* added, and a fence that waits for the event queue.  The kernel raises   *)
(* an event only in a directory that has a watch, so what matters is the   *)
(* window between a directory and its watch.  Files are not modelled one   *)
(* by one: a change is seen once the class is signalled after it, because  *)
(* the snap that follows walks the whole class.                            *)
(*                                                                         *)
(* The tree has directories Tops under the root, each with at most one     *)
(* directory below it.  A path is <<top>> or <<top, "sub">>.               *)
(***************************************************************************)
EXTENDS Integers, Sequences, FiniteSets

CONSTANTS
    Tops,           \* names of directories under the root
    WatchLimits     \* records [changes, renames, refusals, queue, fences, budget]

\* What the constants may be.
WatchAssumption ==
    \A l \in WatchLimits :
        {l.changes, l.renames, l.refusals, l.queue, l.fences, l.budget} \subseteq Nat

Paths == {<<t>> : t \in Tops} \cup {<<t, "sub">> : t \in Tops}
Below(p) == {q \in Paths : q[1] = p[1] /\ Len(q) >= Len(p)}
Child(t) == <<t, "sub">>

VARIABLES
    dirs,       \* directories there are, and those the kernel watches
    registry,   \* Registry::watched, Unwatched, and the class's mode as signalled
    events,     \* the event queue, oldest first
    worker,     \* what the capture-watch thread is doing
    fence,      \* a settle call, its number, and whether a change before it is still unseen
    unseen,     \* a change no signal followed, but for those in a forgotten directory
    wleft

watchVars == <<dirs, registry, events, worker, fence, unseen, wleft>>

IdleWorker == [pc |-> "recv"]
NoFence == [pc |-> "none", n |-> 0, before |-> FALSE]

WatchInit ==
    /\ dirs = [there |-> {}, watched |-> {}]
    /\ registry = [paths |-> {}, unwatched |-> {}, polled |-> FALSE, overflowed |-> FALSE]
    /\ events = <<>> /\ worker = IdleWorker /\ fence = NoFence
    /\ unseen = FALSE
    /\ wleft \in WatchLimits

----------------------------------------------------------------------------
\* The kernel and the notify thread.

EventKinds == {"create", "modify", "remove", "from", "to"}

\* Events raised in a directory that is watched; the queue at its limit holds one overflow
\* event in place of what it lost.
Raise(seq) ==
    IF seq = <<>> THEN events
    ELSE IF Len(events) < wleft.queue THEN events \o seq
    ELSE IF events # <<>> /\ events[Len(events)].kind = "overflow" THEN events
    ELSE Append(events, [kind |-> "overflow"])

RaisedIn(p, kind) ==
    IF Len(p) = 1 \/ <<p[1]>> \in dirs.watched THEN <<[kind |-> kind, path |-> p]>> ELSE <<>>

Spend(field) == wleft[field] > 0 /\ wleft' = [wleft EXCEPT ![field] = @ - 1]

\* Directories the registry takes for watched and the kernel does not watch: their path was
\* renamed away and taken again.  A change that is made in one, or in one below it, and raises
\* no event stays unseen until the next signal.
Forgotten == (registry.paths \cap dirs.there) \ dirs.watched
OutOfSight(p) == {<<p[1]>>, p} \cap Forgotten # {}

\* A change in directory p.
Changes(p, d, seq) ==
    /\ dirs' = d /\ events' = Raise(seq)
    /\ unseen' = (unseen \/ seq # <<>> \/ ~OutOfSight(p))
    /\ UNCHANGED <<registry, worker, fence>>

UserMakes(p) ==
    /\ p \notin dirs.there /\ (Len(p) = 2 => <<p[1]>> \in dirs.there)
    /\ Spend("changes")
    /\ Changes(<<p[1]>>, [dirs EXCEPT !.there = @ \cup {p}], RaisedIn(p, "create"))

UserWrites(p) ==
    /\ p \in dirs.there /\ Spend("changes")
    /\ Changes(p, dirs, IF p \in dirs.watched THEN <<[kind |-> "modify", path |-> p]>> ELSE <<>>)

UserRemoves(p) ==
    /\ p \in dirs.there /\ (Len(p) = 1 => Child(p[1]) \notin dirs.there)
    /\ Spend("changes")
    /\ Changes(<<p[1]>>, [there |-> dirs.there \ {p}, watched |-> dirs.watched \ {p}],
               RaisedIn(p, "remove"))

\* A directory moves with what is below it.  The notify thread drops its watches on the old
\* names when it reads the event, before the worker can add new ones.
UserRenames(t, u) ==
    /\ <<t>> \in dirs.there /\ <<u>> \notin dirs.there /\ Spend("renames")
    /\ LET moved == {<<u>> \o Tail(p) : p \in Below(<<t>>) \cap dirs.there}
       IN  Changes(<<t>>, [there |-> (dirs.there \ Below(<<t>>)) \cup moved,
                           watched |-> dirs.watched \ Below(<<t>>)],
                   <<[kind |-> "from", path |-> <<t>>], [kind |-> "to", path |-> <<u>>]>>)

----------------------------------------------------------------------------
\* The worker thread.

\* A signal marks the class dirty: the snap it brings walks everything there is.
Signals ==
    /\ unseen' = FALSE
    /\ fence' = [fence EXCEPT !.before = FALSE]

\* watch_listed over the directories at and below p that have no watch by the registry.
Listed(p) == (Below(p) \cap dirs.there) \ registry.paths

\* handle_event up to its watches: overflow and a removed directory end there; a directory
\* created or renamed in is listed.
Receives ==
    /\ worker.pc = "recv" /\ events # <<>> /\ Head(events).kind # "fence"
    /\ events' = Tail(events)
    /\ LET e == Head(events) IN
       \/ /\ e.kind = "overflow"
          /\ registry' = [registry EXCEPT !.polled = TRUE, !.overflowed = TRUE]
          /\ Signals /\ UNCHANGED worker
       \/ /\ e.kind \in {"create", "to"} /\ e.path \in dirs.there
          /\ worker' = [pc |-> "watch", path |-> e.path, todo |-> Listed(e.path),
                        added |-> FALSE, failed |-> {}, retry |-> FALSE]
          /\ UNCHANGED <<registry, unseen, fence>>
       \/ /\ e.kind \in {"create", "to"} => e.path \notin dirs.there
          /\ e.kind # "overflow"
          /\ registry' = [registry EXCEPT !.paths = IF e.kind = "remove" THEN @ \ {e.path} ELSE @]
          /\ Signals /\ UNCHANGED worker
    /\ UNCHANGED <<dirs, wleft>>

\* The worker lists once more unless a listing found nothing new.
ListsOnce(w) == FALSE
ListsAgain(w) == w.added

\* watch_listed, one directory, parents first: watched, gone before its watch, or refused.
WatchesOne(p) ==
    /\ worker.pc = "watch" /\ p \in worker.todo
    /\ \A q \in worker.todo : Len(p) <= Len(q)
    /\ \/ /\ p \in dirs.there /\ Cardinality(registry.paths) < wleft.budget
          /\ dirs' = [dirs EXCEPT !.watched = @ \cup {p}]
          /\ registry' = [registry EXCEPT !.paths = @ \cup {p}]
          /\ worker' = [worker EXCEPT !.todo = @ \ {p}, !.added = TRUE]
          /\ UNCHANGED wleft
       \/ /\ p \notin dirs.there
          /\ worker' = [worker EXCEPT !.todo = @ \ {p}]
          /\ UNCHANGED <<dirs, registry, wleft>>
       \/ /\ p \in dirs.there
          /\ Spend("refusals") \/ (Cardinality(registry.paths) >= wleft.budget /\ UNCHANGED wleft)
          /\ worker' = [worker EXCEPT !.todo = @ \ {p}, !.failed = @ \cup {p}]
          /\ UNCHANGED <<dirs, registry>>
    /\ UNCHANGED <<events, fence, unseen>>

\* The listing is done: list again, or report.  What failed has the class poll
\* (Unwatched); a retry that leaves nothing unwatched has it watched again (Rewatched).
\* The signal comes last.
WatchesDone ==
    /\ worker.pc = "watch" /\ worker.todo = {}
    /\ IF ListsAgain(worker)
       THEN /\ worker' = [worker EXCEPT !.todo = Listed(worker.path) \ worker.failed, !.added = FALSE]
            /\ UNCHANGED <<registry, unseen, fence>>
       ELSE /\ registry' = [registry EXCEPT !.unwatched = @ \cup worker.failed,
                                            !.polled = @ \/ worker.failed # {}]
            /\ worker' = [pc |-> "signal", retry |-> worker.retry]
            /\ UNCHANGED <<unseen, fence>>
    /\ UNCHANGED <<dirs, events, wleft>>

WorkerSignals ==
    /\ worker.pc = "signal"
    /\ worker' = IdleWorker
    /\ registry' = [registry EXCEPT !.polled =
                        IF worker.retry /\ registry.unwatched = {} THEN registry.overflowed ELSE @]
    /\ IF worker.retry /\ registry.unwatched # {} THEN UNCHANGED <<unseen, fence>> ELSE Signals
    /\ UNCHANGED <<dirs, events, wleft>>

\* retry_unwatched, when its time has come: a directory that is gone is dropped.
Retries(p) ==
    /\ worker.pc = "recv" /\ p \in registry.unwatched
    /\ registry' = [registry EXCEPT !.unwatched = @ \ Below(p)]
    /\ worker' = [pc |-> "watch", path |-> p, todo |-> Listed(p), added |-> FALSE, failed |-> {},
                  retry |-> TRUE]
    /\ UNCHANGED <<dirs, events, fence, unseen, wleft>>

----------------------------------------------------------------------------
\* WatchHandle::settle.

SettleBegins ==
    /\ fence.pc # "waiting" /\ Spend("fences")
    /\ fence' = [pc |-> "waiting", n |-> fence.n + 1, before |-> unseen]
    /\ events' = Raise(<<[kind |-> "fence", n |-> fence.n + 1]>>)
    /\ UNCHANGED <<dirs, registry, worker, unseen>>

\* The worker answers a fence in its turn, by its number; the call waits for its own.
FencePassed ==
    /\ worker.pc = "recv" /\ events # <<>> /\ Head(events).kind = "fence"
    /\ events' = Tail(events)
    /\ fence' = [fence EXCEPT !.pc = IF fence.pc = "waiting" /\ Head(events).n >= fence.n
                                     THEN "settled" ELSE fence.pc]
    /\ UNCHANGED <<dirs, registry, worker, unseen, wleft>>

SettleTimesOut ==
    /\ fence.pc = "waiting"
    /\ fence' = [fence EXCEPT !.pc = "timed_out"]
    /\ UNCHANGED <<dirs, registry, events, worker, unseen, wleft>>

WatchNext ==
    \/ \E p \in Paths : UserMakes(p) \/ UserWrites(p) \/ UserRemoves(p)
    \/ \E t, u \in Tops : UserRenames(t, u)
    \/ Receives \/ WatchesDone \/ WorkerSignals
    \/ \E p \in Paths : WatchesOne(p) \/ Retries(p)
    \/ SettleBegins \/ FencePassed \/ SettleTimesOut

WatchSpec == WatchInit /\ [][WatchNext]_watchVars

----------------------------------------------------------------------------
\* The type of every variable.
WatchTypeOK ==
    /\ dirs \in [there : SUBSET Paths, watched : SUBSET Paths]
    /\ dirs.watched \subseteq dirs.there
    /\ registry \in [paths : SUBSET Paths, unwatched : SUBSET Paths,
                    polled : BOOLEAN, overflowed : BOOLEAN]
    /\ \A i \in DOMAIN events : events[i].kind \in EventKinds \cup {"overflow", "fence"}
    /\ worker.pc \in {"recv", "watch", "signal"}
    /\ fence.pc \in {"none", "waiting", "settled", "timed_out"}
    /\ unseen \in BOOLEAN

\* Once the worker has nothing left to handle, a class it calls watched has no change that no
\* signal followed: a directory made while its parent's watch was being added, and what was
\* written in it, is found by the next listing or by an event (watch.rs watch_listed).
NoUnseenChange == (events = <<>> /\ worker.pc = "recv" /\ ~registry.polled) => ~unseen

\* A fence that settled leaves no change unseen that was made before it, in a class that is
\* watched (watch.rs settle: the final flush counts on it).
SettledIsSeen == (fence.pc = "settled" /\ ~registry.polled) => ~fence.before

\* Once the worker has nothing left to handle, every directory of a class it calls watched has
\* a watch ("A directory created or renamed in needs watches like the initial set").  It does
\* not hold of a directory made where one was renamed away: the registry still has the path.
EveryDirectoryWatched ==
    (events = <<>> /\ worker.pc = "recv" /\ ~registry.polled) => dirs.there = dirs.watched

\* No change of a watched class goes unseen, with or without a fence.
WatchedIsSeen == NoUnseenChange /\ SettledIsSeen
==============================================================================
