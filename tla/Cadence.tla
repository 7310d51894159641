-------------------------------- MODULE Cadence --------------------------------
(* When the capture runner snaps (sealant-capture/src/cadence.rs).         *)
(*                                                                         *)
(* One loop per class of files sleeps on a condition variable until its    *)
(* class is due: quiet after a change the watcher signalled, the maximum   *)
(* interval while changes keep coming, and the reconcile interval when     *)
(* nothing was signalled, for what no watch sees.  A third caller forces   *)
(* snaps (capture.snapshot, a final flush).  The engine lock serialises    *)
(* them; a bulk build gives the lock up to a waiting small snap and to a   *)
(* forced bulk snap.                                                       *)
(*                                                                         *)
(* Instants are kept as ages and times to go, so time is unbounded: an age *)
(* stops growing once every deadline that reads it has passed.             *)
EXTENDS Integers, FiniteSets

CONSTANTS
  Cadences,     \* the configurations: capture_bulk, the classes' times, and
                \* the bounds on writes (per class) and on upsets (failures,
                \* lost admissions, overflows, unwatched directories, repairs)
  BuildUnits    \* chunk boundaries at which a bulk build asks whether to yield

Class == {"small", "bulk"}
Loop == Class
Actor == Loop \cup {"caller"}
None == -1

\* What the constants may be.
CadenceConstants ==
  /\ \A k \in Cadences, c \in Class : {k[c].quiet, k[c].max, k[c].reconcile} \subseteq Nat \ {0}
  /\ \A k \in Cadences : k.captures \subseteq Class /\ k.modes \subseteq [Class -> {"watched", "polled"}]
  /\ BuildUnits \in Nat \ {0}

VARIABLES
  clocks,       \* [Class -> ages of first_change, last_change and last_snap]
  modes,        \* [Class -> "watched" or "polled"]
  flags,        \* State.overflowed, State.repair, State.stop
  at,           \* [Actor -> where its thread is]
  seen,         \* [Loop -> the wake-up its loop decided on]
  woken,        \* the loops a notify_all reached in their wait
  notifying,    \* State changed and the notify_all that follows is still to come
  smallWaiting, \* Shared.small_waiting: the small snaps waiting for the engine
  forcedBulk,   \* Shared.forced_bulk: a forced bulk snap is under way
  engine,       \* who holds the engine lock, or "free"
  build,        \* the bulk build under way: the version it listed, units left
  config,       \* the runner's configuration, one of Cadences
  admitted,     \* Shared.allowed() /\ ~ shipper.is_fenced()
  events,       \* [Class -> the write the watcher has read and not delivered]
  disk,         \* ghost: the writes made to each class
  signalled,    \* ghost: the last write the watcher delivered
  taken,        \* ghost: the last write a snap has read
  dropped,      \* ghost: the last write a refused or failed snap let go of
  upsets        \* bound: faults so far

cadenceVars == <<clocks, modes, flags, at, seen, woken, notifying, smallWaiting, forcedBulk,
                 engine, build, config, admitted, events, disk, signalled, taken, dropped, upsets>>

--------------------------------------------------------------------------------
(* ClassClock *)

Larger(a, b) == IF a >= b THEN a ELSE b
Smaller(a, b) == IF a <= b THEN a ELSE b
Longest(c) == Larger(config[c].max, config[c].reconcile)

(* ClassClock::dirty *)
Dirty(clock) == [clock EXCEPT !.first = IF clock.first = None THEN 0 ELSE clock.first, !.last = 0]

(* ClassClock::clear *)
Clear(clock) == [clock EXCEPT !.first = None, !.last = None]

DueWhenSeen(c, clock) ==
  IF clock.first = None THEN config[c].reconcile
  ELSE Smaller(config[c].quiet - clock.last, config[c].max - clock.first)

(* ClassClock::due in Mode::Watched, as the time to go: the signalled      *)
(* change once quiet or at the maximum interval, else the reconciling snap.*)
DueWatched(c, clock) ==
  LET reconcile == config[c].reconcile - clock.snap
      change == Smaller(config[c].quiet - clock.last, config[c].max - clock.first)
  IN  IF clock.first = None THEN reconcile ELSE Smaller(reconcile, change)

(* ClassClock::due *)
Due(c, clock, mode) ==
  IF mode = "polled" THEN Smaller(DueWatched(c, clock), config[c].max - clock.snap)
  ELSE DueWatched(c, clock)

(* Shared::small_wake and bulk_wake: what a loop decides on.  A time to go *)
(* that has run out is due, by however much.                               *)
Wake(c) ==
  [in |-> Larger(0, Due(c, clocks[c], modes[c])),
   overflowed |-> c = "small" /\ flags.overflowed,
   repair |-> c = "small" /\ flags.repair]

--------------------------------------------------------------------------------
(* The watcher and Shared::signal                                          *)

Active == config.captures

(* A write to a file of the class.  The watcher reads its event later, or  *)
(* never: no watch covers a second name of a hardlinked file, or a         *)
(* directory that could not be watched.                                    *)
Write(c) ==
  /\ c \in Active /\ disk[c] < config.writes[c]
  /\ disk' = [disk EXCEPT ![c] = @ + 1]
  /\ \/ modes[c] = "watched" /\ events' = [events EXCEPT ![c] = disk[c] + 1]
     \/ UNCHANGED events
  /\ UNCHANGED <<clocks, modes, flags, at, seen, woken, notifying, smallWaiting, forcedBulk, engine,
                 build, config, admitted, signalled, taken, dropped, upsets>>

SignalRest == <<at, seen, woken, smallWaiting, forcedBulk, engine, build, config, admitted,
                disk, taken, dropped>>

(* ChangeSignal::Changed *)
SignalChanged(c) ==
  /\ events[c] # 0 /\ ~ notifying
  /\ clocks' = [clocks EXCEPT ![c] = Dirty(clocks[c])]
  /\ signalled' = [signalled EXCEPT ![c] = Larger(@, events[c])]
  /\ events' = [events EXCEPT ![c] = 0]
  /\ notifying' = TRUE
  /\ UNCHANGED <<modes, flags, upsets>> /\ UNCHANGED SignalRest

(* ChangeSignal::Overflow: the queued events are lost; both classes poll   *)
(* from now on and are due at once.                                        *)
SignalOverflow ==
  /\ upsets < config.upsets /\ ~ flags.overflowed /\ ~ notifying
  /\ flags' = [flags EXCEPT !.overflowed = TRUE]
  /\ modes' = [c \in Class |-> "polled"]
  /\ clocks' = [c \in Class |-> [clocks[c] EXCEPT !.snap = Larger(clocks[c].snap, config[c].max)]]
  /\ events' = [c \in Class |-> 0]
  /\ notifying' = TRUE /\ upsets' = upsets + 1
  /\ UNCHANGED signalled /\ UNCHANGED SignalRest

(* ChangeSignal::Unwatched *)
SignalUnwatched(c) ==
  /\ upsets < config.upsets /\ c \in Active /\ modes[c] = "watched" /\ ~ notifying
  /\ modes' = [modes EXCEPT ![c] = "polled"]
  /\ clocks' = [clocks EXCEPT ![c].snap = Larger(clocks[c].snap, config[c].max)]
  /\ notifying' = TRUE /\ upsets' = upsets + 1
  /\ UNCHANGED <<flags, events, signalled>> /\ UNCHANGED SignalRest

(* ChangeSignal::Rewatched: the class is watched again unless the watcher  *)
(* overflowed, and dirty for what happened in between.                     *)
SignalRewatched(c) ==
  /\ modes[c] = "polled" /\ c \in Active /\ ~ notifying /\ ~ flags.overflowed
  /\ modes' = [modes EXCEPT ![c] = "watched"]
  /\ clocks' = [clocks EXCEPT ![c] = Dirty(clocks[c])]
  /\ notifying' = TRUE
  /\ UNCHANGED <<flags, events, signalled, upsets>> /\ UNCHANGED SignalRest

(* run_aliases: the poll finds a hardlinked file changed through a name no *)
(* watch sees and signals its class.                                       *)
AliasMoved(c) ==
  /\ disk[c] > Larger(taken[c], signalled[c]) /\ events[c] = 0 /\ ~ notifying /\ ~ flags.stop
  /\ clocks' = [clocks EXCEPT ![c] = Dirty(clocks[c])]
  /\ signalled' = [signalled EXCEPT ![c] = disk[c]]
  /\ notifying' = TRUE
  /\ UNCHANGED <<modes, flags, events, upsets>> /\ UNCHANGED SignalRest

(* The notify_all after the state lock is released.                        *)
Notify ==
  /\ notifying
  /\ notifying' = FALSE
  /\ woken' = woken \cup {c \in Loop : at[c] = "asleep"}
  /\ UNCHANGED <<clocks, modes, flags, at, seen, smallWaiting, forcedBulk, engine, build, config,
                 admitted, events, disk, signalled, taken, dropped, upsets>>

(* The shipper's repair hook *)
AskRepair ==
  /\ upsets < config.upsets /\ ~ flags.repair /\ ~ notifying
  /\ flags' = [flags EXCEPT !.repair = TRUE]
  /\ notifying' = TRUE /\ upsets' = upsets + 1
  /\ UNCHANGED <<clocks, modes, events, signalled>> /\ UNCHANGED SignalRest

(* The lease is lost and held again, the shipper fenced and re-planned.    *)
Admission ==
  /\ \/ admitted /\ upsets < config.upsets /\ upsets' = upsets + 1
     \/ ~ admitted /\ UNCHANGED upsets
  /\ admitted' = ~ admitted
  /\ UNCHANGED <<clocks, modes, flags, at, seen, woken, notifying, smallWaiting, forcedBulk, engine,
                 build, config, events, disk, signalled, taken, dropped>>

--------------------------------------------------------------------------------
(* run_small and run_bulk                                                  *)

LoopRest == <<smallWaiting, forcedBulk, engine, build, config, admitted, events, disk, signalled,
              taken, upsets>>

(* The top of a loop: stop, or take the repair request and read what is due*)
LoopTop(c) ==
  /\ at[c] = "top"
  /\ \/ /\ flags.stop
        /\ at' = [at EXCEPT ![c] = "gone"]
        /\ UNCHANGED <<flags, seen>>
     \/ /\ ~ flags.stop
        /\ at' = [at EXCEPT ![c] = IF c = "small" /\ flags.repair THEN "repair" ELSE "decide"]
        /\ flags' = [flags EXCEPT !.repair = @ /\ c = "bulk"]
        /\ seen' = [seen EXCEPT ![c] = [Wake(c) EXCEPT !.repair = FALSE]]
  /\ UNCHANGED <<clocks, modes, woken, notifying, dropped>> /\ UNCHANGED LoopRest

(* engine().repair() under the engine lock                                 *)
LoopRepair ==
  /\ at["small"] = "repair" /\ engine = "free"
  /\ at' = [at EXCEPT !["small"] = "top"]
  /\ UNCHANGED <<clocks, modes, flags, seen, woken, notifying, dropped>> /\ UNCHANGED LoopRest

(* Due: snap, unless captures are not allowed or the shipper is fenced;    *)
(* the change is let go of then, to the reconciling snap.                  *)
LoopDue(c) ==
  /\ at[c] = "decide" /\ seen[c].in = 0
  /\ \/ /\ admitted
        /\ at' = [at EXCEPT ![c] = c]
        /\ UNCHANGED <<clocks, dropped>>
     \/ /\ ~ admitted
        /\ at' = [at EXCEPT ![c] = "top"]
        /\ clocks' = [clocks EXCEPT ![c] = [Clear(clocks[c]) EXCEPT !.snap = 0]]
        /\ dropped' = [dropped EXCEPT ![c] = Larger(@, signalled[c])]
  /\ UNCHANGED <<modes, flags, seen, woken, notifying>> /\ UNCHANGED LoopRest

LoopSleepUnchecked(c) ==
  /\ at[c] = "decide" /\ seen[c].in > 0
  /\ at' = [at EXCEPT ![c] = IF flags.stop THEN "top" ELSE "asleep"]
  /\ UNCHANGED <<clocks, modes, flags, seen, woken, notifying, dropped>> /\ UNCHANGED LoopRest

(* sleep_unless_changed: the wait begins only if what the loop decided on  *)
(* still stands, under the lock every change is made under.                *)
LoopSleep(c) ==
  /\ at[c] = "decide" /\ seen[c].in > 0
  /\ at' = [at EXCEPT ![c] = IF flags.stop \/ Wake(c) # seen[c] THEN "top" ELSE "asleep"]
  /\ UNCHANGED <<clocks, modes, flags, seen, woken, notifying, dropped>> /\ UNCHANGED LoopRest

(* wait_until returns: notified, or at the instant it was given.           *)
LoopWake(c) ==
  /\ at[c] = "asleep" /\ (c \in woken \/ seen[c].in = 0)
  /\ at' = [at EXCEPT ![c] = "top"]
  /\ woken' = woken \ {c}
  /\ UNCHANGED <<clocks, modes, flags, seen, notifying, dropped>> /\ UNCHANGED LoopRest

--------------------------------------------------------------------------------
(* small_snap, bulk_snap and snap, run by a loop or by a caller            *)

SnapRest == <<modes, flags, seen, woken, config, admitted, events, disk, signalled>>

(* Where an actor goes when its snap returns: a loop to its top, a final   *)
(* flush from its small snap to its forced bulk snap.                      *)
After(a, class, job) ==
  IF a # "caller" THEN "top"
  ELSE IF class = "small" /\ job = "final" /\ "bulk" \in config.captures THEN "bulk" ELSE "done"

(* CadenceRunner::snap and the two forced snaps of final_snaps; one call is *)
(* made.                                                                   *)
ForceSnaps ==
  /\ config.forced /\ at["caller"] = "idle" /\ ~ flags.stop
  /\ at' = [at EXCEPT !["caller"] = "small"]
  /\ UNCHANGED <<clocks, notifying, smallWaiting, forcedBulk, engine, build, taken, dropped, upsets>>
  /\ UNCHANGED SnapRest

SmallBegin(a) ==
  /\ at[a] = "small"
  /\ clocks' = [clocks EXCEPT !["small"] = Clear(clocks["small"])]
  /\ smallWaiting' = smallWaiting + 1
  /\ at' = [at EXCEPT ![a] = "small.wait"]
  /\ UNCHANGED <<notifying, forcedBulk, engine, build, taken, dropped, upsets>> /\ UNCHANGED SnapRest

SmallWalk(a) ==
  /\ at[a] = "small.wait" /\ engine = "free"
  /\ \/ /\ taken' = [taken EXCEPT !["small"] = disk["small"]]
        /\ UNCHANGED <<dropped, upsets>>
     \/ /\ upsets < config.upsets /\ upsets' = upsets + 1
        /\ dropped' = [dropped EXCEPT !["small"] = disk["small"]]
        /\ UNCHANGED taken
  /\ at' = [at EXCEPT ![a] = "small.end"]
  /\ UNCHANGED <<clocks, notifying, smallWaiting, forcedBulk, engine, build>> /\ UNCHANGED SnapRest

SmallEndClearing(a) ==
  /\ at[a] = "small.end" /\ ~ notifying
  /\ smallWaiting' = smallWaiting - 1
  /\ clocks' = [clocks EXCEPT !["small"] = [Clear(clocks["small"]) EXCEPT !.snap = 0]]
  /\ notifying' = TRUE
  /\ \E job \in {"snap", "final"} : at' = [at EXCEPT ![a] = After(a, "small", job)]
  /\ UNCHANGED <<forcedBulk, engine, build, taken, dropped, upsets>> /\ UNCHANGED SnapRest

SmallEnd(a) ==
  /\ at[a] = "small.end" /\ ~ notifying
  /\ smallWaiting' = smallWaiting - 1
  /\ clocks' = [clocks EXCEPT !["small"].snap = 0]
  /\ notifying' = TRUE
  /\ \E job \in {"snap", "final"} : at' = [at EXCEPT ![a] = After(a, "small", job)]
  /\ UNCHANGED <<forcedBulk, engine, build, taken, dropped, upsets>> /\ UNCHANGED SnapRest

Forced(a) == a = "caller"

PreemptedByAny(a) == smallWaiting > 0 \/ forcedBulk > 0

(* The preempt hook of bulk_snap_inner                                     *)
Preempted(a) == smallWaiting > 0 \/ (~ Forced(a) /\ forcedBulk > 0)

BulkBegin(a) ==
  /\ at[a] = "bulk"
  /\ forcedBulk' = forcedBulk + (IF Forced(a) THEN 1 ELSE 0)
  /\ clocks' = [clocks EXCEPT !["bulk"] = Clear(clocks["bulk"])]
  /\ at' = [at EXCEPT ![a] = "bulk.yield"]
  /\ UNCHANGED <<notifying, smallWaiting, engine, build, taken, dropped, upsets>> /\ UNCHANGED SnapRest

(* Give way before taking the lock; a scheduled snap ends here when the    *)
(* runner stopped or snaps are not allowed.                                *)
BulkYield(a) ==
  /\ at[a] = "bulk.yield"
  /\ ~ (Preempted(a) /\ (Forced(a) \/ ~ flags.stop))
  /\ \/ /\ ~ Forced(a) /\ (flags.stop \/ ~ admitted)
        /\ at' = [at EXCEPT ![a] = "top"]
        /\ dropped' = [dropped EXCEPT !["bulk"] = Larger(@, signalled["bulk"])]
     \/ /\ Forced(a) \/ ~ (flags.stop \/ ~ admitted)
        /\ at' = [at EXCEPT ![a] = "bulk.lock"]
        /\ UNCHANGED dropped
  /\ UNCHANGED <<clocks, notifying, smallWaiting, forcedBulk, engine, build, taken, upsets>>
  /\ UNCHANGED SnapRest

(* The engine lists the class afresh on every call, and keeps what an      *)
(* earlier call read.                                                      *)
BulkLock(a) ==
  /\ at[a] = "bulk.lock" /\ engine = "free"
  /\ engine' = a
  /\ build' = [listed |-> disk["bulk"], left |-> IF build.left = 0 THEN BuildUnits ELSE build.left]
  /\ at' = [at EXCEPT ![a] = "bulk.build"]
  /\ UNCHANGED <<clocks, notifying, smallWaiting, forcedBulk, taken, dropped, upsets>>
  /\ UNCHANGED SnapRest

(* should_yield at a chunk boundary: the build gives the lock up.          *)
BulkGiveWay(a) ==
  /\ at[a] = "bulk.build" /\ Preempted(a)
  /\ engine' = "free" /\ at' = [at EXCEPT ![a] = "bulk.yield"]
  /\ UNCHANGED <<clocks, notifying, smallWaiting, forcedBulk, build, taken, dropped, upsets>>
  /\ UNCHANGED SnapRest

(* The build reads on to the next boundary; the last one stages it.        *)
BulkRead(a) ==
  /\ at[a] = "bulk.build" /\ ~ Preempted(a)
  /\ build' = [build EXCEPT !.left = @ - 1]
  /\ IF build.left > 1 THEN UNCHANGED <<engine, at, taken>>
     ELSE /\ taken' = [taken EXCEPT !["bulk"] = Larger(@, build.listed)]
          /\ engine' = "free" /\ at' = [at EXCEPT ![a] = "bulk.end"]
  /\ UNCHANGED <<clocks, notifying, smallWaiting, forcedBulk, dropped, upsets>> /\ UNCHANGED SnapRest

(* The build fails; what it had read is dropped with it.                   *)
BulkFail(a) ==
  /\ at[a] = "bulk.build" /\ upsets < config.upsets
  /\ upsets' = upsets + 1
  /\ dropped' = [dropped EXCEPT !["bulk"] = disk["bulk"]]
  /\ build' = [build EXCEPT !.left = 0]
  /\ engine' = "free" /\ at' = [at EXCEPT ![a] = "bulk.end"]
  /\ UNCHANGED <<clocks, notifying, smallWaiting, forcedBulk, taken>> /\ UNCHANGED SnapRest

BulkEnd(a) ==
  /\ at[a] = "bulk.end" /\ ~ notifying
  /\ clocks' = [clocks EXCEPT !["bulk"].snap = 0]
  /\ forcedBulk' = forcedBulk - (IF Forced(a) THEN 1 ELSE 0)
  /\ notifying' = TRUE
  /\ at' = [at EXCEPT ![a] = After(a, "bulk", "final")]
  /\ UNCHANGED <<smallWaiting, engine, build, taken, dropped, upsets>> /\ UNCHANGED SnapRest

--------------------------------------------------------------------------------
(* Time.  What a thread does between two waits takes no time to speak of;  *)
(* its waits do: for the condition variable, for the engine lock, for its  *)
(* turn, and while a build reads.                                          *)
Waiting(a) ==
  \/ at[a] \in {"idle", "done", "gone", "bulk.build"}
  \/ at[a] = "asleep" /\ a \notin woken /\ seen[a].in > 0
  \/ at[a] \in {"repair", "small.wait", "bulk.lock"} /\ engine # "free"
  \/ at[a] = "bulk.yield" /\ Preempted(a)

(* One unit of time passes for the clocks and for a loop's deadline.       *)
Older(c, clock) ==
  [first |-> IF clock.first = None THEN None ELSE Smaller(clock.first + 1, config[c].max),
   last |-> IF clock.last = None THEN None ELSE Smaller(clock.last + 1, config[c].quiet),
   snap |-> Smaller(clock.snap + 1, Longest(c))]

Tick ==
  /\ \A a \in Actor : Waiting(a)
  /\ clocks' = [c \in Class |-> IF c \in config.captures THEN Older(c, clocks[c]) ELSE clocks[c]]
  /\ seen' = [c \in Loop |-> [seen[c] EXCEPT !.in = Larger(0, @ - 1)]]
  /\ UNCHANGED <<modes, flags, at, woken, notifying, smallWaiting, forcedBulk, engine, build,
                 config, admitted, events, disk, signalled, taken, dropped, upsets>>

--------------------------------------------------------------------------------
(* CadenceRunner::start gives the classes the modes the watcher reports    *)
(* and starts the loops; bulk has one only when it is captured.            *)
CadenceInit ==
  /\ config \in Cadences
  /\ clocks = [c \in Class |-> [first |-> None, last |-> None, snap |-> 0]]
  /\ modes \in config.modes
  /\ flags = [overflowed |-> FALSE, repair |-> FALSE, stop |-> FALSE]
  /\ at = [a \in Actor |-> IF a = "caller" THEN "idle" ELSE IF a \in Active THEN "top" ELSE "gone"]
  /\ seen = [c \in Loop |-> [in |-> 0, overflowed |-> FALSE, repair |-> FALSE]]
  /\ woken = {} /\ notifying = FALSE
  /\ smallWaiting = 0 /\ forcedBulk = 0
  /\ engine = "free" /\ build = [listed |-> 0, left |-> 0]
  /\ admitted = TRUE
  /\ events = [c \in Class |-> 0]
  /\ disk = [c \in Class |-> 0] /\ signalled = disk /\ taken = disk /\ dropped = disk
  /\ upsets = 0

(* CadenceRunner::stop; it then joins the loops.                           *)
Stop ==
  /\ ~ flags.stop /\ ~ notifying
  /\ flags' = [flags EXCEPT !.stop = TRUE]
  /\ notifying' = TRUE
  /\ UNCHANGED <<clocks, modes, events, signalled, upsets>> /\ UNCHANGED SignalRest

LoopStep(c) == LoopTop(c) \/ LoopDue(c) \/ LoopSleep(c) \/ LoopWake(c) \/ (c = "small" /\ LoopRepair)

SnapStep(a) ==
  \/ SmallBegin(a) \/ SmallWalk(a) \/ SmallEnd(a)
  \/ BulkBegin(a) \/ BulkYield(a) \/ BulkLock(a)
  \/ BulkGiveWay(a) \/ BulkRead(a) \/ BulkFail(a) \/ BulkEnd(a)

CadenceNext ==
  \/ Tick \/ Notify \/ SignalOverflow \/ AskRepair \/ Admission \/ ForceSnaps \/ Stop
  \/ \E c \in Class : \/ Write(c) \/ SignalChanged(c) \/ SignalUnwatched(c) \/ SignalRewatched(c)
                      \/ AliasMoved(c) \/ LoopStep(c)
  \/ \E a \in Actor : SnapStep(a)

(* Time passes, threads run, the engine lock is handed on, the watcher     *)
(* delivers what it read and an admission that was lost comes back; a build *)
(* that gets the lock again and again reads on: the small class is due     *)
(* seconds apart, a chunk is read in milliseconds.                         *)
CadenceFairness ==
  /\ WF_cadenceVars(Tick) /\ WF_cadenceVars(Notify)
  /\ WF_cadenceVars(~ admitted /\ Admission)
  /\ \A c \in Class : WF_cadenceVars(LoopStep(c)) /\ WF_cadenceVars(SignalChanged(c))
  /\ \A a \in Actor : WF_cadenceVars(SnapStep(a)) /\ SF_cadenceVars(BulkRead(a))

--------------------------------------------------------------------------------
CadenceTypeOK ==
  /\ \A c \in Class : /\ clocks[c].first \in -1 .. config[c].max
                      /\ clocks[c].last \in -1 .. config[c].quiet
                      /\ clocks[c].snap \in 0 .. Longest(c)
                      /\ taken[c] <= disk[c] /\ signalled[c] <= disk[c]
  /\ modes \in [Class -> {"watched", "polled"}]
  /\ smallWaiting \in 0 .. 2 /\ forcedBulk \in 0 .. 1
  /\ engine \in {"free"} \cup Actor
  /\ engine # "free" => at[engine] = "bulk.build"
  /\ build.left \in 0 .. BuildUnits

(* A loop asleep that no notification is on its way to sleeps no longer    *)
(* than its class's clock allows now: no signal, overflow, forced snap or  *)
(* repair request falls between deciding how long to sleep and sleeping.   *)
NoStaleSleep ==
  \A c \in Loop : (at[c] = "asleep" /\ c \notin woken /\ ~ notifying)
                  => /\ seen[c].in <= Larger(0, Due(c, clocks[c], modes[c]))
                     /\ ~ flags.stop
                     /\ c = "small" => ~ flags.repair

(* A change the watcher signalled stays on its class's clock until a snap  *)
(* that began after it read the disk, a refused one let go of it, or the   *)
(* snap under way is still to read it: it is never left to the reconciling *)
(* snap because a snap cleared the clock that did not see it.              *)
Reading(c) == \E a \in Actor : at[a] \in IF c = "small" THEN {"small.wait"}
                                         ELSE {"bulk.yield", "bulk.lock", "bulk.build"}

SignalledStaysDue ==
  \A c \in Active : signalled[c] > Larger(taken[c], dropped[c])
                    => clocks[c].first # None \/ Reading(c)

(* Every write is captured, seen by the watcher or not, through overflows, *)
(* failed snaps and fences, unless the runner stops.                       *)
Uncaptured(c) == disk[c] > taken[c]
CapturedOrStopped(c) == disk[c] = taken[c] \/ flags.stop
EveryWriteCaptured == \A c \in Class : Uncaptured(c) ~> CapturedOrStopped(c)

(* stop() joins its loops and a forced snap returns: no snap waits for     *)
(* another that waits for it.                                              *)
LoopsGone == \A c \in Loop : at[c] = "gone"
NobodyHangs ==
  /\ flags.stop ~> LoopsGone
  /\ at["caller"] # "idle" ~> at["caller"] = "done"

\* The loop sleeps on no stale state and forgets no signalled change.
NothingForgotten == NoStaleSleep /\ SignalledStaysDue
================================================================================
