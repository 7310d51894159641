------------------------------ MODULE Processes ------------------------------
(***************************************************************************)
(* The process runtime (crates/sealant-process/src/runtime.rs,             *)
(* registry.rs, signals.rs) and the daemon's shutdown around it            *)
(* (crates/sealantd/src/runtime.rs, app.rs, shutdown.rs).                  *)
(*                                                                         *)
(* An exec request passes the dispatcher's gates, reads the process count, *)
(* spawns a child in a group of its own, registers it and leaves it to     *)
(* three tasks: one per output pipe (they behave alike: one is followed)   *)
(* and a waiter that reaps the child, drains the pipes, sends the attach   *)
(* channel's End, publishes the exit and takes the entry out.  The child   *)
(* may leave a process of its own in the group, holding the pipe or not,   *)
(* and that one may leave the group.  The shutdown signals the groups that *)
(* are registered, waits, kills, and the daemon exits.                     *)
(***************************************************************************)
EXTENDS Integers, Sequences, FiniteSets

CONSTANTS Procs,            \* the exec requests
          ProcessLimits     \* a set of [execs, max, output, forks, timed, attached, orders]

\* What the constants may be.
ProcessConstants == IsFiniteSet(Procs)

VARIABLES daemon,   \* the runtime's state and its shutdown
          procs     \* per exec: the handler, the child, its output, its entry

processVars == <<daemon, procs>>

NoChild == "none"
Gone == "gone"

\* One exec.  pc: the handler and then the waiter; leader: the child itself;
\* child: what it left behind ("held" has the pipe open, "quiet" has not,
\* "away" has it open and left the group).
Fresh == [pc |-> "idle", leader |-> NoChild, child |-> NoChild, written |-> 0, piped |-> 0,
          recorded |-> 0, stream |-> "open", channel |-> <<>>, listening |-> FALSE,
          timer |-> "off", entry |-> FALSE, state |-> "Starting", why |-> "none",
          stdin |-> "closed", events |-> <<>>]

ProcessInit ==
    /\ procs = [p \in Procs |-> Fresh]
    /\ \E l \in ProcessLimits :
          daemon = [state |-> "Healthy", requested |-> FALSE, hard |-> FALSE, stage |-> "serving",
                    count |-> 0, executions |-> 0, seen |-> {}, limit |-> l]

Limit == daemon.limit
Set(p, r) == procs' = [procs EXCEPT ![p] = r]

\* ProcessEntry::is_live, ProcessRegistry::running.
IsLive(p) == procs[p].state \in {"Starting", "Running", "Terminating"}
Registered == {p \in Procs : procs[p].entry}
RunningEntries == {p \in Registered : IsLive(p)}

\* Who still has the write end of the pipe.
Holders(r) == r.leader = "alive" \/ r.child \in {"held", "away"}

----------------------------------------------------------------------------
(* Signals to a group: ESRCH is success, SIGKILL ends every member, any    *)
(* other signal ends the members that do not ignore it.                    *)

Killed(r) ==
    [r EXCEPT !.leader = IF @ = "alive" THEN "zombie" ELSE @,
              !.why = IF r.leader = "alive" THEN "Signaled" ELSE @,
              !.child = IF @ \in {"held", "quiet"} THEN Gone ELSE @]

Signalled(r) ==
    {r, Killed(r),
     [Killed(r) EXCEPT !.child = r.child],
     [r EXCEPT !.child = Killed(r).child]}

----------------------------------------------------------------------------
(* The dispatcher.                                                         *)

\* dispatch: once the daemon is shutting down only readings are served.
Serving == daemon.state = "Healthy"

Dispatch(p) ==
    /\ procs[p].pc = "idle"
    /\ Cardinality({q \in Procs : procs[q].pc # "idle"}) < Limit.execs
    /\ \/ Serving /\ Set(p, [procs[p] EXCEPT !.pc = "admitted"])
       \/ ~Serving /\ Set(p, [procs[p] EXCEPT !.pc = "refused"])
    /\ UNCHANGED daemon

\* exec_inner: the arguments, then the limit, read from a counter that is
\* only raised after the spawn.
CheckLimit(p) ==
    /\ procs[p].pc = "admitted"
    /\ Set(p, [procs[p] EXCEPT !.pc = IF daemon.count >= Limit.max THEN "refused" ELSE "allowed"])
    /\ UNCHANGED daemon

\* The arguments are invalid, the user unknown or the program missing.
SpawnFails(p) ==
    /\ procs[p].pc = "allowed"
    /\ Set(p, [procs[p] EXCEPT !.pc = "refused"])
    /\ UNCHANGED daemon

Spawn(p) ==
    /\ procs[p].pc = "allowed"
    /\ \E attach \in Limit.attached, timed \in Limit.timed :
          Set(p, [procs[p] EXCEPT !.pc = "spawned", !.leader = "alive", !.stdin = "open",
                                  !.listening = attach, !.timer = IF timed THEN "armed" ELSE "off"])
    /\ UNCHANGED daemon

Register(p) ==
    /\ procs[p].pc = "spawned"
    /\ Set(p, [procs[p] EXCEPT !.pc = "registered", !.entry = TRUE, !.state = "Running"])
    /\ UNCHANGED daemon

\* The count, ProcessStarted, and the three tasks.
StartTasks(p) ==
    /\ procs[p].pc = "registered"
    /\ Set(p, [procs[p] EXCEPT !.pc = "waiting", !.events = Append(@, "ProcessStarted")])
    /\ daemon' = [daemon EXCEPT !.count = @ + 1]

----------------------------------------------------------------------------
(* The child, and what it leaves behind.                                   *)

Started(p) == procs[p].leader # NoChild

Writes(p) ==
    /\ Started(p) /\ Holders(procs[p])
    /\ procs[p].written < Limit.output
    /\ Set(p, [procs[p] EXCEPT !.written = @ + 1, !.piped = @ + 1])
    /\ UNCHANGED daemon

Forks(p) ==
    /\ procs[p].leader = "alive" /\ procs[p].child = NoChild /\ Limit.forks
    /\ \E c \in {"held", "quiet"} : Set(p, [procs[p] EXCEPT !.child = c])
    /\ UNCHANGED daemon

LeavesGroup(p) ==
    /\ procs[p].child = "held"
    /\ Set(p, [procs[p] EXCEPT !.child = "away"])
    /\ UNCHANGED daemon

LeaderExits(p) ==
    /\ procs[p].leader = "alive"
    /\ Set(p, [procs[p] EXCEPT !.leader = "zombie", !.why = "Exited"])
    /\ UNCHANGED daemon

ChildExits(p) ==
    /\ procs[p].child \in {"held", "quiet", "away"}
    /\ Set(p, [procs[p] EXCEPT !.child = Gone])
    /\ UNCHANGED daemon

----------------------------------------------------------------------------
(* capture_stream: a chunk goes to the attached channel and then to the    *)
(* recorder; a channel that is gone is forgotten.                          *)

TasksRun(p) == procs[p].pc \in {"waiting", "reaped"} /\ daemon.stage # "exited"

CaptureChunk(p) ==
    /\ TasksRun(p) /\ procs[p].piped > 0
    /\ Set(p, [procs[p] EXCEPT !.piped = @ - 1, !.recorded = @ + 1,
                               !.events = Append(@, "IoChunk"),
                               !.channel = IF procs[p].listening THEN Append(@, "Data") ELSE @])
    /\ UNCHANGED daemon

CaptureEof(p) ==
    /\ TasksRun(p) /\ procs[p].stream = "open"
    /\ procs[p].piped = 0 /\ ~Holders(procs[p])
    /\ Set(p, [procs[p] EXCEPT !.stream = "eof"])
    /\ UNCHANGED daemon

\* The connection of an attached exec closes: its closer kills the process,
\* if it still has an entry, and later chunks are only recorded.
ConnectionCloses(p) ==
    /\ procs[p].listening /\ procs[p].pc \notin {"spawned", "registered"}
    /\ LET r == [procs[p] EXCEPT !.listening = FALSE]
       IN Set(p, IF procs[p].entry THEN Killed(r) ELSE r)
    /\ UNCHANGED daemon

----------------------------------------------------------------------------
(* The waiter.  run_to_exit: the timer's SIGTERM, after the grace period   *)
(* SIGKILL, and the wait; both signals are sent only while the child is    *)
(* not reaped, so its group is its own.                                    *)

TimeoutTerm(p) ==
    /\ procs[p].pc = "waiting" /\ procs[p].timer = "armed" /\ daemon.stage # "exited"
    /\ \E r \in Signalled([procs[p] EXCEPT !.timer = "termed"]) : Set(p, r)
    /\ UNCHANGED daemon

\* A plausible bug: the second signal is the first one again.
TimeoutTermAgain(p) ==
    /\ procs[p].pc = "waiting" /\ procs[p].timer = "termed" /\ daemon.stage # "exited"
    /\ \E r \in Signalled([procs[p] EXCEPT !.timer = "killed"]) : Set(p, r)
    /\ UNCHANGED daemon

TimeoutKill(p) ==
    /\ procs[p].pc = "waiting" /\ procs[p].timer = "termed" /\ daemon.stage # "exited"
    /\ Set(p, Killed([procs[p] EXCEPT !.timer = "killed"]))
    /\ UNCHANGED daemon

Reap(p) ==
    /\ procs[p].pc = "waiting" /\ procs[p].leader = "zombie" /\ daemon.stage # "exited"
    /\ Set(p, [procs[p] EXCEPT !.pc = "reaped", !.leader = Gone,
                               !.why = IF procs[p].timer \in {"termed", "killed"}
                                       THEN "Timeout" ELSE @])
    /\ UNCHANGED daemon

\* The state the outcome gives the entry.
OutcomeState(why) == IF why = "Exited" THEN "Exited" ELSE "Signaled"

Report(p) ==
    Set(p, [procs[p] EXCEPT !.pc = "reported", !.state = OutcomeState(procs[p].why),
                            !.events = Append(@, "ProcessExited"),
                            !.channel = IF procs[p].listening THEN Append(@, "End") ELSE @])

\* A plausible bug: the exit is reported as soon as the child is reaped.
ReportExitUndrained(p) ==
    /\ procs[p].pc = "reaped" /\ daemon.stage # "exited"
    /\ Report(p)
    /\ UNCHANGED daemon

\* Both capture tasks have ended: the channel's End, the state, the event.
ReportExit(p) ==
    /\ procs[p].pc = "reaped" /\ procs[p].stream = "eof" /\ daemon.stage # "exited"
    /\ Report(p)
    /\ UNCHANGED daemon

Unregister(p) ==
    /\ procs[p].pc = "reported" /\ procs[p].entry /\ daemon.stage # "exited"
    /\ Set(p, [procs[p] EXCEPT !.entry = FALSE, !.stdin = "closed"])
    /\ UNCHANGED daemon

Uncount(p) ==
    /\ procs[p].pc = "reported" /\ ~procs[p].entry /\ daemon.stage # "exited"
    /\ Set(p, [procs[p] EXCEPT !.pc = "done"])
    /\ daemon' = [daemon EXCEPT !.count = @ - 1]

----------------------------------------------------------------------------
(* The commands on a process.                                              *)

\* signal, kill: any entry's group, live or not.
SignalProcess(p) ==
    /\ "signal" \in Limit.orders /\ Serving /\ procs[p].entry
    /\ \E r \in Signalled(procs[p]) : Set(p, r)
    /\ UNCHANGED daemon

KillProcess(p) ==
    /\ "signal" \in Limit.orders /\ Serving /\ procs[p].entry
    /\ Set(p, Killed(procs[p]))
    /\ UNCHANGED daemon

\* ExecutionStop terminates what is listed for it and not finished.
ExecutionStop ==
    /\ "stop" \in Limit.orders /\ Serving /\ daemon.executions > 0
    /\ procs' \in [Procs -> UNION {Signalled(procs[p]) : p \in Procs} \cup
                            {procs[p] : p \in Procs}]
    /\ \A p \in Procs : IF p \in Registered /\ procs[p].state \notin {"Exited", "Signaled"}
                        THEN procs'[p] \in Signalled(procs[p]) ELSE procs'[p] = procs[p]
    /\ daemon' = [daemon EXCEPT !.executions = @ - 1]

ExecutionStart ==
    /\ "stop" \in Limit.orders /\ Serving /\ daemon.executions = 0
    /\ daemon' = [daemon EXCEPT !.executions = @ + 1]
    /\ UNCHANGED procs

\* write_stdin holds the entry's stdin while the child does not read it, and
\* close_stdin waits for it; a write ends with EPIPE when nobody reads.
WriteStdin(p) ==
    /\ "stdin" \in Limit.orders /\ Serving /\ procs[p].entry /\ procs[p].stdin = "open"
    /\ Set(p, [procs[p] EXCEPT !.stdin = "writing"])
    /\ UNCHANGED daemon

StdinWritten(p) ==
    /\ procs[p].stdin = "writing"
    /\ Set(p, [procs[p] EXCEPT !.stdin = IF procs[p].entry THEN "open" ELSE "closed"])
    /\ UNCHANGED daemon

CloseStdin(p) ==
    /\ "stdin" \in Limit.orders /\ Serving /\ procs[p].entry /\ procs[p].stdin = "open"
    /\ Set(p, [procs[p] EXCEPT !.stdin = "closed"])
    /\ UNCHANGED daemon

----------------------------------------------------------------------------
(* The shutdown.                                                           *)

\* ShutdownSignal, from a command, a signal to the daemon or the frontend
\* ending.
RequestShutdown(hard) ==
    /\ daemon.stage = "serving"
    /\ ~daemon.requested \/ (hard /\ ~daemon.hard)
    /\ daemon' = [daemon EXCEPT !.requested = TRUE, !.hard = @ \/ hard]
    /\ UNCHANGED procs

\* begin_shutdown: the state, then terminate_all.
BeginShutdown ==
    /\ daemon.requested /\ daemon.stage = "serving"
    /\ daemon' = [daemon EXCEPT !.state = "ShuttingDown", !.stage = "terminating"]
    /\ UNCHANGED procs

\* terminate_all: with nothing registered it is over; else every live entry
\* is signalled, with SIGKILL when the shutdown is a hard one.
SignalAll ==
    /\ daemon.stage = "terminating"
    /\ daemon' = [daemon EXCEPT !.stage = IF RunningEntries = {} THEN "terminated" ELSE "grace",
                                !.seen = RunningEntries]
    /\ \E hit \in [RunningEntries -> UNION {Signalled(procs[p]) : p \in RunningEntries}] :
          /\ \A p \in RunningEntries :
                hit[p] \in IF daemon.hard THEN {Killed(procs[p])} ELSE Signalled(procs[p])
          /\ procs' = [p \in Procs |-> IF p \in RunningEntries
                                       THEN [hit[p] EXCEPT !.state = "Terminating"] ELSE procs[p]]

\* A plausible bug: the kill goes to the entries whose child is not reaped.
KillAllUnreaped ==
    /\ daemon.stage = "grace"
    /\ procs' = [p \in Procs |-> IF p \in RunningEntries /\ procs[p].leader # Gone
                                 THEN Killed(procs[p]) ELSE procs[p]]
    /\ daemon' = [daemon EXCEPT !.stage = "killed"]

\* The registry is empty or the grace period over: SIGKILL to what is live.
KillAll ==
    /\ daemon.stage = "grace"
    /\ procs' = [p \in Procs |-> IF p \in RunningEntries THEN Killed(procs[p]) ELSE procs[p]]
    /\ daemon' = [daemon EXCEPT !.stage = "killed"]

\* The registry is empty, or two seconds have passed.
KillWaited ==
    /\ daemon.stage = "killed"
    /\ daemon' = [daemon EXCEPT !.stage = "terminated"]
    /\ UNCHANGED procs

\* The rest of begin_shutdown, the frontends, finish_shutdown.
FinishShutdown ==
    /\ daemon.stage = "terminated"
    /\ daemon' = [daemon EXCEPT !.stage = "finished", !.state = "Stopped"]
    /\ UNCHANGED procs

\* The tokio runtime is dropped, the waiters with it: kill_on_drop kills the
\* child of each, and its group's other members are left.
Exit ==
    /\ daemon.stage = "finished"
    /\ \A p \in Procs : procs[p].pc \notin {"admitted", "allowed", "spawned", "registered"}
    /\ daemon' = [daemon EXCEPT !.stage = "exited"]
    /\ procs' = [p \in Procs |-> IF procs[p].pc = "waiting"
                                 THEN [Killed(procs[p]) EXCEPT !.child = procs[p].child]
                                 ELSE procs[p]]

----------------------------------------------------------------------------
Handler(p) == Dispatch(p) \/ CheckLimit(p) \/ SpawnFails(p) \/ Spawn(p) \/ Register(p)
              \/ StartTasks(p)
Outside(p) == Writes(p) \/ Forks(p) \/ LeavesGroup(p) \/ LeaderExits(p) \/ ChildExits(p)
              \/ ConnectionCloses(p)
Tasks(p) == CaptureChunk(p) \/ CaptureEof(p) \/ TimeoutTerm(p) \/ TimeoutKill(p) \/ Reap(p)
            \/ ReportExit(p) \/ Unregister(p) \/ Uncount(p)
Orders(p) == SignalProcess(p) \/ KillProcess(p) \/ WriteStdin(p) \/ StdinWritten(p)
             \/ CloseStdin(p)
Shutdown == BeginShutdown \/ SignalAll \/ KillAll \/ KillWaited \/ FinishShutdown \/ Exit

ProcessNext ==
    \/ \E p \in Procs : Handler(p) \/ Outside(p) \/ Tasks(p) \/ Orders(p)
    \/ ExecutionStart \/ ExecutionStop
    \/ \E hard \in BOOLEAN : RequestShutdown(hard)
    \/ Shutdown

\* The handlers, the tasks and their timers, and the shutdown are scheduled;
\* what the child does, and what clients ask, is not.
ProcessFairness ==
    /\ \A p \in Procs : /\ WF_processVars(Tasks(p))
                        /\ WF_processVars(Handler(p) /\ procs[p].pc # "idle")
    /\ WF_processVars(Shutdown)

ProcessSpec == ProcessInit /\ [][ProcessNext]_processVars /\ ProcessFairness

----------------------------------------------------------------------------
(* Properties.                                                             *)

ProcessTypeOK ==
    /\ daemon.state \in {"Healthy", "ShuttingDown", "Stopped"}
    /\ daemon.stage \in {"serving", "terminating", "grace", "killed", "terminated", "finished",
                         "exited"}
    /\ daemon.count \in 0..Cardinality(Procs)
    /\ \A p \in Procs :
          /\ procs[p].leader \in {NoChild, "alive", "zombie", Gone}
          /\ procs[p].child \in {NoChild, "held", "quiet", "away", Gone}
          /\ procs[p].state \in {"Starting", "Running", "Terminating", "Exited", "Signaled"}
          /\ procs[p].timer \in {"off", "armed", "termed", "killed"}

\* "Drain captured output before publishing the exit" (runtime.rs): the exit
\* of a process is its last event, every byte anybody wrote to its output is
\* recorded before it, and nobody is left who could write more; the attached
\* channel's End is its last frame and follows every byte.
ExitIsLast ==
    \A p \in Procs :
        LET r == procs[p]
            Last(s, x) == \A i \in DOMAIN s : s[i] = x => i = Len(s)
        IN /\ Last(r.events, "ProcessExited") /\ Last(r.channel, "End")
           /\ r.pc \in {"reported", "done"} => /\ r.recorded = r.written
                                               /\ ~Holders(r)
                                               /\ r.events[Len(r.events)] = "ProcessExited"

\* The tree a shutdown terminates is gone when it says so: after the kill no
\* member of a group that was registered then is alive and holds the output,
\* though its leader may long have been reaped, unless it left the group; and
\* no child of an exec the dispatcher let in before the state changed
\* outlives the daemon.
ShutdownReachesTheTree ==
    /\ daemon.stage \in {"killed", "terminated", "finished"} =>
          \A p \in daemon.seen : procs[p].leader # "alive" /\ procs[p].child # "held"
    /\ daemon.stage = "exited" => \A p \in Procs : procs[p].leader # "alive"

\* A requested shutdown ends whatever the processes do with its signals; and
\* an exec with a timeout ends with its exit published, or somebody outside
\* the child still holds its output.
Exited == daemon.stage = "exited"
TimeoutOver(p) == procs[p].pc = "done" \/ procs[p].child \in {"held", "away"} \/ Exited
ShutdownEnds == daemon.requested ~> Exited
TimeoutEnds == \A p \in Procs : procs[p].timer = "armed" ~> TimeoutOver(p)
ProcessesEnd == ShutdownEnds /\ TimeoutEnds

\* No event of a process follows its exit, and a shutdown leaves no process of it running.
ExecEndsWhole == ExitIsLast /\ ShutdownReachesTheTree
============================================================================
