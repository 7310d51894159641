-------------------------------- MODULE Sweep --------------------------------
(***************************************************************************)
(* Stopping every writer before the final capture: Runtime::quiesce and    *)
(* census_writers (crates/sealantd/src/runtime.rs), the sweep of /proc     *)
(* (sweep.rs) and the workspace's containers (docker.rs).                  *)
(*                                                                         *)
(* A scan reads /proc one pid after the other, in the order of the pids,   *)
(* while processes fork, leave their group, exit and are re-parented; what *)
(* it selects is decided from what it read, and signalled afterwards.  A   *)
(* pid is not used twice (the reuse of a pid within one sweep is left      *)
(* out), but a new process may get one the scan has passed.                *)
(***************************************************************************)
EXTENDS Integers, FiniteSets, FiniteSetsExt

CONSTANTS MaxPid,          \* pids 2..MaxPid are the daemon's neighbours and children
          SweepLimits      \* a set of [table, scope, subreaper, recovery, gate, exempt, trees,
                           \*           listed, hard, forks, exits, docker]

Agent == 0                 \* what started the daemon
Me == 1                    \* the daemon
PidRange == 2..MaxPid

VARIABLES table,    \* pid -> [state, ppid, pgid]
          sweep,    \* the quiesce and its scan
          docker    \* the workspace's containers

sweepVars == <<table, sweep, docker>>

Free == [state |-> "free", ppid |-> Agent, pgid |-> 0]
Proc(ppid, pgid) == [state |-> "run", ppid |-> ppid, pgid |-> pgid]
Limit == sweep.limit

Alive(p) == table[p].state \in {"run", "stopped"}

----------------------------------------------------------------------------
(* What a scan selects, from what it read: a function from the pids it     *)
(* found to their entries.                                                 *)

\* The chain of parents the entries give, the pid itself first, as far as it
\* leads (bounded by the number of entries: one read while it changes may
\* hold a cycle).
Chain(read, p) ==
    LET up[n \in 0..Cardinality(DOMAIN read) + 1] ==
            IF n = 0 THEN {p}
            ELSE up[n - 1] \cup {read[q].ppid : q \in up[n - 1] \cap DOMAIN read}
    IN up[Cardinality(DOMAIN read) + 1]

Descends(read, p) == Me \in Chain(read, p)

\* A plausible bug: being in the daemon's group is enough.
HelperByGroup(read, p) == read[p].pgid = Me

\* Sweeper::helper: reached through the daemon's own group only, a pid the
\* spawn gate holds.
Helper(read, p) ==
    LET up[n \in 0..Cardinality(DOMAIN read) + 1] ==
            IF n = 0 THEN {p}
            ELSE up[n - 1] \cup {read[q].ppid : q \in {r \in up[n - 1] \cap DOMAIN read :
                                                          read[r].pgid = Me}}
        own == {q \in up[Cardinality(DOMAIN read) + 1] \cap DOMAIN read : read[q].pgid = Me}
    IN own \cap Limit.gate # {}

\* Named by the agent, or below one that is named with its descendants.
Spared(read, p) ==
    \/ p \in Limit.exempt
    \/ (Chain(read, p) \ {p}) \cap Limit.trees # {}

Select(read) ==
    {p \in DOMAIN read :
        /\ read[p].state \in {"run", "stopped"}
        /\ ~Spared(read, p)
        /\ ~Helper(read, p)
        /\ sweep.scope = "descendants" => Descends(read, p)}

----------------------------------------------------------------------------
(* The processes.                                                          *)

SweepInit ==
    \E l \in SweepLimits :
        /\ table = [p \in PidRange |-> IF p \in DOMAIN l.table THEN l.table[p] ELSE Free]
        /\ sweep = [pc |-> "idle", at |-> 2, read |-> <<>>, round |-> "term", seen |-> {},
                    scope |-> l.scope, left |-> 0, unreadable |-> FALSE, result |-> "none",
                    moved |-> FALSE, hit |-> {}, used |-> DOMAIN l.table, forks |-> 0,
                    limit |-> l]
        /\ docker = [running |-> 0, runs |-> 0, listed |-> 0, failed |-> FALSE]

\* Spared by right: what the agent named, and the children of one named with
\* its tree; the daemon's own git, and its children in the group.
OwnGit(p) == p \in Limit.gate /\ table[p].pgid = Me
Named(p) == p \in Limit.exempt
Ours(p) ==
    \/ Named(p) \/ OwnGit(p)
    \/ table[p].ppid \in Limit.trees
    \/ table[p].ppid \in PidRange /\ OwnGit(table[p].ppid) /\ table[p].pgid = Me
InScope(p) == sweep.scope = "descendants" => Descends(table, p)
LiveWriters == {p \in PidRange : Alive(p) /\ ~Ours(p) /\ InScope(p)}

Fork(p, c) ==
    /\ table[p].state = "run" /\ ~Ours(p) /\ c \notin sweep.used
    /\ sweep.forks < Limit.forks
    /\ table' = [table EXCEPT ![c] = Proc(p, table[p].pgid)]
    /\ sweep' = [sweep EXCEPT !.used = @ \cup {c}, !.forks = @ + 1, !.moved = TRUE]
    /\ UNCHANGED docker

\* setsid, or a group of its own; or joining the daemon's.
LeaveGroup(p) ==
    /\ table[p].state = "run" /\ ~Ours(p) /\ sweep.pc = "idle"
    /\ \E g \in {p, Me} \ {table[p].pgid} : table' = [table EXCEPT ![p].pgid = g]
    /\ UNCHANGED <<sweep, docker>>

\* An orphan goes to the daemon when it is a subreaper and an ancestor, else
\* to the agent.
NewParent(p) == IF Limit.subreaper /\ Descends(table, p) THEN Me ELSE Agent
Orphaned(t, p) ==
    [q \in PidRange |-> IF q = p THEN Free
                    ELSE IF t[q].ppid = p THEN [t[q] EXCEPT !.ppid = NewParent(p)] ELSE t[q]]

Exit(p) ==
    /\ Alive(p) /\ ~Ours(p) /\ Limit.exits
    /\ table' = Orphaned(table, p)
    /\ sweep' = [sweep EXCEPT !.moved = TRUE]
    /\ UNCHANGED docker

\* A process starts a container: it runs on when its starter is gone.
StartContainer(p) ==
    /\ table[p].state = "run" /\ ~Ours(p) /\ Limit.docker /\ docker.runs < 2
    /\ docker' = [docker EXCEPT !.running = @ + 1, !.runs = @ + 1]
    /\ UNCHANGED <<table, sweep>>

----------------------------------------------------------------------------
(* Runtime::quiesce.                                                       *)

\* sweep_scope: an agent's list widens the scope to the machine; a list that
\* cannot be read narrows it again, and the capture cannot be complete.
Begin ==
    /\ sweep.pc = "idle"
    /\ \E readable \in BOOLEAN :
          /\ readable \/ Limit.listed
          /\ sweep' = [sweep EXCEPT !.pc = "containers",
                !.scope = CASE Limit.scope = "descendants" /\ Limit.listed /\ readable -> "machine"
                            [] Limit.listed /\ ~readable -> "descendants"
                            [] OTHER -> Limit.scope,
                !.unreadable = ~readable,
                !.round = IF Limit.hard THEN "kill" ELSE "term"]
    /\ UNCHANGED <<table, docker>>

\* docker::stop_all: the running containers are listed, stopped and listed
\* again; without an answer the quiesce counts one as left.
StopContainers(from, to) ==
    /\ sweep.pc = from
    /\ \E failed \in (IF Limit.docker THEN BOOLEAN ELSE {FALSE}) :
          docker' = [docker EXCEPT !.failed = @ \/ failed,
                                   !.running = IF failed THEN @ ELSE 0,
                                   !.listed = IF failed THEN 1 ELSE 0]
    /\ sweep' = [sweep EXCEPT !.pc = to]
    /\ UNCHANGED table

FirstContainers == StopContainers("containers", "start")
AgainContainers == StopContainers("swept", "answer")

ScanBegin ==
    /\ sweep.pc = "start"
    /\ sweep' = [sweep EXCEPT !.pc = "scan", !.moved = FALSE]
    /\ UNCHANGED <<table, docker>>

\* read_proc: the next pid.
ReadOne ==
    /\ sweep.pc \in {"scan", "census"} /\ sweep.at <= MaxPid
    /\ sweep' = [sweep EXCEPT !.at = @ + 1,
           !.read = IF Alive(sweep.at)
                    THEN [p \in DOMAIN @ \cup {sweep.at} |->
                             IF p = sweep.at THEN table[p] ELSE @[p]]
                    ELSE @]
    /\ UNCHANGED <<table, docker>>

\* The signals of one round: SIGTERM once per pid, and whoever obeys exits,
\* at once or later (Exit); SIGKILL to all.
NextScan == [sweep EXCEPT !.at = 2, !.read = <<>>, !.moved = FALSE]

\* SIGCONT, and SIGTERM for a pid not seen before.
TermRound ==
    /\ sweep.pc = "scan" /\ sweep.at > MaxPid /\ sweep.round = "term"
    /\ Select(sweep.read) # {}
    /\ \E over \in BOOLEAN :
          sweep' = [NextScan EXCEPT !.seen = @ \cup Select(sweep.read),
                                    !.hit = @ \cup Select(sweep.read),
                                    !.round = IF over THEN "kill" ELSE @]
    /\ \E dead \in SUBSET (Select(sweep.read) \ sweep.seen) :
          table' = FoldSet(LAMBDA p, t : Orphaned(t, p), table, {p \in dead : Alive(p)})
    /\ UNCHANGED docker

KillRound ==
    /\ sweep.pc = "scan" /\ sweep.at > MaxPid /\ sweep.round = "kill"
    /\ Select(sweep.read) # {}
    /\ table' = FoldSet(LAMBDA p, t : Orphaned(t, p), table, {p \in Select(sweep.read) : Alive(p)})
    /\ \E over \in BOOLEAN :
          sweep' = [NextScan EXCEPT !.seen = @ \cup Select(sweep.read),
                                    !.hit = @ \cup Select(sweep.read),
                                    !.pc = IF over THEN "swept" ELSE @,
                                    !.left = IF over THEN Cardinality(Select(sweep.read)) ELSE 0]
    /\ UNCHANGED docker

\* A scan that selects nothing ends the sweep.
SweepDone ==
    /\ sweep.pc = "scan" /\ sweep.at > MaxPid
    /\ Select(sweep.read) = {}
    /\ sweep' = [sweep EXCEPT !.pc = "swept", !.left = 0]
    /\ UNCHANGED <<table, docker>>

\* sweep_unavailable: the daemon's descendants are not all there is.
SweepUnavailable ==
    /\ Limit.scope = "descendants" /\ ~Limit.listed
    /\ ~Limit.subreaper \/ Limit.recovery

Answer ==
    /\ sweep.pc = "answer"
    /\ sweep' = [sweep EXCEPT !.pc = "done",
           !.result = IF sweep.left + docker.listed + (IF docker.failed THEN 1 ELSE 0) > 0
                      THEN "processes-remain"
                      ELSE IF SweepUnavailable \/ sweep.unreadable
                      THEN "sweep-unavailable" ELSE "ok"]
    /\ UNCHANGED <<table, docker>>

----------------------------------------------------------------------------
(* Runtime::census_writers, before the seal: the daemon's descendants.     *)

CensusBegin ==
    /\ sweep.pc = "done" /\ sweep.result = "ok"
    /\ sweep' = [NextScan EXCEPT !.pc = "census", !.scope = "descendants", !.seen = {}]
    /\ UNCHANGED <<table, docker>>

CensusKills ==
    /\ sweep.pc = "census" /\ sweep.at > MaxPid /\ Select(sweep.read) # {}
    /\ table' = FoldSet(LAMBDA p, t : Orphaned(t, p), table, {p \in Select(sweep.read) : Alive(p)})
    /\ sweep' = [NextScan EXCEPT !.seen = @ \cup Select(sweep.read),
                                 !.hit = @ \cup Select(sweep.read)]
    /\ UNCHANGED docker

CensusDone ==
    /\ sweep.pc = "census" /\ sweep.at > MaxPid /\ Select(sweep.read) = {}
    /\ sweep' = [sweep EXCEPT !.pc = "counted",
                              !.result = IF sweep.seen = {} THEN "sealed" ELSE "found"]
    /\ UNCHANGED <<table, docker>>

----------------------------------------------------------------------------
SweepNext ==
    \/ \E p \in PidRange : Exit(p) \/ LeaveGroup(p) \/ StartContainer(p)
    \/ \E p, c \in PidRange : Fork(p, c)
    \/ Begin \/ FirstContainers \/ ScanBegin \/ AgainContainers \/ ReadOne \/ TermRound \/ KillRound
    \/ SweepDone \/ Answer \/ CensusBegin \/ CensusKills \/ CensusDone

SweepSpec == SweepInit /\ [][SweepNext]_sweepVars

----------------------------------------------------------------------------
(* Properties.                                                             *)

\* The final capture may call itself complete only over a still disk: when
\* the quiesce answers that every writer is stopped, no process it may
\* signal is alive (however it left its group, whoever it was re-parented
\* to, a process that joined the daemon's own group included) and no
\* container runs, unless a process forked or exited while the last scan was
\* reading.  And it never signals the daemon's own git, its children in the
\* group, or what the agent named.
QuiesceIsTrue ==
    /\ sweep.pc = "done" /\ sweep.result = "ok" /\ ~sweep.moved =>
           LiveWriters = {} /\ docker.running = 0
    /\ \A p \in sweep.hit : ~(Alive(p) /\ Ours(p)) /\ p \notin Limit.gate \cup Limit.exempt

\* sweep.rs: "re-scanning until none is left, so a fork made meanwhile is
\* caught too".  It does not hold of a fork behind the last scan: the child
\* has a pid the scan of /proc has passed, and its parent exits before its own turn.
ForksAreCaught ==
    sweep.pc = "done" /\ sweep.result = "ok" => LiveWriters = {}
============================================================================
