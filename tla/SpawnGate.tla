------------------------------- MODULE SpawnGate -------------------------------
(***************************************************************************)
(* The spawn-reap gate (crates/sealant-process/src/spawn.rs) and the       *)
(* adopted-orphan reaper (platform.rs).  The daemon is the subreaper of    *)
(* everything in the container: the reaper takes the exit status of every  *)
(* waitable child whose pid is not in the gate, a process-wide set of the  *)
(* pids the daemon spawned and has not reaped.  A helper may run under a   *)
(* watchdog thread that kills it at its limit.                             *)
(*                                                                         *)
(* A process is told apart from a later one with the same pid by `inst'.   *)
(* The proofs at the end are for every set of pids and spawners.           *)
(* The kernel's process table and pid allocation are external.             *)
(***************************************************************************)
EXTENDS Integers, FiniteSets, TLAPS

CONSTANTS
  Pids,         \* the pids of the container
  Spawners,     \* threads and tasks of the daemon that spawn children
  MaxProcs      \* bound: processes ever started

ASSUME GateConstants ==
  MaxProcs \in Nat /\ {"orphan", "reaper", "nobody"} \cap Spawners = {}

VARIABLES
  table,    \* the children of the daemon, by pid
  procs,    \* processes started so far: the last instance
  gate,     \* SpawnedPids
  lock,     \* who holds the gate's lock
  st,       \* per spawner: where it is, with which child
  watch,    \* per spawner: the state of its child's watchdog
  reaper,   \* the reaper's sweep: the pid it peeked at
  \* What happened, for the properties:
  shadowed, \* children that got a pid another spawner's guard still held
  stolen,   \* children whose status was taken from their spawner
  strays    \* processes a watchdog killed that were not its child

vars == <<table, procs, gate, lock, st, watch, reaper, shadowed, stolen, strays>>

Insts == 1..MaxProcs
Nobody == "nobody"
NoPid == "none"
Idle == [pc |-> "idle", pid |-> NoPid, inst |-> 0]

Init ==
  /\ table = [p \in {} |-> 0] /\ procs = 0
  /\ gate = {} /\ lock = Nobody
  /\ st = [s \in Spawners |-> Idle] /\ watch = [s \in Spawners |-> "none"]
  /\ reaper = NoPid
  /\ shadowed = {} /\ stolen = {} /\ strays = {}

-----------------------------------------------------------------------------
(* The kernel (external): a free pid; a process starts, exits, is reaped.  *)
Free == Pids \ DOMAIN table
Started(p, owner) ==
  /\ procs < MaxProcs
  /\ table' = [q \in DOMAIN table \cup {p} |->
                 IF q = p THEN [inst |-> procs + 1, owner |-> owner, state |-> "alive"]
                 ELSE table[q]]
  /\ procs' = procs + 1
Without(p) == [q \in DOMAIN table \ {p} |-> table[q]]
IsMine(s) == st[s].pid \in DOMAIN table /\ table[st[s].pid].inst = st[s].inst
(* waitpid of a pid returns at once when it is no child of ours.           *)
Waitable(p) == p \in DOMAIN table => table[p].state = "zombie"

(* The child with pid p, if a spawner other than `by' is to wait for it.   *)
Waits(s, inst) ==
  st[s].inst = inst /\ st[s].pc \in {"forked", "running", "exited", "disarmed"}
Taken(p, by) ==
  {i \in Insts : /\ p \in DOMAIN table /\ table[p].inst = i
                 /\ \E s \in Spawners \ {by} : Waits(s, i)}

Exit(p) ==
  /\ p \in DOMAIN table /\ table[p].state = "alive"
  /\ table' = [table EXCEPT ![p].state = "zombie"]
  /\ UNCHANGED <<procs, gate, lock, st, watch, reaper, shadowed, stolen, strays>>

(* A workspace process's abandoned child is reparented to the daemon.      *)
Adopt(p) ==
  /\ p \in Free /\ Started(p, "orphan")
  /\ UNCHANGED <<gate, lock, st, watch, reaper, shadowed, stolen, strays>>

-----------------------------------------------------------------------------
(* A SpawnedPid guard still holds the pid.                                 *)
Guarded(p) == \E t \in Spawners : st[t].pc # "idle" /\ st[t].pid = p

(* spawn_registered, spawn_tokio: fork and registration under the lock.    *)
Fork(s, p) ==
  /\ st[s].pc = "idle" /\ lock = Nobody
  /\ p \in Free /\ Started(p, s)
  /\ lock' = s
  /\ st' = [st EXCEPT ![s] = [pc |-> "forked", pid |-> p, inst |-> procs + 1]]
  /\ shadowed' = IF Guarded(p) THEN shadowed \cup {procs + 1} ELSE shadowed
  /\ UNCHANGED <<gate, watch, reaper, stolen, strays>>

(* Mutation: the pid is asked for when the child is already gone.          *)
RegistersNone(s) == NoPid

Registers(s) == st[s].pid

Register(s) ==
  /\ st[s].pc = "forked" /\ lock = s
  /\ gate' = gate \cup {Registers(s)}
  /\ lock' = Nobody
  /\ st' = [st EXCEPT ![s].pc = "running"]
  /\ UNCHANGED <<table, procs, watch, reaper, shadowed, stolen, strays>>

(* GatedChild::bound arms a watchdog.                                      *)
Bound(s) ==
  /\ st[s].pc = "running" /\ watch[s] = "none"
  /\ watch' = [watch EXCEPT ![s] = "running"]
  /\ UNCHANGED <<table, procs, gate, lock, st, reaper, shadowed, stolen, strays>>

(* The watchdog's limit has passed: under its lock, and only while Running,*)
(* it kills the pid.                                                       *)
WatchdogKills(s) ==
  LET p == st[s].pid
  IN  /\ watch[s] = "running"
      /\ watch' = [watch EXCEPT ![s] = "killed"]
      /\ IF p \in DOMAIN table
         THEN /\ table' = [table EXCEPT ![p].state = "zombie"]
              /\ strays' = IF IsMine(s) THEN strays ELSE strays \cup {table[p].inst}
         ELSE UNCHANGED <<table, strays>>
      /\ UNCHANGED <<procs, gate, lock, st, reaper, shadowed, stolen>>

(* wait_exited (WNOWAIT) returns: the child is a zombie, or it is no child *)
(* of ours any more (ECHILD).                                              *)
WaitExited(s) ==
  /\ st[s].pc = "running" /\ Waitable(st[s].pid)
  /\ st' = [st EXCEPT ![s].pc = "exited"]
  /\ UNCHANGED <<table, procs, gate, lock, watch, reaper, shadowed, stolen, strays>>

(* GatedChild dropped without a wait: its watchdog goes first.             *)
DropUnwaited(s) ==
  /\ st[s].pc = "running"
  /\ st' = [st EXCEPT ![s].pc = "abandoned"]
  /\ watch' = [watch EXCEPT ![s] = IF @ = "running" THEN "reaping" ELSE @]
  /\ UNCHANGED <<table, procs, gate, lock, reaper, shadowed, stolen, strays>>

(* Mutation: the watchdog is stopped only when the pid is released.        *)
DisarmLate(s) ==
  /\ st[s].pc = "exited"
  /\ st' = [st EXCEPT ![s].pc = "disarmed"]
  /\ UNCHANGED <<table, procs, gate, lock, watch, reaper, shadowed, stolen, strays>>

(* Watchdog::disarm, then child.wait() reaps the zombie.                   *)
Disarm(s) ==
  /\ st[s].pc = "exited"
  /\ st' = [st EXCEPT ![s].pc = "disarmed"]
  /\ watch' = [watch EXCEPT ![s] = IF @ = "running" THEN "reaping" ELSE @]
  /\ UNCHANGED <<table, procs, gate, lock, reaper, shadowed, stolen, strays>>

Reap(s) ==
  /\ st[s].pc = "disarmed" /\ Waitable(st[s].pid)
  /\ table' = Without(st[s].pid)
  /\ stolen' = stolen \cup Taken(st[s].pid, s)
  /\ st' = [st EXCEPT ![s].pc = "reaped"]
  /\ UNCHANGED <<procs, gate, lock, watch, reaper, shadowed, strays>>

(* drop(spawned): the pid leaves the gate, under the lock.                 *)
Release(s) ==
  /\ st[s].pc \in {"reaped", "abandoned"} /\ lock = Nobody
  /\ gate' = gate \ {st[s].pid}
  /\ st' = [st EXCEPT ![s] = Idle]
  /\ watch' = [watch EXCEPT ![s] = "none"]
  /\ UNCHANGED <<table, procs, lock, reaper, shadowed, stolen, strays>>

-----------------------------------------------------------------------------
(* reap_orphans, on SIGCHLD or every two seconds: it holds the lock for    *)
(* the sweep, peeks at some zombie, and stops at one whose pid is in the   *)
(* gate, or when there is none.                                            *)
Zombies == {p \in DOMAIN table : table[p].state = "zombie"}

SweepStart ==
  /\ lock = Nobody /\ Zombies # {}
  /\ lock' = "reaper"
  /\ UNCHANGED <<table, procs, gate, st, watch, reaper, shadowed, stolen, strays>>

(* Mutation: the reaper reaps whatever it peeks at.                        *)
LeavesNothing(p) == FALSE

(* decide.                                                                 *)
LeaveToSpawner(p) == p \in gate

(* Mutation: the sweep keeps the lock when it meets a spawned zombie.      *)
PeekSpins(p) ==
  /\ lock = "reaper" /\ reaper = NoPid /\ p \in Zombies /\ p \notin gate
  /\ reaper' = p
  /\ UNCHANGED <<table, procs, gate, lock, st, watch, shadowed, stolen, strays>>

Peek(p) ==
  /\ lock = "reaper" /\ reaper = NoPid /\ p \in Zombies
  /\ IF LeaveToSpawner(p) THEN lock' = Nobody /\ UNCHANGED reaper
     ELSE reaper' = p /\ UNCHANGED lock
  /\ UNCHANGED <<table, procs, gate, st, watch, shadowed, stolen, strays>>

SweepEnds ==
  /\ lock = "reaper" /\ reaper = NoPid /\ Zombies = {}
  /\ lock' = Nobody
  /\ UNCHANGED <<table, procs, gate, st, watch, reaper, shadowed, stolen, strays>>

(* The pid peeked at is reaped if it is still a zombie.                    *)
ReapOrphan ==
  /\ reaper # NoPid
  /\ reaper' = NoPid
  /\ IF reaper \in Zombies
     THEN /\ table' = Without(reaper)
          /\ stolen' = stolen \cup Taken(reaper, "reaper")
     ELSE UNCHANGED <<table, stolen>>
  /\ UNCHANGED <<procs, gate, lock, st, watch, shadowed, strays>>

-----------------------------------------------------------------------------
SpawnerStep(s) ==
  Register(s) \/ WaitExited(s) \/ Disarm(s) \/ Reap(s) \/ Release(s)
Reaper == SweepStart \/ (\E p \in Pids : Peek(p)) \/ SweepEnds \/ ReapOrphan

Next ==
  \/ \E p \in Pids : Exit(p) \/ Adopt(p)
  \/ \E s \in Spawners :
       \/ \E p \in Pids : Fork(s, p)
       \/ SpawnerStep(s) \/ Bound(s) \/ WatchdogKills(s) \/ DropUnwaited(s)
  \/ Reaper

Spec == Init /\ [][Next]_vars

(* Threads run; the reaper is polled, and its peek does not return the     *)
(* same child for ever.                                                    *)
Fairness ==
  /\ \A p \in Pids : SF_vars(Peek(p))
  /\ \A s \in Spawners : SF_vars(SpawnerStep(s))
  /\ SF_vars(SweepStart) /\ WF_vars(SweepEnds) /\ WF_vars(ReapOrphan)

FairSpec == Spec /\ Fairness

-----------------------------------------------------------------------------
TypeOK ==
  /\ DOMAIN table \subseteq Pids
  /\ \A p \in DOMAIN table :
       table[p] \in [inst : Insts, owner : Spawners \cup {"orphan"},
                     state : {"alive", "zombie"}]
  /\ procs \in 0..MaxProcs /\ gate \subseteq Pids
  /\ lock \in Spawners \cup {Nobody, "reaper"}
  /\ st \in [Spawners -> [pc : {"idle", "forked", "running", "exited", "disarmed",
                               "reaped", "abandoned"},
                         pid : Pids \cup {NoPid}, inst : 0..MaxProcs]]
  /\ \A s \in Spawners : st[s].pc # "idle" => st[s].pid \in Pids /\ st[s].inst \in Insts
  /\ watch \in [Spawners -> {"none", "running", "reaping", "killed"}]
  /\ reaper \in Pids \cup {NoPid}
  /\ shadowed \subseteq Insts /\ stolen \subseteq Insts /\ strays \subseteq Insts

(* Nobody takes the exit status of a child whose spawner is still to wait  *)
(* for it, one that exits before its registration included, unless it got  *)
(* its pid while a guard of an earlier child still held it (decide,        *)
(* spawn_registered, spawn.rs; reap_orphans, platform.rs).                 *)
ReaperNeverSteals == stolen \subseteq shadowed

(* The same of every child: "reap only pids this process did not spawn"    *)
(* (spawn.rs, module comment).                                             *)
NoStatusTaken == stolen = {}

(* A watchdog signals only its own child, alive or not yet reaped: "never  *)
(* a pid the system gave to another process since" (Watchdog, spawn.rs),   *)
(* whatever pids are reused, as long as no child was taken from its spawner.      *)
WatchdogKillsOwn == stolen = {} => strays = {}

(* Every process that exits is reaped at last, by its spawner or by the    *)
(* reaper: a child dropped without a wait and an orphan queued behind a    *)
(* spawned zombie too (spawn_orphan_reaper, platform.rs).                  *)
NoZombieStays ==
  \A i \in Insts :
    (\E p \in Zombies : table[p].inst = i) ~> (\A p \in DOMAIN table : table[p].inst # i)

-------------------------------------------------------------------------------
(* Proofs: the type invariant; that a watchdog kills only its own child;   *)
(* and that the reaper takes no spawner's child that got a pid nobody held *)
(* any more.                                                               *)

Waiting == {"forked", "running", "exited", "disarmed"}

(* Every instance is of one process only, and of one spawner's child only. *)
InstancesDistinct ==
  /\ \A p, q \in DOMAIN table : table[p].inst = table[q].inst => p = q
  /\ \A p \in DOMAIN table : table[p].inst <= procs
  /\ \A s \in Spawners : st[s].inst <= procs
  /\ \A s \in Spawners : st[s].pc # "idle" => st[s].inst > 0
  /\ \A s, t \in Spawners : s # t /\ st[s].inst = st[t].inst => st[s].inst = 0

(* While no child was taken from its spawner, the pid of a child that is   *)
(* still to be waited for refers to that child; a watchdog runs only then. *)
WaitedIsThere ==
  /\ stolen = {} => \A s \in Spawners : st[s].pc \in Waiting => IsMine(s)
  /\ \A s \in Spawners : watch[s] = "running" => st[s].pc \in {"running", "exited"}

WatchInv == TypeOK /\ InstancesDistinct /\ WaitedIsThere /\ WatchdogKillsOwn

(* A child that got a pid no guard held, and is still to be waited for, is  *)
(* in the process table under its pid; no other guard holds that pid, which *)
(* is in the gate from its registration on.                                *)
SolelyHeld(s) ==
  /\ IsMine(s)
  /\ \A t \in Spawners \ {s} : st[t].pc # "idle" => st[t].pid # st[s].pid
  /\ st[s].pc # "forked" => st[s].pid \in gate

GateHolds ==
  /\ \A s \in Spawners : st[s].pc = "forked" => lock = s
  /\ \A s \in Spawners :
       st[s].pc \in Waiting /\ st[s].inst \notin shadowed => SolelyHeld(s)
  /\ reaper # NoPid => lock = "reaper" /\ reaper \notin gate

StealInv == WatchInv /\ GateHolds /\ ReaperNeverSteals
-----------------------------------------------------------------------------
(* Every step keeps the types.                                             *)
LEMMA TypeStep == TypeOK /\ [Next]_vars => TypeOK'
<1> SUFFICES ASSUME TypeOK, [Next]_vars PROVE TypeOK'
  OBVIOUS
<1> USE GateConstants DEF TypeOK, Insts, Nobody, NoPid, Idle
<1>1. ASSUME NEW p \in Pids, Exit(p) PROVE TypeOK'
  BY <1>1 DEF Exit
<1>2. ASSUME NEW p \in Pids, Adopt(p) PROVE TypeOK'
  BY <1>2 DEF Adopt, Started, Free
<1>3. ASSUME NEW s \in Spawners, NEW p \in Pids, Fork(s, p) PROVE TypeOK'
  BY <1>3 DEF Fork, Started, Free, Guarded
<1>4. ASSUME NEW s \in Spawners, Register(s) PROVE TypeOK'
  BY <1>4 DEF Register, Registers
<1>5. ASSUME NEW s \in Spawners, Bound(s) PROVE TypeOK'
  BY <1>5 DEF Bound
<1>6. ASSUME NEW s \in Spawners, WatchdogKills(s) PROVE TypeOK'
  BY <1>6 DEF WatchdogKills, IsMine
<1>7. ASSUME NEW s \in Spawners, WaitExited(s) PROVE TypeOK'
  BY <1>7 DEF WaitExited, Waitable
<1>8. ASSUME NEW s \in Spawners, DropUnwaited(s) PROVE TypeOK'
  BY <1>8 DEF DropUnwaited
<1>9. ASSUME NEW s \in Spawners, Disarm(s) PROVE TypeOK'
  BY <1>9 DEF Disarm
<1>10. ASSUME NEW s \in Spawners, Reap(s) PROVE TypeOK'
  BY <1>10 DEF Reap, Without, Waitable, Taken
<1>11. ASSUME NEW s \in Spawners, Release(s) PROVE TypeOK'
  <2>1. st' = [st EXCEPT ![s] = Idle] /\ watch' = [watch EXCEPT ![s] = "none"]
    BY <1>11 DEF Release
  <2>2. UNCHANGED <<table, procs, lock, reaper, shadowed, stolen, strays>> /\ gate' \subseteq gate
    BY <1>11 DEF Release
  <2>3. QED
    BY <2>1, <2>2
<1>12. ASSUME SweepStart PROVE TypeOK'
  BY <1>12 DEF SweepStart
<1>13. ASSUME NEW p \in Pids, Peek(p) PROVE TypeOK'
  BY <1>13 DEF Peek, Zombies, LeaveToSpawner
<1>14. ASSUME SweepEnds PROVE TypeOK'
  BY <1>14 DEF SweepEnds
<1>15. ASSUME ReapOrphan PROVE TypeOK'
  BY <1>15 DEF ReapOrphan, Without, Taken, Zombies
<1>16. CASE UNCHANGED vars
  BY <1>16 DEF vars
<1>17. QED
  BY <1>1, <1>2, <1>3, <1>4, <1>5, <1>6, <1>7, <1>8, <1>9, <1>10, <1>11, <1>12, <1>13, <1>14, <1>15, <1>16 DEF Next, SpawnerStep, Reaper

(* Every variable keeps its type in every reachable state (SpawnGate.tla,  *)
(* TypeOK).                                                                *)
THEOREM TypeCorrect == Spec => []TypeOK
<1>1. Init => TypeOK
  BY GateConstants DEF Init, TypeOK, Idle, Nobody, NoPid
<1>2. QED
  BY <1>1, TypeStep, PTL DEF Spec

(* Every step keeps a spawner's unreaped child under its pid.              *)
LEMMA WatchStep == WatchInv /\ [Next]_vars => WatchInv'
<1> SUFFICES ASSUME WatchInv, [Next]_vars PROVE WatchInv'
  OBVIOUS
<1> USE GateConstants DEF TypeOK, Insts, Nobody, NoPid, Idle, WatchInv, InstancesDistinct, WaitedIsThere, WatchdogKillsOwn, IsMine, Waiting
<1>1. ASSUME NEW p \in Pids, Exit(p) PROVE WatchInv'
  BY <1>1, TypeStep DEF Exit
<1>2. ASSUME NEW p \in Pids, Adopt(p) PROVE WatchInv'
  BY <1>2, TypeStep DEF Adopt, Started, Free
<1>3. ASSUME NEW s \in Spawners, NEW p \in Pids, Fork(s, p) PROVE WatchInv'
  BY <1>3, TypeStep DEF Fork, Started, Free, Guarded
<1>4. ASSUME NEW s \in Spawners, Register(s) PROVE WatchInv'
  BY <1>4, TypeStep DEF Register, Registers
<1>5. ASSUME NEW s \in Spawners, Bound(s) PROVE WatchInv'
  BY <1>5, TypeStep DEF Bound
<1>6. ASSUME NEW s \in Spawners, WatchdogKills(s) PROVE WatchInv'
  <2>1. TypeOK'
    BY TypeStep
  <2>2. DOMAIN table' = DOMAIN table /\ \A q \in DOMAIN table : table'[q].inst = table[q].inst
    <3>1. CASE st[s].pid \in DOMAIN table
      <4>1. table' = [table EXCEPT ![st[s].pid].state = "zombie"]
        BY <1>6, <3>1 DEF WatchdogKills
      <4>2. table[st[s].pid] \in [inst : Insts, owner : Spawners \cup {"orphan"},
                                  state : {"alive", "zombie"}]
        BY <3>1
      <4>3. QED
        BY <4>1, <4>2
    <3>2. CASE st[s].pid \notin DOMAIN table
      BY <1>6, <3>2 DEF WatchdogKills
    <3>3. QED
      BY <3>1, <3>2
  <2>3. st' = st /\ procs' = procs /\ stolen' = stolen
    BY <1>6 DEF WatchdogKills
  <2>4. InstancesDistinct'
    BY <2>2, <2>3
  <2>5. WaitedIsThere'
    BY <1>6, <2>2, <2>3 DEF WatchdogKills
  <2>6. WatchdogKillsOwn'
    BY <1>6 DEF WatchdogKills
  <2>7. QED
    BY <2>1, <2>4, <2>5, <2>6
<1>7. ASSUME NEW s \in Spawners, WaitExited(s) PROVE WatchInv'
  BY <1>7, TypeStep DEF WaitExited
<1>8. ASSUME NEW s \in Spawners, DropUnwaited(s) PROVE WatchInv'
  BY <1>8, TypeStep DEF DropUnwaited
<1>9. ASSUME NEW s \in Spawners, Disarm(s) PROVE WatchInv'
  BY <1>9, TypeStep DEF Disarm
<1>10. ASSUME NEW s \in Spawners, Reap(s) PROVE WatchInv'
  BY <1>10, TypeStep DEF Reap, Without, Waitable, Taken, Waits
<1>11. ASSUME NEW s \in Spawners, Release(s) PROVE WatchInv'
  BY <1>11, TypeStep DEF Release
<1>12. ASSUME SweepStart PROVE WatchInv'
  BY <1>12, TypeStep DEF SweepStart
<1>13. ASSUME NEW p \in Pids, Peek(p) PROVE WatchInv'
  BY <1>13, TypeStep DEF Peek, Zombies, LeaveToSpawner
<1>14. ASSUME SweepEnds PROVE WatchInv'
  BY <1>14, TypeStep DEF SweepEnds
<1>15. ASSUME ReapOrphan PROVE WatchInv'
  BY <1>15, TypeStep DEF ReapOrphan, Without, Taken, Waits, Zombies
<1>16. CASE UNCHANGED vars
  BY <1>16 DEF vars
<1>17. QED
  BY <1>1, <1>2, <1>3, <1>4, <1>5, <1>6, <1>7, <1>8, <1>9, <1>10, <1>11, <1>12, <1>13, <1>14, <1>15, <1>16 DEF Next, SpawnerStep, Reaper

(* A watchdog kills only its own child, as long as no child was taken from *)
(* its spawner, for every set of pids and spawners, pids being reused or   *)
(* not (Watchdog::arm and disarm, GatedChild::wait, spawn.rs).             *)
THEOREM WatchdogSafe == Spec => []WatchdogKillsOwn
<1>1. Init => WatchInv
  BY GateConstants DEF Init, TypeOK, Idle, Nobody, NoPid, WatchInv, InstancesDistinct,
     WaitedIsThere, WatchdogKillsOwn, Waiting
<1>2. WatchInv => WatchdogKillsOwn
  BY DEF WatchInv
<1>3. QED
  BY <1>1, <1>2, WatchStep, PTL DEF Spec

-----------------------------------------------------------------------------
(* A child solely held stays so: its pid is not free, so nobody forks with *)
(* it; no other guard releases it, and neither a spawner nor the reaper,   *)
(* which peeked at a pid outside the gate, reaps it.                       *)
LEMMA GateStep ==
  ASSUME WatchInv, GateHolds, [Next]_vars
  PROVE  GateHolds'
<1> USE GateConstants DEF TypeOK, Nobody, NoPid, Idle, Insts, WatchInv, InstancesDistinct,
        GateHolds, SolelyHeld, IsMine, Waiting
<1>1. ASSUME NEW p \in Pids, Exit(p) PROVE GateHolds'
  BY <1>1 DEF Exit
<1>2. ASSUME NEW p \in Pids, Adopt(p) PROVE GateHolds'
  BY <1>2 DEF Adopt, Started, Free
<1>3. ASSUME NEW s \in Spawners, NEW p \in Pids, Fork(s, p) PROVE GateHolds'
  BY <1>3 DEF Fork, Started, Free, Guarded
<1>4. ASSUME NEW s \in Spawners, Register(s) PROVE GateHolds'
  BY <1>4 DEF Register, Registers
<1>5. ASSUME NEW s \in Spawners, Bound(s) PROVE GateHolds'
  BY <1>5 DEF Bound
<1>6. ASSUME NEW s \in Spawners, WatchdogKills(s) PROVE GateHolds'
  BY <1>6 DEF WatchdogKills
<1>7. ASSUME NEW s \in Spawners, WaitExited(s) PROVE GateHolds'
  BY <1>7 DEF WaitExited
<1>8. ASSUME NEW s \in Spawners, DropUnwaited(s) PROVE GateHolds'
  BY <1>8 DEF DropUnwaited
<1>9. ASSUME NEW s \in Spawners, Disarm(s) PROVE GateHolds'
  BY <1>9 DEF Disarm
<1>10. ASSUME NEW s \in Spawners, Reap(s) PROVE GateHolds'
  BY <1>10 DEF Reap, Without
<1>11. ASSUME NEW s \in Spawners, Release(s) PROVE GateHolds'
  <2>1. /\ st'[s].pc = "idle"
        /\ \A t \in Spawners \ {s} : st'[t] = st[t]
        /\ gate' = gate \ {st[s].pid} /\ lock' = lock /\ reaper' = reaper
        /\ table' = table /\ shadowed' = shadowed
    BY <1>11 DEF Release
  <2>2. \A t \in Spawners : st'[t].pc = "forked" => lock' = t
    BY <2>1
  <2>3. ASSUME NEW t \in Spawners, st'[t].pc \in Waiting, st'[t].inst \notin shadowed'
        PROVE  SolelyHeld(t)'
    <3>1. t # s /\ st'[t] = st[t] /\ SolelyHeld(t)
      BY <2>1, <2>3
    <3>2. st[s].pid # st[t].pid
      BY <3>1, <1>11 DEF Release
    <3>3. IsMine(t)'
      BY <2>1, <3>1
    <3>4. \A u \in Spawners \ {t} : st'[u].pc # "idle" => st'[u].pid # st'[t].pid
      BY <2>1, <3>1
    <3>5. st'[t].pc # "forked" => st'[t].pid \in gate'
      BY <2>1, <3>1, <3>2
    <3>6. QED
      BY <3>3, <3>4, <3>5
  <2>4. reaper' # NoPid => lock' = "reaper" /\ reaper' \notin gate'
    BY <2>1
  <2>5. QED
    BY <2>2, <2>3, <2>4
<1>12. ASSUME SweepStart PROVE GateHolds'
  BY <1>12 DEF SweepStart
<1>13. ASSUME NEW p \in Pids, Peek(p) PROVE GateHolds'
  BY <1>13 DEF Peek, LeaveToSpawner
<1>14. ASSUME SweepEnds PROVE GateHolds'
  BY <1>14 DEF SweepEnds
<1>15. ASSUME ReapOrphan PROVE GateHolds'
  BY <1>15 DEF ReapOrphan, Without, Zombies
<1>16. CASE UNCHANGED vars
  BY <1>16 DEF vars
<1>17. QED
  BY <1>1, <1>2, <1>3, <1>4, <1>5, <1>6, <1>7, <1>8, <1>9, <1>10, <1>11, <1>12, <1>13, <1>14, <1>15, <1>16
     DEF Next, SpawnerStep, Reaper

(* What is reaped, by its spawner or by the reaper, is no other spawner's  *)
(* child, or is a shadowed one.                                            *)
LEMMA StealStep ==
  ASSUME WatchInv, GateHolds, ReaperNeverSteals, [Next]_vars
  PROVE  ReaperNeverSteals'
<1> USE GateConstants DEF ReaperNeverSteals
<1>1. ASSUME NEW p \in DOMAIN table, NEW t \in Spawners, Waits(t, table[p].inst),
             table[p].inst \notin shadowed
      PROVE  st[t].pid = p /\ SolelyHeld(t)
  BY <1>1 DEF WatchInv, GateHolds, SolelyHeld, InstancesDistinct, IsMine, Waits, Waiting
<1>2. ASSUME NEW s \in Spawners, Reap(s) PROVE ReaperNeverSteals'
  <2>1. Taken(st[s].pid, s) \subseteq shadowed
    BY <1>1, <1>2 DEF Taken, SolelyHeld, Reap
  <2>2. QED
    BY <1>2, <2>1 DEF Reap
<1>3. ASSUME ReapOrphan PROVE ReaperNeverSteals'
  <2>1. Taken(reaper, "reaper") \subseteq shadowed
    BY <1>1, <1>3 DEF Taken, SolelyHeld, GateHolds, ReapOrphan, NoPid
  <2>2. QED
    BY <1>3, <2>1 DEF ReapOrphan
<1>4. ASSUME NEW s \in Spawners, NEW p \in Pids, Fork(s, p) PROVE ReaperNeverSteals'
  BY <1>4 DEF Fork
<1>5. CASE UNCHANGED vars
  BY <1>5 DEF vars
<1>6. QED
  BY <1>2, <1>3, <1>4, <1>5
     DEF Next, SpawnerStep, Reaper, Exit, Adopt, Register, Bound, WatchdogKills,
         WaitExited, DropUnwaited, Disarm, Release, SweepStart, Peek, SweepEnds

(* The reaper takes no exit status its spawner waits for, for every set of *)
(* pids and spawners, unless the child got a pid another guard still held  *)
(* (decide, spawn_registered, spawn.rs; reap_orphans, platform.rs).        *)
THEOREM ReaperSafe == Spec => []ReaperNeverSteals
<1>1. Init => StealInv
  BY GateConstants DEF Init, TypeOK, Idle, Nobody, NoPid, StealInv, WatchInv,
     InstancesDistinct, WaitedIsThere, WatchdogKillsOwn, Waiting, GateHolds, ReaperNeverSteals
<1>2. StealInv /\ [Next]_vars => StealInv'
  BY WatchStep, GateStep, StealStep DEF StealInv
<1>3. StealInv => ReaperNeverSteals
  BY DEF StealInv
<1>4. QED
  BY <1>1, <1>2, <1>3, PTL DEF Spec
===============================================================================
