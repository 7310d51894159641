------------------------------- MODULE Executor -------------------------------
(* One executor's disk over its boots: what a boot finds on it, restores   *)
(* over it or resumes, what the daemon captures from it, and the exit code *)
(* that says whether the platform may destroy it (sealantd/src/boot/       *)
(* mod.rs, boot/capture.rs, boot/lock.rs, unclaimed.rs, and pickup, open   *)
(* and rebase of sealant-capture/src/engine.rs).                           *)
(*                                                                         *)
(* A "pooled" executor boots as a standby on a placeholder's worktree and  *)
(* is given the session's by capture.replan; a "named" one boots on the    *)
(* session's.  The daemon may be killed at any step and is booted again,   *)
(* normally or for recovery.  The session's work on the disk is a count of *)
(* writes; a capture holds the writes before it.                           *)
EXTENDS Integers, Sequences

CONSTANTS ExecutorLimits  \* the kinds of executor, and bounds on what may happen

(* A head and a base are the ids of captures before the first of this      *)
(* executor, 0 for none.                                                   *)
ExecutorConstants ==
  ExecutorLimits \subseteq
    [kind : {"pooled", "named"}, base : 0 .. 2, head : 0 .. 2, env : STRING, writes : Nat,
     captures : Nat, boots : Nat, upsets : Nat, replans : Nat]

Worktree == {"placeholder", "session"}
LaunchOf(w) == IF w = "placeholder" THEN "standby:1" ELSE "launch-1"
EXIT_CAPTURE_INCOMPLETE == 75
EXIT_NOTHING_TO_SAVE == 76
EXIT_STORE_UNFIT == 78
Nil == [capture |-> 0]

VARIABLES
  chain,     \* [Worktree -> the registrar's head, its epoch, and whether ours]
  assigned,  \* the worktree the registrar's plan names for this executor
  disk,      \* what lasts: see DiskEmpty
  wrote,     \* ghost: the session's writes that are on the disk
  saved,     \* ghost: the writes of them the chain holds
  lost,      \* ghost: who overwrote unsaved writes; "restored" once a re-plan restored,
             \* "bare" once a half restored disk was taken for an empty chain's
  pc,        \* where the daemon is
  boot,      \* this boot: recovery, first, resumed, plan
  engine,    \* identity and previous of the engine, and the snap and ship under way
  claim,     \* Unclaimed: "unclaimed", "claimed" or "released"
  exit,      \* the exit code of the last boot, or -1
  budget     \* what may still happen

executorVars == <<chain, assigned, disk, wrote, saved, lost, pc, boot, engine, claim, exit, budget>>

DiskEmpty ==
  [dir |-> "absent",      \* the working directory: absent, only its lock file, or used
   staging |-> FALSE,     \* the staging directory exists
   marker |-> FALSE,      \* unclaimed.json
   partial |-> FALSE,     \* a materialize was interrupted
   mat |-> Nil,           \* DiskState.capture
   last |-> Nil,          \* LastStaged
   queue |-> <<>>]        \* the staged captures

NoPlan == [worktree |-> "placeholder", epoch |-> 0, head |-> 0, launch |-> ""]
NoBoot == [recovery |-> FALSE, first |-> FALSE, resumed |-> FALSE, plan |-> NoPlan]
NoEngine == [worktree |-> "placeholder", epoch |-> 0, launch |-> "", previous |-> 0, staged |-> Nil]

Spent(what) == budget[what] > 0 /\ budget' = [budget EXCEPT ![what] = @ - 1]

ghosts == <<wrote, saved, lost>>

(* The daemon ends: nothing of it but the disk and its exit code is left.  *)
Ends(code) ==
  /\ pc' = "down" /\ exit' = code
  /\ boot' = NoBoot /\ engine' = NoEngine /\ claim' = "claimed"

Fails == Ends(IF boot.recovery THEN EXIT_CAPTURE_INCOMPLETE ELSE 1)

Goes(step) == pc' = step /\ UNCHANGED <<engine, claim, exit>>

--------------------------------------------------------------------------------
(* The registrar and the platform                                          *)

(* The platform gives the standby the session's worktree.                  *)
Assign ==
  /\ assigned = "placeholder" /\ chain["session"].free
  /\ assigned' = "session"
  /\ chain' = [chain EXCEPT !["session"].epoch = @ + 1, !["session"].free = FALSE]
  /\ UNCHANGED <<disk, wrote, saved, lost, pc, boot, engine, claim, exit, budget>>

(* Another launch is given the session's lease, and may capture under it.  *)
TakenOver ==
  /\ ~ chain["session"].free /\ Spent("upsets")
  /\ \E head \in {chain["session"].head, chain.next} :
       chain' = [chain EXCEPT !["session"] = [head |-> head, epoch |-> @.epoch + 1, free |-> TRUE],
                              !.next = @ + 1]
  /\ UNCHANGED <<assigned, disk, wrote, saved, lost, pc, boot, engine, claim, exit>>

GivenBack ==
  /\ assigned = "session" /\ chain["session"].free
  /\ chain' = [chain EXCEPT !["session"].epoch = @ + 1, !["session"].free = FALSE]
  /\ UNCHANGED <<assigned, disk, wrote, saved, lost, pc, boot, engine, claim, exit, budget>>

Leased == assigned = "session" /\ chain["session"].free

(* Registrar::plan_get *)
Plan == [worktree |-> assigned, epoch |-> chain[assigned].epoch, head |-> chain[assigned].head,
         launch |-> LaunchOf(assigned)]

--------------------------------------------------------------------------------
(* prepare: the disk lock, and what a recovery needs no registrar for      *)

(* never_materialized: the working directory holds nothing but the lock.   *)
NeverMaterialized == disk.dir # "used"

StartBoot(recovery) ==
  /\ pc = "down" /\ Spent("boots")
  /\ disk' = [disk EXCEPT !.dir = IF @ = "absent" THEN "lock" ELSE @]
  /\ IF recovery /\ (NeverMaterialized \/ disk.marker)
     THEN Ends(EXIT_NOTHING_TO_SAVE)
     ELSE /\ boot' = [NoBoot EXCEPT !.recovery = recovery, !.first = ~ disk.staging]
          /\ Goes("plan")
  /\ UNCHANGED <<chain, assigned>> /\ UNCHANGED ghosts

(* boot_from, up to the pickup: waits for a lease another launch holds,    *)
(* refuses another launch's token, another worktree's plan and a store     *)
(* that cannot hold a capture.                                             *)
PlanGet ==
  /\ pc = "plan" /\ ~ Leased
  /\ boot' = [boot EXCEPT !.plan = Plan]
  /\ Goes("pickup")
  /\ ~ (budget.env # "" /\ budget.env # Plan.launch)
  /\ UNCHANGED <<chain, assigned, disk, budget>> /\ UNCHANGED ghosts

PlanRefused ==
  /\ pc = "plan" /\ ~ Leased
  /\ \/ budget.env # "" /\ budget.env # Plan.launch /\ Fails /\ UNCHANGED budget
     \/ Spent("upsets") /\ ~ boot.recovery /\ Ends(EXIT_STORE_UNFIT)
     \/ Spent("upsets") /\ Fails
  /\ UNCHANGED <<chain, assigned, disk>> /\ UNCHANGED ghosts

--------------------------------------------------------------------------------
(* The pickup: resume this disk, or restore the head over it               *)

(* CaptureEngine::pickup *)
Resumes ==
  LET last == disk.last
      plan == boot.plan
      queued == {i \in DOMAIN disk.queue : disk.queue[i].worktree = plan.worktree}
  IN  /\ last # Nil /\ last.worktree = plan.worktree
      /\ \/ last.capture = plan.head
         \/ \E i \in queued : plan.head \in {disk.queue[i].parent, disk.queue[i].capture}
      /\ last.launch = plan.launch

(* The completed materialize of exactly the plan's head, under its launch. *)
HoldsHead ==
  IF boot.plan.head = 0 THEN disk.dir = "used"
  ELSE /\ disk.mat # Nil
       /\ disk.mat.capture = boot.plan.head /\ disk.mat.launch = boot.plan.launch
       /\ disk.mat.epoch <= boot.plan.epoch

Pickup ==
  /\ pc = "pickup"
  /\ \/ /\ Resumes \/ (boot.recovery /\ HoldsHead)
        /\ boot' = [boot EXCEPT !.resumed = TRUE] /\ Goes("open")
        /\ UNCHANGED disk
     \/ /\ ~ Resumes /\ boot.recovery /\ ~ HoldsHead
        /\ Fails /\ UNCHANGED disk
     \/ /\ ~ Resumes /\ ~ boot.recovery
        /\ IF boot.plan.head = 0
           THEN Goes("mark") /\ disk' = [disk EXCEPT !.dir = "used"]
           ELSE Goes("restore") /\ UNCHANGED disk
        /\ UNCHANGED boot
  /\ lost' = IF boot.plan.head = 0 /\ disk.partial THEN lost \cup {"bare"} ELSE lost
  /\ UNCHANGED <<chain, assigned, budget, wrote, saved>>

OverwritesKeepingRecord(by) ==
  /\ disk' = [disk EXCEPT !.dir = "used", !.staging = TRUE, !.partial = TRUE]
  /\ lost' = IF wrote > saved THEN lost \cup {by} ELSE lost
  /\ wrote' = 0 /\ saved' = 0

(* A materialize forgets what the disk was brought to before it writes,    *)
(* and says so again only when it is complete.                             *)
Overwrites(by) ==
  /\ disk' = [disk EXCEPT !.dir = "used", !.staging = TRUE, !.partial = TRUE, !.mat = Nil]
  /\ lost' = IF wrote > saved THEN lost \cup {by} ELSE lost
  /\ wrote' = 0 /\ saved' = 0

MaterializeStarts ==
  /\ pc = "restore"
  /\ Overwrites("boot")
  /\ Goes("restoring")
  /\ UNCHANGED <<chain, assigned, boot, budget>>

MaterializeEnds ==
  /\ pc = "restoring"
  /\ \/ disk' = [disk EXCEPT !.partial = FALSE] /\ Goes("record") /\ UNCHANGED <<boot, budget>>
     \/ Spent("upsets") /\ Fails /\ UNCHANGED disk
  /\ UNCHANGED <<chain, assigned>> /\ UNCHANGED ghosts

(* DiskState::record_capture *)
Record ==
  /\ pc = "record"
  /\ disk' = [disk EXCEPT !.mat = [capture |-> boot.plan.head, epoch |-> boot.plan.epoch,
                                   launch |-> boot.plan.launch]]
  /\ Goes("mark")
  /\ UNCHANGED <<chain, assigned, boot, budget>> /\ UNCHANGED ghosts

(* unclaimed::record, on the first boot of a standby and never again.      *)
Mark ==
  /\ pc = "mark"
  /\ LET standby == /\ boot.first /\ budget.kind = "pooled" /\ ~ boot.recovery
                    /\ boot.plan.launch = LaunchOf("placeholder")
     IN  disk' = [disk EXCEPT !.marker = @ \/ standby, !.staging = @ \/ standby]
  /\ Goes("open")
  /\ UNCHANGED <<chain, assigned, boot, budget>> /\ UNCHANGED ghosts

(* The queued captures of the plan's identity, in their order.             *)
OwnQueue ==
  LET own == {i \in DOMAIN disk.queue : /\ disk.queue[i].worktree = boot.plan.worktree
                                        /\ disk.queue[i].epoch = boot.plan.epoch}
      orders == {o \in UNION {[1 .. n -> own] : n \in 0 .. Len(disk.queue)} :
                   /\ \A i, j \in DOMAIN o : i < j => o[i] < o[j]
                   /\ own = {o[i] : i \in DOMAIN o}}
  IN  {[i \in DOMAIN o |-> disk.queue[o[i]]] : o \in orders}

(* CaptureEngine::open: staging of another identity is dropped, the rest   *)
(* of the queue resumed.  CaptureRuntime::new: Unclaimed::load.            *)
Open ==
  /\ pc = "open"
  /\ \E own \in OwnQueue :
       LET descends == \E i \in DOMAIN own : boot.plan.head \in {own[i].parent, own[i].capture}
       IN  /\ disk' = [disk EXCEPT !.queue = own, !.dir = "used", !.staging = TRUE]
           /\ engine' = [NoEngine EXCEPT !.worktree = boot.plan.worktree, !.epoch = boot.plan.epoch,
                           !.launch = boot.plan.launch,
                           !.previous = IF descends THEN own[Len(own)].capture ELSE boot.plan.head]
  /\ claim' = IF disk.marker THEN "unclaimed" ELSE "claimed"
  /\ pc' = "up"
  /\ UNCHANGED <<chain, assigned, boot, exit, budget>> /\ UNCHANGED ghosts

--------------------------------------------------------------------------------
(* The daemon up                                                           *)

daemonVars == <<chain, assigned, boot, exit>>

ClaimsInMemory ==
  /\ claim # "released" /\ claim' = "claimed"
  /\ UNCHANGED disk

(* Unclaimed::claim: the marker is gone before anything is admitted.       *)
Claims ==
  /\ claim # "released" /\ claim' = "claimed"
  /\ disk' = [disk EXCEPT !.marker = FALSE]

(* A command of the session that writes, admitted by admit_writer; a named *)
(* executor's harness writes by itself.                                    *)
Writes ==
  /\ pc = "up" /\ ~ boot.recovery /\ Spent("writes")
  /\ Claims
  /\ wrote' = wrote + 1
  /\ UNCHANGED <<saved, lost, pc, engine>> /\ UNCHANGED daemonVars

(* A snap puts its capture on the queue, then persists LastStaged.         *)
SnapQueues ==
  /\ pc = "up" /\ engine.staged = Nil /\ Spent("captures")
  /\ LET c == [capture |-> chain.next, parent |-> engine.previous, worktree |-> engine.worktree,
               epoch |-> engine.epoch, holds |-> wrote]
     IN  /\ disk' = [disk EXCEPT !.queue = Append(@, c)]
         /\ engine' = [engine EXCEPT !.previous = c.capture, !.staged = c]
  /\ chain' = [chain EXCEPT !.next = @ + 1]
  /\ UNCHANGED <<assigned, boot, exit, pc, claim>> /\ UNCHANGED ghosts

SnapPersists ==
  /\ engine.staged # Nil
  /\ disk' = [disk EXCEPT !.last = [capture |-> engine.staged.capture, worktree |-> engine.worktree,
                                    epoch |-> engine.epoch, launch |-> engine.launch]]
  /\ engine' = [engine EXCEPT !.staged = Nil]
  /\ UNCHANGED <<pc, claim, budget>> /\ UNCHANGED ghosts /\ UNCHANGED daemonVars

(* The shipper registers the oldest capture, and takes it off its queue.   *)
Fits(e) == /\ e.parent = chain[e.worktree].head /\ e.epoch = chain[e.worktree].epoch
           /\ ~ chain[e.worktree].free

Registers ==
  /\ pc \in {"up", "final"} /\ disk.queue # <<>> /\ Fits(disk.queue[1])
  /\ chain' = [chain EXCEPT ![disk.queue[1].worktree].head = disk.queue[1].capture]
  /\ saved' = IF disk.queue[1].holds > saved /\ disk.queue[1].holds <= wrote
              THEN disk.queue[1].holds ELSE saved
  /\ UNCHANGED <<assigned, disk, wrote, lost, pc, boot, engine, claim, exit, budget>>

Acks ==
  /\ pc \in {"up", "final"} /\ disk.queue # <<>>
  /\ disk.queue[1].capture = chain[disk.queue[1].worktree].head
  /\ disk' = [disk EXCEPT !.queue = Tail(@)]
  /\ UNCHANGED <<pc, engine, claim, budget>> /\ UNCHANGED ghosts /\ UNCHANGED daemonVars

(* CaptureRuntime::replan, under the engine lock: nothing to do for the    *)
(* identity and head the engine has; else the claim, and the head over the *)
(* disk.                                                                   *)
ReplanStarts ==
  /\ pc = "up" /\ ~ boot.recovery /\ ~ Leased /\ engine.staged = Nil /\ Spent("replans")
  /\ ~ (Plan.worktree = engine.worktree /\ Plan.epoch = engine.epoch /\ Plan.head = engine.previous)
  /\ claim # "released" /\ claim' = "claimed"
  /\ boot' = [boot EXCEPT !.plan = Plan]
  /\ IF Plan.head = 0
     THEN disk' = [disk EXCEPT !.marker = FALSE] /\ pc' = "rebase" /\ UNCHANGED ghosts
     ELSE /\ disk' = [disk EXCEPT !.marker = FALSE, !.partial = TRUE, !.mat = Nil]
          /\ lost' = lost \cup {"restored"} \cup
                     IF wrote = saved THEN {}
                     ELSE IF Plan.worktree = engine.worktree /\ Plan.epoch = engine.epoch
                     THEN {"repeated"} ELSE {"replan"}
          /\ wrote' = 0 /\ saved' = 0 /\ pc' = "replanning"
  /\ UNCHANGED <<chain, assigned, engine, exit>>

ReplanMaterialized ==
  /\ pc = "replanning"
  /\ \/ /\ disk' = [disk EXCEPT !.partial = FALSE, !.mat = [capture |-> boot.plan.head,
                       epoch |-> boot.plan.epoch, launch |-> boot.plan.launch]]
        /\ pc' = "rebase" /\ UNCHANGED budget
     \/ Spent("upsets") /\ pc' = "up" /\ UNCHANGED disk
  /\ UNCHANGED <<engine, claim>> /\ UNCHANGED ghosts /\ UNCHANGED daemonVars

(* CaptureEngine::rebase and the new identity                              *)
ReplanRebases ==
  /\ pc = "rebase"
  /\ \E own \in OwnQueue : disk' = [disk EXCEPT !.queue = own]
  /\ engine' = [NoEngine EXCEPT !.worktree = boot.plan.worktree, !.epoch = boot.plan.epoch,
                                !.launch = boot.plan.launch, !.previous = boot.plan.head]
  /\ pc' = "up"
  /\ UNCHANGED <<claim, budget>> /\ UNCHANGED ghosts /\ UNCHANGED daemonVars

(* final_capture: a standby never claimed is released with nothing to      *)
(* save; else the writers are stopped and the disk captured a last time.   *)
FinalReleases ==
  /\ pc = "up" /\ claim \in {"unclaimed", "released"}
  /\ claim' = "released" /\ pc' = "released"
  /\ disk' = [disk EXCEPT !.queue = <<>>]
  /\ UNCHANGED <<engine, budget>> /\ UNCHANGED ghosts /\ UNCHANGED daemonVars

ReleasedEnds ==
  /\ pc = "released"
  /\ Ends(EXIT_NOTHING_TO_SAVE)
  /\ UNCHANGED <<chain, assigned, disk, budget>> /\ UNCHANGED ghosts

FinalStarts ==
  /\ pc = "up" /\ claim = "claimed" /\ engine.staged = Nil
  /\ LET c == [capture |-> chain.next, parent |-> engine.previous, worktree |-> engine.worktree,
               epoch |-> engine.epoch, holds |-> wrote]
     IN  /\ disk' = [disk EXCEPT !.queue = Append(@, c)]
         /\ engine' = [engine EXCEPT !.previous = c.capture, !.staged = c]
  /\ chain' = [chain EXCEPT !.next = @ + 1]
  /\ pc' = "final"
  /\ UNCHANGED <<assigned, boot, exit, claim, budget>> /\ UNCHANGED ghosts

FinalEnds ==
  /\ pc = "final" /\ engine.staged = Nil
  /\ \/ disk.queue = <<>> /\ Ends(0) /\ UNCHANGED budget
     \/ disk.queue # <<>> /\ ~ Fits(disk.queue[1]) /\ Ends(EXIT_CAPTURE_INCOMPLETE) /\ UNCHANGED budget
     \/ disk.queue # <<>> /\ Spent("upsets") /\ Ends(EXIT_CAPTURE_INCOMPLETE)
  /\ UNCHANGED <<chain, assigned, disk>> /\ UNCHANGED ghosts

(* The daemon is killed, or the machine stops.                             *)
Killed ==
  /\ pc # "down" /\ Spent("upsets")
  /\ Ends(-1)
  /\ UNCHANGED <<chain, assigned, disk>> /\ UNCHANGED ghosts

--------------------------------------------------------------------------------
ExecutorInit ==
  /\ budget \in ExecutorLimits
  /\ assigned = IF budget.kind = "pooled" THEN "placeholder" ELSE "session"
  /\ chain = [placeholder |-> [head |-> budget.base, epoch |-> 1, free |-> FALSE],
              session |-> [head |-> budget.head, epoch |-> 1, free |-> budget.kind = "pooled"],
              next |-> 3]
  /\ disk = DiskEmpty /\ wrote = 0 /\ saved = 0 /\ lost = {}
  /\ pc = "down" /\ boot = NoBoot /\ engine = NoEngine /\ claim = "claimed" /\ exit = -1

BootStep ==
  \/ PlanGet \/ PlanRefused \/ Pickup \/ MaterializeStarts \/ MaterializeEnds \/ Record \/ Mark \/ Open

ExecutorNext ==
  \/ Assign \/ TakenOver \/ GivenBack \/ Killed
  \/ \E recovery \in BOOLEAN : StartBoot(recovery)
  \/ BootStep \/ Writes \/ SnapQueues \/ SnapPersists \/ Registers \/ Acks
  \/ ReplanStarts \/ ReplanMaterialized \/ ReplanRebases
  \/ FinalReleases \/ ReleasedEnds \/ FinalStarts \/ FinalEnds

--------------------------------------------------------------------------------
ExecutorTypeOK ==
  /\ disk.dir \in {"absent", "lock", "used"}
  /\ claim \in {"unclaimed", "claimed", "released"}
  /\ exit \in {-1, 0, 1, EXIT_CAPTURE_INCOMPLETE, EXIT_NOTHING_TO_SAVE, EXIT_STORE_UNFIT}
  /\ saved <= wrote

(* The exit codes that let the platform destroy the disk are true: after 0 *)
(* and after 76 no write of the session is on it alone.  Crashes, boots,   *)
(* re-plans and recoveries may have come before.                           *)
DestroyIsSafe == pc = "down" /\ exit \in {0, EXIT_NOTHING_TO_SAVE} => wrote = saved

(* A disk a recovery or a restart resumes as it is was not left half       *)
(* restored: nothing is captured from a materialize that was interrupted.  *)
(* Only over an empty chain is the repository alone taken as the sign: a   *)
(* standby whose restore was interrupted and that is then given a session  *)
(* without a capture goes on with what is there, and what it stages says   *)
(* resume ("bare").  A re-plan that is interrupted leaves such staging too *)
(* ("restored").                                                           *)
ResumedDiskIsWhole ==
  boot.resumed /\ boot.plan.head # 0 /\ lost \cap {"restored", "bare"} = {} /\ pc \in {"open", "up", "final"}
  => ~ disk.partial

(* capture.replan is documented as idempotent, "a plan naming what the     *)
(* executor already has changes nothing".  It does not hold: with a        *)
(* capture staged and not yet registered the plan's head is not the        *)
(* engine's newest, and the older head is restored over the disk.          *)
ReplanKeepsWork == "repeated" \notin lost

(* Nothing a session wrote is lost with its disk: the exit codes are true, *)
(* and no disk is captured that a materialize left half restored.          *)
NothingIsLost == DestroyIsSafe /\ ResumedDiskIsWhole
================================================================================
