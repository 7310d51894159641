-------------------------------- MODULE Lease --------------------------------
(* The lease of an executor while its daemon is up: the heartbeat that     *)
(* pauses the harness and resumes it, the shipper that learns of a fence,  *)
(* capture.replan that takes the next epoch, and the boot that attaches    *)
(* the harness meanwhile (sealantd/src/capture.rs, and register_one,       *)
(* reset_after_replan and is_foreign of sealant-capture/src/ship.rs).      *)
(*                                                                         *)
(* The registrar is external: it holds the worktree's epoch and whether    *)
(* the lease is this executor's, not live, or another's.  Time is the one  *)
(* fact the code asks of it: that the lease's time to live has passed      *)
(* since the last heartbeat that succeeded.                                *)
EXTENDS Integers

CONSTANTS LeaseLimits   \* bounds: what the registrar and the network may do

VARIABLES
  registrar,  \* the worktree's epoch and who holds its lease
  identity,   \* CaptureRuntime.identity's epoch
  staging,    \* the identity the queue is staged under (Staging::identity)
  fenced,     \* shipper.status.fenced
  paused,     \* CaptureRuntime.paused
  known,      \* CaptureRuntime.harness is set
  harness,    \* the process: "none", "running" or "stopped"
  attach,     \* boot_serve launching the harness and attaching it
  beat,       \* the heartbeat task: where, the epoch it asked under, the answer
  expired,    \* lease_ttl passed since last_ok
  ship,       \* a register under way: where, the epoch of its entry, the answer
  replan,     \* the re-plan under way and the epoch of its plan
  raced,      \* ghost: attach_harness sent its stop after the resume
  staleFence, \* ghost: a fence of a replaced epoch was stored
  may         \* what may still happen

leaseVars == <<registrar, identity, staging, fenced, paused, known, harness, attach, beat, expired,
               ship, replan, raced, staleFence, may>>

Once(what) == may[what] > 0 /\ may' = [may EXCEPT ![what] = @ - 1]

NoCall == [at |-> "idle", epoch |-> 0, answer |-> ""]

--------------------------------------------------------------------------------
(* The registrar                                                           *)

worker == <<identity, staging, fenced, paused, known, harness, attach, beat, expired, ship, replan,
            raced, staleFence>>

(* The lease expires, comes back, or goes to another executor and back.    *)
LeaseMoves ==
  /\ \/ registrar.lease = "ours" /\ registrar' = [registrar EXCEPT !.lease = "lost"] /\ Once("losses")
     \/ registrar.lease = "lost" /\ registrar' = [registrar EXCEPT !.lease = "ours"] /\ UNCHANGED may
     \/ /\ registrar.lease # "taken" /\ Once("takeovers")
        /\ registrar' = [epoch |-> registrar.epoch + 1, lease |-> "taken"]
     \/ /\ registrar.lease = "taken" /\ UNCHANGED may
        /\ registrar' = [epoch |-> registrar.epoch + 1, lease |-> "ours"]
  /\ UNCHANGED worker

(* What it answers a call under an epoch.                                  *)
Answer(epoch) == IF epoch # registrar.epoch THEN "fenced" ELSE IF registrar.lease = "ours" THEN "ok" ELSE "lost"

TimeToLivePasses ==
  /\ ~ expired /\ expired' = TRUE
  /\ UNCHANGED <<registrar, identity, staging, fenced, paused, known, harness, attach, beat, ship,
                 replan, raced, staleFence, may>>

--------------------------------------------------------------------------------
(* start_with: the heartbeat task                                          *)

beatRest == <<registrar, identity, staging, known, attach, ship, replan, raced>>

BeatAsks ==
  /\ beat.at = "idle"
  /\ beat' = [at |-> "asked", epoch |-> identity, answer |-> ""]
  /\ UNCHANGED <<fenced, paused, harness, expired, staleFence, may>> /\ UNCHANGED beatRest

BeatAnswered ==
  /\ beat.at = "asked"
  /\ \/ beat' = [beat EXCEPT !.at = "answered", !.answer = Answer(beat.epoch)] /\ UNCHANGED may
     \/ beat' = [beat EXCEPT !.at = "answered", !.answer = "error"] /\ Once("errors")
  /\ UNCHANGED <<fenced, paused, harness, expired, staleFence>> /\ UNCHANGED beatRest

(* A fence or a loss answered to an epoch a re-plan replaced is dropped.   *)
BeatDecides ==
  /\ beat.at = "answered"
  /\ beat' = [beat EXCEPT !.at =
       CASE beat.answer = "ok"     -> IF paused /\ ~ fenced THEN "resume" ELSE "idle"
         [] beat.answer = "fenced" -> IF identity # beat.epoch THEN "idle" ELSE "fence"
         [] beat.answer = "lost"   -> IF identity # beat.epoch THEN "idle" ELSE "pause"
         [] OTHER                  -> IF expired THEN "pause" ELSE "idle"]
  /\ expired' = (expired /\ beat.answer # "ok")
  /\ UNCHANGED <<fenced, paused, harness, staleFence, may>> /\ UNCHANGED beatRest

(* Stale once the re-plan that replaced the epoch has lifted its fence.    *)
Fence(epoch) ==
  /\ fenced' = TRUE
  /\ staleFence' = (staleFence \/ epoch # identity \/ replan.at = "identity")

BeatFences ==
  /\ beat.at = "fence"
  /\ Fence(beat.epoch)
  /\ beat' = [beat EXCEPT !.at = "pause"]
  /\ UNCHANGED <<paused, harness, expired, may>> /\ UNCHANGED beatRest

(* pause and resume: the flag is swapped, then the harness signalled.      *)
PauseSwaps ==
  /\ beat.at = "pause"
  /\ paused' = TRUE
  /\ beat' = [beat EXCEPT !.at = IF paused THEN "idle" ELSE "stop"]
  /\ UNCHANGED <<fenced, harness, expired, staleFence, may>> /\ UNCHANGED beatRest

ResumeSwaps ==
  /\ beat.at = "resume"
  /\ paused' = FALSE
  /\ beat' = [beat EXCEPT !.at = IF paused THEN "cont" ELSE "idle"]
  /\ UNCHANGED <<fenced, harness, expired, staleFence, may>> /\ UNCHANGED beatRest

BeatSignals ==
  /\ beat.at \in {"stop", "cont"}
  /\ harness' = IF known /\ harness # "none" THEN IF beat.at = "stop" THEN "stopped" ELSE "running"
                ELSE harness
  /\ beat' = NoCall
  /\ UNCHANGED <<fenced, paused, expired, staleFence, may>> /\ UNCHANGED beatRest

--------------------------------------------------------------------------------
(* boot_serve: launch_harness, then attach_harness                         *)

attachRest == <<registrar, identity, staging, fenced, paused, beat, expired, ship, replan,
                staleFence, may>>

LaunchHarness ==
  /\ attach = "before"
  /\ harness' = "running" /\ attach' = "launched"
  /\ UNCHANGED <<known, raced>> /\ UNCHANGED attachRest

AttachSets ==
  /\ attach = "launched"
  /\ known' = TRUE /\ attach' = "set"
  /\ UNCHANGED <<harness, raced>> /\ UNCHANGED attachRest

AttachTrusts ==
  /\ attach = "set"
  /\ attach' = "done"
  /\ UNCHANGED <<known, harness, raced>> /\ UNCHANGED attachRest

AttachLooks ==
  /\ attach = "set"
  /\ attach' = IF paused THEN "stop" ELSE "done"
  /\ UNCHANGED <<known, harness, raced>> /\ UNCHANGED attachRest

AttachStops ==
  /\ attach = "stop"
  /\ harness' = "stopped" /\ attach' = "done"
  /\ raced' = (raced \/ ~ paused \/ beat.at = "resume")
  /\ UNCHANGED known /\ UNCHANGED attachRest

--------------------------------------------------------------------------------
(* Shipper::register_one, as far as the fence                              *)

shipRest == <<registrar, identity, staging, paused, known, harness, attach, beat, expired, replan, raced, may>>

ShipAsks ==
  /\ ship.at = "idle" /\ ~ fenced
  /\ ship' = [at |-> "asked", epoch |-> staging, answer |-> ""]
  /\ UNCHANGED <<fenced, staleFence>> /\ UNCHANGED shipRest

ShipAnswered ==
  /\ ship.at = "asked"
  /\ ship' = [ship EXCEPT !.at = "answered", !.answer = Answer(ship.epoch)]
  /\ UNCHANGED <<fenced, staleFence>> /\ UNCHANGED shipRest

ShipLooks ==
  /\ ship.at = "answered"
  /\ ship' = IF ship.answer = "fenced" /\ ship.epoch = staging THEN [ship EXCEPT !.at = "fence"] ELSE NoCall
  /\ UNCHANGED <<fenced, staleFence>> /\ UNCHANGED shipRest

ShipFences ==
  /\ ship.at = "fence"
  /\ Fence(ship.epoch)
  /\ ship' = NoCall
  /\ UNCHANGED shipRest

--------------------------------------------------------------------------------
(* replan, under the engine lock: the plan, the head over the disk and the *)
(* rebase, the fence lifted, and the identity last.  It resumes nothing:   *)
(* the next heartbeat that succeeds does.                                  *)

replanRest == <<registrar, paused, known, harness, attach, beat, expired, ship, raced, staleFence>>

ReplanGets ==
  /\ replan.at = "idle" /\ registrar.lease # "taken" /\ registrar.epoch # identity /\ Once("replans")
  /\ replan' = [at |-> "rebase", epoch |-> registrar.epoch, answer |-> ""]
  /\ UNCHANGED <<identity, staging, fenced>> /\ UNCHANGED replanRest

ReplanRebased ==
  /\ replan.at = "rebase"
  /\ staging' = replan.epoch
  /\ replan' = [replan EXCEPT !.at = "reset"]
  /\ UNCHANGED <<identity, fenced, may>> /\ UNCHANGED replanRest

ReplanResetsNothing ==
  /\ replan.at = "reset"
  /\ replan' = [replan EXCEPT !.at = "identity"]
  /\ UNCHANGED <<fenced, identity, staging, may>> /\ UNCHANGED replanRest

ReplanResets ==
  /\ replan.at = "reset"
  /\ fenced' = FALSE
  /\ replan' = [replan EXCEPT !.at = "identity"]
  /\ UNCHANGED <<identity, staging, may>> /\ UNCHANGED replanRest

ReplanDone ==
  /\ replan.at = "identity"
  /\ identity' = replan.epoch
  /\ replan' = NoCall
  /\ UNCHANGED <<staging, fenced, may>> /\ UNCHANGED replanRest

--------------------------------------------------------------------------------
LeaseInit ==
  /\ registrar = [epoch |-> 1, lease |-> "ours"]
  /\ identity = 1 /\ staging = 1 /\ fenced = FALSE /\ paused = FALSE
  /\ known = FALSE /\ harness = "none" /\ attach = "before"
  /\ beat = NoCall /\ expired = FALSE /\ ship = NoCall /\ replan = NoCall
  /\ raced = FALSE /\ staleFence = FALSE
  /\ may \in LeaseLimits

BeatStep == \/ BeatAsks \/ BeatAnswered \/ BeatDecides \/ BeatFences
            \/ PauseSwaps \/ ResumeSwaps \/ BeatSignals
AttachStep == LaunchHarness \/ AttachSets \/ AttachLooks \/ AttachStops
ShipStep == ShipAsks \/ ShipAnswered \/ ShipLooks \/ ShipFences
ReplanStep == ReplanGets \/ ReplanRebased \/ ReplanResets \/ ReplanDone

LeaseNext == LeaseMoves \/ TimeToLivePasses \/ BeatStep \/ AttachStep \/ ShipStep \/ ReplanStep

(* The heartbeat ticks, a call is answered or times out, and the threads   *)
(* run.                                                                    *)
LeaseFairness ==
  /\ WF_leaseVars(BeatStep) /\ WF_leaseVars(AttachStep) /\ WF_leaseVars(ShipStep)
  /\ WF_leaseVars(ReplanRebased \/ ReplanResets \/ ReplanDone)

--------------------------------------------------------------------------------
LeaseTypeOK ==
  /\ registrar.lease \in {"ours", "lost", "taken"}
  /\ identity <= registrar.epoch /\ identity <= staging /\ staging <= registrar.epoch
  /\ harness \in {"none", "running", "stopped"}
  /\ harness = "stopped" => known

(* A fence answered to an epoch a re-plan replaced is documented as stale  *)
(* and dropped.  It does not hold: between reset_after_replan and the      *)
(* identity it stores last, or between the look at the identity and the    *)
(* store, the old epoch's fence is kept for the new one.                   *)
StaleFenceIsDropped == ~ staleFence

(* The executor whose lease another took stops its harness, whatever the   *)
(* boot, the shipper and the network do meanwhile.                         *)
TakenOver == registrar.lease = "taken"
HasStopped == harness = "stopped" \/ registrar.lease = "ours" \/ harness = "none"
TakenOverStops == TakenOver ~> HasStopped

(* And one that holds its lease again, re-planned, resumes it; unless the  *)
(* boot sent its stop after the resume, or a stale fence was kept.         *)
HeldAgain == registrar.lease = "ours" /\ registrar.epoch = identity
Runs == raced \/ staleFence \/ harness = "running"
HeldAgainRuns == []HeldAgain ~> Runs
================================================================================
