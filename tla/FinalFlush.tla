------------------------------ MODULE FinalFlush ------------------------------
(* The final flush: the answer that lets a machine be destroyed            *)
(* (sealantd/src/runtime.rs final_flush and quiesce, sealantd/src/         *)
(* capture.rs flush_final and report, sealant-capture/src/cadence.rs       *)
(* final_snaps and flush_final_sealing, and the seals of engine.rs and     *)
(* ship.rs).                                                               *)
(*                                                                         *)
(* Writers are the daemon's own processes.  Closing admission refuses new  *)
(* ones; a request admitted just before may still start its process after  *)
(* the writers were stopped, and the census is there for it.  A write is   *)
(* seen by the watcher some time later, or never where no watch is.        *)
(* Contents are version numbers per class; the queue between staging and   *)
(* the registrar is CaptureQueue's subject and is a sequence here.         *)
EXTENDS Integers, Sequences

CONSTANTS
  Writers,      \* requests that start a process
  FlushLimits   \* bounds: writes, flushes, faults and forced snaps, and whether watched

FlushConstants ==
  FlushLimits \subseteq [writes : Nat, flushes : Nat, faults : Nat, snaps : Nat, watched : BOOLEAN]

Classes == {"small", "bulk"}
FINAL_ROUNDS == 3
SEAL_ATTEMPTS == 3

VARIABLES
  writer,       \* [Writers -> "none", "admitted", "running" or "gone"]
  closed,       \* Runtime.admission_closed
  quiesced,     \* Runtime.quiesced: "no" (None), "stopped" (Some(None)) or a reason
  content,      \* [Classes -> the version on the disk]
  unseen,       \* the writes the watcher has not delivered
  seenChanges,  \* Shared.changes
  stagedCount,  \* Shared.staged
  uncounted,    \* snaps of others staged by the engine, their count still to come
  previous,     \* CaptureEngine.previous: the newest staged capture
  queued,       \* the captures staged and not registered, oldest first
  head,         \* the registrar's head
  seal,         \* Shared.sealed, or NoSeal
  outcome,      \* CaptureRuntime.final_outcome
  flush,        \* the flush under way: its step, round, attempts, incomplete
  late,         \* ghost: a writer started after the look that had to find it
  left          \* bounds: what may still happen

finalVars == <<writer, closed, quiesced, content, unseen, seenChanges, stagedCount, uncounted, previous,
               queued, head, seal, outcome, flush, late, left>>

NoSeal == [changes |-> -1, staged |-> -1, completion |-> FALSE]
Idle == [step |-> "idle", round |-> 0, attempts |-> 0, incomplete |-> "none", changes |-> 0]

At(step) == flush.step = step
Go(step) == flush' = [flush EXCEPT !.step = step]
Fail(step, why) == flush' = [flush EXCEPT !.step = step, !.incomplete = why]

writerVars == <<writer, closed, quiesced, content, unseen>>
chainVars == <<stagedCount, uncounted, previous, queued, head>>

--------------------------------------------------------------------------------
(* Writers and the watcher                                                 *)

Spend(what) == left[what] > 0 /\ left' = [left EXCEPT ![what] = @ - 1]

(* dispatch: the admission check of a request that starts a process.       *)
Admit(w) ==
  /\ writer[w] = "none" /\ ~ closed
  /\ writer' = [writer EXCEPT ![w] = "admitted"]
  /\ UNCHANGED <<closed, quiesced, content, unseen, seenChanges, seal, outcome, flush, late, left>>
  /\ UNCHANGED chainVars

(* The last look at the processes before the answer: the census, or, where *)
(* no watch would tell of what a short-lived one wrote, the quiesce.       *)
LookedPast ==
  /\ quiesced = "stopped"
  /\ left.watched => flush.step \in {"settle2", "seal", "shipSeal", "standing", "outcome", "answer", "idle"}

Start(w) ==
  /\ writer[w] = "admitted"
  /\ writer' = [writer EXCEPT ![w] = "running"]
  /\ late' = (late \/ LookedPast)
  /\ UNCHANGED <<closed, quiesced, content, unseen, seenChanges, seal, outcome, flush, left>>
  /\ UNCHANGED chainVars

WriteFile(w, c) ==
  /\ writer[w] = "running" /\ Spend("writes")
  /\ content' = [content EXCEPT ![c] = @ + 1]
  /\ unseen' = unseen + (IF left.watched THEN 1 ELSE 0)
  /\ UNCHANGED <<writer, closed, quiesced, seenChanges, seal, outcome, flush, late>>
  /\ UNCHANGED chainVars

Exit(w) ==
  /\ writer[w] = "running"
  /\ writer' = [writer EXCEPT ![w] = "gone"]
  /\ UNCHANGED <<closed, quiesced, content, unseen, seenChanges, seal, outcome, flush, late, left>>
  /\ UNCHANGED chainVars

(* The watcher delivers an event: Shared::signal counts it.                *)
Deliver ==
  /\ unseen > 0
  /\ unseen' = unseen - 1 /\ seenChanges' = seenChanges + 1
  /\ UNCHANGED <<writer, closed, quiesced, content, seal, outcome, flush, late, left>>
  /\ UNCHANGED chainVars

--------------------------------------------------------------------------------
(* The engine and the shipper, as the flush uses them                      *)

Running(w) == writer[w] = "running"

(* A manifest staged after the newest one, in every case that stages.      *)
Staged(capture) ==
  /\ previous' = capture
  /\ queued' = Append(queued, capture)
  /\ stagedCount' = stagedCount + 1
  /\ UNCHANGED <<head, uncounted>>

Unchanged == UNCHANGED chainVars

(* CaptureEngine::snap of a class.  What equals the capture it follows is  *)
(* not staged again, except a small final snap over one that is no final.  *)
Snap(class, kind) ==
  LET capture == [previous EXCEPT ![class] = content[class], !.kind = kind, !.sealed = FALSE]
      same == previous[class] = content[class]
  IN  IF same /\ (kind = "auto" \/ class = "bulk" \/ previous.kind = "final")
      THEN Unchanged ELSE Staged(capture)

(* A scheduled snap, refused once the writers are stopped, and one that    *)
(* capture.now forces at any time.  The engine stages it under its lock;   *)
(* the runner counts it after.                                             *)
OtherSnap(class) ==
  /\ Spend("snaps")
  /\ \E kind \in {"auto", "turn"} :
       /\ kind = "auto" => quiesced # "stopped" /\ previous[class] # content[class]
       /\ kind = "turn" => class = "small"
       /\ previous' = [previous EXCEPT ![class] = content[class], !.kind = kind, !.sealed = FALSE]
  /\ queued' = Append(queued, previous')
  /\ uncounted' = uncounted + 1
  /\ UNCHANGED <<stagedCount, head, seenChanges, seal, outcome, flush, late>> /\ UNCHANGED writerVars

CountSnap ==
  /\ uncounted > 0
  /\ uncounted' = uncounted - 1 /\ stagedCount' = stagedCount + 1
  /\ UNCHANGED <<previous, queued, head, seenChanges, seal, outcome, flush, late, left>>
  /\ UNCHANGED writerVars

(* The ship worker registers the oldest queued capture.                    *)
Register ==
  /\ queued # <<>>
  /\ head' = Head(queued) /\ queued' = Tail(queued)
  /\ UNCHANGED <<stagedCount, uncounted, previous, seenChanges, seal, outcome, flush, late, left>>
  /\ UNCHANGED writerVars

(* stage_over_previous: a final capture with the newest one's contents.    *)
StageOver(sealed) == Staged([previous EXCEPT !.kind = "final", !.sealed = sealed])

--------------------------------------------------------------------------------
(* What the runner and the report say                                      *)

(* chain_sealed, snaps_still_current, final_is_current_as_snapped,         *)
(* every_class_watched, final_is_current, final_sealed                     *)
ChainSealed == seal # NoSeal /\ seal.staged = stagedCount
SnapsStillCurrent == seal # NoSeal /\ seenChanges = seal.changes
CurrentAsSnapped == quiesced = "stopped" /\ SnapsStillCurrent
EveryClassWatched == left.watched
FinalIsCurrent == EveryClassWatched /\ CurrentAsSnapped
FinalSealed == seal # NoSeal /\ seal.completion /\ ChainSealed

(* CaptureRuntime::observed: complete unless one of its reasons holds.     *)
ReportComplete(currency) ==
  /\ outcome = "snapped"
  /\ queued = <<>>
  /\ ChainSealed /\ FinalSealed
  /\ CurrentAsSnapped
  /\ currency = "now" => EveryClassWatched

--------------------------------------------------------------------------------
(* Runtime::final_flush                                                    *)

(* begin_final: an answer that no longer stands is not repeated.           *)
BeginFinal ==
  /\ At("idle") /\ Spend("flushes")
  /\ outcome' = IF outcome = "snapped" /\ FinalIsCurrent /\ FinalSealed THEN outcome ELSE "running"
  /\ flush' = [Idle EXCEPT !.step = IF quiesced = "stopped" THEN "settle" ELSE "close"]
  /\ late' = IF quiesced = "stopped" /\ ~ left.watched THEN late ELSE FALSE
  /\ UNCHANGED <<seenChanges, seal>> /\ UNCHANGED writerVars /\ UNCHANGED chainVars

(* quiesce: admission is closed, then every writer is stopped.             *)
CloseAdmission ==
  /\ At("close")
  /\ closed' = TRUE
  /\ Go("quiesce")
  /\ UNCHANGED <<writer, quiesced, content, unseen, seenChanges, seal, outcome, late, left>>
  /\ UNCHANGED chainVars

(* Some process outlives SIGKILL, or the sweep cannot have seen them all:  *)
(* the flush goes on, and cannot be complete.                              *)
Quiesce ==
  /\ At("quiesce")
  /\ Go("settle")
  /\ \/ /\ writer' = [w \in Writers |-> IF Running(w) THEN "gone" ELSE writer[w]]
        /\ quiesced' = "stopped" /\ UNCHANGED left
     \/ /\ Spend("faults") /\ quiesced' = "processes-remain" /\ UNCHANGED writer
  /\ UNCHANGED <<closed, content, unseen, seenChanges, seal, outcome, late>>
  /\ UNCHANGED chainVars

(* CadenceRunner::settle_watcher: a fence file the watcher has to deliver, *)
(* with every event before it; it may not come in time.                    *)
Settled == unseen' = 0 /\ seenChanges' = seenChanges + unseen

SettleFirst ==
  /\ At("settle")
  /\ \/ Settled /\ UNCHANGED left
     \/ Spend("faults") /\ UNCHANGED <<unseen, seenChanges>>
  /\ flush' = [flush EXCEPT !.step = "snaps", !.round = @ + 1, !.incomplete = "none"]
  /\ UNCHANGED <<writer, closed, quiesced, content, seal, outcome, late>> /\ UNCHANGED chainVars

(* seal_final cannot stage the final capture: the flush goes on to ship.   *)
SealFinalFails ==
  /\ Spend("faults") /\ Fail("ship", "snapshot-failed")
  /\ previous.kind # "final" /\ Unchanged /\ UNCHANGED seal

(* final_snaps: nothing to snap when the last final flush's snaps are      *)
(* current; a capture staged since only moves the seal.                    *)
SnapsCurrent ==
  /\ At("snaps") /\ FinalIsCurrent
  /\ IF ~ ChainSealed
     THEN \/ /\ IF previous.kind = "final" THEN Unchanged ELSE StageOver(FALSE)
             /\ seal' = [seal EXCEPT !.staged = stagedCount']
             /\ Go("ship") /\ UNCHANGED left
          \/ SealFinalFails
     ELSE Unchanged /\ Go("ship") /\ UNCHANGED <<seal, left>>
  /\ UNCHANGED <<seenChanges, outcome, late>> /\ UNCHANGED writerVars

(* The count of changes the seal will stand for is read before the snaps.  *)
SnapsBegin ==
  /\ At("snaps") /\ ~ FinalIsCurrent
  /\ seal' = NoSeal
  /\ flush' = [flush EXCEPT !.step = "small", !.changes = seenChanges]
  /\ UNCHANGED <<seenChanges, outcome, late, left>> /\ UNCHANGED writerVars /\ UNCHANGED chainVars

SnapFinal(step, class, next) ==
  /\ At(step)
  /\ \/ Snap(class, "final") /\ Go(next) /\ UNCHANGED left
     \/ Spend("faults") /\ Fail("ship", "snapshot-failed") /\ Unchanged
  /\ UNCHANGED <<seenChanges, seal, outcome, late>> /\ UNCHANGED writerVars

SnapsEndCountedAfter ==
  /\ At("final")
  /\ IF previous.kind = "final" THEN Unchanged ELSE StageOver(FALSE)
  /\ seal' = [changes |-> seenChanges, staged |-> stagedCount', completion |-> FALSE]
  /\ Go("ship")
  /\ UNCHANGED <<seenChanges, outcome, late, left>> /\ UNCHANGED writerVars

(* seal_final: the chain ends on a final capture; then Seal is recorded.   *)
SnapsEnd ==
  /\ At("final")
  /\ \/ /\ IF previous.kind = "final" THEN Unchanged ELSE StageOver(FALSE)
        /\ seal' = [changes |-> flush.changes, staged |-> stagedCount', completion |-> FALSE]
        /\ Go("ship") /\ UNCHANGED left
     \/ SealFinalFails
  /\ UNCHANGED <<seenChanges, outcome, late>> /\ UNCHANGED writerVars

(* A snap or a ship that failed ends the rounds with its reason; so does a *)
(* flush whose writers were not stopped, with nothing to seal.             *)
AfterShip == IF flush.incomplete = "none" /\ quiesced = "stopped" THEN "census" ELSE "outcome"

(* ship_final and Shipper::flush_final: every queued capture registers, or *)
(* the deadline, an error or a fence leaves some; or the store is found    *)
(* unable to hold what was captured (fidelity_gap).                        *)
ShipFinal ==
  /\ At("ship")
  /\ \/ queued = <<>> /\ Go(AfterShip) /\ UNCHANGED left
     \/ queued = <<>> /\ Spend("faults") /\ flush.incomplete = "none" /\ Fail("outcome", "store-fidelity")
     \/ /\ queued # <<>> /\ Spend("faults")
        /\ \E why \in {"deadline", "fenced"} :
             Fail("outcome", IF flush.incomplete = "none" THEN why ELSE flush.incomplete)
  /\ UNCHANGED <<seenChanges, seal, outcome, late>> /\ UNCHANGED writerVars /\ UNCHANGED chainVars

(* Another round, if the rounds and the deadline allow one.                *)
Again(why) ==
  \/ flush.round < FINAL_ROUNDS /\ Go("settle") /\ UNCHANGED left
  \/ flush.round >= FINAL_ROUNDS /\ Fail("outcome", why) /\ UNCHANGED left
  \/ flush.round < FINAL_ROUNDS /\ Spend("faults") /\ Fail("outcome", why)

CensusSkipped ==
  /\ At("census")
  /\ Go("settle2") /\ UNCHANGED left
  /\ UNCHANGED <<seenChanges, seal, outcome, late>> /\ UNCHANGED writerVars /\ UNCHANGED chainVars

CensusWaiting ==
  /\ At("census")
  /\ flush' = IF \E w \in Writers : Running(w) THEN [flush EXCEPT !.step = "settle", !.round = 0]
              ELSE [flush EXCEPT !.step = "settle2"]
  /\ UNCHANGED <<seenChanges, seal, outcome, late, left>> /\ UNCHANGED writerVars /\ UNCHANGED chainVars

(* census_writers: a process of the daemon's alive now is killed, and the  *)
(* disk is snapped again.                                                  *)
Census ==
  /\ At("census")
  /\ IF \E w \in Writers : Running(w) THEN Again("processes-remain") ELSE Go("settle2") /\ UNCHANGED left
  /\ writer' = [w \in Writers |-> IF Running(w) THEN "gone" ELSE writer[w]]
  /\ UNCHANGED <<closed, quiesced, content, unseen, seenChanges, seal, outcome, late>>
  /\ UNCHANGED chainVars

(* The watcher's word on everything the census let end: unchanged since    *)
(* the count the final snaps began from, or snap again.                    *)
SettleAgain ==
  /\ At("settle2")
  /\ \/ /\ Settled
        /\ IF seal # NoSeal /\ seal.changes = seenChanges' THEN Go("seal") /\ UNCHANGED left ELSE Again("changed")
     \/ /\ Spend("faults") /\ UNCHANGED <<unseen, seenChanges>>
        /\ Fail("outcome", "changed") \/ (flush.round < FINAL_ROUNDS /\ Go("settle"))
  /\ UNCHANGED <<writer, closed, quiesced, content, seal, outcome, late>> /\ UNCHANGED chainVars

(* seal_complete: a capture that states the flush completed, until one is  *)
(* the newest; each is shipped.                                            *)
SealComplete ==
  /\ At("seal") /\ ~ previous.sealed
  /\ flush.attempts < SEAL_ATTEMPTS
  /\ \/ /\ StageOver(TRUE)
        /\ seal' = [seal EXCEPT !.staged = stagedCount']
        /\ flush' = [flush EXCEPT !.step = "shipSeal", !.attempts = @ + 1]
        /\ UNCHANGED left
     \/ Spend("faults") /\ Fail("outcome", "sealing") /\ Unchanged /\ UNCHANGED seal
  /\ UNCHANGED <<seenChanges, outcome, late>> /\ UNCHANGED writerVars

ShipSeal ==
  /\ At("shipSeal")
  /\ \/ queued = <<>> /\ Go("seal") /\ UNCHANGED left
     \/ queued # <<>> /\ Spend("faults") /\ Fail("outcome", "deadline")
  /\ UNCHANGED <<seenChanges, seal, outcome, late>> /\ UNCHANGED writerVars /\ UNCHANGED chainVars

SealDone ==
  /\ At("seal")
  /\ IF previous.sealed THEN Go("standing") ELSE flush.attempts >= SEAL_ATTEMPTS /\ Fail("outcome", "sealing")
  /\ UNCHANGED <<seenChanges, seal, outcome, late, left>> /\ UNCHANGED writerVars /\ UNCHANGED chainVars

(* seal_standing: the registrar recorded the seal of the head, or the      *)
(* chain moved past it, or the seal is withheld or refused.                *)
SealStanding ==
  /\ At("standing")
  /\ \/ head = previous /\ Go("outcome") /\ UNCHANGED left
     \/ head # previous /\ Fail("outcome", "sealing") /\ UNCHANGED left
     \/ Spend("faults") /\ Fail("outcome", "sealing")
  /\ UNCHANGED <<seenChanges, seal, outcome, late>> /\ UNCHANGED writerVars /\ UNCHANGED chainVars

(* The end of flush_final_sealing and of CaptureRuntime::flush_final: what *)
(* failed in shipping only is still a snap of everything.                  *)
Outcome ==
  /\ At("outcome")
  /\ seal' = IF seal = NoSeal THEN seal
             ELSE [seal EXCEPT !.completion = flush.incomplete = "none" /\ quiesced = "stopped"
                                              /\ previous.sealed]
  /\ outcome' = IF quiesced = "stopped" /\ flush.incomplete \in {"none", "deadline"}
                THEN "snapped" ELSE "incomplete"
  /\ Go("answer")
  /\ UNCHANGED <<seenChanges, late, left>> /\ UNCHANGED writerVars /\ UNCHANGED chainVars

Answer ==
  /\ At("answer")
  /\ flush' = Idle
  /\ UNCHANGED <<seenChanges, seal, outcome, late, left>> /\ UNCHANGED writerVars /\ UNCHANGED chainVars

--------------------------------------------------------------------------------
FinalInit ==
  /\ writer = [w \in Writers |-> "none"]
  /\ closed = FALSE /\ quiesced = "no"
  /\ content = [c \in Classes |-> 0] /\ unseen = 0 /\ seenChanges = 0
  /\ previous = [small |-> 0, bulk |-> 0, kind |-> "auto", sealed |-> FALSE]
  /\ queued = <<>> /\ head = previous /\ stagedCount = 0 /\ uncounted = 0
  /\ seal = NoSeal /\ outcome = "not-run" /\ flush = Idle
  /\ late = FALSE
  /\ left \in FlushLimits

FlushStep ==
  \/ BeginFinal \/ CloseAdmission \/ Quiesce \/ SettleFirst \/ SnapsCurrent \/ SnapsBegin
  \/ SnapFinal("small", "small", "bulk") \/ SnapFinal("bulk", "bulk", "final") \/ SnapsEnd
  \/ ShipFinal \/ Census \/ SettleAgain \/ SealComplete \/ ShipSeal \/ SealDone \/ SealStanding
  \/ Outcome \/ Answer

FinalNext ==
  \/ FlushStep \/ Deliver \/ Register \/ CountSnap
  \/ \E w \in Writers : Admit(w) \/ Start(w) \/ Exit(w) \/ \E c \in Classes : WriteFile(w, c)
  \/ \E c \in Classes : OtherSnap(c)

(* The flush's thread runs and the ship worker is up.                      *)
FinalFairness == WF_finalVars(FlushStep) /\ WF_finalVars(Register)

--------------------------------------------------------------------------------
FinalTypeOK ==
  /\ writer \in [Writers -> {"none", "admitted", "running", "gone"}]
  /\ quiesced \in {"no", "stopped", "processes-remain"} /\ (quiesced = "stopped" => closed)
  /\ outcome \in {"not-run", "running", "snapped", "incomplete"}
  /\ flush.round \in 0 .. FINAL_ROUNDS /\ flush.attempts \in 0 .. SEAL_ATTEMPTS
  /\ seal = NoSeal \/ (seal.changes <= seenChanges /\ seal.staged <= stagedCount)

(* What a complete answer promises: both classes are registered as they    *)
(* are on the disk.                                                        *)
Captured == head.small = content["small"] /\ head.bulk = content["bulk"]

(* A complete answer is true: whatever was admitted, started, written,     *)
(* snapped or delivered while the flush ran, unless a process started      *)
(* after the census that had to find it.                                   *)
CompleteIsTrue == At("answer") /\ ReportComplete("as-snapped") /\ ~ late => Captured

(* capture.status repeats it only while it stands: once the watcher has    *)
(* delivered a change, or anything was staged since, it says so.           *)
StatusIsTrue == ReportComplete("now") /\ ~ late /\ unseen = 0 => Captured

(* final_sealed is documented as "the newest capture carries this          *)
(* executor's final seal and registered": no report is complete otherwise. *)
(* It does not hold: a repeated final flush that finds the disk as it was  *)
(* and a capture staged meanwhile moves its seal to an unsealed capture,   *)
(* and keeps the completion of the flush before.                           *)
CompleteIsSealed == ReportComplete("now") /\ uncounted = 0 => head.sealed

(* Every flush is answered, however often the disk changes.                *)
Flushing == flush.step # "idle"
FlushEnds == Flushing ~> ~Flushing

\* Both reports of the flush are true: its answer and the status a later reader gets.
FlushIsTrue == CompleteIsTrue /\ StatusIsTrue
================================================================================
