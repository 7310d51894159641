--------------------------- MODULE LifecycleProofs ---------------------------
(***************************************************************************)
(* Proofs about how the daemon starts, saves the workspace and stops: what *)
(* is checked of boot, the executor over its launches, the final flush,    *)
(* the passes of the shipper, the uploads and when a capture is taken, for *)
(* every value of their constants.                                         *)
(*                                                                         *)
(* The variables are MCParts's; each section says what they stand for.     *)
(* It states an inductive invariant, as a conjunction of named groups, and *)
(* proves that each action keeps it, one step per group the action can     *)
(* disturb and one for the rest.                                           *)
(***************************************************************************)
EXTENDS MCLifecycle, TLAPS

-------------------------------------------------------------------------------
(* Boot: w1 is boot, w2 final, w3 flush.                                   *)

(* The fields the properties are about.                                    *)
SupervisorTypes ==
  /\ {"stage", "proc", "code", "exit", "requested", "control", "down", "faults",
       "signalled"} \subseteq DOMAIN w1
  /\ w1.stage \in {"prepare", "binds", "dotfiles", "wss", "steps", "supervise", "stopwait",
                     "recover", "ending", "terminate", "joining", "exited"}
  /\ w1.proc \in {"none", "running", "ok", "failed", "killed"}
  /\ w1.control \in {"down", "up", "ended"}
BootFinalTypes ==
  /\ {"closed", "lock", "quiesced", "claim", "last", "saved", "cutoff", "engine",
       "orphaned"} \subseteq DOMAIN w2
  /\ w2.lock \in {"free"} \cup Boots!Requesters
  /\ w2.quiesced \in {"never", "clean", "dirty"}
  /\ w2.claim \in {"unclaimed", "claimed", "released"}
  /\ w2.last \in {"none", "complete", "incomplete"}
  /\ w2.cutoff \in {"none", "set", "passed"}
BootFlushTypes == w3 \in [Boots!Requesters -> {"idle", "waiting", "stopping", "saving", "ended"}]

(* Who stops the writers or saves the disk holds the lock.                 *)
FlushLocked == \A r \in Boots!Requesters : w3[r] \in {"stopping", "saving"} <=> w2.lock = r
(* Without an engine no flush starts; before the engine starts is none.    *)
EngineFirst ==
  /\ w1.stage \in {"prepare", "binds"} => ~w2.engine
  /\ ~w2.engine => w2.quiesced = "never" /\ w2.lock = "free" /\ w2.last # "complete"
(* Writers are stopped with admission closed, and once they are all        *)
(* stopped nothing stops them again.                                       *)
StopsClosed ==
  /\ \A r \in Boots!Requesters : w3[r] = "stopping" => w2.closed /\ w2.quiesced # "clean"
  /\ w2.quiesced = "clean" => w2.closed
(* A complete flush released an unclaimed disk or saved a quiet one.       *)
CompleteIsTrue ==
  w2.last = "complete" =>
    w2.claim = "released" \/ (w2.saved /\ w2.closed /\ w2.quiesced = "clean")
(* What a code says, from the moment the flush has decided on it.          *)
CodeIsTrue(code) ==
  /\ code = Boots!EXIT_NOTHING_TO_SAVE => w2.claim = "released"
  /\ code \notin {Boots!EXIT_NOTHING_TO_SAVE, Boots!EXIT_CAPTURE_INCOMPLETE} =>
       w2.saved /\ w2.closed /\ w2.quiesced = "clean"
CodesAreTrue ==
  /\ w1.stage = "ending" => w1.code # Boots!EXIT_NOTHING_TO_SAVE
  /\ w2.engine /\ w1.stage \in {"terminate", "joining"} => CodeIsTrue(w1.code)
  /\ w2.engine /\ w1.stage = "exited" => CodeIsTrue(w1.exit)

BootInv ==
  /\ SupervisorTypes
  /\ BootFinalTypes
  /\ BootFlushTypes
  /\ FlushLocked
  /\ EngineFirst
  /\ StopsClosed
  /\ CompleteIsTrue
  /\ CodesAreTrue

(* PrepareFails keeps the invariant.                                       *)
LEMMA BootPrepareFails ==
  ASSUME BootInv, Boots!PrepareFails
  PROVE  BootInv'
<1>0. /\ SupervisorTypes /\ BootFinalTypes /\ BootFlushTypes /\ FlushLocked /\ EngineFirst
      /\ StopsClosed /\ CompleteIsTrue /\ CodesAreTrue
  BY DEF BootInv
<1>1. SupervisorTypes'
  BY <1>0 DEF Boots!PrepareFails, Boots!At, Boots!Faulty, Boots!Fault, Boots!Limit, SupervisorTypes
<1>2. EngineFirst'
  BY <1>0 DEF Boots!PrepareFails, Boots!At, Boots!Faulty, Boots!Fault, Boots!Limit, EngineFirst,
       SupervisorTypes, BootFinalTypes, BootFlushTypes, FlushLocked, Boots!Requesters
<1>3. CodesAreTrue'
  BY <1>0 DEF Boots!PrepareFails, Boots!At, Boots!Faulty, Boots!Fault, Boots!Limit, CodesAreTrue,
       CodeIsTrue, SupervisorTypes, BootFinalTypes, CompleteIsTrue, EngineFirst, StopsClosed, BootFlushTypes,
       Boots!EXIT_NOTHING_TO_SAVE, Boots!EXIT_CAPTURE_INCOMPLETE
<1>4. BootFinalTypes' /\ BootFlushTypes' /\ FlushLocked' /\ StopsClosed' /\ CompleteIsTrue'
  BY <1>0 DEF Boots!PrepareFails, Boots!At, Boots!Faulty, Boots!Fault, Boots!Limit, BootFinalTypes,
       BootFlushTypes, FlushLocked, StopsClosed, CompleteIsTrue
<1> QED BY <1>1, <1>2, <1>3, <1>4 DEF BootInv

(* Prepared keeps the invariant.                                           *)
LEMMA BootPrepared ==
  ASSUME BootInv, Boots!Prepared
  PROVE  BootInv'
<1>0. /\ SupervisorTypes /\ BootFinalTypes /\ BootFlushTypes /\ FlushLocked /\ EngineFirst
      /\ StopsClosed /\ CompleteIsTrue /\ CodesAreTrue
  BY DEF BootInv
<1>1. SupervisorTypes'
  BY <1>0 DEF Boots!Prepared, Boots!At, SupervisorTypes
<1>2. EngineFirst'
  BY <1>0 DEF Boots!Prepared, Boots!At, EngineFirst, SupervisorTypes, BootFinalTypes, BootFlushTypes,
       FlushLocked, Boots!Requesters
<1>3. CodesAreTrue'
  BY <1>0 DEF Boots!Prepared, Boots!At, CodesAreTrue, CodeIsTrue, SupervisorTypes, BootFinalTypes,
       CompleteIsTrue, EngineFirst, StopsClosed, BootFlushTypes, Boots!EXIT_NOTHING_TO_SAVE,
       Boots!EXIT_CAPTURE_INCOMPLETE
<1>4. BootFinalTypes' /\ BootFlushTypes' /\ FlushLocked' /\ StopsClosed' /\ CompleteIsTrue'
  BY <1>0 DEF Boots!Prepared, Boots!At, BootFinalTypes, BootFlushTypes, FlushLocked, StopsClosed,
       CompleteIsTrue
<1> QED BY <1>1, <1>2, <1>3, <1>4 DEF BootInv

(* BindsFail keeps the invariant.                                          *)
LEMMA BootBindsFail ==
  ASSUME BootInv, Boots!BindsFail
  PROVE  BootInv'
<1>0. /\ SupervisorTypes /\ BootFinalTypes /\ BootFlushTypes /\ FlushLocked /\ EngineFirst
      /\ StopsClosed /\ CompleteIsTrue /\ CodesAreTrue
  BY DEF BootInv
<1>1. SupervisorTypes'
  BY <1>0 DEF Boots!BindsFail, Boots!At, Boots!Fault, SupervisorTypes
<1>2. EngineFirst'
  BY <1>0 DEF Boots!BindsFail, Boots!At, Boots!Fault, EngineFirst, SupervisorTypes, BootFinalTypes,
       BootFlushTypes, FlushLocked, Boots!Requesters
<1>3. CodesAreTrue'
  BY <1>0 DEF Boots!BindsFail, Boots!At, Boots!Fault, CodesAreTrue, CodeIsTrue, SupervisorTypes,
       BootFinalTypes, CompleteIsTrue, EngineFirst, StopsClosed, BootFlushTypes, Boots!EXIT_NOTHING_TO_SAVE,
       Boots!EXIT_CAPTURE_INCOMPLETE
<1>4. BootFinalTypes' /\ BootFlushTypes' /\ FlushLocked' /\ StopsClosed' /\ CompleteIsTrue'
  BY <1>0 DEF Boots!BindsFail, Boots!At, Boots!Fault, BootFinalTypes, BootFlushTypes, FlushLocked,
       StopsClosed,
       CompleteIsTrue
<1> QED BY <1>1, <1>2, <1>3, <1>4 DEF BootInv

(* StartCapture keeps the invariant.                                       *)
LEMMA BootStartCapture ==
  ASSUME BootInv, Boots!StartCapture
  PROVE  BootInv'
<1>0. /\ SupervisorTypes /\ BootFinalTypes /\ BootFlushTypes /\ FlushLocked /\ EngineFirst
      /\ StopsClosed /\ CompleteIsTrue /\ CodesAreTrue
  BY DEF BootInv
<1>1. SupervisorTypes'
  BY <1>0 DEF Boots!StartCapture, Boots!At, SupervisorTypes
<1>2. BootFinalTypes'
  BY <1>0 DEF Boots!StartCapture, Boots!At, BootFinalTypes, Boots!Requesters
<1>3. FlushLocked'
  BY <1>0 DEF Boots!StartCapture, Boots!At, FlushLocked, BootFinalTypes, BootFlushTypes, Boots!Requesters
<1>4. EngineFirst'
  BY <1>0 DEF Boots!StartCapture, Boots!At, EngineFirst, SupervisorTypes, BootFinalTypes, BootFlushTypes,
       FlushLocked, Boots!Requesters
<1>5. StopsClosed'
  BY <1>0 DEF Boots!StartCapture, Boots!At, StopsClosed, BootFinalTypes, BootFlushTypes, FlushLocked,
       EngineFirst, Boots!Requesters
<1>6. CompleteIsTrue'
  BY <1>0 DEF Boots!StartCapture, Boots!At, CompleteIsTrue, BootFinalTypes, EngineFirst, BootFlushTypes,
       StopsClosed, Boots!Requesters
<1>7. CodesAreTrue'
  BY <1>0 DEF Boots!StartCapture, Boots!At, CodesAreTrue, CodeIsTrue, SupervisorTypes, BootFinalTypes,
       CompleteIsTrue, EngineFirst, StopsClosed, BootFlushTypes, Boots!EXIT_NOTHING_TO_SAVE,
       Boots!EXIT_CAPTURE_INCOMPLETE
<1>8. BootFlushTypes'
  BY <1>0 DEF Boots!StartCapture, Boots!At, BootFlushTypes
<1> QED BY <1>1, <1>2, <1>3, <1>4, <1>5, <1>6, <1>7, <1>8 DEF BootInv

(* Dotfiles keeps the invariant.                                           *)
LEMMA BootDotfiles ==
  ASSUME BootInv, Boots!Dotfiles
  PROVE  BootInv'
<1>0. /\ SupervisorTypes /\ BootFinalTypes /\ BootFlushTypes /\ FlushLocked /\ EngineFirst
      /\ StopsClosed /\ CompleteIsTrue /\ CodesAreTrue
  BY DEF BootInv
<1>1. SupervisorTypes'
  BY <1>0 DEF Boots!Dotfiles, Boots!At, Boots!Ending, Boots!Fault, Boots!FAILURE, SupervisorTypes
<1>2. EngineFirst'
  BY <1>0 DEF Boots!Dotfiles, Boots!At, Boots!Ending, Boots!Fault, Boots!FAILURE, EngineFirst,
       SupervisorTypes, BootFinalTypes, BootFlushTypes, FlushLocked, Boots!Requesters
<1>3. CodesAreTrue'
  <2>1. w1'.stage \in {"wss", "ending"}
    BY <1>0 DEF Boots!Dotfiles, Boots!At, Boots!Ending, Boots!Fault, SupervisorTypes
  <2>2. w1'.stage = "ending" => w1'.code \in {Boots!SUCCESS, Boots!FAILURE, Boots!HarnessCode, 128 + 15}
    BY <1>0 DEF Boots!Dotfiles, Boots!At, Boots!Ending, Boots!Fault, SupervisorTypes
  <2>3. Boots!EXIT_NOTHING_TO_SAVE \notin {Boots!SUCCESS, Boots!FAILURE, Boots!HarnessCode, 128 + 15}
    BY DEF Boots!EXIT_NOTHING_TO_SAVE, Boots!SUCCESS, Boots!FAILURE, Boots!HarnessCode
  <2> QED BY <2>1, <2>2, <2>3 DEF CodesAreTrue
<1>4. BootFinalTypes' /\ BootFlushTypes' /\ FlushLocked' /\ StopsClosed' /\ CompleteIsTrue'
  BY <1>0 DEF Boots!Dotfiles, Boots!At, Boots!Ending, Boots!Fault, Boots!FAILURE, BootFinalTypes,
       BootFlushTypes, FlushLocked, StopsClosed, CompleteIsTrue
<1> QED BY <1>1, <1>2, <1>3, <1>4 DEF BootInv

(* Frontends keeps the invariant.                                          *)
LEMMA BootFrontends ==
  ASSUME BootInv, Boots!Frontends
  PROVE  BootInv'
<1>0. /\ SupervisorTypes /\ BootFinalTypes /\ BootFlushTypes /\ FlushLocked /\ EngineFirst
      /\ StopsClosed /\ CompleteIsTrue /\ CodesAreTrue
  BY DEF BootInv
<1>1. SupervisorTypes'
  BY <1>0 DEF Boots!Frontends, Boots!At, Boots!Ending, Boots!Fault, Boots!FAILURE, SupervisorTypes
<1>2. EngineFirst'
  BY <1>0 DEF Boots!Frontends, Boots!At, Boots!Ending, Boots!Fault, Boots!FAILURE, EngineFirst,
       SupervisorTypes, BootFinalTypes, BootFlushTypes, FlushLocked, Boots!Requesters
<1>3. CodesAreTrue'
  <2>1. w1'.stage \in {"recover", "steps", "ending"}
    BY <1>0 DEF Boots!Frontends, Boots!At, Boots!Ending, Boots!Fault, SupervisorTypes
  <2>2. w1'.stage = "ending" => w1'.code \in {Boots!SUCCESS, Boots!FAILURE, Boots!HarnessCode, 128 + 15}
    BY <1>0 DEF Boots!Frontends, Boots!At, Boots!Ending, Boots!Fault, SupervisorTypes
  <2>3. Boots!EXIT_NOTHING_TO_SAVE \notin {Boots!SUCCESS, Boots!FAILURE, Boots!HarnessCode, 128 + 15}
    BY DEF Boots!EXIT_NOTHING_TO_SAVE, Boots!SUCCESS, Boots!FAILURE, Boots!HarnessCode
  <2> QED BY <2>1, <2>2, <2>3 DEF CodesAreTrue
<1>4. BootFinalTypes' /\ BootFlushTypes' /\ FlushLocked' /\ StopsClosed' /\ CompleteIsTrue'
  BY <1>0 DEF Boots!Frontends, Boots!At, Boots!Ending, Boots!Fault, Boots!FAILURE, BootFinalTypes,
       BootFlushTypes, FlushLocked, StopsClosed, CompleteIsTrue
<1> QED BY <1>1, <1>2, <1>3, <1>4 DEF BootInv

(* StepStarts keeps the invariant.                                         *)
LEMMA BootStepStarts ==
  ASSUME BootInv, Boots!StepStarts
  PROVE  BootInv'
<1>0. /\ SupervisorTypes /\ BootFinalTypes /\ BootFlushTypes /\ FlushLocked /\ EngineFirst
      /\ StopsClosed /\ CompleteIsTrue /\ CodesAreTrue
  BY DEF BootInv
<1>1. SupervisorTypes'
  BY <1>0 DEF Boots!StepStarts, Boots!At, Boots!Ending, Boots!FAILURE, SupervisorTypes
<1>2. EngineFirst'
  BY <1>0 DEF Boots!StepStarts, Boots!At, Boots!Ending, Boots!FAILURE, EngineFirst, SupervisorTypes,
       BootFinalTypes, BootFlushTypes, FlushLocked, Boots!Requesters
<1>3. CodesAreTrue'
  BY <1>0 DEF Boots!StepStarts, Boots!At, Boots!Ending, Boots!FAILURE, CodesAreTrue, CodeIsTrue,
       SupervisorTypes, BootFinalTypes, CompleteIsTrue, EngineFirst, StopsClosed, BootFlushTypes,
       Boots!EXIT_NOTHING_TO_SAVE, Boots!EXIT_CAPTURE_INCOMPLETE
<1>4. BootFinalTypes' /\ BootFlushTypes' /\ FlushLocked' /\ StopsClosed' /\ CompleteIsTrue'
  BY <1>0 DEF Boots!StepStarts, Boots!At, Boots!Ending, Boots!FAILURE, BootFinalTypes, BootFlushTypes,
       FlushLocked, StopsClosed, CompleteIsTrue
<1> QED BY <1>1, <1>2, <1>3, <1>4 DEF BootInv

(* StepEnds keeps the invariant.                                           *)
LEMMA BootStepEnds ==
  ASSUME BootInv, Boots!StepEnds
  PROVE  BootInv'
<1>0. /\ SupervisorTypes /\ BootFinalTypes /\ BootFlushTypes /\ FlushLocked /\ EngineFirst
      /\ StopsClosed /\ CompleteIsTrue /\ CodesAreTrue
  BY DEF BootInv
<1>1. SupervisorTypes'
  BY <1>0 DEF Boots!StepEnds, Boots!At, Boots!Ending, Boots!HarnessCode, Boots!FAILURE, SupervisorTypes
<1>2. EngineFirst'
  BY <1>0 DEF Boots!StepEnds, Boots!At, Boots!Ending, Boots!HarnessCode, Boots!FAILURE, EngineFirst,
       SupervisorTypes, BootFinalTypes, BootFlushTypes, FlushLocked, Boots!Requesters
<1>3. CodesAreTrue'
  <2>1. w1'.stage \in {"steps", "ending"}
    BY <1>0 DEF Boots!StepEnds, Boots!At, Boots!Ending, SupervisorTypes
  <2>2. w1'.stage = "ending" => w1'.code \in {Boots!SUCCESS, Boots!FAILURE, Boots!HarnessCode, 128 + 15}
    BY <1>0 DEF Boots!StepEnds, Boots!At, Boots!Ending, SupervisorTypes
  <2>3. Boots!EXIT_NOTHING_TO_SAVE \notin {Boots!SUCCESS, Boots!FAILURE, Boots!HarnessCode, 128 + 15}
    BY DEF Boots!EXIT_NOTHING_TO_SAVE, Boots!SUCCESS, Boots!FAILURE, Boots!HarnessCode
  <2> QED BY <2>1, <2>2, <2>3 DEF CodesAreTrue
<1>4. BootFinalTypes' /\ BootFlushTypes' /\ FlushLocked' /\ StopsClosed' /\ CompleteIsTrue'
  BY <1>0 DEF Boots!StepEnds, Boots!At, Boots!Ending, Boots!HarnessCode, Boots!FAILURE, BootFinalTypes,
       BootFlushTypes, FlushLocked, StopsClosed, CompleteIsTrue
<1> QED BY <1>1, <1>2, <1>3, <1>4 DEF BootInv

(* LaunchHarness keeps the invariant.                                      *)
LEMMA BootLaunchHarness ==
  ASSUME BootInv, Boots!LaunchHarness
  PROVE  BootInv'
<1>0. /\ SupervisorTypes /\ BootFinalTypes /\ BootFlushTypes /\ FlushLocked /\ EngineFirst
      /\ StopsClosed /\ CompleteIsTrue /\ CodesAreTrue
  BY DEF BootInv
<1>1. SupervisorTypes'
  BY <1>0 DEF Boots!LaunchHarness, Boots!At, Boots!Ending, Boots!FAILURE, SupervisorTypes
<1>2. EngineFirst'
  BY <1>0 DEF Boots!LaunchHarness, Boots!At, Boots!Ending, Boots!FAILURE, EngineFirst, SupervisorTypes,
       BootFinalTypes, BootFlushTypes, FlushLocked, Boots!Requesters
<1>3. CodesAreTrue'
  BY <1>0 DEF Boots!LaunchHarness, Boots!At, Boots!Ending, Boots!FAILURE, CodesAreTrue, CodeIsTrue,
       SupervisorTypes, BootFinalTypes, CompleteIsTrue, EngineFirst, StopsClosed, BootFlushTypes,
       Boots!EXIT_NOTHING_TO_SAVE, Boots!EXIT_CAPTURE_INCOMPLETE
<1>4. BootFinalTypes' /\ BootFlushTypes' /\ FlushLocked' /\ StopsClosed' /\ CompleteIsTrue'
  BY <1>0 DEF Boots!LaunchHarness, Boots!At, Boots!Ending, Boots!FAILURE, BootFinalTypes, BootFlushTypes,
       FlushLocked, StopsClosed, CompleteIsTrue
<1> QED BY <1>1, <1>2, <1>3, <1>4 DEF BootInv

(* Supervise keeps the invariant.                                          *)
LEMMA BootSupervise ==
  ASSUME BootInv, Boots!Supervise
  PROVE  BootInv'
<1>0. /\ SupervisorTypes /\ BootFinalTypes /\ BootFlushTypes /\ FlushLocked /\ EngineFirst
      /\ StopsClosed /\ CompleteIsTrue /\ CodesAreTrue
  BY DEF BootInv
<1>1. SupervisorTypes'
  BY <1>0 DEF Boots!Supervise, Boots!Wakes, Boots!At, Boots!Ending, Boots!SUCCESS, Boots!FAILURE,
       Boots!HarnessExited, Boots!exit_code_from_status, Boots!HarnessCode, SupervisorTypes
<1>2. EngineFirst'
  BY <1>0 DEF Boots!Supervise, Boots!Wakes, Boots!At, Boots!Ending, Boots!SUCCESS, Boots!FAILURE,
       Boots!HarnessExited, Boots!exit_code_from_status, Boots!HarnessCode, EngineFirst,
       SupervisorTypes, BootFinalTypes, BootFlushTypes, FlushLocked, Boots!Requesters
<1>3. CodesAreTrue'
  <2>1. w1'.stage \in {"stopwait", "ending"}
    BY <1>0 DEF Boots!Supervise, Boots!Wakes, Boots!At, Boots!Ending, Boots!HarnessExited, SupervisorTypes
  <2>2. w1'.stage = "ending" => w1'.code \in {Boots!SUCCESS, Boots!FAILURE, Boots!HarnessCode, 128 + 15}
    BY <1>0 DEF Boots!Supervise, Boots!Wakes, Boots!At, Boots!Ending, Boots!HarnessExited,
         Boots!exit_code_from_status, SupervisorTypes
  <2>3. Boots!EXIT_NOTHING_TO_SAVE \notin {Boots!SUCCESS, Boots!FAILURE, Boots!HarnessCode, 128 + 15}
    BY DEF Boots!EXIT_NOTHING_TO_SAVE, Boots!SUCCESS, Boots!FAILURE, Boots!HarnessCode
  <2> QED BY <2>1, <2>2, <2>3 DEF CodesAreTrue
<1>4. BootFinalTypes' /\ BootFlushTypes' /\ FlushLocked' /\ StopsClosed' /\ CompleteIsTrue'
  BY <1>0 DEF Boots!Supervise, Boots!Wakes, Boots!At, Boots!Ending, Boots!SUCCESS, Boots!FAILURE,
       Boots!HarnessExited, Boots!exit_code_from_status, Boots!HarnessCode, BootFinalTypes, BootFlushTypes,
       FlushLocked, StopsClosed, CompleteIsTrue
<1> QED BY <1>1, <1>2, <1>3, <1>4 DEF BootInv

(* ExitAsks keeps the invariant.                                           *)
LEMMA BootExitAsks ==
  ASSUME BootInv, Boots!ExitAsks
  PROVE  BootInv'
<1>0. /\ SupervisorTypes /\ BootFinalTypes /\ BootFlushTypes /\ FlushLocked /\ EngineFirst
      /\ StopsClosed /\ CompleteIsTrue /\ CodesAreTrue
  BY DEF BootInv
<1>1. BootFlushTypes'
  BY <1>0 DEF Boots!ExitAsks, Boots!At, BootFlushTypes, Boots!Requesters
<1>2. FlushLocked'
  BY <1>0 DEF Boots!ExitAsks, Boots!At, FlushLocked, BootFinalTypes, BootFlushTypes, Boots!Requesters
<1>3. StopsClosed'
  BY <1>0 DEF Boots!ExitAsks, Boots!At, StopsClosed, BootFinalTypes, BootFlushTypes, FlushLocked, EngineFirst,
       Boots!Requesters
<1>4. SupervisorTypes' /\ BootFinalTypes' /\ EngineFirst' /\ CompleteIsTrue' /\ CodesAreTrue'
  BY <1>0 DEF Boots!ExitAsks, Boots!At, SupervisorTypes, BootFinalTypes, EngineFirst, CompleteIsTrue,
       CodesAreTrue
<1> QED BY <1>1, <1>2, <1>3, <1>4 DEF BootInv

(* FinalCapture keeps the invariant.                                       *)
LEMMA BootFinalCapture ==
  ASSUME BootInv, Boots!FinalCapture
  PROVE  BootInv'
<1>0. /\ SupervisorTypes /\ BootFinalTypes /\ BootFlushTypes /\ FlushLocked /\ EngineFirst
      /\ StopsClosed /\ CompleteIsTrue /\ CodesAreTrue
  BY DEF BootInv
<1>1. SupervisorTypes'
  BY <1>0 DEF Boots!FinalCapture, Boots!At, Boots!FinalCode, SupervisorTypes
<1>2. EngineFirst'
  BY <1>0 DEF Boots!FinalCapture, Boots!At, Boots!FinalCode, EngineFirst, SupervisorTypes, BootFinalTypes,
       BootFlushTypes, FlushLocked, Boots!Requesters
<1>3. CodesAreTrue'
  BY <1>0 DEF Boots!FinalCapture, Boots!At, Boots!FinalCode, CodesAreTrue, CodeIsTrue, SupervisorTypes,
       BootFinalTypes, CompleteIsTrue, EngineFirst, StopsClosed, BootFlushTypes, Boots!EXIT_NOTHING_TO_SAVE,
       Boots!EXIT_CAPTURE_INCOMPLETE
<1>4. BootFinalTypes' /\ BootFlushTypes' /\ FlushLocked' /\ StopsClosed' /\ CompleteIsTrue'
  BY <1>0 DEF Boots!FinalCapture, Boots!At, Boots!FinalCode, BootFinalTypes, BootFlushTypes, FlushLocked,
       StopsClosed, CompleteIsTrue
<1> QED BY <1>1, <1>2, <1>3, <1>4 DEF BootInv

(* BeginShutdown keeps the invariant.                                      *)
LEMMA BootBeginShutdown ==
  ASSUME BootInv, Boots!BeginShutdown
  PROVE  BootInv'
<1>0. /\ SupervisorTypes /\ BootFinalTypes /\ BootFlushTypes /\ FlushLocked /\ EngineFirst
      /\ StopsClosed /\ CompleteIsTrue /\ CodesAreTrue
  BY DEF BootInv
<1>1. SupervisorTypes'
  BY <1>0 DEF Boots!BeginShutdown, Boots!At, SupervisorTypes
<1>2. EngineFirst'
  BY <1>0 DEF Boots!BeginShutdown, Boots!At, EngineFirst, SupervisorTypes, BootFinalTypes, BootFlushTypes,
       FlushLocked, Boots!Requesters
<1>3. CodesAreTrue'
  BY <1>0 DEF Boots!BeginShutdown, Boots!At, CodesAreTrue, CodeIsTrue, SupervisorTypes, BootFinalTypes,
       CompleteIsTrue, EngineFirst, StopsClosed, BootFlushTypes, Boots!EXIT_NOTHING_TO_SAVE,
       Boots!EXIT_CAPTURE_INCOMPLETE
<1>4. BootFinalTypes' /\ BootFlushTypes' /\ FlushLocked' /\ StopsClosed' /\ CompleteIsTrue'
  BY <1>0 DEF Boots!BeginShutdown, Boots!At, BootFinalTypes, BootFlushTypes, FlushLocked, StopsClosed,
       CompleteIsTrue
<1> QED BY <1>1, <1>2, <1>3, <1>4 DEF BootInv

(* Exit keeps the invariant.                                               *)
LEMMA BootExit ==
  ASSUME BootInv, Boots!Exit
  PROVE  BootInv'
<1>0. /\ SupervisorTypes /\ BootFinalTypes /\ BootFlushTypes /\ FlushLocked /\ EngineFirst
      /\ StopsClosed /\ CompleteIsTrue /\ CodesAreTrue
  BY DEF BootInv
<1>1. SupervisorTypes'
  BY <1>0 DEF Boots!Exit, Boots!At, SupervisorTypes
<1>2. EngineFirst'
  BY <1>0 DEF Boots!Exit, Boots!At, EngineFirst, SupervisorTypes, BootFinalTypes, BootFlushTypes, FlushLocked,
       Boots!Requesters
<1>3. CodesAreTrue'
  BY <1>0 DEF Boots!Exit, Boots!At, CodesAreTrue, CodeIsTrue, SupervisorTypes, BootFinalTypes,
       CompleteIsTrue, EngineFirst, StopsClosed, BootFlushTypes, Boots!EXIT_NOTHING_TO_SAVE,
       Boots!EXIT_CAPTURE_INCOMPLETE
<1>4. BootFinalTypes' /\ BootFlushTypes' /\ FlushLocked' /\ StopsClosed' /\ CompleteIsTrue'
  BY <1>0 DEF Boots!Exit, Boots!At, BootFinalTypes, BootFlushTypes, FlushLocked, StopsClosed, CompleteIsTrue
<1> QED BY <1>1, <1>2, <1>3, <1>4 DEF BootInv

(* ProcessExits keeps the invariant.                                       *)
LEMMA BootProcessExits ==
  ASSUME BootInv, Boots!ProcessExits
  PROVE  BootInv'
<1>0. /\ SupervisorTypes /\ BootFinalTypes /\ BootFlushTypes /\ FlushLocked /\ EngineFirst
      /\ StopsClosed /\ CompleteIsTrue /\ CodesAreTrue
  BY DEF BootInv
<1>1. SupervisorTypes'
  BY <1>0 DEF Boots!ProcessExits, Boots!Alive, Boots!At, SupervisorTypes
<1>2. EngineFirst'
  BY <1>0 DEF Boots!ProcessExits, Boots!Alive, Boots!At, EngineFirst, SupervisorTypes, BootFinalTypes,
       BootFlushTypes, FlushLocked, Boots!Requesters
<1>3. CodesAreTrue'
  BY <1>0 DEF Boots!ProcessExits, Boots!Alive, Boots!At, CodesAreTrue, CodeIsTrue, SupervisorTypes,
       BootFinalTypes, CompleteIsTrue, EngineFirst, StopsClosed, BootFlushTypes, Boots!EXIT_NOTHING_TO_SAVE,
       Boots!EXIT_CAPTURE_INCOMPLETE
<1>4. BootFinalTypes' /\ BootFlushTypes' /\ FlushLocked' /\ StopsClosed' /\ CompleteIsTrue'
  BY <1>0 DEF Boots!ProcessExits, Boots!Alive, Boots!At, BootFinalTypes, BootFlushTypes, FlushLocked,
       StopsClosed, CompleteIsTrue
<1> QED BY <1>1, <1>2, <1>3, <1>4 DEF BootInv

(* ControlEnds keeps the invariant.                                        *)
LEMMA BootControlEnds ==
  ASSUME BootInv, Boots!ControlEnds
  PROVE  BootInv'
<1>0. /\ SupervisorTypes /\ BootFinalTypes /\ BootFlushTypes /\ FlushLocked /\ EngineFirst
      /\ StopsClosed /\ CompleteIsTrue /\ CodesAreTrue
  BY DEF BootInv
<1>1. SupervisorTypes'
  BY <1>0 DEF Boots!ControlEnds, Boots!Fault, SupervisorTypes
<1>2. EngineFirst'
  BY <1>0 DEF Boots!ControlEnds, Boots!Fault, EngineFirst, SupervisorTypes, BootFinalTypes, BootFlushTypes,
       FlushLocked, Boots!Requesters
<1>3. CodesAreTrue'
  BY <1>0 DEF Boots!ControlEnds, Boots!Fault, CodesAreTrue, CodeIsTrue, SupervisorTypes, BootFinalTypes,
       CompleteIsTrue, EngineFirst, StopsClosed, BootFlushTypes, Boots!EXIT_NOTHING_TO_SAVE,
       Boots!EXIT_CAPTURE_INCOMPLETE
<1>4. BootFinalTypes' /\ BootFlushTypes' /\ FlushLocked' /\ StopsClosed' /\ CompleteIsTrue'
  BY <1>0 DEF Boots!ControlEnds, Boots!Fault, BootFinalTypes, BootFlushTypes, FlushLocked, StopsClosed,
       CompleteIsTrue
<1> QED BY <1>1, <1>2, <1>3, <1>4 DEF BootInv

(* Sigterm keeps the invariant.                                            *)
LEMMA BootSigterm ==
  ASSUME BootInv, Boots!Sigterm
  PROVE  BootInv'
<1>0. /\ SupervisorTypes /\ BootFinalTypes /\ BootFlushTypes /\ FlushLocked /\ EngineFirst
      /\ StopsClosed /\ CompleteIsTrue /\ CodesAreTrue
  BY DEF BootInv
<1>1. SupervisorTypes'
  BY <1>0 DEF Boots!Sigterm, Boots!Cutoff, Boots!Limit, SupervisorTypes
<1>2. BootFinalTypes'
  BY <1>0 DEF Boots!Sigterm, Boots!Cutoff, Boots!Limit, BootFinalTypes, Boots!Requesters
<1>3. BootFlushTypes'
  BY <1>0 DEF Boots!Sigterm, Boots!Cutoff, Boots!Limit, BootFlushTypes, Boots!Requesters
<1>4. FlushLocked'
  BY <1>0 DEF Boots!Sigterm, Boots!Cutoff, Boots!Limit, FlushLocked, BootFinalTypes, BootFlushTypes,
       Boots!Requesters
<1>5. EngineFirst'
  BY <1>0 DEF Boots!Sigterm, Boots!Cutoff, Boots!Limit, EngineFirst, SupervisorTypes, BootFinalTypes,
       BootFlushTypes, FlushLocked, Boots!Requesters
<1>6. StopsClosed'
  BY <1>0 DEF Boots!Sigterm, Boots!Cutoff, Boots!Limit, StopsClosed, BootFinalTypes, BootFlushTypes,
       FlushLocked, EngineFirst, Boots!Requesters
<1>7. CompleteIsTrue'
  BY <1>0 DEF Boots!Sigterm, Boots!Cutoff, Boots!Limit, CompleteIsTrue, BootFinalTypes, EngineFirst,
       BootFlushTypes, StopsClosed, Boots!Requesters
<1>8. CodesAreTrue'
  BY <1>0 DEF Boots!Sigterm, Boots!Cutoff, Boots!Limit, CodesAreTrue, CodeIsTrue, SupervisorTypes,
       BootFinalTypes, CompleteIsTrue, EngineFirst, StopsClosed, BootFlushTypes, Boots!EXIT_NOTHING_TO_SAVE,
       Boots!EXIT_CAPTURE_INCOMPLETE
<1> QED BY <1>1, <1>2, <1>3, <1>4, <1>5, <1>6, <1>7, <1>8 DEF BootInv

(* GracefulShutdown keeps the invariant.                                   *)
LEMMA BootGracefulShutdown ==
  ASSUME BootInv, Boots!GracefulShutdown
  PROVE  BootInv'
<1>0. /\ SupervisorTypes /\ BootFinalTypes /\ BootFlushTypes /\ FlushLocked /\ EngineFirst
      /\ StopsClosed /\ CompleteIsTrue /\ CodesAreTrue
  BY DEF BootInv
<1>1. BootFinalTypes'
  BY <1>0 DEF Boots!GracefulShutdown, Boots!Cutoff, Boots!Limit, BootFinalTypes, Boots!Requesters
<1>2. BootFlushTypes'
  BY <1>0 DEF Boots!GracefulShutdown, Boots!Cutoff, Boots!Limit, BootFlushTypes, Boots!Requesters
<1>3. FlushLocked'
  BY <1>0 DEF Boots!GracefulShutdown, Boots!Cutoff, Boots!Limit, FlushLocked, BootFinalTypes, BootFlushTypes,
       Boots!Requesters
<1>4. EngineFirst'
  BY <1>0 DEF Boots!GracefulShutdown, Boots!Cutoff, Boots!Limit, EngineFirst, SupervisorTypes,
       BootFinalTypes, BootFlushTypes, FlushLocked, Boots!Requesters
<1>5. StopsClosed'
  BY <1>0 DEF Boots!GracefulShutdown, Boots!Cutoff, Boots!Limit, StopsClosed, BootFinalTypes, BootFlushTypes,
       FlushLocked, EngineFirst, Boots!Requesters
<1>6. CompleteIsTrue'
  BY <1>0 DEF Boots!GracefulShutdown, Boots!Cutoff, Boots!Limit, CompleteIsTrue, BootFinalTypes,
       EngineFirst, BootFlushTypes, StopsClosed, Boots!Requesters
<1>7. CodesAreTrue'
  BY <1>0 DEF Boots!GracefulShutdown, Boots!Cutoff, Boots!Limit, CodesAreTrue, CodeIsTrue,
       SupervisorTypes, BootFinalTypes, CompleteIsTrue, EngineFirst, StopsClosed, BootFlushTypes,
       Boots!EXIT_NOTHING_TO_SAVE, Boots!EXIT_CAPTURE_INCOMPLETE
<1>8. SupervisorTypes'
  BY <1>0 DEF Boots!GracefulShutdown, Boots!Cutoff, Boots!Limit, SupervisorTypes
<1> QED BY <1>1, <1>2, <1>3, <1>4, <1>5, <1>6, <1>7, <1>8 DEF BootInv

(* CaptureFlush keeps the invariant.                                       *)
LEMMA BootCaptureFlush ==
  ASSUME BootInv, Boots!CaptureFlush
  PROVE  BootInv'
<1>0. /\ SupervisorTypes /\ BootFinalTypes /\ BootFlushTypes /\ FlushLocked /\ EngineFirst
      /\ StopsClosed /\ CompleteIsTrue /\ CodesAreTrue
  BY DEF BootInv
<1>1. BootFlushTypes'
  BY <1>0 DEF Boots!CaptureFlush, BootFlushTypes, Boots!Requesters
<1>2. FlushLocked'
  BY <1>0 DEF Boots!CaptureFlush, FlushLocked, BootFinalTypes, BootFlushTypes, Boots!Requesters
<1>3. StopsClosed'
  BY <1>0 DEF Boots!CaptureFlush, StopsClosed, BootFinalTypes, BootFlushTypes, FlushLocked, EngineFirst,
       Boots!Requesters
<1>4. SupervisorTypes' /\ BootFinalTypes' /\ EngineFirst' /\ CompleteIsTrue' /\ CodesAreTrue'
  BY <1>0 DEF Boots!CaptureFlush, CodeIsTrue, SupervisorTypes, BootFinalTypes, EngineFirst, CompleteIsTrue,
       CodesAreTrue
<1> QED BY <1>1, <1>2, <1>3, <1>4 DEF BootInv

(* RuntimeKill keeps the invariant.                                        *)
LEMMA BootRuntimeKill ==
  ASSUME BootInv, Boots!RuntimeKill
  PROVE  BootInv'
<1>0. /\ SupervisorTypes /\ BootFinalTypes /\ BootFlushTypes /\ FlushLocked /\ EngineFirst
      /\ StopsClosed /\ CompleteIsTrue /\ CodesAreTrue
  BY DEF BootInv
<1>1. SupervisorTypes'
  BY <1>0 DEF Boots!RuntimeKill, SupervisorTypes
<1>2. EngineFirst'
  BY <1>0 DEF Boots!RuntimeKill, EngineFirst, SupervisorTypes, BootFinalTypes, BootFlushTypes, FlushLocked,
       Boots!Requesters
<1>3. CodesAreTrue'
  BY <1>0 DEF Boots!RuntimeKill, CodesAreTrue, CodeIsTrue, SupervisorTypes, BootFinalTypes, CompleteIsTrue,
       EngineFirst, StopsClosed, BootFlushTypes, Boots!EXIT_NOTHING_TO_SAVE, Boots!EXIT_CAPTURE_INCOMPLETE
<1>4. BootFinalTypes' /\ BootFlushTypes' /\ FlushLocked' /\ StopsClosed' /\ CompleteIsTrue'
  BY <1>0 DEF Boots!RuntimeKill, BootFinalTypes, BootFlushTypes, FlushLocked, StopsClosed, CompleteIsTrue
<1> QED BY <1>1, <1>2, <1>3, <1>4 DEF BootInv

(* AdmitWriter keeps the invariant.                                        *)
LEMMA BootAdmitWriter ==
  ASSUME BootInv, Boots!AdmitWriter
  PROVE  BootInv'
<1>0. /\ SupervisorTypes /\ BootFinalTypes /\ BootFlushTypes /\ FlushLocked /\ EngineFirst
      /\ StopsClosed /\ CompleteIsTrue /\ CodesAreTrue
  BY DEF BootInv
<1>1. BootFinalTypes'
  BY <1>0 DEF Boots!AdmitWriter, BootFinalTypes, Boots!Requesters
<1>2. FlushLocked'
  BY <1>0 DEF Boots!AdmitWriter, FlushLocked, BootFinalTypes, BootFlushTypes, Boots!Requesters
<1>3. EngineFirst'
  BY <1>0 DEF Boots!AdmitWriter, EngineFirst, SupervisorTypes, BootFinalTypes, BootFlushTypes, FlushLocked,
       Boots!Requesters
<1>4. StopsClosed'
  BY <1>0 DEF Boots!AdmitWriter, StopsClosed, BootFinalTypes, BootFlushTypes, FlushLocked, EngineFirst,
       Boots!Requesters
<1>5. CompleteIsTrue'
  BY <1>0 DEF Boots!AdmitWriter, CompleteIsTrue, BootFinalTypes, EngineFirst, BootFlushTypes, StopsClosed,
       Boots!Requesters
<1>6. CodesAreTrue'
  BY <1>0 DEF Boots!AdmitWriter, CodesAreTrue, CodeIsTrue, SupervisorTypes, BootFinalTypes, CompleteIsTrue,
       EngineFirst, StopsClosed, BootFlushTypes, Boots!EXIT_NOTHING_TO_SAVE, Boots!EXIT_CAPTURE_INCOMPLETE
<1>7. SupervisorTypes' /\ BootFlushTypes'
  BY <1>0 DEF Boots!AdmitWriter, SupervisorTypes, BootFlushTypes
<1> QED BY <1>1, <1>2, <1>3, <1>4, <1>5, <1>6, <1>7 DEF BootInv

(* CutoffPasses keeps the invariant.                                       *)
LEMMA BootCutoffPasses ==
  ASSUME BootInv, Boots!CutoffPasses
  PROVE  BootInv'
<1>0. /\ SupervisorTypes /\ BootFinalTypes /\ BootFlushTypes /\ FlushLocked /\ EngineFirst
      /\ StopsClosed /\ CompleteIsTrue /\ CodesAreTrue
  BY DEF BootInv
<1>1. BootFinalTypes'
  BY <1>0 DEF Boots!CutoffPasses, BootFinalTypes, Boots!Requesters
<1>2. FlushLocked'
  BY <1>0 DEF Boots!CutoffPasses, FlushLocked, BootFinalTypes, BootFlushTypes, Boots!Requesters
<1>3. EngineFirst'
  BY <1>0 DEF Boots!CutoffPasses, EngineFirst, SupervisorTypes, BootFinalTypes, BootFlushTypes, FlushLocked,
       Boots!Requesters
<1>4. StopsClosed'
  BY <1>0 DEF Boots!CutoffPasses, StopsClosed, BootFinalTypes, BootFlushTypes, FlushLocked, EngineFirst,
       Boots!Requesters
<1>5. CompleteIsTrue'
  BY <1>0 DEF Boots!CutoffPasses, CompleteIsTrue, BootFinalTypes, EngineFirst, BootFlushTypes, StopsClosed,
       Boots!Requesters
<1>6. CodesAreTrue'
  BY <1>0 DEF Boots!CutoffPasses, CodesAreTrue, CodeIsTrue, SupervisorTypes, BootFinalTypes, CompleteIsTrue,
       EngineFirst, StopsClosed, BootFlushTypes, Boots!EXIT_NOTHING_TO_SAVE, Boots!EXIT_CAPTURE_INCOMPLETE
<1>7. SupervisorTypes' /\ BootFlushTypes'
  BY <1>0 DEF Boots!CutoffPasses, SupervisorTypes, BootFlushTypes
<1> QED BY <1>1, <1>2, <1>3, <1>4, <1>5, <1>6, <1>7 DEF BootInv

(* OrphanReleases keeps the invariant.                                     *)
LEMMA BootOrphanReleases ==
  ASSUME BootInv, Boots!OrphanReleases
  PROVE  BootInv'
<1>0. /\ SupervisorTypes /\ BootFinalTypes /\ BootFlushTypes /\ FlushLocked /\ EngineFirst
      /\ StopsClosed /\ CompleteIsTrue /\ CodesAreTrue
  BY DEF BootInv
<1>1. BootFinalTypes'
  BY <1>0 DEF Boots!OrphanReleases, BootFinalTypes, Boots!Requesters
<1>2. FlushLocked'
  BY <1>0 DEF Boots!OrphanReleases, FlushLocked, BootFinalTypes, BootFlushTypes, Boots!Requesters
<1>3. EngineFirst'
  BY <1>0 DEF Boots!OrphanReleases, EngineFirst, SupervisorTypes, BootFinalTypes, BootFlushTypes, FlushLocked,
       Boots!Requesters
<1>4. StopsClosed'
  BY <1>0 DEF Boots!OrphanReleases, StopsClosed, BootFinalTypes, BootFlushTypes, FlushLocked, EngineFirst,
       Boots!Requesters
<1>5. CompleteIsTrue'
  BY <1>0 DEF Boots!OrphanReleases, CompleteIsTrue, BootFinalTypes, EngineFirst, BootFlushTypes, StopsClosed,
       Boots!Requesters
<1>6. CodesAreTrue'
  BY <1>0 DEF Boots!OrphanReleases, CodesAreTrue, CodeIsTrue, SupervisorTypes, BootFinalTypes,
       CompleteIsTrue, EngineFirst, StopsClosed, BootFlushTypes, Boots!EXIT_NOTHING_TO_SAVE,
       Boots!EXIT_CAPTURE_INCOMPLETE
<1>7. SupervisorTypes' /\ BootFlushTypes'
  BY <1>0 DEF Boots!OrphanReleases, SupervisorTypes, BootFlushTypes
<1> QED BY <1>1, <1>2, <1>3, <1>4, <1>5, <1>6, <1>7 DEF BootInv

(* NoEngine keeps the invariant.                                           *)
LEMMA BootNoEngine ==
  ASSUME BootInv, NEW r \in Boots!Requesters, Boots!NoEngine(r)
  PROVE  BootInv'
<1>0. /\ SupervisorTypes /\ BootFinalTypes /\ BootFlushTypes /\ FlushLocked /\ EngineFirst
      /\ StopsClosed /\ CompleteIsTrue /\ CodesAreTrue
  BY DEF BootInv
<1>1. SupervisorTypes'
  BY <1>0 DEF Boots!NoEngine, Boots!Ended, SupervisorTypes
<1>2. BootFinalTypes'
  BY <1>0 DEF Boots!NoEngine, Boots!Ended, BootFinalTypes, Boots!Requesters
<1>3. BootFlushTypes'
  BY <1>0 DEF Boots!NoEngine, Boots!Ended, BootFlushTypes, Boots!Requesters
<1>4. FlushLocked'
  BY <1>0 DEF Boots!NoEngine, Boots!Ended, FlushLocked, BootFinalTypes, BootFlushTypes, Boots!Requesters
<1>5. EngineFirst'
  BY <1>0 DEF Boots!NoEngine, Boots!Ended, EngineFirst, SupervisorTypes, BootFinalTypes, BootFlushTypes,
       FlushLocked, Boots!Requesters
<1>6. StopsClosed'
  BY <1>0 DEF Boots!NoEngine, Boots!Ended, StopsClosed, BootFinalTypes, BootFlushTypes, FlushLocked,
       EngineFirst, Boots!Requesters
<1>7. CompleteIsTrue'
  BY <1>0 DEF Boots!NoEngine, Boots!Ended, CompleteIsTrue, BootFinalTypes, EngineFirst, BootFlushTypes,
       StopsClosed, Boots!Requesters
<1>8. CodesAreTrue'
  BY <1>0 DEF Boots!NoEngine, Boots!Ended, CodesAreTrue, CodeIsTrue, SupervisorTypes, BootFinalTypes,
       CompleteIsTrue, EngineFirst, StopsClosed, BootFlushTypes, Boots!EXIT_NOTHING_TO_SAVE,
       Boots!EXIT_CAPTURE_INCOMPLETE
<1> QED BY <1>1, <1>2, <1>3, <1>4, <1>5, <1>6, <1>7, <1>8 DEF BootInv

(* TakeLock keeps the invariant.                                           *)
LEMMA BootTakeLock ==
  ASSUME BootInv, NEW r \in Boots!Requesters, Boots!TakeLock(r)
  PROVE  BootInv'
<1>0. /\ SupervisorTypes /\ BootFinalTypes /\ BootFlushTypes /\ FlushLocked /\ EngineFirst
      /\ StopsClosed /\ CompleteIsTrue /\ CodesAreTrue
  BY DEF BootInv
<1>1. BootFinalTypes'
  BY <1>0 DEF Boots!TakeLock, Boots!Quiesced, BootFinalTypes, Boots!Requesters
<1>2. BootFlushTypes'
  BY <1>0 DEF Boots!TakeLock, Boots!Quiesced, BootFlushTypes, Boots!Requesters
<1>3. FlushLocked'
  BY <1>0 DEF Boots!TakeLock, Boots!Quiesced, FlushLocked, BootFinalTypes, BootFlushTypes, Boots!Requesters
<1>4. EngineFirst'
  BY <1>0 DEF Boots!TakeLock, Boots!Quiesced, EngineFirst, SupervisorTypes, BootFinalTypes, BootFlushTypes,
       FlushLocked, Boots!Requesters
<1>5. StopsClosed'
  BY <1>0 DEF Boots!TakeLock, Boots!Quiesced, StopsClosed, BootFinalTypes, BootFlushTypes, FlushLocked,
       EngineFirst, Boots!Requesters
<1>6. CompleteIsTrue'
  BY <1>0 DEF Boots!TakeLock, Boots!Quiesced, CompleteIsTrue, BootFinalTypes, EngineFirst, BootFlushTypes,
       StopsClosed, Boots!Requesters
<1>7. CodesAreTrue'
  BY <1>0 DEF Boots!TakeLock, Boots!Quiesced, CodesAreTrue, CodeIsTrue, SupervisorTypes, BootFinalTypes,
       CompleteIsTrue, EngineFirst, StopsClosed, BootFlushTypes, Boots!EXIT_NOTHING_TO_SAVE,
       Boots!EXIT_CAPTURE_INCOMPLETE
<1>8. SupervisorTypes'
  BY <1>0 DEF Boots!TakeLock, Boots!Quiesced, SupervisorTypes
<1> QED BY <1>1, <1>2, <1>3, <1>4, <1>5, <1>6, <1>7, <1>8 DEF BootInv

(* StopWriters keeps the invariant.                                        *)
LEMMA BootStopWriters ==
  ASSUME BootInv, NEW r \in Boots!Requesters, Boots!StopWriters(r)
  PROVE  BootInv'
<1>0. /\ SupervisorTypes /\ BootFinalTypes /\ BootFlushTypes /\ FlushLocked /\ EngineFirst
      /\ StopsClosed /\ CompleteIsTrue /\ CodesAreTrue
  BY DEF BootInv
<1>1. SupervisorTypes'
  BY <1>0 DEF Boots!StopWriters, SupervisorTypes
<1>2. BootFinalTypes'
  BY <1>0 DEF Boots!StopWriters, BootFinalTypes, Boots!Requesters
<1>3. BootFlushTypes'
  BY <1>0 DEF Boots!StopWriters, BootFlushTypes, Boots!Requesters
<1>4. FlushLocked'
  BY <1>0 DEF Boots!StopWriters, FlushLocked, BootFinalTypes, BootFlushTypes, Boots!Requesters
<1>5. EngineFirst'
  BY <1>0 DEF Boots!StopWriters, EngineFirst, SupervisorTypes, BootFinalTypes, BootFlushTypes, FlushLocked,
       Boots!Requesters
<1>6. StopsClosed'
  BY <1>0 DEF Boots!StopWriters, StopsClosed, BootFinalTypes, BootFlushTypes, FlushLocked, EngineFirst,
       Boots!Requesters
<1>7. CompleteIsTrue'
  BY <1>0 DEF Boots!StopWriters, CompleteIsTrue, BootFinalTypes, EngineFirst, BootFlushTypes, StopsClosed,
       Boots!Requesters
<1>8. CodesAreTrue'
  BY <1>0 DEF Boots!StopWriters, CodesAreTrue, CodeIsTrue, SupervisorTypes, BootFinalTypes, CompleteIsTrue,
       EngineFirst, StopsClosed, BootFlushTypes, Boots!EXIT_NOTHING_TO_SAVE, Boots!EXIT_CAPTURE_INCOMPLETE
<1> QED BY <1>1, <1>2, <1>3, <1>4, <1>5, <1>6, <1>7, <1>8 DEF BootInv

(* Nothing keeps the invariant.                                            *)
LEMMA BootNothing ==
  ASSUME BootInv, NEW r \in Boots!Requesters, Boots!Nothing(r)
  PROVE  BootInv'
<1>0. /\ SupervisorTypes /\ BootFinalTypes /\ BootFlushTypes /\ FlushLocked /\ EngineFirst
      /\ StopsClosed /\ CompleteIsTrue /\ CodesAreTrue
  BY DEF BootInv
<1>1. SupervisorTypes'
  BY <1>0 DEF Boots!Nothing, Boots!Ended, Boots!Release, SupervisorTypes
<1>2. BootFinalTypes'
  BY <1>0 DEF Boots!Nothing, Boots!Ended, Boots!Release, BootFinalTypes, Boots!Requesters
<1>3. BootFlushTypes'
  BY <1>0 DEF Boots!Nothing, Boots!Ended, Boots!Release, BootFlushTypes, Boots!Requesters
<1>4. FlushLocked'
  BY <1>0 DEF Boots!Nothing, Boots!Ended, Boots!Release, FlushLocked, BootFinalTypes, BootFlushTypes,
       Boots!Requesters
<1>5. EngineFirst'
  BY <1>0 DEF Boots!Nothing, Boots!Ended, Boots!Release, EngineFirst, SupervisorTypes, BootFinalTypes,
       BootFlushTypes, FlushLocked, Boots!Requesters
<1>6. StopsClosed'
  BY <1>0 DEF Boots!Nothing, Boots!Ended, Boots!Release, StopsClosed, BootFinalTypes, BootFlushTypes,
       FlushLocked, EngineFirst, Boots!Requesters
<1>7. CompleteIsTrue'
  BY <1>0 DEF Boots!Nothing, Boots!Ended, Boots!Release, CompleteIsTrue, BootFinalTypes, EngineFirst,
       BootFlushTypes, StopsClosed, Boots!Requesters
<1>8. CodesAreTrue'
  BY <1>0 DEF Boots!Nothing, Boots!Ended, Boots!Release, CodesAreTrue, CodeIsTrue, SupervisorTypes,
       BootFinalTypes, CompleteIsTrue, EngineFirst, StopsClosed, BootFlushTypes, Boots!EXIT_NOTHING_TO_SAVE,
       Boots!EXIT_CAPTURE_INCOMPLETE
<1> QED BY <1>1, <1>2, <1>3, <1>4, <1>5, <1>6, <1>7, <1>8 DEF BootInv

(* Save keeps the invariant.                                               *)
LEMMA BootSave ==
  ASSUME BootInv, NEW r \in Boots!Requesters, Boots!Save(r)
  PROVE  BootInv'
<1>0. /\ SupervisorTypes /\ BootFinalTypes /\ BootFlushTypes /\ FlushLocked /\ EngineFirst
      /\ StopsClosed /\ CompleteIsTrue /\ CodesAreTrue
  BY DEF BootInv
<1>a. PICK f \in Boots!Saves(w2) : Boots!Ended(r, f) BY DEF Boots!Save
<1>b. /\ f.lock = "free" /\ f.claim = w2.claim /\ f.closed = w2.closed /\ f.quiesced = w2.quiesced
      /\ f.cutoff = w2.cutoff /\ f.engine = w2.engine /\ f.last \in {"complete", "incomplete"}
      /\ DOMAIN f = DOMAIN w2
      /\ f.last = "complete" => w2.quiesced = "clean" /\ f.saved
      /\ f.saved = w2.saved \/ f.saved
  BY <1>0 DEF Boots!Saves, Boots!Quiesced, BootFinalTypes
<1>c. w2' = f /\ w3' = [w3 EXCEPT ![r] = "ended"] BY <1>a DEF Boots!Ended
<1>d. w3[r] = "saving" /\ w2.claim = "claimed" BY DEF Boots!Save
<1>e. w2.lock = r /\ w2.engine BY <1>0, <1>d DEF FlushLocked, EngineFirst, Boots!Requesters
<1>f. w1'.stage = w1.stage /\ w1'.code = w1.code /\ w1'.exit = w1.exit
  BY <1>0, <1>a DEF Boots!Ended, SupervisorTypes
<1>1. SupervisorTypes'
  BY <1>0 DEF Boots!Save, Boots!Ended, Boots!Saves, Boots!Quiesced, SupervisorTypes
<1>2. BootFinalTypes'
  BY <1>0, <1>b, <1>c, <1>d, <1>e, <1>f DEF BootFinalTypes, Boots!Requesters
<1>3. BootFlushTypes'
  BY <1>0 DEF Boots!Save, Boots!Ended, Boots!Saves, Boots!Quiesced, BootFlushTypes, Boots!Requesters
<1>4. FlushLocked'
  BY <1>0, <1>b, <1>c, <1>d, <1>e, <1>f DEF FlushLocked, BootFinalTypes, BootFlushTypes, Boots!Requesters
<1>5. EngineFirst'
  BY <1>0, <1>b, <1>c, <1>d, <1>e, <1>f DEF EngineFirst, SupervisorTypes, BootFinalTypes, BootFlushTypes,
       FlushLocked, Boots!Requesters
<1>6. StopsClosed'
  BY <1>0, <1>b, <1>c, <1>d, <1>e, <1>f DEF StopsClosed, BootFinalTypes, BootFlushTypes, FlushLocked,
       EngineFirst, Boots!Requesters
<1>7. CompleteIsTrue'
  BY <1>0, <1>b, <1>c, <1>d, <1>e, <1>f DEF CompleteIsTrue, BootFinalTypes, EngineFirst, BootFlushTypes,
       StopsClosed, Boots!Requesters
<1>8. CodesAreTrue'
  BY <1>0, <1>b, <1>c, <1>d, <1>f DEF CodesAreTrue, CodeIsTrue
<1> QED BY <1>1, <1>2, <1>3, <1>4, <1>5, <1>6, <1>7, <1>8 DEF BootInv

(* CutShort keeps the invariant.                                           *)
LEMMA BootCutShort ==
  ASSUME BootInv, NEW r \in Boots!Requesters, Boots!CutShort(r)
  PROVE  BootInv'
<1>0. /\ SupervisorTypes /\ BootFinalTypes /\ BootFlushTypes /\ FlushLocked /\ EngineFirst
      /\ StopsClosed /\ CompleteIsTrue /\ CodesAreTrue
  BY DEF BootInv
<1>1. SupervisorTypes'
  BY <1>0 DEF Boots!CutShort, Boots!Ended, Boots!Bounded, SupervisorTypes
<1>2. BootFinalTypes'
  BY <1>0 DEF Boots!CutShort, Boots!Ended, Boots!Bounded, BootFinalTypes, Boots!Requesters
<1>3. BootFlushTypes'
  BY <1>0 DEF Boots!CutShort, Boots!Ended, Boots!Bounded, BootFlushTypes, Boots!Requesters
<1>4. FlushLocked'
  BY <1>0 DEF Boots!CutShort, Boots!Ended, Boots!Bounded, FlushLocked, BootFinalTypes, BootFlushTypes,
       Boots!Requesters
<1>5. EngineFirst'
  BY <1>0 DEF Boots!CutShort, Boots!Ended, Boots!Bounded, EngineFirst, SupervisorTypes, BootFinalTypes,
       BootFlushTypes, FlushLocked, Boots!Requesters
<1>6. StopsClosed'
  BY <1>0 DEF Boots!CutShort, Boots!Ended, Boots!Bounded, StopsClosed, BootFinalTypes, BootFlushTypes,
       FlushLocked, EngineFirst, Boots!Requesters
<1>7. CompleteIsTrue'
  BY <1>0 DEF Boots!CutShort, Boots!Ended, Boots!Bounded, CompleteIsTrue, BootFinalTypes, EngineFirst,
       BootFlushTypes, StopsClosed, Boots!Requesters
<1>8. CodesAreTrue'
  BY <1>0 DEF Boots!CutShort, Boots!Ended, Boots!Bounded, CodesAreTrue, CodeIsTrue, SupervisorTypes,
       BootFinalTypes, CompleteIsTrue, EngineFirst, StopsClosed, BootFlushTypes, Boots!EXIT_NOTHING_TO_SAVE,
       Boots!EXIT_CAPTURE_INCOMPLETE
<1> QED BY <1>1, <1>2, <1>3, <1>4, <1>5, <1>6, <1>7, <1>8 DEF BootInv

(* The invariant holds at the start.                                       *)
LEMMA BootInitial ==
  ASSUME Boots!BootInit
  PROVE  BootInv
BY DEF Boots!BootInit, BootInv, SupervisorTypes, BootFinalTypes, BootFlushTypes, FlushLocked, EngineFirst,
     StopsClosed, CompleteIsTrue, CodesAreTrue, Boots!Requesters

(* Every step keeps the invariant.                                         *)
LEMMA BootStep ==
  ASSUME BootInv, Boots!BootNext
  PROVE  BootInv'
BY BootPrepareFails, BootPrepared, BootBindsFail, BootStartCapture, BootDotfiles, BootFrontends,
     BootStepStarts, BootStepEnds, BootLaunchHarness, BootSupervise, BootExitAsks, BootFinalCapture,
     BootBeginShutdown, BootExit, BootProcessExits, BootControlEnds, BootSigterm, BootGracefulShutdown,
     BootCaptureFlush, BootRuntimeKill, BootAdmitWriter, BootCutoffPasses, BootOrphanReleases,
     BootNoEngine, BootTakeLock, BootStopWriters, BootNothing, BootSave,
     BootCutShort DEF Boots!BootNext, Boots!Supervisor

(* The invariant is strong enough.                                         *)
LEMMA BootInvImplies ==
  ASSUME BootInv
  PROVE  Boots!BootTypeOK /\ Boots!ExitCodeIsTrue
BY DEF BootInv, SupervisorTypes, BootFinalTypes, BootFlushTypes, CodesAreTrue, CodeIsTrue, Boots!BootTypeOK,
     Boots!ExitCodeIsTrue, Boots!At, Boots!EXIT_NOTHING_TO_SAVE, Boots!EXIT_CAPTURE_INCOMPLETE

BootPart == part = "boot" => BootInv

(* The invariant is about these variables alone.                           *)
LEMMA BootStutters ==
  ASSUME BootInv, UNCHANGED <<w1, w2, w3>>
  PROVE  BootInv'
BY DEF BootInv, SupervisorTypes, BootFinalTypes, BootFlushTypes, FlushLocked, EngineFirst, StopsClosed,
     CompleteIsTrue, CodeIsTrue, CodesAreTrue, Boots!EXIT_CAPTURE_INCOMPLETE,
     Boots!EXIT_NOTHING_TO_SAVE, Boots!Requesters

(* Whatever part runs, this one keeps its invariant.                       *)
LEMMA BootAlways ==
  ASSUME BootPart, [LifecycleNext]_partVars
  PROVE  BootPart'
<1> SUFFICES ASSUME part' = "boot" PROVE BootInv'
  BY DEF BootPart
<1>1. part = "boot"
  BY DEF LifecycleNext, partVars
<1>2. BootInv
  BY <1>1 DEF BootPart
<1>3. CASE Boots!BootNext
  BY <1>2, <1>3, BootStep
<1>4. CASE UNCHANGED <<w1, w2, w3>>
  BY <1>2, <1>4, BootStutters
<1> QED BY <1>1, <1>3, <1>4 DEF LifecycleNext, partVars, From1, From3, From4, From5, From6, From7,
     From8, From10, From12, From13, From15, From17

(* The exit code of the daemon is true of the workspace, for any orders    *)
(* and faults (boot/mod.rs supervise and exit, runtime.rs final_flush): it *)
(* says saved only of a disk saved with its writers stopped, and nothing   *)
(* to save only of a standby that was released unclaimed.                  *)
THEOREM BootCorrect == LifecycleSpec => []ExitCodeIsTrue
<1>1. LifecycleInit => BootPart
  BY BootInitial DEF LifecycleInit, BootPart
<1>2. BootPart /\ [LifecycleNext]_partVars => BootPart'
  BY BootAlways
<1>3. BootPart => ExitCodeIsTrue
  BY BootInvImplies DEF ExitCodeIsTrue, BootPart
<1> QED BY <1>1, <1>2, <1>3, PTL DEF LifecycleSpec

-------------------------------------------------------------------------------
(* Executor: w1 to w12 are the executor's variables in the order of its    *)
(* module.                                                                 *)

StagedCapture == [capture : Nat, parent : Nat, worktree : Executors!Worktree, epoch : Nat, holds : Nat]
(* Where an engine runs, and where a boot has no engine yet.               *)
UpSteps == {"up", "final", "replanning", "rebase", "released"}
BootSteps == {"plan", "pickup", "restore", "restoring", "record", "mark"}
(* Neither a re-plan nor an empty chain was taken over a half restored     *)
(* disk.                                                                   *)
Plainly == w6 \cap {"restored", "bare"} = {}

ExecutorChainTypes ==
  /\ {"placeholder", "session", "next"} \subseteq DOMAIN w1
  /\ w2 \in Executors!Worktree /\ w1.next \in Nat \ {0}
  /\ \A w \in Executors!Worktree : /\ {"head", "epoch", "free"} \subseteq DOMAIN w1[w]
                         /\ w1[w].head \in Nat /\ w1[w].epoch \in Nat
                         /\ w1[w].head < w1.next
ExecutorDiskTypes ==
  /\ {"dir", "staging", "marker", "partial", "mat", "last", "queue"} \subseteq DOMAIN w3
  /\ w3.dir \in {"absent", "lock", "used"}
QueueTypes == w3.queue \in Seq(StagedCapture)
QueueBefore ==
  \A i \in 1 .. Len(w3.queue) :
    w3.queue[i].capture < w1.next /\ w3.queue[i].parent < w1.next
LastTypes ==
  /\ "capture" \in DOMAIN w3.last /\ w3.last.capture \in Nat /\ w3.last.capture < w1.next
  /\ w3.last # Executors!Nil =>
       /\ {"worktree", "launch"} \subseteq DOMAIN w3.last
       /\ w3.last.worktree \in Executors!Worktree /\ w3.last.launch = Executors!LaunchOf(w3.last.worktree)
       /\ w3.last.worktree = "session" => w2 = "session"
BootTypes ==
  /\ {"recovery", "first", "resumed", "plan"} \subseteq DOMAIN w8
  /\ {"worktree", "epoch", "head", "launch"} \subseteq DOMAIN w8.plan
  /\ w8.plan.worktree \in Executors!Worktree /\ w8.plan.head \in Nat /\ w8.plan.epoch \in Nat
  /\ w8.plan.worktree = "session" => w2 = "session"
  /\ w8.plan.head < w1.next
PlanLaunch == w7 \notin {"down", "plan"} => w8.plan.launch = Executors!LaunchOf(w8.plan.worktree)
EngineTypes ==
  /\ {"worktree", "epoch", "launch", "previous", "staged"} \subseteq DOMAIN w9
  /\ w9.worktree \in Executors!Worktree /\ w9.epoch \in Nat /\ w9.previous \in Nat
  /\ w9.worktree = "session" => w2 = "session"
  /\ w9.previous < w1.next
StagedTypes ==
  "capture" \in DOMAIN w9.staged /\ w9.staged.capture \in Nat /\ w9.staged.capture < w1.next
EngineUp ==
  /\ w9.staged # Executors!Nil => w7 \in UpSteps
  /\ w7 \in UpSteps => w9.launch = Executors!LaunchOf(w9.worktree)
Counts == w4 \in Nat /\ w5 \in Nat /\ w5 <= w4
ExitCodes ==
  w11 \in {-1, 0, 1, Executors!EXIT_CAPTURE_INCOMPLETE, Executors!EXIT_NOTHING_TO_SAVE,
       Executors!EXIT_STORE_UNFIT}
(* The session wrote nothing yet: the signs of it.                         *)
Unwritten ==
  /\ w3.dir # "used" \/ ~w3.staging \/ w3.marker => w4 = 0
  /\ w8.first /\ w7 \in BootSteps => w4 = 0
  /\ w7 = "released" => w4 = 0
  /\ w7 \in UpSteps => w3.dir = "used" /\ w3.staging
ClaimTypes ==
  /\ w10 \in {"unclaimed", "claimed", "released"}
  /\ w10 = "unclaimed" => w3.marker
  /\ w10 = "released" <=> w7 = "released"
Destroyed == Executors!DestroyIsSafe
(* The last capture of a final flush holds every write, and leaves the     *)
(* queue only when the chain holds it.                                     *)
FinalHolds ==
  w7 = "final" =>
    /\ w3.queue = <<>> => w5 = w4
    /\ w3.queue # <<>> =>
         LET newest == w3.queue[Len(w3.queue)]
         IN  /\ newest.holds = w4
             /\ w5 = w4 \/ w1[newest.worktree].head # newest.capture
             /\ \A i \in 1 .. Len(w3.queue) - 1 : w3.queue[i].capture # newest.capture
(* What is half restored has no record of a completed materialize.         *)
PartialUnrecorded ==
  /\ w3.partial => w3.mat = Executors!Nil /\ w3.dir = "used"
  /\ w7 = "record" => ~w3.partial
(* What the disk staged continues this head of this worktree.              *)
Continues(w, h) ==
  /\ w3.last # Executors!Nil /\ w3.last.worktree = w
  /\ \/ w3.last.capture = h
     \/ \E i \in 1 .. Len(w3.queue) :
          w3.queue[i].worktree = w /\ (h = w3.queue[i].parent \/ h = w3.queue[i].capture)
(* A disk is half restored only up to the end of the restore, and only     *)
(* when nothing on it continues the head.                                  *)
PartialBefore ==
  /\ Plainly /\ w3.partial => w7 \notin {"record", "mark", "open", "up", "final", "rebase", "released"}
  /\ w7 = "replanning" => ~Plainly
PartialStale == Plainly /\ w3.partial => ~Continues(w2, w1[w2].head)
PlanStale ==
  /\ w7 = "pickup" /\ Plainly /\ w3.partial => ~Continues(w8.plan.worktree, w8.plan.head)
  /\ w7 = "pickup" /\ Continues(w2, w1[w2].head) =>
       w8.plan.worktree = w2 /\ w8.plan.head = w1[w2].head
  /\ w7 \in {"restore", "restoring"} => ~Continues(w2, w1[w2].head)

ExecutorInv ==
  /\ ExecutorChainTypes
  /\ ExecutorDiskTypes
  /\ QueueTypes
  /\ QueueBefore
  /\ LastTypes
  /\ BootTypes
  /\ PlanLaunch
  /\ EngineTypes
  /\ StagedTypes
  /\ EngineUp
  /\ Counts
  /\ ExitCodes
  /\ Unwritten
  /\ ClaimTypes
  /\ Destroyed
  /\ FinalHolds
  /\ PartialUnrecorded
  /\ PartialBefore
  /\ PartialStale
  /\ PlanStale

(* What a daemon that has not begun to boot knows: nothing.                *)
LEMMA NoBootIs ==
  /\ {"recovery", "first", "resumed", "plan"} \subseteq DOMAIN Executors!NoBoot
  /\ {"worktree", "epoch", "head", "launch"} \subseteq DOMAIN Executors!NoBoot.plan
  /\ Executors!NoBoot.plan.worktree = "placeholder" /\ Executors!NoBoot.plan.head = 0 /\ Executors!NoBoot.plan.epoch = 0
  /\ ~Executors!NoBoot.first
BY DEF Executors!NoBoot, Executors!NoPlan

(* What an engine that was never opened holds: nothing.                    *)
LEMMA NoEngineIs ==
  /\ {"worktree", "epoch", "launch", "previous", "staged"} \subseteq DOMAIN Executors!NoEngine
  /\ Executors!NoEngine.worktree = "placeholder" /\ Executors!NoEngine.epoch = 0 /\ Executors!NoEngine.previous = 0
  /\ Executors!NoEngine.staged = Executors!Nil /\ "capture" \in DOMAIN Executors!NoEngine.staged /\ Executors!NoEngine.staged.capture = 0
BY DEF Executors!NoEngine, Executors!Nil

(* What is kept of a queue was on it.                                      *)
LEMMA OwnQueueIs ==
  ASSUME QueueTypes, NEW own \in Executors!OwnQueue
  PROVE  /\ own \in Seq(StagedCapture)
         /\ \A i \in 1 .. Len(own) : \E j \in 1 .. Len(w3.queue) : own[i] = w3.queue[j]
<1> DEFINE staged == {i \in DOMAIN w3.queue : /\ w3.queue[i].worktree = w8.plan.worktree
                                                /\ w3.queue[i].epoch = w8.plan.epoch}
<1>a. PICK o \in UNION {[1 .. n -> staged] : n \in 0 .. Len(w3.queue)} :
        own = [i \in DOMAIN o |-> w3.queue[o[i]]]
  BY DEF Executors!OwnQueue
<1>b. PICK n \in 0 .. Len(w3.queue) : o \in [1 .. n -> staged] OBVIOUS
<1>1. o \in [1 .. n -> DOMAIN w3.queue] BY <1>b
<1>2. n \in Nat /\ DOMAIN w3.queue = 1 .. Len(w3.queue)
  BY DEF QueueTypes
<1>3. own = [i \in 1 .. n |-> w3.queue[o[i]]] BY <1>a, <1>b
<1>4. \A i \in 1 .. n : o[i] \in 1 .. Len(w3.queue) /\ own[i] = w3.queue[o[i]] BY <1>1, <1>2, <1>3
<1>5. \A i \in 1 .. n : own[i] \in StagedCapture BY <1>4 DEF QueueTypes
<1>6. own \in Seq(StagedCapture) /\ Len(own) = n BY <1>2, <1>3, <1>5
<1> QED BY <1>4, <1>6

(* At most the lock file is new on the disk.                               *)
SameDisk ==
  /\ DOMAIN w3' = DOMAIN w3 /\ w3'.dir \in {"absent", "lock", "used"}
  /\ w3'.dir = "used" <=> w3.dir = "used"
  /\ w3'.staging = w3.staging /\ w3'.marker = w3.marker /\ w3'.partial = w3.partial
  /\ w3'.mat = w3.mat /\ w3'.last = w3.last /\ w3'.queue = w3.queue

(* Making the lock file changes nothing else on the disk.                  *)
LEMMA SameDiskIs ==
  ASSUME ExecutorDiskTypes, w3' = w3 \/ w3' = [w3 EXCEPT !.dir = IF @ = "absent" THEN "lock" ELSE @]
  PROVE  SameDisk
BY DEF ExecutorDiskTypes, SameDisk

(* A daemon that ends leaves the invariant, when its code is true.         *)
LEMMA ExecutorEnding ==
  ASSUME ExecutorInv, NEW code, Executors!Ends(code), SameDisk, UNCHANGED <<w1, w2, w4, w5, w6>>,
         code \in {-1, 0, 1, Executors!EXIT_CAPTURE_INCOMPLETE, Executors!EXIT_NOTHING_TO_SAVE,
              Executors!EXIT_STORE_UNFIT},
         code \in {0, Executors!EXIT_NOTHING_TO_SAVE} => w4 = w5
  PROVE  ExecutorInv'
<1>0. /\ ExecutorChainTypes /\ ExecutorDiskTypes /\ QueueTypes /\ QueueBefore /\ LastTypes /\ Counts /\ Unwritten
      /\ PartialUnrecorded /\ PartialBefore /\ PartialStale
  BY DEF ExecutorInv
<1>1. /\ w7' = "down" /\ w11' = code /\ w8' = Executors!NoBoot /\ w9' = Executors!NoEngine /\ w10' = "claimed"
      /\ w1' = w1 /\ w2' = w2 /\ w4' = w4 /\ w5' = w5
      /\ w6' = w6
  BY DEF Executors!Ends
<1>2. /\ ExecutorChainTypes' /\ ExecutorDiskTypes' /\ QueueTypes' /\ QueueBefore' /\ LastTypes' /\ Counts'
  BY <1>0, <1>1 DEF SameDisk, ExecutorChainTypes, ExecutorDiskTypes, QueueTypes, QueueBefore, LastTypes,
       Counts
<1>3. BootTypes' /\ PlanLaunch'
  BY <1>0, <1>1, NoBootIs DEF ExecutorChainTypes, BootTypes, PlanLaunch, Executors!Worktree
<1>4. EngineTypes' /\ StagedTypes' /\ EngineUp'
  BY <1>0, <1>1, NoEngineIs DEF ExecutorChainTypes, EngineTypes, StagedTypes, EngineUp,
       Executors!Worktree, UpSteps
<1>5. Unwritten' /\ ClaimTypes'
  BY <1>0, <1>1, NoBootIs DEF SameDisk, Unwritten, ClaimTypes, BootSteps, UpSteps
<1>6. ExitCodes' BY <1>1 DEF ExitCodes
<1>7. Destroyed' BY <1>1 DEF Destroyed, Executors!DestroyIsSafe
<1>8. FinalHolds' BY <1>1 DEF FinalHolds
<1>9. PartialUnrecorded' /\ PartialBefore'
  BY <1>0, <1>1 DEF SameDisk, PartialUnrecorded, PartialBefore, Plainly
<1>10. PartialStale' BY <1>0, <1>1 DEF SameDisk, PartialStale, Plainly, Continues
<1>11. PlanStale' BY <1>1 DEF PlanStale
<1> QED BY <1>2, <1>3, <1>4, <1>5, <1>6, <1>7, <1>8, <1>9, <1>10, <1>11 DEF ExecutorInv

(* Failing keeps the invariant.                                            *)
LEMMA ExecutorFailing ==
  ASSUME ExecutorInv, Executors!Fails, UNCHANGED <<w1, w2, w3, w4, w5, w6>>
  PROVE  ExecutorInv'
<1>1. PICK code \in {1, Executors!EXIT_CAPTURE_INCOMPLETE} : Executors!Ends(code) BY DEF Executors!Fails
<1>2. code \notin {0, Executors!EXIT_NOTHING_TO_SAVE}
  BY DEF Executors!EXIT_CAPTURE_INCOMPLETE, Executors!EXIT_NOTHING_TO_SAVE
<1>s. SameDisk BY SameDiskIs DEF ExecutorInv
<1> QED BY <1>s, <1>1, <1>2, ExecutorEnding

(* SeqOne keeps the invariant.                                             *)
LEMMA ExecutorSeqOne ==
  ASSUME NEW S, NEW s \in Seq(S), NEW a \in S
  PROVE  /\ Append(s, a) \in Seq(S) /\ Len(Append(s, a)) = Len(s) + 1
         /\ \A i \in 1 .. Len(s) : Append(s, a)[i] = s[i]
         /\ Append(s, a)[Len(s) + 1] = a
OBVIOUS

(* SeqDrop keeps the invariant.                                            *)
LEMMA ExecutorSeqDrop ==
  ASSUME NEW S, NEW s \in Seq(S), s # << >>
  PROVE  /\ Tail(s) \in Seq(S) /\ Len(s) \in Nat \ {0} /\ Len(Tail(s)) = Len(s) - 1
         /\ \A i \in 1 .. (Len(s) - 1) : Tail(s)[i] = s[i + 1]
OBVIOUS

(* What is queued.                                                         *)
LEMMA QueuedIs ==
  ASSUME QueueTypes
  PROVE  /\ DOMAIN w3.queue = 1 .. Len(w3.queue) /\ Len(w3.queue) \in Nat
         /\ w3.queue # <<>> => Len(w3.queue) \in 1 .. Len(w3.queue)
         /\ \A i \in 1 .. Len(w3.queue) :
              /\ w3.queue[i].capture \in Nat /\ w3.queue[i].parent \in Nat /\ w3.queue[i].holds \in Nat
              /\ w3.queue[i].worktree \in Executors!Worktree
<1>1. \A i \in 1 .. Len(w3.queue) : w3.queue[i] \in StagedCapture BY DEF QueueTypes
<1>2. DOMAIN w3.queue = 1 .. Len(w3.queue) /\ Len(w3.queue) \in Nat BY DEF QueueTypes
<1>3. w3.queue # <<>> => Len(w3.queue) \in 1 .. Len(w3.queue) BY <1>2 DEF QueueTypes
<1> QED BY <1>1, <1>2, <1>3 DEF StagedCapture

(* A capture put on the queue, and the oldest taken off it.                *)
LEMMA QueueGrows ==
  ASSUME QueueTypes, NEW c \in StagedCapture, w3'.queue = Append(w3.queue, c)
  PROVE  /\ w3'.queue \in Seq(StagedCapture) /\ Len(w3'.queue) = Len(w3.queue) + 1
         /\ \A i \in 1 .. Len(w3.queue) : w3'.queue[i] = w3.queue[i]
         /\ w3'.queue[Len(w3.queue) + 1] = c
BY ExecutorSeqOne DEF QueueTypes

(* What is left of the queue once its head is shipped.                     *)
LEMMA QueueShrinks ==
  ASSUME QueueTypes, w3.queue # <<>>, w3'.queue = Tail(w3.queue)
  PROVE  /\ w3'.queue \in Seq(StagedCapture) /\ Len(w3'.queue) = Len(w3.queue) - 1
         /\ Len(w3.queue) \in Nat \ {0}
         /\ \A i \in 1 .. Len(w3.queue) - 1 : w3'.queue[i] = w3.queue[i + 1]
BY ExecutorSeqDrop DEF QueueTypes

(* A disk resumes when what it staged continues the plan's head.           *)
LEMMA ResumesIs ==
  ASSUME QueueTypes, LastTypes, PlanLaunch, BootTypes, w7 = "pickup"
  PROVE  Executors!Resumes <=> Continues(w8.plan.worktree, w8.plan.head)
<1>1. w3.last # Executors!Nil /\ w3.last.worktree = w8.plan.worktree => w3.last.launch = w8.plan.launch
  BY DEF LastTypes, PlanLaunch
<1> QED BY <1>1, QueuedIs DEF Executors!Resumes, Continues

(* The tail of a sequence of two or more ends as it does.                  *)
LEMMA TailKeepsLast ==
  ASSUME NEW q, NEW r, NEW n \in Nat \ {0}, Len(q) = n, n # 1, Len(r) = n - 1,
         \A i \in 1 .. n - 1 : r[i] = q[i + 1]
  PROVE  /\ Len(r) \in Nat \ {0} /\ r[Len(r)] = q[Len(q)]
         /\ \A i \in 1 .. Len(r) - 1 : r[i] = q[i + 1]
         /\ \A i \in 1 .. Len(r) - 1 : i + 1 \in 1 .. Len(q) - 1
<1>1. n - 1 \in 1 .. n - 1 /\ (n - 1) + 1 = n
  OBVIOUS
<1> QED BY <1>1

(* Assign keeps the invariant.                                             *)
LEMMA ExecutorAssign ==
  ASSUME ExecutorInv, Executors!Assign
  PROVE  ExecutorInv'
<1>0. /\ ExecutorChainTypes /\ ExecutorDiskTypes /\ QueueTypes /\ QueueBefore /\ LastTypes /\ BootTypes
      /\ PlanLaunch /\ EngineTypes /\ StagedTypes /\ EngineUp /\ Counts /\ ExitCodes
      /\ Unwritten /\ ClaimTypes /\ Destroyed /\ FinalHolds /\ PartialUnrecorded
      /\ PartialBefore /\ PartialStale /\ PlanStale
  BY DEF ExecutorInv
<1>c. /\ DOMAIN w1' = DOMAIN w1 /\ w1'.next = w1.next
      /\ w1'["placeholder"] = w1["placeholder"]
      /\ DOMAIN w1'["session"] = DOMAIN w1["session"]
      /\ w1'["session"].head = w1["session"].head /\ w1'["session"].epoch = w1["session"].epoch + 1
      /\ w2' = "session"
  BY <1>0 DEF Executors!Assign, ExecutorChainTypes, Executors!Worktree
<1>h. \A w \in Executors!Worktree : w1'[w].head = w1[w].head BY <1>c DEF Executors!Worktree
<1>u. UNCHANGED <<w3, w4, w5, w6, w7, w8, w9, w10, w11, w12>> BY DEF Executors!Assign
<1>1. ExecutorChainTypes'
  BY <1>0, <1>c DEF ExecutorChainTypes, Executors!Worktree
<1>2. QueueBefore'
  BY <1>0 DEF Executors!Assign, QueueBefore, ExecutorChainTypes, ExecutorDiskTypes, BootTypes,
       QueueTypes, EngineTypes,
       StagedCapture, Executors!Worktree
<1>3. LastTypes'
  BY <1>0 DEF Executors!Assign, LastTypes, ExecutorDiskTypes, EngineTypes, StagedTypes, EngineUp,
       ExecutorChainTypes,
       Executors!Nil, Executors!Worktree
<1>4. BootTypes'
  BY <1>0, NoBootIs DEF Executors!Assign, BootTypes, ExecutorChainTypes, Executors!Worktree
<1>5. EngineTypes'
  BY <1>0, NoEngineIs DEF Executors!Assign, EngineTypes, ExecutorChainTypes, BootTypes, Executors!Worktree
<1>6. StagedTypes'
  BY <1>0, NoEngineIs DEF Executors!Assign, StagedTypes, ExecutorChainTypes, EngineTypes
<1>7. FinalHolds'
  BY <1>0, <1>h, <1>u, QueuedIs DEF FinalHolds
<1>8. PartialStale'
  BY <1>0 DEF Executors!Assign, PartialStale, Plainly, Continues, PartialBefore, LastTypes, QueueTypes,
       QueueBefore, ExecutorChainTypes, ExecutorDiskTypes, PlanStale, Executors!Worktree, StagedCapture
<1>9. PlanStale'
  BY <1>0 DEF Executors!Assign, PlanStale, Plainly, Continues, PartialStale, PartialBefore, LastTypes,
       QueueTypes, QueueBefore, ExecutorChainTypes, ExecutorDiskTypes, BootTypes, Executors!Worktree,
            StagedCapture
<1>10. /\ ExecutorDiskTypes' /\ QueueTypes' /\ PlanLaunch' /\ EngineUp' /\ Counts' /\ ExitCodes'
       /\ Unwritten' /\ ClaimTypes' /\ Destroyed' /\ PartialUnrecorded' /\ PartialBefore'
  BY <1>0, <1>u DEF ExecutorDiskTypes, QueueTypes, PlanLaunch, EngineUp, Counts, ExitCodes, Unwritten,
       ClaimTypes, Destroyed, PartialUnrecorded, PartialBefore, Continues, Plainly, Executors!DestroyIsSafe
<1> QED BY <1>1, <1>2, <1>3, <1>4, <1>5, <1>6, <1>7, <1>8, <1>9, <1>10 DEF ExecutorInv

(* TakenOver keeps the invariant.                                          *)
LEMMA ExecutorTakenOver ==
  ASSUME ExecutorInv, Executors!TakenOver
  PROVE  ExecutorInv'
<1>0. /\ ExecutorChainTypes /\ ExecutorDiskTypes /\ QueueTypes /\ QueueBefore /\ LastTypes /\ BootTypes
      /\ PlanLaunch /\ EngineTypes /\ StagedTypes /\ EngineUp /\ Counts /\ ExitCodes
      /\ Unwritten /\ ClaimTypes /\ Destroyed /\ FinalHolds /\ PartialUnrecorded
      /\ PartialBefore /\ PartialStale /\ PlanStale
  BY DEF ExecutorInv
<1>a. PICK head \in {w1["session"].head, w1.next} :
        w1' = [w1 EXCEPT !["session"] = [head |-> head, epoch |-> @.epoch + 1, free |-> TRUE],
                               !.next = @ + 1]
  BY DEF Executors!TakenOver
<1>c. /\ DOMAIN w1' = DOMAIN w1 /\ w1'.next = w1.next + 1
      /\ w1'["placeholder"] = w1["placeholder"]
      /\ DOMAIN w1'["session"] = {"head", "epoch", "free"}
      /\ w1'["session"].head = head /\ w1'["session"].epoch = w1["session"].epoch + 1
  BY <1>0, <1>a DEF ExecutorChainTypes, Executors!Worktree
<1>h. \A w \in Executors!Worktree : w1'[w].head = w1[w].head \/ w1'[w].head = w1.next
  BY <1>c DEF Executors!Worktree
<1>n. w1.next \in Nat BY <1>0 DEF ExecutorChainTypes
<1>u. UNCHANGED <<w2, w3, w4, w5, w6, w7, w8, w9, w10, w11>> BY DEF Executors!TakenOver
<1>1. ExecutorChainTypes'
  <2>1. w1["session"].head \in Nat /\ w1["session"].head < w1.next BY <1>0 DEF ExecutorChainTypes,
       Executors!Worktree
  <2>2. head \in Nat /\ head < w1.next + 1 BY <1>n, <2>1
  <2> QED BY <1>0, <1>c, <1>u, <2>2 DEF ExecutorChainTypes, Executors!Worktree
<1>2. QueueBefore'
  BY <1>0, <1>c, <1>n, <1>u, QueuedIs DEF QueueBefore
<1>3. LastTypes'
  BY <1>0, <1>c, <1>n, <1>u DEF LastTypes
<1>4. BootTypes'
  BY <1>0, <1>c, <1>n, <1>u DEF BootTypes
<1>5. EngineTypes'
  BY <1>0, <1>c, <1>n, <1>u DEF EngineTypes
<1>6. StagedTypes'
  BY <1>0, <1>c, <1>n, <1>u DEF StagedTypes, EngineTypes
<1>7. FinalHolds'
  <2>1. w3.queue # <<>> =>
          /\ w3.queue[Len(w3.queue)].worktree \in Executors!Worktree
          /\ w3.queue[Len(w3.queue)].capture # w1.next
    BY <1>0, <1>n, QueuedIs DEF QueueBefore
  <2> QED BY <1>0, <1>h, <1>u, <2>1 DEF FinalHolds
<1>8. PartialStale'
  <2>1. ~Continues(w2, w1.next)
    <3>1. w3.last.capture # w1.next
      BY <1>0, <1>n DEF LastTypes
    <3>2. \A i \in 1 .. Len(w3.queue) :
            w3.queue[i].parent # w1.next /\ w3.queue[i].capture # w1.next
      BY <1>0, <1>n, QueuedIs DEF QueueBefore
    <3> QED BY <3>1, <3>2 DEF Continues
  <2>2. w1'[w2].head = w1[w2].head \/ w1'[w2].head = w1.next
    BY <1>0, <1>h DEF ExecutorChainTypes
  <2> QED BY <1>0, <1>u, <2>1, <2>2 DEF PartialStale, Plainly, Continues
<1>9. PlanStale'
  <2>1. ~Continues(w2, w1.next)
    <3>1. w3.last.capture # w1.next
      BY <1>0, <1>n DEF LastTypes
    <3>2. \A i \in 1 .. Len(w3.queue) :
            w3.queue[i].parent # w1.next /\ w3.queue[i].capture # w1.next
      BY <1>0, <1>n, QueuedIs DEF QueueBefore
    <3> QED BY <3>1, <3>2 DEF Continues
  <2>2. w1'[w2].head = w1[w2].head \/ w1'[w2].head = w1.next
    BY <1>0, <1>h DEF ExecutorChainTypes
  <2> QED BY <1>0, <1>u, <2>1, <2>2 DEF PlanStale, Plainly, Continues
<1>10. /\ ExecutorDiskTypes' /\ QueueTypes' /\ PlanLaunch' /\ EngineUp' /\ Counts' /\ ExitCodes'
       /\ Unwritten' /\ ClaimTypes' /\ Destroyed' /\ PartialUnrecorded' /\ PartialBefore'
  BY <1>0, <1>u DEF ExecutorDiskTypes, QueueTypes, PlanLaunch, EngineUp, Counts, ExitCodes, Unwritten,
       ClaimTypes, Destroyed, PartialUnrecorded, PartialBefore, Continues, Plainly, Executors!DestroyIsSafe
<1> QED BY <1>1, <1>2, <1>3, <1>4, <1>5, <1>6, <1>7, <1>8, <1>9, <1>10 DEF ExecutorInv

(* GivenBack keeps the invariant.                                          *)
LEMMA ExecutorGivenBack ==
  ASSUME ExecutorInv, Executors!GivenBack
  PROVE  ExecutorInv'
<1>0. /\ ExecutorChainTypes /\ ExecutorDiskTypes /\ QueueTypes /\ QueueBefore /\ LastTypes /\ BootTypes
      /\ PlanLaunch /\ EngineTypes /\ StagedTypes /\ EngineUp /\ Counts /\ ExitCodes
      /\ Unwritten /\ ClaimTypes /\ Destroyed /\ FinalHolds /\ PartialUnrecorded
      /\ PartialBefore /\ PartialStale /\ PlanStale
  BY DEF ExecutorInv
<1>c. /\ DOMAIN w1' = DOMAIN w1 /\ w1'.next = w1.next
      /\ w1'["placeholder"] = w1["placeholder"]
      /\ DOMAIN w1'["session"] = DOMAIN w1["session"]
      /\ w1'["session"].head = w1["session"].head /\ w1'["session"].epoch = w1["session"].epoch + 1
      /\ w2' = w2
  BY <1>0 DEF Executors!GivenBack, ExecutorChainTypes, Executors!Worktree
<1>h. \A w \in Executors!Worktree : w1'[w].head = w1[w].head BY <1>c DEF Executors!Worktree
<1>u. UNCHANGED <<w3, w4, w5, w6, w7, w8, w9, w10, w11, w12>> BY DEF Executors!GivenBack
<1>1. ExecutorChainTypes'
  BY <1>0, <1>c DEF ExecutorChainTypes, Executors!Worktree
<1>2. QueueBefore'
  BY <1>0 DEF Executors!GivenBack, QueueBefore, ExecutorChainTypes, ExecutorDiskTypes, BootTypes, QueueTypes,
       EngineTypes, StagedCapture, Executors!Worktree
<1>3. LastTypes'
  BY <1>0 DEF Executors!GivenBack, LastTypes, ExecutorDiskTypes, EngineTypes, StagedTypes, EngineUp,
       ExecutorChainTypes,
       Executors!Nil, Executors!Worktree
<1>4. BootTypes'
  BY <1>0, NoBootIs DEF Executors!GivenBack, BootTypes, ExecutorChainTypes, Executors!Worktree
<1>5. EngineTypes'
  BY <1>0, NoEngineIs DEF Executors!GivenBack, EngineTypes, ExecutorChainTypes, BootTypes, Executors!Worktree
<1>6. StagedTypes'
  BY <1>0, NoEngineIs DEF Executors!GivenBack, StagedTypes, ExecutorChainTypes, EngineTypes
<1>7. FinalHolds'
  BY <1>0, <1>h, <1>u, QueuedIs DEF FinalHolds
<1>8. PartialStale'
  BY <1>0 DEF Executors!GivenBack, PartialStale, Plainly, Continues, PartialBefore, LastTypes,
       QueueTypes, QueueBefore, ExecutorChainTypes, ExecutorDiskTypes, PlanStale, Executors!Worktree,
            StagedCapture
<1>9. PlanStale'
  BY <1>0 DEF Executors!GivenBack, PlanStale, Plainly, Continues, PartialStale, PartialBefore,
       LastTypes, QueueTypes, QueueBefore, ExecutorChainTypes, ExecutorDiskTypes, BootTypes,
            Executors!Worktree, StagedCapture
<1>10. /\ ExecutorDiskTypes' /\ QueueTypes' /\ PlanLaunch' /\ EngineUp' /\ Counts' /\ ExitCodes'
       /\ Unwritten' /\ ClaimTypes' /\ Destroyed' /\ PartialUnrecorded' /\ PartialBefore'
  BY <1>0, <1>u DEF ExecutorDiskTypes, QueueTypes, PlanLaunch, EngineUp, Counts, ExitCodes, Unwritten,
       ClaimTypes, Destroyed, PartialUnrecorded, PartialBefore, Continues, Plainly, Executors!DestroyIsSafe
<1> QED BY <1>1, <1>2, <1>3, <1>4, <1>5, <1>6, <1>7, <1>8, <1>9, <1>10 DEF ExecutorInv

(* Killed keeps the invariant.                                             *)
LEMMA ExecutorKilled ==
  ASSUME ExecutorInv, Executors!Killed
  PROVE  ExecutorInv'
<1>1. Executors!Ends(-1) /\ UNCHANGED <<w1, w2, w3, w4, w5, w6>> BY DEF Executors!Killed, Executors!ghosts
<1>2. -1 \notin {0, Executors!EXIT_NOTHING_TO_SAVE} BY DEF Executors!EXIT_NOTHING_TO_SAVE
<1>s. SameDisk BY <1>1, SameDiskIs DEF ExecutorInv
<1> QED BY <1>s, <1>1, <1>2, ExecutorEnding

(* StartsBoot keeps the invariant.                                         *)
LEMMA ExecutorStartsBoot ==
  ASSUME ExecutorInv, NEW recovery \in BOOLEAN, w7 = "down",
       w8' = [Executors!NoBoot EXCEPT !.recovery = recovery, !.first = ~ w3.staging], Executors!Goes("plan"),
         w3' = [w3 EXCEPT !.dir = IF @ = "absent" THEN "lock" ELSE @], UNCHANGED <<w1, w2, w4, w5, w6>>
  PROVE  ExecutorInv'
<1>0. /\ ExecutorChainTypes /\ ExecutorDiskTypes /\ QueueTypes /\ QueueBefore /\ LastTypes /\ BootTypes
      /\ PlanLaunch /\ EngineTypes /\ StagedTypes /\ EngineUp /\ Counts /\ ExitCodes
      /\ Unwritten /\ ClaimTypes /\ Destroyed /\ FinalHolds /\ PartialUnrecorded
      /\ PartialBefore /\ PartialStale /\ PlanStale
  BY DEF ExecutorInv
<1>1. ExecutorDiskTypes'
  BY <1>0 DEF Executors!Goes, ExecutorDiskTypes
<1>2. QueueTypes'
  BY <1>0 DEF Executors!Goes, QueueTypes, ExecutorDiskTypes, ExecutorChainTypes, EngineTypes, Counts,
       StagedCapture
<1>3. QueueBefore'
  BY <1>0 DEF Executors!Goes, QueueBefore, ExecutorChainTypes, ExecutorDiskTypes, BootTypes, QueueTypes,
       EngineTypes,
       StagedCapture, Executors!Worktree
<1>4. LastTypes'
  BY <1>0 DEF Executors!Goes, LastTypes, ExecutorDiskTypes, EngineTypes, StagedTypes, EngineUp,
       ExecutorChainTypes,
       Executors!Nil, Executors!Worktree
<1>5. BootTypes'
  BY <1>0, NoBootIs DEF Executors!Goes, BootTypes, ExecutorChainTypes, Executors!Worktree
<1>6. PlanLaunch'
  BY <1>0 DEF Executors!Goes, PlanLaunch, BootTypes
<1>7. EngineUp'
  BY <1>0, NoEngineIs DEF Executors!Goes, EngineUp, EngineTypes, StagedTypes, PlanLaunch, BootTypes, UpSteps
<1>8. Unwritten'
  BY <1>0, NoBootIs DEF Executors!Goes, Unwritten, ExecutorDiskTypes, BootTypes, ClaimTypes, BootSteps,
       UpSteps
<1>9. ClaimTypes'
  BY <1>0 DEF Executors!Goes, ClaimTypes, ExecutorDiskTypes
<1>10. Destroyed'
  BY <1>0 DEF Executors!Goes, Destroyed, Executors!DestroyIsSafe, Counts, Unwritten, FinalHolds,
       Executors!EXIT_CAPTURE_INCOMPLETE, Executors!EXIT_NOTHING_TO_SAVE, Executors!EXIT_STORE_UNFIT
<1>11. FinalHolds'
  BY <1>0 DEF Executors!Goes, FinalHolds, Counts, StagedCapture, Executors!Worktree
<1>12. PartialUnrecorded'
  BY <1>0 DEF Executors!Goes, PartialUnrecorded, ExecutorDiskTypes
<1>13. PartialBefore'
  BY <1>0 DEF Executors!Goes, PartialBefore, ExecutorDiskTypes, PartialUnrecorded, PlanStale, BootTypes,
       Plainly
<1>14. PartialStale'
  BY <1>0 DEF Executors!Goes, PartialStale, Plainly, Continues, PartialBefore, LastTypes, QueueTypes,
       QueueBefore, ExecutorChainTypes, ExecutorDiskTypes, PlanStale, Executors!Worktree, StagedCapture
<1>15. PlanStale'
  BY <1>0 DEF Executors!Goes, PlanStale, Plainly, Continues, PartialStale, PartialBefore, LastTypes,
       QueueTypes, QueueBefore, ExecutorChainTypes, ExecutorDiskTypes, BootTypes, Executors!Worktree,
            StagedCapture
<1>16. ExecutorChainTypes' /\ EngineTypes' /\ StagedTypes' /\ Counts' /\ ExitCodes'
  BY <1>0 DEF Executors!Goes, ExecutorChainTypes, EngineTypes, StagedTypes, Counts, ExitCodes, Continues,
       Plainly, Executors!DestroyIsSafe
<1> QED BY <1>1, <1>2, <1>3, <1>4, <1>5, <1>6, <1>7, <1>8, <1>9, <1>10, <1>11, <1>12, <1>13, <1>14,
     <1>15, <1>16 DEF ExecutorInv

(* StartBoot keeps the invariant.                                          *)
LEMMA ExecutorStartBoot ==
  ASSUME ExecutorInv, NEW recovery \in BOOLEAN, Executors!StartBoot(recovery)
  PROVE  ExecutorInv'
<1>1. /\ w7 = "down" /\ UNCHANGED <<w1, w2, w4, w5, w6>>
      /\ w3' = [w3 EXCEPT !.dir = IF @ = "absent" THEN "lock" ELSE @]
  BY DEF Executors!StartBoot, Executors!ghosts
<1>2. SameDisk BY <1>1, SameDiskIs DEF ExecutorInv
<1>3. ASSUME Executors!NeverMaterialized \/ w3.marker,
     Executors!Ends(Executors!EXIT_NOTHING_TO_SAVE) PROVE ExecutorInv'
  <2>1. w4 = w5 BY <1>3 DEF Executors!NeverMaterialized, ExecutorInv, Unwritten, Counts
  <2> QED BY <1>1, <1>2, <1>3, <2>1, ExecutorEnding
<1>4. ASSUME w8' = [Executors!NoBoot EXCEPT !.recovery = recovery, !.first = ~ w3.staging],
     Executors!Goes("plan")
      PROVE  ExecutorInv'
  BY <1>1, <1>4, ExecutorStartsBoot
<1> QED BY <1>3, <1>4 DEF Executors!StartBoot

(* PlanGet keeps the invariant.                                            *)
LEMMA ExecutorPlanGet ==
  ASSUME ExecutorInv, Executors!PlanGet
  PROVE  ExecutorInv'
<1>0. /\ ExecutorChainTypes /\ ExecutorDiskTypes /\ QueueTypes /\ QueueBefore /\ LastTypes /\ BootTypes
      /\ PlanLaunch /\ EngineTypes /\ StagedTypes /\ EngineUp /\ Counts /\ ExitCodes
      /\ Unwritten /\ ClaimTypes /\ Destroyed /\ FinalHolds /\ PartialUnrecorded
      /\ PartialBefore /\ PartialStale /\ PlanStale
  BY DEF ExecutorInv
<1>1. BootTypes'
  BY <1>0, NoBootIs DEF Executors!PlanGet, Executors!Plan, Executors!Goes, Executors!ghosts,
       Executors!Leased, BootTypes, ExecutorChainTypes, Executors!Worktree
<1>2. PlanLaunch'
  BY <1>0 DEF Executors!PlanGet, Executors!Plan, Executors!Goes, Executors!ghosts, Executors!Leased,
       PlanLaunch, BootTypes
<1>3. EngineUp'
  BY <1>0, NoEngineIs DEF Executors!PlanGet, Executors!Plan, Executors!Goes, Executors!ghosts,
       Executors!Leased, EngineUp, EngineTypes, StagedTypes, PlanLaunch, BootTypes, UpSteps
<1>4. Unwritten'
  BY <1>0, NoBootIs DEF Executors!PlanGet, Executors!Plan, Executors!Goes, Executors!ghosts,
       Executors!Leased, Unwritten, ExecutorDiskTypes, BootTypes, ClaimTypes, BootSteps, UpSteps
<1>5. ClaimTypes'
  BY <1>0 DEF Executors!PlanGet, Executors!Plan, Executors!Goes, Executors!ghosts, Executors!Leased,
       ClaimTypes, ExecutorDiskTypes
<1>6. Destroyed'
  BY <1>0 DEF Executors!PlanGet, Executors!Plan, Executors!Goes, Executors!ghosts, Executors!Leased,
       Destroyed, Executors!DestroyIsSafe, Counts, Unwritten, FinalHolds,
       Executors!EXIT_CAPTURE_INCOMPLETE, Executors!EXIT_NOTHING_TO_SAVE, Executors!EXIT_STORE_UNFIT
<1>7. FinalHolds'
  BY <1>0 DEF Executors!PlanGet, Executors!Plan, Executors!Goes, Executors!ghosts, Executors!Leased,
       FinalHolds, Counts, StagedCapture, Executors!Worktree
<1>8. PartialUnrecorded'
  BY <1>0 DEF Executors!PlanGet, Executors!Plan, Executors!Goes, Executors!ghosts, Executors!Leased,
       PartialUnrecorded, ExecutorDiskTypes
<1>9. PartialBefore'
  BY <1>0 DEF Executors!PlanGet, Executors!Plan, Executors!Goes, Executors!ghosts, Executors!Leased,
       PartialBefore, ExecutorDiskTypes, PartialUnrecorded, PlanStale, BootTypes, Plainly
<1>10. PlanStale'
  BY <1>0 DEF Executors!PlanGet, Executors!Plan, Executors!Goes, Executors!ghosts, Executors!Leased,
       PlanStale, Plainly, Continues, PartialStale, PartialBefore, LastTypes, QueueTypes, QueueBefore,
       ExecutorChainTypes, ExecutorDiskTypes, BootTypes, Executors!Worktree, StagedCapture
<1>11. /\ ExecutorChainTypes' /\ ExecutorDiskTypes' /\ QueueTypes' /\ QueueBefore' /\ LastTypes'
       /\ EngineTypes' /\ StagedTypes' /\ Counts' /\ ExitCodes' /\ PartialStale'
  BY <1>0 DEF Executors!PlanGet, Executors!Plan, Executors!Goes, Executors!ghosts, Executors!Leased,
       ExecutorChainTypes, ExecutorDiskTypes, QueueTypes, QueueBefore, LastTypes, EngineTypes,
            StagedTypes, Counts,
       ExitCodes, PartialStale, Continues, Plainly, Executors!DestroyIsSafe
<1> QED BY <1>1, <1>2, <1>3, <1>4, <1>5, <1>6, <1>7, <1>8, <1>9, <1>10, <1>11 DEF ExecutorInv

(* PlanRefused keeps the invariant.                                        *)
LEMMA ExecutorPlanRefused ==
  ASSUME ExecutorInv, Executors!PlanRefused
  PROVE  ExecutorInv'
<1>1. Executors!Fails \/ Executors!Ends(Executors!EXIT_STORE_UNFIT) BY DEF Executors!PlanRefused
<1>2. UNCHANGED <<w1, w2, w3, w4, w5, w6>> BY DEF Executors!PlanRefused, Executors!ghosts
<1>3. Executors!EXIT_STORE_UNFIT \notin {0,
     Executors!EXIT_NOTHING_TO_SAVE} BY DEF Executors!EXIT_STORE_UNFIT, Executors!EXIT_NOTHING_TO_SAVE
<1>s. SameDisk BY <1>2, SameDiskIs DEF ExecutorInv
<1> QED BY <1>s, <1>1, <1>2, <1>3, ExecutorEnding, ExecutorFailing

(* PickupResumes keeps the invariant.                                      *)
LEMMA ExecutorPickupResumes ==
  ASSUME ExecutorInv, w7 = "pickup", Executors!Resumes \/ (w8.recovery /\ Executors!HoldsHead),
       w8' = [w8 EXCEPT !.resumed = TRUE], Executors!Goes("open"),
         w6' = IF w8.plan.head = 0 /\ w3.partial THEN w6 \cup {"bare"} ELSE w6, UNCHANGED <<w3, w1, w2,
                                                                                            w4, w5>>
  PROVE  ExecutorInv'
<1>0. /\ ExecutorChainTypes /\ ExecutorDiskTypes /\ QueueTypes /\ QueueBefore /\ LastTypes /\ BootTypes
      /\ PlanLaunch /\ EngineTypes /\ StagedTypes /\ EngineUp /\ Counts /\ ExitCodes
      /\ Unwritten /\ ClaimTypes /\ Destroyed /\ FinalHolds /\ PartialUnrecorded
      /\ PartialBefore /\ PartialStale /\ PlanStale
  BY DEF ExecutorInv
<1>1. BootTypes'
  BY <1>0, NoBootIs DEF Executors!Goes, BootTypes, ExecutorChainTypes, Executors!Worktree
<1>2. PlanLaunch'
  BY <1>0 DEF Executors!Goes, PlanLaunch, BootTypes
<1>3. EngineUp'
  BY <1>0, NoEngineIs DEF Executors!Goes, EngineUp, EngineTypes, StagedTypes, PlanLaunch, BootTypes, UpSteps
<1>4. Unwritten'
  BY <1>0, NoBootIs DEF Executors!Goes, Unwritten, ExecutorDiskTypes, BootTypes, ClaimTypes, BootSteps,
       UpSteps
<1>5. ClaimTypes'
  BY <1>0 DEF Executors!Goes, ClaimTypes, ExecutorDiskTypes
<1>6. Destroyed'
  BY <1>0 DEF Executors!Goes, Destroyed, Executors!DestroyIsSafe, Counts, Unwritten, FinalHolds,
       Executors!EXIT_CAPTURE_INCOMPLETE, Executors!EXIT_NOTHING_TO_SAVE, Executors!EXIT_STORE_UNFIT
<1>7. FinalHolds'
  BY <1>0 DEF Executors!Goes, FinalHolds, Counts, StagedCapture, Executors!Worktree
<1>8. PartialUnrecorded'
  BY <1>0 DEF Executors!Goes, PartialUnrecorded, ExecutorDiskTypes
<1>9. PartialBefore'
  <2>1. Executors!Resumes => Continues(w8.plan.worktree, w8.plan.head) BY <1>0, ResumesIs
  <2>2. Executors!HoldsHead /\ w8.plan.head # 0 => w3.mat # Executors!Nil BY DEF Executors!HoldsHead
  <2>3. Plainly' => Plainly /\ ~(w8.plan.head = 0 /\ w3.partial) BY DEF Plainly
  <2>4. Plainly' => ~w3.partial BY <1>0, <2>1, <2>2, <2>3 DEF PlanStale, PartialUnrecorded
  <2> QED BY <2>4 DEF PartialBefore, Executors!Goes
<1>10. PartialStale'
  BY <1>0 DEF Executors!Goes, PartialStale, Plainly, Continues, PartialBefore, LastTypes, QueueTypes,
       QueueBefore, ExecutorChainTypes, ExecutorDiskTypes, PlanStale, Executors!Worktree, StagedCapture
<1>11. PlanStale'
  BY <1>0 DEF Executors!Goes, PlanStale, Plainly, Continues, PartialStale, PartialBefore, LastTypes,
       QueueTypes, QueueBefore, ExecutorChainTypes, ExecutorDiskTypes, BootTypes, Executors!Worktree,
            StagedCapture
<1>12. /\ ExecutorChainTypes' /\ ExecutorDiskTypes' /\ QueueTypes' /\ QueueBefore' /\ LastTypes'
       /\ EngineTypes' /\ StagedTypes' /\ Counts' /\ ExitCodes'
  BY <1>0 DEF Executors!Goes, ExecutorChainTypes, ExecutorDiskTypes, QueueTypes, QueueBefore, LastTypes,
       EngineTypes,
       StagedTypes, Counts, ExitCodes, Continues, Plainly, Executors!DestroyIsSafe
<1> QED BY <1>1, <1>2, <1>3, <1>4, <1>5, <1>6, <1>7, <1>8, <1>9, <1>10, <1>11, <1>12 DEF ExecutorInv

(* PickupFresh keeps the invariant.                                        *)
LEMMA ExecutorPickupFresh ==
  ASSUME ExecutorInv, w7 = "pickup", ~Executors!Resumes, w7' \in {"mark", "restore"},
       w7' = "mark" => w8.plan.head = 0, w3' = w3 \/ w3' = [w3 EXCEPT !.dir = "used"],
         w6' = IF w8.plan.head = 0 /\ w3.partial THEN w6 \cup {"bare"} ELSE w6, UNCHANGED <<w1, w2, w4,
                                                                                            w5, w8, w9,
                                                                                            w10, w11>>
  PROVE  ExecutorInv'
<1>0. /\ ExecutorChainTypes /\ ExecutorDiskTypes /\ QueueTypes /\ QueueBefore /\ LastTypes /\ BootTypes
      /\ PlanLaunch /\ EngineTypes /\ StagedTypes /\ EngineUp /\ Counts /\ ExitCodes
      /\ Unwritten /\ ClaimTypes /\ Destroyed /\ FinalHolds /\ PartialUnrecorded
      /\ PartialBefore /\ PartialStale /\ PlanStale
  BY DEF ExecutorInv
<1>1. ExecutorDiskTypes'
  BY <1>0 DEF ExecutorDiskTypes
<1>2. QueueTypes'
  BY <1>0 DEF QueueTypes, ExecutorDiskTypes, ExecutorChainTypes, EngineTypes, Counts, StagedCapture
<1>3. QueueBefore'
  BY <1>0 DEF QueueBefore, ExecutorChainTypes, ExecutorDiskTypes, BootTypes, QueueTypes, EngineTypes,
       StagedCapture,
       Executors!Worktree
<1>4. LastTypes'
  BY <1>0 DEF LastTypes, ExecutorDiskTypes, EngineTypes, StagedTypes, EngineUp, ExecutorChainTypes,
       Executors!Nil,
       Executors!Worktree
<1>5. PlanLaunch'
  BY <1>0 DEF PlanLaunch, BootTypes
<1>6. EngineUp'
  BY <1>0, NoEngineIs DEF EngineUp, EngineTypes, StagedTypes, PlanLaunch, BootTypes, UpSteps
<1>7. Unwritten'
  BY <1>0, NoBootIs DEF Unwritten, ExecutorDiskTypes, BootTypes, ClaimTypes, BootSteps, UpSteps
<1>8. ClaimTypes'
  BY <1>0 DEF ClaimTypes, ExecutorDiskTypes
<1>9. Destroyed'
  BY <1>0 DEF Destroyed, Executors!DestroyIsSafe, Counts, Unwritten, FinalHolds,
       Executors!EXIT_CAPTURE_INCOMPLETE, Executors!EXIT_NOTHING_TO_SAVE, Executors!EXIT_STORE_UNFIT
<1>10. FinalHolds'
  BY <1>0 DEF FinalHolds, Counts, StagedCapture, Executors!Worktree
<1>11. PartialUnrecorded'
  BY <1>0 DEF PartialUnrecorded, ExecutorDiskTypes
<1>12. PartialBefore'
  BY <1>0 DEF PartialBefore, ExecutorDiskTypes, PartialUnrecorded, PlanStale, BootTypes, Plainly
<1>13. PartialStale'
  BY <1>0 DEF PartialStale, Plainly, Continues, PartialBefore, LastTypes, QueueTypes, QueueBefore,
       ExecutorChainTypes, ExecutorDiskTypes, PlanStale, Executors!Worktree, StagedCapture
<1>14. PlanStale'
  <2>1. ~Continues(w8.plan.worktree, w8.plan.head) BY <1>0, ResumesIs
  <2>2. ~Continues(w2, w1[w2].head) BY <1>0, <2>1 DEF PlanStale
  <2>3. w3'.last = w3.last /\ w3'.queue = w3.queue BY <1>0 DEF ExecutorDiskTypes
  <2> QED BY <2>2, <2>3 DEF PlanStale, Continues
<1>15. ExecutorChainTypes' /\ BootTypes' /\ EngineTypes' /\ StagedTypes' /\ Counts' /\ ExitCodes'
  BY <1>0 DEF ExecutorChainTypes, BootTypes, EngineTypes, StagedTypes, Counts, ExitCodes, Continues, Plainly,
       Executors!DestroyIsSafe
<1> QED BY <1>1, <1>2, <1>3, <1>4, <1>5, <1>6, <1>7, <1>8, <1>9, <1>10, <1>11, <1>12, <1>13, <1>14,
     <1>15 DEF ExecutorInv

(* Pickup keeps the invariant.                                             *)
LEMMA ExecutorPickup ==
  ASSUME ExecutorInv, Executors!Pickup
  PROVE  ExecutorInv'
<1>1. /\ w6' = (IF w8.plan.head = 0 /\ w3.partial THEN w6 \cup {"bare"} ELSE w6)
      /\ UNCHANGED <<w1, w2, w4, w5>> /\ w7 = "pickup"
  BY DEF Executors!Pickup
<1>2. ASSUME Executors!Resumes \/ (w8.recovery /\ Executors!HoldsHead), w8' = [w8 EXCEPT !.resumed = TRUE],
             Executors!Goes("open"), UNCHANGED w3
      PROVE  ExecutorInv'
  BY <1>1, <1>2, ExecutorPickupResumes
<1>3. ASSUME w8.recovery, ~Executors!HoldsHead, Executors!Fails, UNCHANGED w3
      PROVE  ExecutorInv'
  <2>1. w8.plan.head = 0 => w3.dir # "used" BY <1>3 DEF Executors!HoldsHead
  <2>2. w3.partial => w3.dir = "used" BY DEF ExecutorInv, PartialUnrecorded
  <2>3. w6' = w6 BY <1>1, <2>1, <2>2
  <2> QED BY <1>1, <1>3, <2>3, ExecutorFailing
<1>4. ASSUME ~Executors!Resumes, ~w8.recovery, UNCHANGED w8,
             IF w8.plan.head = 0 THEN Executors!Goes("mark") /\ w3' = [w3 EXCEPT !.dir = "used"]
             ELSE Executors!Goes("restore") /\ UNCHANGED w3
      PROVE  ExecutorInv'
  BY <1>1, <1>4, ExecutorPickupFresh DEF Executors!Goes
<1> QED BY <1>2, <1>3, <1>4 DEF Executors!Pickup

(* MaterializeStarts keeps the invariant.                                  *)
LEMMA ExecutorMaterializeStarts ==
  ASSUME ExecutorInv, Executors!MaterializeStarts
  PROVE  ExecutorInv'
<1>0. /\ ExecutorChainTypes /\ ExecutorDiskTypes /\ QueueTypes /\ QueueBefore /\ LastTypes /\ BootTypes
      /\ PlanLaunch /\ EngineTypes /\ StagedTypes /\ EngineUp /\ Counts /\ ExitCodes
      /\ Unwritten /\ ClaimTypes /\ Destroyed /\ FinalHolds /\ PartialUnrecorded
      /\ PartialBefore /\ PartialStale /\ PlanStale
  BY DEF ExecutorInv
<1>1. ExecutorDiskTypes'
  BY <1>0 DEF Executors!MaterializeStarts, Executors!Overwrites, Executors!Goes, ExecutorDiskTypes
<1>2. QueueTypes'
  BY <1>0 DEF Executors!MaterializeStarts, Executors!Overwrites, Executors!Goes, QueueTypes,
       ExecutorDiskTypes,
       ExecutorChainTypes, EngineTypes, Counts, StagedCapture
<1>3. QueueBefore'
  BY <1>0 DEF Executors!MaterializeStarts, Executors!Overwrites, Executors!Goes, QueueBefore,
       ExecutorChainTypes, ExecutorDiskTypes, BootTypes, QueueTypes, EngineTypes, StagedCapture,
            Executors!Worktree
<1>4. LastTypes'
  BY <1>0 DEF Executors!MaterializeStarts, Executors!Overwrites, Executors!Goes, LastTypes, ExecutorDiskTypes,
       EngineTypes, StagedTypes, EngineUp, ExecutorChainTypes, Executors!Nil, Executors!Worktree
<1>5. PlanLaunch'
  BY <1>0 DEF Executors!MaterializeStarts, Executors!Overwrites, Executors!Goes, PlanLaunch, BootTypes
<1>6. EngineUp'
  BY <1>0, NoEngineIs DEF Executors!MaterializeStarts, Executors!Overwrites, Executors!Goes, EngineUp,
       EngineTypes, StagedTypes, PlanLaunch, BootTypes, UpSteps
<1>7. Counts'
  BY <1>0 DEF Executors!MaterializeStarts, Executors!Overwrites, Executors!Goes, Counts, QueueTypes,
       ExecutorDiskTypes, StagedCapture
<1>8. Unwritten'
  BY <1>0, NoBootIs DEF Executors!MaterializeStarts, Executors!Overwrites, Executors!Goes, Unwritten,
       ExecutorDiskTypes, BootTypes, ClaimTypes, BootSteps, UpSteps
<1>9. ClaimTypes'
  BY <1>0 DEF Executors!MaterializeStarts, Executors!Overwrites, Executors!Goes, ClaimTypes, ExecutorDiskTypes
<1>10. Destroyed'
  BY <1>0 DEF Executors!MaterializeStarts, Executors!Overwrites, Executors!Goes, Destroyed,
       Executors!DestroyIsSafe, Counts, Unwritten, FinalHolds, Executors!EXIT_CAPTURE_INCOMPLETE,
       Executors!EXIT_NOTHING_TO_SAVE, Executors!EXIT_STORE_UNFIT
<1>11. FinalHolds'
  BY <1>0 DEF Executors!MaterializeStarts, Executors!Overwrites, Executors!Goes, FinalHolds, Counts,
       StagedCapture, Executors!Worktree
<1>12. PartialUnrecorded'
  BY <1>0 DEF Executors!MaterializeStarts, Executors!Overwrites, Executors!Goes, PartialUnrecorded,
       ExecutorDiskTypes
<1>13. PartialBefore'
  BY <1>0 DEF Executors!MaterializeStarts, Executors!Overwrites, Executors!Goes, PartialBefore,
       ExecutorDiskTypes, PartialUnrecorded, PlanStale, BootTypes, Plainly
<1>14. PartialStale'
  BY <1>0 DEF Executors!MaterializeStarts, Executors!Overwrites, Executors!Goes, PartialStale, Plainly,
       Continues, PartialBefore, LastTypes, QueueTypes, QueueBefore, ExecutorChainTypes,
            ExecutorDiskTypes, PlanStale,
       Executors!Worktree, StagedCapture
<1>15. PlanStale'
  BY <1>0 DEF Executors!MaterializeStarts, Executors!Overwrites, Executors!Goes, PlanStale, Plainly,
       Continues, PartialStale, PartialBefore, LastTypes, QueueTypes, QueueBefore, ExecutorChainTypes,
       ExecutorDiskTypes, BootTypes, Executors!Worktree, StagedCapture
<1>16. ExecutorChainTypes' /\ BootTypes' /\ EngineTypes' /\ StagedTypes' /\ ExitCodes'
  BY <1>0 DEF Executors!MaterializeStarts, Executors!Overwrites, Executors!Goes, ExecutorChainTypes,
       BootTypes,
       EngineTypes, StagedTypes, ExitCodes, Continues, Plainly, Executors!DestroyIsSafe
<1> QED BY <1>1, <1>2, <1>3, <1>4, <1>5, <1>6, <1>7, <1>8, <1>9, <1>10, <1>11, <1>12, <1>13, <1>14,
     <1>15, <1>16 DEF ExecutorInv

(* MaterializeDone keeps the invariant.                                    *)
LEMMA ExecutorMaterializeDone ==
  ASSUME ExecutorInv, w7 = "restoring", w3' = [w3 EXCEPT !.partial = FALSE], Executors!Goes("record"),
       UNCHANGED <<w1, w2, w4, w5, w6, w8>>
  PROVE  ExecutorInv'
<1>0. /\ ExecutorChainTypes /\ ExecutorDiskTypes /\ QueueTypes /\ QueueBefore /\ LastTypes /\ BootTypes
      /\ PlanLaunch /\ EngineTypes /\ StagedTypes /\ EngineUp /\ Counts /\ ExitCodes
      /\ Unwritten /\ ClaimTypes /\ Destroyed /\ FinalHolds /\ PartialUnrecorded
      /\ PartialBefore /\ PartialStale /\ PlanStale
  BY DEF ExecutorInv
<1>1. ExecutorDiskTypes'
  BY <1>0 DEF Executors!Goes, ExecutorDiskTypes
<1>2. QueueTypes'
  BY <1>0 DEF Executors!Goes, QueueTypes, ExecutorDiskTypes, ExecutorChainTypes, EngineTypes, Counts,
       StagedCapture
<1>3. QueueBefore'
  BY <1>0 DEF Executors!Goes, QueueBefore, ExecutorChainTypes, ExecutorDiskTypes, BootTypes, QueueTypes,
       EngineTypes,
       StagedCapture, Executors!Worktree
<1>4. LastTypes'
  BY <1>0 DEF Executors!Goes, LastTypes, ExecutorDiskTypes, EngineTypes, StagedTypes, EngineUp,
       ExecutorChainTypes,
       Executors!Nil, Executors!Worktree
<1>5. PlanLaunch'
  BY <1>0 DEF Executors!Goes, PlanLaunch, BootTypes
<1>6. EngineUp'
  BY <1>0, NoEngineIs DEF Executors!Goes, EngineUp, EngineTypes, StagedTypes, PlanLaunch, BootTypes, UpSteps
<1>7. Unwritten'
  BY <1>0, NoBootIs DEF Executors!Goes, Unwritten, ExecutorDiskTypes, BootTypes, ClaimTypes, BootSteps,
       UpSteps
<1>8. ClaimTypes'
  BY <1>0 DEF Executors!Goes, ClaimTypes, ExecutorDiskTypes
<1>9. Destroyed'
  BY <1>0 DEF Executors!Goes, Destroyed, Executors!DestroyIsSafe, Counts, Unwritten, FinalHolds,
       Executors!EXIT_CAPTURE_INCOMPLETE, Executors!EXIT_NOTHING_TO_SAVE, Executors!EXIT_STORE_UNFIT
<1>10. FinalHolds'
  BY <1>0 DEF Executors!Goes, FinalHolds, Counts, StagedCapture, Executors!Worktree
<1>11. PartialUnrecorded'
  BY <1>0 DEF Executors!Goes, PartialUnrecorded, ExecutorDiskTypes
<1>12. PartialBefore'
  BY <1>0 DEF Executors!Goes, PartialBefore, ExecutorDiskTypes, PartialUnrecorded, PlanStale, BootTypes,
       Plainly
<1>13. PartialStale'
  BY <1>0 DEF Executors!Goes, PartialStale, Plainly, Continues, PartialBefore, LastTypes, QueueTypes,
       QueueBefore, ExecutorChainTypes, ExecutorDiskTypes, PlanStale, Executors!Worktree, StagedCapture
<1>14. PlanStale'
  BY <1>0 DEF Executors!Goes, PlanStale, Plainly, Continues, PartialStale, PartialBefore, LastTypes,
       QueueTypes, QueueBefore, ExecutorChainTypes, ExecutorDiskTypes, BootTypes, Executors!Worktree,
            StagedCapture
<1>15. ExecutorChainTypes' /\ BootTypes' /\ EngineTypes' /\ StagedTypes' /\ Counts' /\ ExitCodes'
  BY <1>0 DEF Executors!Goes, ExecutorChainTypes, BootTypes, EngineTypes, StagedTypes, Counts, ExitCodes,
       Continues, Plainly, Executors!DestroyIsSafe
<1> QED BY <1>1, <1>2, <1>3, <1>4, <1>5, <1>6, <1>7, <1>8, <1>9, <1>10, <1>11, <1>12, <1>13, <1>14,
     <1>15 DEF ExecutorInv

(* MaterializeEnds keeps the invariant.                                    *)
LEMMA ExecutorMaterializeEnds ==
  ASSUME ExecutorInv, Executors!MaterializeEnds
  PROVE  ExecutorInv'
<1>1. w7 = "restoring" /\ UNCHANGED <<w1, w2, w4, w5, w6>> BY DEF Executors!MaterializeEnds, Executors!ghosts
<1>2. CASE Executors!Fails /\ UNCHANGED w3 BY <1>1, <1>2, ExecutorFailing
<1>3. ASSUME w3' = [w3 EXCEPT !.partial = FALSE], Executors!Goes("record"), UNCHANGED w8 PROVE ExecutorInv'
  BY <1>1, <1>3, ExecutorMaterializeDone
<1> QED BY <1>2, <1>3 DEF Executors!MaterializeEnds

(* Record keeps the invariant.                                             *)
LEMMA ExecutorRecord ==
  ASSUME ExecutorInv, Executors!Record
  PROVE  ExecutorInv'
<1>0. /\ ExecutorChainTypes /\ ExecutorDiskTypes /\ QueueTypes /\ QueueBefore /\ LastTypes /\ BootTypes
      /\ PlanLaunch /\ EngineTypes /\ StagedTypes /\ EngineUp /\ Counts /\ ExitCodes
      /\ Unwritten /\ ClaimTypes /\ Destroyed /\ FinalHolds /\ PartialUnrecorded
      /\ PartialBefore /\ PartialStale /\ PlanStale
  BY DEF ExecutorInv
<1>1. ExecutorDiskTypes'
  BY <1>0 DEF Executors!Record, Executors!Goes, Executors!ghosts, ExecutorDiskTypes
<1>2. QueueTypes'
  BY <1>0 DEF Executors!Record, Executors!Goes, Executors!ghosts, QueueTypes, ExecutorDiskTypes,
       ExecutorChainTypes,
       EngineTypes, Counts, StagedCapture
<1>3. QueueBefore'
  BY <1>0 DEF Executors!Record, Executors!Goes, Executors!ghosts, QueueBefore, ExecutorChainTypes,
       ExecutorDiskTypes,
       BootTypes, QueueTypes, EngineTypes, StagedCapture, Executors!Worktree
<1>4. LastTypes'
  BY <1>0 DEF Executors!Record, Executors!Goes, Executors!ghosts, LastTypes, ExecutorDiskTypes, EngineTypes,
       StagedTypes, EngineUp, ExecutorChainTypes, Executors!Nil, Executors!Worktree
<1>5. PlanLaunch'
  BY <1>0 DEF Executors!Record, Executors!Goes, Executors!ghosts, PlanLaunch, BootTypes
<1>6. EngineUp'
  BY <1>0, NoEngineIs DEF Executors!Record, Executors!Goes, Executors!ghosts, EngineUp, EngineTypes,
       StagedTypes, PlanLaunch, BootTypes, UpSteps
<1>7. Unwritten'
  BY <1>0, NoBootIs DEF Executors!Record, Executors!Goes, Executors!ghosts, Unwritten, ExecutorDiskTypes,
       BootTypes, ClaimTypes, BootSteps, UpSteps
<1>8. ClaimTypes'
  BY <1>0 DEF Executors!Record, Executors!Goes, Executors!ghosts, ClaimTypes, ExecutorDiskTypes
<1>9. Destroyed'
  BY <1>0 DEF Executors!Record, Executors!Goes, Executors!ghosts, Destroyed, Executors!DestroyIsSafe,
       Counts, Unwritten, FinalHolds, Executors!EXIT_CAPTURE_INCOMPLETE, Executors!EXIT_NOTHING_TO_SAVE,
       Executors!EXIT_STORE_UNFIT
<1>10. FinalHolds'
  BY <1>0 DEF Executors!Record, Executors!Goes, Executors!ghosts, FinalHolds, Counts, StagedCapture,
       Executors!Worktree
<1>11. PartialUnrecorded'
  BY <1>0 DEF Executors!Record, Executors!Goes, Executors!ghosts, PartialUnrecorded, ExecutorDiskTypes
<1>12. PartialBefore'
  BY <1>0 DEF Executors!Record, Executors!Goes, Executors!ghosts, PartialBefore, ExecutorDiskTypes,
       PartialUnrecorded, PlanStale, BootTypes, Plainly
<1>13. PartialStale'
  BY <1>0 DEF Executors!Record, Executors!Goes, Executors!ghosts, PartialStale, Plainly, Continues,
       PartialBefore, LastTypes, QueueTypes, QueueBefore, ExecutorChainTypes, ExecutorDiskTypes, PlanStale,
       Executors!Worktree, StagedCapture
<1>14. PlanStale'
  BY <1>0 DEF Executors!Record, Executors!Goes, Executors!ghosts, PlanStale, Plainly, Continues,
       PartialStale, PartialBefore, LastTypes, QueueTypes, QueueBefore, ExecutorChainTypes, ExecutorDiskTypes,
       BootTypes, Executors!Worktree, StagedCapture
<1>15. ExecutorChainTypes' /\ BootTypes' /\ EngineTypes' /\ StagedTypes' /\ Counts' /\ ExitCodes'
  BY <1>0 DEF Executors!Record, Executors!Goes, Executors!ghosts, ExecutorChainTypes, BootTypes, EngineTypes,
       StagedTypes, Counts, ExitCodes, Continues, Plainly, Executors!DestroyIsSafe
<1> QED BY <1>1, <1>2, <1>3, <1>4, <1>5, <1>6, <1>7, <1>8, <1>9, <1>10, <1>11, <1>12, <1>13, <1>14,
     <1>15 DEF ExecutorInv

(* Mark keeps the invariant.                                               *)
LEMMA ExecutorMark ==
  ASSUME ExecutorInv, Executors!Mark
  PROVE  ExecutorInv'
<1>0. /\ ExecutorChainTypes /\ ExecutorDiskTypes /\ QueueTypes /\ QueueBefore /\ LastTypes /\ BootTypes
      /\ PlanLaunch /\ EngineTypes /\ StagedTypes /\ EngineUp /\ Counts /\ ExitCodes
      /\ Unwritten /\ ClaimTypes /\ Destroyed /\ FinalHolds /\ PartialUnrecorded
      /\ PartialBefore /\ PartialStale /\ PlanStale
  BY DEF ExecutorInv
<1>1. ExecutorDiskTypes'
  BY <1>0 DEF Executors!Mark, Executors!Goes, Executors!ghosts, ExecutorDiskTypes
<1>2. QueueTypes'
  BY <1>0 DEF Executors!Mark, Executors!Goes, Executors!ghosts, QueueTypes, ExecutorDiskTypes,
       ExecutorChainTypes,
       EngineTypes, Counts, StagedCapture
<1>3. QueueBefore'
  BY <1>0 DEF Executors!Mark, Executors!Goes, Executors!ghosts, QueueBefore, ExecutorChainTypes,
       ExecutorDiskTypes,
       BootTypes, QueueTypes, EngineTypes, StagedCapture, Executors!Worktree
<1>4. LastTypes'
  BY <1>0 DEF Executors!Mark, Executors!Goes, Executors!ghosts, LastTypes, ExecutorDiskTypes, EngineTypes,
       StagedTypes, EngineUp, ExecutorChainTypes, Executors!Nil, Executors!Worktree
<1>5. PlanLaunch'
  BY <1>0 DEF Executors!Mark, Executors!Goes, Executors!ghosts, PlanLaunch, BootTypes
<1>6. EngineUp'
  BY <1>0, NoEngineIs DEF Executors!Mark, Executors!Goes, Executors!ghosts, EngineUp, EngineTypes,
       StagedTypes, PlanLaunch, BootTypes, UpSteps
<1>7. Unwritten'
  BY <1>0, NoBootIs DEF Executors!Mark, Executors!Goes, Executors!ghosts, Unwritten, ExecutorDiskTypes,
       BootTypes, ClaimTypes, BootSteps, UpSteps
<1>8. ClaimTypes'
  BY <1>0 DEF Executors!Mark, Executors!Goes, Executors!ghosts, ClaimTypes, ExecutorDiskTypes
<1>9. Destroyed'
  BY <1>0 DEF Executors!Mark, Executors!Goes, Executors!ghosts, Destroyed, Executors!DestroyIsSafe,
       Counts, Unwritten, FinalHolds, Executors!EXIT_CAPTURE_INCOMPLETE, Executors!EXIT_NOTHING_TO_SAVE,
       Executors!EXIT_STORE_UNFIT
<1>10. FinalHolds'
  BY <1>0 DEF Executors!Mark, Executors!Goes, Executors!ghosts, FinalHolds, Counts, StagedCapture,
       Executors!Worktree
<1>11. PartialUnrecorded'
  BY <1>0 DEF Executors!Mark, Executors!Goes, Executors!ghosts, PartialUnrecorded, ExecutorDiskTypes
<1>12. PartialBefore'
  BY <1>0 DEF Executors!Mark, Executors!Goes, Executors!ghosts, PartialBefore, ExecutorDiskTypes,
       PartialUnrecorded, PlanStale, BootTypes, Plainly
<1>13. PartialStale'
  BY <1>0 DEF Executors!Mark, Executors!Goes, Executors!ghosts, PartialStale, Plainly, Continues,
       PartialBefore, LastTypes, QueueTypes, QueueBefore, ExecutorChainTypes, ExecutorDiskTypes, PlanStale,
       Executors!Worktree, StagedCapture
<1>14. PlanStale'
  BY <1>0 DEF Executors!Mark, Executors!Goes, Executors!ghosts, PlanStale, Plainly, Continues,
       PartialStale, PartialBefore, LastTypes, QueueTypes, QueueBefore, ExecutorChainTypes, ExecutorDiskTypes,
       BootTypes, Executors!Worktree, StagedCapture
<1>15. ExecutorChainTypes' /\ BootTypes' /\ EngineTypes' /\ StagedTypes' /\ Counts' /\ ExitCodes'
  BY <1>0 DEF Executors!Mark, Executors!Goes, Executors!ghosts, ExecutorChainTypes, BootTypes, EngineTypes,
       StagedTypes, Counts, ExitCodes, Continues, Plainly, Executors!DestroyIsSafe
<1> QED BY <1>1, <1>2, <1>3, <1>4, <1>5, <1>6, <1>7, <1>8, <1>9, <1>10, <1>11, <1>12, <1>13, <1>14,
     <1>15 DEF ExecutorInv

(* Open keeps the invariant.                                               *)
LEMMA ExecutorOpen ==
  ASSUME ExecutorInv, Executors!Open
  PROVE  ExecutorInv'
<1>0. /\ ExecutorChainTypes /\ ExecutorDiskTypes /\ QueueTypes /\ QueueBefore /\ LastTypes /\ BootTypes
      /\ PlanLaunch /\ EngineTypes /\ StagedTypes /\ EngineUp /\ Counts /\ ExitCodes
      /\ Unwritten /\ ClaimTypes /\ Destroyed /\ FinalHolds /\ PartialUnrecorded
      /\ PartialBefore /\ PartialStale /\ PlanStale
  BY DEF ExecutorInv
<1>a. PICK own \in Executors!OwnQueue :
        /\ w3' = [w3 EXCEPT !.queue = own, !.dir = "used", !.staging = TRUE]
        /\ w9' = [Executors!NoEngine EXCEPT !.worktree = w8.plan.worktree, !.epoch = w8.plan.epoch,
                        !.launch = w8.plan.launch,
                        !.previous = IF \E i \in DOMAIN own : w8.plan.head \in {own[i].parent, own[i].capture}
                                     THEN own[Len(own)].capture ELSE w8.plan.head]
  BY DEF Executors!Open
<1>b. own \in Seq(StagedCapture) /\ \A i \in 1 .. Len(own) : \E j \in 1 .. Len(w3.queue) : own[i] = w3.queue[j]
  BY <1>0, OwnQueueIs
<1>c. /\ w3'.queue = own /\ w3'.dir = "used" /\ w3'.staging = TRUE /\ w3'.last = w3.last
      /\ DOMAIN w3' = DOMAIN w3
  BY <1>0, <1>a DEF ExecutorDiskTypes
<1>1. ExecutorDiskTypes'
  BY <1>0 DEF Executors!Open, Executors!ghosts, ExecutorDiskTypes
<1>2. QueueTypes'
  BY <1>b, <1>c DEF QueueTypes
<1>3. QueueBefore'
  BY <1>0, <1>b, <1>c DEF QueueBefore, Executors!Open
<1>4. LastTypes'
  BY <1>0 DEF Executors!Open, Executors!ghosts, LastTypes, ExecutorDiskTypes, EngineTypes, StagedTypes,
       EngineUp, ExecutorChainTypes, Executors!Nil, Executors!Worktree
<1>5. PlanLaunch'
  BY <1>0 DEF Executors!Open, Executors!ghosts, PlanLaunch, BootTypes
<1>6. EngineTypes'
  <2>1. DOMAIN own = 1 .. Len(own) /\ Len(own) \in Nat BY <1>b
  <2>2. \A i \in 1 .. Len(own) : own[i].capture \in Nat /\ own[i].capture < w1.next
    BY <1>0, <1>b, QueuedIs DEF QueueBefore
  <2>3. (\E i \in DOMAIN own : TRUE) => Len(own) \in 1 .. Len(own) BY <2>1
  <2>4. w9'.previous \in Nat /\ w9'.previous < w1.next
    BY <1>0, <1>a, <2>2, <2>3, NoEngineIs DEF BootTypes
  <2>5. /\ DOMAIN w9' = DOMAIN Executors!NoEngine /\ w9'.worktree = w8.plan.worktree
        /\ w9'.epoch = w8.plan.epoch
    BY <1>a, NoEngineIs
  <2> QED BY <1>0, <2>4, <2>5, NoEngineIs DEF EngineTypes, BootTypes, Executors!Open
<1>7. StagedTypes'
  BY <1>0, NoEngineIs DEF Executors!Open, Executors!ghosts, StagedTypes, ExecutorChainTypes, EngineTypes
<1>8. EngineUp'
  BY <1>0, NoEngineIs DEF Executors!Open, Executors!ghosts, EngineUp, EngineTypes, StagedTypes,
       PlanLaunch, BootTypes, UpSteps
<1>9. Unwritten'
  BY <1>0, NoBootIs DEF Executors!Open, Executors!ghosts, Unwritten, ExecutorDiskTypes, BootTypes, ClaimTypes,
       BootSteps, UpSteps
<1>10. ClaimTypes'
  BY <1>0 DEF Executors!Open, Executors!ghosts, ClaimTypes, ExecutorDiskTypes
<1>11. Destroyed'
  BY <1>0 DEF Executors!Open, Executors!ghosts, Destroyed, Executors!DestroyIsSafe, Counts, Unwritten,
       FinalHolds, Executors!EXIT_CAPTURE_INCOMPLETE, Executors!EXIT_NOTHING_TO_SAVE,
       Executors!EXIT_STORE_UNFIT
<1>12. FinalHolds'
  BY <1>0 DEF Executors!Open, Executors!ghosts, FinalHolds, Counts, StagedCapture, Executors!Worktree
<1>13. PartialUnrecorded'
  BY <1>0 DEF Executors!Open, Executors!ghosts, PartialUnrecorded, ExecutorDiskTypes
<1>14. PartialBefore'
  BY <1>0 DEF Executors!Open, Executors!ghosts, PartialBefore, ExecutorDiskTypes, PartialUnrecorded,
       PlanStale,
       BootTypes, Plainly
<1>15. PartialStale'
  BY <1>0 DEF Executors!Open, Executors!ghosts, PartialStale, Plainly, Continues, PartialBefore,
       LastTypes, QueueTypes, QueueBefore, ExecutorChainTypes, ExecutorDiskTypes, PlanStale,
            Executors!Worktree, StagedCapture
<1>16. PlanStale'
  BY <1>0 DEF Executors!Open, Executors!ghosts, PlanStale, Plainly, Continues, PartialStale,
       PartialBefore, LastTypes, QueueTypes, QueueBefore, ExecutorChainTypes, ExecutorDiskTypes, BootTypes,
       Executors!Worktree, StagedCapture
<1>17. ExecutorChainTypes' /\ BootTypes' /\ Counts' /\ ExitCodes'
  BY <1>0 DEF Executors!Open, Executors!ghosts, ExecutorChainTypes, BootTypes, Counts, ExitCodes, Continues,
       Plainly, Executors!DestroyIsSafe
<1> QED BY <1>1, <1>2, <1>3, <1>4, <1>5, <1>6, <1>7, <1>8, <1>9, <1>10, <1>11, <1>12, <1>13, <1>14,
     <1>15, <1>16, <1>17 DEF ExecutorInv

(* Writes keeps the invariant.                                             *)
LEMMA ExecutorWrites ==
  ASSUME ExecutorInv, Executors!Writes
  PROVE  ExecutorInv'
<1>0. /\ ExecutorChainTypes /\ ExecutorDiskTypes /\ QueueTypes /\ QueueBefore /\ LastTypes /\ BootTypes
      /\ PlanLaunch /\ EngineTypes /\ StagedTypes /\ EngineUp /\ Counts /\ ExitCodes
      /\ Unwritten /\ ClaimTypes /\ Destroyed /\ FinalHolds /\ PartialUnrecorded
      /\ PartialBefore /\ PartialStale /\ PlanStale
  BY DEF ExecutorInv
<1>1. ExecutorDiskTypes'
  BY <1>0 DEF Executors!Writes, Executors!Claims, Executors!Spent, Executors!daemonVars, ExecutorDiskTypes
<1>2. QueueTypes'
  BY <1>0 DEF Executors!Writes, Executors!Claims, Executors!Spent, Executors!daemonVars, QueueTypes,
       ExecutorDiskTypes, ExecutorChainTypes, EngineTypes, Counts, StagedCapture
<1>3. QueueBefore'
  BY <1>0 DEF Executors!Writes, Executors!Claims, Executors!Spent, Executors!daemonVars, QueueBefore,
       ExecutorChainTypes, ExecutorDiskTypes, BootTypes, QueueTypes, EngineTypes, StagedCapture,
            Executors!Worktree
<1>4. LastTypes'
  BY <1>0 DEF Executors!Writes, Executors!Claims, Executors!Spent, Executors!daemonVars, LastTypes,
       ExecutorDiskTypes, EngineTypes, StagedTypes, EngineUp, ExecutorChainTypes, Executors!Nil,
            Executors!Worktree
<1>5. Counts'
  BY <1>0 DEF Executors!Writes, Executors!Claims, Executors!Spent, Executors!daemonVars, Counts,
       QueueTypes, ExecutorDiskTypes, StagedCapture
<1>6. Unwritten'
  BY <1>0, NoBootIs DEF Executors!Writes, Executors!Claims, Executors!Spent, Executors!daemonVars,
       Unwritten, ExecutorDiskTypes, BootTypes, ClaimTypes, BootSteps, UpSteps
<1>7. ClaimTypes'
  BY <1>0 DEF Executors!Writes, Executors!Claims, Executors!Spent, Executors!daemonVars, ClaimTypes,
       ExecutorDiskTypes
<1>8. Destroyed'
  BY <1>0 DEF Executors!Writes, Executors!Claims, Executors!Spent, Executors!daemonVars, Destroyed,
       Executors!DestroyIsSafe, Counts, Unwritten, FinalHolds, Executors!EXIT_CAPTURE_INCOMPLETE,
       Executors!EXIT_NOTHING_TO_SAVE, Executors!EXIT_STORE_UNFIT
<1>9. FinalHolds'
  BY <1>0 DEF Executors!Writes, Executors!Claims, Executors!Spent, Executors!daemonVars, FinalHolds,
       Counts, StagedCapture, Executors!Worktree
<1>10. PartialUnrecorded'
  BY <1>0 DEF Executors!Writes, Executors!Claims, Executors!Spent, Executors!daemonVars,
       PartialUnrecorded, ExecutorDiskTypes
<1>11. PartialBefore'
  BY <1>0 DEF Executors!Writes, Executors!Claims, Executors!Spent, Executors!daemonVars, PartialBefore,
       ExecutorDiskTypes, PartialUnrecorded, PlanStale, BootTypes, Plainly
<1>12. PartialStale'
  BY <1>0 DEF Executors!Writes, Executors!Claims, Executors!Spent, Executors!daemonVars, PartialStale,
       Plainly, Continues, PartialBefore, LastTypes, QueueTypes, QueueBefore, ExecutorChainTypes,
            ExecutorDiskTypes,
       PlanStale, Executors!Worktree, StagedCapture
<1>13. PlanStale'
  BY <1>0 DEF Executors!Writes, Executors!Claims, Executors!Spent, Executors!daemonVars, PlanStale,
       Plainly, Continues, PartialStale, PartialBefore, LastTypes, QueueTypes, QueueBefore,
            ExecutorChainTypes,
       ExecutorDiskTypes, BootTypes, Executors!Worktree, StagedCapture
<1>14. /\ ExecutorChainTypes' /\ BootTypes' /\ PlanLaunch' /\ EngineTypes' /\ StagedTypes' /\ EngineUp'
       /\ ExitCodes'
  BY <1>0 DEF Executors!Writes, Executors!Claims, Executors!Spent, Executors!daemonVars, ExecutorChainTypes,
       BootTypes, PlanLaunch, EngineTypes, StagedTypes, EngineUp, ExitCodes, Continues, Plainly,
       Executors!DestroyIsSafe
<1> QED BY <1>1, <1>2, <1>3, <1>4, <1>5, <1>6, <1>7, <1>8, <1>9, <1>10, <1>11, <1>12, <1>13,
     <1>14 DEF ExecutorInv

(* SnapQueues keeps the invariant.                                         *)
LEMMA ExecutorSnapQueues ==
  ASSUME ExecutorInv, Executors!SnapQueues
  PROVE  ExecutorInv'
<1>0. /\ ExecutorChainTypes /\ ExecutorDiskTypes /\ QueueTypes /\ QueueBefore /\ LastTypes /\ BootTypes
      /\ PlanLaunch /\ EngineTypes /\ StagedTypes /\ EngineUp /\ Counts /\ ExitCodes
      /\ Unwritten /\ ClaimTypes /\ Destroyed /\ FinalHolds /\ PartialUnrecorded
      /\ PartialBefore /\ PartialStale /\ PlanStale
  BY DEF ExecutorInv
<1> DEFINE c == [capture |-> w1.next, parent |-> w9.previous, worktree |-> w9.worktree,
                 epoch |-> w9.epoch, holds |-> w4]
<1>a. c \in StagedCapture BY <1>0 DEF ExecutorChainTypes, EngineTypes, Counts, StagedCapture
<1>b. w3'.queue = Append(w3.queue, c) BY <1>0 DEF Executors!SnapQueues, ExecutorDiskTypes
<1>c. /\ w3'.queue \in Seq(StagedCapture) /\ Len(w3'.queue) = Len(w3.queue) + 1
      /\ \A i \in 1 .. Len(w3.queue) : w3'.queue[i] = w3.queue[i]
      /\ w3'.queue[Len(w3.queue) + 1] = c /\ Len(w3.queue) \in Nat
  BY <1>0, <1>a, <1>b, QueueGrows, QueuedIs
<1>d. /\ w1'.next = w1.next + 1 /\ w1.next \in Nat
      /\ \A w \in Executors!Worktree : w1'[w] = w1[w]
  BY <1>0 DEF Executors!SnapQueues, ExecutorChainTypes, Executors!Worktree
<1>1. ExecutorChainTypes'
  BY <1>0 DEF Executors!SnapQueues, Executors!Spent, Executors!ghosts, ExecutorChainTypes, QueueTypes,
       ExecutorDiskTypes, QueueBefore, Executors!Worktree, StagedCapture
<1>2. ExecutorDiskTypes'
  BY <1>0 DEF Executors!SnapQueues, Executors!Spent, Executors!ghosts, ExecutorDiskTypes
<1>3. QueueTypes'
  BY <1>c DEF QueueTypes
<1>4. QueueBefore'
  <2>1. c.capture < w1.next + 1 /\ c.parent < w1.next + 1 BY <1>0, <1>d DEF EngineTypes
  <2>2. ASSUME NEW i \in 1 .. Len(w3.queue) + 1
        PROVE  w3'.queue[i].capture < w1.next + 1 /\ w3'.queue[i].parent < w1.next + 1
    <3>1. CASE i \in 1 .. Len(w3.queue)
      <4>1. w3'.queue[i] = w3.queue[i] BY <1>c, <3>1
      <4>2. w3.queue[i].capture \in Nat /\ w3.queue[i].parent \in Nat BY <1>0, <3>1, QueuedIs
      <4>3. w3.queue[i].capture < w1.next /\ w3.queue[i].parent < w1.next
        BY <1>0, <3>1 DEF QueueBefore
      <4> QED BY <1>d, <4>1, <4>2, <4>3
    <3>2. CASE i = Len(w3.queue) + 1 BY <1>c, <2>1, <3>2
    <3> QED BY <1>c, <3>1, <3>2
  <2> QED BY <1>c, <1>d, <2>2 DEF QueueBefore
<1>5. LastTypes'
  BY <1>0 DEF Executors!SnapQueues, Executors!Spent, Executors!ghosts, LastTypes, ExecutorDiskTypes,
       EngineTypes, StagedTypes, EngineUp, ExecutorChainTypes, Executors!Nil, Executors!Worktree
<1>6. BootTypes'
  BY <1>0, NoBootIs DEF Executors!SnapQueues, Executors!Spent, Executors!ghosts, BootTypes,
       ExecutorChainTypes,
       Executors!Worktree
<1>7. EngineTypes'
  BY <1>0, NoEngineIs DEF Executors!SnapQueues, Executors!Spent, Executors!ghosts, EngineTypes,
       ExecutorChainTypes, BootTypes, Executors!Worktree
<1>8. StagedTypes'
  BY <1>0, NoEngineIs DEF Executors!SnapQueues, Executors!Spent, Executors!ghosts, StagedTypes,
       ExecutorChainTypes, EngineTypes
<1>9. EngineUp'
  BY <1>0, NoEngineIs DEF Executors!SnapQueues, Executors!Spent, Executors!ghosts, EngineUp,
       EngineTypes, StagedTypes, PlanLaunch, BootTypes, UpSteps
<1>10. Unwritten'
  BY <1>0, NoBootIs DEF Executors!SnapQueues, Executors!Spent, Executors!ghosts, Unwritten, ExecutorDiskTypes,
       BootTypes, ClaimTypes, BootSteps, UpSteps
<1>11. ClaimTypes'
  BY <1>0 DEF Executors!SnapQueues, Executors!Spent, Executors!ghosts, ClaimTypes, ExecutorDiskTypes
<1>12. FinalHolds'
  BY <1>0 DEF Executors!SnapQueues, Executors!Spent, Executors!ghosts, FinalHolds, Counts,
       StagedCapture, Executors!Worktree
<1>13. PartialUnrecorded'
  BY <1>0 DEF Executors!SnapQueues, Executors!Spent, Executors!ghosts, PartialUnrecorded, ExecutorDiskTypes
<1>14. PartialBefore'
  BY <1>0 DEF Executors!SnapQueues, Executors!Spent, Executors!ghosts, PartialBefore, ExecutorDiskTypes,
       PartialUnrecorded, PlanStale, BootTypes, Plainly
<1>15. PartialStale'
  BY <1>0 DEF Executors!SnapQueues, Executors!Spent, Executors!ghosts, PartialStale, Plainly, Continues,
       PartialBefore, LastTypes, QueueTypes, QueueBefore, ExecutorChainTypes, ExecutorDiskTypes, PlanStale,
       Executors!Worktree, StagedCapture
<1>16. PlanStale'
  BY <1>0 DEF Executors!SnapQueues, Executors!Spent, Executors!ghosts, PlanStale, Plainly, Continues,
       PartialStale, PartialBefore, LastTypes, QueueTypes, QueueBefore, ExecutorChainTypes, ExecutorDiskTypes,
       BootTypes, Executors!Worktree, StagedCapture
<1>17. PlanLaunch' /\ Counts' /\ ExitCodes' /\ Destroyed'
  BY <1>0 DEF Executors!SnapQueues, Executors!Spent, Executors!ghosts, PlanLaunch, Counts, ExitCodes,
       Destroyed, Continues, Plainly, Executors!DestroyIsSafe
<1> QED BY <1>1, <1>2, <1>3, <1>4, <1>5, <1>6, <1>7, <1>8, <1>9, <1>10, <1>11, <1>12, <1>13, <1>14,
     <1>15, <1>16, <1>17 DEF ExecutorInv

(* SnapPersists keeps the invariant.                                       *)
LEMMA ExecutorSnapPersists ==
  ASSUME ExecutorInv, Executors!SnapPersists
  PROVE  ExecutorInv'
<1>0. /\ ExecutorChainTypes /\ ExecutorDiskTypes /\ QueueTypes /\ QueueBefore /\ LastTypes /\ BootTypes
      /\ PlanLaunch /\ EngineTypes /\ StagedTypes /\ EngineUp /\ Counts /\ ExitCodes
      /\ Unwritten /\ ClaimTypes /\ Destroyed /\ FinalHolds /\ PartialUnrecorded
      /\ PartialBefore /\ PartialStale /\ PlanStale
  BY DEF ExecutorInv
<1>1. ExecutorDiskTypes'
  BY <1>0 DEF Executors!SnapPersists, Executors!ghosts, Executors!daemonVars, ExecutorDiskTypes
<1>2. QueueTypes'
  BY <1>0 DEF Executors!SnapPersists, Executors!ghosts, Executors!daemonVars, QueueTypes, ExecutorDiskTypes,
       ExecutorChainTypes, EngineTypes, Counts, StagedCapture
<1>3. QueueBefore'
  BY <1>0 DEF Executors!SnapPersists, Executors!ghosts, Executors!daemonVars, QueueBefore, ExecutorChainTypes,
       ExecutorDiskTypes, BootTypes, QueueTypes, EngineTypes, StagedCapture, Executors!Worktree
<1>4. LastTypes'
  BY <1>0 DEF Executors!SnapPersists, Executors!ghosts, Executors!daemonVars, LastTypes, ExecutorDiskTypes,
       EngineTypes, StagedTypes, EngineUp, ExecutorChainTypes, Executors!Nil, Executors!Worktree
<1>5. EngineTypes'
  BY <1>0, NoEngineIs DEF Executors!SnapPersists, Executors!ghosts, Executors!daemonVars, EngineTypes,
       ExecutorChainTypes, BootTypes, Executors!Worktree
<1>6. StagedTypes'
  BY <1>0, NoEngineIs DEF Executors!SnapPersists, Executors!ghosts, Executors!daemonVars, StagedTypes,
       ExecutorChainTypes, EngineTypes
<1>7. EngineUp'
  BY <1>0, NoEngineIs DEF Executors!SnapPersists, Executors!ghosts, Executors!daemonVars, EngineUp,
       EngineTypes, StagedTypes, PlanLaunch, BootTypes, UpSteps
<1>8. Unwritten'
  BY <1>0, NoBootIs DEF Executors!SnapPersists, Executors!ghosts, Executors!daemonVars, Unwritten,
       ExecutorDiskTypes, BootTypes, ClaimTypes, BootSteps, UpSteps
<1>9. ClaimTypes'
  BY <1>0 DEF Executors!SnapPersists, Executors!ghosts, Executors!daemonVars, ClaimTypes, ExecutorDiskTypes
<1>10. FinalHolds'
  BY <1>0 DEF Executors!SnapPersists, Executors!ghosts, Executors!daemonVars, FinalHolds, Counts,
       StagedCapture, Executors!Worktree
<1>11. PartialUnrecorded'
  BY <1>0 DEF Executors!SnapPersists, Executors!ghosts, Executors!daemonVars, PartialUnrecorded,
       ExecutorDiskTypes
<1>12. PartialBefore'
  BY <1>0 DEF Executors!SnapPersists, Executors!ghosts, Executors!daemonVars, PartialBefore,
       ExecutorDiskTypes,
       PartialUnrecorded, PlanStale, BootTypes, Plainly
<1>13. PartialStale'
  BY <1>0 DEF Executors!SnapPersists, PartialStale, EngineUp, UpSteps, PartialBefore, Plainly,
       ExecutorDiskTypes, Executors!ghosts, Executors!daemonVars
<1>14. PlanStale'
  BY <1>0 DEF Executors!SnapPersists, PlanStale, EngineUp, UpSteps, PartialBefore, Plainly, ExecutorDiskTypes,
       Executors!ghosts, Executors!daemonVars
<1>15. ExecutorChainTypes' /\ BootTypes' /\ PlanLaunch' /\ Counts' /\ ExitCodes' /\ Destroyed'
  BY <1>0 DEF Executors!SnapPersists, Executors!ghosts, Executors!daemonVars, ExecutorChainTypes, BootTypes,
       PlanLaunch, Counts, ExitCodes, Destroyed, Continues, Plainly, Executors!DestroyIsSafe
<1> QED BY <1>1, <1>2, <1>3, <1>4, <1>5, <1>6, <1>7, <1>8, <1>9, <1>10, <1>11, <1>12, <1>13, <1>14,
     <1>15 DEF ExecutorInv

(* Registers keeps the invariant.                                          *)
LEMMA ExecutorRegisters ==
  ASSUME ExecutorInv, Executors!Registers
  PROVE  ExecutorInv'
<1>0. /\ ExecutorChainTypes /\ ExecutorDiskTypes /\ QueueTypes /\ QueueBefore /\ LastTypes /\ BootTypes
      /\ PlanLaunch /\ EngineTypes /\ StagedTypes /\ EngineUp /\ Counts /\ ExitCodes
      /\ Unwritten /\ ClaimTypes /\ Destroyed /\ FinalHolds /\ PartialUnrecorded
      /\ PartialBefore /\ PartialStale /\ PlanStale
  BY DEF ExecutorInv
<1>a. /\ w3.queue[1] \in StagedCapture /\ w3.queue[1].capture < w1.next /\ Len(w3.queue) \in Nat \ {0}
      /\ w7 \in {"up", "final"} /\ w3.queue # <<>>
  BY <1>0 DEF Executors!Registers, QueueTypes, QueueBefore
<1>b. w3.queue[1].worktree \in Executors!Worktree /\ w3.queue[1].capture \in Nat /\ w3.queue[1].holds \in Nat
  BY <1>a DEF StagedCapture
<1>e. w1' = [w1 EXCEPT ![w3.queue[1].worktree].head = w3.queue[1].capture] BY DEF Executors!Registers
<1>c. /\ DOMAIN w1' = DOMAIN w1 /\ w1'.next = w1.next
      /\ \A w \in Executors!Worktree :
           /\ DOMAIN w1'[w] = DOMAIN w1[w] /\ w1'[w].epoch = w1[w].epoch
           /\ w1'[w].head = IF w = w3.queue[1].worktree THEN w3.queue[1].capture ELSE w1[w].head
  BY <1>0, <1>b, <1>e DEF ExecutorChainTypes, Executors!Worktree
<1>u. UNCHANGED <<w2, w3, w4, w6, w7, w8, w9, w10, w11>> BY DEF Executors!Registers
<1>v. w5' = IF w3.queue[1].holds > w5 /\ w3.queue[1].holds <= w4 THEN w3.queue[1].holds ELSE w5
  BY DEF Executors!Registers
<1>1. ExecutorChainTypes'
  BY <1>0, <1>a, <1>b, <1>c, <1>u DEF ExecutorChainTypes, Executors!Worktree
<1>2. QueueBefore'
  BY <1>0, <1>c, <1>u DEF QueueBefore
<1>3. LastTypes'
  BY <1>0, <1>c, <1>u DEF LastTypes
<1>4. BootTypes'
  BY <1>0, <1>c, <1>u DEF BootTypes
<1>5. EngineTypes'
  BY <1>0, <1>c, <1>u DEF EngineTypes
<1>6. StagedTypes'
  BY <1>0, <1>c, <1>u DEF StagedTypes
<1>7. Counts'
  BY <1>0, <1>b, <1>u, <1>v DEF Counts
<1>8. Destroyed'
  BY <1>0 DEF Executors!Registers, Executors!Fits, Destroyed, Executors!DestroyIsSafe, Counts,
       Unwritten, FinalHolds, Executors!EXIT_CAPTURE_INCOMPLETE, Executors!EXIT_NOTHING_TO_SAVE,
       Executors!EXIT_STORE_UNFIT
<1>9. FinalHolds'
  <2> DEFINE newest == w3.queue[Len(w3.queue)]
  <2>1. newest \in StagedCapture BY <1>0, <1>a DEF QueueTypes
  <2>2. newest.worktree \in Executors!Worktree BY <2>1 DEF StagedCapture
  <2>3. CASE Len(w3.queue) = 1
    <3>1. w7 = "final" => w5' = w4 BY <1>0, <1>a, <1>b, <1>v, <2>3 DEF FinalHolds, Counts
    <3> QED BY <1>0, <1>u, <3>1 DEF FinalHolds
  <2>4. CASE Len(w3.queue) # 1
    <3>1. w7 = "final" => w3.queue[1].capture # newest.capture
      <4>a. Len(w3.queue) \in Nat /\ Len(w3.queue) # 0 BY <1>a
      <4>b. \A n \in Nat : n # 0 /\ n # 1 => 1 \in 1 .. n - 1 OBVIOUS
      <4>1. 1 \in 1 .. Len(w3.queue) - 1 BY <2>4, <4>a, <4>b
      <4> QED BY <1>0, <1>a, <4>1 DEF FinalHolds
    <3>2. w7 = "final" => w5' = w4 \/ (w5 # w4 /\ w1'[newest.worktree].head # newest.capture)
      BY <1>0, <1>a, <1>b, <1>c, <1>v, <2>2, <3>1 DEF FinalHolds, Counts
    <3> QED BY <1>0, <1>a, <1>u, <3>2 DEF FinalHolds
  <2> QED BY <2>3, <2>4
<1>10. PartialStale'
  BY <1>0 DEF Executors!Registers, Executors!Fits, PartialStale, Plainly, Continues, PartialBefore,
       LastTypes, QueueTypes, QueueBefore, ExecutorChainTypes, ExecutorDiskTypes, PlanStale,
            Executors!Worktree, StagedCapture
<1>11. PlanStale'
  BY <1>0 DEF Executors!Registers, Executors!Fits, PlanStale, Plainly, Continues, PartialStale,
       PartialBefore, LastTypes, QueueTypes, QueueBefore, ExecutorChainTypes, ExecutorDiskTypes, BootTypes,
       Executors!Worktree, StagedCapture
<1>12. /\ ExecutorDiskTypes' /\ QueueTypes' /\ PlanLaunch' /\ EngineUp' /\ ExitCodes' /\ Unwritten'
       /\ ClaimTypes' /\ PartialUnrecorded' /\ PartialBefore'
  BY <1>0, <1>u DEF ExecutorDiskTypes, QueueTypes, PlanLaunch, EngineUp, ExitCodes, Unwritten, ClaimTypes,
       PartialUnrecorded, PartialBefore, Continues, Plainly, Executors!DestroyIsSafe
<1> QED BY <1>1, <1>2, <1>3, <1>4, <1>5, <1>6, <1>7, <1>8, <1>9, <1>10, <1>11, <1>12 DEF ExecutorInv

(* Acks keeps the invariant.                                               *)
LEMMA ExecutorAcks ==
  ASSUME ExecutorInv, Executors!Acks
  PROVE  ExecutorInv'
<1>0. /\ ExecutorChainTypes /\ ExecutorDiskTypes /\ QueueTypes /\ QueueBefore /\ LastTypes /\ BootTypes
      /\ PlanLaunch /\ EngineTypes /\ StagedTypes /\ EngineUp /\ Counts /\ ExitCodes
      /\ Unwritten /\ ClaimTypes /\ Destroyed /\ FinalHolds /\ PartialUnrecorded
      /\ PartialBefore /\ PartialStale /\ PlanStale
  BY DEF ExecutorInv
<1>a. w3'.queue = Tail(w3.queue) /\ w3.queue # <<>> BY <1>0 DEF Executors!Acks, ExecutorDiskTypes
<1>b. /\ w3'.queue \in Seq(StagedCapture) /\ Len(w3'.queue) = Len(w3.queue) - 1
      /\ Len(w3.queue) \in Nat \ {0}
      /\ \A i \in 1 .. Len(w3.queue) - 1 : w3'.queue[i] = w3.queue[i + 1]
  BY <1>0, <1>a, QueueShrinks
<1>1. ExecutorDiskTypes'
  BY <1>0 DEF Executors!Acks, Executors!ghosts, Executors!daemonVars, ExecutorDiskTypes
<1>2. QueueTypes'
  BY <1>b DEF QueueTypes
<1>3. QueueBefore'
  BY <1>0, <1>b DEF QueueBefore, Executors!Acks, Executors!daemonVars
<1>4. LastTypes'
  BY <1>0 DEF Executors!Acks, Executors!ghosts, Executors!daemonVars, LastTypes, ExecutorDiskTypes,
       EngineTypes,
       StagedTypes, EngineUp, ExecutorChainTypes, Executors!Nil, Executors!Worktree
<1>5. Unwritten'
  BY <1>0, NoBootIs DEF Executors!Acks, Executors!ghosts, Executors!daemonVars, Unwritten, ExecutorDiskTypes,
       BootTypes, ClaimTypes, BootSteps, UpSteps
<1>6. ClaimTypes'
  BY <1>0 DEF Executors!Acks, Executors!ghosts, Executors!daemonVars, ClaimTypes, ExecutorDiskTypes
<1>7. FinalHolds'
  <2>1. CASE Len(w3.queue) = 1
    <3>1. w7 = "final" => w5 = w4
      BY <1>0, <1>a, <2>1 DEF Executors!Acks, FinalHolds
    <3>2. w3'.queue = <<>>
      BY <1>b, <2>1
    <3> QED BY <3>1, <3>2 DEF FinalHolds, Executors!Acks, Executors!ghosts, Executors!daemonVars
  <2>2. CASE Len(w3.queue) # 1
    <3>1. /\ Len(w3'.queue) = Len(w3.queue) - 1 /\ Len(w3'.queue) \in Nat \ {0}
          /\ w3'.queue[Len(w3'.queue)] = w3.queue[Len(w3.queue)]
          /\ \A i \in 1 .. Len(w3'.queue) - 1 : w3'.queue[i] = w3.queue[i + 1]
          /\ \A i \in 1 .. Len(w3'.queue) - 1 : i + 1 \in 1 .. Len(w3.queue) - 1
      BY <1>b, <2>2, TailKeepsLast
    <3>2. w7' = w7 /\ w5' = w5 /\ w4' = w4 /\ w1' = w1
      BY DEF Executors!Acks, Executors!ghosts, Executors!daemonVars
    <3>3. w3'.queue # <<>>
      <4>1. Len(w3'.queue) # 0
        BY <3>1
      <4>2. Len(<<>>) = 0
        OBVIOUS
      <4> QED BY <4>1, <4>2
    <3> QED BY <1>0, <1>a, <3>1, <3>2, <3>3 DEF FinalHolds
  <2> QED BY <2>1, <2>2
<1>8. PartialUnrecorded'
  BY <1>0 DEF Executors!Acks, Executors!ghosts, Executors!daemonVars, PartialUnrecorded, ExecutorDiskTypes
<1>9. PartialBefore'
  BY <1>0 DEF Executors!Acks, Executors!ghosts, Executors!daemonVars, PartialBefore, ExecutorDiskTypes,
       PartialUnrecorded, PlanStale, BootTypes, Plainly
<1>10. PartialStale'
  BY <1>0 DEF Executors!Acks, Executors!ghosts, Executors!daemonVars, PartialStale, Plainly, Continues,
       PartialBefore, LastTypes, QueueTypes, QueueBefore, ExecutorChainTypes, ExecutorDiskTypes, PlanStale,
       Executors!Worktree, StagedCapture
<1>11. PlanStale'
  BY <1>0 DEF Executors!Acks, Executors!ghosts, Executors!daemonVars, PlanStale, Plainly, Continues,
       PartialStale, PartialBefore, LastTypes, QueueTypes, QueueBefore, ExecutorChainTypes, ExecutorDiskTypes,
       BootTypes, Executors!Worktree, StagedCapture
<1>12. /\ ExecutorChainTypes' /\ BootTypes' /\ PlanLaunch' /\ EngineTypes' /\ StagedTypes' /\ EngineUp'
       /\ Counts' /\ ExitCodes' /\ Destroyed'
  BY <1>0 DEF Executors!Acks, Executors!ghosts, Executors!daemonVars, ExecutorChainTypes, BootTypes,
       PlanLaunch,
       EngineTypes, StagedTypes, EngineUp, Counts, ExitCodes, Destroyed, Continues, Plainly,
       Executors!DestroyIsSafe
<1> QED BY <1>1, <1>2, <1>3, <1>4, <1>5, <1>6, <1>7, <1>8, <1>9, <1>10, <1>11, <1>12 DEF ExecutorInv

(* ReplanStarts keeps the invariant.                                       *)
LEMMA ExecutorReplanStarts ==
  ASSUME ExecutorInv, Executors!ReplanStarts
  PROVE  ExecutorInv'
<1>0. /\ ExecutorChainTypes /\ ExecutorDiskTypes /\ QueueTypes /\ QueueBefore /\ LastTypes /\ BootTypes
      /\ PlanLaunch /\ EngineTypes /\ StagedTypes /\ EngineUp /\ Counts /\ ExitCodes
      /\ Unwritten /\ ClaimTypes /\ Destroyed /\ FinalHolds /\ PartialUnrecorded
      /\ PartialBefore /\ PartialStale /\ PlanStale
  BY DEF ExecutorInv
<1>1. ExecutorDiskTypes'
  BY <1>0 DEF Executors!ReplanStarts, Executors!Spent, Executors!Plan, Executors!Leased,
       Executors!ghosts, ExecutorDiskTypes
<1>2. QueueTypes'
  BY <1>0 DEF Executors!ReplanStarts, Executors!Spent, Executors!Plan, Executors!Leased,
       Executors!ghosts, QueueTypes, ExecutorDiskTypes, ExecutorChainTypes, EngineTypes, Counts, StagedCapture
<1>3. QueueBefore'
  BY <1>0 DEF Executors!ReplanStarts, Executors!Spent, Executors!Plan, Executors!Leased,
       Executors!ghosts, QueueBefore, ExecutorChainTypes, ExecutorDiskTypes, BootTypes, QueueTypes,
            EngineTypes,
       StagedCapture, Executors!Worktree
<1>4. LastTypes'
  BY <1>0 DEF Executors!ReplanStarts, Executors!Spent, Executors!Plan, Executors!Leased,
       Executors!ghosts, LastTypes, ExecutorDiskTypes, EngineTypes, StagedTypes, EngineUp, ExecutorChainTypes,
       Executors!Nil, Executors!Worktree
<1>5. BootTypes'
  BY <1>0, NoBootIs DEF Executors!ReplanStarts, Executors!Spent, Executors!Plan, Executors!Leased,
       Executors!ghosts, BootTypes, ExecutorChainTypes, Executors!Worktree
<1>6. PlanLaunch'
  BY <1>0 DEF Executors!ReplanStarts, Executors!Spent, Executors!Plan, Executors!Leased,
       Executors!ghosts, PlanLaunch, BootTypes
<1>7. EngineUp'
  BY <1>0, NoEngineIs DEF Executors!ReplanStarts, Executors!Spent, Executors!Plan, Executors!Leased,
       Executors!ghosts, EngineUp, EngineTypes, StagedTypes, PlanLaunch, BootTypes, UpSteps
<1>8. Counts'
  BY <1>0 DEF Executors!ReplanStarts, Executors!Spent, Executors!Plan, Executors!Leased,
       Executors!ghosts, Counts, QueueTypes, ExecutorDiskTypes, StagedCapture
<1>9. Unwritten'
  BY <1>0, NoBootIs DEF Executors!ReplanStarts, Executors!Spent, Executors!Plan, Executors!Leased,
       Executors!ghosts, Unwritten, ExecutorDiskTypes, BootTypes, ClaimTypes, BootSteps, UpSteps
<1>10. ClaimTypes'
  BY <1>0 DEF Executors!ReplanStarts, Executors!Spent, Executors!Plan, Executors!Leased,
       Executors!ghosts, ClaimTypes, ExecutorDiskTypes
<1>11. Destroyed'
  BY <1>0 DEF Executors!ReplanStarts, Executors!Spent, Executors!Plan, Executors!Leased,
       Executors!ghosts, Destroyed, Executors!DestroyIsSafe, Counts, Unwritten, FinalHolds,
       Executors!EXIT_CAPTURE_INCOMPLETE, Executors!EXIT_NOTHING_TO_SAVE, Executors!EXIT_STORE_UNFIT
<1>12. FinalHolds'
  BY <1>0 DEF Executors!ReplanStarts, Executors!Spent, Executors!Plan, Executors!Leased,
       Executors!ghosts, FinalHolds, Counts, StagedCapture, Executors!Worktree
<1>13. PartialUnrecorded'
  BY <1>0 DEF Executors!ReplanStarts, PartialUnrecorded, ExecutorDiskTypes, Unwritten, UpSteps
<1>14. PartialBefore'
  BY <1>0 DEF Executors!ReplanStarts, Executors!Spent, Executors!Plan, Executors!Leased,
       Executors!ghosts, PartialBefore, ExecutorDiskTypes, PartialUnrecorded, PlanStale, BootTypes, Plainly
<1>15. PartialStale'
  BY <1>0 DEF Executors!ReplanStarts, Executors!Spent, Executors!Plan, Executors!Leased,
       Executors!ghosts, PartialStale, Plainly, Continues, PartialBefore, LastTypes, QueueTypes,
       QueueBefore, ExecutorChainTypes, ExecutorDiskTypes, PlanStale, Executors!Worktree, StagedCapture
<1>16. PlanStale'
  BY <1>0 DEF Executors!ReplanStarts, Executors!Spent, Executors!Plan, Executors!Leased,
       Executors!ghosts, PlanStale, Plainly, Continues, PartialStale, PartialBefore, LastTypes,
       QueueTypes, QueueBefore, ExecutorChainTypes, ExecutorDiskTypes, BootTypes, Executors!Worktree,
            StagedCapture
<1>17. ExecutorChainTypes' /\ EngineTypes' /\ StagedTypes' /\ ExitCodes'
  BY <1>0 DEF Executors!ReplanStarts, Executors!Spent, Executors!Plan, Executors!Leased,
       Executors!ghosts, ExecutorChainTypes, EngineTypes, StagedTypes, ExitCodes, Continues, Plainly,
       Executors!DestroyIsSafe
<1> QED BY <1>1, <1>2, <1>3, <1>4, <1>5, <1>6, <1>7, <1>8, <1>9, <1>10, <1>11, <1>12, <1>13, <1>14,
     <1>15, <1>16, <1>17 DEF ExecutorInv

(* ReplanMaterialized keeps the invariant.                                 *)
LEMMA ExecutorReplanMaterialized ==
  ASSUME ExecutorInv, Executors!ReplanMaterialized
  PROVE  ExecutorInv'
<1>0. /\ ExecutorChainTypes /\ ExecutorDiskTypes /\ QueueTypes /\ QueueBefore /\ LastTypes /\ BootTypes
      /\ PlanLaunch /\ EngineTypes /\ StagedTypes /\ EngineUp /\ Counts /\ ExitCodes
      /\ Unwritten /\ ClaimTypes /\ Destroyed /\ FinalHolds /\ PartialUnrecorded
      /\ PartialBefore /\ PartialStale /\ PlanStale
  BY DEF ExecutorInv
<1>1. ExecutorDiskTypes'
  BY <1>0 DEF Executors!ReplanMaterialized, Executors!Spent, Executors!ghosts, Executors!daemonVars,
       ExecutorDiskTypes
<1>2. QueueTypes'
  BY <1>0 DEF Executors!ReplanMaterialized, Executors!Spent, Executors!ghosts, Executors!daemonVars,
       QueueTypes, ExecutorDiskTypes, ExecutorChainTypes, EngineTypes, Counts, StagedCapture
<1>3. QueueBefore'
  BY <1>0 DEF Executors!ReplanMaterialized, Executors!Spent, Executors!ghosts, Executors!daemonVars,
       QueueBefore, ExecutorChainTypes, ExecutorDiskTypes, BootTypes, QueueTypes, EngineTypes, StagedCapture,
       Executors!Worktree
<1>4. LastTypes'
  BY <1>0 DEF Executors!ReplanMaterialized, Executors!Spent, Executors!ghosts, Executors!daemonVars,
       LastTypes, ExecutorDiskTypes, EngineTypes, StagedTypes, EngineUp, ExecutorChainTypes,
            Executors!Nil, Executors!Worktree
<1>5. PlanLaunch'
  BY <1>0 DEF Executors!ReplanMaterialized, Executors!Spent, Executors!ghosts, Executors!daemonVars,
       PlanLaunch, BootTypes
<1>6. EngineUp'
  BY <1>0, NoEngineIs DEF Executors!ReplanMaterialized, Executors!Spent, Executors!ghosts,
       Executors!daemonVars, EngineUp, EngineTypes, StagedTypes, PlanLaunch, BootTypes, UpSteps
<1>7. Unwritten'
  BY <1>0, NoBootIs DEF Executors!ReplanMaterialized, Executors!Spent, Executors!ghosts,
       Executors!daemonVars, Unwritten, ExecutorDiskTypes, BootTypes, ClaimTypes, BootSteps, UpSteps
<1>8. ClaimTypes'
  BY <1>0 DEF Executors!ReplanMaterialized, Executors!Spent, Executors!ghosts, Executors!daemonVars,
       ClaimTypes, ExecutorDiskTypes
<1>9. Destroyed'
  BY <1>0 DEF Executors!ReplanMaterialized, Executors!Spent, Executors!ghosts, Executors!daemonVars,
       Destroyed, Executors!DestroyIsSafe, Counts, Unwritten, FinalHolds,
       Executors!EXIT_CAPTURE_INCOMPLETE, Executors!EXIT_NOTHING_TO_SAVE, Executors!EXIT_STORE_UNFIT
<1>10. FinalHolds'
  BY <1>0 DEF Executors!ReplanMaterialized, Executors!Spent, Executors!ghosts, Executors!daemonVars,
       FinalHolds, Counts, StagedCapture, Executors!Worktree
<1>11. PartialUnrecorded'
  BY <1>0 DEF Executors!ReplanMaterialized, Executors!Spent, Executors!ghosts, Executors!daemonVars,
       PartialUnrecorded, ExecutorDiskTypes
<1>12. PartialBefore'
  BY <1>0 DEF Executors!ReplanMaterialized, Executors!Spent, Executors!ghosts, Executors!daemonVars,
       PartialBefore, ExecutorDiskTypes, PartialUnrecorded, PlanStale, BootTypes, Plainly
<1>13. PartialStale'
  BY <1>0 DEF Executors!ReplanMaterialized, Executors!Spent, Executors!ghosts, Executors!daemonVars,
       PartialStale, Plainly, Continues, PartialBefore, LastTypes, QueueTypes, QueueBefore,
            ExecutorChainTypes,
       ExecutorDiskTypes, PlanStale, Executors!Worktree, StagedCapture
<1>14. PlanStale'
  BY <1>0 DEF Executors!ReplanMaterialized, Executors!Spent, Executors!ghosts, Executors!daemonVars,
       PlanStale, Plainly, Continues, PartialStale, PartialBefore, LastTypes, QueueTypes, QueueBefore,
       ExecutorChainTypes, ExecutorDiskTypes, BootTypes, Executors!Worktree, StagedCapture
<1>15. ExecutorChainTypes' /\ BootTypes' /\ EngineTypes' /\ StagedTypes' /\ Counts' /\ ExitCodes'
  BY <1>0 DEF Executors!ReplanMaterialized, Executors!Spent, Executors!ghosts, Executors!daemonVars,
       ExecutorChainTypes, BootTypes, EngineTypes, StagedTypes, Counts, ExitCodes, Continues, Plainly,
       Executors!DestroyIsSafe
<1> QED BY <1>1, <1>2, <1>3, <1>4, <1>5, <1>6, <1>7, <1>8, <1>9, <1>10, <1>11, <1>12, <1>13, <1>14,
     <1>15 DEF ExecutorInv

(* ReplanRebases keeps the invariant.                                      *)
LEMMA ExecutorReplanRebases ==
  ASSUME ExecutorInv, Executors!ReplanRebases
  PROVE  ExecutorInv'
<1>0. /\ ExecutorChainTypes /\ ExecutorDiskTypes /\ QueueTypes /\ QueueBefore /\ LastTypes /\ BootTypes
      /\ PlanLaunch /\ EngineTypes /\ StagedTypes /\ EngineUp /\ Counts /\ ExitCodes
      /\ Unwritten /\ ClaimTypes /\ Destroyed /\ FinalHolds /\ PartialUnrecorded
      /\ PartialBefore /\ PartialStale /\ PlanStale
  BY DEF ExecutorInv
<1>a. PICK own \in Executors!OwnQueue : w3' = [w3 EXCEPT !.queue = own] BY DEF Executors!ReplanRebases
<1>b. own \in Seq(StagedCapture) /\ \A i \in 1 .. Len(own) : \E j \in 1 .. Len(w3.queue) : own[i] = w3.queue[j]
  BY <1>0, OwnQueueIs
<1>c. w3'.queue = own BY <1>0, <1>a DEF ExecutorDiskTypes
<1>1. ExecutorDiskTypes'
  BY <1>0 DEF Executors!ReplanRebases, Executors!ghosts, Executors!daemonVars, ExecutorDiskTypes
<1>2. QueueTypes'
  BY <1>b, <1>c DEF QueueTypes
<1>3. QueueBefore'
  BY <1>0, <1>b, <1>c DEF QueueBefore, Executors!ReplanRebases, Executors!daemonVars
<1>4. LastTypes'
  BY <1>0 DEF Executors!ReplanRebases, Executors!ghosts, Executors!daemonVars, LastTypes, ExecutorDiskTypes,
       EngineTypes, StagedTypes, EngineUp, ExecutorChainTypes, Executors!Nil, Executors!Worktree
<1>5. PlanLaunch'
  BY <1>0 DEF Executors!ReplanRebases, Executors!ghosts, Executors!daemonVars, PlanLaunch, BootTypes
<1>6. EngineTypes'
  BY <1>0, NoEngineIs DEF Executors!ReplanRebases, Executors!ghosts, Executors!daemonVars, EngineTypes,
       ExecutorChainTypes, BootTypes, Executors!Worktree
<1>7. StagedTypes'
  BY <1>0, NoEngineIs DEF Executors!ReplanRebases, Executors!ghosts, Executors!daemonVars, StagedTypes,
       ExecutorChainTypes, EngineTypes
<1>8. EngineUp'
  BY <1>0, NoEngineIs DEF Executors!ReplanRebases, Executors!ghosts, Executors!daemonVars, EngineUp,
       EngineTypes, StagedTypes, PlanLaunch, BootTypes, UpSteps
<1>9. Unwritten'
  BY <1>0, NoBootIs DEF Executors!ReplanRebases, Executors!ghosts, Executors!daemonVars, Unwritten,
       ExecutorDiskTypes, BootTypes, ClaimTypes, BootSteps, UpSteps
<1>10. ClaimTypes'
  BY <1>0 DEF Executors!ReplanRebases, Executors!ghosts, Executors!daemonVars, ClaimTypes, ExecutorDiskTypes
<1>11. Destroyed'
  BY <1>0 DEF Executors!ReplanRebases, Executors!ghosts, Executors!daemonVars, Destroyed,
       Executors!DestroyIsSafe, Counts, Unwritten, FinalHolds, Executors!EXIT_CAPTURE_INCOMPLETE,
       Executors!EXIT_NOTHING_TO_SAVE, Executors!EXIT_STORE_UNFIT
<1>12. FinalHolds'
  BY <1>0 DEF Executors!ReplanRebases, Executors!ghosts, Executors!daemonVars, FinalHolds, Counts,
       StagedCapture, Executors!Worktree
<1>13. PartialUnrecorded'
  BY <1>0 DEF Executors!ReplanRebases, Executors!ghosts, Executors!daemonVars, PartialUnrecorded,
       ExecutorDiskTypes
<1>14. PartialBefore'
  BY <1>0 DEF Executors!ReplanRebases, Executors!ghosts, Executors!daemonVars, PartialBefore,
       ExecutorDiskTypes,
       PartialUnrecorded, PlanStale, BootTypes, Plainly
<1>15. PartialStale'
  BY <1>0 DEF Executors!ReplanRebases, Executors!ghosts, Executors!daemonVars, PartialStale, Plainly,
       Continues, PartialBefore, LastTypes, QueueTypes, QueueBefore, ExecutorChainTypes,
            ExecutorDiskTypes, PlanStale,
       Executors!Worktree, StagedCapture
<1>16. PlanStale'
  BY <1>0 DEF Executors!ReplanRebases, Executors!ghosts, Executors!daemonVars, PlanStale, Plainly,
       Continues, PartialStale, PartialBefore, LastTypes, QueueTypes, QueueBefore, ExecutorChainTypes,
       ExecutorDiskTypes, BootTypes, Executors!Worktree, StagedCapture
<1>17. ExecutorChainTypes' /\ BootTypes' /\ Counts' /\ ExitCodes'
  BY <1>0 DEF Executors!ReplanRebases, Executors!ghosts, Executors!daemonVars, ExecutorChainTypes, BootTypes,
       Counts, ExitCodes, Continues, Plainly, Executors!DestroyIsSafe
<1> QED BY <1>1, <1>2, <1>3, <1>4, <1>5, <1>6, <1>7, <1>8, <1>9, <1>10, <1>11, <1>12, <1>13, <1>14,
     <1>15, <1>16, <1>17 DEF ExecutorInv

(* FinalReleases keeps the invariant.                                      *)
LEMMA ExecutorFinalReleases ==
  ASSUME ExecutorInv, Executors!FinalReleases
  PROVE  ExecutorInv'
<1>0. /\ ExecutorChainTypes /\ ExecutorDiskTypes /\ QueueTypes /\ QueueBefore /\ LastTypes /\ BootTypes
      /\ PlanLaunch /\ EngineTypes /\ StagedTypes /\ EngineUp /\ Counts /\ ExitCodes
      /\ Unwritten /\ ClaimTypes /\ Destroyed /\ FinalHolds /\ PartialUnrecorded
      /\ PartialBefore /\ PartialStale /\ PlanStale
  BY DEF ExecutorInv
<1>1. ExecutorDiskTypes'
  BY <1>0 DEF Executors!FinalReleases, Executors!ghosts, Executors!daemonVars, ExecutorDiskTypes
<1>2. QueueTypes'
  BY <1>0 DEF Executors!FinalReleases, Executors!ghosts, Executors!daemonVars, QueueTypes, ExecutorDiskTypes,
       ExecutorChainTypes, EngineTypes, Counts, StagedCapture
<1>3. QueueBefore'
  BY <1>0 DEF Executors!FinalReleases, Executors!ghosts, Executors!daemonVars, QueueBefore,
       ExecutorChainTypes,
       ExecutorDiskTypes, BootTypes, QueueTypes, EngineTypes, StagedCapture, Executors!Worktree
<1>4. LastTypes'
  BY <1>0 DEF Executors!FinalReleases, Executors!ghosts, Executors!daemonVars, LastTypes, ExecutorDiskTypes,
       EngineTypes, StagedTypes, EngineUp, ExecutorChainTypes, Executors!Nil, Executors!Worktree
<1>5. PlanLaunch'
  BY <1>0 DEF Executors!FinalReleases, Executors!ghosts, Executors!daemonVars, PlanLaunch, BootTypes
<1>6. EngineUp'
  BY <1>0, NoEngineIs DEF Executors!FinalReleases, Executors!ghosts, Executors!daemonVars, EngineUp,
       EngineTypes, StagedTypes, PlanLaunch, BootTypes, UpSteps
<1>7. Unwritten'
  BY <1>0, NoBootIs DEF Executors!FinalReleases, Executors!ghosts, Executors!daemonVars, Unwritten,
       ExecutorDiskTypes, BootTypes, ClaimTypes, BootSteps, UpSteps
<1>8. ClaimTypes'
  BY <1>0 DEF Executors!FinalReleases, Executors!ghosts, Executors!daemonVars, ClaimTypes, ExecutorDiskTypes
<1>9. Destroyed'
  BY <1>0 DEF Executors!FinalReleases, Executors!ghosts, Executors!daemonVars, Destroyed,
       Executors!DestroyIsSafe, Counts, Unwritten, FinalHolds, Executors!EXIT_CAPTURE_INCOMPLETE,
       Executors!EXIT_NOTHING_TO_SAVE, Executors!EXIT_STORE_UNFIT
<1>10. FinalHolds'
  BY <1>0 DEF Executors!FinalReleases, Executors!ghosts, Executors!daemonVars, FinalHolds, Counts,
       StagedCapture, Executors!Worktree
<1>11. PartialUnrecorded'
  BY <1>0 DEF Executors!FinalReleases, Executors!ghosts, Executors!daemonVars, PartialUnrecorded,
       ExecutorDiskTypes
<1>12. PartialBefore'
  BY <1>0 DEF Executors!FinalReleases, Executors!ghosts, Executors!daemonVars, PartialBefore,
       ExecutorDiskTypes,
       PartialUnrecorded, PlanStale, BootTypes, Plainly
<1>13. PartialStale'
  BY <1>0 DEF Executors!FinalReleases, Executors!ghosts, Executors!daemonVars, PartialStale, Plainly,
       Continues, PartialBefore, LastTypes, QueueTypes, QueueBefore, ExecutorChainTypes,
            ExecutorDiskTypes, PlanStale,
       Executors!Worktree, StagedCapture
<1>14. PlanStale'
  BY <1>0 DEF Executors!FinalReleases, Executors!ghosts, Executors!daemonVars, PlanStale, Plainly,
       Continues, PartialStale, PartialBefore, LastTypes, QueueTypes, QueueBefore, ExecutorChainTypes,
       ExecutorDiskTypes, BootTypes, Executors!Worktree, StagedCapture
<1>15. ExecutorChainTypes' /\ BootTypes' /\ EngineTypes' /\ StagedTypes' /\ Counts' /\ ExitCodes'
  BY <1>0 DEF Executors!FinalReleases, Executors!ghosts, Executors!daemonVars, ExecutorChainTypes, BootTypes,
       EngineTypes, StagedTypes, Counts, ExitCodes, Continues, Plainly, Executors!DestroyIsSafe
<1> QED BY <1>1, <1>2, <1>3, <1>4, <1>5, <1>6, <1>7, <1>8, <1>9, <1>10, <1>11, <1>12, <1>13, <1>14,
     <1>15 DEF ExecutorInv

(* ReleasedEnds keeps the invariant.                                       *)
LEMMA ExecutorReleasedEnds ==
  ASSUME ExecutorInv, Executors!ReleasedEnds
  PROVE  ExecutorInv'
<1>1. Executors!Ends(Executors!EXIT_NOTHING_TO_SAVE) /\ UNCHANGED <<w1, w2, w3, w4, w5, w6>>
  BY DEF Executors!ReleasedEnds, Executors!ghosts
<1>2. w4 = w5 BY DEF Executors!ReleasedEnds, ExecutorInv, Unwritten, Counts
<1>s. SameDisk BY <1>1, SameDiskIs DEF ExecutorInv
<1> QED BY <1>s, <1>1, <1>2, ExecutorEnding

(* FinalStarts keeps the invariant.                                        *)
LEMMA ExecutorFinalStarts ==
  ASSUME ExecutorInv, Executors!FinalStarts
  PROVE  ExecutorInv'
<1>0. /\ ExecutorChainTypes /\ ExecutorDiskTypes /\ QueueTypes /\ QueueBefore /\ LastTypes /\ BootTypes
      /\ PlanLaunch /\ EngineTypes /\ StagedTypes /\ EngineUp /\ Counts /\ ExitCodes
      /\ Unwritten /\ ClaimTypes /\ Destroyed /\ FinalHolds /\ PartialUnrecorded
      /\ PartialBefore /\ PartialStale /\ PlanStale
  BY DEF ExecutorInv
<1> DEFINE c == [capture |-> w1.next, parent |-> w9.previous, worktree |-> w9.worktree,
                 epoch |-> w9.epoch, holds |-> w4]
<1>a. c \in StagedCapture BY <1>0 DEF ExecutorChainTypes, EngineTypes, Counts, StagedCapture
<1>b. w3'.queue = Append(w3.queue, c) BY <1>0 DEF Executors!FinalStarts, ExecutorDiskTypes
<1>c. /\ w3'.queue \in Seq(StagedCapture) /\ Len(w3'.queue) = Len(w3.queue) + 1
      /\ \A i \in 1 .. Len(w3.queue) : w3'.queue[i] = w3.queue[i]
      /\ w3'.queue[Len(w3.queue) + 1] = c /\ Len(w3.queue) \in Nat
  BY <1>0, <1>a, <1>b, QueueGrows, QueuedIs
<1>d. /\ w1'.next = w1.next + 1 /\ w1.next \in Nat
      /\ \A w \in Executors!Worktree : w1'[w] = w1[w]
  BY <1>0 DEF Executors!FinalStarts, ExecutorChainTypes, Executors!Worktree
<1>1. ExecutorChainTypes'
  BY <1>0 DEF Executors!FinalStarts, Executors!ghosts, ExecutorChainTypes, QueueTypes,
       ExecutorDiskTypes, QueueBefore,
       Executors!Worktree, StagedCapture
<1>2. ExecutorDiskTypes'
  BY <1>0 DEF Executors!FinalStarts, Executors!ghosts, ExecutorDiskTypes
<1>3. QueueTypes'
  BY <1>c DEF QueueTypes
<1>4. QueueBefore'
  <2>1. c.capture < w1.next + 1 /\ c.parent < w1.next + 1 BY <1>0, <1>d DEF EngineTypes
  <2>2. ASSUME NEW i \in 1 .. Len(w3.queue) + 1
        PROVE  w3'.queue[i].capture < w1.next + 1 /\ w3'.queue[i].parent < w1.next + 1
    <3>1. CASE i \in 1 .. Len(w3.queue)
      <4>1. w3'.queue[i] = w3.queue[i] BY <1>c, <3>1
      <4>2. w3.queue[i].capture \in Nat /\ w3.queue[i].parent \in Nat BY <1>0, <3>1, QueuedIs
      <4>3. w3.queue[i].capture < w1.next /\ w3.queue[i].parent < w1.next
        BY <1>0, <3>1 DEF QueueBefore
      <4> QED BY <1>d, <4>1, <4>2, <4>3
    <3>2. CASE i = Len(w3.queue) + 1 BY <1>c, <2>1, <3>2
    <3> QED BY <1>c, <3>1, <3>2
  <2> QED BY <1>c, <1>d, <2>2 DEF QueueBefore
<1>5. LastTypes'
  BY <1>0 DEF Executors!FinalStarts, Executors!ghosts, LastTypes, ExecutorDiskTypes, EngineTypes, StagedTypes,
       EngineUp, ExecutorChainTypes, Executors!Nil, Executors!Worktree
<1>6. BootTypes'
  BY <1>0, NoBootIs DEF Executors!FinalStarts, Executors!ghosts, BootTypes, ExecutorChainTypes,
       Executors!Worktree
<1>7. PlanLaunch'
  BY <1>0 DEF Executors!FinalStarts, Executors!ghosts, PlanLaunch, BootTypes
<1>8. EngineTypes'
  BY <1>0, NoEngineIs DEF Executors!FinalStarts, Executors!ghosts, EngineTypes, ExecutorChainTypes, BootTypes,
       Executors!Worktree
<1>9. StagedTypes'
  BY <1>0, NoEngineIs DEF Executors!FinalStarts, Executors!ghosts, StagedTypes, ExecutorChainTypes,
       EngineTypes
<1>10. EngineUp'
  BY <1>0, NoEngineIs DEF Executors!FinalStarts, Executors!ghosts, EngineUp, EngineTypes, StagedTypes,
       PlanLaunch, BootTypes, UpSteps
<1>11. Unwritten'
  BY <1>0, NoBootIs DEF Executors!FinalStarts, Executors!ghosts, Unwritten, ExecutorDiskTypes, BootTypes,
       ClaimTypes, BootSteps, UpSteps
<1>12. ClaimTypes'
  BY <1>0 DEF Executors!FinalStarts, Executors!ghosts, ClaimTypes, ExecutorDiskTypes
<1>13. Destroyed'
  BY <1>0 DEF Executors!FinalStarts, Executors!ghosts, Destroyed, Executors!DestroyIsSafe, Counts,
       Unwritten, FinalHolds, Executors!EXIT_CAPTURE_INCOMPLETE, Executors!EXIT_NOTHING_TO_SAVE,
       Executors!EXIT_STORE_UNFIT
<1>14. FinalHolds'
  <2>1. w3'.queue # <<>> BY <1>c
  <2>2. w3'.queue[Len(w3'.queue)] = c BY <1>c
  <2>3. c.holds = w4 /\ w4' = w4 BY DEF Executors!FinalStarts, Executors!ghosts
  <2>4. w1'[c.worktree].head # c.capture
    <3>1. c.worktree \in Executors!Worktree /\ c.capture = w1.next BY <1>0 DEF EngineTypes
    <3> QED BY <1>0, <1>d, <3>1 DEF ExecutorChainTypes
  <2>5. \A i \in 1 .. Len(w3'.queue) - 1 : w3'.queue[i].capture # c.capture
    BY <1>0, <1>c, <1>d, QueuedIs DEF QueueBefore
  <2> QED BY <2>1, <2>2, <2>3, <2>4, <2>5 DEF FinalHolds
<1>15. PartialUnrecorded'
  BY <1>0 DEF Executors!FinalStarts, Executors!ghosts, PartialUnrecorded, ExecutorDiskTypes
<1>16. PartialBefore'
  BY <1>0 DEF Executors!FinalStarts, Executors!ghosts, PartialBefore, ExecutorDiskTypes, PartialUnrecorded,
       PlanStale, BootTypes, Plainly
<1>17. PartialStale'
  BY <1>0 DEF Executors!FinalStarts, Executors!ghosts, PartialStale, Plainly, Continues, PartialBefore,
       LastTypes, QueueTypes, QueueBefore, ExecutorChainTypes, ExecutorDiskTypes, PlanStale,
            Executors!Worktree, StagedCapture
<1>18. PlanStale'
  BY <1>0 DEF Executors!FinalStarts, Executors!ghosts, PlanStale, Plainly, Continues, PartialStale,
       PartialBefore, LastTypes, QueueTypes, QueueBefore, ExecutorChainTypes, ExecutorDiskTypes, BootTypes,
       Executors!Worktree, StagedCapture
<1>19. Counts' /\ ExitCodes'
  BY <1>0 DEF Executors!FinalStarts, Executors!ghosts, Counts, ExitCodes, Continues, Plainly,
       Executors!DestroyIsSafe
<1> QED BY <1>1, <1>2, <1>3, <1>4, <1>5, <1>6, <1>7, <1>8, <1>9, <1>10, <1>11, <1>12, <1>13, <1>14,
     <1>15, <1>16, <1>17, <1>18, <1>19 DEF ExecutorInv

(* FinalEnds keeps the invariant.                                          *)
LEMMA ExecutorFinalEnds ==
  ASSUME ExecutorInv, Executors!FinalEnds
  PROVE  ExecutorInv'
<1>1. (w3.queue = <<>> /\ Executors!Ends(0)) \/ Executors!Ends(Executors!EXIT_CAPTURE_INCOMPLETE) BY DEF Executors!FinalEnds
<1>2. UNCHANGED <<w1, w2, w3, w4, w5, w6>> BY DEF Executors!FinalEnds, Executors!ghosts
<1>3. w3.queue = <<>> => w4 = w5 BY DEF Executors!FinalEnds, ExecutorInv, FinalHolds
<1>4. Executors!EXIT_CAPTURE_INCOMPLETE \notin {0, Executors!EXIT_NOTHING_TO_SAVE}
  BY DEF Executors!EXIT_CAPTURE_INCOMPLETE, Executors!EXIT_NOTHING_TO_SAVE
<1>s. SameDisk BY <1>2, SameDiskIs DEF ExecutorInv
<1> QED BY <1>s, <1>1, <1>2, <1>3, <1>4, ExecutorEnding

(* The invariant holds at the start.                                       *)
LEMMA ExecutorInitial ==
  ASSUME Executors!ExecutorInit
  PROVE  ExecutorInv
<1>1. w12.base \in 0 .. 2 /\ w12.head \in 0 .. 2
  BY ExecutorConstant DEF Executors!ExecutorInit, Executors!ExecutorConstants
<1>2. /\ {"placeholder", "session", "next"} \subseteq DOMAIN w1 /\ w1.next = 3
      /\ w1["placeholder"] = [head |-> w12.base, epoch |-> 1, free |-> FALSE]
      /\ w1["session"] = [head |-> w12.head, epoch |-> 1, free |-> w12.kind = "pooled"]
  BY DEF Executors!ExecutorInit
<1>3. ExecutorChainTypes BY <1>1, <1>2 DEF Executors!ExecutorInit, ExecutorChainTypes, Executors!Worktree
<1>4. /\ w3.dir = "absent" /\ w3.queue = <<>> /\ w3.last = Executors!Nil /\ ~w3.partial /\ ~w3.marker
      /\ {"dir", "staging", "marker", "partial", "mat", "last", "queue"} \subseteq DOMAIN w3
  BY DEF Executors!ExecutorInit, Executors!DiskEmpty
<1>5. ExecutorDiskTypes /\ QueueTypes /\ QueueBefore BY <1>4 DEF ExecutorDiskTypes, QueueTypes, QueueBefore
<1>6. LastTypes BY <1>2, <1>4 DEF LastTypes, Executors!Nil
<1>7. BootTypes /\ PlanLaunch BY <1>2, NoBootIs DEF Executors!ExecutorInit, BootTypes, PlanLaunch,
     Executors!Worktree
<1>8. EngineTypes /\ StagedTypes /\ EngineUp
  BY <1>2, NoEngineIs DEF Executors!ExecutorInit, EngineTypes, StagedTypes, EngineUp,
       Executors!Worktree, UpSteps
<1>9. Counts /\ ExitCodes /\ Destroyed BY DEF Executors!ExecutorInit, Counts, ExitCodes, Destroyed,
     Executors!DestroyIsSafe
<1>10. Unwritten /\ ClaimTypes /\ FinalHolds
  BY <1>4 DEF Executors!ExecutorInit, Unwritten, ClaimTypes, FinalHolds, BootSteps, UpSteps
<1>11. PartialUnrecorded /\ PartialBefore /\ PartialStale /\ PlanStale
  BY <1>4 DEF Executors!ExecutorInit, PartialUnrecorded, PartialBefore, PartialStale, PlanStale, Plainly
<1> QED BY <1>3, <1>5, <1>6, <1>7, <1>8, <1>9, <1>10, <1>11 DEF ExecutorInv

(* Every step keeps the invariant.                                         *)
LEMMA ExecutorStep ==
  ASSUME ExecutorInv, Executors!ExecutorNext
  PROVE  ExecutorInv'
BY ExecutorAssign, ExecutorTakenOver, ExecutorGivenBack, ExecutorKilled, ExecutorStartBoot,
     ExecutorPlanGet, ExecutorPlanRefused, ExecutorPickup, ExecutorMaterializeStarts,
     ExecutorMaterializeEnds, ExecutorRecord, ExecutorMark, ExecutorOpen, ExecutorWrites,
     ExecutorSnapQueues, ExecutorSnapPersists, ExecutorRegisters, ExecutorAcks, ExecutorReplanStarts,
     ExecutorReplanMaterialized, ExecutorReplanRebases, ExecutorFinalReleases, ExecutorReleasedEnds,
     ExecutorFinalStarts, ExecutorFinalEnds DEF Executors!ExecutorNext, Executors!BootStep

(* The invariant is strong enough.                                         *)
LEMMA ExecutorInvImplies ==
  ASSUME ExecutorInv
  PROVE  Executors!ExecutorTypeOK /\ Executors!NothingIsLost
BY DEF ExecutorInv, ExecutorDiskTypes, ClaimTypes, ExitCodes, Counts, Destroyed, PartialBefore, Plainly,
     Executors!ExecutorTypeOK, Executors!NothingIsLost, Executors!ResumedDiskIsWhole

ExecutorPart == part = "executor" => ExecutorInv

(* The invariant is about these variables alone.                           *)
LEMMA ExecutorStutters ==
  ASSUME ExecutorInv, UNCHANGED <<w1, w2, w3, w4, w5, w6, w7, w8, w9, w10, w11, w12>>
  PROVE  ExecutorInv'
BY DEF ExecutorInv, StagedCapture, UpSteps, BootSteps, Plainly, ExecutorChainTypes, ExecutorDiskTypes,
     QueueTypes, QueueBefore, LastTypes, BootTypes, PlanLaunch, EngineTypes, StagedTypes, EngineUp,
     Counts, ExitCodes, Unwritten, ClaimTypes, Destroyed, FinalHolds, PartialUnrecorded, Continues,
     PartialBefore, PartialStale, PlanStale, Executors!DestroyIsSafe, Executors!EXIT_CAPTURE_INCOMPLETE,
     Executors!EXIT_NOTHING_TO_SAVE, Executors!EXIT_STORE_UNFIT, Executors!LaunchOf, Executors!Nil,
     Executors!Worktree

(* Whatever part runs, this one keeps its invariant.                       *)
LEMMA ExecutorAlways ==
  ASSUME ExecutorPart, [LifecycleNext]_partVars
  PROVE  ExecutorPart'
<1> SUFFICES ASSUME part' = "executor" PROVE ExecutorInv'
  BY DEF ExecutorPart
<1>1. part = "executor"
  BY DEF LifecycleNext, partVars
<1>2. ExecutorInv
  BY <1>1 DEF ExecutorPart
<1>3. CASE Executors!ExecutorNext
  BY <1>2, <1>3, ExecutorStep
<1>4. CASE UNCHANGED <<w1, w2, w3, w4, w5, w6, w7, w8, w9, w10, w11, w12>>
  BY <1>2, <1>4, ExecutorStutters
<1> QED BY <1>1, <1>3, <1>4 DEF LifecycleNext, partVars, From1, From3, From4, From5, From6, From7,
     From8, From10, From12, From13, From15, From17

(* An exit code that lets the platform destroy the disk is true, and no    *)
(* half-restored disk is captured as the session's, for any number of      *)
(* launches, crashes and captures (boot/capture.rs, engine.rs open,        *)
(* unclaimed.rs).                                                          *)
THEOREM ExecutorCorrect == LifecycleSpec => []NothingIsLost
<1>1. LifecycleInit => ExecutorPart
  BY ExecutorInitial DEF LifecycleInit, ExecutorPart
<1>2. ExecutorPart /\ [LifecycleNext]_partVars => ExecutorPart'
  BY ExecutorAlways
<1>3. ExecutorPart => NothingIsLost
  BY ExecutorInvImplies DEF NothingIsLost, ExecutorPart
<1> QED BY <1>1, <1>2, <1>3, PTL DEF LifecycleSpec

-------------------------------------------------------------------------------
(* FinalFlush: w1 to w16 are the variables of the final flush in the order *)
(* of its module.                                                          *)

FinalCapture == [small : Nat, bulk : Nat, kind : {"auto", "turn", "final"}, sealed : BOOLEAN]
FlushSteps ==
  {"idle", "close", "quiesce", "settle", "snaps", "small", "bulk", "final", "ship", "census", "settle2",
   "seal", "shipSeal", "standing", "outcome", "answer"}
(* The steps after a census that found nothing.                            *)
AfterCensus == {"settle2", "seal", "shipSeal", "standing"}
(* What the newest capture says of the disk.                               *)
SmallHeld == w9.small = w4["small"]
BulkHeld == w9.bulk = w4["bulk"]
(* Every write of a watched disk, seen or to be seen.                      *)
Writes == w6 + w5

FinalPartTypes ==
  /\ w1 \in [Writers -> {"none", "admitted", "running", "gone"}]
  /\ w13 \in {"not-run", "running", "snapped", "incomplete"}
FinalDiskTypes == w4 \in [Final!Classes -> Nat] /\ w5 \in Nat /\ w6 \in Nat
CountTypes == w7 \in Nat /\ w8 \in Nat
LeftTypes == "watched" \in DOMAIN w16
QuiesceTypes ==
  /\ w3 \in {"no", "stopped", "processes-remain"} /\ (w3 = "stopped" => w2)
  /\ w14.step = "quiesce" => w2
  /\ w14.step \in AfterCensus \cup {"census"} => w3 = "stopped"
FinalFlushTypes ==
  /\ {"step", "round", "attempts", "incomplete", "changes"} \subseteq DOMAIN w14
  /\ w14.step \in FlushSteps
RoundTypes ==
  /\ w14.round \in 0 .. Final!FINAL_ROUNDS /\ w14.attempts \in 0 .. Final!SEAL_ATTEMPTS
  /\ w14.step \in {"close", "quiesce", "settle"} => w14.round < Final!FINAL_ROUNDS
ChangesTypes == w14.changes \in Nat /\ w14.changes <= w6
SealTypes ==
  /\ {"changes", "staged", "completion"} \subseteq DOMAIN w12
  /\ w12 # Final!NoSeal =>
       /\ w12.changes \in Nat /\ w12.changes <= w6
       /\ w12.staged \in Nat /\ w12.staged <= w7
(* There is a seal to complete.                                            *)
Sealing == w14.step \in {"seal", "shipSeal", "standing"} => w12 # Final!NoSeal
(* The newest capture is the last queued, or the registrar's head.         *)
FinalChainTypes ==
  /\ w9 \in FinalCapture /\ w10 \in Seq(FinalCapture)
  /\ w10 = <<>> => w11 = w9
  /\ w10 # <<>> => w10[Len(w10)] = w9
(* Watched: as long as nothing was written since the count the snaps began *)
(* from, the newest capture holds the disk.                                *)
SnapHolds ==
  w16.watched /\ Writes = w14.changes =>
    /\ w14.step \in {"bulk", "final"} => SmallHeld
    /\ w14.step = "final" => BulkHeld
SealHolds == w16.watched /\ w12 # Final!NoSeal /\ Writes = w12.changes => SmallHeld /\ BulkHeld
(* Nothing runs after the look that would have found it.                   *)
Quiet ==
  /\ w3 = "stopped" /\ ~w15
  /\ w16.watched =>
       w14.step \in AfterCensus \/ (w14.step \in {"outcome", "answer"} /\ w14.incomplete = "none")
  => \A w \in Writers : w1[w] # "running"
SealStands ==
  /\ w16.watched /\ ~w15
  /\ \/ w14.step \in AfterCensus \ {"settle2"}
     \/ w14.step \in {"outcome", "answer"} /\ w14.incomplete = "none" /\ w3 = "stopped"
  => w12 # Final!NoSeal /\ Writes = w12.changes
(* Not watched: nothing is written once the writers are stopped.           *)
UnwatchedHolds ==
  ~w16.watched /\ w3 = "stopped" /\ ~w15 =>
    /\ w14.step \in {"bulk", "final"} => SmallHeld
    /\ w14.step = "final" => BulkHeld
    /\ w14.incomplete = "none" /\ w14.step \in AfterCensus \cup {"ship", "census", "outcome", "answer"} =>
         SmallHeld /\ BulkHeld
CompletionIs ==
  w14.step = "answer" /\ w12 # Final!NoSeal /\ w12.completion => w14.incomplete = "none" /\ w3 = "stopped"

FinalInv ==
  /\ FinalPartTypes
  /\ FinalDiskTypes
  /\ CountTypes
  /\ LeftTypes
  /\ QuiesceTypes
  /\ FinalFlushTypes
  /\ RoundTypes
  /\ ChangesTypes
  /\ SealTypes
  /\ Sealing
  /\ FinalChainTypes
  /\ SnapHolds
  /\ SealHolds
  /\ Quiet
  /\ SealStands
  /\ UnwatchedHolds
  /\ CompletionIs

(* The last element of a sequence that one was appended to.                *)
LEMMA FinalAppends ==
  ASSUME NEW S, NEW s \in Seq(S), NEW c \in S
  PROVE  /\ Append(s, c) \in Seq(S) /\ Append(s, c) # <<>>
         /\ Append(s, c)[Len(Append(s, c))] = c
OBVIOUS

(* A sequence of length zero is the empty one.                             *)
LEMMA FinalEmpty ==
  ASSUME NEW S, NEW s \in Seq(S), Len(s) = 0
  PROVE  s = <<>>
OBVIOUS

(* The last element of a sequence is that of its tail, or its head when    *)
(* nothing follows it.                                                     *)
LEMMA FinalTails ==
  ASSUME NEW S, NEW s \in Seq(S), s # <<>>
  PROVE  /\ Tail(s) \in Seq(S)
         /\ Tail(s) = <<>> => Head(s) = s[Len(s)]
         /\ Tail(s) # <<>> => Tail(s)[Len(Tail(s))] = s[Len(s)]
<1>1. /\ Tail(s) \in Seq(S) /\ Len(s) \in Nat \ {0} /\ Len(Tail(s)) = Len(s) - 1
      /\ \A i \in 1 .. (Len(s) - 1) : Tail(s)[i] = s[i + 1]
  OBVIOUS
<1>2. CASE Len(s) = 1
  <2>1. Head(s) = s[Len(s)]
    BY <1>2
  <2>2. Tail(s) = <<>>
    <3>1. Len(Tail(s)) = 0
      BY <1>1, <1>2
    <3> QED BY <1>1, <3>1, FinalEmpty, Zenon
  <2> QED BY <1>1, <2>1, <2>2
<1>3. CASE Len(s) # 1
  <2>1. Len(s) - 1 \in 1 .. (Len(s) - 1) /\ Len(s) - 1 + 1 = Len(s)
    BY <1>1, <1>3
  <2>2. Tail(s) # <<>>
    BY <1>1, <1>3
  <2> QED BY <1>1, <2>1, <2>2
<1> QED BY <1>2, <1>3

(* A capture put on the queue leaves the queue a chain that ends with it.  *)
LEMMA FinalChained ==
  ASSUME FinalChainTypes, w9' \in FinalCapture, w10' = Append(w10, w9')
  PROVE  FinalChainTypes'
BY FinalAppends DEF FinalChainTypes

(* A capture staged over the previous one holds the same classes.          *)
LEMMA FinalOver ==
  ASSUME NEW p \in FinalCapture, NEW b \in BOOLEAN
  PROVE  LET n == [p EXCEPT !.kind = "final", !.sealed = b] IN
         n \in FinalCapture /\ n.small = p.small /\ n.bulk = p.bulk /\ n.sealed = b
BY DEF FinalCapture

(* What staging over the previous capture leaves of the chain and the      *)
(* counts.                                                                 *)
LEMMA FinalStageOver ==
  ASSUME NEW b \in BOOLEAN, FinalChainTypes, CountTypes, Final!StageOver(b)
  PROVE  /\ FinalChainTypes' /\ CountTypes' /\ w7 <= w7'
         /\ w9'.small = w9.small /\ w9'.bulk = w9.bulk
<1>1. w9' = [w9 EXCEPT !.kind = "final", !.sealed = b] /\ w10' = Append(w10, w9')
      /\ w7' = w7 + 1 /\ w8' = w8
  BY DEF Final!StageOver, Final!Staged
<1>2. w9 \in FinalCapture
  BY DEF FinalChainTypes
<1>3. w9' \in FinalCapture /\ w9'.small = w9.small /\ w9'.bulk = w9.bulk
  BY <1>1, <1>2, FinalOver
<1>4. CountTypes' /\ w7 <= w7'
  BY <1>1 DEF CountTypes
<1> QED BY <1>1, <1>3, <1>4, FinalChained

(* What a snap of a class leaves of the chain and the counts: the class as *)
(* it is on the disk, or the previous capture when that is the same.       *)
LEMMA FinalSnaps ==
  ASSUME NEW c \in Final!Classes, w4 \in [Final!Classes -> Nat], FinalChainTypes, CountTypes, Final!Snap(c,
       "final")
  PROVE  /\ FinalChainTypes' /\ CountTypes' /\ w7 <= w7'
         /\ w9'.small = (IF c = "small" THEN w4[c] ELSE w9.small)
         /\ w9'.bulk = (IF c = "bulk" THEN w4[c] ELSE w9.bulk)
<1>0. w9 \in FinalCapture /\ w4[c] \in Nat
  BY DEF FinalChainTypes
<1>1. CASE Final!Unchanged /\ w9[c] = w4[c]
  <2>1. FinalChainTypes' /\ CountTypes' /\ w7 <= w7' /\ w9' = w9
    BY <1>1 DEF Final!Unchanged, Final!chainVars, FinalChainTypes, CountTypes
  <2> QED BY <1>0, <1>1, <2>1 DEF Final!Classes, FinalCapture
<1>2. CASE Final!Staged([w9 EXCEPT ![c] = w4[c], !.kind = "final", !.sealed = FALSE])
  <2>1. w9' = [w9 EXCEPT ![c] = w4[c], !.kind = "final", !.sealed = FALSE]
    BY <1>2 DEF Final!Staged
  <2>4. w10' = Append(w10, w9')
    BY <1>2 DEF Final!Staged
  <2>5. w7' = w7 + 1 /\ w8' = w8
    BY <1>2 DEF Final!Staged
  <2>2. /\ w9' \in FinalCapture
        /\ w9'.small = (IF c = "small" THEN w4[c] ELSE w9.small)
        /\ w9'.bulk = (IF c = "bulk" THEN w4[c] ELSE w9.bulk)
    BY <1>0, <2>1 DEF FinalCapture, Final!Classes
  <2>3. CountTypes' /\ w7 <= w7'
    BY <2>5 DEF CountTypes
  <2> QED BY <2>4, <2>2, <2>3, FinalChained
<1> QED BY <1>1, <1>2 DEF Final!Snap

(* Admit keeps the invariant.                                              *)
LEMMA FinalAdmit ==
  ASSUME FinalInv, NEW w \in Writers, Final!Admit(w)
  PROVE  FinalInv'
<1>0. /\ FinalPartTypes /\ FinalDiskTypes /\ CountTypes /\ LeftTypes /\ QuiesceTypes /\ FinalFlushTypes
      /\ RoundTypes /\ ChangesTypes /\ SealTypes /\ Sealing /\ FinalChainTypes /\ SnapHolds
      /\ SealHolds /\ Quiet /\ SealStands /\ UnwatchedHolds /\ CompletionIs
  BY DEF FinalInv
<1>1. FinalPartTypes'
  BY <1>0 DEF Final!Admit, Final!chainVars, FinalPartTypes
<1>2. Quiet'
  BY <1>0 DEF Final!Admit, Final!chainVars, Quiet, LeftTypes, FinalFlushTypes, FinalPartTypes, QuiesceTypes,
       AfterCensus
<1>3. /\ FinalDiskTypes' /\ CountTypes' /\ LeftTypes' /\ QuiesceTypes' /\ FinalFlushTypes'
      /\ RoundTypes' /\ ChangesTypes' /\ SealTypes' /\ Sealing' /\ FinalChainTypes' /\ SnapHolds'
      /\ SealHolds' /\ SealStands' /\ UnwatchedHolds' /\ CompletionIs'
  BY <1>0 DEF Final!Admit, Final!chainVars, FinalDiskTypes, CountTypes, LeftTypes, QuiesceTypes,
       FinalFlushTypes,
       RoundTypes, ChangesTypes, SealTypes, Sealing, FinalChainTypes, SnapHolds, SealHolds, SealStands,
       UnwatchedHolds, CompletionIs, Writes, SmallHeld, BulkHeld
<1> QED BY <1>1, <1>2, <1>3 DEF FinalInv

(* Start keeps the invariant.                                              *)
LEMMA FinalStart ==
  ASSUME FinalInv, NEW w \in Writers, Final!Start(w)
  PROVE  FinalInv'
<1>0. /\ FinalPartTypes /\ FinalDiskTypes /\ CountTypes /\ LeftTypes /\ QuiesceTypes /\ FinalFlushTypes
      /\ RoundTypes /\ ChangesTypes /\ SealTypes /\ Sealing /\ FinalChainTypes /\ SnapHolds
      /\ SealHolds /\ Quiet /\ SealStands /\ UnwatchedHolds /\ CompletionIs
  BY DEF FinalInv
<1>1. FinalPartTypes'
  BY <1>0 DEF Final!Start, Final!chainVars, Final!LookedPast, FinalPartTypes
<1>2. Quiet'
  BY <1>0 DEF Final!Start, Final!chainVars, Final!LookedPast, Quiet, LeftTypes, FinalFlushTypes,
       FinalPartTypes,
       QuiesceTypes, AfterCensus
<1>3. SealStands'
  BY <1>0 DEF Final!Start, Final!chainVars, Final!LookedPast, SealStands, LeftTypes, FinalFlushTypes,
       SealTypes, FinalDiskTypes, QuiesceTypes, Quiet, AfterCensus, Writes
<1>4. UnwatchedHolds'
  BY <1>0 DEF Final!Start, Final!chainVars, Final!LookedPast, UnwatchedHolds, LeftTypes, FinalFlushTypes,
       FinalChainTypes, FinalDiskTypes, Quiet, QuiesceTypes, AfterCensus, SmallHeld, BulkHeld, FinalCapture,
       Final!Classes
<1>5. /\ FinalDiskTypes' /\ CountTypes' /\ LeftTypes' /\ QuiesceTypes' /\ FinalFlushTypes'
      /\ RoundTypes' /\ ChangesTypes' /\ SealTypes' /\ Sealing' /\ FinalChainTypes' /\ SnapHolds'
      /\ SealHolds' /\ CompletionIs'
  BY <1>0 DEF Final!Start, Final!chainVars, Final!LookedPast, FinalDiskTypes, CountTypes, LeftTypes,
       QuiesceTypes, FinalFlushTypes, RoundTypes, ChangesTypes, SealTypes, Sealing, FinalChainTypes,
            SnapHolds,
       SealHolds, CompletionIs, Writes, SmallHeld, BulkHeld
<1> QED BY <1>1, <1>2, <1>3, <1>4, <1>5 DEF FinalInv

(* WriteFile keeps the invariant.                                          *)
LEMMA FinalWriteFile ==
  ASSUME FinalInv, NEW w \in Writers, NEW c \in Final!Classes, Final!WriteFile(w, c)
  PROVE  FinalInv'
<1>0. /\ FinalPartTypes /\ FinalDiskTypes /\ CountTypes /\ LeftTypes /\ QuiesceTypes /\ FinalFlushTypes
      /\ RoundTypes /\ ChangesTypes /\ SealTypes /\ Sealing /\ FinalChainTypes /\ SnapHolds
      /\ SealHolds /\ Quiet /\ SealStands /\ UnwatchedHolds /\ CompletionIs
  BY DEF FinalInv
<1>1. FinalDiskTypes'
  BY <1>0 DEF Final!WriteFile, Final!chainVars, Final!Spend, FinalDiskTypes, Final!Classes
<1>2. LeftTypes'
  BY <1>0 DEF Final!WriteFile, Final!chainVars, Final!Spend, LeftTypes
<1>3. SnapHolds'
  BY <1>0 DEF Final!WriteFile, Final!chainVars, Final!Spend, SnapHolds, LeftTypes, FinalFlushTypes,
       FinalDiskTypes, FinalChainTypes, ChangesTypes, Writes, SmallHeld, BulkHeld, FinalCapture, Final!Classes
<1>4. SealHolds'
  BY <1>0 DEF Final!WriteFile, Final!chainVars, Final!Spend, SealHolds, LeftTypes, FinalDiskTypes,
       FinalChainTypes, SealTypes, SnapHolds, FinalFlushTypes, Writes, SmallHeld, BulkHeld,
            FinalCapture, Final!Classes
<1>5. Quiet'
  BY <1>0 DEF Final!WriteFile, Final!chainVars, Final!Spend, Quiet, LeftTypes, FinalFlushTypes,
       FinalPartTypes,
       QuiesceTypes, AfterCensus
<1>6. SealStands'
  BY <1>0 DEF Final!WriteFile, Final!chainVars, Final!Spend, SealStands, LeftTypes, FinalFlushTypes,
       SealTypes, FinalDiskTypes, QuiesceTypes, Quiet, AfterCensus, Writes
<1>7. UnwatchedHolds'
  BY <1>0 DEF Final!WriteFile, Final!chainVars, Final!Spend, UnwatchedHolds, LeftTypes, FinalFlushTypes,
       FinalChainTypes, FinalDiskTypes, Quiet, QuiesceTypes, AfterCensus, SmallHeld, BulkHeld, FinalCapture,
       Final!Classes
<1>8. /\ FinalPartTypes' /\ CountTypes' /\ QuiesceTypes' /\ FinalFlushTypes' /\ RoundTypes'
      /\ ChangesTypes' /\ SealTypes' /\ Sealing' /\ FinalChainTypes' /\ CompletionIs'
  BY <1>0 DEF Final!WriteFile, Final!chainVars, Final!Spend, FinalPartTypes, CountTypes, QuiesceTypes,
       FinalFlushTypes, RoundTypes, ChangesTypes, SealTypes, Sealing, FinalChainTypes, CompletionIs, Writes,
       SmallHeld, BulkHeld
<1> QED BY <1>1, <1>2, <1>3, <1>4, <1>5, <1>6, <1>7, <1>8 DEF FinalInv

(* Exit keeps the invariant.                                               *)
LEMMA FinalExit ==
  ASSUME FinalInv, NEW w \in Writers, Final!Exit(w)
  PROVE  FinalInv'
<1>0. /\ FinalPartTypes /\ FinalDiskTypes /\ CountTypes /\ LeftTypes /\ QuiesceTypes /\ FinalFlushTypes
      /\ RoundTypes /\ ChangesTypes /\ SealTypes /\ Sealing /\ FinalChainTypes /\ SnapHolds
      /\ SealHolds /\ Quiet /\ SealStands /\ UnwatchedHolds /\ CompletionIs
  BY DEF FinalInv
<1>1. FinalPartTypes'
  BY <1>0 DEF Final!Exit, Final!chainVars, FinalPartTypes
<1>2. Quiet'
  BY <1>0 DEF Final!Exit, Final!chainVars, Quiet, LeftTypes, FinalFlushTypes, FinalPartTypes,
       QuiesceTypes, AfterCensus
<1>3. /\ FinalDiskTypes' /\ CountTypes' /\ LeftTypes' /\ QuiesceTypes' /\ FinalFlushTypes'
      /\ RoundTypes' /\ ChangesTypes' /\ SealTypes' /\ Sealing' /\ FinalChainTypes' /\ SnapHolds'
      /\ SealHolds' /\ SealStands' /\ UnwatchedHolds' /\ CompletionIs'
  BY <1>0 DEF Final!Exit, Final!chainVars, FinalDiskTypes, CountTypes, LeftTypes, QuiesceTypes,
       FinalFlushTypes,
       RoundTypes, ChangesTypes, SealTypes, Sealing, FinalChainTypes, SnapHolds, SealHolds, SealStands,
       UnwatchedHolds, CompletionIs, Writes, SmallHeld, BulkHeld
<1> QED BY <1>1, <1>2, <1>3 DEF FinalInv

(* Deliver keeps the invariant.                                            *)
LEMMA FinalDeliver ==
  ASSUME FinalInv, Final!Deliver
  PROVE  FinalInv'
<1>0. /\ FinalPartTypes /\ FinalDiskTypes /\ CountTypes /\ LeftTypes /\ QuiesceTypes /\ FinalFlushTypes
      /\ RoundTypes /\ ChangesTypes /\ SealTypes /\ Sealing /\ FinalChainTypes /\ SnapHolds
      /\ SealHolds /\ Quiet /\ SealStands /\ UnwatchedHolds /\ CompletionIs
  BY DEF FinalInv
<1>1. FinalDiskTypes'
  BY <1>0 DEF Final!Deliver, Final!chainVars, FinalDiskTypes, Final!Classes
<1>2. ChangesTypes'
  BY <1>0 DEF Final!Deliver, Final!chainVars, ChangesTypes, FinalFlushTypes, FinalDiskTypes
<1>3. SealTypes'
  BY <1>0 DEF Final!Deliver, Final!chainVars, SealTypes, CountTypes, FinalDiskTypes, ChangesTypes
<1>4. SnapHolds'
  BY <1>0 DEF Final!Deliver, Final!chainVars, SnapHolds, LeftTypes, FinalFlushTypes, FinalDiskTypes,
       FinalChainTypes,
       ChangesTypes, Writes, SmallHeld, BulkHeld, FinalCapture, Final!Classes
<1>5. SealHolds'
  BY <1>0 DEF Final!Deliver, Final!chainVars, SealHolds, LeftTypes, FinalDiskTypes, FinalChainTypes,
       SealTypes,
       SnapHolds, FinalFlushTypes, Writes, SmallHeld, BulkHeld, FinalCapture, Final!Classes
<1>6. SealStands'
  BY <1>0 DEF Final!Deliver, Final!chainVars, SealStands, LeftTypes, FinalFlushTypes, SealTypes,
       FinalDiskTypes,
       QuiesceTypes, Quiet, AfterCensus, Writes
<1>7. /\ FinalPartTypes' /\ CountTypes' /\ LeftTypes' /\ QuiesceTypes' /\ FinalFlushTypes'
      /\ RoundTypes' /\ Sealing' /\ FinalChainTypes' /\ Quiet' /\ UnwatchedHolds' /\ CompletionIs'
  BY <1>0 DEF Final!Deliver, Final!chainVars, FinalPartTypes, CountTypes, LeftTypes, QuiesceTypes,
       FinalFlushTypes, RoundTypes, Sealing, FinalChainTypes, Quiet, UnwatchedHolds, CompletionIs, Writes,
       SmallHeld, BulkHeld
<1> QED BY <1>1, <1>2, <1>3, <1>4, <1>5, <1>6, <1>7 DEF FinalInv

(* OtherSnap keeps the invariant.                                          *)
LEMMA FinalOtherSnap ==
  ASSUME FinalInv, NEW c \in Final!Classes, Final!OtherSnap(c)
  PROVE  FinalInv'
<1>0. /\ FinalPartTypes /\ FinalDiskTypes /\ CountTypes /\ LeftTypes /\ QuiesceTypes /\ FinalFlushTypes
      /\ RoundTypes /\ ChangesTypes /\ SealTypes /\ Sealing /\ FinalChainTypes /\ SnapHolds
      /\ SealHolds /\ Quiet /\ SealStands /\ UnwatchedHolds /\ CompletionIs
  BY DEF FinalInv
<1>a. w9' \in FinalCapture /\ (c = "bulk" => w9'.small = w9.small)
      /\ (c = "small" => w9'.bulk = w9.bulk) /\ w9'[c] = w4[c]
  <2>1. PICK kind \in {"auto", "turn"} :
          w9' = [w9 EXCEPT ![c] = w4[c], !.kind = kind, !.sealed = FALSE]
    BY DEF Final!OtherSnap
  <2>2. w9 \in FinalCapture /\ w4[c] \in Nat
    BY <1>0 DEF FinalChainTypes, FinalDiskTypes
  <2> QED BY <2>1, <2>2 DEF FinalCapture, Final!Classes
<1>b. w10' = Append(w10, w9') /\ w8' = w8 + 1 /\ w7' = w7
      /\ w16'.watched = w16.watched
  BY <1>0 DEF Final!OtherSnap, Final!Spend, LeftTypes
<1>1. CountTypes'
  BY <1>0, <1>b DEF CountTypes
<1>2. LeftTypes'
  BY <1>0 DEF Final!OtherSnap, Final!Spend, Final!writerVars, LeftTypes
<1>3. FinalChainTypes'
  BY <1>0, <1>a, <1>b, FinalChained
<1>4. SnapHolds'
  BY <1>0 DEF Final!OtherSnap, Final!Spend, Final!writerVars, SnapHolds, LeftTypes, FinalFlushTypes,
       FinalDiskTypes, FinalChainTypes, ChangesTypes, Writes, SmallHeld, BulkHeld, FinalCapture, Final!Classes
<1>5. SealHolds'
  BY <1>0 DEF Final!OtherSnap, Final!Spend, Final!writerVars, SealHolds, LeftTypes, FinalDiskTypes,
       FinalChainTypes, SealTypes, SnapHolds, FinalFlushTypes, Writes, SmallHeld, BulkHeld,
            FinalCapture, Final!Classes
<1>6. Quiet'
  BY <1>0 DEF Final!OtherSnap, Final!Spend, Final!writerVars, Quiet, LeftTypes, FinalFlushTypes,
       FinalPartTypes,
       QuiesceTypes, AfterCensus
<1>7. SealStands'
  BY <1>0 DEF Final!OtherSnap, Final!Spend, Final!writerVars, SealStands, LeftTypes, FinalFlushTypes,
       SealTypes, FinalDiskTypes, QuiesceTypes, Quiet, AfterCensus, Writes
<1>8. UnwatchedHolds'
  BY <1>0 DEF Final!OtherSnap, Final!Spend, Final!writerVars, UnwatchedHolds, LeftTypes, FinalFlushTypes,
       FinalChainTypes, FinalDiskTypes, Quiet, QuiesceTypes, AfterCensus, SmallHeld, BulkHeld, FinalCapture,
       Final!Classes
<1>9. /\ FinalPartTypes' /\ FinalDiskTypes' /\ QuiesceTypes' /\ FinalFlushTypes' /\ RoundTypes'
      /\ ChangesTypes' /\ SealTypes' /\ Sealing' /\ CompletionIs'
  BY <1>0 DEF Final!OtherSnap, Final!Spend, Final!writerVars, FinalPartTypes, FinalDiskTypes, QuiesceTypes,
       FinalFlushTypes, RoundTypes, ChangesTypes, SealTypes, Sealing, CompletionIs, Writes, SmallHeld,
            BulkHeld
<1> QED BY <1>1, <1>2, <1>3, <1>4, <1>5, <1>6, <1>7, <1>8, <1>9 DEF FinalInv

(* CountSnap keeps the invariant.                                          *)
LEMMA FinalCountSnap ==
  ASSUME FinalInv, Final!CountSnap
  PROVE  FinalInv'
<1>0. /\ FinalPartTypes /\ FinalDiskTypes /\ CountTypes /\ LeftTypes /\ QuiesceTypes /\ FinalFlushTypes
      /\ RoundTypes /\ ChangesTypes /\ SealTypes /\ Sealing /\ FinalChainTypes /\ SnapHolds
      /\ SealHolds /\ Quiet /\ SealStands /\ UnwatchedHolds /\ CompletionIs
  BY DEF FinalInv
<1>1. CountTypes'
  BY <1>0 DEF Final!CountSnap, Final!writerVars, CountTypes, Final!chainVars
<1>2. SealTypes'
  BY <1>0 DEF Final!CountSnap, Final!writerVars, SealTypes, CountTypes, FinalDiskTypes, ChangesTypes,
       Final!chainVars
<1>3. /\ FinalPartTypes' /\ FinalDiskTypes' /\ LeftTypes' /\ QuiesceTypes' /\ FinalFlushTypes'
      /\ RoundTypes' /\ ChangesTypes' /\ Sealing' /\ FinalChainTypes' /\ SnapHolds' /\ SealHolds'
      /\ Quiet' /\ SealStands' /\ UnwatchedHolds' /\ CompletionIs'
  BY <1>0 DEF Final!CountSnap, Final!writerVars, FinalPartTypes, FinalDiskTypes, LeftTypes, QuiesceTypes,
       FinalFlushTypes, RoundTypes, ChangesTypes, Sealing, FinalChainTypes, SnapHolds, SealHolds, Quiet,
       SealStands, UnwatchedHolds, CompletionIs, Writes, SmallHeld, BulkHeld
<1> QED BY <1>1, <1>2, <1>3 DEF FinalInv

(* Register keeps the invariant.                                           *)
LEMMA FinalRegister ==
  ASSUME FinalInv, Final!Register
  PROVE  FinalInv'
<1>0. /\ FinalPartTypes /\ FinalDiskTypes /\ CountTypes /\ LeftTypes /\ QuiesceTypes /\ FinalFlushTypes
      /\ RoundTypes /\ ChangesTypes /\ SealTypes /\ Sealing /\ FinalChainTypes /\ SnapHolds
      /\ SealHolds /\ Quiet /\ SealStands /\ UnwatchedHolds /\ CompletionIs
  BY DEF FinalInv
<1>1. FinalChainTypes'
  <2>1. w9' = w9 /\ w11' = Head(w10) /\ w10' = Tail(w10) /\ w10 # <<>>
    BY DEF Final!Register
  <2> QED BY <1>0, <2>1, FinalTails DEF FinalChainTypes
<1>2. /\ FinalPartTypes' /\ FinalDiskTypes' /\ CountTypes' /\ LeftTypes' /\ QuiesceTypes'
      /\ FinalFlushTypes' /\ RoundTypes' /\ ChangesTypes' /\ SealTypes' /\ Sealing' /\ SnapHolds'
      /\ SealHolds' /\ Quiet' /\ SealStands' /\ UnwatchedHolds' /\ CompletionIs'
  BY <1>0 DEF Final!Register, Final!writerVars, FinalPartTypes, FinalDiskTypes, CountTypes, LeftTypes,
       QuiesceTypes, FinalFlushTypes, RoundTypes, ChangesTypes, SealTypes, Sealing, SnapHolds, SealHolds,
       Quiet, SealStands, UnwatchedHolds, CompletionIs, Writes, SmallHeld, BulkHeld
<1> QED BY <1>1, <1>2 DEF FinalInv

(* BeginFinal keeps the invariant.                                         *)
LEMMA FinalBeginFinal ==
  ASSUME FinalInv, Final!BeginFinal
  PROVE  FinalInv'
<1>0. /\ FinalPartTypes /\ FinalDiskTypes /\ CountTypes /\ LeftTypes /\ QuiesceTypes /\ FinalFlushTypes
      /\ RoundTypes /\ ChangesTypes /\ SealTypes /\ Sealing /\ FinalChainTypes /\ SnapHolds
      /\ SealHolds /\ Quiet /\ SealStands /\ UnwatchedHolds /\ CompletionIs
  BY DEF FinalInv
<1>1. FinalPartTypes'
  BY <1>0 DEF Final!BeginFinal, Final!At, Final!Spend, Final!Idle, Final!writerVars, Final!chainVars,
       FinalPartTypes
<1>2. LeftTypes'
  BY <1>0 DEF Final!BeginFinal, Final!At, Final!Spend, Final!Idle, Final!writerVars, Final!chainVars,
       LeftTypes
<1>3. QuiesceTypes'
  BY <1>0 DEF Final!BeginFinal, Final!At, Final!Spend, Final!Idle, Final!writerVars, Final!chainVars,
       QuiesceTypes, FinalFlushTypes, AfterCensus, FlushSteps
<1>4. FinalFlushTypes'
  BY <1>0 DEF Final!BeginFinal, Final!At, Final!Spend, Final!Idle, Final!writerVars, Final!chainVars,
       FinalFlushTypes, FlushSteps
<1>5. RoundTypes'
  BY <1>0 DEF Final!BeginFinal, Final!At, Final!Spend, Final!Idle, Final!writerVars, Final!chainVars,
       RoundTypes, FinalFlushTypes, Final!FINAL_ROUNDS, Final!SEAL_ATTEMPTS
<1>6. ChangesTypes'
  BY <1>0 DEF Final!BeginFinal, Final!At, Final!Spend, Final!Idle, Final!writerVars, Final!chainVars,
       ChangesTypes, FinalFlushTypes, FinalDiskTypes
<1>7. Sealing'
  BY <1>0 DEF Final!BeginFinal, Final!At, Final!Spend, Final!Idle, Final!writerVars, Final!chainVars,
       Sealing, FinalFlushTypes, Final!NoSeal
<1>8. SnapHolds'
  BY <1>0 DEF Final!BeginFinal, Final!At, Final!Spend, Final!Idle, Final!writerVars, Final!chainVars,
       SnapHolds, LeftTypes, FinalFlushTypes, FinalDiskTypes, FinalChainTypes, ChangesTypes, Writes,
            SmallHeld,
       BulkHeld, FinalCapture, Final!Classes
<1>9. SealHolds'
  BY <1>0 DEF Final!BeginFinal, Final!At, Final!Spend, Final!Idle, Final!writerVars, Final!chainVars,
       SealHolds, LeftTypes, FinalDiskTypes, FinalChainTypes, SealTypes, SnapHolds, FinalFlushTypes,
            Writes, SmallHeld,
       BulkHeld, FinalCapture, Final!Classes
<1>10. Quiet'
  BY <1>0 DEF Final!BeginFinal, Final!At, Final!Spend, Final!Idle, Final!writerVars, Final!chainVars,
       Quiet, LeftTypes, FinalFlushTypes, FinalPartTypes, QuiesceTypes, AfterCensus
<1>11. SealStands'
  BY <1>0 DEF Final!BeginFinal, Final!At, Final!Spend, Final!Idle, Final!writerVars, Final!chainVars,
       SealStands, LeftTypes, FinalFlushTypes, SealTypes, FinalDiskTypes, QuiesceTypes, Quiet,
            AfterCensus, Writes
<1>12. UnwatchedHolds'
  BY <1>0 DEF Final!BeginFinal, Final!At, Final!Spend, Final!Idle, Final!writerVars, Final!chainVars,
       UnwatchedHolds, LeftTypes, FinalFlushTypes, FinalChainTypes, FinalDiskTypes, Quiet, QuiesceTypes,
            AfterCensus,
       SmallHeld, BulkHeld, FinalCapture, Final!Classes
<1>13. CompletionIs'
  BY <1>0 DEF Final!BeginFinal, Final!At, Final!Spend, Final!Idle, Final!writerVars, Final!chainVars,
       CompletionIs, FinalFlushTypes, SealTypes
<1>14. FinalDiskTypes' /\ CountTypes' /\ SealTypes' /\ FinalChainTypes'
  BY <1>0 DEF Final!BeginFinal, Final!At, Final!Spend, Final!Idle, Final!writerVars, Final!chainVars,
       FinalDiskTypes, CountTypes, SealTypes, FinalChainTypes, Writes, SmallHeld, BulkHeld
<1> QED BY <1>1, <1>2, <1>3, <1>4, <1>5, <1>6, <1>7, <1>8, <1>9, <1>10, <1>11, <1>12, <1>13,
     <1>14 DEF FinalInv

(* CloseAdmission keeps the invariant.                                     *)
LEMMA FinalCloseAdmission ==
  ASSUME FinalInv, Final!CloseAdmission
  PROVE  FinalInv'
<1>0. /\ FinalPartTypes /\ FinalDiskTypes /\ CountTypes /\ LeftTypes /\ QuiesceTypes /\ FinalFlushTypes
      /\ RoundTypes /\ ChangesTypes /\ SealTypes /\ Sealing /\ FinalChainTypes /\ SnapHolds
      /\ SealHolds /\ Quiet /\ SealStands /\ UnwatchedHolds /\ CompletionIs
  BY DEF FinalInv
<1>1. QuiesceTypes'
  BY <1>0 DEF Final!CloseAdmission, Final!At, Final!Go, Final!chainVars, QuiesceTypes, FinalFlushTypes,
       AfterCensus, FlushSteps
<1>2. FinalFlushTypes'
  BY <1>0 DEF Final!CloseAdmission, Final!At, Final!Go, Final!chainVars, FinalFlushTypes, FlushSteps
<1>3. RoundTypes'
  BY <1>0 DEF Final!CloseAdmission, Final!At, Final!Go, Final!chainVars, RoundTypes, FinalFlushTypes,
       Final!FINAL_ROUNDS, Final!SEAL_ATTEMPTS
<1>4. ChangesTypes'
  BY <1>0 DEF Final!CloseAdmission, Final!At, Final!Go, Final!chainVars, ChangesTypes, FinalFlushTypes,
       FinalDiskTypes
<1>5. Sealing'
  BY <1>0 DEF Final!CloseAdmission, Final!At, Final!Go, Final!chainVars, Sealing, FinalFlushTypes,
       Final!NoSeal
<1>6. SnapHolds'
  BY <1>0 DEF Final!CloseAdmission, Final!At, Final!Go, Final!chainVars, SnapHolds, LeftTypes,
       FinalFlushTypes, FinalDiskTypes, FinalChainTypes, ChangesTypes, Writes, SmallHeld, BulkHeld,
            FinalCapture,
       Final!Classes
<1>7. Quiet'
  BY <1>0 DEF Final!CloseAdmission, Final!At, Final!Go, Final!chainVars, Quiet, LeftTypes, FinalFlushTypes,
       FinalPartTypes, QuiesceTypes, AfterCensus
<1>8. SealStands'
  BY <1>0 DEF Final!CloseAdmission, Final!At, Final!Go, Final!chainVars, SealStands, LeftTypes,
       FinalFlushTypes, SealTypes, FinalDiskTypes, QuiesceTypes, Quiet, AfterCensus, Writes
<1>9. UnwatchedHolds'
  BY <1>0 DEF Final!CloseAdmission, Final!At, Final!Go, Final!chainVars, UnwatchedHolds, LeftTypes,
       FinalFlushTypes, FinalChainTypes, FinalDiskTypes, Quiet, QuiesceTypes, AfterCensus, SmallHeld,
            BulkHeld,
       FinalCapture, Final!Classes
<1>10. CompletionIs'
  BY <1>0 DEF Final!CloseAdmission, Final!At, Final!Go, Final!chainVars, CompletionIs, FinalFlushTypes,
       SealTypes
<1>11. /\ FinalPartTypes' /\ FinalDiskTypes' /\ CountTypes' /\ LeftTypes' /\ SealTypes' /\ FinalChainTypes'
       /\ SealHolds'
  BY <1>0 DEF Final!CloseAdmission, Final!At, Final!Go, Final!chainVars, FinalPartTypes, FinalDiskTypes,
       CountTypes, LeftTypes, SealTypes, FinalChainTypes, SealHolds, Writes, SmallHeld, BulkHeld
<1> QED BY <1>1, <1>2, <1>3, <1>4, <1>5, <1>6, <1>7, <1>8, <1>9, <1>10, <1>11 DEF FinalInv

(* Quiesce keeps the invariant.                                            *)
LEMMA FinalQuiesce ==
  ASSUME FinalInv, Final!Quiesce
  PROVE  FinalInv'
<1>0. /\ FinalPartTypes /\ FinalDiskTypes /\ CountTypes /\ LeftTypes /\ QuiesceTypes /\ FinalFlushTypes
      /\ RoundTypes /\ ChangesTypes /\ SealTypes /\ Sealing /\ FinalChainTypes /\ SnapHolds
      /\ SealHolds /\ Quiet /\ SealStands /\ UnwatchedHolds /\ CompletionIs
  BY DEF FinalInv
<1>1. FinalPartTypes'
  BY <1>0 DEF Final!Quiesce, Final!At, Final!Go, Final!Spend, Final!chainVars, Final!Running, FinalPartTypes
<1>2. LeftTypes'
  BY <1>0 DEF Final!Quiesce, Final!At, Final!Go, Final!Spend, Final!chainVars, Final!Running, LeftTypes
<1>3. QuiesceTypes'
  BY <1>0 DEF Final!Quiesce, Final!At, Final!Go, Final!Spend, Final!chainVars, Final!Running,
       QuiesceTypes, FinalFlushTypes, AfterCensus, FlushSteps
<1>4. FinalFlushTypes'
  BY <1>0 DEF Final!Quiesce, Final!At, Final!Go, Final!Spend, Final!chainVars, Final!Running,
       FinalFlushTypes, FlushSteps
<1>5. RoundTypes'
  BY <1>0 DEF Final!Quiesce, Final!At, Final!Go, Final!Spend, Final!chainVars, Final!Running,
       RoundTypes, FinalFlushTypes, Final!FINAL_ROUNDS, Final!SEAL_ATTEMPTS
<1>6. ChangesTypes'
  BY <1>0 DEF Final!Quiesce, Final!At, Final!Go, Final!Spend, Final!chainVars, Final!Running,
       ChangesTypes, FinalFlushTypes, FinalDiskTypes
<1>7. Sealing'
  BY <1>0 DEF Final!Quiesce, Final!At, Final!Go, Final!Spend, Final!chainVars, Final!Running, Sealing,
       FinalFlushTypes, Final!NoSeal
<1>8. SnapHolds'
  BY <1>0 DEF Final!Quiesce, Final!At, Final!Go, Final!Spend, Final!chainVars, Final!Running, SnapHolds,
       LeftTypes, FinalFlushTypes, FinalDiskTypes, FinalChainTypes, ChangesTypes, Writes, SmallHeld, BulkHeld,
       FinalCapture, Final!Classes
<1>9. SealHolds'
  BY <1>0 DEF Final!Quiesce, Final!At, Final!Go, Final!Spend, Final!chainVars, Final!Running, SealHolds,
       LeftTypes, FinalDiskTypes, FinalChainTypes, SealTypes, SnapHolds, FinalFlushTypes, Writes,
            SmallHeld, BulkHeld,
       FinalCapture, Final!Classes
<1>10. Quiet'
  BY <1>0 DEF Final!Quiesce, Final!At, Final!Go, Final!Spend, Final!chainVars, Final!Running, Quiet,
       LeftTypes, FinalFlushTypes, FinalPartTypes, QuiesceTypes, AfterCensus
<1>11. SealStands'
  BY <1>0 DEF Final!Quiesce, Final!At, Final!Go, Final!Spend, Final!chainVars, Final!Running,
       SealStands, LeftTypes, FinalFlushTypes, SealTypes, FinalDiskTypes, QuiesceTypes, Quiet,
            AfterCensus, Writes
<1>12. UnwatchedHolds'
  BY <1>0 DEF Final!Quiesce, Final!At, Final!Go, Final!Spend, Final!chainVars, Final!Running,
       UnwatchedHolds, LeftTypes, FinalFlushTypes, FinalChainTypes, FinalDiskTypes, Quiet, QuiesceTypes,
            AfterCensus,
       SmallHeld, BulkHeld, FinalCapture, Final!Classes
<1>13. CompletionIs'
  BY <1>0 DEF Final!Quiesce, Final!At, Final!Go, Final!Spend, Final!chainVars, Final!Running,
       CompletionIs, FinalFlushTypes, SealTypes
<1>14. FinalDiskTypes' /\ CountTypes' /\ SealTypes' /\ FinalChainTypes'
  BY <1>0 DEF Final!Quiesce, Final!At, Final!Go, Final!Spend, Final!chainVars, Final!Running, FinalDiskTypes,
       CountTypes, SealTypes, FinalChainTypes, Writes, SmallHeld, BulkHeld
<1> QED BY <1>1, <1>2, <1>3, <1>4, <1>5, <1>6, <1>7, <1>8, <1>9, <1>10, <1>11, <1>12, <1>13,
     <1>14 DEF FinalInv

(* SettleFirst keeps the invariant.                                        *)
LEMMA FinalSettleFirst ==
  ASSUME FinalInv, Final!SettleFirst
  PROVE  FinalInv'
<1>0. /\ FinalPartTypes /\ FinalDiskTypes /\ CountTypes /\ LeftTypes /\ QuiesceTypes /\ FinalFlushTypes
      /\ RoundTypes /\ ChangesTypes /\ SealTypes /\ Sealing /\ FinalChainTypes /\ SnapHolds
      /\ SealHolds /\ Quiet /\ SealStands /\ UnwatchedHolds /\ CompletionIs
  BY DEF FinalInv
<1>1. FinalDiskTypes'
  BY <1>0 DEF Final!SettleFirst, Final!At, Final!Settled, Final!Spend, Final!chainVars, FinalDiskTypes,
       Final!Classes
<1>2. LeftTypes'
  BY <1>0 DEF Final!SettleFirst, Final!At, Final!Settled, Final!Spend, Final!chainVars, LeftTypes
<1>3. QuiesceTypes'
  BY <1>0 DEF Final!SettleFirst, Final!At, Final!Settled, Final!Spend, Final!chainVars, QuiesceTypes,
       FinalFlushTypes, AfterCensus, FlushSteps
<1>4. FinalFlushTypes'
  BY <1>0 DEF Final!SettleFirst, Final!At, Final!Settled, Final!Spend, Final!chainVars, FinalFlushTypes,
       FlushSteps
<1>5. RoundTypes'
  BY <1>0 DEF Final!SettleFirst, Final!At, Final!Settled, Final!Spend, Final!chainVars, RoundTypes,
       FinalFlushTypes, Final!FINAL_ROUNDS, Final!SEAL_ATTEMPTS
<1>6. ChangesTypes'
  BY <1>0 DEF Final!SettleFirst, Final!At, Final!Settled, Final!Spend, Final!chainVars, ChangesTypes,
       FinalFlushTypes, FinalDiskTypes
<1>7. SealTypes'
  BY <1>0 DEF Final!SettleFirst, Final!At, Final!Settled, Final!Spend, Final!chainVars, SealTypes,
       CountTypes, FinalDiskTypes, ChangesTypes
<1>8. Sealing'
  BY <1>0 DEF Final!SettleFirst, Final!At, Final!Settled, Final!Spend, Final!chainVars, Sealing,
       FinalFlushTypes, Final!NoSeal
<1>9. SnapHolds'
  BY <1>0 DEF Final!SettleFirst, Final!At, Final!Settled, Final!Spend, Final!chainVars, SnapHolds,
       LeftTypes, FinalFlushTypes, FinalDiskTypes, FinalChainTypes, ChangesTypes, Writes, SmallHeld, BulkHeld,
       FinalCapture, Final!Classes
<1>10. SealHolds'
  BY <1>0 DEF Final!SettleFirst, Final!At, Final!Settled, Final!Spend, Final!chainVars, SealHolds,
       LeftTypes, FinalDiskTypes, FinalChainTypes, SealTypes, SnapHolds, FinalFlushTypes, Writes,
            SmallHeld, BulkHeld,
       FinalCapture, Final!Classes
<1>11. Quiet'
  BY <1>0 DEF Final!SettleFirst, Final!At, Final!Settled, Final!Spend, Final!chainVars, Quiet,
       LeftTypes, FinalFlushTypes, FinalPartTypes, QuiesceTypes, AfterCensus
<1>12. SealStands'
  BY <1>0 DEF Final!SettleFirst, Final!At, Final!Settled, Final!Spend, Final!chainVars, SealStands,
       LeftTypes, FinalFlushTypes, SealTypes, FinalDiskTypes, QuiesceTypes, Quiet, AfterCensus, Writes
<1>13. UnwatchedHolds'
  BY <1>0 DEF Final!SettleFirst, Final!At, Final!Settled, Final!Spend, Final!chainVars, UnwatchedHolds,
       LeftTypes, FinalFlushTypes, FinalChainTypes, FinalDiskTypes, Quiet, QuiesceTypes, AfterCensus,
            SmallHeld,
       BulkHeld, FinalCapture, Final!Classes
<1>14. CompletionIs'
  BY <1>0 DEF Final!SettleFirst, Final!At, Final!Settled, Final!Spend, Final!chainVars, CompletionIs,
       FinalFlushTypes, SealTypes
<1>15. FinalPartTypes' /\ CountTypes' /\ FinalChainTypes'
  BY <1>0 DEF Final!SettleFirst, Final!At, Final!Settled, Final!Spend, Final!chainVars, FinalPartTypes,
       CountTypes, FinalChainTypes, Writes, SmallHeld, BulkHeld
<1> QED BY <1>1, <1>2, <1>3, <1>4, <1>5, <1>6, <1>7, <1>8, <1>9, <1>10, <1>11, <1>12, <1>13, <1>14,
     <1>15 DEF FinalInv

(* SnapsCurrent keeps the invariant.                                       *)
LEMMA FinalSnapsCurrent ==
  ASSUME FinalInv, Final!SnapsCurrent
  PROVE  FinalInv'
<1>0. /\ FinalPartTypes /\ FinalDiskTypes /\ CountTypes /\ LeftTypes /\ QuiesceTypes /\ FinalFlushTypes
      /\ RoundTypes /\ ChangesTypes /\ SealTypes /\ Sealing /\ FinalChainTypes /\ SnapHolds
      /\ SealHolds /\ Quiet /\ SealStands /\ UnwatchedHolds /\ CompletionIs
  BY DEF FinalInv
<1>a. /\ FinalChainTypes' /\ CountTypes' /\ w7 <= w7'
      /\ w9'.small = w9.small /\ w9'.bulk = w9.bulk
  <2>1. CASE Final!Unchanged
    BY <1>0, <2>1 DEF Final!Unchanged, Final!chainVars, FinalChainTypes, CountTypes
  <2>2. CASE Final!StageOver(FALSE)
    BY <1>0, <2>2, FinalStageOver
  <2> QED BY <2>1, <2>2 DEF Final!SnapsCurrent, Final!SealFinalFails
<1>b. w16'.watched = w16.watched /\ w4' = w4 /\ w5' = w5 /\ w6' = w6
  BY <1>0 DEF Final!SnapsCurrent, Final!SealFinalFails, Final!Spend, LeftTypes, Final!writerVars
<1>c. w12 # Final!NoSeal /\ (w12' = w12 \/ w12' = [w12 EXCEPT !.staged = w7'])
  BY DEF Final!SnapsCurrent, Final!SealFinalFails, Final!FinalIsCurrent, Final!CurrentAsSnapped,
       Final!SnapsStillCurrent
<1>d. w12'.changes = w12.changes /\ w12'.completion = w12.completion
      /\ (w12'.staged = w12.staged \/ w12'.staged = w7')
      /\ {"changes", "staged", "completion"} \subseteq DOMAIN w12'
  BY <1>0, <1>c DEF SealTypes
<1>1. CountTypes'
  BY <1>a
<1>2. LeftTypes'
  BY <1>0 DEF Final!SnapsCurrent, Final!At, Final!FinalIsCurrent, Final!EveryClassWatched,
       Final!Unchanged, Final!StageOver, Final!Staged, Final!Go, Final!SealFinalFails, Final!Spend,
       Final!Fail, Final!writerVars, Final!chainVars, LeftTypes
<1>3. QuiesceTypes'
  BY <1>0 DEF Final!SnapsCurrent, Final!At, Final!FinalIsCurrent, Final!EveryClassWatched,
       Final!Unchanged, Final!StageOver, Final!Staged, Final!Go, Final!SealFinalFails, Final!Spend,
       Final!Fail, Final!writerVars, Final!chainVars, QuiesceTypes, FinalFlushTypes, AfterCensus, FlushSteps
<1>4. FinalFlushTypes'
  BY <1>0 DEF Final!SnapsCurrent, Final!At, Final!FinalIsCurrent, Final!EveryClassWatched,
       Final!Unchanged, Final!StageOver, Final!Staged, Final!Go, Final!SealFinalFails, Final!Spend,
       Final!Fail, Final!writerVars, Final!chainVars, FinalFlushTypes, FlushSteps
<1>5. RoundTypes'
  BY <1>0 DEF Final!SnapsCurrent, Final!At, Final!FinalIsCurrent, Final!EveryClassWatched,
       Final!Unchanged, Final!StageOver, Final!Staged, Final!Go, Final!SealFinalFails, Final!Spend,
       Final!Fail, Final!writerVars, Final!chainVars, RoundTypes, FinalFlushTypes, Final!FINAL_ROUNDS,
       Final!SEAL_ATTEMPTS
<1>6. ChangesTypes'
  BY <1>0 DEF Final!SnapsCurrent, Final!At, Final!FinalIsCurrent, Final!EveryClassWatched,
       Final!Unchanged, Final!StageOver, Final!Staged, Final!Go, Final!SealFinalFails, Final!Spend,
       Final!Fail, Final!writerVars, Final!chainVars, ChangesTypes, FinalFlushTypes, FinalDiskTypes
<1>7. SealTypes'
  BY <1>0, <1>a, <1>b, <1>c, <1>d DEF SealTypes, CountTypes
<1>8. Sealing'
  BY <1>0 DEF Final!SnapsCurrent, Final!At, Final!FinalIsCurrent, Final!EveryClassWatched,
       Final!Unchanged, Final!StageOver, Final!Staged, Final!Go, Final!SealFinalFails, Final!Spend,
       Final!Fail, Final!writerVars, Final!chainVars, Sealing, FinalFlushTypes, Final!NoSeal
<1>9. FinalChainTypes'
  BY <1>a
<1>10. SnapHolds'
  BY <1>0 DEF Final!SnapsCurrent, Final!At, Final!FinalIsCurrent, Final!EveryClassWatched,
       Final!Unchanged, Final!StageOver, Final!Staged, Final!Go, Final!SealFinalFails, Final!Spend,
       Final!Fail, Final!writerVars, Final!chainVars, SnapHolds, LeftTypes, FinalFlushTypes, FinalDiskTypes,
       FinalChainTypes, ChangesTypes, Writes, SmallHeld, BulkHeld, FinalCapture, Final!Classes
<1>11. SealHolds'
  BY <1>0, <1>a, <1>b, <1>c, <1>d DEF SealHolds, Writes, SmallHeld, BulkHeld
<1>12. Quiet'
  BY <1>0 DEF Final!SnapsCurrent, Final!At, Final!FinalIsCurrent, Final!EveryClassWatched,
       Final!Unchanged, Final!StageOver, Final!Staged, Final!Go, Final!SealFinalFails, Final!Spend,
       Final!Fail, Final!writerVars, Final!chainVars, Quiet, LeftTypes, FinalFlushTypes, FinalPartTypes,
       QuiesceTypes, AfterCensus
<1>13. SealStands'
  BY <1>0 DEF Final!SnapsCurrent, Final!At, Final!FinalIsCurrent, Final!EveryClassWatched,
       Final!Unchanged, Final!StageOver, Final!Staged, Final!Go, Final!SealFinalFails, Final!Spend,
       Final!Fail, Final!writerVars, Final!chainVars, SealStands, LeftTypes, FinalFlushTypes, SealTypes,
       FinalDiskTypes, QuiesceTypes, Quiet, AfterCensus, Writes
<1>14. UnwatchedHolds'
  BY <1>0 DEF Final!SnapsCurrent, Final!At, Final!FinalIsCurrent, Final!EveryClassWatched,
       Final!Unchanged, Final!StageOver, Final!Staged, Final!Go, Final!SealFinalFails, Final!Spend,
       Final!Fail, Final!writerVars, Final!chainVars, UnwatchedHolds, LeftTypes, FinalFlushTypes,
            FinalChainTypes,
       FinalDiskTypes, Quiet, QuiesceTypes, AfterCensus, SmallHeld, BulkHeld, FinalCapture, Final!Classes
<1>15. CompletionIs'
  BY <1>0 DEF Final!SnapsCurrent, Final!At, Final!FinalIsCurrent, Final!EveryClassWatched,
       Final!Unchanged, Final!StageOver, Final!Staged, Final!Go, Final!SealFinalFails, Final!Spend,
       Final!Fail, Final!writerVars, Final!chainVars, CompletionIs, FinalFlushTypes, SealTypes
<1>16. FinalPartTypes' /\ FinalDiskTypes'
  BY <1>0 DEF Final!SnapsCurrent, Final!At, Final!FinalIsCurrent, Final!EveryClassWatched,
       Final!Unchanged, Final!StageOver, Final!Staged, Final!Go, Final!SealFinalFails, Final!Spend,
       Final!Fail, Final!writerVars, Final!chainVars, FinalPartTypes, FinalDiskTypes, Writes, SmallHeld,
            BulkHeld
<1> QED BY <1>1, <1>2, <1>3, <1>4, <1>5, <1>6, <1>7, <1>8, <1>9, <1>10, <1>11, <1>12, <1>13, <1>14,
     <1>15, <1>16 DEF FinalInv

(* SnapsBegin keeps the invariant.                                         *)
LEMMA FinalSnapsBegin ==
  ASSUME FinalInv, Final!SnapsBegin
  PROVE  FinalInv'
<1>0. /\ FinalPartTypes /\ FinalDiskTypes /\ CountTypes /\ LeftTypes /\ QuiesceTypes /\ FinalFlushTypes
      /\ RoundTypes /\ ChangesTypes /\ SealTypes /\ Sealing /\ FinalChainTypes /\ SnapHolds
      /\ SealHolds /\ Quiet /\ SealStands /\ UnwatchedHolds /\ CompletionIs
  BY DEF FinalInv
<1>1. QuiesceTypes'
  BY <1>0 DEF Final!SnapsBegin, Final!At, Final!writerVars, Final!chainVars, QuiesceTypes, FinalFlushTypes,
       AfterCensus, FlushSteps
<1>2. FinalFlushTypes'
  BY <1>0 DEF Final!SnapsBegin, Final!At, Final!writerVars, Final!chainVars, FinalFlushTypes, FlushSteps
<1>3. RoundTypes'
  BY <1>0 DEF Final!SnapsBegin, Final!At, Final!writerVars, Final!chainVars, RoundTypes, FinalFlushTypes,
       Final!FINAL_ROUNDS, Final!SEAL_ATTEMPTS
<1>4. ChangesTypes'
  BY <1>0 DEF Final!SnapsBegin, Final!At, Final!writerVars, Final!chainVars, ChangesTypes, FinalFlushTypes,
       FinalDiskTypes
<1>5. SealTypes'
  BY <1>0 DEF Final!SnapsBegin, SealTypes, Final!NoSeal, Final!chainVars
<1>6. Sealing'
  BY <1>0 DEF Final!SnapsBegin, Final!At, Final!writerVars, Final!chainVars, Sealing, FinalFlushTypes,
       Final!NoSeal
<1>7. SnapHolds'
  BY <1>0 DEF Final!SnapsBegin, Final!At, Final!writerVars, Final!chainVars, SnapHolds, LeftTypes,
       FinalFlushTypes, FinalDiskTypes, FinalChainTypes, ChangesTypes, Writes, SmallHeld, BulkHeld,
            FinalCapture,
       Final!Classes
<1>8. SealHolds'
  BY <1>0 DEF Final!SnapsBegin, Final!At, Final!writerVars, Final!chainVars, SealHolds, LeftTypes,
       FinalDiskTypes, FinalChainTypes, SealTypes, SnapHolds, FinalFlushTypes, Writes, SmallHeld, BulkHeld,
       FinalCapture, Final!Classes
<1>9. Quiet'
  BY <1>0 DEF Final!SnapsBegin, Final!At, Final!writerVars, Final!chainVars, Quiet, LeftTypes,
       FinalFlushTypes, FinalPartTypes, QuiesceTypes, AfterCensus
<1>10. SealStands'
  BY <1>0 DEF Final!SnapsBegin, Final!At, Final!writerVars, Final!chainVars, SealStands, LeftTypes,
       FinalFlushTypes, SealTypes, FinalDiskTypes, QuiesceTypes, Quiet, AfterCensus, Writes
<1>11. UnwatchedHolds'
  BY <1>0 DEF Final!SnapsBegin, Final!At, Final!writerVars, Final!chainVars, UnwatchedHolds, LeftTypes,
       FinalFlushTypes, FinalChainTypes, FinalDiskTypes, Quiet, QuiesceTypes, AfterCensus, SmallHeld,
            BulkHeld,
       FinalCapture, Final!Classes
<1>12. CompletionIs'
  BY <1>0 DEF Final!SnapsBegin, Final!At, Final!writerVars, Final!chainVars, CompletionIs, FinalFlushTypes,
       SealTypes
<1>13. FinalPartTypes' /\ FinalDiskTypes' /\ CountTypes' /\ LeftTypes' /\ FinalChainTypes'
  BY <1>0 DEF Final!SnapsBegin, Final!At, Final!writerVars, Final!chainVars, FinalPartTypes, FinalDiskTypes,
       CountTypes, LeftTypes, FinalChainTypes, Writes, SmallHeld, BulkHeld
<1> QED BY <1>1, <1>2, <1>3, <1>4, <1>5, <1>6, <1>7, <1>8, <1>9, <1>10, <1>11, <1>12, <1>13 DEF FinalInv

(* SnapSmall keeps the invariant.                                          *)
LEMMA FinalSnapSmall ==
  ASSUME FinalInv, Final!SnapFinal("small", "small", "bulk")
  PROVE  FinalInv'
<1>0. /\ FinalPartTypes /\ FinalDiskTypes /\ CountTypes /\ LeftTypes /\ QuiesceTypes /\ FinalFlushTypes
      /\ RoundTypes /\ ChangesTypes /\ SealTypes /\ Sealing /\ FinalChainTypes /\ SnapHolds
      /\ SealHolds /\ Quiet /\ SealStands /\ UnwatchedHolds /\ CompletionIs
  BY DEF FinalInv
<1>a. /\ FinalChainTypes' /\ CountTypes' /\ w7 <= w7'
      /\ \/ w14'.step = "bulk" /\ w9'.small = w4["small"] /\ w9'.bulk = w9.bulk /\ w14'.incomplete = w14.incomplete
         \/ w14'.step = "ship" /\ w9' = w9 /\ w14'.incomplete = "snapshot-failed"
  <2>1. CASE Final!Snap("small", "final") /\ Final!Go("bulk")
    <3>1. FinalChainTypes' /\ CountTypes' /\ w7 <= w7' /\ w9'.small = w4["small"] /\ w9'.bulk = w9.bulk
      BY <1>0, <2>1, FinalSnaps DEF FinalDiskTypes, Final!Classes
    <3>2. w14'.step = "bulk" /\ w14'.incomplete = w14.incomplete
      BY <1>0, <2>1 DEF Final!Go, FinalFlushTypes
    <3> QED BY <3>1, <3>2
  <2>2. CASE Final!Unchanged /\ Final!Fail("ship", "snapshot-failed")
    BY <1>0, <2>2 DEF Final!Unchanged, Final!Fail, FinalFlushTypes, Final!chainVars, FinalChainTypes,
         CountTypes
  <2> QED BY <2>1, <2>2 DEF Final!SnapFinal
<1>b. w16'.watched = w16.watched /\ w4' = w4 /\ w5' = w5 /\ w6' = w6
      /\ w14'.changes = w14.changes /\ w12' = w12 /\ w14.step = "small"
  BY <1>0 DEF Final!SnapFinal, Final!Spend, LeftTypes, Final!writerVars, Final!Go, Final!Fail,
       FinalFlushTypes, Final!At
<1>1. CountTypes'
  BY <1>a
<1>2. LeftTypes'
  BY <1>0 DEF Final!SnapFinal, Final!At, Final!Snap, Final!Staged, Final!Unchanged, Final!Go,
       Final!Spend, Final!Fail, Final!writerVars, Final!chainVars, LeftTypes
<1>3. QuiesceTypes'
  BY <1>0 DEF Final!SnapFinal, Final!At, Final!Snap, Final!Staged, Final!Unchanged, Final!Go,
       Final!Spend, Final!Fail, Final!writerVars, Final!chainVars, QuiesceTypes, FinalFlushTypes,
       AfterCensus, FlushSteps
<1>4. FinalFlushTypes'
  BY <1>0 DEF Final!SnapFinal, Final!At, Final!Snap, Final!Staged, Final!Unchanged, Final!Go,
       Final!Spend, Final!Fail, Final!writerVars, Final!chainVars, FinalFlushTypes, FlushSteps
<1>5. RoundTypes'
  BY <1>0 DEF Final!SnapFinal, Final!At, Final!Snap, Final!Staged, Final!Unchanged, Final!Go,
       Final!Spend, Final!Fail, Final!writerVars, Final!chainVars, RoundTypes, FinalFlushTypes,
       Final!FINAL_ROUNDS, Final!SEAL_ATTEMPTS
<1>6. ChangesTypes'
  BY <1>0 DEF Final!SnapFinal, Final!At, Final!Snap, Final!Staged, Final!Unchanged, Final!Go,
       Final!Spend, Final!Fail, Final!writerVars, Final!chainVars, ChangesTypes, FinalFlushTypes,
            FinalDiskTypes
<1>7. SealTypes'
  BY <1>0, <1>a, <1>b DEF SealTypes, CountTypes
<1>8. Sealing'
  BY <1>0 DEF Final!SnapFinal, Final!At, Final!Snap, Final!Staged, Final!Unchanged, Final!Go,
       Final!Spend, Final!Fail, Final!writerVars, Final!chainVars, Sealing, FinalFlushTypes, Final!NoSeal
<1>9. FinalChainTypes'
  BY <1>a
<1>10. SnapHolds'
  BY <1>0, <1>a, <1>b DEF SnapHolds, Writes, SmallHeld, BulkHeld
<1>11. SealHolds'
  BY <1>0 DEF Final!SnapFinal, Final!At, Final!Snap, Final!Staged, Final!Unchanged, Final!Go,
       Final!Spend, Final!Fail, Final!writerVars, Final!chainVars, SealHolds, LeftTypes, FinalDiskTypes,
       FinalChainTypes, SealTypes, SnapHolds, FinalFlushTypes, Writes, SmallHeld, BulkHeld,
            FinalCapture, Final!Classes
<1>12. Quiet'
  BY <1>0 DEF Final!SnapFinal, Final!At, Final!Snap, Final!Staged, Final!Unchanged, Final!Go,
       Final!Spend, Final!Fail, Final!writerVars, Final!chainVars, Quiet, LeftTypes, FinalFlushTypes,
       FinalPartTypes, QuiesceTypes, AfterCensus
<1>13. SealStands'
  BY <1>0 DEF Final!SnapFinal, Final!At, Final!Snap, Final!Staged, Final!Unchanged, Final!Go,
       Final!Spend, Final!Fail, Final!writerVars, Final!chainVars, SealStands, LeftTypes, FinalFlushTypes,
       SealTypes, FinalDiskTypes, QuiesceTypes, Quiet, AfterCensus, Writes
<1>14. UnwatchedHolds'
  BY <1>0 DEF Final!SnapFinal, Final!At, Final!Snap, Final!Staged, Final!Unchanged, Final!Go,
       Final!Spend, Final!Fail, Final!writerVars, Final!chainVars, UnwatchedHolds, LeftTypes,
       FinalFlushTypes, FinalChainTypes, FinalDiskTypes, Quiet, QuiesceTypes, AfterCensus, SmallHeld,
            BulkHeld,
       FinalCapture, Final!Classes
<1>15. CompletionIs'
  BY <1>0 DEF Final!SnapFinal, Final!At, Final!Snap, Final!Staged, Final!Unchanged, Final!Go,
       Final!Spend, Final!Fail, Final!writerVars, Final!chainVars, CompletionIs, FinalFlushTypes, SealTypes
<1>16. FinalPartTypes' /\ FinalDiskTypes'
  BY <1>0 DEF Final!SnapFinal, Final!At, Final!Snap, Final!Staged, Final!Unchanged, Final!Go,
       Final!Spend, Final!Fail, Final!writerVars, Final!chainVars, FinalPartTypes, FinalDiskTypes, Writes,
       SmallHeld, BulkHeld
<1> QED BY <1>1, <1>2, <1>3, <1>4, <1>5, <1>6, <1>7, <1>8, <1>9, <1>10, <1>11, <1>12, <1>13, <1>14,
     <1>15, <1>16 DEF FinalInv

(* SnapBulk keeps the invariant.                                           *)
LEMMA FinalSnapBulk ==
  ASSUME FinalInv, Final!SnapFinal("bulk", "bulk", "final")
  PROVE  FinalInv'
<1>0. /\ FinalPartTypes /\ FinalDiskTypes /\ CountTypes /\ LeftTypes /\ QuiesceTypes /\ FinalFlushTypes
      /\ RoundTypes /\ ChangesTypes /\ SealTypes /\ Sealing /\ FinalChainTypes /\ SnapHolds
      /\ SealHolds /\ Quiet /\ SealStands /\ UnwatchedHolds /\ CompletionIs
  BY DEF FinalInv
<1>a. /\ FinalChainTypes' /\ CountTypes' /\ w7 <= w7'
      /\ \/ w14'.step = "final" /\ w9'.bulk = w4["bulk"] /\ w9'.small = w9.small /\ w14'.incomplete = w14.incomplete
         \/ w14'.step = "ship" /\ w9' = w9 /\ w14'.incomplete = "snapshot-failed"
  <2>1. CASE Final!Snap("bulk", "final") /\ Final!Go("final")
    <3>1. FinalChainTypes' /\ CountTypes' /\ w7 <= w7' /\ w9'.bulk = w4["bulk"] /\ w9'.small = w9.small
      BY <1>0, <2>1, FinalSnaps DEF FinalDiskTypes, Final!Classes
    <3>2. w14'.step = "final" /\ w14'.incomplete = w14.incomplete
      BY <1>0, <2>1 DEF Final!Go, FinalFlushTypes
    <3> QED BY <3>1, <3>2
  <2>2. CASE Final!Unchanged /\ Final!Fail("ship", "snapshot-failed")
    BY <1>0, <2>2 DEF Final!Unchanged, Final!Fail, FinalFlushTypes, Final!chainVars, FinalChainTypes,
         CountTypes
  <2> QED BY <2>1, <2>2 DEF Final!SnapFinal
<1>b. w16'.watched = w16.watched /\ w4' = w4 /\ w5' = w5 /\ w6' = w6
      /\ w14'.changes = w14.changes /\ w12' = w12 /\ w14.step = "bulk"
  BY <1>0 DEF Final!SnapFinal, Final!Spend, LeftTypes, Final!writerVars, Final!Go, Final!Fail,
       FinalFlushTypes, Final!At
<1>1. CountTypes'
  BY <1>a
<1>2. LeftTypes'
  BY <1>0 DEF Final!SnapFinal, Final!At, Final!Snap, Final!Staged, Final!Unchanged, Final!Go,
       Final!Spend, Final!Fail, Final!writerVars, Final!chainVars, LeftTypes
<1>3. QuiesceTypes'
  BY <1>0 DEF Final!SnapFinal, Final!At, Final!Snap, Final!Staged, Final!Unchanged, Final!Go,
       Final!Spend, Final!Fail, Final!writerVars, Final!chainVars, QuiesceTypes, FinalFlushTypes,
       AfterCensus, FlushSteps
<1>4. FinalFlushTypes'
  BY <1>0 DEF Final!SnapFinal, Final!At, Final!Snap, Final!Staged, Final!Unchanged, Final!Go,
       Final!Spend, Final!Fail, Final!writerVars, Final!chainVars, FinalFlushTypes, FlushSteps
<1>5. RoundTypes'
  BY <1>0 DEF Final!SnapFinal, Final!At, Final!Snap, Final!Staged, Final!Unchanged, Final!Go,
       Final!Spend, Final!Fail, Final!writerVars, Final!chainVars, RoundTypes, FinalFlushTypes,
       Final!FINAL_ROUNDS, Final!SEAL_ATTEMPTS
<1>6. ChangesTypes'
  BY <1>0 DEF Final!SnapFinal, Final!At, Final!Snap, Final!Staged, Final!Unchanged, Final!Go,
       Final!Spend, Final!Fail, Final!writerVars, Final!chainVars, ChangesTypes, FinalFlushTypes,
            FinalDiskTypes
<1>7. SealTypes'
  BY <1>0, <1>a, <1>b DEF SealTypes, CountTypes
<1>8. Sealing'
  BY <1>0 DEF Final!SnapFinal, Final!At, Final!Snap, Final!Staged, Final!Unchanged, Final!Go,
       Final!Spend, Final!Fail, Final!writerVars, Final!chainVars, Sealing, FinalFlushTypes, Final!NoSeal
<1>9. FinalChainTypes'
  BY <1>a
<1>10. SnapHolds'
  BY <1>0, <1>a, <1>b DEF SnapHolds, Writes, SmallHeld, BulkHeld
<1>11. SealHolds'
  BY <1>0 DEF Final!SnapFinal, Final!At, Final!Snap, Final!Staged, Final!Unchanged, Final!Go,
       Final!Spend, Final!Fail, Final!writerVars, Final!chainVars, SealHolds, LeftTypes, FinalDiskTypes,
       FinalChainTypes, SealTypes, SnapHolds, FinalFlushTypes, Writes, SmallHeld, BulkHeld,
            FinalCapture, Final!Classes
<1>12. Quiet'
  BY <1>0 DEF Final!SnapFinal, Final!At, Final!Snap, Final!Staged, Final!Unchanged, Final!Go,
       Final!Spend, Final!Fail, Final!writerVars, Final!chainVars, Quiet, LeftTypes, FinalFlushTypes,
       FinalPartTypes, QuiesceTypes, AfterCensus
<1>13. SealStands'
  BY <1>0 DEF Final!SnapFinal, Final!At, Final!Snap, Final!Staged, Final!Unchanged, Final!Go,
       Final!Spend, Final!Fail, Final!writerVars, Final!chainVars, SealStands, LeftTypes, FinalFlushTypes,
       SealTypes, FinalDiskTypes, QuiesceTypes, Quiet, AfterCensus, Writes
<1>14. UnwatchedHolds'
  BY <1>0 DEF Final!SnapFinal, Final!At, Final!Snap, Final!Staged, Final!Unchanged, Final!Go,
       Final!Spend, Final!Fail, Final!writerVars, Final!chainVars, UnwatchedHolds, LeftTypes,
       FinalFlushTypes, FinalChainTypes, FinalDiskTypes, Quiet, QuiesceTypes, AfterCensus, SmallHeld,
            BulkHeld,
       FinalCapture, Final!Classes
<1>15. CompletionIs'
  BY <1>0 DEF Final!SnapFinal, Final!At, Final!Snap, Final!Staged, Final!Unchanged, Final!Go,
       Final!Spend, Final!Fail, Final!writerVars, Final!chainVars, CompletionIs, FinalFlushTypes, SealTypes
<1>16. FinalPartTypes' /\ FinalDiskTypes'
  BY <1>0 DEF Final!SnapFinal, Final!At, Final!Snap, Final!Staged, Final!Unchanged, Final!Go,
       Final!Spend, Final!Fail, Final!writerVars, Final!chainVars, FinalPartTypes, FinalDiskTypes, Writes,
       SmallHeld, BulkHeld
<1> QED BY <1>1, <1>2, <1>3, <1>4, <1>5, <1>6, <1>7, <1>8, <1>9, <1>10, <1>11, <1>12, <1>13, <1>14,
     <1>15, <1>16 DEF FinalInv

(* SnapsEnd keeps the invariant.                                           *)
LEMMA FinalSnapsEnd ==
  ASSUME FinalInv, Final!SnapsEnd
  PROVE  FinalInv'
<1>0. /\ FinalPartTypes /\ FinalDiskTypes /\ CountTypes /\ LeftTypes /\ QuiesceTypes /\ FinalFlushTypes
      /\ RoundTypes /\ ChangesTypes /\ SealTypes /\ Sealing /\ FinalChainTypes /\ SnapHolds
      /\ SealHolds /\ Quiet /\ SealStands /\ UnwatchedHolds /\ CompletionIs
  BY DEF FinalInv
<1>a. /\ FinalChainTypes' /\ CountTypes' /\ w7 <= w7'
      /\ w9'.small = w9.small /\ w9'.bulk = w9.bulk
  <2>1. CASE Final!Unchanged
    BY <1>0, <2>1 DEF Final!Unchanged, Final!chainVars, FinalChainTypes, CountTypes
  <2>2. CASE Final!StageOver(FALSE)
    BY <1>0, <2>2, FinalStageOver
  <2> QED BY <2>1, <2>2 DEF Final!SnapsEnd, Final!SealFinalFails
<1>b. w16'.watched = w16.watched /\ w4' = w4 /\ w5' = w5 /\ w6' = w6
  BY <1>0 DEF Final!SnapsEnd, Final!SealFinalFails, Final!Spend, LeftTypes, Final!writerVars
<1>c. w12' = w12 \/ w12' = [changes |-> w14.changes, staged |-> w7', completion |-> FALSE]
  BY DEF Final!SnapsEnd, Final!SealFinalFails
<1>1. CountTypes'
  BY <1>a
<1>2. LeftTypes'
  BY <1>0 DEF Final!SnapsEnd, Final!At, Final!Unchanged, Final!StageOver, Final!Staged, Final!Go,
       Final!SealFinalFails, Final!Spend, Final!Fail, Final!writerVars, Final!chainVars, LeftTypes
<1>3. QuiesceTypes'
  BY <1>0 DEF Final!SnapsEnd, Final!At, Final!Unchanged, Final!StageOver, Final!Staged, Final!Go,
       Final!SealFinalFails, Final!Spend, Final!Fail, Final!writerVars, Final!chainVars, QuiesceTypes,
       FinalFlushTypes, AfterCensus, FlushSteps
<1>4. FinalFlushTypes'
  BY <1>0 DEF Final!SnapsEnd, Final!At, Final!Unchanged, Final!StageOver, Final!Staged, Final!Go,
       Final!SealFinalFails, Final!Spend, Final!Fail, Final!writerVars, Final!chainVars, FinalFlushTypes,
       FlushSteps
<1>5. RoundTypes'
  BY <1>0 DEF Final!SnapsEnd, Final!At, Final!Unchanged, Final!StageOver, Final!Staged, Final!Go,
       Final!SealFinalFails, Final!Spend, Final!Fail, Final!writerVars, Final!chainVars, RoundTypes,
       FinalFlushTypes, Final!FINAL_ROUNDS, Final!SEAL_ATTEMPTS
<1>6. ChangesTypes'
  BY <1>0 DEF Final!SnapsEnd, Final!At, Final!Unchanged, Final!StageOver, Final!Staged, Final!Go,
       Final!SealFinalFails, Final!Spend, Final!Fail, Final!writerVars, Final!chainVars, ChangesTypes,
       FinalFlushTypes, FinalDiskTypes
<1>7. SealTypes'
  BY <1>0 DEF Final!SnapsEnd, Final!At, Final!Unchanged, Final!StageOver, Final!Staged, Final!Go,
       Final!SealFinalFails, Final!Spend, Final!Fail, Final!writerVars, Final!chainVars, SealTypes,
       CountTypes, FinalDiskTypes, ChangesTypes
<1>8. Sealing'
  BY <1>0 DEF Final!SnapsEnd, Final!At, Final!Unchanged, Final!StageOver, Final!Staged, Final!Go,
       Final!SealFinalFails, Final!Spend, Final!Fail, Final!writerVars, Final!chainVars, Sealing,
       FinalFlushTypes, Final!NoSeal
<1>9. FinalChainTypes'
  BY <1>a
<1>10. SnapHolds'
  BY <1>0 DEF Final!SnapsEnd, Final!At, Final!Unchanged, Final!StageOver, Final!Staged, Final!Go,
       Final!SealFinalFails, Final!Spend, Final!Fail, Final!writerVars, Final!chainVars, SnapHolds,
       LeftTypes, FinalFlushTypes, FinalDiskTypes, FinalChainTypes, ChangesTypes, Writes, SmallHeld, BulkHeld,
       FinalCapture, Final!Classes
<1>11. SealHolds'
  <2>1. CASE w12' = w12
    BY <1>0, <1>a, <1>b, <2>1 DEF SealHolds, Writes, SmallHeld, BulkHeld
  <2>2. CASE w12' = [changes |-> w14.changes, staged |-> w7', completion |-> FALSE]
    <3>1. w12'.changes = w14.changes /\ w14.step = "final"
      BY <2>2 DEF Final!SnapsEnd, Final!At
    <3> QED BY <1>0, <1>a, <1>b, <3>1 DEF SealHolds, SnapHolds, Writes, SmallHeld, BulkHeld
  <2> QED BY <1>c, <2>1, <2>2
<1>12. Quiet'
  BY <1>0 DEF Final!SnapsEnd, Final!At, Final!Unchanged, Final!StageOver, Final!Staged, Final!Go,
       Final!SealFinalFails, Final!Spend, Final!Fail, Final!writerVars, Final!chainVars, Quiet,
       LeftTypes, FinalFlushTypes, FinalPartTypes, QuiesceTypes, AfterCensus
<1>13. SealStands'
  BY <1>0 DEF Final!SnapsEnd, Final!At, Final!Unchanged, Final!StageOver, Final!Staged, Final!Go,
       Final!SealFinalFails, Final!Spend, Final!Fail, Final!writerVars, Final!chainVars, SealStands,
       LeftTypes, FinalFlushTypes, SealTypes, FinalDiskTypes, QuiesceTypes, Quiet, AfterCensus, Writes
<1>14. UnwatchedHolds'
  BY <1>0 DEF Final!SnapsEnd, Final!At, Final!Unchanged, Final!StageOver, Final!Staged, Final!Go,
       Final!SealFinalFails, Final!Spend, Final!Fail, Final!writerVars, Final!chainVars, UnwatchedHolds,
       LeftTypes, FinalFlushTypes, FinalChainTypes, FinalDiskTypes, Quiet, QuiesceTypes, AfterCensus,
            SmallHeld,
       BulkHeld, FinalCapture, Final!Classes
<1>15. CompletionIs'
  BY <1>0 DEF Final!SnapsEnd, Final!At, Final!Unchanged, Final!StageOver, Final!Staged, Final!Go,
       Final!SealFinalFails, Final!Spend, Final!Fail, Final!writerVars, Final!chainVars, CompletionIs,
       FinalFlushTypes, SealTypes
<1>16. FinalPartTypes' /\ FinalDiskTypes'
  BY <1>0 DEF Final!SnapsEnd, Final!At, Final!Unchanged, Final!StageOver, Final!Staged, Final!Go,
       Final!SealFinalFails, Final!Spend, Final!Fail, Final!writerVars, Final!chainVars, FinalPartTypes,
       FinalDiskTypes, Writes, SmallHeld, BulkHeld
<1> QED BY <1>1, <1>2, <1>3, <1>4, <1>5, <1>6, <1>7, <1>8, <1>9, <1>10, <1>11, <1>12, <1>13, <1>14,
     <1>15, <1>16 DEF FinalInv

(* ShipFinal keeps the invariant.                                          *)
LEMMA FinalShipFinal ==
  ASSUME FinalInv, Final!ShipFinal
  PROVE  FinalInv'
<1>0. /\ FinalPartTypes /\ FinalDiskTypes /\ CountTypes /\ LeftTypes /\ QuiesceTypes /\ FinalFlushTypes
      /\ RoundTypes /\ ChangesTypes /\ SealTypes /\ Sealing /\ FinalChainTypes /\ SnapHolds
      /\ SealHolds /\ Quiet /\ SealStands /\ UnwatchedHolds /\ CompletionIs
  BY DEF FinalInv
<1>1. LeftTypes'
  BY <1>0 DEF Final!ShipFinal, Final!At, Final!Go, Final!AfterShip, Final!Spend, Final!Fail,
       Final!writerVars, Final!chainVars, LeftTypes
<1>2. QuiesceTypes'
  BY <1>0 DEF Final!ShipFinal, Final!At, Final!Go, Final!AfterShip, Final!Spend, Final!Fail,
       Final!writerVars, Final!chainVars, QuiesceTypes, FinalFlushTypes, AfterCensus, FlushSteps
<1>3. FinalFlushTypes'
  BY <1>0 DEF Final!ShipFinal, Final!At, Final!Go, Final!AfterShip, Final!Spend, Final!Fail,
       Final!writerVars, Final!chainVars, FinalFlushTypes, FlushSteps
<1>4. RoundTypes'
  BY <1>0 DEF Final!ShipFinal, Final!At, Final!Go, Final!AfterShip, Final!Spend, Final!Fail,
       Final!writerVars, Final!chainVars, RoundTypes, FinalFlushTypes, Final!FINAL_ROUNDS, Final!SEAL_ATTEMPTS
<1>5. ChangesTypes'
  BY <1>0 DEF Final!ShipFinal, Final!At, Final!Go, Final!AfterShip, Final!Spend, Final!Fail,
       Final!writerVars, Final!chainVars, ChangesTypes, FinalFlushTypes, FinalDiskTypes
<1>6. Sealing'
  BY <1>0 DEF Final!ShipFinal, Final!At, Final!Go, Final!AfterShip, Final!Spend, Final!Fail,
       Final!writerVars, Final!chainVars, Sealing, FinalFlushTypes, Final!NoSeal
<1>7. SnapHolds'
  BY <1>0 DEF Final!ShipFinal, Final!At, Final!Go, Final!AfterShip, Final!Spend, Final!Fail,
       Final!writerVars, Final!chainVars, SnapHolds, LeftTypes, FinalFlushTypes, FinalDiskTypes,
            FinalChainTypes,
       ChangesTypes, Writes, SmallHeld, BulkHeld, FinalCapture, Final!Classes
<1>8. SealHolds'
  BY <1>0 DEF Final!ShipFinal, Final!At, Final!Go, Final!AfterShip, Final!Spend, Final!Fail,
       Final!writerVars, Final!chainVars, SealHolds, LeftTypes, FinalDiskTypes, FinalChainTypes, SealTypes,
       SnapHolds, FinalFlushTypes, Writes, SmallHeld, BulkHeld, FinalCapture, Final!Classes
<1>9. Quiet'
  BY <1>0 DEF Final!ShipFinal, Final!At, Final!Go, Final!AfterShip, Final!Spend, Final!Fail,
       Final!writerVars, Final!chainVars, Quiet, LeftTypes, FinalFlushTypes, FinalPartTypes,
            QuiesceTypes, AfterCensus
<1>10. SealStands'
  BY <1>0 DEF Final!ShipFinal, Final!At, Final!Go, Final!AfterShip, Final!Spend, Final!Fail,
       Final!writerVars, Final!chainVars, SealStands, LeftTypes, FinalFlushTypes, SealTypes, FinalDiskTypes,
       QuiesceTypes, Quiet, AfterCensus, Writes
<1>11. UnwatchedHolds'
  BY <1>0 DEF Final!ShipFinal, Final!At, Final!Go, Final!AfterShip, Final!Spend, Final!Fail,
       Final!writerVars, Final!chainVars, UnwatchedHolds, LeftTypes, FinalFlushTypes, FinalChainTypes,
            FinalDiskTypes,
       Quiet, QuiesceTypes, AfterCensus, SmallHeld, BulkHeld, FinalCapture, Final!Classes
<1>12. CompletionIs'
  BY <1>0 DEF Final!ShipFinal, Final!At, Final!Go, Final!AfterShip, Final!Spend, Final!Fail,
       Final!writerVars, Final!chainVars, CompletionIs, FinalFlushTypes, SealTypes
<1>13. FinalPartTypes' /\ FinalDiskTypes' /\ CountTypes' /\ SealTypes' /\ FinalChainTypes'
  BY <1>0 DEF Final!ShipFinal, Final!At, Final!Go, Final!AfterShip, Final!Spend, Final!Fail,
       Final!writerVars, Final!chainVars, FinalPartTypes, FinalDiskTypes, CountTypes, SealTypes,
            FinalChainTypes,
       Writes, SmallHeld, BulkHeld
<1> QED BY <1>1, <1>2, <1>3, <1>4, <1>5, <1>6, <1>7, <1>8, <1>9, <1>10, <1>11, <1>12, <1>13 DEF FinalInv

(* Census keeps the invariant.                                             *)
LEMMA FinalCensus ==
  ASSUME FinalInv, Final!Census
  PROVE  FinalInv'
<1>0. /\ FinalPartTypes /\ FinalDiskTypes /\ CountTypes /\ LeftTypes /\ QuiesceTypes /\ FinalFlushTypes
      /\ RoundTypes /\ ChangesTypes /\ SealTypes /\ Sealing /\ FinalChainTypes /\ SnapHolds
      /\ SealHolds /\ Quiet /\ SealStands /\ UnwatchedHolds /\ CompletionIs
  BY DEF FinalInv
<1>1. FinalPartTypes'
  BY <1>0 DEF Final!Census, Final!At, Final!Again, Final!Go, Final!Fail, Final!Spend, Final!Running,
       Final!chainVars, FinalPartTypes
<1>2. LeftTypes'
  BY <1>0 DEF Final!Census, Final!At, Final!Again, Final!Go, Final!Fail, Final!Spend, Final!Running,
       Final!chainVars, LeftTypes
<1>3. QuiesceTypes'
  BY <1>0 DEF Final!Census, Final!At, Final!Again, Final!Go, Final!Fail, Final!Spend, Final!Running,
       Final!chainVars, QuiesceTypes, FinalFlushTypes, AfterCensus, FlushSteps
<1>4. FinalFlushTypes'
  BY <1>0 DEF Final!Census, Final!At, Final!Again, Final!Go, Final!Fail, Final!Spend, Final!Running,
       Final!chainVars, FinalFlushTypes, FlushSteps
<1>5. RoundTypes'
  BY <1>0 DEF Final!Census, Final!At, Final!Again, Final!Go, Final!Fail, Final!Spend, Final!Running,
       Final!chainVars, RoundTypes, FinalFlushTypes, Final!FINAL_ROUNDS, Final!SEAL_ATTEMPTS
<1>6. ChangesTypes'
  BY <1>0 DEF Final!Census, Final!At, Final!Again, Final!Go, Final!Fail, Final!Spend, Final!Running,
       Final!chainVars, ChangesTypes, FinalFlushTypes, FinalDiskTypes
<1>7. Sealing'
  BY <1>0 DEF Final!Census, Final!At, Final!Again, Final!Go, Final!Fail, Final!Spend, Final!Running,
       Final!chainVars, Sealing, FinalFlushTypes, Final!NoSeal
<1>8. SnapHolds'
  BY <1>0 DEF Final!Census, Final!At, Final!Again, Final!Go, Final!Fail, Final!Spend, Final!Running,
       Final!chainVars, SnapHolds, LeftTypes, FinalFlushTypes, FinalDiskTypes, FinalChainTypes,
            ChangesTypes, Writes,
       SmallHeld, BulkHeld, FinalCapture, Final!Classes
<1>9. SealHolds'
  BY <1>0 DEF Final!Census, Final!At, Final!Again, Final!Go, Final!Fail, Final!Spend, Final!Running,
       Final!chainVars, SealHolds, LeftTypes, FinalDiskTypes, FinalChainTypes, SealTypes, SnapHolds,
            FinalFlushTypes,
       Writes, SmallHeld, BulkHeld, FinalCapture, Final!Classes
<1>10. Quiet'
  BY <1>0 DEF Final!Census, Final!At, Final!Again, Final!Go, Final!Fail, Final!Spend, Final!Running,
       Final!chainVars, Quiet, LeftTypes, FinalFlushTypes, FinalPartTypes, QuiesceTypes, AfterCensus
<1>11. SealStands'
  BY <1>0 DEF Final!Census, Final!At, Final!Again, Final!Go, Final!Fail, Final!Spend, Final!Running,
       Final!chainVars, SealStands, LeftTypes, FinalFlushTypes, SealTypes, FinalDiskTypes, QuiesceTypes,
            Quiet,
       AfterCensus, Writes
<1>12. UnwatchedHolds'
  BY <1>0 DEF Final!Census, Final!At, Final!Again, Final!Go, Final!Fail, Final!Spend, Final!Running,
       Final!chainVars, UnwatchedHolds, LeftTypes, FinalFlushTypes, FinalChainTypes, FinalDiskTypes, Quiet,
       QuiesceTypes, AfterCensus, SmallHeld, BulkHeld, FinalCapture, Final!Classes
<1>13. CompletionIs'
  BY <1>0 DEF Final!Census, Final!At, Final!Again, Final!Go, Final!Fail, Final!Spend, Final!Running,
       Final!chainVars, CompletionIs, FinalFlushTypes, SealTypes
<1>14. FinalDiskTypes' /\ CountTypes' /\ SealTypes' /\ FinalChainTypes'
  BY <1>0 DEF Final!Census, Final!At, Final!Again, Final!Go, Final!Fail, Final!Spend, Final!Running,
       Final!chainVars, FinalDiskTypes, CountTypes, SealTypes, FinalChainTypes, Writes, SmallHeld, BulkHeld
<1> QED BY <1>1, <1>2, <1>3, <1>4, <1>5, <1>6, <1>7, <1>8, <1>9, <1>10, <1>11, <1>12, <1>13,
     <1>14 DEF FinalInv

(* SettleAgain keeps the invariant.                                        *)
LEMMA FinalSettleAgain ==
  ASSUME FinalInv, Final!SettleAgain
  PROVE  FinalInv'
<1>0. /\ FinalPartTypes /\ FinalDiskTypes /\ CountTypes /\ LeftTypes /\ QuiesceTypes /\ FinalFlushTypes
      /\ RoundTypes /\ ChangesTypes /\ SealTypes /\ Sealing /\ FinalChainTypes /\ SnapHolds
      /\ SealHolds /\ Quiet /\ SealStands /\ UnwatchedHolds /\ CompletionIs
  BY DEF FinalInv
<1>a. /\ w14'.changes = w14.changes /\ w6 <= w6' /\ Writes' = Writes /\ w12' = w12
      /\ w16'.watched = w16.watched
  <2>1. w14'.changes = w14.changes /\ w16'.watched = w16.watched /\ w12' = w12
    BY <1>0 DEF Final!SettleAgain, Final!Again, Final!Go, Final!Fail, Final!Spend, FinalFlushTypes, LeftTypes
  <2>2. (w5' = 0 /\ w6' = w6 + w5) \/ (w5' = w5 /\ w6' = w6)
    BY DEF Final!SettleAgain, Final!Settled
  <2> QED BY <1>0, <2>1, <2>2 DEF FinalDiskTypes, Writes
<1>b. w14'.step = "seal" => w12 # Final!NoSeal /\ w12.changes = w6' /\ w5' = 0
  BY <1>0 DEF Final!SettleAgain, Final!Settled, Final!Again, Final!Go, Final!Fail, FinalFlushTypes
<1>c. w14'.step \in {"seal", "settle", "outcome"} /\ (w14'.step = "outcome" => w14'.incomplete = "changed")
  BY <1>0 DEF Final!SettleAgain, Final!Settled, Final!Again, Final!Go, Final!Fail, FinalFlushTypes
<1>d. w6' \in Nat
  BY <1>0 DEF Final!SettleAgain, Final!Settled, FinalDiskTypes
<1>1. FinalDiskTypes'
  BY <1>0 DEF Final!SettleAgain, Final!At, Final!Settled, Final!Again, Final!Go, Final!Fail,
       Final!Spend, Final!chainVars, FinalDiskTypes, Final!Classes
<1>2. LeftTypes'
  BY <1>0 DEF Final!SettleAgain, Final!At, Final!Settled, Final!Again, Final!Go, Final!Fail,
       Final!Spend, Final!chainVars, LeftTypes
<1>3. QuiesceTypes'
  BY <1>0 DEF Final!SettleAgain, Final!At, Final!Settled, Final!Again, Final!Go, Final!Fail,
       Final!Spend, Final!chainVars, QuiesceTypes, FinalFlushTypes, AfterCensus, FlushSteps
<1>4. FinalFlushTypes'
  BY <1>0 DEF Final!SettleAgain, Final!At, Final!Settled, Final!Again, Final!Go, Final!Fail,
       Final!Spend, Final!chainVars, FinalFlushTypes, FlushSteps
<1>5. RoundTypes'
  BY <1>0 DEF Final!SettleAgain, Final!At, Final!Settled, Final!Again, Final!Go, Final!Fail,
       Final!Spend, Final!chainVars, RoundTypes, FinalFlushTypes, Final!FINAL_ROUNDS, Final!SEAL_ATTEMPTS
<1>6. ChangesTypes'
  BY <1>0, <1>a, <1>d DEF ChangesTypes, FinalDiskTypes
<1>7. SealTypes'
  BY <1>0 DEF Final!SettleAgain, Final!At, Final!Settled, Final!Again, Final!Go, Final!Fail,
       Final!Spend, Final!chainVars, SealTypes, CountTypes, FinalDiskTypes, ChangesTypes
<1>8. Sealing'
  BY <1>0 DEF Final!SettleAgain, Final!At, Final!Settled, Final!Again, Final!Go, Final!Fail,
       Final!Spend, Final!chainVars, Sealing, FinalFlushTypes, Final!NoSeal
<1>9. SnapHolds'
  BY <1>0 DEF Final!SettleAgain, Final!At, Final!Settled, Final!Again, Final!Go, Final!Fail,
       Final!Spend, Final!chainVars, SnapHolds, LeftTypes, FinalFlushTypes, FinalDiskTypes, FinalChainTypes,
       ChangesTypes, Writes, SmallHeld, BulkHeld, FinalCapture, Final!Classes
<1>10. SealHolds'
  BY <1>0 DEF Final!SettleAgain, Final!At, Final!Settled, Final!Again, Final!Go, Final!Fail,
       Final!Spend, Final!chainVars, SealHolds, LeftTypes, FinalDiskTypes, FinalChainTypes, SealTypes,
            SnapHolds,
       FinalFlushTypes, Writes, SmallHeld, BulkHeld, FinalCapture, Final!Classes
<1>11. Quiet'
  BY <1>0 DEF Final!SettleAgain, Final!At, Final!Settled, Final!Again, Final!Go, Final!Fail,
       Final!Spend, Final!chainVars, Quiet, LeftTypes, FinalFlushTypes, FinalPartTypes, QuiesceTypes,
            AfterCensus
<1>12. SealStands'
  BY <1>0, <1>a, <1>b, <1>c, <1>d DEF SealStands, Writes, AfterCensus
<1>13. UnwatchedHolds'
  BY <1>0 DEF Final!SettleAgain, Final!At, Final!Settled, Final!Again, Final!Go, Final!Fail,
       Final!Spend, Final!chainVars, UnwatchedHolds, LeftTypes, FinalFlushTypes, FinalChainTypes,
            FinalDiskTypes,
       Quiet, QuiesceTypes, AfterCensus, SmallHeld, BulkHeld, FinalCapture, Final!Classes
<1>14. CompletionIs'
  BY <1>0 DEF Final!SettleAgain, Final!At, Final!Settled, Final!Again, Final!Go, Final!Fail,
       Final!Spend, Final!chainVars, CompletionIs, FinalFlushTypes, SealTypes
<1>15. FinalPartTypes' /\ CountTypes' /\ FinalChainTypes'
  BY <1>0 DEF Final!SettleAgain, Final!At, Final!Settled, Final!Again, Final!Go, Final!Fail,
       Final!Spend, Final!chainVars, FinalPartTypes, CountTypes, FinalChainTypes, Writes, SmallHeld, BulkHeld
<1> QED BY <1>1, <1>2, <1>3, <1>4, <1>5, <1>6, <1>7, <1>8, <1>9, <1>10, <1>11, <1>12, <1>13, <1>14,
     <1>15 DEF FinalInv

(* SealComplete keeps the invariant.                                       *)
LEMMA FinalSealComplete ==
  ASSUME FinalInv, Final!SealComplete
  PROVE  FinalInv'
<1>0. /\ FinalPartTypes /\ FinalDiskTypes /\ CountTypes /\ LeftTypes /\ QuiesceTypes /\ FinalFlushTypes
      /\ RoundTypes /\ ChangesTypes /\ SealTypes /\ Sealing /\ FinalChainTypes /\ SnapHolds
      /\ SealHolds /\ Quiet /\ SealStands /\ UnwatchedHolds /\ CompletionIs
  BY DEF FinalInv
<1>a. /\ FinalChainTypes' /\ CountTypes' /\ w7 <= w7'
      /\ w9'.small = w9.small /\ w9'.bulk = w9.bulk
  <2>1. CASE Final!Unchanged
    BY <1>0, <2>1 DEF Final!Unchanged, Final!chainVars, FinalChainTypes, CountTypes
  <2>2. CASE Final!StageOver(TRUE)
    BY <1>0, <2>2, FinalStageOver
  <2> QED BY <2>1, <2>2 DEF Final!SealComplete
<1>b. w16'.watched = w16.watched /\ w4' = w4 /\ w5' = w5 /\ w6' = w6
  BY <1>0 DEF Final!SealComplete, Final!SealFinalFails, Final!Spend, LeftTypes, Final!writerVars
<1>c. w12 # Final!NoSeal /\ (w12' = w12 \/ w12' = [w12 EXCEPT !.staged = w7'])
  BY <1>0 DEF Final!SealComplete, Final!At, Sealing
<1>d. w12'.changes = w12.changes /\ w12'.completion = w12.completion
      /\ (w12'.staged = w12.staged \/ w12'.staged = w7')
      /\ {"changes", "staged", "completion"} \subseteq DOMAIN w12'
  BY <1>0, <1>c DEF SealTypes
<1>e. /\ w14'.step \in {"shipSeal", "outcome"} /\ (w14'.step = "outcome" => w14'.incomplete = "sealing")
      /\ (w14'.step = "shipSeal" => w14'.incomplete = w14.incomplete)
      /\ w14'.changes = w14.changes /\ w14.step = "seal"
  BY <1>0 DEF Final!SealComplete, Final!Spend, Final!Fail, Final!At, FinalFlushTypes
<1>f. w3' = w3 /\ w15' = w15
  BY DEF Final!SealComplete, Final!writerVars
<1>1. CountTypes'
  BY <1>a
<1>2. LeftTypes'
  BY <1>0 DEF Final!SealComplete, Final!At, Final!StageOver, Final!Staged, Final!Unchanged, Final!Spend,
       Final!Fail, Final!writerVars, Final!chainVars, LeftTypes
<1>3. QuiesceTypes'
  BY <1>0 DEF Final!SealComplete, Final!At, Final!StageOver, Final!Staged, Final!Unchanged, Final!Spend,
       Final!Fail, Final!writerVars, Final!chainVars, QuiesceTypes, FinalFlushTypes, AfterCensus, FlushSteps
<1>4. FinalFlushTypes'
  BY <1>0 DEF Final!SealComplete, Final!At, Final!StageOver, Final!Staged, Final!Unchanged, Final!Spend,
       Final!Fail, Final!writerVars, Final!chainVars, FinalFlushTypes, FlushSteps
<1>5. RoundTypes'
  <2>1. /\ w14'.step \notin {"close", "quiesce", "settle"} /\ w14'.round = w14.round
        /\ (w14'.attempts = w14.attempts \/ w14'.attempts = w14.attempts + 1)
        /\ w14.attempts < Final!SEAL_ATTEMPTS
    BY <1>0, <1>e DEF Final!SealComplete, Final!Spend, Final!Fail, FinalFlushTypes
  <2> QED BY <1>0, <2>1 DEF RoundTypes, Final!FINAL_ROUNDS, Final!SEAL_ATTEMPTS
<1>6. ChangesTypes'
  BY <1>0 DEF Final!SealComplete, Final!At, Final!StageOver, Final!Staged, Final!Unchanged, Final!Spend,
       Final!Fail, Final!writerVars, Final!chainVars, ChangesTypes, FinalFlushTypes, FinalDiskTypes
<1>7. SealTypes'
  BY <1>0, <1>a, <1>b, <1>c, <1>d DEF SealTypes, CountTypes
<1>8. Sealing'
  <2>1. w12' # Final!NoSeal
    BY <1>0, <1>c, <1>d DEF SealTypes, Final!NoSeal
  <2> QED BY <2>1 DEF Sealing
<1>9. FinalChainTypes'
  BY <1>a
<1>10. SnapHolds'
  BY <1>0, <1>a, <1>b, <1>e DEF SnapHolds, Writes, SmallHeld, BulkHeld
<1>11. SealHolds'
  BY <1>0, <1>a, <1>b, <1>c, <1>d DEF SealHolds, Writes, SmallHeld, BulkHeld
<1>12. Quiet'
  BY <1>0 DEF Final!SealComplete, Final!At, Final!StageOver, Final!Staged, Final!Unchanged, Final!Spend,
       Final!Fail, Final!writerVars, Final!chainVars, Quiet, LeftTypes, FinalFlushTypes, FinalPartTypes,
       QuiesceTypes, AfterCensus
<1>13. SealStands'
  <2>1. w12' # Final!NoSeal
    BY <1>0, <1>c, <1>d DEF SealTypes, Final!NoSeal
  <2> QED BY <1>0, <1>b, <1>d, <1>e, <1>f, <2>1 DEF SealStands, Writes, AfterCensus
<1>14. UnwatchedHolds'
  BY <1>0 DEF Final!SealComplete, Final!At, Final!StageOver, Final!Staged, Final!Unchanged, Final!Spend,
       Final!Fail, Final!writerVars, Final!chainVars, UnwatchedHolds, LeftTypes, FinalFlushTypes,
            FinalChainTypes,
       FinalDiskTypes, Quiet, QuiesceTypes, AfterCensus, SmallHeld, BulkHeld, FinalCapture, Final!Classes
<1>15. CompletionIs'
  BY <1>e DEF CompletionIs
<1>16. FinalPartTypes' /\ FinalDiskTypes'
  BY <1>0 DEF Final!SealComplete, Final!At, Final!StageOver, Final!Staged, Final!Unchanged, Final!Spend,
       Final!Fail, Final!writerVars, Final!chainVars, FinalPartTypes, FinalDiskTypes, Writes, SmallHeld,
            BulkHeld
<1> QED BY <1>1, <1>2, <1>3, <1>4, <1>5, <1>6, <1>7, <1>8, <1>9, <1>10, <1>11, <1>12, <1>13, <1>14,
     <1>15, <1>16 DEF FinalInv

(* ShipSeal keeps the invariant.                                           *)
LEMMA FinalShipSeal ==
  ASSUME FinalInv, Final!ShipSeal
  PROVE  FinalInv'
<1>0. /\ FinalPartTypes /\ FinalDiskTypes /\ CountTypes /\ LeftTypes /\ QuiesceTypes /\ FinalFlushTypes
      /\ RoundTypes /\ ChangesTypes /\ SealTypes /\ Sealing /\ FinalChainTypes /\ SnapHolds
      /\ SealHolds /\ Quiet /\ SealStands /\ UnwatchedHolds /\ CompletionIs
  BY DEF FinalInv
<1>1. LeftTypes'
  BY <1>0 DEF Final!ShipSeal, Final!At, Final!Go, Final!Spend, Final!Fail, Final!writerVars,
       Final!chainVars, LeftTypes
<1>2. QuiesceTypes'
  BY <1>0 DEF Final!ShipSeal, Final!At, Final!Go, Final!Spend, Final!Fail, Final!writerVars,
       Final!chainVars, QuiesceTypes, FinalFlushTypes, AfterCensus, FlushSteps
<1>3. FinalFlushTypes'
  BY <1>0 DEF Final!ShipSeal, Final!At, Final!Go, Final!Spend, Final!Fail, Final!writerVars,
       Final!chainVars, FinalFlushTypes, FlushSteps
<1>4. RoundTypes'
  BY <1>0 DEF Final!ShipSeal, Final!At, Final!Go, Final!Spend, Final!Fail, Final!writerVars,
       Final!chainVars, RoundTypes, FinalFlushTypes, Final!FINAL_ROUNDS, Final!SEAL_ATTEMPTS
<1>5. ChangesTypes'
  BY <1>0 DEF Final!ShipSeal, Final!At, Final!Go, Final!Spend, Final!Fail, Final!writerVars,
       Final!chainVars, ChangesTypes, FinalFlushTypes, FinalDiskTypes
<1>6. Sealing'
  BY <1>0 DEF Final!ShipSeal, Final!At, Final!Go, Final!Spend, Final!Fail, Final!writerVars,
       Final!chainVars, Sealing, FinalFlushTypes, Final!NoSeal
<1>7. SnapHolds'
  BY <1>0 DEF Final!ShipSeal, Final!At, Final!Go, Final!Spend, Final!Fail, Final!writerVars,
       Final!chainVars, SnapHolds, LeftTypes, FinalFlushTypes, FinalDiskTypes, FinalChainTypes,
            ChangesTypes, Writes,
       SmallHeld, BulkHeld, FinalCapture, Final!Classes
<1>8. SealHolds'
  BY <1>0 DEF Final!ShipSeal, Final!At, Final!Go, Final!Spend, Final!Fail, Final!writerVars,
       Final!chainVars, SealHolds, LeftTypes, FinalDiskTypes, FinalChainTypes, SealTypes, SnapHolds,
            FinalFlushTypes,
       Writes, SmallHeld, BulkHeld, FinalCapture, Final!Classes
<1>9. Quiet'
  BY <1>0 DEF Final!ShipSeal, Final!At, Final!Go, Final!Spend, Final!Fail, Final!writerVars,
       Final!chainVars, Quiet, LeftTypes, FinalFlushTypes, FinalPartTypes, QuiesceTypes, AfterCensus
<1>10. SealStands'
  BY <1>0 DEF Final!ShipSeal, Final!At, Final!Go, Final!Spend, Final!Fail, Final!writerVars,
       Final!chainVars, SealStands, LeftTypes, FinalFlushTypes, SealTypes, FinalDiskTypes, QuiesceTypes,
            Quiet,
       AfterCensus, Writes
<1>11. UnwatchedHolds'
  BY <1>0 DEF Final!ShipSeal, Final!At, Final!Go, Final!Spend, Final!Fail, Final!writerVars,
       Final!chainVars, UnwatchedHolds, LeftTypes, FinalFlushTypes, FinalChainTypes, FinalDiskTypes, Quiet,
       QuiesceTypes, AfterCensus, SmallHeld, BulkHeld, FinalCapture, Final!Classes
<1>12. CompletionIs'
  BY <1>0 DEF Final!ShipSeal, Final!At, Final!Go, Final!Spend, Final!Fail, Final!writerVars,
       Final!chainVars, CompletionIs, FinalFlushTypes, SealTypes
<1>13. FinalPartTypes' /\ FinalDiskTypes' /\ CountTypes' /\ SealTypes' /\ FinalChainTypes'
  BY <1>0 DEF Final!ShipSeal, Final!At, Final!Go, Final!Spend, Final!Fail, Final!writerVars,
       Final!chainVars, FinalPartTypes, FinalDiskTypes, CountTypes, SealTypes, FinalChainTypes, Writes,
            SmallHeld, BulkHeld
<1> QED BY <1>1, <1>2, <1>3, <1>4, <1>5, <1>6, <1>7, <1>8, <1>9, <1>10, <1>11, <1>12, <1>13 DEF FinalInv

(* SealDone keeps the invariant.                                           *)
LEMMA FinalSealDone ==
  ASSUME FinalInv, Final!SealDone
  PROVE  FinalInv'
<1>0. /\ FinalPartTypes /\ FinalDiskTypes /\ CountTypes /\ LeftTypes /\ QuiesceTypes /\ FinalFlushTypes
      /\ RoundTypes /\ ChangesTypes /\ SealTypes /\ Sealing /\ FinalChainTypes /\ SnapHolds
      /\ SealHolds /\ Quiet /\ SealStands /\ UnwatchedHolds /\ CompletionIs
  BY DEF FinalInv
<1>1. QuiesceTypes'
  BY <1>0 DEF Final!SealDone, Final!At, Final!Go, Final!Fail, Final!writerVars, Final!chainVars,
       QuiesceTypes, FinalFlushTypes, AfterCensus, FlushSteps
<1>2. FinalFlushTypes'
  BY <1>0 DEF Final!SealDone, Final!At, Final!Go, Final!Fail, Final!writerVars, Final!chainVars,
       FinalFlushTypes, FlushSteps
<1>3. RoundTypes'
  BY <1>0 DEF Final!SealDone, Final!At, Final!Go, Final!Fail, Final!writerVars, Final!chainVars,
       RoundTypes, FinalFlushTypes, Final!FINAL_ROUNDS, Final!SEAL_ATTEMPTS
<1>4. ChangesTypes'
  BY <1>0 DEF Final!SealDone, Final!At, Final!Go, Final!Fail, Final!writerVars, Final!chainVars,
       ChangesTypes, FinalFlushTypes, FinalDiskTypes
<1>5. Sealing'
  BY <1>0 DEF Final!SealDone, Final!At, Final!Go, Final!Fail, Final!writerVars, Final!chainVars,
       Sealing, FinalFlushTypes, Final!NoSeal
<1>6. SnapHolds'
  BY <1>0 DEF Final!SealDone, Final!At, Final!Go, Final!Fail, Final!writerVars, Final!chainVars,
       SnapHolds, LeftTypes, FinalFlushTypes, FinalDiskTypes, FinalChainTypes, ChangesTypes, Writes,
            SmallHeld,
       BulkHeld, FinalCapture, Final!Classes
<1>7. Quiet'
  BY <1>0 DEF Final!SealDone, Final!At, Final!Go, Final!Fail, Final!writerVars, Final!chainVars, Quiet,
       LeftTypes, FinalFlushTypes, FinalPartTypes, QuiesceTypes, AfterCensus
<1>8. SealStands'
  BY <1>0 DEF Final!SealDone, Final!At, Final!Go, Final!Fail, Final!writerVars, Final!chainVars,
       SealStands, LeftTypes, FinalFlushTypes, SealTypes, FinalDiskTypes, QuiesceTypes, Quiet,
            AfterCensus, Writes
<1>9. UnwatchedHolds'
  BY <1>0 DEF Final!SealDone, Final!At, Final!Go, Final!Fail, Final!writerVars, Final!chainVars,
       UnwatchedHolds, LeftTypes, FinalFlushTypes, FinalChainTypes, FinalDiskTypes, Quiet, QuiesceTypes,
            AfterCensus,
       SmallHeld, BulkHeld, FinalCapture, Final!Classes
<1>10. CompletionIs'
  BY <1>0 DEF Final!SealDone, Final!At, Final!Go, Final!Fail, Final!writerVars, Final!chainVars,
       CompletionIs, FinalFlushTypes, SealTypes
<1>11. /\ FinalPartTypes' /\ FinalDiskTypes' /\ CountTypes' /\ LeftTypes' /\ SealTypes' /\ FinalChainTypes'
       /\ SealHolds'
  BY <1>0 DEF Final!SealDone, Final!At, Final!Go, Final!Fail, Final!writerVars, Final!chainVars,
       FinalPartTypes, FinalDiskTypes, CountTypes, LeftTypes, SealTypes, FinalChainTypes, SealHolds, Writes,
       SmallHeld, BulkHeld
<1> QED BY <1>1, <1>2, <1>3, <1>4, <1>5, <1>6, <1>7, <1>8, <1>9, <1>10, <1>11 DEF FinalInv

(* SealStanding keeps the invariant.                                       *)
LEMMA FinalSealStanding ==
  ASSUME FinalInv, Final!SealStanding
  PROVE  FinalInv'
<1>0. /\ FinalPartTypes /\ FinalDiskTypes /\ CountTypes /\ LeftTypes /\ QuiesceTypes /\ FinalFlushTypes
      /\ RoundTypes /\ ChangesTypes /\ SealTypes /\ Sealing /\ FinalChainTypes /\ SnapHolds
      /\ SealHolds /\ Quiet /\ SealStands /\ UnwatchedHolds /\ CompletionIs
  BY DEF FinalInv
<1>1. LeftTypes'
  BY <1>0 DEF Final!SealStanding, Final!At, Final!Go, Final!Fail, Final!Spend, Final!writerVars,
       Final!chainVars, LeftTypes
<1>2. QuiesceTypes'
  BY <1>0 DEF Final!SealStanding, Final!At, Final!Go, Final!Fail, Final!Spend, Final!writerVars,
       Final!chainVars, QuiesceTypes, FinalFlushTypes, AfterCensus, FlushSteps
<1>3. FinalFlushTypes'
  BY <1>0 DEF Final!SealStanding, Final!At, Final!Go, Final!Fail, Final!Spend, Final!writerVars,
       Final!chainVars, FinalFlushTypes, FlushSteps
<1>4. RoundTypes'
  BY <1>0 DEF Final!SealStanding, Final!At, Final!Go, Final!Fail, Final!Spend, Final!writerVars,
       Final!chainVars, RoundTypes, FinalFlushTypes, Final!FINAL_ROUNDS, Final!SEAL_ATTEMPTS
<1>5. ChangesTypes'
  BY <1>0 DEF Final!SealStanding, Final!At, Final!Go, Final!Fail, Final!Spend, Final!writerVars,
       Final!chainVars, ChangesTypes, FinalFlushTypes, FinalDiskTypes
<1>6. Sealing'
  BY <1>0 DEF Final!SealStanding, Final!At, Final!Go, Final!Fail, Final!Spend, Final!writerVars,
       Final!chainVars, Sealing, FinalFlushTypes, Final!NoSeal
<1>7. SnapHolds'
  BY <1>0 DEF Final!SealStanding, Final!At, Final!Go, Final!Fail, Final!Spend, Final!writerVars,
       Final!chainVars, SnapHolds, LeftTypes, FinalFlushTypes, FinalDiskTypes, FinalChainTypes,
            ChangesTypes, Writes,
       SmallHeld, BulkHeld, FinalCapture, Final!Classes
<1>8. SealHolds'
  BY <1>0 DEF Final!SealStanding, Final!At, Final!Go, Final!Fail, Final!Spend, Final!writerVars,
       Final!chainVars, SealHolds, LeftTypes, FinalDiskTypes, FinalChainTypes, SealTypes, SnapHolds,
            FinalFlushTypes,
       Writes, SmallHeld, BulkHeld, FinalCapture, Final!Classes
<1>9. Quiet'
  BY <1>0 DEF Final!SealStanding, Final!At, Final!Go, Final!Fail, Final!Spend, Final!writerVars,
       Final!chainVars, Quiet, LeftTypes, FinalFlushTypes, FinalPartTypes, QuiesceTypes, AfterCensus
<1>10. SealStands'
  BY <1>0 DEF Final!SealStanding, Final!At, Final!Go, Final!Fail, Final!Spend, Final!writerVars,
       Final!chainVars, SealStands, LeftTypes, FinalFlushTypes, SealTypes, FinalDiskTypes, QuiesceTypes,
            Quiet,
       AfterCensus, Writes
<1>11. UnwatchedHolds'
  BY <1>0 DEF Final!SealStanding, Final!At, Final!Go, Final!Fail, Final!Spend, Final!writerVars,
       Final!chainVars, UnwatchedHolds, LeftTypes, FinalFlushTypes, FinalChainTypes, FinalDiskTypes, Quiet,
       QuiesceTypes, AfterCensus, SmallHeld, BulkHeld, FinalCapture, Final!Classes
<1>12. CompletionIs'
  BY <1>0 DEF Final!SealStanding, Final!At, Final!Go, Final!Fail, Final!Spend, Final!writerVars,
       Final!chainVars, CompletionIs, FinalFlushTypes, SealTypes
<1>13. FinalPartTypes' /\ FinalDiskTypes' /\ CountTypes' /\ SealTypes' /\ FinalChainTypes'
  BY <1>0 DEF Final!SealStanding, Final!At, Final!Go, Final!Fail, Final!Spend, Final!writerVars,
       Final!chainVars, FinalPartTypes, FinalDiskTypes, CountTypes, SealTypes, FinalChainTypes, Writes,
            SmallHeld, BulkHeld
<1> QED BY <1>1, <1>2, <1>3, <1>4, <1>5, <1>6, <1>7, <1>8, <1>9, <1>10, <1>11, <1>12, <1>13 DEF FinalInv

(* Outcome keeps the invariant.                                            *)
LEMMA FinalOutcome ==
  ASSUME FinalInv, Final!Outcome
  PROVE  FinalInv'
<1>0. /\ FinalPartTypes /\ FinalDiskTypes /\ CountTypes /\ LeftTypes /\ QuiesceTypes /\ FinalFlushTypes
      /\ RoundTypes /\ ChangesTypes /\ SealTypes /\ Sealing /\ FinalChainTypes /\ SnapHolds
      /\ SealHolds /\ Quiet /\ SealStands /\ UnwatchedHolds /\ CompletionIs
  BY DEF FinalInv
<1>1. FinalPartTypes'
  BY <1>0 DEF Final!Outcome, Final!At, Final!Go, Final!writerVars, Final!chainVars, FinalPartTypes
<1>2. QuiesceTypes'
  BY <1>0 DEF Final!Outcome, Final!At, Final!Go, Final!writerVars, Final!chainVars, QuiesceTypes,
       FinalFlushTypes, AfterCensus, FlushSteps
<1>3. FinalFlushTypes'
  BY <1>0 DEF Final!Outcome, Final!At, Final!Go, Final!writerVars, Final!chainVars, FinalFlushTypes,
       FlushSteps
<1>4. RoundTypes'
  BY <1>0 DEF Final!Outcome, Final!At, Final!Go, Final!writerVars, Final!chainVars, RoundTypes,
       FinalFlushTypes, Final!FINAL_ROUNDS, Final!SEAL_ATTEMPTS
<1>5. ChangesTypes'
  BY <1>0 DEF Final!Outcome, Final!At, Final!Go, Final!writerVars, Final!chainVars, ChangesTypes,
       FinalFlushTypes, FinalDiskTypes
<1>6. SealTypes'
  BY <1>0 DEF Final!Outcome, Final!At, Final!Go, Final!writerVars, Final!chainVars, SealTypes,
       CountTypes, FinalDiskTypes, ChangesTypes
<1>7. Sealing'
  BY <1>0 DEF Final!Outcome, Final!At, Final!Go, Final!writerVars, Final!chainVars, Sealing, FinalFlushTypes,
       Final!NoSeal
<1>8. SnapHolds'
  BY <1>0 DEF Final!Outcome, Final!At, Final!Go, Final!writerVars, Final!chainVars, SnapHolds,
       LeftTypes, FinalFlushTypes, FinalDiskTypes, FinalChainTypes, ChangesTypes, Writes, SmallHeld, BulkHeld,
       FinalCapture, Final!Classes
<1>9. SealHolds'
  BY <1>0 DEF Final!Outcome, Final!At, Final!Go, Final!writerVars, Final!chainVars, SealHolds,
       LeftTypes, FinalDiskTypes, FinalChainTypes, SealTypes, SnapHolds, FinalFlushTypes, Writes,
            SmallHeld, BulkHeld,
       FinalCapture, Final!Classes
<1>10. Quiet'
  BY <1>0 DEF Final!Outcome, Final!At, Final!Go, Final!writerVars, Final!chainVars, Quiet, LeftTypes,
       FinalFlushTypes, FinalPartTypes, QuiesceTypes, AfterCensus
<1>11. SealStands'
  <2>1. /\ w12 = Final!NoSeal => w12' = Final!NoSeal
        /\ w12 # Final!NoSeal => w12' = [w12 EXCEPT !.completion = w14.incomplete = "none" /\ w3 = "stopped"
                                                                /\ w9.sealed]
    BY DEF Final!Outcome
  <2>2. w12'.changes = w12.changes
    BY <1>0, <2>1 DEF SealTypes
  <2>3. /\ w14.step = "outcome" /\ w14'.step = "answer" /\ w14'.incomplete = w14.incomplete
        /\ w3' = w3 /\ w15' = w15 /\ w16' = w16 /\ w5' = w5 /\ w6' = w6
    BY <1>0 DEF Final!Outcome, Final!At, Final!Go, FinalFlushTypes, Final!writerVars
  <2>4. w12 # Final!NoSeal => w12' # Final!NoSeal
    BY <1>0, <2>2 DEF SealTypes, Final!NoSeal
  <2> QED BY <1>0, <2>2, <2>3, <2>4 DEF SealStands, Writes, AfterCensus
<1>12. UnwatchedHolds'
  BY <1>0 DEF Final!Outcome, Final!At, Final!Go, Final!writerVars, Final!chainVars, UnwatchedHolds,
       LeftTypes, FinalFlushTypes, FinalChainTypes, FinalDiskTypes, Quiet, QuiesceTypes, AfterCensus,
            SmallHeld,
       BulkHeld, FinalCapture, Final!Classes
<1>13. CompletionIs'
  BY <1>0 DEF Final!Outcome, Final!At, Final!Go, Final!writerVars, Final!chainVars, CompletionIs,
       FinalFlushTypes, SealTypes
<1>14. FinalDiskTypes' /\ CountTypes' /\ LeftTypes' /\ FinalChainTypes'
  BY <1>0 DEF Final!Outcome, Final!At, Final!Go, Final!writerVars, Final!chainVars, FinalDiskTypes,
       CountTypes, LeftTypes, FinalChainTypes, Writes, SmallHeld, BulkHeld
<1> QED BY <1>1, <1>2, <1>3, <1>4, <1>5, <1>6, <1>7, <1>8, <1>9, <1>10, <1>11, <1>12, <1>13,
     <1>14 DEF FinalInv

(* Answer keeps the invariant.                                             *)
LEMMA FinalAnswer ==
  ASSUME FinalInv, Final!Answer
  PROVE  FinalInv'
<1>0. /\ FinalPartTypes /\ FinalDiskTypes /\ CountTypes /\ LeftTypes /\ QuiesceTypes /\ FinalFlushTypes
      /\ RoundTypes /\ ChangesTypes /\ SealTypes /\ Sealing /\ FinalChainTypes /\ SnapHolds
      /\ SealHolds /\ Quiet /\ SealStands /\ UnwatchedHolds /\ CompletionIs
  BY DEF FinalInv
<1>1. QuiesceTypes'
  BY <1>0 DEF Final!Answer, Final!At, Final!Idle, Final!writerVars, Final!chainVars, QuiesceTypes,
       FinalFlushTypes, AfterCensus, FlushSteps
<1>2. FinalFlushTypes'
  BY <1>0 DEF Final!Answer, Final!At, Final!Idle, Final!writerVars, Final!chainVars, FinalFlushTypes,
       FlushSteps
<1>3. RoundTypes'
  BY <1>0 DEF Final!Answer, Final!At, Final!Idle, Final!writerVars, Final!chainVars, RoundTypes,
       FinalFlushTypes, Final!FINAL_ROUNDS, Final!SEAL_ATTEMPTS
<1>4. ChangesTypes'
  BY <1>0 DEF Final!Answer, Final!At, Final!Idle, Final!writerVars, Final!chainVars, ChangesTypes,
       FinalFlushTypes, FinalDiskTypes
<1>5. Sealing'
  BY <1>0 DEF Final!Answer, Final!At, Final!Idle, Final!writerVars, Final!chainVars, Sealing,
       FinalFlushTypes, Final!NoSeal
<1>6. SnapHolds'
  BY <1>0 DEF Final!Answer, Final!At, Final!Idle, Final!writerVars, Final!chainVars, SnapHolds,
       LeftTypes, FinalFlushTypes, FinalDiskTypes, FinalChainTypes, ChangesTypes, Writes, SmallHeld, BulkHeld,
       FinalCapture, Final!Classes
<1>7. Quiet'
  BY <1>0 DEF Final!Answer, Final!At, Final!Idle, Final!writerVars, Final!chainVars, Quiet, LeftTypes,
       FinalFlushTypes, FinalPartTypes, QuiesceTypes, AfterCensus
<1>8. SealStands'
  BY <1>0 DEF Final!Answer, Final!At, Final!Idle, Final!writerVars, Final!chainVars, SealStands,
       LeftTypes, FinalFlushTypes, SealTypes, FinalDiskTypes, QuiesceTypes, Quiet, AfterCensus, Writes
<1>9. UnwatchedHolds'
  BY <1>0 DEF Final!Answer, Final!At, Final!Idle, Final!writerVars, Final!chainVars, UnwatchedHolds,
       LeftTypes, FinalFlushTypes, FinalChainTypes, FinalDiskTypes, Quiet, QuiesceTypes, AfterCensus,
            SmallHeld,
       BulkHeld, FinalCapture, Final!Classes
<1>10. CompletionIs'
  BY <1>0 DEF Final!Answer, Final!At, Final!Idle, Final!writerVars, Final!chainVars, CompletionIs,
       FinalFlushTypes, SealTypes
<1>11. /\ FinalPartTypes' /\ FinalDiskTypes' /\ CountTypes' /\ LeftTypes' /\ SealTypes' /\ FinalChainTypes'
       /\ SealHolds'
  BY <1>0 DEF Final!Answer, Final!At, Final!Idle, Final!writerVars, Final!chainVars, FinalPartTypes,
       FinalDiskTypes, CountTypes, LeftTypes, SealTypes, FinalChainTypes, SealHolds, Writes, SmallHeld,
            BulkHeld
<1> QED BY <1>1, <1>2, <1>3, <1>4, <1>5, <1>6, <1>7, <1>8, <1>9, <1>10, <1>11 DEF FinalInv

(* The invariant holds at the start.                                       *)
LEMMA FinalInitial ==
  ASSUME Final!FinalInit
  PROVE  FinalInv
<1>1. w16 \in FlushLimits /\ w14 = Final!Idle /\ w12 = Final!NoSeal
  BY DEF Final!FinalInit
<1>2. w16 \in [writes : Nat, flushes : Nat, faults : Nat, snaps : Nat, watched : BOOLEAN]
  BY <1>1, FlushConstant DEF Final!FlushConstants
<1>3. LeftTypes
  BY <1>2 DEF LeftTypes
<1>4. FinalPartTypes /\ FinalDiskTypes /\ CountTypes
  BY DEF Final!FinalInit, FinalPartTypes, FinalDiskTypes, CountTypes, Final!Classes
<1>5. QuiesceTypes /\ FinalFlushTypes /\ RoundTypes /\ ChangesTypes
  BY DEF Final!FinalInit, QuiesceTypes, FinalFlushTypes, RoundTypes, ChangesTypes, Final!Idle, FlushSteps,
       AfterCensus,
         Final!FINAL_ROUNDS, Final!SEAL_ATTEMPTS
<1>6. SealTypes /\ Sealing
  BY <1>1 DEF SealTypes, Sealing, Final!NoSeal, Final!Idle
<1>7. FinalChainTypes
  BY DEF Final!FinalInit, FinalChainTypes, FinalCapture
<1>8. SnapHolds /\ SealHolds /\ Quiet /\ SealStands /\ UnwatchedHolds /\ CompletionIs
  BY DEF Final!FinalInit, Final!Idle, SnapHolds, SealHolds, Quiet, SealStands, UnwatchedHolds,
       CompletionIs, AfterCensus
<1> QED BY <1>3, <1>4, <1>5, <1>6, <1>7, <1>8 DEF FinalInv

(* Every step keeps the invariant.                                         *)
LEMMA FinalStep ==
  ASSUME FinalInv, Final!FinalNext
  PROVE  FinalInv'
BY FinalAdmit, FinalStart, FinalWriteFile, FinalExit, FinalDeliver, FinalOtherSnap, FinalCountSnap,
     FinalRegister, FinalBeginFinal, FinalCloseAdmission, FinalQuiesce, FinalSettleFirst,
     FinalSnapsCurrent, FinalSnapsBegin, FinalSnapsEnd, FinalShipFinal, FinalCensus, FinalSettleAgain,
     FinalSealComplete, FinalShipSeal, FinalSealDone, FinalSealStanding, FinalOutcome, FinalAnswer,
     FinalSnapSmall, FinalSnapBulk DEF Final!FinalNext, Final!FlushStep

(* The invariant is strong enough.                                         *)
LEMMA FinalInvImplies ==
  ASSUME FinalInv
  PROVE  Final!FinalTypeOK /\ Final!FlushIsTrue
<1>0. FinalPartTypes /\ FinalDiskTypes /\ CountTypes /\ QuiesceTypes /\ RoundTypes /\ SealTypes /\ FinalChainTypes /\ SealHolds
      /\ SealStands /\ UnwatchedHolds /\ CompletionIs
  BY DEF FinalInv
<1>1. Final!FinalTypeOK
  BY <1>0 DEF Final!FinalTypeOK, FinalPartTypes, QuiesceTypes, RoundTypes, SealTypes
<1>2. ASSUME SmallHeld, BulkHeld, w10 = <<>> PROVE Final!Captured
  BY <1>0, <1>2 DEF SmallHeld, BulkHeld, Final!Captured, FinalChainTypes
<1>3. Final!CompleteIsTrue
  <2> SUFFICES ASSUME Final!At("answer"), Final!ReportComplete("as-snapped"), ~w15 PROVE Final!Captured
    BY DEF Final!CompleteIsTrue
  <2>1. w10 = <<>> /\ w12 # Final!NoSeal /\ w12.completion /\ w14.step = "answer"
    BY DEF Final!At, Final!ReportComplete, Final!FinalSealed
  <2>2. w14.incomplete = "none" /\ w3 = "stopped"
    BY <1>0, <2>1 DEF CompletionIs
  <2>3. SmallHeld /\ BulkHeld
    <3>1. CASE w16.watched
      BY <1>0, <2>1, <2>2, <3>1 DEF SealStands, SealHolds
    <3>2. CASE ~w16.watched
      BY <1>0, <2>1, <2>2, <3>2 DEF UnwatchedHolds
    <3> QED BY <3>1, <3>2
  <2> QED BY <1>2, <2>1, <2>3
<1>4. Final!StatusIsTrue
  <2> SUFFICES ASSUME Final!ReportComplete("now"), ~w15, w5 = 0 PROVE Final!Captured
    BY DEF Final!StatusIsTrue
  <2>1. w10 = <<>> /\ w12 # Final!NoSeal /\ w16.watched /\ w6 = w12.changes
    BY DEF Final!ReportComplete, Final!EveryClassWatched, Final!CurrentAsSnapped, Final!SnapsStillCurrent
  <2>2. Writes = w12.changes
    BY <1>0, <2>1 DEF Writes, FinalDiskTypes
  <2> QED BY <1>0, <1>2, <2>1, <2>2 DEF SealHolds
<1> QED BY <1>1, <1>3, <1>4 DEF Final!FlushIsTrue

FinalPart == part = "final" => FinalInv

(* The invariant is about these variables alone.                           *)
LEMMA FinalStutters ==
  ASSUME FinalInv, UNCHANGED <<w1, w2, w3, w4, w5, w6, w7, w8, w9, w10, w11, w12, w13, w14, w15, w16>>
  PROVE  FinalInv'
BY DEF FinalInv, FinalCapture, FlushSteps, AfterCensus, SmallHeld, BulkHeld, Writes, FinalPartTypes,
     FinalDiskTypes, CountTypes, LeftTypes, QuiesceTypes, FinalFlushTypes, RoundTypes, ChangesTypes,
     SealTypes, Sealing, FinalChainTypes, SnapHolds, SealHolds, Quiet, SealStands, UnwatchedHolds,
     CompletionIs, Final!Classes, Final!FINAL_ROUNDS, Final!NoSeal, Final!SEAL_ATTEMPTS

(* Whatever part runs, this one keeps its invariant.                       *)
LEMMA FinalAlways ==
  ASSUME FinalPart, [LifecycleNext]_partVars
  PROVE  FinalPart'
<1> SUFFICES ASSUME part' = "final" PROVE FinalInv'
  BY DEF FinalPart
<1>1. part = "final"
  BY DEF LifecycleNext, partVars
<1>2. FinalInv
  BY <1>1 DEF FinalPart
<1>3. CASE Final!FinalNext
  BY <1>2, <1>3, FinalStep
<1>4. CASE UNCHANGED <<w1, w2, w3, w4, w5, w6, w7, w8, w9, w10, w11, w12, w13, w14, w15, w16>>
  BY <1>2, <1>4, FinalStutters
<1> QED BY <1>1, <1>3, <1>4 DEF LifecycleNext, partVars, From1, From3, From4, From5, From6, From7,
     From8, From10, From12, From13, From15, From17

-------------------------------------------------------------------------------
(* ShipPass: w1 is queue, w2 shipper, w3 passes.                           *)

PassFields == {"pc", "kind", "past", "since", "result", "rest"}
ShipperFields == {"lock", "waiting", "fenced", "lease", "outage", "held", "repair", "generation",
     "next", "faults",
                  "stages", "limit"}
PassTypes == Passes!Threads \subseteq DOMAIN w3 /\ \A t \in Passes!Threads : PassFields \subseteq DOMAIN w3[t]
PassShipperTypes == ShipperFields \subseteq DOMAIN w2
(* What a pass that answered ok left, where no fence ended shipping.       *)
Leaves(pass) ==
  /\ pass.kind = "final" => pass.rest = <<>>
  /\ pass.kind = "small" => \A i \in DOMAIN pass.rest : Passes!IsBulk(pass.rest[i])
AnswersHold == \A t \in Passes!Threads : w3[t].result = "ok" => w2.fenced \/ Leaves(w3[t])

PassInv ==
  /\ PassTypes
  /\ PassShipperTypes
  /\ AnswersHold

(* A step that answers no flush keeps every answer true: no fence is lifted. *)
LEMMA PassMoves ==
  ASSUME PassInv, PassTypes', PassShipperTypes', w2.fenced => w2'.fenced,
         \A s \in Passes!Threads : /\ w3'[s].kind = w3[s].kind /\ w3'[s].result = w3[s].result
                            /\ w3'[s].rest = w3[s].rest
  PROVE  PassInv'
BY DEF PassInv, AnswersHold, Leaves, Passes!IsBulk

(* The steps of one pass, and those of the shipper alone.                  *)
LEMMA PassGoes ==
  ASSUME PassInv, NEW t \in Passes!Threads, NEW pass, DOMAIN pass = DOMAIN w3[t],
       w3' = [w3 EXCEPT ![t] = pass],
         pass.kind = w3[t].kind, pass.result = w3[t].result, pass.rest = w3[t].rest,
         PassShipperTypes', w2'.fenced = w2.fenced
  PROVE  PassInv'
<1>1. PassTypes
  BY DEF PassInv
<1>2. PassTypes'
  BY <1>1 DEF PassTypes
<1>3. \A s \in Passes!Threads : /\ w3'[s].kind = w3[s].kind /\ w3'[s].result = w3[s].result
                         /\ w3'[s].rest = w3[s].rest
  BY <1>1 DEF PassTypes
<1> QED BY <1>2, <1>3, PassMoves

(* Stays keeps the invariant.                                              *)
LEMMA PassStays ==
  ASSUME PassInv, w3' = w3, PassShipperTypes', w2'.fenced = w2.fenced
  PROVE  PassInv'
BY DEF PassInv, PassTypes, AnswersHold, Leaves, Passes!IsBulk

(* A flush is done only by a pass that ended so.                           *)
LEMMA OnlyDoneIsOk ==
  ASSUME NEW t \in Passes!Threads, NEW end, Passes!After(t, end) = "ok"
  PROVE  end = "done"
BY DEF Passes!After, Passes!AfterFinal, Passes!AfterScope

(* A pass that ends done over a fence, an empty queue or bulk captures only *)
(* answers truly.                                                          *)
LEMMA PassEnds ==
  ASSUME PassInv, NEW t \in Passes!Threads, NEW end, NEW change, ShipperFields \subseteq DOMAIN change,
         w2.fenced => change.fenced,
         end = "done" => change.fenced \/ w1 = <<>> \/ (w3[t].kind = "small" /\ Passes!AllBulk),
         Passes!Ends(t, end, change)
  PROVE  PassInv'
<1>0. PassTypes /\ PassShipperTypes /\ AnswersHold
  BY DEF PassInv
<1>1. PassShipperTypes' /\ w2'.fenced = change.fenced
  BY DEF Passes!Ends, PassShipperTypes, ShipperFields
<1>2. /\ \A s \in Passes!Threads \ {t} : w3'[s] = w3[s]
      /\ DOMAIN w3' = DOMAIN w3 /\ DOMAIN w3'[t] = DOMAIN w3[t]
      /\ w3'[t].kind = w3[t].kind
  BY <1>0 DEF Passes!Ends, PassTypes, PassFields
<1>3. PassTypes'
  BY <1>0, <1>2 DEF PassTypes
<1>4. \/ w3'[t].result = w3[t].result /\ w3'[t].rest = w3[t].rest
      \/ w3'[t].result = Passes!After(t, end) /\ w3'[t].rest = w1
  BY <1>0 DEF Passes!Ends, PassTypes, PassFields
<1>5. w3'[t].result = "ok" => w2'.fenced \/ Leaves(w3'[t])
  <2>1. CASE w3'[t].result = w3[t].result /\ w3'[t].rest = w3[t].rest
    BY <1>0, <1>1, <1>2, <2>1 DEF AnswersHold, Leaves
  <2>2. CASE w3'[t].result = Passes!After(t, end) /\ w3'[t].rest = w1
    <3> HAVE w3'[t].result = "ok"
    <3>1. end = "done"
      BY <2>2, OnlyDoneIsOk
    <3> QED BY <1>1, <1>2, <2>2, <3>1 DEF Leaves, Passes!AllBulk, Passes!IsBulk
  <2> QED BY <1>4, <2>1, <2>2
<1>6. AnswersHold'
  BY <1>0, <1>1, <1>2, <1>5 DEF AnswersHold, Leaves, Passes!IsBulk
<1> QED BY <1>1, <1>3, <1>6 DEF PassInv

(* The invariant holds at the start.                                       *)
LEMMA PassInitial ==
  ASSUME Passes!PassInit
  PROVE  PassInv
<1>1. PICK l \in PassLimits : \E kinds \in l.kinds :
        /\ w2 = [lock |-> "", waiting |-> 0, fenced |-> FALSE, lease |-> FALSE, outage |-> FALSE,
                      held |-> {}, repair |-> 0, generation |-> 0, next |-> Len(l.queue),
                      faults |-> 0, stages |-> 0, limit |-> l]
        /\ w3 = [t \in Passes!Threads |-> Passes!Fresh(IF t = Passes!Worker THEN "worker" ELSE kinds[t])]
  BY DEF Passes!PassInit
<1>2. PICK kinds \in l.kinds :
        /\ w2 = [lock |-> "", waiting |-> 0, fenced |-> FALSE, lease |-> FALSE, outage |-> FALSE,
                      held |-> {}, repair |-> 0, generation |-> 0, next |-> Len(l.queue),
                      faults |-> 0, stages |-> 0, limit |-> l]
        /\ w3 = [t \in Passes!Threads |-> Passes!Fresh(IF t = Passes!Worker THEN "worker" ELSE kinds[t])]
  BY <1>1
<1>3. PassShipperTypes
  BY <1>2 DEF PassShipperTypes, ShipperFields
<1>4. PassTypes /\ \A t \in Passes!Threads : w3[t].result = "none"
  BY <1>2 DEF PassTypes, PassFields, Passes!Fresh
<1>5. AnswersHold
  BY <1>4 DEF AnswersHold
<1> QED BY <1>3, <1>4, <1>5 DEF PassInv

(* One thread's own steps.                                                 *)
LEMMA PassThreadStep ==
  ASSUME PassInv, NEW t \in Passes!Threads, Passes!Step(t) \/ Passes!Begin(t) \/ Passes!DeadlinePasses(t)
  PROVE  PassInv'
<1>0. PassTypes /\ PassShipperTypes
  BY DEF PassInv
<1>f. ShipperFields \subseteq DOMAIN w2
  BY <1>0 DEF PassShipperTypes
<1>1. CASE Passes!Begin(t)
  <2>1. w3' = [w3 EXCEPT ![t].pc = "want",
       ![t].since = w2.next] /\ PassShipperTypes' /\ w2'.fenced = w2.fenced
    BY <1>0, <1>1 DEF Passes!Begin, PassShipperTypes, ShipperFields
  <2> QED BY <1>0, <2>1, PassGoes DEF PassTypes, PassFields
<1>2. CASE Passes!Again(t)
  <2>1. w3' = [w3 EXCEPT ![t].pc = "want"] /\ PassShipperTypes' /\ w2'.fenced = w2.fenced
    BY <1>0, <1>2 DEF Passes!Again, Passes!Wants, PassShipperTypes, ShipperFields
  <2> QED BY <1>0, <2>1, PassGoes DEF PassTypes, PassFields
<1>3. CASE Passes!TakeLock(t)
  <2>1. w3' = [w3 EXCEPT ![t].pc = "pass"] /\ PassShipperTypes' /\ w2'.fenced = w2.fenced
    BY <1>0, <1>3 DEF Passes!TakeLock, PassShipperTypes, ShipperFields
  <2> QED BY <1>0, <2>1, PassGoes DEF PassTypes, PassFields
<1>4. CASE Passes!Claim(t)
  <2>1. w3' = [w3 EXCEPT ![t].pc = "claimed"] /\ PassShipperTypes' /\ w2'.fenced = w2.fenced
    BY <1>0, <1>4 DEF Passes!Claim, PassShipperTypes, ShipperFields
  <2> QED BY <1>0, <2>1, PassGoes DEF PassTypes, PassFields
<1>5. CASE Passes!Register(t)
  <2>1. w3' = [w3 EXCEPT ![t].pc = "shipped"] /\ PassShipperTypes' /\ w2'.fenced = w2.fenced
    BY <1>0, <1>5 DEF Passes!Register, Passes!LeaseOk, PassShipperTypes, ShipperFields
  <2> QED BY <1>0, <2>1, PassGoes DEF PassTypes, PassFields
<1>6. CASE Passes!DeadlinePasses(t)
  <2>1. w3' = [w3 EXCEPT ![t].past = TRUE] /\ PassShipperTypes' /\ w2'.fenced = w2.fenced
    BY <1>0, <1>6 DEF Passes!DeadlinePasses, PassShipperTypes, ShipperFields
  <2> QED BY <1>0, <2>1, PassGoes DEF PassTypes, PassFields
<1>7. CASE Passes!BulkObject(t)
  <2>1. PICK pc : w3' = [w3 EXCEPT ![t].pc = pc]
    BY <1>7 DEF Passes!BulkObject
  <2>2. PassShipperTypes' /\ w2'.fenced = w2.fenced
    BY <1>0, <1>7 DEF Passes!BulkObject, Passes!LeaseOk, PassShipperTypes, ShipperFields
  <2> QED BY <1>0, <2>1, <2>2, PassGoes DEF PassTypes, PassFields
<1>9. CASE Passes!PassOver(t)
  <2>1. CASE (w2.fenced \/ w1 = <<>>) /\ Passes!Ends(t, "done", w2)
    BY <1>f, <2>1, PassEnds
  <2>2. CASE Passes!Ends(t, "idle", w2)
    <3>1. "idle" # "done" OBVIOUS
    <3> QED BY <1>f, <2>2, <3>1, PassEnds
  <2> QED BY <1>9, <2>1, <2>2 DEF Passes!PassOver
<1>10. CASE Passes!AwaitRepair(t)
  <2>1. "repair" # "done" /\ Passes!Ends(t, "repair", w2)
    BY <1>10 DEF Passes!AwaitRepair
  <2> QED BY <1>f, <2>1, PassEnds
<1>11. CASE Passes!HeldBack(t)
  <2>1. PICK end : end = (IF Passes!AheadDone(t) THEN "done" ELSE "idle") /\ Passes!Ends(t, end, w2)
    BY <1>11 DEF Passes!HeldBack
  <2>2. end = "done" => w3[t].kind = "small" /\ Passes!AllBulk
    BY <2>1 DEF Passes!AheadDone, Passes!Scope
  <2>3. Passes!Ends(t, end, w2)
    BY <2>1
  <2> QED BY <1>f, <2>2, <2>3, PassEnds
<1>12. CASE Passes!BulkStart(t)
  <2>1. CASE Passes!AheadDone(t) /\ Passes!Ends(t, "done", w2)
    <3>1. w3[t].kind = "small" /\ Passes!AllBulk
      BY <2>1 DEF Passes!AheadDone, Passes!Scope
    <3> QED BY <1>f, <2>1, <3>1, PassEnds
  <2>2. CASE w3' = [w3 EXCEPT ![t].pc = "bulk"] /\ w2' = [w2 EXCEPT !.generation = 0]
    <3>1. PassShipperTypes' /\ w2'.fenced = w2.fenced
      BY <1>0, <2>2 DEF PassShipperTypes, ShipperFields
    <3> QED BY <1>0, <2>2, <3>1, PassGoes DEF PassTypes, PassFields
  <2> QED BY <1>12, <2>1, <2>2 DEF Passes!BulkStart
<1>13. CASE Passes!BulkStops(t)
  <2>1. CASE Passes!Ends(t, "idle", w2)
    <3>1. "idle" # "done" OBVIOUS
    <3> QED BY <1>f, <2>1, <3>1, PassEnds
  <2>2. CASE w3' = [w3 EXCEPT ![t].pc = "pass"] /\ w2' = [w2 EXCEPT !.generation = 0]
    <3>1. PassShipperTypes' /\ w2'.fenced = w2.fenced
      BY <1>0, <2>2 DEF PassShipperTypes, ShipperFields
    <3> QED BY <1>0, <2>2, <3>1, PassGoes DEF PassTypes, PassFields
  <2> QED BY <1>13, <2>1, <2>2 DEF Passes!BulkStops
<1>14. CASE Passes!Shipped(t)
  <2>1. CASE Passes!Ends(t, "idle", w2)
    <3>1. "idle" # "done" OBVIOUS
    <3> QED BY <1>f, <2>1, <3>1, PassEnds
  <2>2. CASE w3' = [w3 EXCEPT ![t].pc = "pass"] /\ w2' = w2
    <3>1. PassShipperTypes' /\ w2'.fenced = w2.fenced
      BY <1>0, <2>2 DEF PassShipperTypes, ShipperFields
    <3> QED BY <1>0, <2>2, <3>1, PassGoes DEF PassTypes, PassFields
  <2> QED BY <1>14, <2>1, <2>2 DEF Passes!Shipped
<1> QED BY <1>1, <1>2, <1>3, <1>4, <1>5, <1>6, <1>7, <1>9, <1>10, <1>11, <1>12, <1>13, <1>14 DEF Passes!Step

(* A refusal never ends a pass as done.                                    *)
LEMMA PassFault ==
  ASSUME PassInv, NEW t \in Passes!Threads, NEW answer \in {"quota", "lease", "transient", "fenced",
       "conflict", "refused"},
         Passes!Fault(t, answer)
  PROVE  PassInv'
<1>0. PassShipperTypes
  BY DEF PassInv
<1>1. Passes!End(answer) # "done"
  BY DEF Passes!End
<1>2. PICK class : Passes!Ends(t, Passes!End(answer), [Passes!Refused(w2, class,
     answer) EXCEPT !.faults = @ + 1])
  BY DEF Passes!Fault
<1>3. ShipperFields \subseteq DOMAIN Passes!Refused(w2, class,
     answer) /\ (w2.fenced => Passes!Refused(w2, class, answer).fenced)
  BY <1>0 DEF PassShipperTypes, ShipperFields, Passes!Refused
<1> DEFINE change == [Passes!Refused(w2, class, answer) EXCEPT !.faults = @ + 1]
<1>4. ShipperFields \subseteq DOMAIN change /\ (w2.fenced => change.fenced)
  BY <1>3 DEF ShipperFields
<1>5. Passes!Ends(t, Passes!End(answer), change)
  BY <1>2
<1> HIDE DEF change
<1> QED BY <1>1, <1>4, <1>5, PassEnds

(* Every step keeps the invariant.                                         *)
LEMMA PassStep ==
  ASSUME PassInv, Passes!PassNext
  PROVE  PassInv'
<1>0. PassTypes /\ PassShipperTypes
  BY DEF PassInv
<1>1. CASE Passes!WorkerEnters
  <2>1. Passes!Worker \in Passes!Threads
    BY DEF Passes!Threads
  <2>2. PassShipperTypes' /\ w2'.fenced = w2.fenced /\ w3' = [w3 EXCEPT ![Passes!Worker].pc = "want"]
    BY <1>0, <1>1 DEF Passes!WorkerEnters, Passes!Wants, PassShipperTypes
  <2> QED BY <1>0, <2>1, <2>2, PassGoes DEF PassTypes, PassFields
<1>2. CASE Passes!StageSmall \/ Passes!Rebuild \/ Passes!BackoffEnds
  <2>1. w3' = w3 /\ PassShipperTypes' /\ w2'.fenced = w2.fenced
    BY <1>0, <1>2 DEF Passes!StageSmall, Passes!Rebuild, Passes!BackoffEnds, PassShipperTypes, ShipperFields
  <2> QED BY <2>1, PassStays
<1> QED BY <1>1, <1>2, PassThreadStep, PassFault DEF Passes!PassNext

(* The invariant is strong enough.                                         *)
LEMMA PassInvImplies ==
  ASSUME PassInv
  PROVE  Passes!FlushAnswersTruly
<1>1. AnswersHold
  BY DEF PassInv
<1>2. \A t \in Flushes : t \in Passes!Threads
  BY DEF Passes!Threads
<1> SUFFICES ASSUME NEW t \in Flushes, Passes!Answered(t)
             PROVE CASE w3[t].kind = "final" -> w3[t].rest = <<>>
                     [] w3[t].kind = "small" ->
                          \A i \in DOMAIN w3[t].rest :
                             ~Passes!IsBulk(w3[t].rest[i]) => w3[t].rest[i].id > w3[t].since
                     [] OTHER -> TRUE
  BY DEF Passes!FlushAnswersTruly
<1>3. Leaves(w3[t])
  BY <1>1, <1>2 DEF AnswersHold, Passes!Answered
<1> QED BY <1>3 DEF Leaves

PassPart == part = "pass" => PassInv

(* The invariant is about these variables alone.                           *)
LEMMA PassStutters ==
  ASSUME PassInv, UNCHANGED <<w1, w2, w3>>
  PROVE  PassInv'
BY DEF PassInv, PassFields, ShipperFields, PassTypes, PassShipperTypes, Leaves, AnswersHold,
     Passes!IsBulk, Passes!Threads

(* Whatever part runs, this one keeps its invariant.                       *)
LEMMA PassAlways ==
  ASSUME PassPart, [LifecycleNext]_partVars
  PROVE  PassPart'
<1> SUFFICES ASSUME part' = "pass" PROVE PassInv'
  BY DEF PassPart
<1>1. part = "pass"
  BY DEF LifecycleNext, partVars
<1>2. PassInv
  BY <1>1 DEF PassPart
<1>3. CASE Passes!PassNext
  BY <1>2, <1>3, PassStep
<1>4. CASE UNCHANGED <<w1, w2, w3>>
  BY <1>2, <1>4, PassStutters
<1> QED BY <1>1, <1>3, <1>4 DEF LifecycleNext, partVars, From1, From3, From4, From5, From6, From7,
     From8, From10, From12, From13, From15, From17

(* What a flush reports is so, for any writers, writes, snaps, faults and  *)
(* flushes: an answer complete, and a status that repeats it, mean that    *)
(* the registrar holds both classes as they are on the disk; and a pass    *)
(* that answers ok left nothing of what it was asked for, unless a fence   *)
(* ended shipping (cadence.rs flush_final_sealing, capture.rs observed,    *)
(* ship.rs flush_scope and flush_final).                                   *)
THEOREM FlushCorrect == LifecycleSpec => []FlushReportsTruly
<1>1. LifecycleInit => FinalPart /\ PassPart
  BY FinalInitial, PassInitial DEF LifecycleInit, FinalPart, PassPart
<1>2. FinalPart /\ PassPart /\ [LifecycleNext]_partVars => FinalPart' /\ PassPart'
  BY FinalAlways, PassAlways
<1>3. FinalPart /\ PassPart => FlushReportsTruly
  BY FinalInvImplies, PassInvImplies DEF FlushReportsTruly, FinalPart, PassPart
<1> QED BY <1>1, <1>2, <1>3, PTL DEF LifecycleSpec

-------------------------------------------------------------------------------
(* ObjectUpload: w1 to w6 are the variables of the upload in the order of  *)
(* its module.                                                             *)

RegistrarTypes ==
  /\ {"lease", "live", "quota", "exempt", "priced", "uploads", "next", "completed",
       "chain"} \subseteq DOMAIN w1
  /\ w1.priced \subseteq Uploads!Keys /\ w1.completed \subseteq Large
StoreTypes == {"keys", "parts"} \subseteq DOMAIN w2 /\ w2.keys \subseteq Uploads!Keys
MinterTypes == {"urls", "plan", "present"} \subseteq DOMAIN w3
UploadShipperTypes ==
  /\ {"pc", "uploaded", "halt"} \subseteq DOMAIN w4
  /\ w4.pc \in {"large", "prefetch", "small", "register", "registered", "fenced"}
PutTypes == Uploads!Keys \subseteq DOMAIN w5 /\ \A k \in Uploads!Keys : "pc" \in DOMAIN w5[k]
PutSteps == \A k \in Uploads!Keys : w5[k].pc \in {"idle", "send", "parts", "complete", "size"}
(* What is said to be in the store is: marked uploaded, answered present,  *)
(* completed, registered.                                                  *)
UploadedStored == w4.uploaded \subseteq w2.keys
PresentStored == w3.present \subseteq w2.keys
CompletedStored == w1.completed \subseteq w2.keys
ChainStored == w1.chain => Uploads!Keys \subseteq w2.keys
(* A group of keys is left when all of it is uploaded.                     *)
GroupsUploaded ==
  /\ w4.pc \in {"prefetch", "small"} => Large \subseteq w4.uploaded
  /\ w4.pc \in {"register", "registered", "fenced"} => Uploads!Keys \subseteq w4.uploaded
(* A part that is neither unclaimed nor under way, where none failed, was  *)
(* received under the upload's own id.                                     *)
PartsTypes ==
  \A k \in Uploads!Keys : w5[k].pc \in {"parts", "complete"} =>
     /\ {"id", "next", "flying", "etags", "failed"} \subseteq DOMAIN w5[k]
     /\ w5[k].failed \in {"no", "retryable", "final"}
PartsReceived ==
  \A k \in Uploads!Keys :
     /\ w5[k].pc = "parts" =>
          /\ w5[k].next \in Nat \ {0}
          /\ \A n \in Uploads!Parts : w5[k].failed = "no" /\ n < w5[k].next /\ n \notin w5[k].flying =>
                                <<w5[k].id, n>> \in w2.parts
     /\ w5[k].pc = "complete" => \A n \in Uploads!Parts : <<w5[k].id, n>> \in w2.parts

UploadInv ==
  /\ RegistrarTypes
  /\ StoreTypes
  /\ MinterTypes
  /\ UploadShipperTypes
  /\ PutTypes
  /\ PutSteps
  /\ UploadedStored
  /\ PresentStored
  /\ CompletedStored
  /\ ChainStored
  /\ GroupsUploaded
  /\ PartsTypes
  /\ PartsReceived

(* Minting prices keys and completes nothing.                              *)
LEMMA UploadMinted ==
  ASSUME RegistrarTypes, NEW keys \in SUBSET Uploads!Keys, w1' = w1 \/ w1' = Uploads!Minted(keys)
  PROVE  RegistrarTypes' /\ w1'.completed = w1.completed /\ w1'.chain = w1.chain
BY DEF RegistrarTypes, Uploads!Minted

(* A key answered present is in the store.                                 *)
LEMMA UploadPresent ==
  ASSUME NEW keys
  PROVE  Uploads!AnsweredPresent(keys) \subseteq w2.keys \cap keys
BY DEF Uploads!AnsweredPresent

(* LeaseMovesU keeps the invariant.                                        *)
LEMMA UploadLeaseMovesU ==
  ASSUME UploadInv, Uploads!LeaseMovesU
  PROVE  UploadInv'
<1>0. /\ RegistrarTypes /\ StoreTypes /\ MinterTypes /\ UploadShipperTypes /\ PutTypes /\ PutSteps
      /\ UploadedStored /\ PresentStored /\ CompletedStored /\ ChainStored /\ GroupsUploaded
      /\ PartsTypes /\ PartsReceived
  BY DEF UploadInv
<1>1. RegistrarTypes'
  BY <1>0 DEF Uploads!LeaseMovesU, Uploads!OutsideOnly, RegistrarTypes, Uploads!Keys
<1>2. CompletedStored'
  BY <1>0 DEF Uploads!LeaseMovesU, Uploads!OutsideOnly, CompletedStored, RegistrarTypes, StoreTypes
<1>3. ChainStored'
  BY <1>0 DEF Uploads!LeaseMovesU, Uploads!OutsideOnly, ChainStored, RegistrarTypes, StoreTypes, Uploads!Keys
<1>4. /\ StoreTypes' /\ MinterTypes' /\ UploadShipperTypes' /\ PutTypes' /\ PutSteps'
      /\ UploadedStored' /\ PresentStored' /\ GroupsUploaded' /\ PartsTypes' /\ PartsReceived'
  BY <1>0 DEF Uploads!LeaseMovesU, Uploads!OutsideOnly, StoreTypes, MinterTypes, UploadShipperTypes, PutTypes,
       PutSteps, UploadedStored, PresentStored, GroupsUploaded, PartsTypes, PartsReceived
<1> QED BY <1>1, <1>2, <1>3, <1>4 DEF UploadInv

(* TakeoverU keeps the invariant.                                          *)
LEMMA UploadTakeoverU ==
  ASSUME UploadInv, Uploads!TakeoverU
  PROVE  UploadInv'
<1>0. /\ RegistrarTypes /\ StoreTypes /\ MinterTypes /\ UploadShipperTypes /\ PutTypes /\ PutSteps
      /\ UploadedStored /\ PresentStored /\ CompletedStored /\ ChainStored /\ GroupsUploaded
      /\ PartsTypes /\ PartsReceived
  BY DEF UploadInv
<1>1. RegistrarTypes'
  BY <1>0 DEF Uploads!TakeoverU, Uploads!OutsideOnly, RegistrarTypes, Uploads!Keys
<1>2. CompletedStored'
  BY <1>0 DEF Uploads!TakeoverU, Uploads!OutsideOnly, CompletedStored, RegistrarTypes, StoreTypes
<1>3. ChainStored'
  BY <1>0 DEF Uploads!TakeoverU, Uploads!OutsideOnly, ChainStored, RegistrarTypes, StoreTypes, Uploads!Keys
<1>4. /\ StoreTypes' /\ MinterTypes' /\ UploadShipperTypes' /\ PutTypes' /\ PutSteps'
      /\ UploadedStored' /\ PresentStored' /\ GroupsUploaded' /\ PartsTypes' /\ PartsReceived'
  BY <1>0 DEF Uploads!TakeoverU, Uploads!OutsideOnly, StoreTypes, MinterTypes, UploadShipperTypes, PutTypes,
       PutSteps, UploadedStored, PresentStored, GroupsUploaded, PartsTypes, PartsReceived
<1> QED BY <1>1, <1>2, <1>3, <1>4 DEF UploadInv

(* QuotaRaised keeps the invariant.                                        *)
LEMMA UploadQuotaRaised ==
  ASSUME UploadInv, Uploads!QuotaRaised
  PROVE  UploadInv'
<1>0. /\ RegistrarTypes /\ StoreTypes /\ MinterTypes /\ UploadShipperTypes /\ PutTypes /\ PutSteps
      /\ UploadedStored /\ PresentStored /\ CompletedStored /\ ChainStored /\ GroupsUploaded
      /\ PartsTypes /\ PartsReceived
  BY DEF UploadInv
<1>1. RegistrarTypes'
  BY <1>0 DEF Uploads!QuotaRaised, Uploads!OutsideOnly, RegistrarTypes, Uploads!Keys
<1>2. CompletedStored'
  BY <1>0 DEF Uploads!QuotaRaised, Uploads!OutsideOnly, CompletedStored, RegistrarTypes, StoreTypes
<1>3. ChainStored'
  BY <1>0 DEF Uploads!QuotaRaised, Uploads!OutsideOnly, ChainStored, RegistrarTypes, StoreTypes, Uploads!Keys
<1>4. /\ StoreTypes' /\ MinterTypes' /\ UploadShipperTypes' /\ PutTypes' /\ PutSteps'
      /\ UploadedStored' /\ PresentStored' /\ GroupsUploaded' /\ PartsTypes' /\ PartsReceived'
  BY <1>0 DEF Uploads!QuotaRaised, Uploads!OutsideOnly, StoreTypes, MinterTypes, UploadShipperTypes, PutTypes,
       PutSteps, UploadedStored, PresentStored, GroupsUploaded, PartsTypes, PartsReceived
<1> QED BY <1>1, <1>2, <1>3, <1>4 DEF UploadInv

(* PreservingBegins keeps the invariant.                                   *)
LEMMA UploadPreservingBegins ==
  ASSUME UploadInv, Uploads!PreservingBegins
  PROVE  UploadInv'
<1>0. /\ RegistrarTypes /\ StoreTypes /\ MinterTypes /\ UploadShipperTypes /\ PutTypes /\ PutSteps
      /\ UploadedStored /\ PresentStored /\ CompletedStored /\ ChainStored /\ GroupsUploaded
      /\ PartsTypes /\ PartsReceived
  BY DEF UploadInv
<1>1. RegistrarTypes'
  BY <1>0 DEF Uploads!PreservingBegins, Uploads!OutsideOnly, RegistrarTypes, Uploads!Keys
<1>2. CompletedStored'
  BY <1>0 DEF Uploads!PreservingBegins, Uploads!OutsideOnly, CompletedStored, RegistrarTypes, StoreTypes
<1>3. ChainStored'
  BY <1>0 DEF Uploads!PreservingBegins, Uploads!OutsideOnly, ChainStored, RegistrarTypes, StoreTypes,
       Uploads!Keys
<1>4. /\ StoreTypes' /\ MinterTypes' /\ UploadShipperTypes' /\ PutTypes' /\ PutSteps'
      /\ UploadedStored' /\ PresentStored' /\ GroupsUploaded' /\ PartsTypes' /\ PartsReceived'
  BY <1>0 DEF Uploads!PreservingBegins, Uploads!OutsideOnly, StoreTypes, MinterTypes, UploadShipperTypes,
       PutTypes, PutSteps, UploadedStored, PresentStored, GroupsUploaded, PartsTypes, PartsReceived
<1> QED BY <1>1, <1>2, <1>3, <1>4 DEF UploadInv

(* UrlAges keeps the invariant.                                            *)
LEMMA UploadUrlAges ==
  ASSUME UploadInv, NEW k \in Small, Uploads!UrlAges(k)
  PROVE  UploadInv'
<1>0. /\ RegistrarTypes /\ StoreTypes /\ MinterTypes /\ UploadShipperTypes /\ PutTypes /\ PutSteps
      /\ UploadedStored /\ PresentStored /\ CompletedStored /\ ChainStored /\ GroupsUploaded
      /\ PartsTypes /\ PartsReceived
  BY DEF UploadInv
<1>1. MinterTypes'
  BY <1>0 DEF Uploads!UrlAges, MinterTypes
<1>2. PresentStored'
  BY <1>0 DEF Uploads!UrlAges, PresentStored, MinterTypes, StoreTypes
<1>3. /\ RegistrarTypes' /\ StoreTypes' /\ UploadShipperTypes' /\ PutTypes' /\ PutSteps'
      /\ UploadedStored' /\ CompletedStored' /\ ChainStored' /\ GroupsUploaded' /\ PartsTypes'
      /\ PartsReceived'
  BY <1>0 DEF Uploads!UrlAges, RegistrarTypes, StoreTypes, UploadShipperTypes, PutTypes, PutSteps,
       UploadedStored, CompletedStored, ChainStored, GroupsUploaded, PartsTypes, PartsReceived
<1> QED BY <1>1, <1>2, <1>3 DEF UploadInv

(* PlanAges keeps the invariant.                                           *)
LEMMA UploadPlanAges ==
  ASSUME UploadInv, NEW k \in Large, Uploads!PlanAges(k)
  PROVE  UploadInv'
<1>0. /\ RegistrarTypes /\ StoreTypes /\ MinterTypes /\ UploadShipperTypes /\ PutTypes /\ PutSteps
      /\ UploadedStored /\ PresentStored /\ CompletedStored /\ ChainStored /\ GroupsUploaded
      /\ PartsTypes /\ PartsReceived
  BY DEF UploadInv
<1>1. MinterTypes'
  BY <1>0 DEF Uploads!PlanAges, MinterTypes
<1>2. PresentStored'
  BY <1>0 DEF Uploads!PlanAges, PresentStored, MinterTypes, StoreTypes
<1>3. /\ RegistrarTypes' /\ StoreTypes' /\ UploadShipperTypes' /\ PutTypes' /\ PutSteps'
      /\ UploadedStored' /\ CompletedStored' /\ ChainStored' /\ GroupsUploaded' /\ PartsTypes'
      /\ PartsReceived'
  BY <1>0 DEF Uploads!PlanAges, RegistrarTypes, StoreTypes, UploadShipperTypes, PutTypes, PutSteps,
       UploadedStored, CompletedStored, ChainStored, GroupsUploaded, PartsTypes, PartsReceived
<1> QED BY <1>1, <1>2, <1>3 DEF UploadInv

(* Prefetch keeps the invariant.                                           *)
LEMMA UploadPrefetch ==
  ASSUME UploadInv, Uploads!Prefetch
  PROVE  UploadInv'
<1>0. /\ RegistrarTypes /\ StoreTypes /\ MinterTypes /\ UploadShipperTypes /\ PutTypes /\ PutSteps
      /\ UploadedStored /\ PresentStored /\ CompletedStored /\ ChainStored /\ GroupsUploaded
      /\ PartsTypes /\ PartsReceived
  BY DEF UploadInv
<1>1. RegistrarTypes'
  BY <1>0 DEF Uploads!Prefetch, Uploads!Fate, Uploads!Minted, Uploads!AnsweredPresent, RegistrarTypes,
       Uploads!Keys
<1>2. MinterTypes'
  BY <1>0 DEF Uploads!Prefetch, Uploads!Fate, Uploads!Minted, Uploads!AnsweredPresent, MinterTypes
<1>3. UploadShipperTypes'
  BY <1>0 DEF Uploads!Prefetch, Uploads!Fate, Uploads!Minted, Uploads!AnsweredPresent, UploadShipperTypes
<1>4. UploadedStored'
  BY <1>0 DEF Uploads!Prefetch, Uploads!Fate, Uploads!Minted, Uploads!AnsweredPresent, UploadedStored,
       UploadShipperTypes, StoreTypes
<1>5. PresentStored'
  <2>1. w3' = w3 \/ \E keys : w3' = [w3 EXCEPT !.present = @ \cup Uploads!AnsweredPresent(keys),
                                                               !.urls = @ \cup (keys \ Uploads!AnsweredPresent(keys))]
    BY DEF Uploads!Prefetch
  <2>2. w3'.present \subseteq w3.present \cup w2.keys
    <3>1. CASE w3' = w3
      BY <3>1
    <3>2. ASSUME NEW keys, w3' = [w3 EXCEPT !.present = @ \cup Uploads!AnsweredPresent(keys),
                                                    !.urls = @ \cup (keys \ Uploads!AnsweredPresent(keys))]
          PROVE  w3'.present \subseteq w3.present \cup w2.keys
      <4>1. w3'.present = w3.present \cup Uploads!AnsweredPresent(keys)
        BY <1>0, <3>2 DEF MinterTypes
      <4> QED BY <4>1, UploadPresent
    <3> QED BY <2>1, <3>1, <3>2
  <2> QED BY <1>0, <2>2 DEF Uploads!Prefetch, PresentStored
<1>6. CompletedStored'
  BY <1>0 DEF Uploads!Prefetch, Uploads!Fate, Uploads!Minted, Uploads!AnsweredPresent, CompletedStored,
       RegistrarTypes, StoreTypes
<1>7. ChainStored'
  BY <1>0 DEF Uploads!Prefetch, Uploads!Fate, Uploads!Minted, Uploads!AnsweredPresent, ChainStored,
       RegistrarTypes, StoreTypes, Uploads!Keys
<1>8. GroupsUploaded'
  BY <1>0 DEF Uploads!Prefetch, Uploads!Fate, Uploads!Minted, Uploads!AnsweredPresent, GroupsUploaded,
       UploadShipperTypes, Uploads!Keys
<1>9. StoreTypes' /\ PutTypes' /\ PutSteps' /\ PartsTypes' /\ PartsReceived'
  BY <1>0 DEF Uploads!Prefetch, Uploads!Fate, Uploads!Minted, Uploads!AnsweredPresent, StoreTypes,
       PutTypes, PutSteps, PartsTypes, PartsReceived
<1> QED BY <1>1, <1>2, <1>3, <1>4, <1>5, <1>6, <1>7, <1>8, <1>9 DEF UploadInv

(* PutBegins keeps the invariant.                                          *)
LEMMA UploadPutBegins ==
  ASSUME UploadInv, NEW k \in Small, Uploads!PutBegins(k)
  PROVE  UploadInv'
<1>0. /\ RegistrarTypes /\ StoreTypes /\ MinterTypes /\ UploadShipperTypes /\ PutTypes /\ PutSteps
      /\ UploadedStored /\ PresentStored /\ CompletedStored /\ ChainStored /\ GroupsUploaded
      /\ PartsTypes /\ PartsReceived
  BY DEF UploadInv
<1>a. RegistrarTypes' /\ w1'.completed = w1.completed /\ w1'.chain = w1.chain
  <2>1. {k} \in SUBSET Uploads!Keys
    BY DEF Uploads!Keys
  <2>2. w1' = w1 \/ w1' = Uploads!Minted({k})
    BY DEF Uploads!PutBegins
  <2> QED BY <1>0, <2>1, <2>2, UploadMinted
<1>1. RegistrarTypes'
  BY <1>a
<1>2. MinterTypes'
  BY <1>0 DEF Uploads!PutBegins, Uploads!Fate, Uploads!Minted, Uploads!AnsweredPresent, Uploads!Settled,
       Uploads!Takes, Uploads!RetryOrHalt, Uploads!HaltPass, Uploads!Done, Uploads!Back,
       Uploads!IdlePut, MinterTypes
<1>3. UploadShipperTypes'
  BY <1>0 DEF Uploads!PutBegins, Uploads!Fate, Uploads!Minted, Uploads!AnsweredPresent, Uploads!Settled,
       Uploads!Takes, Uploads!RetryOrHalt, Uploads!HaltPass, Uploads!Done, Uploads!Back,
       Uploads!IdlePut, UploadShipperTypes
<1>4. PutTypes'
  BY <1>0 DEF Uploads!PutBegins, Uploads!Fate, Uploads!Minted, Uploads!AnsweredPresent, Uploads!Settled,
       Uploads!Takes, Uploads!RetryOrHalt, Uploads!HaltPass, Uploads!Done, Uploads!Back,
       Uploads!IdlePut, PutTypes, Uploads!Keys
<1>5. PutSteps'
  BY <1>0 DEF Uploads!PutBegins, Uploads!Fate, Uploads!Minted, Uploads!AnsweredPresent, Uploads!Settled,
       Uploads!Takes, Uploads!RetryOrHalt, Uploads!HaltPass, Uploads!Done, Uploads!Back,
       Uploads!IdlePut, PutSteps, PutTypes, Uploads!Keys
<1>6. UploadedStored'
  <2>1. w4'.uploaded = w4.uploaded \/ (w4'.uploaded = w4.uploaded \cup {k} /\ k \in w2.keys)
    <3>1. CASE k \in w3.present
      BY <1>0, <3>1 DEF Uploads!PutBegins, Uploads!Done, Uploads!RetryOrHalt, Uploads!HaltPass,
           UploadShipperTypes, PresentStored
    <3>2. CASE Uploads!AnsweredPresent({k}) # {}
      <4>1. k \in w2.keys
        BY <3>2, UploadPresent
      <4> QED BY <1>0, <4>1 DEF Uploads!PutBegins, Uploads!Done, Uploads!RetryOrHalt, Uploads!HaltPass,
           UploadShipperTypes
    <3>3. CASE k \notin w3.present /\ Uploads!AnsweredPresent({k}) = {}
      BY <1>0, <3>3 DEF Uploads!PutBegins, Uploads!RetryOrHalt, Uploads!HaltPass, UploadShipperTypes
    <3> QED BY <3>1, <3>2, <3>3
  <2> QED BY <1>0, <2>1 DEF Uploads!PutBegins, UploadedStored
<1>7. PresentStored'
  BY <1>0 DEF Uploads!PutBegins, Uploads!Fate, Uploads!Minted, Uploads!AnsweredPresent, Uploads!Settled,
       Uploads!Takes, Uploads!RetryOrHalt, Uploads!HaltPass, Uploads!Done, Uploads!Back,
       Uploads!IdlePut, PresentStored, MinterTypes, StoreTypes
<1>8. CompletedStored'
  BY <1>0, <1>a DEF Uploads!PutBegins, CompletedStored
<1>9. ChainStored'
  BY <1>0, <1>a DEF Uploads!PutBegins, ChainStored
<1>10. GroupsUploaded'
  BY <1>0 DEF Uploads!PutBegins, Uploads!Fate, Uploads!Minted, Uploads!AnsweredPresent, Uploads!Settled,
       Uploads!Takes, Uploads!RetryOrHalt, Uploads!HaltPass, Uploads!Done, Uploads!Back,
       Uploads!IdlePut, GroupsUploaded, UploadShipperTypes, Uploads!Keys
<1>11. PartsTypes'
  BY <1>0 DEF Uploads!PutBegins, Uploads!Fate, Uploads!Minted, Uploads!AnsweredPresent, Uploads!Settled,
       Uploads!Takes, Uploads!RetryOrHalt, Uploads!HaltPass, Uploads!Done, Uploads!Back,
       Uploads!IdlePut, PartsTypes, PutTypes, Uploads!Keys
<1>12. PartsReceived'
  BY <1>0 DEF Uploads!PutBegins, Uploads!Fate, Uploads!Minted, Uploads!AnsweredPresent, Uploads!Settled,
       Uploads!Takes, Uploads!RetryOrHalt, Uploads!HaltPass, Uploads!Done, Uploads!Back,
       Uploads!IdlePut, PartsReceived, PutTypes, PartsTypes, StoreTypes, Uploads!Keys, Uploads!Parts
<1>13. StoreTypes'
  BY <1>0 DEF Uploads!PutBegins, Uploads!Fate, Uploads!Minted, Uploads!AnsweredPresent, Uploads!Settled,
       Uploads!Takes, Uploads!RetryOrHalt, Uploads!HaltPass, Uploads!Done, Uploads!Back,
       Uploads!IdlePut, StoreTypes
<1> QED BY <1>1, <1>2, <1>3, <1>4, <1>5, <1>6, <1>7, <1>8, <1>9, <1>10, <1>11, <1>12, <1>13 DEF UploadInv

(* Send keeps the invariant.                                               *)
LEMMA UploadSend ==
  ASSUME UploadInv, NEW k \in Small, Uploads!Send(k)
  PROVE  UploadInv'
<1>0. /\ RegistrarTypes /\ StoreTypes /\ MinterTypes /\ UploadShipperTypes /\ PutTypes /\ PutSteps
      /\ UploadedStored /\ PresentStored /\ CompletedStored /\ ChainStored /\ GroupsUploaded
      /\ PartsTypes /\ PartsReceived
  BY DEF UploadInv
<1>1. StoreTypes'
  BY <1>0 DEF Uploads!Send, Uploads!Fate, Uploads!Settled, Uploads!RetryOrHalt, Uploads!HaltPass,
       Uploads!Done, Uploads!Back, Uploads!IdlePut, StoreTypes, Uploads!Keys
<1>2. MinterTypes'
  BY <1>0 DEF Uploads!Send, Uploads!Fate, Uploads!Settled, Uploads!RetryOrHalt, Uploads!HaltPass,
       Uploads!Done, Uploads!Back, Uploads!IdlePut, MinterTypes
<1>3. UploadShipperTypes'
  BY <1>0 DEF Uploads!Send, Uploads!Fate, Uploads!Settled, Uploads!RetryOrHalt, Uploads!HaltPass,
       Uploads!Done, Uploads!Back, Uploads!IdlePut, UploadShipperTypes
<1>4. PutTypes'
  BY <1>0 DEF Uploads!Send, Uploads!Fate, Uploads!Settled, Uploads!RetryOrHalt, Uploads!HaltPass,
       Uploads!Done, Uploads!Back, Uploads!IdlePut, PutTypes, Uploads!Keys
<1>5. PutSteps'
  BY <1>0 DEF Uploads!Send, Uploads!Fate, Uploads!Settled, Uploads!RetryOrHalt, Uploads!HaltPass,
       Uploads!Done, Uploads!Back, Uploads!IdlePut, PutSteps, PutTypes, Uploads!Keys
<1>6. UploadedStored'
  BY <1>0 DEF Uploads!Send, Uploads!Fate, Uploads!Settled, Uploads!RetryOrHalt, Uploads!HaltPass,
       Uploads!Done, Uploads!Back, Uploads!IdlePut, UploadedStored, UploadShipperTypes, StoreTypes
<1>7. PresentStored'
  BY <1>0 DEF Uploads!Send, Uploads!Fate, Uploads!Settled, Uploads!RetryOrHalt, Uploads!HaltPass,
       Uploads!Done, Uploads!Back, Uploads!IdlePut, PresentStored, MinterTypes, StoreTypes
<1>8. CompletedStored'
  BY <1>0 DEF Uploads!Send, Uploads!Fate, Uploads!Settled, Uploads!RetryOrHalt, Uploads!HaltPass,
       Uploads!Done, Uploads!Back, Uploads!IdlePut, CompletedStored, RegistrarTypes, StoreTypes
<1>9. ChainStored'
  BY <1>0 DEF Uploads!Send, Uploads!Fate, Uploads!Settled, Uploads!RetryOrHalt, Uploads!HaltPass,
       Uploads!Done, Uploads!Back, Uploads!IdlePut, ChainStored, RegistrarTypes, StoreTypes, Uploads!Keys
<1>10. GroupsUploaded'
  BY <1>0 DEF Uploads!Send, Uploads!Fate, Uploads!Settled, Uploads!RetryOrHalt, Uploads!HaltPass,
       Uploads!Done, Uploads!Back, Uploads!IdlePut, GroupsUploaded, UploadShipperTypes, Uploads!Keys
<1>11. PartsTypes'
  BY <1>0 DEF Uploads!Send, Uploads!Fate, Uploads!Settled, Uploads!RetryOrHalt, Uploads!HaltPass,
       Uploads!Done, Uploads!Back, Uploads!IdlePut, PartsTypes, PutTypes, Uploads!Keys
<1>12. PartsReceived'
  BY <1>0 DEF Uploads!Send, Uploads!Fate, Uploads!Settled, Uploads!RetryOrHalt, Uploads!HaltPass,
       Uploads!Done, Uploads!Back, Uploads!IdlePut, PartsReceived, PutTypes, PartsTypes, StoreTypes,
       Uploads!Keys, Uploads!Parts
<1>13. RegistrarTypes'
  BY <1>0 DEF Uploads!Send, Uploads!Fate, Uploads!Settled, Uploads!RetryOrHalt, Uploads!HaltPass,
       Uploads!Done, Uploads!Back, Uploads!IdlePut, RegistrarTypes
<1> QED BY <1>1, <1>2, <1>3, <1>4, <1>5, <1>6, <1>7, <1>8, <1>9, <1>10, <1>11, <1>12, <1>13 DEF UploadInv

(* MultipartBegins keeps the invariant.                                    *)
LEMMA UploadMultipartBegins ==
  ASSUME UploadInv, NEW k \in Large, Uploads!MultipartBegins(k)
  PROVE  UploadInv'
<1>0. /\ RegistrarTypes /\ StoreTypes /\ MinterTypes /\ UploadShipperTypes /\ PutTypes /\ PutSteps
      /\ UploadedStored /\ PresentStored /\ CompletedStored /\ ChainStored /\ GroupsUploaded
      /\ PartsTypes /\ PartsReceived
  BY DEF UploadInv
<1>a. RegistrarTypes' /\ w1'.completed = w1.completed /\ w1'.chain = w1.chain
  <2>1. {k} \in SUBSET Uploads!Keys
    BY DEF Uploads!Keys
  <2>2. w1' = w1 \/ w1' = Uploads!Minted({k})
    BY DEF Uploads!MultipartBegins
  <2> QED BY <1>0, <2>1, <2>2, UploadMinted
<1>1. RegistrarTypes'
  BY <1>a
<1>2. MinterTypes'
  BY <1>0 DEF Uploads!MultipartBegins, Uploads!Fate, Uploads!Minted, Uploads!AnsweredPresent,
       Uploads!Upload, Uploads!Takes, Uploads!RetryOrHalt, Uploads!HaltPass, Uploads!Done, Uploads!Back,
       Uploads!IdlePut, MinterTypes
<1>3. UploadShipperTypes'
  BY <1>0 DEF Uploads!MultipartBegins, Uploads!Fate, Uploads!Minted, Uploads!AnsweredPresent,
       Uploads!Upload, Uploads!Takes, Uploads!RetryOrHalt, Uploads!HaltPass, Uploads!Done, Uploads!Back,
       Uploads!IdlePut, UploadShipperTypes
<1>4. PutTypes'
  BY <1>0 DEF Uploads!MultipartBegins, Uploads!Fate, Uploads!Minted, Uploads!AnsweredPresent,
       Uploads!Upload, Uploads!Takes, Uploads!RetryOrHalt, Uploads!HaltPass, Uploads!Done, Uploads!Back,
       Uploads!IdlePut, PutTypes, Uploads!Keys
<1>5. PutSteps'
  BY <1>0 DEF Uploads!MultipartBegins, Uploads!Fate, Uploads!Minted, Uploads!AnsweredPresent,
       Uploads!Upload, Uploads!Takes, Uploads!RetryOrHalt, Uploads!HaltPass, Uploads!Done, Uploads!Back,
       Uploads!IdlePut, PutSteps, PutTypes, Uploads!Keys
<1>6. UploadedStored'
  BY <1>0 DEF Uploads!MultipartBegins, Uploads!Fate, Uploads!Minted, Uploads!AnsweredPresent,
       Uploads!Upload, Uploads!Takes, Uploads!RetryOrHalt, Uploads!HaltPass, Uploads!Done, Uploads!Back,
       Uploads!IdlePut, UploadedStored, UploadShipperTypes, StoreTypes
<1>7. PresentStored'
  BY <1>0 DEF Uploads!MultipartBegins, Uploads!Fate, Uploads!Minted, Uploads!AnsweredPresent,
       Uploads!Upload, Uploads!Takes, Uploads!RetryOrHalt, Uploads!HaltPass, Uploads!Done, Uploads!Back,
       Uploads!IdlePut, PresentStored, MinterTypes, StoreTypes
<1>8. CompletedStored'
  BY <1>0, <1>a DEF Uploads!MultipartBegins, CompletedStored
<1>9. ChainStored'
  BY <1>0, <1>a DEF Uploads!MultipartBegins, ChainStored
<1>10. GroupsUploaded'
  BY <1>0 DEF Uploads!MultipartBegins, Uploads!Fate, Uploads!Minted, Uploads!AnsweredPresent,
       Uploads!Upload, Uploads!Takes, Uploads!RetryOrHalt, Uploads!HaltPass, Uploads!Done, Uploads!Back,
       Uploads!IdlePut, GroupsUploaded, UploadShipperTypes, Uploads!Keys
<1>11. PartsTypes'
  BY <1>0 DEF Uploads!MultipartBegins, Uploads!Fate, Uploads!Minted, Uploads!AnsweredPresent,
       Uploads!Upload, Uploads!Takes, Uploads!RetryOrHalt, Uploads!HaltPass, Uploads!Done, Uploads!Back,
       Uploads!IdlePut, PartsTypes, PutTypes, Uploads!Keys
<1>12. PartsReceived'
  BY <1>0 DEF Uploads!MultipartBegins, Uploads!Fate, Uploads!Minted, Uploads!AnsweredPresent,
       Uploads!Upload, Uploads!Takes, Uploads!RetryOrHalt, Uploads!HaltPass, Uploads!Done, Uploads!Back,
       Uploads!IdlePut, PartsReceived, PutTypes, PartsTypes, StoreTypes, Uploads!Keys, Uploads!Parts
<1>13. StoreTypes'
  BY <1>0 DEF Uploads!MultipartBegins, Uploads!Fate, Uploads!Minted, Uploads!AnsweredPresent,
       Uploads!Upload, Uploads!Takes, Uploads!RetryOrHalt, Uploads!HaltPass, Uploads!Done, Uploads!Back,
       Uploads!IdlePut, StoreTypes
<1> QED BY <1>1, <1>2, <1>3, <1>4, <1>5, <1>6, <1>7, <1>8, <1>9, <1>10, <1>11, <1>12, <1>13 DEF UploadInv

(* PartClaimed keeps the invariant.                                        *)
LEMMA UploadPartClaimed ==
  ASSUME UploadInv, NEW k \in Large, Uploads!PartClaimed(k)
  PROVE  UploadInv'
<1>0. /\ RegistrarTypes /\ StoreTypes /\ MinterTypes /\ UploadShipperTypes /\ PutTypes /\ PutSteps
      /\ UploadedStored /\ PresentStored /\ CompletedStored /\ ChainStored /\ GroupsUploaded
      /\ PartsTypes /\ PartsReceived
  BY DEF UploadInv
<1>1. PutTypes'
  BY <1>0 DEF Uploads!PartClaimed, PutTypes, Uploads!Keys
<1>2. PutSteps'
  BY <1>0 DEF Uploads!PartClaimed, PutSteps, PutTypes, Uploads!Keys
<1>3. PartsTypes'
  BY <1>0 DEF Uploads!PartClaimed, PartsTypes, PutTypes, Uploads!Keys
<1>4. PartsReceived'
  BY <1>0 DEF Uploads!PartClaimed, PartsReceived, PutTypes, PartsTypes, StoreTypes, Uploads!Keys,
       Uploads!Parts
<1>5. /\ RegistrarTypes' /\ StoreTypes' /\ MinterTypes' /\ UploadShipperTypes' /\ UploadedStored'
      /\ PresentStored' /\ CompletedStored' /\ ChainStored' /\ GroupsUploaded'
  BY <1>0 DEF Uploads!PartClaimed, RegistrarTypes, StoreTypes, MinterTypes, UploadShipperTypes,
       UploadedStored, PresentStored, CompletedStored, ChainStored, GroupsUploaded
<1> QED BY <1>1, <1>2, <1>3, <1>4, <1>5 DEF UploadInv

(* PartEnds keeps the invariant.                                           *)
LEMMA UploadPartEnds ==
  ASSUME UploadInv, NEW k \in Large, NEW n \in Uploads!Parts, Uploads!PartEnds(k, n)
  PROVE  UploadInv'
<1>0. /\ RegistrarTypes /\ StoreTypes /\ MinterTypes /\ UploadShipperTypes /\ PutTypes /\ PutSteps
      /\ UploadedStored /\ PresentStored /\ CompletedStored /\ ChainStored /\ GroupsUploaded
      /\ PartsTypes /\ PartsReceived
  BY DEF UploadInv
<1>1. StoreTypes'
  BY <1>0 DEF Uploads!PartEnds, Uploads!Fate, StoreTypes, Uploads!Keys
<1>2. PutTypes'
  BY <1>0 DEF Uploads!PartEnds, Uploads!Fate, PutTypes, Uploads!Keys
<1>3. PutSteps'
  BY <1>0 DEF Uploads!PartEnds, Uploads!Fate, PutSteps, PutTypes, Uploads!Keys
<1>4. UploadedStored'
  BY <1>0 DEF Uploads!PartEnds, Uploads!Fate, UploadedStored, UploadShipperTypes, StoreTypes
<1>5. PresentStored'
  BY <1>0 DEF Uploads!PartEnds, Uploads!Fate, PresentStored, MinterTypes, StoreTypes
<1>6. CompletedStored'
  BY <1>0 DEF Uploads!PartEnds, Uploads!Fate, CompletedStored, RegistrarTypes, StoreTypes
<1>7. ChainStored'
  BY <1>0 DEF Uploads!PartEnds, Uploads!Fate, ChainStored, RegistrarTypes, StoreTypes, Uploads!Keys
<1>8. PartsTypes'
  BY <1>0 DEF Uploads!PartEnds, Uploads!Fate, PartsTypes, PutTypes, Uploads!Keys
<1>9. PartsReceived'
  BY <1>0 DEF Uploads!PartEnds, Uploads!Fate, PartsReceived, PutTypes, PartsTypes, StoreTypes,
       Uploads!Keys, Uploads!Parts
<1>10. RegistrarTypes' /\ MinterTypes' /\ UploadShipperTypes' /\ GroupsUploaded'
  BY <1>0 DEF Uploads!PartEnds, Uploads!Fate, RegistrarTypes, MinterTypes, UploadShipperTypes, GroupsUploaded
<1> QED BY <1>1, <1>2, <1>3, <1>4, <1>5, <1>6, <1>7, <1>8, <1>9, <1>10 DEF UploadInv

(* PartsIn keeps the invariant.                                            *)
LEMMA UploadPartsIn ==
  ASSUME UploadInv, NEW k \in Large, Uploads!PartsIn(k)
  PROVE  UploadInv'
<1>0. /\ RegistrarTypes /\ StoreTypes /\ MinterTypes /\ UploadShipperTypes /\ PutTypes /\ PutSteps
      /\ UploadedStored /\ PresentStored /\ CompletedStored /\ ChainStored /\ GroupsUploaded
      /\ PartsTypes /\ PartsReceived
  BY DEF UploadInv
<1>a. k \in Uploads!Keys
  BY DEF Uploads!Keys
<1>b. \/ w5' = [w5 EXCEPT ![k].pc = "complete"] /\ w5[k].failed = "no" /\ UNCHANGED <<w3, w4>>
      \/ Uploads!RetryOrHalt(k) /\ UNCHANGED w3
      \/ Uploads!HaltPass(k) /\ w3' = Uploads!Settled(k)
  BY <1>0, <1>a DEF Uploads!PartsIn, PartsTypes
<1>1. MinterTypes'
  BY <1>0, <1>a, <1>b DEF Uploads!PartsIn, Uploads!Settled, Uploads!RetryOrHalt, Uploads!HaltPass,
       Uploads!Back, Uploads!IdlePut, MinterTypes
<1>2. UploadShipperTypes'
  BY <1>0, <1>a, <1>b DEF Uploads!PartsIn, Uploads!Settled, Uploads!RetryOrHalt, Uploads!HaltPass,
       Uploads!Back, Uploads!IdlePut, UploadShipperTypes
<1>3. PutTypes'
  BY <1>0, <1>a, <1>b DEF Uploads!PartsIn, Uploads!Settled, Uploads!RetryOrHalt, Uploads!HaltPass,
       Uploads!Back, Uploads!IdlePut, PutTypes, Uploads!Keys
<1>4. PutSteps'
  BY <1>0, <1>a, <1>b DEF Uploads!PartsIn, Uploads!Settled, Uploads!RetryOrHalt, Uploads!HaltPass,
       Uploads!Back, Uploads!IdlePut, PutSteps, PutTypes, Uploads!Keys
<1>5. UploadedStored'
  BY <1>0, <1>a, <1>b DEF Uploads!PartsIn, Uploads!Settled, Uploads!RetryOrHalt, Uploads!HaltPass,
       Uploads!Back, Uploads!IdlePut, UploadedStored, UploadShipperTypes, StoreTypes
<1>6. PresentStored'
  BY <1>0, <1>a, <1>b DEF Uploads!PartsIn, Uploads!Settled, Uploads!RetryOrHalt, Uploads!HaltPass,
       Uploads!Back, Uploads!IdlePut, PresentStored, MinterTypes, StoreTypes
<1>7. GroupsUploaded'
  BY <1>0, <1>a, <1>b DEF Uploads!PartsIn, Uploads!Settled, Uploads!RetryOrHalt, Uploads!HaltPass,
       Uploads!Back, Uploads!IdlePut, GroupsUploaded, UploadShipperTypes, Uploads!Keys
<1>8. PartsTypes'
  BY <1>0, <1>a, <1>b DEF Uploads!PartsIn, Uploads!Settled, Uploads!RetryOrHalt, Uploads!HaltPass,
       Uploads!Back, Uploads!IdlePut, PartsTypes, PutTypes, Uploads!Keys
<1>9. PartsReceived'
  <2>1. w5' = [w5 EXCEPT ![k].pc = "complete"] \/ w5' = [w5 EXCEPT ![k] = [pc |-> "idle"]]
    BY <1>b DEF Uploads!RetryOrHalt, Uploads!HaltPass, Uploads!Back, Uploads!IdlePut
  <2>2. \A j \in Uploads!Keys \ {k} : w5'[j] = w5[j]
    BY <1>0, <1>a, <2>1 DEF PutTypes
  <2>3. CASE w5' = [w5 EXCEPT ![k] = [pc |-> "idle"]]
    BY <1>0, <1>a, <2>2, <2>3 DEF Uploads!PartsIn, PartsReceived, PutTypes
  <2>4. CASE w5' = [w5 EXCEPT ![k].pc = "complete"] /\ w5[k].failed = "no"
    <3>1. w5[k].pc = "parts" /\ w5[k].flying = {} /\ w5[k].next \notin Uploads!Parts
      BY <2>4 DEF Uploads!PartsIn
    <3>2. w5[k].next \in Nat \ {0}
      BY <1>0, <1>a, <3>1 DEF PartsReceived
    <3>3. \A n \in Uploads!Parts : n < w5[k].next
      BY <3>1, <3>2 DEF Uploads!Parts
    <3> QED BY <1>0, <1>a, <2>2, <2>4, <3>1, <3>2, <3>3 DEF Uploads!PartsIn, PartsReceived, PutTypes,
         PartsTypes
  <2> QED BY <1>b, <2>3, <2>4 DEF Uploads!RetryOrHalt, Uploads!HaltPass, Uploads!Back, Uploads!IdlePut
<1>10. RegistrarTypes' /\ StoreTypes' /\ CompletedStored' /\ ChainStored'
  BY <1>0 DEF Uploads!PartsIn, Uploads!Settled, Uploads!RetryOrHalt, Uploads!HaltPass, Uploads!Done,
       Uploads!Back, Uploads!IdlePut, RegistrarTypes, StoreTypes, CompletedStored, ChainStored
<1> QED BY <1>1, <1>2, <1>3, <1>4, <1>5, <1>6, <1>7, <1>8, <1>9, <1>10 DEF UploadInv

(* Complete keeps the invariant.                                           *)
LEMMA UploadComplete ==
  ASSUME UploadInv, NEW k \in Large, Uploads!Complete(k)
  PROVE  UploadInv'
<1>0. /\ RegistrarTypes /\ StoreTypes /\ MinterTypes /\ UploadShipperTypes /\ PutTypes /\ PutSteps
      /\ UploadedStored /\ PresentStored /\ CompletedStored /\ ChainStored /\ GroupsUploaded
      /\ PartsTypes /\ PartsReceived
  BY DEF UploadInv
<1>a. k \in Uploads!Keys
  BY DEF Uploads!Keys
<1>b. w2.keys \subseteq w2'.keys /\ w2'.parts = w2.parts
  BY <1>0 DEF Uploads!Complete, StoreTypes
<1>c. Uploads!CompleteAnswer(k) = "exists" => k \in w1.completed
  BY DEF Uploads!CompleteAnswer
<1>d. w5[k].pc = "complete" /\ Uploads!Assembled(k) = {k}
  BY <1>0, <1>a DEF Uploads!Complete, PartsReceived, Uploads!Assembled
<1>e. \/ w1'.completed = w1.completed
      \/ w1'.completed = w1.completed \cup {k} /\ (Uploads!CompleteAnswer(k) = "exists" \/ k \in w2'.keys)
  <2>1. PICK f \in {"answered", "lost", "down"} :
          /\ w1' = IF f # "down" /\ Uploads!CompleteAnswer(k) \in {"stored", "exists"}
                          THEN [w1 EXCEPT !.completed = @ \cup {k}, !.uploads = Uploads!Closed(k)]
                          ELSE w1
          /\ w2' = IF f # "down" /\ Uploads!CompleteAnswer(k) = "stored"
                      THEN [w2 EXCEPT !.keys = @ \cup Uploads!Assembled(k)] ELSE w2
    BY DEF Uploads!Complete
  <2> QED BY <1>0, <1>d, <2>1 DEF RegistrarTypes, StoreTypes
<1>f. \/ w4'.uploaded = w4.uploaded
      \/ w4'.uploaded = w4.uploaded \cup {k} /\ Uploads!CompleteAnswer(k) = "exists"
  <2>1. Uploads!RetryOrHalt(k) \/ Uploads!HaltPass(k) \/ (Uploads!Done(k) /\ Uploads!CompleteAnswer(k) = "exists") \/ w4' = w4
    BY DEF Uploads!Complete
  <2> QED BY <1>0, <2>1 DEF Uploads!RetryOrHalt, Uploads!HaltPass, Uploads!Done, UploadShipperTypes
<1>g. w3'.present \subseteq w3.present
  BY <1>0 DEF Uploads!Complete, Uploads!Settled, MinterTypes
<1>1. RegistrarTypes'
  BY <1>0 DEF Uploads!Complete, Uploads!Fate, Uploads!Settled, Uploads!CompleteAnswer,
       Uploads!Assembled, Uploads!Closed, Uploads!RetryOrHalt, Uploads!HaltPass, Uploads!Done,
       Uploads!Back, Uploads!IdlePut, RegistrarTypes, Uploads!Keys
<1>2. StoreTypes'
  BY <1>0 DEF Uploads!Complete, Uploads!Fate, Uploads!Settled, Uploads!CompleteAnswer,
       Uploads!Assembled, Uploads!Closed, Uploads!RetryOrHalt, Uploads!HaltPass, Uploads!Done,
       Uploads!Back, Uploads!IdlePut, StoreTypes, Uploads!Keys
<1>3. MinterTypes'
  BY <1>0 DEF Uploads!Complete, Uploads!Fate, Uploads!Settled, Uploads!CompleteAnswer,
       Uploads!Assembled, Uploads!Closed, Uploads!RetryOrHalt, Uploads!HaltPass, Uploads!Done,
       Uploads!Back, Uploads!IdlePut, MinterTypes
<1>4. UploadShipperTypes'
  BY <1>0 DEF Uploads!Complete, Uploads!Fate, Uploads!Settled, Uploads!CompleteAnswer,
       Uploads!Assembled, Uploads!Closed, Uploads!RetryOrHalt, Uploads!HaltPass, Uploads!Done,
       Uploads!Back, Uploads!IdlePut, UploadShipperTypes
<1>5. PutTypes'
  BY <1>0 DEF Uploads!Complete, Uploads!Fate, Uploads!Settled, Uploads!CompleteAnswer,
       Uploads!Assembled, Uploads!Closed, Uploads!RetryOrHalt, Uploads!HaltPass, Uploads!Done,
       Uploads!Back, Uploads!IdlePut, PutTypes, Uploads!Keys
<1>6. PutSteps'
  BY <1>0 DEF Uploads!Complete, Uploads!Fate, Uploads!Settled, Uploads!CompleteAnswer,
       Uploads!Assembled, Uploads!Closed, Uploads!RetryOrHalt, Uploads!HaltPass, Uploads!Done,
       Uploads!Back, Uploads!IdlePut, PutSteps, PutTypes, Uploads!Keys
<1>7. UploadedStored'
  BY <1>0, <1>b, <1>c, <1>f DEF UploadedStored, CompletedStored
<1>8. PresentStored'
  BY <1>0, <1>b, <1>g DEF PresentStored
<1>9. CompletedStored'
  BY <1>0, <1>b, <1>c, <1>e DEF CompletedStored
<1>10. ChainStored'
  BY <1>0 DEF Uploads!Complete, Uploads!Fate, Uploads!Settled, Uploads!CompleteAnswer,
       Uploads!Assembled, Uploads!Closed, Uploads!RetryOrHalt, Uploads!HaltPass, Uploads!Done,
       Uploads!Back, Uploads!IdlePut, ChainStored, RegistrarTypes, StoreTypes, Uploads!Keys
<1>11. GroupsUploaded'
  BY <1>0 DEF Uploads!Complete, Uploads!Fate, Uploads!Settled, Uploads!CompleteAnswer,
       Uploads!Assembled, Uploads!Closed, Uploads!RetryOrHalt, Uploads!HaltPass, Uploads!Done,
       Uploads!Back, Uploads!IdlePut, GroupsUploaded, UploadShipperTypes, Uploads!Keys
<1>12. PartsTypes'
  BY <1>0 DEF Uploads!Complete, Uploads!Fate, Uploads!Settled, Uploads!CompleteAnswer,
       Uploads!Assembled, Uploads!Closed, Uploads!RetryOrHalt, Uploads!HaltPass, Uploads!Done,
       Uploads!Back, Uploads!IdlePut, PartsTypes, PutTypes, Uploads!Keys
<1>13. PartsReceived'
  BY <1>0 DEF Uploads!Complete, Uploads!Fate, Uploads!Settled, Uploads!CompleteAnswer,
       Uploads!Assembled, Uploads!Closed, Uploads!RetryOrHalt, Uploads!HaltPass, Uploads!Done,
       Uploads!Back, Uploads!IdlePut, PartsReceived, PutTypes, PartsTypes, StoreTypes, Uploads!Keys,
       Uploads!Parts
<1> QED BY <1>1, <1>2, <1>3, <1>4, <1>5, <1>6, <1>7, <1>8, <1>9, <1>10, <1>11, <1>12, <1>13 DEF UploadInv

(* SizeChecked keeps the invariant.                                        *)
LEMMA UploadSizeChecked ==
  ASSUME UploadInv, NEW k \in Large, Uploads!SizeChecked(k)
  PROVE  UploadInv'
<1>0. /\ RegistrarTypes /\ StoreTypes /\ MinterTypes /\ UploadShipperTypes /\ PutTypes /\ PutSteps
      /\ UploadedStored /\ PresentStored /\ CompletedStored /\ ChainStored /\ GroupsUploaded
      /\ PartsTypes /\ PartsReceived
  BY DEF UploadInv
<1>1. UploadShipperTypes'
  BY <1>0 DEF Uploads!SizeChecked, Uploads!Fate, Uploads!RetryOrHalt, Uploads!HaltPass, Uploads!Done,
       Uploads!Back, Uploads!IdlePut, UploadShipperTypes
<1>2. PutTypes'
  BY <1>0 DEF Uploads!SizeChecked, Uploads!Fate, Uploads!RetryOrHalt, Uploads!HaltPass, Uploads!Done,
       Uploads!Back, Uploads!IdlePut, PutTypes, Uploads!Keys
<1>3. PutSteps'
  BY <1>0 DEF Uploads!SizeChecked, Uploads!Fate, Uploads!RetryOrHalt, Uploads!HaltPass, Uploads!Done,
       Uploads!Back, Uploads!IdlePut, PutSteps, PutTypes, Uploads!Keys
<1>4. UploadedStored'
  BY <1>0 DEF Uploads!SizeChecked, Uploads!Fate, Uploads!RetryOrHalt, Uploads!HaltPass, Uploads!Done,
       Uploads!Back, Uploads!IdlePut, UploadedStored, UploadShipperTypes, StoreTypes
<1>5. GroupsUploaded'
  BY <1>0 DEF Uploads!SizeChecked, Uploads!Fate, Uploads!RetryOrHalt, Uploads!HaltPass, Uploads!Done,
       Uploads!Back, Uploads!IdlePut, GroupsUploaded, UploadShipperTypes, Uploads!Keys
<1>6. PartsTypes'
  BY <1>0 DEF Uploads!SizeChecked, Uploads!Fate, Uploads!RetryOrHalt, Uploads!HaltPass, Uploads!Done,
       Uploads!Back, Uploads!IdlePut, PartsTypes, PutTypes, Uploads!Keys
<1>7. PartsReceived'
  BY <1>0 DEF Uploads!SizeChecked, Uploads!Fate, Uploads!RetryOrHalt, Uploads!HaltPass, Uploads!Done,
       Uploads!Back, Uploads!IdlePut, PartsReceived, PutTypes, PartsTypes, StoreTypes, Uploads!Keys,
       Uploads!Parts
<1>8. /\ RegistrarTypes' /\ StoreTypes' /\ MinterTypes' /\ PresentStored' /\ CompletedStored'
      /\ ChainStored'
  BY <1>0 DEF Uploads!SizeChecked, Uploads!Fate, Uploads!RetryOrHalt, Uploads!HaltPass, Uploads!Done,
       Uploads!Back, Uploads!IdlePut, RegistrarTypes, StoreTypes, MinterTypes, PresentStored,
       CompletedStored, ChainStored
<1> QED BY <1>1, <1>2, <1>3, <1>4, <1>5, <1>6, <1>7, <1>8 DEF UploadInv

(* GroupEnds keeps the invariant.                                          *)
LEMMA UploadGroupEnds ==
  ASSUME UploadInv, Uploads!GroupEnds
  PROVE  UploadInv'
<1>0. /\ RegistrarTypes /\ StoreTypes /\ MinterTypes /\ UploadShipperTypes /\ PutTypes /\ PutSteps
      /\ UploadedStored /\ PresentStored /\ CompletedStored /\ ChainStored /\ GroupsUploaded
      /\ PartsTypes /\ PartsReceived
  BY DEF UploadInv
<1>1. UploadShipperTypes'
  BY <1>0 DEF Uploads!GroupEnds, UploadShipperTypes
<1>2. UploadedStored'
  BY <1>0 DEF Uploads!GroupEnds, UploadedStored, UploadShipperTypes, StoreTypes
<1>3. GroupsUploaded'
  BY <1>0 DEF Uploads!GroupEnds, GroupsUploaded, UploadShipperTypes, Uploads!Keys
<1>4. /\ RegistrarTypes' /\ StoreTypes' /\ MinterTypes' /\ PutTypes' /\ PutSteps'
      /\ PresentStored' /\ CompletedStored' /\ ChainStored' /\ PartsTypes' /\ PartsReceived'
  BY <1>0 DEF Uploads!GroupEnds, RegistrarTypes, StoreTypes, MinterTypes, PutTypes, PutSteps,
       PresentStored, CompletedStored, ChainStored, PartsTypes, PartsReceived
<1> QED BY <1>1, <1>2, <1>3, <1>4 DEF UploadInv

(* Registers keeps the invariant.                                          *)
LEMMA UploadRegisters ==
  ASSUME UploadInv, Uploads!Registers
  PROVE  UploadInv'
<1>0. /\ RegistrarTypes /\ StoreTypes /\ MinterTypes /\ UploadShipperTypes /\ PutTypes /\ PutSteps
      /\ UploadedStored /\ PresentStored /\ CompletedStored /\ ChainStored /\ GroupsUploaded
      /\ PartsTypes /\ PartsReceived
  BY DEF UploadInv
<1>1. RegistrarTypes'
  BY <1>0 DEF Uploads!Registers, Uploads!Fate, RegistrarTypes, Uploads!Keys
<1>2. UploadShipperTypes'
  BY <1>0 DEF Uploads!Registers, Uploads!Fate, UploadShipperTypes
<1>3. UploadedStored'
  BY <1>0 DEF Uploads!Registers, Uploads!Fate, UploadedStored, UploadShipperTypes, StoreTypes
<1>4. CompletedStored'
  BY <1>0 DEF Uploads!Registers, Uploads!Fate, CompletedStored, RegistrarTypes, StoreTypes
<1>5. ChainStored'
  <2>1. Uploads!Keys \subseteq w4.uploaded
    BY <1>0 DEF Uploads!Registers, GroupsUploaded
  <2> QED BY <1>0, <2>1 DEF Uploads!Registers, ChainStored, UploadedStored
<1>6. GroupsUploaded'
  BY <1>0 DEF Uploads!Registers, Uploads!Fate, GroupsUploaded, UploadShipperTypes, Uploads!Keys
<1>7. /\ StoreTypes' /\ MinterTypes' /\ PutTypes' /\ PutSteps' /\ PresentStored'
      /\ PartsTypes' /\ PartsReceived'
  BY <1>0 DEF Uploads!Registers, Uploads!Fate, StoreTypes, MinterTypes, PutTypes, PutSteps,
       PresentStored, PartsTypes, PartsReceived
<1> QED BY <1>1, <1>2, <1>3, <1>4, <1>5, <1>6, <1>7 DEF UploadInv

(* The invariant holds at the start.                                       *)
LEMMA UploadInitial ==
  ASSUME Uploads!UploadInit
  PROVE  UploadInv
BY DEF Uploads!UploadInit, UploadInv, RegistrarTypes, StoreTypes, MinterTypes, UploadShipperTypes, PutTypes,
     PutSteps, UploadedStored,
       PresentStored, CompletedStored, ChainStored, GroupsUploaded, PartsTypes, PartsReceived, Uploads!IdlePut

(* Every step keeps the invariant.                                         *)
LEMMA UploadStep ==
  ASSUME UploadInv, Uploads!UploadNext
  PROVE  UploadInv'
BY UploadLeaseMovesU, UploadTakeoverU, UploadQuotaRaised, UploadPreservingBegins, UploadUrlAges,
     UploadPlanAges, UploadPrefetch, UploadPutBegins, UploadSend, UploadMultipartBegins,
     UploadPartClaimed, UploadPartEnds, UploadPartsIn, UploadComplete, UploadSizeChecked,
     UploadGroupEnds, UploadRegisters DEF Uploads!UploadNext, Uploads!Ships

(* The invariant is strong enough.                                         *)
LEMMA UploadInvImplies ==
  ASSUME UploadInv
  PROVE  Uploads!UploadTypeOK /\ Uploads!UploadedIsStored
BY DEF UploadInv, RegistrarTypes, StoreTypes, UploadShipperTypes, PutSteps, UploadedStored, PresentStored,
     ChainStored,
       Uploads!UploadTypeOK, Uploads!UploadedIsStored

UploadPart == part = "upload" => UploadInv

(* The invariant is about these variables alone.                           *)
LEMMA UploadStutters ==
  ASSUME UploadInv, UNCHANGED <<w1, w2, w3, w4, w5, w6>>
  PROVE  UploadInv'
BY DEF UploadInv, RegistrarTypes, StoreTypes, MinterTypes, UploadShipperTypes, PutTypes, PutSteps,
     UploadedStored, PresentStored, CompletedStored, ChainStored, GroupsUploaded, PartsTypes,
     PartsReceived, Uploads!Keys, Uploads!Parts

(* Whatever part runs, this one keeps its invariant.                       *)
LEMMA UploadAlways ==
  ASSUME UploadPart, [LifecycleNext]_partVars
  PROVE  UploadPart'
<1> SUFFICES ASSUME part' = "upload" PROVE UploadInv'
  BY DEF UploadPart
<1>1. part = "upload"
  BY DEF LifecycleNext, partVars
<1>2. UploadInv
  BY <1>1 DEF UploadPart
<1>3. CASE Uploads!UploadNext
  BY <1>2, <1>3, UploadStep
<1>4. CASE UNCHANGED <<w1, w2, w3, w4, w5, w6>>
  BY <1>2, <1>4, UploadStutters
<1> QED BY <1>1, <1>3, <1>4 DEF LifecycleNext, partVars, From1, From3, From4, From5, From6, From7,
     From8, From10, From12, From13, From15, From17

(* What the shipper marks uploaded, and so what a capture it registered    *)
(* names, is in the store whole, for any keys and parts, and whatever is   *)
(* lost, repeated, expired or taken over on the way (registrar.rs          *)
(* put_object, ship.rs mark_uploaded).                                     *)
THEOREM UploadCorrect == LifecycleSpec => []UploadedIsStored
<1>1. LifecycleInit => UploadPart
  BY UploadInitial DEF LifecycleInit, UploadPart
<1>2. UploadPart /\ [LifecycleNext]_partVars => UploadPart'
  BY UploadAlways
<1>3. UploadPart => UploadedIsStored
  BY UploadInvImplies DEF UploadedIsStored, UploadPart
<1> QED BY <1>1, <1>2, <1>3, PTL DEF LifecycleSpec

-------------------------------------------------------------------------------
(* Cadence: w1 to w19 are the variables of the cadence runner in the order *)
(* of its module.                                                          *)

SmallSteps == {"small", "small.wait", "small.end"}
BulkSteps == {"bulk", "bulk.yield", "bulk.lock", "bulk.build", "bulk.end"}
LoopSteps == {"top", "gone", "decide", "asleep"}
Giving == {"bulk.yield", "bulk.lock"}
SmallPlaces == LoopSteps \cup SmallSteps \cup {"repair"}
BulkPlaces == LoopSteps \cup BulkSteps
CallerPlaces == {"idle", "done"} \cup SmallSteps \cup BulkSteps
Places == SmallPlaces \cup BulkPlaces \cup CallerPlaces
PlaceOk(a, x) ==
  /\ a = "small" => x \in SmallPlaces
  /\ a = "bulk" => x \in BulkPlaces
  /\ a = "caller" => x \in CallerPlaces

(* The configuration is one of the table's, and an age is none or at most  *)
(* what the deadlines read.                                                *)
Clocks == [first : Int, last : Int, snap : Int]
ClockOk(c, k) ==
  /\ k.first \in -1 .. w12[c].max /\ k.last \in -1 .. w12[c].quiet
  /\ k.snap \in 0 .. Pace!Longest(c)
ClockTypes ==
  /\ w12 \in CadenceTable
  /\ w1 \in [Pace!Class -> Clocks]
  /\ \A c \in Pace!Class : ClockOk(c, w1[c])
ModeTypes ==
  /\ w2 \in [Pace!Class -> {"watched", "polled"}]
  /\ w3 \in [overflowed : BOOLEAN, repair : BOOLEAN, stop : BOOLEAN]
PlaceTypes == w4 \in [Pace!Actor -> Places] /\ \A a \in Pace!Actor : PlaceOk(a, w4[a])
LoopTypes ==
  /\ w5 \in [Pace!Loop -> [in : Nat, overflowed : BOOLEAN, repair : {FALSE}]]
  /\ w6 \subseteq Pace!Loop /\ w7 \in BOOLEAN
GhostTypes ==
  /\ w14 \in [Pace!Class -> Nat] /\ w15 \in [Pace!Class -> Nat] /\ w16 \in [Pace!Class -> Nat]
  /\ w17 \in [Pace!Class -> Nat] /\ w18 \in [Pace!Class -> Nat]
  /\ \A c \in Pace!Class : w14[c] <= w15[c] /\ w16[c] <= w15[c] /\ w17[c] <= w15[c]

(* The counts are of the snaps that are under way.                         *)
One(b) == IF b THEN 1 ELSE 0
CountsAre ==
  /\ w8 = One(w4["small"] \in {"small.wait", "small.end"}) + One(w4["caller"] \in {"small.wait", "small.end"})
  /\ w9 = One(w4["caller"] \in BulkSteps \ {"bulk"})

(* Who builds holds the engine, with units left to read.                   *)
EngineIs ==
  /\ w10 \in {"free"} \cup Pace!Actor
  /\ \A a \in Pace!Actor : w4[a] = "bulk.build" <=> w10 = a
BuildIs ==
  /\ w11 \in [listed : Nat, left : 0 .. BuildUnits] /\ w11.listed <= w15["bulk"]
  /\ w10 # "free" => w11.left > 0

(* A signalled change that no snap has taken or let go of.                 *)
Owed(c) == w16[c] > w17[c] /\ w16[c] > w18[c]

(* What was signalled since a build listed the class is on the clock, or   *)
(* another snap of the class is still to list it.                          *)
BuildCovers ==
  w10 # "free" /\ Owed("bulk") /\ w16["bulk"] > w11.listed =>
    w1["bulk"].first # Pace!None \/ \E a \in Pace!Actor : a # w10 /\ w4[a] \in Giving

(* What is owed is on the clock, or a snap is still to read it.            *)
Steps(c) == IF c = "small" THEN {"small.wait"} ELSE {"bulk.yield", "bulk.lock", "bulk.build"}
Reads(c) == \E a \in Pace!Actor : w4[a] \in Steps(c)
SignalledIs == \A c \in Pace!Class : Owed(c) => w1[c].first # Pace!None \/ Reads(c)

(* A loop that sleeps on sleeps no longer than its class allows.           *)
Left(c) == Pace!Larger(0, Pace!Due(c, w1[c], w2[c]))
SleepOk(c) ==
  w4[c] = "asleep" /\ c \notin w6 /\ ~w7 =>
    w5[c].in <= Left(c) /\ ~w3.stop /\ (c = "small" => ~w3.repair)
SleepIs == \A c \in Pace!Loop : SleepOk(c)

CadInv ==
  /\ ClockTypes
  /\ ModeTypes
  /\ PlaceTypes
  /\ LoopTypes
  /\ GhostTypes
  /\ CountsAre
  /\ EngineIs
  /\ BuildIs
  /\ BuildCovers
  /\ SignalledIs
  /\ SleepIs

Enters(c) == IF c = "small" THEN {"small.wait"} ELSE Giving

(* Who acts, and on which classes.                                         *)
LEMMA CadActors ==
  /\ Pace!Actor = {"small", "bulk", "caller"} /\ Pace!Class = {"small", "bulk"} /\ Pace!Loop = Pace!Class
  /\ \A c \in Pace!Class : c \in Pace!Actor /\ c \in Pace!Loop /\ c # "caller" /\ c # "free"
BY DEF Pace!Actor, Pace!Class, Pace!Loop

(* What the code says of the times of a class.                             *)
LEMMA CadConfig ==
  ASSUME ClockTypes
  PROVE  /\ \A c \in Pace!Class :
              /\ w12[c].quiet \in Nat /\ w12[c].quiet > 0 /\ w12[c].max \in Nat /\ w12[c].max > 0
              /\ w12[c].reconcile \in Nat /\ w12[c].reconcile > 0
              /\ Pace!Longest(c) \in Nat /\ Pace!Longest(c) >= w12[c].max
         /\ w12.captures \subseteq Pace!Class
         /\ w12.modes \subseteq [Pace!Class -> {"watched", "polled"}]
         /\ BuildUnits \in Nat /\ BuildUnits > 0
<1>1. w12 \in CadenceTable
  BY DEF ClockTypes
<1>2. \A c \in Pace!Class : {w12[c].quiet, w12[c].max, w12[c].reconcile} \subseteq Nat \ {0}
  BY <1>1, CadenceConstant DEF Pace!CadenceConstants
<1>3. \A c \in Pace!Class :
        /\ w12[c].quiet \in Nat /\ w12[c].quiet > 0 /\ w12[c].max \in Nat /\ w12[c].max > 0
        /\ w12[c].reconcile \in Nat /\ w12[c].reconcile > 0
  BY <1>2
<1>4. \A c \in Pace!Class : Pace!Longest(c) \in Nat /\ Pace!Longest(c) >= w12[c].max
  BY <1>3 DEF Pace!Longest, Pace!Larger
<1> QED BY <1>1, <1>3, <1>4, CadenceConstant DEF Pace!CadenceConstants

(* What moving one thread changes.                                         *)
LEMMA CadAt ==
  ASSUME PlaceTypes, NEW a \in Pace!Actor, NEW x \in Places, PlaceOk(a, x), w4' = [w4 EXCEPT ![a] = x]
  PROVE  PlaceTypes' /\ w4'[a] = x /\ \A b \in Pace!Actor : b # a => w4'[b] = w4[b]
<1>1. w4'[a] = x /\ \A b \in Pace!Actor : b # a => w4'[b] = w4[b]
  BY DEF PlaceTypes
<1>2. w4' \in [Pace!Actor -> Places]
  BY DEF PlaceTypes
<1>3. \A b \in Pace!Actor : PlaceOk(b, w4'[b])
  BY <1>1 DEF PlaceTypes
<1>4. PlaceTypes'
  BY <1>2, <1>3 DEF PlaceTypes, PlaceOk
<1> QED BY <1>1, <1>4

(* A loop whose class nothing changed sleeps as it did.                    *)
LEMMA CadSleeps ==
  ASSUME NEW c \in Pace!Loop, SleepOk(c), w12' = w12,
         w4'[c] = "asleep" /\ c \notin w6' /\ ~w7' =>
           /\ w4[c] = "asleep" /\ c \notin w6 /\ ~w7
           /\ w1'[c] = w1[c] /\ w2'[c] = w2[c] /\ w3' = w3 /\ w5'[c] = w5[c]
  PROVE  SleepOk(c)'
<1> SUFFICES ASSUME w4'[c] = "asleep" /\ c \notin w6' /\ ~w7'
             PROVE  w5'[c].in <= Left(c)' /\ ~w3'.stop /\ (c = "small" => ~w3'.repair)
  BY DEF SleepOk
<1>1. w5[c].in <= Left(c) /\ ~w3.stop /\ (c = "small" => ~w3.repair)
  BY DEF SleepOk
<1>2. Left(c)' = Left(c)
  BY DEF Left, Pace!Due, Pace!DueWatched
<1> QED BY <1>1, <1>2

(* What is owed stays covered where it is on the clock, a snap that is     *)
(* still to read it begins, or those that were to read it stay.            *)
LEMMA CadCovered ==
  ASSUME SignalledIs, BuildCovers, UNCHANGED <<w10, w11>>,
         \A c \in Pace!Class : Owed(c)' =>
           \/ w1'[c].first # Pace!None
           \/ \E a \in Pace!Actor : a # w10 /\ w4'[a] \in Enters(c)
           \/ /\ Owed(c) /\ w16'[c] = w16[c] /\ w1[c].first = Pace!None
              /\ \A b \in Pace!Actor : w4[b] \in Steps(c) => w4'[b] = w4[b]
  PROVE  SignalledIs' /\ BuildCovers'
<1>1. SignalledIs'
  <2> SUFFICES ASSUME NEW c \in Pace!Class, Owed(c)',
       w1'[c].first = Pace!None PROVE \E a \in Pace!Actor : w4'[a] \in Steps(c)
    BY DEF SignalledIs, Reads, Steps, Owed
  <2>1. CASE \E a \in Pace!Actor : a # w10 /\ w4'[a] \in Enters(c)
    BY <2>1 DEF Enters, Steps, Giving
  <2>2. CASE /\ Owed(c) /\ w16'[c] = w16[c] /\ w1[c].first = Pace!None
             /\ \A b \in Pace!Actor : w4[b] \in Steps(c) => w4'[b] = w4[b]
    BY <2>2 DEF SignalledIs, Reads
  <2> QED BY <2>1, <2>2
<1>2. BuildCovers'
  <2> SUFFICES ASSUME w10 # "free", Owed("bulk")', w16'["bulk"] > w11.listed, w1'["bulk"].first = Pace!None
               PROVE  \E a \in Pace!Actor : a # w10 /\ w4'[a] \in Giving
    BY DEF BuildCovers, Owed
  <2>0. "bulk" \in Pace!Class
    BY CadActors
  <2>1. CASE \E a \in Pace!Actor : a # w10 /\ w4'[a] \in Enters("bulk")
    BY <2>1 DEF Enters
  <2>2. CASE /\ Owed("bulk") /\ w16'["bulk"] = w16["bulk"] /\ w1["bulk"].first = Pace!None
             /\ \A b \in Pace!Actor : w4[b] \in Steps("bulk") => w4'[b] = w4[b]
    BY <2>2 DEF BuildCovers, Steps, Giving
  <2> QED BY <2>0, <2>1, <2>2
<1> QED BY <1>1, <1>2

(* What setting the clock of a class changes.                              *)
LEMMA CadClock ==
  ASSUME ClockTypes, w12' = w12, NEW c \in Pace!Class, NEW k \in Clocks, ClockOk(c, k),
         w1' = [w1 EXCEPT ![c] = k]
  PROVE  ClockTypes' /\ w1'[c] = k /\ \A d \in Pace!Class : d # c => w1'[d] = w1[d]
<1>1. w1'[c] = k /\ \A d \in Pace!Class : d # c => w1'[d] = w1[d]
  BY DEF ClockTypes
<1>2. w1' \in [Pace!Class -> Clocks]
  BY DEF ClockTypes
<1>3. \A d \in Pace!Class : ClockOk(d, w1'[d])
  BY <1>1 DEF ClockTypes
<1>4. \A d \in Pace!Class : ClockOk(d, w1[d])'
  BY <1>3 DEF ClockOk, Pace!Longest
<1> QED BY <1>1, <1>2, <1>4 DEF ClockTypes, Clocks

(* What a clock holds.                                                     *)
LEMMA CadAges ==
  ASSUME ClockTypes, NEW c \in Pace!Class
  PROVE  /\ w1[c] \in Clocks /\ w1[c].first \in Int /\ w1[c].last \in Int /\ w1[c].snap \in Int
         /\ w1[c].first \in -1 .. w12[c].max /\ w1[c].last \in -1 .. w12[c].quiet
         /\ w1[c].snap \in 0 .. Pace!Longest(c)
<1>1. w1[c] \in Clocks /\ ClockOk(c, w1[c])
  BY DEF ClockTypes
<1> QED BY <1>1 DEF Clocks, ClockOk

(* A clock made dirty has a first change.                                  *)
LEMMA CadDirty ==
  ASSUME ClockTypes, NEW c \in Pace!Class
  PROVE  Pace!Dirty(w1[c]) \in Clocks /\ ClockOk(c, Pace!Dirty(w1[c])) /\ Pace!Dirty(w1[c]).first # Pace!None
<1> DEFINE k == w1[c]
<1>1. /\ k \in Clocks /\ k.first \in -1 .. w12[c].max /\ k.snap \in 0 .. Pace!Longest(c)
      /\ w12[c].max \in Nat /\ w12[c].quiet \in Nat /\ Pace!Longest(c) \in Nat
  BY CadAges, CadConfig
<1> HIDE DEF k
<1>2. CASE k.first = Pace!None
  <2> DEFINE j == [k EXCEPT !.first = 0]
             i == [j EXCEPT !.last = 0]
  <2>1. Pace!Dirty(k) = i
    BY <1>2 DEF Pace!Dirty
  <2>0. k.first \in Int
    BY <1>1 DEF Clocks
  <2>3. j \in Clocks /\ j.first = 0 /\ j.snap = k.snap
    BY <1>1, <2>0 DEF Clocks
  <2> HIDE DEF j
  <2>4. i \in Clocks /\ i.first = 0 /\ i.last = 0 /\ i.snap = k.snap
    BY <2>3 DEF Clocks
  <2> HIDE DEF i
  <2>2. Pace!Dirty(k) \in Clocks /\ Pace!Dirty(k).first = 0 /\ Pace!Dirty(k).last = 0 /\ Pace!Dirty(k).snap = k.snap
    BY <2>1, <2>4
  <2> QED BY <1>1, <2>2 DEF ClockOk, Pace!None, k
<1>3. CASE k.first # Pace!None
  <2> DEFINE j == [k EXCEPT !.first = k.first]
             i == [j EXCEPT !.last = 0]
  <2>1. Pace!Dirty(k) = i
    BY <1>3 DEF Pace!Dirty
  <2>0. k.first \in Int
    BY <1>1 DEF Clocks
  <2>3. j \in Clocks /\ j.first = k.first /\ j.snap = k.snap
    BY <1>1, <2>0 DEF Clocks
  <2> HIDE DEF j
  <2>4. i \in Clocks /\ i.first = k.first /\ i.last = 0 /\ i.snap = k.snap
    BY <2>3 DEF Clocks
  <2> HIDE DEF i
  <2>2. Pace!Dirty(k) \in Clocks /\ Pace!Dirty(k).first = k.first /\ Pace!Dirty(k).last = 0 /\ Pace!Dirty(k).snap = k.snap
    BY <2>1, <2>4
  <2> QED BY <1>1, <1>3, <2>2 DEF ClockOk, Pace!None, k
<1> QED BY <1>2, <1>3

(* What setting the age of the last snap changes.                          *)
LEMMA CadSnap ==
  ASSUME ClockTypes, NEW c \in Pace!Class, NEW n \in 0 .. Pace!Longest(c), NEW k,
       k = [w1[c] EXCEPT !.snap = n]
  PROVE  k \in Clocks /\ ClockOk(c, k) /\ k.first = w1[c].first /\ k.last = w1[c].last /\ k.snap = n
<1>1. /\ w1[c] \in Clocks /\ w1[c].first \in -1 .. w12[c].max /\ w1[c].last \in -1 .. w12[c].quiet
      /\ Pace!Longest(c) \in Nat
  BY CadAges, CadConfig
<1>2. k \in Clocks /\ k.first = w1[c].first /\ k.last = w1[c].last /\ k.snap = n
  BY <1>1 DEF Clocks
<1> QED BY <1>1, <1>2 DEF ClockOk

(* A cleared clock has no change.                                          *)
LEMMA CadClear ==
  ASSUME ClockTypes, NEW c \in Pace!Class
  PROVE  /\ Pace!Clear(w1[c]) \in Clocks /\ ClockOk(c,
                                            Pace!Clear(w1[c])) /\ Pace!Clear(w1[c]).first = Pace!None
         /\ Pace!Clear(w1[c]).snap = w1[c].snap
         /\ [Pace!Clear(w1[c]) EXCEPT !.snap = 0] \in Clocks
         /\ ClockOk(c, [Pace!Clear(w1[c]) EXCEPT !.snap = 0])
<1> DEFINE k == Pace!Clear(w1[c])
           z == [k EXCEPT !.snap = 0]
<1>1. /\ w1[c] \in Clocks /\ w1[c].snap \in 0 .. Pace!Longest(c) /\ Pace!Longest(c) \in Nat
      /\ w12[c].max \in Nat /\ w12[c].quiet \in Nat
  BY CadAges, CadConfig
<1>2. k \in Clocks /\ k.first = -1 /\ k.last = -1 /\ k.snap = w1[c].snap
  <2> DEFINE o == w1[c]
             j == [o EXCEPT !.first = -1]
             i == [j EXCEPT !.last = -1]
  <2>1. k = i
    BY DEF Pace!Clear, Pace!None
  <2> HIDE DEF o
  <2>2. j \in Clocks /\ j.first = -1 /\ j.snap = o.snap
    BY <1>1 DEF Clocks, o
  <2> HIDE DEF j
  <2>3. i \in Clocks /\ i.first = -1 /\ i.last = -1 /\ i.snap = o.snap
    BY <2>2 DEF Clocks
  <2> HIDE DEF i, k
  <2> QED BY <2>1, <2>3 DEF o
<1> HIDE DEF k
<1>3. z \in Clocks /\ z.first = -1 /\ z.last = -1 /\ z.snap = 0
  BY <1>2 DEF Clocks
<1> HIDE DEF z
<1>4. ClockOk(c, k) /\ ClockOk(c, z)
  BY <1>1, <1>2, <1>3 DEF ClockOk
<1> QED BY <1>2, <1>3, <1>4 DEF k, z, Pace!None

(* A cleared clock is due no earlier.                                      *)
LEMMA CadLater ==
  ASSUME ClockTypes, ModeTypes, NEW c \in Pace!Class
  PROVE  /\ Left(c) \in Int /\ Left(c) >= 0
         /\ Left(c) <= Pace!Larger(0, Pace!Due(c, Pace!Clear(w1[c]), w2[c]))
<1> DEFINE k == Pace!Clear(w1[c])
<1>1. /\ w1[c].first \in Int /\ w1[c].last \in Int /\ w1[c].snap \in Int
      /\ w12[c].max \in Nat /\ w12[c].quiet \in Nat /\ w12[c].reconcile \in Nat
      /\ k.first = Pace!None /\ k.snap = w1[c].snap
  BY CadAges, CadConfig, CadClear
<1> HIDE DEF k
<1>2. /\ Pace!DueWatched(c, w1[c]) \in Int /\ Pace!DueWatched(c, k) \in Int
      /\ Pace!DueWatched(c, w1[c]) <= Pace!DueWatched(c, k)
  BY <1>1 DEF Pace!DueWatched, Pace!Smaller
<1>3. /\ Pace!Due(c, w1[c], w2[c]) \in Int /\ Pace!Due(c, k, w2[c]) \in Int
      /\ Pace!Due(c, w1[c], w2[c]) <= Pace!Due(c, k, w2[c])
  BY <1>1, <1>2 DEF Pace!Due, Pace!Smaller
<1> QED BY <1>3 DEF Left, Pace!Larger, k

(* What the counts of writes are.                                          *)
LEMMA CadGhosts ==
  ASSUME GhostTypes, NEW c \in Pace!Class
  PROVE  /\ w14[c] \in Nat /\ w15[c] \in Nat /\ w16[c] \in Nat /\ w17[c] \in Nat /\ w18[c] \in Nat
         /\ w14[c] <= w15[c] /\ w16[c] <= w15[c] /\ w17[c] <= w15[c]
BY DEF GhostTypes

(* The same of the next state.                                             *)
LEMMA CadNext ==
  ASSUME ClockTypes', NEW c \in Pace!Class
  PROVE  Left(c)' \in Int
<1>1. /\ w12' \in CadenceTable /\ w1'[c] \in [first : Int, last : Int, snap : Int]
  BY DEF ClockTypes, Clocks
<1>2. {w12'[c].quiet, w12'[c].max, w12'[c].reconcile} \subseteq Nat \ {0}
  BY <1>1, CadenceConstant DEF Pace!CadenceConstants
<1>3. /\ w12'[c].quiet \in Int /\ w12'[c].max \in Int /\ w12'[c].reconcile \in Int
      /\ w1'[c].first \in Int /\ w1'[c].last \in Int /\ w1'[c].snap \in Int
  BY <1>1, <1>2
<1> QED BY <1>3 DEF Left, Pace!Due, Pace!DueWatched, Pace!Smaller, Pace!Larger

(* Tick keeps the invariant.                                               *)
LEMMA CadTick ==
  ASSUME CadInv, Pace!Tick
  PROVE  CadInv'
<1>0. /\ ClockTypes /\ ModeTypes /\ PlaceTypes /\ LoopTypes /\ GhostTypes /\ CountsAre
      /\ EngineIs /\ BuildIs /\ BuildCovers /\ SignalledIs /\ SleepIs
  BY DEF CadInv
<1>a. /\ w1' = [c \in Pace!Class |-> IF c \in w12.captures THEN Pace!Older(c, w1[c]) ELSE w1[c]]
      /\ w5' = [c \in Pace!Loop |-> [w5[c] EXCEPT !.in = Pace!Larger(0, w5[c].in - 1)]]
      /\ UNCHANGED <<w2, w3, w4, w6, w7, w10, w11, w12, w16, w17, w18>>
  BY DEF Pace!Tick
<1>b. ASSUME NEW c \in Pace!Class
      PROVE  /\ w1'[c] \in Clocks /\ ClockOk(c,
                                     w1'[c]) /\ (w1[c].first # Pace!None => w1'[c].first # Pace!None)
             /\ Pace!Larger(0, Pace!Due(c, w1[c], w2[c])) <= Pace!Larger(0, Pace!Due(c, w1'[c], w2[c])) + 1
  <2> DEFINE k == w1[c]
             o == w1'[c]
  <2>1. /\ k \in Clocks /\ k.first \in -1 .. w12[c].max /\ k.last \in -1 .. w12[c].quiet
        /\ k.snap \in 0 .. Pace!Longest(c) /\ Pace!Longest(c) \in Nat /\ Pace!Longest(c) >= w12[c].max
        /\ w12[c].max \in Nat /\ w12[c].quiet \in Nat /\ w12[c].reconcile \in Nat /\ w12[c].max > 0
        /\ k.first \in Int /\ k.last \in Int /\ k.snap \in Int
    BY <1>0, CadAges, CadConfig
  <2>2. o = k \/ o = Pace!Older(c, k)
    BY <1>a
  <2> HIDE DEF k, o
  <2>3. CASE o = k
    <3>1. ClockOk(c, o) /\ o \in Clocks
      BY <2>1, <2>3 DEF ClockOk
    <3>2. Pace!DueWatched(c, k) \in Int /\ Pace!Due(c, k, w2[c]) \in Int
      BY <2>1 DEF Pace!DueWatched, Pace!Due, Pace!Smaller
    <3> QED BY <2>3, <3>1, <3>2 DEF k, o, Pace!Larger
  <2>4. CASE o = Pace!Older(c, k)
    <3>1. /\ o.first = IF k.first = Pace!None THEN Pace!None ELSE Pace!Smaller(k.first + 1, w12[c].max)
          /\ o.last = IF k.last = Pace!None THEN Pace!None ELSE Pace!Smaller(k.last + 1, w12[c].quiet)
          /\ o.snap = Pace!Smaller(k.snap + 1, Pace!Longest(c))
      BY <2>4 DEF Pace!Older
    <3>2. /\ o.first \in -1 .. w12[c].max /\ o.last \in -1 .. w12[c].quiet
          /\ o.snap \in 0 .. Pace!Longest(c)
          /\ (k.first # Pace!None <=> o.first # Pace!None) /\ o.first <= k.first + 1
          /\ o.last <= k.last + 1 /\ o.snap <= k.snap + 1
      BY <2>1, <3>1 DEF Pace!Smaller, Pace!None
    <3>3. o.first \in Int /\ o.last \in Int /\ o.snap \in Int
      BY <2>1, <3>2
    <3>4. o \in Clocks /\ ClockOk(c, o)
      <4>1. o = [first |-> o.first, last |-> o.last, snap |-> o.snap]
        BY <2>4 DEF Pace!Older
      <4>2. o \in Clocks
        BY <3>3, <4>1 DEF Clocks
      <4> QED BY <3>2, <4>2 DEF ClockOk
    <3>5. /\ Pace!DueWatched(c, k) \in Int /\ Pace!DueWatched(c, o) \in Int
          /\ Pace!DueWatched(c, k) <= Pace!DueWatched(c, o) + 1
      BY <2>1, <3>2, <3>3 DEF Pace!DueWatched, Pace!Smaller
    <3>6. /\ Pace!Due(c, k, w2[c]) \in Int /\ Pace!Due(c, o, w2[c]) \in Int
          /\ Pace!Due(c, k, w2[c]) <= Pace!Due(c, o, w2[c]) + 1
      BY <2>1, <3>2, <3>3, <3>5 DEF Pace!Due, Pace!Smaller
    <3>7. Pace!Larger(0, Pace!Due(c, k, w2[c])) <= Pace!Larger(0, Pace!Due(c, o, w2[c])) + 1
      BY <3>6 DEF Pace!Larger
    <3> QED BY <3>2, <3>4, <3>7 DEF k, o
  <2> QED BY <2>2, <2>3, <2>4
<1>h. SignalledIs' /\ BuildCovers'
  <2> SUFFICES ASSUME NEW d \in Pace!Class, Owed(d)'
               PROVE  \/ w1'[d].first # Pace!None
                      \/ \E b \in Pace!Actor : b # w10 /\ w4'[b] \in Enters(d)
                      \/ /\ Owed(d) /\ w16'[d] = w16[d] /\ w1[d].first = Pace!None
                         /\ \A b \in Pace!Actor : w4[b] \in Steps(d) => w4'[b] = w4[b]
    BY <1>0, <1>a, CadCovered
  <2> QED BY <1>a, <1>b DEF Owed
<1>1. ClockTypes'
  <2>1. w1' \in [Pace!Class -> Clocks]
    BY <1>a, <1>b
  <2>2. \A c \in Pace!Class : ClockOk(c, w1[c])'
    BY <1>a, <1>b DEF ClockOk, Pace!Longest
  <2> QED BY <1>0, <1>a, <2>1, <2>2 DEF ClockTypes, Clocks
<1>2. LoopTypes'
  <2>1. ASSUME NEW c \in Pace!Loop PROVE [w5[c] EXCEPT !.in = Pace!Larger(0,
       w5[c].in - 1)] \in [in : Nat, overflowed : BOOLEAN, repair : {FALSE}]
    <3> DEFINE s == w5[c]
    <3>1. s \in [in : Nat, overflowed : BOOLEAN, repair : {FALSE}]
      BY <1>0 DEF LoopTypes
    <3> HIDE DEF s
    <3>2. Pace!Larger(0, s.in - 1) \in Nat
      BY <3>1 DEF Pace!Larger
    <3>3. [s EXCEPT !.in = Pace!Larger(0, s.in - 1)] \in [in : Nat, overflowed : BOOLEAN, repair : {FALSE}]
      BY <3>1, <3>2
    <3> QED BY <3>3 DEF s
  <2>2. w5' \in [Pace!Loop -> [in : Nat, overflowed : BOOLEAN, repair : {FALSE}]]
    BY <1>a, <2>1
  <2> QED BY <1>0, <1>a, <2>2 DEF LoopTypes
<1>3. SleepIs'
  <2> SUFFICES ASSUME NEW d \in Pace!Loop PROVE SleepOk(d)'
    BY DEF SleepIs
  <2>1. SleepOk(d)
    BY <1>0 DEF SleepIs
  <2> SUFFICES ASSUME w4[d] = "asleep" /\ d \notin w6 /\ ~w7
               PROVE  w5'[d].in <= Left(d)'
    BY <1>a, <2>1 DEF SleepOk
  <2>2. w5[d].in <= Left(d) /\ w5[d].in \in Nat
    BY <1>0, <2>1 DEF SleepOk, LoopTypes
  <2>3. w5'[d].in = Pace!Larger(0, w5[d].in - 1)
    <3>1. /\ w5'[d] = [w5[d] EXCEPT !.in = Pace!Larger(0, w5[d].in - 1)]
          /\ w5[d] \in [in : Nat, overflowed : BOOLEAN, repair : {FALSE}]
      BY <1>0, <1>a DEF LoopTypes
    <3> QED BY <3>1
  <2>4. d \in Pace!Class /\ Left(d) \in Int /\ Left(d)' \in Int /\ Left(d)' >= 0 /\ Left(d) <= Left(d)' + 1
    <3>1. d \in Pace!Class /\ Left(d) \in Int
      BY <1>0, CadActors, CadLater
    <3>2. Left(d)' = Pace!Larger(0, Pace!Due(d, w1'[d], w2[d]))
      BY <1>a DEF Left, Pace!Due, Pace!DueWatched
    <3>3. Left(d)' \in Int /\ Left(d)' >= 0
      <4>1. Pace!Due(d, w1'[d], w2[d]) \in Int
        <5>1. w1'[d].first \in Int /\ w1'[d].last \in Int /\ w1'[d].snap \in Int
          BY <1>b, <3>1 DEF Clocks
        <5>2. w12[d].max \in Nat /\ w12[d].quiet \in Nat /\ w12[d].reconcile \in Nat
          BY <1>0, <3>1, CadConfig
        <5> QED BY <5>1, <5>2 DEF Pace!Due, Pace!DueWatched, Pace!Smaller
      <4> QED BY <3>2, <4>1 DEF Pace!Larger
    <3> QED BY <1>b, <3>1, <3>2, <3>3 DEF Left
  <2> QED BY <2>2, <2>3, <2>4 DEF Pace!Larger
<1>4. ModeTypes' /\ PlaceTypes' /\ GhostTypes' /\ CountsAre' /\ EngineIs' /\ BuildIs'
  BY <1>0 DEF Pace!Tick, ModeTypes, PlaceTypes, GhostTypes, CountsAre, EngineIs, BuildIs
<1> QED BY <1>1, <1>2, <1>h, <1>3, <1>4 DEF CadInv

(* Notify keeps the invariant.                                             *)
LEMMA CadNotify ==
  ASSUME CadInv, Pace!Notify
  PROVE  CadInv'
<1>0. /\ ClockTypes /\ ModeTypes /\ PlaceTypes /\ LoopTypes /\ GhostTypes /\ CountsAre
      /\ EngineIs /\ BuildIs /\ BuildCovers /\ SignalledIs /\ SleepIs
  BY DEF CadInv
<1>1. LoopTypes'
  BY <1>0, CadConfig DEF Pace!Notify, LoopTypes, Pace!Loop, Pace!Class
<1>2. SleepIs'
  BY DEF Pace!Notify, SleepIs, SleepOk
<1>3. /\ ClockTypes' /\ ModeTypes' /\ PlaceTypes' /\ GhostTypes' /\ CountsAre' /\ EngineIs'
      /\ BuildIs' /\ BuildCovers' /\ SignalledIs'
  BY <1>0 DEF Pace!Notify, ClockTypes, ModeTypes, PlaceTypes, GhostTypes, CountsAre, EngineIs, BuildIs,
       BuildCovers, SignalledIs, ClockOk, Pace!Longest, Owed, Reads, Steps
<1> QED BY <1>1, <1>2, <1>3 DEF CadInv

(* SignalOverflow keeps the invariant.                                     *)
LEMMA CadSignalOverflow ==
  ASSUME CadInv, Pace!SignalOverflow
  PROVE  CadInv'
<1>0. /\ ClockTypes /\ ModeTypes /\ PlaceTypes /\ LoopTypes /\ GhostTypes /\ CountsAre
      /\ EngineIs /\ BuildIs /\ BuildCovers /\ SignalledIs /\ SleepIs
  BY DEF CadInv
<1>a. w7' /\ UNCHANGED <<w4, w5, w6, w10, w11, w12, w15, w16, w17, w18>>
  BY DEF Pace!SignalOverflow, Pace!SignalRest
<1>b. /\ w1' = [c \in Pace!Class |-> [w1[c] EXCEPT !.snap = Pace!Larger(w1[c].snap, w12[c].max)]]
  BY DEF Pace!SignalOverflow
<1>c. ASSUME NEW c \in Pace!Class
      PROVE  w1'[c] \in Clocks /\ ClockOk(c, w1'[c]) /\ w1'[c].first = w1[c].first
  <2>1. Pace!Larger(w1[c].snap, w12[c].max) \in 0 .. Pace!Longest(c)
    BY <1>0, CadAges, CadConfig DEF Pace!Larger
  <2> QED BY <1>0, <1>b, <2>1, CadSnap
<1>h. SignalledIs' /\ BuildCovers'
  <2> SUFFICES ASSUME NEW d \in Pace!Class, Owed(d)'
               PROVE  \/ w1'[d].first # Pace!None
                      \/ \E b \in Pace!Actor : b # w10 /\ w4'[b] \in Enters(d)
                      \/ /\ Owed(d) /\ w16'[d] = w16[d] /\ w1[d].first = Pace!None
                         /\ \A b \in Pace!Actor : w4[b] \in Steps(d) => w4'[b] = w4[b]
    BY <1>0, <1>a, CadCovered
  <2> QED BY <1>a, <1>c DEF Owed
<1>1. ClockTypes'
  <2>1. w1' \in [Pace!Class -> Clocks]
    BY <1>b, <1>c
  <2>2. \A c \in Pace!Class : ClockOk(c, w1[c])'
    BY <1>a, <1>c DEF ClockOk, Pace!Longest
  <2> QED BY <1>0, <1>a, <2>1, <2>2 DEF ClockTypes, Clocks
<1>2. ModeTypes'
  BY <1>0, CadConfig DEF Pace!SignalOverflow, Pace!SignalRest, ModeTypes
<1>3. LoopTypes'
  BY <1>0, CadConfig DEF Pace!SignalOverflow, Pace!SignalRest, LoopTypes, Pace!Loop, Pace!Class
<1>4. GhostTypes'
  BY <1>0, CadConfig DEF Pace!SignalOverflow, Pace!SignalRest, GhostTypes, Pace!Class
<1>5. SleepIs'
  BY <1>a DEF SleepIs, SleepOk
<1>6. PlaceTypes' /\ CountsAre' /\ EngineIs' /\ BuildIs'
  BY <1>0 DEF Pace!SignalOverflow, Pace!SignalRest, PlaceTypes, CountsAre, EngineIs, BuildIs
<1> QED BY <1>1, <1>2, <1>3, <1>4, <1>h, <1>5, <1>6 DEF CadInv

(* AskRepair keeps the invariant.                                          *)
LEMMA CadAskRepair ==
  ASSUME CadInv, Pace!AskRepair
  PROVE  CadInv'
<1>0. /\ ClockTypes /\ ModeTypes /\ PlaceTypes /\ LoopTypes /\ GhostTypes /\ CountsAre
      /\ EngineIs /\ BuildIs /\ BuildCovers /\ SignalledIs /\ SleepIs
  BY DEF CadInv
<1>a. w7' /\ UNCHANGED <<w1, w2, w4, w5, w6, w10, w11, w12, w16, w17, w18>>
  BY DEF Pace!AskRepair, Pace!SignalRest
<1>1. ModeTypes'
  BY <1>0, CadConfig DEF Pace!AskRepair, Pace!SignalRest, ModeTypes
<1>2. LoopTypes'
  BY <1>0, CadConfig DEF Pace!AskRepair, Pace!SignalRest, LoopTypes, Pace!Loop, Pace!Class
<1>3. SleepIs'
  BY <1>a DEF SleepIs, SleepOk
<1>4. /\ ClockTypes' /\ PlaceTypes' /\ GhostTypes' /\ CountsAre' /\ EngineIs' /\ BuildIs'
      /\ BuildCovers' /\ SignalledIs'
  BY <1>0 DEF Pace!AskRepair, Pace!SignalRest, ClockTypes, PlaceTypes, GhostTypes, CountsAre, EngineIs,
       BuildIs, BuildCovers, SignalledIs, ClockOk, Pace!Longest, Owed, Reads, Steps
<1> QED BY <1>1, <1>2, <1>3, <1>4 DEF CadInv

(* Admission keeps the invariant.                                          *)
LEMMA CadAdmission ==
  ASSUME CadInv, Pace!Admission
  PROVE  CadInv'
<1>0. /\ ClockTypes /\ ModeTypes /\ PlaceTypes /\ LoopTypes /\ GhostTypes /\ CountsAre
      /\ EngineIs /\ BuildIs /\ BuildCovers /\ SignalledIs /\ SleepIs
  BY DEF CadInv
<1>1. /\ ClockTypes' /\ ModeTypes' /\ PlaceTypes' /\ LoopTypes' /\ GhostTypes' /\ CountsAre'
      /\ EngineIs' /\ BuildIs' /\ BuildCovers' /\ SignalledIs' /\ SleepIs'
  BY <1>0 DEF Pace!Admission, ClockTypes, ModeTypes, PlaceTypes, LoopTypes, GhostTypes, CountsAre,
       EngineIs, BuildIs, BuildCovers, SignalledIs, SleepIs, ClockOk, Pace!Longest, Owed, Reads, Steps,
       SleepOk, Left, Pace!Due, Pace!DueWatched
<1> QED BY <1>1 DEF CadInv

(* ForceSnaps keeps the invariant.                                         *)
LEMMA CadForceSnaps ==
  ASSUME CadInv, Pace!ForceSnaps
  PROVE  CadInv'
<1>0. /\ ClockTypes /\ ModeTypes /\ PlaceTypes /\ LoopTypes /\ GhostTypes /\ CountsAre
      /\ EngineIs /\ BuildIs /\ BuildCovers /\ SignalledIs /\ SleepIs
  BY DEF CadInv
<1>a. /\ w4["caller"] = "idle"
      /\ w4' = [w4 EXCEPT !["caller"] = "small"]
      /\ UNCHANGED <<w1, w2, w3, w5, w6, w7, w8, w9, w10, w11, w12, w16, w17, w18>>
  BY DEF Pace!ForceSnaps, Pace!SnapRest
<1>b. /\ "caller" \in Pace!Actor
      /\ "small" \in Places
      /\ PlaceOk("caller", "small")
  BY <1>0, <1>a, CadActors DEF PlaceTypes, Pace!After, Places, PlaceOk, SmallPlaces, BulkPlaces,
       CallerPlaces, LoopSteps, SmallSteps, BulkSteps
<1>c. PlaceTypes' /\ w4'["caller"] = "small" /\ \A b \in Pace!Actor : b # "caller" => w4'[b] = w4[b]
  BY <1>0, <1>a, <1>b, CadAt
<1>h. SignalledIs' /\ BuildCovers'
  <2> SUFFICES ASSUME NEW d \in Pace!Class, Owed(d)'
               PROVE  \/ w1'[d].first # Pace!None
                      \/ \E b \in Pace!Actor : b # w10 /\ w4'[b] \in Enters(d)
                      \/ /\ Owed(d) /\ w16'[d] = w16[d] /\ w1[d].first = Pace!None
                         /\ \A b \in Pace!Actor : w4[b] \in Steps(d) => w4'[b] = w4[b]
    BY <1>0, <1>a, CadCovered
  <2> QED BY <1>a, <1>c DEF Owed, Steps
<1>1. CountsAre'
  BY <1>0, <1>a, <1>b, <1>c, CadActors DEF CountsAre, One, BulkSteps
<1>2. EngineIs'
  BY <1>0, <1>a, <1>b, <1>c DEF EngineIs
<1>3. SleepIs'
  <2> SUFFICES ASSUME NEW d \in Pace!Loop PROVE SleepOk(d)'
    BY DEF SleepIs
  <2>1. SleepOk(d)
    BY <1>0 DEF SleepIs
  <2> QED BY <2>1, CadSleeps, <1>a, <1>c, CadActors
<1>4. ClockTypes' /\ ModeTypes' /\ LoopTypes' /\ GhostTypes' /\ BuildIs'
  BY <1>0 DEF Pace!ForceSnaps, Pace!SnapRest, ClockTypes, ModeTypes, LoopTypes, GhostTypes, BuildIs,
       ClockOk, Pace!Longest
<1> QED BY <1>c, <1>1, <1>2, <1>h, <1>3, <1>4 DEF CadInv

(* Stop keeps the invariant.                                               *)
LEMMA CadStop ==
  ASSUME CadInv, Pace!Stop
  PROVE  CadInv'
<1>0. /\ ClockTypes /\ ModeTypes /\ PlaceTypes /\ LoopTypes /\ GhostTypes /\ CountsAre
      /\ EngineIs /\ BuildIs /\ BuildCovers /\ SignalledIs /\ SleepIs
  BY DEF CadInv
<1>a. w7' /\ UNCHANGED <<w1, w2, w4, w5, w6, w10, w11, w12, w16, w17, w18>>
  BY DEF Pace!Stop, Pace!SignalRest
<1>1. ModeTypes'
  BY <1>0, CadConfig DEF Pace!Stop, Pace!SignalRest, ModeTypes
<1>2. LoopTypes'
  BY <1>0, CadConfig DEF Pace!Stop, Pace!SignalRest, LoopTypes, Pace!Loop, Pace!Class
<1>3. SleepIs'
  BY <1>a DEF SleepIs, SleepOk
<1>4. /\ ClockTypes' /\ PlaceTypes' /\ GhostTypes' /\ CountsAre' /\ EngineIs' /\ BuildIs'
      /\ BuildCovers' /\ SignalledIs'
  BY <1>0 DEF Pace!Stop, Pace!SignalRest, ClockTypes, PlaceTypes, GhostTypes, CountsAre, EngineIs,
       BuildIs, BuildCovers, SignalledIs, ClockOk, Pace!Longest, Owed, Reads, Steps
<1> QED BY <1>1, <1>2, <1>3, <1>4 DEF CadInv

(* Write keeps the invariant.                                              *)
LEMMA CadWrite ==
  ASSUME CadInv, NEW c \in Pace!Class, Pace!Write(c)
  PROVE  CadInv'
<1>0. /\ ClockTypes /\ ModeTypes /\ PlaceTypes /\ LoopTypes /\ GhostTypes /\ CountsAre
      /\ EngineIs /\ BuildIs /\ BuildCovers /\ SignalledIs /\ SleepIs
  BY DEF CadInv
<1>1. GhostTypes'
  BY <1>0, CadConfig DEF Pace!Write, GhostTypes, Pace!Class
<1>2. BuildIs'
  <2>1. w15["bulk"] \in Nat /\ w15' = [w15 EXCEPT ![c] = w15[c] + 1] /\ UNCHANGED <<w11, w10>>
    BY <1>0, CadGhosts, CadActors DEF Pace!Write
  <2>2. w15'["bulk"] \in Nat /\ w15'["bulk"] >= w15["bulk"]
    BY <1>0, <2>1, CadActors DEF GhostTypes
  <2>3. w11.listed \in Nat
    BY <1>0 DEF BuildIs
  <2> QED BY <1>0, <2>1, <2>2, <2>3 DEF BuildIs
<1>3. /\ ClockTypes' /\ ModeTypes' /\ PlaceTypes' /\ LoopTypes' /\ CountsAre' /\ EngineIs'
      /\ BuildCovers' /\ SignalledIs' /\ SleepIs'
  BY <1>0 DEF Pace!Write, ClockTypes, ModeTypes, PlaceTypes, LoopTypes, CountsAre, EngineIs,
       BuildCovers, SignalledIs, SleepIs, ClockOk, Pace!Longest, Owed, Reads, Steps, SleepOk, Left,
       Pace!Due, Pace!DueWatched
<1> QED BY <1>1, <1>2, <1>3 DEF CadInv

(* SignalChanged keeps the invariant.                                      *)
LEMMA CadSignalChanged ==
  ASSUME CadInv, NEW c \in Pace!Class, Pace!SignalChanged(c)
  PROVE  CadInv'
<1>0. /\ ClockTypes /\ ModeTypes /\ PlaceTypes /\ LoopTypes /\ GhostTypes /\ CountsAre
      /\ EngineIs /\ BuildIs /\ BuildCovers /\ SignalledIs /\ SleepIs
  BY DEF CadInv
<1>a. w7' /\ UNCHANGED <<w2, w3, w4, w5, w6, w10, w11, w12, w15, w17, w18>>
  BY DEF Pace!SignalChanged, Pace!SignalRest
<1>b. w1' = [w1 EXCEPT ![c] = Pace!Dirty(w1[c])] /\ c \in Pace!Class
  BY DEF Pace!SignalChanged
<1>c. ClockTypes' /\ w1'[c].first # Pace!None /\ \A d \in Pace!Class : d # c => w1'[d] = w1[d]
  <2> DEFINE k == Pace!Dirty(w1[c])
  <2>1. k \in Clocks /\ ClockOk(c, k) /\ k.first # Pace!None
    BY <1>0, <1>b, CadDirty
  <2>2. w1' = [w1 EXCEPT ![c] = k]
    BY <1>b
  <2> HIDE DEF k
  <2> QED BY <1>0, <1>a, <1>b, <2>1, <2>2, CadClock
<1>d. w16' = [w16 EXCEPT ![c] = Pace!Larger(w16[c], w14[c])] /\ w14' = [w14 EXCEPT ![c] = 0]
  BY DEF Pace!SignalChanged
<1>e. \A d \in Pace!Class : d # c => w16'[d] = w16[d]
  BY <1>0, <1>d DEF GhostTypes
<1>h. SignalledIs' /\ BuildCovers'
  <2> SUFFICES ASSUME NEW d \in Pace!Class, Owed(d)'
               PROVE  \/ w1'[d].first # Pace!None
                      \/ \E b \in Pace!Actor : b # w10 /\ w4'[b] \in Enters(d)
                      \/ /\ Owed(d) /\ w16'[d] = w16[d] /\ w1[d].first = Pace!None
                         /\ \A b \in Pace!Actor : w4[b] \in Steps(d) => w4'[b] = w4[b]
    BY <1>0, <1>a, CadCovered
  <2> QED BY <1>a, <1>c, <1>e DEF Owed
<1>1. LoopTypes'
  BY <1>0, CadConfig DEF Pace!SignalChanged, Pace!SignalRest, LoopTypes, Pace!Loop, Pace!Class
<1>2. GhostTypes'
  <2>1. \A d \in Pace!Class : /\ w14[d] \in Nat /\ w15[d] \in Nat /\ w16[d] \in Nat /\ w17[d] \in Nat /\ w18[d] \in Nat
                         /\ w14[d] <= w15[d] /\ w16[d] <= w15[d] /\ w17[d] <= w15[d]
    BY <1>0, CadGhosts
  <2>2. Pace!Larger(w16[c], w14[c]) \in Nat /\ Pace!Larger(w16[c], w14[c]) <= w15[c]
    BY <2>1 DEF Pace!Larger
  <2> QED BY <1>0, <1>a, <1>d, <2>1, <2>2 DEF GhostTypes
<1>3. SleepIs'
  BY <1>a DEF SleepIs, SleepOk
<1>4. ModeTypes' /\ PlaceTypes' /\ CountsAre' /\ EngineIs' /\ BuildIs'
  BY <1>0 DEF Pace!SignalChanged, Pace!SignalRest, ModeTypes, PlaceTypes, CountsAre, EngineIs, BuildIs
<1> QED BY <1>c, <1>1, <1>2, <1>h, <1>3, <1>4 DEF CadInv

(* SignalUnwatched keeps the invariant.                                    *)
LEMMA CadSignalUnwatched ==
  ASSUME CadInv, NEW c \in Pace!Class, Pace!SignalUnwatched(c)
  PROVE  CadInv'
<1>0. /\ ClockTypes /\ ModeTypes /\ PlaceTypes /\ LoopTypes /\ GhostTypes /\ CountsAre
      /\ EngineIs /\ BuildIs /\ BuildCovers /\ SignalledIs /\ SleepIs
  BY DEF CadInv
<1>a. w7' /\ UNCHANGED <<w3, w4, w5, w6, w10, w11, w12, w14, w15, w16, w17, w18>>
  BY DEF Pace!SignalUnwatched, Pace!SignalRest
<1>b. w1' = [w1 EXCEPT ![c] = [w1[c] EXCEPT !.snap = Pace!Larger(w1[c].snap, w12[c].max)]]
  BY DEF Pace!SignalUnwatched
<1>c. ClockTypes' /\ \A d \in Pace!Class : w1'[d].first = w1[d].first
  <2> DEFINE k == [w1[c] EXCEPT !.snap = Pace!Larger(w1[c].snap, w12[c].max)]
  <2>1. Pace!Larger(w1[c].snap, w12[c].max) \in 0 .. Pace!Longest(c)
    BY <1>0, CadAges, CadConfig DEF Pace!Larger
  <2>2. k \in Clocks /\ ClockOk(c, k) /\ k.first = w1[c].first
    BY <1>0, <2>1, CadSnap
  <2>3. w1' = [w1 EXCEPT ![c] = k]
    BY <1>b
  <2> HIDE DEF k
  <2> QED BY <1>0, <1>a, <2>2, <2>3, CadClock
<1>h. SignalledIs' /\ BuildCovers'
  <2> SUFFICES ASSUME NEW d \in Pace!Class, Owed(d)'
               PROVE  \/ w1'[d].first # Pace!None
                      \/ \E b \in Pace!Actor : b # w10 /\ w4'[b] \in Enters(d)
                      \/ /\ Owed(d) /\ w16'[d] = w16[d] /\ w1[d].first = Pace!None
                         /\ \A b \in Pace!Actor : w4[b] \in Steps(d) => w4'[b] = w4[b]
    BY <1>0, <1>a, CadCovered
  <2> QED BY <1>a, <1>c DEF Owed
<1>1. ModeTypes'
  BY <1>0, CadConfig DEF Pace!SignalUnwatched, Pace!SignalRest, ModeTypes
<1>2. LoopTypes'
  BY <1>0, CadConfig DEF Pace!SignalUnwatched, Pace!SignalRest, LoopTypes, Pace!Loop, Pace!Class
<1>3. SleepIs'
  BY <1>a DEF SleepIs, SleepOk
<1>4. PlaceTypes' /\ GhostTypes' /\ CountsAre' /\ EngineIs' /\ BuildIs'
  BY <1>0 DEF Pace!SignalUnwatched, Pace!SignalRest, PlaceTypes, GhostTypes, CountsAre, EngineIs, BuildIs
<1> QED BY <1>c, <1>1, <1>2, <1>h, <1>3, <1>4 DEF CadInv

(* SignalRewatched keeps the invariant.                                    *)
LEMMA CadSignalRewatched ==
  ASSUME CadInv, NEW c \in Pace!Class, Pace!SignalRewatched(c)
  PROVE  CadInv'
<1>0. /\ ClockTypes /\ ModeTypes /\ PlaceTypes /\ LoopTypes /\ GhostTypes /\ CountsAre
      /\ EngineIs /\ BuildIs /\ BuildCovers /\ SignalledIs /\ SleepIs
  BY DEF CadInv
<1>a. w7' /\ UNCHANGED <<w3, w4, w5, w6, w10, w11, w12, w14, w15, w16, w17, w18>>
  BY DEF Pace!SignalRewatched, Pace!SignalRest
<1>b. w1' = [w1 EXCEPT ![c] = Pace!Dirty(w1[c])] /\ c \in Pace!Class
  BY DEF Pace!SignalRewatched
<1>c. ClockTypes' /\ w1'[c].first # Pace!None /\ \A d \in Pace!Class : d # c => w1'[d] = w1[d]
  <2> DEFINE k == Pace!Dirty(w1[c])
  <2>1. k \in Clocks /\ ClockOk(c, k) /\ k.first # Pace!None
    BY <1>0, <1>b, CadDirty
  <2>2. w1' = [w1 EXCEPT ![c] = k]
    BY <1>b
  <2> HIDE DEF k
  <2> QED BY <1>0, <1>a, <1>b, <2>1, <2>2, CadClock
<1>h. SignalledIs' /\ BuildCovers'
  <2> SUFFICES ASSUME NEW d \in Pace!Class, Owed(d)'
               PROVE  \/ w1'[d].first # Pace!None
                      \/ \E b \in Pace!Actor : b # w10 /\ w4'[b] \in Enters(d)
                      \/ /\ Owed(d) /\ w16'[d] = w16[d] /\ w1[d].first = Pace!None
                         /\ \A b \in Pace!Actor : w4[b] \in Steps(d) => w4'[b] = w4[b]
    BY <1>0, <1>a, CadCovered
  <2> QED BY <1>a, <1>c DEF Owed
<1>1. ModeTypes'
  BY <1>0, CadConfig DEF Pace!SignalRewatched, Pace!SignalRest, ModeTypes
<1>2. LoopTypes'
  BY <1>0, CadConfig DEF Pace!SignalRewatched, Pace!SignalRest, LoopTypes, Pace!Loop, Pace!Class
<1>3. SleepIs'
  BY <1>a DEF SleepIs, SleepOk
<1>4. PlaceTypes' /\ GhostTypes' /\ CountsAre' /\ EngineIs' /\ BuildIs'
  BY <1>0 DEF Pace!SignalRewatched, Pace!SignalRest, PlaceTypes, GhostTypes, CountsAre, EngineIs, BuildIs
<1> QED BY <1>c, <1>1, <1>2, <1>h, <1>3, <1>4 DEF CadInv

(* AliasMoved keeps the invariant.                                         *)
LEMMA CadAliasMoved ==
  ASSUME CadInv, NEW c \in Pace!Class, Pace!AliasMoved(c)
  PROVE  CadInv'
<1>0. /\ ClockTypes /\ ModeTypes /\ PlaceTypes /\ LoopTypes /\ GhostTypes /\ CountsAre
      /\ EngineIs /\ BuildIs /\ BuildCovers /\ SignalledIs /\ SleepIs
  BY DEF CadInv
<1>a. w7' /\ UNCHANGED <<w2, w3, w4, w5, w6, w10, w11, w12, w14, w15, w17, w18>>
  BY DEF Pace!AliasMoved, Pace!SignalRest
<1>b. w1' = [w1 EXCEPT ![c] = Pace!Dirty(w1[c])] /\ c \in Pace!Class
  BY DEF Pace!AliasMoved
<1>c. ClockTypes' /\ w1'[c].first # Pace!None /\ \A d \in Pace!Class : d # c => w1'[d] = w1[d]
  <2> DEFINE k == Pace!Dirty(w1[c])
  <2>1. k \in Clocks /\ ClockOk(c, k) /\ k.first # Pace!None
    BY <1>0, <1>b, CadDirty
  <2>2. w1' = [w1 EXCEPT ![c] = k]
    BY <1>b
  <2> HIDE DEF k
  <2> QED BY <1>0, <1>a, <1>b, <2>1, <2>2, CadClock
<1>d. w16' = [w16 EXCEPT ![c] = w15[c]]
  BY DEF Pace!AliasMoved
<1>e. \A d \in Pace!Class : d # c => w16'[d] = w16[d]
  BY <1>0, <1>d DEF GhostTypes
<1>h. SignalledIs' /\ BuildCovers'
  <2> SUFFICES ASSUME NEW d \in Pace!Class, Owed(d)'
               PROVE  \/ w1'[d].first # Pace!None
                      \/ \E b \in Pace!Actor : b # w10 /\ w4'[b] \in Enters(d)
                      \/ /\ Owed(d) /\ w16'[d] = w16[d] /\ w1[d].first = Pace!None
                         /\ \A b \in Pace!Actor : w4[b] \in Steps(d) => w4'[b] = w4[b]
    BY <1>0, <1>a, CadCovered
  <2> QED BY <1>a, <1>c, <1>e DEF Owed
<1>1. LoopTypes'
  BY <1>0, CadConfig DEF Pace!AliasMoved, Pace!SignalRest, LoopTypes, Pace!Loop, Pace!Class
<1>2. GhostTypes'
  <2>1. \A d \in Pace!Class : /\ w14[d] \in Nat /\ w15[d] \in Nat /\ w16[d] \in Nat /\ w17[d] \in Nat /\ w18[d] \in Nat
                         /\ w14[d] <= w15[d] /\ w16[d] <= w15[d] /\ w17[d] <= w15[d]
    BY <1>0, CadGhosts
  <2> QED BY <1>0, <1>a, <1>d, <2>1 DEF GhostTypes
<1>3. SleepIs'
  BY <1>a DEF SleepIs, SleepOk
<1>4. ModeTypes' /\ PlaceTypes' /\ CountsAre' /\ EngineIs' /\ BuildIs'
  BY <1>0 DEF Pace!AliasMoved, Pace!SignalRest, ModeTypes, PlaceTypes, CountsAre, EngineIs, BuildIs
<1> QED BY <1>c, <1>1, <1>2, <1>h, <1>3, <1>4 DEF CadInv

(* LoopTop keeps the invariant.                                            *)
LEMMA CadLoopTop ==
  ASSUME CadInv, NEW c \in Pace!Class, Pace!LoopTop(c)
  PROVE  CadInv'
<1>0. /\ ClockTypes /\ ModeTypes /\ PlaceTypes /\ LoopTypes /\ GhostTypes /\ CountsAre
      /\ EngineIs /\ BuildIs /\ BuildCovers /\ SignalledIs /\ SleepIs
  BY DEF CadInv
<1>a. /\ w4[c] = "top" /\ UNCHANGED <<w1, w2, w6, w7, w8, w9, w10, w11, w12, w16, w17, w18>>
      /\ \E x \in {"gone", "decide", "repair"} : w4' = [w4 EXCEPT ![c] = x] /\ (x = "repair" => c = "small")
  BY DEF Pace!LoopTop, Pace!LoopRest
<1>x. PICK x \in {"gone", "decide", "repair"} : w4' = [w4 EXCEPT ![c] = x] /\ (x = "repair" => c = "small")
  BY <1>a
<1>b. c \in Pace!Actor /\ c # "caller" /\ x \in Places /\ PlaceOk(c, x)
  BY <1>x, CadActors DEF Places, PlaceOk, SmallPlaces, BulkPlaces, CallerPlaces, LoopSteps, SmallSteps,
       BulkSteps
<1>c. PlaceTypes' /\ w4'[c] = x /\ \A b \in Pace!Actor : b # c => w4'[b] = w4[b]
  BY <1>0, <1>b, <1>x, CadAt
<1>h. SignalledIs' /\ BuildCovers'
  <2> SUFFICES ASSUME NEW d \in Pace!Class, Owed(d)'
               PROVE  \/ w1'[d].first # Pace!None
                      \/ \E b \in Pace!Actor : b # w10 /\ w4'[b] \in Enters(d)
                      \/ /\ Owed(d) /\ w16'[d] = w16[d] /\ w1[d].first = Pace!None
                         /\ \A b \in Pace!Actor : w4[b] \in Steps(d) => w4'[b] = w4[b]
    BY <1>0, <1>a, CadCovered
  <2> QED BY <1>a, <1>c DEF Owed, Steps
<1>1. ModeTypes'
  BY <1>0, CadConfig DEF Pace!LoopTop, Pace!LoopRest, ModeTypes
<1>2. LoopTypes'
  <2>1. CASE w5' = w5
    BY <1>0, <1>a, <2>1 DEF LoopTypes
  <2>2. CASE w5' = [w5 EXCEPT ![c] = [Pace!Wake(c) EXCEPT !.repair = FALSE]]
    <3>1. Left(c) \in Nat /\ c \in Pace!Class
      BY <1>0, CadLater
    <3> DEFINE k == [Pace!Wake(c) EXCEPT !.repair = FALSE]
    <3>2. PICK n, f, r : n = Left(c) /\ f = (c = "small" /\ w3.overflowed) /\ r = (c = "small" /\ w3.repair)
      OBVIOUS
    <3>3. Pace!Wake(c) = [in |-> n, overflowed |-> f,
         repair |-> r] /\ f \in BOOLEAN /\ r \in BOOLEAN /\ n \in Nat
      BY <3>1, <3>2 DEF Pace!Wake, Left
    <3>4. k \in [in : Nat, overflowed : BOOLEAN, repair : {FALSE}]
      <4>1. PICK w : w = Pace!Wake(c)
        OBVIOUS
      <4>2. w \in [in : Nat, overflowed : BOOLEAN, repair : BOOLEAN]
        BY <3>3, <4>1
      <4>3. [w EXCEPT !.repair = FALSE] \in [in : Nat, overflowed : BOOLEAN, repair : {FALSE}]
        BY <4>2
      <4> QED BY <4>1, <4>3
    <3> HIDE DEF k
    <3>5. w5' \in [Pace!Loop -> [in : Nat, overflowed : BOOLEAN, repair : {FALSE}]]
      BY <1>0, <2>2, <3>4 DEF LoopTypes, k
    <3> QED BY <1>0, <1>a, <3>5 DEF LoopTypes
  <2> QED BY <2>1, <2>2 DEF Pace!LoopTop
<1>3. CountsAre'
  BY <1>0, <1>a, <1>b, <1>c, <1>x, CadActors DEF CountsAre, One, BulkSteps
<1>4. EngineIs'
  BY <1>0, <1>a, <1>b, <1>c, <1>x DEF EngineIs
<1>5. SleepIs'
  <2> SUFFICES ASSUME NEW d \in Pace!Loop PROVE SleepOk(d)'
    BY DEF SleepIs
  <2>1. SleepOk(d)
    BY <1>0 DEF SleepIs
  <2>2. CASE d = c
    <3>1. w4'[d] # "asleep"
      BY <1>c, <1>x, <2>2
    <3> QED BY <3>1 DEF SleepOk
  <2>3. CASE d # c
    <3>1. w5'[d] = w5[d] /\ w4'[d] = w4[d]
      BY <1>0, <1>c, <2>3, CadActors DEF LoopTypes, Pace!LoopTop
    <3>2. w3'.stop = w3.stop /\ (w3'.repair => w3.repair)
      BY <1>0 DEF Pace!LoopTop, ModeTypes
    <3>3. Left(d)' = Left(d)
      BY <1>a DEF Left, Pace!Due, Pace!DueWatched
    <3> QED BY <1>a, <2>1, <3>1, <3>2, <3>3 DEF SleepOk
  <2> QED BY <2>2, <2>3
<1>6. ClockTypes' /\ GhostTypes' /\ BuildIs'
  BY <1>0 DEF Pace!LoopTop, Pace!LoopRest, ClockTypes, GhostTypes, BuildIs, ClockOk, Pace!Longest
<1> QED BY <1>1, <1>c, <1>2, <1>3, <1>4, <1>h, <1>5, <1>6 DEF CadInv

(* LoopDue keeps the invariant.                                            *)
LEMMA CadLoopDue ==
  ASSUME CadInv, NEW c \in Pace!Class, Pace!LoopDue(c)
  PROVE  CadInv'
<1>0. /\ ClockTypes /\ ModeTypes /\ PlaceTypes /\ LoopTypes /\ GhostTypes /\ CountsAre
      /\ EngineIs /\ BuildIs /\ BuildCovers /\ SignalledIs /\ SleepIs
  BY DEF CadInv
<1>a. w4[c] = "decide" /\ UNCHANGED <<w2, w3, w5, w6, w7, w8, w9, w10, w11, w12, w16, w17>>
  BY DEF Pace!LoopDue, Pace!LoopRest
<1>x. PICK x \in {c, "top"} :
        /\ w4' = [w4 EXCEPT ![c] = x]
        /\ x = c => w1' = w1 /\ w18' = w18
        /\ x # c => w1' = [w1 EXCEPT ![c] = [Pace!Clear(w1[c]) EXCEPT !.snap = 0]]
        /\ x # c => w18' = [w18 EXCEPT ![c] = Pace!Larger(w18[c], w16[c])]
  <2>1. c # "top"
    BY CadActors
  <2>2. CASE w13
    <3> WITNESS c \in {c, "top"}
    <3> QED BY <2>2 DEF Pace!LoopDue
  <2>3. CASE ~w13
    <3> WITNESS "top" \in {c, "top"}
    <3> QED BY <2>1, <2>3 DEF Pace!LoopDue
  <2> QED BY <2>2, <2>3
<1>b. c \in Pace!Actor /\ c # "caller" /\ x \in Places /\ PlaceOk(c, x) /\ (c = "small" \/ c = "bulk")
  BY <1>x, CadActors DEF Places, PlaceOk, SmallPlaces, BulkPlaces, CallerPlaces, LoopSteps, SmallSteps,
       BulkSteps
<1>c. PlaceTypes' /\ w4'[c] = x /\ \A b \in Pace!Actor : b # c => w4'[b] = w4[b]
  BY <1>0, <1>b, <1>x, CadAt
<1>d. ClockTypes' /\ (x = c => w1' = w1) /\ \A d \in Pace!Class : d # c => w1'[d] = w1[d]
  <2>1. CASE x = c
    BY <1>0, <1>a, <1>x, <2>1 DEF ClockTypes, ClockOk, Pace!Longest
  <2>2. CASE x # c
    <3> DEFINE k == [Pace!Clear(w1[c]) EXCEPT !.snap = 0]
    <3>1. k \in Clocks /\ ClockOk(c, k)
      BY <1>0, CadClear
    <3>2. w1' = [w1 EXCEPT ![c] = k]
      BY <1>x, <2>2
    <3> HIDE DEF k
    <3> QED BY <1>0, <1>a, <2>2, <3>1, <3>2, CadClock
  <2> QED BY <2>1, <2>2
<1>e. GhostTypes' /\ (x = c => w18' = w18) /\ \A d \in Pace!Class : IF d # c THEN w18'[d] = w18[d] ELSE x # c => w18'[d] >= w16[d]
  <2>0. UNCHANGED <<w14, w15, w16, w17>>
    BY DEF Pace!LoopDue, Pace!LoopRest
  <2>1. CASE x = c
    BY <1>0, <1>x, <2>0, <2>1 DEF GhostTypes
  <2>2. CASE x # c
    <3>1. w16[c] \in Nat /\ w18[c] \in Nat
      BY <1>0, CadGhosts
    <3>2. Pace!Larger(w18[c], w16[c]) \in Nat /\ Pace!Larger(w18[c], w16[c]) >= w16[c]
      BY <3>1 DEF Pace!Larger
    <3> QED BY <1>0, <1>x, <2>0, <2>2, <3>2 DEF GhostTypes
  <2> QED BY <2>1, <2>2
<1>h. SignalledIs' /\ BuildCovers'
  <2> SUFFICES ASSUME NEW d \in Pace!Class, Owed(d)'
               PROVE  \/ w1'[d].first # Pace!None
                      \/ \E b \in Pace!Actor : b # w10 /\ w4'[b] \in Enters(d)
                      \/ /\ Owed(d) /\ w16'[d] = w16[d] /\ w1[d].first = Pace!None
                         /\ \A b \in Pace!Actor : w4[b] \in Steps(d) => w4'[b] = w4[b]
    BY <1>0, <1>a, CadCovered
  <2>1. CASE d # c
    BY <1>a, <1>b, <1>c, <1>d, <1>e, <2>1 DEF Owed, Steps
  <2>2. CASE d = c /\ x = c
    BY <1>a, <1>b, <1>c, <1>d, <1>e, <2>2 DEF Owed, Steps
  <2>3. CASE d = c /\ x # c
    <3>1. w16[d] \in Nat /\ w18'[d] >= w16[d] /\ w16'[d] = w16[d] /\ w18'[d] \in Nat
      BY <1>0, <1>a, <1>e, <2>3, CadGhosts DEF GhostTypes
    <3> QED BY <3>1 DEF Owed
  <2> QED BY <2>1, <2>2, <2>3
<1>1. CountsAre'
  BY <1>0, <1>a, <1>b, <1>c, <1>x, CadActors DEF CountsAre, One, BulkSteps
<1>2. EngineIs'
  BY <1>0, <1>a, <1>b, <1>c, <1>x DEF EngineIs
<1>3. SleepIs'
  <2> SUFFICES ASSUME NEW d \in Pace!Loop PROVE SleepOk(d)'
    BY DEF SleepIs
  <2>1. SleepOk(d)
    BY <1>0 DEF SleepIs
  <2>2. CASE d = c
    <3>1. w4'[d] # "asleep"
      BY <1>b, <1>c, <1>x, <2>2
    <3> QED BY <3>1 DEF SleepOk
  <2>3. CASE d # c
    BY <1>a, <1>c, <1>d, <2>1, <2>3, CadSleeps, CadActors
  <2> QED BY <2>2, <2>3
<1>4. ModeTypes' /\ LoopTypes' /\ BuildIs'
  BY <1>0 DEF Pace!LoopDue, Pace!LoopRest, ModeTypes, LoopTypes, BuildIs
<1> QED BY <1>d, <1>c, <1>e, <1>1, <1>2, <1>h, <1>3, <1>4 DEF CadInv

(* LoopSleep keeps the invariant.                                          *)
LEMMA CadLoopSleep ==
  ASSUME CadInv, NEW c \in Pace!Class, Pace!LoopSleep(c)
  PROVE  CadInv'
<1>0. /\ ClockTypes /\ ModeTypes /\ PlaceTypes /\ LoopTypes /\ GhostTypes /\ CountsAre
      /\ EngineIs /\ BuildIs /\ BuildCovers /\ SignalledIs /\ SleepIs
  BY DEF CadInv
<1>a. /\ w4[c] = "decide" /\ UNCHANGED <<w1, w2, w3, w5, w6, w7, w8, w9, w10, w11, w12, w16, w17, w18>>
  BY DEF Pace!LoopSleep, Pace!LoopRest
<1>x. PICK x \in {"top",
     "asleep"} : w4' = [w4 EXCEPT ![c] = x] /\ (x = "asleep" => ~w3.stop /\ Pace!Wake(c) = w5[c])
  BY DEF Pace!LoopSleep
<1>b. c \in Pace!Actor /\ c # "caller" /\ x \in Places /\ PlaceOk(c, x)
  BY <1>x, CadActors DEF Places, PlaceOk, SmallPlaces, BulkPlaces, CallerPlaces, LoopSteps, SmallSteps,
       BulkSteps
<1>c. PlaceTypes' /\ w4'[c] = x /\ \A b \in Pace!Actor : b # c => w4'[b] = w4[b]
  BY <1>0, <1>b, <1>x, CadAt
<1>h. SignalledIs' /\ BuildCovers'
  <2> SUFFICES ASSUME NEW d \in Pace!Class, Owed(d)'
               PROVE  \/ w1'[d].first # Pace!None
                      \/ \E b \in Pace!Actor : b # w10 /\ w4'[b] \in Enters(d)
                      \/ /\ Owed(d) /\ w16'[d] = w16[d] /\ w1[d].first = Pace!None
                         /\ \A b \in Pace!Actor : w4[b] \in Steps(d) => w4'[b] = w4[b]
    BY <1>0, <1>a, CadCovered
  <2> QED BY <1>a, <1>c DEF Owed, Steps
<1>1. CountsAre'
  BY <1>0, <1>a, <1>b, <1>c, <1>x, CadActors DEF CountsAre, One, BulkSteps
<1>2. EngineIs'
  BY <1>0, <1>a, <1>b, <1>c, <1>x DEF EngineIs
<1>3. SleepIs'
  <2> SUFFICES ASSUME NEW d \in Pace!Loop PROVE SleepOk(d)'
    BY DEF SleepIs
  <2>1. SleepOk(d)
    BY <1>0 DEF SleepIs
  <2>2. CASE d = c /\ x = "asleep"
    <3>1. w5[c] = Pace!Wake(c) /\ ~w3.stop /\ ~w5[c].repair
      BY <1>0, <1>x, <2>2, CadActors DEF LoopTypes
    <3>2. w5[c].in = Left(c) /\ (c = "small" => ~w3.repair)
      <4>1. PICK n, f, r : n = Left(c) /\ f = w3.overflowed /\ r = w3.repair
        OBVIOUS
      <4>2. Pace!Wake(c) = [in |-> n, overflowed |-> c = "small" /\ f, repair |-> c = "small" /\ r]
        BY <4>1 DEF Pace!Wake, Left
      <4>3. Pace!Wake(c).in = n /\ Pace!Wake(c).repair = (c = "small" /\ r)
        BY <4>2
      <4> QED BY <3>1, <4>1, <4>3
    <3>3. Left(c) \in Int /\ Left(c)' = Left(c)
      BY <1>0, <1>a, CadLater DEF Left, Pace!Due, Pace!DueWatched
    <3> QED BY <1>a, <2>2, <3>1, <3>2, <3>3 DEF SleepOk
  <2>3. CASE d = c /\ x = "top"
    BY <1>c, <2>3 DEF SleepOk
  <2>4. CASE d # c
    BY <1>a, <1>c, <2>1, <2>4, CadSleeps, CadActors
  <2> QED BY <1>x, <2>2, <2>3, <2>4
<1>4. ClockTypes' /\ ModeTypes' /\ LoopTypes' /\ GhostTypes' /\ BuildIs'
  BY <1>0 DEF Pace!LoopSleep, Pace!LoopRest, ClockTypes, ModeTypes, LoopTypes, GhostTypes, BuildIs,
       ClockOk, Pace!Longest
<1> QED BY <1>c, <1>1, <1>2, <1>h, <1>3, <1>4 DEF CadInv

(* LoopWake keeps the invariant.                                           *)
LEMMA CadLoopWake ==
  ASSUME CadInv, NEW c \in Pace!Class, Pace!LoopWake(c)
  PROVE  CadInv'
<1>0. /\ ClockTypes /\ ModeTypes /\ PlaceTypes /\ LoopTypes /\ GhostTypes /\ CountsAre
      /\ EngineIs /\ BuildIs /\ BuildCovers /\ SignalledIs /\ SleepIs
  BY DEF CadInv
<1>a. /\ w4[c] = "asleep"
      /\ w4' = [w4 EXCEPT ![c] = "top"]
      /\ UNCHANGED <<w1, w2, w3, w5, w7, w8, w9, w10, w11, w12, w16, w17, w18>>
      /\ w6' = w6 \ {c}
  BY DEF Pace!LoopWake, Pace!LoopRest
<1>b. /\ c \in Pace!Actor
      /\ "top" \in Places
      /\ PlaceOk(c, "top")
  BY <1>0, <1>a, CadActors DEF PlaceTypes, Pace!After, Places, PlaceOk, SmallPlaces, BulkPlaces,
       CallerPlaces, LoopSteps, SmallSteps, BulkSteps
<1>c. PlaceTypes' /\ w4'[c] = "top" /\ \A b \in Pace!Actor : b # c => w4'[b] = w4[b]
  BY <1>0, <1>a, <1>b, CadAt
<1>h. SignalledIs' /\ BuildCovers'
  <2> SUFFICES ASSUME NEW d \in Pace!Class, Owed(d)'
               PROVE  \/ w1'[d].first # Pace!None
                      \/ \E b \in Pace!Actor : b # w10 /\ w4'[b] \in Enters(d)
                      \/ /\ Owed(d) /\ w16'[d] = w16[d] /\ w1[d].first = Pace!None
                         /\ \A b \in Pace!Actor : w4[b] \in Steps(d) => w4'[b] = w4[b]
    BY <1>0, <1>a, CadCovered
  <2> QED BY <1>a, <1>c DEF Owed, Steps
<1>1. LoopTypes'
  BY <1>0, CadConfig DEF Pace!LoopWake, Pace!LoopRest, LoopTypes, Pace!Loop, Pace!Class
<1>2. CountsAre'
  BY <1>0, <1>a, <1>b, <1>c, CadActors DEF CountsAre, One, BulkSteps
<1>3. EngineIs'
  BY <1>0, <1>a, <1>b, <1>c DEF EngineIs
<1>4. SleepIs'
  <2> SUFFICES ASSUME NEW d \in Pace!Loop PROVE SleepOk(d)'
    BY DEF SleepIs
  <2>1. SleepOk(d)
    BY <1>0 DEF SleepIs
  <2>2. CASE d = c
    BY <1>c, <2>2 DEF SleepOk
  <2>3. CASE d # c
    BY <1>a, <1>c, <2>1, <2>3, CadSleeps, CadActors
  <2> QED BY <2>2, <2>3
<1>5. ClockTypes' /\ ModeTypes' /\ GhostTypes' /\ BuildIs'
  BY <1>0 DEF Pace!LoopWake, Pace!LoopRest, ClockTypes, ModeTypes, GhostTypes, BuildIs, ClockOk, Pace!Longest
<1> QED BY <1>c, <1>1, <1>2, <1>3, <1>h, <1>4, <1>5 DEF CadInv

(* LoopRepair keeps the invariant.                                         *)
LEMMA CadLoopRepair ==
  ASSUME CadInv, Pace!LoopRepair
  PROVE  CadInv'
<1>0. /\ ClockTypes /\ ModeTypes /\ PlaceTypes /\ LoopTypes /\ GhostTypes /\ CountsAre
      /\ EngineIs /\ BuildIs /\ BuildCovers /\ SignalledIs /\ SleepIs
  BY DEF CadInv
<1>a. /\ w4["small"] = "repair"
      /\ w4' = [w4 EXCEPT !["small"] = "top"]
      /\ UNCHANGED <<w1, w2, w3, w5, w6, w7, w8, w9, w10, w11, w12, w16, w17, w18>>
  BY DEF Pace!LoopRepair, Pace!LoopRest
<1>b. /\ "small" \in Pace!Actor
      /\ "top" \in Places
      /\ PlaceOk("small", "top")
  BY <1>0, <1>a, CadActors DEF PlaceTypes, Pace!After, Places, PlaceOk, SmallPlaces, BulkPlaces,
       CallerPlaces, LoopSteps, SmallSteps, BulkSteps
<1>c. PlaceTypes' /\ w4'["small"] = "top" /\ \A b \in Pace!Actor : b # "small" => w4'[b] = w4[b]
  BY <1>0, <1>a, <1>b, CadAt
<1>h. SignalledIs' /\ BuildCovers'
  <2> SUFFICES ASSUME NEW d \in Pace!Class, Owed(d)'
               PROVE  \/ w1'[d].first # Pace!None
                      \/ \E b \in Pace!Actor : b # w10 /\ w4'[b] \in Enters(d)
                      \/ /\ Owed(d) /\ w16'[d] = w16[d] /\ w1[d].first = Pace!None
                         /\ \A b \in Pace!Actor : w4[b] \in Steps(d) => w4'[b] = w4[b]
    BY <1>0, <1>a, CadCovered
  <2> QED BY <1>a, <1>c DEF Owed, Steps
<1>1. CountsAre'
  BY <1>0, <1>a, <1>b, <1>c, CadActors DEF CountsAre, One, BulkSteps
<1>2. EngineIs'
  BY <1>0, <1>a, <1>b, <1>c DEF EngineIs
<1>3. SleepIs'
  <2> SUFFICES ASSUME NEW d \in Pace!Loop PROVE SleepOk(d)'
    BY DEF SleepIs
  <2>1. SleepOk(d)
    BY <1>0 DEF SleepIs
  <2> QED BY <2>1, CadSleeps, <1>a, <1>c, CadActors
<1>4. ClockTypes' /\ ModeTypes' /\ LoopTypes' /\ GhostTypes' /\ BuildIs'
  BY <1>0 DEF Pace!LoopRepair, Pace!LoopRest, ClockTypes, ModeTypes, LoopTypes, GhostTypes, BuildIs,
       ClockOk, Pace!Longest
<1> QED BY <1>c, <1>1, <1>2, <1>h, <1>3, <1>4 DEF CadInv

(* SmallBegin keeps the invariant.                                         *)
LEMMA CadSmallBegin ==
  ASSUME CadInv, NEW a \in Pace!Actor, Pace!SmallBegin(a)
  PROVE  CadInv'
<1>0. /\ ClockTypes /\ ModeTypes /\ PlaceTypes /\ LoopTypes /\ GhostTypes /\ CountsAre
      /\ EngineIs /\ BuildIs /\ BuildCovers /\ SignalledIs /\ SleepIs
  BY DEF CadInv
<1>a. /\ w4[a] = "small"
      /\ w4' = [w4 EXCEPT ![a] = "small.wait"]
      /\ UNCHANGED <<w2, w3, w5, w6, w7, w9, w10, w11, w12, w16, w17, w18>>
      /\ w8' = w8 + 1
  BY DEF Pace!SmallBegin, Pace!SnapRest
<1>b. /\ a \in Pace!Actor
      /\ a = "small" \/ a = "caller"
      /\ "small.wait" \in Places
      /\ PlaceOk(a, "small.wait")
  BY <1>0, <1>a, CadActors DEF PlaceTypes, Pace!After, Places, PlaceOk, SmallPlaces, BulkPlaces,
       CallerPlaces, LoopSteps, SmallSteps, BulkSteps
<1>c. PlaceTypes' /\ w4'[a] = "small.wait" /\ \A b \in Pace!Actor : b # a => w4'[b] = w4[b]
  BY <1>0, <1>a, <1>b, CadAt
<1>d. ClockTypes' /\ w1'["small"] = Pace!Clear(w1["small"]) /\ \A d \in Pace!Class : d # "small" => w1'[d] = w1[d]
  <2> DEFINE k == Pace!Clear(w1["small"])
  <2>1. k \in Clocks /\ ClockOk("small", k) /\ "small" \in Pace!Class
    BY <1>0, CadClear, CadActors
  <2>2. w1' = [w1 EXCEPT !["small"] = k]
    BY DEF Pace!SmallBegin
  <2> HIDE DEF k
  <2>3. ClockTypes' /\ w1'["small"] = k /\ \A d \in Pace!Class : d # "small" => w1'[d] = w1[d]
    BY <1>0, <1>a, <2>1, <2>2, CadClock
  <2> QED BY <2>3 DEF k
<1>e. a # w10
  BY <1>0, <1>a, <1>b DEF EngineIs
<1>h. SignalledIs' /\ BuildCovers'
  <2> SUFFICES ASSUME NEW d \in Pace!Class, Owed(d)'
               PROVE  \/ w1'[d].first # Pace!None
                      \/ \E b \in Pace!Actor : b # w10 /\ w4'[b] \in Enters(d)
                      \/ /\ Owed(d) /\ w16'[d] = w16[d] /\ w1[d].first = Pace!None
                         /\ \A b \in Pace!Actor : w4[b] \in Steps(d) => w4'[b] = w4[b]
    BY <1>0, <1>a, CadCovered
  <2>1. CASE d = "small"
    BY <1>b, <1>c, <1>e, <2>1 DEF Enters
  <2>2. CASE d # "small"
    BY <1>a, <1>c, <1>d, <2>2 DEF Owed, Steps
  <2> QED BY <2>1, <2>2
<1>1. CountsAre'
  BY <1>0, <1>a, <1>b, <1>c, CadActors DEF CountsAre, One, BulkSteps
<1>2. EngineIs'
  BY <1>0, <1>a, <1>b, <1>c DEF EngineIs
<1>3. SleepIs'
  <2> SUFFICES ASSUME NEW d \in Pace!Loop PROVE SleepOk(d)'
    BY DEF SleepIs
  <2>1. SleepOk(d)
    BY <1>0 DEF SleepIs
  <2>2. CASE d = "small"
    <3>0. d \in Pace!Actor
      BY CadActors
    <3>1. w4'[d] = "asleep" => w4[d] = "asleep"
      BY <1>c, <3>0
    <3>2. Left(d) <= Left(d)' /\ Left(d) \in Int /\ d \in Pace!Class /\ Left(d)' \in Int
      <4>1. d \in Pace!Class /\ w1'[d] = Pace!Clear(w1[d])
        BY <1>d, <2>2, CadActors
      <4>2. Left(d)' = Pace!Larger(0, Pace!Due(d, Pace!Clear(w1[d]), w2[d]))
        BY <1>a, <4>1 DEF Left, Pace!Due, Pace!DueWatched
      <4>3. Left(d)' \in Int
        BY <1>0, <1>a, <1>d, <4>1, CadLater, CadNext
      <4> QED BY <1>0, <4>1, <4>2, <4>3, CadLater
    <3>3. w5[d].in \in Nat
      BY <1>0 DEF LoopTypes
    <3> QED BY <1>a, <2>1, <3>1, <3>2, <3>3 DEF SleepOk
  <2>3. CASE d # "small"
    <3>0. d \in Pace!Actor
      BY CadActors
    <3>1. w4'[d] = "asleep" => w4[d] = "asleep"
      BY <1>c, <3>0
    <3>2. w1'[d] = w1[d]
      BY <1>d, <2>3, CadActors
    <3> QED BY <1>a, <2>1, <3>1, <3>2, CadSleeps
  <2> QED BY <2>2, <2>3
<1>4. ModeTypes' /\ LoopTypes' /\ GhostTypes' /\ BuildIs'
  BY <1>0 DEF Pace!SmallBegin, Pace!SnapRest, ModeTypes, LoopTypes, GhostTypes, BuildIs
<1> QED BY <1>d, <1>c, <1>1, <1>2, <1>h, <1>3, <1>4 DEF CadInv

(* SmallWalk keeps the invariant.                                          *)
LEMMA CadSmallWalk ==
  ASSUME CadInv, NEW a \in Pace!Actor, Pace!SmallWalk(a)
  PROVE  CadInv'
<1>0. /\ ClockTypes /\ ModeTypes /\ PlaceTypes /\ LoopTypes /\ GhostTypes /\ CountsAre
      /\ EngineIs /\ BuildIs /\ BuildCovers /\ SignalledIs /\ SleepIs
  BY DEF CadInv
<1>a. /\ w4[a] = "small.wait"
      /\ w4' = [w4 EXCEPT ![a] = "small.end"]
      /\ UNCHANGED <<w1, w2, w3, w5, w6, w7, w8, w9, w10, w11, w12, w16>>
      /\ UNCHANGED <<w14, w15>>
  BY DEF Pace!SmallWalk, Pace!SnapRest
<1>b. /\ a \in Pace!Actor
      /\ a = "small" \/ a = "caller"
      /\ "small.end" \in Places
      /\ PlaceOk(a, "small.end")
  BY <1>0, <1>a, CadActors DEF PlaceTypes, Pace!After, Places, PlaceOk, SmallPlaces, BulkPlaces,
       CallerPlaces, LoopSteps, SmallSteps, BulkSteps
<1>c. PlaceTypes' /\ w4'[a] = "small.end" /\ \A b \in Pace!Actor : b # a => w4'[b] = w4[b]
  BY <1>0, <1>a, <1>b, CadAt
<1>d. /\ \A d \in Pace!Class : d # "small" => w17'[d] = w17[d] /\ w18'[d] = w18[d]
      /\ w17'["small"] = w15["small"] \/ w18'["small"] = w15["small"]
  BY <1>0, CadActors DEF Pace!SmallWalk, GhostTypes
<1>h. SignalledIs' /\ BuildCovers'
  <2> SUFFICES ASSUME NEW d \in Pace!Class, Owed(d)'
               PROVE  \/ w1'[d].first # Pace!None
                      \/ \E b \in Pace!Actor : b # w10 /\ w4'[b] \in Enters(d)
                      \/ /\ Owed(d) /\ w16'[d] = w16[d] /\ w1[d].first = Pace!None
                         /\ \A b \in Pace!Actor : w4[b] \in Steps(d) => w4'[b] = w4[b]
    BY <1>0, <1>a, CadCovered
  <2>1. CASE d = "small"
    <3>1. w16[d] \in Nat /\ w15[d] \in Nat /\ w16[d] <= w15[d]
      BY <1>0, CadGhosts
    <3> QED BY <1>a, <1>d, <2>1, <3>1 DEF Owed
  <2>2. CASE d # "small"
    BY <1>a, <1>c, <1>d, <2>2 DEF Owed, Steps
  <2> QED BY <2>1, <2>2
<1>1. GhostTypes'
  <2>1. \A d \in Pace!Class : /\ w14[d] \in Nat /\ w15[d] \in Nat /\ w16[d] \in Nat /\ w17[d] \in Nat /\ w18[d] \in Nat
                         /\ w14[d] <= w15[d] /\ w16[d] <= w15[d] /\ w17[d] <= w15[d]
    BY <1>0, CadGhosts
  <2> QED BY <1>0, <1>a, <2>1, CadActors DEF GhostTypes, Pace!SmallWalk
<1>2. CountsAre'
  BY <1>0, <1>a, <1>b, <1>c, CadActors DEF CountsAre, One, BulkSteps
<1>3. EngineIs'
  BY <1>0, <1>a, <1>b, <1>c DEF EngineIs
<1>4. SleepIs'
  <2> SUFFICES ASSUME NEW d \in Pace!Loop PROVE SleepOk(d)'
    BY DEF SleepIs
  <2>1. SleepOk(d)
    BY <1>0 DEF SleepIs
  <2> QED BY <2>1, CadSleeps, <1>a, <1>b, <1>c
<1>5. ClockTypes' /\ ModeTypes' /\ LoopTypes' /\ BuildIs'
  BY <1>0 DEF Pace!SmallWalk, Pace!SnapRest, ClockTypes, ModeTypes, LoopTypes, BuildIs, ClockOk, Pace!Longest
<1> QED BY <1>c, <1>1, <1>2, <1>3, <1>h, <1>4, <1>5 DEF CadInv

(* SmallEnd keeps the invariant.                                           *)
LEMMA CadSmallEnd ==
  ASSUME CadInv, NEW a \in Pace!Actor, Pace!SmallEnd(a)
  PROVE  CadInv'
<1>0. /\ ClockTypes /\ ModeTypes /\ PlaceTypes /\ LoopTypes /\ GhostTypes /\ CountsAre
      /\ EngineIs /\ BuildIs /\ BuildCovers /\ SignalledIs /\ SleepIs
  BY DEF CadInv
<1>a. /\ w4[a] = "small.end" /\ w7' /\ UNCHANGED <<w2, w3, w5, w6, w10, w11, w12, w16, w17, w18>>
  BY DEF Pace!SmallEnd, Pace!SnapRest
<1>x. PICK x \in {"top", "bulk", "done"} : w4' = [w4 EXCEPT ![a] = x] /\ (a # "caller" <=> x = "top")
  BY DEF Pace!SmallEnd, Pace!After
<1>b. a \in Pace!Actor /\ x \in Places /\ PlaceOk(a, x) /\ (a = "small" \/ a = "caller")
  BY <1>0, <1>a, <1>x, CadActors DEF PlaceTypes, Places, PlaceOk, SmallPlaces, BulkPlaces, CallerPlaces,
       LoopSteps, SmallSteps, BulkSteps
<1>c. PlaceTypes' /\ w4'[a] = x /\ \A b \in Pace!Actor : b # a => w4'[b] = w4[b]
  BY <1>0, <1>b, <1>x, CadAt
<1>d. ClockTypes' /\ \A d \in Pace!Class : w1'[d].first = w1[d].first
  <2> DEFINE k == [w1["small"] EXCEPT !.snap = 0]
  <2>1. "small" \in Pace!Class /\ 0 \in 0 .. Pace!Longest("small")
    BY <1>0, CadActors, CadConfig
  <2>2. k \in Clocks /\ ClockOk("small", k) /\ k.first = w1["small"].first
    BY <1>0, <2>1, CadSnap
  <2>3. w1' = [w1 EXCEPT !["small"] = k]
    BY DEF Pace!SmallEnd
  <2> HIDE DEF k
  <2> QED BY <1>0, <1>a, <2>1, <2>2, <2>3, CadClock
<1>h. SignalledIs' /\ BuildCovers'
  <2> SUFFICES ASSUME NEW d \in Pace!Class, Owed(d)'
               PROVE  \/ w1'[d].first # Pace!None
                      \/ \E b \in Pace!Actor : b # w10 /\ w4'[b] \in Enters(d)
                      \/ /\ Owed(d) /\ w16'[d] = w16[d] /\ w1[d].first = Pace!None
                         /\ \A b \in Pace!Actor : w4[b] \in Steps(d) => w4'[b] = w4[b]
    BY <1>0, <1>a, CadCovered
  <2> QED BY <1>a, <1>c, <1>d DEF Owed, Steps
<1>1. LoopTypes'
  BY <1>0, CadConfig DEF Pace!SmallEnd, Pace!SnapRest, LoopTypes, Pace!Loop, Pace!Class
<1>2. CountsAre'
  BY <1>0, <1>a, <1>b, <1>c, <1>x, CadActors DEF CountsAre, One, BulkSteps, Pace!Forced, Pace!SmallEnd
<1>3. EngineIs'
  BY <1>0, <1>a, <1>b, <1>c, <1>x DEF EngineIs
<1>4. SleepIs'
  BY <1>a DEF SleepIs, SleepOk
<1>5. ModeTypes' /\ GhostTypes' /\ BuildIs'
  BY <1>0 DEF Pace!SmallEnd, Pace!SnapRest, ModeTypes, GhostTypes, BuildIs
<1> QED BY <1>d, <1>c, <1>1, <1>2, <1>3, <1>h, <1>4, <1>5 DEF CadInv

(* BulkBegin keeps the invariant.                                          *)
LEMMA CadBulkBegin ==
  ASSUME CadInv, NEW a \in Pace!Actor, Pace!BulkBegin(a)
  PROVE  CadInv'
<1>0. /\ ClockTypes /\ ModeTypes /\ PlaceTypes /\ LoopTypes /\ GhostTypes /\ CountsAre
      /\ EngineIs /\ BuildIs /\ BuildCovers /\ SignalledIs /\ SleepIs
  BY DEF CadInv
<1>a. /\ w4[a] = "bulk"
      /\ w4' = [w4 EXCEPT ![a] = "bulk.yield"]
      /\ UNCHANGED <<w2, w3, w5, w6, w7, w8, w10, w11, w12, w16, w17, w18>>
      /\ w9' = w9 + (IF Pace!Forced(a) THEN 1 ELSE 0)
  BY DEF Pace!BulkBegin, Pace!SnapRest
<1>b. /\ a \in Pace!Actor
      /\ a = "bulk" \/ a = "caller"
      /\ "bulk.yield" \in Places
      /\ PlaceOk(a, "bulk.yield")
  BY <1>0, <1>a, CadActors DEF PlaceTypes, Pace!After, Places, PlaceOk, SmallPlaces, BulkPlaces,
       CallerPlaces, LoopSteps, SmallSteps, BulkSteps
<1>c. PlaceTypes' /\ w4'[a] = "bulk.yield" /\ \A b \in Pace!Actor : b # a => w4'[b] = w4[b]
  BY <1>0, <1>a, <1>b, CadAt
<1>d. ClockTypes' /\ w1'["bulk"] = Pace!Clear(w1["bulk"]) /\ \A d \in Pace!Class : d # "bulk" => w1'[d] = w1[d]
  <2> DEFINE k == Pace!Clear(w1["bulk"])
  <2>1. k \in Clocks /\ ClockOk("bulk", k) /\ "bulk" \in Pace!Class
    BY <1>0, CadClear, CadActors
  <2>2. w1' = [w1 EXCEPT !["bulk"] = k]
    BY DEF Pace!BulkBegin
  <2> HIDE DEF k
  <2>3. ClockTypes' /\ w1'["bulk"] = k /\ \A d \in Pace!Class : d # "bulk" => w1'[d] = w1[d]
    BY <1>0, <1>a, <2>1, <2>2, CadClock
  <2> QED BY <2>3 DEF k
<1>e. a # w10
  BY <1>0, <1>a, <1>b DEF EngineIs
<1>h. SignalledIs' /\ BuildCovers'
  <2> SUFFICES ASSUME NEW d \in Pace!Class, Owed(d)'
               PROVE  \/ w1'[d].first # Pace!None
                      \/ \E b \in Pace!Actor : b # w10 /\ w4'[b] \in Enters(d)
                      \/ /\ Owed(d) /\ w16'[d] = w16[d] /\ w1[d].first = Pace!None
                         /\ \A b \in Pace!Actor : w4[b] \in Steps(d) => w4'[b] = w4[b]
    BY <1>0, <1>a, CadCovered
  <2>1. CASE d = "bulk"
    BY <1>b, <1>c, <1>e, <2>1 DEF Enters, Giving
  <2>2. CASE d # "bulk"
    <3>1. d = "small" /\ w1'[d] = w1[d]
      BY <1>d, <2>2, CadActors
    <3> QED BY <1>a, <1>c, <3>1 DEF Owed, Steps
  <2> QED BY <2>1, <2>2
<1>1. CountsAre'
  BY <1>0, <1>a, <1>b, <1>c, CadActors DEF CountsAre, One, BulkSteps, Pace!Forced
<1>2. EngineIs'
  BY <1>0, <1>a, <1>b, <1>c DEF EngineIs
<1>3. SleepIs'
  <2> SUFFICES ASSUME NEW d \in Pace!Loop PROVE SleepOk(d)'
    BY DEF SleepIs
  <2>1. SleepOk(d)
    BY <1>0 DEF SleepIs
  <2>2. CASE d = "bulk"
    <3>0. d \in Pace!Actor
      BY CadActors
    <3>1. w4'[d] = "asleep" => w4[d] = "asleep"
      BY <1>c, <3>0
    <3>2. Left(d) <= Left(d)' /\ Left(d) \in Int /\ d \in Pace!Class /\ Left(d)' \in Int
      <4>1. d \in Pace!Class /\ w1'[d] = Pace!Clear(w1[d])
        BY <1>d, <2>2, CadActors
      <4>2. Left(d)' = Pace!Larger(0, Pace!Due(d, Pace!Clear(w1[d]), w2[d]))
        BY <1>a, <4>1 DEF Left, Pace!Due, Pace!DueWatched
      <4>3. Left(d)' \in Int
        BY <1>0, <1>a, <1>d, <4>1, CadLater, CadNext
      <4> QED BY <1>0, <4>1, <4>2, <4>3, CadLater
    <3>3. w5[d].in \in Nat
      BY <1>0 DEF LoopTypes
    <3> QED BY <1>a, <2>1, <3>1, <3>2, <3>3 DEF SleepOk
  <2>3. CASE d # "bulk"
    <3>0. d \in Pace!Actor
      BY CadActors
    <3>1. w4'[d] = "asleep" => w4[d] = "asleep"
      BY <1>c, <3>0
    <3>2. w1'[d] = w1[d]
      BY <1>d, <2>3, CadActors
    <3> QED BY <1>a, <2>1, <3>1, <3>2, CadSleeps
  <2> QED BY <2>2, <2>3
<1>4. ModeTypes' /\ LoopTypes' /\ GhostTypes' /\ BuildIs'
  BY <1>0 DEF Pace!BulkBegin, Pace!SnapRest, ModeTypes, LoopTypes, GhostTypes, BuildIs
<1> QED BY <1>d, <1>c, <1>1, <1>2, <1>h, <1>3, <1>4 DEF CadInv

(* BulkYield keeps the invariant.                                          *)
LEMMA CadBulkYield ==
  ASSUME CadInv, NEW a \in Pace!Actor, Pace!BulkYield(a)
  PROVE  CadInv'
<1>0. /\ ClockTypes /\ ModeTypes /\ PlaceTypes /\ LoopTypes /\ GhostTypes /\ CountsAre
      /\ EngineIs /\ BuildIs /\ BuildCovers /\ SignalledIs /\ SleepIs
  BY DEF CadInv
<1>a. /\ w4[a] = "bulk.yield"
      /\ UNCHANGED <<w1, w2, w3, w5, w6, w7, w8, w9, w10, w11, w12, w16, w17, w14, w15>>
  BY DEF Pace!BulkYield, Pace!SnapRest
<1>x. PICK x \in {"top", "bulk.lock"} :
        /\ w4' = [w4 EXCEPT ![a] = x]
        /\ x = "bulk.lock" => w18' = w18
        /\ x = "top" => a # "caller"
        /\ x = "top" => w18' = [w18 EXCEPT !["bulk"] = Pace!Larger(w18["bulk"], w16["bulk"])]
  <2>1. CASE ~Pace!Forced(a) /\ (w3.stop \/ ~w13)
    <3> WITNESS "top" \in {"top", "bulk.lock"}
    <3> QED BY <2>1 DEF Pace!BulkYield, Pace!Forced
  <2>2. CASE Pace!Forced(a) \/ ~(w3.stop \/ ~w13)
    <3> WITNESS "bulk.lock" \in {"top", "bulk.lock"}
    <3> QED BY <2>2 DEF Pace!BulkYield
  <2> QED BY <2>1, <2>2
<1>b. a \in Pace!Actor /\ x \in Places /\ PlaceOk(a, x) /\ (a = "bulk" \/ a = "caller")
  BY <1>0, <1>a, <1>x, CadActors DEF PlaceTypes, Places, PlaceOk, SmallPlaces, BulkPlaces, CallerPlaces,
       LoopSteps, SmallSteps, BulkSteps
<1>c. PlaceTypes' /\ w4'[a] = x /\ \A b \in Pace!Actor : b # a => w4'[b] = w4[b]
  BY <1>0, <1>b, <1>x, CadAt
<1>d. w16["bulk"] \in Nat /\ w18["bulk"] \in Nat /\ "bulk" \in Pace!Class
  BY <1>0, CadGhosts, CadActors
<1>e. /\ Pace!Larger(w18["bulk"], w16["bulk"]) \in Nat
      /\ Pace!Larger(w18["bulk"], w16["bulk"]) >= w16["bulk"]
  BY <1>d DEF Pace!Larger
<1>f. GhostTypes' /\ (x = "top" => w18'["bulk"] >= w16["bulk"]) /\ w18'["small"] = w18["small"] /\ w18'["bulk"] \in Nat
  <2>1. CASE x = "bulk.lock"
    BY <1>0, <1>a, <1>d, <1>x, <2>1 DEF GhostTypes
  <2>2. CASE x = "top"
    BY <1>0, <1>a, <1>d, <1>e, <1>x, <2>2, CadActors DEF GhostTypes
  <2> QED BY <1>x, <2>1, <2>2
<1>g. a # w10
  BY <1>0, <1>a, <1>b DEF EngineIs
<1>h. SignalledIs' /\ BuildCovers'
  <2> SUFFICES ASSUME NEW d \in Pace!Class, Owed(d)'
               PROVE  \/ w1'[d].first # Pace!None
                      \/ \E b \in Pace!Actor : b # w10 /\ w4'[b] \in Enters(d)
                      \/ /\ Owed(d) /\ w16'[d] = w16[d] /\ w1[d].first = Pace!None
                         /\ \A b \in Pace!Actor : w4[b] \in Steps(d) => w4'[b] = w4[b]
    BY <1>0, <1>a, CadCovered
  <2>1. CASE d = "bulk" /\ x = "bulk.lock"
    BY <1>b, <1>c, <1>g, <2>1 DEF Enters, Giving
  <2>2. CASE d = "bulk" /\ x = "top"
    BY <1>a, <1>d, <1>f, <2>2 DEF Owed
  <2>3. CASE d = "small"
    BY <1>a, <1>c, <1>f, <2>3 DEF Owed, Steps
  <2> QED BY <1>x, <2>1, <2>2, <2>3, CadActors
<1>1. CountsAre'
  BY <1>0, <1>a, <1>b, <1>c, <1>x, CadActors DEF CountsAre, One, BulkSteps
<1>2. EngineIs'
  BY <1>0, <1>a, <1>b, <1>c, <1>x DEF EngineIs
<1>3. SleepIs'
  <2> SUFFICES ASSUME NEW d \in Pace!Loop PROVE SleepOk(d)'
    BY DEF SleepIs
  <2>1. SleepOk(d)
    BY <1>0 DEF SleepIs
  <2> QED BY <2>1, CadSleeps, <1>a, <1>b, <1>c, <1>x
<1>4. ClockTypes' /\ ModeTypes' /\ LoopTypes' /\ BuildIs'
  BY <1>0 DEF Pace!BulkYield, Pace!SnapRest, ClockTypes, ModeTypes, LoopTypes, BuildIs, ClockOk, Pace!Longest
<1> QED BY <1>c, <1>f, <1>1, <1>2, <1>h, <1>3, <1>4 DEF CadInv

(* BulkLock keeps the invariant.                                           *)
LEMMA CadBulkLock ==
  ASSUME CadInv, NEW a \in Pace!Actor, Pace!BulkLock(a)
  PROVE  CadInv'
<1>0. /\ ClockTypes /\ ModeTypes /\ PlaceTypes /\ LoopTypes /\ GhostTypes /\ CountsAre
      /\ EngineIs /\ BuildIs /\ BuildCovers /\ SignalledIs /\ SleepIs
  BY DEF CadInv
<1>a. /\ w4[a] = "bulk.lock"
      /\ w4' = [w4 EXCEPT ![a] = "bulk.build"]
      /\ UNCHANGED <<w1, w2, w3, w5, w6, w7, w8, w9, w12, w16, w17, w18>>
      /\ w10 = "free"
      /\ w10' = a
      /\ w15' = w15
  BY DEF Pace!BulkLock, Pace!SnapRest
<1>b. /\ a \in Pace!Actor
      /\ a = "bulk" \/ a = "caller"
      /\ "bulk.build" \in Places
      /\ PlaceOk(a, "bulk.build")
  BY <1>0, <1>a, CadActors DEF PlaceTypes, Pace!After, Places, PlaceOk, SmallPlaces, BulkPlaces,
       CallerPlaces, LoopSteps, SmallSteps, BulkSteps
<1>c. PlaceTypes' /\ w4'[a] = "bulk.build" /\ \A b \in Pace!Actor : b # a => w4'[b] = w4[b]
  BY <1>0, <1>a, <1>b, CadAt
<1>d. w11' = [listed |-> w15["bulk"], left |-> IF w11.left = 0 THEN BuildUnits ELSE w11.left]
  BY DEF Pace!BulkLock
<1>e. w11'.listed = w15["bulk"] /\ w15["bulk"] \in Nat /\ w16["bulk"] \in Nat /\ w16["bulk"] <= w15["bulk"]
  BY <1>0, <1>d, CadActors, CadGhosts
<1>1. CountsAre'
  BY <1>0, <1>a, <1>b, <1>c, CadActors DEF CountsAre, One, BulkSteps
<1>2. EngineIs'
  BY <1>0, <1>a, <1>b, <1>c, CadActors DEF EngineIs
<1>3. BuildIs'
  <2>1. w11.left \in 0 .. BuildUnits /\ BuildUnits \in Nat /\ BuildUnits > 0
    BY <1>0, CadConfig DEF BuildIs
  <2>2. (IF w11.left = 0 THEN BuildUnits ELSE w11.left) \in 0 .. BuildUnits /\ (IF w11.left = 0 THEN BuildUnits ELSE w11.left) > 0
    BY <2>1
  <2>3. PICK n, m : n = w15["bulk"] /\ m = (IF w11.left = 0 THEN BuildUnits ELSE w11.left)
    OBVIOUS
  <2>4. w11' = [listed |-> n, left |-> m] /\ n \in Nat /\ m \in 0 .. BuildUnits /\ m > 0
    BY <1>d, <1>e, <2>2, <2>3
  <2>5. w11' \in [listed : Nat, left : 0 .. BuildUnits] /\ w11'.left > 0
    BY <2>4
  <2> QED BY <1>a, <1>e, <2>5 DEF BuildIs
<1>4. BuildCovers'
  BY <1>a, <1>e DEF BuildCovers
<1>5. SignalledIs'
  <2> SUFFICES ASSUME NEW d \in Pace!Class, Owed(d)',
       w1'[d].first = Pace!None PROVE \E b \in Pace!Actor : w4'[b] \in Steps(d)
    BY DEF SignalledIs, Reads, Steps, Owed
  <2>1. CASE d = "bulk"
    BY <1>b, <1>c, <2>1 DEF Steps
  <2>2. CASE d = "small"
    <3>1. Owed(d) /\ w1[d].first = Pace!None
      BY <1>a DEF Owed
    <3>2. \E b \in Pace!Actor : w4[b] \in Steps(d)
      BY <1>0, <3>1 DEF SignalledIs, Reads
    <3> QED BY <1>a, <1>c, <2>2, <3>2 DEF Steps
  <2> QED BY <2>1, <2>2, CadActors
<1>6. SleepIs'
  <2> SUFFICES ASSUME NEW d \in Pace!Loop PROVE SleepOk(d)'
    BY DEF SleepIs
  <2>1. SleepOk(d)
    BY <1>0 DEF SleepIs
  <2> QED BY <2>1, CadSleeps, <1>a, <1>b, <1>c
<1>7. ClockTypes' /\ ModeTypes' /\ LoopTypes' /\ GhostTypes'
  BY <1>0 DEF Pace!BulkLock, Pace!SnapRest, ClockTypes, ModeTypes, LoopTypes, GhostTypes, ClockOk,
       Pace!Longest
<1> QED BY <1>c, <1>1, <1>2, <1>3, <1>4, <1>5, <1>6, <1>7 DEF CadInv

(* BulkGiveWay keeps the invariant.                                        *)
LEMMA CadBulkGiveWay ==
  ASSUME CadInv, NEW a \in Pace!Actor, Pace!BulkGiveWay(a)
  PROVE  CadInv'
<1>0. /\ ClockTypes /\ ModeTypes /\ PlaceTypes /\ LoopTypes /\ GhostTypes /\ CountsAre
      /\ EngineIs /\ BuildIs /\ BuildCovers /\ SignalledIs /\ SleepIs
  BY DEF CadInv
<1>a. /\ w4[a] = "bulk.build"
      /\ w4' = [w4 EXCEPT ![a] = "bulk.yield"]
      /\ UNCHANGED <<w1, w2, w3, w5, w6, w7, w8, w9, w11, w12, w16, w17, w18>>
      /\ w10' = "free"
  BY DEF Pace!BulkGiveWay, Pace!SnapRest
<1>b. /\ a \in Pace!Actor
      /\ a = "bulk" \/ a = "caller"
      /\ "bulk.yield" \in Places
      /\ PlaceOk(a, "bulk.yield")
  BY <1>0, <1>a, CadActors DEF PlaceTypes, Pace!After, Places, PlaceOk, SmallPlaces, BulkPlaces,
       CallerPlaces, LoopSteps, SmallSteps, BulkSteps
<1>c. PlaceTypes' /\ w4'[a] = "bulk.yield" /\ \A b \in Pace!Actor : b # a => w4'[b] = w4[b]
  BY <1>0, <1>a, <1>b, CadAt
<1>1. CountsAre'
  BY <1>0, <1>a, <1>b, <1>c, CadActors DEF CountsAre, One, BulkSteps
<1>2. EngineIs'
  BY <1>0, <1>a, <1>b, <1>c, CadActors DEF EngineIs
<1>3. BuildIs'
  BY <1>0, CadConfig DEF Pace!BulkGiveWay, Pace!SnapRest, BuildIs
<1>4. BuildCovers'
  BY <1>a DEF BuildCovers
<1>5. SignalledIs'
  <2> SUFFICES ASSUME NEW d \in Pace!Class, Owed(d)',
       w1'[d].first = Pace!None PROVE \E b \in Pace!Actor : w4'[b] \in Steps(d)
    BY DEF SignalledIs, Reads, Steps, Owed
  <2>1. CASE d = "bulk"
    BY <1>b, <1>c, <2>1 DEF Steps
  <2>2. CASE d = "small"
    <3>1. Owed(d) /\ w1[d].first = Pace!None
      BY <1>a DEF Owed
    <3>2. \E b \in Pace!Actor : w4[b] \in Steps(d)
      BY <1>0, <3>1 DEF SignalledIs, Reads
    <3> QED BY <1>a, <1>c, <2>2, <3>2 DEF Steps
  <2> QED BY <2>1, <2>2, CadActors
<1>6. SleepIs'
  <2> SUFFICES ASSUME NEW d \in Pace!Loop PROVE SleepOk(d)'
    BY DEF SleepIs
  <2>1. SleepOk(d)
    BY <1>0 DEF SleepIs
  <2> QED BY <2>1, CadSleeps, <1>a, <1>b, <1>c
<1>7. ClockTypes' /\ ModeTypes' /\ LoopTypes' /\ GhostTypes'
  BY <1>0 DEF Pace!BulkGiveWay, Pace!SnapRest, ClockTypes, ModeTypes, LoopTypes, GhostTypes, ClockOk,
       Pace!Longest
<1> QED BY <1>c, <1>1, <1>2, <1>3, <1>4, <1>5, <1>6, <1>7 DEF CadInv

(* BulkRead keeps the invariant.                                           *)
LEMMA CadBulkRead ==
  ASSUME CadInv, NEW a \in Pace!Actor, Pace!BulkRead(a)
  PROVE  CadInv'
<1>0. /\ ClockTypes /\ ModeTypes /\ PlaceTypes /\ LoopTypes /\ GhostTypes /\ CountsAre
      /\ EngineIs /\ BuildIs /\ BuildCovers /\ SignalledIs /\ SleepIs
  BY DEF CadInv
<1>1. /\ w4[a] = "bulk.build" /\ w11' = [w11 EXCEPT !.left = w11.left - 1]
      /\ UNCHANGED <<w1, w2, w3, w5, w6, w7, w8, w9, w12, w16, w14, w15, w18>>
  BY DEF Pace!BulkRead, Pace!SnapRest
<1>2. /\ w11 \in [listed : Nat, left : 0 .. BuildUnits] /\ w11.left > 0 /\ w10 = a /\ BuildUnits \in Nat
      /\ a # "free" /\ (a = "bulk" \/ a = "caller")
  BY <1>0, <1>1, CadConfig, CadActors DEF BuildIs, EngineIs, PlaceTypes, Places, PlaceOk, SmallPlaces,
       BulkPlaces, CallerPlaces, LoopSteps, SmallSteps, BulkSteps
<1>3. w11' \in [listed : Nat, left : 0 .. BuildUnits] /\ w11'.listed = w11.listed /\ w11'.left = w11.left - 1
  BY <1>1, <1>2
<1>4. ClockTypes' /\ ModeTypes' /\ LoopTypes'
  BY <1>0, <1>1 DEF ClockTypes, ClockOk, Clocks, Pace!Longest, ModeTypes, LoopTypes
<1>5. CASE w11.left > 1 /\ UNCHANGED <<w10, w4, w17>>
  <2>1. PlaceTypes' /\ GhostTypes' /\ CountsAre' /\ EngineIs'
    BY <1>0, <1>1, <1>5 DEF PlaceTypes, GhostTypes, CountsAre, EngineIs
  <2>2. BuildIs'
    BY <1>0, <1>1, <1>2, <1>3, <1>5 DEF BuildIs
  <2>3. BuildCovers' /\ SignalledIs'
    BY <1>0, <1>1, <1>3, <1>5 DEF BuildCovers, SignalledIs, Owed, Reads, Steps
  <2>4. SleepIs'
    BY <1>0, <1>1, <1>5 DEF SleepIs, SleepOk, Left, Pace!Due, Pace!DueWatched
  <2> QED BY <1>4, <2>1, <2>2, <2>3, <2>4 DEF CadInv
<1>6. CASE /\ w17' = [w17 EXCEPT !["bulk"] = Pace!Larger(w17["bulk"], w11.listed)]
           /\ w10' = "free" /\ w4' = [w4 EXCEPT ![a] = "bulk.end"]
  <2>1. "bulk.end" \in Places /\ PlaceOk(a, "bulk.end")
    BY <1>2 DEF Places, PlaceOk, SmallPlaces, BulkPlaces, CallerPlaces, LoopSteps, SmallSteps, BulkSteps
  <2>2. PlaceTypes' /\ w4'[a] = "bulk.end" /\ \A b \in Pace!Actor : b # a => w4'[b] = w4[b]
    BY <1>0, <1>6, <2>1, CadAt
  <2>3. /\ w17["bulk"] \in Nat /\ w16["bulk"] \in Nat /\ w18["bulk"] \in Nat /\ w11.listed \in Nat
        /\ w17["bulk"] <= w15["bulk"] /\ w15["bulk"] \in Nat /\ w11.listed <= w15["bulk"]
    BY <1>0, <1>2, CadGhosts, CadActors DEF BuildIs
  <2>4. /\ w17'["bulk"] = Pace!Larger(w17["bulk"], w11.listed) /\ w17'["small"] = w17["small"]
        /\ w17'["bulk"] \in Nat /\ w17'["bulk"] >= w17["bulk"] /\ w17'["bulk"] >= w11.listed
        /\ w17'["bulk"] <= w15["bulk"] /\ w17' \in [Pace!Class -> Nat]
    <3>1. /\ Pace!Larger(w17["bulk"], w11.listed) \in Nat
          /\ Pace!Larger(w17["bulk"], w11.listed) <= w15["bulk"]
          /\ Pace!Larger(w17["bulk"], w11.listed) >= w17["bulk"]
          /\ Pace!Larger(w17["bulk"], w11.listed) >= w11.listed
      BY <2>3 DEF Pace!Larger
    <3> QED BY <1>0, <1>6, <3>1, CadActors DEF GhostTypes
  <2>5. GhostTypes'
    BY <1>0, <1>1, <2>4, CadActors DEF GhostTypes
  <2>6. CountsAre'
    BY <1>0, <1>1, <1>2, <2>2, CadActors DEF CountsAre, One, BulkSteps
  <2>7. EngineIs'
    BY <1>0, <1>1, <1>2, <1>6, <2>2, CadActors DEF EngineIs
  <2>8. BuildIs' /\ BuildCovers'
    BY <1>1, <1>3, <1>6, <2>3 DEF BuildIs, BuildCovers
  <2>9. SignalledIs'
    <3> SUFFICES ASSUME NEW d \in Pace!Class, Owed(d)',
         w1'[d].first = Pace!None PROVE \E b \in Pace!Actor : w4'[b] \in Steps(d)
      BY DEF SignalledIs, Reads, Steps, Owed
    <3>1. CASE d = "bulk"
      <4>1. Owed("bulk") /\ w16["bulk"] > w11.listed
        BY <1>1, <2>3, <2>4, <3>1 DEF Owed
      <4>2. PICK b \in Pace!Actor : b # a /\ w4[b] \in Giving
        BY <1>0, <1>1, <1>2, <3>1, <4>1 DEF BuildCovers
      <4> QED BY <2>2, <3>1, <4>2 DEF Steps, Giving
    <3>2. CASE d = "small"
      <4>1. Owed(d) /\ w1[d].first = Pace!None
        BY <1>1, <2>4, <3>2 DEF Owed
      <4>2. PICK b \in Pace!Actor : w4[b] \in Steps(d)
        BY <1>0, <4>1 DEF SignalledIs, Reads
      <4> QED BY <1>1, <2>2, <3>2, <4>2 DEF Steps
    <3> QED BY <3>1, <3>2, CadActors
  <2>10. SleepIs'
    <3> SUFFICES ASSUME NEW d \in Pace!Loop PROVE SleepOk(d)'
      BY DEF SleepIs
    <3>1. SleepOk(d)
      BY <1>0 DEF SleepIs
    <3>2. d \in Pace!Actor
      BY CadActors
    <3>3. w4'[d] = "asleep" => w4[d] = "asleep"
      BY <2>2, <3>2
    <3> QED BY <1>1, <3>1, <3>3, CadSleeps
  <2> QED BY <1>4, <2>2, <2>5, <2>6, <2>7, <2>8, <2>9, <2>10 DEF CadInv
<1> QED BY <1>1, <1>2, <1>5, <1>6 DEF Pace!BulkRead

(* BulkFail keeps the invariant.                                           *)
LEMMA CadBulkFail ==
  ASSUME CadInv, NEW a \in Pace!Actor, Pace!BulkFail(a)
  PROVE  CadInv'
<1>0. /\ ClockTypes /\ ModeTypes /\ PlaceTypes /\ LoopTypes /\ GhostTypes /\ CountsAre
      /\ EngineIs /\ BuildIs /\ BuildCovers /\ SignalledIs /\ SleepIs
  BY DEF CadInv
<1>a. /\ w4[a] = "bulk.build"
      /\ w4' = [w4 EXCEPT ![a] = "bulk.end"]
      /\ UNCHANGED <<w1, w2, w3, w5, w6, w7, w8, w9, w12, w16, w17>>
      /\ w10' = "free"
      /\ UNCHANGED <<w14, w15>>
  BY DEF Pace!BulkFail, Pace!SnapRest
<1>b. /\ a \in Pace!Actor
      /\ a = "bulk" \/ a = "caller"
      /\ "bulk.end" \in Places
      /\ PlaceOk(a, "bulk.end")
  BY <1>0, <1>a, CadActors DEF PlaceTypes, Pace!After, Places, PlaceOk, SmallPlaces, BulkPlaces,
       CallerPlaces, LoopSteps, SmallSteps, BulkSteps
<1>c. PlaceTypes' /\ w4'[a] = "bulk.end" /\ \A b \in Pace!Actor : b # a => w4'[b] = w4[b]
  BY <1>0, <1>a, <1>b, CadAt
<1>d. w18' = [w18 EXCEPT !["bulk"] = w15["bulk"]] /\ w11' = [w11 EXCEPT !.left = 0]
  BY DEF Pace!BulkFail
<1>e. /\ w18'["bulk"] = w15["bulk"] /\ w18'["small"] = w18["small"] /\ w15["bulk"] \in Nat
      /\ w16["bulk"] \in Nat /\ w16["bulk"] <= w15["bulk"]
  BY <1>0, <1>d, CadActors, CadGhosts DEF GhostTypes
<1>1. GhostTypes'
  <2>1. \A d \in Pace!Class : /\ w14[d] \in Nat /\ w15[d] \in Nat /\ w16[d] \in Nat /\ w17[d] \in Nat /\ w18[d] \in Nat
                         /\ w14[d] <= w15[d] /\ w16[d] <= w15[d] /\ w17[d] <= w15[d]
    BY <1>0, CadGhosts
  <2> QED BY <1>0, <1>a, <1>d, <2>1, CadActors DEF GhostTypes
<1>2. CountsAre'
  BY <1>0, <1>a, <1>b, <1>c, CadActors DEF CountsAre, One, BulkSteps
<1>3. EngineIs'
  BY <1>0, <1>a, <1>b, <1>c, CadActors DEF EngineIs
<1>4. BuildIs'
  <2>1. BuildUnits \in Nat /\ w11 \in [listed : Nat, left : 0 .. BuildUnits]
    BY <1>0, CadConfig DEF BuildIs
  <2>2. w11' \in [listed : Nat, left : 0 .. BuildUnits] /\ w11'.listed = w11.listed
    BY <1>d, <2>1
  <2> QED BY <1>0, <1>a, <2>2 DEF BuildIs
<1>5. BuildCovers'
  BY <1>a DEF BuildCovers
<1>6. SignalledIs'
  <2> SUFFICES ASSUME NEW d \in Pace!Class, Owed(d)',
       w1'[d].first = Pace!None PROVE \E b \in Pace!Actor : w4'[b] \in Steps(d)
    BY DEF SignalledIs, Reads, Steps, Owed
  <2>1. CASE d = "bulk"
    BY <1>a, <1>e, <2>1 DEF Owed
  <2>2. CASE d = "small"
    <3>1. Owed(d) /\ w1[d].first = Pace!None
      BY <1>a, <1>e, <2>2 DEF Owed
    <3>2. \E b \in Pace!Actor : w4[b] \in Steps(d)
      BY <1>0, <3>1 DEF SignalledIs, Reads
    <3> QED BY <1>a, <1>c, <2>2, <3>2 DEF Steps
  <2> QED BY <2>1, <2>2, CadActors
<1>7. SleepIs'
  <2> SUFFICES ASSUME NEW d \in Pace!Loop PROVE SleepOk(d)'
    BY DEF SleepIs
  <2>1. SleepOk(d)
    BY <1>0 DEF SleepIs
  <2> QED BY <2>1, CadSleeps, <1>a, <1>b, <1>c
<1>8. ClockTypes' /\ ModeTypes' /\ LoopTypes'
  BY <1>0 DEF Pace!BulkFail, Pace!SnapRest, ClockTypes, ModeTypes, LoopTypes, ClockOk, Pace!Longest
<1> QED BY <1>c, <1>1, <1>2, <1>3, <1>4, <1>5, <1>6, <1>7, <1>8 DEF CadInv

(* BulkEnd keeps the invariant.                                            *)
LEMMA CadBulkEnd ==
  ASSUME CadInv, NEW a \in Pace!Actor, Pace!BulkEnd(a)
  PROVE  CadInv'
<1>0. /\ ClockTypes /\ ModeTypes /\ PlaceTypes /\ LoopTypes /\ GhostTypes /\ CountsAre
      /\ EngineIs /\ BuildIs /\ BuildCovers /\ SignalledIs /\ SleepIs
  BY DEF CadInv
<1>a. /\ w4[a] = "bulk.end" /\ w7' /\ UNCHANGED <<w2, w3, w5, w6, w10, w11, w12, w16, w17, w18>>
  BY DEF Pace!BulkEnd, Pace!SnapRest
<1>x. PICK x \in {"top", "bulk", "done"} : w4' = [w4 EXCEPT ![a] = x] /\ (a # "caller" <=> x = "top")
  BY DEF Pace!BulkEnd, Pace!After
<1>b. a \in Pace!Actor /\ x \in Places /\ PlaceOk(a, x) /\ (a = "bulk" \/ a = "caller")
  BY <1>0, <1>a, <1>x, CadActors DEF PlaceTypes, Places, PlaceOk, SmallPlaces, BulkPlaces, CallerPlaces,
       LoopSteps, SmallSteps, BulkSteps
<1>c. PlaceTypes' /\ w4'[a] = x /\ \A b \in Pace!Actor : b # a => w4'[b] = w4[b]
  BY <1>0, <1>b, <1>x, CadAt
<1>d. ClockTypes' /\ \A d \in Pace!Class : w1'[d].first = w1[d].first
  <2> DEFINE k == [w1["bulk"] EXCEPT !.snap = 0]
  <2>1. "bulk" \in Pace!Class /\ 0 \in 0 .. Pace!Longest("bulk")
    BY <1>0, CadActors, CadConfig
  <2>2. k \in Clocks /\ ClockOk("bulk", k) /\ k.first = w1["bulk"].first
    BY <1>0, <2>1, CadSnap
  <2>3. w1' = [w1 EXCEPT !["bulk"] = k]
    BY DEF Pace!BulkEnd
  <2> HIDE DEF k
  <2> QED BY <1>0, <1>a, <2>1, <2>2, <2>3, CadClock
<1>h. SignalledIs' /\ BuildCovers'
  <2> SUFFICES ASSUME NEW d \in Pace!Class, Owed(d)'
               PROVE  \/ w1'[d].first # Pace!None
                      \/ \E b \in Pace!Actor : b # w10 /\ w4'[b] \in Enters(d)
                      \/ /\ Owed(d) /\ w16'[d] = w16[d] /\ w1[d].first = Pace!None
                         /\ \A b \in Pace!Actor : w4[b] \in Steps(d) => w4'[b] = w4[b]
    BY <1>0, <1>a, CadCovered
  <2> QED BY <1>a, <1>c, <1>d DEF Owed, Steps
<1>1. LoopTypes'
  BY <1>0, CadConfig DEF Pace!BulkEnd, Pace!SnapRest, LoopTypes, Pace!Loop, Pace!Class
<1>2. CountsAre'
  BY <1>0, <1>a, <1>b, <1>c, <1>x, CadActors DEF CountsAre, One, BulkSteps, Pace!Forced, Pace!BulkEnd
<1>3. EngineIs'
  BY <1>0, <1>a, <1>b, <1>c, <1>x DEF EngineIs
<1>4. SleepIs'
  BY <1>a DEF SleepIs, SleepOk
<1>5. ModeTypes' /\ GhostTypes' /\ BuildIs'
  BY <1>0 DEF Pace!BulkEnd, Pace!SnapRest, ModeTypes, GhostTypes, BuildIs
<1> QED BY <1>d, <1>c, <1>1, <1>2, <1>3, <1>h, <1>4, <1>5 DEF CadInv

(* The invariant holds at the start.                                       *)
LEMMA CadInitial ==
  ASSUME Pace!CadenceInit
  PROVE  CadInv
<1> USE DEF Pace!CadenceInit
<1>0. /\ w12 \in CadenceTable /\ w1 \in [Pace!Class -> Clocks]
      /\ \A c \in Pace!Class : w1[c].first = -1 /\ w1[c].last = -1 /\ w1[c].snap = 0
  BY DEF Clocks, Pace!None
<1>1. \A c \in Pace!Class : w12[c].max \in Nat /\ w12[c].quiet \in Nat /\ w12[c].reconcile \in Nat
  <2>1. \A c \in Pace!Class : {w12[c].quiet, w12[c].max, w12[c].reconcile} \subseteq Nat \ {0}
    BY <1>0, CadenceConstant DEF Pace!CadenceConstants
  <2> QED BY <2>1
<1>2. ClockTypes
  BY <1>0, <1>1 DEF ClockTypes, ClockOk, Pace!Longest, Pace!Larger
<1>3. ModeTypes
  <2>1. w2 \in [Pace!Class -> {"watched", "polled"}]
    BY <1>2, CadConfig
  <2> QED BY <2>1 DEF ModeTypes
<1>4. PlaceTypes /\ \A a \in Pace!Actor : w4[a] \in {"idle", "top", "gone"}
  <2>1. \A a \in Pace!Actor : w4[a] \in {"idle", "top", "gone"} /\ w4[a] \in Places /\ PlaceOk(a, w4[a])
    BY CadActors DEF Places, PlaceOk, SmallPlaces, BulkPlaces, CallerPlaces, LoopSteps, SmallSteps, BulkSteps
  <2>2. w4 \in [Pace!Actor -> Places]
    BY <2>1
  <2> QED BY <2>1, <2>2 DEF PlaceTypes
<1>5. LoopTypes
  BY DEF LoopTypes
<1>6. GhostTypes
  BY DEF GhostTypes
<1>7. CountsAre /\ EngineIs
  BY <1>4, CadActors DEF CountsAre, EngineIs, One, BulkSteps
<1>8. BuildIs /\ BuildCovers
  BY <1>2, CadConfig, CadActors DEF BuildIs, BuildCovers
<1>9. SignalledIs
  BY DEF SignalledIs, Owed
<1>10. SleepIs
  BY <1>4, CadActors DEF SleepIs, SleepOk
<1> QED BY <1>2, <1>3, <1>4, <1>5, <1>6, <1>7, <1>8, <1>9, <1>10 DEF CadInv

(* Every step keeps the invariant.                                         *)
LEMMA CadStep ==
  ASSUME CadInv, Pace!CadenceNext
  PROVE  CadInv'
BY CadTick, CadNotify, CadSignalOverflow, CadAskRepair, CadAdmission, CadForceSnaps, CadStop, CadWrite,
     CadSignalChanged, CadSignalUnwatched, CadSignalRewatched, CadAliasMoved, CadLoopTop, CadLoopDue,
     CadLoopSleep, CadLoopWake, CadLoopRepair, CadSmallBegin, CadSmallWalk, CadSmallEnd, CadBulkBegin,
     CadBulkYield, CadBulkLock, CadBulkGiveWay, CadBulkRead, CadBulkFail,
     CadBulkEnd DEF Pace!CadenceNext, Pace!LoopStep, Pace!SnapStep

(* The invariant is strong enough.                                         *)
LEMMA CadInvImplies ==
  ASSUME CadInv
  PROVE  Pace!CadenceTypeOK /\ Pace!NothingForgotten
<1>0. /\ ClockTypes /\ ModeTypes /\ PlaceTypes /\ LoopTypes /\ GhostTypes /\ CountsAre
      /\ EngineIs /\ BuildIs /\ BuildCovers /\ SignalledIs /\ SleepIs
  BY DEF CadInv
<1>1. \A c \in Pace!Class : /\ w1[c].first \in -1 .. w12[c].max /\ w1[c].last \in -1 .. w12[c].quiet
                       /\ w1[c].snap \in 0 .. Pace!Longest(c) /\ w17[c] <= w15[c] /\ w16[c] <= w15[c]
  BY <1>0, CadAges, CadGhosts
<1>2. w8 \in 0 .. 2 /\ w9 \in 0 .. 1
  BY <1>0 DEF CountsAre, One
<1>3. w2 \in [Pace!Class -> {"watched",
     "polled"}] /\ w10 \in {"free"} \cup Pace!Actor /\ w11.left \in 0 .. BuildUnits
  BY <1>0 DEF ModeTypes, EngineIs, BuildIs
<1>4. w10 # "free" => w4[w10] = "bulk.build"
  BY <1>0 DEF EngineIs
<1>5. Pace!CadenceTypeOK
  BY <1>1, <1>2, <1>3, <1>4 DEF Pace!CadenceTypeOK
<1>6. Pace!NoStaleSleep
  BY <1>0 DEF SleepIs, SleepOk, Left, Pace!NoStaleSleep
<1>7. Pace!SignalledStaysDue
  <2> SUFFICES ASSUME NEW c \in Pace!Active, w16[c] > Pace!Larger(w17[c], w18[c])
               PROVE  w1[c].first # Pace!None \/ Pace!Reading(c)
    BY DEF Pace!SignalledStaysDue
  <2>1. c \in Pace!Class
    BY <1>0, CadConfig DEF Pace!Active
  <2>2. Owed(c)
    BY <1>0, <2>1, CadGhosts DEF Owed, Pace!Larger
  <2> QED BY <1>0, <2>1, <2>2 DEF SignalledIs, Reads, Steps, Pace!Reading
<1> QED BY <1>5, <1>6, <1>7 DEF Pace!NothingForgotten

CadPart == part = "cadence" => CadInv

(* The invariant is about these variables alone.                           *)
LEMMA CadStutters ==
  ASSUME CadInv, UNCHANGED <<w1, w2, w3, w4, w5, w6, w7, w8, w9, w10, w11, w12, w13, w14, w15, w16, w17,
                             w18, w19>>
  PROVE  CadInv'
<1>1. ClockTypes'
  BY DEF CadInv, ClockTypes, ClockOk, Pace!Longest
<1>2. ModeTypes'
  BY DEF CadInv, ModeTypes
<1>3. PlaceTypes'
  BY DEF CadInv, PlaceTypes
<1>4. LoopTypes'
  BY DEF CadInv, LoopTypes
<1>5. GhostTypes'
  BY DEF CadInv, GhostTypes
<1>6. CountsAre'
  BY DEF CadInv, CountsAre
<1>7. EngineIs'
  BY DEF CadInv, EngineIs
<1>8. BuildIs'
  BY DEF CadInv, BuildIs
<1>9. BuildCovers'
  BY DEF CadInv, BuildCovers, Owed
<1>10. SignalledIs'
  BY DEF CadInv, SignalledIs, Owed, Reads, Steps
<1>11. SleepIs'
  BY DEF CadInv, SleepIs, SleepOk, Left, Pace!Due, Pace!DueWatched
<1> QED BY <1>1, <1>2, <1>3, <1>4, <1>5, <1>6, <1>7, <1>8, <1>9, <1>10, <1>11 DEF CadInv

(* Whatever part runs, this one keeps its invariant.                       *)
LEMMA CadAlways ==
  ASSUME CadPart, [LifecycleNext]_partVars
  PROVE  CadPart'
<1> SUFFICES ASSUME part' = "cadence" PROVE CadInv'
  BY DEF CadPart
<1>1. part = "cadence"
  BY DEF LifecycleNext, partVars
<1>2. CadInv
  BY <1>1 DEF CadPart
<1>3. CASE Pace!CadenceNext
  BY <1>2, <1>3, CadStep
<1>4. CASE UNCHANGED <<w1, w2, w3, w4, w5, w6, w7, w8, w9, w10, w11, w12, w13, w14, w15, w16, w17, w18, w19>>
  BY <1>2, <1>4, CadStutters
<1> QED BY <1>1, <1>3, <1>4 DEF LifecycleNext, partVars, From1, From3, From4, From5, From6, From7,
     From8, From10, From12, From13, From15, From17

(* A loop sleeps no longer than what it would decide on now, and a change  *)
(* it was told of is due or about to be read until a snap has read it or   *)
(* was refused, for any times, writes, faults and forced snaps, wherever a *)
(* signal, a forced snap or a preempted build falls (cadence.rs            *)
(* sleep_unless_changed, small_snap, bulk_snap).                           *)
THEOREM CadenceCorrect == LifecycleSpec => []NothingForgotten
<1>1. LifecycleInit => CadPart
  BY CadInitial DEF LifecycleInit, CadPart
<1>2. CadPart /\ [LifecycleNext]_partVars => CadPart'
  BY CadAlways
<1>3. CadPart => NothingForgotten
  BY CadInvImplies DEF NothingForgotten, CadPart
<1> QED BY <1>1, <1>2, <1>3, PTL DEF LifecycleSpec
===============================================================================
