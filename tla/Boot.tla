-------------------------------- MODULE Boot --------------------------------
(***************************************************************************)
(* The boot supervisor (crates/sealantd/src/boot/mod.rs) and the final     *)
(* flushes that end it (crates/sealantd/src/runtime.rs, app.rs).           *)
(*                                                                         *)
(* One task prepares the disk, starts the capture engine, runs the         *)
(* lifecycle steps one by one, launches the harness and waits for it, for  *)
(* a stop or for the control server's end; it then runs the final flush of *)
(* every exit and answers with an exit code.  Four requesters share the    *)
(* final flush, one at a time: the signal listener, a gracefulShutdown, a  *)
(* capture.flush of the control plane and that exit.  What the flush does  *)
(* inside is FinalFlush; here it stops the writers, cleanly or not, finds  *)
(* nothing to save, or saves what there is, completely or not.             *)
(***************************************************************************)
EXTENDS Integers, FiniteSets

CONSTANTS BootLimits  \* a set of [recovery, engine, standby, steps, deadline, orders, faults]

VARIABLES boot,    \* the supervisor's task and the daemon's shutdown signal
          final,   \* what the requesters of a final flush share
          flush    \* where each requester stands

bootVars == <<boot, final, flush>>

Requesters == {"listener", "command", "control", "exit"}
\* The requesters whose flush the shutdown's deadline cuts short (exit_final_flush).
Bounded == {"listener", "command", "exit"}

SUCCESS == 0
FAILURE == 1
EXIT_CAPTURE_INCOMPLETE == 75
EXIT_NOTHING_TO_SAVE == 76
EXIT_STORE_UNFIT == 78
HarnessCode == 3       \* any code the harness or a step ends with by itself
Running == -1          \* no exit code yet

BootInit ==
    /\ \E l \in BootLimits :
          /\ boot = [stage |-> "prepare", step |-> 0, proc |-> "none", code |-> Running,
                     exit |-> Running, requested |-> FALSE, control |-> "down",
                     down |-> FALSE, faults |-> 0, signalled |-> FALSE, limit |-> l]
          /\ final = [closed |-> FALSE, lock |-> "free", quiesced |-> "never",
                      claim |-> IF l.standby THEN "unclaimed" ELSE "claimed",
                      last |-> "none", saved |-> FALSE, cutoff |-> "none", engine |-> FALSE,
                      orphaned |-> FALSE]
    /\ flush = [r \in Requesters |-> "idle"]

Limit == boot.limit
At(stage) == boot.stage = stage
Faulty == boot.faults < Limit.faults
Fault(b) == [b EXCEPT !.faults = @ + 1]

\* boot_failure: before the engine runs, a recovery boot never fails plainly.
boot_failure == IF Limit.recovery THEN EXIT_CAPTURE_INCOMPLETE ELSE FAILURE

\* prepare_exit_code, by the error.
prepare_exit_code(error) ==
    CASE error \in {"NeverMaterialized", "NeverClaimed"} -> EXIT_NOTHING_TO_SAVE
      [] error = "StoreUnfit" -> EXIT_STORE_UNFIT
      [] error = "DiskInUse" \/ (Limit.recovery /\ error = "Other") -> EXIT_CAPTURE_INCOMPLETE
      [] OTHER -> FAILURE

----------------------------------------------------------------------------
(* Preparation, before anything listens.                                   *)

PrepareErrors ==
    {"Other"} \cup (IF Limit.engine THEN {"DiskInUse", "StoreUnfit"} ELSE {})
              \cup (IF Limit.recovery THEN {"NeverMaterialized"} ELSE {})
              \cup (IF Limit.recovery /\ Limit.standby THEN {"NeverClaimed"} ELSE {})

PrepareFails ==
    /\ At("prepare") /\ Faulty
    /\ \E error \in PrepareErrors :
          boot' = [Fault(boot) EXCEPT !.stage = "exited", !.exit = prepare_exit_code(error)]
    /\ UNCHANGED <<final, flush>>

\* A recovery boot over an unclaimed standby's marker never gets further.
Prepared ==
    /\ At("prepare")
    /\ ~(Limit.recovery /\ Limit.standby)
    /\ boot' = [boot EXCEPT !.stage = "binds"]
    /\ UNCHANGED <<final, flush>>

BindsFail ==
    /\ At("binds") /\ Faulty
    /\ boot' = [Fault(boot) EXCEPT !.stage = "terminate", !.code = boot_failure]
    /\ UNCHANGED <<final, flush>>

\* The binds are in; a recovery closes admission; the capture engine starts.
StartCapture ==
    /\ At("binds")
    /\ boot' = [boot EXCEPT !.stage = IF Limit.recovery THEN "wss" ELSE "dotfiles"]
    /\ final' = [final EXCEPT !.closed = Limit.recovery, !.engine = Limit.engine]
    /\ UNCHANGED flush

\* final_capture(code): from here the exit's own final flush runs.
Ending(b, code) == [b EXCEPT !.stage = "ending", !.code = code]

Dotfiles ==
    /\ At("dotfiles")
    /\ \/ boot' = [boot EXCEPT !.stage = "wss"]
       \/ Faulty /\ boot' = Ending(Fault(boot), FAILURE)
    /\ UNCHANGED <<final, flush>>

\* The WebSocket frontend binds, then both frontends serve.
Frontends ==
    /\ At("wss")
    /\ \/ boot' = [boot EXCEPT !.control = "up",
                               !.stage = IF Limit.recovery THEN "recover" ELSE "steps"]
       \/ Faulty /\ boot' = Ending(Fault(boot), FAILURE)
    /\ UNCHANGED <<final, flush>>

----------------------------------------------------------------------------
(* Lifecycle steps, the harness, and what wakes the supervisor.            *)

\* spawn_managed: refused once admission closed.
StepStarts ==
    /\ At("steps") /\ boot.proc = "none" /\ boot.step < Limit.steps
    /\ boot' = IF final.closed THEN Ending(boot, FAILURE)
               ELSE [boot EXCEPT !.proc = "running"]
    /\ UNCHANGED <<final, flush>>

\* run_lifecycle_step waits for the step's exit and for nothing else.
StepEnds ==
    /\ At("steps")
    /\ \/ boot.proc = "ok" /\ boot' = [boot EXCEPT !.step = @ + 1, !.proc = "none"]
       \/ boot.proc = "failed" /\ boot' = Ending(boot, HarnessCode)
       \/ boot.proc = "killed" /\ boot' = Ending(boot, FAILURE)
    /\ UNCHANGED <<final, flush>>

LaunchHarness ==
    /\ At("steps") /\ boot.step = Limit.steps
    /\ boot' = IF final.closed THEN Ending(boot, FAILURE)
               ELSE [boot EXCEPT !.stage = "supervise", !.proc = "running"]
    /\ UNCHANGED <<final, flush>>

\* The step or the harness ends by itself.
ProcessExits ==
    /\ boot.proc = "running"
    /\ \E how \in {"ok", "failed"} : boot' = [boot EXCEPT !.proc = how]
    /\ UNCHANGED <<final, flush>>

exit_code_from_status == CASE boot.proc = "ok" -> SUCCESS
                           [] boot.proc = "failed" -> HarnessCode
                           [] OTHER -> 128 + 15

HarnessExited == boot.proc \in {"ok", "failed", "killed"}

\* The three arms of the select, and the wait of a harness a flush stopped.
Wakes ==
    \/ /\ At("supervise") /\ HarnessExited
       /\ boot' = IF final.closed THEN [boot EXCEPT !.stage = "stopwait"]
                  ELSE Ending(boot, exit_code_from_status)
    \/ /\ At("supervise") \/ At("stopwait") \/ At("recover")
       /\ boot.requested
       /\ boot' = Ending(boot, SUCCESS)
    \/ /\ At("supervise") \/ At("stopwait")
       /\ boot.control = "ended"
       /\ boot' = Ending(boot, FAILURE)
    \/ /\ At("recover") /\ boot.control = "ended"
       /\ boot' = Ending(boot, SUCCESS)

Supervise == Wakes /\ UNCHANGED <<final, flush>>

\* The accept loop ends unexpectedly.
ControlEnds ==
    /\ boot.control = "up" /\ Faulty
    /\ boot' = [Fault(boot) EXCEPT !.control = "ended"]
    /\ UNCHANGED <<final, flush>>

----------------------------------------------------------------------------
(* Who asks for an end.                                                    *)

Orders == Limit.orders
Served == boot.control = "up" /\ ~boot.down

\* begin_shutdown_deadline: the first shutdown sets the cutoff, once.
Cutoff(f) == [f EXCEPT !.cutoff = IF Limit.deadline /\ @ = "none" THEN "set" ELSE @]

\* SIGTERM or SIGINT: the listener, spawned with the daemon, hears the first.
Sigterm ==
    /\ "sigterm" \in Orders
    /\ boot.stage \notin {"prepare", "exited"} /\ flush["listener"] = "idle"
    /\ flush' = [flush EXCEPT !["listener"] = "waiting"]
    /\ final' = Cutoff(final)
    /\ boot' = [boot EXCEPT !.signalled = TRUE]

\* runtime.gracefulShutdown.
GracefulShutdown ==
    /\ "graceful" \in Orders /\ Served /\ flush["command"] = "idle"
    /\ flush' = [flush EXCEPT !["command"] = "waiting"]
    /\ final' = Cutoff(final)
    /\ UNCHANGED boot

\* capture.flush { kind: final }.
CaptureFlush ==
    /\ "flush" \in Orders /\ Served /\ flush["control"] = "idle"
    /\ flush' = [flush EXCEPT !["control"] = "waiting"]
    /\ UNCHANGED <<boot, final>>

\* runtime.kill.
RuntimeKill ==
    /\ "kill" \in Orders /\ Served /\ ~boot.requested
    /\ boot' = [boot EXCEPT !.requested = TRUE]
    /\ UNCHANGED <<final, flush>>

\* The control API admits a writer: the standby is claimed.  Input to what runs
\* already is not refused by a closed admission.
AdmitWriter ==
    /\ Served /\ final.claim = "unclaimed"
    /\ final' = [final EXCEPT !.claim = "claimed"]
    /\ UNCHANGED <<boot, flush>>

ExitAsks ==
    /\ At("ending") /\ flush["exit"] = "idle"
    /\ flush' = [flush EXCEPT !["exit"] = "waiting"]
    /\ UNCHANGED <<boot, final>>

----------------------------------------------------------------------------
(* final_flush.                                                            *)

\* What follows the flush: the listener and the command ask for the stop.
Ended(r, f) ==
    /\ flush' = [flush EXCEPT ![r] = "ended"]
    /\ final' = f
    /\ boot' = [boot EXCEPT !.requested = @ \/ r \in {"listener", "command"} \/ f.claim = "released"]

\* Without a capture engine there is nothing to flush.
NoEngine(r) ==
    /\ flush[r] = "waiting" /\ ~final.engine
    /\ Ended(r, final)

\* Under the lock, with no await in between: the quiesce closes admission,
\* unless every writer was stopped the last time.
QuiescedAtAll(f) == f.quiesced # "never"

Quiesced(f) == f.quiesced = "clean"

TakeLock(r) ==
    /\ flush[r] = "waiting" /\ final.engine /\ final.lock = "free"
    /\ final' = [final EXCEPT !.lock = r, !.closed = @ \/ ~Quiesced(final)]
    /\ flush' = [flush EXCEPT ![r] = IF Quiesced(final) THEN "saving" ELSE "stopping"]
    /\ UNCHANGED boot

\* quiesce: every managed process dies; the sweep may leave or miss another.
StopWriters(r) ==
    /\ flush[r] = "stopping"
    /\ \E how \in {"clean", "dirty"} : final' = [final EXCEPT !.quiesced = how]
    /\ boot' = [boot EXCEPT !.proc = IF @ = "running" THEN "killed" ELSE @]
    /\ flush' = [flush EXCEPT ![r] = "saving"]

\* flush_final: an unclaimed standby is released, whatever the quiesce said.
\* Else the report is complete only after a clean quiesce.
Release(f) == [f EXCEPT !.claim = "released", !.lock = "free", !.last = "complete"]

Saves(f) ==
    {[f EXCEPT !.lock = "free", !.last = "incomplete"]} \cup
    (IF Quiesced(f)
     THEN {[f EXCEPT !.lock = "free", !.last = "complete", !.saved = TRUE]} ELSE {})

Nothing(r) ==
    /\ flush[r] = "saving" /\ final.claim \in {"unclaimed", "released"}
    /\ Ended(r, Release(final))

Save(r) ==
    /\ flush[r] = "saving" /\ final.claim = "claimed"
    /\ \E f \in Saves(final) : Ended(r, f)

\* The shutdown's deadline passes.
CutoffPasses ==
    /\ final.cutoff = "set"
    /\ final' = [final EXCEPT !.cutoff = "passed"]
    /\ UNCHANGED <<boot, flush>>

\* exit_final_flush stops waiting: the future is dropped, the lock with it; a
\* flush already handed to a blocking thread goes on there.
CutShortFlushing(r) ==
    /\ r \in Bounded /\ final.cutoff = "passed" /\ flush[r] \in {"stopping", "saving"}
    /\ Ended(r, [final EXCEPT !.last = "incomplete", !.lock = "free",
                              !.orphaned = @ \/ flush[r] = "saving"])

CutShort(r) ==
    /\ r \in Bounded /\ final.cutoff = "passed"
    /\ flush[r] \in {"stopping", "saving"} \/ (flush[r] = "waiting" /\ final.lock # "free")
    /\ Ended(r, [final EXCEPT !.last = "incomplete",
                              !.lock = IF @ = r THEN "free" ELSE @,
                              !.orphaned = @ \/ flush[r] = "saving"])

OrphanReleases ==
    /\ final.orphaned
    /\ final' = [final EXCEPT !.orphaned = FALSE,
                              !.claim = IF @ = "unclaimed" THEN "released" ELSE @]
    /\ UNCHANGED <<boot, flush>>

----------------------------------------------------------------------------
(* The way out.                                                            *)

\* final_capture: the exit's flush is over; its outcome overrides the code.
FinalCode ==
    IF ~final.engine THEN boot.code
    ELSE IF final.claim = "released" THEN EXIT_NOTHING_TO_SAVE
    ELSE IF final.last # "complete" THEN EXIT_CAPTURE_INCOMPLETE
    ELSE boot.code

FinalCapture ==
    /\ At("ending") /\ flush["exit"] = "ended"
    /\ boot' = [boot EXCEPT !.stage = "terminate", !.code = FinalCode]
    /\ UNCHANGED <<final, flush>>

\* shutdown_with, shutdown_before_control: begin_shutdown kills what is left.
BeginShutdown ==
    /\ At("terminate")
    /\ boot' = [boot EXCEPT !.stage = "joining", !.requested = TRUE, !.down = TRUE,
                            !.proc = IF @ = "running" THEN "killed" ELSE @]
    /\ UNCHANGED <<final, flush>>

\* The control server joins once its requests are answered or cancelled.
Exit ==
    /\ At("joining")
    /\ boot' = [boot EXCEPT !.stage = "exited", !.exit = boot.code, !.control = "ended"]
    /\ UNCHANGED <<final, flush>>

----------------------------------------------------------------------------
Alive == ~At("exited")

Supervisor ==
    \/ PrepareFails \/ Prepared \/ BindsFail \/ StartCapture \/ Dotfiles \/ Frontends
    \/ StepStarts \/ StepEnds \/ LaunchHarness \/ Supervise \/ ExitAsks \/ FinalCapture
    \/ BeginShutdown \/ Exit

BootNext ==
    \/ Supervisor
    \/ Alive /\ \/ ProcessExits \/ ControlEnds \/ Sigterm \/ GracefulShutdown \/ CaptureFlush
                \/ RuntimeKill \/ AdmitWriter \/ CutoffPasses \/ OrphanReleases
                \/ \E r \in Requesters : NoEngine(r) \/ TakeLock(r) \/ StopWriters(r) \/ Nothing(r) \/ Save(r) \/ CutShort(r)

\* The supervisor's task and the requesters run; the shutdown's deadline passes;
\* a process need not end by itself, and a flush without a deadline need not end.
BootFairness ==
    /\ WF_bootVars(Supervisor)
    /\ WF_bootVars(Alive /\ CutoffPasses)
    /\ \A r \in Requesters :
          /\ WF_bootVars(Alive /\ (NoEngine(r) \/ TakeLock(r) \/ StopWriters(r) \/ Nothing(r)))
          /\ WF_bootVars(Alive /\ CutShort(r))

BootSpec == BootInit /\ [][BootNext]_bootVars /\ BootFairness

----------------------------------------------------------------------------
(* Properties.                                                             *)

BootTypeOK ==
    /\ boot.stage \in {"prepare", "binds", "dotfiles", "wss", "steps", "supervise", "stopwait",
                       "recover", "ending", "terminate", "joining", "exited"}
    /\ boot.proc \in {"none", "running", "ok", "failed", "killed"}
    /\ boot.control \in {"down", "up", "ended"}
    /\ final.lock \in {"free"} \cup Requesters
    /\ final.quiesced \in {"never", "clean", "dirty"}
    /\ final.claim \in {"unclaimed", "claimed", "released"}
    /\ final.last \in {"none", "complete", "incomplete"}
    /\ final.cutoff \in {"none", "set", "passed"}
    /\ flush \in [Requesters -> {"idle", "waiting", "stopping", "saving", "ended"}]

\* What the exit code of a daemon with a capture engine tells whoever tears the
\* workspace down (README: "A daemon exits 0 only when the last final flush it
\* ran to its end answered complete, else 75"): 75 and 78 never let the disk
\* go; 76 only a standby no writer was admitted on; any other code only a disk
\* that was saved, every writer stopped, with admission closed since.
ExitCodeIsTrue ==
    At("exited") /\ final.engine =>
        CASE boot.exit = EXIT_NOTHING_TO_SAVE -> final.claim = "released"
          [] boot.exit = EXIT_CAPTURE_INCOMPLETE -> TRUE
          [] OTHER -> final.saved /\ final.closed /\ final.quiesced = "clean"

\* A stop the platform asks for with SIGTERM ends a daemon that is past its
\* lifecycle steps by the shutdown's deadline, even when the store never
\* answers or a flush of the control plane holds the lock for good.
PastSteps == boot.stage \in {"supervise", "stopwait", "recover", "ending", "terminate", "joining"}

StopDue == Limit.deadline /\ boot.signalled /\ PastSteps
SigtermEnds == StopDue ~> At("exited")

\* Operations: "SIGTERM/SIGINT drains: managed processes and PTY sessions are
\* signalled within the grace window".  It does not hold while a lifecycle step
\* runs: the step is awaited before the signal is looked at.
StopIsHonoured == boot.signalled ~> (boot.proc # "running")
=============================================================================
