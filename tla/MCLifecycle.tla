------------------------------ MODULE MCLifecycle ------------------------------
(* How the daemon starts, saves the workspace and stops, for TLC and for   *)
(* the proofs: boot, the executor over its launches, when a capture is     *)
(* taken, the final flush, the passes of the shipper and the upload of     *)
(* what they ship.  The parts are told apart as in MCParts.  Their         *)
(* constants are this module's; the sets of values TLC takes for them      *)
(* (profiles) stand beside each part and are chosen by the configuration.  *)
EXTENDS MCParts

CONSTANTS
  BootLimits,                                                        \* Boot
  ExecutorLimits,                                                    \* Executor
  Writers, FlushLimits,                                              \* FinalFlush
  Flushes, PassLimits,                                               \* ShipPass
  Large, Small, UploadLimits,                                        \* ObjectUpload
  CadenceTable, BuildUnits                                           \* Cadence

-------------------------------------------------------------------------------
(* Boot: a session, a standby, a recovery, a recovery of a standby, and a  *)
(* daemon without an engine, each under the orders it can get.             *)
BootProfile(r, e, s, n, o) ==
  [recovery |-> r, engine |-> e, standby |-> s, steps |-> n, deadline |-> TRUE, orders |-> o, faults |-> 1]
BootProfiles ==
  {BootProfile(FALSE, TRUE, FALSE, 1, {"sigterm", "flush", "kill"}),
   BootProfile(FALSE, TRUE, TRUE, 0, {"sigterm", "graceful", "flush"}),
   BootProfile(TRUE, TRUE, FALSE, 0, {"sigterm", "flush", "kill"}),
   BootProfile(TRUE, TRUE, TRUE, 0, {}),
   BootProfile(FALSE, FALSE, FALSE, 0, {"sigterm", "graceful", "kill"})}
Boots == INSTANCE Boot WITH boot <- w1, final <- w2, flush <- w3

(* Executor: pooled and named executors, with a chain, with an empty one,  *)
(* given an empty one, and one that died without staging anything.         *)
ExecutorProfile(k, bs, h, e, w, n, o, x, p) ==
  [kind |-> k, base |-> bs, head |-> h, env |-> e, writes |-> w, captures |-> n, boots |-> o,
   upsets |-> x, replans |-> p]
ExecutorProfiles ==
  {ExecutorProfile("pooled", 1, 2, "", 1, 1, 2, 2, 1),
   ExecutorProfile("pooled", 0, 0, "standby:1", 1, 1, 2, 1, 1),
   ExecutorProfile("pooled", 1, 0, "", 0, 1, 3, 2, 0),
   ExecutorProfile("named", 0, 2, "launch-1", 1, 0, 3, 2, 0),
   ExecutorProfile("named", 0, 0, "", 1, 1, 2, 1, 1)}
Executors == INSTANCE Executor WITH
  chain <- w1, assigned <- w2, disk <- w3, wrote <- w4, saved <- w5, lost <- w6, pc <- w7,
  boot <- w8, engine <- w9, claim <- w10, exit <- w11, budget <- w12

(* FinalFlush: two writers, a flush that is repeated, a fault, a snap      *)
(* beside it, and an unwatched class.                                      *)
FlushProfile(w, x, s, seen) == [writes |-> w, flushes |-> 2, faults |-> x, snaps |-> s, watched |-> seen]
FlushProfiles ==
  {FlushProfile(1, 1, 0, TRUE), FlushProfile(1, 0, 1, TRUE), FlushProfile(0, 1, 1, TRUE),
   FlushProfile(1, 1, 0, FALSE)}
Final == INSTANCE FinalFlush WITH
  writer <- w1, closed <- w2, quiesced <- w3, content <- w4, unseen <- w5, seenChanges <- w6,
  stagedCount <- w7, uncounted <- w8, previous <- w9, queued <- w10, head <- w11, seal <- w12,
  outcome <- w13, flush <- w14, late <- w15, left <- w16

(* ShipPass: flushes of each kind beside the worker's passes, over small   *)
(* and bulk captures that are answered in every way.                       *)
Queued(i, class, n) == [id |-> i, class |-> class, left |-> n]
Asked(f, g) == [who \in {"f", "g"} |-> IF who = "f" THEN f ELSE g]
PassProfile(q, k, s, f, w, d) ==
  [queue |-> q, kinds |-> k, stages |-> s, faults |-> f, answers |-> w, deadlines |-> d]
PassProfiles ==
    {PassProfile(<<Queued(1, "small", 0), Queued(2, "bulk", 2)>>,
                 {Asked("small", "none"), Asked("final", "none"), Asked("flush", "none")}, 0, 1,
                 {"quota", "lease", "transient", "fenced", "conflict", "refused"}, TRUE),
     PassProfile(<<Queued(1, "bulk", 2)>>, {Asked("small", "none"), Asked("final", "none")}, 1, 1,
                 {"quota", "lease", "transient"}, FALSE),
     PassProfile(<<Queued(1, "bulk", 1), Queued(2, "small", 0)>>, {Asked("small", "none")}, 0, 1,
                 {"quota"}, TRUE),
     PassProfile(<<Queued(1, "bulk", 1)>>, {Asked("small", "final")}, 0, 0, {}, FALSE),
     PassProfile(<<Queued(1, "small", 0)>>, {Asked("small", "final")}, 1, 0, {}, FALSE)}
Passes == INSTANCE ShipPass WITH queue <- w1, shipper <- w2, passes <- w3

(* ObjectUpload: an object in parts and two whole ones, under faults, a    *)
(* quota, a lost lease and a takeover.                                     *)
UploadProfile(f, q, l, o, s) == [faults |-> f, quota |-> q, leases |-> l, takeovers |-> o, present |-> s]
UploadProfiles ==
  {UploadProfile(2, 3, 0, 0, TRUE), UploadProfile(1, 1, 2, 0, FALSE), UploadProfile(1, 3, 0, 1, FALSE)}
Uploads == INSTANCE ObjectUpload WITH
  registrar <- w1, store <- w2, minter <- w3, shipper <- w4, put <- w5, uleft <- w6

(* Cadence: a small write that a late, lost or doubled signal follows,     *)
(* watched and polled; a bulk snap a caller forced; a bulk write whose     *)
(* build a small snap preempts.                                            *)
Times(q, x, r) == [quiet |-> q, max |-> x, reconcile |-> r]
Modes(mode) == [class \in {"small", "bulk"} |-> mode]
CadenceProfile ==
  [bulk |-> Times(1, 1, 1), small |-> Times(1, 1, 1), forced |-> FALSE, captures |-> {"small", "bulk"},
   writes |-> [small |-> 0, bulk |-> 0], upsets |-> 0, modes |-> {Modes("watched")}]
CadenceProfiles ==
  {[CadenceProfile EXCEPT !.small = Times(1, 2, 3), !.captures = {"small"}, !.writes.small = 1,
                          !.upsets = 1, !.modes = {Modes("watched"), Modes("polled")}],
   [CadenceProfile EXCEPT !.forced = TRUE, !.upsets = 1],
   [CadenceProfile EXCEPT !.small = Times(1, 1, 2), !.writes.bulk = 1]}
Pace == INSTANCE Cadence WITH
  clocks <- w1, modes <- w2, flags <- w3, at <- w4, seen <- w5, woken <- w6, notifying <- w7,
  smallWaiting <- w8, forcedBulk <- w9, engine <- w10, build <- w11, config <- w12, admitted <- w13,
  events <- w14, disk <- w15, signalled <- w16, taken <- w17, dropped <- w18, upsets <- w19,
  Cadences <- CadenceTable

ASSUME ExecutorConstant == Executors!ExecutorConstants
ASSUME FlushConstant == Final!FlushConstants
ASSUME Uploads!UploadAssumption
ASSUME CadenceConstant == Pace!CadenceConstants

-------------------------------------------------------------------------------
LifecycleInit ==
  \/ part = "boot" /\ Boots!BootInit /\ Idle4
  \/ part = "executor" /\ Executors!ExecutorInit /\ Idle13
  \/ part = "final" /\ Final!FinalInit /\ Idle17
  \/ part = "pass" /\ Passes!PassInit /\ Idle4
  \/ part = "upload" /\ Uploads!UploadInit /\ Idle7
  \/ part = "cadence" /\ Pace!CadenceInit

LifecycleNext ==
  \/ part = "boot" /\ Boots!BootNext /\ UNCHANGED <<part, From4>>
  \/ part = "executor" /\ Executors!ExecutorNext /\ UNCHANGED <<part, From13>>
  \/ part = "final" /\ Final!FinalNext /\ UNCHANGED <<part, From17>>
  \/ part = "pass" /\ Passes!PassNext /\ UNCHANGED <<part, From4>>
  \/ part = "upload" /\ Uploads!UploadNext /\ UNCHANGED <<part, From7>>
  \/ part = "cadence" /\ Pace!CadenceNext /\ UNCHANGED part

LifecycleSpec == LifecycleInit /\ [][LifecycleNext]_partVars

-------------------------------------------------------------------------------
(* The exit code says what became of the workspace (boot/mod.rs).          *)
ExitCodeIsTrue == part = "boot" => Boots!BootTypeOK /\ Boots!ExitCodeIsTrue

(* An exit code that lets the platform destroy the disk is true, and no    *)
(* disk a materialize left half restored is captured (boot/capture.rs).    *)
NothingIsLost == part = "executor" => Executors!ExecutorTypeOK /\ Executors!NothingIsLost

(* What a flush reports is so: a complete one left nothing behind that it  *)
(* answers for, and a pass's answer says what became of the queue          *)
(* (cadence.rs final flush; ship.rs flush_small, flush_final).             *)
FlushReportsTruly ==
  /\ part = "final" => Final!FinalTypeOK /\ Final!FlushIsTrue
  /\ part = "pass" => Passes!FlushAnswersTruly

(* What the shipper takes for uploaded is stored whole (registrar.rs).     *)
UploadedIsStored == part = "upload" => Uploads!UploadTypeOK /\ Uploads!UploadedIsStored

(* The loop sleeps on no stale state, and a change it was told of stays    *)
(* due until a snap has read it (cadence.rs).                              *)
NothingForgotten == part = "cadence" => Pace!CadenceTypeOK /\ Pace!NothingForgotten
===============================================================================
