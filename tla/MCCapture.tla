------------------------------- MODULE MCCapture -------------------------------
(* That captures get on, for TLC: the cadence that starts snaps, the final *)
(* flush, the lease, the uploads, the passes of the shipper, the threads   *)
(* that read ahead of a build and the boot supervisor that ends it all,    *)
(* each under its fairness.  One run takes them one beside the other:      *)
(* "part" says which one a behaviour is about, k1..k19 are the variables   *)
(* of that one, in the order its module declares them, and those it does   *)
(* not need stay 0.  Their safety is checked in MCWorkspace on larger      *)
(* instances.                                                              *)
EXTENDS Integers, Sequences, FiniteSets

CONSTANTS w1, w2,       \* writers of the workspace
          o1, o2, o3    \* objects of a capture

VARIABLES part, k1, k2, k3, k4, k5, k6, k7, k8, k9, k10, k11, k12, k13, k14, k15, k16, k17, k18, k19

From17 == <<k17, k18, k19>>
From16 == <<k16, From17>>
From7 == <<k7, k8, k9, k10, k11, k12, k13, k14, k15, From16>>
From4 == <<k4, k5, k6, From7>>
From1 == <<k1, k2, k3, From4>>
captureVars == <<part, From1>>

Idle17 == k17 = 0 /\ k18 = 0 /\ k19 = 0
Idle16 == k16 = 0 /\ Idle17
Idle7 ==
  k7 = 0 /\ k8 = 0 /\ k9 = 0 /\ k10 = 0 /\ k11 = 0 /\ k12 = 0 /\ k13 = 0 /\ k14 = 0 /\ k15 = 0 /\ Idle16
Idle4 == k4 = 0 /\ k5 = 0 /\ k6 = 0 /\ Idle7

-------------------------------------------------------------------------------
(* Cadence: a small write that a late, lost or doubled signal follows,     *)
(* watched and polled; a bulk snap a caller forced; a bulk write whose     *)
(* build a small snap preempts.                                            *)
Times(q, x, r) == [quiet |-> q, max |-> x, reconcile |-> r]
Modes(mode) == [class \in {"small", "bulk"} |-> mode]
CadenceProfile ==
  [bulk |-> Times(1, 1, 1), small |-> Times(1, 1, 1), forced |-> FALSE, captures |-> {"small", "bulk"},
   writes |-> [small |-> 0, bulk |-> 0], upsets |-> 0, modes |-> {Modes("watched")}]
CadenceProfiles ==
  {[CadenceProfile EXCEPT !.small = Times(1, 2, 2), !.captures = {"small"}, !.writes.small = 1,
                          !.upsets = 1, !.modes = {Modes("watched"), Modes("polled")}],
   [CadenceProfile EXCEPT !.forced = TRUE],
   [CadenceProfile EXCEPT !.small = Times(1, 1, 2), !.writes.bulk = 1]}
Cadences == INSTANCE Cadence WITH
  clocks <- k1, modes <- k2, flags <- k3, at <- k4, seen <- k5, woken <- k6, notifying <- k7,
  smallWaiting <- k8, forcedBulk <- k9, engine <- k10, build <- k11, config <- k12, admitted <- k13,
  events <- k14, disk <- k15, signalled <- k16, taken <- k17, dropped <- k18, upsets <- k19,
  Cadences <- CadenceProfiles, BuildUnits <- 1

(* FinalFlush: two writers, a flush that is repeated, a fault, and an      *)
(* unwatched class.                                                        *)
FlushProfile(w, x, s, seen) == [writes |-> w, flushes |-> 2, faults |-> x, snaps |-> s, watched |-> seen]
Final == INSTANCE FinalFlush WITH
  writer <- k1, closed <- k2, quiesced <- k3, content <- k4, unseen <- k5, seenChanges <- k6,
  stagedCount <- k7, uncounted <- k8, previous <- k9, queued <- k10, head <- k11, seal <- k12,
  outcome <- k13, flush <- k14, late <- k15, left <- k16,
  Writers <- {w1, w2},
  FlushLimits <- {FlushProfile(0, 1, 0, TRUE), FlushProfile(1, 1, 0, FALSE)}

(* Lease: a takeover beside a lost answer, or beside an error and a        *)
(* re-plan.                                                                *)
LeaseProfile(l, o, e, r) == [losses |-> l, takeovers |-> o, errors |-> e, replans |-> r]
Leases == INSTANCE Lease WITH
  registrar <- k1, identity <- k2, staging <- k3, fenced <- k4, paused <- k5, known <- k6, harness <- k7,
  attach <- k8, beat <- k9, expired <- k10, ship <- k11, replan <- k12, raced <- k13, staleFence <- k14,
  may <- k15,
  LeaseLimits <- {LeaseProfile(1, 1, 0, 0), LeaseProfile(0, 1, 1, 1), LeaseProfile(1, 0, 0, 1)}

(* ObjectUpload: an object in parts and two whole ones, under faults, a    *)
(* quota, a lost lease and a takeover.                                     *)
UploadProfile(f, q, l, o, s) == [faults |-> f, quota |-> q, leases |-> l, takeovers |-> o, present |-> s]
Uploads == INSTANCE ObjectUpload WITH
  registrar <- k1, store <- k2, minter <- k3, shipper <- k4, put <- k5, uleft <- k6,
  Large <- {o1}, Small <- {o2, o3},
  UploadLimits <- {UploadProfile(2, 3, 0, 0, TRUE), UploadProfile(1, 1, 1, 0, FALSE),
                   UploadProfile(1, 3, 0, 1, FALSE)}

(* ShipPass: flushes of each kind beside the worker's passes, over small   *)
(* and bulk captures that are answered in every way.                       *)
Queued(i, class, n) == [id |-> i, class |-> class, left |-> n]
Asked(f, g) == [who \in {"f", "g"} |-> IF who = "f" THEN f ELSE g]
PassProfile(q, k, s, f, w, d) ==
  [queue |-> q, kinds |-> k, stages |-> s, faults |-> f, answers |-> w, deadlines |-> d]
Passes == INSTANCE ShipPass WITH
  queue <- k1, shipper <- k2, passes <- k3, Flushes <- {"f", "g"},
  PassLimits <-
    {PassProfile(<<Queued(1, "small", 0), Queued(2, "bulk", 2)>>,
                 {Asked("small", "none"), Asked("final", "none"), Asked("flush", "none")}, 0, 1,
                 {"quota", "lease", "transient", "fenced", "conflict", "refused"}, TRUE),
     PassProfile(<<Queued(1, "bulk", 2)>>, {Asked("small", "none"), Asked("final", "none")}, 1, 1,
                 {"quota", "lease", "transient"}, FALSE),
     PassProfile(<<Queued(1, "bulk", 1), Queued(2, "small", 0)>>, {Asked("small", "none")}, 0, 1,
                 {"quota"}, TRUE),
     PassProfile(<<Queued(1, "bulk", 1)>>, {Asked("small", "final")}, 0, 0, {}, FALSE),
     PassProfile(<<Queued(1, "small", 0)>>, {Asked("small", "final")}, 1, 0, {}, FALSE)}

(* ReadAhead: results at the budget, a plan in another order, a write and *)
(* a fault under a read; a large file in more parts than are in flight, a *)
(* pool that could not be started.                                         *)
ReadProfile(o, q, l, e, n, k, w, f) ==
  [order |-> o, plan |-> q, large |-> l, budget |-> e, parts |-> n, crews |-> k, writes |-> w, faults |-> f,
   size |-> [x \in {"big", "one", "two"} |-> IF x = "big" THEN 2 ELSE 1]]
Crew == {"x", "y"}
Ahead == INSTANCE ReadAhead WITH
  ahead <- k1, crew <- k2, builder <- k3, pool <- k4, disk <- k5, rleft <- k6, Readers <- Crew,
  ReadLimits <-
    {ReadProfile(<<"big", "one", "two">>, <<"big", "two", "one">>, {}, 2, 0, {Crew}, 1, 1),
     ReadProfile(<<"big">>, <<>>, {"big"}, 1, 5, {Crew}, 0, 1),
     ReadProfile(<<"big", "one">>, <<"one">>, {"big"}, 1, 2, {{}, {"x"}}, 0, 1)}

(* Boot: a session, a standby, a recovery, a recovery of a standby, and a  *)
(* daemon without an engine, each under the orders it can get.             *)
BootProfile(r, e, s, n, o) ==
  [recovery |-> r, engine |-> e, standby |-> s, steps |-> n, deadline |-> TRUE, orders |-> o, faults |-> 1]
Boots == INSTANCE Boot WITH
  boot <- k1, final <- k2, flush <- k3,
  BootLimits <- {BootProfile(FALSE, TRUE, FALSE, 1, {"sigterm", "flush"}),
                 BootProfile(FALSE, TRUE, TRUE, 0, {"graceful"}),
                 BootProfile(TRUE, TRUE, FALSE, 0, {"sigterm", "flush", "kill"}),
                 BootProfile(TRUE, TRUE, TRUE, 0, {}),
                 BootProfile(FALSE, FALSE, FALSE, 0, {"sigterm", "graceful", "kill"})}

ASSUME Cadences!CadenceConstants /\ Uploads!UploadAssumption

-------------------------------------------------------------------------------
CaptureInit ==
  \/ part = "cadence" /\ Cadences!CadenceInit
  \/ part = "final" /\ Final!FinalInit /\ Idle17
  \/ part = "lease" /\ Leases!LeaseInit /\ Idle16
  \/ part = "upload" /\ Uploads!UploadInit /\ Idle7
  \/ part = "pass" /\ Passes!PassInit /\ Idle4
  \/ part = "ahead" /\ Ahead!ReadInit /\ Idle7
  \/ part = "boot" /\ Boots!BootInit /\ Idle4

CaptureNext ==
  \/ part = "cadence" /\ Cadences!CadenceNext /\ UNCHANGED part
  \/ part = "final" /\ Final!FinalNext /\ UNCHANGED <<part, From17>>
  \/ part = "lease" /\ Leases!LeaseNext /\ UNCHANGED <<part, From16>>
  \/ part = "upload" /\ Uploads!UploadNext /\ UNCHANGED <<part, From7>>
  \/ part = "pass" /\ Passes!PassNext /\ UNCHANGED <<part, From4>>
  \/ part = "ahead" /\ Ahead!ReadNext /\ UNCHANGED <<part, From7>>
  \/ part = "boot" /\ Boots!BootNext /\ UNCHANGED <<part, From4>>

(* The fairness of each part, as its module states it, where it runs.      *)
OfCadence(A) == part = "cadence" /\ A
OfFinal(A) == part = "final" /\ A
OfLease(A) == part = "lease" /\ A
OfUpload(A) == part = "upload" /\ A
OfPass(A) == part = "pass" /\ A
OfAhead(A) == part = "ahead" /\ A
OfBoot(A) == part = "boot" /\ A

CadenceRuns(A) == OfCadence(A) /\ UNCHANGED part
FinalRuns(A) == OfFinal(A) /\ UNCHANGED <<part, From17>>
LeaseRuns(A) == OfLease(A) /\ UNCHANGED <<part, From16>>
UploadRuns(A) == OfUpload(A) /\ UNCHANGED <<part, From7>>
PassRuns(A) == OfPass(A) /\ UNCHANGED <<part, From4>>
AheadRuns(A) == OfAhead(A) /\ UNCHANGED <<part, From7>>
BootRuns(A) == OfBoot(A) /\ UNCHANGED <<part, From4>>

CadenceFairness ==
  /\ WF_From1(CadenceRuns(Cadences!Tick)) /\ WF_From1(CadenceRuns(Cadences!Notify))
  /\ WF_From1(CadenceRuns(~k13 /\ Cadences!Admission))
  /\ \A class \in {"small", "bulk"} :
       WF_From1(CadenceRuns(Cadences!LoopStep(class))) /\ WF_From1(CadenceRuns(Cadences!SignalChanged(class)))
  /\ \A who \in {"small", "bulk", "caller"} :
       WF_From1(CadenceRuns(Cadences!SnapStep(who))) /\ SF_From1(CadenceRuns(Cadences!BulkRead(who)))
FinalFairness == WF_From1(FinalRuns(Final!FlushStep)) /\ WF_From1(FinalRuns(Final!Register))
LeaseFairness ==
  /\ WF_From1(LeaseRuns(Leases!BeatStep)) /\ WF_From1(LeaseRuns(Leases!AttachStep))
  /\ WF_From1(LeaseRuns(Leases!ShipStep))
  /\ WF_From1(LeaseRuns(Leases!ReplanRebased \/ Leases!ReplanResets \/ Leases!ReplanDone))
UploadFairness ==
  /\ WF_From1(UploadRuns(Uploads!Prefetch \/ Uploads!GroupEnds \/ Uploads!Registers))
  /\ \A key \in {o2, o3} : WF_From1(UploadRuns(Uploads!PutBegins(key) \/ Uploads!Send(key)))
  /\ WF_From1(UploadRuns(\/ Uploads!MultipartBegins(o1) \/ Uploads!PartClaimed(o1) \/ Uploads!PartsIn(o1)
                         \/ Uploads!Complete(o1) \/ Uploads!SizeChecked(o1)))
  /\ \A n \in Uploads!Parts : WF_From1(UploadRuns(Uploads!PartEnds(o1, n)))
PassFairness ==
  /\ \A who \in Passes!Threads : WF_From1(PassRuns(Passes!Step(who)))
  /\ WF_From1(PassRuns(Passes!WorkerEnters)) /\ WF_From1(PassRuns(Passes!Rebuild))
  /\ WF_From1(PassRuns(Passes!BackoffEnds))
AheadFairness ==
  /\ WF_From1(AheadRuns(Ahead!Build))
  /\ \A w \in Crew : WF_From1(AheadRuns(Ahead!Crew(w))) /\ WF_From1(AheadRuns(Ahead!PackStep(w)))
BootFairness ==
  /\ WF_From1(BootRuns(Boots!Supervisor)) /\ WF_From1(BootRuns(Boots!Alive /\ Boots!CutoffPasses))
  /\ \A r \in Boots!Requesters :
       /\ WF_From1(BootRuns(Boots!Alive /\ (\/ Boots!NoEngine(r) \/ Boots!TakeLock(r)
                                            \/ Boots!StopWriters(r) \/ Boots!Nothing(r))))
       /\ WF_From1(BootRuns(Boots!Alive /\ Boots!CutShort(r)))

CaptureSpec ==
  /\ CaptureInit /\ [][CaptureNext]_captureVars
  /\ CadenceFairness /\ FinalFairness /\ LeaseFairness /\ UploadFairness /\ PassFairness /\ AheadFairness
  /\ BootFairness

-------------------------------------------------------------------------------
(* What must happen, and that it has: of the cadence, that the writes of   *)
(* the one class a profile writes are captured or that its caller's snap   *)
(* returns, and that the loops end.                                        *)
Wrote == IF k12.writes["bulk"] > 0 THEN "bulk" ELSE "small"
Due(n) ==
  \/ n = 1 /\ OfCadence(Cadences!Uncaptured(Wrote) \/ k4["caller"] # "idle")
  \/ n = 2 /\ OfCadence(k3.stop)
  \/ n = 1 /\ OfFinal(Final!Flushing)
  \/ n = 1 /\ OfLease(Leases!TakenOver)
  \/ n = 1 /\ OfAhead(Ahead!BuildAt("next"))
  \/ n = 1 /\ OfBoot(Boots!StopDue)
  \/ OfPass(Passes!At(<<"f", "g">>[n], "want"))
Over(n) ==
  \/ n = 1 /\ OfCadence(Cadences!CapturedOrStopped(Wrote) /\ k4["caller"] \in {"idle", "done"})
  \/ n = 2 /\ OfCadence(Cadences!LoopsGone)
  \/ n = 1 /\ OfFinal(~Final!Flushing)
  \/ n = 1 /\ OfLease(Leases!HasStopped)
  \/ n = 1 /\ OfAhead(Ahead!BuildAt("gone"))
  \/ n = 1 /\ OfBoot(Boots!At("exited"))
  \/ OfPass(Passes!HasAnswer(<<"f", "g">>[n]))

(* Every write is captured, nobody waits for another for ever, every flush *)
(* answers, an executor that was taken over stops, a build with threads    *)
(* returns, and a daemon told to stop ends: EveryWriteCaptured,            *)
(* NobodyHangs, FlushEnds, FlushesAnswer, TakenOverStops, BuildReturns and *)
(* SigtermEnds, of the part that runs.                                     *)
CaptureAdvances == \A n \in 1..2 : Due(n) ~> Over(n)

(* An executor that keeps its lease runs its harness again, and an upload  *)
(* that nothing hinders any more reaches the chain: HeldAgainRuns and      *)
(* UploadConverges, of the part that runs.                                 *)
HeldWorkProceeds ==
  []<>(/\ part = "lease" => ~Leases!HeldAgain \/ Leases!Runs
       /\ part = "upload" => ~Uploads!Unhindered \/ k1.chain)
===============================================================================
