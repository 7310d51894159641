---------------------------- MODULE MCCaptureQueue ----------------------------
(* CaptureQueue for TLC: what may happen besides the code's own steps.     *)
EXTENDS CaptureQueue

NoFaults ==
  [auto |-> 3, final |-> 0, edit |-> 1, crash |-> 0, fail |-> 0, lost |-> 0, drop |-> 0, io |-> 0]

Crashes == [NoFaults EXCEPT !.edit = 2, !.crash = 1]
Seals == [NoFaults EXCEPT !.auto = 2, !.final = 1, !.crash = 1]
Outages == [NoFaults EXCEPT !.auto = 2, !.fail = 1, !.lost = 1, !.io = 1]
Retention == [NoFaults EXCEPT !.edit = 0, !.crash = 1, !.drop = 1]
Failures == [NoFaults EXCEPT !.auto = 2, !.crash = 1, !.io = 2]
SealRetired == [NoFaults EXCEPT !.auto = 1, !.final = 1, !.crash = 1, !.drop = 1]

Any == {Crashes, Seals, Outages, Retention, Failures, SealRetired}
Quiet == {NoFaults}

(* What the queue and the index name is staged and can be uploaded, after  *)
(* any crash, refusal or retirement (ship.rs, engine.rs): QueuedUploadable *)
(* and LocationsStaged.                                                    *)
StagedIsUploadable == TypeOK /\ QueuedUploadable /\ LocationsStaged

(* A refused capture is never put again, and every other one registers in  *)
(* the end (ship.rs ship_one, run_pass): RefusedNeverPut and               *)
(* EverythingRegisters.                                                    *)
StagedRegisters == RefusedNeverPut /\ EverythingRegisters
===============================================================================
