------------------------------ MODULE Admission ------------------------------
(***************************************************************************)
(* The daemon's dispatcher (crates/sealantd/src/runtime.rs: dispatch,      *)
(* dispatch_streaming, handle_on_connection, admit_writer) with the        *)
(* unclaimed standby (crates/sealantd/src/unclaimed.rs), the runtime's     *)
(* counters (crates/sealant-runtime-core/src/status.rs) and dotfiles.apply *)
(* (crates/sealantd/src/dotfiles_verb.rs).                                 *)
(*                                                                         *)
(* A command takes one of two routes; on each it reads the runtime's       *)
(* state, then whether a final flush closed admission, then claims the     *)
(* standby, and only then acts: four reads of four places, with every      *)
(* other command, the final flush and the shutdown in between.             *)
(***************************************************************************)
EXTENDS Integers, FiniteSets

CONSTANTS Requests,          \* the requests in flight
          Executions,        \* execution ids
          AdmissionLimits    \* a set of [commands, engine, standby, crash]

VARIABLES adm,    \* the runtime: state, admission, claim, what runs, tag, counts
          reqs    \* each request: its command and how far it got

admissionVars == <<adm, reqs>>

Readings == {"RuntimeHealth", "GetRuntimeMetrics", "ListProcesses", "CaptureStatus", "LeaseEpoch"}
DispatchClosed == {"Exec", "OpenSession", "ExecutionStart", "BindMount", "CaptureReplan",
                   "DotfilesApply"}
StreamingClosed == {"ExecAttached", "OpenSftp"}
Admits == {"Exec", "ExecAttached", "WriteStdin", "OpenSession", "AttachSession", "OpenForward",
           "OpenSftp", "BindMount", "ExecutionStart", "DotfilesApply"}

\* handle_on_connection: these go to dispatch_streaming, an attached exec too.
Streaming(c) == c \in {"AttachSession", "DetachSession", "OpenForward", "CloseForward", "OpenSftp",
                       "CloseSftp", "ExecAttached"}

NoCommand == "none"
Default == "default"      \* the configured execution id

AdmissionInit ==
    /\ \E l \in AdmissionLimits :
          adm = [state |-> "Healthy", closed |-> FALSE,
                 claim |-> IF l.standby THEN "Unclaimed" ELSE "Claimed",
                 running |-> {}, wrote |-> {}, tag |-> Default, executions |-> 0,
                 flush |-> "none", boots |-> 0, limit |-> l]
    /\ reqs = [r \in Requests |-> [command |-> NoCommand, pc |-> "idle", execution |-> Default,
                                   early |-> FALSE]]

Limit == adm.limit
Set(r, pc) == reqs' = [reqs EXCEPT ![r].pc = pc]
Command(r) == reqs[r].command

----------------------------------------------------------------------------
(* The gates.                                                              *)

Arrive(r) ==
    /\ reqs[r].pc = "idle"
    /\ \E c \in Limit.commands, e \in Executions :
          reqs' = [reqs EXCEPT ![r] = [command |-> c, pc |-> "state", execution |-> e,
                                       early |-> FALSE]]
    /\ UNCHANGED adm

Down == adm.state \in {"ShuttingDown", "Stopped"}

\* While the daemon drains dispatch serves readings, dispatch_streaming nothing.
CheckState(r) ==
    /\ reqs[r].pc = "state"
    /\ Set(r, IF Down /\ (Streaming(Command(r)) \/ Command(r) \notin Readings)
              THEN "refused" ELSE "admission")
    /\ UNCHANGED adm

\* admission_is_closed, and the list of each route.
RefusedClosedUnlessAttached(c) == c \in DispatchClosed \cup {"OpenSftp"}

RefusedClosed(c) == c \in (IF Streaming(c) THEN StreamingClosed ELSE DispatchClosed)

CheckAdmission(r) ==
    /\ reqs[r].pc = "admission"
    /\ reqs' = [reqs EXCEPT ![r].pc = IF adm.closed /\ RefusedClosed(Command(r))
                                      THEN "refused" ELSE "claim",
                            ![r].early = ~adm.closed]
    /\ UNCHANGED adm

\* Unclaimed::claim, under its lock: the marker is removed, durably, before the
\* writer is let in; where it cannot be removed nothing is.
Claims(r) ==
    \/ adm.claim = "Released" /\ Set(r, "refused") /\ UNCHANGED adm
    \/ adm.claim = "Claimed" /\ Set(r, "serve") /\ UNCHANGED adm
    \/ adm.claim = "Unclaimed" /\ Set(r, "serve") /\ adm' = [adm EXCEPT !.claim = "Claimed"]
    \/ adm.claim = "Unclaimed" /\ Set(r, "refused") /\ UNCHANGED adm

\* admit_writer.
AdmitListedButSftp(c) == c \in Admits \ {"OpenSftp"}

AdmitListed(c) == c \in Admits

AdmitWriter(r) ==
    /\ reqs[r].pc = "claim"
    /\ IF Limit.engine /\ AdmitListed(Command(r)) THEN Claims(r)
       ELSE Set(r, "serve") /\ UNCHANGED adm

----------------------------------------------------------------------------
(* The commands.                                                           *)

Serves(r, commands) == reqs[r].pc = "serve" /\ Command(r) \in commands
Done(r) == Set(r, "answered")

\* What a request leaves running, and that it may have written the disk.
Starts(a, r, what) == [a EXCEPT !.running = @ \cup {<<what, r>>}, !.wrote = @ \cup {r}]
Noted(a, r) == [a EXCEPT !.tag = reqs[r].execution]

\* exec and openSession note the execution, then start; either may fail.
Note(r) ==
    /\ Serves(r, {"Exec", "ExecAttached", "OpenSession", "DotfilesApply"})
    /\ adm' = Noted(adm, r)
    /\ Set(r, "start")

Start(r) ==
    /\ reqs[r].pc = "start" /\ Command(r) # "DotfilesApply"
    /\ \/ adm' = Starts(adm, r, IF Command(r) = "OpenSession" THEN "session" ELSE "process")
       \/ UNCHANGED adm
    /\ Done(r)

\* dotfiles.apply: the trees are applied on a blocking thread, then what has to
\* be bootstrapped is an exec of its own.
ApplyDotfiles(r) ==
    /\ reqs[r].pc = "start" /\ Command(r) = "DotfilesApply"
    /\ adm' = [adm EXCEPT !.wrote = @ \cup {r}]
    /\ \E next \in {"bootstrap", "answered"} : Set(r, next)

Bootstrap(r) ==
    /\ reqs[r].pc = "bootstrap"
    /\ adm' = Starts(adm, r, "process")
    /\ Done(r)

OpenSftp(r) ==
    /\ Serves(r, {"OpenSftp"})
    /\ adm' = Starts(adm, r, "sftp") \/ UNCHANGED adm
    /\ Done(r)

BindMount(r) ==
    /\ Serves(r, {"BindMount"})
    /\ adm' = [adm EXCEPT !.wrote = @ \cup {r}] \/ UNCHANGED adm
    /\ Done(r)

\* Input to what runs already: a process or a session writes because of it.
Input(r) ==
    /\ Serves(r, {"WriteStdin", "AttachSession", "OpenForward"})
    /\ adm' = IF adm.running = {} THEN adm ELSE [adm EXCEPT !.wrote = @ \cup {r}]
    /\ Done(r)

ExecutionStart(r) ==
    /\ Serves(r, {"ExecutionStart"})
    /\ adm' = [Noted(adm, r) EXCEPT !.executions = @ + 1]
    /\ Done(r)

\* stop_execution signals its processes; clear_execution falls back only from
\* the execution that stopped; the count saturates at zero.
saturating_decrement(n) == IF n > 0 THEN n - 1 ELSE 0

ExecutionStop(r) ==
    /\ Serves(r, {"ExecutionStop"})
    /\ adm' = [adm EXCEPT !.tag = IF @ = reqs[r].execution THEN Default ELSE @,
                          !.executions = saturating_decrement(@),
                          !.running = {w \in @ : w[1] # "process"
                                                 \/ reqs[w[2]].execution # reqs[r].execution}]
    /\ Done(r)

\* signals, kills, closes and detaches end something that runs.
EndWork(r) ==
    /\ Serves(r, {"KillProcess", "CloseSession", "CloseSftp"})
    /\ \/ \E w \in adm.running : adm' = [adm EXCEPT !.running = @ \ {w}]
       \/ UNCHANGED adm
    /\ Done(r)

\* capture.replan claims by itself, once the plan names another identity, before
\* it touches the disk.
CaptureReplan(r) ==
    /\ Serves(r, {"CaptureReplan"})
    /\ \/ /\ Limit.engine /\ adm.claim # "Released"
          /\ adm' = [adm EXCEPT !.claim = "Claimed", !.wrote = @ \cup {r}]
       \/ UNCHANGED adm
    /\ Done(r)

\* Readings, feature switches and the capture's own commands start nothing.
Answer(r) ==
    /\ Serves(r, Readings \cup {"SetFeatureState", "CaptureNow"})
    /\ Done(r)
    /\ UNCHANGED adm

----------------------------------------------------------------------------
(* The final flush, the shutdown, and a restart.                           *)

CloseAdmission ==
    /\ Limit.engine /\ adm.flush = "none"
    /\ adm' = [adm EXCEPT !.closed = TRUE, !.flush = "closed"]
    /\ UNCHANGED reqs

\* The quiesce: bridges closed, processes and sessions stopped.
StopWriters ==
    /\ adm.flush = "closed"
    /\ adm' = [adm EXCEPT !.running = {}, !.flush = "stopped"]
    /\ UNCHANGED reqs

\* Unclaimed::release, under the claim's lock; a released standby's daemon ends.
FlushFinal ==
    /\ adm.flush = "stopped"
    /\ adm' = [adm EXCEPT !.flush = "ended",
                          !.claim = IF @ = "Unclaimed" THEN "Released" ELSE @]
    /\ UNCHANGED reqs

BeginShutdown ==
    /\ ~Down /\ (adm.flush = "ended" \/ ~Limit.engine)
    /\ adm' = [adm EXCEPT !.state = "ShuttingDown", !.running = {}]
    /\ UNCHANGED reqs

\* The daemon dies; the next boot reads the marker: a released standby's is
\* still there, a claimed one's never comes back.
Crash ==
    /\ Limit.crash /\ adm.boots = 0
    /\ adm' = [adm EXCEPT !.state = "Healthy", !.closed = FALSE, !.running = {}, !.flush = "none",
                          !.tag = Default, !.executions = 0, !.boots = 1,
                          !.claim = IF @ = "Released" THEN "Unclaimed" ELSE @]
    /\ reqs' = [r \in Requests |-> [reqs[r] EXCEPT !.pc = IF @ = "idle" THEN @ ELSE "lost"]]

----------------------------------------------------------------------------
AdmissionNext ==
    \/ \E r \in Requests :
          \/ Arrive(r) \/ CheckState(r) \/ CheckAdmission(r) \/ AdmitWriter(r)
          \/ Note(r) \/ Start(r) \/ ApplyDotfiles(r) \/ Bootstrap(r) \/ OpenSftp(r) \/ BindMount(r)
          \/ Input(r) \/ ExecutionStart(r) \/ ExecutionStop(r) \/ EndWork(r) \/ CaptureReplan(r)
          \/ Answer(r)
    \/ CloseAdmission \/ StopWriters \/ FlushFinal \/ BeginShutdown \/ Crash

AdmissionSpec == AdmissionInit /\ [][AdmissionNext]_admissionVars

----------------------------------------------------------------------------
AdmissionTypeOK ==
    /\ adm.claim \in {"Unclaimed", "Claimed", "Released"}
    /\ adm.tag \in Executions \cup {Default}
    /\ adm.executions \in 0..Cardinality(Requests)
    /\ adm.running \subseteq {"process", "session", "sftp"} \X Requests

\* A standby the daemon lets go of as holding nothing, or would let go of after
\* a crash and a restart, was written by no command on any route, however the
\* command interleaved with the final flush (unclaimed.rs; README: "The first
\* claim or writer removes it, durably, before it acts").
UnclaimedIsUntouched == Limit.engine /\ adm.claim # "Claimed" => adm.wrote = {}

\* Once the final flush stopped the writers, whatever runs was let in before
\* admission closed: no route starts another.
StoppedStaysStopped ==
    adm.flush \in {"stopped", "ended"} => \A w \in adm.running : reqs[w[2]].early

\* The gates hold at the act and not only at the look: a standby stays untouched until it is
\* claimed, and what a stop closed stays closed.
GatesHold == UnclaimedIsUntouched /\ StoppedStaysStopped
=============================================================================
