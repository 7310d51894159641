------------------------------- MODULE MCRunning -------------------------------
(* What the daemon does for what runs in the workspace, for TLC and for    *)
(* the proofs: processes, bindable mounts, whom a process is started as,   *)
(* interactive sessions, and watching the files.  The parts are told apart *)
(* as in MCParts.                                                          *)
EXTENDS MCParts

CONSTANTS
  SessionNames, Channels, Leaders, MaxSessions, Over, Cap, SegmentRecords, BatchRecords, Buffer,
  DrainBudget,                                                       \* Session
  Tops, WatchLimits,                                                 \* Watch
  Procs, ProcessLimits,                                              \* Processes
  Mounts, Subpaths, BindLimits,                                      \* Binds
  Launchers, PERSON_GID, PERSON_UID_MIN, PERSON_UID_MAX, Fds, RunLimits  \* RunAs

-------------------------------------------------------------------------------
(* Processes: one that forks and is timed out, one that is signalled, one  *)
(* that is attached to and stopped, and two that race the limit and a      *)
(* shutdown.                                                               *)
ProcessProfile(e, o, f, d, a, k) ==
  [execs |-> e, max |-> 1, output |-> o, forks |-> f, timed |-> d, attached |-> a, orders |-> k]
ProcessProfiles ==
  {ProcessProfile(1, 2, TRUE, {FALSE, TRUE}, {FALSE}, {}),
   ProcessProfile(1, 2, TRUE, {FALSE}, {TRUE}, {"signal"}),
   ProcessProfile(1, 1, FALSE, {FALSE}, {TRUE}, {"stop", "stdin"}),
   ProcessProfile(2, 0, FALSE, {FALSE}, {FALSE}, {"stop"})}
Execs == INSTANCE Processes WITH daemon <- w1, procs <- w2

(* Binds: the orchestrator's list with restarts, faults and removals, and  *)
(* calls that do and do not overlap.                                       *)
BindProfile(i, n, o, r, x, d) ==
  [initial |-> i, binds |-> n, overlap |-> o, restarts |-> r, faults |-> x, removals |-> d]
BindProfiles ==
  {BindProfile(<<[mount |-> "repo", to |-> "a"]>>, 2, FALSE, 2, 1, TRUE),
   BindProfile(<<>>, 3, FALSE, 1, 0, FALSE), BindProfile(<<>>, 2, TRUE, 0, 0, FALSE)}
Binding == INSTANCE Binds WITH
  link <- w1, binds <- w2, file <- w3, dirs <- w4, bd <- w5

(* RunAs: what a person asks as which user with which secrets, against     *)
(* what stands in /tmp, on machines with and without each system call, and *)
(* helpers and file-system borrowers beside each other.                    *)
User(i, g, more) == [uid |-> i, gid |-> g, groups |-> more]
Person == User(5, 3, {3, 8})
Ask(k, who, e, s) == [kind |-> k, user |-> who, env |-> e, secret |-> s]
Secret(n, v) == [name |-> n, value |-> v]
AnyUser ==
  {Ask("person", who, {}, <<>>) :
     who \in {Person, User(0, 3, {3}), User(5, 0, {0}), User(5, 3, {3, 0}), User(9, 3, {3}),
              User(5, 4, {4}), User(9, 4, {4}), User(7, 4, {4})}}
AnySecret ==
  {Ask(k, Person, e, s) :
     k \in {"person", "daemon"}, e \in {{}, {"N", "HOME"}},
     s \in {<<Secret("IMG", "ok"), Secret("N", "ok")>>, <<Secret("GH_TOKEN", "ok")>>,
            <<Secret("HTTP_PROXY", "ok")>>, <<Secret("SEALANT_X", "ok")>>, <<Secret("PATH", "ok")>>,
            <<Secret("N", "ok"), Secret("N", "ok")>>, <<Secret("N", "short")>>}}
Beside(k) == {Ask(k, Person, {}, <<>>), Ask("daemon", Person, {}, <<>>)}
Empty == [kind |-> "none", uid |-> 0, private |-> FALSE, gen |-> 0, used |-> FALSE]
Stood(k, who, own) == [Empty EXCEPT !.kind = k, !.uid = who, !.private = own]
Kept == Stood("dir", 5, TRUE)
Linux == [close_range |-> TRUE, proc |-> TRUE, no_new_privs |-> FALSE, bounded |-> TRUE,
          dumpable |-> TRUE, breaks |-> {{}}]
Breaks == {{}, {"setgroups"}, {"setgid"}, {"keepcaps"}, {"setuid"}, {"capset"}, {"ambient"},
           {"capset", "clear"}}
Reserved == [listed |-> FALSE, gid |-> 0, uids |-> {}]
Listed == [listed |-> TRUE, gid |-> 4, uids |-> {9, 0}]
RunProfile(a, s) ==
  [asks |-> a, people |-> Reserved, machine |-> Linux, opens |-> 0, careless |-> FALSE, stands |-> s,
   image |-> [version |-> TRUE, names |-> {"IMG", "HOME", "GH_TOKEN", "NPM_TOKEN", "KEY"}]]
FirstLaunches == RunProfile({Ask("person", Person, {}, <<>>)}, Empty)
RunProfiles ==
  {[FirstLaunches EXCEPT !.stands = s] :
     s \in {Empty, Stood("dir", 6, FALSE), Stood("file", 5, FALSE), Stood("dir", 5, FALSE), Kept}}
  \union {[RunProfile(AnyUser, Kept) EXCEPT !.people = p, !.machine.no_new_privs = n,
                                            !.machine.bounded = m, !.machine.breaks = Breaks] :
            p \in {Reserved, Listed}, n \in BOOLEAN, m \in BOOLEAN}
  \union {[RunProfile(AnySecret, Kept) EXCEPT !.image.version = v] : v \in BOOLEAN}
  \union {[RunProfile(Beside("helper"), Empty) EXCEPT !.machine.close_range = r, !.machine.proc = p,
                                                      !.opens = 3, !.careless = TRUE] :
            r \in BOOLEAN, p \in BOOLEAN}
  \union {[RunProfile(Beside("fs"), Empty) EXCEPT !.machine.dumpable = d] : d \in BOOLEAN}
Launch == INSTANCE RunAs WITH
  launch <- w1, private <- w2, fds <- w3, borrowed <- w4, machine <- w5

(* Session: one on a terminal whose leader leaves a helper behind, and one *)
(* on pipes whose journal may fail, beside an older tombstone.             *)
LeaderProfiles ==
  {[mode |-> "pty", helper |-> TRUE, output |-> 3, fails |-> FALSE],
   [mode |-> "pipe", helper |-> FALSE, output |-> 3, fails |-> TRUE]}
Sessions == INSTANCE Session WITH
  phase <- w1, kind <- w2, leader <- w3, wrote <- w4, shown <- w5, read <- w6, owed <- w7, drain <- w8,
  journal <- w9, input <- w10, armed <- w11, finished <- w12, active <- w13, sub <- w14,
  Sessions <- SessionNames

(* Watch: two directories and their subdirectories, made, renamed, removed *)
(* and refused a watch, with a small queue, a small budget and a fence.    *)
WatchProfile(n, r, x, q, s, l) ==
  [changes |-> n, renames |-> r, refusals |-> x, queue |-> q, fences |-> s, budget |-> l]
WatchProfiles ==
  {WatchProfile(4, 0, 1, 5, 0, 9), WatchProfile(4, 1, 0, 5, 1, 9),
   WatchProfile(4, 0, 1, 2, 1, 2), WatchProfile(4, 0, 0, 5, 2, 9)}
Watcher == INSTANCE Watch WITH
  dirs <- w1, registry <- w2, events <- w3, worker <- w4, fence <- w5, unseen <- w6, wleft <- w7

ASSUME ProcessConstant == Execs!ProcessConstants
ASSUME BindConstant == Binding!BindConstants
ASSUME RunConstant == Launch!RunConstants
ASSUME SessionConstant == Sessions!SessionConstants
ASSUME WatchConstant == Watcher!WatchAssumption

-------------------------------------------------------------------------------
RunningInit ==
  \/ part = "exec" /\ Execs!ProcessInit /\ Idle3
  \/ part = "binds" /\ Binding!BindsInit /\ Idle6
  \/ part = "launch" /\ Launch!RunInit /\ Idle6
  \/ part = "session" /\ Sessions!Init /\ Idle15
  \/ part = "watch" /\ Watcher!WatchInit /\ Idle8

RunningNext ==
  \/ part = "exec" /\ Execs!ProcessNext /\ UNCHANGED <<part, From3>>
  \/ part = "binds" /\ Binding!BindsNext /\ UNCHANGED <<part, From6>>
  \/ part = "launch" /\ Launch!RunNext /\ UNCHANGED <<part, From6>>
  \/ part = "session" /\ Sessions!Next /\ UNCHANGED <<part, From15>>
  \/ part = "watch" /\ Watcher!WatchNext /\ UNCHANGED <<part, From8>>

RunningSpec == RunningInit /\ [][RunningNext]_partVars

-------------------------------------------------------------------------------
(* A process's exit is its last event and follows all its output, and a    *)
(* shutdown reaches every process (sealant-process runtime.rs).            *)
ExecEndsWhole == part = "exec" => Execs!ProcessTypeOK /\ Execs!ExecEndsWhole

(* Links, memory and the binds file agree between calls, and after a       *)
(* restart (boot/binds.rs).                                                *)
BindsAgree == part = "binds" => Binding!BindsAgree

(* A child is what was asked, and launching it leaves the rest as it was   *)
(* (sealant-process identity.rs, secret_env.rs).                           *)
LaunchedAsAsked == part = "launch" => Launch!LaunchedAsAsked

(* A subscription that ends cleanly has everything the leader wrote, and   *)
(* none skips a record (session.rs follow_journal, capture_output).        *)
CleanEndIsComplete ==
  part = "session" =>
    Sessions!TypeOK /\ Sessions!CleanEndIsComplete /\ Sessions!NoRecordSkipped

(* No change of a watched class goes unseen (watch.rs).                    *)
WatchedIsSeen == part = "watch" => Watcher!WatchTypeOK /\ Watcher!WatchedIsSeen
===============================================================================
