------------------------------ MODULE MCProcesses ------------------------------
(* That what the daemon runs for its clients comes to an end, for TLC: the *)
(* gate every spawn and every reap goes through, interactive sessions,     *)
(* executed processes, forwards and the frontends, each under its          *)
(* fairness.  One run takes them one beside the other: "part" says which   *)
(* one a behaviour is about.  The gate has its own variables; q1..q14 are  *)
(* those of the other part, in the order its module declares them, and     *)
(* those it does not need stay 0.  Their safety is checked in MCWorkspace  *)
(* and MCControl on larger instances.                                      *)
EXTENDS SpawnGate, TLC

CONSTANTS s1, s2,       \* spawners, and sessions
          p1, p2,       \* pids, and executed processes
          c1            \* a channel

VARIABLES part, q1, q2, q3, q4, q5, q6, q7, q8, q9, q10, q11, q12, q13, q14

From7 == <<q7, q8, q9, q10, q11, q12, q13, q14>>
From5 == <<q5, q6, From7>>
From3 == <<q3, q4, From5>>
From1 == <<q1, q2, From3>>
processesVars == <<vars, part, From1>>

Idle7 ==
  /\ q7 = 0 /\ q8 = 0 /\ q9 = 0 /\ q10 = 0 /\ q11 = 0 /\ q12 = 0
  /\ q13 = 0 /\ q14 = 0
Idle5 == q5 = 0 /\ q6 = 0 /\ Idle7
Idle3 == q3 = 0 /\ q4 = 0 /\ Idle5
Idle1 == q1 = 0 /\ q2 = 0 /\ Idle3

-------------------------------------------------------------------------------
(* A session on a terminal whose leader leaves a helper behind, and one on *)
(* pipes whose journal may fail, beside an older tombstone.                *)
LeaderSet ==
  {[mode |-> "pty", helper |-> TRUE, output |-> 2, fails |-> FALSE],
   [mode |-> "pipe", helper |-> FALSE, output |-> 1, fails |-> TRUE]}
Sessions == INSTANCE Session WITH
  phase <- q1, kind <- q2, leader <- q3, wrote <- q4, shown <- q5, read <- q6, owed <- q7, drain <- q8,
  journal <- q9, input <- q10, armed <- q11, finished <- q12, active <- q13, sub <- q14,
  Sessions <- {s1, s2}, Channels <- {c1}, Leaders <- LeaderSet, MaxSessions <- 1, Over <- {s2}, Cap <- 1,
  SegmentRecords <- 1, BatchRecords <- 2, Buffer <- 1, DrainBudget <- 1

(* A process that forks and is timed out, and two that race the limit and  *)
(* a shutdown.                                                             *)
ProcessProfile(e, m, o, f, t, c) ==
  [execs |-> e, max |-> m, output |-> o, forks |-> f, timed |-> t, attached |-> {FALSE}, orders |-> c]
Execs == INSTANCE Processes WITH
  daemon <- q1, procs <- q2, Procs <- {p1, p2},
  ProcessLimits <- {ProcessProfile(1, 1, 1, TRUE, {FALSE, TRUE}, {}),
                    ProcessProfile(2, 1, 0, FALSE, {FALSE}, {"stop"})}

(* A forward to two addresses, one bound to a session whose far end two    *)
(* processes hold, its client reading or not, and one of datagrams.        *)
ForwardProfile(u, o, n, h, x, y, c, k) ==
  [udp |-> u, bound |-> o, addresses |-> n, holders |-> h,
   sessions |-> [p \in {p1, p2} |-> IF p = p1 THEN x ELSE y], bytes |-> c, looks |-> k]
Forwards == INSTANCE Forward WITH
  fw <- q1, dialed <- q2, target <- q3, check <- q4,
  Procs <- {p1, p2}, OutCapacity <- 1, LOOKS_WITHOUT_HOLDER <- 3,
  ForwardLimits <- {ForwardProfile(FALSE, FALSE, 2, {p1}, "member", "member", 0, 0),
                    ForwardProfile(FALSE, TRUE, 1, {p1, p2}, "member", "foreign", 1, 4),
                    ForwardProfile(TRUE, FALSE, 1, {p1}, "member", "member", 1, 0)}

(* The two frontends: a peer that does not read beside one that stays     *)
(* silent, with a socket that may not bind.                                *)
Listeners == INSTANCE Listener WITH
  front <- q1, task <- q2, fate <- q3, reply <- q4, signal <- q5, nleft <- q6,
  Peers <- {p1, p2}, MaxConnections <- 1,
  ListenLimits <-
    [wss : {TRUE}, faults : {1},
     on : {[p \in {p1, p2} |-> IF p = p1 THEN "unix" ELSE "wss"]},
     how : {[p \in {p1, p2} |-> IF p = p1 THEN "stuck" ELSE h] : h \in {"silent", "admitted"}}]

ASSUME Sessions!SessionConstants

OfGate(A) == part = "gate" /\ A
OfSession(A) == part = "session" /\ A
OfExec(A) == part = "exec" /\ A
OfForward(A) == part = "forward" /\ A
OfListen(A) == part = "listen" /\ A

-------------------------------------------------------------------------------
ProcessesInit ==
  \/ part = "gate" /\ Init /\ Idle1
  \/ part = "session" /\ Init /\ Sessions!Init
  \/ part = "exec" /\ Init /\ Execs!ProcessInit /\ Idle3
  \/ part = "forward" /\ Init /\ Forwards!ForwardInit /\ Idle5
  \/ part = "listen" /\ Init /\ Listeners!ListenInit /\ Idle7

ProcessesNext ==
  \/ part = "gate" /\ Next /\ UNCHANGED <<part, From1>>
  \/ part = "session" /\ Sessions!Next /\ UNCHANGED <<part, vars>>
  \/ part = "exec" /\ Execs!ProcessNext /\ UNCHANGED <<part, vars, From3>>
  \/ part = "forward" /\ Forwards!ForwardNext /\ UNCHANGED <<part, vars, From5>>
  \/ part = "listen" /\ Listeners!ListenNext /\ UNCHANGED <<part, vars, From7>>

(* The fairness of each part, as its module states it, where it runs.      *)
ExecRuns(A) == OfExec(A) /\ UNCHANGED From3
ForwardRuns(A) == OfForward(A) /\ UNCHANGED From5
ListenRuns(A) == OfListen(A) /\ UNCHANGED From7

GateFairness ==
  /\ \A p \in Pids : SF_vars(OfGate(Peek(p)))
  /\ \A s \in Spawners : SF_vars(OfGate(SpawnerStep(s)))
  /\ SF_vars(OfGate(SweepStart)) /\ WF_vars(OfGate(SweepEnds)) /\ WF_vars(OfGate(ReapOrphan))
SessionFairness ==
  /\ \A s \in {s1, s2} :
       /\ WF_From1(OfSession(Sessions!Capture(s))) /\ WF_From1(OfSession(Sessions!Wait(s)))
       /\ WF_From1(OfSession(Sessions!InputGivenUp(s))) /\ WF_From1(OfSession(Sessions!Kill(s)))
       /\ WF_From1(OfSession(Sessions!TtyShows(s)))
       /\ WF_From1(OfSession(q3[s] = "killed" /\ Sessions!LeaderExits(s)))
  /\ WF_From1(OfSession(Sessions!Follow(c1)))
ExecFairness ==
  /\ \A p \in {p1, p2} :
       WF_From1(ExecRuns(Execs!Tasks(p))) /\ WF_From1(ExecRuns(Execs!Handler(p) /\ q2[p].pc # "idle"))
  /\ WF_From1(ExecRuns(Execs!Shutdown))
ForwardFairness ==
  /\ WF_From1(ForwardRuns(Forwards!Deadline)) /\ WF_From1(ForwardRuns(Forwards!Dialling))
  /\ WF_From1(ForwardRuns(Forwards!Checking)) /\ WF_From1(ForwardRuns(Forwards!Lookup))
  /\ WF_From1(ForwardRuns(Forwards!Open \/ Forwards!OpenUdp)) /\ WF_From1(ForwardRuns(Forwards!SeesExit))
ListenFairness ==
  /\ WF_From1(ListenRuns(Listeners!BindUnix)) /\ WF_From1(ListenRuns(Listeners!Resolves))
  /\ \A f \in {"unix", "wss"} : WF_From1(ListenRuns(Listeners!Serve(f)))
  /\ \A p \in {p1, p2} : WF_From1(ListenRuns(Listeners!Served(p)))

ProcessesSpec ==
  /\ ProcessesInit /\ [][ProcessesNext]_processesVars
  /\ GateFairness /\ SessionFairness /\ ExecFairness /\ ForwardFairness /\ ListenFairness

-------------------------------------------------------------------------------
(* What must end, and that it has: in the gate a zombie, which is reaped;  *)
(* a subscription of an exited leader, and a closed session; a shutdown,   *)
(* and a process past its timeout; the frontends that are told to stop,    *)
(* and a handshake; the dial and check of a forward, and what a bound one  *)
(* writes to its target once its owner exited, though the client never     *)
(* reads another frame.                                                    *)
Due(k) ==
  \/ part = "gate" /\ \E p \in Zombies : table[p].inst = k
  \/ OfSession(IF k = 1 THEN Sessions!SubscriptionDue(c1) ELSE Sessions!Closing(<<s1, s2>>[k - 1]))
  \/ OfExec(IF k = 1 THEN q1.requested ELSE q2[<<p1, p2>>[k - 1]].timer = "armed")
  \/ OfListen(IF k = 1 THEN q5.shutdown ELSE q2[<<p1, p2>>[k - 1]] = "handshake")
  \/ OfForward(k = 1 \/ (k = 2 /\ Forwards!OwnerLeft /\ Forwards!StillReads))
Over(k) ==
  \/ part = "gate" /\ \A p \in DOMAIN table : table[p].inst # k
  \/ OfSession(IF k = 1 THEN Sessions!SubscriptionOver(c1) ELSE Sessions!HasSettled(<<s1, s2>>[k - 1]))
  \/ OfExec(IF k = 1 THEN Execs!Exited ELSE Execs!TimeoutOver(<<p1, p2>>[k - 1]))
  \/ OfListen(IF k = 1 THEN q5.resolved ELSE q2[<<p1, p2>>[k - 1]] # "handshake")
  \/ OfForward(IF k = 1 THEN Forwards!HasAnswer ELSE Forwards!WritesOver)

(* What must end ends (spawn_orphan_reaper; follow_journal, close; exec's  *)
(* timeout, terminate_all; serve_unix, WssListener::serve; dial_to,        *)
(* verify_owner, pump_reads): NoZombieStays, SubscriptionsEnd,             *)
(* ClosedSettles, ProcessesEnd, FrontendsEnd, HandshakeEnds and            *)
(* ForwardSettles, of the part that runs.                                  *)
EverythingEnds == \A k \in 1..3 : Due(k) ~> Over(k)
===============================================================================
