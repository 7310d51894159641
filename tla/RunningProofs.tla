---------------------------- MODULE RunningProofs ----------------------------
(***************************************************************************)
(* Proofs about what the daemon does for what runs in the workspace: what  *)
(* is checked of processes, of bindable mounts, of starting a process as   *)
(* somebody, of interactive sessions and of watching the files, for every  *)
(* value of their constants.                                               *)
(*                                                                         *)
(* The variables are MCParts's; each section says what they stand for.     *)
(* It states an inductive invariant, as a conjunction of named groups, and *)
(* proves that each action keeps it, one step per group the action can     *)
(* disturb and one for the rest.                                           *)
(***************************************************************************)
EXTENDS MCRunning, FiniteSetTheorems, TLAPS

-------------------------------------------------------------------------------
(* Processes: w1 is daemon, w2 procs.                                      *)

ExecFields ==
  {"pc", "leader", "child", "written", "piped", "recorded", "stream", "channel", "listening", "timer",
       "entry",
   "state", "why", "stdin", "events"}
Unspawned == {"idle", "admitted", "allowed", "refused"}
Early == {"admitted", "allowed", "spawned", "registered"}
ExecCounted == {"waiting", "reaped", "reported"}
Ended == {"reported", "done"}
SeenSteps == {"registered", "waiting", "reaped", "reported", "done"}
ExecEvents == {"ProcessStarted", "IoChunk", "ProcessExited"}
ExecFrames == {"Data", "End"}

ExecTypes(r) ==
  /\ ExecFields \subseteq DOMAIN r
  /\ r.pc \in Unspawned \cup Early \cup ExecCounted \cup Ended
  /\ r.leader \in {Execs!NoChild, "alive", "zombie", Execs!Gone}
  /\ r.child \in {Execs!NoChild, "held", "quiet", "away", Execs!Gone}
  /\ r.timer \in {"off", "armed", "termed", "killed"}
  /\ r.state \in {"Starting", "Running", "Terminating", "Exited", "Signaled"}
(* Every byte written is in the pipe or recorded.                          *)
ExecBytes(r) ==
  /\ r.written \in Nat /\ r.piped \in Nat /\ r.recorded \in Nat
  /\ r.written = r.piped + r.recorded
(* The child, the entry and the handler or waiter go together.             *)
ExecLeader(r) ==
  /\ r.pc \in Unspawned => r.leader = Execs!NoChild /\ r.child = Execs!NoChild
  /\ r.pc \in {"spawned", "registered", "waiting"} => r.leader \in {"alive", "zombie"}
  /\ r.pc \in {"reaped", "reported", "done"} => r.leader = Execs!Gone
ExecEntry(r) ==
  /\ r.pc \in {"registered", "waiting", "reaped"} => r.entry /\ r.state \in {"Running", "Terminating"}
  /\ r.entry => r.pc \in {"registered", "waiting", "reaped", "reported"}
  /\ r.pc \in Ended => r.state \in {"Exited", "Signaled"}
(* An output that ended has no writer left and nothing unread.             *)
ExecDrained(r) ==
  /\ r.pc \in Ended => r.stream = "eof"
  /\ r.stream = "eof" => r.piped = 0 /\ ~Execs!Holders(r) /\ r.pc \in {"waiting", "reaped", "reported",
                                                             "done"}
(* The exit and the End come once, and last.                               *)
LastIn(s, x) == \A i \in DOMAIN s : s[i] = x => i = Len(s)
NotIn(s, x) == \A i \in DOMAIN s : s[i] # x
ExecLast(r) ==
  /\ r.events \in Seq(ExecEvents) /\ r.channel \in Seq(ExecFrames)
  /\ r.pc \notin Ended => NotIn(r.events, "ProcessExited") /\ NotIn(r.channel, "End")
  /\ LastIn(r.events, "ProcessExited") /\ LastIn(r.channel, "End")
  /\ r.pc \in Ended => r.events[Len(r.events)] = "ProcessExited"
ExecOk(r) == ExecTypes(r) /\ ExecBytes(r) /\ ExecLeader(r) /\ ExecEntry(r) /\ ExecDrained(r) /\ ExecLast(r)

DaemonTypes ==
  /\ {"state", "requested", "hard", "stage", "count", "executions", "seen", "limit"} \subseteq DOMAIN w1
  /\ w1.state \in {"Healthy", "ShuttingDown", "Stopped"}
  /\ w1.stage \in {"serving", "terminating", "grace", "killed", "terminated", "finished", "exited"}
  /\ w1.stage # "serving" => w1.state # "Healthy"
ExecsOk == Procs \subseteq DOMAIN w2 /\ \A p \in Procs : ExecOk(w2[p])
CountIs == w1.count = Cardinality({p \in Procs : w2[p].pc \in ExecCounted})
(* What the shutdown saw registered stays so until its exit is published,  *)
(* and is dead after the kill.                                             *)
SeenIs ==
  /\ w1.seen \subseteq Procs
  /\ \A p \in w1.seen : w2[p].pc \in SeenSteps
  /\ w1.stage \in {"killed", "terminated", "finished"} =>
       \A p \in w1.seen : w2[p].leader # "alive" /\ w2[p].child # "held"
(* Nothing is on its way to a child when the daemon exits.                 *)
ExitedIs == w1.stage = "exited" => \A p \in Procs : w2[p].pc \notin Early /\ w2[p].leader # "alive"

ExecInv ==
  /\ DaemonTypes
  /\ ExecsOk
  /\ CountIs
  /\ SeenIs
  /\ ExitedIs

(* There are finitely many execs.                                          *)
LEMMA ExecFinite == IsFiniteSet(Procs)
  BY ProcessConstant DEF Execs!ProcessConstants, Execs!IsFiniteSet, IsFiniteSet

(* What a step of one exec may do to it.                                   *)
ExecMove(a, b) ==
  /\ ExecOk(b)
  /\ a.pc \in SeenSteps => b.pc \in SeenSteps
  /\ b.pc \in Early => a.pc \in Early \/ w1.stage # "exited"
  /\ b.leader = "alive" => a.leader = "alive" \/ a.pc = "allowed"
  /\ b.child = "held" => a.child = "held" \/ a.leader = "alive"

(* The step of one exec leaves the rest as it is.                          *)
LEMMA ExecSets ==
  ASSUME ExecInv, NEW p \in Procs, NEW r, Execs!Set(p, r), ExecMove(w2[p], r),
         w1'.stage = w1.stage, w1'.seen = w1.seen, DaemonTypes', CountIs'
  PROVE  ExecInv'
<1>0. DaemonTypes /\ ExecsOk /\ CountIs /\ SeenIs /\ ExitedIs
  BY DEF ExecInv
<1>1. DOMAIN w2' = DOMAIN w2 /\ w2'[p] = r /\ \A q \in Procs \ {p} : w2'[q] = w2[q]
  BY <1>0 DEF Execs!Set, ExecsOk
<1>2. ExecsOk'
  BY <1>0, <1>1 DEF ExecsOk, ExecMove
<1>3. SeenIs'
  BY <1>0, <1>1 DEF SeenIs, ExecMove, SeenSteps
<1>4. ExitedIs'
  BY <1>0, <1>1 DEF ExitedIs, ExecMove, Early
<1> QED BY <1>2, <1>3, <1>4 DEF ExecInv

(* The count is of those whose tasks run.                                  *)
LEMMA ExecCountSame ==
  ASSUME ExecInv, NEW p \in Procs, NEW r, Execs!Set(p, r), r.pc \in ExecCounted <=> w2[p].pc \in ExecCounted,
         w1'.count = w1.count
  PROVE  CountIs'
<1>1. {q \in Procs : w2'[q].pc \in ExecCounted} = {q \in Procs : w2[q].pc \in ExecCounted}
  BY DEF ExecInv, ExecsOk, Execs!Set
<1> QED BY <1>1 DEF ExecInv, CountIs

(* A step of one exec that does not move it in or out of the count keeps   *)
(* the invariant.                                                          *)
LEMMA ExecStays ==
  ASSUME ExecInv, NEW p \in Procs, NEW r, Execs!Set(p, r), ExecMove(w2[p], r),
         r.pc \in ExecCounted <=> w2[p].pc \in ExecCounted, w1' = w1
  PROVE  ExecInv'
<1>1. DaemonTypes'
  BY DEF ExecInv, DaemonTypes
<1>2. CountIs'
  BY ExecCountSame
<1> QED BY <1>1, <1>2, ExecSets

(* What a signal leaves of an exec.                                        *)
SignalMove(a, b) ==
  /\ ExecMove(a, b) /\ b.pc = a.pc /\ b.entry = a.entry /\ b.state = a.state

(* A group killed has no leader and no child in it.                        *)
LEMMA ExecKilled ==
  ASSUME NEW r, ExecOk(r)
  PROVE  /\ SignalMove(r, Execs!Killed(r))
         /\ Execs!Killed(r).leader # "alive" /\ Execs!Killed(r).child # "held"
         /\ DOMAIN Execs!Killed(r) = DOMAIN r
<1> DEFINE k == Execs!Killed(r)
<1>1. ExecTypes(r) /\ ExecBytes(r) /\ ExecLeader(r) /\ ExecEntry(r) /\ ExecDrained(r) /\ ExecLast(r)
  BY DEF ExecOk
<1>2. /\ DOMAIN k = DOMAIN r
      /\ k.pc = r.pc /\ k.written = r.written /\ k.piped = r.piped /\ k.recorded = r.recorded
      /\ k.stream = r.stream
      /\ k.channel = r.channel /\ k.listening = r.listening /\ k.timer = r.timer /\ k.entry = r.entry
      /\ k.state = r.state /\ k.events = r.events
  BY <1>1 DEF Execs!Killed, ExecTypes, ExecFields
<1>3. /\ k.leader = (IF r.leader = "alive" THEN "zombie" ELSE r.leader)
      /\ k.child = (IF r.child \in {"held", "quiet"} THEN Execs!Gone ELSE r.child)
  BY <1>1 DEF Execs!Killed, ExecTypes, ExecFields
<1> HIDE DEF k
<1>4. ExecTypes(k)
  BY <1>1, <1>2, <1>3 DEF ExecTypes
<1>5. ExecBytes(k) /\ ExecEntry(k) /\ ExecLast(k)
  BY <1>1, <1>2 DEF ExecBytes, ExecEntry, ExecLast
<1>6. ExecLeader(k)
  <2>1. Execs!NoChild # "alive" /\ Execs!Gone # "alive" /\ Execs!NoChild \notin {"held", "quiet"}
    BY DEF Execs!NoChild, Execs!Gone
  <2> QED BY <1>1, <1>2, <1>3, <2>1 DEF ExecLeader
<1>7. k.leader # "alive" /\ k.child # "held"
  BY <1>3 DEF Execs!Gone
<1>8. ~Execs!Holders(r) => ~Execs!Holders(k)
  BY <1>3 DEF Execs!Holders, Execs!Gone
<1>9. ExecDrained(k)
  BY <1>1, <1>2, <1>8 DEF ExecDrained
<1>10. ExecOk(k)
  BY <1>4, <1>5, <1>6, <1>9 DEF ExecOk
<1>11. SignalMove(r, k) /\ DOMAIN k = DOMAIN r
  BY <1>2, <1>7, <1>10 DEF SignalMove, ExecMove
<1> QED BY <1>7, <1>11 DEF k

(* Whatever a signal does to the group, the exec is where it was.          *)
LEMMA ExecSignalled ==
  ASSUME NEW r, ExecOk(r), NEW s \in Execs!Signalled(r)
  PROVE  SignalMove(r, s) /\ DOMAIN s = DOMAIN r
<1>1. ExecTypes(r) /\ ExecBytes(r) /\ ExecLeader(r) /\ ExecEntry(r) /\ ExecDrained(r) /\ ExecLast(r)
  BY DEF ExecOk
<1>2. CASE s = r
  BY <1>2 DEF SignalMove, ExecMove
<1>3. CASE s = Execs!Killed(r)
  BY <1>3, ExecKilled
<1> DEFINE lead == [Execs!Killed(r) EXCEPT !.child = r.child]
           kid == [r EXCEPT !.child = Execs!Killed(r).child]
<1>4. /\ DOMAIN lead = DOMAIN r
      /\ lead.pc = r.pc /\ lead.written = r.written /\ lead.piped = r.piped /\ lead.recorded = r.recorded
      /\ lead.stream = r.stream /\ lead.channel = r.channel /\ lead.timer = r.timer
      /\ lead.entry = r.entry
      /\ lead.state = r.state /\ lead.events = r.events /\ lead.child = r.child
      /\ lead.leader = (IF r.leader = "alive" THEN "zombie" ELSE r.leader)
  BY <1>1 DEF Execs!Killed, ExecTypes, ExecFields
<1>5. /\ DOMAIN kid = DOMAIN r
      /\ kid.pc = r.pc /\ kid.written = r.written /\ kid.piped = r.piped /\ kid.recorded = r.recorded
      /\ kid.stream = r.stream /\ kid.channel = r.channel /\ kid.timer = r.timer /\ kid.entry = r.entry
      /\ kid.state = r.state /\ kid.events = r.events /\ kid.leader = r.leader
      /\ kid.child = (IF r.child \in {"held", "quiet"} THEN Execs!Gone ELSE r.child)
  BY <1>1 DEF Execs!Killed, ExecTypes, ExecFields
<1>6. s \in {r, Execs!Killed(r), lead, kid}
  BY DEF Execs!Signalled
<1> HIDE DEF lead, kid
<1>7. Execs!NoChild # "alive" /\ Execs!Gone # "alive" /\ Execs!NoChild \notin {"held",
                                                         "quiet"} /\ Execs!Gone # "held" /\ Execs!Gone # "away"
  BY DEF Execs!NoChild, Execs!Gone
<1>8. ASSUME NEW x, x = lead \/ x = kid PROVE SignalMove(r, x) /\ DOMAIN x = DOMAIN r
  <2>1. /\ DOMAIN x = DOMAIN r
        /\ x.pc = r.pc /\ x.written = r.written /\ x.piped = r.piped /\ x.recorded = r.recorded
        /\ x.stream = r.stream /\ x.channel = r.channel /\ x.timer = r.timer /\ x.entry = r.entry
        /\ x.state = r.state /\ x.events = r.events
    BY <1>4, <1>5, <1>8
  <2>2. x.leader = r.leader \/ (r.leader = "alive" /\ x.leader = "zombie")
    BY <1>4, <1>5, <1>8
  <2>3. x.child = r.child \/ (r.child \in {"held", "quiet"} /\ x.child = Execs!Gone)
    BY <1>4, <1>5, <1>8
  <2>4. ExecTypes(x)
    BY <1>1, <2>1, <2>2, <2>3 DEF ExecTypes
  <2>5. ExecBytes(x) /\ ExecEntry(x) /\ ExecLast(x)
    BY <1>1, <2>1 DEF ExecBytes, ExecEntry, ExecLast
  <2>6. ExecLeader(x)
    BY <1>1, <1>7, <2>1, <2>2, <2>3 DEF ExecLeader
  <2>7. ~Execs!Holders(r) => ~Execs!Holders(x)
    BY <1>7, <2>2, <2>3 DEF Execs!Holders
  <2>8. ExecDrained(x)
    BY <1>1, <2>1, <2>7 DEF ExecDrained
  <2>9. x.child = "held" => r.child = "held"
    BY <1>7, <2>3
  <2> QED BY <2>1, <2>2, <2>4, <2>5, <2>6, <2>8, <2>9 DEF SignalMove, ExecMove, ExecOk
<1> QED BY <1>2, <1>3, <1>6, <1>8

(* An event appended is the last; where it is another, what never occurred *)
(* still has not.                                                          *)
LEMMA ExecAppends ==
  ASSUME NEW S, NEW s \in Seq(S), NEW x \in S, NEW y, NotIn(s, y)
  PROVE  /\ Append(s, x) \in Seq(S) /\ Append(s, x)[Len(Append(s, x))] = x
         /\ x # y => NotIn(Append(s, x), y)
         /\ LastIn(Append(s, x), y)
<1>1. Len(Append(s, x)) = Len(s) + 1 /\ Append(s, x) \in Seq(S) /\ Append(s, x)[Len(s) + 1] = x
  OBVIOUS
<1>2. \A i \in DOMAIN Append(s, x) : (i \in DOMAIN s /\ Append(s, x)[i] = s[i]) \/ i = Len(s) + 1
  OBVIOUS
<1> QED BY <1>1, <1>2 DEF NotIn, LastIn

(* The timer and the listener of an exec matter to nothing else.           *)
LEMMA ExecOther ==
  ASSUME NEW a, ExecOk(a), NEW t \in {"termed", "killed"}, NEW b,
         b = [a EXCEPT !.timer = t] \/ b = [a EXCEPT !.listening = FALSE]
  PROVE  ExecOk(b) /\ b.pc = a.pc /\ b.leader = a.leader /\ b.child = a.child /\ b.entry = a.entry
<1>1. ExecTypes(a) /\ ExecBytes(a) /\ ExecLeader(a) /\ ExecEntry(a) /\ ExecDrained(a) /\ ExecLast(a)
  BY DEF ExecOk
<1>2. /\ DOMAIN b = DOMAIN a /\ b.pc = a.pc /\ b.leader = a.leader /\ b.child = a.child
      /\ b.entry = a.entry
      /\ b.written = a.written /\ b.piped = a.piped /\ b.recorded = a.recorded /\ b.stream = a.stream
      /\ b.channel = a.channel /\ b.state = a.state /\ b.events = a.events /\ b.timer \in {a.timer, t}
  BY <1>1 DEF ExecTypes, ExecFields
<1>3. ExecTypes(b)
  BY <1>1, <1>2 DEF ExecTypes
<1>4. Execs!Holders(b) = Execs!Holders(a)
  BY <1>2 DEF Execs!Holders
<1>5. ExecBytes(b) /\ ExecLeader(b) /\ ExecEntry(b) /\ ExecDrained(b) /\ ExecLast(b)
  BY <1>1, <1>2, <1>4 DEF ExecBytes, ExecLeader, ExecEntry, ExecDrained, ExecLast
<1> QED BY <1>2, <1>3, <1>5 DEF ExecOk

(* Dispatch keeps the invariant.                                           *)
LEMMA ExecDispatch ==
  ASSUME ExecInv, NEW p \in Procs, Execs!Dispatch(p)
  PROVE  ExecInv'
<1> DEFINE a == w2[p]
           b == w2'[p]
<1>1. p \in DOMAIN w2 /\ ExecOk(a) /\ DaemonTypes
  BY DEF ExecInv, ExecsOk
<1>2. ExecTypes(a) /\ ExecBytes(a) /\ ExecLeader(a) /\ ExecEntry(a) /\ ExecDrained(a) /\ ExecLast(a)
  BY <1>1 DEF ExecOk
<1>3. Execs!Set(p, b)
  BY <1>1 DEF Execs!Dispatch, Execs!Set, Execs!Serving
<1>4. /\ DOMAIN b = DOMAIN a /\ b.leader = a.leader /\ b.child = a.child /\ b.written = a.written
      /\ b.piped = a.piped /\ b.recorded = a.recorded /\ b.stream = a.stream
      /\ b.channel = a.channel /\ b.timer = a.timer /\ b.entry = a.entry /\ b.state = a.state
      /\ b.events = a.events
  BY <1>1, <1>2 DEF Execs!Dispatch, Execs!Set, Execs!Serving, ExecTypes, ExecFields
<1>5. b.pc \in {"admitted", "refused"} /\ a.pc = "idle" /\ (b.pc = "admitted" => w1.stage # "exited")
  BY <1>1, <1>2 DEF Execs!Dispatch, Execs!Set, Execs!Serving, ExecTypes, ExecFields, DaemonTypes
<1> HIDE DEF a, b
<1>6. Execs!Holders(b) => Execs!Holders(a) \/ a.pc = "allowed"
  BY <1>2, <1>4, <1>5 DEF Execs!Holders, Execs!Gone
<1>7. ExecTypes(b)
  BY <1>2, <1>4, <1>5 DEF ExecTypes, Unspawned, Early, ExecCounted, Ended
<1>8. ExecBytes(b)
  BY <1>2, <1>4, <1>5 DEF ExecBytes
<1>9. ExecLeader(b)
  BY <1>2, <1>4, <1>5 DEF ExecLeader, Unspawned, Early, ExecCounted, Ended, Execs!NoChild, Execs!Gone
<1>10. ExecEntry(b)
  BY <1>2, <1>4, <1>5 DEF ExecEntry, Unspawned, Early, ExecCounted, Ended
<1>11. ExecDrained(b)
  BY <1>2, <1>4, <1>5, <1>6 DEF ExecDrained, Unspawned, Early, ExecCounted, Ended
<1>12. ExecLast(b)
  BY <1>2, <1>4, <1>5 DEF ExecLast, Ended
<1>13. ExecMove(a, b)
  <2>1. ExecOk(b)
    BY <1>7, <1>8, <1>9, <1>10, <1>11, <1>12 DEF ExecOk
  <2> QED BY <2>1, <1>4, <1>5 DEF ExecMove, SeenSteps, Early, Execs!Gone
<1>14. b.pc \in ExecCounted <=> a.pc \in ExecCounted
  BY <1>4, <1>5 DEF ExecCounted
<1>15. w1' = w1
  BY DEF Execs!Dispatch
<1> QED BY <1>3, <1>13, <1>14, <1>15, ExecStays DEF a, b

(* CheckLimit keeps the invariant.                                         *)
LEMMA ExecCheckLimit ==
  ASSUME ExecInv, NEW p \in Procs, Execs!CheckLimit(p)
  PROVE  ExecInv'
<1> DEFINE a == w2[p]
           b == w2'[p]
<1>1. p \in DOMAIN w2 /\ ExecOk(a) /\ DaemonTypes
  BY DEF ExecInv, ExecsOk
<1>2. ExecTypes(a) /\ ExecBytes(a) /\ ExecLeader(a) /\ ExecEntry(a) /\ ExecDrained(a) /\ ExecLast(a)
  BY <1>1 DEF ExecOk
<1>3. Execs!Set(p, b)
  BY <1>1 DEF Execs!CheckLimit, Execs!Set
<1>4. /\ DOMAIN b = DOMAIN a /\ b.leader = a.leader /\ b.child = a.child /\ b.written = a.written
      /\ b.piped = a.piped /\ b.recorded = a.recorded /\ b.stream = a.stream
      /\ b.channel = a.channel /\ b.timer = a.timer /\ b.entry = a.entry /\ b.state = a.state
      /\ b.events = a.events
  BY <1>1, <1>2 DEF Execs!CheckLimit, Execs!Set, ExecTypes, ExecFields
<1>5. b.pc \in {"allowed", "refused"} /\ a.pc = "admitted"
  BY <1>1, <1>2 DEF Execs!CheckLimit, Execs!Set, ExecTypes, ExecFields
<1> HIDE DEF a, b
<1>6. Execs!Holders(b) => Execs!Holders(a) \/ a.pc = "allowed"
  BY <1>2, <1>4, <1>5 DEF Execs!Holders, Execs!Gone
<1>7. ExecTypes(b)
  BY <1>2, <1>4, <1>5 DEF ExecTypes, Unspawned, Early, ExecCounted, Ended
<1>8. ExecBytes(b)
  BY <1>2, <1>4, <1>5 DEF ExecBytes
<1>9. ExecLeader(b)
  BY <1>2, <1>4, <1>5 DEF ExecLeader, Unspawned, Early, ExecCounted, Ended, Execs!NoChild, Execs!Gone
<1>10. ExecEntry(b)
  BY <1>2, <1>4, <1>5 DEF ExecEntry, Unspawned, Early, ExecCounted, Ended
<1>11. ExecDrained(b)
  BY <1>2, <1>4, <1>5, <1>6 DEF ExecDrained, Unspawned, Early, ExecCounted, Ended
<1>12. ExecLast(b)
  BY <1>2, <1>4, <1>5 DEF ExecLast, Ended
<1>13. ExecMove(a, b)
  <2>1. ExecOk(b)
    BY <1>7, <1>8, <1>9, <1>10, <1>11, <1>12 DEF ExecOk
  <2> QED BY <2>1, <1>4, <1>5 DEF ExecMove, SeenSteps, Early, Execs!Gone
<1>14. b.pc \in ExecCounted <=> a.pc \in ExecCounted
  BY <1>4, <1>5 DEF ExecCounted
<1>15. w1' = w1
  BY DEF Execs!CheckLimit
<1> QED BY <1>3, <1>13, <1>14, <1>15, ExecStays DEF a, b

(* SpawnFails keeps the invariant.                                         *)
LEMMA ExecSpawnFails ==
  ASSUME ExecInv, NEW p \in Procs, Execs!SpawnFails(p)
  PROVE  ExecInv'
<1> DEFINE a == w2[p]
           b == w2'[p]
<1>1. p \in DOMAIN w2 /\ ExecOk(a) /\ DaemonTypes
  BY DEF ExecInv, ExecsOk
<1>2. ExecTypes(a) /\ ExecBytes(a) /\ ExecLeader(a) /\ ExecEntry(a) /\ ExecDrained(a) /\ ExecLast(a)
  BY <1>1 DEF ExecOk
<1>3. Execs!Set(p, b)
  BY <1>1 DEF Execs!SpawnFails, Execs!Set
<1>4. /\ DOMAIN b = DOMAIN a /\ b.leader = a.leader /\ b.child = a.child /\ b.written = a.written
      /\ b.piped = a.piped /\ b.recorded = a.recorded /\ b.stream = a.stream
      /\ b.channel = a.channel /\ b.timer = a.timer /\ b.entry = a.entry /\ b.state = a.state
      /\ b.events = a.events
  BY <1>1, <1>2 DEF Execs!SpawnFails, Execs!Set, ExecTypes, ExecFields
<1>5. b.pc = "refused" /\ a.pc = "allowed"
  BY <1>1, <1>2 DEF Execs!SpawnFails, Execs!Set, ExecTypes, ExecFields
<1> HIDE DEF a, b
<1>6. Execs!Holders(b) => Execs!Holders(a) \/ a.pc = "allowed"
  BY <1>2, <1>4, <1>5 DEF Execs!Holders, Execs!Gone
<1>7. ExecTypes(b)
  BY <1>2, <1>4, <1>5 DEF ExecTypes, Unspawned, Early, ExecCounted, Ended
<1>8. ExecBytes(b)
  BY <1>2, <1>4, <1>5 DEF ExecBytes
<1>9. ExecLeader(b)
  BY <1>2, <1>4, <1>5 DEF ExecLeader, Unspawned, Early, ExecCounted, Ended, Execs!NoChild, Execs!Gone
<1>10. ExecEntry(b)
  BY <1>2, <1>4, <1>5 DEF ExecEntry, Unspawned, Early, ExecCounted, Ended
<1>11. ExecDrained(b)
  BY <1>2, <1>4, <1>5, <1>6 DEF ExecDrained, Unspawned, Early, ExecCounted, Ended
<1>12. ExecLast(b)
  BY <1>2, <1>4, <1>5 DEF ExecLast, Ended
<1>13. ExecMove(a, b)
  <2>1. ExecOk(b)
    BY <1>7, <1>8, <1>9, <1>10, <1>11, <1>12 DEF ExecOk
  <2> QED BY <2>1, <1>4, <1>5 DEF ExecMove, SeenSteps, Early, Execs!Gone
<1>14. b.pc \in ExecCounted <=> a.pc \in ExecCounted
  BY <1>4, <1>5 DEF ExecCounted
<1>15. w1' = w1
  BY DEF Execs!SpawnFails
<1> QED BY <1>3, <1>13, <1>14, <1>15, ExecStays DEF a, b

(* Spawn keeps the invariant.                                              *)
LEMMA ExecSpawn ==
  ASSUME ExecInv, NEW p \in Procs, Execs!Spawn(p)
  PROVE  ExecInv'
<1> DEFINE a == w2[p]
           b == w2'[p]
<1>1. p \in DOMAIN w2 /\ ExecOk(a) /\ DaemonTypes
  BY DEF ExecInv, ExecsOk
<1>2. ExecTypes(a) /\ ExecBytes(a) /\ ExecLeader(a) /\ ExecEntry(a) /\ ExecDrained(a) /\ ExecLast(a)
  BY <1>1 DEF ExecOk
<1>3. Execs!Set(p, b)
  BY <1>1 DEF Execs!Spawn, Execs!Set
<1>4. /\ DOMAIN b = DOMAIN a /\ b.child = a.child /\ b.written = a.written /\ b.piped = a.piped
      /\ b.recorded = a.recorded /\ b.stream = a.stream /\ b.channel = a.channel
      /\ b.entry = a.entry /\ b.state = a.state /\ b.events = a.events
  <2>1. PICK attach \in Execs!Limit.attached : \E timed \in Execs!Limit.timed :
          Execs!Set(p, [w2[p] EXCEPT !.pc = "spawned", !.leader = "alive", !.stdin = "open",
                                  !.listening = attach, !.timer = IF timed THEN "armed" ELSE "off"])
    BY DEF Execs!Spawn
  <2>2. PICK t : Execs!Set(p, [w2[p] EXCEPT !.pc = "spawned", !.leader = "alive", !.stdin = "open",
                                         !.listening = attach, !.timer = t])
    BY <2>1
  <2> QED BY <1>1, <1>2, <2>2 DEF Execs!Set, ExecTypes, ExecFields
<1>5. b.pc = "spawned" /\ a.pc = "allowed" /\ b.leader = "alive" /\ b.timer \in {"off", "armed"}
  BY <1>1, <1>2 DEF Execs!Spawn, Execs!Set, ExecTypes, ExecFields
<1> HIDE DEF a, b
<1>6. Execs!Holders(b) => Execs!Holders(a) \/ a.pc = "allowed"
  BY <1>2, <1>4, <1>5 DEF Execs!Holders, Execs!Gone
<1>7. ExecTypes(b)
  BY <1>2, <1>4, <1>5 DEF ExecTypes, Unspawned, Early, ExecCounted, Ended
<1>8. ExecBytes(b)
  BY <1>2, <1>4, <1>5 DEF ExecBytes
<1>9. ExecLeader(b)
  BY <1>2, <1>4, <1>5 DEF ExecLeader, Unspawned, Early, ExecCounted, Ended, Execs!NoChild, Execs!Gone
<1>10. ExecEntry(b)
  BY <1>2, <1>4, <1>5 DEF ExecEntry, Unspawned, Early, ExecCounted, Ended
<1>11. ExecDrained(b)
  BY <1>2, <1>4, <1>5, <1>6 DEF ExecDrained, Unspawned, Early, ExecCounted, Ended
<1>12. ExecLast(b)
  BY <1>2, <1>4, <1>5 DEF ExecLast, Ended
<1>13. ExecMove(a, b)
  <2>1. ExecOk(b)
    BY <1>7, <1>8, <1>9, <1>10, <1>11, <1>12 DEF ExecOk
  <2> QED BY <2>1, <1>4, <1>5 DEF ExecMove, SeenSteps, Early, Execs!Gone
<1>14. b.pc \in ExecCounted <=> a.pc \in ExecCounted
  BY <1>4, <1>5 DEF ExecCounted
<1>15. w1' = w1
  BY DEF Execs!Spawn
<1> QED BY <1>3, <1>13, <1>14, <1>15, ExecStays DEF a, b

(* Register keeps the invariant.                                           *)
LEMMA ExecRegister ==
  ASSUME ExecInv, NEW p \in Procs, Execs!Register(p)
  PROVE  ExecInv'
<1> DEFINE a == w2[p]
           b == w2'[p]
<1>1. p \in DOMAIN w2 /\ ExecOk(a) /\ DaemonTypes
  BY DEF ExecInv, ExecsOk
<1>2. ExecTypes(a) /\ ExecBytes(a) /\ ExecLeader(a) /\ ExecEntry(a) /\ ExecDrained(a) /\ ExecLast(a)
  BY <1>1 DEF ExecOk
<1>3. Execs!Set(p, b)
  BY <1>1 DEF Execs!Register, Execs!Set
<1>4. /\ DOMAIN b = DOMAIN a /\ b.leader = a.leader /\ b.child = a.child /\ b.written = a.written
      /\ b.piped = a.piped /\ b.recorded = a.recorded /\ b.stream = a.stream
      /\ b.channel = a.channel /\ b.timer = a.timer /\ b.events = a.events
  BY <1>1, <1>2 DEF Execs!Register, Execs!Set, ExecTypes, ExecFields
<1>5. b.pc = "registered" /\ a.pc = "spawned" /\ b.entry /\ b.state = "Running"
  BY <1>1, <1>2 DEF Execs!Register, Execs!Set, ExecTypes, ExecFields
<1> HIDE DEF a, b
<1>6. Execs!Holders(b) => Execs!Holders(a) \/ a.pc = "allowed"
  BY <1>2, <1>4, <1>5 DEF Execs!Holders, Execs!Gone
<1>7. ExecTypes(b)
  BY <1>2, <1>4, <1>5 DEF ExecTypes, Unspawned, Early, ExecCounted, Ended
<1>8. ExecBytes(b)
  BY <1>2, <1>4, <1>5 DEF ExecBytes
<1>9. ExecLeader(b)
  BY <1>2, <1>4, <1>5 DEF ExecLeader, Unspawned, Early, ExecCounted, Ended, Execs!NoChild, Execs!Gone
<1>10. ExecEntry(b)
  BY <1>2, <1>4, <1>5 DEF ExecEntry, Unspawned, Early, ExecCounted, Ended
<1>11. ExecDrained(b)
  BY <1>2, <1>4, <1>5, <1>6 DEF ExecDrained, Unspawned, Early, ExecCounted, Ended
<1>12. ExecLast(b)
  BY <1>2, <1>4, <1>5 DEF ExecLast, Ended
<1>13. ExecMove(a, b)
  <2>1. ExecOk(b)
    BY <1>7, <1>8, <1>9, <1>10, <1>11, <1>12 DEF ExecOk
  <2> QED BY <2>1, <1>4, <1>5 DEF ExecMove, SeenSteps, Early, Execs!Gone
<1>14. b.pc \in ExecCounted <=> a.pc \in ExecCounted
  BY <1>4, <1>5 DEF ExecCounted
<1>15. w1' = w1
  BY DEF Execs!Register
<1> QED BY <1>3, <1>13, <1>14, <1>15, ExecStays DEF a, b

(* StartTasks keeps the invariant.                                         *)
LEMMA ExecStartTasks ==
  ASSUME ExecInv, NEW p \in Procs, Execs!StartTasks(p)
  PROVE  ExecInv'
<1> DEFINE a == w2[p]
           b == w2'[p]
<1>1. p \in DOMAIN w2 /\ ExecOk(a) /\ DaemonTypes
  BY DEF ExecInv, ExecsOk
<1>2. ExecTypes(a) /\ ExecBytes(a) /\ ExecLeader(a) /\ ExecEntry(a) /\ ExecDrained(a) /\ ExecLast(a)
  BY <1>1 DEF ExecOk
<1>3. Execs!Set(p, b)
  BY <1>1 DEF Execs!StartTasks, Execs!Set
<1>4. /\ DOMAIN b = DOMAIN a /\ b.leader = a.leader /\ b.child = a.child /\ b.written = a.written
      /\ b.piped = a.piped /\ b.recorded = a.recorded /\ b.stream = a.stream
      /\ b.channel = a.channel /\ b.timer = a.timer /\ b.entry = a.entry /\ b.state = a.state
  BY <1>1, <1>2 DEF Execs!StartTasks, Execs!Set, ExecTypes, ExecFields
<1>5. b.pc = "waiting" /\ a.pc = "registered" /\ b.events = Append(a.events, "ProcessStarted")
  BY <1>1, <1>2 DEF Execs!StartTasks, Execs!Set, ExecTypes, ExecFields
<1> HIDE DEF a, b
<1>6. Execs!Holders(b) => Execs!Holders(a) \/ a.pc = "allowed"
  BY <1>2, <1>4, <1>5 DEF Execs!Holders, Execs!Gone
<1>7. ExecTypes(b)
  BY <1>2, <1>4, <1>5 DEF ExecTypes, Unspawned, Early, ExecCounted, Ended
<1>8. ExecBytes(b)
  BY <1>2, <1>4, <1>5 DEF ExecBytes
<1>9. ExecLeader(b)
  BY <1>2, <1>4, <1>5 DEF ExecLeader, Unspawned, Early, ExecCounted, Ended, Execs!NoChild, Execs!Gone
<1>10. ExecEntry(b)
  BY <1>2, <1>4, <1>5 DEF ExecEntry, Unspawned, Early, ExecCounted, Ended
<1>11. ExecDrained(b)
  BY <1>2, <1>4, <1>5, <1>6 DEF ExecDrained, Unspawned, Early, ExecCounted, Ended
<1>12. ExecLast(b)
  <2>1. a.pc \notin Ended /\ b.pc \notin Ended /\ "ProcessStarted" \in ExecEvents /\ "ProcessStarted" # "ProcessExited"
    BY <1>5 DEF Ended, ExecEvents
  <2>2. a.events \in Seq(ExecEvents) /\ NotIn(a.events, "ProcessExited")
    BY <1>2, <2>1 DEF ExecLast
  <2>3. b.events \in Seq(ExecEvents) /\ NotIn(b.events, "ProcessExited") /\ LastIn(b.events, "ProcessExited")
    BY <1>5, <2>1, <2>2, ExecAppends
  <2> QED BY <1>2, <1>4, <2>1, <2>3 DEF ExecLast
<1>13. ExecMove(a, b)
  <2>1. ExecOk(b)
    BY <1>7, <1>8, <1>9, <1>10, <1>11, <1>12 DEF ExecOk
  <2> QED BY <2>1, <1>4, <1>5 DEF ExecMove, SeenSteps, Early, Execs!Gone
<1> DEFINE C == {q \in Procs : w2[q].pc \in ExecCounted}
<1>14. w1'.count = w1.count + 1 /\ w1'.stage = w1.stage /\ w1'.seen = w1.seen /\ DaemonTypes'
  BY <1>1 DEF Execs!StartTasks, DaemonTypes
<1>15. /\ a.pc \notin ExecCounted /\ b.pc \in ExecCounted
  BY <1>5 DEF ExecCounted
<1>16. {q \in Procs : w2'[q].pc \in ExecCounted} = C \cup {p}
  BY <1>1, <1>3, <1>15 DEF Execs!Set, a, b, ExecInv, ExecsOk
<1>17. IsFiniteSet(C) /\ p \notin C
  BY <1>15, ExecFinite, FS_Subset DEF a
<1>18. Cardinality(C \cup {p}) = Cardinality(C) + 1
  BY <1>17, FS_AddElement
<1>19. CountIs'
  BY <1>14, <1>16, <1>18 DEF CountIs, ExecInv
<1> QED BY <1>3, <1>13, <1>14, <1>19, ExecSets DEF a, b

(* Writes keeps the invariant.                                             *)
LEMMA ExecWrites ==
  ASSUME ExecInv, NEW p \in Procs, Execs!Writes(p)
  PROVE  ExecInv'
<1> DEFINE a == w2[p]
           b == w2'[p]
<1>1. p \in DOMAIN w2 /\ ExecOk(a) /\ DaemonTypes
  BY DEF ExecInv, ExecsOk
<1>2. ExecTypes(a) /\ ExecBytes(a) /\ ExecLeader(a) /\ ExecEntry(a) /\ ExecDrained(a) /\ ExecLast(a)
  BY <1>1 DEF ExecOk
<1>3. Execs!Set(p, b)
  BY <1>1 DEF Execs!Writes, Execs!Set, Execs!Started
<1>4. /\ DOMAIN b = DOMAIN a /\ b.pc = a.pc /\ b.leader = a.leader /\ b.child = a.child
      /\ b.recorded = a.recorded /\ b.stream = a.stream /\ b.channel = a.channel
      /\ b.timer = a.timer /\ b.entry = a.entry /\ b.state = a.state /\ b.events = a.events
  BY <1>1, <1>2 DEF Execs!Writes, Execs!Set, Execs!Started, ExecTypes, ExecFields
<1>5. b.written = a.written + 1 /\ b.piped = a.piped + 1 /\ a.leader # Execs!NoChild /\ Execs!Holders(a)
  BY <1>1, <1>2 DEF Execs!Writes, Execs!Set, Execs!Started, ExecTypes, ExecFields
<1> HIDE DEF a, b
<1>6. Execs!Holders(b) => Execs!Holders(a) \/ a.pc = "allowed"
  BY <1>2, <1>4, <1>5 DEF Execs!Holders, Execs!Gone
<1>7. ExecTypes(b)
  BY <1>2, <1>4, <1>5 DEF ExecTypes, Unspawned, Early, ExecCounted, Ended
<1>8. ExecBytes(b)
  BY <1>2, <1>4, <1>5 DEF ExecBytes
<1>9. ExecLeader(b)
  BY <1>2, <1>4, <1>5 DEF ExecLeader, Unspawned, Early, ExecCounted, Ended, Execs!NoChild, Execs!Gone
<1>10. ExecEntry(b)
  BY <1>2, <1>4, <1>5 DEF ExecEntry, Unspawned, Early, ExecCounted, Ended
<1>11. ExecDrained(b)
  BY <1>2, <1>4, <1>5, <1>6 DEF ExecDrained, Unspawned, Early, ExecCounted, Ended, ExecBytes
<1>12. ExecLast(b)
  BY <1>2, <1>4, <1>5 DEF ExecLast, Ended
<1>13. ExecMove(a, b)
  <2>1. ExecOk(b)
    BY <1>7, <1>8, <1>9, <1>10, <1>11, <1>12 DEF ExecOk
  <2> QED BY <2>1, <1>4, <1>5 DEF ExecMove, SeenSteps, Early, Execs!Gone
<1>14. b.pc \in ExecCounted <=> a.pc \in ExecCounted
  BY <1>4, <1>5 DEF ExecCounted
<1>15. w1' = w1
  BY DEF Execs!Writes
<1> QED BY <1>3, <1>13, <1>14, <1>15, ExecStays DEF a, b

(* Forks keeps the invariant.                                              *)
LEMMA ExecForks ==
  ASSUME ExecInv, NEW p \in Procs, Execs!Forks(p)
  PROVE  ExecInv'
<1> DEFINE a == w2[p]
           b == w2'[p]
<1>1. p \in DOMAIN w2 /\ ExecOk(a) /\ DaemonTypes
  BY DEF ExecInv, ExecsOk
<1>2. ExecTypes(a) /\ ExecBytes(a) /\ ExecLeader(a) /\ ExecEntry(a) /\ ExecDrained(a) /\ ExecLast(a)
  BY <1>1 DEF ExecOk
<1>3. Execs!Set(p, b)
  BY <1>1 DEF Execs!Forks, Execs!Set
<1>4. /\ DOMAIN b = DOMAIN a /\ b.pc = a.pc /\ b.leader = a.leader /\ b.written = a.written
      /\ b.piped = a.piped /\ b.recorded = a.recorded /\ b.stream = a.stream
      /\ b.channel = a.channel /\ b.timer = a.timer /\ b.entry = a.entry /\ b.state = a.state
      /\ b.events = a.events
  BY <1>1, <1>2 DEF Execs!Forks, Execs!Set, ExecTypes, ExecFields
<1>5. b.child \in {"held", "quiet"} /\ a.leader = "alive" /\ a.child = Execs!NoChild
  BY <1>1, <1>2 DEF Execs!Forks, Execs!Set, ExecTypes, ExecFields
<1> HIDE DEF a, b
<1>6. Execs!Holders(b) => Execs!Holders(a) \/ a.pc = "allowed"
  BY <1>2, <1>4, <1>5 DEF Execs!Holders, Execs!Gone, ExecLeader
<1>7. ExecTypes(b)
  BY <1>2, <1>4, <1>5 DEF ExecTypes, Unspawned, Early, ExecCounted, Ended
<1>8. ExecBytes(b)
  BY <1>2, <1>4, <1>5 DEF ExecBytes
<1>9. ExecLeader(b)
  BY <1>2, <1>4, <1>5 DEF ExecLeader, Unspawned, Early, ExecCounted, Ended, Execs!NoChild, Execs!Gone
<1>10. ExecEntry(b)
  BY <1>2, <1>4, <1>5 DEF ExecEntry, Unspawned, Early, ExecCounted, Ended
<1>11. ExecDrained(b)
  BY <1>2, <1>4, <1>5, <1>6 DEF ExecDrained, Unspawned, Early, ExecCounted, Ended
<1>12. ExecLast(b)
  BY <1>2, <1>4, <1>5 DEF ExecLast, Ended
<1>13. ExecMove(a, b)
  <2>1. ExecOk(b)
    BY <1>7, <1>8, <1>9, <1>10, <1>11, <1>12 DEF ExecOk
  <2> QED BY <2>1, <1>4, <1>5 DEF ExecMove, SeenSteps, Early, Execs!Gone
<1>14. b.pc \in ExecCounted <=> a.pc \in ExecCounted
  BY <1>4, <1>5 DEF ExecCounted
<1>15. w1' = w1
  BY DEF Execs!Forks
<1> QED BY <1>3, <1>13, <1>14, <1>15, ExecStays DEF a, b

(* LeavesGroup keeps the invariant.                                        *)
LEMMA ExecLeavesGroup ==
  ASSUME ExecInv, NEW p \in Procs, Execs!LeavesGroup(p)
  PROVE  ExecInv'
<1> DEFINE a == w2[p]
           b == w2'[p]
<1>1. p \in DOMAIN w2 /\ ExecOk(a) /\ DaemonTypes
  BY DEF ExecInv, ExecsOk
<1>2. ExecTypes(a) /\ ExecBytes(a) /\ ExecLeader(a) /\ ExecEntry(a) /\ ExecDrained(a) /\ ExecLast(a)
  BY <1>1 DEF ExecOk
<1>3. Execs!Set(p, b)
  BY <1>1 DEF Execs!LeavesGroup, Execs!Set
<1>4. /\ DOMAIN b = DOMAIN a /\ b.pc = a.pc /\ b.leader = a.leader /\ b.written = a.written
      /\ b.piped = a.piped /\ b.recorded = a.recorded /\ b.stream = a.stream
      /\ b.channel = a.channel /\ b.timer = a.timer /\ b.entry = a.entry /\ b.state = a.state
      /\ b.events = a.events
  BY <1>1, <1>2 DEF Execs!LeavesGroup, Execs!Set, ExecTypes, ExecFields
<1>5. b.child = "away" /\ a.child = "held"
  BY <1>1, <1>2 DEF Execs!LeavesGroup, Execs!Set, ExecTypes, ExecFields
<1> HIDE DEF a, b
<1>6. Execs!Holders(b) => Execs!Holders(a) \/ a.pc = "allowed"
  BY <1>2, <1>4, <1>5 DEF Execs!Holders, Execs!Gone
<1>7. ExecTypes(b)
  BY <1>2, <1>4, <1>5 DEF ExecTypes, Unspawned, Early, ExecCounted, Ended
<1>8. ExecBytes(b)
  BY <1>2, <1>4, <1>5 DEF ExecBytes
<1>9. ExecLeader(b)
  BY <1>2, <1>4, <1>5 DEF ExecLeader, Unspawned, Early, ExecCounted, Ended, Execs!NoChild, Execs!Gone
<1>10. ExecEntry(b)
  BY <1>2, <1>4, <1>5 DEF ExecEntry, Unspawned, Early, ExecCounted, Ended
<1>11. ExecDrained(b)
  BY <1>2, <1>4, <1>5, <1>6 DEF ExecDrained, Unspawned, Early, ExecCounted, Ended
<1>12. ExecLast(b)
  BY <1>2, <1>4, <1>5 DEF ExecLast, Ended
<1>13. ExecMove(a, b)
  <2>1. ExecOk(b)
    BY <1>7, <1>8, <1>9, <1>10, <1>11, <1>12 DEF ExecOk
  <2> QED BY <2>1, <1>4, <1>5 DEF ExecMove, SeenSteps, Early, Execs!Gone
<1>14. b.pc \in ExecCounted <=> a.pc \in ExecCounted
  BY <1>4, <1>5 DEF ExecCounted
<1>15. w1' = w1
  BY DEF Execs!LeavesGroup
<1> QED BY <1>3, <1>13, <1>14, <1>15, ExecStays DEF a, b

(* LeaderExits keeps the invariant.                                        *)
LEMMA ExecLeaderExits ==
  ASSUME ExecInv, NEW p \in Procs, Execs!LeaderExits(p)
  PROVE  ExecInv'
<1> DEFINE a == w2[p]
           b == w2'[p]
<1>1. p \in DOMAIN w2 /\ ExecOk(a) /\ DaemonTypes
  BY DEF ExecInv, ExecsOk
<1>2. ExecTypes(a) /\ ExecBytes(a) /\ ExecLeader(a) /\ ExecEntry(a) /\ ExecDrained(a) /\ ExecLast(a)
  BY <1>1 DEF ExecOk
<1>3. Execs!Set(p, b)
  BY <1>1 DEF Execs!LeaderExits, Execs!Set
<1>4. /\ DOMAIN b = DOMAIN a /\ b.pc = a.pc /\ b.child = a.child /\ b.written = a.written
      /\ b.piped = a.piped /\ b.recorded = a.recorded /\ b.stream = a.stream
      /\ b.channel = a.channel /\ b.timer = a.timer /\ b.entry = a.entry /\ b.state = a.state
      /\ b.events = a.events
  BY <1>1, <1>2 DEF Execs!LeaderExits, Execs!Set, ExecTypes, ExecFields
<1>5. b.leader = "zombie" /\ a.leader = "alive"
  BY <1>1, <1>2 DEF Execs!LeaderExits, Execs!Set, ExecTypes, ExecFields
<1> HIDE DEF a, b
<1>6. Execs!Holders(b) => Execs!Holders(a) \/ a.pc = "allowed"
  BY <1>2, <1>4, <1>5 DEF Execs!Holders, Execs!Gone
<1>7. ExecTypes(b)
  BY <1>2, <1>4, <1>5 DEF ExecTypes, Unspawned, Early, ExecCounted, Ended
<1>8. ExecBytes(b)
  BY <1>2, <1>4, <1>5 DEF ExecBytes
<1>9. ExecLeader(b)
  BY <1>2, <1>4, <1>5 DEF ExecLeader, Unspawned, Early, ExecCounted, Ended, Execs!NoChild, Execs!Gone
<1>10. ExecEntry(b)
  BY <1>2, <1>4, <1>5 DEF ExecEntry, Unspawned, Early, ExecCounted, Ended
<1>11. ExecDrained(b)
  BY <1>2, <1>4, <1>5, <1>6 DEF ExecDrained, Unspawned, Early, ExecCounted, Ended
<1>12. ExecLast(b)
  BY <1>2, <1>4, <1>5 DEF ExecLast, Ended
<1>13. ExecMove(a, b)
  <2>1. ExecOk(b)
    BY <1>7, <1>8, <1>9, <1>10, <1>11, <1>12 DEF ExecOk
  <2> QED BY <2>1, <1>4, <1>5 DEF ExecMove, SeenSteps, Early, Execs!Gone
<1>14. b.pc \in ExecCounted <=> a.pc \in ExecCounted
  BY <1>4, <1>5 DEF ExecCounted
<1>15. w1' = w1
  BY DEF Execs!LeaderExits
<1> QED BY <1>3, <1>13, <1>14, <1>15, ExecStays DEF a, b

(* ChildExits keeps the invariant.                                         *)
LEMMA ExecChildExits ==
  ASSUME ExecInv, NEW p \in Procs, Execs!ChildExits(p)
  PROVE  ExecInv'
<1> DEFINE a == w2[p]
           b == w2'[p]
<1>1. p \in DOMAIN w2 /\ ExecOk(a) /\ DaemonTypes
  BY DEF ExecInv, ExecsOk
<1>2. ExecTypes(a) /\ ExecBytes(a) /\ ExecLeader(a) /\ ExecEntry(a) /\ ExecDrained(a) /\ ExecLast(a)
  BY <1>1 DEF ExecOk
<1>3. Execs!Set(p, b)
  BY <1>1 DEF Execs!ChildExits, Execs!Set
<1>4. /\ DOMAIN b = DOMAIN a /\ b.pc = a.pc /\ b.leader = a.leader /\ b.written = a.written
      /\ b.piped = a.piped /\ b.recorded = a.recorded /\ b.stream = a.stream
      /\ b.channel = a.channel /\ b.timer = a.timer /\ b.entry = a.entry /\ b.state = a.state
      /\ b.events = a.events
  BY <1>1, <1>2 DEF Execs!ChildExits, Execs!Set, ExecTypes, ExecFields
<1>5. b.child = Execs!Gone /\ a.child \in {"held", "quiet", "away"}
  BY <1>1, <1>2 DEF Execs!ChildExits, Execs!Set, ExecTypes, ExecFields
<1> HIDE DEF a, b
<1>6. Execs!Holders(b) => Execs!Holders(a) \/ a.pc = "allowed"
  BY <1>2, <1>4, <1>5 DEF Execs!Holders, Execs!Gone
<1>7. ExecTypes(b)
  BY <1>2, <1>4, <1>5 DEF ExecTypes, Unspawned, Early, ExecCounted, Ended
<1>8. ExecBytes(b)
  BY <1>2, <1>4, <1>5 DEF ExecBytes
<1>9. ExecLeader(b)
  BY <1>2, <1>4, <1>5 DEF ExecLeader, Unspawned, Early, ExecCounted, Ended, Execs!NoChild, Execs!Gone
<1>10. ExecEntry(b)
  BY <1>2, <1>4, <1>5 DEF ExecEntry, Unspawned, Early, ExecCounted, Ended
<1>11. ExecDrained(b)
  BY <1>2, <1>4, <1>5, <1>6 DEF ExecDrained, Unspawned, Early, ExecCounted, Ended
<1>12. ExecLast(b)
  BY <1>2, <1>4, <1>5 DEF ExecLast, Ended
<1>13. ExecMove(a, b)
  <2>1. ExecOk(b)
    BY <1>7, <1>8, <1>9, <1>10, <1>11, <1>12 DEF ExecOk
  <2> QED BY <2>1, <1>4, <1>5 DEF ExecMove, SeenSteps, Early, Execs!Gone
<1>14. b.pc \in ExecCounted <=> a.pc \in ExecCounted
  BY <1>4, <1>5 DEF ExecCounted
<1>15. w1' = w1
  BY DEF Execs!ChildExits
<1> QED BY <1>3, <1>13, <1>14, <1>15, ExecStays DEF a, b

(* CaptureChunk keeps the invariant.                                       *)
LEMMA ExecCaptureChunk ==
  ASSUME ExecInv, NEW p \in Procs, Execs!CaptureChunk(p)
  PROVE  ExecInv'
<1> DEFINE a == w2[p]
           b == w2'[p]
<1>1. p \in DOMAIN w2 /\ ExecOk(a) /\ DaemonTypes
  BY DEF ExecInv, ExecsOk
<1>2. ExecTypes(a) /\ ExecBytes(a) /\ ExecLeader(a) /\ ExecEntry(a) /\ ExecDrained(a) /\ ExecLast(a)
  BY <1>1 DEF ExecOk
<1>3. Execs!Set(p, b)
  BY <1>1 DEF Execs!CaptureChunk, Execs!Set, Execs!TasksRun
<1>4. /\ DOMAIN b = DOMAIN a /\ b.pc = a.pc /\ b.leader = a.leader /\ b.child = a.child
      /\ b.written = a.written /\ b.stream = a.stream /\ b.timer = a.timer /\ b.entry = a.entry
      /\ b.state = a.state
  BY <1>1, <1>2 DEF Execs!CaptureChunk, Execs!Set, Execs!TasksRun, ExecTypes, ExecFields
<1>5. /\ b.piped = a.piped - 1 /\ b.recorded = a.recorded + 1 /\ a.piped > 0
      /\ b.events = Append(a.events, "IoChunk") /\ b.channel \in {a.channel, Append(a.channel, "Data")}
      /\ a.pc \in {"waiting", "reaped"}
  BY <1>1, <1>2 DEF Execs!CaptureChunk, Execs!Set, Execs!TasksRun, ExecTypes, ExecFields
<1> HIDE DEF a, b
<1>6. Execs!Holders(b) => Execs!Holders(a) \/ a.pc = "allowed"
  BY <1>2, <1>4, <1>5 DEF Execs!Holders, Execs!Gone
<1>7. ExecTypes(b)
  BY <1>2, <1>4, <1>5 DEF ExecTypes, Unspawned, Early, ExecCounted, Ended
<1>8. ExecBytes(b)
  <2>1. a.written \in Nat /\ a.piped \in Nat /\ a.recorded \in Nat /\ a.written = a.piped + a.recorded
    BY <1>2 DEF ExecBytes
  <2>2. b.piped = a.piped - 1 /\ b.recorded = a.recorded + 1 /\ a.piped > 0
    BY <1>5
  <2>3. b.written = a.written
    BY <1>4
  <2> QED BY <2>1, <2>2, <2>3 DEF ExecBytes
<1>9. ExecLeader(b)
  BY <1>2, <1>4, <1>5 DEF ExecLeader, Unspawned, Early, ExecCounted, Ended, Execs!NoChild, Execs!Gone
<1>10. ExecEntry(b)
  BY <1>2, <1>4, <1>5 DEF ExecEntry, Unspawned, Early, ExecCounted, Ended
<1>11. ExecDrained(b)
  BY <1>2, <1>4, <1>5, <1>6 DEF ExecDrained, Unspawned, Early, ExecCounted, Ended, ExecBytes
<1>12. ExecLast(b)
  <2>1. a.pc \notin Ended /\ b.pc \notin Ended /\ "IoChunk" \in ExecEvents /\ "IoChunk" # "ProcessExited"
        /\ "Data" \in ExecFrames /\ "Data" # "End"
    BY <1>4, <1>5 DEF Ended, ExecEvents, ExecFrames
  <2>2. /\ a.events \in Seq(ExecEvents) /\ NotIn(a.events, "ProcessExited")
        /\ a.channel \in Seq(ExecFrames) /\ NotIn(a.channel, "End") /\ LastIn(a.channel, "End")
    BY <1>2, <2>1 DEF ExecLast
  <2>3. b.events \in Seq(ExecEvents) /\ NotIn(b.events, "ProcessExited") /\ LastIn(b.events, "ProcessExited")
    BY <1>5, <2>1, <2>2, ExecAppends
  <2>4. b.channel \in Seq(ExecFrames) /\ NotIn(b.channel, "End") /\ LastIn(b.channel, "End")
    <3>1. CASE b.channel = a.channel
      BY <2>2, <3>1
    <3>2. CASE b.channel = Append(a.channel, "Data")
      BY <2>1, <2>2, <3>2, ExecAppends
    <3> QED BY <1>5, <3>1, <3>2
  <2> QED BY <2>1, <2>3, <2>4 DEF ExecLast
<1>13. ExecMove(a, b)
  <2>1. ExecOk(b)
    BY <1>7, <1>8, <1>9, <1>10, <1>11, <1>12 DEF ExecOk
  <2> QED BY <2>1, <1>4, <1>5 DEF ExecMove, SeenSteps, Early, Execs!Gone
<1>14. b.pc \in ExecCounted <=> a.pc \in ExecCounted
  BY <1>4, <1>5 DEF ExecCounted
<1>15. w1' = w1
  BY DEF Execs!CaptureChunk
<1> QED BY <1>3, <1>13, <1>14, <1>15, ExecStays DEF a, b

(* CaptureEof keeps the invariant.                                         *)
LEMMA ExecCaptureEof ==
  ASSUME ExecInv, NEW p \in Procs, Execs!CaptureEof(p)
  PROVE  ExecInv'
<1> DEFINE a == w2[p]
           b == w2'[p]
<1>1. p \in DOMAIN w2 /\ ExecOk(a) /\ DaemonTypes
  BY DEF ExecInv, ExecsOk
<1>2. ExecTypes(a) /\ ExecBytes(a) /\ ExecLeader(a) /\ ExecEntry(a) /\ ExecDrained(a) /\ ExecLast(a)
  BY <1>1 DEF ExecOk
<1>3. Execs!Set(p, b)
  BY <1>1 DEF Execs!CaptureEof, Execs!Set, Execs!TasksRun
<1>4. /\ DOMAIN b = DOMAIN a /\ b.pc = a.pc /\ b.leader = a.leader /\ b.child = a.child
      /\ b.written = a.written /\ b.piped = a.piped /\ b.recorded = a.recorded
      /\ b.channel = a.channel /\ b.timer = a.timer /\ b.entry = a.entry /\ b.state = a.state
      /\ b.events = a.events
  BY <1>1, <1>2 DEF Execs!CaptureEof, Execs!Set, Execs!TasksRun, ExecTypes, ExecFields
<1>5. b.stream = "eof" /\ a.piped = 0 /\ ~Execs!Holders(a) /\ a.pc \in {"waiting", "reaped"}
  BY <1>1, <1>2 DEF Execs!CaptureEof, Execs!Set, Execs!TasksRun, ExecTypes, ExecFields
<1> HIDE DEF a, b
<1>6. Execs!Holders(b) => Execs!Holders(a) \/ a.pc = "allowed"
  BY <1>2, <1>4, <1>5 DEF Execs!Holders, Execs!Gone
<1>7. ExecTypes(b)
  BY <1>2, <1>4, <1>5 DEF ExecTypes, Unspawned, Early, ExecCounted, Ended
<1>8. ExecBytes(b)
  BY <1>2, <1>4, <1>5 DEF ExecBytes
<1>9. ExecLeader(b)
  BY <1>2, <1>4, <1>5 DEF ExecLeader, Unspawned, Early, ExecCounted, Ended, Execs!NoChild, Execs!Gone
<1>10. ExecEntry(b)
  BY <1>2, <1>4, <1>5 DEF ExecEntry, Unspawned, Early, ExecCounted, Ended
<1>11. ExecDrained(b)
  BY <1>2, <1>4, <1>5, <1>6 DEF ExecDrained, Unspawned, Early, ExecCounted, Ended
<1>12. ExecLast(b)
  BY <1>2, <1>4, <1>5 DEF ExecLast, Ended
<1>13. ExecMove(a, b)
  <2>1. ExecOk(b)
    BY <1>7, <1>8, <1>9, <1>10, <1>11, <1>12 DEF ExecOk
  <2> QED BY <2>1, <1>4, <1>5 DEF ExecMove, SeenSteps, Early, Execs!Gone
<1>14. b.pc \in ExecCounted <=> a.pc \in ExecCounted
  BY <1>4, <1>5 DEF ExecCounted
<1>15. w1' = w1
  BY DEF Execs!CaptureEof
<1> QED BY <1>3, <1>13, <1>14, <1>15, ExecStays DEF a, b

(* Reap keeps the invariant.                                               *)
LEMMA ExecReap ==
  ASSUME ExecInv, NEW p \in Procs, Execs!Reap(p)
  PROVE  ExecInv'
<1> DEFINE a == w2[p]
           b == w2'[p]
<1>1. p \in DOMAIN w2 /\ ExecOk(a) /\ DaemonTypes
  BY DEF ExecInv, ExecsOk
<1>2. ExecTypes(a) /\ ExecBytes(a) /\ ExecLeader(a) /\ ExecEntry(a) /\ ExecDrained(a) /\ ExecLast(a)
  BY <1>1 DEF ExecOk
<1>3. Execs!Set(p, b)
  BY <1>1 DEF Execs!Reap, Execs!Set
<1>4. /\ DOMAIN b = DOMAIN a /\ b.child = a.child /\ b.written = a.written /\ b.piped = a.piped
      /\ b.recorded = a.recorded /\ b.stream = a.stream /\ b.channel = a.channel
      /\ b.timer = a.timer /\ b.entry = a.entry /\ b.state = a.state /\ b.events = a.events
  BY <1>1, <1>2 DEF Execs!Reap, Execs!Set, ExecTypes, ExecFields
<1>5. b.pc = "reaped" /\ b.leader = Execs!Gone /\ a.pc = "waiting" /\ a.leader = "zombie"
  BY <1>1, <1>2 DEF Execs!Reap, Execs!Set, ExecTypes, ExecFields
<1> HIDE DEF a, b
<1>6. Execs!Holders(b) => Execs!Holders(a) \/ a.pc = "allowed"
  BY <1>2, <1>4, <1>5 DEF Execs!Holders, Execs!Gone
<1>7. ExecTypes(b)
  BY <1>2, <1>4, <1>5 DEF ExecTypes, Unspawned, Early, ExecCounted, Ended
<1>8. ExecBytes(b)
  BY <1>2, <1>4, <1>5 DEF ExecBytes
<1>9. ExecLeader(b)
  BY <1>2, <1>4, <1>5 DEF ExecLeader, Unspawned, Early, ExecCounted, Ended, Execs!NoChild, Execs!Gone
<1>10. ExecEntry(b)
  BY <1>2, <1>4, <1>5 DEF ExecEntry, Unspawned, Early, ExecCounted, Ended
<1>11. ExecDrained(b)
  BY <1>2, <1>4, <1>5, <1>6 DEF ExecDrained, Unspawned, Early, ExecCounted, Ended
<1>12. ExecLast(b)
  BY <1>2, <1>4, <1>5 DEF ExecLast, Ended
<1>13. ExecMove(a, b)
  <2>1. ExecOk(b)
    BY <1>7, <1>8, <1>9, <1>10, <1>11, <1>12 DEF ExecOk
  <2> QED BY <2>1, <1>4, <1>5 DEF ExecMove, SeenSteps, Early, Execs!Gone
<1>14. b.pc \in ExecCounted <=> a.pc \in ExecCounted
  BY <1>4, <1>5 DEF ExecCounted
<1>15. w1' = w1
  BY DEF Execs!Reap
<1> QED BY <1>3, <1>13, <1>14, <1>15, ExecStays DEF a, b

(* ReportExit keeps the invariant.                                         *)
LEMMA ExecReportExit ==
  ASSUME ExecInv, NEW p \in Procs, Execs!ReportExit(p)
  PROVE  ExecInv'
<1> DEFINE a == w2[p]
           b == w2'[p]
<1>1. p \in DOMAIN w2 /\ ExecOk(a) /\ DaemonTypes
  BY DEF ExecInv, ExecsOk
<1>2. ExecTypes(a) /\ ExecBytes(a) /\ ExecLeader(a) /\ ExecEntry(a) /\ ExecDrained(a) /\ ExecLast(a)
  BY <1>1 DEF ExecOk
<1>3. Execs!Set(p, b)
  BY <1>1 DEF Execs!ReportExit, Execs!Set, Execs!Report, Execs!OutcomeState
<1>4. /\ DOMAIN b = DOMAIN a /\ b.leader = a.leader /\ b.child = a.child /\ b.written = a.written
      /\ b.piped = a.piped /\ b.recorded = a.recorded /\ b.stream = a.stream /\ b.timer = a.timer
      /\ b.entry = a.entry
  BY <1>1, <1>2 DEF Execs!ReportExit, Execs!Set, Execs!Report, Execs!OutcomeState, ExecTypes, ExecFields
<1>5. /\ b.pc = "reported" /\ b.state \in {"Exited", "Signaled"} /\ a.pc = "reaped" /\ a.stream = "eof"
      /\ b.events = Append(a.events, "ProcessExited")
      /\ b.channel \in {a.channel, Append(a.channel, "End")}
  BY <1>1, <1>2 DEF Execs!ReportExit, Execs!Set, Execs!Report, Execs!OutcomeState, ExecTypes, ExecFields
<1> HIDE DEF a, b
<1>6. Execs!Holders(b) => Execs!Holders(a) \/ a.pc = "allowed"
  BY <1>2, <1>4, <1>5 DEF Execs!Holders, Execs!Gone
<1>7. ExecTypes(b)
  BY <1>2, <1>4, <1>5 DEF ExecTypes, Unspawned, Early, ExecCounted, Ended
<1>8. ExecBytes(b)
  BY <1>2, <1>4, <1>5 DEF ExecBytes
<1>9. ExecLeader(b)
  BY <1>2, <1>4, <1>5 DEF ExecLeader, Unspawned, Early, ExecCounted, Ended, Execs!NoChild, Execs!Gone
<1>10. ExecEntry(b)
  BY <1>2, <1>4, <1>5 DEF ExecEntry, Unspawned, Early, ExecCounted, Ended
<1>11. ExecDrained(b)
  BY <1>2, <1>4, <1>5, <1>6 DEF ExecDrained, Unspawned, Early, ExecCounted, Ended
<1>12. ExecLast(b)
  <2>1. a.pc \notin Ended /\ b.pc \in Ended /\ "ProcessExited" \in ExecEvents /\ "End" \in ExecFrames
    BY <1>5 DEF Ended, ExecEvents, ExecFrames
  <2>2. /\ a.events \in Seq(ExecEvents) /\ NotIn(a.events, "ProcessExited")
        /\ a.channel \in Seq(ExecFrames) /\ NotIn(a.channel, "End") /\ LastIn(a.channel, "End")
    BY <1>2, <2>1 DEF ExecLast
  <2>3. /\ b.events \in Seq(ExecEvents) /\ LastIn(b.events, "ProcessExited")
        /\ b.events[Len(b.events)] = "ProcessExited"
    BY <1>5, <2>1, <2>2, ExecAppends
  <2>4. b.channel \in Seq(ExecFrames) /\ LastIn(b.channel, "End")
    <3>1. CASE b.channel = a.channel
      BY <2>2, <3>1
    <3>2. CASE b.channel = Append(a.channel, "End")
      BY <2>1, <2>2, <3>2, ExecAppends
    <3> QED BY <1>5, <3>1, <3>2
  <2> QED BY <2>1, <2>3, <2>4 DEF ExecLast
<1>13. ExecMove(a, b)
  <2>1. ExecOk(b)
    BY <1>7, <1>8, <1>9, <1>10, <1>11, <1>12 DEF ExecOk
  <2> QED BY <2>1, <1>4, <1>5 DEF ExecMove, SeenSteps, Early, Execs!Gone
<1>14. b.pc \in ExecCounted <=> a.pc \in ExecCounted
  BY <1>4, <1>5 DEF ExecCounted
<1>15. w1' = w1
  BY DEF Execs!ReportExit
<1> QED BY <1>3, <1>13, <1>14, <1>15, ExecStays DEF a, b

(* Unregister keeps the invariant.                                         *)
LEMMA ExecUnregister ==
  ASSUME ExecInv, NEW p \in Procs, Execs!Unregister(p)
  PROVE  ExecInv'
<1> DEFINE a == w2[p]
           b == w2'[p]
<1>1. p \in DOMAIN w2 /\ ExecOk(a) /\ DaemonTypes
  BY DEF ExecInv, ExecsOk
<1>2. ExecTypes(a) /\ ExecBytes(a) /\ ExecLeader(a) /\ ExecEntry(a) /\ ExecDrained(a) /\ ExecLast(a)
  BY <1>1 DEF ExecOk
<1>3. Execs!Set(p, b)
  BY <1>1 DEF Execs!Unregister, Execs!Set
<1>4. /\ DOMAIN b = DOMAIN a /\ b.pc = a.pc /\ b.leader = a.leader /\ b.child = a.child
      /\ b.written = a.written /\ b.piped = a.piped /\ b.recorded = a.recorded
      /\ b.stream = a.stream /\ b.channel = a.channel /\ b.timer = a.timer /\ b.state = a.state
      /\ b.events = a.events
  BY <1>1, <1>2 DEF Execs!Unregister, Execs!Set, ExecTypes, ExecFields
<1>5. ~b.entry /\ a.pc = "reported"
  BY <1>1, <1>2 DEF Execs!Unregister, Execs!Set, ExecTypes, ExecFields
<1> HIDE DEF a, b
<1>6. Execs!Holders(b) => Execs!Holders(a) \/ a.pc = "allowed"
  BY <1>2, <1>4, <1>5 DEF Execs!Holders, Execs!Gone
<1>7. ExecTypes(b)
  BY <1>2, <1>4, <1>5 DEF ExecTypes, Unspawned, Early, ExecCounted, Ended
<1>8. ExecBytes(b)
  BY <1>2, <1>4, <1>5 DEF ExecBytes
<1>9. ExecLeader(b)
  BY <1>2, <1>4, <1>5 DEF ExecLeader, Unspawned, Early, ExecCounted, Ended, Execs!NoChild, Execs!Gone
<1>10. ExecEntry(b)
  BY <1>2, <1>4, <1>5 DEF ExecEntry, Unspawned, Early, ExecCounted, Ended, ExecTypes
<1>11. ExecDrained(b)
  BY <1>2, <1>4, <1>5, <1>6 DEF ExecDrained, Unspawned, Early, ExecCounted, Ended
<1>12. ExecLast(b)
  BY <1>2, <1>4, <1>5 DEF ExecLast, Ended
<1>13. ExecMove(a, b)
  <2>1. ExecOk(b)
    BY <1>7, <1>8, <1>9, <1>10, <1>11, <1>12 DEF ExecOk
  <2> QED BY <2>1, <1>4, <1>5 DEF ExecMove, SeenSteps, Early, Execs!Gone
<1>14. b.pc \in ExecCounted <=> a.pc \in ExecCounted
  BY <1>4, <1>5 DEF ExecCounted
<1>15. w1' = w1
  BY DEF Execs!Unregister
<1> QED BY <1>3, <1>13, <1>14, <1>15, ExecStays DEF a, b

(* Uncount keeps the invariant.                                            *)
LEMMA ExecUncount ==
  ASSUME ExecInv, NEW p \in Procs, Execs!Uncount(p)
  PROVE  ExecInv'
<1> DEFINE a == w2[p]
           b == w2'[p]
<1>1. p \in DOMAIN w2 /\ ExecOk(a) /\ DaemonTypes
  BY DEF ExecInv, ExecsOk
<1>2. ExecTypes(a) /\ ExecBytes(a) /\ ExecLeader(a) /\ ExecEntry(a) /\ ExecDrained(a) /\ ExecLast(a)
  BY <1>1 DEF ExecOk
<1>3. Execs!Set(p, b)
  BY <1>1 DEF Execs!Uncount, Execs!Set
<1>4. /\ DOMAIN b = DOMAIN a /\ b.leader = a.leader /\ b.child = a.child /\ b.written = a.written
      /\ b.piped = a.piped /\ b.recorded = a.recorded /\ b.stream = a.stream
      /\ b.channel = a.channel /\ b.timer = a.timer /\ b.entry = a.entry /\ b.state = a.state
      /\ b.events = a.events
  BY <1>1, <1>2 DEF Execs!Uncount, Execs!Set, ExecTypes, ExecFields
<1>5. b.pc = "done" /\ a.pc = "reported" /\ ~a.entry
  BY <1>1, <1>2 DEF Execs!Uncount, Execs!Set, ExecTypes, ExecFields
<1> HIDE DEF a, b
<1>6. Execs!Holders(b) => Execs!Holders(a) \/ a.pc = "allowed"
  BY <1>2, <1>4, <1>5 DEF Execs!Holders, Execs!Gone
<1>7. ExecTypes(b)
  BY <1>2, <1>4, <1>5 DEF ExecTypes, Unspawned, Early, ExecCounted, Ended
<1>8. ExecBytes(b)
  BY <1>2, <1>4, <1>5 DEF ExecBytes
<1>9. ExecLeader(b)
  BY <1>2, <1>4, <1>5 DEF ExecLeader, Unspawned, Early, ExecCounted, Ended, Execs!NoChild, Execs!Gone
<1>10. ExecEntry(b)
  BY <1>2, <1>4, <1>5 DEF ExecEntry, Unspawned, Early, ExecCounted, Ended, ExecTypes
<1>11. ExecDrained(b)
  BY <1>2, <1>4, <1>5, <1>6 DEF ExecDrained, Unspawned, Early, ExecCounted, Ended
<1>12. ExecLast(b)
  BY <1>2, <1>4, <1>5 DEF ExecLast, Ended
<1>13. ExecMove(a, b)
  <2>1. ExecOk(b)
    BY <1>7, <1>8, <1>9, <1>10, <1>11, <1>12 DEF ExecOk
  <2> QED BY <2>1, <1>4, <1>5 DEF ExecMove, SeenSteps, Early, Execs!Gone
<1> DEFINE C == {q \in Procs : w2[q].pc \in ExecCounted}
<1>14. w1'.count = w1.count - 1 /\ w1'.stage = w1.stage /\ w1'.seen = w1.seen /\ DaemonTypes'
  BY <1>1 DEF Execs!Uncount, DaemonTypes
<1>15. /\ a.pc \in ExecCounted /\ b.pc \notin ExecCounted
  BY <1>5 DEF ExecCounted
<1>16. {q \in Procs : w2'[q].pc \in ExecCounted} = C \ {p}
  BY <1>1, <1>3, <1>15 DEF Execs!Set, a, b, ExecInv, ExecsOk
<1>17. IsFiniteSet(C) /\ p \in C
  BY <1>15, ExecFinite, FS_Subset DEF a
<1>18. Cardinality(C \ {p}) = Cardinality(C) - 1
  BY <1>17, FS_RemoveElement
<1>19. CountIs'
  BY <1>14, <1>16, <1>18 DEF CountIs, ExecInv
<1> QED BY <1>3, <1>13, <1>14, <1>19, ExecSets DEF a, b

(* WriteStdin keeps the invariant.                                         *)
LEMMA ExecWriteStdin ==
  ASSUME ExecInv, NEW p \in Procs, Execs!WriteStdin(p)
  PROVE  ExecInv'
<1> DEFINE a == w2[p]
           b == w2'[p]
<1>1. p \in DOMAIN w2 /\ ExecOk(a) /\ DaemonTypes
  BY DEF ExecInv, ExecsOk
<1>2. ExecTypes(a) /\ ExecBytes(a) /\ ExecLeader(a) /\ ExecEntry(a) /\ ExecDrained(a) /\ ExecLast(a)
  BY <1>1 DEF ExecOk
<1>3. Execs!Set(p, b)
  BY <1>1 DEF Execs!WriteStdin, Execs!Set
<1>4. /\ DOMAIN b = DOMAIN a /\ b.pc = a.pc /\ b.leader = a.leader /\ b.child = a.child
      /\ b.written = a.written /\ b.piped = a.piped /\ b.recorded = a.recorded
      /\ b.stream = a.stream /\ b.channel = a.channel /\ b.timer = a.timer /\ b.entry = a.entry
      /\ b.state = a.state /\ b.events = a.events
  BY <1>1, <1>2 DEF Execs!WriteStdin, Execs!Set, ExecTypes, ExecFields
<1>5. TRUE
  BY <1>1, <1>2 DEF Execs!WriteStdin, Execs!Set, ExecTypes, ExecFields
<1> HIDE DEF a, b
<1>6. Execs!Holders(b) => Execs!Holders(a) \/ a.pc = "allowed"
  BY <1>2, <1>4, <1>5 DEF Execs!Holders, Execs!Gone
<1>7. ExecTypes(b)
  BY <1>2, <1>4, <1>5 DEF ExecTypes, Unspawned, Early, ExecCounted, Ended
<1>8. ExecBytes(b)
  BY <1>2, <1>4, <1>5 DEF ExecBytes
<1>9. ExecLeader(b)
  BY <1>2, <1>4, <1>5 DEF ExecLeader, Unspawned, Early, ExecCounted, Ended, Execs!NoChild, Execs!Gone
<1>10. ExecEntry(b)
  BY <1>2, <1>4, <1>5 DEF ExecEntry, Unspawned, Early, ExecCounted, Ended
<1>11. ExecDrained(b)
  BY <1>2, <1>4, <1>5, <1>6 DEF ExecDrained, Unspawned, Early, ExecCounted, Ended
<1>12. ExecLast(b)
  BY <1>2, <1>4, <1>5 DEF ExecLast, Ended
<1>13. ExecMove(a, b)
  <2>1. ExecOk(b)
    BY <1>7, <1>8, <1>9, <1>10, <1>11, <1>12 DEF ExecOk
  <2> QED BY <2>1, <1>4, <1>5 DEF ExecMove, SeenSteps, Early, Execs!Gone
<1>14. b.pc \in ExecCounted <=> a.pc \in ExecCounted
  BY <1>4, <1>5 DEF ExecCounted
<1>15. w1' = w1
  BY DEF Execs!WriteStdin
<1> QED BY <1>3, <1>13, <1>14, <1>15, ExecStays DEF a, b

(* StdinWritten keeps the invariant.                                       *)
LEMMA ExecStdinWritten ==
  ASSUME ExecInv, NEW p \in Procs, Execs!StdinWritten(p)
  PROVE  ExecInv'
<1> DEFINE a == w2[p]
           b == w2'[p]
<1>1. p \in DOMAIN w2 /\ ExecOk(a) /\ DaemonTypes
  BY DEF ExecInv, ExecsOk
<1>2. ExecTypes(a) /\ ExecBytes(a) /\ ExecLeader(a) /\ ExecEntry(a) /\ ExecDrained(a) /\ ExecLast(a)
  BY <1>1 DEF ExecOk
<1>3. Execs!Set(p, b)
  BY <1>1 DEF Execs!StdinWritten, Execs!Set
<1>4. /\ DOMAIN b = DOMAIN a /\ b.pc = a.pc /\ b.leader = a.leader /\ b.child = a.child
      /\ b.written = a.written /\ b.piped = a.piped /\ b.recorded = a.recorded
      /\ b.stream = a.stream /\ b.channel = a.channel /\ b.timer = a.timer /\ b.entry = a.entry
      /\ b.state = a.state /\ b.events = a.events
  BY <1>1, <1>2 DEF Execs!StdinWritten, Execs!Set, ExecTypes, ExecFields
<1>5. TRUE
  BY <1>1, <1>2 DEF Execs!StdinWritten, Execs!Set, ExecTypes, ExecFields
<1> HIDE DEF a, b
<1>6. Execs!Holders(b) => Execs!Holders(a) \/ a.pc = "allowed"
  BY <1>2, <1>4, <1>5 DEF Execs!Holders, Execs!Gone
<1>7. ExecTypes(b)
  BY <1>2, <1>4, <1>5 DEF ExecTypes, Unspawned, Early, ExecCounted, Ended
<1>8. ExecBytes(b)
  BY <1>2, <1>4, <1>5 DEF ExecBytes
<1>9. ExecLeader(b)
  BY <1>2, <1>4, <1>5 DEF ExecLeader, Unspawned, Early, ExecCounted, Ended, Execs!NoChild, Execs!Gone
<1>10. ExecEntry(b)
  BY <1>2, <1>4, <1>5 DEF ExecEntry, Unspawned, Early, ExecCounted, Ended
<1>11. ExecDrained(b)
  BY <1>2, <1>4, <1>5, <1>6 DEF ExecDrained, Unspawned, Early, ExecCounted, Ended
<1>12. ExecLast(b)
  BY <1>2, <1>4, <1>5 DEF ExecLast, Ended
<1>13. ExecMove(a, b)
  <2>1. ExecOk(b)
    BY <1>7, <1>8, <1>9, <1>10, <1>11, <1>12 DEF ExecOk
  <2> QED BY <2>1, <1>4, <1>5 DEF ExecMove, SeenSteps, Early, Execs!Gone
<1>14. b.pc \in ExecCounted <=> a.pc \in ExecCounted
  BY <1>4, <1>5 DEF ExecCounted
<1>15. w1' = w1
  BY DEF Execs!StdinWritten
<1> QED BY <1>3, <1>13, <1>14, <1>15, ExecStays DEF a, b

(* CloseStdin keeps the invariant.                                         *)
LEMMA ExecCloseStdin ==
  ASSUME ExecInv, NEW p \in Procs, Execs!CloseStdin(p)
  PROVE  ExecInv'
<1> DEFINE a == w2[p]
           b == w2'[p]
<1>1. p \in DOMAIN w2 /\ ExecOk(a) /\ DaemonTypes
  BY DEF ExecInv, ExecsOk
<1>2. ExecTypes(a) /\ ExecBytes(a) /\ ExecLeader(a) /\ ExecEntry(a) /\ ExecDrained(a) /\ ExecLast(a)
  BY <1>1 DEF ExecOk
<1>3. Execs!Set(p, b)
  BY <1>1 DEF Execs!CloseStdin, Execs!Set
<1>4. /\ DOMAIN b = DOMAIN a /\ b.pc = a.pc /\ b.leader = a.leader /\ b.child = a.child
      /\ b.written = a.written /\ b.piped = a.piped /\ b.recorded = a.recorded
      /\ b.stream = a.stream /\ b.channel = a.channel /\ b.timer = a.timer /\ b.entry = a.entry
      /\ b.state = a.state /\ b.events = a.events
  BY <1>1, <1>2 DEF Execs!CloseStdin, Execs!Set, ExecTypes, ExecFields
<1>5. TRUE
  BY <1>1, <1>2 DEF Execs!CloseStdin, Execs!Set, ExecTypes, ExecFields
<1> HIDE DEF a, b
<1>6. Execs!Holders(b) => Execs!Holders(a) \/ a.pc = "allowed"
  BY <1>2, <1>4, <1>5 DEF Execs!Holders, Execs!Gone
<1>7. ExecTypes(b)
  BY <1>2, <1>4, <1>5 DEF ExecTypes, Unspawned, Early, ExecCounted, Ended
<1>8. ExecBytes(b)
  BY <1>2, <1>4, <1>5 DEF ExecBytes
<1>9. ExecLeader(b)
  BY <1>2, <1>4, <1>5 DEF ExecLeader, Unspawned, Early, ExecCounted, Ended, Execs!NoChild, Execs!Gone
<1>10. ExecEntry(b)
  BY <1>2, <1>4, <1>5 DEF ExecEntry, Unspawned, Early, ExecCounted, Ended
<1>11. ExecDrained(b)
  BY <1>2, <1>4, <1>5, <1>6 DEF ExecDrained, Unspawned, Early, ExecCounted, Ended
<1>12. ExecLast(b)
  BY <1>2, <1>4, <1>5 DEF ExecLast, Ended
<1>13. ExecMove(a, b)
  <2>1. ExecOk(b)
    BY <1>7, <1>8, <1>9, <1>10, <1>11, <1>12 DEF ExecOk
  <2> QED BY <2>1, <1>4, <1>5 DEF ExecMove, SeenSteps, Early, Execs!Gone
<1>14. b.pc \in ExecCounted <=> a.pc \in ExecCounted
  BY <1>4, <1>5 DEF ExecCounted
<1>15. w1' = w1
  BY DEF Execs!CloseStdin
<1> QED BY <1>3, <1>13, <1>14, <1>15, ExecStays DEF a, b

(* TimeoutTerm keeps the invariant.                                        *)
LEMMA ExecTimeoutTerm ==
  ASSUME ExecInv, NEW p \in Procs, Execs!TimeoutTerm(p)
  PROVE  ExecInv'
<1> DEFINE a == [w2[p] EXCEPT !.timer = "termed"]
<1>1. ExecOk(w2[p])
  BY DEF ExecInv, ExecsOk
<1>2. ExecOk(a) /\ a.pc = w2[p].pc /\ a.leader = w2[p].leader /\ a.child = w2[p].child
  BY <1>1, ExecOther
<1>3. PICK b : Execs!Set(p, b) /\ b \in Execs!Signalled(a)
  BY DEF Execs!TimeoutTerm
<1> HIDE DEF a
<1>4. SignalMove(a, b)
  BY <1>2, <1>3, ExecSignalled
<1>5. ExecMove(w2[p], b) /\ b.pc = w2[p].pc
  BY <1>2, <1>4 DEF SignalMove, ExecMove
<1>6. w1' = w1
  BY DEF Execs!TimeoutTerm
<1> QED BY <1>3, <1>5, <1>6, ExecStays

(* TimeoutKill keeps the invariant.                                        *)
LEMMA ExecTimeoutKill ==
  ASSUME ExecInv, NEW p \in Procs, Execs!TimeoutKill(p)
  PROVE  ExecInv'
<1> DEFINE a == [w2[p] EXCEPT !.timer = "killed"]
<1>1. ExecOk(w2[p])
  BY DEF ExecInv, ExecsOk
<1>2. ExecOk(a) /\ a.pc = w2[p].pc /\ a.leader = w2[p].leader /\ a.child = w2[p].child
  BY <1>1, ExecOther
<1>3. PICK b : Execs!Set(p, b) /\ b = Execs!Killed(a)
  BY DEF Execs!TimeoutKill
<1> HIDE DEF a
<1>4. SignalMove(a, b)
  BY <1>2, <1>3, ExecKilled
<1>5. ExecMove(w2[p], b) /\ b.pc = w2[p].pc
  BY <1>2, <1>4 DEF SignalMove, ExecMove
<1>6. w1' = w1
  BY DEF Execs!TimeoutKill
<1> QED BY <1>3, <1>5, <1>6, ExecStays

(* ConnectionCloses keeps the invariant.                                   *)
LEMMA ExecConnectionCloses ==
  ASSUME ExecInv, NEW p \in Procs, Execs!ConnectionCloses(p)
  PROVE  ExecInv'
<1> DEFINE a == [w2[p] EXCEPT !.listening = FALSE]
<1>1. ExecOk(w2[p])
  BY DEF ExecInv, ExecsOk
<1>2. ExecOk(a) /\ a.pc = w2[p].pc /\ a.leader = w2[p].leader /\ a.child = w2[p].child
  BY <1>1, ExecOther
<1>3. PICK b : Execs!Set(p, b) /\ b \in {a, Execs!Killed(a)}
  BY DEF Execs!ConnectionCloses
<1> HIDE DEF a
<1>4. SignalMove(a, b)
  BY <1>2, <1>3, ExecKilled DEF SignalMove, ExecMove
<1>5. ExecMove(w2[p], b) /\ b.pc = w2[p].pc
  BY <1>2, <1>4 DEF SignalMove, ExecMove
<1>6. w1' = w1
  BY DEF Execs!ConnectionCloses
<1> QED BY <1>3, <1>5, <1>6, ExecStays

(* SignalProcess keeps the invariant.                                      *)
LEMMA ExecSignalProcess ==
  ASSUME ExecInv, NEW p \in Procs, Execs!SignalProcess(p)
  PROVE  ExecInv'
<1> DEFINE a == w2[p]
<1>1. ExecOk(w2[p])
  BY DEF ExecInv, ExecsOk
<1>2. ExecOk(a) /\ a.pc = w2[p].pc /\ a.leader = w2[p].leader /\ a.child = w2[p].child
  BY <1>1
<1>3. PICK b : Execs!Set(p, b) /\ b \in Execs!Signalled(a)
  BY DEF Execs!SignalProcess
<1> HIDE DEF a
<1>4. SignalMove(a, b)
  BY <1>2, <1>3, ExecSignalled
<1>5. ExecMove(w2[p], b) /\ b.pc = w2[p].pc
  BY <1>2, <1>4 DEF SignalMove, ExecMove
<1>6. w1' = w1
  BY DEF Execs!SignalProcess
<1> QED BY <1>3, <1>5, <1>6, ExecStays

(* KillProcess keeps the invariant.                                        *)
LEMMA ExecKillProcess ==
  ASSUME ExecInv, NEW p \in Procs, Execs!KillProcess(p)
  PROVE  ExecInv'
<1> DEFINE a == w2[p]
<1>1. ExecOk(w2[p])
  BY DEF ExecInv, ExecsOk
<1>2. ExecOk(a) /\ a.pc = w2[p].pc /\ a.leader = w2[p].leader /\ a.child = w2[p].child
  BY <1>1
<1>3. PICK b : Execs!Set(p, b) /\ b = Execs!Killed(a)
  BY DEF Execs!KillProcess
<1> HIDE DEF a
<1>4. SignalMove(a, b)
  BY <1>2, <1>3, ExecKilled
<1>5. ExecMove(w2[p], b) /\ b.pc = w2[p].pc
  BY <1>2, <1>4 DEF SignalMove, ExecMove
<1>6. w1' = w1
  BY DEF Execs!KillProcess
<1> QED BY <1>3, <1>5, <1>6, ExecStays

(* A step that signals any of the execs, and marks them or not.            *)
LEMMA ExecAll ==
  ASSUME ExecInv, Procs \subseteq DOMAIN w2',
         \A p \in Procs : ExecMove(w2[p], w2'[p]) /\ w2'[p].pc = w2[p].pc,
         w1'.count = w1.count
  PROVE  ExecsOk' /\ CountIs'
<1>1. ExecsOk'
  BY DEF ExecsOk, ExecMove
<1>2. {p \in Procs : w2'[p].pc \in ExecCounted} = {p \in Procs : w2[p].pc \in ExecCounted}
  OBVIOUS
<1> QED BY <1>1, <1>2 DEF CountIs, ExecInv

(* ExecutionStop keeps the invariant.                                      *)
LEMMA ExecExecutionStop ==
  ASSUME ExecInv, Execs!ExecutionStop
  PROVE  ExecInv'
<1>0. DaemonTypes /\ ExecsOk /\ CountIs /\ SeenIs /\ ExitedIs
  BY DEF ExecInv
<1>1. DOMAIN w2' = Procs
  BY DEF Execs!ExecutionStop
<1>2. \A p \in Procs : w2'[p] = w2[p] \/ w2'[p] \in Execs!Signalled(w2[p])
  BY DEF Execs!ExecutionStop
<1>3. \A p \in Procs : SignalMove(w2[p], w2'[p])
  BY <1>0, <1>2, ExecSignalled DEF ExecsOk, SignalMove, ExecMove
<1>4. \A p \in Procs : ExecMove(w2[p], w2'[p]) /\ w2'[p].pc = w2[p].pc
  BY <1>3 DEF SignalMove
<1>5. w1'.count = w1.count /\ w1'.stage = w1.stage /\ w1'.seen = w1.seen /\ DaemonTypes'
  BY <1>0 DEF Execs!ExecutionStop, DaemonTypes
<1>6. ExecsOk' /\ CountIs'
  BY <1>1, <1>4, <1>5, ExecAll
<1>7. SeenIs'
  BY <1>0, <1>4, <1>5 DEF SeenIs, ExecMove, SeenSteps
<1>8. ExitedIs'
  BY <1>0, <1>4, <1>5 DEF ExitedIs, ExecMove, Early
<1> QED BY <1>5, <1>6, <1>7, <1>8 DEF ExecInv

(* SignalAll keeps the invariant.                                          *)
LEMMA ExecSignalAll ==
  ASSUME ExecInv, Execs!SignalAll
  PROVE  ExecInv'
<1>0. DaemonTypes /\ ExecsOk /\ CountIs /\ SeenIs /\ ExitedIs
  BY DEF ExecInv
<1>1. PICK hit \in [Execs!RunningEntries -> UNION {Execs!Signalled(w2[p]) : p \in Execs!RunningEntries}] :
        /\ \A p \in Execs!RunningEntries :
              hit[p] \in IF w1.hard THEN {Execs!Killed(w2[p])} ELSE Execs!Signalled(w2[p])
        /\ w2' = [p \in Procs |-> IF p \in Execs!RunningEntries
                                     THEN [hit[p] EXCEPT !.state = "Terminating"] ELSE w2[p]]
  BY DEF Execs!SignalAll
<1>2. ASSUME NEW p \in Execs!RunningEntries
      PROVE  /\ p \in Procs /\ ExecMove(w2[p], w2'[p])
             /\ w2'[p].pc = w2[p].pc /\ w2[p].pc \in SeenSteps
  <2>1. p \in Procs /\ w2[p].entry /\ w2[p].state \in {"Starting", "Running", "Terminating"}
    BY DEF Execs!RunningEntries, Execs!Registered, Execs!IsLive
  <2>2. ExecOk(w2[p])
    BY <1>0, <2>1 DEF ExecsOk
  <2>3. SignalMove(w2[p], hit[p]) /\ DOMAIN hit[p] = DOMAIN w2[p]
    BY <1>1, <2>2, ExecSignalled, ExecKilled
  <2> DEFINE a == hit[p]
             b == [a EXCEPT !.state = "Terminating"]
  <2>4. ExecOk(a) /\ a.pc \in {"registered", "waiting", "reaped"} /\ a.entry
    <3>1. w2[p].pc \in {"registered", "waiting", "reaped", "reported"} /\ w2[p].pc \notin Ended
      BY <2>1, <2>2 DEF ExecOk, ExecEntry
    <3> QED BY <2>1, <2>3, <3>1 DEF SignalMove, ExecMove, Ended
  <2>5. /\ DOMAIN b = DOMAIN a /\ b.pc = a.pc /\ b.leader = a.leader /\ b.child = a.child
        /\ b.entry = a.entry
        /\ b.written = a.written /\ b.piped = a.piped /\ b.recorded = a.recorded /\ b.stream = a.stream
        /\ b.channel = a.channel /\ b.events = a.events /\ b.timer = a.timer /\ b.state = "Terminating"
    BY <2>4 DEF ExecOk, ExecTypes, ExecFields
  <2>6. w2'[p] = b
    BY <1>1, <2>1
  <2> HIDE DEF a, b
  <2>7. ExecOk(b)
    <3>1. ExecTypes(b)
      BY <2>4, <2>5 DEF ExecOk, ExecTypes
    <3>2. ExecBytes(b) /\ ExecLeader(b) /\ ExecLast(b)
      BY <2>4, <2>5 DEF ExecOk, ExecBytes, ExecLeader, ExecLast
    <3>3. ExecEntry(b)
      BY <2>4, <2>5 DEF ExecEntry, Ended
    <3>4. ExecDrained(b)
      BY <2>4, <2>5 DEF ExecOk, ExecDrained, Execs!Holders
    <3> QED BY <3>1, <3>2, <3>3, <3>4 DEF ExecOk
  <2>8. ExecMove(w2[p], b) /\ b.pc = w2[p].pc
    BY <2>3, <2>5, <2>7 DEF SignalMove, ExecMove, a
  <2>9. w2[p].pc \in SeenSteps
    BY <2>4, <2>5, <2>8 DEF SeenSteps
  <2> QED BY <2>1, <2>6, <2>8, <2>9
<1>3. \A p \in Procs : ExecMove(w2[p], w2'[p]) /\ w2'[p].pc = w2[p].pc
  <2> SUFFICES ASSUME NEW p \in Procs PROVE ExecMove(w2[p], w2'[p]) /\ w2'[p].pc = w2[p].pc
    OBVIOUS
  <2>1. CASE p \in Execs!RunningEntries
    BY <1>2, <2>1
  <2>2. CASE p \notin Execs!RunningEntries
    BY <1>0, <1>1, <2>2 DEF ExecsOk, ExecMove
  <2> QED BY <2>1, <2>2
<1>4. w1'.count = w1.count /\ w1'.seen = Execs!RunningEntries /\ DaemonTypes'
      /\ w1'.stage = (IF Execs!RunningEntries = {} THEN "terminated" ELSE "grace")
  BY <1>0 DEF Execs!SignalAll, DaemonTypes
<1>5. ExecsOk' /\ CountIs'
  BY <1>1, <1>3, <1>4, ExecAll
<1>6. SeenIs' /\ ExitedIs'
  BY <1>2, <1>3, <1>4 DEF SeenIs, ExitedIs, ExecMove
<1> QED BY <1>4, <1>5, <1>6 DEF ExecInv

(* KillAll keeps the invariant.                                            *)
LEMMA ExecKillAll ==
  ASSUME ExecInv, Execs!KillAll
  PROVE  ExecInv'
<1>0. DaemonTypes /\ ExecsOk /\ CountIs /\ SeenIs /\ ExitedIs
  BY DEF ExecInv
<1>1. w2' = [p \in Procs |-> IF p \in Execs!RunningEntries THEN Execs!Killed(w2[p]) ELSE w2[p]]
  BY DEF Execs!KillAll
<1>2. \A p \in Procs : ExecMove(w2[p], w2'[p]) /\ w2'[p].pc = w2[p].pc
  BY <1>0, <1>1, ExecKilled DEF ExecsOk, ExecMove, SignalMove
<1>3. w1'.count = w1.count /\ w1'.seen = w1.seen /\ DaemonTypes' /\ w1'.stage = "killed"
  BY <1>0 DEF Execs!KillAll, DaemonTypes
<1>4. ExecsOk' /\ CountIs'
  BY <1>1, <1>2, <1>3, ExecAll
<1>5. ASSUME NEW p \in w1.seen PROVE w2'[p].leader # "alive" /\ w2'[p].child # "held"
  <2>1. p \in Procs /\ w2[p].pc \in SeenSteps /\ ExecOk(w2[p])
    BY <1>0 DEF SeenIs, ExecsOk
  <2>2. CASE p \in Execs!RunningEntries
    BY <1>1, <2>1, <2>2, ExecKilled
  <2>3. CASE p \notin Execs!RunningEntries
    <3>1. w2[p].pc \in Ended
      BY <2>1, <2>3 DEF Execs!RunningEntries, Execs!Registered, Execs!IsLive, ExecOk, ExecEntry,
           SeenSteps, Ended
    <3>2. ~Execs!Holders(w2[p])
      BY <2>1, <3>1 DEF ExecOk, ExecDrained
    <3> QED BY <1>1, <2>1, <2>3, <3>2 DEF Execs!Holders
  <2> QED BY <2>2, <2>3
<1>6. SeenIs' /\ ExitedIs'
  BY <1>0, <1>2, <1>3, <1>5 DEF SeenIs, ExitedIs, ExecMove
<1> QED BY <1>3, <1>4, <1>6 DEF ExecInv

(* Exit keeps the invariant.                                               *)
LEMMA ExecExit ==
  ASSUME ExecInv, Execs!Exit
  PROVE  ExecInv'
<1>0. DaemonTypes /\ ExecsOk /\ CountIs /\ SeenIs /\ ExitedIs
  BY DEF ExecInv
<1>1. w2' = [p \in Procs |-> IF w2[p].pc = "waiting"
                                THEN [Execs!Killed(w2[p]) EXCEPT !.child = w2[p].child] ELSE w2[p]]
  BY DEF Execs!Exit
<1>2. ASSUME NEW p \in Procs
      PROVE  ExecMove(w2[p], w2'[p]) /\ w2'[p].pc = w2[p].pc /\ w2'[p].leader # "alive"
  <2>1. ExecOk(w2[p]) /\ w2[p].pc \notin Early
    BY <1>0 DEF ExecsOk, Execs!Exit, Early
  <2>2. CASE w2[p].pc = "waiting"
    <3>1. w2'[p] \in Execs!Signalled(w2[p])
      BY <1>1, <2>2 DEF Execs!Signalled
    <3>2. SignalMove(w2[p], w2'[p])
      BY <2>1, <3>1, ExecSignalled
    <3>3. w2'[p] = [Execs!Killed(w2[p]) EXCEPT !.child = w2[p].child]
      BY <1>1, <2>2
    <3>4. w2'[p].leader = Execs!Killed(w2[p]).leader
      BY <3>3
    <3>5. w2'[p].leader # "alive"
      BY <2>1, <3>4, ExecKilled
    <3> QED BY <3>2, <3>5 DEF SignalMove
  <2>3. CASE w2[p].pc # "waiting"
    <3>1. w2'[p] = w2[p]
      BY <1>1, <2>3
    <3>2. w2[p].leader \in {Execs!NoChild, Execs!Gone}
      BY <2>1, <2>3 DEF ExecOk, ExecTypes, ExecLeader, Unspawned, Early, ExecCounted, Ended
    <3> QED BY <2>1, <3>1, <3>2 DEF ExecMove, Execs!NoChild, Execs!Gone
  <2> QED BY <2>2, <2>3
<1>3. w1'.count = w1.count /\ w1'.seen = w1.seen /\ DaemonTypes' /\ w1'.stage = "exited"
  BY <1>0 DEF Execs!Exit, DaemonTypes
<1>4. ExecsOk' /\ CountIs'
  BY <1>1, <1>2, <1>3, ExecAll
<1>5. SeenIs' /\ ExitedIs'
  BY <1>0, <1>2, <1>3 DEF SeenIs, ExitedIs, Execs!Exit, Early
<1> QED BY <1>3, <1>4, <1>5 DEF ExecInv

(* The daemon's own steps keep the invariant.                              *)
LEMMA ExecDaemon ==
  ASSUME ExecInv,
         \/ Execs!ExecutionStart \/ Execs!BeginShutdown \/ Execs!KillWaited \/ Execs!FinishShutdown
         \/ \E hard \in BOOLEAN : Execs!RequestShutdown(hard)
  PROVE  ExecInv'
<1>0. DaemonTypes /\ ExecsOk /\ CountIs /\ SeenIs /\ ExitedIs
  BY DEF ExecInv
<1>1. w2' = w2 /\ w1'.count = w1.count /\ w1'.seen = w1.seen /\ DaemonTypes'
  BY <1>0 DEF Execs!ExecutionStart, Execs!BeginShutdown, Execs!KillWaited, Execs!FinishShutdown,
       Execs!RequestShutdown, DaemonTypes
<1>2. /\ w1'.stage = "exited" => w1.stage = "exited"
      /\ w1'.stage \in {"killed", "terminated", "finished"} => w1.stage \in {"killed", "terminated",
           "finished"}
  BY <1>0 DEF Execs!ExecutionStart, Execs!BeginShutdown, Execs!KillWaited, Execs!FinishShutdown,
       Execs!RequestShutdown, DaemonTypes
<1>3. ExecsOk' /\ CountIs'
  BY <1>0, <1>1 DEF ExecsOk, CountIs
<1>4. SeenIs' /\ ExitedIs'
  BY <1>0, <1>1, <1>2 DEF SeenIs, ExitedIs
<1> QED BY <1>1, <1>3, <1>4 DEF ExecInv

(* The invariant holds at the start.                                       *)
LEMMA ExecInitial ==
  ASSUME Execs!ProcessInit
  PROVE  ExecInv
<1>1. w2 = [p \in Procs |-> Execs!Fresh]
  BY DEF Execs!ProcessInit
<1>2. ExecOk(Execs!Fresh)
  <2>1. Execs!Fresh.events = <<>> /\ Execs!Fresh.channel = <<>> /\ Execs!Fresh.pc = "idle"
    BY DEF Execs!Fresh
  <2>2. ExecLast(Execs!Fresh)
    BY <2>1 DEF ExecLast, NotIn, LastIn, Ended
  <2>3. ExecTypes(Execs!Fresh) /\ ExecBytes(Execs!Fresh) /\ ExecLeader(Execs!Fresh) /\ ExecEntry(Execs!Fresh) /\ ExecDrained(Execs!Fresh)
    BY DEF Execs!Fresh, ExecTypes, ExecBytes, ExecLeader, ExecEntry, ExecDrained, ExecFields, Unspawned, Ended
  <2> QED BY <2>2, <2>3 DEF ExecOk
<1>3. ExecsOk
  BY <1>1, <1>2 DEF ExecsOk
<1>4. DaemonTypes /\ w1.seen = {} /\ w1.stage = "serving" /\ w1.count = 0
  BY DEF Execs!ProcessInit, DaemonTypes
<1>5. {p \in Procs : w2[p].pc \in ExecCounted} = {}
  BY <1>1 DEF Execs!Fresh, ExecCounted
<1>6. CountIs
  BY <1>4, <1>5, FS_EmptySet DEF CountIs
<1> QED BY <1>3, <1>4, <1>6 DEF ExecInv, SeenIs, ExitedIs

(* Every step keeps the invariant.                                         *)
LEMMA ExecStep ==
  ASSUME ExecInv, Execs!ProcessNext
  PROVE  ExecInv'
BY ExecDispatch, ExecCheckLimit, ExecSpawnFails, ExecSpawn, ExecRegister, ExecStartTasks, ExecWrites,
     ExecForks, ExecLeavesGroup, ExecLeaderExits, ExecChildExits, ExecCaptureChunk, ExecCaptureEof,
     ExecReap, ExecReportExit, ExecUnregister, ExecUncount, ExecWriteStdin, ExecStdinWritten, ExecCloseStdin,
   ExecTimeoutTerm, ExecTimeoutKill, ExecConnectionCloses, ExecSignalProcess, ExecKillProcess,
        ExecExecutionStop,
   ExecSignalAll, ExecKillAll, ExecExit, ExecDaemon
DEF Execs!ProcessNext, Execs!Handler, Execs!Outside, Execs!Tasks, Execs!Orders, Execs!Shutdown

(* The invariant is strong enough.                                         *)
LEMMA ExecInvImplies ==
  ASSUME ExecInv
  PROVE  Execs!ProcessTypeOK /\ Execs!ExecEndsWhole
<1>0. DaemonTypes /\ ExecsOk /\ CountIs /\ SeenIs /\ ExitedIs
  BY DEF ExecInv
<1>1. w1.count \in 0 .. Cardinality(Procs)
  <2> DEFINE C == {p \in Procs : w2[p].pc \in ExecCounted}
  <2>1. C \subseteq Procs /\ IsFiniteSet(Procs)
    BY ExecFinite
  <2>2. Cardinality(C) \in Nat /\ Cardinality(Procs) \in Nat /\ Cardinality(C) <= Cardinality(Procs)
    BY <2>1, FS_Subset, FS_CardinalityType
  <2> QED BY <1>0, <2>2 DEF CountIs
<1>2. \A p \in Procs : ExecTypes(w2[p])
  BY <1>0 DEF ExecsOk, ExecOk
<1>3. Execs!ProcessTypeOK
  BY <1>0, <1>1, <1>2 DEF Execs!ProcessTypeOK, DaemonTypes, ExecTypes, Execs!Cardinality, Cardinality
<1>4. Execs!ExitIsLast
  <2> SUFFICES ASSUME NEW p \in Procs
               PROVE  /\ LastIn(w2[p].events, "ProcessExited") /\ LastIn(w2[p].channel, "End")
                      /\ w2[p].pc \in {"reported", "done"} =>
                           /\ w2[p].recorded = w2[p].written /\ ~Execs!Holders(w2[p])
                           /\ w2[p].events[Len(w2[p].events)] = "ProcessExited"
    BY DEF Execs!ExitIsLast, LastIn
  <2>1. ExecBytes(w2[p]) /\ ExecDrained(w2[p]) /\ ExecLast(w2[p])
    BY <1>0 DEF ExecsOk, ExecOk
  <2>2. LastIn(w2[p].events, "ProcessExited") /\ LastIn(w2[p].channel, "End")
    BY <2>1 DEF ExecLast
  <2>3. ASSUME w2[p].pc \in {"reported", "done"}
        PROVE  /\ w2[p].recorded = w2[p].written /\ ~Execs!Holders(w2[p])
               /\ w2[p].events[Len(w2[p].events)] = "ProcessExited"
    <3>1. w2[p].piped = 0 /\ ~Execs!Holders(w2[p])
      BY <2>1, <2>3 DEF ExecDrained, Ended
    <3>2. w2[p].recorded = w2[p].written
      BY <2>1, <3>1 DEF ExecBytes
    <3>3. w2[p].events[Len(w2[p].events)] = "ProcessExited"
      BY <2>1, <2>3 DEF ExecLast, Ended
    <3> QED BY <3>1, <3>2, <3>3
  <2> QED BY <2>2, <2>3
<1>5. Execs!ShutdownReachesTheTree
  BY <1>0 DEF Execs!ShutdownReachesTheTree, SeenIs, ExitedIs
<1> QED BY <1>3, <1>4, <1>5 DEF Execs!ExecEndsWhole

ExecPart == part = "exec" => ExecInv

(* The invariant is about these variables alone.                           *)
LEMMA ExecStutters ==
  ASSUME ExecInv, UNCHANGED <<w1, w2>>
  PROVE  ExecInv'
BY DEF ExecInv, ExecFields, Unspawned, Early, ExecCounted, Ended, SeenSteps, ExecEvents, ExecFrames,
     ExecTypes, ExecBytes, ExecLeader, ExecEntry, ExecDrained, LastIn, NotIn, ExecLast, ExecOk,
     DaemonTypes, ExecsOk, CountIs, SeenIs, ExitedIs, Execs!Gone, Execs!Holders, Execs!NoChild

(* Whatever part runs, this one keeps its invariant.                       *)
LEMMA ExecAlways ==
  ASSUME ExecPart, [RunningNext]_partVars
  PROVE  ExecPart'
<1> SUFFICES ASSUME part' = "exec" PROVE ExecInv'
  BY DEF ExecPart
<1>1. part = "exec"
  BY DEF RunningNext, partVars
<1>2. ExecInv
  BY <1>1 DEF ExecPart
<1>3. CASE Execs!ProcessNext
  BY <1>2, <1>3, ExecStep
<1>4. CASE UNCHANGED <<w1, w2>>
  BY <1>2, <1>4, ExecStutters
<1> QED BY <1>1, <1>3, <1>4 DEF RunningNext, partVars, From1, From3, From4, From5, From6, From7, From8,
     From10, From12, From13, From15, From17

(* An exec's exit is its last event and follows all it wrote, and once a   *)
(* shutdown has killed the groups it saw none of their processes is left,  *)
(* for any number of execs (sealant-process runtime.rs and registry.rs).   *)
THEOREM ExecCorrect == RunningSpec => []ExecEndsWhole
<1>1. RunningInit => ExecPart
  BY ExecInitial DEF RunningInit, ExecPart
<1>2. ExecPart /\ [RunningNext]_partVars => ExecPart'
  BY ExecAlways
<1>3. ExecPart => ExecEndsWhole
  BY ExecInvImplies DEF ExecEndsWhole, ExecPart
<1> QED BY <1>1, <1>2, <1>3, PTL DEF RunningSpec

-------------------------------------------------------------------------------
(* Binds: w1 is link, w2 binds, w3 file, w4 dirs, w5 bd.                   *)

BindFields == {"stage", "list", "slot", "wanted", "count", "boots", "faults", "lost", "limit"}
BindSteps == {"idle", "check", "link", "record", "write", "done", "failed"}
SlotFields == {"mount", "to", "pc", "snapshot"}
Bindings == Subpaths \cup {Binding!Nothing}
Records == [Mounts -> Bindings]
SlotOk(r) ==
  /\ SlotFields \subseteq DOMAIN r
  /\ r.pc \in BindSteps
  /\ r.pc # "idle" => r.mount \in Mounts /\ r.to \in Bindings
  /\ r.pc = "write" => r.snapshot \in Records
BdTypes ==
  /\ BindFields \subseteq DOMAIN w5
  /\ w5.stage \in {"boot", "serving", "dead"} /\ w5.limit \in BindLimits
  /\ w5.wanted \in Records
SlotTypes == Binding!Slots \subseteq DOMAIN w5.slot /\ \A s \in Binding!Slots : SlotOk(w5.slot[s])
ListTypes == w5.list \in Seq(Binding!BindEntries)
RecordTypes == DOMAIN w1 = Mounts /\ w2 \in Records /\ w3 \in Records

(* At most one bind is in flight where binds do not overlap, and the boot  *)
(* uses one slot.                                                          *)
OneAtATime ==
  /\ ~w5.limit.overlap => \A s,
       t \in Binding!Slots : Binding!At(s) # "idle" /\ Binding!At(t) # "idle" => s = t
  /\ w5.stage # "serving" => Binding!At("two") = "idle"

(* A mount a bind in flight, or a boot still has to do, is unsettled; of   *)
(* the others link, memory, file and client agree.                         *)
Pending(m) ==
  \/ \E s \in Binding!Slots : Binding!At(s) # "idle" /\ w5.slot[s].mount = m
  \/ w5.stage = "boot" /\ m \in Binding!Named(w5.list)
Agree(m) ==
  /\ w2[m] = w5.wanted[m] /\ w3[m] = w5.wanted[m]
  /\ w1[m] = w5.wanted[m] \/ (w5.wanted[m] = Binding!Nothing /\ w1[m] = Binding!RealDir)
Sane == ~w5.limit.overlap /\ ~w5.lost /\ w5.stage # "dead"
RestAgree == Sane => \A m \in Mounts : Pending(m) \/ Agree(m)

(* How far a bind in flight got: the link first, then memory, then file.   *)
Reached(r) ==
  /\ r.pc \in {"check", "failed"} /\ w5.stage = "serving" => Agree(r.mount)
  /\ r.pc = "link" => w1[r.mount] = Binding!Nothing
  /\ r.pc \in {"record", "write", "done"} => w1[r.mount] = r.to
  /\ r.pc \in {"write", "done"} => w2[r.mount] = r.to
  /\ r.pc = "write" => r.snapshot = w2
  /\ r.pc = "done" => w3[r.mount] = r.to
FlightReached == Sane => \A s \in Binding!Slots : Reached(w5.slot[s])

BindInv ==
  /\ BdTypes
  /\ SlotTypes
  /\ ListTypes
  /\ RecordTypes
  /\ OneAtATime
  /\ RestAgree
  /\ FlightReached

(* A set in some order is a sequence that holds just its elements.         *)
LEMMA BindOrder ==
  ASSUME NEW S, IsFiniteSet(S)
  PROVE  Binding!SetToSeq(S) \in Seq(S) /\ \A x \in S : \E i \in DOMAIN Binding!SetToSeq(S) : Binding!SetToSeq(S)[i] = x
<1> DEFINE n == Cardinality(S)
           o == Binding!SetToSeq(S)
<1>0. Binding!Cardinality(S) = n
  BY DEF Binding!Cardinality, Cardinality
<1>1. n \in Nat /\ ExistsBijection(1 .. n, S)
  BY FS_CardinalityType
<1>2. \E g \in [1 .. n -> S] : \A a, b \in DOMAIN g : g[a] = g[b] => a = b
  BY <1>1 DEF ExistsBijection, Bijection, Injection, IsInjective
<1>3. o \in [1 .. n -> S] /\ \A a, b \in DOMAIN o : o[a] = o[b] => a = b
  BY <1>0, <1>2 DEF Binding!SetToSeq, IsInjective, Binding!IsInjective
<1> HIDE DEF o
<1>4. o \in Injection(1 .. n, S)
  BY <1>3 DEF Injection, IsInjective
<1>5. Cardinality(1 .. n) = n
  <2>1. Cardinality(1 .. n) = IF 1 > n THEN 0 ELSE n - 1 + 1
    BY <1>1, FS_Interval
  <2> QED BY <1>1, <2>1
<1>6. o \in Surjection(1 .. n, S)
  BY <1>4, <1>5, FS_Injection
<1>7. \A x \in S : \E i \in DOMAIN o : o[i] = x
  BY <1>3, <1>6 DEF Surjection
<1>8. o \in Seq(S)
  BY <1>1, <1>3
<1> QED BY <1>7, <1>8 DEF o

(* The boot's list names every mount its file holds a binding of.          *)
LEMMA BindBootList ==
  ASSUME NEW f \in Records, w5.limit \in BindLimits
  PROVE  Binding!BootList(f) \in Seq(Binding!BindEntries) /\ \A m \in Mounts : f[m] # Binding!Nothing => m \in Binding!Named(Binding!BootList(f))
<1> DEFINE ms == Binding!Recorded(f) \ Binding!Named(w5.limit.initial)
           order == Binding!SetToSeq(ms)
           old == Binding!AsBinds(f, ms)
           init == w5.limit.initial
<1>1. IsFiniteSet(ms)
  <2>1. IsFiniteSet(Mounts)
    BY BindConstant DEF Binding!BindConstants, Binding!IsFiniteSet, IsFiniteSet
  <2> QED BY <2>1, FS_Subset DEF Binding!Recorded
<1>2. order \in Seq(ms) /\ \A x \in ms : \E i \in DOMAIN order : order[i] = x
  BY <1>1, BindOrder
<1>3. init \in Seq(Binding!BindEntries)
  BY BindConstant DEF Binding!BindConstants
<1>4. ms \subseteq Mounts
  BY DEF Binding!Recorded
<1> HIDE DEF ms, order, init
<1>5. old = [i \in DOMAIN order |-> [mount |-> order[i], to |-> f[order[i]]]]
  BY DEF Binding!AsBinds, order
<1> HIDE DEF old
<1>6. \A i \in DOMAIN order : [mount |-> order[i], to |-> f[order[i]]] \in Binding!BindEntries
  BY <1>2, <1>4 DEF Binding!BindEntries, Records, Bindings, Binding!Nothing
<1>7. old \in Seq(Binding!BindEntries) /\ DOMAIN old = DOMAIN order /\ \A i \in DOMAIN order : old[i].mount = order[i]
  BY <1>2, <1>5, <1>6
<1>8. Binding!BootList(f) = init \o old
  BY DEF Binding!BootList, Binding!Limit, init, old, ms
<1>9. /\ init \o old \in Seq(Binding!BindEntries)
      /\ \A i \in DOMAIN init : i \in DOMAIN (init \o old) /\ (init \o old)[i] = init[i]
      /\ \A i \in DOMAIN old : Len(init) + i \in DOMAIN (init \o old) /\ (init \o old)[Len(init) + i] = old[i]
  BY <1>3, <1>7
<1>10. ASSUME NEW m \in Mounts, f[m] # Binding!Nothing PROVE m \in Binding!Named(init \o old)
  <2>1. CASE m \in ms
    <3>1. PICK i \in DOMAIN order : order[i] = m
      BY <1>2, <2>1
    <3> QED BY <1>7, <1>9, <3>1 DEF Binding!Named
  <2>2. CASE m \notin ms
    <3>1. m \in Binding!Named(init)
      BY <1>10, <2>2 DEF ms, Binding!Recorded, init
    <3> QED BY <1>9, <3>1 DEF Binding!Named
  <2> QED BY <2>1, <2>2
<1> QED BY <1>8, <1>9, <1>10

(* The bind of one slot takes a step.                                      *)
BindMoved(s, r) ==
  /\ BindFields \subseteq DOMAIN w5'
  /\ w5'.stage = w5.stage /\ w5'.list = w5.list /\ w5'.wanted = w5.wanted /\ w5'.limit = w5.limit
  /\ w5.lost => w5'.lost
  /\ Binding!Slots \subseteq DOMAIN w5'.slot /\ w5'.slot[s] = r
  /\ \A t \in Binding!Slots \ {s} : w5'.slot[t] = w5.slot[t]

(* A step of one bind keeps the invariant where it keeps the other mounts  *)
(* in agreement and got as far as its record says.                         *)
LEMMA BindMoves ==
  ASSUME BindInv, NEW s \in Binding!Slots, NEW r, Binding!At(s) # "idle", BindMoved(s, r),
         SlotOk(r), r.pc # "idle", r.mount = w5.slot[s].mount, RecordTypes',
         Sane => Reached(w5.slot[s])',
         Sane => \A m \in Mounts \ {r.mount} : Agree(m) => Agree(m)'
  PROVE  BindInv'
<1>0. BdTypes /\ SlotTypes /\ ListTypes /\ RecordTypes /\ OneAtATime /\ RestAgree /\ FlightReached
  BY DEF BindInv
<1>1. BdTypes'
  BY <1>0 DEF BdTypes, BindMoved
<1>2. SlotTypes'
  BY <1>0 DEF SlotTypes, SlotOk, BindMoved
<1>3. ListTypes'
  BY <1>0 DEF ListTypes, BindMoved
<1>4. OneAtATime'
  BY <1>0 DEF OneAtATime, Binding!At, BindMoved, Binding!Slots
<1>5. Sane' => Sane
  BY DEF Sane, BindMoved
<1>6. ASSUME NEW m \in Mounts, Pending(m) PROVE Pending(m)'
  <2>1. CASE \E t \in Binding!Slots : Binding!At(t) # "idle" /\ w5.slot[t].mount = m
    BY <2>1 DEF Pending, Binding!At, BindMoved
  <2>2. CASE w5.stage = "boot" /\ m \in Binding!Named(w5.list)
    BY <2>2 DEF Pending, BindMoved
  <2> QED BY <1>6, <2>1, <2>2 DEF Pending
<1>7. Pending(r.mount)'
  BY DEF Pending, Binding!At, BindMoved
<1>8. RestAgree'
  BY <1>0, <1>5, <1>6, <1>7 DEF RestAgree
<1>9. ASSUME Sane', NEW t \in Binding!Slots PROVE Reached(w5.slot[t])'
  <2>1. CASE t = s
    BY <1>5, <1>9, <2>1 DEF BindMoved
  <2>2. CASE t # s
    <3>1. w5'.slot[t].pc = "idle"
      BY <1>0, <1>5, <1>9, <2>2 DEF OneAtATime, Sane, Binding!At, BindMoved
    <3> QED BY <3>1 DEF Reached
  <2> QED BY <2>1, <2>2
<1>10. FlightReached'
  BY <1>9 DEF FlightReached
<1> QED BY <1>1, <1>2, <1>3, <1>4, <1>8, <1>10 DEF BindInv

(* A slot's record replaced.                                               *)
LEMMA BindPut ==
  ASSUME BindInv, NEW s \in Binding!Slots, NEW r, Binding!Put(s, r)
  PROVE  BindMoved(s, r)
<1>1. BindFields \subseteq DOMAIN w5 /\ Binding!Slots \subseteq DOMAIN w5.slot
  BY DEF BindInv, BdTypes, SlotTypes
<1> QED BY <1>1 DEF Binding!Put, BindMoved, BindFields

(* Unlink keeps the invariant.                                             *)
LEMMA BindUnlink ==
  ASSUME BindInv, NEW s \in Binding!Slots, Binding!Unlink(s)
  PROVE  BindInv'
<1>0. BdTypes /\ SlotTypes /\ ListTypes /\ RecordTypes /\ OneAtATime /\ RestAgree /\ FlightReached
  BY DEF BindInv
<1> DEFINE r == w5.slot[s]
<1>1. /\ SlotFields \subseteq DOMAIN r /\ r.pc \in BindSteps
      /\ r.pc # "idle" => r.mount \in Mounts /\ r.to \in Bindings
  BY <1>0 DEF SlotTypes, SlotOk
<1>2. r.pc = "check" /\ Binding!At(s) # "idle" /\ w2' = w2 /\ w3' = w3
  BY DEF Binding!Unlink, Binding!At
<1> DEFINE step == IF r.to = Binding!Nothing THEN "record" ELSE "link"
           a == [r EXCEPT !.pc = step]
           b == [r EXCEPT !.pc = "failed"]
<1>3. /\ SlotFields \subseteq DOMAIN a /\ a.mount = r.mount /\ a.to = r.to /\ a.pc = step
      /\ SlotFields \subseteq DOMAIN b /\ b.mount = r.mount /\ b.to = r.to /\ b.pc = "failed"
  BY <1>1 DEF SlotFields
<1>4. \/ w1' = [w1 EXCEPT ![r.mount] = Binding!Nothing] /\ Binding!Put(s, a)
      \/ w1' = w1 /\ Binding!Put(s, b)
  BY DEF Binding!Unlink
<1>5. (step = "record" /\ r.to = Binding!Nothing) \/ step = "link"
  OBVIOUS
<1> HIDE DEF a, b, step
<1>6. CASE w1' = [w1 EXCEPT ![r.mount] = Binding!Nothing] /\ Binding!Put(s, a)
  <2>1. BindMoved(s, a)
    BY <1>6, BindPut
  <2>2. /\ DOMAIN w1' = Mounts /\ w1'[r.mount] = Binding!Nothing
        /\ \A m \in Mounts \ {r.mount} : w1'[m] = w1[m]
    BY <1>0, <1>1, <1>2, <1>6 DEF RecordTypes
  <2>3. SlotOk(a) /\ a.pc # "idle"
    BY <1>1, <1>2, <1>3, <1>5 DEF SlotOk, BindSteps
  <2>4. RecordTypes'
    BY <1>0, <1>2, <2>2 DEF RecordTypes
  <2>5. Reached(w5.slot[s])'
    BY <1>3, <1>5, <2>1, <2>2 DEF Reached, BindMoved
  <2>6. \A m \in Mounts \ {r.mount} : Agree(m) => Agree(m)'
    BY <1>2, <2>1, <2>2 DEF Agree, BindMoved
  <2> QED BY <1>2, <1>3, <2>1, <2>3, <2>4, <2>5, <2>6, BindMoves
<1>7. CASE w1' = w1 /\ Binding!Put(s, b)
  <2>1. BindMoved(s, b)
    BY <1>7, BindPut
  <2>2. SlotOk(b) /\ b.pc # "idle"
    BY <1>1, <1>2, <1>3 DEF SlotOk, BindSteps
  <2>3. RecordTypes'
    BY <1>0, <1>2, <1>7 DEF RecordTypes
  <2>4. \A m \in Mounts : Agree(m) => Agree(m)'
    BY <1>2, <1>7, <2>1 DEF Agree, BindMoved
  <2>5. Sane => Reached(w5.slot[s])'
    <3>1. Sane /\ w5.stage = "serving" => Agree(r.mount)
      BY <1>0, <1>2 DEF FlightReached, Reached
    <3> QED BY <1>1, <1>2, <1>3, <2>1, <2>4, <3>1 DEF Reached, BindMoved
  <2> QED BY <1>2, <1>3, <2>1, <2>2, <2>3, <2>4, <2>5, BindMoves
<1> QED BY <1>4, <1>6, <1>7

(* Symlink keeps the invariant.                                            *)
LEMMA BindSymlink ==
  ASSUME BindInv, NEW s \in Binding!Slots, Binding!Symlink(s)
  PROVE  BindInv'
<1>0. BdTypes /\ SlotTypes /\ ListTypes /\ RecordTypes /\ OneAtATime /\ RestAgree /\ FlightReached
  BY DEF BindInv
<1> DEFINE r == w5.slot[s]
<1>1. /\ SlotFields \subseteq DOMAIN r /\ r.pc \in BindSteps
      /\ r.pc # "idle" => r.mount \in Mounts /\ r.to \in Bindings
  BY <1>0 DEF SlotTypes, SlotOk
<1>2. r.pc = "link" /\ Binding!At(s) # "idle" /\ w2' = w2 /\ w3' = w3
  BY DEF Binding!Symlink, Binding!At
<1> DEFINE a == [r EXCEPT !.pc = "record"]
           b == [r EXCEPT !.pc = "failed"]
<1>3. /\ SlotFields \subseteq DOMAIN a /\ a.mount = r.mount /\ a.to = r.to /\ a.pc = "record"
      /\ SlotFields \subseteq DOMAIN b /\ b.mount = r.mount /\ b.to = r.to /\ b.pc = "failed"
  BY <1>1 DEF SlotFields
<1>4. \/ w1' = [w1 EXCEPT ![r.mount] = r.to] /\ Binding!Put(s, a)
      \/ w1' = w1 /\ Binding!Put(s, b) /\ w1[r.mount] # Binding!Nothing
  BY DEF Binding!Symlink
<1> HIDE DEF a, b
<1>5. CASE w1' = [w1 EXCEPT ![r.mount] = r.to] /\ Binding!Put(s, a)
  <2>1. BindMoved(s, a)
    BY <1>5, BindPut
  <2>2. /\ DOMAIN w1' = Mounts /\ w1'[r.mount] = r.to
        /\ \A m \in Mounts \ {r.mount} : w1'[m] = w1[m]
    BY <1>0, <1>1, <1>2, <1>5 DEF RecordTypes
  <2>3. SlotOk(a) /\ a.pc # "idle"
    BY <1>1, <1>2, <1>3 DEF SlotOk, BindSteps
  <2>4. RecordTypes'
    BY <1>0, <1>2, <2>2 DEF RecordTypes
  <2>5. Reached(w5.slot[s])'
    BY <1>3, <2>1, <2>2 DEF Reached, BindMoved
  <2>6. \A m \in Mounts \ {r.mount} : Agree(m) => Agree(m)'
    BY <1>2, <2>1, <2>2 DEF Agree, BindMoved
  <2> QED BY <1>2, <1>3, <2>1, <2>3, <2>4, <2>5, <2>6, BindMoves
<1>6. CASE w1' = w1 /\ Binding!Put(s, b) /\ w1[r.mount] # Binding!Nothing
  <2>1. BindMoved(s, b)
    BY <1>6, BindPut
  <2>2. SlotOk(b) /\ b.pc # "idle"
    BY <1>1, <1>2, <1>3 DEF SlotOk, BindSteps
  <2>3. RecordTypes'
    BY <1>0, <1>2, <1>6 DEF RecordTypes
  <2>4. ~Sane
    BY <1>0, <1>2, <1>6 DEF FlightReached, Reached
  <2> QED BY <1>2, <1>3, <2>1, <2>2, <2>3, <2>4, BindMoves
<1> QED BY <1>4, <1>5, <1>6

(* Record keeps the invariant.                                             *)
LEMMA BindRecord ==
  ASSUME BindInv, NEW s \in Binding!Slots, Binding!Record(s)
  PROVE  BindInv'
<1>0. BdTypes /\ SlotTypes /\ ListTypes /\ RecordTypes /\ OneAtATime /\ RestAgree /\ FlightReached
  BY DEF BindInv
<1> DEFINE r == w5.slot[s]
<1>1. /\ SlotFields \subseteq DOMAIN r /\ r.pc \in BindSteps
      /\ r.pc # "idle" => r.mount \in Mounts /\ r.to \in Bindings
  BY <1>0 DEF SlotTypes, SlotOk
<1>2. r.pc = "record" /\ Binding!At(s) # "idle" /\ w1' = w1 /\ w3' = w3 /\ w2' = [w2 EXCEPT ![r.mount] = r.to]
  BY DEF Binding!Record, Binding!At
<1> DEFINE a == [r EXCEPT !.pc = "write", !.snapshot = w2']
<1>3. /\ SlotFields \subseteq DOMAIN a /\ a.mount = r.mount /\ a.to = r.to /\ a.pc = "write"
      /\ a.snapshot = w2'
  BY <1>1 DEF SlotFields
<1>4. Binding!Put(s, a)
  BY DEF Binding!Record
<1> HIDE DEF a
<1>5. BindMoved(s, a)
  BY <1>4, BindPut
<1>6. w2' \in Records /\ w2'[r.mount] = r.to /\ \A m \in Mounts \ {r.mount} : w2'[m] = w2[m]
  BY <1>0, <1>1, <1>2 DEF RecordTypes, Records
<1>7. SlotOk(a) /\ a.pc # "idle"
  BY <1>1, <1>2, <1>3, <1>6 DEF SlotOk, BindSteps
<1>8. RecordTypes'
  BY <1>0, <1>2, <1>6 DEF RecordTypes
<1>9. Sane => Reached(w5.slot[s])'
  <2>1. Sane => w1[r.mount] = r.to
    BY <1>0, <1>2 DEF FlightReached, Reached
  <2> QED BY <1>2, <1>3, <1>5, <1>6, <2>1 DEF Reached, BindMoved
<1>10. \A m \in Mounts \ {r.mount} : Agree(m) => Agree(m)'
  BY <1>2, <1>5, <1>6 DEF Agree, BindMoved
<1> QED BY <1>2, <1>3, <1>5, <1>7, <1>8, <1>9, <1>10, BindMoves

(* Write keeps the invariant.                                              *)
LEMMA BindWrite ==
  ASSUME BindInv, NEW s \in Binding!Slots, Binding!Write(s)
  PROVE  BindInv'
<1>0. BdTypes /\ SlotTypes /\ ListTypes /\ RecordTypes /\ OneAtATime /\ RestAgree /\ FlightReached
  BY DEF BindInv
<1> DEFINE r == w5.slot[s]
<1>1. /\ SlotFields \subseteq DOMAIN r /\ r.pc \in BindSteps
      /\ r.pc # "idle" => r.mount \in Mounts /\ r.to \in Bindings
  BY <1>0 DEF SlotTypes, SlotOk
<1>2. r.pc = "write" /\ Binding!At(s) # "idle" /\ w1' = w1 /\ w2' = w2
  BY DEF Binding!Write, Binding!At
<1> DEFINE a == [r EXCEPT !.pc = "done"]
<1>3. SlotFields \subseteq DOMAIN a /\ a.mount = r.mount /\ a.to = r.to /\ a.pc = "done"
  BY <1>1 DEF SlotFields
<1>4. \/ w3' = r.snapshot /\ Binding!Put(s, a)
      \/ w3' = w3 /\ w5' = [w5 EXCEPT !.slot[s].pc = "done", !.faults = @ + 1, !.lost = TRUE]
  BY DEF Binding!Write
<1>5. SlotOk(a) /\ a.pc # "idle"
  BY <1>1, <1>2, <1>3 DEF SlotOk, BindSteps
<1>6. Sane => w1[r.mount] = r.to /\ w2[r.mount] = r.to /\ r.snapshot = w2
  BY <1>0, <1>2 DEF FlightReached, Reached
<1>7. r.snapshot \in Records
  BY <1>0, <1>2 DEF SlotTypes, SlotOk
<1>8. CASE w3' = r.snapshot /\ Binding!Put(s, a)
  <2> HIDE DEF a
  <2>1. BindMoved(s, a)
    BY <1>8, BindPut
  <2>2. RecordTypes'
    BY <1>0, <1>2, <1>7, <1>8 DEF RecordTypes
  <2>3. Sane => Reached(w5.slot[s])'
    BY <1>2, <1>3, <1>6, <1>8, <2>1 DEF Reached, BindMoved
  <2>4. Sane => \A m \in Mounts \ {r.mount} : Agree(m) => Agree(m)'
    BY <1>2, <1>6, <1>8, <2>1 DEF Agree, BindMoved
  <2> QED BY <1>2, <1>3, <1>5, <2>1, <2>2, <2>3, <2>4, BindMoves
<1>9. CASE w3' = w3 /\ w5' = [w5 EXCEPT !.slot[s].pc = "done", !.faults = @ + 1, !.lost = TRUE]
  <2>1. BindFields \subseteq DOMAIN w5 /\ Binding!Slots \subseteq DOMAIN w5.slot
    BY <1>0 DEF BdTypes, SlotTypes
  <2>2. BindMoved(s, a) /\ w5'.lost
    BY <1>9, <2>1 DEF BindMoved, BindFields
  <2> HIDE DEF a
  <2>3. BdTypes' /\ ListTypes'
    BY <1>0, <2>2 DEF BdTypes, ListTypes, BindMoved
  <2>4. SlotTypes'
    BY <1>0, <1>5, <2>2 DEF SlotTypes, BindMoved
  <2>5. RecordTypes'
    BY <1>0, <1>2, <1>9 DEF RecordTypes
  <2>6. OneAtATime'
    BY <1>0, <1>2, <2>2 DEF OneAtATime, Binding!At, BindMoved, Binding!Slots
  <2>7. ~Sane'
    BY <2>2 DEF Sane
  <2> QED BY <2>3, <2>4, <2>5, <2>6, <2>7 DEF BindInv, RestAgree, FlightReached
<1> QED BY <1>4, <1>8, <1>9

(* A slot without a bind.                                                  *)
LEMMA BindIdle == SlotFields \subseteq DOMAIN Binding!Idle /\ Binding!Idle.pc = "idle" /\ SlotOk(Binding!Idle)
BY DEF Binding!Idle, SlotOk, BindSteps, SlotFields

(* BindMount keeps the invariant.                                          *)
LEMMA BindBindMount ==
  ASSUME BindInv, NEW s \in Binding!Slots, Binding!BindMount(s)
  PROVE  BindInv'
<1>0. BdTypes /\ SlotTypes /\ ListTypes /\ RecordTypes /\ OneAtATime /\ RestAgree /\ FlightReached
  BY DEF BindInv
<1>1. PICK m \in Mounts, to \in Bindings :
        w5' = [w5 EXCEPT !.count = @ + 1,
                         !.slot[s] = [Binding!Idle EXCEPT !.mount = m, !.to = to, !.pc = "check"]]
  BY DEF Binding!BindMount, Bindings
<1> DEFINE a == [Binding!Idle EXCEPT !.mount = m, !.to = to, !.pc = "check"]
<1>2. SlotOk(a) /\ a.pc = "check" /\ a.mount = m /\ a.to = to
  BY DEF Binding!Idle, SlotOk, BindSteps, SlotFields
<1>3. BindFields \subseteq DOMAIN w5 /\ Binding!Slots \subseteq DOMAIN w5.slot
  BY <1>0 DEF BdTypes, SlotTypes
<1>4. BindMoved(s, a) /\ w5'.lost = w5.lost
  BY <1>1, <1>3 DEF BindMoved, BindFields
<1>5. /\ w5.stage = "serving" /\ (w5.limit.overlap \/ \A t \in Binding!Slots : Binding!At(t) = "idle")
      /\ w1' = w1 /\ w2' = w2 /\ w3' = w3
  BY DEF Binding!BindMount, Binding!InFlight, Binding!Limit
<1> HIDE DEF a
<1>6. BdTypes' /\ ListTypes' /\ RecordTypes'
  BY <1>0, <1>4, <1>5 DEF BdTypes, ListTypes, RecordTypes, BindMoved
<1>7. SlotTypes'
  BY <1>0, <1>2, <1>4 DEF SlotTypes, BindMoved
<1>8. OneAtATime'
  BY <1>0, <1>4, <1>5 DEF OneAtATime, Binding!At, BindMoved, Binding!Slots
<1>9. Sane' => Sane /\ \A t \in Binding!Slots : Binding!At(t) = "idle"
  BY <1>4, <1>5 DEF Sane, BindMoved
<1>10. ASSUME Sane PROVE \A x \in Mounts : Binding!At(s) = "idle" /\ Pending(x) => \E t \in Binding!Slots : Binding!At(t) # "idle"
  BY <1>5 DEF Pending
<1>11. Sane' => \A x \in Mounts : Agree(x) /\ Agree(x)'
  <2>1. Sane' => \A x \in Mounts : Agree(x)
    BY <1>0, <1>5, <1>9 DEF RestAgree, Pending
  <2> QED BY <1>4, <1>5, <2>1 DEF Agree, BindMoved
<1>12. RestAgree'
  BY <1>11 DEF RestAgree
<1>13. FlightReached'
  <2>1. ASSUME Sane', NEW t \in Binding!Slots PROVE Reached(w5.slot[t])'
    <3>1. CASE t = s
      BY <1>2, <1>4, <1>11, <2>1, <3>1 DEF Reached, BindMoved
    <3>2. CASE t # s
      BY <1>4, <1>9, <2>1, <3>2 DEF Reached, BindMoved, Binding!At
    <3> QED BY <3>1, <3>2
  <2> QED BY <2>1 DEF FlightReached
<1> QED BY <1>6, <1>7, <1>8, <1>12, <1>13 DEF BindInv

(* Answer keeps the invariant.                                             *)
LEMMA BindAnswer ==
  ASSUME BindInv, NEW s \in Binding!Slots, Binding!Answer(s)
  PROVE  BindInv'
<1>0. BdTypes /\ SlotTypes /\ ListTypes /\ RecordTypes /\ OneAtATime /\ RestAgree /\ FlightReached
  BY DEF BindInv
<1> DEFINE r == w5.slot[s]
<1>1. /\ SlotFields \subseteq DOMAIN r /\ r.pc \in BindSteps
      /\ r.pc # "idle" => r.mount \in Mounts /\ r.to \in Bindings
  BY <1>0 DEF SlotTypes, SlotOk
<1>2. /\ w5.stage = "serving" /\ r.pc \in {"done", "failed"} /\ w1' = w1 /\ w2' = w2 /\ w3' = w3
      /\ r.mount \in Mounts /\ r.to \in Bindings
  BY <1>1 DEF Binding!Answer, Binding!At
<1>3. BindFields \subseteq DOMAIN w5 /\ Binding!Slots \subseteq DOMAIN w5.slot /\ w5.wanted \in Records
  BY <1>0 DEF BdTypes, SlotTypes
<1> DEFINE w == IF r.pc = "done" THEN [w5.wanted EXCEPT ![r.mount] = r.to] ELSE w5.wanted
<1>4. w5' = [w5 EXCEPT !.slot[s] = Binding!Idle, !.wanted = w]
  BY DEF Binding!Answer, Binding!At
<1>5. /\ w \in Records /\ \A m \in Mounts \ {r.mount} : w[m] = w5.wanted[m]
      /\ w[r.mount] = (IF r.pc = "done" THEN r.to ELSE w5.wanted[r.mount])
  BY <1>2, <1>3 DEF Records
<1> HIDE DEF w
<1>6. /\ BindFields \subseteq DOMAIN w5' /\ w5'.stage = w5.stage /\ w5'.list = w5.list
      /\ w5'.limit = w5.limit
      /\ w5'.lost = w5.lost /\ w5'.wanted = w
      /\ Binding!Slots \subseteq DOMAIN w5'.slot /\ w5'.slot[s] = Binding!Idle
      /\ \A t \in Binding!Slots \ {s} : w5'.slot[t] = w5.slot[t]
  BY <1>3, <1>4 DEF BindFields
<1>7. BdTypes' /\ ListTypes' /\ RecordTypes'
  BY <1>0, <1>2, <1>5, <1>6 DEF BdTypes, ListTypes, RecordTypes
<1>8. SlotTypes'
  BY <1>0, <1>6, BindIdle DEF SlotTypes
<1>9. OneAtATime'
  BY <1>0, <1>6, BindIdle DEF OneAtATime, Binding!At, Binding!Slots
<1>10. Sane' => Sane
  BY <1>6 DEF Sane
<1>11. ASSUME Sane', NEW m, m = r.mount PROVE Agree(m)'
  <2>1. CASE r.pc = "done"
    BY <1>0, <1>2, <1>5, <1>6, <1>10, <1>11, <2>1 DEF FlightReached, Reached, Agree
  <2>2. CASE r.pc = "failed"
    BY <1>0, <1>2, <1>5, <1>6, <1>10, <1>11, <2>2 DEF FlightReached, Reached, Agree
  <2> QED BY <1>2, <2>1, <2>2
<1>12. ASSUME Sane', NEW m \in Mounts PROVE Agree(m)'
  <2>1. CASE m = r.mount
    BY <1>11, <1>12, <2>1
  <2>2. CASE m # r.mount
    <3>1. \A t \in Binding!Slots \ {s} : Binding!At(t) = "idle"
      BY <1>0, <1>2, <1>10, <1>12 DEF OneAtATime, Sane, Binding!At
    <3>2. ~Pending(m)
      BY <1>2, <2>2, <3>1 DEF Pending
    <3>3. Agree(m)
      BY <1>0, <1>10, <1>12, <3>2 DEF RestAgree
    <3> QED BY <1>2, <1>5, <1>6, <2>2, <3>3 DEF Agree
  <2> QED BY <2>1, <2>2
<1>13. RestAgree'
  BY <1>12 DEF RestAgree
<1>14. FlightReached'
  <2>1. ASSUME Sane', NEW t \in Binding!Slots PROVE w5'.slot[t].pc = "idle"
    BY <1>0, <1>2, <1>6, <1>10, <2>1, BindIdle DEF OneAtATime, Sane, Binding!At
  <2> QED BY <2>1 DEF FlightReached, Reached
<1> QED BY <1>7, <1>8, <1>9, <1>13, <1>14 DEF BindInv

(* What the boot still has to do, once it takes the head of its list.      *)
LEMMA BindNamed ==
  ASSUME NEW l \in Seq(Binding!BindEntries), l # <<>>
  PROVE  /\ Tail(l) \in Seq(Binding!BindEntries) /\ Head(l).mount \in Mounts /\ Head(l).to \in Bindings
         /\ Binding!Named(l) = {Head(l).mount} \cup Binding!Named(Tail(l))
<1>1. /\ Tail(l) \in Seq(Binding!BindEntries) /\ Head(l) \in Binding!BindEntries /\ Len(l) \in Nat \ {0}
      /\ DOMAIN l = 1 .. Len(l) /\ DOMAIN Tail(l) = 1 .. (Len(l) - 1) /\ Head(l) = l[1]
      /\ \A i \in 1 .. (Len(l) - 1) : Tail(l)[i] = l[i + 1]
  OBVIOUS
<1>2. Head(l).mount \in Mounts /\ Head(l).to \in Bindings
  BY <1>1 DEF Binding!BindEntries, Bindings, Binding!Nothing
<1>3. ASSUME NEW i \in 1 .. Len(l) PROVE l[i].mount \in {l[1].mount} \cup {Tail(l)[j].mount : j \in 1 .. (Len(l) - 1)}
  <2>1. CASE i = 1
    BY <2>1
  <2>2. CASE i # 1
    <3>1. i - 1 \in 1 .. (Len(l) - 1) /\ (i - 1) + 1 = i
      BY <1>1, <2>2
    <3> QED BY <1>1, <3>1
  <2> QED BY <2>1, <2>2
<1>4. ASSUME NEW j \in 1 .. (Len(l) - 1) PROVE Tail(l)[j].mount \in {l[i].mount : i \in 1 .. Len(l)}
  <2>1. j + 1 \in 1 .. Len(l)
    BY <1>1
  <2> QED BY <1>1, <2>1
<1>5. 1 \in 1 .. Len(l)
  BY <1>1
<1>6. {l[i].mount : i \in 1 .. Len(l)} = {l[1].mount} \cup {Tail(l)[j].mount : j \in 1 .. (Len(l) - 1)}
  BY <1>3, <1>4, <1>5
<1> QED BY <1>1, <1>2, <1>6 DEF Binding!Named

(* ApplyNext keeps the invariant.                                          *)
LEMMA BindApplyNext ==
  ASSUME BindInv, Binding!ApplyNext
  PROVE  BindInv'
<1>0. BdTypes /\ SlotTypes /\ ListTypes /\ RecordTypes /\ OneAtATime /\ RestAgree /\ FlightReached
  BY DEF BindInv
<1> DEFINE h == Head(w5.list)
           a == [Binding!Idle EXCEPT !.mount = h.mount, !.to = h.to, !.pc = "check"]
<1>1. /\ w5.stage = "boot" /\ w5.list # <<>> /\ \A t \in Binding!Slots : Binding!At(t) = "idle"
      /\ w1' = w1 /\ w2' = w2 /\ w3' = w3
      /\ w5' = [w5 EXCEPT !.slot["one"] = a, !.list = Tail(@)]
  BY DEF Binding!ApplyNext, Binding!InFlight
<1>2. /\ Tail(w5.list) \in Seq(Binding!BindEntries) /\ h.mount \in Mounts /\ h.to \in Bindings
      /\ Binding!Named(w5.list) = {h.mount} \cup Binding!Named(Tail(w5.list))
  BY <1>0, <1>1, BindNamed DEF ListTypes
<1> HIDE DEF h
<1>3. SlotOk(a) /\ a.pc = "check" /\ a.mount = h.mount
  BY <1>2 DEF Binding!Idle, SlotOk, BindSteps, SlotFields
<1> HIDE DEF a
<1>4. BindFields \subseteq DOMAIN w5 /\ Binding!Slots \subseteq DOMAIN w5.slot /\ "one" \in Binding!Slots
  BY <1>0 DEF BdTypes, SlotTypes, Binding!Slots
<1>5. /\ BindFields \subseteq DOMAIN w5' /\ w5'.stage = w5.stage /\ w5'.list = Tail(w5.list)
      /\ w5'.limit = w5.limit
      /\ w5'.lost = w5.lost /\ w5'.wanted = w5.wanted
      /\ Binding!Slots \subseteq DOMAIN w5'.slot /\ w5'.slot["one"] = a
      /\ \A t \in Binding!Slots \ {"one"} : w5'.slot[t] = w5.slot[t]
  BY <1>1, <1>4 DEF BindFields
<1>6. BdTypes' /\ ListTypes' /\ RecordTypes'
  BY <1>0, <1>1, <1>2, <1>5 DEF BdTypes, ListTypes, RecordTypes
<1>7. SlotTypes'
  BY <1>0, <1>3, <1>5 DEF SlotTypes
<1>8. OneAtATime'
  BY <1>1, <1>5 DEF OneAtATime, Binding!At, Binding!Slots
<1>9. Sane' => Sane
  BY <1>5 DEF Sane
<1>10. ASSUME Sane', NEW m \in Mounts PROVE Pending(m)' \/ Agree(m)'
  <2>1. CASE m = h.mount
    BY <1>3, <1>4, <1>5, <2>1 DEF Pending, Binding!At
  <2>2. CASE m # h.mount /\ Pending(m)
    BY <1>1, <1>2, <1>5, <2>2 DEF Pending
  <2>3. CASE ~Pending(m)
    <3>1. Agree(m)
      BY <1>0, <1>9, <1>10, <2>3 DEF RestAgree
    <3> QED BY <1>1, <1>5, <3>1 DEF Agree
  <2> QED BY <2>1, <2>2, <2>3
<1>11. RestAgree'
  BY <1>10 DEF RestAgree
<1>12. FlightReached'
  BY <1>1, <1>3, <1>5 DEF FlightReached, Reached, Binding!At
<1> QED BY <1>6, <1>7, <1>8, <1>11, <1>12 DEF BindInv

(* Applied keeps the invariant.                                            *)
LEMMA BindApplied ==
  ASSUME BindInv, Binding!Applied
  PROVE  BindInv'
<1>0. BdTypes /\ SlotTypes /\ ListTypes /\ RecordTypes /\ OneAtATime /\ RestAgree /\ FlightReached
  BY DEF BindInv
<1> DEFINE r == w5.slot["one"]
           w == [w5.wanted EXCEPT ![r.mount] = r.to]
           stage == IF r.pc = "failed" THEN "dead" ELSE w5.stage
<1>1. /\ w5.stage = "boot" /\ r.pc \in {"done", "failed"} /\ w1' = w1 /\ w2' = w2 /\ w3' = w3
      /\ w5' = [w5 EXCEPT !.slot["one"] = Binding!Idle, !.stage = stage, !.wanted = w]
  BY DEF Binding!Applied, Binding!At
<1>2. /\ BindFields \subseteq DOMAIN w5 /\ Binding!Slots \subseteq DOMAIN w5.slot
      /\ "one" \in Binding!Slots /\ "two" \in Binding!Slots
      /\ w5.wanted \in Records /\ r.mount \in Mounts /\ r.to \in Bindings
  BY <1>0, <1>1 DEF BdTypes, SlotTypes, SlotOk, Binding!Slots
<1>3. w \in Records /\ w[r.mount] = r.to /\ \A m \in Mounts \ {r.mount} : w[m] = w5.wanted[m]
  BY <1>2 DEF Records
<1>4. stage \in {"boot", "dead"} /\ (stage = "boot" => r.pc = "done")
  BY <1>1
<1> HIDE DEF w, stage
<1>5. /\ BindFields \subseteq DOMAIN w5' /\ w5'.stage = stage /\ w5'.list = w5.list
      /\ w5'.limit = w5.limit
      /\ w5'.lost = w5.lost /\ w5'.wanted = w
      /\ Binding!Slots \subseteq DOMAIN w5'.slot /\ w5'.slot["one"] = Binding!Idle
      /\ \A t \in Binding!Slots \ {"one"} : w5'.slot[t] = w5.slot[t]
  BY <1>1, <1>2 DEF BindFields
<1>6. BdTypes' /\ ListTypes' /\ RecordTypes'
  BY <1>0, <1>1, <1>3, <1>4, <1>5 DEF BdTypes, ListTypes, RecordTypes
<1>7. SlotTypes'
  BY <1>0, <1>5, BindIdle DEF SlotTypes
<1>8. \A t \in Binding!Slots : w5'.slot[t].pc = "idle"
  BY <1>0, <1>1, <1>5, BindIdle DEF OneAtATime, Binding!At, Binding!Slots
<1>9. OneAtATime'
  BY <1>2, <1>8 DEF OneAtATime, Binding!At
<1>10. Sane' => Sane /\ r.pc = "done" /\ w5'.stage = "boot"
  BY <1>1, <1>4, <1>5 DEF Sane
<1>11. ASSUME Sane', NEW m \in Mounts PROVE Pending(m)' \/ Agree(m)'
  <2>1. CASE m = r.mount
    BY <1>0, <1>1, <1>2, <1>3, <1>5, <1>10, <1>11, <2>1 DEF FlightReached, Reached, Agree
  <2>2. CASE m # r.mount /\ m \in Binding!Named(w5.list)
    BY <1>5, <1>10, <1>11, <2>2 DEF Pending
  <2>3. CASE m # r.mount /\ m \notin Binding!Named(w5.list)
    <3>1. ~Pending(m)
      BY <1>0, <1>1, <2>3 DEF Pending, OneAtATime, Binding!At, Binding!Slots
    <3>2. Agree(m)
      BY <1>0, <1>10, <1>11, <3>1 DEF RestAgree
    <3> QED BY <1>1, <1>3, <1>5, <2>3, <3>2 DEF Agree
  <2> QED BY <2>1, <2>2, <2>3
<1>12. RestAgree'
  BY <1>11 DEF RestAgree
<1>13. FlightReached'
  BY <1>8 DEF FlightReached, Reached
<1> QED BY <1>6, <1>7, <1>9, <1>12, <1>13 DEF BindInv

(* Serve keeps the invariant.                                              *)
LEMMA BindServe ==
  ASSUME BindInv, Binding!Serve
  PROVE  BindInv'
<1>0. BdTypes /\ SlotTypes /\ ListTypes /\ RecordTypes /\ OneAtATime /\ RestAgree /\ FlightReached
  BY DEF BindInv
<1>1. /\ w5.stage = "boot" /\ w5.list = <<>> /\ (\A t \in Binding!Slots : Binding!At(t) = "idle")
      /\ w1' = w1 /\ w2' = w2 /\ w3' = w3 /\ w5' = [w5 EXCEPT !.stage = "serving"]
  BY DEF Binding!Serve, Binding!InFlight
<1>2. /\ BindFields \subseteq DOMAIN w5' /\ w5'.stage = "serving" /\ w5'.list = w5.list
      /\ w5'.limit = w5.limit
      /\ w5'.lost = w5.lost /\ w5'.wanted = w5.wanted /\ w5'.slot = w5.slot
  BY <1>0, <1>1 DEF BdTypes, BindFields
<1>3. BdTypes' /\ SlotTypes' /\ ListTypes' /\ RecordTypes'
  BY <1>0, <1>1, <1>2 DEF BdTypes, SlotTypes, ListTypes, RecordTypes
<1>4. OneAtATime'
  BY <1>0, <1>2 DEF OneAtATime, Binding!At
<1>5. \A m \in Mounts : ~Pending(m)
  BY <1>1 DEF Pending, Binding!Named
<1>6. Sane' => Sane
  BY <1>1, <1>2 DEF Sane
<1>7. RestAgree'
  BY <1>0, <1>1, <1>2, <1>5, <1>6 DEF RestAgree, Agree
<1>8. FlightReached'
  BY <1>1, <1>2 DEF FlightReached, Reached, Binding!At
<1> QED BY <1>3, <1>4, <1>7, <1>8 DEF BindInv

(* Restart keeps the invariant.                                            *)
LEMMA BindRestart ==
  ASSUME BindInv, Binding!Restart
  PROVE  BindInv'
<1>0. BdTypes /\ SlotTypes /\ ListTypes /\ RecordTypes /\ OneAtATime /\ RestAgree /\ FlightReached
  BY DEF BindInv
<1> DEFINE l == Binding!BootList(w3)
<1>1. /\ w5.stage = "serving" /\ (\A t \in Binding!Slots : Binding!At(t) = "idle")
      /\ w1' = w1 /\ w3' = w3 /\ w2' = Binding!NoBinds
      /\ w5' = [w5 EXCEPT !.stage = "boot", !.list = l, !.boots = @ + 1]
  BY DEF Binding!Restart, Binding!InFlight
<1>2. l \in Seq(Binding!BindEntries) /\ \A m \in Mounts : w3[m] # Binding!Nothing => m \in Binding!Named(l)
  BY <1>0, BindBootList DEF BdTypes, RecordTypes
<1> HIDE DEF l
<1>3. /\ BindFields \subseteq DOMAIN w5' /\ w5'.stage = "boot" /\ w5'.list = l /\ w5'.limit = w5.limit
      /\ w5'.lost = w5.lost /\ w5'.wanted = w5.wanted /\ w5'.slot = w5.slot
  BY <1>0, <1>1 DEF BdTypes, BindFields
<1>4. Binding!NoBinds \in Records
  BY DEF Binding!NoBinds, Records, Bindings
<1>5. BdTypes' /\ SlotTypes' /\ ListTypes' /\ RecordTypes'
  BY <1>0, <1>1, <1>2, <1>3, <1>4 DEF BdTypes, SlotTypes, ListTypes, RecordTypes
<1>6. OneAtATime'
  BY <1>1, <1>3 DEF OneAtATime, Binding!At, Binding!Slots
<1>7. ASSUME Sane', NEW m \in Mounts PROVE Pending(m)' \/ Agree(m)'
  <2>1. Sane
    BY <1>1, <1>3, <1>7 DEF Sane
  <2>2. ~Pending(m)
    BY <1>1 DEF Pending
  <2>3. Agree(m)
    BY <1>0, <2>1, <2>2 DEF RestAgree
  <2>4. CASE m \in Binding!Named(l)
    BY <1>3, <2>4 DEF Pending
  <2>5. CASE m \notin Binding!Named(l)
    <3>1. w3[m] = Binding!Nothing /\ Binding!NoBinds[m] = Binding!Nothing
      BY <1>2, <2>5 DEF Binding!NoBinds
    <3> QED BY <1>1, <1>3, <2>3, <3>1 DEF Agree
  <2> QED BY <2>4, <2>5
<1>8. RestAgree'
  BY <1>7 DEF RestAgree
<1>9. FlightReached'
  BY <1>1, <1>3 DEF FlightReached, Reached, Binding!At
<1> QED BY <1>5, <1>6, <1>8, <1>9 DEF BindInv

(* Removes keeps the invariant.                                            *)
LEMMA BindRemoves ==
  ASSUME BindInv, Binding!RemoveDirectory
  PROVE  BindInv'
BY DEF Binding!RemoveDirectory, BindInv, BdTypes, SlotTypes, ListTypes, RecordTypes, OneAtATime,
     RestAgree, FlightReached,
       Sane, Pending, Agree, Reached, Binding!At, Binding!Named

(* The invariant holds at the start.                                       *)
LEMMA BindInitial ==
  ASSUME Binding!BindsInit
  PROVE  BindInv
<1>1. PICK l \in BindLimits :
        w5 = [stage |-> "boot", list |-> l.initial, slot |-> [s \in Binding!Slots |-> Binding!Idle],
              wanted |-> Binding!NoBinds, count |-> 0, boots |-> 0, faults |-> 0, lost |-> FALSE,
              limit |-> l]
  BY DEF Binding!BindsInit
<1>2. /\ BindFields \subseteq DOMAIN w5 /\ w5.stage = "boot" /\ w5.list = l.initial
      /\ w5.wanted = Binding!NoBinds
      /\ w5.limit = l /\ DOMAIN w5.slot = Binding!Slots
      /\ \A s \in Binding!Slots : w5.slot[s] = Binding!Idle
  BY <1>1 DEF BindFields
<1>3. Binding!NoBinds \in Records /\ w2 = Binding!NoBinds /\ w3 = Binding!NoBinds /\ w1 \in [Mounts -> {Binding!Nothing, Binding!RealDir}]
  BY DEF Binding!NoBinds, Records, Bindings, Binding!BindsInit
<1>4. BdTypes /\ RecordTypes
  BY <1>2, <1>3 DEF BdTypes, RecordTypes
<1>5. /\ SlotFields \subseteq DOMAIN Binding!Idle /\ Binding!Idle.pc = "idle"
  BY DEF Binding!Idle, SlotFields
<1>6. SlotTypes /\ OneAtATime
  BY <1>2, <1>5 DEF SlotTypes, SlotOk, BindSteps, OneAtATime, Binding!At, Binding!Slots
<1>7. ListTypes
  BY <1>2, BindConstant DEF ListTypes, Binding!BindConstants
<1>8. RestAgree
  BY <1>2, <1>3 DEF RestAgree, Agree, Binding!NoBinds
<1>9. FlightReached
  BY <1>2, <1>5 DEF FlightReached, Reached
<1> QED BY <1>4, <1>6, <1>7, <1>8, <1>9 DEF BindInv

(* Every step keeps the invariant.                                         *)
LEMMA BindStep ==
  ASSUME BindInv, Binding!BindsNext
  PROVE  BindInv'
BY BindUnlink, BindSymlink, BindRecord, BindWrite, BindBindMount, BindAnswer, BindApplyNext,
     BindApplied, BindServe,
   BindRestart, BindRemoves DEF Binding!BindsNext

(* The invariant is strong enough.                                         *)
LEMMA BindInvImplies ==
  ASSUME BindInv
  PROVE  Binding!BindsAgree
<1>1. SlotTypes /\ RestAgree
  BY DEF BindInv
<1> QED BY <1>1 DEF Binding!BindsAgree, Binding!Settled, Binding!InFlight, RestAgree, Sane, Pending,
     Agree, Binding!Limit, Binding!At

BindPart == part = "binds" => BindInv

(* The invariant is about these variables alone.                           *)
LEMMA BindStutters ==
  ASSUME BindInv, UNCHANGED <<w1, w2, w3, w4, w5>>
  PROVE  BindInv'
BY DEF BindInv, BindFields, BindSteps, SlotFields, Bindings, Records, SlotOk, BdTypes, SlotTypes,
     ListTypes, RecordTypes, OneAtATime, Pending, Agree, Sane, RestAgree, Reached, FlightReached,
     Binding!At, Binding!BindEntries, Binding!Named, Binding!Nothing, Binding!RealDir, Binding!Slots

(* Whatever part runs, this one keeps its invariant.                       *)
LEMMA BindAlways ==
  ASSUME BindPart, [RunningNext]_partVars
  PROVE  BindPart'
<1> SUFFICES ASSUME part' = "binds" PROVE BindInv'
  BY DEF BindPart
<1>1. part = "binds"
  BY DEF RunningNext, partVars
<1>2. BindInv
  BY <1>1 DEF BindPart
<1>3. CASE Binding!BindsNext
  BY <1>2, <1>3, BindStep
<1>4. CASE UNCHANGED <<w1, w2, w3, w4, w5>>
  BY <1>2, <1>4, BindStutters
<1> QED BY <1>1, <1>3, <1>4 DEF RunningNext, partVars, From1, From3, From4, From5, From6, From7, From8,
     From10, From12, From13, From15, From17

(* Where binds do not overlap and the state file can be written, the link  *)
(* on the disk, the record in memory and the record in the file agree with *)
(* what the last answered bind asked for, for any mounts, lists and number *)
(* of restarts (crates/sealantd/src/binds.rs bind, record, apply_initial). *)
THEOREM BindsCorrect == RunningSpec => []BindsAgree
<1>1. RunningInit => BindPart
  BY BindInitial DEF RunningInit, BindPart
<1>2. BindPart /\ [RunningNext]_partVars => BindPart'
  BY BindAlways
<1>3. BindPart => BindsAgree
  BY BindInvImplies DEF BindsAgree, BindPart
<1> QED BY <1>1, <1>2, <1>3, PTL DEF RunningSpec

-------------------------------------------------------------------------------
(* RunAs: w1 is launch, w2 private, w3 fds, w4 borrowed, w5 machine.       *)

LaunchFields == {"ask", "at", "dir", "listed", "swept", "on", "child"}
Fixes == {"make", "open", "chmod", "chown"}
PrivateStages == {"look", "remove_dir_all", "remove_file"} \cup Fixes
HelperStages == {"walk", "spawn"}
FsStages == {"become", "work", "return", "refused"}
LaunchStages == {"asked", "failed", "fork", "started",
     "returned"} \cup PrivateStages \cup HelperStages \cup FsStages

(* The stages of a launcher are those of its kind of request, and whoever  *)
(* is past the first has passed the checks.                                *)
LaunchOk(r) ==
  /\ LaunchFields \subseteq DOMAIN r /\ Launch!AskOk(r.ask) /\ r.ask.user.uid \in DOMAIN w2
  /\ r.at \in LaunchStages
  /\ r.at \in PrivateStages => r.ask.kind = "person"
  /\ r.at = "fork" => r.ask.kind \in {"person", "daemon"}
  /\ r.at \in HelperStages => r.ask.kind = "helper"
  /\ r.at \in FsStages => r.ask.kind = "fs"
  /\ r.at = "work" => r.on
  /\ r.at = "fork" \/ r.at \in PrivateStages =>
       /\ \A i \in DOMAIN r.ask.secret : ~Launch!Rule(r.ask, i)
       /\ r.ask.kind = "person" => Launch!Resolves(r.ask.user)
LaunchTypes == Launchers \subseteq DOMAIN w1 /\ \A l \in Launchers : LaunchOk(w1[l])
MachineTypes == {"limit", "opened"} \subseteq DOMAIN w5 /\ w5.limit \in RunLimits /\ w5.opened \in Nat
FdTypes ==
  \A fd \in DOMAIN w3 : {"cloexec",
       "id"} \subseteq DOMAIN w3[fd] /\ w3[fd].cloexec \in BOOLEAN /\ w3[fd].id \in Nat

(* What a helper would inherit was opened after the marking began.         *)
SweptOk(r) ==
  r.at \in HelperStages =>
    /\ r.swept \in Nat /\ r.swept <= w5.opened
    /\ \A fd \in DOMAIN w3 :
         w3[fd].cloexec \/ w3[fd].id >= r.swept \/ (r.at = "walk" /\ fd \in r.listed)
Swept == \A l \in Launchers : SweptOk(w1[l])

(* A child that was started is as its request asked.                       *)
EnvOk(env) ==
  \A n \in DOMAIN env :
    /\ env[n] \in {"daemon", "proxy"} => ~Launch!withheld_from_person(n) /\ n \notin Launch!person_withheld
    /\ env[n] = "image" => ~Launch!withheld_from_person(n) /\ ~Launch!looks_secret(n)
PersonOk(c, ask) ==
  /\ c.uid = ask.user.uid /\ c.gid = ask.user.gid /\ c.groups = ask.user.groups
  /\ 0 \notin {c.uid, c.gid} \union c.groups
  /\ c.caps \subseteq (IF Launch!fowner THEN {"fowner"} ELSE {})
  /\ EnvOk(c.env)
  /\ "HOME" \notin ask.env => c.env["HOME"] = "identity"
ChildOk(r) ==
  r.at = "started" =>
    /\ r.ask.kind = "person" => PersonOk(r.child, r.ask)
    /\ \A i \in DOMAIN r.ask.secret : r.child.env[r.ask.secret[i].name] = "secret"
    /\ r.ask.kind # "fs"
    /\ \A id \in r.child.fds : r.ask.kind = "helper" /\ id >= r.swept
ChildrenOk == \A l \in Launchers : ChildOk(w1[l])

(* Threads with a borrowed identity are counted; the first of them keeps   *)
(* what the process was before.                                            *)
ThreadsIs == w4.threads = Cardinality({l \in Launchers : w1[l].at \in FsStages})
BorrowedOk ==
  /\ {"threads", "before", "dumpable"} \subseteq DOMAIN w4
  /\ w4.before \in BOOLEAN /\ w4.dumpable \in BOOLEAN
  /\ w4.dumpable => Launch!Machine.dumpable
  /\ w4.threads = 0 => w4.dumpable = Launch!Machine.dumpable
  /\ w4.threads # 0 => w4.before = Launch!Machine.dumpable

(* A descriptor of a directory no longer at the path is of an older one.   *)
PrivateOk(p) ==
  /\ {"kind", "uid", "private", "gen", "used"} \subseteq DOMAIN p
  /\ p.kind \in {"none", "dir", "file"} /\ p.gen \in Nat
PrivateTypes == \A u \in DOMAIN w2 : PrivateOk(w2[u])
DirOk(r) ==
  r.at \in {"chmod", "chown"} =>
    /\ r.dir \in Nat /\ r.dir <= w2[r.ask.user.uid].gen
    /\ r.at = "chown" /\ w2[r.ask.user.uid].kind = "dir" /\ w2[r.ask.user.uid].gen = r.dir =>
         w2[r.ask.user.uid].private
DirsOk == \A l \in Launchers : DirOk(w1[l])

(* Once somebody has prepared a person's directory it is theirs and        *)
(* private, or whoever removed or made it last is still at it.             *)
Relies(r, u) == r.ask.kind = "person" /\ r.ask.user.uid = u /\ r.at \in Fixes \cup {"fork", "started"}
Fixing(r, u) ==
  /\ r.ask.user.uid = u
  /\ \/ w2[u].kind = "none" /\ r.at = "make"
     \/ /\ w2[u].kind = "dir"
        /\ r.at = "open" \/ (r.at \in {"chmod", "chown"} /\ r.dir = w2[u].gen)
Good(u) == w2[u].kind = "dir" /\ w2[u].uid = u /\ w2[u].private
Repaired(u) ==
  (\E l \in Launchers : Relies(w1[l], u)) => Good(u) \/ \E l \in Launchers : Fixing(w1[l], u)
AllRepaired == \A u \in DOMAIN w2 : Repaired(u)

RunInv ==
  /\ LaunchTypes
  /\ MachineTypes
  /\ FdTypes
  /\ Swept
  /\ ChildrenOk
  /\ ThreadsIs
  /\ BorrowedOk
  /\ PrivateTypes
  /\ DirsOk
  /\ AllRepaired

(* One launcher takes a step and keeps what it was asked.                  *)
Moved(l, stage) ==
  /\ Launchers \subseteq DOMAIN w1' /\ \A k \in Launchers \ {l} : w1'[k] = w1[k]
  /\ LaunchFields \subseteq DOMAIN w1'[l] /\ w1'[l].ask = w1[l].ask /\ w1'[l].at = stage
SameRest(l) ==
  /\ w1'[l].dir = w1[l].dir /\ w1'[l].listed = w1[l].listed /\ w1'[l].swept = w1[l].swept
  /\ w1'[l].on = w1[l].on /\ w1'[l].child = w1[l].child
(* What becomes of a person's directory under the others' descriptors.     *)
RunKept(u) ==
  /\ w2'[u].gen >= w2[u].gen
  /\ w2'[u].gen = w2[u].gen /\ w2'[u].kind = "dir" =>
       w2[u].kind = "dir" /\ (w2[u].private => w2'[u].private)
PrivateChanges(u) ==
  /\ DOMAIN w2' = DOMAIN w2 /\ \A v \in DOMAIN w2 \ {u} : w2'[v] = w2[v]
  /\ PrivateOk(w2[u])' /\ RunKept(u)

(* A step that only moves a launcher on changes nothing else of any.       *)
LEMMA RunGoes ==
  ASSUME RunInv, NEW l \in Launchers, NEW stage, Launch!Goes(l, stage)
  PROVE  Moved(l, stage) /\ SameRest(l)
<1>1. Launchers \subseteq DOMAIN w1 /\ LaunchFields \subseteq DOMAIN w1[l]
  BY DEF RunInv, LaunchTypes, LaunchOk
<1> QED BY <1>1 DEF Launch!Goes, Moved, SameRest, LaunchFields

(* A launcher that is neither counted before nor after leaves the count.   *)
LEMMA RunUncounted ==
  ASSUME RunInv, NEW l \in Launchers, NEW stage, Moved(l, stage), w4' = w4,
         w1[l].at \in FsStages <=> stage \in FsStages
  PROVE  ThreadsIs'
<1>1. {k \in Launchers : w1'[k].at \in FsStages} = {k \in Launchers : w1[k].at \in FsStages}
  BY DEF Moved
<1> QED BY <1>1 DEF ThreadsIs, RunInv

(* Launchers' types, and what is true of those that stay where they are.   *)
LEMMA RunOthers ==
  ASSUME RunInv, NEW l \in Launchers, NEW stage, Moved(l, stage), w5' = w5, DOMAIN w2' = DOMAIN w2,
         LaunchOk(w1[l])', ChildOk(w1[l])'
  PROVE  LaunchTypes' /\ MachineTypes' /\ ChildrenOk'
<1>0. /\ LaunchTypes /\ MachineTypes /\ FdTypes /\ Swept /\ ChildrenOk /\ ThreadsIs /\ BorrowedOk
      /\ PrivateTypes /\ DirsOk /\ AllRepaired
  BY DEF RunInv
<1>1. \A k \in Launchers \ {l} : LaunchOk(w1[k])'
  BY <1>0 DEF LaunchTypes, LaunchOk, Moved, Launch!AskOk, Launch!Rule, Launch!Resolves, Launch!admit,
       Launch!Reserved
<1>2. LaunchTypes'
  BY <1>1 DEF LaunchTypes, Moved
<1>3. MachineTypes'
  BY <1>0 DEF MachineTypes
<1>4. \A k \in Launchers \ {l} : ChildOk(w1[k])'
  BY <1>0 DEF ChildrenOk, ChildOk, PersonOk, EnvOk, Moved, Launch!fowner, Launch!Machine
<1>5. ChildrenOk'
  BY <1>4 DEF ChildrenOk
<1> QED BY <1>2, <1>3, <1>5

(* A step of a launcher that prepares no directory.                        *)
LEMMA RunAside ==
  ASSUME RunInv, NEW l \in Launchers, NEW stage, Moved(l, stage), w5' = w5, w2' = w2,
         w1[l].ask.kind # "person", LaunchOk(w1[l])', ChildOk(w1[l])',
         FdTypes', Swept', ThreadsIs', BorrowedOk'
  PROVE  RunInv'
<1>0. /\ LaunchTypes /\ MachineTypes /\ FdTypes /\ Swept /\ ChildrenOk /\ ThreadsIs /\ BorrowedOk
      /\ PrivateTypes /\ DirsOk /\ AllRepaired
  BY DEF RunInv
<1>1. LaunchTypes' /\ MachineTypes' /\ ChildrenOk'
  BY RunOthers
<1>2. PrivateTypes'
  BY <1>0 DEF PrivateTypes, PrivateOk
<1>3. w1[l].at \notin PrivateStages /\ w1'[l].at \notin PrivateStages
  BY <1>0 DEF LaunchTypes, LaunchOk, Moved
<1>4. DirsOk'
  BY <1>0, <1>3 DEF DirsOk, DirOk, Moved, PrivateStages, Fixes
<1>5. ASSUME NEW u \in DOMAIN w2' PROVE Repaired(u)'
  <2>1. \A k \in Launchers : Relies(w1[k], u)' => Relies(w1[k], u)
    BY DEF Relies, Moved
  <2>2. \A k \in Launchers : Fixing(w1[k], u) => Fixing(w1[k], u)'
    BY <1>3 DEF Fixing, Moved, PrivateStages, Fixes
  <2>3. Good(u)' <=> Good(u)
    BY DEF Good
  <2> QED BY <1>0, <2>1, <2>2, <2>3 DEF AllRepaired, Repaired
<1>6. AllRepaired'
  BY <1>5 DEF AllRepaired
<1> QED BY <1>1, <1>2, <1>4, <1>6 DEF RunInv

(* A step of a launcher that prepares a person's directory: only that      *)
(* directory may change.                                                   *)
LEMMA RunPrepares ==
  ASSUME RunInv, NEW l \in Launchers, NEW stage, Moved(l, stage), w5' = w5, w3' = w3, w4' = w4,
         NEW u, u = w1[l].ask.user.uid, w1[l].ask.kind \in {"person", "daemon"}, PrivateChanges(u),
         LaunchOk(w1[l])', ChildOk(w1[l])', DirOk(w1[l])', Repaired(u)'
  PROVE  RunInv'
<1>0. /\ LaunchTypes /\ MachineTypes /\ FdTypes /\ Swept /\ ChildrenOk /\ ThreadsIs /\ BorrowedOk
      /\ PrivateTypes /\ DirsOk /\ AllRepaired
  BY DEF RunInv
<1>1. LaunchTypes' /\ MachineTypes' /\ ChildrenOk'
  BY RunOthers DEF PrivateChanges
<1>2. u \in DOMAIN w2
  BY <1>0 DEF LaunchTypes, LaunchOk
<1>3. PrivateTypes'
  BY <1>0, <1>2 DEF PrivateTypes, PrivateOk, PrivateChanges
<1>4. w1[l].at \notin FsStages \cup HelperStages /\ stage \notin FsStages \cup HelperStages
  BY <1>0 DEF LaunchTypes, LaunchOk, Moved
<1>5. ThreadsIs'
  BY <1>4, RunUncounted
<1>6. BorrowedOk' /\ FdTypes'
  BY <1>0 DEF BorrowedOk, FdTypes, Launch!Machine
<1>7. Swept'
  BY <1>0, <1>4 DEF Swept, SweptOk, Moved
<1>8. ASSUME NEW k \in Launchers \ {l} PROVE DirOk(w1[k])'
  <2>1. DirOk(w1[k]) /\ w1'[k] = w1[k] /\ w1[k].ask.user.uid \in DOMAIN w2
    BY <1>0 DEF DirsOk, LaunchTypes, LaunchOk, Moved
  <2>2. CASE w1[k].ask.user.uid # u
    BY <2>1, <2>2 DEF DirOk, PrivateChanges
  <2>3. CASE w1[k].ask.user.uid = u
    <3>1. w2[u].gen \in Nat /\ w2'[u].gen \in Nat
      BY <1>0, <1>2, <1>3 DEF PrivateTypes, PrivateOk, PrivateChanges
    <3> QED BY <2>1, <2>3, <3>1 DEF DirOk, PrivateChanges, RunKept
  <2> QED BY <2>2, <2>3
<1>9. DirsOk'
  BY <1>8 DEF DirsOk
<1>10. ASSUME NEW v \in DOMAIN w2', v # u PROVE Repaired(v)'
  <2>1. w2'[v] = w2[v] /\ v \in DOMAIN w2
    BY <1>10 DEF PrivateChanges
  <2>2. \A k \in Launchers : Relies(w1[k], v)' => Relies(w1[k], v)
    BY <1>10 DEF Relies, Moved
  <2>3. \A k \in Launchers : Fixing(w1[k], v) => Fixing(w1[k], v)'
    BY <1>10, <2>1 DEF Fixing, Moved
  <2>4. Good(v)' <=> Good(v)
    BY <2>1 DEF Good
  <2> QED BY <1>0, <2>1, <2>2, <2>3, <2>4 DEF AllRepaired, Repaired
<1>11. AllRepaired'
  BY <1>10 DEF AllRepaired
<1> QED BY <1>1, <1>3, <1>5, <1>6, <1>7, <1>9, <1>11 DEF RunInv

(* A launcher past the checks stays so.                                    *)
LEMMA RunPassed ==
  ASSUME RunInv, NEW l \in Launchers, NEW stage \in LaunchStages, Moved(l, stage), w5' = w5,
         DOMAIN w2' = DOMAIN w2,
         stage \in PrivateStages => w1[l].ask.kind = "person",
         stage = "fork" => w1[l].ask.kind \in {"person", "daemon"},
         stage \in HelperStages => w1[l].ask.kind = "helper",
         stage \in FsStages => w1[l].ask.kind = "fs",
         stage = "work" => w1'[l].on,
         stage = "fork" \/ stage \in PrivateStages =>
           /\ \A i \in DOMAIN w1[l].ask.secret : ~Launch!Rule(w1[l].ask, i)
           /\ w1[l].ask.kind = "person" => Launch!Resolves(w1[l].ask.user)
  PROVE  LaunchOk(w1[l])'
<1>1. LaunchOk(w1[l])
  BY DEF RunInv, LaunchTypes
<1>2. \A i \in DOMAIN w1[l].ask.secret : Launch!Rule(w1[l].ask, i)' <=> Launch!Rule(w1[l].ask, i)
  BY DEF Launch!Rule, Moved
<1>3. Launch!Resolves(w1[l].ask.user)' <=> Launch!Resolves(w1[l].ask.user)
  BY DEF Launch!Resolves, Launch!admit, Launch!Reserved, Moved
<1> QED BY <1>1, <1>2, <1>3 DEF LaunchOk, Moved, Launch!AskOk

(* A directory that stands as it did is still repaired, unless the one     *)
(* that was at it has left or another has come to rely on it.              *)
LEMMA RunSteady ==
  ASSUME RunInv, NEW l \in Launchers, NEW stage, Moved(l, stage),
         NEW u \in DOMAIN w2, u = w1[l].ask.user.uid,
         w2'[u].kind = w2[u].kind, w2'[u].uid = w2[u].uid,
         w2'[u].private = w2[u].private, w2'[u].gen = w2[u].gen,
         Relies(w1[l], u)' => Relies(w1[l], u), ~Fixing(w1[l], u)
  PROVE  Repaired(u)'
<1>1. Repaired(u)
  BY DEF RunInv, AllRepaired
<1>2. \A k \in Launchers : Relies(w1[k], u)' => Relies(w1[k], u)
  BY DEF Relies, Moved
<1>3. \A k \in Launchers : Fixing(w1[k], u) => Fixing(w1[k], u)'
  BY DEF Fixing, Moved
<1>4. Good(u)' <=> Good(u)
  BY DEF Good
<1> QED BY <1>1, <1>2, <1>3, <1>4 DEF Repaired

(* A step in private_dir.                                                  *)
LEMMA RunPrivate ==
  ASSUME RunInv, NEW l \in Launchers, NEW stage \in PrivateStages \cup {"fork", "failed"}, Moved(l, stage),
         w1[l].at \in PrivateStages, w5' = w5, w3' = w3, w4' = w4,
         NEW u, u = w1[l].ask.user.uid, PrivateChanges(u), DirOk(w1[l])', Repaired(u)'
  PROVE  RunInv'
<1>1. LaunchOk(w1[l]) /\ w1[l].ask.kind = "person"
  BY DEF RunInv, LaunchTypes, LaunchOk
<1>2. /\ stage \in LaunchStages /\ stage \notin HelperStages \cup FsStages
      /\ stage \notin {"work", "started"}
  BY DEF LaunchStages, PrivateStages, HelperStages, FsStages, Fixes
<1>3. DOMAIN w2' = DOMAIN w2
  BY DEF PrivateChanges
<1>4. LaunchOk(w1[l])'
  BY <1>1, <1>2, <1>3, RunPassed DEF LaunchOk
<1>5. ChildOk(w1[l])'
  BY <1>2 DEF ChildOk, Moved
<1> QED BY <1>1, <1>4, <1>5, RunPrepares

(* Before a directory is there, whoever prepares one is at it.             *)
LEMMA RunNoFile ==
  ASSUME RunInv, NEW l \in Launchers, w1[l].at \in Fixes, NEW u, u = w1[l].ask.user.uid
  PROVE  /\ u \in DOMAIN w2 /\ PrivateOk(w2[u]) /\ w2[u].kind \in {"none", "dir"}
         /\ Good(u) \/ \E k \in Launchers : Fixing(w1[k], u)
<1>1. LaunchOk(w1[l]) /\ Relies(w1[l], u)
  BY DEF RunInv, LaunchTypes, LaunchOk, Relies, PrivateStages
<1>2. u \in DOMAIN w2 /\ Repaired(u) /\ PrivateOk(w2[u])
  BY <1>1 DEF RunInv, AllRepaired, LaunchOk, PrivateTypes
<1>3. Good(u) \/ \E k \in Launchers : Fixing(w1[k], u)
  BY <1>1, <1>2 DEF Repaired
<1> QED BY <1>2, <1>3 DEF Good, Fixing

(* Ask keeps the invariant.                                                *)
LEMMA RunAsk ==
  ASSUME RunInv, NEW l \in Launchers, Launch!Ask(l)
  PROVE  RunInv'
<1>0. /\ LaunchTypes /\ MachineTypes /\ FdTypes /\ Swept /\ ChildrenOk /\ ThreadsIs /\ BorrowedOk
      /\ PrivateTypes /\ DirsOk /\ AllRepaired
  BY DEF RunInv
<1>1. LaunchOk(w1[l]) /\ w1[l].ask.user.uid \in DOMAIN w2
  BY <1>0 DEF LaunchTypes, LaunchOk
<1>u. PICK u : u = w1[l].ask.user.uid
  OBVIOUS
<1>v. u \in DOMAIN w2 /\ PrivateOk(w2[u])
  BY <1>0, <1>1, <1>u DEF PrivateTypes
<1>2. /\ w1[l].at = "asked" /\ w1[l].ask.kind \in {"person", "daemon"}
      /\ w2' = w2 /\ w3' = w3 /\ w4' = w4 /\ w5' = w5
  BY DEF Launch!Ask, Launch!At
<1>3. PICK stage \in {"failed", "fork", "look"} :
        /\ Launch!Goes(l, stage)
        /\ stage = "fork" =>
             w1[l].ask.kind = "daemon" /\ \A i \in DOMAIN w1[l].ask.secret : ~Launch!Rule(w1[l].ask, i)
        /\ stage = "look" =>
             /\ w1[l].ask.kind = "person" /\ Launch!Resolves(w1[l].ask.user)
             /\ \A i \in DOMAIN w1[l].ask.secret : ~Launch!Rule(w1[l].ask, i)
  BY <1>2 DEF Launch!Ask, Launch!Fails, Launch!IsPerson
<1>4. Moved(l, stage) /\ SameRest(l)
  BY <1>3, RunGoes
<1>5. LaunchOk(w1[l])'
  <2>1. /\ stage \in LaunchStages /\ (stage \in PrivateStages => stage = "look")
        /\ stage \notin HelperStages \cup FsStages /\ stage # "work"
    BY DEF LaunchStages, PrivateStages, HelperStages, FsStages, Fixes
  <2> QED BY <1>2, <1>3, <1>4, <2>1, RunPassed
<1>6. ChildOk(w1[l])' /\ DirOk(w1[l])'
  BY <1>3, <1>4 DEF ChildOk, DirOk, Moved
<1>7. PrivateChanges(u)
  BY <1>v, <1>2 DEF PrivateChanges, PrivateOk, RunKept
<1>8. (Relies(w1[l], u)' => Relies(w1[l], u)) /\ ~Fixing(w1[l], u)
  BY <1>2, <1>3, <1>4 DEF Relies, Fixing, Moved, Fixes
<1>9. Repaired(u)'
  BY <1>u, <1>v, <1>2, <1>4, <1>8, RunSteady
<1> QED BY <1>u, <1>2, <1>4, <1>5, <1>6, <1>7, <1>9, RunPrepares

(* Look keeps the invariant.                                               *)
LEMMA RunLook ==
  ASSUME RunInv, NEW l \in Launchers, Launch!Look(l)
  PROVE  RunInv'
<1>0. /\ LaunchTypes /\ MachineTypes /\ FdTypes /\ Swept /\ ChildrenOk /\ ThreadsIs /\ BorrowedOk
      /\ PrivateTypes /\ DirsOk /\ AllRepaired
  BY DEF RunInv
<1>1. LaunchOk(w1[l]) /\ w1[l].ask.user.uid \in DOMAIN w2
  BY <1>0 DEF LaunchTypes, LaunchOk
<1>u. PICK u : u = w1[l].ask.user.uid
  OBVIOUS
<1>v. u \in DOMAIN w2 /\ PrivateOk(w2[u])
  BY <1>0, <1>1, <1>u DEF PrivateTypes
<1>2. /\ w1[l].at = "look"
      /\ w2' = w2 /\ w3' = w3 /\ w4' = w4 /\ w5' = w5
  BY DEF Launch!Look, Launch!At
<1>3. PICK stage \in {"fork", "open", "make", "remove_dir_all", "remove_file"} :
        /\ Launch!Goes(l, stage)
        /\ stage = "fork" => Good(u)
        /\ stage = "open" => w2[u].kind = "dir"
        /\ stage = "make" => w2[u].kind = "none"
  BY <1>u DEF Launch!Look, Launch!There, Launch!Uid, Good
<1>4. Moved(l, stage)
  BY <1>3, RunGoes
<1>5. stage \in PrivateStages \cup {"fork", "failed"} /\ w1[l].at \in PrivateStages
  BY <1>2 DEF PrivateStages, Fixes
<1>6. DirOk(w1[l])'
  BY <1>3, <1>4 DEF DirOk, Moved
<1>7. PrivateChanges(u)
  BY <1>v, <1>2 DEF PrivateChanges, PrivateOk, RunKept
<1>8. Repaired(u)'
  <2>1. CASE stage = "fork"
    BY <1>2, <1>3, <2>1 DEF Repaired, Good
  <2>2. CASE stage \in {"open", "make"}
    BY <1>u, <1>2, <1>3, <1>4, <2>2 DEF Repaired, Fixing, Moved
  <2>3. CASE stage \in {"remove_dir_all", "remove_file"}
    <3>1. ~Relies(w1[l], u)' /\ ~Fixing(w1[l], u)
      BY <1>2, <1>4, <2>3 DEF Relies, Fixing, Moved, Fixes
    <3> QED BY <1>u, <1>v, <1>2, <1>4, <3>1, RunSteady
  <2> QED BY <2>1, <2>2, <2>3
<1> QED BY <1>u, <1>2, <1>4, <1>5, <1>6, <1>7, <1>8, RunPrivate

(* Clear keeps the invariant.                                              *)
LEMMA RunClear ==
  ASSUME RunInv, NEW l \in Launchers, Launch!Clear(l)
  PROVE  RunInv'
<1>0. /\ LaunchTypes /\ MachineTypes /\ FdTypes /\ Swept /\ ChildrenOk /\ ThreadsIs /\ BorrowedOk
      /\ PrivateTypes /\ DirsOk /\ AllRepaired
  BY DEF RunInv
<1>1. LaunchOk(w1[l]) /\ w1[l].ask.user.uid \in DOMAIN w2
  BY <1>0 DEF LaunchTypes, LaunchOk
<1>u. PICK u : u = w1[l].ask.user.uid
  OBVIOUS
<1>v. u \in DOMAIN w2 /\ PrivateOk(w2[u])
  BY <1>0, <1>1, <1>u DEF PrivateTypes
<1>2. /\ w1[l].at \in {"remove_dir_all", "remove_file"}
      /\ w3' = w3 /\ w4' = w4 /\ w5' = w5
  BY DEF Launch!Clear
<1>3. w1[l].at \in PrivateStages /\ w1[l].at \notin Fixes
  BY <1>2 DEF PrivateStages, Fixes
<1>4. CASE w2' = w2 /\ Launch!Goes(l, "failed")
  <2>1. Moved(l, "failed")
    BY <1>4, RunGoes
  <2>2. PrivateChanges(u)
    BY <1>v, <1>4 DEF PrivateChanges, PrivateOk, RunKept
  <2>3. DirOk(w1[l])' /\ ~Relies(w1[l], u)' /\ ~Fixing(w1[l], u)
    BY <1>2, <2>1 DEF DirOk, Moved, Relies, Fixing, Fixes
  <2>4. Repaired(u)'
    BY <1>u, <1>v, <1>4, <2>1, <2>3, RunSteady
  <2> QED BY <1>u, <1>2, <1>3, <2>1, <2>2, <2>3, <2>4, RunPrivate
<1>5. CASE w2' = [w2 EXCEPT ![u].kind = "none"] /\ Launch!Goes(l, "make")
  <2>1. Moved(l, "make") /\ "make" \in PrivateStages
    BY <1>5, RunGoes DEF PrivateStages, Fixes
  <2>2. PrivateChanges(u)
    BY <1>v, <1>5 DEF PrivateChanges, PrivateOk, RunKept
  <2>3. DirOk(w1[l])' /\ Fixing(w1[l], u)'
    BY <1>u, <1>v, <1>5, <2>1 DEF DirOk, Moved, Fixing, PrivateOk
  <2>4. Repaired(u)'
    BY <2>3 DEF Repaired
  <2> QED BY <1>u, <1>2, <1>3, <2>1, <2>2, <2>3, <2>4, RunPrivate
<1> QED BY <1>u, <1>4, <1>5 DEF Launch!Clear, Launch!Fails, Launch!Uid

(* Make keeps the invariant.                                               *)
LEMMA RunMake ==
  ASSUME RunInv, NEW l \in Launchers, Launch!Make(l)
  PROVE  RunInv'
<1>0. /\ LaunchTypes /\ MachineTypes /\ FdTypes /\ Swept /\ ChildrenOk /\ ThreadsIs /\ BorrowedOk
      /\ PrivateTypes /\ DirsOk /\ AllRepaired
  BY DEF RunInv
<1>1. LaunchOk(w1[l]) /\ w1[l].ask.user.uid \in DOMAIN w2
  BY <1>0 DEF LaunchTypes, LaunchOk
<1>u. PICK u : u = w1[l].ask.user.uid
  OBVIOUS
<1>v. u \in DOMAIN w2 /\ PrivateOk(w2[u])
  BY <1>0, <1>1, <1>u DEF PrivateTypes
<1>2. /\ w1[l].at = "make" /\ Launch!Goes(l, "open")
      /\ w3' = w3 /\ w4' = w4 /\ w5' = w5
  BY DEF Launch!Make, Launch!At
<1>3. w1[l].at \in PrivateStages /\ w1[l].at \in Fixes /\ "open" \in PrivateStages
  BY <1>2 DEF PrivateStages, Fixes
<1>4. w2[u].kind \in {"none", "dir"}
  BY <1>u, <1>3, RunNoFile
<1>5. Moved(l, "open")
  BY <1>2, RunGoes
<1>6. PrivateChanges(u) /\ w2'[u].kind = "dir"
  BY <1>u, <1>v, <1>4 DEF Launch!Make, Launch!There, Launch!Uid, PrivateChanges, PrivateOk, RunKept
<1>7. DirOk(w1[l])' /\ Fixing(w1[l], u)'
  BY <1>u, <1>5, <1>6 DEF DirOk, Moved, Fixing
<1>8. Repaired(u)'
  BY <1>7 DEF Repaired
<1> QED BY <1>u, <1>2, <1>3, <1>5, <1>6, <1>7, <1>8, RunPrivate

(* OpenDir keeps the invariant.                                            *)
LEMMA RunOpenDir ==
  ASSUME RunInv, NEW l \in Launchers, Launch!OpenDir(l)
  PROVE  RunInv'
<1>0. /\ LaunchTypes /\ MachineTypes /\ FdTypes /\ Swept /\ ChildrenOk /\ ThreadsIs /\ BorrowedOk
      /\ PrivateTypes /\ DirsOk /\ AllRepaired
  BY DEF RunInv
<1>1. LaunchOk(w1[l]) /\ w1[l].ask.user.uid \in DOMAIN w2
  BY <1>0 DEF LaunchTypes, LaunchOk
<1>u. PICK u : u = w1[l].ask.user.uid
  OBVIOUS
<1>v. u \in DOMAIN w2 /\ PrivateOk(w2[u])
  BY <1>0, <1>1, <1>u DEF PrivateTypes
<1>2. /\ w1[l].at = "open"
      /\ w2' = w2 /\ w3' = w3 /\ w4' = w4 /\ w5' = w5
  BY DEF Launch!OpenDir, Launch!At
<1>3. w1[l].at \in PrivateStages /\ w1[l].at \in Fixes
  BY <1>2 DEF PrivateStages, Fixes
<1>4. w2[u].kind \in {"none", "dir"} /\ (Good(u) \/ \E k \in Launchers : Fixing(w1[k], u))
  BY <1>u, <1>3, RunNoFile
<1>5. PICK stage \in {"chmod", "failed"} :
        /\ Moved(l, stage) /\ w1'[l].dir = w2[u].gen
        /\ stage = "chmod" <=> w2[u].kind = "dir"
  <2>1. Launchers \subseteq DOMAIN w1 /\ LaunchFields \subseteq DOMAIN w1[l]
    BY <1>0 DEF LaunchTypes, LaunchOk
  <2> QED BY <1>u, <2>1 DEF Launch!OpenDir, Launch!There, Launch!Uid, Moved, LaunchFields
<1>6. stage \in PrivateStages \cup {"fork", "failed"}
  BY DEF PrivateStages, Fixes
<1>7. PrivateChanges(u)
  BY <1>v, <1>2 DEF PrivateChanges, PrivateOk, RunKept
<1>8. DirOk(w1[l])'
  BY <1>u, <1>v, <1>2, <1>5 DEF DirOk, Moved, PrivateOk
<1>9. Repaired(u)'
  <2>1. CASE stage = "chmod"
    BY <1>u, <1>2, <1>5, <2>1 DEF Repaired, Fixing, Moved
  <2>2. CASE stage = "failed"
    <3>1. ~Fixing(w1[l], u) /\ ~Relies(w1[l], u)'
      BY <1>2, <1>4, <1>5, <2>2 DEF Fixing, Relies, Moved, Fixes
    <3> QED BY <1>u, <1>v, <1>2, <1>5, <3>1, RunSteady
  <2> QED BY <2>1, <2>2
<1> QED BY <1>u, <1>2, <1>3, <1>5, <1>6, <1>7, <1>8, <1>9, RunPrivate

(* SetMode keeps the invariant.                                            *)
LEMMA RunSetMode ==
  ASSUME RunInv, NEW l \in Launchers, Launch!SetMode(l)
  PROVE  RunInv'
<1>0. /\ LaunchTypes /\ MachineTypes /\ FdTypes /\ Swept /\ ChildrenOk /\ ThreadsIs /\ BorrowedOk
      /\ PrivateTypes /\ DirsOk /\ AllRepaired
  BY DEF RunInv
<1>1. LaunchOk(w1[l]) /\ w1[l].ask.user.uid \in DOMAIN w2
  BY <1>0 DEF LaunchTypes, LaunchOk
<1>u. PICK u : u = w1[l].ask.user.uid
  OBVIOUS
<1>v. u \in DOMAIN w2 /\ PrivateOk(w2[u])
  BY <1>0, <1>1, <1>u DEF PrivateTypes
<1>2. /\ w1[l].at = "chmod" /\ Launch!Goes(l, "chown")
      /\ w3' = w3 /\ w4' = w4 /\ w5' = w5
  BY DEF Launch!SetMode, Launch!At
<1>3. w1[l].at \in PrivateStages /\ w1[l].at \in Fixes /\ "chown" \in PrivateStages
  BY <1>2 DEF PrivateStages, Fixes
<1>4. Moved(l, "chown") /\ SameRest(l)
  BY <1>2, RunGoes
<1>5. w1[l].dir \in Nat /\ w1[l].dir <= w2[u].gen
  BY <1>u, <1>0, <1>2 DEF DirsOk, DirOk
<1>6. CASE w2[u].kind = "dir" /\ w2[u].gen = w1[l].dir
  <2>1. w2' = [w2 EXCEPT ![u].private = TRUE]
    BY <1>u, <1>6 DEF Launch!SetMode, Launch!Stands, Launch!There, Launch!Uid
  <2>2. PrivateChanges(u)
    BY <1>v, <2>1 DEF PrivateChanges, PrivateOk, RunKept
  <2>3. DirOk(w1[l])' /\ Fixing(w1[l], u)'
    BY <1>u, <1>v, <1>4, <1>5, <1>6, <2>1 DEF DirOk, Moved, SameRest, Fixing, PrivateOk
  <2>4. Repaired(u)'
    BY <2>3 DEF Repaired
  <2> QED BY <1>u, <1>2, <1>3, <1>4, <2>2, <2>3, <2>4, RunPrivate
<1>7. CASE ~(w2[u].kind = "dir" /\ w2[u].gen = w1[l].dir)
  <2>1. w2' = w2
    BY <1>u, <1>7 DEF Launch!SetMode, Launch!Stands, Launch!There, Launch!Uid
  <2>2. PrivateChanges(u)
    BY <1>v, <2>1 DEF PrivateChanges, PrivateOk, RunKept
  <2>3. DirOk(w1[l])'
    BY <1>u, <1>4, <1>5, <1>7, <2>1 DEF DirOk, Moved, SameRest
  <2>4. Relies(w1[l], u) /\ ~Fixing(w1[l], u)
    BY <1>u, <1>1, <1>2, <1>3, <1>7 DEF Relies, Fixing, LaunchOk
  <2>5. Repaired(u)'
    BY <1>u, <1>v, <1>4, <2>1, <2>4, RunSteady
  <2> QED BY <1>u, <1>2, <1>3, <1>4, <2>2, <2>3, <2>5, RunPrivate
<1> QED BY <1>6, <1>7

(* Chown keeps the invariant.                                              *)
LEMMA RunChown ==
  ASSUME RunInv, NEW l \in Launchers, Launch!Chown(l)
  PROVE  RunInv'
<1>0. /\ LaunchTypes /\ MachineTypes /\ FdTypes /\ Swept /\ ChildrenOk /\ ThreadsIs /\ BorrowedOk
      /\ PrivateTypes /\ DirsOk /\ AllRepaired
  BY DEF RunInv
<1>1. LaunchOk(w1[l]) /\ w1[l].ask.user.uid \in DOMAIN w2
  BY <1>0 DEF LaunchTypes, LaunchOk
<1>u. PICK u : u = w1[l].ask.user.uid
  OBVIOUS
<1>v. u \in DOMAIN w2 /\ PrivateOk(w2[u])
  BY <1>0, <1>1, <1>u DEF PrivateTypes
<1>2. /\ w1[l].at = "chown" /\ Launch!Goes(l, "fork")
      /\ w3' = w3 /\ w4' = w4 /\ w5' = w5
  BY DEF Launch!Chown, Launch!At
<1>3. w1[l].at \in PrivateStages /\ w1[l].at \in Fixes
  BY <1>2 DEF PrivateStages, Fixes
<1>4. Moved(l, "fork") /\ DirOk(w1[l])'
  BY <1>2, RunGoes DEF DirOk, Moved
<1>5. CASE w2[u].kind = "dir" /\ w2[u].gen = w1[l].dir
  <2>1. w2' = [w2 EXCEPT ![u].uid = u] /\ w2[u].private
    BY <1>u, <1>0, <1>2, <1>5 DEF Launch!Chown, Launch!Stands, Launch!There, Launch!Uid, DirsOk, DirOk
  <2>2. PrivateChanges(u)
    BY <1>v, <2>1 DEF PrivateChanges, PrivateOk, RunKept
  <2>3. Good(u)'
    BY <1>v, <1>5, <2>1 DEF Good, PrivateOk
  <2>4. Repaired(u)'
    BY <2>3 DEF Repaired
  <2> QED BY <1>u, <1>2, <1>3, <1>4, <2>2, <2>4, RunPrivate
<1>6. CASE ~(w2[u].kind = "dir" /\ w2[u].gen = w1[l].dir)
  <2>1. w2' = w2
    BY <1>u, <1>6 DEF Launch!Chown, Launch!Stands, Launch!There, Launch!Uid
  <2>2. PrivateChanges(u)
    BY <1>v, <2>1 DEF PrivateChanges, PrivateOk, RunKept
  <2>3. Relies(w1[l], u) /\ ~Fixing(w1[l], u)
    BY <1>u, <1>1, <1>2, <1>3, <1>6 DEF Relies, Fixing, LaunchOk
  <2>4. Repaired(u)'
    BY <1>u, <1>v, <1>4, <2>1, <2>3, RunSteady
  <2> QED BY <1>u, <1>2, <1>3, <1>4, <2>2, <2>4, RunPrivate
<1> QED BY <1>5, <1>6

(* Between fork and exec: a child that got through every step runs as the  *)
(* person, and holds no capability but the one it may.                     *)
ChildFields == {"uid", "gid", "groups", "caps", "keep", "ok"}
(* What a step between fork and exec changes.                              *)
LEMMA RunStepped ==
  ASSUME NEW c, ChildFields \subseteq DOMAIN c, c.ok \in BOOLEAN, NEW u, NEW broken,
         NEW step \in {"setgroups", "setgid", "keepcaps", "setuid"}, NEW r, r = Launch!Step(c, step, u,
              broken)
  PROVE  /\ ChildFields \subseteq DOMAIN r /\ r.ok \in BOOLEAN
         /\ r.ok =>
              /\ c.ok
              /\ r.groups = IF step = "setgroups" THEN u.groups ELSE c.groups
              /\ r.gid = IF step = "setgid" THEN u.gid ELSE c.gid
              /\ r.keep = IF step = "keepcaps" THEN Launch!fowner ELSE c.keep
              /\ r.uid = IF step = "setuid" THEN u.uid ELSE c.uid
              /\ r.caps = IF step = "setuid" /\ ~c.keep THEN {} ELSE c.caps
BY DEF Launch!Step, ChildFields

(* What the last of them, which narrows the capabilities, changes.         *)
LEMMA RunNarrowed ==
  ASSUME NEW c, ChildFields \subseteq DOMAIN c, c.ok \in BOOLEAN, NEW u, NEW broken,
         NEW r, r = Launch!Step(c, "keep_only_fowner", u, broken)
  PROVE  r.ok =>
           /\ c.ok /\ r.groups = c.groups /\ r.gid = c.gid /\ r.uid = c.uid
           /\ r.caps = c.caps \/ Launch!fowner
           /\ Launch!fowner => r.caps \subseteq {"fowner"}
<1>1. r = IF ~c.ok \/ "keep_only_fowner" \in broken THEN [c EXCEPT !.ok = FALSE] ELSE Launch!KeepOnlyFowner(c, broken)
  BY DEF Launch!Step
<1> QED BY <1>1 DEF Launch!KeepOnlyFowner, ChildFields

(* A child that got through all of them runs as the person.                *)
LEMMA RunApplied ==
  ASSUME NEW u, NEW broken, NEW c, c = Launch!ApplySteps(u, broken), c.ok
  PROVE  /\ c.uid = u.uid /\ c.gid = u.gid /\ c.groups = u.groups
         /\ c.caps \subseteq (IF Launch!fowner THEN {"fowner"} ELSE {})
<1>0. ChildFields \subseteq DOMAIN Launch!Daemon /\ Launch!Daemon.ok \in BOOLEAN
  BY DEF Launch!Daemon, ChildFields
<1>1. PICK a : a = Launch!Step(Launch!Daemon, "setgroups", u, broken)
  OBVIOUS
<1>2. PICK b : b = Launch!Step(a, "setgid", u, broken)
  OBVIOUS
<1>3. PICK d : d = Launch!Step(b, "keepcaps", u, broken)
  OBVIOUS
<1>4. PICK e : e = Launch!Step(d, "setuid", u, broken)
  OBVIOUS
<1>5. c = Launch!Step(e, "keep_only_fowner", u, broken)
  BY <1>1, <1>2, <1>3, <1>4 DEF Launch!ApplySteps
<1>a. ChildFields \subseteq DOMAIN a /\ a.ok \in BOOLEAN /\ (a.ok => a.groups = u.groups)
  BY <1>0, <1>1, RunStepped
<1>b. ChildFields \subseteq DOMAIN b /\ b.ok \in BOOLEAN /\ (b.ok => b.groups = u.groups /\ b.gid = u.gid)
  BY <1>a, <1>2, RunStepped
<1>d. /\ ChildFields \subseteq DOMAIN d /\ d.ok \in BOOLEAN
      /\ d.ok => d.groups = u.groups /\ d.gid = u.gid /\ d.keep = Launch!fowner
  BY <1>b, <1>3, RunStepped
<1>e. /\ ChildFields \subseteq DOMAIN e /\ e.ok \in BOOLEAN
      /\ e.ok => e.groups = u.groups /\ e.gid = u.gid /\ e.uid = u.uid /\ (~Launch!fowner => e.caps = {})
  BY <1>d, <1>4, RunStepped
<1> QED BY <1>e, <1>5, RunNarrowed

(* The environment: what was laid over last is what stands.                *)
LEMMA RunEnv ==
  ASSUME NEW l \in Launchers, \A i \in DOMAIN w1[l].ask.secret : ~Launch!Rule(w1[l].ask, i),
         NEW env, env = Launch!Env(l)
  PROVE  /\ \A i \in DOMAIN w1[l].ask.secret : env[w1[l].ask.secret[i].name] = "secret"
         /\ Launch!IsPerson(l) => EnvOk(env) /\ ("HOME" \notin w1[l].ask.env => env["HOME"] = "identity")
<1>0. PICK ask : ask = w1[l].ask
  OBVIOUS
<1>1. PICK base : base = Launch!From({n \in Launch!child_env : Launch!inherited(l, n)}, "daemon")
  OBVIOUS
<1>2. PICK image : image = Launch!Overlaid(base, Launch!From(Launch!person_env, "image"))
  OBVIOUS
<1>3. PICK person : person = IF Launch!IsPerson(l) THEN Launch!Overlaid(image,
     Launch!From(Launch!IDENTITY_KEYS, "identity")) ELSE base
  OBVIOUS
<1>4. PICK requested : requested = Launch!Overlaid(person, Launch!From(ask.env, "request"))
  OBVIOUS
<1>5. PICK asked : asked = Launch!Overlaid(requested, Launch!From(Launch!Secrets(ask), "secret"))
  OBVIOUS
<1>6. env = Launch!Overlaid(asked, Launch!From({n \in Launch!PROXY_ENV_KEYS : Launch!inherited(l, n)},
     "proxy"))
  BY <1>0, <1>1, <1>2, <1>3, <1>4, <1>5 DEF Launch!Env
<1>a. /\ DOMAIN base = {n \in Launch!child_env : Launch!inherited(l, n)}
      /\ \A n \in DOMAIN base : base[n] = "daemon"
  BY <1>1 DEF Launch!From
<1>b. /\ DOMAIN image = DOMAIN base \cup Launch!person_env
      /\ \A n \in DOMAIN image : image[n] = IF n \in Launch!person_env THEN "image" ELSE base[n]
  BY <1>2 DEF Launch!Overlaid, Launch!From
<1>c. Launch!IsPerson(l) =>
        /\ DOMAIN person = DOMAIN image \cup Launch!IDENTITY_KEYS
        /\ \A n \in DOMAIN person : person[n] = IF n \in Launch!IDENTITY_KEYS THEN "identity" ELSE image[n]
  BY <1>3 DEF Launch!Overlaid, Launch!From
<1>d. /\ DOMAIN requested = DOMAIN person \cup ask.env
      /\ \A n \in DOMAIN requested : requested[n] = IF n \in ask.env THEN "request" ELSE person[n]
  BY <1>4 DEF Launch!Overlaid, Launch!From
<1>e. /\ DOMAIN asked = DOMAIN requested \cup Launch!Secrets(ask)
      /\ \A n \in DOMAIN asked : asked[n] = IF n \in Launch!Secrets(ask) THEN "secret" ELSE requested[n]
  BY <1>5 DEF Launch!Overlaid, Launch!From
<1> DEFINE P == {n \in Launch!PROXY_ENV_KEYS : Launch!inherited(l, n)}
<1>f. /\ DOMAIN env = DOMAIN asked \cup P
      /\ \A n \in DOMAIN env : env[n] = IF n \in P THEN "proxy" ELSE asked[n]
  BY <1>6 DEF Launch!Overlaid, Launch!From
<1>7. \A n \in Launch!Secrets(ask) : n \notin Launch!PROXY_ENV_KEYS /\ n \notin Launch!IDENTITY_KEYS
  BY <1>0 DEF Launch!Secrets, Launch!Rule
<1>8. \A n \in Launch!Secrets(ask) : env[n] = "secret"
  BY <1>e, <1>f, <1>7
<1>9. ASSUME Launch!IsPerson(l) PROVE EnvOk(env)
  <2>1. \A n \in DOMAIN base : ~Launch!withheld_from_person(n) /\ n \notin Launch!person_withheld
    BY <1>9, <1>a DEF Launch!inherited
  <2>2. \A n \in P : ~Launch!withheld_from_person(n) /\ n \notin Launch!person_withheld
    BY <1>9 DEF Launch!inherited
  <2>3. \A n \in Launch!person_env : ~Launch!withheld_from_person(n) /\ ~Launch!looks_secret(n)
    BY DEF Launch!person_env
  <2>4. ASSUME NEW n \in DOMAIN env, env[n] \in {"daemon", "proxy"} PROVE n \in DOMAIN base \/ n \in P
    BY <1>9, <2>4, <1>a, <1>b, <1>c, <1>d, <1>e, <1>f
  <2>5. ASSUME NEW n \in DOMAIN env, env[n] = "image" PROVE n \in Launch!person_env
    BY <1>9, <2>5, <1>a, <1>b, <1>c, <1>d, <1>e, <1>f
  <2> HIDE DEF P
  <2> QED BY <2>1, <2>2, <2>3, <2>4, <2>5 DEF EnvOk
<1>10. ASSUME Launch!IsPerson(l), "HOME" \notin ask.env PROVE env["HOME"] = "identity"
  <2>1. "HOME" \in Launch!IDENTITY_KEYS /\ "HOME" \notin Launch!PROXY_ENV_KEYS
    BY DEF Launch!IDENTITY_KEYS, Launch!PROXY_ENV_KEYS
  <2>2. "HOME" \notin Launch!Secrets(ask)
    BY <1>7, <2>1
  <2> QED BY <1>10, <1>c, <1>d, <1>e, <1>f, <2>1, <2>2
<1> QED BY <1>0, <1>8, <1>9, <1>10 DEF Launch!Secrets

(* Exec keeps the invariant.                                               *)
LEMMA RunExec ==
  ASSUME RunInv, NEW l \in Launchers, Launch!Exec(l)
  PROVE  RunInv'
<1>0. /\ LaunchTypes /\ MachineTypes /\ FdTypes /\ Swept /\ ChildrenOk /\ ThreadsIs /\ BorrowedOk
      /\ PrivateTypes /\ DirsOk /\ AllRepaired
  BY DEF RunInv
<1>1. LaunchOk(w1[l]) /\ w1[l].ask.user.uid \in DOMAIN w2
  BY <1>0 DEF LaunchTypes, LaunchOk
<1>u. PICK u : u = w1[l].ask.user.uid
  OBVIOUS
<1>v. u \in DOMAIN w2 /\ PrivateOk(w2[u])
  BY <1>0, <1>1, <1>u DEF PrivateTypes
<1>2. PICK broken \in Launch!Machine.breaks :
        /\ w1[l].at = "fork"
        /\ IF ~Launch!Apply(l, broken).ok \/ ~Launch!Marks THEN Launch!Fails(l)
           ELSE w1' = [w1 EXCEPT ![l].at = "started",
                  ![l].child = [uid |-> Launch!Apply(l, broken).uid, gid |-> Launch!Apply(l, broken).gid,
                                groups |-> Launch!Apply(l, broken).groups, caps |-> Launch!Apply(l,
                                     broken).caps,
                                env |-> Launch!Env(l), fds |-> Launch!Inherited(Launch!Open3)]]
        /\ w2' = [w2 EXCEPT ![u].used = @ \/ (Launch!IsPerson(l) /\ Launch!Apply(l,
                                                                    broken).ok /\ Launch!Marks)]
        /\ w3' = w3 /\ w4' = w4 /\ w5' = w5
  BY <1>u DEF Launch!Exec, Launch!At, Launch!Uid
<1>3. PICK c : c = Launch!Apply(l, broken)
  OBVIOUS
<1>4. PrivateChanges(u) /\ w2'[u].kind = w2[u].kind /\ w2'[u].uid = w2[u].uid
      /\ w2'[u].private = w2[u].private /\ w2'[u].gen = w2[u].gen
  BY <1>v, <1>2 DEF PrivateChanges, PrivateOk, RunKept
<1>5. w1[l].ask.kind \in {"person", "daemon"} /\ ~Fixing(w1[l], u)
  BY <1>1, <1>2 DEF LaunchOk, Fixing
<1>6. DOMAIN w2' = DOMAIN w2 /\ "failed" \in LaunchStages /\ "started" \in LaunchStages
  BY <1>4 DEF PrivateChanges, LaunchStages
<1>7. /\ "failed" \notin PrivateStages \cup HelperStages \cup FsStages
      /\ "started" \notin PrivateStages \cup HelperStages \cup FsStages
  BY DEF PrivateStages, HelperStages, FsStages, Fixes
<1>8. CASE ~c.ok \/ ~Launch!Marks
  <2>1. Moved(l, "failed")
    BY <1>2, <1>3, <1>8, RunGoes DEF Launch!Fails
  <2>2. LaunchOk(w1[l])'
    BY <1>2, <1>6, <1>7, <2>1, RunPassed
  <2>3. ChildOk(w1[l])' /\ DirOk(w1[l])' /\ ~Relies(w1[l], u)'
    BY <2>1 DEF ChildOk, DirOk, Moved, Relies, Fixes
  <2>4. Repaired(u)'
    BY <1>u, <1>v, <1>4, <1>5, <2>1, <2>3, RunSteady
  <2> QED BY <1>u, <1>2, <1>4, <1>5, <2>1, <2>2, <2>3, <2>4, RunPrepares
<1>9. CASE c.ok /\ Launch!Marks
  <2>1. PICK r : r = [uid |-> c.uid, gid |-> c.gid, groups |-> c.groups, caps |-> c.caps,
                      env |-> Launch!Env(l), fds |-> Launch!Inherited(Launch!Open3)]
    OBVIOUS
  <2>2. Moved(l, "started") /\ w1'[l].child = r
    <3>1. Launchers \subseteq DOMAIN w1 /\ LaunchFields \subseteq DOMAIN w1[l]
      BY <1>0 DEF LaunchTypes, LaunchOk
    <3>2. w1' = [w1 EXCEPT ![l].at = "started", ![l].child = r]
      BY <1>2, <1>3, <1>9, <2>1
    <3> QED BY <3>1, <3>2 DEF Moved, LaunchFields
  <2>3. LaunchOk(w1[l])'
    BY <1>2, <1>6, <1>7, <2>2, RunPassed
  <2>4. r.fds = {}
    BY <2>1 DEF Launch!Inherited
  <2>5. /\ \A i \in DOMAIN w1[l].ask.secret : ~Launch!Rule(w1[l].ask, i)
        /\ w1[l].ask.kind = "person" => Launch!Resolves(w1[l].ask.user)
    BY <1>1, <1>2 DEF LaunchOk
  <2>6. /\ \A i \in DOMAIN w1[l].ask.secret : r.env[w1[l].ask.secret[i].name] = "secret"
        /\ Launch!IsPerson(l) => EnvOk(r.env) /\ ("HOME" \notin w1[l].ask.env => r.env["HOME"] = "identity")
    <3>1. r.env = Launch!Env(l)
      BY <2>1
    <3> QED BY <2>5, <3>1, RunEnv
  <2>7. ASSUME w1[l].ask.kind = "person" PROVE PersonOk(r, w1[l].ask)
    <3>1. c = Launch!ApplySteps(w1[l].ask.user, broken)
      BY <1>3, <2>7 DEF Launch!Apply, Launch!IsPerson
    <3>2. /\ c.uid = w1[l].ask.user.uid /\ c.gid = w1[l].ask.user.gid
          /\ c.groups = w1[l].ask.user.groups
          /\ c.caps \subseteq (IF Launch!fowner THEN {"fowner"} ELSE {})
      BY <1>9, <3>1, RunApplied
    <3>3. r.uid = c.uid /\ r.gid = c.gid /\ r.groups = c.groups /\ r.caps = c.caps
      BY <2>1
    <3>4. w1[l].ask.user.uid # 0 /\ w1[l].ask.user.gid # 0 /\ 0 \notin w1[l].ask.user.groups
      BY <2>5, <2>7 DEF Launch!Resolves
    <3> QED BY <2>6, <2>7, <3>2, <3>3, <3>4 DEF PersonOk, Launch!IsPerson
  <2>8. ChildOk(w1[l])'
    BY <1>2, <1>5, <2>2, <2>4, <2>6, <2>7 DEF ChildOk, Moved, PersonOk, EnvOk, Launch!fowner, Launch!Machine
  <2>9. DirOk(w1[l])' /\ (Relies(w1[l], u)' => Relies(w1[l], u))
    BY <1>2, <2>2 DEF DirOk, Moved, Relies
  <2>10. Repaired(u)'
    BY <1>u, <1>v, <1>4, <1>5, <2>2, <2>9, RunSteady
  <2> QED BY <1>u, <1>2, <1>4, <1>5, <2>2, <2>3, <2>8, <2>9, <2>10, RunPrepares
<1> QED BY <1>8, <1>9

(* A step of a helper's launcher.  What the others would inherit, and its  *)
(* own part of that, has to be shown.                                      *)
LEMMA RunHelps ==
  ASSUME RunInv, NEW l \in Launchers, NEW stage \in {"failed", "walk", "spawn", "started"}, Moved(l, stage),
         w1[l].ask.kind = "helper", w2' = w2, w4' = w4, w5' = w5,
         w1[l].at \notin FsStages, ChildOk(w1[l])', SweptOk(w1[l])', FdTypes',
         DOMAIN w3' \subseteq DOMAIN w3,
         \A fd \in DOMAIN w3' : w3'[fd].id = w3[fd].id /\ (w3[fd].cloexec => w3'[fd].cloexec)
  PROVE  RunInv'
<1>0. /\ LaunchTypes /\ MachineTypes /\ FdTypes /\ Swept /\ ChildrenOk /\ ThreadsIs /\ BorrowedOk
      /\ PrivateTypes /\ DirsOk /\ AllRepaired
  BY DEF RunInv
<1>1. /\ stage \in LaunchStages /\ stage \notin PrivateStages \cup FsStages
      /\ stage # "fork" /\ stage # "work"
  BY DEF LaunchStages, PrivateStages, HelperStages, FsStages, Fixes
<1>2. LaunchOk(w1[l])'
  BY <1>1, RunPassed
<1>3. ASSUME NEW k \in Launchers \ {l} PROVE SweptOk(w1[k])'
  BY <1>0 DEF Swept, SweptOk, Moved
<1>4. Swept'
  BY <1>3 DEF Swept
<1>5. ThreadsIs'
  BY <1>1, RunUncounted
<1>6. BorrowedOk'
  BY <1>0 DEF BorrowedOk, Launch!Machine
<1> QED BY <1>2, <1>4, <1>5, <1>6, RunAside

(* Sweep keeps the invariant.                                              *)
LEMMA RunSweep ==
  ASSUME RunInv, NEW l \in Launchers, Launch!Sweep(l)
  PROVE  RunInv'
<1>0. /\ LaunchTypes /\ MachineTypes /\ FdTypes /\ Swept /\ ChildrenOk /\ ThreadsIs /\ BorrowedOk
      /\ PrivateTypes /\ DirsOk /\ AllRepaired
  BY DEF RunInv
<1>1. LaunchOk(w1[l]) /\ SweptOk(w1[l])
  BY <1>0 DEF LaunchTypes, Swept
<1>f. Launchers \subseteq DOMAIN w1 /\ LaunchFields \subseteq DOMAIN w1[l]
  BY <1>0, <1>1 DEF LaunchTypes, LaunchOk
<1>2. /\ w1[l].at = "asked" /\ w1[l].ask.kind = "helper"
      /\ w2' = w2 /\ w4' = w4 /\ w5' = w5
  BY DEF Launch!Sweep, Launch!At
<1>3. w1[l].at \notin FsStages
  BY <1>2 DEF FsStages
<1>4. CASE Launch!Machine.close_range
  <2>1. /\ w3' = [fd \in DOMAIN w3 |-> [w3[fd] EXCEPT !.cloexec = TRUE]]
        /\ w1' = [w1 EXCEPT ![l].at = "spawn", ![l].swept = w5.opened]
    BY <1>4 DEF Launch!Sweep, Launch!Open3
  <2>2. Moved(l, "spawn") /\ w1'[l].swept = w5.opened
    BY <1>f, <2>1 DEF Moved, LaunchFields
  <2>3. FdTypes' /\ \A fd \in DOMAIN w3' : w3'[fd].id = w3[fd].id /\ w3'[fd].cloexec
    BY <1>0, <2>1 DEF FdTypes
  <2>4. SweptOk(w1[l])' /\ ChildOk(w1[l])'
    BY <1>0, <1>2, <2>2, <2>3 DEF SweptOk, ChildOk, Moved, MachineTypes
  <2>5. DOMAIN w3' \subseteq DOMAIN w3
    BY <2>1
  <2> QED BY <1>2, <1>3, <2>2, <2>3, <2>4, <2>5, RunHelps
<1>5. CASE ~Launch!Machine.close_range /\ Launch!Machine.proc
  <2>1. /\ w1' = [w1 EXCEPT ![l].at = "walk", ![l].listed = DOMAIN w3, ![l].swept = w5.opened]
        /\ w3' = w3
    BY <1>5 DEF Launch!Sweep, Launch!Open3
  <2>2. Moved(l, "walk") /\ w1'[l].swept = w5.opened /\ w1'[l].listed = DOMAIN w3
    BY <1>f, <2>1 DEF Moved, LaunchFields
  <2>3. FdTypes'
    BY <1>0, <2>1 DEF FdTypes
  <2>4. SweptOk(w1[l])' /\ ChildOk(w1[l])'
    BY <1>0, <1>2, <2>1, <2>2 DEF SweptOk, ChildOk, Moved, MachineTypes
  <2> QED BY <1>2, <1>3, <2>1, <2>2, <2>3, <2>4, RunHelps
<1>6. CASE ~Launch!Machine.close_range /\ ~Launch!Machine.proc
  <2>1. Launch!Goes(l, "failed") /\ w3' = w3
    BY <1>6 DEF Launch!Sweep, Launch!Fails
  <2>2. Moved(l, "failed")
    BY <2>1, RunGoes
  <2>3. FdTypes' /\ SweptOk(w1[l])' /\ ChildOk(w1[l])'
    BY <1>0, <2>1, <2>2 DEF FdTypes, SweptOk, ChildOk, Moved, HelperStages
  <2> QED BY <1>2, <1>3, <2>1, <2>2, <2>3, RunHelps
<1> QED BY <1>4, <1>5, <1>6

(* Walk keeps the invariant.                                               *)
LEMMA RunWalk ==
  ASSUME RunInv, NEW l \in Launchers, Launch!Walk(l)
  PROVE  RunInv'
<1>0. /\ LaunchTypes /\ MachineTypes /\ FdTypes /\ Swept /\ ChildrenOk /\ ThreadsIs /\ BorrowedOk
      /\ PrivateTypes /\ DirsOk /\ AllRepaired
  BY DEF RunInv
<1>1. LaunchOk(w1[l]) /\ SweptOk(w1[l])
  BY <1>0 DEF LaunchTypes, Swept
<1>f. Launchers \subseteq DOMAIN w1 /\ LaunchFields \subseteq DOMAIN w1[l]
  BY <1>0, <1>1 DEF LaunchTypes, LaunchOk
<1>2. /\ w1[l].at = "walk"
      /\ w2' = w2 /\ w4' = w4 /\ w5' = w5
  BY DEF Launch!Walk, Launch!At
<1>3. w1[l].at \notin FsStages /\ w1[l].at \in HelperStages
  BY <1>2 DEF FsStages, HelperStages
<1>4. w1[l].ask.kind = "helper"
  BY <1>1, <1>3 DEF LaunchOk
<1>5. PICK fd \in w1[l].listed :
        /\ w3' = IF fd \in DOMAIN w3 THEN [w3 EXCEPT ![fd].cloexec = TRUE] ELSE w3
        /\ w1' = [w1 EXCEPT ![l].listed = @ \ {fd}]
  BY DEF Launch!Walk, Launch!Open3
<1>6. Moved(l, "walk") /\ w1'[l].swept = w1[l].swept /\ w1'[l].listed = w1[l].listed \ {fd}
  BY <1>f, <1>2, <1>5 DEF Moved, LaunchFields
<1>7. /\ DOMAIN w3' = DOMAIN w3 /\ FdTypes'
      /\ \A f \in DOMAIN w3' : w3'[f].id = w3[f].id /\ (w3[f].cloexec => w3'[f].cloexec)
      /\ fd \in DOMAIN w3 => w3'[fd].cloexec
  BY <1>0, <1>5 DEF FdTypes
<1>8. SweptOk(w1[l])'
  BY <1>1, <1>2, <1>3, <1>6, <1>7 DEF SweptOk, Moved
<1>9. ChildOk(w1[l])'
  BY <1>6 DEF ChildOk, Moved
<1> QED BY <1>2, <1>3, <1>4, <1>6, <1>7, <1>8, <1>9, RunHelps

(* Walked keeps the invariant.                                             *)
LEMMA RunWalked ==
  ASSUME RunInv, NEW l \in Launchers, Launch!Walked(l)
  PROVE  RunInv'
<1>0. /\ LaunchTypes /\ MachineTypes /\ FdTypes /\ Swept /\ ChildrenOk /\ ThreadsIs /\ BorrowedOk
      /\ PrivateTypes /\ DirsOk /\ AllRepaired
  BY DEF RunInv
<1>1. LaunchOk(w1[l]) /\ SweptOk(w1[l])
  BY <1>0 DEF LaunchTypes, Swept
<1>f. Launchers \subseteq DOMAIN w1 /\ LaunchFields \subseteq DOMAIN w1[l]
  BY <1>0, <1>1 DEF LaunchTypes, LaunchOk
<1>2. /\ w1[l].at = "walk" /\ w1[l].listed = {} /\ Launch!Goes(l, "spawn")
      /\ w2' = w2 /\ w4' = w4 /\ w5' = w5 /\ w3' = w3
  BY DEF Launch!Walked, Launch!At
<1>3. w1[l].at \notin FsStages /\ w1[l].at \in HelperStages
  BY <1>2 DEF FsStages, HelperStages
<1>4. w1[l].ask.kind = "helper"
  BY <1>1, <1>3 DEF LaunchOk
<1>5. Moved(l, "spawn") /\ SameRest(l)
  BY <1>2, RunGoes
<1>6. FdTypes' /\ SweptOk(w1[l])' /\ ChildOk(w1[l])'
  BY <1>0, <1>1, <1>2, <1>3, <1>5 DEF FdTypes, SweptOk, ChildOk, Moved, SameRest
<1> QED BY <1>2, <1>3, <1>4, <1>5, <1>6, RunHelps

(* SpawnHelper keeps the invariant.                                        *)
LEMMA RunSpawnHelper ==
  ASSUME RunInv, NEW l \in Launchers, Launch!SpawnHelper(l)
  PROVE  RunInv'
<1>0. /\ LaunchTypes /\ MachineTypes /\ FdTypes /\ Swept /\ ChildrenOk /\ ThreadsIs /\ BorrowedOk
      /\ PrivateTypes /\ DirsOk /\ AllRepaired
  BY DEF RunInv
<1>1. LaunchOk(w1[l]) /\ SweptOk(w1[l])
  BY <1>0 DEF LaunchTypes, Swept
<1>f. Launchers \subseteq DOMAIN w1 /\ LaunchFields \subseteq DOMAIN w1[l]
  BY <1>0, <1>1 DEF LaunchTypes, LaunchOk
<1>2. /\ w1[l].at = "spawn"
      /\ w2' = w2 /\ w4' = w4 /\ w5' = w5 /\ w3' = w3
  BY DEF Launch!SpawnHelper, Launch!At
<1>3. w1[l].at \notin FsStages /\ w1[l].at \in HelperStages
  BY <1>2 DEF FsStages, HelperStages
<1>4. w1[l].ask.kind = "helper" /\ w1[l].ask.secret = <<>>
  BY <1>1, <1>3 DEF LaunchOk, Launch!AskOk
<1>5. PICK r : r = [uid |-> 0, gid |-> 0, groups |-> {0}, caps |-> Launch!Daemon.caps,
                    env |-> Launch!From(Launch!child_env, "daemon"), fds |-> Launch!Inherited({})]
  OBVIOUS
<1>6. w1' = [w1 EXCEPT ![l].at = "started", ![l].child = r]
  BY <1>5 DEF Launch!SpawnHelper
<1>7. Moved(l, "started") /\ w1'[l].child = r /\ w1'[l].swept = w1[l].swept
  BY <1>f, <1>6 DEF Moved, LaunchFields
<1>8. \A id \in r.fds : id >= w1[l].swept
  BY <1>1, <1>2, <1>3, <1>5 DEF Launch!Inherited, Launch!Open3, SweptOk
<1>9. FdTypes' /\ SweptOk(w1[l])'
  BY <1>0, <1>2, <1>7 DEF FdTypes, SweptOk, Moved, HelperStages
<1>10. ChildOk(w1[l])'
  BY <1>4, <1>7, <1>8 DEF ChildOk, Moved
<1> QED BY <1>2, <1>3, <1>4, <1>7, <1>9, <1>10, RunHelps

(* Another thread opens or closes a descriptor.                            *)
LEMMA RunOpensCloses ==
  ASSUME RunInv, w1' = w1, w2' = w2, w4' = w4,
         MachineTypes', w5'.limit = w5.limit, FdTypes', Swept'
  PROVE  RunInv'
<1>0. /\ LaunchTypes /\ MachineTypes /\ FdTypes /\ Swept /\ ChildrenOk /\ ThreadsIs /\ BorrowedOk
      /\ PrivateTypes /\ DirsOk /\ AllRepaired
  BY DEF RunInv
<1>1. LaunchTypes'
  BY <1>0 DEF LaunchTypes, LaunchOk, Launch!AskOk, Launch!Rule, Launch!Resolves, Launch!admit, Launch!Reserved
<1>2. ChildrenOk'
  BY <1>0 DEF ChildrenOk, ChildOk, PersonOk, EnvOk, Launch!fowner, Launch!Machine
<1>3. ThreadsIs' /\ BorrowedOk'
  BY <1>0 DEF ThreadsIs, BorrowedOk, Launch!Machine
<1>4. PrivateTypes' /\ DirsOk'
  BY <1>0 DEF PrivateTypes, PrivateOk, DirsOk, DirOk
<1>5. AllRepaired'
  BY <1>0 DEF AllRepaired, Repaired, Relies, Fixing, Good
<1> QED BY <1>1, <1>2, <1>3, <1>4, <1>5 DEF RunInv

(* OpenFd keeps the invariant.                                             *)
LEMMA RunOpenFd ==
  ASSUME RunInv, NEW fd, NEW cloexec \in BOOLEAN, Launch!OpenFd(fd, cloexec)
  PROVE  RunInv'
<1>0. /\ LaunchTypes /\ MachineTypes /\ FdTypes /\ Swept /\ ChildrenOk /\ ThreadsIs /\ BorrowedOk
      /\ PrivateTypes /\ DirsOk /\ AllRepaired
  BY DEF RunInv
<1>1. /\ w3' = [f \in DOMAIN w3 \cup {fd} |->
                   IF f = fd THEN [cloexec |-> cloexec, id |-> w5.opened] ELSE w3[f]]
      /\ w5' = [w5 EXCEPT !.opened = @ + 1] /\ fd \notin DOMAIN w3
      /\ w1' = w1 /\ w2' = w2 /\ w4' = w4
  BY DEF Launch!OpenFd, Launch!Open3
<1>2. MachineTypes' /\ w5'.limit = w5.limit /\ w5'.opened = w5.opened + 1
  BY <1>0, <1>1 DEF MachineTypes
<1>3. FdTypes'
  BY <1>0, <1>1 DEF FdTypes, MachineTypes
<1>4. ASSUME NEW l \in Launchers PROVE SweptOk(w1[l])'
  <2>1. SweptOk(w1[l]) /\ w1'[l] = w1[l] /\ w5.opened \in Nat
    BY <1>0, <1>1 DEF Swept, MachineTypes
  <2>2. w3'[fd].id = w5.opened /\ \A f \in DOMAIN w3 : w3'[f] = w3[f]
    BY <1>1
  <2>3. DOMAIN w3' = DOMAIN w3 \cup {fd}
    BY <1>1
  <2> QED BY <1>2, <2>1, <2>2, <2>3 DEF SweptOk
<1>5. Swept'
  BY <1>4 DEF Swept
<1> QED BY <1>1, <1>2, <1>3, <1>5, RunOpensCloses

(* CloseFd keeps the invariant.                                            *)
LEMMA RunCloseFd ==
  ASSUME RunInv, NEW fd, Launch!CloseFd(fd)
  PROVE  RunInv'
<1>0. /\ LaunchTypes /\ MachineTypes /\ FdTypes /\ Swept /\ ChildrenOk /\ ThreadsIs /\ BorrowedOk
      /\ PrivateTypes /\ DirsOk /\ AllRepaired
  BY DEF RunInv
<1>1. /\ w3' = [f \in DOMAIN w3 \ {fd} |-> w3[f]]
      /\ w1' = w1 /\ w2' = w2 /\ w4' = w4 /\ w5' = w5
  BY DEF Launch!CloseFd, Launch!Open3
<1>2. MachineTypes' /\ FdTypes'
  BY <1>0, <1>1 DEF MachineTypes, FdTypes
<1>3. Swept'
  BY <1>0, <1>1 DEF Swept, SweptOk
<1> QED BY <1>1, <1>2, <1>3, RunOpensCloses

(* How many threads have a borrowed identity.                              *)
LEMMA RunCounts ==
  ASSUME RunInv, NEW C, C = {k \in Launchers : w1[k].at \in FsStages}
  PROVE  IsFiniteSet(C) /\ w4.threads = Cardinality(C) /\ w4.threads \in Nat
         /\ (C # {} => w4.threads # 0)
<1>1. IsFiniteSet(Launchers)
  BY RunConstant DEF Launch!RunConstants, Launch!IsFiniteSet, IsFiniteSet
<1>2. IsFiniteSet(C)
  BY <1>1, FS_Subset
<1>3. w4.threads = Cardinality(C)
  BY DEF RunInv, ThreadsIs
<1> QED BY <1>2, <1>3, FS_CardinalityType, FS_EmptySet

(* A step of a thread with a borrowed identity.                            *)
LEMMA RunBorrowed ==
  ASSUME RunInv, NEW l \in Launchers, NEW stage \in FsStages \cup {"returned"}, Moved(l, stage),
         w1[l].ask.kind = "fs", w2' = w2, w3' = w3, w5' = w5,
         ThreadsIs', BorrowedOk', stage = "work" => w1'[l].on
  PROVE  RunInv'
<1>0. /\ LaunchTypes /\ MachineTypes /\ FdTypes /\ Swept /\ ChildrenOk /\ ThreadsIs /\ BorrowedOk
      /\ PrivateTypes /\ DirsOk /\ AllRepaired
  BY DEF RunInv
<1>1. /\ stage \in LaunchStages /\ stage \notin PrivateStages \cup HelperStages
      /\ stage # "fork" /\ stage # "started"
  BY DEF LaunchStages, PrivateStages, HelperStages, FsStages, Fixes
<1>2. LaunchOk(w1[l])'
  BY <1>1, RunPassed
<1>3. FdTypes' /\ Swept' /\ ChildOk(w1[l])'
  BY <1>0, <1>1 DEF FdTypes, Swept, SweptOk, Moved, ChildOk
<1> QED BY <1>2, <1>3, RunAside

(* Borrow keeps the invariant.                                             *)
LEMMA RunBorrow ==
  ASSUME RunInv, NEW l \in Launchers, Launch!Borrow(l)
  PROVE  RunInv'
<1>0. /\ LaunchTypes /\ MachineTypes /\ FdTypes /\ Swept /\ ChildrenOk /\ ThreadsIs /\ BorrowedOk
      /\ PrivateTypes /\ DirsOk /\ AllRepaired
  BY DEF RunInv
<1>1. /\ w1[l].at = "asked" /\ w1[l].ask.kind = "fs" /\ Launch!Goes(l, "become")
      /\ w2' = w2 /\ w3' = w3 /\ w5' = w5
      /\ w4' = [w4 EXCEPT !.threads = @ + 1,
                        !.before = IF w4.threads = 0 THEN w4.dumpable ELSE @]
  BY DEF Launch!Borrow, Launch!At
<1>2. Moved(l, "become") /\ "become" \in FsStages /\ "asked" \notin FsStages
  BY <1>1, RunGoes DEF FsStages
<1>3. PICK C : C = {k \in Launchers : w1[k].at \in FsStages}
  OBVIOUS
<1>4. IsFiniteSet(C) /\ w4.threads = Cardinality(C) /\ w4.threads \in Nat
  BY <1>3, RunCounts
<1>5. {k \in Launchers : w1'[k].at \in FsStages} = C \cup {l} /\ l \notin C
  BY <1>1, <1>2, <1>3 DEF Moved
<1>6. Cardinality(C \cup {l}) = Cardinality(C) + 1
  BY <1>4, <1>5, FS_AddElement
<1>7. w4'.threads = w4.threads + 1
  BY <1>0, <1>1 DEF BorrowedOk
<1>8. ThreadsIs'
  BY <1>4, <1>5, <1>6, <1>7 DEF ThreadsIs
<1>9. BorrowedOk'
  BY <1>0, <1>1, <1>4, <1>7 DEF BorrowedOk, Launch!Machine
<1> QED BY <1>1, <1>2, <1>8, <1>9, RunBorrowed

(* Become keeps the invariant.                                             *)
LEMMA RunBecome ==
  ASSUME RunInv, NEW l \in Launchers, Launch!Become(l)
  PROVE  RunInv'
<1>0. /\ LaunchTypes /\ MachineTypes /\ FdTypes /\ Swept /\ ChildrenOk /\ ThreadsIs /\ BorrowedOk
      /\ PrivateTypes /\ DirsOk /\ AllRepaired
  BY DEF RunInv
<1>1. /\ w1[l].at = "become" /\ w2' = w2 /\ w3' = w3 /\ w5' = w5
      /\ w4' = [w4 EXCEPT !.dumpable = FALSE]
  BY DEF Launch!Become, Launch!At
<1>2. PICK stage \in {"work", "return"} : w1' = [w1 EXCEPT ![l].at = stage, ![l].on = TRUE]
  BY DEF Launch!Become
<1>3. LaunchOk(w1[l]) /\ Launchers \subseteq DOMAIN w1
  BY <1>0 DEF LaunchTypes
<1>4. Moved(l, stage) /\ w1'[l].on
  BY <1>2, <1>3 DEF LaunchOk, Moved, LaunchFields
<1>5. stage \in FsStages /\ w1[l].at \in FsStages
  BY <1>1 DEF FsStages
<1>6. w1[l].ask.kind = "fs"
  BY <1>3, <1>5 DEF LaunchOk
<1>7. w4.threads # 0
  BY <1>5, RunCounts
<1>8. w4'.threads = w4.threads /\ BorrowedOk'
  BY <1>0, <1>1, <1>7 DEF BorrowedOk, Launch!Machine
<1>9. {k \in Launchers : w1'[k].at \in FsStages} = {k \in Launchers : w1[k].at \in FsStages}
  BY <1>4, <1>5 DEF Moved
<1>10. ThreadsIs'
  BY <1>0, <1>8, <1>9 DEF ThreadsIs
<1> QED BY <1>1, <1>4, <1>5, <1>6, <1>8, <1>10, RunBorrowed

(* Work keeps the invariant.                                               *)
LEMMA RunWork ==
  ASSUME RunInv, NEW l \in Launchers, Launch!Work(l)
  PROVE  RunInv'
<1>0. /\ LaunchTypes /\ MachineTypes /\ FdTypes /\ Swept /\ ChildrenOk /\ ThreadsIs /\ BorrowedOk
      /\ PrivateTypes /\ DirsOk /\ AllRepaired
  BY DEF RunInv
<1>1. /\ w1[l].at = "work" /\ w2' = w2 /\ w3' = w3 /\ w5' = w5
      /\ w4' = w4
  BY DEF Launch!Work, Launch!At
<1>2. LaunchOk(w1[l]) /\ w1[l].at \in FsStages /\ "refused" \in FsStages
  BY <1>0, <1>1 DEF LaunchTypes, FsStages
<1>3. w1[l].on /\ w1[l].ask.kind = "fs"
  BY <1>1, <1>2 DEF LaunchOk
<1>4. Moved(l, "refused")
  BY <1>3, RunGoes DEF Launch!Work, Launch!refuse_on_fs_user_thread
<1>5. ThreadsIs'
  BY <1>1, <1>2, <1>4, RunUncounted
<1>6. BorrowedOk'
  BY <1>0, <1>1 DEF BorrowedOk, Launch!Machine
<1> QED BY <1>1, <1>2, <1>3, <1>4, <1>5, <1>6, RunBorrowed

(* Return keeps the invariant.                                             *)
LEMMA RunReturn ==
  ASSUME RunInv, NEW l \in Launchers, Launch!Return(l)
  PROVE  RunInv'
<1>0. /\ LaunchTypes /\ MachineTypes /\ FdTypes /\ Swept /\ ChildrenOk /\ ThreadsIs /\ BorrowedOk
      /\ PrivateTypes /\ DirsOk /\ AllRepaired
  BY DEF RunInv
<1>1. /\ w1[l].at \in {"return", "refused"} /\ Launch!Goes(l, "returned")
      /\ w2' = w2 /\ w3' = w3 /\ w5' = w5
      /\ w4' = [w4 EXCEPT !.threads = w4.threads - 1,
                        !.dumpable = IF w4.threads - 1 = 0 /\ w4.before THEN TRUE ELSE @]
  BY DEF Launch!Return
<1>2. /\ Moved(l, "returned") /\ w1[l].at \in FsStages /\ "returned" \notin FsStages
      /\ LaunchOk(w1[l])
  BY <1>0, <1>1, RunGoes DEF FsStages, LaunchTypes
<1>3. PICK C : C = {k \in Launchers : w1[k].at \in FsStages}
  OBVIOUS
<1>4. IsFiniteSet(C) /\ w4.threads = Cardinality(C) /\ w4.threads \in Nat /\ w4.threads # 0
  BY <1>2, <1>3, RunCounts
<1>5. {k \in Launchers : w1'[k].at \in FsStages} = C \ {l} /\ l \in C
  BY <1>2, <1>3 DEF Moved
<1>6. Cardinality(C \ {l}) = Cardinality(C) - 1
  BY <1>4, <1>5, FS_RemoveElement
<1>7. w4'.threads = w4.threads - 1
  BY <1>0, <1>1 DEF BorrowedOk
<1>8. ThreadsIs'
  BY <1>4, <1>5, <1>6, <1>7 DEF ThreadsIs
<1>9. BorrowedOk'
  BY <1>0, <1>1, <1>4, <1>7 DEF BorrowedOk, Launch!Machine
<1>10. w1[l].ask.kind = "fs"
  BY <1>2 DEF LaunchOk
<1> QED BY <1>1, <1>2, <1>8, <1>9, <1>10, RunBorrowed

(* The invariant holds at first.                                           *)
LEMMA RunInitial ==
  ASSUME Launch!RunInit
  PROVE  RunInv
<1>1. PICK m \in RunLimits :
        /\ w1 \in [Launchers -> {[ask |-> a, at |-> "asked", dir |-> 0, listed |-> {},
                                      swept |-> 0, on |-> FALSE, child |-> Launch!NoChild] : a \in m.asks}]
        /\ w2 = [u \in {k.user.uid : k \in m.asks} |-> m.stands]
        /\ w3 = <<>>
        /\ w4 = [threads |-> 0, before |-> m.machine.dumpable, dumpable |-> m.machine.dumpable]
        /\ w5 = [limit |-> m, opened |-> 0]
  BY DEF Launch!RunInit
<1>2. /\ \A a \in m.asks : Launch!AskOk(a)
      /\ m.machine.dumpable \in BOOLEAN
      /\ {"kind", "uid", "private", "gen", "used"} \subseteq DOMAIN m.stands
      /\ m.stands.kind \in {"none", "dir", "file"} /\ m.stands.gen \in Nat
  BY RunConstant DEF Launch!RunConstants
<1>3. ASSUME NEW l \in Launchers
      PROVE  /\ LaunchFields \subseteq DOMAIN w1[l] /\ w1[l].at = "asked" /\ Launch!AskOk(w1[l].ask)
             /\ w1[l].ask.user.uid \in DOMAIN w2
  <2>1. PICK a \in m.asks : w1[l] = [ask |-> a, at |-> "asked", dir |-> 0, listed |-> {},
                                         swept |-> 0, on |-> FALSE, child |-> Launch!NoChild]
    BY <1>1
  <2>2. a.user.uid \in DOMAIN w2
    BY <1>1
  <2> QED BY <1>2, <2>1, <2>2 DEF LaunchFields
<1>4. "asked" \in LaunchStages /\ "asked" \notin PrivateStages \cup HelperStages \cup FsStages \cup Fixes
  BY DEF LaunchStages, PrivateStages, HelperStages, FsStages, Fixes
<1>5. LaunchTypes
  BY <1>1, <1>3, <1>4 DEF LaunchTypes, LaunchOk
<1>6. MachineTypes /\ FdTypes
  BY <1>1 DEF MachineTypes, FdTypes
<1>7. Swept /\ ChildrenOk /\ DirsOk
  BY <1>3, <1>4 DEF Swept, SweptOk, ChildrenOk, ChildOk, DirsOk, DirOk
<1>8. ThreadsIs
  <2>1. {l \in Launchers : w1[l].at \in FsStages} = {}
    BY <1>3, <1>4
  <2> QED BY <1>1, <2>1, FS_EmptySet DEF ThreadsIs
<1>9. BorrowedOk
  BY <1>1, <1>2 DEF BorrowedOk, Launch!Machine
<1>10. PrivateTypes
  BY <1>1, <1>2 DEF PrivateTypes, PrivateOk
<1>11. AllRepaired
  BY <1>3, <1>4 DEF AllRepaired, Repaired, Relies
<1> QED BY <1>5, <1>6, <1>7, <1>8, <1>9, <1>10, <1>11 DEF RunInv

(* Every step keeps it.                                                    *)
LEMMA RunStep ==
  ASSUME RunInv, Launch!RunNext
  PROVE  RunInv'
<1>1. ASSUME NEW l \in Launchers, Launch!Start(l) PROVE RunInv'
  BY <1>1, RunAsk, RunLook, RunClear, RunMake, RunOpenDir, RunSetMode, RunChown, RunExec DEF Launch!Start
<1>2. ASSUME NEW l \in Launchers, Launch!Helper(l) PROVE RunInv'
  BY <1>2, RunSweep, RunWalk, RunWalked, RunSpawnHelper DEF Launch!Helper
<1>3. ASSUME NEW l \in Launchers, Launch!AsFsUser(l) PROVE RunInv'
  BY <1>3, RunBorrow, RunBecome, RunWork, RunReturn DEF Launch!AsFsUser
<1>4. ASSUME NEW fd \in Fds, Launch!CloseFd(fd) PROVE RunInv'
  BY <1>4, RunCloseFd
<1>5. ASSUME NEW fd \in Fds, NEW cloexec \in BOOLEAN, Launch!OpenFd(fd, cloexec) PROVE RunInv'
  BY <1>5, RunOpenFd
<1> QED BY <1>1, <1>2, <1>3, <1>4, <1>5 DEF Launch!RunNext

(* The invariant is strong enough.                                         *)
LEMMA RunInvImplies ==
  ASSUME RunInv
  PROVE  Launch!LaunchedAsAsked
<1>0. /\ LaunchTypes /\ MachineTypes /\ FdTypes /\ Swept /\ ChildrenOk /\ ThreadsIs /\ BorrowedOk
      /\ PrivateTypes /\ DirsOk /\ AllRepaired
  BY DEF RunInv
<1>1. Launch!ChildIsAsAsked
  <2> SUFFICES ASSUME NEW l \in Launchers, Launch!At(l, "started")
               PROVE  LET c == w1[l].child
                          ask == w1[l].ask IN
                      /\ Launch!IsPerson(l) =>
                           /\ <<c.uid, c.gid, c.groups>> = <<ask.user.uid, ask.user.gid, ask.user.groups>>
                           /\ 0 \notin {c.uid, c.gid} \union c.groups
                           /\ c.caps \subseteq (IF Launch!fowner THEN {"fowner"} ELSE {})
                           /\ \A n \in DOMAIN c.env :
                                /\ c.env[n] \in {"daemon", "proxy"} =>
                                      ~Launch!withheld_from_person(n) /\ n \notin Launch!person_withheld
                                /\ c.env[n] = "image" => ~Launch!withheld_from_person(n) /\ ~Launch!looks_secret(n)
                           /\ "HOME" \notin ask.env => c.env["HOME"] = "identity"
                      /\ \A i \in DOMAIN ask.secret : c.env[ask.secret[i].name] = "secret"
                      /\ ask.kind # "fs"
                      /\ \A id \in c.fds : ask.kind = "helper" /\ id >= w1[l].swept
    BY DEF Launch!ChildIsAsAsked
  <2>1. ChildOk(w1[l]) /\ w1[l].at = "started"
    BY <1>0 DEF ChildrenOk, Launch!At
  <2> QED BY <2>1 DEF ChildOk, PersonOk, EnvOk, Launch!IsPerson
<1>2. w4.threads = 0 => w4.dumpable = Launch!Machine.dumpable
  BY <1>0 DEF BorrowedOk
<1>3. ASSUME \A l \in Launchers : ~Launch!Preparing(l), NEW l \in Launchers, Launch!At(l, "started"),
     Launch!IsPerson(l)
      PROVE  Launch!There(l).kind = "dir" /\ Launch!There(l).uid = Launch!Uid(l) /\ Launch!There(l).private
  <2>1. PICK u : u = w1[l].ask.user.uid
    OBVIOUS
  <2>2. Relies(w1[l], u) /\ u \in DOMAIN w2
    BY <1>0, <1>3, <2>1 DEF Relies, Launch!At, Launch!IsPerson, LaunchTypes, LaunchOk
  <2>3. \A k \in Launchers : ~Fixing(w1[k], u)
    BY <1>3 DEF Fixing, Launch!Preparing
  <2>4. Good(u)
    BY <1>0, <2>2, <2>3 DEF AllRepaired, Repaired
  <2> QED BY <2>1, <2>4 DEF Good, Launch!There, Launch!Uid
<1>4. Launch!LeftAsFound
  BY <1>2, <1>3 DEF Launch!LeftAsFound
<1> QED BY <1>1, <1>4 DEF Launch!LaunchedAsAsked

RunPart == part = "launch" => RunInv

(* The invariant is about these variables alone.                           *)
LEMMA RunStutters ==
  ASSUME RunInv, UNCHANGED <<w1, w2, w3, w4, w5>>
  PROVE  RunInv'
BY DEF RunInv, LaunchFields, Fixes, PrivateStages, HelperStages, FsStages, LaunchStages, LaunchOk,
     LaunchTypes, MachineTypes, FdTypes, SweptOk, Swept, EnvOk, PersonOk, ChildOk, ChildrenOk,
     ThreadsIs, BorrowedOk, PrivateOk, PrivateTypes, DirOk, DirsOk, Relies, Fixing, Good, Repaired,
     AllRepaired, Launch!AskOk, Launch!Machine, Launch!Resolves, Launch!Rule, Launch!fowner,
     Launch!looks_secret, Launch!person_withheld, Launch!withheld_from_person

(* Whatever part runs, this one keeps its invariant.                       *)
LEMMA RunAlways ==
  ASSUME RunPart, [RunningNext]_partVars
  PROVE  RunPart'
<1> SUFFICES ASSUME part' = "launch" PROVE RunInv'
  BY DEF RunPart
<1>1. part = "launch"
  BY DEF RunningNext, partVars
<1>2. RunInv
  BY <1>1 DEF RunPart
<1>3. CASE Launch!RunNext
  BY <1>2, <1>3, RunStep
<1>4. CASE UNCHANGED <<w1, w2, w3, w4, w5>>
  BY <1>2, <1>4, RunStutters
<1> QED BY <1>1, <1>3, <1>4 DEF RunningNext, partVars, From1, From3, From4, From5, From6, From7, From8,
     From10, From12, From13, From15, From17

(* A child is what its request asked and no more, and a launch leaves the  *)
(* person's directory and the process as it should, for any launchers,     *)
(* requests, images and failing system calls (identity.rs, secret_env.rs   *)
(* and spawn.rs of sealant-process).                                       *)
THEOREM LaunchCorrect == RunningSpec => []LaunchedAsAsked
<1>1. RunningInit => RunPart
  BY RunInitial DEF RunningInit, RunPart
<1>2. RunPart /\ [RunningNext]_partVars => RunPart'
  BY RunAlways
<1>3. RunPart => LaunchedAsAsked
  BY RunInvImplies DEF LaunchedAsAsked, RunPart
<1> QED BY <1>1, <1>2, <1>3, PTL DEF RunningSpec

-------------------------------------------------------------------------------
(* Session: w1 to w14 are the variables of the sessions in the order of    *)
(* their module.                                                           *)

SubSteps == {"off", "look", "exit", "read", "send", "wait", "clean", "error"}
SubFields == {"pc", "s", "cursor", "exited", "batch", "woken", "gap"}
Drains == [on : BOOLEAN, budget : 0 .. DrainBudget, quiet : BOOLEAN, done : BOOLEAN]
Journals ==
  [recs : Seq(Nat), old : Nat, cur : Nat, torn : BOOLEAN, bad : SUBSET Nat, failed : BOOLEAN, files : BOOLEAN]

ProcessTypes ==
  /\ w2 \in [SessionNames -> Leaders] /\ w3 \in [SessionNames -> {"up", "killed", "dead"}]
  /\ w4 \in [SessionNames -> Nat] /\ w5 \in [SessionNames -> Nat] /\ w7 \in [SessionNames -> Nat]
ReaderTypes == w6 \in [SessionNames -> Nat] /\ w8 \in [SessionNames -> Drains] /\ w9 \in [SessionNames -> Journals]
PhaseTypes == w1 \in [SessionNames -> Sessions!Phases]
SubTypes ==
  /\ DOMAIN w14 = Channels
  /\ \A c \in Channels :
       /\ DOMAIN w14[c] = SubFields /\ w14[c].pc \in SubSteps
       /\ w14[c].exited \in BOOLEAN /\ w14[c].gap \in BOOLEAN /\ w14[c].woken \in BOOLEAN
       /\ w14[c].pc # "off" => w14[c].s \in SessionNames

(* What is read was shown, what is shown was written, and no more waits to *)
(* be read than the buffer takes.                                          *)
CountOk(s) ==
  /\ w6[s] <= w5[s] /\ w5[s] <= w4[s] /\ w4[s] <= w2[s].output
  /\ w7[s] <= w4[s] /\ w4[s] - w6[s] <= Buffer
  /\ w2[s].mode = "pipe" => w5[s] = w4[s]
CountsOk == \A s \in SessionNames : CountOk(s)

(* The drain begins after the exit with a budget for all that is owed, and *)
(* a capture ends with all that was owed.                                  *)
DrainOk(s) ==
  /\ Sessions!Exited(s) => w3[s] = "dead"
  /\ w8[s].on => Sessions!Exited(s) /\ w7[s] <= w6[s] + w8[s].budget
  /\ w8[s].done => w3[s] = "dead" /\ w7[s] <= w6[s]
  /\ w1[s] \in {"drained", "cut", "marked", "unlisted", "settled"} => w8[s].done
DrainsOk == \A s \in SessionNames : DrainOk(s)

(* A journal whose appends succeeded can be read whole, and holds all that *)
(* was read once the capture has ended.                                    *)
LastOf(j) == IF j.recs = <<>> THEN 0 ELSE j.recs[Len(j.recs)]
JournalOk(s) ==
  /\ w9[s].old <= w9[s].cur /\ w9[s].cur <= Len(w9[s].recs)
  /\ ~w9[s].failed =>
       /\ ~w9[s].torn /\ w9[s].bad = {} /\ LastOf(w9[s]) <= w6[s]
       /\ w8[s].done => LastOf(w9[s]) = w6[s]
JournalsOk == \A s \in SessionNames : JournalOk(s)

(* A subscription that saw the exit, or ended on it, is of a session whose *)
(* capture has ended.                                                      *)
ExitOk(f) ==
  /\ f.pc \notin Sessions!Ended => w1[f.s] \notin {"new", "checked", "gone"}
  /\ f.pc = "clean" \/ (f.pc = "read" /\ f.exited) => w8[f.s].done
ExitsOk == \A c \in Channels : ExitOk(w14[c])

(* A cursor is within the journal, what is being sent starts at it without *)
(* a hole, and a clean end is the journal's.                               *)
CursorOk(f) ==
  f.pc # "off" /\ ~w9[f.s].failed =>
    /\ f.cursor \in Nat /\ f.cursor <= Len(w9[f.s].recs) /\ ~f.gap
    /\ f.pc = "send" =>
         \E h \in f.cursor .. Len(w9[f.s].recs) - 1 : f.batch = f.cursor .. h
    /\ f.pc = "clean" => f.cursor = Len(w9[f.s].recs)
CursorsOk == \A c \in Channels : CursorOk(w14[c]) /\ (w14[c].pc = "off" => ~w14[c].gap)

(* The tombstones are the settled sessions, each once.                     *)
Tombstones ==
  /\ w12 \in Seq(SessionNames) /\ Len(w12) <= Cap
  /\ \A i, k \in DOMAIN w12 : w12[i] = w12[k] => i = k
  /\ \A s \in SessionNames : w1[s] = "settled" <=> \E i \in DOMAIN w12 : w12[i] = s

SessCounted == {"live", "reaped", "drained", "cut", "marked", "unlisted"}
ActiveIs == w13 = Cardinality({s \in SessionNames : w1[s] \in SessCounted})

SessInv ==
  /\ ProcessTypes
  /\ ReaderTypes
  /\ PhaseTypes
  /\ SubTypes
  /\ CountsOk
  /\ DrainsOk
  /\ JournalsOk
  /\ ExitsOk
  /\ CursorsOk
  /\ Tombstones
  /\ ActiveIs

(* What the code says of the constants, one by one.                        *)
LEMMA SessConstants ==
  /\ \A l \in Leaders : l.mode \in {"pty",
       "pipe"} /\ l.output \in Nat /\ l.helper \in BOOLEAN /\ l.fails \in BOOLEAN
  /\ Cap \in Nat /\ Cap > 0 /\ SegmentRecords \in Nat /\ SegmentRecords > 0 /\ BatchRecords \in Nat
  /\ BatchRecords > 0
  /\ Buffer \in Nat /\ DrainBudget \in Nat /\ DrainBudget >= Buffer /\ DrainBudget > 0
  BY SessionConstant DEF Sessions!SessionConstants

(* There are finitely many sessions.                                       *)
LEMMA SessFinite == IsFiniteSet(SessionNames)
  BY SessionConstant DEF Sessions!SessionConstants, Sessions!IsFiniteSet, IsFiniteSet

(* A wake of the subscriptions changes nothing else of them.               *)
SubSame ==
  /\ DOMAIN w14' = Channels
  /\ \A c \in Channels :
       /\ DOMAIN w14'[c] = SubFields /\ w14'[c].woken \in BOOLEAN
       /\ w14'[c].pc = w14[c].pc /\ w14'[c].s = w14[c].s /\ w14'[c].cursor = w14[c].cursor
       /\ w14'[c].exited = w14[c].exited /\ w14'[c].batch = w14[c].batch /\ w14'[c].gap = w14[c].gap

(* A wake changes nothing else of a subscription.                          *)
LEMMA SessWoken ==
  ASSUME SubTypes, NEW s, w14' = Sessions!Woken(s)
  PROVE  SubSame
BY DEF SubTypes, SubSame, Sessions!Woken, SubFields

(* Subscriptions that were only woken keep their types.                    *)
LEMMA SessSame ==
  ASSUME SubTypes, SubSame
  PROVE  SubTypes'
BY DEF SubTypes, SubSame

(* A rotation keeps the records.                                           *)
LEMMA SessRotated ==
  ASSUME NEW j \in Journals, j.old <= j.cur, j.cur <= Len(j.recs), NEW r, r = Sessions!Rotated(j)
  PROVE  /\ r \in Journals /\ r.recs = j.recs /\ r.failed = j.failed /\ r.bad = j.bad /\ (~j.torn => ~r.torn)
         /\ r.old <= r.cur /\ r.cur <= Len(j.recs)
<1>1. j.recs \in Seq(Nat) /\ j.old \in Nat /\ j.cur \in Nat /\ Len(j.recs) \in Nat
  BY DEF Journals
<1>2. CASE r = j
  BY <1>1, <1>2
<1>3. CASE r = [j EXCEPT !.old = j.cur, !.cur = Sessions!NextSeq(j), !.torn = FALSE]
  <2>1. r \in Journals
    BY <1>1, <1>3 DEF Journals, Sessions!NextSeq
  <2>2. /\ r.old = j.cur /\ r.cur = Len(j.recs) /\ r.torn = FALSE
        /\ r.recs = j.recs /\ r.failed = j.failed /\ r.bad = j.bad
    BY <1>3 DEF Journals, Sessions!NextSeq
  <2> QED BY <1>1, <2>1, <2>2
<1> QED BY <1>2, <1>3 DEF Sessions!Rotated

(* What a journal is after an append that succeeded, and after one that    *)
(* failed.                                                                 *)
LEMMA SessAppended ==
  ASSUME NEW j \in Journals, j.old <= j.cur, j.cur <= Len(j.recs), NEW n \in Nat
  PROVE  /\ Sessions!Appended(j, n) \in Journals
         /\ Sessions!Appended(j, n).recs = Append(j.recs, n) /\ Sessions!Appended(j, n).failed = j.failed
         /\ Sessions!Appended(j, n).old <= Sessions!Appended(j, n).cur
         /\ Sessions!Appended(j, n).cur <= Len(j.recs)
         /\ ~j.torn => ~Sessions!Appended(j, n).torn /\ Sessions!Appended(j, n).bad = j.bad
<1> DEFINE r == Sessions!Rotated(j)
<1>1. /\ r \in Journals /\ r.recs = j.recs /\ r.failed = j.failed /\ r.bad = j.bad
      /\ (~j.torn => ~r.torn)
      /\ r.old <= r.cur /\ r.cur <= Len(j.recs)
  BY SessRotated
<1> HIDE DEF r
<1>2. Sessions!Appended(j, n) = [r EXCEPT !.recs = Append(r.recs, n),
     !.bad = IF r.torn THEN r.bad \cup {Sessions!NextSeq(r)} ELSE r.bad]
  BY DEF Sessions!Appended, r
<1>3. Append(r.recs, n) \in Seq(Nat) /\ Sessions!NextSeq(r) \in Nat
  BY <1>1 DEF Journals, Sessions!NextSeq
<1> HIDE DEF r
<1> DEFINE a == Sessions!Appended(j, n)
<1>4. a = [r EXCEPT !.recs = Append(r.recs, n),
     !.bad = IF r.torn THEN r.bad \cup {Sessions!NextSeq(r)} ELSE r.bad]
  BY <1>2
<1> HIDE DEF a
<1>5. (IF r.torn THEN r.bad \cup {Sessions!NextSeq(r)} ELSE r.bad) \in SUBSET Nat
  BY <1>1, <1>3 DEF Journals
<1>6. a \in Journals
  BY <1>1, <1>3, <1>4, <1>5 DEF Journals
<1>7. /\ a.recs = Append(r.recs, n) /\ a.failed = r.failed
      /\ a.old = r.old /\ a.cur = r.cur /\ a.torn = r.torn
      /\ a.bad = IF r.torn THEN r.bad \cup {Sessions!NextSeq(r)} ELSE r.bad
  BY <1>1, <1>4 DEF Journals
<1>8. ~j.torn => ~a.torn /\ a.bad = j.bad
  BY <1>1, <1>7
<1> QED BY <1>1, <1>6, <1>7, <1>8 DEF a

(* What a journal is after an append that failed.                          *)
LEMMA SessAppendFails ==
  ASSUME NEW j \in Journals, j.old <= j.cur, j.cur <= Len(j.recs), NEW k \in Sessions!AppendFailures(j)
  PROVE  k \in Journals /\ k.recs = j.recs /\ k.failed /\ k.old <= k.cur /\ k.cur <= Len(j.recs)
<1> DEFINE r == Sessions!Rotated(j)
<1>1. r \in Journals /\ r.recs = j.recs /\ r.old <= r.cur /\ r.cur <= Len(j.recs)
  BY SessRotated
<1> HIDE DEF r
<1>2. (\E torn \in BOOLEAN : k = [r EXCEPT !.torn = torn, !.failed = TRUE]) \/ k = [j EXCEPT !.failed = TRUE]
  BY DEF Sessions!AppendFailures, r
<1> QED BY <1>1, <1>2 DEF Journals

(* What writing to the journal of a session changes.                       *)
JournalMoved(s, n) ==
  /\ w9' \in [SessionNames -> Journals] /\ \A t \in SessionNames \ {s} : w9'[t] = w9[t]
  /\ w9'[s].old <= w9'[s].cur /\ w9'[s].cur <= Len(w9'[s].recs)
  /\ Len(w9[s].recs) <= Len(w9'[s].recs)
  /\ w9[s].failed => w9'[s].failed
  /\ ~w9'[s].failed =>
       ~w9'[s].torn /\ w9'[s].bad = {} /\ w9'[s].recs # <<>> /\ LastOf(w9'[s]) = n

(* What writing to the journal of a session changes.                       *)
LEMMA SessJournal ==
  ASSUME ReaderTypes, JournalsOk, SubTypes, NEW s \in SessionNames, NEW n \in Nat, Sessions!Journal(s, n)
  PROVE  JournalMoved(s, n) /\ SubSame
<1> DEFINE j == w9[s]
<1>1. j \in Journals /\ j.old <= j.cur /\ j.cur <= Len(j.recs) /\ (~j.failed => ~j.torn /\ j.bad = {})
  BY DEF ReaderTypes, JournalsOk, JournalOk
<1>2. SubSame
  BY SessWoken DEF Sessions!Journal
<1>3. CASE w9' = [w9 EXCEPT ![s] = Sessions!Appended(@, n)]
  <2> DEFINE k == Sessions!Appended(j, n)
  <2>1. /\ k \in Journals /\ k.recs = Append(j.recs, n) /\ k.failed = j.failed
        /\ k.old <= k.cur /\ k.cur <= Len(j.recs) /\ (~j.torn => ~k.torn /\ k.bad = j.bad)
    BY <1>1, SessAppended
  <2>2. w9'[s] = k /\ w9' \in [SessionNames -> Journals] /\ \A t \in SessionNames \ {s} : w9'[t] = w9[t]
    BY <1>3, <2>1 DEF ReaderTypes
  <2>3. j.recs \in Seq(Nat)
    BY <1>1 DEF Journals
  <2> HIDE DEF k, j
  <2>4. Len(k.recs) = Len(j.recs) + 1 /\ k.recs # <<>> /\ k.recs[Len(k.recs)] = n /\ Len(j.recs) \in Nat
    BY <2>1, <2>3
  <2>5. k.old \in Nat /\ k.cur \in Nat
    BY <2>1 DEF Journals
  <2>6. /\ k.old <= k.cur /\ k.cur <= Len(k.recs) /\ Len(j.recs) <= Len(k.recs)
        /\ ~k.failed => ~k.torn /\ k.bad = {} /\ k.recs # <<>> /\ LastOf(k) = n
    BY <1>1, <2>1, <2>4, <2>5 DEF LastOf
  <2>7. w9[s] = j
    BY DEF j
  <2> QED BY <1>2, <2>1, <2>2, <2>6, <2>7 DEF JournalMoved
<1>4. CASE \E k \in Sessions!AppendFailures(w9[s]) : w9' = [w9 EXCEPT ![s] = k]
  <2>1. PICK k \in Sessions!AppendFailures(w9[s]) : w9' = [w9 EXCEPT ![s] = k]
    BY <1>4
  <2>2. k \in Journals /\ k.recs = j.recs /\ k.failed /\ k.old <= k.cur /\ k.cur <= Len(j.recs)
    BY <1>1, SessAppendFails
  <2>3. w9'[s] = k /\ w9' \in [SessionNames -> Journals] /\ \A t \in SessionNames \ {s} : w9'[t] = w9[t]
    BY <2>1, <2>2 DEF ReaderTypes
  <2>4. Len(j.recs) \in Nat
    BY <1>1 DEF Journals
  <2> QED BY <1>2, <2>2, <2>3, <2>4 DEF JournalMoved
<1> QED BY <1>3, <1>4 DEF Sessions!Journal

(* The first n of a run of numbers.                                        *)
LEMMA SessFirstOf ==
  ASSUME NEW lo \in Nat, NEW hi \in Nat, NEW n \in Nat
  PROVE  /\ lo >= hi \/ n = 0 => Sessions!FirstOf(lo .. hi - 1, n) = {}
         /\ lo < hi /\ n > 0 =>
              Sessions!FirstOf(lo .. hi - 1, n) = lo .. (IF lo + n <= hi THEN lo + n - 1 ELSE hi - 1)
<1> DEFINE S == lo .. hi - 1
           T(q) == {p \in S : p < q}
<1>1. ASSUME NEW q \in S PROVE Cardinality(T(q)) = q - lo
  <2>1. T(q) = lo .. q - 1
    BY <1>1
  <2>2. q \in Nat /\ q >= lo
    BY <1>1
  <2>3. Cardinality(lo .. q - 1) = IF lo > q - 1 THEN 0 ELSE (q - 1) - lo + 1
    BY <2>2, FS_Interval
  <2> HIDE DEF T
  <2> QED BY <2>1, <2>2, <2>3
<1> DEFINE F == Sessions!FirstOf(S, n)
<1>2. F = {q \in S : q - lo < n}
  BY <1>1 DEF Sessions!FirstOf, Sessions!Cardinality, Cardinality
<1> HIDE DEF F
<1>3. lo >= hi \/ n = 0 => F = {}
  BY <1>2
<1>4. ASSUME lo + n <= hi, n > 0 PROVE F = lo .. (lo + n - 1)
  BY <1>2, <1>4
<1>5. ASSUME lo + n > hi, lo < hi PROVE F = lo .. (hi - 1)
  BY <1>2, <1>5
<1> QED BY <1>3, <1>4, <1>5 DEF F

(* What is read of a journal without a bad record is a run that starts at  *)
(* the cursor.                                                             *)
LEMMA SessReadFrom ==
  ASSUME NEW j \in Journals, j.bad = {}, j.old <= j.cur, j.cur <= Len(j.recs),
         NEW from \in Nat, j.old <= from, from <= Len(j.recs), Sessions!ReadFrom(j, from) # {}
  PROVE  \E h \in from .. Len(j.recs) - 1 : Sessions!ReadFrom(j, from) = from .. h
<1> DEFINE B == BatchRecords
           cur == j.cur
           len == Len(j.recs)
           prev == Sessions!FirstOf(Sessions!Run(j, from, cur), B)
           top == CHOOSE q \in prev : \A p \in prev : p <= q
           resume == IF prev = {} THEN from ELSE 1 + top
           lo == IF resume < cur THEN cur ELSE resume
           next == Sessions!FirstOf(Sessions!Run(j, lo, len), B - Cardinality(prev))
<1>0. cur \in Nat /\ len \in Nat /\ cur <= len /\ j.old \in Nat /\ B \in Nat /\ B > 0
  BY SessConstants DEF Journals
<1>1. Sessions!ReadFrom(j, from) = prev \cup next
  <2>1. j.files
    BY DEF Sessions!ReadFrom
  <2>2. (IF from < j.old THEN j.old ELSE from) = from
    BY <1>0
  <2> QED BY <2>1, <2>2 DEF Sessions!ReadFrom, Sessions!NextSeq, Sessions!Cardinality, Cardinality
<1>2. \A a, b \in Nat : Sessions!Run(j, a, b) = a .. b - 1
  BY DEF Sessions!Run
<1>3. prev = Sessions!FirstOf(from .. cur - 1, B)
  BY <1>0, <1>2
<1> HIDE DEF prev, B, cur, len
<1>4. CASE from >= cur
  <2>1. prev = {}
    BY <1>0, <1>3, <1>4, SessFirstOf
  <2>2. lo = from
    BY <1>0, <1>4, <2>1
  <2>3. Cardinality(prev) = 0
    BY <2>1, FS_EmptySet
  <2>4. next = Sessions!FirstOf(from .. len - 1, B)
    BY <1>0, <1>2, <2>2, <2>3 DEF Sessions!NextSeq, Sessions!Cardinality, Cardinality
  <2> HIDE DEF next
  <2>5. from < len
    <3>1. next # {}
      BY <1>1, <2>1
    <3>2. ~(from >= len)
      BY <1>0, <2>4, <3>1, SessFirstOf
    <3> QED BY <1>0, <3>2
  <2> DEFINE h == IF from + B <= len THEN from + B - 1 ELSE len - 1
  <2>6. next = from .. h
    BY <1>0, <2>4, <2>5, SessFirstOf
  <2>7. h \in from .. len - 1
    BY <1>0, <2>5
  <2> QED BY <1>1, <2>1, <2>6, <2>7 DEF len
<1>5. CASE from < cur
  <2> DEFINE e == IF from + B <= cur THEN from + B - 1 ELSE cur - 1
  <2>1. prev = from .. e
    BY <1>0, <1>3, <1>5, SessFirstOf
  <2>2. e \in from .. cur - 1
    BY <1>0, <1>5
  <2> HIDE DEF e
  <2>3. top = e
    <3>1. e \in prev /\ \A p \in prev : p <= e
      BY <1>0, <2>1, <2>2
    <3>2. \A q \in prev : (\A p \in prev : p <= q) => q = e
      BY <1>0, <2>1, <2>2, <3>1
    <3> QED BY <3>1, <3>2
  <2> HIDE DEF top
  <2>4. resume = e + 1
    <3>1. prev # {}
      BY <1>0, <2>1, <2>2
    <3> QED BY <1>0, <2>2, <2>3, <3>1
  <2>5. Cardinality(prev) = e - from + 1
    <3>1. Cardinality(from .. e) = IF from > e THEN 0 ELSE e - from + 1
      BY <1>0, <2>2, FS_Interval
    <3> QED BY <1>0, <2>1, <2>2, <3>1
  <2>6. lo = cur
    BY <1>0, <2>2, <2>4
  <2> DEFINE m == B - (e - from + 1)
  <2>7. m \in Nat /\ (m > 0 => e = cur - 1)
    BY <1>0, <1>5, <2>2 DEF e
  <2>8. next = Sessions!FirstOf(cur .. len - 1, m)
    BY <1>0, <1>2, <2>5, <2>6 DEF Sessions!NextSeq, Sessions!Cardinality, Cardinality
  <2> HIDE DEF next, m
  <2>9. CASE cur >= len \/ m = 0
    <3>1. next = {}
      BY <1>0, <2>7, <2>8, <2>9, SessFirstOf
    <3> QED BY <1>0, <1>1, <2>1, <2>2, <3>1 DEF len
  <2>10. CASE cur < len /\ m > 0
    <3> DEFINE h == IF cur + m <= len THEN cur + m - 1 ELSE len - 1
    <3>1. next = cur .. h
      BY <1>0, <2>7, <2>8, <2>10, SessFirstOf
    <3>2. h \in cur .. len - 1
      BY <1>0, <2>7, <2>10
    <3> HIDE DEF h
    <3>3. prev \cup next = from .. h
      BY <1>0, <1>5, <2>1, <2>7, <2>10, <3>1, <3>2
    <3>4. h \in from .. len - 1
      BY <1>0, <1>5, <3>2
    <3> QED BY <1>1, <3>3, <3>4 DEF len
  <2> QED BY <1>0, <2>7, <2>9, <2>10
<1> QED BY <1>0, <1>4, <1>5

(* What the reader's taking a chunk changes.                               *)
TookMoved(s) ==
  /\ w6' \in [SessionNames -> Nat] /\ w8' \in [SessionNames -> Drains]
  /\ w6'[s] = w6[s] + 1 /\ w8'[s].on = w8[s].on /\ w8'[s].done = w8[s].done
  /\ w8[s].on => w8'[s].budget = w8[s].budget - 1
  /\ \A t \in SessionNames \ {s} : w6'[t] = w6[t] /\ w8'[t] = w8[t]

(* What the reader's taking a chunk changes.                               *)
LEMMA SessTook ==
  ASSUME ReaderTypes, NEW s \in SessionNames, Sessions!Took(s), w8[s].on => w8[s].budget > 0
  PROVE  TookMoved(s)
<1>1. w6[s] \in Nat /\ w8[s] \in Drains /\ DrainBudget \in Nat
  BY SessConstants DEF ReaderTypes
<1>2. w6' \in [SessionNames -> Nat] /\ w6'[s] = w6[s] + 1 /\ \A t \in SessionNames \ {s} : w6'[t] = w6[t]
  BY <1>1 DEF Sessions!Took, ReaderTypes
<1>3. CASE ~w8[s].on
  BY <1>2, <1>3 DEF Sessions!Took, TookMoved, ReaderTypes
<1>4. CASE w8[s].on
  <2> DEFINE d == [w8[s] EXCEPT !.budget = w8[s].budget - 1, !.quiet = FALSE]
  <2>0. w8[s].budget - 1 \in 0 .. DrainBudget
    BY <1>1, <1>4 DEF Drains
  <2>1. d \in Drains
    BY <1>1, <2>0 DEF Drains
  <2>2. d.on = w8[s].on /\ d.done = w8[s].done /\ d.budget = w8[s].budget - 1
    BY <1>1 DEF Drains
  <2>3. w8' = [w8 EXCEPT ![s] = d]
    BY <1>4 DEF Sessions!Took
  <2> HIDE DEF d
  <2>4. w8'[s] = d /\ w8' \in [SessionNames -> Drains] /\ \A t \in SessionNames \ {s} : w8'[t] = w8[t]
    BY <2>1, <2>3 DEF ReaderTypes
  <2> QED BY <1>2, <2>2, <2>4 DEF TookMoved, ReaderTypes
<1> QED BY <1>3, <1>4

(* A chunk taken keeps the counts and the drains.                          *)
LEMMA SessTookCounts ==
  ASSUME ProcessTypes, ReaderTypes, CountsOk, DrainsOk, PhaseTypes, NEW s \in SessionNames,
       TookMoved(s), w6[s] < w5[s],
         UNCHANGED <<w2, w3, w4, w5, w7, w1>>
  PROVE  CountsOk' /\ DrainsOk'
<1>0. \A t \in SessionNames : /\ w6[t] \in Nat /\ w5[t] \in Nat /\ w4[t] \in Nat /\ w7[t] \in Nat
                          /\ w8[t].budget \in Nat /\ w8'[t].budget \in Nat /\ w2[t].output \in Nat
  BY SessConstants DEF ProcessTypes, ReaderTypes, Drains, TookMoved
<1>1. Buffer \in Nat
  BY SessConstants
<1>2. CountsOk'
  <2> SUFFICES ASSUME NEW t \in SessionNames PROVE CountOk(t)'
    BY DEF CountsOk
  <2>1. CountOk(t)
    BY DEF CountsOk
  <2> QED BY <1>0, <1>1, <2>1 DEF CountOk, TookMoved
<1>3. DrainsOk'
  <2> SUFFICES ASSUME NEW t \in SessionNames PROVE DrainOk(t)'
    BY DEF DrainsOk
  <2>1. DrainOk(t)
    BY DEF DrainsOk
  <2>2. CASE t # s
    BY <2>1, <2>2 DEF DrainOk, TookMoved, Sessions!Exited
  <2>3. CASE t = s
    BY <1>0, <2>1, <2>3 DEF DrainOk, TookMoved, Sessions!Exited
  <2> QED BY <2>2, <2>3
<1> QED BY <1>2, <1>3

(* Another journal with the same records and failure, or a longer one,     *)
(* leaves the subscriptions where they were.                               *)
LEMMA SessCursors ==
  ASSUME SubTypes, ReaderTypes, CursorsOk, ExitsOk, SubSame, NEW s \in SessionNames, NEW n,
       JournalMoved(s, n), ~w8[s].done
  PROVE  CursorsOk'
<1> SUFFICES ASSUME NEW c \in Channels PROVE CursorOk(w14[c])' /\ (w14'[c].pc = "off" => ~w14'[c].gap)
  BY DEF CursorsOk
<1>1. CursorOk(w14[c]) /\ (w14[c].pc = "off" => ~w14[c].gap) /\ ExitOk(w14[c])
  BY DEF CursorsOk, ExitsOk
<1>2. /\ w14'[c].pc = w14[c].pc /\ w14'[c].s = w14[c].s /\ w14'[c].cursor = w14[c].cursor
      /\ w14'[c].batch = w14[c].batch /\ w14'[c].gap = w14[c].gap
  BY DEF SubSame
<1>3. CASE w14[c].pc = "off"
  BY <1>1, <1>2, <1>3 DEF CursorOk
<1>4. CASE w14[c].pc # "off" /\ w14[c].s # s
  <2>1. w9'[w14[c].s] = w9[w14[c].s]
    BY <1>4 DEF SubTypes, JournalMoved
  <2> QED BY <1>1, <1>2, <1>4, <2>1 DEF CursorOk
<1>5. CASE w14[c].pc # "off" /\ w14[c].s = s
  <2>1. w14[c].pc # "clean"
    BY <1>1, <1>5 DEF ExitOk
  <2>2. /\ Len(w9[s].recs) \in Nat /\ Len(w9'[s].recs) \in Nat /\ Len(w9[s].recs) <= Len(w9'[s].recs)
        /\ w9[s].failed => w9'[s].failed
    BY DEF JournalMoved, ReaderTypes, Journals
  <2>3. SUFFICES ASSUME ~w9'[s].failed PROVE CursorOk(w14[c])'
    BY <1>2, <1>5 DEF CursorOk
  <2>4. /\ w14[c].cursor \in Nat /\ w14[c].cursor <= Len(w9[s].recs) /\ ~w14[c].gap
        /\ w14[c].pc = "send" =>
             \E h \in w14[c].cursor .. Len(w9[s].recs) - 1 : w14[c].batch = w14[c].cursor .. h
    BY <1>1, <1>5, <2>2, <2>3 DEF CursorOk
  <2>5. w14[c].pc = "send" =>
          \E h \in w14[c].cursor .. Len(w9'[s].recs) - 1 : w14[c].batch = w14[c].cursor .. h
    BY <2>2, <2>4
  <2> QED BY <1>2, <1>5, <2>1, <2>2, <2>4, <2>5 DEF CursorOk
<1> QED BY <1>3, <1>4, <1>5

(* A journal written up to what was read keeps the journals.               *)
LEMMA SessJournalsOf ==
  ASSUME ReaderTypes, JournalsOk, NEW s \in SessionNames, NEW n \in Nat, JournalMoved(s, n),
         w6' \in [SessionNames -> Nat], w8' \in [SessionNames -> Drains], n = w6'[s],
         \A t \in SessionNames \ {s} : w6'[t] = w6[t] /\ w8'[t] = w8[t]
  PROVE  ReaderTypes' /\ JournalsOk'
<1>1. ReaderTypes'
  BY DEF ReaderTypes, JournalMoved
<1>2. JournalsOk'
  <2> SUFFICES ASSUME NEW t \in SessionNames PROVE JournalOk(t)'
    BY DEF JournalsOk
  <2>1. CASE t = s
    BY <2>1 DEF JournalOk, JournalMoved
  <2>2. CASE t # s
    <3>1. JournalOk(t) /\ w9'[t] = w9[t] /\ w6'[t] = w6[t] /\ w8'[t] = w8[t]
      BY <2>2 DEF JournalsOk, JournalMoved
    <3> QED BY <3>1 DEF JournalOk
  <2> QED BY <2>1, <2>2
<1> QED BY <1>1, <1>2

(* The drain of a session moves, and the subscriptions stay.               *)
LEMMA SessExits ==
  ASSUME SubTypes, ExitsOk, SubSame, NEW s \in SessionNames, w1' = w1,
         \A t \in SessionNames \ {s} : w8'[t] = w8[t], w8[s].done => w8'[s].done
  PROVE  ExitsOk'
<1> SUFFICES ASSUME NEW c \in Channels PROVE ExitOk(w14[c])'
  BY DEF ExitsOk
<1>1. ExitOk(w14[c]) /\ (w14[c].pc # "off" => w14[c].s \in SessionNames)
  BY DEF ExitsOk, SubTypes
<1>2. w14'[c].pc = w14[c].pc /\ w14'[c].s = w14[c].s /\ w14'[c].exited = w14[c].exited
  BY DEF SubSame
<1>3. w14[c].pc # "off" /\ w8[w14[c].s].done => w8'[w14[c].s].done
  BY <1>1
<1> QED BY <1>1, <1>2, <1>3 DEF ExitOk, Sessions!Ended

(* The subscriptions of sessions that are dropped end.                     *)
LEMMA SessCancelled ==
  ASSUME SubTypes, ReaderTypes, PhaseTypes, ExitsOk, CursorsOk, NEW gone \in SUBSET SessionNames,
       Sessions!Dropped(gone),
         w8' = w8, \A t \in SessionNames \ gone : w1'[t] \in {"new", "checked", "gone"} => w1'[t] = w1[t]
  PROVE  SubTypes' /\ ExitsOk' /\ CursorsOk'
<1>1. \A c \in Channels : w14'[c] = IF \E s \in gone : Sessions!Follows(c, s) THEN Sessions!Off ELSE w14[c]
  BY DEF Sessions!Dropped, Sessions!Cancelled
<1>2. DOMAIN w14' = Channels
  BY DEF Sessions!Dropped, Sessions!Cancelled
<1>3. \A t \in SessionNames : w9'[t].recs = w9[t].recs /\ w9'[t].failed = w9[t].failed
  BY DEF Sessions!Dropped, ReaderTypes, Journals
<1>4. SubTypes'
  <2>1. \A c \in Channels : w14'[c] = Sessions!Off \/ w14'[c] = w14[c]
    BY <1>1
  <2>2. DOMAIN Sessions!Off = SubFields /\ Sessions!Off.pc = "off" /\ Sessions!Off.exited = FALSE /\ Sessions!Off.gap = FALSE /\ Sessions!Off.woken = FALSE
    BY DEF Sessions!Off, SubFields
  <2> QED BY <1>2, <2>1, <2>2 DEF SubTypes, SubSteps
<1>5. ExitsOk'
  <2> SUFFICES ASSUME NEW c \in Channels PROVE ExitOk(w14[c])'
    BY DEF ExitsOk
  <2>1. CASE \E s \in gone : Sessions!Follows(c, s)
    BY <1>1, <2>1 DEF ExitOk, Sessions!Off, Sessions!Ended
  <2>2. CASE ~\E s \in gone : Sessions!Follows(c, s)
    <3>1. w14'[c] = w14[c] /\ ExitOk(w14[c]) /\ (w14[c].pc # "off" => w14[c].s \in SessionNames)
      BY <1>1, <2>2 DEF ExitsOk, SubTypes
    <3>2. w14[c].pc \notin Sessions!Ended => w14[c].s \in SessionNames \ gone
      BY <2>2, <3>1 DEF Sessions!Follows, Sessions!Ended
    <3> QED BY <3>1, <3>2 DEF ExitOk
  <2> QED BY <2>1, <2>2
<1>6. CursorsOk'
  <2> SUFFICES ASSUME NEW c \in Channels PROVE CursorOk(w14[c])' /\ (w14'[c].pc = "off" => ~w14'[c].gap)
    BY DEF CursorsOk
  <2>1. CASE w14'[c] = Sessions!Off
    BY <2>1 DEF CursorOk, Sessions!Off
  <2>2. CASE w14'[c] = w14[c]
    <3>1. CursorOk(w14[c]) /\ (w14[c].pc = "off" => ~w14[c].gap) /\ (w14[c].pc # "off" => w14[c].s \in SessionNames)
      BY DEF CursorsOk, SubTypes
    <3> QED BY <1>3, <2>2, <3>1 DEF CursorOk
  <2> QED BY <1>1, <2>1, <2>2
<1> QED BY <1>4, <1>5, <1>6

(* One channel moves.                                                      *)
LEMMA SessOneSub ==
  ASSUME SubTypes, ExitsOk, CursorsOk, NEW c \in Channels, NEW f, w14' = [w14 EXCEPT ![c] = f],
         UNCHANGED <<Sessions!reader, Sessions!registry>>, DOMAIN f = SubFields, f.pc \in SubSteps,
         f.exited \in BOOLEAN, f.gap \in BOOLEAN, f.woken \in BOOLEAN, f.pc # "off" => f.s \in SessionNames,
         ExitOk(f), CursorOk(f), f.pc = "off" => ~f.gap
  PROVE  SubTypes' /\ ExitsOk' /\ CursorsOk'
<1>1. w14'[c] = f /\ DOMAIN w14' = Channels /\ \A e \in Channels \ {c} : w14'[e] = w14[e]
  BY DEF SubTypes
<1>2. UNCHANGED <<w6, w8, w9, w1>>
  BY DEF Sessions!reader, Sessions!registry
<1>3. SubTypes'
  BY <1>1 DEF SubTypes
<1>4. ExitsOk'
  BY <1>1, <1>2 DEF ExitsOk, ExitOk
<1>5. CursorsOk'
  BY <1>1, <1>2 DEF CursorsOk, CursorOk
<1> QED BY <1>3, <1>4, <1>5

(* OpenCheck keeps the invariant.                                          *)
LEMMA SessOpenCheck ==
  ASSUME SessInv, NEW s \in SessionNames, Sessions!OpenCheck(s)
  PROVE  SessInv'
<1>0. /\ ProcessTypes /\ ReaderTypes /\ PhaseTypes /\ SubTypes /\ CountsOk /\ DrainsOk
      /\ JournalsOk /\ ExitsOk /\ CursorsOk /\ Tombstones /\ ActiveIs
  BY DEF SessInv
<1>1. PhaseTypes'
  BY <1>0 DEF Sessions!OpenCheck, Sessions!process, Sessions!reader, Sessions!registry, PhaseTypes,
       Sessions!Phases
<1>2. DrainsOk'
  BY <1>0 DEF Sessions!OpenCheck, Sessions!process, Sessions!reader, Sessions!registry, DrainsOk,
       ProcessTypes, ReaderTypes, PhaseTypes, DrainOk, Sessions!Exited, Drains, Sessions!Phases
<1>3. ExitsOk'
  BY <1>0 DEF Sessions!OpenCheck, Sessions!process, Sessions!reader, Sessions!registry, ExitsOk,
       SubTypes, ReaderTypes, PhaseTypes, ExitOk, Drains, Sessions!Ended, SubFields, SubSteps
<1>4. Tombstones'
  BY <1>0 DEF Sessions!OpenCheck, Sessions!process, Sessions!reader, Sessions!registry, Tombstones, PhaseTypes
<1>5. ActiveIs'
  BY <1>0 DEF Sessions!OpenCheck, Sessions!process, Sessions!reader, Sessions!registry, ActiveIs,
       PhaseTypes, SessCounted
<1>6. ProcessTypes' /\ ReaderTypes' /\ SubTypes' /\ CountsOk' /\ JournalsOk' /\ CursorsOk'
  BY <1>0 DEF Sessions!OpenCheck, Sessions!process, Sessions!reader, Sessions!registry, ProcessTypes,
       ReaderTypes, SubTypes, CountsOk, JournalsOk, CursorsOk, Sessions!Exited, CountOk, DrainOk,
       JournalOk, LastOf, ExitOk, CursorOk
<1> QED BY <1>1, <1>2, <1>3, <1>4, <1>5, <1>6 DEF SessInv

(* OpenFails keeps the invariant.                                          *)
LEMMA SessOpenFails ==
  ASSUME SessInv, NEW s \in SessionNames, Sessions!OpenFails(s)
  PROVE  SessInv'
<1>0. /\ ProcessTypes /\ ReaderTypes /\ PhaseTypes /\ SubTypes /\ CountsOk /\ DrainsOk
      /\ JournalsOk /\ ExitsOk /\ CursorsOk /\ Tombstones /\ ActiveIs
  BY DEF SessInv
<1>1. ProcessTypes'
  BY <1>0 DEF Sessions!OpenFails, Sessions!process, Sessions!reader, Sessions!registry, ProcessTypes
<1>2. PhaseTypes'
  BY <1>0 DEF Sessions!OpenFails, Sessions!process, Sessions!reader, Sessions!registry, PhaseTypes,
       Sessions!Phases
<1>3. DrainsOk'
  BY <1>0 DEF Sessions!OpenFails, Sessions!process, Sessions!reader, Sessions!registry, DrainsOk,
       ProcessTypes, ReaderTypes, PhaseTypes, DrainOk, Sessions!Exited, Drains, Sessions!Phases
<1>4. ExitsOk'
  BY <1>0 DEF Sessions!OpenFails, Sessions!process, Sessions!reader, Sessions!registry, ExitsOk,
       SubTypes, ReaderTypes, PhaseTypes, ExitOk, Drains, Sessions!Ended, SubFields, SubSteps
<1>5. Tombstones'
  BY <1>0 DEF Sessions!OpenFails, Sessions!process, Sessions!reader, Sessions!registry, Tombstones, PhaseTypes
<1>6. ActiveIs'
  BY <1>0 DEF Sessions!OpenFails, Sessions!process, Sessions!reader, Sessions!registry, ActiveIs,
       PhaseTypes, SessCounted
<1>7. ReaderTypes' /\ SubTypes' /\ CountsOk' /\ JournalsOk' /\ CursorsOk'
  BY <1>0 DEF Sessions!OpenFails, Sessions!process, Sessions!reader, Sessions!registry, ReaderTypes,
       SubTypes, CountsOk, JournalsOk, CursorsOk, Sessions!Exited, CountOk, DrainOk, JournalOk, LastOf,
       ExitOk, CursorOk
<1> QED BY <1>1, <1>2, <1>3, <1>4, <1>5, <1>6, <1>7 DEF SessInv

(* OpenInsert keeps the invariant.                                         *)
LEMMA SessOpenInsert ==
  ASSUME SessInv, NEW s \in SessionNames, Sessions!OpenInsert(s)
  PROVE  SessInv'
<1>0. /\ ProcessTypes /\ ReaderTypes /\ PhaseTypes /\ SubTypes /\ CountsOk /\ DrainsOk
      /\ JournalsOk /\ ExitsOk /\ CursorsOk /\ Tombstones /\ ActiveIs
  BY DEF SessInv
<1>1. PhaseTypes'
  BY <1>0 DEF Sessions!OpenInsert, Sessions!process, Sessions!reader, Sessions!registry, PhaseTypes,
       Sessions!Phases
<1>2. DrainsOk'
  BY <1>0 DEF Sessions!OpenInsert, Sessions!process, Sessions!reader, Sessions!registry, DrainsOk,
       ProcessTypes, ReaderTypes, PhaseTypes, DrainOk, Sessions!Exited, Drains, Sessions!Phases
<1>3. ExitsOk'
  BY <1>0 DEF Sessions!OpenInsert, Sessions!process, Sessions!reader, Sessions!registry, ExitsOk,
       SubTypes, ReaderTypes, PhaseTypes, ExitOk, Drains, Sessions!Ended, SubFields, SubSteps
<1>4. Tombstones'
  BY <1>0 DEF Sessions!OpenInsert, Sessions!process, Sessions!reader, Sessions!registry, Tombstones,
       PhaseTypes
<1>5. ActiveIs'
  <2> DEFINE T == {t \in SessionNames : w1[t] \in SessCounted}
             T1 == {t \in SessionNames : w1'[t] \in SessCounted}
  <2>1. w1[s] = "checked" /\ w1' = [w1 EXCEPT ![s] = "live"] /\ w13' = w13 + 1
    BY DEF Sessions!OpenInsert
  <2>2. T1 = T \cup {s} /\ s \notin T
    BY <1>0, <2>1 DEF PhaseTypes, SessCounted
  <2>3. IsFiniteSet(T)
    BY SessFinite, FS_Subset
  <2>4. w13 = Cardinality(T)
    BY <1>0 DEF ActiveIs, Sessions!Cardinality, Cardinality
  <2> HIDE DEF T, T1
  <2>5. Cardinality(T \cup {s}) = Cardinality(T) + 1
    BY <2>2, <2>3, FS_AddElement
  <2> QED BY <2>1, <2>2, <2>4, <2>5 DEF ActiveIs, T1, Sessions!Cardinality, Cardinality
<1>6. ProcessTypes' /\ ReaderTypes' /\ SubTypes' /\ CountsOk' /\ JournalsOk' /\ CursorsOk'
  BY <1>0 DEF Sessions!OpenInsert, Sessions!process, Sessions!reader, Sessions!registry, ProcessTypes,
       ReaderTypes, SubTypes, CountsOk, JournalsOk, CursorsOk, Sessions!Exited, CountOk, DrainOk,
       JournalOk, LastOf, ExitOk, CursorOk
<1> QED BY <1>1, <1>2, <1>3, <1>4, <1>5, <1>6 DEF SessInv

(* Write keeps the invariant.                                              *)
LEMMA SessWrite ==
  ASSUME SessInv, NEW s \in SessionNames, Sessions!Write(s)
  PROVE  SessInv'
<1>0. /\ ProcessTypes /\ ReaderTypes /\ PhaseTypes /\ SubTypes /\ CountsOk /\ DrainsOk
      /\ JournalsOk /\ ExitsOk /\ CursorsOk /\ Tombstones /\ ActiveIs
  BY DEF SessInv
<1>a. /\ w4' = [w4 EXCEPT ![s] = @ + 1] /\ w2' = w2 /\ w6' = w6 /\ w7' = w7
      /\ w5' = IF w2[s].mode = "pipe" THEN [w5 EXCEPT ![s] = @ + 1] ELSE w5
      /\ w4[s] < w2[s].output /\ w4[s] - w6[s] < Buffer
  BY DEF Sessions!Write, Sessions!CanWrite, Sessions!reader
<1>b. \A t \in SessionNames : /\ w6[t] \in Nat /\ w5[t] \in Nat /\ w4[t] \in Nat /\ w7[t] \in Nat
                          /\ w2[t].output \in Nat /\ Buffer \in Nat
  BY <1>0, SessConstants DEF ProcessTypes, ReaderTypes
<1>1. ProcessTypes'
  BY <1>0 DEF Sessions!Write, Sessions!CanWrite, Sessions!Running, Sessions!process, Sessions!reader,
       Sessions!registry, ProcessTypes
<1>2. CountsOk'
  <2> SUFFICES ASSUME NEW t \in SessionNames PROVE CountOk(t)'
    BY DEF CountsOk
  <2>1. CountOk(t)
    BY <1>0 DEF CountsOk
  <2>2. CASE t # s
    BY <1>0, <1>a, <2>1, <2>2 DEF CountOk, ProcessTypes
  <2>3. CASE t = s
    <3>1. w4'[s] = w4[s] + 1 /\ (w2[s].mode = "pipe" => w5'[s] = w5[s] + 1)
          /\ (w2[s].mode # "pipe" => w5'[s] = w5[s])
      BY <1>0, <1>a DEF ProcessTypes
    <3> QED BY <1>a, <1>b, <2>1, <2>3, <3>1 DEF CountOk
  <2> QED BY <2>2, <2>3
<1>3. /\ ReaderTypes' /\ PhaseTypes' /\ SubTypes' /\ DrainsOk' /\ JournalsOk' /\ ExitsOk'
      /\ CursorsOk' /\ Tombstones' /\ ActiveIs'
  BY <1>0 DEF Sessions!Write, Sessions!CanWrite, Sessions!Running, Sessions!process, Sessions!reader,
       Sessions!registry, ReaderTypes, PhaseTypes, SubTypes, DrainsOk, JournalsOk, ExitsOk, CursorsOk,
       Tombstones, ActiveIs, Sessions!Exited, CountOk, DrainOk, JournalOk, LastOf, ExitOk, CursorOk
<1> QED BY <1>1, <1>2, <1>3 DEF SessInv

(* TtyShows keeps the invariant.                                           *)
LEMMA SessTtyShows ==
  ASSUME SessInv, NEW s \in SessionNames, Sessions!TtyShows(s)
  PROVE  SessInv'
<1>0. /\ ProcessTypes /\ ReaderTypes /\ PhaseTypes /\ SubTypes /\ CountsOk /\ DrainsOk
      /\ JournalsOk /\ ExitsOk /\ CursorsOk /\ Tombstones /\ ActiveIs
  BY DEF SessInv
<1>1. ProcessTypes'
  BY <1>0 DEF Sessions!TtyShows, Sessions!process, Sessions!reader, Sessions!registry, ProcessTypes
<1>2. CountsOk'
  BY <1>0 DEF Sessions!TtyShows, Sessions!process, Sessions!reader, Sessions!registry, CountsOk,
       ProcessTypes, ReaderTypes, CountOk
<1>3. /\ ReaderTypes' /\ PhaseTypes' /\ SubTypes' /\ DrainsOk' /\ JournalsOk' /\ ExitsOk'
      /\ CursorsOk' /\ Tombstones' /\ ActiveIs'
  BY <1>0 DEF Sessions!TtyShows, Sessions!process, Sessions!reader, Sessions!registry, ReaderTypes,
       PhaseTypes, SubTypes, DrainsOk, JournalsOk, ExitsOk, CursorsOk, Tombstones, ActiveIs,
       Sessions!Exited, CountOk, DrainOk, JournalOk, LastOf, ExitOk, CursorOk
<1> QED BY <1>1, <1>2, <1>3 DEF SessInv

(* LeaderExits keeps the invariant.                                        *)
LEMMA SessLeaderExits ==
  ASSUME SessInv, NEW s \in SessionNames, Sessions!LeaderExits(s)
  PROVE  SessInv'
<1>0. /\ ProcessTypes /\ ReaderTypes /\ PhaseTypes /\ SubTypes /\ CountsOk /\ DrainsOk
      /\ JournalsOk /\ ExitsOk /\ CursorsOk /\ Tombstones /\ ActiveIs
  BY DEF SessInv
<1>1. ProcessTypes'
  BY <1>0 DEF Sessions!LeaderExits, Sessions!Running, Sessions!process, Sessions!reader,
       Sessions!registry, ProcessTypes
<1>2. CountsOk'
  BY <1>0 DEF Sessions!LeaderExits, Sessions!Running, Sessions!process, Sessions!reader,
       Sessions!registry, CountsOk, ProcessTypes, ReaderTypes, CountOk
<1>3. DrainsOk'
  BY <1>0 DEF Sessions!LeaderExits, Sessions!Running, Sessions!process, Sessions!reader,
       Sessions!registry, DrainsOk, ProcessTypes, ReaderTypes, PhaseTypes, DrainOk, Sessions!Exited,
       Drains, Sessions!Phases
<1>4. /\ ReaderTypes' /\ PhaseTypes' /\ SubTypes' /\ JournalsOk' /\ ExitsOk' /\ CursorsOk'
      /\ Tombstones' /\ ActiveIs'
  BY <1>0 DEF Sessions!LeaderExits, Sessions!Running, Sessions!process, Sessions!reader,
       Sessions!registry, ReaderTypes, PhaseTypes, SubTypes, JournalsOk, ExitsOk, CursorsOk, Tombstones,
       ActiveIs, Sessions!Exited, CountOk, DrainOk, JournalOk, LastOf, ExitOk, CursorOk
<1> QED BY <1>1, <1>2, <1>3, <1>4 DEF SessInv

(* DrainStarts keeps the invariant.                                        *)
LEMMA SessDrainStarts ==
  ASSUME SessInv, NEW s \in SessionNames, Sessions!DrainStarts(s)
  PROVE  SessInv'
<1>0. /\ ProcessTypes /\ ReaderTypes /\ PhaseTypes /\ SubTypes /\ CountsOk /\ DrainsOk
      /\ JournalsOk /\ ExitsOk /\ CursorsOk /\ Tombstones /\ ActiveIs
  BY DEF SessInv
<1>a. /\ w8' = [w8 EXCEPT ![s] = [Sessions!Undrained EXCEPT !.on = TRUE, !.budget = DrainBudget]]
      /\ w6' = w6 /\ w9' = w9 /\ Sessions!Exited(s) /\ ~w8[s].done
  BY DEF Sessions!DrainStarts, Sessions!Reading
<1> DEFINE d == [Sessions!Undrained EXCEPT !.on = TRUE, !.budget = DrainBudget]
<1>b. DrainBudget \in Nat /\ Buffer \in Nat /\ DrainBudget >= Buffer
  BY SessConstants
<1>c. d \in Drains /\ d.on /\ d.budget = DrainBudget /\ ~d.done
  <2>1. Sessions!Undrained \in Drains /\ ~Sessions!Undrained.done
    BY <1>b DEF Sessions!Undrained, Drains
  <2>2. DrainBudget \in 0 .. DrainBudget
    BY <1>b
  <2>3. d \in Drains
    BY <2>1, <2>2 DEF Drains
  <2>4. d.on /\ d.budget = DrainBudget /\ ~d.done
    BY <2>1 DEF Drains
  <2> QED BY <2>3, <2>4
<1> HIDE DEF d
<1>d. w8' \in [SessionNames -> Drains] /\ w8'[s] = d /\ \A t \in SessionNames \ {s} : w8'[t] = w8[t]
  BY <1>0, <1>a, <1>c DEF ReaderTypes, d
<1>1. ReaderTypes'
  BY <1>0, <1>a, <1>d DEF ReaderTypes
<1>2. DrainsOk'
  <2> SUFFICES ASSUME NEW t \in SessionNames PROVE DrainOk(t)'
    BY DEF DrainsOk
  <2>1. DrainOk(t) /\ CountOk(t)
    BY <1>0 DEF DrainsOk, CountsOk
  <2>2. UNCHANGED <<w1, w3, w7>>
    BY DEF Sessions!DrainStarts, Sessions!process, Sessions!registry
  <2>3. CASE t # s
    BY <1>a, <1>d, <2>1, <2>2, <2>3 DEF DrainOk, Sessions!Exited
  <2>4. CASE t = s
    <3>1. w6[s] \in Nat /\ w4[s] \in Nat /\ w7[s] \in Nat
      BY <1>0 DEF ProcessTypes, ReaderTypes
    <3>2. w7[s] <= w6[s] + DrainBudget
      BY <1>b, <2>1, <2>4, <3>1 DEF CountOk
    <3> QED BY <1>a, <1>c, <1>d, <2>1, <2>2, <2>4, <3>2 DEF DrainOk, Sessions!Exited
  <2> QED BY <2>3, <2>4
<1>3. JournalsOk'
  BY <1>0, <1>a, <1>c, <1>d DEF JournalsOk, JournalOk
<1>4. ExitsOk'
  <2>1. SubSame
    BY <1>0 DEF SubTypes, SubSame, Sessions!DrainStarts
  <2>2. w1' = w1
    BY DEF Sessions!DrainStarts, Sessions!registry
  <2> QED BY <1>0, <1>a, <1>d, <2>1, <2>2, SessExits
<1>5. /\ ProcessTypes' /\ PhaseTypes' /\ SubTypes' /\ CountsOk' /\ CursorsOk' /\ Tombstones'
      /\ ActiveIs'
  BY <1>0 DEF Sessions!DrainStarts, Sessions!Reading, Sessions!Running, Sessions!Undrained,
       Sessions!process, Sessions!reader, Sessions!registry, ProcessTypes, PhaseTypes, SubTypes,
       CountsOk, CursorsOk, Tombstones, ActiveIs, Sessions!Exited, CountOk, DrainOk, JournalOk, LastOf,
       ExitOk, CursorOk
<1> QED BY <1>1, <1>2, <1>3, <1>4, <1>5 DEF SessInv

(* Deliver keeps the invariant.                                            *)
LEMMA SessDeliver ==
  ASSUME SessInv, NEW s \in SessionNames, Sessions!Deliver(s)
  PROVE  SessInv'
<1>0. /\ ProcessTypes /\ ReaderTypes /\ PhaseTypes /\ SubTypes /\ CountsOk /\ DrainsOk
      /\ JournalsOk /\ ExitsOk /\ CursorsOk /\ Tombstones /\ ActiveIs
  BY DEF SessInv
<1>a. /\ Sessions!Took(s) /\ w6[s] < w5[s] /\ ~w8[s].done /\ (w8[s].on => w8[s].budget > 0)
      /\ UNCHANGED <<Sessions!process, Sessions!registry>>
  <2>1. /\ Sessions!Took(s) /\ w6[s] < w5[s] /\ ~w8[s].done /\ (Sessions!Exited(s) => w8[s].budget > 0)
        /\ UNCHANGED <<Sessions!process, Sessions!registry>>
    BY DEF Sessions!Deliver, Sessions!Readable, Sessions!Reading
  <2>2. w8[s].on => Sessions!Exited(s)
    BY <1>0 DEF DrainsOk, DrainOk
  <2> QED BY <2>1, <2>2
<1>b. TookMoved(s)
  BY <1>0, <1>a, SessTook
<1>c. UNCHANGED <<w2, w3, w4, w5, w7, w1>>
  BY <1>a DEF Sessions!process, Sessions!registry
<1>d. CountsOk' /\ DrainsOk'
  BY <1>0, <1>a, <1>b, <1>c, SessTookCounts
<1>e. JournalMoved(s, w6[s] + 1) /\ SubSame
  <2>1. w6[s] + 1 \in Nat /\ Sessions!Journal(s, w6[s] + 1)
    BY <1>0 DEF Sessions!Deliver, ReaderTypes
  <2> QED BY <1>0, <2>1, SessJournal
<1>f. ReaderTypes' /\ JournalsOk'
  <2>1. w6[s] + 1 \in Nat
    BY <1>0 DEF ReaderTypes
  <2> QED BY <1>0, <1>b, <1>e, <2>1, SessJournalsOf DEF TookMoved
<1>1. ReaderTypes'
  BY <1>f
<1>2. SubTypes'
  BY <1>0, <1>e, SessSame
<1>3. CountsOk'
  BY <1>d
<1>4. DrainsOk'
  BY <1>d
<1>5. JournalsOk'
  BY <1>f
<1>6. ExitsOk'
  BY <1>0, <1>b, <1>c, <1>e, SessExits DEF TookMoved
<1>7. CursorsOk'
  BY <1>0, <1>a, <1>e, SessCursors
<1>8. ProcessTypes' /\ PhaseTypes' /\ Tombstones' /\ ActiveIs'
  BY <1>0 DEF Sessions!Deliver, Sessions!Readable, Sessions!Reading, Sessions!Running, Sessions!Took,
       Sessions!Journal, Sessions!NextSeq, Sessions!process, Sessions!reader, Sessions!registry,
       ProcessTypes, PhaseTypes, Tombstones, ActiveIs, Sessions!Exited, CountOk, DrainOk, JournalOk,
       LastOf, ExitOk, CursorOk
<1> QED BY <1>1, <1>2, <1>3, <1>4, <1>5, <1>6, <1>7, <1>8 DEF SessInv

(* Hold keeps the invariant.                                               *)
LEMMA SessHold ==
  ASSUME SessInv, NEW s \in SessionNames, Sessions!Hold(s)
  PROVE  SessInv'
<1>0. /\ ProcessTypes /\ ReaderTypes /\ PhaseTypes /\ SubTypes /\ CountsOk /\ DrainsOk
      /\ JournalsOk /\ ExitsOk /\ CursorsOk /\ Tombstones /\ ActiveIs
  BY DEF SessInv
<1>a. /\ Sessions!Took(s) /\ w6[s] < w5[s] /\ ~w8[s].done /\ (w8[s].on => w8[s].budget > 0)
      /\ UNCHANGED <<Sessions!process, Sessions!registry>>
  <2>1. /\ Sessions!Took(s) /\ w6[s] < w5[s] /\ ~w8[s].done /\ (Sessions!Exited(s) => w8[s].budget > 0)
        /\ UNCHANGED <<Sessions!process, Sessions!registry>>
    BY DEF Sessions!Hold, Sessions!Readable, Sessions!Reading
  <2>2. w8[s].on => Sessions!Exited(s)
    BY <1>0 DEF DrainsOk, DrainOk
  <2> QED BY <2>1, <2>2
<1>b. TookMoved(s)
  BY <1>0, <1>a, SessTook
<1>c. UNCHANGED <<w2, w3, w4, w5, w7, w1>>
  BY <1>a DEF Sessions!process, Sessions!registry
<1>d. CountsOk' /\ DrainsOk'
  BY <1>0, <1>a, <1>b, <1>c, SessTookCounts
<1>1. ReaderTypes'
  BY <1>0, <1>b DEF ReaderTypes, TookMoved, Sessions!Hold
<1>2. CountsOk'
  BY <1>d
<1>3. DrainsOk'
  BY <1>d
<1>4. JournalsOk'
  <2> SUFFICES ASSUME NEW t \in SessionNames PROVE JournalOk(t)'
    BY DEF JournalsOk
  <2>1. JournalOk(t) /\ w9' = w9
    BY <1>0 DEF JournalsOk, Sessions!Hold
  <2>2. w6[t] \in Nat /\ LastOf(w9[t]) \in Nat
    BY <1>0 DEF ReaderTypes, Journals, LastOf
  <2> QED BY <1>a, <1>b, <2>1, <2>2 DEF JournalOk, TookMoved
<1>5. ExitsOk'
  BY <1>0 DEF Sessions!Hold, Sessions!Readable, Sessions!Reading, Sessions!Running, Sessions!Took,
       Sessions!process, Sessions!reader, Sessions!registry, ExitsOk, SubTypes, ReaderTypes, PhaseTypes,
       ExitOk, Drains, Sessions!Ended, SubFields, SubSteps
<1>6. ProcessTypes' /\ PhaseTypes' /\ SubTypes' /\ CursorsOk' /\ Tombstones' /\ ActiveIs'
  BY <1>0 DEF Sessions!Hold, Sessions!Readable, Sessions!Reading, Sessions!Running, Sessions!Took,
       Sessions!process, Sessions!reader, Sessions!registry, ProcessTypes, PhaseTypes, SubTypes,
       CursorsOk, Tombstones, ActiveIs, Sessions!Exited, CountOk, DrainOk, JournalOk, LastOf, ExitOk, CursorOk
<1> QED BY <1>1, <1>2, <1>3, <1>4, <1>5, <1>6 DEF SessInv

(* DrainQuiet keeps the invariant.                                         *)
LEMMA SessDrainQuiet ==
  ASSUME SessInv, NEW s \in SessionNames, Sessions!DrainQuiet(s)
  PROVE  SessInv'
<1>0. /\ ProcessTypes /\ ReaderTypes /\ PhaseTypes /\ SubTypes /\ CountsOk /\ DrainsOk
      /\ JournalsOk /\ ExitsOk /\ CursorsOk /\ Tombstones /\ ActiveIs
  BY DEF SessInv
<1>1. ReaderTypes'
  BY <1>0 DEF Sessions!DrainQuiet, Sessions!Reading, Sessions!Running, Sessions!process,
       Sessions!reader, Sessions!registry, ReaderTypes, Drains, Journals
<1>2. DrainsOk'
  BY <1>0 DEF Sessions!DrainQuiet, Sessions!Reading, Sessions!Running, Sessions!process,
       Sessions!reader, Sessions!registry, DrainsOk, ProcessTypes, ReaderTypes, PhaseTypes, DrainOk,
       Sessions!Exited, Drains, Sessions!Phases
<1>3. JournalsOk'
  BY <1>0 DEF Sessions!DrainQuiet, Sessions!Reading, Sessions!Running, Sessions!process,
       Sessions!reader, Sessions!registry, JournalsOk, ReaderTypes, JournalOk, LastOf, Drains, Journals
<1>4. ExitsOk'
  BY <1>0 DEF Sessions!DrainQuiet, Sessions!Reading, Sessions!Running, Sessions!process,
       Sessions!reader, Sessions!registry, ExitsOk, SubTypes, ReaderTypes, PhaseTypes, ExitOk, Drains,
       Sessions!Ended, SubFields, SubSteps
<1>5. /\ ProcessTypes' /\ PhaseTypes' /\ SubTypes' /\ CountsOk' /\ CursorsOk' /\ Tombstones'
      /\ ActiveIs'
  BY <1>0 DEF Sessions!DrainQuiet, Sessions!Reading, Sessions!Running, Sessions!process,
       Sessions!reader, Sessions!registry, ProcessTypes, PhaseTypes, SubTypes, CountsOk, CursorsOk,
       Tombstones, ActiveIs, Sessions!Exited, CountOk, DrainOk, JournalOk, LastOf, ExitOk, CursorOk
<1> QED BY <1>1, <1>2, <1>3, <1>4, <1>5 DEF SessInv

(* CaptureEnds keeps the invariant.                                        *)
LEMMA SessCaptureEnds ==
  ASSUME SessInv, NEW s \in SessionNames, Sessions!CaptureEnds(s)
  PROVE  SessInv'
<1>0. /\ ProcessTypes /\ ReaderTypes /\ PhaseTypes /\ SubTypes /\ CountsOk /\ DrainsOk
      /\ JournalsOk /\ ExitsOk /\ CursorsOk /\ Tombstones /\ ActiveIs
  BY DEF SessInv
<1>a. /\ w8' = [w8 EXCEPT ![s] = [Sessions!Undrained EXCEPT !.done = TRUE]] /\ ~w8[s].done
      /\ Sessions!OutputEnds(s) /\ UNCHANGED <<Sessions!process, w6, Sessions!registry>>
      /\ \/ Sessions!Held(s) /\ Sessions!Journal(s, w6[s])
         \/ ~Sessions!Held(s) /\ UNCHANGED <<w9, w14>>
  BY DEF Sessions!CaptureEnds, Sessions!Reading
<1> DEFINE d == [Sessions!Undrained EXCEPT !.done = TRUE]
<1>b. d \in Drains /\ ~d.on /\ d.done
  <2>1. Sessions!Undrained \in Drains /\ ~Sessions!Undrained.on
    BY SessConstants DEF Sessions!Undrained, Drains
  <2> QED BY <2>1 DEF Drains
<1> HIDE DEF d
<1>c. w8' \in [SessionNames -> Drains] /\ w8'[s] = d /\ \A t \in SessionNames \ {s} : w8'[t] = w8[t]
  BY <1>0, <1>a, <1>b DEF ReaderTypes, d
<1>d. UNCHANGED <<w2, w3, w4, w5, w7, w1, w6>> /\ w6[s] \in Nat
  BY <1>0, <1>a DEF Sessions!process, Sessions!registry, ReaderTypes
<1>e. ASSUME Sessions!Journal(s, w6[s]) PROVE SubSame /\ ReaderTypes' /\ JournalsOk' /\ CursorsOk'
  <2>1. JournalMoved(s, w6[s]) /\ SubSame
    BY <1>0, <1>d, <1>e, SessJournal
  <2>2. ReaderTypes' /\ JournalsOk'
    BY <1>0, <1>c, <1>d, <2>1, SessJournalsOf DEF ReaderTypes
  <2>3. CursorsOk'
    BY <1>0, <1>a, <2>1, SessCursors
  <2> QED BY <2>1, <2>2, <2>3
<1>f. ASSUME ~Sessions!Held(s), UNCHANGED <<w9,
                                            w14>> PROVE SubSame /\ ReaderTypes' /\ JournalsOk' /\ CursorsOk'
  <2>1. SubSame
    BY <1>0, <1>f DEF SubTypes, SubSame
  <2>2. ReaderTypes'
    BY <1>0, <1>c, <1>d, <1>f DEF ReaderTypes
  <2>3. JournalsOk'
    <3> SUFFICES ASSUME NEW t \in SessionNames PROVE JournalOk(t)'
      BY DEF JournalsOk
    <3>1. JournalOk(t) /\ w6'[t] = w6[t] /\ w9'[t] = w9[t]
      BY <1>0, <1>d, <1>f DEF JournalsOk
    <3>2. CASE t # s
      BY <1>c, <3>1, <3>2 DEF JournalOk
    <3>3. CASE t = s
      <4>1. LastOf(w9[s]) \in Nat
        BY <1>0 DEF ReaderTypes, Journals, LastOf
      <4>2. ~(w6[s] > LastOf(w9[s]))
        BY <1>f DEF Sessions!Held, LastOf, Sessions!NextSeq
      <4>3. LastOf(w9[s]) <= w6[s] => LastOf(w9[s]) = w6[s]
        BY <1>d, <4>1, <4>2
      <4> QED BY <3>1, <3>3, <4>3 DEF JournalOk
    <3> QED BY <3>2, <3>3
  <2>4. CursorsOk'
    BY <1>0, <1>f DEF CursorsOk, CursorOk
  <2> QED BY <2>1, <2>2, <2>3, <2>4
<1>g. SubSame /\ ReaderTypes' /\ JournalsOk' /\ CursorsOk'
  BY <1>a, <1>e, <1>f
<1>1. ReaderTypes'
  BY <1>g
<1>2. SubTypes'
  BY <1>0, <1>g, SessSame
<1>3. DrainsOk'
  <2> SUFFICES ASSUME NEW t \in SessionNames PROVE DrainOk(t)'
    BY DEF DrainsOk
  <2>1. DrainOk(t) /\ CountOk(t)
    BY <1>0 DEF DrainsOk, CountsOk
  <2>2. CASE t # s
    BY <1>c, <1>d, <2>1, <2>2 DEF DrainOk, Sessions!Exited
  <2>3. CASE t = s
    <3>1. /\ w6[s] \in Nat /\ w4[s] \in Nat /\ w7[s] \in Nat /\ w5[s] \in Nat
          /\ w2[s].mode \in {"pty", "pipe"} /\ w8[s].budget \in Nat
      BY <1>0, SessConstants DEF ProcessTypes, ReaderTypes, Drains
    <3>2. w3[s] = "dead" /\ w7[s] <= w6[s]
      <4>1. CASE w3[s] = "dead" /\ w6[s] = w4[s]
        BY <2>1, <2>3, <3>1, <4>1 DEF CountOk
      <4>2. CASE w8[s].on /\ w6[s] = w5[s] /\ (w2[s].mode = "pty" => w5[s] >= w7[s])
        BY <2>1, <2>3, <3>1, <4>2 DEF CountOk, DrainOk
      <4>3. CASE w8[s].on /\ w8[s].budget = 0
        BY <2>1, <2>3, <3>1, <4>3 DEF DrainOk
      <4> QED BY <1>a, <4>1, <4>2, <4>3 DEF Sessions!OutputEnds, Sessions!Settled
    <3> QED BY <1>b, <1>c, <1>d, <2>1, <2>3, <3>2 DEF DrainOk, Sessions!Exited
  <2> QED BY <2>2, <2>3
<1>4. JournalsOk'
  BY <1>g
<1>5. ExitsOk'
  BY <1>0, <1>b, <1>c, <1>d, <1>g, SessExits
<1>6. CursorsOk'
  BY <1>g
<1>7. ProcessTypes' /\ PhaseTypes' /\ CountsOk' /\ Tombstones' /\ ActiveIs'
  BY <1>0 DEF Sessions!CaptureEnds, Sessions!Reading, Sessions!Running, Sessions!OutputEnds,
       Sessions!Undrained, Sessions!Settled, Sessions!Held, Sessions!Journal, Sessions!NextSeq,
       Sessions!process, Sessions!reader, Sessions!registry, ProcessTypes, PhaseTypes, CountsOk,
       Tombstones, ActiveIs, Sessions!Exited, CountOk, DrainOk, JournalOk, LastOf, ExitOk, CursorOk
<1> QED BY <1>1, <1>2, <1>3, <1>4, <1>5, <1>6, <1>7 DEF SessInv

(* Reap keeps the invariant.                                               *)
LEMMA SessReap ==
  ASSUME SessInv, NEW s \in SessionNames, Sessions!Reap(s)
  PROVE  SessInv'
<1>0. /\ ProcessTypes /\ ReaderTypes /\ PhaseTypes /\ SubTypes /\ CountsOk /\ DrainsOk
      /\ JournalsOk /\ ExitsOk /\ CursorsOk /\ Tombstones /\ ActiveIs
  BY DEF SessInv
<1>1. PhaseTypes'
  BY <1>0 DEF Sessions!Reap, Sessions!Advance, Sessions!process, Sessions!reader, Sessions!registry,
       PhaseTypes, Sessions!Phases
<1>2. DrainsOk'
  BY <1>0 DEF Sessions!Reap, Sessions!Advance, Sessions!process, Sessions!reader, Sessions!registry,
       DrainsOk, ProcessTypes, ReaderTypes, PhaseTypes, DrainOk, Sessions!Exited, Drains, Sessions!Phases
<1>3. ExitsOk'
  BY <1>0 DEF Sessions!Reap, Sessions!Advance, Sessions!process, Sessions!reader, Sessions!registry,
       ExitsOk, SubTypes, ReaderTypes, PhaseTypes, ExitOk, Drains, Sessions!Ended, SubFields, SubSteps
<1>4. Tombstones'
  BY <1>0 DEF Sessions!Reap, Sessions!Advance, Sessions!process, Sessions!reader, Sessions!registry,
       Tombstones, PhaseTypes
<1>5. ActiveIs'
  BY <1>0 DEF Sessions!Reap, Sessions!Advance, Sessions!process, Sessions!reader, Sessions!registry,
       ActiveIs, PhaseTypes, SessCounted
<1>6. ProcessTypes' /\ ReaderTypes' /\ SubTypes' /\ CountsOk' /\ JournalsOk' /\ CursorsOk'
  BY <1>0 DEF Sessions!Reap, Sessions!Advance, Sessions!process, Sessions!reader, Sessions!registry,
       ProcessTypes, ReaderTypes, SubTypes, CountsOk, JournalsOk, CursorsOk, Sessions!Exited, CountOk,
       DrainOk, JournalOk, LastOf, ExitOk, CursorOk
<1> QED BY <1>1, <1>2, <1>3, <1>4, <1>5, <1>6 DEF SessInv

(* Drained keeps the invariant.                                            *)
LEMMA SessDrained ==
  ASSUME SessInv, NEW s \in SessionNames, Sessions!Drained(s)
  PROVE  SessInv'
<1>0. /\ ProcessTypes /\ ReaderTypes /\ PhaseTypes /\ SubTypes /\ CountsOk /\ DrainsOk
      /\ JournalsOk /\ ExitsOk /\ CursorsOk /\ Tombstones /\ ActiveIs
  BY DEF SessInv
<1>1. PhaseTypes'
  BY <1>0 DEF Sessions!Drained, Sessions!Advance, Sessions!process, Sessions!reader, Sessions!registry,
       PhaseTypes, Sessions!Phases
<1>2. DrainsOk'
  BY <1>0 DEF Sessions!Drained, Sessions!Advance, Sessions!process, Sessions!reader, Sessions!registry,
       DrainsOk, ProcessTypes, ReaderTypes, PhaseTypes, DrainOk, Sessions!Exited, Drains, Sessions!Phases
<1>3. ExitsOk'
  BY <1>0 DEF Sessions!Drained, Sessions!Advance, Sessions!process, Sessions!reader, Sessions!registry,
       ExitsOk, SubTypes, ReaderTypes, PhaseTypes, ExitOk, Drains, Sessions!Ended, SubFields, SubSteps
<1>4. Tombstones'
  BY <1>0 DEF Sessions!Drained, Sessions!Advance, Sessions!process, Sessions!reader, Sessions!registry,
       Tombstones, PhaseTypes
<1>5. ActiveIs'
  BY <1>0 DEF Sessions!Drained, Sessions!Advance, Sessions!process, Sessions!reader, Sessions!registry,
       ActiveIs, PhaseTypes, SessCounted
<1>6. ProcessTypes' /\ ReaderTypes' /\ SubTypes' /\ CountsOk' /\ JournalsOk' /\ CursorsOk'
  BY <1>0 DEF Sessions!Drained, Sessions!Advance, Sessions!process, Sessions!reader, Sessions!registry,
       ProcessTypes, ReaderTypes, SubTypes, CountsOk, JournalsOk, CursorsOk, Sessions!Exited, CountOk,
       DrainOk, JournalOk, LastOf, ExitOk, CursorOk
<1> QED BY <1>1, <1>2, <1>3, <1>4, <1>5, <1>6 DEF SessInv

(* CutInput keeps the invariant.                                           *)
LEMMA SessCutInput ==
  ASSUME SessInv, NEW s \in SessionNames, Sessions!CutInput(s)
  PROVE  SessInv'
<1>0. /\ ProcessTypes /\ ReaderTypes /\ PhaseTypes /\ SubTypes /\ CountsOk /\ DrainsOk
      /\ JournalsOk /\ ExitsOk /\ CursorsOk /\ Tombstones /\ ActiveIs
  BY DEF SessInv
<1>1. PhaseTypes'
  BY <1>0 DEF Sessions!CutInput, Sessions!Advance, Sessions!process, Sessions!reader, Sessions!registry,
       PhaseTypes, Sessions!Phases
<1>2. DrainsOk'
  BY <1>0 DEF Sessions!CutInput, Sessions!Advance, Sessions!process, Sessions!reader, Sessions!registry,
       DrainsOk, ProcessTypes, ReaderTypes, PhaseTypes, DrainOk, Sessions!Exited, Drains, Sessions!Phases
<1>3. ExitsOk'
  BY <1>0 DEF Sessions!CutInput, Sessions!Advance, Sessions!process, Sessions!reader, Sessions!registry,
       ExitsOk, SubTypes, ReaderTypes, PhaseTypes, ExitOk, Drains, Sessions!Ended, SubFields, SubSteps
<1>4. Tombstones'
  BY <1>0 DEF Sessions!CutInput, Sessions!Advance, Sessions!process, Sessions!reader, Sessions!registry,
       Tombstones, PhaseTypes
<1>5. ActiveIs'
  BY <1>0 DEF Sessions!CutInput, Sessions!Advance, Sessions!process, Sessions!reader, Sessions!registry,
       ActiveIs, PhaseTypes, SessCounted
<1>6. ProcessTypes' /\ ReaderTypes' /\ SubTypes' /\ CountsOk' /\ JournalsOk' /\ CursorsOk'
  BY <1>0 DEF Sessions!CutInput, Sessions!Advance, Sessions!process, Sessions!reader, Sessions!registry,
       ProcessTypes, ReaderTypes, SubTypes, CountsOk, JournalsOk, CursorsOk, Sessions!Exited, CountOk,
       DrainOk, JournalOk, LastOf, ExitOk, CursorOk
<1> QED BY <1>1, <1>2, <1>3, <1>4, <1>5, <1>6 DEF SessInv

(* MarkExited keeps the invariant.                                         *)
LEMMA SessMarkExited ==
  ASSUME SessInv, NEW s \in SessionNames, Sessions!MarkExited(s)
  PROVE  SessInv'
<1>0. /\ ProcessTypes /\ ReaderTypes /\ PhaseTypes /\ SubTypes /\ CountsOk /\ DrainsOk
      /\ JournalsOk /\ ExitsOk /\ CursorsOk /\ Tombstones /\ ActiveIs
  BY DEF SessInv
<1>1. PhaseTypes'
  BY <1>0 DEF Sessions!MarkExited, Sessions!Advance, Sessions!Woken, Sessions!process, Sessions!reader,
       Sessions!registry, PhaseTypes, Sessions!Phases
<1>2. SubTypes'
  BY <1>0 DEF Sessions!MarkExited, Sessions!Advance, Sessions!Woken, Sessions!process, Sessions!reader,
       Sessions!registry, SubTypes, SubFields, SubSteps
<1>3. DrainsOk'
  BY <1>0 DEF Sessions!MarkExited, Sessions!Advance, Sessions!Woken, Sessions!process, Sessions!reader,
       Sessions!registry, DrainsOk, ProcessTypes, ReaderTypes, PhaseTypes, DrainOk, Sessions!Exited,
       Drains, Sessions!Phases
<1>4. ExitsOk'
  BY <1>0 DEF Sessions!MarkExited, Sessions!Advance, Sessions!Woken, Sessions!process, Sessions!reader,
       Sessions!registry, ExitsOk, SubTypes, ReaderTypes, PhaseTypes, ExitOk, Drains, Sessions!Ended,
       SubFields, SubSteps
<1>5. CursorsOk'
  BY <1>0 DEF Sessions!MarkExited, Sessions!Advance, Sessions!Woken, Sessions!process, Sessions!reader,
       Sessions!registry, CursorsOk, SubTypes, ReaderTypes, CursorOk, Journals, SubFields, SubSteps
<1>6. Tombstones'
  BY <1>0 DEF Sessions!MarkExited, Sessions!Advance, Sessions!Woken, Sessions!process, Sessions!reader,
       Sessions!registry, Tombstones, PhaseTypes
<1>7. ActiveIs'
  BY <1>0 DEF Sessions!MarkExited, Sessions!Advance, Sessions!Woken, Sessions!process, Sessions!reader,
       Sessions!registry, ActiveIs, PhaseTypes, SessCounted
<1>8. ProcessTypes' /\ ReaderTypes' /\ CountsOk' /\ JournalsOk'
  BY <1>0 DEF Sessions!MarkExited, Sessions!Advance, Sessions!Woken, Sessions!process, Sessions!reader,
       Sessions!registry, ProcessTypes, ReaderTypes, CountsOk, JournalsOk, Sessions!Exited, CountOk,
       DrainOk, JournalOk, LastOf, ExitOk, CursorOk
<1> QED BY <1>1, <1>2, <1>3, <1>4, <1>5, <1>6, <1>7, <1>8 DEF SessInv

(* Unlist keeps the invariant.                                             *)
LEMMA SessUnlist ==
  ASSUME SessInv, NEW s \in SessionNames, Sessions!Unlist(s)
  PROVE  SessInv'
<1>0. /\ ProcessTypes /\ ReaderTypes /\ PhaseTypes /\ SubTypes /\ CountsOk /\ DrainsOk
      /\ JournalsOk /\ ExitsOk /\ CursorsOk /\ Tombstones /\ ActiveIs
  BY DEF SessInv
<1>1. PhaseTypes'
  BY <1>0 DEF Sessions!Unlist, Sessions!Advance, Sessions!process, Sessions!reader, Sessions!registry,
       PhaseTypes, Sessions!Phases
<1>2. DrainsOk'
  BY <1>0 DEF Sessions!Unlist, Sessions!Advance, Sessions!process, Sessions!reader, Sessions!registry,
       DrainsOk, ProcessTypes, ReaderTypes, PhaseTypes, DrainOk, Sessions!Exited, Drains, Sessions!Phases
<1>3. ExitsOk'
  BY <1>0 DEF Sessions!Unlist, Sessions!Advance, Sessions!process, Sessions!reader, Sessions!registry,
       ExitsOk, SubTypes, ReaderTypes, PhaseTypes, ExitOk, Drains, Sessions!Ended, SubFields, SubSteps
<1>4. Tombstones'
  BY <1>0 DEF Sessions!Unlist, Sessions!Advance, Sessions!process, Sessions!reader, Sessions!registry,
       Tombstones, PhaseTypes
<1>5. ActiveIs'
  BY <1>0 DEF Sessions!Unlist, Sessions!Advance, Sessions!process, Sessions!reader, Sessions!registry,
       ActiveIs, PhaseTypes, SessCounted
<1>6. ProcessTypes' /\ ReaderTypes' /\ SubTypes' /\ CountsOk' /\ JournalsOk' /\ CursorsOk'
  BY <1>0 DEF Sessions!Unlist, Sessions!Advance, Sessions!process, Sessions!reader, Sessions!registry,
       ProcessTypes, ReaderTypes, SubTypes, CountsOk, JournalsOk, CursorsOk, Sessions!Exited, CountOk,
       DrainOk, JournalOk, LastOf, ExitOk, CursorOk
<1> QED BY <1>1, <1>2, <1>3, <1>4, <1>5, <1>6 DEF SessInv

(* Bury keeps the invariant.                                               *)
LEMMA SessBury ==
  ASSUME SessInv, NEW s \in SessionNames, Sessions!Bury(s)
  PROVE  SessInv'
<1>0. /\ ProcessTypes /\ ReaderTypes /\ PhaseTypes /\ SubTypes /\ CountsOk /\ DrainsOk
      /\ JournalsOk /\ ExitsOk /\ CursorsOk /\ Tombstones /\ ActiveIs
  BY DEF SessInv
<1> DEFINE kept == Append(w12, s)
           gone == IF Len(kept) > Cap THEN {Head(kept)} ELSE {}
<1>a. /\ w1[s] = "unlisted" /\ Sessions!Dropped(gone) /\ w13' = w13 - 1
      /\ UNCHANGED <<Sessions!process, w6, w8>>
      /\ w1' = [t \in SessionNames |-> IF t \in gone THEN "gone" ELSE IF t = s THEN "settled" ELSE w1[t]]
      /\ w12' = IF gone = {} THEN kept ELSE Tail(kept)
  BY DEF Sessions!Bury
<1>b. w12 \in Seq(SessionNames) /\ kept \in Seq(SessionNames) /\ Len(kept) = Len(w12) + 1 /\ Len(w12) \in Nat
  BY <1>0 DEF Tombstones
<1>c. Cap \in Nat /\ Cap > 0
  BY SessConstants
<1>d. /\ \A i \in 1 .. Len(w12) : kept[i] = w12[i] /\ w12[i] \in SessionNames /\ w1[w12[i]] = "settled"
      /\ kept[Len(w12) + 1] = s
  BY <1>0, <1>b DEF Tombstones
<1>e. \/ Len(w12) < Cap /\ gone = {}
      \/ Len(w12) = Cap /\ gone = {w12[1]} /\ w12[1] \in SessionNames
  <2>1. Len(w12) <= Cap
    BY <1>0 DEF Tombstones
  <2>2. CASE Len(w12) < Cap
    BY <1>b, <1>c, <2>2
  <2>3. CASE Len(w12) = Cap
    <3>1. Len(kept) > Cap
      BY <1>b, <1>c, <2>3
    <3>2. Head(kept) = w12[1] /\ w12[1] \in SessionNames
      BY <1>b, <1>c, <1>d, <2>3
    <3> QED BY <2>3, <3>1, <3>2
  <2> QED BY <1>b, <1>c, <2>1, <2>2, <2>3
<1>f. gone \in SUBSET SessionNames /\ s \notin gone /\ \A t \in gone : w1[t] = "settled"
  BY <1>a, <1>b, <1>c, <1>d, <1>e
<1> HIDE DEF gone, kept
<1>g. SubTypes' /\ ExitsOk' /\ CursorsOk'
  <2>1. \A t \in SessionNames \ gone : w1'[t] \in {"new", "checked", "gone"} => w1'[t] = w1[t]
    BY <1>a
  <2> QED BY <1>0, <1>a, <1>f, <2>1, SessCancelled
<1>1. ReaderTypes'
  <2>1. \A t \in SessionNames : w9'[t] \in Journals
    <3> SUFFICES ASSUME NEW t \in SessionNames PROVE w9'[t] \in Journals
      OBVIOUS
    <3>1. w9[t] \in Journals
      BY <1>0 DEF ReaderTypes
    <3>2. w9'[t] = w9[t] \/ w9'[t] = [w9[t] EXCEPT !.files = FALSE]
      BY <1>a DEF Sessions!Dropped
    <3> QED BY <3>1, <3>2 DEF Journals
  <2>2. w9' \in [SessionNames -> Journals]
    BY <1>a, <2>1 DEF Sessions!Dropped
  <2> QED BY <1>0, <1>a, <2>2 DEF ReaderTypes
<1>2. PhaseTypes'
  BY <1>0, <1>a DEF PhaseTypes, Sessions!Phases
<1>3. SubTypes'
  BY <1>g
<1>4. DrainsOk'
  <2> SUFFICES ASSUME NEW t \in SessionNames PROVE DrainOk(t)'
    BY DEF DrainsOk
  <2>1. DrainOk(t) /\ UNCHANGED <<w3, w7, w6, w8>>
    BY <1>0, <1>a DEF DrainsOk, Sessions!process
  <2>2. w1'[t] = w1[t] \/ (w1'[t] = "gone" /\ w1[t] = "settled")
        \/ (w1'[t] = "settled" /\ w1[t] = "unlisted")
    BY <1>a, <1>f
  <2> QED BY <2>1, <2>2 DEF DrainOk, Sessions!Exited
<1>5. JournalsOk'
  <2> SUFFICES ASSUME NEW t \in SessionNames PROVE JournalOk(t)'
    BY DEF JournalsOk
  <2>1. JournalOk(t) /\ w9[t] \in Journals
    BY <1>0 DEF JournalsOk, ReaderTypes
  <2>2. /\ w9'[t].old = w9[t].old /\ w9'[t].cur = w9[t].cur /\ w9'[t].recs = w9[t].recs
        /\ w9'[t].failed = w9[t].failed /\ w9'[t].torn = w9[t].torn /\ w9'[t].bad = w9[t].bad
    <3>1. w9'[t] = w9[t] \/ w9'[t] = [w9[t] EXCEPT !.files = FALSE]
      BY <1>a DEF Sessions!Dropped
    <3> QED BY <2>1, <3>1 DEF Journals
  <2>3. w6' = w6 /\ w8' = w8
    BY <1>a
  <2> QED BY <2>1, <2>2, <2>3 DEF JournalOk, LastOf
<1>6. ExitsOk'
  BY <1>g
<1>7. CursorsOk'
  BY <1>g
<1>8. Tombstones'
  <2>1. CASE gone = {}
    <3>1. w12' = kept /\ Len(kept) <= Cap /\ DOMAIN kept = 1 .. Len(w12) + 1
      BY <1>a, <1>b, <1>c, <1>e, <2>1
    <3>2. \A i, k \in DOMAIN kept : kept[i] = kept[k] => i = k
      BY <1>0, <1>a, <1>b, <1>d, <3>1 DEF Tombstones
    <3>3. ASSUME NEW t \in SessionNames PROVE w1'[t] = "settled" <=> \E i \in DOMAIN kept : kept[i] = t
      <4>1. CASE t = s
        BY <1>a, <1>b, <1>d, <1>f, <2>1, <3>1, <4>1
      <4>2. CASE t # s
        <5>1. w1'[t] = w1[t]
          BY <1>a, <2>1, <4>2
        <5>2. w1[t] = "settled" <=> \E i \in DOMAIN w12 : w12[i] = t
          BY <1>0 DEF Tombstones
        <5> QED BY <1>b, <1>d, <3>1, <4>2, <5>1, <5>2
      <4> QED BY <4>1, <4>2
    <3> QED BY <1>b, <3>1, <3>2, <3>3 DEF Tombstones
  <2>2. CASE Len(w12) = Cap /\ gone = {w12[1]} /\ w12[1] \in SessionNames
    <3> DEFINE n == Len(w12)
    <3>1. w12' = Tail(kept) /\ n \in Nat /\ n > 0 /\ n = Cap
      BY <1>a, <1>b, <1>c, <2>2
    <3>2. /\ w12' \in Seq(SessionNames) /\ Len(w12') = n /\ DOMAIN w12' = 1 .. n /\ DOMAIN w12 = 1 .. n
          /\ \A i \in 1 .. n : w12'[i] = kept[i + 1]
      BY <1>b, <3>1
    <3> HIDE DEF n
    <3>3. \A i \in 1 .. n : w12'[i] = IF i = n THEN s ELSE w12[i + 1]
      BY <1>d, <3>1, <3>2 DEF n
    <3>4. \A i, k \in 1 .. n : w12[i] = w12[k] => i = k
      BY <1>0, <3>2 DEF Tombstones
    <3>5. \A i \in 1 .. n : w12[i] # s
      BY <1>a, <1>d DEF n
    <3>9. w12'[n] = s /\ \A i \in 1 .. n : i # n => i + 1 \in 1 .. n /\ i + 1 # 1 /\ w12'[i] = w12[i + 1]
      <4>1. n \in 1 .. n /\ \A i \in 1 .. n : i # n => i + 1 \in 1 .. n /\ i + 1 # 1
        BY <3>1
      <4>2. w12'[n] = s
        BY <3>3, <4>1
      <4>3. \A i \in 1 .. n : i # n => w12'[i] = w12[i + 1]
        BY <3>3
      <4> QED BY <4>1, <4>2, <4>3
    <3>6. ASSUME NEW i \in 1 .. n, NEW k \in 1 .. n, w12'[i] = w12'[k] PROVE i = k
      <4>1. CASE i = n
        BY <3>5, <3>6, <3>9, <4>1
      <4>2. CASE k = n
        BY <3>5, <3>6, <3>9, <4>2
      <4>3. CASE i # n /\ k # n
        <5>1. i + 1 = k + 1
          BY <3>4, <3>6, <3>9, <4>3
        <5> QED BY <5>1
      <4> QED BY <4>1, <4>2, <4>3
    <3>7. ASSUME NEW t \in SessionNames PROVE w1'[t] = "settled" <=> \E i \in 1 .. n : w12'[i] = t
      <4>1. CASE t = s
        <5>1. w1'[t] = "settled"
          BY <1>a, <1>f, <4>1
        <5>2. n \in 1 .. n
          BY <3>1
        <5> QED BY <3>9, <4>1, <5>1, <5>2
      <4>2. CASE t = w12[1]
        <5>1. w1'[t] = "gone"
          BY <1>a, <2>2, <4>2
        <5>2. 1 \in 1 .. n
          BY <3>1
        <5>3. ASSUME NEW i \in 1 .. n PROVE w12'[i] # t
          BY <3>4, <3>5, <3>9, <4>2, <5>2
        <5> QED BY <5>1, <5>3
      <4>3. CASE t # s /\ t # w12[1]
        <5>1. w1'[t] = w1[t]
          BY <1>a, <2>2, <4>3
        <5>2. w1[t] = "settled" <=> \E i \in 1 .. n : w12[i] = t
          BY <1>0, <3>2 DEF Tombstones
        <5>3. (\E i \in 1 .. n : w12[i] = t) => \E i \in 1 .. n : w12'[i] = t
          <6> SUFFICES ASSUME NEW i \in 1 .. n, w12[i] = t PROVE \E k \in 1 .. n : w12'[k] = t
            OBVIOUS
          <6>1. i - 1 \in 1 .. n /\ i - 1 # n /\ (i - 1) + 1 = i
            BY <3>1, <4>3
          <6> QED BY <3>3, <6>1
        <5>4. (\E i \in 1 .. n : w12'[i] = t) => \E i \in 1 .. n : w12[i] = t
          BY <3>9, <4>3
        <5> QED BY <5>1, <5>2, <5>3, <5>4
      <4> QED BY <4>1, <4>2, <4>3
    <3>8. Len(w12') <= Cap
      BY <3>1, <3>2
    <3> QED BY <3>2, <3>6, <3>7, <3>8 DEF Tombstones
  <2> QED BY <1>e, <2>1, <2>2
<1>9. ActiveIs'
  <2> DEFINE T == {t \in SessionNames : w1[t] \in SessCounted}
             T1 == {t \in SessionNames : w1'[t] \in SessCounted}
  <2>1. T1 = T \ {s} /\ s \in T
    BY <1>0, <1>a, <1>f DEF PhaseTypes, SessCounted
  <2>2. IsFiniteSet(T)
    BY SessFinite, FS_Subset
  <2>3. w13 = Cardinality(T)
    BY <1>0 DEF ActiveIs, Sessions!Cardinality, Cardinality
  <2> HIDE DEF T, T1
  <2>4. Cardinality(T \ {s}) = Cardinality(T) - 1
    BY <2>1, <2>2, FS_RemoveElement
  <2> QED BY <1>a, <2>1, <2>3, <2>4 DEF ActiveIs, T1, Sessions!Cardinality, Cardinality
<1>10. ProcessTypes' /\ CountsOk'
  BY <1>0 DEF Sessions!Bury, Sessions!Dropped, Sessions!Cancelled, Sessions!process, Sessions!reader,
       Sessions!registry, ProcessTypes, CountsOk, Sessions!Exited, CountOk, DrainOk, JournalOk, LastOf,
       ExitOk, CursorOk
<1> QED BY <1>1, <1>2, <1>3, <1>4, <1>5, <1>6, <1>7, <1>8, <1>9, <1>10 DEF SessInv

(* InputBegins keeps the invariant.                                        *)
LEMMA SessInputBegins ==
  ASSUME SessInv, NEW s \in SessionNames, Sessions!InputBegins(s)
  PROVE  SessInv'
<1>0. /\ ProcessTypes /\ ReaderTypes /\ PhaseTypes /\ SubTypes /\ CountsOk /\ DrainsOk
      /\ JournalsOk /\ ExitsOk /\ CursorsOk /\ Tombstones /\ ActiveIs
  BY DEF SessInv
<1>1. /\ ProcessTypes' /\ ReaderTypes' /\ PhaseTypes' /\ SubTypes' /\ CountsOk' /\ DrainsOk'
      /\ JournalsOk' /\ ExitsOk' /\ CursorsOk' /\ Tombstones' /\ ActiveIs'
  BY <1>0 DEF Sessions!InputBegins, Sessions!process, Sessions!reader, Sessions!registry, ProcessTypes,
       ReaderTypes, PhaseTypes, SubTypes, CountsOk, DrainsOk, JournalsOk, ExitsOk, CursorsOk,
       Tombstones, ActiveIs, Sessions!Exited, CountOk, DrainOk, JournalOk, LastOf, ExitOk, CursorOk
<1> QED BY <1>1 DEF SessInv

(* InputTaken keeps the invariant.                                         *)
LEMMA SessInputTaken ==
  ASSUME SessInv, NEW s \in SessionNames, Sessions!InputTaken(s)
  PROVE  SessInv'
<1>0. /\ ProcessTypes /\ ReaderTypes /\ PhaseTypes /\ SubTypes /\ CountsOk /\ DrainsOk
      /\ JournalsOk /\ ExitsOk /\ CursorsOk /\ Tombstones /\ ActiveIs
  BY DEF SessInv
<1>1. /\ ProcessTypes' /\ ReaderTypes' /\ PhaseTypes' /\ SubTypes' /\ CountsOk' /\ DrainsOk'
      /\ JournalsOk' /\ ExitsOk' /\ CursorsOk' /\ Tombstones' /\ ActiveIs'
  BY <1>0 DEF Sessions!InputTaken, Sessions!process, Sessions!reader, Sessions!registry, ProcessTypes,
       ReaderTypes, PhaseTypes, SubTypes, CountsOk, DrainsOk, JournalsOk, ExitsOk, CursorsOk,
       Tombstones, ActiveIs, Sessions!Exited, CountOk, DrainOk, JournalOk, LastOf, ExitOk, CursorOk
<1> QED BY <1>1 DEF SessInv

(* InputGivenUp keeps the invariant.                                       *)
LEMMA SessInputGivenUp ==
  ASSUME SessInv, NEW s \in SessionNames, Sessions!InputGivenUp(s)
  PROVE  SessInv'
<1>0. /\ ProcessTypes /\ ReaderTypes /\ PhaseTypes /\ SubTypes /\ CountsOk /\ DrainsOk
      /\ JournalsOk /\ ExitsOk /\ CursorsOk /\ Tombstones /\ ActiveIs
  BY DEF SessInv
<1>1. /\ ProcessTypes' /\ ReaderTypes' /\ PhaseTypes' /\ SubTypes' /\ CountsOk' /\ DrainsOk'
      /\ JournalsOk' /\ ExitsOk' /\ CursorsOk' /\ Tombstones' /\ ActiveIs'
  BY <1>0 DEF Sessions!InputGivenUp, Sessions!process, Sessions!reader, Sessions!registry, ProcessTypes,
       ReaderTypes, PhaseTypes, SubTypes, CountsOk, DrainsOk, JournalsOk, ExitsOk, CursorsOk,
       Tombstones, ActiveIs, Sessions!Exited, CountOk, DrainOk, JournalOk, LastOf, ExitOk, CursorOk
<1> QED BY <1>1 DEF SessInv

(* CloseRunning keeps the invariant.                                       *)
LEMMA SessCloseRunning ==
  ASSUME SessInv, NEW s \in SessionNames, Sessions!CloseRunning(s)
  PROVE  SessInv'
<1>0. /\ ProcessTypes /\ ReaderTypes /\ PhaseTypes /\ SubTypes /\ CountsOk /\ DrainsOk
      /\ JournalsOk /\ ExitsOk /\ CursorsOk /\ Tombstones /\ ActiveIs
  BY DEF SessInv
<1>1. /\ ProcessTypes' /\ ReaderTypes' /\ PhaseTypes' /\ SubTypes' /\ CountsOk' /\ DrainsOk'
      /\ JournalsOk' /\ ExitsOk' /\ CursorsOk' /\ Tombstones' /\ ActiveIs'
  BY <1>0 DEF Sessions!CloseRunning, Sessions!process, Sessions!reader, Sessions!registry, ProcessTypes,
       ReaderTypes, PhaseTypes, SubTypes, CountsOk, DrainsOk, JournalsOk, ExitsOk, CursorsOk,
       Tombstones, ActiveIs, Sessions!Exited, CountOk, DrainOk, JournalOk, LastOf, ExitOk, CursorOk
<1> QED BY <1>1 DEF SessInv

(* Kill keeps the invariant.                                               *)
LEMMA SessKill ==
  ASSUME SessInv, NEW s \in SessionNames, Sessions!Kill(s)
  PROVE  SessInv'
<1>0. /\ ProcessTypes /\ ReaderTypes /\ PhaseTypes /\ SubTypes /\ CountsOk /\ DrainsOk
      /\ JournalsOk /\ ExitsOk /\ CursorsOk /\ Tombstones /\ ActiveIs
  BY DEF SessInv
<1>1. ProcessTypes'
  BY <1>0 DEF Sessions!Kill, Sessions!Running, Sessions!process, Sessions!reader, Sessions!registry,
       ProcessTypes
<1>2. DrainsOk'
  BY <1>0 DEF Sessions!Kill, Sessions!Running, Sessions!process, Sessions!reader, Sessions!registry,
       DrainsOk, ProcessTypes, ReaderTypes, PhaseTypes, DrainOk, Sessions!Exited, Drains, Sessions!Phases
<1>3. /\ ReaderTypes' /\ PhaseTypes' /\ SubTypes' /\ CountsOk' /\ JournalsOk' /\ ExitsOk'
      /\ CursorsOk' /\ Tombstones' /\ ActiveIs'
  BY <1>0 DEF Sessions!Kill, Sessions!Running, Sessions!process, Sessions!reader, Sessions!registry,
       ReaderTypes, PhaseTypes, SubTypes, CountsOk, JournalsOk, ExitsOk, CursorsOk, Tombstones,
       ActiveIs, Sessions!Exited, CountOk, DrainOk, JournalOk, LastOf, ExitOk, CursorOk
<1> QED BY <1>1, <1>2, <1>3 DEF SessInv

(* CloseTombstone keeps the invariant.                                     *)
LEMMA SessCloseTombstone ==
  ASSUME SessInv, NEW s \in SessionNames, Sessions!CloseTombstone(s)
  PROVE  SessInv'
<1>0. /\ ProcessTypes /\ ReaderTypes /\ PhaseTypes /\ SubTypes /\ CountsOk /\ DrainsOk
      /\ JournalsOk /\ ExitsOk /\ CursorsOk /\ Tombstones /\ ActiveIs
  BY DEF SessInv
<1>a. /\ w1[s] = "settled" /\ w1' = [w1 EXCEPT ![s] = "gone"] /\ Sessions!Dropped({s})
      /\ UNCHANGED <<Sessions!process, w6, w8, w13>>
  BY DEF Sessions!CloseTombstone, Sessions!Tombstone
<1>g. SubTypes' /\ ExitsOk' /\ CursorsOk'
  <2>1. \A t \in SessionNames \ {s} : w1'[t] \in {"new", "checked", "gone"} => w1'[t] = w1[t]
    BY <1>0, <1>a DEF PhaseTypes
  <2> QED BY <1>0, <1>a, <2>1, SessCancelled
<1>1. ReaderTypes'
  <2>1. \A t \in SessionNames : w9'[t] \in Journals
    <3> SUFFICES ASSUME NEW t \in SessionNames PROVE w9'[t] \in Journals
      OBVIOUS
    <3>1. w9[t] \in Journals
      BY <1>0 DEF ReaderTypes
    <3>2. w9'[t] = w9[t] \/ w9'[t] = [w9[t] EXCEPT !.files = FALSE]
      BY <1>a DEF Sessions!Dropped
    <3> QED BY <3>1, <3>2 DEF Journals
  <2>2. w9' \in [SessionNames -> Journals]
    BY <1>a, <2>1 DEF Sessions!Dropped
  <2> QED BY <1>0, <1>a, <2>2 DEF ReaderTypes
<1>2. PhaseTypes'
  BY <1>0 DEF Sessions!CloseTombstone, Sessions!Dropped, Sessions!Cancelled, Sessions!Tombstone,
       Sessions!process, Sessions!reader, Sessions!registry, PhaseTypes, Sessions!Phases
<1>3. SubTypes'
  BY <1>g
<1>4. DrainsOk'
  BY <1>0 DEF Sessions!CloseTombstone, Sessions!Dropped, Sessions!Cancelled, Sessions!Tombstone,
       Sessions!process, Sessions!reader, Sessions!registry, DrainsOk, ProcessTypes, ReaderTypes,
       PhaseTypes, DrainOk, Sessions!Exited, Drains, Sessions!Phases
<1>5. JournalsOk'
  <2> SUFFICES ASSUME NEW t \in SessionNames PROVE JournalOk(t)'
    BY DEF JournalsOk
  <2>1. JournalOk(t) /\ w9[t] \in Journals
    BY <1>0 DEF JournalsOk, ReaderTypes
  <2>2. /\ w9'[t].old = w9[t].old /\ w9'[t].cur = w9[t].cur /\ w9'[t].recs = w9[t].recs
        /\ w9'[t].failed = w9[t].failed /\ w9'[t].torn = w9[t].torn /\ w9'[t].bad = w9[t].bad
    <3>1. w9'[t] = w9[t] \/ w9'[t] = [w9[t] EXCEPT !.files = FALSE]
      BY <1>a DEF Sessions!Dropped
    <3> QED BY <2>1, <3>1 DEF Journals
  <2>3. w6' = w6 /\ w8' = w8
    BY <1>a
  <2> QED BY <2>1, <2>2, <2>3 DEF JournalOk, LastOf
<1>6. ExitsOk'
  BY <1>g
<1>7. CursorsOk'
  BY <1>g
<1>8. Tombstones'
  <2> DEFINE n == Len(w12)
  <2>1. PICK i \in DOMAIN w12 : /\ w12[i] = s
                                     /\ w12' = SubSeq(w12, 1, i - 1) \o SubSeq(w12, i + 1, Len(w12))
    BY DEF Sessions!CloseTombstone
  <2>2. w12 \in Seq(SessionNames) /\ n \in Nat /\ i \in 1 .. n /\ n <= Cap /\ Cap \in Nat
    BY <1>0, <2>1, SessConstants DEF Tombstones
  <2>3. /\ w12' \in Seq(SessionNames) /\ Len(w12') = n - 1
        /\ \A k \in 1 .. n - 1 : w12'[k] = IF k < i THEN w12[k] ELSE w12[k + 1]
    <3> DEFINE a == SubSeq(w12, 1, i - 1)
               b == SubSeq(w12, i + 1, n)
    <3>1. a \in Seq(SessionNames) /\ Len(a) = i - 1 /\ \A k \in 1 .. i - 1 : a[k] = w12[k]
      BY <2>2
    <3>2. b \in Seq(SessionNames) /\ Len(b) = n - i /\ \A k \in 1 .. n - i : b[k] = w12[k + i]
      BY <2>2
    <3> HIDE DEF a, b
    <3>3. a \o b \in Seq(SessionNames) /\ Len(a \o b) = n - 1
      BY <2>2, <3>1, <3>2
    <3>4. \A k \in 1 .. n - 1 : (a \o b)[k] = IF k <= i - 1 THEN a[k] ELSE b[k - (i - 1)]
      BY <2>2, <3>1, <3>2
    <3>5. ASSUME NEW k \in 1 .. n - 1, k < i PROVE (a \o b)[k] = w12[k]
      BY <2>2, <3>1, <3>4, <3>5
    <3>6. ASSUME NEW k \in 1 .. n - 1, k >= i PROVE (a \o b)[k] = w12[k + 1]
      <4>1. k - (i - 1) \in 1 .. n - i /\ (k - (i - 1)) + i = k + 1
        BY <2>2, <3>6
      <4>2. (a \o b)[k] = b[k - (i - 1)]
        <5>1. ~(k <= i - 1)
          BY <2>2, <3>6
        <5> QED BY <3>4, <3>6, <5>1
      <4>3. b[k - (i - 1)] = w12[(k - (i - 1)) + i]
        BY <3>2, <4>1
      <4> QED BY <4>1, <4>2, <4>3
    <3>7. w12' = a \o b
      BY <2>1 DEF a, b
    <3>8. ASSUME NEW k \in 1 .. n - 1 PROVE (a \o b)[k] = IF k < i THEN w12[k] ELSE w12[k + 1]
      <4>1. k < i \/ k >= i
        BY <2>2
      <4>2. k >= i => ~(k < i)
        BY <2>2
      <4> QED BY <3>5, <3>6, <4>1, <4>2
    <3> HIDE DEF n
    <3> QED BY <3>3, <3>7, <3>8
  <2>4. DOMAIN w12 = 1 .. n /\ DOMAIN w12' = 1 .. n - 1
    BY <2>2, <2>3
  <2> HIDE DEF n
  <2>5. \A j, k \in 1 .. n : w12[j] = w12[k] => j = k
    BY <1>0, <2>4 DEF Tombstones
  <2>6. \A j, k \in 1 .. n - 1 : w12'[j] = w12'[k] => j = k
    BY <2>2, <2>3, <2>5
  <2>7. ASSUME NEW t \in SessionNames PROVE w1'[t] = "settled" <=> \E k \in 1 .. n - 1 : w12'[k] = t
    <3>1. CASE t = s
      <4>1. w1'[t] # "settled"
        BY <1>0, <1>a, <3>1 DEF PhaseTypes
      <4>2. ASSUME NEW k \in 1 .. n - 1 PROVE w12'[k] # t
        <5>1. CASE k < i
          <6>1. k \in 1 .. n /\ k # i /\ w12'[k] = w12[k]
            BY <2>2, <2>3, <5>1
          <6> QED BY <2>1, <2>2, <2>5, <3>1, <6>1
        <5>2. CASE ~(k < i)
          <6>1. k + 1 \in 1 .. n /\ k + 1 # i /\ w12'[k] = w12[k + 1]
            BY <2>2, <2>3, <5>2
          <6> QED BY <2>1, <2>2, <2>5, <3>1, <6>1
        <5> QED BY <5>1, <5>2
      <4> QED BY <4>1, <4>2
    <3>2. CASE t # s
      <4>1. w1'[t] = w1[t]
        BY <1>0, <1>a, <3>2 DEF PhaseTypes
      <4>2. w1[t] = "settled" <=> \E k \in 1 .. n : w12[k] = t
        BY <1>0, <2>4 DEF Tombstones
      <4>3. ASSUME NEW k \in 1 .. n, w12[k] = t PROVE \E j \in 1 .. n - 1 : w12'[j] = t
        <5>1. k # i
          BY <2>1, <3>2, <4>3
        <5>2. CASE k < i
          <6>1. k \in 1 .. n - 1 /\ w12'[k] = t
            BY <2>2, <2>3, <4>3, <5>2
          <6> QED BY <6>1
        <5>3. CASE k > i
          <6>1. k - 1 \in 1 .. n - 1 /\ ~(k - 1 < i) /\ (k - 1) + 1 = k
            BY <2>2, <4>3, <5>3
          <6>2. w12'[k - 1] = t
            BY <2>3, <4>3, <6>1
          <6> QED BY <6>1, <6>2
        <5> QED BY <2>2, <5>1, <5>2, <5>3
      <4>4. ASSUME NEW k \in 1 .. n - 1, w12'[k] = t PROVE \E j \in 1 .. n : w12[j] = t
        BY <2>2, <2>3, <4>4
      <4> QED BY <4>1, <4>2, <4>3, <4>4
    <3> QED BY <3>1, <3>2
  <2>8. Len(w12') <= Cap
    BY <2>2, <2>3
  <2> QED BY <2>3, <2>4, <2>6, <2>7, <2>8 DEF Tombstones
<1>9. ActiveIs'
  BY <1>0 DEF Sessions!CloseTombstone, Sessions!Dropped, Sessions!Cancelled, Sessions!Tombstone,
       Sessions!process, Sessions!reader, Sessions!registry, ActiveIs, PhaseTypes, SessCounted
<1>10. ProcessTypes' /\ CountsOk'
  BY <1>0 DEF Sessions!CloseTombstone, Sessions!Dropped, Sessions!Cancelled, Sessions!Tombstone,
       Sessions!process, Sessions!reader, Sessions!registry, ProcessTypes, CountsOk, Sessions!Exited,
       CountOk, DrainOk, JournalOk, LastOf, ExitOk, CursorOk
<1> QED BY <1>1, <1>2, <1>3, <1>4, <1>5, <1>6, <1>7, <1>8, <1>9, <1>10 DEF SessInv

(* Attach keeps the invariant.                                             *)
LEMMA SessAttach ==
  ASSUME SessInv, NEW c \in Channels, NEW s \in SessionNames, NEW from \in Nat, Sessions!Attach(c, s, from)
  PROVE  SessInv'
<1>0. /\ ProcessTypes /\ ReaderTypes /\ PhaseTypes /\ SubTypes /\ CountsOk /\ DrainsOk
      /\ JournalsOk /\ ExitsOk /\ CursorsOk /\ Tombstones /\ ActiveIs
  BY DEF SessInv
<1> DEFINE g == [Sessions!Off EXCEPT !.pc = "look", !.s = s, !.cursor = Sessions!Clamped(w9[s], from)]
<1>b. w14' = [w14 EXCEPT ![c] = g] /\ (Sessions!Running(s) \/ Sessions!Tombstone(s)) /\ UNCHANGED <<Sessions!reader, Sessions!registry>>
  BY DEF Sessions!Attach
<1>d. /\ DOMAIN g = SubFields /\ g.pc = "look" /\ g.exited = FALSE /\ g.s = s
      /\ g.cursor = Sessions!Clamped(w9[s], from)
      /\ g.gap = FALSE /\ g.woken = FALSE
  BY DEF SubFields, Sessions!Off
<1> HIDE DEF g
<1>h. ExitOk(g)
  BY <1>b, <1>d DEF ExitOk, Sessions!Running, Sessions!Tombstone
<1>i. CursorOk(g)
  <2>1. /\ Len(w9[s].recs) \in Nat /\ w9[s].old \in Nat /\ w9[s].cur \in Nat
        /\ w9[s].old <= w9[s].cur /\ w9[s].cur <= Len(w9[s].recs)
    BY <1>0 DEF ReaderTypes, Journals, JournalsOk, JournalOk
  <2>2. Sessions!Clamped(w9[s], from) \in Nat /\ Sessions!Clamped(w9[s], from) <= Len(w9[s].recs)
    BY <2>1 DEF Sessions!Clamped, Sessions!NextSeq
  <2> QED BY <1>d, <2>2 DEF CursorOk
<1>g. SubTypes' /\ ExitsOk' /\ CursorsOk'
  <2>1. g.pc \in SubSteps
    BY <1>d DEF SubSteps
  <2> QED BY <1>0, <1>b, <1>d, <1>h, <1>i, <2>1, SessOneSub
<1>1. SubTypes'
  BY <1>g
<1>2. ExitsOk'
  BY <1>g
<1>3. CursorsOk'
  BY <1>g
<1>4. /\ ProcessTypes' /\ ReaderTypes' /\ PhaseTypes' /\ CountsOk' /\ DrainsOk' /\ JournalsOk'
      /\ Tombstones' /\ ActiveIs'
  BY <1>0 DEF Sessions!Attach, Sessions!Clamped, Sessions!NextSeq, Sessions!Off, Sessions!Ended,
       Sessions!Running, Sessions!Tombstone, Sessions!process, Sessions!reader, Sessions!registry,
       ProcessTypes, ReaderTypes, PhaseTypes, CountsOk, DrainsOk, JournalsOk, Tombstones, ActiveIs,
       Sessions!Exited, CountOk, DrainOk, JournalOk, LastOf, ExitOk, CursorOk
<1> QED BY <1>1, <1>2, <1>3, <1>4 DEF SessInv

(* FollowFailure keeps the invariant.                                      *)
LEMMA SessFollowFailure ==
  ASSUME SessInv, NEW c \in Channels, Sessions!FollowFailure(c)
  PROVE  SessInv'
<1>0. /\ ProcessTypes /\ ReaderTypes /\ PhaseTypes /\ SubTypes /\ CountsOk /\ DrainsOk
      /\ JournalsOk /\ ExitsOk /\ CursorsOk /\ Tombstones /\ ActiveIs
  BY DEF SessInv
<1>1. SubTypes'
  BY <1>0 DEF Sessions!FollowFailure, Sessions!process, Sessions!reader, Sessions!registry, SubTypes,
       SubFields, SubSteps
<1>2. ExitsOk'
  BY <1>0 DEF Sessions!FollowFailure, Sessions!process, Sessions!reader, Sessions!registry, ExitsOk,
       SubTypes, ReaderTypes, PhaseTypes, ExitOk, Drains, Sessions!Ended, SubFields, SubSteps
<1>3. CursorsOk'
  BY <1>0 DEF Sessions!FollowFailure, Sessions!process, Sessions!reader, Sessions!registry, CursorsOk,
       SubTypes, ReaderTypes, CursorOk, Journals, SubFields, SubSteps
<1>4. /\ ProcessTypes' /\ ReaderTypes' /\ PhaseTypes' /\ CountsOk' /\ DrainsOk' /\ JournalsOk'
      /\ Tombstones' /\ ActiveIs'
  BY <1>0 DEF Sessions!FollowFailure, Sessions!process, Sessions!reader, Sessions!registry,
       ProcessTypes, ReaderTypes, PhaseTypes, CountsOk, DrainsOk, JournalsOk, Tombstones, ActiveIs,
       Sessions!Exited, CountOk, DrainOk, JournalOk, LastOf, ExitOk, CursorOk
<1> QED BY <1>1, <1>2, <1>3, <1>4 DEF SessInv

(* FollowExit keeps the invariant.                                         *)
LEMMA SessFollowExit ==
  ASSUME SessInv, NEW c \in Channels, Sessions!FollowExit(c)
  PROVE  SessInv'
<1>0. /\ ProcessTypes /\ ReaderTypes /\ PhaseTypes /\ SubTypes /\ CountsOk /\ DrainsOk
      /\ JournalsOk /\ ExitsOk /\ CursorsOk /\ Tombstones /\ ActiveIs
  BY DEF SessInv
<1>a. /\ DOMAIN w14[c] = SubFields /\ w14[c].pc \in SubSteps /\ w14[c].exited \in BOOLEAN
      /\ w14[c].gap \in BOOLEAN /\ w14[c].woken \in BOOLEAN /\ ExitOk(w14[c]) /\ CursorOk(w14[c])
      /\ w14[c].pc # "off" => w14[c].s \in SessionNames
  BY <1>0 DEF SubTypes, ExitsOk, CursorsOk
<1> DEFINE f == w14[c]
           g == [f EXCEPT !.pc = "read", !.exited = Sessions!ExitKnown(f.s)]
<1>b. w14' = [w14 EXCEPT ![c] = g] /\ f.pc = "exit" /\ UNCHANGED <<Sessions!reader, Sessions!registry>>
  BY DEF Sessions!FollowExit
<1>c. Sessions!ExitKnown(f.s) \in BOOLEAN
  BY DEF Sessions!ExitKnown
<1>d. /\ DOMAIN g = SubFields /\ g.pc = "read" /\ g.exited = Sessions!ExitKnown(f.s) /\ g.s = f.s
      /\ g.cursor = f.cursor
      /\ g.gap = f.gap /\ g.woken = f.woken
  BY <1>a DEF SubFields
<1> HIDE DEF g
<1>e. ExitOk(g)
  <2>1. f.s \in SessionNames /\ w1[f.s] \notin {"new", "checked", "gone"}
    BY <1>a, <1>b DEF ExitOk, Sessions!Ended
  <2>2. Sessions!ExitKnown(f.s) => w8[f.s].done
    BY <1>0, <2>1 DEF DrainsOk, DrainOk, Sessions!ExitKnown
  <2> QED BY <1>d, <2>1, <2>2 DEF ExitOk
<1>f. CursorOk(g)
  BY <1>a, <1>b, <1>d DEF CursorOk
<1>g. SubTypes' /\ ExitsOk' /\ CursorsOk'
  <2>1. g.pc \in SubSteps /\ g.pc # "off" /\ f.pc # "off"
    BY <1>b, <1>d DEF SubSteps
  <2> QED BY <1>0, <1>a, <1>b, <1>c, <1>d, <1>e, <1>f, <2>1, SessOneSub
<1>1. SubTypes'
  BY <1>g
<1>2. ExitsOk'
  BY <1>g
<1>3. CursorsOk'
  BY <1>g
<1>4. /\ ProcessTypes' /\ ReaderTypes' /\ PhaseTypes' /\ CountsOk' /\ DrainsOk' /\ JournalsOk'
      /\ Tombstones' /\ ActiveIs'
  BY <1>0 DEF Sessions!FollowExit, Sessions!ExitKnown, Sessions!process, Sessions!reader,
       Sessions!registry, ProcessTypes, ReaderTypes, PhaseTypes, CountsOk, DrainsOk, JournalsOk,
       Tombstones, ActiveIs, Sessions!Exited, CountOk, DrainOk, JournalOk, LastOf, ExitOk, CursorOk
<1> QED BY <1>1, <1>2, <1>3, <1>4 DEF SessInv

(* FollowRead keeps the invariant.                                         *)
LEMMA SessFollowRead ==
  ASSUME SessInv, NEW c \in Channels, Sessions!FollowRead(c)
  PROVE  SessInv'
<1>0. /\ ProcessTypes /\ ReaderTypes /\ PhaseTypes /\ SubTypes /\ CountsOk /\ DrainsOk
      /\ JournalsOk /\ ExitsOk /\ CursorsOk /\ Tombstones /\ ActiveIs
  BY DEF SessInv
<1>a. /\ DOMAIN w14[c] = SubFields /\ w14[c].pc \in SubSteps /\ w14[c].exited \in BOOLEAN
      /\ w14[c].gap \in BOOLEAN /\ w14[c].woken \in BOOLEAN /\ ExitOk(w14[c]) /\ CursorOk(w14[c])
      /\ w14[c].pc # "off" => w14[c].s \in SessionNames
  BY <1>0 DEF SubTypes, ExitsOk, CursorsOk
<1> DEFINE f == w14[c]
           p == Sessions!NextStep(f)
           b == IF p = "send" THEN Sessions!Found(f) ELSE {}
           g == [f EXCEPT !.pc = p, !.exited = FALSE, !.batch = b]
<1>b. w14' = [w14 EXCEPT ![c] = g] /\ f.pc = "read" /\ UNCHANGED <<Sessions!reader, Sessions!registry>>
  BY DEF Sessions!FollowRead
<1>c. p \in {"error", "send", "clean", "wait"} /\ (p = "clean" => f.exited)
  BY DEF Sessions!NextStep
<1>d. /\ p = "send" => ~Sessions!Behind(f) /\ Sessions!Found(f) # {}
      /\ p = "clean" => ~(f.cursor < Sessions!NextSeq(w9[f.s]))
  BY DEF Sessions!NextStep
<1> HIDE DEF p
<1>e. /\ DOMAIN g = SubFields /\ g.pc = p /\ g.exited = FALSE /\ g.s = f.s /\ g.cursor = f.cursor
      /\ g.gap = f.gap /\ g.woken = f.woken /\ g.batch = b
  BY <1>a DEF SubFields
<1> HIDE DEF g
<1>f. f.s \in SessionNames /\ w1[f.s] \notin {"new", "checked", "gone"} /\ (f.exited => w8[f.s].done)
  BY <1>a, <1>b DEF ExitOk, Sessions!Ended
<1>h. ExitOk(g)
  BY <1>c, <1>e, <1>f DEF ExitOk
<1>i. CursorOk(g)
  <2>1. SUFFICES ASSUME ~w9[f.s].failed PROVE CursorOk(g)
    BY <1>e DEF CursorOk
  <2>2. f.cursor \in Nat /\ f.cursor <= Len(w9[f.s].recs) /\ ~f.gap
    BY <1>a, <1>b, <2>1 DEF CursorOk
  <2>3. /\ w9[f.s] \in Journals /\ w9[f.s].bad = {} /\ w9[f.s].old <= w9[f.s].cur
        /\ w9[f.s].cur <= Len(w9[f.s].recs)
    BY <1>0, <1>f, <2>1 DEF ReaderTypes, JournalsOk, JournalOk
  <2>4. Len(w9[f.s].recs) \in Nat /\ w9[f.s].old \in Nat
    BY <2>3 DEF Journals
  <2>5. p = "clean" => f.cursor = Len(w9[f.s].recs)
    BY <1>d, <2>2, <2>4 DEF Sessions!NextSeq
  <2>6. ASSUME p = "send" PROVE \E h \in f.cursor .. Len(w9[f.s].recs) - 1 : b = f.cursor .. h
    <3>1. w9[f.s].old <= f.cursor
      BY <1>d, <2>2, <2>4, <2>6 DEF Sessions!Behind
    <3>2. b = Sessions!ReadFrom(w9[f.s], f.cursor) /\ b # {}
      BY <1>d, <2>6 DEF Sessions!Found
    <3> QED BY <2>2, <2>3, <3>1, <3>2, SessReadFrom
  <2> HIDE DEF b
  <2> QED BY <1>e, <2>2, <2>5, <2>6 DEF CursorOk
<1>g. SubTypes' /\ ExitsOk' /\ CursorsOk'
  <2>1. g.pc \in SubSteps /\ g.pc # "off" /\ f.pc # "off"
    BY <1>b, <1>c, <1>e DEF SubSteps
  <2> QED BY <1>0, <1>a, <1>b, <1>e, <1>f, <1>h, <1>i, <2>1, SessOneSub
<1>1. SubTypes'
  BY <1>g
<1>2. ExitsOk'
  BY <1>g
<1>3. CursorsOk'
  BY <1>g
<1>4. /\ ProcessTypes' /\ ReaderTypes' /\ PhaseTypes' /\ CountsOk' /\ DrainsOk' /\ JournalsOk'
      /\ Tombstones' /\ ActiveIs'
  BY <1>0 DEF Sessions!FollowRead, Sessions!process, Sessions!reader, Sessions!registry, ProcessTypes,
       ReaderTypes, PhaseTypes, CountsOk, DrainsOk, JournalsOk, Tombstones, ActiveIs, Sessions!Exited,
       CountOk, DrainOk, JournalOk, LastOf, ExitOk, CursorOk
<1> QED BY <1>1, <1>2, <1>3, <1>4 DEF SessInv

(* FollowWakes keeps the invariant.                                        *)
LEMMA SessFollowWakes ==
  ASSUME SessInv, NEW c \in Channels, Sessions!FollowWakes(c)
  PROVE  SessInv'
<1>0. /\ ProcessTypes /\ ReaderTypes /\ PhaseTypes /\ SubTypes /\ CountsOk /\ DrainsOk
      /\ JournalsOk /\ ExitsOk /\ CursorsOk /\ Tombstones /\ ActiveIs
  BY DEF SessInv
<1>1. SubTypes'
  BY <1>0 DEF Sessions!FollowWakes, Sessions!process, Sessions!reader, Sessions!registry, SubTypes,
       SubFields, SubSteps
<1>2. ExitsOk'
  BY <1>0 DEF Sessions!FollowWakes, Sessions!process, Sessions!reader, Sessions!registry, ExitsOk,
       SubTypes, ReaderTypes, PhaseTypes, ExitOk, Drains, Sessions!Ended, SubFields, SubSteps
<1>3. CursorsOk'
  BY <1>0 DEF Sessions!FollowWakes, Sessions!process, Sessions!reader, Sessions!registry, CursorsOk,
       SubTypes, ReaderTypes, CursorOk, Journals, SubFields, SubSteps
<1>4. /\ ProcessTypes' /\ ReaderTypes' /\ PhaseTypes' /\ CountsOk' /\ DrainsOk' /\ JournalsOk'
      /\ Tombstones' /\ ActiveIs'
  BY <1>0 DEF Sessions!FollowWakes, Sessions!process, Sessions!reader, Sessions!registry, ProcessTypes,
       ReaderTypes, PhaseTypes, CountsOk, DrainsOk, JournalsOk, Tombstones, ActiveIs, Sessions!Exited,
       CountOk, DrainOk, JournalOk, LastOf, ExitOk, CursorOk
<1> QED BY <1>1, <1>2, <1>3, <1>4 DEF SessInv

(* FollowSends keeps the invariant.                                        *)
LEMMA SessFollowSends ==
  ASSUME SessInv, NEW c \in Channels, Sessions!FollowSends(c)
  PROVE  SessInv'
<1>0. /\ ProcessTypes /\ ReaderTypes /\ PhaseTypes /\ SubTypes /\ CountsOk /\ DrainsOk
      /\ JournalsOk /\ ExitsOk /\ CursorsOk /\ Tombstones /\ ActiveIs
  BY DEF SessInv
<1>a. /\ DOMAIN w14[c] = SubFields /\ w14[c].pc \in SubSteps /\ w14[c].exited \in BOOLEAN
      /\ w14[c].gap \in BOOLEAN /\ w14[c].woken \in BOOLEAN /\ ExitOk(w14[c]) /\ CursorOk(w14[c])
      /\ w14[c].pc # "off" => w14[c].s \in SessionNames
  BY <1>0 DEF SubTypes, ExitsOk, CursorsOk
<1> DEFINE f == w14[c]
           q == CHOOSE x \in f.batch : \A y \in f.batch : x <= y
           k == f.gap \/ q # f.cursor
           p == IF f.batch = {q} THEN "look" ELSE "send"
           g == [f EXCEPT !.cursor = q + 1, !.batch = f.batch \ {q}, !.gap = k, !.pc = p]
<1>b. w14' = [w14 EXCEPT ![c] = g] /\ f.pc = "send" /\ UNCHANGED <<Sessions!reader, Sessions!registry>>
  BY DEF Sessions!FollowSends
<1>c. k \in BOOLEAN /\ p \in {"look", "send"}
  OBVIOUS
<1>d. /\ DOMAIN g = SubFields /\ g.pc = p /\ g.exited = f.exited /\ g.s = f.s /\ g.cursor = q + 1
      /\ g.gap = k /\ g.woken = f.woken /\ g.batch = f.batch \ {q}
  BY <1>a DEF SubFields
<1> HIDE DEF g
<1>f. f.s \in SessionNames /\ w1[f.s] \notin {"new", "checked", "gone"}
  BY <1>a, <1>b DEF ExitOk, Sessions!Ended
<1>h. ExitOk(g)
  BY <1>c, <1>d, <1>f DEF ExitOk
<1>i. CursorOk(g)
  <2>1. SUFFICES ASSUME ~w9[f.s].failed PROVE CursorOk(g)
    BY <1>d DEF CursorOk
  <2> DEFINE n == Len(w9[f.s].recs)
  <2>2. f.cursor \in Nat /\ n \in Nat /\ ~f.gap
    BY <1>0, <1>a, <1>b, <1>f, <2>1 DEF CursorOk, ReaderTypes, Journals
  <2>3. PICK h \in f.cursor .. n - 1 : f.batch = f.cursor .. h
    BY <1>a, <1>b, <2>1 DEF CursorOk
  <2> HIDE DEF n
  <2>4. q = f.cursor
    <3>1. f.cursor \in f.batch /\ \A y \in f.batch : f.cursor <= y
      BY <2>2, <2>3
    <3>2. \A x \in f.batch : (\A y \in f.batch : x <= y) => x = f.cursor
      BY <2>2, <2>3
    <3> QED BY <3>1, <3>2
  <2> HIDE DEF q
  <2>5. ~k
    BY <2>2, <2>4
  <2>6. CASE h = f.cursor
    <3>1. f.batch = {q}
      BY <2>2, <2>3, <2>4, <2>6
    <3>2. p = "look"
      BY <3>1
    <3>3. q + 1 \in Nat /\ q + 1 <= n
      BY <2>2, <2>3, <2>4, <2>6
    <3> QED BY <1>d, <2>5, <3>2, <3>3 DEF CursorOk, n
  <2>7. CASE h > f.cursor
    <3>1. f.batch \ {q} = q + 1 .. h /\ h \in q + 1 .. n - 1
      BY <2>2, <2>3, <2>4, <2>7
    <3>2. q + 1 \in Nat /\ q + 1 <= n
      BY <2>2, <2>3, <2>4, <2>7
    <3>3. g.pc # "clean"
      BY <1>c, <1>d
    <3> QED BY <1>d, <2>5, <3>1, <3>2, <3>3 DEF CursorOk, n
  <2> QED BY <2>2, <2>3, <2>6, <2>7
<1>g. SubTypes' /\ ExitsOk' /\ CursorsOk'
  <2>1. g.pc \in SubSteps /\ g.pc # "off" /\ f.pc # "off"
    BY <1>b, <1>c, <1>d DEF SubSteps
  <2> QED BY <1>0, <1>a, <1>b, <1>c, <1>d, <1>f, <1>h, <1>i, <2>1, SessOneSub
<1>1. SubTypes'
  BY <1>g
<1>2. ExitsOk'
  BY <1>g
<1>3. CursorsOk'
  BY <1>g
<1>4. /\ ProcessTypes' /\ ReaderTypes' /\ PhaseTypes' /\ CountsOk' /\ DrainsOk' /\ JournalsOk'
      /\ Tombstones' /\ ActiveIs'
  BY <1>0 DEF Sessions!FollowSends, Sessions!process, Sessions!reader, Sessions!registry, ProcessTypes,
       ReaderTypes, PhaseTypes, CountsOk, DrainsOk, JournalsOk, Tombstones, ActiveIs, Sessions!Exited,
       CountOk, DrainOk, JournalOk, LastOf, ExitOk, CursorOk
<1> QED BY <1>1, <1>2, <1>3, <1>4 DEF SessInv

(* Detach keeps the invariant.                                             *)
LEMMA SessDetach ==
  ASSUME SessInv, NEW c \in Channels, Sessions!Detach(c)
  PROVE  SessInv'
<1>0. /\ ProcessTypes /\ ReaderTypes /\ PhaseTypes /\ SubTypes /\ CountsOk /\ DrainsOk
      /\ JournalsOk /\ ExitsOk /\ CursorsOk /\ Tombstones /\ ActiveIs
  BY DEF SessInv
<1>1. SubTypes'
  BY <1>0 DEF Sessions!Detach, Sessions!Off, Sessions!process, Sessions!reader, Sessions!registry,
       SubTypes, SubFields, SubSteps
<1>2. ExitsOk'
  BY <1>0 DEF Sessions!Detach, Sessions!Off, Sessions!process, Sessions!reader, Sessions!registry,
       ExitsOk, SubTypes, ReaderTypes, PhaseTypes, ExitOk, Drains, Sessions!Ended, SubFields, SubSteps
<1>3. CursorsOk'
  BY <1>0 DEF Sessions!Detach, Sessions!Off, Sessions!process, Sessions!reader, Sessions!registry,
       CursorsOk, SubTypes, ReaderTypes, CursorOk, Journals, SubFields, SubSteps
<1>4. /\ ProcessTypes' /\ ReaderTypes' /\ PhaseTypes' /\ CountsOk' /\ DrainsOk' /\ JournalsOk'
      /\ Tombstones' /\ ActiveIs'
  BY <1>0 DEF Sessions!Detach, Sessions!Off, Sessions!process, Sessions!reader, Sessions!registry,
       ProcessTypes, ReaderTypes, PhaseTypes, CountsOk, DrainsOk, JournalsOk, Tombstones, ActiveIs,
       Sessions!Exited, CountOk, DrainOk, JournalOk, LastOf, ExitOk, CursorOk
<1> QED BY <1>1, <1>2, <1>3, <1>4 DEF SessInv

(* PeerGone keeps the invariant.                                           *)
LEMMA SessPeerGone ==
  ASSUME SessInv, NEW c \in Channels, Sessions!PeerGone(c)
  PROVE  SessInv'
<1>0. /\ ProcessTypes /\ ReaderTypes /\ PhaseTypes /\ SubTypes /\ CountsOk /\ DrainsOk
      /\ JournalsOk /\ ExitsOk /\ CursorsOk /\ Tombstones /\ ActiveIs
  BY DEF SessInv
<1>1. SubTypes'
  BY <1>0 DEF Sessions!PeerGone, Sessions!Off, Sessions!process, Sessions!reader, Sessions!registry,
       SubTypes, SubFields, SubSteps
<1>2. ExitsOk'
  BY <1>0 DEF Sessions!PeerGone, Sessions!Off, Sessions!process, Sessions!reader, Sessions!registry,
       ExitsOk, SubTypes, ReaderTypes, PhaseTypes, ExitOk, Drains, Sessions!Ended, SubFields, SubSteps
<1>3. CursorsOk'
  BY <1>0 DEF Sessions!PeerGone, Sessions!Off, Sessions!process, Sessions!reader, Sessions!registry,
       CursorsOk, SubTypes, ReaderTypes, CursorOk, Journals, SubFields, SubSteps
<1>4. /\ ProcessTypes' /\ ReaderTypes' /\ PhaseTypes' /\ CountsOk' /\ DrainsOk' /\ JournalsOk'
      /\ Tombstones' /\ ActiveIs'
  BY <1>0 DEF Sessions!PeerGone, Sessions!Off, Sessions!process, Sessions!reader, Sessions!registry,
       ProcessTypes, ReaderTypes, PhaseTypes, CountsOk, DrainsOk, JournalsOk, Tombstones, ActiveIs,
       Sessions!Exited, CountOk, DrainOk, JournalOk, LastOf, ExitOk, CursorOk
<1> QED BY <1>1, <1>2, <1>3, <1>4 DEF SessInv

(* The invariant holds at the start.                                       *)
LEMMA SessInitial ==
  ASSUME Sessions!Init
  PROVE  SessInv
<1>1. /\ w4 = [s \in SessionNames |-> 0] /\ w5 = w4 /\ w6 = w4 /\ w7 = w4
      /\ w8 = [s \in SessionNames |-> [Sessions!Undrained EXCEPT !.done = s \in Over]]
      /\ w9 = [s \in SessionNames |-> Sessions!Fresh] /\ w14 = [c \in Channels |-> Sessions!Off]
      /\ w13 = 0
      /\ w1 = [s \in SessionNames |-> IF s \in Over THEN "settled" ELSE "new"]
      /\ w3 = [s \in SessionNames |-> IF s \in Over THEN "dead" ELSE "up"]
  BY DEF Sessions!Init
<1>2. PICK l \in Leaders : w2 = [s \in SessionNames |-> l]
  BY DEF Sessions!Init
<1>3. /\ l.output \in Nat /\ Cap \in Nat /\ Buffer \in Nat /\ DrainBudget \in Nat
      /\ Over \subseteq SessionNames /\ IsFiniteSet(Over) /\ Cardinality(Over) <= Cap
  BY SessConstants, SessFinite, SessionConstant, FS_Subset DEF Sessions!SessionConstants,
       Sessions!Cardinality, Cardinality
<1>4. \A s \in SessionNames : /\ w8[s] \in Drains /\ ~w8[s].on /\ (w8[s].done <=> s \in Over)
                          /\ w8[s].budget = 0
  <2> SUFFICES ASSUME NEW s \in SessionNames
               PROVE  w8[s] \in Drains /\ ~w8[s].on /\ (w8[s].done <=> s \in Over) /\ w8[s].budget = 0
    OBVIOUS
  <2>1. Sessions!Undrained \in Drains /\ ~Sessions!Undrained.on /\ Sessions!Undrained.budget = 0
    BY <1>3 DEF Sessions!Undrained, Drains
  <2> DEFINE o == s \in Over
  <2>2. w8[s] = [Sessions!Undrained EXCEPT !.done = o] /\ o \in BOOLEAN
    BY <1>1
  <2> QED BY <2>1, <2>2 DEF Drains
<1>5. Sessions!Fresh \in Journals /\ Sessions!Fresh.recs = <<>> /\ Sessions!Fresh.old = 0 /\ Sessions!Fresh.cur = 0 /\ ~Sessions!Fresh.torn /\ Sessions!Fresh.bad = {}
  BY DEF Sessions!Fresh, Journals
<1>6. DOMAIN Sessions!Off = SubFields /\ Sessions!Off.pc = "off" /\ Sessions!Off.exited = FALSE /\ Sessions!Off.gap = FALSE /\ Sessions!Off.woken = FALSE
  BY DEF Sessions!Off, SubFields
<1>7. ProcessTypes
  BY <1>1, <1>2 DEF ProcessTypes
<1>8. ReaderTypes
  BY <1>1, <1>4, <1>5 DEF ReaderTypes
<1>9. PhaseTypes
  BY <1>1 DEF PhaseTypes, Sessions!Phases
<1>10. SubTypes
  BY <1>1, <1>6 DEF SubTypes, SubSteps
<1>11. CountsOk
  BY <1>1, <1>2, <1>3 DEF CountsOk, CountOk
<1>12. DrainsOk
  BY <1>1, <1>4 DEF DrainsOk, DrainOk, Sessions!Exited
<1>13. JournalsOk
  <2>1. LastOf(Sessions!Fresh) = 0
    BY <1>5 DEF LastOf
  <2>2. Len(Sessions!Fresh.recs) = 0
    BY <1>5
  <2> QED BY <1>1, <1>5, <2>1, <2>2 DEF JournalsOk, JournalOk
<1>14. ExitsOk
  BY <1>1, <1>6 DEF ExitsOk, ExitOk, Sessions!Ended
<1>15. CursorsOk
  BY <1>1, <1>6 DEF CursorsOk, CursorOk
<1>16. Tombstones
  <2> DEFINE n == Cardinality(Over)
  <2>1. n \in Nat
    BY <1>3, FS_CardinalityType
  <2>2. w12 \in [1 .. n -> Over] /\ {w12[i] : i \in DOMAIN w12} = Over
    BY DEF Sessions!Init, Sessions!Cardinality, Cardinality
  <2> HIDE DEF n
  <2>3. w12 \in Seq(SessionNames) /\ Len(w12) = n /\ DOMAIN w12 = 1 .. n
    BY <1>3, <2>1, <2>2
  <2>4. IsFiniteSet(1 .. n) /\ Cardinality(1 .. n) = n
    <3>1. IsFiniteSet(1 .. n) /\ Cardinality(1 .. n) = IF 1 > n THEN 0 ELSE n - 1 + 1
      BY <2>1, FS_Interval
    <3> QED BY <2>1, <3>1
  <2>5. w12 \in Surjection(1 .. n, Over)
    BY <2>2, <2>3 DEF Surjection
  <2>6. w12 \in Injection(1 .. n, Over)
    BY <1>3, <2>4, <2>5, FS_SurjSameCardinalityImpliesInj DEF n
  <2>7. \A i, k \in 1 .. n : w12[i] = w12[k] => i = k
    BY <2>6, Zenon DEF Injection, IsInjective
  <2>8. \A s \in SessionNames : w1[s] = "settled" <=> \E i \in 1 .. n : w12[i] = s
    BY <1>1, <2>2, <2>3
  <2> QED BY <1>3, <2>3, <2>7, <2>8 DEF Tombstones, n
<1>17. ActiveIs
  <2>1. {s \in SessionNames : w1[s] \in SessCounted} = {}
    BY <1>1 DEF SessCounted
  <2>2. Cardinality({}) = 0
    BY FS_EmptySet
  <2> QED BY <1>1, <2>1, <2>2 DEF ActiveIs, Sessions!Cardinality, Cardinality
<1> QED BY <1>7, <1>8, <1>9, <1>10, <1>11, <1>12, <1>13, <1>14, <1>15, <1>16, <1>17 DEF SessInv

(* Every step keeps the invariant.                                         *)
LEMMA SessStep ==
  ASSUME SessInv, Sessions!Next
  PROVE  SessInv'
<1>1. \A s \in SessionNames : 0 .. Sessions!NextSeq(w9[s]) + 1 \subseteq Nat
  BY DEF Sessions!NextSeq
<1> QED BY <1>1, SessOpenCheck, SessOpenFails, SessOpenInsert, SessWrite, SessTtyShows, SessLeaderExits,
     SessDrainStarts, SessDeliver, SessHold, SessDrainQuiet, SessCaptureEnds, SessReap, SessDrained,
     SessCutInput, SessMarkExited, SessUnlist, SessBury, SessInputBegins, SessInputTaken,
     SessInputGivenUp, SessCloseRunning, SessKill, SessCloseTombstone, SessAttach, SessFollowFailure,
     SessFollowExit, SessFollowRead, SessFollowWakes, SessFollowSends, SessDetach,
     SessPeerGone DEF Sessions!Next, Sessions!Capture, Sessions!Wait, Sessions!Follow

(* The invariant is strong enough.                                         *)
LEMMA SessInvImplies ==
  ASSUME SessInv
  PROVE  Sessions!TypeOK /\ Sessions!CleanEndIsComplete /\ Sessions!NoRecordSkipped
<1>0. /\ ProcessTypes /\ ReaderTypes /\ PhaseTypes /\ SubTypes /\ CountsOk /\ DrainsOk /\ JournalsOk
      /\ ExitsOk /\ CursorsOk /\ Tombstones /\ ActiveIs
  BY DEF SessInv
<1>1. Sessions!CleanEndIsComplete
  <2> SUFFICES ASSUME NEW c \in Channels, w14[c].pc = "clean", ~w9[w14[c].s].failed
               PROVE  /\ w14[c].cursor = Sessions!NextSeq(w9[w14[c].s])
                      /\ w7[w14[c].s] <= LastOf(w9[w14[c].s])
    BY DEF Sessions!CleanEndIsComplete, LastOf, Sessions!NextSeq
  <2>1. w14[c].s \in SessionNames /\ ExitOk(w14[c]) /\ CursorOk(w14[c])
    BY <1>0 DEF SubTypes, ExitsOk, CursorsOk
  <2>2. w8[w14[c].s].done
    BY <2>1 DEF ExitOk
  <2>3. w7[w14[c].s] <= w6[w14[c].s] /\ LastOf(w9[w14[c].s]) = w6[w14[c].s]
    BY <1>0, <2>1, <2>2 DEF DrainsOk, DrainOk, JournalsOk, JournalOk
  <2>4. w14[c].cursor = Len(w9[w14[c].s].recs)
    BY <2>1 DEF CursorOk
  <2> QED BY <2>3, <2>4 DEF Sessions!NextSeq
<1>2. Sessions!NoRecordSkipped
  BY <1>0 DEF Sessions!NoRecordSkipped, CursorsOk, CursorOk, SubTypes
<1>3. Sessions!TypeOK
  <2>1. w13 \in 0 .. Cardinality(SessionNames)
    <3> DEFINE T == {s \in SessionNames : w1[s] \in SessCounted}
    <3>1. T \subseteq SessionNames /\ w13 = Cardinality(T)
      BY <1>0 DEF ActiveIs, Sessions!Cardinality, Cardinality
    <3> HIDE DEF T
    <3>2. Cardinality(T) \in Nat /\ Cardinality(SessionNames) \in Nat /\ Cardinality(T) <= Cardinality(SessionNames)
      BY <3>1, SessFinite, FS_Subset, FS_CardinalityType
    <3> QED BY <3>1, <3>2
  <2>2. \A s \in SessionNames : w8[s].budget \in 0 .. DrainBudget
    BY <1>0 DEF ReaderTypes, Drains
  <2>3. {w12[i] : i \in 1 .. Len(w12)} = {s \in SessionNames : Sessions!Tombstone(s)} /\ Len(w12) <= Cap
    BY <1>0 DEF Tombstones, Sessions!Tombstone
  <2>4. w1 \in [SessionNames -> Sessions!Phases] /\ w3 \in [SessionNames -> {"up", "killed", "dead"}]
    BY <1>0 DEF ProcessTypes, PhaseTypes
  <2>5. \A s \in SessionNames :
          /\ w6[s] <= w5[s] /\ w5[s] <= w4[s] /\ w4[s] <= w2[s].output
          /\ w9[s].old <= w9[s].cur /\ w9[s].cur <= Sessions!NextSeq(w9[s])
    BY <1>0 DEF CountsOk, CountOk, JournalsOk, JournalOk, Sessions!NextSeq
  <2> QED BY <2>1, <2>2, <2>3, <2>4, <2>5 DEF Sessions!TypeOK, Sessions!Cardinality, Cardinality
<1> QED BY <1>1, <1>2, <1>3

SessPart == part = "session" => SessInv

(* The invariant is about these variables alone.                           *)
LEMMA SessStutters ==
  ASSUME SessInv, UNCHANGED <<w1, w2, w3, w4, w5, w6, w7, w8, w9, w10, w11, w12, w13, w14>>
  PROVE  SessInv'
BY DEF SessInv, SubSteps, SubFields, Drains, Journals, ProcessTypes, ReaderTypes, PhaseTypes, SubTypes,
     CountOk, CountsOk, DrainOk, DrainsOk, LastOf, JournalOk, JournalsOk, ExitOk, ExitsOk, CursorOk,
     CursorsOk, Tombstones, SessCounted, ActiveIs, Sessions!Ended, Sessions!Exited, Sessions!Phases

(* Whatever part runs, this one keeps its invariant.                       *)
LEMMA SessAlways ==
  ASSUME SessPart, [RunningNext]_partVars
  PROVE  SessPart'
<1> SUFFICES ASSUME part' = "session" PROVE SessInv'
  BY DEF SessPart
<1>1. part = "session"
  BY DEF RunningNext, partVars
<1>2. SessInv
  BY <1>1 DEF SessPart
<1>3. CASE Sessions!Next
  BY <1>2, <1>3, SessStep
<1>4. CASE UNCHANGED <<w1, w2, w3, w4, w5, w6, w7, w8, w9, w10, w11, w12, w13, w14>>
  BY <1>2, <1>4, SessStutters
<1> QED BY <1>1, <1>3, <1>4 DEF RunningNext, partVars, From1, From3, From4, From5, From6, From7, From8,
     From10, From12, From13, From15, From17

(* A subscription that ends cleanly has everything the leader wrote, and   *)
(* none skips a record, for any sessions, subscribers and helpers, and     *)
(* wherever retention, a failed append or an eviction meets them           *)
(* (session.rs follow_journal, capture_output, finish).                    *)
THEOREM SessionCorrect == RunningSpec => []CleanEndIsComplete
<1>1. RunningInit => SessPart
  BY SessInitial DEF RunningInit, SessPart
<1>2. SessPart /\ [RunningNext]_partVars => SessPart'
  BY SessAlways
<1>3. SessPart => CleanEndIsComplete
  BY SessInvImplies DEF CleanEndIsComplete, SessPart
<1> QED BY <1>1, <1>2, <1>3, PTL DEF RunningSpec

-------------------------------------------------------------------------------
(* Watch: w1 is dirs, w2 registry, w3 events, w4 worker, w5 fence, w6      *)
(* unseen, w7 the changes left.                                            *)

Top(d) == <<d[1]>>
Events == [kind : Watcher!EventKinds,
     path : Watcher!Paths] \cup [kind : {"overflow"}] \cup [kind : {"fence"}, n : Nat]

(* The variables have their types; a worker that watches has listed the    *)
(* directory of an event and what is below it.                             *)
DirTypes ==
  /\ w1 \in [there : SUBSET Watcher!Paths, watched : SUBSET Watcher!Paths]
  /\ w1.watched \subseteq w1.there
  /\ \A d \in w1.there : Top(d) \in w1.there
RegistryTypes ==
  w2 \in [paths : SUBSET Watcher!Paths, unwatched : SUBSET Watcher!Paths, polled : BOOLEAN,
       overflowed : BOOLEAN]
EventTypes == w3 \in Seq(Events)
WorkerTypes ==
  \/ w4 = Watcher!IdleWorker
  \/ w4 \in [pc : {"signal"}, retry : BOOLEAN]
  \/ /\ w4 \in [pc : {"watch"}, path : Watcher!Paths, todo : SUBSET Watcher!Paths, added : BOOLEAN,
                    failed : SUBSET Watcher!Paths, retry : BOOLEAN]
     /\ w4.todo \subseteq Watcher!Below(w4.path) /\ w4.failed \subseteq Watcher!Below(w4.path)
FenceTypes ==
  /\ w5 \in [pc : {"none", "waiting", "settled", "timed_out"}, n : Nat, before : BOOLEAN]
  /\ w6 \in BOOLEAN
FenceNumbers == \A i \in DOMAIN w3 : w3[i].kind = "fence" => w3[i].n <= w5.n

(* What could not be watched has its class polled.                         *)
PolledIs == w2.unwatched # {} \/ w2.overflowed => w2.polled

(* A directory that no watch was added for will be looked at: an event of  *)
(* it or of its parent is still to be handled, the worker is at it, or it  *)
(* is to be retried.                                                       *)
Covers(i, d) ==
  w3[i].kind = "overflow" \/ (w3[i].kind \in {"create", "to"} /\ d \in Watcher!Below(w3[i].path))
InHand(d) ==
  /\ w4.pc = "watch"
  /\ \/ {Top(d), d} \cap (w4.todo \cup w4.failed) # {}
     \/ w4.added /\ d \in Watcher!Below(w4.path)
WillBeListed(d) ==
  \/ w2.overflowed \/ \E i \in DOMAIN w3 : Covers(i, d)
  \/ InHand(d) \/ \E q \in w2.unwatched : d \in Watcher!Below(q)
NewDirectories ==
  \A d \in w1.there \ (w1.watched \cup w2.paths) :
    d = Top(d) \/ Top(d) \notin Watcher!Forgotten => WillBeListed(d)

(* A directory that was made again is listed after it is taken out of the  *)
(* registry.                                                               *)
RemovedFirst ==
  \A i \in DOMAIN w3 : w3[i].kind = "remove" =>
    \A d \in {Top(w3[i].path), w3[i].path} :
      d \in w1.there \ w1.watched => \E j \in DOMAIN w3 : i < j /\ Covers(j, d)

(* An unseen change will be signalled, and one from before a fence before  *)
(* the fence is reached.                                                   *)
UnseenIs ==
  w6 /\ ~w2.polled => w4.pc # "recv" \/ \E i \in DOMAIN w3 : w3[i].kind # "fence"
BeforeIs ==
  w5.pc = "waiting" /\ w5.before /\ ~w2.polled =>
    \/ w4.pc # "recv"
    \/ \A k \in DOMAIN w3 : w3[k].kind = "fence" /\ w3[k].n = w5.n =>
         \E i \in DOMAIN w3 : i < k /\ w3[i].kind # "fence"
SettledIs == Watcher!SettledIsSeen

WatInv ==
  /\ DirTypes
  /\ RegistryTypes
  /\ EventTypes
  /\ WorkerTypes
  /\ FenceTypes
  /\ FenceNumbers
  /\ PolledIs
  /\ NewDirectories
  /\ RemovedFirst
  /\ UnseenIs
  /\ BeforeIs
  /\ SettledIs

(* A path is a top or a child, and below a path are it and its child.      *)
LEMMA WatPaths ==
  /\ \A p \in Watcher!Paths :
       /\ Top(p) \in Watcher!Paths /\ Top(Top(p)) = Top(p) /\ p[1] \in Tops /\ Top(p) = <<p[1]>>
       /\ p = Top(p) \/ p = Watcher!Child(p[1])
       /\ (Len(p) = 1 <=> p = Top(p)) /\ (Len(p) = 2 <=> p # Top(p))
  /\ \A t \in Tops :
       /\ <<t>> \in Watcher!Paths /\ Top(<<t>>) = <<t>>
       /\ Watcher!Child(t) \in Watcher!Paths /\ Top(Watcher!Child(t)) = <<t>> /\ Watcher!Child(t) # <<t>>
<1>1. \A p \in Watcher!Paths : \E t \in Tops : p = <<t>> \/ p = <<t, "sub">>
  BY DEF Watcher!Paths
<1>2. \A t \in Tops : <<t>> \in Watcher!Paths /\ <<t, "sub">> \in Watcher!Paths
  BY DEF Watcher!Paths
<1>3. \A t \in Tops : <<t>>[1] = t /\ <<t, "sub">>[1] = t /\ Len(<<t>>) = 1 /\ Len(<<t,
                                                                               "sub">>) = 2 /\ <<t>> # <<t, "sub">>
  OBVIOUS
<1> QED BY <1>1, <1>2, <1>3 DEF Top, Watcher!Child

(* Below a path are it and, of a top, its child.                           *)
LEMMA WatBelow == \A p, d \in Watcher!Paths : d \in Watcher!Below(p) <=> d = p \/ p = Top(d)
<1> SUFFICES ASSUME NEW p \in Watcher!Paths,
     NEW d \in Watcher!Paths PROVE d \in Watcher!Below(p) <=> d = p \/ p = Top(d)
  OBVIOUS
<1>1. d \in Watcher!Below(p) <=> d[1] = p[1] /\ Len(d) >= Len(p)
  BY DEF Watcher!Below
<1>2. PICK t \in Tops : p = <<t>> \/ p = <<t, "sub">>
  BY DEF Watcher!Paths
<1>3. PICK u \in Tops : d = <<u>> \/ d = <<u, "sub">>
  BY DEF Watcher!Paths
<1> QED BY <1>1, <1>2, <1>3 DEF Top

(* What is below a path is a path.                                         *)
LEMMA WatBelowPaths == \A p \in Watcher!Paths : Watcher!Below(p) \subseteq Watcher!Paths
  BY DEF Watcher!Below

(* What is raised is at the end of the queue, or an overflow is.           *)
Extends(seq) ==
  /\ w3' \in Seq(Events)
  /\ \A i \in DOMAIN w3 : i \in DOMAIN w3' /\ w3'[i] = w3[i]
  /\ \/ /\ DOMAIN w3' = 1 .. Len(w3) + Len(seq)
        /\ \A i \in DOMAIN seq : Len(w3) + i \in DOMAIN w3' /\ w3'[Len(w3) + i] = seq[i]
        /\ \A i \in DOMAIN w3' : i \in DOMAIN w3 \/ \E k \in DOMAIN seq : i = Len(w3) + k
     \/ /\ seq # <<>> /\ Len(w3') \in DOMAIN w3' /\ w3'[Len(w3')].kind = "overflow"
        /\ \A i \in DOMAIN w3' : i \in DOMAIN w3 \/ i = Len(w3')

(* What raising events leaves: the queue with them at its end, or with an  *)
(* overflow there.                                                         *)
LEMMA WatRaise ==
  ASSUME EventTypes, NEW seq \in Seq(Events), w3' = Watcher!Raise(seq)
  PROVE  Extends(seq)
<1>0. w3 \in Seq(Events) /\ Len(w3) \in Nat /\ Len(seq) \in Nat /\ DOMAIN w3 = 1 .. Len(w3)
      /\ DOMAIN seq = 1 .. Len(seq)
  BY DEF EventTypes
<1> DEFINE o == [kind |-> "overflow"]
<1>o. o \in Events /\ o.kind = "overflow"
  BY DEF Events
<1> HIDE DEF o
<1>1. CASE w3' = w3 \o seq
  <2>1. /\ w3' \in Seq(Events) /\ Len(w3') = Len(w3) + Len(seq)
        /\ DOMAIN w3' = 1 .. Len(w3) + Len(seq)
    BY <1>0, <1>1
  <2>2. \A i \in 1 .. Len(w3) + Len(seq) :
          w3'[i] = IF i <= Len(w3) THEN w3[i] ELSE seq[i - Len(w3)]
    BY <1>0, <1>1
  <2>3. \A i \in DOMAIN w3 : i \in DOMAIN w3' /\ w3'[i] = w3[i]
    BY <1>0, <2>1, <2>2
  <2>4. ASSUME NEW i \in DOMAIN seq PROVE Len(w3) + i \in DOMAIN w3' /\ w3'[Len(w3) + i] = seq[i]
    <3>1. /\ Len(w3) + i \in 1 .. Len(w3) + Len(seq) /\ ~(Len(w3) + i <= Len(w3))
          /\ (Len(w3) + i) - Len(w3) = i
      BY <1>0, <2>4
    <3> QED BY <2>1, <2>2, <3>1
  <2>5. ASSUME NEW i \in DOMAIN w3', i \notin DOMAIN w3 PROVE \E k \in DOMAIN seq : i = Len(w3) + k
    <3>1. i - Len(w3) \in DOMAIN seq /\ i = Len(w3) + (i - Len(w3))
      BY <1>0, <2>1, <2>5
    <3> QED BY <3>1
  <2> QED BY <2>1, <2>3, <2>4, <2>5 DEF Extends
<1>2. CASE seq # <<>> /\ w3' = w3 /\ w3 # <<>> /\ w3[Len(w3)].kind = "overflow"
  <2>1. Len(w3) \in DOMAIN w3
    BY <1>0, <1>2
  <2> QED BY <1>0, <1>2, <2>1 DEF Extends
<1>3. CASE seq # <<>> /\ w3' = Append(w3, o)
  <2>1. /\ w3' \in Seq(Events) /\ Len(w3') = Len(w3) + 1 /\ DOMAIN w3' = 1 .. Len(w3) + 1
        /\ w3'[Len(w3) + 1] = o /\ \A i \in 1 .. Len(w3) : w3'[i] = w3[i]
    BY <1>0, <1>3, <1>o
  <2>2. Len(w3') \in DOMAIN w3' /\ \A i \in DOMAIN w3' : i \in DOMAIN w3 \/ i = Len(w3')
    BY <1>0, <2>1
  <2>3. \A i \in DOMAIN w3 : i \in DOMAIN w3' /\ w3'[i] = w3[i]
    BY <1>0, <2>1
  <2> QED BY <1>3, <1>o, <2>1, <2>2, <2>3 DEF Extends
<1>4. CASE seq = <<>>
  <2>1. w3' = w3 /\ Len(seq) = 0 /\ DOMAIN seq = {}
    BY <1>0, <1>4 DEF Watcher!Raise
  <2> QED BY <1>0, <2>1 DEF Extends
<1> QED BY <1>1, <1>2, <1>3, <1>4 DEF Watcher!Raise, o

(* What taking the oldest event leaves.                                    *)
Shifted ==
  /\ w3' \in Seq(Events)
  /\ \A i \in DOMAIN w3' : i + 1 \in DOMAIN w3 /\ w3'[i] = w3[i + 1]
  /\ \A i \in DOMAIN w3 : i = 1 \/ (i - 1 \in DOMAIN w3' /\ w3'[i - 1] = w3[i])
  /\ 1 \in DOMAIN w3 /\ DOMAIN w3 \subseteq Nat /\ DOMAIN w3' \subseteq Nat
  /\ \A i \in DOMAIN w3 : i >= 1
  /\ \A i, k \in DOMAIN w3 : i < k => k # 1 /\ (i # 1 => i - 1 < k - 1)
  /\ \A i \in DOMAIN w3' : \A k \in DOMAIN w3 : i + 1 < k => i < k - 1 /\ k # 1

(* What taking the oldest event leaves.                                    *)
LEMMA WatTail ==
  ASSUME EventTypes, w3 # <<>>, w3' = Tail(w3)
  PROVE  Shifted /\ Head(w3) = w3[1]
<1>1. w3 \in Seq(Events) /\ Len(w3) \in Nat /\ Len(w3) > 0 /\ DOMAIN w3 = 1 .. Len(w3)
  BY DEF EventTypes
<1>2. /\ w3' \in Seq(Events) /\ DOMAIN w3' = 1 .. Len(w3) - 1
      /\ \A i \in 1 .. Len(w3) - 1 : w3'[i] = w3[i + 1]
  BY <1>1
<1>3. \A i \in DOMAIN w3 : i = 1 \/ (i - 1 \in DOMAIN w3' /\ w3'[i - 1] = w3[i])
  <2> SUFFICES ASSUME NEW i \in DOMAIN w3, i # 1 PROVE i - 1 \in DOMAIN w3' /\ w3'[i - 1] = w3[i]
    OBVIOUS
  <2>1. i - 1 \in 1 .. Len(w3) - 1 /\ (i - 1) + 1 = i
    BY <1>1
  <2> QED BY <1>2, <2>1
<1>4. \A i \in DOMAIN w3' : i + 1 \in DOMAIN w3 /\ w3'[i] = w3[i + 1]
  BY <1>1, <1>2
<1>5. /\ 1 \in DOMAIN w3 /\ DOMAIN w3 \subseteq Nat /\ DOMAIN w3' \subseteq Nat
      /\ \A i \in DOMAIN w3 : i >= 1
      /\ \A i, k \in DOMAIN w3 : i < k => k # 1 /\ (i # 1 => i - 1 < k - 1)
      /\ \A i \in DOMAIN w3' : \A k \in DOMAIN w3 : i + 1 < k => i < k - 1 /\ k # 1
  BY <1>1, <1>2
<1>6. Head(w3) = w3[1]
  BY <1>1
<1> QED BY <1>2, <1>3, <1>4, <1>5, <1>6 DEF Shifted

(* What an event is.                                                       *)
LEMMA WatEvent ==
  ASSUME EventTypes, NEW i \in DOMAIN w3
  PROVE  /\ w3[i] \in Events /\ (w3[i].kind \in Watcher!EventKinds => w3[i].path \in Watcher!Paths)
         /\ w3[i].kind = "fence" => w3[i].n \in Nat
         /\ w3[i].kind \in Watcher!EventKinds \cup {"overflow", "fence"}
<1>1. w3[i] \in Events
  BY DEF EventTypes
<1> QED BY <1>1 DEF Events, Watcher!EventKinds

(* What will be listed with a top is listed with its child.                *)
LEMMA WatWith ==
  ASSUME DirTypes, RegistryTypes, EventTypes, WorkerTypes, NEW p \in Watcher!Paths
  PROVE  /\ \A i \in DOMAIN w3 : Covers(i, Top(p)) => Covers(i, p)
         /\ WillBeListed(Top(p)) => WillBeListed(p)
<1>1. Top(p) \in Watcher!Paths /\ Top(Top(p)) = Top(p)
  BY WatPaths
<1>2. \A q \in Watcher!Paths : Top(p) \in Watcher!Below(q) => p \in Watcher!Below(q)
  BY <1>1, WatBelow
<1>3. \A i \in DOMAIN w3 : Covers(i, Top(p)) => Covers(i, p)
  <2> SUFFICES ASSUME NEW i \in DOMAIN w3, w3[i].kind \in {"create", "to"},
       Top(p) \in Watcher!Below(w3[i].path)
               PROVE  p \in Watcher!Below(w3[i].path)
    BY DEF Covers
  <2>1. w3[i].path \in Watcher!Paths
    BY WatEvent DEF Watcher!EventKinds
  <2> QED BY <1>2, <2>1
<1>4. InHand(Top(p)) => InHand(p)
  <2>1. w4.pc = "watch" => w4.path \in Watcher!Paths
    BY DEF WorkerTypes, Watcher!IdleWorker
  <2> QED BY <1>1, <1>2, <2>1 DEF InHand
<1>5. \A q \in w2.unwatched : q \in Watcher!Paths
  BY DEF RegistryTypes
<1>6. WillBeListed(Top(p)) => WillBeListed(p)
  BY <1>2, <1>3, <1>4, <1>5 DEF WillBeListed
<1> QED BY <1>3, <1>6

(* A change of the session, in general.                                    *)
Waits(x) == x \in w1.there \ (w1.watched \cup w2.paths) /\ (x = Top(x) \/ Top(x) \notin Watcher!Forgotten)
Ahead(x) == \E j \in DOMAIN w3' : Covers(j, x)' /\ \A i \in DOMAIN w3 : i < j \/ w3[i].kind = "overflow"
(* A change that what it makes is listed after keeps the invariant.        *)
LEMMA WatUser ==
  ASSUME WatInv, NEW seq \in Seq(Events), w3' = Watcher!Raise(seq), UNCHANGED <<w2, w4, w5>>, DirTypes',
         w6' \in BOOLEAN, \A k \in DOMAIN seq : seq[k].kind \in Watcher!EventKinds,
         w1'.watched \subseteq w1.watched, \A x \in w1'.there \cap w1.watched : x \in w1'.watched,
         \A x \in w1'.there \ w1.there : Ahead(x) \/ (Top(x) # x /\ Top(x) \in w1.there \ w1.watched),
         seq = <<>> /\ w6' => w6 \/ \E x \in w1.there : Waits(x),
         \A k \in DOMAIN seq : seq[k].kind = "remove" =>
           {Top(seq[k].path), seq[k].path} \cap (w1'.there \ w1'.watched) = {}
  PROVE  WatInv'
<1>0. /\ DirTypes /\ RegistryTypes /\ EventTypes /\ WorkerTypes /\ FenceTypes /\ FenceNumbers
      /\ PolledIs /\ NewDirectories /\ RemovedFirst /\ UnseenIs /\ BeforeIs /\ SettledIs
  BY DEF WatInv
<1>1. Extends(seq)
  BY <1>0, WatRaise
<1>2. EventTypes' /\ RegistryTypes' /\ WorkerTypes' /\ PolledIs' /\ SettledIs' /\ FenceTypes'
  BY <1>0, <1>1 DEF Extends, EventTypes, RegistryTypes, WorkerTypes, PolledIs, SettledIs,
       Watcher!SettledIsSeen, FenceTypes, Events
<1>3. \A i \in DOMAIN w3 : i \in DOMAIN w3' /\ w3'[i] = w3[i]
  BY <1>1 DEF Extends
<1>4. \A i \in DOMAIN w3' : i \in DOMAIN w3 \/ w3'[i].kind \in Watcher!EventKinds \cup {"overflow"}
  BY <1>1 DEF Extends
<1>5. \A i \in DOMAIN w3' : w3'[i].kind = "fence" => i \in DOMAIN w3
  BY <1>4 DEF Watcher!EventKinds
<1>6. FenceNumbers'
  BY <1>0, <1>3, <1>5 DEF FenceNumbers
<1>7. \A x : \A i \in DOMAIN w3 : Covers(i, x) => Covers(i, x)'
  BY <1>3 DEF Covers
<1>8. \A x : WillBeListed(x) => WillBeListed(x)'
  BY <1>3, <1>7 DEF WillBeListed, InHand
<1>9. NewDirectories'
  <2> SUFFICES ASSUME NEW x \in w1'.there \ (w1'.watched \cup w2.paths),
       x = Top(x) \/ Top(x) \notin Watcher!Forgotten'
               PROVE  WillBeListed(x)'
    BY DEF NewDirectories
  <2>1. x \in Watcher!Paths /\ Top(x) \in Watcher!Paths /\ Top(Top(x)) = Top(x) /\ x \notin w1.watched /\ Top(x) \in w1'.there
    BY WatPaths DEF DirTypes
  <2>2. Top(x) \in Watcher!Forgotten => Top(x) \in Watcher!Forgotten'
    BY <2>1 DEF Watcher!Forgotten
  <2>3. CASE x \in w1.there
    <3>1. WillBeListed(x)
      BY <1>0, <2>1, <2>2, <2>3 DEF NewDirectories
    <3> QED BY <1>8, <3>1
  <2>4. CASE Ahead(x)
    BY <2>4 DEF Ahead, WillBeListed
  <2>5. CASE Top(x) # x /\ Top(x) \in w1.there \ w1.watched
    <3>1. Top(x) \notin w2.paths
      BY <2>1, <2>2, <2>5 DEF Watcher!Forgotten
    <3>2. WillBeListed(Top(x))
      BY <1>0, <2>1, <2>5, <3>1 DEF NewDirectories
    <3> QED BY <1>0, <1>8, <2>1, <3>2, WatWith
  <2> QED BY <2>3, <2>4, <2>5
<1>10. RemovedFirst'
  <2> SUFFICES ASSUME NEW i \in DOMAIN w3', w3'[i].kind = "remove",
                      NEW x \in {Top(w3'[i].path), w3'[i].path}, x \in w1'.there \ w1'.watched
               PROVE  \E j \in DOMAIN w3' : i < j /\ Covers(j, x)'
    BY DEF RemovedFirst
  <2>1. i \in DOMAIN w3 /\ w3[i].kind = "remove" /\ w3'[i] = w3[i]
    BY <1>1, <1>3 DEF Extends
  <2>2. x \notin w1.watched /\ x \in Watcher!Paths /\ w3[i].path \in Watcher!Paths
    BY <1>0, <2>1, WatEvent DEF DirTypes, Watcher!EventKinds
  <2>3. CASE x \in w1.there
    BY <1>0, <1>3, <1>7, <2>1, <2>2, <2>3 DEF RemovedFirst
  <2>4. CASE Ahead(x)
    BY <2>1, <2>4 DEF Ahead
  <2>5. CASE Top(x) # x /\ Top(x) \in w1.there \ w1.watched
    <3>1. x = w3[i].path
      BY <2>1, <2>2, <2>5, WatPaths
    <3>2. \E j \in DOMAIN w3 : i < j /\ Covers(j, Top(x))
      BY <1>0, <2>1, <2>5, <3>1 DEF RemovedFirst
    <3> QED BY <1>0, <1>3, <1>7, <2>2, <3>2, WatWith
  <2> QED BY <2>3, <2>4, <2>5
<1>11. UnseenIs'
  <2> SUFFICES ASSUME w6', ~w2.polled, w4.pc = "recv"
               PROVE  \E i \in DOMAIN w3' : w3'[i].kind # "fence"
    BY DEF UnseenIs
  <2>1. CASE seq # <<>>
    <3>1. 1 \in DOMAIN seq
      BY <2>1
    <3>2. seq[1].kind # "fence"
      BY <3>1 DEF Watcher!EventKinds
    <3>3. CASE Len(w3) + 1 \in DOMAIN w3' /\ w3'[Len(w3) + 1] = seq[1]
      BY <3>2, <3>3
    <3>4. CASE Len(w3') \in DOMAIN w3' /\ w3'[Len(w3')].kind = "overflow"
      BY <3>4
    <3> QED BY <1>1, <2>1, <3>1, <3>3, <3>4 DEF Extends
  <2>2. CASE w6
    BY <1>0, <1>3, <2>2 DEF UnseenIs
  <2>3. ASSUME NEW x \in w1.there, Waits(x) PROVE \E i \in DOMAIN w3' : w3'[i].kind # "fence"
    <3>1. WillBeListed(x)
      BY <1>0, <2>3 DEF Waits, NewDirectories
    <3>2. ~w2.overflowed /\ w2.unwatched = {} /\ ~InHand(x)
      BY <1>0 DEF PolledIs, InHand
    <3>3. \E i \in DOMAIN w3 : Covers(i, x)
      BY <3>1, <3>2 DEF WillBeListed
    <3> QED BY <1>3, <3>3 DEF Covers
  <2> QED BY <2>1, <2>2, <2>3
<1>12. BeforeIs'
  BY <1>0, <1>3, <1>5 DEF BeforeIs
<1> QED BY <1>2, <1>6, <1>9, <1>10, <1>11, <1>12 DEF WatInv

(* An event that is raised for a directory is ahead of all there are.      *)
LEMMA WatAhead ==
  ASSUME EventTypes, NEW seq \in Seq(Events), Extends(seq), NEW k \in DOMAIN seq,
         seq[k].kind \in {"create", "to"}, NEW x, x \in Watcher!Below(seq[k].path)
  PROVE  Ahead(x)
<1>0. DOMAIN w3 = 1 .. Len(w3) /\ Len(w3) \in Nat /\ DOMAIN seq = 1 .. Len(seq) /\ seq # <<>>
  BY DEF EventTypes
<1>1. CASE Len(w3) + k \in DOMAIN w3' /\ w3'[Len(w3) + k] = seq[k]
  <2>0. PICK n : n = Len(w3) + k
    OBVIOUS
  <2>1. \A i \in DOMAIN w3 : i < n
    BY <1>0, <2>0
  <2>2. n \in DOMAIN w3' /\ Covers(n, x)'
    BY <1>1, <2>0 DEF Covers
  <2> QED BY <1>1, <2>1, <2>2 DEF Ahead
<1>2. CASE Len(w3') \in DOMAIN w3' /\ w3'[Len(w3')].kind = "overflow"
  <2>0. PICK n : n = Len(w3')
    OBVIOUS
  <2>1. \A i \in DOMAIN w3 : i < n \/ w3[i].kind = "overflow"
    <3> SUFFICES ASSUME NEW i \in DOMAIN w3, w3[i].kind # "overflow" PROVE i < n
      OBVIOUS
    <3>1. i \in DOMAIN w3' /\ w3'[i] = w3[i] /\ w3' \in Seq(Events)
      BY DEF Extends
    <3>2. i # Len(w3')
      BY <1>2, <3>1
    <3>3. i \in 1 .. Len(w3') /\ Len(w3') \in Nat
      BY <3>1
    <3> QED BY <2>0, <3>2, <3>3
  <2>2. n \in DOMAIN w3' /\ Covers(n, x)'
    BY <1>2, <2>0 DEF Covers
  <2> QED BY <1>2, <2>1, <2>2 DEF Ahead
<1> QED BY <1>1, <1>2 DEF Extends

(* What is raised in a directory.                                          *)
LEMMA WatRaised ==
  ASSUME NEW p \in Watcher!Paths, NEW kind \in Watcher!EventKinds, NEW e, e = [kind |-> kind,
       path |-> p], NEW seq, seq = <<e>> \/ seq = <<>>
  PROVE  /\ seq \in Seq(Events) /\ \A k \in DOMAIN seq : k = 1 /\ seq[k].kind = kind /\ seq[k].path = p /\ seq = <<e>>
         /\ seq = <<e>> => seq # <<>> /\ 1 \in DOMAIN seq
<1>1. e \in Events /\ e.kind = kind /\ e.path = p
  BY DEF Events
<1>2. CASE seq = <<e>>
  <2>1. seq \in Seq(Events) /\ Len(seq) = 1 /\ seq[1] = e /\ seq # <<>>
    BY <1>1, <1>2
  <2>2. DOMAIN seq = {1}
    BY <2>1
  <2> QED BY <1>1, <1>2, <2>1, <2>2
<1>3. CASE seq = <<>>
  <2>1. seq \in Seq(Events) /\ DOMAIN seq = {} /\ seq # <<e>>
    BY <1>3
  <2> QED BY <2>1
<1> QED BY <1>2, <1>3

(* UserMakes keeps the invariant.                                          *)
LEMMA WatUserMakes ==
  ASSUME WatInv, NEW p \in Watcher!Paths, Watcher!UserMakes(p)
  PROVE  WatInv'
<1>0. /\ DirTypes /\ RegistryTypes /\ EventTypes /\ WorkerTypes /\ FenceTypes /\ FenceNumbers
      /\ PolledIs /\ NewDirectories /\ RemovedFirst /\ UnseenIs /\ BeforeIs /\ SettledIs
  BY DEF WatInv
<1>1. /\ Top(p) \in Watcher!Paths /\ Top(Top(p)) = Top(p) /\ (Len(p) = 1 <=> p = Top(p))
      /\ (Len(p) = 2 <=> p # Top(p))
      /\ p \in Watcher!Below(p) /\ Top(p) = <<p[1]>> /\ (p = Top(p) \/ p # Top(p)) /\ Top(p)[1] = p[1]
  BY WatPaths, WatBelow DEF Top
<1> DEFINE e == [kind |-> "create", path |-> p]
           seq == Watcher!RaisedIn(p, "create")
<1>2. /\ p \notin w1.there /\ (p # Top(p) => Top(p) \in w1.there)
      /\ w1' = [w1 EXCEPT !.there = w1.there \cup {p}]
      /\ w3' = Watcher!Raise(seq) /\ w6' = (w6 \/ seq # <<>> \/ ~Watcher!OutOfSight(Top(p)))
      /\ UNCHANGED <<w2, w4, w5>>
  BY <1>1 DEF Watcher!UserMakes, Watcher!Changes, Top
<1>3. /\ p = Top(p) \/ Top(p) \in w1.watched => seq = <<e>>
      /\ p # Top(p) /\ Top(p) \notin w1.watched => seq = <<>>
      /\ seq = <<e>> \/ seq = <<>>
  BY <1>1 DEF Watcher!RaisedIn, Top
<1> HIDE DEF seq
<1>4. /\ seq \in Seq(Events) /\ \A k \in DOMAIN seq : k = 1 /\ seq[k].kind = "create" /\ seq[k].path = p
      /\ seq = <<e>> => seq # <<>> /\ 1 \in DOMAIN seq
  <2>1. "create" \in Watcher!EventKinds /\ e = [kind |-> "create", path |-> p]
    BY DEF Watcher!EventKinds
  <2> HIDE DEF e
  <2> QED BY <1>3, <2>1, WatRaised
<1>5. /\ w1'.there = w1.there \cup {p} /\ w1'.watched = w1.watched
      /\ w1' \in [there : SUBSET Watcher!Paths, watched : SUBSET Watcher!Paths]
  BY <1>0, <1>2 DEF DirTypes
<1>6. DirTypes'
  BY <1>0, <1>1, <1>2, <1>5 DEF DirTypes
<1>7. Extends(seq)
  BY <1>0, <1>2, <1>4, WatRaise
<1>8. \A x \in w1'.there \ w1.there : Ahead(x) \/ (Top(x) # x /\ Top(x) \in w1.there \ w1.watched)
  <2> SUFFICES Ahead(p) \/ (Top(p) # p /\ Top(p) \in w1.there \ w1.watched)
    BY <1>5
  <2>1. CASE seq = <<e>>
    BY <1>0, <1>1, <1>4, <1>7, <2>1, WatAhead
  <2>2. CASE seq # <<e>>
    BY <1>2, <1>3, <2>2
  <2> QED BY <2>1, <2>2
<1>9. seq = <<>> /\ w6' => w6 \/ \E x \in w1.there : Waits(x)
  <2> SUFFICES ASSUME seq = <<>>, ~Watcher!OutOfSight(Top(p)) PROVE \E x \in w1.there : Waits(x)
    BY <1>2
  <2>1. p # Top(p) /\ Top(p) \notin w1.watched /\ Top(p) \in w1.there
    BY <1>2, <1>3, <1>4
  <2>2. Top(p) \notin Watcher!Forgotten
    BY DEF Watcher!OutOfSight
  <2>3. Waits(Top(p))
    BY <1>1, <2>1, <2>2 DEF Waits, Watcher!Forgotten
  <2> QED BY <2>1, <2>3
<1>10. w6' \in BOOLEAN
  BY <1>2
<1>11. \A k \in DOMAIN seq : seq[k].kind \in Watcher!EventKinds /\ seq[k].kind # "remove"
  BY <1>4 DEF Watcher!EventKinds
<1> QED BY <1>2, <1>4, <1>5, <1>6, <1>8, <1>9, <1>10, <1>11, WatUser

(* UserWrites keeps the invariant.                                         *)
LEMMA WatUserWrites ==
  ASSUME WatInv, NEW p \in Watcher!Paths, Watcher!UserWrites(p)
  PROVE  WatInv'
<1>0. /\ DirTypes /\ RegistryTypes /\ EventTypes /\ WorkerTypes /\ FenceTypes /\ FenceNumbers
      /\ PolledIs /\ NewDirectories /\ RemovedFirst /\ UnseenIs /\ BeforeIs /\ SettledIs
  BY DEF WatInv
<1> DEFINE e == [kind |-> "modify", path |-> p]
           seq == IF p \in w1.watched THEN <<e>> ELSE <<>>
<1>1. /\ p \in w1.there /\ w1' = w1
      /\ w3' = Watcher!Raise(seq) /\ w6' = (w6 \/ seq # <<>> \/ ~Watcher!OutOfSight(p))
      /\ UNCHANGED <<w2, w4, w5>>
  BY DEF Watcher!UserWrites, Watcher!Changes
<1>2. (seq = <<e>> \/ seq = <<>>) /\ (seq = <<>> => p \notin w1.watched)
  BY WatRaised DEF Watcher!EventKinds
<1> HIDE DEF seq
<1>3. /\ seq \in Seq(Events) /\ \A k \in DOMAIN seq : seq[k].kind = "modify"
  <2>1. "modify" \in Watcher!EventKinds /\ e = [kind |-> "modify", path |-> p]
    BY DEF Watcher!EventKinds
  <2> HIDE DEF e
  <2> QED BY <1>2, <2>1, WatRaised
<1>4. seq = <<>> /\ w6' => w6 \/ \E x \in w1.there : Waits(x)
  <2> SUFFICES ASSUME seq = <<>>, ~Watcher!OutOfSight(p) PROVE \E x \in w1.there : Waits(x)
    BY <1>1
  <2>1. p \notin Watcher!Forgotten /\ Top(p) \notin Watcher!Forgotten
    BY DEF Watcher!OutOfSight, Top
  <2>2. Waits(p)
    BY <1>1, <1>2, <2>1 DEF Waits, Watcher!Forgotten
  <2> QED BY <1>1, <2>2
<1>5. DirTypes'
  BY <1>0, <1>1 DEF DirTypes
<1>6. w6' \in BOOLEAN
  BY <1>1
<1>7. \A k \in DOMAIN seq : seq[k].kind \in Watcher!EventKinds /\ seq[k].kind # "remove"
  BY <1>3 DEF Watcher!EventKinds
<1> QED BY <1>1, <1>3, <1>4, <1>5, <1>6, <1>7, WatUser

(* UserRemoves keeps the invariant.                                        *)
LEMMA WatUserRemoves ==
  ASSUME WatInv, NEW p \in Watcher!Paths, Watcher!UserRemoves(p)
  PROVE  WatInv'
<1>0. /\ DirTypes /\ RegistryTypes /\ EventTypes /\ WorkerTypes /\ FenceTypes /\ FenceNumbers
      /\ PolledIs /\ NewDirectories /\ RemovedFirst /\ UnseenIs /\ BeforeIs /\ SettledIs
  BY DEF WatInv
<1>1. /\ Top(p) \in Watcher!Paths /\ Top(Top(p)) = Top(p) /\ (Len(p) = 1 <=> p = Top(p)) /\ p[1] \in Tops
      /\ Top(p) = <<p[1]>> /\ Top(p)[1] = p[1] /\ (p = Top(p) \/ p = Watcher!Child(p[1]))
  BY WatPaths DEF Top
<1> DEFINE e == [kind |-> "remove", path |-> p]
           seq == Watcher!RaisedIn(p, "remove")
<1>2. /\ p \in w1.there /\ (p = Top(p) => Watcher!Child(p[1]) \notin w1.there)
      /\ w1' = [there |-> w1.there \ {p}, watched |-> w1.watched \ {p}]
      /\ w3' = Watcher!Raise(seq) /\ w6' = (w6 \/ seq # <<>> \/ ~Watcher!OutOfSight(Top(p)))
      /\ UNCHANGED <<w2, w4, w5>>
  BY <1>1 DEF Watcher!UserRemoves, Watcher!Changes, Top
<1>3. /\ p # Top(p) /\ Top(p) \notin w1.watched => seq = <<>>
      /\ p = Top(p) \/ Top(p) \in w1.watched => seq = <<e>>
      /\ seq = <<e>> \/ seq = <<>>
  BY <1>1 DEF Watcher!RaisedIn, Top
<1> HIDE DEF seq
<1>4. /\ seq \in Seq(Events)
      /\ \A k \in DOMAIN seq : seq[k].kind = "remove" /\ seq[k].path = p /\ seq = <<e>>
      /\ seq = <<e>> => seq # <<>>
  <2>1. "remove" \in Watcher!EventKinds /\ e = [kind |-> "remove", path |-> p]
    BY DEF Watcher!EventKinds
  <2> HIDE DEF e
  <2> QED BY <1>3, <2>1, WatRaised
<1>5. w1'.there = w1.there \ {p} /\ w1'.watched = w1.watched \ {p}
  BY <1>2
<1>6. DirTypes'
  <2>1. w1' \in [there : SUBSET Watcher!Paths,
       watched : SUBSET Watcher!Paths] /\ w1'.watched \subseteq w1'.there
    BY <1>0, <1>2 DEF DirTypes
  <2>2. ASSUME NEW d \in w1'.there PROVE Top(d) \in w1'.there
    <3>1. d \in Watcher!Paths /\ d \in w1.there /\ Top(d) \in w1.there /\ d # p
      BY <1>0, <1>5, <2>2 DEF DirTypes
    <3>2. Top(d) = p => d = Watcher!Child(p[1]) /\ p = Top(p)
      BY <1>1, <3>1, WatPaths DEF Top
    <3> QED BY <1>2, <1>5, <3>1, <3>2
  <2> QED BY <2>1, <2>2 DEF DirTypes
<1>7. \A k \in DOMAIN seq : seq[k].kind = "remove" => {Top(seq[k].path),
     seq[k].path} \cap (w1'.there \ w1'.watched) = {}
  <2> SUFFICES ASSUME NEW k \in DOMAIN seq PROVE {Top(p), p} \cap (w1'.there \ w1'.watched) = {}
    BY <1>4
  <2>1. seq # <<>>
    BY <1>4
  <2>2. p = Top(p) \/ Top(p) \in w1.watched
    BY <1>3, <2>1
  <2> QED BY <1>5, <2>2
<1>8. seq = <<>> /\ w6' => w6 \/ \E x \in w1.there : Waits(x)
  <2> SUFFICES ASSUME seq = <<>>, ~Watcher!OutOfSight(Top(p)) PROVE \E x \in w1.there : Waits(x)
    BY <1>2
  <2>1. p # Top(p) /\ Top(p) \notin w1.watched /\ Top(p) \in w1.there
    BY <1>0, <1>2, <1>3, <1>4 DEF DirTypes
  <2>2. Top(p) \notin Watcher!Forgotten
    BY DEF Watcher!OutOfSight
  <2>3. Waits(Top(p))
    BY <1>1, <2>1, <2>2 DEF Waits, Watcher!Forgotten
  <2> QED BY <2>1, <2>3
<1>9. w6' \in BOOLEAN
  BY <1>2
<1>10. \A k \in DOMAIN seq : seq[k].kind \in Watcher!EventKinds
  BY <1>4 DEF Watcher!EventKinds
<1> QED BY <1>2, <1>4, <1>5, <1>6, <1>7, <1>8, <1>9, <1>10, WatUser

(* UserRenames keeps the invariant.                                        *)
LEMMA WatUserRenames ==
  ASSUME WatInv, NEW t \in Tops, NEW u \in Tops, Watcher!UserRenames(t, u)
  PROVE  WatInv'
<1>0. /\ DirTypes /\ RegistryTypes /\ EventTypes /\ WorkerTypes /\ FenceTypes /\ FenceNumbers
      /\ PolledIs /\ NewDirectories /\ RemovedFirst /\ UnseenIs /\ BeforeIs /\ SettledIs
  BY DEF WatInv
<1> DEFINE moved == {<<u>> \o Tail(p) : p \in Watcher!Below(<<t>>) \cap w1.there}
           e1 == [kind |-> "from", path |-> <<t>>]
           e2 == [kind |-> "to", path |-> <<u>>]
           seq == <<e1, e2>>
<1>1. /\ <<t>> \in w1.there /\ <<u>> \notin w1.there /\ w3' = Watcher!Raise(seq)
      /\ UNCHANGED <<w2, w4, w5>>
      /\ w1' = [there |-> (w1.there \ Watcher!Below(<<t>>)) \cup moved,
           watched |-> w1.watched \ Watcher!Below(<<t>>)]
      /\ w6' = (w6 \/ seq # <<>> \/ ~Watcher!OutOfSight(<<t>>))
  BY DEF Watcher!UserRenames, Watcher!Changes
<1>2. /\ <<t>> \in Watcher!Paths /\ <<u>> \in Watcher!Paths /\ Top(<<t>>) = <<t>> /\ Top(<<u>>) = <<u>>
      /\ Watcher!Child(u) \in Watcher!Paths
      /\ Top(Watcher!Child(u)) = <<u>> /\ Watcher!Child(t) \in Watcher!Paths
      /\ Top(Watcher!Child(t)) = <<t>>
  BY WatPaths
<1>3. Watcher!Below(<<t>>) \subseteq {<<t>>, Watcher!Child(t)} /\ <<t>> \in Watcher!Below(<<t>>)
  <2>1. \A p \in Watcher!Below(<<t>>) : p \in Watcher!Paths
    BY <1>2, WatBelowPaths
  <2>2. \A p \in Watcher!Paths : p = Top(p) \/ p = Watcher!Child(p[1])
    BY WatPaths
  <2>3. ASSUME NEW p \in Watcher!Paths, Top(p) = <<t>> PROVE p[1] = t
    BY <2>3 DEF Top
  <2> QED BY <1>2, <2>1, <2>2, <2>3, WatBelow
<1>4. moved \subseteq {<<u>>, Watcher!Child(u)} /\ <<u>> \in moved
  <2>0. /\ Tail(<<t>>) = <<>> /\ <<u>> \o <<>> = <<u>>
        /\ Tail(<<t, "sub">>) = <<"sub">> /\ <<u>> \o <<"sub">> = <<u, "sub">>
    <3>1. Tail(<<t>>) = <<>>
      OBVIOUS
    <3>2. <<u>> \o <<>> = <<u>>
      OBVIOUS
    <3>3. Tail(<<t, "sub">>) = <<"sub">>
      OBVIOUS
    <3>4. ASSUME NEW x PROVE <<u>> \o <<x>> = <<u, x>>
      <4>1. <<u>> \in Seq({u, x}) /\ <<x>> \in Seq({u, x}) /\ Len(<<u>>) = 1 /\ Len(<<x>>) = 1
        OBVIOUS
      <4> DEFINE s == <<u>> \o <<x>>
      <4>2. s \in Seq({u, x}) /\ Len(s) = 2 /\ s[1] = u /\ s[2] = x
        BY <4>1
      <4> HIDE DEF s
      <4>3. s = <<u, x>>
        BY <4>2
      <4> QED BY <4>3 DEF s
    <3> QED BY <3>1, <3>2, <3>3, <3>4
  <2>1. <<u>> \o Tail(<<t>>) = <<u>> /\ <<u>> \o Tail(Watcher!Child(t)) = Watcher!Child(u)
    BY <2>0 DEF Watcher!Child
  <2> QED BY <1>1, <1>3, <2>1
<1> HIDE DEF moved
<1>5. w1'.there = (w1.there \ Watcher!Below(<<t>>)) \cup moved /\ w1'.watched = w1.watched \ Watcher!Below(<<t>>)
  BY <1>1
<1>6. \A x \in moved : x \in Watcher!Below(<<u>>) /\ x \notin w1.there /\ Top(x) = <<u>> /\ x \in Watcher!Paths
  BY <1>0, <1>1, <1>2, <1>4, WatBelow DEF DirTypes
<1>7. DirTypes'
  <2>1. w1' \in [there : SUBSET Watcher!Paths,
       watched : SUBSET Watcher!Paths] /\ w1'.watched \subseteq w1'.there
    BY <1>0, <1>1, <1>6 DEF DirTypes
  <2>2. ASSUME NEW d \in w1'.there PROVE Top(d) \in w1'.there
    <3>1. CASE d \in moved
      BY <1>4, <1>5, <1>6, <3>1
    <3>2. CASE d \in w1.there \ Watcher!Below(<<t>>)
      <4>1. d \in Watcher!Paths /\ Top(d) \in w1.there /\ Top(d) \in Watcher!Paths /\ Top(Top(d)) = Top(d)
        BY <1>0, <3>2, WatPaths DEF DirTypes
      <4>2. Top(d) \notin Watcher!Below(<<t>>)
        BY <1>2, <3>2, <4>1, WatBelow
      <4> QED BY <1>5, <4>1, <4>2
    <3> QED BY <1>5, <3>1, <3>2
  <2> QED BY <2>1, <2>2 DEF DirTypes
<1>8. e1 \in Events /\ e2 \in Events /\ e1.kind = "from" /\ e2.kind = "to" /\ e2.path = <<u>>
  BY <1>2 DEF Events, Watcher!EventKinds
<1> HIDE DEF e1, e2
<1>9. seq \in Seq(Events) /\ DOMAIN seq = {1, 2} /\ seq[1] = e1 /\ seq[2] = e2 /\ seq # <<>>
  BY <1>8
<1> HIDE DEF seq
<1>10. Extends(seq)
  BY <1>0, <1>1, <1>9, WatRaise
<1>11. \A x \in w1'.there \ w1.there : Ahead(x)
  BY <1>0, <1>5, <1>6, <1>8, <1>9, <1>10, WatAhead
<1>12. \A k \in DOMAIN seq : seq[k].kind \in Watcher!EventKinds /\ seq[k].kind # "remove"
  BY <1>8, <1>9 DEF Watcher!EventKinds
<1>13. \A x \in w1'.there \cap w1.watched : x \in w1'.watched
  BY <1>0, <1>5, <1>6 DEF DirTypes
<1>14. w6' \in BOOLEAN
  BY <1>1
<1> QED BY <1>1, <1>5, <1>7, <1>9, <1>11, <1>12, <1>13, <1>14, WatUser

(* Receives keeps the invariant.                                           *)
LEMMA WatReceives ==
  ASSUME WatInv, Watcher!Receives
  PROVE  WatInv'
<1>0. /\ DirTypes /\ RegistryTypes /\ EventTypes /\ WorkerTypes /\ FenceTypes /\ FenceNumbers
      /\ PolledIs /\ NewDirectories /\ RemovedFirst /\ UnseenIs /\ BeforeIs /\ SettledIs
  BY DEF WatInv
<1>p. \A d \in w1.there : d \in Watcher!Paths /\ Top(d) \in Watcher!Paths /\ Top(Top(d)) = Top(d) /\ Top(d) \in w1.there
  BY <1>0, WatPaths DEF DirTypes
<1>1. /\ w4.pc = "recv" /\ w3 # <<>> /\ w3' = Tail(w3) /\ Head(w3).kind # "fence" /\ UNCHANGED <<w1, w7>>
  BY DEF Watcher!Receives
<1>2. Shifted /\ Head(w3) = w3[1]
  BY <1>0, <1>1, WatTail
<1> DEFINE e == w3[1]
<1>3. /\ \/ /\ e.kind = "overflow"
            /\ w2' = [w2 EXCEPT !.polled = TRUE, !.overflowed = TRUE]
            /\ Watcher!Signals /\ UNCHANGED w4
         \/ /\ e.kind \in {"create", "to"} /\ e.path \in w1.there
            /\ w4' = [pc |-> "watch", path |-> e.path, todo |-> Watcher!Listed(e.path),
                          added |-> FALSE, failed |-> {}, retry |-> FALSE]
            /\ UNCHANGED <<w2, w6, w5>>
         \/ /\ e.kind \in {"create", "to"} => e.path \notin w1.there
            /\ e.kind # "overflow"
            /\ w2' = [w2 EXCEPT !.paths = IF e.kind = "remove" THEN w2.paths \ {e.path} ELSE w2.paths]
            /\ Watcher!Signals /\ UNCHANGED w4
  BY <1>2 DEF Watcher!Receives
<1>4. /\ 1 \in DOMAIN w3 /\ (e.kind \in Watcher!EventKinds => e.path \in Watcher!Paths)
      /\ e.kind \in Watcher!EventKinds \cup {"overflow", "fence"}
  BY <1>0, <1>2, WatEvent DEF Shifted
<1>5. e.kind # "fence"
  BY <1>1, <1>2
<1> HIDE DEF e
<1>6. /\ EventTypes' /\ DirTypes'
      /\ \A i \in DOMAIN w3' : w3'[i].kind = "fence" => w3'[i].n <= w5.n
  BY <1>0, <1>1, <1>2 DEF EventTypes, Shifted, DirTypes, FenceNumbers, Events
<1>7. \A x : \A i \in DOMAIN w3 : i # 1 /\ Covers(i, x) => i - 1 \in DOMAIN w3' /\ Covers(i - 1, x)'
  BY <1>2 DEF Covers, Shifted
<1>8. RemovedFirst'
  <2> SUFFICES ASSUME NEW i \in DOMAIN w3', w3'[i].kind = "remove",
                      NEW x \in {Top(w3'[i].path), w3'[i].path}, x \in w1.there \ w1.watched
               PROVE  \E j \in DOMAIN w3' : i < j /\ Covers(j, x)'
    BY <1>1 DEF RemovedFirst
  <2>1. i + 1 \in DOMAIN w3 /\ w3'[i] = w3[i + 1]
    BY <1>2 DEF Shifted
  <2>2. PICK j \in DOMAIN w3 : i + 1 < j /\ Covers(j, x)
    BY <1>0, <2>1 DEF RemovedFirst
  <2>3. i < j - 1 /\ j # 1
    BY <1>2, <2>2 DEF Shifted
  <2> QED BY <1>7, <2>2, <2>3
<1>9. \A x : ~InHand(x)
  BY <1>1 DEF InHand
<1>10. CASE e.kind = "overflow" /\ w2' = [w2 EXCEPT !.polled = TRUE,
                                   !.overflowed = TRUE] /\ Watcher!Signals /\ UNCHANGED w4
  <2>1. RegistryTypes' /\ w2'.polled /\ w2'.overflowed
    BY <1>0, <1>10 DEF RegistryTypes
  <2>2. FenceTypes' /\ w6' = FALSE /\ w5'.before = FALSE /\ w5'.n = w5.n
    BY <1>0, <1>10 DEF FenceTypes, Watcher!Signals
  <2>3. WorkerTypes'
    BY <1>0, <1>10 DEF WorkerTypes
  <2>4. PolledIs' /\ NewDirectories' /\ UnseenIs' /\ BeforeIs' /\ SettledIs' /\ FenceNumbers'
    BY <1>6, <2>1, <2>2 DEF PolledIs, NewDirectories, WillBeListed, UnseenIs, BeforeIs, SettledIs,
         Watcher!SettledIsSeen, FenceNumbers
  <2> QED BY <1>6, <1>8, <2>1, <2>2, <2>3, <2>4 DEF WatInv
<1>11. CASE /\ e.kind \in {"create", "to"} /\ e.path \in w1.there
            /\ w4' = [pc |-> "watch", path |-> e.path, todo |-> Watcher!Listed(e.path),
                          added |-> FALSE, failed |-> {}, retry |-> FALSE]
            /\ UNCHANGED <<w2, w6, w5>>
  <2>1. RegistryTypes' /\ FenceTypes' /\ PolledIs' /\ SettledIs' /\ FenceNumbers'
    BY <1>0, <1>6, <1>11 DEF RegistryTypes, FenceTypes, PolledIs, SettledIs, Watcher!SettledIsSeen,
         FenceNumbers
  <2>2. Watcher!Listed(e.path) \subseteq Watcher!Below(e.path) /\ e.path \in Watcher!Paths /\ Watcher!Below(e.path) \subseteq Watcher!Paths
    BY <1>p, <1>11, WatBelowPaths DEF Watcher!Listed
  <2>3. WorkerTypes' /\ w4'.pc = "watch" /\ w4'.todo = Watcher!Listed(e.path)
    BY <1>11, <2>2 DEF WorkerTypes
  <2>4. NewDirectories'
    <3> SUFFICES ASSUME NEW x \in w1.there \ (w1.watched \cup w2.paths),
         x = Top(x) \/ Top(x) \notin Watcher!Forgotten
                 PROVE  WillBeListed(x)'
      BY <1>1, <1>11 DEF NewDirectories, Watcher!Forgotten
    <3>1. WillBeListed(x)
      BY <1>0 DEF NewDirectories
    <3>2. CASE w2.overflowed \/ \E q \in w2.unwatched : x \in Watcher!Below(q)
      BY <1>11, <3>2 DEF WillBeListed
    <3>3. ASSUME NEW i \in DOMAIN w3, Covers(i, x), i # 1 PROVE WillBeListed(x)'
      BY <1>7, <3>3 DEF WillBeListed
    <3>4. CASE Covers(1, x)
      <4>1. x \in Watcher!Below(e.path)
        BY <1>11, <3>4 DEF Covers, e
      <4>2. x \in Watcher!Listed(e.path)
        BY <4>1 DEF Watcher!Listed
      <4>3. InHand(x)'
        BY <2>3, <4>2 DEF InHand
      <4> QED BY <4>3 DEF WillBeListed
    <3> QED BY <1>9, <3>1, <3>2, <3>3, <3>4 DEF WillBeListed
  <2>5. UnseenIs' /\ BeforeIs'
    BY <2>3 DEF UnseenIs, BeforeIs
  <2> QED BY <1>6, <1>8, <2>1, <2>3, <2>4, <2>5 DEF WatInv
<1>12. CASE /\ e.kind \in {"create", "to"} => e.path \notin w1.there
            /\ e.kind # "overflow"
            /\ w2' = [w2 EXCEPT !.paths = IF e.kind = "remove" THEN w2.paths \ {e.path} ELSE w2.paths]
            /\ Watcher!Signals /\ UNCHANGED w4
  <2>1. /\ RegistryTypes' /\ w2'.polled = w2.polled /\ w2'.overflowed = w2.overflowed
        /\ w2'.unwatched = w2.unwatched /\ w2'.paths \subseteq w2.paths
        /\ \A x \in w2.paths \ w2'.paths : e.kind = "remove" /\ x = e.path
    BY <1>0, <1>12 DEF RegistryTypes
  <2>2. FenceTypes' /\ w6' = FALSE /\ w5'.before = FALSE /\ w5'.n = w5.n
    BY <1>0, <1>12 DEF FenceTypes, Watcher!Signals
  <2>3. WorkerTypes'
    BY <1>0, <1>12 DEF WorkerTypes
  <2>4. PolledIs' /\ UnseenIs' /\ BeforeIs' /\ SettledIs' /\ FenceNumbers'
    BY <1>0, <1>6, <2>1, <2>2 DEF PolledIs, UnseenIs, BeforeIs, SettledIs, Watcher!SettledIsSeen, FenceNumbers
  <2>5. NewDirectories'
    <3> SUFFICES ASSUME NEW x \in w1.there \ (w1.watched \cup w2'.paths),
         x = Top(x) \/ Top(x) \notin Watcher!Forgotten'
                 PROVE  WillBeListed(x)'
      BY <1>1 DEF NewDirectories
    <3>1. ASSUME NEW y \in {Top(x), x}, y \in w2.paths \ w2'.paths, y \notin w1.watched PROVE WillBeListed(x)'
      <4>1. e.kind = "remove" /\ y = e.path /\ y \in w1.there /\ 1 \in DOMAIN w3
        BY <1>4, <1>p, <2>1, <3>1
      <4>2. PICK j \in DOMAIN w3 : 1 < j /\ Covers(j, y)
        BY <1>0, <3>1, <4>1 DEF RemovedFirst, e
      <4>3. Covers(j, x)
        BY <1>0, <1>p, <3>1, <4>2, WatWith
      <4>4. j # 1
        BY <1>2, <4>1, <4>2 DEF Shifted
      <4> QED BY <1>7, <4>3, <4>4 DEF WillBeListed
    <3>2. CASE x \in w2.paths
      BY <3>1, <3>2
    <3>3. CASE x # Top(x) /\ Top(x) \in Watcher!Forgotten
      <4>1. Top(x) \in w2.paths /\ Top(x) \notin w1.watched /\ Top(x) \in w1.there
        BY <3>3 DEF Watcher!Forgotten
      <4>2. Top(x) \notin w2'.paths
        BY <1>1, <3>3, <4>1 DEF Watcher!Forgotten
      <4> QED BY <3>1, <4>1, <4>2
    <3>4. CASE x \notin w2.paths /\ (x = Top(x) \/ Top(x) \notin Watcher!Forgotten)
      <4>1. WillBeListed(x)
        BY <1>0, <3>4 DEF NewDirectories
      <4>2. ~Covers(1, x)
        <5> SUFFICES ASSUME e.kind \in {"create", "to"}, x \in Watcher!Below(e.path) PROVE FALSE
          BY <1>12 DEF Covers, e
        <5>1. e.path \in Watcher!Paths /\ e.path \notin w1.there
          BY <1>4, <1>12 DEF Watcher!EventKinds
        <5>2. x = e.path \/ e.path = Top(x)
          BY <1>p, <5>1, WatBelow
        <5> QED BY <1>p, <5>1, <5>2
      <4>3. CASE w2.overflowed \/ \E q \in w2.unwatched : x \in Watcher!Below(q)
        BY <2>1, <4>3 DEF WillBeListed
      <4>4. ASSUME NEW i \in DOMAIN w3, Covers(i, x) PROVE WillBeListed(x)'
        BY <1>7, <4>2, <4>4 DEF WillBeListed
      <4> QED BY <1>9, <4>1, <4>3, <4>4 DEF WillBeListed
    <3> QED BY <3>2, <3>3, <3>4
  <2> QED BY <1>6, <1>8, <2>1, <2>2, <2>3, <2>4, <2>5 DEF WatInv
<1> QED BY <1>3, <1>10, <1>11, <1>12

(* WatchesOne keeps the invariant.                                         *)
LEMMA WatWatchesOne ==
  ASSUME WatInv, NEW p \in Watcher!Paths, Watcher!WatchesOne(p)
  PROVE  WatInv'
<1>0. /\ DirTypes /\ RegistryTypes /\ EventTypes /\ WorkerTypes /\ FenceTypes /\ FenceNumbers
      /\ PolledIs /\ NewDirectories /\ RemovedFirst /\ UnseenIs /\ BeforeIs /\ SettledIs
  BY DEF WatInv
<1>p. \A d \in w1.there : d \in Watcher!Paths /\ Top(d) \in Watcher!Paths /\ Top(Top(d)) = Top(d) /\ Top(d) \in w1.there
  BY <1>0, WatPaths DEF DirTypes
<1>1. w4.pc = "watch" /\ p \in w4.todo /\ UNCHANGED <<w3, w5, w6>>
  BY DEF Watcher!WatchesOne
<1>2. /\ w4 \in [pc : {"watch"}, path : Watcher!Paths, todo : SUBSET Watcher!Paths, added : BOOLEAN,
         failed : SUBSET Watcher!Paths, retry : BOOLEAN]
      /\ w4.todo \subseteq Watcher!Below(w4.path) /\ w4.failed \subseteq Watcher!Below(w4.path)
  BY <1>0, <1>1 DEF WorkerTypes, Watcher!IdleWorker
<1>3. \/ /\ p \in w1.there /\ w1' = [w1 EXCEPT !.watched = w1.watched \cup {p}]
         /\ w2' = [w2 EXCEPT !.paths = w2.paths \cup {p}]
         /\ w4' = [w4 EXCEPT !.todo = w4.todo \ {p}, !.added = TRUE]
      \/ /\ p \notin w1.there /\ w4' = [w4 EXCEPT !.todo = w4.todo \ {p}] /\ UNCHANGED <<w1, w2>>
      \/ /\ w4' = [w4 EXCEPT !.todo = w4.todo \ {p}, !.failed = w4.failed \cup {p}]
         /\ UNCHANGED <<w1, w2>>
  BY DEF Watcher!WatchesOne
<1>4. /\ w4'.pc = "watch" /\ w4'.path = w4.path /\ w4'.todo = w4.todo \ {p}
      /\ w4.failed \subseteq w4'.failed /\ (w4.added => w4'.added)
      /\ WorkerTypes'
  <2>1. CASE w4' = [w4 EXCEPT !.todo = w4.todo \ {p}, !.added = TRUE]
    BY <1>2, <2>1 DEF WorkerTypes
  <2>2. CASE w4' = [w4 EXCEPT !.todo = w4.todo \ {p}]
    BY <1>2, <2>2 DEF WorkerTypes
  <2>3. CASE w4' = [w4 EXCEPT !.todo = w4.todo \ {p}, !.failed = w4.failed \cup {p}]
    BY <1>1, <1>2, <2>3 DEF WorkerTypes
  <2> QED BY <1>3, <2>1, <2>2, <2>3
<1>5. EventTypes' /\ FenceTypes' /\ FenceNumbers' /\ UnseenIs' /\ BeforeIs'
  BY <1>0, <1>1, <1>4 DEF EventTypes, FenceTypes, FenceNumbers, UnseenIs, BeforeIs, Events
<1>6. \A x : \A i \in DOMAIN w3 : Covers(i, x)' <=> Covers(i, x)
  BY <1>1 DEF Covers
<1>7. CASE /\ p \in w1.there /\ w1' = [w1 EXCEPT !.watched = w1.watched \cup {p}]
           /\ w2' = [w2 EXCEPT !.paths = w2.paths \cup {p}]
           /\ w4' = [w4 EXCEPT !.todo = w4.todo \ {p}, !.added = TRUE]
  <2>1. /\ w1'.there = w1.there /\ w1'.watched = w1.watched \cup {p} /\ DirTypes'
    BY <1>0, <1>7 DEF DirTypes
  <2>2. /\ w2'.paths = w2.paths \cup {p} /\ w2'.unwatched = w2.unwatched /\ RegistryTypes'
        /\ w2'.polled = w2.polled /\ w2'.overflowed = w2.overflowed
    BY <1>0, <1>7 DEF RegistryTypes
  <2>3. w4'.added
    BY <1>2, <1>7
  <2>4. RemovedFirst'
    BY <1>0, <1>1, <1>6, <2>1 DEF RemovedFirst
  <2>5. NewDirectories'
    <3> SUFFICES ASSUME NEW x \in w1.there \ (w1'.watched \cup w2'.paths),
         x = Top(x) \/ Top(x) \notin Watcher!Forgotten'
                 PROVE  WillBeListed(x)'
      BY <2>1 DEF NewDirectories
    <3>1. x \in Watcher!Paths /\ x # p /\ x \notin w1.watched /\ x \notin w2.paths
      BY <1>p, <2>1, <2>2
    <3>2. CASE p = Top(x)
      <4>1. Top(p) = p
        BY <1>p, <3>2
      <4>2. w4.path = p
        BY <1>1, <1>2, <4>1, WatBelow
      <4>3. x \in Watcher!Below(w4'.path)
        BY <1>4, <3>1, <3>2, <4>2, WatBelow
      <4> QED BY <1>4, <2>3, <4>3 DEF WillBeListed, InHand
    <3>3. CASE p # Top(x)
      <4>1. x = Top(x) \/ Top(x) \notin Watcher!Forgotten
        BY <2>1, <2>2, <3>3 DEF Watcher!Forgotten
      <4>2. WillBeListed(x)
        BY <1>0, <3>1, <4>1 DEF NewDirectories
      <4>3. InHand(x) => InHand(x)'
        BY <1>4, <3>1, <3>3 DEF InHand
      <4> QED BY <1>1, <1>6, <2>2, <4>2, <4>3 DEF WillBeListed
    <3> QED BY <3>2, <3>3
  <2>6. PolledIs' /\ SettledIs'
    BY <1>0, <1>1, <2>2 DEF PolledIs, SettledIs, Watcher!SettledIsSeen
  <2> QED BY <1>4, <1>5, <2>1, <2>2, <2>4, <2>5, <2>6 DEF WatInv
<1>8. CASE UNCHANGED <<w1, w2>> /\ (p \notin w1.there \/ p \in w4'.failed)
  <2>1. DirTypes' /\ RegistryTypes' /\ PolledIs' /\ SettledIs' /\ RemovedFirst'
    BY <1>0, <1>1, <1>6, <1>8 DEF DirTypes, RegistryTypes, PolledIs, SettledIs, Watcher!SettledIsSeen,
         RemovedFirst
  <2>2. NewDirectories'
    <3> SUFFICES ASSUME NEW x \in w1.there \ (w1.watched \cup w2.paths),
         x = Top(x) \/ Top(x) \notin Watcher!Forgotten
                 PROVE  WillBeListed(x)'
      BY <1>8 DEF NewDirectories, Watcher!Forgotten
    <3>1. WillBeListed(x)
      BY <1>0 DEF NewDirectories
    <3>2. InHand(x) => InHand(x)'
      BY <1>4, <1>8, <1>p DEF InHand
    <3> QED BY <1>1, <1>6, <1>8, <3>1, <3>2 DEF WillBeListed
  <2> QED BY <1>4, <1>5, <2>1, <2>2 DEF WatInv
<1>9. w4' = [w4 EXCEPT !.todo = w4.todo \ {p}, !.failed = w4.failed \cup {p}] => p \in w4'.failed
  BY <1>2
<1> QED BY <1>3, <1>7, <1>8, <1>9

(* WatchesDone keeps the invariant.                                        *)
LEMMA WatWatchesDone ==
  ASSUME WatInv, Watcher!WatchesDone
  PROVE  WatInv'
<1>0. /\ DirTypes /\ RegistryTypes /\ EventTypes /\ WorkerTypes /\ FenceTypes /\ FenceNumbers
      /\ PolledIs /\ NewDirectories /\ RemovedFirst /\ UnseenIs /\ BeforeIs /\ SettledIs
  BY DEF WatInv
<1>p. \A d \in w1.there : d \in Watcher!Paths /\ Top(d) \in Watcher!Paths /\ Top(Top(d)) = Top(d) /\ Top(d) \in w1.there
  BY <1>0, WatPaths DEF DirTypes
<1>1. w4.pc = "watch" /\ w4.todo = {} /\ UNCHANGED <<w1, w3, w7>>
  BY DEF Watcher!WatchesDone
<1>2. /\ w4 \in [pc : {"watch"}, path : Watcher!Paths, todo : SUBSET Watcher!Paths, added : BOOLEAN,
         failed : SUBSET Watcher!Paths, retry : BOOLEAN]
      /\ w4.failed \subseteq Watcher!Below(w4.path) /\ Watcher!Below(w4.path) \subseteq Watcher!Paths
  BY <1>0, <1>1, WatBelowPaths DEF WorkerTypes, Watcher!IdleWorker
<1>3. DirTypes' /\ EventTypes' /\ RemovedFirst'
  BY <1>0, <1>1 DEF DirTypes, EventTypes, RemovedFirst, Covers, Events
<1>4. \A x : \A i \in DOMAIN w3 : Covers(i, x)' <=> Covers(i, x)
  BY <1>1 DEF Covers
<1>5. CASE w4.added
  <2> DEFINE todo == Watcher!Listed(w4.path) \ w4.failed
  <2>1. w4' = [w4 EXCEPT !.todo = todo, !.added = FALSE] /\ UNCHANGED <<w2, w6, w5>>
    BY <1>5 DEF Watcher!WatchesDone, Watcher!ListsAgain
  <2>2. todo \subseteq Watcher!Below(w4.path)
    BY DEF Watcher!Listed
  <2> HIDE DEF todo
  <2>3. WorkerTypes' /\ w4'.pc = "watch" /\ w4'.todo = todo /\ w4'.failed = w4.failed
    BY <1>2, <2>1, <2>2 DEF WorkerTypes
  <2>4. RegistryTypes' /\ FenceTypes' /\ FenceNumbers' /\ PolledIs' /\ SettledIs' /\ UnseenIs' /\ BeforeIs'
    BY <1>0, <1>1, <2>1, <2>3 DEF RegistryTypes, FenceTypes, FenceNumbers, PolledIs, SettledIs,
         Watcher!SettledIsSeen, UnseenIs, BeforeIs
  <2>5. NewDirectories'
    <3> SUFFICES ASSUME NEW x \in w1.there \ (w1.watched \cup w2.paths),
         x = Top(x) \/ Top(x) \notin Watcher!Forgotten
                 PROVE  WillBeListed(x)'
      BY <1>1, <2>1 DEF NewDirectories, Watcher!Forgotten
    <3>1. WillBeListed(x)
      BY <1>0 DEF NewDirectories
    <3>2. x \in Watcher!Below(w4.path) => x \in todo \cup w4.failed
      BY DEF todo, Watcher!Listed
    <3>3. InHand(x) => InHand(x)'
      BY <1>1, <2>3, <3>2 DEF InHand
    <3> QED BY <1>1, <1>4, <2>1, <3>1, <3>3 DEF WillBeListed
  <2> QED BY <1>3, <2>3, <2>4, <2>5 DEF WatInv
<1>6. CASE ~w4.added
  <2> DEFINE pl == w2.polled \/ w4.failed # {}
  <2>1. /\ w2' = [w2 EXCEPT !.unwatched = w2.unwatched \cup w4.failed, !.polled = pl]
        /\ w4' = [pc |-> "signal", retry |-> w4.retry] /\ UNCHANGED <<w6, w5>>
    BY <1>6 DEF Watcher!WatchesDone, Watcher!ListsAgain
  <2>2. pl \in BOOLEAN /\ (w2.polled => pl) /\ (w4.failed # {} => pl)
    BY <1>0 DEF RegistryTypes
  <2> HIDE DEF pl
  <2>3. /\ RegistryTypes' /\ w2'.unwatched = w2.unwatched \cup w4.failed /\ w2'.polled = pl
        /\ w2'.overflowed = w2.overflowed /\ w2'.paths = w2.paths
    BY <1>0, <1>2, <2>1, <2>2 DEF RegistryTypes
  <2>4. WorkerTypes' /\ w4'.pc = "signal"
    BY <1>2, <2>1 DEF WorkerTypes
  <2>5. FenceTypes' /\ FenceNumbers' /\ PolledIs' /\ SettledIs' /\ UnseenIs' /\ BeforeIs'
    BY <1>0, <1>1, <2>1, <2>2, <2>3, <2>4 DEF FenceTypes, FenceNumbers, PolledIs, SettledIs,
         Watcher!SettledIsSeen, UnseenIs, BeforeIs
  <2>6. NewDirectories'
    <3> SUFFICES ASSUME NEW x \in w1.there \ (w1.watched \cup w2.paths),
         x = Top(x) \/ Top(x) \notin Watcher!Forgotten
                 PROVE  WillBeListed(x)'
      BY <1>1, <2>3 DEF NewDirectories, Watcher!Forgotten
    <3>1. WillBeListed(x)
      BY <1>0 DEF NewDirectories
    <3>2. ASSUME InHand(x) PROVE WillBeListed(x)'
      <4>1. PICK q \in w4.failed : q = x \/ q = Top(x)
        BY <1>1, <1>6, <3>2 DEF InHand
      <4>2. x \in Watcher!Below(q)
        BY <1>2, <1>p, <4>1, WatBelow
      <4> QED BY <2>3, <4>2 DEF WillBeListed
    <3> QED BY <1>1, <1>4, <2>3, <3>1, <3>2 DEF WillBeListed
  <2> QED BY <1>3, <2>3, <2>4, <2>5, <2>6 DEF WatInv
<1> QED BY <1>5, <1>6

(* WorkerSignals keeps the invariant.                                      *)
LEMMA WatWorkerSignals ==
  ASSUME WatInv, Watcher!WorkerSignals
  PROVE  WatInv'
<1>0. /\ DirTypes /\ RegistryTypes /\ EventTypes /\ WorkerTypes /\ FenceTypes /\ FenceNumbers
      /\ PolledIs /\ NewDirectories /\ RemovedFirst /\ UnseenIs /\ BeforeIs /\ SettledIs
  BY DEF WatInv
<1> DEFINE again == w4.retry /\ w2.unwatched = {}
           pl == IF again THEN w2.overflowed ELSE w2.polled
<1>1. /\ w4.pc = "signal" /\ w4' = Watcher!IdleWorker /\ UNCHANGED <<w1, w3, w7>>
      /\ w2' = [w2 EXCEPT !.polled = pl]
      /\ IF w4.retry /\ w2.unwatched # {} THEN UNCHANGED <<w6, w5>> ELSE Watcher!Signals
  BY DEF Watcher!WorkerSignals
<1>2. pl \in BOOLEAN /\ (pl => w2.polled) /\ (w2.unwatched # {} => pl = w2.polled)
      /\ (w2.overflowed => pl)
  BY <1>0 DEF RegistryTypes, PolledIs
<1>3. ~again => pl = w2.polled
  OBVIOUS
<1> HIDE DEF pl
<1>4. /\ RegistryTypes' /\ w2'.unwatched = w2.unwatched /\ w2'.polled = pl
      /\ w2'.overflowed = w2.overflowed /\ w2'.paths = w2.paths
  BY <1>0, <1>1, <1>2 DEF RegistryTypes
<1>5. DirTypes' /\ EventTypes' /\ RemovedFirst' /\ WorkerTypes'
  BY <1>0, <1>1 DEF DirTypes, EventTypes, RemovedFirst, Covers, Events, WorkerTypes, Watcher!IdleWorker
<1>6. NewDirectories'
  <2> SUFFICES ASSUME NEW x \in w1.there \ (w1.watched \cup w2.paths),
       x = Top(x) \/ Top(x) \notin Watcher!Forgotten
               PROVE  WillBeListed(x)'
    BY <1>1, <1>4 DEF NewDirectories, Watcher!Forgotten
  <2>1. WillBeListed(x) /\ ~InHand(x)
    BY <1>0, <1>1 DEF NewDirectories, InHand
  <2> QED BY <1>1, <1>4, <2>1 DEF WillBeListed, Covers
<1>7. PolledIs'
  BY <1>0, <1>2, <1>4 DEF PolledIs
<1>8. CASE w2.unwatched # {} /\ UNCHANGED <<w6, w5>>
  <2>1. pl = w2.polled /\ w2.polled
    BY <1>0, <1>2, <1>8 DEF PolledIs
  <2>2. FenceTypes' /\ FenceNumbers' /\ SettledIs' /\ UnseenIs' /\ BeforeIs'
    BY <1>0, <1>1, <1>4, <1>8, <2>1 DEF FenceTypes, FenceNumbers, SettledIs, Watcher!SettledIsSeen,
         UnseenIs, BeforeIs
  <2> QED BY <1>4, <1>5, <1>6, <1>7, <2>2 DEF WatInv
<1>9. CASE Watcher!Signals
  <2>1. FenceTypes' /\ w6' = FALSE /\ w5'.before = FALSE /\ w5'.n = w5.n
    BY <1>0, <1>9 DEF FenceTypes, Watcher!Signals
  <2>2. FenceNumbers' /\ SettledIs' /\ UnseenIs' /\ BeforeIs'
    BY <1>0, <1>1, <2>1 DEF FenceNumbers, SettledIs, Watcher!SettledIsSeen, UnseenIs, BeforeIs
  <2> QED BY <1>4, <1>5, <1>6, <1>7, <2>1, <2>2 DEF WatInv
<1> QED BY <1>1, <1>8, <1>9

(* Retries keeps the invariant.                                            *)
LEMMA WatRetries ==
  ASSUME WatInv, NEW p \in Watcher!Paths, Watcher!Retries(p)
  PROVE  WatInv'
<1>0. /\ DirTypes /\ RegistryTypes /\ EventTypes /\ WorkerTypes /\ FenceTypes /\ FenceNumbers
      /\ PolledIs /\ NewDirectories /\ RemovedFirst /\ UnseenIs /\ BeforeIs /\ SettledIs
  BY DEF WatInv
<1>p. \A d \in w1.there : d \in Watcher!Paths /\ Top(d) \in Watcher!Paths /\ Top(Top(d)) = Top(d) /\ Top(d) \in w1.there
  BY <1>0, WatPaths DEF DirTypes
<1>1. /\ w4.pc = "recv" /\ p \in w2.unwatched /\ UNCHANGED <<w1, w3, w5, w6, w7>>
      /\ w2' = [w2 EXCEPT !.unwatched = w2.unwatched \ Watcher!Below(p)]
      /\ w4' = [pc |-> "watch", path |-> p, todo |-> Watcher!Listed(p), added |-> FALSE, failed |-> {},
           retry |-> TRUE]
  BY DEF Watcher!Retries
<1>2. Watcher!Listed(p) \subseteq Watcher!Below(p) /\ Watcher!Below(p) \subseteq Watcher!Paths
  BY WatBelowPaths DEF Watcher!Listed
<1>3. WorkerTypes' /\ w4'.pc = "watch" /\ w4'.todo = Watcher!Listed(p)
  BY <1>1, <1>2 DEF WorkerTypes
<1>4. /\ RegistryTypes' /\ w2'.unwatched = w2.unwatched \ Watcher!Below(p) /\ w2'.polled = w2.polled
      /\ w2'.overflowed = w2.overflowed /\ w2'.paths = w2.paths
  BY <1>0, <1>1 DEF RegistryTypes
<1>5. /\ DirTypes' /\ EventTypes' /\ RemovedFirst' /\ FenceTypes' /\ FenceNumbers' /\ PolledIs'
      /\ SettledIs'
      /\ UnseenIs' /\ BeforeIs'
  <2>1. DirTypes' /\ EventTypes' /\ RemovedFirst' /\ FenceTypes' /\ FenceNumbers'
    BY <1>0, <1>1 DEF DirTypes, EventTypes, RemovedFirst, Covers, Events, FenceTypes, FenceNumbers
  <2>2. PolledIs' /\ SettledIs'
    BY <1>0, <1>1, <1>4 DEF PolledIs, SettledIs, Watcher!SettledIsSeen
  <2>3. UnseenIs' /\ BeforeIs'
    BY <1>3 DEF UnseenIs, BeforeIs
  <2> QED BY <2>1, <2>2, <2>3
<1>6. NewDirectories'
  <2> SUFFICES ASSUME NEW x \in w1.there \ (w1.watched \cup w2.paths),
       x = Top(x) \/ Top(x) \notin Watcher!Forgotten
               PROVE  WillBeListed(x)'
    BY <1>1, <1>4 DEF NewDirectories, Watcher!Forgotten
  <2>1. WillBeListed(x) /\ ~InHand(x)
    BY <1>0, <1>1 DEF NewDirectories, InHand
  <2>2. CASE x \in Watcher!Below(p)
    <3>1. x \in Watcher!Listed(p)
      BY <2>2 DEF Watcher!Listed
    <3> QED BY <1>3, <3>1 DEF WillBeListed, InHand
  <2>3. ASSUME NEW q \in w2.unwatched, x \in Watcher!Below(q),
       x \notin Watcher!Below(p) PROVE WillBeListed(x)'
    <3>1. q \in Watcher!Paths /\ x \in Watcher!Paths
      BY <1>0, <1>p DEF RegistryTypes
    <3>2. q \notin Watcher!Below(p)
      BY <1>p, <2>3, <3>1, WatBelow
    <3> QED BY <1>4, <2>3, <3>2 DEF WillBeListed
  <2>4. CASE w2.overflowed \/ \E i \in DOMAIN w3 : Covers(i, x)
    BY <1>1, <1>4, <2>4 DEF WillBeListed, Covers
  <2> QED BY <2>1, <2>2, <2>3, <2>4 DEF WillBeListed
<1> QED BY <1>3, <1>4, <1>5, <1>6 DEF WatInv

(* SettleBegins keeps the invariant.                                       *)
LEMMA WatSettleBegins ==
  ASSUME WatInv, Watcher!SettleBegins
  PROVE  WatInv'
<1>0. /\ DirTypes /\ RegistryTypes /\ EventTypes /\ WorkerTypes /\ FenceTypes /\ FenceNumbers
      /\ PolledIs /\ NewDirectories /\ RemovedFirst /\ UnseenIs /\ BeforeIs /\ SettledIs
  BY DEF WatInv
<1> DEFINE n == w5.n + 1
           e == [kind |-> "fence", n |-> n]
           seq == <<e>>
<1>1. /\ w5' = [pc |-> "waiting", n |-> n, before |-> w6] /\ w3' = Watcher!Raise(seq)
      /\ UNCHANGED <<w1, w2, w4, w6>>
  BY DEF Watcher!SettleBegins
<1>2. n \in Nat /\ w5.n \in Nat /\ w5.n < n /\ e \in Events /\ e.kind = "fence" /\ e.n = n
  BY <1>0 DEF FenceTypes, Events
<1> HIDE DEF n, e
<1>3. seq \in Seq(Events) /\ seq # <<>> /\ DOMAIN seq = {1} /\ seq[1] = e
  BY <1>2
<1> HIDE DEF seq
<1>4. Extends(seq)
  BY <1>0, <1>1, <1>3, WatRaise
<1>5. /\ FenceTypes' /\ w5'.n = n /\ w5'.before = w6 /\ w5'.pc = "waiting"
  BY <1>0, <1>1, <1>2 DEF FenceTypes
<1>6. /\ DirTypes' /\ RegistryTypes' /\ WorkerTypes' /\ PolledIs' /\ SettledIs' /\ EventTypes'
  BY <1>0, <1>1, <1>4, <1>5 DEF DirTypes, RegistryTypes, WorkerTypes, PolledIs, SettledIs,
       Watcher!SettledIsSeen, EventTypes, Extends, Events
<1>7. \A i \in DOMAIN w3 : i \in DOMAIN w3' /\ w3'[i] = w3[i]
  BY <1>4 DEF Extends
<1>8. \A i \in DOMAIN w3' :
        i \in DOMAIN w3 \/ w3'[i].kind = "overflow" \/ (w3'[i] = e /\ i = Len(w3) + 1)
  BY <1>3, <1>4 DEF Extends
<1>9. \A x : \A i \in DOMAIN w3 : Covers(i, x) => Covers(i, x)'
  BY <1>7 DEF Covers
<1>10. NewDirectories'
  BY <1>0, <1>1, <1>7, <1>9 DEF NewDirectories, WillBeListed, InHand, Watcher!Forgotten
<1>11. RemovedFirst'
  <2> SUFFICES ASSUME NEW i \in DOMAIN w3', w3'[i].kind = "remove",
                      NEW x \in {Top(w3'[i].path), w3'[i].path}, x \in w1.there \ w1.watched
               PROVE  \E j \in DOMAIN w3' : i < j /\ Covers(j, x)'
    BY <1>1 DEF RemovedFirst
  <2>1. i \in DOMAIN w3 /\ w3[i].kind = "remove" /\ w3'[i] = w3[i]
    BY <1>2, <1>7, <1>8
  <2> QED BY <1>0, <1>7, <1>9, <2>1 DEF RemovedFirst
<1>12. FenceNumbers'
  <2> SUFFICES ASSUME NEW i \in DOMAIN w3', w3'[i].kind = "fence" PROVE w3'[i].n <= n
    BY <1>5 DEF FenceNumbers
  <2>1. CASE i \in DOMAIN w3
    <3>1. w3[i].n \in Nat /\ w3[i].n <= w5.n
      BY <1>0, <1>7, <2>1, WatEvent DEF FenceNumbers
    <3> QED BY <1>2, <1>7, <2>1, <3>1
  <2>2. CASE w3'[i] = e
    BY <1>2, <2>2
  <2> QED BY <1>8, <2>1, <2>2
<1>13. UnseenIs'
  BY <1>0, <1>1, <1>7 DEF UnseenIs
<1>14. BeforeIs'
  <2> SUFFICES ASSUME w6, ~w2.polled, w4.pc = "recv", NEW k \in DOMAIN w3', w3'[k].kind = "fence",
                      w3'[k].n = n
               PROVE  \E i \in DOMAIN w3' : i < k /\ w3'[i].kind # "fence"
    BY <1>1, <1>5 DEF BeforeIs
  <2>1. k \notin DOMAIN w3
    <3>1. k \in DOMAIN w3 => w3[k].n <= w5.n /\ w3[k].n \in Nat
      BY <1>0, <1>7, WatEvent DEF FenceNumbers
    <3> QED BY <1>2, <1>7, <3>1
  <2>2. k = Len(w3) + 1
    BY <1>8, <2>1
  <2>3. PICK i \in DOMAIN w3 : w3[i].kind # "fence"
    BY <1>0 DEF UnseenIs
  <2>4. i < k
    BY <1>0, <2>2, <2>3 DEF EventTypes
  <2> QED BY <1>7, <2>3, <2>4
<1> QED BY <1>5, <1>6, <1>10, <1>11, <1>12, <1>13, <1>14 DEF WatInv

(* FencePassed keeps the invariant.                                        *)
LEMMA WatFencePassed ==
  ASSUME WatInv, Watcher!FencePassed
  PROVE  WatInv'
<1>0. /\ DirTypes /\ RegistryTypes /\ EventTypes /\ WorkerTypes /\ FenceTypes /\ FenceNumbers
      /\ PolledIs /\ NewDirectories /\ RemovedFirst /\ UnseenIs /\ BeforeIs /\ SettledIs
  BY DEF WatInv
<1>1. /\ w4.pc = "recv" /\ w3 # <<>> /\ w3' = Tail(w3) /\ Head(w3).kind = "fence"
      /\ UNCHANGED <<w1, w2, w4, w6, w7>>
      /\ w5' = [w5 EXCEPT !.pc = IF w5.pc = "waiting" /\ Head(w3).n >= w5.n THEN "settled" ELSE w5.pc]
  BY DEF Watcher!FencePassed
<1>2. Shifted /\ Head(w3) = w3[1] /\ 1 \in DOMAIN w3
  BY <1>0, <1>1, WatTail DEF Shifted
<1>3. /\ FenceTypes' /\ w5'.n = w5.n /\ w5'.before = w5.before
      /\ w5'.pc = IF w5.pc = "waiting" /\ w3[1].n >= w5.n THEN "settled" ELSE w5.pc
  BY <1>0, <1>1, <1>2 DEF FenceTypes
<1>4. DirTypes' /\ RegistryTypes' /\ WorkerTypes' /\ PolledIs' /\ EventTypes'
  BY <1>0, <1>1, <1>2 DEF DirTypes, RegistryTypes, WorkerTypes, PolledIs, EventTypes, Shifted, Events
<1>5. FenceNumbers'
  BY <1>0, <1>2, <1>3 DEF FenceNumbers, Shifted
<1>6. \A x : \A i \in DOMAIN w3 : Covers(i, x) => i # 1 /\ i - 1 \in DOMAIN w3' /\ Covers(i - 1, x)'
  BY <1>1, <1>2 DEF Covers, Shifted
<1>7. NewDirectories'
  BY <1>0, <1>1, <1>6 DEF NewDirectories, WillBeListed, InHand, Watcher!Forgotten
<1>8. RemovedFirst'
  <2> SUFFICES ASSUME NEW i \in DOMAIN w3', w3'[i].kind = "remove",
                      NEW x \in {Top(w3'[i].path), w3'[i].path}, x \in w1.there \ w1.watched
               PROVE  \E j \in DOMAIN w3' : i < j /\ Covers(j, x)'
    BY <1>1 DEF RemovedFirst
  <2>1. i + 1 \in DOMAIN w3 /\ w3'[i] = w3[i + 1]
    BY <1>2 DEF Shifted
  <2>2. PICK j \in DOMAIN w3 : i + 1 < j /\ Covers(j, x)
    BY <1>0, <2>1 DEF RemovedFirst
  <2>3. i < j - 1
    BY <1>2, <2>2 DEF Shifted
  <2> QED BY <1>6, <2>2, <2>3
<1>9. UnseenIs'
  <2> SUFFICES ASSUME w6, ~w2.polled PROVE \E i \in DOMAIN w3' : w3'[i].kind # "fence"
    BY <1>1 DEF UnseenIs
  <2>1. PICK i \in DOMAIN w3 : w3[i].kind # "fence"
    BY <1>0, <1>1 DEF UnseenIs
  <2>2. i # 1
    BY <1>1, <1>2, <2>1
  <2> QED BY <1>2, <2>1, <2>2 DEF Shifted
<1>10. BeforeIs'
  <2> SUFFICES ASSUME w5.pc = "waiting", w5.before, ~w2.polled, NEW k \in DOMAIN w3',
                      w3'[k].kind = "fence", w3'[k].n = w5.n
               PROVE  \E i \in DOMAIN w3' : i < k /\ w3'[i].kind # "fence"
    BY <1>1, <1>3 DEF BeforeIs
  <2>1. k + 1 \in DOMAIN w3 /\ w3[k + 1].kind = "fence" /\ w3[k + 1].n = w5.n
    BY <1>2 DEF Shifted
  <2>2. PICK i \in DOMAIN w3 : i < k + 1 /\ w3[i].kind # "fence"
    BY <1>0, <1>1, <2>1 DEF BeforeIs
  <2>3. i # 1 /\ k \in Nat /\ i \in Nat
    BY <1>1, <1>2, <2>2 DEF Shifted
  <2>4. i - 1 < k
    BY <2>2, <2>3
  <2> QED BY <1>2, <2>2, <2>3, <2>4 DEF Shifted
<1>11. SettledIs'
  <2> SUFFICES ASSUME w5'.pc = "settled", ~w2.polled PROVE ~w5.before
    BY <1>1, <1>3 DEF SettledIs, Watcher!SettledIsSeen
  <2>1. CASE w5.pc = "settled"
    BY <1>0, <2>1 DEF SettledIs, Watcher!SettledIsSeen
  <2>2. CASE w5.pc = "waiting" /\ w3[1].n >= w5.n
    <3>1. w3[1].n = w5.n
      <4>1. w3[1].n \in Nat /\ w3[1].n <= w5.n /\ w5.n \in Nat
        BY <1>0, <1>1, <1>2, WatEvent DEF FenceNumbers, FenceTypes
      <4> QED BY <2>2, <4>1
    <3>2. \A i \in DOMAIN w3 : ~(i < 1)
      BY <1>2 DEF Shifted
    <3> QED BY <1>0, <1>1, <1>2, <2>2, <3>1, <3>2 DEF BeforeIs
  <2> QED BY <1>3, <2>1, <2>2
<1> QED BY <1>3, <1>4, <1>5, <1>7, <1>8, <1>9, <1>10, <1>11 DEF WatInv

(* SettleTimesOut keeps the invariant.                                     *)
LEMMA WatSettleTimesOut ==
  ASSUME WatInv, Watcher!SettleTimesOut
  PROVE  WatInv'
<1>0. /\ DirTypes /\ RegistryTypes /\ EventTypes /\ WorkerTypes /\ FenceTypes /\ FenceNumbers
      /\ PolledIs /\ NewDirectories /\ RemovedFirst /\ UnseenIs /\ BeforeIs /\ SettledIs
  BY DEF WatInv
<1>1. w5.pc = "waiting" /\ w5' = [w5 EXCEPT !.pc = "timed_out"] /\ UNCHANGED <<w1, w2, w3, w4, w6, w7>>
  BY DEF Watcher!SettleTimesOut
<1>2. FenceTypes' /\ w5'.pc = "timed_out" /\ w5'.n = w5.n
  BY <1>0, <1>1 DEF FenceTypes
<1>3. /\ DirTypes' /\ RegistryTypes' /\ WorkerTypes' /\ PolledIs' /\ EventTypes' /\ FenceNumbers'
      /\ NewDirectories'
      /\ RemovedFirst' /\ UnseenIs'
  BY <1>0, <1>1, <1>2 DEF DirTypes, RegistryTypes, WorkerTypes, PolledIs, EventTypes, FenceNumbers,
       NewDirectories, RemovedFirst, UnseenIs, Events, Covers, WillBeListed, InHand, Watcher!Forgotten
<1>4. BeforeIs' /\ SettledIs'
  BY <1>2 DEF BeforeIs, SettledIs, Watcher!SettledIsSeen
<1> QED BY <1>2, <1>3, <1>4 DEF WatInv

(* The invariant holds at the start.                                       *)
LEMMA WatInitial ==
  ASSUME Watcher!WatchInit
  PROVE  WatInv
<1>1. /\ w1 = [there |-> {}, watched |-> {}] /\ w3 = <<>> /\ w4 = Watcher!IdleWorker
      /\ w5 = Watcher!NoFence /\ w6 = FALSE
      /\ w2 = [paths |-> {}, unwatched |-> {}, polled |-> FALSE, overflowed |-> FALSE]
  BY DEF Watcher!WatchInit
<1>2. DirTypes /\ NewDirectories
  BY <1>1 DEF DirTypes, NewDirectories
<1>3. RegistryTypes /\ PolledIs
  BY <1>1 DEF RegistryTypes, PolledIs
<1>4. EventTypes /\ FenceNumbers /\ RemovedFirst
  BY <1>1 DEF EventTypes, FenceNumbers, RemovedFirst
<1>5. WorkerTypes
  BY <1>1 DEF WorkerTypes
<1>6. FenceTypes /\ UnseenIs /\ BeforeIs /\ SettledIs
  BY <1>1 DEF FenceTypes, UnseenIs, BeforeIs, SettledIs, Watcher!SettledIsSeen, Watcher!NoFence
<1> QED BY <1>2, <1>3, <1>4, <1>5, <1>6 DEF WatInv

(* Every step keeps the invariant.                                         *)
LEMMA WatStep ==
  ASSUME WatInv, Watcher!WatchNext
  PROVE  WatInv'
BY WatUserMakes, WatUserWrites, WatUserRemoves, WatUserRenames, WatReceives, WatWatchesOne,
     WatWatchesDone, WatWorkerSignals, WatRetries, WatSettleBegins, WatFencePassed,
     WatSettleTimesOut DEF Watcher!WatchNext

(* The invariant is strong enough.                                         *)
LEMMA WatInvImplies ==
  ASSUME WatInv
  PROVE  Watcher!WatchTypeOK /\ Watcher!WatchedIsSeen
<1>0. DirTypes /\ RegistryTypes /\ EventTypes /\ WorkerTypes /\ FenceTypes /\ UnseenIs /\ SettledIs
  BY DEF WatInv
<1>1. \A i \in DOMAIN w3 : w3[i].kind \in Watcher!EventKinds \cup {"overflow", "fence"}
  BY <1>0, WatEvent
<1>2. w4.pc \in {"recv", "watch", "signal"}
  BY <1>0 DEF WorkerTypes, Watcher!IdleWorker
<1>3. w5.pc \in {"none", "waiting", "settled", "timed_out"} /\ w6 \in BOOLEAN
  BY <1>0 DEF FenceTypes
<1>4. Watcher!WatchTypeOK
  BY <1>0, <1>1, <1>2, <1>3 DEF Watcher!WatchTypeOK, DirTypes, RegistryTypes
<1>5. w3 = <<>> => DOMAIN w3 = {}
  OBVIOUS
<1>6. Watcher!WatchedIsSeen
  BY <1>0, <1>5 DEF Watcher!WatchedIsSeen, Watcher!NoUnseenChange, UnseenIs, SettledIs
<1> QED BY <1>4, <1>6

WatPart == part = "watch" => WatInv

(* The invariant is about these variables alone.                           *)
LEMMA WatStutters ==
  ASSUME WatInv, UNCHANGED <<w1, w2, w3, w4, w5, w6, w7>>
  PROVE  WatInv'
<1>1. DirTypes'
  BY DEF WatInv, DirTypes
<1>2. RegistryTypes'
  BY DEF WatInv, RegistryTypes
<1>3. EventTypes'
  BY DEF WatInv, EventTypes
<1>4. WorkerTypes'
  BY DEF WatInv, WorkerTypes
<1>5. FenceTypes'
  BY DEF WatInv, FenceTypes
<1>6. FenceNumbers'
  BY DEF WatInv, FenceNumbers
<1>7. PolledIs'
  BY DEF WatInv, PolledIs
<1>8. NewDirectories'
  BY DEF WatInv, NewDirectories, Covers, InHand, WillBeListed, Watcher!Forgotten
<1>9. RemovedFirst'
  BY DEF WatInv, RemovedFirst, Covers
<1>10. UnseenIs'
  BY DEF WatInv, UnseenIs
<1>11. BeforeIs'
  BY DEF WatInv, BeforeIs
<1>12. SettledIs'
  BY DEF WatInv, SettledIs, Watcher!SettledIsSeen
<1> QED BY <1>1, <1>2, <1>3, <1>4, <1>5, <1>6, <1>7, <1>8, <1>9, <1>10, <1>11, <1>12 DEF WatInv

(* Whatever part runs, this one keeps its invariant.                       *)
LEMMA WatAlways ==
  ASSUME WatPart, [RunningNext]_partVars
  PROVE  WatPart'
<1> SUFFICES ASSUME part' = "watch" PROVE WatInv'
  BY DEF WatPart
<1>1. part = "watch"
  BY DEF RunningNext, partVars
<1>2. WatInv
  BY <1>1 DEF WatPart
<1>3. CASE Watcher!WatchNext
  BY <1>2, <1>3, WatStep
<1>4. CASE UNCHANGED <<w1, w2, w3, w4, w5, w6, w7>>
  BY <1>2, <1>4, WatStutters
<1> QED BY <1>1, <1>3, <1>4 DEF RunningNext, partVars, From1, From3, From4, From5, From6, From7, From8,
     From10, From12, From13, From15, From17

(* While a class is not polled, every change of it was seen or will be:    *)
(* the worker has it in hand or its event waits; and a settle that         *)
(* succeeds saw every change from before it, for any directories and       *)
(* queue, whatever is made, renamed or removed while a watch is added      *)
(* (watch.rs worker, watch_under, settle).                                 *)
THEOREM WatchCorrect == RunningSpec => []WatchedIsSeen
<1>1. RunningInit => WatPart
  BY WatInitial DEF RunningInit, WatPart
<1>2. WatPart /\ [RunningNext]_partVars => WatPart'
  BY WatAlways
<1>3. WatPart => WatchedIsSeen
  BY WatInvImplies DEF WatchedIsSeen, WatPart
<1> QED BY <1>1, <1>2, <1>3, PTL DEF RunningSpec
===============================================================================
