---------------------------- MODULE ControlProofs ----------------------------
(***************************************************************************)
(* Proofs about the control side: what MCControl checks of the gates, the  *)
(* frontends, one connection and one forward, for every value of their     *)
(* constants.                                                              *)
(*                                                                         *)
(* The variables are MCControl's.  In the sections on the connection c1 to *)
(* c22 are peer, wire, pc, cur, partial, opened, beside, entries, pumps,   *)
(* sinks, closers, inbound, killed, outq, writer, forwarder, stopEvents,   *)
(* output, phase, received, written, desynced; in the one on the gates c1  *)
(* and c2 are adm and reqs; in the one on the frontends c1 to c6 are       *)
(* front, task, fate, reply, signal, nleft; in the one on the forward c1   *)
(* to c4 are fw, dialed, target, check.                                    *)
(*                                                                         *)
(* Each section states an inductive invariant, one lemma per action that   *)
(* needs one, and ends in the theorem.                                     *)
(***************************************************************************)
EXTENDS MCControl, FiniteSetTheorems, TLAPS
-------------------------------------------------------------------------------
(* Admission.                                                              *)

GateWork == {"process", "session", "sftp"} \X Requests

GateState ==
  [state : {"Healthy", "ShuttingDown", "Stopped"}, closed : BOOLEAN,
   claim : {"Unclaimed", "Claimed", "Released"},
   running : SUBSET GateWork, wrote : SUBSET Requests,
   tag : Executions \cup {Gates!Default}, executions : Nat,
   flush : {"none", "closed", "stopped", "ended"}, boots : {0, 1}, limit : AdmissionLimits]

GateCommands == (UNION {l.commands : l \in AdmissionLimits}) \cup {Gates!NoCommand}

GateRequests ==
  [Requests ->
     [command : GateCommands,
      pc : {"idle", "state", "admission", "claim", "serve", "start", "bootstrap", "answered",
            "refused", "lost"},
      execution : Executions \cup {Gates!Default}, early : BOOLEAN]]

GateTypes == c1 \in GateState /\ c2 \in GateRequests

Past == {"serve", "start", "bootstrap"}

(* A request that is past the claim of a daemon with an engine stands on a *)
(* claimed workspace.                                                      *)
ClaimedBefore ==
  \A r \in Requests :
    c1.limit.engine /\ c2[r].pc \in Past /\ c2[r].command \in Gates!Admits => c1.claim = "Claimed"

(* A request that starts something was looked at while admission was open. *)
EarlyBefore ==
  \A r \in Requests :
    /\ c2[r].pc \in Past \cup {"claim"} /\ Gates!RefusedClosed(c2[r].command) => c2[r].early
    /\ c2[r].pc = "start" => c2[r].command \in {"Exec", "ExecAttached", "OpenSession", "DotfilesApply"}
    /\ c2[r].pc = "bootstrap" => c2[r].command = "DotfilesApply"

RunningEarly == \A w \in c1.running : c2[w[2]].early /\ c2[w[2]].pc = "answered"

GateStarted == {r \in Requests : c2[r].command = "ExecutionStart" /\ c2[r].pc = "answered"}
GateCounts == c1.executions <= Cardinality(GateStarted)

GateInv ==
  /\ GateTypes /\ ClaimedBefore /\ EarlyBefore /\ RunningEarly /\ GateCounts
  /\ Gates!UnclaimedIsUntouched

(* The invariant of the gates holds before the first request.              *)
LEMMA GateInitial ==
  ASSUME IsFiniteSet(Requests), Gates!AdmissionInit
  PROVE  GateInv
<1>1. PICK l \in AdmissionLimits :
        c1 = [state |-> "Healthy", closed |-> FALSE,
              claim |-> IF l.standby THEN "Unclaimed" ELSE "Claimed",
              running |-> {}, wrote |-> {}, tag |-> Gates!Default, executions |-> 0,
              flush |-> "none", boots |-> 0, limit |-> l]
  BY DEF Gates!AdmissionInit
<1>2. c2 = [r \in Requests |-> [command |-> Gates!NoCommand, pc |-> "idle",
                                execution |-> Gates!Default, early |-> FALSE]]
  BY DEF Gates!AdmissionInit
<1>3. GateTypes
  BY <1>1, <1>2 DEF GateTypes, GateState, GateRequests, GateCommands
<1>4. ClaimedBefore /\ EarlyBefore /\ RunningEarly /\ Gates!UnclaimedIsUntouched
  BY <1>1, <1>2 DEF ClaimedBefore, EarlyBefore, RunningEarly, Gates!UnclaimedIsUntouched, Past, Gates!Limit
<1>5. GateCounts
  <2>1. GateStarted = {} BY <1>2 DEF GateStarted
  <2> QED BY <2>1, <1>1, FS_EmptySet DEF GateCounts
<1> QED BY <1>3, <1>4, <1>5 DEF GateInv

(* What a request runs is told apart by its kind and names the request.    *)
LEMMA GateWorkIs ==
  /\ \A r \in Requests : {<<"process", r>>, <<"session", r>>, <<"sftp", r>>} \subseteq GateWork
  /\ \A r \in Requests : <<"process", r>>[2] = r /\ <<"session", r>>[2] = r /\ <<"sftp", r>>[2] = r
  /\ \A w \in GateWork : w[2] \in Requests
BY DEF GateWork

(* A step that ends no start and counts no further one keeps the count.    *)
LEMMA GateCountKept ==
  ASSUME IsFiniteSet(Requests), GateInv, GateTypes', c1'.executions <= c1.executions,
         GateStarted \subseteq GateStarted'
  PROVE  GateCounts'
<1>1. IsFiniteSet(GateStarted')
  <2>1. GateStarted' \subseteq Requests BY DEF GateStarted
  <2> QED BY <2>1, FS_Subset
<1>2. /\ Cardinality(GateStarted) \in Nat /\ Cardinality(GateStarted') \in Nat
      /\ Cardinality(GateStarted) <= Cardinality(GateStarted')
  BY <1>1, FS_Subset, FS_CardinalityType
<1>3. c1.executions \in Nat /\ c1'.executions \in Nat /\ c1.executions <= Cardinality(GateStarted)
  BY DEF GateInv, GateTypes, GateState, GateCounts
<1> QED BY <1>2, <1>3 DEF GateCounts

(* A request that has started something, or may have, is answered.         *)
LEMMA GateStarts ==
  ASSUME IsFiniteSet(Requests), GateInv, NEW r \in Requests, NEW x \in GateWork, x[2] = r,
         c1' = [c1 EXCEPT !.running = @ \cup {x}, !.wrote = @ \cup {r}],
         c2' = [c2 EXCEPT ![r].pc = "answered"],
         c2[r].pc \in Past, c2[r].command \in Gates!Admits, Gates!RefusedClosed(c2[r].command)
  PROVE  GateInv'
<1>0. c1 \in GateState /\ c2 \in GateRequests BY DEF GateInv, GateTypes
<1>1. c1' \in GateState BY <1>0 DEF GateState
<1>2. c2' \in GateRequests BY <1>0 DEF GateRequests
<1>3. /\ c1'.running = c1.running \cup {x} /\ c1'.wrote = c1.wrote \cup {r} /\ c1'.claim = c1.claim
      /\ c1'.limit = c1.limit /\ c1'.executions = c1.executions
  BY <1>0 DEF GateState
<1>4. \A q \in Requests :
        /\ c2'[q].command = c2[q].command /\ c2'[q].early = c2[q].early
        /\ c2'[q].pc = IF q = r THEN "answered" ELSE c2[q].pc
  BY <1>0 DEF GateRequests
<1>5. ClaimedBefore' /\ EarlyBefore'
  BY <1>3, <1>4 DEF GateInv, ClaimedBefore, EarlyBefore, Past
<1>6. c2[r].early BY DEF GateInv, EarlyBefore
<1>7. RunningEarly'
  <2> SUFFICES ASSUME NEW w \in c1'.running PROVE c2'[w[2]].early /\ c2'[w[2]].pc = "answered"
    BY DEF RunningEarly
  <2>1. CASE w = x BY <2>1, <1>4, <1>6
  <2>2. CASE w \in c1.running
    <3>1. w[2] \in Requests BY <2>2, <1>0, GateWorkIs DEF GateState
    <3> QED BY <2>2, <3>1, <1>4 DEF GateInv, RunningEarly
  <2> QED BY <2>1, <2>2, <1>3
<1>8. Gates!UnclaimedIsUntouched'
  BY <1>3 DEF GateInv, ClaimedBefore, Gates!UnclaimedIsUntouched, Gates!Limit
<1>9. GateCounts'
  <2>1. GateStarted \subseteq GateStarted' BY <1>4 DEF GateStarted
  <2>2. c1'.executions <= c1.executions BY <1>0, <1>3 DEF GateState
  <2> QED BY <2>1, <2>2, <1>1, <1>2, GateCountKept DEF GateTypes
<1> QED BY <1>1, <1>2, <1>5, <1>7, <1>8, <1>9 DEF GateInv, GateTypes

(* A request that did nothing is answered.                                 *)
LEMMA GateAnswers ==
  ASSUME IsFiniteSet(Requests), GateInv, NEW r \in Requests, c1' = c1,
         c2' = [c2 EXCEPT ![r].pc = "answered"]
  PROVE  GateInv'
<1>0. c1 \in GateState /\ c2 \in GateRequests BY DEF GateInv, GateTypes
<1>1. c2' \in GateRequests BY <1>0 DEF GateRequests
<1>2. \A q \in Requests :
        /\ c2'[q].command = c2[q].command /\ c2'[q].early = c2[q].early
        /\ c2'[q].pc = IF q = r THEN "answered" ELSE c2[q].pc
  BY <1>0 DEF GateRequests
<1>3. ClaimedBefore' /\ EarlyBefore' /\ Gates!UnclaimedIsUntouched'
  BY <1>2 DEF GateInv, ClaimedBefore, EarlyBefore, Past, Gates!UnclaimedIsUntouched, Gates!Limit
<1>4. \A w \in c1.running : w[2] \in Requests BY <1>0, GateWorkIs DEF GateState
<1>5. RunningEarly' BY <1>2, <1>4 DEF GateInv, RunningEarly
<1>6. GateCounts'
  <2>1. GateStarted \subseteq GateStarted' BY <1>2 DEF GateStarted
  <2>2. c1'.executions <= c1.executions BY <1>0 DEF GateState
  <2> QED BY <2>1, <2>2, <1>0, <1>1, GateCountKept DEF GateTypes
<1> QED BY <1>0, <1>1, <1>3, <1>5, <1>6 DEF GateInv, GateTypes

(* Every step of a request, a stop, a flush or a kill keeps it.            *)
LEMMA GateStep ==
  ASSUME IsFiniteSet(Requests), GateInv, Gates!AdmissionNext
  PROVE  GateInv'
<1> DEFINE Others == ClaimedBefore /\ EarlyBefore /\ RunningEarly /\ Gates!UnclaimedIsUntouched
<1> USE DEF Gates!Set, Gates!Done, Gates!Serves, Gates!Command, Gates!Starts, Gates!Noted, Gates!Limit
<1>0. c1 \in GateState /\ c2 \in GateRequests /\ Others
  BY DEF GateInv, GateTypes
<1>w. \A w \in c1.running : w[2] \in Requests
  BY <1>0, GateWorkIs DEF GateState
<1>1. ASSUME NEW r \in Requests, Gates!Arrive(r) PROVE GateInv'
  <2>a. PICK c \in c1.limit.commands, e \in Executions :
          c2' = [c2 EXCEPT ![r] = [command |-> c, pc |-> "state", execution |-> e, early |-> FALSE]]
    BY <1>1 DEF Gates!Arrive
  <2>b. c \in GateCommands BY <1>0 DEF GateCommands, GateState
  <2>1. GateTypes'
    BY <1>0, <2>a, <2>b, <1>1 DEF Gates!Arrive, GateTypes, GateState, GateRequests
  <2>2. Others'
    BY <1>0, <1>w, <2>a, <2>b, <1>1 DEF Gates!Arrive, ClaimedBefore, EarlyBefore, RunningEarly, Gates!UnclaimedIsUntouched,
        Past, GateState, GateRequests
  <2>3. c1'.executions <= c1.executions /\ GateStarted \subseteq GateStarted'
    BY <1>0, <2>a, <2>b, <1>1 DEF Gates!Arrive, GateStarted, GateState, GateRequests
  <2> QED BY <2>1, <2>2, <2>3, GateCountKept DEF GateInv
<1>2. ASSUME NEW r \in Requests, Gates!CheckState(r) PROVE GateInv'
  <2>1. GateTypes'
    BY <1>0, <1>2 DEF Gates!CheckState, GateTypes, GateState, GateRequests, Gates!Down
  <2>2. Others'
    BY <1>0, <1>w, <1>2 DEF Gates!CheckState, ClaimedBefore, EarlyBefore, RunningEarly, Gates!UnclaimedIsUntouched,
        Past, GateState, GateRequests, Gates!Down
  <2>3. c1'.executions <= c1.executions /\ GateStarted \subseteq GateStarted'
    BY <1>0, <1>2 DEF Gates!CheckState, GateStarted, GateState, GateRequests, Gates!Down
  <2> QED BY <2>1, <2>2, <2>3, GateCountKept DEF GateInv
<1>3. ASSUME NEW r \in Requests, Gates!CheckAdmission(r) PROVE GateInv'
  <2>0. c1.closed \in BOOLEAN BY <1>0 DEF GateState
  <2>1. c1' = c1 /\ c2[r].pc = "admission" BY <1>3 DEF Gates!CheckAdmission
  <2>2. PICK pc \in {"refused", "claim"}, b \in BOOLEAN :
          /\ c2' = [c2 EXCEPT ![r].pc = pc, ![r].early = b]
          /\ pc = "claim" /\ Gates!RefusedClosed(c2[r].command) => b
    <3>1. CASE c1.closed BY <3>1, <1>3 DEF Gates!CheckAdmission
    <3>2. CASE ~c1.closed BY <3>2, <1>3 DEF Gates!CheckAdmission
    <3> QED BY <3>1, <3>2
  <2>3. c2' \in GateRequests BY <1>0, <2>2 DEF GateRequests
  <2>4. \A q \in Requests :
          /\ c2'[q].command = c2[q].command
          /\ c2'[q].early = IF q = r THEN b ELSE c2[q].early
          /\ c2'[q].pc = IF q = r THEN pc ELSE c2[q].pc
    BY <1>0, <2>2 DEF GateRequests
  <2>5. \A w \in c1.running : w[2] # r BY <1>0, <2>1 DEF RunningEarly
  <2>6. Others'
    <3>1. ClaimedBefore' /\ Gates!UnclaimedIsUntouched'
      BY <1>0, <2>1, <2>4 DEF ClaimedBefore, Gates!UnclaimedIsUntouched, Past
    <3>2. EarlyBefore'
      <4> SUFFICES ASSUME NEW q \in Requests
                   PROVE  /\ c2'[q].pc \in Past \cup {"claim"} /\ Gates!RefusedClosed(c2'[q].command)
                            => c2'[q].early
                          /\ c2'[q].pc = "start" => c2'[q].command \in {"Exec", "ExecAttached", "OpenSession", "DotfilesApply"}
                          /\ c2'[q].pc = "bootstrap" => c2'[q].command = "DotfilesApply"
        BY DEF EarlyBefore
      <4>1. CASE q = r
        <5>1. c2'[r].early = b /\ c2'[r].pc = pc /\ c2'[r].command = c2[r].command BY <2>4
        <5>2. pc = "claim" /\ Gates!RefusedClosed(c2'[r].command) => c2'[r].early = TRUE BY <5>1, <2>2
        <5> QED BY <4>1, <5>1, <5>2 DEF Past
      <4>2. CASE q # r
        <5>1. c2'[q] = c2[q] BY <4>2, <1>0, <2>2 DEF GateRequests
        <5> QED BY <5>1, <1>0 DEF EarlyBefore
      <4> QED BY <4>1, <4>2
    <3>3. RunningEarly' BY <1>0, <1>w, <2>1, <2>4, <2>5 DEF RunningEarly
    <3> QED BY <3>1, <3>2, <3>3
  <2>7. c1'.executions <= c1.executions /\ GateStarted \subseteq GateStarted'
    BY <1>0, <2>1, <2>4 DEF GateStarted, GateState
  <2> QED BY <1>0, <2>1, <2>3, <2>6, <2>7, GateCountKept DEF GateInv, GateTypes
<1>4. ASSUME NEW r \in Requests, Gates!AdmitWriter(r) PROVE GateInv'
  <2>1. GateTypes'
    BY <1>0, <1>4 DEF Gates!AdmitWriter, GateTypes, GateState, GateRequests, Gates!Claims, Gates!AdmitListed
  <2>2. Others'
    BY <1>0, <1>w, <1>4 DEF Gates!AdmitWriter, ClaimedBefore, EarlyBefore, RunningEarly, Gates!UnclaimedIsUntouched,
        Past, GateState, GateRequests, Gates!Claims, Gates!AdmitListed, Gates!Admits
  <2>3. c1'.executions <= c1.executions /\ GateStarted \subseteq GateStarted'
    BY <1>0, <1>4 DEF Gates!AdmitWriter, GateStarted, GateState, GateRequests, Gates!Claims, Gates!AdmitListed
  <2> QED BY <2>1, <2>2, <2>3, GateCountKept DEF GateInv
<1>5. ASSUME NEW r \in Requests, Gates!Note(r) PROVE GateInv'
  <2>1. GateTypes'
    BY <1>0, <1>5 DEF Gates!Note, GateTypes, GateState, GateRequests
  <2>2. Others'
    BY <1>0, <1>w, <1>5 DEF Gates!Note, ClaimedBefore, EarlyBefore, RunningEarly, Gates!UnclaimedIsUntouched,
        Past, GateState, GateRequests, Gates!Admits, Gates!RefusedClosed, Gates!Streaming,
        Gates!StreamingClosed, Gates!DispatchClosed
  <2>3. c1'.executions <= c1.executions /\ GateStarted \subseteq GateStarted'
    BY <1>0, <1>5 DEF Gates!Note, GateStarted, GateState, GateRequests
  <2> QED BY <2>1, <2>2, <2>3, GateCountKept DEF GateInv
<1>6. ASSUME NEW r \in Requests, Gates!Start(r) PROVE GateInv'
  <2>1. c2[r].pc = "start" /\ c2' = [c2 EXCEPT ![r].pc = "answered"] BY <1>6 DEF Gates!Start
  <2>2. c2[r].command \in {"Exec", "ExecAttached", "OpenSession"}
    BY <1>0, <1>6 DEF Gates!Start, EarlyBefore
  <2>3. c2[r].pc \in Past /\ c2[r].command \in Gates!Admits /\ Gates!RefusedClosed(c2[r].command)
    BY <2>1, <2>2 DEF Past, Gates!Admits, Gates!RefusedClosed, Gates!Streaming, Gates!StreamingClosed, Gates!DispatchClosed
  <2>4. CASE c1' = c1 BY <2>1, <2>4, GateAnswers
  <2>5. CASE c1' # c1
    <3>1. PICK x \in {<<"session", r>>, <<"process", r>>} :
            c1' = [c1 EXCEPT !.running = @ \cup {x}, !.wrote = @ \cup {r}]
      BY <1>6, <2>5 DEF Gates!Start
    <3>2. x \in GateWork /\ x[2] = r BY GateWorkIs
    <3> QED BY <2>1, <2>3, <3>1, <3>2, GateStarts
  <2> QED BY <2>4, <2>5
<1>7. ASSUME NEW r \in Requests, Gates!ApplyDotfiles(r) PROVE GateInv'
  <2>1. GateTypes'
    BY <1>0, <1>7 DEF Gates!ApplyDotfiles, GateTypes, GateState, GateRequests
  <2>2. Others'
    BY <1>0, <1>w, <1>7 DEF Gates!ApplyDotfiles, ClaimedBefore, EarlyBefore, RunningEarly, Gates!UnclaimedIsUntouched,
        Past, GateState, GateRequests, Gates!Admits, Gates!RefusedClosed, Gates!Streaming,
        Gates!StreamingClosed, Gates!DispatchClosed
  <2>3. c1'.executions <= c1.executions /\ GateStarted \subseteq GateStarted'
    BY <1>0, <1>7 DEF Gates!ApplyDotfiles, GateStarted, GateState, GateRequests
  <2> QED BY <2>1, <2>2, <2>3, GateCountKept DEF GateInv
<1>8. ASSUME NEW r \in Requests, Gates!Bootstrap(r) PROVE GateInv'
  <2>1. c2[r].pc = "bootstrap" /\ c2' = [c2 EXCEPT ![r].pc = "answered"] BY <1>8 DEF Gates!Bootstrap
  <2>2. c2[r].command = "DotfilesApply" BY <1>0, <2>1 DEF EarlyBefore
  <2>3. c2[r].pc \in Past /\ c2[r].command \in Gates!Admits /\ Gates!RefusedClosed(c2[r].command)
    BY <2>1, <2>2 DEF Past, Gates!Admits, Gates!RefusedClosed, Gates!Streaming, Gates!StreamingClosed, Gates!DispatchClosed
  <2>4. c1' = [c1 EXCEPT !.running = @ \cup {<<"process", r>>}, !.wrote = @ \cup {r}]
    BY <1>8 DEF Gates!Bootstrap
  <2> QED BY <2>1, <2>3, <2>4, GateStarts, GateWorkIs
<1>9. ASSUME NEW r \in Requests, Gates!OpenSftp(r) PROVE GateInv'
  <2>1. /\ c2[r].pc = "serve" /\ c2[r].command = "OpenSftp"
        /\ c2' = [c2 EXCEPT ![r].pc = "answered"]
    BY <1>9 DEF Gates!OpenSftp
  <2>2. c2[r].pc \in Past /\ c2[r].command \in Gates!Admits /\ Gates!RefusedClosed(c2[r].command)
    BY <2>1 DEF Past, Gates!Admits, Gates!RefusedClosed, Gates!Streaming, Gates!StreamingClosed, Gates!DispatchClosed
  <2>3. CASE c1' = c1 BY <2>1, <2>3, GateAnswers
  <2>4. CASE c1' = [c1 EXCEPT !.running = @ \cup {<<"sftp", r>>}, !.wrote = @ \cup {r}]
    BY <2>1, <2>2, <2>4, GateStarts, GateWorkIs
  <2> QED BY <1>9, <2>3, <2>4 DEF Gates!OpenSftp
<1>10. ASSUME NEW r \in Requests, Gates!BindMount(r) PROVE GateInv'
  <2>1. GateTypes'
    BY <1>0, <1>10 DEF Gates!BindMount, GateTypes, GateState, GateRequests
  <2>2. Others'
    BY <1>0, <1>w, <1>10 DEF Gates!BindMount, ClaimedBefore, EarlyBefore, RunningEarly, Gates!UnclaimedIsUntouched,
        Past, GateState, GateRequests, Gates!Admits
  <2>3. c1'.executions <= c1.executions /\ GateStarted \subseteq GateStarted'
    BY <1>0, <1>10 DEF Gates!BindMount, GateStarted, GateState, GateRequests
  <2> QED BY <2>1, <2>2, <2>3, GateCountKept DEF GateInv
<1>11. ASSUME NEW r \in Requests, Gates!Input(r) PROVE GateInv'
  <2>1. GateTypes'
    BY <1>0, <1>11 DEF Gates!Input, GateTypes, GateState, GateRequests
  <2>2. Others'
    BY <1>0, <1>w, <1>11 DEF Gates!Input, ClaimedBefore, EarlyBefore, RunningEarly, Gates!UnclaimedIsUntouched,
        Past, GateState, GateRequests, Gates!Admits
  <2>3. c1'.executions <= c1.executions /\ GateStarted \subseteq GateStarted'
    BY <1>0, <1>11 DEF Gates!Input, GateStarted, GateState, GateRequests
  <2> QED BY <2>1, <2>2, <2>3, GateCountKept DEF GateInv
<1>12. ASSUME NEW r \in Requests, Gates!ExecutionStart(r) PROVE GateInv'
  <2>1. /\ c2' = [c2 EXCEPT ![r].pc = "answered"] /\ c2[r].pc = "serve"
        /\ c2[r].command = "ExecutionStart"
    BY <1>12 DEF Gates!ExecutionStart
  <2> DEFINE n == c1.executions + 1
             t == c2[r].execution
  <2>2. c1' = [c1 EXCEPT !.tag = t, !.executions = n]
    BY <1>12, <1>0 DEF Gates!ExecutionStart, GateState
  <2>3. t \in Executions \cup {Gates!Default} /\ n \in Nat /\ n = c1.executions + 1
    BY <1>0 DEF GateRequests, GateState
  <2> HIDE DEF n, t
  <2>4. c1' \in GateState BY <1>0, <2>2, <2>3 DEF GateState
  <2>5. c2' \in GateRequests BY <1>0, <2>1 DEF GateRequests
  <2>6. /\ c1'.running = c1.running /\ c1'.claim = c1.claim /\ c1'.executions = c1.executions + 1
        /\ c1'.limit = c1.limit /\ c1'.wrote = c1.wrote
    BY <1>0, <2>2, <2>3 DEF GateState
  <2>7. \A q \in Requests :
          /\ c2'[q].command = c2[q].command /\ c2'[q].early = c2[q].early
          /\ c2'[q].pc = IF q = r THEN "answered" ELSE c2[q].pc
    BY <1>0, <2>1 DEF GateRequests
  <2>8. Others'
    BY <1>0, <1>w, <2>6, <2>7
       DEF ClaimedBefore, EarlyBefore, RunningEarly, Gates!UnclaimedIsUntouched, Past
  <2>9. GateStarted' = GateStarted \cup {r} /\ r \notin GateStarted
    BY <2>1, <2>7 DEF GateStarted
  <2>10. IsFiniteSet(GateStarted)
    <3>1. GateStarted \subseteq Requests BY DEF GateStarted
    <3> QED BY <3>1, FS_Subset
  <2>11. Cardinality(GateStarted) \in Nat /\ Cardinality(GateStarted') = Cardinality(GateStarted) + 1
    BY <2>9, <2>10, FS_AddElement, FS_CardinalityType
  <2>12. GateCounts' BY <1>0, <2>6, <2>11 DEF GateCounts, GateInv, GateState
  <2> QED BY <2>4, <2>5, <2>8, <2>12 DEF GateInv, GateTypes
<1>13. ASSUME NEW r \in Requests, Gates!ExecutionStop(r) PROVE GateInv'
  <2>1. c2' = [c2 EXCEPT ![r].pc = "answered"] /\ c2[r].pc = "serve"
    BY <1>13 DEF Gates!ExecutionStop
  <2> DEFINE n == Gates!saturating_decrement(c1.executions)
             t == IF c1.tag = c2[r].execution THEN Gates!Default ELSE c1.tag
             ws == {w \in c1.running : w[1] # "process" \/ c2[w[2]].execution # c2[r].execution}
  <2>2. c1' = [c1 EXCEPT !.tag = t, !.executions = n, !.running = ws]
    BY <1>13 DEF Gates!ExecutionStop
  <2>3. n \in Nat /\ n <= c1.executions BY <1>0 DEF GateState, Gates!saturating_decrement
  <2>4. t \in Executions \cup {Gates!Default} /\ ws \subseteq c1.running BY <1>0 DEF GateState
  <2> HIDE DEF n, t, ws
  <2>5. c1' \in GateState BY <1>0, <2>2, <2>3, <2>4 DEF GateState
  <2>6. c2' \in GateRequests BY <1>0, <2>1 DEF GateRequests
  <2>7. /\ c1'.running = ws /\ c1'.claim = c1.claim /\ c1'.executions = n
        /\ c1'.limit = c1.limit /\ c1'.wrote = c1.wrote
    BY <1>0, <2>2 DEF GateState
  <2>8. \A q \in Requests :
          /\ c2'[q].command = c2[q].command /\ c2'[q].early = c2[q].early
          /\ c2'[q].pc = IF q = r THEN "answered" ELSE c2[q].pc
    BY <1>0, <2>1 DEF GateRequests
  <2>9. Others'
    BY <1>0, <1>w, <2>4, <2>7, <2>8
       DEF ClaimedBefore, EarlyBefore, RunningEarly, Gates!UnclaimedIsUntouched, Past
  <2>10. c1'.executions <= c1.executions /\ GateStarted \subseteq GateStarted'
    BY <2>3, <2>7, <2>8 DEF GateStarted
  <2> QED BY <2>5, <2>6, <2>9, <2>10, GateCountKept DEF GateInv, GateTypes
<1>14. ASSUME NEW r \in Requests, Gates!EndWork(r) PROVE GateInv'
  <2>1. GateTypes'
    BY <1>0, <1>14 DEF Gates!EndWork, GateTypes, GateState, GateRequests
  <2>2. Others'
    BY <1>0, <1>w, <1>14 DEF Gates!EndWork, ClaimedBefore, EarlyBefore, RunningEarly, Gates!UnclaimedIsUntouched,
        Past, GateState, GateRequests
  <2>3. c1'.executions <= c1.executions /\ GateStarted \subseteq GateStarted'
    BY <1>0, <1>14 DEF Gates!EndWork, GateStarted, GateState, GateRequests
  <2> QED BY <2>1, <2>2, <2>3, GateCountKept DEF GateInv
<1>15. ASSUME NEW r \in Requests, Gates!CaptureReplan(r) PROVE GateInv'
  <2>1. c2' = [c2 EXCEPT ![r].pc = "answered"] BY <1>15 DEF Gates!CaptureReplan
  <2>2. CASE c1' = c1 BY <2>1, <2>2, GateAnswers
  <2>3. CASE c1' = [c1 EXCEPT !.claim = "Claimed", !.wrote = @ \cup {r}]
    <3>1. c1' \in GateState BY <1>0, <2>3 DEF GateState
    <3>2. c2' \in GateRequests BY <1>0, <2>1 DEF GateRequests
    <3>3. /\ c1'.running = c1.running /\ c1'.claim = "Claimed" /\ c1'.executions = c1.executions
      BY <1>0, <2>3 DEF GateState
    <3>4. \A q \in Requests :
            /\ c2'[q].command = c2[q].command /\ c2'[q].early = c2[q].early
            /\ c2'[q].pc = IF q = r THEN "answered" ELSE c2[q].pc
      BY <1>0, <2>1 DEF GateRequests
    <3>5. Others'
      BY <1>0, <1>w, <3>3, <3>4
         DEF ClaimedBefore, EarlyBefore, RunningEarly, Gates!UnclaimedIsUntouched, Past
    <3>6. c1'.executions <= c1.executions /\ GateStarted \subseteq GateStarted'
      BY <1>0, <3>3, <3>4 DEF GateStarted, GateState
    <3> QED BY <3>1, <3>2, <3>5, <3>6, GateCountKept DEF GateInv, GateTypes
  <2> QED BY <1>15, <2>2, <2>3 DEF Gates!CaptureReplan
<1>16. ASSUME NEW r \in Requests, Gates!Answer(r) PROVE GateInv'
  <2>1. c1' = c1 /\ c2' = [c2 EXCEPT ![r].pc = "answered"] BY <1>16 DEF Gates!Answer
  <2> QED BY <2>1, GateAnswers
<1>17. ASSUME Gates!CloseAdmission PROVE GateInv'
  <2>1. GateTypes'
    BY <1>0, <1>17 DEF Gates!CloseAdmission, GateTypes, GateState, GateRequests
  <2>2. Others'
    BY <1>0, <1>w, <1>17 DEF Gates!CloseAdmission, ClaimedBefore, EarlyBefore, RunningEarly, Gates!UnclaimedIsUntouched,
        Past, GateState, GateRequests
  <2>3. c1'.executions <= c1.executions /\ GateStarted \subseteq GateStarted'
    BY <1>0, <1>17 DEF Gates!CloseAdmission, GateStarted, GateState, GateRequests
  <2> QED BY <2>1, <2>2, <2>3, GateCountKept DEF GateInv
<1>18. ASSUME Gates!StopWriters PROVE GateInv'
  <2>1. GateTypes'
    BY <1>0, <1>18 DEF Gates!StopWriters, GateTypes, GateState, GateRequests
  <2>2. Others'
    BY <1>0, <1>w, <1>18 DEF Gates!StopWriters, ClaimedBefore, EarlyBefore, RunningEarly, Gates!UnclaimedIsUntouched,
        Past, GateState, GateRequests
  <2>3. c1'.executions <= c1.executions /\ GateStarted \subseteq GateStarted'
    BY <1>0, <1>18 DEF Gates!StopWriters, GateStarted, GateState, GateRequests
  <2> QED BY <2>1, <2>2, <2>3, GateCountKept DEF GateInv
<1>19. ASSUME Gates!FlushFinal PROVE GateInv'
  <2>1. GateTypes'
    BY <1>0, <1>19 DEF Gates!FlushFinal, GateTypes, GateState, GateRequests
  <2>2. Others'
    BY <1>0, <1>w, <1>19 DEF Gates!FlushFinal, ClaimedBefore, EarlyBefore, RunningEarly, Gates!UnclaimedIsUntouched,
        Past, GateState, GateRequests
  <2>3. c1'.executions <= c1.executions /\ GateStarted \subseteq GateStarted'
    BY <1>0, <1>19 DEF Gates!FlushFinal, GateStarted, GateState, GateRequests
  <2> QED BY <2>1, <2>2, <2>3, GateCountKept DEF GateInv
<1>20. ASSUME Gates!BeginShutdown PROVE GateInv'
  <2>1. GateTypes'
    BY <1>0, <1>20 DEF Gates!BeginShutdown, GateTypes, GateState, GateRequests, Gates!Down
  <2>2. Others'
    BY <1>0, <1>w, <1>20 DEF Gates!BeginShutdown, ClaimedBefore, EarlyBefore, RunningEarly, Gates!UnclaimedIsUntouched,
        Past, GateState, GateRequests, Gates!Down
  <2>3. c1'.executions <= c1.executions /\ GateStarted \subseteq GateStarted'
    BY <1>0, <1>20 DEF Gates!BeginShutdown, GateStarted, GateState, GateRequests, Gates!Down
  <2> QED BY <2>1, <2>2, <2>3, GateCountKept DEF GateInv
<1>21. ASSUME Gates!Crash PROVE GateInv'
  <2>1. /\ c2' = [q \in Requests |-> [c2[q] EXCEPT !.pc = IF @ = "idle" THEN @ ELSE "lost"]]
        /\ c1' = [c1 EXCEPT !.state = "Healthy", !.closed = FALSE, !.running = {}, !.flush = "none",
                            !.tag = Gates!Default, !.executions = 0, !.boots = 1,
                            !.claim = IF @ = "Released" THEN "Unclaimed" ELSE @]
    BY <1>21 DEF Gates!Crash
  <2>2. c1' \in GateState BY <1>0, <2>1 DEF GateState
  <2>3. c2' \in GateRequests BY <1>0, <2>1 DEF GateRequests
  <2>4. /\ c1'.running = {} /\ c1'.executions = 0 /\ c1'.limit = c1.limit /\ c1'.wrote = c1.wrote
        /\ c1.claim = "Claimed" <=> c1'.claim = "Claimed"
    BY <1>0, <2>1 DEF GateState
  <2>5. \A q \in Requests : c2'[q].pc \in {"idle", "lost"} BY <1>0, <2>1 DEF GateRequests
  <2>6. Others'
    BY <1>0, <2>4, <2>5
       DEF ClaimedBefore, EarlyBefore, RunningEarly, Gates!UnclaimedIsUntouched, Past
  <2>7. Cardinality(GateStarted') \in Nat
    <3>1. GateStarted' \subseteq Requests BY DEF GateStarted
    <3> QED BY <3>1, FS_Subset, FS_CardinalityType
  <2>8. GateCounts' BY <2>4, <2>7 DEF GateCounts
  <2> QED BY <2>2, <2>3, <2>6, <2>8 DEF GateInv, GateTypes
<1> QED
  BY <1>1, <1>2, <1>3, <1>4, <1>5, <1>6, <1>7, <1>8, <1>9, <1>10, <1>11, <1>12, <1>13, <1>14, <1>15, <1>16, <1>17, <1>18, <1>19, <1>20, <1>21
     DEF Gates!AdmissionNext

(* The invariant of the gates is strong enough.                            *)
LEMMA GateInvImplies ==
  ASSUME IsFiniteSet(Requests), GateInv
  PROVE  Gates!AdmissionTypeOK /\ Gates!GatesHold
<1>1. c1 \in GateState BY DEF GateInv, GateTypes
<1>2. c1.executions \in 0..Cardinality(Requests)
  <2>1. GateStarted \subseteq Requests BY DEF GateStarted
  <2>2. /\ Cardinality(GateStarted) \in Nat /\ Cardinality(Requests) \in Nat
        /\ Cardinality(GateStarted) <= Cardinality(Requests)
    BY <2>1, FS_Subset, FS_CardinalityType
  <2> QED BY <1>1, <2>2 DEF GateInv, GateCounts, GateState
<1>3. Gates!AdmissionTypeOK
  <2>1. /\ c1.claim \in {"Unclaimed", "Claimed", "Released"}
        /\ c1.tag \in Executions \cup {Gates!Default} /\ c1.running \subseteq GateWork
    BY <1>1 DEF GateState
  <2> QED BY <1>2, <2>1 DEF Gates!AdmissionTypeOK, GateWork, Gates!Cardinality, Cardinality
<1>4. Gates!GatesHold
  BY DEF Gates!GatesHold, Gates!StoppedStaysStopped, GateInv, RunningEarly
<1> QED BY <1>3, <1>4

GatesPart == part = "gates" => GateInv

(* The gates of the dispatcher hold at the act and not only at the look,   *)
(* for any set of requests in flight and any commands (runtime.rs dispatch *)
(* and dispatch_streaming, unclaimed.rs): an unclaimed standby is written  *)
(* by no command, and what runs after the final flush stopped the writers  *)
(* was let in before admission closed.                                     *)
THEOREM GatesCorrect == ControlSpec => []GatesHold
<1>0. IsFiniteSet(Requests) BY PartConstants
<1>1. ControlInit => GatesPart
  BY <1>0, GateInitial DEF ControlInit, GatesPart
<1>2. GatesPart /\ [ControlNext]_controlVars => GatesPart'
  <2> SUFFICES ASSUME GatesPart, [ControlNext]_controlVars, part' = "gates" PROVE GateInv'
    BY DEF GatesPart
  <2>1. part = "gates" BY DEF ControlNext, controlVars
  <2>2. GateInv BY <2>1 DEF GatesPart
  <2>3. CASE Gates!AdmissionNext BY <1>0, <2>2, <2>3, GateStep
  <2>4. CASE UNCHANGED <<c1, c2>>
    BY <2>2, <2>4 DEF GateInv, GateTypes, ClaimedBefore, EarlyBefore, RunningEarly, GateCounts,
                      GateStarted, Gates!UnclaimedIsUntouched, Gates!Limit
  <2> QED BY <2>1, <2>3, <2>4 DEF ControlNext, controlVars, From1, From2
<1>3. GatesPart => GatesHold
  BY <1>0, GateInvImplies DEF GatesPart, GatesHold
<1> QED BY <1>1, <1>2, <1>3, PTL DEF ControlSpec

-------------------------------------------------------------------------------
(* Listener.                                                               *)

FrontStates == {"off", "bind", "accept", "drain", "failed", "closed"}
TaskStates == {"away", "backlog", "handshake", "serving", "unwind", "ended"}

ListenTypes ==
  /\ c1 \in [{"unix", "wss"} -> FrontStates]
  /\ c2 \in [Peers -> TaskStates]
  /\ c3 \in [Peers -> {"none", "refused", "rejected", "timedout", "left", "closed", "aborted"}]
  /\ c4 \in [Peers -> {"none", "queued", "sent"}]
  /\ c5 \in [shutdown : BOOLEAN, resolved : BOOLEAN]
  /\ c6 \in [wss : BOOLEAN, on : [Peers -> {"unix", "wss"}],
              how : [Peers -> {"admitted", "stuck", "stranger", "silent", "elsewhere"}], faults : Nat]
  /\ \A p \in Peers : c6.how[p] \in {"silent", "elsewhere"} => c6.on[p] = "wss"

(* A connection that is served was admitted, is of a frontend that has not *)
(* closed, and only such a one has a reply.                                *)
Admitted ==
  \A p \in Peers :
    /\ c2[p] \in {"serving", "unwind"} => c6.how[p] \in {"admitted", "stuck"}
    /\ c2[p] = "handshake" => c6.on[p] = "wss"
    /\ c2[p] \in {"handshake", "serving", "unwind"} => c1[c6.on[p]] \in {"accept", "drain"}
    /\ c4[p] # "none" => c2[p] \in {"serving", "unwind", "ended"}
    /\ c2[p] = "ended" /\ c4[p] = "queued" => c3[p] \in {"left", "aborted"}

ResolvedLate ==
  c5.resolved => c1["unix"] \in {"closed", "failed"} /\ c1["wss"] \in {"closed", "off"}

WssTasks == {p \in Peers : c6.on[p] = "wss" /\ c2[p] \in {"handshake", "serving", "unwind"}}

ListenInv ==
  ListenTypes /\ Admitted /\ ResolvedLate /\ Cardinality(WssTasks) <= MaxConnections

(* The operator of the instance is the one of the library.                 *)
LEMMA ListenCardinality == \A S : Listeners!Cardinality(S) = Cardinality(S)
BY DEF Listeners!Cardinality, Cardinality

(* What the constants of the frontends are.                                *)
LEMMA ListenConstant ==
  /\ IsFiniteSet(Peers) /\ MaxConnections \in Nat
  /\ ListenLimits \subseteq [wss : BOOLEAN, on : [Peers -> {"unix", "wss"}],
                              how : [Peers -> {"admitted", "stuck", "stranger", "silent", "elsewhere"}],
                              faults : Nat]
  /\ \A l \in ListenLimits : \A p \in Peers : l.how[p] \in {"silent", "elsewhere"} => l.on[p] = "wss"
BY PartConstants DEF Listeners!ListenConstants, Listeners!IsFiniteSet, IsFiniteSet

(* The invariant holds before anything is bound.                           *)
LEMMA ListenInitial ==
  ASSUME Listeners!ListenInit
  PROVE  ListenInv
<1> USE DEF Listeners!ListenInit
<1>1. ListenTypes BY ListenConstant DEF ListenTypes, FrontStates, TaskStates
<1>2. Admitted /\ ResolvedLate BY DEF Admitted, ResolvedLate
<1>3. WssTasks = {} BY DEF WssTasks
<1>4. Cardinality(WssTasks) <= MaxConnections BY <1>3, ListenConstant, FS_EmptySet
<1> QED BY <1>1, <1>2, <1>4 DEF ListenInv

(* Only an accept of the WebSocket frontend adds a connection.             *)
LEMMA ListenTasksKept ==
  ASSUME ListenInv, WssTasks' \subseteq WssTasks
  PROVE  Cardinality(WssTasks') <= MaxConnections
<1>1. WssTasks \subseteq Peers BY DEF WssTasks
<1>2. IsFiniteSet(WssTasks) BY <1>1, ListenConstant, FS_Subset
<1>3. /\ Cardinality(WssTasks) \in Nat /\ Cardinality(WssTasks') \in Nat
      /\ Cardinality(WssTasks') <= Cardinality(WssTasks)
  BY <1>2, FS_Subset, FS_CardinalityType
<1> QED BY <1>3, ListenConstant DEF ListenInv

(* Every step of the frontends keeps the invariant.                        *)
LEMMA ListenStep ==
  ASSUME ListenInv, Listeners!ListenNext
  PROVE  ListenInv'
<1> USE DEF Listeners!End, Listeners!Moves, Listeners!Faults, Listeners!On, Listeners!Tasks,
            Listeners!Live, TaskStates, FrontStates
<1>0. ListenTypes /\ Admitted /\ ResolvedLate BY DEF ListenInv
<1> SUFFICES /\ ListenTypes' /\ Admitted' /\ ResolvedLate'
             /\ WssTasks' \subseteq WssTasks \/ Cardinality(WssTasks') <= MaxConnections
  BY ListenTasksKept DEF ListenInv
<1>1. ASSUME NEW p \in Peers, Listeners!Connects(p)
      PROVE  /\ ListenTypes' /\ Admitted' /\ ResolvedLate'
             /\ WssTasks' \subseteq WssTasks
  <2>1. ListenTypes' BY <1>0, <1>1 DEF Listeners!Connects, ListenTypes
  <2>2. Admitted' BY <1>0, <1>1 DEF Listeners!Connects, ListenTypes, Admitted
  <2>3. ResolvedLate' BY <1>0, <1>1 DEF Listeners!Connects, ListenTypes, ResolvedLate
  <2>4. WssTasks' \subseteq WssTasks BY <1>0, <1>1 DEF Listeners!Connects, ListenTypes, WssTasks
  <2> QED BY <2>1, <2>2, <2>3, <2>4
<1>2. ASSUME NEW p \in Peers, Listeners!AcceptFails(p)
      PROVE  /\ ListenTypes' /\ Admitted' /\ ResolvedLate'
             /\ WssTasks' \subseteq WssTasks
  <2>1. ListenTypes' BY <1>0, <1>2 DEF Listeners!AcceptFails, ListenTypes
  <2>2. Admitted' BY <1>0, <1>2 DEF Listeners!AcceptFails, ListenTypes, Admitted
  <2>3. ResolvedLate' BY <1>0, <1>2 DEF Listeners!AcceptFails, ListenTypes, ResolvedLate
  <2>4. WssTasks' \subseteq WssTasks BY <1>0, <1>2 DEF Listeners!AcceptFails, ListenTypes, WssTasks
  <2> QED BY <2>1, <2>2, <2>3, <2>4
<1>3. ASSUME NEW p \in Peers, Listeners!AcceptUnix(p)
      PROVE  /\ ListenTypes' /\ Admitted' /\ ResolvedLate'
             /\ WssTasks' \subseteq WssTasks
  <2>1. ListenTypes' BY <1>0, <1>3 DEF Listeners!AcceptUnix, ListenTypes
  <2>2. Admitted' BY <1>0, <1>3 DEF Listeners!AcceptUnix, ListenTypes, Admitted
  <2>3. ResolvedLate' BY <1>0, <1>3 DEF Listeners!AcceptUnix, ListenTypes, ResolvedLate
  <2>4. WssTasks' \subseteq WssTasks BY <1>0, <1>3 DEF Listeners!AcceptUnix, ListenTypes, WssTasks
  <2> QED BY <2>1, <2>2, <2>3, <2>4
<1>4. ASSUME NEW p \in Peers, Listeners!AcceptWss(p)
      PROVE  /\ ListenTypes' /\ Admitted' /\ ResolvedLate'
             /\ WssTasks' \subseteq WssTasks \/ Cardinality(WssTasks') <= MaxConnections
  <2>1. ListenTypes' BY <1>0, <1>4 DEF Listeners!AcceptWss, ListenTypes
  <2>2. Admitted' BY <1>0, <1>4 DEF Listeners!AcceptWss, ListenTypes, Admitted
  <2>3. ResolvedLate' BY <1>0, <1>4 DEF Listeners!AcceptWss, ListenTypes, ResolvedLate
  <2>4. CASE Cardinality(WssTasks) >= MaxConnections
    <3>1. WssTasks' \subseteq WssTasks
      BY <1>0, <1>4, <2>4, ListenCardinality DEF Listeners!AcceptWss, ListenTypes, WssTasks
    <3> QED BY <2>1, <2>2, <2>3, <3>1
  <2>5. CASE ~(Cardinality(WssTasks) >= MaxConnections)
    <3>1. WssTasks' = WssTasks \cup {p}
      BY <1>0, <1>4, <2>5, ListenCardinality DEF Listeners!AcceptWss, ListenTypes, WssTasks
    <3>2. p \notin WssTasks BY <1>4 DEF Listeners!AcceptWss, WssTasks
    <3>3. IsFiniteSet(WssTasks)
      <4>1. WssTasks \subseteq Peers BY DEF WssTasks
      <4> QED BY <4>1, ListenConstant, FS_Subset
    <3>4. Cardinality(WssTasks) \in Nat /\ Cardinality(WssTasks') = Cardinality(WssTasks) + 1
      BY <3>1, <3>2, <3>3, FS_AddElement, FS_CardinalityType
    <3> QED BY <2>1, <2>2, <2>3, <2>5, <3>4, ListenConstant
  <2> QED BY <2>4, <2>5
<1>5. ASSUME NEW p \in Peers, Listeners!Handshake(p)
      PROVE  /\ ListenTypes' /\ Admitted' /\ ResolvedLate'
             /\ WssTasks' \subseteq WssTasks
  <2>1. ListenTypes' BY <1>0, <1>5 DEF Listeners!Handshake, ListenTypes
  <2>2. Admitted' BY <1>0, <1>5 DEF Listeners!Handshake, ListenTypes, Admitted
  <2>3. ResolvedLate' BY <1>0, <1>5 DEF Listeners!Handshake, ListenTypes, ResolvedLate
  <2>4. WssTasks' \subseteq WssTasks BY <1>0, <1>5 DEF Listeners!Handshake, ListenTypes, WssTasks
  <2> QED BY <2>1, <2>2, <2>3, <2>4
<1>6. ASSUME NEW p \in Peers, Listeners!HandshakeTimeout(p)
      PROVE  /\ ListenTypes' /\ Admitted' /\ ResolvedLate'
             /\ WssTasks' \subseteq WssTasks
  <2>1. ListenTypes' BY <1>0, <1>6 DEF Listeners!HandshakeTimeout, ListenTypes
  <2>2. Admitted' BY <1>0, <1>6 DEF Listeners!HandshakeTimeout, ListenTypes, Admitted
  <2>3. ResolvedLate' BY <1>0, <1>6 DEF Listeners!HandshakeTimeout, ListenTypes, ResolvedLate
  <2>4. WssTasks' \subseteq WssTasks BY <1>0, <1>6 DEF Listeners!HandshakeTimeout, ListenTypes, WssTasks
  <2> QED BY <2>1, <2>2, <2>3, <2>4
<1>7. ASSUME NEW p \in Peers, Listeners!Answers(p)
      PROVE  /\ ListenTypes' /\ Admitted' /\ ResolvedLate'
             /\ WssTasks' \subseteq WssTasks
  <2>1. ListenTypes' BY <1>0, <1>7 DEF Listeners!Answers, ListenTypes
  <2>2. Admitted' BY <1>0, <1>7 DEF Listeners!Answers, ListenTypes, Admitted
  <2>3. ResolvedLate' BY <1>0, <1>7 DEF Listeners!Answers, ListenTypes, ResolvedLate
  <2>4. WssTasks' \subseteq WssTasks BY <1>0, <1>7 DEF Listeners!Answers, ListenTypes, WssTasks
  <2> QED BY <2>1, <2>2, <2>3, <2>4
<1>8. ASSUME NEW p \in Peers, Listeners!Sends(p)
      PROVE  /\ ListenTypes' /\ Admitted' /\ ResolvedLate'
             /\ WssTasks' \subseteq WssTasks
  <2>1. ListenTypes' BY <1>0, <1>8 DEF Listeners!Sends, ListenTypes
  <2>2. Admitted' BY <1>0, <1>8 DEF Listeners!Sends, ListenTypes, Admitted
  <2>3. ResolvedLate' BY <1>0, <1>8 DEF Listeners!Sends, ListenTypes, ResolvedLate
  <2>4. WssTasks' \subseteq WssTasks BY <1>0, <1>8 DEF Listeners!Sends, ListenTypes, WssTasks
  <2> QED BY <2>1, <2>2, <2>3, <2>4
<1>9. ASSUME NEW p \in Peers, Listeners!PeerLeaves(p)
      PROVE  /\ ListenTypes' /\ Admitted' /\ ResolvedLate'
             /\ WssTasks' \subseteq WssTasks
  <2>1. ListenTypes' BY <1>0, <1>9 DEF Listeners!PeerLeaves, ListenTypes
  <2>2. Admitted' BY <1>0, <1>9 DEF Listeners!PeerLeaves, ListenTypes, Admitted
  <2>3. ResolvedLate' BY <1>0, <1>9 DEF Listeners!PeerLeaves, ListenTypes, ResolvedLate
  <2>4. WssTasks' \subseteq WssTasks BY <1>0, <1>9 DEF Listeners!PeerLeaves, ListenTypes, WssTasks
  <2> QED BY <2>1, <2>2, <2>3, <2>4
<1>10. ASSUME NEW p \in Peers, Listeners!Unwinds(p)
      PROVE  /\ ListenTypes' /\ Admitted' /\ ResolvedLate'
             /\ WssTasks' \subseteq WssTasks
  <2>1. ListenTypes' BY <1>0, <1>10 DEF Listeners!Unwinds, ListenTypes
  <2>2. Admitted' BY <1>0, <1>10 DEF Listeners!Unwinds, ListenTypes, Admitted
  <2>3. ResolvedLate' BY <1>0, <1>10 DEF Listeners!Unwinds, ListenTypes, ResolvedLate
  <2>4. WssTasks' \subseteq WssTasks BY <1>0, <1>10 DEF Listeners!Unwinds, ListenTypes, WssTasks
  <2> QED BY <2>1, <2>2, <2>3, <2>4
<1>11. ASSUME NEW p \in Peers, Listeners!Unwound(p)
      PROVE  /\ ListenTypes' /\ Admitted' /\ ResolvedLate'
             /\ WssTasks' \subseteq WssTasks
  <2>1. ListenTypes' BY <1>0, <1>11 DEF Listeners!Unwound, ListenTypes
  <2>2. Admitted' BY <1>0, <1>11 DEF Listeners!Unwound, ListenTypes, Admitted
  <2>3. ResolvedLate' BY <1>0, <1>11 DEF Listeners!Unwound, ListenTypes, ResolvedLate
  <2>4. WssTasks' \subseteq WssTasks BY <1>0, <1>11 DEF Listeners!Unwound, ListenTypes, WssTasks
  <2> QED BY <2>1, <2>2, <2>3, <2>4
<1>12. ASSUME NEW f \in {"unix", "wss"}, Listeners!Drain(f)
      PROVE  /\ ListenTypes' /\ Admitted' /\ ResolvedLate'
             /\ WssTasks' \subseteq WssTasks
  <2>1. ListenTypes' BY <1>0, <1>12 DEF Listeners!Drain, ListenTypes
  <2>2. Admitted' BY <1>0, <1>12 DEF Listeners!Drain, ListenTypes, Admitted
  <2>3. ResolvedLate' BY <1>0, <1>12 DEF Listeners!Drain, ListenTypes, ResolvedLate
  <2>4. WssTasks' \subseteq WssTasks BY <1>0, <1>12 DEF Listeners!Drain, ListenTypes, WssTasks
  <2> QED BY <2>1, <2>2, <2>3, <2>4
<1>13. ASSUME NEW f \in {"unix", "wss"}, Listeners!Drained(f)
      PROVE  /\ ListenTypes' /\ Admitted' /\ ResolvedLate'
             /\ WssTasks' \subseteq WssTasks
  <2>1. ListenTypes' BY <1>0, <1>13 DEF Listeners!Drained, ListenTypes
  <2>2. Admitted' BY <1>0, <1>13 DEF Listeners!Drained, ListenTypes, Admitted
  <2>3. ResolvedLate' BY <1>0, <1>13 DEF Listeners!Drained, ListenTypes, ResolvedLate
  <2>4. WssTasks' \subseteq WssTasks BY <1>0, <1>13 DEF Listeners!Drained, ListenTypes, WssTasks
  <2> QED BY <2>1, <2>2, <2>3, <2>4
<1>14. ASSUME NEW f \in {"unix", "wss"}, Listeners!GraceEnds(f)
      PROVE  /\ ListenTypes' /\ Admitted' /\ ResolvedLate'
             /\ WssTasks' \subseteq WssTasks
  <2>1. ListenTypes' BY <1>0, <1>14 DEF Listeners!GraceEnds, ListenTypes
  <2>2. Admitted' BY <1>0, <1>14 DEF Listeners!GraceEnds, ListenTypes, Admitted
  <2>3. ResolvedLate' BY <1>0, <1>14 DEF Listeners!GraceEnds, ListenTypes, ResolvedLate
  <2>4. WssTasks' \subseteq WssTasks BY <1>0, <1>14 DEF Listeners!GraceEnds, ListenTypes, WssTasks
  <2> QED BY <2>1, <2>2, <2>3, <2>4
<1>15. ASSUME Listeners!BindUnix
      PROVE  /\ ListenTypes' /\ Admitted' /\ ResolvedLate'
             /\ WssTasks' \subseteq WssTasks
  <2>0. /\ c6'.on = c6.on /\ c6'.how = c6.how /\ UNCHANGED <<c2, c3, c4, c5>>
        /\ c1' \in [{"unix", "wss"} -> FrontStates] /\ c1'["wss"] = c1["wss"]
        /\ c1["unix"] = "bind"
    <3>1. c6'.on = c6.on /\ c6'.how = c6.how /\ UNCHANGED <<c2, c3, c4, c5>>
      BY <1>0, <1>15 DEF Listeners!BindUnix, ListenTypes
    <3>2. CASE c1' = [c1 EXCEPT !.unix = "accept"]
      BY <1>0, <1>15, <3>1, <3>2 DEF ListenTypes, Listeners!BindUnix
    <3>3. CASE c1' = [c1 EXCEPT !.unix = "failed"]
      BY <1>0, <1>15, <3>1, <3>3 DEF ListenTypes, Listeners!BindUnix
    <3>4. c1' = [c1 EXCEPT !.unix = "accept"] \/ c1' = [c1 EXCEPT !.unix = "failed"]
      BY <1>15, Zenon DEF Listeners!BindUnix
    <3> HIDE DEF FrontStates
    <3> QED BY <3>2, <3>3, <3>4, Zenon
  <2>1. ListenTypes'
    <3>1. c6' \in [wss : BOOLEAN, on : [Peers -> {"unix", "wss"}],
              how : [Peers -> {"admitted", "stuck", "stranger", "silent", "elsewhere"}], faults : Nat]
      BY <1>0, <1>15 DEF ListenTypes, Listeners!BindUnix
    <3> QED BY <1>0, <2>0, <3>1 DEF ListenTypes
  <2>2. Admitted' BY <1>0, <2>0 DEF ListenTypes, Admitted
  <2>3. ResolvedLate' BY <1>0, <2>0 DEF ListenTypes, ResolvedLate
  <2>4. WssTasks' \subseteq WssTasks BY <2>0 DEF WssTasks
  <2> QED BY <2>1, <2>2, <2>3, <2>4
<1>16. ASSUME Listeners!Signal
      PROVE  /\ ListenTypes' /\ Admitted' /\ ResolvedLate'
             /\ WssTasks' \subseteq WssTasks
  <2>1. ListenTypes' BY <1>0, <1>16 DEF Listeners!Signal, ListenTypes
  <2>2. Admitted' BY <1>0, <1>16 DEF Listeners!Signal, ListenTypes, Admitted
  <2>3. ResolvedLate' BY <1>0, <1>16 DEF Listeners!Signal, ListenTypes, ResolvedLate
  <2>4. WssTasks' \subseteq WssTasks BY <1>0, <1>16 DEF Listeners!Signal, ListenTypes, WssTasks
  <2> QED BY <2>1, <2>2, <2>3, <2>4
<1>17. ASSUME Listeners!Resolves
      PROVE  /\ ListenTypes' /\ Admitted' /\ ResolvedLate'
             /\ WssTasks' \subseteq WssTasks
  <2>1. ListenTypes' BY <1>0, <1>17 DEF Listeners!Resolves, ListenTypes
  <2>2. Admitted' BY <1>0, <1>17 DEF Listeners!Resolves, ListenTypes, Admitted
  <2>3. ResolvedLate' BY <1>0, <1>17 DEF Listeners!Resolves, ListenTypes, ResolvedLate
  <2>4. WssTasks' \subseteq WssTasks BY <1>0, <1>17 DEF Listeners!Resolves, ListenTypes, WssTasks
  <2> QED BY <2>1, <2>2, <2>3, <2>4
<1> QED
  BY <1>1, <1>2, <1>3, <1>4, <1>5, <1>6, <1>7, <1>8, <1>9, <1>10, <1>11, <1>12, <1>13, <1>14, <1>15, <1>16, <1>17
     DEF Listeners!ListenNext, Listeners!Serve, Listeners!Served, Listeners!Frontends

(* The invariant is strong enough.                                         *)
LEMMA ListenInvImplies ==
  ASSUME ListenInv
  PROVE  Listeners!ListenerHolds
<1>1. Listeners!Tasks("wss") = WssTasks
  BY DEF Listeners!Tasks, Listeners!On, Listeners!Live, WssTasks
<1>2. Listeners!Cardinality(Listeners!Tasks("wss")) <= MaxConnections
  BY <1>1, ListenCardinality DEF ListenInv
<1>3. c5.resolved => \A p \in Peers : c2[p] \notin Listeners!Live
  BY DEF ListenInv, ListenTypes, Admitted, ResolvedLate, Listeners!Live
<1> QED
  BY <1>2, <1>3 DEF Listeners!ListenerHolds, ListenInv, Admitted, Listeners!Live, Listeners!On

-------------------------------------------------------------------------------
(* Connection.                                                             *)

Frames == [id : 0..MaxFrames, kind : Kinds \cup {"plain"}, ch : 0..MaxFrames]
Parts == [part : {"head", "body"}, frame : Frames]
OutFrames == [type : {"response", "stream", "event"}, id : 0..MaxFrames]
Pcs == {"select", "handle", "route", "reply", "cancel", "join", "close", "await", "done", "aborted"}
Phases == {"serving", "requested", "announced", "stopping", "over"}
BesideStates == {"check", "dial", "sink", "closer", "reply", "done"}

ChannelKinds == {"none", "forward", "sftp", "attach", "exec"}

PeerTypes ==
  /\ c1 \in [sent : 0..MaxFrames, half : Frames, shut : BOOLEAN, gone : BOOLEAN, reads : BOOLEAN]
  /\ c2 \in Seq(Parts) /\ c5 \in Frames /\ c4 \in Frames
ReaderTypes ==
  /\ c3 \in Pcs /\ c19 \in Phases
  /\ {c15, c16, c17, c22} \subseteq BOOLEAN
  /\ c3 \in {"handle", "reply"} => c4.id \in Connection!Ids
ChannelTypes ==
  /\ c6 \in [Connection!Ids -> ChannelKinds]
  /\ c8 \subseteq Connection!Ids /\ c9 \subseteq c8
  /\ c10 \subseteq Connection!Ids /\ c11 \subseteq Connection!Ids /\ c13 \subseteq Connection!Ids
  /\ c12 \in [Connection!Ids -> 0..InCapacity]
BesideTypes == DOMAIN c7 \subseteq Connection!Ids /\ \A r \in DOMAIN c7 : c7[r] \in BesideStates
OutTypes ==
  /\ c14 \in Seq(OutFrames) /\ Len(c14) <= OutCapacity /\ c18 \in 0..MaxOutput
  /\ c20 \subseteq Connection!Ids /\ c21 \in Seq(Connection!Ids)

(* Frames are read in the order they were sent, none twice: what is on the *)
(* wire is newer than what was read.                                       *)
Newer(n, rs) == \A r \in rs : r < n
IsHead(i) == c2[i].part = "head"
WireFresh ==
  /\ \A r \in c20 : r <= c1.sent
  /\ c5 # Connection!NoFrame => c5.id \in Connection!Ids /\ c5.id <= c1.sent /\ Newer(c5.id, c20)
  /\ \A i \in 1..Len(c2) : IsHead(i) =>
       /\ c2[i].frame.id \in Connection!Ids /\ c2[i].frame.id <= c1.sent
       /\ Newer(c2[i].frame.id, c20)
       /\ c5 # Connection!NoFrame => c5.id < c2[i].frame.id
  /\ \A i, j \in 1..Len(c2) :
       i < j /\ IsHead(i) /\ IsHead(j) => c2[i].frame.id < c2[j].frame.id

(* A request read is being handled, opens beside the reader, has its       *)
(* response queued, or was answered, and no two of these.                  *)
Asked == IF c3 \in {"handle", "reply"} THEN {c4.id} ELSE {}
Opening == {r \in DOMAIN c7 : c7[r] # "done"}
IsResponse(i) == c14[i].type = "response"
Queued == {c14[i].id : i \in {j \in 1..Len(c14) : IsResponse(j)}}
AnswerOnce ==
  /\ Asked \subseteq c20 /\ DOMAIN c7 \subseteq c20
  /\ Asked \cap DOMAIN c7 = {} /\ Asked \cap Connection!Told = {} /\ Opening \cap Connection!Told = {}
  /\ \A i \in 1..Len(c14) : IsResponse(i) =>
       c14[i].id \in c20 /\ c14[i].id \notin Asked \cup Opening \cup Connection!Told
  /\ \A i, j \in 1..Len(c14) :
       IsResponse(i) /\ IsResponse(j) /\ c14[i].id = c14[j].id => i = j
  /\ \A i, j \in 1..Len(c21) : c21[i] = c21[j] => i = j
  /\ Connection!Told \subseteq c20
AnswerKept ==
  c3 # "aborted" /\ ~c1.gone => c20 \subseteq Connection!Told \cup Queued \cup Asked \cup Opening

(* The writer ends only with its peer, or once nobody can send.            *)
WriterLast ==
  /\ ~c15 => c14 = << >>
  /\ ~c15 /\ ~c1.gone =>
       c3 \in {"await", "done", "aborted"} /\ DOMAIN c7 = {} /\ c9 = {} /\ ~c16
  /\ c3 = "done" => ~c15
  /\ c3 \in {"close", "await", "done"} => DOMAIN c7 = {}

(* A channel is opened once, under the id of a request that was read.      *)
OpenedOnce ==
  \A c \in Connection!Ids : c6[c] # "none" =>
    /\ c \in c20
    /\ c3 = "handle" => c # c4.id
    /\ c \in DOMAIN c7 => c7[c] \notin {"check", "dial"}
Matches(f,
     kinds) == f.kind \in DOMAIN Connection!Closes => f.ch \in Connection!Ids /\ kinds[f.ch] = Connection!Closes[f.kind]
CloseMatches ==
  ~Mismatched =>
    /\ Matches(c1.half, c6) /\ Matches(c5, c6)
    /\ c3 = "handle" => Matches(c4, c6)
    /\ \A i \in 1..Len(c2) : Matches(c2[i].frame, c6)
(* Every channel has a closer, or will have it before the open is joined.  *)
HasCloser ==
  ~Mismatched =>
    \A c \in c8 :
      \/ c3 = "aborted"
      \/ c3 \in {"await", "done"} /\ c6[c] = "exec" /\ c \in c13
      \/ c3 \notin {"await", "done"} /\ c \in c11
      \/ c \in DOMAIN c7 /\ c7[c] \in {"sink", "closer"}

ConnInv ==
  /\ PeerTypes /\ ReaderTypes /\ ChannelTypes /\ BesideTypes /\ OutTypes
  /\ WireFresh /\ AnswerOnce /\ AnswerKept /\ WriterLast
  /\ OpenedOnce /\ CloseMatches /\ HasCloser

(* What the constants of the connection are.                               *)
LEMMA ConnConstant ==
  /\ MaxFrames \in Nat /\ MaxOutput \in Nat /\ OutCapacity \in Nat /\ InCapacity \in Nat
  /\ OutCapacity > 0 /\ InCapacity > 0
  /\ Connection!NoFrame \in Frames /\ Connection!NoFrame.id = 0 /\ Connection!NoFrame.kind = "plain"
  /\ DOMAIN Connection!Closes = {"closeForward", "closeSftp", "detachSession"}
  /\ \A k \in DOMAIN Connection!Closes : Connection!Closes[k] \in {"forward", "sftp", "attach"}
<1>1. /\ MaxFrames \in Nat /\ MaxOutput \in Nat /\ OutCapacity \in Nat /\ InCapacity \in Nat
      /\ OutCapacity > 0 /\ InCapacity > 0
  BY PartConstants DEF Connection!ConnectionConstants
<1>2. Connection!NoFrame \in Frames /\ Connection!NoFrame.id = 0 /\ Connection!NoFrame.kind = "plain" BY <1>1 DEF Connection!NoFrame, Frames
<1>3. /\ DOMAIN Connection!Closes = {"closeForward", "closeSftp", "detachSession"}
      /\ \A k \in DOMAIN Connection!Closes : Connection!Closes[k] \in {"forward", "sftp", "attach"}
  BY DEF Connection!Closes
<1> QED BY <1>1, <1>2, <1>3

(* What appending two elements makes of a sequence.                        *)
LEMMA SeqTwo ==
  ASSUME NEW S, NEW s \in Seq(S), NEW a \in S, NEW b \in S
  PROVE  /\ s \o <<a, b>> \in Seq(S) /\ Len(s \o <<a, b>>) = Len(s) + 2
         /\ \A i \in 1..Len(s) : (s \o <<a, b>>)[i] = s[i]
         /\ (s \o <<a, b>>)[Len(s) + 1] = a /\ (s \o <<a, b>>)[Len(s) + 2] = b
OBVIOUS

(* What appending one element makes of a sequence.                         *)
LEMMA SeqOne ==
  ASSUME NEW S, NEW s \in Seq(S), NEW a \in S
  PROVE  /\ Append(s, a) \in Seq(S) /\ Len(Append(s, a)) = Len(s) + 1
         /\ \A i \in 1..Len(s) : Append(s, a)[i] = s[i]
         /\ Append(s, a)[Len(s) + 1] = a
OBVIOUS

(* What is left of a sequence without its first two elements.              *)
LEMMA SeqDropTwo ==
  ASSUME NEW S, NEW s \in Seq(S), Len(s) >= 2
  PROVE  /\ SubSeq(s, 3, Len(s)) \in Seq(S) /\ Len(SubSeq(s, 3, Len(s))) = Len(s) - 2
         /\ \A i \in 1..(Len(s) - 2) : SubSeq(s, 3, Len(s))[i] = s[i + 2]
<1>1. Len(s) \in Nat OBVIOUS
<1>2. SubSeq(s, 3, Len(s)) \in Seq(S) BY <1>1
<1>3. Len(SubSeq(s, 3, Len(s))) = Len(s) - 2
  <2>1. CASE Len(s) = 2 BY <2>1
  <2>2. CASE Len(s) > 2 BY <1>1, <2>2
  <2> QED BY <1>1, <2>1, <2>2
<1>4. \A i \in 1..(Len(s) - 2) : SubSeq(s, 3, Len(s))[i] = s[i + 2] BY <1>1
<1> QED BY <1>2, <1>3, <1>4

(* What is left of a sequence without its first element.                   *)
LEMMA SeqDropOne ==
  ASSUME NEW S, NEW s \in Seq(S), s # << >>
  PROVE  /\ Tail(s) \in Seq(S) /\ Len(s) \in Nat \ {0} /\ Len(Tail(s)) = Len(s) - 1
         /\ \A i \in 1..(Len(s) - 1) : Tail(s)[i] = s[i + 1]
         /\ Head(s) = s[1]
OBVIOUS

(* What is queued and was not a response leaves the answers as they are.   *)
LEMMA QueueOther ==
  ASSUME ConnInv, NEW x \in OutFrames, x.type # "response", Len(c14) < OutCapacity,
         c14' = Append(c14, x), UNCHANGED <<c20, c21, c3, c4, c7, c1>>
  PROVE  /\ c14' \in Seq(OutFrames) /\ Len(c14') <= OutCapacity
         /\ AnswerOnce' /\ AnswerKept'
<1>1. c14 \in Seq(OutFrames) BY DEF ConnInv, OutTypes
<1>2. /\ c14' \in Seq(OutFrames) /\ Len(c14') = Len(c14) + 1
      /\ \A i \in 1..Len(c14) : c14'[i] = c14[i]
      /\ c14'[Len(c14) + 1] = x
  BY <1>1, SeqOne
<1>3. AnswerOnce'
  BY <1>1, <1>2 DEF ConnInv, AnswerOnce, Asked, Opening, IsResponse, Connection!Told
<1>4. Queued' = Queued
  BY <1>1, <1>2 DEF Queued, IsResponse
<1>5. AnswerKept'
  BY <1>4 DEF ConnInv, AnswerKept, Asked, Opening, Connection!Told
<1> QED BY <1>1, <1>2, <1>3, <1>5, ConnConstant

(* A response is queued, of a request that had none.                       *)
LEMMA QueueResponse ==
  ASSUME ConnInv, NEW id \in Connection!Ids, Len(c14) < OutCapacity, c14' = Append(c14,
       Connection!Response(id)),
         UNCHANGED <<c20, c21, c4, c1>>,
         id \in Asked \cup Opening,
         (Asked \cup Opening)' = (Asked \cup Opening) \ {id},
         Asked' \subseteq Asked, DOMAIN c7' \subseteq DOMAIN c7
  PROVE  /\ c14' \in Seq(OutFrames) /\ Len(c14') <= OutCapacity
         /\ AnswerOnce'
         /\ (c3 # "aborted" => AnswerKept')
<1> DEFINE x == Connection!Response(id)
<1>1. c14 \in Seq(OutFrames) /\ x \in OutFrames /\ x.type = "response" /\ x.id = id
  BY ConnConstant DEF ConnInv, OutTypes, OutFrames, Connection!Response, Connection!Ids
<1> HIDE DEF x
<1>2. /\ c14' \in Seq(OutFrames) /\ Len(c14') = Len(c14) + 1
      /\ \A i \in 1..Len(c14) : c14'[i] = c14[i]
      /\ c14'[Len(c14) + 1] = x
  BY <1>1, SeqOne DEF x
<1>3. AnswerOnce BY DEF ConnInv
<1>4. id \in c20 /\ id \notin Connection!Told /\ Connection!Told' = Connection!Told
      /\ \A i \in 1..Len(c14) : IsResponse(i) => c14[i].id # id
  BY <1>3 DEF AnswerOnce, Opening, Connection!Told
<1>5. \A i \in 1..Len(c14') : IsResponse(i)' =>
        c14'[i].id \in c20' /\ c14'[i].id \notin (Asked \cup Opening \cup Connection!Told)'
  <2> SUFFICES ASSUME NEW i \in 1..Len(c14'), IsResponse(i)'
               PROVE  c14'[i].id \in c20' /\ c14'[i].id \notin (Asked \cup Opening \cup Connection!Told)'
    OBVIOUS
  <2>1. CASE i \in 1..Len(c14)
    BY <1>2, <1>3, <1>4, <2>1 DEF AnswerOnce, IsResponse
  <2>2. CASE i = Len(c14) + 1
    BY <1>1, <1>2, <1>4, <2>2
  <2> QED BY <1>1, <1>2, <2>1, <2>2
<1>6. \A i, j \in 1..Len(c14') :
        IsResponse(i)' /\ IsResponse(j)' /\ c14'[i].id = c14'[j].id => i = j
  <2> SUFFICES ASSUME NEW i \in 1..Len(c14'), NEW j \in 1..Len(c14'), IsResponse(i)', IsResponse(j)',
                      c14'[i].id = c14'[j].id
               PROVE  i = j
    OBVIOUS
  <2>1. CASE i \in 1..Len(c14) /\ j \in 1..Len(c14)
    BY <1>2, <1>3, <2>1 DEF AnswerOnce, IsResponse
  <2>2. CASE i = Len(c14) + 1 /\ j \in 1..Len(c14)
    BY <1>1, <1>2, <1>4, <2>2 DEF IsResponse
  <2>3. CASE j = Len(c14) + 1 /\ i \in 1..Len(c14)
    BY <1>1, <1>2, <1>4, <2>3 DEF IsResponse
  <2> QED BY <1>1, <1>2, <2>1, <2>2, <2>3
<1>7. /\ Asked' \cap DOMAIN c7' = {} /\ Asked' \cap Connection!Told' = {} /\ Opening' \cap Connection!Told' = {}
      /\ Asked' \subseteq c20' /\ DOMAIN c7' \subseteq c20'
  BY <1>3, <1>4 DEF AnswerOnce
<1>8. AnswerOnce' BY <1>3, <1>4, <1>5, <1>6, <1>7 DEF AnswerOnce
<1>9. Queued \cup {id} \subseteq Queued'
  <2>1. \A i \in 1..Len(c14) : IsResponse(i) => i \in 1..Len(c14') /\ IsResponse(i)' /\ c14'[i].id = c14[i].id
    BY <1>1, <1>2 DEF IsResponse
  <2>2. Len(c14) + 1 \in 1..Len(c14') /\ c14'[Len(c14) + 1].type = "response" /\ c14'[Len(c14) + 1].id = id
    BY <1>1, <1>2
  <2>3. Queued \subseteq Queued' BY <2>1 DEF Queued
  <2>4. id \in Queued' BY <2>2 DEF Queued, IsResponse
  <2> QED BY <2>3, <2>4
<1>10. c3 # "aborted" => AnswerKept'
  BY <1>4, <1>9 DEF ConnInv, AnswerKept
<1> QED BY <1>1, <1>2, <1>8, <1>10, ConnConstant

(* A request is read: no other has its id.                                 *)
LEMMA Takes ==
  ASSUME ConnInv, NEW f \in Frames, f.id \in Connection!Ids, Newer(f.id, c20), c3 = "select",
       Connection!Took(f),
         UNCHANGED <<c7, c14, c21, c6, c1>>
  PROVE  /\ c20' \subseteq Connection!Ids /\ c4' \in Frames /\ c5' = Connection!NoFrame
         /\ c3' \in {"route", "handle"} /\ c20 \subseteq c20' /\ c20' \subseteq c20 \cup {f.id}
         /\ AnswerOnce' /\ AnswerKept' /\ OpenedOnce'
<1>1. /\ c4' = f /\ c5' = Connection!NoFrame
      /\ \/ c3' = "route" /\ c20' = c20
         \/ c3' = "handle" /\ c20' = c20 \cup {f.id}
  BY DEF Connection!Took
<1>2. f.id \notin c20 /\ c20 \subseteq Connection!Ids
  BY DEF Newer, Connection!Ids, ConnInv, OutTypes
<1>3. Asked = {} /\ Asked' = (IF c3' = "handle" THEN {f.id} ELSE {}) /\ Opening' = Opening /\ Connection!Told' = Connection!Told
  BY <1>1 DEF Asked, Opening, Connection!Told
<1>4. AnswerOnce'
  BY <1>1, <1>2, <1>3 DEF ConnInv, AnswerOnce, Opening, IsResponse
<1>5. AnswerKept'
  <2>1. Queued' = Queued BY DEF Queued, IsResponse
  <2>2. c20' \subseteq c20 \cup Asked' BY <1>1, <1>3
  <2> QED BY <1>3, <2>1, <2>2 DEF ConnInv, AnswerKept
<1>6. OpenedOnce'
  BY <1>1, <1>2 DEF ConnInv, OpenedOnce
<1> QED BY <1>1, <1>2, <1>4, <1>5, <1>6

(* PeerSends keeps the invariant.                                          *)
LEMMA ConnPeerSends ==
  ASSUME ConnInv, NEW kind \in Kinds, NEW ch \in 0..MaxFrames, Connection!PeerSends(kind, ch)
  PROVE  ConnInv'
<1>0. PeerTypes /\ ReaderTypes /\ ChannelTypes /\ BesideTypes /\ OutTypes
      /\ WireFresh /\ AnswerOnce /\ AnswerKept /\ WriterLast /\ OpenedOnce /\ CloseMatches /\ HasCloser
  BY DEF ConnInv
<1> DEFINE f == [id |-> c1.sent + 1, kind |-> kind, ch |-> ch]
           head == [part |-> "head", frame |-> f]
           body == [part |-> "body", frame |-> f]
<1>a. f \in Frames /\ f.id = c1.sent + 1 /\ f.id \in Connection!Ids /\ f.kind = kind /\ f.ch = ch
  BY <1>0, ConnConstant DEF Connection!PeerSends, PeerTypes, Frames, Connection!Ids
<1>b. /\ head \in Parts /\ head.part = "head" /\ head.frame = f
      /\ body \in Parts /\ body.part = "body" /\ body.frame = f
  BY <1>a DEF Parts
<1>c. UNCHANGED <<Connection!reader, c7, Connection!channels, c14, Connection!tasks, c18, c19, c20, c21, c22>>
  BY DEF Connection!PeerSends
<1>d. /\ c1' \in [sent : 0..MaxFrames, half : Frames, shut : BOOLEAN, gone : BOOLEAN, reads : BOOLEAN]
      /\ c1'.sent = c1.sent + 1 /\ c1'.gone = c1.gone /\ c1'.half \in {Connection!NoFrame, f}
  <2>1. c1.half = Connection!NoFrame /\ c1.sent < MaxFrames BY DEF Connection!PeerSends
  <2>2. CASE c1' = [c1 EXCEPT !.sent = @ + 1]
    BY <1>0, <2>1, <2>2, ConnConstant DEF PeerTypes
  <2>3. CASE c1' = [c1 EXCEPT !.sent = @ + 1, !.half = f]
    <3> HIDE DEF f
    <3>1. c1'.sent = c1.sent + 1 /\ c1'.gone = c1.gone /\ c1'.half = f BY <1>0, <2>3 DEF PeerTypes
    <3>2. c1.sent + 1 \in 0..MaxFrames BY <1>0, <2>1, ConnConstant DEF PeerTypes
    <3>3. c1' \in [sent : 0..MaxFrames, half : Frames, shut : BOOLEAN, gone : BOOLEAN, reads : BOOLEAN]
      BY <1>0, <1>a, <2>3, <3>2 DEF PeerTypes
    <3> QED BY <3>1, <3>3
  <2> QED BY <2>2, <2>3 DEF Connection!PeerSends
<1>e. c2 \in Seq(Parts) BY <1>0 DEF PeerTypes
<1>f. ~Mismatched => Matches(f, c6)
  <2>1. kind \in DOMAIN Connection!Closes => ch \in Connection!Told /\ (~Mismatched => c6[ch] = Connection!Closes[kind]) BY DEF Connection!PeerSends
  <2>2. Connection!Told \subseteq Connection!Ids BY <1>0 DEF OutTypes, Connection!Told, Connection!ToSet
  <2> HIDE DEF f
  <2> QED BY <1>a, <2>1, <2>2 DEF Matches
<1> HIDE DEF f, head, body
<1>g. /\ c2' \in Seq(Parts) /\ Len(c2) \in Nat /\ Len(c2') \in Nat /\ Len(c2') >= Len(c2)
      /\ \A i \in 1..Len(c2) : c2'[i] = c2[i]
      /\ \A i \in 1..Len(c2') : i > Len(c2) =>
           c2'[i].frame = f /\ (c2'[i].part = "head" => i = Len(c2) + 1)
  <2>1. CASE c2' = c2 \o <<head, body>>
    <3>1. /\ c2' \in Seq(Parts) /\ Len(c2') = Len(c2) + 2
          /\ \A i \in 1..Len(c2) : c2'[i] = c2[i]
          /\ c2'[Len(c2) + 1] = head /\ c2'[Len(c2) + 2] = body
      BY <1>b, <1>e, <2>1, SeqTwo
    <3> QED BY <1>b, <1>e, <3>1
  <2>2. CASE c2' = Append(c2, head)
    <3>1. /\ c2' \in Seq(Parts) /\ Len(c2') = Len(c2) + 1
          /\ \A i \in 1..Len(c2) : c2'[i] = c2[i]
          /\ c2'[Len(c2) + 1] = head
      BY <1>b, <1>e, <2>2, SeqOne
    <3> QED BY <1>b, <1>e, <3>1
  <2> QED BY <2>1, <2>2 DEF Connection!PeerSends, f, head, body
<1>1. PeerTypes'
  BY <1>0, <1>c, <1>d, <1>g DEF PeerTypes, Connection!reader
<1>2. WireFresh'
  <2>1. c1.sent \in Nat /\ c5' = c5 /\ c20' = c20
    BY <1>0, <1>c, ConnConstant DEF PeerTypes, Connection!reader
  <2>6. \A n \in Connection!Ids : n <= c1.sent => n <= c1'.sent BY <1>d, <2>1, ConnConstant DEF Connection!Ids
  <2>2. /\ \A r \in c20' : r <= c1'.sent
        /\ c5' # Connection!NoFrame => c5'.id \in Connection!Ids /\ c5'.id <= c1'.sent /\ Newer(c5'.id, c20')
    BY <1>0, <2>1, <2>6 DEF WireFresh, OutTypes
  <2>3. /\ Newer(f.id, c20') /\ f.id <= c1'.sent /\ (c5' # Connection!NoFrame => c5'.id < f.id)
    BY <1>0, <1>a, <1>d, <2>1 DEF WireFresh, Newer, Connection!Ids, OutTypes
  <2>4. \A i \in 1..Len(c2') : IsHead(i)' =>
          /\ c2'[i].frame.id \in Connection!Ids /\ c2'[i].frame.id <= c1'.sent
          /\ Newer(c2'[i].frame.id, c20')
          /\ c5' # Connection!NoFrame => c5'.id < c2'[i].frame.id
    <3> SUFFICES ASSUME NEW i \in 1..Len(c2'), IsHead(i)'
                 PROVE  /\ c2'[i].frame.id \in Connection!Ids /\ c2'[i].frame.id <= c1'.sent
                        /\ Newer(c2'[i].frame.id, c20')
                        /\ c5' # Connection!NoFrame => c5'.id < c2'[i].frame.id
      OBVIOUS
    <3>1. CASE i \in 1..Len(c2)
      BY <1>0, <1>d, <1>g, <2>1, <3>1 DEF WireFresh, Newer, IsHead, Connection!Ids
    <3>2. CASE i > Len(c2)
      BY <1>a, <1>g, <2>3, <3>2
    <3> QED BY <1>g, <3>1, <3>2
  <2>5. \A i, j \in 1..Len(c2') :
          i < j /\ IsHead(i)' /\ IsHead(j)' => c2'[i].frame.id < c2'[j].frame.id
    <3> SUFFICES ASSUME NEW i \in 1..Len(c2'), NEW j \in 1..Len(c2'), i < j, IsHead(i)', IsHead(j)'
                 PROVE  c2'[i].frame.id < c2'[j].frame.id
      OBVIOUS
    <3>1. CASE j \in 1..Len(c2)
      BY <1>0, <1>g, <3>1 DEF WireFresh, IsHead
    <3>2. CASE i \in 1..Len(c2) /\ j > Len(c2)
      <4>1. c2'[i] = c2[i] /\ IsHead(i) /\ c2'[j].frame = f BY <1>g, <3>2 DEF IsHead
      <4>2. c2[i].frame.id \in Connection!Ids /\ c2[i].frame.id <= c1.sent BY <1>0, <3>2, <4>1 DEF WireFresh
      <4>3. c2[i].frame.id < f.id BY <1>a, <2>1, <4>2, ConnConstant DEF Connection!Ids
      <4> QED BY <4>1, <4>3
    <3>3. CASE i > Len(c2)
      BY <1>g, <3>3 DEF IsHead
    <3> QED BY <1>g, <3>1, <3>2, <3>3
  <2> QED BY <2>2, <2>4, <2>5 DEF WireFresh
<1>3. AnswerKept'
  BY <1>0, <1>c, <1>d DEF AnswerKept, Asked, Opening, Queued, IsResponse, Connection!Told, Connection!reader
<1>4. WriterLast'
  BY <1>0, <1>c, <1>d DEF WriterLast, Connection!reader, Connection!channels, Connection!tasks
<1>5. CloseMatches'
  <2>1. UNCHANGED <<c5, c4, c3, c6>> BY <1>c DEF Connection!reader, Connection!channels
  <2>2. ~Mismatched => Matches(f, c6') BY <1>f, <2>1 DEF Matches
  <2>3. Matches(Connection!NoFrame, c6') BY ConnConstant DEF Matches
  <2> QED BY <1>0, <1>d, <1>g, <2>1, <2>2, <2>3 DEF CloseMatches, Matches
<1>6. ReaderTypes' /\ ChannelTypes' /\ BesideTypes' /\ OutTypes' /\ AnswerOnce' /\ OpenedOnce' /\ HasCloser'
  BY <1>0 DEF Connection!PeerSends, Connection!reader, Connection!channels, Connection!tasks,
       ReaderTypes, ChannelTypes, BesideTypes, OutTypes, AnswerOnce, OpenedOnce, HasCloser, Asked,
       Opening, IsResponse, Connection!Told
<1> QED BY <1>1, <1>2, <1>3, <1>4, <1>5, <1>6 DEF ConnInv

(* BodyArrives keeps the invariant.                                        *)
LEMMA ConnBodyArrives ==
  ASSUME ConnInv, Connection!BodyArrives
  PROVE  ConnInv'
<1>0. PeerTypes /\ ReaderTypes /\ ChannelTypes /\ BesideTypes /\ OutTypes
      /\ WireFresh /\ AnswerOnce /\ AnswerKept /\ WriterLast /\ OpenedOnce /\ CloseMatches /\ HasCloser
  BY DEF ConnInv
<1> DEFINE body == [part |-> "body", frame |-> c1.half]
<1>a. /\ c1.half \in Frames /\ c2 \in Seq(Parts)
      /\ body \in Parts /\ body.part = "body" /\ body.frame = c1.half
  BY <1>0 DEF PeerTypes, Parts
<1> HIDE DEF body
<1>b. /\ c2' \in Seq(Parts) /\ Len(c2') = Len(c2) + 1 /\ Len(c2) \in Nat
      /\ \A i \in 1..Len(c2) : c2'[i] = c2[i]
      /\ c2'[Len(c2) + 1] = body
  BY <1>a, SeqOne DEF Connection!BodyArrives, body
<1>c. /\ c1' \in [sent : 0..MaxFrames, half : Frames, shut : BOOLEAN, gone : BOOLEAN, reads : BOOLEAN]
      /\ c1'.sent = c1.sent /\ c1'.gone = c1.gone /\ c1'.half = Connection!NoFrame
  BY <1>0, ConnConstant DEF Connection!BodyArrives, PeerTypes
<1>d. UNCHANGED <<Connection!reader, c7, Connection!channels, c14, Connection!tasks, c18, c19, c20, c21, c22>>
  BY DEF Connection!BodyArrives
<1>1. PeerTypes'
  BY <1>0, <1>b, <1>c, <1>d DEF PeerTypes, Connection!reader
<1>2. WireFresh'
  BY <1>0 DEF Connection!BodyArrives, WireFresh, PeerTypes, OutTypes, Newer, IsHead, Connection!Ids,
       Pcs, Phases, BesideStates, Connection!reader, Connection!channels, Connection!tasks
<1>3. AnswerKept'
  BY <1>0 DEF Connection!BodyArrives, AnswerKept, ReaderTypes, WriterLast, OutTypes, Asked, Opening,
       IsResponse, Queued, Connection!Told, Connection!Ids, Pcs, Phases, BesideStates,
       Connection!reader, Connection!channels, Connection!tasks
<1>4. WriterLast'
  BY <1>0 DEF Connection!BodyArrives, WriterLast, ReaderTypes, Connection!Ids, Pcs, Phases,
       BesideStates, Connection!reader, Connection!channels, Connection!tasks
<1>5. CloseMatches'
  <2>1. UNCHANGED <<c5, c4, c3, c6>> BY <1>d DEF Connection!reader, Connection!channels
  <2>2. Matches(Connection!NoFrame, c6') BY ConnConstant DEF Matches
  <2>3. ~Mismatched => \A i \in 1..Len(c2') : Matches(c2'[i].frame, c6')
    BY <1>0, <1>a, <1>b, <2>1 DEF CloseMatches, Matches
  <2> QED BY <1>0, <1>c, <2>1, <2>2, <2>3 DEF CloseMatches, Matches
<1>6. ReaderTypes' /\ ChannelTypes' /\ BesideTypes' /\ OutTypes' /\ AnswerOnce' /\ OpenedOnce' /\ HasCloser'
  BY <1>0 DEF Connection!BodyArrives, Connection!reader, Connection!channels, Connection!tasks,
       ReaderTypes, ChannelTypes, BesideTypes, OutTypes, AnswerOnce, OpenedOnce, HasCloser, Asked,
       Opening, IsResponse, Connection!Told
<1> QED BY <1>1, <1>2, <1>3, <1>4, <1>5, <1>6 DEF ConnInv

(* PeerStops keeps the invariant.                                          *)
LEMMA ConnPeerStops ==
  ASSUME ConnInv, Connection!PeerStops
  PROVE  ConnInv'
<1>0. PeerTypes /\ ReaderTypes /\ ChannelTypes /\ BesideTypes /\ OutTypes
      /\ WireFresh /\ AnswerOnce /\ AnswerKept /\ WriterLast /\ OpenedOnce /\ CloseMatches /\ HasCloser
  BY DEF ConnInv
<1>a. /\ c1' \in [sent : 0..MaxFrames, half : Frames, shut : BOOLEAN, gone : BOOLEAN, reads : BOOLEAN]
      /\ c1'.sent = c1.sent /\ c1'.half = c1.half /\ (c1.gone => c1'.gone)
  BY <1>0 DEF Connection!PeerStops, PeerTypes
<1>b. UNCHANGED <<c2, Connection!reader, c7, Connection!channels, c14, Connection!tasks, c18, c19, c20,
                  c21, c22>>
  BY DEF Connection!PeerStops
<1>1. PeerTypes'
  BY <1>0 DEF Connection!PeerStops, PeerTypes, Connection!Ids, Pcs, Phases, BesideStates,
       Connection!reader, Connection!channels, Connection!tasks
<1>2. WireFresh'
  BY <1>0 DEF Connection!PeerStops, WireFresh, PeerTypes, OutTypes, Newer, IsHead, Connection!Ids, Pcs,
       Phases, BesideStates, Connection!reader, Connection!channels, Connection!tasks
<1>3. AnswerKept'
  BY <1>0, <1>a, <1>b DEF AnswerKept, Asked, Opening, Queued, IsResponse, Connection!Told, Connection!reader
<1>4. WriterLast'
  BY <1>0, <1>a, <1>b DEF WriterLast, Connection!reader, Connection!channels, Connection!tasks
<1>5. CloseMatches'
  BY <1>0 DEF Connection!PeerStops, CloseMatches, PeerTypes, ChannelTypes, OpenedOnce, OutTypes,
       Matches, Connection!Ids, Pcs, Phases, BesideStates, Connection!reader, Connection!channels,
       Connection!tasks
<1>6. ReaderTypes' /\ ChannelTypes' /\ BesideTypes' /\ OutTypes' /\ AnswerOnce' /\ OpenedOnce' /\ HasCloser'
  BY <1>0 DEF Connection!PeerStops, Connection!reader, Connection!channels, Connection!tasks,
       ReaderTypes, ChannelTypes, BesideTypes, OutTypes, AnswerOnce, OpenedOnce, HasCloser, Asked,
       Opening, IsResponse, Connection!Told
<1> QED BY <1>1, <1>2, <1>3, <1>4, <1>5, <1>6 DEF ConnInv

(* ReadWhole keeps the invariant.                                          *)
LEMMA ConnReadWhole ==
  ASSUME ConnInv, Connection!ReadWhole
  PROVE  ConnInv'
<1>0. PeerTypes /\ ReaderTypes /\ ChannelTypes /\ BesideTypes /\ OutTypes
      /\ WireFresh /\ AnswerOnce /\ AnswerKept /\ WriterLast /\ OpenedOnce /\ CloseMatches /\ HasCloser
  BY DEF ConnInv
<1> DEFINE f == c2[1].frame
<1>a. c2 \in Seq(Parts) /\ Len(c2) \in Nat /\ Len(c2) >= 2 /\ IsHead(1) /\ c5 = Connection!NoFrame /\ c3 = "select"
  BY <1>0 DEF Connection!ReadWhole, PeerTypes, IsHead
<1>b. f \in Frames
  <2>1. c2[1] \in Parts BY <1>a
  <2> QED BY <2>1 DEF Parts
<1>c. f.id \in Connection!Ids /\ f.id <= c1.sent /\ Newer(f.id, c20) BY <1>0, <1>a DEF WireFresh
<1>d. ~Mismatched => Matches(f, c6) BY <1>0, <1>a DEF CloseMatches
<1>e. /\ c2' \in Seq(Parts) /\ Len(c2') = Len(c2) - 2
      /\ \A i \in 1..(Len(c2) - 2) : c2'[i] = c2[i + 2]
  BY <1>a, SeqDropTwo DEF Connection!ReadWhole
<1>f. /\ Connection!Took(f) /\ UNCHANGED <<c1, c7, Connection!channels, c14, Connection!tasks, c18, c19,
                                           c21, c22>>
  BY DEF Connection!ReadWhole
<1> HIDE DEF f
<1>g. UNCHANGED c6 BY <1>f DEF Connection!channels
<1>h. /\ c20' \subseteq Connection!Ids /\ c4' \in Frames /\ c5' = Connection!NoFrame
      /\ c3' \in {"route", "handle"} /\ c20 \subseteq c20' /\ c20' \subseteq c20 \cup {f.id}
      /\ AnswerOnce' /\ AnswerKept' /\ OpenedOnce'
  BY <1>a, <1>b, <1>c, <1>f, <1>g, Takes
<1>1. PeerTypes'
  BY <1>0, <1>e, <1>f, <1>h, ConnConstant DEF PeerTypes
<1>2. ReaderTypes'
  BY <1>0, <1>c, <1>f, <1>h DEF ReaderTypes, Connection!Took, Connection!tasks, Pcs
<1>3. OutTypes'
  BY <1>0, <1>f, <1>h DEF OutTypes
<1>4. WireFresh'
  <2>1. \A r \in c20' : r <= c1'.sent BY <1>0, <1>c, <1>f, <1>h DEF WireFresh
  <2>2. \A i \in 1..Len(c2') : IsHead(i)' =>
          c2'[i].frame.id \in Connection!Ids /\ c2'[i].frame.id <= c1'.sent /\ Newer(c2'[i].frame.id, c20')
    <3> SUFFICES ASSUME NEW i \in 1..Len(c2'), IsHead(i)'
                 PROVE  c2'[i].frame.id \in Connection!Ids /\ c2'[i].frame.id <= c1'.sent /\ Newer(c2'[i].frame.id, c20')
      OBVIOUS
    <3>1. i + 2 \in 1..Len(c2) /\ IsHead(i + 2) /\ c2'[i] = c2[i + 2]
      BY <1>a, <1>e DEF IsHead
    <3>2. f.id < c2[i + 2].frame.id BY <1>0, <1>a, <3>1 DEF WireFresh, f
    <3>3. c2[i + 2].frame.id \in Connection!Ids /\ c2[i + 2].frame.id <= c1.sent /\ Newer(c2[i + 2].frame.id, c20)
      BY <1>0, <3>1 DEF WireFresh
    <3> QED BY <1>f, <1>h, <3>1, <3>2, <3>3 DEF Newer
  <2>3. \A i, j \in 1..Len(c2') :
          i < j /\ IsHead(i)' /\ IsHead(j)' => c2'[i].frame.id < c2'[j].frame.id
    <3> SUFFICES ASSUME NEW i \in 1..Len(c2'), NEW j \in 1..Len(c2'), i < j, IsHead(i)', IsHead(j)'
                 PROVE  c2'[i].frame.id < c2'[j].frame.id
      OBVIOUS
    <3>1. /\ i + 2 \in 1..Len(c2) /\ IsHead(i + 2) /\ c2'[i] = c2[i + 2]
          /\ j + 2 \in 1..Len(c2) /\ IsHead(j + 2) /\ c2'[j] = c2[j + 2] /\ i + 2 < j + 2
      BY <1>a, <1>e DEF IsHead
    <3> QED BY <1>0, <3>1 DEF WireFresh
  <2> QED BY <1>h, <2>1, <2>2, <2>3 DEF WireFresh
<1>5. AnswerOnce'
  BY <1>h
<1>6. AnswerKept'
  BY <1>h
<1>7. WriterLast'
  BY <1>0 DEF Connection!ReadWhole, Connection!Took, Connection!Stream, WriterLast, ReaderTypes,
       Connection!Ids, Pcs, Phases, BesideStates, Connection!reader, Connection!channels, Connection!tasks
<1>8. OpenedOnce'
  BY <1>h
<1>9. CloseMatches'
  <2>1. Matches(Connection!NoFrame, c6') BY ConnConstant DEF Matches
  <2>2. c4' = f BY <1>f DEF Connection!Took
  <2>3. \A g : Matches(g, c6') = Matches(g, c6) BY <1>g DEF Matches
  <2>4. ~Mismatched => \A i \in 1..Len(c2') : Matches(c2'[i].frame, c6)
    BY <1>0, <1>a, <1>e DEF CloseMatches
  <2> QED BY <1>0, <1>d, <1>f, <1>h, <2>1, <2>2, <2>3, <2>4 DEF CloseMatches
<1>10. HasCloser'
  BY <1>0 DEF Connection!ReadWhole, Connection!Took, Connection!Stream, HasCloser, ReaderTypes,
       ChannelTypes, CloseMatches, OpenedOnce, WriterLast, Matches, Connection!Ids, Pcs, Phases,
       BesideStates, Connection!reader, Connection!channels, Connection!tasks
<1>11. ChannelTypes' /\ BesideTypes'
  BY <1>0 DEF Connection!ReadWhole, Connection!Took, Connection!Stream, Connection!reader,
       Connection!channels, Connection!tasks, ChannelTypes, BesideTypes
<1> QED BY <1>1, <1>2, <1>3, <1>4, <1>5, <1>6, <1>7, <1>8, <1>9, <1>10, <1>11 DEF ConnInv

(* ReadHead keeps the invariant.                                           *)
LEMMA ConnReadHead ==
  ASSUME ConnInv, Connection!ReadHead
  PROVE  ConnInv'
<1>0. PeerTypes /\ ReaderTypes /\ ChannelTypes /\ BesideTypes /\ OutTypes
      /\ WireFresh /\ AnswerOnce /\ AnswerKept /\ WriterLast /\ OpenedOnce /\ CloseMatches /\ HasCloser
  BY DEF ConnInv
<1>1. PeerTypes'
  <2>1. c2 \in Seq(Parts) /\ Len(c2) = 1 BY <1>0 DEF Connection!ReadHead, PeerTypes
  <2>2. c2[1] \in Parts BY <2>1
  <2>3. c2[1].frame \in Frames BY <2>2 DEF Parts
  <2>4. c2' \in Seq(Parts) BY DEF Connection!ReadHead
  <2> QED BY <1>0, <2>3, <2>4 DEF PeerTypes, Connection!ReadHead
<1>2. WireFresh'
  BY <1>0 DEF Connection!ReadHead, WireFresh, PeerTypes, OutTypes, Newer, IsHead, Connection!Ids, Pcs,
       Phases, BesideStates, Connection!reader, Connection!channels, Connection!tasks
<1>3. CloseMatches'
  BY <1>0 DEF Connection!ReadHead, CloseMatches, PeerTypes, ChannelTypes, OpenedOnce, OutTypes, Matches,
       Connection!Ids, Pcs, Phases, BesideStates, Connection!reader, Connection!channels, Connection!tasks
<1>4. ReaderTypes' /\ ChannelTypes' /\ BesideTypes' /\ OutTypes' /\ AnswerOnce' /\ AnswerKept' /\ WriterLast' /\ OpenedOnce' /\ HasCloser'
  BY <1>0 DEF Connection!ReadHead, Connection!reader, Connection!channels, Connection!tasks,
       ReaderTypes, ChannelTypes, BesideTypes, OutTypes, AnswerOnce, AnswerKept, WriterLast, OpenedOnce,
       HasCloser, Asked, Opening, IsResponse, Connection!Told, Queued
<1> QED BY <1>1, <1>2, <1>3, <1>4 DEF ConnInv

(* ReadBody keeps the invariant.                                           *)
LEMMA ConnReadBody ==
  ASSUME ConnInv, Connection!ReadBody
  PROVE  ConnInv'
<1>0. PeerTypes /\ ReaderTypes /\ ChannelTypes /\ BesideTypes /\ OutTypes
      /\ WireFresh /\ AnswerOnce /\ AnswerKept /\ WriterLast /\ OpenedOnce /\ CloseMatches /\ HasCloser
  BY DEF ConnInv
<1> DEFINE f == c5
<1>a. c2 \in Seq(Parts) /\ c2 # << >> /\ c5 # Connection!NoFrame /\ c3 = "select" /\ f \in Frames
  BY <1>0 DEF Connection!ReadBody, PeerTypes
<1>b. f \in Frames BY <1>a
<1>c. f.id \in Connection!Ids /\ f.id <= c1.sent /\ Newer(f.id, c20) BY <1>0, <1>a DEF WireFresh
<1>d. ~Mismatched => Matches(f, c6) BY <1>0, <1>a DEF CloseMatches
<1>e. /\ c2' \in Seq(Parts) /\ Len(c2) \in Nat \ {0} /\ Len(c2') = Len(c2) - 1
      /\ \A i \in 1..(Len(c2) - 1) : c2'[i] = c2[i + 1]
  BY <1>a, SeqDropOne DEF Connection!ReadBody
<1>f. /\ Connection!Took(f) /\ UNCHANGED <<c1, c7, Connection!channels, c14, Connection!tasks, c18, c19,
                                           c21, c22>>
  BY DEF Connection!ReadBody
<1> HIDE DEF f
<1>g. UNCHANGED c6 BY <1>f DEF Connection!channels
<1>h. /\ c20' \subseteq Connection!Ids /\ c4' \in Frames /\ c5' = Connection!NoFrame
      /\ c3' \in {"route", "handle"} /\ c20 \subseteq c20' /\ c20' \subseteq c20 \cup {f.id}
      /\ AnswerOnce' /\ AnswerKept' /\ OpenedOnce'
  BY <1>a, <1>b, <1>c, <1>f, <1>g, Takes
<1>1. PeerTypes'
  BY <1>0, <1>e, <1>f, <1>h, ConnConstant DEF PeerTypes
<1>2. ReaderTypes'
  BY <1>0, <1>c, <1>f, <1>h DEF ReaderTypes, Connection!Took, Connection!tasks, Pcs
<1>3. OutTypes'
  BY <1>0, <1>f, <1>h DEF OutTypes
<1>4. WireFresh'
  <2>1. \A r \in c20' : r <= c1'.sent BY <1>0, <1>c, <1>f, <1>h DEF WireFresh
  <2>2. \A i \in 1..Len(c2') : IsHead(i)' =>
          c2'[i].frame.id \in Connection!Ids /\ c2'[i].frame.id <= c1'.sent /\ Newer(c2'[i].frame.id, c20')
    <3> SUFFICES ASSUME NEW i \in 1..Len(c2'), IsHead(i)'
                 PROVE  c2'[i].frame.id \in Connection!Ids /\ c2'[i].frame.id <= c1'.sent /\ Newer(c2'[i].frame.id, c20')
      OBVIOUS
    <3>1. i + 1 \in 1..Len(c2) /\ IsHead(i + 1) /\ c2'[i] = c2[i + 1]
      BY <1>a, <1>e DEF IsHead
    <3>2. f.id < c2[i + 1].frame.id BY <1>0, <1>a, <3>1 DEF WireFresh, f
    <3>3. c2[i + 1].frame.id \in Connection!Ids /\ c2[i + 1].frame.id <= c1.sent /\ Newer(c2[i + 1].frame.id, c20)
      BY <1>0, <3>1 DEF WireFresh
    <3> QED BY <1>f, <1>h, <3>1, <3>2, <3>3 DEF Newer
  <2>3. \A i, j \in 1..Len(c2') :
          i < j /\ IsHead(i)' /\ IsHead(j)' => c2'[i].frame.id < c2'[j].frame.id
    <3> SUFFICES ASSUME NEW i \in 1..Len(c2'), NEW j \in 1..Len(c2'), i < j, IsHead(i)', IsHead(j)'
                 PROVE  c2'[i].frame.id < c2'[j].frame.id
      OBVIOUS
    <3>1. /\ i + 1 \in 1..Len(c2) /\ IsHead(i + 1) /\ c2'[i] = c2[i + 1]
          /\ j + 1 \in 1..Len(c2) /\ IsHead(j + 1) /\ c2'[j] = c2[j + 1] /\ i + 1 < j + 1
      BY <1>a, <1>e DEF IsHead
    <3> QED BY <1>0, <3>1 DEF WireFresh
  <2> QED BY <1>h, <2>1, <2>2, <2>3 DEF WireFresh
<1>5. AnswerOnce'
  BY <1>h
<1>6. AnswerKept'
  BY <1>h
<1>7. WriterLast'
  BY <1>0 DEF Connection!ReadBody, Connection!Took, Connection!Stream, WriterLast, ReaderTypes,
       Connection!Ids, Pcs, Phases, BesideStates, Connection!reader, Connection!channels, Connection!tasks
<1>8. OpenedOnce'
  BY <1>h
<1>9. CloseMatches'
  <2>1. Matches(Connection!NoFrame, c6') BY ConnConstant DEF Matches
  <2>2. c4' = f BY <1>f DEF Connection!Took
  <2>3. \A g : Matches(g, c6') = Matches(g, c6) BY <1>g DEF Matches
  <2>4. ~Mismatched => \A i \in 1..Len(c2') : Matches(c2'[i].frame, c6)
    BY <1>0, <1>a, <1>e DEF CloseMatches
  <2> QED BY <1>0, <1>d, <1>f, <1>h, <2>1, <2>2, <2>3, <2>4 DEF CloseMatches
<1>10. HasCloser'
  BY <1>0 DEF Connection!ReadBody, Connection!Took, Connection!Stream, HasCloser, ReaderTypes,
       ChannelTypes, CloseMatches, OpenedOnce, WriterLast, Matches, Connection!Ids, Pcs, Phases,
       BesideStates, Connection!reader, Connection!channels, Connection!tasks
<1>11. ChannelTypes' /\ BesideTypes'
  BY <1>0 DEF Connection!ReadBody, Connection!Took, Connection!Stream, Connection!reader,
       Connection!channels, Connection!tasks, ChannelTypes, BesideTypes
<1> QED BY <1>1, <1>2, <1>3, <1>4, <1>5, <1>6, <1>7, <1>8, <1>9, <1>10, <1>11 DEF ConnInv

(* ReadJunk keeps the invariant.                                           *)
LEMMA ConnReadJunk ==
  ASSUME ConnInv, Connection!ReadJunk
  PROVE  ConnInv'
<1>0. PeerTypes /\ ReaderTypes /\ ChannelTypes /\ BesideTypes /\ OutTypes
      /\ WireFresh /\ AnswerOnce /\ AnswerKept /\ WriterLast /\ OpenedOnce /\ CloseMatches /\ HasCloser
  BY DEF ConnInv
<1>1. PeerTypes'
  BY <1>0 DEF Connection!ReadJunk, PeerTypes, Connection!Ids, Pcs, Phases, BesideStates,
       Connection!reader, Connection!channels, Connection!tasks
<1>2. ReaderTypes'
  BY <1>0 DEF Connection!ReadJunk, ReaderTypes, PeerTypes, WireFresh, Newer, IsHead, Connection!Ids,
       Pcs, Phases, BesideStates, Connection!reader, Connection!channels, Connection!tasks
<1>3. WireFresh'
  BY <1>0 DEF Connection!ReadJunk, WireFresh, PeerTypes, OutTypes, Newer, IsHead, Connection!Ids, Pcs,
       Phases, BesideStates, Connection!reader, Connection!channels, Connection!tasks
<1>4. AnswerOnce'
  BY <1>0 DEF Connection!ReadJunk, AnswerOnce, ReaderTypes, BesideTypes, OutTypes, Asked, Opening,
       IsResponse, Connection!Told, Connection!Ids, Pcs, Phases, BesideStates, Connection!reader,
       Connection!channels, Connection!tasks
<1>5. AnswerKept'
  BY <1>0 DEF Connection!ReadJunk, AnswerKept, ReaderTypes, WriterLast, OutTypes, Asked, Opening,
       IsResponse, Queued, Connection!Told, Connection!Ids, Pcs, Phases, BesideStates,
       Connection!reader, Connection!channels, Connection!tasks
<1>6. WriterLast'
  BY <1>0 DEF Connection!ReadJunk, WriterLast, ReaderTypes, Connection!Ids, Pcs, Phases, BesideStates,
       Connection!reader, Connection!channels, Connection!tasks
<1>7. OpenedOnce'
  BY <1>0 DEF Connection!ReadJunk, OpenedOnce, ReaderTypes, ChannelTypes, AnswerOnce, Asked, Opening,
       IsResponse, Connection!Told, Connection!Ids, Pcs, Phases, BesideStates, Connection!reader,
       Connection!channels, Connection!tasks
<1>8. CloseMatches'
  BY <1>0 DEF Connection!ReadJunk, CloseMatches, PeerTypes, ChannelTypes, OpenedOnce, OutTypes, Matches,
       Connection!Ids, Pcs, Phases, BesideStates, Connection!reader, Connection!channels, Connection!tasks
<1>9. HasCloser'
  BY <1>0 DEF Connection!ReadJunk, HasCloser, ReaderTypes, ChannelTypes, CloseMatches, OpenedOnce,
       WriterLast, Matches, Connection!Ids, Pcs, Phases, BesideStates, Connection!reader,
       Connection!channels, Connection!tasks
<1>10. ChannelTypes' /\ BesideTypes' /\ OutTypes'
  BY <1>0 DEF Connection!ReadJunk, Connection!reader, Connection!channels, Connection!tasks,
       ChannelTypes, BesideTypes, OutTypes
<1> QED BY <1>1, <1>2, <1>3, <1>4, <1>5, <1>6, <1>7, <1>8, <1>9, <1>10 DEF ConnInv

(* ReadEof keeps the invariant.                                            *)
LEMMA ConnReadEof ==
  ASSUME ConnInv, Connection!ReadEof
  PROVE  ConnInv'
<1>0. PeerTypes /\ ReaderTypes /\ ChannelTypes /\ BesideTypes /\ OutTypes
      /\ WireFresh /\ AnswerOnce /\ AnswerKept /\ WriterLast /\ OpenedOnce /\ CloseMatches /\ HasCloser
  BY DEF ConnInv
<1>1. ReaderTypes'
  BY <1>0 DEF Connection!ReadEof, ReaderTypes, PeerTypes, WireFresh, Newer, IsHead, Connection!Ids, Pcs,
       Phases, BesideStates, Connection!reader, Connection!channels, Connection!tasks
<1>2. AnswerOnce'
  BY <1>0 DEF Connection!ReadEof, AnswerOnce, ReaderTypes, BesideTypes, OutTypes, Asked, Opening,
       IsResponse, Connection!Told, Connection!Ids, Pcs, Phases, BesideStates, Connection!reader,
       Connection!channels, Connection!tasks
<1>3. AnswerKept'
  BY <1>0 DEF Connection!ReadEof, AnswerKept, ReaderTypes, WriterLast, OutTypes, Asked, Opening,
       IsResponse, Queued, Connection!Told, Connection!Ids, Pcs, Phases, BesideStates,
       Connection!reader, Connection!channels, Connection!tasks
<1>4. WriterLast'
  BY <1>0 DEF Connection!ReadEof, WriterLast, ReaderTypes, Connection!Ids, Pcs, Phases, BesideStates,
       Connection!reader, Connection!channels, Connection!tasks
<1>5. OpenedOnce'
  BY <1>0 DEF Connection!ReadEof, OpenedOnce, ReaderTypes, ChannelTypes, AnswerOnce, Asked, Opening,
       IsResponse, Connection!Told, Connection!Ids, Pcs, Phases, BesideStates, Connection!reader,
       Connection!channels, Connection!tasks
<1>6. CloseMatches'
  BY <1>0 DEF Connection!ReadEof, CloseMatches, PeerTypes, ChannelTypes, OpenedOnce, OutTypes, Matches,
       Connection!Ids, Pcs, Phases, BesideStates, Connection!reader, Connection!channels, Connection!tasks
<1>7. HasCloser'
  BY <1>0 DEF Connection!ReadEof, HasCloser, ReaderTypes, ChannelTypes, CloseMatches, OpenedOnce,
       WriterLast, Matches, Connection!Ids, Pcs, Phases, BesideStates, Connection!reader,
       Connection!channels, Connection!tasks
<1>8. PeerTypes' /\ ChannelTypes' /\ BesideTypes' /\ OutTypes' /\ WireFresh'
  BY <1>0 DEF Connection!ReadEof, Connection!reader, Connection!channels, Connection!tasks, PeerTypes,
       ChannelTypes, BesideTypes, OutTypes, WireFresh, Newer, IsHead
<1> QED BY <1>1, <1>2, <1>3, <1>4, <1>5, <1>6, <1>7, <1>8 DEF ConnInv

(* BesideJoined keeps the invariant.                                       *)
LEMMA ConnBesideJoined ==
  ASSUME ConnInv, Connection!BesideJoined
  PROVE  ConnInv'
<1>0. PeerTypes /\ ReaderTypes /\ ChannelTypes /\ BesideTypes /\ OutTypes
      /\ WireFresh /\ AnswerOnce /\ AnswerKept /\ WriterLast /\ OpenedOnce /\ CloseMatches /\ HasCloser
  BY DEF ConnInv
<1>1. PeerTypes'
  BY <1>0, ConnConstant DEF PeerTypes, Connection!BesideJoined
<1>2. BesideTypes'
  BY <1>0 DEF Connection!BesideJoined, BesideTypes, ReaderTypes, Connection!Ids, Pcs, Phases,
       BesideStates, Connection!reader, Connection!channels, Connection!tasks
<1>3. WireFresh'
  BY <1>0 DEF Connection!BesideJoined, WireFresh, PeerTypes, OutTypes, Newer, IsHead, Connection!Ids,
       Pcs, Phases, BesideStates, Connection!reader, Connection!channels, Connection!tasks
<1>4. AnswerOnce'
  BY <1>0 DEF Connection!BesideJoined, AnswerOnce, ReaderTypes, BesideTypes, OutTypes, Asked, Opening,
       IsResponse, Connection!Told, Connection!Ids, Pcs, Phases, BesideStates, Connection!reader,
       Connection!channels, Connection!tasks
<1>5. AnswerKept'
  BY <1>0 DEF Connection!BesideJoined, AnswerKept, ReaderTypes, WriterLast, OutTypes, Asked, Opening,
       IsResponse, Queued, Connection!Told, Connection!Ids, Pcs, Phases, BesideStates,
       Connection!reader, Connection!channels, Connection!tasks
<1>6. WriterLast'
  BY <1>0 DEF Connection!BesideJoined, WriterLast, ReaderTypes, Connection!Ids, Pcs, Phases,
       BesideStates, Connection!reader, Connection!channels, Connection!tasks
<1>7. OpenedOnce'
  BY <1>0 DEF Connection!BesideJoined, OpenedOnce, ReaderTypes, ChannelTypes, AnswerOnce, Asked,
       Opening, IsResponse, Connection!Told, Connection!Ids, Pcs, Phases, BesideStates,
       Connection!reader, Connection!channels, Connection!tasks
<1>8. CloseMatches'
  <2>1. Matches(Connection!NoFrame, c6') BY ConnConstant DEF Matches
  <2>2. c5' = Connection!NoFrame /\ UNCHANGED <<c1, c2, c3, c4, c6>> BY DEF Connection!BesideJoined,
       Connection!channels
  <2>3. \A g : Matches(g, c6') = Matches(g, c6) BY <2>2 DEF Matches
  <2> QED BY <1>0, <2>1, <2>2, <2>3 DEF CloseMatches
<1>9. HasCloser'
  BY <1>0 DEF Connection!BesideJoined, HasCloser, ReaderTypes, ChannelTypes, CloseMatches, OpenedOnce,
       WriterLast, Matches, Connection!Ids, Pcs, Phases, BesideStates, Connection!reader,
       Connection!channels, Connection!tasks
<1>10. ReaderTypes' /\ ChannelTypes' /\ OutTypes'
  BY <1>0 DEF Connection!BesideJoined, Connection!reader, Connection!channels, Connection!tasks,
       ReaderTypes, ChannelTypes, OutTypes
<1> QED BY <1>1, <1>2, <1>3, <1>4, <1>5, <1>6, <1>7, <1>8, <1>9, <1>10 DEF ConnInv

(* ShutdownSeen keeps the invariant.                                       *)
LEMMA ConnShutdownSeen ==
  ASSUME ConnInv, Connection!ShutdownSeen
  PROVE  ConnInv'
<1>0. PeerTypes /\ ReaderTypes /\ ChannelTypes /\ BesideTypes /\ OutTypes
      /\ WireFresh /\ AnswerOnce /\ AnswerKept /\ WriterLast /\ OpenedOnce /\ CloseMatches /\ HasCloser
  BY DEF ConnInv
<1>1. ReaderTypes'
  BY <1>0 DEF Connection!ShutdownSeen, ReaderTypes, PeerTypes, WireFresh, Newer, IsHead, Connection!Ids,
       Pcs, Phases, BesideStates, Connection!reader, Connection!channels, Connection!tasks
<1>2. AnswerOnce'
  BY <1>0 DEF Connection!ShutdownSeen, AnswerOnce, ReaderTypes, BesideTypes, OutTypes, Asked, Opening,
       IsResponse, Connection!Told, Connection!Ids, Pcs, Phases, BesideStates, Connection!reader,
       Connection!channels, Connection!tasks
<1>3. AnswerKept'
  BY <1>0 DEF Connection!ShutdownSeen, AnswerKept, ReaderTypes, WriterLast, OutTypes, Asked, Opening,
       IsResponse, Queued, Connection!Told, Connection!Ids, Pcs, Phases, BesideStates,
       Connection!reader, Connection!channels, Connection!tasks
<1>4. WriterLast'
  BY <1>0 DEF Connection!ShutdownSeen, WriterLast, ReaderTypes, Connection!Ids, Pcs, Phases,
       BesideStates, Connection!reader, Connection!channels, Connection!tasks
<1>5. OpenedOnce'
  BY <1>0 DEF Connection!ShutdownSeen, OpenedOnce, ReaderTypes, ChannelTypes, AnswerOnce, Asked,
       Opening, IsResponse, Connection!Told, Connection!Ids, Pcs, Phases, BesideStates,
       Connection!reader, Connection!channels, Connection!tasks
<1>6. CloseMatches'
  BY <1>0 DEF Connection!ShutdownSeen, CloseMatches, PeerTypes, ChannelTypes, OpenedOnce, OutTypes,
       Matches, Connection!Ids, Pcs, Phases, BesideStates, Connection!reader, Connection!channels,
       Connection!tasks
<1>7. HasCloser'
  BY <1>0 DEF Connection!ShutdownSeen, HasCloser, ReaderTypes, ChannelTypes, CloseMatches, OpenedOnce,
       WriterLast, Matches, Connection!Ids, Pcs, Phases, BesideStates, Connection!reader,
       Connection!channels, Connection!tasks
<1>8. PeerTypes' /\ ChannelTypes' /\ BesideTypes' /\ OutTypes' /\ WireFresh'
  BY <1>0 DEF Connection!ShutdownSeen, Connection!reader, Connection!channels, Connection!tasks,
       PeerTypes, ChannelTypes, BesideTypes, OutTypes, WireFresh, Newer, IsHead
<1> QED BY <1>1, <1>2, <1>3, <1>4, <1>5, <1>6, <1>7, <1>8 DEF ConnInv

(* HandleForward keeps the invariant.                                      *)
LEMMA ConnHandleForward ==
  ASSUME ConnInv, Connection!HandleForward
  PROVE  ConnInv'
<1>0. PeerTypes /\ ReaderTypes /\ ChannelTypes /\ BesideTypes /\ OutTypes
      /\ WireFresh /\ AnswerOnce /\ AnswerKept /\ WriterLast /\ OpenedOnce /\ CloseMatches /\ HasCloser
  BY DEF ConnInv
<1>1. ReaderTypes'
  BY <1>0 DEF Connection!HandleForward, ReaderTypes, PeerTypes, WireFresh, Newer, IsHead,
       Connection!Ids, Pcs, Phases, BesideStates, Connection!reader, Connection!channels, Connection!tasks
<1>2. BesideTypes'
  BY <1>0 DEF Connection!HandleForward, BesideTypes, ReaderTypes, Connection!Ids, Pcs, Phases,
       BesideStates, Connection!reader, Connection!channels, Connection!tasks
<1>3. AnswerOnce'
  BY <1>0 DEF Connection!HandleForward, AnswerOnce, ReaderTypes, BesideTypes, OutTypes, Asked, Opening,
       IsResponse, Connection!Told, Connection!Ids, Pcs, Phases, BesideStates, Connection!reader,
       Connection!channels, Connection!tasks
<1>4. AnswerKept'
  BY <1>0 DEF Connection!HandleForward, AnswerKept, ReaderTypes, WriterLast, OutTypes, Asked, Opening,
       IsResponse, Queued, Connection!Told, Connection!Ids, Pcs, Phases, BesideStates,
       Connection!reader, Connection!channels, Connection!tasks
<1>5. WriterLast'
  BY <1>0 DEF Connection!HandleForward, WriterLast, ReaderTypes, Connection!Ids, Pcs, Phases,
       BesideStates, Connection!reader, Connection!channels, Connection!tasks
<1>6. OpenedOnce'
  BY <1>0 DEF Connection!HandleForward, OpenedOnce, ReaderTypes, ChannelTypes, AnswerOnce, Asked,
       Opening, IsResponse, Connection!Told, Connection!Ids, Pcs, Phases, BesideStates,
       Connection!reader, Connection!channels, Connection!tasks
<1>7. CloseMatches'
  BY <1>0 DEF Connection!HandleForward, CloseMatches, PeerTypes, ChannelTypes, OpenedOnce, OutTypes,
       Matches, Connection!Ids, Pcs, Phases, BesideStates, Connection!reader, Connection!channels,
       Connection!tasks
<1>8. HasCloser'
  <2>1. /\ UNCHANGED <<c8, c6, c13, c11>> /\ c3 = "handle" /\ c3' = "select"
        /\ DOMAIN c7 \subseteq DOMAIN c7'
        /\ \A r \in DOMAIN c7 : r # c4.id => c7'[r] = c7[r]
    BY DEF Connection!HandleForward, Connection!channels
  <2>2. c4.id \notin DOMAIN c7 BY <1>0, <2>1 DEF AnswerOnce, Asked
  <2> QED BY <1>0, <2>1, <2>2 DEF HasCloser
<1>9. PeerTypes' /\ ChannelTypes' /\ OutTypes' /\ WireFresh'
  BY <1>0 DEF Connection!HandleForward, Connection!reader, Connection!channels, Connection!tasks,
       PeerTypes, ChannelTypes, OutTypes, WireFresh, Newer, IsHead
<1> QED BY <1>1, <1>2, <1>3, <1>4, <1>5, <1>6, <1>7, <1>8, <1>9 DEF ConnInv

(* HandleOpen keeps the invariant.                                         *)
LEMMA ConnHandleOpen ==
  ASSUME ConnInv, Connection!HandleOpen
  PROVE  ConnInv'
<1>0. PeerTypes /\ ReaderTypes /\ ChannelTypes /\ BesideTypes /\ OutTypes
      /\ WireFresh /\ AnswerOnce /\ AnswerKept /\ WriterLast /\ OpenedOnce /\ CloseMatches /\ HasCloser
  BY DEF ConnInv
<1>a. /\ c3 = "handle" /\ c3' = "reply" /\ c4.id \in Connection!Ids /\ c4.kind \in {"sftp", "attach", "exec"}
      /\ UNCHANGED <<c1, c2, c4, c5, c7, c12, c13, c14, Connection!tasks, c18, c19,
                     c20, c21, c22>>
  BY <1>0 DEF Connection!HandleOpen, ReaderTypes
<1>b. /\ c6' \in [Connection!Ids -> ChannelKinds] /\ c8' \subseteq c8 \cup {c4.id}
      /\ c9' \subseteq c8' /\ c9 \subseteq c9'
      /\ c10' \subseteq c10 \cup {c4.id} /\ c11 \subseteq c11'
      /\ c11' \subseteq c11 \cup {c4.id}
      /\ (c8' = c8 \/ c4.id \in c11')
      /\ \A c \in Connection!Ids : c # c4.id => c6'[c] = c6[c]
  <2>1. CASE c6' = [c6 EXCEPT ![c4.id] = c4.kind] /\ c8' = c8 \cup {c4.id}
             /\ c9' = c9 \cup {c4.id} /\ c11' = c11 \cup {c4.id}
             /\ c10' = (IF c4.kind = "sftp" THEN c10 \cup {c4.id} ELSE c10)
    BY <1>0, <1>a, <2>1 DEF ChannelTypes, ChannelKinds
  <2>2. CASE UNCHANGED <<c6, c8, c9, c11, c10>>
    BY <1>0, <1>a, <2>2 DEF ChannelTypes
  <2> QED BY <2>1, <2>2 DEF Connection!HandleOpen, Connection!Opens
<1>1. ReaderTypes'
  BY <1>0 DEF Connection!HandleOpen, Connection!Admits, Connection!Opens, ReaderTypes, PeerTypes,
       WireFresh, Newer, IsHead, Connection!Ids, Pcs, Phases, BesideStates, Connection!reader,
       Connection!channels, Connection!tasks
<1>2. ChannelTypes'
  BY <1>0, <1>a, <1>b DEF ChannelTypes
<1>3. AnswerOnce'
  BY <1>0 DEF Connection!HandleOpen, Connection!Admits, Connection!Opens, AnswerOnce, ReaderTypes,
       BesideTypes, OutTypes, Asked, Opening, IsResponse, Connection!Told, Connection!Ids, Pcs, Phases,
       BesideStates, Connection!reader, Connection!channels, Connection!tasks
<1>4. AnswerKept'
  BY <1>0 DEF Connection!HandleOpen, Connection!Admits, Connection!Opens, AnswerKept, ReaderTypes,
       WriterLast, OutTypes, Asked, Opening, IsResponse, Queued, Connection!Told, Connection!Ids, Pcs,
       Phases, BesideStates, Connection!reader, Connection!channels, Connection!tasks
<1>5. WriterLast'
  BY <1>0 DEF Connection!HandleOpen, Connection!Admits, Connection!Opens, WriterLast, ReaderTypes,
       Connection!Ids, Pcs, Phases, BesideStates, Connection!reader, Connection!channels, Connection!tasks
<1>6. OpenedOnce'
  BY <1>0, <1>a, <1>b DEF OpenedOnce, AnswerOnce, Asked
<1>7. CloseMatches'
  <2>1. c6[c4.id] = "none" BY <1>0, <1>a DEF OpenedOnce
  <2>2. \A g : Matches(g, c6) => Matches(g, c6')
    BY <1>a, <1>b, <2>1, ConnConstant DEF Matches
  <2> QED BY <1>0, <1>a, <2>2 DEF CloseMatches
<1>8. HasCloser'
  BY <1>0, <1>a, <1>b DEF HasCloser, OpenedOnce, ChannelTypes
<1>9. PeerTypes' /\ BesideTypes' /\ OutTypes' /\ WireFresh'
  BY <1>0 DEF Connection!HandleOpen, Connection!Admits, Connection!Opens, Connection!reader,
       Connection!channels, Connection!tasks, PeerTypes, BesideTypes, OutTypes, WireFresh, Newer, IsHead
<1> QED BY <1>1, <1>2, <1>3, <1>4, <1>5, <1>6, <1>7, <1>8, <1>9 DEF ConnInv

(* HandleClose keeps the invariant.                                        *)
LEMMA ConnHandleClose ==
  ASSUME ConnInv, Connection!HandleClose
  PROVE  ConnInv'
<1>0. PeerTypes /\ ReaderTypes /\ ChannelTypes /\ BesideTypes /\ OutTypes
      /\ WireFresh /\ AnswerOnce /\ AnswerKept /\ WriterLast /\ OpenedOnce /\ CloseMatches /\ HasCloser
  BY DEF ConnInv
<1>1. ReaderTypes'
  BY <1>0 DEF Connection!HandleClose, Connection!Admits, ReaderTypes, PeerTypes, WireFresh, Newer,
       IsHead, Connection!Ids, Pcs, Phases, BesideStates, Connection!reader, Connection!channels,
       Connection!tasks
<1>2. ChannelTypes'
  BY <1>0 DEF Connection!HandleClose, Connection!Admits, ChannelTypes, ReaderTypes, BesideTypes,
       Connection!Ids, Pcs, Phases, BesideStates, Connection!reader, Connection!channels, Connection!tasks
<1>3. AnswerOnce'
  BY <1>0 DEF Connection!HandleClose, Connection!Admits, AnswerOnce, ReaderTypes, BesideTypes, OutTypes,
       Asked, Opening, IsResponse, Connection!Told, Connection!Ids, Pcs, Phases, BesideStates,
       Connection!reader, Connection!channels, Connection!tasks
<1>4. AnswerKept'
  BY <1>0 DEF Connection!HandleClose, Connection!Admits, AnswerKept, ReaderTypes, WriterLast, OutTypes,
       Asked, Opening, IsResponse, Queued, Connection!Told, Connection!Ids, Pcs, Phases, BesideStates,
       Connection!reader, Connection!channels, Connection!tasks
<1>5. WriterLast'
  BY <1>0 DEF Connection!HandleClose, Connection!Admits, WriterLast, ReaderTypes, Connection!Ids, Pcs,
       Phases, BesideStates, Connection!reader, Connection!channels, Connection!tasks
<1>6. OpenedOnce'
  BY <1>0 DEF Connection!HandleClose, Connection!Admits, OpenedOnce, ReaderTypes, ChannelTypes,
       AnswerOnce, Asked, Opening, IsResponse, Connection!Told, Connection!Ids, Pcs, Phases,
       BesideStates, Connection!reader, Connection!channels, Connection!tasks
<1>7. CloseMatches'
  BY <1>0 DEF Connection!HandleClose, Connection!Admits, CloseMatches, PeerTypes, ChannelTypes,
       OpenedOnce, OutTypes, Matches, Connection!Ids, Pcs, Phases, BesideStates, Connection!reader,
       Connection!channels, Connection!tasks
<1>8. HasCloser'
  <2> SUFFICES ASSUME ~Mismatched, NEW c \in c8'
               PROVE  c \in c11' \/ (c \in DOMAIN c7' /\ c7'[c] \in {"sink", "closer"})
    BY DEF HasCloser, Connection!HandleClose
  <2>1. /\ c3 = "handle" /\ UNCHANGED <<c7, c6>> /\ c4.kind \in DOMAIN Connection!Closes
        /\ c8' \subseteq c8
    BY DEF Connection!HandleClose
  <2>2. c4.ch \in Connection!Ids /\ c6[c4.ch] = Connection!Closes[c4.kind] BY <1>0,
       <2>1 DEF CloseMatches, Matches
  <2>3. UNCHANGED <<c8, c11>> \/ (c11' = c11 \ {c4.ch} /\ c8' = c8 \ {c4.ch})
    <3>1. {x \in {c4.ch} : c6[x] = Connection!Closes[c4.kind]} = {c4.ch} BY <2>2
    <3> QED BY <3>1 DEF Connection!HandleClose
  <2> QED BY <1>0, <2>1, <2>3 DEF HasCloser
<1>9. PeerTypes' /\ BesideTypes' /\ OutTypes' /\ WireFresh'
  BY <1>0 DEF Connection!HandleClose, Connection!reader, Connection!channels, Connection!tasks,
       PeerTypes, BesideTypes, OutTypes, WireFresh, Newer, IsHead
<1> QED BY <1>1, <1>2, <1>3, <1>4, <1>5, <1>6, <1>7, <1>8, <1>9 DEF ConnInv

(* HandlePlain keeps the invariant.                                        *)
LEMMA ConnHandlePlain ==
  ASSUME ConnInv, Connection!HandlePlain
  PROVE  ConnInv'
<1>0. PeerTypes /\ ReaderTypes /\ ChannelTypes /\ BesideTypes /\ OutTypes
      /\ WireFresh /\ AnswerOnce /\ AnswerKept /\ WriterLast /\ OpenedOnce /\ CloseMatches /\ HasCloser
  BY DEF ConnInv
<1>1. ReaderTypes'
  BY <1>0 DEF Connection!HandlePlain, ReaderTypes, PeerTypes, WireFresh, Newer, IsHead, Connection!Ids,
       Pcs, Phases, BesideStates, Connection!reader, Connection!channels, Connection!tasks
<1>2. AnswerOnce'
  BY <1>0 DEF Connection!HandlePlain, AnswerOnce, ReaderTypes, BesideTypes, OutTypes, Asked, Opening,
       IsResponse, Connection!Told, Connection!Ids, Pcs, Phases, BesideStates, Connection!reader,
       Connection!channels, Connection!tasks
<1>3. AnswerKept'
  BY <1>0 DEF Connection!HandlePlain, AnswerKept, ReaderTypes, WriterLast, OutTypes, Asked, Opening,
       IsResponse, Queued, Connection!Told, Connection!Ids, Pcs, Phases, BesideStates,
       Connection!reader, Connection!channels, Connection!tasks
<1>4. WriterLast'
  BY <1>0 DEF Connection!HandlePlain, WriterLast, ReaderTypes, Connection!Ids, Pcs, Phases,
       BesideStates, Connection!reader, Connection!channels, Connection!tasks
<1>5. OpenedOnce'
  BY <1>0 DEF Connection!HandlePlain, OpenedOnce, ReaderTypes, ChannelTypes, AnswerOnce, Asked, Opening,
       IsResponse, Connection!Told, Connection!Ids, Pcs, Phases, BesideStates, Connection!reader,
       Connection!channels, Connection!tasks
<1>6. CloseMatches'
  BY <1>0 DEF Connection!HandlePlain, CloseMatches, PeerTypes, ChannelTypes, OpenedOnce, OutTypes,
       Matches, Connection!Ids, Pcs, Phases, BesideStates, Connection!reader, Connection!channels,
       Connection!tasks
<1>7. HasCloser'
  BY <1>0 DEF Connection!HandlePlain, HasCloser, ReaderTypes, ChannelTypes, CloseMatches, OpenedOnce,
       WriterLast, Matches, Connection!Ids, Pcs, Phases, BesideStates, Connection!reader,
       Connection!channels, Connection!tasks
<1>8. PeerTypes' /\ ChannelTypes' /\ BesideTypes' /\ OutTypes' /\ WireFresh'
  BY <1>0 DEF Connection!HandlePlain, Connection!reader, Connection!channels, Connection!tasks,
       PeerTypes, ChannelTypes, BesideTypes, OutTypes, WireFresh, Newer, IsHead
<1> QED BY <1>1, <1>2, <1>3, <1>4, <1>5, <1>6, <1>7, <1>8 DEF ConnInv

(* Reply keeps the invariant.                                              *)
LEMMA ConnReply ==
  ASSUME ConnInv, Connection!Reply
  PROVE  ConnInv'
<1>0. PeerTypes /\ ReaderTypes /\ ChannelTypes /\ BesideTypes /\ OutTypes
      /\ WireFresh /\ AnswerOnce /\ AnswerKept /\ WriterLast /\ OpenedOnce /\ CloseMatches /\ HasCloser
  BY DEF ConnInv
<1>a. /\ c3 = "reply" /\ c4.id \in Connection!Ids
      /\ UNCHANGED <<c1, c2, c4, c5, c7, Connection!channels, Connection!tasks, c18, c19, c20, c21, c22>>
      /\ \/ c3' = "select" /\ Len(c14) < OutCapacity /\ c14' = Append(c14, Connection!Response(c4.id))
         \/ ~c15 /\ c3' = "cancel" /\ UNCHANGED c14
  BY <1>0 DEF Connection!Reply, Connection!Room, ReaderTypes
<1>b. Asked = {c4.id} /\ Asked' = {} /\ Opening' = Opening /\ Connection!Told' = Connection!Told
  BY <1>a DEF Asked, Opening, Connection!Told
<1>c. c4.id \notin Opening BY <1>0, <1>b DEF AnswerOnce, Opening
<1>d. /\ c14' \in Seq(OutFrames) /\ Len(c14') <= OutCapacity /\ AnswerOnce' /\ AnswerKept'
  <2>1. CASE Len(c14) < OutCapacity /\ c14' = Append(c14, Connection!Response(c4.id))
    BY <1>a, <1>b, <1>c, <2>1, QueueResponse
  <2>2. CASE ~c15 /\ UNCHANGED c14 /\ c3' = "cancel"
    <3>1. c1.gone BY <1>0, <1>a, <2>2 DEF WriterLast
    <3>2. AnswerKept' BY <1>a, <3>1 DEF AnswerKept
    <3>3. AnswerOnce' BY <1>0, <1>a, <1>b, <2>2 DEF AnswerOnce, Opening, IsResponse
    <3> QED BY <1>0, <2>2, <3>2, <3>3 DEF OutTypes
  <2> QED BY <1>a, <2>1, <2>2
<1>1. ReaderTypes'
  BY <1>0 DEF Connection!Reply, Connection!Room, Connection!Response, ReaderTypes, PeerTypes, WireFresh,
       Newer, IsHead, Connection!Ids, Pcs, Phases, BesideStates, Connection!reader, Connection!channels,
       Connection!tasks
<1>2. OutTypes'
  BY <1>0, <1>a, <1>d DEF OutTypes
<1>3. AnswerOnce'
  BY <1>d
<1>4. AnswerKept'
  BY <1>d
<1>5. WriterLast'
  BY <1>0 DEF Connection!Reply, Connection!Room, Connection!Response, WriterLast, ReaderTypes,
       Connection!Ids, Pcs, Phases, BesideStates, Connection!reader, Connection!channels, Connection!tasks
<1>6. OpenedOnce'
  BY <1>0 DEF Connection!Reply, Connection!Room, Connection!Response, OpenedOnce, ReaderTypes,
       ChannelTypes, AnswerOnce, Asked, Opening, IsResponse, Connection!Told, Connection!Ids, Pcs,
       Phases, BesideStates, Connection!reader, Connection!channels, Connection!tasks
<1>7. CloseMatches'
  BY <1>0 DEF Connection!Reply, Connection!Room, Connection!Response, CloseMatches, PeerTypes,
       ChannelTypes, OpenedOnce, OutTypes, Matches, Connection!Ids, Pcs, Phases, BesideStates,
       Connection!reader, Connection!channels, Connection!tasks
<1>8. HasCloser'
  BY <1>0 DEF Connection!Reply, Connection!Room, Connection!Response, HasCloser, ReaderTypes,
       ChannelTypes, CloseMatches, OpenedOnce, WriterLast, Matches, Connection!Ids, Pcs, Phases,
       BesideStates, Connection!reader, Connection!channels, Connection!tasks
<1>9. PeerTypes' /\ ChannelTypes' /\ BesideTypes' /\ WireFresh'
  BY <1>0 DEF Connection!Reply, Connection!reader, Connection!channels, Connection!tasks, PeerTypes,
       ChannelTypes, BesideTypes, WireFresh, Newer, IsHead
<1> QED BY <1>1, <1>2, <1>3, <1>4, <1>5, <1>6, <1>7, <1>8, <1>9 DEF ConnInv

(* Route keeps the invariant.                                              *)
LEMMA ConnRoute ==
  ASSUME ConnInv, Connection!Route
  PROVE  ConnInv'
<1>0. PeerTypes /\ ReaderTypes /\ ChannelTypes /\ BesideTypes /\ OutTypes
      /\ WireFresh /\ AnswerOnce /\ AnswerKept /\ WriterLast /\ OpenedOnce /\ CloseMatches /\ HasCloser
  BY DEF ConnInv
<1>1. ReaderTypes'
  BY <1>0 DEF Connection!Route, ReaderTypes, PeerTypes, WireFresh, Newer, IsHead, Connection!Ids, Pcs,
       Phases, BesideStates, Connection!reader, Connection!channels, Connection!tasks
<1>2. ChannelTypes'
  <2>1. UNCHANGED <<c6, c8, c9, c11, c13>> /\ c10' \subseteq c10 BY DEF Connection!Route
  <2>2. c12' \in [Connection!Ids -> 0..InCapacity]
    <3>1. CASE c4.ch \in c10 /\ c4.ch \in c8
      BY <1>0, <3>1, ConnConstant DEF Connection!Route, ChannelTypes
    <3>2. CASE ~(c4.ch \in c10 /\ c4.ch \in c8)
      BY <1>0, <3>2 DEF Connection!Route, ChannelTypes
    <3> QED BY <3>1, <3>2
  <2> QED BY <1>0, <2>1, <2>2 DEF ChannelTypes
<1>3. AnswerOnce'
  BY <1>0 DEF Connection!Route, AnswerOnce, ReaderTypes, BesideTypes, OutTypes, Asked, Opening,
       IsResponse, Connection!Told, Connection!Ids, Pcs, Phases, BesideStates, Connection!reader,
       Connection!channels, Connection!tasks
<1>4. AnswerKept'
  BY <1>0 DEF Connection!Route, AnswerKept, ReaderTypes, WriterLast, OutTypes, Asked, Opening,
       IsResponse, Queued, Connection!Told, Connection!Ids, Pcs, Phases, BesideStates,
       Connection!reader, Connection!channels, Connection!tasks
<1>5. WriterLast'
  BY <1>0 DEF Connection!Route, WriterLast, ReaderTypes, Connection!Ids, Pcs, Phases, BesideStates,
       Connection!reader, Connection!channels, Connection!tasks
<1>6. OpenedOnce'
  BY <1>0 DEF Connection!Route, OpenedOnce, ReaderTypes, ChannelTypes, AnswerOnce, Asked, Opening,
       IsResponse, Connection!Told, Connection!Ids, Pcs, Phases, BesideStates, Connection!reader,
       Connection!channels, Connection!tasks
<1>7. CloseMatches'
  BY <1>0 DEF Connection!Route, CloseMatches, PeerTypes, ChannelTypes, OpenedOnce, OutTypes, Matches,
       Connection!Ids, Pcs, Phases, BesideStates, Connection!reader, Connection!channels, Connection!tasks
<1>8. HasCloser'
  BY <1>0 DEF Connection!Route, HasCloser, ReaderTypes, ChannelTypes, CloseMatches, OpenedOnce,
       WriterLast, Matches, Connection!Ids, Pcs, Phases, BesideStates, Connection!reader,
       Connection!channels, Connection!tasks
<1>9. PeerTypes' /\ BesideTypes' /\ OutTypes' /\ WireFresh'
  BY <1>0 DEF Connection!Route, Connection!reader, Connection!channels, Connection!tasks, PeerTypes,
       BesideTypes, OutTypes, WireFresh, Newer, IsHead
<1> QED BY <1>1, <1>2, <1>3, <1>4, <1>5, <1>6, <1>7, <1>8, <1>9 DEF ConnInv

(* BesideCheck keeps the invariant.                                        *)
LEMMA ConnBesideCheck ==
  ASSUME ConnInv, NEW r \in Connection!Ids, r \in DOMAIN c7, Connection!BesideCheck(r)
  PROVE  ConnInv'
<1>0. PeerTypes /\ ReaderTypes /\ ChannelTypes /\ BesideTypes /\ OutTypes
      /\ WireFresh /\ AnswerOnce /\ AnswerKept /\ WriterLast /\ OpenedOnce /\ CloseMatches /\ HasCloser
  BY DEF ConnInv
<1>1. ReaderTypes'
  BY <1>0 DEF Connection!BesideCheck, Connection!Beside, Connection!Admits, ReaderTypes, PeerTypes,
       WireFresh, Newer, IsHead, Connection!Ids, Pcs, Phases, BesideStates, Connection!reader,
       Connection!channels, Connection!tasks
<1>2. BesideTypes'
  BY <1>0 DEF Connection!BesideCheck, Connection!Beside, Connection!Admits, BesideTypes, ReaderTypes,
       Connection!Ids, Pcs, Phases, BesideStates, Connection!reader, Connection!channels, Connection!tasks
<1>3. AnswerOnce'
  BY <1>0 DEF Connection!BesideCheck, Connection!Beside, Connection!Admits, AnswerOnce, ReaderTypes,
       BesideTypes, OutTypes, Asked, Opening, IsResponse, Connection!Told, Connection!Ids, Pcs, Phases,
       BesideStates, Connection!reader, Connection!channels, Connection!tasks
<1>4. AnswerKept'
  <2>1. UNCHANGED <<c1, c3, c4, c14, c20, c21>> BY DEF Connection!BesideCheck, Connection!reader
  <2>2. Opening' = Opening BY DEF Connection!BesideCheck, Connection!Beside, Opening
  <2> QED BY <1>0, <2>1, <2>2 DEF AnswerKept, Asked, Queued, IsResponse, Connection!Told
<1>5. WriterLast'
  BY <1>0 DEF Connection!BesideCheck, Connection!Beside, Connection!Admits, WriterLast, ReaderTypes,
       Connection!Ids, Pcs, Phases, BesideStates, Connection!reader, Connection!channels, Connection!tasks
<1>6. OpenedOnce'
  BY <1>0 DEF Connection!BesideCheck, Connection!Beside, Connection!Admits, OpenedOnce, ReaderTypes,
       ChannelTypes, AnswerOnce, Asked, Opening, IsResponse, Connection!Told, Connection!Ids, Pcs,
       Phases, BesideStates, Connection!reader, Connection!channels, Connection!tasks
<1>7. HasCloser'
  BY <1>0 DEF Connection!BesideCheck, Connection!Beside, Connection!Admits, HasCloser, ReaderTypes,
       ChannelTypes, CloseMatches, OpenedOnce, WriterLast, Matches, Connection!Ids, Pcs, Phases,
       BesideStates, Connection!reader, Connection!channels, Connection!tasks
<1>8. PeerTypes' /\ ChannelTypes' /\ OutTypes' /\ WireFresh' /\ CloseMatches'
  BY <1>0 DEF Connection!BesideCheck, Connection!Beside, Connection!Admits, Connection!reader,
       Connection!channels, Connection!tasks, PeerTypes, ChannelTypes, OutTypes, WireFresh,
       CloseMatches, Newer, IsHead, Matches
<1> QED BY <1>1, <1>2, <1>3, <1>4, <1>5, <1>6, <1>7, <1>8 DEF ConnInv

(* BesideDial keeps the invariant.                                         *)
LEMMA ConnBesideDial ==
  ASSUME ConnInv, NEW r \in Connection!Ids, r \in DOMAIN c7, Connection!BesideDial(r)
  PROVE  ConnInv'
<1>0. PeerTypes /\ ReaderTypes /\ ChannelTypes /\ BesideTypes /\ OutTypes
      /\ WireFresh /\ AnswerOnce /\ AnswerKept /\ WriterLast /\ OpenedOnce /\ CloseMatches /\ HasCloser
  BY DEF ConnInv
<1>a. /\ c7[r] = "dial" /\ DOMAIN c7' = DOMAIN c7
      /\ \A q \in DOMAIN c7 : q # r => c7'[q] = c7[q]
      /\ c7'[r] \in {"sink", "reply"}
      /\ UNCHANGED <<c1, c2, Connection!reader, c10, c11, c12, c13, c14, Connection!tasks, c18, c19,
                     c20, c21, c22>>
  BY DEF Connection!BesideDial, Connection!Beside
<1>b. /\ c6' \in [Connection!Ids -> ChannelKinds] /\ c8' \subseteq c8 \cup {r} /\ c9' \subseteq c8'
      /\ (c8' = c8 \/ c7'[r] = "sink")
      /\ \A c \in Connection!Ids : c # r => c6'[c] = c6[c]
  <2>1. CASE c6' = [c6 EXCEPT ![r] = "forward"] /\ c8' = c8 \cup {r}
             /\ c9' = c9 \cup {r} /\ c7' = [c7 EXCEPT ![r] = "sink"]
    BY <1>0, <2>1 DEF ChannelTypes, ChannelKinds
  <2>2. CASE UNCHANGED <<c6, c8, c9>>
    BY <1>0, <2>2 DEF ChannelTypes
  <2> QED BY <2>1, <2>2 DEF Connection!BesideDial, Connection!Opens, Connection!Beside
<1>c. r \in c20 /\ c6[r] = "none" /\ (c3 = "handle" => c4.id # r)
  BY <1>0, <1>a DEF AnswerOnce, OpenedOnce, Asked
<1>1. ChannelTypes'
  BY <1>0, <1>a, <1>b DEF ChannelTypes
<1>2. BesideTypes'
  BY <1>0 DEF Connection!BesideDial, Connection!Beside, Connection!Opens, BesideTypes, ReaderTypes,
       Connection!Ids, Pcs, Phases, BesideStates, Connection!reader, Connection!channels, Connection!tasks
<1>3. AnswerOnce'
  BY <1>0 DEF Connection!BesideDial, Connection!Beside, Connection!Opens, AnswerOnce, ReaderTypes,
       BesideTypes, OutTypes, Asked, Opening, IsResponse, Connection!Told, Connection!Ids, Pcs, Phases,
       BesideStates, Connection!reader, Connection!channels, Connection!tasks
<1>4. AnswerKept'
  BY <1>0 DEF Connection!BesideDial, Connection!Beside, Connection!Opens, AnswerKept, ReaderTypes,
       WriterLast, OutTypes, Asked, Opening, IsResponse, Queued, Connection!Told, Connection!Ids, Pcs,
       Phases, BesideStates, Connection!reader, Connection!channels, Connection!tasks
<1>5. WriterLast'
  BY <1>0 DEF Connection!BesideDial, Connection!Beside, Connection!Opens, WriterLast, ReaderTypes,
       Connection!Ids, Pcs, Phases, BesideStates, Connection!reader, Connection!channels, Connection!tasks
<1>6. OpenedOnce'
  BY <1>0, <1>a, <1>b, <1>c DEF OpenedOnce, Connection!reader
<1>7. CloseMatches'
  <2>1. \A g : Matches(g, c6) => Matches(g, c6')
    BY <1>b, <1>c, ConnConstant DEF Matches
  <2> QED BY <1>0, <1>a, <2>1 DEF CloseMatches, Connection!reader
<1>8. HasCloser'
  <2> SUFFICES ASSUME ~Mismatched, NEW c \in c8'
               PROVE  \/ c3' = "aborted"
                      \/ c3' \in {"await", "done"} /\ c6'[c] = "exec" /\ c \in c13'
                      \/ c3' \notin {"await", "done"} /\ c \in c11'
                      \/ c \in DOMAIN c7' /\ c7'[c] \in {"sink", "closer"}
    BY DEF HasCloser
  <2>1. CASE c = r /\ c8' # c8 BY <1>a, <1>b, <2>1
  <2>2. CASE c = r /\ c \in c8
    BY <1>0, <1>a, <1>c, <2>2 DEF HasCloser, WriterLast, Connection!reader, ChannelTypes
  <2>3. CASE c # r
    BY <1>0, <1>a, <1>b, <2>3 DEF HasCloser, ChannelTypes, Connection!reader
  <2> QED BY <1>b, <2>1, <2>2, <2>3
<1>9. PeerTypes' /\ ReaderTypes' /\ OutTypes' /\ WireFresh'
  BY <1>0 DEF Connection!BesideDial, Connection!Beside, Connection!Opens, Connection!reader,
       Connection!channels, Connection!tasks, PeerTypes, ReaderTypes, OutTypes, WireFresh, Newer, IsHead
<1> QED BY <1>1, <1>2, <1>3, <1>4, <1>5, <1>6, <1>7, <1>8, <1>9 DEF ConnInv

(* BesideSink keeps the invariant.                                         *)
LEMMA ConnBesideSink ==
  ASSUME ConnInv, NEW r \in Connection!Ids, r \in DOMAIN c7, Connection!BesideSink(r)
  PROVE  ConnInv'
<1>0. PeerTypes /\ ReaderTypes /\ ChannelTypes /\ BesideTypes /\ OutTypes
      /\ WireFresh /\ AnswerOnce /\ AnswerKept /\ WriterLast /\ OpenedOnce /\ CloseMatches /\ HasCloser
  BY DEF ConnInv
<1>1. ChannelTypes'
  BY <1>0 DEF Connection!BesideSink, Connection!Beside, ChannelTypes, ReaderTypes, BesideTypes,
       Connection!Ids, Pcs, Phases, BesideStates, Connection!reader, Connection!channels, Connection!tasks
<1>2. BesideTypes'
  BY <1>0 DEF Connection!BesideSink, Connection!Beside, BesideTypes, ReaderTypes, Connection!Ids, Pcs,
       Phases, BesideStates, Connection!reader, Connection!channels, Connection!tasks
<1>3. AnswerOnce'
  BY <1>0 DEF Connection!BesideSink, Connection!Beside, AnswerOnce, ReaderTypes, BesideTypes, OutTypes,
       Asked, Opening, IsResponse, Connection!Told, Connection!Ids, Pcs, Phases, BesideStates,
       Connection!reader, Connection!channels, Connection!tasks
<1>4. AnswerKept'
  BY <1>0 DEF Connection!BesideSink, Connection!Beside, AnswerKept, ReaderTypes, WriterLast, OutTypes,
       Asked, Opening, IsResponse, Queued, Connection!Told, Connection!Ids, Pcs, Phases, BesideStates,
       Connection!reader, Connection!channels, Connection!tasks
<1>5. WriterLast'
  BY <1>0 DEF Connection!BesideSink, Connection!Beside, WriterLast, ReaderTypes, Connection!Ids, Pcs,
       Phases, BesideStates, Connection!reader, Connection!channels, Connection!tasks
<1>6. OpenedOnce'
  BY <1>0 DEF Connection!BesideSink, Connection!Beside, OpenedOnce, ReaderTypes, ChannelTypes,
       AnswerOnce, Asked, Opening, IsResponse, Connection!Told, Connection!Ids, Pcs, Phases,
       BesideStates, Connection!reader, Connection!channels, Connection!tasks
<1>7. HasCloser'
  BY <1>0 DEF Connection!BesideSink, Connection!Beside, HasCloser, ReaderTypes, ChannelTypes,
       CloseMatches, OpenedOnce, WriterLast, Matches, Connection!Ids, Pcs, Phases, BesideStates,
       Connection!reader, Connection!channels, Connection!tasks
<1>8. PeerTypes' /\ ReaderTypes' /\ OutTypes' /\ WireFresh' /\ CloseMatches'
  BY <1>0 DEF Connection!BesideSink, Connection!reader, Connection!channels, Connection!tasks,
       PeerTypes, ReaderTypes, OutTypes, WireFresh, CloseMatches, Newer, IsHead, Matches
<1> QED BY <1>1, <1>2, <1>3, <1>4, <1>5, <1>6, <1>7, <1>8 DEF ConnInv

(* BesideCloser keeps the invariant.                                       *)
LEMMA ConnBesideCloser ==
  ASSUME ConnInv, NEW r \in Connection!Ids, r \in DOMAIN c7, Connection!BesideCloser(r)
  PROVE  ConnInv'
<1>0. PeerTypes /\ ReaderTypes /\ ChannelTypes /\ BesideTypes /\ OutTypes
      /\ WireFresh /\ AnswerOnce /\ AnswerKept /\ WriterLast /\ OpenedOnce /\ CloseMatches /\ HasCloser
  BY DEF ConnInv
<1>1. ChannelTypes'
  BY <1>0 DEF Connection!BesideCloser, Connection!Beside, ChannelTypes, ReaderTypes, BesideTypes,
       Connection!Ids, Pcs, Phases, BesideStates, Connection!reader, Connection!channels, Connection!tasks
<1>2. BesideTypes'
  BY <1>0 DEF Connection!BesideCloser, Connection!Beside, BesideTypes, ReaderTypes, Connection!Ids, Pcs,
       Phases, BesideStates, Connection!reader, Connection!channels, Connection!tasks
<1>3. AnswerOnce'
  BY <1>0 DEF Connection!BesideCloser, Connection!Beside, AnswerOnce, ReaderTypes, BesideTypes,
       OutTypes, Asked, Opening, IsResponse, Connection!Told, Connection!Ids, Pcs, Phases, BesideStates,
       Connection!reader, Connection!channels, Connection!tasks
<1>4. AnswerKept'
  BY <1>0 DEF Connection!BesideCloser, Connection!Beside, AnswerKept, ReaderTypes, WriterLast, OutTypes,
       Asked, Opening, IsResponse, Queued, Connection!Told, Connection!Ids, Pcs, Phases, BesideStates,
       Connection!reader, Connection!channels, Connection!tasks
<1>5. WriterLast'
  BY <1>0 DEF Connection!BesideCloser, Connection!Beside, WriterLast, ReaderTypes, Connection!Ids, Pcs,
       Phases, BesideStates, Connection!reader, Connection!channels, Connection!tasks
<1>6. OpenedOnce'
  BY <1>0 DEF Connection!BesideCloser, Connection!Beside, OpenedOnce, ReaderTypes, ChannelTypes,
       AnswerOnce, Asked, Opening, IsResponse, Connection!Told, Connection!Ids, Pcs, Phases,
       BesideStates, Connection!reader, Connection!channels, Connection!tasks
<1>7. HasCloser'
  BY <1>0 DEF Connection!BesideCloser, Connection!Beside, HasCloser, ReaderTypes, ChannelTypes,
       CloseMatches, OpenedOnce, WriterLast, Matches, Connection!Ids, Pcs, Phases, BesideStates,
       Connection!reader, Connection!channels, Connection!tasks
<1>8. PeerTypes' /\ ReaderTypes' /\ OutTypes' /\ WireFresh' /\ CloseMatches'
  BY <1>0 DEF Connection!BesideCloser, Connection!reader, Connection!channels, Connection!tasks,
       PeerTypes, ReaderTypes, OutTypes, WireFresh, CloseMatches, Newer, IsHead, Matches
<1> QED BY <1>1, <1>2, <1>3, <1>4, <1>5, <1>6, <1>7, <1>8 DEF ConnInv

(* BesideReply keeps the invariant.                                        *)
LEMMA ConnBesideReply ==
  ASSUME ConnInv, NEW r \in Connection!Ids, r \in DOMAIN c7, Connection!BesideReply(r)
  PROVE  ConnInv'
<1>0. PeerTypes /\ ReaderTypes /\ ChannelTypes /\ BesideTypes /\ OutTypes
      /\ WireFresh /\ AnswerOnce /\ AnswerKept /\ WriterLast /\ OpenedOnce /\ CloseMatches /\ HasCloser
  BY DEF ConnInv
<1>a. /\ UNCHANGED <<c1, c2, c3, c4, c5, Connection!channels, Connection!tasks, c18, c19, c20, c21, c22>>
      /\ c7[r] = "reply" /\ c7' = [c7 EXCEPT ![r] = "done"]
      /\ \/ c15 /\ Len(c14) < OutCapacity /\ c14' = Append(c14, Connection!Response(r))
         \/ ~c15 /\ UNCHANGED c14
  BY DEF Connection!BesideReply, Connection!Beside, Connection!Room, Connection!reader
<1>b. Asked' = Asked /\ Opening' = Opening \ {r} /\ Connection!Told' = Connection!Told /\ r \in Opening /\ DOMAIN c7' = DOMAIN c7
  BY <1>a DEF Asked, Opening, Connection!Told
<1>c. r \notin Asked BY <1>0 DEF AnswerOnce
<1>d. /\ c14' \in Seq(OutFrames) /\ Len(c14') <= OutCapacity /\ AnswerOnce' /\ AnswerKept'
  <2>1. CASE Len(c14) < OutCapacity /\ c14' = Append(c14, Connection!Response(r))
    <3>1. (c3 = "aborted") => AnswerKept' BY <1>a DEF AnswerKept
    <3> QED BY <1>a, <1>b, <1>c, <2>1, <3>1, QueueResponse
  <2>2. CASE ~c15 /\ UNCHANGED c14
    <3>1. c1.gone BY <1>0, <1>a, <2>2 DEF WriterLast
    <3>2. AnswerKept' BY <1>a, <3>1 DEF AnswerKept
    <3>3. AnswerOnce' BY <1>0, <1>a, <1>b, <2>2 DEF AnswerOnce, IsResponse
    <3> QED BY <1>0, <2>2, <3>2, <3>3 DEF OutTypes
  <2> QED BY <1>a, <2>1, <2>2
<1>1. BesideTypes'
  BY <1>0 DEF Connection!BesideReply, Connection!Beside, Connection!Room, Connection!Response,
       BesideTypes, ReaderTypes, Connection!Ids, Pcs, Phases, BesideStates, Connection!reader,
       Connection!channels, Connection!tasks
<1>2. OutTypes'
  BY <1>0, <1>a, <1>d DEF OutTypes
<1>3. AnswerOnce'
  BY <1>d
<1>4. AnswerKept'
  BY <1>d
<1>5. WriterLast'
  BY <1>0 DEF Connection!BesideReply, Connection!Beside, Connection!Room, Connection!Response,
       WriterLast, ReaderTypes, Connection!Ids, Pcs, Phases, BesideStates, Connection!reader,
       Connection!channels, Connection!tasks
<1>6. OpenedOnce'
  BY <1>0 DEF Connection!BesideReply, Connection!Beside, Connection!Room, Connection!Response,
       OpenedOnce, ReaderTypes, ChannelTypes, AnswerOnce, Asked, Opening, IsResponse, Connection!Told,
       Connection!Ids, Pcs, Phases, BesideStates, Connection!reader, Connection!channels, Connection!tasks
<1>7. HasCloser'
  BY <1>0 DEF Connection!BesideReply, Connection!Beside, Connection!Room, Connection!Response,
       HasCloser, ReaderTypes, ChannelTypes, CloseMatches, OpenedOnce, WriterLast, Matches,
       Connection!Ids, Pcs, Phases, BesideStates, Connection!reader, Connection!channels, Connection!tasks
<1>8. PeerTypes' /\ ReaderTypes' /\ ChannelTypes' /\ WireFresh' /\ CloseMatches'
  BY <1>0 DEF Connection!BesideReply, Connection!reader, Connection!channels, Connection!tasks,
       PeerTypes, ReaderTypes, ChannelTypes, WireFresh, CloseMatches, Newer, IsHead, Matches
<1> QED BY <1>1, <1>2, <1>3, <1>4, <1>5, <1>6, <1>7, <1>8 DEF ConnInv

(* PumpData keeps the invariant.                                           *)
LEMMA ConnPumpData ==
  ASSUME ConnInv, NEW c \in Connection!Ids, Connection!PumpData(c)
  PROVE  ConnInv'
<1>0. PeerTypes /\ ReaderTypes /\ ChannelTypes /\ BesideTypes /\ OutTypes
      /\ WireFresh /\ AnswerOnce /\ AnswerKept /\ WriterLast /\ OpenedOnce /\ CloseMatches /\ HasCloser
  BY DEF ConnInv
<1> DEFINE x == Connection!Frame(c)
<1>a. x \in OutFrames /\ x.type # "response" BY ConnConstant DEF OutFrames, Connection!Frame, Connection!Ids
<1> HIDE DEF x
<1>b. UNCHANGED <<c1, c2, Connection!reader, c7, Connection!channels, Connection!tasks, c19, c20, c21, c22>>
  BY DEF Connection!PumpData
<1>c. UNCHANGED <<c3, c4>> BY <1>b DEF Connection!reader
<1>d. /\ c14' \in Seq(OutFrames) /\ Len(c14') <= OutCapacity /\ AnswerOnce' /\ AnswerKept'
      /\ c18' \in 0..MaxOutput
  <2>1. Len(c14) < OutCapacity /\ c14' = Append(c14, x) /\ c18 < MaxOutput /\ c18' = c18 + 1
    BY DEF Connection!PumpData, Connection!Room, x
  <2>2. c18' \in 0..MaxOutput BY <1>0, <2>1, ConnConstant DEF OutTypes
  <2> QED BY <1>a, <1>b, <1>c, <2>1, <2>2, QueueOther
<1>1. OutTypes'
  BY <1>0, <1>b, <1>d DEF OutTypes
<1>2. AnswerOnce'
  BY <1>d
<1>3. AnswerKept'
  BY <1>d
<1>4. WriterLast'
  BY <1>0 DEF Connection!PumpData, Connection!Room, Connection!Frame, WriterLast, ReaderTypes,
       Connection!Ids, Pcs, Phases, BesideStates, Connection!reader, Connection!channels, Connection!tasks
<1>5. PeerTypes' /\ ReaderTypes' /\ ChannelTypes' /\ BesideTypes' /\ WireFresh' /\ OpenedOnce' /\ CloseMatches' /\ HasCloser'
  BY <1>0 DEF Connection!PumpData, Connection!reader, Connection!channels, Connection!tasks, PeerTypes,
       ReaderTypes, ChannelTypes, BesideTypes, WireFresh, OpenedOnce, CloseMatches, HasCloser, Newer,
       IsHead, Matches
<1> QED BY <1>1, <1>2, <1>3, <1>4, <1>5 DEF ConnInv

(* PumpEnds keeps the invariant.                                           *)
LEMMA ConnPumpEnds ==
  ASSUME ConnInv, NEW c \in Connection!Ids, Connection!PumpEnds(c)
  PROVE  ConnInv'
<1>0. PeerTypes /\ ReaderTypes /\ ChannelTypes /\ BesideTypes /\ OutTypes
      /\ WireFresh /\ AnswerOnce /\ AnswerKept /\ WriterLast /\ OpenedOnce /\ CloseMatches /\ HasCloser
  BY DEF ConnInv
<1> DEFINE x == Connection!Frame(c)
<1>a. x \in OutFrames /\ x.type # "response" BY ConnConstant DEF OutFrames, Connection!Frame, Connection!Ids
<1> HIDE DEF x
<1>b. UNCHANGED <<c1, c2, Connection!reader, c6, c7, c10, c11, c12, c13, Connection!tasks, c18, c19,
                  c20, c21, c22>>
  BY DEF Connection!PumpEnds
<1>c. UNCHANGED <<c3, c4>> BY <1>b DEF Connection!reader
<1>d. /\ c14' \in Seq(OutFrames) /\ Len(c14') <= OutCapacity /\ AnswerOnce' /\ AnswerKept'
      /\ c18' \in 0..MaxOutput
  <2>1. CASE c15
    <3>1. Len(c14) < OutCapacity /\ c14' = Append(c14, x) BY <2>1 DEF Connection!PumpEnds, Connection!Room, x
    <3> QED BY <1>0, <1>a, <1>b, <1>c, <3>1, QueueOther DEF OutTypes
  <2>2. CASE ~c15
    <3>1. c14' = c14 BY <2>2 DEF Connection!PumpEnds
    <3> QED BY <1>0, <1>b, <1>c, <3>1 DEF OutTypes, AnswerOnce, AnswerKept, Asked, Opening, Queued,
         IsResponse, Connection!Told
  <2> QED BY <2>1, <2>2
<1>1. ChannelTypes'
  BY <1>0 DEF Connection!PumpEnds, Connection!Room, Connection!Frame, ChannelTypes, ReaderTypes,
       BesideTypes, Connection!Ids, Pcs, Phases, BesideStates, Connection!reader, Connection!channels,
       Connection!tasks
<1>2. OutTypes'
  BY <1>0, <1>b, <1>d DEF OutTypes
<1>3. AnswerOnce'
  BY <1>d
<1>4. AnswerKept'
  BY <1>d
<1>5. WriterLast'
  BY <1>0 DEF Connection!PumpEnds, Connection!Room, Connection!Frame, WriterLast, ReaderTypes,
       Connection!Ids, Pcs, Phases, BesideStates, Connection!reader, Connection!channels, Connection!tasks
<1>6. HasCloser'
  BY <1>0 DEF Connection!PumpEnds, Connection!Room, Connection!Frame, HasCloser, ReaderTypes,
       ChannelTypes, CloseMatches, OpenedOnce, WriterLast, Matches, Connection!Ids, Pcs, Phases,
       BesideStates, Connection!reader, Connection!channels, Connection!tasks
<1>7. PeerTypes' /\ ReaderTypes' /\ BesideTypes' /\ WireFresh' /\ OpenedOnce' /\ CloseMatches'
  BY <1>0 DEF Connection!PumpEnds, Connection!reader, Connection!channels, Connection!tasks, PeerTypes,
       ReaderTypes, BesideTypes, WireFresh, OpenedOnce, CloseMatches, Newer, IsHead, Matches
<1> QED BY <1>1, <1>2, <1>3, <1>4, <1>5, <1>6, <1>7 DEF ConnInv

(* PumpInbound keeps the invariant.                                        *)
LEMMA ConnPumpInbound ==
  ASSUME ConnInv, NEW c \in Connection!Ids, Connection!PumpInbound(c)
  PROVE  ConnInv'
<1>0. PeerTypes /\ ReaderTypes /\ ChannelTypes /\ BesideTypes /\ OutTypes
      /\ WireFresh /\ AnswerOnce /\ AnswerKept /\ WriterLast /\ OpenedOnce /\ CloseMatches /\ HasCloser
  BY DEF ConnInv
<1>1. ChannelTypes'
  <2>1. c12' \in [Connection!Ids -> 0..InCapacity]
    BY <1>0, ConnConstant DEF Connection!PumpInbound, ChannelTypes
  <2> QED BY <1>0, <2>1 DEF Connection!PumpInbound, ChannelTypes
<1>2. PeerTypes' /\ ReaderTypes' /\ BesideTypes' /\ OutTypes' /\ WireFresh' /\ AnswerOnce' /\ AnswerKept' /\ WriterLast' /\ OpenedOnce' /\ CloseMatches' /\ HasCloser'
  BY <1>0 DEF Connection!PumpInbound, Connection!reader, Connection!channels, Connection!tasks,
       PeerTypes, ReaderTypes, BesideTypes, OutTypes, WireFresh, AnswerOnce, AnswerKept, WriterLast,
       OpenedOnce, CloseMatches, HasCloser, Newer, IsHead, Asked, Opening, IsResponse, Connection!Told,
       Queued, Matches
<1> QED BY <1>1, <1>2 DEF ConnInv

(* ForwardEvent keeps the invariant.                                       *)
LEMMA ConnForwardEvent ==
  ASSUME ConnInv, Connection!ForwardEvent
  PROVE  ConnInv'
<1>0. PeerTypes /\ ReaderTypes /\ ChannelTypes /\ BesideTypes /\ OutTypes
      /\ WireFresh /\ AnswerOnce /\ AnswerKept /\ WriterLast /\ OpenedOnce /\ CloseMatches /\ HasCloser
  BY DEF ConnInv
<1> DEFINE x == [type |-> "event", id |-> 0]
<1>a. x \in OutFrames /\ x.type # "response" BY ConnConstant DEF OutFrames, Connection!Frame, Connection!Ids
<1> HIDE DEF x
<1>b. UNCHANGED <<c1, c2, Connection!reader, c7, Connection!channels, Connection!tasks, c19, c20, c21, c22>>
  BY DEF Connection!ForwardEvent
<1>c. UNCHANGED <<c3, c4>> BY <1>b DEF Connection!reader
<1>d. /\ c14' \in Seq(OutFrames) /\ Len(c14') <= OutCapacity /\ AnswerOnce' /\ AnswerKept'
      /\ c18' \in 0..MaxOutput
  <2>1. Len(c14) < OutCapacity /\ c14' = Append(c14, x) /\ c18 < MaxOutput /\ c18' = c18 + 1
    BY DEF Connection!ForwardEvent, Connection!Room, x
  <2>2. c18' \in 0..MaxOutput BY <1>0, <2>1, ConnConstant DEF OutTypes
  <2> QED BY <1>a, <1>b, <1>c, <2>1, <2>2, QueueOther
<1>1. OutTypes'
  BY <1>0, <1>b, <1>d DEF OutTypes
<1>2. AnswerOnce'
  BY <1>d
<1>3. AnswerKept'
  BY <1>d
<1>4. WriterLast'
  BY <1>0 DEF Connection!ForwardEvent, Connection!Room, WriterLast, ReaderTypes, Connection!Ids, Pcs,
       Phases, BesideStates, Connection!reader, Connection!channels, Connection!tasks
<1>5. PeerTypes' /\ ReaderTypes' /\ ChannelTypes' /\ BesideTypes' /\ WireFresh' /\ OpenedOnce' /\ CloseMatches' /\ HasCloser'
  BY <1>0 DEF Connection!ForwardEvent, Connection!reader, Connection!channels, Connection!tasks,
       PeerTypes, ReaderTypes, ChannelTypes, BesideTypes, WireFresh, OpenedOnce, CloseMatches,
       HasCloser, Newer, IsHead, Matches
<1> QED BY <1>1, <1>2, <1>3, <1>4, <1>5 DEF ConnInv

(* ForwarderStops keeps the invariant.                                     *)
LEMMA ConnForwarderStops ==
  ASSUME ConnInv, Connection!ForwarderStops
  PROVE  ConnInv'
<1>0. PeerTypes /\ ReaderTypes /\ ChannelTypes /\ BesideTypes /\ OutTypes
      /\ WireFresh /\ AnswerOnce /\ AnswerKept /\ WriterLast /\ OpenedOnce /\ CloseMatches /\ HasCloser
  BY DEF ConnInv
<1>1. ReaderTypes'
  BY <1>0 DEF Connection!ForwarderStops, ReaderTypes, PeerTypes, WireFresh, Newer, IsHead,
       Connection!Ids, Pcs, Phases, BesideStates, Connection!reader, Connection!channels, Connection!tasks
<1>2. WriterLast'
  BY <1>0 DEF Connection!ForwarderStops, WriterLast, ReaderTypes, Connection!Ids, Pcs, Phases,
       BesideStates, Connection!reader, Connection!channels, Connection!tasks
<1>3. PeerTypes' /\ ChannelTypes' /\ BesideTypes' /\ OutTypes' /\ WireFresh' /\ AnswerOnce' /\ AnswerKept' /\ OpenedOnce' /\ CloseMatches' /\ HasCloser'
  BY <1>0 DEF Connection!ForwarderStops, Connection!reader, Connection!channels, Connection!tasks,
       PeerTypes, ChannelTypes, BesideTypes, OutTypes, WireFresh, AnswerOnce, AnswerKept, OpenedOnce,
       CloseMatches, HasCloser, Newer, IsHead, Asked, Opening, IsResponse, Connection!Told, Queued, Matches
<1> QED BY <1>1, <1>2, <1>3 DEF ConnInv

(* Write keeps the invariant.                                              *)
LEMMA ConnWrite ==
  ASSUME ConnInv, Connection!Write
  PROVE  ConnInv'
<1>0. PeerTypes /\ ReaderTypes /\ ChannelTypes /\ BesideTypes /\ OutTypes
      /\ WireFresh /\ AnswerOnce /\ AnswerKept /\ WriterLast /\ OpenedOnce /\ CloseMatches /\ HasCloser
  BY DEF ConnInv
<1>a. UNCHANGED <<c1, c2, Connection!reader, c7, Connection!channels, c16, c17, c18, c19, c20, c22>>
  BY DEF Connection!Write
<1>b. UNCHANGED <<c3, c4>> /\ c15 /\ c14 # << >> BY <1>a DEF Connection!reader, Connection!Write
<1>c. c14 \in Seq(OutFrames) /\ c21 \in Seq(Connection!Ids) /\ Len(c14) <= OutCapacity BY <1>0 DEF OutTypes
<1>d. ASSUME c1.gone PROVE OutTypes' /\ AnswerOnce' /\ AnswerKept'
  <2>1. ~c15' /\ c14' = << >> /\ c21' = c21 BY <1>d DEF Connection!Write
  <2>2. OutTypes' BY <1>0, <1>a, <2>1, ConnConstant DEF OutTypes
  <2>3. AnswerOnce' BY <1>0, <1>a, <1>b, <2>1 DEF AnswerOnce, Asked, Opening, IsResponse, Connection!Told
  <2>4. AnswerKept' BY <1>a, <1>d DEF AnswerKept
  <2> QED BY <2>2, <2>3, <2>4
<1>e. ASSUME ~c1.gone PROVE OutTypes' /\ AnswerOnce' /\ AnswerKept'
  <2>1. c14' = Tail(c14) /\ c15'
        /\ c21' = IF Head(c14).type = "response" THEN Append(c21, Head(c14).id) ELSE c21
    BY <1>b, <1>e DEF Connection!Write
  <2>2. /\ c14' \in Seq(OutFrames) /\ Len(c14) \in Nat \ {0} /\ Len(c14') = Len(c14) - 1
        /\ \A i \in 1..(Len(c14) - 1) : c14'[i] = c14[i + 1]
        /\ Head(c14) = c14[1]
    BY <1>b, <1>c, <2>1, SeqDropOne
  <2>3. /\ \A i \in 1..Len(c14') : /\ i + 1 \in 1..Len(c14) /\ IsResponse(i)' = IsResponse(i + 1)
                                    /\ c14'[i].id = c14[i + 1].id
    BY <2>2 DEF IsResponse
  <2>4. Asked' = Asked /\ Opening' = Opening BY <1>a, <1>b DEF Asked, Opening
  <2>5. CASE IsResponse(1)
    <3> DEFINE id == c14[1].id
    <3>1. c21' = Append(c21, id) BY <2>1, <2>2, <2>5 DEF IsResponse
    <3>2. id \in c20 /\ id \notin Asked \cup Opening \cup Connection!Told
          /\ \A i \in 1..Len(c14) : IsResponse(i) /\ i # 1 => c14[i].id # id
      BY <1>0, <2>2, <2>5 DEF AnswerOnce
    <3>3. id \in Connection!Ids BY <1>0, <3>2 DEF OutTypes
    <3> HIDE DEF id
    <3>4. /\ c21' \in Seq(Connection!Ids) /\ Len(c21') = Len(c21) + 1 /\ Len(c21) \in Nat
          /\ \A i \in 1..Len(c21) : c21'[i] = c21[i]
          /\ c21'[Len(c21) + 1] = id
      BY <1>c, <3>1, <3>3, SeqOne
    <3>5. Connection!Told' = Connection!Told \cup {id}
      BY <1>c, <3>4 DEF Connection!Told, Connection!ToSet
    <3>6. \A i \in 1..Len(c21) : c21[i] # id
      BY <1>c, <3>2 DEF Connection!Told, Connection!ToSet
    <3>7. \A i, j \in 1..Len(c21') : c21'[i] = c21'[j] => i = j
      <4> SUFFICES ASSUME NEW i \in 1..Len(c21'), NEW j \in 1..Len(c21'), c21'[i] = c21'[j]
                   PROVE  i = j
        OBVIOUS
      <4>1. CASE i \in 1..Len(c21) /\ j \in 1..Len(c21)
        BY <1>0, <3>4, <4>1 DEF AnswerOnce
      <4>2. CASE i = Len(c21) + 1 /\ j \in 1..Len(c21) BY <3>4, <3>6, <4>2
      <4>3. CASE j = Len(c21) + 1 /\ i \in 1..Len(c21) BY <3>4, <3>6, <4>3
      <4> QED BY <3>4, <4>1, <4>2, <4>3
    <3>8. \A i \in 1..Len(c14') : IsResponse(i)' =>
            c14'[i].id \in c20' /\ c14'[i].id \notin (Asked \cup Opening \cup Connection!Told)'
      BY <1>0, <1>a, <2>2, <2>3, <2>4, <3>2, <3>5 DEF AnswerOnce
    <3>9. \A i, j \in 1..Len(c14') :
            IsResponse(i)' /\ IsResponse(j)' /\ c14'[i].id = c14'[j].id => i = j
      BY <1>0, <2>2, <2>3 DEF AnswerOnce
    <3>10. AnswerOnce'
      BY <1>0, <1>a, <2>4, <3>2, <3>5, <3>7, <3>8, <3>9 DEF AnswerOnce
    <3>11. Queued \subseteq Queued' \cup {id}
      <4> SUFFICES ASSUME NEW j \in 1..Len(c14), IsResponse(j), j # 1
                   PROVE  c14[j].id \in Queued'
        BY DEF Queued, id
      <4>1. j - 1 \in 1..Len(c14') /\ (j - 1) + 1 = j BY <2>2
      <4>2. IsResponse(j - 1)' /\ c14'[j - 1].id = c14[j].id BY <2>3, <4>1
      <4> QED BY <4>1, <4>2 DEF Queued
    <3>12. AnswerKept' BY <1>0, <1>a, <1>b, <2>4, <3>5, <3>11 DEF AnswerKept
    <3> QED BY <1>0, <1>a, <1>c, <2>2, <3>4, <3>10, <3>12, ConnConstant DEF OutTypes
  <2>6. CASE ~IsResponse(1)
    <3>1. c21' = c21 /\ Connection!Told' = Connection!Told BY <2>1, <2>2, <2>6 DEF IsResponse, Connection!Told
    <3>2. AnswerOnce' BY <1>0, <1>a, <2>2, <2>3, <2>4, <3>1 DEF AnswerOnce
    <3>3. Queued \subseteq Queued'
      <4> SUFFICES ASSUME NEW j \in 1..Len(c14), IsResponse(j), j # 1
                   PROVE  c14[j].id \in Queued'
        BY <2>6 DEF Queued
      <4>1. j - 1 \in 1..Len(c14') /\ (j - 1) + 1 = j BY <2>2
      <4>2. IsResponse(j - 1)' /\ c14'[j - 1].id = c14[j].id BY <2>3, <4>1
      <4> QED BY <4>1, <4>2 DEF Queued
    <3>4. AnswerKept' BY <1>0, <1>a, <1>b, <2>4, <3>1, <3>3 DEF AnswerKept
    <3> QED BY <1>0, <1>a, <1>c, <2>2, <3>1, <3>2, <3>4, ConnConstant DEF OutTypes
  <2> QED BY <2>5, <2>6
<1>1. ReaderTypes'
  BY <1>0 DEF Connection!Write, ReaderTypes, PeerTypes, WireFresh, Newer, IsHead, Connection!Ids, Pcs,
       Phases, BesideStates, Connection!reader, Connection!channels, Connection!tasks
<1>2. OutTypes'
  BY <1>d, <1>e
<1>3. AnswerOnce'
  BY <1>d, <1>e
<1>4. AnswerKept'
  BY <1>d, <1>e
<1>5. WriterLast'
  BY <1>0 DEF Connection!Write, WriterLast, ReaderTypes, Connection!Ids, Pcs, Phases, BesideStates,
       Connection!reader, Connection!channels, Connection!tasks
<1>6. PeerTypes' /\ ChannelTypes' /\ BesideTypes' /\ WireFresh' /\ OpenedOnce' /\ CloseMatches' /\ HasCloser'
  BY <1>0 DEF Connection!Write, Connection!reader, Connection!channels, Connection!tasks, PeerTypes,
       ChannelTypes, BesideTypes, WireFresh, OpenedOnce, CloseMatches, HasCloser, Newer, IsHead, Matches
<1> QED BY <1>1, <1>2, <1>3, <1>4, <1>5, <1>6 DEF ConnInv

(* WriterEnds keeps the invariant.                                         *)
LEMMA ConnWriterEnds ==
  ASSUME ConnInv, Connection!WriterEnds
  PROVE  ConnInv'
<1>0. PeerTypes /\ ReaderTypes /\ ChannelTypes /\ BesideTypes /\ OutTypes
      /\ WireFresh /\ AnswerOnce /\ AnswerKept /\ WriterLast /\ OpenedOnce /\ CloseMatches /\ HasCloser
  BY DEF ConnInv
<1>1. ReaderTypes'
  BY <1>0 DEF Connection!WriterEnds, Connection!Senders, ReaderTypes, PeerTypes, WireFresh, Newer,
       IsHead, Connection!Ids, Pcs, Phases, BesideStates, Connection!reader, Connection!channels,
       Connection!tasks
<1>2. WriterLast'
  BY <1>0 DEF Connection!WriterEnds, Connection!Senders, WriterLast, ReaderTypes, Connection!Ids, Pcs,
       Phases, BesideStates, Connection!reader, Connection!channels, Connection!tasks
<1>3. PeerTypes' /\ ChannelTypes' /\ BesideTypes' /\ OutTypes' /\ WireFresh' /\ AnswerOnce' /\ AnswerKept' /\ OpenedOnce' /\ CloseMatches' /\ HasCloser'
  BY <1>0 DEF Connection!WriterEnds, Connection!reader, Connection!channels, Connection!tasks,
       PeerTypes, ChannelTypes, BesideTypes, OutTypes, WireFresh, AnswerOnce, AnswerKept, OpenedOnce,
       CloseMatches, HasCloser, Newer, IsHead, Asked, Opening, IsResponse, Connection!Told, Queued, Matches
<1> QED BY <1>1, <1>2, <1>3 DEF ConnInv

(* Cancel keeps the invariant.                                             *)
LEMMA ConnCancel ==
  ASSUME ConnInv, Connection!Cancel
  PROVE  ConnInv'
<1>0. PeerTypes /\ ReaderTypes /\ ChannelTypes /\ BesideTypes /\ OutTypes
      /\ WireFresh /\ AnswerOnce /\ AnswerKept /\ WriterLast /\ OpenedOnce /\ CloseMatches /\ HasCloser
  BY DEF ConnInv
<1>1. ReaderTypes'
  BY <1>0 DEF Connection!Cancel, ReaderTypes, PeerTypes, WireFresh, Newer, IsHead, Connection!Ids, Pcs,
       Phases, BesideStates, Connection!reader, Connection!channels, Connection!tasks
<1>2. AnswerOnce'
  BY <1>0 DEF Connection!Cancel, AnswerOnce, ReaderTypes, BesideTypes, OutTypes, Asked, Opening,
       IsResponse, Connection!Told, Connection!Ids, Pcs, Phases, BesideStates, Connection!reader,
       Connection!channels, Connection!tasks
<1>3. AnswerKept'
  BY <1>0 DEF Connection!Cancel, AnswerKept, ReaderTypes, WriterLast, OutTypes, Asked, Opening,
       IsResponse, Queued, Connection!Told, Connection!Ids, Pcs, Phases, BesideStates,
       Connection!reader, Connection!channels, Connection!tasks
<1>4. WriterLast'
  BY <1>0 DEF Connection!Cancel, WriterLast, ReaderTypes, Connection!Ids, Pcs, Phases, BesideStates,
       Connection!reader, Connection!channels, Connection!tasks
<1>5. OpenedOnce'
  BY <1>0 DEF Connection!Cancel, OpenedOnce, ReaderTypes, ChannelTypes, AnswerOnce, Asked, Opening,
       IsResponse, Connection!Told, Connection!Ids, Pcs, Phases, BesideStates, Connection!reader,
       Connection!channels, Connection!tasks
<1>6. CloseMatches'
  BY <1>0 DEF Connection!Cancel, CloseMatches, PeerTypes, ChannelTypes, OpenedOnce, OutTypes, Matches,
       Connection!Ids, Pcs, Phases, BesideStates, Connection!reader, Connection!channels, Connection!tasks
<1>7. HasCloser'
  BY <1>0 DEF Connection!Cancel, HasCloser, ReaderTypes, ChannelTypes, CloseMatches, OpenedOnce,
       WriterLast, Matches, Connection!Ids, Pcs, Phases, BesideStates, Connection!reader,
       Connection!channels, Connection!tasks
<1>8. PeerTypes' /\ ChannelTypes' /\ BesideTypes' /\ OutTypes' /\ WireFresh'
  BY <1>0 DEF Connection!Cancel, Connection!reader, Connection!channels, Connection!tasks, PeerTypes,
       ChannelTypes, BesideTypes, OutTypes, WireFresh, Newer, IsHead
<1> QED BY <1>1, <1>2, <1>3, <1>4, <1>5, <1>6, <1>7, <1>8 DEF ConnInv

(* Join keeps the invariant.                                               *)
LEMMA ConnJoin ==
  ASSUME ConnInv, Connection!Join
  PROVE  ConnInv'
<1>0. PeerTypes /\ ReaderTypes /\ ChannelTypes /\ BesideTypes /\ OutTypes
      /\ WireFresh /\ AnswerOnce /\ AnswerKept /\ WriterLast /\ OpenedOnce /\ CloseMatches /\ HasCloser
  BY DEF ConnInv
<1>1. ReaderTypes'
  BY <1>0 DEF Connection!Join, ReaderTypes, PeerTypes, WireFresh, Newer, IsHead, Connection!Ids, Pcs,
       Phases, BesideStates, Connection!reader, Connection!channels, Connection!tasks
<1>2. BesideTypes'
  BY <1>0 DEF Connection!Join, BesideTypes, ReaderTypes, Connection!Ids, Pcs, Phases, BesideStates,
       Connection!reader, Connection!channels, Connection!tasks
<1>3. AnswerOnce'
  BY <1>0 DEF Connection!Join, AnswerOnce, ReaderTypes, BesideTypes, OutTypes, Asked, Opening,
       IsResponse, Connection!Told, Connection!Ids, Pcs, Phases, BesideStates, Connection!reader,
       Connection!channels, Connection!tasks
<1>4. AnswerKept'
  BY <1>0 DEF Connection!Join, AnswerKept, ReaderTypes, WriterLast, OutTypes, Asked, Opening,
       IsResponse, Queued, Connection!Told, Connection!Ids, Pcs, Phases, BesideStates,
       Connection!reader, Connection!channels, Connection!tasks
<1>5. WriterLast'
  BY <1>0 DEF Connection!Join, WriterLast, ReaderTypes, Connection!Ids, Pcs, Phases, BesideStates,
       Connection!reader, Connection!channels, Connection!tasks
<1>6. OpenedOnce'
  BY <1>0 DEF Connection!Join, OpenedOnce, ReaderTypes, ChannelTypes, AnswerOnce, Asked, Opening,
       IsResponse, Connection!Told, Connection!Ids, Pcs, Phases, BesideStates, Connection!reader,
       Connection!channels, Connection!tasks
<1>7. CloseMatches'
  BY <1>0 DEF Connection!Join, CloseMatches, PeerTypes, ChannelTypes, OpenedOnce, OutTypes, Matches,
       Connection!Ids, Pcs, Phases, BesideStates, Connection!reader, Connection!channels, Connection!tasks
<1>8. HasCloser'
  BY <1>0 DEF Connection!Join, HasCloser, ReaderTypes, ChannelTypes, CloseMatches, OpenedOnce,
       WriterLast, Matches, Connection!Ids, Pcs, Phases, BesideStates, Connection!reader,
       Connection!channels, Connection!tasks
<1>9. PeerTypes' /\ ChannelTypes' /\ OutTypes' /\ WireFresh'
  BY <1>0 DEF Connection!Join, Connection!reader, Connection!channels, Connection!tasks, PeerTypes,
       ChannelTypes, OutTypes, WireFresh, Newer, IsHead
<1> QED BY <1>1, <1>2, <1>3, <1>4, <1>5, <1>6, <1>7, <1>8, <1>9 DEF ConnInv

(* RunClosers keeps the invariant.                                         *)
LEMMA ConnRunClosers ==
  ASSUME ConnInv, Connection!RunClosers
  PROVE  ConnInv'
<1>0. PeerTypes /\ ReaderTypes /\ ChannelTypes /\ BesideTypes /\ OutTypes
      /\ WireFresh /\ AnswerOnce /\ AnswerKept /\ WriterLast /\ OpenedOnce /\ CloseMatches /\ HasCloser
  BY DEF ConnInv
<1>1. ReaderTypes'
  BY <1>0 DEF Connection!RunClosers, ReaderTypes, PeerTypes, WireFresh, Newer, IsHead, Connection!Ids,
       Pcs, Phases, BesideStates, Connection!reader, Connection!channels, Connection!tasks
<1>2. ChannelTypes'
  BY <1>0 DEF Connection!RunClosers, ChannelTypes, ReaderTypes, BesideTypes, Connection!Ids, Pcs,
       Phases, BesideStates, Connection!reader, Connection!channels, Connection!tasks
<1>3. AnswerOnce'
  BY <1>0 DEF Connection!RunClosers, AnswerOnce, ReaderTypes, BesideTypes, OutTypes, Asked, Opening,
       IsResponse, Connection!Told, Connection!Ids, Pcs, Phases, BesideStates, Connection!reader,
       Connection!channels, Connection!tasks
<1>4. AnswerKept'
  BY <1>0 DEF Connection!RunClosers, AnswerKept, ReaderTypes, WriterLast, OutTypes, Asked, Opening,
       IsResponse, Queued, Connection!Told, Connection!Ids, Pcs, Phases, BesideStates,
       Connection!reader, Connection!channels, Connection!tasks
<1>5. WriterLast'
  BY <1>0 DEF Connection!RunClosers, WriterLast, ReaderTypes, Connection!Ids, Pcs, Phases, BesideStates,
       Connection!reader, Connection!channels, Connection!tasks
<1>6. OpenedOnce'
  BY <1>0 DEF Connection!RunClosers, OpenedOnce, ReaderTypes, ChannelTypes, AnswerOnce, Asked, Opening,
       IsResponse, Connection!Told, Connection!Ids, Pcs, Phases, BesideStates, Connection!reader,
       Connection!channels, Connection!tasks
<1>7. CloseMatches'
  BY <1>0 DEF Connection!RunClosers, CloseMatches, PeerTypes, ChannelTypes, OpenedOnce, OutTypes,
       Matches, Connection!Ids, Pcs, Phases, BesideStates, Connection!reader, Connection!channels,
       Connection!tasks
<1>8. HasCloser'
  BY <1>0 DEF Connection!RunClosers, HasCloser, ReaderTypes, ChannelTypes, CloseMatches, OpenedOnce,
       WriterLast, Matches, Connection!Ids, Pcs, Phases, BesideStates, Connection!reader,
       Connection!channels, Connection!tasks
<1>9. PeerTypes' /\ BesideTypes' /\ OutTypes' /\ WireFresh'
  BY <1>0 DEF Connection!RunClosers, Connection!reader, Connection!channels, Connection!tasks,
       PeerTypes, BesideTypes, OutTypes, WireFresh, Newer, IsHead
<1> QED BY <1>1, <1>2, <1>3, <1>4, <1>5, <1>6, <1>7, <1>8, <1>9 DEF ConnInv

(* Finish keeps the invariant.                                             *)
LEMMA ConnFinish ==
  ASSUME ConnInv, Connection!Finish
  PROVE  ConnInv'
<1>0. PeerTypes /\ ReaderTypes /\ ChannelTypes /\ BesideTypes /\ OutTypes
      /\ WireFresh /\ AnswerOnce /\ AnswerKept /\ WriterLast /\ OpenedOnce /\ CloseMatches /\ HasCloser
  BY DEF ConnInv
<1>1. ReaderTypes'
  BY <1>0 DEF Connection!Finish, Connection!WriterJoined, ReaderTypes, PeerTypes, WireFresh, Newer,
       IsHead, Connection!Ids, Pcs, Phases, BesideStates, Connection!reader, Connection!channels,
       Connection!tasks
<1>2. AnswerOnce'
  BY <1>0 DEF Connection!Finish, Connection!WriterJoined, AnswerOnce, ReaderTypes, BesideTypes,
       OutTypes, Asked, Opening, IsResponse, Connection!Told, Connection!Ids, Pcs, Phases, BesideStates,
       Connection!reader, Connection!channels, Connection!tasks
<1>3. AnswerKept'
  BY <1>0 DEF Connection!Finish, Connection!WriterJoined, AnswerKept, ReaderTypes, WriterLast, OutTypes,
       Asked, Opening, IsResponse, Queued, Connection!Told, Connection!Ids, Pcs, Phases, BesideStates,
       Connection!reader, Connection!channels, Connection!tasks
<1>4. WriterLast'
  BY <1>0 DEF Connection!Finish, Connection!WriterJoined, WriterLast, ReaderTypes, Connection!Ids, Pcs,
       Phases, BesideStates, Connection!reader, Connection!channels, Connection!tasks
<1>5. OpenedOnce'
  BY <1>0 DEF Connection!Finish, Connection!WriterJoined, OpenedOnce, ReaderTypes, ChannelTypes,
       AnswerOnce, Asked, Opening, IsResponse, Connection!Told, Connection!Ids, Pcs, Phases,
       BesideStates, Connection!reader, Connection!channels, Connection!tasks
<1>6. CloseMatches'
  BY <1>0 DEF Connection!Finish, Connection!WriterJoined, CloseMatches, PeerTypes, ChannelTypes,
       OpenedOnce, OutTypes, Matches, Connection!Ids, Pcs, Phases, BesideStates, Connection!reader,
       Connection!channels, Connection!tasks
<1>7. HasCloser'
  BY <1>0 DEF Connection!Finish, Connection!WriterJoined, HasCloser, ReaderTypes, ChannelTypes,
       CloseMatches, OpenedOnce, WriterLast, Matches, Connection!Ids, Pcs, Phases, BesideStates,
       Connection!reader, Connection!channels, Connection!tasks
<1>8. PeerTypes' /\ ChannelTypes' /\ BesideTypes' /\ OutTypes' /\ WireFresh'
  BY <1>0 DEF Connection!Finish, Connection!reader, Connection!channels, Connection!tasks, PeerTypes,
       ChannelTypes, BesideTypes, OutTypes, WireFresh, Newer, IsHead
<1> QED BY <1>1, <1>2, <1>3, <1>4, <1>5, <1>6, <1>7, <1>8 DEF ConnInv

(* Daemon keeps the invariant.                                             *)
LEMMA ConnDaemon ==
  ASSUME ConnInv, Connection!Daemon
  PROVE  ConnInv'
<1>0. PeerTypes /\ ReaderTypes /\ ChannelTypes /\ BesideTypes /\ OutTypes
      /\ WireFresh /\ AnswerOnce /\ AnswerKept /\ WriterLast /\ OpenedOnce /\ CloseMatches /\ HasCloser
  BY DEF ConnInv
<1>1. ReaderTypes'
  BY <1>0 DEF Connection!Daemon, ReaderTypes, PeerTypes, WireFresh, Newer, IsHead, Connection!Ids, Pcs,
       Phases, BesideStates, Connection!reader, Connection!channels, Connection!tasks
<1>2. BesideTypes'
  BY <1>0 DEF Connection!Daemon, BesideTypes, ReaderTypes, Connection!Ids, Pcs, Phases, BesideStates,
       Connection!reader, Connection!channels, Connection!tasks
<1>3. AnswerOnce'
  BY <1>0 DEF Connection!Daemon, AnswerOnce, ReaderTypes, BesideTypes, OutTypes, Asked, Opening,
       IsResponse, Connection!Told, Connection!Ids, Pcs, Phases, BesideStates, Connection!reader,
       Connection!channels, Connection!tasks
<1>4. AnswerKept'
  BY <1>0 DEF Connection!Daemon, AnswerKept, ReaderTypes, WriterLast, OutTypes, Asked, Opening,
       IsResponse, Queued, Connection!Told, Connection!Ids, Pcs, Phases, BesideStates,
       Connection!reader, Connection!channels, Connection!tasks
<1>5. WriterLast'
  BY <1>0 DEF Connection!Daemon, WriterLast, ReaderTypes, Connection!Ids, Pcs, Phases, BesideStates,
       Connection!reader, Connection!channels, Connection!tasks
<1>6. OpenedOnce'
  BY <1>0 DEF Connection!Daemon, OpenedOnce, ReaderTypes, ChannelTypes, AnswerOnce, Asked, Opening,
       IsResponse, Connection!Told, Connection!Ids, Pcs, Phases, BesideStates, Connection!reader,
       Connection!channels, Connection!tasks
<1>7. CloseMatches'
  BY <1>0 DEF Connection!Daemon, CloseMatches, PeerTypes, ChannelTypes, OpenedOnce, OutTypes, Matches,
       Connection!Ids, Pcs, Phases, BesideStates, Connection!reader, Connection!channels, Connection!tasks
<1>8. HasCloser'
  BY <1>0 DEF Connection!Daemon, HasCloser, ReaderTypes, ChannelTypes, CloseMatches, OpenedOnce,
       WriterLast, Matches, Connection!Ids, Pcs, Phases, BesideStates, Connection!reader,
       Connection!channels, Connection!tasks
<1>9. PeerTypes' /\ ChannelTypes' /\ OutTypes' /\ WireFresh'
  BY <1>0 DEF Connection!Daemon, Connection!reader, Connection!channels, Connection!tasks, PeerTypes,
       ChannelTypes, OutTypes, WireFresh, Newer, IsHead
<1> QED BY <1>1, <1>2, <1>3, <1>4, <1>5, <1>6, <1>7, <1>8, <1>9 DEF ConnInv

(* The invariant holds when the connection is accepted.                    *)
LEMMA ConnInitial ==
  ASSUME Connection!Init
  PROVE  ConnInv
<1> USE DEF Connection!Init
<1>1. PeerTypes BY ConnConstant DEF PeerTypes, Parts
<1>2. ReaderTypes /\ BesideTypes
  <2>1. DOMAIN c7 = {} OBVIOUS
  <2>2. {c15, c16, c17, c22} \subseteq BOOLEAN BY Zenon
  <2> QED BY <2>1, <2>2 DEF ReaderTypes, BesideTypes, Pcs, Phases
<1>3. ChannelTypes BY ConnConstant DEF ChannelTypes, ChannelKinds
<1>4. OutTypes BY ConnConstant DEF OutTypes, Connection!Ids
<1>5. WireFresh BY DEF WireFresh, Connection!NoFrame
<1>6. Connection!Told = {} BY DEF Connection!Told, Connection!ToSet
<1>7. AnswerOnce BY <1>6 DEF AnswerOnce, Asked, Opening
<1>8. AnswerKept /\ WriterLast BY DEF AnswerKept, WriterLast
<1>9. OpenedOnce /\ HasCloser BY DEF OpenedOnce, HasCloser
<1>10. CloseMatches BY ConnConstant DEF CloseMatches, Matches
<1> QED BY <1>1, <1>2, <1>3, <1>4, <1>5, <1>7, <1>8, <1>9, <1>10 DEF ConnInv

(* Every step of the connection keeps the invariant.                       *)
LEMMA ConnStep ==
  ASSUME ConnInv, Connection!Next
  PROVE  ConnInv'
<1>1. CASE Connection!PeerActs
  BY <1>1, ConnPeerSends, ConnBodyArrives, ConnPeerStops DEF Connection!PeerActs
<1>2. CASE Connection!Read
  BY <1>2, ConnReadWhole, ConnReadHead, ConnReadBody, ConnReadJunk, ConnReadEof DEF Connection!Read
<1>3. CASE Connection!Handle
  BY <1>3, ConnHandleForward, ConnHandleOpen, ConnHandleClose, ConnHandlePlain, ConnReply, ConnRoute
     DEF Connection!Handle
<1>4. CASE Connection!Teardown
  BY <1>4, ConnCancel, ConnJoin, ConnRunClosers, ConnFinish DEF Connection!Teardown
<1>5. CASE \E r \in Connection!Ids : Connection!BesideStep(r)
  BY <1>5, ConnBesideCheck, ConnBesideDial, ConnBesideSink, ConnBesideCloser, ConnBesideReply
     DEF Connection!BesideStep
<1>6. CASE \E r \in Connection!Ids : Connection!PumpData(r) \/ Connection!PumpEnds(r) \/ Connection!PumpInbound(r)
  BY <1>6, ConnPumpData, ConnPumpEnds, ConnPumpInbound
<1>7. CASE Connection!BesideJoined \/ Connection!ShutdownSeen \/ Connection!ForwardEvent \/ Connection!ForwarderStops \/ Connection!Write \/ Connection!WriterEnds \/ Connection!Daemon
  BY <1>7, ConnBesideJoined, ConnShutdownSeen, ConnForwardEvent, ConnForwarderStops, ConnWrite,
     ConnWriterEnds, ConnDaemon
<1> QED BY <1>1, <1>2, <1>3, <1>4, <1>5, <1>6, <1>7 DEF Connection!Next

(* The invariant is strong enough.                                         *)
LEMMA ConnInvImplies ==
  ASSUME ConnInv
  PROVE  Connection!TypeOK /\ Connection!EveryRequestAnswered /\ (~Mismatched => Connection!NoChannelOutlives)
<1>1. Connection!Told \subseteq Connection!Ids BY DEF ConnInv, OutTypes, Connection!Told, Connection!ToSet
<1>2. Connection!TypeOK
  BY <1>1 DEF ConnInv, ReaderTypes, BesideTypes, ChannelTypes, OutTypes, Connection!TypeOK, Pcs, Phases,
       BesideStates
<1>3. Connection!EveryRequestAnswered
  <2>1. \A i, j \in DOMAIN c21 : c21[i] = c21[j] => i = j
    BY DEF ConnInv, AnswerOnce, OutTypes
  <2>2. c3 = "done" => Queued = {} /\ Asked = {} /\ Opening = {}
    BY DEF ConnInv, WriterLast, Queued, Asked, Opening
  <2> QED BY <2>1, <2>2 DEF ConnInv, AnswerOnce, AnswerKept, Connection!EveryRequestAnswered
<1>4. ~Mismatched => Connection!NoChannelOutlives
  BY DEF ConnInv, HasCloser, WriterLast, Connection!NoChannelOutlives
<1> QED BY <1>2, <1>3, <1>4

ConnectionPart == (part = "connection" => ConnInv) /\ (part = "listen" => ListenInv)

(* For a peer that closes a channel with the command of its kind: no       *)
(* channel of a connection outlives it, and every request is answered      *)
(* exactly once, before the connection ends unless its peer has gone or    *)
(* the grace of a shutdown ran out (handle_connection, server.rs); and for *)
(* every number of peers and permits, no connection is served past the     *)
(* permits, to a peer that was not admitted or after its frontend closed,  *)
(* and a queued reply is lost only with its peer or at the end of the      *)
(* grace (serve_unix, WssListener::serve, spawn_control_frontends).        *)
THEOREM ConnectionCorrect ==
  ASSUME ~Mismatched
  PROVE  ControlSpec => []ConnectionHolds
<1>1. ControlInit => ConnectionPart
  BY ConnInitial, ListenInitial DEF ControlInit, ConnectionPart
<1>2. ConnectionPart /\ [ControlNext]_controlVars => ConnectionPart'
  <2> SUFFICES ASSUME ConnectionPart, [ControlNext]_controlVars PROVE ConnectionPart'
    OBVIOUS
  <2>1. ASSUME part' = "connection" PROVE ConnInv'
    <3>1. part = "connection" BY <2>1 DEF ControlNext, controlVars
    <3>2. ConnInv BY <3>1 DEF ConnectionPart
    <3>3. CASE Connection!Next BY <3>2, <3>3, ConnStep
    <3>4. CASE UNCHANGED From1
      BY <3>2, <3>4 DEF From1, From2, From3, From5, From7, ConnInv, PeerTypes, ReaderTypes, ChannelTypes,
         BesideTypes, OutTypes, WireFresh, IsHead, AnswerOnce, AnswerKept, Asked, Opening, IsResponse,
         Queued, Connection!Told, WriterLast, OpenedOnce, CloseMatches, HasCloser
    <3> QED BY <3>1, <3>3, <3>4 DEF ControlNext, controlVars
  <2>2. ASSUME part' = "listen" PROVE ListenInv'
    <3>1. part = "listen" BY <2>2 DEF ControlNext, controlVars
    <3>2. ListenInv BY <3>1 DEF ConnectionPart
    <3>3. CASE Listeners!ListenNext BY <3>2, <3>3, ListenStep
    <3>4. CASE UNCHANGED <<c1, c2, c3, c4, c5, c6>>
      BY <3>2, <3>4 DEF ListenInv, ListenTypes, Admitted, ResolvedLate, WssTasks
    <3> QED BY <3>1, <3>3, <3>4 DEF ControlNext, controlVars, From1, From2, From3, From5
  <2> QED BY <2>1, <2>2 DEF ConnectionPart
<1>3. ConnectionPart => ConnectionHolds
  BY ConnInvImplies, ListenInvImplies DEF ConnectionPart, ConnectionHolds
<1> QED BY <1>1, <1>2, <1>3, PTL DEF ControlSpec

-------------------------------------------------------------------------------
(* Forward.                                                                *)

(* The fields the properties are about.                                    *)
ForwardTypes == {"stage", "why", "limit", "reads"} \subseteq DOMAIN c1 /\ c1.limit \in ForwardLimits
DialTypes == {"left", "best", "failed", "late"} \subseteq DOMAIN c2
TargetTypes == {"holders", "session"} \subseteq DOMAIN c3 /\ c3.holders \subseteq Procs
CheckTypes == {"todo", "found", "at"} \subseteq DOMAIN c4

(* No failure met is more telling than the one that is kept.               *)
BestKept == \A reason \in c2.failed : c2.best # "" /\ Forwards!telling(reason) <= Forwards!telling(c2.best)
(* A failure that is reported is as telling, and came last.                *)
ToldLast ==
  c1.stage = "refused" /\ c1.why \in Forwards!Reasons =>
    /\ \A reason \in c2.failed : Forwards!telling(reason) <= Forwards!telling(c1.why)
    /\ c2.left = 0 \/ c2.late
(* What the stages are about.                                              *)
Stages ==
  /\ c1.stage # "refused" => ~(c1.limit.udp /\ c1.limit.bound)
  /\ c1.stage # "open" => c1.reads = "no"
(* Who holds the far end and was looked at is among the findings.          *)
ScanSees ==
  c4.at = "scan" =>
    \A p \in c3.holders : p \notin c4.todo =>
      /\ c3.session[p] = "foreign" => "Foreign" \in c4.found
      /\ c3.session[p] = "unknown" => "UnknownHolder" \in c4.found
OpensOwn ==
  c1.limit.bound /\ c1.stage = "opening" =>
    \A p \in c3.holders : c3.session[p] \notin {"foreign", "unknown"}

ForwardInv ==
  /\ ForwardTypes /\ DialTypes /\ TargetTypes /\ CheckTypes
  /\ BestKept /\ ToldLast /\ Stages /\ ScanSees /\ OpensOwn

(* What the constants of a forward are.                                    *)
LEMMA ForwardConstant ==
  ForwardLimits \subseteq
    [udp : BOOLEAN, bound : BOOLEAN, addresses : Nat, holders : SUBSET Procs,
     sessions : [Procs -> {"member", "foreign", "unread", "unknown"}], bytes : Nat, looks : Nat]
BY PartConstants DEF Forwards!ForwardConstants

(* How telling a failure is can be compared.                               *)
LEMMA TellingIsNat == \A reason : Forwards!telling(reason) \in Nat
BY DEF Forwards!telling

(* What is kept of two failures is as telling as either.                   *)
LEMMA KeepTheMost ==
  ASSUME BestKept, NEW reason \in Forwards!Reasons
  PROVE  /\ Forwards!Keep(reason) # "" /\ Forwards!telling(reason) <= Forwards!telling(Forwards!Keep(reason))
         /\ \A other \in c2.failed : Forwards!telling(other) <= Forwards!telling(Forwards!Keep(reason))
<1>a. Forwards!telling(reason) \in Nat BY TellingIsNat
<1>b. Forwards!telling(c2.best) \in Nat BY TellingIsNat
<1>1. CASE c2.best = "" \/ Forwards!telling(reason) > Forwards!telling(c2.best)
  <2>1. Forwards!Keep(reason) = reason BY <1>1 DEF Forwards!Keep
  <2>2. ASSUME NEW other \in c2.failed PROVE Forwards!telling(other) <= Forwards!telling(reason)
    <3>1. Forwards!telling(other) \in Nat BY TellingIsNat
    <3>2. Forwards!telling(other) <= Forwards!telling(c2.best) BY DEF BestKept
    <3>3. c2.best # "" BY DEF BestKept
    <3>4. Forwards!telling(reason) > Forwards!telling(c2.best) BY <1>1, <3>3
    <3> QED BY <1>a, <1>b, <3>1, <3>2, <3>4
  <2>3. Forwards!telling(reason) <= Forwards!telling(reason) BY <1>a
  <2>4. reason # "" BY DEF Forwards!Reasons
  <2> QED BY <2>1, <2>2, <2>3, <2>4
<1>2. CASE ~(c2.best = "" \/ Forwards!telling(reason) > Forwards!telling(c2.best))
  <2>1. Forwards!Keep(reason) = c2.best BY <1>2 DEF Forwards!Keep
  <2>2. ~(Forwards!telling(reason) > Forwards!telling(c2.best)) /\ c2.best # "" BY <1>2
  <2>3. ~(Forwards!telling(reason) > Forwards!telling(c2.best)) BY <2>2
  <2>4. Forwards!telling(reason) <= Forwards!telling(c2.best) BY <1>a, <1>b, <2>3
  <2> QED BY <2>1, <2>2, <2>4 DEF BestKept
<1> QED BY <1>1, <1>2

(* Lookup keeps the invariant.                                             *)
LEMMA ForwardLookup ==
  ASSUME ForwardInv, Forwards!Lookup
  PROVE  ForwardInv'
<1>0. ForwardTypes /\ DialTypes /\ TargetTypes /\ CheckTypes /\ BestKept
      /\ ToldLast /\ Stages /\ ScanSees /\ OpensOwn
  BY DEF ForwardInv
<1>1. ForwardTypes'
  BY <1>0, ForwardConstant DEF Forwards!Lookup, Forwards!Refuse, ForwardTypes, DialTypes,
       Forwards!Limit, Forwards!Late
<1>2. ToldLast'
  BY <1>0, ForwardConstant DEF Forwards!Lookup, Forwards!Refuse, ForwardTypes, DialTypes, BestKept,
       ToldLast, Stages, Forwards!Limit, Forwards!Late, Forwards!telling, Forwards!Reasons
<1>3. Stages'
  BY <1>0, ForwardConstant DEF Forwards!Lookup, Forwards!Refuse, ForwardTypes, Stages, Forwards!Limit,
       Forwards!Late
<1>4. OpensOwn'
  BY <1>0, ForwardConstant DEF Forwards!Lookup, Forwards!Refuse, ForwardTypes, TargetTypes, CheckTypes,
       ScanSees, OpensOwn, Stages, Forwards!Limit, Forwards!Late
<1>5. DialTypes' /\ TargetTypes' /\ CheckTypes' /\ BestKept' /\ ScanSees'
  BY <1>0 DEF Forwards!Lookup, DialTypes, TargetTypes, CheckTypes, BestKept, ScanSees
<1> QED BY <1>1, <1>2, <1>3, <1>4, <1>5 DEF ForwardInv

(* Attempt keeps the invariant.                                            *)
LEMMA ForwardAttempt ==
  ASSUME ForwardInv, Forwards!Attempt
  PROVE  ForwardInv'
<1>0. ForwardTypes /\ DialTypes /\ TargetTypes /\ CheckTypes /\ BestKept
      /\ ToldLast /\ Stages /\ ScanSees /\ OpensOwn
  BY DEF ForwardInv
<1>1. DialTypes'
  BY <1>0, ForwardConstant DEF Forwards!Attempt, DialTypes, Forwards!Limit, Forwards!Late
<1>2. BestKept'
  BY <1>0, ForwardConstant DEF Forwards!Attempt, DialTypes, BestKept, Forwards!Limit, Forwards!Late,
       Forwards!telling, Forwards!Reasons
<1>3. ToldLast'
  BY <1>0, ForwardConstant DEF Forwards!Attempt, ForwardTypes, DialTypes, BestKept, ToldLast, Stages,
       Forwards!Limit, Forwards!Late, Forwards!telling, Forwards!Reasons
<1>4. ForwardTypes' /\ TargetTypes' /\ CheckTypes' /\ Stages' /\ ScanSees' /\ OpensOwn'
  BY <1>0 DEF Forwards!Attempt, ForwardTypes, TargetTypes, CheckTypes, Stages, ScanSees, OpensOwn
<1> QED BY <1>1, <1>2, <1>3, <1>4 DEF ForwardInv

(* Connected keeps the invariant.                                          *)
LEMMA ForwardConnected ==
  ASSUME ForwardInv, Forwards!Connected
  PROVE  ForwardInv'
<1>0. ForwardTypes /\ DialTypes /\ TargetTypes /\ CheckTypes /\ BestKept
      /\ ToldLast /\ Stages /\ ScanSees /\ OpensOwn
  BY DEF ForwardInv
<1>1. ForwardTypes'
  BY <1>0, ForwardConstant DEF Forwards!Connected, Forwards!Waiting, ForwardTypes, DialTypes,
       Forwards!Limit, Forwards!Late
<1>2. ToldLast'
  BY <1>0, ForwardConstant DEF Forwards!Connected, Forwards!Waiting, ForwardTypes, DialTypes, BestKept,
       ToldLast, Stages, Forwards!Limit, Forwards!Late, Forwards!telling, Forwards!Reasons
<1>3. Stages'
  BY <1>0, ForwardConstant DEF Forwards!Connected, Forwards!Waiting, ForwardTypes, Stages,
       Forwards!Limit, Forwards!Late
<1>4. OpensOwn'
  BY <1>0, ForwardConstant DEF Forwards!Connected, Forwards!Waiting, ForwardTypes, TargetTypes,
       CheckTypes, ScanSees, OpensOwn, Stages, Forwards!Limit, Forwards!Late
<1>5. DialTypes' /\ TargetTypes' /\ CheckTypes' /\ BestKept' /\ ScanSees'
  BY <1>0 DEF Forwards!Connected, DialTypes, TargetTypes, CheckTypes, BestKept, ScanSees
<1> QED BY <1>1, <1>2, <1>3, <1>4, <1>5 DEF ForwardInv

(* AttemptFails keeps the invariant.                                       *)
LEMMA ForwardAttemptFails ==
  ASSUME ForwardInv, NEW reason \in Forwards!Reasons, Forwards!AttemptFails(reason)
  PROVE  ForwardInv'
<1>0. ForwardTypes /\ DialTypes /\ TargetTypes /\ CheckTypes /\ BestKept
      /\ ToldLast /\ Stages /\ ScanSees /\ OpensOwn
  BY DEF ForwardInv
<1>1. DialTypes'
  BY <1>0, ForwardConstant DEF Forwards!AttemptFails, Forwards!Waiting, Forwards!Keep, DialTypes,
       Forwards!Limit, Forwards!Late
<1>2. BestKept'
  <2>1. c2'.best = Forwards!Keep(reason) /\ c2'.failed = c2.failed \cup {reason}
    BY <1>0 DEF Forwards!AttemptFails, DialTypes
  <2> QED BY <1>0, <2>1, KeepTheMost DEF BestKept
<1>3. ToldLast'
  BY <1>0, ForwardConstant DEF Forwards!AttemptFails, Forwards!Waiting, Forwards!Keep, ForwardTypes,
       DialTypes, BestKept, ToldLast, Stages, Forwards!Limit, Forwards!Late, Forwards!telling,
       Forwards!Reasons
<1>4. ForwardTypes' /\ TargetTypes' /\ CheckTypes' /\ Stages' /\ ScanSees' /\ OpensOwn'
  BY <1>0 DEF Forwards!AttemptFails, ForwardTypes, TargetTypes, CheckTypes, Stages, ScanSees, OpensOwn
<1> QED BY <1>1, <1>2, <1>3, <1>4 DEF ForwardInv

(* GiveUp keeps the invariant.                                             *)
LEMMA ForwardGiveUp ==
  ASSUME ForwardInv, Forwards!GiveUp
  PROVE  ForwardInv'
<1>0. ForwardTypes /\ DialTypes /\ TargetTypes /\ CheckTypes /\ BestKept
      /\ ToldLast /\ Stages /\ ScanSees /\ OpensOwn
  BY DEF ForwardInv
<1>1. ForwardTypes'
  BY <1>0, ForwardConstant DEF Forwards!GiveUp, Forwards!Exhausted, Forwards!Waiting, Forwards!Refuse,
       ForwardTypes, DialTypes, Forwards!Limit, Forwards!Late
<1>2. ToldLast'
  BY <1>0, ForwardConstant DEF Forwards!GiveUp, Forwards!Exhausted, Forwards!Waiting, Forwards!Refuse,
       ForwardTypes, DialTypes, BestKept, ToldLast, Stages, Forwards!Limit, Forwards!Late,
       Forwards!telling, Forwards!Reasons
<1>3. Stages'
  BY <1>0, ForwardConstant DEF Forwards!GiveUp, Forwards!Exhausted, Forwards!Waiting, Forwards!Refuse,
       ForwardTypes, Stages, Forwards!Limit, Forwards!Late
<1>4. OpensOwn'
  BY <1>0, ForwardConstant DEF Forwards!GiveUp, Forwards!Exhausted, Forwards!Waiting, Forwards!Refuse,
       ForwardTypes, TargetTypes, CheckTypes, ScanSees, OpensOwn, Stages, Forwards!Limit, Forwards!Late
<1>5. DialTypes' /\ TargetTypes' /\ CheckTypes' /\ BestKept' /\ ScanSees'
  BY <1>0 DEF Forwards!GiveUp, DialTypes, TargetTypes, CheckTypes, BestKept, ScanSees
<1> QED BY <1>1, <1>2, <1>3, <1>4, <1>5 DEF ForwardInv

(* SlowAttempt keeps the invariant.                                        *)
LEMMA ForwardSlowAttempt ==
  ASSUME ForwardInv, Forwards!SlowAttempt
  PROVE  ForwardInv'
<1>0. ForwardTypes /\ DialTypes /\ TargetTypes /\ CheckTypes /\ BestKept
      /\ ToldLast /\ Stages /\ ScanSees /\ OpensOwn
  BY DEF ForwardInv
<1>1. DialTypes'
  BY <1>0, ForwardConstant DEF Forwards!SlowAttempt, Forwards!Waiting, DialTypes, Forwards!Limit,
       Forwards!Late
<1>2. BestKept'
  BY <1>0, ForwardConstant DEF Forwards!SlowAttempt, Forwards!Waiting, DialTypes, BestKept,
       Forwards!Limit, Forwards!Late, Forwards!telling, Forwards!Reasons
<1>3. ToldLast'
  BY <1>0, ForwardConstant DEF Forwards!SlowAttempt, Forwards!Waiting, ForwardTypes, DialTypes,
       BestKept, ToldLast, Stages, Forwards!Limit, Forwards!Late, Forwards!telling, Forwards!Reasons
<1>4. ForwardTypes' /\ TargetTypes' /\ CheckTypes' /\ Stages' /\ ScanSees' /\ OpensOwn'
  BY <1>0 DEF Forwards!SlowAttempt, ForwardTypes, TargetTypes, CheckTypes, Stages, ScanSees, OpensOwn
<1> QED BY <1>1, <1>2, <1>3, <1>4 DEF ForwardInv

(* DialDeadline keeps the invariant.                                       *)
LEMMA ForwardDialDeadline ==
  ASSUME ForwardInv, Forwards!DialDeadline
  PROVE  ForwardInv'
<1>0. ForwardTypes /\ DialTypes /\ TargetTypes /\ CheckTypes /\ BestKept
      /\ ToldLast /\ Stages /\ ScanSees /\ OpensOwn
  BY DEF ForwardInv
<1>1. ForwardTypes'
  BY <1>0, ForwardConstant DEF Forwards!DialDeadline, Forwards!Waiting, Forwards!Refuse, Forwards!Keep,
       ForwardTypes, DialTypes, Forwards!Limit, Forwards!Late
<1>2. ToldLast'
  <2>1. c1'.why = Forwards!Keep("DialTimeout") /\ c2' = c2 /\ c2.late
    BY <1>0 DEF Forwards!DialDeadline, Forwards!Refuse, Forwards!Late, ForwardTypes
  <2>2. "DialTimeout" \in Forwards!Reasons BY DEF Forwards!Reasons
  <2> QED BY <1>0, <2>1, <2>2, KeepTheMost DEF ToldLast
<1>3. Stages'
  BY <1>0, ForwardConstant DEF Forwards!DialDeadline, Forwards!Waiting, Forwards!Refuse, Forwards!Keep,
       ForwardTypes, Stages, Forwards!Limit, Forwards!Late
<1>4. OpensOwn'
  BY <1>0, ForwardConstant DEF Forwards!DialDeadline, Forwards!Waiting, Forwards!Refuse, Forwards!Keep,
       ForwardTypes, TargetTypes, CheckTypes, ScanSees, OpensOwn, Stages, Forwards!Limit, Forwards!Late
<1>5. DialTypes' /\ TargetTypes' /\ CheckTypes' /\ BestKept' /\ ScanSees'
  BY <1>0 DEF Forwards!DialDeadline, DialTypes, TargetTypes, CheckTypes, BestKept, ScanSees
<1> QED BY <1>1, <1>2, <1>3, <1>4, <1>5 DEF ForwardInv

(* Deadline keeps the invariant.                                           *)
LEMMA ForwardDeadline ==
  ASSUME ForwardInv, Forwards!Deadline
  PROVE  ForwardInv'
<1>0. ForwardTypes /\ DialTypes /\ TargetTypes /\ CheckTypes /\ BestKept
      /\ ToldLast /\ Stages /\ ScanSees /\ OpensOwn
  BY DEF ForwardInv
<1>1. DialTypes'
  BY <1>0, ForwardConstant DEF Forwards!Deadline, DialTypes, Forwards!Limit, Forwards!Late
<1>2. BestKept'
  BY <1>0, ForwardConstant DEF Forwards!Deadline, DialTypes, BestKept, Forwards!Limit, Forwards!Late,
       Forwards!telling, Forwards!Reasons
<1>3. ToldLast'
  BY <1>0, ForwardConstant DEF Forwards!Deadline, ForwardTypes, DialTypes, BestKept, ToldLast, Stages,
       Forwards!Limit, Forwards!Late, Forwards!telling, Forwards!Reasons
<1>4. ForwardTypes' /\ TargetTypes' /\ CheckTypes' /\ Stages' /\ ScanSees' /\ OpensOwn'
  BY <1>0 DEF Forwards!Deadline, ForwardTypes, TargetTypes, CheckTypes, Stages, ScanSees, OpensOwn
<1> QED BY <1>1, <1>2, <1>3, <1>4 DEF ForwardInv

(* Look keeps the invariant.                                               *)
LEMMA ForwardLook ==
  ASSUME ForwardInv, Forwards!Look
  PROVE  ForwardInv'
<1>0. ForwardTypes /\ DialTypes /\ TargetTypes /\ CheckTypes /\ BestKept
      /\ ToldLast /\ Stages /\ ScanSees /\ OpensOwn
  BY DEF ForwardInv
<1>1. CheckTypes'
  BY <1>0, ForwardConstant DEF Forwards!Look, CheckTypes, Forwards!Limit, Forwards!Late
<1>2. ScanSees'
  BY <1>0, ForwardConstant DEF Forwards!Look, TargetTypes, CheckTypes, ScanSees, Forwards!Limit, Forwards!Late
<1>3. ForwardTypes' /\ DialTypes' /\ TargetTypes' /\ BestKept' /\ ToldLast' /\ Stages' /\ OpensOwn'
  BY <1>0 DEF Forwards!Look, ForwardTypes, DialTypes, TargetTypes, BestKept, ToldLast, Stages, OpensOwn
<1> QED BY <1>1, <1>2, <1>3 DEF ForwardInv

(* Find keeps the invariant.                                               *)
LEMMA ForwardFind ==
  ASSUME ForwardInv, NEW p \in Procs, Forwards!Find(p)
  PROVE  ForwardInv'
<1>0. ForwardTypes /\ DialTypes /\ TargetTypes /\ CheckTypes /\ BestKept
      /\ ToldLast /\ Stages /\ ScanSees /\ OpensOwn
  BY DEF ForwardInv
<1>1. CheckTypes'
  BY <1>0, ForwardConstant DEF Forwards!Find, Forwards!Finding, CheckTypes, Forwards!Limit, Forwards!Late
<1>2. ScanSees'
  BY <1>0, ForwardConstant DEF Forwards!Find, Forwards!Finding, TargetTypes, CheckTypes, ScanSees,
       Forwards!Limit, Forwards!Late
<1>3. ForwardTypes' /\ DialTypes' /\ TargetTypes' /\ BestKept' /\ ToldLast' /\ Stages' /\ OpensOwn'
  BY <1>0 DEF Forwards!Find, ForwardTypes, DialTypes, TargetTypes, BestKept, ToldLast, Stages, OpensOwn
<1> QED BY <1>1, <1>2, <1>3 DEF ForwardInv

(* Verdict keeps the invariant.                                            *)
LEMMA ForwardVerdict ==
  ASSUME ForwardInv, Forwards!Verdict
  PROVE  ForwardInv'
<1>0. ForwardTypes /\ DialTypes /\ TargetTypes /\ CheckTypes /\ BestKept
      /\ ToldLast /\ Stages /\ ScanSees /\ OpensOwn
  BY DEF ForwardInv
<1>a. Forwards!verdict(c4.found) = "Verified" => "Foreign" \notin c4.found /\ "UnknownHolder" \notin c4.found
  BY DEF Forwards!verdict
<1>b. c1'.stage = "opening" => Forwards!verdict(c4.found) = "Verified"
  BY <1>0 DEF Forwards!Verdict, Forwards!Answered, Forwards!Refuse, ForwardTypes
<1>c. c4.at = "scan" /\ c4.todo = {} /\ c3' = c3 BY DEF Forwards!Verdict
<1>1. ForwardTypes'
  BY <1>0, ForwardConstant DEF Forwards!Verdict, Forwards!Answered, Forwards!Refuse, Forwards!verdict,
       ForwardTypes, DialTypes, Forwards!Limit, Forwards!Late
<1>2. CheckTypes'
  BY <1>0, ForwardConstant DEF Forwards!Verdict, Forwards!Answered, Forwards!Refuse, Forwards!verdict,
       CheckTypes, Forwards!Limit, Forwards!Late
<1>3. ToldLast'
  BY <1>0, ForwardConstant DEF Forwards!Verdict, Forwards!Answered, Forwards!Refuse, Forwards!verdict,
       ForwardTypes, DialTypes, BestKept, ToldLast, Stages, Forwards!Limit, Forwards!Late,
       Forwards!telling, Forwards!Reasons
<1>4. Stages'
  BY <1>0, ForwardConstant DEF Forwards!Verdict, Forwards!Answered, Forwards!Refuse, Forwards!verdict,
       ForwardTypes, Stages, Forwards!Limit, Forwards!Late
<1>5. ScanSees'
  BY <1>0, ForwardConstant DEF Forwards!Verdict, Forwards!Answered, Forwards!Refuse, Forwards!verdict,
       TargetTypes, CheckTypes, ScanSees, Forwards!Limit, Forwards!Late
<1>6. OpensOwn'
  BY <1>0, <1>a, <1>b, <1>c DEF OpensOwn, ScanSees
<1>7. DialTypes' /\ TargetTypes' /\ BestKept'
  BY <1>0 DEF Forwards!Verdict, DialTypes, TargetTypes, BestKept
<1> QED BY <1>1, <1>2, <1>3, <1>4, <1>5, <1>6, <1>7 DEF ForwardInv

(* VerifyDeadline keeps the invariant.                                     *)
LEMMA ForwardVerifyDeadline ==
  ASSUME ForwardInv, Forwards!VerifyDeadline
  PROVE  ForwardInv'
<1>0. ForwardTypes /\ DialTypes /\ TargetTypes /\ CheckTypes /\ BestKept
      /\ ToldLast /\ Stages /\ ScanSees /\ OpensOwn
  BY DEF ForwardInv
<1>1. ForwardTypes'
  BY <1>0, ForwardConstant DEF Forwards!VerifyDeadline, Forwards!Answered, Forwards!Refuse,
       ForwardTypes, DialTypes, Forwards!Limit, Forwards!Late
<1>2. CheckTypes'
  BY <1>0, ForwardConstant DEF Forwards!VerifyDeadline, Forwards!Answered, Forwards!Refuse, CheckTypes,
       Forwards!Limit, Forwards!Late
<1>3. ToldLast'
  BY <1>0, ForwardConstant DEF Forwards!VerifyDeadline, Forwards!Answered, Forwards!Refuse,
       ForwardTypes, DialTypes, BestKept, ToldLast, Stages, Forwards!Limit, Forwards!Late,
       Forwards!telling, Forwards!Reasons
<1>4. Stages'
  BY <1>0, ForwardConstant DEF Forwards!VerifyDeadline, Forwards!Answered, Forwards!Refuse,
       ForwardTypes, Stages, Forwards!Limit, Forwards!Late
<1>5. ScanSees'
  BY <1>0, ForwardConstant DEF Forwards!VerifyDeadline, Forwards!Answered, Forwards!Refuse, TargetTypes,
       CheckTypes, ScanSees, Forwards!Limit, Forwards!Late
<1>6. OpensOwn'
  BY <1>0, ForwardConstant DEF Forwards!VerifyDeadline, Forwards!Answered, Forwards!Refuse,
       ForwardTypes, TargetTypes, CheckTypes, ScanSees, OpensOwn, Stages, Forwards!Limit, Forwards!Late
<1>7. DialTypes' /\ TargetTypes' /\ BestKept'
  BY <1>0 DEF Forwards!VerifyDeadline, DialTypes, TargetTypes, BestKept
<1> QED BY <1>1, <1>2, <1>3, <1>4, <1>5, <1>6, <1>7 DEF ForwardInv

(* Open keeps the invariant.                                               *)
LEMMA ForwardOpen ==
  ASSUME ForwardInv, Forwards!Open
  PROVE  ForwardInv'
<1>0. ForwardTypes /\ DialTypes /\ TargetTypes /\ CheckTypes /\ BestKept
      /\ ToldLast /\ Stages /\ ScanSees /\ OpensOwn
  BY DEF ForwardInv
<1>1. ForwardTypes'
  BY <1>0, ForwardConstant DEF Forwards!Open, Forwards!Opened, ForwardTypes, DialTypes, Forwards!Limit,
       Forwards!Late
<1>2. ToldLast'
  BY <1>0, ForwardConstant DEF Forwards!Open, Forwards!Opened, ForwardTypes, DialTypes, BestKept,
       ToldLast, Stages, Forwards!Limit, Forwards!Late, Forwards!telling, Forwards!Reasons
<1>3. Stages'
  BY <1>0, ForwardConstant DEF Forwards!Open, Forwards!Opened, ForwardTypes, Stages, Forwards!Limit,
       Forwards!Late
<1>4. OpensOwn'
  BY <1>0, ForwardConstant DEF Forwards!Open, Forwards!Opened, ForwardTypes, TargetTypes, CheckTypes,
       ScanSees, OpensOwn, Stages, Forwards!Limit, Forwards!Late
<1>5. DialTypes' /\ TargetTypes' /\ CheckTypes' /\ BestKept' /\ ScanSees'
  BY <1>0 DEF Forwards!Open, DialTypes, TargetTypes, CheckTypes, BestKept, ScanSees
<1> QED BY <1>1, <1>2, <1>3, <1>4, <1>5 DEF ForwardInv

(* OpenUdp keeps the invariant.                                            *)
LEMMA ForwardOpenUdp ==
  ASSUME ForwardInv, Forwards!OpenUdp
  PROVE  ForwardInv'
<1>0. ForwardTypes /\ DialTypes /\ TargetTypes /\ CheckTypes /\ BestKept
      /\ ToldLast /\ Stages /\ ScanSees /\ OpensOwn
  BY DEF ForwardInv
<1>1. ForwardTypes'
  BY <1>0, ForwardConstant DEF Forwards!OpenUdp, Forwards!Opened, Forwards!Refuse, ForwardTypes,
       DialTypes, Forwards!Limit, Forwards!Late
<1>2. ToldLast'
  BY <1>0, ForwardConstant DEF Forwards!OpenUdp, Forwards!Opened, Forwards!Refuse, ForwardTypes,
       DialTypes, BestKept, ToldLast, Stages, Forwards!Limit, Forwards!Late, Forwards!telling,
       Forwards!Reasons
<1>3. Stages'
  BY <1>0, ForwardConstant DEF Forwards!OpenUdp, Forwards!Opened, Forwards!Refuse, ForwardTypes, Stages,
       Forwards!Limit, Forwards!Late
<1>4. OpensOwn'
  BY <1>0, ForwardConstant DEF Forwards!OpenUdp, Forwards!Opened, Forwards!Refuse, ForwardTypes,
       TargetTypes, CheckTypes, ScanSees, OpensOwn, Stages, Forwards!Limit, Forwards!Late
<1>5. DialTypes' /\ TargetTypes' /\ CheckTypes' /\ BestKept' /\ ScanSees'
  BY <1>0 DEF Forwards!OpenUdp, DialTypes, TargetTypes, CheckTypes, BestKept, ScanSees
<1> QED BY <1>1, <1>2, <1>3, <1>4, <1>5 DEF ForwardInv

(* ReadSocket keeps the invariant.                                         *)
LEMMA ForwardReadSocket ==
  ASSUME ForwardInv, Forwards!ReadSocket
  PROVE  ForwardInv'
<1>0. ForwardTypes /\ DialTypes /\ TargetTypes /\ CheckTypes /\ BestKept
      /\ ToldLast /\ Stages /\ ScanSees /\ OpensOwn
  BY DEF ForwardInv
<1>1. ForwardTypes'
  BY <1>0, ForwardConstant DEF Forwards!ReadSocket, Forwards!OwnerGone, ForwardTypes, DialTypes,
       Forwards!Limit, Forwards!Late
<1>2. ToldLast'
  BY <1>0, ForwardConstant DEF Forwards!ReadSocket, Forwards!OwnerGone, ForwardTypes, DialTypes,
       BestKept, ToldLast, Stages, Forwards!Limit, Forwards!Late, Forwards!telling, Forwards!Reasons
<1>3. Stages'
  BY <1>0, ForwardConstant DEF Forwards!ReadSocket, Forwards!OwnerGone, ForwardTypes, Stages,
       Forwards!Limit, Forwards!Late
<1>4. OpensOwn'
  BY <1>0, ForwardConstant DEF Forwards!ReadSocket, Forwards!OwnerGone, ForwardTypes, TargetTypes,
       CheckTypes, ScanSees, OpensOwn, Stages, Forwards!Limit, Forwards!Late
<1>5. DialTypes' /\ TargetTypes' /\ CheckTypes' /\ BestKept' /\ ScanSees'
  BY <1>0 DEF Forwards!ReadSocket, DialTypes, TargetTypes, CheckTypes, BestKept, ScanSees
<1> QED BY <1>1, <1>2, <1>3, <1>4, <1>5 DEF ForwardInv

(* SendFrame keeps the invariant.                                          *)
LEMMA ForwardSendFrame ==
  ASSUME ForwardInv, Forwards!SendFrame
  PROVE  ForwardInv'
<1>0. ForwardTypes /\ DialTypes /\ TargetTypes /\ CheckTypes /\ BestKept
      /\ ToldLast /\ Stages /\ ScanSees /\ OpensOwn
  BY DEF ForwardInv
<1>1. ForwardTypes'
  BY <1>0, ForwardConstant DEF Forwards!SendFrame, Forwards!OwnerGone, Forwards!Room, ForwardTypes,
       DialTypes, Forwards!Limit, Forwards!Late
<1>2. ToldLast'
  BY <1>0, ForwardConstant DEF Forwards!SendFrame, Forwards!OwnerGone, Forwards!Room, ForwardTypes,
       DialTypes, BestKept, ToldLast, Stages, Forwards!Limit, Forwards!Late, Forwards!telling,
       Forwards!Reasons
<1>3. Stages'
  BY <1>0, ForwardConstant DEF Forwards!SendFrame, Forwards!OwnerGone, Forwards!Room, ForwardTypes,
       Stages, Forwards!Limit, Forwards!Late
<1>4. OpensOwn'
  BY <1>0, ForwardConstant DEF Forwards!SendFrame, Forwards!OwnerGone, Forwards!Room, ForwardTypes,
       TargetTypes, CheckTypes, ScanSees, OpensOwn, Stages, Forwards!Limit, Forwards!Late
<1>5. DialTypes' /\ TargetTypes' /\ CheckTypes' /\ BestKept' /\ ScanSees'
  BY <1>0 DEF Forwards!SendFrame, DialTypes, TargetTypes, CheckTypes, BestKept, ScanSees
<1> QED BY <1>1, <1>2, <1>3, <1>4, <1>5 DEF ForwardInv

(* SendFails keeps the invariant.                                          *)
LEMMA ForwardSendFails ==
  ASSUME ForwardInv, Forwards!SendFails
  PROVE  ForwardInv'
<1>0. ForwardTypes /\ DialTypes /\ TargetTypes /\ CheckTypes /\ BestKept
      /\ ToldLast /\ Stages /\ ScanSees /\ OpensOwn
  BY DEF ForwardInv
<1>1. ForwardTypes'
  BY <1>0, ForwardConstant DEF Forwards!SendFails, Forwards!OwnerGone, ForwardTypes, DialTypes,
       Forwards!Limit, Forwards!Late
<1>2. ToldLast'
  BY <1>0, ForwardConstant DEF Forwards!SendFails, Forwards!OwnerGone, ForwardTypes, DialTypes,
       BestKept, ToldLast, Stages, Forwards!Limit, Forwards!Late, Forwards!telling, Forwards!Reasons
<1>3. Stages'
  BY <1>0, ForwardConstant DEF Forwards!SendFails, Forwards!OwnerGone, ForwardTypes, Stages,
       Forwards!Limit, Forwards!Late
<1>4. OpensOwn'
  BY <1>0, ForwardConstant DEF Forwards!SendFails, Forwards!OwnerGone, ForwardTypes, TargetTypes,
       CheckTypes, ScanSees, OpensOwn, Stages, Forwards!Limit, Forwards!Late
<1>5. DialTypes' /\ TargetTypes' /\ CheckTypes' /\ BestKept' /\ ScanSees'
  BY <1>0 DEF Forwards!SendFails, DialTypes, TargetTypes, CheckTypes, BestKept, ScanSees
<1> QED BY <1>1, <1>2, <1>3, <1>4, <1>5 DEF ForwardInv

(* SocketEnds keeps the invariant.                                         *)
LEMMA ForwardSocketEnds ==
  ASSUME ForwardInv, NEW why \in {"Eof", "ReadFailed"}, Forwards!SocketEnds(why)
  PROVE  ForwardInv'
<1>0. ForwardTypes /\ DialTypes /\ TargetTypes /\ CheckTypes /\ BestKept
      /\ ToldLast /\ Stages /\ ScanSees /\ OpensOwn
  BY DEF ForwardInv
<1>1. ForwardTypes'
  BY <1>0, ForwardConstant DEF Forwards!SocketEnds, Forwards!OwnerGone, ForwardTypes, DialTypes,
       Forwards!Limit, Forwards!Late
<1>2. ToldLast'
  BY <1>0, ForwardConstant DEF Forwards!SocketEnds, Forwards!OwnerGone, ForwardTypes, DialTypes,
       BestKept, ToldLast, Stages, Forwards!Limit, Forwards!Late, Forwards!telling, Forwards!Reasons
<1>3. Stages'
  BY <1>0, ForwardConstant DEF Forwards!SocketEnds, Forwards!OwnerGone, ForwardTypes, Stages,
       Forwards!Limit, Forwards!Late
<1>4. OpensOwn'
  BY <1>0, ForwardConstant DEF Forwards!SocketEnds, Forwards!OwnerGone, ForwardTypes, TargetTypes,
       CheckTypes, ScanSees, OpensOwn, Stages, Forwards!Limit, Forwards!Late
<1>5. DialTypes' /\ TargetTypes' /\ CheckTypes' /\ BestKept' /\ ScanSees'
  BY <1>0 DEF Forwards!SocketEnds, DialTypes, TargetTypes, CheckTypes, BestKept, ScanSees
<1> QED BY <1>1, <1>2, <1>3, <1>4, <1>5 DEF ForwardInv

(* SeesExit keeps the invariant.                                           *)
LEMMA ForwardSeesExit ==
  ASSUME ForwardInv, Forwards!SeesExit
  PROVE  ForwardInv'
<1>0. ForwardTypes /\ DialTypes /\ TargetTypes /\ CheckTypes /\ BestKept
      /\ ToldLast /\ Stages /\ ScanSees /\ OpensOwn
  BY DEF ForwardInv
<1>1. ForwardTypes'
  BY <1>0, ForwardConstant DEF Forwards!SeesExit, Forwards!OwnerGone, ForwardTypes, DialTypes,
       Forwards!Limit, Forwards!Late
<1>2. ToldLast'
  BY <1>0, ForwardConstant DEF Forwards!SeesExit, Forwards!OwnerGone, ForwardTypes, DialTypes, BestKept,
       ToldLast, Stages, Forwards!Limit, Forwards!Late, Forwards!telling, Forwards!Reasons
<1>3. Stages'
  BY <1>0, ForwardConstant DEF Forwards!SeesExit, Forwards!OwnerGone, ForwardTypes, Stages,
       Forwards!Limit, Forwards!Late
<1>4. OpensOwn'
  BY <1>0, ForwardConstant DEF Forwards!SeesExit, Forwards!OwnerGone, ForwardTypes, TargetTypes,
       CheckTypes, ScanSees, OpensOwn, Stages, Forwards!Limit, Forwards!Late
<1>5. DialTypes' /\ TargetTypes' /\ CheckTypes' /\ BestKept' /\ ScanSees'
  BY <1>0 DEF Forwards!SeesExit, DialTypes, TargetTypes, CheckTypes, BestKept, ScanSees
<1> QED BY <1>1, <1>2, <1>3, <1>4, <1>5 DEF ForwardInv

(* SendEnd keeps the invariant.                                            *)
LEMMA ForwardSendEnd ==
  ASSUME ForwardInv, Forwards!SendEnd
  PROVE  ForwardInv'
<1>0. ForwardTypes /\ DialTypes /\ TargetTypes /\ CheckTypes /\ BestKept
      /\ ToldLast /\ Stages /\ ScanSees /\ OpensOwn
  BY DEF ForwardInv
<1>1. ForwardTypes'
  BY <1>0, ForwardConstant DEF Forwards!SendEnd, Forwards!Room, ForwardTypes, DialTypes, Forwards!Limit,
       Forwards!Late
<1>2. ToldLast'
  BY <1>0, ForwardConstant DEF Forwards!SendEnd, Forwards!Room, ForwardTypes, DialTypes, BestKept,
       ToldLast, Stages, Forwards!Limit, Forwards!Late, Forwards!telling, Forwards!Reasons
<1>3. Stages'
  BY <1>0, ForwardConstant DEF Forwards!SendEnd, Forwards!Room, ForwardTypes, Stages, Forwards!Limit,
       Forwards!Late
<1>4. OpensOwn'
  BY <1>0, ForwardConstant DEF Forwards!SendEnd, Forwards!Room, ForwardTypes, TargetTypes, CheckTypes,
       ScanSees, OpensOwn, Stages, Forwards!Limit, Forwards!Late
<1>5. DialTypes' /\ TargetTypes' /\ CheckTypes' /\ BestKept' /\ ScanSees'
  BY <1>0 DEF Forwards!SendEnd, DialTypes, TargetTypes, CheckTypes, BestKept, ScanSees
<1> QED BY <1>1, <1>2, <1>3, <1>4, <1>5 DEF ForwardInv

(* Inbound keeps the invariant.                                            *)
LEMMA ForwardInbound ==
  ASSUME ForwardInv, Forwards!Inbound
  PROVE  ForwardInv'
<1>0. ForwardTypes /\ DialTypes /\ TargetTypes /\ CheckTypes /\ BestKept
      /\ ToldLast /\ Stages /\ ScanSees /\ OpensOwn
  BY DEF ForwardInv
<1>1. ForwardTypes'
  BY <1>0, ForwardConstant DEF Forwards!Inbound, ForwardTypes, DialTypes, Forwards!Limit, Forwards!Late
<1>2. TargetTypes'
  BY <1>0, ForwardConstant DEF Forwards!Inbound, TargetTypes, Forwards!Limit, Forwards!Late
<1>3. ToldLast'
  BY <1>0, ForwardConstant DEF Forwards!Inbound, ForwardTypes, DialTypes, BestKept, ToldLast, Stages,
       Forwards!Limit, Forwards!Late, Forwards!telling, Forwards!Reasons
<1>4. Stages'
  BY <1>0, ForwardConstant DEF Forwards!Inbound, ForwardTypes, Stages, Forwards!Limit, Forwards!Late
<1>5. ScanSees'
  BY <1>0, ForwardConstant DEF Forwards!Inbound, TargetTypes, CheckTypes, ScanSees, Forwards!Limit,
       Forwards!Late
<1>6. OpensOwn'
  BY <1>0, ForwardConstant DEF Forwards!Inbound, ForwardTypes, TargetTypes, CheckTypes, ScanSees,
       OpensOwn, Stages, Forwards!Limit, Forwards!Late
<1>7. DialTypes' /\ CheckTypes' /\ BestKept'
  BY <1>0 DEF Forwards!Inbound, DialTypes, CheckTypes, BestKept
<1> QED BY <1>1, <1>2, <1>3, <1>4, <1>5, <1>6, <1>7 DEF ForwardInv

(* WriteSocket keeps the invariant.                                        *)
LEMMA ForwardWriteSocket ==
  ASSUME ForwardInv, Forwards!WriteSocket
  PROVE  ForwardInv'
<1>0. ForwardTypes /\ DialTypes /\ TargetTypes /\ CheckTypes /\ BestKept
      /\ ToldLast /\ Stages /\ ScanSees /\ OpensOwn
  BY DEF ForwardInv
<1>1. ForwardTypes'
  BY <1>0, ForwardConstant DEF Forwards!WriteSocket, ForwardTypes, DialTypes, Forwards!Limit, Forwards!Late
<1>2. ToldLast'
  BY <1>0, ForwardConstant DEF Forwards!WriteSocket, ForwardTypes, DialTypes, BestKept, ToldLast,
       Stages, Forwards!Limit, Forwards!Late, Forwards!telling, Forwards!Reasons
<1>3. Stages'
  BY <1>0, ForwardConstant DEF Forwards!WriteSocket, ForwardTypes, Stages, Forwards!Limit, Forwards!Late
<1>4. OpensOwn'
  BY <1>0, ForwardConstant DEF Forwards!WriteSocket, ForwardTypes, TargetTypes, CheckTypes, ScanSees,
       OpensOwn, Stages, Forwards!Limit, Forwards!Late
<1>5. DialTypes' /\ TargetTypes' /\ CheckTypes' /\ BestKept' /\ ScanSees'
  BY <1>0 DEF Forwards!WriteSocket, DialTypes, TargetTypes, CheckTypes, BestKept, ScanSees
<1> QED BY <1>1, <1>2, <1>3, <1>4, <1>5 DEF ForwardInv

(* WriteEnd keeps the invariant.                                           *)
LEMMA ForwardWriteEnd ==
  ASSUME ForwardInv, Forwards!WriteEnd
  PROVE  ForwardInv'
<1>0. ForwardTypes /\ DialTypes /\ TargetTypes /\ CheckTypes /\ BestKept
      /\ ToldLast /\ Stages /\ ScanSees /\ OpensOwn
  BY DEF ForwardInv
<1>1. ForwardTypes'
  BY <1>0, ForwardConstant DEF Forwards!WriteEnd, ForwardTypes, DialTypes, Forwards!Limit, Forwards!Late
<1>2. ToldLast'
  BY <1>0, ForwardConstant DEF Forwards!WriteEnd, ForwardTypes, DialTypes, BestKept, ToldLast, Stages,
       Forwards!Limit, Forwards!Late, Forwards!telling, Forwards!Reasons
<1>3. Stages'
  BY <1>0, ForwardConstant DEF Forwards!WriteEnd, ForwardTypes, Stages, Forwards!Limit, Forwards!Late
<1>4. OpensOwn'
  BY <1>0, ForwardConstant DEF Forwards!WriteEnd, ForwardTypes, TargetTypes, CheckTypes, ScanSees,
       OpensOwn, Stages, Forwards!Limit, Forwards!Late
<1>5. DialTypes' /\ TargetTypes' /\ CheckTypes' /\ BestKept' /\ ScanSees'
  BY <1>0 DEF Forwards!WriteEnd, DialTypes, TargetTypes, CheckTypes, BestKept, ScanSees
<1> QED BY <1>1, <1>2, <1>3, <1>4, <1>5 DEF ForwardInv

(* Close keeps the invariant.                                              *)
LEMMA ForwardClose ==
  ASSUME ForwardInv, Forwards!Close
  PROVE  ForwardInv'
<1>0. ForwardTypes /\ DialTypes /\ TargetTypes /\ CheckTypes /\ BestKept
      /\ ToldLast /\ Stages /\ ScanSees /\ OpensOwn
  BY DEF ForwardInv
<1>1. ForwardTypes'
  BY <1>0, ForwardConstant DEF Forwards!Close, ForwardTypes, DialTypes, Forwards!Limit, Forwards!Late
<1>2. ToldLast'
  BY <1>0, ForwardConstant DEF Forwards!Close, ForwardTypes, DialTypes, BestKept, ToldLast, Stages,
       Forwards!Limit, Forwards!Late, Forwards!telling, Forwards!Reasons
<1>3. Stages'
  BY <1>0, ForwardConstant DEF Forwards!Close, ForwardTypes, Stages, Forwards!Limit, Forwards!Late
<1>4. OpensOwn'
  BY <1>0, ForwardConstant DEF Forwards!Close, ForwardTypes, TargetTypes, CheckTypes, ScanSees,
       OpensOwn, Stages, Forwards!Limit, Forwards!Late
<1>5. DialTypes' /\ TargetTypes' /\ CheckTypes' /\ BestKept' /\ ScanSees'
  BY <1>0 DEF Forwards!Close, DialTypes, TargetTypes, CheckTypes, BestKept, ScanSees
<1> QED BY <1>1, <1>2, <1>3, <1>4, <1>5 DEF ForwardInv

(* Accept keeps the invariant.                                             *)
LEMMA ForwardAccept ==
  ASSUME ForwardInv, Forwards!Accept
  PROVE  ForwardInv'
<1>0. ForwardTypes /\ DialTypes /\ TargetTypes /\ CheckTypes /\ BestKept
      /\ ToldLast /\ Stages /\ ScanSees /\ OpensOwn
  BY DEF ForwardInv
<1>1. TargetTypes'
  BY <1>0, ForwardConstant DEF Forwards!Accept, TargetTypes, Forwards!Limit, Forwards!Late
<1>2. ScanSees'
  BY <1>0, ForwardConstant DEF Forwards!Accept, TargetTypes, CheckTypes, ScanSees, Forwards!Limit,
       Forwards!Late
<1>3. OpensOwn'
  BY <1>0, ForwardConstant DEF Forwards!Accept, ForwardTypes, TargetTypes, CheckTypes, ScanSees,
       OpensOwn, Stages, Forwards!Limit, Forwards!Late
<1>4. ForwardTypes' /\ DialTypes' /\ CheckTypes' /\ BestKept' /\ ToldLast' /\ Stages'
  BY <1>0 DEF Forwards!Accept, ForwardTypes, DialTypes, CheckTypes, BestKept, ToldLast, Stages
<1> QED BY <1>1, <1>2, <1>3, <1>4 DEF ForwardInv

(* HolderExits keeps the invariant.                                        *)
LEMMA ForwardHolderExits ==
  ASSUME ForwardInv, NEW p \in Procs, Forwards!HolderExits(p)
  PROVE  ForwardInv'
<1>0. ForwardTypes /\ DialTypes /\ TargetTypes /\ CheckTypes /\ BestKept
      /\ ToldLast /\ Stages /\ ScanSees /\ OpensOwn
  BY DEF ForwardInv
<1>1. TargetTypes'
  BY <1>0, ForwardConstant DEF Forwards!HolderExits, TargetTypes, Forwards!Limit, Forwards!Late
<1>2. ScanSees'
  BY <1>0, ForwardConstant DEF Forwards!HolderExits, TargetTypes, CheckTypes, ScanSees, Forwards!Limit,
       Forwards!Late
<1>3. OpensOwn'
  BY <1>0, ForwardConstant DEF Forwards!HolderExits, ForwardTypes, TargetTypes, CheckTypes, ScanSees,
       OpensOwn, Stages, Forwards!Limit, Forwards!Late
<1>4. ForwardTypes' /\ DialTypes' /\ CheckTypes' /\ BestKept' /\ ToldLast' /\ Stages'
  BY <1>0 DEF Forwards!HolderExits, ForwardTypes, DialTypes, CheckTypes, BestKept, ToldLast, Stages
<1> QED BY <1>1, <1>2, <1>3, <1>4 DEF ForwardInv

(* LeaderExits keeps the invariant.                                        *)
LEMMA ForwardLeaderExits ==
  ASSUME ForwardInv, Forwards!LeaderExits
  PROVE  ForwardInv'
<1>0. ForwardTypes /\ DialTypes /\ TargetTypes /\ CheckTypes /\ BestKept
      /\ ToldLast /\ Stages /\ ScanSees /\ OpensOwn
  BY DEF ForwardInv
<1>1. TargetTypes'
  BY <1>0, ForwardConstant DEF Forwards!LeaderExits, TargetTypes, Forwards!Limit, Forwards!Late
<1>2. ScanSees'
  BY <1>0, ForwardConstant DEF Forwards!LeaderExits, TargetTypes, CheckTypes, ScanSees, Forwards!Limit,
       Forwards!Late
<1>3. OpensOwn'
  BY <1>0, ForwardConstant DEF Forwards!LeaderExits, ForwardTypes, TargetTypes, CheckTypes, ScanSees,
       OpensOwn, Stages, Forwards!Limit, Forwards!Late
<1>4. ForwardTypes' /\ DialTypes' /\ CheckTypes' /\ BestKept' /\ ToldLast' /\ Stages'
  BY <1>0 DEF Forwards!LeaderExits, ForwardTypes, DialTypes, CheckTypes, BestKept, ToldLast, Stages
<1> QED BY <1>1, <1>2, <1>3, <1>4 DEF ForwardInv

(* ClientReads keeps the invariant.                                        *)
LEMMA ForwardClientReads ==
  ASSUME ForwardInv, Forwards!ClientReads
  PROVE  ForwardInv'
<1>0. ForwardTypes /\ DialTypes /\ TargetTypes /\ CheckTypes /\ BestKept
      /\ ToldLast /\ Stages /\ ScanSees /\ OpensOwn
  BY DEF ForwardInv
<1>1. ForwardTypes'
  BY <1>0, ForwardConstant DEF Forwards!ClientReads, ForwardTypes, DialTypes, Forwards!Limit, Forwards!Late
<1>2. ToldLast'
  BY <1>0, ForwardConstant DEF Forwards!ClientReads, ForwardTypes, DialTypes, BestKept, ToldLast,
       Stages, Forwards!Limit, Forwards!Late, Forwards!telling, Forwards!Reasons
<1>3. Stages'
  BY <1>0, ForwardConstant DEF Forwards!ClientReads, ForwardTypes, Stages, Forwards!Limit, Forwards!Late
<1>4. OpensOwn'
  BY <1>0, ForwardConstant DEF Forwards!ClientReads, ForwardTypes, TargetTypes, CheckTypes, ScanSees,
       OpensOwn, Stages, Forwards!Limit, Forwards!Late
<1>5. DialTypes' /\ TargetTypes' /\ CheckTypes' /\ BestKept' /\ ScanSees'
  BY <1>0 DEF Forwards!ClientReads, DialTypes, TargetTypes, CheckTypes, BestKept, ScanSees
<1> QED BY <1>1, <1>2, <1>3, <1>4, <1>5 DEF ForwardInv

(* ClientLeaves keeps the invariant.                                       *)
LEMMA ForwardClientLeaves ==
  ASSUME ForwardInv, Forwards!ClientLeaves
  PROVE  ForwardInv'
<1>0. ForwardTypes /\ DialTypes /\ TargetTypes /\ CheckTypes /\ BestKept
      /\ ToldLast /\ Stages /\ ScanSees /\ OpensOwn
  BY DEF ForwardInv
<1>1. ForwardTypes'
  BY <1>0, ForwardConstant DEF Forwards!ClientLeaves, ForwardTypes, DialTypes, Forwards!Limit, Forwards!Late
<1>2. ToldLast'
  BY <1>0, ForwardConstant DEF Forwards!ClientLeaves, ForwardTypes, DialTypes, BestKept, ToldLast,
       Stages, Forwards!Limit, Forwards!Late, Forwards!telling, Forwards!Reasons
<1>3. Stages'
  BY <1>0, ForwardConstant DEF Forwards!ClientLeaves, ForwardTypes, Stages, Forwards!Limit, Forwards!Late
<1>4. OpensOwn'
  BY <1>0, ForwardConstant DEF Forwards!ClientLeaves, ForwardTypes, TargetTypes, CheckTypes, ScanSees,
       OpensOwn, Stages, Forwards!Limit, Forwards!Late
<1>5. DialTypes' /\ TargetTypes' /\ CheckTypes' /\ BestKept' /\ ScanSees'
  BY <1>0 DEF Forwards!ClientLeaves, DialTypes, TargetTypes, CheckTypes, BestKept, ScanSees
<1> QED BY <1>1, <1>2, <1>3, <1>4, <1>5 DEF ForwardInv

(* ClientStops keeps the invariant.                                        *)
LEMMA ForwardClientStops ==
  ASSUME ForwardInv, Forwards!ClientStops
  PROVE  ForwardInv'
<1>0. ForwardTypes /\ DialTypes /\ TargetTypes /\ CheckTypes /\ BestKept
      /\ ToldLast /\ Stages /\ ScanSees /\ OpensOwn
  BY DEF ForwardInv
<1>1. ForwardTypes'
  BY <1>0, ForwardConstant DEF Forwards!ClientStops, ForwardTypes, DialTypes, Forwards!Limit, Forwards!Late
<1>2. ToldLast'
  BY <1>0, ForwardConstant DEF Forwards!ClientStops, ForwardTypes, DialTypes, BestKept, ToldLast,
       Stages, Forwards!Limit, Forwards!Late, Forwards!telling, Forwards!Reasons
<1>3. Stages'
  BY <1>0, ForwardConstant DEF Forwards!ClientStops, ForwardTypes, Stages, Forwards!Limit, Forwards!Late
<1>4. OpensOwn'
  BY <1>0, ForwardConstant DEF Forwards!ClientStops, ForwardTypes, TargetTypes, CheckTypes, ScanSees,
       OpensOwn, Stages, Forwards!Limit, Forwards!Late
<1>5. DialTypes' /\ TargetTypes' /\ CheckTypes' /\ BestKept' /\ ScanSees'
  BY <1>0 DEF Forwards!ClientStops, DialTypes, TargetTypes, CheckTypes, BestKept, ScanSees
<1> QED BY <1>1, <1>2, <1>3, <1>4, <1>5 DEF ForwardInv

(* The invariant holds when the forward is asked for.                      *)
LEMMA ForwardInitial ==
  ASSUME Forwards!ForwardInit
  PROVE  ForwardInv
<1>1. PICK l \in ForwardLimits :
         /\ c1 = [stage |-> IF l.udp /\ l.bound THEN "refused" ELSE "new", why |-> "", limit |-> l,
                  reads |-> "no", writes |-> "no", entry |-> FALSE, out |-> <<>>, sent |-> <<>>,
                  inbound |-> 0, frames |-> 0, client |-> "reading"]
         /\ c2 = [left |-> l.addresses, running |-> 0, best |-> "", failed |-> {}, tried |-> 0,
                      next |-> TRUE, late |-> FALSE]
         /\ c3 = [holders |-> l.holders, session |-> l.sessions, accepted |-> FALSE,
                      exited |-> FALSE, open |-> TRUE, bytes |-> 0]
         /\ c4 = [todo |-> {}, found |-> {}, without |-> 0, looks |-> 0, at |-> "idle"]
  BY DEF Forwards!ForwardInit
<1>2. ForwardTypes BY <1>1 DEF ForwardTypes
<1>3. DialTypes /\ BestKept BY <1>1, ForwardConstant DEF DialTypes, BestKept
<1>4. TargetTypes BY <1>1, ForwardConstant DEF TargetTypes
<1>5. CheckTypes BY <1>1 DEF CheckTypes
<1>6. Stages BY <1>1, ForwardConstant DEF Stages
<1>7. ToldLast /\ ScanSees /\ OpensOwn BY <1>1 DEF ToldLast, ScanSees, OpensOwn, Forwards!Reasons
<1> QED BY <1>2, <1>3, <1>4, <1>5, <1>6, <1>7 DEF ForwardInv

(* Every step of a forward keeps the invariant.                            *)
LEMMA ForwardStep ==
  ASSUME ForwardInv, Forwards!ForwardNext
  PROVE  ForwardInv'
BY ForwardLookup, ForwardAttempt, ForwardConnected, ForwardAttemptFails, ForwardGiveUp,
   ForwardSlowAttempt, ForwardDialDeadline, ForwardDeadline, ForwardLook, ForwardFind,
   ForwardVerdict, ForwardVerifyDeadline, ForwardOpen, ForwardOpenUdp, ForwardReadSocket,
   ForwardSendFrame, ForwardSendFails, ForwardSocketEnds, ForwardSeesExit, ForwardSendEnd,
   ForwardInbound, ForwardWriteSocket, ForwardWriteEnd, ForwardClose, ForwardAccept,
   ForwardHolderExits, ForwardLeaderExits, ForwardClientReads, ForwardClientLeaves,
   ForwardClientStops
   DEF Forwards!ForwardNext

(* The invariant is strong enough.                                         *)
LEMMA ForwardInvImplies ==
  ASSUME ForwardInv
  PROVE  Forwards!DialTellsTheMost /\ Forwards!OpensForItsOwn
BY DEF ForwardInv, ToldLast, OpensOwn, Forwards!DialTellsTheMost, Forwards!OpensForItsOwn,
     Forwards!Limit, Forwards!Late

ForwardPart == part = "forward" => ForwardInv

(* For every target, set of processes and timing: a dial that fails tells  *)
(* the most telling failure it met, and fails before its deadline only     *)
(* when every address was tried (forward.rs dial_to); and a forward bound  *)
(* to a session never opens while a process outside the session holds the  *)
(* far end, though the processes are read one by one while they exit       *)
(* (owner.rs verify_owner).                                                *)
THEOREM ForwardCorrect == ControlSpec => []ForwardOpensRight
<1>1. ControlInit => ForwardPart
  BY ForwardInitial DEF ControlInit, ForwardPart
<1>2. ForwardPart /\ [ControlNext]_controlVars => ForwardPart'
  <2> SUFFICES ASSUME ForwardPart, [ControlNext]_controlVars, part' = "forward" PROVE ForwardInv'
    BY DEF ForwardPart
  <2>1. part = "forward" BY DEF ControlNext, controlVars
  <2>2. ForwardInv BY <2>1 DEF ForwardPart
  <2>3. CASE Forwards!ForwardNext BY <2>2, <2>3, ForwardStep
  <2>4. CASE UNCHANGED <<c1, c2, c3, c4>>
    BY <2>2, <2>4 DEF ForwardInv, ForwardTypes, DialTypes, TargetTypes, CheckTypes, BestKept, ToldLast,
                      Stages, ScanSees, OpensOwn
  <2> QED BY <2>1, <2>3, <2>4 DEF ControlNext, controlVars, From1, From2, From3
<1>3. ForwardPart => ForwardOpensRight
  BY ForwardInvImplies DEF ForwardPart, ForwardOpensRight
<1> QED BY <1>1, <1>2, <1>3, PTL DEF ControlSpec
===============================================================================
