------------------------------- MODULE ShipPass -------------------------------
(***************************************************************************)
(* Passes over the capture queue (crates/sealant-capture/src/ship.rs): the *)
(* worker and any number of flushes take turns under one lock; a flush     *)
(* counts itself as waiting, and the worker's bulk upload yields to it.    *)
(* What the registrar answers is external: a quota refusal holds a class,  *)
(* a lost lease and a transient failure pause every pass until a backoff   *)
(* runs out, a refused register waits for a rebuild, a fence ends shipping.*)
(*                                                                         *)
(* A capture is [id, class, left]: `left` counts the objects still to      *)
(* upload of a bulk capture.  How a capture gets into the queue, and the   *)
(* chain it makes, is the matter of CaptureQueue.                          *)
(***************************************************************************)
EXTENDS Integers, FiniteSets, Sequences, SequencesExt

CONSTANTS Flushes,      \* the flushes, each a thread of its own
          PassLimits    \* a set of [queue, kinds, stages, faults, answers, deadlines]

VARIABLES queue,     \* the pending captures, oldest first
          shipper,   \* the lock, waiting, the backoffs and flags
          passes     \* each thread's place in its pass and its flush

passVars == <<queue, shipper, passes>>

Worker == "worker"
Threads == Flushes \union {Worker}
Fresh(kind) == [pc |-> "idle", kind |-> kind, gen |-> 0, past |-> FALSE,
                since |-> 0, result |-> "none", rest |-> <<>>]

PassInit ==
    \E l \in PassLimits : \E kinds \in l.kinds :
       /\ queue = l.queue
       /\ shipper = [lock |-> "", waiting |-> 0, fenced |-> FALSE, lease |-> FALSE, outage |-> FALSE,
                     held |-> {}, repair |-> 0, generation |-> 0, next |-> Len(l.queue),
                     faults |-> 0, stages |-> 0, limit |-> l]
       /\ passes = [t \in Threads |-> Fresh(IF t = Worker THEN "worker" ELSE kinds[t])]

At(t, pc) == passes[t].pc = pc
Flushing(t) == t # Worker
Scope(t) == IF passes[t].kind = "small" THEN "AheadOfBulk" ELSE "All"
IsBulk(e) == e.class = "bulk"
AllBulk == \A i \in DOMAIN queue : IsBulk(queue[i])

----------------------------------------------------------------------------
(* Taking turns.                                                           *)

\* A flush counts itself before it waits for the lock.
Wants(t) == passes' = [passes EXCEPT ![t].pc = "want"]
Begin(t) ==
    /\ Flushing(t) /\ At(t, "idle") /\ passes[t].kind # "none" /\ passes[t].result = "none"
    /\ passes' = [passes EXCEPT ![t].pc = "want", ![t].since = shipper.next]
    /\ shipper' = [shipper EXCEPT !.waiting = @ + 1]
    /\ UNCHANGED queue
Again(t) ==
    /\ Flushing(t) /\ At(t, "sleep")
    /\ Wants(t)
    /\ shipper' = [shipper EXCEPT !.waiting = @ + 1]
    /\ UNCHANGED queue
WorkerEntersAnyway ==
    /\ At(Worker, "idle")
    /\ Wants(Worker)
    /\ UNCHANGED <<queue, shipper>>
WorkerEnters ==
    /\ At(Worker, "idle") /\ shipper.waiting = 0
    /\ Wants(Worker)
    /\ UNCHANGED <<queue, shipper>>
\* The lock is not fair: any thread that wants it may have it.
TakeLock(t) ==
    /\ At(t, "want") /\ shipper.lock = ""
    /\ shipper' = [shipper EXCEPT !.lock = t, !.waiting = IF Flushing(t) THEN @ - 1 ELSE @]
    /\ passes' = [passes EXCEPT ![t].pc = "pass"]
    /\ UNCHANGED queue

----------------------------------------------------------------------------
(* How a pass ends, and what the flush that ran it makes of it.            *)

\* flush_scope and flush_final: the next place of a flush.
AfterScope(t, end) ==
    LET p == passes[t] IN
    IF end = "done" THEN "ok"
    ELSE IF end \in {"fenced", "conflict"} THEN "error"
    ELSE IF p.past THEN IF end = "failed" THEN "error" ELSE "late"
    ELSE "again"
AfterFinal(t, end) ==
    LET p == passes[t] IN
    IF shipper'.fenced \/ end \in {"repair", "conflict"} THEN "error"
    ELSE IF end = "done" THEN "ok"
    ELSE IF p.past THEN "error"
    ELSE "again"
After(t, end) == IF passes[t].kind = "final" THEN AfterFinal(t, end) ELSE AfterScope(t, end)

\* The lock is released; the worker comes round again, a flush answers or waits.
Ends(t, end, change) ==
    /\ shipper' = [change EXCEPT !.lock = "", !.generation = 0]
    /\ passes' = [passes EXCEPT ![t] =
          IF ~Flushing(t) THEN [@ EXCEPT !.pc = "idle"]
          ELSE IF After(t, end) = "again" THEN [@ EXCEPT !.pc = "sleep"]
          ELSE [@ EXCEPT !.pc = "idle", !.result = After(t, end), !.rest = queue]]
    /\ UNCHANGED queue

----------------------------------------------------------------------------
(* The pass.                                                               *)

Ready(t) == At(t, "pass") /\ shipper.lock = t
Paused == shipper.lease \/ shipper.outage
Held(e) == e.class \in shipper.held
AheadDoneAtBulk(t) == Scope(t) = "AheadOfBulk" /\ IsBulk(Head(queue))
AheadDone(t) == Scope(t) = "AheadOfBulk" /\ AllBulk

PassOver(t) ==
    /\ Ready(t)
    /\ \/ /\ shipper.fenced \/ queue = <<>>
          /\ Ends(t, "done", shipper)
       \/ /\ ~shipper.fenced /\ Paused
          /\ Ends(t, "idle", shipper)
Serves(t) == Ready(t) /\ ~shipper.fenced /\ ~Paused /\ queue # <<>>
AwaitRepair(t) ==
    /\ Serves(t) /\ Head(queue).id = shipper.repair
    /\ Ends(t, "repair", shipper)
HeldBack(t) ==
    /\ Serves(t) /\ Head(queue).id # shipper.repair /\ Held(Head(queue))
    /\ Ends(t, IF AheadDone(t) THEN "done" ELSE "idle", shipper)
Uploading == IsBulk(Head(queue)) /\ Head(queue).left > 0
Free(t) == Serves(t) /\ Head(queue).id # shipper.repair /\ ~Held(Head(queue))
BulkStart(t) ==
    /\ Free(t) /\ Uploading
    /\ IF AheadDone(t) THEN Ends(t, "done", shipper)
       ELSE /\ passes' = [passes EXCEPT ![t].pc = "bulk"]
            /\ shipper' = [shipper EXCEPT !.generation = 0]
            /\ UNCHANGED queue
Claim(t) ==
    /\ Free(t) /\ ~Uploading
    /\ passes' = [passes EXCEPT ![t].pc = "claimed"]
    /\ UNCHANGED <<queue, shipper>>

\* stop(): what ends a bulk upload between two objects.
Stop(t) ==
    IF shipper.generation > 0 THEN "Changed"
    ELSE IF ~Flushing(t) /\ shipper.waiting > 0 THEN "Waiting"
    ELSE IF passes[t].past THEN "Deadline"
    ELSE "none"
BulkStops(t) ==
    /\ At(t, "bulk") /\ Stop(t) # "none"
    /\ IF Stop(t) = "Changed"
       THEN /\ passes' = [passes EXCEPT ![t].pc = "pass"]
            /\ shipper' = [shipper EXCEPT !.generation = 0]
            /\ UNCHANGED queue
       ELSE Ends(t, "idle", shipper)

\* A call that went through clears both backoffs (lease_ok).
LeaseOk(s) == [s EXCEPT !.lease = FALSE, !.outage = FALSE]
BulkObject(t) ==
    LET i == CHOOSE k \in DOMAIN queue : IsBulk(queue[k]) IN
    /\ At(t, "bulk") /\ Stop(t) = "none"
    /\ queue' = [queue EXCEPT ![i].left = @ - 1]
    /\ passes' = [passes EXCEPT ![t].pc = IF queue[i].left = 1 THEN "pass" ELSE "bulk"]
    /\ shipper' = LeaseOk(shipper)

\* What a call may be refused with, and what the shipper keeps of it.
Refused(s, class, answer) ==
    CASE answer = "quota" -> [s EXCEPT !.held = @ \union {class}]
      [] answer = "lease" -> [s EXCEPT !.lease = TRUE]
      [] answer = "transient" -> [s EXCEPT !.outage = TRUE]
      [] answer = "fenced" -> [s EXCEPT !.fenced = TRUE]
      [] answer = "refused" -> [s EXCEPT !.repair = Head(queue).id]
      [] OTHER -> s
End(answer) ==
    CASE answer \in {"quota", "lease"} -> "idle"
      [] answer = "transient" -> "failed"
      [] answer = "refused" -> "repair"
      [] OTHER -> answer
Fault(t, answer) ==
    /\ shipper.faults < shipper.limit.faults /\ answer \in shipper.limit.answers
    /\ \/ At(t, "claimed")
       \/ At(t, "bulk") /\ Stop(t) = "none" /\ answer \in {"quota", "lease", "transient"}
    /\ LET class == IF At(t, "bulk") THEN "bulk" ELSE Head(queue).class IN
       Ends(t, End(answer), [Refused(shipper, class, answer) EXCEPT !.faults = @ + 1])

Register(t) ==
    /\ At(t, "claimed")
    /\ queue' = Tail(queue)
    /\ shipper' = [LeaseOk(shipper) EXCEPT !.held = @ \ {Head(queue).class}]
    /\ passes' = [passes EXCEPT ![t].pc = "shipped"]
\* The deadline is looked at between two captures.
Shipped(t) ==
    /\ At(t, "shipped")
    /\ IF passes[t].past THEN Ends(t, "idle", shipper)
       ELSE passes' = [passes EXCEPT ![t].pc = "pass"] /\ UNCHANGED <<queue, shipper>>

----------------------------------------------------------------------------
(* The engine and the clock.                                               *)

Claimed == \E t \in Threads : At(t, "claimed")
\* A small capture goes ahead of a bulk capture that still uploads.
StageSmall ==
    LET e == [id |-> shipper.next + 1, class |-> "small", left |-> 0]
        n == Len(queue)
        hoists == n > 0 /\ IsBulk(queue[n]) /\ queue[n].left > 0 /\ ~(Claimed /\ n = 1) IN
    /\ shipper.stages < shipper.limit.stages
    /\ queue' = IF hoists THEN InsertAt(queue, n, e) ELSE Append(queue, e)
    /\ shipper' = [shipper EXCEPT !.next = @ + 1, !.stages = @ + 1, !.generation = 1]
    /\ UNCHANGED passes
Rebuild ==
    /\ shipper.repair # 0
    /\ shipper' = [shipper EXCEPT !.repair = 0, !.generation = 1]
    /\ UNCHANGED <<queue, passes>>
BackoffEnds ==
    \/ /\ Paused
       /\ \E k \in {"lease", "outage"} :
             shipper[k] /\ shipper' = [shipper EXCEPT ![k] = FALSE]
       /\ UNCHANGED <<queue, passes>>
    \/ \E c \in shipper.held :
       /\ shipper' = [shipper EXCEPT !.held = @ \ {c}]
       /\ UNCHANGED <<queue, passes>>
\* A flush's own deadline, or the daemon's cutoff for every flush.
DeadlinePasses(t) ==
    /\ shipper.limit.deadlines /\ Flushing(t) /\ ~passes[t].past
    /\ passes[t].pc # "idle"
    /\ passes' = [passes EXCEPT ![t].past = TRUE]
    /\ UNCHANGED <<queue, shipper>>

Step(t) ==
    \/ PassOver(t) \/ AwaitRepair(t) \/ HeldBack(t) \/ BulkStart(t) \/ Claim(t)
    \/ BulkStops(t) \/ BulkObject(t) \/ Register(t) \/ Shipped(t) \/ Again(t) \/ TakeLock(t)
PassNext ==
    \/ WorkerEnters \/ StageSmall \/ Rebuild \/ BackoffEnds
    \/ \E t \in Threads : \/ Begin(t) \/ Step(t) \/ DeadlinePasses(t)
                          \/ \E answer \in {"quota", "lease", "transient", "fenced", "conflict", "refused"} :
                                Fault(t, answer)

\* Every thread runs, the engine's snap rebuilds what was refused, time passes.
\* Nothing makes the lock fair.
PassFairness ==
    /\ \A t \in Threads : WF_passVars(Step(t))
    /\ WF_passVars(WorkerEnters) /\ WF_passVars(Rebuild) /\ WF_passVars(BackoffEnds)

PassSpec == PassInit /\ [][PassNext]_passVars /\ PassFairness

----------------------------------------------------------------------------
(* Properties.                                                             *)

\* What a flush answers is true of the queue it left: a final flush says ok only
\* over an empty queue and a live lease, and a small flush that is done left no
\* small capture that was staged before it began, whoever registered it.
Answered(t) == passes[t].result = "ok" /\ ~shipper.fenced
FlushAnswersTruly ==
    \A t \in Flushes : Answered(t) =>
        CASE passes[t].kind = "final" -> passes[t].rest = <<>>
          [] passes[t].kind = "small" ->
                \A i \in DOMAIN passes[t].rest :
                   ~IsBulk(passes[t].rest[i]) => passes[t].rest[i].id > passes[t].since
          [] OTHER -> TRUE

\* A flush that began answers, though the lock is not fair, the worker comes
\* straight back for it and the bulk upload is long: the worker lets a waiting
\* flush go first and yields to it between two objects.
HasAnswer(t) == passes[t].result # "none"
FlushesAnswer == \A t \in Flushes : (At(t, "want") ~> HasAnswer(t))
=============================================================================
