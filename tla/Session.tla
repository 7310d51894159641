------------------------------- MODULE Session -------------------------------
(* Interactive sessions (sealant-pty): the one capture reader of a leader's *)
(* output, the session's journal, the subscriptions that replay and follow  *)
(* it, forwarded input, and the settlement of a leader that exited.         *)
(*                                                                          *)
(* A read is one chunk; the raw output is counted in chunks.  A record of   *)
(* the journal is the count of raw chunks up to its end: the masker may     *)
(* hold a chunk back, and the next record then carries both.  A pipe        *)
(* session's stderr, resizes and the read-only verbs are left out.          *)
EXTENDS Naturals, Sequences, FiniteSets

CONSTANTS Sessions, Channels,
          Leaders,         \* what leaders a session may have
          MaxSessions,     \* limits.max_sessions
          Over,            \* sessions that have ended when we start to look
          Cap,             \* MAX_FINISHED_SESSIONS
          SegmentRecords,  \* records a journal segment holds
          BatchRecords,    \* records of REPLAY_BATCH_BYTES
          Buffer,          \* chunks the terminal or pipe buffers
          DrainBudget      \* chunks of POST_EXIT_DRAIN_BUDGET

(* A leader on a terminal or on pipes; whether a child of it holds its     *)
(* output open; the chunks it writes at most; whether an append of its     *)
(* journal may fail.                                                       *)
SessionConstants ==
  /\ Leaders \subseteq [mode : {"pty", "pipe"}, helper : BOOLEAN, output : Nat, fails : BOOLEAN]
  /\ MaxSessions \in Nat /\ IsFiniteSet(Sessions) /\ Over \subseteq Sessions
  /\ Cap \in Nat \ {0} /\ Cardinality(Over) <= Cap
  /\ SegmentRecords \in Nat \ {0} /\ BatchRecords \in Nat \ {0}
  /\ Buffer \in Nat \ {0} /\ DrainBudget \in Nat /\ DrainBudget >= Buffer

VARIABLES
  phase,     \* how far each session is, from open to its dropped tombstone
  kind,      \* the leader of each session, the same for all
  leader,    \* "up", "killed" (SIGKILL is on its way) or "dead"
  wrote,     \* raw chunks written
  shown,     \* of those, what a read can return (the tty's flip buffer lags)
  read,      \* of those, what the capture reader took
  owed,      \* what was written when the leader exited
  drain,     \* the reader's drain after the exit
  journal,
  input,     \* the input record: "free", "busy" or "closed"
  armed,     \* a close sent SIGHUP, and its kill timer runs
  finished,  \* the registry's tombstones, oldest first
  active,    \* status: running sessions
  sub        \* one output subscription per channel

process == <<kind, leader, wrote, shown, owed, armed>>
reader == <<read, drain, journal>>
registry == <<phase, finished, active>>
vars == <<process, reader, registry, input, sub>>

Off == [pc |-> "off", s |-> "none", cursor |-> 0, exited |-> FALSE, batch |-> {},
        woken |-> FALSE, gap |-> FALSE]
Fresh == [recs |-> <<>>, old |-> 0, cur |-> 0, torn |-> FALSE, bad |-> {},
          failed |-> FALSE, files |-> TRUE]

Undrained == [on |-> FALSE, budget |-> 0, quiet |-> FALSE, done |-> FALSE]

Init ==
  /\ phase = [s \in Sessions |-> IF s \in Over THEN "settled" ELSE "new"]
  /\ \E l \in Leaders : kind = [s \in Sessions |-> l]
  /\ leader = [s \in Sessions |-> IF s \in Over THEN "dead" ELSE "up"]
  /\ wrote = [s \in Sessions |-> 0] /\ shown = wrote /\ read = wrote /\ owed = wrote
  /\ drain = [s \in Sessions |-> [Undrained EXCEPT !.done = s \in Over]]
  /\ journal = [s \in Sessions |-> Fresh]
  /\ input = [s \in Sessions |-> IF s \in Over THEN "closed" ELSE "free"]
  /\ armed = [s \in Sessions |-> FALSE]
  /\ finished \in {f \in [1..Cardinality(Over) -> Over] : {f[i] : i \in DOMAIN f} = Over}
  /\ active = 0
  /\ sub = [c \in Channels |-> Off]

(* The registry: a session runs from its insert until finish takes it out, *)
(* and is a tombstone once finish has pushed it.                           *)
Running(s) == phase[s] \in {"live", "reaped", "drained", "cut", "marked"}
Tombstone(s) == phase[s] = "settled"
Exited(s) == phase[s] \notin {"new", "checked", "live"}
ExitKnown(s) == phase[s] \in {"marked", "unlisted", "settled", "gone"}

Ended == {"off", "clean", "error"}
Follows(c, s) == sub[c].pc \notin Ended /\ sub[c].s = s

(* watch::Sender::send_modify and send_replace on output_changed.          *)
Woken(s) == [c \in Channels |-> IF Follows(c, s) THEN [sub[c] EXCEPT !.woken = TRUE] ELSE sub[c]]

(* The senders of `attached' are dropped: its subscriptions stop.          *)
Cancelled(gone) ==
  [c \in Channels |-> IF \E s \in gone : Follows(c, s) THEN Off ELSE sub[c]]

-----------------------------------------------------------------------------
(* SessionRuntime::open reads the session count, starts the leader and     *)
(* creates its journal, and only then counts the session.                  *)
OpenCheck(s) ==
  /\ phase[s] = "new" /\ active < MaxSessions
  /\ phase' = [phase EXCEPT ![s] = "checked"]
  /\ UNCHANGED <<process, reader, finished, active, input, sub>>

OpenFails(s) ==
  /\ phase[s] = "checked"
  /\ phase' = [phase EXCEPT ![s] = "gone"]
  /\ leader' = [leader EXCEPT ![s] = "dead"]
  /\ UNCHANGED <<kind, wrote, shown, owed, armed, reader, finished, active, input, sub>>

OpenInsert(s) ==
  /\ phase[s] = "checked"
  /\ phase' = [phase EXCEPT ![s] = "live"] /\ active' = active + 1
  /\ UNCHANGED <<process, reader, finished, input, sub>>

-----------------------------------------------------------------------------
(* The leader, a helper that inherited its output, and the terminal.       *)
CanWrite(s) == wrote[s] < kind[s].output /\ wrote[s] - read[s] < Buffer

Write(s) ==
  /\ Running(s) /\ ~drain[s].done /\ CanWrite(s)
  /\ leader[s] # "dead" \/ kind[s].helper
  /\ wrote' = [wrote EXCEPT ![s] = @ + 1]
  /\ shown' = IF kind[s].mode = "pipe" THEN [shown EXCEPT ![s] = @ + 1] ELSE shown
  /\ UNCHANGED <<kind, leader, owed, armed, reader, registry, input, sub>>

TtyShows(s) ==
  /\ shown[s] < wrote[s]
  /\ shown' = [shown EXCEPT ![s] = wrote[s]]
  /\ UNCHANGED <<kind, leader, wrote, owed, armed, reader, registry, input, sub>>

LeaderExits(s) ==
  /\ Running(s) /\ leader[s] # "dead"
  /\ leader' = [leader EXCEPT ![s] = "dead"] /\ owed' = [owed EXCEPT ![s] = wrote[s]]
  /\ UNCHANGED <<kind, wrote, shown, armed, reader, registry, input, sub>>

-----------------------------------------------------------------------------
(* SessionJournal.  A segment that is full becomes the previous one, and   *)
(* the one before it is removed.                                           *)
NextSeq(j) == Len(j.recs)
Rotated(j) ==
  IF NextSeq(j) - j.cur >= SegmentRecords
  THEN [j EXCEPT !.old = j.cur, !.cur = NextSeq(j), !.torn = FALSE] ELSE j

(* A record behind a torn one lies at another offset than the journal      *)
(* notes: it cannot be read.                                               *)
Appended(j, upto) ==
  LET r == Rotated(j)
  IN  [r EXCEPT !.recs = Append(r.recs, upto),
                !.bad = IF r.torn THEN r.bad \cup {NextSeq(r)} ELSE r.bad]

(* A write that fails part way, or a segment that cannot be created.       *)
AppendFailures(j) ==
  {[Rotated(j) EXCEPT !.torn = torn, !.failed = TRUE] : torn \in BOOLEAN}
  \cup (IF Rotated(j) = j THEN {} ELSE {[j EXCEPT !.failed = TRUE]})

Run(j, lo, hi) == {q \in lo..hi : q < hi /\ \A p \in lo..q : p \notin j.bad}
FirstOf(S, n) == {q \in S : Cardinality({p \in S : p < q}) < n}

(* read_from: what the previous segment still holds, then the current one, *)
(* a batch at most.                                                        *)
ReadFrom(j, from) ==
  LET start == IF from < j.old THEN j.old ELSE from
      prev == FirstOf(Run(j, start, j.cur), BatchRecords)
      resume == IF prev = {} THEN start ELSE 1 + CHOOSE q \in prev : \A p \in prev : p <= q
      current == Run(j, IF resume < j.cur THEN j.cur ELSE resume, NextSeq(j))
  IN  IF j.files THEN prev \cup FirstOf(current, BatchRecords - Cardinality(prev)) ELSE {}

(* Fanout::journal: the append, then the subscribers are woken; a failure  *)
(* is sticky, and one in a session is enough.                              *)
Journal(s, upto) ==
  /\ \/ journal' = [journal EXCEPT ![s] = Appended(@, upto)]
     \/ /\ kind[s].fails /\ ~journal[s].failed
        /\ \E j \in AppendFailures(journal[s]) : journal' = [journal EXCEPT ![s] = j]
  /\ sub' = Woken(s)

(* capture_output and capture_pipe_output: the reader of one output.       *)
Reading(s) == Running(s) /\ ~drain[s].done

(* The leader's exit is looked at before the output.                       *)
DrainStarts(s) ==
  /\ Reading(s) /\ Exited(s) /\ ~drain[s].on
  /\ drain' = [drain EXCEPT ![s] = [Undrained EXCEPT !.on = TRUE, !.budget = DrainBudget]]
  /\ UNCHANGED <<process, read, journal, registry, input, sub>>

Readable(s) ==
  /\ Reading(s) /\ read[s] < shown[s]
  /\ Exited(s) => drain[s].on /\ drain[s].budget > 0

Took(s) ==
  /\ read' = [read EXCEPT ![s] = @ + 1]
  /\ drain' = IF drain[s].on
              THEN [drain EXCEPT ![s] = [@ EXCEPT !.budget = drain[s].budget - 1, !.quiet = FALSE]]
              ELSE drain

(* Fanout::deliver: masked, then journaled; the masker may hold the chunk. *)
Deliver(s) ==
  /\ Readable(s) /\ Took(s) /\ Journal(s, read[s] + 1)
  /\ UNCHANGED <<process, registry, input>>

Hold(s) ==
  /\ Readable(s) /\ Took(s)
  /\ UNCHANGED <<process, journal, registry, input, sub>>

(* One quiet look at a pty is not the end of it, two are: what the leader  *)
(* wrote is shown by then.  A quiet pipe is the end.                       *)
DrainQuiet(s) ==
  /\ Reading(s) /\ drain[s].on /\ drain[s].budget > 0 /\ read[s] = shown[s]
  /\ kind[s].mode = "pty" /\ ~drain[s].quiet
  /\ drain' = [drain EXCEPT ![s] = [@ EXCEPT !.quiet = TRUE]]
  /\ UNCHANGED <<process, read, journal, registry, input, sub>>

Settled(s) == shown[s] >= owed[s]
EndsAtFirstQuiet(s) ==   \* Mutation: no second look at a quiet terminal
  \/ leader[s] = "dead" /\ ~kind[s].helper /\ read[s] = wrote[s] /\ (Exited(s) => drain[s].on)
  \/ drain[s].on /\ (drain[s].budget = 0 \/ read[s] = shown[s])

OutputEnds(s) ==
  \/ leader[s] = "dead" /\ ~kind[s].helper /\ read[s] = wrote[s] /\ (Exited(s) => drain[s].on)
  \/ /\ drain[s].on /\ drain[s].budget > 0 /\ read[s] = shown[s]
     /\ kind[s].mode = "pty" => drain[s].quiet /\ Settled(s)
  \/ drain[s].on /\ drain[s].budget = 0

(* Fanout::finish: what the masker still holds is journaled.               *)
Held(s) == read[s] > (IF journal[s].recs = <<>> THEN 0
                      ELSE journal[s].recs[NextSeq(journal[s])])

CaptureEnds(s) ==
  /\ Reading(s) /\ OutputEnds(s)
  /\ drain' = [drain EXCEPT ![s] = [Undrained EXCEPT !.done = TRUE]]
  /\ \/ Held(s) /\ Journal(s, read[s])
     \/ ~Held(s) /\ UNCHANGED <<journal, sub>>
  /\ UNCHANGED <<process, read, registry, input>>

-----------------------------------------------------------------------------
(* The wait task: the leader is reaped, its output drains, its input       *)
(* record ends, its exit is published and marked, and finish moves it from *)
(* the running sessions to the tombstones, with no lock over both.         *)
Advance(s, from, to) ==
  /\ phase[s] = from /\ phase' = [phase EXCEPT ![s] = to]

Reap(s) ==
  /\ leader[s] = "dead" /\ Advance(s, "live", "reaped")
  /\ UNCHANGED <<process, reader, finished, active, input, sub>>

Drained(s) ==
  /\ drain[s].done /\ Advance(s, "reaped", "drained")
  /\ UNCHANGED <<process, reader, finished, active, input, sub>>

CutInput(s) ==
  /\ input[s] = "free" /\ Advance(s, "drained", "cut")
  /\ input' = [input EXCEPT ![s] = "closed"]
  /\ UNCHANGED <<process, reader, finished, active, sub>>

MarkSilently(s) ==   \* Mutation: the exit wakes no subscription
  /\ Advance(s, "cut", "marked")
  /\ UNCHANGED <<process, reader, finished, active, input, sub>>

MarkExited(s) ==
  /\ Advance(s, "cut", "marked") /\ sub' = Woken(s)
  /\ UNCHANGED <<process, reader, finished, active, input>>

Unlist(s) ==
  /\ Advance(s, "marked", "unlisted")
  /\ UNCHANGED <<process, reader, finished, active, input, sub>>

(* A tombstone beyond the cap goes, its subscriptions and its journal with *)
(* it; then the session is no longer counted.                              *)
Dropped(gone) ==
  /\ journal' = [s \in Sessions |-> IF s \in gone THEN [journal[s] EXCEPT !.files = FALSE]
                                    ELSE journal[s]]
  /\ sub' = Cancelled(gone)

BuryAll(s) ==   \* Mutation: no tombstone is evicted
  /\ Advance(s, "unlisted", "settled")
  /\ finished' = Append(finished, s) /\ active' = active - 1
  /\ UNCHANGED <<process, reader, input, sub>>

Bury(s) ==
  LET kept == Append(finished, s)
      gone == IF Len(kept) > Cap THEN {Head(kept)} ELSE {}
  IN  /\ phase[s] = "unlisted"
      /\ phase' = [t \in Sessions |-> IF t \in gone THEN "gone"
                                      ELSE IF t = s THEN "settled" ELSE phase[t]]
      /\ finished' = IF gone = {} THEN kept ELSE Tail(kept)
      /\ Dropped(gone) /\ active' = active - 1
      /\ UNCHANGED <<process, read, drain, input>>

-----------------------------------------------------------------------------
(* write_input: the record is locked over the write, which is taken or     *)
(* fails, and is given up when the leader exits.                           *)
InputBegins(s) ==
  /\ Running(s) /\ ~Exited(s) /\ input[s] = "free"
  /\ input' = [input EXCEPT ![s] = "busy"]
  /\ UNCHANGED <<process, reader, registry, sub>>

InputTaken(s) ==
  /\ input[s] = "busy"
  /\ input' = [input EXCEPT ![s] = "free"]
  /\ UNCHANGED <<process, reader, registry, sub>>

NeverGivesUp(s) == FALSE   \* Mutation: a blocked write outlives the leader
GivesUp(s) == Exited(s)

InputGivenUp(s) ==
  /\ input[s] = "busy" /\ GivesUp(s)
  /\ input' = [input EXCEPT ![s] = "free"]
  /\ UNCHANGED <<process, reader, registry, sub>>

(* close: a running session is hung up, and killed if it still runs when   *)
(* the grace is over; a tombstone goes.  terminate_all does the former to  *)
(* every running session.                                                  *)
CloseRunning(s) ==
  /\ Running(s)
  /\ armed' = [armed EXCEPT ![s] = TRUE]
  /\ UNCHANGED <<kind, leader, wrote, shown, owed, reader, registry, input, sub>>

Kill(s) ==
  /\ armed[s] /\ Running(s) /\ leader[s] = "up"
  /\ leader' = [leader EXCEPT ![s] = "killed"]
  /\ UNCHANGED <<kind, wrote, shown, owed, armed, reader, registry, input, sub>>

CloseTombstone(s) ==
  /\ Tombstone(s)
  /\ phase' = [phase EXCEPT ![s] = "gone"]
  /\ \E i \in DOMAIN finished :
       /\ finished[i] = s
       /\ finished' = SubSeq(finished, 1, i - 1) \o SubSeq(finished, i + 1, Len(finished))
  /\ Dropped({s})
  /\ UNCHANGED <<process, read, drain, active, input>>

-----------------------------------------------------------------------------
(* attach: the cursor is where the journal ends, or where the caller asks, *)
(* within what is retained.                                                *)
Clamped(j, from) ==
  IF from < j.old THEN j.old ELSE IF from > NextSeq(j) THEN NextSeq(j) ELSE from

Attach(c, s, from) ==
  /\ sub[c].pc \in Ended /\ (Running(s) \/ Tombstone(s))
  /\ sub' = [sub EXCEPT ![c] = [Off EXCEPT !.pc = "look", !.s = s,
                                           !.cursor = Clamped(journal[s], from)]]
  /\ UNCHANGED <<process, reader, registry, input>>

(* follow_journal: whether the journal failed, then whether the leader     *)
(* exited, then the journal, each under its own lock.                      *)
FollowFailure(c) ==
  LET f == sub[c]
  IN  /\ f.pc = "look"
      /\ sub' = [sub EXCEPT ![c] =
                   [f EXCEPT !.woken = FALSE, !.exited = FALSE,
                             !.pc = IF journal[f.s].failed THEN "error" ELSE "exit"]]
      /\ UNCHANGED <<process, reader, registry, input>>

FollowExit(c) ==
  LET f == sub[c]
  IN  /\ f.pc = "exit"
      /\ sub' = [sub EXCEPT ![c] = [f EXCEPT !.pc = "read", !.exited = ExitKnown(f.s)]]
      /\ UNCHANGED <<process, reader, registry, input>>

(* What a subscription does with what it found.                            *)
NeverBehind(f) == FALSE   \* Mutation: retention is not looked at
Behind(f) == f.cursor < journal[f.s].old
Found(f) == ReadFrom(journal[f.s], f.cursor)

NextStep(f) ==
  IF Behind(f) THEN "error"
  ELSE IF Found(f) # {} THEN "send"
  ELSE IF f.cursor < NextSeq(journal[f.s]) THEN "error"
  ELSE IF f.exited THEN "clean" ELSE "wait"

FollowRead(c) ==
  LET f == sub[c]
  IN  /\ f.pc = "read"
      /\ sub' = [sub EXCEPT ![c] =
                   [f EXCEPT !.pc = NextStep(f), !.exited = FALSE,
                             !.batch = IF NextStep(f) = "send" THEN Found(f) ELSE {}]]
      /\ UNCHANGED <<process, reader, registry, input>>

FollowWakes(c) ==
  /\ sub[c].pc = "wait" /\ sub[c].woken
  /\ sub' = [sub EXCEPT ![c].pc = "look"]
  /\ UNCHANGED <<process, reader, registry, input>>

(* Waits for the connection's outbound queue.                              *)
FollowSends(c) ==
  LET f == sub[c]
      q == CHOOSE x \in f.batch : \A y \in f.batch : x <= y
  IN  /\ f.pc = "send"
      /\ sub' = [sub EXCEPT ![c] =
                   [f EXCEPT !.cursor = q + 1, !.batch = @ \ {q},
                             !.gap = f.gap \/ q # f.cursor,
                             !.pc = IF f.batch = {q} THEN "look" ELSE "send"]]
      /\ UNCHANGED <<process, reader, registry, input>>

(* detach looks through the running sessions and the tombstones.           *)
Detach(c) ==
  /\ \E s \in Sessions : Follows(c, s) /\ (Running(s) \/ Tombstone(s))
  /\ sub' = [sub EXCEPT ![c] = Off]
  /\ UNCHANGED <<process, reader, registry, input>>

(* The connection's outbound queue closes.                                 *)
PeerGone(c) ==
  /\ \E s \in Sessions : Follows(c, s)
  /\ sub' = [sub EXCEPT ![c] = Off]
  /\ UNCHANGED <<process, reader, registry, input>>

-----------------------------------------------------------------------------
Capture(s) ==
  DrainStarts(s) \/ Deliver(s) \/ Hold(s) \/ DrainQuiet(s) \/ CaptureEnds(s)
Wait(s) == Reap(s) \/ Drained(s) \/ CutInput(s) \/ MarkExited(s) \/ Unlist(s) \/ Bury(s)
Follow(c) == FollowFailure(c) \/ FollowExit(c) \/ FollowRead(c) \/ FollowWakes(c) \/ FollowSends(c)

Next ==
  \/ \E s \in Sessions :
       \/ OpenCheck(s) \/ OpenFails(s) \/ OpenInsert(s)
       \/ Write(s) \/ TtyShows(s) \/ LeaderExits(s)
       \/ Capture(s) \/ Wait(s)
       \/ InputBegins(s) \/ InputTaken(s) \/ InputGivenUp(s)
       \/ CloseRunning(s) \/ Kill(s) \/ CloseTombstone(s)
  \/ \E c \in Channels :
       \/ \E s \in Sessions : \E from \in 0..NextSeq(journal[s]) + 1 : Attach(c, s, from)
       \/ Follow(c) \/ Detach(c) \/ PeerGone(c)

Spec == Init /\ [][Next]_vars

(* The daemon's tasks run and its timers fire; a killed leader dies; the   *)
(* terminal shows what was written; peers read what they subscribed to.    *)
FairSpec ==
  /\ Spec
  /\ \A s \in Sessions :
       /\ WF_vars(Capture(s)) /\ WF_vars(Wait(s)) /\ WF_vars(InputGivenUp(s))
       /\ WF_vars(Kill(s)) /\ WF_vars(TtyShows(s))
       /\ WF_vars(leader[s] = "killed" /\ LeaderExits(s))
  /\ \A c \in Channels : WF_vars(Follow(c))

-----------------------------------------------------------------------------
Phases == {"new", "checked", "live", "reaped", "drained", "cut", "marked", "unlisted",
           "settled", "gone"}

TypeOK ==
  /\ phase \in [Sessions -> Phases] /\ leader \in [Sessions -> {"up", "killed", "dead"}]
  /\ \A s \in Sessions :
       /\ read[s] <= shown[s] /\ shown[s] <= wrote[s] /\ wrote[s] <= kind[s].output
       /\ drain[s].budget \in 0..DrainBudget
       /\ journal[s].old <= journal[s].cur /\ journal[s].cur <= NextSeq(journal[s])
  /\ active \in 0..Cardinality(Sessions)
  /\ {finished[i] : i \in 1..Len(finished)} = {s \in Sessions : Tombstone(s)}
  /\ Len(finished) <= Cap

(* A subscription that ends without an error got every record of the       *)
(* journal from where it started, and, unless an append failed, everything *)
(* the leader wrote (follow_journal: the exit is observed before the       *)
(* journal; capture_output: the drain ends only when the leader's bytes    *)
(* are in).                                                                *)
CleanEndIsComplete ==
  \A c \in Channels :
    LET f == sub[c]
        j == journal[f.s]
    IN  f.pc = "clean" /\ ~j.failed =>
          /\ f.cursor = NextSeq(j)
          /\ owed[f.s] <= (IF j.recs = <<>> THEN 0 ELSE j.recs[NextSeq(j)])

(* Retention may overtake a subscription: it ends with an error and never  *)
(* skips a record (attach, follow_journal).                                *)
NoRecordSkipped ==
  \A c \in Channels : sub[c].gap => journal[sub[c].s].failed

(* A subscription of a session whose leader has exited ends, whatever a    *)
(* helper goes on writing, as long as its peer reads (follow_journal,      *)
(* POST_EXIT_DRAIN_BUDGET).                                                *)
SubscriptionDue(c) == \E s \in Sessions : Follows(c, s) /\ leader[s] = "dead"
SubscriptionOver(c) == sub[c].pc \in Ended
SubscriptionsEnd == \A c \in Channels : SubscriptionDue(c) ~> SubscriptionOver(c)

(* A session that was closed settles, even while input is blocked on a     *)
(* leader that does not read (close, write_input, the wait task).          *)
Closing(s) == armed[s] /\ Running(s)
HasSettled(s) == phase[s] \in {"settled", "gone"}
ClosedSettles == \A s \in Sessions : Closing(s) ~> HasSettled(s)
===============================================================================
