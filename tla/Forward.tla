------------------------------- MODULE Forward -------------------------------
(***************************************************************************)
(* One forward (crates/sealant-network/src/forward.rs and owner.rs): the   *)
(* name is resolved and its addresses dialled, a new attempt whenever one  *)
(* fails or is slow, all by one deadline; a forward bound to a session     *)
(* opens only when the processes that hold the far end are the session's;  *)
(* then two pumps carry bytes, and a bound one ends with its owner.        *)
(*                                                                         *)
(* The processes of the container are read one by one, while they exit.    *)
(* Bytes are counted, not kept.  The control connection (`out', `inbound') *)
(* is ControlConnection's; here it may stop reading at any time.           *)
(***************************************************************************)
EXTENDS Integers, FiniteSets, Sequences, SequencesExt

CONSTANTS Procs,           \* the processes that may hold the far end
          OutCapacity,     \* room for this forward in the outbound queue
          LOOKS_WITHOUT_HOLDER,
          ForwardLimits    \* a set of [udp, bound, addresses, holders, sessions, bytes, looks]

\* What the constants may be.
ForwardConstants ==
    /\ OutCapacity \in Nat /\ LOOKS_WITHOUT_HOLDER \in Nat
    /\ ForwardLimits \subseteq
         [udp : BOOLEAN, bound : BOOLEAN, addresses : Nat, holders : SUBSET Procs,
          sessions : [Procs -> {"member", "foreign", "unread", "unknown"}], bytes : Nat, looks : Nat]

VARIABLES fw,      \* the forward
          dialed,  \* the dial
          target,  \* the far end, its holders, and the owner
          check    \* the check of the owner

forwardVars == <<fw, dialed, target, check>>

Limit == fw.limit
Reasons == {"ConnectionRefused", "DialTimeout", "NetworkUnreachable", "none"}

\* telling: which of two failures is reported.
telling(reason) ==
    CASE reason = "ConnectionRefused" -> 3
      [] reason = "DialTimeout" -> 2
      [] reason = "NetworkUnreachable" -> 1
      [] OTHER -> 0

ForwardInit ==
    \E l \in ForwardLimits :
       /\ fw = [stage |-> IF l.udp /\ l.bound THEN "refused" ELSE "new", why |-> "", limit |-> l,
                reads |-> "no", writes |-> "no", entry |-> FALSE, out |-> <<>>, sent |-> <<>>,
                inbound |-> 0, frames |-> 0, client |-> "reading"]
       /\ dialed = [left |-> l.addresses, running |-> 0, best |-> "", failed |-> {}, tried |-> 0,
                    next |-> TRUE, late |-> FALSE]
       /\ target = [holders |-> l.holders, session |-> l.sessions, accepted |-> FALSE,
                    exited |-> FALSE, open |-> TRUE, bytes |-> 0]
       /\ check = [todo |-> {}, found |-> {}, without |-> 0, looks |-> 0, at |-> "idle"]

Refuse(why) == fw' = [fw EXCEPT !.stage = "refused", !.why = why]
Late == dialed.late

----------------------------------------------------------------------------
(* dial_resolved.                                                          *)

\* The name is looked up; a bound forward that resolves outside loopback is not dialled.
Lookup ==
    /\ fw.stage = "new"
    /\ \/ /\ Limit.bound /\ target.exited /\ Refuse("OwnerExited")
       \/ /\ ~(Limit.bound /\ target.exited)
          /\ \/ ~Late /\ dialed.left > 0
                /\ fw' = [fw EXCEPT !.stage = IF Limit.udp THEN "opening" ELSE "dial"]
             \/ Refuse("NameUnresolved")
             \/ Limit.bound /\ Refuse("NotLoopback")
    /\ UNCHANGED <<dialed, target, check>>

\* The top of the loop starts the next attempt, when told to and one is left.
Attempt ==
    /\ fw.stage = "dial" /\ dialed.next /\ dialed.left > 0
    /\ dialed' = [dialed EXCEPT !.left = @ - 1, !.running = @ + 1, !.tried = @ + 1, !.next = FALSE]
    /\ UNCHANGED <<fw, target, check>>

Waiting == fw.stage = "dial" /\ ~(dialed.next /\ dialed.left > 0)
KeepLast(reason) == reason
Keep(reason) ==
    IF dialed.best = "" \/ telling(reason) > telling(dialed.best) THEN reason ELSE dialed.best

\* select!: an attempt that ended, ...
Connected ==
    /\ Waiting /\ dialed.running > 0
    /\ fw' = [fw EXCEPT !.stage = IF Limit.bound THEN "verify" ELSE "opening"]
    /\ UNCHANGED <<dialed, target, check>>
AttemptFails(reason) ==
    /\ Waiting /\ dialed.running > 0
    /\ dialed' = [dialed EXCEPT !.running = @ - 1, !.best = Keep(reason), !.next = TRUE,
                                !.failed = @ \union {reason}]
    /\ UNCHANGED <<fw, target, check>>
\* ... none that runs: the next, or the end, ...
Exhausted == Waiting /\ dialed.running = 0 /\ dialed.left = 0
GiveUp ==
    /\ Exhausted
    /\ Refuse(IF dialed.best = "" THEN "DialTimeout" ELSE dialed.best)
    /\ UNCHANGED <<dialed, target, check>>
\* ... the delay before the next attempt, or the deadline.
SlowAttempt ==
    /\ Waiting /\ dialed.running > 0 /\ dialed.left > 0 /\ ~dialed.next
    /\ dialed' = [dialed EXCEPT !.next = TRUE]
    /\ UNCHANGED <<fw, target, check>>
DialDeadline ==
    /\ Waiting /\ Late
    /\ Refuse(Keep("DialTimeout"))
    /\ UNCHANGED <<dialed, target, check>>
Deadline ==
    /\ ~Late /\ fw.stage \in {"new", "dial", "verify"}
    /\ dialed' = [dialed EXCEPT !.late = TRUE]
    /\ UNCHANGED <<fw, target, check>>

----------------------------------------------------------------------------
(* verify_owner: look, find, verdict.                                      *)

\* accepted_socket: no row, or no inode yet, and the look is made again.
Look ==
    /\ fw.stage = "verify" /\ check.at = "idle" /\ ~Late /\ check.looks < Limit.looks
    /\ check' = IF target.accepted
                THEN [check EXCEPT !.at = "scan", !.todo = Procs, !.found = {}, !.looks = @ + 1]
                ELSE [check EXCEPT !.looks = @ + 1]
    /\ UNCHANGED <<fw, dialed, target>>

\* find, of one process: one that is gone does not hold it.
Finding(p) ==
    IF p \notin target.holders THEN "NotHolding"
    ELSE CASE target.session[p] = "member" -> "Member"
           [] target.session[p] = "foreign" -> "Foreign"
           [] target.session[p] = "unread" -> "Unreadable"
           [] OTHER -> "UnknownHolder"
Find(p) ==
    /\ check.at = "scan" /\ p \in check.todo
    /\ check' = [check EXCEPT !.todo = @ \ {p}, !.found = @ \union {Finding(p)}]
    /\ UNCHANGED <<fw, dialed, target>>

verdictOfAny(found) ==
    IF "Member" \in found THEN "Verified"
    ELSE IF "Foreign" \in found THEN "PeerMismatch"
    ELSE IF found \intersect {"UnknownHolder", "Unreadable"} # {} THEN "Unverifiable"
    ELSE "NoHolder"
verdict(found) ==
    IF "Foreign" \in found THEN "PeerMismatch"
    ELSE IF "UnknownHolder" \in found THEN "Unverifiable"
    ELSE IF "Member" \in found THEN "Verified"
    ELSE IF "Unreadable" \in found THEN "Unverifiable"
    ELSE "NoHolder"

\* The exit of the owner is asked again after the verdict.
Answered(v) ==
    IF target.exited THEN Refuse("OwnerExited")
    ELSE IF v = "Verified" THEN fw' = [fw EXCEPT !.stage = "opening"] ELSE Refuse(v)

Verdict ==
    LET v == verdict(check.found) IN
    /\ fw.stage = "verify" /\ check.at = "scan" /\ check.todo = {}
    /\ IF v = "NoHolder" /\ check.without + 1 < LOOKS_WITHOUT_HOLDER
       THEN check' = [check EXCEPT !.at = "idle", !.without = @ + 1] /\ UNCHANGED fw
       ELSE /\ check' = [check EXCEPT !.at = "done"]
            /\ Answered(IF v = "NoHolder" THEN "Unverifiable" ELSE v)
    /\ UNCHANGED <<dialed, target>>

\* The deadline, in verify or over it.
VerifyDeadline ==
    /\ fw.stage = "verify" /\ (Late \/ (check.at = "idle" /\ check.looks = Limit.looks))
    /\ check' = [check EXCEPT !.at = "done"]
    /\ Answered("Unverifiable")
    /\ UNCHANGED <<dialed, target>>

----------------------------------------------------------------------------
(* The pumps.                                                              *)

Opened == fw' = [fw EXCEPT !.stage = "open", !.reads = "read", !.writes = "run", !.entry = TRUE]
Open ==
    /\ fw.stage = "opening" /\ ~Limit.udp
    /\ Opened
    /\ UNCHANGED <<dialed, target, check>>
\* A datagram socket is bound and connected, or the open fails.
OpenUdp ==
    /\ fw.stage = "opening" /\ Limit.udp
    /\ Opened \/ Refuse("udp")
    /\ UNCHANGED <<dialed, target, check>>

OwnerGone == Limit.bound /\ target.exited
Room == Len(fw.out) < OutCapacity /\ fw.client # "gone"

\* pump_socket_to_gateway: a read, an end of the stream, a failed read (a UDP
\* socket reads on); both selects are biased to the owner's exit.
ReadSocket ==
    /\ fw.reads = "read" /\ ~OwnerGone /\ fw.frames < Limit.bytes
    /\ fw' = [fw EXCEPT !.reads = "send", !.frames = @ + 1]
    /\ UNCHANGED <<dialed, target, check>>
SendFrame ==
    /\ fw.reads = "send" /\ ~OwnerGone /\ Room
    /\ fw' = [fw EXCEPT !.reads = "read", !.out = Append(@, fw.frames), !.sent = Append(@, fw.frames)]
    /\ UNCHANGED <<dialed, target, check>>
SendFails ==
    /\ fw.reads = "end" \/ (fw.reads = "send" /\ ~OwnerGone)
    /\ fw.client = "gone"
    /\ fw' = [fw EXCEPT !.reads = "ended"]
    /\ UNCHANGED <<dialed, target, check>>
SocketEnds(why) ==
    /\ fw.reads = "read" /\ ~OwnerGone /\ ~Limit.udp
    /\ fw' = [fw EXCEPT !.reads = "end", !.why = why]
    /\ UNCHANGED <<dialed, target, check>>
SeesExitReadingOnly ==
    /\ fw.reads = "read" /\ OwnerGone
    /\ fw' = [fw EXCEPT !.reads = "end", !.why = "OwnerExited", !.writes = "aborted"]
    /\ UNCHANGED <<dialed, target, check>>
SeesExit ==
    /\ fw.reads \in {"read", "send"} /\ OwnerGone
    /\ fw' = [fw EXCEPT !.reads = "end", !.why = "OwnerExited", !.writes = "aborted"]
    /\ UNCHANGED <<dialed, target, check>>
SendEnd ==
    /\ fw.reads = "end" /\ Room
    /\ fw' = [fw EXCEPT !.reads = "ended", !.out = Append(@, 0), !.sent = Append(@, 0)]
    /\ UNCHANGED <<dialed, target, check>>

\* The write pump: a frame is written, or the socket refuses it; an End, or the
\* end of its queue, shuts the socket's write half.
Inbound ==
    /\ fw.stage = "open" /\ fw.client # "gone" /\ fw.entry /\ target.bytes < Limit.bytes
    /\ fw' = [fw EXCEPT !.inbound = @ + 1]
    /\ target' = [target EXCEPT !.bytes = @ + 1]
    /\ UNCHANGED <<dialed, check>>
WriteSocket ==
    /\ fw.writes = "run" /\ fw.inbound > 0
    /\ fw' = [fw EXCEPT !.inbound = @ - 1, !.writes = IF target.open \/ Limit.udp THEN @ ELSE "shut"]
    /\ UNCHANGED <<dialed, target, check>>
WriteEnd ==
    /\ fw.writes = "run" /\ fw.inbound = 0
    /\ fw' = [fw EXCEPT !.writes = "shut"]
    /\ UNCHANGED <<dialed, target, check>>

\* close: both pumps are aborted and the entry goes.
Close ==
    /\ fw.stage = "open" /\ fw.entry
    /\ fw' = [fw EXCEPT !.entry = FALSE, !.reads = "ended",
                        !.writes = IF @ = "run" THEN "aborted" ELSE @, !.client = "gone", !.out = <<>>]
    /\ UNCHANGED <<dialed, target, check>>

----------------------------------------------------------------------------
(* The container, the owner and the client.                                *)

Accept ==
    /\ ~target.accepted /\ fw.stage \in {"dial", "verify"}
    /\ target' = [target EXCEPT !.accepted = TRUE]
    /\ UNCHANGED <<fw, dialed, check>>
HolderExits(p) ==
    /\ p \in target.holders /\ fw.stage \in {"verify", "open"}
    /\ target' = [target EXCEPT !.holders = @ \ {p}, !.open = @ /\ target.holders # {p}]
    /\ UNCHANGED <<fw, dialed, check>>
LeaderExits ==
    /\ Limit.bound /\ ~target.exited
    /\ target' = [target EXCEPT !.exited = TRUE]
    /\ UNCHANGED <<fw, dialed, check>>
ClientReads ==
    /\ fw.client = "reading" /\ fw.out # <<>>
    /\ fw' = [fw EXCEPT !.out = Tail(@)]
    /\ UNCHANGED <<dialed, target, check>>
ClientLeaves ==
    /\ fw.client # "gone" /\ fw.stage = "open"
    /\ fw' = [fw EXCEPT !.client = "gone", !.out = <<>>]
    /\ UNCHANGED <<dialed, target, check>>
ClientStops ==
    /\ fw.client = "reading" /\ fw.stage = "open"
    /\ fw' = [fw EXCEPT !.client = "stopped"]
    /\ UNCHANGED <<dialed, target, check>>

Dialling == Attempt \/ GiveUp \/ DialDeadline
Checking == Look \/ Verdict \/ VerifyDeadline \/ \E p \in Procs : Find(p)

ForwardNext ==
    \/ Lookup \/ Attempt \/ Connected \/ GiveUp \/ SlowAttempt \/ DialDeadline \/ Deadline
    \/ \E reason \in Reasons : AttemptFails(reason)
    \/ Look \/ Verdict \/ VerifyDeadline
    \/ \E p \in Procs : Find(p) \/ HolderExits(p)
    \/ Open \/ OpenUdp \/ ReadSocket \/ SendFrame \/ SendFails \/ SeesExit \/ SendEnd
    \/ \E why \in {"Eof", "ReadFailed"} : SocketEnds(why)
    \/ Inbound \/ WriteSocket \/ WriteEnd \/ Close
    \/ Accept \/ LeaderExits \/ ClientReads \/ ClientStops \/ ClientLeaves

\* The timers fire and the tasks run; nothing makes the container, the owner or
\* the client do anything.
ForwardFairness ==
    /\ WF_forwardVars(Deadline)
    /\ WF_forwardVars(Dialling) /\ WF_forwardVars(Checking) /\ WF_forwardVars(Open \/ OpenUdp)
    /\ WF_forwardVars(SeesExit) /\ WF_forwardVars(Lookup)

ForwardSpec == ForwardInit /\ [][ForwardNext]_forwardVars /\ ForwardFairness

----------------------------------------------------------------------------
(* Properties.                                                             *)

\* A dial that fails tells the most telling of the failures it met, and before
\* the deadline it fails only when every address was tried and none connected.
DialTellsTheMost ==
    fw.stage = "refused" /\ fw.why \in Reasons =>
        /\ \A reason \in dialed.failed : telling(reason) <= telling(fw.why)
        /\ dialed.left = 0 \/ Late

\* A bound forward opens only when no process outside the session holds the far
\* end: the scan reads the processes one after another, and they may exit.
OpensForItsOwn ==
    Limit.bound /\ fw.stage = "opening" =>
        \A p \in target.holders : target.session[p] \notin {"foreign", "unknown"}

\* Every dial and check ends, and once the owner of a bound forward exits the
\* target is written to no more, though the client never reads another frame;
\* unless the target had ended its side before.
HasAnswer == fw.stage \in {"open", "refused"}
OwnerLeft == OwnerGone /\ fw.stage = "open"
WritesOver == fw.writes # "run"
StillReads == fw.reads \in {"read", "send"}
ForwardSettles == <>HasAnswer /\ ((OwnerLeft /\ StillReads) ~> WritesOver)

\* forward.rs: "The forward ends, with an End whose error is owner-exited, when
\* the session's leader exits."  It does not when the target ended its side
\* first: the read pump, which watches the owner, is over.
OwnerExitEndsWrites == OwnerLeft ~> WritesOver
=============================================================================
