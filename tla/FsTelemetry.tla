----------------------------- MODULE FsTelemetry -----------------------------
(***************************************************************************)
(* Filesystem telemetry (crates/sealant-fs): a baseline snapshot, a live   *)
(* watcher whose worker maps backend events to file.changed, a rescan when *)
(* the backend lost events, and a final snapshot whose difference from the *)
(* baseline is published when the daemon stops.                            *)
(*                                                                         *)
(* The workspace has the files f and g, an editor's temp file t, and a     *)
(* directory d with a file x in it.  An entry is [c, m]: its content (0    *)
(* for a directory, which has no hash) and its metadata.  The notify       *)
(* backend is external: a rename is three events (From, To, and Both when  *)
(* both ends are watched), and a full queue becomes one need_rescan.       *)
(***************************************************************************)
EXTENDS Integers, FiniteSets, Sequences, SequencesExt

CONSTANTS Contents,     \* the contents a file may have
          FsLimits      \* a set of [baseline, ops, changes, queue, temp]

VARIABLES disk,     \* the workspace: a function from the paths that exist
          fsw,      \* the runtime and its worker
          backend,  \* the kernel's watches and the queue of events
          told      \* the last thing published of each path, and the final diff

fsVars == <<disk, fsw, backend, told>>

Order == <<"d", "f", "g", "t", "x">>       \* the order of a BTreeMap
Paths == Range(Order)
Temp == {"t"}                              \* is_temp_path
Dir(p) == IF p = "x" THEN "d" ELSE "root"
Ev(kind, p, from) == [kind |-> kind, path |-> p, from |-> from]

\* snapshot: every entry but the temp files.
snapshot(on) == [p \in DOMAIN on \ Temp |-> on[p]]

FsInit ==
    \E l \in FsLimits :
       /\ disk = l.baseline
       /\ fsw = [stage |-> "new", baseline |-> <<>>, current |-> <<>>, watched |-> {}, list |-> {},
                 changes |-> 0, limit |-> l]
       /\ backend = [watches |-> {}, queue |-> <<>>, lost |-> FALSE]
       /\ told = [last |-> [p \in Paths |-> "nothing"], final |-> {}, counts |-> 0, snap |-> <<>>]

Limit == fsw.limit

----------------------------------------------------------------------------
(* diff.                                                                   *)

Pick(seq, S) == SelectSeq(seq, LAMBDA p : p \in S)

\* A deleted entry is matched with the first added one of its content not yet used.
RenamesOfAny(old, new, deleted, added) ==
    {Ev("Renamed", CHOOSE a \in Range(added) : new[a].c = old[p].c, p) :
        p \in {q \in Range(deleted) : old[q].c # 0 /\ \E a \in Range(added) : new[a].c = old[q].c}}
Renames(old, new, deleted, added) ==
    FoldLeft(LAMBDA found, p :
        LET free == SelectSeq(added, LAMBDA a :
                       old[p].c # 0 /\ new[a].c = old[p].c /\ \A r \in found : r.path # a)
        IN  IF free = <<>> THEN found ELSE found \union {Ev("Renamed", Head(free), p)},
        {}, deleted)

diff(old, new) ==
    LET both == DOMAIN old \intersect DOMAIN new
        deleted == Pick(Order, DOMAIN old \ DOMAIN new)
        added == Pick(Order, DOMAIN new \ DOMAIN old)
        renamed == Renames(old, new, deleted, added)
    IN  {Ev("Modified", p, "") : p \in {q \in both : old[q].c # new[q].c}}
        \union {Ev("MetadataChanged", p, "") :
                   p \in {q \in both : old[q].c = new[q].c /\ old[q].m # new[q].m}}
        \union renamed
        \union {Ev("Deleted", p, "") : p \in Range(deleted) \ {r.from : r \in renamed}}
        \union {Ev("Added", p, "") : p \in Range(added) \ {r.path : r \in renamed}}

----------------------------------------------------------------------------
(* The backend: an event of a watched directory is queued, or lost.        *)

Seen(events) == SelectSeq(events, LAMBDA e : Dir(e.path) \in backend.watches)
Overflows(events) == Seen(events) # <<>> /\ Len(backend.queue) + Len(Seen(events)) > Limit.queue
Queued(events) ==
    LET q == backend.queue
    IN  IF ~Overflows(events) THEN q \o Seen(events)
        ELSE IF q # <<>> /\ Last(q).kind = "Rescan" THEN q ELSE Append(q, Ev("Rescan", "f", ""))

Happens(new, events) ==
    /\ fsw.changes < Limit.changes
    /\ disk' = new
    /\ backend' = [queue |-> Queued(events), lost |-> backend.lost \/ Overflows(events),
                   watches |-> backend.watches \ ({"d"} \ DOMAIN new)]
    /\ fsw' = [fsw EXCEPT !.changes = @ + 1]
    /\ UNCHANGED told

With(p, e) == [q \in DOMAIN disk \union {p} |-> IF q = p THEN e ELSE disk[q]]
Without(p) == [q \in DOMAIN disk \ {p} |-> disk[q]]
Reachable(p) == p # "x" \/ "d" \in DOMAIN disk
TreeFiles == {"f", "g", "x"} \union (IF Limit.temp THEN Temp ELSE {})

Create(p, c) ==
    /\ "create" \in Limit.ops /\ p \notin DOMAIN disk /\ Reachable(p)
    /\ Happens(With(p, [c |-> c, m |-> 1]), <<Ev("Create", p, ""), Ev("Data", p, "")>>)
Mkdir ==
    /\ "mkdir" \in Limit.ops /\ "d" \notin DOMAIN disk
    /\ Happens(With("d", [c |-> 0, m |-> 1]), <<Ev("CreateFolder", "d", "")>>)
Modify(p, c) ==
    /\ "modify" \in Limit.ops /\ p \in DOMAIN disk /\ disk[p].c # c
    /\ Happens(With(p, [disk[p] EXCEPT !.c = c]), <<Ev("Data", p, "")>>)
Touch(p) ==
    /\ "touch" \in Limit.ops /\ p \in DOMAIN disk /\ disk[p].m = 1
    /\ Happens(With(p, [disk[p] EXCEPT !.m = 2]), <<Ev("Metadata", p, "")>>)
Delete(p) ==
    /\ "remove" \in Limit.ops /\ p \in DOMAIN disk /\ (p = "d" => "x" \notin DOMAIN disk)
    /\ Happens(Without(p), <<Ev("Remove", p, "")>>)
Rename(p, q) ==
    /\ "rename" \in Limit.ops /\ p # q /\ p \in DOMAIN disk /\ Reachable(q)
    /\ Happens([r \in (DOMAIN disk \ {p}) \union {q} |-> IF r = q THEN disk[p] ELSE disk[r]],
               <<Ev("From", p, ""), Ev("To", q, "")>> \o
               (IF {Dir(p), Dir(q)} \subseteq backend.watches THEN <<Ev("Both", q, p)>> ELSE <<>>))

----------------------------------------------------------------------------
(* FilesystemRuntime::start, and the worker.                               *)

\* The baseline is taken first: what changes before the watches is in the diff.
Baseline ==
    /\ fsw.stage = "new"
    /\ fsw' = [fsw EXCEPT !.stage = "baseline", !.baseline = snapshot(disk), !.current = snapshot(disk)]
    /\ UNCHANGED <<disk, backend, told>>

\* watch_pruned: every directory that is not in the set; the set forgets a
\* directory only at its Remove event.
Dirs == {"root"} \union ({"d"} \intersect DOMAIN disk)
Watched(old) == old \union Dirs
Build ==
    /\ fsw.stage = "baseline"
    /\ fsw' = [fsw EXCEPT !.stage = "live", !.watched = Watched({})]
    /\ backend' = [backend EXCEPT !.watches = Dirs]
    /\ UNCHANGED <<disk, told>>

Publish(events) ==
    told' = [told EXCEPT !.last = [p \in Paths |->
        IF \E e \in events : e.from = p /\ e.path # p /\ ~\E f \in events : f.path = p THEN "Deleted"
        ELSE IF \E e \in events : e.path = p THEN (CHOOSE e \in events : e.path = p).kind ELSE @[p]]]

\* handle_event's map from a backend event to what is published of a path.
Mapped(kind) ==
    CASE kind \in {"Create", "CreateFolder", "To"} -> "Added"
      [] kind = "Metadata" -> "MetadataChanged"
      [] kind = "Data" -> "Modified"
      [] OTHER -> "Deleted"

Next1 == Head(backend.queue)
Ready == fsw.stage \in {"live", "closed", "final"} /\ backend.queue # <<>> /\ fsw.list = {}
Dequeued == [backend EXCEPT !.queue = Tail(@)]

\* An event of one path (or a rename with a temp end, which is not taken as one).
HandleEvent ==
    LET e == Next1
        renamed == e.kind = "Both" /\ e.from \notin Temp /\ e.path \notin Temp
        adopt == /\ e.kind \in {"CreateFolder", "To"} /\ e.path = "d" /\ "d" \in DOMAIN disk
                 /\ "d" \notin fsw.watched /\ fsw.stage = "live"
    IN  /\ Ready /\ e.kind # "Rescan" /\ ~renamed
        /\ Publish(({Ev(Mapped(e.kind), e.path, "")} \union
                    (IF e.kind = "Both" THEN {Ev("Deleted", e.from, "")} ELSE {}))
                      \ {Ev(k, p, "") : k \in {"Added", "Modified", "MetadataChanged", "Deleted"}, p \in Temp})
        /\ fsw' = [fsw EXCEPT !.watched = IF adopt THEN Watched(@)
                                          ELSE IF e.kind = "Remove" THEN @ \ {e.path} ELSE @,
                              !.list = IF adopt THEN {"d"} ELSE {}]
        /\ backend' = IF adopt THEN [Dequeued EXCEPT !.watches = @ \union {"d"}] ELSE Dequeued
        /\ UNCHANGED disk
HandleRename ==
    /\ Ready /\ Next1.kind = "Both" /\ {Next1.from, Next1.path} \intersect Temp = {}
    /\ Publish({Ev("Renamed", Next1.path, Next1.from)})
    /\ backend' = Dequeued
    /\ UNCHANGED <<disk, fsw>>

\* adopt_new_dir's second half: what the directory held before it was watched.
AdoptNewDir ==
    /\ fsw.list # {}
    /\ Publish({Ev("Added", p, "") : p \in {"x"} \intersect DOMAIN disk})
    /\ fsw' = [fsw EXCEPT !.list = {}]
    /\ UNCHANGED <<disk, backend>>

\* need_rescan: the difference from the last snapshot the worker took.
Rescan ==
    LET fresh == snapshot(disk) IN
    /\ Ready /\ Next1.kind = "Rescan"
    /\ Publish(diff(fsw.current, fresh))
    /\ fsw' = [fsw EXCEPT !.current = fresh,
                          !.watched = IF fsw.stage = "live" THEN Watched(@) ELSE @]
    /\ backend' = [Dequeued EXCEPT !.watches = IF fsw.stage = "live" THEN @ \union (Dirs \ fsw.watched) ELSE @]
    /\ UNCHANGED disk

\* finalize: the watcher is dropped, then the final snapshot and its diff; the
\* worker may still have events to map.
StopWatching ==
    /\ fsw.stage \in {"new", "live"}
    /\ fsw' = [fsw EXCEPT !.stage = IF @ = "live" THEN "closed" ELSE "over"]
    /\ backend' = [backend EXCEPT !.watches = {}]
    /\ UNCHANGED <<disk, told>>
Finalize ==
    LET changes == diff(fsw.baseline, snapshot(disk)) IN
    /\ fsw.stage = "closed"
    /\ told' = [told EXCEPT !.final = changes, !.counts = Cardinality(changes), !.snap = snapshot(disk)]
    /\ fsw' = [fsw EXCEPT !.stage = "final"]
    /\ UNCHANGED <<disk, backend>>

FsNext ==
    \/ Baseline \/ Build \/ HandleEvent \/ HandleRename \/ AdoptNewDir \/ Rescan
    \/ StopWatching \/ Finalize \/ Mkdir
    \/ \E p \in TreeFiles, c \in Contents : Create(p, c) \/ Modify(p, c)
    \/ \E p \in TreeFiles \union {"d"} : Touch(p) \/ Delete(p)
    \/ \E p, q \in TreeFiles : Rename(p, q)

FsSpec == FsInit /\ [][FsNext]_fsVars

----------------------------------------------------------------------------
(* Properties.                                                             *)

\* The final diff is authoritative: whatever the live watcher missed, mapped
\* twice or reported late, it turns the baseline into the final snapshot, and
\* names every path once.
DiffIsExact ==
    LET gone == {e.path : e \in {f \in told.final : f.kind = "Deleted"}}
                \union {e.from : e \in {f \in told.final : f.kind = "Renamed"}}
        come == {e.path : e \in {f \in told.final : f.kind \in {"Added", "Renamed"}}}
    IN  fsw.stage = "final" =>
          /\ (DOMAIN fsw.baseline \ gone) \union come = DOMAIN told.snap
          /\ gone \subseteq DOMAIN fsw.baseline /\ come \intersect DOMAIN fsw.baseline = {}
          /\ \A e, f \in told.final : e.path = f.path => e = f
          /\ \A p \in DOMAIN fsw.baseline \ gone :
                fsw.baseline[p] = told.snap[p] <=> ~\E e \in told.final : e.path = p
          /\ \A e \in told.final : e.kind = "Renamed" =>
                fsw.baseline[e.from].c = told.snap[e.path].c

\* When the worker has mapped every event and lost none, the last thing
\* published of a path in a watched directory is that it is gone exactly when it
\* is.
Idle == fsw.stage = "live" /\ backend.queue = <<>> /\ fsw.list = {}
SettledIsTrue ==
    Idle /\ ~backend.lost => \A p \in {"f", "g", "d"} : told.last[p] # "nothing" =>
        (told.last[p] = "Deleted" <=> p \notin DOMAIN disk)

\* The diff and the live view are true, unless a rename had a temp end: that one the worker
\* reports as a deletion.
ViewIsTrue == DiffIsExact /\ (Limit.temp \/ SettledIsTrue)
=============================================================================
