----------------------------- MODULE CaptureQueue -----------------------------
(* The capture queue of sealant-capture: the engine stages captures of the *)
(* disk (engine.rs), the shipper uploads their packs and registers them in *)
(* order (ship.rs), over a staging directory that survives the process.    *)
(*                                                                         *)
(* A capture has a small and a bulk section, each naming one pack, and a   *)
(* class's content is one chunk; the manifest itself, git packs and dir    *)
(* packs are left out.  Positions start at 1.  Capture ids are opaque: an  *)
(* id nothing refers to any more may be given again.                       *)
EXTENDS Naturals, Sequences, FiniteSets, FiniteSetsExt

CONSTANTS Chunks,      \* contents a class may have
          Limits,      \* profiles: how often each event of Events may happen
          MaxGen       \* key generations

Kinds == {"auto", "final"}
Events == Kinds \cup {"edit", "crash", "fail", "lost", "drop", "io"}
Classes == {"small", "bulk"}

ASSUME QueueConstants ==
  /\ Limits \subseteq [Events -> Nat] /\ MaxGen \in Nat

NoKey == <<>>
Keys == Chunks \X (0..MaxGen)
FileOf(k) == k[1]

Nothing == [n |-> 0, id |-> 0, parent |-> 0, kind |-> "none", class |-> "none",
            small |-> NoKey, bulk |-> NoKey, uploads |-> {}]
NoJournal == [write |-> <<>>, superseded |-> {}]
NoRepair == [n |-> 0, id |-> 0, class |-> "none", missing |-> {}]

VARIABLES
  disk,       \* the work: the content of each class
  (* Staging, which survives the process. *)
  queue,      \* queue/: entries, at most one per position
  files,      \* objects/: packs on disk, named by content
  acked,      \* uploaded/: keys acked as uploaded
  gen,        \* key-generations.json
  journal,    \* restage.json
  repair,     \* repair.json
  saved,      \* index/: last.json and chunks.json
  (* The engine. *)
  eng, chunks, previous, below,
  (* The shipper. *)
  ship,
  (* The registrar and the object store. *)
  head, store,
  (* History, and what may still happen. *)
  overtaken,  \* a snap took the place of a capture the registrar holds
  refused,    \* keys a refusal named
  unsent,     \* keys removed by retention, or of a pack whose staging failed
  stranded,   \* keys of packs just built that an ack's sweep removed
  left

staging == <<queue, files, acked, gen, journal, repair, saved>>
engine == <<eng, chunks, previous, below>>
remote == <<head, store>>
history == <<overtaken, refused, unsent, stranded>>
vars == <<disk, staging, engine, ship, remote, history, left>>

Idle == [pc |-> "idle", kind |-> "none", class |-> "none", key |-> NoKey, fresh |-> {},
         seen |-> {}, target |-> {}, forget |-> {}, todo |-> {}, step |-> 0,
         failed |-> FALSE]
Ashore == [pc |-> "idle", entry |-> Nothing, moved |-> FALSE]

Init ==
  /\ disk \in [Classes -> Chunks]
  /\ queue = {} /\ files = {} /\ acked = {} /\ gen = 0
  /\ journal = NoJournal /\ repair = NoRepair
  /\ saved = [last |-> 0, chunks |-> [x \in Chunks |-> NoKey]]
  /\ eng = Idle /\ chunks = [x \in Chunks |-> NoKey]
  /\ previous = Nothing /\ below = Nothing
  /\ ship = Ashore /\ head = Nothing /\ store = {}
  /\ overtaken = FALSE /\ refused = {} /\ unsent = {} /\ stranded = {}
  /\ left \in Limits

Spend(event) == left[event] > 0 /\ left' = [left EXCEPT ![event] = @ - 1]

(* An agent's writes change the content of a class.                        *)
Edit(c, x) ==
  /\ disk[c] # x /\ Spend("edit")
  /\ disk' = [disk EXCEPT ![c] = x]
  /\ UNCHANGED <<staging, engine, ship, remote, history>>

-----------------------------------------------------------------------------
Newest(q) == IF q = {} THEN Nothing ELSE CHOOSE e \in q : \A f \in q : f.n <= e.n
Oldest(q) == CHOOSE e \in q : \A f \in q : e.n <= f.n
Below(q, n) == {e \in q : e.n < n}
Listed(q) == UNION {e.uploads : e \in q}
Written(j) == {j.write[i] : i \in 1..Len(j.write)}
Named(e) == {e.small, e.bulk} \ {NoKey}

(* Staging::write of a queue file: over whatever held its position.        *)
PutBeside(q, e) == q \cup {e}
Put(q, e) == {f \in q : f.n # e.n} \cup {e}

(* Staging::discard_unreferenced: the packs of `keys' no entry of q lists. *)
UnreferencedAll(q, keys) == {FileOf(k) : k \in keys}
Unreferenced(q, keys) == {FileOf(k) : k \in keys} \ {FileOf(k) : k \in Listed(q)}
Swept(q, gone) == files \ Unreferenced(q, gone)

(* Staging::in_flight, between claim and release.                          *)
Claimed == {"upload", "answered", "acked"}
InFlight == IF ship.pc \in Claimed THEN ship.entry.n ELSE 0

(* Every change of the queue bumps the generation a bulk upload watches.   *)
Bumped == [ship EXCEPT !.moved = TRUE]

(* Ids are content digests: two that no state refers to are free.          *)
InUse ==
  {e.id : e \in queue \cup Written(journal) \cup journal.superseded \cup eng.seen
                \cup eng.target \cup {previous, below, head, ship.entry}}
  \cup {saved.last, repair.id}
FreeIds == (1..(Cardinality(InUse) + 2)) \ InUse
NewId == Min(FreeIds)
NextId == Min(FreeIds \ {NewId})

-----------------------------------------------------------------------------
(* CaptureEngine::build_class: a chunk the chunk map knows, whichever      *)
(* class put it there, stays where it is; another goes into a new pack,    *)
(* keyed by the current generation.                                        *)
Build(kind, c) ==
  LET x == disk[c]
      known == chunks[x] # NoKey
      key == IF known THEN chunks[x] ELSE <<x, gen>>
  IN  /\ eng' = [eng EXCEPT !.pc = "built", !.kind = kind, !.class = c, !.key = key,
                            !.fresh = IF known THEN {} ELSE {key}]
      /\ chunks' = [chunks EXCEPT ![x] = key]
      /\ files' = IF known THEN files ELSE files \cup {x}
      /\ UNCHANGED <<disk, queue, acked, gen, journal, repair, saved, previous, below, ship,
                     remote, history>>

(* snap_staging up to the coalesce guard.  A refused capture is rebuilt    *)
(* first, or the rebuild fails and the snap goes on; a bulk snap needs a   *)
(* capture before it.                                                      *)
Snap(kind, c) ==
  /\ eng.pc = "idle" /\ (repair = NoRepair \/ eng.failed)
  /\ c = "bulk" => previous # Nothing
  /\ Spend(kind) /\ Build(kind, c)

(* A small snap, a manifest or a queue file that cannot be written ends    *)
(* the snap; the chunk map keeps the pack's location.                      *)
SnapFails ==
  /\ eng.pc = "built" /\ Spend("io")
  /\ eng' = [Idle EXCEPT !.failed = eng.target # {}]
  /\ unsent' = unsent \cup eng.fresh
  /\ UNCHANGED <<disk, staging, chunks, previous, below, ship, remote, overtaken, refused,
                 stranded>>

(* Under the coalesce guard: Staging::pending is read here, in_flight by   *)
(* Stage.                                                                  *)
LookPersists ==
  /\ eng.pc = "built"
  /\ eng' = [eng EXCEPT !.pc = "seen", !.seen = queue]
  /\ saved' = [last |-> previous.id, chunks |-> chunks]
  /\ UNCHANGED <<disk, queue, files, acked, gen, journal, repair, chunks, previous, below, ship,
                 remote, history, left>>

Look ==
  /\ eng.pc = "built"
  /\ eng' = [eng EXCEPT !.pc = "seen", !.seen = queue]
  /\ UNCHANGED <<disk, staging, chunks, previous, below, ship, remote, history, left>>

Guarded == eng.pc \in {"seen", "apply"}

(* hoistable and hoist_target: the bulk capture this small snap is staged  *)
(* ahead of.                                                               *)
Hoist ==
  LET top == Newest(eng.seen)
  IN  IF /\ eng.class = "small" /\ eng.target = {} /\ below # Nothing
         /\ top.class = "bulk" /\ top.n # InFlight
         /\ previous.id = top.id /\ top.parent = below.id
      THEN top ELSE Nothing

(* coalescible and coalescible_below: the pending auto capture of the same *)
(* class this snap replaces.                                               *)
Coalesce ==
  LET old == IF Hoist = Nothing THEN Newest(eng.seen) ELSE Newest(Below(eng.seen, Hoist.n))
  IN  IF /\ eng.kind = "auto" /\ eng.target = {}
         /\ old.kind = "auto" /\ old.n # InFlight /\ old.class = eng.class
      THEN old ELSE Nothing

Follows == IF Hoist = Nothing THEN previous ELSE below

SmallSection == IF eng.class = "small" THEN eng.key ELSE previous.small
BulkSection == IF eng.class = "bulk" THEN eng.key ELSE Follows.bulk

Unchanged ==
  /\ eng.target = {}
  /\ \/ eng.kind = "auto"
     \/ eng.kind = "final" /\ (eng.class = "bulk" \/ Follows.kind = "final")
  /\ Follows # Nothing
  /\ Follows.small = SmallSection /\ Follows.bulk = BulkSection

(* The place of the new capture on the chain: the refused capture's, the   *)
(* coalesced one's, the bulk capture's, or the next.                       *)
Place ==
  IF eng.target # {} THEN Oldest(eng.target)
  ELSE IF Coalesce # Nothing THEN Coalesce
  ELSE IF Hoist # Nothing THEN Hoist
  ELSE [n |-> previous.n + 1, parent |-> previous.id]

(* What the captures it replaces staged rides along, but for what a        *)
(* refusal named.                                                          *)
Entry ==
  [n |-> Place.n, id |-> NewId, parent |-> Place.parent, kind |-> eng.kind,
   class |-> eng.class, small |-> SmallSection, bulk |-> BulkSection,
   uploads |-> eng.fresh \cup Coalesce.uploads \cup (Listed(eng.target) \ eng.forget)]

(* restage_bulk: the bulk capture again, on top of the small one.          *)
RestagedAsWas(bulk, small) ==
  [bulk EXCEPT !.n = small.n + 1, !.id = NextId, !.small = small.small]

Restaged(bulk, small) ==
  [bulk EXCEPT !.n = small.n + 1, !.id = NextId, !.parent = small.id, !.small = small.small]

(* Nothing changed: the pack just built goes, unless an entry lists it,    *)
(* and so does its place in the chunk map.                                 *)
StageNothing ==
  /\ eng.pc = "seen" /\ Unchanged
  /\ LET gone == Unreferenced(queue, eng.fresh)
     IN  /\ files' = files \ gone
         /\ chunks' = [x \in Chunks |-> IF x \in gone /\ chunks[x] \in eng.fresh
                                        THEN NoKey ELSE chunks[x]]
  /\ eng' = Idle
  /\ UNCHANGED <<disk, queue, acked, gen, journal, repair, saved, previous, below, ship,
                 remote, history, left>>

BelowAfter ==
  IF eng.class # "bulk" THEN below
  ELSE IF Coalesce = Nothing THEN previous
  ELSE IF below.id = Coalesce.parent THEN below ELSE Nothing

(* Staging::enqueue, or replace and its sweep.                             *)
Stage ==
  /\ eng.pc = "seen" /\ ~Unchanged /\ eng.target = {} /\ Hoist = Nothing
  /\ queue' = Put(queue, Entry)
  /\ files' = Swept(queue', Coalesce.uploads)
  /\ previous' = Entry /\ below' = BelowAfter
  /\ eng' = [eng EXCEPT !.pc = "staged"]
  /\ ship' = Bumped
  /\ overtaken' = (overtaken \/ Entry.n <= head.n)
  /\ UNCHANGED <<disk, acked, gen, journal, repair, saved, chunks, remote, refused, unsent,
                 stranded, left>>

(* Staging::restage, to the commit of its journal: a small capture staged  *)
(* ahead of the bulk one, or a refused capture rebuilt in its place.       *)
Commit(write, superseded, newest, under) ==
  /\ journal' = [write |-> write, superseded |-> superseded]
  /\ previous' = newest /\ below' = under
  /\ eng' = [eng EXCEPT !.pc = "apply", !.step = 1]
  /\ overtaken' = (overtaken \/ write[1].n <= head.n \/ Entry.n <= head.n)
  /\ UNCHANGED <<disk, queue, files, acked, gen, repair, saved, chunks, ship, remote,
                 refused, unsent, stranded, left>>

StageAhead ==
  /\ eng.pc = "seen" /\ ~Unchanged /\ Hoist # Nothing
  /\ LET moved == Restaged(Hoist, Entry)
     IN  Commit(<<moved, Entry>>, {Hoist, Coalesce} \ {Nothing}, moved, Entry)

StageRepair ==
  /\ eng.pc = "seen" /\ eng.target # {}
  /\ Commit(<<Entry>>, eng.target, Entry, Nothing)

(* apply_restage, by the engine or by recover when the staging is opened:  *)
(* each entry is written, then the superseded ones go, then the journal.   *)
Applying == eng.pc \in {"apply", "recover"}

ApplyWrite ==
  /\ Applying /\ eng.step <= Len(journal.write)
  /\ queue' = Put(queue, journal.write[eng.step])
  /\ eng' = [eng EXCEPT !.step = @ + 1]
  /\ UNCHANGED <<disk, files, acked, gen, journal, repair, saved, chunks, previous, below,
                 ship, remote, history, left>>

ApplySweep ==
  /\ Applying /\ eng.step = Len(journal.write) + 1
  /\ LET written == {e.n : e \in Written(journal)}
         gone == {e.n : e \in journal.superseded} \ written
     IN  queue' = {e \in queue : e.n \notin gone}
  /\ files' = Swept(queue', Listed(journal.superseded))
  /\ ship' = Bumped
  /\ eng' = [eng EXCEPT !.step = @ + 1]
  /\ UNCHANGED <<disk, acked, gen, journal, repair, saved, chunks, previous, below, remote,
                 history, left>>

ApplyDone ==
  /\ Applying /\ eng.step = Len(journal.write) + 2
  /\ journal' = NoJournal
  /\ eng' = IF eng.pc = "apply" THEN [eng EXCEPT !.pc = "staged", !.step = 0]
            ELSE [Idle EXCEPT !.pc = "open"]
  /\ UNCHANGED <<disk, queue, files, acked, gen, repair, saved, chunks, previous, below,
                 ship, remote, history, left>>

(* CaptureEngine::persist.                                                 *)
Persisted == [last |-> previous.id, chunks |-> chunks]

(* The end of a snap; the repair goes on to its next class, with the       *)
(* capture just staged as the one to replace, or is done.                  *)
Persist ==
  /\ eng.pc = "staged"
  /\ saved' = Persisted
  /\ LET todo == eng.todo \ {eng.class}
         rebuilt == {e \in queue : e.id = previous.id}
     IN  IF eng.target = {} \/ rebuilt = {}
         THEN eng' = [Idle EXCEPT !.failed = eng.target # {}] /\ UNCHANGED <<repair, ship>>
         ELSE IF todo # {}
         THEN /\ eng' = [eng EXCEPT !.pc = "rebuild", !.target = rebuilt, !.todo = todo,
                                    !.seen = {}]
              /\ UNCHANGED <<repair, ship>>
         ELSE eng' = Idle /\ repair' = NoRepair /\ ship' = Bumped
  /\ UNCHANGED <<disk, queue, files, acked, gen, journal, chunks, previous, below, remote,
                 history, left>>

-----------------------------------------------------------------------------
(* CaptureEngine::repair.                                                  *)
Asked(e) == e.n = repair.n /\ e.id = repair.id
Stale == repair # NoRepair /\ \A e \in queue : ~Asked(e)

(* The classes to rebuild: those whose section named a missing key, or the *)
(* refused capture's own.                                                  *)
Rebuilds(e) ==
  LET named == (IF e.small \in repair.missing THEN {"small"} ELSE {})
               \cup (IF e.bulk \in repair.missing THEN {"bulk"} ELSE {})
  IN  IF named # {} THEN named ELSE {repair.class}

RepairStale ==
  /\ eng.pc = "idle" /\ Stale
  /\ repair' = NoRepair /\ ship' = Bumped
  /\ UNCHANGED <<disk, queue, files, acked, gen, journal, saved, engine, remote, history,
                 left>>

(* Staging::next_key_generation.                                           *)
SameKeyGeneration == gen
NextKeyGeneration == gen + 1

(* The missing packs are forgotten and the key generation moves on before  *)
(* anything is staged under it.                                            *)
RepairStart ==
  /\ eng.pc = "idle" /\ gen < MaxGen
  /\ \E e \in queue :
       /\ Asked(e)
       /\ LET target == {f \in queue : f.n >= e.n}
          IN  eng' = [Idle EXCEPT !.pc = "rebuild", !.target = target,
                        !.forget = repair.missing, !.todo = Rebuilds(e),
                        !.kind = IF \E f \in target : f.kind = "final"
                                 THEN "final" ELSE e.kind]
  /\ chunks' = [x \in Chunks |-> IF chunks[x] \in repair.missing THEN NoKey ELSE chunks[x]]
  /\ acked' = acked \ repair.missing
  /\ gen' = NextKeyGeneration
  /\ saved' = [Persisted EXCEPT !.chunks = chunks']
  /\ UNCHANGED <<disk, queue, files, journal, repair, previous, below, ship, remote, history,
                 left>>

Rebuild(c) ==
  /\ eng.pc = "rebuild" /\ c \in eng.todo
  /\ c = "bulk" => "small" \notin eng.todo
  /\ Build(eng.kind, c) /\ UNCHANGED left

-----------------------------------------------------------------------------
(* The shipper, one pass at a time (pass_once).  A pass starts when no     *)
(* restage is half-way, drops a request for a capture no longer queued and *)
(* reads the oldest entry.                                                 *)
InPass == ship.pc = "next" \/ (ship.pc = "idle" /\ journal = NoJournal)
RequestSeen == IF Stale THEN NoRepair ELSE repair
Blocked == \A e \in queue : e = Oldest(queue) => Asked(e)

ShipRead ==
  /\ InPass /\ ~Blocked
  /\ repair' = RequestSeen
  /\ LET e == Oldest(queue)
         bulk == e.class = "bulk" /\ ~(e.uploads \subseteq acked)
     IN  ship' = [pc |-> IF bulk THEN "bulk" ELSE "claim", entry |-> e, moved |-> FALSE]
  /\ UNCHANGED <<disk, queue, files, acked, gen, journal, saved, engine, remote, history,
                 left>>

(* The queue is empty, or its oldest capture waits to be rebuilt.          *)
PassEnds ==
  /\ InPass /\ Blocked
  /\ repair' = RequestSeen /\ ship' = Ashore
  /\ UNCHANGED <<disk, queue, files, acked, gen, journal, saved, engine, remote, history,
                 left>>

(* put_object: a pack is put, or found in the store when its file is gone; *)
(* put_if_absent leaves a key that is there as it is.                      *)
PutObject(k) ==
  /\ ship.pc \in {"bulk", "upload"} /\ k \in ship.entry.uploads \ acked
  /\ FileOf(k) \in files \/ k \in store
  /\ store' = store \cup {k} /\ acked' = acked \cup {k}
  /\ UNCHANGED <<disk, queue, files, gen, journal, repair, saved, engine, ship, head,
                 history, left>>

(* Neither: the pass fails, but for a bulk upload under which the queue    *)
(* changed.                                                                *)
PutMissing(k) ==
  /\ ship.pc \in {"bulk", "upload"} /\ k \in ship.entry.uploads \ acked
  /\ FileOf(k) \notin files /\ k \notin store
  /\ ship' = IF ship.pc = "bulk" /\ ship.moved THEN [Ashore EXCEPT !.pc = "next"] ELSE Ashore
  /\ UNCHANGED <<disk, staging, engine, remote, history, left>>

(* A bulk upload stops when it is done or the queue changed.               *)
BulkStops ==
  /\ ship.pc = "bulk" /\ (ship.moved \/ ship.entry.uploads \subseteq acked)
  /\ ship' = [Ashore EXCEPT !.pc = "next"]
  /\ UNCHANGED <<disk, staging, engine, remote, history, left>>

(* Staging::claim, under the coalesce guard: only an entry still queued    *)
(* unchanged.                                                              *)
Claim ==
  /\ ship.pc = "claim" /\ ~Guarded
  /\ ship' = IF \E e \in queue : e.n = ship.entry.n /\ e.id = ship.entry.id
             THEN [ship EXCEPT !.pc = "upload"] ELSE Ashore
  /\ UNCHANGED <<disk, staging, engine, remote, history, left>>

(* A transport failure, a byte-quota refusal or a lost lease: the entry is *)
(* released and asked for again later.                                     *)
PassFails ==
  /\ ship.pc \in {"bulk", "upload"} /\ Spend("fail")
  /\ ship' = Ashore
  /\ UNCHANGED <<disk, staging, engine, remote, history>>

Ready == ship.pc = "upload" /\ ship.entry.uploads \subseteq acked
Fits(e) == e.parent = head.id /\ e.n = head.n + 1

(* capture.register: the registrar takes the capture that follows its      *)
(* head, or the head itself again, when it holds every pack it names.      *)
Register ==
  /\ Ready /\ (ship.entry.id = head.id \/ (Fits(ship.entry) /\ Named(ship.entry) \subseteq store))
  /\ head' = ship.entry
  /\ ship' = [ship EXCEPT !.pc = "answered"]
  /\ UNCHANGED <<disk, staging, engine, store, history, left>>

(* The same, and every answer of register_one's retries is lost.           *)
RegisterUnheard ==
  /\ Ready /\ Fits(ship.entry) /\ Named(ship.entry) \subseteq store /\ Spend("lost")
  /\ head' = ship.entry /\ ship' = Ashore
  /\ UNCHANGED <<disk, staging, engine, store, history>>

(* WrongParent: nothing changes, and the next pass asks the same.          *)
RegisterConflicts ==
  /\ Ready /\ ship.entry.id # head.id /\ ~Fits(ship.entry)
  /\ ship' = Ashore
  /\ UNCHANGED <<disk, staging, engine, remote, history, left>>

(* 422 missing-objects, and after_refusal.                                 *)
RegisterRefused ==
  LET missing == Named(ship.entry) \ store
  IN  /\ Ready /\ Fits(ship.entry) /\ missing # {}
      /\ repair' = [n |-> ship.entry.n, id |-> ship.entry.id, class |-> ship.entry.class,
                    missing |-> missing]
      /\ refused' = refused \cup missing
      /\ ship' = Ashore
      /\ UNCHANGED <<disk, queue, files, acked, gen, journal, saved, engine, remote,
                     overtaken, unsent, stranded, left>>

(* Staging::ack, then release.  Its sweep reads the queue, which does not  *)
(* list yet what a snap has just built.                                    *)
Ack ==
  /\ ship.pc = "answered"
  /\ queue' = {e \in queue : e.n # ship.entry.n}
  /\ files' = Swept(queue', ship.entry.uploads)
  /\ ship' = [ship EXCEPT !.pc = "acked"]
  /\ stranded' = stranded \cup {k \in eng.fresh : FileOf(k) \in files \ files'}
  /\ UNCHANGED <<disk, acked, gen, journal, repair, saved, engine, remote, overtaken, refused,
                 unsent, left>>

Release ==
  /\ ship.pc = "acked"
  /\ ship' = [Ashore EXCEPT !.pc = "next"]
  /\ UNCHANGED <<disk, staging, engine, remote, history, left>>

(* Retention removes a pack the registered head does not name.             *)
Retire(k) ==
  /\ k \in store \ Named(head) /\ Spend("drop")
  /\ store' = store \ {k} /\ unsent' = unsent \cup {k}
  /\ UNCHANGED <<disk, staging, engine, ship, head, overtaken, refused, stranded>>

-----------------------------------------------------------------------------
(* Staging::recover: a restage cut off is finished before anything else.   *)
Forgotten == FALSE
Interrupted == journal # NoJournal

(* The daemon dies, and starts again on its disk.                          *)
Crash ==
  /\ eng.pc \notin {"recover", "open"} /\ Spend("crash")
  /\ eng' = [Idle EXCEPT !.pc = IF Interrupted THEN "recover" ELSE "open", !.step = 1]
  /\ ship' = [Ashore EXCEPT !.pc = "down"]
  /\ UNCHANGED <<disk, staging, chunks, previous, below, remote, history>>

(* pickup: whether the disk continues the head the plan names.             *)
Continues ==
  /\ saved.last # 0
  /\ saved.last = head.id \/ \E e \in queue : e.parent = head.id \/ e.id = head.id

(* resume_queue: the newest queued capture is the one to continue from.    *)
Descends == \E e \in queue : e.parent = head.id \/ e.id = head.id
Resumed == IF Descends THEN Newest(queue) ELSE head
ResumedBelow ==
  IF Resumed.class # "bulk" \/ ~Descends THEN Nothing
  ELSE IF \E e \in queue : e.id = Resumed.parent
  THEN CHOOSE e \in queue : e.id = Resumed.parent
  ELSE IF head.id = Resumed.parent THEN head ELSE Nothing

(* Boot: the head is materialized over a disk that does not continue it,   *)
(* then CaptureEngine::open.                                               *)
Open ==
  /\ eng.pc = "open"
  /\ disk' = IF Continues \/ head = Nothing THEN disk
             ELSE [c \in Classes |-> IF head[c] = NoKey THEN disk[c] ELSE FileOf(head[c])]
  /\ chunks' = [x \in Chunks |->
                  IF saved.chunks[x] = NoKey /\ ~Continues /\ \E k \in Named(head) : FileOf(k) = x
                  THEN CHOOSE k \in Named(head) : FileOf(k) = x
                  ELSE saved.chunks[x]]
  /\ previous' = Resumed /\ below' = ResumedBelow
  /\ eng' = Idle /\ ship' = Ashore
  /\ UNCHANGED <<staging, remote, history, left>>

-----------------------------------------------------------------------------
EngineStep ==
  \/ Look \/ StageNothing \/ Stage \/ StageAhead \/ StageRepair
  \/ ApplyWrite \/ ApplySweep \/ ApplyDone \/ Persist
  \/ RepairStale \/ RepairStart \/ Open \/ \E c \in Classes : Rebuild(c)

ShipStep ==
  \/ ShipRead \/ PassEnds \/ BulkStops \/ Claim
  \/ Register \/ RegisterConflicts \/ RegisterRefused \/ Ack \/ Release
  \/ \E k \in Keys : PutObject(k) \/ PutMissing(k)

Next ==
  \/ \E c \in Classes : \/ \E x \in Chunks : Edit(c, x)
                        \/ \E kind \in Kinds : Snap(kind, c)
  \/ EngineStep \/ ShipStep
  \/ SnapFails \/ PassFails \/ RegisterUnheard \/ Crash
  \/ \E k \in Keys : Retire(k)

Spec == Init /\ [][Next]_vars

(* The engine's thread and the ship worker run.                            *)
FairSpec == Spec /\ WF_vars(EngineStep) /\ WF_vars(ShipStep)

-----------------------------------------------------------------------------
Captures ==
  [n : Nat, id : Nat, parent : Nat, kind : Kinds \cup {"none"},
   class : Classes \cup {"none"}, small : Keys \cup {NoKey}, bulk : Keys \cup {NoKey},
   uploads : SUBSET Keys]

TypeOK ==
  /\ disk \in [Classes -> Chunks]
  /\ queue \subseteq Captures /\ \A e, f \in queue : e.n = f.n => e = f
  /\ files \subseteq Chunks /\ acked \subseteq Keys /\ gen \in 0..MaxGen
  /\ Written(journal) \cup journal.superseded \cup {previous, below, head, ship.entry}
       \subseteq Captures
  /\ chunks \in [Chunks -> Keys \cup {NoKey}] /\ store \subseteq Keys
  /\ repair.missing \subseteq Keys

(* The queue is one chain on the registered head, so that every capture    *)
(* registers when its turn comes, and the engine's next snap continues it: *)
(* whatever was coalesced, staged ahead or rebuilt, and wherever a restage *)
(* was cut off (Staging::restage, hoist_target, resume_queue).             *)
QueueChained ==
  overtaken \/ journal # NoJournal \/
  /\ \A e \in queue :
       \/ e.id = head.id
       \/ Fits(e)
       \/ \E p \in queue : p.id = e.parent /\ p.n + 1 = e.n
  /\ eng.pc = "idle" => previous.id = IF queue = {} THEN head.id ELSE Newest(queue).id

(* Every pack a queued capture still has to upload is on disk, or in the   *)
(* store: a sweep never takes it from under an entry, which would stall    *)
(* shipping for good (discard_unreferenced, ship.rs; snap_staging).        *)
QueuedUploadable ==
  \A e \in queue : \A k \in e.uploads \ (acked \cup refused \cup stranded) :
    FileOf(k) \in files \/ k \in store

(* "A pack that is not staged must not be the location of any chunk"       *)
(* (snap_staging): the chunk map names only packs in the store, listed by  *)
(* a queued capture or about to be, but for those retention removed and    *)
(* those whose staging failed.                                             *)
LocationsStaged ==
  overtaken \/
  \A x \in Chunks :
    chunks[x] # NoKey =>
      \/ eng.pc \in {"open", "recover"}
      \/ chunks[x] \in store \cup unsent \cup eng.fresh \cup Listed(queue \cup Written(journal))

(* A key a refusal named is never put again (after_refusal, repair,        *)
(* next_key_generation: cross-repo decision 6).                            *)
RefusedNeverPut == [][(store' \ store) \cap refused = {}]_vars

(* No snap takes the place of a capture the registrar holds: "a snap must  *)
(* never coalesce with, or be staged ahead of, a capture the registrar     *)
(* already holds" (pass_once).                                             *)
NeverOvertaken == ~overtaken

(* What is staged registers, refused captures and those behind them        *)
(* included, once edits and failures stop, unless a snap took the place of *)
(* a registered capture (pass_once, repair).                               *)
EverythingRegisters == <>[](queue = {} \/ overtaken \/ stranded # {})
===============================================================================
