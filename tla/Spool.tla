--------------------------------- MODULE Spool ---------------------------------
(***************************************************************************)
(* The durable event spool (crates/sealant-eventlog/src/spool.rs): an      *)
(* append-only log cut into segment files, healed on open, with eviction   *)
(* at a disk limit, ack-based deletion, and an in-place rewrite of old     *)
(* records.                                                                *)
(*                                                                         *)
(* In memory a Spool is its Vec of segments and their accounting, the      *)
(* append handle and dir_sync_pending.  On disk a segment is a sequence of *)
(* frames; a frame that was cut short, or whose checksum does not match,   *)
(* is not `whole'.  `gen' tells the inode a name refers to before and      *)
(* after a rename, `synced' how many frames an fsync has made durable, and *)
(* `old' what the name still refers to on the medium while a rename has    *)
(* not been made durable by a directory sync.                              *)
(*                                                                         *)
(* Abstractions: a payload is its length and whether it carries argument   *)
(* text; the staged copy of a rewrite, which open never reads as a         *)
(* segment, is left out; deleting a file is durable at once.               *)
(***************************************************************************)
EXTENDS SpoolOps, FiniteSetsExt, SequencesExt

CONSTANTS
  MaxPayload,    \* SpoolConfig.max_payload_bytes
  Overhead,      \* record::HEADER_LEN + CRC_LEN
  FsyncAlways,   \* SpoolConfig.fsync = FsyncPolicy::Always
  Lens,          \* payload lengths a caller passes
  SeqNos,        \* event sequences a caller passes (they restart with the daemon)
  Withheld,      \* payload length of an event whose argument text was withheld
  Faults,        \* which system calls may fail: "remove", "open", "write", "read", "rename", "dirsync", "power"
  MaxAppends,    \* bound: records ever appended
  MaxCrashes     \* bound: crashes

ASSUME SpoolConstants ==
  /\ MaxPayload \in Nat /\ Overhead \in Nat \ {0} /\ FsyncAlways \in BOOLEAN
  /\ Lens \subseteq Nat /\ SeqNos \subseteq Nat /\ Withheld \in Nat
  /\ MaxAppends \in Nat /\ MaxCrashes \in Nat

VARIABLES
  up,              \* a Spool value is open
  segments,        \* Spool.segments
  nextIndex,       \* Spool.next_index
  totalBytes,      \* Spool.total_bytes
  active,          \* Spool.active: the file the append handle refers to
  dirSyncPending,  \* Spool.dir_sync_pending
  rewritten,       \* the delivery task has asked for the rewrite since open
  disk,            \* segment files by index
  appends,         \* number of records ever passed to append: their ids
  crashes,         \* number of crashes
  \* What callers were told, for the properties:
  accepted,        \* ids for which append returned Ok
  gone,            \* ids in segments that were evicted or acked
  flushedActive    \* ids readable in the active segment when a flush returned Ok

memory == <<up, segments, nextIndex, totalBytes, active, dirSyncPending, rewritten>>
promises == <<accepted, gone, flushedActive>>
vars == <<memory, disk, appends, crashes, promises>>

Ids == 1..MaxAppends
Frame == [id : Ids, seq : SeqNos, len : Lens \cup {Withheld},
          args : BOOLEAN, whole : BOOLEAN]
NoFile == [index |-> -1, gen |-> 0]

EncodedLen(len) == Overhead + len
FrameBytes(frames) ==
  SumFunction([i \in DOMAIN frames |-> EncodedLen(frames[i].len)])

(* What a reader of a segment gets: read_record stops for good at the      *)
(* first frame that is not whole.                                          *)
Readable(frames) ==
  LET n == CHOOSE k \in 0..Len(frames) :
             /\ \A j \in 1..k : frames[j].whole
             /\ k < Len(frames) => ~frames[k + 1].whole
  IN  SubSeq(frames, 1, n)

IdsOf(frames) == {frames[i].id : i \in DOMAIN frames}
ReadableIds == UNION {IdsOf(Readable(disk[i].frames)) : i \in DOMAIN disk}
SortedIndices == SetToSortSeq(DOMAIN disk, <)

NewFile == [gen |-> 0, frames |-> << >>, synced |-> 0, old |-> << >>]

Init ==
  /\ up = FALSE /\ segments = << >> /\ nextIndex = 0 /\ totalBytes = 0
  /\ active = NoFile /\ dirSyncPending = FALSE /\ rewritten = FALSE
  /\ disk = << >> /\ appends = 0 /\ crashes = 0
  /\ accepted = {} /\ gone = {} /\ flushedActive = {}

-----------------------------------------------------------------------------
(* open: the segments in index order, each healed by cutting it after its  *)
(* last whole record; the last one becomes the active segment.             *)
SegmentOf(i, frames) ==
  [index |-> i, maxSequence |-> Max({0} \cup {frames[j].seq : j \in DOMAIN frames}),
   records |-> Len(frames), bytes |-> FrameBytes(frames)]

Healed(i) == Readable(disk[i].frames)

(* Mutation: the healed segments' bytes are not added up.                  *)
HealedBytesForgotten == 0

HealedBytes == MapThenSumSet(LAMBDA i : FrameBytes(Healed(i)), DOMAIN disk)

(* Mutation: the number of segments, not the last index, gives the next.   *)
IndexAfterCount(order) == Len(order)

IndexAfter(order) == IF order = << >> THEN 0 ELSE Last(order) + 1

Open ==
  LET order == SortedIndices
  IN  /\ ~up
      /\ up' = TRUE
      /\ disk' = [i \in DOMAIN disk |->
                    [disk[i] EXCEPT !.frames = Healed(i),
                                    !.synced = Min({@, Len(Healed(i))})]]
      /\ segments' = [n \in 1..Len(order) |-> SegmentOf(order[n], Healed(order[n]))]
      /\ totalBytes' = HealedBytes
      /\ nextIndex' = IndexAfter(order)
      /\ active' = IF order = << >> THEN NoFile
                   ELSE [index |-> Last(order), gen |-> disk[Last(order)].gen]
      /\ dirSyncPending' = FALSE /\ rewritten' = FALSE
      /\ UNCHANGED <<appends, crashes, promises>>

-----------------------------------------------------------------------------
(* Mutation: a segment leaves the Vec, its file stays.                     *)
RemovedFromVec(files, k) == files

Removed(files, k) == [i \in DOMAIN files \ {segments[j].index : j \in 1..k} |-> files[i]]
IdsInFirst(k) == UNION {IdsOf(disk[segments[j].index].frames) : j \in 1..k}

(* The state an append works in after evict_for removed k segments and     *)
(* ensure_active_with_room made a new one if it had to.                    *)
Room(size, k) ==
  LET left == DropFirst(segments, k)
      rotate == NeedsNewSegment(left, size)
      kept == Removed(disk, k)
  IN  [rotate |-> rotate,
       segments |-> IF rotate
                    THEN Append(left, [index |-> nextIndex, maxSequence |-> 0,
                                       records |-> 0, bytes |-> 0])
                    ELSE left,
       nextIndex |-> IF rotate THEN nextIndex + 1 ELSE nextIndex,
       active |-> IF rotate THEN [index |-> nextIndex, gen |-> 0] ELSE active,
       totalBytes |-> totalBytes - BytesOfFirst(segments, k),
       disk |-> IF rotate /\ nextIndex \notin DOMAIN kept
                THEN [i \in DOMAIN kept \cup {nextIndex} |->
                        IF i = nextIndex THEN NewFile ELSE kept[i]]
                ELSE kept]

(* A write through the append handle; it is lost to readers when the name  *)
(* no longer refers to the handle's file.                                  *)
Written(files, handle, frame, sync) ==
  LET i == handle.index
  IN  IF i \in DOMAIN files /\ files[i].gen = handle.gen
      THEN [files EXCEPT ![i].frames = Append(@, frame),
                         ![i].synced = IF sync THEN Len(files[i].frames) + 1 ELSE @]
      ELSE files

(* Records the caller may pass: an older daemon's events still carried     *)
(* argument text.  A payload or record over its limit is refused before    *)
(* anything changes.                                                       *)
Appendable ==
  [id : {appends + 1}, seq : SeqNos,
   len : {n \in Lens : n <= MaxPayload /\ EncodedLen(n) <= DiskLimit},
   args : IF crashes = 0 THEN BOOLEAN ELSE {FALSE}, whole : {TRUE}]

(* Mutation: the highest sequence is the last one appended.                *)
CountedLast(room, frame) ==
  LET n == Len(room.segments)
  IN  [room.segments EXCEPT ![n].bytes = @ + EncodedLen(frame.len),
                            ![n].records = @ + 1, ![n].maxSequence = frame.seq]

Counted(room, frame) ==
  LET n == Len(room.segments)
  IN  [room.segments EXCEPT ![n].bytes = @ + EncodedLen(frame.len),
                            ![n].records = @ + 1,
                            ![n].maxSequence = Max({@, frame.seq})]

AppendRecord(frame) ==
  \E k \in 0..Len(segments) :
    LET size == EncodedLen(frame.len)
        room == Room(size, k)
    IN  /\ up /\ Evicts(segments, totalBytes, size, k)
        /\ segments' = Counted(room, frame)
        /\ totalBytes' = room.totalBytes + size
        /\ nextIndex' = room.nextIndex
        /\ active' = room.active
        /\ disk' = Written(room.disk, room.active, frame, FsyncAlways)
        /\ appends' = appends + 1
        /\ accepted' = accepted \cup {frame.id}
        /\ gone' = gone \cup IdsInFirst(k)
        /\ UNCHANGED <<up, dirSyncPending, rewritten, crashes, flushedActive>>

(* evict_for fails on the k-th removal: that segment has left the Vec, its *)
(* file and its bytes in total_bytes stay.  append returns the error.      *)
AppendRemoveFails(frame) ==
  \E n \in 0..Len(segments), k \in 1..Len(segments) :
    /\ up /\ "remove" \in Faults
    /\ Evicts(segments, totalBytes, EncodedLen(frame.len), n) /\ k <= n
    /\ segments' = DropFirst(segments, k)
    /\ totalBytes' = totalBytes - BytesOfFirst(segments, k - 1)
    /\ disk' = Removed(disk, k - 1)
    /\ gone' = gone \cup IdsInFirst(k - 1)
    /\ appends' = appends + 1
    /\ UNCHANGED <<up, nextIndex, active, dirSyncPending, rewritten, crashes,
                   accepted, flushedActive>>

(* ensure_active_with_room fails to create the file: its index is spent.   *)
AppendOpenFails(frame) ==
  \E k \in 0..Len(segments) :
    LET size == EncodedLen(frame.len)
        room == Room(size, k)
    IN  /\ up /\ "open" \in Faults
        /\ Evicts(segments, totalBytes, size, k) /\ room.rotate
        /\ segments' = DropFirst(segments, k)
        /\ totalBytes' = room.totalBytes
        /\ nextIndex' = room.nextIndex
        /\ disk' = Removed(disk, k)
        /\ gone' = gone \cup IdsInFirst(k)
        /\ appends' = appends + 1
        /\ UNCHANGED <<up, active, dirSyncPending, rewritten, crashes,
                       accepted, flushedActive>>

(* write_all fails part way (a full disk): what was written stays in the   *)
(* file, the accounting does not change, and append returns the error.     *)
AppendWriteFails(frame) ==
  \E k \in 0..Len(segments) :
    LET size == EncodedLen(frame.len)
        room == Room(size, k)
    IN  /\ up /\ "write" \in Faults
        /\ Evicts(segments, totalBytes, size, k)
        /\ segments' = room.segments
        /\ totalBytes' = room.totalBytes
        /\ nextIndex' = room.nextIndex
        /\ active' = room.active
        /\ disk' = Written(room.disk, room.active, [frame EXCEPT !.whole = FALSE], FALSE)
        /\ gone' = gone \cup IdsInFirst(k)
        /\ appends' = appends + 1
        /\ UNCHANGED <<up, dirSyncPending, rewritten, crashes, accepted,
                       flushedActive>>

-----------------------------------------------------------------------------
(* ack: delete the leading segments whose highest sequence is <= upTo.     *)
Ack(upTo) ==
  \E k \in 1..Len(segments) :
    /\ up /\ AckDeletes(segments, upTo, k)
    /\ segments' = DropFirst(segments, k)
    /\ totalBytes' = totalBytes - BytesOfFirst(segments, k)
    /\ disk' = Removed(disk, k)
    /\ gone' = gone \cup IdsInFirst(k)
    /\ UNCHANGED <<up, nextIndex, active, dirSyncPending, rewritten, appends,
                   crashes, accepted, flushedActive>>

(* ack fails on the k-th removal, as evict_for does.                        *)
AckRemoveFails(upTo) ==
  \E n \in 0..Len(segments), k \in 1..Len(segments) :
    /\ up /\ "remove" \in Faults /\ AckDeletes(segments, upTo, n) /\ k <= n
    /\ segments' = DropFirst(segments, k)
    /\ totalBytes' = totalBytes - BytesOfFirst(segments, k - 1)
    /\ disk' = Removed(disk, k - 1)
    /\ gone' = gone \cup IdsInFirst(k - 1)
    /\ UNCHANGED <<up, nextIndex, active, dirSyncPending, rewritten, appends,
                   crashes, accepted, flushedActive>>

(* Mutation: flush does not make up for a failed directory sync.           *)
DirSyncSkipped(files) == files

DirSynced(files) == [i \in DOMAIN files |-> [files[i] EXCEPT !.old = << >>]]

(* flush: the directory first if a rename may not be durable, then the     *)
(* active segment.  A failed directory sync ends the flush.                *)
Flush ==
  LET files == IF dirSyncPending THEN DirSynced(disk) ELSE disk
      i == active.index
      current == i \in DOMAIN disk /\ disk[i].gen = active.gen
  IN  /\ up
      /\ disk' = IF current THEN [files EXCEPT ![i].synced = Len(files[i].frames)]
                 ELSE files
      /\ dirSyncPending' = FALSE
      /\ flushedActive' = flushedActive \cup
                            (IF current THEN IdsOf(Readable(disk[i].frames)) \cap accepted ELSE {})
      /\ UNCHANGED <<up, segments, nextIndex, totalBytes, active, rewritten,
                     appends, crashes, accepted, gone>>

-----------------------------------------------------------------------------
(* rewrite: segment by segment, read whole, stage, rename, install the     *)
(* append handle and the accounting, sync the directory.  It stops at the  *)
(* first segment p+1 it cannot read, stage or rename, which stays as it    *)
(* was, or after the rename of p when the directory sync fails.            *)
Withhold(frame) == IF frame.args THEN [frame EXCEPT !.args = FALSE, !.len = Withheld] ELSE frame
Dirty(n) == \E j \in DOMAIN disk[segments[n].index].frames :
              disk[segments[n].index].frames[j].args
AllWhole(n) == \A j \in DOMAIN disk[segments[n].index].frames :
                 disk[segments[n].index].frames[j].whole

(* Mutation: records with argument text are left out of the copy.          *)
RewrittenWithout(n) ==
  LET file == disk[segments[n].index]
  IN  [gen |-> file.gen + 1,
       frames |-> SelectSeq(file.frames, LAMBDA frame : ~frame.args),
       synced |-> 0, old |-> <<[frames |-> file.frames, synced |-> file.synced]>>]

RewrittenFile(n) ==
  LET file == disk[segments[n].index]
  IN  [gen |-> file.gen + 1,
       frames |-> [j \in DOMAIN file.frames |-> Withhold(file.frames[j])],
       synced |-> Len(file.frames),
       old |-> <<[frames |-> file.frames, synced |-> file.synced]>>]

(* Mutation: the append handle still refers to the replaced file.          *)
StaleHandle(done) == active

(* The append handle, after the active segment may have been replaced.     *)
HandleAfter(done) ==
  IF Len(segments) \in done
  THEN [index |-> segments[Len(segments)].index, gen |-> RewrittenFile(Len(segments)).gen]
  ELSE active

(* The rewrite stopped after position p; dirSynced says whether the        *)
(* directory sync after the last rename succeeded.                         *)
RewriteUpTo(p, dirSynced) ==
  LET done == {n \in 1..p : Dirty(n)}
      file(n) == RewrittenFile(n)
      position(i) == CHOOSE n \in done : segments[n].index = i
      renamed == [i \in DOMAIN disk |->
                    IF \E n \in done : segments[n].index = i
                    THEN file(position(i)) ELSE disk[i]]
      \* every rename but, when its sync failed, the last is durable
      last == segments[Max(done)].index
      synced == [i \in DOMAIN disk |->
                   IF ~dirSynced /\ i = last THEN renamed[i]
                   ELSE [renamed[i] EXCEPT !.old = << >>]]
  IN  /\ segments' = [n \in DOMAIN segments |->
                        IF n \in done
                        THEN [segments[n] EXCEPT !.bytes = FrameBytes(file(n).frames)]
                        ELSE segments[n]]
      /\ totalBytes' = totalBytes
           - MapThenSumSet(LAMBDA n : segments[n].bytes, done)
           + MapThenSumSet(LAMBDA n : FrameBytes(file(n).frames), done)
      /\ active' = HandleAfter(done)
      /\ disk' = IF done = {} THEN disk ELSE synced
      /\ dirSyncPending' = IF done = {} THEN dirSyncPending ELSE ~dirSynced

Rewrite ==
  /\ up /\ ~rewritten
  /\ rewritten' = TRUE
  /\ \E p \in 0..Len(segments), dirSynced \in BOOLEAN :
       /\ \A n \in 1..p : AllWhole(n)
       /\ \/ dirSynced /\ p = Len(segments)
          \/ /\ dirSynced /\ p < Len(segments)
             /\ \/ ~AllWhole(p + 1)
                \/ "read" \in Faults
                \/ "rename" \in Faults /\ Dirty(p + 1)
          \/ ~dirSynced /\ "dirsync" \in Faults /\ p > 0 /\ Dirty(p)
       /\ RewriteUpTo(p, dirSynced)
  /\ UNCHANGED <<up, nextIndex, appends, crashes, promises>>

-----------------------------------------------------------------------------
Closed ==
  /\ up' = FALSE /\ segments' = << >> /\ nextIndex' = 0 /\ totalBytes' = 0
  /\ active' = NoFile /\ dirSyncPending' = FALSE /\ rewritten' = FALSE
  /\ crashes' = crashes + 1
  /\ UNCHANGED <<accepted, flushedActive>>

(* The daemon dies between two calls; the page cache survives it.          *)
Crash ==
  /\ up /\ crashes < MaxCrashes
  /\ Closed
  /\ UNCHANGED <<disk, appends, gone>>

(* The daemon dies inside append, leaving a record cut short.              *)
CrashInAppend(frame) ==
  \E k \in 0..Len(segments) :
    LET room == Room(EncodedLen(frame.len), k)
    IN  /\ up /\ crashes < MaxCrashes
        /\ Evicts(segments, totalBytes, EncodedLen(frame.len), k)
        /\ Closed
        /\ disk' = Written(room.disk, room.active, [frame EXCEPT !.whole = FALSE], FALSE)
        /\ gone' = gone \cup IdsInFirst(k)
        /\ appends' = appends + 1

(* The machine dies: of each file, the frames an fsync covered survive and *)
(* any number of the later ones; a rename no directory sync covered may be *)
(* undone.                                                                 *)
PowerLoss ==
  /\ up /\ crashes < MaxCrashes /\ "power" \in Faults
  /\ Closed
  /\ \E undo \in SUBSET {i \in DOMAIN disk : disk[i].old # << >>} :
       LET before(i) == IF i \in undo THEN disk[i].old[1]
                        ELSE [frames |-> disk[i].frames, synced |-> disk[i].synced]
       IN  \E keep \in [DOMAIN disk -> 0..MaxAppends] :
             /\ \A i \in DOMAIN disk :
                  keep[i] \in before(i).synced..Len(before(i).frames)
             /\ disk' = [i \in DOMAIN disk |->
                           [gen |-> 0, frames |-> SubSeq(before(i).frames, 1, keep[i]),
                            synced |-> keep[i], old |-> << >>]]
  /\ UNCHANGED <<appends, gone>>

-----------------------------------------------------------------------------
Next ==
  \/ Open
  \/ /\ appends < MaxAppends
     /\ \E frame \in Appendable :
          \/ AppendRecord(frame)
          \/ AppendRemoveFails(frame)
          \/ AppendOpenFails(frame)
          \/ AppendWriteFails(frame)
          \/ CrashInAppend(frame)
  \/ \E upTo \in SeqNos : Ack(upTo) \/ AckRemoveFails(upTo)
  \/ Flush
  \/ Rewrite
  \/ Crash
  \/ PowerLoss

Spec == Init /\ [][Next]_vars

-----------------------------------------------------------------------------
TypeOK ==
  /\ up \in BOOLEAN /\ dirSyncPending \in BOOLEAN /\ rewritten \in BOOLEAN
  /\ segments \in Seq([index : Nat, maxSequence : SeqNos \cup {0}, records : Nat, bytes : Nat])
  /\ nextIndex \in Nat /\ totalBytes \in Nat
  /\ active \in [index : Nat \cup {-1}, gen : Nat]
  /\ DOMAIN disk \subseteq Nat
  /\ \A i \in DOMAIN disk :
       /\ disk[i].gen \in Nat /\ disk[i].frames \in Seq(Frame)
       /\ disk[i].synced \in 0..Len(disk[i].frames)
  /\ appends \in 0..MaxAppends /\ crashes \in 0..MaxCrashes
  /\ accepted \subseteq Ids /\ gone \subseteq Ids
  /\ flushedActive \subseteq Ids

(* The segments a Spool knows are in strictly increasing index order,      *)
(* below next_index, each with its file: a rotation never reopens an older *)
(* segment, whatever was evicted, acked or lost in between (open,          *)
(* ensure_active_with_room, spool.rs).                                     *)
SegmentOrder ==
  /\ \A m, n \in DOMAIN segments : m < n => segments[m].index < segments[n].index
  /\ \A n \in DOMAIN segments :
       segments[n].index < nextIndex /\ segments[n].index \in DOMAIN disk

(* The append handle is the file the last segment's name refers to, so an  *)
(* append never goes to a replaced, unlinked file (the promise of rewrite, *)
(* spool.rs).                                                              *)
HandleIsLastSegment ==
  segments # << >> =>
    LET i == segments[Len(segments)].index
    IN  active = [index |-> i, gen |-> disk[i].gen]

(* The accounting that rotation, eviction, ack and spoolBytes rely on is   *)
(* that of the files: per segment the highest sequence, the records and    *)
(* the bytes, and their total.                                             *)
Accounting ==
  up => /\ \A n \in DOMAIN segments :
             segments[n] = SegmentOf(segments[n].index, disk[segments[n].index].frames)
        /\ totalBytes = BytesOfFirst(segments, Len(segments))

(* A record append accepted is there for replay, in whatever segment, until*)
(* its segment is evicted or acked: through rotations, rewrites, a crash   *)
(* inside append and any number of reopens.                                *)
AcceptedReadable == accepted \ gone \subseteq ReadableIds

(* A record whose segment was evicted or acked never comes back on replay. *)
NothingComesBack == gone \cap ReadableIds = {}

(* The disk budget: eviction keeps the spool within the larger of the disk *)
(* limit and one segment, plus the record being appended.                  *)
DiskBound ==
  totalBytes <= Max({DiskLimit, SegmentBytes}) + EncodedLen(MaxPayload)

(* A record in the active segment when flush returned Ok survives a power  *)
(* loss, a rename whose directory sync had failed included.                *)
FlushedActiveSurvives == flushedActive \ gone \subseteq ReadableIds
===============================================================================
