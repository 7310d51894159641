------------------------------- MODULE SpoolOps -------------------------------
(***************************************************************************)
(* The segment arithmetic of the durable spool (sealant-eventlog,          *)
(* spool.rs): which segments an append evicts, when it rotates, and which  *)
(* segments an ack deletes.  `segs' is the Vec<Segment> of a Spool, a      *)
(* sequence of records with the fields maxSequence and bytes among others. *)
(* The loops of the code are given by the number k of segments they remove *)
(* from the front, as predicates on k, so that a caller writes             *)
(* \E k \in 0..Len(segs) : Evicts(...).                                     *)
(***************************************************************************)
EXTENDS Integers, Sequences, Functions

CONSTANTS
  SegmentBytes,   \* SpoolConfig.segment_bytes: a segment rotates past this size
  DiskLimit       \* SpoolConfig.disk_limit_bytes

ASSUME SpoolLimits == SegmentBytes \in Nat \ {0} /\ DiskLimit \in Nat \ {0}

(* Bytes held by the first k segments, by the in-memory accounting.        *)
BytesOfFirst(segs, k) ==
  SumFunctionOnSet([i \in DOMAIN segs |-> segs[i].bytes], 1..k)

(* Mutation: nothing is ever evicted.                                      *)
EvictsNothing(segs, total, size, k) == k = 0

(* evict_for: the oldest segments go while the record does not fit the     *)
(* disk limit and more than one segment is left.                           *)
Evicts(segs, total, size, k) ==
  LET over(j) == total - BytesOfFirst(segs, j) + size > DiskLimit
  IN  /\ \A j \in 0..(k-1) : over(j) /\ Len(segs) - j > 1
      /\ ~(over(k) /\ Len(segs) - k > 1)

(* ensure_active_with_room: a new segment is needed when there is none, or *)
(* the last one is not empty and the record would take it past its size.   *)
NeedsNewSegment(segs, size) ==
  \/ segs = << >>
  \/ LET last == segs[Len(segs)]
     IN  last.bytes > 0 /\ last.bytes + size > SegmentBytes

(* ack: the leading segments whose highest sequence is acknowledged go;    *)
(* the last, active, segment is always kept.                               *)
AckDeletes(segs, upTo, k) ==
  /\ \A j \in 1..k : segs[j].maxSequence <= upTo /\ j < Len(segs)
  /\ k + 1 < Len(segs) => segs[k + 1].maxSequence > upTo
  /\ k <= Len(segs)

(* What is left of segs when its first k elements are removed.             *)
DropFirst(segs, k) == SubSeq(segs, k + 1, Len(segs))
===============================================================================
