------------------------------- MODULE MCSpool -------------------------------
(* The spool for TLC, in two parts: one where the daemon may die and the   *)
(* page cache survives (the constants of the configuration), and one where *)
(* the machine may lose power and more calls fail.                         *)
EXTENDS Spool

VARIABLE part

Power == INSTANCE Spool WITH Faults <- {"power", "dirsync", "remove", "open", "write"}

SpoolInit == part \in {"daemon", "power"} /\ Init
SpoolNext ==
  \/ part = "daemon" /\ Next /\ UNCHANGED part
  \/ part = "power" /\ Power!Next /\ UNCHANGED part
SpoolSpec == SpoolInit /\ [][SpoolNext]_<<part, vars>>

(* The spool keeps its segments in order and appends to the last one, and  *)
(* while no removal or write fails its accounting is that of the files and *)
(* within the budget.                                                      *)
SpoolInOrder ==
  /\ TypeOK /\ SegmentOrder /\ HandleIsLastSegment
  /\ part = "daemon" => Accounting /\ DiskBound

(* Replay returns what was accepted until it is evicted or acked, and      *)
(* nothing after; a power loss may take what was not flushed.              *)
ReplayIsRight == NothingComesBack /\ (part = "daemon" => AcceptedReadable)

(* What a replay returns: the readable records, in index order.  While the *)
(* spool is open this is the order of its segments.                        *)
Replayed ==
  LET ids(frames) == [j \in DOMAIN frames |-> frames[j].id]
      order == IF up THEN [n \in DOMAIN segments |-> segments[n].index]
               ELSE SortedIndices
  IN  FlattenSeq([n \in DOMAIN order |-> ids(Readable(disk[order[n]].frames))])

Log == INSTANCE RecordLog WITH log <- Replayed

(* The spool implements the record log while the page cache survives: the  *)
(* segments, their rotation, the healing on open and the rewrite are       *)
(* invisible to replay.                                                    *)
ImplementsRecordLog ==
  Log!LogInit /\ [][part = "daemon" => [Log!LogNext]_Replayed]_<<part, vars>>
===============================================================================
