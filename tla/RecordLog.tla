------------------------------ MODULE RecordLog ------------------------------
(***************************************************************************)
(* What the spool promises its caller while the page cache survives: one   *)
(* log of records, in append order.  A record is added at the end; records *)
(* leave from the front only, by eviction or by ack; opening, healing,     *)
(* rewriting and a crash of the daemon leave the log as it is.             *)
(***************************************************************************)
EXTENDS Integers, Sequences

CONSTANT Ids        \* record identities
VARIABLE log        \* the records a replay would return, oldest first

LogInit == log = << >>

(* append: evict the k oldest records, then add r.                         *)
Add(r, k) == log' = Append(SubSeq(log, k + 1, Len(log)), r)

(* ack, or the eviction of an append that then failed.                     *)
Trim(k) == log' = SubSeq(log, k + 1, Len(log))

LogNext ==
  \/ \E r \in Ids, k \in 0..Len(log) : Add(r, k)
  \/ \E k \in 1..Len(log) : Trim(k)

LogSpec == LogInit /\ [][LogNext]_log
===============================================================================
