----------------------------- MODULE DurableLog -----------------------------
(***************************************************************************)
(* What the redo log promises, without buffers, files or threads: the      *)
(* database is a sequence of records, in groups that belong together; a    *)
(* group is added as a whole; a crash may lose records at the end, but     *)
(* only whole groups and none that was acknowledged.                       *)
(***************************************************************************)
EXTENDS Integers, Sequences

VARIABLES log,    \* records [page, last, inc]; last: the end of its group
          acked   \* how many records are acknowledged as durable

(* A group does not end in the middle. *)
Whole(s) == s = <<>> \/ s[Len(s)].last

Init == log = <<>> /\ acked = 0

Extend ==
  /\ Len(log') > Len(log)
  /\ SubSeq(log', 1, Len(log)) = log
  /\ \A i \in Len(log) + 1 .. Len(log') : log'[i].last <=> i = Len(log')
  /\ UNCHANGED acked

Acknowledge ==
  /\ acked' \in acked .. Len(log)
  /\ UNCHANGED log

Recover ==
  /\ \E n \in acked .. Len(log) : log' = SubSeq(log, 1, n)
  /\ Whole(log')
  /\ UNCHANGED acked

Next == Extend \/ Acknowledge \/ Recover

Spec == Init /\ [][Next]_<<log, acked>>
=============================================================================
