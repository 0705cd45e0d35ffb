----------------------------- MODULE CountingLog ------------------------------
(***************************************************************************)
(* What the two processes of 6_Synchronization/3_signal_sync_process are   *)
(* to write together: one log in which they take turns and count on.       *)
(***************************************************************************)
EXTENDS Naturals, Sequences

CONSTANTS First, Second  \* the two writers; First writes the first line

VARIABLE log

\* A line is a number and who wrote it; "earlier" is any earlier run.
Writers == {First, Second, "earlier"}
Lines   == [by : Writers, n : Nat]

LastNumber(f) == IF f = <<>> THEN 0 ELSE f[Len(f)].n

MayWrite(p) ==
  LET by == IF log = <<>> THEN "earlier" ELSE log[Len(log)].by
  IN  p = IF by = First THEN Second ELSE First

Init == log \in Seq([by : {"earlier"}, n : Nat])

\* The next number, or 2 when the log cannot be read.
Write(p) ==
  /\ MayWrite(p)
  /\ \E n \in {LastNumber(log) + 1, 2} : log' = Append(log, [by |-> p, n |-> n])

Next == Write(First) \/ Write(Second)

Spec == Init /\ [][Next]_log
===============================================================================
