---------------------------- MODULE MCSignalSync ------------------------------
(***************************************************************************)
(* SignalSync for TLC: files it may start with (none, and one of an        *)
(* earlier run), and two kinds of behaviours in one run, told apart by     *)
(* timely: those in which sleep(1) is always long enough, and all others.  *)
(***************************************************************************)
EXTENDS SignalSync

EarlierFiles == {<<>>, <<[by |-> "earlier", n |-> 4], [by |-> "earlier", n |-> 7]>>}

VARIABLE timely

MCInit == Init /\ timely \in BOOLEAN
MCNext == Next /\ (timely => SleepIsLong) /\ UNCHANGED timely
MCSpec == MCInit /\ [][MCNext]_<<vars, timely>> /\ Fairness

(* As long as sleep(1) outlasts the other process's way to pause(), a process that is    *)
(* sent a signal writes.  Nothing else prevents that the signal comes before pause() and *)
(* is lost.                                                                              *)
TimelyAnswered == timely => SignalAnswered
===============================================================================
