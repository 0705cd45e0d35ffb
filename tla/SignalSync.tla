------------------------------ MODULE SignalSync ------------------------------
(***************************************************************************)
(* 6_Synchronization/3_signal_sync_process: process A (parent_process) and *)
(* the process B it forks (child_process) count on in turns in one file,   *)
(* and wake each other up with SIGUSR1.                                    *)
(*                                                                         *)
(* A signal that arrives before its process is in pause() runs its handler *)
(* and is gone.  Only the sleep(1) before each turn is there to prevent it.*)
(***************************************************************************)
EXTENDS Integers, Sequences

CONSTANTS
  Earlier,   \* what the file may hold when the program starts
  MaxLines   \* bound: lines of the file, after which no turn is begun

Procs == {"A", "B"}
Other == [A |-> "B", B |-> "A"]
Entry == [by : Procs \cup {"earlier"}, n : Nat]

ASSUME SyncAssumption ==
  /\ Earlier \subseteq Seq([by : {"earlier"}, n : Nat]) /\ Earlier # {}
  /\ MaxLines \in Nat

VARIABLES
  pc,       \* where each process is; "between" is after kill(), before pause()
  counter,  \* each process's p_counter
  pending,  \* the processes with a SIGUSR1 to be handled
  file      \* OUTPUT_FILE

vars == <<pc, counter, pending, file>>

Places == {"sleep", "read", "write", "kill", "between", "pause", "exited"}

Init ==
  /\ pc = [A |-> "sleep", B |-> "between"]
  /\ counter = [p \in Procs |-> 0]
  /\ pending = {}
  /\ file \in Earlier

Goto(p, from, to) == pc[p] = from /\ pc' = [pc EXCEPT ![p] = to]

\* sleep(1) is over, or was cut short by a signal.
Wake(p) ==
  /\ Len(file) < MaxLines
  /\ Goto(p, "sleep", "read")
  /\ UNCHANGED <<counter, pending, file>>

LastNumber(f) == IF f = <<>> THEN 0 ELSE f[Len(f)].n

\* Fault: the file is not read again.
FaultOwnCounter(p) ==
  /\ Goto(p, "read", "write")
  /\ counter' = [counter EXCEPT ![p] = @ + 1]
  /\ UNCHANGED <<pending, file>>

\* get_number_of_last_line is 1 when the file cannot be opened.
Read(p) ==
  /\ Goto(p, "read", "write")
  /\ \E last \in {LastNumber(file), 1} : counter' = [counter EXCEPT ![p] = last + 1]
  /\ UNCHANGED <<pending, file>>

\* One line, written by fclose; the process exits when the file cannot be opened.
WriteToFile(p) ==
  \/ /\ Goto(p, "write", "kill")
     /\ file' = Append(file, [by |-> p, n |-> counter[p]])
     /\ UNCHANGED <<counter, pending>>
  \/ /\ Goto(p, "write", "exited")
     /\ UNCHANGED <<counter, pending, file>>

\* Fault: kill(0, SIGUSR1) reaches the whole process group.
FaultKillGroup(p) ==
  /\ Goto(p, "kill", "between")
  /\ pending' = {q \in Procs : pc[q] # "exited"}
  /\ UNCHANGED <<counter, file>>

Kill(p) ==
  /\ Goto(p, "kill", "between")
  /\ pending' = IF pc[Other[p]] = "exited" THEN pending ELSE pending \cup {Other[p]}
  /\ UNCHANGED <<counter, file>>

Pause(p) ==
  /\ Goto(p, "between", "pause")
  /\ UNCHANGED <<counter, pending, file>>

\* Fault: SIGUSR1 is ignored, and does not interrupt pause().
FaultIgnored(p) ==
  /\ p \in pending
  /\ pending' = pending \ {p}
  /\ UNCHANGED <<pc, counter, file>>

\* child_handler does nothing; what matters is the call that the signal interrupts.
Handle(p) ==
  /\ p \in pending
  /\ pending' = pending \ {p}
  /\ pc' = [pc EXCEPT ![p] = IF @ = "pause" THEN "sleep" ELSE IF @ = "sleep" THEN "read" ELSE @]
  /\ UNCHANGED <<counter, file>>

Step(p) == Wake(p) \/ Read(p) \/ WriteToFile(p) \/ Kill(p) \/ Pause(p) \/ Handle(p)

Next == \E p \in Procs : Step(p)

Spec == Init /\ [][Next]_vars

\* Both processes run, and a signal is handled some day.
Fairness == \A p \in Procs :
  WF_vars(Wake(p) \/ Read(p) \/ WriteToFile(p) \/ Kill(p) \/ Pause(p)) /\ WF_vars(Handle(p))

\* What sleep(1) is for: when it is over, the other process has reached its pause().
SleepIsLong ==
  \A p \in Procs : pc[p] = "sleep" /\ pc'[p] = "read" => pc[Other[p]] \in {"pause", "exited"}
-----------------------------------------------------------------------------
(* Properties. *)

TypeOK ==
  /\ pc \in [Procs -> Places]
  /\ counter \in [Procs -> Nat]
  /\ pending \subseteq Procs
  /\ file \in Seq(Entry)

\* It is p's turn: p is on its way from waking up to its kill(), or about to be woken.
HasTurn(p) == pc[p] \in {"sleep", "read", "write", "kill"} \/ p \in pending

(* No two processes are at the file, and while one is, no signal is on its way. *)
OneTurn == \A p \in Procs : HasTurn(p) => ~HasTurn(Other[p])

(* The file is one log in which the processes take turns and each counts on from what *)
(* the other wrote, though the number is read at one moment and written at another.   *)
Log == INSTANCE CountingLog WITH First <- "A", Second <- "B", log <- file
ImplementsLog == Log!Spec

\* "Send a signal to Process A to increment the counter" (and B): a process that is sent
\* a signal writes, unless one of them could not open the file.
SignalAnswered == \A p \in Procs :
  p \in pending ~> \/ pc[p] = "write"
                   \/ Len(file) = MaxLines
                   \/ \E q \in Procs : pc[q] = "exited"
===============================================================================
