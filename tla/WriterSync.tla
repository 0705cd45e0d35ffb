------------------------------ MODULE WriterSync ------------------------------
(***************************************************************************)
(* 6_Synchronization/1_synchronize_writing_file: threads append numbered   *)
(* lines to output1.txt or output2.txt, chosen by rand() for every line.   *)
(*                                                                         *)
(* Each file has its own semaphore, but g_common_var, the number that is   *)
(* incremented and written, is shared by both.  A line stays in stdio's    *)
(* buffer until fclose, which comes after the semaphore is given back.     *)
(***************************************************************************)
EXTENDS Integers, Sequences, FiniteSets

CONSTANTS
  MAX_THREADS,   \* threads that are created
  MAX_VALUE      \* lines that each of them writes

ASSUME WriterAssumption == MAX_THREADS \in Nat \ {0} /\ MAX_VALUE \in Nat \ {0}

Threads == 1..MAX_THREADS
Files   == {1, 2}
NoLine  == 0        \* nothing is buffered: the numbers begin at 1

VARIABLES
  main,           \* where init_semaphore is; "over" and "crashed" with the process, "hung" for ever
  next,           \* its i: the thread to be created or joined next
  pc,             \* where each thread is
  i,              \* its i: the lines it has begun
  random_file,    \* the file it has open
  loaded,         \* g_common_var as its increment has loaded it
  buffer,         \* the number of the line in its stdio buffer
  g_common_var,
  sem,            \* the values of g_sem1 and g_sem2
  output,         \* the two files, as sequences of the lines of this run
  used,           \* history: the files whose semaphore was taken
  torn            \* history: an increment was overwritten

mainVars == <<main, next>>
locals   == <<i, random_file, loaded, buffer>>
history  == <<used, torn>>
vars == <<mainVars, pc, locals, g_common_var, sem, output, history>>

Places == {"none", "open", "wait", "load", "store", "print", "post", "close", "returned"}

Init ==
  /\ main = "create" /\ next = 1
  /\ pc = [t \in Threads |-> "none"]
  /\ i = [t \in Threads |-> 0]
  /\ random_file = [t \in Threads |-> 1]
  /\ loaded = [t \in Threads |-> 0]
  /\ buffer = [t \in Threads |-> NoLine]
  /\ g_common_var = 0
  /\ sem = [f \in Files |-> 1]
  /\ output = [f \in Files |-> <<>>]
  /\ used = {} /\ torn = FALSE
-----------------------------------------------------------------------------
(* init_semaphore: threads are created and joined in order, and the semaphores *)
(* destroyed; main returns, which ends the process.                            *)

\* A creation that fails leaves thread[i] unset, which nobody looks at.
CreateThread ==
  /\ main = "create"
  /\ pc' = [pc EXCEPT ![next] = "open"] \/ pc' = pc
  /\ IF next < MAX_THREADS THEN next' = next + 1 /\ main' = main
                           ELSE next' = 1 /\ main' = "join"
  /\ UNCHANGED <<locals, g_common_var, sem, output, history>>

\* Fault: the last thread is not joined.
FaultJoinFewer ==
  /\ main = "join" /\ pc[next] = "returned"
  /\ IF next < MAX_THREADS - 1 THEN next' = next + 1 /\ main' = main
                               ELSE next' = next /\ main' = "over"
  /\ UNCHANGED <<pc, locals, g_common_var, sem, output, history>>

\* The join of an unset handle fails, or crashes, or waits for ever.
JoinThread ==
  /\ main = "join"
  /\ \/ /\ pc[next] \in {"returned", "none"}
        /\ IF next < MAX_THREADS THEN next' = next + 1 /\ main' = main
                                 ELSE next' = next /\ main' = "over"
     \/ pc[next] = "none" /\ main' \in {"crashed", "hung"} /\ next' = next
  /\ UNCHANGED <<pc, locals, g_common_var, sem, output, history>>
-----------------------------------------------------------------------------
(* thread_tunction.  The process is over when main is. *)

ProcessRuns == main \notin {"over", "crashed"}

Goto(t, from, to) ==
  /\ ProcessRuns
  /\ pc[t] = from
  /\ pc' = [pc EXCEPT ![t] = to]
  /\ UNCHANGED mainVars

\* Fault: a file that cannot be opened makes the thread return with the semaphore taken.
FaultOpen(t) ==
  \/ /\ Goto(t, "open", "wait")
     /\ \E f \in Files : random_file' = [random_file EXCEPT ![t] = f]
     /\ UNCHANGED <<i, loaded, buffer, g_common_var, sem, output, history>>
  \/ /\ Goto(t, "open", "returned")
     /\ \E f \in Files : sem[f] = 1 /\ sem' = [sem EXCEPT ![f] = 0]
     /\ UNCHANGED <<locals, g_common_var, output, history>>

\* fopen may fail, and then the thread returns; no semaphore is taken yet.
Open(t) ==
  \/ /\ Goto(t, "open", "wait")
     /\ \E f \in Files : random_file' = [random_file EXCEPT ![t] = f]
     /\ UNCHANGED <<i, loaded, buffer, g_common_var, sem, output, history>>
  \/ /\ Goto(t, "open", "returned")
     /\ UNCHANGED <<locals, g_common_var, sem, output, history>>

\* Fault: the wait is left out.
FaultNoWait(t) ==
  /\ Goto(t, "wait", "load")
  /\ used' = used \cup {random_file[t]}
  /\ UNCHANGED <<locals, g_common_var, sem, output, torn>>

SemWait(t) ==
  /\ Goto(t, "wait", "load")
  /\ sem[random_file[t]] > 0
  /\ sem' = [sem EXCEPT ![random_file[t]] = @ - 1]
  /\ used' = used \cup {random_file[t]}
  /\ UNCHANGED <<locals, g_common_var, output, torn>>

\* g_common_var++ is a load and a store.
Load(t) ==
  /\ Goto(t, "load", "store")
  /\ loaded' = [loaded EXCEPT ![t] = g_common_var]
  /\ UNCHANGED <<i, random_file, buffer, g_common_var, sem, output, history>>

Store(t) ==
  /\ Goto(t, "store", "print")
  /\ g_common_var' = loaded[t] + 1
  /\ torn' = (torn \/ g_common_var # loaded[t])
  /\ loaded' = [loaded EXCEPT ![t] = 0]      \* the register is dead
  /\ UNCHANGED <<i, random_file, buffer, sem, output, used>>

\* fprintf reads g_common_var again; the line goes to the buffer.
Fprintf(t) ==
  /\ Goto(t, "print", "post")
  /\ buffer' = [buffer EXCEPT ![t] = g_common_var]
  /\ UNCHANGED <<i, random_file, loaded, g_common_var, sem, output, history>>

\* sleep(1) is over.
SemPost(t) ==
  /\ Goto(t, "post", "close")
  /\ sem' = [sem EXCEPT ![random_file[t]] = @ + 1]
  /\ UNCHANGED <<locals, g_common_var, output, history>>

\* fclose appends the line to the file, and i++ begins the next turn or ends the loop.
Close(t) ==
  /\ pc[t] = "close"
  /\ Goto(t, "close", IF i[t] + 1 < MAX_VALUE THEN "open" ELSE "returned")
  /\ output' = [output EXCEPT ![random_file[t]] = Append(@, [by |-> t, n |-> buffer[t]])]
  /\ buffer' = [buffer EXCEPT ![t] = NoLine]
  /\ i' = [i EXCEPT ![t] = @ + 1]
  /\ random_file' = [random_file EXCEPT ![t] = 1]      \* dead until the next turn
  /\ UNCHANGED <<loaded, g_common_var, sem, history>>

Thread(t) ==
  \/ Open(t) \/ SemWait(t) \/ Load(t) \/ Store(t) \/ Fprintf(t) \/ SemPost(t) \/ Close(t)

Next == CreateThread \/ JoinThread \/ \E t \in Threads : Thread(t)

\* The scheduler runs every thread.  Nothing is assumed of who gets a semaphore first.
Fairness ==
  /\ WF_vars(CreateThread \/ JoinThread)
  /\ \A t \in Threads : WF_vars(Thread(t))

Spec == Init /\ [][Next]_vars /\ Fairness
-----------------------------------------------------------------------------
(* Properties. *)

TypeOK ==
  /\ main \in {"create", "join", "over", "crashed", "hung"}
  /\ next \in Threads
  /\ pc \in [Threads -> Places]
  /\ i \in [Threads -> 0..MAX_VALUE]
  /\ random_file \in [Threads -> Files]
  /\ loaded \in [Threads -> Nat]
  /\ buffer \in [Threads -> Nat]
  /\ g_common_var \in Nat
  /\ sem \in [Files -> {0, 1}]
  /\ output \in [Files -> Seq([by : Threads, n : Nat])]
  /\ used \subseteq Files
  /\ torn \in BOOLEAN

(* In one file no number occurs twice, and those of one thread grow, though a line is    *)
(* numbered under the semaphore, numbered from a variable that users of the other file   *)
(* change, and appended only after the semaphore is given back.  Only a lost increment   *)
(* breaks it, and that takes both files.                                                 *)
NumbersInFile ==
  \/ torn /\ used = Files
  \/ \A f \in Files : \A j, k \in DOMAIN output[f] : j < k =>
       /\ output[f][j].n # output[f][k].n
       /\ output[f][j].by = output[f][k].by => output[f][j].n < output[f][k].n

(* As long as only one file is used, its semaphore protects the counter: the numbers on  *)
(* the way to the file and in it are 1, 2, 3, ... without a gap, whoever writes them.    *)
Numbers == (UNION {{output[f][j].n : j \in DOMAIN output[f]} : f \in Files})
           \cup {buffer[t] : t \in {u \in Threads : buffer[u] # NoLine}}
OneFileCounts ==
  used # Files /\ (\A t \in Threads : pc[t] # "print") => Numbers = 1..g_common_var

(* When main returns, and with it the process ends and the semaphores are gone, no       *)
(* thread is on its way any more, and every line that was begun is in its file.          *)
Ended(t)   == pc[t] \in {"returned", "none"}
LinesOf(t) == UNION {{f} \X {j \in DOMAIN output[f] : output[f][j].by = t} : f \in Files}
AllWritten ==
  main = "over" => \A t \in Threads : Ended(t) /\ Cardinality(LinesOf(t)) = i[t]

(* Until main is over somebody can go on.  A thread waits for a semaphore, main for a    *)
(* thread; they never all wait for one another, whatever files could not be opened.      *)
(* Only a join of an unset handle may hold main up, when all threads are done.           *)
CanGoOn(t) ==
  \/ pc[t] \in {"open", "load", "store", "print", "post", "close"}
  \/ pc[t] = "wait" /\ sem[random_file[t]] > 0
AllEnded == \A t \in Threads : Ended(t)
NeverStuck ==
  \/ main = "create" \/ ~ProcessRuns
  \/ main = "join" /\ Ended(next)
  \/ \E t \in Threads : CanGoOn(t)
  \/ main = "hung" /\ AllEnded

(* The program ends: a semaphore is given back by whoever took it, also when the next    *)
(* file cannot be opened.  If main hangs in a join, the threads end all the same.        *)
Termination == <>(~ProcessRuns \/ (main = "hung" /\ AllEnded))
===============================================================================
