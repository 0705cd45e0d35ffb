----------------------------- MODULE MutexReaders -----------------------------
(***************************************************************************)
(* 6_Synchronization/2_multithread_access_same_resource: threads read the  *)
(* same file; a thread stores a line in data if rand() names it and there  *)
(* is room.  A mutex protects data, count and the choice.                  *)
(*                                                                         *)
(* All threads are created into threads[0], so only the last one created   *)
(* is ever joined; the other joins use handles that were never set.  The   *)
(* mutex is then destroyed while the other threads may still use it.       *)
(*                                                                         *)
(* What the calls on the mutex do is the C library's: pthread_mutex_lock   *)
(* looks whether the mutex is one, waits for the futex in it and then      *)
(* counts itself in; pthread_mutex_unlock looks again, counts itself out   *)
(* and gives the futex back; pthread_mutex_destroy refuses as long as      *)
(* somebody is counted in.                                                 *)
(***************************************************************************)
EXTENDS Integers

CONSTANTS
  MAX_THREADS,   \* threads
  MAX_SIZE,      \* length of data
  Lines          \* lines of input.txt

\* thread_ids of init_mutex has three elements.
ASSUME ReadersAssumption ==
  /\ MAX_THREADS \in 1..3
  /\ MAX_SIZE \in Nat \ {0} /\ Lines \in Nat

Threads == 1..MAX_THREADS
NoThread == 0
Entry == [by : Threads, line : 1..Lines]
Empty == [by |-> NoThread, line |-> 0]

VARIABLES
  main,       \* where init_mutex is; "gone" after pthread_exit, "hung" in a join for ever
  next,       \* its i
  handle,     \* the thread that threads[0] is the handle of, or NoThread
  process,    \* "runs", "exited" by exit(EXIT_FAILURE), "crashed", or
              \* "undefined" once something was written behind the end of data
  mutex,      \* "valid" or "destroyed"
  owner,      \* who holds the futex of the mutex
  pc,         \* where each thread is
  thread_id,  \* its local of that name, read from main's stack
  line,       \* the lines each has read
  loaded,     \* count as its count++ has loaded it
  count,
  data

mainVars == <<main, next, handle>>
locals   == <<thread_id, line, loaded>>
shared   == <<count, data>>
vars == <<mainVars, process, mutex, owner, pc, locals, shared>>

Places  == {"none", "open", "read", "lock", "wait", "taken", "check", "load", "store", "write",
            "unlock", "release", "done"}
Indices == 0..(MAX_SIZE - 1)

Init ==
  /\ main = "create" /\ next = 1 /\ handle = NoThread /\ process = "runs"
  /\ mutex = "valid" /\ owner = NoThread
  /\ pc = [t \in Threads |-> "none"]
  /\ thread_id = [t \in Threads |-> NoThread]
  /\ line = [t \in Threads |-> 0]
  /\ loaded = [t \in Threads |-> 0]
  /\ count = 0
  /\ data = [k \in Indices |-> Empty]
-----------------------------------------------------------------------------
(* init_mutex. *)

\* A creation that fails leaves it open what threads[0] is.
CreateThread ==
  /\ process = "runs" /\ main = "create"
  /\ \/ pc' = [pc EXCEPT ![next] = "open"] /\ handle' = next
     \/ pc' = pc /\ handle' \in {handle, NoThread}
  /\ IF next < MAX_THREADS THEN next' = next + 1 /\ main' = main
                           ELSE next' = 1 /\ main' = "join"
  /\ UNCHANGED <<process, mutex, owner, locals, shared>>

NextJoin ==
  /\ IF next < MAX_THREADS THEN next' = next + 1 /\ main' = main
                           ELSE next' = next /\ main' = "destroy"
  /\ UNCHANGED <<handle, process>>

\* Fault: the joins come to nothing, as if no handle had been set.
FaultJoin ==
  /\ process = "runs" /\ main = "join"
  /\ NextJoin
  /\ UNCHANGED <<mutex, owner, pc, locals, shared>>

\* threads[0] is the thread created last, if it is one.  With any other element pthread_join
\* fails, follows a pointer to nowhere, or waits on what the pointer leads to.
Join ==
  /\ process = "runs" /\ main = "join"
  /\ IF next = 1 /\ handle # NoThread
     THEN pc[handle] = "done" /\ NextJoin
     ELSE \/ NextJoin
          \/ process' = "crashed" /\ UNCHANGED mainVars
          \/ main' = "hung" /\ UNCHANGED <<next, handle, process>>
  /\ UNCHANGED <<mutex, owner, pc, locals, shared>>

\* Whoever has the futex is counted in, but for the moments after taking it and before giving
\* it back.
Counted == owner # NoThread /\ pc[owner] \notin {"taken", "release"}

\* pthread_exit lets the threads run on.
Destroy ==
  /\ process = "runs" /\ main = "destroy" /\ main' = "gone"
  /\ mutex' = IF Counted THEN mutex ELSE "destroyed"
  /\ UNCHANGED <<next, handle, process, owner, pc, locals, shared>>
-----------------------------------------------------------------------------
(* read_file. *)

Goto(t, from, to) ==
  /\ process = "runs"
  /\ pc[t] = from
  /\ pc' = [pc EXCEPT ![t] = to]
  /\ UNCHANGED <<mainVars, process>>

\* The thread's number is on the stack of main, which may be used for something else once
\* main is gone.  A file that cannot be opened ends the process.
Open(t) ==
  \/ /\ Goto(t, "open", "read")
     /\ \E id \in IF main = "gone" THEN Threads \cup {NoThread} ELSE {t} :
          thread_id' = [thread_id EXCEPT ![t] = id]
     /\ UNCHANGED <<mutex, owner, line, loaded, shared>>
  \/ /\ process = "runs" /\ pc[t] = "open" /\ process' = "exited"
     /\ UNCHANGED <<mainVars, mutex, owner, pc, locals, shared>>

ReadLine(t) ==
  \/ /\ line[t] < Lines
     /\ Goto(t, "read", "lock")
     /\ line' = [line EXCEPT ![t] = @ + 1]
     /\ UNCHANGED <<mutex, owner, thread_id, loaded, shared>>
  \/ /\ line[t] = Lines
     /\ Goto(t, "read", "done")
     /\ UNCHANGED <<mutex, owner, locals, shared>>

\* With a destroyed mutex the call fails, which nothing looks at.
Lock(t) ==
  /\ Goto(t, "lock", IF mutex = "valid" THEN "wait" ELSE "check")
  /\ UNCHANGED <<mutex, owner, locals, shared>>

TakeFutex(t) ==
  /\ Goto(t, "wait", "taken")
  /\ owner = NoThread /\ owner' = t
  /\ UNCHANGED <<mutex, locals, shared>>

CountIn(t) ==
  /\ Goto(t, "taken", "check")
  /\ UNCHANGED <<mutex, owner, locals, shared>>

\* Fault: one too many is let in.
FaultRoom == count <= MAX_SIZE

HasRoom == count < MAX_SIZE

\* Fault: without room the mutex is kept.
FaultCheck(t) ==
  \/ /\ HasRoom /\ thread_id[t] # NoThread
     /\ Goto(t, "check", "load")
     /\ UNCHANGED <<mutex, owner, locals, shared>>
  \/ /\ Goto(t, "check", IF HasRoom THEN "unlock" ELSE "read")
     /\ UNCHANGED <<mutex, owner, locals, shared>>

\* rand() names one of the threads.
Check(t) ==
  \/ /\ HasRoom /\ thread_id[t] # NoThread
     /\ Goto(t, "check", "load")
     /\ UNCHANGED <<mutex, owner, locals, shared>>
  \/ /\ Goto(t, "check", "unlock")
     /\ UNCHANGED <<mutex, owner, locals, shared>>

\* data[count++] = atoi(buffer): count is loaded and stored, then the element is written.
Load(t) ==
  /\ Goto(t, "load", "store")
  /\ loaded' = [loaded EXCEPT ![t] = count]
  /\ UNCHANGED <<mutex, owner, thread_id, line, shared>>

Store(t) ==
  /\ Goto(t, "store", "write")
  /\ count' = loaded[t] + 1
  /\ UNCHANGED <<mutex, owner, locals, data>>

\* Fault: the element written is the one after the increment.
FaultElement(t) == loaded[t] + 1

Element(t) == loaded[t]

Write(t) ==
  /\ process = "runs" /\ pc[t] = "write"
  /\ pc' = [pc EXCEPT ![t] = "unlock"]
  /\ IF Element(t) \in Indices
     THEN data' = [data EXCEPT ![Element(t)] = [by |-> t, line |-> line[t]]] /\ process' = process
     ELSE data' = data /\ process' = "undefined"
  /\ UNCHANGED <<mainVars, mutex, owner, locals, count>>

\* With a destroyed mutex this fails too, and the futex stays taken.
Unlock(t) ==
  /\ Goto(t, "unlock", IF mutex = "valid" THEN "release" ELSE "read")
  /\ UNCHANGED <<mutex, owner, locals, shared>>

GiveFutex(t) ==
  /\ Goto(t, "release", "read")
  /\ owner' = NoThread
  /\ UNCHANGED <<mutex, locals, shared>>

Thread(t) ==
  \/ Open(t) \/ ReadLine(t) \/ Lock(t) \/ TakeFutex(t) \/ CountIn(t) \/ Check(t)
  \/ Load(t) \/ Store(t) \/ Write(t) \/ Unlock(t) \/ GiveFutex(t)

Next == CreateThread \/ Join \/ Destroy \/ \E t \in Threads : Thread(t)

\* The scheduler runs main and every thread.  Nothing is assumed of who gets the mutex first.
Fairness ==
  /\ WF_vars(CreateThread \/ Join \/ Destroy)
  /\ \A t \in Threads : WF_vars(Thread(t))

Spec == Init /\ [][Next]_vars /\ Fairness
-----------------------------------------------------------------------------
(* Properties. *)

TypeOK ==
  /\ main \in {"create", "join", "destroy", "gone", "hung"} /\ next \in Threads
  /\ handle \in Threads \cup {NoThread}
  /\ process \in {"runs", "exited", "crashed", "undefined"}
  /\ mutex \in {"valid", "destroyed"} /\ owner \in Threads \cup {NoThread}
  /\ pc \in [Threads -> Places]
  /\ thread_id \in [Threads -> Threads \cup {NoThread}]
  /\ line \in [Threads -> 0..Lines] /\ loaded \in [Threads -> Nat]
  /\ count \in Nat /\ data \in [Indices -> Entry \cup {Empty}]

(* As long as the mutex exists data is not overrun.  After that the threads nobody has   *)
(* joined, all but one, may each find room for the same last place: with two of     *)
(* them data is overrun by one.  (Of three that nobody has joined one could store an old *)
(* count and so make room for the others again, and the overrun would grow with the      *)
(* file.)                                                                                *)
BoundedOverrun ==
  LET extra == IF mutex = "destroyed" /\ MAX_THREADS = 3 THEN 1 ELSE 0 IN
  /\ count <= MAX_SIZE + extra
  /\ \A t \in Threads : pc[t] \in {"store", "write"} => loaded[t] < MAX_SIZE + extra
  /\ process = "undefined" => mutex = "destroyed"

(* As long as the mutex exists no entry is lost: the places up to count are filled, but  *)
(* for one that is being written, and a thread's lines are in the order of the file,     *)
(* each at most once.                                                                    *)
EntriesInOrder ==
  mutex = "valid" =>
    /\ \A k \in 0..(count - 1) : data[k] # Empty \/ \E t \in Threads : pc[t] = "write" /\ loaded[t] = k
    /\ \A j, k \in 0..(count - 1) :
         j < k /\ data[j] # Empty /\ data[j].by = data[k].by => data[j].line < data[k].line

(* Who has the futex gives it back, as long as the mutex is one when it unlocks it.      *)
GivesBack(t) ==
  \/ pc[t] = "release"
  \/ mutex = "valid" /\ pc[t] \in {"taken", "check", "load", "store", "write", "unlock"}

(* A thread sleeps for ever on the mutex only if main has destroyed it, between the futex *)
(* and the count of another thread or while both were still waiting for the futex; and   *)
(* since main has joined one thread, or one was not created, that is one thread at most. *)
OneLeftAsleep ==
  owner # NoThread /\ ~GivesBack(owner) =>
    \A t \in Threads : pc[t] = "wait" =>
      /\ mutex = "destroyed" /\ MAX_THREADS = 3
      /\ \A u \in Threads \ {t} : pc[u] # "wait"

(* Unless the process is ended before, every thread that was created reads the file to   *)
(* its end, also when there is no room left; but for one that sleeps on the mutex that   *)
(* main has destroyed.  Main gets to its end unless it hangs in a join.                  *)
ReadAll(t) ==
  \/ pc[t] \in {"none", "done"}
  \/ pc[t] = "wait" /\ mutex = "destroyed" /\ owner # NoThread /\ pc[owner] = "done"
AllRead ==
  <>(process # "runs" \/ (main \in {"gone", "hung"} /\ \A t \in Threads : ReadAll(t)))
===============================================================================
