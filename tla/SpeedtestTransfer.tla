-------------------------- MODULE SpeedtestTransfer --------------------------
(***************************************************************************)
(* The transfer engine of 8_Mini-project: the part of run_proc that runs   *)
(* once a server is chosen, speedtest_download, speedtest_upload, the      *)
(* worker threads they start (download_thread, upload_thread) and the two  *)
(* reporting threads (calculate_dl_speed_thread, calculate_ul_speed_thread)*)
(*                                                                         *)
(* Shared memory: the slot table thread[] (running, request_url), the flag *)
(* thread_all_stop, the byte counters under pthread_mutex.  No thread is   *)
(* ever joined or detached, so a finished one keeps its place among the    *)
(* threads the process may create: every member of Workers runs once.      *)
(***************************************************************************)
EXTENDS Naturals

CONSTANTS
  Workers,          \* the transfer threads the process can create before pthread_create fails
  Reporters,        \* the directions whose reporting thread can be created
  ThreadNums,       \* num_threads, the -t option
  THREAD_NUMBER,    \* length of thread[]
  Sizes,            \* what one successful send or recv may transfer
  UL_BUFFER_TIMES,  \* buffers an upload sends after its header
  DL_RECVS,         \* bound: recv calls of one download that return data
  NoWorker          \* the mutex is free

ASSUME TransferAssumption ==
  /\ THREAD_NUMBER \in Nat
  /\ ThreadNums \in 0..THREAD_NUMBER   \* main.c passes atoi(optarg) unchecked
  /\ Sizes \subseteq Nat \ {0}
  /\ UL_BUFFER_TIMES \in Nat \ {0}
  /\ DL_RECVS \in Nat
  /\ NoWorker \notin Workers
  /\ Reporters \subseteq {"dl", "ul"}

Slots == 0..(ThreadNums - 1)
Kinds == {"dl", "ul"}

VARIABLES
  main,      \* where the main thread is in run_proc and in the two loops; "killed" with
             \* the whole process by SIGPIPE
  phase,     \* which of the two loops it is in
  cursor,    \* the loop's i
  stop,      \* thread_all_stop, 0 or 1
  running,   \* the slots whose thread[i].running is 1
  url,       \* thread[i].request_url: "none" or whose request it is; "torn" amid a memcpy
  pc,        \* where each worker is
  slot,      \* thread_index of each worker
  kind,      \* "dl" runs download_thread, "ul" upload_thread
  asked,     \* the request_url it put in its request
  rounds,    \* recvs or buffers done so far
  got,       \* size or recv_byte waiting to be counted
  tmp,       \* total_xx_size as loaded by += under the mutex
  mutex,     \* pthread_mutex
  total,     \* total_dl_size, total_ul_size
  calc,      \* where the two reporting threads are
  reported,  \* the total in the speed each has computed: total/duration
  seen,      \* history: the total when the time for the speed being computed was read
  counted,   \* history: the bytes the workers meant to add to each total
  late,      \* history: what each worker counted while stop was raised
  atStop     \* history: the phase's total when its stop was raised

mainVars   == <<main, phase, cursor, stop, atStop>>
slotVars   == <<running, url>>
localVars  == <<slot, kind, asked, rounds>>
countVars  == <<got, tmp, mutex, total, counted, late>>
calcVars   == <<calc, reported, seen>>
vars == <<mainVars, slotVars, pc, localVars, countVars, calcVars>>

MainStates   == {"launch", "clock", "copy", "fill", "sleep", "exit", "killed"}
Live         == {"connect", "io", "lock", "add", "check", "drain", "close"}
WorkerStates == {"unborn", "done"} \cup Live
CalcStates   == {"none", "clock", "figure", "poll", "last_clock", "last_figure", "done"}

LiveOn(i) == {w \in Workers : pc[w] \in Live /\ slot[w] = i}

Init ==
  /\ main = "launch" /\ phase = "dl" /\ cursor = 0
  /\ stop = 0
  /\ running = {}
  /\ url     = [i \in Slots |-> "none"]
  /\ pc      = [w \in Workers |-> "unborn"]
  /\ slot    = [w \in Workers |-> 0]
  /\ kind    = [w \in Workers |-> "dl"]
  /\ asked   = [w \in Workers |-> "none"]
  /\ rounds  = [w \in Workers |-> 0]
  /\ got     = [w \in Workers |-> 0]
  /\ tmp     = [w \in Workers |-> 0]
  /\ mutex   = NoWorker
  /\ total    = [k \in Kinds |-> 0]
  /\ counted  = [k \in Kinds |-> 0]
  /\ atStop   = [k \in Kinds |-> 0]
  /\ calc     = [k \in Kinds |-> "none"]
  /\ reported = [k \in Kinds |-> 0]
  /\ seen     = [k \in Kinds |-> 0]
  /\ late     = [w \in Workers |-> 0]

-----------------------------------------------------------------------------
(* The main thread. *)

\* A pthread_create whose result nobody looks at: it may fail once all Workers are used.
NoThreadLeft == \A w \in Workers : pc[w] # "unborn"

LaunchPhase ==
  /\ main = "launch"
  /\ \/ phase \in Reporters /\ calc' = [calc EXCEPT ![phase] = "clock"]
     \/ (phase \notin Reporters \/ NoThreadLeft) /\ UNCHANGED calc
  /\ main' = "clock"
  /\ UNCHANGED <<phase, cursor, stop, atStop, slotVars, pc, localVars, countVars, reported, seen>>

\* time_used > SPEEDTEST_DURATION.  clock() is the CPU time of the process, which the
\* loop itself burns.
TimeUp ==
  /\ main = "clock"
  /\ stop' = 1
  /\ atStop' = [atStop EXCEPT ![phase] = total[phase]]
  /\ cursor' = 0
  /\ main' = "copy"
  /\ UNCHANGED <<phase, slotVars, pc, localVars, countVars, calcVars>>

TimeLeft ==
  /\ main = "clock"
  /\ cursor' = 0
  /\ main' = "copy"
  /\ UNCHANGED <<phase, stop, atStop, slotVars, pc, localVars, countVars, calcVars>>

SlotsLeft == cursor < ThreadNums

\* The memcpy into thread[i].request_url: a reader that overlaps it sees a mixture,
\* unless the bytes do not change.
CopyRequest ==
  /\ main = "copy"
  /\ SlotsLeft
  /\ url' = [url EXCEPT ![cursor] = IF @ = phase THEN @ ELSE "torn"]
  /\ main' = "fill"
  /\ UNCHANGED <<phase, cursor, stop, atStop, running, pc, localVars, countVars, calcVars>>

\* Fault: the upload's loop starts download_thread.
FaultStartDownload(i, w) ==
  /\ pc[w] = "unborn"
  /\ pc'   = [pc EXCEPT ![w] = "connect"]
  /\ slot' = [slot EXCEPT ![w] = i]
  /\ kind' = [kind EXCEPT ![w] = "dl"]

StartWorker(i, w) ==
  /\ pc[w] = "unborn"
  /\ pc'   = [pc EXCEPT ![w] = "connect"]
  /\ slot' = [slot EXCEPT ![w] = i]
  /\ kind' = [kind EXCEPT ![w] = phase]

\* Faults: running is not looked at; the upload fills in the download's request.
FaultSlotUnchecked == TRUE
FaultDownloadUrl(i) == [url EXCEPT ![i] = "dl"]

SlotFree == cursor \notin running
Filled(i) == [url EXCEPT ![i] = phase]

FillSlot ==
  /\ main = "fill"
  /\ url' = Filled(cursor)
  /\ running' = running \cup {cursor}
  /\ \/ cursor \in running /\ UNCHANGED <<pc, slot, kind>>
     \/ SlotFree /\ \E w \in Workers : StartWorker(cursor, w)
     \/ SlotFree /\ NoThreadLeft /\ UNCHANGED <<pc, slot, kind>>
  /\ cursor' = cursor + 1
  /\ main' = "copy"
  /\ UNCHANGED <<phase, stop, atStop, asked, rounds, countVars, calcVars>>

\* Fault: the main thread waits for the transfers.
FaultWaitForWorkers ==
  /\ main = "copy"
  /\ ~SlotsLeft
  /\ main' = IF stop = 1 /\ running = {} THEN "sleep" ELSE "clock"
  /\ UNCHANGED <<phase, cursor, stop, atStop, slotVars, pc, localVars, countVars, calcVars>>

EndOfPass ==
  /\ main = "copy"
  /\ ~SlotsLeft
  /\ main' = IF stop = 1 THEN "sleep" ELSE "clock"
  /\ UNCHANGED <<phase, cursor, stop, atStop, slotVars, pc, localVars, countVars, calcVars>>

\* After the download's sleep(1) the flag is lowered, whoever has not seen it yet.
NextPhase ==
  /\ main = "sleep"
  /\ phase = "dl"
  /\ phase' = "ul"
  /\ stop' = 0
  /\ late' = [w \in Workers |-> 0]
  /\ main' = "launch"
  /\ UNCHANGED <<cursor, atStop, slotVars, pc, localVars,
                 got, tmp, mutex, total, counted, calcVars>>

\* run_proc and main return: the process ends, and every thread with it.
Exit ==
  /\ main = "sleep"
  /\ phase = "ul"
  /\ main' = "exit"
  /\ UNCHANGED <<phase, cursor, stop, atStop, slotVars, pc, localVars, countVars, calcVars>>

Main == LaunchPhase \/ TimeUp \/ TimeLeft \/ CopyRequest \/ FillSlot \/ EndOfPass \/ NextPhase \/ Exit
-----------------------------------------------------------------------------
(* The workers. *)

\* Every thread ends with the process.
ProcessRuns == main \notin {"exit", "killed"}

Goto(w, from, to) == ProcessRuns /\ pc[w] = from /\ pc' = [pc EXCEPT ![w] = to]

\* connect, then the request or header built from thread[i] as it is by then; an upload
\* counts its header.
SendRequest(w) ==
  /\ asked' = [asked EXCEPT ![w] = url[slot[w]]]
  /\ \/ kind[w] = "dl" /\ Goto(w, "connect", "io") /\ UNCHANGED got
     \/ /\ kind[w] = "ul" /\ Goto(w, "connect", "lock")
        /\ \E n \in Sizes : got' = [got EXCEPT ![w] = n]
  /\ UNCHANGED <<mainVars, slotVars, slot, kind, rounds, tmp, mutex, total, counted, late, calcVars>>

ConnectFails(w) ==                         \* socket, connect or the first send
  /\ Goto(w, "connect", "close")
  /\ UNCHANGED <<mainVars, slotVars, localVars, countVars, calcVars>>

\* A send on a connection that the server has closed: nothing asks for MSG_NOSIGNAL and no
\* handler is set, so SIGPIPE kills the process.
BrokenPipe(w) ==
  /\ ProcessRuns
  /\ \/ pc[w] = "connect"
     \/ pc[w] = "io" /\ kind[w] = "ul" /\ rounds[w] < UL_BUFFER_TIMES
  /\ main' = "killed"
  /\ UNCHANGED <<phase, cursor, stop, atStop, slotVars, pc, localVars, countVars, calcVars>>

\* One turn of select and recv.  recv is called whatever select said, and blocks: what
\* arrives after the 3 s timeout is taken from the socket and neither counted nor
\* followed by a look at thread_all_stop.
Receive(w) ==
  /\ kind[w] = "dl"
  /\ rounds[w] < DL_RECVS
  /\ rounds' = [rounds EXCEPT ![w] = @ + 1]
  /\ \/ /\ Goto(w, "io", "lock")
        /\ \E n \in Sizes : got' = [got EXCEPT ![w] = n]
     \/ Goto(w, "io", "io") /\ UNCHANGED got
  /\ UNCHANGED <<mainVars, slotVars, slot, kind, asked, tmp, mutex, total, counted, late, calcVars>>

EndOfResponse(w) ==                        \* recv returned 0 or an error
  /\ \/ kind[w] = "dl" /\ Goto(w, "io", "close")
     \/ Goto(w, "drain", "close")
  /\ UNCHANGED <<mainVars, slotVars, localVars, countVars, calcVars>>

SendBuffer(w) ==
  /\ kind[w] = "ul"
  /\ rounds[w] < UL_BUFFER_TIMES
  /\ \/ /\ Goto(w, "io", "lock")
        /\ rounds' = [rounds EXCEPT ![w] = @ + 1]
        /\ \E n \in Sizes : got' = [got EXCEPT ![w] = n]
     \/ Goto(w, "io", "close") /\ UNCHANGED <<rounds, got>>  \* short or failed send
  /\ UNCHANGED <<mainVars, slotVars, slot, kind, asked, tmp, mutex, total, counted, late, calcVars>>

AllSent(w) ==
  /\ kind[w] = "ul"
  /\ rounds[w] = UL_BUFFER_TIMES
  /\ Goto(w, "io", "drain")
  /\ UNCHANGED <<mainVars, slotVars, localVars, countVars, calcVars>>

\* Fault: the mutex is left out.
FaultNoMutex == TRUE

MutexFree == mutex = NoWorker

\* total_xx_size += n, between pthread_mutex_lock and pthread_mutex_unlock.
Lock(w) ==
  /\ MutexFree
  /\ Goto(w, "lock", "add")
  /\ mutex' = w
  /\ tmp' = [tmp EXCEPT ![w] = total[kind[w]]]
  /\ UNCHANGED <<mainVars, slotVars, localVars, got, total, counted, late, calcVars>>

HeaderJustCounted(w) == kind[w] = "ul" /\ rounds[w] = 0

Add(w) ==
  /\ Goto(w, "add", IF HeaderJustCounted(w) THEN "io" ELSE "check")
  /\ total'   = [total EXCEPT ![kind[w]] = tmp[w] + got[w]]
  /\ counted' = [counted EXCEPT ![kind[w]] = @ + got[w]]
  /\ late'    = IF stop = 1 THEN [late EXCEPT ![w] = @ + 1] ELSE late
  /\ got'     = [got EXCEPT ![w] = 0]
  /\ tmp'     = [tmp EXCEPT ![w] = 0]
  /\ mutex' = NoWorker
  /\ UNCHANGED <<mainVars, slotVars, localVars, calcVars>>

\* Fault: nobody looks at thread_all_stop.
FaultNoCheck(w) ==
  /\ Goto(w, "check", "io")
  /\ UNCHANGED <<mainVars, slotVars, localVars, countVars, calcVars>>

CheckStop(w) ==
  /\ Goto(w, "check", IF stop = 1 THEN "close" ELSE "io")
  /\ UNCHANGED <<mainVars, slotVars, localVars, countVars, calcVars>>

\* Fault: an error path returns without clearing running.
FaultKeepSlot(i) == running

Release(i) == running \ {i}

\* running is cleared and the thread returns, its stack with it.
Finish(w) ==
  /\ Goto(w, "close", "done")
  /\ running' = Release(slot[w])
  /\ slot'   = [slot EXCEPT ![w] = 0]
  /\ kind'   = [kind EXCEPT ![w] = "dl"]
  /\ asked'  = [asked EXCEPT ![w] = "none"]
  /\ rounds' = [rounds EXCEPT ![w] = 0]
  /\ late'   = [late EXCEPT ![w] = 0]
  /\ UNCHANGED <<mainVars, url, got, tmp, mutex, total, counted, calcVars>>

Worker(w) ==
  \/ SendRequest(w) \/ ConnectFails(w) \/ BrokenPipe(w) \/ Receive(w) \/ EndOfResponse(w)
  \/ SendBuffer(w) \/ AllSent(w) \/ Lock(w) \/ Add(w) \/ CheckStop(w) \/ Finish(w)
-----------------------------------------------------------------------------
(* The reporting threads read the clock, then the total, without the mutex.  *)

CalcGoto(k, from, to) ==
  /\ ProcessRuns /\ calc[k] = from /\ calc' = [calc EXCEPT ![k] = to]
  /\ UNCHANGED <<mainVars, slotVars, pc, localVars, countVars>>

ReadTime(k)  == seen' = [seen EXCEPT ![k] = total[k]] /\ reported' = reported
ReadTotal(k) == reported' = [reported EXCEPT ![k] = total[k]] /\ seen' = [seen EXCEPT ![k] = 0]

\* Fault: the total is read first, then the clock.
FaultTotalFirst(k) ==
  \/ CalcGoto(k, "clock", "figure") /\ ReadTotal(k)
  \/ CalcGoto(k, "figure", "poll") /\ ReadTime(k)
  \/ CalcGoto(k, "last_clock", "last_figure") /\ ReadTotal(k)
  \/ CalcGoto(k, "last_figure", "done") /\ ReadTime(k)

Figure(k) ==
  \/ CalcGoto(k, "clock", "figure") /\ ReadTime(k)
  \/ CalcGoto(k, "figure", "poll") /\ ReadTotal(k)
  \/ CalcGoto(k, "last_clock", "last_figure") /\ ReadTime(k)
  \/ CalcGoto(k, "last_figure", "done") /\ ReadTotal(k)

\* Fault: the last figure is not computed anew.
FaultPollKeepsFigure(k) ==
  /\ CalcGoto(k, "poll", IF stop = 1 THEN "done" ELSE "clock")
  /\ UNCHANGED <<reported, seen>>

\* The figure has been printed, and is computed anew.
Poll(k) ==
  /\ CalcGoto(k, "poll", IF stop = 1 THEN "last_clock" ELSE "clock")
  /\ reported' = [reported EXCEPT ![k] = 0]
  /\ UNCHANGED seen

Terminated == ~ProcessRuns /\ UNCHANGED vars

Next ==
  \/ Main
  \/ \E w \in Workers : Worker(w)
  \/ \E k \in Kinds : Figure(k) \/ Poll(k)
  \/ Terminated

\* The scheduler runs the main thread, which never blocks, and its CPU time runs out.
\* Nothing is assumed of the workers: a server may keep them blocked in recv for ever.
Fairness == WF_vars(Main) /\ SF_vars(TimeUp)

Spec     == Init /\ [][Next]_vars
FairSpec == Spec /\ Fairness
-----------------------------------------------------------------------------
(* Properties. *)

TypeOK ==
  /\ main \in MainStates /\ phase \in Kinds /\ cursor \in 0..ThreadNums
  /\ stop \in {0, 1}
  /\ running \subseteq Slots
  /\ url \in [Slots -> {"none", "torn"} \cup Kinds]
  /\ pc \in [Workers -> WorkerStates]
  /\ slot \in [Workers -> Nat]
  /\ kind \in [Workers -> Kinds]
  /\ asked \in [Workers -> {"none", "torn"} \cup Kinds]
  /\ rounds \in [Workers -> Nat]
  /\ got \in [Workers -> Nat] /\ tmp \in [Workers -> Nat]
  /\ mutex \in Workers \cup {NoWorker}
  /\ total \in [Kinds -> Nat] /\ counted \in [Kinds -> Nat] /\ atStop \in [Kinds -> Nat]
  /\ calc \in [Kinds -> CalcStates]
  /\ reported \in [Kinds -> Nat] /\ seen \in [Kinds -> Nat]
  /\ late \in [Workers -> Nat]

(* A slot of thread[] is handed to a new thread only when its last one is out of it, so *)
(* two transfers never share one; and a slot marked running carries a transfer, unless  *)
(* pthread_create failed (its result is not looked at, and the slot is lost).           *)
SlotExclusive ==
  /\ \A w \in Workers : pc[w] \in Live => slot[w] \in running
  /\ \A v, w \in Workers : pc[v] \in Live /\ pc[w] \in Live /\ slot[v] = slot[w] => v = w
SlotAlive ==
  \A i \in running : LiveOn(i) # {} \/ NoThreadLeft

(* No += on a total is lost, whatever the interleaving of the threads. *)
NoLostBytes == \A k \in Kinds : total[k] = counted[k]

(* Once thread_all_stop is raised, a download counts at most one more recv, and an      *)
(* upload at most two more sends (nothing looks at the flag after the header).          *)
BoundedOvershoot ==
  \A w \in Workers : late[w] <= IF kind[w] = "dl" THEN 1 ELSE 2

(* Every request is the one the thread was made for, but for a download still on its    *)
(* way to its request when the upload rewrites its slot.                                *)
OwnRequest ==
  \A w \in Workers :
    asked[w] \notin {"none", kind[w]} => kind[w] = "dl" /\ phase = "ul"

(* The last figure of a direction is at least what was counted when its time was up. *)
FinalReportComplete ==
  \A k \in Kinds : calc[k] = "done" => reported[k] >= atStop[k]

(* A speed is total/duration, of a time and a total that are read one after the other.   *)
(* It leaves out no byte that was counted before its time: the total it is computed from *)
(* is not older than its time.                                                           *)
FigureNotBehind ==
  [][\A k \in Kinds :
       calc[k] \in {"figure", "last_figure"} /\ calc'[k] \in {"poll", "done"} =>
         \A time \in {seen[k], seen'[k]} : reported'[k] >= time]_vars

(* The measurement ends even if every server hangs: the main thread waits for nobody.    *)
(* A server that closes its connection may end the whole process.                        *)
Termination == <>(main \in {"exit", "killed"})

(* The abstract view: the jobs are the live threads. *)
job == [i \in Slots |-> IF LiveOn(i) = {} THEN "idle"
                        ELSE kind[CHOOSE w \in Workers : w \in LiveOn(i)]]
open == IF main = "exit" THEN "over" ELSE phase

Pool == INSTANCE TransferPool WITH bytes <- total

(* The engine implements the pool of transfers that TransferPool promises. *)
ImplementsPool == Pool!Spec
=============================================================================
