----------------------- MODULE SpeedtestTransferProofs -----------------------
(* Theorems about the transfer engine, for any number of threads and slots. *)
EXTENDS SpeedtestTransfer, TLAPS

USE DEF SlotsLeft, SlotFree, Filled, MutexFree, Release, ProcessRuns

(***************************************************************************)
(* Types.  The loop writes thread[i] only for i < num_threads, and a live  *)
(* thread works on a slot of the table.                                    *)
(***************************************************************************)
CursorInTable == main = "fill" => cursor \in Slots
LiveInTable   == \A w \in Workers : pc[w] \in Live => slot[w] \in Slots

TypeInv == TypeOK /\ CursorInTable /\ LiveInTable

LEMMA SlotRange == \A i : i \in Slots <=> i \in Nat /\ i < ThreadNums
  BY TransferAssumption, SMT DEF Slots

LEMMA TypeInit == Init => TypeInv
  BY TransferAssumption, SMT
     DEF Init, TypeInv, TypeOK, CursorInTable, LiveInTable, Live, WorkerStates,
         MainStates, CalcStates, Kinds, Slots

LEMMA TypeNext == TypeInv /\ [Next]_vars => TypeInv'
<1> SUFFICES ASSUME TypeInv, [Next]_vars PROVE TypeInv'
  OBVIOUS
<1> USE TransferAssumption
    DEF TypeInv, TypeOK, CursorInTable, LiveInTable, Live, WorkerStates,
        MainStates, CalcStates, Kinds, Goto, StartWorker,
        mainVars, slotVars, localVars, countVars, calcVars
<1>1. CASE LaunchPhase
  BY <1>1, SMT DEF LaunchPhase
<1>2. CASE TimeUp
  BY <1>2, SMT DEF TimeUp
<1>3. CASE TimeLeft
  BY <1>3, SMT DEF TimeLeft
<1>4. CASE CopyRequest
  BY <1>4, SlotRange, SMT DEF CopyRequest
<1>5. CASE FillSlot
  BY <1>5, SlotRange, SMT DEF FillSlot
<1>6. CASE EndOfPass
  BY <1>6, SMT DEF EndOfPass
<1>7. CASE NextPhase
  BY <1>7, SMT DEF NextPhase
<1>8. CASE Exit
  BY <1>8, SMT DEF Exit
<1>9. ASSUME NEW w \in Workers, Worker(w) PROVE TypeInv'
  <2>1. CASE SendRequest(w)
    BY <2>1, SMT DEF SendRequest
  <2>2. CASE ConnectFails(w)
    BY <2>2, SMT DEF ConnectFails
  <2>3. CASE Receive(w)
    BY <2>3, SMT DEF Receive
  <2>4. CASE EndOfResponse(w)
    BY <2>4, SMT DEF EndOfResponse
  <2>5. CASE SendBuffer(w)
    BY <2>5, SMT DEF SendBuffer
  <2>6. CASE AllSent(w)
    BY <2>6, SMT DEF AllSent
  <2>7. CASE Lock(w)
    BY <2>7, SMT DEF Lock
  <2>8. CASE Add(w)
    BY <2>8, SMT DEF Add, HeaderJustCounted
  <2>9. CASE CheckStop(w)
    BY <2>9, SMT DEF CheckStop
  <2>10. CASE Finish(w)
    BY <2>10, SMT DEF Finish
  <2>11. CASE BrokenPipe(w)
    BY <2>11, SMT DEF BrokenPipe
  <2> QED
    BY <1>9, <2>1, <2>2, <2>3, <2>4, <2>5, <2>6, <2>7, <2>8, <2>9, <2>10, <2>11 DEF Worker
<1>10. ASSUME NEW k \in Kinds, Figure(k) \/ Poll(k) PROVE TypeInv'
  BY <1>10, SMT DEF Figure, CalcGoto, ReadTime, ReadTotal, Poll
<1>11. CASE UNCHANGED vars
  BY <1>11, SMT DEF vars
<1> QED
  BY <1>1, <1>2, <1>3, <1>4, <1>5, <1>6, <1>7, <1>8, <1>9, <1>10, <1>11
     DEF Next, Main, Terminated

(* Every variable keeps its type, and a live thread works on a slot of the table. *)
THEOREM Typing == Spec => []TypeInv
  BY TypeInit, TypeNext, PTL DEF Spec

(***************************************************************************)
(* Slots.  thread[i].running is raised before the thread exists and lowered *)
(* by its last step, so a slot found at 0 has no thread left on it.         *)
(***************************************************************************)
LEMMA ExclusiveInit == Init => SlotExclusive
  BY SMT DEF Init, SlotExclusive, Live

LEMMA ExclusiveNext == TypeInv /\ SlotExclusive /\ [Next]_vars => SlotExclusive'
<1> SUFFICES ASSUME TypeInv, SlotExclusive, [Next]_vars PROVE SlotExclusive'
  OBVIOUS
<1> USE DEF TypeInv, TypeOK, SlotExclusive, WorkerStates, Live,
        mainVars, slotVars, localVars, countVars, calcVars
<1>1. CASE FillSlot
  \* The slot is either in use, and stays so, or free of live threads.
  <2>1. running \subseteq running'
    BY <1>1 DEF FillSlot
  <2>2. CASE UNCHANGED <<pc, slot, kind>>
    BY <2>1, <2>2
  <2>3. CASE SlotFree /\ \E w \in Workers : StartWorker(cursor, w)
    <3>1. PICK w \in Workers : StartWorker(cursor, w)
      BY <2>3
    <3>2. /\ slot'[w] = cursor /\ cursor \in running'
          /\ \A v \in Workers : v # w => pc'[v] = pc[v] /\ slot'[v] = slot[v]
      BY <1>1, <3>1, SMT DEF FillSlot, StartWorker
    <3>3. \A v \in Workers : v # w /\ pc'[v] \in Live => slot'[v] # cursor
      BY <2>3, <3>2
    <3> QED BY <2>1, <3>2, <3>3
  <2> QED BY <1>1, <2>2, <2>3 DEF FillSlot
<1>2. CASE LaunchPhase \/ TimeUp \/ TimeLeft \/ CopyRequest \/ EndOfPass \/ NextPhase \/ Exit
  BY <1>2, SMT DEF LaunchPhase, TimeUp, TimeLeft, CopyRequest, EndOfPass, NextPhase, Exit
<1>3. ASSUME NEW w \in Workers, Worker(w) PROVE SlotExclusive'
  <2>1. CASE Finish(w)
    \* No other live thread is on the slot that is released.
    BY <2>1, SMT DEF Finish, Goto
  <2>2. CASE SendRequest(w) \/ ConnectFails(w) \/ BrokenPipe(w) \/ EndOfResponse(w)
            \/ AllSent(w) \/ CheckStop(w)
    BY <2>2, SMT DEF SendRequest, ConnectFails, BrokenPipe, EndOfResponse, AllSent, CheckStop, Goto
  <2>3. CASE Receive(w) \/ SendBuffer(w) \/ Lock(w) \/ Add(w)
    BY <2>3, SMT DEF Receive, SendBuffer, Lock, Add, Goto
  <2> QED
    BY <1>3, <2>1, <2>2, <2>3 DEF Worker
<1>4. ASSUME NEW k \in Kinds, Figure(k) \/ Poll(k) PROVE SlotExclusive'
  BY <1>4, SMT DEF Figure, CalcGoto, ReadTime, ReadTotal, Poll
<1>5. CASE UNCHANGED vars
  BY <1>5, SMT DEF vars
<1> QED
  BY <1>1, <1>2, <1>3, <1>4, <1>5 DEF Next, Main, Terminated

(* Two transfers never share a slot of thread[]. *)
THEOREM Exclusive == Spec => []SlotExclusive
  BY Typing, ExclusiveInit, ExclusiveNext, PTL DEF Spec

(***************************************************************************)
(* Bytes.  Between lock and unlock the total does not move under its       *)
(* reader, so the sum that is written back loses nothing.                  *)
(***************************************************************************)
HolderAdds == \A w \in Workers : pc[w] = "add" => mutex = w /\ tmp[w] = total[kind[w]]

CountInv == HolderAdds /\ NoLostBytes

LEMMA CountInit == Init => CountInv
  BY SMT DEF Init, CountInv, HolderAdds, NoLostBytes, Kinds

LEMMA CountNext == TypeInv /\ CountInv /\ [Next]_vars => CountInv'
<1> SUFFICES ASSUME TypeInv, CountInv, [Next]_vars PROVE CountInv'
  OBVIOUS
<1> USE TransferAssumption
    DEF TypeInv, TypeOK, CountInv, HolderAdds, NoLostBytes, WorkerStates, Live,
        mainVars, slotVars, localVars, countVars, calcVars
<1>1. CASE Main
  BY <1>1, SMT DEF Main, LaunchPhase, TimeUp, TimeLeft, CopyRequest, FillSlot, StartWorker,
                   EndOfPass, NextPhase, Exit
<1>2. ASSUME NEW w \in Workers, Worker(w) PROVE CountInv'
  <2>1. CASE Lock(w)
    BY <2>1, SMT DEF Lock, Goto
  <2>2. CASE Add(w)
    <3>1. \A v \in Workers : pc'[v] = "add" => v = w
      BY <2>2, SMT DEF Add, Goto, HeaderJustCounted
    <3>2. pc'[w] # "add"
      BY <2>2, SMT DEF Add, Goto, HeaderJustCounted
    <3>3. total'[kind[w]] = counted'[kind[w]]
      BY <2>2, SMT DEF Add, Goto
    <3> QED
      BY <2>2, <3>1, <3>2, <3>3, SMT DEF Add
  <2>3. CASE SendRequest(w) \/ ConnectFails(w) \/ BrokenPipe(w) \/ EndOfResponse(w)
            \/ AllSent(w) \/ CheckStop(w)
    BY <2>3, SMT DEF SendRequest, ConnectFails, BrokenPipe, EndOfResponse, AllSent, CheckStop, Goto
  <2>4. CASE Receive(w) \/ SendBuffer(w) \/ Finish(w)
    BY <2>4, SMT DEF Receive, SendBuffer, Finish, Goto
  <2> QED
    BY <1>2, <2>1, <2>2, <2>3, <2>4 DEF Worker
<1>3. ASSUME NEW k \in Kinds, Figure(k) \/ Poll(k) PROVE CountInv'
  BY <1>3, SMT DEF Figure, CalcGoto, ReadTime, ReadTotal, Poll
<1>4. CASE UNCHANGED vars
  BY <1>4, SMT DEF vars
<1> QED
  BY <1>1, <1>2, <1>3, <1>4 DEF Next, Terminated

(* No += on total_dl_size or total_ul_size is lost. *)
THEOREM Counting == Spec => []NoLostBytes
<1>1. Spec => []CountInv
  BY Typing, CountInit, CountNext, PTL DEF Spec
<1>2. CountInv => NoLostBytes
  BY DEF CountInv
<1> QED
  BY <1>1, <1>2, PTL

(***************************************************************************)
(* The stop flag.  A thread that counts while the flag is up meets the     *)
(* check next, but for the header of an upload, which a buffer follows.    *)
(***************************************************************************)
LateInv ==
  \A w \in Workers :
    \/ late[w] = 0
    \/ /\ stop = 1
       /\ \/ late[w] = 1 /\ pc[w] \in {"check", "close"}
          \/ kind[w] = "ul" /\ late[w] = 1 /\ pc[w] = "io" /\ rounds[w] = 0
          \/ kind[w] = "ul" /\ late[w] = 1 /\ pc[w] \in {"lock", "add"} /\ rounds[w] = 1
          \/ kind[w] = "ul" /\ late[w] = 2 /\ pc[w] \in {"check", "close"}

LEMMA LateInit == Init => LateInv
  BY Zenon DEF Init, LateInv

LEMMA LateNext == TypeInv /\ LateInv /\ [Next]_vars => LateInv'
<1> SUFFICES ASSUME TypeInv, LateInv, [Next]_vars PROVE LateInv'
  OBVIOUS
<1> USE TransferAssumption
    DEF TypeInv, TypeOK, LateInv, WorkerStates, Live, Kinds,
        mainVars, slotVars, localVars, countVars, calcVars
<1>1. CASE Main
  BY <1>1, SMT DEF Main, LaunchPhase, TimeUp, TimeLeft, CopyRequest, FillSlot, StartWorker,
                   EndOfPass, NextPhase, Exit
<1>2. ASSUME NEW w \in Workers, Worker(w) PROVE LateInv'
  <2>1. CASE Add(w)
    BY <2>1, SMT DEF Add, Goto, HeaderJustCounted
  <2>2. CASE CheckStop(w)
    BY <2>2, SMT DEF CheckStop, Goto
  <2>3. CASE SendBuffer(w)
    BY <2>3, SMT DEF SendBuffer, Goto
  <2>4. CASE SendRequest(w) \/ ConnectFails(w) \/ BrokenPipe(w) \/ EndOfResponse(w)
    BY <2>4, SMT DEF SendRequest, ConnectFails, BrokenPipe, EndOfResponse, Goto
  <2>5. CASE AllSent(w) \/ Receive(w) \/ Lock(w) \/ Finish(w)
    BY <2>5, SMT DEF AllSent, Receive, Lock, Finish, Goto
  <2> QED
    BY <1>2, <2>1, <2>2, <2>3, <2>4, <2>5 DEF Worker
<1>3. ASSUME NEW k \in Kinds, Figure(k) \/ Poll(k) PROVE LateInv'
  BY <1>3, SMT DEF Figure, CalcGoto, ReadTime, ReadTotal, Poll
<1>4. CASE UNCHANGED vars
  BY <1>4, SMT DEF vars
<1> QED
  BY <1>1, <1>2, <1>3, <1>4 DEF Next, Terminated

(* Once the flag is up a download counts at most one more time, an upload at most twice. *)
THEOREM Overshoot == Spec => []BoundedOvershoot
<1>1. Spec => []LateInv
  BY Typing, LateInit, LateNext, PTL DEF Spec
<1>2. TypeInv /\ LateInv => BoundedOvershoot
  <2> SUFFICES ASSUME LateInv, NEW w \in Workers
               PROVE late[w] <= IF kind[w] = "dl" THEN 1 ELSE 2
    BY DEF BoundedOvershoot
  <2>1. late[w] = 0 \/ late[w] = 1 \/ (kind[w] = "ul" /\ late[w] = 2)
    BY Zenon DEF LateInv
  <2> QED
    BY <2>1, SMT
<1> QED
  BY <1>1, <1>2, Typing, PTL

(***************************************************************************)
(* Slots, again: running is lowered only by the thread that held it, and   *)
(* raised for nothing only when pthread_create has failed.                 *)
(***************************************************************************)
LEMMA AliveNext == TypeInv /\ SlotExclusive /\ SlotAlive /\ [Next]_vars => SlotAlive'
<1> SUFFICES ASSUME TypeInv, SlotExclusive, SlotAlive, [Next]_vars PROVE SlotAlive'
  OBVIOUS
<1> USE DEF TypeInv, TypeOK, SlotExclusive, SlotAlive, LiveOn, NoThreadLeft, WorkerStates, Live,
        mainVars, slotVars, localVars, countVars, calcVars
<1>1. CASE FillSlot
  BY <1>1, SMT DEF FillSlot, StartWorker
<1>2. CASE LaunchPhase \/ TimeUp \/ TimeLeft \/ CopyRequest \/ EndOfPass \/ NextPhase \/ Exit
  BY <1>2, SMT DEF LaunchPhase, TimeUp, TimeLeft, CopyRequest, EndOfPass, NextPhase, Exit
<1>3. ASSUME NEW w \in Workers, Worker(w) PROVE SlotAlive'
  <2>1. CASE Finish(w)
    BY <2>1, SMT DEF Finish, Goto
  <2>2. CASE SendRequest(w) \/ ConnectFails(w) \/ BrokenPipe(w) \/ EndOfResponse(w)
            \/ AllSent(w) \/ CheckStop(w)
    BY <2>2, SMT DEF SendRequest, ConnectFails, BrokenPipe, EndOfResponse, AllSent, CheckStop, Goto
  <2>3. CASE Receive(w) \/ SendBuffer(w) \/ Lock(w) \/ Add(w)
    BY <2>3, SMT DEF Receive, SendBuffer, Lock, Add, Goto
  <2> QED
    BY <1>3, <2>1, <2>2, <2>3 DEF Worker
<1>4. ASSUME NEW k \in Kinds, Figure(k) \/ Poll(k) PROVE SlotAlive'
  BY <1>4, SMT DEF Figure, CalcGoto, ReadTime, ReadTotal, Poll
<1>5. CASE UNCHANGED vars
  BY <1>5, SMT DEF vars
<1> QED
  BY <1>1, <1>2, <1>3, <1>4, <1>5 DEF Next, Main, Terminated

(* A slot marked running carries a live thread, or the process is out of threads. *)
THEOREM Alive == Spec => []SlotAlive
<1>1. Init => SlotAlive
  BY DEF Init, SlotAlive
<1> QED
  BY <1>1, Typing, Exclusive, AliveNext, PTL DEF Spec

(***************************************************************************)
(* Requests.  A slot with a thread of the current phase holds that phase's *)
(* request, and writing it again changes no byte.                          *)
(***************************************************************************)
OwnUrl ==
  /\ \A w \in Workers : phase = "dl" => kind[w] = "dl"
  /\ \A w \in Workers : pc[w] \in Live /\ kind[w] = phase => url[slot[w]] = phase
  /\ \A w \in Workers : pc[w] = "unborn" => asked[w] = "none"

RequestInv == OwnUrl /\ OwnRequest

LEMMA RequestInit == Init => RequestInv
  BY SMT DEF Init, RequestInv, OwnUrl, OwnRequest, Live

LEMMA RequestNext == TypeInv /\ RequestInv /\ [Next]_vars => RequestInv'
<1> SUFFICES ASSUME TypeInv, RequestInv, [Next]_vars PROVE RequestInv'
  OBVIOUS
<1> USE DEF TypeInv, TypeOK, LiveInTable, CursorInTable, RequestInv, OwnUrl, OwnRequest,
        WorkerStates, Live, Kinds, mainVars, slotVars, localVars, countVars, calcVars
<1>1. CASE CopyRequest
  BY <1>1, SlotRange, SMT DEF CopyRequest
<1>2. CASE FillSlot
  BY <1>2, SlotRange, SMT DEF FillSlot, StartWorker
<1>3. CASE LaunchPhase \/ TimeUp \/ TimeLeft \/ EndOfPass \/ NextPhase \/ Exit
  BY <1>3, SMT DEF LaunchPhase, TimeUp, TimeLeft, EndOfPass, NextPhase, Exit
<1>4. ASSUME NEW w \in Workers, Worker(w) PROVE RequestInv'
  <2>1. CASE SendRequest(w)
    BY <2>1, SMT DEF SendRequest, Goto
  <2>2. CASE Finish(w)
    BY <2>2, SMT DEF Finish, Goto
  <2>3. CASE ConnectFails(w) \/ BrokenPipe(w) \/ EndOfResponse(w)
            \/ AllSent(w) \/ CheckStop(w)
    BY <2>3, SMT DEF ConnectFails, BrokenPipe, EndOfResponse, AllSent, CheckStop, Goto
  <2>4. CASE Receive(w) \/ SendBuffer(w) \/ Lock(w) \/ Add(w)
    BY <2>4, SMT DEF Receive, SendBuffer, Lock, Add, Goto
  <2> QED
    BY <1>4, <2>1, <2>2, <2>3, <2>4 DEF Worker
<1>5. ASSUME NEW k \in Kinds, Figure(k) \/ Poll(k) PROVE RequestInv'
  BY <1>5, SMT DEF Figure, CalcGoto, ReadTime, ReadTotal, Poll
<1>6. CASE UNCHANGED vars
  BY <1>6, SMT DEF vars
<1> QED
  BY <1>1, <1>2, <1>3, <1>4, <1>5, <1>6 DEF Next, Main, Terminated

(* Only a download that the upload phase overtook can send a request not its own. *)
THEOREM Requests == Spec => []OwnRequest
<1>1. Spec => []RequestInv
  BY Typing, RequestInit, RequestNext, PTL DEF Spec
<1>2. RequestInv => OwnRequest
  BY DEF RequestInv
<1> QED
  BY <1>1, <1>2, PTL

(***************************************************************************)
(* Reports.  A total only grows (HolderAdds), a report copies it, and a     *)
(* reporting thread ends only after its phase's stop.                      *)
(***************************************************************************)
TotalsGrow == \A k \in Kinds : total'[k] >= total[k]

LEMMA TotalsOnlyGrow == TypeInv /\ CountInv /\ [Next]_vars => TotalsGrow
<1> SUFFICES ASSUME TypeInv, CountInv, [Next]_vars, NEW k \in Kinds
             PROVE total'[k] >= total[k]
  BY DEF TotalsGrow
<1> USE DEF TypeInv, TypeOK, mainVars, slotVars, localVars, countVars, calcVars
<1>1. CASE Main
  BY <1>1, SMT DEF Main, LaunchPhase, TimeUp, TimeLeft, CopyRequest, FillSlot, StartWorker,
                   EndOfPass, NextPhase, Exit
<1>2. ASSUME NEW w \in Workers, Worker(w) PROVE total'[k] >= total[k]
  <2>1. CASE Add(w)
    BY <2>1, SMT DEF Add, Goto, CountInv, HolderAdds
  <2>2. CASE ~Add(w)
    BY <1>2, <2>2, SMT DEF Worker, SendRequest, ConnectFails, BrokenPipe, Receive, EndOfResponse,
       SendBuffer, AllSent, Lock, CheckStop, Finish
  <2> QED
    BY <2>1, <2>2
<1>3. ASSUME NEW j \in Kinds, Figure(j) \/ Poll(j) PROVE total'[k] >= total[k]
  BY <1>3, SMT DEF Figure, CalcGoto, ReadTime, ReadTotal, Poll
<1>4. CASE UNCHANGED vars
  BY <1>4, SMT DEF vars
<1> QED
  BY <1>1, <1>2, <1>3, <1>4 DEF Next, Terminated

StopInv ==
  /\ main \in {"launch", "clock"} => stop = 0
  /\ phase = "dl" => calc["ul"] = "none"
  /\ main = "launch" => calc[phase] = "none"
  /\ calc[phase] \in {"last_clock", "last_figure", "done"} => stop = 1

ReportInv ==
  /\ StopInv
  /\ FinalReportComplete
  /\ \A k \in Kinds : atStop[k] <= total[k] /\ reported[k] <= total[k]

LEMMA ReportInit == Init => ReportInv
  BY SMT DEF Init, ReportInv, StopInv, FinalReportComplete, Kinds

LEMMA ReportNext == TypeInv /\ ReportInv /\ TotalsGrow /\ [Next]_vars => ReportInv'
<1> SUFFICES ASSUME TypeInv, ReportInv, TotalsGrow, [Next]_vars PROVE ReportInv'
  OBVIOUS
<1> USE DEF TypeInv, TypeOK, ReportInv, StopInv, FinalReportComplete, TotalsGrow,
        CalcStates, Kinds, MainStates, mainVars, slotVars, localVars, countVars, calcVars
<1>1. CASE LaunchPhase
  BY <1>1, SMT DEF LaunchPhase
<1>2. CASE TimeUp \/ TimeLeft \/ CopyRequest
  BY <1>2, SMT DEF TimeUp, TimeLeft, CopyRequest
<1>3. CASE FillSlot \/ EndOfPass
  BY <1>3, SMT DEF FillSlot, EndOfPass
<1>4. CASE NextPhase \/ Exit
  BY <1>4, SMT DEF NextPhase, Exit
<1>5. ASSUME NEW w \in Workers, Worker(w) PROVE ReportInv'
  <2>1. UNCHANGED <<phase, stop, atStop, calcVars>> /\ main' \in {main, "killed"}
    BY <1>5, SMT DEF Worker, SendRequest, ConnectFails, BrokenPipe, Receive, EndOfResponse,
       SendBuffer, AllSent, Lock, Add, CheckStop, Finish
  <2>2. total' \in [Kinds -> Nat]
    BY TypeNext DEF TypeInv, TypeOK
  <2> QED
    BY <2>1, <2>2, SMT
<1>6. ASSUME NEW k \in Kinds, Figure(k) \/ Poll(k) PROVE ReportInv'
  BY <1>6, SMT DEF Figure, CalcGoto, ReadTime, ReadTotal, Poll
<1>7. CASE UNCHANGED vars
  BY <1>7, SMT DEF vars
<1> QED
  BY <1>1, <1>2, <1>3, <1>4, <1>5, <1>6, <1>7 DEF Next, Main, Terminated

LEMMA Reporting == Spec => []ReportInv
<1>1. Spec => []CountInv
  BY Typing, CountInit, CountNext, PTL DEF Spec
<1> QED
  BY <1>1, Typing, ReportInit, ReportNext, TotalsOnlyGrow, PTL DEF Spec

(* The last figure of a direction covers all that was counted when its time was up. *)
THEOREM FinalReport == Spec => []FinalReportComplete
<1>1. ReportInv => FinalReportComplete
  BY DEF ReportInv
<1> QED
  BY <1>1, Reporting, PTL

(* What was counted before the time of a figure is still in the total it takes. *)
SeenInv == \A k \in Kinds :
  /\ seen[k] <= total[k]
  /\ calc[k] \notin {"figure", "last_figure"} => seen[k] = 0

LEMMA SeenInit == Init => SeenInv
  BY SMT DEF Init, SeenInv, Kinds

LEMMA SeenNext == TypeInv /\ StopInv /\ SeenInv /\ TotalsGrow /\ [Next]_vars => SeenInv'
<1> SUFFICES ASSUME TypeInv, StopInv, SeenInv, TotalsGrow, [Next]_vars PROVE SeenInv'
  OBVIOUS
<1> USE DEF TypeInv, TypeOK, SeenInv, TotalsGrow, CalcStates,
        mainVars, slotVars, localVars, countVars, calcVars
<1>1. CASE LaunchPhase
  BY <1>1, SMT DEF LaunchPhase, StopInv
<1>2. CASE TimeUp \/ TimeLeft \/ CopyRequest \/ FillSlot \/ EndOfPass \/ NextPhase \/ Exit
  BY <1>2, SMT DEF TimeUp, TimeLeft, CopyRequest, FillSlot, EndOfPass, NextPhase, Exit
<1>3. ASSUME NEW w \in Workers, Worker(w) PROVE SeenInv'
  <2>1. UNCHANGED calcVars
    BY <1>3, Zenon DEF Worker, SendRequest, ConnectFails, BrokenPipe, Receive, EndOfResponse,
       SendBuffer, AllSent, Lock, Add, CheckStop, Finish
  <2>2. total' \in [Kinds -> Nat]
    BY TypeNext DEF TypeInv, TypeOK
  <2> QED
    BY <2>1, <2>2, SMT
<1>4. ASSUME NEW k \in Kinds, Figure(k) \/ Poll(k) PROVE SeenInv'
  BY <1>4, SMT DEF Figure, CalcGoto, ReadTime, ReadTotal, Poll
<1>5. CASE UNCHANGED vars
  BY <1>5, SMT DEF vars
<1> QED
  BY <1>1, <1>2, <1>3, <1>4, <1>5 DEF Next, Main, Terminated

(* The total of a speed leaves out no byte that was counted before its time was read. *)
THEOREM Figures == Spec => FigureNotBehind
<1>1. TypeInv /\ StopInv /\ SeenInv /\ [Next]_vars
      => [\A k \in Kinds :
            calc[k] \in {"figure", "last_figure"} /\ calc'[k] \in {"poll", "done"} =>
              \A time \in {seen[k], seen'[k]} : reported'[k] >= time]_vars
  <2> SUFFICES ASSUME TypeInv, StopInv, SeenInv, [Next]_vars, NEW k \in Kinds,
                      calc[k] \in {"figure", "last_figure"}, calc'[k] \in {"poll", "done"}
               PROVE reported'[k] >= seen[k] /\ reported'[k] >= seen'[k]
    OBVIOUS
  <2> USE DEF TypeInv, TypeOK, SeenInv, mainVars, slotVars, localVars, countVars, calcVars
  <2>1. CASE LaunchPhase
    BY <2>1, SMT DEF LaunchPhase
  <2>2. CASE UNCHANGED calcVars
    BY <2>2, SMT
  <2>3. ASSUME NEW j \in Kinds, Figure(j) \/ Poll(j)
        PROVE reported'[k] >= seen[k] /\ reported'[k] >= seen'[k]
    BY <2>3, SMT DEF Figure, CalcGoto, ReadTime, ReadTotal, Poll
  <2>4. ASSUME NEW w \in Workers, Worker(w) PROVE UNCHANGED calcVars
    BY <2>4, Zenon DEF Worker, SendRequest, ConnectFails, BrokenPipe, Receive, EndOfResponse,
       SendBuffer, AllSent, Lock, Add, CheckStop, Finish
  <2>5. TimeUp \/ TimeLeft \/ CopyRequest \/ FillSlot \/ EndOfPass \/ NextPhase \/ Exit
        => UNCHANGED calcVars
    BY SMT DEF TimeUp, TimeLeft, CopyRequest, FillSlot, EndOfPass, NextPhase, Exit
  <2> QED
    BY <2>1, <2>2, <2>3, <2>4, <2>5 DEF Next, Main, Terminated, vars
<1>2. Spec => []CountInv
  BY Typing, CountInit, CountNext, PTL DEF Spec
<1>3. ReportInv => StopInv
  BY DEF ReportInv
<1>4. Spec => []SeenInv
  BY <1>2, <1>3, Typing, Reporting, SeenInit, SeenNext, TotalsOnlyGrow, PTL DEF Spec
<1> QED
  BY <1>1, <1>3, <1>4, Typing, Reporting, PTL DEF Spec, FigureNotBehind
-----------------------------------------------------------------------------
(***************************************************************************)
(* Refinement: the engine implements TransferPool.                         *)
(***************************************************************************)
(* What is waiting to be counted came from a send or a recv. *)
Counted == \A w \in Workers : pc[w] \in {"lock", "add"} => got[w] \in Sizes

LEMMA CountedInit == Init => Counted
  BY SMT DEF Init, Counted

LEMMA CountedNext == TypeInv /\ Counted /\ [Next]_vars => Counted'
<1> SUFFICES ASSUME TypeInv, Counted, [Next]_vars PROVE Counted'
  OBVIOUS
<1> USE DEF TypeInv, TypeOK, Counted, WorkerStates, Live,
        mainVars, slotVars, localVars, countVars, calcVars
<1>1. CASE Main
  BY <1>1, SMT DEF Main, LaunchPhase, TimeUp, TimeLeft, CopyRequest, FillSlot, StartWorker,
                   EndOfPass, NextPhase, Exit
<1>2. ASSUME NEW w \in Workers, Worker(w) PROVE Counted'
  <2>1. CASE SendRequest(w) \/ Receive(w) \/ SendBuffer(w)
    BY <2>1, SMT DEF SendRequest, Receive, SendBuffer, Goto
  <2>2. CASE Lock(w) \/ Add(w)
    BY <2>2, SMT DEF Lock, Add, Goto
  <2>3. CASE ConnectFails(w) \/ BrokenPipe(w) \/ EndOfResponse(w)
            \/ AllSent(w) \/ CheckStop(w) \/ Finish(w)
    BY <2>3, SMT DEF ConnectFails, BrokenPipe, EndOfResponse, AllSent, CheckStop, Finish, Goto
  <2> QED
    BY <1>2, <2>1, <2>2, <2>3 DEF Worker
<1>3. ASSUME NEW k \in Kinds, Figure(k) \/ Poll(k) PROVE Counted'
  BY <1>3, SMT DEF Figure, CalcGoto, ReadTime, ReadTotal, Poll
<1>4. CASE UNCHANGED vars
  BY <1>4, SMT DEF vars
<1> QED
  BY <1>1, <1>2, <1>3, <1>4 DEF Next, Terminated

(***************************************************************************)
(* The mapping: with slots exclusive, the job of a slot is the kind of the *)
(* one live thread on it.                                                  *)
(***************************************************************************)
JobIsKind ==
  /\ job = [i \in Slots |-> job[i]]
  /\ \A w \in Workers : pc[w] \in Live => job[slot[w]] = kind[w]
  /\ \A i \in Slots : LiveOn(i) = {} => job[i] = "idle"

LEMMA JobMapping == TypeInv /\ SlotExclusive => JobIsKind
<1> SUFFICES ASSUME TypeInv, SlotExclusive PROVE JobIsKind
  OBVIOUS
<1>1. job = [i \in Slots |-> job[i]]
  BY SMT DEF job
<1>2. ASSUME NEW w \in Workers, pc[w] \in Live PROVE job[slot[w]] = kind[w]
  <2>1. LiveOn(slot[w]) = {w}
    BY <1>2, Zenon DEF LiveOn, SlotExclusive
  <2>2. slot[w] \in Slots
    BY <1>2 DEF TypeInv, LiveInTable
  <2> QED
    BY <2>1, <2>2, Zenon DEF job
<1>3. ASSUME NEW i \in Slots, LiveOn(i) = {} PROVE job[i] = "idle"
  BY <1>3, Zenon DEF job
<1> QED
  BY <1>1, <1>2, <1>3 DEF JobIsKind

LEMMA MappedInit == Init => Pool!Init
<1> SUFFICES ASSUME Init PROVE Pool!Init
  OBVIOUS
<1>1. \A i : LiveOn(i) = {}
  BY SMT DEF Init, LiveOn, Live
<1>2. job = [i \in Slots |-> "idle"]
  BY <1>1, Zenon DEF job
<1>3. open = "dl" /\ total = [k \in Pool!Directions |-> 0]
  BY SMT DEF Init, open, Kinds, Pool!Directions
<1> QED
  BY <1>2, <1>3 DEF Pool!Init

MapInv == TypeInv /\ SlotExclusive /\ HolderAdds /\ Counted

LEMMA MappedNext ==
  MapInv /\ MapInv' /\ [Next]_vars => [Pool!Next]_Pool!vars
<1> SUFFICES ASSUME MapInv, MapInv', [Next]_vars PROVE [Pool!Next]_Pool!vars
  OBVIOUS
<1>1. JobIsKind
  BY JobMapping DEF MapInv
<1>2. JobIsKind'
  BY JobMapping, PTL DEF MapInv
<1> DEFINE
  SameOn(i) == \A w \in Workers :
                 /\ pc'[w] \in Live /\ slot'[w] = i <=> pc[w] \in Live /\ slot[w] = i
                 /\ pc[w] \in Live /\ slot[w] = i => kind'[w] = kind[w]
<1>3. ASSUME NEW i \in Slots, SameOn(i) PROVE job'[i] = job[i]
  <2>1. CASE LiveOn(i) = {}
    <3>1. LiveOn(i)' = {}
      BY <1>3, <2>1, SMT DEF LiveOn
    <3> QED
      BY <1>1, <1>2, <2>1, <3>1, Zenon DEF JobIsKind
  <2>2. CASE LiveOn(i) # {}
    <3>1. PICK w \in Workers : pc[w] \in Live /\ slot[w] = i
      BY <2>2, SMT DEF LiveOn
    <3>2. pc'[w] \in Live /\ slot'[w] = i /\ kind'[w] = kind[w]
      BY <1>3, <3>1, Zenon
    <3> QED
      BY <1>1, <1>2, <3>1, <3>2, Zenon DEF JobIsKind
  <2> QED
    BY <2>1, <2>2
<1>4. ASSUME \A i \in Slots : SameOn(i) PROVE job' = job
  BY <1>1, <1>2, <1>3, <1>4, SMT DEF JobIsKind
<1> HIDE DEF SameOn
<1> USE DEF MapInv, TypeInv, TypeOK, LiveInTable, CursorInTable, WorkerStates, Live,
        mainVars, slotVars, localVars, countVars, calcVars
<1>5. CASE LaunchPhase \/ TimeUp \/ TimeLeft \/ CopyRequest \/ EndOfPass
  <2>1. UNCHANGED <<pc, slot, kind, total, open>>
    BY <1>5, SMT DEF LaunchPhase, TimeUp, TimeLeft, CopyRequest, EndOfPass, open
  <2>2. job' = job
    BY <2>1, <1>4, SMT DEF SameOn
  <2> QED
    BY <2>1, <2>2 DEF Pool!vars
<1>6. CASE NextPhase \/ Exit
  <2>1. UNCHANGED <<pc, slot, kind, total>>
    BY <1>6, SMT DEF NextPhase, Exit
  <2>2. job' = job
    BY <2>1, <1>4, SMT DEF SameOn
  <2>3. \/ open = "dl" /\ open' = "ul"
        \/ open = "ul" /\ open' = "over"
    BY <1>6, SMT DEF NextPhase, Exit, open
  <2> QED
    BY <2>1, <2>2, <2>3 DEF Pool!Next, Pool!Advance
<1>7. ASSUME FillSlot PROVE [Pool!Next]_Pool!vars
  <2>1. UNCHANGED <<total, open>> /\ cursor \in Slots
    BY <1>7, SMT DEF FillSlot, open
  <2>2. CASE UNCHANGED <<pc, slot, kind>>
    BY <2>1, <2>2, <1>4, SMT DEF SameOn, Pool!vars
  <2>3. ASSUME cursor \notin running, NEW w \in Workers, StartWorker(cursor, w)
        PROVE Pool!Launch(cursor)
    <3>1. \A i \in Slots \ {cursor} : SameOn(i)
      BY <2>3, SMT DEF StartWorker, SameOn
    <3>2. LiveOn(cursor) = {}
      BY <2>3, SMT DEF SlotExclusive, LiveOn
    <3>3. job[cursor] = "idle"
      BY <1>1, <2>1, <3>2, Zenon DEF JobIsKind
    <3>4. pc'[w] \in Live /\ slot'[w] = cursor /\ kind'[w] = phase
      BY <2>3, SMT DEF StartWorker
    <3>5. job'[cursor] = phase
      BY <1>2, <3>4, Zenon DEF JobIsKind
    <3>6. phase = open /\ open \in Pool!Directions
      BY <1>7, SMT DEF FillSlot, open, Kinds, Pool!Directions
    <3>7. job' = [job EXCEPT ![cursor] = open]
      BY <1>1, <1>2, <1>3, <2>1, <3>1, <3>5, <3>6, SMT DEF JobIsKind
    <3> QED
      BY <2>1, <3>3, <3>6, <3>7 DEF Pool!Launch
  <2> QED
    BY <1>7, <2>1, <2>2, <2>3 DEF FillSlot, Pool!Next
<1>8. \A w \in Workers : kind[w] \in Pool!Directions
  BY SMT DEF Kinds, Pool!Directions
<1>9. ASSUME NEW w \in Workers, Worker(w) PROVE [Pool!Next]_Pool!vars
  <2>1. open \in Pool!Directions /\ UNCHANGED open
    <3>1. main # "exit" /\ main' # "exit" /\ UNCHANGED phase
      BY <1>9, Zenon DEF Worker, SendRequest, ConnectFails, BrokenPipe, Receive, EndOfResponse,
         SendBuffer, AllSent, Lock, Add, CheckStop, Finish, Goto, mainVars
    <3> QED
      BY <3>1, SMT DEF open, Kinds, Pool!Directions
  <2>2. CASE SendRequest(w) \/ ConnectFails(w) \/ BrokenPipe(w) \/ EndOfResponse(w)
            \/ AllSent(w) \/ CheckStop(w)
    <3>1. UNCHANGED <<slot, kind, total>> /\ \A v \in Workers : pc'[v] \in Live <=> pc[v] \in Live
      BY <2>2, SMT DEF SendRequest, ConnectFails, BrokenPipe, EndOfResponse, AllSent, CheckStop, Goto
    <3> QED
      BY <1>4, <2>1, <3>1, SMT DEF SameOn, Pool!vars
  <2>3. CASE Receive(w) \/ SendBuffer(w) \/ Lock(w)
    <3>1. UNCHANGED <<slot, kind, total>> /\ \A v \in Workers : pc'[v] \in Live <=> pc[v] \in Live
      BY <2>3, SMT DEF Receive, SendBuffer, Lock, Goto
    <3> QED
      BY <1>4, <2>1, <3>1, SMT DEF SameOn, Pool!vars
  <2>4. ASSUME Add(w) PROVE Pool!Count(slot[w], got[w]) /\ slot[w] \in Slots /\ got[w] \in Sizes
    <3>1. UNCHANGED <<slot, kind>> /\ \A v \in Workers : pc'[v] \in Live <=> pc[v] \in Live
      BY <2>4, SMT DEF Add, Goto
    <3>2. job' = job
      BY <1>4, <3>1, SMT DEF SameOn
    <3>3. pc[w] = "add" /\ pc[w] \in Live
      BY <2>4 DEF Add, Goto
    <3>4. job[slot[w]] = kind[w] /\ kind[w] \in Pool!Directions
      BY <1>1, <1>8, <3>3, Zenon DEF JobIsKind
    <3>5. total' = [total EXCEPT ![kind[w]] = tmp[w] + got[w]] /\ tmp[w] = total[kind[w]]
      BY <2>4, <3>3, Zenon DEF Add, HolderAdds
    <3> QED
      BY <2>1, <3>2, <3>3, <3>4, <3>5 DEF Pool!Count, Counted
  <2>5. ASSUME Finish(w) PROVE Pool!Retire(slot[w]) /\ slot[w] \in Slots
    <3>1. \A i \in Slots \ {slot[w]} : SameOn(i)
      BY <2>5, SMT DEF Finish, Goto, SameOn
    <3>2. pc[w] = "close" /\ pc[w] \in Live /\ slot[w] \in Slots
      BY <2>5 DEF Finish, Goto
    <3>3. job[slot[w]] = kind[w] /\ kind[w] \in Pool!Directions
      BY <1>1, <1>8, <3>2, Zenon DEF JobIsKind
    <3>4. \A v \in Workers : ~(pc'[v] \in Live /\ slot'[v] = slot[w])
      BY <2>5, <3>2, SMT DEF Finish, Goto, SlotExclusive
    <3>5. job'[slot[w]] = "idle"
      BY <1>2, <3>2, <3>4, SMT DEF JobIsKind, LiveOn
    <3>6. job' = [job EXCEPT ![slot[w]] = "idle"]
      BY <1>1, <1>2, <1>3, <3>1, <3>2, <3>5, SMT DEF JobIsKind
    <3>7. UNCHANGED total
      BY <2>5 DEF Finish
    <3> QED
      BY <2>1, <3>2, <3>3, <3>6, <3>7 DEF Pool!Retire
  <2> QED
    BY <1>9, <2>2, <2>3, <2>4, <2>5 DEF Worker, Pool!Next
<1>10. CASE (\E k \in Kinds : Figure(k) \/ Poll(k)) \/ UNCHANGED vars
  <2>1. UNCHANGED <<pc, slot, kind, total, open>>
    BY <1>10, SMT DEF Figure, CalcGoto, ReadTime, ReadTotal, Poll, vars, open
  <2>2. job' = job
    BY <2>1, <1>4, SMT DEF SameOn
  <2> QED
    BY <2>1, <2>2 DEF Pool!vars
<1> QED
  BY <1>5, <1>6, <1>7, <1>9, <1>10 DEF Next, Main, Terminated

(* Every behaviour of the engine, read through the mapping, is one of TransferPool. *)
THEOREM Refinement == Spec => ImplementsPool
<1>1. Spec => []Counted
  BY Typing, CountedInit, CountedNext, PTL DEF Spec
<1>2. Spec => []CountInv
  BY Typing, CountInit, CountNext, PTL DEF Spec
<1>3. TypeInv /\ SlotExclusive /\ CountInv /\ Counted => MapInv
  BY DEF MapInv, CountInv
<1>4. Spec => []MapInv
  BY <1>1, <1>2, <1>3, Typing, Exclusive, PTL
<1> QED
  BY <1>4, MappedInit, MappedNext, PTL DEF Spec, ImplementsPool, Pool!Spec
=============================================================================
