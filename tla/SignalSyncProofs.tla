--------------------------- MODULE SignalSyncProofs ---------------------------
(***************************************************************************)
(* Whatever is lost, the two processes never take a turn together, and     *)
(* what they write is the log of CountingLog: for any file they start      *)
(* with, and without a bound on its length.                                *)
(***************************************************************************)
EXTENDS SignalSync, SequenceTheorems, TLAPS

LEMMA OtherFacts ==
  \A p \in Procs : Other[p] \in Procs /\ Other[p] # p /\ Other[Other[p]] = p
                   /\ \A q \in Procs : q # p => q = Other[p]
  BY SMT DEF Procs, Other

LEMMA EarlierIsLog == Seq([by : {"earlier"}, n : Nat]) \subseteq Seq(Entry)
<1>1. [by : {"earlier"}, n : Nat] \subseteq Entry
  BY SMT DEF Entry
<1> QED
  BY <1>1, SeqMonotonic, Zenon

LEMMA LastIsNumber == ASSUME NEW f \in Seq(Entry) PROVE LastNumber(f) \in Nat
<1>1. f # <<>> => f[Len(f)] \in Entry
  BY SMT
<1> QED
  BY <1>1, SMT DEF LastNumber, Entry

(***************************************************************************)
(* Types, and turns.  A signal is only sent to a process that waits.       *)
(***************************************************************************)
SignalAwaited == \A p \in pending : pc[p] \in {"between", "pause"}

TurnInv == TypeOK /\ SignalAwaited /\ OneTurn

LEMMA TurnInit == Init => TurnInv
<1> SUFFICES ASSUME Init PROVE TurnInv
  OBVIOUS
<1>1. file \in Seq(Entry)
  BY SyncAssumption, EarlierIsLog, Zenon DEF Init
<1>2. TypeOK
  BY <1>1, SMT DEF Init, TypeOK, Places, Procs
<1>3. SignalAwaited
  BY DEF Init, SignalAwaited
<1>4. OneTurn
  BY SMT DEF Init, OneTurn, HasTurn, Procs, Other
<1> QED
  BY <1>2, <1>3, <1>4 DEF TurnInv

LEMMA TurnStep == ASSUME TurnInv, NEW p \in Procs, Step(p) PROVE TurnInv'
<1> USE OtherFacts DEF TurnInv, TypeOK, SignalAwaited, OneTurn, HasTurn, Places, Goto
<1>1. CASE Wake(p)
  BY <1>1, SMT DEF Wake
<1>2. CASE Read(p)
  <2>1. counter' \in [Procs -> Nat]
    <3>1. PICK last \in {LastNumber(file), 1} : counter' = [counter EXCEPT ![p] = last + 1]
      BY <1>2 DEF Read
    <3>2. last + 1 \in Nat
      BY LastIsNumber, SMT
    <3> QED
      BY <3>1, <3>2, SMT
  <2> QED
    BY <1>2, <2>1, SMT DEF Read
<1>3. CASE WriteToFile(p)
  <2>1. file' \in Seq(Entry)
    <3>1. [by |-> p, n |-> counter[p]] \in Entry
      BY SMT DEF Entry
    <3>2. \A e \in Entry : Append(file, e) \in Seq(Entry)
      BY SMT
    <3>3. file' = Append(file, [by |-> p, n |-> counter[p]]) \/ file' = file
      BY <1>3, Zenon DEF WriteToFile
    <3> QED
      BY <3>1, <3>2, <3>3, ZenonT(60)
  <2>2. /\ pc[p] = "write"
        /\ \E to \in {"kill", "exited"} : pc' = [pc EXCEPT ![p] = to]
        /\ UNCHANGED <<counter, pending>>
    BY <1>3, SMT DEF WriteToFile
  <2> QED
    BY <2>1, <2>2, SMT
<1>4. CASE Kill(p)
  BY <1>4, SMT DEF Kill
<1>5. CASE Pause(p)
  BY <1>5, SMT DEF Pause
<1>6. CASE Handle(p)
  BY <1>6, SMT DEF Handle
<1> QED
  BY <1>1, <1>2, <1>3, <1>4, <1>5, <1>6 DEF Step

LEMMA TurnNext == TurnInv /\ [Next]_vars => TurnInv'
<1> SUFFICES ASSUME TurnInv, [Next]_vars PROVE TurnInv'
  OBVIOUS
<1>1. CASE Next
  BY <1>1, TurnStep DEF Next
<1>2. CASE UNCHANGED vars
  BY <1>2, SMT DEF vars, TurnInv, TypeOK, SignalAwaited, OneTurn, HasTurn
<1> QED
  BY <1>1, <1>2

(* Every variable keeps its type: the file, too, for any earlier file. *)
THEOREM Typing == Spec => []TypeOK
<1>1. TurnInv => TypeOK
  BY DEF TurnInv
<1> QED
  BY <1>1, TurnInit, TurnNext, PTL DEF Spec

(* The two processes never take a turn together. *)
THEOREM Exclusive == Spec => []OneTurn
<1>1. TurnInv => OneTurn
  BY DEF TurnInv
<1> QED
  BY <1>1, TurnInit, TurnNext, PTL DEF Spec

(***************************************************************************)
(* The log.  Whoever has the turn may write; once it has read the file it  *)
(* holds the number to write; once it has written it may not write again.  *)
(***************************************************************************)
LogInv == \A p \in Procs :
  /\ pc[p] \in {"sleep", "read", "write"} \/ p \in pending => Log!MayWrite(p)
  /\ pc[p] = "write" => counter[p] \in {Log!LastNumber(file) + 1, 2}
  /\ pc[p] = "kill" => Log!MayWrite(Other[p])

LEMMA SameNumber == \A f : Log!LastNumber(f) = LastNumber(f)
  BY DEF Log!LastNumber, LastNumber

LEMMA LogInit == Init => LogInv
<1> SUFFICES ASSUME Init PROVE LogInv
  OBVIOUS
<1>1. Log!MayWrite("A")
  <2>1. file \in Seq([by : {"earlier"}, n : Nat])
    BY SyncAssumption DEF Init
  <2>2. \A e \in [by : {"earlier"}, n : Nat] : e.by = "earlier"
    BY SMT
  <2>3. ASSUME file # <<>> PROVE file[Len(file)].by = "earlier"
    <3>1. Len(file) \in 1..Len(file)
      BY <2>1, <2>3, EmptySeq, LenProperties, SMT
    <3>2. file[Len(file)] \in [by : {"earlier"}, n : Nat]
      BY <2>1, <3>1, ElementOfSeq, Zenon
    <3> QED
      BY <2>2, <3>2, Zenon
  <2> QED
    BY <2>3, SMT DEF Log!MayWrite
<1> QED
  BY <1>1, SMT DEF Init, LogInv, Procs

\* Who writes after p: the other one.
LEMMA TurnPasses ==
  ASSUME TypeOK, NEW p \in Procs, NEW k \in Nat, file' = Append(file, [by |-> p, n |-> k])
  PROVE  Log!MayWrite(Other[p])'
<1>1. file' # <<>> /\ file'[Len(file')].by = p
  <2>1. file' # <<>> /\ file'[Len(file')] = [by |-> p, n |-> k]
    BY SMTT(30) DEF TypeOK
  <2> QED
    BY <2>1, SMT
<1> QED
  BY <1>1, SMT DEF Log!MayWrite, Other, Procs

LEMMA LogStep ==
  ASSUME TurnInv, LogInv, NEW p \in Procs, Step(p)
  PROVE  LogInv' /\ [Log!Next]_file
<1> USE OtherFacts DEF TurnInv, TypeOK, SignalAwaited, OneTurn, HasTurn, Places, Goto, LogInv
<1>1. CASE Wake(p) \/ Kill(p) \/ Pause(p) \/ Handle(p)
  <2>1. UNCHANGED <<file, counter>>
    BY <1>1 DEF Wake, Kill, Pause, Handle
  <2>2. \A q \in Procs : Log!MayWrite(q)' <=> Log!MayWrite(q)
    BY <2>1, Zenon DEF Log!MayWrite
  <2>3. Log!LastNumber(file)' = Log!LastNumber(file)
    BY <2>1, Zenon
  <2>4. LogInv'
    BY <1>1, <2>1, <2>2, <2>3, SMT DEF Wake, Kill, Pause, Handle
  <2> QED
    BY <2>1, <2>4
<1>2. CASE Read(p)
  <2>1. UNCHANGED <<file, pending>>
    BY <1>2 DEF Read
  <2>2. \A q \in Procs : Log!MayWrite(q)' <=> Log!MayWrite(q)
    BY <2>1, Zenon DEF Log!MayWrite
  <2>3. PICK last \in {LastNumber(file), 1} : counter' = [counter EXCEPT ![p] = last + 1]
    BY <1>2 DEF Read
  <2>4. counter'[p] \in {Log!LastNumber(file)' + 1, 2}
    BY <2>1, <2>3, SameNumber, SMT
  <2>5. pc[p] = "read" /\ pc' = [pc EXCEPT ![p] = "write"]
    BY <1>2 DEF Read
  <2>6. LogInv'
    BY <2>1, <2>2, <2>4, <2>5, SMT
  <2> QED
    BY <2>1, <2>6
<1>3. CASE /\ pc[p] = "write" /\ pc' = [pc EXCEPT ![p] = "kill"]
           /\ file' = Append(file, [by |-> p, n |-> counter[p]])
           /\ UNCHANGED <<counter, pending>>
  <2>1. Log!MayWrite(p) /\ counter[p] \in {Log!LastNumber(file) + 1, 2}
    BY <1>3
  <2>2. Log!Write(p)
    BY <1>3, <2>1, Zenon DEF Log!Write
  <2>3. Log!Next
    BY <2>2, SMT DEF Log!Next, Procs
  <2>4. Log!MayWrite(Other[p])'
    BY <1>3, TurnPasses
  <2>5. \A q \in Procs : q # p => pc[q] \in {"between", "pause", "exited"} /\ q \notin pending
    BY <1>3, SMT
  <2>6. LogInv'
    BY <1>3, <2>4, <2>5, SMT
  <2> QED
    BY <2>3, <2>6
<1>4. CASE /\ pc[p] = "write" /\ pc' = [pc EXCEPT ![p] = "exited"]
           /\ UNCHANGED <<counter, pending, file>>
  <2>1. \A q \in Procs : Log!MayWrite(q)' <=> Log!MayWrite(q)
    BY <1>4, Zenon DEF Log!MayWrite
  <2>2. LogInv'
    BY <1>4, <2>1, SMT
  <2> QED
    BY <1>4, <2>2
<1> QED
  BY <1>1, <1>2, <1>3, <1>4 DEF Step, WriteToFile

LEMMA LogNext == TurnInv /\ LogInv /\ [Next]_vars => LogInv' /\ [Log!Next]_file
<1> SUFFICES ASSUME TurnInv, LogInv, [Next]_vars PROVE LogInv' /\ [Log!Next]_file
  OBVIOUS
<1>1. CASE Next
  BY <1>1, LogStep DEF Next
<1>2. CASE UNCHANGED vars
  <2>1. \A q : Log!MayWrite(q)' <=> Log!MayWrite(q)
    BY <1>2, Zenon DEF Log!MayWrite, vars
  <2>2. Log!LastNumber(file)' = Log!LastNumber(file)
    BY <1>2, Zenon DEF vars
  <2>3. UNCHANGED <<pc, counter, pending, file>>
    BY <1>2, Zenon DEF vars
  <2> QED
    BY <2>1, <2>2, <2>3, Zenon DEF LogInv
<1> QED
  BY <1>1, <1>2

(* What the processes write is a log in which they take turns and count on. *)
THEOREM Refinement == Spec => ImplementsLog
<1>1. Init => Log!Init
  BY SyncAssumption, Zenon DEF Init, Log!Init
<1> QED
  BY <1>1, TurnInit, TurnNext, LogInit, LogNext, PTL DEF Spec, ImplementsLog, Log!Spec
===============================================================================
