--------------------------- MODULE WriterSyncProofs ----------------------------
(* Proofs about WriterSync: any number of threads and of lines. *)
EXTENDS WriterSync, FiniteSetTheorems, TLAPS

USE WriterAssumption

(***************************************************************************)
(* The invariant.  A thread in Crit has the semaphore of its file.         *)
(***************************************************************************)
Crit     == {"load", "store", "print", "post"}
Buffered == {"post", "close"}

PlaceInv ==
  /\ main = "create" => \A t \in Threads : t >= next => pc[t] = "none"
  /\ main = "join" => \A t \in Threads : t < next => Ended(t)
  /\ main = "over" => AllEnded
  /\ \A t \in Threads : pc[t] # "returned" => i[t] < MAX_VALUE
  /\ \A t \in Threads : buffer[t] # NoLine <=> pc[t] \in Buffered
  /\ \A t \in Threads : pc[t] = "print" => g_common_var > 0

SemInv ==
  /\ \A t \in Threads : pc[t] \in Crit => sem[random_file[t]] = 0 /\ random_file[t] \in used
  /\ \A t, u \in Threads : t # u /\ pc[t] \in Crit /\ pc[u] \in Crit => random_file[t] # random_file[u]

TypeInv == TypeOK /\ PlaceInv /\ SemInv

\* No increment was overwritten.
Intact == ~torn

\* One is only overwritten by a user of the other file.
LoadInv ==
  /\ used # Files => \A t \in Threads : pc[t] = "store" => loaded[t] = g_common_var
  /\ used # Files => Intact

\* What is in the buffers goes behind what is in the files.
BuffersNew ==
  /\ \A t, u \in Threads : t # u /\ pc[t] \in Buffered /\ pc[u] \in Buffered /\ random_file[t] = random_file[u]
                           => buffer[t] # buffer[u]
  /\ \A t \in Threads : pc[t] \in Buffered => \A j \in DOMAIN output[random_file[t]] :
       /\ output[random_file[t]][j].n # buffer[t]
       /\ output[random_file[t]][j].by = t => output[random_file[t]][j].n < buffer[t]

\* Whoever is about to write a number has one above all those of its file.
NumberNew ==
  /\ \A f \in Files : \A j \in DOMAIN output[f] : output[f][j].n <= g_common_var
  /\ \A t \in Threads : buffer[t] <= g_common_var
  /\ \A t \in Threads : pc[t] = "print" =>
       /\ \A j \in DOMAIN output[random_file[t]] : output[random_file[t]][j].n < g_common_var
       /\ \A u \in Threads : pc[u] \in Buffered /\ random_file[u] = random_file[t] => buffer[u] < g_common_var

InOrder(f) ==
  \A j, k \in DOMAIN output[f] : j < k =>
    /\ output[f][j].n # output[f][k].n
    /\ output[f][j].by = output[f][k].by => output[f][j].n < output[f][k].n

NumberInv == Intact => BuffersNew /\ NumberNew /\ \A f \in Files : InOrder(f)

\* While one file is used, the number that is about to be written is the next one.
CountInv ==
  used # Files =>
    /\ \A t \in Threads : pc[t] = "print" => Numbers = 1..(g_common_var - 1)
    /\ (\A t \in Threads : pc[t] # "print") => Numbers = 1..g_common_var

LineInv == \A t \in Threads : IsFiniteSet(LinesOf(t)) /\ Cardinality(LinesOf(t)) = i[t]
-----------------------------------------------------------------------------
(***************************************************************************)
(* Types, and who has a semaphore.                                         *)
(***************************************************************************)
LEMMA ThreadRange == \A t : t \in Threads <=> t \in Nat /\ 1 <= t /\ t <= MAX_THREADS
  BY DEF Threads

LEMMA TypeInit == Init => TypeInv
<1> SUFFICES ASSUME Init PROVE TypeInv
  OBVIOUS
<1>1. next \in Threads /\ 0 \in 0..MAX_VALUE
  BY ThreadRange DEF Init
<1>2. output \in [Files -> Seq([by : Threads, n : Nat])]
  BY DEF Init
<1>3. torn \in BOOLEAN
  BY Zenon DEF Init
<1>4. TypeOK
  BY <1>1, <1>2, <1>3, SMT DEF Init, TypeOK, Places, Files, NoLine
<1>5. PlaceInv /\ SemInv
  BY DEF Init, PlaceInv, SemInv, Crit, Buffered, NoLine
<1> QED BY <1>4, <1>5 DEF TypeInv

\* torn is a Boolean, which is all that is said of it here.
LEMMA TornType == TypeOK /\ [Next]_vars => torn' \in BOOLEAN
<1> SUFFICES ASSUME TypeOK, [Next]_vars PROVE torn' \in BOOLEAN
  OBVIOUS
<1>1. torn \in BOOLEAN
  BY DEF TypeOK
<1>2. CASE torn' = torn
  BY <1>1, <1>2
<1>3. ASSUME NEW t \in Threads, Store(t) PROVE torn' \in BOOLEAN
  <2>1. torn' = (torn \/ g_common_var # loaded[t])
    BY <1>3 DEF Store
  <2> QED BY <2>1, Zenon
<1> QED BY <1>2, <1>3, Zenon
     DEF Next, CreateThread, JoinThread, Thread, Open, SemWait, Load, Fprintf, SemPost, Close, vars, history

\* A step of t leaves the others' locals alone.
LEMMA ThreadFacts ==
  ASSUME TypeInv, NEW t \in Threads, Thread(t)
  PROVE  /\ ProcessRuns /\ UNCHANGED mainVars
         /\ pc[t] \notin {"none", "returned"} /\ pc'[t] # "none"
         /\ pc' \in [Threads -> Places]
         /\ \A u \in Threads : u # t => pc'[u] = pc[u]
  BY DEF TypeInv, TypeOK, Thread, Goto, Open, SemWait, Load, Store, Fprintf, SemPost, Close, Places

\* The steps that leave the semaphores and the files alone keep the types.
LEMMA TypeStep ==
  ASSUME TypeOK, NEW t \in Threads, Open(t) \/ Load(t) \/ Store(t) \/ Fprintf(t),
         UNCHANGED mainVars, pc' \in [Threads -> Places]
  PROVE  TypeOK'
<1>0. main' \in {"create", "join", "over", "crashed", "hung"} /\ next' \in Threads
  BY DEF TypeOK, mainVars
<1>1. CASE Open(t)
  <2>1. /\ random_file' \in [Threads -> Files]
        /\ UNCHANGED <<i, loaded, buffer, g_common_var, sem, output, used, torn>>
    BY <1>1 DEF Open, TypeOK, locals, history
  <2> QED BY <1>0, <2>1 DEF TypeOK
<1>2. CASE Load(t)
  <2>1. /\ loaded' \in [Threads -> Nat]
        /\ UNCHANGED <<i, random_file, buffer, g_common_var, sem, output, used, torn>>
    BY <1>2 DEF Load, TypeOK, history
  <2> QED BY <1>0, <2>1 DEF TypeOK
<1>3. CASE Store(t)
  <2>1. /\ loaded' \in [Threads -> Nat] /\ g_common_var' \in Nat /\ torn' \in BOOLEAN
        /\ UNCHANGED <<i, random_file, buffer, sem, output, used>>
    <3>1. loaded[t] \in Nat /\ loaded' = [loaded EXCEPT ![t] = 0] /\ g_common_var' = loaded[t] + 1
      BY <1>3 DEF Store, TypeOK
    <3>2. torn' \in BOOLEAN
      BY <1>3 DEF Store, TypeOK
    <3>3. UNCHANGED <<i, random_file, buffer, sem, output, used>>
      BY <1>3 DEF Store
    <3> QED BY <3>1, <3>2, <3>3 DEF TypeOK
  <2> QED BY <1>0, <2>1 DEF TypeOK
<1>4. CASE Fprintf(t)
  <2>1. /\ buffer' \in [Threads -> Nat]
        /\ UNCHANGED <<i, random_file, loaded, g_common_var, sem, output, used, torn>>
    BY <1>4 DEF Fprintf, TypeOK, history
  <2> QED BY <1>0, <2>1 DEF TypeOK
<1> QED BY <1>1, <1>2, <1>3, <1>4

LEMMA TypeNext == TypeInv /\ [Next]_vars => TypeInv'
<1> SUFFICES ASSUME TypeInv, [Next]_vars PROVE TypeInv'
  OBVIOUS
<1>0. torn' \in BOOLEAN
  BY TornType DEF TypeInv
<1> USE DEF TypeInv, PlaceInv, SemInv, Crit, Buffered, NoLine, Ended, AllEnded
<1>1. CASE CreateThread
  <2>0. /\ next \in Threads /\ next' \in Threads
        /\ pc' = [pc EXCEPT ![next] = "open"] \/ pc' = pc
        /\ main' = "create" => next' = next + 1
        /\ main' \in {"create", "join"}
        /\ main' = "join" => next' = 1
        /\ UNCHANGED <<i, random_file, loaded, buffer, g_common_var, sem, output, used>>
        /\ pc[next] = "none" /\ next \in Nat
    <3>1. next \in Threads /\ next \in Nat /\ 1 <= next /\ next <= MAX_THREADS /\ MAX_THREADS \in Nat
      BY ThreadRange DEF TypeOK
    <3>2. /\ pc[next] = "none" /\ main = "create"
          /\ pc' = [pc EXCEPT ![next] = "open"] \/ pc' = pc
      BY <1>1, <3>1 DEF CreateThread
    <3>3. \/ next < MAX_THREADS /\ next' = next + 1 /\ main' = "create"
          \/ next' = 1 /\ main' = "join"
      BY <1>1, <3>2 DEF CreateThread
    <3>4. next' \in Threads
      BY <3>1, <3>3, ThreadRange
    <3>5. UNCHANGED <<i, random_file, loaded, buffer, g_common_var, sem, output, used>>
      BY <1>1 DEF CreateThread, locals, history
    <3> QED BY <3>1, <3>2, <3>3, <3>4, <3>5
  <2>1. TypeOK'
    <3>1. pc' \in [Threads -> Places] /\ main' \in {"create", "join"}
      BY <1>1, <2>0 DEF TypeOK, Places, CreateThread
    <3> QED BY <1>0, <2>0, <3>1 DEF TypeOK
  <2>2. /\ \A t \in Threads : t # next => pc'[t] = pc[t]
        /\ pc'[next] \in {"none", "open"}
    BY <2>0 DEF TypeOK
  <2>3. PlaceInv'
    <3>1. main' = "create" => \A t \in Threads : t >= next' => pc'[t] = "none"
      BY <1>1, <2>0, <2>2, ThreadRange DEF CreateThread
    <3>2. main' = "join" => \A t \in Threads : ~(t < next')
      BY <2>0, ThreadRange
    <3>3. main' # "over"
      BY <1>1, <2>0 DEF CreateThread
    <3> QED BY <2>0, <2>2, <3>1, <3>2, <3>3
  <2>4. SemInv'
    BY <2>0, <2>2
  <2> QED BY <2>1, <2>3, <2>4
<1>2. CASE JoinThread
  <2>0. next' \in Threads /\ main' \in {"join", "over", "crashed", "hung"}
    <3>1. next \in Threads /\ next \in Nat /\ 1 <= next /\ MAX_THREADS \in Nat
      BY ThreadRange DEF TypeOK
    <3>2. \/ next < MAX_THREADS /\ next' = next + 1 /\ main' = "join"
          \/ next' = next /\ main' \in {"over", "crashed", "hung"}
      BY <1>2 DEF JoinThread
    <3> QED BY <3>1, <3>2, ThreadRange
  <2>1. TypeOK'
    BY <1>0, <1>2, <2>0 DEF JoinThread, TypeOK, locals, history
  <2>2. UNCHANGED <<pc, i, random_file, buffer, g_common_var, sem, used>>
    BY <1>2 DEF JoinThread, locals, history
  <2>3. main' = "join" => \A t \in Threads : t < next' => Ended(t)
    <3>1. main' = "join" => next' = next + 1 /\ Ended(next) /\ main = "join"
      BY <1>2 DEF JoinThread
    <3>2. next \in Nat /\ \A t \in Threads : t \in Nat
      BY ThreadRange DEF TypeOK
    <3>3. main = "join" => \A t \in Threads : t < next => Ended(t)
      OBVIOUS
    <3> HIDE DEF TypeInv, PlaceInv, SemInv, Ended
    <3>4. ASSUME main' = "join", NEW t \in Threads, t < next' PROVE Ended(t)
      <4>1. t < next \/ t = next
        BY <3>1, <3>2, <3>4
      <4> QED BY <3>1, <3>3, <3>4, <4>1
    <3> QED BY <3>4
  <2>4. main' = "over" => AllEnded
    <3>1. main' = "over" => ~(next < MAX_THREADS) /\ Ended(next) /\ main = "join"
      BY <1>2 DEF JoinThread, Ended
    <3> QED BY <3>1, ThreadRange DEF TypeOK, AllEnded
  <2>5. main' # "create"
    BY <2>0
  <2>6. (\A t \in Threads : Ended(t)' <=> Ended(t)) /\ (AllEnded' <=> AllEnded)
    BY <2>2 DEF Ended, AllEnded, Threads
  <2>7. PlaceInv'
    BY <2>2, <2>3, <2>4, <2>5, <2>6
  <2>8. SemInv'
    BY <2>2
  <2> QED BY <2>1, <2>7, <2>8
<1>3. ASSUME NEW t \in Threads, Thread(t) PROVE TypeInv'
  <2>0. /\ main # "over" /\ UNCHANGED <<main, next>>
        /\ pc[t] \notin {"none", "returned"} /\ pc'[t] # "none"
        /\ pc' \in [Threads -> Places]
        /\ \A u \in Threads : u # t => pc'[u] = pc[u]
    BY <1>3, ThreadFacts DEF mainVars, ProcessRuns
  <2>1. CASE Open(t)
    <3>1. TypeOK'
      BY <2>0, <2>1, TypeStep DEF mainVars
    <3>2. /\ UNCHANGED <<i, loaded, buffer, g_common_var, sem, output, used>>
          /\ pc[t] = "open" /\ pc'[t] \in {"wait", "returned"}
          /\ \A u \in Threads : u # t => random_file'[u] = random_file[u]
      BY <2>1 DEF Open, Goto, TypeOK, locals, history
    <3>3. PlaceInv'
      BY <2>0, <3>2
    <3>4. SemInv'
      BY <2>0, <3>2
    <3> QED BY <3>1, <3>3, <3>4
  <2>2. CASE SemWait(t)
    <3>0. sem[random_file[t]] = 1 /\ random_file[t] \in Files
      BY <2>2 DEF SemWait, TypeOK
    <3>1. TypeOK'
      <4>1. sem' \in [Files -> {0, 1}] /\ used' \subseteq Files
        BY <2>2, <3>0 DEF SemWait, TypeOK
      <4> QED BY <1>0, <2>0, <2>2, <4>1 DEF SemWait, TypeOK, locals
    <3>2. /\ UNCHANGED <<i, random_file, buffer, g_common_var>>
          /\ pc[t] = "wait" /\ pc'[t] = "load" /\ used' = used \cup {random_file[t]}
          /\ sem'[random_file[t]] = 0
          /\ \A f \in Files : f # random_file[t] => sem'[f] = sem[f]
      BY <2>2, <3>0 DEF SemWait, Goto, TypeOK, locals
    <3>3. PlaceInv'
      BY <2>0, <3>2
    <3>4. SemInv'
      <4>1. \A u \in Threads : u # t /\ pc[u] \in Crit =>
              sem[random_file[u]] = 0 /\ random_file[u] \in used /\ random_file[u] # random_file[t]
        BY <3>0
      <4>2. \A u \in Threads : u # t /\ pc'[u] \in Crit =>
              sem'[random_file'[u]] = 0 /\ random_file'[u] \in used' /\ random_file'[u] # random_file'[t]
        BY <2>0, <3>2, <4>1 DEF TypeOK
      <4>3. \A u, v \in Threads : u # v /\ u # t /\ v # t /\ pc'[u] \in Crit /\ pc'[v] \in Crit =>
              random_file'[u] # random_file'[v]
        BY <2>0, <3>2
      <4> QED BY <3>2, <4>2, <4>3
    <3> QED BY <3>1, <3>3, <3>4
  <2>3. CASE Load(t)
    <3>1. TypeOK'
      BY <2>0, <2>3, TypeStep DEF mainVars
    <3>2. /\ UNCHANGED <<i, random_file, buffer, g_common_var, sem, used>>
          /\ pc[t] = "load" /\ pc'[t] = "store"
      BY <2>3 DEF Load, Goto, TypeOK, history
    <3>3. PlaceInv'
      BY <2>0, <3>2
    <3>4. SemInv'
      BY <2>0, <3>2
    <3> QED BY <3>1, <3>3, <3>4
  <2>4. CASE Store(t)
    <3>1. TypeOK'
      BY <2>0, <2>4, TypeStep DEF mainVars
    <3>2. /\ UNCHANGED <<i, random_file, buffer, sem, used>> /\ g_common_var' > 0
          /\ pc[t] = "store" /\ pc'[t] = "print"
      BY <2>4 DEF Store, Goto, TypeOK
    <3>3. PlaceInv'
      BY <2>0, <3>2
    <3>4. SemInv'
      BY <2>0, <3>2
    <3> QED BY <3>1, <3>3, <3>4
  <2>5. CASE Fprintf(t)
    <3>1. TypeOK'
      BY <2>0, <2>5, TypeStep DEF mainVars
    <3>2. /\ UNCHANGED <<i, random_file, g_common_var, sem, used>>
          /\ g_common_var > 0 /\ buffer'[t] = g_common_var
          /\ \A u \in Threads : u # t => buffer'[u] = buffer[u]
          /\ pc[t] = "print" /\ pc'[t] = "post"
      BY <2>5 DEF Fprintf, Goto, TypeOK, history
    <3>3. PlaceInv'
      BY <2>0, <3>2
    <3>4. SemInv'
      BY <2>0, <3>2
    <3> QED BY <3>1, <3>3, <3>4
  <2>6. CASE SemPost(t)
    <3>0. sem[random_file[t]] = 0 /\ random_file[t] \in Files
      BY <2>6 DEF SemPost, Goto, TypeOK
    <3>1. TypeOK'
      <4>1. sem' \in [Files -> {0, 1}]
        BY <2>6, <3>0 DEF SemPost, TypeOK
      <4> QED BY <1>0, <2>0, <2>6, <4>1 DEF SemPost, TypeOK, locals, history
    <3>2. PlaceInv' /\ SemInv'
      BY <2>0, <2>6, <3>0 DEF SemPost, Goto, TypeOK, locals, history
    <3> QED BY <3>1, <3>2
  <2>7. CASE Close(t)
    <3>0. /\ pc[t] = "close" /\ i[t] \in 0..MAX_VALUE /\ i[t] < MAX_VALUE
          /\ pc'[t] = IF i[t] + 1 < MAX_VALUE THEN "open" ELSE "returned"
          /\ i' = [i EXCEPT ![t] = @ + 1]
      BY <2>7 DEF Close, Goto, TypeOK
    <3>1. TypeOK'
      <4>1. [by |-> t, n |-> buffer[t]] \in [by : Threads, n : Nat]
        BY DEF TypeOK
      <4>2. output' \in [Files -> Seq([by : Threads, n : Nat])]
        BY <2>7, <4>1 DEF Close, TypeOK
      <4>3. i' \in [Threads -> 0..MAX_VALUE]
        BY <3>0 DEF TypeOK
      <4> QED BY <1>0, <2>0, <2>7, <4>2, <4>3 DEF Close, TypeOK, Files, history
    <3>2. /\ UNCHANGED <<g_common_var, sem, used>>
          /\ i'[t] = i[t] + 1 /\ buffer'[t] = 0 /\ pc'[t] \in {"open", "returned"}
          /\ pc'[t] = "open" => i[t] + 1 < MAX_VALUE
          /\ \A u \in Threads : u # t => /\ random_file'[u] = random_file[u]
                                         /\ buffer'[u] = buffer[u] /\ i'[u] = i[u]
      BY <2>7, <3>0 DEF Close, TypeOK, history
    <3>3. PlaceInv'
      BY <2>0, <3>0, <3>2
    <3>4. SemInv'
      BY <2>0, <3>2
    <3> QED BY <3>1, <3>3, <3>4
  <2> QED BY <1>3, <2>1, <2>2, <2>3, <2>4, <2>5, <2>6, <2>7 DEF Thread
<1>4. CASE UNCHANGED vars
  <2>1. TypeOK'
    BY <1>0, <1>4 DEF vars, mainVars, locals, history, TypeOK
  <2>2. PlaceInv' /\ SemInv'
    BY <1>4 DEF vars, mainVars, locals, history
  <2> QED BY <2>1, <2>2
<1> QED BY <1>1, <1>2, <1>3, <1>4 DEF Next

(* Every variable keeps its type, and a semaphore is 0 or 1, for any number of threads. *)
THEOREM Typing == Spec => []TypeOK
<1>1. Spec => []TypeInv
  BY TypeInit, TypeNext, PTL DEF Spec
<1> QED BY <1>1, PTL DEF TypeInv
-----------------------------------------------------------------------------
(***************************************************************************)
(* The counter: whoever increments it while one file is used is alone.     *)
(***************************************************************************)
LEMMA OneInCrit ==
  ASSUME TypeInv, used # Files,
         NEW t \in Threads, NEW u \in Threads, pc[t] \in Crit, pc[u] \in Crit
  PROVE  t = u
<1>1. random_file[t] \in used /\ random_file[u] \in used /\ used \subseteq {1, 2} /\ used # {1, 2}
  BY DEF TypeInv, TypeOK, SemInv, Files
<1>2. random_file[t] = random_file[u]
  BY <1>1
<1> QED BY <1>2 DEF TypeInv, SemInv

LEMMA IntactStore ==
  ASSUME NEW t \in Threads, Store(t)
  PROVE  Intact' <=> Intact /\ g_common_var = loaded[t]
<1>1. torn' = (torn \/ g_common_var # loaded[t])
  BY DEF Store
<1> QED BY <1>1, Zenon DEF Intact

\* The steps that neither number a line nor move one.
QuietSteps ==
  \/ CreateThread \/ JoinThread \/ UNCHANGED vars
  \/ \E t \in Threads : Open(t) \/ SemWait(t) \/ Load(t) \/ SemPost(t)

LEMMA NextCases == [Next]_vars => QuietSteps \/ \E t \in Threads : Store(t) \/ Fprintf(t) \/ Close(t)
  BY Zenon DEF Next, Thread, QuietSteps

\* They leave t where it is, as far as numbers go.
QuietFor(t) ==
  /\ pc'[t] \in Buffered <=> pc[t] \in Buffered
  /\ pc'[t] = "print" <=> pc[t] = "print"
  /\ pc'[t] = "store" => \/ pc[t] = "store" /\ loaded'[t] = loaded[t]
                         \/ loaded'[t] = g_common_var
  /\ pc[t] \in Buffered \cup {"print"} => random_file'[t] = random_file[t]

LEMMA Quiet ==
  ASSUME TypeInv, QuietSteps
  PROVE  /\ UNCHANGED <<i, buffer, g_common_var, output>>
         /\ Intact' <=> Intact
         /\ used \subseteq used' /\ used' \subseteq Files
         /\ \A t \in Threads : QuietFor(t)
<1>1. UNCHANGED <<i, buffer, g_common_var, output, torn>>
  BY Zenon DEF QuietSteps, CreateThread, JoinThread, Open, SemWait, Load, SemPost, vars, locals, history
<1>2. Intact' <=> Intact
  BY <1>1, Zenon DEF Intact
<1>3. used \subseteq used' /\ used' \subseteq Files
  BY DEF QuietSteps, CreateThread, JoinThread, Open, SemWait, Load, SemPost, vars, locals, history, TypeInv, TypeOK
<1> USE DEF TypeInv, TypeOK, Buffered, QuietFor
<1>4. ASSUME CreateThread, NEW t \in Threads PROVE QuietFor(t)
  <2>1. pc[next] = "none"
    BY <1>4, ThreadRange DEF CreateThread, PlaceInv
  <2> QED BY <1>4, <2>1 DEF CreateThread, locals
<1>5. ASSUME JoinThread \/ UNCHANGED vars, NEW t \in Threads PROVE QuietFor(t)
  BY <1>5 DEF JoinThread, vars, locals
<1>6. ASSUME NEW u \in Threads, Open(u), NEW t \in Threads PROVE QuietFor(t)
  BY <1>6 DEF Open, Goto, locals
<1>7. ASSUME NEW u \in Threads, SemWait(u) \/ SemPost(u), NEW t \in Threads PROVE QuietFor(t)
  BY <1>7 DEF SemWait, SemPost, Goto, locals
<1>8. ASSUME NEW u \in Threads, Load(u), NEW t \in Threads PROVE QuietFor(t)
  BY <1>8 DEF Load, Goto
<1>9. \A t \in Threads : QuietFor(t)
  <2> HIDE DEF QuietFor
  <2> QED BY <1>4, <1>5, <1>6, <1>7, <1>8, Zenon DEF QuietSteps
<1> QED BY <1>1, <1>2, <1>3, <1>9

\* What the other three do to the places of the threads.
LEMMA StoreFacts ==
  ASSUME TypeInv, NEW t \in Threads, Store(t)
  PROVE  /\ pc[t] = "store" /\ pc'[t] = "print" /\ g_common_var' = loaded[t] + 1
         /\ \A u \in Threads : u # t => pc'[u] = pc[u] /\ loaded'[u] = loaded[u]
         /\ UNCHANGED <<i, random_file, buffer, output, used>>
  BY DEF Store, Goto, TypeInv, TypeOK

LEMMA FprintfFacts ==
  ASSUME TypeInv, NEW t \in Threads, Fprintf(t)
  PROVE  /\ pc[t] = "print" /\ pc'[t] = "post" /\ buffer'[t] = g_common_var
         /\ \A u \in Threads : u # t => pc'[u] = pc[u] /\ buffer'[u] = buffer[u]
         /\ UNCHANGED <<i, random_file, loaded, g_common_var, output, used>>
         /\ Intact' <=> Intact
<1>1. torn' = torn
  BY DEF Fprintf, history
<1>2. Intact' <=> Intact
  BY <1>1, Zenon DEF Intact
<1> QED BY <1>2 DEF Fprintf, Goto, TypeInv, TypeOK, history

LEMMA CloseFacts ==
  ASSUME TypeInv, NEW t \in Threads, Close(t)
  PROVE  /\ pc[t] = "close" /\ pc'[t] \in {"open", "returned"} /\ buffer'[t] = 0
         /\ \A u \in Threads : u # t => /\ pc'[u] = pc[u] /\ buffer'[u] = buffer[u]
                                        /\ random_file'[u] = random_file[u] /\ i'[u] = i[u]
         /\ i'[t] = i[t] + 1
         /\ random_file[t] \in Files
         /\ output'[random_file[t]] = Append(output[random_file[t]], [by |-> t, n |-> buffer[t]])
         /\ \A f \in Files : f # random_file[t] => output'[f] = output[f]
         /\ UNCHANGED <<loaded, g_common_var, used>>
         /\ Intact' <=> Intact
<1>1. torn' = torn
  BY DEF Close, history
<1>2. Intact' <=> Intact
  BY <1>1, Zenon DEF Intact
<1>3. /\ pc[t] = "close" /\ pc'[t] \in {"open", "returned"} /\ buffer'[t] = 0
      /\ \A u \in Threads : u # t => /\ pc'[u] = pc[u] /\ buffer'[u] = buffer[u]
                                     /\ random_file'[u] = random_file[u] /\ i'[u] = i[u]
      /\ i'[t] = i[t] + 1
      /\ random_file[t] \in Files
      /\ UNCHANGED <<loaded, g_common_var, used>>
  BY DEF Close, Goto, TypeInv, TypeOK, NoLine, history
<1>4. /\ output'[random_file[t]] = Append(output[random_file[t]], [by |-> t, n |-> buffer[t]])
      /\ \A f \in Files : f # random_file[t] => output'[f] = output[f]
  BY <1>3 DEF Close, TypeInv, TypeOK
<1> QED BY <1>2, <1>3, <1>4

LEMMA LoadNext == TypeInv /\ LoadInv /\ [Next]_vars => LoadInv'
<1> SUFFICES ASSUME TypeInv, LoadInv, [Next]_vars PROVE LoadInv'
  OBVIOUS
<1>0. UNCHANGED Files
  BY DEF Files
<1>1. CASE QuietSteps
  <2>1. used' # Files => used # Files
    BY <1>1, Quiet DEF TypeInv, TypeOK
  <2>2. used # Files => Intact'
    BY <1>1, Quiet DEF LoadInv
  <2>3. used # Files => \A t \in Threads : pc'[t] = "store" => loaded'[t] = g_common_var'
    <3>1. g_common_var' = g_common_var
      BY <1>1, Quiet
    <3>2. \A t \in Threads : pc'[t] = "store" => \/ pc[t] = "store" /\ loaded'[t] = loaded[t]
                                                 \/ loaded'[t] = g_common_var
      BY <1>1, Quiet DEF QuietFor
    <3> QED BY <3>1, <3>2 DEF LoadInv
  <2>4. UNCHANGED Threads
    BY DEF Threads
  <2> QED BY <1>0, <2>1, <2>2, <2>3, <2>4 DEF LoadInv
<1>2. ASSUME NEW t \in Threads, Store(t) PROVE LoadInv'
  <2>1. used # Files => loaded[t] = g_common_var /\ Intact
    BY <1>2, StoreFacts DEF LoadInv
  <2>2. used # Files => Intact'
    BY <1>2, <2>1, IntactStore
  <2>3. used # Files => \A u \in Threads : pc'[u] # "store"
    BY <1>2, StoreFacts, OneInCrit DEF Crit
  <2> QED BY <1>0, <1>2, <2>2, <2>3, StoreFacts DEF LoadInv
<1>3. ASSUME NEW t \in Threads, Fprintf(t) PROVE LoadInv'
  BY <1>0, <1>3, FprintfFacts DEF LoadInv
<1>4. ASSUME NEW t \in Threads, Close(t) PROVE LoadInv'
  BY <1>0, <1>4, CloseFacts DEF LoadInv
<1> QED BY <1>1, <1>2, <1>3, <1>4, NextCases
-----------------------------------------------------------------------------
(***************************************************************************)
(* The numbers in a file, as long as no increment was overwritten.         *)
(***************************************************************************)
LEMMA OutputType == TypeOK => \A f \in Files : output[f] \in Seq([by : Threads, n : Nat])
  BY DEF TypeOK

LEMMA ElementType == ASSUME NEW S, NEW s \in Seq(S), NEW j \in DOMAIN s PROVE s[j] \in S
  OBVIOUS

LEMMA NumberTypes ==
  ASSUME TypeInv
  PROVE  /\ g_common_var \in Nat
         /\ \A u \in Threads : buffer[u] \in Nat /\ random_file[u] \in Files
         /\ \A f \in Files : \A j \in DOMAIN output[f] : output[f][j].n \in Nat
<1>1. ASSUME NEW f \in Files, NEW j \in DOMAIN output[f] PROVE output[f][j].n \in Nat
  <2>1. output[f] \in Seq([by : Threads, n : Nat])
    BY OutputType DEF TypeInv
  <2>2. output[f][j] \in [by : Threads, n : Nat]
    BY <1>1, <2>1, ElementType, Zenon
  <2> QED BY <2>2
<1> QED BY <1>1 DEF TypeInv, TypeOK

\* The steps that leave the numbers as they are.
LEMMA QuietNumbers == TypeInv /\ NumberInv /\ QuietSteps => NumberInv'
<1> SUFFICES ASSUME TypeInv, NumberInv, QuietSteps, Intact' PROVE (BuffersNew /\ NumberNew /\ \A f \in Files : InOrder(f))'
  BY DEF NumberInv
<1>1. UNCHANGED <<buffer, g_common_var, output>> /\ Intact
  BY Quiet
<1>2. \A t \in Threads : /\ pc'[t] \in Buffered <=> pc[t] \in Buffered
                         /\ pc'[t] = "print" <=> pc[t] = "print"
                         /\ pc[t] \in Buffered \cup {"print"} => random_file'[t] = random_file[t]
  BY Quiet DEF QuietFor
<1>3. BuffersNew /\ NumberNew /\ \A f \in Files : InOrder(f)
  BY <1>1 DEF NumberInv
<1>4. BuffersNew'
  BY <1>1, <1>2, <1>3 DEF BuffersNew
<1>5. NumberNew'
  BY <1>1, <1>2, <1>3 DEF NumberNew
<1>6. (\A f \in Files : InOrder(f))'
  BY <1>1, <1>3 DEF InOrder
<1> QED BY <1>4, <1>5, <1>6

LEMMA StoreNumbers == ASSUME TypeInv, NumberInv, NEW t \in Threads, Store(t) PROVE NumberInv'
<1> SUFFICES ASSUME Intact' PROVE (BuffersNew /\ NumberNew /\ \A f \in Files : InOrder(f))'
  BY DEF NumberInv
<1>1. /\ pc[t] = "store" /\ pc'[t] = "print" /\ g_common_var' = g_common_var + 1
      /\ \A u \in Threads : u # t => pc'[u] = pc[u]
      /\ UNCHANGED <<random_file, buffer, output>>
  BY StoreFacts, IntactStore
<1>2. BuffersNew /\ NumberNew /\ \A f \in Files : InOrder(f)
  BY IntactStore DEF NumberInv
<1>3. BuffersNew'
  BY <1>1, <1>2 DEF BuffersNew, Buffered
<1>4. NumberNew'
  <2>1. /\ g_common_var \in Nat
        /\ \A u \in Threads : buffer[u] \in Nat /\ random_file[u] \in Files
        /\ \A f \in Files : \A j \in DOMAIN output[f] : output[f][j].n \in Nat
    BY NumberTypes
  <2>2. /\ \A f \in Files : \A j \in DOMAIN output[f] : output[f][j].n < g_common_var + 1
        /\ \A u \in Threads : buffer[u] < g_common_var + 1
    BY <1>2, <2>1 DEF NumberNew
  <2>3. \A x \in Nat : x < g_common_var + 1 => x <= g_common_var + 1
    BY <2>1
  <2> QED BY <1>1, <2>1, <2>2, <2>3 DEF NumberNew
<1>5. (\A f \in Files : InOrder(f))'
  BY <1>1, <1>2 DEF InOrder
<1> QED BY <1>3, <1>4, <1>5

LEMMA FprintfNumbers == ASSUME TypeInv, NumberInv, NEW t \in Threads, Fprintf(t) PROVE NumberInv'
<1> SUFFICES ASSUME Intact' PROVE (BuffersNew /\ NumberNew /\ \A f \in Files : InOrder(f))'
  BY DEF NumberInv
<1>1. /\ pc[t] = "print" /\ pc'[t] = "post" /\ buffer'[t] = g_common_var
      /\ \A u \in Threads : u # t => pc'[u] = pc[u] /\ buffer'[u] = buffer[u]
      /\ UNCHANGED <<random_file, g_common_var, output>>
  BY FprintfFacts
<1>2. BuffersNew /\ NumberNew /\ \A f \in Files : InOrder(f)
  BY FprintfFacts DEF NumberInv
<1>3. /\ g_common_var \in Nat
      /\ \A u \in Threads : buffer[u] \in Nat /\ random_file[u] \in Files
      /\ \A f \in Files : \A j \in DOMAIN output[f] : output[f][j].n \in Nat
  BY NumberTypes
<1>4. BuffersNew'
  <2>1. ASSUME NEW u \in Threads, NEW v \in Threads, u # v, pc'[u] \in Buffered, pc'[v] \in Buffered,
               random_file[u] = random_file[v]
        PROVE  buffer'[u] # buffer'[v]
    BY <1>1, <1>2, <1>3, <2>1 DEF BuffersNew, NumberNew
  <2>2. ASSUME NEW u \in Threads, pc'[u] \in Buffered, NEW j \in DOMAIN output[random_file[u]]
        PROVE  /\ output[random_file[u]][j].n # buffer'[u]
               /\ output[random_file[u]][j].by = u => output[random_file[u]][j].n < buffer'[u]
    <3>1. CASE u = t
      BY <1>1, <1>2, <1>3, <2>2, <3>1 DEF NumberNew
    <3>2. CASE u # t
      BY <1>1, <1>2, <2>2, <3>2 DEF BuffersNew
    <3> QED BY <3>1, <3>2
  <2> QED BY <1>1, <2>1, <2>2 DEF BuffersNew
<1>5. NumberNew'
  <2>1. \A u \in Threads : buffer'[u] <= g_common_var
    BY <1>1, <1>2, <1>3 DEF NumberNew
  <2>2. ASSUME NEW u \in Threads, pc'[u] = "print"
        PROVE  /\ u # t /\ pc[u] = "print" /\ random_file[u] # random_file[t]
    BY <1>1, <2>2 DEF TypeInv, SemInv, Crit
  <2>3. ASSUME NEW u \in Threads, pc'[u] = "print", NEW v \in Threads, pc'[v] \in Buffered,
               random_file[v] = random_file[u]
        PROVE  buffer'[v] < g_common_var
    BY <1>1, <1>2, <2>2, <2>3 DEF NumberNew
  <2>4. \A u \in Threads : pc'[u] = "print" =>
          \A j \in DOMAIN output[random_file[u]] : output[random_file[u]][j].n < g_common_var
    BY <1>2, <2>2 DEF NumberNew
  <2> QED BY <1>1, <1>2, <2>1, <2>3, <2>4 DEF NumberNew
<1>6. (\A f \in Files : InOrder(f))'
  BY <1>1, <1>2 DEF InOrder
<1> QED BY <1>4, <1>5, <1>6

\* What an appended line adds.
LEMMA Appended ==
  ASSUME NEW s \in Seq([by : Threads, n : Nat]), NEW e \in [by : Threads, n : Nat]
  PROVE  /\ DOMAIN Append(s, e) = DOMAIN s \cup {Len(s) + 1} /\ DOMAIN s = 1..Len(s) /\ Len(s) \in Nat
         /\ \A j \in DOMAIN s : Append(s, e)[j] = s[j] /\ j \in Nat /\ j <= Len(s)
         /\ Append(s, e)[Len(s) + 1] = e
  OBVIOUS

LEMMA CloseNumbers == ASSUME TypeInv, NumberInv, NEW t \in Threads, Close(t) PROVE NumberInv'
<1> SUFFICES ASSUME Intact' PROVE (BuffersNew /\ NumberNew /\ \A f \in Files : InOrder(f))'
  BY DEF NumberInv
<1> DEFINE g == random_file[t]
           s == output[g]
           e == [by |-> t, n |-> buffer[t]]
           last == Len(s) + 1
<1>1. /\ pc[t] = "close" /\ pc'[t] \in {"open", "returned"} /\ buffer'[t] = 0
      /\ \A u \in Threads : u # t => /\ pc'[u] = pc[u] /\ buffer'[u] = buffer[u]
                                     /\ random_file'[u] = random_file[u]
      /\ g \in Files
      /\ output'[g] = Append(s, e)
      /\ \A f \in Files : f # g => output'[f] = output[f]
      /\ g_common_var' = g_common_var
  BY CloseFacts
<1>2. BuffersNew /\ NumberNew /\ \A f \in Files : InOrder(f)
  BY CloseFacts DEF NumberInv
<1>3. /\ g_common_var \in Nat
      /\ \A u \in Threads : buffer[u] \in Nat /\ random_file[u] \in Files
      /\ \A f \in Files : \A j \in DOMAIN output[f] : output[f][j].n \in Nat
  BY NumberTypes
<1>4. /\ DOMAIN output'[g] = DOMAIN s \cup {last} /\ last \in Nat
      /\ \A j \in DOMAIN s : output'[g][j] = s[j] /\ j \in Nat /\ j < last
      /\ output'[g][last] = e /\ e.by = t /\ e.n = buffer[t]
  <2>1. s \in Seq([by : Threads, n : Nat]) /\ e \in [by : Threads, n : Nat]
    BY <1>1, <1>3, OutputType DEF TypeInv
  <2> HIDE DEF s, e
  <2>2. /\ DOMAIN output'[g] = DOMAIN s \cup {last} /\ last \in Nat /\ output'[g][last] = e
        /\ \A j \in DOMAIN s : output'[g][j] = s[j] /\ j \in Nat /\ j < last
    BY <1>1, <2>1, Appended
  <2> QED BY <2>2 DEF e
<1>5. \A j \in DOMAIN s : s[j].n # buffer[t] /\ (s[j].by = t => s[j].n < buffer[t])
  BY <1>1, <1>2 DEF BuffersNew, Buffered
<1> HIDE DEF s, e, last
<1>6. BuffersNew'
  <2>1. ASSUME NEW u \in Threads, pc'[u] \in Buffered
        PROVE  u # t /\ pc[u] \in Buffered /\ buffer'[u] = buffer[u] /\ random_file'[u] = random_file[u]
               /\ random_file[u] \in Files
    BY <1>1, <1>3, <2>1 DEF Buffered
  <2>2. ASSUME NEW u \in Threads, pc'[u] \in Buffered, NEW j \in DOMAIN output'[random_file[u]]
        PROVE  /\ output'[random_file[u]][j].n # buffer[u]
               /\ output'[random_file[u]][j].by = u => output'[random_file[u]][j].n < buffer[u]
    <3>1. CASE random_file[u] = g /\ j = last
      <4>1. buffer[t] # buffer[u] /\ u # t
        BY <1>1, <1>2, <2>1, <2>2, <3>1 DEF BuffersNew, Buffered
      <4> QED BY <1>4, <3>1, <4>1
    <3>2. CASE random_file[u] = g /\ j # last
      <4>1. j \in DOMAIN s /\ output'[random_file[u]][j] = output[random_file[u]][j]
        BY <1>4, <2>2, <3>2 DEF s
      <4> QED BY <1>2, <2>1, <2>2, <3>2, <4>1 DEF BuffersNew, s
    <3>3. CASE random_file[u] # g
      BY <1>1, <1>2, <2>1, <2>2, <3>3 DEF BuffersNew
    <3> QED BY <3>1, <3>2, <3>3
  <2>3. ASSUME NEW u \in Threads, NEW v \in Threads, u # v, pc'[u] \in Buffered, pc'[v] \in Buffered,
               random_file'[u] = random_file'[v]
        PROVE  buffer'[u] # buffer'[v]
    BY <1>2, <2>1, <2>3 DEF BuffersNew
  <2> QED BY <2>1, <2>2, <2>3 DEF BuffersNew
<1>7. NumberNew'
  <2>1. ASSUME NEW f \in Files, NEW j \in DOMAIN output'[f]
        PROVE  output'[f][j].n <= g_common_var
    <3>1. CASE f = g /\ j = last
      BY <1>2, <1>4, <3>1 DEF NumberNew
    <3>2. CASE f = g /\ j # last
      BY <1>1, <1>2, <1>4, <2>1, <3>2 DEF NumberNew, s
    <3>3. CASE f # g
      BY <1>1, <1>2, <2>1, <3>3 DEF NumberNew
    <3> QED BY <3>1, <3>2, <3>3
  <2>2. \A u \in Threads : buffer'[u] <= g_common_var
    BY <1>1, <1>2, <1>3 DEF NumberNew
  <2>3. ASSUME NEW u \in Threads, pc'[u] = "print"
        PROVE  u # t /\ pc[u] = "print" /\ random_file'[u] = random_file[u] /\ random_file[u] \in Files
    BY <1>1, <1>3, <2>3
  <2>4. ASSUME NEW u \in Threads, pc'[u] = "print", NEW j \in DOMAIN output'[random_file[u]]
        PROVE  output'[random_file[u]][j].n < g_common_var
    <3>1. CASE random_file[u] = g /\ j = last
      BY <1>1, <1>2, <1>4, <2>3, <2>4, <3>1 DEF NumberNew, Buffered
    <3>2. CASE random_file[u] = g /\ j # last
      BY <1>2, <1>4, <2>3, <2>4, <3>2 DEF NumberNew, s
    <3>3. CASE random_file[u] # g
      BY <1>1, <1>2, <2>3, <2>4, <3>3 DEF NumberNew
    <3> QED BY <3>1, <3>2, <3>3
  <2>5. ASSUME NEW u \in Threads, pc'[u] = "print", NEW v \in Threads, pc'[v] \in Buffered,
               random_file'[v] = random_file'[u]
        PROVE  buffer'[v] < g_common_var
    BY <1>1, <1>2, <2>3, <2>5 DEF NumberNew, Buffered
  <2> QED BY <1>1, <2>1, <2>2, <2>3, <2>4, <2>5 DEF NumberNew
<1>8. ASSUME NEW f \in Files PROVE InOrder(f)'
  <2>1. CASE f # g
    BY <1>1, <1>2, <2>1 DEF InOrder
  <2>2. CASE f = g
    <3> SUFFICES ASSUME NEW j \in DOMAIN output'[g], NEW k \in DOMAIN output'[g], j < k
                 PROVE  /\ output'[g][j].n # output'[g][k].n
                        /\ output'[g][j].by = output'[g][k].by => output'[g][j].n < output'[g][k].n
      BY <2>2 DEF InOrder
    <3>1. j \in DOMAIN s
      BY <1>4
    <3>2. CASE k = last
      BY <1>4, <1>5, <3>1, <3>2
    <3>3. CASE k # last
      BY <1>1, <1>2, <1>4, <3>1, <3>3 DEF InOrder, s
    <3> QED BY <3>2, <3>3
  <2> QED BY <2>1, <2>2
<1>9. UNCHANGED Files
  BY DEF Files
<1> QED BY <1>6, <1>7, <1>8, <1>9

LEMMA NumberNext == TypeInv /\ NumberInv /\ [Next]_vars => NumberInv'
  BY NextCases, QuietNumbers, StoreNumbers, FprintfNumbers, CloseNumbers, Zenon

LEMMA LineInit == Init => LoadInv /\ NumberInv
<1> SUFFICES ASSUME Init PROVE LoadInv /\ NumberInv
  OBVIOUS
<1>1. Intact
  BY Zenon DEF Init, Intact
<1>2. LoadInv
  BY <1>1 DEF Init, LoadInv
<1>3. \A f \in Files : DOMAIN output[f] = {}
  BY DEF Init
<1>4. \A t \in Threads : pc[t] = "none" /\ buffer[t] = 0
  BY DEF Init, NoLine
<1>5. g_common_var = 0 /\ \A t \in Threads : random_file[t] \in Files
  BY DEF Init, Files
<1>6. NumberInv
  BY <1>3, <1>4, <1>5 DEF NumberInv, BuffersNew, NumberNew, InOrder, Buffered
<1> QED BY <1>2, <1>6

(* In one file no number occurs twice and those of one thread grow, unless an increment *)
(* was overwritten, which takes both files.                                             *)
THEOREM Numbering == Spec => []NumbersInFile
<1>1. TypeInv /\ LoadInv /\ NumberInv => NumbersInFile
  <2> SUFFICES ASSUME TypeInv, LoadInv, NumberInv PROVE NumbersInFile
    OBVIOUS
  <2>1. CASE Intact
    BY <2>1 DEF NumberInv, InOrder, NumbersInFile
  <2>2. CASE ~Intact
    <3>1. used = Files
      BY <2>2 DEF LoadInv
    <3>2. torn
      BY <2>2, Zenon DEF Intact
    <3> QED BY <3>1, <3>2, Zenon DEF NumbersInFile
  <2> QED BY <2>1, <2>2
<1> QED BY <1>1, TypeInit, TypeNext, LineInit, LoadNext, NumberNext, PTL DEF Spec
-----------------------------------------------------------------------------
(***************************************************************************)
(* While one file is used, the numbers have no gap.                        *)
(***************************************************************************)
\* Numbers of any lines o and buffers l.
Shown(o, l) == (UNION {{o[f][j].n : j \in DOMAIN o[f]} : f \in Files})
               \cup {l[t] : t \in {u \in Threads : l[u] # NoLine}}

LEMMA ShownAre ==
  ASSUME NEW o, NEW l, NEW m
  PROVE  m \in Shown(o, l) <=> \/ \E f \in Files : \E j \in DOMAIN o[f] : o[f][j].n = m
                             \/ \E t \in Threads : l[t] # 0 /\ l[t] = m
<1>1. m \in UNION {{o[f][j].n : j \in DOMAIN o[f]} : f \in Files}
      <=> \E f \in Files : \E j \in DOMAIN o[f] : o[f][j].n = m
  <2>1. m \in UNION {{o[f][j].n : j \in DOMAIN o[f]} : f \in Files}
        <=> \E f \in Files : m \in {o[f][j].n : j \in DOMAIN o[f]}
    BY Zenon
  <2> QED BY <2>1, Zenon
<1>2. m \in {l[t] : t \in {u \in Threads : l[u] # NoLine}} <=> \E t \in Threads : l[t] # 0 /\ l[t] = m
  BY Zenon DEF NoLine
<1> QED BY <1>1, <1>2, Zenon DEF Shown

LEMMA NumbersAre ==
  \A m : m \in Numbers <=> \/ \E f \in Files : \E j \in DOMAIN output[f] : output[f][j].n = m
                          \/ \E t \in Threads : buffer[t] # 0 /\ buffer[t] = m
<1>1. Numbers = Shown(output, buffer)
  BY Zenon DEF Numbers, Shown
<1>2. \A m : m \in Shown(output, buffer) <=> \/ \E f \in Files : \E j \in DOMAIN output[f] : output[f][j].n = m
                                             \/ \E t \in Threads : buffer[t] # 0 /\ buffer[t] = m
  BY ShownAre
<1> QED BY <1>1, <1>2

LEMMA NumbersWillBe ==
  \A m : m \in Numbers' <=> \/ \E f \in Files : \E j \in DOMAIN output'[f] : output'[f][j].n = m
                           \/ \E t \in Threads : buffer'[t] # 0 /\ buffer'[t] = m
<1>1. Numbers' = Shown(output', buffer')
  BY Zenon DEF Numbers, Shown, Files, Threads, NoLine
<1>2. \A m : m \in Shown(output', buffer') <=> \/ \E f \in Files : \E j \in DOMAIN output'[f] : output'[f][j].n = m
                                               \/ \E t \in Threads : buffer'[t] # 0 /\ buffer'[t] = m
  BY ShownAre
<1> QED BY <1>1, <1>2

LEMMA SameNumbers == UNCHANGED <<output, buffer>> => Numbers' = Numbers
  BY DEF Numbers

LEMMA CountNext == TypeInv /\ LoadInv /\ CountInv /\ [Next]_vars => CountInv'
<1> SUFFICES ASSUME TypeInv, LoadInv, CountInv, [Next]_vars PROVE CountInv'
  OBVIOUS
<1>0. UNCHANGED <<Files, Threads>>
  BY DEF Files, Threads
<1>1. CASE QuietSteps
  <2>1. UNCHANGED <<Numbers, g_common_var>> /\ (used' # Files => used # Files)
    BY <1>1, Quiet, SameNumbers DEF TypeInv, TypeOK
  <2>2. \A t \in Threads : pc'[t] = "print" <=> pc[t] = "print"
    BY <1>1, Quiet DEF QuietFor
  <2> QED BY <1>0, <2>1, <2>2 DEF CountInv
<1>2. ASSUME NEW t \in Threads, Store(t) PROVE CountInv'
  <2> SUFFICES ASSUME used' # Files
               PROVE  /\ \A u \in Threads : pc'[u] = "print" => Numbers' = 1..(g_common_var' - 1)
                      /\ (\A u \in Threads : pc'[u] # "print") => Numbers' = 1..g_common_var'
    BY <1>0 DEF CountInv
  <2>1. /\ pc[t] = "store" /\ pc'[t] = "print" /\ g_common_var' = loaded[t] + 1
        /\ UNCHANGED <<buffer, output, used>>
    BY <1>2, StoreFacts
  <2>2. loaded[t] = g_common_var /\ g_common_var \in Nat
    BY <1>0, <2>1, NumberTypes DEF LoadInv
  <2>3. \A u \in Threads : pc[u] # "print"
    BY <1>0, <2>1, OneInCrit DEF Crit
  <2>4. Numbers = 1..g_common_var
    BY <1>0, <2>1, <2>3 DEF CountInv
  <2>5. Numbers' = 1..(g_common_var' - 1)
    BY <2>1, <2>2, <2>4, SameNumbers
  <2> QED BY <2>1, <2>5
<1>3. ASSUME NEW t \in Threads, Fprintf(t) PROVE CountInv'
  <2> SUFFICES ASSUME used' # Files
               PROVE  /\ \A u \in Threads : pc'[u] = "print" => Numbers' = 1..(g_common_var' - 1)
                      /\ (\A u \in Threads : pc'[u] # "print") => Numbers' = 1..g_common_var'
    BY <1>0 DEF CountInv
  <2>1. /\ pc[t] = "print" /\ pc'[t] = "post" /\ buffer'[t] = g_common_var
        /\ \A u \in Threads : u # t => pc'[u] = pc[u] /\ buffer'[u] = buffer[u]
        /\ UNCHANGED <<g_common_var, output, used>>
    BY <1>3, FprintfFacts
  <2>2. g_common_var \in Nat /\ g_common_var > 0 /\ buffer[t] = 0
    BY <2>1, NumberTypes DEF TypeInv, PlaceInv, Buffered, NoLine
  <2>3. \A u \in Threads : pc'[u] # "print"
    BY <1>0, <2>1, OneInCrit DEF Crit
  <2>4. Numbers = 1..(g_common_var - 1)
    BY <1>0, <2>1 DEF CountInv
  <2>5. \A m : m \in Numbers' <=> m \in Numbers \/ m = g_common_var
    BY <2>1, <2>2, NumbersAre, NumbersWillBe
  <2>6. Numbers' = 1..g_common_var
    <3>1. \A m : m \in 1..g_common_var <=> m \in 1..(g_common_var - 1) \/ m = g_common_var
      BY <2>2
    <3>2. \A m : m \in Numbers' <=> m \in 1..g_common_var
      BY <2>4, <2>5, <3>1
    <3> QED BY <3>2
  <2> QED BY <2>1, <2>3, <2>6
<1>4. ASSUME NEW t \in Threads, Close(t) PROVE CountInv'
  <2> DEFINE g == random_file[t]
             s == output[g]
             e == [by |-> t, n |-> buffer[t]]
             last == Len(s) + 1
  <2>1. /\ pc[t] = "close" /\ pc'[t] \in {"open", "returned"} /\ buffer'[t] = 0
        /\ \A u \in Threads : u # t => pc'[u] = pc[u] /\ buffer'[u] = buffer[u]
        /\ g \in Files
        /\ output'[g] = Append(s, e)
        /\ \A f \in Files : f # g => output'[f] = output[f]
        /\ UNCHANGED <<g_common_var, used>>
    BY <1>4, CloseFacts
  <2>2. buffer[t] # 0 /\ buffer[t] \in Nat
    BY <2>1, NumberTypes DEF TypeInv, PlaceInv, Buffered, NoLine
  <2>3. /\ DOMAIN output'[g] = DOMAIN s \cup {last}
        /\ \A j \in DOMAIN s : output'[g][j] = s[j]
        /\ output'[g][last].n = buffer[t] 
    <3>1. s \in Seq([by : Threads, n : Nat]) /\ e \in [by : Threads, n : Nat]
      BY <2>1, <2>2, OutputType DEF TypeInv
    <3>2. e.n = buffer[t]
      OBVIOUS
    <3> HIDE DEF s, e
    <3> QED BY <2>1, <3>1, <3>2, Appended
  <2> HIDE DEF s, e, last
  <2>4. \A m : m \in Numbers' <=> m \in Numbers
    <3>1. \A m : (\E f \in Files : \E j \in DOMAIN output'[f] : output'[f][j].n = m)
                <=> (\E f \in Files : \E j \in DOMAIN output[f] : output[f][j].n = m) \/ m = buffer[t]
      <4>1. ASSUME NEW f \in Files, NEW j \in DOMAIN output'[f]
            PROVE  \/ \E k \in DOMAIN output[f] : output[f][k].n = output'[f][j].n
                   \/ output'[f][j].n = buffer[t]
        BY <2>1, <2>3, <4>1 DEF s
      <4>2. ASSUME NEW f \in Files, NEW j \in DOMAIN output[f]
            PROVE  j \in DOMAIN output'[f] /\ output'[f][j] = output[f][j]
        BY <2>1, <2>3, <4>2 DEF s
      <4> QED BY <2>1, <2>3, <4>1, <4>2
    <3>2. \A m : (\E u \in Threads : buffer[u] # 0 /\ buffer[u] = m)
                <=> (\E u \in Threads : buffer'[u] # 0 /\ buffer'[u] = m) \/ m = buffer[t]
      BY <2>1, <2>2
    <3> QED BY <3>1, <3>2, NumbersAre, NumbersWillBe
  <2>5. Numbers' = Numbers
    BY <2>4
  <2>6. \A u \in Threads : pc'[u] = "print" <=> pc[u] = "print"
    BY <2>1
  <2> QED BY <1>0, <2>1, <2>5, <2>6 DEF CountInv
<1> QED BY <1>1, <1>2, <1>3, <1>4, NextCases

LEMMA CountInit == Init => CountInv
<1> SUFFICES ASSUME Init PROVE CountInv
  OBVIOUS
<1>1. \A f \in Files : DOMAIN output[f] = {}
  BY DEF Init
<1>2. g_common_var = 0 /\ \A t \in Threads : pc[t] = "none" /\ buffer[t] = 0
  BY DEF Init, NoLine
<1>3. \A m : m \notin Numbers
  BY <1>1, <1>2, NumbersAre
<1>4. Numbers = 1..g_common_var
  BY <1>2, <1>3
<1> QED BY <1>2, <1>4 DEF CountInv

(* While one file is used the numbers in it and on the way to it are 1, 2, 3, ... *)
THEOREM Counting == Spec => []OneFileCounts
<1>1. CountInv => OneFileCounts
  BY DEF CountInv, OneFileCounts
<1> QED BY <1>1, TypeInit, TypeNext, LineInit, LoadNext, CountInit, CountNext, PTL DEF Spec
-----------------------------------------------------------------------------
(***************************************************************************)
(* Every line that was begun is written.                                   *)
(***************************************************************************)
LEMMA LinesAre ==
  ASSUME NEW t
  PROVE  \A x : x \in LinesOf(t) <=> \E f \in Files : \E j \in DOMAIN output[f] :
                                      output[f][j].by = t /\ x = <<f, j>>
  BY DEF LinesOf

LEMMA LinesWillBe ==
  ASSUME NEW t
  PROVE  \A x : x \in LinesOf(t)' <=> \E f \in Files : \E j \in DOMAIN output'[f] :
                                       output'[f][j].by = t /\ x = <<f, j>>
  BY DEF LinesOf

LEMMA WrittenInit == Init => LineInv
<1> SUFFICES ASSUME Init, NEW t \in Threads PROVE IsFiniteSet(LinesOf(t)) /\ Cardinality(LinesOf(t)) = i[t]
  BY DEF LineInv
<1>1. \A f \in Files : DOMAIN output[f] = {}
  BY DEF Init
<1>2. LinesOf(t) = {}
  <2>1. \A x : x \notin LinesOf(t)
    BY <1>1, LinesAre
  <2> QED BY <2>1
<1>3. i[t] = 0
  BY DEF Init
<1> QED BY <1>2, <1>3, FS_EmptySet, Zenon

LEMMA WrittenNext == TypeInv /\ LineInv /\ [Next]_vars => LineInv'
<1> SUFFICES ASSUME TypeInv, LineInv, [Next]_vars PROVE LineInv'
  OBVIOUS
<1>0. UNCHANGED Threads
  BY DEF Threads
<1>1. CASE UNCHANGED <<i, output>>
  <2>1. \A t \in Threads : LinesOf(t)' = LinesOf(t) /\ i'[t] = i[t]
    BY <1>1 DEF LinesOf
  <2> QED BY <1>0, <2>1 DEF LineInv
<1>2. ASSUME NEW t \in Threads, Close(t) PROVE LineInv'
  <2> DEFINE g == random_file[t]
             s == output[g]
             e == [by |-> t, n |-> buffer[t]]
             last == Len(s) + 1
             new == <<g, last>>
  <2>1. /\ g \in Files /\ output'[g] = Append(s, e)
        /\ \A f \in Files : f # g => output'[f] = output[f]
        /\ i'[t] = i[t] + 1 /\ i[t] \in Nat
        /\ \A u \in Threads : u # t => i'[u] = i[u]
    <3>1. i[t] \in Nat
      BY DEF TypeInv, TypeOK
    <3> QED BY <1>2, <3>1, CloseFacts
  <2>2. /\ DOMAIN output'[g] = DOMAIN s \cup {last}
        /\ \A j \in DOMAIN s : output'[g][j] = s[j] /\ j # last
        /\ output'[g][last].by = t
    <3>1. s \in Seq([by : Threads, n : Nat]) /\ e \in [by : Threads, n : Nat]
      BY <2>1, NumberTypes, OutputType DEF TypeInv
    <3>2. e.by = t
      OBVIOUS
    <3> HIDE DEF s, e
    <3> QED BY <2>1, <3>1, <3>2, Appended
  <2> HIDE DEF s, e, last
  <2>3. \A f \in Files : \A j : j \in DOMAIN output'[f] <=> j \in DOMAIN output[f] \/ (f = g /\ j = last)
    BY <2>1, <2>2 DEF s
  <2>4. \A f \in Files : \A j \in DOMAIN output[f] : output'[f][j] = output[f][j] /\ ~(f = g /\ j = last)
    BY <2>1, <2>2 DEF s
  <2>5. new \notin LinesOf(t)
    BY <2>4, LinesAre
  <2>6. LinesOf(t)' = LinesOf(t) \cup {new}
    <3>1. \A x : x \in LinesOf(t)' <=> x \in LinesOf(t) \/ x = new
      BY <2>1, <2>2, <2>3, <2>4, LinesAre, LinesWillBe
    <3> QED BY <3>1
  <2>7. ASSUME NEW u \in Threads, u # t PROVE LinesOf(u)' = LinesOf(u)
    <3>1. \A x : x \in LinesOf(u)' <=> x \in LinesOf(u)
      BY <2>1, <2>2, <2>3, <2>4, <2>7, LinesAre, LinesWillBe
    <3> QED BY <3>1
  <2>8. IsFiniteSet(LinesOf(t)) /\ Cardinality(LinesOf(t)) = i[t]
    BY DEF LineInv
  <2> HIDE DEF new
  <2>9. IsFiniteSet(LinesOf(t) \cup {new}) /\ Cardinality(LinesOf(t) \cup {new}) = i[t] + 1
    BY <2>5, <2>8, FS_AddElement, Zenon
  <2>10. ASSUME NEW u \in Threads PROVE IsFiniteSet(LinesOf(u)') /\ Cardinality(LinesOf(u)') = i'[u]
    <3>1. CASE u = t
      BY <2>1, <2>6, <2>9, <3>1
    <3>2. CASE u # t
      BY <2>1, <2>7, <3>2 DEF LineInv
    <3> QED BY <3>1, <3>2
  <2> QED BY <1>0, <2>10 DEF LineInv
<1>3. (\E t \in Threads : Close(t)) \/ UNCHANGED <<i, output>>
  BY NextCases, Quiet, StoreFacts, FprintfFacts
<1> QED BY <1>1, <1>2, <1>3

(* When the process ends, all threads have returned, and each line that was begun is in *)
(* one of the files.                                                                    *)
THEOREM Written == Spec => []AllWritten
<1>1. TypeInv /\ LineInv => AllWritten
  BY DEF TypeInv, PlaceInv, LineInv, AllWritten, AllEnded
<1> QED BY <1>1, TypeInit, TypeNext, WrittenInit, WrittenNext, PTL DEF Spec
-----------------------------------------------------------------------------
(***************************************************************************)
(* Nobody waits for ever: whoever waits, waits for a thread that does not. *)
(***************************************************************************)
\* A semaphore at 0 is with a thread that will give it back.
HeldInv ==
  \A f \in Files : sem[f] = 0 => \E t \in Threads : pc[t] \in Crit /\ random_file[t] = f

LEMMA HeldNext == TypeInv /\ HeldInv /\ [Next]_vars => HeldInv'
<1> SUFFICES ASSUME TypeInv, HeldInv, [Next]_vars PROVE HeldInv'
  OBVIOUS
<1>0. /\ next \in Threads /\ pc \in [Threads -> Places] /\ sem \in [Files -> {0, 1}]
      /\ random_file \in [Threads -> Files]
  BY DEF TypeInv, TypeOK
<1>1. CASE CreateThread
  <2>1. /\ UNCHANGED <<sem, random_file>> /\ pc[next] = "none"
        /\ \A u \in Threads : u # next => pc'[u] = pc[u]
    BY <1>0, <1>1, ThreadRange DEF CreateThread, locals, TypeInv, PlaceInv
  <2> QED BY <2>1 DEF HeldInv, Crit
<1>2. CASE JoinThread
  BY <1>2 DEF JoinThread, locals, HeldInv, Crit
<1>3. ASSUME NEW t \in Threads, Thread(t) PROVE HeldInv'
  <2>1. \A u \in Threads : u # t => pc'[u] = pc[u]
    BY <1>3, ThreadFacts
  <2>2. \A u \in Threads : u # t => random_file'[u] = random_file[u]
    BY <1>0, <1>3 DEF Thread, Open, SemWait, Load, Store, Fprintf, SemPost, Close, locals
  <2>3. ASSUME NEW f \in Files, sem'[f] = 0
        PROVE  \E u \in Threads : pc'[u] \in Crit /\ random_file'[u] = f
    <3>1. CASE SemWait(t)
      <4>1. /\ pc'[t] = "load" /\ random_file' = random_file
            /\ \A g \in Files : g # random_file[t] => sem'[g] = sem[g]
        BY <1>0, <3>1 DEF SemWait, Goto, locals
      <4>2. CASE f = random_file[t]
        BY <4>1, <4>2 DEF Crit
      <4>3. CASE f # random_file[t]
        <5>1. PICK u \in Threads : pc[u] \in Crit /\ random_file[u] = f
          BY <2>3, <4>1, <4>3 DEF HeldInv
        <5>2. u # t
          BY <3>1, <5>1 DEF SemWait, Goto, Crit
        <5> QED BY <2>1, <4>1, <5>1, <5>2
      <4> QED BY <4>2, <4>3
    <3>2. CASE SemPost(t)
      <4>1. /\ random_file' = random_file /\ pc[t] = "post"
            /\ sem' = [sem EXCEPT ![random_file[t]] = @ + 1]
        BY <3>2 DEF SemPost, Goto, locals
      <4>2. f # random_file[t] /\ sem[f] = 0
        BY <1>0, <2>3, <4>1
      <4>3. PICK u \in Threads : pc[u] \in Crit /\ random_file[u] = f
        BY <4>2 DEF HeldInv
      <4>4. u # t
        BY <4>2, <4>3
      <4> QED BY <2>1, <4>1, <4>3, <4>4
    <3>3. CASE Load(t) \/ Store(t) \/ Fprintf(t)
      <4>1. UNCHANGED <<sem, random_file>> /\ pc'[t] \in Crit
        BY <1>0, <3>3 DEF Load, Store, Fprintf, Goto, Crit
      <4>2. PICK u \in Threads : pc[u] \in Crit /\ random_file[u] = f
        BY <2>3, <4>1 DEF HeldInv
      <4> QED BY <2>1, <4>1, <4>2
    <3>4. CASE Open(t) \/ Close(t)
      <4>1. sem' = sem /\ pc[t] \notin Crit
        BY <3>4 DEF Open, Close, Goto, Crit
      <4>2. PICK u \in Threads : pc[u] \in Crit /\ random_file[u] = f
        BY <2>3, <4>1 DEF HeldInv
      <4> QED BY <2>1, <2>2, <4>1, <4>2
    <3> QED BY <1>3, <3>1, <3>2, <3>3, <3>4 DEF Thread
  <2> QED BY <2>3 DEF HeldInv
<1>4. CASE UNCHANGED vars
  BY <1>4 DEF vars, mainVars, locals, HeldInv
<1> QED BY <1>1, <1>2, <1>3, <1>4 DEF Next

(* Until the process is over a thread or main can go on, for any number of threads; or  *)
(* main hangs in the join of an unset handle, and all threads are done.                 *)
THEOREM Unblocked == Spec => []NeverStuck
<1>1. Init => HeldInv
  BY DEF Init, HeldInv
<1>2. TypeInv /\ HeldInv => NeverStuck
  <2> SUFFICES ASSUME TypeInv, HeldInv, NEW t \in Threads, ~Ended(t)
               PROVE  \E u \in Threads : CanGoOn(u)
    BY DEF NeverStuck, AllEnded, ProcessRuns, TypeInv, TypeOK
  <2>1. pc[t] \in Places \ {"none", "returned"}
    BY DEF TypeInv, TypeOK, Ended
  <2>2. CASE pc[t] # "wait"
    BY <2>1, <2>2 DEF CanGoOn, Places
  <2>3. CASE pc[t] = "wait"
    <3>1. random_file[t] \in Files /\ sem[random_file[t]] \in {0, 1}
      BY DEF TypeInv, TypeOK
    <3>2. CASE sem[random_file[t]] = 1
      BY <2>3, <3>2 DEF CanGoOn
    <3>3. CASE sem[random_file[t]] = 0
      <4>1. PICK u \in Threads : pc[u] \in Crit
        BY <3>1, <3>3 DEF HeldInv
      <4> QED BY <4>1 DEF CanGoOn, Crit
    <3> QED BY <3>1, <3>2, <3>3
  <2> QED BY <2>2, <2>3
<1>3. Spec => []TypeInv
  BY TypeInit, TypeNext, PTL DEF Spec
<1> QED BY <1>1, <1>2, <1>3, HeldNext, PTL DEF Spec
=============================================================================
