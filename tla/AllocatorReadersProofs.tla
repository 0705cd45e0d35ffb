------------------------ MODULE AllocatorReadersProofs ------------------------
(***************************************************************************)
(* Two programs that keep data in memory they share out themselves: the    *)
(* allocator's blocks (Allocator), for any sizes and any number of         *)
(* pointers, and the array that the reader threads fill (MutexReaders),    *)
(* for any length of the array and of the file.                            *)
(***************************************************************************)
EXTENDS Allocator, MutexReaders, FiniteSetTheorems, SequenceTheorems, WellFoundedInduction, TLAPS

-----------------------------------------------------------------------------
(* The reader threads. *)

USE ReadersAssumption

(***************************************************************************)
(* The invariant.  As long as the mutex exists, a thread in Held has it.   *)
(* When main gets to destroy it, some thread is done or was never created, *)
(* and it is not the one that has the futex.                               *)
(***************************************************************************)
Held   == {"check", "load", "store", "write", "unlock"}
Owning == Held \cup {"taken", "release"}

Missing == \E m \in Threads : m # owner /\ pc[m] \in {"none", "done"}

PlaceInv ==
  /\ main = "create" => \A t \in Threads : t >= next => pc[t] = "none"
  /\ main = "create" => next = 1 \/ handle # NoThread \/ \E t \in Threads : t < next /\ pc[t] = "none"
  /\ main = "join" /\ next = 1 => handle # NoThread \/ \E t \in Threads : pc[t] = "none"
  /\ main = "join" /\ next > 1 => Missing
  /\ main \in {"destroy", "gone"} => Missing
  /\ mutex = "destroyed" => main = "gone"
  /\ \A t \in Threads : pc[t] \in Held \cup {"lock", "wait", "taken"} => line[t] > 0

OwnerInv ==
  /\ \A t \in Threads : pc[t] \in {"taken", "release"} => owner = t
  /\ owner # NoThread => pc[owner] \notin {"none", "wait"}
  /\ mutex = "valid" => /\ \A t \in Threads : pc[t] \in Held => owner = t
                        /\ owner # NoThread => pc[owner] \in Owning

TypeInv == TypeOK /\ PlaceInv /\ OwnerInv

\* t is about to add to a count that leaves no room.
Late(t) ==
  \/ pc[t] = "load" /\ count >= MAX_SIZE
  \/ pc[t] = "store" /\ loaded[t] >= MAX_SIZE

LateInv ==
  \A t \in Threads : Late(t) =>
    /\ mutex = "destroyed" /\ MAX_THREADS = 3 /\ count >= MAX_SIZE
    /\ \A u \in Threads : u # t => pc[u] \notin {"load", "store"}

Extra == IF mutex = "destroyed" /\ MAX_THREADS = 3 THEN 1 ELSE 0

CountInv ==
  /\ count <= MAX_SIZE + Extra
  /\ \A t \in Threads : pc[t] = "load" => count < MAX_SIZE + Extra
  /\ \A t \in Threads : pc[t] \in {"store", "write"} => loaded[t] < MAX_SIZE + Extra
  /\ process = "undefined" => mutex = "destroyed"

HolderInv ==
  mutex = "valid" => \A t \in Threads :
    /\ pc[t] = "store" => loaded[t] = count
    /\ pc[t] = "write" => loaded[t] + 1 = count

EntryInv ==
  mutex = "valid" =>
    /\ \A k \in Indices : k >= count => data[k] = Empty
    /\ \A k \in 0..(count - 1) : data[k] # Empty =>
         /\ data[k].line <= line[data[k].by]
         /\ pc[data[k].by] \in {"lock", "wait", "taken", "check", "load", "store", "write"} =>
              data[k].line < line[data[k].by]
-----------------------------------------------------------------------------
(***************************************************************************)
(* Types, places, and who has the mutex.                                   *)
(***************************************************************************)
LEMMA ThreadRange == \A t : t \in Threads <=> t \in Nat /\ 1 <= t /\ t <= MAX_THREADS
  BY DEF Threads

LEMMA TypeInit == Init => TypeInv
<1> SUFFICES ASSUME Init PROVE TypeInv
  OBVIOUS
<1>1. TypeOK
  BY ThreadRange DEF Init, TypeOK, Places, Indices, Empty, NoThread
<1>2. PlaceInv /\ OwnerInv
  BY DEF Init, PlaceInv, OwnerInv, Held, Owning
<1> QED BY <1>1, <1>2 DEF TypeInv

\* A step of t leaves the other threads' places and lines alone.
LEMMA ThreadFacts ==
  ASSUME TypeInv, NEW t \in Threads, Thread(t)
  PROVE  /\ process = "runs" /\ UNCHANGED <<main, next, handle, mutex>>
         /\ pc[t] \notin {"none", "done"}
         /\ pc' \in [Threads -> Places]
         /\ \A u \in Threads : u # t => pc'[u] = pc[u] /\ line'[u] = line[u] /\ loaded'[u] = loaded[u]
<1>0. /\ pc \in [Threads -> Places] /\ line \in [Threads -> 0..Lines] /\ loaded \in [Threads -> Nat]
      /\ mutex \in {"valid", "destroyed"}
  BY DEF TypeInv, TypeOK
<1>1. CASE Open(t) \/ ReadLine(t) \/ Lock(t) \/ TakeFutex(t) \/ CountIn(t) \/ Check(t)
  BY <1>0, <1>1 DEF Goto, Open, ReadLine, Lock, TakeFutex, CountIn, Check, Places, locals, shared, mainVars
<1>2. CASE Load(t) \/ Store(t) \/ Write(t) \/ Unlock(t) \/ GiveFutex(t)
  BY <1>0, <1>2 DEF Goto, Load, Store, Write, Unlock, GiveFutex, Places, locals, shared, mainVars
<1> QED BY <1>1, <1>2 DEF Thread

\* What a step of t does to t's place and line, and to who has the futex.
LEMMA PlaceFacts ==
  ASSUME TypeInv, NEW t \in Threads, Thread(t)
  PROVE  \/ /\ owner' = owner /\ line' = line /\ pc'[t] = pc[t]
         \/ /\ owner' = owner /\ line' = line
            /\ \/ pc[t] = "open" /\ pc'[t] = "read"
               \/ pc[t] = "read" /\ pc'[t] = "done"
               \/ pc[t] = "lock" /\ mutex = "valid" /\ pc'[t] = "wait"
               \/ pc[t] = "lock" /\ mutex = "destroyed" /\ pc'[t] = "check"
               \/ pc[t] = "taken" /\ pc'[t] = "check"
               \/ pc[t] \in Held /\ pc'[t] \in Held
               \/ pc[t] = "unlock" /\ mutex = "valid" /\ pc'[t] = "release"
               \/ pc[t] = "unlock" /\ mutex = "destroyed" /\ pc'[t] = "read"
         \/ owner' = owner /\ pc[t] = "read" /\ pc'[t] = "lock" /\ line'[t] = line[t] + 1
         \/ line' = line /\ pc[t] = "wait" /\ pc'[t] = "taken" /\ owner = NoThread /\ owner' = t
         \/ line' = line /\ pc[t] = "release" /\ pc'[t] = "read" /\ owner' = NoThread
<1>0. /\ pc \in [Threads -> Places] /\ line \in [Threads -> 0..Lines] /\ loaded \in [Threads -> Nat]
      /\ mutex \in {"valid", "destroyed"}
  BY DEF TypeInv, TypeOK
<1>1. CASE Open(t) \/ ReadLine(t)
  BY <1>0, <1>1 DEF Goto, Open, ReadLine, locals, shared, mainVars
<1>2. CASE Lock(t) \/ TakeFutex(t) \/ CountIn(t) \/ Unlock(t) \/ GiveFutex(t)
  BY <1>0, <1>2 DEF Goto, Lock, TakeFutex, CountIn, Unlock, GiveFutex, locals, shared, mainVars
<1>3. CASE Check(t) \/ Load(t) \/ Store(t) \/ Write(t)
  BY <1>0, <1>3 DEF Goto, Check, Load, Store, Write, locals, shared, mainVars, Held
<1> QED BY <1>1, <1>2, <1>3 DEF Thread

LEMMA TypeNext == TypeInv /\ [Next]_vars => TypeInv'
<1> SUFFICES ASSUME TypeInv, [Next]_vars PROVE TypeInv'
  OBVIOUS
<1>0. /\ pc \in [Threads -> Places] /\ owner \in Threads \cup {NoThread}
      /\ mutex \in {"valid", "destroyed"} /\ next \in Threads /\ handle \in Threads \cup {NoThread}
      /\ NoThread \notin Threads
  BY ThreadRange DEF TypeInv, TypeOK, NoThread
<1> USE DEF TypeInv, PlaceInv, OwnerInv, Held, Owning
<1>1. CASE CreateThread
  <2>1. /\ main = "create"
        /\ \/ pc' = [pc EXCEPT ![next] = "open"] /\ handle' = next
           \/ pc' = pc /\ handle' \in {handle, NoThread}
        /\ \/ next < MAX_THREADS /\ next' = next + 1 /\ main' = "create"
           \/ ~(next < MAX_THREADS) /\ next' = 1 /\ main' = "join"
        /\ UNCHANGED <<process, mutex, owner, thread_id, line, loaded, count, data>>
    BY <1>1 DEF CreateThread, locals, shared
  <2>2. next' \in Threads /\ pc[next] = "none" /\ next \in Nat
    BY <1>0, <2>1, ThreadRange
  <2>3. /\ pc' \in [Threads -> Places] /\ \A t \in Threads : t # next => pc'[t] = pc[t]
        /\ \/ pc'[next] = "open" /\ handle' = next
           \/ pc'[next] = "none"
    BY <1>0, <2>1, <2>2 DEF Places
  <2>4. TypeOK'
    BY <1>0, <2>1, <2>2, <2>3 DEF TypeOK
  <2>5. main' = "create" => \A t \in Threads : t >= next' => pc'[t] = "none"
    BY <2>1, <2>2, <2>3, ThreadRange
  <2>6. handle' # NoThread \/ \E t \in Threads : t < next + 1 /\ pc'[t] = "none"
    BY <1>0, <2>2, <2>3
  <2>7. PlaceInv'
    BY <2>1, <2>2, <2>3, <2>5, <2>6, ThreadRange
  <2>8. OwnerInv'
    BY <1>0, <2>1, <2>2, <2>3
  <2> QED BY <2>4, <2>7, <2>8
<1>2. CASE Join
  <2>1. /\ main = "join"
        /\ UNCHANGED <<handle, mutex, owner, pc, thread_id, line, loaded, count, data>>
        /\ process' \in {"runs", "crashed"}
        /\ next = 1 /\ handle # NoThread => pc[handle] = "done"
        /\ \/ next < MAX_THREADS /\ next' = next + 1 /\ main' = "join"
           \/ next' = next /\ main' \in {"destroy", "hung"}
           \/ next' = next /\ main' = main /\ process' = "crashed"
    BY <1>2 DEF Join, NextJoin, locals, shared, mainVars
  <2>2. next' \in Threads /\ main' \in {"join", "destroy", "hung"} /\ mutex = "valid"
    BY <1>0, <2>1, ThreadRange
  <2>3. TypeOK'
    BY <2>1, <2>2 DEF TypeOK
  <2>4. Missing
    <3>1. CASE next = 1
      <4>1. PICK m \in Threads : pc[m] \in {"none", "done"}
        BY <1>0, <2>1, <3>1
      <4> QED BY <1>0, <2>2, <4>1 DEF Missing
    <3>2. CASE next > 1
      BY <2>1, <3>2
    <3> QED BY <1>0, <3>1, <3>2, ThreadRange
  <2>5. Missing'
    BY <2>1, <2>4 DEF Missing
  <2>6. main' = "join" /\ next' = 1 => process' = "crashed" /\ next = 1
    BY <1>0, <2>1, ThreadRange
  <2>7. main' = "join" /\ next' = 1 => handle # NoThread \/ \E t \in Threads : pc[t] = "none"
    BY <2>1, <2>6
  <2>8. PlaceInv'
    BY <2>1, <2>2, <2>5, <2>7
  <2> QED BY <2>1, <2>3, <2>8
<1>3. CASE Destroy
  <2>1. /\ main = "destroy" /\ main' = "gone" /\ mutex' \in {mutex, "destroyed"}
        /\ UNCHANGED <<next, handle, process, owner, pc, thread_id, line, loaded, count, data>>
    BY <1>3 DEF Destroy, locals, shared
  <2>2. TypeOK'
    BY <1>0, <2>1 DEF TypeOK
  <2>3. Missing'
    BY <2>1 DEF Missing
  <2> QED BY <1>0, <2>1, <2>2, <2>3
<1>4. ASSUME NEW t \in Threads, Thread(t) PROVE TypeInv'
  <2>0. /\ process = "runs" /\ UNCHANGED <<main, next, handle, mutex>>
        /\ pc[t] \notin {"none", "done"}
        /\ pc' \in [Threads -> Places]
        /\ \A u \in Threads : u # t => pc'[u] = pc[u] /\ line'[u] = line[u]
    BY <1>4, ThreadFacts
  <2>1. TypeOK'
    <3>1. CASE Open(t)
      <4>1. thread_id' \in [Threads -> Threads \cup {NoThread}] /\ process' \in {"runs", "exited"}
        BY <2>0, <3>1 DEF Open, Goto, TypeOK, locals
      <4>2. UNCHANGED <<owner, line, loaded, count, data>>
        BY <3>1 DEF Open, Goto, TypeOK, locals, shared
      <4> QED BY <2>0, <4>1, <4>2 DEF TypeOK
    <3>2. CASE ReadLine(t)
      <4>1. /\ line' \in [Threads -> 0..Lines]
            /\ UNCHANGED <<process, owner, thread_id, loaded, count, data>>
        BY <3>2 DEF ReadLine, Goto, TypeOK, locals, shared
      <4> QED BY <2>0, <4>1 DEF TypeOK
    <3>3. CASE Lock(t) \/ TakeFutex(t) \/ CountIn(t) \/ Unlock(t) \/ GiveFutex(t)
      <4>1. /\ owner' \in Threads \cup {NoThread}
            /\ UNCHANGED <<process, thread_id, line, loaded, count, data>>
        BY <1>0, <3>3 DEF Lock, TakeFutex, CountIn, Unlock, GiveFutex, Goto, locals, shared
      <4> QED BY <2>0, <4>1 DEF TypeOK
    <3>4. CASE Check(t)
      <4>1. UNCHANGED <<process, owner, thread_id, line, loaded, count, data>>
        BY <3>4 DEF Check, Goto, locals, shared
      <4> QED BY <2>0, <4>1 DEF TypeOK
    <3>5. CASE Load(t)
      BY <2>0, <3>5 DEF Load, Goto, TypeOK, shared
    <3>6. CASE Store(t)
      BY <2>0, <3>6 DEF Store, Goto, TypeOK, locals
    <3>7. CASE Write(t)
      <4>1. /\ pc[t] = "write"
            /\ UNCHANGED <<owner, thread_id, line, loaded, count>>
            /\ process' \in {"runs", "undefined"}
        BY <2>0, <3>7 DEF Write, locals
      <4>2. [by |-> t, line |-> line[t]] \in Entry
        BY <4>1 DEF TypeOK, Entry
      <4>3. data' \in [Indices -> Entry \cup {Empty}]
        BY <3>7, <4>2 DEF Write, TypeOK
      <4> QED BY <2>0, <4>1, <4>3 DEF TypeOK
    <3> QED BY <1>4, <3>1, <3>2, <3>3, <3>4, <3>5, <3>6, <3>7 DEF Thread
  <2>2. line[t] \in Nat
    BY DEF TypeOK
  <2> PICK p : p = pc'[t]
    OBVIOUS
  <2>3. OwnerInv'
    <3>1. CASE mutex = "valid"
      BY <1>0, <1>4, <2>0, <3>1, PlaceFacts
    <3>2. CASE mutex = "destroyed"
      BY <1>0, <1>4, <2>0, <3>2, PlaceFacts
    <3> QED BY <1>0, <3>1, <3>2
  <2>4. Missing => Missing'
    <3> SUFFICES ASSUME NEW m \in Threads, m # owner, pc[m] \in {"none", "done"} PROVE Missing'
      BY DEF Missing
    <3>1. m # t /\ pc'[m] \in {"none", "done"} /\ m # owner'
      BY <1>0, <1>4, <2>0, PlaceFacts
    <3> QED BY <3>1 DEF Missing
  <2>5. \A u \in Threads : pc[u] = "none" => pc'[u] = "none"
    BY <2>0
  <2>6. \A u \in Threads : pc'[u] \in Held \cup {"lock", "wait", "taken"} => line'[u] > 0
    BY <1>4, <2>0, <2>2, PlaceFacts
  <2>7. PlaceInv'
    BY <2>0, <2>4, <2>5, <2>6
  <2> QED BY <2>1, <2>3, <2>7
<1>5. CASE UNCHANGED vars
  <2>1. TypeOK'
    BY <1>5 DEF vars, mainVars, locals, shared, TypeOK
  <2>2. PlaceInv' /\ OwnerInv'
    BY <1>5 DEF vars, mainVars, locals, shared, Missing
  <2> QED BY <2>1, <2>2
<1> QED BY <1>1, <1>2, <1>3, <1>4, <1>5 DEF Next

(* TypeOK: init_mutex and read_file keep their variables where they belong, and no       *)
(* thread writes an entry that is not a line of the file.                                *)
THEOREM Typing == Spec => []TypeOK
<1>1. Init => TypeInv
  BY TypeInit
<1>2. TypeInv /\ [Next]_vars => TypeInv'
  BY TypeNext
<1>3. TypeInv => TypeOK
  BY DEF TypeInv
<1> QED BY <1>1, <1>2, <1>3, PTL DEF Spec

LEMMA TypeAlways == Spec => []TypeInv
  BY TypeInit, TypeNext, PTL DEF Spec
-----------------------------------------------------------------------------
(***************************************************************************)
(* How far data is overrun.                                                *)
(***************************************************************************)
\* What is not a thread's step changes only main, and may destroy a mutex nobody is in.
LEMMA MainFacts ==
  ASSUME TypeInv, CreateThread \/ Join \/ Destroy \/ UNCHANGED vars
  PROVE  /\ UNCHANGED <<line, loaded, count, data>>
         /\ process' # process => process' = "crashed"
         /\ \A t \in Threads : pc'[t] # pc[t] => pc[t] = "none" /\ pc'[t] = "open"
         /\ \/ mutex' = mutex
            \/ mutex' = "destroyed" /\ \A t \in Threads : pc[t] \notin Held
<1>0. pc \in [Threads -> Places]
  BY DEF TypeInv, TypeOK
<1>1. CASE CreateThread
  <2>1. /\ next \in Threads /\ main = "create"
        /\ pc' = pc \/ pc' = [pc EXCEPT ![next] = "open"]
    BY <1>1 DEF CreateThread, TypeInv, TypeOK
  <2>2. pc[next] = "none"
    BY <2>1, ThreadRange DEF TypeInv, PlaceInv
  <2>3. \A t \in Threads : pc'[t] # pc[t] => t = next /\ pc'[t] = "open"
    BY <1>0, <2>1
  <2>4. UNCHANGED <<process, mutex, line, loaded, count, data>>
    BY <1>1 DEF CreateThread, locals, shared
  <2> QED BY <2>2, <2>3, <2>4
<1>2. CASE Join
  <2>1. UNCHANGED <<mutex, pc, line, loaded, count, data>>
    BY <1>2 DEF Join, locals, shared
  <2>2. process' # process => process' = "crashed"
    BY <1>2 DEF Join, NextJoin
  <2> QED BY <2>1, <2>2
<1>3. CASE Destroy
  <2>1. UNCHANGED <<process, pc, line, loaded, count, data>>
    BY <1>3 DEF Destroy, locals, shared
  <2>2. ~Counted => mutex = "destroyed" \/ \A t \in Threads : pc[t] \notin Held
    BY ThreadRange DEF TypeInv, TypeOK, OwnerInv, NoThread, Counted, Held
  <2>3. mutex' = IF Counted THEN mutex ELSE "destroyed"
    BY <1>3 DEF Destroy
  <2> QED BY <2>1, <2>2, <2>3
<1>4. CASE UNCHANGED vars
  BY <1>4 DEF vars, locals, shared
<1> QED BY <1>1, <1>2, <1>3, <1>4

\* As long as the mutex exists no two threads are in Held; after that no three are, and with
\* two threads no two.
LEMMA FewHeld ==
  ASSUME TypeInv, NEW t \in Threads, NEW u \in Threads, t # u, pc[t] \in Held, pc[u] \in Held
  PROVE  /\ mutex = "destroyed" /\ MAX_THREADS = 3
         /\ \A v \in Threads \ {t, u} : pc[v] \in {"none", "done"}
<1>1. mutex = "destroyed"
  BY DEF TypeInv, TypeOK, OwnerInv
<1>2. PICK m \in Threads : pc[m] \in {"none", "done"}
  BY <1>1 DEF TypeInv, PlaceInv, Missing
<1>3. m # t /\ m # u
  BY <1>2 DEF Held
<1>4. MAX_THREADS = 3 /\ \A v \in Threads \ {t, u} : v = m
  BY <1>3, ThreadRange
<1> QED BY <1>1, <1>2, <1>4

OverrunInv == LateInv /\ CountInv

LEMMA OverrunInit == Init => OverrunInv
  BY DEF Init, OverrunInv, LateInv, Late, CountInv, Extra

LEMMA OverrunNext == TypeInv /\ TypeInv' /\ OverrunInv /\ [Next]_vars => OverrunInv'
<1> SUFFICES ASSUME TypeInv, TypeInv', OverrunInv, [Next]_vars PROVE OverrunInv'
  OBVIOUS
<1>0. /\ count \in Nat /\ loaded \in [Threads -> Nat] /\ pc \in [Threads -> Places]
      /\ mutex \in {"valid", "destroyed"}
  BY DEF TypeInv, TypeOK
<1> USE DEF OverrunInv, LateInv, Late, CountInv, Extra, Held
<1>1. CASE CreateThread \/ Join \/ Destroy \/ UNCHANGED vars
  BY <1>0, <1>1, MainFacts
<1>2. ASSUME NEW t \in Threads, Thread(t) PROVE OverrunInv'
  <2>0. /\ process = "runs" /\ UNCHANGED <<main, next, mutex>>
        /\ \A u \in Threads : u # t => pc'[u] = pc[u] /\ loaded'[u] = loaded[u]
    BY <1>2, ThreadFacts
  <2>1. CASE Open(t) \/ ReadLine(t) \/ Lock(t) \/ TakeFutex(t) \/ CountIn(t) \/ Unlock(t) \/ GiveFutex(t)
    <3>1. /\ pc'[t] \notin {"load", "store", "write"} /\ process' \in {"runs", "exited"}
          /\ count' = count
      BY <1>0, <2>0, <2>1 DEF Open, ReadLine, Lock, TakeFutex, CountIn, Unlock, GiveFutex, Goto, shared
    <3> QED BY <1>0, <2>0, <3>1
  <2>2. CASE Check(t)
    <3>1. /\ pc[t] = "check" /\ pc'[t] \in {"unlock", "load"}
          /\ pc'[t] = "load" => count < MAX_SIZE
      BY <1>0, <2>2 DEF Check, HasRoom, Goto
    <3>2. process' = process /\ count' = count /\ loaded' = loaded
      BY <2>2 DEF Check, Goto, locals, shared
    <3> QED BY <1>0, <2>0, <3>1, <3>2
  <2>3. CASE Load(t)
    <3>1. /\ pc[t] = "load" /\ pc'[t] = "store" /\ loaded'[t] = count
          /\ process' = process /\ count' = count
      BY <1>0, <2>3 DEF Load, Goto, shared
    <3> QED BY <1>0, <2>0, <3>1
  <2>4. CASE Store(t)
    <3>1. /\ pc[t] = "store" /\ pc'[t] = "write" /\ count' = loaded[t] + 1
          /\ process' = process /\ loaded' = loaded
      BY <1>0, <2>4 DEF Store, Goto, locals
    <3>2. \A u \in Threads : u # t /\ pc[u] \in {"load", "store"} =>
            /\ mutex = "destroyed" /\ MAX_THREADS = 3
            /\ \A v \in Threads \ {t, u} : pc[v] \in {"none", "done"}
            /\ ~Late(u) /\ ~Late(t)
      BY <3>1, FewHeld
    <3> QED BY <1>0, <2>0, <3>1, <3>2
  <2>5. CASE Write(t)
    <3>1. /\ pc[t] = "write" /\ pc'[t] = "unlock" /\ count' = count /\ loaded' = loaded
          /\ process' = IF loaded[t] \in Indices THEN process ELSE "undefined"
      <4>1. pc[t] = "write" /\ pc'[t] = "unlock" /\ count' = count /\ loaded' = loaded
        BY <1>0, <2>5 DEF Write, locals
      <4>2. process' = IF loaded[t] \in Indices THEN process ELSE "undefined"
        BY <2>5, Zenon DEF Write, Element
      <4> QED BY <4>1, <4>2
    <3>2. loaded[t] \notin Indices => mutex = "destroyed"
      BY <1>0, <3>1 DEF Indices
    <3> QED BY <1>0, <2>0, <3>1, <3>2
  <2> QED BY <1>2, <2>1, <2>2, <2>3, <2>4, <2>5 DEF Thread
<1> QED BY <1>1, <1>2 DEF Next

LEMMA OverrunAlways == Spec => []OverrunInv
  BY OverrunInit, OverrunNext, TypeAlways, PTL DEF Spec

(* BoundedOverrun: as long as the mutex exists data is not overrun, and after that by no *)
(* more than the number of threads that may still be in read_file, less one.             *)
THEOREM Overrun == Spec => []BoundedOverrun
<1>1. OverrunInv => BoundedOverrun
  BY DEF OverrunInv, CountInv, Extra, BoundedOverrun
<1> QED BY <1>1, OverrunAlways, PTL
-----------------------------------------------------------------------------
(***************************************************************************)
(* What is in data while the mutex exists.                                 *)
(***************************************************************************)
\* A thread's lines before the one it has read, and that one too once it is dealt with.
Fresh == {"lock", "wait", "taken", "check", "load", "store", "write"}

DataInv == HolderInv /\ (mutex = "valid" => EntriesInOrder) /\ EntryInv

LEMMA DataInit == Init => DataInv
  BY DEF Init, DataInv, HolderInv, EntryInv, EntriesInOrder, Indices, Empty, NoThread

\* With the mutex there is no other thread that counts or writes.
LEMMA Alone ==
  ASSUME TypeInv, mutex = "valid", NEW t \in Threads, pc[t] \in Held
  PROVE  \A u \in Threads : u # t => pc[u] \notin Held
  BY DEF TypeInv, OwnerInv

LEMMA DataNext == TypeInv /\ TypeInv' /\ OverrunInv /\ DataInv /\ [Next]_vars => DataInv'
<1> SUFFICES ASSUME TypeInv, TypeInv', OverrunInv, DataInv, [Next]_vars, mutex' = "valid" PROVE DataInv'
  BY DEF DataInv, HolderInv, EntryInv
<1>0. /\ count \in Nat /\ loaded \in [Threads -> Nat] /\ pc \in [Threads -> Places]
      /\ line \in [Threads -> 0..Lines] /\ data \in [Indices -> Entry \cup {Empty}]
      /\ mutex = "valid" /\ count <= MAX_SIZE
  <2>1. /\ count \in Nat /\ loaded \in [Threads -> Nat] /\ pc \in [Threads -> Places]
        /\ line \in [Threads -> 0..Lines] /\ data \in [Indices -> Entry \cup {Empty}]
    BY DEF TypeInv, TypeOK
  <2>2. mutex = "valid"
    BY MainFacts, ThreadFacts DEF Next
  <2> QED BY <2>1, <2>2 DEF OverrunInv, CountInv, Extra
<1>1. \A k \in Indices : data[k] # Empty => data[k].by \in Threads /\ data[k].line \in Nat
  BY <1>0 DEF Entry
<1>2. \A k \in 0..(count - 1) : k \in Indices
  BY <1>0 DEF Indices
<1> USE DEF DataInv, HolderInv, EntryInv, EntriesInOrder, Held
<1>3. CASE CreateThread \/ Join \/ Destroy \/ UNCHANGED vars
  <2>1. /\ UNCHANGED <<line, loaded, count, data>>
        /\ mutex = "valid"
        /\ \A t \in Threads : pc'[t] # pc[t] => pc[t] = "none" /\ pc'[t] = "open"
    BY <1>3, MainFacts DEF TypeInv, TypeOK
  <2> QED BY <1>0, <1>1, <1>2, <2>1
<1>4. ASSUME NEW t \in Threads, Thread(t) PROVE DataInv'
  <2>0. /\ pc' \in [Threads -> Places]
        /\ \A u \in Threads : u # t => pc'[u] = pc[u] /\ line'[u] = line[u] /\ loaded'[u] = loaded[u]
    BY <1>4, ThreadFacts
  <2>1. CASE Open(t) \/ Lock(t) \/ TakeFutex(t) \/ CountIn(t) \/ Check(t) \/ Load(t)
    <3>1. /\ UNCHANGED <<line, count, data>>
          /\ pc[t] \in Fresh \/ pc'[t] \notin Fresh
          /\ pc[t] # "write" /\ pc'[t] # "write"
          /\ pc'[t] = "store" => loaded'[t] = count
      BY <1>0, <2>0, <2>1 DEF Open, Lock, TakeFutex, CountIn, Check, Load, Goto, shared, locals, Fresh
    <3>2. HolderInv'
      BY <1>0, <2>0, <3>1 DEF Fresh
    <3>3. EntriesInOrder'
      BY <1>0, <2>0, <3>1
    <3>4. EntryInv'
      BY <1>0, <1>1, <1>2, <2>0, <3>1 DEF Fresh
    <3> QED BY <3>2, <3>3, <3>4
  <2>2. CASE ReadLine(t)
    <3>1. /\ UNCHANGED <<loaded, count, data>> /\ pc[t] = "read"
          /\ pc'[t] \in {"lock", "done"} /\ line'[t] \in {line[t], line[t] + 1}
          /\ pc'[t] = "lock" => line'[t] = line[t] + 1
      BY <1>0, <2>2 DEF ReadLine, Goto, shared, locals
    <3>2. HolderInv' /\ EntriesInOrder'
      BY <1>0, <1>1, <1>2, <2>0, <3>1
    <3>3. EntryInv'
      BY <1>0, <1>1, <1>2, <2>0, <3>1
    <3> QED BY <3>2, <3>3
  <2>3. CASE Store(t)
    <3>1. /\ UNCHANGED <<line, loaded, data>> /\ pc[t] = "store" /\ pc'[t] = "write"
          /\ count' = loaded[t] + 1 /\ loaded[t] = count
      BY <1>0, <2>0, <2>3 DEF Store, Goto, locals
    <3>2. count < MAX_SIZE /\ count \in Indices
      BY <1>0, <2>0, <3>1 DEF OverrunInv, LateInv, Late, Indices
    <3>3. data[count] = Empty
      BY <1>0, <3>2
    <3>4. \A u \in Threads : u # t => pc[u] \notin Held
      BY <1>0, <3>1, Alone
    <3>5. 0..(count' - 1) = 0..(count - 1) \cup {count}
      BY <1>0, <3>1
    <3>6. HolderInv'
      BY <1>0, <2>0, <3>1, <3>4
    <3>7. \A k \in 0..(count' - 1) : k < count \/ (k = loaded'[t] /\ pc'[t] = "write")
      BY <1>0, <3>1, <3>5
    <3>8. EntriesInOrder'
      <4>1. \A k \in 0..(count' - 1) : data'[k] # Empty => k \in 0..(count - 1)
        BY <1>0, <3>1, <3>3, <3>5
      <4>2. \A k \in 0..(count' - 1) :
               data'[k] # Empty \/ \E u \in Threads : pc'[u] = "write" /\ loaded'[u] = k
        <5> SUFFICES ASSUME NEW k \in 0..(count' - 1)
                     PROVE  data'[k] # Empty \/ \E u \in Threads : pc'[u] = "write" /\ loaded'[u] = k
          OBVIOUS
        <5>1. CASE k = loaded'[t] /\ pc'[t] = "write"
          BY <5>1
        <5>2. CASE k \in 0..(count - 1)
          <6>1. data[k] # Empty \/ \E u \in Threads : pc[u] = "write" /\ loaded[u] = k
            BY <1>0, <5>2
          <6>2. \A u \in Threads : pc[u] # "write"
            BY <3>1, <3>4
          <6> QED BY <3>1, <6>1, <6>2
        <5> QED BY <1>0, <3>1, <3>5, <5>1, <5>2, <3>7
      <4>3. \A j, k \in 0..(count' - 1) :
              j < k /\ data'[j] # Empty /\ data'[j].by = data'[k].by => data'[j].line < data'[k].line
        <5>1. Empty.by = NoThread /\ NoThread \notin Threads
          BY DEF Empty, NoThread, Threads
        <5>2. \A j, k \in 0..(count' - 1) :
                data'[j] # Empty /\ data'[j].by = data'[k].by => data'[k] # Empty
          BY <1>0, <1>1, <1>2, <3>1, <4>1, <5>1
        <5> QED BY <1>0, <3>1, <4>1, <5>2
      <4> QED BY <4>2, <4>3
    <3>9. EntryInv'
      <4>1. \A k \in Indices : k >= count' => data'[k] = Empty
        BY <1>0, <3>1 DEF Indices
      <4>2. \A k \in 0..(count' - 1) : data'[k] # Empty => k \in 0..(count - 1)
        BY <1>0, <3>1, <3>3, <3>5
      <4>3. \A u \in Threads : pc'[u] \in Fresh => pc[u] \in Fresh
        BY <1>0, <2>0, <3>1 DEF Fresh
      <4> QED BY <1>0, <1>1, <1>2, <3>1, <4>1, <4>2, <4>3 DEF Fresh
    <3> QED BY <3>6, <3>8, <3>9
  <2>4. CASE Write(t)
    <3>1. /\ pc[t] = "write" /\ pc'[t] = "unlock" /\ loaded[t] + 1 = count /\ loaded[t] \in Indices
          /\ UNCHANGED <<line, loaded, count>>
      BY <1>0, <2>4 DEF Write, locals, OverrunInv, CountInv, Extra, Indices
    <3>2. data' = [data EXCEPT ![loaded[t]] = [by |-> t, line |-> line[t]]]
      BY <2>4, <3>1 DEF Write, Element
    <3>3. /\ \A k \in Indices : k # loaded[t] => data'[k] = data[k]
          /\ data'[loaded[t]] = [by |-> t, line |-> line[t]]
      BY <1>0, <3>1, <3>2
    <3>4. data'[loaded[t]] # Empty /\ data'[loaded[t]].by = t /\ data'[loaded[t]].line = line[t]
      BY <3>3 DEF Empty, NoThread, Threads
    <3>5. \A u \in Threads : u # t => pc[u] \notin Held
      BY <1>0, <3>1, Alone
    <3>6. HolderInv'
      BY <1>0, <2>0, <3>1, <3>5
    <3>7. EntriesInOrder'
      <4>1. \A k \in 0..(count - 1) : k = loaded[t] \/ (k < loaded[t] /\ k \in Indices /\ data[k] # Empty)
        BY <1>0, <1>2, <3>1, <3>5
      <4>2. \A k \in 0..(count - 1) : data'[k] # Empty
        BY <3>3, <3>4, <4>1
      <4>3. \A j \in 0..(count - 1) : j # loaded[t] /\ data[j].by = t => data[j].line < line[t]
        BY <1>0, <3>1, <4>1
      <4>4. \A j, k \in 0..(count - 1) :
              j < k /\ data'[j].by = data'[k].by => data'[j].line < data'[k].line
        <5> SUFFICES ASSUME NEW j \in 0..(count - 1), NEW k \in 0..(count - 1),
                            j < k, data'[j].by = data'[k].by
                     PROVE  data'[j].line < data'[k].line
          OBVIOUS
        <5>1. j # loaded[t] /\ j \in Indices /\ data[j] # Empty /\ data'[j] = data[j]
          BY <1>0, <3>1, <3>3, <4>1
        <5>2. CASE k = loaded[t]
          BY <3>4, <4>3, <5>1, <5>2
        <5>3. CASE k # loaded[t]
          <6>1. data'[k] = data[k]
            BY <3>3, <4>1, <5>3
          <6> QED BY <1>0, <5>1, <6>1
        <5> QED BY <5>2, <5>3
      <4> QED BY <3>1, <4>2, <4>4
    <3>8. EntryInv'
      BY <1>0, <1>1, <1>2, <2>0, <3>1, <3>3, <3>4, <3>5
    <3> QED BY <3>6, <3>7, <3>8
  <2>5. CASE Unlock(t) \/ GiveFutex(t)
    <3>1. /\ UNCHANGED <<line, loaded, count, data>> /\ pc[t] \in {"unlock", "release"}
          /\ pc'[t] \in {"read", "release"}
      BY <1>0, <2>5 DEF Unlock, GiveFutex, Goto, locals, shared
    <3> QED BY <1>0, <1>1, <1>2, <2>0, <3>1
  <2> QED BY <1>4, <2>1, <2>2, <2>3, <2>4, <2>5 DEF Thread
<1> QED BY <1>3, <1>4 DEF Next

(* EntriesInOrder: as long as the mutex exists no entry of data is lost or overwritten,  *)
(* and each thread's are in the order of the file.                                       *)
THEOREM InOrder == Spec => []EntriesInOrder
<1>1. DataInv => EntriesInOrder
  BY DEF DataInv, EntriesInOrder
<1>2. Init /\ []TypeInv /\ []OverrunInv /\ [][Next]_vars => []DataInv
  BY DataInit, DataNext, PTL
<1> QED BY <1>1, <1>2, TypeAlways, OverrunAlways, PTL DEF Spec
-----------------------------------------------------------------------------
(* OneLeftAsleep: a thread sleeps on the mutex for ever only when main has destroyed it, *)
(* and then it is one of three: one is done or was not created, and one has the futex.   *)
THEOREM LeftAsleep == Spec => []OneLeftAsleep
<1>1. TypeInv => OneLeftAsleep
  <2> SUFFICES ASSUME TypeInv, owner # NoThread, ~GivesBack(owner), NEW t \in Threads, pc[t] = "wait"
               PROVE  /\ mutex = "destroyed" /\ MAX_THREADS = 3
                      /\ \A u \in Threads \ {t} : pc[u] # "wait"
    BY DEF OneLeftAsleep
  <2>1. mutex = "destroyed" /\ owner \in Threads /\ owner # t /\ pc[owner] # "wait"
    BY DEF TypeInv, TypeOK, OwnerInv, Owning, Held, GivesBack
  <2>2. PICK m \in Threads : m # owner /\ pc[m] \in {"none", "done"}
    BY <2>1 DEF TypeInv, PlaceInv, Missing
  <2>3. m # t
    BY <2>2
  <2>4. MAX_THREADS = 3 /\ \A u \in Threads \ {t} : u = m \/ u = owner
    BY <2>1, <2>2, <2>3, ThreadRange
  <2> QED BY <2>1, <2>2, <2>4
<1> QED BY <1>1, TypeAlways, PTL
-----------------------------------------------------------------------------
(* The allocator. *)

HIDE ReadersAssumption
USE AllocatorAssumption

(***************************************************************************)
(* The invariant.                                                          *)
(***************************************************************************)
Blocks == Nat \X Nat
Piece  == [block : Blocks, want : Nat, wrote : Nat, good : Nat]

End(s, b) == Space(b) + s[b]

Tiles(l, s) ==
  /\ \A k \in DOMAIN l : l[k] \in DOMAIN s /\ l[k][1] = memory_pool /\ End(s, l[k]) <= pool_size
  /\ l # <<>> => l[1] = <<memory_pool, 0>>
  /\ \A k \in DOMAIN l : k + 1 \in DOMAIN l => l[k + 1] = <<memory_pool, End(s, l[k])>>
  /\ \A j, k \in DOMAIN l : j < k => End(s, l[j]) <= l[k][2]

\* b is in the list, behind all that is there, or in another pool.
Placed(b, l, s) ==
  \/ b[1] # memory_pool
  \/ b \in Range(l)
  \/ \A k \in DOMAIN l : End(s, l[k]) <= b[2]

Types ==
  /\ memory_pool \in 0..(Cardinality(Ptrs) + 2) /\ pool_size \in Nat
  /\ list \in Seq(Blocks) /\ (memory_pool = 0 <=> list = <<>>)
  /\ DOMAIN size \subseteq Blocks /\ size \in [DOMAIN size -> Nat]
  /\ ptr \in [Ptrs -> Piece]
  /\ \A p \in Ptrs : ptr[p].good <= ptr[p].wrote /\ ptr[p].wrote <= ptr[p].want
  /\ state = "idle" => call = <<>>
  /\ state = "call" => call \in Ptrs \X Requests
  /\ call = <<>> \/ call \in Ptrs \X Requests
  /\ state \in {"idle", "call", "exited", "overwritten", "overrun"}
  /\ fits \in BOOLEAN

HeaderInv ==
  /\ \A b \in DOMAIN size : b \in Range(list) \/ \E p \in Holders : ptr[p].block = b
  /\ \A p \in Holders : ptr[p].block \in DOMAIN size /\ ptr[p].block[1] # 0 /\ Placed(ptr[p].block, list, size)

ListInv == Types /\ HeaderInv /\ Tiles(list, size)

\* The end that is reached when a pool is too small for its first header.
AfterOverrun ==
  /\ Types /\ HeaderInv
  /\ state = "overrun" /\ pool_size < HEADER /\ list = <<<<memory_pool, 0>>>>
  /\ <<memory_pool, 0>> \in DOMAIN size

PoolInv == ListInv \/ AfterOverrun

Apart(s, b, c) == b[1] = c[1] => End(s, b) <= c[2] \/ End(s, c) <= b[2]

KeptInv ==
  ~fits =>
    /\ \A p \in Holders : ptr[p].good = ptr[p].wrote /\ ptr[p].want <= size[ptr[p].block]
    /\ \A p, q \in Holders : p # q => Apart(size, ptr[p].block, ptr[q].block)
    /\ state = "call" => \A q \in Holders \ {call[1]} : size[ptr[q].block] < call[2]
    /\ state # "overwritten"
-----------------------------------------------------------------------------
(***************************************************************************)
(* The operators.                                                          *)
(***************************************************************************)
LEMMA MinPair ==
  ASSUME NEW a \in Nat, NEW b \in Nat
  PROVE  Min({a, b}) = IF a <= b THEN a ELSE b
  BY DEF Min

LEMMA MinMember ==
  ASSUME NEW S \in SUBSET Nat, S # {}
  PROVE  Min(S) \in S
<1> DEFINE R == {p \in Nat \X Nat : p[1] < p[2]}
<1>1. IsWellFoundedOn(R, Nat)
  BY NatLessThanWellFounded DEF OpToRel
<1>2. PICK m \in S : \A k \in S : ~(<<k, m>> \in R)
  BY <1>1, WFMin
<1>3. ASSUME NEW k \in S PROVE m <= k
  <2>1. m \in Nat /\ k \in Nat
    OBVIOUS
  <2>2. ~(k < m)
    BY <1>2, <2>1
  <2> QED BY <2>1, <2>2
<1> QED BY <1>2, <1>3 DEF Min

LEMMA BlockParts ==
  ASSUME NEW b \in Blocks
  PROVE  b[1] \in Nat /\ b[2] \in Nat /\ b = <<b[1], b[2]>> /\ Space(b) \in Nat /\ Space(b) = b[2] + HEADER
  BY DEF Blocks, Space

\* Damage takes away from what is good and nothing else.
LEMMA DamageFacts ==
  ASSUME NEW r, NEW number, NEW first, NEW last, NEW d,
         r \in Piece, number \in Nat, first \in Nat, last \in Nat,
         d = Damage(r, number, first, last)
  PROVE  /\ d \in Piece /\ d.block = r.block /\ d.want = r.want /\ d.wrote = r.wrote /\ d.good <= r.good
         /\ \/ r.block[1] # number \/ last <= Space(r.block) \/ Space(r.block) + r.good <= first
            \/ last <= first
            => d = r
<1>1. r.block \in Blocks /\ r.good \in Nat /\ Space(r.block) \in Nat
  BY BlockParts DEF Piece
<1>2. CASE r.block[1] = number /\ first < last /\ Space(r.block) < last /\ first < Space(r.block) + r.good
  <2> DEFINE g == IF first > Space(r.block) THEN first - Space(r.block) ELSE 0
  <2>1. g \in Nat /\ g <= r.good
    BY <1>1, <1>2
  <2>2. Damage(r, number, first, last) = [r EXCEPT !.good = g]
    BY <1>2 DEF Damage
  <2> HIDE DEF g
  <2> QED BY <1>1, <1>2, <2>1, <2>2 DEF Piece
<1>3. CASE ~(r.block[1] = number /\ first < last /\ Space(r.block) < last /\ first < Space(r.block) + r.good)
  <2>1. Damage(r, number, first, last) = r
    BY <1>3 DEF Damage
  <2> QED BY <2>1 DEF Piece
<1> QED BY <1>2, <1>3

LEMMA WriteHeaderFacts ==
  ASSUME NEW s, NEW b, NEW n, NEW w,
         s \in [DOMAIN s -> Nat], n \in Nat, w = WriteHeader(s, b, n)
  PROVE  /\ w[b] = n
         /\ \A c : c \in DOMAIN w <=> (c \in DOMAIN s \/ c = b)
         /\ w \in [DOMAIN w -> Nat]
         /\ \A c \in DOMAIN s : c # b => w[c] = s[c]
  BY DEF WriteHeader

LEMMA KeepHeadersFacts ==
  ASSUME NEW s, NEW l, NEW f, NEW w,
         s \in [DOMAIN s -> Nat], w = KeepHeaders(s, l, f)
  PROVE  /\ \A b : b \in DOMAIN w <=>
                     /\ b \in DOMAIN s
                     /\ b \in Range(l) \/ \E p \in Ptrs : f[p] # Null /\ f[p].block = b
         /\ \A b \in DOMAIN w : w[b] = s[b]
         /\ w \in [DOMAIN w -> Nat] /\ DOMAIN w \subseteq DOMAIN s
<1> DEFINE D == DOMAIN s
           T == {b \in D : b \in Range(l) \/ \E p \in Ptrs : f[p] # Null /\ f[p].block = b}
<1>1. s \in [D -> Nat] /\ w = [b \in T |-> s[b]] /\ T \subseteq D
  BY DEF KeepHeaders, Restrict
<1>2. \A b : b \in T <=> /\ b \in D
                         /\ b \in Range(l) \/ \E p \in Ptrs : f[p] # Null /\ f[p].block = b
  OBVIOUS
<1> HIDE DEF T, D
<1>3. DOMAIN w = T /\ w \in [T -> Nat] /\ \A b \in T : w[b] = s[b]
  BY <1>1
<1>4. /\ \A b : b \in DOMAIN w <=>
                   /\ b \in D
                   /\ b \in Range(l) \/ \E p \in Ptrs : f[p] # Null /\ f[p].block = b
      /\ \A b \in DOMAIN w : w[b] = s[b]
      /\ w \in [DOMAIN w -> Nat] /\ DOMAIN w \subseteq D
  BY <1>1, <1>2, <1>3
<1> QED BY <1>4 DEF D

LEMMA InsertFacts ==
  ASSUME NEW S, NEW l, NEW k, NEW e, NEW w,
         l \in Seq(S), k \in DOMAIN l, e \in S, w = InsertAt(l, k + 1, e)
  PROVE  /\ w \in Seq(S) /\ Len(w) = Len(l) + 1
         /\ \A j \in 1..k : w[j] = l[j]
         /\ w[k + 1] = e
         /\ \A j \in (k + 2)..(Len(l) + 1) : w[j] = l[j - 1]
<1> DEFINE x == SubSeq(l, 1, k)
           z == SubSeq(l, k + 1, Len(l))
<1>1. k \in 1..Len(l) /\ Len(l) \in Nat
  OBVIOUS
<1>2. x \in Seq(S) /\ Len(x) = k /\ \A j \in 1..k : x[j] = l[j]
  BY <1>1
<1>3. z \in Seq(S) /\ Len(z) = Len(l) - k /\ \A j \in 1..(Len(l) - k) : z[j] = l[k + j]
  BY <1>1
<1>4. InsertAt(l, k + 1, e) = (x \o <<e>>) \o z
  <2>1. (k + 1) - 1 = k
    BY <1>1
  <2> QED BY <2>1, Zenon DEF InsertAt
<1> HIDE DEF x, z
<1> DEFINE y == x \o <<e>>
<1>5. y \in Seq(S) /\ Len(y) = k + 1 /\ y[k + 1] = e /\ \A j \in 1..k : y[j] = l[j]
  BY <1>1, <1>2
<1> HIDE DEF y
<1> DEFINE m == y \o z
<1>6. /\ m \in Seq(S) /\ Len(m) = Len(y) + Len(z)
      /\ \A j \in 1..(Len(y) + Len(z)) : m[j] = IF j <= Len(y) THEN y[j] ELSE z[j - Len(y)]
  BY <1>3, <1>5, ConcatProperties
<1>7. /\ Len(m) = Len(l) + 1
      /\ \A j \in 1..(Len(l) + 1) : m[j] = IF j <= k + 1 THEN y[j] ELSE z[j - (k + 1)]
  BY <1>1, <1>3, <1>5, <1>6
<1> HIDE DEF m
<1>8. \A j \in (k + 2)..(Len(l) + 1) : m[j] = l[j - 1]
  <2> SUFFICES ASSUME NEW j \in (k + 2)..(Len(l) + 1) PROVE m[j] = l[j - 1]
    OBVIOUS
  <2>1. j - (k + 1) \in 1..(Len(l) - k) /\ k + (j - (k + 1)) = j - 1 /\ j \in 1..(Len(l) + 1)
    BY <1>1
  <2>2. z[j - (k + 1)] = l[k + (j - (k + 1))]
    BY <1>3, <2>1
  <2>3. m[j] = z[j - (k + 1)]
    BY <1>1, <1>7, <2>1
  <2> QED BY <2>1, <2>2, <2>3
<1>9. m[k + 1] = e /\ \A j \in 1..k : m[j] = l[j]
  BY <1>1, <1>5, <1>7
<1> QED BY <1>4, <1>6, <1>7, <1>8, <1>9 DEF m, y

\* What is left of a list is its beginning, the whole of it if b is not there, and up to b
\* if it is.
LEMMA CutOffFacts ==
  ASSUME NEW S, NEW l, NEW b, NEW w, l \in Seq(S), w = CutOff(l, b)
  PROVE  /\ w \in Seq(S) /\ Len(w) <= Len(l)
         /\ \A j \in 1..Len(w) : w[j] = l[j]
         /\ l # <<>> => w # <<>>
         /\ w = l \/ (w # <<>> /\ w[Len(w)] = b)
         /\ b \in Range(l) => b \in Range(w)
<1>1. CASE \E k \in DOMAIN l : l[k] = b
  <2> DEFINE k == CHOOSE k \in DOMAIN l : l[k] = b
  <2>1. k \in DOMAIN l /\ l[k] = b
    BY <1>1
  <2>2. CutOff(l, b) = SubSeq(l, 1, k)
    BY <1>1 DEF CutOff
  <2> HIDE DEF k
  <2>3. k \in 1..Len(l)
    BY <2>1
  <2> DEFINE m == SubSeq(l, 1, k)
  <2>4. m \in Seq(S) /\ Len(m) = k /\ \A j \in 1..k : m[j] = l[j]
    BY <2>3
  <2>5. m # <<>> /\ m[Len(m)] = b /\ Len(m) \in DOMAIN m
    BY <2>1, <2>3, <2>4
  <2>6. b \in Range(m) /\ Len(m) <= Len(l)
    BY <2>3, <2>4, <2>5 DEF Range
  <2> HIDE DEF m
  <2> QED BY <2>2, <2>4, <2>5, <2>6 DEF m
<1>2. CASE ~\E k \in DOMAIN l : l[k] = b
  BY <1>2 DEF CutOff
<1> QED BY <1>1, <1>2

LEMMA Image ==
  ASSUME NEW S, NEW f \in [Ptrs -> S]
  PROVE  LET T == {f[p] : p \in Ptrs} IN IsFiniteSet(T) /\ Cardinality(T) <= Cardinality(Ptrs)
<1> DEFINE T == {f[p] : p \in Ptrs}
<1>1. f \in Surjection(Ptrs, T)
  BY DEF Surjection
<1> HIDE DEF T
<1>2. IsFiniteSet(T) /\ Cardinality(T) <= Cardinality(Ptrs)
  BY <1>1, FS_Surjection
<1> QED BY <1>2 DEF T

\* There is a number for the new pool: one is the old pool's, and a pointer uses one more.
LEMMA UnusedFacts ==
  ASSUME Types
  PROVE  /\ Unused \in 1..(Cardinality(Ptrs) + 2) /\ Unused # memory_pool
         /\ \A p \in Holders : ptr[p].block[1] # Unused
<1> DEFINE f == [p \in Ptrs |-> ptr[p].block[1]]
           T == {f[p] : p \in Ptrs}
           U == T \cup {memory_pool}
           c == Cardinality(Ptrs)
<1>1. c \in Nat
  BY FS_CardinalityType
<1>2. IsFiniteSet(T) /\ Cardinality(T) <= c
  <2>1. f \in [Ptrs -> {f[p] : p \in Ptrs}]
    OBVIOUS
  <2> HIDE DEF f
  <2> QED BY <2>1, Image
<1>3. IsFiniteSet(U) /\ Cardinality(U) <= c + 1
  <2>1. Cardinality(T) \in Nat
    BY <1>2, FS_CardinalityType
  <2> HIDE DEF T, c
  <2>2. /\ IsFiniteSet(T \cup {memory_pool})
        /\ Cardinality(T \cup {memory_pool}) = IF memory_pool \in T THEN Cardinality(T) ELSE Cardinality(T) + 1
    BY <1>2, FS_AddElement
  <2> QED BY <1>1, <1>2, <2>1, <2>2
<1>4. IsFiniteSet(1..(c + 2)) /\ Cardinality(1..(c + 2)) = c + 2
  BY <1>1, FS_Interval
<1>5. PICK k \in 1..(c + 2) : k \notin U
  <2> SUFFICES ASSUME 1..(c + 2) \subseteq U PROVE FALSE
    OBVIOUS
  <2> HIDE DEF U, c
  <2>1. Cardinality(1..(c + 2)) <= Cardinality(U)
    BY <1>3, FS_Subset
  <2>2. Cardinality(U) \in Nat
    BY <1>3, FS_CardinalityType
  <2> QED BY <1>1, <1>3, <1>4, <2>1, <2>2
<1>6. k # memory_pool /\ \A p \in Holders : ptr[p].block[1] # k
  BY <1>5 DEF Holders
<1> QED BY <1>5, <1>6, Zenon DEF Unused
-----------------------------------------------------------------------------
(***************************************************************************)
(* The list, when a block is cut and when the end is cut off.              *)
(***************************************************************************)
Rest(k, n) == <<memory_pool, Space(list[k]) + n>>

ListCut(k, n) == IF Cuts(k, n) THEN InsertAt(list, k + 1, Rest(k, n)) ELSE list

SizeCut(k, n) == IF Cuts(k, n)
                 THEN WriteHeader(WriteHeader(size, list[k], n), Rest(k, n), RestSize(k, n))
                 ELSE size

\* What the list is made of.
LEMMA ListFacts ==
  ASSUME Types, Tiles(list, size), NEW k \in DOMAIN list
  PROVE  /\ k \in 1..Len(list) /\ Len(list) \in Nat
         /\ list[k] \in Blocks /\ list[k] \in DOMAIN size /\ size[list[k]] \in Nat
         /\ list[k][1] = memory_pool /\ list[k][2] \in Nat
         /\ Space(list[k]) = list[k][2] + HEADER
         /\ End(size, list[k]) = list[k][2] + HEADER + size[list[k]]
         /\ End(size, list[k]) \in Nat
<1>1. k \in 1..Len(list) /\ Len(list) \in Nat /\ list[k] \in Blocks
  BY DEF Types
<1>2. list[k] \in DOMAIN size /\ list[k][1] = memory_pool
  BY DEF Tiles
<1>3. size[list[k]] \in Nat
  BY <1>2 DEF Types
<1> QED BY <1>1, <1>2, <1>3, BlockParts DEF End

\* The rest lies inside the block that is cut: it is not in the list yet.
LEMMA RestFacts ==
  ASSUME Types, Tiles(list, size), NEW k \in DOMAIN list, NEW n \in Nat, Cuts(k, n)
  PROVE  /\ Rest(k, n) \in Blocks /\ Rest(k, n)[1] = memory_pool
         /\ Rest(k, n)[2] = Space(list[k]) + n
         /\ Rest(k, n)[2] \in Nat /\ Rest(k, n)[2] + HEADER < End(size, list[k])
         /\ RestSize(k, n) \in Nat
         /\ Space(Rest(k, n)) + RestSize(k, n) = End(size, list[k])
         /\ \A j \in DOMAIN list : Rest(k, n) # list[j]
<1>1. /\ list[k] \in Blocks /\ list[k][2] \in Nat /\ size[list[k]] \in Nat
      /\ Space(list[k]) = list[k][2] + HEADER
      /\ End(size, list[k]) = list[k][2] + HEADER + size[list[k]]
  BY ListFacts
<1>2. size[list[k]] > n + HEADER /\ RestSize(k, n) = size[list[k]] - n - HEADER
  BY DEF Cuts, RestSize
<1>3. memory_pool \in Nat
  BY FS_CardinalityType DEF Types
<1>4. /\ Rest(k, n) \in Blocks /\ Rest(k, n)[1] = memory_pool
      /\ Rest(k, n)[2] = Space(list[k]) + n
  BY <1>1, <1>3 DEF Rest, Blocks
<1>5. Space(Rest(k, n)) = Rest(k, n)[2] + HEADER
  BY DEF Space
<1>6. ASSUME NEW j \in DOMAIN list PROVE Rest(k, n) # list[j]
  <2>1. list[j][2] \in Nat /\ End(size, list[j]) = list[j][2] + HEADER + size[list[j]] /\ size[list[j]] \in Nat
    BY ListFacts
  <2>2. j = k \/ j < k \/ k < j
    BY ListFacts
  <2>3. j < k => End(size, list[j]) <= list[k][2]
    BY DEF Tiles
  <2>4. k < j => End(size, list[k]) <= list[j][2]
    BY DEF Tiles
  <2> QED BY <1>1, <1>2, <1>4, <2>1, <2>2, <2>3, <2>4
<1> QED BY <1>1, <1>2, <1>4, <1>5, <1>6

\* The sizes after a cut: the block keeps n, the rest is new, no other header changes.
LEMMA SizeCutFacts ==
  ASSUME Types, Tiles(list, size), NEW k \in DOMAIN list, NEW n \in Nat, size[list[k]] >= n
  PROVE  /\ SizeCut(k, n) \in [DOMAIN SizeCut(k, n) -> Nat]
         /\ n <= SizeCut(k, n)[list[k]] /\ SizeCut(k, n)[list[k]] <= size[list[k]]
         /\ ~Cuts(k, n) => SizeCut(k, n) = size
         /\ Cuts(k, n) => /\ DOMAIN SizeCut(k, n) = DOMAIN size \cup {Rest(k, n)}
                          /\ SizeCut(k, n)[Rest(k, n)] = RestSize(k, n) /\ SizeCut(k, n)[list[k]] = n
                          /\ \A c \in DOMAIN size : c # Rest(k, n) /\ c # list[k] => SizeCut(k, n)[c] = size[c]
<1>0. /\ list[k] \in DOMAIN size /\ size[list[k]] \in Nat
      /\ DOMAIN size \subseteq Blocks /\ size \in [DOMAIN size -> Nat]
  BY ListFacts DEF Types
<1>1. CASE ~Cuts(k, n)
  <2>1. SizeCut(k, n) = size
    BY <1>1 DEF SizeCut
  <2> QED BY <1>0, <1>1, <2>1
<1>2. CASE Cuts(k, n)
  <2> DEFINE s == SizeCut(k, n)
             r == Rest(k, n)
             x == WriteHeader(size, list[k], n)
  <2>1. s = WriteHeader(x, r, RestSize(k, n))
    BY <1>2 DEF SizeCut
  <2>2. RestSize(k, n) \in Nat /\ \A j \in DOMAIN list : r # list[j]
    BY <1>2, RestFacts
  <2>3. x = WriteHeader(size, list[k], n)
    OBVIOUS
  <2> HIDE DEF r, s, x
  <2>4. /\ x[list[k]] = n
        /\ \A c : c \in DOMAIN x <=> (c \in DOMAIN size \/ c = list[k])
        /\ x \in [DOMAIN x -> Nat]
        /\ \A c \in DOMAIN size : c # list[k] => x[c] = size[c]
    BY <1>0, <2>3, WriteHeaderFacts
  <2>5. DOMAIN x = DOMAIN size
    BY <1>0, <2>4
  <2>6. /\ s[r] = RestSize(k, n)
        /\ \A c : c \in DOMAIN s <=> (c \in DOMAIN x \/ c = r)
        /\ s \in [DOMAIN s -> Nat]
        /\ \A c \in DOMAIN x : c # r => s[c] = x[c]
    BY <2>1, <2>2, <2>4, WriteHeaderFacts
  <2>7. /\ DOMAIN s = DOMAIN size \cup {r}
        /\ s[r] = RestSize(k, n) /\ s[list[k]] = n
        /\ \A c \in DOMAIN size : c # r /\ c # list[k] => s[c] = size[c]
        /\ s \in [DOMAIN s -> Nat]
    BY <1>0, <2>2, <2>4, <2>5, <2>6
  <2> QED BY <1>0, <1>2, <2>7 DEF s, r
<1> QED BY <1>1, <1>2

\* After the cut the list tiles the pool as before.
LEMMA CutFacts ==
  ASSUME Types, Tiles(list, size), NEW k \in DOMAIN list, NEW n \in Nat, size[list[k]] >= n
  PROVE  /\ ListCut(k, n) \in Seq(Blocks) /\ ListCut(k, n) # <<>>
         /\ k \in DOMAIN ListCut(k, n) /\ ListCut(k, n)[k] = list[k]
         /\ Range(list) \subseteq Range(ListCut(k, n))
         /\ Range(ListCut(k, n)) \subseteq Range(list) \cup DOMAIN SizeCut(k, n)
         /\ DOMAIN size \subseteq DOMAIN SizeCut(k, n)
         /\ \A c \in DOMAIN SizeCut(k, n) : c \notin DOMAIN size => c \in Range(ListCut(k, n))
         /\ DOMAIN SizeCut(k, n) \subseteq Blocks /\ SizeCut(k, n) \in [DOMAIN SizeCut(k, n) -> Nat]
         /\ \A j \in DOMAIN ListCut(k, n) :
              \E i \in DOMAIN list : End(SizeCut(k, n), ListCut(k, n)[j]) <= End(size, list[i])
         /\ Tiles(ListCut(k, n), SizeCut(k, n))
<1>0. /\ k \in 1..Len(list) /\ Len(list) \in Nat /\ list \in Seq(Blocks)
      /\ list[k] \in Blocks /\ list[k] \in DOMAIN size /\ size[list[k]] \in Nat
      /\ DOMAIN size \subseteq Blocks /\ size \in [DOMAIN size -> Nat]
  BY ListFacts DEF Types
<1>1. CASE ~Cuts(k, n)
  <2>1. ListCut(k, n) = list /\ SizeCut(k, n) = size
    BY <1>1 DEF ListCut, SizeCut
  <2>2. \A j \in DOMAIN list : list[j] \in Range(list)
    BY DEF Range
  <2>3. \A j \in DOMAIN list : End(size, list[j]) <= End(size, list[j])
    <3> SUFFICES ASSUME NEW j \in DOMAIN list PROVE End(size, list[j]) <= End(size, list[j])
      OBVIOUS
    <3> QED BY ListFacts
  <2> QED BY <1>0, <2>1, <2>2, <2>3
<1>2. CASE Cuts(k, n)
  <2> DEFINE l == ListCut(k, n)
             s == SizeCut(k, n)
             r == Rest(k, n)
  <2>1. l = InsertAt(list, k + 1, r) /\ s = WriteHeader(WriteHeader(size, list[k], n), r, RestSize(k, n))
    BY <1>2 DEF ListCut, SizeCut
  <2>2. /\ r \in Blocks /\ r[1] = memory_pool /\ r[2] = Space(list[k]) + n
        /\ r[2] \in Nat /\ RestSize(k, n) \in Nat
        /\ Space(r) + RestSize(k, n) = End(size, list[k])
        /\ \A j \in DOMAIN list : r # list[j]
    BY <1>2, RestFacts
  <2> HIDE DEF r, l, s
  <2>3. /\ l \in Seq(Blocks) /\ Len(l) = Len(list) + 1
        /\ \A j \in 1..k : l[j] = list[j]
        /\ l[k + 1] = r
        /\ \A j \in (k + 2)..(Len(list) + 1) : l[j] = list[j - 1]
    BY <1>0, <2>1, <2>2, InsertFacts, SMTT(30)
  <2>4. /\ DOMAIN s = DOMAIN size \cup {r}
        /\ s[r] = RestSize(k, n) /\ s[list[k]] = n
        /\ \A c \in DOMAIN size : c # r /\ c # list[k] => s[c] = size[c]
        /\ s \in [DOMAIN s -> Nat]
    BY <1>2, SizeCutFacts DEF s, r
  <2>5. /\ \A j \in DOMAIN list : j < k => End(s, list[j]) = End(size, list[j])
        /\ \A j \in DOMAIN list : j > k => End(s, list[j]) = End(size, list[j])
        /\ End(s, list[k]) = r[2] /\ End(s, r) = End(size, list[k])
    <3>1. \A j \in DOMAIN list : j # k => list[j] # list[k]
      <4> SUFFICES ASSUME NEW j \in DOMAIN list, j # k, list[j] = list[k] PROVE FALSE
        OBVIOUS
      <4>1. (j < k \/ k < j) /\ End(size, list[k]) > list[k][2]
        BY ListFacts
      <4> QED BY <1>0, <4>1, ListFacts, SMTT(30) DEF Tiles
    <3>2. \A j \in DOMAIN list : list[j] \in DOMAIN size
      BY ListFacts
    <3> QED BY <1>0, <2>2, <2>4, <3>1, <3>2, SMTT(30) DEF End
  <2>6. DOMAIN l = 1..(Len(list) + 1) /\ DOMAIN list = 1..Len(list)
    BY <1>0, <2>3
  <2>7. \A j \in DOMAIN l : \/ j \in DOMAIN list /\ j <= k /\ l[j] = list[j]
                            \/ j = k + 1 /\ l[j] = r
                            \/ j > k + 1 /\ j - 1 \in DOMAIN list /\ l[j] = list[j - 1]
    <3> SUFFICES ASSUME NEW j \in DOMAIN l
                 PROVE  \/ j \in DOMAIN list /\ j <= k /\ l[j] = list[j]
                        \/ j = k + 1 /\ l[j] = r
                        \/ j > k + 1 /\ j - 1 \in DOMAIN list /\ l[j] = list[j - 1]
      OBVIOUS
    <3>1. CASE j <= k
      <4>1. j \in 1..k /\ j \in DOMAIN list
        BY <1>0, <2>6, <3>1
      <4> QED BY <2>3, <3>1, <4>1
    <3>2. CASE j = k + 1
      BY <2>3, <3>2
    <3>3. CASE j > k + 1
      <4>1. j \in (k + 2)..(Len(list) + 1) /\ j - 1 \in DOMAIN list
        BY <1>0, <2>6, <3>3
      <4> QED BY <2>3, <3>3, <4>1
    <3> QED BY <1>0, <2>6, <3>1, <3>2, <3>3
  <2>8. /\ \A j \in DOMAIN l : l[j] \in Range(list) \cup {r}
        /\ Range(list) \subseteq Range(l) /\ r \in Range(l)
    <3>1. \A j \in DOMAIN list : list[j] \in Range(list)
      BY DEF Range
    <3>2. \A j \in DOMAIN list : \E i \in DOMAIN l : l[i] = list[j]
      <4> SUFFICES ASSUME NEW j \in DOMAIN list PROVE \E i \in DOMAIN l : l[i] = list[j]
        OBVIOUS
      <4>1. CASE j <= k
        BY <1>0, <2>3, <2>6, <4>1
      <4>2. CASE j > k
        <5>1. j + 1 \in (k + 2)..(Len(list) + 1) /\ (j + 1) - 1 = j
          BY <1>0, <2>6, <4>2
        <5> QED BY <2>3, <2>6, <5>1
      <4> QED BY <1>0, <2>6, <4>1, <4>2
    <3>3. k + 1 \in DOMAIN l
      BY <1>0, <2>6
    <3>4. \A j \in DOMAIN l : l[j] \in Range(list) \cup {r}
      BY <2>7, <3>1
    <3>5. r \in Range(l)
      BY <2>3, <3>3 DEF Range
    <3>6. Range(list) \subseteq Range(l)
      BY <3>2 DEF Range
    <3> QED BY <3>4, <3>5, <3>6
  <2>9. Tiles(l, s)
    <3> DEFINE E(j) == End(size, list[j])
    <3>0. /\ \A j \in DOMAIN list : E(j) \in Nat /\ list[j][2] \in Nat /\ list[j][2] < E(j)
          /\ \A j \in DOMAIN list : list[j] \in DOMAIN size /\ list[j][1] = memory_pool
          /\ \A j \in DOMAIN list : E(j) <= pool_size /\ pool_size \in Nat
          /\ \A i, j \in DOMAIN list : i < j => E(i) <= list[j][2]
          /\ \A j \in DOMAIN list : j + 1 \in DOMAIN list => list[j + 1] = <<memory_pool, E(j)>>
          /\ list[1] = <<memory_pool, 0>>
      <4>1. \A j \in DOMAIN list : E(j) \in Nat /\ list[j][2] \in Nat /\ list[j][2] < E(j)
                                 /\ list[j] \in DOMAIN size /\ list[j][1] = memory_pool
        <5> SUFFICES ASSUME NEW j \in DOMAIN list
                     PROVE  E(j) \in Nat /\ list[j][2] \in Nat /\ list[j][2] < E(j)
                                 /\ list[j] \in DOMAIN size /\ list[j][1] = memory_pool
          OBVIOUS
        <5> QED BY ListFacts, SMTT(30)
      <4>2. pool_size \in Nat
        BY DEF Types
      <4>3. list # <<>>
        BY <1>0
      <4> QED BY <4>1, <4>2, <4>3 DEF Tiles
    <3>1. list[k][2] < r[2] /\ r[2] < E(k)
      <4>1. r[2] = Space(list[k]) + n /\ r[2] \in Nat /\ r[2] + HEADER < E(k)
        <5>1. /\ Rest(k, n)[2] = Space(list[k]) + n /\ Rest(k, n)[2] \in Nat
              /\ Rest(k, n)[2] + HEADER < End(size, list[k])
          BY <1>2, RestFacts
        <5> QED BY <5>1 DEF r
      <4>2. list[k][2] \in Nat /\ Space(list[k]) = list[k][2] + HEADER /\ HEADER \in Nat \ {0}
        BY ListFacts
      <4>3. E(k) \in Nat
        BY <3>0
      <4> HIDE DEF E, r
      <4> QED BY <4>1, <4>2, <4>3
    <3> HIDE DEF E
    <3>2. \A j \in DOMAIN l : \/ j < k /\ j \in DOMAIN list /\ l[j] = list[j] /\ End(s, l[j]) = E(j)
                              \/ j = k /\ l[j] = list[k] /\ End(s, l[j]) = r[2]
                              \/ j = k + 1 /\ l[j] = r /\ End(s, l[j]) = E(k)
                              \/ j > k + 1 /\ j - 1 \in DOMAIN list /\ l[j] = list[j - 1] /\ End(s, l[j]) = E(j - 1)
      BY <1>0, <2>5, <2>6, <2>7 DEF E
    <3>3. \A j \in DOMAIN l : l[j] \in DOMAIN s /\ l[j][1] = memory_pool /\ End(s, l[j]) <= pool_size
      BY <1>0, <2>2, <2>4, <3>0, <3>1, <3>2, SMTT(30)
    <3>4. l[1] = <<memory_pool, 0>>
      <4>1. 1 \in 1..k
        BY <1>0
      <4> QED BY <2>3, <3>0, <4>1
    <3>5. \A j \in DOMAIN l : j + 1 \in DOMAIN l => l[j + 1] = <<memory_pool, End(s, l[j])>>
      <4> SUFFICES ASSUME NEW j \in DOMAIN l, j + 1 \in DOMAIN l
                   PROVE  l[j + 1] = <<memory_pool, End(s, l[j])>>
        OBVIOUS
      <4>1. CASE j < k
        <5>1. j \in DOMAIN list /\ j + 1 \in DOMAIN list /\ j + 1 \in 1..k
          BY <1>0, <2>6, <4>1
        <5>2. l[j + 1] = list[j + 1] /\ End(s, l[j]) = E(j)
          BY <1>0, <2>3, <2>6, <3>2, <4>1, <5>1
        <5> QED BY <3>0, <5>1, <5>2
      <4>2. CASE j = k
        <5>1. End(s, l[j]) = r[2]
          BY <1>0, <3>2, <4>2
        <5>2. r = <<memory_pool, r[2]>>
          BY DEF r, Rest
        <5> QED BY <2>3, <4>2, <5>1, <5>2
      <4>3. CASE j > k
        <5>1. j - 1 \in DOMAIN list /\ (j - 1) + 1 \in DOMAIN list /\ (j - 1) + 1 = j
          BY <1>0, <2>6, <4>3
        <5>2. End(s, l[j]) = E(j - 1)
          <6>1. CASE j = k + 1
            <7>1. j - 1 = k
              BY <1>0, <6>1
            <7> QED BY <1>0, <3>2, <6>1, <7>1
          <6>2. CASE j > k + 1
            BY <1>0, <3>2, <6>2
          <6> QED BY <1>0, <2>6, <4>3, <6>1, <6>2
        <5>3. l[j + 1] = list[j]
          <6>1. j + 1 \in (k + 2)..(Len(list) + 1) /\ (j + 1) - 1 = j
            BY <1>0, <2>6, <4>3
          <6> QED BY <2>3, <6>1
        <5>4. list[(j - 1) + 1] = <<memory_pool, E(j - 1)>>
          BY <3>0, <5>1
        <5> QED BY <5>1, <5>2, <5>3, <5>4
      <4> QED BY <1>0, <2>6, <4>1, <4>2, <4>3
    <3>6. \A i, j \in DOMAIN l : i < j => End(s, l[i]) <= l[j][2]
      <4> SUFFICES ASSUME NEW i \in DOMAIN l, NEW j \in DOMAIN l, i < j
                   PROVE  End(s, l[i]) <= l[j][2]
        OBVIOUS
      <4>0. i \in Nat /\ j \in Nat /\ k \in Nat /\ r[2] \in Nat
        BY <1>0, <2>2, <2>6
      <4>1. CASE j < k
        BY <3>0, <3>2, <4>0, <4>1
      <4>2. CASE j = k
        <5>1. End(s, l[i]) = E(i) /\ i \in DOMAIN list /\ l[j] = list[j]
          BY <1>0, <3>2, <4>0, <4>2
        <5>2. E(i) <= list[j][2]
          BY <3>0, <4>2, <5>1
        <5> QED BY <5>1, <5>2
      <4>3. CASE j = k + 1
        <5>1. l[j][2] = r[2]
          BY <2>3, <4>3
        <5>2. i = k => End(s, l[i]) = r[2]
          BY <3>2, <4>0
        <5>3. i < k => End(s, l[i]) = E(i) /\ i \in DOMAIN list /\ E(i) <= list[k][2]
          <6> SUFFICES ASSUME i < k
                       PROVE  End(s, l[i]) = E(i) /\ i \in DOMAIN list /\ E(i) <= list[k][2]
            OBVIOUS
          <6>1. End(s, l[i]) = E(i) /\ i \in DOMAIN list
            BY <3>2, <4>0
          <6>2. E(i) <= list[k][2]
            BY <3>0, <6>1
          <6> QED BY <6>1, <6>2
        <5> QED BY <1>0, <3>0, <3>1, <4>0, <4>3, <5>1, <5>2, <5>3, SMTT(30)
      <4>4. CASE j > k + 1
        <5>1. l[j] = list[j - 1] /\ j - 1 \in DOMAIN list /\ k < j - 1
          BY <3>2, <4>0, <4>4
        <5>2. E(k) <= list[j - 1][2] /\ E(k) \in Nat /\ list[j - 1][2] \in Nat
          BY <1>0, <3>0, <5>1
        <5>3. CASE i < k
          <6>1. End(s, l[i]) = E(i) /\ i \in DOMAIN list /\ i < j - 1
            BY <3>2, <4>0, <5>1, <5>3
          <6> QED BY <3>0, <5>1, <6>1
        <5>4. CASE i = k \/ i = k + 1
          BY <3>1, <3>2, <4>0, <5>1, <5>2, <5>4
        <5>5. CASE i > k + 1
          <6>1. End(s, l[i]) = E(i - 1) /\ i - 1 \in DOMAIN list /\ i - 1 < j - 1
            BY <3>2, <4>0, <5>5
          <6> QED BY <3>0, <5>1, <6>1
        <5> QED BY <4>0, <5>3, <5>4, <5>5
      <4> QED BY <4>0, <4>1, <4>2, <4>3, <4>4
    <3> QED BY <3>3, <3>4, <3>5, <3>6 DEF Tiles
  <2>10. k \in DOMAIN l /\ l[k] = list[k] /\ l # <<>>
    BY <1>0, <2>3, <2>6
  <2>11. \A j \in DOMAIN l : \E i \in DOMAIN list : End(s, l[j]) <= End(size, list[i])
    <3>1. \A i \in DOMAIN list : End(size, list[i]) <= End(size, list[i])
      <4> SUFFICES ASSUME NEW i \in DOMAIN list PROVE End(size, list[i]) <= End(size, list[i])
        OBVIOUS
      <4> QED BY ListFacts
    <3>2. r[2] <= End(size, list[k])
      BY <1>2, RestFacts, ListFacts DEF r
    <3> SUFFICES ASSUME NEW j \in DOMAIN l PROVE \E i \in DOMAIN list : End(s, l[j]) <= End(size, list[i])
      OBVIOUS
    <3>3. CASE j < k \/ j > k + 1
      BY <1>0, <2>5, <2>6, <2>7, <3>1, <3>3
    <3>4. CASE j = k \/ j = k + 1
      BY <1>0, <2>3, <2>5, <3>1, <3>2, <3>4
    <3> QED BY <1>0, <2>6, <3>3, <3>4
  <2>12. /\ Range(l) \subseteq Range(list) \cup DOMAIN s /\ DOMAIN s \subseteq Blocks
         /\ \A c \in DOMAIN s : c \notin DOMAIN size => c \in Range(l)
    BY <1>0, <2>2, <2>4, <2>8 DEF Range
  <2> QED BY <2>3, <2>4, <2>8, <2>9, <2>10, <2>11, <2>12 DEF l, s
<1> QED BY <1>1, <1>2

\* What a list's tiles and a block's place depend on: the sizes of the list's own blocks.
LEMMA TilesAgree ==
  ASSUME NEW l, NEW s, NEW t, Tiles(l, s),
         \A k \in DOMAIN l : l[k] \in DOMAIN t /\ t[l[k]] = s[l[k]]
  PROVE  Tiles(l, t) /\ \A c : Placed(c, l, s) => Placed(c, l, t)
<1>1. \A k \in DOMAIN l : End(t, l[k]) = End(s, l[k])
  BY DEF End
<1>2. Tiles(l, t)
  BY <1>1 DEF Tiles
<1>3. \A c : Placed(c, l, s) => Placed(c, l, t)
  BY <1>1 DEF Placed
<1> QED BY <1>2, <1>3

LEMMA CutOffTiles ==
  ASSUME NEW l, NEW s, NEW b, NEW w, l \in Seq(Blocks), Tiles(l, s), w = CutOff(l, b)
  PROVE  /\ w \in Seq(Blocks) /\ Range(w) \subseteq Range(l) /\ (l # <<>> => w # <<>>)
         /\ Tiles(w, s) /\ \A c : Placed(c, l, s) => Placed(c, w, s)
<1>1. /\ w \in Seq(Blocks) /\ Len(w) <= Len(l)
      /\ \A j \in 1..Len(w) : w[j] = l[j]
      /\ l # <<>> => w # <<>>
  BY CutOffFacts
<1>2. DOMAIN w = 1..Len(w) /\ DOMAIN l = 1..Len(l) /\ Len(w) \in Nat /\ Len(l) \in Nat
  BY <1>1
<1>3. \A j \in DOMAIN w : j \in DOMAIN l /\ w[j] = l[j]
  BY <1>1, <1>2
<1>4. Tiles(w, s)
  <2>1. \A k \in DOMAIN w : w[k] \in DOMAIN s /\ w[k][1] = memory_pool /\ End(s, w[k]) <= pool_size
    BY <1>3 DEF Tiles
  <2>2. w # <<>> => w[1] = <<memory_pool, 0>>
    <3> SUFFICES ASSUME w # <<>> PROVE w[1] = <<memory_pool, 0>>
      OBVIOUS
    <3>1. 1 \in DOMAIN w
      BY <1>1, <1>2
    <3>2. 1 \in DOMAIN l /\ w[1] = l[1]
      BY <1>3, <3>1
    <3>3. l # <<>>
      BY <1>2, <3>2
    <3> QED BY <3>2, <3>3 DEF Tiles
  <2>3. \A k \in DOMAIN w : k + 1 \in DOMAIN w => w[k + 1] = <<memory_pool, End(s, w[k])>>
    BY <1>3 DEF Tiles
  <2>4. \A j, k \in DOMAIN w : j < k => End(s, w[j]) <= w[k][2]
    BY <1>3 DEF Tiles
  <2> QED BY <2>1, <2>2, <2>3, <2>4 DEF Tiles
<1>5. Range(w) \subseteq Range(l)
  BY <1>3 DEF Range
<1>6. ASSUME NEW c, Placed(c, l, s) PROVE Placed(c, w, s)
  <2>1. CASE c[1] # memory_pool
    BY <2>1 DEF Placed
  <2>2. CASE \A k \in DOMAIN l : End(s, l[k]) <= c[2]
    BY <1>3, <2>2 DEF Placed
  <2>3. CASE c \in Range(l)
    <3>1. PICK i \in DOMAIN l : l[i] = c
      BY <2>3 DEF Range
    <3>2. CASE i \in DOMAIN w
      BY <1>3, <3>1, <3>2 DEF Placed, Range
    <3>3. CASE i \notin DOMAIN w
      <4>1. \A k \in DOMAIN w : k < i
        BY <1>2, <3>3
      <4>2. \A k \in DOMAIN w : End(s, w[k]) <= c[2]
        BY <1>3, <3>1, <4>1 DEF Tiles
      <4> QED BY <4>2 DEF Placed
    <3> QED BY <3>2, <3>3
  <2> QED BY <1>6, <2>1, <2>2, <2>3 DEF Placed
<1> QED BY <1>1, <1>4, <1>5, <1>6

\* A block keeps its place when another one is cut.
LEMMA CutPlaced ==
  ASSUME Types, Tiles(list, size), NEW k \in DOMAIN list, NEW n \in Nat, size[list[k]] >= n,
         NEW c \in Blocks, Placed(c, list, size)
  PROVE  Placed(c, ListCut(k, n), SizeCut(k, n))
<1> DEFINE l == ListCut(k, n)
           s == SizeCut(k, n)
<1>1. /\ Range(list) \subseteq Range(l)
      /\ \A j \in DOMAIN l : \E i \in DOMAIN list : End(s, l[j]) <= End(size, list[i])
      /\ Tiles(l, s) /\ s \in [DOMAIN s -> Nat] /\ DOMAIN s \subseteq Blocks
  BY CutFacts
<1> HIDE DEF l, s
<1>2. CASE \A i \in DOMAIN list : End(size, list[i]) <= c[2]
  <2> SUFFICES ASSUME NEW j \in DOMAIN l PROVE End(s, l[j]) <= c[2]
    BY DEF Placed, l, s
  <2>1. PICK i \in DOMAIN list : End(s, l[j]) <= End(size, list[i])
    BY <1>1
  <2>2. End(size, list[i]) \in Nat /\ c[2] \in Nat
    BY ListFacts, BlockParts
  <2>3. l[j] \in DOMAIN s
    BY <1>1 DEF Tiles
  <2>4. l[j] \in Blocks /\ s[l[j]] \in Nat
    BY <1>1, <2>3
  <2>5. End(s, l[j]) \in Nat
    BY <2>4, BlockParts DEF End
  <2> QED BY <1>2, <2>1, <2>2, <2>5
<1>3. CASE c[1] # memory_pool \/ c \in Range(list)
  BY <1>1, <1>3 DEF Placed, l, s
<1> QED BY <1>2, <1>3 DEF Placed

\* A block that has its place overlaps no other block of the list.
LEMMA ListApart ==
  ASSUME Types, Tiles(list, size), NEW k \in DOMAIN list, NEW c \in DOMAIN size,
         c # list[k], Placed(c, list, size)
  PROVE  Apart(size, c, list[k])
<1>1. CASE c \in Range(list)
  <2>1. PICK j \in DOMAIN list : list[j] = c
    BY <1>1 DEF Range
  <2>2. j < k \/ k < j
    BY <2>1, ListFacts
  <2> QED BY <2>1, <2>2 DEF Apart, Tiles
<1>2. CASE c \notin Range(list)
  BY <1>2, ListFacts DEF Apart, Placed
<1> QED BY <1>1, <1>2
-----------------------------------------------------------------------------
(***************************************************************************)
(* my_malloc and my_realloc return.                                        *)
(***************************************************************************)
LastCut(k, n) == IF Cuts(k, n) THEN Rest(k, n)[2] + HEADER ELSE Rest(k, n)[2]

PtrCut(k, n) == [q \in Ptrs |-> Damage(ptr[q], memory_pool, Rest(k, n)[2], LastCut(k, n))]

Copied(p, k, n) == IF ptr[p] = Null THEN 0 ELSE CopySize(n, SizeCut(k, n)[ptr[p].block])

Mine(p, k, n) == [block |-> list[k], want |-> n, wrote |-> Min({n, ptr[p].wrote}),
                  good |-> Min({Copied(p, k, n), PtrCut(k, n)[p].good})]

ListFreed(p, k, n) == IF ptr[p] = Null THEN ListCut(k, n) ELSE CutOff(ListCut(k, n), ptr[p].block)

PtrCopied(p, k, n) ==
  [q \in Ptrs |-> IF q = p THEN Mine(p, k, n)
                  ELSE IF list[k] = ptr[p].block THEN PtrCut(k, n)[q]
                  ELSE Damage(PtrCut(k, n)[q], memory_pool, Space(list[k]), Space(list[k]) + Copied(p, k, n))]

Returns(p, k, n) ==
  /\ ptr' = PtrCopied(p, k, n) /\ list' = ListFreed(p, k, n)
  /\ size' = KeepHeaders(SizeCut(k, n), ListFreed(p, k, n), PtrCopied(p, k, n))
  /\ state' = IF \/ HitsHeader(DOMAIN size, memory_pool, Rest(k, n)[2], LastCut(k, n))
                 \/ /\ list[k] # ptr[p].block
                    /\ HitsHeader(DOMAIN SizeCut(k, n), memory_pool, Space(list[k]), Space(list[k]) + Copied(p, k, n))
              THEN "overwritten" ELSE "idle"
  /\ call' = <<>>
  /\ UNCHANGED <<pool, fits>>

\* Return with names for its parts.
LEMMA ReturnStep ==
  ASSUME Types, Return
  PROVE  \E p \in Ptrs, n \in Requests, k \in DOMAIN list :
           /\ state = "call" /\ call[1] = p /\ call[2] = n /\ memory_pool # 0
           /\ size[list[k]] >= n /\ Returns(p, k, n)
<1>1. call \in Ptrs \X Requests /\ state = "call" /\ memory_pool # 0 /\ Fitting # {}
  BY DEF Types, Return
<1>2. Fitting \in SUBSET Nat
  BY DEF Fitting, Types
<1>3. Min(Fitting) \in Fitting
  BY <1>1, <1>2, MinMember
<1>4. Min(Fitting) \in DOMAIN list /\ size[list[Min(Fitting)]] >= call[2]
  BY <1>3 DEF Fitting
<1>5. call[1] \in Ptrs /\ call[2] \in Requests
  BY <1>1
<1>6. Returns(call[1], Min(Fitting), call[2])
  BY Zenon DEF Return, Returns, Rest, ListCut, SizeCut, LastCut, PtrCut, Copied, Mine, ListFreed, PtrCopied
<1> QED BY <1>1, <1>4, <1>5, <1>6

LEMMA NullFacts == Null \in Piece /\ Null.block = <<0, 0>> /\ Null.block[1] = 0
                   /\ Null.want = 0 /\ Null.wrote = 0 /\ Null.good = 0
  BY DEF Null, Piece, Blocks

\* Where the two writes are.
LEMMA WriteFacts ==
  ASSUME ListInv, NEW p \in Ptrs, NEW k \in DOMAIN list, NEW n \in Nat, size[list[k]] >= n
  PROVE  /\ Copied(p, k, n) \in Nat /\ Copied(p, k, n) <= n
         /\ Rest(k, n)[2] = Space(list[k]) + n /\ Rest(k, n)[2] \in Nat
         /\ LastCut(k, n) \in Nat /\ Rest(k, n)[2] <= LastCut(k, n)
         /\ ~Cuts(k, n) => LastCut(k, n) = Rest(k, n)[2]
         /\ LastCut(k, n) <= End(size, list[k])
         /\ Space(list[k]) \in Nat /\ memory_pool \in Nat
<1>0. Types /\ Tiles(list, size) /\ HeaderInv
  BY DEF ListInv
<1>1. /\ list[k] \in Blocks /\ list[k] \in DOMAIN size /\ size[list[k]] \in Nat
      /\ list[k][2] \in Nat /\ Space(list[k]) = list[k][2] + HEADER
      /\ End(size, list[k]) = list[k][2] + HEADER + size[list[k]]
  BY <1>0, ListFacts
<1>2. memory_pool \in Nat
  BY <1>0, FS_CardinalityType DEF Types
<1>3. Rest(k, n)[2] = Space(list[k]) + n /\ Rest(k, n)[2] \in Nat
  BY <1>1 DEF Rest
<1>4. Copied(p, k, n) \in Nat /\ Copied(p, k, n) <= n
  <2>1. CASE ptr[p] = Null
    BY <2>1 DEF Copied
  <2>2. CASE ptr[p] # Null
    <3>1. ptr[p].block \in DOMAIN SizeCut(k, n) /\ SizeCut(k, n) \in [DOMAIN SizeCut(k, n) -> Nat]
      BY <1>0, <2>2, CutFacts DEF HeaderInv, Holders
    <3>2. SizeCut(k, n)[ptr[p].block] \in Nat
      BY <3>1
    <3> QED BY <2>2, <3>2, MinPair DEF Copied, CopySize
  <2> QED BY <2>1, <2>2
<1>5. /\ LastCut(k, n) \in Nat /\ Rest(k, n)[2] <= LastCut(k, n)
      /\ ~Cuts(k, n) => LastCut(k, n) = Rest(k, n)[2]
      /\ LastCut(k, n) <= End(size, list[k])
  <2>1. CASE Cuts(k, n)
    <3>1. Rest(k, n)[2] + HEADER < End(size, list[k])
      BY <1>0, <2>1, RestFacts
    <3> QED BY <1>1, <1>3, <2>1, <3>1 DEF LastCut
  <2>2. CASE ~Cuts(k, n)
    BY <1>1, <1>3, <2>2 DEF LastCut
  <2> QED BY <2>1, <2>2
<1> QED BY <1>1, <1>2, <1>3, <1>4, <1>5

\* What is held afterwards.
LEMMA HeldFacts ==
  ASSUME ListInv, NEW p \in Ptrs, NEW k \in DOMAIN list, NEW n \in Nat, size[list[k]] >= n, memory_pool # 0
  PROVE  /\ PtrCopied(p, k, n) \in [Ptrs -> Piece]
         /\ PtrCopied(p, k, n)[p] = Mine(p, k, n) /\ Mine(p, k, n) # Null /\ Mine(p, k, n).block = list[k]
         /\ Mine(p, k, n).good <= Mine(p, k, n).wrote /\ Mine(p, k, n).wrote <= Mine(p, k, n).want
         /\ \A q \in Ptrs \ {p} :
              /\ PtrCopied(p, k, n)[q].block = ptr[q].block /\ PtrCopied(p, k, n)[q].want = ptr[q].want
              /\ PtrCopied(p, k, n)[q].wrote = ptr[q].wrote /\ PtrCopied(p, k, n)[q].good <= ptr[q].good
              /\ PtrCopied(p, k, n)[q] # Null => q \in Holders
<1> DEFINE f == PtrCut(k, n)
           g == PtrCopied(p, k, n)
           m == Mine(p, k, n)
<1>0. Types /\ Tiles(list, size) /\ HeaderInv
  BY DEF ListInv
<1>1. /\ Copied(p, k, n) \in Nat /\ Copied(p, k, n) <= n
      /\ Rest(k, n)[2] \in Nat /\ LastCut(k, n) \in Nat /\ Space(list[k]) \in Nat /\ memory_pool \in Nat
  BY WriteFacts
<1>2. \A q \in Ptrs : /\ ptr[q] \in Piece /\ ptr[q].good \in Nat /\ ptr[q].wrote \in Nat /\ ptr[q].want \in Nat
                      /\ ptr[q].good <= ptr[q].wrote /\ ptr[q].wrote <= ptr[q].want
  BY <1>0 DEF Types, Piece
<1>3. ASSUME NEW q \in Ptrs
      PROVE  /\ f[q] \in Piece /\ f[q].block = ptr[q].block /\ f[q].want = ptr[q].want
             /\ f[q].wrote = ptr[q].wrote /\ f[q].good <= ptr[q].good
             /\ ptr[q] = Null => f[q] = Null
  <2>1. f[q] = Damage(ptr[q], memory_pool, Rest(k, n)[2], LastCut(k, n))
    BY DEF PtrCut
  <2> HIDE DEF f
  <2>2. ptr[q] = Null => ptr[q].block[1] # memory_pool
    BY NullFacts
  <2> QED BY <1>1, <1>2, <2>1, <2>2, DamageFacts
<1>4. list[k] \in Blocks /\ list[k][1] # 0
  BY <1>0, ListFacts
<1>5. /\ m \in Piece /\ m # Null /\ m.block = list[k] /\ m.good <= m.wrote /\ m.wrote <= m.want
  <2>1. f[p].good \in Nat /\ f[p].good <= ptr[p].wrote /\ ptr[p].wrote \in Nat
    BY <1>2, <1>3 DEF Piece
  <2> DEFINE w == Min({n, ptr[p].wrote})
             z == Min({Copied(p, k, n), f[p].good})
  <2>2. w = IF n <= ptr[p].wrote THEN n ELSE ptr[p].wrote
    BY <2>1, MinPair
  <2>3. z = IF Copied(p, k, n) <= f[p].good THEN Copied(p, k, n) ELSE f[p].good
    BY <1>1, <2>1, MinPair
  <2>4. m = [block |-> list[k], want |-> n, wrote |-> w, good |-> z]
    BY DEF Mine
  <2> HIDE DEF w, z, m, f
  <2>5. w \in Nat /\ z \in Nat /\ z <= w /\ w <= n
    BY <1>1, <2>1, <2>2, <2>3
  <2>6. m \in Piece /\ m.block = list[k] /\ m.good <= m.wrote /\ m.wrote <= m.want
    BY <1>4, <2>4, <2>5 DEF Piece
  <2>7. m # Null
    BY <1>4, <2>6, NullFacts
  <2> QED BY <2>6, <2>7
<1>6. ASSUME NEW q \in Ptrs, q # p
      PROVE  /\ g[q] \in Piece
             /\ g[q].block = ptr[q].block /\ g[q].want = ptr[q].want
             /\ g[q].wrote = ptr[q].wrote /\ g[q].good <= ptr[q].good
             /\ g[q] # Null => q \in Holders
  <2>1. g[q] = IF list[k] = ptr[p].block THEN f[q]
               ELSE Damage(f[q], memory_pool, Space(list[k]), Space(list[k]) + Copied(p, k, n))
    BY <1>6 DEF PtrCopied
  <2> HIDE DEF f, g
  <2>2. f[q] = Null => f[q].block[1] # memory_pool
    BY NullFacts
  <2>3. Space(list[k]) + Copied(p, k, n) \in Nat
    BY <1>1
  <2>4. CASE list[k] = ptr[p].block
    <3>1. g[q] = f[q]
      BY <2>1, <2>4
    <3> QED BY <1>3, <3>1 DEF Holders
  <2>5. CASE list[k] # ptr[p].block
    <3>1. g[q] = Damage(f[q], memory_pool, Space(list[k]), Space(list[k]) + Copied(p, k, n))
      BY <2>1, <2>5
    <3>2. /\ g[q] \in Piece /\ g[q].block = f[q].block /\ g[q].want = f[q].want
          /\ g[q].wrote = f[q].wrote /\ g[q].good <= f[q].good
          /\ f[q] = Null => g[q] = f[q]
      BY <1>1, <1>3, <2>2, <2>3, <3>1, DamageFacts
    <3>3. g[q].good \in Nat /\ f[q].good \in Nat /\ ptr[q].good \in Nat
      BY <1>2, <1>3, <3>2 DEF Piece
    <3> QED BY <1>3, <3>2, <3>3 DEF Holders
  <2> QED BY <2>4, <2>5
<1>7. g[p] = m
  BY DEF PtrCopied
<1>8. g \in [Ptrs -> Piece]
  <2>1. \A q \in Ptrs : g[q] \in Piece
    BY <1>5, <1>6, <1>7
  <2>2. g = [q \in Ptrs |-> g[q]]
    BY DEF PtrCopied
  <2> HIDE DEF g
  <2> QED BY <2>1, <2>2
<1> QED BY <1>5, <1>6, <1>7, <1>8
-----------------------------------------------------------------------------
(***************************************************************************)
(* Every step keeps the list.                                              *)
(***************************************************************************)

\* The headers that are kept: those of the list and of what is held.
LEMMA KeptFacts ==
  ASSUME NEW s, NEW l, NEW f, NEW w,
         s \in [DOMAIN s -> Nat], w = KeepHeaders(s, l, f), Tiles(l, s)
  PROVE  /\ w \in [DOMAIN w -> Nat] /\ DOMAIN w \subseteq DOMAIN s
         /\ \A b \in DOMAIN w : w[b] = s[b] /\ (b \in Range(l) \/ \E p \in Ptrs : f[p] # Null /\ f[p].block = b)
         /\ \A p \in Ptrs : f[p] # Null /\ f[p].block \in DOMAIN s => f[p].block \in DOMAIN w
         /\ Tiles(l, w) /\ \A c : Placed(c, l, s) => Placed(c, l, w)
<1>1. /\ \A b : b \in DOMAIN w <=>
                  /\ b \in DOMAIN s
                  /\ b \in Range(l) \/ \E p \in Ptrs : f[p] # Null /\ f[p].block = b
      /\ \A b \in DOMAIN w : w[b] = s[b]
      /\ w \in [DOMAIN w -> Nat] /\ DOMAIN w \subseteq DOMAIN s
  BY KeepHeadersFacts
<1>2. \A k \in DOMAIN l : l[k] \in DOMAIN w /\ w[l[k]] = s[l[k]]
  <2> SUFFICES ASSUME NEW k \in DOMAIN l PROVE l[k] \in DOMAIN w /\ w[l[k]] = s[l[k]]
    OBVIOUS
  <2>1. l[k] \in DOMAIN s /\ l[k] \in Range(l)
    BY DEF Tiles, Range
  <2> QED BY <1>1, <2>1
<1>3. Tiles(l, w) /\ \A c : Placed(c, l, s) => Placed(c, l, w)
  BY <1>2, TilesAgree
<1>4. \A p \in Ptrs : f[p] # Null /\ f[p].block \in DOMAIN s => f[p].block \in DOMAIN w
  BY <1>1
<1>5. \A b \in DOMAIN w : w[b] = s[b] /\ (b \in Range(l) \/ \E p \in Ptrs : f[p] # Null /\ f[p].block = b)
  BY <1>1
<1> QED BY <1>1, <1>3, <1>4, <1>5

\* The invariant of the list, after a step that keeps the pool.
LEMMA SamePool ==
  ASSUME NEW l, NEW s, NEW f,
         UNCHANGED pool, list' = l, size' = s, ptr' = f, Tiles(l, s),
         \A b \in DOMAIN s : b \in Range(l) \/ \E p \in Ptrs : f[p] # Null /\ f[p].block = b,
         \A p \in Ptrs : f[p] # Null => f[p].block \in DOMAIN s /\ f[p].block[1] # 0 /\ Placed(f[p].block, l, s)
  PROVE  Tiles(list, size)' /\ HeaderInv'
<1>1. memory_pool' = memory_pool /\ pool_size' = pool_size
  BY DEF pool
<1>2. Tiles(list, size)'
  BY <1>1 DEF Tiles, End, Space
<1>3. \A p \in Ptrs : Placed(f[p].block, l, s) => Placed(ptr[p].block, list, size)'
  BY <1>1 DEF Placed, End, Space
<1>4. \A b \in DOMAIN size' : b \in Range(list') \/ \E p \in Holders' : ptr'[p].block = b
  BY DEF Holders
<1>5. \A p \in Holders' : ptr'[p].block \in DOMAIN size' /\ ptr'[p].block[1] # 0 /\ Placed(ptr[p].block, list, size)'
  BY <1>3 DEF Holders
<1>6. HeaderInv'
  BY <1>4, <1>5 DEF HeaderInv
<1> QED BY <1>2, <1>6

LEMMA ReturnList ==
  ASSUME ListInv, Return
  PROVE  ListInv'
<1>0. Types /\ Tiles(list, size) /\ HeaderInv
  BY DEF ListInv
<1>1. PICK p \in Ptrs, n \in Requests, k \in DOMAIN list :
        /\ state = "call" /\ memory_pool # 0 /\ size[list[k]] >= n /\ Returns(p, k, n)
  BY <1>0, ReturnStep
<1>2. n \in Nat
  OBVIOUS
<1> DEFINE l == ListCut(k, n)
           s == SizeCut(k, n)
           g == PtrCopied(p, k, n)
           m == ListFreed(p, k, n)
<1>3. /\ l \in Seq(Blocks) /\ l # <<>> /\ k \in DOMAIN l /\ l[k] = list[k]
      /\ Range(list) \subseteq Range(l)
      /\ DOMAIN size \subseteq DOMAIN s
      /\ \A c \in DOMAIN s : c \notin DOMAIN size => c \in Range(l)
      /\ DOMAIN s \subseteq Blocks /\ s \in [DOMAIN s -> Nat]
      /\ Tiles(l, s)
  BY <1>0, <1>1, <1>2, CutFacts
<1>4. \A c \in Blocks : Placed(c, list, size) => Placed(c, l, s)
  BY <1>0, <1>1, <1>2, CutPlaced
<1>5. /\ g \in [Ptrs -> Piece]
      /\ g[p] # Null /\ g[p].block = list[k] /\ g[p].good <= g[p].wrote /\ g[p].wrote <= g[p].want
      /\ \A q \in Ptrs \ {p} :
           /\ g[q].block = ptr[q].block /\ g[q].want = ptr[q].want
           /\ g[q].wrote = ptr[q].wrote /\ g[q].good <= ptr[q].good
           /\ g[q] # Null => q \in Holders
  <2>1. g[p] = Mine(p, k, n)
    BY <1>1, <1>2, HeldFacts
  <2> QED BY <1>1, <1>2, <2>1, HeldFacts
<1>6. list' = m /\ size' = KeepHeaders(s, m, g) /\ ptr' = g /\ call' = <<>> /\ UNCHANGED <<pool, fits>>
      /\ state' \in {"overwritten", "idle"}
  BY <1>1 DEF Returns
<1>7. m = l \/ m = CutOff(l, ptr[p].block)
  BY DEF ListFreed
<1> HIDE DEF l, s, g, m
<1>8. /\ m \in Seq(Blocks) /\ m # <<>> /\ Tiles(m, s) /\ \A c : Placed(c, l, s) => Placed(c, m, s)
  <2>1. CASE m = l
    BY <1>3, <2>1
  <2>2. CASE m = CutOff(l, ptr[p].block)
    BY <1>3, <2>2, CutOffTiles
  <2> QED BY <1>7, <2>1, <2>2
<1> PICK w : w = size'
  OBVIOUS
<1>9. /\ w \in [DOMAIN w -> Nat] /\ DOMAIN w \subseteq DOMAIN s
      /\ \A b \in DOMAIN w : b \in Range(m) \/ \E q \in Ptrs : g[q] # Null /\ g[q].block = b
      /\ \A q \in Ptrs : g[q] # Null /\ g[q].block \in DOMAIN s => g[q].block \in DOMAIN w
      /\ Tiles(m, w) /\ \A c : Placed(c, m, s) => Placed(c, m, w)
  <2>1. w = KeepHeaders(s, m, g) /\ s \in [DOMAIN s -> Nat] /\ Tiles(m, s)
    BY <1>3, <1>6, <1>8
  <2>2. Tiles(m, w)
    BY <2>1, KeptFacts
  <2>3. \A c : Placed(c, m, s) => Placed(c, m, w)
    BY <2>1, KeptFacts
  <2>4. w \in [DOMAIN w -> Nat] /\ DOMAIN w \subseteq DOMAIN s
    BY <2>1, KeptFacts
  <2>5. \A q \in Ptrs : g[q] # Null /\ g[q].block \in DOMAIN s => g[q].block \in DOMAIN w
    BY <2>1, KeptFacts
  <2>6. \A b \in DOMAIN w : b \in Range(m) \/ \E q \in Ptrs : g[q] # Null /\ g[q].block = b
    BY <2>1, KeptFacts
  <2> QED BY <2>2, <2>3, <2>4, <2>5, <2>6
<1>10. ASSUME NEW q \in Ptrs, g[q] # Null
       PROVE  g[q].block \in DOMAIN w /\ g[q].block[1] # 0 /\ Placed(g[q].block, m, w)
  <2>1. CASE q = p
    <3>1. list[k] \in Range(l) /\ list[k] \in DOMAIN s /\ list[k][1] # 0
      BY <1>0, <1>1, <1>3, ListFacts DEF Range
    <3>2. Placed(list[k], l, s)
      BY <3>1 DEF Placed
    <3> QED BY <1>5, <1>8, <1>9, <1>10, <2>1, <3>1, <3>2
  <2>2. CASE q # p
    <3>1. q \in Holders /\ g[q].block = ptr[q].block
      BY <1>5, <1>10, <2>2
    <3>2. ptr[q].block \in DOMAIN size /\ ptr[q].block[1] # 0 /\ Placed(ptr[q].block, list, size)
      BY <1>0, <3>1 DEF HeaderInv
    <3>3. ptr[q].block \in DOMAIN s /\ ptr[q].block \in Blocks
      BY <1>3, <3>2
    <3> QED BY <1>4, <1>8, <1>9, <1>10, <3>1, <3>2, <3>3
  <2> QED BY <2>1, <2>2
<1>11. Tiles(list, size)' /\ HeaderInv'
  BY <1>6, <1>9, <1>10, SamePool
<1>12. Types'
  <2>1. memory_pool' = memory_pool /\ pool_size' = pool_size /\ fits' = fits
    BY <1>6 DEF pool
  <2>2. memory_pool \in 0..(Cardinality(Ptrs) + 2) /\ pool_size \in Nat /\ fits \in BOOLEAN
    BY <1>0 DEF Types
  <2>3. \A q \in Ptrs : g[q].good <= g[q].wrote /\ g[q].wrote <= g[q].want
    <3> SUFFICES ASSUME NEW q \in Ptrs PROVE g[q].good <= g[q].wrote /\ g[q].wrote <= g[q].want
      OBVIOUS
    <3>1. CASE q = p
      BY <1>5, <3>1
    <3>2. CASE q # p
      <4>1. ptr[q].good <= ptr[q].wrote /\ ptr[q].wrote <= ptr[q].want /\ ptr[q].good \in Nat /\ ptr[q].wrote \in Nat
        BY <1>0 DEF Types, Piece
      <4>2. g[q].good <= ptr[q].good /\ g[q].wrote = ptr[q].wrote /\ g[q].want = ptr[q].want /\ g[q].good \in Nat
        BY <1>5, <3>2 DEF Piece
      <4> QED BY <4>1, <4>2
    <3> QED BY <3>1, <3>2
  <2>4. list' \in Seq(Blocks) /\ list' # <<>> /\ memory_pool' # 0
    BY <1>1, <1>6, <1>8, <2>1
  <2>5. DOMAIN size' \subseteq Blocks
    BY <1>3, <1>9
  <2>6. state' # "call" /\ state' \in {"idle", "call", "exited", "overwritten", "overrun"}
    BY <1>6
  <2>7. ptr' \in [Ptrs -> Piece] /\ \A q \in Ptrs : ptr'[q].good <= ptr'[q].wrote /\ ptr'[q].wrote <= ptr'[q].want
    BY <1>5, <1>6, <2>3
  <2> QED BY <1>6, <1>9, <2>1, <2>2, <2>4, <2>5, <2>6, <2>7 DEF Types
<1> QED BY <1>11, <1>12 DEF ListInv
LEMMA FirstSizeFacts ==
  ASSUME NEW n \in Nat
  PROVE  FirstSize(n) \in Nat /\ (n >= HEADER => FirstSize(n) = n - HEADER)
  BY SizeAssumption DEF FirstSize

\* A new pool has one block, and nothing else is in it.
LEMMA PoolFacts ==
  ASSUME ListInv, NEW n \in Nat,
         memory_pool' = Unused, pool_size' = n, list' = <<<<Unused, 0>>>>,
         size' = WriteHeader(KeepHeaders(size, <<>>, ptr), <<Unused, 0>>, FirstSize(n)), UNCHANGED ptr
  PROVE  /\ \A p \in Holders : ptr[p].block \in DOMAIN size' /\ size'[ptr[p].block] = size[ptr[p].block]
         /\ size' \in [DOMAIN size' -> Nat] /\ DOMAIN size' \subseteq Blocks
         /\ Unused \in 1..(Cardinality(Ptrs) + 2) /\ list' \in Seq(Blocks) /\ list' # <<>>
         /\ n >= HEADER => Tiles(list, size)'
         /\ HeaderInv' /\ <<Unused, 0>> \in DOMAIN size'
<1>0. Types /\ HeaderInv
  BY DEF ListInv
<1>1. /\ Unused \in 1..(Cardinality(Ptrs) + 2)
      /\ \A p \in Holders : ptr[p].block[1] # Unused
  BY <1>0, UnusedFacts
<1>2. DOMAIN size \subseteq Blocks /\ size \in [DOMAIN size -> Nat]
  BY <1>0 DEF Types
<1> PICK u : u = Unused
  OBVIOUS
<1> PICK x : x = KeepHeaders(size, <<>>, ptr)
  OBVIOUS
<1> PICK w : w = size'
  OBVIOUS
<1> DEFINE b == <<u, 0>>
<1>3. /\ \A c : c \in DOMAIN x <=> /\ c \in DOMAIN size
                                   /\ c \in Range(<<>>) \/ \E p \in Ptrs : ptr[p] # Null /\ ptr[p].block = c
      /\ \A c \in DOMAIN x : x[c] = size[c]
      /\ x \in [DOMAIN x -> Nat]
  BY <1>2, KeepHeadersFacts
<1> PICK z : z = FirstSize(n)
  OBVIOUS
<1>4. z \in Nat
  BY FirstSizeFacts
<1> HIDE DEF b
<1>5. w = WriteHeader(x, b, z)
  BY DEF b
<1>6. /\ w[b] = z
      /\ \A c : c \in DOMAIN w <=> (c \in DOMAIN x \/ c = b)
      /\ w \in [DOMAIN w -> Nat]
      /\ \A c \in DOMAIN x : c # b => w[c] = x[c]
  BY <1>3, <1>4, <1>5, WriteHeaderFacts
<1>7. b[1] = u /\ b[2] = 0 /\ b \in Blocks
  BY <1>1, FS_CardinalityType DEF b, Blocks
<1>8. Range(<<>>) = {} /\ list' = <<b>> /\ DOMAIN list' = {1} /\ list'[1] = b /\ Range(list') = {b}
  BY DEF Range, b
<1>9. \A c \in DOMAIN x : c \in DOMAIN size /\ \E p \in Holders : ptr[p].block = c
  BY <1>3, <1>8 DEF Holders
<1>10. \A p \in Holders : /\ ptr[p].block \in DOMAIN x /\ x[ptr[p].block] = size[ptr[p].block]
                          /\ ptr[p].block # b
  BY <1>0, <1>1, <1>3, <1>7 DEF HeaderInv, Holders
<1>11. \A p \in Holders : ptr[p].block \in DOMAIN size' /\ size'[ptr[p].block] = size[ptr[p].block]
  BY <1>6, <1>10
<1>12. DOMAIN size' \subseteq Blocks
  BY <1>2, <1>6, <1>7, <1>9
<1>13. list' \in Seq(Blocks) /\ list' # <<>>
  BY <1>7, <1>8
<1>14. ASSUME n >= HEADER PROVE Tiles(list, size)'
  <2>1. (Space(b) + size[b])' = n
    BY <1>6, <1>7, <1>14, FirstSizeFacts DEF Space
  <2>2. b \in DOMAIN size'
    BY <1>6
  <2>3. End(size, list[1])' = n
    BY <1>8, <2>1 DEF End
  <2>4. \A k \in DOMAIN list' : k = 1
    BY <1>8
  <2> QED BY <1>7, <1>8, <2>2, <2>3, <2>4 DEF Tiles, b
<1>15. HeaderInv'
  <2>1. Holders' = Holders
    BY DEF Holders
  <2>2. \A c \in DOMAIN size' : c \in Range(list') \/ \E p \in Holders : ptr'[p].block = c
    BY <1>6, <1>8, <1>9
  <2>3. ASSUME NEW p \in Holders
        PROVE  ptr'[p].block \in DOMAIN size' /\ ptr'[p].block[1] # 0 /\ Placed(ptr[p].block, list, size)'
    BY <1>0, <1>1, <1>11 DEF HeaderInv, Placed
  <2> QED BY <2>1, <2>2, <2>3 DEF HeaderInv
<1>16. <<Unused, 0>> \in DOMAIN size'
  BY <1>6 DEF b
<1> QED BY <1>1, <1>6, <1>11, <1>12, <1>13, <1>14, <1>15, <1>16

LEMMA PoolList ==
  ASSUME ListInv, NEW n \in Nat, InitializePool(n), state = "call"
  PROVE  PoolInv'
<1>0. Types /\ HeaderInv /\ Tiles(list, size)
  BY DEF ListInv
<1>1. CASE memory_pool' = Unused
  <2>1. /\ memory_pool' = Unused /\ pool_size' = n /\ list' = <<<<Unused, 0>>>>
        /\ size' = WriteHeader(KeepHeaders(size, <<>>, ptr), <<Unused, 0>>, FirstSize(n))
        /\ ptr' = ptr /\ call' = call /\ fits' = fits
        /\ state' = IF n < HEADER THEN "overrun" ELSE state
    <3>1. Unused # memory_pool
      BY <1>0, UnusedFacts
    <3> QED BY <1>1, <3>1 DEF InitializePool, pool
  <2>2. /\ size' \in [DOMAIN size' -> Nat] /\ DOMAIN size' \subseteq Blocks
        /\ Unused \in 1..(Cardinality(Ptrs) + 2) /\ list' \in Seq(Blocks) /\ list' # <<>>
        /\ n >= HEADER => Tiles(list, size)'
        /\ HeaderInv' /\ <<Unused, 0>> \in DOMAIN size'
    BY <2>1, PoolFacts
  <2>3. memory_pool' \in 0..(Cardinality(Ptrs) + 2) /\ memory_pool' # 0 /\ pool_size' \in Nat
    BY <2>1, <2>2
  <2>4. Types'
    BY <1>0, <2>1, <2>2, <2>3 DEF Types
  <2>5. CASE n >= HEADER
    BY <2>2, <2>4, <2>5 DEF PoolInv, ListInv
  <2>6. CASE n < HEADER
    BY <2>1, <2>2, <2>4, <2>6 DEF PoolInv, AfterOverrun
  <2> QED BY <2>5, <2>6
<1>2. CASE UNCHANGED <<pool, list, size, ptr, call, fits>> /\ state' = "exited"
  <2>1. UNCHANGED <<memory_pool, pool_size, list, size, ptr, call, fits>>
    BY <1>2 DEF pool
  <2>2. Types'
    BY <1>0, <1>2, <2>1 DEF Types
  <2>3. HeaderInv' /\ Tiles(list, size)'
    BY <1>0, <2>1 DEF HeaderInv, Holders, Placed, Tiles, End
  <2> QED BY <2>2, <2>3 DEF PoolInv, ListInv
<1> QED BY <1>1, <1>2 DEF InitializePool

LEMMA RequestList ==
  ASSUME ListInv, NEW p \in Ptrs, NEW n \in Requests, Request(p, n)
  PROVE  ListInv'
<1>1. Types /\ HeaderInv /\ Tiles(list, size)
  BY DEF ListInv
<1>2. UNCHANGED <<memory_pool, pool_size, list, size, ptr>> /\ call' = <<p, n>> /\ state' = "call" /\ fits' \in BOOLEAN
  BY <1>1 DEF Request, pool, Types
<1>3. Types'
  BY <1>1, <1>2 DEF Types
<1>4. HeaderInv' /\ Tiles(list, size)'
  BY <1>1, <1>2 DEF HeaderInv, Holders, Placed, Tiles, End
<1> QED BY <1>3, <1>4 DEF ListInv

\* What the client's write does to what is held.
LEMMA FillFacts ==
  ASSUME ListInv, NEW p \in Ptrs, Fill(p)
  PROVE  /\ ptr' \in [Ptrs -> Piece]
         /\ ptr'[p].block = ptr[p].block /\ ptr'[p].want = ptr[p].want
         /\ ptr'[p].wrote = ptr[p].want /\ ptr'[p].good = ptr[p].want
         /\ \A q \in Ptrs \ {p} :
              /\ ptr'[q] = Damage(ptr[q], ptr[p].block[1], Space(ptr[p].block), Space(ptr[p].block) + ptr[p].want)
              /\ ptr'[q].block = ptr[q].block /\ ptr'[q].want = ptr[q].want
              /\ ptr'[q].wrote = ptr[q].wrote /\ ptr'[q].good <= ptr[q].good
         /\ \A q \in Ptrs : ptr'[q] # Null <=> ptr[q] # Null
<1>1. Types /\ HeaderInv
  BY DEF ListInv
<1>2. \A q \in Ptrs : /\ ptr[q] \in Piece /\ ptr[q].block \in Blocks
                      /\ ptr[q].good \in Nat /\ ptr[q].wrote \in Nat /\ ptr[q].want \in Nat
  BY <1>1 DEF Types, Piece
<1>3. p \in Holders /\ ptr[p].block[1] # 0
  BY <1>1 DEF Fill, Holders, HeaderInv
<1>4. /\ ptr[p].block[1] \in Nat /\ Space(ptr[p].block) \in Nat /\ Space(ptr[p].block) + ptr[p].want \in Nat
  BY <1>2, BlockParts
<1> DEFINE g == [q \in Ptrs |-> IF q = p THEN [ptr[p] EXCEPT !.wrote = ptr[p].want, !.good = ptr[p].want]
                   ELSE Damage(ptr[q], ptr[p].block[1], Space(ptr[p].block), Space(ptr[p].block) + ptr[p].want)]
<1>5. ptr' = g
  BY DEF Fill
<1>6. /\ g[p] \in Piece /\ g[p].block = ptr[p].block /\ g[p].want = ptr[p].want
      /\ g[p].wrote = ptr[p].want /\ g[p].good = ptr[p].want
  <2>1. g[p] = [ptr[p] EXCEPT !.wrote = ptr[p].want, !.good = ptr[p].want]
    OBVIOUS
  <2> HIDE DEF g
  <2> QED BY <1>2, <2>1 DEF Piece
<1>7. ASSUME NEW q \in Ptrs, q # p
      PROVE  /\ g[q] = Damage(ptr[q], ptr[p].block[1], Space(ptr[p].block), Space(ptr[p].block) + ptr[p].want)
             /\ g[q] \in Piece /\ g[q].block = ptr[q].block /\ g[q].want = ptr[q].want
             /\ g[q].wrote = ptr[q].wrote /\ g[q].good <= ptr[q].good
             /\ g[q] # Null <=> ptr[q] # Null
  <2>1. g[q] = Damage(ptr[q], ptr[p].block[1], Space(ptr[p].block), Space(ptr[p].block) + ptr[p].want)
    BY <1>7
  <2> HIDE DEF g
  <2>2. /\ g[q] \in Piece /\ g[q].block = ptr[q].block /\ g[q].want = ptr[q].want
        /\ g[q].wrote = ptr[q].wrote /\ g[q].good <= ptr[q].good
        /\ ptr[q].block[1] # ptr[p].block[1] => g[q] = ptr[q]
    BY <1>2, <1>4, <2>1, DamageFacts
  <2>3. ptr[q] # Null => ptr[q].block[1] # 0
    BY <1>1 DEF HeaderInv, Holders
  <2> QED BY <1>3, <2>1, <2>2, <2>3, NullFacts
<1>8. g[p] # Null
  BY <1>3, <1>6, NullFacts
<1>9. g \in [Ptrs -> Piece]
  <2>1. \A q \in Ptrs : g[q] \in Piece
    BY <1>6, <1>7
  <2>2. g = [q \in Ptrs |-> g[q]]
    OBVIOUS
  <2> HIDE DEF g
  <2> QED BY <2>1, <2>2
<1> HIDE DEF g
<1>10. ptr[p] # Null
  BY <1>3 DEF Holders
<1> QED BY <1>5, <1>6, <1>7, <1>8, <1>9, <1>10

LEMMA FillList ==
  ASSUME ListInv, NEW p \in Ptrs, Fill(p)
  PROVE  ListInv'
<1>1. Types /\ HeaderInv /\ Tiles(list, size)
  BY DEF ListInv
<1>2. /\ UNCHANGED <<memory_pool, pool_size, list, size, call, fits>> /\ state' \in {"overwritten", "idle"}
      /\ state = "idle"
  BY DEF Fill, pool
<1> PICK f : f = ptr'
  OBVIOUS
<1>3. /\ f \in [Ptrs -> Piece]
      /\ \A q \in Ptrs : f[q].block = ptr[q].block /\ (f[q] # Null <=> ptr[q] # Null)
      /\ \A q \in Ptrs \ {p} : f[q].wrote = ptr[q].wrote /\ f[q].want = ptr[q].want /\ f[q].good <= ptr[q].good
      /\ f[p].good <= f[p].wrote /\ f[p].wrote <= f[p].want
  <2>1. f[p].block = ptr[p].block /\ f[p].want = ptr[p].want /\ f[p].wrote = ptr[p].want /\ f[p].good = ptr[p].want
    BY FillFacts
  <2>2. ptr[p].want \in Nat
    BY <1>1 DEF Types, Piece
  <2>3. /\ f \in [Ptrs -> Piece]
        /\ \A q \in Ptrs \ {p} : /\ f[q].block = ptr[q].block /\ f[q].wrote = ptr[q].wrote
                                 /\ f[q].want = ptr[q].want /\ f[q].good <= ptr[q].good
        /\ \A q \in Ptrs : f[q] # Null <=> ptr[q] # Null
    BY FillFacts
  <2> QED BY <2>1, <2>2, <2>3
<1>4. \A q \in Ptrs : f[q].good <= f[q].wrote /\ f[q].wrote <= f[q].want
  <2> SUFFICES ASSUME NEW q \in Ptrs, q # p PROVE f[q].good <= f[q].wrote /\ f[q].wrote <= f[q].want
    BY <1>3
  <2>1. /\ ptr[q].good <= ptr[q].wrote /\ ptr[q].wrote <= ptr[q].want
        /\ ptr[q].good \in Nat /\ ptr[q].wrote \in Nat /\ f[q].good \in Nat
    BY <1>1, <1>3 DEF Types, Piece
  <2> QED BY <1>3, <2>1
<1>5. Types'
  BY <1>1, <1>2, <1>3, <1>4 DEF Types
<1>6. Tiles(list, size)'
  BY <1>1, <1>2 DEF Tiles, End
<1>7. HeaderInv'
  <2>1. Holders' = Holders
    BY <1>3 DEF Holders
  <2>2. \A q \in Holders : ptr'[q].block = ptr[q].block
    BY <1>3 DEF Holders
  <2> QED BY <1>1, <1>2, <2>1, <2>2 DEF HeaderInv, Placed, End
<1> QED BY <1>5, <1>6, <1>7 DEF ListInv

LEMMA FreeList ==
  ASSUME ListInv, NEW p \in Ptrs, Free(p)
  PROVE  ListInv'
<1>1. Types /\ HeaderInv /\ Tiles(list, size)
  BY DEF ListInv
<1>a. PICK l : l = CutOff(list, ptr[p].block)
  OBVIOUS
<1>b. PICK f : f = [ptr EXCEPT ![p] = Null]
  OBVIOUS
<1>c. PICK w : w = KeepHeaders(size, l, f)
  OBVIOUS
<1>2. /\ UNCHANGED pool /\ list' = l /\ ptr' = f /\ size' = w
      /\ UNCHANGED <<memory_pool, pool_size, call, state, fits>> /\ state = "idle"
  BY <1>a, <1>b, <1>c DEF Free, pool
<1>3. list \in Seq(Blocks) /\ DOMAIN size \subseteq Blocks /\ size \in [DOMAIN size -> Nat] /\ ptr \in [Ptrs -> Piece]
  BY <1>1 DEF Types
<1>4. /\ f \in [Ptrs -> Piece] /\ f[p] = Null /\ \A q \in Ptrs : q # p => f[q] = ptr[q]
  BY <1>3, <1>b, NullFacts
<1>5. /\ l \in Seq(Blocks) /\ (list # <<>> => l # <<>>) /\ Tiles(l, size)
      /\ \A c : Placed(c, list, size) => Placed(c, l, size)
  BY <1>1, <1>3, <1>a, CutOffTiles
<1>6. /\ w \in [DOMAIN w -> Nat] /\ DOMAIN w \subseteq DOMAIN size
      /\ Tiles(l, w)
  BY <1>3, <1>5, <1>c, KeptFacts
<1>7. \A c : Placed(c, l, size) => Placed(c, l, w)
  BY <1>3, <1>5, <1>c, KeptFacts
<1>8. \A q \in Ptrs : f[q] # Null /\ f[q].block \in DOMAIN size => f[q].block \in DOMAIN w
  BY <1>3, <1>5, <1>c, KeptFacts
<1>9. \A b \in DOMAIN w : b \in Range(l) \/ \E q \in Ptrs : f[q] # Null /\ f[q].block = b
  BY <1>3, <1>5, <1>c, KeptFacts
<1>10. \A q \in Ptrs : f[q] # Null => f[q].block \in DOMAIN w /\ f[q].block[1] # 0 /\ Placed(f[q].block, l, w)
  BY <1>1, <1>4, <1>5, <1>7, <1>8 DEF HeaderInv, Holders
<1>11. Tiles(list, size)' /\ HeaderInv'
  BY <1>2, <1>6, <1>9, <1>10, SamePool
<1>12. Types'
  <2>1. \A q \in Ptrs : f[q].good <= f[q].wrote /\ f[q].wrote <= f[q].want
    BY <1>1, <1>4, NullFacts DEF Types
  <2>2. memory_pool = 0 <=> l = <<>>
    <3>1. list = <<>> => l = <<>>
      <4> SUFFICES ASSUME list = <<>>, l # <<>> PROVE FALSE
        OBVIOUS
      <4>1. l = list
        BY <1>a DEF CutOff
      <4> QED BY <4>1
    <3> QED BY <1>1, <1>5, <3>1 DEF Types
  <2>3. /\ memory_pool \in 0..(Cardinality(Ptrs) + 2) /\ pool_size \in Nat /\ fits \in BOOLEAN
        /\ call = <<>>
    BY <1>1, <1>2 DEF Types
  <2> QED BY <1>2, <1>3, <1>4, <1>5, <1>6, <2>1, <2>2, <2>3 DEF Types
<1> QED BY <1>11, <1>12 DEF ListInv

LEMMA GrowSize ==
  ASSUME ListInv, memory_pool # 0
  PROVE  Last(list) \in DOMAIN size /\ size[Last(list)] \in Nat /\ size[Last(list)] * 2 \in Nat
<1>1. list \in Seq(Blocks) /\ list # <<>> /\ size \in [DOMAIN size -> Nat] /\ Tiles(list, size)
  BY DEF ListInv, Types
<1>2. Len(list) \in DOMAIN list
  BY <1>1
<1>3. Last(list) \in DOMAIN size
  BY <1>1, <1>2 DEF Last, Tiles
<1>4. size[Last(list)] \in Nat
  BY <1>1, <1>3
<1> QED BY <1>3, <1>4

LEMMA ListInit == AllocInit => ListInv
<1> SUFFICES ASSUME AllocInit PROVE ListInv
  OBVIOUS
<1>1. Types
  <2>1. ptr \in [Ptrs -> Piece]
    BY NullFacts DEF AllocInit
  <2>2. \A p \in Ptrs : ptr[p].good <= ptr[p].wrote /\ ptr[p].wrote <= ptr[p].want
    BY NullFacts DEF AllocInit
  <2>3. memory_pool \in 0..(Cardinality(Ptrs) + 2)
    BY FS_CardinalityType DEF AllocInit
  <2>4. list \in Seq(Blocks) /\ DOMAIN size = {} /\ size \in [DOMAIN size -> Nat]
    BY DEF AllocInit
  <2> QED BY <2>1, <2>2, <2>3, <2>4 DEF AllocInit, Types
<1>2. Holders = {} /\ DOMAIN size = {} /\ DOMAIN list = {}
  BY DEF Holders, AllocInit
<1>3. HeaderInv
  BY <1>2 DEF HeaderInv
<1>4. Tiles(list, size)
  BY <1>2 DEF Tiles, AllocInit
<1> QED BY <1>1, <1>3, <1>4 DEF ListInv

\* After an overrun nothing is done any more.
LEMMA NoneAfterOverrun == AfterOverrun /\ [AllocNext]_allocVars => UNCHANGED allocVars
  BY DEF AfterOverrun, AllocNext, Allocate, FirstPool, GrowPool, Return, Request, Fill, Free

LEMMA PoolUnchanged == PoolInv /\ UNCHANGED allocVars => PoolInv'
  BY DEF allocVars, pool, PoolInv, AfterOverrun, ListInv, Types, HeaderInv, Holders, Placed, Tiles, End

LEMMA ListNext == PoolInv /\ [AllocNext]_allocVars => PoolInv'
<1> SUFFICES ASSUME ListInv, [AllocNext]_allocVars PROVE PoolInv'
  BY NoneAfterOverrun, PoolUnchanged DEF PoolInv
<1>1. ASSUME NEW p \in Ptrs, Fill(p) PROVE ListInv'
  BY <1>1, FillList
<1>2. ASSUME NEW p \in Ptrs, Free(p) PROVE ListInv'
  BY <1>2, FreeList
<1>3. ASSUME NEW p \in Ptrs, NEW n \in Requests, Request(p, n) PROVE ListInv'
  BY <1>3, RequestList
<1>4. CASE FirstPool
  BY <1>4, PoolList DEF FirstPool
<1>5. CASE GrowPool
  <2> PICK n : n = size[Last(list)] * 2
    OBVIOUS
  <2>1. n \in Nat /\ InitializePool(n) /\ state = "call"
    BY <1>5, GrowSize DEF GrowPool
  <2> QED BY <2>1, PoolList
<1>6. ASSUME Return PROVE ListInv'
  BY <1>6, ReturnList
<1>7. CASE UNCHANGED allocVars
  BY <1>7, PoolUnchanged DEF PoolInv
<1>8. ListInv' => PoolInv'
  BY DEF PoolInv
<1> QED BY <1>1, <1>2, <1>3, <1>4, <1>5, <1>6, <1>7, <1>8 DEF AllocNext, Allocate

LEMMA ListAlways == AllocSpec => []PoolInv
<1>1. AllocInit => PoolInv
  BY ListInit DEF PoolInv
<1> QED BY <1>1, ListNext, PTL DEF AllocSpec

\* AllocTypeOK: the headers are those of the list and of what is held, and no more.
THEOREM AllocTyping == AllocSpec => []AllocTypeOK
<1>1. PoolInv => AllocTypeOK
  <2> SUFFICES ASSUME PoolInv PROVE AllocTypeOK
    OBVIOUS
  <2>1. Types /\ HeaderInv
    BY DEF PoolInv, ListInv, AfterOverrun
  <2>2. Range(list) \subseteq DOMAIN size
    <3>1. CASE ListInv
      BY <3>1 DEF ListInv, Tiles, Range
    <3>2. CASE AfterOverrun
      BY <3>2 DEF AfterOverrun, Range
    <3> QED BY <3>1, <3>2 DEF PoolInv
  <2>3. Range(list) \cup {ptr[p].block : p \in Holders} = DOMAIN size
    BY <2>1, <2>2 DEF HeaderInv
  <2>4. \A b \in DOMAIN size : b \in Nat \X Nat /\ size[b] \in Nat
    BY <2>1 DEF Types, Blocks
  <2>5. \A p \in Ptrs : ptr[p].want \in Nat /\ ptr[p].good <= ptr[p].wrote /\ ptr[p].wrote <= ptr[p].want
    BY <2>1 DEF Types, Piece
  <2> QED BY <2>1, <2>3, <2>4, <2>5 DEF AllocTypeOK, Types
<1> QED BY <1>1, ListAlways, PTL

\* ListTiles: the list's blocks lie behind one another without a gap, within the pool, unless
\* the pool is one that has no room for its first header.
THEOREM Tiling == AllocSpec => []ListTiles
<1>1. ListInv => ListTiles
  <2> SUFFICES ASSUME ListInv, list # <<>>
               PROVE  /\ list[1] = <<memory_pool, 0>>
                      /\ \A k \in DOMAIN list :
                           IF k < Len(list) THEN list[k + 1] = <<memory_pool, Space(list[k]) + size[list[k]]>>
                                            ELSE Space(list[k]) + size[list[k]] <= pool_size
    BY DEF ListTiles
  <2>1. list \in Seq(Blocks) /\ Tiles(list, size)
    BY DEF ListInv, Types
  <2>2. DOMAIN list = 1..Len(list)
    BY <2>1
  <2> QED BY <2>1, <2>2 DEF Tiles, End
<1>2. AfterOverrun => ListTiles
  BY DEF AfterOverrun, ListTiles
<1> QED BY <1>1, <1>2, ListAlways, PTL DEF PoolInv
-----------------------------------------------------------------------------
(***************************************************************************)
(* What the client wrote is kept.                                          *)
(***************************************************************************)

\* A write within a block does no harm to a block apart from it, nor to its header.
LEMMA ApartFacts ==
  ASSUME Types, NEW b \in DOMAIN size, NEW c \in DOMAIN size, Apart(size, c, b), c[1] = b[1],
         NEW first \in Nat, NEW last \in Nat, Space(b) <= first, last <= End(size, b)
  PROVE  /\ last <= Space(c) \/ End(size, c) <= first
         /\ ~(c[2] < last /\ first < Space(c))
<1>1. /\ b \in Blocks /\ c \in Blocks /\ size[b] \in Nat /\ size[c] \in Nat
  BY DEF Types
<1>2. /\ b[2] \in Nat /\ c[2] \in Nat /\ Space(b) = b[2] + HEADER /\ Space(c) = c[2] + HEADER
  BY <1>1, BlockParts
<1>3. End(size, b) = b[2] + HEADER + size[b] /\ End(size, c) = c[2] + HEADER + size[c]
  BY <1>1, <1>2 DEF End
<1>4. End(size, c) <= b[2] \/ End(size, b) <= c[2]
  BY DEF Apart
<1> QED BY <1>1, <1>2, <1>3, <1>4

LEMMA Unharmed ==
  ASSUME Types, NEW b \in DOMAIN size, NEW r \in Piece, r.block \in DOMAIN size, Apart(size, r.block, b),
         r.good <= size[r.block],
         NEW first \in Nat, NEW last \in Nat, Space(b) <= first, last <= End(size, b)
  PROVE  Damage(r, b[1], first, last) = r
<1>1. b[1] \in Nat /\ r.block \in Blocks /\ r.good \in Nat /\ size[r.block] \in Nat
  BY BlockParts DEF Types, Piece
<1>2. Space(r.block) \in Nat /\ End(size, r.block) = Space(r.block) + size[r.block]
  BY <1>1, BlockParts DEF End
<1>3. CASE r.block[1] # b[1]
  BY <1>1, <1>3, DamageFacts
<1>4. CASE r.block[1] = b[1]
  <2>1. last <= Space(r.block) \/ End(size, r.block) <= first
    BY <1>4, ApartFacts
  <2>2. last <= Space(r.block) \/ Space(r.block) + r.good <= first
    BY <1>1, <1>2, <2>1
  <2> QED BY <1>1, <2>2, DamageFacts
<1> QED BY <1>3, <1>4

\* No header is hit by a write within a block that all other blocks are apart from.
LEMMA NoHit ==
  ASSUME Types, NEW b \in DOMAIN size, \A c \in DOMAIN size : c # b => Apart(size, c, b),
         NEW first \in Nat, NEW last \in Nat, Space(b) <= first, last <= End(size, b)
  PROVE  ~HitsHeader(DOMAIN size, b[1], first, last)
<1> SUFFICES ASSUME NEW c \in DOMAIN size, c[1] = b[1], c[2] < last, first < Space(c) PROVE FALSE
  BY DEF HitsHeader
<1>1. b \in Blocks /\ Space(b) \in Nat
  BY BlockParts DEF Types
<1>2. c # b
  BY <1>1
<1> QED BY <1>2, ApartFacts

\* Every header but the client's own is apart from a block it holds.
LEMMA HeldApart ==
  ASSUME ListInv, KeptInv, ~fits, NEW p \in Holders, NEW c \in DOMAIN size, c # ptr[p].block
  PROVE  Apart(size, c, ptr[p].block)
<1>1. Types /\ HeaderInv /\ Tiles(list, size)
  BY DEF ListInv
<1>2. ptr[p].block \in DOMAIN size /\ Placed(ptr[p].block, list, size)
  BY <1>1 DEF HeaderInv
<1>3. CASE c \in Range(list)
  <2>1. PICK k \in DOMAIN list : list[k] = c
    BY <1>3 DEF Range
  <2>2. Apart(size, ptr[p].block, list[k])
    BY <1>1, <1>2, <2>1, ListApart
  <2> QED BY <2>1, <2>2 DEF Apart
<1>4. CASE c \notin Range(list)
  <2>1. PICK q \in Holders : ptr[q].block = c
    BY <1>1, <1>4 DEF HeaderInv
  <2>2. q # p
    BY <2>1
  <2> QED BY <2>1, <2>2 DEF KeptInv
<1> QED BY <1>3, <1>4

\* Every other header is apart from a block of the list.
LEMMA OthersApart ==
  ASSUME ListInv, NEW k \in DOMAIN list, NEW c \in DOMAIN size, c # list[k]
  PROVE  Apart(size, c, list[k])
<1>1. Types /\ HeaderInv /\ Tiles(list, size)
  BY DEF ListInv
<1>2. c \in Range(list) \/ \E p \in Holders : ptr[p].block = c
  BY <1>1 DEF HeaderInv
<1>3. Placed(c, list, size)
  BY <1>1, <1>2 DEF HeaderInv, Placed
<1> QED BY <1>1, <1>3, ListApart

\* Until something is asked for that fits in a block held, that block is not the one returned.
LEMMA NotTaken ==
  ASSUME ListInv, KeptInv, ~fits, state = "call",
         NEW k \in DOMAIN list, size[list[k]] >= call[2], NEW q \in Holders, q # call[1], call[2] \in Nat
  PROVE  ptr[q].block # list[k]
<1>1. size[ptr[q].block] < call[2]
  BY DEF KeptInv
<1>2. size[list[k]] \in Nat
  BY ListFacts DEF ListInv
<1> QED BY <1>1, <1>2

\* The header of the rest is new: it lies within the block that is cut.
LEMMA RestApart ==
  ASSUME ListInv, NEW k \in DOMAIN list, NEW n \in Nat, size[list[k]] >= n, Cuts(k, n),
         NEW c \in DOMAIN size, c # list[k]
  PROVE  c # Rest(k, n)
<1>1. Types /\ Tiles(list, size)
  BY DEF ListInv
<1>2. Apart(size, c, list[k])
  BY OthersApart
<1>3. /\ c \in Blocks /\ c[2] \in Nat /\ size[c] \in Nat /\ End(size, c) = c[2] + HEADER + size[c]
  BY <1>1, BlockParts DEF Types, End
<1>4. /\ list[k][2] \in Nat /\ Space(list[k]) = list[k][2] + HEADER /\ list[k][1] = memory_pool
  BY <1>1, ListFacts
<1>5. Rest(k, n)[1] = memory_pool /\ Rest(k, n)[2] = Space(list[k]) + n /\ Rest(k, n)[2] + HEADER < End(size, list[k])
  BY <1>1, RestFacts
<1>6. End(size, list[k]) \in Nat
  BY <1>1, ListFacts
<1> QED BY <1>2, <1>3, <1>4, <1>5, <1>6 DEF Apart

\* The cut changes the size of no other header, and only the rest is new.
LEMMA SizeCutSame ==
  ASSUME ListInv, NEW k \in DOMAIN list, NEW n \in Nat, size[list[k]] >= n
  PROVE  /\ \A c \in DOMAIN size : c # list[k] => SizeCut(k, n)[c] = size[c]
         /\ \A c \in DOMAIN SizeCut(k, n) : c \in DOMAIN size \/ c = Rest(k, n)
<1>1. Types /\ Tiles(list, size)
  BY DEF ListInv
<1> PICK s : s = SizeCut(k, n)
  OBVIOUS
<1> PICK r : r = Rest(k, n)
  OBVIOUS
<1>2. CASE ~Cuts(k, n)
  <2>1. s = size
    BY <1>1, <1>2, SizeCutFacts
  <2> QED BY <2>1
<1>3. CASE Cuts(k, n)
  <2>1. /\ DOMAIN s = DOMAIN size \cup {r}
        /\ \A c \in DOMAIN size : c # r /\ c # list[k] => s[c] = size[c]
    BY <1>1, <1>3, SizeCutFacts
  <2>2. \A c \in DOMAIN size : c # list[k] => c # r
    BY <1>3, RestApart
  <2> QED BY <2>1, <2>2
<1> QED BY <1>2, <1>3
\* Holders stay in their blocks, and the blocks keep their sizes or lose what they no longer need.
LEMMA KeptStep ==
  ASSUME KeptInv, fits' = fits, state' # "overwritten", state' = "call" => state = "call" /\ call' = call,
         \A q \in Holders' : /\ q \in Holders /\ ptr'[q].block = ptr[q].block
                             /\ size'[ptr[q].block] = size[ptr[q].block]
                             /\ ~fits => ptr'[q].good = ptr'[q].wrote /\ ptr'[q].want = ptr[q].want
  PROVE  KeptInv'
<1> SUFFICES ASSUME ~fits PROVE KeptInv'
  BY DEF KeptInv
<1>1. \A q \in Holders' : ptr'[q].good = ptr'[q].wrote /\ ptr'[q].want <= size'[ptr'[q].block]
  BY DEF KeptInv
<1>2. ASSUME NEW q \in Holders', NEW r \in Holders', q # r
      PROVE  Apart(size, ptr[q].block, ptr[r].block)'
  <2>1. Apart(size, ptr[q].block, ptr[r].block)
    BY <1>2 DEF KeptInv
  <2>2. /\ ptr'[q].block = ptr[q].block /\ ptr'[r].block = ptr[r].block
        /\ size'[ptr'[q].block] = size[ptr[q].block] /\ size'[ptr'[r].block] = size[ptr[r].block]
    OBVIOUS
  <2> QED BY <2>1, <2>2 DEF Apart, End, Space
<1>3. state' = "call" => \A q \in Holders' \ {call'[1]} : size'[ptr'[q].block] < call'[2]
  BY DEF KeptInv
<1> QED BY <1>1, <1>2, <1>3 DEF KeptInv

LEMMA RequestKept ==
  ASSUME ListInv, KeptInv, NEW p \in Ptrs, NEW n \in Requests, Request(p, n)
  PROVE  KeptInv'
<1>1. /\ UNCHANGED <<list, size, ptr>> /\ call' = <<p, n>> /\ state' = "call"
      /\ fits' = (fits \/ \E q \in Holders \ {p} : n <= size[ptr[q].block])
  BY DEF Request
<1>2. Holders' = Holders
  BY <1>1 DEF Holders
<1> SUFFICES ASSUME ~fits' PROVE KeptInv'
  BY DEF KeptInv
<1>3. ~fits /\ \A q \in Holders \ {p} : ~(n <= size[ptr[q].block])
  BY <1>1
<1>4. \A q \in Holders \ {p} : size[ptr[q].block] < n
  <2>1. \A q \in Holders : size[ptr[q].block] \in Nat
    BY DEF ListInv, HeaderInv, Types
  <2>2. n \in Nat
    OBVIOUS
  <2> QED BY <1>3, <2>1, <2>2
<1>5. \A q, r \in Holders : q # r => Apart(size, ptr[q].block, ptr[r].block)'
  BY <1>1, <1>3 DEF KeptInv, Apart, End
<1> QED BY <1>1, <1>2, <1>3, <1>4, <1>5 DEF KeptInv

LEMMA PoolKept ==
  ASSUME ListInv, KeptInv, NEW n \in Nat, InitializePool(n), state = "call"
  PROVE  KeptInv'
<1>1. CASE memory_pool' = Unused
  <2>1. /\ memory_pool' = Unused /\ pool_size' = n /\ list' = <<<<Unused, 0>>>>
        /\ size' = WriteHeader(KeepHeaders(size, <<>>, ptr), <<Unused, 0>>, FirstSize(n))
        /\ ptr' = ptr /\ call' = call /\ state' \in {state, "overrun"} /\ fits' = fits
    <3>1. Unused # memory_pool
      BY UnusedFacts DEF ListInv
    <3> QED BY <1>1, <3>1 DEF InitializePool, pool
  <2>2. \A p \in Holders : size'[ptr[p].block] = size[ptr[p].block]
    BY <2>1, PoolFacts
  <2>3. Holders' = Holders
    BY <2>1 DEF Holders
  <2>4. ~fits => \A q \in Holders : ptr'[q].good = ptr'[q].wrote
    BY <2>1 DEF KeptInv
  <2> QED BY <2>1, <2>2, <2>3, <2>4, KeptStep
<1>2. CASE UNCHANGED <<pool, list, size, ptr, call, fits>> /\ state' = "exited"
  <2>1. Holders' = Holders
    BY <1>2 DEF Holders
  <2>2. ~fits => \A q \in Holders : ptr'[q].good = ptr'[q].wrote
    BY <1>2 DEF KeptInv
  <2> QED BY <1>2, <2>1, <2>2, KeptStep
<1> QED BY <1>1, <1>2 DEF InitializePool

LEMMA FreeKept ==
  ASSUME ListInv, KeptInv, NEW p \in Ptrs, Free(p)
  PROVE  KeptInv'
<1>1. Types /\ HeaderInv /\ Tiles(list, size)
  BY DEF ListInv
<1>a. PICK l : l = CutOff(list, ptr[p].block)
  OBVIOUS
<1>b. PICK f : f = [ptr EXCEPT ![p] = Null]
  OBVIOUS
<1>c. PICK w : w = KeepHeaders(size, l, f)
  OBVIOUS
<1>2. ptr' = f /\ size' = w /\ call' = call /\ state' = state /\ fits' = fits /\ state = "idle"
  BY <1>a, <1>b, <1>c DEF Free
<1>3. list \in Seq(Blocks) /\ size \in [DOMAIN size -> Nat] /\ ptr \in [Ptrs -> Piece]
  BY <1>1 DEF Types
<1>4. f[p] = Null /\ \A q \in Ptrs : q # p => f[q] = ptr[q]
  BY <1>3, <1>b
<1>5. Tiles(l, size)
  BY <1>1, <1>3, <1>a, CutOffTiles
<1>6. \A b \in DOMAIN w : w[b] = size[b]
  BY <1>3, <1>5, <1>c, KeptFacts
<1>7. \A q \in Ptrs : f[q] # Null /\ f[q].block \in DOMAIN size => f[q].block \in DOMAIN w
  BY <1>3, <1>5, <1>c, KeptFacts
<1>8. ASSUME NEW q \in Holders'
      PROVE  /\ q \in Holders /\ ptr'[q].block = ptr[q].block
             /\ size'[ptr[q].block] = size[ptr[q].block]
             /\ ~fits => ptr'[q].good = ptr'[q].wrote /\ ptr'[q].want = ptr[q].want
  <2>1. q \in Ptrs /\ f[q] # Null
    BY <1>2 DEF Holders
  <2>2. q # p /\ f[q] = ptr[q]
    BY <1>4, <2>1
  <2>3. q \in Holders
    BY <2>1, <2>2 DEF Holders
  <2>4. ptr[q].block \in DOMAIN w
    BY <1>1, <1>7, <2>1, <2>2, <2>3 DEF HeaderInv
  <2>5. ~fits => ptr[q].good = ptr[q].wrote
    BY <2>3 DEF KeptInv
  <2> QED BY <1>2, <1>6, <2>2, <2>3, <2>4, <2>5
<1> QED BY <1>2, <1>8, KeptStep

LEMMA FillKept ==
  ASSUME ListInv, KeptInv, NEW p \in Ptrs, Fill(p)
  PROVE  KeptInv'
<1>1. Types /\ HeaderInv /\ Tiles(list, size)
  BY DEF ListInv
<1>2. /\ UNCHANGED <<size, fits>> /\ p \in Holders
      /\ state' = IF HitsHeader(DOMAIN size, ptr[p].block[1], Space(ptr[p].block), Space(ptr[p].block) + ptr[p].want)
                  THEN "overwritten" ELSE "idle"
  BY DEF Fill, Holders
<1> SUFFICES ASSUME ~fits PROVE KeptInv'
  BY <1>2 DEF KeptInv
<1> PICK b : b = ptr[p].block
  OBVIOUS
<1>3. /\ b \in DOMAIN size /\ b \in Blocks /\ ptr[p].want \in Nat /\ ptr[p].want <= size[b] /\ size[b] \in Nat
      /\ \A c \in DOMAIN size : c # b => Apart(size, c, b)
  <2>1. b \in DOMAIN size
    BY <1>1, <1>2 DEF HeaderInv
  <2>2. ptr[p].want <= size[b]
    BY <1>2 DEF KeptInv
  <2>3. \A c \in DOMAIN size : c # b => Apart(size, c, b)
    BY <1>2, HeldApart
  <2> QED BY <1>1, <1>2, <2>1, <2>2, <2>3 DEF Types, Piece
<1>4. /\ Space(b) \in Nat /\ Space(b) + ptr[p].want \in Nat
      /\ Space(b) <= Space(b) /\ Space(b) + ptr[p].want <= End(size, b)
  BY <1>3, BlockParts DEF End
<1>5. state' = "idle"
  <2>1. ~HitsHeader(DOMAIN size, b[1], Space(b), Space(b) + ptr[p].want)
    BY <1>1, <1>3, <1>4, NoHit
  <2> QED BY <1>2, <2>1
<1>6. ASSUME NEW q \in Holders, q # p
      PROVE  ptr'[q] = ptr[q]
  <2>1. /\ ptr[q] \in Piece /\ ptr[q].block \in DOMAIN size /\ size[ptr[q].block] \in Nat
        /\ ptr[q].good \in Nat /\ ptr[q].good <= ptr[q].wrote /\ ptr[q].wrote <= ptr[q].want
        /\ ptr[q].wrote \in Nat /\ ptr[q].want \in Nat
    BY <1>1 DEF HeaderInv, Holders, Types, Piece
  <2>2. Apart(size, ptr[q].block, b) /\ ptr[q].want <= size[ptr[q].block]
    BY <1>2, <1>6 DEF KeptInv
  <2>3. ptr[q].good <= size[ptr[q].block]
    BY <2>1, <2>2
  <2>4. Damage(ptr[q], b[1], Space(b), Space(b) + ptr[p].want) = ptr[q]
    BY <1>1, <1>3, <1>4, <2>1, <2>2, <2>3, Unharmed
  <2>5. ptr'[q] = Damage(ptr[q], b[1], Space(b), Space(b) + ptr[p].want)
    BY <1>6, FillFacts DEF Holders
  <2> QED BY <2>4, <2>5
<1>7. /\ Holders' = Holders
      /\ ptr'[p].block = ptr[p].block /\ ptr'[p].want = ptr[p].want /\ ptr'[p].good = ptr'[p].wrote
  <2>1. \A q \in Ptrs : ptr'[q] # Null <=> ptr[q] # Null
    BY FillFacts
  <2> QED BY <2>1, FillFacts DEF Holders
<1>8. \A q \in Holders' : /\ q \in Holders /\ ptr'[q].block = ptr[q].block
                          /\ size'[ptr[q].block] = size[ptr[q].block]
                          /\ ~fits => ptr'[q].good = ptr'[q].wrote /\ ptr'[q].want = ptr[q].want
  BY <1>2, <1>6, <1>7 DEF KeptInv
<1> QED BY <1>2, <1>5, <1>8, KeptStep
\* The header of the rest and the copy go where nothing of the others is.
LEMMA ReturnWrites ==
  ASSUME ListInv, KeptInv, ~fits, NEW p \in Ptrs, NEW n \in Nat, NEW k \in DOMAIN list,
         state = "call", call[1] = p, call[2] = n, memory_pool # 0, size[list[k]] >= n
  PROVE  /\ ~HitsHeader(DOMAIN size, memory_pool, Rest(k, n)[2], LastCut(k, n))
         /\ ~HitsHeader(DOMAIN SizeCut(k, n), memory_pool, Space(list[k]), Space(list[k]) + Copied(p, k, n))
         /\ \A q \in Holders \ {p} : /\ ptr[q].block # list[k]
                                     /\ PtrCut(k, n)[q] = ptr[q] /\ PtrCopied(p, k, n)[q] = ptr[q]
         /\ p \in Holders /\ ptr[p].block # list[k] => PtrCut(k, n)[p] = ptr[p]
<1>0. Types /\ HeaderInv /\ Tiles(list, size)
  BY DEF ListInv
<1> PICK b : b = list[k]
  OBVIOUS
<1>1. /\ b \in DOMAIN size /\ b \in Blocks /\ size[b] \in Nat /\ b[1] = memory_pool
      /\ End(size, b) = b[2] + HEADER + size[b] /\ Space(b) = b[2] + HEADER /\ b[2] \in Nat
  BY <1>0, ListFacts
<1>2. \A c \in DOMAIN size : c # b => Apart(size, c, b)
  BY OthersApart
<1> PICK first : first = Rest(k, n)[2]
  OBVIOUS
<1> PICK last : last = LastCut(k, n)
  OBVIOUS
<1> PICK copy : copy = Copied(p, k, n)
  OBVIOUS
<1>3. /\ first = Space(b) + n /\ first \in Nat /\ last \in Nat /\ last <= End(size, b)
      /\ copy \in Nat /\ copy <= n /\ Space(b) \in Nat
  BY WriteFacts
<1>4. /\ Space(b) <= first /\ Space(b) <= Space(b) /\ Space(b) + copy \in Nat /\ Space(b) + copy <= first
      /\ Space(b) + copy <= End(size, b)
  BY <1>1, <1>3
<1>5. ~HitsHeader(DOMAIN size, memory_pool, first, last)
  BY <1>0, <1>1, <1>2, <1>3, <1>4, NoHit
<1>6. ~HitsHeader(DOMAIN size, memory_pool, Space(b), Space(b) + copy)
  BY <1>0, <1>1, <1>2, <1>3, <1>4, NoHit
<1>7. ~HitsHeader(DOMAIN SizeCut(k, n), memory_pool, Space(b), Space(b) + copy)
  <2> SUFFICES ASSUME NEW c \in DOMAIN SizeCut(k, n), c[1] = memory_pool, c[2] < Space(b) + copy,
                      Space(b) < Space(c), Space(b) < Space(b) + copy
               PROVE  FALSE
    BY DEF HitsHeader
  <2>1. CASE c \in DOMAIN size
    BY <1>6, <2>1 DEF HitsHeader
  <2>2. CASE c \notin DOMAIN size
    <3>1. c = Rest(k, n)
      BY <2>2, SizeCutSame
    <3>2. c[2] = first
      BY <3>1
    <3> QED BY <1>3, <1>4, <3>2
  <2> QED BY <2>1, <2>2
<1>8. ASSUME NEW q \in Holders, ptr[q].block # b
      PROVE  /\ PtrCut(k, n)[q] = ptr[q]
             /\ Damage(ptr[q], memory_pool, Space(b), Space(b) + copy) = ptr[q]
  <2>1. /\ q \in Ptrs /\ ptr[q] \in Piece /\ ptr[q].block \in DOMAIN size /\ size[ptr[q].block] \in Nat
        /\ ptr[q].good \in Nat /\ ptr[q].good <= ptr[q].wrote /\ ptr[q].wrote <= ptr[q].want
        /\ ptr[q].wrote \in Nat /\ ptr[q].want \in Nat
    BY <1>0 DEF HeaderInv, Holders, Types, Piece
  <2>2. Apart(size, ptr[q].block, b) /\ ptr[q].want <= size[ptr[q].block]
    BY <1>2, <1>8, <2>1 DEF KeptInv
  <2>3. ptr[q].good <= size[ptr[q].block]
    BY <2>1, <2>2
  <2>4. Damage(ptr[q], memory_pool, first, last) = ptr[q]
    BY <1>0, <1>1, <1>3, <1>4, <2>1, <2>2, <2>3, Unharmed
  <2>5. Damage(ptr[q], memory_pool, Space(b), Space(b) + copy) = ptr[q]
    BY <1>0, <1>1, <1>3, <1>4, <2>1, <2>2, <2>3, Unharmed
  <2>6. PtrCut(k, n)[q] = Damage(ptr[q], memory_pool, first, last)
    BY <2>1 DEF PtrCut
  <2> QED BY <2>4, <2>5, <2>6
<1>9. ASSUME NEW q \in Holders, q # p
      PROVE  ptr[q].block # b /\ PtrCut(k, n)[q] = ptr[q] /\ PtrCopied(p, k, n)[q] = ptr[q]
  <2>1. ptr[q].block # b
    BY <1>9, NotTaken
  <2>2. PtrCut(k, n)[q] = ptr[q] /\ Damage(ptr[q], memory_pool, Space(b), Space(b) + copy) = ptr[q]
    BY <1>8, <2>1
  <2>3. q \in Ptrs
    BY DEF Holders
  <2>4. PtrCopied(p, k, n)[q] = IF b = ptr[p].block THEN PtrCut(k, n)[q]
                                ELSE Damage(PtrCut(k, n)[q], memory_pool, Space(b), Space(b) + copy)
    BY <1>9, <2>3 DEF PtrCopied
  <2> QED BY <2>1, <2>2, <2>4
<1> QED BY <1>5, <1>7, <1>8, <1>9

\* What is kept of what the caller wrote: the minimum of the old and new sizes.
LEMMA MineKept ==
  ASSUME ListInv, KeptInv, ~fits, NEW p \in Ptrs, NEW n \in Nat, NEW k \in DOMAIN list,
         state = "call", call[1] = p, call[2] = n, memory_pool # 0, size[list[k]] >= n
  PROVE  Mine(p, k, n).good = Mine(p, k, n).wrote
<1>0. Types /\ HeaderInv /\ Tiles(list, size)
  BY DEF ListInv
<1> PICK b : b = list[k]
  OBVIOUS
<1> PICK copy : copy = Copied(p, k, n)
  OBVIOUS
<1> PICK d : d = PtrCut(k, n)[p]
  OBVIOUS
<1>1. /\ b \in DOMAIN size /\ b \in Blocks /\ size[b] \in Nat /\ b[1] = memory_pool
      /\ Space(b) = b[2] + HEADER /\ Space(b) \in Nat
  BY <1>0, ListFacts, BlockParts
<1>2. /\ Rest(k, n)[2] = Space(b) + n /\ Rest(k, n)[2] \in Nat
      /\ LastCut(k, n) \in Nat /\ Rest(k, n)[2] <= LastCut(k, n)
      /\ ~Cuts(k, n) => LastCut(k, n) = Rest(k, n)[2]
      /\ copy \in Nat /\ copy <= n /\ memory_pool \in Nat
  BY WriteFacts
<1>3. /\ ptr[p] \in Piece /\ ptr[p].good \in Nat /\ ptr[p].wrote \in Nat /\ ptr[p].want \in Nat
      /\ ptr[p].good <= ptr[p].wrote /\ ptr[p].wrote <= ptr[p].want
  BY <1>0 DEF Types, Piece
<1>4. d = Damage(ptr[p], memory_pool, Rest(k, n)[2], LastCut(k, n))
  BY DEF PtrCut
<1>5. d \in Piece /\ d.good <= ptr[p].good /\ d.good \in Nat
  <2>1. d \in Piece /\ d.good <= ptr[p].good
    BY <1>2, <1>3, <1>4, DamageFacts
  <2> QED BY <2>1 DEF Piece
<1>6. /\ Mine(p, k, n).wrote = Min({n, ptr[p].wrote})
      /\ Mine(p, k, n).good = Min({copy, d.good})
  BY DEF Mine
<1>7. /\ Min({n, ptr[p].wrote}) = IF n <= ptr[p].wrote THEN n ELSE ptr[p].wrote
      /\ Min({copy, d.good}) = IF copy <= d.good THEN copy ELSE d.good
  BY <1>2, <1>3, <1>5, MinPair
<1>8. CASE ptr[p] = Null
  <2>1. copy = 0 /\ ptr[p].wrote = 0
    BY <1>8, NullFacts DEF Copied
  <2> QED BY <1>2, <1>5, <1>6, <1>7, <2>1
<1>9. CASE ptr[p] # Null
  <2>1. p \in Holders /\ ptr[p].block \in DOMAIN size /\ size[ptr[p].block] \in Nat
    BY <1>0, <1>9 DEF Holders, HeaderInv, Types
  <2>2. ptr[p].good = ptr[p].wrote /\ ptr[p].want <= size[ptr[p].block]
    BY <2>1 DEF KeptInv
  <2>3. copy = CopySize(n, SizeCut(k, n)[ptr[p].block])
    BY <1>9 DEF Copied
  <2>4. CASE ptr[p].block = b
    <3>1. copy = n
      <4>1. /\ n <= SizeCut(k, n)[b] /\ b \in DOMAIN SizeCut(k, n)
            /\ SizeCut(k, n) \in [DOMAIN SizeCut(k, n) -> Nat]
        <5>1. SizeCut(k, n) \in [DOMAIN SizeCut(k, n) -> Nat] /\ n <= SizeCut(k, n)[b]
          BY <1>0, SizeCutFacts
        <5>2. DOMAIN size \subseteq DOMAIN SizeCut(k, n)
          BY <1>0, CutFacts
        <5> QED BY <1>1, <5>1, <5>2
      <4>2. SizeCut(k, n)[b] \in Nat
        BY <4>1
      <4> QED BY <2>3, <2>4, <4>1, <4>2, MinPair DEF CopySize
    <3>2. ptr[p].good <= n => d = ptr[p]
      <4> SUFFICES ASSUME ptr[p].good <= n PROVE d = ptr[p]
        OBVIOUS
      <4>1. Space(ptr[p].block) + ptr[p].good <= Rest(k, n)[2]
        BY <1>1, <1>2, <1>3, <2>4
      <4> QED BY <1>2, <1>3, <1>4, <4>1, DamageFacts
    <3>3. ptr[p].good > n => d.good >= n
      <4> SUFFICES ASSUME ptr[p].good > n PROVE d.good >= n
        OBVIOUS
      <4>1. CASE Rest(k, n)[2] < LastCut(k, n)
        <5>1. ptr[p].block[1] = memory_pool /\ Space(ptr[p].block) = Space(b)
          BY <1>1, <2>4
        <5> DEFINE g == IF Rest(k, n)[2] > Space(b) THEN Rest(k, n)[2] - Space(b) ELSE 0
        <5>2. Space(b) < LastCut(k, n) /\ Rest(k, n)[2] < Space(b) + ptr[p].good
          BY <1>1, <1>2, <1>3, <4>1
        <5>3. d = [ptr[p] EXCEPT !.good = g]
          BY <1>4, <4>1, <5>1, <5>2 DEF Damage
        <5>4. g = n
          BY <1>1, <1>2
        <5> HIDE DEF g
        <5>5. d.good = g
          BY <1>3, <5>3 DEF Piece
        <5> QED BY <5>4, <5>5
      <4>2. CASE ~(Rest(k, n)[2] < LastCut(k, n))
        <5>1. LastCut(k, n) <= Rest(k, n)[2]
          BY <1>2, <4>2
        <5>2. d = ptr[p]
          BY <1>2, <1>3, <1>4, <5>1, DamageFacts
        <5> QED BY <1>3, <5>2
      <4> QED BY <4>1, <4>2
    <3> QED BY <1>2, <1>3, <1>5, <1>6, <1>7, <2>2, <3>1, <3>2, <3>3
  <2>5. CASE ptr[p].block # b
    <3>1. d = ptr[p]
      BY <2>1, <2>5, ReturnWrites
    <3>2. SizeCut(k, n)[ptr[p].block] = size[ptr[p].block]
      BY <2>1, <2>5, SizeCutSame
    <3>3. copy = IF n <= size[ptr[p].block] THEN n ELSE size[ptr[p].block]
      BY <2>1, <2>3, <3>2, MinPair DEF CopySize
    <3> QED BY <1>2, <1>3, <1>6, <1>7, <2>1, <2>2, <3>1, <3>3
  <2> QED BY <2>4, <2>5
<1> QED BY <1>8, <1>9

LEMMA ReturnKept ==
  ASSUME ListInv, KeptInv, Return
  PROVE  KeptInv'
<1>0. Types /\ HeaderInv /\ Tiles(list, size)
  BY DEF ListInv
<1>1. PICK p \in Ptrs, n \in Requests, k \in DOMAIN list :
        /\ state = "call" /\ call[1] = p /\ call[2] = n /\ memory_pool # 0
        /\ size[list[k]] >= n /\ Returns(p, k, n)
  BY <1>0, ReturnStep
<1>2. n \in Nat /\ fits' = fits
  BY <1>1 DEF Returns
<1> SUFFICES ASSUME ~fits PROVE KeptInv'
  BY <1>2 DEF KeptInv
<1> PICK b : b = list[k]
  OBVIOUS
<1> PICK s : s = SizeCut(k, n)
  OBVIOUS
<1>a. PICK g : g = PtrCopied(p, k, n)
  OBVIOUS
<1>b. PICK m : m = ListFreed(p, k, n)
  OBVIOUS
<1>3. size' = KeepHeaders(s, m, g) /\ ptr' = g
  BY <1>1, <1>a, <1>b DEF Returns
<1>4. state' = "idle"
  <2>1. ~HitsHeader(DOMAIN size, memory_pool, Rest(k, n)[2], LastCut(k, n))
    BY <1>1, <1>2, ReturnWrites
  <2>2. ~HitsHeader(DOMAIN SizeCut(k, n), memory_pool, Space(list[k]), Space(list[k]) + Copied(p, k, n))
    BY <1>1, <1>2, ReturnWrites
  <2> QED BY <1>1, <2>1, <2>2 DEF Returns
<1>5. /\ g[p] = Mine(p, k, n) /\ g[p].block = b /\ g[p].want = n /\ g[p].good = g[p].wrote /\ p \in Ptrs
  <2>1. g[p] = Mine(p, k, n) /\ Mine(p, k, n).block = b
    BY <1>1, <1>2, <1>a, HeldFacts
  <2>2. Mine(p, k, n).want = n
    BY DEF Mine
  <2>3. Mine(p, k, n).good = Mine(p, k, n).wrote
    BY <1>1, <1>2, MineKept
  <2> QED BY <2>1, <2>2, <2>3
<1>6. \A q \in Holders' : q = p \/ (q \in Holders /\ q # p)
  <2> SUFFICES ASSUME NEW q \in Holders', q # p PROVE q \in Holders
    OBVIOUS
  <2>1. q \in Ptrs /\ g[q] # Null
    BY <1>3 DEF Holders
  <2> QED BY <1>1, <1>2, <1>a, <2>1, HeldFacts
<1>7. ASSUME NEW q \in Holders, q # p
      PROVE  /\ g[q] = ptr[q] /\ ptr[q].block # b /\ ptr[q].block \in DOMAIN size
             /\ s[ptr[q].block] = size[ptr[q].block]
  <2>1. ptr[q].block # b /\ g[q] = ptr[q]
    BY <1>1, <1>2, <1>7, <1>a, ReturnWrites
  <2>2. ptr[q].block \in DOMAIN size
    BY <1>0 DEF HeaderInv
  <2>3. s[ptr[q].block] = size[ptr[q].block]
    BY <1>1, <1>2, <2>1, <2>2, SizeCutSame
  <2> QED BY <2>1, <2>2, <2>3
<1>8. /\ s \in [DOMAIN s -> Nat] /\ n <= s[b] /\ s[b] <= size[b] /\ DOMAIN size \subseteq DOMAIN s
      /\ b \in DOMAIN size /\ size[b] \in Nat /\ b[1] # 0
  <2>1. s \in [DOMAIN s -> Nat] /\ n <= s[b] /\ s[b] <= size[b]
    BY <1>0, <1>1, <1>2, SizeCutFacts
  <2>2. DOMAIN size \subseteq DOMAIN s
    BY <1>0, <1>1, <1>2, CutFacts
  <2>3. b \in DOMAIN size /\ size[b] \in Nat /\ b[1] # 0
    BY <1>0, <1>1, ListFacts
  <2> QED BY <2>1, <2>2, <2>3
<1>9. \A q \in Holders' : /\ size'[ptr'[q].block] = s[ptr'[q].block]
                          /\ ptr'[q].block \in DOMAIN size
  <2> SUFFICES ASSUME NEW q \in Holders'
               PROVE  size'[ptr'[q].block] = s[ptr'[q].block] /\ ptr'[q].block \in DOMAIN size
    OBVIOUS
  <2>1. ListInv'
    BY ReturnList
  <2>2. ptr'[q].block \in DOMAIN size'
    BY <2>1 DEF ListInv, HeaderInv
  <2>3. PICK w : w = size'
    OBVIOUS
  <2>4. w = KeepHeaders(s, m, g)
    BY <1>3, <2>3
  <2>5. \A c \in DOMAIN w : w[c] = s[c]
    BY <1>8, <2>4, KeepHeadersFacts
  <2>6. ptr'[q].block \in DOMAIN size
    BY <1>3, <1>5, <1>6, <1>7, <1>8
  <2> QED BY <2>2, <2>3, <2>5, <2>6
<1>10. \A q \in Holders' : ptr'[q].good = ptr'[q].wrote /\ ptr'[q].want <= size'[ptr'[q].block]
  <2> SUFFICES ASSUME NEW q \in Holders'
               PROVE  ptr'[q].good = ptr'[q].wrote /\ ptr'[q].want <= size'[ptr'[q].block]
    OBVIOUS
  <2>1. CASE q = p
    BY <1>3, <1>5, <1>8, <1>9, <2>1
  <2>2. CASE q # p
    <3>1. q \in Holders
      BY <1>6, <2>2
    <3>2. ptr[q].good = ptr[q].wrote /\ ptr[q].want <= size[ptr[q].block]
      BY <3>1 DEF KeptInv
    <3>3. ptr'[q] = ptr[q] /\ s[ptr[q].block] = size[ptr[q].block]
      BY <1>3, <1>7, <2>2, <3>1
    <3> QED BY <1>9, <3>2, <3>3
  <2> QED BY <2>1, <2>2
<1>11. ASSUME NEW q \in Holders', q # p
       PROVE  /\ Apart(size', ptr'[q].block, ptr'[p].block) /\ Apart(size', ptr'[p].block, ptr'[q].block)
  <2>1. q \in Holders
    BY <1>6, <1>11
  <2>2. ptr'[q].block = ptr[q].block /\ s[ptr[q].block] = size[ptr[q].block] /\ ptr[q].block # b
        /\ ptr[q].block \in DOMAIN size
    BY <1>3, <1>7, <1>11, <2>1
  <2>3. ptr'[p].block = b
    BY <1>3, <1>5
  <2>4. Apart(size, ptr[q].block, b)
    BY <1>1, <2>2, OthersApart
  <2>5. size'[ptr[q].block] = size[ptr[q].block]
    BY <1>9, <2>2
  <2>6. p \in Holders'
    BY <1>1, <1>2, <1>3, <1>a, HeldFacts DEF Holders
  <2>7. size'[b] = s[b] /\ s[b] \in Nat
    <3>1. size'[b] = s[b]
      BY <1>9, <2>3, <2>6
    <3> QED BY <1>8, <3>1
  <2>8. /\ b[2] \in Nat /\ ptr[q].block[2] \in Nat /\ Space(b) = b[2] + HEADER
        /\ size[ptr[q].block] \in Nat
    BY <1>0, <1>8, <2>2, BlockParts DEF Types
  <2>9. End(size', b) <= End(size, b) /\ End(size', ptr[q].block) = End(size, ptr[q].block)
    BY <1>8, <2>5, <2>7, <2>8 DEF End
  <2>10. End(size, b) \in Nat /\ End(size', b) \in Nat
    BY <1>8, <2>7, <2>8 DEF End
  <2> QED BY <2>2, <2>3, <2>4, <2>8, <2>9, <2>10 DEF Apart
<1>12. \A q, r \in Holders' : q # r => Apart(size', ptr'[q].block, ptr'[r].block)
  <2> SUFFICES ASSUME NEW q \in Holders', NEW r \in Holders', q # r
               PROVE  Apart(size', ptr'[q].block, ptr'[r].block)
    OBVIOUS
  <2>1. CASE q = p \/ r = p
    BY <1>11, <2>1
  <2>2. CASE q # p /\ r # p
    <3>1. q \in Holders /\ r \in Holders
      BY <1>6, <2>2
    <3>2. Apart(size, ptr[q].block, ptr[r].block)
      BY <3>1 DEF KeptInv
    <3>3. /\ ptr'[q].block = ptr[q].block /\ s[ptr[q].block] = size[ptr[q].block]
          /\ ptr'[r].block = ptr[r].block /\ s[ptr[r].block] = size[ptr[r].block]
      BY <1>3, <1>7, <2>2, <3>1
    <3>4. size'[ptr[q].block] = size[ptr[q].block] /\ size'[ptr[r].block] = size[ptr[r].block]
      BY <1>9, <3>3
    <3> QED BY <3>2, <3>3, <3>4 DEF Apart, End
  <2> QED BY <2>1, <2>2
<1>13. \A q, r \in Holders' : q # r => Apart(size, ptr[q].block, ptr[r].block)'
  BY <1>12 DEF Apart, End, Space
<1> QED BY <1>4, <1>10, <1>13 DEF KeptInv

LEMMA KeptNext == ListInv /\ KeptInv /\ [AllocNext]_allocVars => KeptInv'
<1> SUFFICES ASSUME ListInv, KeptInv, [AllocNext]_allocVars PROVE KeptInv'
  OBVIOUS
<1>1. ASSUME NEW p \in Ptrs, Fill(p) PROVE KeptInv'
  BY <1>1, FillKept
<1>2. ASSUME NEW p \in Ptrs, Free(p) PROVE KeptInv'
  BY <1>2, FreeKept
<1>3. ASSUME NEW p \in Ptrs, NEW n \in Requests, Request(p, n) PROVE KeptInv'
  BY <1>3, RequestKept
<1>4. CASE FirstPool
  BY <1>4, PoolKept DEF FirstPool
<1>5. CASE GrowPool
  <2>1. size[Last(list)] * 2 \in Nat
    BY <1>5, GrowSize DEF GrowPool
  <2> QED BY <1>5, <2>1, PoolKept DEF GrowPool
<1>6. CASE Return
  BY <1>6, ReturnKept
<1>7. CASE UNCHANGED allocVars
  BY <1>7 DEF allocVars, KeptInv, Holders, Apart, End
<1> QED BY <1>1, <1>2, <1>3, <1>4, <1>5, <1>6, <1>7 DEF AllocNext, Allocate

\* DataKept: as long as nothing is asked for that fits in what another pointer holds, every
\* block keeps what was written to it, my_realloc up to the smaller of the sizes.
THEOREM Kept == AllocSpec => []DataKept
<1>1. AllocInit => KeptInv
  BY DEF AllocInit, KeptInv, Holders
<1>2. KeptInv => DataKept
  <2> SUFFICES ASSUME KeptInv, ~fits
               PROVE  state # "overwritten" /\ \A p \in Ptrs : ptr[p].good = ptr[p].wrote
    BY DEF DataKept
  <2>1. \A p \in Ptrs : p \in Holders \/ ptr[p] = Null
    BY DEF Holders
  <2> QED BY <2>1, NullFacts DEF KeptInv
<1>3. KeptInv /\ PoolInv /\ [AllocNext]_allocVars => KeptInv'
  <2>1. KeptInv /\ UNCHANGED allocVars => KeptInv'
    BY DEF allocVars, KeptInv, Holders, Apart, End
  <2> QED BY <2>1, KeptNext, NoneAfterOverrun DEF PoolInv
<1>4. AllocSpec => []KeptInv
  BY <1>1, <1>3, ListAlways, PTL DEF AllocSpec
<1> QED BY <1>2, <1>4, PTL
===============================================================================
