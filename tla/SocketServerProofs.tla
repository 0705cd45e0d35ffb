--------------------------- MODULE SocketServerProofs --------------------------
(***************************************************************************)
(* Theorems about the echo server, for any length of client_sockets and    *)
(* any number of connections: main's index, the count, and whom a thread   *)
(* serves.                                                                 *)
(***************************************************************************)
EXTENDS SocketServer, FiniteSetTheorems, WellFoundedInduction, TLAPS

\* What client_count, and the copies of it, can be.
Counts ==
  /\ index \in Int /\ client_count \in Int
  /\ loaded \in [Conns -> Int]

\* A handler's copy may be old, but was taken while client_count was at most MAX_CLIENTS.
\* So the lowering writes less than that, and main passes its limit check only below it:
\* from there to its own increment nobody raises client_count to the limit.
IndexInv ==
  /\ Counts
  /\ \A n \in Conns : loaded[n] <= MAX_CLIENTS
  /\ IndexInArray
  /\ main \in {"index", "accept", "check", "create", "load", "increment"} =>
       client_count < MAX_CLIENTS

LEMMA IndexInit == Init => IndexInv
  BY ServerAssumption, SMT DEF Init, IndexInv, Counts, IndexInArray

LEMMA MainStep == IndexInv /\ Main => IndexInv'
<1> SUFFICES ASSUME IndexInv, Main PROVE IndexInv'
  OBVIOUS
<1>1. loaded' = loaded
  BY Zenon DEF Main, locals
<1>2. CASE EvalIndex
  BY <1>1, <1>2, ServerAssumption, SMT DEF EvalIndex, counter, IndexInv, Counts, IndexInArray
<1>3. CASE Accept
  <2>1. UNCHANGED <<index, client_count>> /\ main = "accept" /\ main' = "check"
    BY <1>3, Zenon DEF Accept, counter
  <2> QED
    BY <1>1, <2>1, ServerAssumption, SMT DEF IndexInv, Counts, IndexInArray
<1>4. CASE CheckAccepted
  <2>1. /\ UNCHANGED <<index, client_count>> /\ main = "check"
        /\ main' \in {"undefined", "over", "create"}
    BY <1>4, Zenon DEF CheckAccepted, mainVars, counter
  <2> QED
    BY <1>1, <2>1, ServerAssumption, SMT DEF IndexInv, Counts, IndexInArray
<1>5. CASE CreateThread
  <2>1. /\ UNCHANGED <<index, client_count>> /\ main = "create"
        /\ main' \in {"undefined", "over", "load"}
    BY <1>5, Zenon DEF CreateThread, mainVars, counter
  <2> QED
    BY <1>1, <2>1, ServerAssumption, SMT DEF IndexInv, Counts, IndexInArray
<1>6. CASE LoadForIncrement
  BY <1>1, <1>6, ServerAssumption, SMT DEF LoadForIncrement, counter, IndexInv, Counts, IndexInArray
<1>7. CASE Increment
  BY <1>1, <1>7, ServerAssumption, SMT DEF Increment, mainVars, IndexInv, Counts, IndexInArray
<1>8. CASE CheckLimit
  BY <1>1, <1>8, ServerAssumption, SMT
     DEF CheckLimit, LimitReached, mainVars, counter, IndexInv, Counts, IndexInArray
<1> QED
  BY <1>2, <1>3, <1>4, <1>5, <1>6, <1>7, <1>8, Zenon DEF Main

LEMMA HandlerStepKeeps ==
  ASSUME IndexInv, NEW n \in Conns, Handler(n)
  PROVE  IndexInv'
<1>1. index' = index /\ main' \in {main, "over"}
  BY Zenon DEF Handler, HandlerStep, mainVars, ReadSlot, CallRead, Message, EndOfFile, ReadError,
     Reply, LoadForDecrement, Decrement, Close
<1>2. CASE Decrement(n)
  <2>1. client_count' = loaded[n] - 1 /\ loaded' = loaded
    BY <1>2, Zenon DEF Decrement, locals
  <2> QED
    BY <1>1, <2>1, ServerAssumption, SMT DEF IndexInv, Counts, IndexInArray
<1>3. CASE LoadForDecrement(n)
  <2>1. client_count' = client_count /\ loaded' = [loaded EXCEPT ![n] = client_count]
    BY <1>3, Zenon DEF LoadForDecrement, counter
  <2> QED
    BY <1>1, <2>1, ServerAssumption, SMT DEF IndexInv, Counts, IndexInArray
<1>4. CASE Close(n)
  <2>1. client_count' = client_count /\ loaded' = [loaded EXCEPT ![n] = 0]
    BY <1>4, Zenon DEF Close, counter
  <2> QED
    BY <1>1, <2>1, ServerAssumption, SMT DEF IndexInv, Counts, IndexInArray
<1>5. CASE \/ ReadSlot(n) \/ CallRead(n) \/ Message(n) \/ EndOfFile(n) \/ ReadError(n) \/ Reply(n)
  <2>1. client_count' = client_count /\ loaded' = loaded
    BY <1>5, Zenon DEF ReadSlot, CallRead, Message, EndOfFile, ReadError, Reply, locals, counter
  <2> QED
    BY <1>1, <2>1, ServerAssumption, SMT DEF IndexInv, Counts, IndexInArray
<1> QED
  BY <1>2, <1>3, <1>4, <1>5, Zenon DEF Handler

LEMMA IndexNext == IndexInv /\ [Next]_vars => IndexInv'
<1> SUFFICES ASSUME IndexInv, [Next]_vars PROVE IndexInv'
  OBVIOUS
<1>1. CASE Main
  BY <1>1, MainStep
<1>2. ASSUME NEW n \in Conns, Handler(n) PROVE IndexInv'
  BY <1>2, HandlerStepKeeps
<1>3. CASE Connect \/ (\E n \in Conns : Client(n)) \/ UNCHANGED vars
  <2>1. UNCHANGED <<main, index, client_count, loaded>>
    BY <1>3, Zenon DEF Connect, Client, Send, Receive, Leave, ClientStep,
       vars, mainVars, handlerVars, locals, counter
  <2> QED
    BY <2>1, Zenon DEF IndexInv, Counts, IndexInArray
<1> QED
  BY <1>1, <1>2, <1>3, Zenon DEF Next

(* No interleaving of the unlocked changes of client_count takes main's index behind   *)
(* the end of client_sockets.                                                           *)
THEOREM InArray == Spec => []IndexInArray
<1>1. IndexInv => IndexInArray
  BY DEF IndexInv
<1> QED
  BY <1>1, IndexInit, IndexNext, PTL DEF Spec

(***************************************************************************)
(* The count.  Main counts the thread it created last, a handler uncounts  *)
(* itself once, after it has read the end of its connection.               *)
(***************************************************************************)
States == {"none", "start", "call", "read", "reply", "load", "decrement", "close", "done"}

Created ==
  /\ arrived \in 0..MaxConns /\ accepted \in 0..arrived
  /\ pc \in [Conns -> States]
  /\ \A n \in Conns : n > accepted => pc[n] = "none"
  /\ main \in {"check", "create"} => accepted \in Conns /\ pc[accepted] = "none"
  /\ main \in {"load", "increment"} => accepted \in Conns /\ pc[accepted] # "none"

ClosedOnce ==
  /\ closed \subseteq Conns
  /\ \A n \in closed : pc[n] \in {"load", "decrement", "close", "done"}
  /\ \A n \in Conns : pc[n] \in {"load", "decrement"} => n \in closed

CountInv == Counts /\ Created /\ ClosedOnce /\ CountIsAccurate

LEMMA ConnsFinite == IsFiniteSet(Conns)
  BY FS_Interval, ServerAssumption, SMT DEF Conns

LEMMA CountInit == Init => CountInv
<1> SUFFICES ASSUME Init PROVE CountInv
  OBVIOUS
<1>1. Counted = {} /\ Uncounted = {}
  BY SMT DEF Init, Counted, Uncounted
<1>2. CountIsAccurate
  BY <1>1, FS_EmptySet, SMT DEF Init, CountIsAccurate
<1>3. Counts /\ Created /\ ClosedOnce
  BY ServerAssumption, SMT DEF Init, Counts, Created, ClosedOnce, States, Conns
<1> QED
  BY <1>2, <1>3 DEF CountInv

\* A step that adds to neither set and leaves client_count alone.
LEMMA SameCount ==
  ASSUME CountIsAccurate, UNCHANGED <<client_count, torn>>, ProcessRuns' => ProcessRuns,
         ProcessRuns' => Counted' = Counted, Uncounted' = Uncounted
  PROVE  CountIsAccurate'
  BY Zenon DEF CountIsAccurate

LEMMA MainCounts == CountInv /\ Main => CountInv'
<1> SUFFICES ASSUME CountInv, Main PROVE CountInv'
  OBVIOUS
<1>1. UNCHANGED <<loaded, closed, arrived>>
  BY Zenon DEF Main, locals, clientVars
<1>2. CASE Increment
  <2>1. /\ main = "increment" /\ main' = "limit" /\ UNCHANGED <<index, accepted, pc>>
        /\ client_count' = index + 1 /\ (torn' = 0 => client_count = index /\ torn = 0)
    BY <1>2, SMT DEF Increment, mainVars
  <2>2. Counts' /\ Created' /\ ClosedOnce'
    BY <1>1, <2>1, SMT DEF CountInv, Counts, Created, ClosedOnce
  <2>3. CountIsAccurate'
    <3> SUFFICES ASSUME torn' = 0
                 PROVE  client_count' = Cardinality(Counted') - Cardinality(Uncounted')
      BY Zenon DEF CountIsAccurate
    <3>1. Counted' = Counted \cup {accepted} /\ accepted \notin Counted
      BY <2>1, SMT DEF Counted, CountInv, Created
    <3>2. Uncounted' = Uncounted
      BY <1>1, <2>1, Zenon DEF Uncounted
    <3>3. IsFiniteSet(Counted) /\ IsFiniteSet(Uncounted)
      BY ConnsFinite, FS_Subset, Zenon DEF Counted, Uncounted, CountInv, ClosedOnce
    <3>4. /\ Cardinality(Counted') = Cardinality(Counted) + 1
          /\ Cardinality(Counted) \in Nat /\ Cardinality(Uncounted) \in Nat
      BY <3>1, <3>3, FS_AddElement, FS_CardinalityType, Zenon
    <3>5. client_count = Cardinality(Counted) - Cardinality(Uncounted)
      BY <2>1, SMT DEF CountInv, CountIsAccurate, ProcessRuns
    <3> QED
      BY <2>1, <3>2, <3>4, <3>5, SMT DEF CountInv, Counts
  <2> QED
    BY <2>2, <2>3 DEF CountInv
<1>3. CASE CreateThread
  <2>1. UNCHANGED <<index, accepted, client_count, torn>> /\ main = "create"
    BY <1>3, Zenon DEF CreateThread, mainVars, counter
  <2>2. \/ main' = "load" /\ pc' = [pc EXCEPT ![accepted] = "start"]
        \/ main' \in {"undefined", "over"} /\ pc' = pc
    BY <1>3, Zenon DEF CreateThread
  <2>3. accepted \in Conns /\ pc[accepted] = "none" /\ accepted \notin closed
    BY <2>1, SMT DEF CountInv, Created, ClosedOnce
  <2>4. Counts' /\ Created' /\ ClosedOnce'
    BY <1>1, <2>1, <2>2, <2>3, SMT DEF CountInv, Counts, Created, ClosedOnce, States
  <2>5. \A n \in Conns : n # accepted => pc'[n] = pc[n]
    BY <2>2, <2>3, SMT DEF CountInv, Created
  <2>6. ProcessRuns' => Counted' = Counted
    <3>1. ASSUME ProcessRuns' PROVE main' = "load"
      BY <2>2, <3>1, SMT DEF ProcessRuns
    <3>2. ASSUME ProcessRuns', NEW n \in Conns PROVE n \in Counted' <=> n \in Counted
      <4>1. CASE n = accepted
        BY <2>1, <2>3, <3>1, <3>2, <4>1, SMT DEF Counted
      <4>2. CASE n # accepted
        BY <2>1, <2>5, <4>2, Zenon DEF Counted
      <4> QED
        BY <4>1, <4>2
    <3> QED
      BY <3>2, Zenon DEF Counted
  <2>7. Uncounted' = Uncounted
    BY <1>1, <2>5, <2>3, Zenon DEF Uncounted, CountInv, ClosedOnce
  <2>8. ProcessRuns' => ProcessRuns
    BY <2>1, SMT DEF ProcessRuns
  <2> QED
    BY <2>1, <2>4, <2>6, <2>7, <2>8, SameCount, Zenon DEF CountInv
<1>4. CASE EvalIndex \/ Accept \/ CheckAccepted \/ LoadForIncrement \/ CheckLimit
  <2>1. UNCHANGED <<pc, client_count, torn>>
    BY <1>4, Zenon DEF EvalIndex, Accept, CheckAccepted, LoadForIncrement, CheckLimit, counter
  <2>2. index' \in {index, client_count}
    BY <1>4, Zenon DEF EvalIndex, Accept, CheckAccepted, LoadForIncrement, CheckLimit, mainVars
  <2>3. \/ /\ accepted' = accepted
           /\ \/ main = "index" /\ main' \in {"undefined", "accept"}
              \/ main = "check" /\ main' \in {"undefined", "over", "create"}
              \/ main = "load" /\ main' = "increment"
              \/ main = "limit" /\ main' \in {"over", "index"}
        \/ accepted' = accepted + 1 /\ accepted < arrived /\ main = "accept" /\ main' = "check"
    BY <1>4, Zenon DEF EvalIndex, Accept, ConnectionWaits, CheckAccepted, LoadForIncrement,
       CheckLimit, mainVars
  <2>4. Counts' /\ Created' /\ ClosedOnce'
    BY <1>1, <2>1, <2>2, <2>3, ServerAssumption, SMT
       DEF CountInv, Counts, Created, ClosedOnce, Conns
  <2>5. ProcessRuns /\ (ProcessRuns' => Counted' = Counted)
    BY <2>1, <2>3, SMT DEF Counted, ProcessRuns
  <2>6. Uncounted' = Uncounted
    BY <1>1, <2>1, Zenon DEF Uncounted
  <2> QED
    BY <2>1, <2>4, <2>5, <2>6, SameCount, Zenon DEF CountInv
<1> QED
  BY <1>2, <1>3, <1>4, Zenon DEF Main

LEMMA HandlerCounts ==
  ASSUME CountInv, NEW n \in Conns, Handler(n)
  PROVE  CountInv'
<1>1. /\ UNCHANGED <<index, accepted, arrived>>
      /\ main' \in {main, "over"} /\ ProcessRuns
  BY Zenon DEF Handler, HandlerStep, mainVars, clientVars, ReadSlot, CallRead, Message, EndOfFile,
     ReadError, Reply, LoadForDecrement, Decrement, Close
<1>2. pc[n] # "none" /\ n \in Conns
  BY SMT DEF Handler, HandlerStep, ReadSlot, CallRead, Message, EndOfFile,
     ReadError, Reply, LoadForDecrement, Decrement, Close
<1>3. \E there \in States \ {"none"} : pc' = [pc EXCEPT ![n] = there]
  BY SMT DEF Handler, HandlerStep, States, ReadSlot, CallRead, Message, EndOfFile,
     ReadError, Reply, LoadForDecrement, Decrement, Close
<1>4. Created'
  BY <1>1, <1>2, <1>3, SMT DEF CountInv, Created
<1>5. ProcessRuns' => Counted' = Counted
  BY <1>1, <1>2, <1>3, SMT DEF Counted, CountInv, Created, ProcessRuns
<1>6. CASE Decrement(n)
  <2>1. /\ UNCHANGED <<main, loaded, closed>> /\ pc[n] = "decrement"
        /\ pc' = [pc EXCEPT ![n] = "close"]
        /\ client_count' = loaded[n] - 1 /\ (torn' = 0 => client_count = loaded[n] /\ torn = 0)
    BY <1>6, SMT DEF Decrement, HandlerStep, locals
  <2>2. Counts' /\ ClosedOnce'
    BY <1>1, <2>1, SMT DEF CountInv, Counts, Created, ClosedOnce
  <2>3. CountIsAccurate'
    <3> SUFFICES ASSUME torn' = 0, ProcessRuns'
                 PROVE  client_count' = Cardinality(Counted') - Cardinality(Uncounted')
      BY Zenon DEF CountIsAccurate
    <3>1. Uncounted' = Uncounted \cup {n} /\ n \notin Uncounted
      BY <1>2, <2>1, SMT DEF Uncounted, CountInv, ClosedOnce, Created
    <3>2. IsFiniteSet(Counted) /\ IsFiniteSet(Uncounted)
      BY ConnsFinite, FS_Subset, Zenon DEF Counted, Uncounted, CountInv, ClosedOnce
    <3>3. /\ Cardinality(Uncounted') = Cardinality(Uncounted) + 1
          /\ Cardinality(Counted) \in Nat /\ Cardinality(Uncounted) \in Nat
      BY <3>1, <3>2, FS_AddElement, FS_CardinalityType, Zenon
    <3>4. client_count = Cardinality(Counted) - Cardinality(Uncounted)
      BY <1>1, <2>1, Zenon DEF CountInv, CountIsAccurate
    <3> QED
      BY <1>5, <2>1, <3>3, <3>4, SMT
  <2> QED
    BY <1>4, <2>2, <2>3 DEF CountInv
<1>7. CASE EndOfFile(n)
  <2>1. /\ UNCHANGED <<loaded, client_count, torn>> /\ pc[n] = "read"
        /\ pc' = [pc EXCEPT ![n] = "load"] /\ closed' = closed \cup {n}
    BY <1>7, Zenon DEF EndOfFile, HandlerStep, locals, counter
  <2>2. Counts' /\ ClosedOnce' /\ Uncounted' = Uncounted
    BY <1>1, <1>2, <2>1, SMT DEF CountInv, Counts, Created, ClosedOnce, Uncounted
  <2> QED
    BY <1>1, <1>4, <1>5, <2>1, <2>2, SameCount, Zenon DEF CountInv
<1>8. CASE \/ ReadSlot(n) \/ CallRead(n) \/ Message(n) \/ ReadError(n) \/ Reply(n)
           \/ LoadForDecrement(n) \/ Close(n)
  <2>1. UNCHANGED <<client_count, torn, closed>>
    BY <1>8, Zenon DEF ReadSlot, CallRead, Message, ReadError, Reply, LoadForDecrement, Close,
       counter
  <2>2. \E x \in {loaded[n], client_count, 0} : loaded' = [loaded EXCEPT ![n] = x]
    <3>1. loaded = [loaded EXCEPT ![n] = loaded[n]]
      BY SMT DEF CountInv, Counts
    <3> QED
      BY <1>8, <3>1, Zenon DEF ReadSlot, CallRead, Message, ReadError, Reply, LoadForDecrement,
         Close, locals
  <2>3. Counts'
    BY <1>1, <2>1, <2>2, SMT DEF CountInv, Counts
  <2>4. \/ pc[n] \in {"start", "call", "read", "reply"}
           /\ pc' \in {[pc EXCEPT ![n] = s] : s \in {"call", "read", "reply", "close"}}
        \/ pc[n] = "load" /\ pc' = [pc EXCEPT ![n] = "decrement"]
        \/ pc[n] = "close" /\ pc' = [pc EXCEPT ![n] = "done"]
    BY <1>8, SMT DEF ReadSlot, CallRead, Message, ReadError, Reply, LoadForDecrement, Close,
       HandlerStep
  <2>5. ClosedOnce' /\ Uncounted' = Uncounted
    BY <1>2, <2>1, <2>4, SMT DEF CountInv, Created, ClosedOnce, Uncounted
  <2> QED
    BY <1>1, <1>4, <1>5, <2>1, <2>3, <2>5, SameCount, Zenon DEF CountInv
<1> QED
  BY <1>6, <1>7, <1>8, Zenon DEF Handler

LEMMA CountNext == CountInv /\ [Next]_vars => CountInv'
<1> SUFFICES ASSUME CountInv, [Next]_vars PROVE CountInv'
  OBVIOUS
<1>1. CASE Main
  BY <1>1, MainCounts
<1>2. ASSUME NEW n \in Conns, Handler(n) PROVE CountInv'
  BY <1>2, HandlerCounts
<1>3. CASE Connect \/ (\E n \in Conns : Client(n)) \/ UNCHANGED vars
  <2>1. UNCHANGED <<main, index, client_count, torn, loaded, accepted, pc, closed>>
    BY <1>3, Zenon DEF Connect, Client, Send, Receive, Leave, ClientStep,
       vars, mainVars, handlerVars, locals, counter
  <2>2. arrived' = arrived \/ (arrived < MaxConns /\ arrived' = arrived + 1)
    BY <1>3, Zenon DEF Connect, Client, Send, Receive, Leave, vars, clientVars
  <2>3. Created'
    BY <2>1, <2>2, ServerAssumption, SMT DEF CountInv, Created
  <2> QED
    BY <2>1, <2>3, Zenon DEF CountInv, Counts, ClosedOnce, CountIsAccurate, Counted, Uncounted,
       ProcessRuns
<1> QED
  BY <1>1, <1>2, <1>3, Zenon DEF Next

(* As long as no change of client_count is lost it is the number of threads that have  *)
(* not seen their client leave.                                                         *)
THEOREM Accurate == Spec => []CountIsAccurate
<1>1. CountInv => CountIsAccurate
  BY DEF CountInv
<1> QED
  BY <1>1, CountInit, CountNext, PTL DEF Spec

(***************************************************************************)
(* Types, and that main never runs out of descriptors: each descriptor in  *)
(* use is of a connection of its own.                                      *)
(***************************************************************************)
Places == {"index", "accept", "check", "create", "load", "increment", "limit", "over", "undefined"}

DataTypes ==
  /\ main \in Places
  /\ client_sockets \in [Indices -> Fds \cup {-1, 0}]
  /\ slot \in [Conns -> Indices]
  /\ client_socket \in [Conns -> Fds \cup {-1, 0}]
  /\ from \in [Conns -> 0..MaxConns]
  /\ peer \in [Fds -> 0..MaxConns]
  /\ client \in [Conns -> {"off", "prompt", "wait", "gone"}]
  /\ asked \subseteq Conns /\ answered \subseteq Conns
  /\ torn \in {0, 1} /\ overlap \in {0, 1}

PeersApart ==
  /\ \A f \in Fds : peer[f] <= accepted
  /\ \A f, g \in Fds : peer[f] # 0 /\ peer[f] = peer[g] => f = g

\* main has come by the test for an index below 0.
IndexNotBelow == main = "accept" => index >= 0

ServerInv == IndexInv /\ CountInv /\ DataTypes /\ PeersApart /\ IndexNotBelow

Frees(f) == peer[f] = 0 /\ \A g \in Fds : g < f => peer[g] # 0

LEMMA Least ==
  ASSUME NEW S, S \subseteq Nat, S # {}
  PROVE  \E m \in S : \A k \in S : m <= k
<1> DEFINE R == {p \in Nat \X Nat : p[1] < p[2]}
<1>1. IsWellFoundedOn(R, Nat)
  BY NatLessThanWellFounded DEF OpToRel
<1>2. PICK m \in S : \A k \in S : ~(<<k, m>> \in R)
  BY <1>1, WFMin
<1>3. ASSUME NEW k \in S PROVE m <= k
  <2>1. m \in Nat /\ k \in Nat
    OBVIOUS
  <2>2. ~(k < m)
    BY <1>2, <2>1
  <2> QED
    BY <2>1, <2>2
<1> QED
  BY <1>3

LEMMA Pigeons ==
  ASSUME NEW S, NEW T, IsFiniteSet(S), IsFiniteSet(T), Cardinality(T) < Cardinality(S),
         NEW h \in [S -> T]
  PROVE  \E x, y \in S : x # y /\ h[x] = h[y]
  BY FS_PigeonHole

LEMMA FreeLeft ==
  ASSUME DataTypes, PeersApart, Created, accepted < MaxConns
  PROVE  LowestFree \in Fds /\ Frees(LowestFree)
<1> DEFINE Free == {f \in Fds : peer[f] = 0}
<1>1. Free # {}
  <2> SUFFICES ASSUME Free = {} PROVE FALSE
    OBVIOUS
  <2>1. peer \in [Fds -> 1..accepted]
    <3>1. \A f \in Fds : peer[f] \in Nat /\ peer[f] # 0 /\ peer[f] <= accepted
      BY ServerAssumption DEF DataTypes, PeersApart
    <3>2. \A f \in Fds : peer[f] \in 1..accepted
      BY <3>1, ServerAssumption DEF Created
    <3> QED
      BY <3>2, Zenon DEF DataTypes
  <2>2. /\ IsFiniteSet(Fds) /\ Cardinality(Fds) = MaxConns
        /\ IsFiniteSet(1..accepted) /\ Cardinality(1..accepted) = accepted
    BY FS_Interval, ServerAssumption DEF Fds, Created
  <2>3. \E f, g \in Fds : f # g /\ peer[f] = peer[g]
    <3> DEFINE T == 1..accepted
    <3>1. IsFiniteSet(Fds) /\ IsFiniteSet(T) /\ Cardinality(T) < Cardinality(Fds)
      BY <2>2, ServerAssumption DEF Created
    <3>2. peer \in [Fds -> T]
      BY <2>1
    <3> HIDE DEF T, Free
    <3> QED
      BY <3>1, <3>2, Pigeons
  <2> QED
    BY <2>1, <2>3 DEF PeersApart
<1>2. PICK f \in Free : \A g \in Free : f <= g
  <2>1. Free \subseteq Nat
    BY DEF Fds
  <2> HIDE DEF Free
  <2> QED
    BY <1>1, <2>1, Least
<1>3. f \in Fds /\ Frees(f)
  BY <1>2 DEF Frees, Fds
<1> QED
  BY <1>3, Zenon DEF LowestFree, Frees

DataInv == DataTypes /\ PeersApart /\ IndexNotBelow

LEMMA DataInit == Init => DataInv
  BY ServerAssumption DEF Init, DataInv, DataTypes, PeersApart, IndexNotBelow, Places, Fds, Conns, Indices

LEMMA MainData == IndexInv /\ CountInv /\ DataInv /\ Main => DataInv'
<1> SUFFICES ASSUME IndexInv, CountInv, DataInv, Main PROVE DataInv'
  OBVIOUS
<1>1. UNCHANGED <<client_socket, from, client, asked, answered>>
  BY Zenon DEF Main, locals, clientVars, messages
<1>2. CASE Accept
  <2>1. /\ main = "accept" /\ main' = "check" /\ accepted' = accepted + 1 /\ accepted < arrived
        /\ UNCHANGED <<slot, torn>> /\ overlap' \in {overlap, 1}
    BY <1>2, Zenon DEF Accept, ConnectionWaits, counter
  <2>2. accepted \in Nat /\ accepted < MaxConns /\ Created
    BY <2>1, ServerAssumption DEF CountInv, Created
  <2>3. LowestFree \in Fds /\ Frees(LowestFree)
    BY <2>2, FreeLeft DEF DataInv
  <2>4. CASE /\ client_sockets' = [client_sockets EXCEPT ![index] = LowestFree]
             /\ peer' = [peer EXCEPT ![LowestFree] = accepted + 1]
    <3>1. DataTypes'
      <4>1. accepted + 1 \in 0..MaxConns
        BY <2>2, ServerAssumption
      <4> HIDE DEF LowestFree
      <4>2. client_sockets' \in [Indices -> Fds \cup {-1, 0}] /\ peer' \in [Fds -> 0..MaxConns]
        BY <2>3, <2>4, <4>1 DEF DataInv, DataTypes
      <4> QED
        BY <1>1, <2>1, <4>2 DEF DataInv, DataTypes, Places
    <3>2. PeersApart'
      <4>1. \A f \in Fds : f # LowestFree => peer'[f] = peer[f] /\ peer[f] <= accepted
        BY <2>4 DEF DataInv, DataTypes, PeersApart
      <4>2. peer'[LowestFree] = accepted + 1
        BY <2>3, <2>4 DEF DataInv, DataTypes
      <4>3. \A f \in Fds : peer[f] \in Nat
        BY ServerAssumption DEF DataInv, DataTypes
      <4> HIDE DEF LowestFree
      <4> QED
        BY <2>1, <2>2, <4>1, <4>2, <4>3 DEF PeersApart, DataInv
    <3> QED
      BY <2>1, <3>1, <3>2 DEF DataInv, IndexNotBelow
  <2>5. CASE client_sockets' = [client_sockets EXCEPT ![index] = -1] /\ peer' = peer
    <3>1. DataTypes'
      BY <1>1, <2>1, <2>5 DEF DataInv, DataTypes, Places
    <3>2. PeersApart'
      BY <2>1, <2>2, <2>5, ServerAssumption DEF DataInv, DataTypes, PeersApart
    <3> QED
      BY <2>1, <3>1, <3>2 DEF DataInv, IndexNotBelow
  <2> QED
    BY <1>2, <2>4, <2>5, Zenon DEF Accept
<1>3. CASE CreateThread
  <2>1. /\ UNCHANGED <<client_sockets, peer, torn, overlap, accepted>> /\ main = "create"
        /\ main' \in {"load", "undefined", "over"}
    BY <1>3, Zenon DEF CreateThread, mainVars, counter
  <2>2. slot' \in [Conns -> Indices]
    <3>1. CASE client_count >= 0 /\ slot' = [slot EXCEPT ![accepted] = client_count]
      <4>1. client_count \in Indices
        BY <2>1, <3>1, ServerAssumption DEF IndexInv, Counts, Indices
      <4> QED
        BY <3>1, <4>1 DEF DataInv, DataTypes
    <3>2. CASE slot' = slot
      BY <3>2 DEF DataInv, DataTypes
    <3> QED
      BY <1>3, <3>1, <3>2, Zenon DEF CreateThread
  <2> QED
    BY <1>1, <2>1, <2>2 DEF DataInv, DataTypes, PeersApart, IndexNotBelow, Places
<1>4. CASE EvalIndex
  <2>1. /\ UNCHANGED <<client_sockets, peer, torn, overlap, accepted, slot>>
        /\ main' = (IF client_count < 0 THEN "undefined" ELSE "accept") /\ index' = client_count
    BY <1>4, Zenon DEF EvalIndex, counter
  <2> QED
    BY <1>1, <2>1 DEF IndexInv, Counts, DataInv, DataTypes, PeersApart, IndexNotBelow, Places
<1>5. CASE CheckAccepted \/ LoadForIncrement \/ Increment \/ CheckLimit
  <2>1. /\ UNCHANGED <<client_sockets, peer, overlap, accepted, slot>> /\ torn' \in {torn, 1}
        /\ main' \in Places \ {"accept"}
    BY <1>5 DEF CheckAccepted, LoadForIncrement, Increment, CheckLimit, mainVars, counter, Places
  <2> QED
    BY <1>1, <2>1 DEF DataInv, DataTypes, PeersApart, IndexNotBelow
<1> QED
  BY <1>2, <1>3, <1>4, <1>5, Zenon DEF Main

LEMMA PeerType == DataTypes => \A f : PeerOf(f) \in 0..MaxConns
  BY ServerAssumption DEF DataTypes, PeerOf

LEMMA HandlerData ==
  ASSUME DataInv, CountInv, NEW n \in Conns, Handler(n)
  PROVE  DataInv'
<1>1. /\ UNCHANGED <<index, accepted, client_sockets, client, overlap>>
      /\ main' \in {main, "over"}
  BY Zenon DEF Handler, HandlerStep, mainVars, clientVars, ReadSlot, CallRead, Message, EndOfFile,
     ReadError, Reply, LoadForDecrement, Decrement, Close
<1>2. IndexNotBelow'
  BY <1>1 DEF DataInv, IndexNotBelow
<1>3. CASE ReadSlot(n)
  <2>1. /\ client_socket' = [client_socket EXCEPT ![n] = client_sockets[slot[n]]]
        /\ UNCHANGED <<slot, from, asked, answered, torn, peer>>
    BY <1>3, Zenon DEF ReadSlot, messages, counter
  <2> QED
    BY <1>1, <1>2, <2>1 DEF DataInv, DataTypes, PeersApart, Places
<1>4. CASE CallRead(n)
  <2>1. /\ from' = [from EXCEPT ![n] = PeerOf(client_socket[n])]
        /\ UNCHANGED <<slot, client_socket, asked, answered, torn, peer>>
    BY <1>4, Zenon DEF CallRead, messages, counter
  <2> QED
    BY <1>1, <1>2, <2>1, PeerType DEF DataInv, DataTypes, PeersApart, Places
<1>5. CASE Reply(n)
  <2>1. /\ answered' \in {answered, answered \cup {PeerOf(client_socket[n])}}
        /\ PeerOf(client_socket[n]) = 0 => answered' = answered
        /\ UNCHANGED <<slot, client_socket, from, asked, torn, peer>>
    BY <1>5 DEF Reply, locals, counter
  <2>2. answered' \subseteq Conns
    BY <2>1, PeerType, ServerAssumption DEF DataInv, DataTypes, Conns
  <2> QED
    BY <1>1, <1>2, <2>1, <2>2 DEF DataInv, DataTypes, PeersApart, Places
<1>6. CASE Close(n)
  <2>1. /\ peer' = Closed(client_socket[n])
        /\ slot' = [slot EXCEPT ![n] = 0] /\ client_socket' = [client_socket EXCEPT ![n] = -1]
        /\ from' = [from EXCEPT ![n] = 0] /\ UNCHANGED <<asked, answered, torn>>
    BY <1>6, Zenon DEF Close, messages, counter
  <2>2. peer' \in [Fds -> 0..MaxConns] /\ \A f \in Fds : peer'[f] \in {0, peer[f]}
    BY <2>1, ServerAssumption DEF Closed, DataInv, DataTypes
  <2>3. PeersApart'
    BY <1>1, <2>2, ServerAssumption DEF DataInv, PeersApart, DataTypes, CountInv, Created
  <2>4. DataTypes'
    BY <1>1, <2>1, <2>2, ServerAssumption DEF DataInv, DataTypes, Places, Indices
  <2> QED
    BY <1>2, <2>3, <2>4 DEF DataInv
<1>7. CASE Message(n) \/ EndOfFile(n) \/ ReadError(n) \/ LoadForDecrement(n) \/ Decrement(n)
  <2>1. UNCHANGED <<slot, client_socket, from, answered, peer>>
    BY <1>7, Zenon DEF Message, EndOfFile, ReadError, LoadForDecrement, Decrement, locals, messages
  <2>2. torn' \in {torn, 1} /\ asked' \subseteq asked
    BY <1>7 DEF Message, EndOfFile, ReadError, LoadForDecrement, Decrement, messages, counter
  <2> QED
    BY <1>1, <1>2, <2>1, <2>2 DEF DataInv, DataTypes, PeersApart, Places
<1> QED
  BY <1>3, <1>4, <1>5, <1>6, <1>7, Zenon DEF Handler

LEMMA ClientData ==
  ASSUME DataInv, CountInv, Connect \/ \E n \in Conns : Client(n)
  PROVE  DataInv'
<1>1. UNCHANGED <<main, index, accepted, client_sockets, overlap, slot, client_socket, from, torn, peer>>
  BY Zenon DEF Connect, Client, Send, Receive, Leave, ClientStep, mainVars,
     handlerVars, locals, counter
<1>2. asked' \subseteq Conns /\ answered' \subseteq Conns
  BY DEF Connect, Client, Send, Receive, Leave, messages, DataInv, DataTypes
<1>3. client' \in [Conns -> {"off", "prompt", "wait", "gone"}]
  BY DEF Connect, Client, Send, Receive, Leave, ClientStep, DataInv, DataTypes
<1> QED
  BY <1>1, <1>2, <1>3 DEF DataInv, DataTypes, PeersApart, IndexNotBelow

LEMMA ServerInit == Init => ServerInv
  BY IndexInit, CountInit, DataInit DEF ServerInv, DataInv

LEMMA ServerNext == ServerInv /\ [Next]_vars => ServerInv'
<1> SUFFICES ASSUME ServerInv, [Next]_vars PROVE ServerInv'
  OBVIOUS
<1>1. IndexInv' /\ CountInv'
  BY IndexNext, CountNext DEF ServerInv
<1>2. DataInv'
  <2>1. DataInv /\ CountInv /\ IndexInv
    BY DEF ServerInv, DataInv
  <2>2. CASE UNCHANGED vars
    BY <2>1, <2>2 DEF vars, mainVars, handlerVars, locals, clientVars, messages, counter, DataInv,
       DataTypes, PeersApart, IndexNotBelow
  <2> QED
    BY <2>1, <2>2, MainData, HandlerData, ClientData, Zenon DEF Next
<1> QED
  BY <1>1, <1>2 DEF ServerInv, DataInv

(* The values of the variables; in particular a free descriptor is left whenever a *)
(* connection is accepted.                                                          *)
THEOREM Typing == Spec => []TypeOK
<1>1. ServerInv => TypeOK
  BY DEF ServerInv, IndexInv, Counts, CountInv, Created, ClosedOnce, States, DataTypes, Places, TypeOK
<1> QED
  BY <1>1, ServerInit, ServerNext, PTL DEF Spec

(***************************************************************************)
(* OwnClient.  As long as there never were two connections at once, every  *)
(* one has the first descriptor, and the elements of client_sockets below  *)
(* client_count show it: whichever of them main goes by, it is right.      *)
(***************************************************************************)
Live(n)  == pc[n] \notin {"none", "done"}
NoneLive == \A n \in Conns : ~Live(n)
Alone    == overlap = 0 /\ torn = 0
FirstFd  == 1

OneThread == \A n \in Conns : Live(n) => n = accepted /\ main \notin {"check", "create"}

OneFd ==
  /\ \A f \in Fds : f # FirstFd => peer[f] = 0
  /\ main \in {"index", "accept", "load", "increment", "limit"} /\ NoneLive =>
       \A f \in Fds : peer[f] = 0
  /\ main \in {"check", "create"} \/ ~NoneLive =>
       peer[FirstFd] = accepted \/ (peer[FirstFd] = 0 /\ client[accepted] = "gone")

FirstInArray ==
  /\ \A i \in Indices : i < client_count => client_sockets[i] = FirstFd
  /\ main \in {"accept", "check", "create"} =>
       client_count <= index /\ \A i \in Indices : i < index => client_sockets[i] = FirstFd
  /\ main = "check" => client_sockets[index] \in {FirstFd, -1}
  /\ main \in {"create", "load", "increment"} /\ client_count >= 0 =>
       client_sockets[client_count] = FirstFd

FirstHeld ==
  \A n \in Conns :
    /\ pc[n] = "start" => client_sockets[slot[n]] = FirstFd
    /\ Live(n) /\ pc[n] # "start" => client_socket[n] = FirstFd

AloneInv == Alone => OneThread /\ OneFd /\ FirstInArray /\ FirstHeld

LEMMA AloneInit == Init => AloneInv
<1> SUFFICES ASSUME Init PROVE AloneInv
  OBVIOUS
<1>1. NoneLive /\ OneThread /\ FirstHeld
  BY DEF Init, NoneLive, OneThread, FirstHeld, Live
<1>2. OneFd
  BY <1>1 DEF Init, OneFd
<1>3. FirstInArray
  BY DEF Init, FirstInArray, Indices
<1> QED
  BY <1>1, <1>2, <1>3 DEF AloneInv

LEMMA MainAlone ==
  ASSUME ServerInv, AloneInv, Main, Alone'
  PROVE  (OneThread /\ OneFd /\ FirstInArray /\ FirstHeld)'
<1>1. UNCHANGED <<client_socket, client>>
  BY Zenon DEF Main, locals, clientVars
<1>2. DataTypes /\ IndexInv /\ Counts /\ Created /\ IndexNotBelow
  BY DEF ServerInv, CountInv
<1>3. CASE Accept
  <2>1. /\ main = "accept" /\ main' = "check" /\ accepted' = accepted + 1 /\ accepted < arrived
        /\ UNCHANGED <<index, pc, slot, client_count, torn>>
        /\ overlap' = IF \A n \in Conns : pc[n] \in {"none", "done"} THEN overlap ELSE 1
    BY <1>3, Zenon DEF Accept, ConnectionWaits, counter
  <2>2. Alone /\ NoneLive
    BY <2>1 DEF Alone, NoneLive, Live
  <2>3. OneThread /\ OneFd /\ FirstInArray /\ FirstHeld
    BY <2>2 DEF AloneInv
  <2>4. accepted + 1 \in Conns /\ FirstFd \in Fds /\ index \in Indices
    BY <1>2, <2>1, ServerAssumption
       DEF Created, Conns, Fds, FirstFd, IndexInv, Counts, IndexInArray, IndexNotBelow, Indices
  <2>5. \A f \in Fds : peer[f] = 0
    BY <2>1, <2>2, <2>3 DEF OneFd
  <2>6. LowestFree = FirstFd
    <3>1. FirstFd \in Fds /\ peer[FirstFd] = 0 /\ \A g \in Fds : g < FirstFd => peer[g] # 0
      BY <2>4, <2>5 DEF Fds, FirstFd
    <3>2. \A f \in Fds : (peer[f] = 0 /\ \A g \in Fds : g < f => peer[g] # 0) => f = FirstFd
      BY <2>4, <2>5 DEF Fds, FirstFd
    <3> QED
      BY <3>1, <3>2, Zenon DEF LowestFree
  <2>7. NoneLive' /\ FirstHeld' /\ OneThread'
    BY <2>1, <2>2 DEF NoneLive, FirstHeld, OneThread, Live
  <2>8. \/ /\ client_sockets' = [client_sockets EXCEPT ![index] = FirstFd]
           /\ peer' = [peer EXCEPT ![FirstFd] = accepted + 1]
        \/ /\ client_sockets' = [client_sockets EXCEPT ![index] = -1]
           /\ peer' = peer /\ client[accepted + 1] = "gone"
    BY <1>3, <2>6, Zenon DEF Accept
  <2>9. OneFd'
    BY <1>1, <1>2, <2>1, <2>4, <2>5, <2>7, <2>8 DEF OneFd, DataTypes, FirstFd
  <2>10. FirstInArray'
    <3>1. client_count <= index /\ client_count \in Int /\ index \in Int
      BY <1>2, <2>1, <2>3 DEF FirstInArray, Counts
    <3>2. \A i \in Indices : i < index => client_sockets'[i] = FirstFd
      <4>1. \A i \in Indices : i < index => i # index
        BY <3>1 DEF Indices
      <4>2. \A i \in Indices : i # index => client_sockets'[i] = client_sockets[i]
        BY <1>2, <2>8 DEF DataTypes
      <4> QED
        BY <2>1, <2>3, <4>1, <4>2 DEF FirstInArray
    <3>3. client_sockets'[index] \in {FirstFd, -1}
      BY <1>2, <2>4, <2>8 DEF DataTypes
    <3>4. \A i \in Indices : i < client_count => i < index
      BY <3>1 DEF Indices
    <3> QED
      BY <2>1, <3>1, <3>2, <3>3, <3>4 DEF FirstInArray
  <2> QED
    BY <2>7, <2>9, <2>10
<1>4. CASE ~Accept
  <2>1. /\ UNCHANGED <<client_sockets, accepted, overlap, peer>> /\ torn' \in {torn, 1}
    BY <1>4 DEF Main, EvalIndex, CheckAccepted, CreateThread, LoadForIncrement, Increment, CheckLimit,
       mainVars, counter
  <2>2. Alone /\ OneThread /\ OneFd /\ FirstInArray /\ FirstHeld
    BY <2>1 DEF AloneInv, Alone
  <2>3. CASE CreateThread
    <3>1. main = "create" /\ NoneLive /\ UNCHANGED <<index, client_count>>
      BY <2>2, <2>3, Zenon DEF CreateThread, OneThread, NoneLive, mainVars, counter
    <3>2. CASE main' \in {"undefined", "over"} /\ UNCHANGED <<slot, pc>>
      BY <1>1, <2>1, <2>2, <3>1, <3>2
         DEF OneThread, OneFd, FirstInArray, FirstHeld, NoneLive, Live
    <3>3. CASE /\ client_count >= 0 /\ main' = "load"
               /\ slot' = [slot EXCEPT ![accepted] = client_count]
               /\ pc' = [pc EXCEPT ![accepted] = "start"]
      <4>1. accepted \in Conns
        BY <1>2, <3>1 DEF Created
      <4>2. pc'[accepted] = "start" /\ slot'[accepted] = client_count
        BY <1>2, <3>3, <4>1 DEF Created, DataTypes
      <4>3. \A n \in Conns : n # accepted => ~Live(n)'
        BY <1>2, <3>1, <3>3 DEF NoneLive, Live, Created
      <4>4. ~NoneLive' /\ OneThread'
        BY <2>1, <3>3, <4>1, <4>2, <4>3 DEF NoneLive, Live, OneThread
      <4>5. FirstHeld'
        <5>1. client_sockets[client_count] = FirstFd
          BY <2>2, <3>1, <3>3 DEF FirstInArray
        <5> QED
          BY <2>1, <4>2, <4>3, <5>1, Zenon DEF FirstHeld, Live
      <4> QED
        BY <1>1, <2>1, <2>2, <3>1, <3>3, <4>4, <4>5 DEF OneFd, FirstInArray
    <3> QED
      BY <2>3, <3>2, <3>3, Zenon DEF CreateThread
  <2>4. CASE EvalIndex \/ CheckAccepted \/ LoadForIncrement \/ Increment \/ CheckLimit
    <3>1. UNCHANGED <<slot, pc>>
      BY <2>4, Zenon DEF EvalIndex, CheckAccepted, LoadForIncrement, Increment, CheckLimit
    <3>2. FirstHeld' /\ (NoneLive' <=> NoneLive) /\ \A n : Live(n)' <=> Live(n)
      BY <1>1, <2>1, <2>2, <3>1 DEF FirstHeld, NoneLive, Live
    <3>3. \/ main = "index" /\ main' \in {"undefined", "accept"}
          \/ main = "check" /\ main' \in {"undefined", "over", "create"}
          \/ main = "load" /\ main' = "increment"
          \/ main = "increment" /\ main' = "limit"
          \/ main = "limit" /\ main' \in {"over", "index"}
      BY <2>4, Zenon DEF EvalIndex, CheckAccepted, LoadForIncrement, Increment, CheckLimit
    <3>4. OneThread' /\ OneFd'
      BY <1>1, <2>1, <2>2, <3>2, <3>3 DEF OneThread, OneFd
    <3>5. FirstInArray'
      <4>1. CASE EvalIndex
        BY <1>2, <2>1, <2>2, <4>1 DEF EvalIndex, FirstInArray, counter, Counts
      <4>2. CASE CheckAccepted
        <5>1. UNCHANGED <<index, client_count>> /\ main = "check"
          BY <4>2, Zenon DEF CheckAccepted, mainVars, counter
        <5>2. CASE main' = "create"
          <6>1. client_count >= 0 /\ ~(client_sockets[client_count] < 0)
            <7>1. main' = IF client_count < 0 THEN "undefined"
                          ELSE IF client_sockets[client_count] < 0 THEN "over" ELSE "create"
              BY <4>2, Zenon DEF CheckAccepted
            <7>2. ~(client_count < 0) /\ ~(client_sockets[client_count] < 0)
              BY <5>2, <7>1
            <7> QED
              BY <1>2, <7>2 DEF Counts
          <6>2. client_count \in Indices
            BY <1>2, <5>1, <6>1, ServerAssumption DEF IndexInv, Counts, IndexInArray, Indices
          <6>3. client_sockets[client_count] = FirstFd
            BY <1>2, <2>2, <5>1, <6>1, <6>2 DEF FirstInArray, FirstFd, Counts
          <6> QED
            BY <2>1, <2>2, <5>1, <5>2, <6>3 DEF FirstInArray
        <5>3. CASE main' # "create"
          <6>1. main' \in {"undefined", "over"}
            BY <3>3, <5>1, <5>3
          <6> QED
            BY <2>1, <2>2, <5>1, <6>1 DEF FirstInArray
        <5> QED
          BY <5>2, <5>3
      <4>3. CASE LoadForIncrement
        BY <2>1, <2>2, <4>3 DEF LoadForIncrement, FirstInArray, counter
      <4>4. CASE Increment
        <5>1. client_count' = client_count + 1 /\ main = "increment" /\ main' = "limit"
          BY <4>4 DEF Increment, Alone
        <5> QED
          BY <1>2, <2>1, <2>2, <5>1 DEF FirstInArray, Counts, Indices
      <4>5. CASE CheckLimit
        BY <2>1, <2>2, <4>5 DEF CheckLimit, FirstInArray, mainVars, counter
      <4> QED
        BY <2>4, <4>1, <4>2, <4>3, <4>4, <4>5
    <3> QED
      BY <3>2, <3>4, <3>5
  <2> QED
    BY <1>4, <2>3, <2>4, Zenon DEF Main
<1> QED
  BY <1>3, <1>4

LEMMA HandlerAlone ==
  ASSUME ServerInv, AloneInv, NEW n \in Conns, Handler(n), Alone'
  PROVE  (OneThread /\ OneFd /\ FirstInArray /\ FirstHeld)'
<1>1. /\ UNCHANGED <<index, accepted, client_sockets, client, overlap>>
      /\ main' \in {main, "over"}
  BY Zenon DEF Handler, HandlerStep, mainVars, clientVars, ReadSlot, CallRead, Message, EndOfFile,
     ReadError, Reply, LoadForDecrement, Decrement, Close
<1>2. torn' \in {torn, 1}
  BY DEF Handler, ReadSlot, CallRead, Message, EndOfFile, ReadError, Reply, LoadForDecrement,
     Decrement, Close, counter
<1>3. Alone /\ OneThread /\ OneFd /\ FirstInArray /\ FirstHeld
  BY <1>1, <1>2 DEF Alone, AloneInv
<1>4. DataTypes /\ Counts /\ Created
  BY DEF ServerInv, CountInv
<1>5. pc[n] \notin {"none", "done"} /\ \E there \in States \ {"none", "start"} : pc' = [pc EXCEPT ![n] = there]
  BY DEF Handler, HandlerStep, States, ReadSlot, CallRead, Message, EndOfFile,
     ReadError, Reply, LoadForDecrement, Decrement, Close
<1>6. n = accepted /\ main \notin {"check", "create"} /\ \A m \in Conns : m # n => ~Live(m) /\ ~Live(m)'
  BY <1>3, <1>4, <1>5 DEF OneThread, Live, Created
<1>7. OneThread' /\ ~NoneLive
  BY <1>1, <1>5, <1>6 DEF OneThread, NoneLive, Live
<1>8. FirstInArray'
  <2>1. CASE Decrement(n)
    <3>1. client_count' = client_count - 1
      BY <2>1 DEF Decrement, Alone
    <3>2. \A i \in Indices : i < client_count' => i < client_count
      BY <1>4, <3>1 DEF Counts, Indices
    <3>3. client_count' >= 0 => client_count' \in Indices /\ client_count' < client_count
      BY <1>4, <3>1, ServerAssumption DEF Counts, Indices, ServerInv, IndexInv, IndexInArray
    <3>4. main = "accept" => client_count' <= index
      BY <1>3, <1>4, <3>1 DEF FirstInArray, Counts
    <3> QED
      BY <1>1, <1>3, <1>6, <3>2, <3>3, <3>4 DEF FirstInArray
  <2>2. CASE ~Decrement(n)
    <3>1. client_count' = client_count
      BY <2>2, Zenon DEF Handler, ReadSlot, CallRead, Message, EndOfFile, ReadError, Reply,
         LoadForDecrement, Close, counter
    <3> QED
      BY <1>1, <1>3, <3>1 DEF FirstInArray
  <2> QED
    BY <2>1, <2>2
<1>9. CASE Close(n)
  <2>1. /\ peer' = Closed(client_socket[n]) /\ pc[n] = "close" /\ pc' = [pc EXCEPT ![n] = "done"]
    BY <1>9, Zenon DEF Close, HandlerStep
  <2>2. client_socket[n] = FirstFd
    BY <1>3, <2>1 DEF FirstHeld, Live
  <2>3. \A f \in Fds : peer'[f] = 0
    BY <1>3, <1>4, <2>1, <2>2 DEF Closed, OneFd, DataTypes
  <2>4. NoneLive'
    BY <1>4, <1>6, <2>1 DEF NoneLive, Live, Created
  <2>5. OneFd'
    BY <1>1, <1>6, <2>3, <2>4 DEF OneFd
  <2>6. FirstHeld'
    BY <2>4 DEF FirstHeld, NoneLive, Live
  <2> QED
    BY <1>7, <1>8, <2>5, <2>6
<1>10. CASE ReadSlot(n)
  <2>1. /\ client_socket' = [client_socket EXCEPT ![n] = client_sockets[slot[n]]]
        /\ pc[n] = "start" /\ pc' = [pc EXCEPT ![n] = "call"] /\ UNCHANGED <<slot, peer>>
    BY <1>10, Zenon DEF ReadSlot, HandlerStep
  <2>2. client_sockets[slot[n]] = FirstFd
    BY <1>3, <2>1 DEF FirstHeld
  <2>3. client_socket'[n] = FirstFd /\ pc'[n] = "call" /\ Live(n)'
    BY <1>4, <2>1, <2>2 DEF DataTypes, Created, Live
  <2>4. FirstHeld'
    BY <1>6, <2>3 DEF FirstHeld, Live
  <2>5. OneFd'
    BY <1>1, <1>3, <1>7, <2>1, <2>3 DEF OneFd, NoneLive
  <2> QED
    BY <1>7, <1>8, <2>4, <2>5
<1>11. CASE ~Close(n) /\ ~ReadSlot(n)
  <2>1. UNCHANGED <<client_socket, peer>> /\ pc[n] # "start" /\ pc'[n] \notin {"none", "done", "start"}
    <3>1. UNCHANGED <<client_socket, peer>>
      BY <1>11, Zenon DEF Handler, CallRead, Message, EndOfFile, ReadError, Reply,
         LoadForDecrement, Decrement, locals
    <3>2. pc[n] # "start" /\ \E there \in States \ {"none", "done", "start"} : pc' = [pc EXCEPT ![n] = there]
      BY <1>11 DEF Handler, HandlerStep, States, CallRead, Message, EndOfFile, ReadError, Reply,
         LoadForDecrement, Decrement
    <3> QED
      BY <1>4, <3>1, <3>2 DEF Created
  <2>2. Live(n) /\ Live(n)'
    BY <1>5, <2>1 DEF Live
  <2>3. FirstHeld'
    BY <1>3, <1>6, <2>1, <2>2 DEF FirstHeld, Live
  <2>4. OneFd'
    BY <1>1, <1>3, <1>7, <2>1, <2>2 DEF OneFd, NoneLive
  <2> QED
    BY <1>7, <1>8, <2>3, <2>4
<1> QED
  BY <1>9, <1>10, <1>11

\* A client that is gone stays away.
LEMMA GoneForEver ==
  ASSUME DataTypes, Connect \/ \E n \in Conns : Client(n)
  PROVE  \A n \in Conns : client[n] = "gone" => client'[n] = "gone"
  BY DEF DataTypes, Connect, Client, Send, Receive, Leave, ClientStep

LEMMA AloneNext == ServerInv /\ AloneInv /\ [Next]_vars => AloneInv'
<1> SUFFICES ASSUME ServerInv, AloneInv, [Next]_vars, Alone'
             PROVE  (OneThread /\ OneFd /\ FirstInArray /\ FirstHeld)'
  BY DEF AloneInv
<1>1. CASE Main
  BY <1>1, MainAlone
<1>2. ASSUME NEW n \in Conns, Handler(n)
      PROVE  (OneThread /\ OneFd /\ FirstInArray /\ FirstHeld)'
  BY <1>2, HandlerAlone
<1>3. CASE Connect \/ (\E n \in Conns : Client(n)) \/ UNCHANGED vars
  <2>1. UNCHANGED <<main, index, accepted, client_sockets, overlap, torn, client_count, pc, slot,
                    client_socket, peer>>
    BY <1>3, Zenon DEF Connect, Client, Send, Receive, Leave, ClientStep,
       vars, mainVars, handlerVars, locals, counter
  <2>2. accepted \in Conns /\ client[accepted] = "gone" => client'[accepted] = "gone"
    BY <1>3, GoneForEver, Zenon DEF ServerInv, vars, clientVars
  <2>3. OneThread /\ OneFd /\ FirstInArray /\ FirstHeld
    BY <2>1 DEF AloneInv, Alone
  <2>4. (main \in {"check", "create"} \/ ~NoneLive) => accepted \in Conns
    BY <2>3 DEF OneThread, NoneLive, ServerInv, CountInv, Created
  <2> QED
    BY <2>1, <2>2, <2>3, <2>4 DEF OneThread, OneFd, FirstInArray, FirstHeld, NoneLive, Live
<1> QED
  BY <1>1, <1>2, <1>3, Zenon DEF Next

(***************************************************************************)
(* OwnClient, the other exception: as long as nobody closes a connection,  *)
(* client_count only grows, so main's three reads of it agree.             *)
(***************************************************************************)
Own(f, n) == f \in Fds /\ peer[f] = n

CountGrows ==
  /\ main \in {"index", "accept", "limit"} => client_count = accepted
  /\ main \in {"check", "create", "load", "increment"} => client_count = accepted - 1
  /\ main \in {"accept", "check", "create", "increment"} => index = client_count

MainOwns ==
  /\ main = "check" => client_sockets[index] = -1 \/ Own(client_sockets[index], accepted)
  /\ main = "create" => Own(client_sockets[index], accepted)

ThreadOwns(n) ==
  /\ pc[n] = "start" => slot[n] = n - 1 /\ Own(client_sockets[slot[n]], n)
  /\ Live(n) /\ pc[n] # "start" => Own(client_socket[n], n)

StayInv == closed = {} => CountGrows /\ MainOwns /\ \A n \in Conns : ThreadOwns(n)

LEMMA StayInit == Init => StayInv
  BY DEF Init, StayInv, CountGrows, MainOwns, ThreadOwns, Live

LEMMA MainStays ==
  ASSUME ServerInv, StayInv, Main, closed' = {}
  PROVE  (CountGrows /\ MainOwns /\ \A n \in Conns : ThreadOwns(n))'
<1>1. UNCHANGED <<client_socket, closed>>
  BY Zenon DEF Main, locals
<1>2. DataTypes /\ IndexInv /\ Counts /\ Created /\ IndexNotBelow /\ PeersApart
  BY DEF ServerInv, CountInv
<1>3. CountGrows /\ MainOwns /\ \A n \in Conns : ThreadOwns(n)
  BY <1>1 DEF StayInv
<1>4. CASE Accept
  <2>1. /\ main = "accept" /\ main' = "check" /\ accepted' = accepted + 1 /\ accepted < arrived
        /\ UNCHANGED <<index, pc, slot, client_count>>
    BY <1>4, Zenon DEF Accept, ConnectionWaits, counter
  <2>2. accepted \in Nat /\ accepted < MaxConns
    BY <1>2, <2>1, ServerAssumption DEF Created
  <2>3. LowestFree \in Fds /\ peer[LowestFree] = 0
    BY <1>2, <2>2, FreeLeft DEF Frees
  <2>4. CountGrows'
    BY <1>3, <2>1, <2>2 DEF CountGrows
  <2>5. index = accepted /\ index \in Indices
    BY <1>2, <1>3, <2>1, ServerAssumption DEF CountGrows, IndexInv, IndexInArray, Indices, Counts, IndexNotBelow
  <2>6. PICK x : /\ client_sockets' = [client_sockets EXCEPT ![index] = x]
                 /\ \/ x = LowestFree /\ peer' = [peer EXCEPT ![x] = accepted + 1]
                    \/ x = -1 /\ peer' = peer
    BY <1>4, Zenon DEF Accept
  <2>7. client_sockets'[index] = x /\ \A k \in Indices : k # index => client_sockets'[k] = client_sockets[k]
    BY <1>2, <2>5, <2>6 DEF DataTypes
  <2>8. MainOwns'
    BY <1>2, <2>1, <2>3, <2>6, <2>7 DEF MainOwns, Own, DataTypes
  <2>9. \A f, m : Own(f, m) /\ m # 0 => Own(f, m)'
    BY <1>2, <2>3, <2>6 DEF Own, DataTypes
  <2>10. ASSUME NEW n \in Conns PROVE ThreadOwns(n)'
    <3>1. ThreadOwns(n) /\ n # 0 /\ n \in Nat
      BY <1>3, ServerAssumption DEF Conns
    <3>2. CASE pc[n] = "start"
      <4>1. n <= accepted
        BY <1>2, <3>1, <3>2 DEF Created
      <4>2. slot[n] = n - 1 /\ slot[n] # index /\ slot[n] \in Indices
        BY <1>2, <2>2, <2>5, <3>1, <3>2, <4>1 DEF ThreadOwns, DataTypes
      <4>3. client_sockets'[slot[n]] = client_sockets[slot[n]]
        BY <2>7, <4>2
      <4> QED
        BY <2>1, <2>9, <3>1, <3>2, <4>2, <4>3 DEF ThreadOwns
    <3>3. CASE pc[n] # "start"
      BY <1>1, <2>1, <2>9, <3>1, <3>3 DEF ThreadOwns, Live
    <3> QED
      BY <3>2, <3>3
  <2> QED
    BY <2>4, <2>8, <2>10
<1>5. CASE CreateThread
  <2>1. main = "create" /\ UNCHANGED <<index, client_sockets, accepted, client_count, peer>>
    BY <1>5, Zenon DEF CreateThread, mainVars, counter
  <2>2. CASE main' \in {"undefined", "over"} /\ UNCHANGED <<slot, pc>>
    BY <1>1, <1>3, <2>1, <2>2 DEF CountGrows, MainOwns, ThreadOwns, Live, Own
  <2>3. CASE /\ main' = "load"
             /\ slot' = [slot EXCEPT ![accepted] = client_count]
             /\ pc' = [pc EXCEPT ![accepted] = "start"]
    <3>1. accepted \in Conns /\ client_count = accepted - 1 /\ index = client_count /\ Own(client_sockets[index], accepted)
      BY <1>2, <1>3, <2>1 DEF Created, CountGrows, MainOwns
    <3>2. pc'[accepted] = "start" /\ slot'[accepted] = accepted - 1
      BY <1>2, <2>3, <3>1 DEF Created, DataTypes
    <3>3. ThreadOwns(accepted)'
      BY <2>1, <3>1, <3>2 DEF ThreadOwns, Own
    <3>4. ASSUME NEW n \in Conns, n # accepted PROVE ThreadOwns(n)'
      <4>1. pc'[n] = pc[n] /\ slot'[n] = slot[n]
        BY <1>2, <2>3, <3>4 DEF Created, DataTypes
      <4> QED
        BY <1>1, <1>3, <2>1, <4>1 DEF ThreadOwns, Live, Own
    <3>5. CountGrows' /\ MainOwns'
      BY <1>3, <2>1, <2>3 DEF CountGrows, MainOwns
    <3>6. ASSUME NEW n \in Conns PROVE ThreadOwns(n)'
      <4>1. CASE n = accepted
        BY <2>1, <3>3, <4>1 DEF ThreadOwns, Live, Own
      <4>2. CASE n # accepted
        BY <3>4, <4>2
      <4> QED
        BY <4>1, <4>2
    <3> QED
      BY <3>5, <3>6
  <2> QED
    BY <1>5, <2>2, <2>3, Zenon DEF CreateThread
<1>6. CASE EvalIndex \/ CheckAccepted \/ LoadForIncrement \/ Increment \/ CheckLimit
  <2>1. UNCHANGED <<client_sockets, accepted, pc, slot, peer>>
    BY <1>6, Zenon DEF EvalIndex, CheckAccepted, LoadForIncrement, Increment, CheckLimit, mainVars
  <2>2. \A n \in Conns : ThreadOwns(n)'
    BY <1>1, <1>3, <2>1 DEF ThreadOwns, Live, Own
  <2>3. CASE EvalIndex
    <3>1. main = "index" /\ main' \in {"undefined", "accept"} /\ index' = client_count /\ UNCHANGED client_count
      BY <2>3, Zenon DEF EvalIndex, counter
    <3> QED
      BY <1>3, <2>1, <2>2, <3>1 DEF CountGrows, MainOwns
  <2>4. CASE CheckAccepted
    <3>1. /\ main = "check" /\ UNCHANGED <<index, client_count>> /\ main' \in {"undefined", "over", "create"}
          /\ main' = IF client_count < 0 THEN "undefined"
                     ELSE IF client_sockets[client_count] < 0 THEN "over" ELSE "create"
      BY <2>4, Zenon DEF CheckAccepted, mainVars, counter
    <3>2. main' = "create" => ~(client_sockets[index] < 0)
      BY <1>3, <3>1 DEF CountGrows
    <3>3. MainOwns'
      BY <1>3, <2>1, <3>1, <3>2 DEF MainOwns, Own
    <3> QED
      BY <1>3, <2>1, <2>2, <3>1, <3>3 DEF CountGrows
  <2>5. CASE LoadForIncrement
    <3>1. main = "load" /\ main' = "increment" /\ index' = client_count /\ UNCHANGED client_count
      BY <2>5, Zenon DEF LoadForIncrement, counter
    <3> QED
      BY <1>3, <2>1, <2>2, <3>1 DEF CountGrows, MainOwns
  <2>6. CASE Increment
    <3>1. main = "increment" /\ main' = "limit" /\ client_count' = index + 1
      BY <2>6, Zenon DEF Increment
    <3> QED
      BY <1>2, <1>3, <2>1, <2>2, <3>1 DEF CountGrows, MainOwns, Created, Counts
  <2>7. CASE CheckLimit
    BY <1>3, <2>1, <2>2, <2>7 DEF CheckLimit, counter, mainVars, CountGrows, MainOwns
  <2> QED
    BY <1>6, <2>3, <2>4, <2>5, <2>6, <2>7
<1> QED
  BY <1>4, <1>5, <1>6, Zenon DEF Main

LEMMA HandlerStays ==
  ASSUME ServerInv, StayInv, NEW n \in Conns, Handler(n), closed' = {}
  PROVE  (CountGrows /\ MainOwns /\ \A m \in Conns : ThreadOwns(m))'
<1>1. /\ UNCHANGED <<index, accepted, client_sockets>>
      /\ main' \in {main, "over"}
  BY Zenon DEF Handler, HandlerStep, mainVars, clientVars, ReadSlot, CallRead, Message, EndOfFile,
     ReadError, Reply, LoadForDecrement, Decrement, Close
<1>2. closed = {}
  BY DEF Handler, ReadSlot, CallRead, Message, EndOfFile, ReadError, Reply, LoadForDecrement,
     Decrement, Close
<1>3. CountGrows /\ MainOwns /\ \A m \in Conns : ThreadOwns(m)
  BY <1>2 DEF StayInv
<1>4. DataTypes /\ Created /\ PeersApart /\ ClosedOnce
  BY DEF ServerInv, CountInv
<1>5. ~Decrement(n)
  BY <1>2, <1>4 DEF Decrement, HandlerStep, ClosedOnce
<1>6. CountGrows'
  <2>1. client_count' = client_count
    BY <1>5, Zenon DEF Handler, ReadSlot, CallRead, Message, EndOfFile, ReadError, Reply,
       LoadForDecrement, Close, counter
  <2> QED
    BY <1>1, <1>3, <2>1 DEF CountGrows
<1>7. Live(n) /\ \E there \in States \ {"none", "start"} : pc' = [pc EXCEPT ![n] = there]
  BY DEF Handler, HandlerStep, States, ReadSlot, CallRead, Message, EndOfFile,
     ReadError, Reply, LoadForDecrement, Decrement, Close, Live
<1>8. \A m \in Conns : m # n => pc'[m] = pc[m]
  BY <1>4, <1>7 DEF Created
<1>9. pc'[n] \notin {"none", "start"}
  BY <1>4, <1>7 DEF Created
<1>10. CASE Close(n)
  <2>1. /\ peer' = Closed(client_socket[n]) /\ pc[n] = "close" /\ pc' = [pc EXCEPT ![n] = "done"]
        /\ slot' = [slot EXCEPT ![n] = 0] /\ client_socket' = [client_socket EXCEPT ![n] = -1]
    BY <1>10, Zenon DEF Close, HandlerStep
  <2>2. Own(client_socket[n], n)
    BY <1>3, <1>7, <2>1 DEF ThreadOwns
  <2>3. \A f, m : Own(f, m) /\ m # n => Own(f, m)'
    BY <1>4, <2>1, <2>2 DEF Own, Closed, DataTypes
  <2>4. main \in {"check", "create"} => accepted # n
    BY <1>4, <2>1 DEF Created
  <2>5. MainOwns'
    BY <1>1, <1>3, <2>3, <2>4 DEF MainOwns
  <2>6. \A m \in Conns : m # n => client_socket'[m] = client_socket[m] /\ slot'[m] = slot[m]
    BY <1>4, <2>1 DEF DataTypes
  <2>7. \A m \in Conns : m # n => ThreadOwns(m)'
    BY <1>1, <1>3, <1>8, <2>3, <2>6 DEF ThreadOwns, Live
  <2>8. pc'[n] = "done"
    BY <1>4, <2>1 DEF Created
  <2>9. ThreadOwns(n)'
    BY <2>8 DEF ThreadOwns, Live
  <2> QED
    BY <1>6, <2>5, <2>7, <2>9
<1>11. CASE ~Close(n)
  <2>1. UNCHANGED <<slot, peer>> /\ \A f, m : Own(f, m)' <=> Own(f, m)
    <3>1. UNCHANGED <<slot, peer>>
      BY <1>5, <1>11, Zenon DEF Handler, ReadSlot, CallRead, Message, EndOfFile, ReadError, Reply,
         LoadForDecrement
    <3> QED
      BY <3>1 DEF Own
  <2>2. MainOwns'
    BY <1>1, <1>3, <2>1 DEF MainOwns
  <2>3. CASE ReadSlot(n)
    <3>1. client_socket' = [client_socket EXCEPT ![n] = client_sockets[slot[n]]] /\ pc[n] = "start"
      BY <2>3, Zenon DEF ReadSlot, HandlerStep
    <3>2. Own(client_socket'[n], n)
      BY <1>3, <1>4, <3>1 DEF ThreadOwns, DataTypes
    <3>3. ThreadOwns(n)'
      BY <1>9, <2>1, <3>2 DEF ThreadOwns
    <3>4. \A m \in Conns : m # n => client_socket'[m] = client_socket[m]
      BY <1>4, <3>1 DEF DataTypes
    <3>5. \A m \in Conns : m # n => ThreadOwns(m)'
      BY <1>1, <1>3, <1>8, <2>1, <3>4 DEF ThreadOwns, Live
    <3> QED
      BY <1>6, <2>2, <3>3, <3>5
  <2>4. CASE ~ReadSlot(n)
    <3>1. client_socket' = client_socket
      BY <1>5, <1>11, <2>4, Zenon DEF Handler, CallRead, Message, EndOfFile, ReadError, Reply,
         LoadForDecrement, locals
    <3>2. pc[n] # "start"
      BY <1>5, <1>11, <2>4 DEF Handler, HandlerStep, CallRead, Message, EndOfFile, ReadError, Reply,
         LoadForDecrement
    <3>3. ThreadOwns(n)'
      BY <1>3, <1>7, <1>9, <2>1, <3>1, <3>2 DEF ThreadOwns
    <3>4. \A m \in Conns : m # n => ThreadOwns(m)'
      BY <1>1, <1>3, <1>8, <2>1, <3>1 DEF ThreadOwns, Live
    <3> QED
      BY <1>6, <2>2, <3>3, <3>4
  <2> QED
    BY <2>3, <2>4
<1> QED
  BY <1>10, <1>11

LEMMA StayNext == ServerInv /\ StayInv /\ [Next]_vars => StayInv'
<1> SUFFICES ASSUME ServerInv, StayInv, [Next]_vars, closed' = {}
             PROVE  (CountGrows /\ MainOwns /\ \A n \in Conns : ThreadOwns(n))'
  BY DEF StayInv
<1>1. CASE Main
  BY <1>1, MainStays
<1>2. ASSUME NEW n \in Conns, Handler(n)
      PROVE  (CountGrows /\ MainOwns /\ \A m \in Conns : ThreadOwns(m))'
  BY <1>2, HandlerStays
<1>3. CASE Connect \/ (\E n \in Conns : Client(n)) \/ UNCHANGED vars
  <2>1. UNCHANGED <<main, index, accepted, client_sockets, client_count, pc, slot, closed,
                    client_socket, peer>>
    BY <1>3, Zenon DEF Connect, Client, Send, Receive, Leave, ClientStep,
       vars, mainVars, handlerVars, locals, counter
  <2> QED
    BY <2>1 DEF StayInv, CountGrows, MainOwns, ThreadOwns, Live, Own
<1> QED
  BY <1>1, <1>2, <1>3, Zenon DEF Next

(* While nobody closes a connection, or there never are two at once, a thread serves   *)
(* the connection it was created for; for any length of client_sockets and any number  *)
(* of connections.                                                                      *)
THEOREM OwnServed == Spec => []OwnClient
<1>1. ServerInv /\ AloneInv /\ StayInv => OwnClient
  <2> SUFFICES ASSUME ServerInv, AloneInv, StayInv, ~Excused, NEW n \in Conns,
                      pc[n] \in {"call", "read", "reply", "load", "decrement"}
               PROVE  PeerOf(client_socket[n]) \in {n} \cup (IF client[n] = "gone" THEN {0} ELSE {})
    BY DEF OwnClient, HandlesItsClient
  <2>1. Live(n) /\ pc[n] # "start"
    BY DEF Live
  <2>2. CASE closed = {}
    BY <2>1, <2>2 DEF StayInv, ThreadOwns, Own, PeerOf
  <2>3. CASE closed # {}
    <3>1. Alone
      BY <2>3 DEF Excused, Alone, ServerInv, DataTypes
    <3>2. n = accepted /\ client_socket[n] = FirstFd /\ ~NoneLive
      BY <2>1, <3>1 DEF AloneInv, OneThread, FirstHeld, NoneLive
    <3>3. peer[FirstFd] = n \/ (peer[FirstFd] = 0 /\ client[n] = "gone")
      BY <3>1, <3>2 DEF AloneInv, OneFd
    <3>4. FirstFd \in Fds
      BY ServerAssumption DEF Fds, Conns, FirstFd
    <3> QED
      BY <3>2, <3>3, <3>4 DEF PeerOf
  <2> QED
    BY <2>2, <2>3
<1> QED
  BY <1>1, ServerInit, ServerNext, AloneInit, AloneNext, StayInit, StayNext, PTL DEF Spec
=============================================================================
