--------------------------- MODULE ServerListProofs ---------------------------
(***************************************************************************)
(* How the list of servers comes about: what get_http_file leaves of a     *)
(* response in the file (HttpFetch), for responses of any size and any     *)
(* cuts, and the table that get_nearest_server fills from the list         *)
(* (NearestServers), for any list and any size of the table.               *)
(***************************************************************************)
EXTENDS HttpFetch, NearestServers, FiniteSetTheorems, TLAPS

-----------------------------------------------------------------------------
(* The file. *)

LEMMA FetchTypeInit == FetchInit => FetchTypeOK
  BY FetchAssumption, SMT DEF FetchInit, FetchTypeOK

\* What one recv can write is what it took.
LEMMA ChunkFacts ==
  ASSUME FetchTypeOK, NEW k \in 1..Buffer, received + k <= size
  PROVE  /\ received + k \in 0..size
         /\ Chunk(k) \subseteq 1..(received + k)
         /\ AfterMark(k) \subseteq Chunk(k)
<1>1. received \in Nat /\ k \in Nat /\ size \in Nat
  BY FetchAssumption, SMT DEF FetchTypeOK
<1>2. Chunk(k) \subseteq 1..(received + k)
  BY <1>1, SMT DEF Chunk
<1>3. AfterMark(k) \subseteq Chunk(k)
  BY Zenon DEF AfterMark
<1> QED
  BY <1>1, <1>2, <1>3, SMT

\* The ways a recv can end, as one formula.
LEMMA ReceiveEffect ==
  ASSUME NEW k \in 1..Buffer, Receive(k)
  PROVE  /\ file' = file \/ file' = file \cup AfterMark(k)
         /\ junk' = junk \/ junk' = 1
         /\ late' = late \/ late' = late \cup Chunk(k)
         /\ overrun' = overrun \/ overrun' = overrun \cup Chunk(k)
  BY Zenon DEF Receive, Write, WriteUnterminated, Drop

LEMMA FetchTypeNext == FetchTypeOK /\ [FetchNext]_fetchVars => FetchTypeOK'
<1> SUFFICES ASSUME FetchTypeOK, [FetchNext]_fetchVars PROVE FetchTypeOK'
  OBVIOUS
<1>1. ASSUME NEW k \in 1..Buffer, Receive(k) PROVE FetchTypeOK'
  <2>1. /\ received + k \in 0..size
        /\ Chunk(k) \subseteq 1..(received + k)
        /\ AfterMark(k) \subseteq 1..(received + k)
    BY <1>1, ChunkFacts, Zenon DEF Receive
  <2>2. \A S : S \subseteq 1..received => S \subseteq 1..(received + k)
    BY FetchAssumption, SMT DEF FetchTypeOK
  <2>3. /\ file' \subseteq 1..(received + k) /\ late' \subseteq 1..(received + k)
        /\ overrun' \subseteq 1..(received + k) /\ junk' \in {0, 1}
    BY <1>1, <2>1, <2>2, ReceiveEffect, Zenon DEF FetchTypeOK
  <2>4. received + k \in 1..(received + k)
    BY FetchAssumption, SMT DEF FetchTypeOK
  <2>5. cuts' \subseteq 1..(received + k)
    BY <1>1, <2>2, <2>4, Zenon DEF Receive, FetchTypeOK
  <2>6. received' = received + k /\ UNCHANGED <<size, header, blanks, protocol, state>>
    BY <1>1, Zenon DEF Receive, response
  <2> QED
    BY <2>1, <2>3, <2>5, <2>6, Zenon DEF FetchTypeOK
<1>2. CASE \/ NoConnection \/ OpenFails \/ OpenFile \/ EndOfResponse \/ ReceiveError
           \/ UNCHANGED fetchVars
  <2>1. UNCHANGED <<size, header, blanks, protocol, received, file, junk, late, overrun, cuts>>
    BY <1>2, Zenon DEF NoConnection, OpenFails, OpenFile, EndOfResponse, ReceiveError,
       fetchVars, response, history
  <2>2. state' = state \/ state' \in {"receive", "0", "1", "crashed"}
    BY <1>2, Zenon DEF NoConnection, OpenFails, OpenFile, EndOfResponse, ReceiveError, fetchVars
  <2>3. state' \in {"connect", "receive", "0", "1", "crashed"}
    BY <2>2, Zenon DEF FetchTypeOK
  <2> QED
    BY <2>1, <2>3, Zenon DEF FetchTypeOK
<1> QED
  BY <1>1, <1>2, Zenon DEF FetchNext, FetchTerminated

(* Every variable keeps its type; nothing is in the file that was not received. *)
THEOREM FetchTyping == FetchSpec => []FetchTypeOK
  BY FetchTypeInit, FetchTypeNext, PTL DEF FetchSpec

(***************************************************************************)
(* What is missing from the file.                                          *)
(***************************************************************************)
Excused(p) ==
  p \in late \/ p \in overrun \/ \E t \in blanks : p <= t /\ t < p + Buffer

LEMMA KeptStep ==
  ASSUME FetchTypeOK, BodyKept, NEW k \in 1..Buffer, Receive(k)
  PROVE  BodyKept'
<1> SUFFICES ASSUME NEW p \in Body, p <= received + k, p \notin file' PROVE Excused(p)'
  <2>1. Body' = Body /\ received' = received + k
    BY Zenon DEF Receive, response, Body
  <2> QED
    BY <2>1, Zenon DEF BodyKept, Excused
<1>1. file \subseteq file' /\ late \subseteq late' /\ overrun \subseteq overrun' /\ blanks' = blanks
  BY ReceiveEffect, Zenon DEF Receive, response
<1>2. p \in Nat /\ received \in Nat /\ k \in Nat /\ header \in Nat /\ header < p
  BY FetchAssumption, SMT DEF Body, FetchTypeOK
<1>3. CASE p <= received
  <2>1. Excused(p)
    BY <1>1, <1>3, Zenon DEF BodyKept, Excused
  <2> QED
    BY <1>1, <2>1, Zenon DEF Excused
<1>4. CASE p > received
  <2>1. p \in Chunk(k)
    BY <1>2, <1>4, SMT DEF Chunk
  <2>2. CASE Drop(k)
    BY <2>1, <2>2, Zenon DEF Drop, Excused
  <2>3. CASE WriteUnterminated(k)
    BY <2>1, <2>3, Zenon DEF WriteUnterminated, Excused
  <2>4. CASE Write(k)
    <3>1. p \notin AfterMark(k)
      BY <2>4, Zenon DEF Write
    <3>2. PICK t \in MarkEnds(k) : ~(t < p)
      BY <2>1, <3>1, Zenon DEF AfterMark
    <3>3. t \in {header} \cup blanks /\ t \in Chunk(k)
      BY Zenon DEF MarkEnds
    <3>4. t \in Nat /\ t <= received + k
      BY <1>2, <3>3, SMT DEF Chunk
    <3>5. t # header
      BY <1>2, <3>2, SMT
    <3>6. p <= t /\ t < p + Buffer
      BY <1>2, <1>4, <2>4, <3>2, <3>4, FetchAssumption, SMT DEF Write
    <3> QED
      BY <1>1, <3>3, <3>5, <3>6, Zenon DEF Excused
  <2> QED
    BY <2>2, <2>3, <2>4, Zenon DEF Receive
<1> QED
  BY <1>2, <1>3, <1>4, SMT

LEMMA KeptNext == FetchTypeOK /\ BodyKept /\ [FetchNext]_fetchVars => BodyKept'
<1> SUFFICES ASSUME FetchTypeOK, BodyKept, [FetchNext]_fetchVars PROVE BodyKept'
  OBVIOUS
<1>1. ASSUME NEW k \in 1..Buffer, Receive(k) PROVE BodyKept'
  BY <1>1, KeptStep
<1>2. CASE \/ NoConnection \/ OpenFails \/ OpenFile \/ EndOfResponse \/ ReceiveError
           \/ UNCHANGED fetchVars
  <2>1. UNCHANGED <<size, header, blanks, received, file, late, overrun>>
    BY <1>2, Zenon DEF NoConnection, OpenFails, OpenFile, EndOfResponse, ReceiveError,
       fetchVars, response, history
  <2> QED
    BY <2>1, Zenon DEF BodyKept, Body
<1> QED
  BY <1>1, <1>2 DEF FetchNext, FetchTerminated

(* Only late bytes, filled buffers and blank lines take anything from the body. *)
THEOREM Kept == FetchSpec => []BodyKept
<1>1. FetchInit => BodyKept
  <2> SUFFICES ASSUME FetchInit, NEW p \in Body PROVE ~(p <= received)
    BY Zenon DEF BodyKept
  <2> QED
    BY SMT DEF FetchInit, Body
<1> QED
  BY <1>1, FetchTyping, KeptNext, PTL DEF FetchSpec

(***************************************************************************)
(* What is in the file.  A recv that ends behind the header either began   *)
(* behind it or holds its mark, so nothing of the header is written.       *)
(***************************************************************************)
Layout == header \in 2..size /\ \A t \in blanks : t >= header + 2

OneRecv == cuts \cap 1..(header - 1) = {}

HeaderInv ==
  /\ Layout
  /\ received = 0 \/ received \in cuts
  /\ HeaderLeftOut
  /\ junk = 1 => overrun # {}

LEMMA HeaderStep ==
  ASSUME FetchTypeOK, HeaderInv, NEW k \in 1..Buffer, Receive(k)
  PROVE  HeaderInv'
<1>1. /\ received' = received + k /\ received + k \in cuts' /\ cuts \subseteq cuts'
      /\ UNCHANGED <<size, header, blanks>>
  BY Zenon DEF Receive, response
<1>2. received \in Nat /\ k \in Nat \ {0} /\ header \in Nat /\ header >= 2
  BY FetchAssumption, SMT DEF FetchTypeOK, HeaderInv, Layout
<1>3. overrun \subseteq overrun' /\ Chunk(k) # {}
  <2>1. received + 1 \in Chunk(k)
    BY <1>2, SMT DEF Chunk
  <2> QED
    BY <2>1, ReceiveEffect, Zenon
<1>4. Layout'
  BY <1>1, Zenon DEF HeaderInv, Layout
<1>5. junk' = 1 => overrun' # {}
  <2>1. CASE WriteUnterminated(k)
    BY <1>3, <2>1, Zenon DEF WriteUnterminated
  <2>2. CASE Write(k) \/ Drop(k)
    BY <1>3, <2>2, Zenon DEF Write, Drop, HeaderInv
  <2> QED
    BY <2>1, <2>2, Zenon DEF Receive
<1>6. ASSUME OneRecv', overrun' = {} PROVE file' \subseteq Body'
  <2>1. Body' = Body /\ file \subseteq Body
    <3>1. OneRecv /\ overrun = {}
      BY <1>1, <1>3, <1>6, Zenon DEF OneRecv
    <3> QED
      BY <1>1, <3>1, Zenon DEF Body, HeaderInv, HeaderLeftOut, OneRecv
  <2>2. received + k >= header
    <3>1. received + k \notin 1..(header - 1)
      BY <1>1, <1>6, Zenon DEF OneRecv
    <3> QED
      BY <1>2, <3>1, SMT
  <2>3. received = 0 \/ received >= header
    <3>1. received = 0 \/ received \notin 1..(header - 1)
      BY <1>1, <1>6, Zenon DEF OneRecv, HeaderInv
    <3> QED
      BY <1>2, <3>1, SMT
  <2>4. Chunk(k) \subseteq 1..size
    <3>1. received + k <= size
      BY Zenon DEF Receive
    <3> QED
      BY <1>2, <3>1, FetchAssumption, SMT DEF Chunk, FetchTypeOK
  <2>5. AfterMark(k) \subseteq Body
    <3> SUFFICES ASSUME NEW p \in AfterMark(k) PROVE p \in Body
      OBVIOUS
    <3>1. p \in Chunk(k)
      BY Zenon DEF AfterMark
    <3>2. p \in Nat /\ p <= size /\ received < p
      BY <1>2, <2>4, <3>1, SMT DEF Chunk
    <3>3. CASE received >= header
      BY <1>2, <3>2, <3>3, SMT DEF Body, FetchTypeOK
    <3>4. CASE received = 0
      <4>1. header \in MarkEnds(k)
        <5>1. header - 1 \in Chunk(k) /\ header \in Chunk(k)
          BY <1>2, <2>2, <3>4, SMT DEF Chunk
        <5> QED
          BY <5>1, Zenon DEF MarkEnds
      <4>2. PICK t \in MarkEnds(k) : t < p
        BY <4>1, Zenon DEF AfterMark
      <4>3. t \in {header} \cup blanks /\ t \in Chunk(k)
        BY Zenon DEF MarkEnds
      <4>4. t \in Nat
        BY <1>2, <4>3, SMT DEF Chunk
      <4>5. t >= header
        <5>1. t = header \/ t >= header + 2
          BY <4>3, Zenon DEF HeaderInv, Layout
        <5> QED
          BY <1>2, <4>4, <5>1, SMT
      <4> QED
        BY <1>2, <3>2, <4>2, <4>4, <4>5, SMT DEF Body, FetchTypeOK
    <3> QED
      BY <2>3, <3>3, <3>4
  <2>6. file' = file \/ file' = file \cup AfterMark(k)
    BY ReceiveEffect
  <2> QED
    BY <2>1, <2>5, <2>6, Zenon
<1> QED
  BY <1>1, <1>4, <1>5, <1>6, Zenon DEF HeaderInv, HeaderLeftOut, OneRecv

LEMMA HeaderNext == FetchTypeOK /\ HeaderInv /\ [FetchNext]_fetchVars => HeaderInv'
<1> SUFFICES ASSUME FetchTypeOK, HeaderInv, [FetchNext]_fetchVars PROVE HeaderInv'
  OBVIOUS
<1>1. ASSUME NEW k \in 1..Buffer, Receive(k) PROVE HeaderInv'
  BY <1>1, HeaderStep
<1>2. CASE \/ NoConnection \/ OpenFails \/ OpenFile \/ EndOfResponse \/ ReceiveError
           \/ UNCHANGED fetchVars
  <2>1. UNCHANGED <<size, header, blanks, received, file, junk, overrun, cuts>>
    BY <1>2, Zenon DEF NoConnection, OpenFails, OpenFile, EndOfResponse, ReceiveError,
       fetchVars, response, history
  <2> QED
    BY <2>1, Zenon DEF HeaderInv, Layout, HeaderLeftOut, Body
<1> QED
  BY <1>1, <1>2, Zenon DEF FetchNext, FetchTerminated

LEMMA HeaderAlways == FetchSpec => []HeaderInv
<1>1. FetchInit => HeaderInv
  <2> SUFFICES ASSUME FetchInit PROVE HeaderInv
    OBVIOUS
  <2>1. Layout
    BY FetchAssumption, SMT DEF FetchInit, Layout
  <2>2. received = 0 /\ junk # 1
    BY SMT DEF FetchInit
  <2>3. HeaderLeftOut
    BY Zenon DEF FetchInit, HeaderLeftOut
  <2> QED
    BY <2>1, <2>2, <2>3, Zenon DEF HeaderInv
<1> QED
  BY <1>1, FetchTyping, HeaderNext, PTL DEF FetchSpec

(* A header that came in one recv, and in time, is left out of the file. *)
THEOREM LeftOut == FetchSpec => []HeaderLeftOut
<1>1. HeaderInv => HeaderLeftOut
  BY DEF HeaderInv
<1> QED
  BY <1>1, HeaderAlways, PTL

(* A response without blank lines, that came in time, leaves its body in the file. *)
THEOREM Complete == FetchSpec => []FileIsBody
<1>1. FetchTypeOK /\ BodyKept /\ HeaderInv => FileIsBody
  <2> SUFFICES ASSUME FetchTypeOK, BodyKept, HeaderInv, state = "1", received = size,
                      blanks = {}, late = {}, overrun = {}, OneRecv
               PROVE  file = Body /\ junk = 0
    BY Zenon DEF FileIsBody, OneRecv
  <2>1. file \subseteq Body
    BY Zenon DEF HeaderInv, HeaderLeftOut, OneRecv
  <2>2. \A p \in Body : p <= received
    BY SMT DEF Body, FetchTypeOK
  <2>3. Body \subseteq file
    BY <2>2, Zenon DEF BodyKept
  <2>4. junk = 0
    BY Zenon DEF FetchTypeOK, HeaderInv
  <2> QED
    BY <2>1, <2>3, <2>4, Zenon
<1> QED
  BY <1>1, FetchTyping, Kept, HeaderAlways, PTL
-----------------------------------------------------------------------------
(* The table. *)

LEMMA PlaceRange == \A i : i \in Places <=> i \in Nat /\ i < NEAREST_SERVERS_NUM
  BY NearestAssumption, SMT DEF Places

LEMMA PlaceBefore == \A i, j \in Places : j > i => j - 1 \in Places /\ j - 1 >= i
  BY NearestAssumption, SMT DEF Places

LEMMA TypeInit == Init => TypeOK
  BY NearestAssumption, SMT DEF Init, TypeOK

(***************************************************************************)
(* What an insertion does to one of the columns of the table.              *)
(***************************************************************************)
LEMMA PutType ==
  ASSUME NEW S, NEW f \in [Places -> S], NEW x \in S, NEW i \in Places
  PROVE  Put(f, x, i) \in [Places -> S]
<1>1. ASSUME NEW j \in Places, j # i, j > i PROVE f[j - 1] \in S
  BY <1>1, PlaceBefore, Zenon
<1> QED
  BY <1>1, Zenon DEF Put

LEMMA PutAt ==
  ASSUME NEW f, NEW x, NEW i \in Places, NEW j \in Places
  PROVE  /\ j = i => Put(f, x, i)[j] = x
         /\ j < i => Put(f, x, i)[j] = f[j]
         /\ j > i => Put(f, x, i)[j] = IF table[i] # NoUrl THEN f[j - 1] ELSE f[j]
<1>1. i \in Nat /\ j \in Nat
  BY PlaceRange
<1>2. Put(f, x, i)[j] = IF j = i THEN x
                        ELSE IF j > i /\ table[i] # NoUrl THEN f[j - 1] ELSE f[j]
  BY Zenon DEF Put
<1> QED
  BY <1>1, <1>2, SMT

LEMMA ScanType == TypeOK /\ Scan => url' \in Urls \cup {NoUrl} /\ distance' \in Distances
  BY SMT DEF TypeOK, Scan, locals

LEMMA TypeNext == TypeOK /\ [Next]_vars => TypeOK'
<1> SUFFICES ASSUME TypeOK, [Next]_vars PROVE TypeOK'
  OBVIOUS
<1>1. CASE ReadServer
  <2>1. url' \in Urls \cup {NoUrl} /\ distance' \in Distances
    BY <1>1, ScanType DEF ReadServer
  <2>2. distance' \in Nat /\ Len(seen) + 1 \in Nat
    BY <2>1, NearestAssumption, SMT DEF TypeOK
  <2>3. /\ table' \in [Places -> Urls \cup {NoUrl}]
        /\ dist' \in [Places -> Nat]
        /\ line' \in [Places -> Nat]
    <3>1. CASE UNCHANGED places
      BY <3>1 DEF TypeOK, places
    <3>2. CASE ~UNCHANGED places
      <4>1. PICK i \in Places : /\ table' = Put(table, url', i)
                                /\ dist'  = Put(dist, distance', i)
                                /\ line'  = Put(line, Len(seen) + 1, i)
        BY <1>1, <3>2 DEF ReadServer, Insert
      <4> QED
        BY <4>1, <2>1, <2>2, PutType DEF TypeOK
    <3> QED
      BY <3>1, <3>2
  <2>4. seen' \in Seq(Distances)
    BY <1>1, <2>1, SMT DEF ReadServer, TypeOK
  <2> QED
    BY <1>1, <2>1, <2>3, <2>4 DEF ReadServer, TypeOK
<1>2. CASE EndOfFile
  BY <1>2, SMT DEF EndOfFile, TypeOK, locals, places
<1>3. CASE UNCHANGED vars
  BY <1>3, SMT DEF vars, TypeOK, locals, places
<1> QED
  BY <1>1, <1>2, <1>3 DEF Next, Terminated

(* Every variable keeps its type. *)
THEOREM Typing == Spec => []TypeOK
  BY TypeInit, TypeNext, PTL DEF Spec

(***************************************************************************)
(* The table.                                                              *)
(***************************************************************************)
LEMMA TableInit == Init => TableOfNearest
  BY SMT DEF Init, TableOfNearest, Sorted, OneLineEach, NearestKept, Taken

(* An insertion of a named server at place p. *)
LEMMA TableInsert ==
  ASSUME TypeOK, TypeOK', TableOfNearest, NEW p \in Places,
         Stops(distance', p),
         table' = Put(table, url', p),
         dist'  = Put(dist, distance', p),
         line'  = Put(line, Len(seen) + 1, p),
         url' # NoUrl,
         seen' = Append(seen, distance')
  PROVE  TableOfNearest'
<1> DEFINE n == Len(seen)
<1>1. /\ p \in Nat /\ n \in Nat
      /\ \A j \in Places : j \in Nat
  BY PlaceRange, SMT DEF TypeOK
<1>2. /\ \A j \in Places : j < p => table[j] # NoUrl /\ dist[j] < distance'
      /\ table[p] = NoUrl \/ distance' <= dist[p]
  BY NearestAssumption, SMT DEF Stops, Fits, TypeOK
<1>3. /\ Len(seen') = n + 1
      /\ \A m \in 1..n : seen'[m] = seen[m]
      /\ seen'[n + 1] = distance'
  BY SMT DEF TypeOK
<1>4. CASE table[p] = NoUrl
  <2>1. \A j \in Places : /\ table'[j] = IF j = p THEN url' ELSE table[j]
                          /\ dist'[j] = IF j = p THEN distance' ELSE dist[j]
                          /\ line'[j] = IF j = p THEN n + 1 ELSE line[j]
    BY <1>1, <1>4, PutAt, SMT
  <2>2. \A j \in Places : j > p => table[j] = NoUrl
    BY <1>1, <1>4, SMT DEF TableOfNearest, Sorted
  <2>3. Sorted'
    <3> SUFFICES ASSUME NEW i \in Places, NEW j \in Places, i < j, table'[j] # NoUrl
                 PROVE  table'[i] # NoUrl /\ dist'[i] <= dist'[j]
      BY DEF Sorted
    <3>1. CASE j < p
      <4>1. /\ i # p /\ table'[i] = table[i] /\ dist'[i] = dist[i]
            /\ j # p /\ table'[j] = table[j] /\ dist'[j] = dist[j]
        BY <1>1, <2>1, <3>1, SMT
      <4> QED
        BY <4>1, Zenon DEF TableOfNearest, Sorted
    <3>2. CASE j = p
      <4>1. /\ table'[i] = table[i] /\ dist'[i] = dist[i] /\ dist'[j] = distance'
            /\ table[i] # NoUrl /\ dist[i] < distance'
        BY <1>1, <1>2, <2>1, <3>2, SMT
      <4>2. dist[i] \in Nat /\ distance' \in Nat
        BY NearestAssumption, SMT DEF TypeOK
      <4> QED
        BY <4>1, <4>2, SMT
    <3>3. CASE j > p
      BY <1>1, <2>1, <2>2, <3>3, SMT
    <3> QED
      BY <1>1, <3>1, <3>2, <3>3, SMT
  <2>4. OneLineEach'
    <3>1. ASSUME NEW j \in Places, table'[j] # NoUrl
          PROVE  line'[j] \in 1..(n + 1) /\ dist'[j] = seen'[line'[j]]
      BY <1>1, <1>3, <2>1, <3>1, SMT DEF TableOfNearest, OneLineEach, Taken, TypeOK
    <3>2. ASSUME NEW j \in Places, NEW k \in Places, table'[j] # NoUrl, table'[k] # NoUrl,
                 line'[j] = line'[k]
          PROVE  j = k
      BY <1>1, <1>3, <2>1, <3>2, SMT DEF TableOfNearest, OneLineEach, Taken, TypeOK
    <3> QED
      BY <1>3, <3>1, <3>2, Zenon DEF OneLineEach, Taken
  <2>5. NearestKept'
    <3>1. ASSUME NEW m \in 1..n PROVE \E j \in Taken' : line'[j] = m
      <4>1. PICK j \in Taken : line[j] = m
        BY <1>4, Zenon DEF TableOfNearest, NearestKept, Taken
      <4>2. j # p /\ j \in Taken' /\ line'[j] = m
        BY <1>4, <2>1, <4>1, Zenon DEF Taken
      <4> QED
        BY <4>2, Zenon
    <3>2. p \in Taken' /\ line'[p] = n + 1
      BY <2>1 DEF Taken
    <3> QED
      BY <1>1, <1>3, <3>1, <3>2, SMT DEF NearestKept
  <2> QED
    BY <2>3, <2>4, <2>5 DEF TableOfNearest
<1>5. CASE table[p] # NoUrl
  <2>1. \A j \in Places :
          /\ j < p => table'[j] = table[j] /\ dist'[j] = dist[j] /\ line'[j] = line[j]
          /\ j = p => table'[j] = url' /\ dist'[j] = distance' /\ line'[j] = n + 1
          /\ j > p => table'[j] = table[j - 1] /\ dist'[j] = dist[j - 1] /\ line'[j] = line[j - 1]
    BY <1>1, <1>5, PutAt, SMT
  <2>2. \A j \in Places : j > p => j - 1 \in Places /\ j - 1 >= p
    BY PlaceBefore
  <2>3. Sorted'
    <3> SUFFICES ASSUME NEW i \in Places, NEW j \in Places, i < j, table'[j] # NoUrl
                 PROVE  table'[i] # NoUrl /\ dist'[i] <= dist'[j]
      BY DEF Sorted
    <3>1. CASE j < p
      <4>1. /\ table'[i] = table[i] /\ dist'[i] = dist[i]
            /\ table'[j] = table[j] /\ dist'[j] = dist[j]
        BY <1>1, <2>1, <3>1, SMT
      <4> QED
        BY <4>1, Zenon DEF TableOfNearest, Sorted
    <3>2. CASE j = p
      BY <1>1, <1>2, <2>1, <3>2, SMT DEF TypeOK
    <3>3. CASE j > p /\ i < p
      <4>1. /\ table'[i] = table[i] /\ dist'[i] = dist[i]
            /\ j - 1 \in Places /\ table'[j] = table[j - 1] /\ dist'[j] = dist[j - 1]
        BY <1>1, <2>1, <2>2, <3>3, SMT
      <4>2. i < j - 1
        BY <1>1, <2>2, <3>3, SMT
      <4> QED
        BY <4>1, <4>2, Zenon DEF TableOfNearest, Sorted
    <3>4. CASE j > p /\ i = p
      <4>1. table'[j] = table[j - 1] /\ dist'[j] = dist[j - 1] /\ j - 1 \in Places
        BY <2>1, <2>2, <3>4, SMT
      <4>2. dist[p] <= dist[j - 1]
        <5>1. j - 1 = p \/ p < j - 1
          BY <1>1, <2>2, <3>4, SMT
        <5>2. ASSUME p < j - 1 PROVE dist[p] <= dist[j - 1]
          BY <3>4, <4>1, <5>2, Zenon DEF TableOfNearest, Sorted
        <5>3. dist[p] <= dist[p]
          BY SMT DEF TypeOK
        <5> QED
          BY <5>1, <5>2, <5>3, Zenon
      <4>3. table'[i] = url' /\ dist'[i] = distance'
        BY <2>1, <3>4
      <4>4. /\ distance' \in Nat /\ dist[p] \in Nat /\ dist[j - 1] \in Nat
            /\ distance' <= dist[p]
        BY <1>2, <1>5, <4>1, NearestAssumption, SMT DEF TypeOK
      <4> QED
        BY <4>1, <4>2, <4>3, <4>4, SMT
    <3>5. CASE i > p
      <4>1. /\ i - 1 \in Places /\ table'[i] = table[i - 1] /\ dist'[i] = dist[i - 1]
            /\ j - 1 \in Places /\ table'[j] = table[j - 1] /\ dist'[j] = dist[j - 1]
        BY <1>1, <2>1, <2>2, <3>5, SMT
      <4>2. i - 1 < j - 1
        BY <1>1, SMT
      <4> QED
        BY <4>1, <4>2, Zenon DEF TableOfNearest, Sorted
    <3> QED
      BY <1>1, <3>1, <3>2, <3>3, <3>4, <3>5, SMT
  \* Where the entry that is now at place j was before.
  <2> DEFINE from(j) == IF j < p THEN j ELSE j - 1
  <2>4. ASSUME NEW j \in Places, j # p
        PROVE  /\ from(j) \in Places
               /\ table'[j] = table[from(j)] /\ dist'[j] = dist[from(j)] /\ line'[j] = line[from(j)]
    BY <1>1, <2>1, <2>2, <2>4, SMT
  <2>5. ASSUME NEW j \in Places, NEW k \in Places, j # p, k # p, from(j) = from(k) PROVE j = k
    BY <1>1, <2>5, SMT
  <2> HIDE DEF from
  <2>6. OneLineEach'
    <3>1. ASSUME NEW j \in Places, table'[j] # NoUrl, j # p
          PROVE  line'[j] \in 1..n /\ dist'[j] = seen[line'[j]] /\ from(j) \in Taken
      <4>1. from(j) \in Taken
        BY <2>4, <3>1, Zenon DEF Taken
      <4>2. line[from(j)] \in 1..n /\ dist[from(j)] = seen[line[from(j)]]
        BY <4>1 DEF TableOfNearest, OneLineEach
      <4> QED
        BY <2>4, <3>1, <4>1, <4>2, Zenon
    <3>2. line'[p] = n + 1 /\ dist'[p] = seen'[n + 1]
      BY <1>3, <2>1
    <3>3. ASSUME NEW j \in Places, table'[j] # NoUrl
          PROVE  line'[j] \in 1..(n + 1) /\ dist'[j] = seen'[line'[j]]
      BY <1>1, <1>3, <3>1, <3>2, <3>3, SMT
    <3>4. ASSUME NEW j \in Places, NEW k \in Places, table'[j] # NoUrl, table'[k] # NoUrl,
                 line'[j] = line'[k]
          PROVE  j = k
      <4>1. CASE j = p \/ k = p
        BY <1>1, <3>1, <3>2, <3>4, <4>1, SMT
      <4>2. CASE j # p /\ k # p
        <5>1. from(j) \in Taken /\ from(k) \in Taken /\ line[from(j)] = line[from(k)]
          BY <2>4, <3>1, <3>4, <4>2, Zenon
        <5>2. from(j) = from(k)
          BY <5>1, Zenon DEF TableOfNearest, OneLineEach
        <5> QED
          BY <2>5, <4>2, <5>2, Zenon
      <4> QED
        BY <4>1, <4>2
    <3> QED
      BY <1>3, <3>3, <3>4, Zenon DEF OneLineEach, Taken
  <2>7. NearestKept'
    <3> SUFFICES ASSUME NEW m \in 1..(n + 1)
                 PROVE  \/ \E j \in Taken' : line'[j] = m
                        \/ Taken' = Places /\ \A j \in Places : dist'[j] <= seen'[m]
      BY <1>3 DEF NearestKept
    <3>1. CASE m = n + 1
      BY <2>1, <3>1, Zenon DEF Taken
    <3>2. ASSUME NEW j \in Taken, line[j] = m, j + 1 \in Places \/ j < p
          PROVE  \E k \in Taken' : line'[k] = m
      <4> DEFINE k == IF j < p THEN j ELSE j + 1
      <4>1. k \in Places /\ k # p /\ from(k) = j
        BY <1>1, <3>2, SMT DEF Taken, from
      <4>2. k \in Taken' /\ line'[k] = m
        BY <2>4, <3>2, <4>1, Zenon DEF Taken
      <4> QED
        BY <4>2
    <3>3. ASSUME m \in 1..n, Taken = Places, \A j \in Places : dist[j] <= seen[m]
          PROVE  Taken' = Places /\ \A j \in Places : dist'[j] <= seen'[m]
      <4>1. seen'[m] = seen[m] /\ seen[m] \in Nat
        <5>1. seen'[m] = seen[m]
          BY <1>3, <3>3
        <5>2. seen[m] \in Distances
          BY <3>3, SMT DEF TypeOK
        <5> QED
          BY <5>1, <5>2, NearestAssumption
      <4>2. \A j \in Places : table'[j] # NoUrl
        <5>1. table'[p] # NoUrl
          BY <2>1
        <5>2. ASSUME NEW j \in Places, j # p PROVE table'[j] # NoUrl
          <6>1. from(j) \in Taken /\ table'[j] = table[from(j)]
            BY <2>4, <3>3, <5>2
          <6> QED
            BY <6>1 DEF Taken
        <5> QED
          BY <5>1, <5>2
      <4>3. dist'[p] <= seen'[m]
        BY <1>2, <1>5, <2>1, <3>3, <4>1, NearestAssumption, SMT DEF TypeOK
      <4>4. \A j \in Places : j # p => dist'[j] <= seen'[m]
        BY <2>4, <3>3, <4>1, Zenon
      <4> QED
        BY <4>2, <4>3, <4>4, Zenon DEF Taken
    <3>4. ASSUME NEW j \in Taken, line[j] = m, j + 1 \notin Places
          PROVE  m \in 1..n /\ Taken = Places /\ \A i \in Places : dist[i] <= seen[m]
      <4>1. j \in Places /\ table[j] # NoUrl /\ dist[j] = seen[m] /\ m \in 1..n
        BY <3>4 DEF Taken, TableOfNearest, OneLineEach
      <4>2. \A i \in Places : i = j \/ i < j
        BY <3>4, <4>1, NearestAssumption, SMT DEF Places
      <4>3. \A i \in Places : i < j => table[i] # NoUrl /\ dist[i] <= dist[j]
        BY <4>1, Zenon DEF TableOfNearest, Sorted
      <4>4. dist[j] <= dist[j]
        BY <4>1, SMT DEF TypeOK
      <4> QED
        BY <4>1, <4>2, <4>3, <4>4, Zenon DEF Taken
    <3>5. m = n + 1 \/ m \in 1..n
      BY <1>1, SMT
    <3>6. ASSUME m \in 1..n
          PROVE  \/ \E j \in Taken : line[j] = m
                 \/ Taken = Places /\ \A i \in Places : dist[i] <= seen[m]
      BY <3>6 DEF TableOfNearest, NearestKept
    <3> QED
      BY <3>1, <3>2, <3>3, <3>4, <3>5, <3>6, Zenon
  <2> QED
    BY <2>3, <2>6, <2>7 DEF TableOfNearest
<1> QED
  BY <1>4, <1>5

\* Until sscanf has matched a line, the lines are inserted without a url.
EmptyUntilMatched == url = NoUrl => Taken = {}

LEMMA EmptyInsert ==
  ASSUME TypeOK, EmptyUntilMatched, ReadServer, url' = NoUrl
  PROVE  Taken = {} /\ Taken' = {} /\ seen' = seen
<1>1. url = NoUrl
  BY NearestAssumption, SMT DEF ReadServer, Scan, locals
<1>2. \A i \in Places : table[i] = NoUrl
  BY <1>1, Zenon DEF EmptyUntilMatched, Taken
<1>3. \A i \in Places : table'[i] = NoUrl
  <2>1. CASE UNCHANGED places
    BY <1>2, <2>1 DEF places
  <2>2. ASSUME NEW p \in Places, table' = Put(table, url', p) PROVE \A i \in Places : table'[i] = NoUrl
    <3>1. table' = [j \in Places |-> IF j = p THEN url' ELSE table[j]]
      BY <1>2, <2>2, SMT DEF Put
    <3> QED
      BY <1>2, <3>1, Zenon
  <2> QED
    BY <2>1, <2>2 DEF ReadServer, Insert
<1> QED
  BY <1>2, <1>3 DEF Taken, ReadServer

LEMMA EmptyNext == TypeOK /\ EmptyUntilMatched /\ [Next]_vars => EmptyUntilMatched'
<1> SUFFICES ASSUME TypeOK, EmptyUntilMatched, [Next]_vars, url' = NoUrl PROVE Taken' = {}
  BY DEF EmptyUntilMatched
<1>1. CASE ReadServer
  BY <1>1, EmptyInsert
<1>2. CASE EndOfFile \/ UNCHANGED vars
  BY <1>2 DEF EndOfFile, vars, locals, places, EmptyUntilMatched, Taken
<1> QED
  BY <1>1, <1>2 DEF Next, Terminated

LEMMA TableNext ==
  TypeOK /\ TypeOK' /\ EmptyUntilMatched /\ TableOfNearest /\ [Next]_vars => TableOfNearest'
<1> SUFFICES ASSUME TypeOK, TypeOK', EmptyUntilMatched, TableOfNearest, [Next]_vars
             PROVE  TableOfNearest'
  OBVIOUS
<1>1. CASE ReadServer /\ url' # NoUrl
  <2>1. seen' = Append(seen, distance')
    BY <1>1 DEF ReadServer
  <2>2. CASE UNCHANGED places /\ \A i \in Places : ~Fits(distance', i)
    \* The server is no nearer than any in a full table.
    <3>1. /\ \A i \in Places : table[i] # NoUrl /\ dist[i] <= distance'
          /\ UNCHANGED <<table, dist, line>>
      BY <2>2, NearestAssumption, SMT DEF Fits, TypeOK, places
    <3>2. /\ Len(seen') = Len(seen) + 1 /\ Len(seen) \in Nat
          /\ \A m \in 1..Len(seen) : seen'[m] = seen[m]
          /\ seen'[Len(seen) + 1] = distance'
      BY <2>1, SMT DEF TypeOK
    <3>3. Sorted'
      BY <3>1 DEF TableOfNearest, Sorted
    <3>4. OneLineEach'
      BY <3>1, <3>2, SMT DEF TableOfNearest, OneLineEach, Taken, TypeOK
    <3>5. NearestKept'
      <4>1. Taken' = Taken /\ Taken = Places
        BY <3>1, Zenon DEF Taken
      <4>2. ASSUME NEW m \in 1..Len(seen')
            PROVE  (m \in 1..Len(seen) /\ seen'[m] = seen[m]) \/ seen'[m] = distance'
        BY <3>2, SMT
      <4> QED
        BY <3>1, <4>1, <4>2, Zenon DEF TableOfNearest, NearestKept
    <3> QED
      BY <3>3, <3>4, <3>5 DEF TableOfNearest
  <2>3. ASSUME NEW i \in Places, Stops(distance', i),
               table' = Put(table, url', i), dist' = Put(dist, distance', i),
               line' = Put(line, Len(seen) + 1, i)
        PROVE  TableOfNearest'
    BY <1>1, <2>1, <2>3, TableInsert
  <2> QED
    BY <1>1, <2>2, <2>3 DEF ReadServer, Insert
<1>2. CASE ReadServer /\ url' = NoUrl
  \* No line has been matched yet: the table is empty, and stays so.
  <2>1. Taken = {} /\ Taken' = {} /\ seen' = seen
    BY <1>2, EmptyInsert
  <2>2. Places # {}
    BY PlaceRange, NearestAssumption, SMT
  <2>3. 1..Len(seen) = {}
    BY <2>1, <2>2, Zenon DEF TableOfNearest, NearestKept
  <2> QED
    BY <2>1, <2>3, Zenon DEF TableOfNearest, Sorted, OneLineEach, NearestKept, Taken
<1>3. CASE EndOfFile \/ UNCHANGED vars
  BY <1>3 DEF EndOfFile, vars, places, TableOfNearest, Sorted, OneLineEach, NearestKept, Taken
<1> QED
  BY <1>1, <1>2, <1>3 DEF Next, Terminated

(* The table shows the nearest servers of the list, in order. *)
THEOREM Nearest == Spec => []TableOfNearest
<1>1. Init => EmptyUntilMatched
  BY SMT DEF Init, EmptyUntilMatched, Taken
<1>2. Spec => []EmptyUntilMatched
  BY <1>1, EmptyNext, Typing, PTL DEF Spec
<1> QED
  BY <1>2, TableInit, TableNext, Typing, PTL DEF Spec

(***************************************************************************)
(* KNearest follows from TableOfNearest in every state.  line gives each   *)
(* taken place a line of its own: there are no more places than lines, and *)
(* as many unless the table is full; the places up to i show i + 1 lines   *)
(* that are as near as the i-th, and every nearer line is before it.       *)
(***************************************************************************)
\* The taken places are the first ones.
LEMMA TakenFirst ==
  ASSUME Sorted
  PROVE  \E c \in 0..NEAREST_SERVERS_NUM :
           Taken = 0..(c - 1) /\ (Taken = Places \/ c < NEAREST_SERVERS_NUM)
<1>1. CASE Taken = Places
  <2>1. Taken = 0..(NEAREST_SERVERS_NUM - 1) /\ NEAREST_SERVERS_NUM \in 0..NEAREST_SERVERS_NUM
    BY <1>1, NearestAssumption, SMT DEF Places
  <2> QED
    BY <1>1, <2>1, Zenon
<1>2. CASE Taken # Places
  <2> DEFINE R == {p \in Nat \X Nat : p[1] < p[2]}
  <2>1. Places \ Taken # {} /\ Places \ Taken \subseteq Nat
    BY <1>2, PlaceRange, Zenon DEF Taken
  <2>2. IsWellFoundedOn(R, Nat)
    BY NatLessThanWellFounded DEF OpToRel
  <2>3. PICK c \in Places \ Taken : \A k \in Places \ Taken : ~(<<k, c>> \in R)
    BY <2>1, <2>2, WFMin
  <2>4. ASSUME NEW k \in Places, k < c PROVE k \in Taken
    <3>1. k \in Nat /\ c \in Nat
      BY <2>1, PlaceRange
    <3> QED
      BY <2>3, <2>4, <3>1
  <2>5. ASSUME NEW k \in Taken PROVE k < c
    <3>1. k \in Nat /\ c \in Nat /\ k \in Places /\ k # c
      BY <2>3, PlaceRange, Zenon DEF Taken
    <3>2. ~(c < k)
      BY <2>3, <3>1, Zenon DEF Sorted, Taken
    <3> QED
      BY <3>1, <3>2, SMT
  <2> HIDE DEF R
  <2>6. \A k : k \in Taken <=> k \in 0..(c - 1)
    <3>1. c \in Nat /\ c < NEAREST_SERVERS_NUM
      BY <2>3, PlaceRange
    <3>2. \A k \in Taken : k \in Nat /\ k < c
      BY <2>5, PlaceRange, Zenon DEF Taken
    <3>3. \A k \in Nat : k < c => k < NEAREST_SERVERS_NUM
      BY <3>1, NearestAssumption, SMT
    <3>4. \A k \in Nat : k < c => k \in Taken
      BY <2>4, <3>3, PlaceRange, Zenon
    <3> QED
      BY <3>1, <3>2, <3>4, SMT
  <2>7. c \in 0..NEAREST_SERVERS_NUM /\ c < NEAREST_SERVERS_NUM
    BY <2>3, PlaceRange, NearestAssumption, SMT
  <2> QED
    BY <2>6, <2>7, Zenon
<1> QED
  BY <1>1, <1>2

\* An interval that starts at 0 has as many members as its end says.
LEMMA Size ==
  ASSUME NEW c \in Nat
  PROVE  /\ IsFiniteSet(0..(c - 1)) /\ Cardinality(0..(c - 1)) = c
         /\ IsFiniteSet(1..c) /\ Cardinality(1..c) = c
<1>1. 0 \in Int /\ 1 \in Int /\ c - 1 \in Int /\ c \in Int
  BY SMT
<1> QED
  BY <1>1, FS_Interval, SMT

\* A set that has an injection, or is part of an image.
LEMMA AtLeast ==
  ASSUME NEW S, NEW T, NEW f, IsFiniteSet(T),
         \A x \in S : f[x] \in T,
         \A x, y \in S : f[x] = f[y] => x = y
  PROVE  Cardinality(S) <= Cardinality(T)
<1> DEFINE g == [x \in S |-> f[x]]
<1>1. g \in Injection(S, T)
  BY Zenon DEF Injection, IsInjective
<1> QED
  BY <1>1, FS_Injection

LEMMA AtMost ==
  ASSUME NEW S, NEW T, NEW f, IsFiniteSet(S),
         \A y \in T : \E x \in S : f[x] = y
  PROVE  IsFiniteSet(T) /\ Cardinality(T) <= Cardinality(S)
<1> DEFINE I == {f[x] : x \in S}
           g == [x \in S |-> f[x]]
<1>1. g \in Surjection(S, I)
  BY Zenon DEF Surjection
<1>2. IsFiniteSet(I) /\ Cardinality(I) <= Cardinality(S)
  BY <1>1, FS_Surjection
<1>3. T \in SUBSET I
  BY Zenon
<1>4. IsFiniteSet(T) /\ Cardinality(T) <= Cardinality(I)
  BY <1>2, <1>3, FS_Subset
<1>5. Cardinality(T) \in Nat /\ Cardinality(I) \in Nat /\ Cardinality(S) \in Nat
  BY <1>2, <1>4, FS_CardinalityType
<1> QED
  BY <1>2, <1>4, <1>5, SMT

\* p lists the places of s in order.
InOrder(p, s) ==
  /\ p \in Bijection(1..Len(s), 1..Len(s))
  /\ \A j, k \in 1..Len(s) : j < k => s[p[j]] <= s[p[k]]

\* The places of s whose elements are before, or up to, that of p[k].
LEMMA RankBounds ==
  ASSUME NEW s, NEW p, NEW k, NEW B, NEW x,
         s \in Seq(Nat), InOrder(p, s), k \in 1..Len(s), x \in Nat, B \in SUBSET (1..Len(s))
  PROVE  /\ (\A n \in B : s[n] < s[p[k]]) => Cardinality(B) <= k - 1
         /\ (\A n \in 1..Len(s) : s[n] <= s[p[k]] => n \in B) => Cardinality(B) >= k
<1>1. /\ Len(s) \in Nat /\ k \in Nat /\ k - 1 \in Nat
      /\ \A n \in 1..Len(s) : s[n] \in Nat
      /\ \A j \in 1..Len(s) : p[j] \in 1..Len(s) /\ s[p[j]] \in Nat
      /\ \A i, j \in 1..Len(s) : p[i] = p[j] => i = j
      /\ \A n \in 1..Len(s) : \E j \in 1..Len(s) : p[j] = n
  <2>1. Len(s) \in Nat /\ \A n \in 1..Len(s) : s[n] \in Nat
    OBVIOUS
  <2>2. /\ \A j \in 1..Len(s) : p[j] \in 1..Len(s)
        /\ \A i, j \in 1..Len(s) : p[i] = p[j] => i = j
        /\ \A n \in 1..Len(s) : \E j \in 1..Len(s) : p[j] = n
    BY Zenon DEF InOrder, Bijection, Injection, IsInjective, Surjection
  <2>3. k \in Nat /\ k - 1 \in Nat
    BY <2>1, SMT
  <2> QED
    BY <2>1, <2>2, <2>3, Zenon
<1>2. \A i, j \in 1..Len(s) : i <= j => s[p[i]] <= s[p[j]]
  <2> SUFFICES ASSUME NEW i \in 1..Len(s), NEW j \in 1..Len(s), i <= j PROVE s[p[i]] <= s[p[j]]
    OBVIOUS
  <2>1. s[p[i]] \in Nat
    BY <1>1, Zenon
  <2>2. s[p[i]] <= s[p[i]]
    BY <2>1, SMT
  <2>3. i < j \/ i = j
    BY <1>1, SMT
  <2>4. i < j => s[p[i]] <= s[p[j]]
    BY Zenon DEF InOrder
  <2> QED
    BY <2>2, <2>3, <2>4, Zenon
<1>3. /\ IsFiniteSet(B)
      /\ IsFiniteSet(1..(k - 1)) /\ Cardinality(1..(k - 1)) = k - 1
      /\ Cardinality(1..k) = k
  BY <1>1, Size, FS_Subset
<1>4. ASSUME \A n \in B : s[n] < s[p[k]] PROVE Cardinality(B) <= k - 1
  <2>1. ASSUME NEW n \in B PROVE \E j \in 1..(k - 1) : p[j] = n
    <3>1. PICK j \in 1..Len(s) : p[j] = n
      BY <1>1, Zenon
    <3>2. s[p[j]] < s[p[k]] /\ s[p[j]] \in Nat /\ s[p[k]] \in Nat
      BY <1>1, <1>4, <3>1, Zenon
    <3>3. ~(s[p[k]] <= s[p[j]])
      BY <3>2, SMT
    <3>4. ~(k <= j)
      BY <1>2, <3>3, Zenon
    <3>5. j \in 1..(k - 1)
      BY <1>1, <3>4, SMT
    <3> QED
      BY <3>1, <3>5
  <2> QED
    BY <1>3, <2>1, AtMost
<1>5. ASSUME \A n \in 1..Len(s) : s[n] <= s[p[k]] => n \in B PROVE Cardinality(B) >= k
  <2>1. \A j \in 1..k : j \in 1..Len(s) /\ j <= k
    BY <1>1, SMT
  <2>2. \A j \in 1..k : p[j] \in B
    BY <1>1, <1>2, <1>5, <2>1, Zenon
  <2>3. \A i, j \in 1..k : p[i] = p[j] => i = j
    BY <1>1, <2>1, Zenon
  <2>4. Cardinality(1..k) <= Cardinality(B) /\ Cardinality(B) \in Nat
    BY <1>3, <2>2, <2>3, AtLeast, FS_CardinalityType
  <2> QED
    BY <1>1, <1>3, <2>4, SMT
<1> QED
  BY <1>4, <1>5

(* HasRank is what sorting gives: in order, the element of rank i is the one at place i + 1. *)
THEOREM RankIsPlace ==
  ASSUME NEW s, NEW p, NEW i, NEW x,
         s \in Seq(Nat), InOrder(p, s), i \in 0..(Len(s) - 1), x \in Nat
  PROVE  HasRank(s, x, i) <=> x = s[p[i + 1]]
<1> DEFINE k == i + 1
           Below == {n \in 1..Len(s) : s[n] < x}
           Upto  == {n \in 1..Len(s) : s[n] <= x}
<1>1. /\ Len(s) \in Nat /\ i \in Nat /\ k \in 1..Len(s) /\ k - 1 = i
      /\ \A n \in 1..Len(s) : s[n] \in Nat
  BY SMT
<1>2. p[k] \in 1..Len(s) /\ s[p[k]] \in Nat
  BY <1>1, Zenon DEF InOrder, Bijection, Injection
<1>3. Below \in SUBSET (1..Len(s)) /\ Upto \in SUBSET (1..Len(s))
  OBVIOUS
<1>4. /\ IsFiniteSet(1..Len(s))
      /\ Cardinality(Below) \in Nat /\ Cardinality(Upto) \in Nat
  BY <1>1, <1>3, Size, FS_Subset, FS_CardinalityType
<1>5. HasRank(s, x, i) <=> Cardinality(Below) <= i /\ Cardinality(Upto) > i
  BY Zenon DEF HasRank
<1>6. CASE x = s[p[k]]
  <2>1. Cardinality(Below) <= k - 1
    BY <1>1, <1>3, <1>6, RankBounds
  <2>2. Cardinality(Upto) >= k
    BY <1>1, <1>3, <1>6, RankBounds
  <2> HIDE DEF Below, Upto
  <2> QED
    BY <1>1, <1>4, <1>5, <1>6, <2>1, <2>2, SMT
<1>7. CASE x < s[p[k]]
  <2>1. \A n \in Upto : s[n] < s[p[k]]
    BY <1>1, <1>2, <1>7, SMT
  <2> HIDE DEF Below, Upto
  <2>2. Cardinality(Upto) <= k - 1
    BY <1>1, <1>3, <2>1, RankBounds
  <2> QED
    BY <1>1, <1>2, <1>4, <1>5, <1>7, <2>2, SMT
<1>8. CASE s[p[k]] < x
  <2>1. \A n \in 1..Len(s) : s[n] <= s[p[k]] => n \in Below
    BY <1>1, <1>2, <1>8, SMT
  <2> HIDE DEF Below, Upto
  <2>2. Cardinality(Below) >= k
    BY <1>1, <1>3, <2>1, RankBounds
  <2> QED
    BY <1>1, <1>2, <1>4, <1>5, <1>8, <2>2, SMT
<1>9. x = s[p[k]] \/ x < s[p[k]] \/ s[p[k]] < x
  BY <1>2, SMT
<1> QED
  BY <1>6, <1>7, <1>8, <1>9

LEMMA KNearestHolds ==
  ASSUME TypeOK, TableOfNearest
  PROVE  KNearest
<1> DEFINE n == Len(seen)
<1>1. n \in Nat /\ \A m \in 1..n : seen[m] \in Nat
  <2>1. n \in Nat /\ \A m \in 1..n : seen[m] \in Distances
    BY SMT DEF TypeOK
  <2> QED
    BY <2>1, NearestAssumption, Zenon
<1>2. /\ Sorted
      /\ \A i \in Taken : i \in Places /\ line[i] \in 1..n /\ dist[i] = seen[line[i]]
      /\ \A i, j \in Taken : line[i] = line[j] => i = j
      /\ \A i \in Taken : dist[i] \in Nat
  BY Zenon DEF TableOfNearest, OneLineEach, Taken, TypeOK
<1>3. PICK c \in 0..NEAREST_SERVERS_NUM :
        Taken = 0..(c - 1) /\ (Taken = Places \/ c < NEAREST_SERVERS_NUM)
  BY <1>2, TakenFirst
<1>4. c \in Nat /\ c <= NEAREST_SERVERS_NUM /\ NEAREST_SERVERS_NUM \in Nat
  BY NearestAssumption, SMT
<1>5. /\ IsFiniteSet(Taken) /\ Cardinality(Taken) = c
      /\ IsFiniteSet(1..n) /\ Cardinality(1..n) = n
  BY <1>1, <1>3, <1>4, Size
<1>6. c <= n
  BY <1>2, <1>5, AtLeast
<1>7. ASSUME c < NEAREST_SERVERS_NUM PROVE n <= c
  <2>1. Taken # Places
    <3>1. c \in Places /\ c \notin 0..(c - 1)
      BY <1>4, <1>7, PlaceRange, SMT
    <3> QED
      BY <1>3, <3>1
  <2>2. \A m \in 1..n : \E i \in Taken : line[i] = m
    BY <2>1, Zenon DEF TableOfNearest, NearestKept
  <2> QED
    BY <1>5, <2>2, AtMost
<1>8. c = IF n < NEAREST_SERVERS_NUM THEN n ELSE NEAREST_SERVERS_NUM
  BY <1>1, <1>4, <1>6, <1>7, SMT
<1>9. ASSUME NEW i \in Taken PROVE HasRank(seen, dist[i], i)
  <2> DEFINE Nearer == {m \in 1..n : seen[m] < dist[i]}
             Within == {m \in 1..n : seen[m] <= dist[i]}
  <2>1. i \in Nat /\ i + 1 \in Nat
    BY <1>3, <1>4, SMT
  <2>2. ASSUME NEW j \in Taken, j <= i PROVE dist[j] <= dist[i]
    <3>1. i \in Nat /\ j \in Nat /\ dist[i] \in Nat /\ (j < i \/ j = i)
      BY <1>2, <1>3, <2>2, SMT
    <3>2. j < i => dist[j] <= dist[i]
      BY <1>2, <3>1, Zenon DEF Sorted, Taken
    <3> QED
      BY <3>1, <3>2, SMT
  \* Whatever is nearer is at a place before i.
  <2>3. Cardinality(Nearer) <= i
    <3>1. ASSUME NEW m \in Nearer PROVE \E j \in 0..(i - 1) : line[j] = m
      <4>1. m \in 1..n /\ seen[m] < dist[i] /\ seen[m] \in Nat /\ dist[i] \in Nat
        BY <1>1, <1>2
      <4>2. ~(dist[i] <= seen[m])
        BY <4>1, SMT
      <4>3. PICK j \in Taken : line[j] = m
        BY <1>2, <4>1, <4>2, Zenon DEF TableOfNearest, NearestKept
      <4>4. ~(i <= j)
        <5>1. ASSUME i <= j PROVE dist[i] <= dist[j]
          <6>1. i \in Nat /\ j \in Nat /\ dist[i] \in Nat /\ (i < j \/ j = i)
            BY <1>2, <1>3, <5>1, SMT
          <6>2. i < j => dist[i] <= dist[j]
            BY <1>2, <6>1, Zenon DEF Sorted, Taken
          <6> QED
            BY <6>1, <6>2, SMT
        <5> QED
          BY <1>2, <4>2, <4>3, <5>1, Zenon
      <4>5. j \in 0..(i - 1)
        BY <1>3, <1>4, <2>1, <4>4, SMT
      <4> QED
        BY <4>3, <4>5
    <3>2. IsFiniteSet(0..(i - 1)) /\ Cardinality(0..(i - 1)) = i
      BY <2>1, Size
    <3> HIDE DEF Nearer
    <3> QED
      BY <3>1, <3>2, AtMost
  \* Those at the places up to i are within its distance.
  <2>4. i + 1 <= Cardinality(Within)
    <3>1. \A j \in 0..i : j \in Taken /\ j <= i
      BY <1>3, <1>4, <2>1, SMT
    <3>2. \A j \in 0..i : line[j] \in Within
      BY <1>2, <2>2, <3>1, Zenon
    <3>3. \A j, k \in 0..i : line[j] = line[k] => j = k
      BY <1>2, <3>1, Zenon
    <3>4. Within \in SUBSET (1..n)
      OBVIOUS
    <3>5. IsFiniteSet(Within)
      BY <1>5, <3>4, FS_Subset
    <3>6. Cardinality(0..((i + 1) - 1)) = i + 1 /\ (i + 1) - 1 = i
      BY <2>1, Size, SMT
    <3> HIDE DEF Within
    <3>7. Cardinality(0..i) <= Cardinality(Within)
      BY <3>2, <3>3, <3>5, AtLeast
    <3> QED
      BY <3>6, <3>7
  <2>5. Cardinality(Within) \in Nat
    BY <1>5, FS_Subset, FS_CardinalityType
  <2>6. Cardinality(Within) > i
    BY <2>1, <2>4, <2>5, SMT
  <2> QED
    BY <2>3, <2>6 DEF HasRank
<1> QED
  BY <1>3, <1>8, <1>9 DEF KNearest

(* The table holds the first servers of the list, as sorting the list by distance would. *)
THEOREM FirstOfList == Spec => []KNearest
  BY KNearestHolds, Typing, Nearest, PTL
=============================================================================
