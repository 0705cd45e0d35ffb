---------------------------- MODULE NearestServers ----------------------------
(***************************************************************************)
(* get_nearest_server of 8_Mini-project/src/speedtest-server.c: the list   *)
(* of servers is read line by line and each is inserted by distance into   *)
(* the table nearest_servers.  url, lat and lon are locals of the function *)
(* that sscanf overwrites as far as it matches: a malformed line leaves    *)
(* the values of an earlier line in them, and is inserted all the same.    *)
(***************************************************************************)
EXTENDS Naturals, Sequences, FiniteSets

CONSTANTS
  NEAREST_SERVERS_NUM,  \* length of the table
  Urls,                 \* what a line can name
  Distances,            \* what calcDistance can return
  MaxLines,             \* bound: "<server" lines in the file
  NoUrl                 \* url[0] == '\0'

ASSUME NearestAssumption ==
  /\ NEAREST_SERVERS_NUM \in Nat \ {0}
  /\ Distances \subseteq Nat
  /\ MaxLines \in Nat
  /\ NoUrl \notin Urls

Places == 0..(NEAREST_SERVERS_NUM - 1)

VARIABLES
  url,       \* the local url
  distance,  \* the distance that the locals lat and lon give
  table,     \* url of each place
  dist,      \* distance of each place
  line,      \* history: the line each place was filled from
  seen,      \* history: the distances of the lines that named a server
  result     \* "reading", or what the function returned

locals == <<url, distance>>
places == <<table, dist, line>>
vars == <<locals, places, seen, result>>

Init ==
  /\ url = NoUrl
  /\ distance \in Distances            \* of the point (0, 0)
  /\ table = [i \in Places |-> NoUrl]
  /\ dist  = [i \in Places |-> 0]
  /\ line  = [i \in Places |-> 0]
  /\ seen = <<>>
  /\ result = "reading"

\* sscanf matched nothing, the url alone, or the url and a coordinate.
Scan ==
  \/ UNCHANGED locals
  \/ url' \in Urls /\ distance' \in Distances

\* Where the loop on i breaks.
Fits(d, i)  == table[i] = NoUrl \/ d <= dist[i]
Stops(d, i) == Fits(d, i) /\ \A j \in Places : j < i => ~Fits(d, j)

\* Fault: nothing is moved back.
FaultOverwrite(f, x, i) == [f EXCEPT ![i] = x]

\* An empty place is filled; a taken one and those behind it move back by one.
Put(f, x, i) ==
  [j \in Places |-> IF j = i THEN x
                    ELSE IF j > i /\ table[i] # NoUrl THEN f[j - 1]
                    ELSE f[j]]

Insert(u, d, n) ==
  \/ \E i \in Places :
       /\ Stops(d, i)
       /\ table' = Put(table, u, i)
       /\ dist'  = Put(dist, d, i)
       /\ line'  = Put(line, n, i)
  \/ /\ \A i \in Places : ~Fits(d, i)
     /\ UNCHANGED places

ReadServer ==
  /\ result = "reading"
  /\ Len(seen) < MaxLines
  /\ Scan
  /\ Insert(url', distance', Len(seen) + 1)
  /\ seen' = IF url' = NoUrl THEN seen ELSE Append(seen, distance')
  /\ UNCHANGED result

\* count > 0, count being the number of "<server" lines read.  Lines before the first
\* that sscanf matches are not in seen: after them the function may return 1 as well.
EndOfFile ==
  /\ result = "reading"
  /\ result' \in {"1"} \cup (IF seen = <<>> THEN {"0"} ELSE {})
  /\ UNCHANGED <<locals, places, seen>>

Terminated == result # "reading" /\ UNCHANGED vars

Next == ReadServer \/ EndOfFile \/ Terminated

Spec == Init /\ [][Next]_vars
-----------------------------------------------------------------------------
(* Properties. *)

TypeOK ==
  /\ url \in Urls \cup {NoUrl} /\ distance \in Distances
  /\ table \in [Places -> Urls \cup {NoUrl}]
  /\ dist \in [Places -> Nat]
  /\ line \in [Places -> Nat]
  /\ seen \in Seq(Distances)
  /\ result \in {"reading", "0", "1"}

Taken == {i \in Places : table[i] # NoUrl}

\* The taken places come first, in order of distance.
Sorted ==
  \A i, j \in Places : i < j /\ table[j] # NoUrl => table[i] # NoUrl /\ dist[i] <= dist[j]

\* Each taken place shows a line of the file as it was read, no two the same line.
OneLineEach ==
  /\ \A i \in Taken : line[i] \in 1..Len(seen) /\ dist[i] = seen[line[i]]
  /\ \A i, j \in Taken : line[i] = line[j] => i = j

\* A line that is not in the table lost its place to NEAREST_SERVERS_NUM nearer ones.
NearestKept ==
  \A n \in 1..Len(seen) :
    \/ \E i \in Taken : line[i] = n
    \/ Taken = Places /\ \A i \in Places : dist[i] <= seen[n]

(* The table is sorted, shows lines as they were read and each at most once, and what   *)
(* it does not show is no nearer than anything it shows.                                *)
TableOfNearest == Sorted /\ OneLineEach /\ NearestKept

\* x has rank i in s: were s sorted, x would come after i others.
HasRank(s, x, i) ==
  /\ Cardinality({n \in 1..Len(s) : s[n] < x}) <= i
  /\ Cardinality({n \in 1..Len(s) : s[n] <= x}) > i

(* The distances in the table are the first of all those read, once these are sorted:   *)
(* as many as there are, or as there are places.  This says no more of a state than     *)
(* TableOfNearest: it is what a reader of the table gets from it.                       *)
KNearest ==
  LET found == IF Len(seen) < NEAREST_SERVERS_NUM THEN Len(seen) ELSE NEAREST_SERVERS_NUM
  IN  /\ Taken = 0..(found - 1)
      /\ \A i \in Taken : HasRank(seen, dist[i], i)
=============================================================================
