-------------------------- MODULE ServerChoiceProofs --------------------------
(* What the choice of a server rests on, for any number of servers and of runs. *)
EXTENDS ServerChoice, TLAPS

USE DEF Unlinked, Faster

LEMMA PlaceRange == \A k : k \in Places <=> k \in Nat /\ k < NEAREST_SERVERS_NUM
  BY ChoiceAssumption, SMT DEF Places

LEMMA PlacesBelow == \A k \in Places : \A j \in 0..k : j \in Places
  BY ChoiceAssumption, SMT DEF Places

LEMMA FetchFacts ==
  \A f \in Files :
    /\ FetchAt[f] \in {"config", "servers", "probe"} /\ (FetchAt[f] = "probe" <=> f = "latency")
    /\ Receive[f] \in Receiving /\ (Receive[f] = "recv_latency" <=> f = "latency")
    /\ After[f] \in {"servers", "nearest", "read"} /\ (After[f] = "read" <=> f = "latency")
  BY SMT DEF Files, FetchAt, Receive, After, Receiving

\* The loop index stays in the table while a server is probed.
IndexInTable ==
  /\ at \in {"recv_latency", "read"} => i \in Places
  /\ at = "select" => best \in Places

TypeInv == TypeOK /\ IndexInTable

LEMMA TypeInit == Init => TypeInv
  BY ChoiceAssumption, SMT
     DEF Init, TypeInv, TypeOK, IndexInTable, Stages, Files

LEMMA TimedType == ASSUME TypeOK, NEW f \in Files, Timed(f) PROVE elapsed' \in Int
<1>1. elapsed' \in Latencies \/ elapsed' = elapsed
  BY Zenon DEF Timed
<1>2. elapsed \in Int /\ Latencies \subseteq Int
  BY ChoiceAssumption, SMT DEF TypeOK
<1> QED
  BY <1>1, <1>2, Zenon

(* What get_best_server makes of the file. *)
LEMMA ReadFacts ==
  ASSUME TypeOK, ReadLatency
  PROVE  /\ disk["latency"] \in {"absent", "empty", "bad", "good"}
         /\ \/ line' = line
            \/ disk["latency"] \in {"bad", "good"} /\ line' = disk["latency"]
         /\ \E x \in {elapsed, -1} :
              /\ latency' = [latency EXCEPT ![i] = x]
              /\ x # -1 => disk["latency"] = "good" \/ (disk["latency"] = "empty" /\ line = "good")
         /\ \/ disk' = [disk EXCEPT !["latency"] = "absent"] /\ stayed' = stayed
            \/ disk' = disk /\ stayed' = stayed \cup {i}
            \/ disk' = disk /\ stayed' = stayed /\ disk["latency"] = "absent"
<1> USE DEF TypeOK
<1>1. disk["latency"] \in {"absent", "empty", "bad", "good"}
  BY SMT DEF Files
<1>2. CASE NotOpened
  BY <1>1, <1>2, SMT DEF NotOpened, ReadLatency
<1>3. CASE LineRead
  <2>1. /\ disk["latency"] # "absent"
        /\ line' = IF disk["latency"] = "empty" THEN line ELSE disk["latency"]
        /\ latency' = [latency EXCEPT ![i] = IF line' = "good" THEN elapsed ELSE -1]
    BY <1>3 DEF LineRead
  <2>2. \/ disk' = [disk EXCEPT !["latency"] = "absent"] /\ stayed' = stayed
        \/ disk' = disk /\ stayed' = stayed \cup {i}
    BY <2>1, Zenon DEF ReadLatency, NotOpened
  <2>3. line' = line \/ (disk["latency"] \in {"bad", "good"} /\ line' = disk["latency"])
    BY <1>1, <2>1, SMT
  <2>4. line' = "good" => disk["latency"] = "good" \/ (disk["latency"] = "empty" /\ line = "good")
    BY <1>1, <2>1, SMT
  <2>5. CASE line' = "good"
    BY <1>1, <2>1, <2>2, <2>3, <2>4, <2>5, Zenon
  <2>6. CASE line' # "good"
    BY <1>1, <2>1, <2>2, <2>3, <2>6, Zenon
  <2> QED
    BY <2>5, <2>6
<1> QED
  BY <1>2, <1>3 DEF ReadLatency

LEMMA TypeNext == TypeInv /\ [Next]_vars => TypeInv'
<1> SUFFICES ASSUME TypeInv, [Next]_vars PROVE TypeInv'
  OBVIOUS
<1> USE ChoiceAssumption
    DEF TypeInv, TypeOK, IndexInTable, Stages, Receiving, Fetching, files, probes
<1>1. ASSUME NEW f \in Files, Unresolved(f) PROVE TypeInv'
  BY <1>1, FetchFacts, PlaceRange, SMT DEF Unresolved
<1>2. ASSUME NEW f \in Files, NoReply(f) PROVE TypeInv'
  <2>1. at' \in {"read", "stopped"} /\ (at' = "read" => i \in Places)
    <3>1. f = "latency" => i \in Places
      BY <1>2, PlaceRange, SMT DEF NoReply
    <3> QED
      BY <1>2, <3>1, Zenon DEF NoReply
  <2>2. elapsed' \in Int
    BY <1>2, TimedType DEF NoReply
  <2> QED
    BY <1>2, <2>1, <2>2, SMT DEF NoReply
<1>3. ASSUME NEW f \in Files, OpenFile(f) PROVE TypeInv'
  BY <1>3, FetchFacts, PlaceRange, SMT DEF OpenFile
<1>4. ASSUME NEW f \in Files, ReceiveFile(f) PROVE TypeInv'
  <2>1. PICK c \in {"empty", "bad", "good"} :
          /\ disk' = [disk EXCEPT ![f] = c]
          /\ answer' = IF f = "latency" THEN [answer EXCEPT ![i] = c] ELSE answer
          /\ at' = After[f] \/ at' = "stopped"
    BY <1>4, Zenon DEF ReceiveFile
  <2>2. f = "latency" => i \in Places
    BY <1>4, FetchFacts, Zenon DEF ReceiveFile
  <2>3. at' \in {"servers", "nearest", "read", "stopped"} /\ (at' = "read" => i \in Places)
    BY <2>1, <2>2, FetchFacts, SMT
  <2>4. elapsed' \in Int
    BY <1>4, TimedType DEF ReceiveFile
  <2>5. disk' \in [Files -> {"absent", "empty", "bad", "good"}]
    BY <2>1, SMT
  <2>6. answer' \in [Places -> {"none", "silent", "empty", "bad", "good"}]
    BY <2>1, <2>2, SMT
  <2> QED
    BY <1>4, <2>3, <2>4, <2>5, <2>6, SMT DEF ReceiveFile
<1>5. CASE Nearest
  BY <1>5, SMT DEF Nearest
<1>6. CASE ReadLatency
  <2>1. i \in Places /\ i' \in 0..NEAREST_SERVERS_NUM
    BY <1>6, PlaceRange, SMT DEF ReadLatency
  <2>2. line' \in {"zeros", "bad", "good"}
    BY <1>6, ReadFacts, SMT
  <2>3. latency' \in [Places -> Int]
    <3>1. PICK x \in Int : latency' = [latency EXCEPT ![i] = x]
      BY <1>6, ReadFacts, SMT
    <3> QED
      BY <3>1, <2>1, SMT
  <2>4. disk' = [disk EXCEPT !["latency"] = "absent"] \/ disk' = disk
    BY <1>6, ReadFacts, Zenon
  <2>5. disk' \in [Files -> {"absent", "empty", "bad", "good"}]
    BY <2>4, SMT
  <2>6. stayed' \subseteq Places
    BY <1>6, <2>1, ReadFacts, Zenon
  <2> QED
    BY <1>6, <2>1, <2>2, <2>3, <2>5, <2>6, SMT DEF ReadLatency
<1>7. CASE ProbesDone
  BY <1>7, PlaceRange, SMT DEF ProbesDone
<1>8. CASE Compare
  BY <1>8, PlaceRange, SMT DEF Compare
<1>9. CASE Transfer
  BY <1>9, SMT DEF Transfer
<1>10. CASE Crash
  BY <1>10, SMT DEF Crash
<1>11. CASE RunAgain
  BY <1>11, SMT DEF RunAgain
<1>12. CASE UNCHANGED vars
  BY <1>12, SMT DEF vars
<1> QED
  BY <1>1, <1>2, <1>3, <1>4, <1>5, <1>6, <1>7, <1>8, <1>9, <1>10, <1>11, <1>12
     DEF Next, Terminated

(* Every variable keeps its type. *)
THEOREM Typing == Spec => []TypeInv
  BY TypeInit, TypeNext, PTL DEF Spec

(***************************************************************************)
(* The list.                                                               *)
(***************************************************************************)
HasList == at \in {"nearest", "probe", "recv_latency", "read", "select", "transfer"}

ListInv ==
  /\ HasList => from["servers"] = run \/ "servers" \in unresolved
  /\ at = "recv_servers" => from["servers"] = run

LEMMA ListNext == TypeInv /\ ListInv /\ [Next]_vars => ListInv'
<1> SUFFICES ASSUME TypeInv, ListInv, [Next]_vars PROVE ListInv'
  OBVIOUS
<1> USE DEF TypeInv, TypeOK, ListInv, HasList, files, probes
<1>1. ASSUME NEW f \in Files, Unresolved(f) \/ NoReply(f) \/ OpenFile(f) \/ ReceiveFile(f)
      PROVE  ListInv'
  <2>1. CASE f = "config"
    BY <1>1, <2>1, SMT DEF Unresolved, NoReply, OpenFile, ReceiveFile, Fetching, FetchAt, Receive, After, Files
  <2>2. CASE f = "servers"
    BY <1>1, <2>2, SMT DEF Unresolved, NoReply, OpenFile, ReceiveFile, Fetching, FetchAt, Receive, After, Files
  <2>3. CASE f = "latency"
    BY <1>1, <2>3, SMT DEF Unresolved, NoReply, OpenFile, ReceiveFile, Fetching, FetchAt, Receive, After, Files
  <2> QED
    BY <2>1, <2>2, <2>3 DEF Files
<1>2. CASE Nearest \/ ReadLatency \/ ProbesDone \/ Compare \/ Transfer
  BY <1>2, SMT DEF Nearest, ReadLatency, ProbesDone, Compare, Transfer
<1>3. CASE Crash \/ RunAgain \/ UNCHANGED vars
  BY <1>3, SMT DEF Crash, RunAgain, vars
<1> QED
  BY <1>1, <1>2, <1>3 DEF Next, Terminated

(* A list of an earlier run is used only when the list's host does not resolve. *)
THEOREM FreshList == Spec => []ListIsFresh
<1>1. Init => ListInv
  BY SMT DEF Init, ListInv, HasList
<1>2. Spec => []ListInv
  BY <1>1, Typing, ListNext, PTL DEF Spec
<1>3. ListInv => ListIsFresh
  BY DEF ListInv, HasList, ListIsFresh
<1> QED
  BY <1>2, <1>3, PTL

(***************************************************************************)
(* The latency file.  It is removed when it has been read, so what another *)
(* run left behind is read only for the first server and, while it cannot  *)
(* be removed, for those after it.                                         *)
(***************************************************************************)
BeforeProbe == at \in {"config", "recv_config", "servers", "recv_servers", "nearest", "probe"}

Leftover(k) == IF k = 0 THEN run > 1 ELSE k - 1 \in stayed

FileInv ==
  /\ run >= 1
  /\ at \in {"config", "recv_config", "servers", "recv_servers", "nearest"} => i = 0
  /\ BeforeProbe => disk["latency"] = "absent" \/ Leftover(i)
  /\ at = "read" => disk["latency"] \in {"absent", answer[i]} \/ Inherited(i)
  /\ BeforeProbe \/ at = "recv_latency" => \A k \in Places : k >= i => answer[k] = "none"
  /\ at = "read" => \A k \in Places : k > i => answer[k] = "none"

LEMMA FileInit == Init => FileInv
  BY SMT DEF Init, FileInv, BeforeProbe, Files

LEMMA FileNext == TypeInv /\ FileInv /\ [Next]_vars => FileInv'
<1> SUFFICES ASSUME TypeInv, FileInv, [Next]_vars PROVE FileInv'
  OBVIOUS
<1> USE DEF TypeInv, TypeOK, IndexInTable, FileInv, BeforeProbe, Leftover, Inherited,
            files, probes
<1>1. ASSUME NEW f \in Files, Unresolved(f) \/ NoReply(f) \/ OpenFile(f) \/ ReceiveFile(f)
      PROVE  FileInv'
  <2>1. CASE f = "config"
    BY <1>1, <2>1, SMT DEF Unresolved, NoReply, OpenFile, ReceiveFile, Fetching, FetchAt, Receive, After, Files
  <2>2. CASE f = "servers"
    BY <1>1, <2>2, SMT DEF Unresolved, NoReply, OpenFile, ReceiveFile, Fetching, FetchAt, Receive, After, Files
  <2>3. CASE Unresolved("latency") \/ NoReply("latency")
    BY <2>3, PlaceRange, SMT DEF Unresolved, NoReply, Fetching, FetchAt, After
  <2>4. CASE OpenFile("latency")
    BY <2>4, PlaceRange, SMT DEF OpenFile, Fetching, FetchAt, Receive
  <2>5. CASE ReceiveFile("latency")
    BY <2>5, PlaceRange, SMT DEF ReceiveFile, Receive, After, Files
  <2> QED
    BY <1>1, <2>1, <2>2, <2>3, <2>4, <2>5 DEF Files
<1>2. CASE ReadLatency
  <2>1. i \in Places /\ i' = i + 1 /\ at' = "probe" /\ run' = run /\ answer' = answer
    BY <1>2, SMT DEF ReadLatency
  <2>2. disk'["latency"] = "absent" \/ i \in stayed'
    BY <1>2, ReadFacts, SMT DEF Files
  <2> QED
    BY <1>2, <2>1, <2>2, PlaceRange, SMT DEF ReadLatency
<1>3. CASE Nearest \/ ProbesDone \/ Compare \/ Transfer
  BY <1>3, ChoiceAssumption, SMT DEF Nearest, ProbesDone, Compare, Transfer
<1>4. CASE RunAgain
  BY <1>4, SMT DEF RunAgain
<1>5. CASE Crash \/ UNCHANGED vars
  BY <1>5, SMT DEF Crash, vars
<1> QED
  BY <1>1, <1>2, <1>3, <1>4, <1>5 DEF Next, Terminated

(***************************************************************************)
(* A latency is earned: the line in the buffer, too, came from a server    *)
(* probed before, or from an interrupted run.                              *)
(***************************************************************************)
Answered(j) == answer[j] = "good" \/ Inherited(j)

EarnedInv ==
  /\ LatencyIsEarned
  /\ BeforeProbe \/ at \in {"recv_latency", "read"} =>
       (line = "good" => \E j \in Places : j < i /\ Answered(j))

LEMMA EarnedInit == Init => EarnedInv
  BY PlaceRange, SMT DEF Init, EarnedInv, LatencyIsEarned, Probed

LEMMA EarnedRead ==
  ASSUME TypeInv, FileInv, EarnedInv, ReadLatency
  PROVE  EarnedInv'
<1> USE DEF TypeInv, TypeOK, IndexInTable, FileInv, Answered, Inherited
<1>1. i \in Places /\ i' = i + 1 /\ at = "read" /\ at' = "probe" /\ answer' = answer /\ run' = run
  BY SMT DEF ReadLatency
<1>2. disk["latency"] \in {"absent", "empty", "bad", "good"} /\ stayed \subseteq stayed'
  BY ReadFacts, SMT
<1>3. disk["latency"] \in {"absent", answer[i]} \/ Inherited(i)
  BY <1>1, SMT
<1>4. line = "good" => \E j \in Places : j < i /\ Answered(j)
  BY <1>1, SMT DEF EarnedInv
<1>5. line' = "good" => line = "good" \/ disk["latency"] = "good"
  BY ReadFacts, SMT
<1>6. \A k \in Places : Answered(k) => Answered(k)'
  BY <1>1, <1>2, SMT
<1>7. line' = "good" => \E j \in Places : j < i + 1 /\ Answered(j)'
  <2>1. CASE line = "good"
    <3>1. PICK j \in Places : j < i /\ Answered(j)
      BY <2>1, <1>4
    <3> QED
      BY <3>1, <1>1, <1>6, PlaceRange, SMT
  <2>2. CASE disk["latency"] = "good"
    <3>1. Answered(i)
      BY <2>2, <1>3, SMT
    <3> QED
      BY <3>1, <1>1, <1>6, PlaceRange, SMT
  <2> QED
    BY <2>1, <2>2, <1>5
<1>8. PICK x \in {elapsed, -1} :
        /\ latency' = [latency EXCEPT ![i] = x]
        /\ x # -1 => disk["latency"] = "good" \/ (disk["latency"] = "empty" /\ line = "good")
  BY ReadFacts
<1>9. ASSUME NEW k \in Places, k <= i, latency'[k] # -1
      PROVE  \/ Answered(k)
             \/ answer[k] = "empty" /\ \E j \in Places : j < k /\ Answered(j)
  <2>1. CASE k < i
    <3>1. k \in Probed /\ latency[k] # -1
      BY <2>1, <1>1, <1>8, <1>9, PlaceRange, SMT DEF Probed
    <3> QED
      BY <3>1, Zenon DEF EarnedInv, LatencyIsEarned
  <2>2. CASE k = i
    <3>1. disk["latency"] = "good" \/ (disk["latency"] = "empty" /\ line = "good")
      BY <2>2, <1>1, <1>8, <1>9, SMT
    <3>2. CASE disk["latency"] = "good"
      BY <3>2, <2>2, <1>3, SMT
    <3>3. CASE disk["latency"] = "empty" /\ line = "good"
      BY <3>3, <2>2, <1>3, <1>4, SMT
    <3> QED
      BY <3>1, <3>2, <3>3
  <2> QED
    BY <2>1, <2>2, <1>9, <1>1, PlaceRange, SMT
<1>10. \A k \in Probed' : k \in Places /\ k <= i
  BY <1>1, PlaceRange, SMT DEF Probed
<1>11. ASSUME NEW k \in Places, k <= i, latency'[k] # -1
       PROVE  \/ Answered(k)'
              \/ answer'[k] = "empty" /\ \E j \in Places : j < k /\ Answered(j)'
  BY <1>1, <1>6, <1>9, <1>11, Zenon
<1>12. LatencyIsEarned'
  BY <1>10, <1>11, Zenon DEF LatencyIsEarned
<1> QED
  BY <1>1, <1>7, <1>12, SMT DEF EarnedInv, BeforeProbe

LEMMA EarnedNext == TypeInv /\ FileInv /\ EarnedInv /\ [Next]_vars => EarnedInv'
<1> SUFFICES ASSUME TypeInv, FileInv, EarnedInv, [Next]_vars PROVE EarnedInv'
  OBVIOUS
<1> USE DEF TypeInv, TypeOK, IndexInTable, EarnedInv, LatencyIsEarned, Answered, Inherited,
            Probed, BeforeProbe, files, probes
<1>1. ASSUME NEW f \in Files, Unresolved(f) \/ NoReply(f) \/ OpenFile(f)
      PROVE  EarnedInv'
  <2>1. /\ at \in {"config", "servers", "probe"}
        /\ at' \in {"config", "servers", "nearest", "stopped", "read"} \cup Receiving
        /\ UNCHANGED <<run, i, line, latency, stayed>>
    BY <1>1, FetchFacts, SMT DEF Unresolved, NoReply, OpenFile, Fetching
  <2>2. answer' = answer \/ answer' = [answer EXCEPT ![i] = "silent"]
    BY <1>1, Zenon DEF Unresolved, NoReply, OpenFile
  <2>3. \A k \in Places : k < i => answer'[k] = answer[k]
    BY <2>1, <2>2, PlaceRange, SMT
  <2> QED
    BY <2>1, <2>3, PlaceRange, SMT DEF Receiving
<1>2. ASSUME NEW f \in Files, ReceiveFile(f)
      PROVE  EarnedInv'
  <2>1. /\ at \in Receiving /\ (f = "latency" => at = "recv_latency" /\ i \in Places)
        /\ (f # "latency" => BeforeProbe)
        /\ at' \in {"servers", "nearest", "read", "stopped"}
        /\ UNCHANGED <<run, i, line, latency, stayed>>
    BY <1>2, FetchFacts, SMT DEF ReceiveFile, Receiving
  <2>2. answer' = answer \/ (f = "latency" /\ \E c \in {"empty", "bad", "good"} : answer' = [answer EXCEPT ![i] = c])
    BY <1>2, Zenon DEF ReceiveFile
  <2>3. \A k \in Places : k < i => answer'[k] = answer[k]
    BY <2>1, <2>2, PlaceRange, SMT
  <2> QED
    BY <2>1, <2>3, PlaceRange, SMT DEF Receiving
<1>3. CASE ReadLatency
  BY <1>3, EarnedRead
<1>4. CASE Nearest \/ ProbesDone \/ Compare \/ Transfer
  BY <1>4, PlaceRange, SMT DEF Nearest, ProbesDone, Compare, Transfer
<1>5. CASE RunAgain
  BY <1>5, PlaceRange, SMT DEF RunAgain
<1>6. CASE Crash \/ UNCHANGED vars
  BY <1>6, PlaceRange, SMT DEF Crash, vars, Receiving, Stages
<1> QED
  BY <1>1, <1>2, <1>3, <1>4, <1>5, <1>6 DEF Next, Terminated

(* A server is given a latency for what it sent, but for the two leftovers. *)
THEOREM Earned == Spec => []LatencyIsEarned
<1>1. Spec => []EarnedInv
  BY Typing, FileInit, FileNext, EarnedInit, EarnedNext, PTL DEF Spec
<1>2. EarnedInv => LatencyIsEarned
  BY DEF EarnedInv
<1> QED
  BY <1>1, <1>2, PTL

(***************************************************************************)
(* A latency is measured.  As long as no name has resolved, a first run    *)
(* finds no file; once one has, tv1 and tv2 are set.                       *)
(***************************************************************************)
NothingSent == \A j \in Places : answer[j] = "none"

MeasuredInv ==
  /\ BeforeProbe \/ at \in {"recv_latency", "read"} => elapsed \in Latencies \/ NothingSent
  /\ (BeforeProbe \/ at = "read") /\ NothingSent => disk["latency"] = "absent" \/ run > 1
  /\ LatencyIsMeasured

LEMMA MeasuredInit == Init => MeasuredInv
  BY PlaceRange, SMT DEF Init, MeasuredInv, NothingSent, LatencyIsMeasured, Probed, Files

LEMMA MeasuredRead ==
  ASSUME TypeInv, FileInv, MeasuredInv, ReadLatency
  PROVE  MeasuredInv'
<1> USE DEF TypeInv, TypeOK, IndexInTable, FileInv
<1>1. i \in Places /\ i' = i + 1 /\ at = "read" /\ at' = "probe"
      /\ UNCHANGED <<run, answer, elapsed>>
  BY SMT DEF ReadLatency
<1>2. disk'["latency"] \in {"absent", disk["latency"]}
  BY ReadFacts, SMT DEF Files
<1>3. PICK x \in {elapsed, -1} :
        /\ latency' = [latency EXCEPT ![i] = x]
        /\ x # -1 => disk["latency"] # "absent"
  BY ReadFacts, Zenon
<1>4. ASSUME NEW k \in Places, k <= i
      PROVE  \/ latency'[k] \in Latencies \cup {-1}
             \/ run > 1 /\ \A j \in 0..k : answer[j] = "none"
  <2>1. CASE k < i
    <3>1. k \in Probed /\ latency'[k] = latency[k]
      BY <2>1, <1>1, <1>3, PlaceRange, SMT DEF Probed
    <3> QED
      BY <3>1, Zenon DEF MeasuredInv, LatencyIsMeasured
  <2>2. CASE k = i
    <3>1. \A j \in 0..k : j \in Places
      BY <1>4, PlacesBelow
    <3>2. latency'[k] = x
      BY <1>1, <1>3, <2>2, SMT
    <3>3. x \in Latencies \cup {-1} \/ (run > 1 /\ NothingSent)
      BY <1>1, <1>3, SMT DEF MeasuredInv
    <3> QED
      BY <3>1, <3>2, <3>3, Zenon DEF NothingSent
  <2> QED
    BY <2>1, <2>2, <1>1, <1>4, PlaceRange, SMT
<1>5. \A k \in Probed' : k \in Places /\ k <= i
  BY <1>1, PlaceRange, SMT DEF Probed
<1>6. LatencyIsMeasured'
  BY <1>1, <1>4, <1>5, Zenon DEF LatencyIsMeasured
<1> QED
  BY <1>1, <1>2, <1>6, SMT DEF MeasuredInv, BeforeProbe, NothingSent

LEMMA MeasuredNext == TypeInv /\ FileInv /\ MeasuredInv /\ [Next]_vars => MeasuredInv'
<1> SUFFICES ASSUME TypeInv, FileInv, MeasuredInv, [Next]_vars PROVE MeasuredInv'
  OBVIOUS
<1> USE DEF TypeInv, TypeOK, IndexInTable, FileInv, MeasuredInv, LatencyIsMeasured, NothingSent,
            Probed, BeforeProbe, files, probes
<1>1. ASSUME NEW f \in Files, f # "latency",
             Unresolved(f) \/ NoReply(f) \/ OpenFile(f) \/ ReceiveFile(f)
      PROVE  MeasuredInv'
  <2>1. /\ at \in {"config", "servers", "recv_config", "recv_servers"}
        /\ at' \in {"servers", "nearest", "stopped", "recv_config", "recv_servers"}
        /\ UNCHANGED <<run, i, latency, answer, elapsed>> /\ disk'["latency"] = disk["latency"]
    BY <1>1, SMT DEF Unresolved, NoReply, OpenFile, ReceiveFile, Fetching, Timed,
                     FetchAt, Receive, After, Files
  <2> QED
    BY <2>1, SMT
<1>2. CASE Unresolved("latency") \/ OpenFile("latency")
  <2>1. /\ at = "probe" /\ at' \in {"read", "recv_latency"}
        /\ UNCHANGED <<run, i, latency, answer, elapsed>>
        /\ at' = "read" => disk' = disk
    BY <1>2, SMT DEF Unresolved, OpenFile, Fetching, FetchAt, Receive, After
  <2> QED
    BY <2>1, SMT
<1>3. CASE NoReply("latency") \/ ReceiveFile("latency")
  <2>1. /\ at \in {"probe", "recv_latency"} /\ at' = "read" /\ elapsed' \in Latencies
        /\ UNCHANGED <<run, i, latency>> /\ i \in Places
    BY <1>3, PlaceRange, SMT DEF NoReply, ReceiveFile, Fetching, Timed, FetchAt, Receive, After
  <2>2. PICK c \in {"silent", "empty", "bad", "good"} : answer' = [answer EXCEPT ![i] = c]
    BY <1>3, Zenon DEF NoReply, ReceiveFile
  <2>3. answer'[i] # "none" /\ \A k \in Places : k < i => answer'[k] = answer[k]
    BY <2>1, <2>2, PlaceRange, SMT
  <2>4. ASSUME NEW k \in Probed
        PROVE  \A j \in 0..k : j \in Places /\ j < i
    <3>1. k \in Places /\ k < i
      BY <2>1, SMT
    <3>2. k \in Int /\ i \in Int
      BY <3>1, PlaceRange, SMT
    <3>3. \A j \in 0..k : j < i
      BY <3>1, <3>2, SMT
    <3> QED
      BY <3>1, <3>3, PlacesBelow
  <2>5. Probed' = Probed
    BY <2>1, SMT
  <2>6. LatencyIsMeasured'
    BY <2>1, <2>3, <2>4, <2>5, Zenon
  <2> QED
    BY <2>1, <2>3, <2>6, SMT
<1>4. CASE ReadLatency
  BY <1>4, MeasuredRead
<1>5. CASE Nearest \/ ProbesDone \/ Compare \/ Transfer
  BY <1>5, PlaceRange, SMT DEF Nearest, ProbesDone, Compare, Transfer
<1>6. CASE RunAgain
  BY <1>6, PlaceRange, SMT DEF RunAgain
<1>7. CASE Crash \/ UNCHANGED vars
  BY <1>7, PlaceRange, SMT DEF Crash, vars, Receiving, Stages
<1> QED
  BY <1>1, <1>2, <1>3, <1>4, <1>5, <1>6, <1>7 DEF Next, Terminated

(* A latency is measured, unless no name has resolved and an earlier run left its file. *)
THEOREM Measured == Spec => []LatencyIsMeasured
<1>1. Spec => []MeasuredInv
  BY Typing, FileInit, FileNext, MeasuredInit, MeasuredNext, PTL DEF Spec
<1>2. MeasuredInv => LatencyIsMeasured
  BY DEF MeasuredInv
<1> QED
  BY <1>1, <1>2, PTL

(***************************************************************************)
(* The choice: while the nearest server answered, so did the best of those *)
(* compared so far, and none of them is faster.                            *)
(***************************************************************************)
BestSoFar ==
  latency[0] # -1 =>
    /\ latency[best] # -1
    /\ \A k \in Places : k < i /\ latency[k] # -1 => latency[best] <= latency[k]

BestInv == at \in {"select", "transfer"} => best \in Places /\ BestSoFar
        /\ (at = "transfer" => i = NEAREST_SERVERS_NUM) /\ i >= 1

LEMMA BestNext == TypeInv /\ BestInv /\ [Next]_vars => BestInv'
<1> SUFFICES ASSUME TypeInv, BestInv, [Next]_vars PROVE BestInv'
  OBVIOUS
<1> USE DEF TypeInv, TypeOK, IndexInTable, BestInv, BestSoFar, files, probes
<1>1. ASSUME NEW f \in Files, Unresolved(f) \/ NoReply(f) \/ OpenFile(f) \/ ReceiveFile(f)
      PROVE  BestInv'
  <2>1. at' \in {"config", "servers", "nearest", "stopped", "read"} \cup Receiving
    BY <1>1, FetchFacts, SMT DEF Unresolved, NoReply, OpenFile, ReceiveFile
  <2> QED
    BY <2>1, SMT DEF Receiving
<1>2. CASE Compare
  BY <1>2, PlaceRange, SMT DEF Compare
<1>3. CASE ProbesDone
  BY <1>3, ChoiceAssumption, PlaceRange, SMT DEF ProbesDone
<1>4. CASE Nearest \/ ReadLatency \/ Transfer
  BY <1>4, SMT DEF Nearest, ReadLatency, Transfer
<1>5. CASE Crash \/ RunAgain \/ UNCHANGED vars
  BY <1>5, SMT DEF Crash, RunAgain, vars
<1> QED
  BY <1>1, <1>2, <1>3, <1>4, <1>5 DEF Next, Terminated

(* If the nearest server answered, so did the best, and none that did is faster. *)
THEOREM Fastest == Spec => []BestIsFastest
<1>1. Init => BestInv
  BY SMT DEF Init, BestInv
<1>2. Spec => []BestInv
  BY <1>1, Typing, BestNext, PTL DEF Spec
<1>3. TypeInv /\ BestInv => BestIsFastest
  BY PlaceRange, SMT DEF TypeInv, TypeOK, BestInv, BestSoFar, BestIsFastest
<1> QED
  BY <1>2, <1>3, Typing, PTL
=============================================================================
