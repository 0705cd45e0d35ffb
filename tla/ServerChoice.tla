----------------------------- MODULE ServerChoice -----------------------------
(***************************************************************************)
(* run_proc of 8_Mini-project up to the transfers: it fetches the client's *)
(* configuration and the list of servers, takes the nearest ones           *)
(* (NearestServers), times a small file on each (get_best_server) and      *)
(* chooses one.                                                            *)
(*                                                                         *)
(* What is fetched goes through fixed files under /tmp, which outlive the  *)
(* process: it may be killed at any point, and run again.                  *)
(***************************************************************************)
EXTENDS Integers

CONSTANTS
  NEAREST_SERVERS_NUM,  \* servers that are probed
  Latencies,            \* what a probe may take
  Garbage,              \* tv2 - tv1 while tv1 and tv2 are uninitialized
  MaxRuns               \* bound: runs of the program

ASSUME ChoiceAssumption ==
  /\ NEAREST_SERVERS_NUM \in Nat \ {0, 1}
  /\ Latencies \subseteq Nat /\ Latencies # {}
  /\ Garbage \subseteq Int /\ Garbage # {}
  /\ MaxRuns \in Nat

Places == 0..(NEAREST_SERVERS_NUM - 1)
Files  == {"config", "servers", "latency"}

VARIABLES
  run,        \* which run this is
  at,         \* where run_proc is
  disk,       \* each file: "absent", "empty", or with "bad" or "good" content
  i,          \* the loop index of get_best_server
  line,       \* what the last fgets that read something left in the buffer
  elapsed,    \* tv2 - tv1
  latency,    \* nearest_servers[i].latency
  best,       \* best_index
  target,     \* the server the transfers use
  from,       \* history: the run that wrote each file
  unresolved, \* history: the files whose host did not resolve in this run
  answer,     \* history: what each server sent when it was probed
  stayed      \* history: the servers after which the latency file could not be removed

files   == <<disk, from, stayed>>
probes  == <<line, elapsed, latency, answer>>
vars == <<run, at, i, unresolved, best, target, files, probes>>

Stages == {"config", "servers", "nearest", "probe", "read", "select"}
Receiving == {"recv_config", "recv_servers", "recv_latency"}

Init ==
  /\ run = 1 /\ at = "config"
  /\ i = 0 /\ best = -1 /\ target = -1
  /\ line = "zeros"
  /\ elapsed \in Garbage
  /\ latency = [k \in Places |-> 0]
  /\ answer = [k \in Places |-> "none"]
  /\ unresolved = {}
  /\ disk = [f \in Files |-> "absent"]
  /\ from = [f \in Files |-> 0]
  /\ stayed = {}
-----------------------------------------------------------------------------
(* Fetching a file: get_ipv4_addr, then get_http_file or get_https_file.     *)

FetchAt == [config |-> "config", servers |-> "servers", latency |-> "probe"]
Receive == [config |-> "recv_config", servers |-> "recv_servers", latency |-> "recv_latency"]
After   == [config |-> "servers", servers |-> "nearest", latency |-> "read"]

Fetching(f) == at = FetchAt[f] /\ (f = "latency" => i < NEAREST_SERVERS_NUM)

\* The host does not resolve: the fetch is skipped and nobody is told.
Unresolved(f) ==
  /\ Fetching(f)
  /\ unresolved' = unresolved \cup {f}
  /\ at' = After[f]
  /\ UNCHANGED <<run, i, best, target, files, probes>>

\* Fault: the clock is read again only when something has been received.
FaultTimed(f) == IF at = "recv_latency" THEN elapsed' \in Latencies ELSE UNCHANGED elapsed

\* Only a probe is timed, whatever becomes of it.
Timed(f) == IF f = "latency" THEN elapsed' \in Latencies ELSE UNCHANGED elapsed

\* Fault: run_proc goes on without the file.
FaultGoOn(f) ==
  /\ Fetching(f)
  /\ at' = After[f]
  /\ Timed(f)
  /\ UNCHANGED <<run, i, unresolved, best, target, files, line, latency, answer>>

\* socket, connect, send or fopen fails.
NoReply(f) ==
  /\ Fetching(f)
  /\ at' = IF f = "latency" THEN "read" ELSE "stopped"
  /\ answer' = IF f = "latency" THEN [answer EXCEPT ![i] = "silent"] ELSE answer
  /\ Timed(f)
  /\ UNCHANGED <<run, i, unresolved, best, target, files, line, latency>>

\* The request is sent, and fopen "w+" has emptied the file.
OpenFile(f) ==
  /\ Fetching(f)
  /\ disk' = [disk EXCEPT ![f] = "empty"]
  /\ from' = [from EXCEPT ![f] = run]
  /\ at' = Receive[f]
  /\ UNCHANGED <<run, i, unresolved, best, target, stayed, probes>>

\* Whatever came until the end or an error is in the file; only get_https_file, which
\* probes do not use, returns 0 on an error.
ReceiveFile(f) ==
  /\ at = Receive[f]
  /\ \E c \in {"empty", "bad", "good"} :
       /\ disk' = [disk EXCEPT ![f] = c]
       /\ answer' = IF f = "latency" THEN [answer EXCEPT ![i] = c] ELSE answer
       /\ at' \in {After[f]} \cup (IF f # "latency" /\ c # "good" THEN {"stopped"} ELSE {})
  /\ Timed(f)
  /\ UNCHANGED <<run, i, unresolved, best, target, from, stayed, line, latency>>
-----------------------------------------------------------------------------
(* Choosing a server. *)

\* get_nearest_server finds servers in the file, or none: "bad" may go either way, and
\* fopen may fail.
Nearest ==
  /\ at = "nearest"
  /\ at' \in {"stopped"} \cup (IF disk["servers"] \in {"good", "bad"} THEN {"probe"} ELSE {})
  /\ UNCHANGED <<run, i, unresolved, best, target, files, probes>>

\* No such file, or fopen fails.
NotOpened ==
  /\ latency' = [latency EXCEPT ![i] = -1]
  /\ stayed' = IF disk["latency"] = "absent" THEN stayed ELSE stayed \cup {i}
  /\ UNCHANGED <<disk, line>>

\* fgets leaves the buffer as it is when the file is empty.
LineRead ==
  /\ disk["latency"] # "absent"
  /\ line' = IF disk["latency"] = "empty" THEN line ELSE disk["latency"]
  /\ latency' = [latency EXCEPT ![i] = IF line' = "good" THEN elapsed ELSE -1]

\* Fault: the latency file is not removed.
FaultNotUnlinked(f) == disk

Unlinked(f) == [disk EXCEPT ![f] = "absent"]

\* The file is removed; nobody looks whether it was.
ReadLatency ==
  /\ at = "read"
  /\ \/ NotOpened
     \/ LineRead /\ disk' = Unlinked("latency") /\ UNCHANGED stayed
     \/ LineRead /\ stayed' = stayed \cup {i} /\ UNCHANGED disk
  /\ i' = i + 1
  /\ at' = "probe"
  /\ UNCHANGED <<run, unresolved, best, target, from, elapsed, answer>>

ProbesDone ==
  /\ at = "probe"
  /\ i = NEAREST_SERVERS_NUM
  /\ i' = 1
  /\ best' = 0
  /\ at' = "select"
  /\ UNCHANGED <<run, unresolved, target, files, probes>>

\* Fault: a server that did not answer counts as fast.
FaultDeadIsFast(j, k) == latency[j] < latency[k]

Faster(j, k) == latency[j] < latency[k] /\ latency[j] # -1

Compare ==
  /\ at = "select"
  /\ i < NEAREST_SERVERS_NUM
  /\ best' = IF Faster(i, best) THEN i ELSE best
  /\ i' = i + 1
  /\ UNCHANGED <<run, at, unresolved, target, files, probes>>

\* best_server_index # -1, always: the index is printed, and nearest_servers[1] used.
Transfer ==
  /\ at = "select"
  /\ i = NEAREST_SERVERS_NUM
  /\ target' = 1
  /\ at' = "transfer"
  /\ UNCHANGED <<run, i, unresolved, best, files, probes>>

\* The process is killed; the kernel keeps the files, and stdio's buffer is lost with it.
Crash ==
  /\ at \in Stages \cup Receiving
  /\ at' = "stopped"
  /\ \/ UNCHANGED disk
     \/ \E f \in Files : at = Receive[f] /\ \E c \in {"bad", "good"} : disk' = [disk EXCEPT ![f] = c]
  /\ UNCHANGED <<run, i, unresolved, best, target, from, stayed, probes>>

RunAgain ==
  /\ at \in {"stopped", "transfer"}
  /\ run < MaxRuns
  /\ run' = run + 1 /\ at' = "config"
  /\ i' = 0 /\ best' = -1 /\ target' = -1
  /\ line' = "zeros"
  /\ elapsed' \in Garbage
  /\ latency' = [k \in Places |-> 0]
  /\ answer' = [k \in Places |-> "none"]
  /\ unresolved' = {}
  /\ stayed' = {}
  /\ UNCHANGED <<disk, from>>

Terminated == at \in {"stopped", "transfer"} /\ run >= MaxRuns /\ UNCHANGED vars

Next ==
  \/ \E f \in Files : Unresolved(f) \/ NoReply(f) \/ OpenFile(f) \/ ReceiveFile(f)
  \/ Nearest \/ ReadLatency \/ ProbesDone \/ Compare \/ Transfer
  \/ Crash \/ RunAgain \/ Terminated

Spec == Init /\ [][Next]_vars
-----------------------------------------------------------------------------
(* Properties. *)

TypeOK ==
  /\ run \in Nat
  /\ at \in Stages \cup Receiving \cup {"stopped", "transfer"}
  /\ disk \in [Files -> {"absent", "empty", "bad", "good"}]
  /\ from \in [Files -> Nat]
  /\ i \in 0..NEAREST_SERVERS_NUM
  /\ line \in {"zeros", "bad", "good"}
  /\ elapsed \in Int
  /\ latency \in [Places -> Int]
  /\ answer \in [Places -> {"none", "silent", "empty", "bad", "good"}]
  /\ best \in Places \cup {-1} /\ target \in {-1, 1}
  /\ unresolved \subseteq Files /\ stayed \subseteq Places

\* The servers that have been probed in this run.
Probed == IF at \in {"select", "transfer"} THEN Places
          ELSE {k \in Places : k < i}

\* A server that sent nothing finds the file of an earlier run, or one that could not be
\* removed after the server before.
Inherited(k) ==
  /\ answer[k] \in {"none", "silent"}
  /\ IF k = 0 THEN run > 1 ELSE k - 1 \in stayed

(* A server is given a latency only for its own answer, but for two leftovers: a file    *)
(* that was not removed, and, for one that sends an empty file, the line read before.    *)
LatencyIsEarned ==
  \A k \in Probed : latency[k] # -1 =>
    \/ answer[k] = "good" \/ Inherited(k)
    \/ answer[k] = "empty" /\ \E j \in Places : j < k /\ (answer[j] = "good" \/ Inherited(j))

(* tv1 and tv2 are set only for a server whose name resolves.  A latency is a time that  *)
(* was measured in this run, unless no name has resolved up to that server: then the     *)
(* file of an earlier run stands for an answer and the time is uninitialized.            *)
LatencyIsMeasured ==
  \A k \in Probed :
    \/ latency[k] \in Latencies \cup {-1}
    \/ run > 1 /\ \A j \in 0..k : answer[j] = "none"

(* If the nearest server answered, so did the best, and no server that did is faster. *)
BestIsFastest ==
  at = "transfer" /\ latency[0] # -1 =>
    /\ latency[best] # -1
    /\ \A k \in Places : latency[k] # -1 => latency[best] <= latency[k]

(* The servers come from a list of an earlier run only if the list's host did not resolve. *)
ListIsFresh ==
  at \in {"probe", "recv_latency", "read", "select", "transfer"} =>
    from["servers"] = run \/ "servers" \in unresolved
=============================================================================
