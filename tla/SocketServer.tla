----------------------------- MODULE SocketServer -----------------------------
(***************************************************************************)
(* 7_socket: the echo server, whose main thread accepts connections and    *)
(* starts a handle_client thread for each, and the clients (client.c).     *)
(*                                                                         *)
(* Main and the handlers share client_count, which is changed without a    *)
(* lock and is the index into client_sockets; a handler is passed the      *)
(* address of its element and reads it when it first runs.  Descriptors    *)
(* are the process's: the lowest free one is given to the next connection. *)
(* Connections are numbered in the order in which they come, and the       *)
(* thread created after the n-th was accepted is thread n.                 *)
(***************************************************************************)
EXTENDS Integers, FiniteSets

CONSTANTS
  MAX_CLIENTS,  \* length of client_sockets
  MaxConns,     \* bound: connections that come
  Talkers       \* bound: those of them whose clients send anything

ASSUME ServerAssumption ==
  /\ MAX_CLIENTS \in Nat \ {0}
  /\ MaxConns \in Nat

ASSUME TalkersAssumption == Talkers \subseteq 1..MaxConns

Conns   == 1..MaxConns
Fds     == 1..MaxConns        \* the first descriptors that main leaves free
Indices == 0..(MAX_CLIENTS - 1)

VARIABLES
  main,            \* where the main thread is; "over" once the process has ended,
                   \* "undefined" once it used an index below 0
  index,           \* client_count as main has loaded it
  client_count,
  client_sockets,
  accepted,        \* connections that accept has returned
  pc,              \* where each handler is
  slot,            \* its arg: the index of the element it points to
  client_socket,   \* its local of that name
  from,            \* the connection its read is on
  loaded,          \* client_count as client_count-- has loaded it
  peer,            \* the connection of each descriptor, 0 if it is free
  arrived,         \* connections that have come
  client,          \* where each client is
  asked,           \* the connections with a message for the server
  answered,        \* the connections with a message for the client
  closed,          \* history: the handlers that read the end of their connection
  torn,            \* history: 1 once a change of client_count was lost
  overlap          \* history: 1 once a connection came before the one before it was done

mainVars    == <<index, client_sockets, accepted, overlap>>
locals      == <<client_socket, from, loaded>>
handlerVars == <<pc, slot, locals, closed>>
clientVars  == <<arrived, client>>
messages    == <<asked, answered>>
counter     == <<client_count, torn>>
vars == <<main, mainVars, handlerVars, clientVars, messages, counter, peer>>

Init ==
  /\ main = "index" /\ index = 0
  /\ client_sockets = [i \in Indices |-> 0]
  /\ accepted = 0 /\ arrived = 0
  /\ pc = [n \in Conns |-> "none"]
  /\ slot = [n \in Conns |-> 0]
  /\ client_socket = [n \in Conns |-> -1]
  /\ from = [n \in Conns |-> 0]
  /\ loaded = [n \in Conns |-> 0]
  /\ client = [n \in Conns |-> "off"]
  /\ asked = {} /\ answered = {}
  /\ client_count = 0
  /\ peer = [f \in Fds |-> 0]
  /\ closed = {} /\ torn = 0 /\ overlap = 0

ProcessRuns == main \notin {"over", "undefined"}

PeerOf(f) == IF f \in Fds THEN peer[f] ELSE 0
-----------------------------------------------------------------------------
(* The main thread. *)

\* gcc evaluates the index of the element that is assigned to before it calls accept.
EvalIndex ==
  /\ main = "index"
  /\ index' = client_count
  /\ main' = IF client_count < 0 THEN "undefined" ELSE "accept"
  /\ UNCHANGED <<client_sockets, accepted, overlap, pc, slot, counter, peer>>

ConnectionWaits == accepted < arrived

LowestFree == CHOOSE f \in Fds : peer[f] = 0 /\ \A g \in Fds : g < f => peer[g] # 0

\* accept fails for a connection that its client gave up.
Accept ==
  /\ main = "accept"
  /\ ConnectionWaits
  /\ accepted' = accepted + 1
  /\ \/ /\ client_sockets' = [client_sockets EXCEPT ![index] = LowestFree]
        /\ peer' = [peer EXCEPT ![LowestFree] = accepted + 1]
     \/ /\ client[accepted + 1] = "gone"
        /\ client_sockets' = [client_sockets EXCEPT ![index] = -1]
        /\ UNCHANGED peer
  /\ overlap' = IF \A n \in Conns : pc[n] \in {"none", "done"} THEN overlap ELSE 1
  /\ main' = "check"
  /\ UNCHANGED <<index, pc, slot, counter>>

\* The result is looked for at client_count as it is now.
CheckAccepted ==
  /\ main = "check"
  /\ main' = IF client_count < 0 THEN "undefined"
             ELSE IF client_sockets[client_count] < 0 THEN "over" ELSE "create"
  /\ UNCHANGED <<mainVars, pc, slot, counter, peer>>

\* And so is the element whose address the thread gets.
CreateThread ==
  /\ main = "create"
  /\ \/ /\ client_count >= 0
        /\ slot' = [slot EXCEPT ![accepted] = client_count]
        /\ pc' = [pc EXCEPT ![accepted] = "start"]
        /\ main' = "load"
     \/ client_count < 0 /\ main' = "undefined" /\ UNCHANGED <<slot, pc>>
     \/ main' = "over" /\ UNCHANGED <<slot, pc>>             \* pthread_create failed
  /\ UNCHANGED <<mainVars, counter, peer>>

\* client_count++
LoadForIncrement ==
  /\ main = "load"
  /\ index' = client_count
  /\ main' = "increment"
  /\ UNCHANGED <<client_sockets, accepted, overlap, pc, slot, counter, peer>>

Increment ==
  /\ main = "increment"
  /\ client_count' = index + 1
  /\ torn' = IF client_count = index THEN torn ELSE 1
  /\ main' = "limit"
  /\ UNCHANGED <<mainVars, pc, slot, peer>>

\* Fault: one connection too many is let in.
FaultOneMore == client_count > MAX_CLIENTS

LimitReached == client_count >= MAX_CLIENTS

\* At the limit main returns, and the process ends with its handlers.
CheckLimit ==
  /\ main = "limit"
  /\ main' = IF LimitReached THEN "over" ELSE "index"
  /\ UNCHANGED <<mainVars, pc, slot, counter, peer>>

Main ==
  /\ \/ EvalIndex \/ Accept \/ CheckAccepted \/ CreateThread
     \/ LoadForIncrement \/ Increment \/ CheckLimit
  /\ UNCHANGED <<locals, closed, clientVars, messages>>
-----------------------------------------------------------------------------
(* handle_client. *)

\* What a handler leaves alone in every step; only Reply may change main.
HandlerStep(n, here, there) ==
  /\ ProcessRuns
  /\ pc[n] = here
  /\ pc' = [pc EXCEPT ![n] = there]
  /\ UNCHANGED <<mainVars, clientVars>>

ReadSlot(n) ==
  /\ HandlerStep(n, "start", "call")
  /\ client_socket' = [client_socket EXCEPT ![n] = client_sockets[slot[n]]]
  /\ UNCHANGED <<main, slot, from, loaded, closed, messages, counter, peer>>

\* read waits on the connection that the descriptor stands for when it is called.
CallRead(n) ==
  /\ HandlerStep(n, "call", IF PeerOf(client_socket[n]) = 0 THEN "close" ELSE "read")
  /\ from' = [from EXCEPT ![n] = PeerOf(client_socket[n])]
  /\ UNCHANGED <<main, slot, client_socket, loaded, closed, messages, counter, peer>>

Message(n) ==
  /\ HandlerStep(n, "read", "reply")
  /\ from[n] \in asked
  /\ asked' = asked \ {from[n]}
  /\ UNCHANGED <<main, slot, locals, closed, answered, counter, peer>>

EndOfFile(n) ==
  /\ HandlerStep(n, "read", "load")
  /\ client[from[n]] = "gone" /\ from[n] \notin asked
  /\ closed' = closed \cup {n}
  /\ UNCHANGED <<main, slot, locals, messages, counter, peer>>

\* Fault: client_count is lowered for a failed read too.
FaultErrorCounts(n) ==
  /\ HandlerStep(n, "read", "load")
  /\ client[from[n]] = "gone"
  /\ UNCHANGED <<main, slot, locals, closed, messages, counter, peer>>

\* The connection was reset: client_count stays as it is.
ReadError(n) ==
  /\ HandlerStep(n, "read", "close")
  /\ client[from[n]] = "gone"
  /\ UNCHANGED <<main, slot, locals, closed, messages, counter, peer>>

\* Fault: nothing is sent back.
FaultNoReply(n) ==
  /\ HandlerStep(n, "reply", "call")
  /\ UNCHANGED <<main, slot, locals, closed, messages, counter, peer>>

\* The write may fail: on a descriptor that another handler has closed, or a connection
\* its client has left; the latter may end the process (SIGPIPE).
Reply(n) ==
  LET to == PeerOf(client_socket[n])
  IN  /\ HandlerStep(n, "reply", "call")
      /\ IF to # 0 /\ client[to] # "gone"
         THEN answered' = answered \cup {to} /\ UNCHANGED main
         ELSE UNCHANGED answered /\ main' \in {main} \cup (IF to # 0 THEN {"over"} ELSE {})
      /\ UNCHANGED <<slot, locals, closed, asked, counter, peer>>

\* client_count--
LoadForDecrement(n) ==
  /\ HandlerStep(n, "load", "decrement")
  /\ loaded' = [loaded EXCEPT ![n] = client_count]
  /\ UNCHANGED <<main, slot, client_socket, from, closed, messages, counter, peer>>

Decrement(n) ==
  /\ HandlerStep(n, "decrement", "close")
  /\ client_count' = loaded[n] - 1
  /\ torn' = IF client_count = loaded[n] THEN torn ELSE 1
  /\ UNCHANGED <<main, slot, locals, closed, messages, peer>>

\* Fault: the socket is not closed.
FaultNotClosed(f) == peer

Closed(f) == IF f \in Fds THEN [peer EXCEPT ![f] = 0] ELSE peer

\* close, whoever has the descriptor by then; the thread returns, its stack with it.
Close(n) ==
  /\ HandlerStep(n, "close", "done")
  /\ peer' = Closed(client_socket[n])
  /\ slot' = [slot EXCEPT ![n] = 0]
  /\ client_socket' = [client_socket EXCEPT ![n] = -1]
  /\ from' = [from EXCEPT ![n] = 0]
  /\ loaded' = [loaded EXCEPT ![n] = 0]
  /\ UNCHANGED <<main, closed, messages, counter>>

Handler(n) ==
  \/ ReadSlot(n) \/ CallRead(n) \/ Message(n) \/ EndOfFile(n) \/ ReadError(n) \/ Reply(n)
  \/ LoadForDecrement(n) \/ Decrement(n) \/ Close(n)
-----------------------------------------------------------------------------
(* client.c: a message is sent only after the answer to the one before.  What a client    *)
(* does after the end of the server is not modelled: its connection is closed then.      *)

ClientStep(n, here, there) ==
  /\ ProcessRuns
  /\ client[n] = here
  /\ client' = [client EXCEPT ![n] = there]
  /\ UNCHANGED <<main, mainVars, handlerVars, counter, peer>>

Connect ==
  /\ arrived < MaxConns
  /\ arrived' = arrived + 1
  /\ ClientStep(arrived + 1, "off", "prompt")
  /\ UNCHANGED messages

\* An empty line sends nothing, and its answer is waited for all the same.
Send(n) ==
  /\ n \in Talkers
  /\ ClientStep(n, "prompt", "wait")
  /\ asked' \in {asked, asked \cup {n}}
  /\ UNCHANGED <<arrived, answered>>

Receive(n) ==
  /\ n \in answered
  /\ ClientStep(n, "wait", "prompt")
  /\ answered' = answered \ {n}
  /\ UNCHANGED <<arrived, asked>>

\* "exit", the end of the client's process, or a read that finds the connection ended: the
\* client closes its socket, and what a client does needs no reason here.
Leave(n) ==
  /\ ClientStep(n, "prompt", "gone") \/ ClientStep(n, "wait", "gone")
  /\ answered' = answered \ {n}
  /\ UNCHANGED <<arrived, asked>>

Client(n) == Send(n) \/ Receive(n) \/ Leave(n)

Next == Main \/ Connect \/ \E n \in Conns : Handler(n) \/ Client(n)

Spec == Init /\ [][Next]_vars

\* The server's threads run.  Nothing is assumed of the clients.
Fairness == WF_vars(Main) /\ \A n \in Conns : WF_vars(Handler(n))

FairSpec == Spec /\ Fairness
-----------------------------------------------------------------------------
(* Properties. *)

TypeOK ==
  /\ main \in {"index", "accept", "check", "create", "load", "increment", "limit",
               "over", "undefined"}
  /\ index \in Int /\ client_count \in Int
  /\ client_sockets \in [Indices -> Fds \cup {-1, 0}]
  /\ accepted \in 0..arrived /\ arrived \in 0..MaxConns
  /\ pc \in [Conns -> {"none", "start", "call", "read", "reply", "load", "decrement",
                       "close", "done"}]
  /\ slot \in [Conns -> Indices]
  /\ client_socket \in [Conns -> Fds \cup {-1, 0}]
  /\ from \in [Conns -> 0..MaxConns] /\ loaded \in [Conns -> Int]
  /\ peer \in [Fds -> 0..MaxConns]
  /\ client \in [Conns -> {"off", "prompt", "wait", "gone"}]
  /\ asked \subseteq Conns /\ answered \subseteq Conns
  /\ closed \subseteq Conns /\ torn \in {0, 1} /\ overlap \in {0, 1}

(* However the changes of client_count interleave, main never uses an index behind the *)
(* end of client_sockets.                                                               *)
IndexInArray ==
  /\ client_count <= MAX_CLIENTS
  /\ main \in {"check", "create", "load"} => client_count < MAX_CLIENTS
  /\ main \in {"accept", "check", "create", "load", "increment"} => index < MAX_CLIENTS

\* The threads that main has counted, and those that have uncounted themselves.
Counted   == {n \in Conns : pc[n] # "none" /\ ~(n = accepted /\ main \in {"load", "increment"})}
Uncounted == {n \in closed : pc[n] \notin {"load", "decrement"}}

(* Unless a change was lost, client_count is the number of threads without those whose  *)
(* client closed its connection; one whose read failed is counted for ever.             *)
CountIsAccurate ==
  torn = 0 /\ ProcessRuns => client_count = Cardinality(Counted) - Cardinality(Uncounted)

Excused == torn = 1 \/ (overlap = 1 /\ closed # {})

\* What main's comment "Create a new thread to handle the client" says.
HandlesItsClient ==
  \A n \in Conns : pc[n] \in {"call", "read", "reply", "load", "decrement"} =>
    PeerOf(client_socket[n]) \in {n} \cup (IF client[n] = "gone" THEN {0} ELSE {})

(* While nobody closes a connection, or there never are two at once, a thread serves the *)
(* connection it was created for, though main goes by client_count three times.          *)
OwnClient == ~Excused => HandlesItsClient

(* With the same exceptions, a message that was sent is answered, or the server ends. *)
MessageAnswered ==
  \A n \in Conns : n \in asked ~> n \in answered \/ client[n] = "gone" \/ ~ProcessRuns \/ Excused
=============================================================================
