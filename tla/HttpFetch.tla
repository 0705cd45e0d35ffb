------------------------------ MODULE HttpFetch -------------------------------
(***************************************************************************)
(* get_http_file and get_https_file of 8_Mini-project: a response arrives  *)
(* in pieces cut anywhere, and each recv is written to the file at once;   *)
(* in each, all up to a first "\r\n\r\n" is taken for the header and left  *)
(* out.                                                                    *)
(*                                                                         *)
(* A response is known by the places of its bytes: 1..size, of which       *)
(* 1..header are the header with its "\r\n\r\n".  That mark stands for two *)
(* bytes here, so that it can be cut in the middle.                        *)
(***************************************************************************)
EXTENDS Integers

CONSTANTS
  Buffer,     \* sizeof(rbuf)
  MaxSize     \* bound: bytes of a response

ASSUME FetchAssumption ==
  /\ Buffer \in Nat \ {0}
  /\ MaxSize \in Nat

VARIABLES
  size,      \* bytes of the response
  header,    \* where its header ends
  blanks,    \* where each "\r\n\r\n" in its body ends
  protocol,  \* "http" or "https"
  state,     \* "connect", "receive", the value returned: "0" or "1", or "crashed"
  received,  \* bytes taken from the socket
  file,      \* the bytes of the response that are in the file
  junk,      \* 1 once bytes from beyond rbuf are in the file
  late,      \* history: the bytes received after select timed out
  overrun,   \* history: the bytes received in a recv that filled rbuf
  cuts       \* history: after which bytes a recv ended

response == <<size, header, blanks, protocol>>
history  == <<late, overrun, cuts>>
fetchVars == <<response, state, received, file, junk, history>>

FetchInit ==
  /\ size \in 0..MaxSize
  /\ header \in 2..MaxSize /\ header <= size
  /\ blanks \in SUBSET {t \in 1..size : t >= header + 2}
  /\ \A t \in blanks : t + 1 \notin blanks
  /\ protocol \in {"http", "https"}
  /\ state = "connect"
  /\ received = 0
  /\ file = {} /\ junk = 0
  /\ late = {} /\ overrun = {} /\ cuts = {}
-----------------------------------------------------------------------------
\* socket, connect, SSL_connect or the request fails.
NoConnection ==
  /\ state = "connect"
  /\ state' = "0"
  /\ UNCHANGED <<response, received, file, junk, history>>

\* get_https_file does not look at fopen's result, and uses the null pointer.
OpenFails ==
  /\ state = "connect"
  /\ state' = IF protocol = "https" THEN "crashed" ELSE "0"
  /\ UNCHANGED <<response, received, file, junk, history>>

\* The file is there, and empty.
OpenFile ==
  /\ state = "connect"
  /\ state' = "receive"
  /\ UNCHANGED <<response, received, file, junk, history>>

\* The k bytes that one recv takes, and the marks that are whole among them.
Chunk(k) == (received + 1)..(received + k)

MarkEnds(k) == {t \in {header} \cup blanks : t - 1 \in Chunk(k) /\ t \in Chunk(k)}

\* Faults: nothing without a mark; the mark is not looked for; the
\* pointer is not moved behind it.
FaultMarkNeeded(k)  == {p \in Chunk(k) : \E t \in MarkEnds(k) : t < p}
FaultAll(k)         == Chunk(k)
FaultMarkKept(k) ==
  IF MarkEnds(k) = {} THEN Chunk(k) ELSE {p \in Chunk(k) : \E t \in MarkEnds(k) : t - 1 <= p}

\* What follows the first mark, that is, what follows any; or all.
AfterMark(k) ==
  IF MarkEnds(k) = {} THEN Chunk(k) ELSE {p \in Chunk(k) : \E t \in MarkEnds(k) : t < p}

\* A recv that leaves room in rbuf, which was zeroed before.
Write(k) ==
  /\ k < Buffer
  /\ file' = file \cup AfterMark(k)
  /\ UNCHANGED <<junk, late, overrun>>

\* A recv that fills rbuf: strstr and strlen read on behind it, to whatever is there.
WriteUnterminated(k) ==
  /\ k = Buffer
  /\ \/ file' = file \cup AfterMark(k)
     \/ MarkEnds(k) = {} /\ UNCHANGED file
  /\ junk' \in {junk, 1}
  /\ overrun' = overrun \cup Chunk(k)
  /\ UNCHANGED late

\* select had timed out: what recv then waited for is dropped.
Drop(k) ==
  /\ k <= Buffer
  /\ late' = late \cup Chunk(k)
  /\ UNCHANGED <<file, junk, overrun>>

Receive(k) ==
  /\ state = "receive"
  /\ received + k <= size
  /\ Write(k) \/ WriteUnterminated(k) \/ Drop(k)
  /\ received' = received + k
  /\ cuts' = cuts \cup {received + k}
  /\ UNCHANGED <<response, state>>

\* The end of the response, or of the connection before it.
EndOfResponse ==
  /\ state = "receive"
  /\ state' = "1"
  /\ UNCHANGED <<response, received, file, junk, history>>

\* An error of recv: only get_https_file returns 0.
ReceiveError ==
  /\ state = "receive"
  /\ state' = IF protocol = "https" THEN "0" ELSE "1"
  /\ UNCHANGED <<response, received, file, junk, history>>

FetchTerminated == state \in {"0", "1", "crashed"} /\ UNCHANGED fetchVars

FetchNext ==
  \/ NoConnection \/ OpenFails \/ OpenFile
  \/ \E k \in 1..Buffer : Receive(k)
  \/ EndOfResponse \/ ReceiveError \/ FetchTerminated

FetchSpec == FetchInit /\ [][FetchNext]_fetchVars
-----------------------------------------------------------------------------
(* Properties. *)

FetchTypeOK ==
  /\ size \in Nat /\ header \in 0..size /\ blanks \subseteq 1..size
  /\ protocol \in {"http", "https"}
  /\ state \in {"connect", "receive", "0", "1", "crashed"}
  /\ received \in 0..size
  /\ file \subseteq 1..received /\ junk \in {0, 1}
  /\ late \subseteq 1..received /\ overrun \subseteq 1..received /\ cuts \subseteq 1..received

Body == (header + 1)..size

(* A byte of the body is missing only when it came late, in a recv that filled the      *)
(* buffer, or less than a buffer before the end of a blank line in the body.            *)
BodyKept ==
  \A p \in Body : p <= received /\ p \notin file =>
    \/ p \in late
    \/ p \in overrun
    \/ \E t \in blanks : p <= t /\ t < p + Buffer

(* A header that came in one recv, and not too late or too long for it, is left out. *)
HeaderLeftOut ==
  cuts \cap 1..(header - 1) = {} /\ overrun = {} => file \subseteq Body

(* A file that was returned as complete, of a response without blank lines, that came   *)
(* in time, with its header in one recv and none that filled the buffer, is the body.   *)
FileIsBody ==
  state = "1" /\ received = size /\ blanks = {} /\ late = {} /\ overrun = {}
  /\ cuts \cap 1..(header - 1) = {} => file = Body /\ junk = 0
=============================================================================
