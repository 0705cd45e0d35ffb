----------------------------- MODULE TransferPool -----------------------------
(***************************************************************************)
(* What the transfer engine of 8_Mini-project promises: at any moment each *)
(* slot of thread[] carries at most one transfer, a transfer is of the     *)
(* phase that launched it, a byte is counted for a direction only by a     *)
(* transfer of that direction under way, totals only grow, the download    *)
(* comes before the upload, and nothing moves once the measurement is over.*)
(***************************************************************************)
EXTENDS Naturals

CONSTANTS Slots, Sizes

VARIABLES
  open,   \* the direction being measured, or "over"
  job,    \* what each slot carries
  bytes   \* what each direction has transferred

vars == <<open, job, bytes>>

Directions == {"dl", "ul"}

Init ==
  /\ open = "dl"
  /\ job = [i \in Slots |-> "idle"]
  /\ bytes = [k \in Directions |-> 0]

Launch(i) ==
  /\ open \in Directions
  /\ job[i] = "idle"
  /\ job' = [job EXCEPT ![i] = open]
  /\ UNCHANGED <<open, bytes>>

Count(i, n) ==
  /\ open \in Directions
  /\ job[i] \in Directions
  /\ bytes' = [bytes EXCEPT ![job[i]] = @ + n]
  /\ UNCHANGED <<open, job>>

Retire(i) ==
  /\ open \in Directions
  /\ job[i] \in Directions
  /\ job' = [job EXCEPT ![i] = "idle"]
  /\ UNCHANGED <<open, bytes>>

Advance ==
  /\ \/ open = "dl" /\ open' = "ul"
     \/ open = "ul" /\ open' = "over"
  /\ UNCHANGED <<job, bytes>>

Next ==
  \/ \E i \in Slots : Launch(i) \/ Retire(i) \/ \E n \in Sizes : Count(i, n)
  \/ Advance

Spec == Init /\ [][Next]_vars
=============================================================================
