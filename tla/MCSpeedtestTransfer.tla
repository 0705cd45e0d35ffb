------------------------- MODULE MCSpeedtestTransfer -------------------------
(* Instances of SpeedtestTransfer for TLC. *)
EXTENDS SpeedtestTransfer, TLC

WorkerSymmetry == Permutations(Workers)
=============================================================================
