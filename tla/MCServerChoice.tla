---------------------------- MODULE MCServerChoice ----------------------------
(* Instances of ServerChoice for TLC. *)
EXTENDS ServerChoice

\* Uninitialized timevals may differ by anything.
SomeGarbage == {-7, -1, 3}
=============================================================================
