----------------------------- MODULE MCSttStream -----------------------------
(* Instances of SttStream for TLC. *)
EXTENDS SttStream

CONSTANT Slots

\* Every word reads differently.
Distinct == [i \in 1..Slots |-> i]
=============================================================================
