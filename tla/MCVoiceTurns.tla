---------------------------- MODULE MCVoiceTurns ----------------------------
(* Instances of VoiceTurns for TLC. *)
EXTENDS VoiceTurns

\* A call with a limit whose speakers have two chunks each, so that one may come
\* between them; one whose reply plays for long enough that its own words come
\* back when they are pruned; and one of three utterances, the parts of a turn.
ThreeCalls == {[boxed |-> TRUE, heard |-> 1, chunks |-> 2],
               [boxed |-> FALSE, heard |-> 2, chunks |-> 2],
               [boxed |-> FALSE, heard |-> 3, chunks |-> 1]}
=============================================================================
