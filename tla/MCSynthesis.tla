---------------------------- MODULE MCSynthesis -----------------------------
(* Instances of Synthesis for TLC. *)
EXTENDS Synthesis

\* Two sentences; a sentence too short to be spoken alone before the next; a
\* word that is longer than a fragment may be, and another.
ThreeTexts == {<<1, 0, 2, 2, 0, 3, 3, 0, 4, 0, 5>>, <<2, 0, 3, 3, 0, 4>>, <<1, 1, 1, 1, 1, 0, 2>>}
OneFiller  == {<<9, 0>>}
=============================================================================
