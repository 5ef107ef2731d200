---------------------------- MODULE SubSequences ----------------------------
(***************************************************************************)
(* The elements of a sequence at some of its places, in their order: what  *)
(* the loops of the code that push some of a vector's elements to another  *)
(* vector compute.  The places are a set, so that the lemmas of module     *)
(* SequenceFacts hold for every way of choosing them.                      *)
(***************************************************************************)
EXTENDS SequencesExt

\* The element of a chosen place as a sequence of one, and of others as none.
Singled(s, places) == [p \in DOMAIN s |-> IF p \in places THEN <<s[p]>> ELSE <<>>]

Pick(s, places) == FlattenSeq(Singled(s, places))

\* The chosen ones of the numbers from 1 to n.
Enumerate(places, n) == Pick([p \in 1..n |-> p], places)

=============================================================================
