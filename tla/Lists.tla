------------------------------- MODULE Lists -------------------------------
(***************************************************************************)
(* Lists as the panel's components make them out of one another with       *)
(* filter, includes, Set and Map: parts of a list, in its order.  A part   *)
(* is told by the places it takes from the list.                           *)
(***************************************************************************)
EXTENDS Integers, Sequences, FiniteSets, SequencesExt

\* The place with k places of I up to it.
Nth(I, k) == CHOOSE i \in I : Cardinality({j \in I : j <= i}) = k

\* What a list has at some of its places.
At(s, I) == [k \in 1..Cardinality(I) |-> s[Nth(I, k)]]

\* Filters.
Only(s, S) == At(s, {i \in DOMAIN s : s[i] \in S})
Without(s, S) == At(s, {i \in DOMAIN s : s[i] \notin S})

\* What a list has at some places, without the repetitions of what came before.
FirstAmong(s, I) == At(s, {i \in I : \A j \in I : j < i => s[j] # s[i]})
FirstOnes(s) == FirstAmong(s, DOMAIN s)

MinOf(S) == CHOOSE x \in S : \A y \in S : x <= y
MaxOf(S) == CHOOSE x \in S : \A y \in S : y <= x
=============================================================================
