------------------------------- MODULE Listas -------------------------------
(***************************************************************************)
(* Lists of the commons library as sequences: the loops that look for the  *)
(* first place that fits, and the removals.                                *)
(***************************************************************************)
EXTENDS Integers, FiniteSets, Sequences, SequencesExt

\* the place where a loop over a list stops, 0 if it finds none
Primero(lugares) ==
  IF lugares = {} THEN 0
  ELSE CHOOSE i \in lugares : \A j \in lugares : i <= j

\* list_remove at the place where a loop stops, if it does
SinPrimero(s, lugares) ==
  IF lugares = {} THEN s ELSE RemoveAt(s, Primero(lugares))

\* which one a place is among those of its set
Puesto(i, lugares) == Cardinality({j \in lugares : j <= i})

\* the places of a list that are kept, in order
Quedan(s, lugares) ==
  [n \in 1..Cardinality(lugares) |->
     s[CHOOSE i \in lugares : Puesto(i, lugares) = n]]
=============================================================================
