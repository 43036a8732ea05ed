------------------------------- MODULE Ordering -------------------------------
(***************************************************************************)
(* What the language gives of arrays in order: filter(), and sort(), which *)
(* is stable.  Operators only; the channels view, the agents view and the  *)
(* metrics use them.                                                       *)
(*                                                                         *)
(* An order is given by what comes up to each element, itself included:    *)
(* the element at place n is the one that n elements come up to.           *)
(***************************************************************************)
EXTENDS Integers, FiniteSets

InOrder(S, upTo) ==
  [n \in 1 .. Cardinality(S) |-> CHOOSE x \in S : Cardinality(upTo[x]) = n]

\* filter(): the elements at the places in kept, in the order they have.
Keep(array, kept) ==
  LET order == InOrder(kept, [i \in kept |-> {j \in kept : j <= i}])
  IN [n \in DOMAIN order |-> array[order[n]]]

\* sort(): of two elements neither of which comes before the other, the one
\* that was first stays first.
StableSort(array, Before(_, _)) ==
  LET places == DOMAIN array
      order  == InOrder(places, [i \in places |->
        {j \in places : \/ Before(array[j], array[i])
                        \/ ~Before(array[i], array[j]) /\ j <= i}])
  IN [n \in places |-> array[order[n]]]

===============================================================================
