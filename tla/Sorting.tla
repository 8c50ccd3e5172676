------------------------------- MODULE Sorting --------------------------------
(***************************************************************************)
(* The elements of a finite set in ascending order, as a std::map or       *)
(* ORDER BY gives them (an order is a set of pairs), and sequences of      *)
(* numbers that come after one another: those received, those in a buffer, *)
(* those to be sent.                                                       *)
(***************************************************************************)
EXTENDS Integers, FiniteSets

\* R orders any two elements of S one way.
StrictlyOrders(R, S) ==
  /\ \A x \in S : <<x, x>> \notin R
  /\ \A x, y \in S : x # y => <<x, y>> \in R \/ <<y, x>> \in R
  /\ \A x, y, z \in S : <<x, y>> \in R /\ <<y, z>> \in R => <<x, z>> \in R

Before(x, S, R) == {y \in S : <<y, x>> \in R}

\* The elements of S, each once, in the order R.
Ascending(S, R) ==
  [i \in 1..Cardinality(S) |-> CHOOSE x \in S : Cardinality(Before(x, S, R)) = i - 1]
Elements(s) == {s[i] : i \in DOMAIN s}
Rising(s) == \A i, j \in DOMAIN s : i < j => s[i] < s[j]

\* The stages numbers pass through, one sequence for each, the latest stage first.
AllElements(stages) == UNION {Elements(stages[k]) : k \in DOMAIN stages}
AllRising(stages) ==
  /\ \A k \in DOMAIN stages : Rising(stages[k])
  /\ \A k, m \in DOMAIN stages :
       k < m => \A x \in Elements(stages[k]), y \in Elements(stages[m]) : x < y
===============================================================================
