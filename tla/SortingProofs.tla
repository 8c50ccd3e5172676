----------------------------- MODULE SortingProofs -----------------------------
(***************************************************************************)
(* What sorting a finite set gives, and other facts about finite sets and  *)
(* numbers that the proofs of several components rest on.                  *)
(***************************************************************************)
EXTENDS Sorting, Sequences, FiniteSetTheorems, SequenceTheorems, WellFoundedInduction, TLAPS

\* Two finite sets that have nothing in common.
LEMMA DisjointUnion ==
  ASSUME NEW S, IsFiniteSet(S), NEW T, IsFiniteSet(T), S \cap T = {}
  PROVE  /\ IsFiniteSet(S \cup T) /\ Cardinality(S) \in Nat /\ Cardinality(T) \in Nat
         /\ Cardinality(S \cup T) = Cardinality(S) + Cardinality(T)
<1>1. Cardinality(S \cup T) = Cardinality(S) + Cardinality(T) - Cardinality(S \cap T) /\ IsFiniteSet(S \cup T)
  BY FS_Union
<1>2. Cardinality(S \cap T) = 0
  BY FS_EmptySet
<1>3. Cardinality(S) \in Nat /\ Cardinality(T) \in Nat
  BY FS_CardinalityType
<1> QED BY <1>1, <1>2, <1>3

\* A set of numbers that is not empty has a least element.
LEMMA LeastNatural ==
  ASSUME NEW S \in SUBSET Nat, S # {}
  PROVE  \E n \in S : \A m \in S : n <= m
<1> DEFINE Less == OpToRel(<, Nat)
<1>1. PICK n \in S : \A m \in S : <<m, n>> \notin Less
  <2>1. IsWellFoundedOn(Less, Nat)
    BY NatLessThanWellFounded
  <2> HIDE DEF Less
  <2> QED BY <2>1, WFMin
<1>2. ASSUME NEW m \in S PROVE n <= m
  <2>1. m \in Nat /\ n \in Nat /\ <<m, n>> \in Nat \X Nat
    OBVIOUS
  <2>2. ~(m < n)
    BY <1>1, <2>1 DEF OpToRel
  <2> QED BY <2>1, <2>2
<1> QED BY <1>2

\* A set of numbers that is bounded and not empty has a greatest element.
LEMMA GreatestNatural ==
  ASSUME NEW S \in SUBSET Nat, S # {}, NEW b \in Nat, \A n \in S : n <= b
  PROVE  \E n \in S : \A m \in S : m <= n
<1> DEFINE Below == {b - n : n \in S}
<1>1. Below \in SUBSET Nat /\ Below # {}
  <2>1. \A n \in S : b - n \in Nat
    OBVIOUS
  <2> QED BY <2>1
<1>2. PICK d \in Below : \A m \in Below : d <= m
  BY <1>1, LeastNatural
<1>3. PICK n \in S : d = b - n
  OBVIOUS
<1>4. \A m \in S : b - n <= b - m
  BY <1>2, <1>3
<1> QED BY <1>4

\* What comes before an element is less than all.
LEMMA BeforeFinite ==
  ASSUME NEW S, NEW R, IsFiniteSet(S), StrictlyOrders(R, S), NEW x \in S
  PROVE  /\ IsFiniteSet(Before(x, S, R))
         /\ Cardinality(Before(x, S, R)) \in 0..Cardinality(S) - 1
<1>1. Before(x, S, R) \in SUBSET (S \ {x})
  BY DEF Before, StrictlyOrders
<1>2. IsFiniteSet(S \ {x}) /\ Cardinality(S \ {x}) = Cardinality(S) - 1
  BY FS_RemoveElement
<1>3. IsFiniteSet(Before(x, S, R)) /\ Cardinality(Before(x, S, R)) <= Cardinality(S \ {x})
  BY <1>1, <1>2, FS_Subset
<1>4. Cardinality(Before(x, S, R)) \in Nat /\ Cardinality(S) \in Nat
  BY <1>3, FS_CardinalityType
<1> QED BY <1>2, <1>3, <1>4

\* More comes before an element than before one that is before it.
LEMMA BeforeGrows ==
  ASSUME NEW S, NEW R, IsFiniteSet(S), StrictlyOrders(R, S), NEW x \in S, NEW y \in S, <<x, y>> \in R
  PROVE  Cardinality(Before(x, S, R)) < Cardinality(Before(y, S, R))
<1>1. Before(x, S, R) \in SUBSET Before(y, S, R)
  BY DEF Before, StrictlyOrders
<1>2. x \in Before(y, S, R) /\ x \notin Before(x, S, R)
  BY DEF Before, StrictlyOrders
<1>3. IsFiniteSet(Before(y, S, R)) /\ Cardinality(Before(y, S, R)) \in 0..Cardinality(S) - 1
  BY BeforeFinite
<1>4. Cardinality(Before(x, S, R)) \in 0..Cardinality(S) - 1
  BY BeforeFinite
<1>5. Cardinality(S) \in Nat
  BY FS_CardinalityType
<1>6. /\ Cardinality(Before(x, S, R)) <= Cardinality(Before(y, S, R))
      /\ Cardinality(Before(x, S, R)) # Cardinality(Before(y, S, R))
  BY <1>1, <1>2, <1>3, FS_Subset
<1> QED BY <1>3, <1>4, <1>5, <1>6

\* Each place has one element.
LEMMA OneAtEachPlace ==
  ASSUME NEW S, NEW R, IsFiniteSet(S), StrictlyOrders(R, S), NEW i \in 1..Cardinality(S)
  PROVE  \E x \in S : Cardinality(Before(x, S, R)) = i - 1
<1> DEFINE n == Cardinality(S)
           place == [x \in S |-> Cardinality(Before(x, S, R))]
<1>1. n \in Nat
  BY FS_CardinalityType
<1>2. place \in [S -> 0..n - 1]
  BY BeforeFinite
<1>3. \A x, y \in S : place[x] = place[y] => x = y
  <2> SUFFICES ASSUME NEW x \in S, NEW y \in S, x # y PROVE place[x] # place[y]
    OBVIOUS
  <2>1. <<x, y>> \in R \/ <<y, x>> \in R
    BY DEF StrictlyOrders
  <2>2. place[x] < place[y] \/ place[y] < place[x]
    BY <2>1, BeforeGrows
  <2>3. place[x] \in Int /\ place[y] \in Int
    BY <1>1, <1>2
  <2> HIDE DEF place
  <2> QED BY <2>2, <2>3
<1>4. IsFiniteSet(0..n - 1) /\ Cardinality(0..n - 1) = n
  <2> HIDE DEF n
  <2>1. 0 \in Int /\ n - 1 \in Int
    BY <1>1
  <2>2. /\ IsFiniteSet(0..n - 1)
        /\ Cardinality(0..n - 1) = IF 0 > n - 1 THEN 0 ELSE (n - 1) - 0 + 1
    BY <2>1, FS_Interval
  <2> QED BY <1>1, <2>2
<1> HIDE DEF n, place
<1>5. place \in Injection(S, 0..n - 1)
  <2>1. place \in {f \in [S -> 0..n - 1] : \A a, b \in S : f[a] = f[b] => a = b}
    BY <1>2, <1>3
  <2> QED BY <2>1 DEF Injection, IsInjective
<1>6. place \in Surjection(S, 0..n - 1)
  BY <1>4, <1>5, FS_Injection DEF n
<1>7. i - 1 \in 0..n - 1
  BY <1>1 DEF n
<1>8. PICK x \in S : place[x] = i - 1
  BY <1>6, <1>7 DEF Surjection
<1> QED BY <1>8 DEF place

\* A set sorted is a sequence that has each of its elements once, in order.
LEMMA AscendingFacts ==
  ASSUME NEW S, NEW R, IsFiniteSet(S), StrictlyOrders(R, S)
  PROVE  /\ Ascending(S, R) \in Seq(S) /\ Len(Ascending(S, R)) = Cardinality(S)
         /\ Cardinality(S) \in Nat
         /\ DOMAIN Ascending(S, R) = 1..Cardinality(S)
         /\ \A i \in 1..Cardinality(S) : Ascending(S, R)[i] \in S
         /\ \A i, j \in 1..Cardinality(S) : i < j => <<Ascending(S, R)[i], Ascending(S, R)[j]>> \in R
         /\ \A x \in S : \E i \in 1..Cardinality(S) : Ascending(S, R)[i] = x
<1> DEFINE n == Cardinality(S)
           a == Ascending(S, R)
           place(x) == Cardinality(Before(x, S, R))
<1>1. n \in Nat
  BY FS_CardinalityType
<1>2. \A i \in 1..n : a[i] \in S /\ place(a[i]) = i - 1
  <2> TAKE i \in 1..n
  <2>1. \E x \in S : place(x) = i - 1
    BY OneAtEachPlace
  <2>2. a[i] = CHOOSE x \in S : place(x) = i - 1
    BY DEF Ascending
  <2> QED BY <2>1, <2>2
<1>3. a \in Seq(S) /\ Len(a) = n /\ DOMAIN a = 1..n
  <2>1. a \in [1..n -> S]
    <3>1. a = [i \in 1..n |-> a[i]]
      BY DEF Ascending
    <3> QED BY <1>2, <3>1
  <2> QED BY <1>1, <2>1
<1>4. \A x \in S : place(x) \in 0..n - 1
  BY BeforeFinite
<1>5. \A x, y \in S : place(x) < place(y) => <<x, y>> \in R
  <2> TAKE x, y \in S
  <2>1. <<y, x>> \in R => place(y) < place(x)
    BY BeforeGrows
  <2>2. x # y => <<x, y>> \in R \/ <<y, x>> \in R
    BY DEF StrictlyOrders
  <2>3. place(x) \in Int /\ place(y) \in Int
    BY <1>1, <1>4
  <2> HIDE DEF place
  <2> QED BY <2>1, <2>2, <2>3
<1>6. \A x, y \in S : place(x) = place(y) => x = y
  <2> TAKE x, y \in S
  <2>1. /\ <<x, y>> \in R => place(x) < place(y)
        /\ <<y, x>> \in R => place(y) < place(x)
    BY BeforeGrows
  <2>2. x # y => <<x, y>> \in R \/ <<y, x>> \in R
    BY DEF StrictlyOrders
  <2>3. place(x) \in Int /\ place(y) \in Int
    BY <1>1, <1>4
  <2> HIDE DEF place
  <2> QED BY <2>1, <2>2, <2>3
<1> HIDE DEF place, a, n
<1>7. \A i, j \in 1..n : i < j => <<a[i], a[j]>> \in R
  <2> SUFFICES ASSUME NEW i \in 1..n, NEW j \in 1..n, i < j PROVE <<a[i], a[j]>> \in R
    OBVIOUS
  <2>1. place(a[i]) < place(a[j])
    BY <1>1, <1>2
  <2> QED BY <1>2, <1>5, <2>1
<1>8. \A x \in S : \E i \in 1..n : a[i] = x
  <2> TAKE x \in S
  <2>1. place(x) + 1 \in 1..n
    BY <1>1, <1>4
  <2>2. place(a[place(x) + 1]) = place(x)
    BY <1>1, <1>2, <1>4, <2>1
  <2>3. a[place(x) + 1] = x
    BY <1>2, <1>6, <2>1, <2>2
  <2> QED BY <2>1, <2>3
<1> QED BY <1>1, <1>2, <1>3, <1>7, <1>8 DEF a, n

(* Sequences of numbers that rise, alone and one behind the other. *)

LEMMA AppendRises ==
  ASSUME NEW s \in Seq(Nat), NEW x \in Nat
  PROVE  /\ Append(s, x) \in Seq(Nat) /\ Elements(s) \subseteq Nat
         /\ Elements(Append(s, x)) = Elements(s) \cup {x}
         /\ Rising(s) /\ (\A y \in Elements(s) : y < x) => Rising(Append(s, x))
<1> DEFINE t == Append(s, x)
<1>1. /\ t \in Seq(Nat) /\ Len(s) \in Nat /\ DOMAIN s = 1..Len(s) /\ DOMAIN t = 1..Len(s) + 1
      /\ t[Len(s) + 1] = x /\ \A i \in 1..Len(s) : t[i] = s[i] /\ s[i] \in Nat
  OBVIOUS
<1> HIDE DEF t
<1>2. Elements(t) = Elements(s) \cup {x}
  <2>1. \A i \in 1..Len(s) + 1 : i \in 1..Len(s) \/ i = Len(s) + 1
    BY <1>1
  <2>2. 1..Len(s) \subseteq 1..Len(s) + 1 /\ Len(s) + 1 \in 1..Len(s) + 1
    BY <1>1
  <2> QED BY <1>1, <2>1, <2>2 DEF Elements
<1>3. ASSUME Rising(s), \A y \in Elements(s) : y < x
      PROVE  Rising(t)
  <2> SUFFICES ASSUME NEW i \in 1..Len(s) + 1, NEW j \in 1..Len(s) + 1, i < j PROVE t[i] < t[j]
    BY <1>1 DEF Rising
  <2>1. i \in 1..Len(s) /\ (j \in 1..Len(s) \/ j = Len(s) + 1)
    BY <1>1
  <2>2. s[i] \in Elements(s)
    BY <1>1, <2>1 DEF Elements
  <2> QED BY <1>1, <1>3, <2>1, <2>2 DEF Rising
<1> QED BY <1>1, <1>2, <1>3 DEF t, Elements

LEMMA TailRises ==
  ASSUME NEW s \in Seq(Nat), s # << >>, Rising(s)
  PROVE  /\ Tail(s) \in Seq(Nat) /\ Head(s) \in Elements(s) /\ Head(s) \in Nat
         /\ Elements(Tail(s)) = Elements(s) \ {Head(s)}
         /\ Rising(Tail(s)) /\ \A y \in Elements(Tail(s)) : Head(s) < y
<1> DEFINE t == Tail(s)
<1>1. /\ t \in Seq(Nat) /\ Len(s) \in Nat \ {0} /\ DOMAIN s = 1..Len(s) /\ DOMAIN t = 1..Len(s) - 1
      /\ Head(s) = s[1] /\ \A i \in 1..Len(s) - 1 : t[i] = s[i + 1]
      /\ \A i \in 1..Len(s) : s[i] \in Nat
  OBVIOUS
<1> HIDE DEF t
<1>2. \A i, j \in 1..Len(s) : i < j => s[i] < s[j]
  BY <1>1 DEF Rising
<1>3. Elements(t) = Elements(s) \ {s[1]}
  <2>1. ASSUME NEW y \in Elements(t) PROVE y \in Elements(s) /\ y # s[1]
    <3>1. PICK i \in 1..Len(s) - 1 : y = s[i + 1]
      BY <1>1 DEF Elements
    <3>2. 1 \in 1..Len(s) /\ i + 1 \in 1..Len(s) /\ 1 < i + 1
      BY <1>1
    <3>3. s[1] < s[i + 1] /\ s[1] \in Nat
      BY <1>1, <1>2, <3>2
    <3>4. s[i + 1] \in Elements(s) /\ s[i + 1] \in Nat
      BY <1>1, <3>2 DEF Elements
    <3> QED BY <3>1, <3>3, <3>4
  <2>2. ASSUME NEW y \in Elements(s), y # s[1] PROVE y \in Elements(t)
    <3>1. PICK i \in 1..Len(s) : y = s[i]
      BY <1>1 DEF Elements
    <3>2. i - 1 \in 1..Len(s) - 1 /\ t[i - 1] = s[i]
      BY <1>1, <2>2, <3>1
    <3> QED BY <1>1, <3>1, <3>2 DEF Elements
  <2> QED BY <2>1, <2>2
<1>4. Rising(t)
  <2>1. \A i, j \in 1..Len(s) - 1 : i < j => /\ i + 1 \in 1..Len(s) /\ j + 1 \in 1..Len(s)
                                            /\ i + 1 < j + 1
    BY <1>1
  <2> QED BY <1>1, <1>2, <2>1 DEF Rising
<1>5. \A y \in Elements(t) : s[1] < y
  <2>1. \A i \in 1..Len(s) - 1 : 1 \in 1..Len(s) /\ i + 1 \in 1..Len(s) /\ 1 < i + 1
    BY <1>1
  <2> QED BY <1>1, <1>2, <2>1 DEF Elements
<1>6. s[1] \in Elements(s)
  <2>1. 1 \in 1..Len(s)
    BY <1>1
  <2> QED BY <1>1, <2>1 DEF Elements
<1> QED BY <1>1, <1>3, <1>4, <1>5, <1>6 DEF t

LEMMA InStages ==
  ASSUME NEW S, NEW x
  PROVE  x \in AllElements(S) <=> \E k \in DOMAIN S : x \in Elements(S[k])
BY DEF AllElements

\* The numbers of S, and x at the end of stage k, still rise.
Fits(S, k, x) ==
  \A m \in DOMAIN S : \A y \in Elements(S[m]) : (m <= k /\ y < x) \/ (k < m /\ x < y)
Appended(S, k, x) == [S EXCEPT ![k] = Append(S[k], x)]
Adds(T, S, x) == AllElements(T) = AllElements(S) \cup {x}
Stepped(S, k) == [S EXCEPT ![k] = Tail(S[k])]
Moved(S, k, l) == Appended(Stepped(S, k), l, Head(S[k]))
EmptyBetween(S, l, k) == \A m \in DOMAIN S : l < m /\ m < k => S[m] = << >>
Cleared(S, C) == [m \in DOMAIN S |-> IF m \in C THEN << >> ELSE S[m]]
Clears(T, S, C) == AllElements(T) = AllElements(S) \ UNION {Elements(S[m]) : m \in C}

\* A number joins a stage.
LEMMA StageAppended ==
  ASSUME NEW n \in Nat, NEW S \in [1..n -> Seq(Nat)], NEW k \in 1..n, NEW x \in Nat,
         AllRising(S), Fits(S, k, x)
  PROVE  /\ Appended(S, k, x) \in [1..n -> Seq(Nat)] /\ AllRising(Appended(S, k, x))
         /\ Adds(Appended(S, k, x), S, x)
<1> DEFINE T == Appended(S, k, x)
<1>1. T[k] = Append(S[k], x) /\ S[k] \in Seq(Nat)
  BY DEF Appended
<1>2. /\ Append(S[k], x) \in Seq(Nat)
      /\ Elements(T[k]) = Elements(S[k]) \cup {x}
  BY <1>1, AppendRises
<1>3. \A m \in 1..n : m # k => T[m] = S[m] /\ Elements(T[m]) = Elements(S[m])
  BY DEF Appended
<1>4. \A m \in 1..n : Elements(S[m]) \subseteq Nat
  BY AppendRises
<1>5. Rising(T[k])
  <2>1. Rising(S[k]) /\ \A y \in Elements(S[k]) : y < x
    BY <1>4 DEF AllRising, Fits
  <2>2. Rising(Append(S[k], x))
    BY <1>1, <2>1, AppendRises, Zenon
  <2> QED BY <1>1, <2>2
<1>6. DOMAIN S = 1..n /\ DOMAIN T = 1..n /\ T \in [1..n -> Seq(Nat)]
  BY <1>2 DEF Appended
<1> HIDE DEF T
<1>7. ASSUME NEW a \in 1..n, NEW b \in 1..n, a < b, NEW y \in Elements(T[a]), NEW z \in Elements(T[b])
      PROVE  y < z
  <2>1. CASE y \in Elements(S[a]) /\ z \in Elements(S[b])
    BY <1>6, <1>7, <2>1 DEF AllRising
  <2>2. CASE a = k /\ y = x /\ z \in Elements(S[b])
    BY <1>4, <1>6, <1>7, <2>2 DEF Fits
  <2>3. CASE b = k /\ z = x /\ y \in Elements(S[a])
    BY <1>4, <1>6, <1>7, <2>3 DEF Fits
  <2> QED BY <1>2, <1>3, <1>7, <2>1, <2>2, <2>3
<1>8. AllRising(T)
  BY <1>3, <1>5, <1>6, <1>7 DEF AllRising
<1>9. AllElements(T) = AllElements(S) \cup {x}
  <2>1. \A y : y \in AllElements(T) <=> y \in AllElements(S) \cup {x}
    BY <1>2, <1>3, <1>6, InStages
  <2> QED BY <2>1
<1> QED BY <1>6, <1>8, <1>9 DEF T, Adds

\* The first number of a stage leaves it.
LEMMA StageTail ==
  ASSUME NEW n \in Nat, NEW S \in [1..n -> Seq(Nat)], NEW k \in 1..n, AllRising(S), S[k] # << >>
  PROVE  /\ Stepped(S, k) \in [1..n -> Seq(Nat)] /\ AllRising(Stepped(S, k))
         /\ Head(S[k]) \in Nat /\ Head(S[k]) \in AllElements(S)
         /\ AllElements(Stepped(S, k)) = AllElements(S) \ {Head(S[k])}
         /\ \A m \in 1..n : \A y \in Elements(Stepped(S, k)[m]) :
              (m < k /\ y < Head(S[k])) \/ (k <= m /\ Head(S[k]) < y)
<1> DEFINE x == Head(S[k])
           T == Stepped(S, k)
<1>1. T[k] = Tail(S[k]) /\ S[k] \in Seq(Nat)
  BY DEF Stepped
<1>2. DOMAIN S = 1..n /\ DOMAIN T = 1..n /\ Rising(S[k])
  BY DEF AllRising, Stepped
<1>3. /\ Tail(S[k]) \in Seq(Nat) /\ x \in Elements(S[k]) /\ x \in Nat
      /\ Elements(T[k]) = Elements(S[k]) \ {x}
      /\ Rising(T[k]) /\ \A y \in Elements(T[k]) : x < y
  <2>1. /\ Tail(S[k]) \in Seq(Nat) /\ x \in Elements(S[k]) /\ x \in Nat
        /\ Elements(Tail(S[k])) = Elements(S[k]) \ {x}
        /\ Rising(Tail(S[k])) /\ \A y \in Elements(Tail(S[k])) : x < y
    BY <1>1, <1>2, TailRises, Zenon
  <2> QED BY <1>1, <2>1
<1>4. \A m \in 1..n : m # k => T[m] = S[m] /\ Elements(T[m]) = Elements(S[m])
  BY DEF Stepped
<1>5. T \in [1..n -> Seq(Nat)]
  BY <1>3 DEF Stepped
<1> HIDE DEF x, T
<1>6. \A m \in 1..n : Elements(S[m]) \subseteq Nat /\ Elements(T[m]) \subseteq Elements(S[m])
  BY <1>3, <1>4, AppendRises
<1>7. AllRising(T)
  <2>1. \A m \in 1..n : Rising(T[m])
    BY <1>2, <1>3, <1>4 DEF AllRising
  <2>2. \A a, b \in 1..n : a < b => \A y \in Elements(T[a]), z \in Elements(T[b]) : y < z
    BY <1>2, <1>6 DEF AllRising
  <2> QED BY <1>2, <2>1, <2>2 DEF AllRising
<1>8. \A m \in 1..n : \A y \in Elements(T[m]) : (m < k /\ y < x) \/ (k <= m /\ x < y)
  <2> SUFFICES ASSUME NEW m \in 1..n, NEW y \in Elements(T[m])
               PROVE  (m < k /\ y < x) \/ (k <= m /\ x < y)
    OBVIOUS
  <2>1. CASE m = k
    <3>1. x < y
      BY <1>3, <2>1
    <3> QED BY <2>1, <3>1
  <2>2. CASE m < k
    BY <1>2, <1>3, <1>4, <2>2 DEF AllRising
  <2>3. CASE k < m
    <3>1. x \in Elements(S[k]) /\ y \in Elements(S[m])
      BY <1>3, <1>4, <2>3
    <3>2. x < y
      BY <1>2, <2>3, <3>1 DEF AllRising
    <3> QED BY <2>3, <3>2
  <2> QED BY <2>1, <2>2, <2>3
<1>9. AllElements(T) = AllElements(S) \ {x}
  <2>1. \A m \in 1..n : x \notin Elements(T[m])
    BY <1>3, <1>6, <1>8
  <2>2. \A m \in 1..n : Elements(T[m]) = Elements(S[m]) \ {x}
    BY <1>3, <1>4, <2>1
  <2>3. \A y : /\ y \in AllElements(S) <=> \E m \in 1..n : y \in Elements(S[m])
               /\ y \in AllElements(T) <=> \E m \in 1..n : y \in Elements(T[m])
    BY <1>2, InStages
  <2>4. ASSUME NEW y PROVE y \in AllElements(T) <=> y \in AllElements(S) \ {x}
    <3>1. \A m \in 1..n : y \in Elements(T[m]) <=> y \in Elements(S[m]) /\ y # x
      BY <2>2
    <3> QED BY <2>3, <3>1
  <2> QED BY <2>4
<1>10. x \in AllElements(S)
  BY <1>2, <1>3, InStages
<1> QED BY <1>3, <1>5, <1>7, <1>8, <1>9, <1>10 DEF x, T

\* It goes on to an earlier stage, with none between them.
LEMMA StageMoved ==
  ASSUME NEW n \in Nat, NEW S \in [1..n -> Seq(Nat)], NEW k \in 1..n, NEW l \in 1..n, l < k,
         AllRising(S), S[k] # << >>, EmptyBetween(S, l, k)
  PROVE  /\ Moved(S, k, l) \in [1..n -> Seq(Nat)] /\ AllRising(Moved(S, k, l))
         /\ AllElements(Moved(S, k, l)) = AllElements(S)
<1> DEFINE U == Stepped(S, k)
           h == Head(S[k])
<1>1. /\ U \in [1..n -> Seq(Nat)] /\ AllRising(U) /\ h \in Nat /\ h \in AllElements(S)
      /\ AllElements(U) = AllElements(S) \ {h}
      /\ \A m \in 1..n : \A y \in Elements(U[m]) : (m < k /\ y < h) \/ (k <= m /\ h < y)
  BY StageTail
<1>2. \A m \in 1..n : l < m /\ m < k => Elements(U[m]) = {}
  <2>1. Elements(<< >>) = {}
    BY DEF Elements
  <2>2. \A m \in 1..n : l < m /\ m < k => U[m] = << >>
    BY DEF Stepped, EmptyBetween
  <2> QED BY <2>1, <2>2
<1> HIDE DEF U, h
<1>3. Fits(U, l, h)
  <2> SUFFICES ASSUME NEW m \in 1..n, NEW y \in Elements(U[m])
               PROVE  (m <= l /\ y < h) \/ (l < m /\ h < y)
    BY <1>1 DEF Fits
  <2>1. ~(l < m /\ m < k)
    BY <1>2
  <2>2. (m < k /\ y < h) \/ (k <= m /\ h < y)
    BY <1>1
  <2> QED BY <2>1, <2>2
<1>4. Appended(U, l, h) \in [1..n -> Seq(Nat)] /\ AllRising(Appended(U, l, h))
  BY <1>1, <1>3, StageAppended
<1>5. Adds(Appended(U, l, h), U, h)
  BY <1>1, <1>3, StageAppended
<1>6. AllElements(Appended(U, l, h)) = AllElements(S)
  BY <1>1, <1>5 DEF Adds
<1> QED BY <1>4, <1>6 DEF U, h, Moved

\* Some stages are emptied.
LEMMA StagesCleared ==
  ASSUME NEW n \in Nat, NEW S \in [1..n -> Seq(Nat)], NEW C \in SUBSET (1..n), AllRising(S)
  PROVE  /\ Cleared(S, C) \in [1..n -> Seq(Nat)] /\ AllRising(Cleared(S, C))
         /\ Clears(Cleared(S, C), S, C)
<1> DEFINE T == Cleared(S, C)
<1>1. DOMAIN S = 1..n /\ DOMAIN T = 1..n /\ T \in [1..n -> Seq(Nat)]
  BY DEF Cleared
<1>2. \A m \in 1..n : IF m \in C THEN T[m] = << >> /\ Elements(T[m]) = {} /\ Rising(T[m])
                      ELSE T[m] = S[m]
  <2>1. Elements(<< >>) = {} /\ Rising(<< >>)
    BY DEF Elements, Rising
  <2> QED BY <2>1 DEF Cleared
<1> HIDE DEF T
<1>3. AllRising(T)
  BY <1>1, <1>2 DEF AllRising
<1>4. \A m \in 1..n : Elements(S[m]) \subseteq Nat
  BY AppendRises
<1>5. \A a, b \in 1..n : a # b => Elements(S[a]) \cap Elements(S[b]) = {}
  <2> SUFFICES ASSUME NEW a \in 1..n, NEW b \in 1..n, a < b, NEW y \in Elements(S[a]), y \in Elements(S[b])
               PROVE  FALSE
    OBVIOUS
  <2> QED BY <1>1, <1>4 DEF AllRising
<1>6. AllElements(T) = AllElements(S) \ UNION {Elements(S[m]) : m \in C}
  <2>1. ASSUME NEW y, y \in AllElements(T)
        PROVE  y \in AllElements(S) /\ y \notin UNION {Elements(S[m]) : m \in C}
    <3>1. PICK a \in 1..n : y \in Elements(T[a])
      BY <1>1, <2>1, InStages
    <3>2. a \notin C /\ y \in Elements(S[a])
      BY <1>2, <3>1
    <3>3. \A m \in C : y \notin Elements(S[m])
      BY <1>5, <3>2
    <3> QED BY <1>1, <3>2, <3>3, InStages
  <2>2. ASSUME NEW y, y \in AllElements(S), y \notin UNION {Elements(S[m]) : m \in C}
        PROVE  y \in AllElements(T)
    <3>1. PICK a \in 1..n : y \in Elements(S[a])
      BY <1>1, <2>2, InStages
    <3>2. a \notin C
      BY <2>2, <3>1
    <3> QED BY <1>1, <1>2, <3>1, <3>2, InStages
  <2> QED BY <2>1, <2>2
<1> QED BY <1>1, <1>3, <1>6 DEF T, Clears

\* An empty stage makes no difference.
Without(S, n, k) == [m \in 1..n |-> IF m < k THEN S[m] ELSE S[m + 1]]

LEMMA EmptyStage ==
  ASSUME NEW n \in Nat, NEW S \in [1..n + 1 -> Seq(Nat)], NEW k \in 1..n + 1, Elements(S[k]) = {}, Rising(S[k])
  PROVE  /\ Without(S, n, k) \in [1..n -> Seq(Nat)]
         /\ AllRising(S) <=> AllRising(Without(S, n, k))
         /\ AllElements(Without(S, n, k)) = AllElements(S)
<1> DEFINE T == Without(S, n, k)
           At(m) == IF m < k THEN m ELSE m + 1
<1>1. DOMAIN S = 1..n + 1 /\ DOMAIN T = 1..n /\ T \in [1..n -> Seq(Nat)]
  BY DEF Without
<1>2. \A m \in 1..n : At(m) \in 1..n + 1 /\ T[m] = S[At(m)]
  BY DEF Without
<1>3. \A m, p \in 1..n : m < p <=> At(m) < At(p)
  OBVIOUS
<1>4. \A m \in 1..n + 1 : m # k => \E p \in 1..n : m = At(p)
  <2> TAKE m \in 1..n + 1
  <2> HAVE m # k
  <2>1. CASE m < k
    <3>1. m \in 1..n /\ At(m) = m
      BY <2>1
    <3> QED BY <3>1
  <2>2. CASE m > k
    <3>1. m - 1 \in 1..n /\ At(m - 1) = m
      BY <2>2
    <3> QED BY <3>1
  <2> QED BY <2>1, <2>2
<1> HIDE DEF T, At
<1>5. AllRising(S) => AllRising(T)
  BY <1>1, <1>2, <1>3 DEF AllRising
<1>6. ASSUME AllRising(T) PROVE AllRising(S)
  <2>1. \A m \in 1..n + 1 : Rising(S[m])
    BY <1>1, <1>2, <1>4, <1>6 DEF AllRising
  <2>2. ASSUME NEW a \in 1..n + 1, NEW b \in 1..n + 1, a < b, NEW x \in Elements(S[a]), NEW y \in Elements(S[b])
        PROVE  x < y
    <3>1. a # k /\ b # k
      BY <2>2
    <3>2. PICK p \in 1..n, q \in 1..n : a = At(p) /\ b = At(q)
      BY <1>4, <3>1
    <3>3. p < q /\ x \in Elements(T[p]) /\ y \in Elements(T[q])
      BY <1>2, <1>3, <2>2, <3>2
    <3> QED BY <1>1, <1>6, <3>3 DEF AllRising
  <2> QED BY <1>1, <2>1, <2>2 DEF AllRising
<1>7. \A x : x \in AllElements(T) <=> x \in AllElements(S)
  <2> TAKE x
  <2>1. x \in AllElements(T) => x \in AllElements(S)
    BY <1>1, <1>2, InStages
  <2>2. ASSUME x \in AllElements(S) PROVE x \in AllElements(T)
    <3>1. PICK m \in 1..n + 1 : x \in Elements(S[m])
      BY <1>1, <2>2, InStages
    <3>2. m # k
      BY <3>1
    <3>3. PICK p \in 1..n : m = At(p)
      BY <1>4, <3>2
    <3> QED BY <1>1, <1>2, <3>1, <3>3, InStages
  <2> QED BY <2>1, <2>2
<1>8. AllElements(T) = AllElements(S)
  BY <1>7
<1> QED BY <1>1, <1>5, <1>6, <1>8 DEF T
===============================================================================
