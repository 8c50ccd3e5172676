--------------------------- MODULE RequestPathProofs ---------------------------
(***************************************************************************)
(* Theorems of RequestBuffer, for any number of requests in any order; of  *)
(* FragmentBuffer, for any number of requests and of fragment IDs; and of  *)
(* RequestPath, for any number of runs, events and threads, and for any    *)
(* loss, repetition, delay and reordering of the datagrams.                *)
(***************************************************************************)
EXTENDS RequestPath, RequestModes, FiniteSetTheorems, WellFoundedInduction, TLAPS

\* A set of numbers that is not empty has a least element.
LEMMA LeastNatural ==
  ASSUME NEW S \in SUBSET Nat, S # {}
  PROVE  \E x \in S : \A y \in S : x <= y
<1> DEFINE R == OpToRel(<, Nat)
<1>1. IsWellFoundedOn(R, Nat)
  BY NatLessThanWellFounded
<1>2. PICK x \in S : \A y \in S : <<y, x>> \notin R
  <2> HIDE DEF R
  <2> QED BY <1>1, WFMin
<1>3. \A y \in S : x <= y
  <2> TAKE y \in S
  <2>1. y \in Nat /\ x \in Nat
    OBVIOUS
  <2>2. <<y, x>> \in Nat \X Nat
    BY <2>1
  <2>3. <<y, x>> \notin R
    BY <1>2
  <2>4. ~ (y < x)
    BY <2>2, <2>3 DEF OpToRel
  <2> QED BY <2>1, <2>4
<1> QED BY <1>3

\* A set of sequence IDs that is not empty has a greatest element.
LEMMA GreatestID ==
  ASSUME NEW S \in SUBSET ID, S # {}
  PROVE  \E x \in S : \A y \in S : y <= x
<1> DEFINE D == {MaxID - x : x \in S}
<1>1. D \in SUBSET Nat /\ D # {}
  <2>1. \A x \in S : MaxID - x \in Nat
    BY BufferConstants DEF ID
  <2> QED BY <2>1
<1>2. PICK d \in D : \A e \in D : d <= e
  BY <1>1, LeastNatural
<1>3. PICK x \in S : d = MaxID - x
  OBVIOUS
<1>4. \A y \in S : MaxID - x <= MaxID - y
  BY <1>2, <1>3
<1> QED BY <1>4, BufferConstants DEF ID

\* IDs are few enough for their differences to fit into an int.
LEMMA AsIntExact ==
  ASSUME MaxID < HalfInt, NEW x \in 0..MaxID, NEW y \in 0..MaxID
  PROVE  AsInt(x - y) = x - y
<1>1. x - y + HalfInt \in 0..(2 * HalfInt - 1)
  BY BufferConstants
<1>2. \A n \in Nat : n < 2 * HalfInt => n % (2 * HalfInt) = n
  BY BufferConstants
<1> QED BY <1>1, <1>2, BufferConstants DEF AsInt

IDsFinite == IsFiniteSet(ID)

LEMMA IDsAreFinite == IDsFinite
BY BufferConstants, FS_Interval DEF ID, IDsFinite

\* Ranks are numbers.
LEMMA RankType ==
  ASSUME NEW S \in SUBSET ID, NEW x
  PROVE  Rank(S, x) \in Nat
<1>1. IsFiniteSet({z \in S : z <= x})
  BY IDsAreFinite, FS_Subset DEF IDsFinite
<1> QED BY <1>1, FS_CardinalityType DEF Rank

\* What the loop of RemoveRequest does: highest_seen_request_ reaches the last request
\* of the run it takes off the list, and no further.
LEMMA ConsecutiveRun ==
  ASSUME NEW S \in SUBSET ID, NEW h \in 0..MaxID, NEW top,
         top = h + Increment * Cardinality(Consecutive(S, h))
  PROVE  /\ top \in 0..MaxID /\ h <= top
         /\ \A x \in Consecutive(S, h) : x <= top
<1> DEFINE streak == Consecutive(S, h)
<1>1. streak \in SUBSET ID /\ IsFiniteSet(streak) /\ Cardinality(streak) \in Nat
  BY IDsAreFinite, FS_Subset, FS_CardinalityType DEF Consecutive, IDsFinite
<1>2. CASE streak = {}
  <2>1. Cardinality(streak) = 0
    BY <1>2, FS_EmptySet
  <2> QED BY <1>2, <2>1, BufferConstants
<1>3. CASE streak # {}
  <2>1. PICK m \in streak : \A x \in streak : x <= m
    BY <1>1, <1>3, GreatestID
  <2>2. {z \in S : z <= m} = streak
    <3>1. \A z \in S : z <= m => z \in streak
      BY <2>1 DEF Consecutive, ID
    <3>2. streak \subseteq S
      BY DEF Consecutive
    <3> QED BY <2>1, <3>1, <3>2
  <2>3. m \in S /\ m = h + Increment * Rank(S, m)
    BY <2>1 DEF Consecutive, ID
  <2>4. Rank(S, m) = Cardinality(streak)
    BY <2>2 DEF Rank
  <2>5. m = top
    BY <2>3, <2>4
  <2>6. Increment * Cardinality(streak) \in Nat
    BY <1>1, BufferConstants
  <2>7. m \in 0..MaxID
    BY <2>3, BufferConstants DEF ID
  <2> QED BY <2>1, <2>5, <2>6, <2>7
<1> QED BY <1>2, <1>3

\* The run is without gaps, and what is left of the list lies past it; if every number is
\* a request, the next one is not on the list.
LEMMA RunWhole ==
  ASSUME NEW S \in SUBSET ID, NEW h \in 0..MaxID, \A x \in S : x > h, NEW top,
         top = h + Increment * Cardinality(Consecutive(S, h))
  PROVE  /\ \A k \in 1..Cardinality(Consecutive(S, h)) : h + Increment * k \in Consecutive(S, h)
         /\ \A x \in S \ Consecutive(S, h) : x > top
         /\ Increment = 1 => top + 1 \notin S \ Consecutive(S, h)
<1> DEFINE streak == Consecutive(S, h)
           n == Cardinality(streak)
<1>1. streak \in SUBSET ID /\ IsFiniteSet(streak) /\ n \in Nat /\ streak \subseteq S
  BY IDsAreFinite, FS_Subset, FS_CardinalityType DEF Consecutive, IDsFinite
<1>2. ASSUME NEW x \in streak
      PROVE  /\ x = h + Increment * Rank(S, x) /\ Rank(S, x) \in 1..n
             /\ {z \in S : z <= x} \subseteq streak
  <2>1. x = h + Increment * Rank(S, x) /\ {z \in S : z <= x} \subseteq streak
    <3>1. x \in S /\ \A y \in S : y <= x => y = h + Increment * Rank(S, y)
      BY DEF Consecutive
    <3>2. x <= x
      BY <1>1 DEF ID
    <3>3. ASSUME NEW z \in S, z <= x PROVE z \in streak
      <4>1. \A y \in S : y <= z => y <= x
        BY <1>1, <3>3 DEF ID
      <4> QED BY <3>1, <3>3, <4>1 DEF Consecutive
    <3> QED BY <3>1, <3>2, <3>3
  <2>2. Rank(S, x) <= n
    <3>1. {z \in S : z <= x} \in SUBSET streak
      BY <2>1
    <3>2. Cardinality({z \in S : z <= x}) <= n
      BY <1>1, <3>1, FS_Subset
    <3> QED BY <3>2 DEF Rank
  <2>3. Rank(S, x) \in Nat /\ Rank(S, x) # 0
    <3>1. x \in {z \in S : z <= x} /\ IsFiniteSet({z \in S : z <= x})
      BY <1>1, <2>1, FS_Subset DEF ID
    <3> QED BY <3>1, FS_CardinalityType, FS_EmptySet DEF Rank
  <2>4. Rank(S, x) \in 1..n
    BY <1>1, <2>2, <2>3
  <2> QED BY <2>1, <2>4
<1>3. \A k \in 1..n : \E x \in streak : Rank(S, x) = k
  <2> DEFINE F == [x \in streak |-> Rank(S, x)]
  <2>1. F \in [streak -> 1..n]
    BY <1>2
  <2>2. \A x, y \in streak : F[x] = F[y] => x = y
    BY <1>2
  <2>3. F \in Injection(streak, 1..n)
    BY <2>1, <2>2 DEF Injection, IsInjective
  <2>4. IsFiniteSet(1..n) /\ Cardinality(1..n) = n
    BY <1>1, FS_Interval
  <2>5. F \in Surjection(streak, 1..n)
    BY <2>3, <2>4, FS_Injection
  <2> QED BY <2>5 DEF Surjection
<1>4. \A k \in 1..n : h + Increment * k \in streak
  BY <1>2, <1>3
<1>5. \A x \in S \ streak : x > top
  <2> SUFFICES ASSUME NEW x \in S \ streak, ~(x > top) PROVE FALSE
    OBVIOUS
  <2>1. top \in 0..MaxID /\ x \in ID
    BY ConsecutiveRun
  <2>2. CASE n = 0
    BY <2>1, <2>2, BufferConstants DEF ID
  <2>3. CASE n # 0
    <3>1. top \in streak
      BY <1>1, <1>4, <2>3
    <3>2. x \in {z \in S : z <= top}
      BY <2>1 DEF ID
    <3> QED BY <1>2, <3>1, <3>2
  <2> QED BY <2>2, <2>3
<1>6. ASSUME Increment = 1, top + 1 \in S \ streak
      PROVE  FALSE
  <2> DEFINE x == top + 1
  <2>1. top = h + n /\ top \in 0..MaxID
    BY <1>1, <1>6, ConsecutiveRun
  <2>2. ASSUME NEW y \in S, y <= x
        PROVE  y \in streak \/ y = x
    BY <1>5, <2>1, <2>2 DEF ID
  <2>3. {z \in S : z <= x} = streak \cup {x}
    <3>1. \A y \in streak : y <= x /\ y \in S
      BY <1>1, <2>1, ConsecutiveRun DEF ID
    <3> QED BY <1>6, <2>1, <2>2, <3>1
  <2>4. Rank(S, x) = n + 1
    BY <1>1, <1>6, <2>3, FS_AddElement DEF Rank
  <2>5. \A y \in S : y <= x => y = h + Increment * Rank(S, y)
    <3> SUFFICES ASSUME NEW y \in S, y <= x PROVE y = h + Increment * Rank(S, y)
      OBVIOUS
    <3>1. CASE y \in streak
      BY <1>2, <3>1
    <3>2. CASE y = x
      BY <1>1, <1>6, <2>1, <2>4, <3>2, BufferConstants
    <3> QED BY <2>2, <3>1, <3>2
  <2> QED BY <1>6, <2>5 DEF Consecutive
<1> QED BY <1>4, <1>5, <1>6
-------------------------------------------------------------------------------
\* What is served is remembered: below highest_seen_request_ or out of order.
Remembered == \A id \in served : id <= highestSeen \/ id \in outOfOrder

BufferInv ==
  BufferTypeOK /\ highestSeen <= MaxID /\ Remembered /\ ServedNotWaiting

LEMMA BufferInvInit == BufferInit => BufferInv
BY BufferConstants DEF BufferInit, BufferInv, BufferTypeOK, Remembered, ServedNotWaiting

\* A request is pushed only if it is above and beside all that is remembered.
LEMMA PushInv ==
  ASSUME MaxID < HalfInt, BufferInv, NEW id \in ID, Push(id)
  PROVE  BufferInv'
<1> USE DEF BufferInv
<1>1. AsInt(id - highestSeen) = id - highestSeen
  <2>1. id \in 0..MaxID /\ highestSeen \in 0..MaxID
    BY BufferConstants DEF BufferTypeOK, ID
  <2> QED BY <2>1, AsIntExact
<1>2. id \in served => AlreadyServed(id)
  BY <1>1 DEF AlreadyServed, Remembered, BufferTypeOK, ID
<1>3. ServedNotWaiting'
  BY <1>2 DEF Push, ServedNotWaiting
<1>4. BufferTypeOK' /\ Remembered' /\ (highestSeen <= MaxID)'
  BY DEF Push, BufferTypeOK, Remembered
<1> QED BY <1>3, <1>4

\* A request that is removed is remembered, with all that was before.
LEMMA RemoveInv ==
  ASSUME BufferInv, NEW id \in ID, RemoveRequest(id)
  PROVE  BufferInv'
<1> USE DEF BufferInv
<1>1. ServedNotWaiting'
  BY DEF RemoveRequest, ServedNotWaiting
<1>2. requests' \subseteq ID /\ served' \subseteq ID
  BY DEF RemoveRequest, BufferTypeOK
<1>3. CASE ~(id > highestSeen)
  <2>1. highestSeen' = highestSeen /\ outOfOrder' = outOfOrder /\ served' = served \cup {id}
    BY <1>3 DEF RemoveRequest
  <2>2. id <= highestSeen
    BY <1>3 DEF BufferTypeOK, ID
  <2> QED BY <1>1, <1>2, <2>1, <2>2 DEF BufferTypeOK, Remembered
<1>4. CASE id > highestSeen
  <2> DEFINE S == outOfOrder \cup {id}
             streak == Consecutive(S, highestSeen)
  <2>1. S \in SUBSET ID /\ highestSeen \in 0..MaxID
    BY BufferConstants DEF BufferTypeOK
  <2>2. /\ highestSeen' = highestSeen + Increment * Cardinality(streak)
        /\ outOfOrder' = S \ streak
        /\ served' = served \cup {id}
    BY <1>4 DEF RemoveRequest, Advance
  <2>3. /\ highestSeen' \in 0..MaxID /\ highestSeen <= highestSeen'
        /\ \A x \in streak : x <= highestSeen'
    BY <2>1, <2>2, ConsecutiveRun
  <2>4. Remembered'
    <3> SUFFICES ASSUME NEW x \in served'
                 PROVE  x <= highestSeen' \/ x \in outOfOrder'
      BY DEF Remembered
    <3>1. x \in ID /\ (x <= highestSeen \/ x \in S)
      BY <1>2, <2>2 DEF Remembered
    <3>2. CASE x <= highestSeen
      BY <2>1, <2>3, <3>1, <3>2 DEF ID
    <3>3. CASE x \in S
      BY <2>2, <2>3, <3>3
    <3> QED BY <3>1, <3>2, <3>3
  <2>5. BufferTypeOK' /\ (highestSeen <= MaxID)'
    BY <1>2, <2>1, <2>2, <2>3, BufferConstants DEF BufferTypeOK
  <2> QED BY <1>1, <2>4, <2>5
<1> QED BY <1>3, <1>4

LEMMA BufferInvNext ==
  ASSUME MaxID < HalfInt, BufferInv, [BufferNext]_bufferVars
  PROVE  BufferInv'
<1>1. CASE \E id \in ID : Push(id)
  BY <1>1, PushInv
<1>2. CASE \E id \in ID : RemoveRequest(id)
  BY <1>2, RemoveInv
<1>3. CASE Reset
  BY <1>3, BufferConstants
  DEF Reset, BufferInv, BufferTypeOK, Remembered, ServedNotWaiting
<1>4. CASE UNCHANGED bufferVars
  BY <1>4 DEF bufferVars, BufferInv, BufferTypeOK, Remembered, ServedNotWaiting
<1> QED BY <1>1, <1>2, <1>3, <1>4 DEF BufferNext

\* However requests come and in whatever order they are served, RequestBuffer never takes
\* a request for a new one that was served since the last reset, as long as the IDs of a
\* run fit into an int.
THEOREM NeverServedAgain ==
  ASSUME MaxID < HalfInt
  PROVE  BufferSpec => []ServedNotWaiting
<1>1. BufferInv /\ [BufferNext]_bufferVars => BufferInv'
  BY BufferInvNext
<1>2. BufferInv => ServedNotWaiting
  BY DEF BufferInv
<1> QED BY BufferInvInit, <1>1, <1>2, PTL DEF BufferSpec
-------------------------------------------------------------------------------
\* The other direction: only what was served is remembered.  The list holds requests past
\* highest_seen_request_ that were served, and if all that is served are multiples of
\* Increment, so is highest_seen_request_, and there is no gap below it.
OnListServed == outOfOrder \subseteq served
ListAhead == \A id \in outOfOrder : id > highestSeen
NoGapBelow ==
  (\A id \in served : id % Increment = 0) =>
    /\ highestSeen % Increment = 0
    /\ \A id \in ID : id % Increment = 0 /\ id <= highestSeen => id \in served
NextNotOnList == Increment = 1 => highestSeen + 1 \notin outOfOrder

OrderInv == OnListServed /\ ListAhead /\ NoGapBelow /\ NextNotOnList

\* Multiples of Increment follow each other at a distance of Increment.
LEMMA MultipleOf ==
  ASSUME NEW m \in Nat, m % Increment = 0
  PROVE  \E q \in Nat : m = Increment * q
<1> DEFINE i == Increment
<1>1. i \in Nat \ {0}
  BY BufferConstants
<1> HIDE DEF i
<1>2. m = i * (m \div i) + (m % i)
  BY <1>1
<1>3. m \div i \in Nat
  BY <1>1
<1>4. m % i = 0
  BY DEF i
<1>5. m = i * (m \div i)
  BY <1>1, <1>2, <1>3, <1>4
<1> QED BY <1>3, <1>5 DEF i

LEMMA IsMultiple ==
  ASSUME NEW q \in Nat
  PROVE  (Increment * q) % Increment = 0
<1> DEFINE i == Increment
<1>1. i \in Nat \ {0}
  BY BufferConstants
<1> HIDE DEF i
<1>2. (i * q) % i = 0
  BY <1>1
<1> QED BY <1>2 DEF i

LEMMA NextMultiple ==
  ASSUME NEW h \in Nat, NEW m \in Nat, NEW n \in Nat, h % Increment = 0, m % Increment = 0,
         h < m, m <= h + Increment * n
  PROVE  \E k \in 1..n : m = h + Increment * k
<1>1. PICK a \in Nat : h = Increment * a
  BY MultipleOf
<1>2. PICK b \in Nat : m = Increment * b
  BY MultipleOf
<1>3. b > a
  <2>1. CASE b <= a
    <3>1. Increment * b <= Increment * a
      BY <2>1, BufferConstants
    <3> QED BY <1>1, <1>2, <3>1
  <2> QED BY <2>1
<1>4. b <= a + n
  <2>1. CASE b >= a + n + 1
    <3>1. PICK z \in Nat : z = Increment * n
      BY BufferConstants
    <3>2. Increment * b >= Increment * (a + n + 1)
      BY <2>1, BufferConstants
    <3>3. Increment * (a + n + 1) = Increment * a + Increment * n + Increment
      BY BufferConstants
    <3>4. m >= h + z + Increment
      BY <1>1, <1>2, <3>1, <3>2, <3>3
    <3>5. m <= h + z
      BY <3>1
    <3> QED BY <3>4, <3>5, BufferConstants
  <2> QED BY <2>1
<1>5. m = h + Increment * (b - a)
  BY <1>1, <1>2, BufferConstants
<1> QED BY <1>3, <1>4, <1>5

LEMMA SumOfMultiples ==
  ASSUME NEW h \in Nat, NEW n \in Nat, h % Increment = 0
  PROVE  (h + Increment * n) % Increment = 0
<1>1. PICK a \in Nat : h = Increment * a
  BY MultipleOf
<1>2. h + Increment * n = Increment * (a + n) /\ a + n \in Nat
  BY <1>1, BufferConstants
<1> QED BY <1>2, IsMultiple

\* Requests are removed: those past highest_seen_request_ come on the list, and what is
\* consecutive from there leaves it.
LEMMA AdvanceInv ==
  ASSUME BufferInv, OrderInv, NEW R \in SUBSET ID, served' = served \cup R,
         Advance(outOfOrder \cup {id \in R : id > highestSeen})
  PROVE  OrderInv' /\ Remembered' /\ highestSeen' \in 0..MaxID /\ outOfOrder' \subseteq ID
<1> DEFINE S == outOfOrder \cup {id \in R : id > highestSeen}
           streak == Consecutive(S, highestSeen)
<1>1. S \in SUBSET ID /\ highestSeen \in 0..MaxID /\ \A id \in S : id > highestSeen
  BY BufferConstants DEF BufferInv, BufferTypeOK, OrderInv, ListAhead
<1>2. highestSeen' = highestSeen + Increment * Cardinality(streak) /\ outOfOrder' = S \ streak
  BY DEF Advance
<1>3. /\ highestSeen' \in 0..MaxID /\ highestSeen <= highestSeen'
      /\ \A id \in streak : id <= highestSeen'
  BY <1>1, <1>2, ConsecutiveRun
<1>4. /\ \A k \in 1..Cardinality(streak) : highestSeen + Increment * k \in streak
      /\ \A id \in S \ streak : id > highestSeen'
      /\ Increment = 1 => highestSeen' + 1 \notin S \ streak
  BY <1>1, <1>2, RunWhole
<1>5. streak \subseteq S /\ S \subseteq served' /\ Cardinality(streak) \in Nat
  <2>1. streak \in SUBSET ID
    BY <1>1 DEF Consecutive
  <2>2. Cardinality(streak) \in Nat
    BY <2>1, IDsAreFinite, FS_Subset, FS_CardinalityType DEF IDsFinite
  <2> QED BY <2>2 DEF Consecutive, OrderInv, OnListServed
<1> HIDE DEF S, streak
<1>6. Remembered'
  <2> SUFFICES ASSUME NEW id \in served' PROVE id <= highestSeen' \/ id \in outOfOrder'
    BY DEF Remembered
  <2>1. id \in ID /\ (id <= highestSeen \/ id \in S)
    BY DEF S, BufferInv, BufferTypeOK, Remembered, ID
  <2>2. CASE id <= highestSeen
    BY <1>1, <1>3, <2>1, <2>2 DEF ID
  <2>3. CASE id \in S
    BY <1>2, <1>3, <2>3
  <2> QED BY <2>1, <2>2, <2>3
<1>7. NoGapBelow'
  <2> SUFFICES ASSUME \A id \in served' : id % Increment = 0
               PROVE  /\ highestSeen' % Increment = 0
                      /\ \A id \in ID : id % Increment = 0 /\ id <= highestSeen' => id \in served'
    BY DEF NoGapBelow
  <2>1. /\ highestSeen % Increment = 0
        /\ \A id \in ID : id % Increment = 0 /\ id <= highestSeen => id \in served
    BY DEF OrderInv, NoGapBelow
  <2>2. highestSeen' % Increment = 0
    BY <1>1, <1>2, <1>5, <2>1, SumOfMultiples
  <2>3. ASSUME NEW id \in ID, id % Increment = 0, id <= highestSeen', ~(id <= highestSeen)
        PROVE  id \in served'
    <3>1. \E k \in 1..Cardinality(streak) : id = highestSeen + Increment * k
      BY <1>1, <1>2, <1>5, <2>1, <2>3, NextMultiple DEF ID
    <3> QED BY <1>4, <1>5, <3>1
  <2> QED BY <2>1, <2>2, <2>3
<1>8. OnListServed' /\ ListAhead' /\ NextNotOnList'
  BY <1>2, <1>4, <1>5 DEF OnListServed, ListAhead, NextNotOnList
<1> QED BY <1>1, <1>2, <1>3, <1>6, <1>7, <1>8 DEF OrderInv

LEMMA RemoveOrder ==
  ASSUME BufferInv, OrderInv, NEW id \in ID, RemoveRequest(id)
  PROVE  OrderInv'
<1>1. CASE id > highestSeen
  <2>1. {x \in {id} : x > highestSeen} = {id}
    BY <1>1
  <2>2. Advance(outOfOrder \cup {x \in {id} : x > highestSeen}) /\ served' = served \cup {id}
    BY <1>1, <2>1 DEF RemoveRequest
  <2> QED BY <2>2, AdvanceInv
<1>2. CASE ~(id > highestSeen)
  <2>1. served' = served \cup {id} /\ UNCHANGED <<highestSeen, outOfOrder>>
    BY <1>2 DEF RemoveRequest
  <2> QED BY <2>1 DEF OrderInv, OnListServed, ListAhead, NoGapBelow, NextNotOnList
<1> QED BY <1>1, <1>2

LEMMA RemoveAllInv ==
  ASSUME BufferInv, OrderInv, NEW R \in SUBSET ID, RemoveRequests(R)
  PROVE  BufferInv' /\ OrderInv'
<1>1. served' = served \cup R /\ requests' = requests \ R
  BY DEF RemoveRequests
<1>2. OrderInv' /\ Remembered' /\ highestSeen' \in 0..MaxID /\ outOfOrder' \subseteq ID
  BY <1>1, AdvanceInv DEF RemoveRequests
<1>3. BufferTypeOK' /\ highestSeen' <= MaxID
  BY <1>1, <1>2, BufferConstants DEF BufferInv, BufferTypeOK
<1>4. ServedNotWaiting'
  BY <1>1 DEF BufferInv, ServedNotWaiting
<1> QED BY <1>2, <1>3, <1>4 DEF BufferInv

LEMMA OrderReset ==
  ASSUME highestSeen' = 0, outOfOrder' = {}, served' = {}
  PROVE  OrderInv'
BY BufferConstants DEF OrderInv, OnListServed, ListAhead, NoGapBelow, NextNotOnList, ID

LEMMA OrderInvNext ==
  ASSUME BufferInv, OrderInv, [BufferNext]_bufferVars
  PROVE  OrderInv'
<1>1. CASE \E id \in ID : Push(id)
  BY <1>1 DEF Push, OrderInv, OnListServed, ListAhead, NoGapBelow, NextNotOnList
<1>2. CASE \E id \in ID : RemoveRequest(id)
  BY <1>2, RemoveOrder
<1>3. CASE Reset
  BY <1>3, OrderReset DEF Reset
<1>4. CASE UNCHANGED bufferVars
  BY <1>4 DEF bufferVars, OrderInv, OnListServed, ListAhead, NoGapBelow, NextNotOnList
<1> QED BY <1>1, <1>2, <1>3, <1>4 DEF BufferNext

\* AlreadyServed says of a request what OrderInv says of the list and the count.
LEMMA IgnoredWasServed ==
  ASSUME MaxID < HalfInt, BufferInv, OrderInv
  PROVE  OnlyServedIgnored
<1> SUFFICES ASSUME \A x \in served \cup requests : x % Increment = 0,
                    NEW id \in ID, id % Increment = 0, AlreadyServed(id)
             PROVE  id \in served
  BY DEF OnlyServedIgnored
<1>1. AsInt(id - highestSeen) = id - highestSeen
  <2>1. id \in 0..MaxID /\ highestSeen \in 0..MaxID
    BY BufferConstants DEF BufferInv, BufferTypeOK, ID
  <2> QED BY <2>1, AsIntExact
<1>2. id <= highestSeen \/ id \in outOfOrder
  BY <1>1 DEF AlreadyServed, BufferInv, BufferTypeOK, ID
<1> QED BY <1>2 DEF OrderInv, OnListServed, NoGapBelow

\* Nothing is withheld from an event: RequestBuffer ignores no request it did not serve, in
\* whatever order the requests came and were removed, as long as their IDs fit into an int.
THEOREM OnlyServedAlwaysIgnored ==
  ASSUME MaxID < HalfInt
  PROVE  BufferSpec => []OnlyServedIgnored
<1>1. BufferInit => BufferInv /\ OrderInv
  <2>1. BufferInit => OrderInv
    BY BufferConstants DEF BufferInit, OrderInv, OnListServed, ListAhead, NoGapBelow, NextNotOnList, ID
  <2> QED BY <2>1, BufferInvInit
<1>2. (BufferInv /\ OrderInv) /\ [BufferNext]_bufferVars => (BufferInv /\ OrderInv)'
  BY BufferInvNext, OrderInvNext
<1>3. BufferInv /\ OrderInv => OnlyServedIgnored
  BY IgnoredWasServed
<1> QED BY <1>1, <1>2, <1>3, PTL DEF BufferSpec
-------------------------------------------------------------------------------
\* The invariant.  The request a pass looks at next is never below next_sequence_id_: the
\* copy held none below it, because all of these are served and none of the served waits,
\* and next_sequence_id_ only moves past the request just looked at.  So what was answered
\* stays in WindowsSent or below next_sequence_id_.  Some of it holds in the first run
\* only, since Reset keeps WindowsSent.
GiveUpAhead == giveUp > 0 => nextSeq <= giveUp

IdleGivesUpNothing == pass = "idle" => giveUp = 0

WorkAhead == run = 1 /\ pass = "requests" =>
  \A id \in work : nextSeq <= id /\ giveUp < id

PassedServed == run = 1 => \A id \in ID : id < nextSeq => id \in served

WindowsAnswered == run = 1 =>
  \A f \in FID, id \in ID : id \in windows[f] => answers[f][id] > 0

AnsweredKept == run = 1 =>
  \A f \in FID, id \in ID : answers[f][id] > 0 => id \in windows[f] \/ id < nextSeq

StartsEmpty == run = 1 /\ receiver = "starting" =>
  /\ requests = {} /\ work = {} /\ giveUp = 0 /\ nextSeq = 1
  /\ \A f \in FID : windows[f] = {}

Progress == GiveUpAhead /\ IdleGivesUpNothing /\ WorkAhead /\ PassedServed /\ StartsEmpty
History == WindowsAnswered /\ AnsweredKept /\ AnsweredOnce

BoardInv == BoardTypeOK /\ BufferInv /\ Progress /\ History

LEMMA BoardInvInit == BoardInit => BoardInv
<1> SUFFICES ASSUME BoardInit PROVE BoardInv
  OBVIOUS
<1>1. BufferInv
  BY BufferInvInit DEF BoardInit
<1>2. BoardTypeOK
  BY <1>1, BoardConstants, BufferConstants DEF BoardInit, BoardTypeOK, BufferInv
<1>3. Progress
  BY DEF BoardInit, BufferInit, Progress, GiveUpAhead, IdleGivesUpNothing, WorkAhead, PassedServed, StartsEmpty, ID
<1>4. History
  BY DEF BoardInit, History, WindowsAnswered, AnsweredKept, AnsweredOnce
<1> QED BY <1>1, <1>2, <1>3, <1>4 DEF BoardInv

\* The request looked at next is the lowest one left.
LEMMA LeastWork ==
  ASSUME NEW S \in SUBSET ID, S # {}
  PROVE  Least(S) \in S /\ \A y \in S : Least(S) <= y
<1>1. \E x \in S : \A y \in S : x <= y
  BY LeastNatural, BufferConstants DEF ID
<1> QED BY <1>1 DEF Least

\* What checking one request does to the windows, the counts and the waiting requests.
LEMMA SettleFacts ==
  ASSUME BufferInv, nextSeq \in 1..MaxID + 1,
         NEW seq \in ID, NEW sent \in [FID -> SUBSET ID], Settle(seq, sent)
  PROVE  /\ BufferInv'
         /\ windows' \in [FID -> SUBSET ID]
         /\ \A f \in FID : windows'[f] \subseteq sent[f]
         /\ nextSeq' \in 1..MaxID + 1
         /\ nextSeq' = nextSeq \/ (nextSeq = seq /\ nextSeq' = seq + 1 /\ seq \in served')
         /\ \A f \in FID : \A id \in sent[f] : id \in windows'[f] \/ id < nextSeq'
         /\ served \subseteq served'
         /\ requests' \subseteq requests
         /\ \A id \in requests \ requests' : id = seq /\ \A f \in FID : seq \in sent[f]
<1>1. CASE \A f \in FID : seq \in sent[f]
  <2>1. RemoveRequest(seq)
    BY <1>1 DEF Settle
  <2>2. BufferInv'
    BY <2>1, RemoveInv
  <2>3. requests' = requests \ {seq} /\ served' = served \cup {seq}
    BY <2>1 DEF RemoveRequest
  <2>4. CASE nextSeq = seq
    <3>1. nextSeq' = seq + 1 /\ windows' = [f \in FID |-> sent[f] \ {seq}]
      BY <1>1, <2>4 DEF Settle
    <3>2. nextSeq' \in 1..MaxID + 1
      BY <3>1, BufferConstants DEF ID
    <3>3. \A f \in FID : \A id \in sent[f] : id \in windows'[f] \/ id < nextSeq'
      BY <3>1 DEF ID
    <3> QED BY <1>1, <2>2, <2>3, <2>4, <3>1, <3>2, <3>3
  <2>5. CASE nextSeq # seq
    <3>1. nextSeq' = nextSeq /\ windows' = sent
      BY <1>1, <2>5 DEF Settle
    <3> QED BY <1>1, <2>2, <2>3, <3>1
  <2> QED BY <2>4, <2>5
<1>2. CASE ~ \A f \in FID : seq \in sent[f]
  <2>1. windows' = sent /\ UNCHANGED <<bufferVars, nextSeq>>
    BY <1>2 DEF Settle
  <2>2. BufferInv'
    BY <2>1 DEF bufferVars, BufferInv, BufferTypeOK, Remembered, ServedNotWaiting
  <2> QED BY <2>1, <2>2 DEF bufferVars
<1> QED BY <1>1, <1>2

\* What checkSentWindows decides to give up is not behind next_sequence_id_.
LEMMA CheckFacts ==
  ASSUME NEW seq \in ID, NEW sent, CheckSentWindows(seq, sent)
  PROVE  /\ Settle(seq, sent)
         /\ giveUp' \in {0, seq}
         /\ GiveUpAhead'
BY DEF CheckSentWindows, GiveUpAhead, ID

\* What is common to the passes over the requests in "sequence ID" and Window mode: the
\* lowest request left is answered by some Fragment IDs that have not answered it yet.
SentBy(seq, by) == [f \in FID |-> IF f \in by THEN windows[f] \cup {seq} ELSE windows[f]]

Answers(seq, by) ==
  /\ pass = "requests" /\ work # {} /\ giveUp = 0 /\ seq = Least(work)
  /\ by \subseteq FID /\ \A f \in by : seq \notin windows[f]
  /\ data' \in [FID -> SUBSET ID]
  /\ answers' = [f \in FID |-> [answers[f] EXCEPT ![seq] = IF f \in by THEN @ + 1 ELSE @]]
  /\ CheckSentWindows(seq, SentBy(seq, by))
  /\ work' = work \ {seq}
  /\ UNCHANGED <<pass, receiver, run>>

LEMMA ServeAnswers ==
  ASSUME BoardTypeOK, ServeRequest
  PROVE  Answers(Least(work), AnsweredBy(Least(work)))
<1>1. data' \in [FID -> SUBSET ID]
  BY DEF ServeRequest, BoardTypeOK
<1> QED BY <1>1 DEF ServeRequest, Answers, SentBy, AnsweredBy

LEMMA AnswerInv ==
  ASSUME BoardInv, NEW seq, NEW by, Answers(seq, by)
  PROVE  BoardInv'
<1> DEFINE sent == SentBy(seq, by)
<1> USE DEF BoardInv, BoardTypeOK, Progress, History
<1>1. /\ work # {} /\ pass = "requests" /\ giveUp = 0 /\ seq = Least(work)
      /\ by \subseteq FID /\ \A f \in by : seq \notin windows[f]
      /\ data' \in [FID -> SUBSET ID]
      /\ answers' = [f \in FID |-> [answers[f] EXCEPT ![seq] = IF f \in by THEN @ + 1 ELSE @]]
      /\ CheckSentWindows(seq, sent)
      /\ work' = work \ {seq}
      /\ UNCHANGED <<pass, receiver, run>>
  BY DEF Answers
<1>2. seq \in work /\ seq \in ID /\ \A id \in work : seq <= id
  BY <1>1, LeastWork
<1>3. sent \in [FID -> SUBSET ID] /\ \A f \in FID : windows[f] \subseteq sent[f]
  BY <1>2 DEF SentBy
<1> HIDE DEF sent
<1>4. Settle(seq, sent) /\ giveUp' \in {0, seq} /\ GiveUpAhead'
  BY <1>1, <1>2, CheckFacts
<1>5. /\ BufferInv'
      /\ windows' \in [FID -> SUBSET ID]
      /\ \A f \in FID : windows'[f] \subseteq sent[f]
      /\ nextSeq' \in 1..MaxID + 1
      /\ nextSeq' = nextSeq \/ (nextSeq = seq /\ nextSeq' = seq + 1 /\ seq \in served')
      /\ \A f \in FID : \A id \in sent[f] : id \in windows'[f] \/ id < nextSeq'
      /\ served \subseteq served'
  BY <1>2, <1>3, <1>4, SettleFacts
<1>6. BoardTypeOK'
  <2>2. answers' \in [FID -> [ID -> Nat]]
    BY <1>1, <1>2
  <2>3. giveUp' \in {0} \cup ID /\ work' \subseteq ID
    BY <1>1, <1>2, <1>4
  <2> QED BY <1>1, <1>5, <2>2, <2>3 DEF BufferInv
<1>7. WorkAhead'
  <2> SUFFICES ASSUME run = 1, NEW id \in work'
               PROVE  nextSeq' <= id /\ giveUp' < id
    BY <1>1 DEF WorkAhead
  <2>1. id \in work /\ id # seq /\ id \in ID /\ id \in Nat /\ seq \in Nat
    BY <1>1, <1>2 DEF ID
  <2>2. seq < id
    BY <1>2, <2>1
  <2>3. nextSeq <= id
    BY <1>1, <2>1 DEF WorkAhead
  <2>4. nextSeq' <= id
    BY <1>5, <2>1, <2>2, <2>3
  <2>5. giveUp' < id
    BY <1>4, <2>1, <2>2 DEF ID
  <2> QED BY <2>4, <2>5
<1>8. PassedServed'
  BY <1>1, <1>2, <1>5 DEF PassedServed, ID
<1>9. StartsEmpty' /\ IdleGivesUpNothing'
  BY <1>1, <1>2 DEF StartsEmpty, IdleGivesUpNothing
<1>10. ASSUME run = 1, NEW f \in FID, NEW id \in ID
       PROVE  /\ answers'[f][id] = IF f \in by /\ id = seq THEN answers[f][id] + 1 ELSE answers[f][id]
              /\ answers[f][id] \in Nat
              /\ id \in sent[f] <=> id \in windows[f] \/ (f \in by /\ id = seq)
  BY <1>1, <1>2 DEF sent, SentBy
<1>11. ASSUME run = 1, NEW f \in FID, f \in by
       PROVE  answers[f][seq] = 0
  <2>1. seq \notin windows[f]
    BY <1>1, <1>11
  <2>2. ~ (seq < nextSeq)
    BY <1>1, <1>2, <1>11 DEF WorkAhead, ID
  <2>3. answers[f][seq] \in Nat
    BY <1>2
  <2> QED BY <1>2, <1>11, <2>1, <2>2, <2>3 DEF AnsweredKept
<1>12. WindowsAnswered'
  <2> SUFFICES ASSUME run = 1, NEW f \in FID, NEW id \in ID, id \in windows'[f]
               PROVE  answers'[f][id] > 0
    BY <1>1 DEF WindowsAnswered
  <2>1. id \in sent[f]
    BY <1>5
  <2> QED BY <1>10, <2>1 DEF WindowsAnswered
<1>13. AnsweredKept'
  <2> SUFFICES ASSUME run = 1, NEW f \in FID, NEW id \in ID, answers'[f][id] > 0
               PROVE  id \in windows'[f] \/ id < nextSeq'
    BY <1>1 DEF AnsweredKept
  <2>1. id \in sent[f] \/ id < nextSeq
    BY <1>10 DEF AnsweredKept
  <2>2. CASE id \in sent[f]
    BY <1>5, <2>2
  <2>3. CASE id < nextSeq
    BY <1>5, <2>3 DEF ID
  <2> QED BY <2>1, <2>2, <2>3
<1>14. AnsweredOnce'
  <2> SUFFICES ASSUME run = 1, NEW f \in FID, NEW id \in ID
               PROVE  answers'[f][id] <= 1
    BY <1>1 DEF AnsweredOnce
  <2> QED BY <1>10, <1>11 DEF AnsweredOnce
<1> QED BY <1>4, <1>5, <1>6, <1>7, <1>8, <1>9, <1>12, <1>13, <1>14

LEMMA RecheckInv ==
  ASSUME BoardInv, RecheckWindow
  PROVE  BoardInv'
<1> DEFINE seq == Least(work)
<1> USE DEF BoardInv, BoardTypeOK, Progress, History
<1>1. /\ work # {} /\ pass = "windows" /\ CheckSentWindows(seq, windows)
      /\ work' = work \ {seq}
      /\ UNCHANGED <<data, pass, receiver, run, answers>>
  BY DEF RecheckWindow
<1>2. seq \in work /\ seq \in ID
  BY <1>1, LeastWork
<1> HIDE DEF seq
<1>3. Settle(seq, windows) /\ giveUp' \in {0, seq} /\ GiveUpAhead'
  BY <1>1, <1>2, CheckFacts
<1>4. /\ BufferInv'
      /\ windows' \in [FID -> SUBSET ID]
      /\ \A f \in FID : windows'[f] \subseteq windows[f]
      /\ nextSeq' \in 1..MaxID + 1
      /\ nextSeq' = nextSeq \/ (nextSeq = seq /\ nextSeq' = seq + 1 /\ seq \in served')
      /\ \A f \in FID : \A id \in windows[f] : id \in windows'[f] \/ id < nextSeq'
      /\ served \subseteq served'
  BY <1>2, <1>3, SettleFacts
<1>5. BoardTypeOK'
  BY <1>1, <1>2, <1>3, <1>4 DEF BufferInv
<1>6. WorkAhead'
  BY <1>1 DEF WorkAhead
<1>7. PassedServed'
  BY <1>1, <1>2, <1>4 DEF PassedServed, ID
<1>8. StartsEmpty' /\ IdleGivesUpNothing'
  BY <1>1, <1>2 DEF StartsEmpty, IdleGivesUpNothing
<1>9. WindowsAnswered'
  BY <1>1, <1>4 DEF WindowsAnswered
<1>10. AnsweredKept'
  <2> SUFFICES ASSUME run = 1, NEW f \in FID, NEW id \in ID, answers[f][id] > 0
               PROVE  id \in windows'[f] \/ id < nextSeq'
    BY <1>1 DEF AnsweredKept
  <2>1. id \in windows[f] \/ id < nextSeq
    BY DEF AnsweredKept
  <2>2. CASE id < nextSeq
    BY <1>4, <2>2 DEF ID
  <2> QED BY <1>4, <2>1, <2>2
<1>11. AnsweredOnce'
  BY <1>1 DEF AnsweredOnce
<1> QED BY <1>3, <1>4, <1>5, <1>6, <1>7, <1>8, <1>9, <1>10, <1>11

LEMMA GiveUpInv ==
  ASSUME BoardInv, GiveUpRequest
  PROVE  BoardInv'
<1> USE DEF BoardInv, BoardTypeOK, Progress, History
<1>1. /\ giveUp > 0 /\ RemoveRequest(nextSeq)
      /\ windows' = [f \in FID |-> windows[f] \ {nextSeq}]
      /\ nextSeq' = nextSeq + 1
      /\ giveUp' = IF nextSeq < giveUp THEN giveUp ELSE 0
      /\ UNCHANGED <<data, pass, work, answers, receiver, run>>
  BY DEF GiveUpRequest
<1>2. giveUp \in ID /\ nextSeq <= giveUp /\ nextSeq \in ID
  BY <1>1, BufferConstants DEF GiveUpAhead, ID
<1>3. BufferInv'
  BY <1>1, <1>2, RemoveInv
<1>4. served' = served \cup {nextSeq}
  BY <1>1 DEF RemoveRequest
<1>5. BoardTypeOK'
  <2>1. nextSeq' \in 1..MaxID + 1 /\ giveUp' \in {0} \cup ID
    BY <1>1, <1>2, BufferConstants DEF ID
  <2> QED BY <1>1, <1>3, <2>1 DEF BufferInv
<1>6. GiveUpAhead'
  BY <1>1, <1>2 DEF GiveUpAhead, ID
<1>7. WorkAhead'
  <2> SUFFICES ASSUME run = 1, pass = "requests", NEW id \in work
               PROVE  nextSeq' <= id /\ giveUp' < id
    BY <1>1 DEF WorkAhead
  <2>1. giveUp < id /\ id \in ID
    BY DEF WorkAhead
  <2> QED BY <1>1, <1>2, <2>1 DEF ID
<1>8. PassedServed'
  BY <1>1, <1>2, <1>4 DEF PassedServed, ID
<1>9. StartsEmpty' /\ IdleGivesUpNothing'
  BY <1>1 DEF StartsEmpty, IdleGivesUpNothing
<1>10. WindowsAnswered'
  BY <1>1 DEF WindowsAnswered
<1>11. AnsweredKept'
  <2> SUFFICES ASSUME run = 1, NEW f \in FID, NEW id \in ID, answers[f][id] > 0
               PROVE  id \in windows'[f] \/ id < nextSeq'
    BY <1>1 DEF AnsweredKept
  <2>1. id \in windows[f] \/ id < nextSeq
    BY DEF AnsweredKept
  <2>2. CASE id = nextSeq
    BY <1>1, <1>2, <2>2 DEF ID
  <2>3. CASE id # nextSeq
    BY <1>1, <1>2, <2>1, <2>3 DEF ID
  <2> QED BY <2>2, <2>3
<1>12. AnsweredOnce'
  BY <1>1 DEF AnsweredOnce
<1> QED BY <1>3, <1>5, <1>6, <1>7, <1>8, <1>9, <1>10, <1>11, <1>12

\* The steps that leave RequestBuffer alone.
LEMMA QuietInv ==
  ASSUME BoardInv, UNCHANGED bufferVars
  PROVE  BufferInv'
BY DEF BoardInv, bufferVars, BufferInv, BufferTypeOK, Remembered, ServedNotWaiting

\* The copy of the waiting requests holds none below next_sequence_id_.
Begins ==
  /\ pass = "idle" /\ pass' = "requests" /\ work' = requests
  /\ data' \in [FID -> SUBSET ID]
  /\ UNCHANGED <<bufferVars, windows, nextSeq, giveUp, receiver, run, answers>>

LEMMA BeginInv ==
  ASSUME BoardInv, Begins
  PROVE  BoardInv'
<1> USE DEF BoardInv, BoardTypeOK, Progress, History
<1>1. /\ pass' = "requests" /\ work' = requests
      /\ data' \in [FID -> SUBSET ID]
      /\ UNCHANGED <<bufferVars, windows, nextSeq, giveUp, receiver, run, answers>>
  BY DEF Begins
<1>2. BufferInv'
  BY <1>1, QuietInv
<1>3. BoardTypeOK'
  BY <1>1, <1>2 DEF BufferInv, BufferTypeOK, bufferVars
<1>4. WorkAhead'
  <2> SUFFICES ASSUME run = 1, NEW id \in requests
               PROVE  nextSeq <= id /\ giveUp < id
    BY <1>1 DEF WorkAhead
  <2>1. id \in ID /\ id \notin served
    BY DEF BufferInv, ServedNotWaiting, BufferTypeOK
  <2>2. nextSeq <= id
    BY <2>1 DEF PassedServed, ID
  <2>3. giveUp = 0
    BY DEF Begins, IdleGivesUpNothing
  <2> QED BY <2>1, <2>2, <2>3 DEF ID
<1>5. GiveUpAhead' /\ PassedServed' /\ StartsEmpty' /\ IdleGivesUpNothing'
  BY <1>1 DEF GiveUpAhead, PassedServed, StartsEmpty, IdleGivesUpNothing, bufferVars
<1>6. History'
  BY <1>1 DEF WindowsAnswered, AnsweredKept, AnsweredOnce
<1> QED BY <1>2, <1>3, <1>4, <1>5, <1>6

LEMMA BetweenInv ==
  ASSUME BoardInv, RecheckWindows \/ EndPass
  PROVE  BoardInv'
<1> USE DEF BoardInv, BoardTypeOK, Progress, History
<1>1. /\ pass' \in {"windows", "idle"} /\ giveUp = 0
      /\ work' \subseteq ID /\ (run = 1 /\ receiver = "starting" => work' = {})
      /\ UNCHANGED <<bufferVars, data, windows, nextSeq, giveUp, receiver, run, answers>>
  <2>1. UNION {windows[f] : f \in FID} \subseteq ID
    OBVIOUS
  <2>2. run = 1 /\ receiver = "starting" => UNION {windows[f] : f \in FID} = {}
    BY DEF StartsEmpty
  <2> QED BY <2>1, <2>2 DEF RecheckWindows, EndPass
<1>2. BufferInv'
  BY <1>1, QuietInv
<1>3. BoardTypeOK'
  BY <1>1, <1>2 DEF BufferInv, BufferTypeOK
<1>4. Progress'
  BY <1>1 DEF GiveUpAhead, IdleGivesUpNothing, WorkAhead, PassedServed, StartsEmpty, bufferVars
<1>5. History'
  BY <1>1 DEF WindowsAnswered, AnsweredKept, AnsweredOnce
<1> QED BY <1>2, <1>3, <1>4, <1>5

LEMMA AddInv ==
  ASSUME BoardInv, NEW f \in FID, NEW id \in ID, AddFragment(f, id)
  PROVE  BoardInv'
<1> USE DEF BoardInv, BoardTypeOK, Progress, History
<1>1. /\ data' = [data EXCEPT ![f] = @ \cup {id}]
      /\ UNCHANGED <<bufferVars, windows, nextSeq, pass, work, giveUp, receiver, run, answers>>
  BY DEF AddFragment
<1>2. BufferInv'
  BY <1>1, QuietInv
<1>3. BoardTypeOK'
  BY <1>1, <1>2 DEF BufferInv, BufferTypeOK
<1>4. Progress'
  BY <1>1 DEF GiveUpAhead, IdleGivesUpNothing, WorkAhead, PassedServed, StartsEmpty, bufferVars
<1>5. History'
  BY <1>1 DEF WindowsAnswered, AnsweredKept, AnsweredOnce
<1> QED BY <1>2, <1>3, <1>4, <1>5

\* The steps of the request thread, which leave the board's own state alone.
LEMMA ReceiverInv ==
  ASSUME MaxID < HalfInt, BoardInv,
         ReceiverStarts \/ ReceiverStops \/ \E id \in ID : PushRequest(id)
  PROVE  BoardInv'
<1> USE DEF BoardInv, BoardTypeOK, Progress, History
<1>1. /\ receiver' \in {"running", "stopped"}
      /\ UNCHANGED <<data, windows, nextSeq, pass, work, giveUp, answers, run>>
  BY DEF ReceiverStarts, ReceiverStops, PushRequest, boardVars
<1>2. BufferInv'
  <2>1. CASE ReceiverStarts
    BY <2>1, BufferConstants
    DEF ReceiverStarts, Reset, BufferInv, BufferTypeOK, Remembered, ServedNotWaiting
  <2>2. CASE \E id \in ID : PushRequest(id)
    BY <2>2, PushInv DEF PushRequest
  <2>3. CASE ReceiverStops
    BY <2>3, QuietInv DEF ReceiverStops
  <2> QED BY <2>1, <2>2, <2>3
<1>3. BoardTypeOK'
  BY <1>1, <1>2 DEF BufferInv
<1>4. PassedServed'
  <2>1. CASE ReceiverStarts
    BY <1>1, <2>1 DEF ReceiverStarts, PassedServed, StartsEmpty, ID
  <2>2. CASE \E id \in ID : PushRequest(id)
    BY <1>1, <2>2 DEF PushRequest, Push, PassedServed
  <2>3. CASE ReceiverStops
    BY <1>1, <2>3 DEF ReceiverStops, bufferVars, PassedServed
  <2> QED BY <2>1, <2>2, <2>3
<1>5. Progress'
  BY <1>1, <1>4 DEF GiveUpAhead, IdleGivesUpNothing, WorkAhead, StartsEmpty
<1>6. History'
  BY <1>1 DEF WindowsAnswered, AnsweredKept, AnsweredOnce
<1> QED BY <1>2, <1>3, <1>5, <1>6

LEMMA StartRunInv ==
  ASSUME BoardInv, StartRun
  PROVE  BoardInv'
<1> USE DEF BoardInv, BoardTypeOK, Progress, History
<1>1. /\ run' = run + 1 /\ run < MaxRuns /\ receiver' = "starting" /\ pass = "idle"
      /\ data' = [f \in FID |-> {}] /\ nextSeq' = 1
      /\ answers' = [f \in FID |-> [id \in ID |-> 0]]
      /\ UNCHANGED <<bufferVars, windows, pass, work, giveUp>>
  BY DEF StartRun
<1>2. run' # 1 /\ run' \in 1..MaxRuns
  BY <1>1, BoardConstants
<1>3. BufferInv'
  BY <1>1, QuietInv
<1>4. BoardTypeOK'
  BY <1>1, <1>2, <1>3, BufferConstants DEF BufferInv
<1>5. Progress'
  BY <1>1, <1>2 DEF GiveUpAhead, IdleGivesUpNothing, WorkAhead, PassedServed, StartsEmpty
<1>6. History'
  BY <1>2 DEF WindowsAnswered, AnsweredKept, AnsweredOnce
<1> QED BY <1>3, <1>4, <1>5, <1>6

LEMMA StutterInv ==
  ASSUME BoardInv, UNCHANGED fbVars
  PROVE  BoardInv'
<1>1. UNCHANGED <<bufferVars, data, windows, nextSeq, pass, work, giveUp, receiver, run, answers>>
  BY DEF fbVars, boardVars
<1>2. BufferInv'
  BY <1>1, QuietInv
<1> USE DEF BoardInv, BoardTypeOK, Progress, History
<1>3. BoardTypeOK'
  BY <1>1, <1>2 DEF BufferInv, BufferTypeOK
<1>4. Progress'
  BY <1>1 DEF GiveUpAhead, IdleGivesUpNothing, WorkAhead, PassedServed, StartsEmpty, bufferVars
<1>5. History'
  BY <1>1 DEF WindowsAnswered, AnsweredKept, AnsweredOnce
<1> QED BY <1>2, <1>3, <1>4, <1>5

LEMMA BoardInvNext ==
  ASSUME MaxID < HalfInt, BoardInv, [FBNext]_fbVars
  PROVE  BoardInv'
<1>1. CASE \E f \in FID, id \in ID : AddFragment(f, id)
  BY <1>1, AddInv
<1>2. CASE ReceiverStarts \/ ReceiverStops \/ \E id \in ID : PushRequest(id)
  BY <1>2, ReceiverInv
<1>3. CASE ApplyRequests
  <2>1. ServeRequest => BoardInv'
    BY ServeAnswers, AnswerInv DEF BoardInv
  <2>2. BeginPass => BoardInv'
    BY BeginInv DEF BeginPass, Begins
  <2> QED BY <1>3, <2>1, <2>2, BetweenInv, RecheckInv, GiveUpInv DEF ApplyRequests
<1>4. CASE StartRun
  BY <1>4, StartRunInv
<1>5. CASE UNCHANGED fbVars
  BY <1>5, StutterInv
<1> QED BY <1>1, <1>2, <1>3, <1>4, <1>5 DEF FBNext, RunNext

LEMMA BoardInvAlways ==
  ASSUME MaxID < HalfInt
  PROVE  FBSpec => []BoardInv
<1>1. BoardInv /\ [FBNext]_fbVars => BoardInv'
  BY BoardInvNext
<1> QED BY BoardInvInit, <1>1, PTL DEF FBSpec
-------------------------------------------------------------------------------
\* Both counts.  What is served is past next_sequence_id_ or in WindowsSent of every Fragment
\* ID; the pass over the windows sent looks at all that is left of them from its lowest
\* request on, also behind the requests it gives up; and while nothing is given up, what
\* highest_seen_request_ is ahead of next_sequence_id_ is still to be looked at.
ServedSent == run = 1 =>
  \A id \in served : id < nextSeq \/ \A f \in FID : id \in windows[f]

RechecksAll == run = 1 /\ pass = "windows" =>
  \A x \in work, f \in FID : \A y \in windows[f] : x <= y => y \in work

GiveUpRest == run = 1 /\ pass = "windows" /\ giveUp > 0 =>
  \A f \in FID : \A y \in windows[f] : giveUp < y => y \in work

CaughtUp == run = 1 /\ Increment = 1 =>
  /\ pass = "windows" /\ giveUp = 0 => nextSeq..highestSeen \subseteq work
  /\ pass = "idle" => highestSeen < nextSeq

BoardOrder == OrderInv /\ ServedSent /\ RechecksAll /\ GiveUpRest /\ CaughtUp

LEMMA BoardOrderInit == BoardInit => BoardOrder
<1> SUFFICES ASSUME BoardInit PROVE BoardOrder
  OBVIOUS
<1>1. OrderInv
  BY BufferConstants DEF BoardInit, BufferInit, OrderInv, OnListServed, ListAhead, NoGapBelow, NextNotOnList, ID
<1>2. ServedSent /\ RechecksAll /\ GiveUpRest /\ CaughtUp
  BY DEF BoardInit, BufferInit, ServedSent, RechecksAll, GiveUpRest, CaughtUp
<1> QED BY <1>1, <1>2 DEF BoardOrder

\* The steps that leave the counts and the pass alone.
LEMMA QuietOrder ==
  ASSUME BoardOrder, UNCHANGED <<bufferVars, windows, nextSeq, pass, work, giveUp, run>>
  PROVE  BoardOrder'
<1>1. OrderInv'
  BY DEF BoardOrder, bufferVars, OrderInv, OnListServed, ListAhead, NoGapBelow, NextNotOnList
<1>2. ServedSent' /\ RechecksAll' /\ GiveUpRest' /\ CaughtUp'
  BY DEF BoardOrder, bufferVars, ServedSent, RechecksAll, GiveUpRest, CaughtUp
<1> QED BY <1>1, <1>2 DEF BoardOrder

LEMMA ReceiverOrder ==
  ASSUME BoardInv, BoardOrder, ReceiverStarts \/ ReceiverStops \/ \E id \in ID : PushRequest(id)
  PROVE  BoardOrder'
<1>1. CASE ReceiverStarts
  <2>1. /\ highestSeen' = 0 /\ outOfOrder' = {} /\ served' = {}
        /\ UNCHANGED <<windows, nextSeq, pass, work, giveUp, run>>
    BY <1>1 DEF ReceiverStarts, Reset, boardVars
  <2>2. nextSeq \in 1..MaxID + 1
    BY DEF BoardInv, BoardTypeOK
  <2>3. ServedSent' /\ RechecksAll' /\ GiveUpRest' /\ CaughtUp'
    BY <2>1, <2>2, BufferConstants DEF BoardOrder, ServedSent, RechecksAll, GiveUpRest, CaughtUp
  <2> QED BY <2>1, <2>3, OrderReset DEF BoardOrder
<1>2. CASE ReceiverStops
  BY <1>2, QuietOrder DEF ReceiverStops, boardVars
<1>3. CASE \E id \in ID : PushRequest(id)
  <2>1. UNCHANGED <<highestSeen, outOfOrder, served, windows, nextSeq, pass, work, giveUp, run>>
    BY <1>3 DEF PushRequest, Push, boardVars
  <2>2. OrderInv'
    BY <2>1 DEF BoardOrder, OrderInv, OnListServed, ListAhead, NoGapBelow, NextNotOnList
  <2>3. ServedSent' /\ RechecksAll' /\ GiveUpRest' /\ CaughtUp'
    BY <2>1 DEF BoardOrder, ServedSent, RechecksAll, GiveUpRest, CaughtUp
  <2> QED BY <2>2, <2>3 DEF BoardOrder
<1> QED BY <1>1, <1>2, <1>3

\* Checking a request keeps what is served among the windows or behind next_sequence_id_.
LEMMA SettleOrder ==
  ASSUME BoardInv, BoardOrder, run' = run,
         NEW seq \in ID, NEW sent \in [FID -> SUBSET ID], \A f \in FID : windows[f] \subseteq sent[f],
         Settle(seq, sent)
  PROVE  OrderInv' /\ ServedSent'
<1>1. nextSeq \in 1..MaxID + 1 /\ BufferInv
  BY DEF BoardInv, BoardTypeOK
<1>2. OrderInv'
  BY <1>1, RemoveOrder, OrderInvNext DEF Settle, BoardOrder
<1>3. ServedSent'
  <2> SUFFICES ASSUME run = 1, NEW id \in served', NEW f \in FID, ~(id < nextSeq')
               PROVE  id \in windows'[f]
    BY DEF ServedSent
  <2>1. /\ nextSeq' \in 1..MaxID + 1
        /\ nextSeq' = nextSeq \/ (nextSeq = seq /\ nextSeq' = seq + 1)
        /\ \A g \in FID : \A x \in sent[g] : x \in windows'[g] \/ x < nextSeq'
    BY <1>1, SettleFacts
  <2>2. id \in served \/ (id = seq /\ \A g \in FID : seq \in sent[g])
    BY DEF Settle, RemoveRequest, bufferVars
  <2>3. served \subseteq ID
    BY <1>1 DEF BufferInv, BufferTypeOK
  <2>4. CASE id \in served /\ id < nextSeq
    <3>1. nextSeq <= nextSeq' /\ id \in Nat
      BY <1>1, <2>1, <2>3, <2>4 DEF ID
    <3> QED BY <1>1, <2>1, <2>4, <3>1
  <2>5. CASE id \in served /\ ~(id < nextSeq)
    BY <2>1, <2>5 DEF BoardOrder, ServedSent
  <2> QED BY <2>1, <2>2, <2>4, <2>5
<1> QED BY <1>2, <1>3

LEMMA BeginOrder ==
  ASSUME BoardInv, BoardOrder, Begins
  PROVE  BoardOrder'
<1>1. OrderInv'
  BY DEF Begins, BoardOrder, bufferVars, OrderInv, OnListServed, ListAhead, NoGapBelow, NextNotOnList
<1>2. ServedSent' /\ RechecksAll' /\ GiveUpRest' /\ CaughtUp'
  BY DEF Begins, BoardOrder, bufferVars, ServedSent, RechecksAll, GiveUpRest, CaughtUp
<1> QED BY <1>1, <1>2 DEF BoardOrder

LEMMA AnswerOrder ==
  ASSUME BoardInv, BoardOrder, NEW seq, NEW by, Answers(seq, by)
  PROVE  BoardOrder'
<1>1. seq \in ID /\ windows \in [FID -> SUBSET ID]
  BY LeastWork DEF Answers, BoardInv, BoardTypeOK
<1>2. SentBy(seq, by) \in [FID -> SUBSET ID] /\ \A f \in FID : windows[f] \subseteq SentBy(seq, by)[f]
  BY <1>1 DEF SentBy
<1>3. Settle(seq, SentBy(seq, by)) /\ run' = run /\ pass' = "requests"
  BY <1>1, CheckFacts DEF Answers
<1>4. OrderInv' /\ ServedSent'
  BY <1>1, <1>2, <1>3, SettleOrder
<1> QED BY <1>3, <1>4 DEF BoardOrder, RechecksAll, GiveUpRest, CaughtUp

\* With Fragment IDs to serve, all that highest_seen_request_ is ahead is in WindowsSent.
LEMMA AheadInWindows ==
  ASSUME BufferInv, OrderInv, ServedSent, run = 1, Increment = 1, nextSeq \in 1..MaxID + 1,
         NEW id \in nextSeq..highestSeen, NEW f \in FID
  PROVE  id \in served /\ id \in windows[f]
<1>1. highestSeen \in 0..MaxID /\ served \subseteq ID
  BY BufferConstants DEF BufferInv, BufferTypeOK
<1>2. id \in ID /\ id <= highestSeen /\ ~(id < nextSeq)
  BY <1>1, BufferConstants DEF ID
<1>3. \A x \in Int : x % 1 = 0
  OBVIOUS
<1>4. \A x \in ID : x % Increment = 0
  BY <1>3 DEF ID
<1>5. id \in served
  BY <1>1, <1>2, <1>4 DEF OrderInv, NoGapBelow
<1> QED BY <1>2, <1>5 DEF ServedSent

\* The same after a step.
LEMMA AheadInWindowsNext ==
  ASSUME BufferInv', OrderInv', ServedSent', run' = 1, Increment = 1, nextSeq' \in 1..MaxID + 1,
         NEW id \in nextSeq'..highestSeen', NEW f \in FID
  PROVE  id \in served' /\ id \in windows'[f]
<1>1. highestSeen' \in 0..MaxID /\ served' \subseteq ID
  BY BufferConstants DEF BufferInv, BufferTypeOK
<1>2. id \in ID /\ id <= highestSeen' /\ ~(id < nextSeq')
  BY <1>1, BufferConstants DEF ID
<1>3. \A x \in Int : x % 1 = 0
  OBVIOUS
<1>4. \A x \in ID : x % Increment = 0
  BY <1>3 DEF ID
<1>5. id \in served'
  BY <1>1, <1>2, <1>4 DEF OrderInv, NoGapBelow
<1> QED BY <1>2, <1>5 DEF ServedSent

LEMMA BetweenOrder ==
  ASSUME FID # {}, BoardInv, BoardOrder, RecheckWindows \/ EndPass
  PROVE  BoardOrder'
<1>1. nextSeq \in 1..MaxID + 1 /\ BufferInv
  BY DEF BoardInv, BoardTypeOK
<1>2. UNCHANGED <<bufferVars, windows, nextSeq, giveUp, run>> /\ giveUp = 0
  BY DEF RecheckWindows, EndPass
<1>3. OrderInv' /\ ServedSent' /\ GiveUpRest'
  BY <1>2 DEF BoardOrder, bufferVars, OrderInv, OnListServed, ListAhead, NoGapBelow, NextNotOnList,
    ServedSent, GiveUpRest
<1>4. CASE RecheckWindows
  <2>1. pass' = "windows" /\ work' = UNION {windows[f] : f \in FID}
    BY <1>4 DEF RecheckWindows
  <2>2. RechecksAll'
    BY <1>2, <2>1 DEF RechecksAll
  <2>3. CaughtUp'
    <3> SUFFICES ASSUME run = 1, Increment = 1, NEW id \in nextSeq..highestSeen
                 PROVE  id \in work'
      BY <1>2, <2>1 DEF CaughtUp, bufferVars
    <3> QED BY <1>1, <2>1, AheadInWindows DEF BoardOrder
  <2> QED BY <1>3, <2>2, <2>3 DEF BoardOrder
<1>5. CASE EndPass
  <2>1. pass = "windows" /\ pass' = "idle" /\ work = {}
    BY <1>5 DEF EndPass
  <2>2. RechecksAll'
    BY <2>1 DEF RechecksAll
  <2>3. CaughtUp'
    <3> SUFFICES ASSUME run = 1, Increment = 1
                 PROVE  highestSeen < nextSeq
      BY <1>2, <2>1 DEF CaughtUp, bufferVars
    <3>1. nextSeq..highestSeen = {}
      BY <1>2, <2>1 DEF BoardOrder, CaughtUp
    <3>2. highestSeen \in 0..MaxID
      BY <1>1, BufferConstants DEF BufferInv, BufferTypeOK
    <3> QED BY <1>1, <3>1, <3>2
  <2> QED BY <1>3, <2>2, <2>3 DEF BoardOrder
<1> QED BY <1>4, <1>5

\* next_sequence_id_ was not served, or else highest_seen_request_ has come up to it.
LEMMA NextNotServed ==
  ASSUME BoardInv, BoardOrder, run = 1, Increment = 1, highestSeen < nextSeq
  PROVE  nextSeq = highestSeen + 1 /\ nextSeq \notin served
<1>1. /\ nextSeq \in 1..MaxID + 1 /\ BufferInv /\ PassedServed
      /\ highestSeen \in 0..MaxID
      /\ highestSeen + 1 \notin outOfOrder
  BY BufferConstants DEF BoardInv, BoardTypeOK, Progress, BufferInv, BufferTypeOK, BoardOrder, OrderInv,
    NextNotOnList
<1>2. highestSeen + 1 \notin served
  BY <1>1 DEF BufferInv, Remembered
<1>3. ~(highestSeen + 1 < nextSeq)
  BY <1>1, <1>2, BufferConstants DEF PassedServed, ID
<1>4. nextSeq = highestSeen + 1
  BY <1>1, <1>3
<1> QED BY <1>2, <1>4

LEMMA RecheckOrder ==
  ASSUME FID # {}, BoardInv, BoardOrder, BoardInv', RecheckWindow
  PROVE  BoardOrder'
<1> DEFINE seq == Least(work)
<1>1. /\ work # {} /\ pass = "windows" /\ pass' = pass /\ CheckSentWindows(seq, windows)
      /\ work' = work \ {seq} /\ run' = run /\ giveUp = 0
  BY DEF RecheckWindow
<1>2. seq \in work /\ seq \in ID /\ work \subseteq ID /\ \A x \in work : seq <= x
  BY <1>1, LeastWork DEF BoardInv, BoardTypeOK
<1> HIDE DEF seq
<1>3. /\ nextSeq \in 1..MaxID + 1 /\ nextSeq' \in 1..MaxID + 1 /\ BufferInv /\ BufferInv'
      /\ windows \in [FID -> SUBSET ID]
      /\ highestSeen \in 0..MaxID /\ highestSeen' \in 0..MaxID
  BY BufferConstants DEF BoardInv, BoardTypeOK, BufferInv, BufferTypeOK
<1>4. Settle(seq, windows) /\ giveUp' \in {0, seq}
  BY <1>1, <1>2, CheckFacts
<1>5. OrderInv' /\ ServedSent'
  BY <1>1, <1>2, <1>3, <1>4, SettleOrder
<1>6. /\ \A f \in FID : windows'[f] \subseteq windows[f]
      /\ nextSeq' = nextSeq \/ (nextSeq = seq /\ nextSeq' = seq + 1)
  BY <1>2, <1>3, <1>4, SettleFacts
<1>7. RechecksAll'
  <2> SUFFICES ASSUME run = 1, NEW x \in work', NEW f \in FID, NEW y \in windows'[f], x <= y
               PROVE  y \in work'
    BY <1>1 DEF RechecksAll
  <2>1. x \in work /\ x # seq /\ y \in windows[f] /\ y \in ID
    BY <1>1, <1>3, <1>6
  <2>2. seq < x
    BY <1>2, <2>1 DEF ID
  <2>3. y \in work
    BY <1>1, <2>1 DEF BoardOrder, RechecksAll
  <2>4. y # seq
    BY <1>2, <2>1, <2>2 DEF ID
  <2> QED BY <1>1, <2>3, <2>4
<1>8. GiveUpRest'
  <2> SUFFICES ASSUME run = 1, giveUp' > 0, NEW f \in FID, NEW y \in windows'[f], giveUp' < y
               PROVE  y \in work'
    BY <1>1 DEF GiveUpRest
  <2>1. giveUp' = seq /\ y \in windows[f] /\ y \in ID
    BY <1>3, <1>4, <1>6
  <2>2. seq < y /\ seq <= y /\ y # seq
    BY <1>2, <2>1 DEF ID
  <2>3. y \in work
    BY <1>1, <1>2, <2>1, <2>2 DEF BoardOrder, RechecksAll
  <2> QED BY <1>1, <2>2, <2>3
<1>9. CaughtUp'
  <2> SUFFICES ASSUME run = 1, Increment = 1, NEW id \in nextSeq'..highestSeen'
               PROVE  id \in work'
    BY <1>1 DEF CaughtUp
  <2>1. PICK f \in FID : TRUE
    OBVIOUS
  <2>2. id \in served' /\ id \in windows[f] /\ id \in ID
    <3>1. run' = 1
      BY <1>1
    <3>2. id \in nextSeq'..highestSeen'
      OBVIOUS
    <3>3. id \in served' /\ id \in windows'[f]
      BY <1>3, <1>5, <3>1, <3>2, AheadInWindowsNext
    <3> QED BY <1>3, <1>6, <3>3
  <2>3. id # seq
    <3>1. CASE nextSeq = seq /\ nextSeq' = seq + 1
      BY <1>2, <1>3, <3>1 DEF ID
    <3>2. CASE nextSeq' = nextSeq /\ nextSeq <= highestSeen
      <4>1. nextSeq \in work
        BY <1>1, <1>3, <3>2 DEF BoardOrder, CaughtUp
      <4>2. nextSeq # seq
        <5>1. nextSeq \in nextSeq..highestSeen
          BY <1>3, <3>2
        <5>2. \A g \in FID : nextSeq \in windows[g]
          BY <1>3, <5>1, AheadInWindows DEF BoardOrder
        <5> QED BY <1>3, <1>4, <3>2, <5>2 DEF Settle
      <4>3. seq < nextSeq
        BY <1>2, <1>3, <4>1, <4>2 DEF ID
      <4> QED BY <1>2, <1>3, <3>2, <4>3 DEF ID
    <3>3. CASE nextSeq' = nextSeq /\ ~(nextSeq <= highestSeen)
      <4>1. nextSeq = highestSeen + 1 /\ nextSeq \notin served
        BY <1>3, <3>3, NextNotServed
      <4>2. SUFFICES ASSUME id = seq PROVE FALSE
        OBVIOUS
      <4>3. nextSeq' \in nextSeq'..highestSeen' /\ run' = 1
        BY <1>1, <1>3
      <4>4. nextSeq \in served'
        BY <1>3, <1>5, <2>1, <3>3, <4>3, AheadInWindowsNext
      <4>5. nextSeq = seq /\ \A g \in FID : seq \in windows[g]
        BY <1>4, <4>1, <4>4 DEF Settle, RemoveRequest, bufferVars
      <4>6. nextSeq' = nextSeq + 1
        BY <1>4, <4>5 DEF Settle
      <4> QED BY <1>3, <3>3, <4>6
    <3> QED BY <1>6, <3>1, <3>2, <3>3
  <2>4. id \in work
    <3>1. CASE seq <= id
      BY <1>1, <1>2, <2>2, <3>1 DEF BoardOrder, RechecksAll
    <3>2. CASE id < seq
      <4>1. nextSeq' = nextSeq
        BY <1>2, <1>3, <1>6, <3>2 DEF ID
      <4>2. id \in served
        BY <1>4, <2>2, <2>3 DEF Settle, RemoveRequest, bufferVars
      <4>3. CASE nextSeq <= highestSeen
        <5>1. CASE id <= highestSeen
          BY <1>1, <1>3, <4>1, <5>1 DEF BoardOrder, CaughtUp
        <5>2. CASE highestSeen < id
          <6>1. nextSeq \in work
            BY <1>1, <1>3, <4>3 DEF BoardOrder, CaughtUp
          <6>2. seq <= nextSeq
            BY <1>2, <6>1
          <6> QED BY <1>2, <1>3, <3>2, <4>1, <6>2 DEF ID
        <5> QED BY <1>3, <2>2, <5>1, <5>2 DEF ID
      <4>4. CASE ~(nextSeq <= highestSeen)
        <5>1. nextSeq = highestSeen + 1 /\ nextSeq \notin served
          BY <1>3, <4>4, NextNotServed
        <5>2. nextSeq' \in nextSeq'..highestSeen' /\ run' = 1
          BY <1>1, <1>3
        <5>3. nextSeq \in served'
          BY <1>3, <1>5, <2>1, <4>1, <5>2, AheadInWindowsNext
        <5>4. nextSeq = seq
          BY <1>4, <5>1, <5>3 DEF Settle, RemoveRequest, bufferVars
        <5> QED BY <1>2, <1>3, <3>2, <4>1, <5>4 DEF ID
      <4> QED BY <4>3, <4>4
    <3> QED BY <1>2, <2>2, <3>1, <3>2 DEF ID
  <2> QED BY <1>1, <2>3, <2>4
<1> QED BY <1>5, <1>7, <1>8, <1>9 DEF BoardOrder

LEMMA GiveUpOrder ==
  ASSUME FID # {}, BoardInv, BoardOrder, BoardInv', GiveUpRequest
  PROVE  BoardOrder'
<1>1. /\ giveUp > 0 /\ RemoveRequest(nextSeq)
      /\ windows' = [f \in FID |-> windows[f] \ {nextSeq}]
      /\ nextSeq' = nextSeq + 1
      /\ giveUp' = IF nextSeq < giveUp THEN giveUp ELSE 0
      /\ UNCHANGED <<pass, work, run>>
  BY DEF GiveUpRequest
<1>2. /\ nextSeq \in 1..MaxID + 1 /\ nextSeq' \in 1..MaxID + 1 /\ BufferInv /\ BufferInv'
      /\ windows \in [FID -> SUBSET ID]
      /\ highestSeen \in 0..MaxID /\ highestSeen' \in 0..MaxID
      /\ nextSeq <= giveUp /\ giveUp \in ID /\ nextSeq \in ID
  <2>1. /\ nextSeq \in 1..MaxID + 1 /\ nextSeq' \in 1..MaxID + 1 /\ BufferInv /\ BufferInv'
        /\ windows \in [FID -> SUBSET ID] /\ giveUp \in {0} \cup ID /\ nextSeq <= giveUp
    BY <1>1 DEF BoardInv, BoardTypeOK, Progress, GiveUpAhead
  <2>2. highestSeen \in 0..MaxID /\ highestSeen' \in 0..MaxID
    BY <2>1, BufferConstants DEF BufferInv, BufferTypeOK
  <2>3. giveUp \in ID
    BY <1>1, <2>1
  <2>4. nextSeq \in ID
    BY <2>1, <2>3, BufferConstants DEF ID
  <2> QED BY <2>1, <2>2, <2>3, <2>4
<1>3. OrderInv'
  BY <1>1, <1>2, RemoveOrder DEF BoardOrder
<1>4. served' = served \cup {nextSeq} /\ served \subseteq ID
  BY <1>1, <1>2 DEF RemoveRequest, BufferInv, BufferTypeOK
<1>5. ServedSent'
  <2> SUFFICES ASSUME run = 1, NEW id \in served', NEW f \in FID, ~(id < nextSeq')
               PROVE  id \in windows'[f]
    BY <1>1 DEF ServedSent
  <2>1. id \in served /\ ~(id < nextSeq) /\ id # nextSeq
    BY <1>1, <1>2, <1>4 DEF ID
  <2> QED BY <1>1, <2>1 DEF BoardOrder, ServedSent
<1>6. RechecksAll'
  BY <1>1 DEF BoardOrder, RechecksAll
<1>7. GiveUpRest'
  BY <1>1 DEF BoardOrder, GiveUpRest
<1>8. CaughtUp'
  <2> SUFFICES ASSUME run = 1, Increment = 1
               PROVE  CaughtUp'
    BY <1>1 DEF CaughtUp
  <2>1. pass # "idle"
    BY <1>1, <1>2 DEF BoardInv, Progress, IdleGivesUpNothing, ID
  <2>2. ASSUME pass = "windows", giveUp' = 0, NEW id \in nextSeq'..highestSeen'
        PROVE  id \in work'
    <3>1. PICK f \in FID : TRUE
      OBVIOUS
    <3>2. run' = 1
      BY <1>1
    <3>3. id \in windows'[f]
      BY <1>2, <1>3, <1>5, <2>2, <3>2, AheadInWindowsNext
    <3>4. id \in windows[f] /\ id \in ID
      BY <1>1, <1>2, <3>3
    <3>5. giveUp = nextSeq /\ giveUp < id
      BY <1>1, <1>2, <2>2, <3>4 DEF ID
    <3> QED BY <1>1, <2>2, <3>4, <3>5 DEF BoardOrder, GiveUpRest
  <2> QED BY <1>1, <2>1, <2>2 DEF CaughtUp
<1> QED BY <1>3, <1>5, <1>6, <1>7, <1>8 DEF BoardOrder

\* One step of a run, of whatever thread.
LEMMA BoardOrderRun ==
  ASSUME FID # {}, BoardInv, BoardOrder, BoardInv', [RunNext]_fbVars
  PROVE  BoardOrder'
<1>1. CASE (\E f \in FID, id \in ID : AddFragment(f, id)) \/ UNCHANGED fbVars
  BY <1>1, QuietOrder DEF AddFragment, fbVars, boardVars
<1>2. CASE ReceiverStarts \/ ReceiverStops \/ \E id \in ID : PushRequest(id)
  BY <1>2, ReceiverOrder
<1>3. CASE ApplyRequests
  <2>1. ServeRequest => BoardOrder'
    BY ServeAnswers, AnswerOrder DEF BoardInv
  <2>2. BeginPass => BoardOrder'
    <3>1. BeginPass => Begins
      BY DEF BeginPass, Begins, BoardInv, BoardTypeOK
    <3> QED BY <3>1, BeginOrder
  <2> QED BY <1>3, <2>1, <2>2, BetweenOrder, RecheckOrder, GiveUpOrder DEF ApplyRequests
<1> QED BY <1>1, <1>2, <1>3 DEF RunNext

LEMMA BoardOrderNext ==
  ASSUME FID # {}, BoardInv, BoardOrder, BoardInv', [FBNext]_fbVars
  PROVE  BoardOrder'
<1>1. CASE StartRun
  <2>1. run' # 1 /\ UNCHANGED bufferVars
    BY <1>1, BoardConstants DEF StartRun, BoardInv, BoardTypeOK
  <2>2. OrderInv'
    BY <2>1 DEF BoardOrder, bufferVars, OrderInv, OnListServed, ListAhead, NoGapBelow, NextNotOnList
  <2> QED BY <2>1, <2>2 DEF BoardOrder, ServedSent, RechecksAll, GiveUpRest, CaughtUp
<1> QED BY <1>1, BoardOrderRun DEF FBNext

LEMMA CountsSame ==
  ASSUME BoardInv, BoardOrder
  PROVE  CountsAgree
<1>1. ASSUME pass = "idle", run = 1, Increment = 1
      PROVE  highestSeen < nextSeq
  BY <1>1 DEF BoardOrder, CaughtUp
<1> QED BY <1>1, NextNotServed DEF CountsAgree

\* However requests and Fragments come, and whatever is given up, the two counts of how far
\* a board has come agree between two passes of its first run.
THEOREM CountsAlwaysAgree ==
  ASSUME MaxID < HalfInt, FID # {}
  PROVE  FBSpec => []CountsAgree
<1>1. BoardInv /\ BoardInv' /\ BoardOrder /\ [FBNext]_fbVars => BoardOrder'
  BY BoardOrderNext
<1>2. BoardInv /\ BoardOrder => CountsAgree
  BY CountsSame
<1> QED BY BoardInvAlways, BoardOrderInit, <1>1, <1>2, PTL DEF FBSpec

-------------------------------------------------------------------------------
\* The variables of the board and of its request buffer keep their types: above all,
\* next_sequence_id_ never runs past the requests there are.
THEOREM BoardTypeCorrect ==
  ASSUME MaxID < HalfInt
  PROVE  FBSpec => []BoardTypeOK
<1>1. BoardInv => BoardTypeOK
  BY DEF BoardInv
<1> QED BY BoardInvAlways, <1>1, PTL

\* In the first run no fragment ID answers a request twice.
THEOREM NeverAnsweredTwice ==
  ASSUME MaxID < HalfInt
  PROVE  FBSpec => []AnsweredOnce
<1>1. BoardInv => AnsweredOnce
  BY DEF BoardInv, History
<1> QED BY BoardInvAlways, <1>1, PTL

LEMMA AnswerSettled ==
  ASSUME BoardInv, run = 1, NEW seq, NEW by, Answers(seq, by),
         NEW f \in FID, NEW id \in ID, id < nextSeq
  PROVE  answers'[f][id] = answers[f][id]
<1>1. /\ work # {} /\ pass = "requests" /\ seq = Least(work)
      /\ answers'[f] = [answers[f] EXCEPT ![seq] = IF f \in by THEN @ + 1 ELSE @]
  BY DEF Answers
<1>2. seq \in work /\ work \subseteq ID
  BY <1>1, LeastWork DEF BoardInv, BoardTypeOK
<1>3. nextSeq <= seq
  BY <1>1, <1>2 DEF BoardInv, Progress, WorkAhead
<1>4. id # seq
  BY <1>2, <1>3 DEF BoardInv, BoardTypeOK, ID
<1>5. answers[f] \in [ID -> Nat]
  BY DEF BoardInv, BoardTypeOK
<1> QED BY <1>1, <1>4, <1>5

LEMMA StepSettled ==
  ASSUME BoardInv, [FBNext]_fbVars, run' = 1, NEW f \in FID, NEW id \in ID, id < nextSeq
  PROVE  answers'[f][id] = answers[f][id]
<1>1. ~StartRun
  BY BoardConstants DEF StartRun, BoardInv, BoardTypeOK
<1>2. CASE ServeRequest
  <2>1. run = 1 /\ Answers(Least(work), AnsweredBy(Least(work)))
    BY <1>2, ServeAnswers DEF ServeRequest, BoardInv
  <2> QED BY <2>1, AnswerSettled
<1>3. CASE ~ServeRequest
  <2>1. answers' = answers
    BY <1>1, <1>3 DEF FBNext, RunNext, ApplyRequests, AddFragment, ReceiverStarts,
      ReceiverStops, PushRequest, BeginPass, RecheckWindows, RecheckWindow, GiveUpRequest, EndPass,
      fbVars, boardVars
  <2> QED BY <2>1
<1> QED BY <1>2, <1>3

\* In the first run nothing is answered any more below next_sequence_id_.
THEOREM SettledStaysSettled ==
  ASSUME MaxID < HalfInt
  PROVE  FBSpec => SettledForGood
<1> DEFINE Kept == run' = 1 => \A f \in FID, id \in ID : id < nextSeq => answers'[f][id] = answers[f][id]
<1>1. BoardInv /\ [FBNext]_fbVars => [Kept]_fbVars
  BY StepSettled
<1> QED BY BoardInvAlways, <1>1, PTL DEF FBSpec, SettledForGood

\* What settles a request in a pass has been answered by every fragment ID.
LEMMA SettledAnswered ==
  ASSUME BoardInv, BoardInv', run = 1, run' = 1, NEW seq \in ID,
         NEW sent \in [FID -> SUBSET ID], Settle(seq, sent),
         \A f \in FID : \A id \in sent[f] : answers'[f][id] > 0,
         NEW id \in requests \ requests'
  PROVE  Answered(id)
<1>1. nextSeq \in 1..MaxID + 1 /\ BufferInv
  BY DEF BoardInv, BoardTypeOK
<1>2. id = seq /\ \A f \in FID : seq \in sent[f]
  BY <1>1, SettleFacts
<1> QED BY <1>2 DEF Answered

LEMMA AnswerRemoved ==
  ASSUME BoardInv, BoardInv', run = 1, NEW seq, NEW by, Answers(seq, by),
         NEW id \in requests \ requests'
  PROVE  Answered(id)
<1> USE DEF BoardInv, BoardTypeOK
<1>1. seq \in ID
  BY LeastWork DEF Answers
<1>2. SentBy(seq, by) \in [FID -> SUBSET ID]
  BY <1>1 DEF SentBy
<1>3. /\ Settle(seq, SentBy(seq, by)) /\ run' = 1
      /\ \A f \in FID, x \in ID : answers'[f][x] =
           IF x = seq /\ f \in by THEN answers[f][x] + 1 ELSE answers[f][x]
  BY <1>1 DEF Answers, CheckSentWindows
<1>4. \A f \in FID : \A x \in SentBy(seq, by)[f] : answers'[f][x] > 0
  <2> SUFFICES ASSUME NEW f \in FID, NEW x \in SentBy(seq, by)[f] PROVE answers'[f][x] > 0
    OBVIOUS
  <2>1. x \in ID /\ answers[f][x] \in Nat
    BY <1>2
  <2>2. (x = seq /\ f \in by) \/ x \in windows[f]
    BY DEF SentBy
  <2> QED BY <1>3, <2>1, <2>2 DEF History, WindowsAnswered
<1> QED BY <1>1, <1>2, <1>3, <1>4, SettledAnswered

LEMMA StepRemoved ==
  ASSUME BoardInv, BoardInv', [FBNext]_fbVars, run = 1, NEW id \in requests \ requests'
  PROVE  giveUp > 0 \/ Answered(id)
<1> SUFFICES ASSUME ~(giveUp > 0) PROVE Answered(id)
  OBVIOUS
<1> USE DEF BoardInv, BoardTypeOK
<1>1. CASE ServeRequest
  <2>1. Answers(Least(work), AnsweredBy(Least(work)))
    BY <1>1, ServeAnswers
  <2> QED BY <2>1, AnswerRemoved
<1>2. CASE RecheckWindow
  <2>1. work # {} /\ run' = run /\ answers' = answers /\ Settle(Least(work), windows)
    BY <1>2 DEF RecheckWindow, CheckSentWindows
  <2>2. Least(work) \in ID
    BY <2>1, LeastWork
  <2>3. \A f \in FID : \A x \in windows[f] : answers'[f][x] > 0
    BY <2>1 DEF History, WindowsAnswered
  <2> QED BY <2>1, <2>2, <2>3, SettledAnswered
<1>3. CASE ReceiverStarts
  BY <1>3 DEF ReceiverStarts, Progress, StartsEmpty
<1>4. CASE ~(ServeRequest \/ RecheckWindow \/ ReceiverStarts)
  <2>1. requests \subseteq requests' \/ giveUp > 0
    BY <1>4 DEF FBNext, RunNext, ApplyRequests, AddFragment, ReceiverStops,
      PushRequest, Push, BeginPass, RecheckWindows, GiveUpRequest, EndPass, StartRun,
      fbVars, bufferVars
  <2> QED BY <2>1
<1> QED BY <1>1, <1>2, <1>3, <1>4

\* In the first run a request leaves the buffer only if it is given up or was answered by
\* every fragment ID.
THEOREM RemovedWasAnswered ==
  ASSUME MaxID < HalfInt
  PROVE  FBSpec => RemovedAnswered
<1> DEFINE Right == run = 1 => \A id \in requests \ requests' : giveUp > 0 \/ Answered(id)
<1>1. BoardInv /\ BoardInv' /\ [FBNext]_fbVars => [Right]_fbVars
  BY StepRemoved
<1> QED BY BoardInvAlways, <1>1, PTL DEF FBSpec, RemovedAnswered
-------------------------------------------------------------------------------
\* The board uses its request buffer as RequestBuffer says, so what is proved there of
\* BufferSpec holds here too: what was served is not taken for a new request.
THEOREM BoardUsesBuffer ==
  ASSUME MaxID < HalfInt
  PROVE  FBSpec => BufferSpec
<1>1. BoardInit => BufferInit
  BY DEF BoardInit
<1>2. ASSUME BoardInv, [FBNext]_fbVars
      PROVE  [BufferNext]_bufferVars
  <2> USE DEF BoardInv, BoardTypeOK
  <2>1. ASSUME NEW seq \in ID, NEW sent, CheckSentWindows(seq, sent)
        PROVE  [BufferNext]_bufferVars
    BY <2>1 DEF CheckSentWindows, Settle, BufferNext
  <2>2. CASE ServeRequest \/ RecheckWindow
    <3>1. work # {} /\ Least(work) \in ID
      BY <1>2, <2>2, LeastWork DEF ServeRequest, RecheckWindow
    <3> QED BY <2>1, <2>2, <3>1 DEF ServeRequest, RecheckWindow
  <2>3. CASE GiveUpRequest
    <3>1. nextSeq \in ID
      BY <1>2, <2>3, BufferConstants DEF GiveUpRequest, Progress, GiveUpAhead, ID
    <3> QED BY <2>3, <3>1 DEF GiveUpRequest, BufferNext
  <2>4. CASE ReceiverStarts \/ \E id \in ID : PushRequest(id)
    BY <2>4 DEF ReceiverStarts, PushRequest, BufferNext
  <2>5. CASE ~(ServeRequest \/ RecheckWindow \/ GiveUpRequest \/ ReceiverStarts
                 \/ \E id \in ID : PushRequest(id))
    BY <1>2, <2>5 DEF FBNext, RunNext, ApplyRequests, AddFragment, ReceiverStops,
      BeginPass, RecheckWindows, EndPass, StartRun, fbVars
  <2> QED BY <2>2, <2>3, <2>4, <2>5
<1> QED BY BoardInvAlways, <1>1, <1>2, PTL DEF FBSpec, BufferSpec

-------------------------------------------------------------------------------
(* The other request modes *)

\* The invariant.  In "sequence ID" and Window mode it is the one of the board; in Single and
\* Buffer mode there is no pass, and each sequence ID below next_sequence_id_ is answered
\* once; and in Ignored mode no request is answered.
OneAnswerEach ==
  /\ pass = "idle"
  /\ \A f \in FID, id \in ID : answers[f][id] = IF id < nextSeq THEN 1 ELSE 0

NoAnswers == \A f \in FID, id \in ID : answers[f][id] = 0

ModesTypeOK == BoardTypeOK /\ mode \in {"SequenceID", "Single", "Buffer", "Window", "Ignored"}

NothingWaitsYet == receiver = "starting" => requests = {}

ByPasses == mode \in {"SequenceID", "Window"}
ByLatest == mode \in {"Single", "Buffer"}

ModesInv ==
  /\ ModesTypeOK /\ BufferInv /\ OrderInv /\ run = 1 /\ NothingWaitsYet
  /\ ByPasses => BoardInv /\ BoardOrder
  /\ ByLatest => OneAnswerEach
  /\ mode = "Ignored" => NoAnswers

LEMMA ModesInvInit == ModesInit => ModesInv
<1> SUFFICES ASSUME ModesInit PROVE ModesInv
  OBVIOUS
<1>1. BoardInv /\ BoardOrder /\ run = 1 /\ requests = {}
  BY BoardInvInit, BoardOrderInit DEF ModesInit, BoardInit, BufferInit
<1>2. OneAnswerEach /\ NoAnswers
  BY DEF ModesInit, BoardInit, OneAnswerEach, NoAnswers, ID
<1> QED BY <1>1, <1>2 DEF ModesInit, ModesInv, ModesTypeOK, BoardInv, BoardOrder, NothingWaitsYet

\* In Window mode a request without a valid time stamp is passed over.
Skips ==
  /\ pass = "requests" /\ work' \subseteq work
  /\ UNCHANGED <<bufferVars, data, windows, nextSeq, pass, giveUp, receiver, run, answers>>

\* What a board that answers in passes does in one step.
PassStep == [RunNext]_fbVars \/ Begins \/ (\E seq, by : Answers(seq, by)) \/ Skips

LEMMA SkipInv ==
  ASSUME BoardInv, BoardOrder, Skips
  PROVE  BoardInv' /\ BoardOrder'
<1>1. BufferInv'
  BY QuietInv DEF Skips
<1>2. BoardTypeOK'
  BY <1>1 DEF Skips, BoardInv, BoardTypeOK, BufferInv
<1>3. Progress' /\ History'
  BY DEF Skips, BoardInv, Progress, History, GiveUpAhead, IdleGivesUpNothing, WorkAhead, PassedServed,
    StartsEmpty, WindowsAnswered, AnsweredKept, AnsweredOnce, bufferVars
<1>4. OrderInv'
  BY DEF Skips, BoardOrder, bufferVars, OrderInv, OnListServed, ListAhead, NoGapBelow, NextNotOnList
<1>5. ServedSent' /\ RechecksAll' /\ GiveUpRest' /\ CaughtUp'
  BY DEF Skips, BoardOrder, bufferVars, ServedSent, RechecksAll, GiveUpRest, CaughtUp
<1> QED BY <1>1, <1>2, <1>3, <1>4, <1>5 DEF BoardInv, BoardOrder

LEMMA PassStepInv ==
  ASSUME MaxID < HalfInt, FID # {}, BoardInv, BoardOrder, PassStep
  PROVE  BoardInv' /\ BoardOrder'
<1>1. CASE [RunNext]_fbVars
  <2>1. BoardInv'
    BY <1>1, BoardInvNext DEF FBNext
  <2> QED BY <1>1, <2>1, BoardOrderRun
<1>2. CASE Begins
  BY <1>2, BeginInv, BeginOrder
<1>3. CASE \E seq, by : Answers(seq, by)
  BY <1>3, AnswerInv, AnswerOrder
<1>4. CASE Skips
  BY <1>4, SkipInv
<1> QED BY <1>1, <1>2, <1>3, <1>4 DEF PassStep

LEMMA PassStepSettled ==
  ASSUME BoardInv, run = 1, PassStep, NEW f \in FID, NEW id \in ID, id < nextSeq
  PROVE  answers'[f][id] = answers[f][id]
<1>1. CASE [RunNext]_fbVars
  <2>1. run' = 1
    BY <1>1 DEF RunNext, ApplyRequests, AddFragment, ReceiverStarts, ReceiverStops, PushRequest, BeginPass,
      ServeRequest, RecheckWindows, RecheckWindow, GiveUpRequest, EndPass, fbVars
  <2> QED BY <1>1, <2>1, StepSettled DEF FBNext
<1>2. CASE Begins \/ Skips
  BY <1>2 DEF Begins, Skips
<1> QED BY <1>1, <1>2, AnswerSettled DEF PassStep

LEMMA PassStepRemoved ==
  ASSUME BoardInv, BoardInv', run = 1, PassStep, NEW id \in requests \ requests'
  PROVE  giveUp > 0 \/ Answered(id)
<1>1. CASE [RunNext]_fbVars
  BY <1>1, StepRemoved DEF FBNext
<1>2. CASE Begins \/ Skips
  BY <1>2 DEF Begins, Skips, bufferVars
<1> QED BY <1>1, <1>2, AnswerRemoved DEF PassStep

\* No request of a pass is below next_sequence_id_, so that in Window mode none is removed
\* without an answer.
LEMMA WindowIsPassStep ==
  ASSUME BoardInv, run = 1, ServeWindow
  PROVE  PassStep
<1> DEFINE seq  == Least(work)
           open == {f \in FID : seq \notin windows[f]}
           closed == {f \in open : WindowClosed(seq, f)}
<1>1. /\ pass = "requests" /\ work # {} /\ giveUp = 0 /\ work' = work \ {seq}
      /\ UNCHANGED <<data, pass, receiver, run>>
  BY DEF ServeWindow
<1>2. seq \in work /\ seq \in ID /\ nextSeq \in 1..MaxID + 1
  BY <1>1, LeastWork DEF BoardInv, BoardTypeOK
<1>3. ~(seq < nextSeq)
  BY <1>1, <1>2 DEF BoardInv, Progress, WorkAhead, ID
<1>4. CASE seq \in InvalidTimes /\ UNCHANGED <<bufferVars, windows, nextSeq, giveUp, answers, stamps, handed>>
  BY <1>1, <1>4 DEF PassStep, Skips
<1>5. ASSUME NEW late \in SUBSET (open \ closed), CheckAndFill(seq, closed \cup late)
      PROVE  PassStep
  <2> DEFINE by == closed \cup late
  <2>1. by \subseteq FID /\ \A f \in by : seq \notin windows[f]
    OBVIOUS
  <2>2. /\ answers' = [f \in FID |-> [answers[f] EXCEPT ![seq] = IF f \in by THEN @ + 1 ELSE @]]
        /\ CheckSentWindows(seq, SentBy(seq, by))
    BY <1>5 DEF CheckAndFill, SentBy
  <2>3. data' \in [FID -> SUBSET ID]
    BY <1>1 DEF BoardInv, BoardTypeOK
  <2> HIDE DEF by, seq
  <2>4. seq = Least(work)
    BY DEF seq
  <2>5. Answers(seq, by)
    BY <1>1, <2>1, <2>2, <2>3, <2>4 DEF Answers
  <2> QED BY <2>5 DEF PassStep
<1>6. \/ UNCHANGED <<bufferVars, windows, nextSeq, giveUp, answers, stamps, handed>> /\ seq \in InvalidTimes
      \/ \E late \in SUBSET (open \ closed) : CheckAndFill(seq, closed \cup late)
  BY <1>3 DEF ServeWindow
<1> QED BY <1>4, <1>5, <1>6

\* The steps that are not a board's in passes leave it alone, or are of other modes.
LEMMA ModesStep ==
  ASSUME ModesInv, [ModesNext]_modesVars
  PROVE  /\ mode' = mode /\ keeps' = keeps
         /\ ByPasses => PassStep
         /\ ByLatest => \/ [ReceiverStarts \/ ReceiverStops \/ \E id \in ID : PushRequest(id)]_fbVars
                        \/ \E what : AnswerLatest(what)
         /\ mode = "Ignored" => UNCHANGED <<bufferVars, receiver, run, answers>> /\ BoardTypeOK'
<1>1. CASE mode = "SequenceID" /\ RunNext /\ UNCHANGED modeVars
  BY <1>1 DEF modeVars, ByPasses, ByLatest, PassStep
<1>2. CASE ReceiverNext
  BY <1>2 DEF ReceiverNext, ByPasses, ByLatest, PassStep, RunNext
<1>3. ASSUME NEW f \in FID, (\E T : AddStamps(f, T)) \/ CheckDataBuffer(f)
      PROVE  mode' = mode /\ keeps' = keeps /\ UNCHANGED fbVars /\ mode # "Ignored"
  BY <1>3 DEF AddStamps, CheckDataBuffer
<1>4. CASE Single \/ Buffer
  BY <1>4 DEF Single, Buffer, AnswerLatest, ByPasses, ByLatest
<1>5. CASE BeginWindowPass
  <2>1. data' = data
    BY <1>5 DEF BeginWindowPass
  <2>2. data' \in [FID -> SUBSET ID]
    BY <2>1 DEF ModesInv, ModesTypeOK, BoardTypeOK
  <2>3. mode = "Window" /\ mode' = mode /\ keeps' = keeps /\ Begins
    BY <1>5, <2>2 DEF BeginWindowPass, Begins
  <2> QED BY <2>3 DEF ByPasses, ByLatest, PassStep
<1>6. CASE ServeWindow
  <2>1. mode = "Window" /\ mode' = mode /\ keeps' = keeps
    BY <1>6 DEF ServeWindow
  <2>2. PassStep
    BY <1>6, <2>1, WindowIsPassStep DEF ModesInv, ByPasses
  <2> QED BY <2>1, <2>2 DEF ByPasses, ByLatest
<1>7. CASE WindowPass
  <2>1. mode = "Window" /\ mode' = mode /\ keeps' = keeps /\ RunNext
    BY <1>7 DEF WindowPass, RunNext, ApplyRequests
  <2> QED BY <2>1 DEF ByPasses, ByLatest, PassStep
<1>8. ASSUME NEW f \in FID, NEW id \in ID, AddIgnored(f, id)
      PROVE  mode' = mode /\ keeps' = keeps /\ mode = "Ignored"
             /\ UNCHANGED <<bufferVars, receiver, run, answers>> /\ BoardTypeOK'
  <2>1. /\ mode' = mode /\ keeps' = keeps /\ mode = "Ignored"
        /\ data' = [data EXCEPT ![f] = @ \cup {id}]
        /\ UNCHANGED <<bufferVars, windows, nextSeq, pass, work, giveUp, receiver, run, answers>>
    BY <1>8 DEF AddIgnored, AddFragment
  <2> QED BY <2>1 DEF ModesInv, ModesTypeOK, BoardTypeOK, BufferTypeOK, bufferVars
<1>9. CASE Ignored
  <2>1. PICK id \in ID : nextSeq' = IF id >= nextSeq THEN id + 1 ELSE nextSeq
    BY <1>9 DEF Ignored
  <2>2. /\ mode' = mode /\ keeps' = keeps /\ mode = "Ignored"
        /\ data' = [f \in FID |-> {}]
        /\ UNCHANGED <<bufferVars, windows, pass, work, giveUp, receiver, run, answers>>
    BY <1>9 DEF Ignored
  <2>3. nextSeq' \in 1..MaxID + 1
    BY <2>1, BufferConstants DEF ModesInv, ModesTypeOK, BoardTypeOK, ID
  <2> QED BY <2>2, <2>3 DEF ModesInv, ModesTypeOK, BoardTypeOK, BufferTypeOK, bufferVars, ByPasses, ByLatest
<1>10. CASE UNCHANGED modesVars
  <2>1. UNCHANGED <<bufferVars, receiver, run, answers>> /\ BoardTypeOK'
    BY <1>10 DEF modesVars, fbVars, boardVars, ModesInv, ModesTypeOK, BoardTypeOK, BufferTypeOK, bufferVars
  <2> QED BY <1>10, <2>1 DEF modesVars, modeVars, ByPasses, ByLatest, PassStep
<1> QED BY <1>1, <1>2, <1>3, <1>4, <1>5, <1>6, <1>7, <1>8, <1>9, <1>10 DEF ModesNext, ByPasses, ByLatest, PassStep

\* "We only care about the latest request received": up to it all sequence IDs are answered,
\* and if it is behind already, the others are only removed.
LEMMA LatestFacts ==
  ASSUME ModesInv, ByLatest, NEW what, AnswerLatest(what)
  PROVE  /\ BufferInv' /\ OrderInv'
         /\ UNCHANGED <<data, windows, pass, work, giveUp, receiver, run>>
         /\ nextSeq' \in 1..MaxID + 1 /\ nextSeq <= nextSeq'
         /\ requests' \subseteq requests
         /\ \A id \in requests \ requests' : id < nextSeq'
         /\ answers' \in [FID -> [ID -> Nat]]
         /\ \A f \in FID, id \in ID :
              answers'[f][id] = IF nextSeq <= id /\ id < nextSeq' THEN answers[f][id] + 1 ELSE answers[f][id]
<1> DEFINE last == Newest(requests)
<1>1. /\ requests # {}
      /\ UNCHANGED <<data, windows, pass, work, giveUp, receiver, run>>
      /\ IF last >= nextSeq
         THEN RemoveRequests(requests) /\ nextSeq' = last + 1 /\ SendEmptyFragments(last)
         ELSE RemoveRequests(requests \ {last}) /\ UNCHANGED <<nextSeq, answers>>
  BY DEF AnswerLatest
<1>2. /\ BufferInv /\ OrderInv /\ requests \in SUBSET ID /\ nextSeq \in 1..MaxID + 1
      /\ answers \in [FID -> [ID -> Nat]]
  BY DEF ModesInv, ModesTypeOK, BoardTypeOK, BufferTypeOK
<1>3. last \in requests /\ \A id \in requests : id <= last
  <2>1. \E x \in requests : \A y \in requests : y <= x
    BY <1>1, <1>2, GreatestID
  <2> QED BY <2>1 DEF Newest
<1> HIDE DEF last
<1>4. CASE last >= nextSeq
  <2>1. RemoveRequests(requests) /\ nextSeq' = last + 1 /\ SendEmptyFragments(last)
    BY <1>1, <1>4
  <2>2. BufferInv' /\ OrderInv' /\ requests' \subseteq requests
    BY <1>2, <2>1, RemoveAllInv DEF RemoveRequests
  <2>3. last \in ID /\ nextSeq' \in 1..MaxID + 1 /\ nextSeq <= nextSeq'
    BY <1>2, <1>3, <1>4, <2>1, BufferConstants DEF ID
  <2>4. \A id \in requests : id < nextSeq'
    BY <1>2, <1>3, <2>1, <2>3 DEF ID
  <2>5. answers' = [f \in FID |-> [id \in ID |->
          IF id \in nextSeq..last THEN answers[f][id] + 1 ELSE answers[f][id]]]
    BY <2>1 DEF SendEmptyFragments
  <2>6. \A f \in FID, id \in ID : answers[f][id] \in Nat
    BY <1>2
  <2>7. \A id \in ID : id \in nextSeq..last <=> nextSeq <= id /\ id < nextSeq'
    BY <1>2, <2>1, <2>3 DEF ID
  <2>8. answers' \in [FID -> [ID -> Nat]]
    BY <2>5, <2>6
  <2> QED BY <1>1, <2>2, <2>3, <2>4, <2>5, <2>7, <2>8
<1>5. CASE ~(last >= nextSeq)
  <2>1. RemoveRequests(requests \ {last}) /\ UNCHANGED <<nextSeq, answers>>
    BY <1>1, <1>5
  <2>2. BufferInv' /\ OrderInv' /\ requests' \subseteq requests
    <3>1. requests \ {last} \in SUBSET ID
      BY <1>2
    <3> QED BY <1>2, <2>1, <3>1, RemoveAllInv DEF RemoveRequests
  <2>3. \A id \in requests : id < nextSeq
    BY <1>2, <1>3, <1>5 DEF ID
  <2>4. \A id \in ID : ~(nextSeq <= id /\ id < nextSeq)
    BY <1>2 DEF ID
  <2> QED BY <1>1, <1>2, <2>1, <2>2, <2>3, <2>4
<1> QED BY <1>4, <1>5

LEMMA LatestInv ==
  ASSUME ModesInv, ByLatest, mode' = mode, NEW what, AnswerLatest(what)
  PROVE  ModesInv'
<1>1. /\ BufferInv' /\ OrderInv'
      /\ UNCHANGED <<data, windows, pass, work, giveUp, receiver, run>>
      /\ nextSeq' \in 1..MaxID + 1 /\ nextSeq <= nextSeq'
      /\ requests' \subseteq requests
      /\ answers' \in [FID -> [ID -> Nat]]
      /\ \A f \in FID, id \in ID :
           answers'[f][id] = IF nextSeq <= id /\ id < nextSeq' THEN answers[f][id] + 1 ELSE answers[f][id]
  BY LatestFacts
<1>2. ModesTypeOK' /\ NothingWaitsYet'
  <2>1. BufferTypeOK'
    BY <1>1 DEF BufferInv
  <2>2. BoardTypeOK'
    BY <1>1, <2>1 DEF ModesInv, ModesTypeOK, BoardTypeOK
  <2>3. NothingWaitsYet'
    BY <1>1 DEF ModesInv, NothingWaitsYet
  <2> QED BY <2>2, <2>3 DEF ModesInv, ModesTypeOK
<1>3. OneAnswerEach'
  <2>1. pass = "idle" /\ pass' = pass
    BY <1>1 DEF ModesInv, OneAnswerEach
  <2> SUFFICES ASSUME NEW f \in FID, NEW id \in ID
               PROVE  answers'[f][id] = IF id < nextSeq' THEN 1 ELSE 0
    BY <2>1 DEF OneAnswerEach
  <2>2. answers[f][id] = IF id < nextSeq THEN 1 ELSE 0
    BY DEF ModesInv, OneAnswerEach
  <2>3. nextSeq \in Nat /\ nextSeq' \in Nat /\ id \in Nat
    BY <1>1, BufferConstants DEF ModesInv, ModesTypeOK, BoardTypeOK, ID
  <2> QED BY <1>1, <2>2, <2>3
<1>4. ~ByPasses' /\ mode' # "Ignored"
  BY DEF ByLatest, ByPasses
<1> QED BY <1>1, <1>2, <1>3, <1>4 DEF ModesInv

LEMMA ModesInvNext ==
  ASSUME MaxID < HalfInt, FID # {}, ModesInv, [ModesNext]_modesVars
  PROVE  ModesInv'
<1>1. /\ mode' = mode
      /\ ByPasses => PassStep
      /\ ByLatest => \/ [ReceiverStarts \/ ReceiverStops \/ \E id \in ID : PushRequest(id)]_fbVars
                     \/ \E what : AnswerLatest(what)
      /\ mode = "Ignored" => UNCHANGED <<bufferVars, receiver, run, answers>> /\ BoardTypeOK'
  BY ModesStep
<1>2. ByPasses' = ByPasses /\ ByLatest' = ByLatest
  BY <1>1 DEF ByPasses, ByLatest
<1>3. CASE ByPasses
  <2>1. BoardInv' /\ BoardOrder'
    BY <1>1, <1>3, PassStepInv DEF ModesInv
  <2>2. run' = 1 /\ NothingWaitsYet'
    <3>1. run' = run
      BY <1>1, <1>3 DEF PassStep, RunNext, ApplyRequests, AddFragment, ReceiverStarts, ReceiverStops,
        PushRequest, BeginPass, ServeRequest, RecheckWindows, RecheckWindow, GiveUpRequest, EndPass,
        fbVars, Begins, Answers, Skips
    <3> QED BY <2>1, <3>1 DEF ModesInv, BoardInv, Progress, StartsEmpty, NothingWaitsYet
  <2>3. ~ByLatest /\ mode # "Ignored"
    BY <1>3 DEF ByPasses, ByLatest
  <2> QED BY <1>1, <1>2, <2>1, <2>2, <2>3 DEF ModesInv, ModesTypeOK, BoardInv, BoardOrder
<1>4. CASE ByLatest /\ [ReceiverStarts \/ ReceiverStops \/ \E id \in ID : PushRequest(id)]_fbVars
  <2>1. /\ UNCHANGED <<data, windows, nextSeq, pass, work, giveUp, answers, run>>
        /\ [BufferNext]_bufferVars
        /\ receiver' \in {"starting", "running", "stopped"}
    BY <1>4 DEF ReceiverStarts, ReceiverStops, PushRequest, fbVars, boardVars, BufferNext, ModesInv,
      ModesTypeOK, BoardTypeOK
  <2>2. BufferInv' /\ OrderInv'
    BY <2>1, BufferInvNext, OrderInvNext DEF ModesInv
  <2>3. BoardTypeOK'
    BY <2>1, <2>2 DEF ModesInv, ModesTypeOK, BoardTypeOK, BufferInv
  <2>4. NothingWaitsYet' /\ OneAnswerEach' /\ run' = 1
    BY <1>4, <2>1 DEF ModesInv, NothingWaitsYet, OneAnswerEach, ReceiverStarts, ReceiverStops, PushRequest,
      fbVars, bufferVars
  <2>5. ~ByPasses /\ mode # "Ignored"
    BY <1>4 DEF ByPasses, ByLatest
  <2> QED BY <1>1, <1>2, <2>2, <2>3, <2>4, <2>5 DEF ModesInv, ModesTypeOK
<1>5. CASE ByLatest /\ \E what : AnswerLatest(what)
  BY <1>1, <1>5, LatestInv
<1>6. CASE mode = "Ignored"
  <2>1. UNCHANGED <<bufferVars, receiver, run, answers>> /\ BoardTypeOK'
    BY <1>1, <1>6
  <2>2. BufferInv' /\ OrderInv'
    BY <2>1, BufferInvNext, OrderInvNext DEF ModesInv
  <2>3. NothingWaitsYet' /\ NoAnswers' /\ run' = 1
    BY <1>6, <2>1 DEF ModesInv, NothingWaitsYet, NoAnswers, bufferVars
  <2>4. ~ByPasses /\ ~ByLatest
    BY <1>6 DEF ByPasses, ByLatest
  <2> QED BY <1>1, <1>2, <2>1, <2>2, <2>3, <2>4 DEF ModesInv, ModesTypeOK
<1>7. ByPasses \/ ByLatest \/ mode = "Ignored"
  BY DEF ModesInv, ModesTypeOK, ByPasses, ByLatest
<1> QED BY <1>1, <1>3, <1>4, <1>5, <1>6, <1>7

LEMMA ModesInvAlways ==
  ASSUME MaxID < HalfInt, FID # {}
  PROVE  ModesSpec => []ModesInv
<1>1. ModesInv /\ [ModesNext]_modesVars => ModesInv'
  BY ModesInvNext
<1> QED BY ModesInvInit, <1>1, PTL DEF ModesSpec

\* In every request mode: what a board counts as sent, and as served, is what it answered,
\* and no sequence ID is passed over in between.
THEOREM ProgressAlwaysCounted ==
  ASSUME MaxID < HalfInt, FID # {}
  PROVE  ModesSpec => []ProgressCounted
<1>1. ASSUME ModesInv PROVE ProgressCounted
  <2>1. SentCountsAgree
    BY <1>1, CountsSame DEF ModesInv, SentCountsAgree, ByPasses
  <2>2. OnlyServedIgnored
    BY <1>1, IgnoredWasServed DEF ModesInv
  <2>3. NoSequenceSkipped
    <3> SUFFICES ASSUME ByLatest, NEW f \in FID, NEW id \in 1..nextSeq - 1
                 PROVE  answers[f][id] = 1
      BY DEF NoSequenceSkipped, ByLatest
    <3>1. nextSeq \in 1..MaxID + 1
      BY <1>1 DEF ModesInv, ModesTypeOK, BoardTypeOK
    <3>2. id \in ID /\ id < nextSeq
      BY <3>1, BufferConstants DEF ID
    <3> QED BY <1>1, <3>2 DEF ModesInv, OneAnswerEach
  <2> QED BY <2>1, <2>2, <2>3 DEF ProgressCounted
<1> QED BY ModesInvAlways, <1>1, PTL

\* In every request mode a Fragment ID answers a request at most once, and what was served
\* does not wait again.
THEOREM AnsweredOnceInModes ==
  ASSUME MaxID < HalfInt, FID # {}
  PROVE  ModesSpec => [](AnsweredOnce /\ ServedNotWaiting)
<1>1. ASSUME ModesInv PROVE AnsweredOnce /\ ServedNotWaiting
  <2>1. ByPasses => AnsweredOnce
    BY <1>1 DEF ModesInv, BoardInv, History
  <2>2. ~ByPasses => AnsweredOnce
    BY <1>1 DEF ModesInv, ModesTypeOK, ByPasses, ByLatest, OneAnswerEach, NoAnswers, AnsweredOnce
  <2> QED BY <1>1, <2>1, <2>2 DEF ModesInv, BufferInv
<1> QED BY ModesInvAlways, <1>1, PTL

\* In every request mode nothing is answered any more below next_sequence_id_, and a request
\* leaves the buffer only if it is given up or was answered by every Fragment ID.
THEOREM SettledInModes ==
  ASSUME MaxID < HalfInt, FID # {}
  PROVE  ModesSpec => SettledForGood /\ RemovedAnswered
<1> DEFINE Kept == run' = 1 => \A f \in FID, id \in ID : id < nextSeq => answers'[f][id] = answers[f][id]
           Right == run = 1 => \A id \in requests \ requests' : giveUp > 0 \/ Answered(id)
<1>1. ASSUME ModesInv, ModesInv', [ModesNext]_modesVars
      PROVE  Kept /\ Right
  <2>1. /\ mode' = mode
        /\ ByPasses => PassStep
        /\ ByLatest => \/ [ReceiverStarts \/ ReceiverStops \/ \E id \in ID : PushRequest(id)]_fbVars
                       \/ \E what : AnswerLatest(what)
        /\ mode = "Ignored" => UNCHANGED <<bufferVars, receiver, run, answers>>
    BY <1>1, ModesStep
  <2>2. CASE ByPasses
    <3>1. BoardInv /\ BoardInv' /\ run = 1 /\ PassStep
      BY <1>1, <2>1, <2>2 DEF ModesInv, ByPasses
    <3> QED BY <3>1, PassStepSettled, PassStepRemoved
  <2>3. CASE ByLatest /\ [ReceiverStarts \/ ReceiverStops \/ \E id \in ID : PushRequest(id)]_fbVars
    BY <1>1, <2>3 DEF ModesInv, NothingWaitsYet, ReceiverStarts, ReceiverStops, PushRequest, Push, fbVars,
      boardVars, bufferVars
  <2>4. ASSUME ByLatest, NEW what, AnswerLatest(what) PROVE Kept /\ Right
    <3>1. /\ nextSeq \in 1..MaxID + 1 /\ nextSeq <= nextSeq'
          /\ \A id \in requests \ requests' : id < nextSeq'
          /\ \A f \in FID, id \in ID :
               answers'[f][id] = IF nextSeq <= id /\ id < nextSeq' THEN answers[f][id] + 1 ELSE answers[f][id]
      BY <1>1, <2>4, LatestFacts DEF ModesInv, ModesTypeOK, BoardTypeOK
    <3>2. Kept
      BY <3>1 DEF ID
    <3>3. Right
      <4> SUFFICES ASSUME NEW id \in requests \ requests', NEW f \in FID PROVE answers'[f][id] > 0
        BY DEF Answered
      <4>1. ByLatest' /\ id \in ID
        BY <1>1, <2>1, <2>4 DEF ByLatest, ModesInv, BufferInv, BufferTypeOK
      <4>2. answers'[f][id] = IF id < nextSeq' THEN 1 ELSE 0
        BY <1>1, <4>1 DEF ModesInv, OneAnswerEach
      <4> QED BY <3>1, <4>2
    <3> QED BY <3>2, <3>3
  <2>5. CASE mode = "Ignored"
    BY <2>1, <2>5 DEF bufferVars
  <2>6. ByPasses \/ ByLatest \/ mode = "Ignored"
    BY <1>1 DEF ModesInv, ModesTypeOK, ByPasses, ByLatest
  <2> QED BY <2>1, <2>2, <2>3, <2>4, <2>5, <2>6
<1>2. ModesInv /\ ModesInv' /\ [ModesNext]_modesVars => [Kept]_fbVars /\ [Right]_fbVars
  BY <1>1
<1> QED BY ModesInvAlways, <1>2, PTL DEF ModesSpec, SettledForGood, RemovedAnswered

-------------------------------------------------------------------------------
\* What Fragments are held.  The buffer holds all from its oldest Fragment on but, where data
\* handed over does not stay, those handed over; and of these it holds none, but in Buffer
\* mode the kept one, which is its oldest.
HeldAcquired == \A f \in FID : stamps[f] \cup handed[f] \subseteq acquired[f]

NothingBetween == mode = "Window" =>
  \A f \in FID : \A t \in stamps[f], u \in acquired[f] :
    t <= u => u \in stamps[f] \/ (~keeps /\ u \in handed[f])

UniqueWindows == mode = "Window" /\ ~keeps => \A f \in FID : stamps[f] \cap handed[f] = {}

KeptIsOldest == mode = "Buffer" =>
  \A f \in FID :
    /\ kept[f] => keeps /\ \E m \in stamps[f] : /\ \A t \in stamps[f] : m <= t
                                                /\ stamps[f] \cap handed[f] = {m}
    /\ ~kept[f] => stamps[f] \cap handed[f] = {}

TimesOK ==
  /\ stamps \in [FID -> SUBSET Time] /\ acquired \in [FID -> SUBSET Time]
  /\ handed \in [FID -> SUBSET Time] /\ kept \in [FID -> BOOLEAN] /\ keeps \in BOOLEAN

DataInv ==
  TimesOK /\ HeldAcquired /\ NothingBetween /\ UniqueWindows /\ KeptIsOldest /\ WindowWhole

LEMMA DataInvInit == ModesInit => DataInv
<1> SUFFICES ASSUME ModesInit PROVE DataInv
  OBVIOUS
<1>1. /\ stamps = [f \in FID |-> {}] /\ kept = [f \in FID |-> FALSE] /\ output = {}
      /\ acquired = [f \in FID |-> {}] /\ handed = [f \in FID |-> {}] /\ keeps \in BOOLEAN
  BY DEF ModesInit
<1>2. TimesOK
  BY <1>1 DEF TimesOK
<1>3. HeldAcquired /\ NothingBetween /\ UniqueWindows /\ KeptIsOldest /\ WindowWhole
  BY <1>1 DEF HeldAcquired, NothingBetween, UniqueWindows, KeptIsOldest, WindowWhole
<1> QED BY <1>2, <1>3 DEF DataInv

LEMMA TimesFinite ==
  ASSUME NEW S \in SUBSET Time
  PROVE  IsFiniteSet(S) /\ Cardinality(S) \in Nat
<1>1. MaxTime \in Int
  BY ModeConstants
<1>2. IsFiniteSet(1..MaxTime)
  BY <1>1, FS_Interval
<1> QED BY <1>2, FS_Subset, FS_CardinalityType DEF Time

LEMMA NewestTime ==
  ASSUME NEW S \in SUBSET Time, S # {}
  PROVE  Newest(S) \in S /\ \A y \in S : y <= Newest(S)
<1> DEFINE D == {MaxTime - x : x \in S}
<1>1. D \in SUBSET Nat /\ D # {}
  <2>1. \A x \in S : MaxTime - x \in Nat
    BY ModeConstants DEF Time
  <2> QED BY <2>1
<1>2. PICK d \in D : \A e \in D : d <= e
  BY <1>1, LeastNatural
<1>3. PICK x \in S : d = MaxTime - x
  OBVIOUS
<1>4. \A y \in S : MaxTime - x <= MaxTime - y
  BY <1>2, <1>3
<1>5. \A y \in S : y <= x
  BY <1>4, ModeConstants DEF Time
<1> QED BY <1>5 DEF Newest

\* What stays when Fragments are dropped at the front.
Rear(R, S) == R \subseteq S /\ \A t \in R, u \in S : t <= u => u \in R

LEMMA HighestRear ==
  ASSUME NEW S \in SUBSET Time, NEW n \in Nat
  PROVE  Rear(Highest(S, n), S)
<1> SUFFICES ASSUME NEW t \in S, NEW u \in S, t <= u, Cardinality({w \in S : w > t}) < n
             PROVE  Cardinality({w \in S : w > u}) < n
  BY DEF Rear, Highest
<1>1. {w \in S : w > u} \subseteq {w \in S : w > t}
  <2>1. t \in Int /\ u \in Int /\ \A w \in S : w \in Int
    BY DEF Time
  <2>2. \A w \in S : w > u => w > t
    BY <2>1
  <2> QED BY <2>2
<1>2. {w \in S : w > t} \in SUBSET Time /\ {w \in S : w > u} \in SUBSET Time
  OBVIOUS
<1>3. Cardinality({w \in S : w > u}) <= Cardinality({w \in S : w > t})
  BY <1>1, <1>2, TimesFinite, FS_Subset
<1> QED BY <1>2, <1>3, TimesFinite

LEMMA ReadyRear ==
  ASSUME NEW S \in SUBSET Time
  PROVE  Rear(BufferReady(S), S)
BY HighestRear, BoardConstants DEF BufferReady, Rear

LEMMA FreshRear ==
  ASSUME NEW S \in SUBSET Time
  PROVE  Rear(Fresh(S), S)
<1> SUFFICES ASSUME NEW t \in S, NEW u \in S, t <= u, StaleTimeout = 0 \/ t + StaleTimeout >= Newest(S)
             PROVE  StaleTimeout = 0 \/ u + StaleTimeout >= Newest(S)
  BY DEF Rear, Fresh
<1>1. Newest(S) \in Time
  BY NewestTime
<1> QED BY <1>1, ModeConstants DEF Time

\* Data is added behind what the buffer still holds of it, in Buffer and Window mode.
LEMMA DropInv ==
  ASSUME DataInv, mode \in {"Buffer", "Window"}, NEW f \in FID,
         NEW R, Rear(R, stamps[f]),
         NEW T \in SUBSET Time, \A t \in T, u \in acquired[f] : u < t,
         Drop(f, R \cup T), acquired' = [acquired EXCEPT ![f] = @ \cup T], output' = {},
         UNCHANGED <<mode, keeps, handed>>
  PROVE  DataInv'
<1> USE DEF DataInv, TimesOK
<1>1. /\ R \subseteq stamps[f] /\ \A t \in R, u \in stamps[f] : t <= u => u \in R
      /\ stamps[f] \cup handed[f] \subseteq acquired[f] /\ acquired[f] \in SUBSET Time
  BY DEF Rear, HeldAcquired
<1>2. /\ stamps' = [stamps EXCEPT ![f] = R \cup T]
      /\ kept' = [kept EXCEPT ![f] = @ /\ (R \cup T) \cap stamps[f] = stamps[f]]
  BY DEF Drop
<1>3. TimesOK'
  BY <1>1, <1>2
<1>4. /\ stamps'[f] = R \cup T /\ acquired'[f] = acquired[f] \cup T
      /\ kept'[f] <=> kept[f] /\ (R \cup T) \cap stamps[f] = stamps[f]
      /\ \A g \in FID \ {f} : stamps'[g] = stamps[g] /\ acquired'[g] = acquired[g] /\ kept'[g] = kept[g]
      /\ handed' = handed /\ keeps' = keeps /\ mode' = mode
  BY <1>2
<1>5. T \cap acquired[f] = {} /\ T \cap handed[f] = {} /\ T \cap stamps[f] = {}
  <2>1. \A t \in T : t \notin acquired[f]
    BY <1>1 DEF Time
  <2> QED BY <1>1, <2>1
<1>6. HeldAcquired'
  BY <1>1, <1>4 DEF HeldAcquired
<1>7. NothingBetween'
  <2> SUFFICES ASSUME mode = "Window", NEW g \in FID, NEW t \in stamps'[g], NEW u \in acquired'[g], t <= u
               PROVE  u \in stamps'[g] \/ (~keeps /\ u \in handed[g])
    BY <1>4 DEF NothingBetween
  <2>1. CASE g # f
    BY <1>4, <2>1 DEF NothingBetween
  <2>2. CASE g = f
    <3>1. CASE u \in T
      BY <1>4, <2>2, <3>1
    <3>2. CASE u \in acquired[f]
      <4>1. t \notin T
        <5>1. SUFFICES ASSUME t \in T PROVE FALSE
          OBVIOUS
        <5>2. u < t
          BY <3>2, <5>1
        <5>3. t \in Int /\ u \in Int
          BY <1>1, <3>2, <5>1 DEF Time
        <5> QED BY <5>2, <5>3
      <4>2. t \in R /\ t \in stamps[f]
        BY <1>1, <1>4, <2>2, <4>1
      <4>3. u \in stamps[f] \/ (~keeps /\ u \in handed[f])
        BY <3>2, <4>2 DEF NothingBetween
      <4>4. u \in stamps[f] => u \in R
        BY <1>1, <4>2
      <4> QED BY <1>4, <2>2, <4>3, <4>4
    <3> QED BY <1>4, <2>2, <3>1, <3>2
  <2> QED BY <2>1, <2>2
<1>8. UniqueWindows'
  BY <1>1, <1>4, <1>5 DEF UniqueWindows
<1>9. KeptIsOldest'
  <2> SUFFICES ASSUME mode = "Buffer"
               PROVE  KeptIsOldest'
    BY <1>4 DEF KeptIsOldest
  <2>1. CASE kept[f] /\ kept'[f]
    <3>1. R = stamps[f]
      BY <1>1, <1>4, <1>5, <2>1
    <3>2. PICK m \in stamps[f] : (\A t \in stamps[f] : m <= t) /\ stamps[f] \cap handed[f] = {m}
      BY <2>1 DEF KeptIsOldest
    <3>3. \A t \in T : m <= t
      BY <1>1, <3>2 DEF Time
    <3>4. m \in stamps'[f] /\ (\A t \in stamps'[f] : m <= t) /\ stamps'[f] \cap handed[f] = {m} /\ keeps
      BY <1>4, <1>5, <2>1, <3>1, <3>2, <3>3 DEF KeptIsOldest
    <3> QED BY <1>4, <2>1, <3>4 DEF KeptIsOldest
  <2>2. CASE ~kept'[f]
    <3>1. stamps'[f] \cap handed[f] = {}
      <4>1. CASE ~kept[f]
        BY <1>1, <1>4, <1>5, <4>1 DEF KeptIsOldest
      <4>2. CASE kept[f]
        <5>1. PICK m \in stamps[f] : (\A t \in stamps[f] : m <= t) /\ stamps[f] \cap handed[f] = {m}
          BY <4>2 DEF KeptIsOldest
        <5>2. m \notin R
          BY <1>1, <1>4, <2>2, <4>2, <5>1
        <5> QED BY <1>1, <1>4, <1>5, <5>1, <5>2
      <4> QED BY <4>1, <4>2
    <3> QED BY <1>4, <2>2, <3>1 DEF KeptIsOldest
  <2>3. kept'[f] => kept[f]
    BY <1>4
  <2> QED BY <2>1, <2>2, <2>3
<1>10. WindowWhole'
  BY DEF WindowWhole
<1> QED BY <1>3, <1>6, <1>7, <1>8, <1>9, <1>10

\* A step that leaves the data alone.
LEMMA DataQuiet ==
  ASSUME DataInv, UNCHANGED <<mode, keeps, stamps, kept, acquired, handed>>,
         output' = {} \/ output' = output \/ mode # "Window"
  PROVE  DataInv'
<1>1. TimesOK' /\ HeldAcquired'
  BY DEF DataInv, TimesOK, HeldAcquired
<1>2. NothingBetween' /\ UniqueWindows' /\ KeptIsOldest'
  BY DEF DataInv, NothingBetween, UniqueWindows, KeptIsOldest
<1>3. WindowWhole'
  BY DEF DataInv, WindowWhole
<1> QED BY <1>1, <1>2, <1>3 DEF DataInv

LEMMA AddStampsInv ==
  ASSUME DataInv, NEW f \in FID, NEW T \in SUBSET Time, T # {}, AddStamps(f, T)
  PROVE  DataInv'
<1> USE DEF DataInv, TimesOK
<1>1. /\ mode \in {"Single", "Buffer", "Window"}
      /\ \A t \in T, u \in acquired[f] : u < t
      /\ acquired' = [acquired EXCEPT ![f] = @ \cup T] /\ output' = {}
      /\ UNCHANGED <<mode, keeps, handed>>
  BY DEF AddStamps
<1>2. CASE mode \in {"Buffer", "Window"}
  <2>1. Drop(f, BufferReady(stamps[f]) \cup T)
    BY <1>2 DEF AddStamps
  <2>2. Rear(BufferReady(stamps[f]), stamps[f])
    BY ReadyRear
  <2> QED BY <1>1, <1>2, <2>1, <2>2, DropInv
<1>3. CASE mode = "Single"
  <2>1. Drop(f, {Newest(T)}) /\ Newest(T) \in T
    BY <1>3, NewestTime DEF AddStamps
  <2>2. /\ stamps' = [stamps EXCEPT ![f] = {Newest(T)}]
        /\ kept' = [kept EXCEPT ![f] = @ /\ {Newest(T)} \cap stamps[f] = stamps[f]]
    BY <2>1 DEF Drop
  <2>3. TimesOK'
    BY <1>1, <2>1, <2>2
  <2>4. HeldAcquired'
    BY <1>1, <2>1, <2>2 DEF HeldAcquired
  <2> QED BY <1>1, <1>3, <2>3, <2>4 DEF NothingBetween, UniqueWindows, KeptIsOldest, WindowWhole
<1> QED BY <1>1, <1>2, <1>3

LEMMA CheckDataInv ==
  ASSUME DataInv, NEW f \in FID, CheckDataBuffer(f)
  PROVE  DataInv'
<1> DEFINE S == BufferReady(stamps[f])
<1>1. /\ mode \in {"Buffer", "Window"} /\ Drop(f, Fresh(S)) /\ output' = {}
      /\ UNCHANGED <<mode, keeps, acquired, handed>>
  BY DEF CheckDataBuffer
<1>2. stamps[f] \in SUBSET Time /\ acquired \in [FID -> SUBSET Time]
  BY DEF DataInv, TimesOK
<1>3. Rear(S, stamps[f])
  BY <1>2, ReadyRear
<1>4. S \in SUBSET Time
  BY <1>2, <1>3 DEF Rear
<1> HIDE DEF S
<1>5. Rear(Fresh(S), stamps[f])
  <2>1. Rear(Fresh(S), S)
    BY <1>4, FreshRear
  <2> QED BY <1>3, <2>1 DEF Rear
<1>6. Fresh(S) \cup {} = Fresh(S) /\ acquired' = [acquired EXCEPT ![f] = @ \cup {}]
  BY <1>1, <1>2
<1>7. {} \in SUBSET Time /\ \A t \in {}, u \in acquired[f] : u < t
  OBVIOUS
<1>8. Drop(f, Fresh(S) \cup {})
  BY <1>1, <1>6
<1> QED BY <1>1, <1>5, <1>6, <1>7, <1>8, DropInv

\* The containers of a window: each takes what is in it, up to the time that closes it.
LEMMA FillInv ==
  ASSUME DataInv, mode = "Window", NEW seq \in ID, NEW by, by \subseteq FID,
         CheckAndFill(seq, by), UNCHANGED <<mode, keeps, kept, acquired>>
  PROVE  /\ DataInv'
         /\ ~keeps => \A c \in output' : c.stamps \cap handed[c.fid] = {}
         /\ \A f \in FID : stamps[f] \ stamps'[f] \subseteq handed'[f]
<1> USE DEF DataInv, TimesOK
<1>1. /\ output' = {[fid |-> f, stamps |-> InWindow(seq, stamps[f]), seq |-> seq,
                     missing |-> MissingData(seq, f)] : f \in by}
      /\ handed' = [f \in FID |-> IF f \in by THEN handed[f] \cup InWindow(seq, stamps[f]) ELSE handed[f]]
      /\ stamps' = [f \in FID |->
           IF f \in by /\ ~keeps THEN stamps[f] \ InWindow(seq, stamps[f]) ELSE stamps[f]]
  BY DEF CheckAndFill
<1>2. \A f \in FID : InWindow(seq, stamps[f]) \subseteq stamps[f]
  BY DEF InWindow
<1>3. TimesOK'
  BY <1>1, <1>2
<1>4. HeldAcquired'
  BY <1>1, <1>2 DEF HeldAcquired
<1>5. NothingBetween'
  BY <1>1, <1>2 DEF NothingBetween
<1>6. UniqueWindows'
  BY <1>1 DEF UniqueWindows
<1>7. KeptIsOldest'
  BY DEF KeptIsOldest
<1>8. WindowWhole'
  <2> SUFFICES ASSUME NEW c \in output', ~c.missing, NEW u \in acquired[c.fid],
                      Opens(c.seq) <= u, u < Closes(c.seq)
               PROVE  u \in c.stamps \/ (~keeps /\ u \in handed'[c.fid])
    BY DEF WindowWhole
  <2>1. PICK f \in by : /\ c.fid = f /\ c.stamps = InWindow(seq, stamps[f]) /\ c.seq = seq
                        /\ c.missing = MissingData(seq, f)
    BY <1>1
  <2>2. PICK t \in stamps[f] : ~(t > Opens(seq))
    BY <2>1 DEF MissingData
  <2>3. t \in Int /\ u \in Int /\ Opens(seq) \in Int
    <3>1. RequestTime[seq] \in Nat /\ WindowOffset \in Nat
      BY ModeConstants
    <3> QED BY <3>1, <2>1 DEF Opens, Time
  <2>4. t <= u
    BY <2>2, <2>3, <2>1
  <2>5. u \in stamps[f] \/ (~keeps /\ u \in handed[f])
    BY <2>4, <2>1 DEF NothingBetween
  <2>6. handed[f] \subseteq handed'[f]
    BY <1>1
  <2> QED BY <2>5, <2>6, <2>1 DEF InWindow
<1>9. ~keeps => \A c \in output' : c.stamps \cap handed[c.fid] = {}
  BY <1>1, <1>2 DEF UniqueWindows
<1>10. \A f \in FID : stamps[f] \ stamps'[f] \subseteq handed'[f]
  BY <1>1
<1> QED BY <1>3, <1>4, <1>5, <1>6, <1>7, <1>8, <1>9, <1>10

\* All but the oldest are the highest of their number.
LEMMA AllButOldest ==
  ASSUME NEW S \in SUBSET Time, NEW m \in S, \A t \in S : m <= t
  PROVE  Highest(S, Cardinality(S) - 1) = S \ {m}
<1>1. IsFiniteSet(S) /\ Cardinality(S) \in Nat
  BY TimesFinite
<1>2. \A t \in S : t \in Int
  BY DEF Time
<1>3. {u \in S : u > m} = S \ {m}
  BY <1>2
<1>4. Cardinality(S \ {m}) = Cardinality(S) - 1 /\ IsFiniteSet(S \ {m})
  BY <1>1, FS_RemoveElement
<1>5. m \notin Highest(S, Cardinality(S) - 1)
  BY <1>1, <1>3, <1>4 DEF Highest
<1>6. ASSUME NEW x \in S \ {m} PROVE x \in Highest(S, Cardinality(S) - 1)
  <2>1. {u \in S : u > x} \subseteq (S \ {m}) \ {x}
    BY <1>2, <1>6
  <2>2. Cardinality((S \ {m}) \ {x}) = Cardinality(S \ {m}) - 1 /\ IsFiniteSet((S \ {m}) \ {x})
    BY <1>4, <1>6, FS_RemoveElement
  <2>3. Cardinality({u \in S : u > x}) <= Cardinality((S \ {m}) \ {x})
    BY <2>1, <2>2, FS_Subset
  <2>4. Cardinality({u \in S : u > x}) \in Nat
    <3>1. {u \in S : u > x} \in SUBSET Time
      OBVIOUS
    <3> QED BY <3>1, TimesFinite
  <2>5. Cardinality({u \in S : u > x}) < Cardinality(S) - 1
    BY <1>1, <1>4, <2>2, <2>3, <2>4
  <2> QED BY <1>6, <2>5 DEF Highest
<1> QED BY <1>5, <1>6 DEF Highest

\* What a container of Buffer mode takes: what was not handed over, or the kept Fragment if
\* there is nothing else; so all that is held has then been handed over.
LEMMA UnsentFacts ==
  ASSUME DataInv, mode = "Buffer", NEW f \in FID
  PROVE  /\ Unsent(f) \subseteq stamps[f]
         /\ stamps[f] \subseteq handed[f] \cup Unsent(f)
         /\ Unsent(f) \cap handed[f] = {} \/ (keeps /\ Cardinality(Unsent(f)) = 1)
<1>1. stamps[f] \in SUBSET Time /\ Cardinality(stamps[f]) \in Nat /\ IsFiniteSet(stamps[f])
  BY TimesFinite DEF DataInv, TimesOK
<1>2. CASE ~kept[f]
  BY <1>2 DEF Unsent, DataInv, KeptIsOldest
<1>3. CASE kept[f]
  <2>1. PICK m \in stamps[f] : (\A t \in stamps[f] : m <= t) /\ stamps[f] \cap handed[f] = {m}
    BY <1>3 DEF DataInv, KeptIsOldest
  <2>2. keeps
    BY <1>3 DEF DataInv, KeptIsOldest
  <2>3. CASE Cardinality(stamps[f]) > 1
    <3>1. Unsent(f) = stamps[f] \ {m}
      BY <1>1, <1>3, <2>1, <2>3, AllButOldest DEF Unsent
    <3> QED BY <2>1, <3>1
  <2>4. CASE ~(Cardinality(stamps[f]) > 1)
    <3>1. Unsent(f) = stamps[f]
      BY <2>4 DEF Unsent
    <3>2. Cardinality(stamps[f]) # 0
      BY <1>1, <2>1, FS_EmptySet
    <3> QED BY <1>1, <2>2, <2>4, <3>1, <3>2
  <2> QED BY <2>3, <2>4
<1> QED BY <1>2, <1>3

\* The newest Fragment is the one that is kept.
LEMMA HighestOne ==
  ASSUME NEW S \in SUBSET Time, S # {}
  PROVE  Highest(S, 1) = {Newest(S)}
<1>1. Newest(S) \in S /\ \A y \in S : y <= Newest(S)
  BY NewestTime
<1>2. \A t \in S : t \in Int
  BY DEF Time
<1>3. ASSUME NEW t \in S PROVE Cardinality({u \in S : u > t}) < 1 <=> {u \in S : u > t} = {}
  <2>1. {u \in S : u > t} \in SUBSET Time
    OBVIOUS
  <2>2. IsFiniteSet({u \in S : u > t}) /\ Cardinality({u \in S : u > t}) \in Nat
    BY <2>1, TimesFinite
  <2>3. Cardinality({u \in S : u > t}) = 0 <=> {u \in S : u > t} = {}
    BY <2>2, FS_EmptySet
  <2> QED BY <2>2, <2>3
<1>4. \A t \in S : {u \in S : u > t} = {} <=> t = Newest(S)
  BY <1>1, <1>2
<1> QED BY <1>1, <1>3, <1>4 DEF Highest

\* Single and Buffer mode hand over the data of all Fragment IDs at once.
LEMMA SingleInv ==
  ASSUME DataInv, Single
  PROVE  DataInv'
<1> USE DEF DataInv, TimesOK
<1>1. /\ mode = "Single"
      /\ UNCHANGED <<mode, keeps, stamps, kept, acquired>>
      /\ handed' = [f \in FID |-> handed[f] \cup stamps[f]] \/ handed' = handed
  BY DEF Single, AnswerLatest, HandsOver
<1>2. TimesOK' /\ HeldAcquired'
  BY <1>1 DEF HeldAcquired
<1> QED BY <1>1, <1>2 DEF NothingBetween, UniqueWindows, KeptIsOldest, WindowWhole

LEMMA BufferModeInv ==
  ASSUME DataInv, ModesTypeOK, Buffer
  PROVE  /\ DataInv'
         /\ \A c \in output' : c.stamps \cap handed[c.fid] = {} \/ (keeps /\ Cardinality(c.stamps) = 1)
         /\ output' # {} => \A f \in FID : stamps[f] \ stamps'[f] \subseteq handed'[f]
<1> USE DEF DataInv, TimesOK
<1>1. mode = "Buffer" /\ UNCHANGED <<mode, keeps, acquired>>
  BY DEF Buffer, AnswerLatest, HandsOver
<1>2. CASE nextSeq' = nextSeq
  <2>1. UNCHANGED <<stamps, kept, handed>> /\ output' = {}
    <3>1. ~(Newest(requests) >= nextSeq)
      <4>1. Newest(requests) >= nextSeq => nextSeq' = Newest(requests) + 1
        BY DEF Buffer, AnswerLatest
      <4>2. Newest(requests) \in ID
        <5>1. requests \in SUBSET ID /\ requests # {}
          BY DEF Buffer, AnswerLatest, ModesTypeOK, BoardTypeOK, BufferTypeOK
        <5>2. \E x \in requests : \A y \in requests : y <= x
          BY <5>1, GreatestID
        <5> QED BY <5>1, <5>2 DEF Newest
      <4>3. nextSeq \in Int
        BY DEF ModesTypeOK, BoardTypeOK
      <4> QED BY <1>2, <4>1, <4>2, <4>3 DEF ID
    <3> QED BY <1>2, <3>1 DEF Buffer, AnswerLatest
  <2> QED BY <1>1, <2>1, DataQuiet
<1>3. CASE nextSeq' # nextSeq
  <2>1. /\ output' = {[fid |-> f, stamps |-> [g \in FID |-> Unsent(g)][f]] : f \in FID}
        /\ handed' = [f \in FID |-> handed[f] \cup [g \in FID |-> Unsent(g)][f]]
        /\ stamps' = [f \in FID |-> IF keeps THEN Highest(stamps[f], 1) ELSE {}]
        /\ kept' = [f \in FID |-> IF stamps[f] = {} THEN kept[f] ELSE keeps]
    BY <1>3 DEF Buffer, AnswerLatest, HandsOver
  <2>2. /\ \A f \in FID : handed'[f] = handed[f] \cup Unsent(f)
        /\ \A c \in output' : c.fid \in FID /\ c.stamps = Unsent(c.fid)
    BY <2>1
  <2>3. \A f \in FID : /\ Unsent(f) \subseteq stamps[f]
                       /\ stamps[f] \subseteq handed[f] \cup Unsent(f)
                       /\ Unsent(f) \cap handed[f] = {} \/ (keeps /\ Cardinality(Unsent(f)) = 1)
    BY <1>1, UnsentFacts
  <2>4. \A f \in FID : stamps'[f] \subseteq stamps[f]
    BY <2>1 DEF Highest
  <2>5. TimesOK'
    <3>1. handed' \in [FID -> SUBSET Time]
      BY <2>1, <2>3
    <3>2. stamps' \in [FID -> SUBSET Time]
      BY <2>1, <2>4
    <3>3. kept' \in [FID -> BOOLEAN]
      BY <2>1
    <3> QED BY <1>1, <3>1, <3>2, <3>3
  <2>6. HeldAcquired'
    BY <1>1, <2>2, <2>3, <2>4 DEF HeldAcquired
  <2>7. KeptIsOldest'
    <3> SUFFICES ASSUME NEW f \in FID
                 PROVE  /\ kept'[f] => keeps /\ \E m \in stamps'[f] : /\ \A t \in stamps'[f] : m <= t
                                                                     /\ stamps'[f] \cap handed'[f] = {m}
                        /\ ~kept'[f] => stamps'[f] \cap handed'[f] = {}
      BY <1>1 DEF KeptIsOldest
    <3>1. CASE stamps[f] = {}
      <4>1. ~kept[f] /\ stamps'[f] = {}
        BY <1>1, <2>4, <3>1 DEF KeptIsOldest
      <4> QED BY <2>1, <3>1, <4>1
    <3>2. CASE stamps[f] # {} /\ keeps
      <4>1. stamps'[f] = {Newest(stamps[f])} /\ kept'[f]
        BY <2>1, <3>2, HighestOne
      <4>2. Newest(stamps[f]) \in stamps[f] /\ Newest(stamps[f]) \in Int
        BY <3>2, NewestTime DEF Time
      <4>3. Newest(stamps[f]) \in handed'[f]
        BY <2>2, <2>3, <4>2
      <4> QED BY <3>2, <4>1, <4>2, <4>3
    <3>3. CASE stamps[f] # {} /\ ~keeps
      BY <2>1, <3>3
    <3> QED BY <3>1, <3>2, <3>3
  <2>8. NothingBetween' /\ UniqueWindows' /\ WindowWhole'
    BY <1>1 DEF NothingBetween, UniqueWindows, WindowWhole
  <2> QED BY <2>2, <2>3, <2>5, <2>6, <2>7, <2>8
<1> QED BY <1>2, <1>3

LEMMA ServeWindowFills ==
  ASSUME BoardTypeOK, ServeWindow
  PROVE  \/ output' = {} /\ UNCHANGED <<mode, keeps, stamps, kept, acquired, handed>>
         \/ \E seq \in ID, by \in SUBSET FID :
              CheckAndFill(seq, by) /\ mode = "Window" /\ UNCHANGED <<mode, keeps, kept, acquired>>
<1> DEFINE seq  == Least(work)
           open == {f \in FID : seq \notin windows[f]}
           closed == {f \in open : WindowClosed(seq, f)}
<1>1. seq \in ID
  BY LeastWork DEF ServeWindow, BoardTypeOK
<1>2. \A late \in SUBSET (open \ closed) : closed \cup late \in SUBSET FID
  OBVIOUS
<1>3. \/ output' = {} /\ UNCHANGED <<mode, keeps, stamps, kept, acquired, handed>>
      \/ /\ \E late \in SUBSET (open \ closed) : CheckAndFill(seq, closed \cup late)
         /\ mode = "Window" /\ UNCHANGED <<mode, keeps, kept, acquired>>
  BY DEF ServeWindow
<1> HIDE DEF seq, open, closed
<1> QED BY <1>1, <1>2, <1>3

\* The steps that neither take data nor hand any over.
LEMMA QuietStep ==
  ASSUME \/ mode = "SequenceID" /\ RunNext /\ UNCHANGED modeVars
         \/ ReceiverNext \/ BeginWindowPass \/ WindowPass \/ Ignored \/ UNCHANGED modesVars
         \/ \E f \in FID, id \in ID : AddIgnored(f, id)
  PROVE  /\ UNCHANGED <<mode, keeps, stamps, kept, acquired, handed>>
         /\ output' = {} \/ output' = output \/ mode = "Ignored"
BY DEF modeVars, modesVars, ReceiverNext, BeginWindowPass, WindowPass, Ignored, AddIgnored

LEMMA DataInvNext ==
  ASSUME ModesInv, DataInv, [ModesNext]_modesVars
  PROVE  DataInv'
<1>1. ASSUME NEW f \in FID, NEW T \in SUBSET Time, Cardinality(T) \in 1..2, AddStamps(f, T)
      PROVE  DataInv'
  <2>1. T # {}
    BY <1>1, FS_EmptySet
  <2> QED BY <1>1, <2>1, AddStampsInv
<1>2. ASSUME NEW f \in FID, CheckDataBuffer(f) PROVE DataInv'
  BY <1>2, CheckDataInv
<1>3. CASE Single
  BY <1>3, SingleInv
<1>4. CASE Buffer
  BY <1>4, BufferModeInv DEF ModesInv
<1>5. CASE ServeWindow
  <2>1. \/ output' = {} /\ UNCHANGED <<mode, keeps, stamps, kept, acquired, handed>>
        \/ \E seq \in ID, by \in SUBSET FID :
             CheckAndFill(seq, by) /\ mode = "Window" /\ UNCHANGED <<mode, keeps, kept, acquired>>
    BY <1>5, ServeWindowFills DEF ModesInv, ModesTypeOK
  <2> QED BY <2>1, FillInv, DataQuiet
<1>6. CASE \/ mode = "SequenceID" /\ RunNext /\ UNCHANGED modeVars
           \/ ReceiverNext \/ BeginWindowPass \/ WindowPass \/ Ignored \/ UNCHANGED modesVars
           \/ \E f \in FID, id \in ID : AddIgnored(f, id)
  BY <1>6, QuietStep, DataQuiet
<1> QED BY <1>1, <1>2, <1>3, <1>4, <1>5, <1>6 DEF ModesNext

LEMMA DataInvAlways ==
  ASSUME MaxID < HalfInt, FID # {}
  PROVE  ModesSpec => []DataInv
<1>1. ModesInv /\ DataInv /\ [ModesNext]_modesVars => DataInv'
  BY DataInvNext
<1> QED BY ModesInvAlways, DataInvInit, <1>1, PTL DEF ModesSpec

\* However the windows overlap and whatever is dropped at the front of the buffer, a window
\* that is sent without the flag missing_data lacks only what, with unique windows, went out
\* with another one.
THEOREM WindowsAlwaysWhole ==
  ASSUME MaxID < HalfInt, FID # {}
  PROVE  ModesSpec => []WindowWhole
<1>1. DataInv => WindowWhole
  BY DEF DataInv
<1> QED BY DataInvAlways, <1>1, PTL

\* With unique windows and in Buffer mode no Fragment but the kept one is handed over again,
\* and handing over loses none.
THEOREM EachFragmentHandedOnce ==
  ASSUME MaxID < HalfInt, FID # {}
  PROVE  ModesSpec => EachFragmentOnce
<1> DEFINE Once == (mode = "Buffer" \/ (mode = "Window" /\ ~keeps)) =>
             /\ \A c \in output' \ output : c.stamps \cap handed[c.fid] = {} \/
                  (mode = "Buffer" /\ keeps /\ Cardinality(c.stamps) = 1)
             /\ output' # {} => \A f \in FID : stamps[f] \ stamps'[f] \subseteq handed'[f]
<1>1. ASSUME ModesInv, DataInv, [ModesNext]_modesVars
      PROVE  Once
  <2>1. SUFFICES ASSUME mode = "Buffer" \/ (mode = "Window" /\ ~keeps)
                 PROVE  /\ \A c \in output' \ output : c.stamps \cap handed[c.fid] = {} \/
                             (mode = "Buffer" /\ keeps /\ Cardinality(c.stamps) = 1)
                        /\ output' # {} => \A f \in FID : stamps[f] \ stamps'[f] \subseteq handed'[f]
    OBVIOUS
  <2>2. ASSUME NEW f \in FID, (\E T : AddStamps(f, T)) \/ CheckDataBuffer(f) PROVE output' = {}
    BY <2>2 DEF AddStamps, CheckDataBuffer
  <2>3. CASE Buffer
    <3>1. mode = "Buffer"
      BY <2>3 DEF Buffer
    <3> QED BY <1>1, <2>3, <3>1, BufferModeInv DEF ModesInv
  <2>4. CASE ServeWindow
    <3>1. mode = "Window" /\ ~keeps
      BY <2>1, <2>4 DEF ServeWindow
    <3>2. \/ output' = {}
          \/ \E seq \in ID, by \in SUBSET FID :
               CheckAndFill(seq, by) /\ mode = "Window" /\ UNCHANGED <<mode, keeps, kept, acquired>>
      BY <1>1, <2>4, ServeWindowFills DEF ModesInv, ModesTypeOK
    <3> QED BY <1>1, <3>1, <3>2, FillInv
  <2>5. CASE \/ mode = "SequenceID" /\ RunNext /\ UNCHANGED modeVars
             \/ ReceiverNext \/ BeginWindowPass \/ WindowPass \/ Ignored \/ UNCHANGED modesVars
             \/ \E f \in FID, id \in ID : AddIgnored(f, id)
    <3>1. UNCHANGED <<stamps, handed>> /\ (output' = {} \/ output' = output)
      BY <2>1, <2>5, QuietStep
    <3> QED BY <3>1
  <2>6. ~Single
    BY <2>1 DEF Single
  <2> QED BY <1>1, <2>2, <2>3, <2>4, <2>5, <2>6 DEF ModesNext
<1>2. ModesInv /\ DataInv /\ [ModesNext]_modesVars => [Once]_modesVars
  BY <1>1
<1> QED BY ModesInvAlways, DataInvAlways, <1>2, PTL DEF ModesSpec, EachFragmentOnce

-----------------------------------------------------------------------------
(* The path of the requests *)

\* The invariant.  What a board waits for was sent in its run, and what was sent in a run
\* had been opened in it: active_requests_ is emptied before the number of the run grows.
RunsOK == run \in Run /\ builderRun \in Run

HistoriesOK == opened \in [Run -> SUBSET ID] /\ requested \in [Run -> SUBSET ID]

ActiveOpened == active \subseteq opened[builderRun]

SentOpened == \A r \in Run : requested[r] \subseteq opened[r]

WaitingSent == receiver # "starting" => requests \subseteq requested[run]

PathInv == RunsOK /\ HistoriesOK /\ ActiveOpened /\ SentOpened /\ WaitingSent

LEMMA PathInvInit == Init => PathInv
BY BoardConstants DEF Init, BoardInit, PathInv, Run, RunsOK, HistoriesOK, ActiveOpened, SentOpened,
   WaitingSent

\* The event builder: events are opened and requests are sent in the same run.
LEMMA BuilderKeeps ==
  ASSUME PathInv,
         (\E id \in ID : OpenEvent(id) \/ FragmentDone(id)) \/ EndOfData \/ SendMessage \/ StartBuilderRun
  PROVE  PathInv'
<1> USE DEF PathInv, RunsOK, HistoriesOK, fbVars, bufferVars
<1>1. ASSUME NEW id \in ID, OpenEvent(id) PROVE PathInv'
  <2>1. /\ opened' = [opened EXCEPT ![builderRun] = @ \cup {id}]
        /\ active' \subseteq active \cup {id}
        /\ UNCHANGED <<requests, receiver, run, builderRun, requested>>
    BY <1>1 DEF OpenEvent, KeepHighest
  <2>2. opened' \in [Run -> SUBSET ID] /\ \A r \in Run : opened[r] \subseteq opened'[r]
    BY <2>1
  <2>3. opened'[builderRun] = opened[builderRun] \cup {id}
    BY <2>1
  <2> QED BY <2>1, <2>2, <2>3 DEF ActiveOpened, SentOpened, WaitingSent
<1>2. ASSUME NEW id \in ID, FragmentDone(id) PROVE PathInv'
  BY <1>2 DEF FragmentDone, ActiveOpened, SentOpened, WaitingSent
<1>3. CASE EndOfData
  BY <1>3 DEF EndOfData, ActiveOpened, SentOpened, WaitingSent
<1>4. CASE SendMessage
  <2>1. /\ requested' = [requested EXCEPT ![builderRun] = @ \cup active]
        /\ UNCHANGED <<requests, receiver, run, builderRun, opened, active>>
    BY <1>4 DEF SendMessage
  <2>2. active \subseteq opened[builderRun] /\ opened[builderRun] \subseteq ID
    BY DEF ActiveOpened
  <2>3. \A r \in Run : requested'[r] = IF r = builderRun THEN requested[r] \cup active ELSE requested[r]
    BY <2>1
  <2> QED BY <2>1, <2>2, <2>3 DEF ActiveOpened, SentOpened, WaitingSent
<1>5. CASE StartBuilderRun
  <2>1. /\ builderRun' = builderRun + 1 /\ builderRun < MaxRuns /\ active' = {}
        /\ UNCHANGED <<requests, receiver, run, opened, requested>>
    BY <1>5 DEF StartBuilderRun
  <2>2. builderRun' \in Run
    BY <2>1, BoardConstants DEF Run
  <2> QED BY <2>1, <2>2 DEF ActiveOpened, SentOpened, WaitingSent
<1> QED BY <1>1, <1>2, <1>3, <1>4, <1>5

\* The board: what it waits for arrived in this run or waited already, and it forgets
\* everything when its receiver starts.
LEMMA BoardKeeps ==
  ASSUME PathInv, UNCHANGED senderVars, run' \in Run,
         receiver' # "starting" =>
           \/ requests' = {}
           \/ /\ receiver # "starting" /\ run' = run
              /\ requests' \subseteq requests \cup requested[run]
  PROVE  PathInv'
BY DEF PathInv, senderVars, RunsOK, HistoriesOK, ActiveOpened, SentOpened, WaitingSent

\* No step of a pass makes a request wait.
LEMMA PassRemoves ==
  ASSUME ApplyRequests
  PROVE  requests' \subseteq requests /\ UNCHANGED <<receiver, run>>
<1>1. CASE BeginPass \/ RecheckWindows \/ EndPass
  BY <1>1 DEF BeginPass, RecheckWindows, EndPass, bufferVars
<1>2. CASE GiveUpRequest
  BY <1>2 DEF GiveUpRequest, RemoveRequest
<1>3. ASSUME NEW seq, NEW sent, CheckSentWindows(seq, sent) PROVE requests' \subseteq requests
  BY <1>3 DEF CheckSentWindows, Settle, RemoveRequest, bufferVars
<1>4. CASE ServeRequest
  BY <1>3, <1>4 DEF ServeRequest
<1>5. CASE RecheckWindow
  BY <1>3, <1>5 DEF RecheckWindow
<1> QED BY <1>1, <1>2, <1>4, <1>5 DEF ApplyRequests

LEMMA PathInvNext ==
  ASSUME PathInv, [Next]_vars
  PROVE  PathInv'
<1> USE DEF RunsOK
<1>a. run \in Run
  BY DEF PathInv
<1>1. CASE (\E id \in ID : OpenEvent(id) \/ FragmentDone(id)) \/ EndOfData \/ SendMessage \/ StartBuilderRun
  BY <1>1, BuilderKeeps
<1>2. ASSUME NEW r \in Run, NEW id \in ID, Receive(r, id) PROVE PathInv'
  <2>1. /\ receiver = "running" /\ id \in requested[run] /\ requests' \subseteq requests \cup {id}
        /\ UNCHANGED <<senderVars, receiver, run>>
    BY <1>2 DEF Receive, Accepts, PushRequest, Push
  <2> QED BY <1>a, <2>1, BoardKeeps
<1>3. CASE EndOfRunReceived
  BY <1>a, <1>3, BoardKeeps DEF EndOfRunReceived, ReceiverStops, bufferVars
<1>4. CASE BoardStep(ReceiverStarts)
  BY <1>a, <1>4, BoardKeeps DEF BoardStep, ReceiverStarts, Reset
<1>5. CASE BoardStep(ApplyRequests)
  BY <1>a, <1>5, BoardKeeps, PassRemoves DEF BoardStep
<1>6. CASE BoardStep(StartRun)
  <2>1. run' = run + 1 /\ run < MaxRuns /\ receiver' = "starting" /\ UNCHANGED senderVars
    BY <1>6 DEF BoardStep, StartRun
  <2>2. run' \in Run
    BY <1>a, <2>1, BoardConstants DEF Run
  <2> QED BY <2>1, <2>2, BoardKeeps
<1>7. ASSUME NEW f \in FID, NEW id \in ID, Acquire(f, id) PROVE PathInv'
  BY <1>a, <1>7, BoardKeeps DEF Acquire, AddFragment, bufferVars
<1>8. CASE UNCHANGED vars
  BY <1>a, <1>8, BoardKeeps DEF vars, fbVars, bufferVars
<1> QED BY <1>1, <1>2, <1>3, <1>4, <1>5, <1>6, <1>7, <1>8 DEF Next

LEMMA PathInvAlways == Spec => []PathInv
<1>1. PathInv /\ [Next]_vars => PathInv'
  BY PathInvNext
<1> QED BY PathInvInit, <1>1, PTL DEF Spec
-------------------------------------------------------------------------------
\* RequestReceiver's check of the run number and the emptying of both lists between runs
\* are enough: whatever becomes of the datagrams, and whichever side starts a run first, a
\* board whose receiver runs waits only for events opened in its own run.
THEOREM WaitingRequestsAlwaysOpen == Spec => []WaitingRequestsOpen
<1>1. PathInv => WaitingRequestsOpen
  BY DEF PathInv, RunsOK, SentOpened, WaitingSent, WaitingRequestsOpen
<1> QED BY PathInvAlways, <1>1, PTL

\* Seen from the board, the request path does nothing that FragmentBuffer does not allow, so
\* that what is proved of a board holds at the end of the path.
THEOREM PathImplementsBoard == Spec => FBSpec
<1>1. Init => BoardInit
  BY DEF Init
<1>2. ASSUME [Next]_vars PROVE [FBNext]_fbVars
  <2>1. CASE (\E id \in ID : OpenEvent(id) \/ FragmentDone(id)) \/ EndOfData \/ SendMessage \/ StartBuilderRun
    BY <2>1 DEF OpenEvent, FragmentDone, EndOfData, SendMessage, StartBuilderRun
  <2>2. ASSUME NEW r \in Run, NEW id \in ID, Receive(r, id) PROVE FBNext
    BY <2>2 DEF Receive, FBNext, RunNext
  <2>3. CASE EndOfRunReceived
    BY <2>3 DEF EndOfRunReceived, FBNext, RunNext
  <2>4. CASE BoardStep(ReceiverStarts) \/ BoardStep(ApplyRequests) \/ BoardStep(StartRun)
    BY <2>4 DEF BoardStep, FBNext, RunNext
  <2>5. ASSUME NEW f \in FID, NEW id \in ID, Acquire(f, id) PROVE FBNext
    BY <2>5 DEF Acquire, FBNext, RunNext
  <2>6. CASE UNCHANGED vars
    BY <2>6 DEF vars
  <2> QED BY <1>2, <2>1, <2>2, <2>3, <2>4, <2>5, <2>6 DEF Next
<1> QED BY <1>1, <1>2, PTL DEF Spec, FBSpec

\* With requests that are lost, late and repeated on their way, no Fragment ID answers a
\* request of an event builder twice.
THEOREM PathAnswersOnce ==
  ASSUME MaxID < HalfInt
  PROVE  Spec => []AnsweredOnce
BY PathImplementsBoard, NeverAnsweredTwice, PTL
=============================================================================
