---------------------------- MODULE Shared_proofs ---------------------------
(***************************************************************************)
(* The lemmas that the theorems of several components rest on.  About the  *)
(* built-in functions: a finite set of integers, put in order, is a        *)
(* sequence that ascends and has each of its elements once; a list that is *)
(* sorted by keys has all its elements, in their order; a loop over a list *)
(* goes on with what is appended; and a sum changes by what one of its     *)
(* terms does.  About trading: fills, limits, orders and accounts, for     *)
(* every choice of prices, fees and limits.                                *)
(***************************************************************************)
EXTENDS Builtins, Risk, Orders, Account,
        FiniteSetTheorems, FunctionTheorems, SequenceTheorems, TLAPS

(***************************************************************************)
(* A relation R that orders a finite set puts every element at a place:    *)
(* the number of those before it.                                          *)
(***************************************************************************)
Before(R, S, x) == {y \in S : <<y, x>> \in R}

IsOrder(R, S) ==
  /\ \A x \in S : <<x, x>> \notin R
  /\ \A x, y, z \in S : <<x, y>> \in R /\ <<y, z>> \in R => <<x, z>> \in R
  /\ \A x, y \in S : x # y => <<x, y>> \in R \/ <<y, x>> \in R

LEMMA BeforeRises ==
  ASSUME NEW R, NEW S, IsFiniteSet(S), IsOrder(R, S),
         NEW x \in S, NEW z \in S, <<x, z>> \in R
  PROVE  Cardinality(Before(R, S, x)) < Cardinality(Before(R, S, z))
<1>1. Before(R, S, z) \in SUBSET S /\ Before(R, S, x) \in SUBSET Before(R, S, z)
  BY DEF Before, IsOrder
<1>2. x \in Before(R, S, z) /\ x \notin Before(R, S, x)
  BY DEF Before, IsOrder
<1>3. IsFiniteSet(Before(R, S, z))
  BY <1>1, FS_Subset
<1>4. /\ IsFiniteSet(Before(R, S, x))
      /\ Cardinality(Before(R, S, x)) <= Cardinality(Before(R, S, z))
      /\ Cardinality(Before(R, S, z)) # Cardinality(Before(R, S, x))
  BY <1>1, <1>2, <1>3, FS_Subset
<1>5. Cardinality(Before(R, S, x)) \in Nat /\ Cardinality(Before(R, S, z)) \in Nat
  BY <1>3, <1>4, FS_CardinalityType
<1> QED
  BY <1>4, <1>5, SMT

LEMMA BeforeRange ==
  ASSUME NEW R, NEW S, IsFiniteSet(S), IsOrder(R, S), NEW x \in S
  PROVE  Cardinality(Before(R, S, x)) \in 0 .. Cardinality(S) - 1
<1>1. Before(R, S, x) \in SUBSET S /\ x \notin Before(R, S, x)
  BY DEF Before, IsOrder
<1>2. /\ IsFiniteSet(Before(R, S, x))
      /\ Cardinality(Before(R, S, x)) <= Cardinality(S)
      /\ Cardinality(S) # Cardinality(Before(R, S, x))
  BY <1>1, FS_Subset
<1>3. Cardinality(Before(R, S, x)) \in Nat /\ Cardinality(S) \in Nat
  BY <1>2, FS_CardinalityType
<1> QED
  BY <1>2, <1>3, SMT

\* No two elements are at one place.
LEMMA BeforeDiffer ==
  ASSUME NEW R, NEW S, IsFiniteSet(S), IsOrder(R, S), NEW x \in S, NEW z \in S,
         Cardinality(Before(R, S, x)) = Cardinality(Before(R, S, z))
  PROVE  x = z
<1> SUFFICES ASSUME x # z PROVE FALSE
  OBVIOUS
<1>1. <<x, z>> \in R \/ <<z, x>> \in R
  BY DEF IsOrder
<1>2. Cardinality(Before(R, S, x)) \in Int /\ Cardinality(Before(R, S, z)) \in Int
  BY BeforeRange, SMT
<1>3. \/ Cardinality(Before(R, S, x)) < Cardinality(Before(R, S, z))
      \/ Cardinality(Before(R, S, z)) < Cardinality(Before(R, S, x))
  BY <1>1, BeforeRises
<1> QED
  BY <1>2, <1>3, SMT

\* Every place has its element.
LEMMA BeforeTaken ==
  ASSUME NEW R, NEW S, IsFiniteSet(S), IsOrder(R, S), NEW i \in 1 .. Cardinality(S)
  PROVE  \E x \in S : Cardinality(Before(R, S, x)) = i - 1
<1> DEFINE n == Cardinality(S)
           T == 0 .. n - 1
           rank == [x \in S |-> Cardinality(Before(R, S, x))]
<1>1. n \in Nat
  BY FS_CardinalityType
<1> HIDE DEF n
<1>2. IsFiniteSet(T) /\ Cardinality(T) = n
  BY <1>1, FS_Interval, SMT
<1>3. \A x \in S : Cardinality(Before(R, S, x)) \in T
  BY BeforeRange DEF n
<1>4. rank \in [S -> T]
  BY <1>3
<1>5. \A x, z \in S : rank[x] = rank[z] => x = z
  BY BeforeDiffer
<1>6. rank \in Injection(S, T)
  BY <1>4, <1>5 DEF Injection, IsInjective
<1>7. rank \in Surjection(S, T)
  BY <1>2, <1>6, FS_Injection DEF n
<1>8. i - 1 \in T
  BY <1>1, SMT DEF n
<1>9. \E x \in S : rank[x] = i - 1
  BY <1>7, <1>8 DEF Surjection
<1> QED
  BY <1>9

-----------------------------------------------------------------------------
(***************************************************************************)
(* Sets of integers in order.                                              *)
(***************************************************************************)
Below(S, x) == {y \in S : y < x}

Less(S) == {e \in S \X S : e[1] < e[2]}

LEMMA LessOrders ==
  ASSUME NEW S, S \subseteq Int
  PROVE  /\ IsOrder(Less(S), S)
         /\ \A x, y \in S : x < y <=> <<x, y>> \in Less(S)
         /\ \A x \in S : Before(Less(S), S, x) = Below(S, x)
<1>1. \A x, y \in S : x < y <=> <<x, y>> \in Less(S)
  BY DEF Less
<1>2. \A x \in S : ~ (x < x)
  BY SMT
<1>3. \A x, y, z \in S : x < y /\ y < z => x < z
  BY SMT
<1>4. \A x, y \in S : x # y => x < y \/ y < x
  BY SMT
<1>5. IsOrder(Less(S), S)
  BY <1>1, <1>2, <1>3, <1>4, Zenon DEF IsOrder
<1>6. \A x \in S : Before(Less(S), S, x) = Below(S, x)
  BY <1>1 DEF Before, Below
<1> QED
  BY <1>1, <1>5, <1>6

LEMMA BelowRises ==
  ASSUME NEW S, S \subseteq Int, IsFiniteSet(S)
  PROVE  \A x, z \in S : x < z => Cardinality(Below(S, x)) < Cardinality(Below(S, z))
<1> SUFFICES ASSUME NEW x \in S, NEW z \in S, x < z
             PROVE  Cardinality(Below(S, x)) < Cardinality(Below(S, z))
  OBVIOUS
<1>1. IsOrder(Less(S), S) /\ <<x, z>> \in Less(S)
  BY LessOrders
<1>2. Cardinality(Before(Less(S), S, x)) < Cardinality(Before(Less(S), S, z))
  BY <1>1, BeforeRises
<1> QED
  BY <1>2, LessOrders

LEMMA BelowRange ==
  ASSUME NEW S, S \subseteq Int, IsFiniteSet(S), NEW x \in S
  PROVE  Cardinality(Below(S, x)) \in 0 .. Cardinality(S) - 1
<1>1. Cardinality(Before(Less(S), S, x)) \in 0 .. Cardinality(S) - 1
  BY LessOrders, BeforeRange
<1> QED
  BY <1>1, LessOrders

\* Every place of the order has its element.
LEMMA PlaceTaken ==
  ASSUME NEW S, S \subseteq Int, IsFiniteSet(S), NEW i \in 1 .. Cardinality(S)
  PROVE  \E x \in S : Cardinality(Below(S, x)) = i - 1
<1>1. \E x \in S : Cardinality(Before(Less(S), S, x)) = i - 1
  BY LessOrders, BeforeTaken
<1> QED
  BY <1>1, LessOrders

\* What is ordered is a sequence of the elements, each at its place.
LEMMA InOrderPlaces ==
  ASSUME NEW S, S \subseteq Int, IsFiniteSet(S)
  PROVE  /\ Cardinality(S) \in Nat
         /\ DOMAIN InOrder(S) = 1 .. Cardinality(S)
         /\ InOrder(S) \in Seq(S) /\ Len(InOrder(S)) = Cardinality(S)
         /\ \A i \in 1 .. Cardinality(S) :
              /\ InOrder(S)[i] \in S
              /\ Cardinality(Below(S, InOrder(S)[i])) = i - 1
<1>1. Cardinality(S) \in Nat
  BY FS_CardinalityType
<1>2. DOMAIN InOrder(S) = 1 .. Cardinality(S)
  BY DEF InOrder
<1>3. ASSUME NEW i \in 1 .. Cardinality(S)
      PROVE  InOrder(S)[i] \in S /\ Cardinality(Below(S, InOrder(S)[i])) = i - 1
  <2>1. \E x \in S : Cardinality(Below(S, x)) = i - 1
    BY PlaceTaken
  <2>2. InOrder(S)[i] = CHOOSE x \in S : Cardinality(Below(S, x)) = i - 1
    BY DEF InOrder, Below
  <2> QED
    BY <2>1, <2>2
<1>4. InOrder(S) = [i \in 1 .. Cardinality(S) |-> InOrder(S)[i]]
  BY DEF InOrder
<1> HIDE DEF InOrder
<1>5. InOrder(S) \in [1 .. Cardinality(S) -> S]
  BY <1>3, <1>4
<1> QED
  BY <1>1, <1>2, <1>3, <1>5, SMT

LEMMA InOrderAscends ==
  ASSUME NEW S, S \subseteq Int, IsFiniteSet(S),
         NEW i \in DOMAIN InOrder(S), NEW j \in DOMAIN InOrder(S), i < j
  PROVE  InOrder(S)[i] < InOrder(S)[j]
<1> DEFINE a == InOrder(S)[i]
           b == InOrder(S)[j]
<1>0. i \in 1 .. Cardinality(S) /\ j \in 1 .. Cardinality(S)
  BY InOrderPlaces
<1>1. i \in Int /\ j \in Int
  <2>1. Cardinality(S) \in Nat
    BY InOrderPlaces
  <2> QED
    BY <1>0, <2>1, SMT
<1>2. /\ a \in S /\ Cardinality(Below(S, a)) = i - 1
      /\ b \in S /\ Cardinality(Below(S, b)) = j - 1
  BY <1>0, InOrderPlaces
<1> HIDE DEF a, b
<1>3. a # b
  BY <1>1, <1>2, SMT
<1>4. ~ (b < a)
  <2> SUFFICES ASSUME b < a PROVE FALSE
    OBVIOUS
  <2>1. j - 1 < i - 1
    BY <1>2, BelowRises
  <2> QED
    BY <1>1, <2>1, SMT
<1>5. a < b
  BY <1>2, <1>3, <1>4, SMT
<1> QED
  BY <1>5 DEF a, b

LEMMA InOrderHasAll ==
  ASSUME NEW S, S \subseteq Int, IsFiniteSet(S), NEW x \in S
  PROVE  \E i \in DOMAIN InOrder(S) : InOrder(S)[i] = x
<1> DEFINE i == Cardinality(Below(S, x)) + 1
<1>1. i \in 1 .. Cardinality(S) /\ i - 1 = Cardinality(Below(S, x))
  <2> DEFINE r == Cardinality(Below(S, x))
  <2>1. Cardinality(S) \in Nat /\ r \in 0 .. Cardinality(S) - 1
    BY FS_CardinalityType, BelowRange
  <2> HIDE DEF r
  <2>2. r + 1 \in 1 .. Cardinality(S) /\ (r + 1) - 1 = r
    BY <2>1, SMT
  <2> QED
    BY <2>2 DEF r
<1> HIDE DEF i
<1> DEFINE z == InOrder(S)[i]
<1>2. z \in S /\ Cardinality(Below(S, z)) = Cardinality(Below(S, x))
  BY <1>1, InOrderPlaces
<1> HIDE DEF z
<1>3. Cardinality(Below(S, x)) \in Int
  BY <1>1, SMT DEF i
<1>4. ~ (x < z) /\ ~ (z < x)
  <2>1. x < z => Cardinality(Below(S, x)) < Cardinality(Below(S, z))
    BY <1>2, BelowRises
  <2>2. z < x => Cardinality(Below(S, z)) < Cardinality(Below(S, x))
    BY <1>2, BelowRises
  <2> QED
    BY <1>2, <1>3, <2>1, <2>2, SMT
<1>5. z = x
  BY <1>2, <1>4, SMT
<1> QED
  BY <1>1, <1>5, InOrderPlaces DEF z

-----------------------------------------------------------------------------
(***************************************************************************)
(* An order cut in two: the rows before a point, and the rows from it on.  *)
(***************************************************************************)

\* An element stands at the place that the number of smaller ones gives it.
LEMMA InOrderAt ==
  ASSUME NEW S, S \subseteq Int, IsFiniteSet(S), NEW i \in 1 .. Cardinality(S),
         NEW x \in S, Cardinality(Below(S, x)) = i - 1
  PROVE  InOrder(S)[i] = x
<1> DEFINE z == InOrder(S)[i]
<1>1. z \in S /\ Cardinality(Below(S, z)) = i - 1
  BY InOrderPlaces
<1> HIDE DEF z
<1>2. i - 1 \in Int
  <2>1. Cardinality(S) \in Nat
    BY FS_CardinalityType
  <2> QED
    BY <2>1
<1>3. ~ (x < z) /\ ~ (z < x)
  <2>1. x < z => Cardinality(Below(S, x)) < Cardinality(Below(S, z))
    BY <1>1, BelowRises
  <2>2. z < x => Cardinality(Below(S, z)) < Cardinality(Below(S, x))
    BY <1>1, BelowRises
  <2> QED
    BY <1>1, <1>2, <2>1, <2>2, SMT
<1>4. z = x
  BY <1>1, <1>3, SMT
<1> QED
  BY <1>4 DEF z

\* Nothing, in order.
LEMMA InOrderEmpty == InOrder({}) = <<>>
<1>1. IsFiniteSet({}) /\ Cardinality({}) = 0
  BY FS_EmptySet
<1>2. InOrder({}) \in Seq({}) /\ Len(InOrder({})) = 0
  BY <1>1, InOrderPlaces
<1> QED
  BY <1>2, EmptySeq

\* Where all of A comes before all of B, so does it in the order of both.
LEMMA InOrderSplit ==
  ASSUME NEW A, A \subseteq Int, IsFiniteSet(A), NEW B, B \subseteq Int, IsFiniteSet(B),
         \A a \in A, b \in B : a < b
  PROVE  InOrder(A \cup B) = InOrder(A) \o InOrder(B)
<1> DEFINE S == A \cup B
           n == Cardinality(A)
           m == Cardinality(B)
           s == InOrder(A)
           t == InOrder(B)
<1>1. S \subseteq Int /\ IsFiniteSet(S) /\ n \in Nat /\ m \in Nat
  BY FS_Union, FS_CardinalityType
<1>2. A \cap B = {}
  BY SMT
<1>3. Cardinality(S) = n + m
  <2>1. Cardinality(S) = n + m - Cardinality(A \cap B) /\ Cardinality(A \cap B) = 0
    BY <1>2, FS_Union, FS_EmptySet
  <2> HIDE DEF S, n, m
  <2> QED
    BY <1>1, <2>1, SMT
<1>4. /\ s \in Seq(A) /\ Len(s) = n /\ t \in Seq(B) /\ Len(t) = m
      /\ InOrder(S) \in Seq(S) /\ Len(InOrder(S)) = n + m
  BY <1>1, <1>3, InOrderPlaces
<1>5. s \in Seq(S) /\ t \in Seq(S)
  <2>1. A \subseteq S /\ B \subseteq S
    OBVIOUS
  <2> HIDE DEF s, t, S
  <2>2. Seq(A) \subseteq Seq(S) /\ Seq(B) \subseteq Seq(S)
    BY <2>1, SeqMonotonic
  <2> QED
    BY <1>4, <2>2
<1>6. /\ s \o t \in Seq(S) /\ Len(s \o t) = n + m
      /\ \A i \in 1 .. n + m : (s \o t)[i] = IF i <= n THEN s[i] ELSE t[i - n]
  <2>1. Len(s) = n /\ Len(t) = m
    BY <1>4
  <2> HIDE DEF s, t, S, n, m
  <2>2. /\ s \o t \in Seq(S) /\ Len(s \o t) = Len(s) + Len(t)
        /\ \A i \in 1 .. Len(s) + Len(t) :
             (s \o t)[i] = IF i <= Len(s) THEN s[i] ELSE t[i - Len(s)]
    BY <1>5, ConcatProperties
  <2> QED
    BY <2>1, <2>2
<1>7. ASSUME NEW i \in 1 .. n PROVE InOrder(S)[i] = s[i]
  <2> DEFINE x == s[i]
  <2>1. x \in A /\ Cardinality(Below(A, x)) = i - 1
    BY InOrderPlaces
  <2> HIDE DEF x
  <2>2. Below(S, x) = Below(A, x)
    <3>1. \A y \in B : ~ (y < x)
      <4> SUFFICES ASSUME NEW y \in B PROVE ~ (y < x)
        OBVIOUS
      <4>1. x < y /\ x \in Int /\ y \in Int
        BY <2>1
      <4> QED
        BY <4>1
    <3> QED
      BY <3>1 DEF Below
  <2>3. i \in 1 .. Cardinality(S)
    <3> HIDE DEF S, n, m
    <3> QED
      BY <1>1, <1>3
  <2>4. InOrder(S)[i] = x
    <3>1. x \in S /\ Cardinality(Below(S, x)) = i - 1
      BY <2>1, <2>2
    <3> HIDE DEF S
    <3> QED
      BY <1>1, <2>3, <3>1, InOrderAt
  <2> QED
    BY <2>4 DEF x
<1>8. ASSUME NEW i \in n + 1 .. n + m PROVE InOrder(S)[i] = t[i - n]
  <2> DEFINE x == t[i - n]
  <2>1. i \in Int /\ i - n \in 1 .. m /\ i \in 1 .. n + m
    <3> HIDE DEF n, m
    <3> QED
      BY <1>1
  <2>2. x \in B /\ Cardinality(Below(B, x)) = (i - n) - 1
    BY <2>1, InOrderPlaces
  <2> HIDE DEF x
  <2>3. Below(S, x) = A \cup Below(B, x) /\ A \cap Below(B, x) = {}
    BY <1>2, <2>2 DEF Below
  <2>4. IsFiniteSet(Below(B, x))
    <3>1. Below(B, x) \in SUBSET B
      BY DEF Below
    <3> QED
      BY <3>1, FS_Subset
  <2>5. Cardinality(Below(S, x)) = i - 1
    <3>1. Cardinality(A \cup Below(B, x)) =
            n + Cardinality(Below(B, x)) - Cardinality(A \cap Below(B, x))
      BY <2>4, FS_Union
    <3>2. Cardinality(A \cap Below(B, x)) = 0
      BY <2>3, FS_EmptySet
    <3> HIDE DEF n, m, S
    <3> QED
      BY <1>1, <2>1, <2>2, <2>3, <3>1, <3>2
  <2>6. InOrder(S)[i] = x
    <3>1. x \in S /\ i \in 1 .. Cardinality(S)
      BY <1>3, <2>1, <2>2
    <3> HIDE DEF S
    <3> QED
      BY <1>1, <2>5, <3>1, InOrderAt
  <2> QED
    BY <2>6 DEF x
<1>9. \A i \in 1 .. n + m : InOrder(S)[i] = (s \o t)[i]
  <2> SUFFICES ASSUME NEW i \in 1 .. n + m PROVE InOrder(S)[i] = (s \o t)[i]
    OBVIOUS
  <2>1. (s \o t)[i] = IF i <= n THEN s[i] ELSE t[i - n]
    BY <1>6
  <2>2. i \in 1 .. n \/ (i \in n + 1 .. n + m /\ ~ (i <= n))
    <3> HIDE DEF n, m
    <3> QED
      BY <1>1
  <2>3. i \in 1 .. n => i <= n
    <3> HIDE DEF n, m
    <3> QED
      BY <1>1
  <2> QED
    BY <1>7, <1>8, <2>1, <2>2, <2>3
<1>10. InOrder(S) = s \o t
  <2> HIDE DEF S, n, m, s, t
  <2> DEFINE u == InOrder(S)
             v == s \o t
  <2>1. u \in Seq(S) /\ v \in Seq(S) /\ Len(u) = Len(v)
        /\ \A i \in 1 .. Len(u) : u[i] = v[i]
    BY <1>4, <1>6, <1>9
  <2> HIDE DEF u, v
  <2>2. u = v
    BY <2>1, SeqEqual
  <2> QED
    BY <2>2 DEF u, v
<1> QED
  BY <1>10

\* What comes before a point is the beginning of the whole.
LEMMA InOrderPrefix ==
  ASSUME NEW S, S \subseteq Int, IsFiniteSet(S), NEW c \in Int
  PROVE  /\ IsFiniteSet(Below(S, c))
         /\ Cardinality(Below(S, c)) \in 0 .. Cardinality(S)
         /\ InOrder(Below(S, c)) = SubSeq(InOrder(S), 1, Cardinality(Below(S, c)))
<1> DEFINE A == Below(S, c)
           B == {x \in S : ~ (x < c)}
           s == InOrder(A)
           t == InOrder(B)
           k == Cardinality(A)
<1>1. A \in SUBSET S /\ B \in SUBSET S /\ S = A \cup B
  BY DEF Below
<1>2. /\ IsFiniteSet(A) /\ IsFiniteSet(B) /\ A \subseteq Int /\ B \subseteq Int
      /\ k <= Cardinality(S)
  BY <1>1, FS_Subset
<1>3. k \in Nat /\ Cardinality(S) \in Nat
  BY <1>2, FS_CardinalityType
<1>4. \A a \in A, b \in B : a < b
  BY SMT DEF Below
<1> HIDE DEF A, B
<1>5. InOrder(S) = s \o t
  BY <1>1, <1>2, <1>4, InOrderSplit
<1>6. s \in Seq(Int) /\ t \in Seq(Int) /\ Len(s) = k
  <2>1. s \in Seq(A) /\ t \in Seq(B) /\ Len(s) = k
    BY <1>2, InOrderPlaces
  <2>2. Seq(A) \subseteq Seq(Int) /\ Seq(B) \subseteq Seq(Int)
    BY <1>2, SeqMonotonic
  <2> HIDE DEF s, t, k
  <2> QED
    BY <2>1, <2>2
<1>7. SubSeq(s \o t, 1, k) = s
  <2> HIDE DEF s, t, k
  <2>1. CASE k = 0
    <3>1. s = <<>>
      BY <1>6, <2>1, EmptySeq
    <3>2. SubSeq(s \o t, 1, 0) = <<>>
      BY SubSeqEmpty
    <3> QED
      BY <2>1, <3>1, <3>2
  <2>2. CASE k # 0
    <3>1. 1 \in 1 .. Len(s) /\ k \in 1 .. Len(s)
      BY <1>3, <1>6, <2>2
    <3>2. SubSeq(s \o t, 1, k) = SubSeq(s, 1, k)
      BY <1>6, <3>1, SubSeqOfConcat1
    <3> QED
      BY <1>6, <3>2, SubSeqFull
  <2> QED
    BY <2>1, <2>2
<1>8. k \in 0 .. Cardinality(S)
  <2> HIDE DEF k
  <2> QED
    BY <1>2, <1>3
<1> QED
  BY <1>2, <1>5, <1>7, <1>8 DEF A, k, s

\* The last in order is the greatest.
LEMMA InOrderLast ==
  ASSUME NEW S, S \subseteq Int, IsFiniteSet(S), S # {}
  PROVE  /\ Len(InOrder(S)) \in Nat \ {0}
         /\ InOrder(S)[Len(InOrder(S))] \in S
         /\ \A x \in S : x <= InOrder(S)[Len(InOrder(S))]
<1> DEFINE n == Cardinality(S)
           m == InOrder(S)[n]
<1>1. n \in Nat /\ n # 0 /\ Len(InOrder(S)) = n /\ DOMAIN InOrder(S) = 1 .. n
  BY InOrderPlaces, FS_EmptySet
<1>2. n \in 1 .. n
  BY <1>1
<1>3. m \in S
  BY <1>2, InOrderPlaces
<1>4. ASSUME NEW x \in S PROVE x <= m
  <2>1. PICK i \in 1 .. n : InOrder(S)[i] = x
    BY <1>1, InOrderHasAll
  <2>2. CASE i = n
    BY <1>3, <2>1, <2>2
  <2>3. CASE i # n
    <3>1. i < n
      <4> HIDE DEF n
      <4> QED
        BY <1>1, <2>3
    <3>2. InOrder(S)[i] < m
      BY <1>1, <1>2, <3>1, InOrderAscends
    <3> HIDE DEF m
    <3> QED
      BY <1>3, <2>1, <3>2
  <2> QED
    BY <2>2, <2>3
<1> HIDE DEF n
<1> QED
  BY <1>1, <1>3, <1>4 DEF m

\* What is put in order has the elements of the set.
LEMMA InOrderRange ==
  ASSUME NEW S, S \subseteq Int, IsFiniteSet(S)
  PROVE  {InOrder(S)[i] : i \in DOMAIN InOrder(S)} = S
<1>1. \A i \in DOMAIN InOrder(S) : InOrder(S)[i] \in S
  BY InOrderPlaces
<1>2. \A x \in S : \E i \in DOMAIN InOrder(S) : InOrder(S)[i] = x
  BY InOrderHasAll
<1> QED
  BY <1>1, <1>2
-----------------------------------------------------------------------------
(***************************************************************************)
(* Sums.  The function that Total defines by recursion exists, because a   *)
(* first length at which it did not would have a predecessor at which it   *)
(* does; and it is the only one, because there is no first place at which  *)
(* two of them differ.                                                     *)
(***************************************************************************)
LEMMA LeastElement ==
  ASSUME NEW n \in Nat, NEW T, T \subseteq 0 .. n, T # {}
  PROVE  \E x \in T : \A y \in T : x <= y
<1>1. T \in SUBSET (0 .. n) /\ IsFiniteSet(0 .. n)
  <2>1. 0 \in Int /\ n \in Int
    OBVIOUS
  <2> QED
    BY <2>1, FS_Interval
<1>2. IsFiniteSet(T) /\ T \subseteq Int
  <2>1. IsFiniteSet(T)
    BY <1>1, FS_Subset
  <2>2. \A x \in 0 .. n : x \in Int
    OBVIOUS
  <2> QED
    BY <1>1, <2>1, <2>2
<1>3. Cardinality(T) \in Nat /\ Cardinality(T) # 0
  BY <1>2, FS_CardinalityType, FS_EmptySet
<1>4. 1 \in 1 .. Cardinality(T)
  BY <1>3
<1>5. PICK x \in T : Cardinality(Below(T, x)) = 1 - 1
  BY <1>2, <1>4, PlaceTaken
<1>6. Below(T, x) = {}
  <2>1. Below(T, x) \in SUBSET T
    BY DEF Below
  <2>2. IsFiniteSet(Below(T, x)) /\ Cardinality(Below(T, x)) = 0
    BY <1>2, <1>5, <2>1, FS_Subset
  <2> QED
    BY <2>2, FS_EmptySet
<1>7. ASSUME NEW y \in T PROVE x <= y
  <2>1. ~ (y < x) /\ x \in Int /\ y \in Int
    BY <1>2, <1>6 DEF Below
  <2> QED
    BY <2>1
<1> QED
  BY <1>7

\* A value that is taken on from place to place, by the function turn[i] at i.
Follows(f, n, start, turn) ==
  f[0] = start /\ \A i \in 1 .. n : f[i] = turn[i][f[i - 1]]

LEMMA RecursionExists ==
  ASSUME NEW n \in Nat, NEW A, NEW start \in A, NEW turn \in [1 .. n -> [A -> A]]
  PROVE  \E f \in [0 .. n -> A] : Follows(f, n, start, turn)
<1> DEFINE T == {k \in 0 .. n : ~ \E f \in [0 .. k -> A] : Follows(f, k, start, turn)}
<1> SUFFICES ASSUME T # {} PROVE FALSE
  <2>1. n \in 0 .. n
    OBVIOUS
  <2> QED
    BY <2>1
<1>1. PICK k \in T : \A j \in T : k <= j
  <2>1. T \subseteq 0 .. n
    OBVIOUS
  <2> HIDE DEF T
  <2> QED
    BY <2>1, LeastElement
<1>2. k \in 0 .. n /\ ~ \E f \in [0 .. k -> A] : Follows(f, k, start, turn)
  OBVIOUS
<1>3. CASE k = 0
  <2> DEFINE f == [i \in 0 .. 0 |-> start]
  <2>1. f \in [0 .. 0 -> A] /\ Follows(f, 0, start, turn)
    BY DEF Follows
  <2> QED
    BY <1>2, <1>3, <2>1
<1>4. CASE k # 0
  <2>1. k - 1 \in 0 .. n /\ ~ (k <= k - 1) /\ k \in 1 .. n
    BY <1>2, <1>4
  <2>2. PICK g \in [0 .. k - 1 -> A] : Follows(g, k - 1, start, turn)
    BY <1>1, <2>1
  <2> DEFINE f == [i \in 0 .. k |-> IF i = k THEN turn[k][g[k - 1]] ELSE g[i]]
  <2>3. k - 1 \in 0 .. k - 1 /\ k \in Nat
    BY <2>1
  <2>4. turn[k][g[k - 1]] \in A
    BY <2>1, <2>2, <2>3
  <2>5. f \in [0 .. k -> A]
    <3> SUFFICES ASSUME NEW i \in 0 .. k, i # k PROVE g[i] \in A
      BY <2>4
    <3>1. i \in 0 .. k - 1
      BY <2>3
    <3> QED
      BY <2>2, <3>1
  <2>6. f[0] = start
    <3>1. 0 \in 0 .. k /\ 0 # k
      BY <1>4, <2>3
    <3> QED
      BY <2>2, <3>1 DEF Follows
  <2>7. ASSUME NEW i \in 1 .. k PROVE f[i] = turn[i][f[i - 1]]
    <3>1. i \in 0 .. k /\ i - 1 \in 0 .. k /\ i - 1 # k
      BY <2>3
    <3>2. f[i - 1] = g[i - 1]
      BY <3>1
    <3>3. CASE i = k
      BY <3>1, <3>2, <3>3
    <3>4. CASE i # k
      <4>1. i \in 1 .. k - 1
        BY <2>3, <3>4
      <4> QED
        BY <2>2, <3>1, <3>2, <3>4, <4>1 DEF Follows
    <3> QED
      BY <3>3, <3>4
  <2> HIDE DEF f
  <2>8. Follows(f, k, start, turn)
    BY <2>6, <2>7 DEF Follows
  <2> QED
    BY <1>2, <2>5, <2>8
<1> QED
  BY <1>3, <1>4

\* One turn of a loop that carries a member of A over a list of members of B;
\* and the steps of the loop.
Turns(A, B) == [A -> [B -> A]]

Turned(step, a, e) == step[a][e]

IsLoop(A, B, step, start, list) ==
  step \in Turns(A, B) /\ start \in A /\ list \in Seq(B)

Carries(f, A, n) == f \in [0 .. n -> A]

Loops(f, step, start, list) ==
  f[0] = start /\ \A i \in 1 .. Len(list) : f[i] = step[f[i - 1]][list[i]]

LEMMA FoldedLoops ==
  ASSUME NEW A, NEW B, NEW step, NEW start, NEW list, IsLoop(A, B, step, start, list)
  PROVE  \E f : /\ Loops(f, step, start, list) /\ Carries(f, A, Len(list))
                /\ Folded(step, start, list) = f[Len(list)]
<1> DEFINE n == Len(list)
           Rec(h) == h = [i \in 0 .. n |-> IF i = 0 THEN start ELSE step[h[i - 1]][list[i]]]
           after == CHOOSE h : Rec(h)
           turn == [i \in 1 .. n |-> [x \in A |-> step[x][list[i]]]]
<1>1. /\ n \in Nat /\ list \in [1 .. n -> B]
      /\ start \in A /\ step \in Turns(A, B)
  BY LenProperties DEF IsLoop
<1>2. Folded(step, start, list) = after[n]
  BY DEF Folded
<1>3. turn \in [1 .. n -> [A -> A]]
  BY <1>1 DEF Turns
<1>4. \A i \in 1 .. n, x \in A : turn[i][x] = step[x][list[i]]
  OBVIOUS
<1> HIDE DEF n, turn
<1>5. PICK f \in [0 .. n -> A] : Follows(f, n, start, turn)
  BY <1>1, <1>3, RecursionExists
<1>6. f[0] = start /\ \A i \in 1 .. n : f[i] = step[f[i - 1]][list[i]]
  <2> SUFFICES ASSUME NEW i \in 1 .. n PROVE f[i] = step[f[i - 1]][list[i]]
    BY <1>5 DEF Follows
  <2>1. i - 1 \in 0 .. n
    BY <1>1
  <2> QED
    BY <1>4, <1>5, <2>1 DEF Follows
<1>7. Rec(f)
  <2>1. ASSUME NEW i \in 0 .. n
        PROVE  f[i] = IF i = 0 THEN start ELSE step[f[i - 1]][list[i]]
    <3>1. i = 0 \/ i \in 1 .. n
      BY <1>1
    <3> QED
      BY <1>1, <1>6, <3>1
  <2> QED
    BY <2>1
<1>8. Rec(after)
  <2> HIDE DEF Rec
  <2> QED
    BY <1>7
<1> HIDE DEF after
<1>9. /\ after \in [0 .. n -> A] /\ after[0] = start
      /\ \A i \in 1 .. n : after[i] = step[after[i - 1]][list[i]]
  <2> DEFINE T == {i \in 0 .. n : after[i] # f[i]}
  <2>1. T = {}
    <3> SUFFICES ASSUME T # {} PROVE FALSE
      OBVIOUS
    <3>1. PICK k \in T : \A j \in T : k <= j
      <4>1. T \subseteq 0 .. n
        OBVIOUS
      <4> HIDE DEF T
      <4> QED
        BY <1>1, <4>1, LeastElement
    <3>2. k \in 0 .. n /\ after[k] # f[k]
      OBVIOUS
    <3>3. after[k] = IF k = 0 THEN start ELSE step[after[k - 1]][list[k]]
      BY <1>8, <3>2
    <3>4. k # 0 /\ k \in 1 .. n
      BY <1>1, <1>6, <3>2, <3>3
    <3>5. k - 1 \in 0 .. n /\ ~ (k <= k - 1)
      BY <1>1, <3>4
    <3>6. after[k - 1] = f[k - 1]
      BY <3>1, <3>5
    <3> QED
      BY <1>6, <3>2, <3>3, <3>4, <3>6
  <2>2. \A i \in 0 .. n : after[i] = f[i]
    BY <2>1
  <2>3. DOMAIN after = 0 .. n
    BY <1>8
  <2>4. after = [i \in 0 .. n |-> IF i = 0 THEN start ELSE step[after[i - 1]][list[i]]]
    BY <1>8
  <2>5. f = [i \in 0 .. n |-> f[i]]
    OBVIOUS
  <2>6. after = f
    BY <2>2, <2>4, <2>5, <1>7
  <2> QED
    BY <1>6, <2>6
<1> QED
  BY <1>2, <1>9 DEF Loops, Carries, n

SameUpTo(s, t, n) ==
  n <= Len(s) /\ n <= Len(t) /\ \A i \in 1 .. n : s[i] = t[i]

\* A loop is unique in what it comes to, and goes on where it stopped.
LEMMA LoopsAgree ==
  ASSUME NEW step, NEW start, NEW s, NEW t, NEW n \in Nat, NEW f, NEW g,
         Len(s) \in Nat, Len(t) \in Nat, SameUpTo(s, t, n),
         Loops(f, step, start, s), Loops(g, step, start, t)
  PROVE  f[n] = g[n]
<1> DEFINE T == {i \in 0 .. n : f[i] # g[i]}
<1>1. T = {}
  <2> SUFFICES ASSUME T # {} PROVE FALSE
    OBVIOUS
  <2>1. PICK k \in T : \A j \in T : k <= j
    <3>1. T \subseteq 0 .. n
      OBVIOUS
    <3> HIDE DEF T
    <3> QED
      BY <3>1, LeastElement
  <2>2. k \in 0 .. n /\ f[k] # g[k]
    OBVIOUS
  <2>3. k # 0
    BY <2>2 DEF Loops
  <2>4. /\ k \in 1 .. n /\ k - 1 \in 0 .. n /\ ~ (k <= k - 1)
        /\ k \in 1 .. Len(s) /\ k \in 1 .. Len(t)
    BY <2>2, <2>3 DEF SameUpTo
  <2>5. f[k - 1] = g[k - 1]
    BY <2>1, <2>4
  <2> QED
    BY <2>2, <2>4, <2>5 DEF Loops, SameUpTo
<1> QED
  BY <1>1

LEMMA FoldedAppend ==
  ASSUME NEW A, NEW B, NEW step, NEW start, NEW list, IsLoop(A, B, step, start, list),
         NEW e \in B
  PROVE  /\ Folded(step, start, list) \in A
         /\ Folded(step, start, Append(list, e)) =
              Turned(step, Folded(step, start, list), e)
<1> DEFINE n == Len(list)
           t == Append(list, e)
<1>1. n \in Nat /\ n \in 0 .. n /\ n + 1 \in 1 .. n + 1 /\ n <= n + 1
  BY LenProperties DEF IsLoop
<1>2. /\ t \in Seq(B) /\ Len(t) = n + 1 /\ t[n + 1] = e
      /\ \A i \in 1 .. n : t[i] = list[i]
  BY AppendProperties DEF IsLoop
<1> HIDE DEF t
<1>3. PICK f : /\ Loops(f, step, start, list) /\ Carries(f, A, n)
               /\ Folded(step, start, list) = f[n]
  BY FoldedLoops
<1>8. f[n] \in A
  BY <1>1, <1>3 DEF Carries
<1>4. PICK g : Loops(g, step, start, t) /\ Folded(step, start, t) = g[Len(t)]
  <2>1. IsLoop(A, B, step, start, t)
    BY <1>2 DEF IsLoop
  <2> QED
    BY <2>1, FoldedLoops
<1> HIDE DEF n
<1>5. g[n] = f[n]
  <2>1. n \in Nat /\ Len(list) \in Nat /\ Len(t) \in Nat /\ n <= Len(list) /\ n <= Len(t)
    BY <1>1, <1>2 DEF n
  <2>2. SameUpTo(list, t, n)
    BY <1>2, <2>1 DEF SameUpTo
  <2>3. Loops(f, step, start, list) /\ Loops(g, step, start, t)
    BY <1>3, <1>4
  <2>4. f[n] = g[n]
    BY <2>1, <2>2, <2>3, LoopsAgree
  <2> QED
    BY <2>4
<1>6. g[n + 1] = step[g[n + 1 - 1]][t[n + 1]]
  BY <1>1, <1>2, <1>4 DEF Loops
<1>7. n + 1 - 1 = n
  BY <1>1
<1> QED
  BY <1>1, <1>2, <1>3, <1>4, <1>5, <1>6, <1>7, <1>8 DEF t, Turned

LEMMA FoldedEmpty ==
  ASSUME NEW A, NEW B, NEW step, NEW start, IsLoop(A, B, step, start, <<>>)
  PROVE  Folded(step, start, <<>>) = start
<1>1. Len(<<>>) = 0
  OBVIOUS
<1>2. PICK f : Loops(f, step, start, <<>>) /\ Folded(step, start, <<>>) = f[Len(<<>>)]
  BY FoldedLoops
<1> QED
  BY <1>1, <1>2 DEF Loops

\* A sum is a loop that adds.
Adds == [a \in Int |-> [e \in Int |-> a + e]]

LEMMA TotalFolds ==
  /\ \A list \in Seq(Int) : IsLoop(Int, Int, Adds, 0, list)
  /\ \A list : Total(list) = Folded(Adds, 0, list)
  /\ \A a, e \in Int : Adds[a][e] = a + e
  BY DEF Adds, Turns, Total, IsLoop

LEMMA TotalLoops ==
  ASSUME NEW s \in Seq(Int)
  PROVE  \E f : /\ Loops(f, Adds, 0, s) /\ Carries(f, Int, Len(s))
                /\ Folded(Adds, 0, s) = f[Len(s)]
<1>1. IsLoop(Int, Int, Adds, 0, s)
  BY TotalFolds
<1> QED
  BY <1>1, FoldedLoops

LEMMA TotalEmpty == Total(<<>>) = 0
<1>1. <<>> \in Seq(Int) /\ Len(<<>>) = 0
  BY EmptySeq
<1>2. PICK f : Loops(f, Adds, 0, <<>>) /\ Folded(Adds, 0, <<>>) = f[Len(<<>>)]
  BY <1>1, TotalLoops
<1> QED
  BY <1>1, <1>2, TotalFolds DEF Loops

LEMMA TotalInt ==
  ASSUME NEW s \in Seq(Int)
  PROVE  Total(s) \in Int
<1>1. IsLoop(Int, Int, Adds, 0, s) /\ 0 \in Int
  BY TotalFolds
<1>2. Folded(Adds, 0, s) \in Int
  BY <1>1, FoldedAppend
<1> QED
  BY <1>2, TotalFolds

LEMMA TotalAppend ==
  ASSUME NEW s \in Seq(Int), NEW e \in Int
  PROVE  Total(Append(s, e)) = Total(s) + e
<1>1. IsLoop(Int, Int, Adds, 0, s)
  BY TotalFolds
<1>2. Folded(Adds, 0, Append(s, e)) = Turned(Adds, Folded(Adds, 0, s), e)
  BY <1>1, FoldedAppend
<1> QED
  BY <1>2, TotalFolds, TotalInt DEF Turned

\* The partial sums of a list, and its sum as the last of them.
SumsUp(f, s, n) ==
  /\ f \in [0 .. n -> Int] /\ f[0] = 0
  /\ \A i \in 1 .. n : f[i] = f[i - 1] + s[i]

LEMMA SumsExist ==
  ASSUME NEW s \in Seq(Int)
  PROVE  \E f : SumsUp(f, s, Len(s))
<1>1. PICK f : Loops(f, Adds, 0, s) /\ Carries(f, Int, Len(s))
  BY TotalLoops
<1>2. Len(s) \in Nat /\ s \in [1 .. Len(s) -> Int]
  BY LenProperties
<1>3. ASSUME NEW i \in 1 .. Len(s) PROVE f[i] = f[i - 1] + s[i]
  <2>1. i - 1 \in 0 .. Len(s) /\ s[i] \in Int
    BY <1>2
  <2>2. f[i - 1] \in Int
    BY <1>1, <2>1 DEF Carries
  <2> QED
    BY <1>1, <2>1, <2>2, TotalFolds DEF Loops
<1> QED
  BY <1>1, <1>3 DEF Carries, Loops, SumsUp

LEMMA TotalSums ==
  ASSUME NEW s \in Seq(Int), NEW f, SumsUp(f, s, Len(s))
  PROVE  Total(s) = f[Len(s)]
<1>1. Len(s) \in Nat /\ s \in [1 .. Len(s) -> Int]
  BY LenProperties
<1>2. ASSUME NEW i \in 1 .. Len(s) PROVE f[i] = Adds[f[i - 1]][s[i]]
  <2>1. i - 1 \in 0 .. Len(s) /\ s[i] \in Int
    BY <1>1
  <2>2. f[i - 1] \in Int
    BY <2>1 DEF SumsUp
  <2> QED
    BY <2>1, <2>2, TotalFolds DEF SumsUp
<1>3. Loops(f, Adds, 0, s)
  BY <1>2 DEF Loops, SumsUp
<1>4. PICK g : Loops(g, Adds, 0, s) /\ Folded(Adds, 0, s) = g[Len(s)]
  BY TotalLoops
<1>5. SameUpTo(s, s, Len(s))
  BY <1>1 DEF SameUpTo
<1>6. f[Len(s)] = g[Len(s)]
  BY <1>1, <1>3, <1>4, <1>5, LoopsAgree
<1> QED
  BY <1>4, <1>6, TotalFolds

\* The sum of a list with another term in a place.
LEMMA TotalExcept ==
  ASSUME NEW s \in Seq(Int), NEW t \in Seq(Int), Len(t) = Len(s), NEW k \in 1 .. Len(s),
         \A i \in 1 .. Len(s) : i # k => t[i] = s[i]
  PROVE  Total(t) = Total(s) + (t[k] - s[k])
<1> DEFINE n == Len(s)
           d == t[k] - s[k]
<1>1. n \in Nat /\ n \in 0 .. n
  BY LenProperties
<1>2. k \in 1 .. n /\ d \in Int /\ \A i \in 1 .. n : s[i] \in Int /\ t[i] \in Int
  <2>1. s \in [1 .. n -> Int] /\ t \in [1 .. n -> Int]
    BY LenProperties
  <2> QED
    BY <2>1
<1>3. PICK f : SumsUp(f, s, n)
  BY <1>1, SumsExist
<1>4. Total(s) = f[n]
  BY <1>3, TotalSums
<1>5. /\ f \in [0 .. n -> Int] /\ f[0] = 0
      /\ \A i \in 1 .. n : f[i] = f[i - 1] + s[i]
  BY <1>3 DEF SumsUp
<1> DEFINE g == [i \in 0 .. n |-> IF i < k THEN f[i] ELSE f[i] + d]
<1>6. \A i \in 1 .. n : i # k => t[i] = s[i]
  OBVIOUS
<1>7. t[k] = s[k] + d
  BY <1>2
<1> HIDE DEF n, d
<1>8. g \in [0 .. n -> Int] /\ g[0] = 0
  <2>1. 0 \in 0 .. n /\ 0 < k
    BY <1>1, <1>2
  <2> QED
    BY <1>2, <1>5, <2>1
<1>9. ASSUME NEW i \in 1 .. n PROVE g[i] = g[i - 1] + t[i]
  <2>1. /\ i \in 0 .. n /\ i - 1 \in 0 .. n /\ f[i] = f[i - 1] + s[i]
        /\ f[i - 1] \in Int /\ s[i] \in Int /\ k \in Int /\ i \in Int
    BY <1>1, <1>2, <1>5
  <2>2. CASE i < k
    <3>1. i - 1 < k /\ i # k
      BY <2>1, <2>2
    <3> QED
      BY <1>6, <2>1, <2>2, <3>1
  <2>3. CASE i = k
    <3>1. i - 1 < k /\ ~ (i < k)
      BY <2>1, <2>3
    <3>2. g[i] = f[i] + d /\ g[i - 1] = f[i - 1]
      BY <2>1, <3>1
    <3> HIDE DEF g
    <3> QED
      BY <1>2, <1>7, <2>1, <2>3, <3>2
  <2>4. CASE i > k
    <3>1. ~ (i - 1 < k) /\ ~ (i < k) /\ i # k
      BY <2>1, <2>4
    <3>2. g[i] = f[i] + d /\ g[i - 1] = f[i - 1] + d /\ t[i] = s[i]
      BY <1>6, <2>1, <3>1
    <3> HIDE DEF g
    <3> QED
      BY <1>2, <2>1, <3>2
  <2> QED
    BY <2>1, <2>2, <2>3, <2>4
<1>10. g[n] = f[n] + d
  BY <1>1, <1>2
<1> HIDE DEF g
<1>11. SumsUp(g, t, n)
  BY <1>8, <1>9 DEF SumsUp
<1>12. Total(t) = g[n]
  BY <1>11, TotalSums DEF n
<1> QED
  BY <1>4, <1>10, <1>12 DEF d

-----------------------------------------------------------------------------
(***************************************************************************)
(* Lists sorted by a key.  What is sorted takes its elements from the      *)
(* places `at' of the list, every place once and in the order of the keys. *)
(***************************************************************************)
KeyLess(keys, n) == {e \in (1 .. n) \X (1 .. n) : Precedes(keys, e[1], e[2])}

LEMMA KeyOrder ==
  ASSUME NEW n \in Nat, NEW keys \in [1 .. n -> Int]
  PROVE  /\ IsOrder(KeyLess(keys, n), 1 .. n)
         /\ \A x, y \in 1 .. n : Precedes(keys, x, y) <=> <<x, y>> \in KeyLess(keys, n)
         /\ \A x \in 1 .. n : Before(KeyLess(keys, n), 1 .. n, x) =
                                {j \in 1 .. n : Precedes(keys, j, x)}
         /\ IsFiniteSet(1 .. n) /\ Cardinality(1 .. n) = n
<1>1. \A x, y \in 1 .. n : Precedes(keys, x, y) <=> <<x, y>> \in KeyLess(keys, n)
  BY DEF KeyLess
<1>2. \A x \in 1 .. n : x \in Int /\ keys[x] \in Int
  OBVIOUS
<1>3. \A x \in 1 .. n : ~ Precedes(keys, x, x)
  BY <1>2, SMT DEF Precedes
<1>4. \A x, y, z \in 1 .. n : Precedes(keys, x, y) /\ Precedes(keys, y, z) => Precedes(keys, x, z)
  BY <1>2, SMT DEF Precedes
<1>5. \A x, y \in 1 .. n : x # y => Precedes(keys, x, y) \/ Precedes(keys, y, x)
  BY <1>2, SMT DEF Precedes
<1>6. IsOrder(KeyLess(keys, n), 1 .. n)
  BY <1>1, <1>3, <1>4, <1>5, Zenon DEF IsOrder
<1>7. \A x \in 1 .. n : Before(KeyLess(keys, n), 1 .. n, x) =
                          {j \in 1 .. n : Precedes(keys, j, x)}
  BY <1>1 DEF Before
<1>8. IsFiniteSet(1 .. n) /\ Cardinality(1 .. n) = n
  <2>1. 1 \in Int /\ n \in Int /\ n >= 1 - 1
    OBVIOUS
  <2>2. IsFiniteSet(1 .. n) /\ Cardinality(1 .. n) = IF 1 > n THEN 0 ELSE n - 1 + 1
    BY <2>1, FS_Interval
  <2> QED
    BY <2>1, <2>2
<1> QED
  BY <1>1, <1>6, <1>7, <1>8

\* The places of a list in the order of its keys.
Sorts(at, keys, n) ==
  /\ at \in [1 .. n -> 1 .. n]
  /\ \A p, q \in 1 .. n : p < q => at[p] # at[q] /\ Precedes(keys, at[p], at[q])
  /\ \A i \in 1 .. n : \E p \in 1 .. n : at[p] = i

LEMMA SortedPlaces ==
  ASSUME NEW n \in Nat, NEW keys \in [1 .. n -> Int], NEW list, DOMAIN list = 1 .. n
  PROVE  \E at : Sorts(at, keys, n) /\ Sorted(list, keys) = [p \in 1 .. n |-> list[at[p]]]
<1> DEFINE S == 1 .. n
           R == KeyLess(keys, n)
           rank(i) == Cardinality(Before(R, S, i))
           at == [p \in S |-> CHOOSE i \in S : rank(i) = p - 1]
<1>1. /\ IsOrder(R, S) /\ IsFiniteSet(S) /\ Cardinality(S) = n
      /\ \A x, y \in S : Precedes(keys, x, y) <=> <<x, y>> \in R
      /\ \A x \in S : Before(R, S, x) = {j \in S : Precedes(keys, j, x)}
  BY KeyOrder
<1>2. Sorted(list, keys) = [p \in S |-> list[at[p]]]
  <2>1. \A i \in S : Cardinality({j \in S : Precedes(keys, j, i)}) = rank(i)
    BY <1>1
  <2>2. \A p \in S : (CHOOSE i \in S : Cardinality({j \in S : Precedes(keys, j, i)}) = p - 1)
                       = at[p]
    BY <2>1
  <2>3. Sorted(list, keys) =
          [p \in S |-> list[CHOOSE i \in S :
                              Cardinality({j \in S : Precedes(keys, j, i)}) = p - 1]]
    BY DEF Sorted
  <2> HIDE DEF at
  <2> QED
    BY <2>2, <2>3
<1>3. ASSUME NEW p \in S PROVE at[p] \in S /\ rank(at[p]) = p - 1
  <2>1. \E i \in S : rank(i) = p - 1
    <3>1. p \in 1 .. Cardinality(S)
      BY <1>1
    <3> HIDE DEF S, R
    <3> QED
      BY <1>1, <3>1, BeforeTaken
  <2> HIDE DEF rank
  <2> QED
    BY <2>1
<1>4. at \in [S -> S]
  <2>1. at = [p \in S |-> at[p]]
    OBVIOUS
  <2> HIDE DEF at
  <2> QED
    BY <1>3, <2>1
<1>5. ASSUME NEW p \in S, NEW q \in S, p < q
      PROVE  at[p] # at[q] /\ Precedes(keys, at[p], at[q])
  <2>1. at[p] \in S /\ at[q] \in S /\ rank(at[p]) = p - 1 /\ rank(at[q]) = q - 1
    BY <1>3
  <2> DEFINE a == at[p]
             b == at[q]
  <2> HIDE DEF a, b, at
  <2>2. a \in S /\ b \in S /\ rank(a) = p - 1 /\ rank(b) = q - 1
    BY <2>1 DEF a, b
  <2>3. ~ (rank(b) < rank(a)) /\ rank(a) # rank(b)
    <3> HIDE DEF rank
    <3> QED
      BY <1>5, <2>2
  <2>4. a # b
    BY <2>3
  <2>5. <<b, a>> \notin R
    <3> SUFFICES ASSUME <<b, a>> \in R PROVE FALSE
      OBVIOUS
    <3> HIDE DEF S, R
    <3>1. Cardinality(Before(R, S, b)) < Cardinality(Before(R, S, a))
      BY <1>1, <2>2, BeforeRises
    <3> QED
      BY <2>3, <3>1
  <2>6. <<a, b>> \in R
    BY <1>1, <2>2, <2>4, <2>5, Zenon DEF IsOrder
  <2> QED
    BY <1>1, <2>2, <2>4, <2>6 DEF a, b
<1>6. ASSUME NEW i \in S PROVE \E p \in S : at[p] = i
  <2>1. rank(i) \in 0 .. n - 1
    <3> HIDE DEF S, R
    <3>1. Cardinality(Before(R, S, i)) \in 0 .. Cardinality(S) - 1
      BY <1>1, BeforeRange
    <3> QED
      BY <1>1, <3>1
  <2> DEFINE p == rank(i) + 1
  <2>2. p \in S /\ p - 1 = rank(i)
    <3> HIDE DEF rank
    <3> QED
      BY <2>1
  <2> HIDE DEF p
  <2>3. at[p] \in S /\ rank(at[p]) = rank(i)
    BY <1>3, <2>2
  <2> DEFINE a == at[p]
  <2> HIDE DEF a, at
  <2>4. a \in S /\ Cardinality(Before(R, S, a)) = Cardinality(Before(R, S, i))
    BY <2>3 DEF a
  <2>5. a = i
    <3> HIDE DEF S, R
    <3> QED
      BY <1>1, <2>4, BeforeDiffer
  <2> QED
    BY <2>2, <2>5 DEF a
<1> HIDE DEF at
<1>7. Sorts(at, keys, n)
  BY <1>4, <1>5, <1>6 DEF Sorts
<1> QED
  BY <1>2, <1>7

\* What ascends from 1 .. k onto 1 .. m leaves every number where it is.
AscendsOnto(g, k, m) ==
  /\ g \in [1 .. k -> 1 .. m]
  /\ \A p, q \in 1 .. k : p < q => g[p] < g[q]
  /\ \A i \in 1 .. m : \E p \in 1 .. k : g[p] = i

LEMMA AscentIsIdentity ==
  ASSUME NEW k \in Nat, NEW m \in Nat, NEW g, AscendsOnto(g, k, m)
  PROVE  k = m /\ \A p \in 1 .. k : g[p] = p
<1> DEFINE T == {p \in 1 .. k : g[p] # p}
<1>0. /\ g \in [1 .. k -> 1 .. m]
      /\ \A p, q \in 1 .. k : p < q => g[p] < g[q]
      /\ \A i \in 1 .. m : \E p \in 1 .. k : g[p] = i
  BY DEF AscendsOnto
<1>1. T = {}
  <2> SUFFICES ASSUME T # {} PROVE FALSE
    OBVIOUS
  <2>1. PICK j \in T : \A i \in T : j <= i
    <3>1. T \subseteq 0 .. k
      OBVIOUS
    <3> HIDE DEF T
    <3> QED
      BY <3>1, LeastElement
  <2>2. j \in 1 .. k /\ g[j] # j /\ g[j] \in 1 .. m
    BY <1>0
  <2>3. \A i \in 1 .. k : i < j => g[i] = i
    BY <2>1
  <2>4. g[j] > j
    <3>1. CASE j = 1
      BY <2>2, <3>1
    <3>2. CASE j # 1
      <4>1. j - 1 \in 1 .. k /\ j - 1 < j
        BY <2>2, <3>2
      <4>2. g[j - 1] = j - 1 /\ g[j - 1] < g[j]
        BY <1>0, <2>2, <2>3, <4>1
      <4> QED
        BY <2>2, <4>2
    <3> QED
      BY <3>1, <3>2
  <2>5. j \in 1 .. m
    BY <2>2, <2>4
  <2>6. PICK i \in 1 .. k : g[i] = j
    BY <1>0, <2>5
  <2>7. i < j => g[i] = i
    BY <2>3
  <2>8. j < i => g[j] < g[i]
    BY <1>0, <2>2
  <2>9. i < j \/ i = j \/ j < i
    BY <2>2
  <2> QED
    BY <1>0, <2>2, <2>4, <2>6, <2>7, <2>8, <2>9
<1>2. \A p \in 1 .. k : g[p] = p
  BY <1>1
<1>3. \A i \in 1 .. m : i \in 1 .. k
  BY <1>0, <1>2
<1>4. \A i \in 1 .. k : i \in 1 .. m
  BY <1>0, <1>2
<1>5. k = m
  <2>1. m <= k
    <3>1. m # 0 => m \in 1 .. m
      OBVIOUS
    <3>2. m # 0 => m \in 1 .. k
      BY <1>3, <3>1
    <3> QED
      BY <3>2
  <2>2. k <= m
    <3>1. k # 0 => k \in 1 .. k
      OBVIOUS
    <3>2. k # 0 => k \in 1 .. m
      BY <1>4, <3>1
    <3> QED
      BY <3>2
  <2> QED
    BY <2>1, <2>2
<1> QED
  BY <1>2, <1>5

Taken(list, at, n) == [p \in 1 .. n |-> list[at[p]]]

PlacesUpTo(at, n, m) == {p \in 1 .. n : at[p] \in 1 .. m}

Rises(keys, m) == \A i, j \in 1 .. m : i < j => keys[i] <= keys[j]

\* A beginning of a list that is in order already comes out of the sorted list
\* as it was.
LEMMA KeptFront ==
  ASSUME NEW n \in Nat, NEW keys \in [1 .. n -> Int], NEW m \in 0 .. n, Rises(keys, m),
         NEW at, Sorts(at, keys, n), NEW list
  PROVE  /\ DOMAIN Kept(Taken(list, at, n), PlacesUpTo(at, n, m)) = 1 .. m
         /\ \A i \in 1 .. m : Kept(Taken(list, at, n), PlacesUpTo(at, n, m))[i] = list[i]
<1> DEFINE sorted == Taken(list, at, n)
           K == PlacesUpTo(at, n, m)
           o == InOrder(K)
           k == Cardinality(K)
           g == [i \in 1 .. k |-> at[o[i]]]
<1>1. K \subseteq Int /\ IsFiniteSet(K) /\ \A p \in K : p \in 1 .. n /\ at[p] \in 1 .. m
  <2>1. K \in SUBSET (1 .. n) /\ IsFiniteSet(1 .. n)
    BY KeyOrder DEF PlacesUpTo
  <2>2. IsFiniteSet(K)
    BY <2>1, FS_Subset
  <2> QED
    BY <2>2 DEF PlacesUpTo
<1>2. \A p \in 1 .. n : at[p] \in 1 .. m => p \in K
  BY DEF PlacesUpTo
<1> HIDE DEF K
<1>3. /\ k \in Nat /\ DOMAIN o = 1 .. k
      /\ \A i \in 1 .. k : o[i] \in K
      /\ \A i, j \in 1 .. k : i < j => o[i] < o[j]
      /\ \A p \in K : \E i \in 1 .. k : o[i] = p
  <2>1. k \in Nat /\ DOMAIN o = 1 .. k /\ \A i \in 1 .. k : o[i] \in K
    BY <1>1, InOrderPlaces
  <2>2. \A i, j \in 1 .. k : i < j => o[i] < o[j]
    BY <1>1, <2>1, InOrderAscends
  <2>3. \A p \in K : \E i \in 1 .. k : o[i] = p
    BY <1>1, <2>1, InOrderHasAll
  <2> QED
    BY <2>1, <2>2, <2>3
<1> HIDE DEF o, k
<1>4. m \in Nat /\ \A i \in 1 .. m : i \in 1 .. n /\ i \in Int /\ keys[i] \in Int
  OBVIOUS
<1>5. g \in [1 .. k -> 1 .. m]
  BY <1>1, <1>3
<1>6. ASSUME NEW i \in 1 .. k, NEW j \in 1 .. k, i < j PROVE g[i] < g[j]
  <2> DEFINE a == g[i]
             b == g[j]
  <2>1. /\ a \in 1 .. m /\ b \in 1 .. m /\ a # b /\ Precedes(keys, a, b)
    <3>1. o[i] \in 1 .. n /\ o[j] \in 1 .. n /\ o[i] < o[j]
      BY <1>1, <1>3, <1>6
    <3>2. at[o[i]] # at[o[j]] /\ Precedes(keys, at[o[i]], at[o[j]])
      BY <3>1, Zenon DEF Sorts
    <3>3. a = at[o[i]] /\ b = at[o[j]]
      OBVIOUS
    <3>4. a \in 1 .. m /\ b \in 1 .. m
      BY <1>5
    <3> HIDE DEF a, b, g
    <3> QED
      BY <3>2, <3>3, <3>4
  <2> HIDE DEF a, b, g
  <2>2. b < a => keys[b] <= keys[a]
    BY <2>1 DEF Rises
  <2>3. a < b
    BY <1>4, <2>1, <2>2 DEF Precedes
  <2> QED
    BY <2>3 DEF a, b
<1>7. ASSUME NEW i \in 1 .. m PROVE \E j \in 1 .. k : g[j] = i
  <2>1. PICK p \in 1 .. n : at[p] = i
    BY <1>4 DEF Sorts
  <2>2. PICK j \in 1 .. k : o[j] = p
    BY <1>2, <1>3, <2>1
  <2> QED
    BY <2>1, <2>2
<1>8. k = m /\ \A i \in 1 .. k : g[i] = i
  <2> HIDE DEF g
  <2>1. AscendsOnto(g, k, m)
    <3>1. \A p, q \in 1 .. k : p < q => g[p] < g[q]
      BY <1>6
    <3>2. \A i \in 1 .. m : \E p \in 1 .. k : g[p] = i
      BY <1>7
    <3> QED
      BY <1>5, <3>1, <3>2 DEF AscendsOnto
  <2> QED
    BY <1>3, <1>4, <2>1, AscentIsIdentity, Zenon
<1>9. \A i \in 1 .. k : at[o[i]] = i /\ o[i] \in 1 .. n
  BY <1>1, <1>3, <1>8
<1>10. Kept(sorted, K) = [i \in 1 .. m |-> sorted[o[i]]]
  BY <1>3, <1>8 DEF Kept, o
<1>11. \A i \in 1 .. m : sorted[o[i]] = list[i]
  BY <1>8, <1>9 DEF Taken
<1> HIDE DEF sorted
<1> QED
  BY <1>10, <1>11 DEF sorted, K

-----------------------------------------------------------------------------
(***************************************************************************)
(* Fills, limits, orders and accounts.                                     *)
(***************************************************************************)
\* Products of naturals are naturals; the provers need to be told.
LEMMA ProductNat ==
  ASSUME NEW a \in Nat, NEW b \in Nat
  PROVE  a * b \in Nat
  BY SMT

LEMMA TimesGrows ==
  ASSUME NEW a \in Nat, NEW b \in Nat, NEW c \in Nat, a <= b
  PROVE  a * c <= b * c /\ c * a <= c * b
<1>1. (b - a) * c \in Nat
  BY ProductNat
<1> QED
  BY <1>1, SMT

\* A division that rounds down, as the notional cap uses it.
LEMMA FloorTimes ==
  ASSUME NEW a \in Nat, NEW p \in Nat \ {0}, NEW x \in Int,
         x <= a \div p
  PROVE  x * p <= a
<1>1. (a \div p) * p <= a
  BY SMT
<1>2. a \div p \in Int
  BY SMT
<1>3. x * p <= (a \div p) * p
  BY <1>2, SMT
<1> QED
  BY <1>1, <1>2, <1>3, SMT

\* Execution prices are natural numbers (live/equity_broker.py 49, 63).
LEMMA ExecPriceNat ==
  ASSUME NEW side \in Sides, NEW p \in Prices
  PROVE  ExecPrice(side, p) \in Nat
<1>1. p \in Nat /\ Scale + Slip \in Nat /\ Scale - Slip \in Nat
  BY PricesAssumption, ScaleAssumption, SlipAssumption, SMT
<1>2. p * (Scale + Slip) \in Nat /\ p * (Scale - Slip) \in Nat
  BY <1>1, ProductNat
<1> QED
  BY <1>2 DEF ExecPrice

LEMMA EquityInt ==
  ASSUME NEW cash \in Int, NEW shares \in Int, NEW p \in Prices
  PROVE  EquityAt(cash, shares, p) \in Int
<1>1. p \in Int /\ Scale \in Int
  BY PricesAssumption, ScaleAssumption, SMT
<1>2. shares * p * Scale \in Int
  BY <1>1, SMT
<1> QED
  BY <1>2, SMT DEF EquityAt

\* A clamped target is a natural number within both caps.
LEMMA ClampBounds ==
  ASSUME NEW want \in Nat, NEW p \in Prices
  PROVE  /\ Clamp(want, p) \in Nat
         /\ MaxPosition # None => Clamp(want, p) <= MaxPosition
         /\ MaxNotional # None => Clamp(want, p) * p <= MaxNotional
<1> DEFINE capped == IF MaxPosition # None /\ MaxPosition < want
                       THEN MaxPosition ELSE want
<1>0. p \in Nat \ {0}
  BY PricesAssumption
<1>1. capped \in Nat /\ (MaxPosition # None => capped <= MaxPosition)
  BY LimitsAssumption, SMT
<1>2. CASE MaxNotional = None
  BY <1>1, <1>2 DEF Clamp
<1>3. CASE MaxNotional # None
  <2>1. MaxNotional \in Nat
    BY <1>3, LimitsAssumption
  <2>2. MaxNotional \div p \in Nat
    BY <1>0, <2>1, SMT
  <2>3. /\ Clamp(want, p) \in {MaxNotional \div p, capped}
        /\ Clamp(want, p) <= MaxNotional \div p
        /\ Clamp(want, p) <= capped
    <3> HIDE DEF capped
    <3>1. Clamp(want, p) = IF MaxNotional \div p < capped
                             THEN MaxNotional \div p ELSE capped
      BY <1>3 DEF Clamp, capped
    <3> QED
      BY <3>1, <2>2, <1>1, SMT
  <2>4. Clamp(want, p) \in Nat
    BY <2>2, <2>3, <1>1
  <2>5. Clamp(want, p) * p <= MaxNotional
    BY <2>1, <2>3, <2>4, <1>0, FloorTimes
  <2>6. MaxPosition # None => Clamp(want, p) <= MaxPosition
    <3> HIDE DEF capped
    <3>1. SUFFICES ASSUME MaxPosition # None PROVE Clamp(want, p) <= MaxPosition
      OBVIOUS
    <3>2. MaxPosition \in Nat
      BY <3>1, LimitsAssumption
    <3> QED
      BY <3>1, <3>2, <2>3, <2>4, <1>1, SMT
  <2> QED
    BY <2>4, <2>5, <2>6
<1> QED
  BY <1>2, <1>3

\* What a verdict of check_pretrade that names a target guarantees.
LEMMA VerdictBounds ==
  ASSUME NEW want \in Int, NEW position \in Nat, NEW cash \in Int,
         NEW p \in Prices, NEW equity \in Int, NEW peak \in Int,
         NEW v, v = CheckPretrade(want, position, cash, p, equity, peak),
         v.target # None
  PROVE  /\ v.target \in Nat
         /\ ~ LossBreached(peak, equity)
         /\ MaxPosition # None => v.target <= MaxPosition
         /\ MaxNotional # None => v.target * p <= MaxNotional
<1> DEFINE goal == Clamp(want, p)
<1>1. want >= 0 /\ ~ LossBreached(peak, equity)
  BY DEF CheckPretrade
<1>2. /\ goal \in Nat
      /\ MaxPosition # None => goal <= MaxPosition
      /\ MaxNotional # None => goal * p <= MaxNotional
  BY <1>1, ClampBounds
<1>3. v.target = goal \/ (v.target = position /\ goal > position)
  BY <1>1 DEF CheckPretrade
<1> HIDE DEF goal
<1>4. CASE v.target = goal
  BY <1>1, <1>2, <1>4
<1>5. CASE v.target = position /\ goal > position
  <2>1. MaxPosition # None => position <= MaxPosition
    BY <1>2, <1>5, LimitsAssumption, SMT
  <2>2. ASSUME MaxNotional # None PROVE position * p <= MaxNotional
    <3>1. MaxNotional \in Nat /\ p \in Nat
      BY <2>2, LimitsAssumption, PricesAssumption
    <3>2. position * p <= goal * p
      BY <1>2, <1>5, <3>1, SMT
    <3> QED
      BY <1>2, <2>2, <3>1, <3>2, SMT
  <2> QED
    BY <1>1, <1>5, <2>1, <2>2
<1> QED
  BY <1>3, <1>4, <1>5

\* The converse of FloorTimes.
LEMMA TimesFloor ==
  ASSUME NEW a \in Nat, NEW p \in Nat \ {0}, NEW x \in Nat, x * p <= a
  PROVE  x <= a \div p
<1> DEFINE q == a \div p
<1>1. q \in Nat /\ a < (q + 1) * p
  BY SMT
<1> HIDE DEF q
<1>2. ASSUME x > q PROVE FALSE
  <2>1. x >= q + 1 /\ q + 1 \in Nat
    BY <1>1, <1>2, SMT
  <2>2. (q + 1) * p <= x * p
    BY <2>1, SMT
  <2>3. (q + 1) * p \in Int /\ x * p \in Int
    BY <1>1, SMT
  <2> QED
    BY <1>1, <2>2, <2>3, SMT
<1>3. x <= q
  BY <1>1, <1>2, SMT
<1> QED
  BY <1>3 DEF q

\* A target within both caps is not clamped.
LEMMA ClampWithin ==
  ASSUME NEW want \in Nat, NEW p \in Prices,
         MaxPosition # None => want <= MaxPosition,
         MaxNotional # None => want * p <= MaxNotional
  PROVE  Clamp(want, p) = want
<1> DEFINE capped == IF MaxPosition # None /\ MaxPosition < want
                       THEN MaxPosition ELSE want
<1>1. capped = want
  BY LimitsAssumption, SMT
<1>2. CASE MaxNotional = None
  BY <1>1, <1>2 DEF Clamp
<1>3. CASE MaxNotional # None
  <2>1. MaxNotional \in Nat /\ p \in Nat \ {0}
    BY <1>3, LimitsAssumption, PricesAssumption
  <2>2. want <= MaxNotional \div p
    BY <1>3, <2>1, TimesFloor
  <2>3. MaxNotional \div p \in Nat
    BY <2>1, SMT
  <2>4. ~ (MaxNotional \div p < want)
    BY <2>2, <2>3, SMT
  <2> HIDE DEF capped
  <2> QED
    BY <1>1, <2>4 DEF Clamp, capped
<1> QED
  BY <1>2, <1>3

\* Clamping a clamped target at the same mark changes nothing, and clamping
\* never raises one.
LEMMA ClampTwice ==
  ASSUME NEW want \in Nat, NEW p \in Prices
  PROVE  Clamp(Clamp(want, p), p) = Clamp(want, p)
  BY ClampBounds, ClampWithin

LEMMA ClampBelow ==
  ASSUME NEW want \in Nat, NEW p \in Prices
  PROVE  Clamp(want, p) <= want
<1>1. MaxPosition \in Nat \cup {None} /\ MaxNotional \in Nat \cup {None}
  BY LimitsAssumption
<1>2. MaxNotional # None => MaxNotional \div p \in Nat
  BY <1>1, PricesAssumption, SMT
<1> QED
  BY <1>1, <1>2, SMT DEF Clamp

\* A sale of q shares never costs money.
LEMMA SaleNonNegative ==
  ASSUME SalesPay, NEW q \in Nat, NEW p \in Prices
  PROVE  q * ExecPrice("SELL", p) - FeeFor(q) >= 0
<1>1. ExecPrice("SELL", p) \in Nat /\ Fee <= ExecPrice("SELL", p) /\ Fee \in Nat
  BY ExecPriceNat, FeeAssumption DEF ExecPrice, Sides, SalesPay
<1>2. q * (ExecPrice("SELL", p) - Fee) \in Nat
  BY <1>1, ProductNat, SMT
<1>3. q * (ExecPrice("SELL", p) - Fee) = q * ExecPrice("SELL", p) - q * Fee
  BY <1>1, SMT
<1> QED
  BY <1>2, <1>3 DEF FeeFor

\* A fill never gains on the mark: a purchase costs at least, and a sale brings
\* at most, what the shares are worth.
LEMMA FillCosts ==
  ASSUME NEW q \in Nat, NEW p \in Prices
  PROVE  /\ CashFlow("BUY", q, p) \in Int /\ CashFlow("SELL", q, p) \in Int
         /\ q * p * Scale \in Nat
         /\ CashFlow("BUY", q, p) <= - (q * p * Scale)
         /\ CashFlow("SELL", q, p) <= q * p * Scale
<1>1. p \in Nat /\ Scale \in Nat /\ Slip \in Nat /\ Scale - Slip \in Nat
  BY PricesAssumption, ScaleAssumption, SlipAssumption, SMT
<1>2. q * p \in Nat /\ q * Fee \in Nat /\ p * Slip \in Nat /\ p * Scale \in Nat
  BY <1>1, FeeAssumption, ProductNat
<1>3. q * p * Scale \in Nat /\ q * (p * Slip) \in Nat
  BY <1>1, <1>2, ProductNat
<1>4. /\ p * (Scale + Slip) = p * Scale + p * Slip
      /\ p * (Scale - Slip) = p * Scale - p * Slip
  BY <1>1, SMT
<1>5. /\ q * (p * Scale + p * Slip) = q * p * Scale + q * (p * Slip)
      /\ q * (p * Scale - p * Slip) = q * p * Scale - q * (p * Slip)
  BY <1>1, <1>2, SMT
<1>6. /\ CashFlow("BUY", q, p) = - (q * p * Scale + q * (p * Slip) + q * Fee)
      /\ CashFlow("SELL", q, p) = q * p * Scale - q * (p * Slip) - q * Fee
  BY <1>4, <1>5 DEF CashFlow, ExecPrice, FeeFor
<1> QED
  BY <1>2, <1>3, <1>6, SMT

-----------------------------------------------------------------------------
\* The last element of a sequence that is not empty.
LEMMA LastOfSeq ==
  ASSUME NEW S, NEW s \in Seq(S), Len(s) > 0
  PROVE  Len(s) \in 1 .. Len(s) /\ s[Len(s)] \in S
  BY SMT

\* An acknowledgement keeps an order well typed.
LEMMA ApplyResultType ==
  ASSUME NEW o \in Order, NEW ack \in Ack
  PROVE  ApplyResult(o, ack) \in Order
<1>1. Destination(o, ack) \in Phases /\ Submitted(o) \in Phases
  BY DEF Destination, Submitted, Order, Ack, Phases, Statuses
<1> QED
  BY <1>1 DEF ApplyResult, Order, Ack

\* A fill the account accepts leaves a well-typed account.
LEMMA ApplyFillType ==
  ASSUME NEW a \in [cash : Int, shares : Nat, peak : Int], NEW side \in Sides,
         NEW qty \in Nat, NEW price \in Nat, NEW fee \in Nat,
         CanApplyFill(a, side, qty, price, fee)
  PROVE  ApplyFill(a, side, qty, price, fee)
           \in [cash : Int, shares : Nat, peak : Int]
<1>1. qty * price \in Nat
  BY ProductNat
<1>2. CASE side = "BUY"
  <2>1. a.shares + qty \in Nat /\ a.cash - (qty * price + fee) \in Int
    BY <1>1, SMT
  <2> QED
    BY <1>2, <2>1 DEF ApplyFill
<1>3. CASE side = "SELL"
  <2>1. a.shares - qty \in Nat /\ a.cash + (qty * price - fee) \in Int
    BY <1>1, <1>3, SMT DEF CanApplyFill
  <2> QED
    BY <1>3, <2>1 DEF ApplyFill
<1> QED
  BY <1>2, <1>3 DEF Sides

\* Marking an account changes its peak only, which does not fall.
LEMMA MarkType ==
  ASSUME NEW a \in [cash : Int, shares : Nat, peak : Int], NEW p \in Prices
  PROVE  /\ MarkEquity(a, p) = [a EXCEPT !.peak = MarkEquity(a, p).peak]
         /\ MarkEquity(a, p) \in [cash : Int, shares : Nat, peak : Int]
         /\ MarkEquity(a, p).peak >= a.peak
         /\ MarkEquity(a, p).peak >= EquityAt(a.cash, a.shares, p)
<1>1. EquityAt(a.cash, a.shares, p) \in Int
  BY EquityInt
<1> QED
  BY <1>1, SMT DEF MarkEquity, Larger

-----------------------------------------------------------------------------
(***************************************************************************)
(* What an order book accounts for.                                        *)
(***************************************************************************)
LEMMA SignedInt ==
  ASSUME NEW side, NEW n \in Int
  PROVE  Signed(side, n) \in Int
  BY DEF Signed

\* Nothing bought or sold.
LEMMA NothingSigned ==
  ASSUME NEW n \in Int, n = 0, NEW side
  PROVE  Signed(side, n) = 0
<1> DEFINE m == -n
<1>1. m \in Int /\ m <= 0 /\ m >= 0
  <2>1. n <= 0 /\ n >= 0
    OBVIOUS
  <2> QED
    BY ONLY n \in Int, <2>1 DEF m
<1> HIDE DEF m
<1>2. m = 0
  BY <1>1
<1> QED
  BY <1>2 DEF Signed, m

Nets(orders) ==
  [i \in DOMAIN orders |-> Signed(orders[i].side, orders[i].filled)]

LEMMA NetsType ==
  ASSUME NEW orders \in Seq(Order)
  PROVE  /\ Nets(orders) \in Seq(Int) /\ Len(Nets(orders)) = Len(orders)
         /\ \A i \in 1 .. Len(orders) :
              /\ Nets(orders)[i] = Signed(orders[i].side, orders[i].filled)
              /\ Nets(orders)[i] \in Int
         /\ NetFilled(orders) = Total(Nets(orders))
<1>1. DOMAIN orders = 1 .. Len(orders) /\ Len(orders) \in Nat
  OBVIOUS
<1>2. ASSUME NEW i \in 1 .. Len(orders)
      PROVE  /\ Nets(orders)[i] = Signed(orders[i].side, orders[i].filled)
             /\ Nets(orders)[i] \in Int
  <2>1. Nets(orders)[i] = Signed(orders[i].side, orders[i].filled)
    BY <1>1 DEF Nets
  <2>2. orders[i] \in Order
    OBVIOUS
  <2>3. orders[i].filled \in Int
    BY <2>2 DEF Order
  <2> QED
    BY <2>1, <2>3, SignedInt
<1>3. Nets(orders) = [i \in 1 .. Len(orders) |-> Nets(orders)[i]]
  BY <1>1 DEF Nets
<1>4. Nets(orders) \in [1 .. Len(orders) -> Int]
  <2> DEFINE s == Nets(orders)
  <2> HIDE DEF s
  <2>1. s = [i \in 1 .. Len(orders) |-> s[i]] /\ \A i \in 1 .. Len(orders) : s[i] \in Int
    BY <1>2, <1>3 DEF s
  <2>2. s \in [1 .. Len(orders) -> Int]
    BY ONLY <2>1
  <2> QED
    BY <2>2 DEF s
<1>5. Nets(orders) \in Seq(Int) /\ Len(Nets(orders)) = Len(orders)
  <2> DEFINE s == Nets(orders)
  <2> HIDE DEF s
  <2>1. s \in [1 .. Len(orders) -> Int]
    BY <1>4 DEF s
  <2>2. s \in Seq(Int) /\ Len(s) = Len(orders)
    BY <1>1, <2>1
  <2> QED
    BY <2>2 DEF s
<1>6. NetFilled(orders) = Total(Nets(orders))
  BY DEF NetFilled, Nets
<1> QED
  BY <1>2, <1>5, <1>6

LEMMA NetInt ==
  ASSUME NEW orders \in Seq(Order)
  PROVE  NetFilled(orders) \in Int
  BY NetsType, TotalInt

\* A new order adds what it has filled.
LEMMA NetAppend ==
  ASSUME NEW orders \in Seq(Order), NEW o \in Order, NEW after,
         after = Append(orders, o)
  PROVE  NetFilled(after) = NetFilled(orders) + Signed(o.side, o.filled)
<1> DEFINE s == Nets(orders)
           t == Nets(after)
           e == Signed(o.side, o.filled)
<1>1. /\ after \in Seq(Order) /\ Len(after) = Len(orders) + 1
      /\ Len(orders) \in Nat
      /\ \A i \in 1 .. Len(orders) : after[i] = orders[i]
      /\ after[Len(orders) + 1] = o
  BY SMT
<1>2. e \in Int
  BY SignedInt DEF Order
<1>3. /\ s \in Seq(Int) /\ Len(s) = Len(orders) /\ NetFilled(orders) = Total(s)
      /\ \A i \in 1 .. Len(orders) : s[i] = Signed(orders[i].side, orders[i].filled)
  BY NetsType
<1>4. /\ t \in Seq(Int) /\ Len(t) = Len(after) /\ NetFilled(after) = Total(t)
      /\ \A i \in 1 .. Len(after) : t[i] = Signed(after[i].side, after[i].filled)
  BY <1>1, NetsType
<1>5. t[Len(orders) + 1] = e /\ \A i \in 1 .. Len(orders) : t[i] = s[i]
  <2> HIDE DEF s, t
  <2>1. Len(orders) + 1 \in 1 .. Len(after)
    BY <1>1
  <2>2. \A i \in 1 .. Len(orders) : i \in 1 .. Len(after)
    BY <1>1
  <2> QED
    BY <1>1, <1>3, <1>4, <2>1, <2>2
<1> HIDE DEF s, t, e
<1>6. t = Append(s, e)
  <2> DEFINE u == Append(s, e)
  <2>1. /\ u \in Seq(Int) /\ Len(u) = Len(t)
        /\ \A i \in 1 .. Len(t) : t[i] = u[i]
    BY <1>1, <1>2, <1>3, <1>4, <1>5, SMT
  <2> HIDE DEF u
  <2>2. t = u
    BY <1>4, <2>1, SeqEqual
  <2> QED
    BY <2>2 DEF u
<1>7. Total(t) = Total(s) + e
  BY <1>2, <1>3, <1>6, TotalAppend
<1> QED
  BY <1>3, <1>4, <1>7 DEF e

\* An order that was not filled adds what its answer filled.
LEMMA NetAnswered ==
  ASSUME NEW orders \in Seq(Order), NEW k \in 1 .. Len(orders), NEW o \in Order,
         orders[k].filled = 0, NEW after, after = [orders EXCEPT ![k] = o]
  PROVE  NetFilled(after) = NetFilled(orders) + Signed(o.side, o.filled)
<1> DEFINE s == Nets(orders)
           t == Nets(after)
           e == Signed(o.side, o.filled)
<1>1. /\ after \in Seq(Order) /\ Len(after) = Len(orders)
      /\ \A i \in 1 .. Len(orders) : i # k => after[i] = orders[i]
      /\ after[k] = o
  BY SMT
<1>2. e \in Int
  BY SignedInt DEF Order
<1>3. /\ s \in Seq(Int) /\ Len(s) = Len(orders) /\ NetFilled(orders) = Total(s)
      /\ \A i \in 1 .. Len(orders) : s[i] = Signed(orders[i].side, orders[i].filled)
  BY NetsType
<1>4. /\ t \in Seq(Int) /\ Len(t) = Len(after) /\ NetFilled(after) = Total(t)
      /\ \A i \in 1 .. Len(after) : t[i] = Signed(after[i].side, after[i].filled)
  BY <1>1, NetsType
<1>5. t[k] = e /\ \A i \in 1 .. Len(orders) : i # k => t[i] = s[i]
  <2> HIDE DEF s, t
  <2> QED
    BY <1>1, <1>3, <1>4
<1>6. s[k] = 0
  <2>1. orders[k].filled \in Int
    BY DEF Order
  <2>2. Signed(orders[k].side, orders[k].filled) = 0
    BY <2>1, NothingSigned
  <2> HIDE DEF s
  <2> QED
    BY <1>3, <2>2
<1> HIDE DEF s, t, e
<1>7. Total(t) = Total(s) + (t[k] - s[k])
  <2>1. k \in 1 .. Len(s) /\ Len(t) = Len(s)
    BY <1>1, <1>3, <1>4
  <2>2. \A i \in 1 .. Len(s) : i # k => t[i] = s[i]
    BY <1>3, <1>5
  <2> QED
    BY <1>3, <1>4, <2>1, <2>2, TotalExcept
<1>8. Total(s) \in Int
  BY <1>3, TotalInt
<1>9. t[k] - s[k] = e
  BY <1>2, <1>5, <1>6
<1> QED
  BY <1>3, <1>4, <1>7, <1>9 DEF e
=============================================================================
