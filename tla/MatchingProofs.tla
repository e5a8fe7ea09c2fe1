--------------------------- MODULE MatchingProofs ---------------------------
(***************************************************************************)
(* Theorems about Matching.                                                *)
(***************************************************************************)
EXTENDS Matching, FiniteSetTheorems, FunctionTheorems, SequenceTheorems,
  TLAPS

-----------------------------------------------------------------------------
(***************************************************************************)
(* Numbers and orders                                                      *)
(***************************************************************************)

\* A set of natural numbers has a least one: what stands for induction below.
LEMMA LeastOne ==
  ASSUME NEW S, S \subseteq Nat, S # {}
  PROVE  \E n \in S : \A m \in S : n <= m
<1>1. PICK n \in S : \A m \in S : <<m, n>> \notin OpToRel(<, Nat)
  BY NatLessThanWellFounded, WFMin
<1>2. \A m \in S : ~(m < n)
  BY <1>1 DEF OpToRel
<1> QED
  BY <1>2

LEMMA LeastIsLeast ==
  ASSUME NEW S, S \subseteq Nat, S # {}
  PROVE  Least(S) \in S /\ \A m \in S : Least(S) <= m
BY LeastOne DEF Least

LEMMA BeforeIsIrreflexive ==
  ASSUME NEW w \in Nat, NEW s \in [1..w -> Int]
  PROVE  ~Before(s, s)
BY DEF Before

LEMMA BeforeIsTransitive ==
  ASSUME NEW w \in Nat, NEW s \in [1..w -> Int], NEW t \in [1..w -> Int],
         NEW u \in [1..w -> Int], Before(s, t), Before(t, u)
  PROVE  Before(s, u)
<1>1. PICK k \in 1..w : s[k] < t[k] /\ \A m \in 1..k - 1 : s[m] = t[m]
  BY DEF Before
<1>2. PICK l \in 1..w : t[l] < u[l] /\ \A m \in 1..l - 1 : t[m] = u[m]
  BY DEF Before
<1> DEFINE d == IF k <= l THEN k ELSE l
<1>3. d \in 1..w /\ d <= k /\ d <= l /\ d \in {k, l}
  OBVIOUS
<1>4. s[d] < u[d]
  <2>1. s[d] \in Int /\ t[d] \in Int /\ u[d] \in Int
    BY <1>3
  <2>2. CASE k < l
    BY <1>1, <1>2, <2>1, <2>2
  <2>3. CASE l < k
    BY <1>1, <1>2, <2>1, <2>3
  <2>4. CASE l = k
    BY <1>1, <1>2, <2>1, <2>4
  <2> QED
    BY <2>2, <2>3, <2>4
<1>5. \A m \in 1..d - 1 : s[m] = u[m]
  BY <1>1, <1>2, <1>3
<1> QED
  BY <1>3, <1>4, <1>5 DEF Before

LEMMA BeforeIsTotal ==
  ASSUME NEW w \in Nat, NEW s \in [1..w -> Int], NEW t \in [1..w -> Int], s # t
  PROVE  Before(s, t) \/ Before(t, s)
<1> DEFINE D == {k \in 1..w : s[k] # t[k]}
<1>1. D \subseteq Nat /\ D # {}
  OBVIOUS
<1>2. PICK k \in D : \A m \in D : k <= m
  BY <1>1, LeastOne
<1>3. \A m \in 1..k - 1 : s[m] = t[m]
  BY <1>2
<1>4. k \in 1..w /\ s[k] \in Int /\ t[k] \in Int /\ s[k] # t[k]
  BY <1>2
<1> QED
  BY <1>3, <1>4, SMTT(30) DEF Before

-----------------------------------------------------------------------------
(***************************************************************************)
(* Lists                                                                   *)
(***************************************************************************)

LEMMA OnceIsTheSame ==
  ASSUME NEW S, NEW s \in Seq(S)
  PROVE  Once(s) = s
BY DEF Once

\* Every member of the set is in the list once.
Enumerates(s, S) ==
  /\ s \in Seq(S)
  /\ \A x \in S : \E k \in DOMAIN s : s[k] = x
  /\ \A i, j \in DOMAIN s : s[i] = s[j] => i = j

LEMMA MembersOfAList ==
  ASSUME NEW S, NEW s, Enumerates(s, S)
  PROVE  /\ DOMAIN s = 1..Len(s) /\ Len(s) \in Nat
         /\ \A k \in DOMAIN s : s[k] \in S
         /\ \A i, j \in DOMAIN s : s[i] = s[j] => i = j
         /\ ToSet(s) = S
BY DEF Enumerates, ToSet

\* The members of a set whose keys differ are in order in InOrder.
LEMMA InOrderIsSorted ==
  ASSUME NEW S, IsFiniteSet(S), NEW w \in Nat, NEW key \in [S -> [1..w -> Int]],
         \A x, y \in S : key[x] = key[y] => x = y
  PROVE  /\ Enumerates(InOrder(S, key), S)
         /\ Len(InOrder(S, key)) = Cardinality(S)
         /\ \A i, j \in DOMAIN InOrder(S, key) :
              i < j => Before(key[InOrder(S, key)[i]], key[InOrder(S, key)[j]])
<1> DEFINE Below(x) == {y \in S : Before(key[y], key[x])}
           rank == [x \in S |-> Cardinality(Below(x)) + 1]
           N == Cardinality(S)
           list == [k \in 1..N |-> CHOOSE x \in S : Cardinality(Below(x)) = k - 1]
<1>1. N \in Nat
  BY FS_CardinalityType
<1>2. \A x \in S : Below(x) \subseteq S \ {x}
  BY BeforeIsIrreflexive
<1>3. \A x \in S : IsFiniteSet(S \ {x}) /\ Cardinality(S \ {x}) = N - 1
  BY FS_RemoveElement
<1>4. \A x \in S : /\ IsFiniteSet(Below(x)) /\ Cardinality(Below(x)) \in Nat
                   /\ Cardinality(Below(x)) <= N - 1
  <2> TAKE x \in S
  <2>1. Below(x) \in SUBSET (S \ {x}) /\ IsFiniteSet(S \ {x}) /\ Cardinality(S \ {x}) = N - 1
    BY <1>2, <1>3
  <2> HIDE DEF Below, N
  <2>2. IsFiniteSet(Below(x)) /\ Cardinality(Below(x)) <= Cardinality(S \ {x})
    BY <2>1, FS_Subset
  <2> QED
    BY <2>1, <2>2, FS_CardinalityType
<1>5. \A x, y \in S : Before(key[x], key[y]) => Cardinality(Below(x)) < Cardinality(Below(y))
  <2> SUFFICES ASSUME NEW x \in S, NEW y \in S, Before(key[x], key[y])
               PROVE  Cardinality(Below(x)) < Cardinality(Below(y))
    OBVIOUS
  <2>1. x \in Below(y) /\ x \notin Below(x)
    BY BeforeIsIrreflexive
  <2>2. Below(x) \subseteq Below(y)
    BY BeforeIsTransitive
  <2> HIDE DEF Below
  <2>3. Cardinality(Below(x)) <= Cardinality(Below(y)) /\ Cardinality(Below(x)) # Cardinality(Below(y))
    BY <1>4, <2>1, <2>2, FS_Subset
  <2> QED
    BY <1>4, <2>3
<1>6. \A x, y \in S : x # y => Before(key[x], key[y]) \/ Before(key[y], key[x])
  BY BeforeIsTotal
<1>7. rank \in Injection(S, 1..N)
  <2>1. \A x \in S : rank[x] \in 1..N
    <3> HIDE DEF Below, N
    <3> QED
      BY <1>1, <1>4
  <2>2. \A x, y \in S : rank[x] = rank[y] => x = y
    <3> SUFFICES ASSUME NEW x \in S, NEW y \in S, rank[x] = rank[y], x # y PROVE FALSE
      OBVIOUS
    <3> HIDE DEF Below, N
    <3>1. /\ Cardinality(Below(x)) \in Nat /\ Cardinality(Below(y)) \in Nat
          /\ Cardinality(Below(x)) = Cardinality(Below(y))
      BY <1>4
    <3>2. Before(key[x], key[y]) \/ Before(key[y], key[x])
      BY <1>6
    <3> HIDE DEF rank
    <3>3. \/ Cardinality(Below(x)) < Cardinality(Below(y))
          \/ Cardinality(Below(y)) < Cardinality(Below(x))
      BY <1>5, <3>2
    <3> QED
      BY <3>1, <3>3
  <2> HIDE DEF rank, N
  <2>3. rank \in [S -> 1..N]
    BY <2>1 DEF rank
  <2> QED
    BY <2>2, <2>3, Fun_IsInj
<1>8. rank \in Surjection(S, 1..N)
  <2>1. IsFiniteSet(1..N) /\ Cardinality(1..N) = N
    BY <1>1, FS_Interval
  <2> HIDE DEF rank
  <2> QED
    BY <1>7, <2>1, FS_Injection
<1>9. \A k \in 1..N : \E x \in S : Cardinality(Below(x)) = k - 1
  <2> TAKE k \in 1..N
  <2>1. PICK x \in S : rank[x] = k
    <3> HIDE DEF rank, N
    <3> QED
      BY <1>8 DEF Surjection
  <2>2. Cardinality(Below(x)) \in Nat
    BY <1>4
  <2> HIDE DEF Below
  <2>3. Cardinality(Below(x)) + 1 = k
    BY <2>1
  <2> QED
    BY <2>2, <2>3
<1>10. \A k \in 1..N : list[k] \in S /\ Cardinality(Below(list[k])) = k - 1
  <2> HIDE DEF Below, N
  <2> QED
    BY <1>9
<1>11. list \in Seq(S) /\ DOMAIN list = 1..N /\ Len(list) = N
  <2>1. list \in [1..N -> S]
    <3> HIDE DEF Below, N
    <3> QED
      BY <1>9
  <2> HIDE DEF list, N
  <2> QED
    BY <1>1, <2>1
<1>12. InOrder(S, key) = list
  <2>1. InOrder(S, key) = Once(list)
    BY DEF InOrder
  <2> HIDE DEF list
  <2> QED
    BY <1>11, <2>1, OnceIsTheSame
<1>13. \A i, j \in 1..N : list[i] = list[j] => i = j
  <2> HIDE DEF list, Below, N
  <2> QED
    BY <1>1, <1>10
<1>14. \A x \in S : \E k \in 1..N : list[k] = x
  <2> SUFFICES ASSUME NEW x \in S PROVE \E k \in 1..N : list[k] = x
    OBVIOUS
  <2>1. rank[x] \in 1..N /\ Cardinality(Below(x)) = rank[x] - 1
    <3> HIDE DEF Below, N
    <3> QED
      BY <1>1, <1>4
  <2>2. PICK y \in S : y = list[rank[x]] /\ Cardinality(Below(y)) = Cardinality(Below(x))
    <3> HIDE DEF list, rank, Below
    <3> QED
      BY <1>10, <2>1
  <2>3. y = x
    <3>1. ~(Cardinality(Below(x)) < Cardinality(Below(y)))
          /\ ~(Cardinality(Below(y)) < Cardinality(Below(x)))
      <4> HIDE DEF Below
      <4> QED
        BY <1>4, <2>2
    <3> QED
      BY <1>5, <1>6, <3>1
  <2> QED
    BY <2>1, <2>2, <2>3
<1>15. \A i, j \in 1..N : i < j => Before(key[list[i]], key[list[j]])
  <2> SUFFICES ASSUME NEW i \in 1..N, NEW j \in 1..N, i < j
               PROVE  Before(key[list[i]], key[list[j]])
    OBVIOUS
  <2>1. PICK x \in S : x = list[i] /\ Cardinality(Below(x)) = i - 1
    BY <1>10
  <2>2. PICK y \in S : y = list[j] /\ Cardinality(Below(y)) = j - 1
    BY <1>10
  <2>3. ~(Cardinality(Below(y)) < Cardinality(Below(x))) /\ x # y
    <3> HIDE DEF Below, N
    <3> QED
      BY <1>1, <2>1, <2>2
  <2> QED
    BY <1>5, <1>6, <2>1, <2>2, <2>3
<1> HIDE DEF list
<1> QED
  BY <1>11, <1>12, <1>13, <1>14, <1>15 DEF Enumerates

LEMMA AscendingIsSorted ==
  ASSUME NEW S, S \subseteq Nat, IsFiniteSet(S)
  PROVE  /\ Enumerates(Ascending(S), S)
         /\ Len(Ascending(S)) = Cardinality(S)
         /\ \A i, j \in DOMAIN Ascending(S) : i < j => Ascending(S)[i] < Ascending(S)[j]
<1> DEFINE key == [n \in S |-> <<n>>]
<1>1. key \in [S -> [1..1 -> Int]]
  OBVIOUS
<1>2. \A x, y \in S : key[x] = key[y] => x = y
  OBVIOUS
<1>3. \A x, y \in S : Before(key[x], key[y]) => x < y
  <2> SUFFICES ASSUME NEW x \in S, NEW y \in S, Before(key[x], key[y]) PROVE x < y
    OBVIOUS
  <2>1. key[x] = <<x>> /\ key[y] = <<y>>
    OBVIOUS
  <2> HIDE DEF key
  <2>2. PICK k \in DOMAIN <<x>> : <<x>>[k] < <<y>>[k]
    BY <2>1 DEF Before
  <2> QED
    BY <2>2
<1>4. Ascending(S) = InOrder(S, key)
  BY DEF Ascending
<1> HIDE DEF key
<1>5. /\ Enumerates(InOrder(S, key), S)
      /\ Len(InOrder(S, key)) = Cardinality(S)
      /\ \A i, j \in DOMAIN InOrder(S, key) :
           i < j => Before(key[InOrder(S, key)[i]], key[InOrder(S, key)[j]])
  BY <1>1, <1>2, InOrderIsSorted
<1>6. \A i \in DOMAIN InOrder(S, key) : InOrder(S, key)[i] \in S
  BY <1>5 DEF Enumerates
<1> QED
  BY <1>3, <1>4, <1>5, <1>6

LEMMA ListsAreFinite ==
  ASSUME NEW S, NEW s \in Seq(S), NEW A, A \subseteq DOMAIN s
  PROVE  A \subseteq Nat /\ IsFiniteSet(A)
<1>1. DOMAIN s = 1..Len(s) /\ Len(s) \in Nat
  OBVIOUS
<1>2. IsFiniteSet(1..Len(s))
  BY <1>1, FS_Interval
<1> QED
  BY <1>1, <1>2, FS_Subset

\* The members left keep their order.
LEMMA OnlyIsSublist ==
  ASSUME NEW S, NEW list, Enumerates(list, S), NEW set
  PROVE  /\ Enumerates(Only(list, set), S \cap set)
         /\ \A i, j \in DOMAIN Only(list, set) :
              i < j => \E k, l \in DOMAIN list : /\ k < l
                                                 /\ Only(list, set)[i] = list[k]
                                                 /\ Only(list, set)[j] = list[l]
<1> DEFINE A == {k \in DOMAIN list : list[k] \in set}
           at == Ascending(A)
           left == [k \in DOMAIN at |-> list[at[k]]]
<1>1. list \in Seq(S) /\ DOMAIN list = 1..Len(list) /\ Len(list) \in Nat
  BY DEF Enumerates
<1>2. A \subseteq Nat /\ IsFiniteSet(A)
  BY <1>1, ListsAreFinite
<1>3. Enumerates(at, A) /\ \A i, j \in DOMAIN at : i < j => at[i] < at[j]
  <2> HIDE DEF A
  <2> QED
    BY <1>2, AscendingIsSorted
<1> HIDE DEF at
<1>4. DOMAIN at = 1..Len(at) /\ Len(at) \in Nat /\ \A k \in DOMAIN at : at[k] \in A
  BY <1>3 DEF Enumerates
<1>5. \A k \in DOMAIN at : list[at[k]] \in S \cap set
  BY <1>1, <1>4
<1>6. left \in Seq(S \cap set) /\ DOMAIN left = DOMAIN at
  BY <1>4, <1>5
<1>7. Only(list, set) = left
  <2>1. Only(list, set) = Once(left)
    BY DEF Only, at
  <2> HIDE DEF left
  <2> QED
    BY <1>6, <2>1, OnceIsTheSame
<1>8. \A x \in S \cap set : \E k \in DOMAIN left : left[k] = x
  <2> TAKE x \in S \cap set
  <2>1. PICK l \in DOMAIN list : list[l] = x
    BY DEF Enumerates
  <2>2. l \in A
    BY <2>1
  <2>3. PICK k \in DOMAIN at : at[k] = l
    BY <1>3, <2>2 DEF Enumerates
  <2> QED
    BY <2>1, <2>3
<1>9. \A i, j \in DOMAIN left : left[i] = left[j] => i = j
  <2> SUFFICES ASSUME NEW i \in DOMAIN at, NEW j \in DOMAIN at, list[at[i]] = list[at[j]]
               PROVE  i = j
    OBVIOUS
  <2>1. at[i] = at[j]
    BY <1>4 DEF Enumerates
  <2> QED
    BY <1>3, <2>1 DEF Enumerates
<1>10. \A i, j \in DOMAIN left :
         i < j => \E k, l \in DOMAIN list : k < l /\ left[i] = list[k] /\ left[j] = list[l]
  <2> SUFFICES ASSUME NEW i \in DOMAIN at, NEW j \in DOMAIN at, i < j
               PROVE  \E k, l \in DOMAIN list : k < l /\ left[i] = list[k] /\ left[j] = list[l]
    OBVIOUS
  <2>1. at[i] \in DOMAIN list /\ at[j] \in DOMAIN list /\ at[i] < at[j]
    BY <1>3, <1>4
  <2> QED
    BY <2>1
<1> HIDE DEF left
<1> QED
  BY <1>6, <1>7, <1>8, <1>9, <1>10 DEF Enumerates

-----------------------------------------------------------------------------
(***************************************************************************)
(* Groups by likeness to a first member                                    *)
(***************************************************************************)

\* There is one choice of the firsts, made one place after another.
LEMMA FirstsExist ==
  ASSUME NEW S, NEW list \in Seq(S), NEW like
  PROVE  /\ Firsts(list, like) \subseteq DOMAIN list
         /\ \A n \in DOMAIN list :
              n \in Firsts(list, like) <=>
                \A f \in Firsts(list, like) : f < n => <<list[f], list[n]>> \notin like
<1> DEFINE Good(k, F) == /\ F \subseteq 1..k
                         /\ \A n \in 1..k : n \in F <=> \A f \in F : f < n => <<list[f], list[n]>> \notin like
           Bad == {k \in Nat : \A F \in SUBSET (1..k) : ~Good(k, F)}
<1>1. Bad = {}
  <2> SUFFICES ASSUME Bad # {} PROVE FALSE
    OBVIOUS
  <2>1. PICK k \in Bad : \A m \in Bad : k <= m
    <3>1. Bad \subseteq Nat
      OBVIOUS
    <3> HIDE DEF Bad
    <3> QED
      BY <3>1, LeastOne
  <2>2. k # 0
    <3>1. Good(0, {})
      OBVIOUS
    <3> QED
      BY <3>1
  <2>3. k \in Nat /\ k - 1 \in Nat
    BY <2>2
  <2>4. PICK F \in SUBSET (1..k - 1) : Good(k - 1, F)
    <3>1. k - 1 \notin Bad
      <4> HIDE DEF Bad
      <4> QED
        BY <2>1, <2>3
    <3> QED
      BY <2>3, <3>1
  <2> DEFINE G == IF \A f \in F : <<list[f], list[k]>> \notin like THEN F \cup {k} ELSE F
  <2>5. \A f \in F : f \in 1..k - 1 /\ f < k /\ f # k
    BY <2>3, <2>4
  <2>6. \A n \in 1..k - 1 : n \in G <=> \A f \in G : f < n => <<list[f], list[n]>> \notin like
    <3> TAKE n \in 1..k - 1
    <3>1. n \in G <=> n \in F
      BY <2>3
    <3>2. (\A f \in G : f < n => <<list[f], list[n]>> \notin like)
            <=> \A f \in F : f < n => <<list[f], list[n]>> \notin like
      BY <2>3
    <3>3. n \in F <=> \A f \in F : f < n => <<list[f], list[n]>> \notin like
      BY <2>4
    <3> QED
      BY <3>1, <3>2, <3>3
  <2>7. k \in G <=> \A f \in G : f < k => <<list[f], list[k]>> \notin like
    <3>1. k \in G <=> \A f \in F : <<list[f], list[k]>> \notin like
      BY <2>5
    <3>2. ~(k < k)
      BY <2>3
    <3> QED
      BY <2>5, <3>1, <3>2
  <2>8. G \in SUBSET (1..k)
    BY <2>3, <2>5
  <2>9. \A n \in 1..k : n \in 1..k - 1 \/ n = k
    BY <2>3
  <2> HIDE DEF G
  <2>10. Good(k, G)
    BY <2>6, <2>7, <2>8, <2>9
  <2> QED
    BY <2>1, <2>8, <2>10
<1>2. DOMAIN list = 1..Len(list) /\ Len(list) \in Nat
  OBVIOUS
<1>3. \E F \in SUBSET DOMAIN list : Good(Len(list), F)
  BY <1>1, <1>2
<1> QED
  BY <1>2, <1>3 DEF Firsts

\* What a grouping of a list is: every member in one group, like the first of its group
\* and like the first of no earlier one; within a group in the order of the list.
GroupsOf(G, list, S, like) ==
  /\ G \in Seq(Seq(S))
  /\ \A k \in DOMAIN G : Enumerates(G[k], ToSet(G[k])) /\ 1 \in DOMAIN G[k]
  /\ \A x \in S : \E k \in DOMAIN G : x \in ToSet(G[k])
  /\ \A k, l \in DOMAIN G : \A x \in ToSet(G[k]) : x \in ToSet(G[l]) => k = l
  /\ \A k \in DOMAIN G : \A x \in ToSet(G[k]) : x = G[k][1] \/ <<G[k][1], x>> \in like
  /\ \A k, l \in DOMAIN G : \A x \in ToSet(G[l]) : k < l => <<G[k][1], x>> \notin like
  /\ \A k \in DOMAIN G : \A i, j \in DOMAIN G[k] :
       i < j => \E p, q \in DOMAIN list : p < q /\ G[k][i] = list[p] /\ G[k][j] = list[q]

LEMMA GroupsByFirst ==
  ASSUME NEW S, NEW list, Enumerates(list, S), NEW like
  PROVE  GroupsOf(Grouped(list, like), list, S, like)
<1> DEFINE F == Firsts(list, like)
           order == Ascending(F)
           Home(n) == {f \in F : f = n \/ (f < n /\ <<list[f], list[n]>> \in like)}
           First(n) == Least(Home(n))
           M(k) == {list[n] : n \in {n \in DOMAIN list : First(n) = order[k]}}
           G == [k \in DOMAIN order |-> Only(list, M(k))]
<1>1. list \in Seq(S) /\ DOMAIN list = 1..Len(list) /\ Len(list) \in Nat
  BY DEF Enumerates
<1>2. /\ F \subseteq DOMAIN list
      /\ \A n \in DOMAIN list :
           n \in F <=> \A f \in F : f < n => <<list[f], list[n]>> \notin like
  BY <1>1, FirstsExist
<1>3. F \subseteq Nat /\ IsFiniteSet(F)
  BY <1>1, <1>2, ListsAreFinite
<1> HIDE DEF F
<1>4. Enumerates(order, F) /\ \A i, j \in DOMAIN order : i < j => order[i] < order[j]
  BY <1>3, AscendingIsSorted
<1> HIDE DEF order
<1>5. /\ DOMAIN order = 1..Len(order) /\ Len(order) \in Nat
      /\ \A k \in DOMAIN order : order[k] \in F
  BY <1>4 DEF Enumerates
<1>6. \A n \in DOMAIN list : First(n) \in Home(n) /\ \A f \in Home(n) : First(n) <= f
  <2> TAKE n \in DOMAIN list
  <2>1. Home(n) \subseteq Nat
    BY <1>3
  <2>2. Home(n) # {}
    BY <1>2
  <2> HIDE DEF Home
  <2> QED
    BY <2>1, <2>2, LeastIsLeast
<1>7. \A n \in DOMAIN list : /\ First(n) \in F /\ First(n) <= n
                             /\ First(n) = n \/ <<list[First(n)], list[n]>> \in like
  <2> TAKE n \in DOMAIN list
  <2>1. PICK f \in Home(n) : f = First(n)
    BY <1>6
  <2>2. f \in Nat /\ n \in Nat
    BY <1>1, <1>3
  <2> HIDE DEF First
  <2> QED
    BY <2>1, <2>2
<1>8. \A f \in F : First(f) = f
  <2> TAKE f \in F
  <2>1. f \in DOMAIN list
    BY <1>2
  <2>2. \A g \in Home(f) : g = f
    BY <1>2, <2>1
  <2> QED
    BY <1>6, <2>1, <2>2
<1> HIDE DEF First
<1>9. \A k \in DOMAIN order : M(k) \subseteq S
  BY <1>1
<1>10. \A k \in DOMAIN order :
         /\ Enumerates(G[k], M(k)) /\ M(k) = ToSet(G[k])
         /\ \A i, j \in DOMAIN G[k] :
              i < j => \E p, q \in DOMAIN list : p < q /\ G[k][i] = list[p] /\ G[k][j] = list[q]
  <2> TAKE k \in DOMAIN order
  <2>1. S \cap M(k) = M(k) /\ G[k] = Only(list, M(k))
    BY <1>9
  <2> HIDE DEF M, G
  <2>2. Enumerates(G[k], M(k))
    BY <2>1, OnlyIsSublist
  <2>3. M(k) = ToSet(G[k])
    BY <2>2 DEF Enumerates, ToSet
  <2> QED
    BY <2>1, <2>2, <2>3, OnlyIsSublist
<1>11. \A k \in DOMAIN order : 1 \in DOMAIN G[k] /\ G[k][1] = list[order[k]]
  <2> TAKE k \in DOMAIN order
  <2>1. order[k] \in DOMAIN list /\ First(order[k]) = order[k]
    BY <1>2, <1>5, <1>8
  <2>2. list[order[k]] \in M(k)
    BY <2>1
  <2>3. PICK j \in DOMAIN G[k] : G[k][j] = list[order[k]]
    <3> HIDE DEF M, G
    <3> QED
      BY <1>10, <2>2 DEF Enumerates
  <2>4. DOMAIN G[k] = 1..Len(G[k]) /\ Len(G[k]) \in Nat
    <3> HIDE DEF M, G
    <3> QED
      BY <1>10 DEF Enumerates
  <2>5. ASSUME j # 1 PROVE FALSE
    <3>1. 1 \in DOMAIN G[k] /\ 1 < j
      BY <2>3, <2>4, <2>5
    <3>2. PICK p \in DOMAIN list, q \in DOMAIN list :
            p < q /\ G[k][1] = list[p] /\ G[k][j] = list[q]
      <4> HIDE DEF M, G
      <4> QED
        BY <1>10, <3>1
    <3>3. q = order[k]
      BY <2>1, <2>3, <3>2 DEF Enumerates
    <3>4. list[p] \in M(k)
      <4> HIDE DEF M, G
      <4> QED
        BY <1>10, <3>1, <3>2 DEF ToSet
    <3>5. PICK n \in DOMAIN list : list[n] = list[p] /\ First(n) = order[k]
      BY <3>4
    <3>6. n = p
      BY <3>5 DEF Enumerates
    <3>7. p \in Nat /\ q \in Nat
      BY <1>1
    <3>8. q <= p
      BY <1>7, <3>3, <3>5, <3>6
    <3> QED
      BY <3>2, <3>7, <3>8
  <2> QED
    BY <2>3, <2>5
<1>12. \A k \in DOMAIN order : \A x \in M(k) : x = list[order[k]] \/ <<list[order[k]], x>> \in like
  <2> TAKE k \in DOMAIN order
  <2> TAKE x \in M(k)
  <2>1. PICK n \in DOMAIN list : x = list[n] /\ First(n) = order[k]
    OBVIOUS
  <2> QED
    BY <1>7, <2>1
<1>13. \A k, l \in DOMAIN order : \A x \in M(l) : k < l => <<list[order[k]], x>> \notin like
  <2> SUFFICES ASSUME NEW k \in DOMAIN order, NEW l \in DOMAIN order, NEW x \in M(l), k < l,
                      <<list[order[k]], x>> \in like
               PROVE  FALSE
    OBVIOUS
  <2>1. PICK n \in DOMAIN list : x = list[n] /\ First(n) = order[l]
    OBVIOUS
  <2>2. order[k] < order[l] /\ order[l] <= n /\ order[k] \in F
    BY <1>4, <1>5, <1>7, <2>1
  <2>3. order[k] \in Nat /\ order[l] \in Nat /\ n \in Nat
    <3>1. order[k] \in F /\ order[l] \in F
      BY <1>5
    <3>2. n \in Nat
      BY <1>1
    <3> QED
      BY <1>3, <3>1, <3>2
  <2>4. order[k] < n
    BY <2>2, <2>3
  <2>5. order[k] \in Home(n)
    BY <2>1, <2>2, <2>4
  <2>6. order[l] <= order[k]
    <3> HIDE DEF M, G, Home
    <3> QED
      BY <1>6, <2>1, <2>5
  <2> QED
    BY <2>2, <2>3, <2>6
<1>14. \A x \in S : \E k \in DOMAIN order : x \in M(k)
  <2> TAKE x \in S
  <2>1. PICK n \in DOMAIN list : list[n] = x
    BY DEF Enumerates
  <2>2. PICK k \in DOMAIN order : order[k] = First(n)
    BY <1>4, <1>7 DEF Enumerates
  <2> QED
    BY <2>1, <2>2
<1>15. \A k, l \in DOMAIN order : \A x \in M(k) : x \in M(l) => k = l
  <2> SUFFICES ASSUME NEW k \in DOMAIN order, NEW l \in DOMAIN order, NEW x \in M(k), x \in M(l)
               PROVE  k = l
    OBVIOUS
  <2>1. PICK n \in DOMAIN list : x = list[n] /\ First(n) = order[k]
    OBVIOUS
  <2>2. PICK m \in DOMAIN list : x = list[m] /\ First(m) = order[l]
    OBVIOUS
  <2>3. n = m
    BY <2>1, <2>2 DEF Enumerates
  <2> QED
    BY <1>4, <2>1, <2>2, <2>3 DEF Enumerates
<1>16. G \in Seq(Seq(S)) /\ DOMAIN G = DOMAIN order
  <2>1. \A k \in DOMAIN order : G[k] \in Seq(S)
    <3> TAKE k \in DOMAIN order
    <3>1. G[k] \in Seq(M(k)) /\ M(k) \subseteq S
      <4> HIDE DEF M, G
      <4> QED
        BY <1>9, <1>10 DEF Enumerates
    <3> HIDE DEF M, G
    <3> QED
      BY <3>1
  <2>2. DOMAIN G = DOMAIN order /\ G = [k \in DOMAIN order |-> G[k]]
    OBVIOUS
  <2> HIDE DEF G
  <2> QED
    BY <1>5, <2>1, <2>2
<1>17. Grouped(list, like) = G
  <2>1. Grouped(list, like) = Once(G)
    BY DEF Grouped, F, order, First
  <2> HIDE DEF G
  <2> QED
    BY <1>16, <2>1, OnceIsTheSame
<1> HIDE DEF G, M
<1>18. \A k \in DOMAIN G : Enumerates(G[k], ToSet(G[k])) /\ 1 \in DOMAIN G[k]
  BY <1>10, <1>11, <1>16
<1>19. \A x \in S : \E k \in DOMAIN G : x \in ToSet(G[k])
  BY <1>10, <1>14, <1>16
<1>20. \A k, l \in DOMAIN G : \A x \in ToSet(G[k]) : x \in ToSet(G[l]) => k = l
  BY <1>10, <1>15, <1>16
<1>21. \A k \in DOMAIN G : \A x \in ToSet(G[k]) : x = G[k][1] \/ <<G[k][1], x>> \in like
  <2> TAKE k \in DOMAIN G
  <2> TAKE x \in ToSet(G[k])
  <2>1. k \in DOMAIN order
    BY <1>16
  <2>2. x \in M(k) /\ G[k][1] = list[order[k]]
    BY <1>10, <1>11, <2>1
  <2> QED
    BY <1>12, <2>1, <2>2
<1>22. ASSUME NEW k \in DOMAIN G, NEW l \in DOMAIN G, NEW x \in ToSet(G[l]), k < l
       PROVE  <<G[k][1], x>> \notin like
  <2>1. k \in DOMAIN order /\ l \in DOMAIN order
    BY <1>16
  <2>2. x \in M(l) /\ G[k][1] = list[order[k]]
    BY <1>10, <1>11, <2>1
  <2> QED
    BY <1>13, <1>22, <2>1, <2>2
<1> QED
  BY <1>10, <1>16, <1>17, <1>18, <1>19, <1>20, <1>21, <1>22 DEF GroupsOf

-----------------------------------------------------------------------------
(***************************************************************************)
(* The pairing of moved code                                               *)
(***************************************************************************)

\* The step of a recursion over a measure: it looks only at what has less left.
Descends(H, D, X, left) ==
  /\ H \in [D \X [D -> X] -> X]
  /\ \A d \in D : \A f, g \in [D -> X] :
       (\A e \in D : left[e] < left[d] => f[e] = g[e]) => H[<<d, f>>] = H[<<d, g>>]

Solves(f, H, D, X) == f \in [D -> X] /\ \A d \in D : f[d] = H[<<d, f>>]

\* A recursion over a bounded measure has a solution.
LEMMA RecursionEnds ==
  ASSUME NEW D, NEW X, NEW x0 \in X, NEW K \in Nat, NEW left \in [D -> 0..K], NEW H,
         Descends(H, D, X, left)
  PROVE  \E f : Solves(f, H, D, X)
<1> DEFINE Good(k) == {f \in [D -> X] : \A d \in D : left[d] < k => f[d] = H[<<d, f>>]}
           Bad == {k \in Nat : Good(k) = {}}
<1>1. Bad = {}
  <2> SUFFICES ASSUME Bad # {} PROVE FALSE
    OBVIOUS
  <2>1. PICK k \in Bad : \A m \in Bad : k <= m
    <3>1. Bad \subseteq Nat
      OBVIOUS
    <3> HIDE DEF Bad
    <3> QED
      BY <3>1, LeastOne
  <2>2. k # 0
    <3>2. [d \in D |-> x0] \in Good(0)
      OBVIOUS
    <3> QED
      BY <3>2
  <2>3. k \in Nat /\ k - 1 \in Nat
    BY <2>2
  <2>4. PICK f \in [D -> X] : f \in Good(k - 1)
    <3>1. k - 1 \notin Bad
      <4> HIDE DEF Bad
      <4> QED
        BY <2>1, <2>3
    <3> QED
      BY <2>3, <3>1
  <2> DEFINE g == [d \in D |-> H[<<d, f>>]]
  <2>5. g \in [D -> X]
    BY DEF Descends
  <2>6. ASSUME NEW d \in D, left[d] < k PROVE g[d] = H[<<d, g>>]
    <3>1. ASSUME NEW e \in D, left[e] < left[d] PROVE f[e] = g[e]
      <4>1. left[e] < k - 1
        BY <2>3, <2>6, <3>1
      <4> QED
        BY <2>4, <4>1
    <3>2. H[<<d, f>>] = H[<<d, g>>]
      <4> HIDE DEF g
      <4> QED
        BY <2>5, <3>1, ZenonT(60) DEF Descends
    <3> QED
      BY <3>2
  <2>7. g \in Good(k)
    <3> HIDE DEF g
    <3> QED
      BY <2>5, <2>6
  <2> QED
    BY <2>1, <2>7
<1>2. PICK f \in [D -> X] : f \in Good(K + 1)
  <2>1. K + 1 \in Nat /\ K + 1 \notin Bad
    <3> HIDE DEF Bad
    <3> QED
      BY <1>1
  <2>2. Good(K + 1) # {}
    <3> HIDE DEF Good
    <3> QED
      BY <2>1
  <2> QED
    BY <2>2
<1>3. \A d \in D : f[d] = H[<<d, f>>]
  BY <1>2
<1> QED
  BY <1>3 DEF Solves

\* What the walk from each place is.
Walks(walk, n, m, equal, longest) ==
  \A i \in 1..n + 1, j \in 1..m + 1 :
    walk[<<i, j>>] =
      IF i > n \/ j > m THEN {}
      ELSE IF <<i, j>> \in equal THEN {<<i, j>>} \cup walk[<<i + 1, j + 1>>]
      ELSE IF longest[<<i + 1, j>>] >= longest[<<i, j + 1>>]
           THEN walk[<<i + 1, j>>] ELSE walk[<<i, j + 1>>]

LEMMA WalkGoesOn ==
  ASSUME NEW n \in Nat, NEW m \in Nat, NEW equal, NEW longest
  PROVE  \E walk : /\ Walk(n, m, equal, longest) = walk[<<1, 1>>]
                   /\ Walks(walk, n, m, equal, longest)
<1> DEFINE D == (1..n + 1) \X (1..m + 1)
           X == SUBSET ((1..n + 1) \X (1..m + 1))
           Step(p, f) == IF p[1] > n \/ p[2] > m THEN {}
                         ELSE IF p \in equal THEN {p} \cup f[<<p[1] + 1, p[2] + 1>>]
                         ELSE IF longest[<<p[1] + 1, p[2]>>] >= longest[<<p[1], p[2] + 1>>]
                              THEN f[<<p[1] + 1, p[2]>>] ELSE f[<<p[1], p[2] + 1>>]
           H == [a \in D \X [D -> X] |-> Step(a[1], a[2])]
           left == [p \in D |-> n + m + 2 - p[1] - p[2]]
<1>1. \A p \in D : /\ p = <<p[1], p[2]>> /\ p[1] \in 1..n + 1 /\ p[2] \in 1..m + 1
                   /\ ~(p[1] > n \/ p[2] > m) =>
                        {<<p[1] + 1, p[2] + 1>>, <<p[1] + 1, p[2]>>, <<p[1], p[2] + 1>>} \subseteq D
  OBVIOUS
<1>2. left \in [D -> 0..n + m]
  BY <1>1
<1>3. \A p \in D : \A f \in [D -> X] : Step(p, f) \in X
  <2> TAKE p \in D
  <2> TAKE f \in [D -> X]
  <2>1. CASE p[1] > n \/ p[2] > m
    BY <2>1
  <2>2. CASE ~(p[1] > n \/ p[2] > m)
    <3>1. \A q \in {<<p[1] + 1, p[2] + 1>>, <<p[1] + 1, p[2]>>, <<p[1], p[2] + 1>>} : f[q] \in X
      BY <1>1, <2>2
    <3> QED
      BY <2>2, <3>1
  <2> QED
    BY <2>1, <2>2
<1>4. H \in [D \X [D -> X] -> X]
  <2> HIDE DEF Step, D, X
  <2> QED
    BY <1>3
<1>5. ASSUME NEW p \in D, NEW f \in [D -> X], NEW g \in [D -> X],
             \A q \in D : left[q] < left[p] => f[q] = g[q]
      PROVE  H[<<p, f>>] = H[<<p, g>>]
  <2>1. H[<<p, f>>] = Step(p, f) /\ H[<<p, g>>] = Step(p, g)
    <3> HIDE DEF Step, D, X
    <3> QED
      OBVIOUS
  <2>2. CASE p[1] > n \/ p[2] > m
    BY <2>1, <2>2
  <2>3. CASE ~(p[1] > n \/ p[2] > m)
    <3>1. \A q \in {<<p[1] + 1, p[2] + 1>>, <<p[1] + 1, p[2]>>, <<p[1], p[2] + 1>>} :
            q \in D /\ left[q] < left[p]
      BY <1>1, <2>3
    <3>2. \A q \in {<<p[1] + 1, p[2] + 1>>, <<p[1] + 1, p[2]>>, <<p[1], p[2] + 1>>} : f[q] = g[q]
      BY <1>5, <3>1
    <3>3. Step(p, f) = Step(p, g)
      BY <3>2
    <3> QED
      BY <2>1, <3>3
  <2> QED
    BY <2>2, <2>3
<1>6. \E f : Solves(f, H, D, X)
  <2> DEFINE K == n + m
  <2>1. {} \in X /\ K \in Nat
    OBVIOUS
  <2>4. left \in [D -> 0..K]
    <3> HIDE DEF left, D
    <3> QED
      BY <1>2
  <2> HIDE DEF H, left, D, X, K
  <2>2. \A p \in D : \A f, g \in [D -> X] :
          (\A q \in D : left[q] < left[p] => f[q] = g[q]) => H[<<p, f>>] = H[<<p, g>>]
    BY <1>5
  <2>3. Descends(H, D, X, left)
    BY <1>4, <2>2 DEF Descends
  <2> QED
    BY <2>1, <2>3, <2>4, RecursionEnds
<1> DEFINE walk == CHOOSE f : f = [p \in D |-> Step(p, f)]
<1>7. walk = [p \in D |-> Step(p, walk)]
  <2>1. PICK f \in [D -> X] : \A p \in D : f[p] = H[<<p, f>>]
    BY <1>6 DEF Solves
  <2>2. \A p \in D : H[<<p, f>>] = Step(p, f)
    <3> HIDE DEF Step, D, X
    <3> QED
      OBVIOUS
  <2>3. f = [p \in D |-> Step(p, f)]
    <3> HIDE DEF Step, D, X, H
    <3> QED
      BY <2>1, <2>2
  <2> HIDE DEF Step, D
  <2> QED
    BY <2>3
<1>8. Walk(n, m, equal, longest) = walk[<<1, 1>>]
  BY DEF Walk
<1>9. \A i \in 1..n + 1, j \in 1..m + 1 : <<i, j>> \in D /\ walk[<<i, j>>] = Step(<<i, j>>, walk)
  <2> HIDE DEF walk, Step
  <2> QED
    BY <1>7
<1> HIDE DEF walk, D
<1>10. Walks(walk, n, m, equal, longest)
  <2> USE DEF Walks
  <2> TAKE i \in 1..n + 1, j \in 1..m + 1
  <2>1. walk[<<i, j>>] = Step(<<i, j>>, walk)
    BY <1>9
  <2>2. <<i, j>>[1] = i /\ <<i, j>>[2] = j
    OBVIOUS
  <2> QED
    BY <2>1, <2>2
<1> QED
  BY <1>8, <1>10

\* Of two pairs, one comes first on both sides.
Chain(pairs) ==
  \A p, q \in pairs : \/ p = q
                      \/ p[1] < q[1] /\ p[2] < q[2]
                      \/ q[1] < p[1] /\ q[2] < p[2]

LEMMA WalkIsChain ==
  ASSUME NEW n \in Nat, NEW m \in Nat, NEW equal, NEW longest
  PROVE  Walk(n, m, equal, longest) \subseteq (1..n) \X (1..m) /\ Chain(Walk(n, m, equal, longest))
<1>1. PICK walk :
        /\ Walk(n, m, equal, longest) = walk[<<1, 1>>]
        /\ Walks(walk, n, m, equal, longest)
  BY WalkGoesOn
<1> DEFINE Good(i, j) == walk[<<i, j>>] \subseteq (i..n) \X (j..m) /\ Chain(walk[<<i, j>>])
           Bad == {k \in Nat : \E i \in 1..n + 1, j \in 1..m + 1 : k = n + m + 2 - i - j /\ ~Good(i, j)}
<1>2. ASSUME NEW k \in Bad, \A l \in Bad : k <= l PROVE FALSE
  <2>1. PICK i \in 1..n + 1, j \in 1..m + 1 : k = n + m + 2 - i - j /\ ~Good(i, j)
    OBVIOUS
  <2>2. \A a \in 1..n + 1, b \in 1..m + 1 : a + b > i + j => Good(a, b)
    <3> SUFFICES ASSUME NEW a \in 1..n + 1, NEW b \in 1..m + 1, a + b > i + j, ~Good(a, b)
                 PROVE  FALSE
      OBVIOUS
    <3> HIDE DEF Good
    <3>1. n + m + 2 - a - b \in Bad /\ n + m + 2 - a - b < k
      BY <2>1
    <3> HIDE DEF Bad
    <3> QED
      BY <1>2, <2>1, <3>1
  <2>3. CASE i > n \/ j > m
    <3>1. walk[<<i, j>>] = {}
      BY <1>1, <2>3 DEF Walks
    <3> QED
      BY <2>1, <3>1 DEF Chain
  <2>4. CASE ~(i > n \/ j > m) /\ <<i, j>> \in equal
    <3>1. walk[<<i, j>>] = {<<i, j>>} \cup walk[<<i + 1, j + 1>>]
      BY <1>1, <2>4 DEF Walks
    <3>2. Good(i + 1, j + 1)
      BY <2>2, <2>4
    <3>3. \A p \in walk[<<i + 1, j + 1>>] : p \in (i + 1..n) \X (j + 1..m) /\ i < p[1] /\ j < p[2]
      BY <3>2
    <3>4. walk[<<i, j>>] \subseteq (i..n) \X (j..m)
      BY <2>4, <3>1, <3>3
    <3>5. Chain(walk[<<i, j>>])
      BY <3>1, <3>2, <3>3 DEF Chain
    <3> QED
      BY <2>1, <3>4, <3>5
  <2>5. CASE ~(i > n \/ j > m) /\ <<i, j>> \notin equal
    <3>1. walk[<<i, j>>] \in {walk[<<i + 1, j>>], walk[<<i, j + 1>>]}
      BY <1>1, <2>5 DEF Walks
    <3>2. Good(i + 1, j) /\ Good(i, j + 1)
      BY <2>2, <2>5
    <3>3. walk[<<i, j>>] \subseteq (i..n) \X (j..m)
      BY <3>1, <3>2
    <3> QED
      BY <2>1, <3>1, <3>2, <3>3
  <2> QED
    BY <2>3, <2>4, <2>5
<1>3. Bad = {}
  <2>1. Bad \subseteq Nat
    OBVIOUS
  <2> HIDE DEF Bad
  <2> QED
    BY <1>2, <2>1, LeastOne
<1>4. Good(1, 1)
  <2>1. n + m + 2 - 1 - 1 \notin Bad
    <3> HIDE DEF Bad
    <3> QED
      BY <1>3
  <2>2. n + m + 2 - 1 - 1 \in Nat /\ 1 \in 1..n + 1 /\ 1 \in 1..m + 1
    OBVIOUS
  <2> HIDE DEF Good
  <2> QED
    BY <2>1, <2>2
<1> QED
  BY <1>1, <1>4

\* What the table of lengths holds.
Measures(longest, n, m, equal) ==
  \A i \in 1..n + 1, j \in 1..m + 1 :
    /\ longest[<<i, j>>] \in Nat
    /\ longest[<<i, j>>] =
         IF i > n \/ j > m THEN 0
         ELSE IF <<i, j>> \in equal THEN longest[<<i + 1, j + 1>>] + 1
         ELSE IF longest[<<i + 1, j>>] >= longest[<<i, j + 1>>]
              THEN longest[<<i + 1, j>>] ELSE longest[<<i, j + 1>>]

LEMMA LengthsMeasure ==
  ASSUME NEW n \in Nat, NEW m \in Nat, NEW equal
  PROVE  Measures(Lengths(n, m, equal), n, m, equal)
<1> DEFINE D == (1..n + 1) \X (1..m + 1)
           X == Nat
           Step(p, f) == IF p[1] > n \/ p[2] > m THEN 0
                         ELSE IF p \in equal THEN f[<<p[1] + 1, p[2] + 1>>] + 1
                         ELSE IF f[<<p[1] + 1, p[2]>>] >= f[<<p[1], p[2] + 1>>]
                              THEN f[<<p[1] + 1, p[2]>>] ELSE f[<<p[1], p[2] + 1>>]
           H == [a \in D \X [D -> X] |-> Step(a[1], a[2])]
           left == [p \in D |-> n + m + 2 - p[1] - p[2]]
<1>1. \A p \in D : /\ p = <<p[1], p[2]>> /\ p[1] \in 1..n + 1 /\ p[2] \in 1..m + 1
                   /\ ~(p[1] > n \/ p[2] > m) =>
                        {<<p[1] + 1, p[2] + 1>>, <<p[1] + 1, p[2]>>, <<p[1], p[2] + 1>>} \subseteq D
  OBVIOUS
<1>2. left \in [D -> 0..n + m]
  BY <1>1
<1>3. \A p \in D : \A f \in [D -> X] : Step(p, f) \in X
  <2> TAKE p \in D
  <2> TAKE f \in [D -> X]
  <2>1. CASE p[1] > n \/ p[2] > m
    BY <2>1
  <2>2. CASE ~(p[1] > n \/ p[2] > m)
    <3>1. \A q \in {<<p[1] + 1, p[2] + 1>>, <<p[1] + 1, p[2]>>, <<p[1], p[2] + 1>>} : f[q] \in Nat
      BY <1>1, <2>2
    <3> QED
      BY <2>2, <3>1
  <2> QED
    BY <2>1, <2>2
<1>4. H \in [D \X [D -> X] -> X]
  <2> HIDE DEF Step, D, X
  <2> QED
    BY <1>3
<1>5. ASSUME NEW p \in D, NEW f \in [D -> X], NEW g \in [D -> X],
             \A q \in D : left[q] < left[p] => f[q] = g[q]
      PROVE  H[<<p, f>>] = H[<<p, g>>]
  <2>1. H[<<p, f>>] = Step(p, f) /\ H[<<p, g>>] = Step(p, g)
    <3> HIDE DEF Step, D, X
    <3> QED
      OBVIOUS
  <2>2. CASE p[1] > n \/ p[2] > m
    BY <2>1, <2>2
  <2>3. CASE ~(p[1] > n \/ p[2] > m)
    <3>1. \A q \in {<<p[1] + 1, p[2] + 1>>, <<p[1] + 1, p[2]>>, <<p[1], p[2] + 1>>} :
            q \in D /\ left[q] < left[p]
      BY <1>1, <2>3
    <3>2. \A q \in {<<p[1] + 1, p[2] + 1>>, <<p[1] + 1, p[2]>>, <<p[1], p[2] + 1>>} : f[q] = g[q]
      BY <1>5, <3>1
    <3>3. Step(p, f) = Step(p, g)
      BY <3>2
    <3> QED
      BY <2>1, <3>3
  <2> QED
    BY <2>2, <2>3
<1>6. \E f : Solves(f, H, D, X)
  <2> DEFINE K == n + m
  <2>1. 0 \in X /\ K \in Nat
    OBVIOUS
  <2>4. left \in [D -> 0..K]
    <3> HIDE DEF left, D
    <3> QED
      BY <1>2
  <2> HIDE DEF H, left, D, X, K
  <2>2. \A p \in D : \A f, g \in [D -> X] :
          (\A q \in D : left[q] < left[p] => f[q] = g[q]) => H[<<p, f>>] = H[<<p, g>>]
    BY <1>5
  <2>3. Descends(H, D, X, left)
    BY <1>4, <2>2 DEF Descends
  <2> QED
    BY <2>1, <2>3, <2>4, RecursionEnds
<1>7. \E f : f \in [D -> X] /\ f = [p \in D |-> Step(p, f)]
  <2>1. PICK f \in [D -> X] : \A p \in D : f[p] = H[<<p, f>>]
    BY <1>6 DEF Solves
  <2>2. \A p \in D : H[<<p, f>>] = Step(p, f)
    <3> HIDE DEF Step, D, X
    <3> QED
      OBVIOUS
  <2>3. f = [p \in D |-> Step(p, f)]
    <3> HIDE DEF Step, D, X, H
    <3> QED
      BY <2>1, <2>2
  <2> HIDE DEF Step, D
  <2> QED
    BY <2>3
<1> DEFINE longest == CHOOSE f : f = [p \in D |-> Step(p, f)]
<1>8. longest = [p \in D |-> Step(p, longest)]
  <2> HIDE DEF Step, D, X
  <2> QED
    BY <1>7
<1>9. Lengths(n, m, equal) = longest
  BY DEF Lengths
<1>10. \A i \in 1..n + 1, j \in 1..m + 1 :
         <<i, j>> \in D /\ longest[<<i, j>>] = Step(<<i, j>>, longest)
  <2> HIDE DEF longest, Step
  <2> QED
    BY <1>8
<1> HIDE DEF longest, D
<1>11. \A i \in 1..n + 1, j \in 1..m + 1 :
         longest[<<i, j>>] =
           IF i > n \/ j > m THEN 0
           ELSE IF <<i, j>> \in equal THEN longest[<<i + 1, j + 1>>] + 1
           ELSE IF longest[<<i + 1, j>>] >= longest[<<i, j + 1>>]
                THEN longest[<<i + 1, j>>] ELSE longest[<<i, j + 1>>]
  <2> TAKE i \in 1..n + 1, j \in 1..m + 1
  <2>1. longest[<<i, j>>] = Step(<<i, j>>, longest)
    BY <1>10
  <2>2. <<i, j>>[1] = i /\ <<i, j>>[2] = j
    OBVIOUS
  <2> QED
    BY <2>1, <2>2
<1> DEFINE Bad == {k \in Nat : \E i \in 1..n + 1, j \in 1..m + 1 :
                     k = n + m + 2 - i - j /\ longest[<<i, j>>] \notin Nat}
<1>12. ASSUME NEW k \in Bad, \A l \in Bad : k <= l PROVE FALSE
  <2>1. PICK i \in 1..n + 1, j \in 1..m + 1 :
          k = n + m + 2 - i - j /\ longest[<<i, j>>] \notin Nat
    OBVIOUS
  <2>2. \A a \in 1..n + 1, b \in 1..m + 1 : a + b > i + j => longest[<<a, b>>] \in Nat
    <3> SUFFICES ASSUME NEW a \in 1..n + 1, NEW b \in 1..m + 1, a + b > i + j,
                        longest[<<a, b>>] \notin Nat
                 PROVE  FALSE
      OBVIOUS
    <3>1. n + m + 2 - a - b \in Bad /\ n + m + 2 - a - b < k
      BY <2>1
    <3> HIDE DEF Bad
    <3> QED
      BY <1>12, <2>1, <3>1
  <2>3. CASE i > n \/ j > m
    <3>1. longest[<<i, j>>] = 0
      BY <1>11, <2>3
    <3> QED
      BY <2>1, <3>1
  <2>4. CASE ~(i > n \/ j > m)
    <3>1. /\ longest[<<i + 1, j + 1>>] \in Nat /\ longest[<<i + 1, j>>] \in Nat
          /\ longest[<<i, j + 1>>] \in Nat
      BY <2>2, <2>4
    <3>2. longest[<<i, j>>] \in {longest[<<i + 1, j + 1>>] + 1, longest[<<i + 1, j>>],
                                  longest[<<i, j + 1>>]}
      BY <1>11, <2>4
    <3> QED
      BY <2>1, <3>1, <3>2
  <2> QED
    BY <2>3, <2>4
<1>13. Bad = {}
  <2>1. Bad \subseteq Nat
    OBVIOUS
  <2> HIDE DEF Bad
  <2> QED
    BY <1>12, <2>1, LeastOne
<1>14. ASSUME NEW i \in 1..n + 1, NEW j \in 1..m + 1 PROVE longest[<<i, j>>] \in Nat
  <2>1. n + m + 2 - i - j \notin Bad /\ n + m + 2 - i - j \in Nat
    <3> HIDE DEF Bad
    <3> QED
      BY <1>13
  <2> QED
    BY <2>1
<1> QED
  BY <1>9, <1>11, <1>14 DEF Measures

\* A part of a table is finite.
LEMMA PairsAreFinite ==
  ASSUME NEW n \in Nat, NEW m \in Nat, NEW pairs, pairs \subseteq (1..n) \X (1..m)
  PROVE  IsFiniteSet(pairs)
<1>1. IsFiniteSet(1..n) /\ IsFiniteSet(1..m)
  BY FS_Interval
<1>2. IsFiniteSet((1..n) \X (1..m))
  BY <1>1, FS_Product
<1> QED
  BY <1>2, FS_Subset

\* What is left of a chain once the first row and the first column are gone: all but one.
LEMMA ChainShortens ==
  ASSUME NEW n \in Nat, NEW m \in Nat, NEW i \in 1..n, NEW j \in 1..m, NEW pairs,
         Chain(pairs), pairs \subseteq (i..n) \X (j..m)
  PROVE  /\ \E p : pairs \ {p} \subseteq (i + 1..n) \X (j + 1..m)
         /\ <<i, j>> \notin pairs => \/ pairs \subseteq (i + 1..n) \X (j..m)
                                     \/ pairs \subseteq (i..n) \X (j + 1..m)
<1>1. \A p \in pairs : p = <<p[1], p[2]>> /\ p[1] \in i..n /\ p[2] \in j..m
  OBVIOUS
<1>2. ASSUME NEW p \in pairs, NEW q \in pairs, p # q, p[1] = i \/ p[2] = j
      PROVE  i < q[1] /\ j < q[2]
  BY <1>1, <1>2 DEF Chain
<1>3. CASE \E p \in pairs : p[1] = i \/ p[2] = j
  <2>1. PICK p \in pairs : p[1] = i \/ p[2] = j
    BY <1>3
  <2>2. \A q \in pairs \ {p} : i < q[1] /\ j < q[2]
    BY <1>2, <2>1
  <2>3. pairs \ {p} \subseteq (i + 1..n) \X (j + 1..m)
    BY <1>1, <2>2
  <2>4. ASSUME <<i, j>> \notin pairs
        PROVE  \/ \A q \in pairs : i < q[1]
               \/ \A q \in pairs : j < q[2]
    <3>1. p[1] # i \/ p[2] # j
      BY <1>1, <2>4
    <3>2. CASE p[1] # i
      BY <1>1, <2>2, <3>2
    <3>3. CASE p[2] # j
      BY <1>1, <2>2, <3>3
    <3> QED
      BY <3>1, <3>2, <3>3
  <2>5. (\A q \in pairs : i < q[1]) => pairs \subseteq (i + 1..n) \X (j..m)
    BY <1>1
  <2>6. (\A q \in pairs : j < q[2]) => pairs \subseteq (i..n) \X (j + 1..m)
    BY <1>1
  <2> QED
    BY <2>3, <2>4, <2>5, <2>6
<1>4. CASE \A p \in pairs : p[1] # i /\ p[2] # j
  <2>1. pairs \subseteq (i + 1..n) \X (j + 1..m)
    BY <1>1, <1>4
  <2> QED
    BY <1>1, <2>1
<1> QED
  BY <1>3, <1>4

\* No chain of pairs that are equal has more of them than the table says.
LEMMA NoneIsLonger ==
  ASSUME NEW n \in Nat, NEW m \in Nat, NEW equal, NEW longest, Measures(longest, n, m, equal),
         NEW pairs, Chain(pairs), pairs \subseteq equal \cap ((1..n) \X (1..m))
  PROVE  Cardinality(pairs) <= longest[<<1, 1>>]
<1> DEFINE Fits(c, i, j) == Chain(c) /\ c \subseteq equal \cap ((i..n) \X (j..m))
           Good(i, j) == \A c : Fits(c, i, j) => Cardinality(c) <= longest[<<i, j>>]
           Bad == {k \in Nat : \E i \in 1..n + 1, j \in 1..m + 1 : k = n + m + 2 - i - j /\ ~Good(i, j)}
<1>1. \A c : \A i \in 1..n + 1, j \in 1..m + 1 :
        Fits(c, i, j) => IsFiniteSet(c) /\ Cardinality(c) \in Nat
  <2> SUFFICES ASSUME NEW c, NEW i \in 1..n + 1, NEW j \in 1..m + 1, Fits(c, i, j)
               PROVE  IsFiniteSet(c) /\ Cardinality(c) \in Nat
    OBVIOUS
  <2>1. c \subseteq (1..n) \X (1..m)
    OBVIOUS
  <2>2. IsFiniteSet(c)
    BY <2>1, PairsAreFinite
  <2> QED
    BY <2>2, FS_CardinalityType
<1>2. ASSUME NEW k \in Bad, \A l \in Bad : k <= l PROVE FALSE
  <2>1. PICK i \in 1..n + 1, j \in 1..m + 1 : k = n + m + 2 - i - j /\ ~Good(i, j)
    OBVIOUS
  <2>2. \A a \in 1..n + 1, b \in 1..m + 1 : a + b > i + j => Good(a, b)
    <3> SUFFICES ASSUME NEW a \in 1..n + 1, NEW b \in 1..m + 1, a + b > i + j, ~Good(a, b)
                 PROVE  FALSE
      OBVIOUS
    <3> HIDE DEF Good
    <3>1. n + m + 2 - a - b \in Bad /\ n + m + 2 - a - b < k
      BY <2>1
    <3> HIDE DEF Bad
    <3> QED
      BY <1>2, <2>1, <3>1
  <2>3. PICK c : Fits(c, i, j) /\ ~(Cardinality(c) <= longest[<<i, j>>])
    BY <2>1
  <2>4. CASE i > n \/ j > m
    <3>1. c = {}
      BY <2>3, <2>4
    <3>2. longest[<<i, j>>] = 0
      BY <2>4 DEF Measures
    <3> QED
      BY <2>3, <3>1, <3>2, FS_EmptySet
  <2>5. CASE ~(i > n \/ j > m)
    <3>1. i \in 1..n /\ j \in 1..m
      BY <2>5
    <3>2. Chain(c) /\ c \subseteq equal /\ c \subseteq (i..n) \X (j..m)
      BY <2>3
    <3>3. IsFiniteSet(c) /\ Cardinality(c) \in Nat
      BY <1>1, <2>3
    <3>4. Good(i + 1, j + 1) /\ Good(i + 1, j) /\ Good(i, j + 1)
      <4> HIDE DEF Good
      <4> QED
        BY <2>2, <3>1
    <3>5. CASE <<i, j>> \in equal
      <4>1. PICK p : c \ {p} \subseteq (i + 1..n) \X (j + 1..m)
        BY <3>1, <3>2, ChainShortens
      <4>2. Fits(c \ {p}, i + 1, j + 1)
        BY <3>2, <4>1 DEF Chain
      <4>3. Cardinality(c \ {p}) <= longest[<<i + 1, j + 1>>]
        <5> HIDE DEF Fits
        <5> QED
          BY <3>4, <4>2
      <4>4. longest[<<i, j>>] = longest[<<i + 1, j + 1>>] + 1 /\ longest[<<i + 1, j + 1>>] \in Nat
        <5>1. i + 1 \in 1..n + 1 /\ j + 1 \in 1..m + 1 /\ ~(i > n \/ j > m)
          BY <3>1
        <5>2. longest[<<i, j>>] = longest[<<i + 1, j + 1>>] + 1
          BY <3>5, <5>1 DEF Measures
        <5>3. longest[<<i + 1, j + 1>>] \in Nat
          BY <5>1 DEF Measures
        <5> QED
          BY <5>2, <5>3
      <4>5. CASE p \in c
        <5>1. Cardinality(c \ {p}) = Cardinality(c) - 1
          BY <3>3, <4>5, FS_RemoveElement
        <5> QED
          BY <2>3, <3>3, <4>3, <4>4, <5>1
      <4>6. CASE p \notin c
        <5>1. c \ {p} = c
          BY <4>6
        <5> QED
          BY <2>3, <3>3, <4>3, <4>4, <5>1
      <4> QED
        BY <4>5, <4>6
    <3>6. CASE <<i, j>> \notin equal
      <4>1. c \subseteq (i + 1..n) \X (j..m) \/ c \subseteq (i..n) \X (j + 1..m)
        BY <3>1, <3>2, <3>6, ChainShortens
      <4>2. Fits(c, i + 1, j) \/ Fits(c, i, j + 1)
        BY <3>2, <4>1
      <4>3. Cardinality(c) <= longest[<<i + 1, j>>] \/ Cardinality(c) <= longest[<<i, j + 1>>]
        <5> HIDE DEF Fits
        <5> QED
          BY <3>4, <4>2
      <4>4. /\ longest[<<i + 1, j>>] \in Nat /\ longest[<<i, j + 1>>] \in Nat
            /\ longest[<<i, j>>] = IF longest[<<i + 1, j>>] >= longest[<<i, j + 1>>]
                                   THEN longest[<<i + 1, j>>] ELSE longest[<<i, j + 1>>]
        <5>1. i + 1 \in 1..n + 1 /\ j + 1 \in 1..m + 1 /\ ~(i > n \/ j > m)
          BY <3>1
        <5>2. longest[<<i + 1, j>>] \in Nat /\ longest[<<i, j + 1>>] \in Nat
          BY <5>1 DEF Measures
        <5>3. longest[<<i, j>>] = IF longest[<<i + 1, j>>] >= longest[<<i, j + 1>>]
                                  THEN longest[<<i + 1, j>>] ELSE longest[<<i, j + 1>>]
          BY <3>6, <5>1 DEF Measures
        <5> QED
          BY <5>2, <5>3
      <4> QED
        BY <2>3, <3>3, <4>3, <4>4
    <3> QED
      BY <3>5, <3>6
  <2> QED
    BY <2>4, <2>5
<1>3. Bad = {}
  <2>1. Bad \subseteq Nat
    OBVIOUS
  <2> HIDE DEF Bad
  <2> QED
    BY <1>2, <2>1, LeastOne
<1>4. Good(1, 1)
  <2>1. n + m + 2 - 1 - 1 \notin Bad
    <3> HIDE DEF Bad
    <3> QED
      BY <1>3
  <2>2. n + m + 2 - 1 - 1 \in Nat /\ 1 \in 1..n + 1 /\ 1 \in 1..m + 1
    OBVIOUS
  <2> HIDE DEF Good
  <2> QED
    BY <2>1, <2>2
<1> QED
  BY <1>4

\* The walk takes pairs that are equal, as many as the table says.
LEMMA WalkIsThatLong ==
  ASSUME NEW n \in Nat, NEW m \in Nat, NEW equal, NEW longest, Measures(longest, n, m, equal)
  PROVE  /\ Walk(n, m, equal, longest) \subseteq equal
         /\ Cardinality(Walk(n, m, equal, longest)) = longest[<<1, 1>>]
<1>1. PICK walk :
        /\ Walk(n, m, equal, longest) = walk[<<1, 1>>]
        /\ Walks(walk, n, m, equal, longest)
  BY WalkGoesOn
<1> DEFINE Good(i, j) == /\ walk[<<i, j>>] \subseteq equal \cap ((i..n) \X (j..m))
                         /\ IsFiniteSet(walk[<<i, j>>])
                         /\ Cardinality(walk[<<i, j>>]) = longest[<<i, j>>]
           Bad == {k \in Nat : \E i \in 1..n + 1, j \in 1..m + 1 : k = n + m + 2 - i - j /\ ~Good(i, j)}
<1>2. ASSUME NEW k \in Bad, \A l \in Bad : k <= l PROVE FALSE
  <2>1. PICK i \in 1..n + 1, j \in 1..m + 1 : k = n + m + 2 - i - j /\ ~Good(i, j)
    OBVIOUS
  <2>2. \A a \in 1..n + 1, b \in 1..m + 1 : a + b > i + j => Good(a, b)
    <3> SUFFICES ASSUME NEW a \in 1..n + 1, NEW b \in 1..m + 1, a + b > i + j, ~Good(a, b)
                 PROVE  FALSE
      OBVIOUS
    <3> HIDE DEF Good
    <3>1. n + m + 2 - a - b \in Bad /\ n + m + 2 - a - b < k
      BY <2>1
    <3> HIDE DEF Bad
    <3> QED
      BY <1>2, <2>1, <3>1
  <2>3. CASE i > n \/ j > m
    <3>1. walk[<<i, j>>] = {} /\ longest[<<i, j>>] = 0
      BY <1>1, <2>3 DEF Walks, Measures
    <3> QED
      BY <2>1, <3>1, FS_EmptySet
  <2>4. CASE ~(i > n \/ j > m) /\ <<i, j>> \in equal
    <3> DEFINE rest == walk[<<i + 1, j + 1>>]
    <3>1. walk[<<i, j>>] = rest \cup {<<i, j>>} /\ longest[<<i, j>>] = longest[<<i + 1, j + 1>>] + 1
      BY <1>1, <2>4 DEF Walks, Measures
    <3>2. Good(i + 1, j + 1)
      BY <2>2, <2>4
    <3>3. \A p \in rest : p \in equal /\ p \in (i + 1..n) \X (j + 1..m)
      BY <3>2
    <3>4. walk[<<i, j>>] \subseteq equal \cap ((i..n) \X (j..m))
      <4>1. <<i, j>> \in (i..n) \X (j..m)
        BY <2>4
      <4>2. (i + 1..n) \X (j + 1..m) \subseteq (i..n) \X (j..m)
        OBVIOUS
      <4> HIDE DEF rest
      <4> QED
        BY <2>4, <3>1, <3>3, <4>1, <4>2
    <3>5. <<i, j>> \notin rest
      BY <3>3
    <3>6. IsFiniteSet(rest) /\ Cardinality(rest) = longest[<<i + 1, j + 1>>]
      BY <3>2
    <3> HIDE DEF rest
    <3>7. IsFiniteSet(rest \cup {<<i, j>>}) /\ Cardinality(rest \cup {<<i, j>>}) = Cardinality(rest) + 1
      BY <3>5, <3>6, FS_AddElement
    <3> QED
      BY <2>1, <3>1, <3>4, <3>6, <3>7
  <2>5. CASE ~(i > n \/ j > m) /\ <<i, j>> \notin equal
    <3>1. \/ walk[<<i, j>>] = walk[<<i + 1, j>>] /\ longest[<<i, j>>] = longest[<<i + 1, j>>]
          \/ walk[<<i, j>>] = walk[<<i, j + 1>>] /\ longest[<<i, j>>] = longest[<<i, j + 1>>]
      BY <1>1, <2>5 DEF Walks, Measures
    <3>2. Good(i + 1, j) /\ Good(i, j + 1)
      BY <2>2, <2>5
    <3>3. (i + 1..n) \X (j..m) \subseteq (i..n) \X (j..m) /\ (i..n) \X (j + 1..m) \subseteq (i..n) \X (j..m)
      OBVIOUS
    <3> QED
      BY <2>1, <3>1, <3>2, <3>3
  <2> QED
    BY <2>3, <2>4, <2>5
<1>3. Bad = {}
  <2>1. Bad \subseteq Nat
    OBVIOUS
  <2> HIDE DEF Bad
  <2> QED
    BY <1>2, <2>1, LeastOne
<1>4. Good(1, 1)
  <2>1. n + m + 2 - 1 - 1 \notin Bad
    <3> HIDE DEF Bad
    <3> QED
      BY <1>3
  <2>2. n + m + 2 - 1 - 1 \in Nat /\ 1 \in 1..n + 1 /\ 1 \in 1..m + 1
    OBVIOUS
  <2> HIDE DEF Good
  <2> QED
    BY <2>1, <2>2
<1> QED
  BY <1>1, <1>4

\* The anchors of a pairing are a longest common subsequence: results and findings of
\* equal shape in the same order in the file, and no such choice has more of them
\* (alignShifted).  Skipping greedily would still keep the order and lose pairs.
THEOREM AnchorsAreLongest ==
  ASSUME NEW n \in Nat, NEW m \in Nat, NEW equal
  PROVE  LET anchors == Walk(n, m, equal, Lengths(n, m, equal))
         IN /\ Chain(anchors) /\ anchors \subseteq equal \cap ((1..n) \X (1..m))
            /\ \A pairs : Chain(pairs) /\ pairs \subseteq equal \cap ((1..n) \X (1..m)) =>
                 Cardinality(pairs) <= Cardinality(anchors)
<1> DEFINE longest == Lengths(n, m, equal)
           anchors == Walk(n, m, equal, longest)
<1>1. Measures(longest, n, m, equal)
  BY LengthsMeasure
<1> HIDE DEF longest
<1>2. Chain(anchors) /\ anchors \subseteq (1..n) \X (1..m)
  BY WalkIsChain
<1>3. anchors \subseteq equal /\ Cardinality(anchors) = longest[<<1, 1>>]
  BY <1>1, WalkIsThatLong
<1>4. \A pairs : Chain(pairs) /\ pairs \subseteq equal \cap ((1..n) \X (1..m)) =>
        Cardinality(pairs) <= longest[<<1, 1>>]
  BY <1>1, NoneIsLonger
<1> HIDE DEF anchors
<1> QED
  BY <1>2, <1>3, <1>4 DEF anchors, longest

LEMMA AlignedIsChain ==
  ASSUME NEW n \in Nat, NEW m \in Nat, NEW anchors, anchors \subseteq (1..n) \X (1..m),
         Chain(anchors), NEW wide, NEW anchored
  PROVE  /\ Aligned(n, m, anchors, wide, anchored) \subseteq (1..n) \X (1..m)
         /\ Chain(Aligned(n, m, anchors, wide, anchored))
<1> DEFINE Ends == {<<0, 0>>} \cup anchors \cup {<<n + 1, m + 1>>}
           A == Aligned(n, m, anchors, wide, anchored)
<1>1. \A p \in Ends : p = <<p[1], p[2]>> /\ p[1] \in 0..n + 1 /\ p[2] \in 0..m + 1
  OBVIOUS
<1>2. Chain(Ends)
  <2> SUFFICES ASSUME NEW p \in Ends, NEW q \in Ends
               PROVE  p = q \/ (p[1] < q[1] /\ p[2] < q[2]) \/ (q[1] < p[1] /\ q[2] < p[2])
    BY DEF Chain
  <2>1. CASE p \in anchors /\ q \in anchors
    BY <2>1 DEF Chain
  <2>2. CASE p = <<0, 0>> \/ q = <<0, 0>>
    BY <2>2
  <2>3. CASE p = <<n + 1, m + 1>> \/ q = <<n + 1, m + 1>>
    BY <2>3
  <2> QED
    BY <2>1, <2>2, <2>3
<1>3. \A q \in A : q \in anchors \/ \E p \in Ends : q = <<p[1] + 1, p[2] + 1>>
                                                 /\ <<p[1] + 2, p[2] + 2>> \in Ends
  BY DEF Aligned, Lone
<1>4. anchors \subseteq Ends
  OBVIOUS
<1> HIDE DEF Ends, A
<1>5. ASSUME NEW p \in Ends, <<p[1] + 2, p[2] + 2>> \in Ends
      PROVE  <<p[1] + 1, p[2] + 1>> \in (1..n) \X (1..m)
  <2>1. p[1] \in 0..n + 1 /\ p[2] \in 0..m + 1
    BY <1>1
  <2>2. p[1] + 2 \in 0..n + 1 /\ p[2] + 2 \in 0..m + 1
    <3>1. PICK r \in Ends : r = <<p[1] + 2, p[2] + 2>>
      BY <1>5
    <3> QED
      BY <1>1, <3>1
  <2> QED
    BY <2>1, <2>2
<1>6. A \subseteq (1..n) \X (1..m)
  BY <1>3, <1>5
<1>7. ASSUME NEW p \in Ends, NEW q \in Ends, <<p[1] + 2, p[2] + 2>> \in Ends
      PROVE  \/ q = <<p[1] + 1, p[2] + 1>>
             \/ q[1] < p[1] + 1 /\ q[2] < p[2] + 1
             \/ p[1] + 1 < q[1] /\ p[2] + 1 < q[2]
  <2>1. PICK r \in Ends : r = <<p[1] + 2, p[2] + 2>>
    BY <1>7
  <2>2. /\ p = q \/ (p[1] < q[1] /\ p[2] < q[2]) \/ (q[1] < p[1] /\ q[2] < p[2])
        /\ r = q \/ (r[1] < q[1] /\ r[2] < q[2]) \/ (q[1] < r[1] /\ q[2] < r[2])
    BY <1>2 DEF Chain
  <2>3. /\ p[1] \in Int /\ p[2] \in Int /\ q[1] \in Int /\ q[2] \in Int
        /\ r[1] = p[1] + 2 /\ r[2] = p[2] + 2 /\ q = <<q[1], q[2]>>
    BY <1>1, <2>1
  <2> QED
    BY <2>2, <2>3
<1>8. Chain(A)
  <2> SUFFICES ASSUME NEW a \in A, NEW b \in A
               PROVE  a = b \/ (a[1] < b[1] /\ a[2] < b[2]) \/ (b[1] < a[1] /\ b[2] < a[2])
    BY DEF Chain
  <2>1. CASE a \in anchors /\ b \in anchors
    BY <2>1 DEF Chain
  <2>2. CASE a \notin anchors /\ b \in anchors
    <3>1. PICK p \in Ends : a = <<p[1] + 1, p[2] + 1>> /\ <<p[1] + 2, p[2] + 2>> \in Ends
      BY <1>3, <2>2
    <3>2. a[1] = p[1] + 1 /\ a[2] = p[2] + 1 /\ b \in Ends
      BY <1>4, <2>2, <3>1
    <3> QED
      BY <1>7, <3>1, <3>2
  <2>3. CASE a \in anchors /\ b \notin anchors
    <3>1. PICK p \in Ends : b = <<p[1] + 1, p[2] + 1>> /\ <<p[1] + 2, p[2] + 2>> \in Ends
      BY <1>3, <2>3
    <3>2. b[1] = p[1] + 1 /\ b[2] = p[2] + 1 /\ a \in Ends
      BY <1>4, <2>3, <3>1
    <3> QED
      BY <1>7, <3>1, <3>2
  <2>4. CASE a \notin anchors /\ b \notin anchors
    <3>1. PICK p \in Ends : a = <<p[1] + 1, p[2] + 1>>
      BY <1>3, <2>4
    <3>2. PICK q \in Ends : b = <<q[1] + 1, q[2] + 1>>
      BY <1>3, <2>4
    <3>3. p = q \/ (p[1] < q[1] /\ p[2] < q[2]) \/ (q[1] < p[1] /\ q[2] < p[2])
      BY <1>2 DEF Chain
    <3>4. p[1] \in Int /\ p[2] \in Int /\ q[1] \in Int /\ q[2] \in Int
      BY <1>1
    <3> QED
      BY <3>1, <3>2, <3>3, <3>4
  <2> QED
    BY <2>1, <2>2, <2>3, <2>4
<1> QED
  BY <1>6, <1>8 DEF A

\* What a location is made of.
HasPlace(location) ==
  /\ location.startLine \in Int
  /\ \A part \in SpanDetail : PartOr0(location, part) \in Int

\* What file order goes by.
Position(locations, i) == Append(ByPosition(locations[i]), i)

LEMMA FileOrderIsSorted ==
  ASSUME NEW S, NEW locations \in Seq(S), \A i \in DOMAIN locations : HasPlace(locations[i])
  PROVE  /\ Enumerates(FileOrder(locations), DOMAIN locations)
         /\ \A i \in DOMAIN locations : Position(locations, i) \in [1..5 -> Int]
         /\ \A i, j \in DOMAIN FileOrder(locations) :
              i < j => Before(Position(locations, FileOrder(locations)[i]),
                              Position(locations, FileOrder(locations)[j]))
<1> DEFINE D == DOMAIN locations
           key == [i \in D |-> Position(locations, i)]
<1>1. D \subseteq Nat /\ IsFiniteSet(D)
  BY ListsAreFinite
<1>2. ASSUME NEW i \in D
      PROVE  Position(locations, i) \in [1..5 -> Int] /\ Position(locations, i)[5] = i
  <2>1. ByPosition(locations[i]) \in Seq(Int) /\ Len(ByPosition(locations[i])) = 4
    BY DEF HasPlace, ByPosition, SpanDetail
  <2>2. i \in Int
    BY <1>1
  <2> DEFINE b == ByPosition(locations[i])
  <2> HIDE DEF b
  <2>3. b \in Seq(Int) /\ Len(b) = 4
    BY <2>1 DEF b
  <2>4. /\ Append(b, i) \in Seq(Int) /\ Len(Append(b, i)) = 5
        /\ Append(b, i)[5] = i
    <3>1. /\ Append(b, i) \in Seq(Int)
          /\ Len(Append(b, i)) = Len(b) + 1
          /\ Append(b, i)[Len(b) + 1] = i
      <4>1. b \in Seq(Int)
        BY <2>3
      <4> QED
        BY <2>2, <4>1, AppendProperties, SMTT(30)
    <3>2. Len(b) + 1 = 5
      BY <2>3
    <3> QED
      BY <3>1, <3>2
  <2>5. Append(b, i) \in [1..5 -> Int]
    <3> DEFINE c == Append(b, i)
    <3>1. c \in Seq(Int) /\ Len(c) = 5
      BY <2>4
    <3> HIDE DEF c
    <3>2. c \in [1..Len(c) -> Int]
      BY <3>1, LenProperties
    <3>3. c \in [1..5 -> Int]
      BY <3>1, <3>2
    <3> QED
      BY <3>3 DEF c
  <2> QED
    BY <2>4, <2>5 DEF Position, b
<1>3. key \in [D -> [1..5 -> Int]]
  <2> HIDE DEF D
  <2> QED
    BY <1>2
<1>4. \A x, y \in D : key[x] = key[y] => x = y
  <2> TAKE x, y \in D
  <2>1. key[x][5] = x /\ key[y][5] = y
    BY <1>2
  <2> HIDE DEF key
  <2> QED
    BY <2>1
<1>5. FileOrder(locations) = InOrder(D, key)
  BY DEF FileOrder, Position
<1> HIDE DEF D
<1>6. \A i \in D : key[i] = Position(locations, i)
  OBVIOUS
<1> HIDE DEF key
<1>7. /\ Enumerates(InOrder(D, key), D)
      /\ \A i, j \in DOMAIN InOrder(D, key) :
           i < j => Before(key[InOrder(D, key)[i]], key[InOrder(D, key)[j]])
  BY <1>1, <1>3, <1>4, InOrderIsSorted
<1>8. \A i \in DOMAIN InOrder(D, key) : InOrder(D, key)[i] \in D
  BY <1>7 DEF Enumerates
<1>9. \A i \in D : Position(locations, i) \in [1..5 -> Int]
  BY <1>2
<1>10. \A i, j \in DOMAIN InOrder(D, key) :
         i < j => Before(Position(locations, InOrder(D, key)[i]),
                         Position(locations, InOrder(D, key)[j]))
  BY <1>6, <1>7, <1>8
<1>11. D = DOMAIN locations
  BY DEF D
<1> QED
  BY <1>5, <1>7, <1>9, <1>10, <1>11

\* The pairs of alignShifted: each result and each finding is in one pair at most, and the
\* pairs come in one order on both sides (drift-pairing.ts 43-103).
THEOREM PairingKeepsOrder ==
  ASSUME NEW S, NEW reported \in Seq(S), \A i \in DOMAIN reported : HasPlace(reported[i]),
         NEW T, NEW findings \in Seq(T), \A i \in DOMAIN findings : HasPlace(findings[i]),
         NEW anchored
  PROVE  \A p, q \in AlignShifted(reported, findings, anchored) :
           /\ p[1] \in DOMAIN reported /\ p[2] \in DOMAIN findings
           /\ p[1] = q[1] <=> p[2] = q[2]
           /\ Before(Position(reported, p[1]), Position(reported, q[1]))
                <=> Before(Position(findings, p[2]), Position(findings, q[2]))
<1> DEFINE left == FileOrder(reported)
           right == FileOrder(findings)
           equal == ShapePairs(reported, findings, left, right)
           n == Len(left)
           m == Len(right)
           walk == Walk(n, m, equal, Lengths(n, m, equal))
           A == InFileOrder(reported, findings, left, right, equal, anchored)
<1>1. /\ Enumerates(left, DOMAIN reported)
      /\ \A i \in DOMAIN reported : Position(reported, i) \in [1..5 -> Int]
      /\ \A i, j \in DOMAIN left :
           i < j => Before(Position(reported, left[i]), Position(reported, left[j]))
  BY FileOrderIsSorted
<1>2. /\ Enumerates(right, DOMAIN findings)
      /\ \A i \in DOMAIN findings : Position(findings, i) \in [1..5 -> Int]
      /\ \A i, j \in DOMAIN right :
           i < j => Before(Position(findings, right[i]), Position(findings, right[j]))
  BY FileOrderIsSorted
<1> HIDE DEF left, right
<1>3. DOMAIN left = 1..n /\ n \in Nat /\ DOMAIN right = 1..m /\ m \in Nat
  BY <1>1, <1>2 DEF Enumerates
<1>4. A = Aligned(n, m, walk, WidthPairs(reported, findings, left, right), anchored)
  BY DEF InFileOrder
<1> HIDE DEF n, m, equal
<1>5. walk \subseteq (1..n) \X (1..m) /\ Chain(walk)
  BY <1>3, WalkIsChain
<1> HIDE DEF walk, A
<1>6. A \subseteq (1..n) \X (1..m) /\ Chain(A)
  BY <1>3, <1>4, <1>5, AlignedIsChain
<1>7. AlignShifted(reported, findings, anchored) = {<<left[a[1]], right[a[2]]>> : a \in A}
  BY DEF AlignShifted, Paired, Reordered, A, equal, left, right
<1>8. ASSUME NEW a \in A, NEW b \in A
      PROVE  /\ left[a[1]] \in DOMAIN reported /\ right[a[2]] \in DOMAIN findings
             /\ left[a[1]] = left[b[1]] <=> right[a[2]] = right[b[2]]
             /\ Before(Position(reported, left[a[1]]), Position(reported, left[b[1]]))
                  <=> Before(Position(findings, right[a[2]]), Position(findings, right[b[2]]))
  <2>1. /\ a[1] \in DOMAIN left /\ b[1] \in DOMAIN left
        /\ a[2] \in DOMAIN right /\ b[2] \in DOMAIN right
        /\ a[1] \in Nat /\ b[1] \in Nat /\ a[2] \in Nat /\ b[2] \in Nat
    BY <1>3, <1>6
  <2>2. /\ left[a[1]] \in DOMAIN reported /\ left[b[1]] \in DOMAIN reported
        /\ right[a[2]] \in DOMAIN findings /\ right[b[2]] \in DOMAIN findings
    <3>1. \A k \in DOMAIN left : left[k] \in DOMAIN reported
      BY <1>1, MembersOfAList
    <3>2. \A k \in DOMAIN right : right[k] \in DOMAIN findings
      BY <1>2, MembersOfAList
    <3> QED
      BY <2>1, <3>1, <3>2
  <2>8. /\ left[a[1]] = left[b[1]] => a[1] = b[1]
        /\ right[a[2]] = right[b[2]] => a[2] = b[2]
    <3>1. \A i, j \in DOMAIN left : left[i] = left[j] => i = j
      BY <1>1, MembersOfAList
    <3>2. \A i, j \in DOMAIN right : right[i] = right[j] => i = j
      BY <1>2, MembersOfAList
    <3> QED
      BY <2>1, <3>1, <3>2
  <2> DEFINE x == Position(reported, left[a[1]])
             y == Position(reported, left[b[1]])
             u == Position(findings, right[a[2]])
             v == Position(findings, right[b[2]])
  <2>3. x \in [1..5 -> Int] /\ y \in [1..5 -> Int] /\ u \in [1..5 -> Int] /\ v \in [1..5 -> Int]
    BY <1>1, <1>2, <2>2
  <2>4. a = b \/ (a[1] < b[1] /\ a[2] < b[2]) \/ (b[1] < a[1] /\ b[2] < a[2])
    BY <1>6 DEF Chain
  <2>5. CASE a = b
    <3>1. x = y /\ u = v /\ 5 \in Nat
      BY <2>5
    <3>2. ~Before(x, y) /\ ~Before(u, v)
      <4> HIDE DEF x, y, u, v
      <4> QED
        BY <2>3, <3>1, BeforeIsIrreflexive
    <3> QED
      BY <2>2, <2>5, <3>2
  <2>6. CASE a[1] < b[1] /\ a[2] < b[2]
    <3>1. Before(x, y) /\ Before(u, v)
      BY <1>1, <1>2, <2>1, <2>6
    <3>2. left[a[1]] # left[b[1]] /\ right[a[2]] # right[b[2]]
      BY <2>1, <2>6, <2>8
    <3> QED
      BY <2>2, <3>1, <3>2
  <2>7. CASE b[1] < a[1] /\ b[2] < a[2]
    <3>1. Before(y, x) /\ Before(v, u)
      BY <1>1, <1>2, <2>1, <2>7
    <3>2. ~Before(x, y) /\ ~Before(u, v)
      <4>1. 5 \in Nat
        OBVIOUS
      <4> HIDE DEF x, y, u, v
      <4> QED
        BY <2>3, <3>1, <4>1, BeforeIsIrreflexive, BeforeIsTransitive
    <3>3. left[a[1]] # left[b[1]] /\ right[a[2]] # right[b[2]]
      BY <2>1, <2>7, <2>8
    <3> QED
      BY <2>2, <3>2, <3>3
  <2> QED
    BY <2>4, <2>5, <2>6, <2>7
<1> SUFFICES ASSUME NEW a \in A, NEW b \in A
             PROVE  LET p == <<left[a[1]], right[a[2]]>>
                        q == <<left[b[1]], right[b[2]]>>
                    IN /\ p[1] \in DOMAIN reported /\ p[2] \in DOMAIN findings
                       /\ p[1] = q[1] <=> p[2] = q[2]
                       /\ Before(Position(reported, p[1]), Position(reported, q[1]))
                            <=> Before(Position(findings, p[2]), Position(findings, q[2]))
  BY <1>7
<1> QED
  BY <1>8

-----------------------------------------------------------------------------
(***************************************************************************)
(* Lines                                                                   *)
(***************************************************************************)

Line(item) == item.resource.fields.startLine

\* Items of one identity start on one line.
LEMMA SameIdentitySameLine ==
  ASSUME NEW l, NEW r, SameIdentity(l, r), HasLocation(l.resource)
  PROVE  HasLocation(r.resource) /\ Line(l) = Line(r)
<1> DEFINE a == l.resource
           b == r.resource
<1>1. CompareResource(a, b) = "exact"
  BY DEF SameIdentity
<1>2. /\ a.type = b.type
      /\ \A field \in DOMAIN a.fields \cap DOMAIN b.fields : a.fields[field] = b.fields[field]
      /\ (DOMAIN a.fields \cup DOMAIN b.fields) \ (DOMAIN a.fields \cap DOMAIN b.fields)
           \subseteq IF a.type = "sourceCode" THEN SpanDetail ELSE {}
  <2> HIDE DEF a, b
  <2> QED
    BY <1>1 DEF CompareResource
<1>3. a.type = "sourceCode" /\ "startLine" \in DOMAIN a.fields
  BY DEF HasLocation
<1>4. "startLine" \notin SpanDetail
  BY DEF SpanDetail
<1>5. "startLine" \in DOMAIN b.fields
  BY <1>2, <1>3, <1>4
<1> QED
  BY <1>2, <1>3, <1>5 DEF HasLocation, Line

LEMMA PlaceHasPlace ==
  ASSUME NEW items, NEW class, Numbered(items[class[1]]), HasLocation(items[class[1]].resource)
  PROVE  /\ HasPlace(Place(items, class))
         /\ Place(items, class).startLine = Line(items[class[1]])
<1> DEFINE fields == items[class[1]].resource.fields
           place == [part \in DOMAIN fields \cap (SpanDetail \cup {"startLine"}) |-> fields[part]]
<1>1. Place(items, class) = place
  BY DEF Place
<1>2. /\ "startLine" \in DOMAIN fields
      /\ \A part \in SpanDetail \cup {"startLine"} : part \in DOMAIN fields => fields[part] \in Int
  BY DEF Numbered, HasLocation, Part
<1> HIDE DEF fields
<1>3. DOMAIN place = DOMAIN fields \cap (SpanDetail \cup {"startLine"})
      /\ \A part \in DOMAIN place : place[part] = fields[part]
  OBVIOUS
<1> HIDE DEF place
<1>4. place["startLine"] = fields["startLine"] /\ place["startLine"] \in Int
  BY <1>2, <1>3
<1>5. \A part \in SpanDetail : PartOr0(place, part) \in Int
  BY <1>2, <1>3 DEF PartOr0
<1> QED
  BY <1>1, <1>4, <1>5 DEF HasPlace, Line, fields

LEMMA PreferredIsMember ==
  ASSUME NEW list, NEW members, members \subseteq Nat, members # {}
  PROVE  Preferred(list, members) \in members
<1> DEFINE originals == {n \in members : ~list[n].duplicate}
           among == IF originals = {} THEN members ELSE originals
<1>1. among \subseteq members /\ among # {}
  OBVIOUS
<1>2. Preferred(list, members) = Least(among)
  BY DEF Preferred
<1> HIDE DEF among
<1> QED
  BY <1>1, <1>2, LeastIsLeast

\* The first that counts in file order is the line.
LEMMA PositionByLine ==
  ASSUME NEW locations, NEW i \in Int, NEW j \in Int,
         Position(locations, i) \in [1..5 -> Int], Position(locations, j) \in [1..5 -> Int],
         HasPlace(locations[i]), HasPlace(locations[j])
  PROVE  /\ locations[i].startLine < locations[j].startLine
              => Before(Position(locations, i), Position(locations, j))
         /\ Before(Position(locations, i), Position(locations, j))
              => locations[i].startLine <= locations[j].startLine
<1> DEFINE s == Position(locations, i)
           t == Position(locations, j)
<1>1. \A k \in {i, j} : Position(locations, k)[1] = locations[k].startLine
  <2> TAKE k \in {i, j}
  <2> DEFINE b == ByPosition(locations[k])
  <2>1. b \in Seq(Int) /\ Len(b) = 4 /\ b[1] = locations[k].startLine
    BY DEF HasPlace, ByPosition, SpanDetail
  <2>3. k \in Int
    OBVIOUS
  <2> HIDE DEF b
  <2> DEFINE a == Append(b, k)
  <2>4. \A e \in 1..Len(b) : a[e] = b[e]
    <3>1. b \in Seq(Int)
      BY <2>1
    <3> QED
      BY <2>3, <3>1, AppendProperties
  <2>2. a[1] = b[1]
    <3>1. 1 \in 1..Len(b)
      BY <2>1
    <3> HIDE DEF a
    <3> QED
      BY <2>4, <3>1
  <2> QED
    BY <2>1, <2>2 DEF Position, b
<1>2. s[1] = locations[i].startLine /\ t[1] = locations[j].startLine
  BY <1>1
<1> HIDE DEF s, t
<1>3. s \in [1..5 -> Int] /\ t \in [1..5 -> Int]
  BY DEF s, t
<1>4. ASSUME s[1] < t[1] PROVE Before(s, t)
  <2>1. 1 \in DOMAIN s /\ \A m \in 1..1 - 1 : s[m] = t[m]
    BY <1>3
  <2> QED
    BY <1>4, <2>1 DEF Before
<1>5. ASSUME Before(s, t) PROVE s[1] <= t[1]
  <2>1. PICK k \in 1..5 : s[k] < t[k] /\ \A m \in 1..k - 1 : s[m] = t[m]
    BY <1>3, <1>5 DEF Before
  <2>2. CASE k = 1
    BY <1>3, <2>1, <2>2
  <2>3. CASE k # 1
    <3>1. s[1] = t[1]
      BY <2>1, <2>3
    <3> QED
      BY <1>3, <3>1
  <2> QED
    BY <2>2, <2>3
<1> QED
  BY <1>2, <1>4, <1>5 DEF s, t

-----------------------------------------------------------------------------
(***************************************************************************)
(* The candidates of one bucket                                            *)
(***************************************************************************)

\* Lists of places in a list of items; the items of each start on the line of its first.
Located(items, classes, N) ==
  /\ classes \in Seq(Seq(N)) /\ N \subseteq Nat
  /\ \A k \in DOMAIN classes :
       /\ 1 \in DOMAIN classes[k]
       /\ Numbered(items[classes[k][1]]) /\ HasLocation(items[classes[k][1]].resource)
       /\ \A x \in ToSet(classes[k]) : x \in N /\ Line(items[x]) = Line(items[classes[k][1]])

Places(items, classes) == [k \in DOMAIN classes |-> Place(items, classes[k])]

\* The locations of the firsts, in a list.
Surveyed(places, items, classes) ==
  /\ DOMAIN places = DOMAIN classes
  /\ \E S : places \in Seq(S)
  /\ \A k \in DOMAIN places : /\ HasPlace(places[k])
                              /\ places[k].startLine = Line(items[classes[k][1]])

LEMMA PlacesOfClasses ==
  ASSUME NEW items, NEW N, NEW classes, Located(items, classes, N)
  PROVE  Surveyed(Places(items, classes), items, classes)
<1> DEFINE places == [k \in DOMAIN classes |-> Place(items, classes[k])]
           S == {places[k] : k \in DOMAIN places}
<1>1. DOMAIN classes = 1..Len(classes) /\ Len(classes) \in Nat
  BY DEF Located
<1>2. places \in [1..Len(classes) -> S]
  BY <1>1
<1>3. places \in Seq(S)
  BY <1>1, <1>2, SeqDef
<1>4. ASSUME NEW k \in DOMAIN classes
      PROVE  HasPlace(places[k]) /\ places[k].startLine = Line(items[classes[k][1]])
  <2>1. Numbered(items[classes[k][1]]) /\ HasLocation(items[classes[k][1]].resource)
    BY DEF Located
  <2>2. places[k] = Place(items, classes[k])
    OBVIOUS
  <2> QED
    BY <2>1, <2>2, PlaceHasPlace
<1> QED
  BY <1>3, <1>4 DEF Surveyed, Places

\* The findings that the pairs of a bucket give to a candidate.
FoundBy(pairs, groups, free, n) ==
  UNION {ToSet(free[p[2]]) : p \in {q \in pairs : n \in ToSet(groups[q[1]])}}

\* Candidates of a bucket that moved keep the order of their findings.
LEMMA PlacedInOrder ==
  ASSUME NEW listed, NEW N, NEW batch, NEW M, NEW groups, NEW free,
         Located(batch, groups, M), Located(listed, free, N),
         NEW bucket, NEW orphans, NEW r, r = InBucket(listed, batch, bucket, groups, free, orphans),
         NEW n \in ToSet(bucket), NEW m \in ToSet(bucket),
         r[n].status = "matched", r[m].status = "matched"
  PROVE  /\ r[n].finding \in N /\ r[m].finding \in N
         /\ Line(batch[n]) < Line(batch[m])
              => Line(listed[r[n].finding]) <= Line(listed[r[m].finding])
<1> DEFINE symbol == Part(batch[bucket[1]].resource.fields, "symbol")
           reported == [g \in DOMAIN groups |-> Place(batch, groups[g])]
           findings == [o \in DOMAIN free |-> Place(listed, free[o])]
           anchored == symbol \notin {{}, {Placeholder}}
           pairs == AlignShifted(reported, findings, anchored)
           complete == Len(orphans) = Cardinality(pairs)
           found == [k \in ToSet(bucket) |-> FoundBy(pairs, groups, free, k)]
<1>1. r = Placed(listed, bucket, found, complete)
  BY DEF InBucket, InPairs, Pairs, FoundBy
<1>2. /\ DOMAIN reported = DOMAIN groups
      /\ \E S : reported \in Seq(S)
      /\ \A k \in DOMAIN reported : /\ HasPlace(reported[k])
                                   /\ reported[k].startLine = Line(batch[groups[k][1]])
  <2> HIDE DEF reported, findings, anchored, complete, symbol, pairs, found
  <2>1. reported = Places(batch, groups)
    BY DEF reported, Places
  <2>2. Surveyed(reported, batch, groups)
    BY <2>1, PlacesOfClasses
  <2> QED
    BY <2>2 DEF Surveyed
<1>3. /\ DOMAIN findings = DOMAIN free
      /\ \E S : findings \in Seq(S)
      /\ \A k \in DOMAIN findings : /\ HasPlace(findings[k])
                                    /\ findings[k].startLine = Line(listed[free[k][1]])
  <2> HIDE DEF findings
  <2>1. findings = Places(listed, free)
    BY DEF findings, Places
  <2>2. Surveyed(findings, listed, free)
    BY <2>1, PlacesOfClasses
  <2> QED
    BY <2>2 DEF Surveyed
<1> HIDE DEF reported, findings, anchored, complete, symbol
<1>4. \A p, q \in pairs :
        /\ p[1] \in DOMAIN reported /\ p[2] \in DOMAIN findings
        /\ Before(Position(reported, p[1]), Position(reported, q[1]))
             <=> Before(Position(findings, p[2]), Position(findings, q[2]))
        /\ p[1] = q[1] <=> p[2] = q[2]
  BY <1>2, <1>3, PairingKeepsOrder
<1>5. /\ \A i \in DOMAIN reported : i \in Int /\ Position(reported, i) \in [1..5 -> Int]
      /\ \A i \in DOMAIN findings : i \in Int /\ Position(findings, i) \in [1..5 -> Int]
  <2>1. \A i \in DOMAIN reported : Position(reported, i) \in [1..5 -> Int]
    BY <1>2, FileOrderIsSorted
  <2>2. \A i \in DOMAIN findings : Position(findings, i) \in [1..5 -> Int]
    BY <1>3, FileOrderIsSorted
  <2>3. DOMAIN groups \subseteq Int /\ DOMAIN free \subseteq Int
    BY DEF Located
  <2> QED
    BY <1>2, <1>3, <2>1, <2>2, <2>3
<1> HIDE DEF pairs
<1>6. ASSUME NEW k \in ToSet(bucket), r[k].status = "matched"
      PROVE  \E p \in pairs : k \in ToSet(groups[p[1]]) /\ r[k].finding \in ToSet(free[p[2]])
  <2>1. r[k] = IF found[k] # {}
               THEN [status |-> "matched", by |-> "moved",
                     finding |-> Preferred(listed, found[k])]
               ELSE IF complete THEN [status |-> "new"] ELSE [status |-> "unresolved"]
    BY <1>1 DEF Placed
  <2> HIDE DEF found
  <2>2. found[k] # {} /\ r[k].finding = Preferred(listed, found[k])
    BY <1>6, <2>1
  <2>3. found[k] = FoundBy(pairs, groups, free, k)
    BY DEF found
  <2>4. found[k] \subseteq Nat
    <3> SUFFICES ASSUME NEW x \in FoundBy(pairs, groups, free, k) PROVE x \in Nat
      BY <2>3
    <3>1. PICK p \in pairs : x \in ToSet(free[p[2]])
      BY DEF FoundBy
    <3>2. p[2] \in DOMAIN free
      BY <1>3, <1>4
    <3> QED
      BY <3>1, <3>2 DEF Located
  <2>5. r[k].finding \in FoundBy(pairs, groups, free, k)
    BY <2>2, <2>3, <2>4, PreferredIsMember
  <2> QED
    BY <2>5 DEF FoundBy
<1>7. PICK p \in pairs : n \in ToSet(groups[p[1]]) /\ r[n].finding \in ToSet(free[p[2]])
  BY <1>6
<1>8. PICK q \in pairs : m \in ToSet(groups[q[1]]) /\ r[m].finding \in ToSet(free[q[2]])
  BY <1>6
<1>9. /\ p[1] \in DOMAIN reported /\ p[2] \in DOMAIN findings
      /\ q[1] \in DOMAIN reported /\ q[2] \in DOMAIN findings
  BY <1>4
<1>10. /\ Line(batch[n]) = reported[p[1]].startLine /\ Line(batch[m]) = reported[q[1]].startLine
  BY <1>2, <1>7, <1>8, <1>9 DEF Located
<1>11. /\ r[n].finding \in N /\ r[m].finding \in N
       /\ Line(listed[r[n].finding]) = findings[p[2]].startLine
       /\ Line(listed[r[m].finding]) = findings[q[2]].startLine
  BY <1>3, <1>7, <1>8, <1>9 DEF Located
<1>12. ASSUME Line(batch[n]) < Line(batch[m])
       PROVE  Line(listed[r[n].finding]) <= Line(listed[r[m].finding])
  <2>1. Before(Position(reported, p[1]), Position(reported, q[1]))
    BY <1>2, <1>5, <1>9, <1>10, <1>12, PositionByLine
  <2>2. Before(Position(findings, p[2]), Position(findings, q[2]))
    BY <1>4, <2>1
  <2>3. findings[p[2]].startLine <= findings[q[2]].startLine
    BY <1>3, <1>5, <1>9, <2>2, PositionByLine
  <2> QED
    BY <1>11, <2>3
<1> QED
  BY <1>11, <1>12

-----------------------------------------------------------------------------
(***************************************************************************)
(* Classes                                                                 *)
(***************************************************************************)

\* Lists of places, no two the same, each of items with the identity of its first.
Identified(items, classes, N) ==
  /\ Enumerates(classes, ToSet(classes))
  /\ \A class \in ToSet(classes) :
       /\ class \in Seq(N) /\ 1 \in DOMAIN class
       /\ \A x \in ToSet(class) :
            x \in N /\ (x = class[1] \/ SameIdentity(items[class[1]], items[x]))

Alike(items, list) ==
  {p \in ToSet(list) \X ToSet(list) : SameIdentity(items[p[1]], items[p[2]])}

LEMMA ClassesAreGroups ==
  ASSUME NEW items, NEW N, NEW list, Enumerates(list, N)
  PROVE  GroupsOf(Classes(items, list), list, N, Alike(items, list))
<1>1. Classes(items, list) = Grouped(list, Alike(items, list))
  BY DEF Classes, Alike
<1> QED
  BY <1>1, GroupsByFirst

LEMMA ClassesAreIdentified ==
  ASSUME NEW items, NEW N, NEW list, Enumerates(list, N)
  PROVE  Identified(items, Classes(items, list), N)
<1> DEFINE G == Classes(items, list)
           like == Alike(items, list)
<1>1. GroupsOf(G, list, N, like)
  BY ClassesAreGroups
<1> HIDE DEF G, like
<1>2. /\ G \in Seq(Seq(N))
      /\ \A k \in DOMAIN G : 1 \in DOMAIN G[k]
      /\ \A k, l \in DOMAIN G : \A x \in ToSet(G[k]) : x \in ToSet(G[l]) => k = l
      /\ \A k \in DOMAIN G : \A x \in ToSet(G[k]) : x = G[k][1] \/ <<G[k][1], x>> \in like
  BY <1>1 DEF GroupsOf
<1>3. DOMAIN G = 1..Len(G) /\ Len(G) \in Nat /\ \A k \in DOMAIN G : G[k] \in Seq(N)
  BY <1>2
<1>4. Enumerates(G, ToSet(G))
  <2>1. G \in Seq(ToSet(G))
    <3>1. G \in [1..Len(G) -> ToSet(G)]
      BY <1>2, <1>3 DEF ToSet
    <3> QED
      BY <1>3, <3>1, SeqDef
  <2>2. \A x \in ToSet(G) : \E k \in DOMAIN G : G[k] = x
    BY DEF ToSet
  <2>3. ASSUME NEW i \in DOMAIN G, NEW j \in DOMAIN G, G[i] = G[j] PROVE i = j
    <3>1. G[i][1] \in ToSet(G[i])
      BY <1>2 DEF ToSet
    <3> QED
      BY <1>2, <2>3, <3>1
  <2> QED
    BY <2>1, <2>2, <2>3 DEF Enumerates
<1>5. ASSUME NEW k \in DOMAIN G, NEW x \in ToSet(G[k])
      PROVE  x \in N /\ (x = G[k][1] \/ SameIdentity(items[G[k][1]], items[x]))
  <2>1. x \in N
    BY <1>3 DEF ToSet
  <2>2. <<G[k][1], x>> \in like => SameIdentity(items[G[k][1]], items[x])
    BY DEF like, Alike
  <2> QED
    BY <1>2, <2>1, <2>2
<1>6. ASSUME NEW class \in ToSet(G)
      PROVE  /\ class \in Seq(N) /\ 1 \in DOMAIN class
             /\ \A x \in ToSet(class) :
                  x \in N /\ (x = class[1] \/ SameIdentity(items[class[1]], items[x]))
  <2>1. PICK k \in DOMAIN G : class = G[k]
    BY DEF ToSet
  <2> QED
    BY <1>2, <1>3, <1>5, <2>1
<1> QED
  BY <1>4, <1>6 DEF Identified, G

LEMMA SomeAreIdentified ==
  ASSUME NEW items, NEW N, NEW classes, Identified(items, classes, N), NEW set
  PROVE  /\ Identified(items, Only(classes, set), N)
         /\ ToSet(Only(classes, set)) = ToSet(classes) \cap set
<1> DEFINE some == Only(classes, set)
<1>1. Enumerates(some, ToSet(classes) \cap set)
  BY OnlyIsSublist DEF Identified
<1> HIDE DEF some
<1>2. ToSet(some) = ToSet(classes) \cap set
  BY <1>1, MembersOfAList
<1> QED
  BY <1>1, <1>2 DEF Identified, some

LEMMA IdentifiedAreLocated ==
  ASSUME NEW items, NEW N, N \subseteq Nat, \A n \in N : Numbered(items[n]),
         NEW classes, Identified(items, classes, N),
         \A class \in ToSet(classes) : HasLocation(items[class[1]].resource)
  PROVE  Located(items, classes, N)
<1>1. classes \in Seq(ToSet(classes)) /\ \A k \in DOMAIN classes : classes[k] \in ToSet(classes)
  BY MembersOfAList DEF Identified, Enumerates
<1>2. DOMAIN classes = 1..Len(classes) /\ Len(classes) \in Nat
  BY <1>1
<1>3. \A k \in DOMAIN classes : classes[k] \in Seq(N) /\ 1 \in DOMAIN classes[k]
  BY <1>1 DEF Identified
<1>4. classes \in Seq(Seq(N))
  <2>1. classes \in [1..Len(classes) -> Seq(N)]
    BY <1>1, <1>2, <1>3
  <2> QED
    BY <1>2, <2>1, SeqDef
<1>5. ASSUME NEW k \in DOMAIN classes
      PROVE  /\ 1 \in DOMAIN classes[k]
             /\ Numbered(items[classes[k][1]]) /\ HasLocation(items[classes[k][1]].resource)
             /\ \A x \in ToSet(classes[k]) : x \in N /\ Line(items[x]) = Line(items[classes[k][1]])
  <2>1. classes[k][1] \in ToSet(classes[k])
    BY <1>3 DEF ToSet
  <2>2. classes[k][1] \in N
    BY <1>1, <2>1 DEF Identified
  <2>3. HasLocation(items[classes[k][1]].resource)
    BY <1>1
  <2>4. ASSUME NEW x \in ToSet(classes[k])
        PROVE  x \in N /\ Line(items[x]) = Line(items[classes[k][1]])
    <3>1. x \in N /\ (x = classes[k][1] \/ SameIdentity(items[classes[k][1]], items[x]))
      BY <1>1 DEF Identified
    <3> QED
      BY <2>3, <3>1, SameIdentitySameLine
  <2> QED
    BY <1>3, <2>2, <2>3, <2>4
<1> QED
  BY <1>4, <1>5 DEF Located

-----------------------------------------------------------------------------
(***************************************************************************)
(* The index                                                               *)
(***************************************************************************)

LEMMA ImagesAreFinite ==
  ASSUME NEW S, IsFiniteSet(S), NEW T, NEW f \in [S -> T], \A t \in T : \E s \in S : f[s] = t
  PROVE  IsFiniteSet(T)
BY FS_Surjection, Fun_IsSurj

\* The entries there are.
EntriesOf(f) ==
  UNION {{<<k, v>> : v \in f[NamespaceOrder[k]]} :
           k \in {k \in DOMAIN NamespaceOrder : NamespaceOrder[k] \in DOMAIN f}}

\* Finitely many numbers in namespaces that have an order.
Ordered(f) ==
  \A ns \in DOMAIN f :
    /\ \E k \in DOMAIN NamespaceOrder : NamespaceOrder[k] = ns
    /\ IsFiniteSet(f[ns]) /\ f[ns] \subseteq Int

LEMMA EntriesAreListed ==
  ASSUME NEW f, Ordered(f)
  PROVE  Enumerates(Entries(f), EntriesOf(f))
<1> DEFINE K == {k \in DOMAIN NamespaceOrder : NamespaceOrder[k] \in DOMAIN f}
           At(k) == {<<k, v>> : v \in f[NamespaceOrder[k]]}
           E == EntriesOf(f)
           key == [e \in E |-> e]
<1>1. K \subseteq Nat /\ IsFiniteSet(K)
  <2>1. NamespaceOrder \in Seq({NamespaceOrder[k] : k \in DOMAIN NamespaceOrder})
    BY ItemsAssumption DEF IsList
  <2>2. K \subseteq DOMAIN NamespaceOrder
    OBVIOUS
  <2> HIDE DEF K
  <2> QED
    BY <2>1, <2>2, ListsAreFinite
<1>2. \A k \in K : IsFiniteSet(f[NamespaceOrder[k]]) /\ f[NamespaceOrder[k]] \subseteq Int
  BY DEF Ordered
<1> HIDE DEF K
<1>3. \A k \in K : IsFiniteSet(At(k))
  <2> TAKE k \in K
  <2> DEFINE V == f[NamespaceOrder[k]]
             pair == [v \in V |-> <<k, v>>]
  <2>1. pair \in [V -> At(k)] /\ \A e \in At(k) : \E v \in V : pair[v] = e
    OBVIOUS
  <2> HIDE DEF At, pair
  <2> QED
    BY <1>2, <2>1, ImagesAreFinite
<1> DEFINE sets == {At(k) : k \in K}
<1>4. IsFiniteSet(sets)
  <2> DEFINE at == [k \in K |-> At(k)]
  <2>1. at \in [K -> sets] /\ \A s \in sets : \E k \in K : at[k] = s
    OBVIOUS
  <2> HIDE DEF at, sets
  <2> QED
    BY <1>1, <2>1, ImagesAreFinite
<1>5. E = UNION sets
  BY DEF EntriesOf, K
<1>6. IsFiniteSet(E)
  <2>1. \A s \in sets : IsFiniteSet(s)
    BY <1>3
  <2> HIDE DEF sets, E
  <2> QED
    BY <1>4, <1>5, <2>1, FS_UNION
<1>7. \A e \in E : e \in [1..2 -> Int]
  BY <1>1, <1>2, <1>5
<1> HIDE DEF E
<1>8. key \in [E -> [1..2 -> Int]] /\ \A x, y \in E : key[x] = key[y] => x = y
  BY <1>7
<1>9. Entries(f) = InOrder(E, key)
  BY DEF Entries, E, EntriesOf
<1> HIDE DEF key
<1>10. 2 \in Nat
  OBVIOUS
<1> QED
  BY <1>6, <1>8, <1>9, <1>10, InOrderIsSorted, ZenonT(60) DEF E

LEMMA HitsAreListed ==
  ASSUME NEW by, DOMAIN by \subseteq Nat, NEW S, S \subseteq Nat, IsFiniteSet(S),
         \A k \in DOMAIN by : by[k] \subseteq S
  PROVE  Enumerates(Hits(by), UNION {by[k] : k \in DOMAIN by})
<1> DEFINE hits == UNION {by[k] : k \in DOMAIN by}
           At(n) == {k \in DOMAIN by : n \in by[k]}
           key == [n \in hits |-> <<Least(At(n)), n>>]
<1>1. hits \subseteq S
  OBVIOUS
<1>2. IsFiniteSet(hits)
  <2> HIDE DEF hits
  <2> QED
    BY <1>1, FS_Subset
<1>3. \A n \in hits : Least(At(n)) \in Nat /\ n \in Nat
  <2> TAKE n \in hits
  <2>1. At(n) \subseteq Nat /\ At(n) # {}
    OBVIOUS
  <2>2. Least(At(n)) \in At(n)
    <3> HIDE DEF At
    <3> QED
      BY <2>1, LeastIsLeast
  <2> QED
    BY <1>1, <2>1, <2>2
<1> HIDE DEF hits, At
<1>4. key \in [hits -> [1..2 -> Int]] /\ \A x, y \in hits : key[x] = key[y] => x = y
  BY <1>3
<1>5. Hits(by) = InOrder(hits, key)
  BY DEF Hits, hits, At
<1>6. 2 \in Nat
  OBVIOUS
<1> HIDE DEF key
<1>7. Enumerates(InOrder(hits, key), hits)
  BY <1>2, <1>4, <1>6, InOrderIsSorted
<1> QED
  BY <1>5, <1>7 DEF hits

\* The findings that share an identifier.
Sharing(listed, weakness) ==
  {n \in DOMAIN listed : \E ns \in DOMAIN weakness : Overlap(weakness, listed[n].weakness, ns)}

LEMMA SharingIsListed ==
  ASSUME NEW listed, IsList(listed), NEW weakness, Ordered(weakness)
  PROVE  Enumerates(SharingIdentifiers(listed, weakness), Sharing(listed, weakness))
<1> DEFINE entries == Entries(weakness)
           by == HitBy(listed, entries)
<1>1. Enumerates(entries, EntriesOf(weakness))
  BY EntriesAreListed
<1> HIDE DEF entries
<1>2. DOMAIN by = DOMAIN entries /\ DOMAIN entries \subseteq Nat
  BY <1>1, MembersOfAList DEF HitBy
<1>3. DOMAIN listed \subseteq Nat /\ IsFiniteSet(DOMAIN listed)
  BY ListsAreFinite DEF IsList
<1>4. \A k \in DOMAIN by :
        by[k] = {n \in DOMAIN listed : Under(listed[n].weakness, entries[k])}
  BY DEF HitBy
<1> HIDE DEF by
<1>5. Enumerates(Hits(by), UNION {by[k] : k \in DOMAIN by})
  BY <1>2, <1>3, <1>4, HitsAreListed
<1>6. UNION {by[k] : k \in DOMAIN by} =
        {n \in DOMAIN listed : \E e \in EntriesOf(weakness) : Under(listed[n].weakness, e)}
  <2>1. \A k \in DOMAIN by : entries[k] \in EntriesOf(weakness)
    BY <1>1, <1>2, MembersOfAList
  <2>2. \A e \in EntriesOf(weakness) : \E k \in DOMAIN by : entries[k] = e
    BY <1>1, <1>2 DEF Enumerates
  <2> QED
    BY <1>4, <2>1, <2>2
<1>7. ASSUME NEW n \in DOMAIN listed
      PROVE  (\E e \in EntriesOf(weakness) : Under(listed[n].weakness, e))
               <=> \E ns \in DOMAIN weakness : Overlap(weakness, listed[n].weakness, ns)
  <2> DEFINE g == listed[n].weakness
  <2> HIDE DEF g
  <2>1. ASSUME NEW e \in EntriesOf(weakness), Under(g, e)
        PROVE  \E ns \in DOMAIN weakness : Overlap(weakness, g, ns)
    <3>1. PICK k \in DOMAIN NamespaceOrder :
            NamespaceOrder[k] \in DOMAIN weakness /\ e \in {<<k, v>> : v \in weakness[NamespaceOrder[k]]}
      BY DEF EntriesOf
    <3>2. PICK v \in weakness[NamespaceOrder[k]] : e = <<k, v>>
      BY <3>1
    <3>3. NamespaceOrder[k] \in DOMAIN g /\ v \in g[NamespaceOrder[k]]
      BY <2>1, <3>2 DEF Under
    <3> QED
      BY <3>1, <3>2, <3>3 DEF Overlap
  <2>2. ASSUME NEW ns \in DOMAIN weakness, Overlap(weakness, g, ns)
        PROVE  \E e \in EntriesOf(weakness) : Under(g, e)
    <3>1. PICK k \in DOMAIN NamespaceOrder : NamespaceOrder[k] = ns
      BY DEF Ordered
    <3>2. PICK v \in weakness[ns] : v \in g[ns]
      BY <2>2 DEF Overlap
    <3>3. ns \in DOMAIN g
      BY <2>2 DEF Overlap
    <3>4. <<k, v>> \in EntriesOf(weakness)
      BY <3>1, <3>2 DEF EntriesOf
    <3>5. Under(g, <<k, v>>)
      BY <3>1, <3>2, <3>3 DEF Under
    <3> QED
      BY <3>4, <3>5
  <2> QED
    BY <2>1, <2>2 DEF g
<1>8. UNION {by[k] : k \in DOMAIN by} = Sharing(listed, weakness)
  BY <1>6, <1>7 DEF Sharing
<1>9. SharingIdentifiers(listed, weakness) = Hits(by)
  BY DEF SharingIdentifiers, by, entries
<1> QED
  BY <1>5, <1>8, <1>9

-----------------------------------------------------------------------------
(***************************************************************************)
(* What the match is made of                                               *)
(***************************************************************************)

LEMMA IdentifiedAmongMore ==
  ASSUME NEW items, NEW N, NEW M, N \subseteq M, NEW classes, Identified(items, classes, N)
  PROVE  Identified(items, classes, M)
<1>1. Seq(N) \subseteq Seq(M)
  <2> SUFFICES ASSUME NEW s \in Seq(N) PROVE s \in Seq(M)
    OBVIOUS
  <2>1. Len(s) \in Nat /\ s \in [1..Len(s) -> M]
    OBVIOUS
  <2> QED
    BY <2>1, SeqDef
<1> QED
  BY <1>1 DEF Identified

LEMMA ListedPlaces ==
  ASSUME NEW s, IsList(s)
  PROVE  DOMAIN s = 1..Len(s) /\ Len(s) \in Nat /\ DOMAIN s \subseteq Nat /\ IsFiniteSet(DOMAIN s)
<1>1. s \in Seq({s[k] : k \in DOMAIN s})
  BY DEF IsList
<1>2. DOMAIN s \subseteq Nat /\ IsFiniteSet(DOMAIN s)
  BY <1>1, ListsAreFinite
<1> QED
  BY <1>1, <1>2

LEMMA CandidatesAreOrdered ==
  ASSUME NEW batch, BatchOf(batch), NEW n \in DOMAIN batch
  PROVE  Ordered(batch[n].weakness) /\ Numbered(batch[n])
BY DEF BatchOf, IsCandidate, Ordered

\* The orphans of a bucket are classes of findings, each of which has a line.
LEMMA OrphansAreLocated ==
  ASSUME NEW listed, FindingsOf(listed), NEW first, Ordered(first.weakness), NEW reached
  PROVE  LET orphans == Orphans(listed, reached, first)
         IN /\ Identified(listed, orphans, DOMAIN listed)
            /\ \A class \in ToSet(orphans) : HasLocation(listed[class[1]].resource)
<1> DEFINE sharing == SharingIdentifiers(listed, first.weakness)
           left == {n \in ToSet(sharing) : n \notin reached /\ SameBucket(first, listed[n])}
           N == Sharing(listed, first.weakness) \cap left
           classes == Classes(listed, Only(sharing, left))
           placed == {class \in ToSet(classes) : HasLocation(listed[class[1]].resource)}
<1>1. Enumerates(sharing, Sharing(listed, first.weakness))
  BY SharingIsListed DEF FindingsOf
<1> HIDE DEF sharing, left
<1>2. Enumerates(Only(sharing, left), N)
  BY <1>1, OnlyIsSublist
<1>3. Identified(listed, classes, N)
  <2> HIDE DEF N
  <2> QED
    BY <1>2, ClassesAreIdentified
<1>4. N \subseteq DOMAIN listed
  BY DEF Sharing
<1> HIDE DEF N, classes
<1>5. Identified(listed, classes, DOMAIN listed)
  BY <1>3, <1>4, IdentifiedAmongMore
<1>6. Orphans(listed, reached, first) = Only(classes, placed)
  BY DEF Orphans, classes, left, sharing
<1>7. placed \subseteq ToSet(classes)
      /\ \A class \in placed : HasLocation(listed[class[1]].resource)
  OBVIOUS
<1> HIDE DEF placed
<1>8. /\ Identified(listed, Only(classes, placed), DOMAIN listed)
      /\ ToSet(Only(classes, placed)) = ToSet(classes) \cap placed
  BY <1>5, SomeAreIdentified
<1> QED
  BY <1>6, <1>7, <1>8

\* What is left of them in one bucket only, as well.
LEMMA FreeAreLocated ==
  ASSUME NEW listed, FindingsOf(listed), NEW others, NEW orphans,
         Identified(listed, orphans, DOMAIN listed),
         \A class \in ToSet(orphans) : HasLocation(listed[class[1]].resource)
  PROVE  Located(listed, Free(orphans, others), DOMAIN listed)
<1> PICK set : Free(orphans, others) = Only(orphans, set)
  BY DEF Free
<1>1. /\ Identified(listed, Only(orphans, set), DOMAIN listed)
      /\ ToSet(Only(orphans, set)) = ToSet(orphans) \cap set
  BY SomeAreIdentified
<1>2. DOMAIN listed \subseteq Nat /\ \A n \in DOMAIN listed : Numbered(listed[n])
  BY ListedPlaces DEF FindingsOf, IsFinding
<1>3. \A class \in ToSet(Only(orphans, set)) : HasLocation(listed[class[1]].resource)
  BY <1>1
<1> QED
  BY <1>1, <1>2, <1>3, IdentifiedAreLocated

LEMMA SameBucketIsSymmetric ==
  ASSUME NEW l, NEW r, SameBucket(l, r)
  PROVE  SameBucket(r, l)
<1>1. SameSourceScope(r.resource, l.resource)
  BY DEF SameBucket, SameSourceScope
<1> DEFINE a == l.weakness
           b == r.weakness
           shared == Specific(a) \cap Specific(b)
<1>2. CompareWeakness(a, b) = "same"
  BY DEF SameBucket
<1> HIDE DEF a, b
<1>3. shared # {} /\ \A ns \in shared : Overlap(a, b, ns)
  BY <1>2 DEF CompareWeakness
<1>4. \A ns \in shared : Overlap(b, a, ns)
  BY <1>3 DEF Overlap
<1>5. Specific(b) \cap Specific(a) = shared
  OBVIOUS
<1>6. CompareWeakness(b, a) = "same"
  <2> HIDE DEF shared
  <2> QED
    BY <1>3, <1>4, <1>5 DEF CompareWeakness
<1> QED
  BY <1>1, <1>6 DEF SameBucket, a, b

\* Alike to the bucket mates of a batch.
Mates(batch, n, m) ==
  /\ SameBucket(batch[n], batch[m])
  /\ \A k \in DOMAIN batch : SameBucket(batch[k], batch[n]) <=> SameBucket(batch[k], batch[m])

LEMMA MatesAreSymmetric ==
  ASSUME NEW batch, NEW n, NEW m, Mates(batch, n, m)
  PROVE  Mates(batch, m, n)
BY SameBucketIsSymmetric DEF Mates

\* Mates are in the same bucket.
LEMMA MatesShareABucket ==
  ASSUME NEW batch, NEW S, S \subseteq DOMAIN batch, NEW list, NEW G,
         GroupsOf(G, list, S, {p \in S \X S : SameBucket(batch[p[1]], batch[p[2]])}),
         NEW n \in S, NEW m \in S, Mates(batch, n, m),
         NEW k \in DOMAIN G, n \in ToSet(G[k]), NEW l \in DOMAIN G, m \in ToSet(G[l])
  PROVE  k = l
<1> DEFINE like == {p \in S \X S : SameBucket(batch[p[1]], batch[p[2]])}
<1>1. DOMAIN G \subseteq Int
  BY DEF GroupsOf
<1>2. ASSUME NEW i \in DOMAIN G, NEW j \in DOMAIN G, i < j, NEW a \in S, NEW b \in S,
             a \in ToSet(G[i]), b \in ToSet(G[j]), Mates(batch, a, b)
      PROVE  FALSE
  <2>1. 1 \in DOMAIN G[i] /\ G[i] \in Seq(S)
    BY DEF GroupsOf
  <2>2. G[i][1] \in S
    BY <2>1
  <2>3. <<G[i][1], b>> \notin like
    BY <1>2 DEF GroupsOf
  <2>4. ~SameBucket(batch[G[i][1]], batch[b])
    BY <1>2, <2>2, <2>3
  <2>5. a = G[i][1] \/ <<G[i][1], a>> \in like
    BY <1>2 DEF GroupsOf
  <2>6. a = G[i][1] \/ SameBucket(batch[G[i][1]], batch[a])
    BY <2>5
  <2> QED
    BY <1>2, <2>2, <2>4, <2>6 DEF Mates
<1> QED
  BY <1>1, <1>2, MatesAreSymmetric

\* The decisions on the candidates, those that are new, and what code that moved makes
\* of them.
Pending(listed, batch) == [n \in DOMAIN batch |-> Decide(listed, batch[n])]
Fresh(listed, batch) == {n \in DOMAIN batch : Pending(listed, batch)[n].status = "new"}
Shifted(listed, batch) ==
  PairShifted(listed, batch, Fresh(listed, batch),
              UNION {Pending(listed, batch)[n].reached : n \in DOMAIN batch})

LEMMA OnceIsAList ==
  ASSUME NEW list, NEW n \in Nat, DOMAIN list = 1..n, list = [k \in 1..n |-> list[k]]
  PROVE  Once(list) = list
<1> DEFINE S == {list[k] : k \in 1..n}
<1>1. list \in [1..n -> S]
  OBVIOUS
<1>2. list \in Seq(S)
  BY <1>1, SeqDef
<1> QED
  BY <1>2, OnceIsTheSame

LEMMA MatchIs ==
  ASSUME NEW listed, NEW batch, IsList(batch)
  PROVE  Match(listed, batch) = Concluded(listed, batch, Pending(listed, batch),
                                         Fresh(listed, batch), Shifted(listed, batch))
<1> DEFINE pending == Pending(listed, batch)
<1>1. DOMAIN batch = 1..Len(batch) /\ Len(batch) \in Nat
  BY ListedPlaces
<1>2. /\ DOMAIN pending = 1..Len(batch)
      /\ pending = [k \in 1..Len(batch) |-> pending[k]]
  BY <1>1 DEF Pending
<1> HIDE DEF pending
<1>3. Once(pending) = pending
  BY <1>1, <1>2, OnceIsAList
<1>4. Match(listed, batch) = Resolved(listed, batch, Once(pending))
  BY DEF Match, pending, Pending
<1> QED
  BY <1>3, <1>4 DEF Resolved, Matched, Fresh, Shifted, pending

LEMMA ClaimsAreStrongOrWeak ==
  ASSUME NEW listed, NEW c, Decide(listed, c).status = "claim"
  PROVE  Decide(listed, c).strength \in {"strong", "weak"}
<1>1. ASSUME NEW strength \in {"strong", "weak"}, NEW classes, NEW reached, NEW conflict,
             ClaimOf(strength, classes, reached, conflict).status = "claim"
      PROVE  ClaimOf(strength, classes, reached, conflict).strength \in {"strong", "weak"}
  BY <1>1 DEF ClaimOf
<1>2. \/ \E classes, reached, conflict :
           Decide(listed, c) = ClaimOf("strong", classes, reached, conflict)
      \/ \E classes, reached, conflict :
           Decide(listed, c) = ClaimOf("weak", classes, reached, conflict)
      \/ \E reached, status \in {"new", "unresolved"} :
           Decide(listed, c) = [status |-> status, reached |-> reached]
  BY DEF Decide
<1> QED
  BY <1>1, <1>2

\* Only code that moved makes a candidate follow it.
LEMMA MovedAreShifted ==
  ASSUME NEW listed, NEW batch, IsList(batch), NEW r, r = Match(listed, batch),
         NEW n \in DOMAIN r, r[n].status = "matched", r[n].by = "moved"
  PROVE  n \in Fresh(listed, batch) /\ r[n] = Shifted(listed, batch)[n]
<1> DEFINE pending == Pending(listed, batch)
           fresh == Fresh(listed, batch)
           shifted == Shifted(listed, batch)
           new == {k \in fresh : shifted[k].status = "new"}
           grouped == GroupNew(batch, new)
<1>1. r = Concluded(listed, batch, pending, fresh, shifted)
  BY MatchIs
<1> HIDE DEF shifted
<1>2. /\ DOMAIN r = DOMAIN batch
      /\ r[n] = IF n \notin fresh THEN Settled(listed, batch, pending, n)
                ELSE IF n \in DOMAIN grouped THEN grouped[n] ELSE shifted[n]
  BY <1>1 DEF Concluded
<1>3. ASSUME n \notin fresh PROVE FALSE
  <2>1. r[n] = Settled(listed, batch, pending, n)
    BY <1>2, <1>3
  <2>2. pending[n].status = "claim" /\ r[n].by = pending[n].strength
    BY <2>1 DEF Settled
  <2>3. pending[n].strength \in {"strong", "weak"}
    BY <1>2, <2>2, ClaimsAreStrongOrWeak DEF Pending
  <2> QED
    BY <2>2, <2>3
<1>4. ASSUME n \in DOMAIN grouped PROVE FALSE
  <2>1. PICK of : grouped = InGroups(new, of)
    BY DEF GroupNew
  <2>2. grouped[n].status \in {"unresolved", "new"}
    <3> HIDE DEF new, grouped
    <3> QED
      BY <1>4, <2>1 DEF InGroups
  <2>3. r[n] = grouped[n]
    BY <1>2, <1>3, <1>4
  <2> QED
    BY <2>2, <2>3
<1> QED
  BY <1>2, <1>3, <1>4 DEF shifted

\* Mates whose code moved keep the order of their findings.
LEMMA MatesKeepOrder ==
  ASSUME NEW listed, FindingsOf(listed), NEW batch, BatchOf(batch), NEW reached,
         NEW fresh, fresh \subseteq DOMAIN batch,
         NEW s, s = PairShifted(listed, batch, fresh, reached),
         NEW n \in fresh, NEW m \in fresh, Mates(batch, n, m),
         s[n].status = "matched", s[m].status = "matched"
  PROVE  /\ s[n].finding \in DOMAIN listed /\ s[m].finding \in DOMAIN listed
         /\ Line(batch[n]) < Line(batch[m])
              => Line(listed[s[n].finding]) <= Line(listed[s[m].finding])
<1> DEFINE located == {k \in fresh : HasLocation(batch[k].resource)}
           like == {p \in located \X located : SameBucket(batch[p[1]], batch[p[2]])}
           buckets == Buckets(batch, located)
           of == [k \in DOMAIN buckets |-> Orphans(listed, reached, batch[buckets[k][1]])]
           home(k) == {b \in DOMAIN buckets : k \in ToSet(buckets[b])}
           Decided(b) == InBucket(listed, batch, buckets[b], Classes(batch, buckets[b]),
                                  Free(of[b], of), of[b])
<1>1. /\ DOMAIN batch \subseteq Nat /\ IsFiniteSet(DOMAIN batch)
      /\ DOMAIN listed \subseteq Nat
  BY ListedPlaces DEF BatchOf, FindingsOf
<1>2. /\ located \subseteq DOMAIN batch /\ located \subseteq Nat /\ IsFiniteSet(located)
      /\ \A k \in located : HasLocation(batch[k].resource) /\ Numbered(batch[k])
  <2>1. located \subseteq DOMAIN batch /\ \A k \in located : HasLocation(batch[k].resource)
    OBVIOUS
  <2> HIDE DEF located
  <2> QED
    BY <1>1, <2>1, FS_Subset, CandidatesAreOrdered
<1> HIDE DEF located
<1>3. Enumerates(Ascending(located), located)
  BY <1>2, AscendingIsSorted
<1>4. GroupsOf(buckets, Ascending(located), located, like)
  <2>1. buckets = Grouped(Ascending(located), like)
    BY DEF Buckets
  <2> HIDE DEF buckets, like
  <2> QED
    BY <1>3, <2>1, GroupsByFirst
<1> HIDE DEF buckets
<1>5. buckets \in Seq(Seq(located))
      /\ \A k \in DOMAIN buckets : Enumerates(buckets[k], ToSet(buckets[k])) /\ 1 \in DOMAIN buckets[k]
  <2> HIDE DEF like
  <2> QED
    BY <1>4 DEF GroupsOf
<1>6. Once(of) = of
  <2>1. DOMAIN buckets = 1..Len(buckets) /\ Len(buckets) \in Nat
    BY <1>5
  <2>2. DOMAIN of = 1..Len(buckets) /\ of = [k \in 1..Len(buckets) |-> of[k]]
    BY <2>1
  <2> HIDE DEF of
  <2> QED
    BY <2>1, <2>2, OnceIsAList
<1>7. s = InBuckets(listed, batch, fresh, buckets, of)
  <2>1. s = AgainstOrphans(listed, batch, fresh, reached, buckets)
    BY DEF PairShifted, buckets, located
  <2> QED
    BY <1>6, <2>1 DEF AgainstOrphans
<1>8. ASSUME NEW b \in DOMAIN buckets
      PROVE  /\ ToSet(buckets[b]) \subseteq located
             /\ Located(batch, Classes(batch, buckets[b]), ToSet(buckets[b]))
             /\ Located(listed, Free(of[b], of), DOMAIN listed)
  <2>1. buckets[b] \in Seq(located)
    BY <1>5
  <2>2. ToSet(buckets[b]) \subseteq located /\ buckets[b][1] \in ToSet(buckets[b])
    <3>1. \A i \in DOMAIN buckets[b] : buckets[b][i] \in located
      BY <2>1
    <3>2. 1 \in DOMAIN buckets[b]
      BY <1>5
    <3> QED
      BY <3>1, <3>2 DEF ToSet
  <2>3. Identified(batch, Classes(batch, buckets[b]), ToSet(buckets[b]))
    BY <1>5, ClassesAreIdentified
  <2>4. \A class \in ToSet(Classes(batch, buckets[b])) : HasLocation(batch[class[1]].resource)
    <3> TAKE class \in ToSet(Classes(batch, buckets[b]))
    <3>1. class[1] \in ToSet(class) /\ \A x \in ToSet(class) : x \in ToSet(buckets[b])
      BY <2>3 DEF Identified, ToSet
    <3> QED
      BY <1>2, <2>2, <3>1
  <2>5. Located(batch, Classes(batch, buckets[b]), ToSet(buckets[b]))
    BY <1>2, <2>2, <2>3, <2>4, IdentifiedAreLocated
  <2>6. Ordered(batch[buckets[b][1]].weakness)
    BY <1>2, <2>2, CandidatesAreOrdered
  <2>7. of[b] = Orphans(listed, reached, batch[buckets[b][1]])
    OBVIOUS
  <2> HIDE DEF of
  <2>8. /\ Identified(listed, of[b], DOMAIN listed)
        /\ \A class \in ToSet(of[b]) : HasLocation(listed[class[1]].resource)
    BY <2>6, <2>7, OrphansAreLocated
  <2>9. Located(listed, Free(of[b], of), DOMAIN listed)
    BY <2>8, FreeAreLocated
  <2> QED
    BY <2>2, <2>5, <2>9
<1> HIDE DEF of
<1>9. ASSUME NEW k \in fresh, s[k].status = "matched"
      PROVE  \E b \in DOMAIN buckets : k \in ToSet(buckets[b]) /\ s[k] = Decided(b)[k]
  <2>1. s[k] = IF home(k) = {} THEN [status |-> "new"]
               ELSE Decided(CHOOSE b \in home(k) : TRUE)[k]
    BY <1>7 DEF InBuckets
  <2>2. home(k) # {}
    BY <1>9, <2>1
  <2>3. (CHOOSE b \in home(k) : TRUE) \in home(k)
    BY <2>2
  <2> HIDE DEF Decided
  <2> QED
    BY <2>1, <2>2, <2>3
<1>10. PICK b \in DOMAIN buckets : n \in ToSet(buckets[b]) /\ s[n] = Decided(b)[n]
  <2> HIDE DEF Decided
  <2> QED
    BY <1>9
<1>11. PICK c \in DOMAIN buckets : m \in ToSet(buckets[c]) /\ s[m] = Decided(c)[m]
  <2> HIDE DEF Decided
  <2> QED
    BY <1>9
<1>12. b = c
  <2>1. n \in located /\ m \in located
    BY <1>8, <1>10, <1>11
  <2> QED
    BY <1>2, <1>4, <1>10, <1>11, <2>1, MatesShareABucket
<1> DEFINE r == Decided(b)
<1>13. r = InBucket(listed, batch, buckets[b], Classes(batch, buckets[b]), Free(of[b], of), of[b])
  OBVIOUS
<1>14. s[n] = r[n] /\ s[m] = r[m]
  BY <1>10, <1>11, <1>12
<1> HIDE DEF r
<1>15. r[n].status = "matched" /\ r[m].status = "matched"
  BY <1>14
<1>16. /\ r[n].finding \in DOMAIN listed /\ r[m].finding \in DOMAIN listed
       /\ Line(batch[n]) < Line(batch[m])
            => Line(listed[r[n].finding]) <= Line(listed[r[m].finding])
  BY <1>8, <1>10, <1>11, <1>12, <1>13, <1>15, PlacedInOrder
<1> QED
  BY <1>14, <1>16

-----------------------------------------------------------------------------
(***************************************************************************)
(* What is recorded                                                        *)
(***************************************************************************)

LEMMA GroupsAreFinite ==
  ASSUME NEW matches, NEW n \in Nat, DOMAIN matches = 1..n
  PROVE  /\ IsFiniteSet(NewGroups(matches)) /\ Cardinality(NewGroups(matches)) \in Nat
         /\ \A group \in NewGroups(matches) : group # {} /\ group \subseteq DOMAIN matches
<1> DEFINE new == {k \in DOMAIN matches : matches[k].status = "new"}
           Group(k) == {m \in new : matches[m].group = matches[k].group}
           G == {Group(k) : k \in new}
           group == [k \in new |-> Group(k)]
<1>1. new \subseteq DOMAIN matches /\ IsFiniteSet(DOMAIN matches)
  <2>1. IsFiniteSet(1..n)
    BY FS_Interval
  <2> QED
    BY <2>1
<1>2. IsFiniteSet(new)
  <2> HIDE DEF new
  <2> QED
    BY <1>1, FS_Subset
<1>3. group \in [new -> G] /\ \A g \in G : \E k \in new : group[k] = g
  OBVIOUS
<1>4. \A g \in G : g # {} /\ g \subseteq DOMAIN matches
  OBVIOUS
<1>5. NewGroups(matches) = G
  BY DEF NewGroups
<1> HIDE DEF new, G, group
<1>6. IsFiniteSet(G)
  BY <1>2, <1>3, ImagesAreFinite
<1> QED
  BY <1>4, <1>5, <1>6, FS_CardinalityType

\* The order in which new findings are created is a list of their groups.
LEMMA CreatedAreGroups ==
  ASSUME NEW matches, NEW n \in Nat, DOMAIN matches = 1..n,
         NEW created \in SetToSeqs(NewGroups(matches))
  PROVE  /\ DOMAIN created = 1..Cardinality(NewGroups(matches))
         /\ Cardinality(NewGroups(matches)) \in Nat
         /\ \A k \in DOMAIN created : /\ created[k] \in NewGroups(matches)
                                      /\ created[k] # {} /\ created[k] \subseteq DOMAIN matches
         /\ \A k, l \in DOMAIN created : created[k] = created[l] => k = l
<1>1. /\ Cardinality(NewGroups(matches)) \in Nat
      /\ \A group \in NewGroups(matches) : group # {} /\ group \subseteq DOMAIN matches
  BY GroupsAreFinite
<1> QED
  BY <1>1 DEF SetToSeqs

\* The findings there were stay, and the new ones follow them.
Follows(r, list, batch, created, n) ==
  /\ IsList(r) /\ DOMAIN r = 1..Len(list) + n /\ Len(list) \in Nat
  /\ DOMAIN list = 1..Len(list)
  /\ \A f \in DOMAIN list : \E e : r[f] = [list[f] EXCEPT !.fingerprints = e]
  /\ \A k \in 1..n : r[Len(list) + k] = Seeded(batch, created[k])

LEMMA RecordedFollow ==
  ASSUME FindingsOf(known), NEW batch, NEW targets, NEW created, NEW n \in Nat,
         DOMAIN created = 1..n
  PROVE  Follows(Recorded(batch, targets, created), known, batch, created, n)
<1> DEFINE attached(f) == {k \in DOMAIN batch : targets[k] = f}
           Kept(f) == [known[f] EXCEPT !.fingerprints = Fingerprints(batch, attached(f), @)]
           Added(k) == Seeded(batch, created[k])
           kept == [f \in DOMAIN known |-> Kept(f)]
           added == [k \in DOMAIN created |-> Added(k)]
           S == {Kept(f) : f \in DOMAIN known} \cup {Added(k) : k \in DOMAIN created}
           r == kept \o added
           K == Len(known)
<1>1. DOMAIN known = 1..K /\ K \in Nat
  BY ListedPlaces DEF FindingsOf
<1>2. \A f \in DOMAIN known : \E e : Kept(f) = [known[f] EXCEPT !.fingerprints = e]
  OBVIOUS
<1>3. Recorded(batch, targets, created) = r
  BY DEF Recorded
<1> HIDE DEF Kept, K
<1>4. \A k \in DOMAIN created : Added(k) = Seeded(batch, created[k])
  OBVIOUS
<1> HIDE DEF Added
<1>5. kept \in [1..K -> S] /\ \A f \in 1..K : kept[f] = Kept(f)
  BY <1>1
<1>6. added \in [1..n -> S] /\ \A k \in 1..n : added[k] = Added(k)
  OBVIOUS
<1> HIDE DEF kept, added, S
<1>7. kept \in Seq(S) /\ added \in Seq(S) /\ Len(kept) = K /\ Len(added) = n
  BY <1>1, <1>5, <1>6, SeqDef, LenProperties
<1>8. /\ r \in Seq(S) /\ Len(r) = K + n
      /\ \A i \in 1..K + n : r[i] = IF i <= K THEN kept[i] ELSE added[i - K]
  BY <1>7, ConcatProperties
<1> HIDE DEF r
<1>9. DOMAIN r = 1..K + n
  BY <1>1, <1>8
<1>10. r \in Seq({r[k] : k \in DOMAIN r})
  <2>1. K + n \in Nat /\ r \in [1..K + n -> {r[k] : k \in DOMAIN r}]
    BY <1>1, <1>8, <1>9
  <2> QED
    BY <2>1, SeqDef
<1>11. \A f \in DOMAIN known : r[f] = Kept(f)
  BY <1>1, <1>5, <1>8
<1>12. \A k \in 1..n : r[K + k] = Added(k)
  <2> TAKE k \in 1..n
  <2> DEFINE i == K + k
  <2>1. i \in 1..K + n /\ ~(i <= K) /\ i - K = k
    BY <1>1
  <2>2. r[i] = added[i - K]
    <3> HIDE DEF i
    <3> QED
      BY <1>8, <2>1
  <2>3. added[k] = Added(k)
    BY <1>6
  <2> QED
    BY <2>1, <2>2, <2>3
<1>13. IsList(r)
  BY <1>10 DEF IsList
<1> QED
  BY <1>1, <1>2, <1>3, <1>4, <1>9, <1>11, <1>12, <1>13 DEF K, Follows

\* A change of its fingerprints leaves what is a finding one.
LEMMA FingerprintsApart ==
  ASSUME NEW f, IsFinding(f), NEW e
  PROVE  LET g == [f EXCEPT !.fingerprints = e]
         IN IsFinding(g) /\ g.resource = f.resource /\ g.weakness = f.weakness
<1> DEFINE g == [f EXCEPT !.fingerprints = e]
<1>1. /\ DOMAIN f = {"weakness", "resource", "fingerprints", "place", "duplicate"}
      /\ f = [x \in DOMAIN f |-> f[x]] /\ Numbered(f)
  BY DEF IsFinding
<1>2. DOMAIN g = DOMAIN f /\ g = [x \in DOMAIN g |-> g[x]]
      /\ g.resource = f.resource /\ g.weakness = f.weakness
  BY <1>1
<1> HIDE DEF g
<1>3. Numbered(g)
  BY <1>1, <1>2 DEF Numbered
<1> QED
  BY <1>1, <1>2, <1>3 DEF IsFinding, g

LEMMA SeededIsFinding ==
  ASSUME NEW batch, BatchOf(batch), NEW group, group # {}, group \subseteq DOMAIN batch
  PROVE  /\ Least(group) \in group /\ \A k \in group : Least(group) <= k
         /\ IsFinding(Seeded(batch, group))
         /\ Seeded(batch, group).resource = batch[Least(group)].resource
         /\ Seeded(batch, group).weakness = batch[Least(group)].weakness
<1> DEFINE first == batch[Least(group)]
           s == Seeded(batch, group)
<1>1. group \subseteq Nat
  BY ListedPlaces DEF BatchOf
<1>2. Least(group) \in group /\ \A k \in group : Least(group) <= k
  BY <1>1, LeastIsLeast
<1>3. Numbered(first)
  BY <1>2, CandidatesAreOrdered
<1>4. \E e : s = [weakness |-> first.weakness, resource |-> first.resource, place |-> first.place,
                  fingerprints |-> e, duplicate |-> FALSE]
  BY DEF Seeded
<1> HIDE DEF s, first
<1>5. /\ s = [f \in {"weakness", "resource", "fingerprints", "place", "duplicate"} |-> s[f]]
      /\ s.resource = first.resource /\ s.weakness = first.weakness
  BY <1>4
<1>6. Numbered(s)
  BY <1>3, <1>5 DEF Numbered
<1> QED
  BY <1>2, <1>5, <1>6 DEF IsFinding, s, first

-----------------------------------------------------------------------------
(***************************************************************************)
(* The theorems of the specification                                       *)
(***************************************************************************)

\* What is stored and reported stays what the schemas allow.
WellFormed ==
  /\ world \in DOMAIN Worlds
  /\ FindingsOf(known)
  /\ BatchOf(report)

\* What an import makes of the findings, whichever order the new ones are created in.
LEMMA PlanRecorded ==
  ASSUME FindingsOf(known), NEW batch, BatchOf(batch), RecordPlan(batch, Match(known, batch))
  PROVE  \E created \in SetToSeqs(NewGroups(Match(known, batch))) :
           /\ results' = Match(known, batch)
           /\ DOMAIN results' = DOMAIN batch
           /\ target' = [n \in DOMAIN batch |-> TargetOf(Match(known, batch), created, n)]
           /\ known' = Recorded(batch, [n \in DOMAIN batch |->
                                          TargetOf(Match(known, batch), created, n)], created)
<1>1. DOMAIN Match(known, batch) = DOMAIN batch
  BY MatchIs DEF BatchOf, Concluded
<1> HIDE DEF Match
<1> QED
  BY <1>1 DEF RecordPlan

\* The findings are kept, apart from fingerprints, and each new one is its seed.
LEMMA ImportAdds ==
  ASSUME FindingsOf(known), NEW batch, BatchOf(batch), RecordPlan(batch, Match(known, batch))
  PROVE  /\ FindingsOf(known')
         /\ DOMAIN known = 1..Len(known) /\ Len(known) \in Nat
         /\ \A f \in DOMAIN known : /\ f \in DOMAIN known'
                                    /\ known'[f].resource = known[f].resource
                                    /\ known'[f].weakness = known[f].weakness
         /\ \E created \in SetToSeqs(NewGroups(Match(known, batch))) :
              \A f \in DOMAIN known' \ DOMAIN known :
                /\ f - Len(known) \in DOMAIN created /\ f \in Nat
                /\ known'[f] = Seeded(batch, created[f - Len(known)])
<1> DEFINE matches == Match(known, batch)
           groups == NewGroups(matches)
           K == Len(known)
<1>1. PICK created \in SetToSeqs(groups) :
        \E targets : /\ DOMAIN matches = DOMAIN batch
                     /\ known' = Recorded(batch, targets, created)
  <2> HIDE DEF Match
  <2> QED
    BY PlanRecorded
<1>2. PICK targets : /\ DOMAIN matches = DOMAIN batch
                     /\ known' = Recorded(batch, targets, created)
  BY <1>1
<1> HIDE DEF matches
<1>3. DOMAIN matches = 1..Len(batch) /\ Len(batch) \in Nat
  BY <1>2, ListedPlaces DEF BatchOf
<1> DEFINE n == Cardinality(groups)
<1>10. /\ DOMAIN created = 1..n /\ n \in Nat
       /\ \A k \in DOMAIN created : created[k] # {} /\ created[k] \subseteq DOMAIN matches
  BY <1>3, CreatedAreGroups
<1>4. /\ DOMAIN created = 1..n /\ n \in Nat
      /\ \A k \in DOMAIN created : created[k] # {} /\ created[k] \subseteq DOMAIN batch
  <2> HIDE DEF groups, n
  <2> QED
    BY <1>2, <1>10
<1> HIDE DEF groups, n
<1> DEFINE r == Recorded(batch, targets, created)
<1>5. /\ IsList(r) /\ DOMAIN r = 1..K + n /\ K \in Nat /\ DOMAIN known = 1..K
      /\ \A f \in DOMAIN known : \E e : r[f] = [known[f] EXCEPT !.fingerprints = e]
      /\ \A k \in 1..n : r[K + k] = Seeded(batch, created[k])
  <2>1. Follows(r, known, batch, created, n)
    BY <1>4, RecordedFollow
  <2> HIDE DEF r
  <2> QED
    BY <2>1 DEF Follows
<1> HIDE DEF r
<1>6. \A f \in DOMAIN known : /\ IsFinding(r[f]) /\ r[f].resource = known[f].resource
                              /\ r[f].weakness = known[f].weakness
  <2> TAKE f \in DOMAIN known
  <2>1. IsFinding(known[f])
    BY DEF FindingsOf
  <2>2. PICK e : r[f] = [known[f] EXCEPT !.fingerprints = e]
    BY <1>5
  <2> QED
    BY <2>1, <2>2, FingerprintsApart
<1> HIDE DEF K
<1>7. ASSUME NEW f \in DOMAIN r \ DOMAIN known
      PROVE  /\ f \in Nat /\ f - K \in DOMAIN created /\ r[f] = Seeded(batch, created[f - K])
             /\ IsFinding(r[f])
  <2>1. f \in Nat /\ f - K \in 1..n /\ K + (f - K) = f
    BY <1>4, <1>5
  <2>2. r[f] = Seeded(batch, created[f - K])
    BY <1>5, <2>1
  <2> QED
    BY <1>4, <2>1, <2>2, SeededIsFinding
<1>8. FindingsOf(r)
  BY <1>5, <1>6, <1>7 DEF FindingsOf
<1>9. known' = r /\ \A f \in DOMAIN known : f \in DOMAIN r
  <2>1. known' = r
    BY <1>2 DEF r
  <2> QED
    BY <1>4, <1>5, <2>1
<1> QED
  BY <1>5, <1>6, <1>7, <1>8, <1>9 DEF K, groups, matches

LEMMA DuplicatesAreFindings ==
  ASSUME NEW f, IsFinding(f)
  PROVE  IsFinding([f EXCEPT !.duplicate = TRUE])
<1> DEFINE g == [f EXCEPT !.duplicate = TRUE]
<1>1. /\ DOMAIN f = {"weakness", "resource", "fingerprints", "place", "duplicate"}
      /\ f = [x \in DOMAIN f |-> f[x]] /\ Numbered(f)
  BY DEF IsFinding
<1>2. DOMAIN g = DOMAIN f /\ g = [x \in DOMAIN g |-> g[x]] /\ g.resource = f.resource
  BY <1>1
<1> HIDE DEF g
<1>3. Numbered(g)
  BY <1>1, <1>2 DEF Numbered
<1> QED
  BY <1>1, <1>2, <1>3 DEF IsFinding, g

LEMMA CorrectionsAreFindings ==
  ASSUME NEW f, IsFinding(f), NEW fields, "resource" \in DOMAIN fields => Numbered(fields)
  PROVE  IsFinding([field \in DOMAIN f |->
                      IF field \in DOMAIN fields THEN fields[field] ELSE f[field]])
<1> DEFINE h == [field \in DOMAIN f |-> IF field \in DOMAIN fields THEN fields[field] ELSE f[field]]
<1>1. /\ DOMAIN f = {"weakness", "resource", "fingerprints", "place", "duplicate"}
      /\ f = [x \in DOMAIN f |-> f[x]] /\ Numbered(f)
  BY DEF IsFinding
<1>2. /\ DOMAIN h = DOMAIN f /\ h = [x \in DOMAIN h |-> h[x]]
      /\ h.resource = IF "resource" \in DOMAIN fields THEN fields.resource ELSE f.resource
  BY <1>1
<1> HIDE DEF h
<1>3. Numbered(h)
  BY <1>1, <1>2 DEF Numbered
<1> QED
  BY <1>1, <1>2, <1>3 DEF IsFinding, h

LEMMA ChangeKeepsFindings ==
  ASSUME FindingsOf(known), NEW f \in DOMAIN known, NEW change, IsFinding(change)
  PROVE  FindingsOf([known EXCEPT ![f] = change])
<1> DEFINE r == [known EXCEPT ![f] = change]
           n == Len(known)
<1>1. DOMAIN known = 1..n /\ n \in Nat
  BY ListedPlaces DEF FindingsOf
<1>2. DOMAIN r = 1..n /\ \A g \in 1..n : IsFinding(r[g])
  BY <1>1 DEF FindingsOf
<1>3. r = [k \in 1..n |-> r[k]]
  BY <1>1
<1> HIDE DEF r, n
<1>4. r \in [1..n -> {r[k] : k \in DOMAIN r}]
  BY <1>2, <1>3
<1>5. r \in Seq({r[k] : k \in DOMAIN r})
  BY <1>1, <1>4, SeqDef
<1> QED
  BY <1>2, <1>5 DEF FindingsOf, IsList, r

\* The findings and the last report are well formed, whoever wrote them.
THEOREM MatchingIsWellFormed == Spec => []WellFormed
<1>1. Init => WellFormed
  <2> SUFFICES ASSUME Init PROVE WellFormed
    OBVIOUS
  <2>1. world \in DOMAIN Worlds /\ FindingsOf(known)
    BY ItemsAssumption DEF Init
  <2>2. BatchOf(report)
    BY DEF Init, BatchOf, IsList
  <2> QED
    BY <2>1, <2>2 DEF WellFormed
<1>2. WellFormed /\ [Next]_vars => WellFormed'
  <2> SUFFICES ASSUME WellFormed, [Next]_vars PROVE WellFormed'
    OBVIOUS
  <2>1. ASSUME NEW batch, BatchOf(batch), Process(batch) PROVE WellFormed'
    <3>1. RecordPlan(batch, Match(known, batch)) /\ report' = batch /\ world' = world
      BY <2>1 DEF Process
    <3>2. FindingsOf(known')
      BY <2>1, <3>1, ImportAdds DEF WellFormed
    <3>3. BatchOf(report')
      BY <2>1, <3>1
    <3> QED
      BY <3>1, <3>2, <3>3 DEF WellFormed
  <2>2. ASSUME NEW batch \in Reports[world], Import(batch) PROVE WellFormed'
    <3>1. BatchOf(batch)
      BY ItemsAssumption DEF WellFormed
    <3> QED
      BY <2>1, <2>2, <3>1 DEF Import
  <2>3. CASE Rescan
    BY <2>1, <2>3 DEF Rescan, WellFormed
  <2>4. ASSUME NEW f \in DOMAIN known, NEW change, IsFinding(change), Changed(f, change)
        PROVE  WellFormed'
    <3>1. known' = [known EXCEPT ![f] = change] /\ world' = world /\ report' = report
      BY <2>4 DEF Changed
    <3>2. FindingsOf([known EXCEPT ![f] = change])
      BY <2>4, ChangeKeepsFindings DEF WellFormed
    <3> QED
      BY <3>1, <3>2 DEF WellFormed
  <2>5. ASSUME NEW f \in DOMAIN known, MarkDuplicate(f) PROVE WellFormed'
    <3>1. IsFinding(known[f])
      BY DEF WellFormed, FindingsOf
    <3>2. IsFinding([known[f] EXCEPT !.duplicate = TRUE])
      BY <3>1, DuplicatesAreFindings
    <3> QED
      BY <2>4, <2>5, <3>2 DEF MarkDuplicate
  <2>6. ASSUME NEW f \in DOMAIN known, NEW fields \in Edits[world], Correct(f, fields)
        PROVE  WellFormed'
    <3> DEFINE change == [field \in DOMAIN known[f] |->
                            IF field \in DOMAIN fields THEN fields[field] ELSE known[f][field]]
    <3>1. IsFinding(known[f]) /\ ("resource" \in DOMAIN fields => Numbered(fields))
      BY ItemsAssumption DEF WellFormed, FindingsOf
    <3>2. IsFinding(change)
      BY <3>1, CorrectionsAreFindings
    <3>3. Changed(f, change)
      BY <2>6, Zenon DEF Correct
    <3> HIDE DEF change
    <3> QED
      BY <2>4, <3>2, <3>3
  <2>7. CASE UNCHANGED vars
    BY <2>7 DEF vars, WellFormed
  <2> QED
    BY <2>2, <2>3, <2>5, <2>6, <2>7 DEF Next
<1> QED
  BY <1>1, <1>2, PTL DEF Spec

\* What an import leaves of the order of moved code.
LEMMA ImportKeepsOrder ==
  ASSUME FindingsOf(known), NEW batch, BatchOf(batch), Process(batch)
  PROVE  MovesKeepOrder'
<1> DEFINE matches == Match(known, batch)
           fresh == Fresh(known, batch)
           shifted == Shifted(known, batch)
           Moved(k) == results'[k].status = "matched" /\ results'[k].by = "moved"
<1>1. RecordPlan(batch, Match(known, batch)) /\ report' = batch
  BY DEF Process
<1>2. PICK created : /\ results' = matches /\ DOMAIN results' = DOMAIN batch
                     /\ target' = [n \in DOMAIN batch |-> TargetOf(matches, created, n)]
  <2> HIDE DEF Match
  <2> QED
    BY <1>1, PlanRecorded
<1>3. \A f \in DOMAIN known : known'[f].resource = known[f].resource
  BY <1>1, ImportAdds
<1>4. fresh \subseteq DOMAIN batch /\ IsList(batch)
  BY DEF Fresh, BatchOf
<1>5. shifted = PairShifted(known, batch, fresh,
                            UNION {Pending(known, batch)[n].reached : n \in DOMAIN batch})
  BY DEF Shifted
<1> HIDE DEF matches, fresh, shifted
<1>6. ASSUME NEW n \in DOMAIN results', Moved(n)
      PROVE  n \in fresh /\ matches[n] = shifted[n] /\ target'[n] = shifted[n].finding
             /\ shifted[n].status = "matched"
  <2>1. n \in DOMAIN matches /\ matches[n].status = "matched" /\ matches[n].by = "moved"
    BY <1>2, <1>6
  <2>2. n \in fresh /\ matches[n] = shifted[n]
    BY <1>4, <2>1, MovedAreShifted DEF matches, fresh, shifted
  <2>3. target'[n] = matches[n].finding
    BY <1>2, <1>6, <2>1 DEF TargetOf
  <2> QED
    BY <2>1, <2>2, <2>3
<1>7. ASSUME NEW n \in DOMAIN results', NEW m \in DOMAIN results', Moved(n), Moved(m),
             Mates(batch, n, m), Line(batch[n]) < Line(batch[m])
      PROVE  Line(known'[target'[n]]) <= Line(known'[target'[m]])
  <2>1. /\ n \in fresh /\ shifted[n].status = "matched" /\ target'[n] = shifted[n].finding
        /\ m \in fresh /\ shifted[m].status = "matched" /\ target'[m] = shifted[m].finding
    BY <1>6, <1>7
  <2>2. /\ shifted[n].finding \in DOMAIN known /\ shifted[m].finding \in DOMAIN known
        /\ Line(batch[n]) < Line(batch[m])
             => Line(known[shifted[n].finding]) <= Line(known[shifted[m].finding])
    BY <1>4, <1>5, <1>7, <2>1, MatesKeepOrder
  <2> QED
    BY <1>3, <1>7, <2>1, <2>2 DEF Line
<1> QED
  BY <1>1, <1>2, <1>7 DEF MovesKeepOrder, Mates, Line

\* Candidates that follow moved code keep the order of their findings in the file.
THEOREM MovesKeepOrderAlways == Spec => []MovesKeepOrder
<1>1. Init => MovesKeepOrder
  BY DEF Init, MovesKeepOrder
<1>2. WellFormed /\ MovesKeepOrder /\ [Next]_vars => MovesKeepOrder'
  <2> SUFFICES ASSUME WellFormed, MovesKeepOrder, [Next]_vars PROVE MovesKeepOrder'
    OBVIOUS
  <2>1. FindingsOf(known)
    BY DEF WellFormed
  <2>2. ASSUME NEW batch \in Reports[world], Import(batch) PROVE MovesKeepOrder'
    <3>1. BatchOf(batch)
      BY ItemsAssumption DEF WellFormed
    <3>2. Process(batch)
      BY <2>2 DEF Import
    <3> QED
      BY <2>1, <3>1, <3>2, ImportKeepsOrder
  <2>3. CASE Rescan
    <3>1. BatchOf(report) /\ Process(report)
      BY <2>3 DEF Rescan, WellFormed
    <3> QED
      BY <2>1, <3>1, ImportKeepsOrder
  <2>4. CASE results' = <<>>
    BY <2>4 DEF MovesKeepOrder
  <2>5. ASSUME NEW f \in DOMAIN known, MarkDuplicate(f) PROVE MovesKeepOrder'
    BY <2>4, <2>5 DEF MarkDuplicate, Changed
  <2>6. ASSUME NEW f \in DOMAIN known, NEW fields \in Edits[world], Correct(f, fields)
        PROVE  MovesKeepOrder'
    BY <2>4, <2>6 DEF Correct, Changed
  <2>7. CASE UNCHANGED vars
    BY <2>7 DEF vars, MovesKeepOrder
  <2> QED
    BY <2>2, <2>3, <2>5, <2>6, <2>7 DEF Next
<1> QED
  BY <1>1, <1>2, MatchingIsWellFormed, PTL DEF Spec

-----------------------------------------------------------------------------
(***************************************************************************)
(* New findings                                                            *)
(***************************************************************************)

LEMMA SameIdentityIsSymmetric ==
  ASSUME NEW l, NEW r, SameIdentity(l, r)
  PROVE  SameIdentity(r, l)
<1> DEFINE a == l.weakness
           b == r.weakness
           c == l.resource
           d == r.resource
           shared == Specific(a) \cap Specific(b)
           common == DOMAIN c.fields \cap DOMAIN d.fields
           oneSided == (DOMAIN c.fields \cup DOMAIN d.fields) \ common
<1>1. CompareWeakness(a, b) = "same" \/ a = b
  BY DEF SameIdentity
<1>2. CompareResource(c, d) = "exact"
  BY DEF SameIdentity
<1> HIDE DEF a, b, c, d
<1>3. ASSUME CompareWeakness(a, b) = "same" PROVE CompareWeakness(b, a) = "same"
  <2>1. shared # {} /\ \A ns \in shared : Overlap(a, b, ns)
    BY <1>3 DEF CompareWeakness
  <2>2. \A ns \in shared : Overlap(b, a, ns)
    BY <2>1 DEF Overlap
  <2>3. Specific(b) \cap Specific(a) = shared
    OBVIOUS
  <2> HIDE DEF shared
  <2> QED
    BY <2>1, <2>2, <2>3 DEF CompareWeakness
<1>4. CompareResource(d, c) = "exact"
  <2> DEFINE ignored == IF c.type = "sourceCode" THEN SpanDetail ELSE {}
  <2>1. /\ c.type = d.type /\ Sufficient(c) /\ Sufficient(d)
        /\ \A field \in common : c.fields[field] = d.fields[field]
        /\ oneSided \subseteq ignored
    BY <1>2 DEF CompareResource
  <2>2. /\ DOMAIN d.fields \cap DOMAIN c.fields = common
        /\ (DOMAIN d.fields \cup DOMAIN c.fields) \ common = oneSided
    OBVIOUS
  <2> HIDE DEF common, oneSided
  <2> QED
    BY <2>1, <2>2 DEF CompareResource
<1> QED
  BY <1>1, <1>3, <1>4 DEF SameIdentity, a, b, c, d

\* Two of one identity that name a weakness have the same one.
LEMMA SameIdentityMeets ==
  ASSUME NEW l, NEW r, SameIdentity(l, r), Specific(l.weakness) # {}
  PROVE  /\ CompareWeakness(l.weakness, r.weakness) = "same"
         /\ CompareResource(l.resource, r.resource) = "exact"
         /\ \E ns \in DOMAIN l.weakness : Overlap(l.weakness, r.weakness, ns)
<1> DEFINE a == l.weakness
           b == r.weakness
<1>1. CompareWeakness(a, b) = "same" \/ a = b
  BY DEF SameIdentity
<1> HIDE DEF a, b
<1>2. Specific(a) # {}
  BY DEF a
<1>3. ASSUME a = b
      PROVE  CompareWeakness(a, b) = "same"
  <2>1. \A ns \in Specific(a) : Overlap(a, a, ns)
    BY DEF Specific, Overlap
  <2> QED
    BY <1>2, <1>3, <2>1 DEF CompareWeakness
<1>4. CompareWeakness(a, b) = "same"
  BY <1>1, <1>3
<1>5. \E ns \in Specific(a) : Overlap(a, b, ns)
  BY <1>4 DEF CompareWeakness
<1> QED
  BY <1>4, <1>5 DEF Specific, SameIdentity, a, b

\* A candidate that is new has the identity of no finding.
LEMMA NewHasNoTwin ==
  ASSUME NEW listed, IsList(listed), NEW c, Ordered(c.weakness),
         Decide(listed, c).status = "new", NEW n \in DOMAIN listed
  PROVE  ~SameIdentity(c, listed[n])
<1> DEFINE sharing == SharingIdentifiers(listed, c.weakness)
           fitting == {k \in ToSet(sharing) :
                         /\ CompareWeakness(c.weakness, listed[k].weakness) # "none"
                         /\ CompareResource(c.resource, listed[k].resource) # "different"}
<1>1. \A strength, classes, reached, conflict :
        ClaimOf(strength, classes, reached, conflict).status \in {"claim", "unresolved"}
  BY DEF ClaimOf
<1>2. fitting = {} /\ Specific(c.weakness) # {}
  BY <1>1 DEF Decide
<1>3. ToSet(sharing) = Sharing(listed, c.weakness)
  BY SharingIsListed, MembersOfAList
<1> HIDE DEF sharing
<1>4. SUFFICES ASSUME SameIdentity(c, listed[n]) PROVE FALSE
  OBVIOUS
<1>5. /\ CompareWeakness(c.weakness, listed[n].weakness) = "same"
      /\ CompareResource(c.resource, listed[n].resource) = "exact"
      /\ \E ns \in DOMAIN c.weakness : Overlap(c.weakness, listed[n].weakness, ns)
  BY <1>2, <1>4, SameIdentityMeets
<1>6. n \in ToSet(sharing)
  BY <1>3, <1>5 DEF Sharing
<1> QED
  BY <1>2, <1>5, <1>6

\* Each class is in a group of the fold whole or not at all.
Whole(of, classes) ==
  \A g \in DOMAIN of : \A c \in DOMAIN classes : \A x, y \in ToSet(classes[c]) :
    x \in of[g] => y \in of[g]

\* Groups of candidates named by places.
GroupingsOf(I, S) == UNION {[D -> SUBSET S] : D \in SUBSET I}

LEMMA JoinedKeeps ==
  ASSUME NEW batch, NEW I, NEW S, NEW of \in GroupingsOf(I, S), NEW g \in DOMAIN of
  PROVE  /\ Joined(batch, of, g) \in GroupingsOf(I, S)
         /\ DOMAIN of \ {g} \subseteq DOMAIN Joined(batch, of, g)
         /\ \A classes : Whole(of, classes) => Whole(Joined(batch, of, g), classes)
<1> DEFINE r == Joined(batch, of, g)
<1>1. \E targets :
        r = IF targets = {} THEN of
            ELSE [h \in DOMAIN of \ {g} |-> IF targets = {h} THEN of[h] \cup of[g] ELSE of[h]]
  BY DEF Joined
<1>2. PICK targets :
        r = IF targets = {} THEN of
            ELSE [h \in DOMAIN of \ {g} |-> IF targets = {h} THEN of[h] \cup of[g] ELSE of[h]]
  BY <1>1
<1> HIDE DEF r
<1>3. CASE targets = {}
  BY <1>2, <1>3 DEF r
<1>4. CASE targets # {}
  <2>1. /\ DOMAIN r = DOMAIN of \ {g}
        /\ r = [h \in DOMAIN of \ {g} |-> r[h]]
        /\ \A h \in DOMAIN r : r[h] \in {of[h], of[h] \cup of[g]}
    BY <1>2, <1>4
  <2>2. DOMAIN of \subseteq I /\ \A h \in DOMAIN of : of[h] \subseteq S
    BY DEF GroupingsOf
  <2>3. r \in [DOMAIN r -> SUBSET S] /\ DOMAIN r \in SUBSET I
    BY <2>1, <2>2
  <2>4. r \in GroupingsOf(I, S)
    BY <2>3 DEF GroupingsOf
  <2>5. ASSUME NEW classes, Whole(of, classes) PROVE Whole(r, classes)
    BY <2>1, <2>5 DEF Whole
  <2> QED
    BY <2>1, <2>4, <2>5 DEF r
<1> QED
  BY <1>3, <1>4

\* What the fold does step by step, as long as each group is open when its turn comes.
Folds(f, batch, start, order, n) ==
  /\ f[0] = start
  /\ \A k \in 1..n : order[k] \in DOMAIN f[k - 1] => f[k] = Joined(batch, f[k - 1], order[k])

LEMMA FoldsKeep ==
  ASSUME NEW batch, NEW S, NEW classes \in Seq(Seq(S)), NEW n \in Nat, NEW I, NEW order,
         order \in [1..n -> I], \A i, j \in 1..n : order[i] = order[j] => i = j,
         NEW start \in GroupingsOf(I, S), DOMAIN start = I, Whole(start, classes),
         NEW f, Folds(f, batch, start, order, n), NEW k \in 0..n
  PROVE  /\ f[k] \in GroupingsOf(I, S) /\ Whole(f[k], classes)
         /\ \A j \in k + 1..n : order[j] \in DOMAIN f[k]
<1> DEFINE Kept(m) == /\ f[m] \in GroupingsOf(I, S) /\ Whole(f[m], classes)
                      /\ \A j \in m + 1..n : order[j] \in DOMAIN f[m]
           Bad == {m \in 0..n : ~Kept(m)}
<1>1. SUFFICES ASSUME Bad # {} PROVE FALSE
  OBVIOUS
<1>2. PICK m \in Bad : \A l \in Bad : m <= l
  <2>1. Bad \subseteq Nat
    OBVIOUS
  <2> HIDE DEF Bad
  <2> QED
    BY <1>1, <2>1, LeastOne
<1>3. m \in 0..n /\ ~Kept(m)
  OBVIOUS
<1>4. CASE m = 0
  <2>1. f[m] = start /\ \A j \in m + 1..n : order[j] \in DOMAIN f[m]
    BY <1>4 DEF Folds
  <2>2. f[m] \in GroupingsOf(I, S) /\ Whole(f[m], classes)
    BY <2>1
  <2>3. Kept(m)
    BY <2>1, <2>2
  <2> HIDE DEF Kept
  <2> QED
    BY <1>3, <2>3
<1>5. CASE m # 0
  <2> DEFINE l == m - 1
             of == f[l]
             g == order[m]
  <2>1. l \in 0..n /\ l < m /\ m \in 1..n /\ m \in l + 1..n
    BY <1>3, <1>5
  <2>2. Kept(l)
    <3> HIDE DEF Kept, l
    <3>1. ASSUME ~Kept(l) PROVE FALSE
      <4>1. l \in Bad
        BY <2>1, <3>1
      <4>2. m <= l
        BY <1>2, <4>1
      <4> QED
        BY <1>3, <2>1, <4>2
    <3> QED
      BY <3>1
  <2>3. /\ of \in GroupingsOf(I, S) /\ Whole(of, classes)
        /\ \A j \in m..n : order[j] \in DOMAIN of
    BY <1>3, <2>2
  <2>4. g \in DOMAIN of
    BY <2>1, <2>3
  <2>5. f[m] = Joined(batch, of, g)
    BY <2>1, <2>4 DEF Folds
  <2> HIDE DEF of, g, l
  <2>9. of \in GroupingsOf(I, S) /\ g \in DOMAIN of /\ Whole(of, classes)
    BY <2>3, <2>4
  <2>10. /\ Joined(batch, of, g) \in GroupingsOf(I, S)
         /\ DOMAIN of \ {g} \subseteq DOMAIN Joined(batch, of, g)
         /\ Whole(Joined(batch, of, g), classes)
    BY <2>9, JoinedKeeps
  <2>6. /\ f[m] \in GroupingsOf(I, S) /\ DOMAIN of \ {g} \subseteq DOMAIN f[m]
        /\ Whole(f[m], classes)
    BY <2>5, <2>10
  <2>7. ASSUME NEW j \in m + 1..n PROVE order[j] \in DOMAIN f[m]
    <3>1. j \in 1..n /\ j \in m..n /\ j # m
      BY <2>1
    <3>2. order[j] # g /\ order[j] \in DOMAIN of
      BY <2>1, <2>3, <3>1 DEF g
    <3> QED
      BY <2>6, <3>2
  <2>8. Kept(m)
    BY <2>6, <2>7
  <2> HIDE DEF Kept
  <2> QED
    BY <1>3, <2>8
<1> QED
  BY <1>4, <1>5

\* The fold of the classes of a batch leaves each class whole.
LEMMA FoldIsWhole ==
  ASSUME NEW batch, NEW S, NEW groups \in Seq(Seq(S)),
         \A k, l \in DOMAIN groups : \A x \in ToSet(groups[k]) : x \in ToSet(groups[l]) => k = l,
         NEW order, order \in [1..Len(groups) -> DOMAIN groups],
         \A i, j \in 1..Len(groups) : order[i] = order[j] => i = j
  PROVE  Whole(Fold(batch, groups, order), groups)
<1> DEFINE n == Len(groups)
           D == 0..n
           I == DOMAIN groups
           X == GroupingsOf(I, S)
           start == [g \in DOMAIN groups |-> ToSet(groups[g])]
           Step(k, f) == IF k = 0 THEN start ELSE Joined(batch, f[k - 1], order[k])
           Sure(k, f) == IF k = 0 THEN start
                         ELSE IF order[k] \in DOMAIN f[k - 1]
                              THEN Joined(batch, f[k - 1], order[k]) ELSE f[k - 1]
           H == [a \in D \X [D -> X] |-> Sure(a[1], a[2])]
           left == [k \in D |-> k]
           folded == CHOOSE f : f = [k \in 0..Len(groups) |-> Step(k, f)]
<1>1. n \in Nat /\ \A g \in I : ToSet(groups[g]) \subseteq S
  BY DEF ToSet
<1>2. start \in X /\ DOMAIN start = I
  <2>1. start \in [I -> SUBSET S]
    BY <1>1
  <2> QED
    BY <2>1 DEF GroupingsOf
<1>3. Whole(start, groups)
  BY DEF Whole
<1>4. Fold(batch, groups, order) = folded[n]
  BY DEF Fold
<1> HIDE DEF start, n
<1>5. \A k \in D : k # 0 => k - 1 \in D /\ k - 1 < k /\ k \in 1..n
  BY <1>1
<1>6. \A k \in D : \A f \in [D -> X] : Sure(k, f) \in X
  <2> TAKE k \in D
  <2> TAKE f \in [D -> X]
  <2>1. CASE k = 0
    BY <1>2, <2>1
  <2>2. CASE k # 0
    <3> DEFINE of == f[k - 1]
    <3>1. of \in X
      BY <1>5, <2>2
    <3> HIDE DEF of
    <3>2. order[k] \in DOMAIN of => Joined(batch, of, order[k]) \in X
      BY <3>1, JoinedKeeps
    <3> QED
      BY <2>2, <3>1, <3>2 DEF of
  <2> QED
    BY <2>1, <2>2
<1>7. H \in [D \X [D -> X] -> X]
  <2> HIDE DEF Sure, D, X
  <2> QED
    BY <1>6
<1>8. ASSUME NEW k \in D, NEW f \in [D -> X], NEW g \in [D -> X],
             \A l \in D : left[l] < left[k] => f[l] = g[l]
      PROVE  H[<<k, f>>] = H[<<k, g>>]
  <2>1. H[<<k, f>>] = Sure(k, f) /\ H[<<k, g>>] = Sure(k, g)
    <3> HIDE DEF Sure, D, X
    <3> QED
      OBVIOUS
  <2>2. k # 0 => f[k - 1] = g[k - 1]
    BY <1>5, <1>8
  <2>3. Sure(k, f) = Sure(k, g)
    BY <2>2
  <2> QED
    BY <2>1, <2>3
<1>9. \E f : Solves(f, H, D, X)
  <2>1. left \in [D -> 0..n]
    OBVIOUS
  <2> HIDE DEF H, left, D, X
  <2>2. \A k \in D : \A f, g \in [D -> X] :
          (\A l \in D : left[l] < left[k] => f[l] = g[l]) => H[<<k, f>>] = H[<<k, g>>]
    BY <1>8
  <2>3. Descends(H, D, X, left)
    BY <1>7, <2>2 DEF Descends
  <2> QED
    BY <1>1, <1>2, <2>1, <2>3, RecursionEnds
<1>10. ASSUME NEW f, Folds(f, batch, start, order, n), NEW k \in D
       PROVE  /\ Whole(f[k], groups) /\ \A j \in k + 1..n : order[j] \in DOMAIN f[k]
  <2>1. order \in [1..n -> I] /\ \A i, j \in 1..n : order[i] = order[j] => i = j
    BY DEF n
  <2> HIDE DEF I
  <2> QED
    BY <1>1, <1>2, <1>3, <1>10, <2>1, FoldsKeep
<1>11. folded = [k \in D |-> Step(k, folded)]
  <2>1. PICK f \in [D -> X] : \A k \in D : f[k] = H[<<k, f>>]
    BY <1>9 DEF Solves
  <2>2. \A k \in D : f[k] = Sure(k, f)
    <3>1. \A k \in D : H[<<k, f>>] = Sure(k, f)
      <4> HIDE DEF Sure, D, X
      <4> QED
        OBVIOUS
    <3> HIDE DEF Sure, H
    <3> QED
      BY <2>1, <3>1
  <2>3. Folds(f, batch, start, order, n)
    <3>1. f[0] = start
      BY <1>1, <2>2
    <3>2. \A k \in 1..n : order[k] \in DOMAIN f[k - 1] => f[k] = Joined(batch, f[k - 1], order[k])
      <4> TAKE k \in 1..n
      <4>1. k \in D /\ k # 0
        BY <1>1
      <4> QED
        BY <2>2, <4>1
    <3> QED
      BY <3>1, <3>2 DEF Folds
  <2>4. ASSUME NEW k \in D PROVE f[k] = Step(k, f)
    <3>1. CASE k = 0
      BY <2>2, <3>1
    <3>2. CASE k # 0
      <4> DEFINE l == k - 1
      <4>1. l \in D /\ k \in l + 1..n
        BY <1>1, <1>5, <3>2
      <4>2. order[k] \in DOMAIN f[l]
        <5> HIDE DEF l, D
        <5> QED
          BY <1>10, <2>3, <4>1
      <4> QED
        BY <2>2, <3>2, <4>2
    <3> QED
      BY <3>1, <3>2
  <2>5. f = [k \in D |-> Step(k, f)]
    <3> HIDE DEF Step, D, X, H
    <3> QED
      BY <2>1, <2>4
  <2>6. D = 0..Len(groups)
    BY DEF n
  <2> HIDE DEF Step, D
  <2> QED
    BY <2>5, <2>6
<1> HIDE DEF folded
<1>12. \A k \in D : folded[k] = Step(k, folded)
  <2> HIDE DEF Step, D
  <2> QED
    BY <1>11
<1>13. Folds(folded, batch, start, order, n)
  <2>1. folded[0] = start
    BY <1>1, <1>12
  <2>2. \A k \in 1..n : folded[k] = Joined(batch, folded[k - 1], order[k])
    <3> TAKE k \in 1..n
    <3>1. k \in D /\ k # 0
      BY <1>1
    <3> QED
      BY <1>12, <3>1
  <2> QED
    BY <2>1, <2>2 DEF Folds
<1>14. n \in D
  BY <1>1
<1> QED
  BY <1>4, <1>10, <1>13, <1>14

\* The least of its group is the first of its class.
LeastOfGroup(r, fresh, a) ==
  /\ a \in fresh /\ r[a].status = "new"
  /\ \A m \in fresh : r[m].status = "new" /\ r[m].group = r[a].group => a <= m

LEMMA SeedsDiffer ==
  ASSUME NEW batch, BatchOf(batch), NEW fresh, fresh \subseteq DOMAIN batch,
         NEW r, r = GroupNew(batch, fresh),
         NEW a, LeastOfGroup(r, fresh, a), NEW b, LeastOfGroup(r, fresh, b),
         SameIdentity(batch[a], batch[b])
  PROVE  a = b
<1> DEFINE list == Ascending(fresh)
           classes == Classes(batch, list)
           I == DOMAIN classes
           Fields(g) == Cardinality(DOMAIN batch[classes[g][1]].resource.fields)
           key == [g \in I |-> <<Fields(g), g>>]
           order == InOrder(I, key)
           of == Fold(batch, classes, order)
           home(n) == {g \in DOMAIN of : n \in of[g]}
<1>1. fresh \subseteq Nat /\ IsFiniteSet(fresh)
  <2>1. DOMAIN batch \subseteq Nat /\ IsFiniteSet(DOMAIN batch)
    BY ListedPlaces DEF BatchOf
  <2> QED
    BY <2>1, FS_Subset
<1>2. /\ Enumerates(list, fresh)
      /\ \A i, j \in DOMAIN list : i < j => list[i] < list[j]
  BY <1>1, AscendingIsSorted
<1> HIDE DEF list
<1>3. ToSet(list) = fresh
  BY <1>2, MembersOfAList
<1>4. GroupsOf(classes, list, fresh, Alike(batch, list))
  BY <1>2, ClassesAreGroups
<1> HIDE DEF classes
<1>5. /\ classes \in Seq(Seq(fresh))
      /\ \A k \in I : 1 \in DOMAIN classes[k]
      /\ \A x \in fresh : \E k \in I : x \in ToSet(classes[k])
      /\ \A k, l \in I : \A x \in ToSet(classes[k]) : x \in ToSet(classes[l]) => k = l
      /\ \A k, l \in I : \A x \in ToSet(classes[l]) : k < l => <<classes[k][1], x>> \notin Alike(batch, list)
      /\ \A k \in I : \A i, j \in DOMAIN classes[k] :
           i < j => \E p, q \in DOMAIN list : p < q /\ classes[k][i] = list[p] /\ classes[k][j] = list[q]
  BY <1>4 DEF GroupsOf
<1> DEFINE n == Len(classes)
<1>6. I = 1..n /\ n \in Nat
  BY <1>5
<1>7. \A k \in I : classes[k][1] \in fresh /\ classes[k][1] \in ToSet(classes[k])
  BY <1>5 DEF ToSet
<1> HIDE DEF n
<1>8. IsFiniteSet(I) /\ Cardinality(I) = n
  <2>1. IsFiniteSet(1..n) /\ Cardinality(1..n) = n
    BY <1>6, FS_Interval
  <2> QED
    BY <1>6, <2>1
<1>9. \A g \in I : Fields(g) \in Nat
  <2> TAKE g \in I
  <2>1. IsFiniteSet(DOMAIN batch[classes[g][1]].resource.fields)
    BY <1>7 DEF BatchOf, IsCandidate
  <2> QED
    BY <2>1, FS_CardinalityType
<1>10. key \in [I -> [1..2 -> Int]] /\ \A x, y \in I : key[x] = key[y] => x = y
  <2> HIDE DEF Fields
  <2>1. I \subseteq Int
    BY <1>6
  <2> HIDE DEF I
  <2> QED
    BY <1>9, <2>1
<1> HIDE DEF Fields
<1>11. order \in [1..n -> I] /\ \A i, j \in 1..n : order[i] = order[j] => i = j
  <2> HIDE DEF key, I
  <2>1. 2 \in Nat
    OBVIOUS
  <2>2. Enumerates(InOrder(I, key), I) /\ Len(InOrder(I, key)) = n
    BY <1>8, <1>10, <2>1, InOrderIsSorted
  <2> HIDE DEF order
  <2>3. /\ DOMAIN order = 1..n
        /\ \A k \in DOMAIN order : order[k] \in I
        /\ \A i, j \in DOMAIN order : order[i] = order[j] => i = j
    BY <2>2, MembersOfAList DEF order
  <2>4. order \in Seq(I)
    BY <2>2 DEF order, Enumerates
  <2> QED
    BY <2>3, <2>4
<1>12. r = InGroups(fresh, of)
  BY DEF GroupNew, Fields, classes, list
<1> HIDE DEF order, key
<1>13. Whole(of, classes)
  BY <1>5, <1>11, FoldIsWhole, ZenonT(60) DEF n
<1> HIDE DEF of
<1>14. \A m \in fresh : r[m] = IF home(m) = {} THEN [status |-> "unresolved"]
                               ELSE [status |-> "new", group |-> CHOOSE g \in home(m) : TRUE]
  BY <1>12 DEF InGroups
<1>15. ASSUME NEW c, LeastOfGroup(r, fresh, c)
       PROVE  \E k \in I : c = classes[k][1]
  <2>1. c \in fresh /\ r[c].status = "new"
    BY <1>15 DEF LeastOfGroup
  <2>2. PICK k \in I : c \in ToSet(classes[k])
    BY <1>5, <2>1
  <2> DEFINE x == classes[k][1]
  <2>3. x \in fresh /\ x \in ToSet(classes[k])
    BY <1>7
  <2>4. \A g \in DOMAIN of : x \in of[g] <=> c \in of[g]
    BY <1>13, <2>2, <2>3 DEF Whole
  <2>5. home(x) = home(c)
    BY <2>4
  <2>6. r[x] = r[c]
    <3> HIDE DEF home, x
    <3> QED
      BY <1>14, <2>1, <2>3, <2>5
  <2>7. c <= x
    BY <1>15, <2>1, <2>3, <2>6 DEF LeastOfGroup
  <2>8. PICK i \in DOMAIN classes[k] : c = classes[k][i]
    BY <2>2 DEF ToSet
  <2>9. ASSUME i # 1 PROVE FALSE
    <3>1. 1 \in DOMAIN classes[k] /\ 1 < i
      <4>1. classes[k] \in Seq(fresh)
        BY <1>5
      <4> QED
        BY <1>5, <2>8, <2>9, <4>1
    <3>2. PICK p \in DOMAIN list, q \in DOMAIN list : p < q /\ x = list[p] /\ c = list[q]
      BY <1>5, <2>8, <3>1
    <3>3. x < c
      BY <1>2, <3>2
    <3> QED
      BY <1>1, <2>1, <2>3, <2>7, <3>3
  <2> QED
    BY <2>8, <2>9
<1>16. PICK k \in I : a = classes[k][1]
  BY <1>15
<1>17. PICK l \in I : b = classes[l][1]
  BY <1>15
<1>18. \A i, j \in I : i < j => ~SameIdentity(batch[classes[i][1]], batch[classes[j][1]])
  <2> TAKE i, j \in I
  <2>1. i < j => <<classes[i][1], classes[j][1]>> \notin Alike(batch, list)
    BY <1>5, <1>7
  <2>2. classes[i][1] \in ToSet(list) /\ classes[j][1] \in ToSet(list)
    BY <1>3, <1>7
  <2> QED
    BY <2>1, <2>2 DEF Alike
<1>19. ~(k < l) /\ ~(l < k)
  BY <1>16, <1>17, <1>18, SameIdentityIsSymmetric
<1> QED
  BY <1>6, <1>16, <1>17, <1>19

\* What is new in a match is new to the findings, and in a group of the new ones.
LEMMA NewAreGrouped ==
  ASSUME NEW listed, NEW batch, BatchOf(batch), NEW r, r = Match(listed, batch)
  PROVE  \E fresh :
           /\ fresh \subseteq DOMAIN batch /\ DOMAIN r = DOMAIN batch
           /\ \A n \in fresh : /\ Decide(listed, batch[n]).status = "new"
                               /\ r[n] = GroupNew(batch, fresh)[n]
           /\ \A n \in DOMAIN r : r[n].status = "new" => n \in fresh
<1> DEFINE pending == Pending(listed, batch)
           fresh == Fresh(listed, batch)
           shifted == Shifted(listed, batch)
           new == {k \in fresh : shifted[k].status = "new"}
           grouped == GroupNew(batch, new)
<1>1. r = Concluded(listed, batch, pending, fresh, shifted)
  BY MatchIs DEF BatchOf
<1>2. \A n \in fresh : n \in DOMAIN batch /\ Decide(listed, batch[n]).status = "new"
  BY DEF Fresh, Pending
<1> HIDE DEF shifted, fresh, pending
<1>3. DOMAIN grouped = new
  <2>1. PICK of : grouped = InGroups(new, of)
    BY DEF GroupNew
  <2> HIDE DEF new, grouped
  <2> QED
    BY <2>1 DEF InGroups
<1>4. /\ DOMAIN r = DOMAIN batch
      /\ \A n \in DOMAIN batch :
           r[n] = IF n \notin fresh THEN Settled(listed, batch, pending, n)
                  ELSE IF n \in DOMAIN grouped THEN grouped[n] ELSE shifted[n]
  BY <1>1 DEF Concluded
<1>5. \A n : Settled(listed, batch, pending, n).status # "new"
  BY DEF Settled
<1> HIDE DEF grouped
<1>6. \A n \in new : n \in DOMAIN batch /\ r[n] = grouped[n]
  BY <1>2, <1>3, <1>4
<1>7. ASSUME NEW n \in DOMAIN r, r[n].status = "new"
      PROVE  n \in new
  <2>1. n \in fresh
    BY <1>4, <1>5, <1>7
  <2>2. n \notin new => shifted[n].status = "new"
    BY <1>3, <1>4, <1>7, <2>1
  <2> QED
    BY <2>1, <2>2
<1>8. new \subseteq DOMAIN batch /\ \A n \in new : Decide(listed, batch[n]).status = "new"
  BY <1>2
<1> HIDE DEF new
<1> QED
  BY <1>4, <1>6, <1>7, <1>8 DEF grouped

\* An import makes no finding of the identity of another.
LEMMA ImportMakesNoTwins ==
  ASSUME FindingsOf(known), NEW batch, BatchOf(batch), RecordPlan(batch, Match(known, batch)),
         NEW f \in DOMAIN known' \ DOMAIN known, NEW g \in DOMAIN known', f # g
  PROVE  ~SameIdentity(known'[f], known'[g])
<1> DEFINE r == Match(known, batch)
           K == Len(known)
           Seed(s) == Least(s)
<1>1. /\ DOMAIN known = 1..K /\ K \in Nat
      /\ \A e \in DOMAIN known : /\ e \in DOMAIN known'
                                 /\ known'[e].resource = known[e].resource
                                 /\ known'[e].weakness = known[e].weakness
  <2> HIDE DEF r
  <2> QED
    BY ImportAdds
<1>2. PICK created \in SetToSeqs(NewGroups(r)) :
        \A e \in DOMAIN known' \ DOMAIN known :
          /\ e - K \in DOMAIN created /\ e \in Nat
          /\ known'[e] = Seeded(batch, created[e - K])
  BY ImportAdds
<1>3. PICK fresh :
        /\ fresh \subseteq DOMAIN batch /\ DOMAIN r = DOMAIN batch
        /\ \A n \in fresh : /\ Decide(known, batch[n]).status = "new"
                            /\ r[n] = GroupNew(batch, fresh)[n]
        /\ \A n \in DOMAIN r : r[n].status = "new" => n \in fresh
  <2> HIDE DEF r
  <2>1. r = Match(known, batch)
    BY DEF r
  <2> QED
    BY <2>1, NewAreGrouped
<1> HIDE DEF r
<1>4. /\ \A k \in DOMAIN created : /\ created[k] \in NewGroups(r)
                                   /\ created[k] # {} /\ created[k] \subseteq DOMAIN batch
      /\ \A k, l \in DOMAIN created : created[k] = created[l] => k = l
  <2>1. DOMAIN r = 1..Len(batch) /\ Len(batch) \in Nat
    BY <1>3, ListedPlaces DEF BatchOf
  <2>2. /\ \A k \in DOMAIN created : /\ created[k] \in NewGroups(r)
                                     /\ created[k] # {} /\ created[k] \subseteq DOMAIN r
        /\ \A k, l \in DOMAIN created : created[k] = created[l] => k = l
    BY <2>1, CreatedAreGroups
  <2> QED
    BY <1>3, <2>2
<1> DEFINE new == {n \in DOMAIN r : r[n].status = "new"}
           Group(n) == {m \in new : r[m].group = r[n].group}
<1>5. NewGroups(r) = {Group(n) : n \in new}
  BY DEF NewGroups
<1>6. new \subseteq fresh
  BY <1>3
<1>7. ASSUME NEW e \in DOMAIN known' \ DOMAIN known
      PROVE  LET s == created[e - K]
                 a == Least(s)
             IN /\ a \in new /\ s = Group(a)
                /\ known'[e].weakness = batch[a].weakness /\ known'[e].resource = batch[a].resource
                /\ LeastOfGroup(GroupNew(batch, fresh), fresh, a)
  <2> DEFINE s == created[e - K]
             a == Least(s)
             q == GroupNew(batch, fresh)
  <2>1. s \in NewGroups(r) /\ s # {} /\ s \subseteq DOMAIN batch
    BY <1>2, <1>4
  <2>2. PICK n \in new : s = Group(n)
    BY <1>5, <2>1
  <2>3. known'[e] = Seeded(batch, s)
    BY <1>2
  <2> HIDE DEF s
  <2>4. /\ a \in s /\ \A k \in s : a <= k
        /\ Seeded(batch, s).resource = batch[a].resource
        /\ Seeded(batch, s).weakness = batch[a].weakness
    BY <2>1, SeededIsFinding
  <2> HIDE DEF a
  <2>5. a \in new /\ r[a].group = r[n].group
    BY <2>2, <2>4
  <2>6. s = Group(a)
    BY <2>2, <2>5
  <2> HIDE DEF q, new
  <2>7. \A m \in fresh : r[m] = q[m]
    BY <1>3 DEF q
  <2>8. \A m \in fresh : q[m].status = "new" => m \in new
    BY <1>3, <2>7 DEF new
  <2>9. a \in fresh /\ q[a].status = "new"
    BY <1>6, <2>5, <2>7 DEF new
  <2>10. LeastOfGroup(q, fresh, a)
    <3> SUFFICES ASSUME NEW m \in fresh, q[m].status = "new", q[m].group = q[a].group
                 PROVE  a <= m
      BY <2>9 DEF LeastOfGroup
    <3>1. m \in new /\ r[m].group = r[a].group
      BY <2>7, <2>8, <2>9
    <3>2. m \in s
      BY <2>6, <3>1
    <3> QED
      BY <2>4, <3>2
  <2> QED
    BY <2>3, <2>4, <2>5, <2>6, <2>10 DEF s, a, q
<1> DEFINE a == Least(created[f - K])
<1>8. /\ a \in new /\ created[f - K] = Group(a)
      /\ known'[f].weakness = batch[a].weakness /\ known'[f].resource = batch[a].resource
      /\ LeastOfGroup(GroupNew(batch, fresh), fresh, a)
  BY <1>7
<1>9. CASE g \in DOMAIN known
  <2>1. Decide(known, batch[a]).status = "new" /\ a \in DOMAIN batch
    BY <1>3, <1>6, <1>8
  <2>2. Ordered(batch[a].weakness) /\ IsList(known)
    BY <2>1, CandidatesAreOrdered DEF FindingsOf
  <2>3. ~SameIdentity(batch[a], known[g])
    BY <1>9, <2>1, <2>2, NewHasNoTwin
  <2> HIDE DEF a
  <2> QED
    BY <1>1, <1>8, <1>9, <2>3 DEF SameIdentity
<1>10. CASE g \notin DOMAIN known
  <2> DEFINE b == Least(created[g - K])
  <2>1. /\ b \in new /\ created[g - K] = Group(b)
        /\ known'[g].weakness = batch[b].weakness /\ known'[g].resource = batch[b].resource
        /\ LeastOfGroup(GroupNew(batch, fresh), fresh, b)
    BY <1>7, <1>10
  <2> HIDE DEF a, b, new, Group
  <2>2. a # b
    <3> SUFFICES ASSUME a = b PROVE FALSE
      OBVIOUS
    <3>1. created[f - K] = created[g - K]
      BY <1>8, <2>1
    <3>2. f - K = g - K /\ f \in Nat /\ g \in Nat
      BY <1>2, <1>4, <1>10, <3>1
    <3> QED
      BY <1>1, <3>2
  <2>3. ~SameIdentity(batch[a], batch[b])
    <3> DEFINE q == GroupNew(batch, fresh)
    <3>1. q = GroupNew(batch, fresh) /\ LeastOfGroup(q, fresh, a) /\ LeastOfGroup(q, fresh, b)
      BY <1>8, <2>1
    <3> HIDE DEF q
    <3> QED
      BY <1>3, <2>2, <3>1, SeedsDiffer
  <2> QED
    BY <1>8, <2>1, <2>3 DEF SameIdentity
<1> QED
  BY <1>9, <1>10

\* An import creates no finding with the identity of another, be it there already, created
\* along with it or brought about by a user.
THEOREM NoTwinsAlways == Spec => NoTwins
<1> DEFINE Apart == \A f \in DOMAIN known' \ DOMAIN known, g \in DOMAIN known' :
                      f # g => ~SameIdentity(known'[f], known'[g])
<1>1. WellFormed /\ [Next]_vars => [edits' = edits => Apart]_vars
  <2> SUFFICES ASSUME WellFormed, Next, edits' = edits PROVE Apart
    OBVIOUS
  <2>1. ASSUME NEW batch, BatchOf(batch), Process(batch) PROVE Apart
    BY <2>1, ImportMakesNoTwins DEF Process, WellFormed
  <2> HIDE DEF Apart
  <2>2. ASSUME NEW batch \in Reports[world], Import(batch) PROVE Apart
    <3>1. BatchOf(batch)
      BY ItemsAssumption DEF WellFormed
    <3> QED
      BY <2>1, <2>2, <3>1 DEF Import
  <2>3. CASE Rescan
    BY <2>1, <2>3 DEF Rescan, WellFormed
  <2>4. ASSUME NEW f, NEW change, Changed(f, change) PROVE Apart
    <3>1. DOMAIN known' = DOMAIN known
      BY <2>4 DEF Changed
    <3> QED
      BY <3>1 DEF Apart
  <2> QED
    BY <2>2, <2>3, <2>4 DEF Next, MarkDuplicate, Correct
<1> QED
  BY <1>1, MatchingIsWellFormed, PTL DEF Spec, NoTwins
=============================================================================
