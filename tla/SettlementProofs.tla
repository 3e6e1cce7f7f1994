-------------------------- MODULE SettlementProofs --------------------------
(***************************************************************************)
(* The computations behind a settlement, for every input: the stable sort  *)
(* loses nothing, invents nothing and keeps ties in place; a sum over a    *)
(* finite set of charges is the same in whatever order they are added.     *)
(***************************************************************************)
EXTENDS SettlementAdapters, TLAPS, FiniteSetTheorems

(* Of two positions, one takes its place strictly before the other.        *)
LEMMA PlacesNest ==
  ASSUME NEW n \in Nat, NEW f \in [1..n -> Int], NEW i \in 1..n, NEW k \in 1..n,
         f[i] < f[k] \/ (f[i] = f[k] /\ i < k)
  PROVE  Cardinality(Place(f, i)) < Cardinality(Place(f, k))
<1>1. IsFiniteSet(1..n)
  BY FS_Interval
<1>2. /\ Place(f, k) \in SUBSET (1..n)
      /\ Place(f, i) \in SUBSET Place(f, k)
  BY SMT DEF Place
<1>3. k \in Place(f, k) /\ k \notin Place(f, i)
  BY SMT DEF Place
<1>4. IsFiniteSet(Place(f, k))
  BY <1>1, <1>2, FS_Subset
<1>5. /\ IsFiniteSet(Place(f, i))
      /\ Cardinality(Place(f, i)) <= Cardinality(Place(f, k))
      /\ Cardinality(Place(f, i)) # Cardinality(Place(f, k))
  BY <1>2, <1>3, <1>4, FS_Subset
<1>6. Cardinality(Place(f, i)) \in Nat /\ Cardinality(Place(f, k)) \in Nat
  BY <1>4, <1>5, FS_CardinalityType
<1> QED BY <1>5, <1>6

(* Every rank from 1 to n is taken, by one position.                       *)
LEMMA RankOnto ==
  ASSUME NEW n \in Nat, NEW f \in [1..n -> Int]
  PROVE  /\ \A i \in 1..n : Cardinality(Place(f, i)) \in 1..n
         /\ \A k \in 1..n : \E i \in 1..n : Cardinality(Place(f, i)) = k
         /\ \A i, k \in 1..n : Cardinality(Place(f, i)) = Cardinality(Place(f, k)) => i = k
<1>1. IsFiniteSet(1..n) /\ Cardinality(1..n) = n
  BY FS_Interval
<1>2. ASSUME NEW i \in 1..n
      PROVE  Cardinality(Place(f, i)) \in 1..n
  <2>1. Place(f, i) \in SUBSET (1..n) /\ i \in Place(f, i)
    BY SMT DEF Place
  <2>2. IsFiniteSet(Place(f, i)) /\ Cardinality(Place(f, i)) <= n
    BY <1>1, <2>1, FS_Subset
  <2>3. Cardinality(Place(f, i)) \in Nat /\ Cardinality(Place(f, i)) # 0
    BY <2>1, <2>2, FS_CardinalityType, FS_EmptySet
  <2> QED BY <2>2, <2>3
<1>3. ASSUME NEW i \in 1..n, NEW k \in 1..n,
             Cardinality(Place(f, i)) = Cardinality(Place(f, k))
      PROVE  i = k
  <2>1. SUFFICES ASSUME i # k PROVE FALSE
    OBVIOUS
  <2>2. \/ f[i] < f[k] \/ (f[i] = f[k] /\ i < k)
        \/ f[k] < f[i] \/ (f[k] = f[i] /\ k < i)
    BY <2>1, SMT
  <2>3. \/ Cardinality(Place(f, i)) < Cardinality(Place(f, k))
        \/ Cardinality(Place(f, k)) < Cardinality(Place(f, i))
    BY <2>2, PlacesNest
  <2>4. Cardinality(Place(f, i)) \in Int
    BY <1>2
  <2> QED BY <2>3, <2>4, <1>3
<1>4. DEFINE r == [i \in 1..n |-> Cardinality(Place(f, i))]
<1>5. r \in Injection(1..n, 1..n)
  BY <1>2, <1>3 DEF Injection, IsInjective
<1>6. r \in Surjection(1..n, 1..n)
  BY <1>1, <1>5, FS_Injection
<1>7. \A k \in 1..n : \E i \in 1..n : r[i] = k
  BY <1>6 DEF Surjection
<1> QED BY <1>2, <1>3, <1>7
-----------------------------------------------------------------------------
(* plan holds what actions holds, each position once, ordered by f and,    *)
(* where f ties, in the order of actions.                                  *)
StablySorts(plan, actions, f) ==
  \E place \in [1..Len(actions) -> 1..Len(actions)] :
    /\ \A k \in 1..Len(actions) : plan[k] = actions[place[k]]
    /\ \A i \in 1..Len(actions) : \E k \in 1..Len(actions) : place[k] = i
    /\ \A k, m \in 1..Len(actions) : k < m =>
         f[place[k]] < f[place[m]] \/ (f[place[k]] = f[place[m]] /\ place[k] < place[m])

LEMMA SourcesSort ==
  ASSUME NEW n \in Nat, NEW f \in [1..n -> Int]
  PROVE  /\ \A k \in 1..n : Source(f, k) \in 1..n
         /\ \A i \in 1..n : \E k \in 1..n : Source(f, k) = i
         /\ \A k, m \in 1..n : k < m =>
              \/ f[Source(f, k)] < f[Source(f, m)]
              \/ /\ f[Source(f, k)] = f[Source(f, m)]
                 /\ Source(f, k) < Source(f, m)
<1>1. \A k \in 1..n : /\ Source(f, k) \in 1..n
                      /\ Cardinality(Place(f, Source(f, k))) = k
  <2>1. DOMAIN f = 1..n /\ \A k \in 1..n : \E i \in 1..n : Cardinality(Place(f, i)) = k
    BY RankOnto
  <2> QED BY <2>1, Zenon DEF Source
<1>2. ASSUME NEW i \in 1..n
      PROVE  \E k \in 1..n : Source(f, k) = i
  <2>1. Cardinality(Place(f, i)) \in 1..n
    BY RankOnto
  <2>2. PICK k \in 1..n : k = Cardinality(Place(f, i))
    BY <2>1
  <2>3. Source(f, k) \in 1..n /\ Cardinality(Place(f, Source(f, k))) = Cardinality(Place(f, i))
    BY <2>2, <1>1
  <2>4. Source(f, k) = i
    BY <2>3, RankOnto
  <2> QED BY <2>4
<1>3. ASSUME NEW k \in 1..n, NEW m \in 1..n, k < m
      PROVE  \/ f[Source(f, k)] < f[Source(f, m)]
             \/ /\ f[Source(f, k)] = f[Source(f, m)]
                /\ Source(f, k) < Source(f, m)
  <2>1. PICK i \in 1..n : i = Source(f, k)
    BY <1>1
  <2>2. PICK j \in 1..n : j = Source(f, m)
    BY <1>1
  <2>3. Cardinality(Place(f, i)) = k /\ Cardinality(Place(f, j)) = m
    BY <1>1, <2>1, <2>2
  <2>4. f[j] < f[i] \/ (f[j] = f[i] /\ j < i) => m < k
    BY <2>3, PlacesNest
  <2>5. i # j
    BY <2>3, <1>3
  <2>6. f[i] \in Int /\ f[j] \in Int
    OBVIOUS
  <2> QED BY <2>1, <2>2, <2>4, <2>5, <2>6, <1>3
<1> QED BY <1>1, <1>2, <1>3

(* Seal and abort lose no staged action, repeat none, order them by        *)
(* settlement order (seal) or its reverse (abort), and keep those that tie *)
(* in the order in which they were staged.                                 *)
THEOREM PlansSort ==
  ASSUME NEW S, NEW actions \in Seq(S), \A a \in S : a.settlement_order \in Nat
  PROVE  /\ SettlementPlan(actions) \in Seq(S)
         /\ RollbackPlan(actions) \in Seq(S)
         /\ Len(SettlementPlan(actions)) = Len(actions)
         /\ Len(RollbackPlan(actions)) = Len(actions)
         /\ StablySorts(SettlementPlan(actions), actions,
                        [i \in 1..Len(actions) |-> actions[i].settlement_order])
         /\ StablySorts(RollbackPlan(actions), actions,
                        [i \in 1..Len(actions) |-> - actions[i].settlement_order])
<1> DEFINE n  == Len(actions)
           up   == [i \in 1..n |-> actions[i].settlement_order]
           down == [i \in 1..n |-> - actions[i].settlement_order]
<1>1. n \in Nat /\ \A i \in 1..n : actions[i] \in S
  OBVIOUS
<1>2. up \in [1..n -> Int] /\ down \in [1..n -> Int]
  BY <1>1
<1>3. SettlementPlan(actions) = [k \in 1..n |-> actions[Source(up, k)]]
  BY DEF SettlementPlan, StableSort
<1>4. RollbackPlan(actions) = [k \in 1..n |-> actions[Source(down, k)]]
  BY DEF RollbackPlan, StableSort
<1> HIDE DEF n, up, down
<1>5. ASSUME NEW f \in [1..n -> Int], NEW plan, plan = [k \in 1..n |-> actions[Source(f, k)]]
      PROVE  plan \in Seq(S) /\ Len(plan) = n /\ StablySorts(plan, actions, f)
  <2> DEFINE place == [k \in 1..n |-> Source(f, k)]
  <2>1. /\ \A k \in 1..n : Source(f, k) \in 1..n
        /\ \A i \in 1..n : \E k \in 1..n : Source(f, k) = i
        /\ \A k, m \in 1..n : k < m =>
              \/ f[Source(f, k)] < f[Source(f, m)]
              \/ /\ f[Source(f, k)] = f[Source(f, m)]
                 /\ Source(f, k) < Source(f, m)
    BY <1>1, SourcesSort
  <2>2. plan \in [1..n -> S]
    BY <1>1, <1>5, <2>1
  <2>3. plan \in Seq(S) /\ Len(plan) = n
    BY <1>1, <2>2
  <2>4. place \in [1..n -> 1..n]
    BY <2>1
  <2>5. /\ \A k \in 1..n : plan[k] = actions[place[k]]
        /\ \A i \in 1..n : \E k \in 1..n : place[k] = i
        /\ \A k, m \in 1..n : k < m =>
             f[place[k]] < f[place[m]] \/ (f[place[k]] = f[place[m]] /\ place[k] < place[m])
    BY <1>5, <2>1
  <2>6. StablySorts(plan, actions, f)
    BY <2>4, <2>5 DEF StablySorts, n
  <2> QED BY <2>3, <2>6
<1>6. up = [i \in 1..Len(actions) |-> actions[i].settlement_order]
      /\ down = [i \in 1..Len(actions) |-> - actions[i].settlement_order]
  BY DEF up, down, n
<1> QED BY <1>2, <1>3, <1>4, <1>5, <1>6 DEF n
-----------------------------------------------------------------------------
(* Sums.  A set of numbers has a least element, so a claim about finite    *)
(* sets that failed would fail for a smallest one.                         *)
LEMMA LeastExists ==
  ASSUME NEW T \in SUBSET Nat, T # {}
  PROVE  \E n \in T : \A m \in T : n <= m
<1> DEFINE R == {ss \in Nat \X Nat : ss[1] < ss[2]}
<1>1. IsWellFoundedOn(R, Nat)
  BY NatLessThanWellFounded DEF OpToRel
<1> HIDE DEF R
<1>2. PICK n \in T : \A m \in T : ~ (<<m, n>> \in R)
  BY <1>1, WFMin
<1>3. ASSUME NEW m \in T, m < n PROVE FALSE
  <2>1. m \in Nat /\ n \in Nat
   OBVIOUS
  <2>2. <<m, n>> \in Nat \X Nat /\ <<m, n>>[1] = m /\ <<m, n>>[2] = n
    BY <2>1
  <2>3. <<m, n>> \in R
    BY <1>3, <2>1, <2>2 DEF R
  <2> QED BY <1>2, <2>3
<1> QED BY <1>3

(* Induction, for sets.                                                    *)
LEMMA InductionOverNat ==
  ASSUME NEW P \in SUBSET Nat, 0 \in P, \A n \in P : n + 1 \in P
  PROVE  P = Nat
<1> SUFFICES ASSUME Nat \ P # {} PROVE FALSE
  OBVIOUS
<1>1. PICK n \in Nat \ P : \A m \in Nat \ P : n <= m
  BY LeastExists
<1>2. n # 0 /\ n - 1 \in Nat
  BY <1>1
<1>3. n - 1 \in P
  BY <1>1, <1>2
<1>4. n - 1 + 1 = n
  OBVIOUS
<1> QED BY <1>1, <1>3, <1>4

First(s) == CHOOSE x \in s : TRUE

LEMMA FirstIn == ASSUME NEW s, s # {} PROVE First(s) \in s
  BY DEF First

(* g[s] is the sum of f over s, for each subset s of S.                    *)
SumsUp(g, f, S) ==
  g = [s \in SUBSET S |-> IF s = {} THEN 0 ELSE f[First(s)] + g[s \ {First(s)}]]

LEMMA SumChooses ==
  ASSUME NEW f, NEW S
  PROVE SumFunctionOnSet(f, S) = (CHOOSE g : SumsUp(g, f, S))[S]
  BY DEF SumFunctionOnSet, FoldFunctionOnSet, MapThenFoldSet, SumsUp, First

LEMMA SumExists ==
  ASSUME NEW f, NEW S, IsFiniteSet(S)
  PROVE  \E g : SumsUp(g, f, S)
<1> DEFINE D(n) == {s \in SUBSET S : Cardinality(s) <= n}
           Up(g, n) == g = [s \in D(n) |-> IF s = {} THEN 0
                                           ELSE f[First(s)] + g[s \ {First(s)}]]
           P == {n \in Nat : \E g : Up(g, n)}
<1>1. \A s \in SUBSET S : IsFiniteSet(s) /\ Cardinality(s) \in Nat
                          /\ Cardinality(s) <= Cardinality(S)
  BY FS_Subset, FS_CardinalityType
<1>2. \A s \in SUBSET S : s # {} =>
        s \ {First(s)} \in SUBSET S /\ Cardinality(s \ {First(s)}) = Cardinality(s) - 1
  BY <1>1, FirstIn, FS_RemoveElement
<1>3. 0 \in P
  <2>1. \A s \in D(0) : s = {}
    BY <1>1, FS_EmptySet
  <2>2. Up([s \in D(0) |-> 0], 0)
    BY <2>1
  <2> QED BY <2>2
<1>4. ASSUME NEW n \in P PROVE n + 1 \in P
  <2>1. PICK g : Up(g, n)
    OBVIOUS
  <2> DEFINE h == [s \in D(n + 1) |-> IF s = {} THEN 0
                                      ELSE f[First(s)] + g[s \ {First(s)}]]
  <2>2. n \in Nat
    OBVIOUS
  <2>3. \A s \in D(n) : s \in D(n + 1) /\ h[s] = g[s]
    <3>1. \A s \in D(n) : s \in D(n + 1)
      BY <1>1, <2>2
    <3>2. \A s \in D(n) : g[s] = IF s = {} THEN 0 ELSE f[First(s)] + g[s \ {First(s)}]
      <4> HIDE DEF D
      <4> QED BY <2>1, Zenon
    <3> QED BY <3>1, <3>2
  <2>4. \A s \in D(n + 1) : s # {} => s \ {First(s)} \in D(n)
    BY <1>1, <1>2, <2>2
  <2>5. \A s \in D(n + 1) : s # {} => h[s \ {First(s)}] = g[s \ {First(s)}]
    BY <2>3, <2>4
  <2>6. Up(h, n + 1)
    BY <2>5
  <2>7. \E k : Up(k, n + 1)
    <3> HIDE DEF h, D
    <3> QED BY <2>6, Zenon
  <2> HIDE DEF Up
  <2> QED BY <2>2, <2>7
<1>5. P = Nat
  <2> HIDE DEF P
  <2>1. P \in SUBSET Nat
    BY DEF P
  <2> QED BY <1>3, <1>4, <2>1, InductionOverNat
<1>6. Cardinality(S) \in P
  BY <1>1, <1>5
<1>7. PICK g : Up(g, Cardinality(S))
  BY <1>6
<1>8. D(Cardinality(S)) = SUBSET S
  BY <1>1
<1>9. SumsUp(g, f, S)
  BY <1>7, <1>8 DEF SumsUp
<1> QED BY <1>9

(* What MapThenSumSet computes does not depend on the superset.            *)
LEMMA SumsAgree ==
  ASSUME NEW f, NEW S, IsFiniteSet(S), NEW g, SumsUp(g, f, S),
         NEW k, NEW T, NEW h, SumsUp(h, k, T),
         S \subseteq T, \A x \in S : f[x] = k[x]
  PROVE  \A s \in SUBSET S : g[s] = h[s]
<1> DEFINE Bad == {n \in Nat : \E s \in SUBSET S : Cardinality(s) = n /\ g[s] # h[s]}
<1>1. \A s \in SUBSET S : IsFiniteSet(s) /\ Cardinality(s) \in Nat
  BY FS_Subset, FS_CardinalityType
<1>2. SUFFICES ASSUME Bad # {} PROVE FALSE
  BY <1>1
<1>3. PICK n \in Bad : \A m \in Bad : n <= m
  <2> HIDE DEF Bad
  <2>1. Bad \in SUBSET Nat
    BY DEF Bad
  <2> QED BY <1>2, <2>1, LeastExists
<1>4. PICK s \in SUBSET S : Cardinality(s) = n /\ g[s] # h[s]
  OBVIOUS
<1> DEFINE x == First(s)
           t == s \ {First(s)}
<1>5. /\ g[s] = IF s = {} THEN 0 ELSE f[x] + g[t]
      /\ h[s] = IF s = {} THEN 0 ELSE k[x] + h[t]
  <2>1. s \in SUBSET S /\ s \in SUBSET T
    OBVIOUS
  <2> QED BY <2>1, Zenon DEF SumsUp
<1>6. s # {}
  BY <1>4, <1>5
<1>7. x \in s /\ t \in SUBSET S /\ Cardinality(t) = Cardinality(s) - 1
  BY <1>1, <1>6, FirstIn, FS_RemoveElement
<1>8. Cardinality(t) \in Nat /\ Cardinality(t) < n
  BY <1>1, <1>4, <1>7
<1>9. g[t] = h[t]
  BY <1>3, <1>7, <1>8
<1>10. f[x] = k[x]
  BY <1>7
<1> QED BY <1>4, <1>5, <1>9, <1>10

LEMMA SumEmpty == ASSUME NEW f PROVE SumFunctionOnSet(f, {}) = 0
<1>1. PICK g : SumsUp(g, f, {})
  BY SumExists, FS_EmptySet
<1>2. SumsUp(CHOOSE h : SumsUp(h, f, {}), f, {})
  BY <1>1, Zenon
<1>3. (CHOOSE h : SumsUp(h, f, {}))[{}] = 0
  BY <1>2 DEF SumsUp
<1> QED BY <1>3, SumChooses

LEMMA SumUnfolds ==
  ASSUME NEW f, NEW S, IsFiniteSet(S), S # {}
  PROVE  SumFunctionOnSet(f, S) = f[First(S)] + SumFunctionOnSet(f, S \ {First(S)})
<1> DEFINE t == S \ {First(S)}
           g == CHOOSE h : SumsUp(h, f, S)
           k == CHOOSE h : SumsUp(h, f, t)
<1>1. IsFiniteSet(t) /\ t \subseteq S
  BY FS_RemoveElement
<1>2. SumsUp(g, f, S) /\ SumsUp(k, f, t)
  BY <1>1, SumExists, Zenon
<1> HIDE DEF g, k
<1>3. k[t] = g[t]
  BY <1>1, <1>2, SumsAgree
<1>4. g[S] = f[First(S)] + g[t]
  BY <1>2 DEF SumsUp
<1>5. SumFunctionOnSet(f, S) = g[S] /\ SumFunctionOnSet(f, t) = k[t]
  BY SumChooses DEF g, k
<1> QED BY <1>3, <1>4, <1>5

(* A sum depends on nothing but the values it adds.                        *)
LEMMA SumCongruence ==
  ASSUME NEW f, NEW k, NEW S, IsFiniteSet(S), \A x \in S : f[x] = k[x]
  PROVE  SumFunctionOnSet(f, S) = SumFunctionOnSet(k, S)
<1> DEFINE g == CHOOSE h : SumsUp(h, f, S)
           e == CHOOSE h : SumsUp(h, k, S)
<1>1. SumsUp(g, f, S) /\ SumsUp(e, k, S)
  BY SumExists, Zenon
<1> HIDE DEF g, e
<1>2. g[S] = e[S]
  BY <1>1, SumsAgree
<1> QED BY <1>2, SumChooses DEF g, e

(* Sums of naturals are naturals, and any term may be taken out first.     *)
LEMMA SumType ==
  ASSUME NEW f, NEW S, IsFiniteSet(S), \A x \in S : f[x] \in Nat
  PROVE  SumFunctionOnSet(f, S) \in Nat
<1> DEFINE Bad == {n \in Nat : \E s \in SUBSET S :
                     Cardinality(s) = n /\ SumFunctionOnSet(f, s) \notin Nat}
<1>1. \A s \in SUBSET S : IsFiniteSet(s) /\ Cardinality(s) \in Nat
  BY FS_Subset, FS_CardinalityType
<1>2. SUFFICES ASSUME Bad # {} PROVE FALSE
  BY <1>1
<1>3. PICK n \in Bad : \A m \in Bad : n <= m
  <2> HIDE DEF Bad
  <2>1. Bad \in SUBSET Nat
    BY DEF Bad
  <2> QED BY <1>2, <2>1, LeastExists
<1>4. PICK s \in SUBSET S : Cardinality(s) = n /\ SumFunctionOnSet(f, s) \notin Nat
  OBVIOUS
<1>5. s # {}
  BY <1>4, SumEmpty
<1> DEFINE t == s \ {First(s)}
<1>6. First(s) \in s /\ t \in SUBSET S /\ Cardinality(t) = Cardinality(s) - 1
  BY <1>1, <1>5, FirstIn, FS_RemoveElement
<1>7. SumFunctionOnSet(f, t) \in Nat
  BY <1>1, <1>3, <1>4, <1>6
<1>8. SumFunctionOnSet(f, s) = f[First(s)] + SumFunctionOnSet(f, t)
  BY <1>1, <1>5, SumUnfolds
<1> QED BY <1>4, <1>6, <1>7, <1>8

LEMMA SumTakes ==
  ASSUME NEW f, NEW S, IsFiniteSet(S), \A x \in S : f[x] \in Nat, NEW x \in S
  PROVE  SumFunctionOnSet(f, S) = f[x] + SumFunctionOnSet(f, S \ {x})
<1> DEFINE Fails(s) == \E y \in s :
             SumFunctionOnSet(f, s) # f[y] + SumFunctionOnSet(f, s \ {y})
           Bad == {n \in Nat : \E s \in SUBSET S : Cardinality(s) = n /\ Fails(s)}
<1>1. \A s \in SUBSET S : /\ IsFiniteSet(s) /\ Cardinality(s) \in Nat
                          /\ SumFunctionOnSet(f, s) \in Nat
  BY FS_Subset, FS_CardinalityType, SumType
<1>2. SUFFICES ASSUME Bad # {} PROVE FALSE
  BY <1>1
<1>3. PICK n \in Bad : \A m \in Bad : n <= m
  <2> HIDE DEF Bad
  <2>1. Bad \in SUBSET Nat
    BY DEF Bad
  <2> QED BY <1>2, <2>1, LeastExists
<1>4. PICK s \in SUBSET S : Cardinality(s) = n /\ Fails(s)
  OBVIOUS
<1>5. PICK y \in s : SumFunctionOnSet(f, s) # f[y] + SumFunctionOnSet(f, s \ {y})
  BY <1>4
<1> DEFINE z == First(s)
<1>6. z \in s /\ SumFunctionOnSet(f, s) = f[z] + SumFunctionOnSet(f, s \ {z})
  BY <1>1, <1>5, FirstIn, SumUnfolds
<1>7. z # y
  BY <1>5, <1>6
<1> HIDE DEF z
<1>8. \A v \in s : s \ {v} \in SUBSET S /\ Cardinality(s \ {v}) \in Nat
                  /\ Cardinality(s \ {v}) < n
  BY <1>1, <1>4, FS_RemoveElement
<1>9. ~ Fails(s \ {z}) /\ ~ Fails(s \ {y})
  <2> HIDE DEF Fails
  <2>1. ASSUME NEW v \in s, Fails(s \ {v}) PROVE FALSE
    <3>1. Cardinality(s \ {v}) \in Bad
      BY <1>8, <2>1
    <3>2. n \in Nat /\ n <= Cardinality(s \ {v})
      BY <1>3, <3>1
    <3> QED BY <1>8, <3>2
  <2> QED BY <1>5, <1>6, <2>1
<1>10. y \in s \ {z} /\ z \in s \ {y}
  BY <1>5, <1>6, <1>7
<1>11. /\ SumFunctionOnSet(f, s \ {z}) = f[y] + SumFunctionOnSet(f, (s \ {z}) \ {y})
       /\ SumFunctionOnSet(f, s \ {y}) = f[z] + SumFunctionOnSet(f, (s \ {y}) \ {z})
  BY <1>9, <1>10
<1>12. (s \ {z}) \ {y} = (s \ {y}) \ {z}
  OBVIOUS
<1>13. SumFunctionOnSet(f, (s \ {y}) \ {z}) \in Nat /\ f[y] \in Nat /\ f[z] \in Nat
  BY <1>1, <1>5, <1>6
<1>14. PICK c \in Nat : c = SumFunctionOnSet(f, (s \ {y}) \ {z})
  BY <1>13
<1>15. SumFunctionOnSet(f, s) = f[z] + (f[y] + c)
  BY <1>6, <1>11, <1>12, <1>14
<1>16. SumFunctionOnSet(f, s \ {y}) = f[z] + c
  BY <1>11, <1>14
<1>17. f[z] + (f[y] + c) = f[y] + (f[z] + c)
  BY <1>13
<1> QED BY <1>5, <1>15, <1>16, <1>17
-----------------------------------------------------------------------------
(* Charges.  What a tool takes for a call it can charge.                   *)
LEMMA AmountsAreNumbers ==
  ASSUME NEW adapter, NEW arguments, WellDeclared(adapter),
         \A i \in DOMAIN adapter.budget_charges : HasAmount(adapter.budget_charges[i], arguments)
  PROVE  \A i \in DOMAIN adapter.budget_charges :
           Amount(adapter.budget_charges[i], arguments) \in Nat
<1> SUFFICES ASSUME NEW i \in DOMAIN adapter.budget_charges
             PROVE  Amount(adapter.budget_charges[i], arguments) \in Nat
  OBVIOUS
<1> DEFINE charge == adapter.budget_charges[i]
<1>1. HasAmount(charge, arguments) /\ charge.constant \in Nat \cup {None}
  BY DEF WellDeclared
<1> HIDE DEF charge
<1>2. CASE charge.argument # None
  <2>1. arguments[charge.argument].value \in U64
    BY <1>1, <1>2 DEF HasAmount
  <2> QED BY <1>2, <2>1, MaxU64Assumption DEF Amount, U64, charge
<1>3. CASE charge.argument = None
  <2>1. charge.constant \in Nat
    BY <1>1, <1>3 DEF HasAmount
  <2> QED BY <1>3, <2>1 DEF Amount, charge
<1> QED BY <1>2, <1>3

(* The charge on a dimension is a sum of naturals over a finite set.       *)
Amounts(adapter, arguments) ==
  [i \in DOMAIN adapter.budget_charges |-> Amount(adapter.budget_charges[i], arguments)]

ChargesOn(adapter, d) ==
  {i \in DOMAIN adapter.budget_charges : adapter.budget_charges[i].dimension = d}

TotalOn(adapter, arguments, d) ==
  SumFunctionOnSet(Amounts(adapter, arguments), ChargesOn(adapter, d))

LEMMA ChargesAreSums ==
  ASSUME NEW adapter, NEW arguments, WellDeclared(adapter), Chargeable(adapter, arguments), NEW d
  PROVE  /\ IsFiniteSet(ChargesOn(adapter, d))
         /\ \A i \in ChargesOn(adapter, d) : Amounts(adapter, arguments)[i] \in Nat
         /\ TotalOn(adapter, arguments, d) \in Nat
         /\ d \in DOMAIN Charges(adapter, arguments) <=> ChargesOn(adapter, d) # {}
         /\ d \in DOMAIN Charges(adapter, arguments) =>
              Charges(adapter, arguments)[d] = TotalOn(adapter, arguments, d)
         /\ d \notin DOMAIN Charges(adapter, arguments) => TotalOn(adapter, arguments, d) = 0
<1>1. IsFiniteSet(ChargesOn(adapter, d))
  BY FS_Subset DEF WellDeclared, ChargesOn
<1>2. \A i \in ChargesOn(adapter, d) : Amounts(adapter, arguments)[i] \in Nat
  BY AmountsAreNumbers DEF Chargeable, Amounts, ChargesOn
<1>3. TotalOn(adapter, arguments, d) \in Nat
  BY <1>1, <1>2, SumType DEF TotalOn
<1>4. d \in DOMAIN Charges(adapter, arguments) <=> ChargesOn(adapter, d) # {}
  BY DEF Charges, ChargesOn
<1>5. d \in DOMAIN Charges(adapter, arguments) =>
        Charges(adapter, arguments)[d] = TotalOn(adapter, arguments, d)
  BY DEF Charges, TotalOn, Amounts, ChargesOn
<1>6. d \notin DOMAIN Charges(adapter, arguments) => TotalOn(adapter, arguments, d) = 0
  BY <1>4, SumEmpty DEF TotalOn
<1> QED BY <1>1, <1>2, <1>3, <1>4, <1>5, <1>6

(* Every charge is on a dimension that all budgets have, or never zero.    *)
Covered(tool) ==
  \A i \in DOMAIN tool.budget_charges :
    LET charge == tool.budget_charges[i] IN
    \/ charge.dimension \in BuiltInDims
    \/ charge.argument = None /\ charge.constant \in Nat \ {0}

LEMMA BuiltInsAreCovered == \A tool \in DOMAIN BuiltInAdapters : Covered(BuiltInAdapters[tool])
<1>1. Covered(PostgresOrdersUpdate)
  BY DEF Covered, PostgresOrdersUpdate, BuiltInDims
<1>2. Covered(StripePaymentIntentsCreate)
  BY DEF Covered, StripePaymentIntentsCreate, BuiltInDims
<1>3. Covered(TwilioMessagesCreate)
  BY DEF Covered, TwilioMessagesCreate
<1> QED BY <1>1, <1>2, <1>3 DEF BuiltInAdapters

(* Such a charge is deducted whenever it is affordable: the check made     *)
(* before the deductions leaves no way for one of them to fail.            *)
LEMMA CoveredIsDeductible ==
  ASSUME NEW adapter, NEW arguments, NEW budget \in Budgets,
         WellDeclared(adapter), Covered(adapter), Chargeable(adapter, arguments),
         Affordable(budget, Charges(adapter, arguments))
  PROVE  Deductible(budget, Charges(adapter, arguments))
<1> DEFINE amounts == Amounts(adapter, arguments)
           On(d)   == ChargesOn(adapter, d)
<1> SUFFICES ASSUME NEW d \in DOMAIN Charges(adapter, arguments)
             PROVE  Present(budget, d)
  BY DEF Deductible
<1>1. /\ IsFiniteSet(On(d))
      /\ \A i \in On(d) : amounts[i] \in Nat
      /\ On(d) # {}
      /\ Charges(adapter, arguments)[d] = SumFunctionOnSet(amounts, On(d))
  BY ChargesAreSums DEF TotalOn
<1>2. PICK i \in On(d) : TRUE
  BY <1>1
<1> DEFINE charge == adapter.budget_charges[i]
<1>3. i \in DOMAIN adapter.budget_charges /\ charge.dimension = d
  BY <1>2 DEF ChargesOn
<1>4. CASE charge.dimension \in BuiltInDims
  BY <1>3, <1>4 DEF Present, Budgets, Dims
<1>5. CASE charge.argument = None /\ charge.constant \in Nat \ {0}
  <2>1. amounts[i] \in Nat \ {0}
    BY <1>3, <1>5 DEF Amounts, Amount
  <2>2. SumFunctionOnSet(amounts, On(d)) = amounts[i] + SumFunctionOnSet(amounts, On(d) \ {i})
    BY <1>1, SumTakes
  <2>3. SumFunctionOnSet(amounts, On(d) \ {i}) \in Nat
    <3>1. IsFiniteSet(On(d) \ {i})
      BY <1>1, FS_Subset
    <3> QED BY <1>1, <3>1, SumType
  <2>4. Charges(adapter, arguments)[d] > 0
    BY <1>1, <2>1, <2>2, <2>3
  <2>5. Charges(adapter, arguments)[d] <= Value(budget, d)
    BY DEF Affordable
  <2>6. CASE ~ Present(budget, d)
    <3>1. Value(budget, d) = 0
      BY <2>6 DEF Value
    <3>2. Charges(adapter, arguments)[d] \in Nat
      BY <1>1, SumType
    <3> QED BY <2>4, <2>5, <3>1, <3>2
  <2> QED BY <2>6
<1> QED BY <1>3, <1>4, <1>5 DEF Covered
=============================================================================
