-------------------------- MODULE BlockWindow_proofs --------------------------
(***************************************************************************)
(* Theorems about the window of recent blocks (BlockWindow).               *)
(*                                                                         *)
(* The window's total is a sum over a function.  The library defines it by *)
(* a recursion over subsets that takes out one element after another; the  *)
(* first half of this module shows that the recursion defines a function   *)
(* and that the order does not matter.                                     *)
(*                                                                         *)
(* Provers cannot instantiate induction theorems.  The argument is each    *)
(* time that a set for which the claim fails would have a least one.       *)
(***************************************************************************)
EXTENDS BlockWindow, FiniteSetTheorems, TLAPS

-----------------------------------------------------------------------------
(***************************************************************************)
(* Sums.                                                                   *)
(***************************************************************************)

\* The element that the recursion takes out of a set, one step of the recursion, and
\* the function on the subsets of T that follows it.
Pick(s) == CHOOSE x \in s : TRUE
SumStep(f, g, s) == IF s = {} THEN 0 ELSE f[Pick(s)] + g[s \ {Pick(s)}]
IsSum(f, T, g) == g = [s \in SUBSET T |-> SumStep(f, g, s)]

\* Among sets of subsets of a finite set, one is least.
LEMMA LeastBad ==
    ASSUME NEW S, IsFiniteSet(S), NEW Bad, Bad \subseteq SUBSET S, Bad # {}
    PROVE  \E T \in Bad : \A U \in Bad : U \subseteq T => U = T
<1>1. IsWellFoundedOn(StrictSubsetOrdering(S), SUBSET S)
  BY FS_StrictSubsetOrderingWellFounded, FS_FiniteSubsetsOfFinite
<1>2. \E T \in Bad : \A U \in Bad : ~ (<<U, T>> \in StrictSubsetOrdering(S))
  BY <1>1, WFMin
<1> QED
  BY <1>2 DEF StrictSubsetOrdering

\* A set that is not empty has the element that is picked.
LEMMA PickIn == \A s : s # {} => Pick(s) \in s
BY DEF Pick

\* At most one function follows the recursion.
LEMMA SumUnique ==
    ASSUME NEW f, NEW T, IsFiniteSet(T), NEW g, NEW h, IsSum(f, T, g), IsSum(f, T, h)
    PROVE  g = h
<1> DEFINE Bad == {s \in SUBSET T : g[s] # h[s]}
<1>1. SUFFICES ASSUME Bad # {} PROVE FALSE
  <2>1. Bad = {} => \A s \in SUBSET T : g[s] = h[s]
    OBVIOUS
  <2> QED
    BY <2>1 DEF IsSum
<1>2. PICK s \in Bad : \A u \in Bad : u \subseteq s => u = s
  <2>1. Bad \subseteq SUBSET T
    OBVIOUS
  <2> HIDE DEF Bad
  <2> QED
    BY <1>1, <2>1, LeastBad
<1>3. /\ g[s] = SumStep(f, g, s) 
      /\ h[s] = SumStep(f, h, s)
  BY DEF IsSum
<1>4. CASE s = {}
  BY <1>3, <1>4 DEF SumStep
<1>5. CASE s # {}
  <2>1. Pick(s) \in s
    BY <1>5, PickIn
  <2>2. s \ {Pick(s)} \notin Bad /\ s \ {Pick(s)} \in SUBSET T
    BY <1>2, <2>1
  <2> QED
    BY <1>3, <1>5, <2>2 DEF SumStep
<1> QED
  BY <1>4, <1>5

\* A function that follows it does so on the subsets of a smaller set too.
LEMMA SumRestrict ==
    ASSUME NEW f, NEW T, NEW g, IsSum(f, T, g), NEW U \in SUBSET T
    PROVE  IsSum(f, U, [s \in SUBSET U |-> g[s]])
<1> DEFINE h == [s \in SUBSET U |-> g[s]]
<1>1. ASSUME NEW s \in SUBSET U
      PROVE  h[s] = SumStep(f, h, s)
  <2>1. g[s] = SumStep(f, g, s)
    BY DEF IsSum
  <2>2. CASE s = {}
    BY <2>1, <2>2 DEF SumStep
  <2>3. CASE s # {}
    <3>1. h[s \ {Pick(s)}] = g[s \ {Pick(s)}]
      OBVIOUS
    <3> QED
      BY <2>1, <2>3, <3>1 DEF SumStep
  <2> QED
    BY <2>2, <2>3
<1> QED
  BY <1>1 DEF IsSum

\* Some function follows it: from the ones for the subsets that lack one element.
LEMMA SumExists ==
    ASSUME NEW f, NEW S, IsFiniteSet(S)
    PROVE  \E g : IsSum(f, S, g)
<1> DEFINE Bad == {T \in SUBSET S : ~ \E g : IsSum(f, T, g)}
           Rec(U) == CHOOSE g : IsSum(f, U, g)
           Val(U) == Rec(U)[U]
<1>1. SUFFICES ASSUME Bad # {} PROVE FALSE
  OBVIOUS
<1>2. PICK T \in Bad : \A U \in Bad : U \subseteq T => U = T
  <2>1. Bad \subseteq SUBSET S
    OBVIOUS
  <2> HIDE DEF Bad
  <2> QED
    BY <1>1, <2>1, LeastBad
<1>3. \A U \in SUBSET T : U # T => IsSum(f, U, Rec(U)) /\ IsFiniteSet(U)
  BY <1>2, FS_Subset
<1> DEFINE g == [s \in SUBSET T |-> IF s = {} THEN 0 ELSE f[Pick(s)] + Val(s \ {Pick(s)})]
<1> HIDE DEF Bad, Rec
<1>4. ASSUME NEW s \in SUBSET T, s # T
      PROVE  g[s] = Val(s)
  <2>1. IsSum(f, s, Rec(s)) /\ Val(s) = SumStep(f, Rec(s), s)
    BY <1>3, <1>4 DEF IsSum
  <2>2. CASE s = {}
    BY <2>1, <2>2 DEF SumStep
  <2>3. CASE s # {}
    <3> DEFINE u == s \ {Pick(s)}
    <3>1. u \in SUBSET s /\ u \in SUBSET T /\ u # T
      BY <1>4, <2>3, PickIn
    <3>2. IsSum(f, u, [r \in SUBSET u |-> Rec(s)[r]])
      BY <2>1, <3>1, SumRestrict
    <3>3. [r \in SUBSET u |-> Rec(s)[r]] = Rec(u)
      BY <1>3, <3>1, <3>2, SumUnique
    <3>4. Rec(s)[u] = Val(u)
      BY <3>3
    <3> QED
      BY <2>1, <2>3, <3>4 DEF SumStep
  <2> QED
    BY <2>2, <2>3
<1>5. IsSum(f, T, g)
  <2>1. ASSUME NEW s \in SUBSET T
        PROVE  g[s] = SumStep(f, g, s)
    <3>1. CASE s = {}
      BY <3>1 DEF SumStep
    <3>2. CASE s # {}
      <4>1. s \ {Pick(s)} \in SUBSET T /\ s \ {Pick(s)} # T
        BY <3>2, PickIn
      <4>2. g[s \ {Pick(s)}] = Val(s \ {Pick(s)})
        BY <1>4, <4>1
      <4> HIDE DEF Val
      <4>3. g[s] = f[Pick(s)] + Val(s \ {Pick(s)})
        BY <3>2
      <4> HIDE DEF g
      <4> QED
        BY <3>2, <4>2, <4>3 DEF SumStep
    <3> QED
      BY <3>1, <3>2
  <2> QED
    BY <2>1 DEF IsSum
<1> QED
  BY <1>2, <1>5 DEF Bad

\* So the sum of the library is the value of any function that follows it.
LEMMA SumValue ==
    ASSUME NEW f, NEW S, IsFiniteSet(S), NEW g, IsSum(f, S, g)
    PROVE  SumFunctionOnSet(f, S) = g[S]
<1> DEFINE Def(h) == [s \in SUBSET S |->
                        IF s = {} THEN 0
                        ELSE f[CHOOSE x \in s : TRUE] + h[s \ {CHOOSE x \in s : TRUE}]]
           iter == CHOOSE h : h = Def(h)
<1>1. SumFunctionOnSet(f, S) = iter[S]
  BY DEF SumFunctionOnSet, FoldFunctionOnSet, MapThenFoldSet
<1>2. \A h : IsSum(f, S, h) <=> h = Def(h)
  BY DEF IsSum, SumStep, Pick
<1>3. iter = Def(iter)
  <2> HIDE DEF Def
  <2> QED
    BY <1>2
<1>4. iter = g
  <2> HIDE DEF iter, Def
  <2> QED
    BY <1>2, <1>3, SumUnique
<1> QED
  BY <1>1, <1>4

\* The sum over nothing is 0.
LEMMA SumEmpty == \A f : SumFunctionOnSet(f, {}) = 0
<1> SUFFICES ASSUME NEW f PROVE SumFunctionOnSet(f, {}) = 0
  OBVIOUS
<1>1. IsFiniteSet({})
  BY FS_EmptySet
<1>2. PICK g : IsSum(f, {}, g)
  BY <1>1, SumExists
<1> QED
  BY <1>1, <1>2, SumValue DEF IsSum, SumStep

\* The sum is one element's value and the sum of the others.
LEMMA SumPick ==
    ASSUME NEW f, NEW S, IsFiniteSet(S), S # {}
    PROVE  /\ Pick(S) \in S
           /\ SumFunctionOnSet(f, S) = f[Pick(S)] + SumFunctionOnSet(f, S \ {Pick(S)})
<1> DEFINE U == S \ {Pick(S)}
<1>1. PICK g : IsSum(f, S, g)
  BY SumExists
<1>2. IsSum(f, U, [s \in SUBSET U |-> g[s]]) /\ IsFiniteSet(U)
  BY <1>1, SumRestrict, FS_Subset
<1>3. SumFunctionOnSet(f, U) = g[U]
  BY <1>2, SumValue
<1>4. SumFunctionOnSet(f, S) = g[S] /\ g[S] = SumStep(f, g, S)
  BY <1>1, SumValue DEF IsSum
<1> QED
  BY <1>3, <1>4, PickIn DEF SumStep

\* A sum of naturals is one.
LEMMA SumNat ==
    ASSUME NEW f, NEW S, IsFiniteSet(S), \A i \in S : f[i] \in Nat
    PROVE  SumFunctionOnSet(f, S) \in Nat
<1> DEFINE Bad == {T \in SUBSET S : SumFunctionOnSet(f, T) \notin Nat}
<1>1. SUFFICES ASSUME Bad # {} PROVE FALSE
  OBVIOUS
<1>2. PICK T \in Bad : \A U \in Bad : U \subseteq T => U = T
  <2>1. Bad \subseteq SUBSET S
    OBVIOUS
  <2> HIDE DEF Bad
  <2> QED
    BY <1>1, <2>1, LeastBad
<1>3. T # {} /\ IsFiniteSet(T)
  <2>1. SumFunctionOnSet(f, {}) \in Nat
    BY SumEmpty
  <2> QED
    BY <2>1, FS_Subset
<1>4. /\ Pick(T) \in T
      /\ SumFunctionOnSet(f, T) = f[Pick(T)] + SumFunctionOnSet(f, T \ {Pick(T)})
  BY <1>3, SumPick
<1>5. SumFunctionOnSet(f, T \ {Pick(T)}) \in Nat
  BY <1>2, <1>4
<1> QED
  BY <1>2, <1>4, <1>5

\* The elements of the set alone count.
LEMMA SumSame ==
    ASSUME NEW f, NEW g, NEW S, IsFiniteSet(S), \A i \in S : f[i] = g[i]
    PROVE  SumFunctionOnSet(f, S) = SumFunctionOnSet(g, S)
<1> DEFINE Bad == {T \in SUBSET S : SumFunctionOnSet(f, T) # SumFunctionOnSet(g, T)}
<1>1. SUFFICES ASSUME Bad # {} PROVE FALSE
  OBVIOUS
<1>2. PICK T \in Bad : \A U \in Bad : U \subseteq T => U = T
  <2>1. Bad \subseteq SUBSET S
    OBVIOUS
  <2> HIDE DEF Bad
  <2> QED
    BY <1>1, <2>1, LeastBad
<1>3. T # {} /\ IsFiniteSet(T)
  BY <1>2, SumEmpty, FS_Subset
<1>4. /\ Pick(T) \in T
      /\ SumFunctionOnSet(f, T) = f[Pick(T)] + SumFunctionOnSet(f, T \ {Pick(T)})
      /\ SumFunctionOnSet(g, T) = g[Pick(T)] + SumFunctionOnSet(g, T \ {Pick(T)})
  BY <1>3, SumPick
<1>5. SumFunctionOnSet(f, T \ {Pick(T)}) = SumFunctionOnSet(g, T \ {Pick(T)})
  BY <1>2, <1>4
<1> QED
  BY <1>2, <1>4, <1>5

\* Any element may be taken out first.
LEMMA SumTakeOut ==
    ASSUME NEW f, NEW S, IsFiniteSet(S), \A i \in S : f[i] \in Nat, NEW e \in S
    PROVE  SumFunctionOnSet(f, S) = f[e] + SumFunctionOnSet(f, S \ {e})
<1> DEFINE Sum(T) == SumFunctionOnSet(f, T)
           Bad == {T \in SUBSET S : \E x \in T : Sum(T) # f[x] + Sum(T \ {x})}
<1> HIDE DEF Sum
<1>1. SUFFICES ASSUME Bad # {} PROVE FALSE
  BY DEF Sum
<1>2. PICK T \in Bad : \A U \in Bad : U \subseteq T => U = T
  <2>1. Bad \subseteq SUBSET S
    OBVIOUS
  <2> HIDE DEF Bad
  <2> QED
    BY <1>1, <2>1, LeastBad
<1>3. PICK x \in T : Sum(T) # f[x] + Sum(T \ {x})
  OBVIOUS
<1> DEFINE p == Pick(T)
<1>4. \A U \in SUBSET S : IsFiniteSet(U) /\ Sum(U) \in Nat
  BY FS_Subset, SumNat DEF Sum
<1>5. p \in T /\ Sum(T) = f[p] + Sum(T \ {p})
  BY <1>3, <1>4, SumPick DEF Sum
<1> HIDE DEF p
<1>6. p # x
  BY <1>3, <1>5
<1>7. Sum(T \ {p}) = f[x] + Sum((T \ {p}) \ {x})
  BY <1>2, <1>3, <1>5, <1>6
<1>8. Sum(T \ {x}) = f[p] + Sum((T \ {x}) \ {p})
  BY <1>2, <1>3, <1>5, <1>6
<1>9. (T \ {x}) \ {p} = (T \ {p}) \ {x} /\ (T \ {p}) \ {x} \in SUBSET S
  OBVIOUS
<1>10. f[x] \in Nat /\ f[p] \in Nat /\ Sum((T \ {p}) \ {x}) \in Nat
  BY <1>3, <1>4, <1>5, <1>9
<1>11. Sum(T) = f[p] + (f[x] + Sum((T \ {p}) \ {x}))
  BY <1>5, <1>7
<1>12. f[x] + Sum(T \ {x}) = f[x] + (f[p] + Sum((T \ {p}) \ {x}))
  BY <1>8, <1>9
<1> HIDE DEF Bad
<1> QED
  BY <1>3, <1>10, <1>11, <1>12

\* A set of naturals has a least element.
LEMMA LeastNat ==
    ASSUME NEW S, S \subseteq Nat, S # {}
    PROVE  \E m \in S : \A n \in S : m <= n
<1>1. PICK m \in S : \A n \in S : ~ (<<n, m>> \in OpToRel(<, Nat))
  BY NatLessThanWellFounded, WFMin
<1>2. \A n \in S : ~ (n < m)
  BY <1>1 DEF OpToRel
<1> QED
  BY <1>2

\* The positions of a sequence are finitely many.
LEMMA IntervalFinite == \A n \in Int : IsFiniteSet(1..n)
BY FS_Interval

\* A sum over a prefix of the naturals ends with the last element.
LEMMA SumLast ==
    ASSUME NEW f, NEW n \in Nat, \A i \in 1..(n + 1) : f[i] \in Nat
    PROVE  SumFunctionOnSet(f, 1..(n + 1)) = SumFunctionOnSet(f, 1..n) + f[n + 1]
<1>1. IsFiniteSet(1..(n + 1)) /\ IsFiniteSet(1..n)
  BY FS_Interval
<1>2. n + 1 \in 1..(n + 1) /\ (1..(n + 1)) \ {n + 1} = 1..n
  OBVIOUS
<1>3. SumFunctionOnSet(f, 1..n) \in Nat
  BY <1>1, SumNat
<1>4. SumFunctionOnSet(f, 1..(n + 1)) = f[n + 1] + SumFunctionOnSet(f, 1..n)
  BY <1>1, <1>2, SumTakeOut
<1> QED
  BY <1>2, <1>3, <1>4

\* The sum of the rest of a sequence is the sum of all of it less the first.
LEMMA SumShift ==
    ASSUME NEW f, NEW g, NEW n \in Nat, \A i \in 1..(n + 1) : f[i] \in Nat,
           \A i \in 1..n : g[i] = f[i + 1]
    PROVE  SumFunctionOnSet(f, 1..(n + 1)) = f[1] + SumFunctionOnSet(g, 1..n)
<1> DEFINE Bad == {m \in 0..n : SumFunctionOnSet(f, 1..(m + 1))
                                    # f[1] + SumFunctionOnSet(g, 1..m)}
<1>1. SUFFICES ASSUME Bad # {} PROVE FALSE
  OBVIOUS
<1>2. PICK m \in Bad : \A k \in Bad : m <= k
  <2>1. Bad \subseteq Nat
    OBVIOUS
  <2> HIDE DEF Bad
  <2> QED
    BY <1>1, <2>1, LeastNat
<1>3. m \in 0..n
  OBVIOUS
<1>4. CASE m = 0
  <2>1. 1..(0 + 1) = {1} /\ 1..0 = {} /\ {1} \ {1} = {}
    OBVIOUS
  <2>2. SumFunctionOnSet(f, {1}) = f[1] + SumFunctionOnSet(f, {1} \ {1})
    <3>1. IsFiniteSet({1})
      BY FS_Singleton
    <3>2. f[1] \in Nat
      OBVIOUS
    <3> HIDE DEF Bad
    <3>3. \A i \in {1} : f[i] \in Nat
      BY <3>2
    <3> QED
      BY <3>1, <3>3, SumTakeOut
  <2> QED
    BY <1>2, <1>4, <2>1, <2>2, SumEmpty
<1>5. CASE m # 0
  <2>1. m - 1 \in 0..n /\ (m - 1) + 1 = m /\ m - 1 \in Nat /\ m \in Nat /\ m - 1 < m
    BY <1>3, <1>5
  <2>2. SumFunctionOnSet(f, 1..m) = f[1] + SumFunctionOnSet(g, 1..(m - 1))
    BY <1>2, <2>1
  <2>3. SumFunctionOnSet(f, 1..(m + 1)) = SumFunctionOnSet(f, 1..m) + f[m + 1]
    BY <1>3, <2>1, SumLast
  <2>4. \A i \in 1..m : g[i] \in Nat
    BY <1>3
  <2>5. SumFunctionOnSet(g, 1..((m - 1) + 1)) = SumFunctionOnSet(g, 1..(m - 1)) + g[(m - 1) + 1]
    BY <2>1, <2>4, SumLast
  <2>6. g[m] = f[m + 1] /\ f[m + 1] \in Nat /\ f[1] \in Nat
    BY <1>3, <1>5
  <2>7. SumFunctionOnSet(g, 1..(m - 1)) \in Nat
    <3>1. IsFiniteSet(1..(m - 1))
      BY <2>1, IntervalFinite
    <3>2. \A i \in 1..(m - 1) : g[i] \in Nat
      BY <2>1, <2>4
    <3> QED
      BY <3>1, <3>2, SumNat
  <2> QED
    BY <1>2, <2>1, <2>2, <2>3, <2>5, <2>6, <2>7
<1> QED
  BY <1>4, <1>5

-----------------------------------------------------------------------------
(***************************************************************************)
(* The window.                                                             *)
(***************************************************************************)

\* The position of the first entry of a block, 0 when there is none.
PositionOf(entries, block) ==
    LET I == {i \in 1..Len(entries) : entries[i].block = block}
    IN  IF I # {} THEN Min(I) ELSE 0

\* The search answers with a position, or 0.
LEMMA PositionType ==
    ASSUME NEW entries \in Seq(Entry), NEW block
    PROVE  PositionOf(entries, block) \in 0..Len(entries)
<1> DEFINE I == {i \in 1..Len(entries) : entries[i].block = block}
<1>1. Len(entries) \in Nat /\ I \subseteq 1..Len(entries) /\ I \subseteq Nat
  OBVIOUS
<1>2. PositionOf(entries, block) = IF I # {} THEN Min(I) ELSE 0
  BY DEF PositionOf
<1> HIDE DEF I
<1>3. CASE I = {}
  BY <1>1, <1>2, <1>3
<1>4. CASE I # {}
  <2>1. \E m \in I : \A n \in I : m <= n
    BY <1>1, <1>4, LeastNat
  <2>2. Min(I) \in I
    BY <2>1 DEF Min
  <2>3. Min(I) \in 1..Len(entries)
    BY <1>1, <2>2
  <2> QED
    BY <1>1, <1>2, <1>4, <2>3
<1> QED
  BY <1>3, <1>4

\* incrementOrCreateBlock, by the position that the search finds.
LEMMA IncrementIs ==
    ASSUME NEW entries, NEW block, NEW amount
    PROVE  IncrementOrCreate(entries, block, amount) =
             IF PositionOf(entries, block) = 0
             THEN Append(entries, [block |-> block, sum |-> amount])
             ELSE [entries EXCEPT ![PositionOf(entries, block)].sum =
                     entries[PositionOf(entries, block)].sum + amount]
BY DEF IncrementOrCreate, PositionOf, SelectInSeq

\* The total of a window is a sum over its positions, and a natural.
LEMMA TotalType ==
    ASSUME NEW entries \in Seq(Entry)
    PROVE  /\ \A i \in 1..Len(entries) : entries[i] \in Entry
           /\ TotalSum(entries) = SumFunctionOnSet([i \in 1..Len(entries) |-> entries[i].sum],
                                                   1..Len(entries))
           /\ TotalSum(entries) \in Nat
<1> DEFINE n == Len(entries)
           f == [i \in 1..n |-> entries[i].sum]
<1>1. DOMAIN entries = 1..n /\ n \in Nat /\ \A i \in 1..n : entries[i] \in Entry
  OBVIOUS
<1>2. TotalSum(entries) = SumFunctionOnSet(f, 1..n)
  BY <1>1 DEF TotalSum, SumFunction
<1>3. \A i \in 1..n : f[i] \in Nat
  BY <1>1 DEF Entry
<1>4. IsFiniteSet(1..n)
  BY <1>1, IntervalFinite
<1>5. SumFunctionOnSet(f, 1..n) \in Nat
  BY <1>3, <1>4, SumNat
<1> QED
  BY <1>1, <1>2, <1>5

\* A new entry adds its sum.
LEMMA TotalOfAppend ==
    ASSUME NEW entries \in Seq(Entry), NEW entry \in Entry
    PROVE  TotalSum(Append(entries, entry)) = TotalSum(entries) + entry.sum
<1> DEFINE n == Len(entries)
           longer == Append(entries, entry)
           f == [i \in 1..n |-> entries[i].sum]
           g == [i \in 1..(n + 1) |-> longer[i].sum]
<1>1. /\ n \in Nat /\ longer \in Seq(Entry) /\ Len(longer) = n + 1
      /\ longer[n + 1] = entry /\ \A i \in 1..n : longer[i] = entries[i]
  OBVIOUS
<1>2. /\ TotalSum(entries) = SumFunctionOnSet(f, 1..n)
      /\ TotalSum(longer) = SumFunctionOnSet(g, 1..(n + 1))
      /\ \A i \in 1..(n + 1) : longer[i] \in Entry
  BY <1>1, TotalType
<1>3. \A i \in 1..(n + 1) : g[i] \in Nat
  BY <1>2 DEF Entry
<1>4. SumFunctionOnSet(g, 1..(n + 1)) = SumFunctionOnSet(g, 1..n) + g[n + 1]
  BY <1>1, <1>3, SumLast
<1>5. \A i \in 1..n : g[i] = f[i]
  BY <1>1
<1>6. SumFunctionOnSet(g, 1..n) = SumFunctionOnSet(f, 1..n)
  <2>1. IsFiniteSet(1..n)
    BY <1>1, IntervalFinite
  <2> QED
    BY <1>5, <2>1, SumSame
<1>7. g[n + 1] = entry.sum
  BY <1>1
<1> QED
  BY <1>2, <1>4, <1>6, <1>7

\* incrementOrCreateBlock makes an entry of it, and the total grows by the amount:
\* no amount gets into the window twice and none is left out.
THEOREM IncrementCounts ==
    ASSUME NEW entries \in Seq(Entry), NEW block \in Int, NEW amount \in Nat
    PROVE  /\ IncrementOrCreate(entries, block, amount) \in Seq(Entry)
           /\ TotalSum(IncrementOrCreate(entries, block, amount)) = TotalSum(entries) + amount
<1> DEFINE found == PositionOf(entries, block)
           n == Len(entries)
           next == IncrementOrCreate(entries, block, amount)
<1> SUFFICES next \in Seq(Entry) /\ TotalSum(next) = TotalSum(entries) + amount
  OBVIOUS
<1>1. found \in 0..n /\ n \in Nat
  BY PositionType
<1>2. CASE found = 0
  <2>1. next = Append(entries, [block |-> block, sum |-> amount])
    BY <1>2, IncrementIs
  <2>2. [block |-> block, sum |-> amount] \in Entry
    BY DEF Entry
  <2> HIDE DEF next
  <2> QED
    BY <2>1, <2>2, TotalOfAppend
<1>3. CASE found # 0
  <2>1. next = [entries EXCEPT ![found].sum = entries[found].sum + amount]
    BY <1>3, IncrementIs
  <2> HIDE DEF found, next
  <2>2. n \in Nat /\ found \in 1..n /\ \A i \in 1..n : entries[i] \in Entry
    BY <1>1, <1>3
  <2>3. next \in Seq(Entry) /\ Len(next) = n
    BY <2>1, <2>2 DEF Entry
  <2> DEFINE f == [i \in 1..n |-> entries[i].sum]
             g == [i \in 1..n |-> next[i].sum]
  <2>4. g[found] = f[found] + amount /\ \A i \in 1..n \ {found} : g[i] = f[i]
    BY <2>1, <2>2 DEF Entry
  <2>5. (\A i \in 1..n : f[i] \in Nat) /\ (\A i \in 1..n : g[i] \in Nat)
    <3>1. \A i \in 1..n : next[i] \in Entry
      BY <2>2, <2>3
    <3> QED
      BY <2>2, <3>1 DEF Entry
  <2>6. /\ TotalSum(entries) = SumFunctionOnSet(f, 1..n)
        /\ TotalSum(next) = SumFunctionOnSet(g, 1..n)
    BY <2>3, TotalType
  <2>7. IsFiniteSet(1..n) /\ IsFiniteSet((1..n) \ {found})
    BY <2>2, IntervalFinite, FS_Subset
  <2> HIDE DEF f, g, n
  <2>8. /\ SumFunctionOnSet(f, 1..n) = f[found] + SumFunctionOnSet(f, (1..n) \ {found})
        /\ SumFunctionOnSet(g, 1..n) = g[found] + SumFunctionOnSet(g, (1..n) \ {found})
    BY <2>2, <2>5, <2>7, SumTakeOut
  <2>9. SumFunctionOnSet(f, (1..n) \ {found}) = SumFunctionOnSet(g, (1..n) \ {found})
    BY <2>4, <2>7, SumSame
  <2>10. SumFunctionOnSet(f, (1..n) \ {found}) \in Nat
    BY <2>5, <2>7, SumNat
  <2> QED
    BY <2>2, <2>3, <2>4, <2>5, <2>6, <2>8, <2>9, <2>10
<1> QED
  BY <1>2, <1>3

\* The first entry takes its sum with it.
LEMMA TotalOfTail ==
    ASSUME NEW entries \in Seq(Entry), entries # <<>>
    PROVE  /\ Tail(entries) \in Seq(Entry)
           /\ entries[1].sum \in Nat
           /\ TotalSum(entries) = entries[1].sum + TotalSum(Tail(entries))
<1> DEFINE n == Len(entries) - 1
           rest == Tail(entries)
           f == [i \in 1..(n + 1) |-> entries[i].sum]
           g == [i \in 1..n |-> rest[i].sum]
<1>1. /\ n \in Nat /\ Len(entries) = n + 1 /\ rest \in Seq(Entry) /\ Len(rest) = n
      /\ \A i \in 1..n : rest[i] = entries[i + 1]
  OBVIOUS
<1>2. /\ TotalSum(entries) = SumFunctionOnSet(f, 1..(n + 1))
      /\ TotalSum(rest) = SumFunctionOnSet(g, 1..n)
      /\ \A i \in 1..(n + 1) : entries[i] \in Entry
  BY <1>1, TotalType
<1>3. \A i \in 1..(n + 1) : f[i] \in Nat
  BY <1>2 DEF Entry
<1>4. \A i \in 1..n : g[i] = f[i + 1]
  BY <1>1
<1>5. SumFunctionOnSet(f, 1..(n + 1)) = f[1] + SumFunctionOnSet(g, 1..n)
  <2> HIDE DEF f, g, n
  <2> QED
    BY <1>1, <1>3, <1>4, SumShift
<1>6. f[1] = entries[1].sum /\ f[1] \in Nat
  BY <1>1, <1>3
<1> QED
  BY <1>1, <1>2, <1>5, <1>6

\* addBlockRangeStateEntry forgets the sum of one entry at most, the oldest, and
\* only when the window is full: a block by itself never lets the total grow.
THEOREM NewBlockForgetsOldest ==
    ASSUME NEW entries \in Seq(Entry), NEW block \in Int, NEW maxEntries \in Nat \ {0}
    PROVE  /\ AddEntry(entries, block, maxEntries) \in Seq(Entry)
           /\ TotalSum(AddEntry(entries, block, maxEntries)) =
                IF Len(entries) < maxEntries THEN TotalSum(entries)
                ELSE TotalSum(entries) - entries[1].sum
<1> DEFINE new == [block |-> block, sum |-> 0]
           longer == Append(entries, new)
           next == AddEntry(entries, block, maxEntries)
<1> SUFFICES /\ next \in Seq(Entry)
             /\ TotalSum(next) = IF Len(entries) < maxEntries THEN TotalSum(entries)
                                 ELSE TotalSum(entries) - entries[1].sum
  OBVIOUS
<1>1. /\ new \in Entry /\ new.sum = 0 /\ longer \in Seq(Entry) /\ longer # <<>>
      /\ Len(longer) = Len(entries) + 1 /\ Len(entries) \in Nat
      /\ Len(entries) > 0 => longer[1] = entries[1]
  <2>1. new \in Entry /\ new.sum = 0
    BY DEF Entry
  <2> HIDE DEF new
  <2>2. /\ longer \in Seq(Entry) /\ Len(longer) = Len(entries) + 1 /\ Len(entries) \in Nat
        /\ Len(entries) > 0 => longer[1] = entries[1]
    BY <2>1
  <2>3. Len(<<>>) = 0
    OBVIOUS
  <2> HIDE DEF longer
  <2> QED
    BY <2>1, <2>2, <2>3
<1>2. TotalSum(longer) = TotalSum(entries) + new.sum /\ TotalSum(entries) \in Nat
  BY <1>1, TotalOfAppend, TotalType
<1>3. next = IF Len(longer) > maxEntries THEN Tail(longer) ELSE longer
  BY DEF AddEntry
<1> HIDE DEF next, longer, new
<1>4. CASE Len(entries) < maxEntries
  BY <1>1, <1>2, <1>3, <1>4
<1>5. CASE ~ (Len(entries) < maxEntries)
  <2>1. next = Tail(longer) /\ longer[1] = entries[1]
    BY <1>1, <1>3, <1>5
  <2>2. /\ Tail(longer) \in Seq(Entry) /\ longer[1].sum \in Nat
        /\ TotalSum(longer) = longer[1].sum + TotalSum(Tail(longer))
    BY <1>1, TotalOfTail
  <2>3. TotalSum(Tail(longer)) \in Nat
    BY <2>2, TotalType
  <2> QED
    BY <1>1, <1>2, <1>5, <2>1, <2>2, <2>3
<1> QED
  BY <1>4, <1>5

\* What getBlockSums rebuilds the window from are entries.
LEMMA BlockSumsType ==
    ASSUME NEW docs, \A t \in Burns : Len(docs[t]) \in Nat, NEW block \in Int, NEW range \in Nat
    PROVE  BlockSums(docs, block, range) \in Seq(Entry)
<1>1. ASSUME NEW b
      PROVE  BlockSum(docs, b) \in Nat
  <2> DEFINE counted(t) == {i \in 1..Len(docs[t]) : docs[t][i].block = b /\ docs[t][i].clean}
             f == [t \in Burns |-> Amount[t] * Cardinality(counted(t))]
  <2>1. ASSUME NEW t \in Burns
        PROVE  f[t] \in Nat
    <3>1. IsFiniteSet(1..Len(docs[t]))
      BY IntervalFinite
    <3>2. IsFiniteSet(counted(t))
      BY <3>1, FS_Subset
    <3>3. Cardinality(counted(t)) \in Nat
      BY <3>2, FS_CardinalityType
    <3> HIDE DEF counted
    <3> QED
      BY <3>3, AmountAssumption
  <2>2. BlockSum(docs, b) = SumFunctionOnSet(f, Burns)
    BY DEF BlockSum, SumFunction
  <2> HIDE DEF f
  <2> QED
    BY <2>1, <2>2, BurnsAssumption, SumNat
<1>2. \A i \in 1..range :
        [block |-> block - range + i, sum |-> BlockSum(docs, block - range + i)] \in Entry
  BY <1>1 DEF Entry
<1> QED
  BY <1>2 DEF BlockSums

=============================================================================
