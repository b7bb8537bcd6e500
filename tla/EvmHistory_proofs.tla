-------------------------- MODULE EvmHistory_proofs ---------------------------
(***************************************************************************)
(* Theorems about EvmHistory, for every number of burns, calls, blocks and *)
(* failures: the burns recorded without risks stay within the rate limit.  *)
(***************************************************************************)
EXTENDS EvmHistory, EvmWatcher_proofs

-----------------------------------------------------------------------------
(***************************************************************************)
(* The rate limit.  WindowLimit bounds the total of the window, and the    *)
(* invariant relates the window to the records: for every block less than  *)
(* half a window below the stored height it holds at least what has been   *)
(* recorded of it or is about to be.  A block has two entries at most, in  *)
(* the order of the blocks, so that half a window of blocks is still there *)
(* when the oldest entry leaves.  The steps that OutOfTurn names are those *)
(* after which one of the two is no longer so.                             *)
(***************************************************************************)

\* A sum of which one element grows, grows by as much.
LEMMA SumGrows ==
    ASSUME NEW S, IsFiniteSet(S), NEW f, NEW g, \A i \in S : f[i] \in Nat,
           NEW e \in S, NEW a \in Nat, g[e] = f[e] + a, \A i \in S \ {e} : g[i] = f[i]
    PROVE  SumFunctionOnSet(g, S) = SumFunctionOnSet(f, S) + a
<1>1. IsFiniteSet(S \ {e})
  BY FS_Subset, S \ {e} \subseteq S
<1>2. \A i \in S : g[i] \in Nat
  OBVIOUS
<1>3. SumFunctionOnSet(f, S) = f[e] + SumFunctionOnSet(f, S \ {e})
  BY SumTakeOut
<1>4. SumFunctionOnSet(g, S) = g[e] + SumFunctionOnSet(g, S \ {e})
  BY <1>2, SumTakeOut
<1>5. SumFunctionOnSet(g, S \ {e}) = SumFunctionOnSet(f, S \ {e})
  BY <1>1, SumSame
<1>6. SumFunctionOnSet(f, S \ {e}) \in Nat
  BY <1>1, SumNat
<1> QED
  BY <1>3, <1>4, <1>5, <1>6

\* Each of the summands that are not 0 has one of its own in another sum, which is
\* as large: that sum is as large.
LEMMA SumInjected ==
    ASSUME NEW S, IsFiniteSet(S), NEW f, \A s \in S : f[s] \in Nat,
           NEW T, IsFiniteSet(T), NEW g, \A t \in T : g[t] \in Nat,
           NEW p, \A s \in S : f[s] > 0 => p[s] \in T /\ f[s] <= g[p[s]],
           \A s, u \in S : f[s] > 0 /\ f[u] > 0 /\ p[s] = p[u] => s = u
    PROVE  SumFunctionOnSet(f, S) <= SumFunctionOnSet(g, T)
<1> DEFINE Fits(U, V) == \A s \in U : f[s] > 0 => p[s] \in V
           Bad == {U \in SUBSET S : \E V \in SUBSET T :
                     Fits(U, V) /\ ~ (SumFunctionOnSet(f, U) <= SumFunctionOnSet(g, V))}
<1>1. SUFFICES ASSUME Bad # {} PROVE FALSE
  <2>1. Fits(S, T)
    OBVIOUS
  <2>2. S \notin Bad => SumFunctionOnSet(f, S) <= SumFunctionOnSet(g, T)
    BY <2>1
  <2> QED
    BY <2>2
<1>2. PICK U \in Bad : \A W \in Bad : W \subseteq U => W = U
  <2>1. Bad \subseteq SUBSET S
    OBVIOUS
  <2> HIDE DEF Bad
  <2> QED
    BY <1>1, <2>1, LeastBad
<1>3. PICK V \in SUBSET T : Fits(U, V) /\ ~ (SumFunctionOnSet(f, U) <= SumFunctionOnSet(g, V))
  OBVIOUS
<1>4. /\ U \subseteq S /\ IsFiniteSet(U) /\ IsFiniteSet(V)
      /\ SumFunctionOnSet(f, U) \in Nat /\ SumFunctionOnSet(g, V) \in Nat
  <2>1. U \subseteq S /\ IsFiniteSet(U) /\ IsFiniteSet(V)
    BY FS_Subset
  <2> QED
    BY <2>1, SumNat
<1>5. U # {}
  BY <1>3, <1>4, SumEmpty
<1>6. PICK s \in U : TRUE
  BY <1>5
<1> DEFINE R == U \ {s}
<1>7. R \notin Bad /\ R \in SUBSET S /\ IsFiniteSet(R) /\ s \in S
  BY <1>2, <1>4, <1>6, FS_Subset
<1>8. SumFunctionOnSet(f, U) = f[s] + SumFunctionOnSet(f, R) /\ SumFunctionOnSet(f, R) \in Nat
  <2>1. \A i \in U : f[i] \in Nat
    BY <1>4
  <2> QED
    BY <1>4, <1>6, <1>7, <2>1, SumTakeOut, SumNat
<1>9. CASE f[s] = 0
  <2>1. Fits(R, V)
    BY <1>3
  <2>2. SumFunctionOnSet(f, R) <= SumFunctionOnSet(g, V)
    BY <1>7, <2>1
  <2> QED
    BY <1>3, <1>4, <1>8, <1>9, <2>2
<1>10. CASE f[s] # 0
  <2>1. f[s] \in Nat /\ f[s] > 0 /\ p[s] \in V /\ f[s] <= g[p[s]]
    BY <1>3, <1>6, <1>7, <1>10
  <2> DEFINE W == V \ {p[s]}
  <2>2. Fits(R, W)
    BY <1>3, <1>4, <1>6, <2>1
  <2>3. W \in SUBSET T /\ IsFiniteSet(W)
    BY <1>4, FS_Subset
  <2>4. SumFunctionOnSet(f, R) <= SumFunctionOnSet(g, W)
    BY <1>7, <2>2, <2>3
  <2>5. SumFunctionOnSet(g, V) = g[p[s]] + SumFunctionOnSet(g, W) /\ SumFunctionOnSet(g, W) \in Nat
    <3>1. \A i \in V : g[i] \in Nat
      OBVIOUS
    <3> QED
      BY <1>4, <2>1, <2>3, <3>1, SumTakeOut, SumNat
  <2>6. g[p[s]] \in Nat
    BY <2>1
  <2> QED
    BY <1>3, <1>4, <1>8, <2>1, <2>4, <2>5, <2>6
<1> QED
  BY <1>9, <1>10

\* Half of the window, rounded down.
Half == WindowSize \div 2

\* The collection of transactions, as far as its lengths go.
IsDocs(d) == \A t \in Burns : Len(d[t]) \in Nat

\* Twice the half is no more than the window.
LEMMA HalfIs == Half \in Nat /\ 2 * Half <= WindowSize /\ WindowSize \in Nat
BY PolicyAssumption DEF Half

\* The sum of a block is a natural.
LEMMA BlockSumNat ==
    ASSUME NEW d, IsDocs(d), NEW b \in Int
    PROVE  BlockSum(d, b) \in Nat
<1>1. BlockSums(d, b, 1) \in Seq(Entry)
  BY BlockSumsType DEF IsDocs
<1>2. BlockSums(d, b, 1)[1] = [block |-> b - 1 + 1, sum |-> BlockSum(d, b - 1 + 1)]
  BY DEF BlockSums
<1>3. Len(BlockSums(d, b, 1)) = 1
  BY DEF BlockSums
<1>4. BlockSums(d, b, 1)[1] \in Entry
  BY <1>1, <1>3
<1>5. b - 1 + 1 = b
  OBVIOUS
<1> QED
  BY <1>2, <1>4, <1>5 DEF Entry

\* A document counts in the sum of its block if it is without risks, and in no other.
LEMMA BlockSumAppend ==
    ASSUME NEW d \in [Burns -> Seq(Doc)], NEW t \in Burns, NEW doc \in Doc, NEW b \in Int
    PROVE  BlockSum([d EXCEPT ![t] = Append(d[t], doc)], b) =
             BlockSum(d, b) + (IF doc.block = b /\ doc.clean THEN Amount[t] ELSE 0)
<1> DEFINE e == [d EXCEPT ![t] = Append(d[t], doc)]
           In(x, u) == {i \in 1..Len(x[u]) : x[u][i].block = b /\ x[u][i].clean}
           f == [u \in Burns |-> Amount[u] * Cardinality(In(d, u))]
           g == [u \in Burns |-> Amount[u] * Cardinality(In(e, u))]
           a == IF doc.block = b /\ doc.clean THEN Amount[t] ELSE 0
<1>1. IsFiniteSet(Burns) /\ Amount \in [Burns -> Nat]
  BY BurnsAssumption, AmountAssumption
<1>2. /\ BlockSum(d, b) = SumFunctionOnSet(f, Burns)
      /\ BlockSum(e, b) = SumFunctionOnSet(g, Burns)
  <2>1. DOMAIN f = Burns /\ DOMAIN g = Burns
    OBVIOUS
  <2> QED
    BY <2>1 DEF BlockSum, SumFunction
<1>3. /\ \A u \in Burns \ {t} : e[u] = d[u]
      /\ e[t] = Append(d[t], doc) /\ d[t] \in Seq(Doc)
  OBVIOUS
<1>4. ASSUME NEW u \in Burns
      PROVE  IsFiniteSet(In(d, u)) /\ Cardinality(In(d, u)) \in Nat
  <2>1. d[u] \in Seq(Doc) /\ Len(d[u]) \in Nat /\ In(d, u) \subseteq 1..Len(d[u])
    OBVIOUS
  <2>2. IsFiniteSet(1..Len(d[u]))
    BY <2>1, IntervalFinite
  <2> QED
    BY <2>1, <2>2, FS_Subset, FS_CardinalityType
<1>5. \A u \in Burns : f[u] \in Nat
  <2> SUFFICES ASSUME NEW u \in Burns PROVE f[u] \in Nat
    OBVIOUS
  <2>1. Amount[u] \in Nat /\ Cardinality(In(d, u)) \in Nat
    BY <1>1, <1>4
  <2> HIDE DEF In
  <2> QED
    BY <2>1
<1>6. \A u \in Burns \ {t} : g[u] = f[u]
  BY <1>3
<1>7. g[t] = f[t] + a
  <2> DEFINE n == Len(d[t])
  <2>1. /\ n \in Nat /\ Len(e[t]) = n + 1 /\ e[t][n + 1] = doc
        /\ \A i \in 1..n : e[t][i] = d[t][i]
    BY <1>3
  <2>2. CASE doc.block = b /\ doc.clean
    <3>1. In(e, t) = In(d, t) \cup {n + 1} /\ n + 1 \notin In(d, t)
      BY <2>1, <2>2
    <3>2. Cardinality(In(e, t)) = Cardinality(In(d, t)) + 1
      BY <1>4, <3>1, FS_AddElement
    <3>3. Amount[t] \in Nat /\ Cardinality(In(d, t)) \in Nat
      BY <1>1, <1>4
    <3>4. a = Amount[t]
      BY <2>2
    <3>5. f[t] = Amount[t] * Cardinality(In(d, t)) /\ g[t] = Amount[t] * Cardinality(In(e, t))
      OBVIOUS
    <3> HIDE DEF In, f, g, a
    <3>6. \A m, c \in Nat : m * (c + 1) = m * c + m
      OBVIOUS
    <3> QED
      BY <3>2, <3>3, <3>4, <3>5, <3>6
  <2>3. CASE ~ (doc.block = b /\ doc.clean)
    <3>1. In(e, t) = In(d, t)
      BY <2>1, <2>3
    <3>2. a = 0 /\ f[t] \in Nat /\ g[t] = f[t]
      BY <1>5, <2>3, <3>1
    <3> HIDE DEF f, g, a
    <3> QED
      BY <3>2
  <2> QED
    BY <2>2, <2>3
<1>8. a \in Nat
  BY <1>1
<1> HIDE DEF f, g, a
<1>9. SumFunctionOnSet(g, Burns) = SumFunctionOnSet(f, Burns) + a
  BY <1>1, <1>5, <1>6, <1>7, <1>8, SumGrows
<1> QED
  BY <1>2, <1>9 DEF a

\* Nothing is recorded in a block that no document names.
LEMMA BlockSumNone ==
    ASSUME NEW d, IsDocs(d), NEW b \in Int,
           \A t \in Burns : \A i \in 1..Len(d[t]) : d[t][i].block # b
    PROVE  BlockSum(d, b) = 0
<1> DEFINE f == [u \in Burns |-> Amount[u] * Cardinality({i \in 1..Len(d[u]) :
                                                       d[u][i].block = b /\ d[u][i].clean})]
           none == [u \in {} |-> 0]
<1>1. BlockSum(d, b) = SumFunctionOnSet(f, Burns)
  <2>1. DOMAIN f = Burns
    OBVIOUS
  <2> QED
    BY <2>1 DEF BlockSum, SumFunction
<1>2. \A u \in Burns : f[u] = 0
  <2> SUFFICES ASSUME NEW u \in Burns PROVE f[u] = 0
    OBVIOUS
  <2>1. {i \in 1..Len(d[u]) : d[u][i].block = b /\ d[u][i].clean} = {}
    OBVIOUS
  <2>2. f[u] = Amount[u] * Cardinality({})
    BY <2>1
  <2>3. Amount[u] \in Nat
    BY AmountAssumption
  <2> HIDE DEF f
  <2> QED
    BY <2>2, <2>3, FS_EmptySet
<1> HIDE DEF f
<1>3. SumFunctionOnSet(f, Burns) <= SumFunctionOnSet(none, {})
  <2>1. \A u \in Burns : f[u] \in Nat /\ ~ (f[u] > 0)
    BY <1>2
  <2>2. IsFiniteSet({}) /\ \A i \in {} : none[i] \in Nat
    BY FS_EmptySet
  <2> HIDE DEF none
  <2> QED
    BY <2>1, <2>2, BurnsAssumption, SumInjected
<1>4. SumFunctionOnSet(none, {}) = 0
  BY SumEmpty
<1>5. SumFunctionOnSet(f, Burns) \in Nat
  BY <1>2, BurnsAssumption, SumNat
<1> QED
  BY <1>1, <1>3, <1>4, <1>5

\* Entry i is the one that the next amount of block x goes to.
FirstAt(e, i, x) == e[i].block = x /\ \A j \in 1..(i - 1) : e[j].block # x

\* The window counts the amount a of block x, if it is one.
Holds(e, x, a) == a > 0 => \E i \in 1..Len(e) : FirstAt(e, i, x) /\ a <= e[i].sum

\* Blocks come in their order, and each has two entries at most.
Spaced(e) == /\ \A i \in 1..(Len(e) - 1) : e[i].block <= e[i + 1].block
             /\ \A i \in 1..(Len(e) - 2) : e[i].block < e[i + 2].block

\* No entry is of a later block than m, and all but the last are of earlier ones.
UpTo(e, m) == \A i \in 1..Len(e) : e[i].block <= m
Room(e, m) == \A i \in 1..(Len(e) - 1) : e[i].block < m

\* Entries have a block and a sum.
LEMMA EntryIs ==
    ASSUME NEW e \in Seq(Entry)
    PROVE  /\ Len(e) \in Nat
           /\ \A i \in 1..Len(e) : e[i].block \in Int /\ e[i].sum \in Nat
<1>1. Len(e) \in Nat /\ \A i \in 1..Len(e) : e[i] \in Entry
  OBVIOUS
<1> QED
  BY <1>1 DEF Entry

\* incrementOrCreateBlock adds an entry, or to the first entry of the block.
LEMMA IncrementShape ==
    ASSUME NEW e \in Seq(Entry), NEW b \in Int, NEW a \in Nat,
           NEW n, n = IncrementOrCreate(e, b, a)
    PROVE  /\ n \in Seq(Entry)
           /\ \/ /\ Len(n) = Len(e) + 1
                 /\ \A i \in 1..Len(e) : n[i] = e[i] /\ e[i].block # b
                 /\ n[Len(e) + 1] = [block |-> b, sum |-> a]
              \/ /\ Len(n) = Len(e)
                 /\ \E p \in 1..Len(e) :
                       /\ FirstAt(e, p, b)
                       /\ n[p].block = b /\ n[p].sum = e[p].sum + a
                       /\ \A i \in 1..Len(e) : i # p => n[i] = e[i]
<1> DEFINE p == PositionOf(e, b)
           I == {i \in 1..Len(e) : e[i].block = b}
<1>1. n \in Seq(Entry)
  BY IncrementCounts
<1>2. p \in 0..Len(e) /\ Len(e) \in Nat
  BY PositionType
<1>3. p = IF I # {} THEN Min(I) ELSE 0
  BY DEF PositionOf
<1>4. I # {} => Min(I) \in I /\ \A i \in I : Min(I) <= i
  <2>1. I \subseteq Nat
    BY <1>2
  <2> HIDE DEF I
  <2>2. I # {} => \E m \in I : \A i \in I : m <= i
    BY <2>1, LeastNat
  <2> QED
    BY <2>2 DEF Min
<1>5. CASE I = {}
  <2>1. n = Append(e, [block |-> b, sum |-> a])
    BY <1>3, <1>5, IncrementIs
  <2>2. \A i \in 1..Len(e) : e[i].block # b
    BY <1>5
  <2>3. [block |-> b, sum |-> a] \in Entry
    BY DEF Entry
  <2> HIDE DEF p, I
  <2> QED
    BY <1>1, <2>1, <2>2, <2>3
<1>6. CASE I # {}
  <2>1. p \in I /\ \A i \in I : p <= i
    BY <1>3, <1>4, <1>6
  <2>2. p \in 1..Len(e) /\ e[p].block = b /\ p # 0
    BY <1>2, <2>1
  <2>3. \A j \in 1..(p - 1) : e[j].block # b
    <3> SUFFICES ASSUME NEW j \in 1..(p - 1), e[j].block = b PROVE FALSE
      OBVIOUS
    <3>1. j \in I
      BY <1>2, <2>2
    <3> HIDE DEF p, I
    <3> QED
      BY <1>2, <2>1, <2>2, <3>1
  <2>4. n = [e EXCEPT ![p].sum = e[p].sum + a]
    BY <2>2, IncrementIs
  <2> HIDE DEF p, I
  <2>5. \A i \in 1..Len(e) : e[i] \in Entry
    OBVIOUS
  <2>6. Len(n) = Len(e)
    BY <2>2, <2>4
  <2>7. n[p] = [e[p] EXCEPT !.sum = e[p].sum + a]
    BY <2>2, <2>4
  <2>8. n[p].block = b /\ n[p].sum = e[p].sum + a
    BY <2>2, <2>5, <2>7 DEF Entry
  <2>9. \A i \in 1..Len(e) : i # p => n[i] = e[i]
    BY <2>2, <2>4
  <2> QED
    BY <1>1, <2>2, <2>3, <2>6, <2>8, <2>9 DEF FirstAt
<1> QED
  BY <1>5, <1>6

\* Its amount comes on top of what the window counts for that block, and what it
\* counts for the others stays.
LEMMA IncrementHolds ==
    ASSUME NEW e \in Seq(Entry), NEW b \in Int, NEW a \in Nat,
           NEW x \in Int, NEW m \in Nat, Holds(e, x, m)
    PROVE  Holds(IncrementOrCreate(e, b, a), x, IF x = b THEN m + a ELSE m)
<1> DEFINE n == IncrementOrCreate(e, b, a)
           w == IF x = b THEN m + a ELSE m
<1>1. /\ n \in Seq(Entry)
      /\ \/ /\ Len(n) = Len(e) + 1
            /\ \A i \in 1..Len(e) : n[i] = e[i] /\ e[i].block # b
            /\ n[Len(e) + 1] = [block |-> b, sum |-> a]
         \/ /\ Len(n) = Len(e)
            /\ \E p \in 1..Len(e) :
                  /\ FirstAt(e, p, b)
                  /\ n[p].block = b /\ n[p].sum = e[p].sum + a
                  /\ \A i \in 1..Len(e) : i # p => n[i] = e[i]
  BY IncrementShape
<1> HIDE DEF n
<1>2. /\ Len(e) \in Nat /\ Len(n) \in Nat
      /\ \A i \in 1..Len(e) : e[i].block \in Int /\ e[i].sum \in Nat
  BY <1>1, EntryIs
<1> SUFFICES ASSUME w > 0 PROVE \E i \in 1..Len(n) : FirstAt(n, i, x) /\ w <= n[i].sum
  BY DEF Holds, n
<1>3. CASE /\ Len(n) = Len(e) + 1
           /\ \A i \in 1..Len(e) : n[i] = e[i] /\ e[i].block # b
           /\ n[Len(e) + 1] = [block |-> b, sum |-> a]
  <2>1. CASE x = b
    <3>1. ~ (m > 0)
      BY <1>3, <2>1 DEF Holds, FirstAt
    <3>2. w = a /\ Len(e) + 1 \in 1..Len(n) /\ (Len(e) + 1) - 1 = Len(e)
      BY <1>2, <1>3, <2>1, <3>1
    <3>3. FirstAt(n, Len(e) + 1, x) /\ w <= n[Len(e) + 1].sum
      BY <1>3, <2>1, <3>2 DEF FirstAt
    <3> QED
      BY <3>2, <3>3
  <2>2. CASE x # b
    <3>1. PICK i \in 1..Len(e) : FirstAt(e, i, x) /\ m <= e[i].sum
      BY <2>2 DEF Holds
    <3>2. i \in 1..Len(n) /\ \A j \in 1..(i - 1) : j \in 1..Len(e)
      BY <1>2, <1>3
    <3>3. FirstAt(n, i, x) /\ w <= n[i].sum
      BY <1>3, <2>2, <3>1, <3>2 DEF FirstAt
    <3> QED
      BY <3>2, <3>3
  <2> QED
    BY <2>1, <2>2
<1>4. ASSUME Len(n) = Len(e), NEW p \in 1..Len(e), FirstAt(e, p, b),
             n[p].block = b, n[p].sum = e[p].sum + a,
             \A i \in 1..Len(e) : i # p => n[i] = e[i]
      PROVE  \E i \in 1..Len(n) : FirstAt(n, i, x) /\ w <= n[i].sum
  <2>1. \A i \in 1..Len(e) : n[i].block = e[i].block
    BY <1>4 DEF FirstAt
  <2>2. ASSUME NEW i \in 1..Len(e), NEW y, FirstAt(e, i, y)
        PROVE  FirstAt(n, i, y)
    <3>1. \A j \in 1..(i - 1) : j \in 1..Len(e)
      BY <1>2
    <3> QED
      BY <2>1, <2>2, <3>1 DEF FirstAt
  <2>3. CASE x = b
    <3>1. m <= e[p].sum
      <4>1. CASE m > 0
        <5>1. PICK i \in 1..Len(e) : FirstAt(e, i, b) /\ m <= e[i].sum
          BY <2>3, <4>1 DEF Holds
        <5>2. ~ (i < p) /\ ~ (p < i)
          BY <1>2, <1>4, <5>1 DEF FirstAt
        <5>3. i = p
          BY <1>2, <5>2
        <5> QED
          BY <5>1, <5>3
      <4>2. CASE ~ (m > 0)
        BY <1>2, <4>2
      <4> QED
        BY <4>1, <4>2
    <3>2. w <= n[p].sum
      BY <1>2, <1>4, <2>3, <3>1
    <3> QED
      BY <1>4, <2>2, <2>3, <3>2
  <2>4. CASE x # b
    <3>1. PICK i \in 1..Len(e) : FirstAt(e, i, x) /\ m <= e[i].sum
      BY <2>4 DEF Holds
    <3>2. i # p
      BY <1>4, <2>4, <3>1 DEF FirstAt
    <3>3. w <= n[i].sum
      BY <1>4, <2>4, <3>1, <3>2
    <3> QED
      BY <1>4, <2>2, <3>1, <3>3
  <2> QED
    BY <2>3, <2>4
<1> QED
  BY <1>1, <1>3, <1>4

\* Two entries on, the block is a later one: among 2*j entries there are j blocks.
LEMMA SpacedSteps ==
    ASSUME NEW e \in Seq(Entry), Spaced(e), NEW j \in Nat, 1 + 2 * j <= Len(e)
    PROVE  e[1].block + j <= e[1 + 2 * j].block
<1> DEFINE Bad == {i \in Nat : 1 + 2 * i <= Len(e) /\ ~ (e[1].block + i <= e[1 + 2 * i].block)}
<1>1. SUFFICES ASSUME Bad # {} PROVE FALSE
  OBVIOUS
<1>2. PICK i \in Bad : \A h \in Bad : i <= h
  <2>1. Bad \subseteq Nat
    OBVIOUS
  <2> HIDE DEF Bad
  <2> QED
    BY <1>1, <2>1, LeastNat
<1>3. /\ i \in Nat /\ Len(e) \in Nat /\ 1 + 2 * i <= Len(e)
      /\ ~ (e[1].block + i <= e[1 + 2 * i].block)
      /\ \A h \in 1..Len(e) : e[h].block \in Int
  BY EntryIs
<1>4. i # 0
  <2>1. ASSUME i = 0 PROVE FALSE
    <3>1. 1 + 2 * i = 1 /\ e[1].block \in Int
      BY <1>3, <2>1
    <3> QED
      BY <1>3, <2>1, <3>1
  <2> QED
    BY <2>1
<1> DEFINE h == i - 1
<1>5. /\ h \in Nat /\ i = h + 1 /\ 1 + 2 * h \in 1..(Len(e) - 2)
      /\ 1 + 2 * h + 2 = 1 + 2 * i
  BY <1>3, <1>4
<1>6. h \notin Bad
  BY <1>2, <1>5
<1> HIDE DEF h
<1>7. e[1].block + h <= e[1 + 2 * h].block
  BY <1>3, <1>5, <1>6
<1> HIDE DEF Bad
<1>8. e[1 + 2 * h].block < e[1 + 2 * i].block
  <2>1. e[1 + 2 * h].block < e[1 + 2 * h + 2].block
    BY <1>5 DEF Spaced
  <2> QED
    BY <1>5, <2>1
<1>9. e[1].block \in Int /\ e[1 + 2 * h].block \in Int /\ e[1 + 2 * i].block \in Int
  BY <1>3, <1>5
<1> QED
  BY <1>3, <1>5, <1>7, <1>8, <1>9

\* addBlockRangeStateEntry, entry by entry.
LEMMA AddEntryShape ==
    ASSUME NEW e \in Seq(Entry), NEW b \in Int, NEW n, n = AddEntry(e, b, WindowSize)
    PROVE  /\ n \in Seq(Entry)
           /\ IF Len(e) < WindowSize
              THEN /\ Len(n) = Len(e) + 1
                   /\ \A i \in 1..Len(e) : n[i] = e[i]
                   /\ n[Len(e) + 1].block = b
              ELSE /\ Len(n) = Len(e)
                   /\ \A i \in 1..(Len(e) - 1) : n[i] = e[i + 1]
                   /\ n[Len(e)].block = b
<1> DEFINE new == [block |-> b, sum |-> 0]
           longer == Append(e, new)
<1>1. new \in Entry /\ new.block = b /\ WindowSize \in Nat \ {0}
  BY PolicyAssumption DEF Entry
<1>2. n = IF Len(longer) > WindowSize THEN Tail(longer) ELSE longer
  BY DEF AddEntry
<1> HIDE DEF new
<1>3. /\ longer \in Seq(Entry) /\ Len(longer) = Len(e) + 1 /\ Len(e) \in Nat
      /\ \A i \in 1..Len(e) : longer[i] = e[i]
      /\ longer[Len(e) + 1] = new
  BY <1>1
<1> HIDE DEF longer
<1>4. CASE Len(e) < WindowSize
  BY <1>1, <1>2, <1>3, <1>4
<1>5. CASE ~ (Len(e) < WindowSize)
  <2>1. n = Tail(longer) /\ Len(e) \in 1..Len(e) /\ longer # <<>>
    BY <1>1, <1>2, <1>3, <1>5
  <2>2. n \in Seq(Entry) /\ Len(n) = Len(e) /\ \A i \in 1..Len(e) : n[i] = longer[i + 1]
    BY <1>3, <2>1
  <2>3. n[Len(e)].block = b
    BY <1>1, <1>3, <2>1, <2>2
  <2>4. \A i \in 1..(Len(e) - 1) : n[i] = e[i + 1]
    <3> SUFFICES ASSUME NEW i \in 1..(Len(e) - 1) PROVE n[i] = e[i + 1]
      OBVIOUS
    <3>1. i \in 1..Len(e) /\ i + 1 \in 1..Len(e)
      BY <1>3
    <3> QED
      BY <1>3, <2>2, <3>1
  <2> QED
    BY <1>5, <2>2, <2>3, <2>4
<1> QED
  BY <1>4, <1>5

\* The entry that leaves for a new block is of one that half of the window has
\* passed: two entries a block, and as many entries as the window has blocks.
LEMMA AddEntryHolds ==
    ASSUME NEW e \in Seq(Entry), NEW b \in Int, Spaced(e), Room(e, b), Half # 0,
           NEW x \in Int, b - Half < x, NEW m \in Nat, Holds(e, x, m)
    PROVE  Holds(AddEntry(e, b, WindowSize), x, m)
<1> DEFINE n == AddEntry(e, b, WindowSize)
<1>1. /\ n \in Seq(Entry)
      /\ IF Len(e) < WindowSize
         THEN /\ Len(n) = Len(e) + 1
              /\ \A i \in 1..Len(e) : n[i] = e[i]
         ELSE /\ Len(n) = Len(e)
              /\ \A i \in 1..(Len(e) - 1) : n[i] = e[i + 1]
  BY AddEntryShape
<1> HIDE DEF n
<1>2. /\ Len(e) \in Nat /\ \A i \in 1..Len(e) : e[i].block \in Int /\ e[i].sum \in Nat
  BY EntryIs
<1> SUFFICES ASSUME m > 0 PROVE \E i \in 1..Len(n) : FirstAt(n, i, x) /\ m <= n[i].sum
  BY DEF Holds, n
<1>3. PICK i \in 1..Len(e) : FirstAt(e, i, x) /\ m <= e[i].sum
  BY DEF Holds
<1>4. CASE Len(e) < WindowSize
  <2>1. i \in 1..Len(n) /\ \A j \in 1..(i - 1) : j \in 1..Len(e)
    BY <1>1, <1>2, <1>4
  <2>2. FirstAt(n, i, x) /\ m <= n[i].sum
    BY <1>1, <1>3, <1>4, <2>1 DEF FirstAt
  <2> QED
    BY <2>1, <2>2
<1>5. CASE ~ (Len(e) < WindowSize)
  <2>1. i # 1
    <3> DEFINE j == Half - 1
               last == 1 + 2 * j
    <3>1. /\ j \in Nat /\ last \in Nat /\ last <= Len(e) - 1 /\ last >= 1 /\ Half = j + 1
      BY <1>2, <1>5, HalfIs
    <3>2. e[1].block + j <= e[last].block
      <4>1. last <= Len(e)
        BY <1>2, <3>1
      <4> HIDE DEF j
      <4> QED
        BY <3>1, <4>1, SpacedSteps
    <3> HIDE DEF j, last
    <3>3. e[last].block < b /\ last \in 1..Len(e)
      BY <1>2, <3>1 DEF Room
    <3>4. e[1].block <= b - Half
      <4>1. e[1].block \in Int /\ e[last].block \in Int
        BY <1>2, <3>1, <3>3
      <4> QED
        BY <3>1, <3>2, <3>3, <4>1
    <3>5. 1 \in 1..Len(e)
      BY <1>2
    <3> QED
      BY <1>2, <1>3, <3>4, <3>5, HalfIs DEF FirstAt
  <2> DEFINE h == i - 1
  <2>2. h \in 1..(Len(e) - 1) /\ h \in 1..Len(n) /\ h + 1 = i
    BY <1>1, <1>2, <1>5, <2>1
  <2>3. n[h] = e[i]
    BY <1>1, <1>5, <2>2
  <2>4. \A j \in 1..(h - 1) : n[j] = e[j + 1] /\ j + 1 \in 1..(i - 1)
    BY <1>1, <1>2, <1>5, <2>2
  <2>5. FirstAt(n, h, x) /\ m <= n[h].sum
    BY <1>3, <2>3, <2>4 DEF FirstAt
  <2> QED
    BY <2>2, <2>5
<1> QED
  BY <1>4, <1>5

\* The new entry comes in order.
LEMMA AddEntrySpaced ==
    ASSUME NEW e \in Seq(Entry), NEW b \in Int, Spaced(e), UpTo(e, b), Room(e, b)
    PROVE  Spaced(AddEntry(e, b, WindowSize)) /\ UpTo(AddEntry(e, b, WindowSize), b)
<1> DEFINE n == AddEntry(e, b, WindowSize)
<1>1. IF Len(e) < WindowSize
      THEN /\ Len(n) = Len(e) + 1
           /\ \A i \in 1..Len(e) : n[i] = e[i]
           /\ n[Len(e) + 1].block = b
      ELSE /\ Len(n) = Len(e)
           /\ \A i \in 1..(Len(e) - 1) : n[i] = e[i + 1]
           /\ n[Len(e)].block = b
  BY AddEntryShape
<1> HIDE DEF n
<1>2. /\ Len(e) \in Nat /\ \A i \in 1..Len(e) : e[i].block \in Int
      /\ \A i \in 1..Len(e) : e[i].block <= b
      /\ \A i \in 1..(Len(e) - 1) : e[i].block < b
      /\ WindowSize \in Nat \ {0}
  BY EntryIs, PolicyAssumption DEF UpTo, Room
<1> SUFFICES Spaced(n) /\ UpTo(n, b)
  BY DEF n
<1>3. CASE Len(e) < WindowSize
  <2>1. ASSUME NEW i \in 1..(Len(n) - 1) PROVE n[i].block <= n[i + 1].block
    <3>1. CASE i = Len(e)
      BY <1>1, <1>2, <1>3, <3>1
    <3>2. CASE i # Len(e)
      <4>1. i \in 1..Len(e) /\ i + 1 \in 1..Len(e) /\ i \in 1..(Len(e) - 1)
        BY <1>1, <1>2, <1>3, <3>2
      <4> QED
        BY <1>1, <1>3, <4>1 DEF Spaced
    <3> QED
      BY <3>1, <3>2
  <2>2. ASSUME NEW i \in 1..(Len(n) - 2) PROVE n[i].block < n[i + 2].block
    <3>1. CASE i = Len(e) - 1
      BY <1>1, <1>2, <1>3, <3>1
    <3>2. CASE i # Len(e) - 1
      <4>1. i \in 1..Len(e) /\ i + 2 \in 1..Len(e) /\ i \in 1..(Len(e) - 2)
        BY <1>1, <1>2, <1>3, <3>2
      <4> QED
        BY <1>1, <1>3, <4>1 DEF Spaced
    <3> QED
      BY <3>1, <3>2
  <2>3. \A i \in 1..Len(n) : n[i].block <= b
    BY <1>1, <1>2, <1>3
  <2> QED
    BY <2>1, <2>2, <2>3 DEF Spaced, UpTo
<1>4. CASE ~ (Len(e) < WindowSize)
  <2>1. ASSUME NEW i \in 1..(Len(n) - 1) PROVE n[i].block <= n[i + 1].block
    <3>1. i \in 1..(Len(e) - 1) /\ i + 1 \in 1..Len(e) /\ n[i] = e[i + 1]
      BY <1>1, <1>2, <1>4
    <3>2. CASE i + 1 = Len(e)
      BY <1>1, <1>2, <1>4, <3>1, <3>2
    <3>3. CASE i + 1 # Len(e)
      <4>1. i + 1 \in 1..(Len(e) - 1) /\ n[i + 1] = e[i + 1 + 1]
        BY <1>1, <1>2, <1>4, <3>1, <3>3
      <4> QED
        BY <3>1, <4>1 DEF Spaced
    <3> QED
      BY <3>2, <3>3
  <2>2. ASSUME NEW i \in 1..(Len(n) - 2) PROVE n[i].block < n[i + 2].block
    <3>1. i \in 1..(Len(e) - 1) /\ i + 1 \in 1..(Len(e) - 1) /\ n[i] = e[i + 1]
      BY <1>1, <1>2, <1>4
    <3>2. CASE i + 2 = Len(e)
      BY <1>1, <1>2, <1>4, <3>1, <3>2
    <3>3. CASE i + 2 # Len(e)
      <4>1. i + 1 \in 1..(Len(e) - 2) /\ i + 2 \in 1..(Len(e) - 1) /\ n[i + 2] = e[i + 1 + 2]
        BY <1>1, <1>2, <1>4, <3>1, <3>3
      <4> QED
        BY <3>1, <4>1 DEF Spaced
    <3> QED
      BY <3>2, <3>3
  <2>3. ASSUME NEW i \in 1..Len(n) PROVE n[i].block <= b
    <3>1. CASE i = Len(e)
      BY <1>1, <1>2, <1>4, <3>1
    <3>2. CASE i # Len(e)
      BY <1>1, <1>2, <1>4, <3>2
    <3> QED
      BY <3>1, <3>2
  <2> QED
    BY <2>1, <2>2, <2>3 DEF Spaced, UpTo
<1> QED
  BY <1>3, <1>4

\* No document is of a later block than m.
DocsUpTo(d, m) == \A t \in Burns : \A i \in 1..Len(d[t]) : d[t][i].block <= m

\* Less than what the window counts, it counts.
LEMMA HoldsLess ==
    ASSUME NEW e \in Seq(Entry), NEW x \in Int, NEW m \in Nat, NEW l \in Nat, l <= m,
           Holds(e, x, m)
    PROVE  Holds(e, x, l)
<1> SUFFICES ASSUME l > 0 PROVE \E i \in 1..Len(e) : FirstAt(e, i, x) /\ l <= e[i].sum
  BY DEF Holds
<1>1. \A i \in 1..Len(e) : e[i].sum \in Nat
  BY EntryIs
<1>2. PICK i \in 1..Len(e) : FirstAt(e, i, x) /\ m <= e[i].sum
  BY DEF Holds
<1>3. l <= e[i].sum
  BY <1>1, <1>2
<1> QED
  BY <1>2, <1>3

\* Whoever comes to a window without later entries finds that its last is the only
\* one of the same block.
Fits(e, m) == UpTo(e, m) => Room(e, m)

\* There is room for a later block.
LEMMA LaterFits ==
    ASSUME NEW e \in Seq(Entry), NEW b \in Int, NEW m \in Int, UpTo(e, b), b < m
    PROVE  Room(e, m) /\ UpTo(e, m)
<1>1. Len(e) \in Nat /\ \A i \in 1..Len(e) : e[i].block \in Int
  BY EntryIs
<1> QED
  BY <1>1 DEF UpTo, Room

\* incrementOrCreateBlock keeps the order of the entries if the block has one of
\* them, or is not before any of them.
LEMMA IncrementFits ==
    ASSUME NEW e \in Seq(Entry), NEW b \in Int, NEW a \in Nat,
           UpTo(e, b) \/ \E i \in 1..Len(e) : e[i].block = b
    PROVE  /\ Spaced(e) => Spaced(IncrementOrCreate(e, b, a))
           /\ \A m \in Int : Fits(e, m) => Fits(IncrementOrCreate(e, b, a), m)
<1> DEFINE n == IncrementOrCreate(e, b, a)
<1>1. /\ n \in Seq(Entry)
      /\ \/ /\ Len(n) = Len(e) + 1
            /\ \A i \in 1..Len(e) : n[i] = e[i] /\ e[i].block # b
            /\ n[Len(e) + 1] = [block |-> b, sum |-> a]
         \/ /\ Len(n) = Len(e)
            /\ \E p \in 1..Len(e) :
                  /\ FirstAt(e, p, b)
                  /\ n[p].block = b /\ n[p].sum = e[p].sum + a
                  /\ \A i \in 1..Len(e) : i # p => n[i] = e[i]
  BY IncrementShape
<1> HIDE DEF n
<1>2. /\ Len(e) \in Nat /\ Len(n) \in Nat
      /\ \A i \in 1..Len(e) : e[i].block \in Int
  BY <1>1, EntryIs
<1> SUFFICES /\ Spaced(e) => Spaced(n)
             /\ \A m \in Int : Fits(e, m) => Fits(n, m)
  BY DEF n
<1>3. CASE /\ Len(n) = Len(e) + 1
           /\ \A i \in 1..Len(e) : n[i] = e[i] /\ e[i].block # b
           /\ n[Len(e) + 1] = [block |-> b, sum |-> a]
  <2>1. n[Len(e) + 1].block = b
    BY <1>3
  <2>2. \A i \in 1..Len(e) : n[i].block < b
    BY <1>2, <1>3 DEF UpTo
  <2>3. ASSUME Spaced(e) PROVE Spaced(n)
    <3>1. ASSUME NEW i \in 1..(Len(n) - 1) PROVE n[i].block <= n[i + 1].block
      <4>1. CASE i = Len(e)
        BY <1>2, <1>3, <2>1, <2>2, <2>3, <4>1
      <4>2. CASE i # Len(e)
        <5>1. i \in 1..Len(e) /\ i + 1 \in 1..Len(e) /\ i \in 1..(Len(e) - 1)
          BY <1>2, <1>3, <3>1, <4>2
        <5> QED
          BY <1>3, <2>3, <5>1 DEF Spaced
      <4> QED
        BY <4>1, <4>2
    <3>2. ASSUME NEW i \in 1..(Len(n) - 2) PROVE n[i].block < n[i + 2].block
      <4>1. CASE i = Len(e) - 1
        <5>1. i \in 1..Len(e) /\ i + 2 = Len(e) + 1
          BY <1>2, <1>3, <3>2, <4>1
        <5> QED
          BY <2>1, <2>2, <2>3, <5>1
      <4>2. CASE i # Len(e) - 1
        <5>1. i \in 1..Len(e) /\ i + 2 \in 1..Len(e) /\ i \in 1..(Len(e) - 2)
          BY <1>2, <1>3, <3>2, <4>2
        <5> QED
          BY <1>3, <2>3, <5>1 DEF Spaced
      <4> QED
        BY <4>1, <4>2
    <3> QED
      BY <3>1, <3>2 DEF Spaced
  <2>4. ASSUME NEW m \in Int, UpTo(n, m) PROVE Room(n, m)
    <3>1. Len(e) + 1 \in 1..Len(n)
      BY <1>2, <1>3
    <3>2. b <= m
      BY <2>1, <2>4, <3>1 DEF UpTo
    <3> QED
      BY <1>2, <1>3, <2>2, <3>2 DEF Room
  <2> QED
    BY <2>3, <2>4 DEF Fits
<1>4. CASE Len(n) = Len(e) /\ \A i \in 1..Len(e) : n[i].block = e[i].block
  <2>1. Spaced(e) => Spaced(n)
    BY <1>2, <1>4 DEF Spaced
  <2>2. \A m \in Int : UpTo(n, m) => UpTo(e, m)
    BY <1>4 DEF UpTo
  <2>3. \A m \in Int : Room(e, m) => Room(n, m)
    BY <1>4 DEF Room
  <2> QED
    BY <2>1, <2>2, <2>3 DEF Fits
<1> QED
  BY <1>1, <1>3, <1>4 DEF FirstAt

\* No entry comes after the later of the last entry and the block.
LEMMA IncrementUpTo ==
    ASSUME NEW e \in Seq(Entry), NEW b \in Int, NEW a \in Nat, NEW m \in Int, b <= m, UpTo(e, m)
    PROVE  UpTo(IncrementOrCreate(e, b, a), m)
<1> DEFINE n == IncrementOrCreate(e, b, a)
<1>1. /\ n \in Seq(Entry)
      /\ \/ /\ Len(n) = Len(e) + 1
            /\ \A i \in 1..Len(e) : n[i] = e[i] /\ e[i].block # b
            /\ n[Len(e) + 1] = [block |-> b, sum |-> a]
         \/ /\ Len(n) = Len(e)
            /\ \E p \in 1..Len(e) :
                  /\ FirstAt(e, p, b)
                  /\ n[p].block = b /\ n[p].sum = e[p].sum + a
                  /\ \A i \in 1..Len(e) : i # p => n[i] = e[i]
  BY IncrementShape
<1> HIDE DEF n
<1>2. Len(e) \in Nat /\ Len(n) \in Nat
  BY <1>1, EntryIs
<1> SUFFICES ASSUME NEW i \in 1..Len(n) PROVE n[i].block <= m
  BY DEF UpTo, n
<1> QED
  BY <1>1, <1>2 DEF UpTo

\* The new entry of a block leaves room for every other one.
LEMMA AddEntryFits ==
    ASSUME NEW e \in Seq(Entry), NEW b \in Int, Spaced(e), UpTo(e, b), Room(e, b),
           NEW m \in Int, m # b
    PROVE  Fits(AddEntry(e, b, WindowSize), m)
<1> DEFINE n == AddEntry(e, b, WindowSize)
<1>1. UpTo(n, b)
  BY AddEntrySpaced
<1>2. /\ n \in Seq(Entry) /\ Len(n) \in Nat
      /\ n[Len(n)].block = b /\ Len(n) \in 1..Len(n)
  <2>1. /\ n \in Seq(Entry)
        /\ IF Len(e) < WindowSize THEN Len(n) = Len(e) + 1 /\ n[Len(e) + 1].block = b
                                  ELSE Len(n) = Len(e) /\ n[Len(e)].block = b
    BY AddEntryShape
  <2>2. Len(e) \in Nat /\ WindowSize \in Nat \ {0}
    BY EntryIs, PolicyAssumption
  <2> HIDE DEF n
  <2> QED
    BY <2>1, <2>2
<1> HIDE DEF n
<1>3. ASSUME UpTo(n, m) PROVE Room(n, m)
  <2>1. b <= m
    BY <1>2, <1>3 DEF UpTo
  <2>2. b < m
    BY <2>1
  <2> QED
    BY <1>1, <1>2, <2>2, LaterFits
<1> QED
  BY <1>3 DEF Fits, n

\* A window that was rebuilt from the records is in order, and counts those of its
\* blocks.
LEMMA BlockSumsHold ==
    ASSUME NEW d \in [Burns -> Seq(Doc)], NEW b \in Int
    PROVE  LET n == BlockSums(d, b, WindowSize)
           IN  /\ n \in Seq(Entry) /\ Spaced(n) /\ UpTo(n, b)
               /\ \A m \in Int : Fits(n, m)
               /\ \A x \in Int : b - WindowSize < x /\ (b < x => BlockSum(d, x) = 0)
                                    => Holds(n, x, BlockSum(d, x))
<1> DEFINE n == BlockSums(d, b, WindowSize)
<1>1. IsDocs(d) /\ WindowSize \in Nat \ {0}
  BY PolicyAssumption DEF IsDocs
<1>2. n \in Seq(Entry)
  BY <1>1, BlockSumsType DEF IsDocs
<1>3. /\ Len(n) = WindowSize
      /\ \A i \in 1..WindowSize : /\ n[i].block = b - WindowSize + i
                                  /\ n[i].sum = BlockSum(d, b - WindowSize + i)
  BY <1>1 DEF BlockSums
<1> HIDE DEF n
<1>4. Spaced(n)
  <2>1. \A i \in 1..(Len(n) - 1) : n[i].block <= n[i + 1].block
    <3> SUFFICES ASSUME NEW i \in 1..(Len(n) - 1) PROVE n[i].block <= n[i + 1].block
      OBVIOUS
    <3>1. n[i].block = b - WindowSize + i /\ n[i + 1].block = b - WindowSize + (i + 1)
      BY <1>1, <1>3
    <3> QED
      BY <1>1, <3>1
  <2>2. \A i \in 1..(Len(n) - 2) : n[i].block < n[i + 2].block
    <3> SUFFICES ASSUME NEW i \in 1..(Len(n) - 2) PROVE n[i].block < n[i + 2].block
      OBVIOUS
    <3>1. n[i].block = b - WindowSize + i /\ n[i + 2].block = b - WindowSize + (i + 2)
      BY <1>1, <1>3
    <3> QED
      BY <1>1, <3>1
  <2> QED
    BY <2>1, <2>2 DEF Spaced
<1>5. UpTo(n, b)
  BY <1>1, <1>3 DEF UpTo
<1>6. ASSUME NEW m \in Int, UpTo(n, m) PROVE Room(n, m)
  <2>1. n[WindowSize].block = b /\ WindowSize \in 1..Len(n)
    BY <1>1, <1>3
  <2>2. b <= m
    BY <1>6, <2>1 DEF UpTo
  <2> QED
    BY <1>1, <1>3, <2>2 DEF Room
<1>7. ASSUME NEW x \in Int, b - WindowSize < x, b < x => BlockSum(d, x) = 0
      PROVE  Holds(n, x, BlockSum(d, x))
  <2>1. CASE b < x
    BY <1>7, <2>1 DEF Holds
  <2>2. CASE ~ (b < x)
    <3> DEFINE i == x - b + WindowSize
    <3>1. i \in 1..WindowSize /\ b - WindowSize + i = x
      BY <1>1, <1>7, <2>2
    <3>2. n[i].block = x /\ n[i].sum = BlockSum(d, x)
      BY <1>3, <3>1
    <3> HIDE DEF i
    <3>3. \A j \in 1..(i - 1) : n[j].block # x
      <4> SUFFICES ASSUME NEW j \in 1..(i - 1) PROVE n[j].block # x
        OBVIOUS
      <4>1. j \in 1..WindowSize /\ n[j].block = b - WindowSize + j /\ j < i
        BY <1>1, <1>3, <3>1
      <4> QED
        BY <1>1, <3>1, <4>1
    <3>4. BlockSum(d, x) \in Nat
      BY <1>1, BlockSumNat
    <3>5. FirstAt(n, i, x) /\ BlockSum(d, x) <= n[i].sum /\ i \in 1..Len(n)
      BY <1>3, <3>1, <3>2, <3>3, <3>4 DEF FirstAt
    <3> QED
      BY <3>5 DEF Holds
  <2> QED
    BY <2>1, <2>2
<1> QED
  BY <1>2, <1>4, <1>5, <1>6, <1>7 DEF n, Fits

\* An empty window is in order.
LEMMA EmptyWindow ==
    ASSUME NEW e, e = <<>>
    PROVE  Spaced(e) /\ \A m \in Int : UpTo(e, m) /\ Fits(e, m)
<1>1. Len(e) = 0
  OBVIOUS
<1> QED
  BY <1>1 DEF Spaced, UpTo, Fits, Room

-----------------------------------------------------------------------------
(***************************************************************************)
(* Amounts counted: those of the records, and those that the calls under   *)
(* way are about to record.                                                *)
(***************************************************************************)

\* Calls that are about to record the burn, in this block and without risks.
InDoubt(q, t, b) == {k \in Tasks : /\ q[k].pc = "save" /\ q[k].clean
                                   /\ q[k].log.tx = t /\ q[k].log.block = b}

\* The amounts that they are about to record in a block.
PendingSum(q, b) ==
    SumFunctionOnSet([t \in Burns |-> Amount[t] * Cardinality(InDoubt(q, t, b))], Burns)

\* What is recorded of a block, with what is pending.
CountedBy(d, q) == [x \in Int |-> BlockSum(d, x) + PendingSum(q, x)]

\* Sum over half a window that begins with block c.
OverHalf(f, c) == SumFunctionOnSet([i \in 1..Half |-> f[c + i - 1]], 1..Half)

\* The summands are naturals.
LEMMA OverHalfSummands ==
    ASSUME NEW f, \A x \in Int : f[x] \in Nat, NEW c \in Int
    PROVE  /\ IsFiniteSet(1..Half) /\ Half \in Nat
           /\ \A i \in 1..Half : c + i - 1 \in Int /\ f[c + i - 1] \in Nat
<1>1. IsFiniteSet(1..Half) /\ Half \in Nat
  BY HalfIs, IntervalFinite
<1>2. \A i \in 1..Half : c + i - 1 \in Int
  BY <1>1
<1> QED
  BY <1>1, <1>2

\* And so is the sum.
LEMMA OverHalfNat ==
    ASSUME NEW f, \A x \in Int : f[x] \in Nat, NEW c \in Int
    PROVE  OverHalf(f, c) \in Nat
<1> DEFINE h == [i \in 1..Half |-> f[c + i - 1]]
<1>1. IsFiniteSet(1..Half) /\ \A i \in 1..Half : h[i] \in Nat
  BY OverHalfSummands
<1> HIDE DEF h
<1>2. SumFunctionOnSet(h, 1..Half) \in Nat
  BY <1>1, SumNat
<1> QED
  BY <1>2 DEF OverHalf, h

\* Less in every block is less over half a window.
LEMMA OverHalfLess ==
    ASSUME NEW f, \A x \in Int : f[x] \in Nat, NEW g, \A x \in Int : g[x] \in Nat,
           \A x \in Int : f[x] <= g[x], NEW c \in Int
    PROVE  OverHalf(f, c) <= OverHalf(g, c)
<1> DEFINE h == [i \in 1..Half |-> f[c + i - 1]]
           l == [i \in 1..Half |-> g[c + i - 1]]
           p == [i \in 1..Half |-> i]
<1>1. /\ IsFiniteSet(1..Half)
      /\ \A i \in 1..Half : h[i] \in Nat /\ l[i] \in Nat /\ h[i] <= l[i] /\ p[i] = i
  BY OverHalfSummands
<1> HIDE DEF h, l, p
<1>2. \A i \in 1..Half : h[i] > 0 => p[i] \in 1..Half /\ h[i] <= l[p[i]]
  BY <1>1
<1>3. \A i, j \in 1..Half : h[i] > 0 /\ h[j] > 0 /\ p[i] = p[j] => i = j
  BY <1>1
<1>4. SumFunctionOnSet(h, 1..Half) <= SumFunctionOnSet(l, 1..Half)
  BY <1>1, <1>2, <1>3, SumInjected
<1> QED
  BY <1>4 DEF OverHalf, h, l

\* What is added to one block is added to the half windows that it is in.
LEMMA OverHalfAdds ==
    ASSUME NEW f, \A x \in Int : f[x] \in Nat, NEW g, NEW m \in Int, NEW a \in Nat,
           \A x \in Int : g[x] = f[x] + (IF x = m THEN a ELSE 0), NEW c \in Int
    PROVE  OverHalf(g, c) = OverHalf(f, c) + (IF c <= m /\ m < c + Half THEN a ELSE 0)
<1> DEFINE h == [i \in 1..Half |-> f[c + i - 1]]
           l == [i \in 1..Half |-> g[c + i - 1]]
<1>1. /\ IsFiniteSet(1..Half) /\ Half \in Nat
      /\ \A i \in 1..Half : c + i - 1 \in Int /\ h[i] \in Nat
  BY OverHalfSummands
<1>2. \A i \in 1..Half : l[i] = h[i] + (IF c + i - 1 = m THEN a ELSE 0)
  BY <1>1
<1>3. OverHalf(f, c) = SumFunctionOnSet(h, 1..Half) /\ OverHalf(g, c) = SumFunctionOnSet(l, 1..Half)
  BY DEF OverHalf
<1> HIDE DEF h, l
<1>4. CASE c <= m /\ m < c + Half
  <2> DEFINE j == m - c + 1
             S == 1..Half
  <2>1. j \in S /\ c + j - 1 = m
    BY <1>1, <1>4
  <2>2. l[j] = h[j] + a /\ \A i \in S : h[i] \in Nat
    BY <1>1, <1>2, <2>1
  <2>3. ASSUME NEW i \in S \ {j} PROVE l[i] = h[i]
    <3>1. c + i - 1 # m
      BY <1>1, <1>4
    <3> QED
      BY <1>1, <1>2, <3>1
  <2> HIDE DEF j, S
  <2>4. IsFiniteSet(S)
    BY <1>1 DEF S
  <2>5. SumFunctionOnSet(l, S) = SumFunctionOnSet(h, S) + a
    BY <2>1, <2>2, <2>3, <2>4, SumGrows
  <2> QED
    BY <1>3, <1>4, <2>5 DEF S
<1>5. CASE ~ (c <= m /\ m < c + Half)
  <2>1. ASSUME NEW i \in 1..Half PROVE l[i] = h[i]
    <3>1. c + i - 1 # m
      BY <1>1, <1>5
    <3> QED
      BY <1>1, <1>2, <3>1
  <2>2. SumFunctionOnSet(l, 1..Half) = SumFunctionOnSet(h, 1..Half)
    BY <1>1, <2>1, SumSame
  <2>3. SumFunctionOnSet(h, 1..Half) \in Nat
    BY <1>1, SumNat
  <2> QED
    BY <1>3, <1>5, <2>2, <2>3
<1> QED
  BY <1>4, <1>5

\* What the window counts of half a window is no more than its total.
LEMMA OverHalfHeld ==
    ASSUME NEW e \in Seq(Entry), NEW f, \A x \in Int : f[x] \in Nat, NEW c \in Int,
           \A x \in Int : c <= x /\ x < c + Half => Holds(e, x, f[x])
    PROVE  OverHalf(f, c) <= TotalSum(e)
<1> DEFINE S == 1..Half
           T == 1..Len(e)
           h == [i \in S |-> f[c + i - 1]]
           g == [i \in T |-> e[i].sum]
           p == [i \in S |-> CHOOSE j \in T : FirstAt(e, j, c + i - 1) /\ h[i] <= e[j].sum]
<1>1. /\ Half \in Nat /\ IsFiniteSet(S)
      /\ Len(e) \in Nat /\ IsFiniteSet(T)
      /\ \A i \in T : e[i].sum \in Nat
  BY HalfIs, EntryIs, IntervalFinite
<1>2. \A i \in S : h[i] \in Nat
  BY OverHalfSummands
<1>3. \A i \in T : g[i] \in Nat
  BY <1>1
<1>4. OverHalf(f, c) = SumFunctionOnSet(h, S)
  BY DEF OverHalf
<1>5. TotalSum(e) = SumFunctionOnSet(g, T)
  BY TotalType
<1>6. ASSUME NEW i \in S, h[i] > 0
      PROVE  p[i] \in T /\ FirstAt(e, p[i], c + i - 1) /\ h[i] <= g[p[i]]
  <2>1. c + i - 1 \in Int /\ c <= c + i - 1 /\ c + i - 1 < c + Half
    BY <1>1
  <2>2. Holds(e, c + i - 1, h[i])
    BY <2>1
  <2>3. \E j \in T : FirstAt(e, j, c + i - 1) /\ h[i] <= e[j].sum
    BY <1>6, <2>2 DEF Holds
  <2>4. p[i] = CHOOSE j \in T : FirstAt(e, j, c + i - 1) /\ h[i] <= e[j].sum
    OBVIOUS
  <2> HIDE DEF p, h, T
  <2>5. p[i] \in T /\ FirstAt(e, p[i], c + i - 1) /\ h[i] <= e[p[i]].sum
    BY <2>3, <2>4
  <2> QED
    BY <2>5
<1>7. ASSUME NEW i \in S, NEW j \in S, h[i] > 0, h[j] > 0, p[i] = p[j]
      PROVE  i = j
  <2>1. e[p[i]].block = c + i - 1 /\ e[p[j]].block = c + j - 1
    BY <1>6, <1>7 DEF FirstAt
  <2> HIDE DEF p, h
  <2> QED
    BY <1>1, <1>7, <2>1
<1> HIDE DEF h, g, p, S, T
<1>8. SumFunctionOnSet(h, S) <= SumFunctionOnSet(g, T)
  <2>1. \A i \in S : h[i] > 0 => p[i] \in T /\ h[i] <= g[p[i]]
    BY <1>6
  <2>2. \A i, j \in S : h[i] > 0 /\ h[j] > 0 /\ p[i] = p[j] => i = j
    BY <1>7
  <2> QED
    BY <1>1, <1>2, <1>3, <2>1, <2>2, SumInjected
<1> QED
  BY <1>4, <1>5, <1>8

\* What CleanBetween adds up.
LEMMA CleanBetweenIs ==
    ASSUME NEW c \in Int
    PROVE  CleanBetween(c, c + Half - 1) = OverHalf([x \in Int |-> BlockSum(docs, x)], c)
<1>1. (c + Half - 1) - c + 1 = Half /\ Half \in Nat
  BY HalfIs
<1> DEFINE e == [i \in 1..Half |-> [block |-> c + i - 1, sum |-> BlockSum(docs, c + i - 1)]]
           f == [x \in Int |-> BlockSum(docs, x)]
<1>2. CleanBetween(c, c + Half - 1) = TotalSum(e)
  BY <1>1 DEF CleanBetween
<1>3. \A i \in 1..Half : c + i - 1 \in Int
  BY <1>1
<1>4. DOMAIN e = 1..Half /\ \A i \in 1..Half : e[i].sum = f[c + i - 1]
  BY <1>3
<1> HIDE DEF f
<1>5. [i \in DOMAIN e |-> e[i].sum] = [i \in 1..Half |-> f[c + i - 1]]
  BY <1>4
<1> QED
  BY <1>2, <1>5 DEF TotalSum, SumFunction, OverHalf, f

\* The calls in doubt about a burn are finitely many.
LEMMA InDoubtFinite ==
    ASSUME NEW q, NEW t, NEW b
    PROVE  IsFiniteSet(InDoubt(q, t, b)) /\ Cardinality(InDoubt(q, t, b)) \in Nat
<1>1. InDoubt(q, t, b) \subseteq Tasks
  BY DEF InDoubt
<1> QED
  BY <1>1, TasksAssumption, FS_Subset, FS_CardinalityType

\* What they are about to record is a natural.
LEMMA PendingNat ==
    ASSUME NEW q, NEW b
    PROVE  /\ PendingSum(q, b) \in Nat
           /\ \A t \in Burns : Amount[t] * Cardinality(InDoubt(q, t, b)) \in Nat
<1> DEFINE f == [t \in Burns |-> Amount[t] * Cardinality(InDoubt(q, t, b))]
<1>1. ASSUME NEW t \in Burns PROVE f[t] \in Nat
  <2>1. Amount[t] \in Nat /\ Cardinality(InDoubt(q, t, b)) \in Nat
    BY AmountAssumption, InDoubtFinite
  <2> QED
    BY <2>1
<1>2. PendingSum(q, b) = SumFunctionOnSet(f, Burns)
  BY DEF PendingSum
<1>3. \A t \in Burns : Amount[t] * Cardinality(InDoubt(q, t, b)) \in Nat
  BY <1>1
<1> HIDE DEF f
<1> QED
  BY <1>1, <1>2, <1>3, BurnsAssumption, SumNat

\* It depends on nothing but the calls in doubt.
LEMMA PendingSame ==
    ASSUME NEW q, NEW r, NEW b, \A t \in Burns : InDoubt(r, t, b) = InDoubt(q, t, b)
    PROVE  PendingSum(r, b) = PendingSum(q, b)
BY DEF PendingSum

\* A call that comes to be in doubt adds its amount to what is pending of its block.
LEMMA PendingAdds ==
    ASSUME NEW q, NEW r, NEW k \in Tasks, \A j \in Tasks \ {k} : r[j] = q[j],
           ~ (q[k].pc = "save" /\ q[k].clean), r[k].pc = "save", r[k].clean,
           NEW t \in Burns, r[k].log.tx = t, NEW m \in Int, r[k].log.block = m, NEW b \in Int
    PROVE  PendingSum(r, b) = PendingSum(q, b) + (IF b = m THEN Amount[t] ELSE 0)
<1>1. \A u \in Burns : k \notin InDoubt(q, u, b)
  BY DEF InDoubt
<1>2. ASSUME NEW u \in Burns
      PROVE  InDoubt(r, u, b) = IF u = t /\ b = m THEN InDoubt(q, u, b) \cup {k}
                                                  ELSE InDoubt(q, u, b)
  BY <1>2 DEF InDoubt
<1>3. CASE b # m
  <2>1. PendingSum(r, b) = PendingSum(q, b) /\ PendingSum(q, b) \in Nat
    BY <1>2, <1>3, PendingSame, PendingNat
  <2> QED
    BY <1>3, <2>1
<1>4. CASE b = m
  <2> DEFINE f == [u \in Burns |-> Amount[u] * Cardinality(InDoubt(q, u, b))]
             g == [u \in Burns |-> Amount[u] * Cardinality(InDoubt(r, u, b))]
             a == Amount[t]
  <2>1. PendingSum(q, b) = SumFunctionOnSet(f, Burns) /\ PendingSum(r, b) = SumFunctionOnSet(g, Burns)
    BY DEF PendingSum
  <2>2. a \in Nat /\ \A u \in Burns : f[u] \in Nat
    BY AmountAssumption, PendingNat
  <2>3. \A u \in Burns \ {t} : g[u] = f[u]
    BY <1>2
  <2>4. g[t] = f[t] + a
    <3> DEFINE n == Cardinality(InDoubt(q, t, b))
    <3>1. InDoubt(r, t, b) = InDoubt(q, t, b) \cup {k} /\ k \notin InDoubt(q, t, b)
      BY <1>1, <1>2, <1>4
    <3>2. n \in Nat /\ Cardinality(InDoubt(r, t, b)) = n + 1
      BY <3>1, InDoubtFinite, FS_AddElement
    <3>3. f[t] = a * n /\ g[t] = a * (n + 1)
      BY <3>2
    <3> HIDE DEF f, g, a, n
    <3> QED
      BY <2>2, <3>2, <3>3
  <2> HIDE DEF f, g, a
  <2>5. SumFunctionOnSet(g, Burns) = SumFunctionOnSet(f, Burns) + a
    BY <2>2, <2>3, <2>4, BurnsAssumption, SumGrows
  <2> QED
    BY <1>4, <2>1, <2>5 DEF a
<1> QED
  BY <1>3, <1>4

\* A call that is not in doubt in the end adds nothing.
LEMMA PendingLess ==
    ASSUME NEW q, NEW r, NEW k \in Tasks, \A j \in Tasks \ {k} : r[j] = q[j],
           ~ (r[k].pc = "save" /\ r[k].clean),
           q[k].pc = "save" => q[k].log.tx \in Burns /\ q[k].log.block \in Int, NEW b \in Int
    PROVE  PendingSum(r, b) <= PendingSum(q, b)
<1>1. PendingSum(r, b) \in Nat /\ PendingSum(q, b) \in Nat
  BY PendingNat
<1>2. CASE q[k].pc = "save" /\ q[k].clean
  <2>1. \A j \in Tasks \ {k} : q[j] = r[j]
    OBVIOUS
  <2> DEFINE t == q[k].log.tx
             m == q[k].log.block
  <2>2. t \in Burns /\ m \in Int /\ Amount[t] \in Nat
    BY <1>2, AmountAssumption
  <2>3. PendingSum(q, b) = PendingSum(r, b) + (IF b = m THEN Amount[t] ELSE 0)
    BY <1>2, <2>1, <2>2, PendingAdds
  <2> HIDE DEF t, m
  <2> QED
    BY <1>1, <2>2, <2>3
<1>3. CASE ~ (q[k].pc = "save" /\ q[k].clean)
  <2>1. \A t \in Burns : InDoubt(r, t, b) = InDoubt(q, t, b)
    BY <1>3 DEF InDoubt
  <2> QED
    BY <1>1, <2>1, PendingSame
<1> QED
  BY <1>2, <1>3

\* Nothing is pending when no call is in doubt.
LEMMA PendingNone ==
    ASSUME NEW q, \A k \in Tasks : ~ (q[k].pc = "save" /\ q[k].clean), NEW b
    PROVE  PendingSum(q, b) = 0
<1> DEFINE f == [t \in Burns |-> Amount[t] * Cardinality(InDoubt(q, t, b))]
           none == [u \in {} |-> 0]
<1>1. PendingSum(q, b) = SumFunctionOnSet(f, Burns)
  BY DEF PendingSum
<1>2. ASSUME NEW t \in Burns PROVE f[t] = 0
  <2>1. InDoubt(q, t, b) = {}
    BY DEF InDoubt
  <2>2. f[t] = Amount[t] * Cardinality({}) /\ Amount[t] \in Nat
    BY <2>1, AmountAssumption
  <2> HIDE DEF f
  <2> QED
    BY <2>2, FS_EmptySet
<1> HIDE DEF f
<1>3. SumFunctionOnSet(f, Burns) <= SumFunctionOnSet(none, {})
  <2>1. \A t \in Burns : f[t] \in Nat /\ ~ (f[t] > 0)
    BY <1>2
  <2>2. IsFiniteSet({}) /\ \A i \in {} : none[i] \in Nat
    BY FS_EmptySet
  <2> HIDE DEF none
  <2> QED
    BY <2>1, <2>2, BurnsAssumption, SumInjected
<1> QED
  BY <1>1, <1>3, SumEmpty, PendingNat

\* What is counted is a natural, and no less than what is recorded.
LEMMA CountedIs ==
    ASSUME NEW d, IsDocs(d), NEW q, NEW x \in Int
    PROVE  /\ CountedBy(d, q)[x] = BlockSum(d, x) + PendingSum(q, x)
           /\ CountedBy(d, q)[x] \in Nat
           /\ BlockSum(d, x) \in Nat /\ PendingSum(q, x) \in Nat
<1>1. BlockSum(d, x) \in Nat /\ PendingSum(q, x) \in Nat
  BY BlockSumNat, PendingNat
<1> QED
  BY <1>1 DEF CountedBy

\* A mark changes no amount.
LEMMA BlockSumSame ==
    ASSUME NEW d, NEW e, NEW b,
           \A t \in Burns : /\ Len(e[t]) = Len(d[t])
                            /\ \A i \in 1..Len(d[t]) : /\ e[t][i].block = d[t][i].block
                                                       /\ e[t][i].clean = d[t][i].clean
    PROVE  BlockSum(e, b) = BlockSum(d, b)
<1>1. ASSUME NEW t \in Burns
      PROVE  {i \in 1..Len(e[t]) : e[t][i].block = b /\ e[t][i].clean} =
             {i \in 1..Len(d[t]) : d[t][i].block = b /\ d[t][i].clean}
  OBVIOUS
<1> QED
  BY <1>1 DEF BlockSum

-----------------------------------------------------------------------------
(***************************************************************************)
(* What holds in turn and out of turn: a block has one handler, and no log *)
(* or document is of a block to come.                                      *)
(***************************************************************************)

\* The last block that the logs of a call can be of.
Latest(this) == IF this.kind = "event" THEN head ELSE this.block

\* Its logs are of those blocks.
LogsKept(this) ==
    /\ \A l \in this.todo : l.block <= Latest(this)
    /\ this.pc \in LogPc => this.log.block <= Latest(this)

\* Each block announced or in the hands of a handler is there once, and no log or
\* document is ahead of the chain.
PlaceInv ==
    /\ Settled
    /\ \A j, k \in Tasks : j # k /\ task[j].kind = "block" /\ task[k].kind = "block"
                              => task[j].block # task[k].block
    /\ \A k \in Tasks : task[k].kind = "block" => task[k].block \notin blocks
    /\ DocsUpTo(docs, head)
    /\ \A l \in logs : l.block <= head
    /\ \A k \in Tasks : LogsKept(task[k])

\* The types that the comparisons need.
LEMMA PlaceIs ==
    ASSUME PlaceInv
    PROVE  /\ Settled /\ WellFormed /\ RecordsTypeOK
           /\ entries \in Seq(Entry) /\ docs \in [Burns -> Seq(Doc)] /\ IsDocs(docs)
           /\ dbHeight \in Nat /\ metricHeight \in Nat /\ head \in Nat
           /\ dbHeight <= head /\ metricHeight <= head
           /\ blocks \subseteq Nat /\ logs \subseteq Log
           /\ \A n \in blocks : n <= head
           /\ \A k \in Tasks :
                /\ task[k] \in Task /\ TaskOK(task[k])
                /\ task[k].block \in Nat /\ task[k].block <= head /\ task[k].from \in Nat
                /\ task[k].todo \subseteq Log /\ \A l \in task[k].todo : l.block \in Nat
                /\ task[k].pc \in LogPc => /\ task[k].log \in Log /\ task[k].log.block \in Nat
                                           /\ task[k].log.tx \in Burns
                                           /\ Amount[task[k].log.tx] \in Nat
                                           /\ task[k].log.block <= head
<1>1. /\ Settled /\ WellFormed /\ RecordsTypeOK
      /\ entries \in Seq(Entry) /\ docs \in [Burns -> Seq(Doc)]
  BY DEF PlaceInv, Settled, WellFormed, WatcherTypeOK, RecordsTypeOK
<1>2. \A l \in Log : l.block \in Nat /\ l.tx \in Burns /\ Amount[l.tx] \in Nat
  BY AmountAssumption DEF Log
<1>3. ASSUME NEW k \in Tasks
      PROVE  /\ task[k] \in Task /\ TaskOK(task[k])
             /\ task[k].block \in Nat /\ task[k].block <= head /\ task[k].from \in Nat
             /\ task[k].todo \subseteq Log /\ \A l \in task[k].todo : l.block \in Nat
             /\ task[k].pc \in LogPc => /\ task[k].log \in Log /\ task[k].log.block \in Nat
                                        /\ task[k].log.tx \in Burns
                                        /\ Amount[task[k].log.tx] \in Nat
                                        /\ task[k].log.block <= head
  <2>1. /\ task[k] \in Task /\ TaskOK(task[k]) /\ task[k].todo \subseteq Log
        /\ task[k].pc \in LogPc => task[k].log \in Log
    BY <1>1, TaskIs
  <2>2. /\ task[k].block \in Nat /\ task[k].from \in Nat /\ task[k].block <= head /\ head \in Nat
    BY <1>1, Numbers DEF Settled, InThePast
  <2>3. task[k].pc \in LogPc => task[k].log.block <= Latest(task[k])
    BY DEF PlaceInv, LogsKept
  <2>4. Latest(task[k]) \in Nat /\ Latest(task[k]) <= head
    BY <2>2 DEF Latest
  <2> QED
    BY <1>2, <2>1, <2>2, <2>3, <2>4
<1>4. /\ dbHeight \in Nat /\ metricHeight \in Nat /\ head \in Nat
      /\ dbHeight <= head /\ metricHeight <= head
      /\ blocks \subseteq Nat /\ logs \subseteq Log
      /\ \A n \in blocks : n <= head
  BY <1>1, Numbers DEF Settled, InThePast
<1> QED
  BY <1>1, <1>3, <1>4 DEF IsDocs

\* A call that has no logs keeps them.
LEMMA QuietKept ==
    ASSUME NEW this, TaskOK(this), this.pc \notin LogPc
    PROVE  LogsKept(this)
BY DEF TaskOK, LogsKept

\* One call goes on.
LEMMA CallInPlace ==
    ASSUME PlaceInv, Settled', NEW k \in Tasks, NEW next, Becomes(k, next), UNCHANGED head,
           DocsUpTo(docs', head), blocks' \subseteq blocks, logs' \subseteq logs, LogsKept(next),
           next.kind = "block" => \/ task[k].kind = "block" /\ next.block = task[k].block
                                  \/ next.block \in blocks \ blocks'
    PROVE  PlaceInv'
<1>1. task'[k] = next /\ \A j \in Tasks \ {k} : task'[j] = task[j]
  BY PlaceIs, BecomesTasks
<1>2. ASSUME NEW j \in Tasks, NEW l \in Tasks, j # l, task'[j].kind = "block", task'[l].kind = "block"
      PROVE  task'[j].block # task'[l].block
  <2>1. CASE j = k
    BY <1>1, <1>2, <2>1 DEF PlaceInv
  <2>2. CASE l = k
    BY <1>1, <1>2, <2>2 DEF PlaceInv
  <2>3. CASE j # k /\ l # k
    BY <1>1, <1>2, <2>3 DEF PlaceInv
  <2> QED
    BY <2>1, <2>2, <2>3
<1>3. ASSUME NEW j \in Tasks, task'[j].kind = "block" PROVE task'[j].block \notin blocks'
  BY <1>1, <1>3 DEF PlaceInv
<1>4. ASSUME NEW j \in Tasks PROVE LogsKept(task[j])'
  <2>1. CASE j = k
    BY <1>1, <2>1 DEF LogsKept, Latest
  <2>2. CASE j # k
    <3>1. LogsKept(task[j])
      BY DEF PlaceInv
    <3> QED
      BY <1>1, <2>2, <3>1 DEF LogsKept, Latest
  <2> QED
    BY <2>1, <2>2
<1>5. DocsUpTo(docs', head') /\ \A l \in logs' : l.block <= head'
  BY DEF PlaceInv
<1> QED
  BY <1>2, <1>3, <1>4, <1>5 DEF PlaceInv

\* The new handler of a log or of a block.
LEMMA TakeInPlace ==
    ASSUME PlaceInv, NEW k \in Tasks, TakeLog(k) \/ TakeBlock(k)
    PROVE  PlaceInv'
<1>1. WellFormed /\ Settled' /\ UNCHANGED <<docs, head>> /\ DocsUpTo(docs', head)
  BY PlaceIs, TakeSettled DEF PlaceInv, TakeLog, TakeBlock, recordVars, chainVars
<1>2. CASE TakeLog(k)
  <2>1. PICK l \in logs, next \in Task :
          /\ logs' = logs \ {l} /\ Becomes(k, next)
          /\ next.pc = "lookup" /\ next.kind = "event" /\ next.log = l /\ next.todo = {}
    BY <1>1, <1>2, TakeLogIs
  <2>2. LogsKept(next)
    BY <2>1 DEF PlaceInv, LogsKept, Latest
  <2> QED
    BY <1>1, <1>2, <2>1, <2>2, CallInPlace DEF TakeLog
<1>3. CASE TakeBlock(k)
  <2>1. PICK n \in blocks, next \in Task :
          /\ blocks' = blocks \ {n} /\ Becomes(k, next)
          /\ next.pc = "heights" /\ next.block = n
    BY <1>1, <1>3, TakeBlockIs
  <2>2. LogsKept(next)
    BY <2>1, QuietKept DEF Becomes, LogPc
  <2> QED
    BY <1>1, <1>3, <2>1, <2>2, CallInPlace DEF TakeBlock
<1> QED
  BY <1>2, <1>3

\* A document is of a block in the past: that of its log.
LEMMA AppendUpTo ==
    ASSUME NEW d \in [Burns -> Seq(Doc)], NEW t \in Burns, NEW doc \in Doc, NEW m \in Int,
           DocsUpTo(d, m), doc.block <= m
    PROVE  DocsUpTo([d EXCEPT ![t] = Append(d[t], doc)], m)
<1> DEFINE e == [d EXCEPT ![t] = Append(d[t], doc)]
<1> SUFFICES ASSUME NEW u \in Burns, NEW i \in 1..Len(e[u]) PROVE e[u][i].block <= m
  BY DEF DocsUpTo
<1>1. d[u] \in Seq(Doc) /\ Len(d[u]) \in Nat
  OBVIOUS
<1>2. CASE u # t \/ i # Len(d[u]) + 1
  <2>1. i \in 1..Len(d[u]) /\ e[u][i] = d[u][i]
    BY <1>1, <1>2
  <2> QED
    BY <2>1 DEF DocsUpTo
<1>3. CASE u = t /\ i = Len(d[u]) + 1
  <2>1. e[u][i] = doc
    BY <1>1, <1>3
  <2> QED
    BY <2>1
<1> QED
  BY <1>2, <1>3

\* What a mark leaves as it was.
LEMMA MarkKeeps ==
    ASSUME RecordsTypeOK, NEW t \in Burns, MarkReorged(t)
    PROVE  /\ \A m : DocsUpTo(docs, m) => DocsUpTo(docs', m)
           /\ \A b : BlockSum(docs', b) = BlockSum(docs, b)
<1>1. ASSUME NEW u \in Burns
      PROVE  /\ Len(docs'[u]) = Len(docs[u])
             /\ \A i \in 1..Len(docs[u]) : /\ docs'[u][i].block = docs[u][i].block
                                           /\ docs'[u][i].clean = docs[u][i].clean
  <2>1. docs \in [Burns -> Seq(Doc)]
    BY DEF RecordsTypeOK
  <2>2. CASE u # t
    BY <2>2, MarkReorgedType
  <2>3. CASE u = t
    <3>1. /\ Len(docs'[t]) = Len(docs[t])
          /\ \A i \in 1..Len(docs[t]) : docs'[t][i].block = docs[t][i].block
      BY MarkReorgedType
    <3>2. CASE ~ Recorded(t)
      BY <2>3, <3>2 DEF MarkReorged
    <3>3. CASE Recorded(t)
      <4>1. docs' = [docs EXCEPT ![t][1].status = "REORGED"]
        BY <3>3 DEF MarkReorged
      <4>2. docs'[t] = [docs[t] EXCEPT ![1].status = "REORGED"]
        BY <2>1, <4>1
      <4>3. \A i \in 1..Len(docs[t]) : docs[t][i] \in Doc
        BY <2>1
      <4>4. \A i \in 1..Len(docs[t]) :
              docs'[t][i] = IF i = 1 THEN [docs[t][1] EXCEPT !.status = "REORGED"] ELSE docs[t][i]
        BY <2>1, <4>2
      <4>5. \A i \in 1..Len(docs[t]) : docs'[t][i].clean = docs[t][i].clean
        BY <4>3, <4>4 DEF Doc
      <4> QED
        BY <2>3, <3>1, <4>5
    <3> QED
      BY <3>2, <3>3
  <2> QED
    BY <2>2, <2>3
<1>2. \A b : BlockSum(docs', b) = BlockSum(docs, b)
  BY <1>1, BlockSumSame
<1>3. \A m : DocsUpTo(docs, m) => DocsUpTo(docs', m)
  BY <1>1 DEF DocsUpTo
<1> QED
  BY <1>2, <1>3

\* What a step of a log does to the records.
LEMMA LogStepDocs ==
    ASSUME PlaceInv, NEW k \in Tasks, LogStep(k)
    PROVE  /\ ~ SaveLog(k) => \A b : BlockSum(docs', b) = BlockSum(docs, b)
           /\ SaveLog(k) =>
                 /\ task[k].pc = "save"
                 /\ \A b \in Int : BlockSum(docs', b) = BlockSum(docs, b) +
                       (IF b = task[k].log.block /\ task[k].clean THEN Amount[task[k].log.tx] ELSE 0)
           /\ \A m \in Int : task[k].log.block <= m /\ DocsUpTo(docs, m) => DocsUpTo(docs', m)
<1>1. /\ RecordsTypeOK /\ docs \in [Burns -> Seq(Doc)] /\ task[k] \in Task
      /\ task[k].pc \in LogPc => task[k].log.tx \in Burns /\ task[k].log.block \in Nat
  BY PlaceIs
<1>2. CASE SaveLog(k)
  <2> DEFINE t == task[k].log.tx
             b == task[k].log.block
             doc == [status |-> "CONFIRMED", block |-> b, clean |-> task[k].clean]
  <2>1. task[k].pc = "save" /\ task[k].pc \in LogPc /\ task[k].clean \in BOOLEAN
    BY <1>1, <1>2 DEF SaveLog, LogPc, Task
  <2>2. doc \in Doc /\ t \in Burns /\ b \in Nat
    BY <1>1, <2>1 DEF Doc
  <2>3. docs' = [docs EXCEPT ![t] = Append(docs[t], doc)]
    BY <1>2 DEF SaveLog, AddTransaction
  <2>4. doc.block = b /\ doc.clean = task[k].clean
    OBVIOUS
  <2> HIDE DEF doc, t, b
  <2>5. ASSUME NEW x \in Int
        PROVE  BlockSum(docs', x) = BlockSum(docs, x) + (IF x = b /\ task[k].clean THEN Amount[t] ELSE 0)
    <3>1. BlockSum([docs EXCEPT ![t] = Append(docs[t], doc)], x) =
            BlockSum(docs, x) + (IF doc.block = x /\ doc.clean THEN Amount[t] ELSE 0)
      BY <1>1, <2>2, BlockSumAppend
    <3> QED
      BY <2>3, <2>4, <3>1
  <2>6. ASSUME NEW m \in Int, b <= m, DocsUpTo(docs, m) PROVE DocsUpTo(docs', m)
    BY <1>1, <2>2, <2>3, <2>4, <2>6, AppendUpTo
  <2> QED
    BY <1>2, <2>1, <2>5, <2>6 DEF t, b
<1>3. CASE Revert(k)
  <2>1. task[k].log.tx \in Burns /\ MarkReorged(task[k].log.tx)
    BY <1>1, <1>3 DEF Revert, LogPc
  <2>2. ~ SaveLog(k)
    BY <1>3 DEF Revert, SaveLog
  <2> QED
    BY <1>1, <2>1, <2>2, MarkKeeps
<1>4. CASE ~ SaveLog(k) /\ ~ Revert(k)
  <2>1. UNCHANGED docs
    BY <1>4 DEF LogStep, IgnoreLog, AdmitLog, TakeBack, RecordRemoved, LogFails, recordVars
  <2> QED
    BY <1>4, <2>1
<1> QED
  BY <1>2, <1>3, <1>4

\* The handler of a log or a backfill goes through its logs.
LEMMA LogStepInPlace ==
    ASSUME PlaceInv, NEW k \in Tasks, LogStep(k)
    PROVE  PlaceInv'
<1>1. /\ WellFormed /\ Settled /\ Settled' /\ head \in Nat
      /\ UNCHANGED <<head, blocks, logs>> /\ task[k].pc \in LogPc
  <2>1. UNCHANGED <<head, blocks, logs>> /\ task[k].pc \in LogPc
    BY DEF LogStep, IgnoreLog, AdmitLog, SaveLog, TakeBack, Revert, RecordRemoved, LogFails,
           UnchangedByLog, chainVars, noticeVars, LogPc
  <2> QED
    BY <2>1, PlaceIs, LogStepSettled
<1>2. PICK next :
         /\ Becomes(k, next)
         /\ next = IdleTask \/ (next.kind = task[k].kind /\ next.block = task[k].block)
         /\ next.todo \subseteq task[k].todo
         /\ next.pc \in LogPc => next.log \in task[k].todo \cup {task[k].log}
  BY <1>1, LogStepNext
<1>3. DocsUpTo(docs', head)
  <2>1. task[k].log.block <= head /\ DocsUpTo(docs, head) /\ head \in Int
    BY <1>1, PlaceIs DEF PlaceInv
  <2> QED
    BY <2>1, LogStepDocs
<1>4. IdleTask.kind = "event" /\ IdleTask.pc = "idle" /\ "idle" \notin LogPc
  BY DEF IdleTask, LogPc
<1>5. LogsKept(next)
  <2>1. CASE next = IdleTask
    BY <1>2, <1>4, <2>1, QuietKept DEF Becomes
  <2>2. CASE next.kind = task[k].kind /\ next.block = task[k].block
    <3>1. LogsKept(task[k]) /\ Latest(next) = Latest(task[k])
      BY <2>2 DEF PlaceInv, Latest
    <3> QED
      BY <1>1, <1>2, <3>1 DEF LogsKept
  <2> QED
    BY <1>2, <2>1, <2>2
<1> QED
  BY <1>1, <1>2, <1>3, <1>4, <1>5, CallInPlace

\* The logs that a backfill finds are of the blocks that it asks for.
LEMMA BackfillStepInPlace ==
    ASSUME PlaceInv, NEW k \in Tasks, BackfillStep(k)
    PROVE  PlaceInv'
<1>1. /\ WellFormed /\ Settled' /\ UNCHANGED <<docs, head, blocks, logs>>
      /\ task[k].pc \in {"getLogs", "setHeight", "sums", "setSums"}
  <2>1. /\ UNCHANGED <<docs, head, blocks, logs>>
        /\ task[k].pc \in {"getLogs", "setHeight", "sums", "setSums"}
    BY DEF BackfillStep, GetLogs, StoreBackfilled, ReadSums, SetSums, BackfillFails,
           recordVars, chainVars, noticeVars
  <2> QED
    BY <2>1, PlaceIs, BackfillStepSettled
<1>2. DocsUpTo(docs', head)
  BY <1>1 DEF PlaceInv
<1>3. CASE GetLogs(k)
  <2> DEFINE found == LogsBetween(task[k].from, LastBlock(k))
  <2>1. PICK next :
           /\ Becomes(k, next)
           /\ next.kind = task[k].kind /\ next.kind # "event" /\ next.block = LastBlock(k)
           /\ next.todo \subseteq found
           /\ next.pc = "lookup" => next.log \in found
           /\ next.pc \in {"lookup", "setHeight"}
    BY <1>1, <1>3, GetLogsIs
  <2>2. \A l \in found : l.block <= LastBlock(k)
    BY <1>1, LogsBetweenIs
  <2> HIDE DEF found
  <2>3. LogsKept(next)
    <3>1. Latest(next) = LastBlock(k)
      BY <2>1 DEF Latest
    <3>2. next.pc \in LogPc => next.pc = "lookup"
      BY <2>1 DEF LogPc
    <3> QED
      BY <2>1, <2>2, <3>1, <3>2 DEF LogsKept
  <2>4. next.kind = "block" => task[k].kind = "block" /\ next.block = task[k].block
    BY <2>1 DEF LastBlock
  <2> QED
    BY <1>1, <1>2, <2>1, <2>3, <2>4, CallInPlace
<1>4. ASSUME NEW next, Becomes(k, next), SameCall(task[k], next), next.pc \notin LogPc
      PROVE  PlaceInv'
  BY <1>1, <1>2, <1>4, QuietKept, CallInPlace DEF SameCall, Becomes
<1>5. CASE StoreBackfilled(k)
  BY <1>1, <1>4, <1>5, StoreBackfilledIs DEF LogPc
<1>6. CASE ReadSums(k)
  BY <1>1, <1>4, <1>6, ReadSumsIs DEF LogPc
<1>7. CASE SetSums(k) \/ BackfillFails(k)
  <2>1. AfterBackfill(k)
    BY <1>7 DEF SetSums, BackfillFails
  <2>2. IdleTask.kind = "event" /\ IdleTask.pc = "idle"
    BY DEF IdleTask
  <2>3. PICK next : /\ Becomes(k, next) /\ next.pc \notin LogPc
                    /\ \/ next.kind = "event"
                       \/ task[k].kind = "block" /\ next.block = task[k].block
    BY <1>1, <2>1, <2>2, AfterBackfillIs DEF LogPc
  <2> QED
    BY <1>1, <1>2, <2>3, QuietKept, CallInPlace DEF Becomes
<1> QED
  BY <1>3, <1>5, <1>6, <1>7 DEF BackfillStep

\* The handler of a block stays with its block.
LEMMA BlockStepInPlace ==
    ASSUME PlaceInv, NEW k \in Tasks, BlockStep(k)
    PROVE  PlaceInv'
<1>1. WellFormed /\ Settled' /\ UNCHANGED <<docs, head, blocks, logs>> /\ DocsUpTo(docs', head)
  <2>1. UNCHANGED <<docs, head, blocks, logs>>
    BY DEF BlockStep, ReadDbHeight, ReadMetricHeight, QueryToBeSent, StoreHeight, BlockFails,
           recordVars, chainVars, noticeVars
  <2> QED
    BY <2>1, PlaceIs, BlockStepSettled DEF PlaceInv
<1>2. ASSUME NEW next, Becomes(k, next), SameCall(task[k], next), next.pc \notin LogPc
      PROVE  PlaceInv'
  BY <1>1, <1>2, QuietKept, CallInPlace DEF SameCall, Becomes
<1>3. CASE ReadDbHeight(k)
  BY <1>1, <1>2, <1>3, ReadDbHeightIs DEF LogPc
<1>4. CASE ReadMetricHeight(k)
  <2>1. PICK next \in Task : /\ Becomes(k, next) /\ SameCall(task[k], next)
                             /\ next.pc \in {"getLogs", "query"}
    BY <1>1, <1>4, ReadMetricHeightIs
  <2> QED
    BY <1>2, <2>1 DEF LogPc
<1>5. CASE QueryToBeSent(k)
  BY <1>1, <1>2, <1>5, QueryToBeSentIs DEF LogPc
<1>6. CASE StoreHeight(k) \/ BlockFails(k)
  <2>1. Becomes(k, IdleTask) /\ IdleTask.kind = "event" /\ IdleTask.pc \notin LogPc
    <3>1. IdleTask.kind = "event" /\ IdleTask.pc \notin LogPc
      BY DEF IdleTask, LogPc
    <3> QED
      BY <1>6, <3>1, IdleIsTask DEF StoreHeight, BlockFails, Becomes
  <2> QED
    BY <1>1, <2>1, QuietKept, CallInPlace DEF Becomes
<1> QED
  BY <1>3, <1>4, <1>5, <1>6 DEF BlockStep

\* The chain goes on to later blocks.
LEMMA ChainStepInPlace ==
    ASSUME PlaceInv, ChainStep
    PROVE  PlaceInv'
<1>1. /\ Settled /\ Settled' /\ WellFormed /\ head \in Nat /\ docs \in [Burns -> Seq(Doc)]
      /\ \A k \in Tasks : task[k].block \in Nat /\ task[k].block <= head
      /\ \A n \in blocks : n \in Nat /\ n <= head
  BY PlaceIs, ChainStepSettled
<1>2. UNCHANGED <<docs, task>>
  BY DEF ChainStep, recordVars
<1>3. /\ head' \in Nat /\ head <= head'
      /\ \A n \in blocks' : n \in blocks \/ n > head
      /\ \A l \in logs' : l \in logs \/ l.block <= head'
  <2>1. CASE NewBlock
    BY <1>1, <2>1 DEF NewBlock, Mine, Announce, noticeVars
  <2>2. ASSUME NEW t \in Burns, Reorg(t)
        PROVE  /\ UNCHANGED <<head, blocks>>
               /\ \A l \in logs' : l \in logs \/ l.block <= head
    <3>1. minedAt[t] <= head
      BY <1>1 DEF Settled, InThePast
    <3> QED
      BY <2>2, <3>1 DEF Reorg
  <2> QED
    BY <1>1, <2>1, <2>2 DEF ChainStep
<1>4. DocsUpTo(docs', head')
  <2>1. ASSUME NEW t \in Burns, NEW i \in 1..Len(docs[t]) PROVE docs[t][i].block <= head'
    <3>1. docs[t][i] \in Doc
      BY <1>1
    <3>2. docs[t][i].block \in Nat /\ docs[t][i].block <= head
      BY <3>1 DEF PlaceInv, DocsUpTo, Doc
    <3> QED
      BY <1>1, <1>3, <3>2
  <2> QED
    BY <1>2, <2>1 DEF DocsUpTo
<1>5. \A l \in logs' : l.block <= head'
  <2>1. \A l \in logs : l.block \in Nat /\ l.block <= head
    BY PlaceIs DEF PlaceInv, Log
  <2> QED
    BY <1>1, <1>3, <2>1
<1>6. ASSUME NEW k \in Tasks PROVE LogsKept(task[k])'
  <2>1. LogsKept(task[k]) /\ Latest(task[k]) \in Nat
    BY <1>1 DEF PlaceInv, Latest
  <2>2. Latest(task[k])' \in Nat /\ Latest(task[k]) <= Latest(task[k])'
    BY <1>1, <1>2, <1>3 DEF Latest
  <2>3. /\ \A l \in task[k].todo : l.block \in Nat
        /\ task[k].pc \in LogPc => task[k].log.block \in Nat
    BY PlaceIs
  <2> QED
    BY <1>2, <2>1, <2>2, <2>3 DEF LogsKept
<1>7. \A k \in Tasks : task[k].kind = "block" => task[k].block \notin blocks'
  BY <1>1, <1>3 DEF PlaceInv
<1> QED
  BY <1>1, <1>2, <1>4, <1>5, <1>6, <1>7 DEF PlaceInv

\* A stop leaves no announcement and at most one call.
LEMMA RestartInPlace ==
    ASSUME PlaceInv, Restart
    PROVE  PlaceInv'
<1>1. Settled' /\ UNCHANGED <<docs, head>> /\ blocks' = {} /\ logs' = {}
  BY RestartSettled DEF PlaceInv, Restart, chainVars
<1>2. /\ \A k \in Tasks : task'[k].kind # "block" /\ task'[k].pc \notin LogPc
      /\ \A k \in Tasks : TaskOK(task'[k])
  <2>1. IdleTask.kind = "event" /\ IdleTask.pc = "idle" /\ "idle" \notin LogPc /\ "getLogs" \notin LogPc
    BY DEF IdleTask, LogPc
  <2>2. WellFormed'
    BY PlaceIs, RestartIs
  <2>3. \A k \in Tasks : task'[k].kind # "block" /\ task'[k].pc \notin LogPc
    BY <2>1, PlaceIs, RestartIs
  <2> QED
    BY <2>2, <2>3 DEF WellFormed
<1>3. \A k \in Tasks : LogsKept(task[k])'
  BY <1>2 DEF LogsKept, TaskOK
<1> QED
  BY <1>1, <1>2, <1>3 DEF PlaceInv

\* The connection holds no call.
LEMMA ConnectionInPlace ==
    ASSUME PlaceInv, Disconnect \/ Reconnect
    PROVE  PlaceInv'
<1>1. /\ Settled' /\ UNCHANGED <<docs, head, task>>
      /\ blocks' \subseteq blocks /\ logs' \subseteq logs
  BY ConnectionSettled DEF PlaceInv, Disconnect, Reconnect, recordVars, chainVars, noticeVars
<1>2. \A k \in Tasks : LogsKept(task[k])'
  BY <1>1 DEF PlaceInv, LogsKept, Latest
<1> QED
  BY <1>1, <1>2 DEF PlaceInv

\* At first nothing has happened.
LEMMA InitInPlace == Init => PlaceInv
<1> SUFFICES ASSUME Init PROVE PlaceInv
  OBVIOUS
<1>1. /\ Settled /\ docs = [t \in Burns |-> <<>>] /\ logs = {} /\ blocks = {}
      /\ \A k \in Tasks : task[k] = IdleTask
  BY InitSettled DEF Init, RecordsInit, ChainInit
<1>2. IdleTask.kind = "event" /\ IdleTask.pc = "idle" /\ IdleTask.todo = {} /\ "idle" \notin LogPc
  BY DEF IdleTask, LogPc
<1>3. \A k \in Tasks : LogsKept(task[k])
  BY <1>1, <1>2 DEF LogsKept
<1>4. DocsUpTo(docs, head)
  <2>1. \A t \in Burns : Len(docs[t]) = 0
    BY <1>1
  <2> QED
    BY <2>1 DEF DocsUpTo
<1> QED
  BY <1>1, <1>2, <1>3, <1>4 DEF PlaceInv

\* Every step keeps the places.
LEMMA NextInPlace == PlaceInv /\ [Next]_vars => PlaceInv'
<1> SUFFICES ASSUME PlaceInv, [Next]_vars PROVE PlaceInv'
  OBVIOUS
<1>1. CASE UNCHANGED vars
  <2>1. Settled'
    BY <1>1, NextSettled DEF PlaceInv
  <2>2. UNCHANGED <<docs, head, blocks, logs, task>>
    BY <1>1 DEF vars, recordVars, chainVars, noticeVars
  <2>3. \A k \in Tasks : LogsKept(task[k])'
    BY <2>2 DEF PlaceInv, LogsKept, Latest
  <2> QED
    BY <2>1, <2>2, <2>3 DEF PlaceInv
<1>2. CASE Next
  BY <1>2, ChainStepInPlace, TakeInPlace, LogStepInPlace, BackfillStepInPlace, BlockStepInPlace,
     ConnectionInPlace, RestartInPlace DEF Next
<1> QED
  BY <1>1, <1>2

-----------------------------------------------------------------------------
(***************************************************************************)
(* What holds in turn: the window is in order and counts what is recorded  *)
(* or about to be, and there is no more of that than the limit.            *)
(***************************************************************************)

\* The handler of a block that will replace the window.
Rebuilds(this) == this.kind = "block" /\ this.pc \in LogPc \cup {"setHeight", "sums", "setSums"}

\* Entries come in the order of their blocks, and a block that has no entry of its
\* handler yet can still add it.
Ordered ==
    ~ Rebuilding => /\ Spaced(entries)
                    /\ \A n \in blocks : Fits(entries, n)
                    /\ \A k \in Tasks : task[k].kind = "block" => Fits(entries, task[k].block)

\* The window counts these amounts of the blocks less than half a window old.
Counts(e, height, f) == \A x \in Int : height - Half < x => Holds(e, x, f[x])

\* A backfill that has read its sums has stored its height.
HeightStored(this) ==
    this.kind = "block" /\ this.pc \in {"sums", "setSums"} => this.block <= dbHeight

\* Once a start has built the window, it counts all that it has to.
Built ==
    ~ Booting => /\ Ordered
                 /\ Counts(entries, dbHeight, CountedBy(docs, task))
                 /\ \A k \in Tasks : HeightStored(task[k])

\* The backfill of a start counts nothing before it builds the window.
BootKnows(this) ==
    this.kind = "boot" =>
        /\ entries = <<>> /\ dbHeight # 0
        /\ this.pc = "save" => ~ this.clean
        /\ this.pc # "getLogs" => this.block # 0 /\ DocsUpTo(docs, this.block)
        /\ this.pc \in {"sums", "setSums"} => dbHeight = this.block
        /\ this.pc = "setSums" => this.sums = BlockSums(docs, this.block, WindowSize)

\* What is counted of half a window of blocks stays within the limit.
Limited == \A c \in Int : OverHalf(CountedBy(docs, task), c) <= WindowLimit

\* What holds until a step is out of turn.
TurnInv ==
    /\ UpTo(entries, head)
    /\ \A k \in Tasks : BootKnows(task[k])
    /\ Built
    /\ Limited

\* The handlers that make Rebuilding true.
LEMMA RebuildingIs == Rebuilding <=> \E k \in Tasks : Rebuilds(task[k])
BY DEF Rebuilding, Rebuilds

\* Less counted is as well within the limit.
LEMMA LimitedStays ==
    ASSUME PlaceInv, PlaceInv', Limited,
           \A x \in Int : CountedBy(docs', task')[x] <= CountedBy(docs, task)[x]
    PROVE  Limited'
<1>1. IsDocs(docs) /\ IsDocs(docs')
  <2>1. docs \in [Burns -> Seq(Doc)] /\ docs' \in [Burns -> Seq(Doc)]
    BY DEF PlaceInv, Settled, WellFormed, WatcherTypeOK, RecordsTypeOK
  <2> QED
    BY <2>1 DEF IsDocs
<1>2. /\ \A x \in Int : CountedBy(docs, task)[x] \in Nat
      /\ \A x \in Int : CountedBy(docs', task')[x] \in Nat
  BY <1>1, CountedIs
<1>3. ASSUME NEW c \in Int
      PROVE  OverHalf(CountedBy(docs', task'), c) <= WindowLimit
  <2>1. OverHalf(CountedBy(docs', task'), c) <= OverHalf(CountedBy(docs, task), c)
    BY <1>2, OverHalfLess
  <2>2. OverHalf(CountedBy(docs, task), c) <= WindowLimit
    BY DEF Limited
  <2>3. /\ OverHalf(CountedBy(docs', task'), c) \in Nat /\ OverHalf(CountedBy(docs, task), c) \in Nat
        /\ WindowLimit \in Nat
    BY <1>2, OverHalfNat, PolicyAssumption
  <2> QED
    BY <2>1, <2>2, <2>3
<1> QED
  BY <1>3 DEF Limited

\* A call that is not about to record anything counts nothing more.
LEMMA CountedLess ==
    ASSUME PlaceInv, PlaceInv', NEW k \in Tasks, NEW next, Becomes(k, next),
           ~ (next.pc = "save" /\ next.clean),
           \A b \in Int : BlockSum(docs', b) = BlockSum(docs, b)
    PROVE  \A x \in Int : CountedBy(docs', task')[x] <= CountedBy(docs, task)[x]
<1> SUFFICES ASSUME NEW x \in Int PROVE CountedBy(docs', task')[x] <= CountedBy(docs, task)[x]
  OBVIOUS
<1>1. IsDocs(docs) /\ IsDocs(docs')
  <2>1. docs \in [Burns -> Seq(Doc)] /\ docs' \in [Burns -> Seq(Doc)]
    BY DEF PlaceInv, Settled, WellFormed, WatcherTypeOK, RecordsTypeOK
  <2> QED
    BY <2>1 DEF IsDocs
<1>2. task'[k] = next /\ \A j \in Tasks \ {k} : task'[j] = task[j]
  BY PlaceIs, BecomesTasks
<1>3. task[k].pc = "save" => task[k].log.tx \in Burns /\ task[k].log.block \in Int
  BY PlaceIs DEF LogPc
<1>4. PendingSum(task', x) <= PendingSum(task, x)
  BY <1>2, <1>3, PendingLess
<1>5. /\ CountedBy(docs, task)[x] = BlockSum(docs, x) + PendingSum(task, x)
      /\ CountedBy(docs', task')[x] = BlockSum(docs', x) + PendingSum(task', x)
      /\ BlockSum(docs, x) \in Nat /\ PendingSum(task, x) \in Nat /\ PendingSum(task', x) \in Nat
  BY <1>1, CountedIs
<1>6. BlockSum(docs', x) = BlockSum(docs, x)
  OBVIOUS
<1> QED
  BY <1>4, <1>5, <1>6

\* One call goes on, counts nothing more and leaves the window alone.
LEMMA CallInTurn ==
    ASSUME PlaceInv, PlaceInv', TurnInv, NEW k \in Tasks, NEW next, Becomes(k, next),
           UNCHANGED <<entries, head>>, blocks' \subseteq blocks,
           task[k].pc # "idle" \/ blocks # {} \/ logs # {},
           \A x \in Int : CountedBy(docs', task')[x] <= CountedBy(docs, task)[x],
           next.kind # "boot" => dbHeight <= dbHeight',
           Rebuilds(task[k]) => Rebuilds(next),
           next.kind = "block" => \/ task[k].kind = "block" /\ next.block = task[k].block
                                  \/ next.block \in blocks,
           next.kind = "boot" <=> task[k].kind = "boot",
           HeightStored(next)', BootKnows(next)'
    PROVE  TurnInv'
<1>1. task'[k] = next /\ \A j \in Tasks \ {k} : task'[j] = task[j]
  BY PlaceIs, BecomesTasks
<1>2. \A j \in Tasks \ {k} : task[j].kind # "boot"
  BY PlaceIs, NoOtherBoot
<1>3. Booting' <=> Booting
  BY <1>1 DEF Booting
<1>4. Rebuilding => Rebuilding'
  <2>1. Rebuilding' <=> \E j \in Tasks : Rebuilds(task'[j])
    BY DEF Rebuilding, Rebuilds
  <2> QED
    BY <1>1, <2>1, RebuildingIs
<1>5. UpTo(entries', head') /\ Limited'
  BY LimitedStays DEF TurnInv
<1>6. ASSUME NEW j \in Tasks PROVE BootKnows(task[j])'
  <2>1. CASE j = k
    BY <1>1, <2>1 DEF BootKnows
  <2>2. CASE j # k
    BY <1>1, <1>2, <2>2 DEF BootKnows
  <2> QED
    BY <2>1, <2>2
<1>7. ASSUME ~ Booting'
      PROVE  /\ Ordered' /\ Counts(entries', dbHeight', CountedBy(docs', task'))
             /\ \A j \in Tasks : HeightStored(task[j])'
  <2>1. /\ Ordered /\ Counts(entries, dbHeight, CountedBy(docs, task))
        /\ \A j \in Tasks : HeightStored(task[j])
    BY <1>3, <1>7 DEF TurnInv, Built
  <2>2. /\ dbHeight \in Nat /\ dbHeight' \in Nat /\ dbHeight <= dbHeight'
        /\ IsDocs(docs) /\ IsDocs(docs') /\ entries \in Seq(Entry)
        /\ \A j \in Tasks : task[j].block \in Nat
    <3>1. next.kind # "boot"
      BY <1>1, <1>7 DEF Booting
    <3>2. dbHeight' \in Nat /\ docs' \in [Burns -> Seq(Doc)]
      BY DEF PlaceInv, Settled, WellFormed, WatcherTypeOK, RecordsTypeOK
    <3> QED
      BY <3>1, <3>2, PlaceIs DEF IsDocs
  <2>3. Ordered'
    <3> SUFFICES ASSUME ~ Rebuilding' PROVE Ordered'
      BY DEF Ordered
    <3>1. /\ Spaced(entries) /\ \A n \in blocks : Fits(entries, n)
          /\ \A j \in Tasks : task[j].kind = "block" => Fits(entries, task[j].block)
      BY <1>4, <2>1 DEF Ordered
    <3>2. ASSUME NEW j \in Tasks, task'[j].kind = "block" PROVE Fits(entries, task'[j].block)
      BY <1>1, <3>1, <3>2
    <3> QED
      BY <3>1, <3>2 DEF Ordered
  <2>4. ASSUME NEW x \in Int, dbHeight' - Half < x
        PROVE  Holds(entries', x, CountedBy(docs', task')[x])
    <3> DEFINE height == dbHeight
               later  == dbHeight'
    <3>1. /\ height \in Nat /\ later \in Nat /\ height <= later
          /\ Half \in Nat /\ later - Half < x
      BY <2>2, <2>4, HalfIs
    <3> HIDE DEF height, later
    <3>2. height - Half < x
      BY <3>1
    <3>3. dbHeight - Half < x
      BY <3>2 DEF height
    <3>4. Holds(entries, x, CountedBy(docs, task)[x])
      BY <2>1, <3>3 DEF Counts
    <3>5. CountedBy(docs, task)[x] \in Nat /\ CountedBy(docs', task')[x] \in Nat
      BY <2>2, CountedIs
    <3> QED
      BY <2>2, <3>4, <3>5, HoldsLess
  <2>5. ASSUME NEW j \in Tasks PROVE HeightStored(task[j])'
    <3>1. CASE j = k
      BY <1>1, <3>1 DEF HeightStored
    <3>2. CASE j # k
      BY <1>1, <2>1, <2>2, <3>2 DEF HeightStored
    <3> QED
      BY <3>1, <3>2
  <2> QED
    BY <2>3, <2>4, <2>5 DEF Counts
<1> QED
  BY <1>5, <1>6, <1>7 DEF TurnInv, Built

\* A new handler of a log or of a block.
LEMMA TakeInTurn ==
    ASSUME PlaceInv, TurnInv, NEW k \in Tasks, TakeLog(k) \/ TakeBlock(k)
    PROVE  TurnInv'
<1>1. /\ PlaceInv' /\ WellFormed /\ dbHeight \in Nat
      /\ UNCHANGED <<docs, entries, head, dbHeight>>
  BY PlaceIs, TakeInPlace DEF TakeLog, TakeBlock, recordVars, chainVars, heightVars
<1>2. task[k].pc = "idle" /\ task[k].kind = "event"
  BY PlaceIs DEF TakeLog, TakeBlock, TaskOK
<1>3. ~ Rebuilds(task[k])
  BY <1>2 DEF Rebuilds
<1>4. CASE TakeLog(k)
  <2>1. PICK l \in logs, next \in Task :
          Becomes(k, next) /\ next.pc = "lookup" /\ next.kind = "event"
    BY <1>1, <1>4, TakeLogIs
  <2>2. HeightStored(next)' /\ BootKnows(next)' /\ UNCHANGED blocks
    BY <1>4, <2>1 DEF HeightStored, BootKnows, TakeLog
  <2>3. \A x \in Int : CountedBy(docs', task')[x] <= CountedBy(docs, task)[x]
    BY <1>1, <2>1, CountedLess
  <2> QED
    BY <1>1, <1>2, <1>3, <2>1, <2>2, <2>3, CallInTurn
<1>5. CASE TakeBlock(k)
  <2>1. PICK n \in blocks, next \in Task :
          /\ blocks' = blocks \ {n} /\ Becomes(k, next)
          /\ next.pc = "heights" /\ next.kind = "block" /\ next.block = n
    BY <1>1, <1>5, TakeBlockIs
  <2>2. HeightStored(next)' /\ BootKnows(next)'
    BY <2>1 DEF HeightStored, BootKnows
  <2>3. \A x \in Int : CountedBy(docs', task')[x] <= CountedBy(docs, task)[x]
    BY <1>1, <2>1, CountedLess
  <2> QED
    BY <1>1, <1>2, <1>3, <2>1, <2>2, <2>3, CallInTurn
<1> QED
  BY <1>4, <1>5

-----------------------------------------------------------------------------
\* What a step of a log makes of its call, and when it is about to record.
LEMMA LogStepGoesOn ==
    ASSUME WellFormed, NEW k \in Tasks, LogStep(k)
    PROVE  \E next :
              /\ Becomes(k, next)
              /\ next.kind = task[k].kind /\ next.block = task[k].block
              /\ next.pc \in {"idle", "setHeight"} \cup LogPc
              /\ task[k].kind # "event" => next.pc # "idle"
              /\ next.pc = "save" => /\ AdmitLog(k)
                                     /\ next.clean = Clean(task[k].log.tx)
                                     /\ next.log = task[k].log
<1>1. /\ task[k] \in Task /\ TaskOK(task[k])
      /\ task[k].todo \in SUBSET Log /\ \A l \in task[k].todo : ~ l.removed
  BY TaskIs
<1>2. CASE AdmitLog(k)
  <2>1. PICK next : /\ Becomes(k, next) /\ SameCall(task[k], next)
                    /\ next.pc = "save" /\ next.clean = Clean(task[k].log.tx)
    BY <1>2, AdmitLogIs
  <2> QED
    BY <1>2, <2>1 DEF SameCall, LogPc
<1>3. CASE TakeBack(k) \/ Revert(k)
  <2>1. PICK next : /\ Becomes(k, next) /\ SameCall(task[k], next)
                    /\ next.pc \in {"revert", "remove"}
    BY <1>3, RemovalIs
  <2> QED
    BY <2>1 DEF SameCall, LogPc
<1>4. CASE EndOfLog(k)
  <2>1. PICK next \in Proceed(task[k], task[k].todo) : Becomes(k, next)
    BY <1>4, EndOfLogIs
  <2>2. CASE task[k].kind = "event"
    <3>1. next = IdleTask /\ task[k].block = 0
      BY <1>1, <2>2, ProceedIs DEF TaskOK
    <3>2. IdleTask.kind = "event" /\ IdleTask.pc = "idle" /\ IdleTask.block = 0
      BY DEF IdleTask
    <3> QED
      BY <2>1, <2>2, <3>1, <3>2
  <2>3. CASE task[k].kind # "event"
    <3>1. /\ next.kind = task[k].kind /\ next.block = task[k].block
          /\ next.pc \in {"lookup", "setHeight"}
      BY <1>1, <2>3, ProceedIs
    <3> QED
      BY <2>1, <3>1 DEF LogPc
  <2> QED
    BY <2>2, <2>3
<1> QED
  BY <1>2, <1>3, <1>4 DEF LogStep, IgnoreLog, SaveLog, RecordRemoved, LogFails

\* A burn is recorded: what was pending of it is recorded now.
LEMMA SaveCounted ==
    ASSUME PlaceInv, PlaceInv', NEW k \in Tasks, SaveLog(k), NEW next, Becomes(k, next),
           next.pc # "save"
    PROVE  \A x \in Int : CountedBy(docs', task')[x] <= CountedBy(docs, task)[x]
<1> DEFINE t == task[k].log.tx
           m == task[k].log.block
           new(x) == IF x = m /\ task[k].clean THEN Amount[t] ELSE 0
<1>1. /\ LogStep(k) /\ task[k].pc = "save" /\ task[k].pc \in LogPc
      /\ IsDocs(docs) /\ t \in Burns /\ m \in Int /\ Amount[t] \in Nat
      /\ task[k] \in Task
  BY PlaceIs DEF LogStep, SaveLog, LogPc
<1>2. IsDocs(docs')
  <2>1. docs' \in [Burns -> Seq(Doc)]
    BY DEF PlaceInv, Settled, WellFormed, WatcherTypeOK, RecordsTypeOK
  <2> QED
    BY <2>1 DEF IsDocs
<1>3. \A x \in Int : BlockSum(docs', x) = BlockSum(docs, x) + new(x)
  BY <1>1, LogStepDocs
<1>4. task'[k] = next /\ \A j \in Tasks \ {k} : task'[j] = task[j]
  BY PlaceIs, BecomesTasks
<1>5. CASE task[k].clean
  <2>1. ~ (task'[k].pc = "save" /\ task'[k].clean) /\ \A j \in Tasks \ {k} : task[j] = task'[j]
    BY <1>4
  <2>2. ASSUME NEW x \in Int
        PROVE  PendingSum(task, x) = PendingSum(task', x) + (IF x = m THEN Amount[t] ELSE 0)
    BY <1>1, <1>5, <2>1, PendingAdds
  <2>3. \A x \in Int : new(x) = IF x = m THEN Amount[t] ELSE 0
    BY <1>5
  <2> HIDE DEF t, m, new
  <2>4. ASSUME NEW x \in Int PROVE CountedBy(docs', task')[x] <= CountedBy(docs, task)[x]
    <3>1. /\ CountedBy(docs, task)[x] = BlockSum(docs, x) + PendingSum(task, x)
          /\ CountedBy(docs', task')[x] = BlockSum(docs', x) + PendingSum(task', x)
          /\ BlockSum(docs, x) \in Nat /\ PendingSum(task', x) \in Nat
      BY <1>1, <1>2, CountedIs
    <3> QED
      BY <1>1, <1>3, <2>2, <2>3, <3>1
  <2> QED
    BY <2>4
<1>6. CASE ~ task[k].clean
  <2>1. \A x \in Int : BlockSum(docs', x) = BlockSum(docs, x)
    <3>1. \A x \in Int : new(x) = 0 /\ BlockSum(docs, x) \in Nat
      BY <1>1, <1>6, BlockSumNat
    <3> HIDE DEF new
    <3> QED
      BY <1>3, <3>1
  <2> QED
    BY <2>1, CountedLess
<1> QED
  BY <1>5, <1>6

\* A step of a log that counts nothing in the window.
LEMMA LogStepInTurn ==
    ASSUME PlaceInv, TurnInv, NEW k \in Tasks, LogStep(k),
           ~ (AdmitLog(k) /\ Clean(task[k].log.tx))
    PROVE  TurnInv'
<1>1. PlaceInv' /\ WellFormed /\ dbHeight \in Nat
  BY PlaceIs, LogStepInPlace
<1>2. UNCHANGED <<entries, head, dbHeight, blocks>> /\ task[k].pc \in LogPc
  BY DEF LogStep, IgnoreLog, AdmitLog, Admit, SaveLog, TakeBack, Revert, RecordRemoved, LogFails,
         UnchangedByLog, recordVars, chainVars, noticeVars, heightVars, LogPc
<1>3. PICK next :
         /\ Becomes(k, next)
         /\ next.kind = task[k].kind /\ next.block = task[k].block
         /\ next.pc \in {"idle", "setHeight"} \cup LogPc
         /\ task[k].kind # "event" => next.pc # "idle"
         /\ next.pc = "save" => /\ AdmitLog(k)
                                /\ next.clean = Clean(task[k].log.tx)
                                /\ next.log = task[k].log
  BY <1>1, LogStepGoesOn
<1>4. ~ (next.pc = "save" /\ next.clean)
  BY <1>3
<1>5. \A x \in Int : CountedBy(docs', task')[x] <= CountedBy(docs, task)[x]
  <2>1. CASE SaveLog(k)
    <3>1. next.pc # "save"
      BY <1>3, <2>1 DEF SaveLog, AdmitLog
    <3> QED
      BY <1>1, <1>3, <2>1, <3>1, SaveCounted
  <2>2. CASE ~ SaveLog(k)
    <3>1. \A b \in Int : BlockSum(docs', b) = BlockSum(docs, b)
      BY <2>2, LogStepDocs
    <3> QED
      BY <1>1, <1>3, <1>4, <3>1, CountedLess
  <2> QED
    BY <2>1, <2>2
<1>6. next.pc \notin {"sums", "setSums", "getLogs"} /\ task[k].pc # "getLogs" /\ task[k].pc # "idle"
  BY <1>2, <1>3 DEF LogPc
<1>7. HeightStored(next)'
  BY <1>6 DEF HeightStored
<1>8. BootKnows(next)'
  <2> SUFFICES ASSUME next.kind = "boot"
               PROVE  /\ entries' = <<>> /\ dbHeight' # 0 /\ next.block # 0
                      /\ DocsUpTo(docs', next.block)
    BY <1>4, <1>6 DEF BootKnows
  <2>1. /\ entries = <<>> /\ dbHeight # 0
        /\ task[k].block # 0 /\ DocsUpTo(docs, task[k].block)
    BY <1>3, <1>6 DEF TurnInv, BootKnows
  <2>2. task[k].log.block <= task[k].block /\ task[k].block \in Int
    BY <1>2, <1>3, PlaceIs DEF PlaceInv, LogsKept, Latest
  <2>3. DocsUpTo(docs', task[k].block)
    BY <2>1, <2>2, LogStepDocs
  <2> QED
    BY <1>2, <1>3, <2>1, <2>3
<1>9. Rebuilds(task[k]) => Rebuilds(next)
  BY <1>3 DEF Rebuilds
<1> QED
  BY <1>1, <1>2, <1>3, <1>5, <1>6, <1>7, <1>8, <1>9, CallInTurn

\* A burn without risks is counted in turn.
LEMMA AdmitInTurn ==
    ASSUME PlaceInv, TurnInv, NEW k \in Tasks, AdmitLog(k), Clean(task[k].log.tx),
           ~ CountsLate(k)
    PROVE  TurnInv'
<1> DEFINE t == task[k].log.tx
           b == task[k].log.block
           a == Amount[t]
           C == CountedBy(docs, task)
           D == CountedBy(docs', task')
<1>1. /\ LogStep(k) /\ PlaceInv' /\ WellFormed /\ dbHeight \in Nat /\ head \in Nat
      /\ entries \in Seq(Entry) /\ IsDocs(docs)
      /\ blocks \subseteq Nat /\ \A j \in Tasks : task[j].block \in Nat
      /\ UNCHANGED <<docs, head, dbHeight, blocks>>
      /\ task[k].pc = "lookup"
  BY PlaceIs, LogStepInPlace DEF LogStep, AdmitLog, UnchangedByLog, chainVars, noticeVars, heightVars
<1>2. t \in Burns /\ b \in Nat /\ a \in Nat /\ b <= head
  BY <1>1, PlaceIs DEF LogPc
<1>3. entries' = IncrementOrCreate(entries, b, a)
  BY DEF AdmitLog, Admit
<1>4. ~ (dbHeight > b) /\ task[k].kind # "boot"
  BY DEF CountsLate
<1>5. Rebuilding \/ UpTo(entries, b) \/ \E i \in 1..Len(entries) : entries[i].block = b
  <2>1. DOMAIN entries = 1..Len(entries) /\ \A i \in 1..Len(entries) : entries[i].block \in Int
    BY <1>1, EntryIs
  <2>2. Rebuilding \/ ~ Passed(b) \/ HasEntry(b)
    BY DEF CountsLate
  <2> HIDE DEF b
  <2>3. ~ Passed(b) => UpTo(entries, b)
    BY <1>2, <2>1 DEF Passed, UpTo
  <2> QED
    BY <2>1, <2>2, <2>3 DEF HasEntry
<1>6. PICK next : /\ Becomes(k, next) /\ SameCall(task[k], next)
                  /\ next.pc = "save" /\ next.clean = Clean(t)
  BY <1>1, AdmitLogIs
<1>7. /\ task'[k] = next /\ \A j \in Tasks \ {k} : task'[j] = task[j]
      /\ \A j \in Tasks : task'[j].kind = task[j].kind /\ task'[j].block = task[j].block
  BY <1>1, <1>6, BecomesTasks DEF SameCall
<1>8. \A j \in Tasks : task[j].kind # "boot" /\ task'[j].kind # "boot"
  BY <1>1, <1>4, <1>7, NoOtherBoot DEF PlaceInv
<1>9. Ordered /\ Counts(entries, dbHeight, C) /\ \A j \in Tasks : HeightStored(task[j])
  BY <1>8 DEF TurnInv, Built, Booting
<1>10. /\ \A x \in Int : C[x] \in Nat
       /\ \A x \in Int : D[x] = C[x] + (IF x = b THEN a ELSE 0)
  <2>1. ASSUME NEW x \in Int
        PROVE  PendingSum(task', x) = PendingSum(task, x) + (IF x = b THEN a ELSE 0)
    <3>1. /\ task'[k].pc = "save" /\ task'[k].clean
          /\ task'[k].log.tx = t /\ task'[k].log.block = b
          /\ ~ (task[k].pc = "save" /\ task[k].clean)
      BY <1>1, <1>6, <1>7 DEF SameCall
    <3>2. \A j \in Tasks \ {k} : task'[j] = task[j]
      BY <1>7
    <3>3. t \in Burns /\ b \in Int /\ task[k] \in Task /\ task'[k] \in Task
      BY <1>1, <1>2, <1>6, <1>7, PlaceIs DEF Becomes
    <3>4. PendingSum(task', x) = PendingSum(task, x) + (IF x = b THEN Amount[t] ELSE 0)
      <4>1. task'[k].log.tx \in Burns /\ task'[k].log.block \in Int
        BY <3>1, <3>3
      <4>2. PendingSum(task', x) = PendingSum(task, x) +
               (IF x = task'[k].log.block THEN Amount[task'[k].log.tx] ELSE 0)
        BY <3>1, <3>2, <3>3, <4>1, PendingAdds
      <4> QED
        BY <3>1, <4>2
    <3> QED
      BY <3>4
  <2> HIDE DEF b, a
  <2>2. ASSUME NEW x \in Int
        PROVE  C[x] \in Nat /\ D[x] = C[x] + (IF x = b THEN a ELSE 0)
    <3>1. /\ C[x] = BlockSum(docs, x) + PendingSum(task, x)
          /\ D[x] = BlockSum(docs, x) + PendingSum(task', x)
          /\ C[x] \in Nat /\ BlockSum(docs, x) \in Nat /\ PendingSum(task, x) \in Nat
      BY <1>1, CountedIs
    <3> HIDE DEF C, D
    <3> QED
      BY <1>2, <2>1, <3>1
  <2> QED
    BY <2>2
<1>11. Rebuilding => Rebuilding'
  <2>1. Rebuilding' <=> \E j \in Tasks : Rebuilds(task'[j])
    BY DEF Rebuilding, Rebuilds
  <2>2. Rebuilds(task[k]) => Rebuilds(next)
    BY <1>6 DEF Rebuilds, SameCall, LogPc
  <2> QED
    BY <1>7, <2>1, <2>2, RebuildingIs
<1> HIDE DEF t, b, a, C, D
<1>12. Ordered'
  <2> SUFFICES ASSUME ~ Rebuilding' PROVE Ordered'
    BY DEF Ordered
  <2>1. /\ Spaced(entries) /\ \A n \in blocks : Fits(entries, n)
        /\ \A j \in Tasks : task[j].kind = "block" => Fits(entries, task[j].block)
    BY <1>9, <1>11 DEF Ordered
  <2>2. /\ Spaced(entries) => Spaced(entries')
        /\ \A m \in Int : Fits(entries, m) => Fits(entries', m)
    <3>1. UpTo(entries, b) \/ \E i \in 1..Len(entries) : entries[i].block = b
      BY <1>5, <1>11
    <3>2. entries \in Seq(Entry) /\ b \in Int /\ a \in Nat
      BY <1>1, <1>2
    <3>3. /\ Spaced(entries) => Spaced(IncrementOrCreate(entries, b, a))
          /\ \A m \in Int : Fits(entries, m) => Fits(IncrementOrCreate(entries, b, a), m)
      BY <3>1, <3>2, IncrementFits
    <3> QED
      BY <1>3, <3>3
  <2>3. blocks' = blocks /\ blocks \subseteq Nat
    BY <1>1
  <2>4. \A n \in blocks' : Fits(entries', n)
    BY <2>1, <2>2, <2>3
  <2>5. ASSUME NEW j \in Tasks, task'[j].kind = "block" PROVE Fits(entries', task'[j].block)
    <3>1. task[j].kind = "block" /\ task'[j].block = task[j].block /\ task[j].block \in Int
      BY <1>1, <1>7, <2>5
    <3> QED
      BY <2>1, <2>2, <3>1
  <2> QED
    BY <2>1, <2>2, <2>4, <2>5 DEF Ordered
<1>13. ASSUME NEW x \in Int, dbHeight' - Half < x
       PROVE  Holds(entries', x, D[x])
  <2>1. Holds(entries, x, C[x])
    BY <1>1, <1>9, <1>13 DEF Counts
  <2>2. Holds(entries', x, IF x = b THEN C[x] + a ELSE C[x])
    BY <1>1, <1>2, <1>3, <1>10, <2>1, IncrementHolds
  <2>3. D[x] = IF x = b THEN C[x] + a ELSE C[x]
    BY <1>2, <1>10
  <2> QED
    BY <2>2, <2>3
<1>14. ASSUME NEW j \in Tasks PROVE HeightStored(task[j])'
  <2>1. HeightStored(task[j])
    BY <1>9
  <2> QED
    BY <1>1, <1>6, <1>7, <2>1 DEF HeightStored
<1>15. ASSUME NEW c \in Int PROVE OverHalf(D, c) <= WindowLimit
  <2>1. OverHalf(D, c) = OverHalf(C, c) + (IF c <= b /\ b < c + Half THEN a ELSE 0)
    <3>1. b \in Int /\ a \in Nat /\ \A x \in Int : C[x] \in Nat
      BY <1>2, <1>10
    <3>2. \A x \in Int : D[x] = C[x] + (IF x = b THEN a ELSE 0)
      BY <1>10
    <3> QED
      BY <3>1, <3>2, OverHalfAdds
  <2>2. OverHalf(C, c) \in Nat /\ WindowLimit \in Nat /\ Half \in Nat
    BY <1>10, OverHalfNat, HalfIs, PolicyAssumption
  <2>3. CASE c <= b /\ b < c + Half
    <3>1. ASSUME NEW x \in Int, c <= x, x < c + Half PROVE Holds(entries, x, C[x])
      <4> DEFINE height == dbHeight
      <4>1. height \in Nat /\ ~ (height > b)
        BY <1>1, <1>4
      <4> HIDE DEF height
      <4>2. height - Half < x
        BY <1>2, <2>2, <2>3, <3>1, <4>1
      <4> QED
        BY <1>9, <4>2 DEF Counts, height
    <3>2. OverHalf(C, c) <= TotalSum(entries)
      BY <1>1, <1>10, <3>1, OverHalfHeld
    <3>3. a <= WindowLimit - TotalSum(entries)
      BY DEF Clean, t, a
    <3>4. TotalSum(entries) \in Nat
      BY <1>1, TotalType
    <3> QED
      BY <1>2, <2>1, <2>2, <2>3, <3>2, <3>3, <3>4
  <2>4. CASE ~ (c <= b /\ b < c + Half)
    <3>1. OverHalf(C, c) <= WindowLimit
      BY DEF TurnInv, Limited, C
    <3> QED
      BY <2>1, <2>2, <2>4, <3>1
  <2> QED
    BY <2>3, <2>4
<1>16. UpTo(entries', head')
  BY <1>1, <1>2, <1>3, IncrementUpTo DEF TurnInv
<1>17. \A j \in Tasks : BootKnows(task[j])'
  BY <1>8 DEF BootKnows
<1>18. Counts(entries', dbHeight', D)
  BY <1>13 DEF Counts
<1> QED
  BY <1>12, <1>14, <1>15, <1>16, <1>17, <1>18 DEF TurnInv, Built, Limited, D

-----------------------------------------------------------------------------
\* A backfill that leaves the window alone.
LEMMA BackfillInTurn ==
    ASSUME PlaceInv, TurnInv, NEW k \in Tasks, BackfillStep(k), ~ SetSums(k),
           ~ StoresEarlierHeight(k), ~ LeavesUnbuilt(k)
    PROVE  TurnInv'
<1>1. /\ PlaceInv' /\ WellFormed /\ dbHeight \in Nat /\ head \in Nat /\ dbHeight <= head
      /\ task[k].block \in Nat
  BY PlaceIs, BackfillStepInPlace
<1>2. /\ UNCHANGED <<docs, entries, head, blocks>>
      /\ task[k].pc \in {"getLogs", "setHeight", "sums"}
      /\ task[k].kind # "event"
  <2>1. /\ UNCHANGED <<docs, entries, head, blocks>>
        /\ task[k].pc \in {"getLogs", "setHeight", "sums"}
    BY DEF BackfillStep, GetLogs, StoreBackfilled, ReadSums, BackfillFails,
           recordVars, chainVars, noticeVars
  <2>2. TaskOK(task[k])
    BY PlaceIs
  <2> QED
    BY <2>1, <2>2 DEF TaskOK, LogPc
<1>3. ASSUME NEW next, Becomes(k, next), next.pc # "save",
             next.kind = task[k].kind,
             next.kind = "block" => next.block = task[k].block,
             next.kind # "boot" => dbHeight <= dbHeight',
             Rebuilds(task[k]) => Rebuilds(next), HeightStored(next)', BootKnows(next)'
      PROVE  TurnInv'
  <2>1. \A x \in Int : CountedBy(docs', task')[x] <= CountedBy(docs, task)[x]
    BY <1>1, <1>2, <1>3, CountedLess
  <2> QED
    BY <1>1, <1>2, <1>3, <2>1, CallInTurn
<1>4. BootKnows(task[k])
  BY DEF TurnInv
<1>5. CASE GetLogs(k)
  <2> DEFINE found == LogsBetween(task[k].from, LastBlock(k))
  <2>1. PICK next : /\ Becomes(k, next) /\ next.kind = task[k].kind
                    /\ next.block = LastBlock(k) /\ next.pc \in {"lookup", "setHeight"}
    BY <1>1, <1>5, GetLogsIs
  <2>2. task[k].pc = "getLogs" /\ UNCHANGED dbHeight
    BY <1>5 DEF GetLogs, heightVars
  <2>3. ~ Rebuilds(task[k]) /\ HeightStored(next)' /\ next.pc # "save"
    BY <2>1, <2>2 DEF Rebuilds, LogPc, HeightStored
  <2>4. BootKnows(next)'
    <3> SUFFICES ASSUME next.kind = "boot"
                 PROVE  /\ entries' = <<>> /\ dbHeight' # 0 /\ next.block # 0
                        /\ DocsUpTo(docs', next.block)
      BY <2>1, <2>3 DEF BootKnows
    <3>1. next.block = head /\ entries = <<>> /\ dbHeight # 0 /\ DocsUpTo(docs, head)
      BY <1>4, <2>1 DEF LastBlock, BootKnows, PlaceInv
    <3> QED
      BY <1>1, <1>2, <2>2, <3>1
  <2>5. next.kind = "block" => next.block = task[k].block
    BY <2>1 DEF LastBlock
  <2> QED
    BY <1>1, <1>3, <2>1, <2>2, <2>3, <2>4, <2>5
<1>6. CASE StoreBackfilled(k)
  <2>1. PICK next : Becomes(k, next) /\ SameCall(task[k], next) /\ next.pc = "sums"
    BY <1>1, <1>6, StoreBackfilledIs
  <2>2. /\ task[k].pc = "setHeight" /\ dbHeight' = task[k].block
        /\ ~ (dbHeight > task[k].block)
    BY <1>6 DEF StoreBackfilled, StoresEarlierHeight
  <2>3. /\ HeightStored(next)' /\ next.pc # "save"
        /\ next.kind = task[k].kind /\ next.block = task[k].block
    BY <1>1, <2>1, <2>2 DEF HeightStored, SameCall
  <2>4. Rebuilds(task[k]) => Rebuilds(next)
    BY <2>1, <2>3 DEF Rebuilds
  <2>5. BootKnows(next)'
    BY <1>2, <1>4, <2>1, <2>2, <2>3 DEF BootKnows
  <2>6. dbHeight <= dbHeight'
    BY <1>1, <2>2
  <2> QED
    BY <1>3, <2>1, <2>3, <2>4, <2>5, <2>6
<1>7. CASE ReadSums(k)
  <2>1. PICK next : /\ Becomes(k, next) /\ SameCall(task[k], next) /\ next.pc = "setSums"
                    /\ next.sums = BlockSums(docs, task[k].block, WindowSize)
    BY <1>1, <1>7, ReadSumsIs
  <2>2. task[k].pc = "sums" /\ UNCHANGED dbHeight
    BY <1>7 DEF ReadSums, heightVars
  <2>3. next.pc # "save" /\ next.kind = task[k].kind /\ next.block = task[k].block
    BY <2>1 DEF SameCall
  <2>4. Rebuilds(task[k]) => Rebuilds(next)
    BY <2>1, <2>3 DEF Rebuilds
  <2>5. BootKnows(next)'
    BY <1>2, <1>4, <2>1, <2>2, <2>3 DEF BootKnows
  <2>6. HeightStored(next)'
    <3> SUFFICES ASSUME next.kind = "block" PROVE next.block <= dbHeight'
      BY DEF HeightStored
    <3>1. ~ Booting
      BY <2>2, <2>3, NoOtherBoot DEF PlaceInv, Booting
    <3> QED
      BY <2>2, <2>3, <3>1 DEF TurnInv, Built, HeightStored
  <2> QED
    BY <1>1, <1>3, <2>1, <2>2, <2>3, <2>4, <2>5, <2>6
<1>8. CASE BackfillFails(k)
  <2>1. task[k].kind # "boot" /\ task[k].pc = "getLogs"
    BY <1>8 DEF LeavesUnbuilt
  <2>2. AfterBackfill(k) /\ UNCHANGED dbHeight
    BY <1>8 DEF BackfillFails, heightVars
  <2>3. PICK next : /\ Becomes(k, next) /\ next.kind = "block"
                    /\ next.block = task[k].block /\ next.pc = "query"
    BY <1>1, <2>1, <2>2, AfterBackfillIs
  <2>4. task[k].kind = "block"
    BY <1>1, <2>1, <2>2, AfterBackfillIs
  <2>5. ~ Rebuilds(task[k]) /\ HeightStored(next)' /\ BootKnows(next)'
    BY <2>1, <2>3 DEF Rebuilds, LogPc, HeightStored, BootKnows
  <2> QED
    BY <1>1, <1>3, <2>2, <2>3, <2>4, <2>5
<1> QED
  BY <1>5, <1>6, <1>7, <1>8 DEF BackfillStep

\* The window is rebuilt from the records up to block b, and there is no more to count.
LEMMA RebuiltInTurn ==
    ASSUME PlaceInv, PlaceInv', NEW b \in Nat, b <= head, b <= dbHeight', UNCHANGED <<docs, head>>,
           entries' = BlockSums(docs, b, WindowSize),
           \A j \in Tasks : ~ (task'[j].pc = "save" /\ task'[j].clean),
           \A x \in Int : dbHeight' - Half < x /\ b < x => BlockSum(docs, x) = 0,
           \A j \in Tasks : task'[j].kind # "boot" /\ HeightStored(task[j])',
           Limited'
    PROVE  TurnInv'
<1>1. /\ docs \in [Burns -> Seq(Doc)] /\ IsDocs(docs) /\ head \in Nat
      /\ blocks' \subseteq Nat /\ \A j \in Tasks : task'[j].block \in Nat
  <2>1. WellFormed'
    BY DEF PlaceInv, Settled
  <2>2. blocks' \subseteq Nat /\ \A j \in Tasks : task'[j].block \in Nat
    BY <2>1 DEF WellFormed, WatcherTypeOK, ChainTypeOK, Task
  <2> QED
    BY <2>2, PlaceIs
<1>2. /\ Spaced(entries') /\ UpTo(entries', b)
      /\ \A m \in Int : Fits(entries', m)
      /\ \A x \in Int : b - WindowSize < x /\ (b < x => BlockSum(docs, x) = 0)
                           => Holds(entries', x, BlockSum(docs, x))
  BY <1>1, BlockSumsHold
<1>3. Ordered'
  BY <1>1, <1>2 DEF Ordered
<1>4. ASSUME NEW x \in Int, dbHeight' - Half < x
      PROVE  Holds(entries', x, CountedBy(docs', task')[x])
  <2>1. b - WindowSize < x
    <3> DEFINE later == dbHeight'
    <3>1. /\ later - Half < x /\ b <= later
          /\ Half \in Nat /\ 2 * Half <= WindowSize /\ WindowSize \in Nat
      BY <1>4, HalfIs
    <3>2. later \in Nat
      BY DEF PlaceInv, Settled, WellFormed, WatcherTypeOK
    <3> HIDE DEF later
    <3> QED
      BY <3>1, <3>2
  <2>2. Holds(entries', x, BlockSum(docs, x))
    BY <1>2, <1>4, <2>1
  <2>3. PendingSum(task', x) = 0
    BY PendingNone
  <2>4. CountedBy(docs', task')[x] = BlockSum(docs, x)
    <3>1. /\ CountedBy(docs, task')[x] = BlockSum(docs, x) + PendingSum(task', x)
          /\ BlockSum(docs, x) \in Nat
      BY <1>1, CountedIs
    <3> QED
      BY <2>3, <3>1
  <2> QED
    BY <2>2, <2>4
<1>5. UpTo(entries', head')
  <2>1. entries' \in Seq(Entry)
    BY DEF PlaceInv, Settled, WellFormed, WatcherTypeOK, RecordsTypeOK
  <2>2. \A i \in 1..Len(entries') : entries'[i].block \in Int
    BY <2>1, EntryIs
  <2> QED
    BY <1>1, <1>2, <2>2 DEF UpTo
<1>6. \A j \in Tasks : BootKnows(task[j])'
  BY DEF BootKnows
<1>7. Counts(entries', dbHeight', CountedBy(docs', task'))
  BY <1>4 DEF Counts
<1> QED
  BY <1>3, <1>5, <1>6, <1>7 DEF TurnInv, Built

\* The window is rebuilt in turn.
LEMMA SetSumsInTurn ==
    ASSUME PlaceInv, TurnInv, NEW k \in Tasks, SetSums(k), ~ ReplacesCounted(k)
    PROVE  TurnInv'
<1> DEFINE b == task[k].block
<1>1. /\ PlaceInv' /\ WellFormed /\ dbHeight \in Nat /\ b \in Nat /\ b <= head
      /\ IsDocs(docs) /\ entries \in Seq(Entry)
      /\ UNCHANGED <<docs, head, dbHeight>>
      /\ task[k].pc = "setSums" /\ entries' = task[k].sums /\ AfterBackfill(k)
  BY PlaceIs, BackfillStepInPlace DEF BackfillStep, SetSums, chainVars, heightVars
<1>2. ASSUME NEW next, Becomes(k, next), next.pc # "save" PROVE Limited'
  <2>1. \A x \in Int : CountedBy(docs', task')[x] <= CountedBy(docs, task)[x]
    BY <1>1, <1>2, CountedLess
  <2> QED
    BY <1>1, <2>1, LimitedStays DEF TurnInv
<1>3. CASE task[k].kind = "block"
  <2>1. /\ task[k].sums = BlockSums(docs, b, WindowSize)
        /\ \A j \in Tasks : ~ (task[j].pc = "save" /\ task[j].clean)
        /\ ~ Passed(b)
    BY <1>3 DEF ReplacesCounted
  <2>2. PICK next : /\ Becomes(k, next) /\ next.kind = "block" /\ next.pc = "query"
    BY <1>1, <1>3, AfterBackfillIs
  <2>3. task'[k] = next /\ \A j \in Tasks \ {k} : task'[j] = task[j]
    BY <1>1, <2>2, BecomesTasks
  <2>4. \A j \in Tasks : task[j].kind # "boot"
    BY <1>1, <1>3, NoOtherBoot DEF PlaceInv
  <2>5. /\ Counts(entries, dbHeight, CountedBy(docs, task))
        /\ \A j \in Tasks : HeightStored(task[j])
    BY <2>4 DEF TurnInv, Built, Booting
  <2>6. b <= dbHeight'
    BY <1>1, <1>3, <2>5 DEF HeightStored
  <2>7. \A j \in Tasks : task'[j].kind # "boot" /\ HeightStored(task[j])'
    BY <1>1, <2>2, <2>3, <2>4, <2>5 DEF HeightStored
  <2>8. \A j \in Tasks : ~ (task'[j].pc = "save" /\ task'[j].clean)
    BY <2>1, <2>2, <2>3
  <2>9. ASSUME NEW x \in Int, dbHeight' - Half < x, b < x PROVE BlockSum(docs, x) = 0
    <3>1. Holds(entries, x, CountedBy(docs, task)[x])
      BY <1>1, <2>5, <2>9 DEF Counts
    <3>2. \A i \in 1..Len(entries) : entries[i].block # x
      <4>1. DOMAIN entries = 1..Len(entries) /\ \A i \in 1..Len(entries) : entries[i].block \in Int
        BY <1>1, EntryIs
      <4>2. \A i \in 1..Len(entries) : ~ (entries[i].block > b)
        BY <2>1, <4>1 DEF Passed
      <4> HIDE DEF b
      <4> QED
        BY <1>1, <2>9, <4>1, <4>2
    <3>3. /\ CountedBy(docs, task)[x] = BlockSum(docs, x) + PendingSum(task, x)
          /\ BlockSum(docs, x) \in Nat /\ PendingSum(task, x) \in Nat
          /\ CountedBy(docs, task)[x] \in Nat
      BY <1>1, CountedIs
    <3>4. ~ (CountedBy(docs, task)[x] > 0)
      BY <3>1, <3>2 DEF Holds, FirstAt
    <3> QED
      BY <3>3, <3>4
  <2>10. Limited'
    BY <1>2, <2>2
  <2>11. entries' = BlockSums(docs, b, WindowSize)
    BY <1>1, <2>1
  <2> HIDE DEF b
  <2> QED
    BY <1>1, <2>6, <2>7, <2>8, <2>9, <2>10, <2>11, RebuiltInTurn
<1>4. CASE task[k].kind = "boot"
  <2>1. /\ task[k].sums = BlockSums(docs, b, WindowSize)
        /\ dbHeight = b /\ DocsUpTo(docs, b)
    BY <1>1, <1>4 DEF TurnInv, BootKnows
  <2>2. Becomes(k, IdleTask)
    BY <1>1, <1>4, AfterBackfillIs
  <2>3. task'[k] = IdleTask /\ \A j \in Tasks \ {k} : task'[j] = task[j]
    BY <1>1, <2>2, BecomesTasks
  <2>4. \A j \in Tasks \ {k} : task[j] = IdleTask
    BY <1>4 DEF PlaceInv, Settled, BootAlone
  <2>5. IdleTask.pc = "idle" /\ IdleTask.kind = "event"
    BY DEF IdleTask
  <2>6. \A j \in Tasks : task'[j] = IdleTask
    BY <2>3, <2>4
  <2>7. \A j \in Tasks : task'[j].kind # "boot" /\ HeightStored(task[j])'
    BY <2>5, <2>6 DEF HeightStored
  <2>8. \A j \in Tasks : ~ (task'[j].pc = "save" /\ task'[j].clean)
    BY <2>5, <2>6
  <2>9. ASSUME NEW x \in Int, b < x PROVE BlockSum(docs, x) = 0
    <3>1. ASSUME NEW t \in Burns, NEW i \in 1..Len(docs[t]) PROVE docs[t][i].block # x
      <4>1. docs[t][i].block <= b
        BY <2>1 DEF DocsUpTo
      <4>2. docs[t][i] \in Doc
        BY PlaceIs
      <4>3. docs[t][i].block \in Nat
        BY <4>2 DEF Doc
      <4> HIDE DEF b
      <4> QED
        BY <1>1, <2>9, <4>1, <4>3
    <3> QED
      BY <1>1, <3>1, BlockSumNone
  <2>10. Limited'
    BY <1>2, <2>2, <2>5
  <2>11. entries' = BlockSums(docs, b, WindowSize) /\ b <= dbHeight'
    BY <1>1, <2>1
  <2> HIDE DEF b
  <2> QED
    BY <1>1, <2>7, <2>8, <2>9, <2>10, <2>11, RebuiltInTurn
<1> QED
  BY <1>1, <1>3, <1>4, AfterBackfillIs

\* A block gets its entry in turn.
LEMMA StoreHeightInTurn ==
    ASSUME PlaceInv, TurnInv, Half # 0, NEW k \in Tasks, StoreHeight(k), ~ StoresLate(k)
    PROVE  TurnInv'
<1> DEFINE b == task[k].block
           C == CountedBy(docs, task)
           D == CountedBy(docs', task')
<1>1. /\ PlaceInv' /\ WellFormed /\ dbHeight \in Nat /\ b \in Nat /\ b <= head /\ head \in Nat
      /\ IsDocs(docs) /\ entries \in Seq(Entry)
      /\ blocks \subseteq Nat /\ \A j \in Tasks : task[j].block \in Nat
      /\ UNCHANGED <<docs, head, blocks>>
      /\ task[k].pc = "height" /\ dbHeight' = b
      /\ entries' = AddEntry(entries, b, WindowSize)
      /\ task' = [task EXCEPT ![k] = IdleTask]
  BY PlaceIs, BlockStepInPlace DEF BlockStep, StoreHeight, chainVars, noticeVars
<1>2. ~ (dbHeight > b) /\ ~ Passed(b) /\ ~ Rebuilding
  BY DEF StoresLate
<1>3. task[k].kind = "block"
  BY <1>1, PlaceIs DEF TaskOK
<1>4. Becomes(k, IdleTask) /\ IdleTask.pc = "idle" /\ IdleTask.kind = "event"
  <2>1. IdleTask.pc = "idle" /\ IdleTask.kind = "event"
    BY DEF IdleTask
  <2> QED
    BY <1>1, <2>1, IdleIsTask DEF Becomes
<1>5. task'[k] = IdleTask /\ \A j \in Tasks \ {k} : task'[j] = task[j]
  BY <1>1, <1>4, BecomesTasks
<1>6. \A j \in Tasks : task[j].kind # "boot" /\ task'[j].kind # "boot"
  BY <1>1, <1>3, <1>4, <1>5, NoOtherBoot DEF PlaceInv
<1>7. Ordered /\ Counts(entries, dbHeight, C) /\ \A j \in Tasks : HeightStored(task[j])
  BY <1>6 DEF TurnInv, Built, Booting
<1>8. UpTo(entries, b)
  <2>1. DOMAIN entries = 1..Len(entries) /\ \A i \in 1..Len(entries) : entries[i].block \in Int
    BY <1>1, EntryIs
  <2> HIDE DEF b
  <2> QED
    BY <1>1, <1>2, <2>1 DEF Passed, UpTo
<1>9. Spaced(entries) /\ Room(entries, b)
  BY <1>2, <1>3, <1>7, <1>8 DEF Ordered, Fits
<1>10. \A x \in Int : C[x] \in Nat /\ D[x] \in Nat /\ D[x] <= C[x]
  <2>1. \A x \in Int : D[x] <= C[x]
    BY <1>1, <1>4, CountedLess
  <2> QED
    BY <1>1, <2>1, CountedIs
<1>11. b \notin blocks /\ \A j \in Tasks \ {k} : task[j].kind = "block" => task[j].block # b
  BY <1>3 DEF PlaceInv
<1> HIDE DEF b, C, D
<1>12. /\ Spaced(entries') /\ UpTo(entries', b) /\ entries' \in Seq(Entry)
       /\ \A m \in Int : m # b => Fits(entries', m)
  <2>1. entries' \in Seq(Entry)
    BY <1>1 DEF PlaceInv, Settled, WellFormed, WatcherTypeOK, RecordsTypeOK
  <2> QED
    BY <1>1, <1>8, <1>9, <2>1, AddEntrySpaced, AddEntryFits
<1>13. Ordered'
  <2>1. \A n \in blocks : Fits(entries', n)
    BY <1>1, <1>11, <1>12
  <2>2. ASSUME NEW j \in Tasks, task'[j].kind = "block" PROVE Fits(entries', task'[j].block)
    <3>1. j # k /\ task'[j] = task[j]
      BY <1>4, <1>5, <2>2
    <3>2. task[j].block # b /\ task[j].block \in Int
      BY <1>1, <1>11, <2>2, <3>1
    <3> QED
      BY <1>12, <3>1, <3>2
  <2> QED
    BY <1>1, <1>12, <2>1, <2>2 DEF Ordered
<1>14. ASSUME NEW x \in Int, dbHeight' - Half < x PROVE Holds(entries', x, D[x])
  <2>1. b - Half < x
    BY <1>1, <1>14
  <2>2. dbHeight - Half < x
    <3> DEFINE height == dbHeight
    <3>1. height \in Nat /\ ~ (height > b) /\ Half \in Nat
      BY <1>1, <1>2, HalfIs
    <3> HIDE DEF height
    <3>2. height - Half < x
      BY <1>1, <2>1, <3>1
    <3> QED
      BY <3>2 DEF height
  <2>3. Holds(entries, x, C[x])
    BY <1>7, <2>2 DEF Counts
  <2>4. Holds(entries', x, C[x])
    BY <1>1, <1>9, <1>10, <2>1, <2>3, AddEntryHolds
  <2> QED
    BY <1>10, <1>12, <2>4, HoldsLess
<1>15. ASSUME NEW j \in Tasks PROVE HeightStored(task[j])'
  <2>1. HeightStored(task[j])
    BY <1>7
  <2> QED
    BY <1>1, <1>2, <1>4, <1>5, <2>1 DEF HeightStored
<1>16. Limited'
  <2>1. \A x \in Int : CountedBy(docs', task')[x] <= CountedBy(docs, task)[x]
    BY <1>10 DEF C, D
  <2> QED
    BY <1>1, <2>1, LimitedStays DEF TurnInv
<1>17. UpTo(entries', head')
  <2>1. \A i \in 1..Len(entries') : entries'[i].block \in Int
    BY <1>12, EntryIs
  <2> QED
    BY <1>1, <1>12, <2>1 DEF UpTo
<1>18. \A j \in Tasks : BootKnows(task[j])'
  BY <1>6 DEF BootKnows
<1>19. Counts(entries', dbHeight', CountedBy(docs', task'))
  BY <1>14 DEF Counts, D
<1> QED
  BY <1>13, <1>15, <1>16, <1>17, <1>18, <1>19 DEF TurnInv, Built

\* The other awaits of the handler of a block.
LEMMA BlockInTurn ==
    ASSUME PlaceInv, TurnInv, NEW k \in Tasks, BlockStep(k), ~ StoreHeight(k)
    PROVE  TurnInv'
<1>1. /\ PlaceInv' /\ WellFormed /\ dbHeight \in Nat
      /\ UNCHANGED <<docs, entries, head, blocks, dbHeight>>
      /\ task[k].pc \in {"heights", "metric", "query", "height"} /\ task[k].kind = "block"
  <2>1. /\ UNCHANGED <<docs, entries, head, blocks, dbHeight>>
        /\ task[k].pc \in {"heights", "metric", "query", "height"}
    BY DEF BlockStep, ReadDbHeight, ReadMetricHeight, QueryToBeSent, BlockFails,
           recordVars, chainVars, noticeVars, heightVars
  <2>2. TaskOK(task[k])
    BY PlaceIs
  <2> QED
    BY <2>1, <2>2, PlaceIs, BlockStepInPlace DEF TaskOK
<1>2. ~ Rebuilds(task[k]) /\ task[k].pc # "idle"
  BY <1>1 DEF Rebuilds, LogPc
<1>3. ASSUME NEW next, Becomes(k, next), next.kind # "boot",
             next.kind = "block" => next.block = task[k].block,
             next.pc \notin {"save", "sums", "setSums"}
      PROVE  TurnInv'
  <2>1. \A x \in Int : CountedBy(docs', task')[x] <= CountedBy(docs, task)[x]
    BY <1>1, <1>3, CountedLess
  <2>2. HeightStored(next)' /\ BootKnows(next)'
    BY <1>3 DEF HeightStored, BootKnows
  <2> QED
    BY <1>1, <1>2, <1>3, <2>1, <2>2, CallInTurn
<1>4. ASSUME NEW next, Becomes(k, next), SameCall(task[k], next),
             next.pc \in {"metric", "getLogs", "query", "height"}
      PROVE  TurnInv'
  BY <1>1, <1>3, <1>4 DEF SameCall
<1>5. CASE ReadDbHeight(k)
  BY <1>1, <1>4, <1>5, ReadDbHeightIs
<1>6. CASE ReadMetricHeight(k)
  <2>1. PICK next \in Task : /\ Becomes(k, next) /\ SameCall(task[k], next)
                             /\ next.pc \in {"getLogs", "query"}
    BY <1>1, <1>6, ReadMetricHeightIs
  <2> QED
    BY <1>4, <2>1
<1>7. CASE QueryToBeSent(k)
  BY <1>1, <1>4, <1>7, QueryToBeSentIs
<1>8. CASE BlockFails(k)
  <2>1. IdleTask.kind = "event" /\ IdleTask.pc = "idle"
    BY DEF IdleTask
  <2>2. Becomes(k, IdleTask)
    BY <1>8, IdleIsTask DEF BlockFails, Becomes
  <2> QED
    BY <1>3, <2>1, <2>2
<1> QED
  BY <1>5, <1>6, <1>7, <1>8 DEF BlockStep

\* Calls stay as they are, and so do the records and the heights.
LEMMA NoCallInTurn ==
    ASSUME PlaceInv, TurnInv, UNCHANGED <<docs, task, dbHeight>>,
           UpTo(entries', head'),
           Booting => UNCHANGED entries,
           ~ Booting /\ Ordered => Ordered',
           \A x \in Int, m \in Nat : Holds(entries, x, m) => Holds(entries', x, m)
    PROVE  TurnInv'
<1>1. Booting' <=> Booting
  BY DEF Booting
<1>2. \A j \in Tasks : BootKnows(task[j])'
  <2> SUFFICES ASSUME NEW j \in Tasks, task[j].kind = "boot" PROVE BootKnows(task[j])'
    BY DEF BootKnows
  <2>1. BootKnows(task[j]) /\ UNCHANGED entries
    BY DEF TurnInv, Booting
  <2> QED
    BY <2>1 DEF BootKnows
<1>3. CountedBy(docs', task') = CountedBy(docs, task)
  OBVIOUS
<1>4. Limited'
  BY <1>3 DEF TurnInv, Limited
<1>5. ASSUME ~ Booting'
      PROVE  /\ Ordered' /\ Counts(entries', dbHeight', CountedBy(docs', task'))
             /\ \A j \in Tasks : HeightStored(task[j])'
  <2>1. /\ Ordered /\ Counts(entries, dbHeight, CountedBy(docs, task))
        /\ \A j \in Tasks : HeightStored(task[j])
    BY <1>1, <1>5 DEF TurnInv, Built
  <2>2. \A j \in Tasks : HeightStored(task[j])'
    BY <2>1 DEF HeightStored
  <2>3. \A x \in Int : CountedBy(docs, task)[x] \in Nat
    BY PlaceIs, CountedIs
  <2>4. Counts(entries', dbHeight', CountedBy(docs', task'))
    BY <1>3, <2>1, <2>3 DEF Counts
  <2> QED
    BY <1>1, <1>5, <2>1, <2>2, <2>4
<1> QED
  BY <1>2, <1>4, <1>5 DEF TurnInv, Built

\* The window gets an entry for the head of the chain when the connection is back.
LEMMA ConnectionInTurn ==
    ASSUME PlaceInv, TurnInv, Disconnect \/ Reconnect
    PROVE  TurnInv'
<1>1. /\ entries \in Seq(Entry) /\ head \in Nat /\ IsDocs(docs)
      /\ blocks \subseteq Nat /\ \A j \in Tasks : task[j].block \in Nat
      /\ UpTo(entries, head)
  BY PlaceIs DEF TurnInv
<1>2. Rebuilding' <=> Rebuilding
  BY DEF Disconnect, Reconnect, Rebuilding
<1>3. CASE Disconnect
  <2>1. UNCHANGED <<docs, entries, task, dbHeight, head>> /\ blocks' = {}
    BY <1>3 DEF Disconnect, recordVars, chainVars, heightVars
  <2>2. Ordered => Ordered'
    BY <1>2, <2>1 DEF Ordered
  <2> QED
    BY <1>1, <2>1, <2>2, NoCallInTurn
<1>4. CASE Reconnect
  <2> DEFINE a == TotalSum(BlockSums(docs, head, WindowSize))
  <2>1. /\ UNCHANGED <<docs, task, dbHeight, head, blocks>> /\ ~ Booting
        /\ entries' = IncrementOrCreate(entries, head, a)
    BY <1>4 DEF Reconnect, chainVars, noticeVars, heightVars
  <2>2. a \in Nat
    <3>1. BlockSums(docs, head, WindowSize) \in Seq(Entry)
      BY <1>1, PolicyAssumption, BlockSumsType DEF IsDocs
    <3> QED
      BY <3>1, TotalType
  <2>3. entries' \in Seq(Entry)
    BY <1>4, ConnectionInPlace DEF PlaceInv, Settled, WellFormed, WatcherTypeOK, RecordsTypeOK
  <2> HIDE DEF a
  <2>4. UpTo(entries', head')
    <3>1. head \in Int /\ head <= head
      BY <1>1
    <3>2. UpTo(IncrementOrCreate(entries, head, a), head)
      BY <1>1, <2>2, <3>1, IncrementUpTo
    <3> QED
      BY <2>1, <3>2
  <2>5. /\ Spaced(entries) => Spaced(entries')
        /\ \A m \in Int : Fits(entries, m) => Fits(entries', m)
    BY <1>1, <2>1, <2>2, IncrementFits
  <2>6. Ordered => Ordered'
    <3> SUFFICES ASSUME Ordered, ~ Rebuilding PROVE Ordered'
      BY <1>2 DEF Ordered
    <3>1. /\ Spaced(entries) /\ \A n \in blocks : Fits(entries, n)
          /\ \A j \in Tasks : task[j].kind = "block" => Fits(entries, task[j].block)
      BY DEF Ordered
    <3>2. blocks \subseteq Nat /\ \A j \in Tasks : task[j].block \in Nat
      BY <1>1
    <3>3. \A m \in Nat : Fits(entries, m) => Fits(entries', m)
      BY <2>5
    <3>4. \A n \in blocks : Fits(entries', n)
      BY <3>1, <3>2, <3>3
    <3>5. \A j \in Tasks : task[j].kind = "block" => Fits(entries', task[j].block)
      BY <3>1, <3>2, <3>3
    <3> QED
      BY <2>1, <2>5, <3>1, <3>4, <3>5 DEF Ordered
  <2>7. ASSUME NEW x \in Int, NEW m \in Nat, Holds(entries, x, m) PROVE Holds(entries', x, m)
    <3>1. Holds(entries', x, IF x = head THEN m + a ELSE m)
      BY <1>1, <2>1, <2>2, <2>7, IncrementHolds
    <3>2. m <= (IF x = head THEN m + a ELSE m) /\ (IF x = head THEN m + a ELSE m) \in Nat
      BY <2>2
    <3> QED
      BY <2>3, <3>1, <3>2, HoldsLess
  <2> QED
    BY <2>1, <2>4, <2>6, <2>7, NoCallInTurn
<1> QED
  BY <1>3, <1>4

\* A later block has room in the window.
LEMMA ChainStepInTurn ==
    ASSUME PlaceInv, TurnInv, ChainStep
    PROVE  TurnInv'
<1>1. /\ entries \in Seq(Entry) /\ head \in Nat
      /\ blocks \subseteq Nat /\ UpTo(entries, head)
      /\ UNCHANGED <<docs, entries, task, dbHeight>>
  BY PlaceIs DEF TurnInv, ChainStep, recordVars, heightVars
<1>2. /\ head' \in Nat /\ head <= head'
      /\ \A n \in blocks' : n \in blocks \/ (n \in Nat /\ n > head)
  <2>1. CASE NewBlock
    BY <1>1, <2>1 DEF NewBlock, Mine, Announce, noticeVars
  <2>2. CASE ~ NewBlock
    BY <1>1, <2>2 DEF ChainStep, Reorg
  <2> QED
    BY <2>1, <2>2
<1>3. UpTo(entries', head')
  <2>1. \A i \in 1..Len(entries) : entries[i].block \in Int
    BY <1>1, EntryIs
  <2> QED
    BY <1>1, <1>2, <2>1 DEF UpTo
<1>4. Rebuilding' <=> Rebuilding
  BY <1>1 DEF Rebuilding
<1>5. Ordered => Ordered'
  <2> SUFFICES ASSUME Ordered, ~ Rebuilding PROVE Ordered'
    BY <1>4 DEF Ordered
  <2>1. /\ Spaced(entries) /\ \A n \in blocks : Fits(entries, n)
        /\ \A j \in Tasks : task[j].kind = "block" => Fits(entries, task[j].block)
    BY DEF Ordered
  <2>2. ASSUME NEW n \in blocks' PROVE Fits(entries, n)
    <3>1. CASE n \in blocks
      BY <2>1, <3>1
    <3>2. CASE n \in Nat /\ n > head
      <4>1. Room(entries, n)
        BY <1>1, <3>2, LaterFits
      <4> QED
        BY <4>1 DEF Fits
    <3> QED
      BY <1>2, <3>1, <3>2
  <2> QED
    BY <1>1, <2>1, <2>2 DEF Ordered
<1> QED
  BY <1>1, <1>3, <1>5, NoCallInTurn

\* A stop that loses a window that will be rebuilt, or loses none.
LEMMA RestartInTurn ==
    ASSUME PlaceInv, TurnInv, Restart, ~ StartsUnbuilt
    PROVE  TurnInv'
<1>1. /\ WellFormed /\ IsDocs(docs) /\ dbHeight \in Nat /\ metricHeight \in Nat
      /\ PlaceInv' /\ UNCHANGED <<docs, head>> /\ entries' = <<>> /\ blocks' = {}
  BY PlaceIs, RestartInPlace DEF Restart, chainVars
<1>2. IdleTask.pc = "idle" /\ IdleTask.kind = "event"
  BY DEF IdleTask
<1>3. /\ dbHeight' \in Nat
      /\ \/ dbHeight' = 0 /\ \A j \in Tasks : task'[j] = IdleTask
         \/ /\ dbHeight' # 0
            /\ \E k \in Tasks : /\ task'[k].pc = "getLogs" /\ task'[k].kind = "boot"
                                /\ \A j \in Tasks \ {k} : task'[j] = IdleTask
  BY <1>1, RestartIs
<1>4. Spaced(entries') /\ \A m \in Int : UpTo(entries', m) /\ Fits(entries', m)
  BY <1>1, EmptyWindow
<1>5. \A j \in Tasks : task'[j].pc \in {"idle", "getLogs"}
  BY <1>2, <1>3
<1>6. \A x \in Int : /\ CountedBy(docs', task')[x] = BlockSum(docs, x)
                     /\ CountedBy(docs', task')[x] <= CountedBy(docs, task)[x]
  <2> SUFFICES ASSUME NEW x \in Int
               PROVE  /\ CountedBy(docs', task')[x] = BlockSum(docs, x)
                      /\ CountedBy(docs', task')[x] <= CountedBy(docs, task)[x]
    OBVIOUS
  <2>1. PendingSum(task', x) = 0
    BY <1>5, PendingNone
  <2>2. /\ CountedBy(docs, task)[x] = BlockSum(docs, x) + PendingSum(task, x)
        /\ CountedBy(docs, task')[x] = BlockSum(docs, x) + PendingSum(task', x)
        /\ BlockSum(docs, x) \in Nat /\ PendingSum(task, x) \in Nat
    BY <1>1, CountedIs
  <2> QED
    BY <1>1, <2>1, <2>2
<1>7. Limited'
  BY <1>1, <1>6, LimitedStays DEF TurnInv
<1>8. UpTo(entries', head')
  BY <1>1, <1>4, PlaceIs
<1>9. \A j \in Tasks : BootKnows(task[j])'
  BY <1>1, <1>2, <1>3 DEF BootKnows
<1>10. ASSUME ~ Booting'
       PROVE  /\ Ordered' /\ Counts(entries', dbHeight', CountedBy(docs', task'))
              /\ \A j \in Tasks : HeightStored(task[j])'
  <2>1. dbHeight' = 0 /\ \A j \in Tasks : task'[j] = IdleTask
    BY <1>3, <1>10 DEF Booting
  <2>2. entries = <<>> /\ dbHeight = 0
    <3>1. dbHeight' \in {dbHeight, IF metricHeight > 0 THEN metricHeight ELSE dbHeight}
      BY DEF Restart
    <3> QED
      BY <1>1, <2>1, <3>1 DEF StartsUnbuilt
  <2>3. ~ Booting
    BY <2>2 DEF TurnInv, BootKnows, Booting
  <2>4. Counts(entries, dbHeight, CountedBy(docs, task))
    BY <2>3 DEF TurnInv, Built
  <2>5. Ordered'
    BY <1>1, <1>2, <1>4, <2>1 DEF Ordered
  <2>6. \A j \in Tasks : HeightStored(task[j])'
    BY <1>2, <2>1 DEF HeightStored
  <2>7. ASSUME NEW x \in Int, dbHeight' - Half < x
        PROVE  Holds(entries', x, CountedBy(docs', task')[x])
    <3>1. Holds(entries, x, CountedBy(docs, task)[x])
      BY <2>1, <2>2, <2>4, <2>7 DEF Counts
    <3>2. /\ entries' = entries /\ entries \in Seq(Entry)
          /\ CountedBy(docs, task)[x] \in Nat /\ CountedBy(docs', task')[x] \in Nat
      BY <1>1, <2>2, PlaceIs, CountedIs
    <3> QED
      BY <1>6, <3>1, <3>2, HoldsLess
  <2> QED
    BY <2>5, <2>6, <2>7 DEF Counts
<1> QED
  BY <1>7, <1>8, <1>9, <1>10 DEF TurnInv, Built

\* At first there is nothing to count.
LEMMA InitInTurn == Init => TurnInv
<1> SUFFICES ASSUME Init PROVE TurnInv
  OBVIOUS
<1>1. /\ PlaceInv /\ entries = <<>> /\ docs = [t \in Burns |-> <<>>] /\ blocks = {}
      /\ \A k \in Tasks : task[k] = IdleTask
  BY InitInPlace DEF Init, RecordsInit, ChainInit
<1>2. IdleTask.pc = "idle" /\ IdleTask.kind = "event"
  BY DEF IdleTask
<1>3. Spaced(entries) /\ \A m \in Int : UpTo(entries, m) /\ Fits(entries, m)
  BY <1>1, EmptyWindow
<1>4. IsDocs(docs) /\ \A t \in Burns : Len(docs[t]) = 0
  BY <1>1 DEF IsDocs
<1>5. ASSUME NEW x \in Int PROVE CountedBy(docs, task)[x] = 0
  <2>1. BlockSum(docs, x) = 0
    BY <1>4, BlockSumNone
  <2>2. PendingSum(task, x) = 0
    BY <1>1, <1>2, PendingNone
  <2>3. CountedBy(docs, task)[x] = BlockSum(docs, x) + PendingSum(task, x)
    BY <1>4, CountedIs
  <2> QED
    BY <2>1, <2>2, <2>3
<1>6. Limited
  <2> SUFFICES ASSUME NEW c \in Int PROVE OverHalf(CountedBy(docs, task), c) <= WindowLimit
    BY DEF Limited
  <2> DEFINE C == CountedBy(docs, task)
  <2>1. \A x \in Int : C[x] \in Nat /\ C[x] = 0
    BY <1>5
  <2>2. \A x \in Int : c <= x /\ x < c + Half => Holds(entries, x, C[x])
    BY <2>1 DEF Holds
  <2>3. entries \in Seq(Entry)
    BY <1>1, PlaceIs
  <2> HIDE DEF C
  <2>4. OverHalf(C, c) <= TotalSum(entries)
    BY <2>1, <2>2, <2>3, OverHalfHeld
  <2>5. TotalSum(entries) = 0
    <3>1. Len(entries) = 0 /\ 1..0 = {}
      BY <1>1
    <3> QED
      BY <2>3, <3>1, TotalType, SumEmpty
  <2>6. OverHalf(C, c) \in Nat /\ WindowLimit \in Nat
    BY <2>1, OverHalfNat, PolicyAssumption
  <2> QED
    BY <2>4, <2>5, <2>6 DEF C
<1>7. UpTo(entries, head)
  BY <1>1, <1>3, PlaceIs
<1>8. Built
  <2>1. Ordered /\ \A k \in Tasks : HeightStored(task[k])
    BY <1>1, <1>2, <1>3 DEF Ordered, HeightStored
  <2>2. Counts(entries, dbHeight, CountedBy(docs, task))
    BY <1>5 DEF Counts, Holds
  <2> QED
    BY <2>1, <2>2 DEF Built
<1>9. \A k \in Tasks : BootKnows(task[k])
  BY <1>1, <1>2 DEF BootKnows
<1> QED
  BY <1>6, <1>7, <1>8, <1>9 DEF TurnInv

-----------------------------------------------------------------------------
\* The inductive form of HalfWindowRespected: calls and documents are in place
\* whatever happens, and the window is in order until something is out of turn.
WindowInv ==
    /\ PlaceInv
    /\ outOfTurn \in BOOLEAN
    /\ ~ outOfTurn /\ Half # 0 => TurnInv

\* Nothing happens to the window.
LEMMA SameInTurn ==
    ASSUME PlaceInv, TurnInv, UNCHANGED vars
    PROVE  TurnInv'
<1>1. UNCHANGED <<docs, task, dbHeight, entries, head, blocks>> /\ UpTo(entries, head)
  BY DEF vars, recordVars, chainVars, heightVars, noticeVars, TurnInv
<1>2. Rebuilding' <=> Rebuilding
  BY <1>1 DEF Rebuilding
<1>3. Ordered => Ordered'
  BY <1>1, <1>2 DEF Ordered
<1> QED
  BY <1>1, <1>3, NoCallInTurn

\* Every step that is in turn keeps the window in order.
LEMMA NextInTurn ==
    ASSUME PlaceInv, TurnInv, Half # 0, Next, ~ OutOfTurn
    PROVE  TurnInv'
<1>1. ASSUME NEW k \in Tasks, LogStep(k) PROVE TurnInv'
  <2>1. ~ CountsLate(k)
    BY DEF OutOfTurn
  <2> QED
    BY <1>1, <2>1, LogStepInTurn, AdmitInTurn
<1>2. ASSUME NEW k \in Tasks, BackfillStep(k) PROVE TurnInv'
  <2>1. ~ StoresEarlierHeight(k) /\ ~ ReplacesCounted(k) /\ ~ LeavesUnbuilt(k)
    BY DEF OutOfTurn
  <2> QED
    BY <1>2, <2>1, BackfillInTurn, SetSumsInTurn
<1>3. ASSUME NEW k \in Tasks, BlockStep(k) PROVE TurnInv'
  <2>1. ~ StoresLate(k)
    BY DEF OutOfTurn
  <2> QED
    BY <1>3, <2>1, BlockInTurn, StoreHeightInTurn
<1>4. CASE Restart
  BY <1>4, RestartInTurn DEF OutOfTurn
<1> QED
  BY <1>1, <1>2, <1>3, <1>4, ChainStepInTurn, TakeInTurn, ConnectionInTurn DEF Next

\* The invariant holds at first.
LEMMA InitWindow == HistoryInit => WindowInv
BY InitInPlace, InitInTurn DEF HistoryInit, WindowInv

\* And every step keeps it.
LEMMA NextWindow == WindowInv /\ [HistoryNext]_<<vars, outOfTurn>> => WindowInv'
<1> SUFFICES ASSUME WindowInv, [HistoryNext]_<<vars, outOfTurn>> PROVE WindowInv'
  OBVIOUS
<1>1. /\ [Next]_vars
      /\ outOfTurn' \in BOOLEAN
      /\ ~ outOfTurn' => ~ outOfTurn /\ (UNCHANGED vars \/ (Next /\ ~ OutOfTurn))
  <2>1. CASE HistoryNext
    BY <2>1 DEF HistoryNext
  <2>2. CASE UNCHANGED <<vars, outOfTurn>>
    BY <2>2 DEF WindowInv
  <2> QED
    BY <2>1, <2>2
<1>2. PlaceInv'
  BY <1>1, NextInPlace DEF WindowInv
<1>3. ASSUME ~ outOfTurn', Half # 0 PROVE TurnInv'
  <2>1. PlaceInv /\ TurnInv
    BY <1>1, <1>3 DEF WindowInv
  <2> QED
    BY <1>1, <1>3, <2>1, NextInTurn, SameInTurn
<1>4. Half' = Half
  BY DEF Half
<1> QED
  BY <1>1, <1>2, <1>3, <1>4 DEF WindowInv

\* "A limit per sliding block window": however many handlers overlap, whatever
\* fails, and whatever the window, the limit and the amounts are, the burns
\* recorded without risks in half as many blocks as the window has stay within
\* the limit until the window is once used or changed out of turn.
THEOREM HalfWindow == HistorySpec => []HalfWindowRespected
<1>1. WindowInv => HalfWindowRespected
  <2> SUFFICES ASSUME WindowInv, ~ outOfTurn, NEW b \in 1..head
               PROVE  CleanBetween(b, b + Half - 1) <= WindowLimit
    BY DEF HalfWindowRespected, Half
  <2> DEFINE f == [x \in Int |-> BlockSum(docs, x)]
             C == CountedBy(docs, task)
  <2>1. b \in Int /\ IsDocs(docs)
    BY PlaceIs DEF WindowInv
  <2>2. CleanBetween(b, b + Half - 1) = OverHalf(f, b)
    BY <2>1, CleanBetweenIs
  <2>3. \A x \in Int : f[x] \in Nat /\ C[x] \in Nat /\ f[x] <= C[x]
    <3> SUFFICES ASSUME NEW x \in Int PROVE f[x] \in Nat /\ C[x] \in Nat /\ f[x] <= C[x]
      OBVIOUS
    <3>1. /\ C[x] = BlockSum(docs, x) + PendingSum(task, x) /\ C[x] \in Nat
          /\ BlockSum(docs, x) \in Nat /\ PendingSum(task, x) \in Nat
      BY <2>1, CountedIs
    <3>2. f[x] = BlockSum(docs, x)
      OBVIOUS
    <3> HIDE DEF C, f
    <3> QED
      BY <3>1, <3>2
  <2>4. WindowLimit \in Nat
    BY PolicyAssumption
  <2>5. CASE Half # 0
    <3>1. OverHalf(C, b) <= WindowLimit
      BY <2>1, <2>5 DEF WindowInv, TurnInv, Limited
    <3> HIDE DEF C, f
    <3>2. OverHalf(f, b) <= OverHalf(C, b)
      BY <2>1, <2>3, OverHalfLess
    <3>3. OverHalf(f, b) \in Nat /\ OverHalf(C, b) \in Nat
      BY <2>1, <2>3, OverHalfNat
    <3> QED
      BY <2>2, <2>4, <3>1, <3>2, <3>3
  <2>6. CASE Half = 0
    <3>1. 1..Half = {}
      BY <2>6
    <3>2. OverHalf(f, b) = 0
      BY <3>1, SumEmpty DEF OverHalf
    <3> QED
      BY <2>2, <2>4, <3>2
  <2> QED
    BY <2>5, <2>6
<1> QED
  BY <1>1, InitWindow, NextWindow, PTL DEF HistorySpec

=============================================================================
