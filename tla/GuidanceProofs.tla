--------------------------- MODULE GuidanceProofs ---------------------------
(***************************************************************************)
(* The guidance plugin, for any collections, passages, profiles, weights   *)
(* and widths: it is well typed, only the answering model costs a member   *)
(* the answer, and what the model is shown is the best of what the         *)
(* collections hold.                                                       *)
(***************************************************************************)
EXTENDS Guidance, FiniteSetTheorems, TLAPS

-----------------------------------------------------------------------------
(* Numbers: induction on the set of numbers for which a claim holds.       *)

LEMMA SomeLeast ==
    ASSUME NEW T, T \subseteq Nat, T # {} PROVE \E x \in T : \A y \in T : x <= y
<1> DEFINE R == {p \in Nat \X Nat : p[1] < p[2]}
<1>1. IsWellFoundedOn(R, Nat)
  BY NatLessThanWellFounded DEF OpToRel
<1>2. PICK x \in T : \A y \in T : ~(<<y, x>> \in R)
  BY <1>1, WFMin
<1>3. \A y \in T : ~(y < x)
  BY <1>2
<1>4. \A y \in T : x \in Nat /\ y \in Nat
  OBVIOUS
<1> HIDE DEF R
<1> QED BY <1>3, <1>4

LEMMA Induct ==
    ASSUME NEW T, 0 \in T, \A n \in Nat : n \in T => n + 1 \in T PROVE Nat \subseteq T
<1> DEFINE U == Nat \ T
<1> SUFFICES ASSUME U # {} PROVE FALSE
  OBVIOUS
<1>1. U \subseteq Nat
  OBVIOUS
<1>2. PICK x \in U : \A y \in U : x <= y
  <2> HIDE DEF U
  <2> QED BY <1>1, SomeLeast
<1>3. x # 0 /\ x - 1 \in Nat /\ x - 1 < x
  OBVIOUS
<1> QED BY <1>2, <1>3

LEMMA SomeGreatest ==
    ASSUME NEW n \in Nat, NEW T, T \subseteq 0 .. n, T # {} PROVE \E x \in T : \A y \in T : y <= x
<1> DEFINE U == {n - x : x \in T}
<1>1. U \subseteq Nat /\ U # {}
  <2>1. \A x \in T : n - x \in Nat
    OBVIOUS
  <2> QED BY <2>1
<1>2. PICK u \in U : \A y \in U : u <= y
  <2> HIDE DEF U
  <2> QED BY <1>1, SomeLeast
<1>3. PICK x \in T : u = n - x
  OBVIOUS
<1>4. ASSUME NEW y \in T PROVE y <= x
  <2>1. n - y \in U
    OBVIOUS
  <2>2. n - x <= n - y
    BY <1>2, <1>3, <2>1
  <2> QED BY <2>2
<1> QED BY <1>4

-----------------------------------------------------------------------------
(* Orders.                                                                 *)

TotalOn(S, R) ==
    /\ \A x \in S : <<x, x>> \notin R
    /\ \A x, y \in S : x # y => <<x, y>> \in R \/ <<y, x>> \in R
    /\ \A x, y, z \in S : <<x, y>> \in R /\ <<y, z>> \in R => <<x, z>> \in R

\* InOrder enumerates the set in the order of the relation.
LEMMA InOrderSorts ==
    ASSUME NEW S, IsFiniteSet(S), NEW R, TotalOn(S, R)
    PROVE  /\ Cardinality(S) \in Nat
           /\ InOrder(S, R) \in [1 .. Cardinality(S) -> S]
           /\ \A x \in S : \E i \in 1 .. Cardinality(S) : InOrder(S, R)[i] = x
           /\ \A i, j \in 1 .. Cardinality(S) :
                i < j => <<InOrder(S, R)[i], InOrder(S, R)[j]>> \in R
<1> DEFINE n == Cardinality(S)
           Before(x) == {y \in S : <<y, x>> \in R}
           rank == [x \in S |-> Cardinality(Before(x))]
<1>1. n \in Nat
  BY FS_CardinalityType
<1>2. ASSUME NEW x \in S PROVE /\ IsFiniteSet(Before(x)) /\ rank[x] \in Nat /\ rank[x] < n
  <2>1. Before(x) \in SUBSET (S \ {x})
    BY DEF TotalOn
  <2>2. IsFiniteSet(S \ {x}) /\ Cardinality(S \ {x}) = n - 1
    BY FS_RemoveElement
  <2>3. IsFiniteSet(Before(x)) /\ Cardinality(Before(x)) <= n - 1
    <3> HIDE DEF Before
    <3> QED BY <2>1, <2>2, FS_Subset
  <2>4. Cardinality(Before(x)) \in Nat
    <3> HIDE DEF Before
    <3> QED BY <2>3, FS_CardinalityType
  <2> HIDE DEF Before
  <2> QED BY <1>1, <2>3, <2>4
<1>3. ASSUME NEW x \in S, NEW y \in S, <<x, y>> \in R PROVE rank[x] < rank[y]
  <2>1. Before(x) \in SUBSET Before(y) /\ x \in Before(y) /\ x \notin Before(x)
    BY <1>3 DEF TotalOn
  <2>2. /\ Cardinality(Before(x)) <= Cardinality(Before(y))
        /\ Cardinality(Before(y)) = Cardinality(Before(x)) => Before(x) = Before(y)
    <3>1. IsFiniteSet(Before(y))
      BY <1>2
    <3> HIDE DEF Before
    <3> QED BY <2>1, <3>1, FS_Subset
  <2>3. rank[x] \in Nat /\ rank[y] \in Nat /\ rank[x] = Cardinality(Before(x))
        /\ rank[y] = Cardinality(Before(y))
    BY <1>2
  <2> HIDE DEF Before, rank
  <2> QED BY <2>1, <2>2, <2>3
<1>4. ASSUME NEW x \in S, NEW y \in S, rank[x] = rank[y] PROVE x = y
  <2>1. rank[x] \in Nat /\ rank[y] \in Nat
    BY <1>2
  <2>2. ~(<<x, y>> \in R) /\ ~(<<y, x>> \in R)
    <3> HIDE DEF rank
    <3> QED BY <1>3, <1>4, <2>1
  <2> QED BY <2>2 DEF TotalOn
<1> DEFINE f == [x \in S |-> rank[x] + 1]
<1>5. f \in Surjection(S, 1 .. n)
  <2>1. f \in Injection(S, 1 .. n)
    <3>1. ASSUME NEW x \in S PROVE rank[x] + 1 \in 1 .. n
      <4>1. rank[x] \in Nat /\ rank[x] < n
        BY <1>2
      <4> HIDE DEF rank, n
      <4> QED BY <1>1, <4>1
    <3>2. ASSUME NEW x \in S, NEW y \in S, f[x] = f[y] PROVE x = y
      <4>1. rank[x] + 1 = rank[y] + 1 /\ rank[x] \in Nat /\ rank[y] \in Nat
        BY <1>2, <3>2
      <4>2. rank[x] = rank[y]
        <5> HIDE DEF rank
        <5> QED BY <4>1
      <4> QED BY <1>4, <4>2
    <3> HIDE DEF rank, n
    <3> QED BY <3>1, <3>2 DEF Injection, IsInjective
  <2>2. IsFiniteSet(1 .. n) /\ Cardinality(1 .. n) = n
    <3>1. 1 \in Int /\ n \in Int
      BY <1>1
    <3> HIDE DEF n
    <3> QED BY <1>1, <3>1, FS_Interval
  <2>3. Cardinality(S) = Cardinality(1 .. n)
    BY <2>2
  <2> HIDE DEF f, n
  <2> QED BY <2>1, <2>2, <2>3, FS_Injection
<1>6. ASSUME NEW i \in 1 .. n PROVE \E x \in S : rank[x] = i - 1
  <2>1. PICK x \in S : f[x] = i
    <3> HIDE DEF f, n
    <3> QED BY <1>5 DEF Surjection
  <2>2. rank[x] + 1 = i /\ rank[x] \in Nat
    BY <1>2, <2>1
  <2>3. rank[x] = i - 1
    <3> HIDE DEF rank, n
    <3> QED BY <1>1, <2>2
  <2> QED BY <2>3
<1> DEFINE q == InOrder(S, R)
<1>7. ASSUME NEW i \in 1 .. n PROVE q[i] \in S /\ rank[q[i]] = i - 1
  <2>1. q[i] = CHOOSE x \in S : Cardinality(Before(x)) = i - 1
    BY DEF InOrder
  <2>2. \E x \in S : Cardinality(Before(x)) = i - 1
    BY <1>6
  <2>3. q[i] \in S /\ Cardinality(Before(q[i])) = i - 1
    <3> HIDE DEF Before, q
    <3> QED BY <2>1, <2>2
  <2> QED BY <2>3
<1>8. q \in [1 .. n -> S]
  <2> DEFINE pick(i) == CHOOSE x \in S : Cardinality({y \in S : <<y, x>> \in R}) = i - 1
  <2>0. q = [i \in 1 .. n |-> pick(i)]
    BY DEF InOrder
  <2>1. DOMAIN q = 1 .. n /\ q = [i \in DOMAIN q |-> q[i]]
    <3> HIDE DEF q, n, pick
    <3> QED BY <2>0
  <2> HIDE DEF q, n, rank
  <2> QED BY <1>7, <2>1
<1>9. ASSUME NEW x \in S PROVE \E i \in 1 .. n : q[i] = x
  <2>1. rank[x] + 1 \in 1 .. n /\ (rank[x] + 1) - 1 = rank[x]
    <3>1. rank[x] \in Nat /\ rank[x] < n
      BY <1>2
    <3> HIDE DEF rank, n
    <3> QED BY <1>1, <3>1
  <2>2. q[rank[x] + 1] = x
    <3> HIDE DEF rank, n, q
    <3> QED BY <1>4, <1>7, <2>1
  <2> QED BY <2>1, <2>2
<1>10. ASSUME NEW i \in 1 .. n, NEW j \in 1 .. n, i < j PROVE <<q[i], q[j]>> \in R
  <2> HIDE DEF rank, n, q
  <2>1. q[i] \in S /\ q[j] \in S /\ rank[q[i]] = i - 1 /\ rank[q[j]] = j - 1
    BY <1>7
  <2>2. rank[q[i]] < rank[q[j]] /\ rank[q[i]] # rank[q[j]] /\ ~(rank[q[j]] < rank[q[i]])
    BY <1>1, <1>10, <2>1
  <2>3. q[i] # q[j] /\ ~(<<q[j], q[i]>> \in R)
    BY <1>3, <2>1, <2>2
  <2> QED BY <2>1, <2>3 DEF TotalOn
<1> HIDE DEF q, n, rank
<1> QED BY <1>1, <1>8, <1>9, <1>10 DEF q, n

\* The positions a subsequence keeps, in their order.
Picks(g, n, I) ==
    /\ n \in Nat /\ g \in [1 .. n -> I]
    /\ \A i \in I : \E k \in 1 .. n : g[k] = i
    /\ \A j, k \in 1 .. n : j < k => g[j] < g[k]

Subsequence(q, s, I) == \E n, g : Picks(g, n, I) /\ q = [k \in 1 .. n |-> s[g[k]]]

\* At keeps the positions it is given, in their order.
LEMMA AtPicks ==
    ASSUME NEW m \in Nat, NEW s, NEW I, I \subseteq 1 .. m
    PROVE  Subsequence(At(s, I), s, I)
<1> DEFINE R == {p \in I \X I : p[1] < p[2]}
           g == InOrder(I, R)
           n == Cardinality(I)
<1>1. IsFiniteSet(1 .. m) /\ I \in SUBSET (1 .. m)
  BY FS_Interval
<1>2. IsFiniteSet(I)
  BY <1>1, FS_Subset
<1>3. \A x, y \in I : <<x, y>> \in R <=> x < y
  OBVIOUS
<1>4. \A x \in I : x \in Int
  OBVIOUS
<1>5. TotalOn(I, R)
  <2> HIDE DEF R
  <2> QED BY <1>3, <1>4 DEF TotalOn
<1>6. /\ n \in Nat /\ g \in [1 .. n -> I]
      /\ \A x \in I : \E i \in 1 .. n : g[i] = x
      /\ \A i, j \in 1 .. n : i < j => <<g[i], g[j]>> \in R
  <2> HIDE DEF R
  <2> QED BY <1>2, <1>5, InOrderSorts
<1>7. \A i, j \in 1 .. n : i < j => g[i] < g[j]
  <2> HIDE DEF R, g, n
  <2> QED BY <1>3, <1>6
<1>8. At(s, I) = [k \in DOMAIN g |-> s[g[k]]]
  BY DEF At
<1>9. DOMAIN g = 1 .. n
  <2> HIDE DEF R, g, n
  <2> QED BY <1>6
<1>10. At(s, I) = [k \in 1 .. n |-> s[g[k]]]
  <2> HIDE DEF R, g, n
  <2> QED BY <1>8, <1>9
<1>11. Picks(g, n, I)
  <2> HIDE DEF R, g, n
  <2> QED BY <1>6, <1>7 DEF Picks
<1> HIDE DEF R, g, n
<1> QED BY <1>10, <1>11 DEF Subsequence

\* Cutting a sequence leaves its first elements.
LEMMA PrefixOf ==
    ASSUME NEW n \in Nat, NEW S, NEW f \in [1 .. n -> S], NEW l \in 0 .. n
    PROVE  /\ f \in Seq(S) /\ Len(f) = n
           /\ SubSeq(f, 1, l) = [k \in 1 .. l |-> f[k]]
           /\ SubSeq(f, 1, l) \in Seq(S) /\ Len(SubSeq(f, 1, l)) = l
<1>1. f \in Seq(S) /\ Len(f) = n
  OBVIOUS
<1>2. SubSeq(f, 1, l) \in Seq(S) /\ Len(SubSeq(f, 1, l)) = l
  BY <1>1
<1>3. \A k \in 1 .. l : SubSeq(f, 1, l)[k] = f[k]
  BY <1>1
<1>4. SubSeq(f, 1, l) = [k \in 1 .. l |-> f[k]]
  BY <1>2, <1>3
<1> QED BY <1>1, <1>2, <1>4

-----------------------------------------------------------------------------
(* The candidates of a merged pool.                                        *)

\* A passage that counts is chosen, or its page is by an earlier one, or the
\* width is used up before it.
Considered(s, g, n, i) ==
    \/ \E k \in 1 .. n : g[k] <= i /\ (g[k] = i \/ SamePage(s[i], s[g[k]]))
    \/ n = Width /\ \A k \in 1 .. n : g[k] < i

\* The positions g choose what counts in s, each page once, within the width.
Chooses(s, g, n) ==
    /\ n \in Nat /\ g \in [1 .. n -> DOMAIN s] /\ n <= Width
    /\ \A j, k \in 1 .. n : j < k => g[j] < g[k] /\ ~SamePage(s[g[j]], s[g[k]])
    /\ \A k \in 1 .. n : Relevant(s[g[k]])
    /\ \A i \in DOMAIN s : Relevant(s[i]) => Considered(s, g, n, i)

LEMMA FilteredPicks ==
    ASSUME NEW m \in Nat, NEW s, DOMAIN s = 1 .. m
    PROVE  Subsequence(Filtered(s), s, {i \in 1 .. m : Relevant(s[i])})
<1> DEFINE I == {i \in 1 .. m : Relevant(s[i])}
<1>1. I \subseteq 1 .. m
  OBVIOUS
<1>2. Filtered(s) = At(s, I)
  BY DEF Filtered
<1>3. Subsequence(At(s, I), s, I)
  <2> HIDE DEF I
  <2> QED BY <1>1, AtPicks
<1> QED BY <1>2, <1>3, Zenon

LEMMA DedupedPicks ==
    ASSUME NEW m \in Nat, NEW s, DOMAIN s = 1 .. m
    PROVE  Subsequence(Deduped(s), s, {i \in 1 .. m : \A j \in 1 .. i - 1 : ~SamePage(s[i], s[j])})
<1> DEFINE I == {i \in 1 .. m : \A j \in 1 .. i - 1 : ~SamePage(s[i], s[j])}
<1>1. I \subseteq 1 .. m
  OBVIOUS
<1>2. Deduped(s) = At(s, I)
  BY DEF Deduped
<1>3. Subsequence(At(s, I), s, I)
  <2> HIDE DEF I
  <2> QED BY <1>1, AtPicks
<1> QED BY <1>2, <1>3, Zenon

\* Every position has a first one of its page.
LEMMA FirstOfPage ==
    ASSUME NEW m \in Nat, NEW s, NEW i \in 1 .. m
    PROVE  \E f \in 1 .. i : /\ \A j \in 1 .. f - 1 : ~SamePage(s[f], s[j])
                             /\ f = i \/ SamePage(s[i], s[f])
<1> DEFINE T == {f \in 1 .. i : f = i \/ SamePage(s[i], s[f])}
<1>1. T \subseteq Nat /\ i \in T
  OBVIOUS
<1>2. PICK f \in T : \A y \in T : f <= y
  <2> HIDE DEF T
  <2> QED BY <1>1, SomeLeast
<1>3. ASSUME NEW j \in 1 .. f - 1, SamePage(s[f], s[j]) PROVE FALSE
  <2>1. j \in 1 .. i /\ j < f
    BY <1>2
  <2>2. SamePage(s[i], s[j])
    BY <1>2, <1>3 DEF SamePage
  <2>3. j \in T
    BY <2>1, <2>2
  <2> QED BY <1>2, <2>1, <2>3
<1> QED BY <1>2, <1>3

\* The filter, the de-duplication and the cut choose what counts.
LEMMA CandidatesChoose ==
    ASSUME NEW m \in Nat, NEW s, DOMAIN s = 1 .. m, Width \in Nat
    PROVE  \E n, g : Chooses(s, g, n) /\ Candidates(s) = [k \in 1 .. n |-> s[g[k]]]
<1> DEFINE t == Filtered(s)
           u == Deduped(t)
<1>1. PICK a, b : /\ Picks(b, a, {i \in 1 .. m : Relevant(s[i])})
                  /\ t = [k \in 1 .. a |-> s[b[k]]]
  <2>1. Subsequence(t, s, {i \in 1 .. m : Relevant(s[i])})
    BY FilteredPicks, Zenon
  <2> HIDE DEF t
  <2> QED BY <2>1 DEF Subsequence
<1>2. a \in Nat /\ DOMAIN t = 1 .. a
  BY <1>1 DEF Picks
<1>3. PICK d, e : /\ Picks(e, d, {i \in 1 .. a : \A j \in 1 .. i - 1 : ~SamePage(t[i], t[j])})
                  /\ u = [k \in 1 .. d |-> t[e[k]]]
  <2>1. Subsequence(u, t, {i \in 1 .. a : \A j \in 1 .. i - 1 : ~SamePage(t[i], t[j])})
    <3> HIDE DEF t
    <3> QED BY <1>2, DedupedPicks
  <2> HIDE DEF u, t
  <2> QED BY <2>1 DEF Subsequence
<1> HIDE DEF t, u
\* The two selections, without their sets.
<1>4. /\ \A k \in 1 .. a : b[k] \in 1 .. m /\ Relevant(s[b[k]]) /\ t[k] = s[b[k]]
      /\ \A i \in 1 .. m : Relevant(s[i]) => \E k \in 1 .. a : b[k] = i
      /\ \A j, k \in 1 .. a : j < k => b[j] < b[k]
  BY <1>1 DEF Picks
<1>5. /\ d \in Nat
      /\ \A k \in 1 .. d : /\ e[k] \in 1 .. a /\ u[k] = t[e[k]]
                           /\ \A j \in 1 .. e[k] - 1 : ~SamePage(t[e[k]], t[j])
      /\ \A i \in 1 .. a : (\A j \in 1 .. i - 1 : ~SamePage(t[i], t[j])) => \E k \in 1 .. d : e[k] = i
      /\ \A j, k \in 1 .. d : j < k => e[j] < e[k]
  BY <1>3 DEF Picks
<1> DEFINE l == Least(Width, d)
           g == [k \in 1 .. l |-> b[e[k]]]
<1>6. l \in 0 .. d /\ l <= Width /\ (l = d \/ l = Width)
  BY <1>5 DEF Least
<1>7. /\ \A k \in 1 .. l : g[k] = b[e[k]] /\ k \in 1 .. d /\ e[k] \in 1 .. a /\ g[k] \in 1 .. m
      /\ DOMAIN g = 1 .. l
  <2> HIDE DEF l
  <2>1. \A k \in 1 .. l : k \in 1 .. d
    BY <1>5, <1>6
  <2> QED BY <1>4, <1>5, <2>1
<1>8. Candidates(s) = [k \in 1 .. l |-> s[g[k]]]
  <2>1. u = [k \in 1 .. d |-> u[k]] /\ u \in [1 .. d -> {u[k] : k \in 1 .. d}]
    BY <1>3
  <2>2. Len(u) = d /\ SubSeq(u, 1, l) = [k \in 1 .. l |-> u[k]]
    <3> HIDE DEF l, g
    <3> DEFINE S == {u[k] : k \in 1 .. d}
    <3>1. u \in [1 .. d -> S]
      BY <2>1
    <3> HIDE DEF S
    <3> QED BY <1>5, <1>6, <3>1, PrefixOf
  <2>3. Candidates(s) = SubSeq(u, 1, l)
    BY <2>2 DEF Candidates, Cut, t, u
  <2>4. \A k \in 1 .. l : u[k] = s[g[k]]
    <3> HIDE DEF l, g
    <3> QED BY <1>4, <1>5, <1>7
  <2> HIDE DEF l, g
  <2> QED BY <2>2, <2>3, <2>4
<1>9. l \in Nat /\ g \in [1 .. l -> DOMAIN s]
  <2> HIDE DEF l
  <2> QED BY <1>6, <1>7
<1> HIDE DEF l, g
<1>10. ASSUME NEW j \in 1 .. l, NEW k \in 1 .. l, j < k PROVE g[j] < g[k]
  <2>1. g[j] = b[e[j]] /\ g[k] = b[e[k]] /\ j \in 1 .. d /\ k \in 1 .. d
    BY <1>7
  <2>2. e[j] \in 1 .. a /\ e[k] \in 1 .. a /\ e[j] < e[k]
    BY <1>5, <1>10, <2>1
  <2> QED BY <1>4, <2>1, <2>2
<1>11. ASSUME NEW j \in 1 .. l, NEW k \in 1 .. l, j < k PROVE ~SamePage(s[g[j]], s[g[k]])
  <2>1. e[j] \in 1 .. a /\ e[k] \in 1 .. a /\ e[j] < e[k] /\ j \in 1 .. d /\ k \in 1 .. d
    BY <1>5, <1>7, <1>11
  <2>2. e[j] \in 1 .. e[k] - 1
    BY <1>2, <2>1
  <2>3. ~SamePage(t[e[k]], t[e[j]])
    BY <1>5, <2>1, <2>2
  <2>4. t[e[k]] = s[g[k]] /\ t[e[j]] = s[g[j]]
    BY <1>4, <1>7, <2>1
  <2> QED BY <2>3, <2>4 DEF SamePage
<1>12. \A k \in 1 .. l : Relevant(s[g[k]])
  BY <1>4, <1>7
<1>13. ASSUME NEW i \in 1 .. m, Relevant(s[i]) PROVE Considered(s, g, l, i)
  <2>1. PICK p \in 1 .. a : b[p] = i
    BY <1>4, <1>13
  <2>2. PICK f \in 1 .. p : /\ \A j \in 1 .. f - 1 : ~SamePage(t[f], t[j])
                            /\ f = p \/ SamePage(t[p], t[f])
    BY <1>2, FirstOfPage
  <2>3. f \in 1 .. a /\ f <= p /\ p \in Nat
    BY <1>2
  <2>4. PICK k \in 1 .. d : e[k] = f
    BY <1>5, <2>2, <2>3
  <2>5. b[f] <= i /\ (b[f] = i \/ SamePage(s[i], s[b[f]]))
    <3>1. t[f] = s[b[f]] /\ t[p] = s[i] /\ b[f] \in 1 .. m /\ b[p] \in 1 .. m
      BY <1>4, <2>1, <2>3
    <3>2. b[f] <= b[p]
      BY <1>4, <2>3, <3>1
    <3> QED BY <2>1, <2>2, <3>1, <3>2
  <2>6. CASE k <= l
    <3>1. k \in 1 .. l
      BY <1>6, <2>6
    <3>2. g[k] = b[f]
      BY <1>7, <2>4, <3>1
    <3> QED BY <2>5, <3>1, <3>2 DEF Considered
  <2>7. CASE l < k
    <3>1. l = Width
      BY <1>5, <1>6, <2>7
    <3>2. ASSUME NEW j \in 1 .. l PROVE g[j] < i
      <4>1. j \in 1 .. d /\ j < k /\ e[j] \in 1 .. a /\ g[j] = b[e[j]] /\ g[j] \in 1 .. m
        BY <1>6, <1>7, <2>7
      <4>2. e[j] < f
        BY <1>5, <2>4, <4>1
      <4>3. b[e[j]] < b[f] /\ b[f] \in 1 .. m
        BY <1>4, <2>3, <4>1, <4>2
      <4> QED BY <2>5, <4>1, <4>3
    <3> QED BY <3>1, <3>2 DEF Considered
  <2> QED BY <1>6, <2>6, <2>7
<1>14. Chooses(s, g, l)
  BY <1>6, <1>9, <1>10, <1>11, <1>12, <1>13 DEF Chooses
<1> QED BY <1>8, <1>14

-----------------------------------------------------------------------------
(* The budget.                                                             *)

\* f holds the running totals of v.
Totals(f, v, n) == f = [i \in 0 .. n |-> IF i = 0 THEN 0 ELSE f[i - 1] + v[i]]

LEMMA TotalsExist ==
    ASSUME NEW n \in Nat, NEW v \in [1 .. n -> Nat]
    PROVE  \E f : Totals(f, v, n)
<1> DEFINE T == {k \in Nat : k <= n => \E f \in [0 .. k -> Nat] : Totals(f, v, k)}
<1>1. 0 \in T
  <2> DEFINE f == [i \in 0 .. 0 |-> 0]
  <2>1. f \in [0 .. 0 -> Nat] /\ Totals(f, v, 0)
    BY DEF Totals
  <2> HIDE DEF f
  <2> QED BY <2>1
<1>2. ASSUME NEW k \in Nat, k \in T PROVE k + 1 \in T
  <2> SUFFICES ASSUME k + 1 <= n PROVE \E f \in [0 .. k + 1 -> Nat] : Totals(f, v, k + 1)
    OBVIOUS
  <2>1. PICK f \in [0 .. k -> Nat] : Totals(f, v, k)
    BY <1>2
  <2>2. v[k + 1] \in Nat /\ k + 1 \in Nat /\ (k + 1) - 1 = k
    OBVIOUS
  <2> DEFINE g == [i \in 0 .. k + 1 |-> IF i = k + 1 THEN f[k] + v[k + 1] ELSE f[i]]
  <2>3. g \in [0 .. k + 1 -> Nat]
    BY <2>2
  <2>4. ASSUME NEW i \in 0 .. k + 1 PROVE g[i] = IF i = 0 THEN 0 ELSE g[i - 1] + v[i]
    <3>1. CASE i = k + 1
      <4>1. g[i] = f[k] + v[i] /\ g[i - 1] = f[k] /\ i # 0
        BY <3>1
      <4> HIDE DEF g
      <4> QED BY <4>1
    <3>2. CASE i # k + 1
      <4>1. i \in 0 .. k /\ g[i] = f[i] /\ (i # 0 => i - 1 \in 0 .. k + 1 /\ g[i - 1] = f[i - 1])
        BY <3>2
      <4>2. f[i] = IF i = 0 THEN 0 ELSE f[i - 1] + v[i]
        BY <2>1, <4>1 DEF Totals
      <4> HIDE DEF g
      <4> QED BY <4>1, <4>2
    <3> QED BY <3>1, <3>2
  <2>5. Totals(g, v, k + 1)
    <3> HIDE DEF g
    <3> QED BY <2>3, <2>4 DEF Totals
  <2> HIDE DEF g
  <2> QED BY <2>3, <2>5
<1>3. Nat \subseteq T
  <2> HIDE DEF T
  <2> QED BY <1>1, <1>2, Induct
<1> QED BY <1>3

\* The sizes of entries are what Passage says.
Sized(s, n) == n \in Nat /\ DOMAIN s = 1 .. n /\ Len(s) = n
               /\ \A i \in 1 .. n : s[i].id \in DOMAIN Passage

LEMMA SizesAdd ==
    ASSUME NEW n, NEW s, Sized(s, n)
    PROVE  /\ DOMAIN Sizes(s) = 0 .. n
           /\ Sizes(s)[0] = 0
           /\ \A i \in 1 .. n : Sizes(s)[i] = Sizes(s)[i - 1] + Passage[s[i].id].size
<1> DEFINE v == [i \in 1 .. n |-> Passage[s[i].id].size]
           sum == Sizes(s)
<1>1. n \in Nat /\ v \in [1 .. n -> Nat]
  BY GuidanceAssumption DEF Sized
<1>2. \E f : Totals(f, v, n)
  <2> HIDE DEF v
  <2> QED BY <1>1, TotalsExist
<1>3. PICK f : f = [i \in 0 .. n |-> IF i = 0 THEN 0 ELSE f[i - 1] + Passage[s[i].id].size]
  <2> HIDE DEF v
  <2>1. PICK f : Totals(f, v, n)
    BY <1>2
  <2>2. f = [i \in 0 .. n |-> IF i = 0 THEN 0 ELSE f[i - 1] + v[i]]
    BY <2>1 DEF Totals
  <2>3. \A i \in 0 .. n : i # 0 => i \in 1 .. n
    BY <1>1
  <2>4. \A i \in 1 .. n : v[i] = Passage[s[i].id].size
    BY DEF v
  <2>5. [i \in 0 .. n |-> IF i = 0 THEN 0 ELSE f[i - 1] + v[i]]
        = [i \in 0 .. n |-> IF i = 0 THEN 0 ELSE f[i - 1] + Passage[s[i].id].size]
    BY <2>3, <2>4
  <2> QED BY <2>2, <2>5
<1>4. sum = [i \in 0 .. n |-> IF i = 0 THEN 0 ELSE sum[i - 1] + Passage[s[i].id].size]
  BY <1>3 DEF Sizes, Sized
<1> HIDE DEF sum
<1>5. DOMAIN sum = 0 .. n /\ \A i \in 0 .. n : sum[i] = IF i = 0 THEN 0 ELSE sum[i - 1] + Passage[s[i].id].size
  BY <1>4
<1>6. sum[0] = 0 /\ \A i \in 1 .. n : sum[i] = sum[i - 1] + Passage[s[i].id].size
  <2>1. 0 \in 0 .. n /\ \A i \in 1 .. n : i \in 0 .. n /\ i # 0
    BY <1>1
  <2> QED BY <1>5, <2>1
<1> QED BY <1>5, <1>6 DEF sum

LEMMA SizesAreNat ==
    ASSUME NEW n, NEW s, Sized(s, n), NEW i \in 0 .. n
    PROVE  Sizes(s)[i] \in Nat
<1> DEFINE T == {k \in Nat : k <= n => Sizes(s)[k] \in Nat}
<1>0. n \in Nat /\ \A k \in 1 .. n : Passage[s[k].id].size \in Nat
  BY GuidanceAssumption DEF Sized
<1>1. 0 \in T
  BY SizesAdd
<1>2. ASSUME NEW k \in Nat, k \in T PROVE k + 1 \in T
  <2> SUFFICES ASSUME k + 1 <= n PROVE Sizes(s)[k + 1] \in Nat
    OBVIOUS
  <2>1. k + 1 \in 1 .. n /\ (k + 1) - 1 = k /\ Sizes(s)[k] \in Nat
    BY <1>0, <1>2
  <2>2. Sizes(s)[k + 1] = Sizes(s)[k] + Passage[s[k + 1].id].size
    BY <2>1, SizesAdd
  <2> QED BY <1>0, <2>1, <2>2
<1>3. Nat \subseteq T
  <2> HIDE DEF T
  <2> QED BY <1>1, <1>2, Induct
<1> QED BY <1>0, <1>3

\* A prefix has the sizes of the whole.
LEMMA SizesOfPrefix ==
    ASSUME NEW n, NEW s, Sized(s, n), NEW l \in 0 .. n, NEW t, Sized(t, l),
           \A k \in 1 .. l : t[k] = s[k]
    PROVE  Sizes(t)[l] = Sizes(s)[l]
<1> DEFINE T == {k \in Nat : k <= l => Sizes(t)[k] = Sizes(s)[k]}
<1>0. n \in Nat /\ l \in Nat /\ l <= n
  BY DEF Sized
<1>1. 0 \in T
  BY SizesAdd
<1>2. ASSUME NEW k \in Nat, k \in T PROVE k + 1 \in T
  <2> SUFFICES ASSUME k + 1 <= l PROVE Sizes(t)[k + 1] = Sizes(s)[k + 1]
    OBVIOUS
  <2>1. k + 1 \in 1 .. l /\ k + 1 \in 1 .. n /\ (k + 1) - 1 = k /\ Sizes(t)[k] = Sizes(s)[k]
    BY <1>0, <1>2
  <2>2. Sizes(s)[k + 1] = Sizes(s)[k] + Passage[s[k + 1].id].size
    BY <2>1, SizesAdd
  <2>3. Sizes(t)[k + 1] = Sizes(t)[k] + Passage[t[k + 1].id].size
    BY <2>1, SizesAdd
  <2> QED BY <2>1, <2>2, <2>3
<1>3. Nat \subseteq T
  <2> HIDE DEF T
  <2> QED BY <1>1, <1>2, Induct
<1> QED BY <1>0, <1>3

\* WithinBudget leaves as much of the front as the budget holds.
LEMMA BudgetCuts ==
    ASSUME NEW n, NEW s, Sized(s, n), NEW S, s \in [1 .. n -> S], profile.budget \in Nat
    PROVE  \E l \in 0 .. n :
             /\ WithinBudget(s) = [k \in 1 .. l |-> s[k]]
             /\ Len(WithinBudget(s)) = l
             /\ SizeOf(WithinBudget(s)) <= profile.budget
             /\ l < n => SizeOf(WithinBudget(s)) + Passage[s[l + 1].id].size > profile.budget
<1> DEFINE fits == {k \in 0 .. n : Sizes(s)[k] <= profile.budget}
           l == CHOOSE k \in fits : \A m \in fits : m <= k
           t == WithinBudget(s)
<1>1. n \in Nat /\ Len(s) = n
  BY DEF Sized
<1>2. 0 \in fits
  BY <1>1, SizesAdd
<1>3. l \in fits /\ \A m \in fits : m <= l
  <2>1. fits \subseteq 0 .. n /\ fits # {}
    BY <1>2
  <2> HIDE DEF fits
  <2>2. \E k \in fits : \A m \in fits : m <= k
    BY <1>1, <2>1, SomeGreatest
  <2> QED BY <2>2
<1>4. l \in 0 .. n /\ Sizes(s)[l] <= profile.budget
  <2> HIDE DEF l
  <2> QED BY <1>3
<1>5. t = SubSeq(s, 1, l)
  BY <1>1 DEF WithinBudget
<1>6. l < n => ~(Sizes(s)[l + 1] <= profile.budget)
  <2> HIDE DEF l
  <2> QED BY <1>1, <1>3, <1>4
<1> HIDE DEF l, fits
<1>7. t = [k \in 1 .. l |-> s[k]] /\ Len(t) = l
  <2> HIDE DEF t
  <2> QED BY <1>1, <1>4, <1>5, PrefixOf
<1> HIDE DEF t
<1>8. Sized(t, l) /\ \A k \in 1 .. l : t[k] = s[k]
  <2>1. \A k \in 1 .. l : k \in 1 .. n
    BY <1>1, <1>4
  <2> QED BY <1>1, <1>4, <1>7, <2>1 DEF Sized
<1>9. SizeOf(t) = Sizes(s)[l]
  <2>1. SizeOf(t) = Sizes(t)[l]
    BY <1>7 DEF SizeOf
  <2> QED BY <1>4, <1>8, <2>1, SizesOfPrefix
<1>10. ASSUME l < n PROVE SizeOf(t) + Passage[s[l + 1].id].size > profile.budget
  <2>1. l + 1 \in 1 .. n /\ (l + 1) - 1 = l /\ l + 1 \in 0 .. n
    BY <1>1, <1>4, <1>10
  <2>2. Sizes(s)[l + 1] = Sizes(s)[l] + Passage[s[l + 1].id].size
    BY <2>1, SizesAdd
  <2>3. Sizes(s)[l + 1] \in Nat
    BY <2>1, SizesAreNat
  <2> QED BY <1>6, <1>9, <1>10, <2>2, <2>3
<1> QED BY <1>4, <1>7, <1>9, <1>10 DEF t

-----------------------------------------------------------------------------
(* What is shown, given the order of the pool.                             *)

\* s lists the pool, each entry once.
Enumerates(s, m) ==
    /\ m \in Nat /\ s \in [1 .. m -> Pool]
    /\ \A e \in Pool : \E i \in 1 .. m : s[i] = e
    /\ \A i, j \in 1 .. m : s[i] = s[j] => i = j

\* The pool knows its passages, and none twice.
PoolOK ==
    /\ \A e \in Pool : /\ e \in [id : DOMAIN Passage, scored : BOOLEAN, rank : Nat \ {0}]
                       /\ e.id \in DOMAIN Passage /\ e.rank \in Nat \ {0} /\ Score(e) \in Int
    /\ \A e, f \in Pool : e.id = f.id => e = f

\* The evidence is the front of a choice from s, as long as the budget holds.
Shown(s, m, g, n, l) ==
    /\ Chooses(s, g, n) /\ l \in 0 .. n
    /\ DOMAIN evidence = 1 .. l /\ Len(evidence) = l
    /\ \A k \in 1 .. l : /\ k \in 1 .. n /\ g[k] \in 1 .. m
                         /\ evidence[k] = s[g[k]] /\ evidence[k] \in Pool
    /\ SizeOf(evidence) <= profile.budget
    /\ l < n => /\ l + 1 \in 1 .. n /\ g[l + 1] \in 1 .. m
                /\ SizeOf(evidence) + Passage[s[g[l + 1]].id].size > profile.budget

LEMMA EvidenceShown ==
    ASSUME profile \in Profile, PoolOK, NEW m, NEW s, Enumerates(s, m),
           evidence = WithinBudget(Candidates(s))
    PROVE  \E g, n, l : Shown(s, m, g, n, l)
<1>1. Width \in Nat /\ profile.budget \in Nat
  BY GuidanceAssumption DEF Width, Profile
<1>2. m \in Nat /\ DOMAIN s = 1 .. m /\ \A i \in 1 .. m : s[i] \in Pool
  BY DEF Enumerates
<1> DEFINE c == Candidates(s)
<1>3. PICK n, g : Chooses(s, g, n) /\ c = [k \in 1 .. n |-> s[g[k]]]
  BY <1>1, <1>2, CandidatesChoose
<1> HIDE DEF c
<1>4. n \in Nat /\ \A k \in 1 .. n : g[k] \in 1 .. m /\ c[k] = s[g[k]] /\ c[k] \in Pool
  BY <1>2, <1>3 DEF Chooses
<1>5. c \in [1 .. n -> Pool]
  BY <1>3, <1>4
<1>6. Len(c) = n
  <2>1. n \in 0 .. n
    BY <1>4
  <2> QED BY <1>4, <1>5, <2>1, PrefixOf
<1>7. Sized(c, n)
  BY <1>4, <1>5, <1>6 DEF Sized, PoolOK
<1>8. PICK l \in 0 .. n :
        /\ evidence = [k \in 1 .. l |-> c[k]]
        /\ Len(evidence) = l
        /\ SizeOf(evidence) <= profile.budget
        /\ l < n => SizeOf(evidence) + Passage[c[l + 1].id].size > profile.budget
  <2>1. evidence = WithinBudget(c)
    BY DEF c
  <2> QED BY <1>1, <1>5, <1>7, <2>1, BudgetCuts
<1>9. \A k \in 1 .. l : k \in 1 .. n
  BY <1>4
<1>10. l < n => l + 1 \in 1 .. n
  BY <1>4
<1>11. Shown(s, m, g, n, l)
  BY <1>3, <1>4, <1>8, <1>9, <1>10 DEF Shown
<1> QED BY <1>11

LEMMA ShownFits ==
    ASSUME NEW m, NEW s, Enumerates(s, m), NEW g, NEW n, NEW l, Shown(s, m, g, n, l), Width \in Nat
    PROVE  EvidenceFits
<1>1. n \in Nat /\ n <= Width /\ l <= n
  BY DEF Shown, Chooses
<1>2. Range(evidence) \subseteq Usable
  BY DEF Usable, Shown, Chooses, Range
<1>3. \A i, j \in DOMAIN evidence : i < j => ~SamePage(evidence[i], evidence[j])
  BY DEF Shown, Chooses
<1>4. SizeOf(evidence) <= profile.budget /\ Len(evidence) <= Width
  BY <1>1 DEF Shown
<1> QED BY <1>2, <1>3, <1>4 DEF EvidenceFits

\* What is left out stands behind all that is shown; the choice ended before it
\* or went on to its page.
LEMMA LeftOutIsBehind ==
    ASSUME NEW m, NEW s, Enumerates(s, m), NEW g, NEW n, NEW l, Shown(s, m, g, n, l),
           NEW e \in LeftOut
    PROVE  \E p \in 1 .. m : /\ s[p] = e /\ \A k \in 1 .. l : g[k] < p
                             /\ n = Width \/ l < n
<1>1. e \in Pool /\ Relevant(e)
  BY DEF LeftOut, Usable
<1>2. PICK p \in 1 .. m : s[p] = e
  BY <1>1 DEF Enumerates
<1>3. m \in Nat /\ n \in Nat /\ l \in 0 .. n /\ DOMAIN s = 1 .. m /\ DOMAIN evidence = 1 .. l
  BY DEF Enumerates, Shown, Chooses
<1>4. Considered(s, g, n, p)
  BY <1>1, <1>2, <1>3 DEF Shown, Chooses
<1>5. \A k \in 1 .. l : g[k] # p /\ ~SamePage(s[p], s[g[k]])
  <2> TAKE k \in 1 .. l
  <2>1. evidence[k] = s[g[k]] /\ k \in DOMAIN evidence
    BY <1>3 DEF Shown
  <2>2. evidence[k].id # e.id /\ ~SamePage(evidence[k], e)
    BY <2>1 DEF LeftOut
  <2> QED BY <1>2, <2>1, <2>2 DEF SamePage
<1>6. \A k \in 1 .. n : g[k] \in 1 .. m
  BY <1>3 DEF Shown, Chooses
<1>7. CASE \E k \in 1 .. n : g[k] <= p /\ (g[k] = p \/ SamePage(s[p], s[g[k]]))
  <2>1. PICK k \in 1 .. n : g[k] <= p /\ (g[k] = p \/ SamePage(s[p], s[g[k]]))
    BY <1>7
  <2>2. l < k
    BY <1>3, <1>5, <2>1
  <2>3. \A j \in 1 .. l : j \in 1 .. n /\ j < k
    BY <1>3, <2>2
  <2>4. \A j \in 1 .. l : g[j] < g[k]
    BY <2>3 DEF Shown, Chooses
  <2>5. \A j \in 1 .. l : g[j] < p
    BY <1>6, <2>1, <2>3, <2>4
  <2> QED BY <1>2, <1>3, <2>2, <2>5
<1>8. CASE n = Width /\ \A k \in 1 .. n : g[k] < p
  <2>1. \A k \in 1 .. l : k \in 1 .. n
    BY <1>3
  <2> QED BY <1>2, <1>8, <2>1
<1> QED BY <1>4, <1>7, <1>8 DEF Considered

LEMMA ShownIsComplete ==
    ASSUME NEW m, NEW s, Enumerates(s, m), PoolOK, NEW g, NEW n, NEW l, Shown(s, m, g, n, l)
    PROVE  EvidenceComplete
<1>1. m \in Nat /\ n \in Nat /\ l \in 0 .. n /\ Len(evidence) = l /\ DOMAIN evidence = 1 .. l
  BY DEF Enumerates, Shown, Chooses
<1>2. CASE l < n
  <2> DEFINE e == s[g[l + 1]]
  <2>1. l + 1 \in 1 .. n /\ g[l + 1] \in 1 .. m
    BY <1>2 DEF Shown
  <2>2. e \in Usable
    BY <2>1 DEF Usable, Enumerates, Shown, Chooses
  <2>3. ASSUME NEW k \in 1 .. l PROVE evidence[k].id # e.id /\ ~SamePage(evidence[k], e)
    <3>1. k \in 1 .. n /\ k < l + 1 /\ g[k] \in 1 .. m /\ evidence[k] = s[g[k]]
      BY <1>1 DEF Shown
    <3>2. g[k] < g[l + 1] /\ ~SamePage(s[g[k]], s[g[l + 1]])
      BY <2>1, <3>1 DEF Shown, Chooses
    <3>3. s[g[k]] # s[g[l + 1]]
      BY <2>1, <3>1, <3>2 DEF Enumerates
    <3>4. s[g[k]] \in Pool /\ s[g[l + 1]] \in Pool
      BY <2>1, <3>1 DEF Enumerates
    <3> QED BY <3>1, <3>2, <3>3, <3>4 DEF PoolOK
  <2>4. e \in LeftOut
    BY <1>1, <2>2, <2>3 DEF LeftOut
  <2>5. SizeOf(evidence) + Passage[e.id].size > profile.budget
    BY <1>2 DEF Shown
  <2> HIDE DEF e
  <2> QED BY <2>4, <2>5 DEF EvidenceComplete
<1>3. CASE l = n /\ LeftOut # {}
  <2>1. PICK e : e \in LeftOut
    BY <1>3
  <2>2. n = Width
    BY <1>1, <1>3, <2>1, LeftOutIsBehind
  <2> QED BY <1>1, <1>3, <2>2 DEF EvidenceComplete
<1>4. CASE LeftOut = {}
  BY <1>4 DEF EvidenceComplete
<1> QED BY <1>1, <1>2, <1>3, <1>4

\* What stands before another is at least as good.
LEMMA BeforeIsAsGood ==
    ASSUME PoolOK, NEW e \in Pool, NEW f \in Pool, Precedes(f, e)
    PROVE  IF settings.hybrid = "off" THEN Score(e) <= Score(f) ELSE e.rank >= f.rank
<1>1. e.rank \in Nat /\ f.rank \in Nat /\ Score(e) \in Int /\ Score(f) \in Int
  BY DEF PoolOK
<1>2. MergeBefore(f, e) \/ ~MergeBefore(e, f)
  BY DEF Precedes
<1>3. CASE settings.hybrid = "off"
  <2>1. Score(f) > Score(e) \/ ~(Score(e) > Score(f))
    BY <1>2, <1>3 DEF MergeBefore
  <2> QED BY <1>1, <1>3, <2>1
<1>4. CASE settings.hybrid # "off"
  <2>1. f.rank < e.rank \/ f.rank = e.rank \/ ~(e.rank < f.rank)
    BY <1>2, <1>4 DEF MergeBefore
  <2> QED BY <1>1, <1>4, <2>1
<1> QED BY <1>3, <1>4

LEMMA ShownIsBest ==
    ASSUME NEW m, NEW s, Enumerates(s, m), PoolOK, NEW g, NEW n, NEW l, Shown(s, m, g, n, l),
           \A i, j \in 1 .. m : i < j => Precedes(s[i], s[j])
    PROVE  EvidenceBest
<1>1. /\ m \in Nat /\ n \in Nat /\ l \in 0 .. n
      /\ DOMAIN s = 1 .. m /\ DOMAIN evidence = 1 .. l
      /\ \A i \in 1 .. m : s[i] \in Pool
  BY DEF Enumerates, Shown, Chooses
<1>2. ASSUME NEW e \in LeftOut, NEW i \in 1 .. l
      PROVE  IF settings.hybrid = "off" THEN Score(e) <= Score(evidence[i])
             ELSE e.rank >= evidence[i].rank
  <2>1. PICK p \in 1 .. m : s[p] = e /\ \A k \in 1 .. l : g[k] < p
    BY LeftOutIsBehind
  <2>2. g[i] \in 1 .. m /\ evidence[i] = s[g[i]] /\ g[i] < p
    BY <2>1 DEF Shown
  <2>3. Precedes(evidence[i], e) /\ e \in Pool /\ evidence[i] \in Pool
    BY <1>1, <2>1, <2>2
  <2> QED BY <2>3, BeforeIsAsGood
<1>3. ASSUME settings.hybrid = "off", NEW e \in Usable, NEW i \in 1 .. l, SamePage(e, evidence[i])
      PROVE  Score(e) <= Score(evidence[i])
  <2>1. e \in Pool /\ Relevant(e)
    BY DEF Usable
  <2>2. PICK p \in 1 .. m : s[p] = e
    BY <2>1 DEF Enumerates
  <2>3. g[i] \in 1 .. m /\ evidence[i] = s[g[i]] /\ evidence[i] \in Pool /\ i \in 1 .. n
    BY DEF Shown
  <2>4. Considered(s, g, n, p)
    BY <1>1, <2>1, <2>2 DEF Shown, Chooses
  <2>5. g[i] <= p
    <3>1. CASE \E k \in 1 .. n : g[k] <= p /\ (g[k] = p \/ SamePage(s[p], s[g[k]]))
      <4>1. PICK k \in 1 .. n : g[k] <= p /\ (g[k] = p \/ SamePage(s[p], s[g[k]]))
        BY <3>1
      <4>2. SamePage(s[g[i]], s[g[k]]) /\ SamePage(s[g[k]], s[g[i]])
        BY <1>3, <2>2, <2>3, <4>1 DEF SamePage
      <4>3. ~(i < k) /\ ~(k < i)
        BY <2>3, <4>1, <4>2 DEF Shown, Chooses
      <4>4. i = k
        BY <1>1, <2>3, <4>1, <4>3
      <4> QED BY <4>1, <4>4
    <3>2. CASE \A k \in 1 .. n : g[k] < p
      BY <1>1, <2>3, <3>2
    <3> QED BY <2>4, <3>1, <3>2 DEF Considered
  <2>6. e = evidence[i] \/ Precedes(evidence[i], e)
    BY <1>1, <2>2, <2>3, <2>5
  <2>7. Score(e) \in Int
    BY <2>1 DEF PoolOK
  <2>8. CASE e = evidence[i]
    BY <2>7, <2>8
  <2>9. CASE Precedes(evidence[i], e)
    BY <1>3, <2>1, <2>3, <2>9, BeforeIsAsGood
  <2> QED BY <2>6, <2>8, <2>9
<1>4. \A e \in LeftOut, i \in DOMAIN evidence :
        IF settings.hybrid = "off" THEN Score(e) <= Score(evidence[i])
        ELSE e.rank >= evidence[i].rank
  BY <1>1, <1>2
<1>5. settings.hybrid = "off" =>
        \A e \in Usable, i \in DOMAIN evidence :
          SamePage(e, evidence[i]) => Score(e) <= Score(evidence[i])
  BY <1>1, <1>3
<1> QED BY <1>4, <1>5 DEF EvidenceBest

-----------------------------------------------------------------------------
(* The fusion of two rankings.                                             *)

\* The running products of CommonDenominator.
Products(f, k, n) == f = [i \in 0 .. n |-> IF i = 0 THEN 1 ELSE f[i - 1] * (k + i)]

LEMMA ProductsExist ==
    ASSUME NEW k \in Nat, NEW n \in Nat
    PROVE  \E f \in [0 .. n -> Nat] : Products(f, k, n)
<1> DEFINE T == {m \in Nat : \E f \in [0 .. m -> Nat] : Products(f, k, m)}
<1>1. 0 \in T
  <2> DEFINE f == [i \in 0 .. 0 |-> 1]
  <2>1. f \in [0 .. 0 -> Nat] /\ Products(f, k, 0)
    BY DEF Products
  <2> HIDE DEF f
  <2> QED BY <2>1
<1>2. ASSUME NEW m \in Nat, m \in T PROVE m + 1 \in T
  <2>1. PICK f \in [0 .. m -> Nat] : Products(f, k, m)
    BY <1>2
  <2> DEFINE x == f[m] * (k + (m + 1))
             g == [i \in 0 .. m + 1 |-> IF i = m + 1 THEN x ELSE f[i]]
  <2>2. x \in Nat
    <3>1. f[m] \in Nat /\ k + (m + 1) \in Nat
      OBVIOUS
    <3> QED BY <3>1
  <2>3. g \in [0 .. m + 1 -> Nat]
    <3> HIDE DEF x
    <3> QED BY <2>2
  <2>4. ASSUME NEW i \in 0 .. m + 1 PROVE g[i] = IF i = 0 THEN 1 ELSE g[i - 1] * (k + i)
    <3>1. CASE i = m + 1
      <4>1. g[i] = x /\ g[i - 1] = f[m] /\ i # 0
        <5> HIDE DEF x
        <5> QED BY <3>1
      <4>2. x = f[m] * (k + i)
        BY <3>1
      <4> HIDE DEF g, x
      <4> QED BY <4>1, <4>2
    <3>2. CASE i # m + 1
      <4>1. i \in 0 .. m /\ g[i] = f[i] /\ (i # 0 => i - 1 \in 0 .. m + 1 /\ g[i - 1] = f[i - 1])
        <5> HIDE DEF x
        <5> QED BY <3>2
      <4>2. f[i] = IF i = 0 THEN 1 ELSE f[i - 1] * (k + i)
        BY <2>1, <4>1 DEF Products
      <4> HIDE DEF g
      <4> QED BY <4>1, <4>2
    <3> QED BY <3>1, <3>2
  <2>5. Products(g, k, m + 1)
    <3>1. g = [i \in 0 .. m + 1 |-> g[i]]
      BY <2>3
    <3> HIDE DEF g
    <3> QED BY <2>4, <3>1 DEF Products
  <2> HIDE DEF g
  <2> QED BY <2>3, <2>5
<1>3. Nat \subseteq T
  <2> HIDE DEF T
  <2> QED BY <1>1, <1>2, Induct
<1> QED BY <1>3

LEMMA DenominatorIsNat ==
    ASSUME NEW k \in Nat, NEW n \in Nat
    PROVE  CommonDenominator(k, n) \in Nat
<1> DEFINE P == CHOOSE f : Products(f, k, n)
<1>1. CommonDenominator(k, n) = P[n]
  BY DEF CommonDenominator, Products
<1>2. Products(P, k, n)
  <2>1. \E f : Products(f, k, n)
    BY ProductsExist
  <2> QED BY <2>1
<1> HIDE DEF P
<1>3. \A i \in 0 .. n : P[i] = IF i = 0 THEN 1 ELSE P[i - 1] * (k + i)
  BY <1>2 DEF Products
<1> DEFINE T == {m \in Nat : m <= n => P[m] \in Nat}
<1>4. 0 \in T
  BY <1>3
<1>5. ASSUME NEW m \in Nat, m \in T PROVE m + 1 \in T
  <2> SUFFICES ASSUME m + 1 <= n PROVE P[m + 1] \in Nat
    OBVIOUS
  <2>1. m + 1 \in 0 .. n /\ (m + 1) - 1 = m /\ m + 1 # 0 /\ P[m] \in Nat /\ k + (m + 1) \in Nat
    BY <1>5
  <2>2. P[m + 1] = P[m] * (k + (m + 1))
    BY <1>3, <2>1
  <2>3. P[m] * (k + (m + 1)) \in Nat
    BY <2>1
  <2> QED BY <2>2, <2>3
<1>6. Nat \subseteq T
  <2> HIDE DEF T
  <2> QED BY <1>4, <1>5, Induct
<1> QED BY <1>1, <1>6

\* What an arm finds: ids of D, none twice.
Listing(t, D) == t \in Seq(D) /\ \A i, j \in 1 .. Len(t) : t[i] = t[j] => i = j

LEMMA RankFacts ==
    ASSUME NEW D, NEW t, Listing(t, D), NEW d
    PROVE  /\ Len(t) \in Nat /\ RankIn(d, t) \in 1 .. Len(t) + 1
           /\ d \in Range(t) <=> RankIn(d, t) <= Len(t)
           /\ d \in Range(t) => d \in D /\ t[RankIn(d, t)] = d
<1>1. Len(t) \in Nat /\ DOMAIN t = 1 .. Len(t) /\ \A i \in 1 .. Len(t) : t[i] \in D
  BY DEF Listing
<1>2. CASE d \in Range(t)
  <2>1. \E i \in DOMAIN t : t[i] = d
    BY <1>2 DEF Range
  <2>2. RankIn(d, t) = CHOOSE i \in DOMAIN t : t[i] = d
    BY <1>2 DEF RankIn
  <2>3. RankIn(d, t) \in DOMAIN t /\ t[RankIn(d, t)] = d
    BY <2>1, <2>2, Zenon
  <2> QED BY <1>1, <1>2, <2>3
<1>3. CASE d \notin Range(t)
  <2>1. RankIn(d, t) = Len(t) + 1
    BY <1>3 DEF RankIn, Absent
  <2> QED BY <1>1, <1>3, <2>1
<1> QED BY <1>2, <1>3

\* Ids of an arm that it ranks alike are the same.
LEMMA RanksDiffer ==
    ASSUME NEW D, NEW t, Listing(t, D), NEW d, NEW e, d \in Range(t), RankIn(d, t) = RankIn(e, t)
    PROVE  d = e
<1>1. e \in Range(t)
  BY RankFacts
<1> QED BY <1>1, RankFacts

\* A share falls with the rank.
LEMMA ShareFalls ==
    ASSUME NEW D, NEW t, Listing(t, D), NEW w \in Nat, NEW k \in Nat \ {0}, NEW n \in Nat,
           NEW d, NEW e, RankIn(d, t) <= RankIn(e, t)
    PROVE  /\ Share(d, t, w, k, n) \in Nat /\ Share(e, t, w, k, n) \in Nat
           /\ Share(e, t, w, k, n) <= Share(d, t, w, k, n)
<1> DEFINE P == CommonDenominator(k, n)
           r == RankIn(d, t)
           q == RankIn(e, t)
<1>1. P \in Nat
  BY DenominatorIsNat
<1>2. r \in Nat /\ q \in Nat /\ r <= q
  BY RankFacts
<1>3. e \in Range(t) => d \in Range(t)
  <2>1. (e \in Range(t) <=> q <= Len(t)) /\ (d \in Range(t) <=> r <= Len(t)) /\ Len(t) \in Nat
    BY RankFacts
  <2> HIDE DEF r, q
  <2> QED BY <1>2, <2>1
<1>4. /\ Share(d, t, w, k, n) = IF d \in Range(t) THEN w * (P \div (k + r)) ELSE 0
      /\ Share(e, t, w, k, n) = IF e \in Range(t) THEN w * (P \div (k + q)) ELSE 0
  BY DEF Share
<1> HIDE DEF P, r, q
<1>5. P \div (k + r) \in Nat /\ P \div (k + q) \in Nat /\ P \div (k + q) <= P \div (k + r)
  <2> DEFINE x == k + r
             y == k + q
  <2>1. x \in Nat \ {0} /\ y \in Nat \ {0} /\ x <= y
    BY <1>2
  <2> HIDE DEF x, y
  <2>2. P \div x \in Nat /\ P \div y \in Nat /\ P \div y <= P \div x
    BY <1>1, <2>1
  <2> QED BY <2>2 DEF x, y
<1>6. \A a, b \in Nat : a <= b => w * a \in Nat /\ w * b \in Nat /\ w * a <= w * b
  OBVIOUS
<1> QED BY <1>3, <1>4, <1>5, <1>6

LEMMA FiniteById ==
    ASSUME NEW S, NEW D, IsFiniteSet(D), \A x \in S : x.id \in D,
           \A x, y \in S : x.id = y.id => x = y
    PROVE  IsFiniteSet(S)
<1> DEFINE f == [x \in S |-> x.id]
<1>1. f \in Injection(S, D)
  BY DEF Injection, IsInjective
<1> HIDE DEF f
<1> QED BY <1>1, FS_Injection

LEMMA CandidateFacts ==
    ASSUME NEW D, NEW dense, Listing(dense, D), NEW lexical, Listing(lexical, D),
           NEW weights, weights[1] \in Nat, weights[2] \in Nat, NEW k \in Nat \ {0},
           NEW d, NEW e
    PROVE  LET C(x) == Candidate(x, dense, lexical, weights, k)
           IN  /\ C(d).id = d /\ C(d).score \in Nat
               /\ C(d).denseRank = RankIn(d, dense) /\ C(d).denseRank \in Nat
               /\ C(d).lexicalRank = RankIn(d, lexical) /\ C(d).lexicalRank \in Nat
               /\ RankIn(d, dense) <= RankIn(e, dense) /\ RankIn(d, lexical) <= RankIn(e, lexical)
                    => C(e).score <= C(d).score
<1> DEFINE n == IF Len(dense) < Len(lexical) THEN Len(lexical) ELSE Len(dense)
           S(x) == Share(x, dense, weights[1], k, n)
           T(x) == Share(x, lexical, weights[2], k, n)
<1>1. n \in Nat
  BY DEF Listing
<1>2. /\ RankIn(d, dense) \in Nat /\ RankIn(e, dense) \in Nat
      /\ RankIn(d, lexical) \in Nat /\ RankIn(e, lexical) \in Nat
  <2>1. \A x : RankIn(x, dense) \in 1 .. Len(dense) + 1 /\ Len(dense) \in Nat
    BY RankFacts
  <2>2. \A x : RankIn(x, lexical) \in 1 .. Len(lexical) + 1 /\ Len(lexical) \in Nat
    BY RankFacts
  <2> QED BY <2>1, <2>2
<1> HIDE DEF n
<1>3. /\ S(d) \in Nat /\ S(e) \in Nat /\ T(d) \in Nat /\ T(e) \in Nat
      /\ RankIn(d, dense) <= RankIn(e, dense) => S(e) <= S(d)
      /\ RankIn(d, lexical) <= RankIn(e, lexical) => T(e) <= T(d)
  <2>1. RankIn(d, dense) <= RankIn(d, dense) /\ RankIn(e, dense) <= RankIn(e, dense)
        /\ RankIn(d, lexical) <= RankIn(d, lexical) /\ RankIn(e, lexical) <= RankIn(e, lexical)
    BY <1>2
  <2>2. S(d) \in Nat /\ S(e) \in Nat
    BY <1>1, <2>1, ShareFalls
  <2>3. T(d) \in Nat /\ T(e) \in Nat
    BY <1>1, <2>1, ShareFalls
  <2>4. ASSUME RankIn(d, dense) <= RankIn(e, dense) PROVE S(e) <= S(d)
    BY <1>1, <2>4, ShareFalls
  <2>5. ASSUME RankIn(d, lexical) <= RankIn(e, lexical) PROVE T(e) <= T(d)
    BY <1>1, <2>5, ShareFalls
  <2> HIDE DEF S, T
  <2> QED BY <2>2, <2>3, <2>4, <2>5
<1>4. \A x : FusionScore(x, dense, lexical, weights, k) = S(x) + T(x)
  BY DEF FusionScore, n
<1> HIDE DEF S, T
<1> QED BY <1>2, <1>3, <1>4 DEF Candidate

\* What Fuse returns is a listing in which a later id is ranked lower by an arm.
LEMMA FuseFacts ==
    ASSUME NEW D, IsFiniteSet(D), NEW dense, Listing(dense, D), NEW lexical, Listing(lexical, D),
           NEW weights, weights[1] \in Nat, weights[2] \in Nat, NEW k \in Nat \ {0},
           NEW limit \in Nat
    PROVE  LET ids == Fuse(dense, lexical, weights, k, limit)
           IN  /\ Listing(ids, D)
               /\ \A i, j \in 1 .. Len(ids) :
                    j < i => \/ RankIn(ids[j], dense) < RankIn(ids[i], dense)
                             \/ RankIn(ids[j], lexical) < RankIn(ids[i], lexical)
<1> DEFINE C(x) == Candidate(x, dense, lexical, weights, k)
           U == Range(dense) \cup Range(lexical)
           all == {C(d) : d \in U}
           R == {p \in all \X all : SortsBefore(p[1], p[2])}
           q == InOrder(all, R)
           N == Cardinality(all)
           ids == Fuse(dense, lexical, weights, k, limit)
<1>1. \A d : /\ C(d).id = d /\ C(d).score \in Nat
             /\ C(d).denseRank = RankIn(d, dense) /\ C(d).denseRank \in Nat
             /\ C(d).lexicalRank = RankIn(d, lexical) /\ C(d).lexicalRank \in Nat
  BY CandidateFacts
<1>2. \A d, e : RankIn(d, dense) <= RankIn(e, dense) /\ RankIn(d, lexical) <= RankIn(e, lexical)
                  => C(e).score <= C(d).score
  BY CandidateFacts
<1>3. \A d \in U : d \in D
  BY RankFacts
<1>4. \A d, e \in U : RankIn(d, dense) = RankIn(e, dense) /\ RankIn(d, lexical) = RankIn(e, lexical)
                        => d = e
  BY RanksDiffer
<1> HIDE DEF C, U
<1>5. \A x \in all : x.id \in U /\ x.id \in D /\ x = C(x.id)
  BY <1>1, <1>3
<1>6. IsFiniteSet(all)
  <2>1. \A x, y \in all : x.id = y.id => x = y
    BY <1>5
  <2> HIDE DEF all
  <2> QED BY <1>5, <2>1, FiniteById
<1>7. \A x, y \in all : <<x, y>> \in R <=> SortsBefore(x, y)
  OBVIOUS
<1>8. TotalOn(all, R)
  <2>1. \A x \in all : x.score \in Nat /\ x.denseRank \in Nat /\ x.lexicalRank \in Nat
    BY <1>1, <1>5
  <2>2. \A x, y \in all : x.denseRank = y.denseRank /\ x.lexicalRank = y.lexicalRank => x = y
    BY <1>1, <1>4, <1>5
  <2> HIDE DEF all, R
  <2>3. \A x \in all : <<x, x>> \notin R
    BY <1>7, <2>1 DEF SortsBefore
  <2>4. \A x, y \in all : x # y => <<x, y>> \in R \/ <<y, x>> \in R
    BY <1>7, <2>1, <2>2 DEF SortsBefore
  <2>5. \A x, y, z \in all : <<x, y>> \in R /\ <<y, z>> \in R => <<x, z>> \in R
    BY <1>7, <2>1 DEF SortsBefore
  <2> QED BY <2>3, <2>4, <2>5 DEF TotalOn
<1>9. /\ N \in Nat /\ q \in [1 .. N -> all]
      /\ \A i, j \in 1 .. N : i < j => <<q[i], q[j]>> \in R
  <2> HIDE DEF all, R
  <2> QED BY <1>6, <1>8, InOrderSorts
<1>10. ids = [i \in 1 .. (IF limit < Len(q) THEN limit ELSE Len(q)) |-> q[i].id]
  BY DEF Fuse, C, U
<1> HIDE DEF all, q, N, R, ids
<1>11. Len(q) = N
  BY <1>9
<1> DEFINE L == IF limit < N THEN limit ELSE N
<1>12. L \in Nat /\ L <= N /\ ids = [i \in 1 .. L |-> q[i].id]
  BY <1>9, <1>10, <1>11
<1> HIDE DEF L
<1>13. \A i \in 1 .. L : i \in 1 .. N /\ q[i] \in all /\ ids[i] = q[i].id /\ ids[i] \in D
                         /\ q[i] = C(ids[i])
  <2>1. \A i \in 1 .. L : i \in 1 .. N /\ q[i] \in all /\ ids[i] = q[i].id
    BY <1>9, <1>12
  <2> QED BY <1>5, <2>1
<1>14. ids \in Seq(D) /\ Len(ids) = L
  BY <1>12, <1>13
<1>15. ASSUME NEW i \in 1 .. L, NEW j \in 1 .. L, j < i
       PROVE  /\ ids[j] # ids[i]
              /\ \/ RankIn(ids[j], dense) < RankIn(ids[i], dense)
                 \/ RankIn(ids[j], lexical) < RankIn(ids[i], lexical)
  <2>1. SortsBefore(C(ids[j]), C(ids[i]))
    <3>1. <<q[j], q[i]>> \in R
      BY <1>9, <1>13, <1>15
    <3> QED BY <1>7, <1>13, <3>1
  <2>2. CASE C(ids[j]).score > C(ids[i]).score
    <3>1. ~(C(ids[j]).score <= C(ids[i]).score)
      BY <1>1, <2>2
    <3>2. ~(RankIn(ids[i], dense) <= RankIn(ids[j], dense) /\ RankIn(ids[i], lexical) <= RankIn(ids[j], lexical))
      BY <1>2, <3>1
    <3>3. ids[i] # ids[j]
      BY <1>1, <2>2
    <3> QED BY <1>1, <3>2, <3>3
  <2>3. CASE C(ids[j]).score = C(ids[i]).score /\ C(ids[j]).denseRank < C(ids[i]).denseRank
    BY <1>1, <2>3
  <2>4. CASE /\ C(ids[j]).score = C(ids[i]).score /\ C(ids[j]).denseRank = C(ids[i]).denseRank
             /\ C(ids[j]).lexicalRank < C(ids[i]).lexicalRank
    BY <1>1, <2>4
  <2> QED BY <2>1, <2>2, <2>3, <2>4 DEF SortsBefore
<1>16. \A i, j \in 1 .. L : ids[i] = ids[j] => i = j
  <2>1. \A i, j \in 1 .. L : i = j \/ i < j \/ j < i
    BY <1>12
  <2> QED BY <1>15, <2>1
<1>17. Listing(ids, D)
  BY <1>14, <1>16 DEF Listing
<1>18. \A i, j \in 1 .. Len(ids) :
         j < i => \/ RankIn(ids[j], dense) < RankIn(ids[i], dense)
                  \/ RankIn(ids[j], lexical) < RankIn(ids[i], lexical)
  BY <1>14, <1>15
<1> QED BY <1>17, <1>18 DEF ids

-----------------------------------------------------------------------------
(* What the collections contribute.                                        *)

\* What an arm finds is of its collection.
ArmInv == \A c \in Collection, a \in Arms : Listing(arm[c][a].found, Stock(c))

LEMMA StockIsFinite ==
    ASSUME NEW c PROVE IsFiniteSet(Stock(c)) /\ Stock(c) \in SUBSET DOMAIN Passage
<1>1. Stock(c) \in SUBSET DOMAIN Passage /\ IsFiniteSet(DOMAIN Passage)
  BY GuidanceAssumption DEF Stock
<1> QED BY <1>1, FS_Subset

LEMMA ProfileIs == TypeOK => profile \in Profile
BY GuidanceAssumption DEF TypeOK

LEMMA ArmsFused ==
    ASSUME TypeOK, ArmInv, NEW c \in Collection, settings.hybrid = "both", ~Raised(c)
    PROVE  /\ Listing(Retrieved(c), Stock(c))
           /\ \A i, j \in 1 .. Len(Retrieved(c)) :
                j < i => \/ RankIn(Retrieved(c)[j], arm[c]["dense"].found)
                              < RankIn(Retrieved(c)[i], arm[c]["dense"].found)
                         \/ RankIn(Retrieved(c)[j], arm[c]["lexical"].found)
                              < RankIn(Retrieved(c)[i], arm[c]["lexical"].found)
<1> DEFINE dense == arm[c]["dense"].found
           lexical == arm[c]["lexical"].found
           width == FetchWidth(profile)
           D == Stock(c)
<1>1. Listing(dense, D) /\ Listing(lexical, D) /\ IsFiniteSet(D)
  BY StockIsFinite DEF ArmInv, Arms
<1>2. Weights[1] \in Nat /\ Weights[2] \in Nat /\ RrfK \in Nat \ {0}
  BY GuidanceAssumption
<1>3. width \in Nat
  BY ProfileIs, GuidanceAssumption DEF FetchWidth, Most, Profile
<1>4. Retrieved(c) = Fuse(dense, lexical, Weights, RrfK, width)
  BY DEF Retrieved
<1> HIDE DEF dense, lexical, width, D
<1>5. LET ids == Fuse(dense, lexical, Weights, RrfK, width)
      IN  /\ Listing(ids, D)
          /\ \A i, j \in 1 .. Len(ids) :
               j < i => \/ RankIn(ids[j], dense) < RankIn(ids[i], dense)
                        \/ RankIn(ids[j], lexical) < RankIn(ids[i], lexical)
  BY <1>1, <1>2, <1>3, FuseFacts
<1> QED BY <1>4, <1>5 DEF dense, lexical, D

LEMMA RetrievedIsListing ==
    ASSUME TypeOK, ArmInv, NEW c \in Collection
    PROVE  Listing(Retrieved(c), Stock(c))
<1>1. CASE Raised(c)
  <2>1. Retrieved(c) = <<>>
    BY <1>1 DEF Retrieved
  <2> QED BY <2>1 DEF Listing
<1>2. CASE ~Raised(c) /\ settings.hybrid = "both"
  BY <1>2, ArmsFused
<1>3. CASE ~Raised(c) /\ settings.hybrid # "both"
  <2>1. Retrieved(c) \in {arm[c]["lexical"].found, arm[c]["dense"].found}
    BY <1>3 DEF Retrieved
  <2> QED BY <2>1 DEF ArmInv, Arms
<1> QED BY <1>1, <1>2, <1>3

LEMMA AgreementHolds ==
    ASSUME TypeOK, ArmInv PROVE AgreementLifts
<1> SUFFICES ASSUME NEW c \in Collection, settings.hybrid = "both",
                    NEW i \in DOMAIN Retrieved(c), NEW j \in DOMAIN Retrieved(c), i > j
             PROVE  \E a \in Arms : RankIn(Retrieved(c)[j], arm[c][a].found)
                                      < RankIn(Retrieved(c)[i], arm[c][a].found)
  BY DEF AgreementLifts
<1>1. ~Raised(c)
  <2>1. Raised(c) => Retrieved(c) = <<>>
    BY DEF Retrieved
  <2> QED BY <2>1
<1>2. Listing(Retrieved(c), Stock(c))
  BY RetrievedIsListing
<1>3. i \in 1 .. Len(Retrieved(c)) /\ j \in 1 .. Len(Retrieved(c)) /\ j < i
  BY <1>2 DEF Listing
<1>4. \/ RankIn(Retrieved(c)[j], arm[c]["dense"].found)
           < RankIn(Retrieved(c)[i], arm[c]["dense"].found)
      \/ RankIn(Retrieved(c)[j], arm[c]["lexical"].found)
           < RankIn(Retrieved(c)[i], arm[c]["lexical"].found)
  BY <1>1, <1>3, ArmsFused
<1> QED BY <1>4 DEF Arms

\* e is what collection c contributes at rank i.
Contributed(e, c, i) ==
    /\ c \in Collection /\ i \in Nat \ {0} /\ i \in 1 .. Len(Retrieved(c))
    /\ e = [id |-> Retrieved(c)[i], rank |-> i,
            scored |-> Retrieved(c)[i] \in Range(arm[c]["dense"].found)]
    /\ e.id = Retrieved(c)[i] /\ e.rank = i
    /\ e.id \in Stock(c)

LEMMA PoolEntry ==
    ASSUME TypeOK, ArmInv, NEW e \in Pool
    PROVE  \E c, i : Contributed(e, c, i)
<1>1. PICK c \in Collection : e \in Range(Entries(c))
  BY DEF Pool
<1>2. Listing(Retrieved(c), Stock(c))
  BY RetrievedIsListing
<1>3. DOMAIN Retrieved(c) = 1 .. Len(Retrieved(c)) /\ Len(Retrieved(c)) \in Nat
      /\ \A i \in 1 .. Len(Retrieved(c)) : Retrieved(c)[i] \in Stock(c)
  BY <1>2 DEF Listing
<1>4. PICK i \in 1 .. Len(Retrieved(c)) : e = Entries(c)[i]
  BY <1>1, <1>3 DEF Entries, Range
<1>5. e = [id |-> Retrieved(c)[i], rank |-> i,
           scored |-> Retrieved(c)[i] \in Range(arm[c]["dense"].found)]
  BY <1>3, <1>4 DEF Entries
<1>6. Contributed(e, c, i)
  BY <1>3, <1>5 DEF Contributed
<1> QED BY <1>6

LEMMA SameHomeSameRank ==
    ASSUME TypeOK, ArmInv, NEW e, NEW f, NEW c, NEW d, NEW i, NEW j,
           Contributed(e, c, i), Contributed(f, d, j)
    PROVE  /\ Passage[e.id].home = c
           /\ e.id = f.id \/ (c = d /\ i = j) => e = f
<1>1. Passage[e.id].home = c /\ Passage[f.id].home = d
  BY DEF Contributed, Stock
<1>2. ASSUME e.id = f.id PROVE c = d /\ i = j
  <2>1. c = d /\ Listing(Retrieved(c), Stock(c))
    BY <1>1, <1>2, RetrievedIsListing DEF Contributed
  <2> QED BY <1>2, <2>1 DEF Contributed, Listing
<1>3. ASSUME c = d, i = j PROVE e = f
  BY <1>3 DEF Contributed
<1> QED BY <1>1, <1>2, <1>3

LEMMA PoolIsOK ==
    ASSUME TypeOK, ArmInv PROVE PoolOK
<1>1. ASSUME NEW e \in Pool
      PROVE  /\ e \in [id : DOMAIN Passage, scored : BOOLEAN, rank : Nat \ {0}]
             /\ e.id \in DOMAIN Passage /\ e.rank \in Nat \ {0} /\ Score(e) \in Int
  <2>1. PICK c, i : Contributed(e, c, i)
    BY PoolEntry
  <2>2. e.id \in DOMAIN Passage /\ e.rank \in Nat \ {0}
    <3>1. e.id \in Stock(c) /\ e.rank = i /\ i \in Nat \ {0}
      BY <2>1 DEF Contributed
    <3> QED BY <3>1 DEF Stock
  <2>3. e \in [id : DOMAIN Passage, scored : BOOLEAN, rank : Nat \ {0}]
    <3>1. /\ e = [id |-> Retrieved(c)[i], rank |-> i,
                  scored |-> Retrieved(c)[i] \in Range(arm[c]["dense"].found)]
          /\ e.id = Retrieved(c)[i] /\ i \in Nat \ {0}
      BY <2>1 DEF Contributed
    <3>2. Retrieved(c)[i] \in DOMAIN Passage
      BY <2>2, <3>1
    <3> QED BY <3>1, <3>2
  <2>4. Score(e) \in Int
    BY <2>2, GuidanceAssumption DEF Score
  <2> QED BY <2>2, <2>3, <2>4
<1>2. ASSUME NEW e \in Pool, NEW f \in Pool, e.id = f.id PROVE e = f
  <2>1. (\E c, i : Contributed(e, c, i)) /\ (\E d, j : Contributed(f, d, j))
    BY PoolEntry
  <2> QED BY <1>2, <2>1, SameHomeSameRank
<1> QED BY <1>1, <1>2 DEF PoolOK

-----------------------------------------------------------------------------
(* The order of the pool.                                                  *)

\* The place of an entry's collection.
Place(e) == CHOOSE i \in DOMAIN Collections : Collections[i] = Passage[e.id].home

LEMMA ListedIsTotal ==
    ASSUME TypeOK, ArmInv
    PROVE  /\ \A e \in Pool : Place(e) \in Nat /\ e.rank \in Nat
           /\ \A e, f \in Pool : Place(e) = Place(f) /\ e.rank = f.rank => e = f
           /\ \A e, f \in Pool : Listed(e, f) <=> Place(e) < Place(f)
                                                  \/ (Place(e) = Place(f) /\ e.rank < f.rank)
<1>1. ASSUME NEW e \in Pool
      PROVE  /\ Place(e) \in Nat /\ Place(e) \in DOMAIN Collections /\ e.rank \in Nat
             /\ Collections[Place(e)] = Passage[e.id].home
  <2>1. PICK c, i : Contributed(e, c, i)
    BY PoolEntry
  <2>2. Passage[e.id].home = c /\ c \in Collection /\ e.rank \in Nat
    BY <2>1 DEF Contributed, Stock
  <2>3. \E k \in DOMAIN Collections : Collections[k] = Passage[e.id].home
    BY <2>2 DEF Collection, Range
  <2>4. Place(e) \in DOMAIN Collections /\ Collections[Place(e)] = Passage[e.id].home
    BY <2>3, Zenon DEF Place
  <2>5. DOMAIN Collections \subseteq Nat
    BY GuidanceAssumption
  <2> QED BY <2>2, <2>4, <2>5
<1>2. ASSUME NEW e \in Pool, NEW f \in Pool, Place(e) = Place(f), e.rank = f.rank PROVE e = f
  <2>1. PICK c, i : Contributed(e, c, i)
    BY PoolEntry
  <2>2. PICK d, j : Contributed(f, d, j)
    BY PoolEntry
  <2>3. Passage[e.id].home = c /\ Passage[f.id].home = d
    BY <2>1, <2>2 DEF Contributed, Stock
  <2>4. c = d /\ i = j
    BY <1>1, <1>2, <2>1, <2>2, <2>3 DEF Contributed
  <2> QED BY <2>1, <2>2, <2>4, SameHomeSameRank
<1>3. \A e, f : Listed(e, f) <=> Place(e) < Place(f)
                                 \/ (Place(e) = Place(f) /\ e.rank < f.rank)
  BY DEF Listed, Place
<1> QED BY <1>1, <1>2, <1>3

\* The sort of the pool is a total order: what it cannot tell apart keeps its
\* listed order.
LEMMA PrecedesIsTotal ==
    ASSUME TypeOK, ArmInv
    PROVE  TotalOn(Pool, {p \in Pool \X Pool : Precedes(p[1], p[2])})
<1> DEFINE R == {p \in Pool \X Pool : Precedes(p[1], p[2])}
<1>1. \A e, f \in Pool : <<e, f>> \in R <=> Precedes(e, f)
  OBVIOUS
<1>2. PoolOK
  BY PoolIsOK
<1>3. \A e \in Pool : /\ Place(e) \in Nat /\ e.rank \in Nat /\ Score(e) \in Int
                      /\ e.scored \in BOOLEAN
  BY <1>2, ListedIsTotal DEF PoolOK
<1> HIDE DEF R
<1>4. \A e \in Pool : ~Listed(e, e) /\ ~MergeBefore(e, e)
  BY <1>3, ListedIsTotal DEF MergeBefore
<1>5. \A e, f \in Pool : e # f => Listed(e, f) \/ Listed(f, e)
  BY <1>3, ListedIsTotal
<1>6. \A e, f, g \in Pool : Listed(e, f) /\ Listed(f, g) => Listed(e, g)
  BY <1>3, ListedIsTotal
<1>7. \A e, f \in Pool : MergeBefore(e, f) => ~MergeBefore(f, e)
  BY <1>3 DEF MergeBefore
<1>8. \A e, f, g \in Pool : MergeBefore(e, f) /\ ~MergeBefore(g, f) => MergeBefore(e, g)
  BY <1>3 DEF MergeBefore
<1>9. \A e, f, g \in Pool : ~MergeBefore(f, e) /\ MergeBefore(f, g) => MergeBefore(e, g)
  BY <1>3 DEF MergeBefore
<1>10. \A e, f, g \in Pool : ~MergeBefore(f, e) /\ ~MergeBefore(g, f) => ~MergeBefore(g, e)
  BY <1>3 DEF MergeBefore
<1>11. \A e \in Pool : <<e, e>> \notin R
  BY <1>1, <1>4 DEF Precedes
<1>12. \A e, f \in Pool : e # f => <<e, f>> \in R \/ <<f, e>> \in R
  BY <1>1, <1>5 DEF Precedes
<1>13. ASSUME NEW e \in Pool, NEW f \in Pool, NEW g \in Pool, Precedes(e, f), Precedes(f, g)
       PROVE  Precedes(e, g)
  <2>1. CASE MergeBefore(e, f)
    <3>1. ~MergeBefore(g, f)
      BY <1>7, <1>13 DEF Precedes
    <3> QED BY <1>8, <2>1, <3>1 DEF Precedes
  <2>2. CASE ~MergeBefore(f, e) /\ MergeBefore(f, g)
    BY <1>9, <2>2 DEF Precedes
  <2>3. CASE ~MergeBefore(f, e) /\ Listed(e, f) /\ ~MergeBefore(g, f) /\ Listed(f, g)
    BY <1>6, <1>10, <2>3 DEF Precedes
  <2> QED BY <1>13, <2>1, <2>2, <2>3 DEF Precedes
<1>14. \A e, f, g \in Pool : <<e, f>> \in R /\ <<f, g>> \in R => <<e, g>> \in R
  BY <1>1, <1>13
<1> QED BY <1>11, <1>12, <1>14 DEF TotalOn, R

LEMMA PoolIsFinite ==
    ASSUME TypeOK, ArmInv PROVE IsFiniteSet(Pool)
<1>1. (\A e \in Pool : e.id \in DOMAIN Passage) /\ (\A e, f \in Pool : e.id = f.id => e = f)
  BY PoolIsOK DEF PoolOK
<1> QED BY <1>1, FiniteById, GuidanceAssumption

LEMMA MergedEnumerates ==
    ASSUME TypeOK, ArmInv
    PROVE  /\ Enumerates(Merged, Cardinality(Pool))
           /\ \A i, j \in 1 .. Cardinality(Pool) : i < j => Precedes(Merged[i], Merged[j])
<1> DEFINE R == {p \in Pool \X Pool : Precedes(p[1], p[2])}
           n == Cardinality(Pool)
<1>1. TotalOn(Pool, R) /\ IsFiniteSet(Pool)
  BY PrecedesIsTotal, PoolIsFinite
<1>2. Merged = InOrder(Pool, R)
  BY DEF Merged
<1>3. \A e, f : <<e, f>> \in R => Precedes(e, f)
  OBVIOUS
<1> HIDE DEF R
<1>4. /\ n \in Nat /\ Merged \in [1 .. n -> Pool]
      /\ \A e \in Pool : \E i \in 1 .. n : Merged[i] = e
      /\ \A i, j \in 1 .. n : i < j => <<Merged[i], Merged[j]>> \in R
  BY <1>1, <1>2, InOrderSorts
<1> HIDE DEF n
<1>5. ASSUME NEW i \in 1 .. n, NEW j \in 1 .. n, Merged[i] = Merged[j] PROVE i = j
  <2>1. Merged[i] \in Pool /\ ~(<<Merged[i], Merged[i]>> \in R)
    BY <1>1, <1>4 DEF TotalOn
  <2>2. ~(i < j) /\ ~(j < i)
    BY <1>4, <1>5, <2>1
  <2> QED BY <1>4, <2>2
<1>6. Enumerates(Merged, n)
  BY <1>4, <1>5 DEF Enumerates
<1>7. \A i, j \in 1 .. n : i < j => Precedes(Merged[i], Merged[j])
  BY <1>3, <1>4
<1> QED BY <1>6, <1>7 DEF n

\* Whatever the re-ranker does, it returns the pool.
LEMMA OrdersEnumerate ==
    ASSUME TypeOK, ArmInv, NEW s \in Orders
    PROVE  Enumerates(s, Cardinality(Pool))
<1>1. CASE ~settings.rerank
  BY <1>1, MergedEnumerates DEF Orders
<1>2. CASE settings.rerank
  <2> DEFINE n == Cardinality(Pool)
  <2>1. s \in [1 .. n -> Pool] /\ \A i, j \in 1 .. n : i # j => s[i] # s[j]
    BY <1>2 DEF Orders, SetToSeqs
  <2>2. IsFiniteSet(Pool) /\ n \in Nat
    BY PoolIsFinite, FS_CardinalityType
  <2>3. IsFiniteSet(1 .. n) /\ Cardinality(1 .. n) = n
    BY <2>2, FS_Interval
  <2>4. s \in Injection(1 .. n, Pool)
    BY <2>1 DEF Injection, IsInjective
  <2>5. s \in Surjection(1 .. n, Pool)
    BY <2>2, <2>3, <2>4, FS_Injection
  <2> QED BY <2>1, <2>2, <2>5 DEF Enumerates, Surjection
<1> QED BY <1>1, <1>2

-----------------------------------------------------------------------------
(* The invariant.                                                          *)

\* What is put before the model was gathered from what the arms hold.
GatherInv ==
    stage \in {"answering", "answered"} =>
      \E s \in Orders : evidence = WithinBudget(Candidates(s))

IInv == TypeOK /\ ArmInv /\ GatherInv

\* What was gathered is sound.
LEMMA GatheredIsSound == IInv => EvidenceSound
<1> SUFFICES ASSUME TypeOK, ArmInv, GatherInv, stage \in {"answering", "answered"}
             PROVE  EvidenceFits /\ EvidenceComplete /\ EvidenceBest /\ AgreementLifts
  BY DEF IInv, EvidenceSound
<1>1. PICK s \in Orders : evidence = WithinBudget(Candidates(s))
  BY DEF GatherInv
<1> DEFINE m == Cardinality(Pool)
<1>2. Enumerates(s, m) /\ PoolOK /\ profile \in Profile
  BY OrdersEnumerate, PoolIsOK, ProfileIs
<1> HIDE DEF m
<1>3. PICK g, n, l : Shown(s, m, g, n, l)
  BY <1>1, <1>2, EvidenceShown
<1>4. Width \in Nat
  BY <1>2, GuidanceAssumption DEF Width, Profile
<1>5. EvidenceFits
  BY <1>2, <1>3, <1>4, ShownFits
<1>6. EvidenceComplete
  BY <1>2, <1>3, ShownIsComplete
<1>7. EvidenceBest
  <2>1. CASE settings.rerank
    BY <2>1 DEF EvidenceBest
  <2>2. CASE ~settings.rerank
    <3>1. s = Merged
      BY <2>2 DEF Orders
    <3>2. \A i, j \in 1 .. m : i < j => Precedes(s[i], s[j])
      BY <3>1, MergedEnumerates DEF m
    <3> QED BY <1>2, <1>3, <3>2, ShownIsBest
  <2> QED BY <2>1, <2>2
<1> QED BY <1>5, <1>6, <1>7, AgreementHolds

\* What is shown are entries of the pool.
LEMMA ShownIsTyped ==
    ASSUME TypeOK, ArmInv, NEW s \in Orders
    PROVE  WithinBudget(Candidates(s)) \in Seq([id : DOMAIN Passage, scored : BOOLEAN, rank : Nat \ {0}])
<1> DEFINE m == Cardinality(Pool)
           c == Candidates(s)
           t == WithinBudget(c)
           E == [id : DOMAIN Passage, scored : BOOLEAN, rank : Nat \ {0}]
<1>1. Enumerates(s, m) /\ PoolOK /\ profile \in Profile
  BY OrdersEnumerate, PoolIsOK, ProfileIs
<1>2. Width \in Nat /\ profile.budget \in Nat
  BY <1>1, GuidanceAssumption DEF Width, Profile
<1> HIDE DEF m
<1>3. m \in Nat /\ DOMAIN s = 1 .. m /\ \A i \in 1 .. m : s[i] \in Pool
  BY <1>1 DEF Enumerates
<1>4. PICK n, g : Chooses(s, g, n) /\ c = [k \in 1 .. n |-> s[g[k]]]
  BY <1>2, <1>3, CandidatesChoose
<1> HIDE DEF c
<1>5. n \in Nat /\ \A k \in 1 .. n : g[k] \in 1 .. m /\ c[k] = s[g[k]] /\ c[k] \in Pool
  BY <1>3, <1>4 DEF Chooses
<1>6. c \in [1 .. n -> Pool] /\ Len(c) = n
  BY <1>4, <1>5
<1>7. Sized(c, n)
  BY <1>1, <1>5, <1>6 DEF Sized, PoolOK
<1>8. PICK l \in 0 .. n :
        /\ t = [k \in 1 .. l |-> c[k]]
        /\ Len(t) = l
        /\ SizeOf(t) <= profile.budget
        /\ l < n => SizeOf(t) + Passage[c[l + 1].id].size > profile.budget
  <2>1. t = WithinBudget(c)
    OBVIOUS
  <2> HIDE DEF t
  <2> QED BY <1>2, <1>6, <1>7, <2>1, BudgetCuts
<1>9. \A e \in Pool : e \in E
  BY <1>1 DEF PoolOK
<1> HIDE DEF E, t
<1>10. \A k \in 1 .. l : c[k] \in E
  BY <1>5, <1>9
<1>11. t \in Seq(E)
  BY <1>5, <1>8, <1>10
<1> QED BY <1>11 DEF t, c, E

\* What an arm's call returns.
LEMMA AnswersAreListings ==
    ASSUME NEW c, NEW a, NEW w, NEW s \in StoreAnswers(c, a, w)
    PROVE  Listing(s, Stock(c)) /\ s \in Seq(DOMAIN Passage)
<1>1. PICK S \in SUBSET Stock(c) : s \in SetToSeqs(S)
  BY DEF StoreAnswers, SetToAllKPermutations
<1> DEFINE n == Cardinality(S)
<1>2. n \in Nat
  BY StockIsFinite, FS_Subset, FS_CardinalityType
<1>3. s \in [1 .. n -> S] /\ \A i, j \in 1 .. n : i # j => s[i] # s[j]
  BY <1>1 DEF SetToSeqs
<1> HIDE DEF n
<1>4. s \in Seq(S) /\ Len(s) = n
  BY <1>2, <1>3
<1>5. s \in Seq(Stock(c)) /\ s \in Seq(DOMAIN Passage)
  <2>1. \A i \in 1 .. n : s[i] \in Stock(c) /\ s[i] \in DOMAIN Passage
    BY <1>3, StockIsFinite
  <2> QED BY <1>2, <1>3, <2>1
<1> QED BY <1>3, <1>4, <1>5 DEF Listing

\* The evidence follows from what the settings, the profile and the arms are.
LEMMA SameOrders ==
    ASSUME UNCHANGED <<settings, profile, arm>>
    PROVE  Orders' = Orders /\ \A s : WithinBudget(Candidates(s))' = WithinBudget(Candidates(s))
<1>1. settings' = settings /\ profile' = profile /\ arm' = arm
  OBVIOUS
<1>2. \A c : Retrieved(c)' = Retrieved(c)
  BY <1>1 DEF Retrieved, Raised, FetchWidth
<1>3. \A c : Entries(c)' = Entries(c)
  BY <1>1, <1>2 DEF Entries
<1>4. Pool' = Pool
  BY <1>3 DEF Pool
<1>5. \A e, f : Precedes(e, f)' <=> Precedes(e, f)
  BY <1>1 DEF Precedes, MergeBefore, Score
<1>6. Merged' = Merged
  BY <1>4, <1>5 DEF Merged
<1>7. Orders' = Orders
  BY <1>1, <1>4, <1>6 DEF Orders
<1>8. \A e : Relevant(e)' <=> Relevant(e)
  BY <1>1 DEF Relevant, Score
<1>9. \A s : Filtered(s)' = Filtered(s)
  BY <1>8 DEF Filtered
<1>10. \A s : Cut(s)' = Cut(s)
  BY <1>1 DEF Cut, Width
<1>11. \A s : Candidates(s)' = Candidates(s)
  BY <1>9, <1>10 DEF Candidates
<1>12. \A s : WithinBudget(s)' = WithinBudget(s)
  BY <1>1 DEF WithinBudget
<1> QED BY <1>7, <1>11, <1>12

Call == [state : {"idle", "asked"} \cup Ended, found : Seq(DOMAIN Passage)]

\* An arm's call changed, the others did not.
LEMMA ArmChanges ==
    ASSUME TypeOK, NEW c \in Collection, NEW a \in Arms, NEW r \in Call,
           arm' = [arm EXCEPT ![c][a] = r]
    PROVE  /\ arm' \in [Collection -> [Arms -> Call]]
           /\ arm'[c][a] = r
           /\ \A d \in Collection, b \in Arms : d # c \/ b # a => arm'[d][b] = arm[d][b]
<1>1. arm \in [Collection -> [Arms -> Call]]
  BY DEF TypeOK, Call
<1> HIDE DEF Call
<1>2. arm[c] \in [Arms -> Call]
  BY <1>1
<1> DEFINE row == [arm[c] EXCEPT ![a] = r]
<1>3. row \in [Arms -> Call] /\ row[a] = r /\ \A b \in Arms : b # a => row[b] = arm[c][b]
  BY <1>2
<1>4. arm' = [arm EXCEPT ![c] = row]
  OBVIOUS
<1> HIDE DEF row
<1>5. arm' \in [Collection -> [Arms -> Call]] /\ arm'[c] = row
      /\ \A d \in Collection : d # c => arm'[d] = arm[d]
  BY <1>1, <1>3, <1>4
<1> QED BY <1>3, <1>5

LEMMA EmptyListing == \A D : Listing(<<>>, D)
BY DEF Listing

LEMMA InitIInv == Init => IInv
<1> SUFFICES ASSUME Init PROVE IInv
  OBVIOUS
<1>1. IdleArm \in Call /\ IdleArm.found = <<>>
  BY DEF IdleArm, Call
<1>2. arm \in [Collection -> [Arms -> Call]] /\ \A c \in Collection, a \in Arms : arm[c][a] = IdleArm
  <2> HIDE DEF Call
  <2> QED BY <1>1 DEF Init
<1>3. TypeOK
  BY <1>2 DEF Init, TypeOK, Call
<1>4. ArmInv
  BY <1>1, <1>2, EmptyListing DEF ArmInv
<1>5. GatherInv
  BY DEF Init, GatherInv
<1> QED BY <1>3, <1>4, <1>5 DEF IInv

LEMMA NextIInv == IInv /\ [Next]_vars => IInv'
<1> SUFFICES ASSUME TypeOK, ArmInv, GatherInv, [Next]_vars PROVE IInv'
  BY DEF IInv
<1>1. ASSUME UNCHANGED <<settings, profile, arm>> PROVE ArmInv'
  BY <1>1 DEF ArmInv, Stock
<1>2. CASE Rewrite
  <2>1. TypeOK'
    BY <1>2 DEF Rewrite, TypeOK
  <2>2. GatherInv'
    BY <1>2 DEF Rewrite, GatherInv
  <2> QED BY <1>1, <1>2, <2>1, <2>2 DEF Rewrite, IInv
<1>3. CASE Route
  <2>1. /\ IdleArm \in Call /\ [IdleArm EXCEPT !.state = "asked"] \in Call
        /\ IdleArm.found = <<>> /\ [IdleArm EXCEPT !.state = "asked"].found = <<>>
    <3>1. IdleArm = [state |-> "idle", found |-> <<>>]
          /\ [IdleArm EXCEPT !.state = "asked"] = [state |-> "asked", found |-> <<>>]
      BY DEF IdleArm
    <3>2. <<>> \in Seq(DOMAIN Passage)
      OBVIOUS
    <3> QED BY <3>1, <3>2 DEF Call
  <2>2. /\ arm' \in [Collection -> [Arms -> Call]]
        /\ \A c \in Collection, a \in Arms : arm'[c][a].found = <<>>
    <3> HIDE DEF Call
    <3>1. arm' = [c \in Collection |-> [a \in Arms |->
                 IF profile'.retrieve /\ a \in ArmsAsked
                 THEN [IdleArm EXCEPT !.state = "asked"] ELSE IdleArm]]
      BY <1>3 DEF Route
    <3> DEFINE x(a) == IF profile'.retrieve /\ a \in ArmsAsked
                       THEN [IdleArm EXCEPT !.state = "asked"] ELSE IdleArm
    <3>2. \A a \in Arms : x(a) \in Call /\ x(a).found = <<>>
      BY <2>1
    <3>3. arm' = [c \in Collection |-> [a \in Arms |-> x(a)]]
      BY <3>1
    <3> HIDE DEF x
    <3> QED BY <3>2, <3>3
  <2>3. TypeOK'
    BY <1>3, <2>2 DEF Route, TypeOK, Call
  <2>4. ArmInv'
    <3>1. \A c \in Collection, a \in Arms : Listing(arm'[c][a].found, Stock(c))
      BY <2>2, EmptyListing
    <3> QED BY <3>1 DEF ArmInv, Listing, Stock
  <2>5. GatherInv'
    BY <1>3 DEF Route, GatherInv
  <2> QED BY <2>3, <2>4, <2>5 DEF IInv
<1>4. ASSUME NEW c \in Collection, NEW a \in Arms, ArmEnds(c, a) PROVE IInv'
  <2>1. arm[c][a] \in Call /\ arm[c][a].found \in Seq(DOMAIN Passage)
    BY DEF TypeOK, Call
  <2>2. PICK r \in Call : arm' = [arm EXCEPT ![c][a] = r] /\ Listing(r.found, Stock(c))
    <3>1. CASE \E s \in StoreAnswers(c, a, FetchWidth(profile)) :
                 arm' = [arm EXCEPT ![c][a] = [state |-> "found", found |-> s]]
      <4>1. PICK s \in StoreAnswers(c, a, FetchWidth(profile)) :
                 arm' = [arm EXCEPT ![c][a] = [state |-> "found", found |-> s]]
        BY <3>1
      <4>2. Listing(s, Stock(c)) /\ s \in Seq(DOMAIN Passage)
        BY AnswersAreListings
      <4> DEFINE r == [state |-> "found", found |-> s]
      <4>3. r \in Call /\ r.found = s
        BY <4>2 DEF Call, Ended
      <4> QED BY <4>1, <4>2, <4>3
    <3>2. CASE \E error \in {"storeError", "embeddingError"} :
                 arm' = [arm EXCEPT ![c][a].state = error]
      <4>1. PICK error \in {"storeError", "embeddingError"} :
                 arm' = [arm EXCEPT ![c][a].state = error]
        BY <3>2
      <4> DEFINE r == [arm[c][a] EXCEPT !.state = error]
      <4>2. r \in Call /\ r.found = arm[c][a].found
        BY <2>1 DEF Call, Ended
      <4>3. arm' = [arm EXCEPT ![c][a] = r]
        BY <4>1
      <4>4. Listing(r.found, Stock(c))
        BY <4>2 DEF ArmInv
      <4> HIDE DEF r
      <4> QED BY <4>2, <4>3, <4>4
    <3> QED BY <1>4, <3>1, <3>2 DEF ArmEnds
  <2>3. /\ arm' \in [Collection -> [Arms -> Call]]
        /\ arm'[c][a] = r
        /\ \A d \in Collection, b \in Arms : d # c \/ b # a => arm'[d][b] = arm[d][b]
    BY <2>2, ArmChanges
  <2>4. TypeOK'
    BY <1>4, <2>3 DEF ArmEnds, TypeOK, Call
  <2>5. ASSUME NEW d \in Collection, NEW b \in Arms PROVE Listing(arm'[d][b].found, Stock(d))
    <3>1. CASE d = c /\ b = a
      BY <2>2, <2>3, <3>1
    <3>2. CASE d # c \/ b # a
      BY <2>3, <3>2 DEF ArmInv
    <3> QED BY <3>1, <3>2
  <2>6. ArmInv'
    BY <2>5 DEF ArmInv, Listing, Stock
  <2>7. GatherInv'
    BY <1>4 DEF ArmEnds, GatherInv
  <2> QED BY <2>4, <2>6, <2>7 DEF IInv
<1>5. CASE Gather
  <2>1. UNCHANGED <<settings, profile, arm>>
    BY <1>5 DEF Gather
  <2>2. PICK s \in Orders : evidence' = WithinBudget(Candidates(s))
    BY <1>5 DEF Gather
  <2>3. TypeOK'
    <3>1. evidence' \in Seq([id : DOMAIN Passage, scored : BOOLEAN, rank : Nat \ {0}])
      BY <2>2, ShownIsTyped
    <3> QED BY <1>5, <3>1 DEF Gather, TypeOK
  <2>4. GatherInv'
    <3>1. Orders' = Orders /\ WithinBudget(Candidates(s))' = WithinBudget(Candidates(s))
      BY <2>1, SameOrders
    <3> QED BY <2>2, <3>1 DEF GatherInv
  <2> QED BY <1>1, <2>1, <2>3, <2>4 DEF IInv
<1>6. CASE Answer
  <2>1. UNCHANGED <<settings, profile, arm>> /\ evidence' = evidence /\ stage = "answering"
    BY <1>6 DEF Answer
  <2>2. TypeOK'
    BY <1>6 DEF Answer, TypeOK
  <2>3. GatherInv'
    <3>1. PICK s \in Orders : evidence = WithinBudget(Candidates(s))
      BY <2>1 DEF GatherInv
    <3>2. Orders' = Orders /\ WithinBudget(Candidates(s))' = WithinBudget(Candidates(s))
      BY <2>1, SameOrders
    <3> QED BY <2>1, <3>1, <3>2 DEF GatherInv
  <2> QED BY <1>1, <2>1, <2>2, <2>3 DEF IInv
<1>7. CASE UNCHANGED vars
  <2>1. UNCHANGED <<settings, profile, arm>> /\ evidence' = evidence /\ stage' = stage
    BY <1>7 DEF vars
  <2>2. TypeOK'
    BY <1>7 DEF vars, TypeOK
  <2>3. GatherInv'
    <3>1. ASSUME NEW s \in Orders, evidence = WithinBudget(Candidates(s))
          PROVE  s \in Orders' /\ evidence' = WithinBudget(Candidates(s))'
      BY <2>1, <3>1, SameOrders
    <3> QED BY <2>1, <3>1 DEF GatherInv
  <2> QED BY <1>1, <2>1, <2>2, <2>3 DEF IInv
<1> QED BY <1>2, <1>3, <1>4, <1>5, <1>6, <1>7 DEF Next, Over

LEMMA InvariantHolds == Spec => []IInv
<1> QED BY InitIInv, NextIInv, PTL DEF Spec

\* The state of a request is well typed (GuidancePlugin.handle).
THEOREM TypeCorrect == Spec => []TypeOK
<1>1. IInv => TypeOK
  BY DEF IInv
<1> QED BY <1>1, InvariantHolds, PTL

\* The answering model is shown the best of what the collections that answered
\* hold, whatever failed and in whatever order the calls came back: the pages
\* asked for as far as they exist and fit, each once (the merge, filter,
\* de-duplication, cut and budget of handle, and reciprocal_rank_fusion).
THEOREM EvidenceIsSound == Spec => []EvidenceSound
<1> QED BY InvariantHolds, GatheredIsSound, PTL

\* Whatever a rewrite, the router, a store or an embedding call does, a request
\* that fails does so because of the answering model's reply (handle, retrieve).
THEOREM FailsOnlyByTheModel == Spec => []OnlyTheModelFails
<1>1. Init => OnlyTheModelFails
  BY DEF Init, OnlyTheModelFails
<1>2. TypeOK /\ OnlyTheModelFails /\ [Next]_vars => OnlyTheModelFails'
  <2> SUFFICES ASSUME OnlyTheModelFails, [Next]_vars PROVE OnlyTheModelFails'
    OBVIOUS
  <2>1. CASE Answer
    BY <2>1 DEF Answer, OnlyTheModelFails
  <2>2. CASE Rewrite \/ Route \/ Gather
    BY <2>2 DEF Rewrite, Route, Gather, OnlyTheModelFails
  <2>3. ASSUME NEW c \in Collection, NEW a \in Arms, ArmEnds(c, a) PROVE OnlyTheModelFails'
    BY <2>3 DEF ArmEnds, OnlyTheModelFails
  <2>4. CASE UNCHANGED vars
    BY <2>4 DEF vars, OnlyTheModelFails
  <2> QED BY <2>1, <2>2, <2>3, <2>4 DEF Next, Over
<1> QED BY <1>1, <1>2, TypeCorrect, PTL DEF Spec
=============================================================================
