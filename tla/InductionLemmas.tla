---------------------------- MODULE InductionLemmas ----------------------------
(***************************************************************************)
(* Induction and recursion in the form the provers can use: over sets,      *)
(* where the library's theorems have an operator as a parameter.  Then what *)
(* the recursive functions of the models compute: sums over a finite set,    *)
(* functions on an interval that depend on the value before, and scans of a   *)
(* sequence that go on at a later place.                                     *)
(***************************************************************************)
EXTENDS Integers, Sequences, SequencesExt, SequenceTheorems, FiniteSets, FiniteSetTheorems,
        WellFoundedInduction, TLAPS

------------------------------------------------------------------------------
\* Less-than is well founded on the naturals.
LEMMA NatWellFounded == IsWellFoundedOn({p \in Nat \X Nat : p[1] < p[2]}, Nat)
  BY NatLessThanWellFounded, Zenon DEF OpToRel

\* Every set of naturals has a least element.
LEMMA LeastElement ==
    ASSUME NEW T \in SUBSET Nat, T # {}
    PROVE  \E m \in T : \A k \in T : m <= k
<1>1. PICK m \in T : \A k \in T : <<k, m>> \notin {p \in Nat \X Nat : p[1] < p[2]}
  BY NatWellFounded, WFMin, Zenon
<1>2. \A k \in T : ~(k < m)
  BY <1>1
<1> QED
  BY <1>2

\* Induction: a set with zero and the successor of each of its elements has
\* every natural.
LEMMA Induction ==
    ASSUME NEW T, 0 \in T, \A n \in Nat : n \in T => n + 1 \in T
    PROVE  \A n \in Nat : n \in T
<1> SUFFICES ASSUME NEW n \in Nat, n \notin T PROVE FALSE
  OBVIOUS
<1>1. PICK m \in {k \in Nat : k \notin T} : \A k \in {k \in Nat : k \notin T} : m <= k
  BY LeastElement
<1>2. m # 0 /\ m - 1 \in Nat /\ m - 1 \notin {k \in Nat : k \notin T}
  BY <1>1
<1> QED
  BY <1>1, <1>2

------------------------------------------------------------------------------
\* Sums over finite sets.

AnyOf(s) == CHOOSE x \in s : TRUE

\* What SumFunctionOnSet is made of.
SumsOver(f, S, g) ==
    g = [s \in SUBSET S |-> IF s = {} THEN 0 ELSE f[AnyOf(s)] + g[s \ {AnyOf(s)}]]

\* The recursion has a solution: there is one for the sets of at most n
\* elements, whatever n is.
LEMMA SumExists ==
    ASSUME NEW f, NEW S, IsFiniteSet(S)
    PROVE  \E g : SumsOver(f, S, g)
<1> DEFINE Small(n) == {s \in SUBSET S : Cardinality(s) <= n}
           Next(g, s) == IF s = {} THEN 0 ELSE f[AnyOf(s)] + g[s \ {AnyOf(s)}]
           T == {n \in Nat : \E g : \A s \in Small(n) : g[s] = Next(g, s)}
<1>0. \A s \in SUBSET S : IsFiniteSet(s) /\ Cardinality(s) \in Nat
  BY FS_Subset, FS_CardinalityType
<1>1. \A s \in SUBSET S : s # {} => AnyOf(s) \in s
  BY DEF AnyOf
<1>2. \A s \in SUBSET S : s # {} =>
         s \ {AnyOf(s)} \in SUBSET S /\ Cardinality(s \ {AnyOf(s)}) = Cardinality(s) - 1
  BY <1>0, <1>1, FS_RemoveElement
<1>3. 0 \in T
  <2> DEFINE g == [s \in SUBSET S |-> 0]
  <2>1. \A s \in Small(0) : s = {}
    BY <1>0, FS_EmptySet
  <2>2. \A s \in Small(0) : g[s] = Next(g, s)
    BY <2>1
  <2> QED
    BY <2>2
<1>4. ASSUME NEW n \in Nat, n \in T PROVE n + 1 \in T
  <2>1. PICK g : \A s \in Small(n) : g[s] = Next(g, s)
    BY <1>4
  <2> DEFINE h == [s \in SUBSET S |-> IF s \in Small(n) THEN g[s] ELSE Next(g, s)]
  <2>2. ASSUME NEW s \in Small(n + 1) PROVE h[s] = Next(h, s)
    <3>1. CASE s = {}
      BY <2>1, <3>1
    <3>2. CASE s # {}
      <4>1. s \ {AnyOf(s)} \in Small(n)
        BY <1>0, <1>2, <2>2, <3>2
      <4>2. h[s \ {AnyOf(s)}] = g[s \ {AnyOf(s)}]
        BY <4>1
      <4>3. h[s] = Next(g, s)
        BY <2>1, <2>2
      <4> QED
        BY <3>2, <4>2, <4>3
    <3> QED
      BY <3>1, <3>2
  <2> HIDE DEF h
  <2>3. \E k : \A s \in Small(n + 1) : k[s] = Next(k, s)
    BY <2>2
  <2>4. n + 1 \in Nat
    OBVIOUS
  <2> QED
    BY <2>3, <2>4, Zenon
<1>5. Cardinality(S) \in T
  <2> HIDE DEF T
  <2>1. \A n \in Nat : n \in T
    BY <1>3, <1>4, Induction
  <2> QED
    BY <1>0, <2>1
<1>6. PICK g : \A s \in Small(Cardinality(S)) : g[s] = Next(g, s)
  BY <1>5
<1>7. \A s \in SUBSET S : s \in Small(Cardinality(S))
  BY <1>0, FS_Subset
<1> DEFINE h == [s \in SUBSET S |-> g[s]]
<1>8. \A s \in SUBSET S : h[s] = Next(h, s)
  BY <1>1, <1>2, <1>6, <1>7
<1>9. h = [s \in SUBSET S |-> Next(h, s)]
  BY <1>8
<1> QED
  BY <1>9 DEF SumsOver

\* SumFunctionOnSet is a value of that solution.
LEMMA SumIsSolution ==
    ASSUME NEW f, NEW S, IsFiniteSet(S)
    PROVE  \E g : SumsOver(f, S, g) /\ SumFunctionOnSet(f, S) = g[S]
<1> DEFINE g == CHOOSE g : SumsOver(f, S, g)
<1>1. SumsOver(f, S, g)
  BY SumExists
<1>2. SumFunctionOnSet(f, S) = g[S]
  BY DEF SumFunctionOnSet, FoldFunctionOnSet, MapThenFoldSet, SumsOver, AnyOf
<1> QED
  BY <1>1, <1>2

\* A sum of integers is an integer, and so is each sum it is made of.
LEMMA SumsInt ==
    ASSUME NEW S, IsFiniteSet(S), NEW f, \A x \in S : f[x] \in Int,
           NEW g, SumsOver(f, S, g)
    PROVE  \A s \in SUBSET S : g[s] \in Int
<1> DEFINE T == {n \in Nat : \A s \in SUBSET S : Cardinality(s) = n => g[s] \in Int}
<1>1. \A s \in SUBSET S :
         /\ IsFiniteSet(s) /\ Cardinality(s) \in Nat
         /\ s = {} <=> Cardinality(s) = 0
         /\ s # {} => /\ AnyOf(s) \in s /\ s \ {AnyOf(s)} \in SUBSET S
                      /\ Cardinality(s \ {AnyOf(s)}) = Cardinality(s) - 1
  BY FS_Subset, FS_CardinalityType, FS_EmptySet, FS_RemoveElement DEF AnyOf
<1>2. \A s \in SUBSET S : g[s] = IF s = {} THEN 0 ELSE f[AnyOf(s)] + g[s \ {AnyOf(s)}]
  BY DEF SumsOver
<1>3. 0 \in T
  <2>1. g[{}] = 0
    BY <1>2
  <2>2. ASSUME NEW s \in SUBSET S, Cardinality(s) = 0 PROVE g[s] \in Int
    <3>1. s = {}
      BY <1>1, <2>2
    <3> QED
      BY <2>1, <3>1
  <2> QED
    BY <2>2
<1>4. ASSUME NEW n \in Nat, n \in T PROVE n + 1 \in T
  <2> SUFFICES ASSUME NEW s \in SUBSET S, Cardinality(s) = n + 1 PROVE g[s] \in Int
    OBVIOUS
  <2>1. s # {} /\ AnyOf(s) \in S /\ Cardinality(s \ {AnyOf(s)}) = n /\ s \ {AnyOf(s)} \in SUBSET S
    BY <1>1
  <2>2. g[s \ {AnyOf(s)}] \in Int /\ f[AnyOf(s)] \in Int
    BY <1>4, <2>1
  <2>3. g[s] = f[AnyOf(s)] + g[s \ {AnyOf(s)}]
    BY <1>2, <2>1
  <2> QED
    BY <2>2, <2>3
<1> HIDE DEF T
<1>5. \A n \in Nat : n \in T
  BY <1>3, <1>4, Induction
<1> QED
  BY <1>1, <1>5 DEF T

\* Two sums that are made the same way are the same.
LEMMA SumsUnique ==
    ASSUME NEW S, IsFiniteSet(S), NEW f, NEW g, SumsOver(f, S, g),
           NEW R \in SUBSET S, NEW h, SumsOver(f, R, h)
    PROVE  g[R] = h[R]
<1> DEFINE T == {n \in Nat : \A s \in SUBSET R : Cardinality(s) = n => g[s] = h[s]}
<1>1. \A s \in SUBSET R :
         /\ IsFiniteSet(s) /\ Cardinality(s) \in Nat /\ s \in SUBSET S
         /\ s = {} <=> Cardinality(s) = 0
         /\ s # {} => /\ s \ {AnyOf(s)} \in SUBSET R
                      /\ Cardinality(s \ {AnyOf(s)}) = Cardinality(s) - 1
  BY FS_Subset, FS_CardinalityType, FS_EmptySet, FS_RemoveElement DEF AnyOf
<1>2. \A s \in SUBSET R : g[s] = IF s = {} THEN 0 ELSE f[AnyOf(s)] + g[s \ {AnyOf(s)}]
  BY DEF SumsOver
<1>3. \A s \in SUBSET R : h[s] = IF s = {} THEN 0 ELSE f[AnyOf(s)] + h[s \ {AnyOf(s)}]
  BY DEF SumsOver
<1>4. 0 \in T
  BY <1>1, <1>2, <1>3
<1>5. ASSUME NEW n \in Nat, n \in T PROVE n + 1 \in T
  <2> SUFFICES ASSUME NEW s \in SUBSET R, Cardinality(s) = n + 1 PROVE g[s] = h[s]
    OBVIOUS
  <2>1. s # {} /\ Cardinality(s \ {AnyOf(s)}) = n /\ s \ {AnyOf(s)} \in SUBSET R
    BY <1>1
  <2>2. g[s \ {AnyOf(s)}] = h[s \ {AnyOf(s)}]
    BY <1>5, <2>1
  <2> QED
    BY <1>2, <1>3, <2>1, <2>2
<1> HIDE DEF T
<1>6. \A n \in Nat : n \in T
  BY <1>4, <1>5, Induction
<1> QED
  BY <1>1, <1>6 DEF T

\* Whichever element is taken out first, the sum is the same.
LEMMA SumsAnyOrder ==
    ASSUME NEW S, IsFiniteSet(S), NEW f, \A x \in S : f[x] \in Int,
           NEW g, SumsOver(f, S, g)
    PROVE  \A s \in SUBSET S : \A x \in s : g[s] = f[x] + g[s \ {x}]
<1> DEFINE T == {n \in Nat : \A s \in SUBSET S : Cardinality(s) = n =>
                                \A x \in s : g[s] = f[x] + g[s \ {x}]}
<1>1. \A s \in SUBSET S :
         /\ IsFiniteSet(s) /\ Cardinality(s) \in Nat
         /\ s = {} <=> Cardinality(s) = 0
         /\ s # {} => AnyOf(s) \in s
         /\ \A x \in s : s \ {x} \in SUBSET S /\ Cardinality(s \ {x}) = Cardinality(s) - 1
  BY FS_Subset, FS_CardinalityType, FS_EmptySet, FS_RemoveElement DEF AnyOf
<1>2. \A s \in SUBSET S : g[s] = IF s = {} THEN 0 ELSE f[AnyOf(s)] + g[s \ {AnyOf(s)}]
  BY DEF SumsOver
<1>3. \A s \in SUBSET S : g[s] \in Int
  BY SumsInt
<1>4. 0 \in T
  BY <1>1
<1>5. ASSUME NEW n \in Nat, n \in T PROVE n + 1 \in T
  <2> SUFFICES ASSUME NEW s \in SUBSET S, Cardinality(s) = n + 1, NEW x \in s
               PROVE  g[s] = f[x] + g[s \ {x}]
    OBVIOUS
  <2> DEFINE a == AnyOf(s)
  <2>1. a \in s /\ g[s] = f[a] + g[s \ {a}]
    BY <1>1, <1>2
  <2>2. CASE x = a
    BY <2>1, <2>2
  <2>3. CASE x # a
    <3> HIDE DEF a
    <3>1. /\ s \ {a} \in SUBSET S /\ Cardinality(s \ {a}) = n /\ x \in s \ {a}
          /\ s \ {x} \in SUBSET S /\ Cardinality(s \ {x}) = n /\ a \in s \ {x}
      BY <1>1, <2>1, <2>3
    <3>2. g[s \ {a}] = f[x] + g[(s \ {a}) \ {x}] /\ g[s \ {x}] = f[a] + g[(s \ {x}) \ {a}]
      BY <1>5, <3>1
    <3>3. (s \ {a}) \ {x} = (s \ {x}) \ {a} /\ (s \ {x}) \ {a} \in SUBSET S
      OBVIOUS
    <3>4. f[a] \in Int /\ f[x] \in Int /\ g[(s \ {x}) \ {a}] \in Int
      BY <1>3, <2>1, <3>3
    <3>5. g[s] = f[a] + (f[x] + g[(s \ {x}) \ {a}])
      BY <2>1, <3>2, <3>3
    <3> QED
      BY <3>2, <3>4, <3>5
  <2> QED
    BY <2>2, <2>3
<1> HIDE DEF T
<1>6. \A n \in Nat : n \in T
  BY <1>4, <1>5, Induction
<1> QED
  BY <1>1, <1>6 DEF T

\* The sum over no element.
LEMMA SumEmpty ==
    ASSUME NEW f
    PROVE  SumFunctionOnSet(f, {}) = 0
<1>1. IsFiniteSet({})
  BY FS_EmptySet
<1>2. PICK g : SumsOver(f, {}, g) /\ SumFunctionOnSet(f, {}) = g[{}]
  BY <1>1, SumIsSolution
<1> QED
  BY <1>2 DEF SumsOver

\* A sum of integers is an integer.
LEMMA SumInt ==
    ASSUME NEW S, IsFiniteSet(S), NEW f, \A x \in S : f[x] \in Int
    PROVE  SumFunctionOnSet(f, S) \in Int
<1>1. PICK g : SumsOver(f, S, g) /\ SumFunctionOnSet(f, S) = g[S]
  BY SumIsSolution
<1>2. \A s \in SUBSET S : g[s] \in Int
  BY <1>1, SumsInt
<1> QED
  BY <1>1, <1>2

\* One more element adds its value, whatever it is and whatever came before.
LEMMA SumAdd ==
    ASSUME NEW S, IsFiniteSet(S), NEW f, \A y \in S : f[y] \in Int,
           NEW x, x \notin S, f[x] \in Int
    PROVE  SumFunctionOnSet(f, S \cup {x}) = SumFunctionOnSet(f, S) + f[x]
<1> DEFINE R == S \cup {x}
<1>1. IsFiniteSet(R) /\ \A y \in R : f[y] \in Int
  BY FS_AddElement
<1>2. PICK g : SumsOver(f, R, g) /\ SumFunctionOnSet(f, R) = g[R]
  BY <1>1, SumIsSolution
<1>3. PICK h : SumsOver(f, S, h) /\ SumFunctionOnSet(f, S) = h[S]
  BY SumIsSolution
<1>4. R \ {x} = S /\ S \in SUBSET R /\ x \in R /\ R \in SUBSET R
  OBVIOUS
<1> HIDE DEF R
<1>5. g[R] = f[x] + g[S]
  <2>1. \A s \in SUBSET R : g[s] \in Int
    BY <1>1, <1>2, SumsInt
  <2>2. f[x] \in Int /\ g[R \ {x}] \in Int
    BY <1>1, <1>4, <2>1
  <2>3. g[R] = f[x] + g[R \ {x}]
    BY <1>1, <1>2, <1>4, <2>1, <2>2, SumsAnyOrder
  <2> QED
    BY <1>4, <2>3
<1>6. g[S] = h[S]
  BY <1>1, <1>2, <1>3, <1>4, SumsUnique
<1>7. h[S] \in Int
  BY <1>3, SumInt
<1> QED
  BY <1>2, <1>3, <1>5, <1>6, <1>7 DEF R

------------------------------------------------------------------------------
\* Recursion on an interval.

\* Induction from one end of an interval to the other.
LEMMA IntervalInduction ==
    ASSUME NEW lo \in Int, NEW hi \in Int, NEW T,
           lo <= hi => lo \in T, \A i \in lo .. hi - 1 : i \in T => i + 1 \in T
    PROVE  \A i \in lo .. hi : i \in T
<1> DEFINE U == {n \in Nat : lo + n <= hi => lo + n \in T}
<1>1. 0 \in U
  OBVIOUS
<1>2. ASSUME NEW n \in Nat, n \in U PROVE n + 1 \in U
  <2> SUFFICES ASSUME lo + (n + 1) <= hi PROVE lo + (n + 1) \in T
    OBVIOUS
  <2>1. lo + n \in T /\ lo + n \in lo .. hi - 1 /\ lo + (n + 1) = (lo + n) + 1
    BY <1>2
  <2> QED
    BY <2>1
<1> HIDE DEF U
<1>3. \A n \in Nat : n \in U
  BY <1>1, <1>2, Induction
<1> SUFFICES ASSUME NEW i \in lo .. hi PROVE i \in T
  OBVIOUS
<1>4. i - lo \in U /\ lo + (i - lo) = i /\ i - lo \in Nat
  BY <1>3
<1> QED
  BY <1>4 DEF U

\* And back.
LEMMA DownwardInduction ==
    ASSUME NEW lo \in Int, NEW hi \in Int, NEW T,
           \A i \in lo .. hi : (\A j \in lo .. hi : i < j => j \in T) => i \in T
    PROVE  \A i \in lo .. hi : i \in T
<1> DEFINE U == {n \in Nat : \A i \in lo .. hi : hi - i <= n => i \in T}
<1>1. 0 \in U
  OBVIOUS
<1>2. ASSUME NEW n \in Nat, n \in U PROVE n + 1 \in U
  <2> SUFFICES ASSUME NEW i \in lo .. hi, hi - i <= n + 1 PROVE i \in T
    OBVIOUS
  <2>1. \A j \in lo .. hi : i < j => j \in T
    BY <1>2
  <2> QED
    BY <2>1
<1> HIDE DEF U
<1>3. \A n \in Nat : n \in U
  BY <1>1, <1>2, Induction
<1> SUFFICES ASSUME NEW i \in lo .. hi PROVE i \in T
  OBVIOUS
<1>4. hi - i \in U
  BY <1>3
<1> QED
  BY <1>4 DEF U

\* A function on an interval that starts with a value and makes each next one
\* of the one before.
Run(s, lo, hi, base, G) ==
    s = [i \in lo .. hi |-> IF i = lo THEN base ELSE G[i][s[i - 1]]]

LEMMA RunExists ==
    ASSUME NEW lo \in Int, NEW hi \in Int, lo <= hi,
           NEW V, NEW base \in V, NEW G, \A v \in V, i \in lo + 1 .. hi : G[i][v] \in V
    PROVE  \E s \in [lo .. hi -> V] : Run(s, lo, hi, base, G)
<1> DEFINE T == {k \in lo .. hi : \E s \in [lo .. k -> V] : Run(s, lo, k, base, G)}
<1>1. lo \in T
  <2> DEFINE s == [i \in lo .. lo |-> base]
  <2>1. s \in [lo .. lo -> V] /\ Run(s, lo, lo, base, G)
    BY DEF Run
  <2> QED
    BY <2>1
<1>2. ASSUME NEW k \in lo .. hi - 1, k \in T PROVE k + 1 \in T
  <2>1. PICK s \in [lo .. k -> V] : Run(s, lo, k, base, G)
    BY <1>2
  <2> DEFINE r == [i \in lo .. k + 1 |-> IF i = k + 1 THEN G[k + 1][s[k]] ELSE s[i]]
  <2>2. \A i \in lo .. k : s[i] = IF i = lo THEN base ELSE G[i][s[i - 1]]
    BY <2>1 DEF Run
  <2>3. G[k + 1][s[k]] \in V
    BY <2>1
  <2>4. r \in [lo .. k + 1 -> V]
    BY <2>3
  <2>5. ASSUME NEW i \in lo .. k + 1 PROVE r[i] = IF i = lo THEN base ELSE G[i][r[i - 1]]
    <3>1. CASE i = k + 1
      <4>1. r[i] = G[k + 1][s[k]] /\ r[i - 1] = s[k] /\ i # lo
        BY <3>1
      <4> QED
        BY <3>1, <4>1
    <3>2. CASE i # k + 1
      <4>1. r[i] = s[i] /\ i \in lo .. k /\ (i # lo => r[i - 1] = s[i - 1])
        BY <3>2
      <4> QED
        BY <2>2, <4>1
    <3> QED
      BY <3>1, <3>2
  <2> HIDE DEF r
  <2>6. r = [i \in lo .. k + 1 |-> IF i = lo THEN base ELSE G[i][r[i - 1]]]
    BY <2>4, <2>5
  <2>7. k + 1 \in lo .. hi
    OBVIOUS
  <2> QED
    BY <2>4, <2>6, <2>7 DEF Run
<1> HIDE DEF T
<1>3. \A k \in lo .. hi : k \in T
  BY <1>1, <1>2, IntervalInduction
<1>4. hi \in T
  BY <1>3
<1> QED
  BY <1>4 DEF T

\* Every such function, whichever is chosen, has values in V.
LEMMA RunValues ==
    ASSUME NEW lo \in Int, NEW hi \in Int,
           NEW V, NEW base \in V, NEW G, \A v \in V, i \in lo + 1 .. hi : G[i][v] \in V,
           NEW s, Run(s, lo, hi, base, G)
    PROVE  /\ \A i \in lo .. hi : s[i] \in V /\ s[i] = IF i = lo THEN base ELSE G[i][s[i - 1]]
           /\ DOMAIN s = lo .. hi
<1> DEFINE T == {i \in lo .. hi : s[i] \in V}
<1>1. DOMAIN s = lo .. hi /\ \A i \in lo .. hi : s[i] = IF i = lo THEN base ELSE G[i][s[i - 1]]
  BY DEF Run
<1>2. lo <= hi => lo \in T
  BY <1>1
<1>3. ASSUME NEW i \in lo .. hi - 1, i \in T PROVE i + 1 \in T
  <2>1. s[i + 1] = G[i + 1][s[i]] /\ G[i + 1][s[i]] \in V
    BY <1>1, <1>3
  <2> QED
    BY <2>1
<1> HIDE DEF T
<1>4. \A i \in lo .. hi : i \in T
  BY <1>2, <1>3, IntervalInduction
<1> QED
  BY <1>1, <1>4 DEF T

------------------------------------------------------------------------------
\* Scans: at a place that does not stop it a scan takes something, perhaps
\* nothing, and goes on at a later place.
Scan(s, lo, hi, Stop, head, nxt) ==
    s = [p \in lo .. hi |-> IF p \in Stop THEN <<>> ELSE head[p] \o s[nxt[p]]]

LEMMA ScanExists ==
    ASSUME NEW lo \in Int, NEW hi \in Int, lo <= hi, NEW Stop, NEW head, NEW nxt,
           \A p \in (lo .. hi) \ Stop : nxt[p] \in p + 1 .. hi
    PROVE  \E s : Scan(s, lo, hi, Stop, head, nxt)
<1> DEFINE Next(s, p) == IF p \in Stop THEN <<>> ELSE head[p] \o s[nxt[p]]
           From(k) == \E s : \A p \in k .. hi : s[p] = Next(s, p)
           T == {n \in Nat : hi - n >= lo => From(hi - n)}
<1>1. 0 \in T
  <2> SUFFICES From(hi)
    OBVIOUS
  <2>1. hi \in Stop
    BY DEF Next
  <2> DEFINE s == [p \in hi .. hi |-> <<>>]
  <2>2. \A p \in hi .. hi : s[p] = Next(s, p)
    BY <2>1
  <2> HIDE DEF s, Next
  <2> QED
    BY <2>2
<1>2. ASSUME NEW n \in Nat, n \in T PROVE n + 1 \in T
  <2> DEFINE k == hi - (n + 1)
  <2> SUFFICES ASSUME k >= lo PROVE From(k)
    OBVIOUS
  <2>1. From(k + 1) /\ k \in Int /\ k \in lo .. hi
    BY <1>2
  <2> HIDE DEF k
  <2>2. PICK s : \A p \in k + 1 .. hi : s[p] = Next(s, p)
    BY <2>1
  <2> DEFINE r == [p \in k .. hi |-> IF p = k THEN Next(s, k) ELSE s[p]]
  <2>3. ASSUME NEW p \in k .. hi, p \notin Stop PROVE nxt[p] \in k + 1 .. hi
    BY <2>1, <2>3
  <2>4. ASSUME NEW p \in k .. hi, p \notin Stop PROVE r[nxt[p]] = s[nxt[p]]
    BY <2>1, <2>3, <2>4
  <2>5. ASSUME NEW p \in k .. hi PROVE r[p] = Next(s, p)
    <3>1. CASE p = k
      BY <3>1
    <3>2. CASE p # k
      <4>1. p \in k + 1 .. hi
        BY <2>1, <3>2
      <4> QED
        BY <2>2, <3>2, <4>1
    <3> QED
      BY <3>1, <3>2
  <2> HIDE DEF r
  <2>6. ASSUME NEW p \in k .. hi PROVE r[p] = Next(r, p)
    BY <2>4, <2>5
  <2> HIDE DEF Next
  <2> QED
    BY <2>6
<1> HIDE DEF T
<1>3. \A n \in Nat : n \in T
  BY <1>1, <1>2, Induction
<1>4. From(lo)
  <2>1. hi - lo \in T /\ hi - (hi - lo) = lo
    BY <1>3
  <2> HIDE DEF From
  <2> QED
    BY <2>1 DEF T
<1>5. PICK s : \A p \in lo .. hi : s[p] = Next(s, p)
  BY <1>4
<1> DEFINE r == [p \in lo .. hi |-> s[p]]
<1>6. \A p \in lo .. hi : r[p] = Next(r, p)
  <2> SUFFICES ASSUME NEW p \in lo .. hi PROVE r[p] = Next(r, p)
    OBVIOUS
  <2>1. p \notin Stop => r[nxt[p]] = s[nxt[p]]
    OBVIOUS
  <2> QED
    BY <1>5, <2>1
<1>7. r = [p \in lo .. hi |-> Next(r, p)]
  BY <1>6
<1> QED
  BY <1>7 DEF Scan

\* What a scan is from each place, and that it is a sequence.
ScanTakes(lo, hi, Stop, head, nxt, V) ==
    \A p \in (lo .. hi) \ Stop : nxt[p] \in p + 1 .. hi /\ head[p] \in Seq(V)

ScanFrom(s, lo, hi, Stop, head, nxt, V) ==
    \A p \in lo .. hi : /\ s[p] \in Seq(V)
                        /\ s[p] = IF p \in Stop THEN <<>> ELSE head[p] \o s[nxt[p]]

LEMMA ScanValues ==
    ASSUME NEW lo \in Int, NEW hi \in Int, NEW Stop, NEW V, NEW head, NEW nxt,
           ScanTakes(lo, hi, Stop, head, nxt, V), NEW s, Scan(s, lo, hi, Stop, head, nxt)
    PROVE  ScanFrom(s, lo, hi, Stop, head, nxt, V)
<1>0. \A p \in (lo .. hi) \ Stop : nxt[p] \in p + 1 .. hi /\ head[p] \in Seq(V)
  BY Zenon DEF ScanTakes
<1> DEFINE T == {p \in lo .. hi : s[p] \in Seq(V)}
<1>1. \A p \in lo .. hi : s[p] = IF p \in Stop THEN <<>> ELSE head[p] \o s[nxt[p]]
  BY DEF Scan
<1>2. ASSUME NEW p \in lo .. hi, \A q \in lo .. hi : p < q => q \in T PROVE p \in T
  <2>1. CASE p \in Stop
    <3>1. s[p] = <<>> /\ <<>> \in Seq(V)
      BY <1>1, <2>1
    <3> QED
      BY <3>1
  <2>2. CASE p \notin Stop
    <3>1. nxt[p] \in lo .. hi /\ p < nxt[p]
      BY <1>0, <2>2
    <3>2. s[nxt[p]] \in Seq(V) /\ head[p] \in Seq(V)
      BY <1>0, <1>2, <2>2, <3>1
    <3>3. head[p] \o s[nxt[p]] \in Seq(V)
      BY <3>2
    <3> QED
      BY <1>1, <2>2, <3>3
  <2> QED
    BY <2>1, <2>2
<1> HIDE DEF T
<1>3. \A p \in lo .. hi : p \in T
  BY <1>2, DownwardInduction
<1>4. \A p \in lo .. hi : /\ s[p] \in Seq(V)
                          /\ s[p] = IF p \in Stop THEN <<>> ELSE head[p] \o s[nxt[p]]
  BY <1>1, <1>3 DEF T
<1> QED
  BY <1>4, Zenon DEF ScanFrom

\* Two functions that start alike and go on alike are alike.
LEMMA RunsAgree ==
    ASSUME NEW lo \in Int, NEW hi \in Int, NEW a, NEW b, a[lo] = b[lo],
           \A i \in lo + 1 .. hi : a[i - 1] = b[i - 1] => a[i] = b[i]
    PROVE  \A i \in lo .. hi : a[i] = b[i]
<1> DEFINE T == {i \in lo .. hi : a[i] = b[i]}
<1>1. lo <= hi => lo \in T
  OBVIOUS
<1>2. ASSUME NEW i \in lo .. hi - 1, i \in T PROVE i + 1 \in T
  <2>1. i + 1 \in lo + 1 .. hi /\ (i + 1) - 1 = i /\ a[i] = b[i]
    BY <1>2
  <2> QED
    BY <2>1
<1> HIDE DEF T
<1>3. \A i \in lo .. hi : i \in T
  BY <1>1, <1>2, IntervalInduction
<1> QED
  BY <1>3 DEF T

LEMMA RunsAgreeFromZero ==
    ASSUME NEW n \in Nat, NEW a, NEW b, a[0] = b[0],
           \A i \in 0 + 1 .. n : a[i - 1] = b[i - 1] => a[i] = b[i]
    PROVE  \A i \in 0 .. n : a[i] = b[i]
<1>1. 0 \in Int /\ n \in Int
  OBVIOUS
<1> QED
  BY <1>1, RunsAgree

------------------------------------------------------------------------------
\* Concatenation under a name of its own, which the provers leave closed.
Cat(s, t) == s \o t

LEMMA CatFacts ==
    /\ \A S : \A s, t \in Seq(S) : Cat(s, t) \in Seq(S) /\ Len(Cat(s, t)) = Len(s) + Len(t)
    /\ \A S : \A s \in Seq(S) : Cat(<<>>, s) = s /\ Cat(s, <<>>) = s
    /\ \A S : \A s, t, u \in Seq(S) : Cat(Cat(s, t), u) = Cat(s, Cat(t, u))
  BY ConcatProperties, ConcatEmptySeq, ConcatAssociative DEF Cat

\* Two sequences with the same elements are the same.
LEMMA SameElements ==
    ASSUME NEW S, NEW s \in Seq(S), NEW t \in Seq(S), Len(s) = Len(t),
           \A i \in 1 .. Len(s) : s[i] = t[i]
    PROVE  s = t
  BY SeqEqual

\* One element and the rest.
IsCons(c, e, t, S) ==
    c \in Seq(S) /\ Len(c) = Len(t) + 1 /\ c[1] = e /\ \A i \in 1 .. Len(t) : c[i + 1] = t[i]

LEMMA ConsIs ==
    ASSUME NEW S, NEW e \in S, NEW t \in Seq(S)
    PROVE  IsCons(Cat(<<e>>, t), e, t, S)
<1>1. PICK h : h = <<e>> /\ h \in Seq(S) /\ Len(h) = 1 /\ h[1] = e
  <2>1. <<e>> \in Seq(S) /\ Len(<<e>>) = 1 /\ <<e>>[1] = e
    OBVIOUS
  <2> QED
    BY <2>1, Zenon
<1>2. PICK c : c = Cat(h, t)
  OBVIOUS
<1>3. /\ c \in Seq(S) /\ Len(c) = 1 + Len(t)
      /\ \A i \in 1 .. 1 + Len(t) : c[i] = IF i <= 1 THEN h[i] ELSE t[i - 1]
  BY <1>1, <1>2, ConcatProperties DEF Cat
<1>4. PICK n \in Nat : n = Len(t)
  OBVIOUS
<1>5. c[1] = e
  BY ONLY <1>1, <1>3, <1>4, n \in Nat
<1>6. ASSUME NEW i \in 1 .. n PROVE c[i + 1] = t[i]
  <2>1. i + 1 \in 1 .. 1 + n /\ ~(i + 1 <= 1) /\ (i + 1) - 1 = i
    OBVIOUS
  <2> QED
    BY ONLY <1>3, <1>4, <2>1
<1> QED
  BY <1>1, <1>2, <1>3, <1>4, <1>5, <1>6 DEF IsCons

\* Prefixes, one element at a time.
LEMMA PrefixGrows ==
    ASSUME NEW S, NEW e \in S, NEW s \in Seq(S), NEW t \in Seq(S)
    PROVE  /\ IsPrefix(<<>>, s)
           /\ IsPrefix(t, s) => IsPrefix(Cat(<<e>>, t), Cat(<<e>>, s))
<1>1. IsPrefix(<<>>, s)
  BY DEF IsPrefix
<1>2. ASSUME IsPrefix(t, s) PROVE IsPrefix(Cat(<<e>>, t), Cat(<<e>>, s))
  <2>1. PICK a \in Nat, b \in Nat : a = Len(t) /\ b = Len(s)
    OBVIOUS
  <2>2. a <= b /\ \A i \in 1 .. a : t[i] = s[i]
    <3>1. a <= b /\ SubSeq(t, 1, a) = SubSeq(s, 1, a)
      BY <1>2, <2>1 DEF IsPrefix
    <3>2. \A i \in 1 .. a : SubSeq(t, 1, a)[i] = t[i] /\ SubSeq(s, 1, a)[i] = s[i]
      BY <2>1, <3>1
    <3> QED
      BY <3>1, <3>2
  <2>3. PICK x \in Seq(S) : /\ x = Cat(<<e>>, t) /\ Len(x) = a + 1 /\ x[1] = e
                            /\ \A i \in 1 .. a : x[i + 1] = t[i]
    BY <2>1, ConsIs DEF IsCons
  <2>4. PICK y \in Seq(S) : /\ y = Cat(<<e>>, s) /\ Len(y) = b + 1 /\ y[1] = e
                            /\ \A i \in 1 .. b : y[i + 1] = s[i]
    BY <2>1, ConsIs, SMTT(30) DEF IsCons
  <2>5. \A i \in 1 .. a + 1 : x[i] = y[i]
    <3> SUFFICES ASSUME NEW i \in 1 .. a + 1 PROVE x[i] = y[i]
      OBVIOUS
    <3>1. CASE i = 1
      BY <2>3, <2>4, <3>1
    <3>2. CASE i # 1
      <4>1. i - 1 \in 1 .. a /\ i - 1 \in 1 .. b /\ (i - 1) + 1 = i
        BY <2>2, <3>2
      <4> QED
        BY <2>2, <2>3, <2>4, <4>1
    <3> QED
      BY <3>1, <3>2
  <2>6. SubSeq(x, 1, a + 1) = SubSeq(y, 1, a + 1) /\ a + 1 <= b + 1
    <3>1. (\A i \in 1 .. a + 1 : x[i] \in S) /\ (\A i \in 1 .. a + 1 : y[i] \in S) /\ a + 1 \in Int
      BY <2>2, <2>3, <2>4, ElementOfSeq
    <3>2. PICK u \in Seq(S) : /\ u = SubSeq(x, 1, a + 1) /\ Len(u) = a + 1
                              /\ \A i \in 1 .. a + 1 : u[i] = x[i]
      <4>1. /\ SubSeq(x, 1, a + 1) \in Seq(S) /\ Len(SubSeq(x, 1, a + 1)) = a + 1
            /\ \A i \in 1 .. a + 1 : SubSeq(x, 1, a + 1)[i] = x[i]
        BY ONLY a \in Nat, <3>1, SubSeqProperties
      <4> QED
        BY <4>1, Zenon
    <3>3. PICK w \in Seq(S) : /\ w = SubSeq(y, 1, a + 1) /\ Len(w) = a + 1
                              /\ \A i \in 1 .. a + 1 : w[i] = y[i]
      <4>1. /\ SubSeq(y, 1, a + 1) \in Seq(S) /\ Len(SubSeq(y, 1, a + 1)) = a + 1
            /\ \A i \in 1 .. a + 1 : SubSeq(y, 1, a + 1)[i] = y[i]
        BY ONLY a \in Nat, <3>1, SubSeqProperties
      <4> QED
        BY <4>1, Zenon
    <3>4. u = w
      BY ONLY u \in Seq(S), w \in Seq(S), <3>2, <3>3, <2>5, SameElements
    <3> QED
      BY <2>2, <3>2, <3>3, <3>4
  <2> QED
    BY <2>3, <2>4, <2>6 DEF IsPrefix
<1> QED
  BY <1>1, <1>2

\* The rest of a sequence, one element earlier.
LEMMA RestGrows ==
    ASSUME NEW S, NEW s \in Seq(S), NEW n \in Nat, n = Len(s), NEW i \in 0 .. n - 1
    PROVE  SubSeq(s, i + 1, n) = Cat(<<s[i + 1]>>, SubSeq(s, i + 2, n))
<1>1. \A j \in 1 .. n : s[j] \in S
  BY ElementOfSeq
<1>2. PICK a \in Seq(S) : /\ a = SubSeq(s, i + 1, n) /\ Len(a) = n - i
                          /\ \A j \in 1 .. n - i : a[j] = s[i + j]
  <2>1. (\A j \in i + 1 .. n : s[j] \in S) /\ i + 1 \in Int /\ n \in Int
    BY <1>1
  <2>2. /\ SubSeq(s, i + 1, n) \in Seq(S)
        /\ Len(SubSeq(s, i + 1, n)) = IF i + 1 <= n THEN n - (i + 1) + 1 ELSE 0
        /\ \A j \in 1 .. n - (i + 1) + 1 : SubSeq(s, i + 1, n)[j] = s[i + 1 + j - 1]
    BY ONLY <2>1, SubSeqProperties
  <2>3. i + 1 <= n /\ n - (i + 1) + 1 = n - i /\ \A j \in 1 .. n - i : i + 1 + j - 1 = i + j
    OBVIOUS
  <2>4. Len(SubSeq(s, i + 1, n)) = n - i /\ \A j \in 1 .. n - i : SubSeq(s, i + 1, n)[j] = s[i + j]
    <3>1. Len(SubSeq(s, i + 1, n)) = n - i
      BY ONLY <2>2, <2>3
    <3>2. ASSUME NEW j \in 1 .. n - i PROVE SubSeq(s, i + 1, n)[j] = s[i + j]
      <4>1. SubSeq(s, i + 1, n)[j] = s[i + 1 + j - 1] /\ i + 1 + j - 1 = i + j
        BY ONLY <2>2, <2>3, j \in 1 .. n - i
      <4> QED
        BY <4>1, Zenon
    <3> QED
      BY <3>1, <3>2
  <2> QED
    BY <2>2, <2>4, Zenon
<1>3. PICK b \in Seq(S) : /\ b = SubSeq(s, i + 2, n) /\ Len(b) = n - i - 1
                          /\ \A j \in 1 .. n - i - 1 : b[j] = s[i + 1 + j]
  <2>1. (\A j \in i + 2 .. n : s[j] \in S) /\ i + 2 \in Int /\ n \in Int
    BY <1>1
  <2>2. /\ SubSeq(s, i + 2, n) \in Seq(S)
        /\ Len(SubSeq(s, i + 2, n)) = IF i + 2 <= n THEN n - (i + 2) + 1 ELSE 0
        /\ \A j \in 1 .. n - (i + 2) + 1 : SubSeq(s, i + 2, n)[j] = s[i + 2 + j - 1]
    BY ONLY <2>1, SubSeqProperties
  <2>3. /\ (IF i + 2 <= n THEN n - (i + 2) + 1 ELSE 0) = n - i - 1
        /\ n - (i + 2) + 1 = n - i - 1 /\ \A j \in 1 .. n - i - 1 : i + 2 + j - 1 = i + 1 + j
    OBVIOUS
  <2>4. Len(SubSeq(s, i + 2, n)) = n - i - 1 /\ \A j \in 1 .. n - i - 1 : SubSeq(s, i + 2, n)[j] = s[i + 1 + j]
    <3>1. Len(SubSeq(s, i + 2, n)) = n - i - 1
      BY <2>2, <2>3, Zenon
    <3>2. ASSUME NEW j \in 1 .. n - i - 1 PROVE SubSeq(s, i + 2, n)[j] = s[i + 1 + j]
      <4>1. SubSeq(s, i + 2, n)[j] = s[i + 2 + j - 1] /\ i + 2 + j - 1 = i + 1 + j
        BY ONLY <2>2, <2>3, j \in 1 .. n - i - 1
      <4> QED
        BY <4>1, Zenon
    <3> QED
      BY <3>1, <3>2
  <2> QED
    BY <2>2, <2>4, Zenon
<1>4. PICK e \in S : e = s[i + 1]
  BY <1>1
<1>5. PICK c \in Seq(S) : /\ c = Cat(<<e>>, b) /\ Len(c) = Len(b) + 1 /\ c[1] = e
                          /\ \A j \in 1 .. Len(b) : c[j + 1] = b[j]
  <2>1. IsCons(Cat(<<e>>, b), e, b, S)
    BY ConsIs, Zenon
  <2> QED
    BY <2>1, Zenon DEF IsCons
<1>6. Len(c) = n - i
  <2>1. Len(c) = (n - i - 1) + 1
    BY <1>3, <1>5, Zenon
  <2> QED
    BY ONLY <2>1, n \in Nat, i \in 0 .. n - 1
<1>7. ASSUME NEW j \in 1 .. n - i PROVE a[j] = c[j]
  <2>1. CASE j = 1
    BY <1>2, <1>4, <1>5, <2>1
  <2>2. CASE j # 1
    <3>1. PICK k \in 1 .. n - i - 1 : j = k + 1 /\ i + j = i + 1 + k
      <4>1. j - 1 \in 1 .. n - i - 1 /\ j = (j - 1) + 1 /\ i + j = i + 1 + (j - 1)
        BY <2>2
      <4> QED
        BY ONLY <4>1
    <3>2. c[j] = b[k] /\ b[k] = s[i + 1 + k] /\ a[j] = s[i + j]
      BY <1>2, <1>3, <1>5, <3>1
    <3> QED
      BY <3>1, <3>2
  <2> QED
    BY <2>1, <2>2
<1>8. a = c
  BY <1>2, <1>6, <1>7, SameElements
<1> QED
  BY <1>2, <1>3, <1>4, <1>5, <1>8

\* The start of a sequence, one element later.
LEMMA StartIs ==
    ASSUME NEW S, NEW s \in Seq(S), NEW i \in 0 .. Len(s)
    PROVE  /\ SubSeq(s, 1, i) \in Seq(S) /\ Len(SubSeq(s, 1, i)) = i
           /\ \A j \in 1 .. i : SubSeq(s, 1, i)[j] = s[j]
<1>1. (\A j \in 1 .. i : s[j] \in S) /\ i \in Int /\ 1 \in Int
  BY ElementOfSeq
<1>2. /\ SubSeq(s, 1, i) \in Seq(S)
      /\ Len(SubSeq(s, 1, i)) = IF 1 <= i THEN i - 1 + 1 ELSE 0
      /\ \A j \in 1 .. i - 1 + 1 : SubSeq(s, 1, i)[j] = s[1 + j - 1]
  BY ONLY <1>1, SubSeqProperties
<1> QED
  BY <1>2

LEMMA StartGrows ==
    ASSUME NEW S, NEW s \in Seq(S), NEW n \in Nat, n = Len(s), NEW i \in 0 .. n - 1
    PROVE  SubSeq(s, 1, i + 1) = Cat(SubSeq(s, 1, i), <<s[i + 1]>>)
<1>1. PICK a \in Seq(S) : /\ a = SubSeq(s, 1, i) /\ Len(a) = i /\ \A j \in 1 .. i : a[j] = s[j]
  <2>1. i \in 0 .. Len(s)
    OBVIOUS
  <2> QED
    BY <2>1, StartIs
<1>2. PICK b \in Seq(S) : /\ b = SubSeq(s, 1, i + 1) /\ Len(b) = i + 1
                          /\ \A j \in 1 .. i + 1 : b[j] = s[j]
  <2>1. i + 1 \in 0 .. Len(s)
    OBVIOUS
  <2> QED
    BY <2>1, StartIs
<1>3. PICK e \in S : e = s[i + 1]
  <2>1. i + 1 \in 1 .. Len(s)
    OBVIOUS
  <2> QED
    BY <2>1, ElementOfSeq
<1>4. PICK t \in Seq(S) : t = <<e>> /\ Len(t) = 1 /\ t[1] = e
  <2>1. <<e>> \in Seq(S) /\ Len(<<e>>) = 1 /\ <<e>>[1] = e
    OBVIOUS
  <2> QED
    BY <2>1, Zenon
<1>5. PICK c \in Seq(S) : /\ c = Cat(a, t) /\ Len(c) = i + 1
                          /\ \A j \in 1 .. i + 1 : c[j] = IF j <= i THEN a[j] ELSE t[j - i]
  <2>1. /\ a \o t \in Seq(S) /\ Len(a \o t) = Len(a) + Len(t)
        /\ \A j \in 1 .. Len(a) + Len(t) : (a \o t)[j] = IF j <= Len(a) THEN a[j] ELSE t[j - Len(a)]
    BY ConcatProperties
  <2>2. Len(a) = i /\ Len(t) = 1
    BY <1>1, <1>4
  <2> QED
    BY <2>1, <2>2 DEF Cat
<1>6. ASSUME NEW j \in 1 .. i + 1 PROVE b[j] = c[j]
  <2>1. CASE j <= i
    BY <1>1, <1>2, <1>5, <2>1
  <2>2. CASE ~(j <= i)
    <3>1. j = i + 1 /\ j - i = 1
      BY <2>2
    <3> QED
      BY <1>2, <1>3, <1>4, <1>5, <2>2, <3>1
  <2> QED
    BY <2>1, <2>2
<1>7. b = c
  BY <1>2, <1>5, <1>6, SameElements
<1> QED
  BY <1>1, <1>2, <1>3, <1>4, <1>5, <1>7

\* A sequence is a prefix of what it begins.
LEMMA BeginsCat ==
    ASSUME NEW S, NEW s \in Seq(S), NEW t \in Seq(S)
    PROVE  IsPrefix(s, Cat(s, t))
<1>1. PICK n \in Nat, c \in Seq(S) :
         /\ n = Len(s) /\ c = Cat(s, t) /\ Len(c) = n + Len(t)
         /\ \A j \in 1 .. n : c[j] = s[j]
  <2>1. /\ s \o t \in Seq(S) /\ Len(s \o t) = Len(s) + Len(t)
        /\ \A j \in 1 .. Len(s) + Len(t) : (s \o t)[j] = IF j <= Len(s) THEN s[j] ELSE t[j - Len(s)]
    BY ConcatProperties
  <2>2. Len(s) \in Nat /\ Len(t) \in Nat
    OBVIOUS
  <2>3. \A j \in 1 .. Len(s) : (s \o t)[j] = s[j]
    BY <2>1, <2>2
  <2> QED
    BY <2>1, <2>2, <2>3 DEF Cat
<1>2. n \in 0 .. Len(s) /\ n \in 0 .. Len(c) /\ n <= Len(c)
  BY <1>1
<1>3. PICK a \in Seq(S) : a = SubSeq(s, 1, n) /\ Len(a) = n /\ \A j \in 1 .. n : a[j] = s[j]
  BY <1>2, StartIs, ZenonT(30)
<1>4. PICK b \in Seq(S) : b = SubSeq(c, 1, n) /\ Len(b) = n /\ \A j \in 1 .. n : b[j] = c[j]
  BY <1>2, StartIs, ZenonT(30)
<1>5. a = b
  BY <1>1, <1>3, <1>4, SameElements
<1> QED
  BY <1>1, <1>2, <1>3, <1>4, <1>5 DEF IsPrefix

\* FlattenSeq, of a sequence and of each of its prefixes.
Flattens(f, seqs) ==
    /\ f[0] = <<>> /\ \A i \in 1 .. Len(seqs) : f[i] = Cat(f[i - 1], seqs[i])
    /\ \A k \in 0 .. Len(seqs) : FlattenSeq(SubSeq(seqs, 1, k)) = f[k]
    /\ FlattenSeq(seqs) = f[Len(seqs)]

LEMMA FlattenRun ==
    \A S : \A seqs \in Seq(Seq(S)) :
        \E f : f \in [0 .. Len(seqs) -> Seq(S)] /\ Flattens(f, seqs)
<1>0. SUFFICES ASSUME NEW S, NEW seqs, seqs \in Seq(Seq(S)), NEW n \in Nat, n = Len(seqs)
      PROVE  \E f : f \in [0 .. n -> Seq(S)] /\ Flattens(f, seqs)
  <2>1. \A S, seqs : seqs \in Seq(Seq(S)) => Len(seqs) \in Nat
    BY LenProperties
  <2> QED
    BY <2>1, Zenon
<1> DEFINE W == Seq(S)
           G == [i \in 1 .. n |-> [v \in W |-> Cat(v, seqs[i])]]
<1>1. \A i \in 1 .. n : seqs[i] \in W
  BY <1>0, ElementOfSeq
<1>2. <<>> \in W
  OBVIOUS
<1>3. /\ \A v, u \in W : Cat(v, u) \in W
      /\ \A u \in W : Cat(<<>>, u) = u
  BY CatFacts
<1> HIDE DEF W
<1>4. \A v \in W, i \in 0 + 1 .. n : G[i][v] = Cat(v, seqs[i]) /\ G[i][v] \in W
  BY <1>1, <1>3
<1> HIDE DEF G
<1>5. PICK f : f \in [0 .. n -> W] /\ Run(f, 0, n, <<>>, G)
  <2>0. 0 \in Int /\ n \in Int /\ 0 <= n
    OBVIOUS
  <2>1. \E s \in [0 .. n -> W] : Run(s, 0, n, <<>>, G)
    BY <1>2, <1>4, <2>0, RunExists, Zenon
  <2> QED
    BY <2>1
<1>6. f[0] = <<>> /\ \A i \in 1 .. n : f[i] = Cat(f[i - 1], seqs[i])
  <2>1. \A i \in 0 .. n : f[i] \in W /\ f[i] = IF i = 0 THEN <<>> ELSE G[i][f[i - 1]]
    BY <1>5 DEF Run
  <2> QED
    BY <1>4, <2>1
<1>7. ASSUME NEW t, NEW k \in 1 .. n, Len(t) = k, \A i \in 1 .. k : t[i] = seqs[i]
      PROVE  FlattenSeq(t) = f[k]
  <2> DEFINE Flat(g) == g = [i \in 1 .. k |-> IF i = 1 THEN t[i] ELSE Cat(g[i - 1], t[i])]
  <2>1. f[1] = seqs[1]
    BY <1>1, <1>3, <1>6
  <2>2. \A i \in 1 .. k : f[i] = IF i = 1 THEN t[i] ELSE Cat(f[i - 1], t[i])
    BY <1>6, <1>7, <2>1
  <2> DEFINE e == [i \in 1 .. k |-> f[i]]
  <2>3. \A i \in 1 .. k : e[i] = IF i = 1 THEN t[i] ELSE Cat(e[i - 1], t[i])
    BY <2>2
  <2>4. Flat(e)
    BY <2>3
  <2> DEFINE h == CHOOSE g : Flat(g)
  <2>5. Flat(h)
    <3> HIDE DEF e, Flat
    <3> QED
      BY <2>4
  <2>6. FlattenSeq(t) = h[k]
    <3>1. k # 0
      OBVIOUS
    <3> QED
      BY <1>7, <3>1, Zenon DEF FlattenSeq, Cat
  <2> HIDE DEF h
  <2>7. \A i \in 1 .. k : h[i] = IF i = 1 THEN t[i] ELSE Cat(h[i - 1], t[i])
    BY <2>5
  <2>8. h[1] = f[1] /\ \A i \in 1 + 1 .. k : h[i - 1] = f[i - 1] => h[i] = f[i]
    BY <2>2, <2>7
  <2>9. \A i \in 1 .. k : h[i] = f[i]
    BY <2>8, RunsAgree
  <2> QED
    BY <2>6, <2>9
<1>8. ASSUME NEW k \in 0 .. n PROVE FlattenSeq(SubSeq(seqs, 1, k)) = f[k]
  <2>1. CASE k = 0
    <3>1. SubSeq(seqs, 1, k) = <<>>
      BY <2>1
    <3> QED
      BY <1>6, <2>1, <3>1 DEF FlattenSeq
  <2>2. CASE k # 0
    <3> DEFINE t == SubSeq(seqs, 1, k)
    <3>1. Len(t) = k /\ \A i \in 1 .. k : t[i] = seqs[i]
      BY <1>0
    <3> HIDE DEF t
    <3>2. k \in 1 .. n
      BY <2>2
    <3>3. FlattenSeq(t) = f[k]
      BY <1>7, <3>1, <3>2
    <3> QED
      BY <3>3 DEF t
  <2> QED
    BY <2>1, <2>2
<1>9. FlattenSeq(seqs) = f[n]
  <2>1. SubSeq(seqs, 1, n) = seqs
    BY <1>0
  <2>2. n \in 0 .. n
    OBVIOUS
  <2>3. FlattenSeq(SubSeq(seqs, 1, n)) = f[n]
    BY <1>8, <2>2
  <2> QED
    BY <2>1, <2>3, Zenon
<1>10. f \in [0 .. n -> Seq(S)]
  BY <1>5 DEF W
<1>11. Flattens(f, seqs)
  BY <1>0, <1>6, <1>8, <1>9 DEF Flattens
<1> QED
  BY <1>10, <1>11

\* Where each sequence lies in what they flatten to.
Placed(seqs, n, data, o) ==
    /\ o[0] = 0 /\ o[n] = Len(data)
    /\ \A i \in 1 .. n : /\ o[i] = o[i - 1] + Len(seqs[i])
                         /\ \A j \in 1 .. Len(seqs[i]) : data[o[i - 1] + j] = seqs[i][j]
    /\ \A k \in 0 .. n : Len(FlattenSeq(SubSeq(seqs, 1, k))) = o[k]

LEMMA FlattenPlaces ==
    \A S : \A seqs \in Seq(Seq(S)) : \A n \in Nat : n = Len(seqs) =>
        \E o \in [0 .. n -> Nat] : /\ Placed(seqs, n, FlattenSeq(seqs), o)
                                   /\ FlattenSeq(seqs) \in Seq(S)
<1> SUFFICES ASSUME NEW S, NEW seqs, seqs \in Seq(Seq(S)), NEW n \in Nat, n = Len(seqs)
    PROVE  \E o \in [0 .. n -> Nat] : /\ Placed(seqs, n, FlattenSeq(seqs), o)
                                      /\ FlattenSeq(seqs) \in Seq(S)
  BY Zenon
<1>1. PICK f : f \in [0 .. n -> Seq(S)] /\ Flattens(f, seqs)
  <2>1. \E f : f \in [0 .. Len(seqs) -> Seq(S)] /\ Flattens(f, seqs)
    BY FlattenRun, Zenon
  <2> QED
    BY <2>1, Zenon
<1>2. /\ f[0] = <<>> /\ \A i \in 1 .. n : f[i] = Cat(f[i - 1], seqs[i])
      /\ \A k \in 0 .. n : FlattenSeq(SubSeq(seqs, 1, k)) = f[k]
      /\ FlattenSeq(seqs) = f[n]
  BY <1>1, Zenon DEF Flattens
<1> DEFINE W == Seq(S)
<1>3. /\ \A i \in 0 .. n : f[i] \in W
      /\ \A i \in 1 .. n : seqs[i] \in W
      /\ \A s \in W : Len(s) \in Nat
  <2>1. \A i \in 1 .. n : seqs[i] \in Seq(S)
    BY ElementOfSeq
  <2> QED
    BY <1>1, <2>1
<1>4. \A s, t \in W : /\ Len(Cat(s, t)) = Len(s) + Len(t)
                      /\ \A i \in 1 .. Len(s) + Len(t) :
                            Cat(s, t)[i] = IF i <= Len(s) THEN s[i] ELSE t[i - Len(s)]
  BY ConcatProperties, Zenon DEF Cat
<1> HIDE DEF W
<1> DEFINE o == [i \in 0 .. n |-> Len(f[i])]
<1>5. o \in [0 .. n -> Nat] /\ o[0] = 0 /\ \A i \in 0 .. n : o[i] = Len(f[i]) /\ o[i] \in Nat
  BY <1>2, <1>3
<1> HIDE DEF o
<1>6. ASSUME NEW i \in 1 .. n
      PROVE  /\ o[i] = o[i - 1] + Len(seqs[i])
             /\ \A j \in 1 .. o[i - 1] : f[i][j] = f[i - 1][j]
             /\ \A j \in 1 .. Len(seqs[i]) : f[i][o[i - 1] + j] = seqs[i][j]
  <2>1. i - 1 \in 0 .. n /\ i \in 0 .. n
    OBVIOUS
  <2>2. f[i - 1] \in W /\ seqs[i] \in W /\ o[i - 1] \in Nat /\ Len(seqs[i]) \in Nat
    BY <1>3, <1>5, <2>1
  <2>3. PICK s \in W, t \in W : s = f[i - 1] /\ t = seqs[i]
    BY <2>2, Zenon
  <2>4. PICK a \in Nat, b \in Nat : a = o[i - 1] /\ b = Len(seqs[i])
    BY <2>2, Zenon
  <2> DEFINE c == f[i]
  <2>5. s = f[i - 1] /\ t = seqs[i] /\ c = f[i] /\ a = o[i - 1] /\ b = Len(t)
    BY <2>3, <2>4, Zenon
  <2> HIDE DEF c
  <2>6. c = Cat(s, t) /\ a = Len(s)
    BY <1>2, <1>5, <2>1, <2>5
  <2>7. Len(c) = a + b /\ \A j \in 1 .. a + b : c[j] = IF j <= a THEN s[j] ELSE t[j - a]
    <3>1. /\ Len(Cat(s, t)) = Len(s) + Len(t)
          /\ \A j \in 1 .. Len(s) + Len(t) :
                Cat(s, t)[j] = IF j <= Len(s) THEN s[j] ELSE t[j - Len(s)]
      BY <1>4, Zenon
    <3> QED
      BY <2>5, <2>6, <3>1, Zenon
  <2>8. ASSUME NEW j \in 1 .. b PROVE c[a + j] = t[j]
    <3>1. a + j \in 1 .. a + b /\ ~(a + j <= a) /\ (a + j) - a = j
      OBVIOUS
    <3> QED
      BY ONLY <2>7, <3>1
  <2>9. \A j \in 1 .. a : c[j] = s[j]
    BY <2>7
  <2> QED
    BY <1>5, <2>1, <2>5, <2>7, <2>8, <2>9
<1>7. PICK data : data = f[n]
  OBVIOUS
<1> DEFINE T == {i \in 0 .. n : o[i] <= o[n] /\ \A j \in 1 .. o[i] : data[j] = f[i][j]}
<1>8. ASSUME NEW i \in 0 .. n, \A k \in 0 .. n : i < k => k \in T PROVE i \in T
  <2>1. CASE i = n
    BY <1>5, <1>7, <2>1
  <2>2. CASE i < n
    <3>1. i + 1 \in T /\ i + 1 \in 1 .. n /\ (i + 1) - 1 = i
      <4>1. i + 1 \in 1 .. n /\ i + 1 \in 0 .. n /\ i < i + 1 /\ (i + 1) - 1 = i
        BY <2>2
      <4> HIDE DEF T
      <4> QED
        BY <1>8, <4>1
    <3>2. o[i] \in Nat /\ o[i + 1] \in Nat /\ Len(seqs[i + 1]) \in Nat /\ o[n] \in Nat
      BY <1>3, <1>5, <3>1
    <3>3. o[i + 1] = o[i] + Len(seqs[i + 1]) /\ \A j \in 1 .. o[i] : f[i + 1][j] = f[i][j]
      BY <1>6, <3>1
    <3> QED
      BY <3>1, <3>2, <3>3
  <2> QED
    BY <2>1, <2>2
<1>9. \A i \in 0 .. n : i \in T
  <2> HIDE DEF T
  <2>1. 0 \in Int /\ n \in Int
    OBVIOUS
  <2> QED
    BY ONLY <1>8, <2>1, DownwardInduction
<1>10. ASSUME NEW i \in 1 .. n, NEW j \in 1 .. Len(seqs[i]) PROVE data[o[i - 1] + j] = seqs[i][j]
  <2>1. i \in T /\ i \in 0 .. n /\ i - 1 \in 0 .. n
    <3> HIDE DEF T
    <3> QED
      BY <1>9
  <2>2. o[i - 1] \in Nat /\ o[i] \in Nat /\ Len(seqs[i]) \in Nat
    BY <1>3, <1>5, <2>1
  <2>3. o[i - 1] + j \in 1 .. o[i]
    BY <1>6, <2>2
  <2> QED
    BY <1>6, <2>1, <2>3
<1>11. Placed(seqs, n, data, o)
  <2>1. o[n] = Len(data)
    BY <1>5, <1>7
  <2>2. \A k \in 0 .. n : Len(FlattenSeq(SubSeq(seqs, 1, k))) = o[k]
    BY <1>2, <1>5
  <2> QED
    BY <1>5, <1>6, <1>10, <2>1, <2>2, Zenon DEF Placed
<1>12. data \in Seq(S)
  BY <1>1, <1>7
<1> QED
  BY <1>2, <1>5, <1>7, <1>11, <1>12, Zenon
==============================================================================
