----------------------------- MODULE FiniteSums -----------------------------
(***************************************************************************)
(* Facts about SumFunctionOnSet(f, S), the sum of f[x] for x in a finite   *)
(* set S, which the ledger's counters are compared with.                   *)
(*                                                                         *)
(* The community modules define the sum by a function that removes one     *)
(* chosen element after the other.  That this function exists, that its    *)
(* values do not depend on the set it was made for, and that any element   *)
(* may be removed first are proved here by taking a smallest               *)
(* counterexample, a set, instead of by the library's induction theorems,  *)
(* whose predicate is an operator.                                         *)
(***************************************************************************)
EXTENDS Functions, FiniteSets, FiniteSetTheorems, TLAPS

Chosen(s) == CHOOSE x \in s : TRUE

(* g adds up f over every subset of S.                                     *)
Adds(g, f, S) ==
  g = [s \in SUBSET S |-> IF s = {} THEN 0 ELSE f[Chosen(s)] + g[s \ {Chosen(s)}]]

(* The community modules' definition, unfolded.                            *)
LEMMA SumIsChosen ==
  ASSUME NEW f, NEW S
  PROVE  SumFunctionOnSet(f, S) = (CHOOSE g : Adds(g, f, S))[S]
BY DEF SumFunctionOnSet, FoldFunctionOnSet, MapThenFoldSet, Adds, Chosen

(* A non-empty set of finite sets has a smallest member.                   *)
LEMMA SmallestSet ==
  ASSUME NEW S, IsFiniteSet(S), NEW bad \in SUBSET SUBSET S, bad # {}
  PROVE  \E s \in bad : /\ IsFiniteSet(s)
                        /\ \A t \in bad : ~ (t \subseteq s /\ t # s)
<1>1. bad \subseteq FiniteSubsetsOf(S)
  BY FS_Subset DEF FiniteSubsetsOf
<1>2. PICK s \in bad : \A t \in bad : <<t, s>> \notin StrictSubsetOrdering(S)
  BY <1>1, WFMin, FS_StrictSubsetOrderingWellFounded
<1>. QED
  BY <1>1, <1>2 DEF StrictSubsetOrdering, FiniteSubsetsOf

(* A non-empty set of natural numbers has a smallest member.               *)
LEMMA SmallestNumber ==
  ASSUME NEW bad \in SUBSET Nat, bad # {}
  PROVE  \E n \in bad : \A m \in bad : n <= m
<1>1. PICK k \in bad : TRUE
  OBVIOUS
<1>. DEFINE below == {0 .. n : n \in {m \in bad : m <= k}}
<1>2. PICK s \in below : \A t \in below : ~ (t \subseteq s /\ t # s)
  <2>1. IsFiniteSet(0 .. k)
    BY FS_Interval
  <2>2. \A s \in below : s \in SUBSET (0 .. k)
    OBVIOUS
  <2>3. 0 .. k \in below
    OBVIOUS
  <2>. HIDE DEF below
  <2>. QED
    BY <2>1, <2>2, <2>3, SmallestSet
<1>3. PICK n \in bad : n <= k /\ s = 0 .. n
  OBVIOUS
<1>4. ASSUME NEW m \in bad, m < n PROVE FALSE
  <2>1. 0 .. m \in below /\ 0 .. m \subseteq s /\ n \in s /\ n \notin 0 .. m
    BY <1>3, <1>4
  <2>. QED
    BY <1>2, <2>1
<1>. QED
  BY <1>4

(* The adder exists: adders that are right up to a number of elements are  *)
(* extended by one element more.                                           *)
LEMMA AdderExists ==
  ASSUME NEW f, NEW S, IsFiniteSet(S)
  PROVE  \E g : Adds(g, f, S)
<1>. DEFINE Next(g, s) == IF s = {} THEN 0 ELSE f[Chosen(s)] + g[s \ {Chosen(s)}]
            UpTo(g, n) == \A s \in SUBSET S : Cardinality(s) <= n => g[s] = Next(g, s)
            bad == {n \in Nat : ~ \E g : UpTo(g, n)}
<1>1. ASSUME NEW s \in SUBSET S
      PROVE  /\ IsFiniteSet(s) /\ Cardinality(s) \in Nat /\ Cardinality(s) <= Cardinality(S)
             /\ Cardinality(s) = 0 => s = {}
             /\ s # {} => /\ s \ {Chosen(s)} \in SUBSET S
                          /\ Cardinality(s \ {Chosen(s)}) = Cardinality(s) - 1
  <2>1. IsFiniteSet(s) /\ Cardinality(s) <= Cardinality(S)
    BY FS_Subset
  <2>2. s # {} => Chosen(s) \in s
    BY DEF Chosen
  <2>. QED
    BY <2>1, <2>2, FS_CardinalityType, FS_EmptySet, FS_RemoveElement
<1>2. bad = {}
  <2>1. SUFFICES ASSUME bad # {} PROVE FALSE
    OBVIOUS
  <2>2. PICK n \in bad : \A m \in bad : n <= m
    BY <2>1, SmallestNumber
  <2>0. n \in Nat /\ ~ \E g : UpTo(g, n)
    OBVIOUS
  <2>3. CASE n = 0
    <3>. DEFINE g == [s \in SUBSET S |-> 0]
    <3>1. ASSUME NEW s \in SUBSET S, Cardinality(s) <= 0 PROVE g[s] = Next(g, s)
      <4>1. s = {}
        <5>1. Cardinality(s) \in Nat /\ (Cardinality(s) = 0 => s = {})
          BY <1>1
        <5>. QED
          BY <3>1, <5>1
      <4>. QED
        BY <4>1
    <3>2. UpTo(g, 0)
      BY <3>1
    <3>. QED
      BY <2>0, <3>2, <2>3
  <2>4. CASE n # 0
    <3>1. n - 1 \in Nat /\ n - 1 \notin bad
      <4>. HIDE DEF bad
      <4>. QED
        BY <2>2, <2>0, <2>4
    <3>2. PICK g : UpTo(g, n - 1)
      BY <3>1
    <3>. DEFINE h == [s \in SUBSET S |-> IF Cardinality(s) < n THEN g[s] ELSE Next(g, s)]
    <3>3. ASSUME NEW s \in SUBSET S, Cardinality(s) <= n PROVE h[s] = Next(h, s)
      <4>1. s # {} => h[s \ {Chosen(s)}] = g[s \ {Chosen(s)}]
        BY <1>1, <2>0, <3>3
      <4>2. Next(h, s) = Next(g, s)
        BY <4>1
      <4>3. Cardinality(s) < n => g[s] = Next(g, s)
        <5>1. Cardinality(s) < n => Cardinality(s) <= n - 1
          <6>1. Cardinality(s) \in Nat /\ n \in Nat
            BY <1>1, <2>0
          <6>. QED
            BY <6>1
        <5>. QED
          BY <3>2, <5>1
      <4>. QED
        BY <1>1, <2>0, <3>3, <4>2, <4>3
    <3>4. UpTo(h, n)
      BY <3>3
    <3>. QED
      BY <2>0, <3>4
  <2>. QED
    BY <2>3, <2>4
<1>3. PICK g : UpTo(g, Cardinality(S))
  BY <1>1, <1>2
<1>4. ASSUME NEW s \in SUBSET S PROVE g[s] = Next(g, s)
  BY <1>1, <1>3
<1>. DEFINE h == [s \in SUBSET S |-> g[s]]
<1>5. h = [s \in SUBSET S |-> Next(h, s)]
  <2>1. ASSUME NEW s \in SUBSET S PROVE Next(h, s) = Next(g, s)
    BY <1>1
  <2>. QED
    BY <2>1, <1>4
<1>. QED
  BY <1>5 DEF Adds

(* The value of an adder does not depend on the set it was made for.       *)
LEMMA AddersAgree ==
  ASSUME NEW f, NEW S, IsFiniteSet(S), NEW T \in SUBSET S, NEW g, NEW h,
         Adds(g, f, S), Adds(h, f, T)
  PROVE  \A s \in SUBSET T : g[s] = h[s]
<1>. DEFINE bad == {s \in SUBSET T : g[s] # h[s]}
<1>1. SUFFICES ASSUME bad # {} PROVE FALSE
  OBVIOUS
<1>2. PICK s \in bad : \A t \in bad : ~ (t \subseteq s /\ t # s)
  <2>1. IsFiniteSet(T) /\ bad \in SUBSET SUBSET T
    BY FS_Subset
  <2>. HIDE DEF bad
  <2>. QED
    BY <1>1, <2>1, SmallestSet
<1>3. s # {}
  BY DEF Adds
<1>4. /\ g[s] = f[Chosen(s)] + g[s \ {Chosen(s)}]
      /\ h[s] = f[Chosen(s)] + h[s \ {Chosen(s)}]
  BY <1>3 DEF Adds
<1>5. Chosen(s) \in s
  BY <1>3 DEF Chosen
<1>6. s \ {Chosen(s)} \in SUBSET T /\ s \ {Chosen(s)} \notin bad
  BY <1>2, <1>5
<1>. QED
  BY <1>4, <1>6

(* What SumFunctionOnSet computes: nothing for the empty set, otherwise an *)
(* element's value and the sum of the rest.                                *)
LEMMA SumUnfolds ==
  ASSUME NEW f, NEW S, IsFiniteSet(S)
  PROVE  SumFunctionOnSet(f, S) =
           IF S = {} THEN 0
           ELSE f[Chosen(S)] + SumFunctionOnSet(f, S \ {Chosen(S)})
<1>. DEFINE g == CHOOSE a : Adds(a, f, S)
            T == S \ {Chosen(S)}
            h == CHOOSE a : Adds(a, f, T)
<1>1. IsFiniteSet(T)
  BY FS_Subset
<1>2. Adds(g, f, S) /\ Adds(h, f, T)
  BY <1>1, AdderExists
<1>3. g[T] = h[T]
  BY <1>2, AddersAgree
<1>4. SumFunctionOnSet(f, S) = g[S] /\ SumFunctionOnSet(f, T) = h[T]
  BY SumIsChosen
<1>5. g[S] = IF S = {} THEN 0 ELSE f[Chosen(S)] + g[T]
  BY <1>2 DEF Adds
<1>. QED
  BY <1>3, <1>4, <1>5

(* The sum of no values is zero.                                           *)
LEMMA SumEmpty == ASSUME NEW f PROVE SumFunctionOnSet(f, {}) = 0
BY SumUnfolds, FS_EmptySet

(* A sum of natural numbers is a natural number.                           *)
LEMMA SumIsNat ==
  ASSUME NEW f, NEW S, IsFiniteSet(S), \A x \in S : f[x] \in Nat
  PROVE  SumFunctionOnSet(f, S) \in Nat
<1>. DEFINE bad == {s \in SUBSET S : SumFunctionOnSet(f, s) \notin Nat}
<1>1. SUFFICES ASSUME bad # {} PROVE FALSE
  OBVIOUS
<1>2. PICK s \in bad : \A t \in bad : ~ (t \subseteq s /\ t # s)
  <2>1. bad \in SUBSET SUBSET S
    OBVIOUS
  <2>. HIDE DEF bad
  <2>. QED
    BY <1>1, <2>1, SmallestSet
<1>3. IsFiniteSet(s) /\ s \in SUBSET S
  BY FS_Subset
<1>4. s # {}
  BY SumEmpty
<1>5. Chosen(s) \in s
  BY <1>4 DEF Chosen
<1>6. s \ {Chosen(s)} \notin bad /\ s \ {Chosen(s)} \in SUBSET S
  BY <1>2, <1>3, <1>5
<1>7. SumFunctionOnSet(f, s) = f[Chosen(s)] + SumFunctionOnSet(f, s \ {Chosen(s)})
  BY <1>3, <1>4, SumUnfolds
<1>. QED
  BY <1>3, <1>5, <1>6, <1>7

(* Any element may be taken out of the sum, not only the chosen one.       *)
LEMMA SumRemove ==
  ASSUME NEW f, NEW S, IsFiniteSet(S), \A x \in S : f[x] \in Nat, NEW x \in S
  PROVE  SumFunctionOnSet(f, S) = f[x] + SumFunctionOnSet(f, S \ {x})
<1>. DEFINE Sum(s) == SumFunctionOnSet(f, s)
            bad == {s \in SUBSET S : \E y \in s : Sum(s) # f[y] + Sum(s \ {y})}
<1>1. SUFFICES ASSUME bad # {} PROVE FALSE
  OBVIOUS
<1>2. PICK s \in bad : \A t \in bad : ~ (t \subseteq s /\ t # s)
  <2>1. bad \in SUBSET SUBSET S
    OBVIOUS
  <2>. HIDE DEF bad
  <2>. QED
    BY <1>1, <2>1, SmallestSet
<1>3. IsFiniteSet(s) /\ s \in SUBSET S
  BY FS_Subset
<1>4. PICK y \in s : Sum(s) # f[y] + Sum(s \ {y})
  OBVIOUS
<1>. DEFINE z == Chosen(s)
            both == (s \ {y}) \ {z}
<1>5. z \in s
  BY DEF Chosen
<1>6. Sum(s) = f[z] + Sum(s \ {z})
  BY <1>3, <1>5, SumUnfolds
<1>7. y # z
  BY <1>4, <1>6
<1>8. /\ s \ {y} \in SUBSET S /\ s \ {y} \notin bad
      /\ s \ {z} \in SUBSET S /\ s \ {z} \notin bad
  <2>. HIDE DEF z
  <2>. QED
    BY <1>2, <1>3, <1>5
<1>9. Sum(s \ {y}) = f[z] + Sum(both)
  BY <1>5, <1>7, <1>8
<1>10. Sum(s \ {z}) = f[y] + Sum(both)
  <2>1. (s \ {z}) \ {y} = both
    OBVIOUS
  <2>. QED
    BY <1>7, <1>8, <2>1
<1>11. Sum(both) \in Nat /\ f[y] \in Nat /\ f[z] \in Nat
  <2>1. IsFiniteSet(both) /\ both \in SUBSET S
    BY <1>3, FS_Subset
  <2>. QED
    BY <1>3, <1>5, <2>1, SumIsNat
<1>. HIDE DEF Sum, z, both
<1>. QED
  BY <1>4, <1>6, <1>9, <1>10, <1>11

(* A new element adds its value.                                           *)
LEMMA SumAdd ==
  ASSUME NEW f, NEW S, IsFiniteSet(S), NEW x, x \notin S,
         f[x] \in Nat, \A y \in S : f[y] \in Nat
  PROVE  SumFunctionOnSet(f, S \cup {x}) = SumFunctionOnSet(f, S) + f[x]
<1>1. IsFiniteSet(S \cup {x}) /\ (S \cup {x}) \ {x} = S
  BY FS_AddElement
<1>2. SumFunctionOnSet(f, S \cup {x}) = f[x] + SumFunctionOnSet(f, S)
  BY <1>1, SumRemove
<1>3. SumFunctionOnSet(f, S) \in Nat
  BY SumIsNat
<1>. QED
  BY <1>2, <1>3

(* The sum depends on the values in the set only.                          *)
LEMMA SumDependsOnValues ==
  ASSUME NEW f, NEW g, NEW S, IsFiniteSet(S), \A x \in S : f[x] = g[x]
  PROVE  SumFunctionOnSet(f, S) = SumFunctionOnSet(g, S)
<1>. DEFINE bad == {s \in SUBSET S : SumFunctionOnSet(f, s) # SumFunctionOnSet(g, s)}
<1>1. SUFFICES ASSUME bad # {} PROVE FALSE
  OBVIOUS
<1>2. PICK s \in bad : \A t \in bad : ~ (t \subseteq s /\ t # s)
  <2>1. bad \in SUBSET SUBSET S
    OBVIOUS
  <2>. HIDE DEF bad
  <2>. QED
    BY <1>1, <2>1, SmallestSet
<1>3. IsFiniteSet(s) /\ s \in SUBSET S
  BY FS_Subset
<1>4. s # {}
  BY SumEmpty
<1>5. Chosen(s) \in s
  BY <1>4 DEF Chosen
<1>6. s \ {Chosen(s)} \notin bad /\ s \ {Chosen(s)} \in SUBSET S
  BY <1>2, <1>3, <1>5
<1>7. /\ SumFunctionOnSet(f, s) = f[Chosen(s)] + SumFunctionOnSet(f, s \ {Chosen(s)})
      /\ SumFunctionOnSet(g, s) = g[Chosen(s)] + SumFunctionOnSet(g, s \ {Chosen(s)})
  BY <1>3, <1>4, SumUnfolds
<1>. QED
  BY <1>3, <1>5, <1>6, <1>7

(* No value is larger than the sum.                                        *)
LEMMA SumBoundsValue ==
  ASSUME NEW f, NEW S, IsFiniteSet(S), \A x \in S : f[x] \in Nat, NEW x \in S
  PROVE  f[x] <= SumFunctionOnSet(f, S)
<1>1. SumFunctionOnSet(f, S \ {x}) \in Nat
  BY SumIsNat, FS_RemoveElement
<1>. QED
  BY <1>1, SumRemove

(* The sum over two sets with nothing in common.                           *)
LEMMA SumUnion ==
  ASSUME NEW f, NEW S, NEW T, IsFiniteSet(S), IsFiniteSet(T), S \cap T = {},
         \A x \in S \cup T : f[x] \in Nat
  PROVE  SumFunctionOnSet(f, S \cup T) = SumFunctionOnSet(f, S) + SumFunctionOnSet(f, T)
<1>. DEFINE Sum(s) == SumFunctionOnSet(f, s)
            bad == {t \in SUBSET T : Sum(S \cup t) # Sum(S) + Sum(t)}
<1>1. SUFFICES ASSUME bad # {} PROVE FALSE
  OBVIOUS
<1>2. PICK t \in bad : \A u \in bad : ~ (u \subseteq t /\ u # t)
  <2>1. bad \in SUBSET SUBSET T
    OBVIOUS
  <2>. HIDE DEF bad
  <2>. QED
    BY <1>1, <2>1, SmallestSet
<1>3. IsFiniteSet(t) /\ t \in SUBSET T /\ IsFiniteSet(S \cup t)
  BY FS_Subset, FS_Union
<1>4. Sum(S) \in Nat
  BY SumIsNat
<1>5. PICK x \in t : TRUE
  <2>1. S \cup {} = S
    OBVIOUS
  <2>2. t # {}
    BY <1>4, <2>1, SumEmpty
  <2>. QED
    BY <2>2
<1>. DEFINE rest == t \ {x}
<1>6. rest \notin bad /\ rest \in SUBSET T
  BY <1>2, <1>3
<1>7. Sum(t) = f[x] + Sum(rest)
  BY <1>3, SumRemove
<1>8. Sum(S \cup t) = f[x] + Sum(S \cup rest)
  <2>1. (S \cup t) \ {x} = S \cup rest
    BY <1>3
  <2>. QED
    BY <1>3, <2>1, SumRemove
<1>9. f[x] \in Nat /\ Sum(rest) \in Nat
  BY <1>3, FS_Subset, SumIsNat
<1>10. Sum(S \cup rest) = Sum(S) + Sum(rest)
  BY <1>6
<1>11. Sum(S \cup t) # Sum(S) + Sum(t)
  OBVIOUS
<1>. HIDE DEF Sum, rest
<1>. QED
  BY <1>4, <1>7, <1>8, <1>9, <1>10, <1>11
(* A part of the set adds up to no more than the whole.                    *)
LEMMA SumMonotone ==
  ASSUME NEW f, NEW T, IsFiniteSet(T), \A x \in T : f[x] \in Nat, NEW S \in SUBSET T
  PROVE  SumFunctionOnSet(f, S) <= SumFunctionOnSet(f, T)
<1>1. IsFiniteSet(S) /\ IsFiniteSet(T \ S)
  BY FS_Subset
<1>2. SumFunctionOnSet(f, S) \in Nat /\ SumFunctionOnSet(f, T \ S) \in Nat
  BY <1>1, SumIsNat
<1>3. SumFunctionOnSet(f, S \cup (T \ S))
        = SumFunctionOnSet(f, S) + SumFunctionOnSet(f, T \ S)
  BY <1>1, SumUnion
<1>4. SumFunctionOnSet(f, T) = SumFunctionOnSet(f, S) + SumFunctionOnSet(f, T \ S)
  <2>1. S \cup (T \ S) = T
    OBVIOUS
  <2>. QED
    BY <1>3, <2>1
<1>. QED
  BY <1>2, <1>4

(* Renaming the summands one to one does not change the sum.               *)
LEMMA SumRenamed ==
  ASSUME NEW f, NEW S, IsFiniteSet(S), NEW g, NEW h, NEW T, IsFiniteSet(T),
         \A x \in S : h[x] \in T /\ f[x] = g[h[x]] /\ g[h[x]] \in Nat,
         \A x, y \in S : h[x] = h[y] => x = y
  PROVE  SumFunctionOnSet(f, S) = SumFunctionOnSet(g, {h[x] : x \in S})
<1>. DEFINE Image(s) == {h[x] : x \in s}
            bad == {s \in SUBSET S : SumFunctionOnSet(f, s) # SumFunctionOnSet(g, Image(s))}
<1>1. SUFFICES ASSUME bad # {} PROVE FALSE
  OBVIOUS
<1>2. PICK s \in bad : \A t \in bad : ~ (t \subseteq s /\ t # s)
  <2>1. bad \in SUBSET SUBSET S
    OBVIOUS
  <2>. HIDE DEF bad
  <2>. QED
    BY <1>1, <2>1, SmallestSet
<1>3. IsFiniteSet(s) /\ s \in SUBSET S
  BY FS_Subset
<1>4. PICK x \in s : TRUE
  <2>1. Image({}) = {}
    OBVIOUS
  <2>2. s # {}
    BY <2>1, SumEmpty
  <2>. QED
    BY <2>2
<1>. DEFINE rest == s \ {x}
<1>5. rest \notin bad /\ rest \in SUBSET S
  BY <1>2, <1>3
<1>6. SumFunctionOnSet(f, rest) = SumFunctionOnSet(g, Image(rest))
  BY <1>5
<1>7. SumFunctionOnSet(f, s) = f[x] + SumFunctionOnSet(f, rest)
  BY <1>3, SumRemove
<1>8. SumFunctionOnSet(g, Image(s)) = g[h[x]] + SumFunctionOnSet(g, Image(rest))
  <2>1. IsFiniteSet(Image(s))
    BY <1>3, FS_Subset
  <2>2. Image(rest) = Image(s) \ {h[x]} /\ h[x] \in Image(s)
    BY <1>3
  <2>3. \A y \in Image(s) : g[y] \in Nat
    BY <1>3
  <2>. HIDE DEF Image, rest
  <2>. QED
    BY <2>1, <2>2, <2>3, SumRemove
<1>9. f[x] = g[h[x]]
  BY <1>3
<1>10. SumFunctionOnSet(f, s) # SumFunctionOnSet(g, Image(s))
  OBVIOUS
<1>. HIDE DEF Image, rest
<1>. QED
  BY <1>6, <1>7, <1>8, <1>9, <1>10

(* A sum of values that are at most b is at most b times their number.     *)
LEMMA SumAtMost ==
  ASSUME NEW f, NEW S, IsFiniteSet(S), NEW b \in Nat, \A x \in S : f[x] \in Nat /\ f[x] <= b
  PROVE  SumFunctionOnSet(f, S) <= b * Cardinality(S)
<1>. DEFINE Sum(s) == SumFunctionOnSet(f, s)
            bad == {s \in SUBSET S : ~ (Sum(s) <= b * Cardinality(s))}
<1>1. SUFFICES ASSUME bad # {} PROVE FALSE
  OBVIOUS
<1>2. PICK s \in bad : \A t \in bad : ~ (t \subseteq s /\ t # s)
  <2>1. bad \in SUBSET SUBSET S
    OBVIOUS
  <2>. HIDE DEF bad
  <2>. QED
    BY <1>1, <2>1, SmallestSet
<1>3. s \in SUBSET S /\ IsFiniteSet(s) /\ ~ (Sum(s) <= b * Cardinality(s))
  BY FS_Subset
<1>4. CASE s = {}
  <2>1. Sum(s) = 0 /\ Cardinality(s) = 0
    BY <1>4, SumEmpty, FS_EmptySet
  <2>2. b * 0 = 0
    OBVIOUS
  <2>. QED
    BY <1>3, <2>1, <2>2
<1>5. ASSUME NEW x \in s PROVE FALSE
  <2>. DEFINE rest == s \ {x}
  <2>1. IsFiniteSet(rest) /\ Cardinality(s) = Cardinality(rest) + 1 /\ Cardinality(rest) \in Nat
    <3>1. IsFiniteSet(rest) /\ Cardinality(rest) = Cardinality(s) - 1
      BY <1>3, FS_RemoveElement
    <3>2. Cardinality(rest) \in Nat /\ Cardinality(s) \in Nat
      BY <1>3, <3>1, FS_CardinalityType
    <3>. QED
      BY <3>1, <3>2
  <2>2. rest \in SUBSET S /\ rest \notin bad
    BY <1>2, <1>3
  <2>3. Sum(rest) <= b * Cardinality(rest)
    BY <2>2
  <2>4. Sum(s) = f[x] + Sum(rest) /\ Sum(rest) \in Nat /\ f[x] \in Nat /\ f[x] <= b
    BY <1>3, <2>1, SumRemove, SumIsNat
  <2>. HIDE DEF Sum, rest
  <2>5. b * Cardinality(s) = b * Cardinality(rest) + b /\ b * Cardinality(rest) \in Nat
    BY <2>1
  <2>. QED
    BY <1>3, <2>3, <2>4, <2>5
<1>. QED
  BY <1>4, <1>5

=============================================================================
