------------------------------ MODULE SumTheorems ------------------------------
(***************************************************************************)
(* Induction over the naturals and over finite sets, and what follows for  *)
(* cardinalities and for the sums of the community module Functions, which *)
(* fold + over a set.  The facts about finite sets restate a few of the    *)
(* library's; they are proved here from the definitions because every      *)
(* obligation of a module carries all that the module extends.             *)
(***************************************************************************)
EXTENDS WellFoundedInduction, Sequences, FiniteSets, Functions, TLAPS

-----------------------------------------------------------------------------
(* Induction *)

\* A set of naturals that is not empty has a least element.
LEMMA LeastNat ==
  ASSUME NEW T \in SUBSET Nat, T # {}
  PROVE  \E m \in T : \A k \in T : m <= k
<1> DEFINE R == {ij \in Nat \X Nat : ij[1] < ij[2]}
<1>1. IsWellFoundedOn(R, Nat)
  BY NatLessThanWellFounded DEF OpToRel
<1>2. \A x, y \in Nat : y < x => <<y, x>> \in R
  OBVIOUS
<1> HIDE DEF R
<1>3. PICK m \in T : \A k \in T : ~(<<k, m>> \in R)
  BY Zenon, <1>1, WFMin
<1>4. \A k \in T : ~(k < m)
  BY Zenon, <1>2, <1>3
<1> QED
  BY <1>4

\* Induction on the naturals, over a set.
LEMMA SetInduction ==
  ASSUME NEW S \in SUBSET Nat, 0 \in S, \A n \in S : n + 1 \in S
  PROVE  S = Nat
<1> SUFFICES ASSUME Nat \ S # {} PROVE FALSE
  BY Zenon
<1>1. PICK m \in Nat \ S : \A k \in Nat \ S : m <= k
  BY Zenon, LeastNat
<1>2. m # 0 /\ m - 1 \in Nat
  OBVIOUS
<1>3. m - 1 \in S
  BY <1>1, <1>2
<1> QED
  BY <1>1, <1>2, <1>3

\* n positions suffice to list the set.
AtMost(s, n) == s = {} \/ \E q \in [1..n -> s] : \A x \in s : \E i \in 1..n : q[i] = x

\* Sets of at most n elements.
LEMMA AtMostFacts ==
  /\ \A s : AtMost(s, 0) => s = {}
  /\ \A s : \A n \in Nat : \A t \in SUBSET s : AtMost(s, n) => AtMost(t, n)
  /\ \A s : \A n \in Nat : AtMost(s, n) => AtMost(s, n + 1)
  /\ \A s, x : \A n \in Nat : AtMost(s, n) => AtMost(s \cup {x}, n + 1)
  /\ \A s : \A n \in Nat : \A c \in s : AtMost(s, n + 1) => AtMost(s \ {c}, n)
  /\ \A s : IsFiniteSet(s) <=> \E n \in Nat : AtMost(s, n)
<1>1. \A s : AtMost(s, 0) => s = {}
  BY DEF AtMost
<1>2. ASSUME NEW s, NEW n \in Nat, NEW t \in SUBSET s, AtMost(s, n) PROVE AtMost(t, n)
  <2>1. CASE t = {}
    BY <2>1 DEF AtMost
  <2>2. CASE t # {}
    <3>1. PICK q \in [1..n -> s] : \A x \in s : \E i \in 1..n : q[i] = x
      BY <1>2, <2>2 DEF AtMost
    <3>2. PICK d \in t : TRUE
      BY <2>2
    <3> DEFINE r == [i \in 1..n |-> IF q[i] \in t THEN q[i] ELSE d]
    <3>3. r \in [1..n -> t] /\ \A x \in t : \E i \in 1..n : r[i] = x
      BY <3>1, <3>2
    <3> QED
      BY Zenon, <3>3 DEF AtMost
  <2> QED
    BY <2>1, <2>2
<1>3. ASSUME NEW s, NEW x, NEW n \in Nat, AtMost(s, n) PROVE AtMost(s \cup {x}, n + 1)
  <2> DEFINE u == s \cup {x}
  <2>1. CASE s = {}
    <3> DEFINE r == [i \in 1..(n + 1) |-> x]
    <3>1. r \in [1..(n + 1) -> u] /\ \A y \in u : r[1] = y /\ 1 \in 1..(n + 1)
      BY <2>1
    <3> QED
      BY <3>1 DEF AtMost
  <2>2. CASE s # {}
    <3>1. PICK q \in [1..n -> s] : \A y \in s : \E i \in 1..n : q[i] = y
      BY <1>3, <2>2 DEF AtMost
    <3> DEFINE r == [i \in 1..(n + 1) |-> IF i = n + 1 THEN x ELSE q[i]]
    <3>2. r \in [1..(n + 1) -> u]
      BY <3>1
    <3>3. ASSUME NEW y \in u PROVE \E i \in 1..(n + 1) : r[i] = y
      <4>1. CASE y = x
        BY <4>1
      <4>2. CASE y # x
        <5>1. PICK i \in 1..n : q[i] = y
          BY <3>1, <4>2
        <5>2. i \in 1..(n + 1) /\ r[i] = y
          BY <5>1
        <5> QED
          BY <5>2
      <4> QED
        BY <4>1, <4>2
    <3> HIDE DEF r
    <3> QED
      BY <3>2, <3>3 DEF AtMost
  <2> QED
    BY <2>1, <2>2
<1>4. ASSUME NEW s, NEW n \in Nat, AtMost(s, n) PROVE AtMost(s, n + 1)
  <2>1. CASE s = {}
    BY <2>1 DEF AtMost
  <2>2. CASE s # {}
    <3>1. PICK x \in s : TRUE
      BY <2>2
    <3>2. s \cup {x} = s
      BY <3>1
    <3> QED
      BY Zenon, <1>3, <1>4, <3>2
  <2> QED
    BY <2>1, <2>2
<1>5. ASSUME NEW s, NEW n \in Nat, NEW c \in s, AtMost(s, n + 1) PROVE AtMost(s \ {c}, n)
  <2>1. CASE s \ {c} = {}
    BY <2>1 DEF AtMost
  <2>2. CASE s \ {c} # {}
    <3>1. PICK q \in [1..(n + 1) -> s] : \A x \in s : \E i \in 1..(n + 1) : q[i] = x
      BY <1>5 DEF AtMost
    <3>2. PICK d \in s \ {c} : q[n + 1] # c => d = q[n + 1]
      BY <2>2, <3>1
    <3> DEFINE r == [i \in 1..n |-> IF q[i] = c THEN d ELSE q[i]]
    <3>3. r \in [1..n -> s \ {c}]
      BY <3>1, <3>2
    <3>4. ASSUME NEW x \in s \ {c} PROVE \E i \in 1..n : r[i] = x
      <4>1. PICK i \in 1..(n + 1) : q[i] = x
        BY <3>1
      <4>2. CASE i # n + 1
        <5>1. i \in 1..n /\ r[i] = x
          BY <4>1, <4>2
        <5> QED
          BY <5>1
      <4>3. CASE i = n + 1
        <5>1. PICK j \in 1..(n + 1) : q[j] = c
          BY <3>1
        <5>2. j \in 1..n /\ r[j] = x
          BY <3>2, <4>1, <4>3, <5>1
        <5> QED
          BY <5>2
      <4> QED
        BY <4>2, <4>3
    <3> HIDE DEF r
    <3> QED
      BY <3>3, <3>4 DEF AtMost
  <2> QED
    BY <2>1, <2>2
<1>6. ASSUME NEW s PROVE IsFiniteSet(s) <=> \E n \in Nat : AtMost(s, n)
  <2>1. ASSUME IsFiniteSet(s) PROVE \E n \in Nat : AtMost(s, n)
    <3>1. PICK q \in Seq(s) : \A x \in s : \E i \in 1..Len(q) : q[i] = x
      BY <2>1 DEF IsFiniteSet
    <3>2. Len(q) \in Nat /\ q \in [1..Len(q) -> s]
      OBVIOUS
    <3> QED
      BY <3>1, <3>2 DEF AtMost
  <2>2. ASSUME NEW n \in Nat, AtMost(s, n) PROVE IsFiniteSet(s)
    <3>1. CASE s = {}
      <4>1. << >> \in Seq(s)
        OBVIOUS
      <4> QED
        BY Zenon, <3>1, <4>1 DEF IsFiniteSet
    <3>2. CASE s # {}
      <4>1. PICK q \in [1..n -> s] : \A x \in s : \E i \in 1..n : q[i] = x
        BY <2>2, <3>2 DEF AtMost
      <4>2. q \in Seq(s) /\ Len(q) = n
        OBVIOUS
      <4> QED
        BY <4>1, <4>2 DEF IsFiniteSet
    <3> QED
      BY <3>1, <3>2
  <2> QED
    BY <2>1, <2>2
<1> QED
  BY Zenon, <1>1, <1>2, <1>3, <1>4, <1>5, <1>6

\* What is made of finitely many elements is finite.
LEMMA FiniteFacts ==
  /\ IsFiniteSet({})
  /\ \A S : \A T \in SUBSET S : IsFiniteSet(S) => IsFiniteSet(T)
  /\ \A S, x : IsFiniteSet(S) => IsFiniteSet(S \cup {x})
<1>1. AtMost({}, 0)
  BY DEF AtMost
<1>2. 0 \in Nat /\ \A n \in Nat : n + 1 \in Nat
  OBVIOUS
<1>3. \A S : IsFiniteSet(S) <=> \E n \in Nat : AtMost(S, n)
  BY AtMostFacts
<1>4. ASSUME NEW S, NEW T \in SUBSET S, IsFiniteSet(S) PROVE IsFiniteSet(T)
  BY Zenon, <1>3, <1>4, AtMostFacts
<1>5. ASSUME NEW S, NEW x, IsFiniteSet(S) PROVE IsFiniteSet(S \cup {x})
  <2>1. PICK n \in Nat : AtMost(S, n)
    BY Zenon, <1>3, <1>5
  <2>2. AtMost(S \cup {x}, n + 1)
    BY Zenon, <2>1, AtMostFacts
  <2> QED
    BY Zenon, <1>2, <1>3, <2>2
<1> QED
  BY Zenon, <1>1, <1>2, <1>3, <1>4, <1>5

\* Induction on the subsets of a finite set: what holds for a set whenever it
\* holds for the set without any one of its elements holds for all.
LEMMA SubsetInduction ==
  ASSUME NEW S, IsFiniteSet(S), NEW C,
         \A T \in SUBSET S : (\A x \in T : T \ {x} \in C) => T \in C
  PROVE  \A T \in SUBSET S : T \in C
<1> DEFINE N == {n \in Nat : \A T \in SUBSET S : AtMost(T, n) => T \in C}
<1>1. 0 \in N
  <2> SUFFICES ASSUME NEW T \in SUBSET S, AtMost(T, 0) PROVE T \in C
    OBVIOUS
  <2>1. T = {}
    BY AtMostFacts
  <2> QED
    BY <2>1
<1>2. ASSUME NEW n \in N PROVE n + 1 \in N
  <2> SUFFICES ASSUME NEW T \in SUBSET S, AtMost(T, n + 1) PROVE T \in C
    OBVIOUS
  <2>1. n \in Nat /\ \A U \in SUBSET S : AtMost(U, n) => U \in C
    OBVIOUS
  <2> HIDE DEF N
  <2>2. ASSUME NEW x \in T PROVE T \ {x} \in C
    <3>1. AtMost(T \ {x}, n)
      BY Zenon, <2>1, AtMostFacts
    <3> QED
      BY <2>1, <3>1
  <2> QED
    BY <2>2
<1>3. N = Nat
  <2>1. N \in SUBSET Nat
    OBVIOUS
  <2> HIDE DEF N
  <2> QED
    BY <1>1, <1>2, <2>1, SetInduction
<1>4. PICK n \in Nat : AtMost(S, n)
  BY Zenon, AtMostFacts
<1>5. n \in N
  BY <1>3
<1>6. \A T \in SUBSET S : AtMost(T, n)
  BY Zenon, <1>4, AtMostFacts
<1> QED
  BY <1>5, <1>6

-----------------------------------------------------------------------------
(* Sums *)

\* The sums of the module Functions and the cardinalities of FiniteSets are folds
\* with a choice of the next element; which one is chosen makes no difference.
LEMMA SumFacts ==
  /\ \A f : SumFunctionOnSet(f, {}) = 0
  /\ \A f, S : IsFiniteSet(S) /\ (\A x \in S : f[x] \in Int)
                 => /\ SumFunctionOnSet(f, S) \in Int
                    /\ \A y \in S : SumFunctionOnSet(f, S) = f[y] + SumFunctionOnSet(f, S \ {y})
  /\ \A f, S : (\A x \in S : f[x] = 1) => Cardinality(S) = SumFunctionOnSet(f, S)
\* The element that is taken next; and: g sums f over the members of L.
<1> DEFINE Chosen(s) == CHOOSE x \in s : TRUE
           SumsOn(f, L, g) ==
             g = [s \in L |-> IF s = {} THEN 0 ELSE f[Chosen(s)] + g[s \ {Chosen(s)}]]
<1> HIDE DEF Chosen, SumsOn
<1>1. \A s : s # {} => Chosen(s) \in s
  BY DEF Chosen
\* The definition of the sum, unfolded.
<1>2. ASSUME NEW f, NEW S
      PROVE  SumFunctionOnSet(f, S) = (CHOOSE g : SumsOn(f, SUBSET S, g))[S]
  BY DEF SumFunctionOnSet, FoldFunctionOnSet, MapThenFoldSet, SumsOn, Chosen
\* A finite set has a function that sums over its subsets.
<1>3. ASSUME NEW f, NEW S, IsFiniteSet(S)
      PROVE  \E g : SumsOn(f, SUBSET S, g)
  <2> DEFINE Layer(n) == {s \in SUBSET S : AtMost(s, n)}
             N == {n \in Nat : \E g : SumsOn(f, Layer(n), g)}
  <2>1. 0 \in N
    <3> DEFINE z == [s \in Layer(0) |-> 0]
    <3>1. \A s \in Layer(0) : s = {}
      BY AtMostFacts
    <3>2. SumsOn(f, Layer(0), z)
      BY <3>1 DEF SumsOn
    <3> QED
      BY Zenon, <3>2
  <2>2. ASSUME NEW n \in N PROVE n + 1 \in N
    <3>1. PICK g : SumsOn(f, Layer(n), g)
      OBVIOUS
    <3>2. \A s \in Layer(n) : s \in Layer(n + 1)
      BY Zenon, AtMostFacts
    <3>3. \A s \in Layer(n + 1) : s # {} => s \ {Chosen(s)} \in Layer(n)
      BY Zenon, AtMostFacts, <1>1
    <3> HIDE DEF Layer
    <3> DEFINE h == [s \in Layer(n + 1) |-> IF s = {} THEN 0 ELSE f[Chosen(s)] + g[s \ {Chosen(s)}]]
    <3>4. \A s \in Layer(n) : g[s] = IF s = {} THEN 0 ELSE f[Chosen(s)] + g[s \ {Chosen(s)}]
      BY Zenon, <3>1 DEF SumsOn
    <3>5. \A s \in Layer(n) : h[s] = g[s]
      BY <3>2, <3>4
    <3>6. \A s \in Layer(n + 1) : s # {} => h[s \ {Chosen(s)}] = g[s \ {Chosen(s)}]
      BY Zenon, <3>3, <3>5
    <3>7. h = [s \in Layer(n + 1) |-> IF s = {} THEN 0 ELSE f[Chosen(s)] + h[s \ {Chosen(s)}]]
      BY Zenon, <3>6
    <3>8. SumsOn(f, Layer(n + 1), h)
      BY Zenon, <3>7 DEF SumsOn
    <3> QED
      BY <3>8
  <2>3. N = Nat
    <3>1. N \in SUBSET Nat
      OBVIOUS
    <3> HIDE DEF N
    <3> QED
      BY <2>1, <2>2, <3>1, SetInduction
  <2>4. PICK n \in Nat : AtMost(S, n)
    BY Zenon, <1>3, AtMostFacts
  <2>5. Layer(n) = SUBSET S
    BY <2>4, AtMostFacts
  <2>6. n \in N
    BY Zenon, <2>3
  <2> QED
    BY Zenon, <2>5, <2>6
\* Two such functions agree where both are defined.
<1>4. ASSUME NEW f, NEW S, NEW T, IsFiniteSet(S), NEW g, NEW h, SumsOn(f, SUBSET S, g), SumsOn(f, SUBSET T, h),
             T \subseteq S
      PROVE  g[T] = h[T]
  <2> DEFINE C == {s \in SUBSET T : g[s] = h[s]}
  <2>1. ASSUME NEW s \in SUBSET T, \A x \in s : s \ {x} \in C PROVE s \in C
    <3>1. g[s] = IF s = {} THEN 0 ELSE f[Chosen(s)] + g[s \ {Chosen(s)}]
      BY Zenon, <1>4 DEF SumsOn
    <3>2. h[s] = IF s = {} THEN 0 ELSE f[Chosen(s)] + h[s \ {Chosen(s)}]
      BY Zenon, <1>4 DEF SumsOn
    <3> QED
      BY <2>1, <3>1, <3>2, <1>1
  <2>2. IsFiniteSet(T)
    BY Zenon, <1>4, FiniteFacts
  <2>3. \A s \in SUBSET T : s \in C
    <3> HIDE DEF C
    <3> QED
      BY Zenon, <2>1, <2>2, SubsetInduction
  <2> QED
    BY <2>3
\* The sum over a finite set is the recursion's.
<1>5. ASSUME NEW f, NEW S, IsFiniteSet(S)
      PROVE  SumFunctionOnSet(f, S) =
               IF S = {} THEN 0 ELSE f[Chosen(S)] + SumFunctionOnSet(f, S \ {Chosen(S)})
  <2>1. PICK g : g = (CHOOSE h : SumsOn(f, SUBSET S, h)) /\ SumsOn(f, SUBSET S, g)
    BY Zenon, <1>3, <1>5
  <2>2. SumFunctionOnSet(f, S) = g[S]
    BY <2>1, <1>2
  <2>3. g[S] = IF S = {} THEN 0 ELSE f[Chosen(S)] + g[S \ {Chosen(S)}]
    BY Zenon, <2>1 DEF SumsOn
  <2> DEFINE T == S \ {Chosen(S)}
  <2>4. IsFiniteSet(T) /\ T \subseteq S
    BY <1>5, FiniteFacts
  <2>5. PICK h : h = (CHOOSE k : SumsOn(f, SUBSET T, k)) /\ SumsOn(f, SUBSET T, h)
    BY Zenon, <2>4, <1>3
  <2>6. SumFunctionOnSet(f, T) = h[T]
    BY Zenon, <2>5, <1>2
  <2>7. g[T] = h[T]
    <3>1. SumsOn(f, SUBSET S, g) /\ SumsOn(f, SUBSET T, h)
      BY Zenon, <2>1, <2>5
    <3> HIDE DEF T
    <3> QED
      BY <1>4, <1>5, <2>4, <3>1
  <2> QED
    BY <2>2, <2>3, <2>6, <2>7
<1>6. \A f : SumFunctionOnSet(f, {}) = 0
  BY <1>5, FiniteFacts
\* A sum of integers is an integer.
<1>7. ASSUME NEW f, NEW S, IsFiniteSet(S), \A x \in S : f[x] \in Int
      PROVE  SumFunctionOnSet(f, S) \in Int
  <2> DEFINE C == {T \in SUBSET S : SumFunctionOnSet(f, T) \in Int}
  <2>1. ASSUME NEW T \in SUBSET S, \A x \in T : T \ {x} \in C PROVE T \in C
    <3>1. CASE T = {}
      BY <3>1, <1>6
    <3>2. CASE T # {}
      <4>1. IsFiniteSet(T) /\ Chosen(T) \in T
        BY <1>1, <1>7, <3>2, FiniteFacts
      <4>2. SumFunctionOnSet(f, T) = f[Chosen(T)] + SumFunctionOnSet(f, T \ {Chosen(T)})
        BY <3>2, <4>1, <1>5
      <4>3. f[Chosen(T)] \in Int /\ SumFunctionOnSet(f, T \ {Chosen(T)}) \in Int
        BY <1>7, <2>1, <4>1
      <4> QED
        BY <4>2, <4>3
    <3> QED
      BY <3>1, <3>2
  <2>2. \A T \in SUBSET S : T \in C
    <3> HIDE DEF C
    <3> QED
      BY Zenon, <1>7, <2>1, SubsetInduction
  <2> QED
    BY <2>2
\* Any element may be taken first.
<1>8. ASSUME NEW f, NEW S, IsFiniteSet(S), \A x \in S : f[x] \in Int, NEW y \in S
      PROVE  SumFunctionOnSet(f, S) = f[y] + SumFunctionOnSet(f, S \ {y})
  <2> DEFINE sum(T) == SumFunctionOnSet(f, T)
             C == {T \in SUBSET S : \A x \in T : sum(T) = f[x] + sum(T \ {x})}
  <2>1. ASSUME NEW T \in SUBSET S, \A x \in T : T \ {x} \in C PROVE T \in C
    <3> SUFFICES ASSUME NEW x \in T PROVE sum(T) = f[x] + sum(T \ {x})
      OBVIOUS
    <3> DEFINE c == Chosen(T)
    <3>1. IsFiniteSet(T) /\ c \in T
      BY <1>1, <1>8, FiniteFacts
    <3>2. sum(T) = f[c] + sum(T \ {c})
      BY <3>1, <1>5
    <3>3. CASE x = c
      BY <3>2, <3>3
    <3>4. CASE x # c
      <4>1. sum(T \ {c}) = f[x] + sum((T \ {c}) \ {x})
        BY <2>1, <3>1, <3>4
      <4>2. sum(T \ {x}) = f[c] + sum((T \ {x}) \ {c})
        BY <2>1, <3>1, <3>4
      <4>3. (T \ {x}) \ {c} = (T \ {c}) \ {x}
        OBVIOUS
      <4>4. IsFiniteSet((T \ {c}) \ {x})
        BY <3>1, FiniteFacts
      <4>5. PICK z \in Int : z = sum((T \ {c}) \ {x})
        BY <1>7, <1>8, <4>4
      <4>6. sum(T \ {c}) = f[x] + z /\ sum(T \ {x}) = f[c] + z
        BY Zenon, <4>1, <4>2, <4>3, <4>5
      <4>7. f[x] \in Int /\ f[c] \in Int
        BY <1>8, <3>1
      <4> HIDE DEF sum, c
      <4> QED
        BY <3>2, <4>6, <4>7
    <3> QED
      BY <3>3, <3>4
  <2>2. \A T \in SUBSET S : T \in C
    <3> HIDE DEF C
    <3> QED
      BY Zenon, <1>8, <2>1, SubsetInduction
  <2> QED
    BY <1>8, <2>2
\* A cardinality is a sum of ones.
<1>9. ASSUME NEW S, NEW f, \A x \in S : f[x] = 1
      PROVE  Cardinality(S) = SumFunctionOnSet(f, S)
  <2> DEFINE Counts(g) ==
               g = [T \in SUBSET S |-> IF T = {} THEN 0 ELSE 1 + g[T \ {CHOOSE x : x \in T}]]
  <2>1. Cardinality(S) = (CHOOSE g : Counts(g))[S]
    BY DEF Cardinality
  <2>2. ASSUME NEW g PROVE Counts(g) <=> SumsOn(f, SUBSET S, g)
    <3>1. ASSUME NEW T \in SUBSET S, T # {} PROVE f[Chosen(T)] = 1 /\ Chosen(T) = CHOOSE x : x \in T
      BY <1>9, <3>1 DEF Chosen
    <3> QED
      BY Zenon, <3>1 DEF SumsOn
  <2> HIDE DEF Counts
  <2>3. (CHOOSE g : Counts(g)) = (CHOOSE g : SumsOn(f, SUBSET S, g))
    BY Zenon, <2>2
  <2> QED
    BY <2>1, <2>3, <1>2
<1>10. ASSUME NEW f, NEW S, IsFiniteSet(S) /\ \A x \in S : f[x] \in Int
       PROVE  /\ SumFunctionOnSet(f, S) \in Int
              /\ \A y \in S : SumFunctionOnSet(f, S) = f[y] + SumFunctionOnSet(f, S \ {y})
  BY ZenonT(40), <1>7, <1>8, <1>10
<1> QED
  BY Zenon, <1>6, <1>9, <1>10

-----------------------------------------------------------------------------
(* What the sums are used for *)

\* Any element may be taken first.
LEMMA SumTake ==
  ASSUME NEW f, NEW S, IsFiniteSet(S), \A x \in S : f[x] \in Int, NEW y \in S
  PROVE  SumFunctionOnSet(f, S) = f[y] + SumFunctionOnSet(f, S \ {y})
BY SumFacts

\* The sum depends on the values on the set, and grows with them.
LEMMA SumMonotone ==
  ASSUME NEW f, NEW g, NEW S, IsFiniteSet(S),
         \A x \in S : f[x] \in Int /\ g[x] \in Int /\ f[x] <= g[x]
  PROVE  SumFunctionOnSet(f, S) <= SumFunctionOnSet(g, S)
<1> DEFINE C == {T \in SUBSET S : SumFunctionOnSet(f, T) <= SumFunctionOnSet(g, T)}
<1>1. ASSUME NEW T \in SUBSET S, \A x \in T : T \ {x} \in C PROVE T \in C
  <2>1. CASE T = {}
    BY <2>1, SumFacts
  <2>2. CASE T # {}
    <3>1. PICK x \in T : TRUE
      BY <2>2
    <3>2. IsFiniteSet(T) /\ IsFiniteSet(T \ {x})
      BY FiniteFacts
    <3>3. /\ SumFunctionOnSet(f, T) = f[x] + SumFunctionOnSet(f, T \ {x})
          /\ SumFunctionOnSet(g, T) = g[x] + SumFunctionOnSet(g, T \ {x})
      BY <3>2, SumTake
    <3>4. SumFunctionOnSet(f, T \ {x}) \in Int /\ SumFunctionOnSet(g, T \ {x}) \in Int
      BY <3>2, SumFacts
    <3>5. SumFunctionOnSet(f, T \ {x}) <= SumFunctionOnSet(g, T \ {x})
      BY <1>1
    <3> QED
      BY <3>3, <3>4, <3>5
  <2> QED
    BY <2>1, <2>2
<1>2. \A T \in SUBSET S : T \in C
  <2> HIDE DEF C
  <2> QED
    BY Zenon, <1>1, SubsetInduction
<1> QED
  BY <1>2

\* Functions that agree on a set have the same sum over it.
LEMMA SumSame ==
  ASSUME NEW f, NEW g, NEW S, IsFiniteSet(S), \A x \in S : f[x] \in Int /\ f[x] = g[x]
  PROVE  SumFunctionOnSet(f, S) = SumFunctionOnSet(g, S)
<1>1. SumFunctionOnSet(f, S) <= SumFunctionOnSet(g, S) /\ SumFunctionOnSet(g, S) <= SumFunctionOnSet(f, S)
  BY SumMonotone
<1>2. SumFunctionOnSet(f, S) \in Int /\ SumFunctionOnSet(g, S) \in Int
  BY SumFacts
<1> QED
  BY <1>1, <1>2

\* One value grows by d.
LEMMA SumChanged ==
  ASSUME NEW f, NEW g, NEW S, IsFiniteSet(S), NEW y \in S, NEW d \in Int,
         \A x \in S : f[x] \in Int, g[y] = f[y] + d, \A x \in S \ {y} : g[x] = f[x]
  PROVE  SumFunctionOnSet(g, S) = SumFunctionOnSet(f, S) + d
<1>1. \A x \in S : g[x] \in Int
  OBVIOUS
<1>2. IsFiniteSet(S \ {y})
  BY FiniteFacts
<1>3. SumFunctionOnSet(f, S \ {y}) = SumFunctionOnSet(g, S \ {y})
  BY <1>2, SumSame
<1>4. /\ SumFunctionOnSet(f, S) = f[y] + SumFunctionOnSet(f, S \ {y})
      /\ SumFunctionOnSet(g, S) = g[y] + SumFunctionOnSet(g, S \ {y})
  BY <1>1, SumTake
<1>5. SumFunctionOnSet(f, S \ {y}) \in Int
  BY <1>2, SumFacts
<1> QED
  BY <1>3, <1>4, <1>5

\* A sum of zeros is zero, and a sum of naturals a natural number.
LEMMA SumNat ==
  ASSUME NEW f, NEW S, IsFiniteSet(S), \A x \in S : f[x] \in Nat
  PROVE  SumFunctionOnSet(f, S) \in Nat
<1> DEFINE C == {T \in SUBSET S : SumFunctionOnSet(f, T) \in Nat}
<1>1. ASSUME NEW T \in SUBSET S, \A x \in T : T \ {x} \in C PROVE T \in C
  <2>1. CASE T = {}
    BY <2>1, SumFacts
  <2>2. CASE T # {}
    <3>1. PICK x \in T : TRUE
      BY <2>2
    <3>2. SumFunctionOnSet(f, T) = f[x] + SumFunctionOnSet(f, T \ {x})
      <4>1. IsFiniteSet(T) /\ \A y \in T : f[y] \in Int
        BY FiniteFacts
      <4> HIDE DEF C
      <4> QED
        BY <4>1, SumTake
    <3>3. f[x] \in Nat /\ SumFunctionOnSet(f, T \ {x}) \in Nat
      BY <1>1
    <3> QED
      BY <3>2, <3>3
  <2> QED
    BY <2>1, <2>2
<1>2. \A T \in SUBSET S : T \in C
  <2> HIDE DEF C
  <2> QED
    BY Zenon, <1>1, SubsetInduction
<1> QED
  BY <1>2

\* A sum of zeros.
LEMMA SumZero ==
  ASSUME NEW f, NEW S, IsFiniteSet(S), \A x \in S : f[x] = 0
  PROVE  SumFunctionOnSet(f, S) = 0
<1> DEFINE C == {T \in SUBSET S : SumFunctionOnSet(f, T) = 0}
<1>1. ASSUME NEW T \in SUBSET S, \A x \in T : T \ {x} \in C PROVE T \in C
  <2>1. CASE T = {}
    BY <2>1, SumFacts
  <2>2. CASE T # {}
    <3>1. PICK x \in T : TRUE
      BY <2>2
    <3>2. IsFiniteSet(T) /\ \A y \in T : f[y] \in Int
      BY FiniteFacts
    <3>3. SumFunctionOnSet(f, T) = f[x] + SumFunctionOnSet(f, T \ {x})
      BY <3>2, SumTake
    <3>4. SumFunctionOnSet(f, T \ {x}) = 0 /\ f[x] = 0
      BY <1>1
    <3> QED
      BY <3>3, <3>4
  <2> QED
    BY <2>1, <2>2
<1> HIDE DEF C
<1>2. \A T \in SUBSET S : T \in C
  BY Zenon, <1>1, SubsetInduction
<1>3. S \in C
  BY <1>2
<1> QED
  BY <1>3 DEF C

-----------------------------------------------------------------------------
(* Cardinalities *)

\* A finite set has a natural number of elements.
LEMMA CardType ==
  ASSUME NEW S, IsFiniteSet(S)
  PROVE  Cardinality(S) \in Nat
<1> DEFINE f == [x \in S |-> 1]
<1>1. \A x \in S : f[x] = 1 /\ f[x] \in Nat
  OBVIOUS
<1> HIDE DEF f
<1>2. Cardinality(S) = SumFunctionOnSet(f, S)
  BY Zenon, <1>1, SumFacts
<1> QED
  BY <1>1, <1>2, SumNat

\* An element more, and an element less.
LEMMA CardAdd ==
  ASSUME NEW S, NEW x, IsFiniteSet(S)
  PROVE  /\ IsFiniteSet(S \cup {x})
         /\ Cardinality(S \cup {x}) = IF x \in S THEN Cardinality(S) ELSE Cardinality(S) + 1
<1>1. IsFiniteSet(S \cup {x})
  BY Zenon, FiniteFacts
<1>2. CASE x \in S
  <2>1. S \cup {x} = S
    BY <1>2
  <2> QED
    BY <1>1, <1>2, <2>1
<1>3. CASE x \notin S
  <2> DEFINE U == S \cup {x}
             f == [y \in U |-> 1]
  <2>1. /\ \A y \in U : f[y] = 1 /\ f[y] \in Int
        /\ \A y \in S : f[y] = 1
        /\ U \ {x} = S /\ x \in U
    BY <1>3
  <2> HIDE DEF f, U
  <2>2. Cardinality(U) = SumFunctionOnSet(f, U) /\ Cardinality(S) = SumFunctionOnSet(f, S)
    BY <2>1, SumFacts
  <2>3. SumFunctionOnSet(f, U) = f[x] + SumFunctionOnSet(f, S)
    <3>1. IsFiniteSet(U)
      BY <1>1 DEF U
    <3> QED
      BY <2>1, <3>1, SumTake
  <2>4. Cardinality(S) \in Nat /\ f[x] = 1
    BY <2>1, CardType
  <2>5. Cardinality(U) = Cardinality(S) + 1
    BY <2>2, <2>3, <2>4
  <2> QED
    BY <1>1, <1>3, <2>5 DEF U
<1> QED
  BY <1>2, <1>3

\* Removing an element of a finite set.
LEMMA CardRemove ==
  ASSUME NEW S, NEW x, IsFiniteSet(S)
  PROVE  /\ IsFiniteSet(S \ {x})
         /\ Cardinality(S \ {x}) = IF x \in S THEN Cardinality(S) - 1 ELSE Cardinality(S)
<1>1. IsFiniteSet(S \ {x})
  BY FiniteFacts
<1>2. CASE x \in S
  <2>1. (S \ {x}) \cup {x} = S /\ x \notin S \ {x}
    BY <1>2
  <2>2. Cardinality(S) = Cardinality(S \ {x}) + 1
    BY <1>1, <2>1, CardAdd
  <2>3. Cardinality(S \ {x}) \in Nat
    BY <1>1, CardType
  <2> QED
    BY <1>1, <1>2, <2>2, <2>3
<1>3. CASE x \notin S
  <2>1. S \ {x} = S
    BY <1>3
  <2> QED
    BY <1>3, <2>1
<1> QED
  BY <1>2, <1>3

\* Only the empty set has no elements.
LEMMA CardEmpty ==
  /\ IsFiniteSet({})
  /\ Cardinality({}) = 0
  /\ \A S : IsFiniteSet(S) => (Cardinality(S) = 0 <=> S = {})
<1>1. IsFiniteSet({}) /\ Cardinality({}) = 0
  BY FiniteFacts, SumFacts
<1>2. ASSUME NEW S, IsFiniteSet(S), NEW x \in S PROVE Cardinality(S) # 0
  <2>1. Cardinality(S \ {x}) = Cardinality(S) - 1 /\ Cardinality(S \ {x}) \in Nat
    BY <1>2, CardRemove, CardType
  <2> QED
    BY <2>1
<1> QED
  BY <1>1, <1>2

\* A part has at most as many elements as the whole, and as many only if it is all.
LEMMA CardSubset ==
  ASSUME NEW S, IsFiniteSet(S), NEW T \in SUBSET S
  PROVE  /\ IsFiniteSet(T)
         /\ Cardinality(T) <= Cardinality(S)
         /\ Cardinality(S) = Cardinality(T) => S = T
<1> DEFINE Smaller(U) == Cardinality(T) <= Cardinality(U) /\ (Cardinality(U) = Cardinality(T) => U = T)
           C == {U \in SUBSET S : T \subseteq U => Smaller(U)}
<1>1. ASSUME NEW U \in SUBSET S, \A x \in U : U \ {x} \in C PROVE U \in C
  <2> SUFFICES ASSUME T \subseteq U PROVE Smaller(U)
    OBVIOUS
  <2>1. IsFiniteSet(U) /\ IsFiniteSet(T)
    BY FiniteFacts
  <2>2. Cardinality(T) \in Nat /\ Cardinality(U) \in Nat
    BY <2>1, CardType
  <2>3. CASE U = T
    BY <2>2, <2>3
  <2>4. CASE U # T
    <3>1. PICK x \in U : x \notin T
      BY <2>4
    <3>2. T \subseteq U \ {x}
      BY <3>1
    <3>3. Cardinality(T) <= Cardinality(U \ {x})
      BY <1>1, <3>2
    <3>4. Cardinality(U \ {x}) = Cardinality(U) - 1
      BY Zenon, <2>1, CardRemove
    <3> QED
      BY <2>2, <3>3, <3>4
  <2> QED
    BY <2>3, <2>4
<1>2. \A U \in SUBSET S : U \in C
  <2> HIDE DEF C
  <2> QED
    BY Zenon, <1>1, SubsetInduction
<1>3. Smaller(S)
  BY <1>2
<1>4. IsFiniteSet(T)
  BY FiniteFacts
<1> QED
  BY <1>3, <1>4

\* The numbers from 1 to n are n.
LEMMA CardInterval ==
  ASSUME NEW n \in Nat
  PROVE  IsFiniteSet(1..n) /\ Cardinality(1..n) = n
<1> DEFINE N == {k \in Nat : IsFiniteSet(1..k) /\ Cardinality(1..k) = k}
<1>1. 0 \in N
  <2>1. 1..0 = {}
    OBVIOUS
  <2> QED
    BY <2>1, CardEmpty
<1>2. ASSUME NEW k \in N PROVE k + 1 \in N
  <2>1. 1..(k + 1) = (1..k) \cup {k + 1} /\ k + 1 \notin 1..k
    OBVIOUS
  <2>2. k \in Nat /\ IsFiniteSet(1..k) /\ Cardinality(1..k) = k
    OBVIOUS
  <2>3. IsFiniteSet(1..(k + 1)) /\ Cardinality(1..(k + 1)) = k + 1
    <3> HIDE DEF N
    <3>1. IsFiniteSet((1..k) \cup {k + 1}) /\ Cardinality((1..k) \cup {k + 1}) = Cardinality(1..k) + 1
      BY Zenon, <2>1, <2>2, CardAdd
    <3> QED
      BY Zenon, <2>1, <2>2, <3>1
  <2> QED
    BY <2>2, <2>3
<1>3. N = Nat
  <2>1. N \in SUBSET Nat
    OBVIOUS
  <2> HIDE DEF N
  <2> QED
    BY <1>1, <1>2, <2>1, SetInduction
<1> QED
  BY <1>3
=============================================================================
