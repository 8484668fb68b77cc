------------------------------ MODULE CommonLemmas -----------------------------
(***************************************************************************)
(* What the proofs share: induction, the folds the models are written      *)
(* with, the sum over a finite set, and powers of two.                     *)
(*                                                                         *)
(* A fold of the community modules is a CHOSEN recursive function on the   *)
(* subsets of a finite set, which is the function it is meant to be once   *)
(* there is one that satisfies the equation.  That there is, and what a    *)
(* fold is by induction, follows from proper inclusion being well-founded  *)
(* on finite sets.  The induction rules are stated with a set, where those *)
(* of the library have an operator.                                        *)
(***************************************************************************)
EXTENDS Integers, Sequences, FiniteSets, FiniteSetsExt, SequencesExt, FiniteSetTheorems,
        WellFoundedInduction, TLAPS

\* Induction over a finite set, from a set's one-smaller subsets to the set.
LEMMA FiniteSetInduction ==
    ASSUME NEW S, IsFiniteSet(S), NEW P,
           \A T \in SUBSET S : (\A x \in T : T \ {x} \in P) => T \in P
    PROVE  S \in P
<1> DEFINE Bad == (SUBSET S) \ P
<1> SUFFICES ASSUME Bad # {} PROVE FALSE
  OBVIOUS
<1>1. IsWellFoundedOn(StrictSubsetOrdering(S), SUBSET S)
  <2> HIDE DEF Bad
  <2> QED BY FS_StrictSubsetOrderingWellFounded, FS_FiniteSubsetsOfFinite
<1>2. PICK T \in Bad : \A U \in Bad : ~ (<<U, T>> \in StrictSubsetOrdering(S))
  <2>1. Bad \subseteq SUBSET S
    OBVIOUS
  <2> HIDE DEF Bad
  <2> QED BY <1>1, <2>1, WFMin
<1>3. ASSUME NEW x \in T PROVE T \ {x} \in P
  <2>1. <<T \ {x}, T>> \in StrictSubsetOrdering(S)
    BY DEF StrictSubsetOrdering
  <2> QED BY <1>2, <2>1
<1> QED
  BY <1>3

\* Induction over the naturals.
LEMMA NatSetInduction ==
    ASSUME NEW P, 0 \in P, \A n \in Nat : n \in P => n + 1 \in P
    PROVE  Nat \subseteq P
<1> SUFFICES ASSUME NEW n \in Nat PROVE n \in P
  OBVIOUS
<1> DEFINE Initial == {T \in SUBSET (1 .. n) : \A k \in 0 .. n : T = 1 .. k => k \in P}
<1>1. \A T \in SUBSET (1 .. n) : (\A x \in T : T \ {x} \in Initial) => T \in Initial
  <2> SUFFICES ASSUME NEW k \in 0 .. n, \A x \in 1 .. k : (1 .. k) \ {x} \in Initial
               PROVE  k \in P
    OBVIOUS
  <2>1. CASE k = 0
    BY <2>1
  <2>2. CASE k # 0
    <3>1. (1 .. k) \ {k} = 1 .. (k - 1) /\ k - 1 \in 0 .. n /\ k \in 1 .. k
      BY <2>2
    <3>2. k - 1 \in P
      BY <3>1
    <3> QED BY <2>2, <3>2
  <2> QED BY <2>1, <2>2
<1>2. 1 .. n \in Initial
  <2>1. IsFiniteSet(1 .. n)
    BY FS_Interval
  <2> HIDE DEF Initial
  <2> QED BY <1>1, <2>1, FiniteSetInduction
<1> QED
  BY <1>2

-----------------------------------------------------------------------------
(* The functions that folds are.                                           *)

\* What a fold over S needs: a member of each set that is not empty, and a step.
Picks(pick, S) == /\ pick \in [(SUBSET S) \ {{}} -> S]
                  /\ \A T \in (SUBSET S) \ {{}} : pick[T] \in T

Steps(V, S) == [V \X S -> V]

\* h folds each subset of S: from what is left without the member picked, by a step with it.
Folds(h, S, base, pick, step) ==
    \A T \in SUBSET S : h[T] = IF T = {} THEN base ELSE step[<<h[T \ {pick[T]}], pick[T]>>]

LEMMA FoldExists ==
    ASSUME NEW S, IsFiniteSet(S), NEW V, NEW base \in V,
           NEW pick, Picks(pick, S), NEW step \in Steps(V, S)
    PROVE  \E h \in [SUBSET S -> V] : Folds(h, S, base, pick, step)
<1> USE DEF Picks, Steps
<1> DEFINE Rest(T) == T \ {pick[T]}
           Value(h, T) == IF T = {} THEN base ELSE step[<<h[Rest(T)], pick[T]>>]
           FoldsTo(h, n) == \A T \in SUBSET S : Cardinality(T) <= n => h[T] = Value(h, T)
           Good == {n \in Nat : \E h \in [SUBSET S -> V] : FoldsTo(h, n)}
<1>1. \A T \in SUBSET S : /\ IsFiniteSet(T) /\ Cardinality(T) \in Nat
                          /\ Cardinality(T) <= Cardinality(S)
                          /\ Cardinality(T) = 0 <=> T = {}
  BY FS_Subset, FS_CardinalityType, FS_EmptySet
<1>2. \A T \in SUBSET S : T # {} => /\ Rest(T) \in SUBSET S /\ pick[T] \in S
                                    /\ Cardinality(Rest(T)) = Cardinality(T) - 1
  BY <1>1, FS_RemoveElement
<1>3. 0 \in Good
  <2> DEFINE h == [T \in SUBSET S |-> base]
  <2>1. h \in [SUBSET S -> V] /\ FoldsTo(h, 0)
    BY <1>1
  <2> QED BY <2>1
<1>4. \A n \in Nat : n \in Good => n + 1 \in Good
  <2> TAKE n \in Nat
  <2> HAVE n \in Good
  <2>1. PICK h \in [SUBSET S -> V] : FoldsTo(h, n)
    OBVIOUS
  <2> HIDE DEF Rest
  <2> DEFINE k == [T \in SUBSET S |-> IF Cardinality(T) = n + 1 THEN Value(h, T) ELSE h[T]]
  <2>2. \A T \in SUBSET S : Value(h, T) \in V
    BY <1>2
  <2>3. k \in [SUBSET S -> V]
    BY <2>2
  <2>4. ASSUME NEW T \in SUBSET S, Cardinality(T) <= n + 1 PROVE k[T] = Value(k, T)
    <3>1. T # {} => k[Rest(T)] = h[Rest(T)]
      BY <1>1, <1>2, <2>4
    <3>2. Value(k, T) = Value(h, T)
      BY <3>1
    <3>3. k[T] = Value(h, T)
      BY <1>1, <2>1, <2>4
    <3> QED BY <3>2, <3>3
  <2>5. FoldsTo(k, n + 1)
    BY <2>4
  <2> HIDE DEF k, FoldsTo
  <2> QED BY <2>3, <2>5
<1>5. Cardinality(S) \in Good
  <2> HIDE DEF Good
  <2>1. Cardinality(S) \in Nat
    BY FS_CardinalityType
  <2> QED BY <1>3, <1>4, <2>1, NatSetInduction
<1>6. PICK h \in [SUBSET S -> V] : FoldsTo(h, Cardinality(S))
  BY <1>5
<1> QED
  BY <1>1, <1>6 DEF Folds

\* The largest of the first k positions, which FoldLeft takes first.
LEMMA LargestOfPrefix ==
    ASSUME NEW k \in Nat \ {0}
    PROVE  Max(1 .. k) = k /\ (1 .. k) \ {k} = 1 .. (k - 1)
<1>1. k \in 1 .. k /\ \A y \in 1 .. k : k >= y
  OBVIOUS
<1>2. \A x \in 1 .. k : (\A y \in 1 .. k : x >= y) => x = k
  BY <1>1
<1> QED
  BY <1>1, <1>2 DEF Max

\* Max and Min are defined on the finite sets of numbers that are not empty.
LEMMA MaxMember ==
    ASSUME NEW S \in SUBSET Int, IsFiniteSet(S), S # {}
    PROVE  Max(S) \in S /\ \A y \in S : y <= Max(S)
<1> DEFINE P == {U \in SUBSET S : U # {} => \E x \in U : \A y \in U : x >= y}
<1>1. ASSUME NEW U \in SUBSET S, \A x \in U : U \ {x} \in P PROVE U \in P
  <2> SUFFICES ASSUME NEW x \in U PROVE \E m \in U : \A y \in U : m >= y
    OBVIOUS
  <2>1. CASE U = {x}
    BY <2>1
  <2>2. CASE U # {x}
    <3>1. PICK m \in U \ {x} : \A y \in U \ {x} : m >= y
      BY <1>1, <2>2
    <3>2. m \in Int /\ x \in Int /\ \A y \in U : y \in Int
      OBVIOUS
    <3>3. CASE x <= m
      BY <3>1, <3>3
    <3>4. CASE m <= x
      <4>1. \A y \in U \ {x} : x >= y
        BY <3>1, <3>2, <3>4
      <4> QED BY <3>2, <4>1
    <3> QED BY <3>2, <3>3, <3>4
  <2> QED BY <2>1, <2>2
<1>2. S \in P
  <2>1. \A U \in SUBSET S : (\A x \in U : U \ {x} \in P) => U \in P
    BY <1>1
  <2> HIDE DEF P
  <2> QED BY <2>1, FiniteSetInduction
<1>3. \E x \in S : \A y \in S : x >= y
  BY <1>2
<1>4. Max(S) \in S /\ \A y \in S : Max(S) >= y
  BY <1>3 DEF Max
<1>5. \A x, y \in S : x >= y => y <= x
  OBVIOUS
<1> QED
  BY <1>4, <1>5

\* The least of a set of numbers.
LEMMA MinMember ==
    ASSUME NEW S \in SUBSET Int, IsFiniteSet(S), S # {}
    PROVE  Min(S) \in S /\ \A y \in S : Min(S) <= y
<1> DEFINE P == {U \in SUBSET S : U # {} => \E x \in U : \A y \in U : x <= y}
<1>1. ASSUME NEW U \in SUBSET S, \A x \in U : U \ {x} \in P PROVE U \in P
  <2> SUFFICES ASSUME NEW x \in U PROVE \E m \in U : \A y \in U : m <= y
    OBVIOUS
  <2>1. CASE U = {x}
    BY <2>1
  <2>2. CASE U # {x}
    <3>1. PICK m \in U \ {x} : \A y \in U \ {x} : m <= y
      BY <1>1, <2>2
    <3>2. m \in Int /\ x \in Int /\ \A y \in U : y \in Int
      OBVIOUS
    <3>3. CASE m <= x
      BY <3>1, <3>3
    <3>4. CASE x <= m
      <4>1. \A y \in U \ {x} : x <= y
        BY <3>1, <3>2, <3>4
      <4> QED BY <3>2, <4>1
    <3> QED BY <3>2, <3>3, <3>4
  <2> QED BY <2>1, <2>2
<1>2. S \in P
  <2>1. \A U \in SUBSET S : (\A x \in U : U \ {x} \in P) => U \in P
    BY <1>1
  <2> HIDE DEF P
  <2> QED BY <2>1, FiniteSetInduction
<1>3. \E x \in S : \A y \in S : x <= y
  BY <1>2
<1> QED
  BY <1>3 DEF Min

\* And so on the sets of positions.
LEMMA LargestPosition ==
    ASSUME NEW n \in Nat, NEW T \in (SUBSET (1 .. n)) \ {{}}
    PROVE  Max(T) \in T
<1>1. IsFiniteSet(T)
  <2>1. IsFiniteSet(1 .. n)
    BY FS_Interval
  <2> QED BY <2>1, FS_Subset
<1>2. T \in SUBSET Int /\ T # {}
  OBVIOUS
<1> QED
  BY <1>1, <1>2, MaxMember

\* The function behind a left fold over n elements, and what it is on the prefixes.
LeftPick(n) == [T \in (SUBSET (1 .. n)) \ {{}} |-> Max(T)]

LeftFolds(h, n, base, step) == Folds(h, 1 .. n, base, LeftPick(n), step)

LEMMA LeftFoldExists ==
    ASSUME NEW n \in Nat, NEW V, NEW base \in V, NEW step \in Steps(V, 1 .. n)
    PROVE  \E h \in [SUBSET (1 .. n) -> V] : LeftFolds(h, n, base, step)
<1>1. Picks(LeftPick(n), 1 .. n)
  BY LargestPosition DEF Picks, LeftPick
<1>2. IsFiniteSet(1 .. n)
  BY FS_Interval
<1> QED
  BY <1>1, <1>2, FoldExists DEF LeftFolds

-----------------------------------------------------------------------------
(* Sums over a finite set.                                                 *)

SumOf(f, S) == MapThenSumSet(LAMBDA x : f[x], S)

Some(T) == CHOOSE x \in T : TRUE

\* h is the sum of f over each subset of S.
SumsUp(h, f, S) == h = [T \in SUBSET S |-> IF T = {} THEN 0 ELSE f[Some(T)] + h[T \ {Some(T)}]]

LEMMA SumEquation ==
    ASSUME NEW S, IsFiniteSet(S), NEW f \in [S -> Int]
    PROVE  \E h \in [SUBSET S -> Int] : SumsUp(h, f, S) /\ SumOf(f, S) = h[S]
<1> DEFINE pick == [T \in (SUBSET S) \ {{}} |-> Some(T)]
           step == [p \in Int \X S |-> f[p[2]] + p[1]]
<1>1. \A T \in (SUBSET S) \ {{}} : Some(T) \in T
  BY DEF Some
<1>2. PICK h \in [SUBSET S -> Int] : Folds(h, S, 0, pick, step)
  <2>1. Picks(pick, S)
    BY <1>1 DEF Picks
  <2>2. step \in Steps(Int, S)
    BY DEF Steps
  <2>3. 0 \in Int
    OBVIOUS
  <2> HIDE DEF pick, step
  <2> QED BY <2>1, <2>2, <2>3, FoldExists, Zenon
<1>3. \A T \in SUBSET S : h[T] = IF T = {} THEN 0 ELSE f[Some(T)] + h[T \ {Some(T)}]
  BY <1>1, <1>2 DEF Folds
<1>4. SumsUp(h, f, S)
  BY <1>3 DEF SumsUp
<1>5. SumOf(f, S) = (CHOOSE g : SumsUp(g, f, S))[S]
  BY DEF SumOf, MapThenSumSet, MapThenFoldSet, SumsUp, Some
<1>6. SumsUp((CHOOSE g : SumsUp(g, f, S)), f, S)
  BY <1>4
<1>7. ASSUME NEW g, SumsUp(g, f, S) PROVE g \in [SUBSET S -> Int]
  <2> DEFINE P == {T \in SUBSET S : g[T] \in Int}
  <2>1. \A T \in SUBSET S : (\A x \in T : T \ {x} \in P) => T \in P
    <3> SUFFICES ASSUME NEW T \in SUBSET S, \A x \in T : g[T \ {x}] \in Int PROVE g[T] \in Int
      OBVIOUS
    <3>1. g[T] = IF T = {} THEN 0 ELSE f[Some(T)] + g[T \ {Some(T)}]
      BY <1>7 DEF SumsUp
    <3> QED BY <1>1, <3>1
  <2>2. ASSUME NEW T \in SUBSET S PROVE T \in P
    <3>1. IsFiniteSet(T) /\ \A U \in SUBSET T : (\A x \in U : U \ {x} \in P) => U \in P
      BY <2>1, FS_Subset
    <3> HIDE DEF P
    <3> QED BY <3>1, FiniteSetInduction
  <2> QED BY <1>7, <2>2 DEF SumsUp
<1> QED
  BY <1>5, <1>6, <1>7

LEMMA SumTyped ==
    ASSUME NEW S, IsFiniteSet(S), NEW f \in [S -> Int]
    PROVE  SumOf(f, S) \in Int
<1>1. PICK h \in [SUBSET S -> Int] : SumsUp(h, f, S) /\ SumOf(f, S) = h[S]
  BY SumEquation
<1> QED
  BY <1>1

\* A sum asks only for the terms of its members.
LEMMA SumSame ==
    ASSUME NEW S, NEW f, NEW g, \A x \in S : f[x] = g[x]
    PROVE  SumOf(f, S) = SumOf(g, S)
<1>1. SumOf(f, S) = (CHOOSE h : SumsUp(h, f, S))[S] /\ SumOf(g, S) = (CHOOSE h : SumsUp(h, g, S))[S]
  BY DEF SumOf, MapThenSumSet, MapThenFoldSet, SumsUp, Some
<1>2. \A T \in SUBSET S : T # {} => f[Some(T)] = g[Some(T)]
  BY DEF Some
<1>3. ASSUME NEW h PROVE SumsUp(h, f, S) <=> SumsUp(h, g, S)
  <2>1. [T \in SUBSET S |-> IF T = {} THEN 0 ELSE f[Some(T)] + h[T \ {Some(T)}]]
          = [T \in SUBSET S |-> IF T = {} THEN 0 ELSE g[Some(T)] + h[T \ {Some(T)}]]
    BY <1>2
  <2> QED BY <2>1 DEF SumsUp
<1> QED
  BY <1>1, <1>3

\* Any term may be taken first.
LEMMA SumSplit ==
    ASSUME NEW S, IsFiniteSet(S), NEW f, \A y \in S : f[y] \in Int, NEW x \in S
    PROVE  /\ SumOf(f, S) = f[x] + SumOf(f, S \ {x})
           /\ SumOf(f, S) \in Int /\ SumOf(f, S \ {x}) \in Int
<1> DEFINE R == S \ {x}
           g == [y \in S |-> f[y]]
           e == [y \in R |-> f[y]]
<1>1. g \in [S -> Int] /\ e \in [R -> Int] /\ IsFiniteSet(R) /\ R \subseteq S
  BY FS_RemoveElement
<1>2. SumOf(f, S) = SumOf(g, S) /\ SumOf(f, R) = SumOf(e, R)
  <2>1. (\A y \in S : f[y] = g[y]) /\ (\A y \in R : f[y] = e[y])
    OBVIOUS
  <2> HIDE DEF g, e, R
  <2> QED BY <2>1, SumSame
<1>3. \A y \in S : g[y] = f[y] /\ (y # x => e[y] = f[y])
  OBVIOUS
<1> HIDE DEF g, e
<1>4. PICK h \in [SUBSET S -> Int] : SumsUp(h, g, S) /\ SumOf(g, S) = h[S]
  BY <1>1, SumEquation
<1>5. PICK k \in [SUBSET R -> Int] : SumsUp(k, e, R) /\ SumOf(e, R) = k[R]
  <2> HIDE DEF R
  <2> QED BY <1>1, SumEquation
<1>6. \A T \in SUBSET S : h[T] = IF T = {} THEN 0 ELSE f[Some(T)] + h[T \ {Some(T)}]
  <2>1. \A T \in SUBSET S : h[T] = IF T = {} THEN 0 ELSE g[Some(T)] + h[T \ {Some(T)}]
    BY <1>4 DEF SumsUp
  <2>2. \A T \in SUBSET S : T # {} => Some(T) \in S
    BY DEF Some
  <2> QED BY <1>3, <2>1, <2>2
<1>7. \A T \in SUBSET R : k[T] = IF T = {} THEN 0 ELSE f[Some(T)] + k[T \ {Some(T)}]
  <2>1. \A T \in SUBSET R : k[T] = IF T = {} THEN 0 ELSE e[Some(T)] + k[T \ {Some(T)}]
    BY <1>5 DEF SumsUp
  <2>2. \A T \in SUBSET R : T # {} => Some(T) \in S /\ Some(T) # x
    BY DEF Some
  <2> QED BY <1>3, <2>1, <2>2
<1> DEFINE P == {T \in SUBSET R : h[T] = k[T]}
           Q == {T \in SUBSET S : \A z \in T : h[T] = f[z] + h[T \ {z}]}
<1>8. ASSUME NEW T \in SUBSET R, \A y \in T : T \ {y} \in P PROVE T \in P
  <2>1. T # {} => Some(T) \in T
    BY DEF Some
  <2> QED BY <1>6, <1>7, <1>8, <2>1
<1>9. R \in P
  <2>1. \A T \in SUBSET R : (\A y \in T : T \ {y} \in P) => T \in P
    BY <1>8
  <2> HIDE DEF P, R
  <2> QED BY <1>1, <2>1, FiniteSetInduction
<1>10. ASSUME NEW T \in SUBSET S, \A y \in T : T \ {y} \in Q PROVE T \in Q
  <2> SUFFICES ASSUME NEW z \in T PROVE h[T] = f[z] + h[T \ {z}]
    OBVIOUS
  <2> DEFINE y == Some(T)
  <2>1. y \in T
    BY DEF Some
  <2> HIDE DEF y
  <2>2. h[T] = f[y] + h[T \ {y}]
    BY <1>6 DEF y
  <2>3. CASE y = z
    BY <2>2, <2>3
  <2>4. CASE y # z
    <3>1. z \in T \ {y} /\ y \in T \ {z} /\ (T \ {y}) \ {z} = (T \ {z}) \ {y}
      BY <2>1, <2>4
    <3>2. h[T \ {y}] = f[z] + h[(T \ {y}) \ {z}]
      BY <1>10, <2>1, <3>1
    <3>3. h[T \ {z}] = f[y] + h[(T \ {z}) \ {y}]
      BY <1>10, <3>1
    <3>4. f[y] \in Int /\ f[z] \in Int /\ h[(T \ {z}) \ {y}] \in Int
      BY <1>4, <2>1
    <3>5. \A a, b, c \in Int : a + (b + c) = b + (a + c)
      OBVIOUS
    <3>6. h[T] = f[y] + (f[z] + h[(T \ {z}) \ {y}])
      BY <2>2, <3>1, <3>2
    <3> HIDE DEF P, Q, R
    <3>7. f[y] + (f[z] + h[(T \ {z}) \ {y}]) = f[z] + (f[y] + h[(T \ {z}) \ {y}])
      BY <3>4, <3>5
    <3> QED BY <3>3, <3>6, <3>7
  <2> QED BY <2>3, <2>4
<1>11. S \in Q
  <2>1. \A T \in SUBSET S : (\A y \in T : T \ {y} \in Q) => T \in Q
    BY <1>10
  <2> HIDE DEF Q
  <2> QED BY <2>1, FiniteSetInduction
<1>12. h[S] = f[x] + h[R] /\ h[R] = k[R] /\ h[S] \in Int /\ h[R] \in Int
  BY <1>9, <1>11
<1> QED
  BY <1>2, <1>4, <1>5, <1>12

\* Terms none of which is larger do not sum to more.
LEMMA SumMonotone ==
    ASSUME NEW S, IsFiniteSet(S), NEW f \in [S -> Int], NEW g \in [S -> Int],
           \A x \in S : f[x] <= g[x]
    PROVE  SumOf(f, S) <= SumOf(g, S)
<1>1. PICK h \in [SUBSET S -> Int] : SumsUp(h, f, S) /\ SumOf(f, S) = h[S]
  BY SumEquation
<1>2. PICK k \in [SUBSET S -> Int] : SumsUp(k, g, S) /\ SumOf(g, S) = k[S]
  BY SumEquation
<1> DEFINE P == {T \in SUBSET S : h[T] <= k[T]}
<1>3. ASSUME NEW T \in SUBSET S, \A x \in T : T \ {x} \in P PROVE T \in P
  <2>1. CASE T = {}
    BY <1>1, <1>2, <2>1 DEF SumsUp
  <2>2. CASE T # {}
    <3>1. Some(T) \in T
      BY <2>2 DEF Some
    <3>2. h[T] = f[Some(T)] + h[T \ {Some(T)}] /\ k[T] = g[Some(T)] + k[T \ {Some(T)}]
      BY <1>1, <1>2, <2>2 DEF SumsUp
    <3>3. h[T \ {Some(T)}] <= k[T \ {Some(T)}] /\ f[Some(T)] <= g[Some(T)] /\ T \ {Some(T)} \in SUBSET S
      BY <1>3, <3>1
    <3>4. /\ h[T \ {Some(T)}] \in Int /\ k[T \ {Some(T)}] \in Int
          /\ f[Some(T)] \in Int /\ g[Some(T)] \in Int
      BY <3>1, <3>3
    <3> QED BY <3>2, <3>3, <3>4
  <2> QED BY <2>1, <2>2
<1>4. S \in P
  <2>1. \A T \in SUBSET S : (\A x \in T : T \ {x} \in P) => T \in P
    BY <1>3
  <2> HIDE DEF P
  <2> QED BY <2>1, FiniteSetInduction
<1> QED
  BY <1>1, <1>2, <1>4

\* The sum over no member, and a sum over a prefix of the naturals by its last term.
LEMMA SumOfNone ==
    ASSUME NEW f
    PROVE  SumOf(f, {}) = 0
<1> DEFINE g == [x \in {} |-> 0]
<1>1. SumOf(f, {}) = SumOf(g, {})
  BY SumSame
<1>2. IsFiniteSet({}) /\ g \in [{} -> Int]
  BY FS_EmptySet
<1> HIDE DEF g
<1>3. PICK h \in [SUBSET {} -> Int] : SumsUp(h, g, {}) /\ SumOf(g, {}) = h[{}]
  BY <1>2, SumEquation
<1> QED
  BY <1>1, <1>3 DEF SumsUp

LEMMA SumOfPrefix ==
    ASSUME NEW f \in [Nat -> Int], NEW k \in Nat
    PROVE  /\ SumOf(f, 0 .. k) = f[k] + SumOf(f, 0 .. k - 1)
           /\ SumOf(f, 0 .. k - 1) \in Int
<1>1. IsFiniteSet(0 .. k)
  BY FS_Interval
<1>2. k \in 0 .. k /\ (0 .. k) \ {k} = 0 .. k - 1 /\ \A y \in 0 .. k : f[y] \in Int
  OBVIOUS
<1>3. /\ SumOf(f, 0 .. k) = f[k] + SumOf(f, (0 .. k) \ {k})
      /\ SumOf(f, (0 .. k) \ {k}) \in Int
  BY <1>1, <1>2, SumSplit
<1> QED
  BY <1>2, <1>3

\* A sum whose terms from the second on are multiples of the terms of another.
Shifts(f, g, c) == \A b \in Nat : f[b + 1] = c * g[b]

LEMMA SumShift ==
    ASSUME NEW f \in [Nat -> Int], NEW g \in [Nat -> Int], NEW c \in Int,
           Shifts(f, g, c), NEW k \in Nat
    PROVE  SumOf(f, 0 .. k) = f[0] + c * SumOf(g, 0 .. k - 1)
<1> DEFINE P == {n \in Nat : SumOf(f, 0 .. n) = f[0] + c * SumOf(g, 0 .. n - 1)}
<1>1. 0 \in P
  <2>1. 0 .. 0 - 1 = {}
    OBVIOUS
  <2>2. SumOf(f, 0 .. 0 - 1) = 0 /\ SumOf(g, 0 .. 0 - 1) = 0
    BY <2>1, SumOfNone
  <2>4. 0 \in Nat
    OBVIOUS
  <2>5. SumOf(f, 0 .. 0) = f[0] + SumOf(f, 0 .. 0 - 1)
    BY <2>4, SumOfPrefix
  <2>3. c * 0 = 0
    OBVIOUS
  <2> QED BY <2>2, <2>3, <2>5
<1>2. ASSUME NEW n \in Nat, n \in P PROVE n + 1 \in P
  <2>1. /\ SumOf(f, 0 .. n + 1) = f[n + 1] + SumOf(f, 0 .. (n + 1) - 1)
        /\ SumOf(g, 0 .. n) = g[n] + SumOf(g, 0 .. n - 1)
        /\ SumOf(g, 0 .. n - 1) \in Int
    <3>1. n + 1 \in Nat
      OBVIOUS
    <3> QED BY <3>1, SumOfPrefix, Zenon
  <2>2. (n + 1) - 1 = n
    OBVIOUS
  <2>3. SumOf(f, 0 .. n + 1) = c * g[n] + (f[0] + c * SumOf(g, 0 .. n - 1))
    BY <1>2, <2>1, <2>2 DEF Shifts
  <2>4. \A p, q, r \in Int : c * p + (r + c * q) = r + c * (p + q)
    OBVIOUS
  <2>5. f[0] \in Int /\ g[n] \in Int
    OBVIOUS
  <2>6. SumOf(f, 0 .. n + 1) = f[0] + c * (g[n] + SumOf(g, 0 .. n - 1))
    BY <2>1, <2>3, <2>4, <2>5
  <2> QED BY <2>1, <2>2, <2>6
<1> QED
  <2> HIDE DEF P
  <2>1. Nat \subseteq P
    BY <1>1, <1>2, NatSetInduction
  <2> QED BY <2>1 DEF P

-----------------------------------------------------------------------------
(* Powers of two: the number of subsets.                                   *)

LEMMA PowerOfNone == 2 ^ 0 = 1
<1>1. IsFiniteSet({}) /\ Cardinality({}) = 0
  BY FS_EmptySet
<1>2. Cardinality(SUBSET {}) = 2 ^ 0
  BY <1>1, FS_SUBSET
<1>3. SUBSET {} = {{}}
  OBVIOUS
<1>4. Cardinality({{}}) = 1
  BY FS_Singleton
<1> QED
  BY <1>2, <1>3, <1>4

LEMMA PowerOfTwo ==
    ASSUME NEW n \in Nat
    PROVE  2 ^ n \in Nat \ {0} /\ 2 ^ (n + 1) = 2 * 2 ^ n
<1> DEFINE A == SUBSET (1 .. n)
           B == (SUBSET (1 .. (n + 1))) \ A
           with == [T \in A |-> T \cup {n + 1}]
<1>1. /\ IsFiniteSet(1 .. n) /\ Cardinality(1 .. n) = n
      /\ IsFiniteSet(1 .. (n + 1)) /\ Cardinality(1 .. (n + 1)) = n + 1
  BY FS_Interval
<1>2. IsFiniteSet(A) /\ Cardinality(A) = 2 ^ n
  BY <1>1, FS_SUBSET
<1>3. Cardinality(A) \in Nat \ {0}
  BY <1>2, FS_CardinalityType, FS_EmptySet
<1>4. with \in Bijection(A, B)
  <2>1. \A T \in A : n + 1 \notin T /\ T \cup {n + 1} \in B
    OBVIOUS
  <2>2. \A T, U \in A : with[T] = with[U] => T = U
    BY <2>1
  <2>3. \A U \in B : U \ {n + 1} \in A /\ n + 1 \in U /\ with[U \ {n + 1}] = U
    OBVIOUS
  <2>4. with \in [A -> B]
    BY <2>1
  <2> HIDE DEF A, B, with
  <2> QED BY <2>2, <2>3, <2>4 DEF Bijection, Injection, Surjection, IsInjective
<1>5. IsFiniteSet(B) /\ Cardinality(B) = Cardinality(A)
  <2> HIDE DEF A, B, with
  <2> QED BY <1>2, <1>4, FS_Bijection DEF ExistsBijection
<1>6. Cardinality(A \cup B) = Cardinality(A) + Cardinality(B) - Cardinality(A \cap B)
  <2> HIDE DEF A, B
  <2> QED BY <1>2, <1>5, FS_Union
<1>7. A \cup B = SUBSET (1 .. (n + 1)) /\ A \cap B = {}
  OBVIOUS
<1>8. Cardinality(SUBSET (1 .. (n + 1))) = 2 ^ (n + 1)
  BY <1>1, FS_SUBSET
<1>9. Cardinality(A \cap B) = 0
  BY <1>7, FS_EmptySet
<1>10. Cardinality(A \cup B) = 2 ^ (n + 1)
  BY <1>7, <1>8
<1> HIDE DEF A, B
<1>11. 2 ^ (n + 1) = Cardinality(A) + Cardinality(A)
  BY <1>3, <1>5, <1>6, <1>9, <1>10
<1> QED
  BY <1>2, <1>3, <1>11

\* Dividing twice.
LEMMA DivideTwice ==
    ASSUME NEW n \in Nat, NEW a \in Nat \ {0}, NEW b \in Nat \ {0}
    PROVE  (n \div a) \div b = n \div (a * b)
<1> DEFINE q == n \div a
           r == n % a
           p == q \div b
           s == q % b
<1>1. n = a * q + r /\ q \in Nat /\ r \in 0 .. a - 1
  OBVIOUS
<1>2. q = b * p + s /\ p \in Nat /\ s \in 0 .. b - 1
  BY <1>1
<1> HIDE DEF q, r, p, s
<1>3. a * q = a * (b * p) + a * s
  BY <1>1, <1>2
<1>4. a * (b * p) = (a * b) * p
  BY <1>2
<1>5. n = (a * b) * p + (a * s + r)
  BY <1>1, <1>2, <1>3, <1>4
<1>6. a * s >= 0 /\ a * s <= a * b - a
  BY <1>2
<1>7. a * b \in Nat \ {0} /\ a * s + r \in 0 .. a * b - 1
  BY <1>1, <1>2, <1>6
<1>8. n \div (a * b) = p
  BY <1>2, <1>5, <1>7
<1> QED
  BY <1>8 DEF p, q
=============================================================================
