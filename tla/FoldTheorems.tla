---------------------------- MODULE FoldTheorems ----------------------------
(***************************************************************************)
(* Folding a step over a sequence, for every sequence: what holds before   *)
(* the first element and is kept by each, holds of the result.  Folding it *)
(* over a finite set: any element can be the last, if order does not       *)
(* matter.  The step and what it keeps are constants, so that a module     *)
(* about folds instances this one with its own.                            *)
(*                                                                         *)
(* Over(c, base, s) spells out FoldLeft(LAMBDA st, x : Step(c, st, x),     *)
(* base, s), whose definition expands to the same.                         *)
(***************************************************************************)
EXTENDS Integers, FiniteSets, FiniteSetTheorems, WellFoundedInduction, TLAPS

CONSTANTS
  Step(_, _, _),  \* the state after an element, in a context
  Keeps(_, _, _)  \* what is known of the state after so many elements

Largest(S) == CHOOSE x \in S : \A y \in S : x >= y

Over(c, base, s) ==
  LET iter[t \in SUBSET DOMAIN s] ==
        IF t = {} THEN base
        ELSE LET m == Largest(t) IN Step(c, iter[t \ {m}], s[m])
  IN  iter[DOMAIN s]

-----------------------------------------------------------------------------
(* Every set of natural numbers has a least, every bounded one a largest   *)
(* element.                                                                *)
LEMMA Least ==
  ASSUME NEW T \in SUBSET Nat, T # {}
  PROVE  \E x \in T : \A y \in T : x <= y
<1> DEFINE R == OpToRel(<, Nat)
<1>1. \A x, y \in Nat : <<y, x>> \in R <=> y < x
  BY DEF OpToRel
<1> HIDE DEF R
<1>2. IsWellFoundedOn(R, Nat)
  BY NatLessThanWellFounded DEF R
<1>3. PICK x \in T : \A y \in T : ~ (<<y, x>> \in R)
  BY <1>2, WFMin
<1>4. \A y \in T : ~(y < x)
  BY <1>1, <1>3
<1>5. QED
  BY <1>4

LEMMA LargestExists ==
  ASSUME NEW n \in Nat, NEW S \in SUBSET (1..n), S # {}
  PROVE  Largest(S) \in S /\ \A y \in S : Largest(S) >= y
<1> DEFINE T == {m \in Nat : \A y \in S : m >= y}
<1>1. n \in T
  OBVIOUS
<1>2. PICK m \in T : \A k \in T : m <= k
  <2> HIDE DEF T
  <2>1. T \in SUBSET Nat
    BY DEF T
  <2>2. QED
    BY <1>1, <2>1, Least
<1>3. m \in S
  <2> SUFFICES ASSUME m \notin S
               PROVE  FALSE
    OBVIOUS
  <2>1. m - 1 \in T
    <3>1. \A y \in S : m - 1 >= y
      BY <1>2
    <3>2. m >= 1
      <4>1. PICK y \in S : TRUE
        OBVIOUS
      <4>2. y \in 1..n /\ m >= y /\ m \in Nat
        BY <1>2
      <4>3. QED
        BY <4>2
    <3>3. QED
      BY <1>2, <3>1, <3>2
  <2>2. QED
    BY <1>2, <2>1
<1>4. QED
  BY <1>2, <1>3 DEF Largest

-----------------------------------------------------------------------------
(* A chain of steps, one for each element, from the base.                  *)
Chain(c, base, s, n, h) ==
  h = [k \in 0..n |-> IF k = 0 THEN base ELSE Step(c, h[k - 1], s[k])]

THEOREM ChainExists ==
  ASSUME NEW c, NEW base, NEW s, NEW n \in Nat
  PROVE  \E h : Chain(c, base, s, n, h)
<1> DEFINE T == {k \in Nat : ~\E h : Chain(c, base, s, k, h)}
<1> SUFFICES ASSUME T # {}
             PROVE  FALSE
  OBVIOUS
<1>1. PICK k \in T : \A j \in T : k <= j
  <2> HIDE DEF T
  <2>1. T \in SUBSET Nat
    BY DEF T
  <2>2. QED
    BY <2>1, Least
<1>2. k # 0
  <2>1. Chain(c, base, s, 0, [j \in 0..0 |-> base])
    BY DEF Chain
  <2>2. QED
    BY <1>1, <2>1
<1>3. PICK h : Chain(c, base, s, k - 1, h)
  BY <1>1, <1>2
<1> DEFINE g == [j \in 0..k |-> IF j = k THEN Step(c, h[k - 1], s[k]) ELSE h[j]]
<1>4. Chain(c, base, s, k, g)
  BY <1>1, <1>2, <1>3 DEF Chain
<1>5. QED
  BY <1>1, <1>4

(* What holds of the base and survives each step holds all along.          *)
THEOREM ChainKeeps ==
  ASSUME NEW c, NEW base, NEW s, NEW n \in Nat, NEW h, Chain(c, base, s, n, h),
         Keeps(c, base, 0),
         \A k \in 1..n : \A st : Keeps(c, st, k - 1) => Keeps(c, Step(c, st, s[k]), k)
  PROVE  \A k \in 0..n : Keeps(c, h[k], k)
<1> DEFINE T == {k \in 0..n : ~Keeps(c, h[k], k)}
<1> SUFFICES ASSUME T # {}
             PROVE  FALSE
  OBVIOUS
<1>1. PICK k \in T : \A j \in T : k <= j
  <2> HIDE DEF T
  <2>1. T \in SUBSET Nat
    BY DEF T
  <2>2. QED
    BY <2>1, Least
<1>2. k \in 1..n
  BY <1>1 DEF Chain
<1>3. Keeps(c, h[k - 1], k - 1) /\ h[k] = Step(c, h[k - 1], s[k])
  BY <1>1, <1>2 DEF Chain
<1>4. QED
  BY <1>1, <1>2, <1>3

-----------------------------------------------------------------------------
(* The recursion is well defined: it has a solution on the first k         *)
(* indices for every k.                                                    *)
Solves(f, c, base, s, k) ==
  f = [t \in SUBSET (1..k) |->
         IF t = {} THEN base
         ELSE LET m == Largest(t) IN Step(c, f[t \ {m}], s[m])]

LEMMA Solvable ==
  ASSUME NEW c, NEW base, NEW s, NEW n \in Nat
  PROVE  \E f : Solves(f, c, base, s, n)
<1> DEFINE T == {k \in Nat : ~\E f : Solves(f, c, base, s, k)}
<1> SUFFICES ASSUME T # {}
             PROVE  FALSE
  OBVIOUS
<1>1. PICK k \in T : \A j \in T : k <= j
  <2> HIDE DEF T
  <2>1. T \in SUBSET Nat
    BY DEF T
  <2>2. QED
    BY <2>1, Least
<1>2. k # 0
  <2>1. SUBSET (1..0) = {{}}
    OBVIOUS
  <2>2. Solves([t \in SUBSET (1..0) |-> base], c, base, s, 0)
    BY <2>1 DEF Solves
  <2>3. QED
    BY <1>1, <2>2
<1>3. PICK f : Solves(f, c, base, s, k - 1)
  BY <1>1, <1>2
<1> DEFINE g == [t \in SUBSET (1..k) |->
                   IF t = {} THEN base
                   ELSE LET m == Largest(t) IN Step(c, f[t \ {m}], s[m])]
<1>4. \A t \in SUBSET (1..k - 1) : g[t] = f[t]
  <2>1. SUBSET (1..k - 1) \subseteq SUBSET (1..k)
    BY <1>1, <1>2
  <2>2. QED
    BY <1>3, <2>1 DEF Solves
<1>5. \A t \in SUBSET (1..k) : t # {} => t \ {Largest(t)} \in SUBSET (1..k - 1)
  <2> SUFFICES ASSUME NEW t \in SUBSET (1..k), t # {}, NEW x \in t, x # Largest(t)
               PROVE  x \in 1..k - 1
    OBVIOUS
  <2>1. Largest(t) \in t /\ Largest(t) >= x
    <3>1. k \in Nat /\ x \in t
      BY <1>1
    <3>2. QED
      BY <3>1, LargestExists
  <2>2. Largest(t) \in 1..k /\ x \in 1..k /\ k \in Nat
    BY <1>1, <2>1
  <2>3. QED
    BY <2>1, <2>2
<1>6. Solves(g, c, base, s, k)
  BY <1>4, <1>5 DEF Solves
<1>7. QED
  BY <1>1, <1>6

(* A fold over n elements is a chain of n steps.                           *)
THEOREM FoldIsChain ==
  ASSUME NEW c, NEW base, NEW s, NEW n \in Nat, DOMAIN s = 1..n
  PROVE  \E h : Chain(c, base, s, n, h) /\ h[n] = Over(c, base, s)
<1> DEFINE iter == CHOOSE f : Solves(f, c, base, s, n)
<1>1. Solves(iter, c, base, s, n)
  BY Solvable
<1>2. Over(c, base, s) = iter[1..n]
  BY DEF Over, Solves
<1> HIDE DEF iter
<1>3. iter[{}] = base
  BY <1>1 DEF Solves
<1>4. ASSUME NEW k \in 1..n
      PROVE  iter[1..k] = Step(c, iter[1..k - 1], s[k])
  <2>1. 1..k \in SUBSET (1..n) /\ 1..k # {}
    <3>1. k \in Nat /\ k >= 1 /\ k <= n
      OBVIOUS
    <3>2. k \in 1..k /\ \A x \in 1..k : x \in 1..n
      BY <3>1
    <3>3. QED
      BY <3>2
  <2>2. Largest(1..k) = k
    <3>1. /\ Largest(1..k) \in 1..k /\ \A y \in 1..k : Largest(1..k) >= y
      BY <2>1, LargestExists
    <3>2. QED
      BY <3>1
  <2>3. (1..k) \ {k} = 1..k - 1
    OBVIOUS
  <2>4. QED
    BY <1>1, <2>1, <2>2, <2>3 DEF Solves
<1> DEFINE h == [k \in 0..n |-> iter[1..k]]
<1>5. Chain(c, base, s, n, h)
  <2>1. h[0] = base
    <3>1. 1..0 = {}
      OBVIOUS
    <3>2. QED
      BY <1>3, <3>1
  <2>2. \A k \in 1..n : h[k] = Step(c, h[k - 1], s[k])
    BY <1>4
  <2>3. h = [k \in 0..n |-> h[k]]
    OBVIOUS
  <2>4. \A k \in 0..n : k = 0 \/ k \in 1..n
    OBVIOUS
  <2> HIDE DEF h
  <2>5. \A k \in 0..n : h[k] = IF k = 0 THEN base ELSE Step(c, h[k - 1], s[k])
    BY <2>1, <2>2, <2>4
  <2>6. QED
    BY <2>3, <2>5 DEF Chain
<1>6. h[n] = Over(c, base, s)
  BY <1>2
<1>7. QED
  BY <1>5, <1>6

(* What holds of the base and survives each step holds of the fold.        *)
THEOREM FoldKeeps ==
  ASSUME NEW c, NEW base, NEW s, NEW n \in Nat, DOMAIN s = 1..n,
         Keeps(c, base, 0),
         \A k \in 1..n : \A st : Keeps(c, st, k - 1) => Keeps(c, Step(c, st, s[k]), k)
  PROVE  Keeps(c, Over(c, base, s), n)
<1>1. PICK h : Chain(c, base, s, n, h) /\ h[n] = Over(c, base, s)
  BY FoldIsChain
<1>2. \A k \in 0..n : Keeps(c, h[k], k)
  BY <1>1, ChainKeeps
<1>3. QED
  BY <1>1, <1>2
-----------------------------------------------------------------------------
(* Folding over a finite set.  OverSet(c, base, S) spells out              *)
(* FoldSet(LAMBDA x, st : Step(c, st, x), base, S).                        *)
Some(t) == CHOOSE x \in t : TRUE

OverSet(c, base, S) ==
  LET iter[t \in SUBSET S] ==
        IF t = {} THEN base ELSE LET x == Some(t) IN Step(c, iter[t \ {x}], x)
  IN  iter[S]

(* The recursion, and its part for sets of up to n elements.               *)
Unfolds(f, c, base, t) ==
  f[t] = IF t = {} THEN base ELSE Step(c, f[t \ {Some(t)}], Some(t))

UnfoldsIn(f, c, base, S) == \A t \in SUBSET S : Unfolds(f, c, base, t)

LEMMA SmallerSet ==
  ASSUME NEW t, IsFiniteSet(t), t # {}
  PROVE  /\ Some(t) \in t /\ IsFiniteSet(t \ {Some(t)})
         /\ Cardinality(t) \in Nat /\ Cardinality(t) >= 1
         /\ Cardinality(t \ {Some(t)}) = Cardinality(t) - 1
<1>1. Some(t) \in t
  BY DEF Some
<1>2. Cardinality(t) \in Nat /\ Cardinality(t) # 0
  BY FS_CardinalityType, FS_EmptySet
<1>3. QED
  BY <1>1, <1>2, FS_RemoveElement

LEMMA SetSolvable ==
  ASSUME NEW c, NEW base, NEW S, IsFiniteSet(S)
  PROVE  \E f : /\ f = [t \in SUBSET S |-> f[t]]
                /\ \A t \in SUBSET S : Unfolds(f, c, base, t)
<1> DEFINE Upto(f, n) == \A t \in SUBSET S : Cardinality(t) <= n => Unfolds(f, c, base, t)
           T == {n \in Nat : ~\E f : f = [t \in SUBSET S |-> f[t]] /\ Upto(f, n)}
<1>0. \A t \in SUBSET S : IsFiniteSet(t)
  BY FS_Subset
<1>1. T = {}
  <2> SUFFICES ASSUME T # {}
               PROVE  FALSE
    OBVIOUS
  <2>1. PICK n \in T : \A j \in T : n <= j
    <3> HIDE DEF T
    <3>1. T \in SUBSET Nat
      BY DEF T
    <3>2. QED
      BY <3>1, Least
  <2>2. n # 0
    <3> DEFINE f == [t \in SUBSET S |-> base]
    <3>1. \A t \in SUBSET S : Cardinality(t) <= 0 => t = {}
      <4> SUFFICES ASSUME NEW t \in SUBSET S, Cardinality(t) <= 0, t # {}
                   PROVE  FALSE
        OBVIOUS
      <4>1. Cardinality(t) \in Nat /\ Cardinality(t) >= 1
        BY <1>0, SmallerSet
      <4>2. QED
        BY <4>1
    <3>2. Upto(f, 0)
      BY <3>1 DEF Unfolds
    <3>3. f = [t \in SUBSET S |-> f[t]]
      OBVIOUS
    <3>4. QED
      BY <2>1, <3>2, <3>3
  <2>3. PICK f : Upto(f, n - 1)
    <3>1. n - 1 \in Nat /\ n \in Nat /\ ~(n <= n - 1)
      BY <2>1, <2>2
    <3>2. n - 1 \notin T
      <4> HIDE DEF T
      <4>1. QED
        BY <2>1, <3>1
    <3> HIDE DEF Upto
    <3>3. QED
      BY <3>1, <3>2
  <2> DEFINE g == [t \in SUBSET S |->
                     IF t = {} THEN base ELSE Step(c, f[t \ {Some(t)}], Some(t))]
  <2>4. \A t \in SUBSET S : Cardinality(t) <= n - 1 => g[t] = f[t]
    BY <2>3 DEF Unfolds
  <2>5. Upto(g, n)
    <3> SUFFICES ASSUME NEW t \in SUBSET S, Cardinality(t) <= n
                 PROVE  Unfolds(g, c, base, t)
      OBVIOUS
    <3>1. CASE t = {}
      BY <3>1 DEF Unfolds
    <3>2. CASE t # {}
      <4> DEFINE r == t \ {Some(t)}
      <4>1. r \in SUBSET S
        OBVIOUS
      <4>2. Cardinality(r) <= n - 1
        <5>1. Cardinality(t) \in Nat /\ Cardinality(r) = Cardinality(t) - 1 /\ n \in Nat
          BY <1>0, <2>1, <3>2, SmallerSet
        <5>2. QED
          BY <5>1
      <4> HIDE DEF r
      <4>3. g[r] = f[r]
        BY <2>4, <4>1, <4>2
      <4>4. g[t] = Step(c, f[r], Some(t))
        BY <3>2 DEF r
      <4>5. QED
        BY <3>2, <4>3, <4>4 DEF Unfolds, r
    <3>3. QED
      BY <3>1, <3>2
  <2>6. g = [t \in SUBSET S |-> g[t]]
    OBVIOUS
  <2>7. QED
    BY <2>1, <2>5, <2>6
<1>2. Cardinality(S) \in Nat /\ \A t \in SUBSET S : Cardinality(t) <= Cardinality(S)
  BY FS_CardinalityType, FS_Subset
<1>3. PICK f : f = [t \in SUBSET S |-> f[t]] /\ Upto(f, Cardinality(S))
  BY <1>1, <1>2
<1>4. QED
  BY <1>2, <1>3

(* What a fold over a part of a set returns does not depend on the whole.  *)
LEMMA SetFoldIsOne ==
  ASSUME NEW c, NEW base, NEW S, IsFiniteSet(S), NEW f, NEW g,
         UnfoldsIn(f, c, base, S), UnfoldsIn(g, c, base, S)
  PROVE  f[S] = g[S]
<1> USE DEF UnfoldsIn
<1> DEFINE T == {n \in Nat : \E t \in SUBSET S : Cardinality(t) = n /\ f[t] # g[t]}
<1>0. \A t \in SUBSET S : IsFiniteSet(t) /\ Cardinality(t) \in Nat
  BY FS_Subset, FS_CardinalityType
<1> SUFFICES ASSUME f[S] # g[S]
             PROVE  FALSE
  OBVIOUS
<1>1. Cardinality(S) \in T
  BY <1>0
<1>2. PICK n \in T : \A j \in T : n <= j
  <2> HIDE DEF T
  <2>1. T \in SUBSET Nat
    BY DEF T
  <2>2. QED
    BY <1>1, <2>1, Least
<1>3. PICK t \in SUBSET S : Cardinality(t) = n /\ f[t] # g[t]
  BY <1>2
<1>4. t # {}
  BY <1>3 DEF Unfolds
<1> DEFINE r == t \ {Some(t)}
<1>5. r \in SUBSET S /\ Cardinality(r) \in Nat /\ Cardinality(r) = n - 1 /\ n \in Nat
  BY <1>0, <1>3, <1>4, SmallerSet
<1>6. f[r] = g[r]
  <2> SUFFICES ASSUME f[r] # g[r]
               PROVE  FALSE
    OBVIOUS
  <2> HIDE DEF r
  <2>1. n - 1 \in T
    BY <1>5
  <2> HIDE DEF T
  <2>2. n <= n - 1
    BY <1>2, <2>1
  <2>3. QED
    BY <1>5, <2>2
<1>7. f[t] = Step(c, f[r], Some(t)) /\ g[t] = Step(c, g[r], Some(t))
  BY <1>4 DEF Unfolds
<1>8. QED
  BY <1>3, <1>6, <1>7

LEMMA SetFoldTakes ==
  ASSUME NEW c, NEW base, NEW S, IsFiniteSet(S)
  PROVE  OverSet(c, base, S) =
           IF S = {} THEN base ELSE Step(c, OverSet(c, base, S \ {Some(S)}), Some(S))
<1> DEFINE Iter(t, f) == f = [u \in SUBSET t |->
                                IF u = {} THEN base ELSE Step(c, f[u \ {Some(u)}], Some(u))]
<1>1. ASSUME NEW t, IsFiniteSet(t)
      PROVE  \E f : /\ \A u \in SUBSET t : Unfolds(f, c, base, u)
                    /\ OverSet(c, base, t) = f[t]
  <2>1. \E f : Iter(t, f)
    <3>1. PICK f : /\ f = [u \in SUBSET t |-> f[u]]
                   /\ \A u \in SUBSET t : Unfolds(f, c, base, u)
      BY <1>1, SetSolvable
    <3>2. QED
      BY <3>1 DEF Unfolds
  <2> DEFINE f == CHOOSE f : Iter(t, f)
  <2>2. Iter(t, f)
    BY <2>1
  <2>3. OverSet(c, base, t) = f[t]
    BY DEF OverSet
  <2> HIDE DEF f
  <2>4. \A u \in SUBSET t : Unfolds(f, c, base, u)
    BY <2>2 DEF Unfolds
  <2>5. QED
    BY <2>3, <2>4
<1>2. PICK f : /\ \A u \in SUBSET S : Unfolds(f, c, base, u)
               /\ OverSet(c, base, S) = f[S]
  BY <1>1
<1>3. CASE S = {}
  BY <1>2, <1>3 DEF Unfolds
<1>4. CASE S # {}
  <2> DEFINE r == S \ {Some(S)}
  <2>1. IsFiniteSet(r) /\ SUBSET r \subseteq SUBSET S
    BY <1>4, SmallerSet
  <2>2. f[S] = Step(c, f[r], Some(S))
    BY <1>2, <1>4 DEF Unfolds
  <2> HIDE DEF r
  <2>3. PICK g : /\ \A u \in SUBSET r : Unfolds(g, c, base, u)
                 /\ OverSet(c, base, r) = g[r]
    BY <1>1, <2>1
  <2>4. f[r] = g[r]
    <3>1. UnfoldsIn(f, c, base, r)
      BY <1>2, <2>1 DEF UnfoldsIn
    <3>2. UnfoldsIn(g, c, base, r)
      BY <2>3 DEF UnfoldsIn
    <3>3. QED
      BY <2>1, <3>1, <3>2, SetFoldIsOne
  <2>5. QED
    BY <1>2, <1>4, <2>2, <2>3, <2>4 DEF r
<1>5. QED
  BY <1>3, <1>4

(* When the steps commute, the elements can be taken in any order.         *)
Commutes(c, D, X) ==
  \A st \in D : \A x, y \in X :
    /\ Step(c, st, x) \in D
    /\ Step(c, Step(c, st, x), y) = Step(c, Step(c, st, y), x)

THEOREM SetFoldAdds ==
  ASSUME NEW c, NEW D, NEW base \in D, NEW X, Commutes(c, D, X),
         NEW S \in SUBSET X, IsFiniteSet(S)
  PROVE  /\ OverSet(c, base, S) \in D
         /\ \A y \in S : OverSet(c, base, S) = Step(c, OverSet(c, base, S \ {y}), y)
<1> DEFINE Good(t) ==
             /\ OverSet(c, base, t) \in D
             /\ \A y \in t : OverSet(c, base, t) = Step(c, OverSet(c, base, t \ {y}), y)
           T == {n \in Nat : \E t \in SUBSET S : Cardinality(t) = n /\ ~Good(t)}
<1>0. \A t \in SUBSET S : IsFiniteSet(t) /\ Cardinality(t) \in Nat
  BY FS_Subset, FS_CardinalityType
<1> SUFFICES ASSUME ~Good(S)
             PROVE  FALSE
  OBVIOUS
<1> HIDE DEF Good
<1>1. Cardinality(S) \in T
  BY <1>0
<1>2. PICK n \in T : \A j \in T : n <= j
  <2> HIDE DEF T
  <2>1. T \in SUBSET Nat
    BY DEF T
  <2>2. QED
    BY <1>1, <2>1, Least
<1>3. PICK t \in SUBSET S : Cardinality(t) = n /\ ~Good(t)
  BY <1>2
<1>4. ASSUME NEW x \in t
      PROVE  Good(t \ {x})
  <2> SUFFICES ASSUME ~Good(t \ {x})
               PROVE  FALSE
    OBVIOUS
  <2>1. Cardinality(t \ {x}) = n - 1 /\ t \ {x} \in SUBSET S /\ n - 1 \in Nat /\ n \in Nat
    <3>1. Cardinality(t \ {x}) = n - 1 /\ t \ {x} \in SUBSET S /\ n \in Nat
      BY <1>0, <1>3, FS_RemoveElement
    <3>2. QED
      BY <1>0, <3>1
  <2>2. n - 1 \in T
    BY <2>1
  <2> HIDE DEF T
  <2>3. n <= n - 1
    BY <1>2, <2>2
  <2>4. QED
    BY <2>1, <2>3
<1>5. CASE t = {}
  <2>1. OverSet(c, base, t) = base
    BY <1>0, <1>5, SetFoldTakes
  <2>2. QED
    BY <1>3, <1>5, <2>1 DEF Good
<1>6. CASE t # {}
  <2> DEFINE x == Some(t)
             r == t \ {x}
  <2>1. x \in t
    BY <1>6 DEF Some
  <2>2. OverSet(c, base, t) = Step(c, OverSet(c, base, r), x)
    BY <1>0, <1>6, SetFoldTakes
  <2> HIDE DEF x
  <2>3. Good(r) /\ x \in X
    BY <1>4, <2>1
  <2>4. OverSet(c, base, t) \in D
    BY <2>2, <2>3 DEF Good, Commutes
  <2>5. ASSUME NEW y \in t, y # x
        PROVE  OverSet(c, base, t) = Step(c, OverSet(c, base, t \ {y}), y)
    <3> DEFINE u == t \ {x, y}
               v == OverSet(c, base, u)
    <3>1. u = r \ {y} /\ u = (t \ {y}) \ {x} /\ y \in r /\ x \in t \ {y} /\ y \in X
      BY <2>1, <2>5
    <3>2. OverSet(c, base, r) = Step(c, v, y)
      BY <2>3, <3>1 DEF Good
    <3>3. OverSet(c, base, t \ {y}) = Step(c, v, x)
      BY <1>4, <2>5, <3>1 DEF Good
    <3>4. v \in D
      <4>1. Good(u)
        <5> SUFFICES ASSUME ~Good(u)
                     PROVE  FALSE
          OBVIOUS
        <5>1. u \in SUBSET S /\ IsFiniteSet(u) /\ Cardinality(u) \in Nat
          BY <1>0
        <5>2. Cardinality(u) < n /\ n \in Nat
          <6>1. Cardinality(r) < Cardinality(t) /\ Cardinality(u) <= Cardinality(r)
            <7>1. IsFiniteSet(t) /\ IsFiniteSet(r) /\ Cardinality(t) \in Nat
              BY <1>0
            <7>2. Cardinality(r) = Cardinality(t) - 1
              BY <2>1, <7>1, FS_RemoveElement
            <7>3. Cardinality(u) <= Cardinality(r) /\ Cardinality(r) \in Nat
              BY <3>1, <7>1, FS_Subset, FS_CardinalityType
            <7>4. QED
              BY <7>1, <7>2, <7>3
          <6>2. Cardinality(r) \in Nat /\ Cardinality(u) \in Nat /\ Cardinality(t) \in Nat
            BY <1>0
          <6>3. QED
            BY <1>3, <6>1, <6>2
        <5>3. Cardinality(u) \in T
          BY <5>1
        <5> HIDE DEF T, u
        <5>4. n <= Cardinality(u)
          BY <1>2, <5>3
        <5>5. QED
          BY <5>1, <5>2, <5>4
      <4>2. QED
        BY <4>1 DEF Good
    <3> HIDE DEF v, u, r
    <3>5. QED
      BY <2>2, <2>3, <3>1, <3>2, <3>3, <3>4 DEF Commutes
  <2>6. QED
    BY <1>3, <2>2, <2>4, <2>5 DEF Good
<1>7. QED
  BY <1>5, <1>6

COROLLARY LastTaken ==
  ASSUME NEW c, NEW D, NEW base \in D, NEW X, Commutes(c, D, X),
         NEW S \in SUBSET X, IsFiniteSet(S), NEW y \in S
  PROVE  OverSet(c, base, S) = Step(c, OverSet(c, base, S \ {y}), y)
BY SetFoldAdds
=============================================================================
