-------------------------- MODULE HttpServerProofs --------------------------
(***************************************************************************)
(* The HTTP server for any number of requests and clients, every limit and *)
(* every division of the window: in a second through which the process     *)
(* lives the limiter lets through at most twice the limit, and nothing but *)
(* parsing ends the process.                                               *)
(***************************************************************************)
EXTENDS HttpServer, FiniteSetTheorems, TLAPS

-----------------------------------------------------------------------------
(* What a client had let through in the last n instants, as a sum that can *)
(* be taken apart.                                                         *)
AddAt(r, n, i) == r[i] + n
Natural(r, n, k) == n \in Nat

Sums == INSTANCE FoldTheorems WITH Step <- AddAt, Keeps <- Natural

Sum(r, n) == Sums!OverSet(r, 0, 0..n - 1)

Counts == [0..Ticks - 1 -> Nat]

LEMMA ThroughIsSum == \A c \in Clients, n \in Nat : Through(c, n) = Sum(recent[c], n)
BY DEF Through, MapThenSumSet, MapThenFoldSet, Sum, Sums!OverSet, Sums!Some, AddAt

(* One instant more.                                                       *)
LEMMA SumGrows ==
  ASSUME NEW r \in Counts, NEW n \in 0..Ticks
  PROVE  /\ Sum(r, n) \in Nat
         /\ n = 0 => Sum(r, n) = 0
         /\ n > 0 => Sum(r, n) = r[n - 1] + Sum(r, n - 1)
<1> DEFINE X == 0..Ticks - 1
           D == Nat
           z == 0
           S == 0..n - 1
<1>1. Ticks \in Nat \ {0}
  BY ServerAssumption
<1>2. S \in SUBSET X /\ IsFiniteSet(S)
  BY <1>1, FS_Interval
<1>3. Sums!IsFiniteSet(S)
  BY <1>2 DEF IsFiniteSet, Sums!IsFiniteSet
<1>4. \A i \in X : r[i] \in Nat
  BY DEF Counts
<1>5. \A k \in Nat : \A i \in X : AddAt(r, k, i) \in Nat
  BY <1>4 DEF AddAt
<1>6. ASSUME NEW k \in Nat, NEW i \in X, NEW j \in X
      PROVE  AddAt(r, AddAt(r, k, i), j) = AddAt(r, AddAt(r, k, j), i)
  <2> DEFINE u == r[i]
             v == r[j]
  <2>1. u \in Nat /\ v \in Nat
    BY <1>4
  <2> HIDE DEF u, v
  <2>2. v + (u + k) = u + (v + k)
    BY <2>1
  <2>3. QED
    BY <2>2 DEF AddAt, u, v
<1>7. z \in D /\ Sums!Commutes(r, D, X)
  BY <1>5, <1>6 DEF Sums!Commutes
<1>8. Sum(r, n) = Sums!OverSet(r, z, S)
  BY DEF Sum
<1> HIDE DEF D, z, X, S
<1>9. Sums!OverSet(r, z, S) \in D
  BY <1>2, <1>3, <1>7, Sums!SetFoldAdds
<1>10. ASSUME NEW y \in S
       PROVE  Sums!OverSet(r, z, S) = AddAt(r, Sums!OverSet(r, z, S \ {y}), y)
  BY <1>2, <1>3, <1>7, <1>10, Sums!LastTaken
<1>11. S = {} => Sums!OverSet(r, z, S) = z
  BY <1>3, Sums!SetFoldTakes
<1>12. ASSUME n > 0
       PROVE  Sum(r, n) = r[n - 1] + Sum(r, n - 1)
  <2>1. n - 1 \in S /\ S \ {n - 1} = 0..(n - 1) - 1
    BY <1>1, <1>12 DEF S
  <2>2. Sums!OverSet(r, z, S) = AddAt(r, Sums!OverSet(r, z, S \ {n - 1}), n - 1)
    BY <1>10, <2>1
  <2>3. Sum(r, n - 1) = Sums!OverSet(r, z, S \ {n - 1})
    BY <2>1 DEF Sum, z
  <2>4. QED
    BY <1>8, <2>2, <2>3 DEF AddAt
<1>13. n = 0 => S = {}
  BY DEF S
<1>14. QED
  BY <1>8, <1>9, <1>11, <1>12, <1>13 DEF D, z

(* What holds at 0, and after every number at which it holds, holds of all.*)
LEMMA Counting ==
  ASSUME NEW T, 0 \in T, \A k \in Nat : k \in T => k + 1 \in T
  PROVE  Nat \subseteq T
<1> DEFINE U == {k \in Nat : k \notin T}
<1> SUFFICES ASSUME U # {}
             PROVE  FALSE
  OBVIOUS
<1>1. U \in SUBSET Nat
  OBVIOUS
<1> HIDE DEF U
<1>2. PICK k \in U : \A j \in U : k <= j
  BY <1>1, Sums!Least
<1>3. k \in Nat /\ k \notin T /\ k # 0
  BY <1>2 DEF U
<1>4. k - 1 \in Nat /\ k - 1 \notin U
  BY <1>1, <1>2, <1>3
<1>5. QED
  BY <1>3, <1>4 DEF U

(* Over a longer time, no less got through.                                *)
LEMMA SumMonotone ==
  ASSUME NEW r \in Counts, NEW m \in 0..Ticks, NEW n \in 0..Ticks, m <= n
  PROVE  Sum(r, m) <= Sum(r, n)
<1>1. Ticks \in Nat \ {0}
  BY ServerAssumption
<1> DEFINE T == {d \in Nat : m + d <= Ticks => Sum(r, m) <= Sum(r, m + d)}
<1>2. 0 \in T
  BY <1>1, SumGrows
<1>3. ASSUME NEW d \in Nat, d \in T
      PROVE  d + 1 \in T
  <2> SUFFICES ASSUME m + (d + 1) <= Ticks
               PROVE  Sum(r, m) <= Sum(r, m + (d + 1))
    OBVIOUS
  <2> DEFINE k == m + d
  <2>1. k \in 0..Ticks /\ k + 1 \in 0..Ticks /\ k + 1 = m + (d + 1) /\ k + 1 > 0
        /\ (k + 1) - 1 = k /\ k \in 0..Ticks - 1
    BY <1>1
  <2>2. Sum(r, m) <= Sum(r, k)
    BY <1>1, <1>3, <2>1
  <2> HIDE DEF k
  <2>3. /\ Sum(r, k) \in Nat /\ Sum(r, k + 1) \in Nat /\ Sum(r, m) \in Nat
        /\ Sum(r, k + 1) = r[k] + Sum(r, k)
    BY <2>1, SumGrows
  <2>4. r[k] \in Nat
    BY <2>1 DEF Counts
  <2>5. Sum(r, m) <= Sum(r, k + 1)
    BY <2>2, <2>3, <2>4
  <2>6. QED
    BY <2>1, <2>5
<1> HIDE DEF T
<1>4. Nat \subseteq T
  BY <1>2, <1>3, Counting
<1>5. n - m \in Nat /\ m + (n - m) = n /\ n <= Ticks
  OBVIOUS
<1>6. QED
  BY <1>4, <1>5 DEF T

(* An instant later, everything is one instant older.                      *)
LEMMA SumShifts ==
  ASSUME NEW r \in Counts, NEW n \in 1..Ticks
  PROVE  Shift(r) \in Counts /\ Sum(Shift(r), n) = Sum(r, n - 1)
<1>1. Ticks \in Nat \ {0}
  BY ServerAssumption
<1>2. Shift(r) \in Counts
  BY <1>1 DEF Shift, Counts
<1> DEFINE T == {d \in Nat : d + 1 <= Ticks => Sum(Shift(r), d + 1) = Sum(r, d)}
<1>3. 0 \in T
  <2>1. 0 \in 0..Ticks /\ 0 + 1 \in 0..Ticks /\ (0 + 1) - 1 = 0 /\ 0 + 1 > 0
    BY <1>1
  <2>2. Sum(Shift(r), 0 + 1) = Shift(r)[0] + Sum(Shift(r), 0)
    BY <1>2, <2>1, SumGrows
  <2>3. Shift(r)[0] = 0 /\ Sum(Shift(r), 0) = 0 /\ Sum(r, 0) = 0
    BY <1>1, <1>2, <2>1, SumGrows DEF Shift
  <2>4. QED
    BY <2>2, <2>3
<1>4. ASSUME NEW d \in Nat, d \in T
      PROVE  d + 1 \in T
  <2> SUFFICES ASSUME (d + 1) + 1 <= Ticks
               PROVE  Sum(Shift(r), (d + 1) + 1) = Sum(r, d + 1)
    OBVIOUS
  <2>1. /\ d + 1 \in 0..Ticks /\ (d + 1) + 1 \in 0..Ticks /\ ((d + 1) + 1) - 1 = d + 1
        /\ d + 1 > 0 /\ (d + 1) + 1 > 0 /\ (d + 1) - 1 = d /\ d + 1 <= Ticks
        /\ d + 1 \in 0..Ticks - 1
    BY <1>1
  <2>2. Sum(Shift(r), d + 1) = Sum(r, d)
    BY <1>4, <2>1
  <2>3. Sum(Shift(r), (d + 1) + 1) = Shift(r)[d + 1] + Sum(Shift(r), d + 1)
    BY <1>2, <2>1, SumGrows
  <2>4. Sum(r, d + 1) = r[d] + Sum(r, d)
    BY <2>1, SumGrows
  <2>5. Shift(r)[d + 1] = r[d]
    BY <2>1 DEF Shift
  <2>6. QED
    BY <2>2, <2>3, <2>4, <2>5
<1> HIDE DEF T
<1>5. Nat \subseteq T
  BY <1>3, <1>4, Counting
<1>6. n - 1 \in Nat /\ (n - 1) + 1 = n /\ n <= Ticks
  OBVIOUS
<1>7. QED
  BY <1>2, <1>5, <1>6 DEF T

(* A request let through now counts in every stretch of time up to now.    *)
Hit(r) == [r EXCEPT ![0] = @ + 1]

LEMMA SumHit ==
  ASSUME NEW r \in Counts, NEW n \in 1..Ticks
  PROVE  Hit(r) \in Counts /\ Sum(Hit(r), n) = Sum(r, n) + 1
<1>1. Ticks \in Nat \ {0}
  BY ServerAssumption
<1>2. Hit(r) \in Counts
  BY <1>1 DEF Hit, Counts
<1> DEFINE T == {d \in Nat : d + 1 <= Ticks => Sum(Hit(r), d + 1) = Sum(r, d + 1) + 1}
<1>3. 0 \in T
  <2>1. 0 \in 0..Ticks /\ 0 + 1 \in 0..Ticks /\ (0 + 1) - 1 = 0 /\ 0 + 1 > 0 /\ 0 \in 0..Ticks - 1
    BY <1>1
  <2>2. Sum(Hit(r), 0 + 1) = Hit(r)[0] + Sum(Hit(r), 0) /\ Sum(r, 0 + 1) = r[0] + Sum(r, 0)
    BY <1>2, <2>1, SumGrows
  <2>3. Hit(r)[0] = r[0] + 1 /\ Sum(Hit(r), 0) = 0 /\ Sum(r, 0) = 0 /\ r[0] \in Nat
    BY <1>1, <1>2, <2>1, SumGrows DEF Hit, Counts
  <2>4. QED
    BY <2>2, <2>3
<1>4. ASSUME NEW d \in Nat, d \in T
      PROVE  d + 1 \in T
  <2> SUFFICES ASSUME (d + 1) + 1 <= Ticks
               PROVE  Sum(Hit(r), (d + 1) + 1) = Sum(r, (d + 1) + 1) + 1
    OBVIOUS
  <2>1. /\ d + 1 \in 0..Ticks /\ (d + 1) + 1 \in 0..Ticks /\ ((d + 1) + 1) - 1 = d + 1
        /\ (d + 1) + 1 > 0 /\ d + 1 <= Ticks /\ d + 1 \in 0..Ticks - 1 /\ d + 1 # 0
    BY <1>1
  <2>2. Sum(Hit(r), d + 1) = Sum(r, d + 1) + 1
    BY <1>4, <2>1
  <2>3. /\ Sum(Hit(r), (d + 1) + 1) = Hit(r)[d + 1] + Sum(Hit(r), d + 1)
        /\ Sum(r, (d + 1) + 1) = r[d + 1] + Sum(r, d + 1)
        /\ Sum(r, d + 1) \in Nat
    BY <1>2, <2>1, SumGrows
  <2>4. Hit(r)[d + 1] = r[d + 1] /\ r[d + 1] \in Nat
    BY <2>1 DEF Hit, Counts
  <2>5. QED
    BY <2>2, <2>3, <2>4
<1> HIDE DEF T
<1>5. Nat \subseteq T
  BY <1>3, <1>4, Counting
<1>6. n - 1 \in Nat /\ (n - 1) + 1 = n /\ n <= Ticks
  OBVIOUS
<1>7. QED
  BY <1>2, <1>5, <1>6 DEF T

-----------------------------------------------------------------------------
(* The limiter.                                                            *)
Types ==
  /\ up \in BOOLEAN
  /\ hits \in [Clients -> Nat]
  /\ phase \in 0..Ticks - 1
  /\ recent \in [Clients -> Counts]
  /\ age \in 0..Ticks

(* The instants this process has seen, of those that are remembered.       *)
Lived == IF age < Ticks THEN age + 1 ELSE Ticks

(* While the process runs, the present window has let through no more than *)
(* it has counted, nor than the limit, and what is remembered from before  *)
(* it is at most one window's worth; of a process that has ended the sum   *)
(* of both remains.                                                        *)
Windows ==
  /\ up => phase < Lived
  /\ \A c \in Clients :
       /\ Sum(recent[c], Lived) <= 2 * Limit
       /\ up => /\ Sum(recent[c], phase + 1) <= hits[c]
                /\ Sum(recent[c], phase + 1) <= Limit
                /\ Sum(recent[c], Lived) <= Sum(recent[c], phase + 1) + Limit

LimiterInv == Types /\ Windows

LEMMA LimiterInit == Init => LimiterInv
<1> SUFFICES ASSUME Init
             PROVE  LimiterInv
  OBVIOUS
<1>1. Ticks \in Nat \ {0} /\ Limit \in Nat
  BY ServerAssumption
<1> DEFINE none == [i \in 0..Ticks - 1 |-> 0]
<1>2. none \in Counts /\ \A c \in Clients : recent[c] = none
  BY DEF Counts, Init
<1>3. Types
  BY <1>1, <1>2 DEF Types, Init
<1> HIDE DEF none
<1> DEFINE T == {n \in Nat : n <= Ticks => Sum(none, n) = 0}
<1>4. 0 \in T
  BY <1>1, <1>2, SumGrows
<1>5. ASSUME NEW d \in Nat, d \in T
      PROVE  d + 1 \in T
  <2> SUFFICES ASSUME d + 1 <= Ticks
               PROVE  Sum(none, d + 1) = 0
    OBVIOUS
  <2>1. d + 1 \in 0..Ticks /\ d + 1 > 0 /\ (d + 1) - 1 = d /\ d \in 0..Ticks - 1 /\ d <= Ticks
    BY <1>1
  <2>2. Sum(none, d + 1) = none[d] + Sum(none, d)
    BY <1>2, <2>1, SumGrows
  <2>3. QED
    BY <1>5, <2>1, <2>2 DEF none
<1> HIDE DEF T
<1>6. Nat \subseteq T
  BY <1>4, <1>5, Counting
<1>7. Lived = Ticks /\ phase = 0 /\ age = Ticks /\ hits = [c \in Clients |-> 0]
  BY <1>1 DEF Lived, Init
<1>8. Sum(none, Ticks) = 0 /\ Sum(none, 0 + 1) = 0
  BY <1>1, <1>6 DEF T
<1>9. Windows
  BY <1>1, <1>2, <1>7, <1>8 DEF Windows
<1>10. QED
  BY <1>3, <1>9 DEF LimiterInv

(* A request that is let through counts in the present window.             *)
LEMMA PassKeeps ==
  ASSUME LimiterInv, NEW q \in Requests, Pass(q), up' \in BOOLEAN
  PROVE  LimiterInv'
<1> DEFINE d == From[q]
<1>1. d \in Clients /\ Ticks \in Nat \ {0} /\ Limit \in Nat \ {0}
  BY ServerAssumption
<1>2. Types /\ Windows /\ up
  BY DEF LimiterInv, Pass, Sendable
<1>3. /\ hits' = [hits EXCEPT ![d] = @ + 1] /\ phase' = phase /\ age' = age
      /\ recent' = [recent EXCEPT ![d][0] = @ + 1] /\ ~(hits[d] >= Limit)
  BY DEF Pass, Exceeded
<1>4. recent'[d] = Hit(recent[d]) /\ \A c \in Clients \ {d} : recent'[c] = recent[c] /\ hits'[c] = hits[c]
  BY <1>1, <1>2, <1>3 DEF Hit, Types
<1>5. Lived \in 1..Ticks /\ phase + 1 \in 1..Ticks /\ Lived' = Lived /\ phase < Lived
  BY <1>1, <1>2, <1>3 DEF Types, Lived, Windows
<1>6. recent[d] \in Counts /\ hits[d] \in Nat /\ hits'[d] = hits[d] + 1
  BY <1>1, <1>2, <1>3 DEF Types
<1>7. /\ Hit(recent[d]) \in Counts
      /\ Sum(Hit(recent[d]), Lived) = Sum(recent[d], Lived) + 1
      /\ Sum(Hit(recent[d]), phase + 1) = Sum(recent[d], phase + 1) + 1
  BY <1>5, <1>6, SumHit
<1>8. Types'
  BY <1>1, <1>2, <1>3, <1>4, <1>7 DEF Types
<1>9. Sum(recent[d], Lived) \in Nat /\ Sum(recent[d], phase + 1) \in Nat
  BY <1>5, <1>6, SumGrows
<1>10. /\ Sum(recent[d], phase + 1) <= hits[d]
       /\ Sum(recent[d], Lived) <= Sum(recent[d], phase + 1) + Limit
  BY <1>1, <1>2 DEF Windows
<1> DEFINE s == Sum(recent[d], phase + 1)
           t == Sum(recent[d], Lived)
           h == hits[d]
<1>11. /\ s + 1 <= h + 1 /\ s + 1 <= Limit
       /\ t + 1 <= (s + 1) + Limit /\ t + 1 <= 2 * Limit
  <2> HIDE DEF s, t, h
  <2>1. s \in Nat /\ t \in Nat /\ h \in Nat /\ s <= h /\ t <= s + Limit /\ ~(h >= Limit)
    BY <1>3, <1>6, <1>9, <1>10 DEF s, t, h
  <2>2. QED
    BY <1>1, <2>1
<1>12. \A c \in Clients :
         /\ Sum(recent'[c], Lived) <= 2 * Limit
         /\ Sum(recent'[c], phase + 1) <= hits'[c]
         /\ Sum(recent'[c], phase + 1) <= Limit
         /\ Sum(recent'[c], Lived) <= Sum(recent'[c], phase + 1) + Limit
  BY <1>2, <1>4, <1>6, <1>7, <1>11 DEF Windows
<1>13. Windows'
  BY <1>3, <1>5, <1>12 DEF Windows
<1>14. QED
  BY <1>8, <1>13 DEF LimiterInv

LEMMA TickKeeps ==
  ASSUME LimiterInv, Tick
  PROVE  LimiterInv'
<1>1. Ticks \in Nat \ {0} /\ Limit \in Nat \ {0}
  BY ServerAssumption
<1>2. Types /\ Windows /\ up' = up
  BY DEF LimiterInv, Tick
<1>3. /\ recent' = [c \in Clients |-> Shift(recent[c])]
      /\ age' = Older
      /\ up /\ WindowEnds => phase' = 0 /\ hits' = [c \in Clients |-> 0]
      /\ up /\ ~WindowEnds => phase' = phase + 1 /\ hits' = hits
      /\ ~up => phase' = phase /\ hits' = hits
  BY DEF Tick
<1>4. \A c \in Clients : recent[c] \in Counts /\ Shift(recent[c]) \in Counts
  BY <1>1, <1>2, SumShifts DEF Types
<1>5. age' \in 0..Ticks /\ phase' \in 0..Ticks - 1 /\ hits' \in [Clients -> Nat]
  BY <1>1, <1>2, <1>3 DEF Types, Older, WindowEnds
<1>6. Types'
  BY <1>2, <1>3, <1>4, <1>5 DEF Types
<1>7. /\ Lived \in 1..Ticks /\ Lived' \in 1..Ticks /\ Lived' - 1 <= Lived
      /\ Lived' - 1 \in 0..Ticks /\ Lived \in 0..Ticks
      /\ Lived' = IF Lived = Ticks THEN Ticks ELSE Lived + 1
  BY <1>1, <1>2, <1>3 DEF Types, Older, Lived
<1>8. ASSUME NEW c \in Clients
      PROVE  /\ Sum(recent'[c], Lived') = Sum(recent[c], Lived' - 1)
             /\ Sum(recent[c], Lived' - 1) <= Sum(recent[c], Lived)
             /\ Sum(recent[c], Lived) \in Nat /\ Sum(recent[c], Lived' - 1) \in Nat
             /\ Sum(recent[c], Lived) <= 2 * Limit
  BY <1>2, <1>3, <1>4, <1>7, SumShifts, SumMonotone, SumGrows DEF Windows
<1>9. CASE ~up
  <2>1. \A c \in Clients : Sum(recent'[c], Lived') <= 2 * Limit
    BY <1>1, <1>8
  <2>2. QED
    BY <1>2, <1>6, <1>9, <2>1 DEF LimiterInv, Windows
<1>10. CASE up /\ WindowEnds
  <2>1. phase + 1 = Ticks /\ phase' = 0 /\ Lived = Ticks /\ phase' + 1 = 1
    BY <1>1, <1>2, <1>3, <1>7, <1>10 DEF WindowEnds, Windows, Types
  <2>2. ASSUME NEW c \in Clients
        PROVE  /\ Sum(recent'[c], Lived') <= 2 * Limit
               /\ Sum(recent'[c], phase' + 1) <= hits'[c]
               /\ Sum(recent'[c], phase' + 1) <= Limit
               /\ Sum(recent'[c], Lived') <= Sum(recent'[c], phase' + 1) + Limit
    <3>1. Sum(recent[c], Lived) <= Limit
      BY <1>2, <1>10, <2>1 DEF Windows
    <3>2. 1 \in 1..Ticks /\ 0 \in 0..Ticks /\ 1 - 1 = 0
      BY <1>1
    <3>3. Sum(recent'[c], 1) = 0
      BY <1>3, <1>4, <3>2, SumShifts, SumGrows
    <3>4. hits'[c] = 0
      BY <1>3, <1>10
    <3>5. QED
      BY <1>1, <1>8, <2>1, <3>1, <3>3, <3>4
  <2>3. phase' < Lived'
    BY <1>1, <1>7, <2>1
  <2>4. QED
    BY <1>6, <2>2, <2>3 DEF LimiterInv, Windows
<1>11. CASE up /\ ~WindowEnds
  <2>1. /\ phase' = phase + 1 /\ hits' = hits /\ phase + 1 \in 0..Ticks
        /\ phase' + 1 \in 1..Ticks /\ (phase' + 1) - 1 = phase + 1 /\ phase < Lived
    BY <1>1, <1>2, <1>3, <1>11 DEF WindowEnds, Types, Windows
  <2>2. phase' < Lived'
    <3> DEFINE l == Lived
               m == Lived'
               p == phase
    <3>1. p + 1 \in 0..Ticks - 1 /\ p < l /\ l \in 1..Ticks
          /\ m = IF l = Ticks THEN Ticks ELSE l + 1
      BY <1>1, <1>2, <1>3, <1>7, <1>11, <2>1 DEF WindowEnds, Types
    <3>2. p \in Nat /\ phase' = p + 1
      BY <1>2, <2>1 DEF Types
    <3> HIDE DEF l, m, p
    <3>3. p + 1 < m
      BY <1>1, <3>1, <3>2
    <3>4. QED
      BY <3>2, <3>3 DEF m
  <2>3. ASSUME NEW c \in Clients
        PROVE  /\ Sum(recent'[c], Lived') <= 2 * Limit
               /\ Sum(recent'[c], phase' + 1) <= hits'[c]
               /\ Sum(recent'[c], phase' + 1) <= Limit
               /\ Sum(recent'[c], Lived') <= Sum(recent'[c], phase' + 1) + Limit
    <3>1. Sum(recent'[c], phase' + 1) = Sum(recent[c], phase + 1)
      BY <1>3, <1>4, <2>1, SumShifts
    <3>2. /\ Sum(recent[c], phase + 1) <= hits[c]
          /\ Sum(recent[c], phase + 1) <= Limit
          /\ Sum(recent[c], Lived) <= Sum(recent[c], phase + 1) + Limit
      BY <1>2, <1>11 DEF Windows
    <3>3. Sum(recent[c], phase + 1) \in Nat
      BY <1>4, <2>1, SumGrows
    <3>4. QED
      BY <1>1, <1>8, <2>1, <3>1, <3>2, <3>3
  <2>4. QED
    BY <1>6, <2>2, <2>3 DEF LimiterInv, Windows
<1>12. QED
  BY <1>9, <1>10, <1>11

LEMMA RestartKeeps ==
  ASSUME LimiterInv, Restart
  PROVE  LimiterInv'
<1>1. Ticks \in Nat \ {0} /\ Limit \in Nat \ {0}
  BY ServerAssumption
<1>2. /\ up' = TRUE /\ phase' = 0 /\ hits' = [c \in Clients |-> 0]
      /\ recent' = [c \in Clients |-> Shift(recent[c])] /\ age' = 0
  BY DEF Restart
<1>3. 1 \in 1..Ticks /\ 0 \in 0..Ticks /\ 1 - 1 = 0
  BY <1>1
<1>4. \A c \in Clients : /\ recent'[c] \in Counts /\ Sum(recent'[c], 1) = 0
                         /\ hits'[c] = 0
  BY <1>2, <1>3, SumShifts, SumGrows DEF LimiterInv, Types
<1>5. Types'
  BY <1>1, <1>2, <1>4 DEF Types
<1>6. Lived' = 1 /\ phase' + 1 = 1
  BY <1>1, <1>2 DEF Lived
<1>7. Windows'
  BY <1>1, <1>2, <1>4, <1>6 DEF Windows
<1>8. QED
  BY <1>5, <1>7 DEF LimiterInv

(* Refused requests are counted, but not let through.                      *)
LEMMA LimitedKeeps ==
  ASSUME LimiterInv, NEW q \in Requests, Limited(q)
  PROVE  LimiterInv'
<1>1. From[q] \in Clients /\ Limit \in Nat \ {0}
  BY ServerAssumption
<1>2. /\ hits' = [hits EXCEPT ![From[q]] = Limit + 1]
      /\ UNCHANGED <<up, phase, recent, age>>
  BY DEF Limited
<1>3. Types' /\ Lived' = Lived
  BY <1>1, <1>2 DEF LimiterInv, Types, Lived
<1>4. hits'[From[q]] = Limit + 1 /\ \A c \in Clients \ {From[q]} : hits'[c] = hits[c]
  BY <1>1, <1>2 DEF LimiterInv, Types
<1>5. ASSUME NEW c \in Clients, up
      PROVE  Sum(recent[c], phase + 1) <= hits'[c]
  <2>1. /\ Sum(recent[c], phase + 1) <= hits[c] /\ Sum(recent[c], phase + 1) <= Limit
        /\ recent[c] \in Counts /\ phase + 1 \in 0..Ticks
    BY <1>5, ServerAssumption DEF LimiterInv, Windows, Types
  <2>2. Sum(recent[c], phase + 1) \in Nat
    BY <2>1, SumGrows
  <2>3. QED
    BY <1>1, <1>4, <2>1, <2>2
<1>6. Windows'
  BY <1>2, <1>3, <1>5 DEF LimiterInv, Windows
<1>7. QED
  BY <1>3, <1>6 DEF LimiterInv

LEMMA LimiterFrame ==
  ASSUME LimiterInv, UNCHANGED <<hits, phase, recent, age>>,
         up' \in BOOLEAN, up' => up
  PROVE  LimiterInv'
<1>1. Lived' = Lived
  BY DEF Lived
<1>2. QED
  BY <1>1 DEF LimiterInv, Types, Windows

LEMMA LimiterStep == LimiterInv /\ [Next]_vars => LimiterInv'
<1> SUFFICES ASSUME LimiterInv, [Next]_vars
             PROVE  LimiterInv'
  OBVIOUS
<1>1. up \in BOOLEAN
  BY DEF LimiterInv, Types
<1>2. CASE UNCHANGED vars
  BY <1>1, <1>2, LimiterFrame DEF vars
<1>3. ASSUME NEW q \in Requests, Limited(q)
      PROVE  LimiterInv'
  BY <1>3, LimitedKeeps
<1>4. ASSUME NEW q \in Requests, NotJSON(q) \/ Succeeds(q) \/ Fails(q)
      PROVE  LimiterInv'
  BY <1>1, <1>4, LimiterFrame DEF NotJSON, Succeeds, Fails
<1>5. ASSUME NEW q \in Requests, NoRoute(q) \/ Accept(q) \/ ParseThrows(q)
      PROVE  LimiterInv'
  <2>1. Pass(q) /\ up' \in BOOLEAN
    BY <1>1, <1>5 DEF NoRoute, Accept, ParseThrows
  <2>2. QED
    BY <2>1, PassKeeps
<1>6. QED
  BY <1>2, <1>3, <1>4, <1>5, TickKeeps, RestartKeeps DEF Next

(* The invariant of the limiter, for every limit and division of a window. *)
THEOREM LimiterInvariance == Spec => []LimiterInv
BY LimiterInit, LimiterStep, PTL DEF Spec

(* app.ts:17: whatever the clients send and whenever, no client gets more  *)
(* than twice the limit through in a second, if the process lived through  *)
(* it: a restart forgets what was counted.                                 *)
THEOREM AtMostTwice == Spec => []TwiceTheLimit
<1>1. LimiterInv => TwiceTheLimit
  <2> SUFFICES ASSUME LimiterInv, age = Ticks, NEW c \in Clients
               PROVE  Through(c, Ticks) <= 2 * Limit
    BY DEF TwiceTheLimit
  <2>1. Ticks \in Nat /\ Lived = Ticks
    BY ServerAssumption DEF Lived
  <2>2. Sum(recent[c], Ticks) <= 2 * Limit
    BY <2>1 DEF LimiterInv, Windows
  <2>3. QED
    BY <2>1, <2>2, ThroughIsSum
<1>2. QED
  BY <1>1, LimiterInvariance, PTL

-----------------------------------------------------------------------------
(* The process.                                                            *)
Status == {"idle", "handling", "lost", "400", "404", "429", "200", "500"}

Answering == state \in [Requests -> Status]

LEMMA AnsweringStep == Answering /\ [Next]_vars => Answering'
<1> SUFFICES ASSUME Answering, [Next]_vars
             PROVE  Answering'
  OBVIOUS
<1> USE DEF Answering, Status
<1>1. CASE UNCHANGED vars
  BY <1>1 DEF vars
<1>2. ASSUME NEW q \in Requests,
             \/ Limited(q) \/ NotJSON(q) \/ NoRoute(q) \/ Accept(q) \/ ParseThrows(q)
             \/ Succeeds(q) \/ Fails(q)
      PROVE  Answering'
  BY <1>2 DEF Limited, NotJSON, NoRoute, Accept, ParseThrows, Ended, Succeeds, Fails
<1>3. CASE Tick \/ Restart
  BY <1>3 DEF Tick, Restart
<1>4. QED
  BY <1>1, <1>2, <1>3 DEF Next

(* A request that is being handled is touched by its own service's answer  *)
(* and by parameters that do not parse.                                    *)
LEMMA HandlingStep ==
  ASSUME Answering, [Next]_vars, NEW q \in Requests, state[q] = "handling",
         state'[q] \notin {"handling", "200", "500"}
  PROVE  \E p \in Requests : Kind[p] = "unparsable" /\ state'[p] = "lost"
<1> USE DEF Answering
<1>1. CASE UNCHANGED vars
  BY <1>1 DEF vars
<1>2. ASSUME NEW p \in Requests, Limited(p) \/ NotJSON(p) \/ NoRoute(p) \/ Accept(p)
      PROVE  FALSE
  BY <1>2 DEF Limited, NotJSON, NoRoute, Accept, Pass, Sendable
<1>3. ASSUME NEW p \in Requests, Succeeds(p) \/ Fails(p)
      PROVE  FALSE
  BY <1>3 DEF Succeeds, Fails
<1>4. ASSUME NEW p \in Requests, ParseThrows(p)
      PROVE  Kind[p] = "unparsable" /\ state'[p] = "lost"
  BY <1>4 DEF ParseThrows, Ended
<1>5. CASE Tick \/ Restart
  BY <1>5 DEF Tick, Restart
<1>6. QED
  BY <1>1, <1>2, <1>3, <1>4, <1>5 DEF Next

(* Only parsing ends the process: whatever the number of requests under    *)
(* way, the error of a service is answered to its own request, and what is *)
(* lost is lost to parameters that do not parse.                           *)
THEOREM OnlyParsingEnds == Spec => OnlyParsingEndsTheProcess
<1>1. Init => Answering
  BY DEF Init, Answering, Status
<1>2. Answering /\ [Next]_vars =>
        [\A q \in Requests :
            state[q] = "handling" /\ state'[q] \notin {"handling", "200", "500"} =>
               \E p \in Requests : Kind[p] = "unparsable" /\ state'[p] = "lost"]_vars
  BY HandlingStep
<1>3. QED
  BY <1>1, <1>2, AnsweringStep, PTL DEF Spec, OnlyParsingEndsTheProcess
=============================================================================
