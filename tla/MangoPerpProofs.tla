--------------------------- MODULE MangoPerpProofs --------------------------
(***************************************************************************)
(* Mango perp markets.  Settling, for any number of accounts, every profit,*)
(* loss and fee, and any size of a transaction: the greedy choice of       *)
(* counterparties leaves as little as any choice could.  Then orders, for  *)
(* any number of requests, accounts and orders, and every market (module   *)
(* MangoPerpOrders, as MCMangoPerp instantiates it): conversion loses less *)
(* than a lot, and whoever is refused, or told that an order is not there, *)
(* can be given the reason.                                                *)
(***************************************************************************)
EXTENDS MCMangoPerp, InstructionListsProofs, FiniteSetTheorems, TLAPS

-----------------------------------------------------------------------------
(* What accounts amount to, taken together.                                *)
AddAbs(p, n, b) == Abs(p[b]) + n
Natural(p, n, k) == n \in Nat

Sums == INSTANCE FoldTheorems WITH Step <- AddAbs, Keeps <- Natural

LEMMA OneMore ==
  ASSUME NEW p, NEW D, NEW base \in D, NEW X, Sums!Commutes(p, D, X),
         NEW S \in SUBSET X, Sums!IsFiniteSet(S), NEW y \in S
  PROVE  Sums!OverSet(p, base, S) = AddAbs(p, Sums!OverSet(p, base, S \ {y}), y)
BY Sums!SetFoldAdds

LEMMA SumAdds ==
  ASSUME NEW p \in [Accounts -> Int], NEW S \in SUBSET Accounts
  PROVE  /\ IsFiniteSet(S) /\ SumOver(S, p) \in Nat
         /\ S = {} => SumOver(S, p) = 0
         /\ \A y \in S : /\ Abs(p[y]) \in Nat /\ SumOver(S \ {y}, p) \in Nat
                         /\ SumOver(S, p) = Abs(p[y]) + SumOver(S \ {y}, p)
<1>1. \A T \in SUBSET Accounts : IsFiniteSet(T)
  BY MangoPerpAssumption, FS_Subset
<1>2. \A T : SumOver(T, p) = Sums!OverSet(p, 0, T)
  BY DEF SumOver, FoldSet, MapThenFoldSet, Sums!OverSet, Sums!Some, AddAbs
<1>3. \A y \in Accounts : Abs(p[y]) \in Nat
  BY DEF Abs
<1>9. \A T : IsFiniteSet(T) = Sums!IsFiniteSet(T)
  BY DEF IsFiniteSet, Sums!IsFiniteSet
<1>4. \A n \in Nat : \A x \in Accounts : AddAbs(p, n, x) \in Nat
  BY <1>3 DEF AddAbs
<1>5. \A n \in Nat : \A x, y \in Accounts :
         AddAbs(p, AddAbs(p, n, x), y) = AddAbs(p, AddAbs(p, n, y), x)
  <2> SUFFICES ASSUME NEW n \in Nat, NEW x \in Accounts, NEW y \in Accounts
               PROVE  AddAbs(p, AddAbs(p, n, x), y) = AddAbs(p, AddAbs(p, n, y), x)
    OBVIOUS
  <2> DEFINE u == Abs(p[x])
             v == Abs(p[y])
  <2>1. u \in Nat /\ v \in Nat
    BY <1>3
  <2> HIDE DEF u, v
  <2>2. v + (u + n) = u + (v + n)
    BY <2>1
  <2>3. QED
    BY <2>2 DEF AddAbs, u, v
<1>6. ASSUME NEW T \in SUBSET Accounts
      PROVE  /\ Sums!OverSet(p, 0, T) \in Nat
             /\ \A y \in T : Sums!OverSet(p, 0, T) = AddAbs(p, Sums!OverSet(p, 0, T \ {y}), y)
  <2>1. Sums!Commutes(p, Nat, Accounts)
    BY <1>4, <1>5 DEF Sums!Commutes
  <2>2. Sums!IsFiniteSet(T)
    BY <1>1, <1>9
  <2> DEFINE D == Nat
             z == 0
  <2>3. z \in D /\ Sums!Commutes(p, D, Accounts)
    BY <2>1
  <2> HIDE DEF D, z
  <2>4. Sums!OverSet(p, z, T) \in D
    BY <2>2, <2>3, Sums!SetFoldAdds
  <2>5. ASSUME NEW y \in T
        PROVE  Sums!OverSet(p, z, T) = AddAbs(p, Sums!OverSet(p, z, T \ {y}), y)
    BY <2>2, <2>3, <2>5, OneMore
  <2>6. QED
    BY <2>4, <2>5 DEF D, z
<1>7. S = {} => Sums!OverSet(p, 0, S) = 0
  BY <1>1, <1>9, Sums!SetFoldTakes
<1>8. QED
  BY <1>1, <1>2, <1>3, <1>6, <1>7 DEF AddAbs

(* No set outweighs one that has as many members and, wherever they        *)
(* differ, the larger ones.                                                *)
Outweighs(P, S, p) ==
  /\ Cardinality(S) <= Cardinality(P)
  /\ \A b \in P : \A c \in S \ P : Abs(p[c]) <= Abs(p[b])

LEMMA Heaviest ==
  ASSUME NEW p \in [Accounts -> Int], NEW P \in SUBSET Accounts, NEW S \in SUBSET Accounts,
         Outweighs(P, S, p)
  PROVE  SumOver(S, p) <= SumOver(P, p)
<1> DEFINE Lighter(Q, R) == SumOver(R, p) <= SumOver(Q, p)
           T == {n \in Nat : \E Q, R \in SUBSET Accounts :
                   Cardinality(R) = n /\ Outweighs(Q, R, p) /\ ~Lighter(Q, R)}
<1>0. \A R \in SUBSET Accounts : IsFiniteSet(R) /\ Cardinality(R) \in Nat
  BY SumAdds, MangoPerpAssumption, FS_Subset, FS_CardinalityType
<1> SUFFICES ASSUME ~Lighter(P, S)
             PROVE  FALSE
  OBVIOUS
<1> HIDE DEF Lighter
<1>1. Cardinality(S) \in T
  BY <1>0
<1>2. PICK n \in T : \A j \in T : n <= j
  <2> HIDE DEF T
  <2>1. T \in SUBSET Nat
    BY DEF T
  <2>2. QED
    BY <1>1, <2>1, Chains!Least
<1>3. PICK Q \in SUBSET Accounts, R \in SUBSET Accounts :
         Cardinality(R) = n /\ Outweighs(Q, R, p) /\ ~Lighter(Q, R)
  BY <1>2
<1>4. n \in Nat /\ \A m \in Nat : m < n => m \notin T
  <2> HIDE DEF T
  <2>1. T \in SUBSET Nat
    BY DEF T
  <2>2. QED
    BY <1>2, <2>1
<1>5. R # {}
  <2> SUFFICES ASSUME R = {}
               PROVE  Lighter(Q, R)
    BY <1>3
  <2>1. SumOver(R, p) = 0 /\ SumOver(Q, p) \in Nat
    BY SumAdds
  <2>2. QED
    BY <2>1 DEF Lighter
<1>6. PICK c \in R : TRUE
  BY <1>5
<1>7. \E b \in Q : /\ Abs(p[c]) <= Abs(p[b])
                   /\ Outweighs(Q \ {b}, R \ {c}, p)
  <2>1. CASE c \in Q
    <3>1. Abs(p[c]) <= Abs(p[c])
      <4>1. Abs(p[c]) \in Nat
        BY <1>6, SumAdds
      <4>2. QED
        BY <4>1
    <3>2. Cardinality(R \ {c}) <= Cardinality(Q \ {c})
      <4>1. /\ Cardinality(R \ {c}) = Cardinality(R) - 1
            /\ Cardinality(Q \ {c}) = Cardinality(Q) - 1
        BY <1>0, <1>6, <2>1, FS_RemoveElement
      <4>2. Cardinality(R) <= Cardinality(Q)
        BY <1>3 DEF Outweighs
      <4>3. QED
        BY <1>0, <4>1, <4>2
    <3>3. (R \ {c}) \ (Q \ {c}) \subseteq R \ Q
      OBVIOUS
    <3>4. QED
      BY <1>3, <2>1, <3>1, <3>2, <3>3 DEF Outweighs
  <2>2. CASE c \notin Q
    <3>1. PICK b \in Q : b \notin R
      <4> SUFFICES ASSUME Q \subseteq R
                   PROVE  FALSE
        OBVIOUS
      <4>1. Cardinality(Q) <= Cardinality(R) /\ (Cardinality(R) = Cardinality(Q) => R = Q)
        BY <1>0, FS_Subset
      <4>2. Cardinality(R) <= Cardinality(Q)
        BY <1>3 DEF Outweighs
      <4>3. Cardinality(R) = Cardinality(Q)
        BY <1>0, <4>1, <4>2
      <4>4. QED
        BY <1>6, <2>2, <4>1, <4>3
    <3>2. Cardinality(R \ {c}) <= Cardinality(Q \ {b})
      <4>1. /\ Cardinality(R \ {c}) = Cardinality(R) - 1
            /\ Cardinality(Q \ {b}) = Cardinality(Q) - 1
        BY <1>0, <1>6, <3>1, FS_RemoveElement
      <4>2. Cardinality(R) <= Cardinality(Q)
        BY <1>3 DEF Outweighs
      <4>3. QED
        BY <1>0, <4>1, <4>2
    <3>3. (R \ {c}) \ (Q \ {b}) \subseteq R \ Q
      BY <3>1
    <3>4. Abs(p[c]) <= Abs(p[b])
      BY <1>3, <1>6, <2>2 DEF Outweighs
    <3>5. QED
      BY <1>3, <3>1, <3>2, <3>3, <3>4 DEF Outweighs
  <2>3. QED
    BY <2>1, <2>2
<1>8. PICK b \in Q : Abs(p[c]) <= Abs(p[b]) /\ Outweighs(Q \ {b}, R \ {c}, p)
  BY <1>7
<1>9. Lighter(Q \ {b}, R \ {c})
  <2> SUFFICES ASSUME ~Lighter(Q \ {b}, R \ {c})
               PROVE  FALSE
    OBVIOUS
  <2>1. Cardinality(R \ {c}) \in Nat /\ Cardinality(R \ {c}) = n - 1
    BY <1>0, <1>3, <1>6, FS_RemoveElement
  <2>2. Cardinality(R \ {c}) \in T
    BY <1>8, <2>1
  <2> HIDE DEF T
  <2>3. QED
    BY <1>4, <2>1, <2>2
<1>10. Lighter(Q, R)
  <2> DEFINE q == SumOver(Q, p)
             r == SumOver(R, p)
             q1 == SumOver(Q \ {b}, p)
             r1 == SumOver(R \ {c}, p)
             x == Abs(p[b])
             y == Abs(p[c])
  <2>1. /\ {q, r, q1, r1, x, y} \subseteq Nat
        /\ q = x + q1 /\ r = y + r1
    <3>1. Q \in SUBSET Accounts /\ R \in SUBSET Accounts /\ b \in Q /\ c \in R
      BY <1>3, <1>6, <1>8
    <3>2. q \in Nat /\ x \in Nat /\ q1 \in Nat /\ q = x + q1
      BY <3>1, SumAdds
    <3>3. r \in Nat /\ y \in Nat /\ r1 \in Nat /\ r = y + r1
      BY <3>1, SumAdds
    <3> HIDE DEF q, r, q1, r1, x, y
    <3>4. QED
      BY <3>2, <3>3
  <2>2. y <= x /\ r1 <= q1
    BY <1>8, <1>9 DEF Lighter
  <2> HIDE DEF q, r, q1, r1, x, y
  <2>3. r <= q
    BY <2>1, <2>2
  <2>4. QED
    BY <2>3 DEF Lighter, q, r
<1>11. QED
  BY <1>3, <1>10

-----------------------------------------------------------------------------
(* The greedy loop.  One instruction more: the counterparty b joins those  *)
(* in P, after the base.                                                   *)
Instr(a) == {SettleFees} \cup {SettlePnl(b) : b \in Accounts \ {a}}

Listed(list, a, base, P) ==
  /\ list \in Seq(Instr(a)) /\ IsInjective(list)
  /\ Len(list) = Len(base) + Cardinality(P)
  /\ \A i \in 1..Len(base) : list[i] = base[i]
  /\ \A i \in 1..Len(list) : i > Len(base) => \E b \in P : list[i] = SettlePnl(b)
  /\ \A b \in P : \E i \in 1..Len(list) : i > Len(base) /\ list[i] = SettlePnl(b)

LEMMA Distinct ==
  /\ \A b, c : SettlePnl(b) = SettlePnl(c) => b = c
  /\ \A b : SettlePnl(b) # SettleFees
  /\ \A b : IsPnl(SettlePnl(b)) /\ SettlePnl(b).with = b
  /\ ~IsPnl(SettleFees)
<1>1. \A b : SettlePnl(b).with = b /\ SettlePnl(b).type = "pnl"
  BY DEF SettlePnl
<1>2. SettleFees.type = "fees"
  BY DEF SettleFees
<1>3. QED
  BY <1>1, <1>2 DEF IsPnl

LEMMA ListedGrows ==
  ASSUME NEW a \in Accounts, NEW base \in {<<>>, <<SettleFees>>},
         NEW P \in SUBSET (Accounts \ {a}), NEW list, Listed(list, a, base, P),
         NEW b \in Accounts \ {a}, b \notin P
  PROVE  Listed(Append(list, SettlePnl(b)), a, base, P \cup {b})
<1> DEFINE new == Append(list, SettlePnl(b))
           n == Len(list)
           m == Len(base)
<1>1. SettlePnl(b) \in Instr(a)
  BY DEF Instr
<1>2. n \in Nat /\ m \in Nat /\ list \in Seq(Instr(a)) /\ n = m + Cardinality(P)
  BY DEF Listed
<1>3. /\ new \in Seq(Instr(a)) /\ Len(new) = n + 1
      /\ \A i \in 1..n : new[i] = list[i]
      /\ new[n + 1] = SettlePnl(b)
  <2> DEFINE T == Instr(a)
             e == SettlePnl(b)
  <2>1. e \in T /\ list \in Seq(T)
    BY <1>1, <1>2
  <2> HIDE DEF T, e
  <2>2. /\ Append(list, e) \in Seq(T) /\ Len(Append(list, e)) = Len(list) + 1
        /\ \A i \in 1..Len(list) : Append(list, e)[i] = list[i]
        /\ Append(list, e)[Len(list) + 1] = e
    BY <2>1
  <2>3. QED
    BY <2>2 DEF T, e
<1>4. IsFiniteSet(P) /\ Cardinality(P) \in Nat /\ Cardinality(P \cup {b}) = Cardinality(P) + 1
  <2>1. IsFiniteSet(P)
    BY MangoPerpAssumption, FS_Subset
  <2>2. QED
    BY <2>1, FS_AddElement, FS_CardinalityType
<1>5. \A i \in 1..n : list[i] # SettlePnl(b)
  <2> SUFFICES ASSUME NEW i \in 1..n, list[i] = SettlePnl(b)
               PROVE  FALSE
    OBVIOUS
  <2>1. CASE i > m
    BY <2>1, Distinct DEF Listed
  <2>2. CASE ~(i > m)
    <3>1. i \in 1..m
      BY <1>2, <2>2
    <3>2. list[i] = base[i] /\ m # 0
      BY <1>2, <3>1 DEF Listed
    <3>3. base = <<SettleFees>>
      BY <3>2
    <3>4. list[i] = SettleFees
      BY <3>1, <3>2, <3>3
    <3>5. QED
      BY <3>4, Distinct
  <2>3. QED
    BY <2>1, <2>2
<1> HIDE DEF new, n, m
<1>6. DOMAIN new = 1..n + 1 /\ DOMAIN list = 1..n
  BY <1>2, <1>3 DEF n
<1>7. IsInjective(new)
  <2>1. \A i, j \in 1..n : list[i] = list[j] => i = j
    BY <1>6 DEF Listed, IsInjective
  <2>2. \A i \in 1..n + 1 : i \in 1..n \/ i = n + 1
    BY <1>2
  <2>3. \A i, j \in 1..n + 1 : new[i] = new[j] => i = j
    BY <1>3, <1>5, <2>1, <2>2
  <2>4. QED
    BY <1>6, <2>3 DEF IsInjective
<1>8. \A i \in 1..m : new[i] = base[i]
  <2>1. \A i \in 1..m : i \in 1..n
    BY <1>2, <1>4
  <2>2. QED
    BY <1>3, <2>1 DEF Listed, m
<1>9. \A i \in 1..n + 1 : i > m => \E c \in P \cup {b} : new[i] = SettlePnl(c)
  <2>1. \A i \in 1..n + 1 : i \in 1..n \/ i = n + 1
    BY <1>2
  <2>2. QED
    BY <1>3, <2>1 DEF Listed, m, n
<1>10. \A c \in P \cup {b} : \E i \in 1..n + 1 : i > m /\ new[i] = SettlePnl(c)
  <2>1. n + 1 \in 1..n + 1 /\ n + 1 > m /\ \A i \in 1..n : i \in 1..n + 1
    BY <1>2, <1>4
  <2>2. QED
    BY <1>3, <2>1 DEF Listed, m, n
<1>11. QED
  BY <1>2, <1>3, <1>4, <1>7, <1>8, <1>9, <1>10 DEF Listed, new, m

LEMMA Against ==
  ASSUME NEW sign \in {1, -1}, NEW t \in Int, Opposite(sign, t)
  PROVE  Abs(t) \in Nat \ {0} /\ sign * t = -Abs(t)
BY DEF Opposite, Abs

(* What is left to settle, and on which side.                              *)
Amounts(n, sign, left) ==
  sign \in {1, -1} /\ left \in Int /\ n \in Int /\ n = sign * left

LEMMA Balance ==
  ASSUME NEW sign, NEW left, NEW n, Amounts(n, sign, left), NEW t \in Int
  PROVE  /\ left >= 0 /\ Opposite(n, t) => left > 0 /\ Opposite(sign, t)
         /\ left > 0 => (Opposite(n, t) <=> Opposite(sign, t))
         /\ Opposite(sign, t) => n + t = sign * (left - Abs(t))
         /\ Sign(n) # sign => left <= 0
         /\ Sign(n) = sign => left >= 0
<1> USE DEF Amounts
<1>1. CASE sign = 1
  <2>1. n = left
    BY <1>1
  <2>2. QED
    BY <1>1, <2>1 DEF Opposite, Abs, Sign
<1>2. CASE sign = -1
  <2>1. n = -left
    BY <1>2
  <2>2. QED
    BY <1>2, <2>1 DEF Opposite, Abs, Sign
<1>3. QED
  BY <1>1, <1>2

(* A handler at work: for account a, with what it owes or is owed, on the  *)
(* accounts in their order.                                                *)
Counter(x) == {b \in Accounts \ {x.a} : Opposite(x.sign, x.theirs[b])}
Seen(x, k) == {x.order[j] : j \in 1..k}

Context(x) ==
  /\ x.a \in Accounts /\ x.sign \in {1, -1} /\ x.theirs \in [Accounts -> Int]
  /\ x.owe \in Nat \ {0} /\ x.base \in {<<>>, <<SettleFees>>}
  /\ x.order \in Seq(Accounts) /\ IsInjective(x.order) /\ ToSet(x.order) = Accounts
  /\ Sorted(x.order, x.sign, x.theirs)

(* After k accounts: those chosen are the largest of the other side.  All  *)
(* that were seen are among them, unless there is enough or no room, and   *)
(* the last was needed.                                                    *)
Chosen(x, st, k, P) ==
  LET sum == SumOver(P, x.theirs) IN
  /\ P \subseteq Counter(x) \cap Seen(x, k)
  /\ \A b \in P : \A c \in Counter(x) \ P : Abs(x.theirs[c]) <= Abs(x.theirs[b])
  /\ P # {} => \E l \in P : /\ SumOver(P \ {l}, x.theirs) < x.owe
                             /\ \A b \in P : Abs(x.theirs[l]) <= Abs(x.theirs[b])
  /\ Listed(st.instructions, x.a, x.base, P)
  /\ Len(st.instructions) <= MaxInstructions
  /\ st.pnl = x.sign * (x.owe - sum)
  /\ st.stop \in BOOLEAN
  /\ IF st.stop THEN sum >= x.owe ELSE sum <= x.owe
  /\ \/ Counter(x) \cap Seen(x, k) \subseteq P
     \/ sum >= x.owe
     \/ Len(st.instructions) = MaxInstructions

Picked(x, st, k) == \E P \in SUBSET Accounts : Chosen(x, st, k, P)
Picking(x, st, b) == Visit(x.a, x.sign, st, b, x.theirs[b])

Picks == INSTANCE FoldTheorems WITH Step <- Picking, Keeps <- Picked

(* The account that is visited next, seen or not.                          *)
LEMMA NextSeen ==
  ASSUME NEW x, Context(x), NEW k \in 1..Len(x.order)
  PROVE  /\ x.order[k] \in Accounts /\ x.order[k] \notin Seen(x, k - 1)
         /\ Seen(x, k) = Seen(x, k - 1) \cup {x.order[k]}
         /\ \A c \in Accounts \ Seen(x, k) :
              x.sign * x.theirs[x.order[k]] <= x.sign * x.theirs[c]
<1> DEFINE s == x.order
<1>1. /\ s \in Seq(Accounts) /\ IsInjective(s) /\ ToSet(s) = Accounts
      /\ Sorted(s, x.sign, x.theirs)
  BY DEF Context
<1> HIDE DEF s
<1>2. Len(s) \in Nat /\ DOMAIN s = 1..Len(s) /\ k \in 1..Len(s) /\ k \in Nat
  BY <1>1 DEF s
<1>3. s[k] \in Accounts
  BY <1>1, <1>2
<1>4. \A i \in 1..k : i \in 1..k - 1 \/ i = k
  BY <1>2
<1>5. \A i \in 1..k - 1 : i \in 1..k /\ i # k /\ i \in DOMAIN s
  BY <1>2
<1>6. s[k] \notin {s[j] : j \in 1..k - 1}
  BY <1>1, <1>2, <1>5 DEF IsInjective
<1>7. {s[j] : j \in 1..k} = {s[j] : j \in 1..k - 1} \cup {s[k]}
  <2>1. k \in 1..k
    BY <1>2
  <2>2. QED
    BY <1>4, <1>5, <2>1
<1>8. ASSUME NEW c \in Accounts, c \notin {s[j] : j \in 1..k}
      PROVE  x.sign * x.theirs[s[k]] <= x.sign * x.theirs[c]
  <2>1. PICK j \in DOMAIN s : s[j] = c
    BY <1>1 DEF ToSet
  <2>2. j \notin 1..k
    BY <1>8, <2>1
  <2>3. k < j
    BY <1>2, <2>1, <2>2
  <2>4. QED
    BY <1>1, <1>2, <2>1, <2>3 DEF Sorted
<1>9. QED
  BY <1>3, <1>6, <1>7, <1>8 DEF s, Seen

(* Passing an account by: it is no counterparty, or nothing can be added.  *)
LEMMA PassesBy ==
  ASSUME NEW x, Context(x), NEW k \in 1..Len(x.order), NEW st,
         NEW P \in SUBSET Accounts, Chosen(x, st, k - 1, P),
         \/ x.order[k] \notin Counter(x)
         \/ SumOver(P, x.theirs) >= x.owe
         \/ Len(st.instructions) = MaxInstructions
  PROVE  Chosen(x, st, k, P)
<1>1. Seen(x, k) = Seen(x, k - 1) \cup {x.order[k]}
  BY NextSeen
<1>2. P \subseteq Counter(x) \cap Seen(x, k)
  BY <1>1 DEF Chosen
<1>3. \/ Counter(x) \cap Seen(x, k) \subseteq P
      \/ SumOver(P, x.theirs) >= x.owe
      \/ Len(st.instructions) = MaxInstructions
  BY <1>1 DEF Chosen
<1>4. QED
  BY <1>2, <1>3 DEF Chosen

(* Choosing an account: everybody seen before is chosen, so it is the      *)
(* largest of the rest.                                                    *)
LEMMA Chooses ==
  ASSUME NEW x, Context(x), NEW k \in 1..Len(x.order), NEW st,
         NEW P \in SUBSET Accounts, Chosen(x, st, k - 1, P), ~st.stop,
         x.order[k] # x.a, Opposite(st.pnl, x.theirs[x.order[k]]),
         Len(st.instructions) < MaxInstructions
  PROVE  Chosen(x, Picking(x, st, x.order[k]), k, P \cup {x.order[k]})
<1> DEFINE b == x.order[k]
           t == x.theirs[b]
           sum == SumOver(P, x.theirs)
           left == x.owe - sum
           Q == P \cup {b}
           new == Picking(x, st, b)
<1>1. /\ b \in Accounts /\ b \notin Seen(x, k - 1) /\ Seen(x, k) = Seen(x, k - 1) \cup {b}
      /\ \A c \in Accounts \ Seen(x, k) : x.sign * t <= x.sign * x.theirs[c]
  BY NextSeen
<1>2. /\ x.a \in Accounts /\ x.sign \in {1, -1} /\ x.theirs \in [Accounts -> Int]
      /\ x.owe \in Nat \ {0} /\ x.base \in {<<>>, <<SettleFees>>}
  BY DEF Context
<1>3. sum \in Nat /\ t \in Int
  BY <1>1, <1>2, SumAdds
<1>4. left \in Int /\ left >= 0 /\ st.pnl = x.sign * left /\ st.pnl \in Int
  <2> HIDE DEF sum
  <2>1. sum <= x.owe /\ st.pnl = x.sign * (x.owe - sum)
    BY DEF Chosen, sum
  <2>2. left \in Int /\ left >= 0
    BY <1>2, <1>3, <2>1
  <2>3. QED
    BY <1>2, <2>1, <2>2
<1>5. /\ new.pnl = st.pnl + t
      /\ new.instructions = Append(st.instructions, SettlePnl(b))
      /\ new.stop = (Sign(st.pnl + t) # x.sign)
  BY DEF Picking, Visit
<1> HIDE DEF t, b, sum, left, new
<1>6. left > 0 /\ Opposite(x.sign, t)
  <2>1. Amounts(st.pnl, x.sign, left)
    BY <1>2, <1>4 DEF Amounts
  <2>2. Opposite(st.pnl, t)
    BY DEF b, t
  <2>3. QED
    BY <1>3, <1>4, <2>1, <2>2, Balance
<1>7. Abs(t) \in Nat \ {0} /\ x.sign * t = -Abs(t) /\ st.pnl + t = x.sign * (left - Abs(t))
  <2> DEFINE n == st.pnl
             sign == x.sign
  <2>1. sign \in {1, -1} /\ t \in Int /\ Amounts(n, sign, left)
    BY <1>2, <1>3, <1>4 DEF Amounts
  <2>2. Opposite(sign, t)
    BY <1>6
  <2> HIDE DEF n, sign
  <2>3. Abs(t) \in Nat \ {0} /\ sign * t = -Abs(t)
    BY <2>1, <2>2, Against
  <2>4. n + t = sign * (left - Abs(t))
    <3>1. Opposite(sign, t) => n + t = sign * (left - Abs(t))
      BY <2>1, Balance
    <3>2. QED
      BY <2>2, <3>1
  <2>5. QED
    BY <2>3, <2>4 DEF n, sign
<1>8. b \in Counter(x) /\ b \notin P /\ Counter(x) \cap Seen(x, k - 1) \subseteq P
  <2>1. b \in Counter(x)
    BY <1>1, <1>6 DEF Counter, b, t
  <2>2. b \notin P
    BY <1>1 DEF Chosen
  <2>3. Len(st.instructions) # MaxInstructions
    <3>1. Len(st.instructions) \in Nat
      BY DEF Chosen, Listed
    <3>2. QED
      BY <3>1, MangoPerpAssumption
  <2>4. ~(sum >= x.owe)
    BY <1>2, <1>3, <1>6 DEF left
  <2>5. QED
    BY <2>1, <2>2, <2>3, <2>4 DEF Chosen, sum
<1>9. SumOver(Q, x.theirs) = sum + Abs(t) /\ Q \in SUBSET Accounts
  <2>1. Q \in SUBSET Accounts /\ b \in Q /\ Q \ {b} = P
    BY <1>1, <1>8
  <2>2. SumOver(Q, x.theirs) = Abs(x.theirs[b]) + SumOver(Q \ {b}, x.theirs)
    BY <1>2, <2>1, SumAdds
  <2>3. SumOver(Q, x.theirs) = Abs(t) + sum
    BY <2>1, <2>2 DEF t, sum
  <2>4. QED
    BY <1>3, <1>7, <2>1, <2>3
<1>10. Q \subseteq Counter(x) \cap Seen(x, k) /\ Counter(x) \cap Seen(x, k) \subseteq Q
  BY <1>1, <1>8 DEF Chosen
<1>11. ASSUME NEW d \in Q, NEW c \in Counter(x) \ Q
       PROVE  Abs(x.theirs[c]) <= Abs(x.theirs[d])
  <2>1. CASE d \in P
    BY <2>1 DEF Chosen
  <2>2. CASE d = b
    <3>1. c \in Accounts /\ Opposite(x.sign, x.theirs[c])
      BY DEF Counter
    <3>2. c \notin Seen(x, k)
      BY <1>10
    <3>3. x.sign * t <= x.sign * x.theirs[c]
      BY <1>1, <3>1, <3>2
    <3> DEFINE u == x.theirs[c]
    <3>4. u \in Int
      BY <1>2, <3>1
    <3> HIDE DEF u
    <3>5. Abs(u) \in Nat /\ x.sign * u = -Abs(u)
      <4>1. Opposite(x.sign, u)
        BY <3>1 DEF u
      <4>2. QED
        BY <1>2, <3>4, <4>1, Against
    <3>6. Abs(u) <= Abs(t)
      <4>1. -Abs(t) <= -Abs(u)
        BY <1>7, <3>3, <3>5 DEF u
      <4>2. QED
        BY <1>7, <3>5, <4>1
    <3>7. QED
      BY <2>2, <3>6 DEF t, u
  <2>3. QED
    BY <2>1, <2>2
<1>12. \E l \in Q : /\ SumOver(Q \ {l}, x.theirs) < x.owe
                    /\ \A d \in Q : Abs(x.theirs[l]) <= Abs(x.theirs[d])
  <2>1. Q \ {b} = P /\ b \in Q
    BY <1>8
  <2>2. SumOver(Q \ {b}, x.theirs) < x.owe
    <3>1. sum < x.owe
      BY <1>2, <1>3, <1>6 DEF left
    <3>2. QED
      BY <2>1, <3>1 DEF sum
  <2>3. ASSUME NEW d \in Q
        PROVE  Abs(x.theirs[b]) <= Abs(x.theirs[d])
    <3>1. CASE d \in P
      BY <1>8, <3>1 DEF Chosen
    <3>2. CASE d = b
      BY <1>7, <3>2 DEF t
    <3>3. QED
      BY <3>1, <3>2
  <2>4. QED
    BY <2>1, <2>2, <2>3
<1>13. Listed(new.instructions, x.a, x.base, Q)
  <2>1. P \in SUBSET (Accounts \ {x.a}) /\ b \in Accounts \ {x.a} /\ b \notin P
    BY <1>8 DEF Chosen, Counter
  <2>2. Listed(st.instructions, x.a, x.base, P)
    BY DEF Chosen
  <2> DEFINE list == st.instructions
             a == x.a
             base == x.base
  <2>3. a \in Accounts /\ base \in {<<>>, <<SettleFees>>} /\ Listed(list, a, base, P)
    BY <1>2, <2>2
  <2>4. P \in SUBSET (Accounts \ {a}) /\ b \in Accounts \ {a}
    BY <2>1
  <2> HIDE DEF list, a, base
  <2>5. Listed(Append(list, SettlePnl(b)), a, base, P \cup {b})
    BY <2>1, <2>3, <2>4, ListedGrows
  <2>6. QED
    BY <1>5, <2>5 DEF list, a, base
<1>14. Len(new.instructions) <= MaxInstructions
  <2>1. st.instructions \in Seq(Instr(x.a))
    BY DEF Chosen, Listed
  <2> DEFINE T == Instr(x.a)
             e == SettlePnl(b)
             s == st.instructions
  <2>2. s \in Seq(T) /\ Len(s) < MaxInstructions
    BY <2>1
  <2> HIDE DEF T, e, s
  <2>3. Len(Append(s, e)) = Len(s) + 1 /\ Len(s) \in Nat
    BY <2>2
  <2>4. Len(Append(s, e)) <= MaxInstructions
    BY <2>2, <2>3, MangoPerpAssumption
  <2>5. QED
    BY <1>5, <2>4 DEF s, e
<1>15. new.pnl = x.sign * (x.owe - (sum + Abs(t)))
  <2>1. left - Abs(t) = x.owe - (sum + Abs(t))
    BY <1>2, <1>3, <1>7 DEF left
  <2>2. QED
    BY <1>5, <1>7, <2>1
<1>16. /\ new.stop \in BOOLEAN
       /\ IF new.stop THEN sum + Abs(t) >= x.owe ELSE sum + Abs(t) <= x.owe
  <2> DEFINE n == st.pnl + t
             l == left - Abs(t)
  <2>1. l \in Int /\ n \in Int /\ n = x.sign * l
    BY <1>3, <1>4, <1>7
  <2>2. new.stop = (Sign(n) # x.sign)
    BY <1>5
  <2> HIDE DEF n, l
  <2>3. (Sign(n) # x.sign => l <= 0) /\ (Sign(n) = x.sign => l >= 0)
    <3>1. 0 \in Int /\ Amounts(n, x.sign, l)
      BY <1>2, <2>1 DEF Amounts
    <3>2. QED
      BY <3>1, Balance
  <2>4. l = x.owe - (sum + Abs(t))
    BY <1>2, <1>3, <1>7 DEF l, left
  <2>5. /\ l <= 0 => sum + Abs(t) >= x.owe
        /\ l >= 0 => sum + Abs(t) <= x.owe
    BY <1>2, <1>3, <1>7, <2>4
  <2>6. QED
    BY <2>2, <2>3, <2>5
<1> HIDE DEF Q
<1>17. Chosen(x, new, k, Q)
  BY <1>9, <1>10, <1>11, <1>12, <1>13, <1>14, <1>15, <1>16 DEF Chosen
<1>18. QED
  BY <1>17 DEF new, Q, b

LEMMA VisitKeeps ==
  ASSUME NEW x, Context(x), NEW k \in 1..Len(x.order), NEW st, Picked(x, st, k - 1)
  PROVE  Picked(x, Picking(x, st, x.order[k]), k)
<1> DEFINE b == x.order[k]
           t == x.theirs[b]
<1>1. PICK P \in SUBSET Accounts : Chosen(x, st, k - 1, P)
  BY DEF Picked
<1>2. b \in Accounts /\ t \in Int /\ x.sign \in {1, -1} /\ x.owe \in Nat
  BY NextSeen DEF Context
<1>3. CASE st.stop \/ b = x.a
  <2>1. Picking(x, st, b) = st
    BY <1>3 DEF Picking, Visit
  <2>2. b \notin Counter(x) \/ SumOver(P, x.theirs) >= x.owe
    BY <1>1, <1>3 DEF Chosen, Counter
  <2>3. Chosen(x, st, k, P)
    BY <1>1, <2>2, PassesBy
  <2>4. QED
    BY <2>1, <2>3 DEF Picked
<1>4. CASE /\ ~st.stop /\ b # x.a
           /\ Opposite(st.pnl, t) /\ Len(st.instructions) < MaxInstructions
  <2>1. Chosen(x, Picking(x, st, b), k, P \cup {b})
    BY <1>1, <1>4, Chooses
  <2>2. QED
    BY <1>2, <2>1 DEF Picked
<1>5. CASE /\ ~st.stop /\ b # x.a
           /\ ~(Opposite(st.pnl, t) /\ Len(st.instructions) < MaxInstructions)
  <2>1. Picking(x, st, b) = st
    BY <1>5 DEF Picking, Visit
  <2> DEFINE sum == SumOver(P, x.theirs)
             left == x.owe - sum
  <2>2. sum \in Nat
    BY SumAdds DEF Context
  <2>3. st.pnl = x.sign * left /\ sum <= x.owe
    BY <1>1, <1>5 DEF Chosen
  <2> HIDE DEF sum
  <2>4. left \in Int /\ left >= 0 /\ st.pnl \in Int
    BY <1>2, <2>2, <2>3
  <2> HIDE DEF b, t
  <2>5. left > 0 => (Opposite(st.pnl, t) <=> Opposite(x.sign, t))
    <3>1. Amounts(st.pnl, x.sign, left)
      BY <1>2, <2>3, <2>4 DEF Amounts, left
    <3>2. QED
      BY <1>2, <3>1, Balance
  <2>6. left = 0 => sum >= x.owe
    BY <1>2, <2>2 DEF left
  <2>7. Len(st.instructions) < MaxInstructions \/ Len(st.instructions) = MaxInstructions
    <3>1. Len(st.instructions) \in Nat /\ Len(st.instructions) <= MaxInstructions
      BY <1>1 DEF Chosen, Listed
    <3>2. QED
      BY <3>1, MangoPerpAssumption
  <2>8. \/ b \notin Counter(x)
        \/ sum >= x.owe
        \/ Len(st.instructions) = MaxInstructions
    BY <1>5, <2>4, <2>5, <2>6, <2>7 DEF Counter, t
  <2>9. Chosen(x, st, k, P)
    BY <1>1, <2>8, PassesBy DEF b, sum
  <2>10. QED
    BY <2>1, <2>9 DEF Picked, b
<1>6. st.stop \in BOOLEAN
  BY <1>1 DEF Chosen
<1>7. QED
  BY <1>3, <1>4, <1>5, <1>6

-----------------------------------------------------------------------------
(* The answer to account a, whose profit or loss was p and the fees f when *)
(* they were read: a greedy choice among the accounts as they were later.  *)
Base(p) == IF Sign(p) = 1 THEN <<>> ELSE <<SettleFees>>
Owing(p, f) == IF Sign(p) = 1 THEN p ELSE -AfterFees(p, f)

CounterpartiesOf(a, p, theirs) == {b \in Accounts \ {a} : Opposite(p, theirs[b])}

Greedy(P, list, a, p, f, theirs) ==
  LET C == CounterpartiesOf(a, p, theirs)
      sum == SumOver(P, theirs) IN
  /\ P \subseteq C
  /\ \A b \in P : \A c \in C \ P : Abs(theirs[c]) <= Abs(theirs[b])
  /\ P # {} => \E l \in P : /\ SumOver(P \ {l}, theirs) < Owing(p, f)
                            /\ \A b \in P : Abs(theirs[l]) <= Abs(theirs[b])
  /\ Listed(list, a, Base(p), P)
  /\ Len(list) <= MaxInstructions
  /\ P = C \/ sum >= Owing(p, f) \/ Len(list) = MaxInstructions

LEMMA OwingType ==
  ASSUME NEW p \in Int \ {0}, NEW f \in Nat
  PROVE  /\ Sign(p) \in {1, -1} /\ Owing(p, f) \in Nat \ {0}
         /\ Base(p) \in {<<>>, <<SettleFees>>}
         /\ (Sign(p) = 1 /\ p > 0 /\ Owing(p, f) = p) \/ (Sign(p) = -1 /\ p < 0)
         /\ (IF Sign(p) = 1 THEN p ELSE AfterFees(p, f)) = Sign(p) * Owing(p, f)
         /\ \A n \in Int : Opposite(p, n) <=> Opposite(Sign(p), n)
<1>1. AfterFees(p, f) = IF p + f <= -1 THEN p + f ELSE -1
  BY MinOfTwo DEF AfterFees
<1>2. CASE p > 0
  <2>1. Sign(p) = 1
    BY <1>2 DEF Sign
  <2>2. Owing(p, f) = p
    BY <2>1 DEF Owing
  <2>3. QED
    BY <1>2, <2>1, <2>2 DEF Base, Opposite
<1>3. CASE p < 0
  <2>1. Sign(p) = -1
    BY <1>3 DEF Sign
  <2>2. Owing(p, f) = -AfterFees(p, f) /\ AfterFees(p, f) \in Int /\ AfterFees(p, f) < 0
    BY <1>1, <2>1 DEF Owing
  <2>3. QED
    BY <1>3, <2>1, <2>2 DEF Base, Opposite
<1>4. QED
  BY <1>2, <1>3

LEMMA OrderLists ==
  ASSUME NEW sign, NEW p, NEW order \in Orderings(sign, p)
  PROVE  /\ order \in Seq(Accounts) /\ IsInjective(order) /\ ToSet(order) = Accounts
         /\ Sorted(order, sign, p)
<1>1. order \in SetToSeqs(Accounts) /\ Sorted(order, sign, p)
  BY DEF Orderings
<1>2. QED
  BY <1>1, Listing, MangoPerpAssumption

LEMMA PickIsGreedy ==
  ASSUME NEW a \in Accounts, NEW p \in Int \ {0}, NEW f \in Nat,
         NEW theirs \in [Accounts -> Int], NEW order \in Orderings(Sign(p), theirs)
  PROVE  \E P \in SUBSET Accounts : Greedy(P, Pick(a, p, f, order, theirs), a, p, f, theirs)
<1> DEFINE sign == Sign(p)
           x == [a |-> a, sign |-> sign, theirs |-> theirs, order |-> order,
                 base |-> Base(p), owe |-> Owing(p, f)]
           start == IF sign = 1
                    THEN [pnl |-> p, instructions |-> <<>>, stop |-> FALSE]
                    ELSE [pnl |-> AfterFees(p, f), instructions |-> <<SettleFees>>,
                          stop |-> FALSE]
           n == Len(order)
<1>1. /\ x.a = a /\ x.sign = sign /\ x.theirs = theirs /\ x.order = order
      /\ x.base = Base(p) /\ x.owe = Owing(p, f)
  OBVIOUS
<1>2. /\ start.instructions = Base(p) /\ start.stop = FALSE
      /\ start.pnl = sign * Owing(p, f)
  BY OwingType DEF Base
<1> HIDE DEF x, start
<1>3. Pick(a, p, f, order, theirs) = Picks!Over(x, start, order).instructions
  <2>1. FoldLeft(LAMBDA st, b : Visit(a, sign, st, b, theirs[b]), start, order)
          = Picks!Over(x, start, order)
    BY <1>1 DEF FoldLeft, MapThenFoldSet, Max, Picks!Over, Picks!Largest, Picking
  <2>2. QED
    BY <2>1 DEF Pick, start
<1>4. Context(x)
  <2>1. sign \in {1, -1} /\ Owing(p, f) \in Nat \ {0} /\ Base(p) \in {<<>>, <<SettleFees>>}
    BY OwingType
  <2>2. /\ order \in Seq(Accounts) /\ IsInjective(order) /\ ToSet(order) = Accounts
        /\ Sorted(order, sign, theirs)
    BY OrderLists
  <2> HIDE DEF sign
  <2>3. QED
    BY <1>1, <2>1, <2>2 DEF Context
<1>5. n \in Nat /\ DOMAIN order = 1..n /\ Len(x.order) = n
  BY <1>1, OrderLists
<1>6. Chosen(x, start, 0, {})
  <2>1. SumOver({}, theirs) = 0
    BY SumAdds
  <2>2. Base(p) \in {<<>>, <<SettleFees>>} /\ Owing(p, f) \in Nat \ {0} /\ sign \in {1, -1}
    BY OwingType
  <2>3. Cardinality({}) = 0
    BY FS_EmptySet
  <2>4. Listed(Base(p), a, Base(p), {}) /\ Len(Base(p)) <= MaxInstructions
    <3>1. CASE Base(p) = <<>>
      BY <2>3, <3>1, MangoPerpAssumption DEF Listed, IsInjective
    <3>2. CASE Base(p) = <<SettleFees>>
      <4>1. SettleFees \in Instr(a)
        BY DEF Instr
      <4> DEFINE e == SettleFees
                 T == Instr(a)
                 s == <<e>>
      <4> HIDE DEF e, T
      <4>2. s \in Seq(T) /\ Len(s) = 1 /\ DOMAIN s = 1..1
        BY <4>1 DEF e, T
      <4>3. IsInjective(s)
        BY <4>2 DEF IsInjective
      <4>4. Listed(s, a, s, {})
        BY <2>3, <4>2, <4>3 DEF Listed, T
      <4>5. QED
        BY <3>2, <4>2, <4>4, MangoPerpAssumption DEF e
    <3>3. QED
      BY <2>2, <3>1, <3>2
  <2>5. Seen(x, 0) = {}
    BY DEF Seen
  <2>6. Owing(p, f) = Owing(p, f) - 0 /\ ~(0 >= Owing(p, f)) /\ 0 <= Owing(p, f)
    BY <2>2
  <2>7. QED
    BY <1>1, <1>2, <2>1, <2>4, <2>5, <2>6 DEF Chosen
<1>7. Picked(x, start, 0)
  BY <1>6 DEF Picked
<1>8. \A k \in 1..n : \A st : Picked(x, st, k - 1) => Picked(x, Picking(x, st, order[k]), k)
  BY <1>1, <1>4, <1>5, VisitKeeps
<1>9. Picked(x, Picks!Over(x, start, order), n)
  BY <1>5, <1>7, <1>8, Picks!FoldKeeps
<1> DEFINE st == Picks!Over(x, start, order)
<1> HIDE DEF st
<1>10. PICK P \in SUBSET Accounts : Chosen(x, st, n, P)
  BY <1>9 DEF Picked, st
<1>11. Counter(x) = CounterpartiesOf(a, p, theirs)
  <2>1. \A b \in Accounts : Opposite(p, theirs[b]) <=> Opposite(sign, theirs[b])
    BY OwingType
  <2> HIDE DEF sign
  <2>2. QED
    BY <1>1, <2>1 DEF Counter, CounterpartiesOf
<1>12. Seen(x, n) = Accounts
  BY <1>1, <1>5, OrderLists DEF Seen, ToSet
<1>13. CounterpartiesOf(a, p, theirs) \subseteq Accounts
  BY DEF CounterpartiesOf
<1>14. Greedy(P, st.instructions, a, p, f, theirs)
  BY <1>1, <1>10, <1>11, <1>12, <1>13 DEF Chosen, Greedy
<1>15. QED
  BY <1>3, <1>14 DEF st

-----------------------------------------------------------------------------
(* The transaction.  What one settlement leaves to its account.            *)
Left(n) == IF n < 0 THEN 0 ELSE n

LEMMA Settles ==
  ASSUME NEW a \in Accounts, NEW b \in Accounts \ {a}, NEW d \in Chain
  PROVE  LET e == Effect(a, d, SettlePnl(b))
             m == Min({Abs(d.pnl[a]), Abs(d.pnl[b])}) IN
         /\ e \in Chain
         /\ \A c \in Accounts \ {a, b} : e.pnl[c] = d.pnl[c]
         /\ e.pnl[a] = IF Opposite(d.pnl[a], d.pnl[b])
                       THEN d.pnl[a] - Sign(d.pnl[a]) * m ELSE d.pnl[a]
<1> DEFINE p == d.pnl
           e == Effect(a, d, SettlePnl(b))
           m == Min({Abs(p[a]), Abs(p[b])})
           q == [p EXCEPT ![a] = @ - Sign(@) * m]
           r == [q EXCEPT ![b] = @ - Sign(@) * m]
<1>1. p \in [Accounts -> Int] /\ d.fees \in Nat /\ d = [pnl |-> p, fees |-> d.fees]
  BY DEF Chain
<1> HIDE DEF p
<1>2. m \in Int
  <2>1. Abs(p[a]) \in Int /\ Abs(p[b]) \in Int
    BY <1>1 DEF Abs
  <2>2. QED
    BY <2>1, MinOfTwo
<1> HIDE DEF m
<1>3. /\ q \in [Accounts -> Int] /\ q[a] = p[a] - Sign(p[a]) * m
      /\ \A c \in Accounts \ {a} : q[c] = p[c]
  BY <1>1, <1>2 DEF Sign
<1> HIDE DEF q
<1>4. /\ r \in [Accounts -> Int] /\ r[a] = q[a]
      /\ \A c \in Accounts \ {b} : r[c] = q[c]
  BY <1>2, <1>3 DEF Sign
<1>5. CASE Opposite(p[a], p[b])
  <2>1. e = [pnl |-> r, fees |-> d.fees]
    <3> DEFINE i == SettlePnl(b)
    <3>1. IsPnl(i) /\ i.with = b
      BY Distinct
    <3> HIDE DEF i
    <3>2. Effect(a, d, i) = [d EXCEPT !.pnl[a] = @ - Sign(@) * m, !.pnl[b] = @ - Sign(@) * m]
      BY <1>5, <3>1 DEF Effect, p, m
    <3>3. QED
      BY <1>1, <3>2 DEF p, q, i
  <2> HIDE DEF e, r
  <2>2. QED
    BY <1>1, <1>3, <1>4, <1>5, <2>1 DEF Chain, e, m, p
<1>6. CASE ~Opposite(p[a], p[b])
  <2>1. e = d
    BY <1>6, Distinct DEF Effect, p
  <2>2. QED
    BY <1>6, <2>1 DEF p
<1>7. QED
  BY <1>5, <1>6

LEMMA Remainder ==
  ASSUME NEW sign \in {1, -1}, NEW left \in Nat, NEW t \in Int, Opposite(sign, t)
  PROVE  LET own == sign * left IN
         (IF Opposite(own, t) THEN own - Sign(own) * Min({Abs(own), Abs(t)}) ELSE own)
           = sign * Left(left - Abs(t))
<1>1. Abs(t) \in Nat \ {0}
  BY Against
<1>2. CASE left = 0
  BY <1>1, <1>2 DEF Opposite, Left
<1>3. CASE left # 0 /\ sign = 1
  <2>1. sign * left = left /\ left > 0 /\ Abs(left) = left
    BY <1>3 DEF Abs
  <2>2. Opposite(left, t) /\ Sign(left) = 1
    BY <1>3, <2>1 DEF Opposite, Sign
  <2>3. Min({left, Abs(t)}) = IF left <= Abs(t) THEN left ELSE Abs(t)
    BY <1>1, MinOfTwo
  <2>4. QED
    BY <1>1, <1>3, <2>1, <2>2, <2>3 DEF Left
<1>4. CASE left # 0 /\ sign = -1
  <2>1. sign * left = -left /\ -left < 0 /\ Abs(-left) = left
    BY <1>4 DEF Abs
  <2>2. Opposite(-left, t) /\ Sign(-left) = -1
    BY <1>4, <2>1 DEF Opposite, Sign
  <2>3. Min({left, Abs(t)}) = IF left <= Abs(t) THEN left ELSE Abs(t)
    BY <1>1, MinOfTwo
  <2>4. QED
    BY <1>1, <1>4, <2>1, <2>2, <2>3 DEF Left
<1>5. QED
  BY <1>2, <1>3, <1>4

LEMMA PaysFees ==
  ASSUME NEW a \in Accounts, NEW d \in Chain
  PROVE  LET e == Effect(a, d, SettleFees) IN
         /\ e \in Chain
         /\ \A c \in Accounts \ {a} : e.pnl[c] = d.pnl[c]
         /\ d.pnl[a] < 0 => e.pnl[a] = -Left(-(d.pnl[a] + d.fees))
<1> DEFINE p == d.pnl
           f == d.fees
           e == Effect(a, d, SettleFees)
           m == Min({Abs(p[a]), f})
           q == [p EXCEPT ![a] = @ + m]
<1>1. p \in [Accounts -> Int] /\ f \in Nat /\ d = [pnl |-> p, fees |-> f]
  BY DEF Chain
<1> HIDE DEF p, f
<1>2. Abs(p[a]) \in Nat /\ (p[a] < 0 => Abs(p[a]) = -p[a])
  BY <1>1 DEF Abs
<1>3. m = IF Abs(p[a]) <= f THEN Abs(p[a]) ELSE f
  BY <1>1, <1>2, MinOfTwo
<1> HIDE DEF m
<1>4. m \in Nat /\ f - m \in Nat
  BY <1>1, <1>2, <1>3
<1>5. q \in [Accounts -> Int] /\ q[a] = p[a] + m /\ \A c \in Accounts \ {a} : q[c] = p[c]
  BY <1>1, <1>4
<1>6. CASE p[a] < 0
  <2>1. e = [pnl |-> q, fees |-> f - m]
    <3>1. e = [d EXCEPT !.pnl[a] = @ + m, !.fees = @ - m]
      BY <1>6, Distinct DEF Effect, p, f, m
    <3>2. QED
      BY <1>1, <3>1 DEF p, f
  <2>2. p[a] + m = -Left(-(p[a] + f))
    BY <1>1, <1>2, <1>3, <1>6 DEF Left
  <2> HIDE DEF e, q
  <2>3. QED
    BY <1>4, <1>5, <2>1, <2>2 DEF Chain, e, p, f
<1>7. CASE ~(p[a] < 0)
  <2>1. e = d
    BY <1>7, Distinct DEF Effect, p
  <2>2. QED
    BY <1>7, <2>1 DEF p
<1>8. QED
  BY <1>6, <1>7

(* The counterparties that the first j instructions settle against.        *)
Reached(list, m, j) == {b \in Accounts : \E i \in 1..j : i > m /\ list[i] = SettlePnl(b)}

(* A transaction of account a on the chain c: list is a base and then the  *)
(* members of P, all on the other side.                                    *)
Exact(y) ==
  /\ y.sign \in {1, -1} /\ y.owed \in Nat /\ y.base \in {<<>>, <<SettleFees>>}
  /\ \A b \in y.chosen : Opposite(y.sign, y.c.pnl[b])
  /\ Listed(y.list, y.a, y.base, y.chosen)
  /\ y.base = <<>> => y.c.pnl[y.a] = y.sign * y.owed
  /\ y.base = <<SettleFees>> => /\ y.sign = -1 /\ y.c.pnl[y.a] < 0
                                /\ y.owed = Left(-(y.c.pnl[y.a] + y.c.fees))

(* After j instructions the others are as they were unless settled with,   *)
(* and the account itself has paid, or been paid, by all of those.         *)
Settled(y, d, j) ==
  LET m == Len(y.base)
      by == Reached(y.list, m, j) IN
  /\ d \in Chain
  /\ Exact(y) =>
       /\ \A b \in Accounts \ {y.a} : b \notin by => d.pnl[b] = y.c.pnl[b]
       /\ j < m => d = y.c
       /\ j >= m => d.pnl[y.a] = y.sign * Left(y.owed - SumOver(by, y.c.pnl))

Settling(y, d, i) == Effect(y.a, d, i)
Runs == INSTANCE FoldTheorems WITH Step <- Settling, Keeps <- Settled

Transaction(y) ==
  /\ y.a \in Accounts /\ y.c \in Chain /\ y.list \in Seq(Instr(y.a))
  /\ y.chosen \subseteq Accounts \ {y.a}

Reaches(y, j, b) ==
  LET m == Len(y.base) IN
  /\ y.list[j] = SettlePnl(b)
  /\ b \notin Reached(y.list, m, j - 1)
  /\ Reached(y.list, m, j) = Reached(y.list, m, j - 1) \cup {b}

LEMMA OneMoreReached ==
  ASSUME NEW y, Transaction(y), Exact(y), NEW j \in 1..Len(y.list), j > Len(y.base)
  PROVE  \E b \in y.chosen : Reaches(y, j, b)
<1> DEFINE list == y.list
           m == Len(y.base)
<1>1. Listed(list, y.a, y.base, y.chosen) /\ y.chosen \subseteq Accounts
  BY DEF Exact, Transaction
<1>2. PICK b \in y.chosen : list[j] = SettlePnl(b)
  BY <1>1 DEF Listed
<1>3. DOMAIN list = 1..Len(list) /\ Len(list) \in Nat /\ IsInjective(list)
  BY <1>1 DEF Listed
<1> HIDE DEF list
<1>4. \A i \in 1..j - 1 : i \in 1..j /\ i \in 1..Len(list) /\ i # j
  BY <1>3 DEF list
<1>5. \A i \in 1..j : i = j \/ i \in 1..j - 1
  OBVIOUS
<1>6. \A i \in 1..j - 1 : list[i] # SettlePnl(b)
  BY <1>2, <1>3, <1>4 DEF IsInjective, list
<1>7. b \notin Reached(list, m, j - 1)
  BY <1>6 DEF Reached
<1>8. Reached(list, m, j) = Reached(list, m, j - 1) \cup {b}
  <2>1. \A c \in Accounts : c \in Reached(list, m, j) =>
           c \in Reached(list, m, j - 1) \/ c = b
    BY <1>2, <1>5, Distinct DEF Reached
  <2>2. \A c \in Accounts : c \in Reached(list, m, j - 1) => c \in Reached(list, m, j)
    BY <1>4 DEF Reached
  <2>3. b \in Reached(list, m, j)
    <3>1. j \in 1..j /\ j > m /\ b \in Accounts
      BY <1>1
    <3>2. QED
      BY <1>2, <3>1 DEF Reached
  <2>4. Reached(list, m, j) \subseteq Accounts /\ Reached(list, m, j - 1) \subseteq Accounts
    BY DEF Reached
  <2>5. QED
    BY <1>1, <2>1, <2>2, <2>3, <2>4
<1>9. QED
  BY <1>2, <1>7, <1>8 DEF list, Reaches

LEMMA SettlingKeeps ==
  ASSUME NEW y, Transaction(y), NEW j \in 1..Len(y.list), NEW d, Settled(y, d, j - 1)
  PROVE  Settled(y, Settling(y, d, y.list[j]), j)
<1> DEFINE a == y.a
           i == y.list[j]
           e == Effect(a, d, i)
           m == Len(y.base)
           before == Reached(y.list, m, j - 1)
           now == Reached(y.list, m, j)
<1>1. a \in Accounts /\ d \in Chain /\ y.c \in Chain /\ i \in Instr(a)
  <2>1. i \in Instr(a)
    <3> DEFINE T == Instr(a)
    <3>1. y.list \in Seq(T)
      BY DEF Transaction
    <3> HIDE DEF T
    <3>2. i \in T
      BY <3>1
    <3>3. QED
      BY <3>2 DEF T
  <2>2. QED
    BY <2>1 DEF Transaction, Settled
<1>2. e \in Chain
  <2>1. CASE i = SettleFees
    BY <1>1, <2>1, PaysFees
  <2>2. CASE \E b \in Accounts \ {a} : i = SettlePnl(b)
    BY <1>1, <2>2, Settles
  <2>3. QED
    BY <1>1, <2>1, <2>2 DEF Instr
<1> HIDE DEF e, i, now, before
<1>3. ASSUME Exact(y)
      PROVE  /\ \A b \in Accounts \ {a} : b \notin now => e.pnl[b] = y.c.pnl[b]
             /\ j < m => e = y.c
             /\ j >= m => e.pnl[a] = y.sign * Left(y.owed - SumOver(now, y.c.pnl))
  <2>0. m \in 0..1 /\ (m = 1 => y.base = <<SettleFees>>) /\ j >= 1 /\ j \in Nat
    <3>1. y.base \in {<<>>, <<SettleFees>>}
      BY <1>3 DEF Exact
    <3>2. Len(<<>>) = 0 /\ Len(<<SettleFees>>) = 1
      OBVIOUS
    <3>3. QED
      BY <3>1, <3>2
  <2>1. CASE j <= m
    <3>1. j = 1 /\ m = 1 /\ y.base = <<SettleFees>> /\ j - 1 < m
      <4> HIDE DEF m
      <4>1. QED
        BY <2>0, <2>1
    <3>2. d = y.c /\ i = SettleFees
      <4>1. d = y.c
        BY <1>3, <3>1 DEF Settled
      <4>2. i = y.base[1]
        BY <1>3, <3>1 DEF Exact, Listed, i
      <4>3. QED
        BY <3>1, <4>1, <4>2
    <3>3. now = {}
      BY <3>1 DEF now, Reached
    <3>4. SumOver(now, y.c.pnl) = 0
      BY <1>1, <3>3, SumAdds DEF Chain
    <3>5. /\ y.sign = -1 /\ y.c.pnl[a] < 0 /\ y.owed = Left(-(y.c.pnl[a] + y.c.fees))
          /\ y.owed \in Nat
      BY <1>3, <3>1 DEF Exact
    <3>6. e.pnl[a] = -y.owed /\ \A c \in Accounts \ {a} : e.pnl[c] = y.c.pnl[c]
      <4> DEFINE c0 == y.c
                 r == Effect(a, c0, SettleFees)
      <4>1. c0 \in Chain /\ c0.pnl[a] < 0 /\ e = r
        BY <1>1, <3>2, <3>5 DEF e
      <4> HIDE DEF c0
      <4>2. /\ r.pnl[a] = -Left(-(c0.pnl[a] + c0.fees))
            /\ \A c \in Accounts \ {a} : r.pnl[c] = c0.pnl[c]
        BY <1>1, <4>1, PaysFees
      <4> HIDE DEF r
      <4>3. QED
        BY <3>5, <4>1, <4>2 DEF c0
    <3>7. Left(y.owed - 0) = y.owed /\ -y.owed = y.sign * y.owed
      BY <3>5 DEF Left
    <3>8. QED
      BY <3>1, <3>4, <3>6, <3>7
  <2>2. CASE j > m
    <3>1. PICK b \in y.chosen : /\ i = SettlePnl(b) /\ b \notin before
                                /\ now = before \cup {b}
      <4>1. j > Len(y.base)
        BY <2>2
      <4>2. \E b \in y.chosen : Reaches(y, j, b)
        BY <1>3, <4>1, OneMoreReached
      <4>3. QED
        BY <4>2 DEF i, now, before, Reaches
    <3>2. b \in Accounts \ {a}
      BY <3>1 DEF Transaction
    <3>3. before \in SUBSET Accounts /\ now \in SUBSET Accounts
      BY DEF before, now, Reached
    <3>4. /\ \A c \in Accounts \ {a} : c \notin before => d.pnl[c] = y.c.pnl[c]
          /\ d.pnl[a] = y.sign * Left(y.owed - SumOver(before, y.c.pnl))
      <4>1. j - 1 >= m
        BY <2>0, <2>2
      <4>2. QED
        BY <1>3, <4>1 DEF Settled, before
    <3> DEFINE t == y.c.pnl[b]
               sum == SumOver(before, y.c.pnl)
               left == Left(y.owed - sum)
    <3>5. t \in Int /\ d.pnl[b] = t /\ Opposite(y.sign, t)
      BY <1>1, <1>3, <3>1, <3>2, <3>4 DEF Exact, Chain
    <3>6. sum \in Nat /\ Abs(t) \in Nat /\ SumOver(now, y.c.pnl) = Abs(t) + sum
      <4>1. y.c.pnl \in [Accounts -> Int]
        BY <1>1 DEF Chain
      <4>2. now \ {b} = before /\ b \in now
        BY <3>1
      <4>3. QED
        BY <3>3, <4>1, <4>2, SumAdds
    <3>7. y.sign \in {1, -1} /\ y.owed \in Nat
      BY <1>3 DEF Exact
    <3> HIDE DEF t, sum
    <3>8. left \in Nat /\ Left(left - Abs(t)) = Left(y.owed - (Abs(t) + sum))
      BY <3>6, <3>7 DEF Left
    <3>9. d.pnl[a] = y.sign * left
      BY <3>4 DEF sum
    <3> HIDE DEF left
    <3>10. /\ \A c \in Accounts \ {a, b} : e.pnl[c] = d.pnl[c]
           /\ e.pnl[a] = IF Opposite(d.pnl[a], t)
                         THEN d.pnl[a] - Sign(d.pnl[a]) * Min({Abs(d.pnl[a]), Abs(t)})
                         ELSE d.pnl[a]
      <4> DEFINE r == Effect(a, d, SettlePnl(b))
      <4>1. /\ \A c \in Accounts \ {a, b} : r.pnl[c] = d.pnl[c]
            /\ r.pnl[a] = IF Opposite(d.pnl[a], d.pnl[b])
                          THEN d.pnl[a] - Sign(d.pnl[a]) * Min({Abs(d.pnl[a]), Abs(d.pnl[b])})
                          ELSE d.pnl[a]
        <5> HIDE DEF a
        <5>1. QED
          BY <1>1, <3>2, Settles
      <4>2. e = r
        BY <3>1 DEF e
      <4> HIDE DEF r
      <4>3. QED
        BY <3>5, <4>1, <4>2
    <3>11. e.pnl[a] = y.sign * Left(left - Abs(t))
      <4> DEFINE sign == y.sign
      <4>1. sign \in {1, -1} /\ left \in Nat /\ t \in Int /\ Opposite(sign, t)
        BY <3>5, <3>7, <3>8
      <4> HIDE DEF sign
      <4>2. (IF Opposite(sign * left, t)
             THEN sign * left - Sign(sign * left) * Min({Abs(sign * left), Abs(t)})
             ELSE sign * left) = sign * Left(left - Abs(t))
        BY <4>1, Remainder
      <4>3. d.pnl[a] = sign * left
        BY <3>9 DEF sign
      <4>4. QED
        BY <3>10, <4>2, <4>3 DEF sign
    <3>12. \A c \in Accounts \ {a} : c \notin now => e.pnl[c] = y.c.pnl[c]
      BY <3>1, <3>4, <3>10
    <3>13. QED
      BY <2>0, <2>2, <3>6, <3>8, <3>11, <3>12
  <2>3. QED
    BY <2>0, <2>1, <2>2
<1>4. QED
  BY <1>2, <1>3 DEF Settled, Settling, e, i, now

LEMMA RunKeeps ==
  ASSUME NEW y, Transaction(y)
  PROVE  Settled(y, Run(y.a, y.c, y.list), Len(y.list))
<1> DEFINE n == Len(y.list)
<1>1. n \in Nat /\ DOMAIN y.list = 1..n
  <2> DEFINE T == Instr(y.a)
             s == y.list
  <2>1. s \in Seq(T)
    BY DEF Transaction
  <2> HIDE DEF T, s
  <2>2. Len(s) \in Nat /\ DOMAIN s = 1..Len(s)
    BY <2>1
  <2>3. QED
    BY <2>2 DEF s
<1>2. Run(y.a, y.c, y.list) = Runs!Over(y, y.c, y.list)
  BY DEF Run, FoldLeft, MapThenFoldSet, Max, Runs!Over, Runs!Largest, Settling
<1>3. Settled(y, y.c, 0)
  <2>1. y.c \in Chain
    BY DEF Transaction
  <2>2. Reached(y.list, Len(y.base), 0) = {}
    BY DEF Reached
  <2>3. SumOver({}, y.c.pnl) = 0
    BY <2>1, SumAdds DEF Chain
  <2>4. ASSUME Exact(y)
        PROVE  0 >= Len(y.base) => y.c.pnl[y.a] = y.sign * Left(y.owed - 0)
    <3>1. y.owed \in Nat /\ y.base \in {<<>>, <<SettleFees>>}
      BY <2>4 DEF Exact
    <3>2. Left(y.owed - 0) = y.owed
      BY <3>1 DEF Left
    <3>3. 0 >= Len(y.base) => y.base = <<>>
      BY <3>1
    <3>4. QED
      BY <2>4, <3>2, <3>3 DEF Exact
  <2>5. QED
    BY <2>1, <2>2, <2>3, <2>4 DEF Settled
<1>4. \A j \in 1..n : \A d : Settled(y, d, j - 1) => Settled(y, Settling(y, d, y.list[j]), j)
  BY SettlingKeeps
<1> HIDE DEF n
<1>5. Settled(y, Runs!Over(y, y.c, y.list), n)
  BY <1>1, <1>3, <1>4, Runs!FoldKeeps
<1>6. QED
  BY <1>2, <1>5 DEF n

LEMMA RunIsChain ==
  ASSUME NEW a \in Accounts, NEW c \in Chain, NEW list \in Seq(Instr(a))
  PROVE  Run(a, c, list) \in Chain
<1> DEFINE y == [a |-> a, c |-> c, list |-> list, chosen |-> {}]
<1>1. y.a = a /\ y.c = c /\ y.list = list /\ y.chosen = {}
  OBVIOUS
<1> HIDE DEF y
<1>2. Transaction(y)
  BY <1>1 DEF Transaction
<1>3. QED
  BY <1>1, <1>2, RunKeeps DEF Settled

-----------------------------------------------------------------------------
(* What the greedy choice leaves is what the best choice leaves.           *)
LEMMA OwedIs ==
  ASSUME NEW a \in Accounts, NEW c \in Chain
  PROVE  /\ c.pnl \in [Accounts -> Int] /\ c.pnl[a] \in Int /\ c.fees \in Nat
         /\ Owed(a, c) \in Nat
         /\ c.pnl[a] < 0 => Owed(a, c) = Left(-(c.pnl[a] + c.fees))
         /\ c.pnl[a] >= 0 => Owed(a, c) = c.pnl[a]
         /\ c.pnl[a] # 0 =>
              /\ Owed(a, c) <= Owing(c.pnl[a], c.fees)
              /\ Owed(a, c) > 0 => Owed(a, c) = Owing(c.pnl[a], c.fees)
              /\ Room(a, c) = MaxInstructions - Len(Base(c.pnl[a]))
<1> DEFINE p == c.pnl[a]
           f == c.fees
<1>1. p \in Int /\ f \in Nat /\ c.pnl \in [Accounts -> Int]
  BY DEF Chain
<1>2. Min({p + f, 0}) = IF p + f <= 0 THEN p + f ELSE 0
  BY <1>1, MinOfTwo
<1>3. AfterFees(p, f) = IF p + f <= -1 THEN p + f ELSE -1
  BY <1>1, MinOfTwo DEF AfterFees
<1>4. Owed(a, c) = IF p < 0 THEN Abs(Min({p + f, 0})) ELSE p
  BY DEF Owed
<1>5. Room(a, c) = IF p < 0 THEN MaxInstructions - 1 ELSE MaxInstructions
  BY DEF Room
<1> HIDE DEF p, f
<1>6. CASE p < 0
  <2>1. Owed(a, c) = Left(-(p + f)) /\ Owed(a, c) \in Nat
    BY <1>1, <1>2, <1>4, <1>6 DEF Abs, Left
  <2>2. Owing(p, f) = -AfterFees(p, f) /\ Base(p) = <<SettleFees>>
    BY <1>1, <1>6 DEF Owing, Base, Sign
  <2>3. /\ Owed(a, c) <= Owing(p, f)
        /\ Owed(a, c) > 0 => Owed(a, c) = Owing(p, f)
    BY <1>1, <1>3, <2>1, <2>2 DEF Left
  <2>4. Room(a, c) = MaxInstructions - Len(Base(p))
    BY <1>5, <1>6, <2>2
  <2>5. QED
    BY <1>1, <1>6, <2>1, <2>3, <2>4 DEF p, f
<1>7. CASE p >= 0
  <2>1. Owed(a, c) = p
    BY <1>1, <1>4, <1>7
  <2>2. p # 0 => Owing(p, f) = p /\ Base(p) = <<>>
    BY <1>1, <1>7 DEF Owing, Base, Sign
  <2>3. p # 0 => Room(a, c) = MaxInstructions - Len(Base(p))
    BY <1>1, <1>5, <1>7, <2>2, MangoPerpAssumption
  <2>4. QED
    BY <1>1, <1>7, <2>1, <2>2, <2>3 DEF p, f
<1>8. QED
  BY <1>1, <1>6, <1>7

LEMMA ResidualIs ==
  ASSUME NEW a \in Accounts, NEW c \in Chain, NEW S \in SUBSET Accounts
  PROVE  /\ SumOver(S, c.pnl) \in Nat
         /\ Residual(a, c, S) = Left(Owed(a, c) - SumOver(S, c.pnl))
         /\ Residual(a, c, S) \in Nat
<1> DEFINE s == SumOver(S, c.pnl)
           o == Owed(a, c)
<1>1. s \in Nat /\ o \in Nat
  BY SumAdds, OwedIs
<1>2. Residual(a, c, S) = Abs(Min({s - o, 0}))
  BY DEF Residual
<1> HIDE DEF s, o
<1>3. Min({s - o, 0}) = IF s - o <= 0 THEN s - o ELSE 0
  BY <1>1, MinOfTwo
<1>4. Abs(Min({s - o, 0})) = Left(o - s) /\ Left(o - s) \in Nat
  BY <1>1, <1>3 DEF Abs, Left
<1>5. QED
  BY <1>1, <1>2, <1>4 DEF s, o

GreedyOn(P, list, a, c) == Greedy(P, list, a, c.pnl[a], c.fees, c.pnl)

LEMMA GreedyPays ==
  ASSUME NEW a \in Accounts, NEW c \in Chain, c.pnl[a] # 0,
         NEW list, NEW P \in SUBSET Accounts, GreedyOn(P, list, a, c)
  PROVE  Abs(Run(a, c, list).pnl[a]) = Residual(a, c, P)
<1> DEFINE p == c.pnl[a]
           y == [a |-> a, c |-> c, list |-> list, chosen |-> P,
                 sign |-> Sign(p), owed |-> Owed(a, c), base |-> Base(p)]
           n == Len(list)
           m == Len(Base(p))
<1>1. /\ y.a = a /\ y.c = c /\ y.list = list /\ y.chosen = P /\ y.sign = Sign(p)
      /\ y.owed = Owed(a, c) /\ y.base = Base(p)
  OBVIOUS
<1> HIDE DEF y
<1>2. p \in Int \ {0} /\ c.fees \in Nat /\ Owed(a, c) \in Nat /\ c.pnl \in [Accounts -> Int]
  BY OwedIs
<1>3. /\ P \subseteq CounterpartiesOf(a, p, c.pnl) /\ Listed(list, a, Base(p), P)
  BY DEF GreedyOn, Greedy
<1>4. /\ Sign(p) \in {1, -1} /\ Base(p) \in {<<>>, <<SettleFees>>}
      /\ (Sign(p) = 1 /\ p > 0) \/ (Sign(p) = -1 /\ p < 0)
      /\ \A k \in Int : Opposite(p, k) <=> Opposite(Sign(p), k)
  BY <1>2, OwingType
<1>5. P \subseteq Accounts \ {a} /\ \A b \in P : Opposite(Sign(p), c.pnl[b])
  BY <1>2, <1>3, <1>4 DEF CounterpartiesOf
<1>6. Transaction(y)
  BY <1>1, <1>3, <1>5 DEF Transaction, Listed
<1>7. Exact(y)
  <2>1. Base(p) = <<>> => Sign(p) = 1
    BY DEF Base
  <2>2. Sign(p) = 1 => Owed(a, c) = p
    BY <1>2, <1>4, OwedIs
  <2>3. Base(p) = <<SettleFees>> => Sign(p) # 1
    BY DEF Base
  <2>4. Sign(p) = -1 => p < 0 /\ Owed(a, c) = Left(-(p + c.fees))
    BY <1>4, OwedIs
  <2>5. Base(p) = <<>> => p = Sign(p) * Owed(a, c)
    <3> DEFINE o == Owed(a, c)
    <3> HIDE DEF o, p
    <3>1. Sign(p) = 1 /\ o = p => p = Sign(p) * o
      BY <1>2
    <3>2. QED
      BY <2>1, <2>2, <3>1 DEF o
  <2> HIDE DEF p
  <2>6. QED
    BY <1>1, <1>2, <1>3, <1>4, <1>5, <2>3, <2>4, <2>5 DEF Exact, p
<1>8. n \in Nat /\ m \in Nat /\ n >= m
  <2>1. IsFiniteSet(P) /\ Cardinality(P) \in Nat
    BY SumAdds, <1>2, FS_CardinalityType
  <2>2. m \in Nat /\ n = m + Cardinality(P)
    BY <1>3, <1>4 DEF Listed
  <2> HIDE DEF n, m
  <2>3. QED
    BY <2>1, <2>2
<1>9. Reached(list, m, n) = P
  BY <1>3, <1>5, Distinct DEF Reached, Listed
<1>10. Run(a, c, list).pnl[a] = Sign(p) * Left(Owed(a, c) - SumOver(P, c.pnl))
  BY <1>1, <1>6, <1>7, <1>8, <1>9, RunKeeps DEF Settled
<1>11. Residual(a, c, P) = Left(Owed(a, c) - SumOver(P, c.pnl)) /\ Residual(a, c, P) \in Nat
  BY ResidualIs
<1> DEFINE r == Residual(a, c, P)
           sign == Sign(p)
<1>12. sign \in {1, -1} /\ r \in Nat /\ Run(a, c, list).pnl[a] = sign * r
  BY <1>4, <1>10, <1>11
<1> HIDE DEF r, sign
<1>13. Abs(sign * r) = r
  BY <1>12 DEF Abs
<1>14. QED
  BY <1>12, <1>13 DEF r

LEMMA GreedyIsBest ==
  ASSUME NEW a \in Accounts, NEW c \in Chain, c.pnl[a] # 0,
         NEW list, NEW P \in SUBSET Accounts, GreedyOn(P, list, a, c)
  PROVE  /\ BestResidual(a, c) = Residual(a, c, P)
         /\ P \in SUBSET Counterparties(a, c.pnl)
         /\ Len(list) = Len(Base(c.pnl[a])) + Cardinality(P)
<1> DEFINE p == c.pnl[a]
           C == Counterparties(a, c.pnl)
           All == {S \in SUBSET C : Cardinality(S) <= Room(a, c)}
           R == {Residual(a, c, S) : S \in All}
<1>1. /\ p \in Int \ {0} /\ c.fees \in Nat /\ c.pnl \in [Accounts -> Int]
      /\ Room(a, c) = MaxInstructions - Len(Base(p))
      /\ Owed(a, c) \in Nat /\ Owed(a, c) <= Owing(p, c.fees)
  BY OwedIs
<1>2. C = CounterpartiesOf(a, p, c.pnl) /\ C \in SUBSET Accounts
  BY DEF CounterpartiesOf, Counterparties
<1>3. /\ P \subseteq C /\ Listed(list, a, Base(p), P) /\ Len(list) <= MaxInstructions
      /\ \A b \in P : \A d \in C \ P : Abs(c.pnl[d]) <= Abs(c.pnl[b])
      /\ P = C \/ SumOver(P, c.pnl) >= Owing(p, c.fees) \/ Len(list) = MaxInstructions
  BY <1>2 DEF GreedyOn, Greedy
<1>4. Len(list) = Len(Base(p)) + Cardinality(P) /\ Len(Base(p)) \in 0..1
  <2>1. Base(p) \in {<<>>, <<SettleFees>>}
    BY <1>1, OwingType
  <2>2. QED
    BY <1>3, <2>1 DEF Listed
<1>5. \A S \in SUBSET C : IsFiniteSet(S) /\ Cardinality(S) \in Nat
  BY <1>1, <1>2, SumAdds, FS_CardinalityType
<1> HIDE DEF C, p
<1>6. P \in All
  <2>1. Cardinality(P) <= Room(a, c)
    BY <1>1, <1>3, <1>4, <1>5, MangoPerpAssumption
  <2>2. QED
    BY <1>3, <2>1
<1>7. ASSUME NEW S \in All
      PROVE  Residual(a, c, P) <= Residual(a, c, S)
  <2> DEFINE s == SumOver(S, c.pnl)
             t == SumOver(P, c.pnl)
             o == Owed(a, c)
  <2>1. S \in SUBSET Accounts
    BY <1>2
  <2>2. /\ s \in Nat /\ t \in Nat /\ o \in Nat
        /\ Residual(a, c, P) = Left(o - t) /\ Residual(a, c, S) = Left(o - s)
    BY <2>1, ResidualIs, OwedIs
  <2>3. CASE t >= Owing(p, c.fees)
    <3> HIDE DEF s, t, o
    <3>1. Owing(p, c.fees) \in Nat /\ o <= Owing(p, c.fees)
      BY <1>1, OwingType DEF o
    <3>2. o <= t
      BY <2>2, <2>3, <3>1
    <3>3. QED
      BY <2>2, <3>2 DEF Left
  <2>4. CASE P = C \/ Len(list) = MaxInstructions
    <3>1. Cardinality(S) <= Cardinality(P)
      <4>1. CASE P = C
        BY <1>5, <4>1, FS_Subset
      <4>2. CASE Len(list) = MaxInstructions
        <5>1. Cardinality(S) <= Room(a, c)
          OBVIOUS
        <5>2. QED
          BY <1>1, <1>3, <1>4, <1>5, <4>2, <5>1, MangoPerpAssumption
      <4>3. QED
        BY <2>4, <4>1, <4>2
    <3>2. Outweighs(P, S, c.pnl)
      BY <1>3, <3>1 DEF Outweighs
    <3>3. s <= t
      BY <1>1, <2>1, <3>2, Heaviest
    <3> HIDE DEF s, t, o
    <3>4. QED
      BY <2>2, <3>3 DEF Left
  <2>5. QED
    BY <1>3, <2>3, <2>4
<1>8. BestResidual(a, c) = Min(R)
  BY DEF BestResidual, C
<1>9. Min(R) = Residual(a, c, P)
  <2>1. Residual(a, c, P) \in R /\ \A r \in R : Residual(a, c, P) <= r
    BY <1>6, <1>7
  <2>2. R \subseteq Nat
    BY <1>2, ResidualIs
  <2> DEFINE best == Residual(a, c, P)
  <2> HIDE DEF R, best, All
  <2>3. best \in R /\ best \in Nat /\ \A r \in R : best <= r
    BY <2>1, <2>2 DEF best
  <2>4. Min(R) \in R /\ \A r \in R : Min(R) <= r
    BY <2>3 DEF Min
  <2>5. Min(R) \in Nat /\ Min(R) <= best /\ best <= Min(R)
    BY <2>2, <2>3, <2>4
  <2>6. QED
    BY <2>3, <2>5 DEF best
<1>10. QED
  BY <1>3, <1>4, <1>8, <1>9 DEF p, C

(* One counterparty fewer, and the one left out was needed.                *)
LEMMA GreedyIsFewest ==
  ASSUME NEW a \in Accounts, NEW c \in Chain, c.pnl[a] > 0,
         NEW list, NEW P \in SUBSET Accounts, GreedyOn(P, list, a, c),
         NEW S \in SUBSET Counterparties(a, c.pnl), Cardinality(S) < Len(list)
  PROVE  Residual(a, c, S) > Residual(a, c, P)
<1> DEFINE p == c.pnl[a]
           C == Counterparties(a, c.pnl)
<1>1. p \in Int \ {0} /\ p > 0 /\ c.fees \in Nat /\ c.pnl \in [Accounts -> Int]
  BY OwedIs
<1>2. C = CounterpartiesOf(a, p, c.pnl) /\ C \in SUBSET Accounts
  BY DEF CounterpartiesOf, Counterparties
<1>3. Owing(p, c.fees) = p /\ Base(p) = <<>> /\ Owed(a, c) = p
  <2>1. Sign(p) = 1
    BY <1>1 DEF Sign
  <2>2. QED
    BY <1>1, <2>1, OwedIs DEF Owing, Base
<1>4. /\ P \subseteq C
      /\ \A b \in P : \A d \in C \ P : Abs(c.pnl[d]) <= Abs(c.pnl[b])
      /\ P # {} => \E l \in P : /\ SumOver(P \ {l}, c.pnl) < p
                                /\ \A b \in P : Abs(c.pnl[l]) <= Abs(c.pnl[b])
  BY <1>2, <1>3 DEF GreedyOn, Greedy
<1>5. Len(list) = Cardinality(P)
  <2>1. Len(list) = Len(Base(p)) + Cardinality(P)
    BY <1>1, GreedyIsBest
  <2>2. IsFiniteSet(P) /\ Cardinality(P) \in Nat
    BY <1>1, SumAdds, FS_CardinalityType
  <2>3. QED
    BY <1>3, <2>1, <2>2
<1>6. S \in SUBSET Accounts /\ IsFiniteSet(S) /\ Cardinality(S) \in Nat
  BY <1>1, <1>2, SumAdds, FS_CardinalityType
<1>7. IsFiniteSet(P) /\ Cardinality(P) \in Nat
  BY <1>1, SumAdds, FS_CardinalityType
<1>8. P # {}
  BY <1>5, <1>6, <1>7, FS_EmptySet
<1>9. PICK l \in P : /\ SumOver(P \ {l}, c.pnl) < p
                     /\ \A b \in P : Abs(c.pnl[l]) <= Abs(c.pnl[b])
  BY <1>4, <1>8
<1> HIDE DEF C, p
<1> DEFINE Q == P \ {l}
<1>10. Outweighs(Q, S, c.pnl)
  <2>1. Cardinality(Q) = Cardinality(P) - 1
    BY <1>7, FS_RemoveElement
  <2>2. Cardinality(S) <= Cardinality(Q)
    BY <1>5, <1>6, <1>7, <2>1
  <2>3. \A b \in Q : \A d \in S \ Q : Abs(c.pnl[d]) <= Abs(c.pnl[b])
    BY <1>4, <1>9 DEF C
  <2>4. QED
    BY <2>2, <2>3 DEF Outweighs
<1> DEFINE s == SumOver(S, c.pnl)
           t == SumOver(P, c.pnl)
           u == SumOver(Q, c.pnl)
           x == Abs(c.pnl[l])
<1>11. s <= u
  <2>1. Q \in SUBSET Accounts
    OBVIOUS
  <2>2. QED
    BY <1>1, <1>6, <1>10, <2>1, Heaviest
<1>12. s \in Nat /\ t \in Nat /\ u \in Nat /\ x \in Nat /\ t = x + u
  <2>1. t \in Nat /\ u \in Nat /\ x \in Nat /\ t = x + u
    BY <1>1, SumAdds
  <2>2. s \in Nat
    BY <1>1, <1>6, SumAdds
  <2>3. QED
    BY <2>1, <2>2
<1>13. x > 0
  <2>1. Opposite(p, c.pnl[l]) /\ c.pnl[l] \in Int
    BY <1>1, <1>2, <1>4 DEF CounterpartiesOf
  <2>2. QED
    BY <2>1 DEF Opposite, Abs
<1>14. Residual(a, c, S) = Left(p - s) /\ Residual(a, c, P) = Left(p - t)
  BY <1>3, <1>6, ResidualIs
<1>15. u < p
  BY <1>9
<1> HIDE DEF s, t, u, x
<1>16. QED
  BY <1>1, <1>11, <1>12, <1>13, <1>14, <1>15 DEF Left

-----------------------------------------------------------------------------
(* The requests.  Any answer is a greedy choice among the accounts as they *)
(* were at some time; and as long as nothing else moves, the request, its  *)
(* view and its choice are about the chain as it is.                       *)
Answers == Seq({SettleFees} \cup {SettlePnl(b) : b \in Accounts})

RequestType == [pc : PCs, pnl : Int, fees : Nat, instructions : Answers]

Chose(a, r, theirs) ==
  \E P \in SUBSET Accounts : Greedy(P, r.instructions, a, r.pnl, r.fees, theirs)

RequestOK(a, r, view, c) ==
  /\ r.pc \notin {"submitting", "done"} => r.instructions = <<>>
  /\ r.pc = "submitting" => r.instructions # <<>>
  /\ r.pc = "all" => r.pnl # 0
  /\ r.instructions # <<>> =>
       /\ r.pnl # 0
       /\ \E theirs \in [Accounts -> Int] : Chose(a, r, theirs)
  /\ view # Unknown =>
       /\ r.pc \in {"market", "cache", "all", "submitting"} =>
            view = c /\ r.pnl = c.pnl[a]
       /\ r.pc \in {"cache", "all", "submitting"} => r.fees = c.fees
       /\ r.pc = "submitting" => Chose(a, r, c.pnl)

Typed ==
  /\ pnl \in [Accounts -> Int] /\ fees \in Nat /\ moves \in 0..MaxMoves
  /\ req \in [Settlers -> RequestType]
  /\ seen \in [Settlers -> Chain \cup {Unknown}]

SettleInv == Typed /\ \A a \in Settlers : RequestOK(a, req[a], seen[a], Now)

LEMMA EmptyAnswer == <<>> \in Answers
<1> DEFINE T == {SettleFees} \cup {SettlePnl(b) : b \in Accounts}
<1>1. Answers = Seq(T)
  BY DEF Answers
<1> HIDE DEF T
<1>2. <<>> \in Seq(T)
  OBVIOUS
<1>3. QED
  BY <1>1, <1>2

LEMMA SettleInit == Init => SettleInv
<1> SUFFICES ASSUME Init
             PROVE  SettleInv
  OBVIOUS
<1> DEFINE i == Idle
<1>1. /\ i \in RequestType /\ i.pc = "idle" /\ i.instructions = <<>>
  BY EmptyAnswer DEF Idle, RequestType, PCs
<1> HIDE DEF i
<1>2. pnl \in [Accounts -> Int] /\ fees \in Nat /\ moves \in 0..MaxMoves
  BY MangoPerpAssumption DEF Init
<1>3. \A a \in Settlers : req[a] = i /\ seen[a] = Unknown
  BY DEF Init, i
<1>4. req \in [Settlers -> RequestType] /\ seen \in [Settlers -> Chain \cup {Unknown}]
  BY <1>1 DEF Init, i
<1>5. QED
  BY <1>1, <1>2, <1>3, <1>4 DEF SettleInv, Typed, RequestOK

(* A step of one handler, which changes nothing on the chain.              *)
LEMMA OwnStep ==
  ASSUME SettleInv, NEW a \in Settlers, NEW r \in RequestType,
         NEW view \in Chain \cup {Unknown},
         req' = [req EXCEPT ![a] = r], seen' = [seen EXCEPT ![a] = view],
         UNCHANGED <<pnl, fees, moves>>, RequestOK(a, r, view, Now)
  PROVE  SettleInv'
<1>1. Typed'
  BY DEF SettleInv, Typed
<1>2. Now' = Now
  BY DEF Now
<1>3. ASSUME NEW b \in Settlers
      PROVE  RequestOK(b, req'[b], seen'[b], Now')
  <2>1. CASE b = a
    <3>1. req'[b] = r /\ seen'[b] = view
      BY <2>1 DEF SettleInv, Typed
    <3>2. QED
      BY <1>2, <2>1, <3>1
  <2>2. CASE b # a
    <3>1. req'[b] = req[b] /\ seen'[b] = seen[b]
      BY <2>2 DEF SettleInv, Typed
    <3>2. QED
      BY <1>2, <3>1 DEF SettleInv
  <2>3. QED
    BY <2>1, <2>2
<1>4. QED
  BY <1>1, <1>3 DEF SettleInv

LEMMA NowIsChain ==
  ASSUME SettleInv
  PROVE  Now \in Chain /\ Now.pnl = pnl /\ Now.fees = fees
BY DEF SettleInv, Typed, Now, Chain

LEMMA BeginKeeps ==
  ASSUME SettleInv, NEW a \in Settlers, Begin(a)
  PROVE  SettleInv'
<1> DEFINE r == [Idle EXCEPT !.pc = "group"]
<1>1. r = [pc |-> "group", pnl |-> 0, fees |-> 0, instructions |-> <<>>]
  BY DEF Idle
<1>2. r \in RequestType /\ r.pc = "group" /\ r.instructions = <<>>
  BY <1>1, EmptyAnswer DEF RequestType, PCs
<1>3. req' = [req EXCEPT ![a] = r] /\ seen' = [seen EXCEPT ![a] = Unknown]
  BY DEF Begin
<1>4. UNCHANGED <<pnl, fees, moves>>
  BY DEF Begin
<1> HIDE DEF r
<1>5. RequestOK(a, r, Unknown, Now)
  BY <1>2 DEF RequestOK
<1>6. QED
  BY <1>2, <1>3, <1>4, <1>5, OwnStep

(* A handler that goes on, or gives up, with what it has read.             *)
LEMMA GotoKeeps ==
  ASSUME SettleInv, NEW a \in Settlers, NEW pc \in PCs, Goto(a, pc),
         UNCHANGED <<pnl, fees, moves, seen>>,
         req[a].instructions = <<>>, pc # "submitting", pc = "all" => req[a].pnl # 0,
         \/ pc \in {"account", "error500", "done"}
         \/ pc = "all" /\ req[a].pc = "cache"
  PROVE  SettleInv'
<1> DEFINE r0 == req[a]
           r == [r0 EXCEPT !.pc = pc]
           view == seen[a]
<1>1. /\ r0 \in RequestType /\ view \in Chain \cup {Unknown}
      /\ RequestOK(a, r0, view, Now)
      /\ seen = [seen EXCEPT ![a] = view]
  BY DEF SettleInv, Typed
<1>2. req' = [req EXCEPT ![a] = r] /\ seen' = [seen EXCEPT ![a] = view]
  BY <1>1 DEF Goto
<1> HIDE DEF r0
<1>3. /\ r \in RequestType /\ r.pc = pc /\ r.pnl = r0.pnl /\ r.fees = r0.fees
      /\ r.instructions = r0.instructions
  BY <1>1 DEF RequestType
<1> HIDE DEF r, view
<1>4. RequestOK(a, r, view, Now)
  BY <1>1, <1>3 DEF RequestOK, r0
<1>5. QED
  BY <1>1, <1>2, <1>3, <1>4, OwnStep

LEMMA AccountLoadedKeeps ==
  ASSUME SettleInv, NEW a \in Settlers, AccountLoaded(a)
  PROVE  SettleInv'
<1> DEFINE r0 == req[a]
           r == [r0 EXCEPT !.pc = "market", !.pnl = pnl[a]]
<1>1. r0 \in RequestType /\ RequestOK(a, r0, seen[a], Now) /\ r0.pc = "account"
  BY DEF SettleInv, Typed, AccountLoaded
<1>2. req' = [req EXCEPT ![a] = r] /\ seen' = [seen EXCEPT ![a] = Now]
  BY DEF AccountLoaded
<1>3. UNCHANGED <<pnl, fees, moves>>
  BY DEF AccountLoaded
<1>4. Now \in Chain /\ Now.pnl = pnl /\ pnl[a] \in Int
  BY NowIsChain, MangoPerpAssumption DEF SettleInv, Typed
<1> HIDE DEF r0
<1>5. /\ r \in RequestType /\ r.pc = "market" /\ r.pnl = pnl[a]
      /\ r.instructions = r0.instructions
  BY <1>1, <1>4 DEF RequestType, PCs
<1> HIDE DEF r
<1>6. RequestOK(a, r, Now, Now)
  BY <1>1, <1>4, <1>5 DEF RequestOK
<1>7. QED
  BY <1>2, <1>3, <1>4, <1>5, <1>6, OwnStep

LEMMA MarketLoadedKeeps ==
  ASSUME SettleInv, NEW a \in Settlers, MarketLoaded(a)
  PROVE  SettleInv'
<1> DEFINE r0 == req[a]
           r == [r0 EXCEPT !.pc = "cache", !.fees = fees]
           view == seen[a]
<1>1. /\ r0 \in RequestType /\ RequestOK(a, r0, view, Now) /\ r0.pc = "market"
      /\ view \in Chain \cup {Unknown} /\ seen = [seen EXCEPT ![a] = view]
  BY DEF SettleInv, Typed, MarketLoaded
<1>2. req' = [req EXCEPT ![a] = r] /\ seen' = [seen EXCEPT ![a] = view]
  BY <1>1 DEF MarketLoaded
<1>3. UNCHANGED <<pnl, fees, moves>>
  BY DEF MarketLoaded
<1>4. Now.fees = fees /\ fees \in Nat
  BY NowIsChain DEF SettleInv, Typed
<1> HIDE DEF r0
<1>5. /\ r \in RequestType /\ r.pc = "cache" /\ r.fees = fees /\ r.pnl = r0.pnl
      /\ r.instructions = r0.instructions
  BY <1>1, <1>4 DEF RequestType, PCs
<1> HIDE DEF r, view
<1>6. RequestOK(a, r, view, Now)
  BY <1>1, <1>4, <1>5 DEF RequestOK
<1>7. QED
  BY <1>1, <1>2, <1>3, <1>5, <1>6, OwnStep

LEMMA AllAccountsLoadedKeeps ==
  ASSUME SettleInv, NEW a \in Settlers, AllAccountsLoaded(a)
  PROVE  SettleInv'
<1> DEFINE r0 == req[a]
           view == seen[a]
<1>1. /\ r0 \in RequestType /\ RequestOK(a, r0, view, Now) /\ r0.pc = "all"
      /\ view \in Chain \cup {Unknown} /\ seen = [seen EXCEPT ![a] = view]
      /\ pnl \in [Accounts -> Int] /\ Now.pnl = pnl /\ Now.fees = fees
  BY NowIsChain DEF SettleInv, Typed, AllAccountsLoaded
<1>2. PICK order \in Orderings(Sign(r0.pnl), pnl) :
        Answer(a, Pick(a, r0.pnl, r0.fees, order, pnl))
  BY DEF AllAccountsLoaded
<1> DEFINE list == Pick(a, r0.pnl, r0.fees, order, pnl)
           pc == IF list = <<>> THEN "done" ELSE "submitting"
           r == [r0 EXCEPT !.pc = pc, !.instructions = list]
<1>3. UNCHANGED <<pnl, fees, moves, seen>>
  BY DEF AllAccountsLoaded
<1>4. req' = [req EXCEPT ![a] = r] /\ seen' = [seen EXCEPT ![a] = view]
  BY <1>1, <1>2, <1>3 DEF Answer
<1> HIDE DEF r0
<1>5. r0.pnl \in Int \ {0} /\ r0.fees \in Nat /\ a \in Accounts
  BY <1>1, MangoPerpAssumption DEF RequestOK, RequestType
<1>6. PICK P \in SUBSET Accounts : Greedy(P, list, a, r0.pnl, r0.fees, pnl)
  BY <1>1, <1>2, <1>5, PickIsGreedy
<1> HIDE DEF list
<1>7. list \in Answers
  <2> DEFINE T == Instr(a)
             U == {SettleFees} \cup {SettlePnl(b) : b \in Accounts}
  <2>1. list \in Seq(T) /\ T \subseteq U
    BY <1>6 DEF Greedy, Listed, Instr
  <2> HIDE DEF T, U
  <2>2. list \in Seq(U)
    BY <2>1
  <2>3. QED
    BY <2>2 DEF U, Answers
<1>8. /\ r \in RequestType /\ r.pc = pc /\ r.fees = r0.fees /\ r.pnl = r0.pnl
      /\ r.instructions = list
  BY <1>1, <1>7 DEF RequestType, PCs
<1> HIDE DEF r, view
<1>9. Chose(a, r, pnl)
  BY <1>6, <1>8 DEF Chose
<1>10. RequestOK(a, r, view, Now)
  BY <1>1, <1>5, <1>8, <1>9 DEF RequestOK
<1>11. QED
  BY <1>1, <1>3, <1>4, <1>8, <1>10, OwnStep

LEMMA CacheLoadedKeeps ==
  ASSUME SettleInv, NEW a \in Settlers, CacheLoaded(a)
  PROVE  SettleInv'
<1>1. /\ req \in [Settlers -> RequestType] /\ RequestOK(a, req[a], seen[a], Now)
      /\ req[a].pc = "cache" /\ UNCHANGED <<pnl, fees, moves, seen>>
  BY DEF SettleInv, Typed, CacheLoaded
<1>2. req[a].instructions = <<>>
  BY <1>1 DEF RequestOK
<1>3. CASE req[a].pnl = 0
  <2> DEFINE r0 == req[a]
             r == [r0 EXCEPT !.pc = "done", !.instructions = <<>>]
             view == seen[a]
  <2>1. /\ req' = [req EXCEPT ![a] = r] /\ seen' = [seen EXCEPT ![a] = view]
        /\ r0 \in RequestType /\ view \in Chain \cup {Unknown}
    BY <1>1, <1>3 DEF CacheLoaded, Answer, SettleInv, Typed
  <2> HIDE DEF r0
  <2>2. r \in RequestType /\ r.pc = "done" /\ r.instructions = <<>>
    BY <2>1, EmptyAnswer DEF RequestType, PCs
  <2> HIDE DEF r, view
  <2>3. RequestOK(a, r, view, Now)
    BY <2>2 DEF RequestOK
  <2>4. QED
    BY <1>1, <2>1, <2>2, <2>3, OwnStep
<1>4. CASE req[a].pnl # 0
  <2>1. Goto(a, "all") /\ "all" \in PCs
    BY <1>4 DEF CacheLoaded, PCs
  <2>2. QED
    BY <1>1, <1>2, <1>4, <2>1, GotoKeeps
<1>5. QED
  BY <1>3, <1>4

LEMMA GroupLoadedKeeps ==
  ASSUME SettleInv, NEW a \in Settlers, GroupLoaded(a)
  PROVE  SettleInv'
<1>1. RequestOK(a, req[a], seen[a], Now) /\ req[a].pc = "group"
  BY DEF SettleInv, GroupLoaded
<1>2. req[a].instructions = <<>>
  BY <1>1 DEF RequestOK
<1>3. Goto(a, "account") /\ "account" \in PCs /\ UNCHANGED <<pnl, fees, moves, seen>>
  BY DEF GroupLoaded, PCs
<1>4. QED
  BY <1>2, <1>3, GotoKeeps

LEMMA RejectedKeeps ==
  ASSUME SettleInv, NEW a \in Settlers, Rejected(a)
  PROVE  SettleInv'
<1>1. /\ RequestOK(a, req[a], seen[a], Now)
      /\ req[a].pc \in {"group", "account", "market", "cache", "all"}
  BY DEF SettleInv, Rejected
<1>2. req[a].instructions = <<>>
  BY <1>1 DEF RequestOK
<1>3. Goto(a, "error500") /\ "error500" \in PCs /\ UNCHANGED <<pnl, fees, moves, seen>>
  BY DEF Rejected, PCs
<1>4. QED
  BY <1>2, <1>3, GotoKeeps

(* The answer of any time was a list for this account.                     *)
LEMMA ChoseLists ==
  ASSUME NEW a, NEW r, NEW theirs, Chose(a, r, theirs)
  PROVE  r.instructions \in Seq(Instr(a))
<1>1. PICK P \in SUBSET Accounts : Greedy(P, r.instructions, a, r.pnl, r.fees, theirs)
  BY DEF Chose
<1>2. QED
  BY <1>1 DEF Greedy, Listed

(* What is known of a request no longer depends on the chain once its view *)
(* of it is dropped, or once it is answered.                               *)
LEMMA ViewDropped ==
  ASSUME NEW a, NEW r, NEW view, NEW c, NEW d, RequestOK(a, r, view, c)
  PROVE  RequestOK(a, r, Unknown, d)
BY DEF RequestOK

LEMMA SubmitKeeps ==
  ASSUME SettleInv, NEW a \in Settlers, Submit(a)
  PROVE  SettleInv'
<1> DEFINE r0 == req[a]
           list == r0.instructions
           after == Run(a, Now, list)
           r == [r0 EXCEPT !.pc = "done"]
<1>1. /\ r0 \in RequestType /\ r0.pc = "submitting"
      /\ \A b \in Settlers : RequestOK(b, req[b], seen[b], Now)
  BY DEF SettleInv, Typed, Submit
<1>2. /\ pnl' = after.pnl /\ fees' = after.fees /\ UNCHANGED moves
      /\ req' = [req EXCEPT ![a] = r]
      /\ IF after = Now THEN UNCHANGED seen ELSE Outdate(Settlers \ {a})
  BY DEF Submit, Goto
<1>3. list # <<>> /\ \E theirs \in [Accounts -> Int] : Chose(a, r0, theirs)
  BY <1>1 DEF RequestOK
<1>4. list \in Seq(Instr(a)) /\ a \in Accounts
  BY <1>3, ChoseLists, MangoPerpAssumption
<1>5. Now \in Chain
  BY NowIsChain
<1>6. after \in Chain
  BY <1>4, <1>5, RunIsChain
<1>7. /\ req \in [Settlers -> RequestType] /\ moves \in 0..MaxMoves
      /\ seen \in [Settlers -> Chain \cup {Unknown}]
  BY DEF SettleInv, Typed
<1> HIDE DEF after
<1>8. Now' = after
  BY <1>2, <1>6 DEF Now, Chain
<1>9. pnl' \in [Accounts -> Int] /\ fees' \in Nat
  BY <1>2, <1>6 DEF Chain
<1> HIDE DEF r0
<1>10. /\ r \in RequestType /\ r.pc = "done" /\ r.instructions = list
       /\ r.pnl = r0.pnl /\ r.fees = r0.fees
  BY <1>1 DEF RequestType, PCs
<1> HIDE DEF r
<1>11. seen' \in [Settlers -> Chain \cup {Unknown}]
  BY <1>2, <1>7 DEF Outdate
<1>12. Typed'
  BY <1>2, <1>7, <1>9, <1>10, <1>11 DEF Typed
<1>13. \E theirs \in [Accounts -> Int] : Chose(a, r, theirs)
  BY <1>3, <1>10 DEF Chose
<1>14. ASSUME NEW b \in Settlers
       PROVE  RequestOK(b, req'[b], seen'[b], Now')
  <2>1. CASE b = a
    <3>1. req'[b] = r /\ r0.pnl # 0
      BY <1>1, <1>2, <1>3, <1>7, <2>1 DEF RequestOK, r0
    <3>2. QED
      BY <1>3, <1>10, <1>13, <2>1, <3>1 DEF RequestOK
  <2>2. CASE b # a
    <3>1. req'[b] = req[b] /\ RequestOK(b, req[b], seen[b], Now)
      BY <1>1, <1>2, <1>7, <2>2
    <3>2. CASE after = Now
      <4>1. seen'[b] = seen[b] /\ Now' = Now
        BY <1>2, <1>8, <3>2
      <4>2. QED
        BY <3>1, <4>1
    <3>3. CASE after # Now
      <4>1. seen'[b] = Unknown
        BY <1>2, <2>2, <3>3 DEF Outdate
      <4>2. QED
        BY <3>1, <4>1, ViewDropped
    <3>4. QED
      BY <3>2, <3>3
  <2>3. QED
    BY <2>1, <2>2
<1>15. QED
  BY <1>12, <1>14 DEF SettleInv

LEMMA MoveKeeps ==
  ASSUME SettleInv, NEW a \in Accounts, NEW b \in Accounts, Move(a, b)
  PROVE  SettleInv'
<1>1. /\ pnl \in [Accounts -> Int] /\ fees \in Nat /\ moves \in 0..MaxMoves
      /\ req \in [Settlers -> RequestType] /\ MaxMoves \in Nat
      /\ \A x \in Settlers : RequestOK(x, req[x], seen[x], Now)
  BY MangoPerpAssumption DEF SettleInv, Typed
<1>2. /\ pnl' = [pnl EXCEPT ![a] = @ - 1, ![b] = @ + 1] /\ moves' = moves + 1
      /\ moves < MaxMoves /\ UNCHANGED <<fees, req>>
      /\ seen' = [x \in Settlers |-> Unknown]
  BY DEF Move, Outdate
<1>3. Typed'
  BY <1>1, <1>2 DEF Typed
<1>4. ASSUME NEW x \in Settlers
      PROVE  RequestOK(x, req'[x], seen'[x], Now')
  <2>1. req'[x] = req[x] /\ seen'[x] = Unknown /\ RequestOK(x, req[x], seen[x], Now)
    BY <1>1, <1>2
  <2>2. QED
    BY <2>1, ViewDropped
<1>5. QED
  BY <1>3, <1>4 DEF SettleInv

LEMMA StutterKeeps ==
  ASSUME SettleInv, UNCHANGED vars
  PROVE  SettleInv'
<1>1. UNCHANGED <<pnl, fees, req, moves, seen>>
  BY DEF vars
<1>2. Now' = Now
  BY <1>1 DEF Now
<1>3. QED
  BY <1>1, <1>2 DEF SettleInv, Typed

LEMMA SettleInductive == SettleInv /\ [Next]_vars => SettleInv'
<1> SUFFICES ASSUME SettleInv, [Next]_vars
             PROVE  SettleInv'
  OBVIOUS
<1>1. CASE UNCHANGED vars
  BY <1>1, StutterKeeps
<1>2. ASSUME NEW a \in Settlers, Begin(a)
      PROVE  SettleInv'
  BY <1>2, BeginKeeps
<1>3. ASSUME NEW a \in Settlers, GroupLoaded(a)
      PROVE  SettleInv'
  BY <1>3, GroupLoadedKeeps
<1>4. ASSUME NEW a \in Settlers, AccountLoaded(a)
      PROVE  SettleInv'
  BY <1>4, AccountLoadedKeeps
<1>5. ASSUME NEW a \in Settlers, MarketLoaded(a)
      PROVE  SettleInv'
  BY <1>5, MarketLoadedKeeps
<1>6. ASSUME NEW a \in Settlers, CacheLoaded(a)
      PROVE  SettleInv'
  BY <1>6, CacheLoadedKeeps
<1>7. ASSUME NEW a \in Settlers, AllAccountsLoaded(a)
      PROVE  SettleInv'
  BY <1>7, AllAccountsLoadedKeeps
<1>8. ASSUME NEW a \in Settlers, Rejected(a)
      PROVE  SettleInv'
  BY <1>8, RejectedKeeps
<1>9. ASSUME NEW a \in Settlers, Submit(a)
      PROVE  SettleInv'
  BY <1>9, SubmitKeeps
<1>10. ASSUME NEW a \in Accounts, NEW b \in Accounts, Move(a, b)
       PROVE  SettleInv'
  BY <1>10, MoveKeeps
<1>11. QED
  BY <1>1, <1>2, <1>3, <1>4, <1>5, <1>6, <1>7, <1>8, <1>9, <1>10 DEF Next

-----------------------------------------------------------------------------
(* In every reachable state an answer that awaits submission, or was       *)
(* submitted last, is a greedy choice, and a handler whose view of the     *)
(* chain still holds has read its profit or loss, the fees and the choice  *)
(* from that chain: MangoMarketService.settlePerp.                         *)
THEOREM SettleInvariance == Spec => []SettleInv
<1>1. Init => SettleInv
  BY SettleInit
<1>2. SettleInv /\ [Next]_vars => SettleInv'
  BY SettleInductive
<1>3. QED
  BY <1>1, <1>2, PTL DEF Spec

(* The loop of one account's request, once it has chosen.                  *)
LEMMA AnswerIsListed ==
  ASSUME SettleInv, NEW a \in Settlers, req[a].instructions # <<>>
  PROVE  \E P \in SUBSET Accounts :
           /\ Listed(req[a].instructions, a, Base(req[a].pnl), P)
           /\ Len(req[a].instructions) <= MaxInstructions
<1>1. RequestOK(a, req[a], seen[a], Now)
  BY DEF SettleInv
<1>2. PICK theirs \in [Accounts -> Int] : Chose(a, req[a], theirs)
  BY <1>1 DEF RequestOK
<1>3. QED
  BY <1>2 DEF Chose, Greedy

(* Types; and no transaction is longer than the limit.                     *)
THEOREM TypeCorrect == Spec => []TypeOK
<1>1. ASSUME SettleInv
      PROVE  TypeOK
  <2>1. Typed
    BY <1>1 DEF SettleInv
  <2>2. ASSUME NEW a \in Settlers
        PROVE  /\ req[a].pc \in PCs /\ req[a].pnl \in Int /\ req[a].fees \in Nat
               /\ req[a].instructions \in
                    Seq({SettleFees} \cup {SettlePnl(b) : b \in Accounts \ {a}})
               /\ Len(req[a].instructions) <= MaxInstructions
    <3> DEFINE list == req[a].instructions
               T == Instr(a)
    <3>1. req[a].pc \in PCs /\ req[a].pnl \in Int /\ req[a].fees \in Nat
      BY <2>1 DEF Typed, RequestType
    <3>2. T = {SettleFees} \cup {SettlePnl(b) : b \in Accounts \ {a}}
      BY DEF Instr
    <3>3. CASE list # <<>>
      <4>1. list \in Seq(T) /\ Len(list) <= MaxInstructions
        BY <1>1, <3>3, AnswerIsListed DEF Listed
      <4> HIDE DEF T
      <4>2. QED
        BY <3>1, <3>2, <4>1
    <3>4. CASE list = <<>>
      <4>1. Len(list) <= MaxInstructions
        BY <3>4, MangoPerpAssumption
      <4> HIDE DEF T, list
      <4>2. list \in Seq(T)
        BY <3>4
      <4>3. QED
        BY <3>1, <3>2, <4>1, <4>2 DEF list
    <3>5. QED
      BY <3>3, <3>4
  <2>3. QED
    BY <2>1, <2>2 DEF Typed, TypeOK
<1>2. QED
  BY <1>1, SettleInvariance, PTL

(* A submission whose view of the chain still holds is a greedy choice on  *)
(* the chain as it is.                                                     *)
LEMMA SubmitsGreedy ==
  ASSUME SettleInv, NEW a \in Settlers, req[a].pc = "submitting", seen[a] # Unknown
  PROVE  /\ a \in Accounts /\ Now \in Chain /\ seen[a] = Now /\ Now.pnl[a] # 0
         /\ \E P \in SUBSET Accounts : GreedyOn(P, req[a].instructions, a, Now)
<1> DEFINE r == req[a]
           c == Now
<1>1. RequestOK(a, r, seen[a], c) /\ a \in Accounts /\ c \in Chain
  BY NowIsChain, MangoPerpAssumption DEF SettleInv
<1> HIDE DEF c
<1>2. /\ r.instructions # <<>> /\ r.pnl # 0 /\ seen[a] = c /\ r.pnl = c.pnl[a]
      /\ r.fees = c.fees /\ Chose(a, r, c.pnl)
  BY <1>1 DEF RequestOK
<1>3. \E P \in SUBSET Accounts : GreedyOn(P, r.instructions, a, c)
  BY <1>2 DEF Chose, GreedyOn
<1>4. QED
  BY <1>1, <1>2, <1>3 DEF c

(* Whatever the accounts, their profits and losses and the order the node  *)
(* lists equals in, the transaction prepareSettlePerpTransaction builds    *)
(* leaves as little unsettled as any choice of counterparties that fits    *)
(* into one transaction would.                                             *)
THEOREM SettlesMost == Spec => []SettlesTheMost
<1>1. ASSUME SettleInv
      PROVE  SettlesTheMost
  <2>1. SUFFICES ASSUME NEW a \in Settlers, req[a].pc = "submitting", seen[a] # Unknown
                 PROVE  Abs(Run(a, Now, req[a].instructions).pnl[a])
                          = BestResidual(a, seen[a])
    BY DEF SettlesTheMost
  <2>2. a \in Accounts /\ Now \in Chain /\ seen[a] = Now /\ Now.pnl[a] # 0
    BY <1>1, <2>1, SubmitsGreedy
  <2>3. PICK P \in SUBSET Accounts : GreedyOn(P, req[a].instructions, a, Now)
    BY <1>1, <2>1, SubmitsGreedy
  <2>4. Abs(Run(a, Now, req[a].instructions).pnl[a]) = Residual(a, Now, P)
    BY <2>2, <2>3, GreedyPays
  <2>5. BestResidual(a, Now) = Residual(a, Now, P)
    BY <2>2, <2>3, GreedyIsBest
  <2>6. QED
    BY <2>2, <2>4, <2>5
<1>2. QED
  BY <1>1, SettleInvariance, PTL

(* A profit is settled with as few counterparties as can settle that much: *)
(* the sort by size, and the break of the loop of                          *)
(* prepareSettlePerpTransaction.                                           *)
THEOREM TakesFewest == Spec => []FewestCounterparties
<1>1. ASSUME SettleInv
      PROVE  FewestCounterparties
  <2>1. SUFFICES ASSUME NEW a \in Settlers, req[a].pc = "submitting", seen[a] # Unknown,
                        seen[a].pnl[a] > 0,
                        NEW S \in SUBSET Counterparties(a, seen[a].pnl),
                        Cardinality(S) < Len(req[a].instructions)
                 PROVE  Residual(a, seen[a], S) > BestResidual(a, seen[a])
    BY DEF FewestCounterparties
  <2>2. a \in Accounts /\ Now \in Chain /\ seen[a] = Now /\ Now.pnl[a] # 0
    BY <1>1, <2>1, SubmitsGreedy
  <2>3. PICK P \in SUBSET Accounts : GreedyOn(P, req[a].instructions, a, Now)
    BY <1>1, <2>1, SubmitsGreedy
  <2>4. Residual(a, Now, S) > Residual(a, Now, P)
    BY <2>1, <2>2, <2>3, GreedyIsFewest
  <2>5. BestResidual(a, Now) = Residual(a, Now, P)
    BY <2>2, <2>3, GreedyIsBest
  <2>6. QED
    BY <2>2, <2>4, <2>5
<1>2. QED
  BY <1>1, SettleInvariance, PTL

(* However the chain moves while the handler reads it, no account settles  *)
(* against itself or twice against another, and no profit pays fees: the   *)
(* guard of the loop at mango.client.ts:652.                               *)
THEOREM NeverOwnAccount == Spec => []NeverAgainstItself
<1>1. ASSUME SettleInv
      PROVE  NeverAgainstItself
  <2>1. SUFFICES ASSUME NEW a \in Settlers
                 PROVE  LET list == req[a].instructions IN
                        /\ SettlePnl(a) \notin ToSet(list)
                        /\ IsInjective(list)
                        /\ req[a].pnl > 0 => SettleFees \notin ToSet(list)
    BY DEF NeverAgainstItself
  <2> DEFINE list == req[a].instructions
             p == req[a].pnl
  <2>2. CASE list = <<>>
    <3> HIDE DEF list
    <3>1. ToSet(list) = {} /\ IsInjective(list)
      BY <2>2 DEF ToSet, IsInjective
    <3>2. QED
      BY <3>1 DEF list
  <2>3. CASE list # <<>>
    <3>1. PICK P \in SUBSET Accounts : Listed(list, a, Base(p), P)
      BY <1>1, <2>3, AnswerIsListed
    <3>2. IsInjective(list) /\ list \in Seq(Instr(a))
      BY <3>1 DEF Listed
    <3>3. \A i \in DOMAIN list : list[i] \in Instr(a) /\ i \in 1..Len(list)
      <4> DEFINE T == Instr(a)
      <4>1. list \in Seq(T)
        BY <3>2
      <4> HIDE DEF T, list
      <4>2. \A i \in DOMAIN list : list[i] \in T /\ i \in 1..Len(list)
        BY <4>1
      <4>3. QED
        BY <4>2 DEF T
    <3>4. SettlePnl(a) \notin Instr(a)
      BY Distinct DEF Instr
    <3>5. ASSUME p > 0
          PROVE  \A i \in 1..Len(list) : list[i] # SettleFees
      <4>1. Base(p) = <<>> /\ Len(Base(p)) = 0
        BY <3>5 DEF Base, Sign
      <4>2. \A i \in 1..Len(list) : \E b \in P : list[i] = SettlePnl(b)
        BY <3>1, <4>1 DEF Listed
      <4>3. QED
        BY <4>2, Distinct
    <3> HIDE DEF list, p
    <3>6. SettlePnl(a) \notin ToSet(list)
      BY <3>3, <3>4 DEF ToSet
    <3>7. p > 0 => SettleFees \notin ToSet(list)
      BY <3>3, <3>5 DEF ToSet
    <3>8. QED
      BY <3>2, <3>6, <3>7 DEF list, p
  <2>4. QED
    BY <2>2, <2>3
<1>2. QED
  BY <1>1, SettleInvariance, PTL

-----------------------------------------------------------------------------
(* Perp orders: MangoPerpOrders, whose accounts are those of one wallet.   *)

(* Lots.  What div returns, for every divisor.                             *)
LEMMA Division ==
  ASSUME NEW n \in Nat, NEW d \in Nat \ {0}
  PROVE  /\ n \div d \in Nat
         /\ (n \div d) * d <= n
         /\ n < ((n \div d) + 1) * d
OBVIOUS

LEMMA Times ==
  ASSUME NEW m \in Nat, NEW n \in Nat, NEW k \in Nat, m <= n
  PROVE  m * k <= n * k
OBVIOUS

LEMMA TimesLess ==
  ASSUME NEW m \in Nat, NEW n \in Nat, NEW k \in Nat \ {0}
  PROVE  m < n <=> m * k < n * k
OBVIOUS

(* A size comes to the whole lots in it.                                   *)
LEMMA QuantityIsWhole ==
  ASSUME Perp!MarketAssumption, NEW size \in Nat
  PROVE  /\ Perp!NativeQuantity(size) \in Nat
         /\ Perp!NativeQuantity(size) * BaseLot * Fine <= size
         /\ size < (Perp!NativeQuantity(size) + 1) * BaseLot * Fine
<1> DEFINE n == size \div Fine
           q == n \div BaseLot
<1>1. Fine \in Nat \ {0} /\ BaseLot \in Nat \ {0}
  BY DEF Perp!MarketAssumption
<1>2. n \in Nat /\ n * Fine <= size /\ size < (n + 1) * Fine
  BY <1>1, Division
<1>3. q \in Nat /\ q * BaseLot <= n /\ n < (q + 1) * BaseLot
  BY <1>1, <1>2, Division
<1> HIDE DEF n, q
<1>4. q * BaseLot * Fine <= n * Fine
  BY <1>1, <1>2, <1>3, Times
<1>5. (n + 1) * Fine <= (q + 1) * BaseLot * Fine
  BY <1>1, <1>2, <1>3, Times
<1>6. Perp!NativeQuantity(size) = q
  BY DEF Perp!NativeQuantity, Perp!Native, n, q
<1>7. QED
  BY <1>1, <1>2, <1>3, <1>4, <1>5, <1>6

(* A price comes to the whole lots in it, when a lot's price is a whole    *)
(* number of native units.                                                 *)
LEMMA PriceIsWhole ==
  ASSUME Perp!MarketAssumption, NEW price \in Nat
  PROVE  /\ Perp!NativePrice(price) \in Nat
         /\ Perp!NativePrice(price) * (QuoteLot * BaseUnit) * Fine <= price * BaseLot
         /\ price * BaseLot < (Perp!NativePrice(price) + 1) * (QuoteLot * BaseUnit) * Fine
<1> DEFINE perLot == QuoteLot * BaseUnit
           k == perLot \div BaseLot
           n == price \div Fine
           l == (n * BaseLot) \div perLot
<1>1. /\ Fine \in Nat \ {0} /\ BaseLot \in Nat \ {0}
      /\ perLot \in Nat \ {0} /\ perLot % BaseLot = 0
  <2>1. /\ Fine \in Nat \ {0} /\ BaseLot \in Nat \ {0}
        /\ QuoteLot \in Nat \ {0} /\ BaseUnit \in Nat \ {0}
        /\ perLot % BaseLot = 0
    BY DEF Perp!MarketAssumption
  <2>2. perLot \in Nat \ {0}
    BY <2>1
  <2>3. QED
    BY <2>1, <2>2
<1>2. k \in Nat /\ perLot = k * BaseLot
  <2> HIDE DEF perLot
  <2>1. QED
    BY <1>1
<1>3. n \in Nat /\ n * Fine <= price /\ price < (n + 1) * Fine
  BY <1>1, Division
<1> HIDE DEF perLot, k, n
<1>4. l \in Nat /\ l * perLot <= n * BaseLot /\ n * BaseLot < (l + 1) * perLot
  BY <1>1, <1>3, Division
<1> HIDE DEF l
<1>5. l * perLot * Fine <= n * BaseLot * Fine
  BY <1>1, <1>3, <1>4, Times
<1>6. n * BaseLot * Fine <= price * BaseLot
  BY <1>1, <1>3, Times
<1>7. n < (l + 1) * k
  <2>1. n * BaseLot < ((l + 1) * k) * BaseLot
    BY <1>1, <1>2, <1>3, <1>4
  <2>2. QED
    BY <1>1, <1>2, <1>3, <1>4, <2>1, TimesLess
<1>8. (n + 1) * Fine * BaseLot <= (l + 1) * k * Fine * BaseLot
  <2>1. (n + 1) * (Fine * BaseLot) <= ((l + 1) * k) * (Fine * BaseLot)
    BY <1>1, <1>2, <1>3, <1>4, <1>7, Times
  <2>2. QED
    BY <1>1, <1>2, <1>3, <1>4, <2>1
<1>9. price * BaseLot < (n + 1) * Fine * BaseLot
  BY <1>1, <1>3, TimesLess
<1>10. (l + 1) * perLot * Fine = (l + 1) * k * Fine * BaseLot
  BY <1>1, <1>2, <1>4
<1>11. Perp!NativePrice(price) = l
  BY DEF Perp!NativePrice, Perp!Native, n, l, perLot
<1>12. l * perLot * Fine <= price * BaseLot
  BY <1>1, <1>3, <1>4, <1>5, <1>6
<1>13. price * BaseLot < (l + 1) * perLot * Fine
  BY <1>1, <1>2, <1>3, <1>4, <1>8, <1>9, <1>10
<1>14. QED
  BY <1>4, <1>11, <1>12, <1>13 DEF perLot

-----------------------------------------------------------------------------
(* The invariant.                                                          *)

Phases == Perp!Resting \cup {"loading", "loaded", "answered"}

Records == [phase : Phases, number : Nat, account : Mine \cup {Perp!NoAccount},
            order : Orders \cup {Perp!NoOrder}, ask : Nat \X Nat, lots : Nat \X Nat,
            full : BOOLEAN]

Types ==
  /\ accounts \in Seq(Mine)
  /\ open \in [Mine -> SUBSET Orders]
  /\ gone \subseteq Orders
  /\ via \in [Orders -> Nat]
  /\ moved \in BOOLEAN
  /\ reqs \in [Perp!Requests -> Records]

(* An order that was placed is in the account its number stands for, until *)
(* it is filled or cancelled, or the numbers change.                       *)
InItsAccount ==
  \A o \in Orders :
    via[o] # 0 /\ o \notin gone /\ ~moved =>
      /\ via[o] \in DOMAIN accounts
      /\ o \in open[accounts[via[o]]]

(* A cancellation names an order under the number it was placed under.     *)
NamedAsPlaced(r) ==
  r \in Cancels /\ ~Perp!AsksAll(r) /\ reqs[r].phase # "idle" =>
    reqs[r].number # 0 /\ via[reqs[r].order] = reqs[r].number

(* The account that a handler has loaded is the one its number stands for. *)
LoadedByNumber(r) ==
  reqs[r].phase \in {"loaded", "answered"} =>
    /\ reqs[r].account \in Mine
    /\ ~moved => /\ reqs[r].number \in DOMAIN accounts
                 /\ reqs[r].account = accounts[reqs[r].number]

(* What was found to cancel is there until it is gone.                     *)
FoundUntilGone(r) ==
  r \in Cancels /\ ~Perp!AsksAll(r) /\ reqs[r].phase = "answered" =>
    reqs[r].order \in open[reqs[r].account] \cup gone

(* What is to be placed is what was asked for, in lots.                    *)
AnsweredInLots(r) ==
  r \in Places /\ reqs[r].phase = "answered" =>
    reqs[r].lots = <<Perp!NativePrice(reqs[r].ask[1]),
                     Perp!NativeQuantity(reqs[r].ask[2])>>

LessThanALot(ask) ==
  \/ ask[1] * BaseLot < QuoteLot * BaseUnit * Fine
  \/ ask[2] < BaseLot * Fine

RefusedForAReason(r) ==
  reqs[r].phase = "refused" =>
    \/ r \in Places /\ (reqs[r].full \/ LessThanALot(reqs[r].ask))
    \/ r \in Cancels /\ reqs[r].order \in gone

NotFoundForAReason(r) ==
  reqs[r].phase = "notFound" => reqs[r].order \in gone \/ moved

Sound(r) ==
  /\ NamedAsPlaced(r)
  /\ LoadedByNumber(r)
  /\ FoundUntilGone(r)
  /\ AnsweredInLots(r)
  /\ RefusedForAReason(r)
  /\ NotFoundForAReason(r)

IInv ==
  /\ Types
  /\ InItsAccount
  /\ \A r \in Perp!Requests : Sound(r)

LEMMA Initially ==
  ASSUME Perp!MarketAssumption
  PROVE  Perp!Init => IInv
<1> SUFFICES ASSUME Perp!Init PROVE IInv
  OBVIOUS
<1>1. Types
  <2>1. accounts \in Seq(Mine)
    BY DEF Perp!MarketAssumption, Perp!Init
  <2>2. Perp!Idle \in Records
    BY DEF Perp!Idle, Records, Phases, Perp!Resting, Perp!NoAsk
  <2>3. QED
    BY <2>1, <2>2 DEF Perp!Init, Types
<1>2. QED
  BY <1>1 DEF Perp!Init, IInv, InItsAccount, Perp!Idle, Sound, NamedAsPlaced, LoadedByNumber,
    FoundUntilGone, AnsweredInLots, RefusedForAReason, NotFoundForAReason

-----------------------------------------------------------------------------
(* What any step may do to the chain: what is gone stays gone, what leaves *)
(* the book is gone, an order keeps the number it was placed under, and    *)
(* the list keeps its numbers, or has moved.                               *)
Advances ==
  /\ gone \subseteq gone'
  /\ \A a \in Mine : open[a] \subseteq open'[a] \cup gone'
  /\ \A o \in Orders : via[o] # 0 => via'[o] = via[o]
  /\ moved => moved'
  /\ ~moved' => \A i \in DOMAIN accounts :
                   i \in DOMAIN accounts' /\ accounts'[i] = accounts[i]

(* A list that grows at its end keeps the numbers it had.                  *)
LEMMA InsertAtEnd ==
  ASSUME NEW S, NEW s \in Seq(S), NEW e \in S
  PROVE  \A i \in DOMAIN s : /\ i \in DOMAIN Perp!InsertAt(s, Len(s) + 1, e)
                             /\ Perp!InsertAt(s, Len(s) + 1, e)[i] = s[i]
<1>1. Len(s) \in Nat /\ DOMAIN s = 1..Len(s)
  OBVIOUS
<1>2. SubSeq(s, 1, Len(s) + 1 - 1) = s
  BY <1>1, SubSeqFull
<1>3. SubSeq(s, Len(s) + 1, Len(s)) = << >>
  BY <1>1, SubSeqEmpty
<1>4. s \o <<e>> \in Seq(S)
  OBVIOUS
<1>5. (s \o <<e>>) \o << >> = s \o <<e>>
  BY <1>4, ConcatEmptySeq
<1>6. Perp!InsertAt(s, Len(s) + 1, e)
        = SubSeq(s, 1, Len(s) + 1 - 1) \o <<e>> \o SubSeq(s, Len(s) + 1, Len(s))
  BY DEF Perp!InsertAt
<1>7. Perp!InsertAt(s, Len(s) + 1, e) = s \o <<e>>
  BY <1>2, <1>3, <1>5, <1>6
<1>8. QED
  BY <1>1, <1>7

LEMMA InsertAtSeq ==
  ASSUME NEW S, NEW s \in Seq(S), NEW e \in S, NEW i \in 1..Len(s) + 1
  PROVE  Perp!InsertAt(s, i, e) \in Seq(S)
<1>1. SubSeq(s, 1, i - 1) \in Seq(S)
  OBVIOUS
<1>2. SubSeq(s, i, Len(s)) \in Seq(S)
  OBVIOUS
<1>3. QED
  BY <1>1, <1>2 DEF Perp!InsertAt

(* Steps that leave the chain alone.                                       *)
LEMMA Untouched ==
  ASSUME UNCHANGED <<accounts, open, gone, via, moved>>
  PROVE  Advances
BY DEF Advances

(* Orders leave the book.                                                  *)
LEMMA LeaveAdvances ==
  ASSUME Types, NEW a \in Mine, NEW orders \in SUBSET open[a], Perp!Leave(a, orders),
         UNCHANGED <<accounts, via, moved>>
  PROVE  /\ Advances
         /\ open' \in [Mine -> SUBSET Orders]
         /\ gone' \subseteq Orders
BY DEF Types, Advances, Perp!Leave

(* A request that a step leaves alone stays sound.                         *)
LEMMA SoundFrame ==
  ASSUME Types, Types', Advances, NEW r \in Perp!Requests, Sound(r), reqs'[r] = reqs[r]
  PROVE  Sound(r)'
<1>1. NamedAsPlaced(r)'
  BY DEF Types, Records, Advances, Sound, NamedAsPlaced, Perp!AsksAll
<1>2. LoadedByNumber(r)'
  BY DEF Types, Advances, Sound, LoadedByNumber
<1>3. FoundUntilGone(r)'
  BY DEF Types, Advances, Sound, LoadedByNumber, FoundUntilGone, Perp!AsksAll
<1>4. AnsweredInLots(r)' /\ RefusedForAReason(r)' /\ NotFoundForAReason(r)'
  BY DEF Types, Advances, Sound, AnsweredInLots, RefusedForAReason, NotFoundForAReason
<1>5. QED
  BY <1>1, <1>2, <1>3, <1>4 DEF Sound

(* A step of one request, and a step of the handler, which leaves the chain*)
(* alone.                                                                  *)
Only(r) ==
  /\ reqs' \in [Perp!Requests -> Records]
  /\ \A s \in Perp!Requests \ {r} : reqs'[s] = reqs[s]

LEMMA OneRequest ==
  ASSUME IInv, Types', Advances, InItsAccount', NEW r \in Perp!Requests, Only(r), Sound(r)'
  PROVE  IInv'
<1>1. ASSUME NEW s \in Perp!Requests
      PROVE  Sound(s)'
  <2>1. CASE s = r
    BY <2>1
  <2>2. CASE s # r
    BY <2>2, SoundFrame DEF IInv, Only
  <2>3. QED
    BY <2>1, <2>2
<1>2. QED
  BY <1>1 DEF IInv

LEMMA Handling ==
  ASSUME IInv, UNCHANGED <<accounts, open, gone, via, moved>>,
         NEW r \in Perp!Requests, Only(r), Sound(r)'
  PROVE  IInv'
<1>1. Types'
  BY DEF IInv, Types, Only
<1>2. InItsAccount'
  BY DEF IInv, InItsAccount
<1>3. QED
  BY <1>1, <1>2, Untouched, OneRequest

(* Steps of the chain that change no request.                              *)
LEMMA Elsewhere ==
  ASSUME IInv, Types', Advances, InItsAccount', UNCHANGED reqs
  PROVE  IInv'
BY SoundFrame DEF IInv

LEMMA BeginStep ==
  ASSUME Perp!MarketAssumption, IInv, NEW r \in Perp!Requests, Perp!Begin(r)
  PROVE  IInv'
<1>1. UNCHANGED <<accounts, open, gone, via, moved>>
  BY DEF Perp!Begin
<1>2. PICK n \in 1..Perp!Cardinality(Mine) :
        \/ r \in Places /\ \E ask \in Asks : Perp!Ask(r, n, Perp!NoOrder, ask)
        \/ r \in Cancels /\ \E o \in Orders : via[o] = n /\ Perp!Ask(r, n, o, Perp!NoAsk)
        \/ r \in Cancels /\ Perp!Ask(r, n, Perp!NoOrder, Perp!NoAsk)
  BY DEF Perp!Begin
<1>3. \E o \in Orders \cup {Perp!NoOrder}, ask \in Nat \X Nat :
        /\ Perp!Ask(r, n, o, ask)
        /\ r \in Cancels => o = Perp!NoOrder \/ via[o] = n
  BY <1>2 DEF Perp!MarketAssumption, Perp!NoAsk
<1>4. PICK o \in Orders \cup {Perp!NoOrder}, ask \in Nat \X Nat :
        /\ Perp!Ask(r, n, o, ask)
        /\ r \in Cancels => o = Perp!NoOrder \/ via[o] = n
  BY <1>3
<1> DEFINE new == [Perp!Idle EXCEPT !.phase = "loading", !.number = n, !.order = o, !.ask = ask]
<1>5. n \in Nat /\ n # 0
  OBVIOUS
<1>6. Perp!Idle \in Records
  BY DEF Perp!Idle, Records, Phases, Perp!Resting, Perp!NoAsk
<1>7. new \in Records /\ new.phase = "loading" /\ new.number = n /\ new.order = o
  <2> DEFINE a == [Perp!Idle EXCEPT !.phase = "loading"]
             b == [a EXCEPT !.number = n]
             c == [b EXCEPT !.order = o]
  <2>1. a \in Records /\ a.phase = "loading"
    BY <1>6 DEF Records, Phases
  <2> HIDE DEF a
  <2>2. b \in Records /\ b.phase = "loading" /\ b.number = n
    BY <1>5, <2>1 DEF Records
  <2> HIDE DEF b
  <2>3. c \in Records /\ c.phase = "loading" /\ c.number = n /\ c.order = o
    BY <2>2 DEF Records
  <2> HIDE DEF c
  <2>4. new = [c EXCEPT !.ask = ask]
    BY DEF a, b, c
  <2>5. QED
    BY <2>3, <2>4 DEF Records
<1>8. reqs' = [reqs EXCEPT ![r] = new]
  BY <1>4 DEF Perp!Ask
<1> HIDE DEF new
<1>9. Only(r) /\ reqs'[r] = new
  BY <1>7, <1>8 DEF IInv, Types, Only
<1>10. Sound(r)'
  BY <1>1, <1>4, <1>5, <1>7, <1>9 DEF Sound, NamedAsPlaced, LoadedByNumber,
     FoundUntilGone, AnsweredInLots, RefusedForAReason, NotFoundForAReason, Perp!AsksAll
<1>11. QED
  BY <1>1, <1>9, <1>10, Handling

LEMMA LoadAccountStep ==
  ASSUME IInv, NEW r \in Perp!Requests, Perp!LoadAccount(r)
  PROVE  IInv'
<1>1. UNCHANGED <<accounts, open, gone, via, moved>> /\ reqs[r].phase = "loading"
  BY DEF Perp!LoadAccount
<1>2. reqs[r] \in Records /\ Sound(r)
  BY DEF IInv, Types
<1>3. CASE reqs[r].number \in DOMAIN accounts
  <2>1. Perp!AccountOf(reqs[r].number) \in Mine
    BY <1>3 DEF Perp!AccountOf, IInv, Types
  <2>2. /\ Only(r)
        /\ reqs'[r].phase = "loaded"
        /\ reqs'[r].account = Perp!AccountOf(reqs[r].number)
        /\ reqs'[r].number = reqs[r].number /\ reqs'[r].order = reqs[r].order
    BY <1>2, <1>3, <2>1 DEF Perp!LoadAccount, IInv, Types, Only, Records, Phases
  <2>3. Sound(r)'
    BY <1>1, <1>2, <1>3, <2>1, <2>2 DEF Sound, NamedAsPlaced, LoadedByNumber, FoundUntilGone,
       AnsweredInLots, RefusedForAReason, NotFoundForAReason, Perp!AsksAll, Perp!AccountOf
  <2>4. QED
    BY <1>1, <2>2, <2>3, Handling
<1>4. CASE reqs[r].number \notin DOMAIN accounts
  <2>1. /\ Only(r)
        /\ reqs'[r].phase = "failed"
        /\ reqs'[r].number = reqs[r].number /\ reqs'[r].order = reqs[r].order
    BY <1>2, <1>4 DEF Perp!LoadAccount, IInv, Types, Only, Records, Phases, Perp!Resting
  <2>2. Sound(r)'
    BY <1>1, <1>2, <2>1 DEF Sound, NamedAsPlaced, LoadedByNumber, FoundUntilGone,
       AnsweredInLots, RefusedForAReason, NotFoundForAReason, Perp!AsksAll
  <2>3. QED
    BY <1>1, <2>1, <2>2, Handling
<1>5. QED
  BY <1>3, <1>4

LEMMA AnswerPlaceStep ==
  ASSUME Perp!MarketAssumption, IInv, NEW r \in Perp!Requests, Perp!AnswerPlace(r)
  PROVE  IInv'
<1>1. /\ UNCHANGED <<accounts, open, gone, via, moved>>
      /\ r \in Places /\ r \notin Cancels /\ reqs[r].phase = "loaded"
  BY DEF Perp!MarketAssumption, Perp!AnswerPlace
<1>2. reqs[r] \in Records /\ Sound(r) /\ reqs[r].ask \in Nat \X Nat
  BY DEF IInv, Types, Records
<1>3. Perp!NativePrice(reqs[r].ask[1]) \in Nat /\ Perp!NativeQuantity(reqs[r].ask[2]) \in Nat
  BY <1>2, PriceIsWhole, QuantityIsWhole
<1>4. /\ Only(r)
      /\ reqs'[r].phase = "answered"
      /\ reqs'[r].lots = <<Perp!NativePrice(reqs[r].ask[1]),
                            Perp!NativeQuantity(reqs[r].ask[2])>>
      /\ reqs'[r].ask = reqs[r].ask
      /\ reqs'[r].account = reqs[r].account /\ reqs'[r].number = reqs[r].number
  BY <1>2, <1>3 DEF Perp!AnswerPlace, IInv, Types, Only, Records, Phases
<1>5. Sound(r)'
  BY <1>1, <1>2, <1>4 DEF Sound, NamedAsPlaced, LoadedByNumber, FoundUntilGone,
     AnsweredInLots, RefusedForAReason, NotFoundForAReason, Perp!AsksAll
<1>6. QED
  BY <1>1, <1>4, <1>5, Handling

(* An order that is not in the account its number stands for is gone, or   *)
(* the number stands for another account now.                              *)
LEMMA AnswerCancelStep ==
  ASSUME Perp!MarketAssumption, IInv, NEW r \in Perp!Requests, Perp!AnswerCancel(r)
  PROVE  IInv'
<1>1. /\ UNCHANGED <<accounts, open, gone, via, moved>>
      /\ r \in Cancels /\ r \notin Places /\ reqs[r].phase = "loaded"
  BY DEF Perp!MarketAssumption, Perp!AnswerCancel
<1>2. /\ reqs[r] \in Records /\ Sound(r) /\ reqs[r].order \in Orders \cup {Perp!NoOrder}
      /\ InItsAccount
  BY DEF IInv, Types, Records
<1>3. /\ Only(r)
      /\ reqs'[r].phase = IF Perp!AsksAll(r) \/ Perp!Found(r) THEN "answered" ELSE "notFound"
      /\ reqs'[r].order = reqs[r].order
      /\ reqs'[r].account = reqs[r].account /\ reqs'[r].number = reqs[r].number
  BY <1>2 DEF Perp!AnswerCancel, IInv, Types, Only, Records, Phases, Perp!Resting
<1>4. CASE Perp!AsksAll(r) \/ Perp!Found(r)
  <2>1. Sound(r)'
    BY <1>1, <1>2, <1>3, <1>4 DEF Sound, NamedAsPlaced, LoadedByNumber, FoundUntilGone,
       AnsweredInLots, RefusedForAReason, NotFoundForAReason, Perp!AsksAll, Perp!Found
  <2>2. QED
    BY <1>1, <1>3, <2>1, Handling
<1>5. CASE ~Perp!AsksAll(r) /\ ~Perp!Found(r)
  <2>1. reqs[r].order \in gone \/ moved
    BY <1>1, <1>2, <1>5 DEF Sound, NamedAsPlaced, LoadedByNumber, InItsAccount, Perp!AsksAll, Perp!Found
  <2>2. Sound(r)'
    BY <1>1, <1>2, <1>3, <1>5, <2>1 DEF Sound, NamedAsPlaced, LoadedByNumber, FoundUntilGone,
       AnsweredInLots, RefusedForAReason, NotFoundForAReason, Perp!AsksAll
  <2>3. QED
    BY <1>1, <1>3, <2>2, Handling
<1>6. QED
  BY <1>4, <1>5

LEMMA PhaseChange ==
  ASSUME IInv, NEW r \in Perp!Requests, NEW phase \in Phases,
         reqs' = [reqs EXCEPT ![r].phase = phase]
  PROVE  /\ Only(r)
         /\ reqs'[r].phase = phase
         /\ reqs'[r].order = reqs[r].order /\ reqs'[r].number = reqs[r].number
<1>1. reqs[r] \in Records /\ reqs \in [Perp!Requests -> Records]
  BY DEF IInv, Types
<1>2. QED
  BY <1>1 DEF Only, Records

(* A step that ends a request, for a reason or none.                       *)
LEMMA OverStep ==
  ASSUME IInv, NEW r \in Perp!Requests, UNCHANGED <<accounts, open, gone, via, moved>>,
         Only(r), reqs'[r].phase \in {"idle", "failed"}, reqs'[r].order = reqs[r].order,
         reqs'[r].number = reqs[r].number, reqs[r].phase # "idle"
  PROVE  IInv'
<1>1. Sound(r)
  BY DEF IInv
<1>2. Sound(r)'
  BY <1>1 DEF Sound, NamedAsPlaced, LoadedByNumber, FoundUntilGone,
     AnsweredInLots, RefusedForAReason, NotFoundForAReason, Perp!AsksAll
<1>3. QED
  BY <1>2, Handling

LEMMA ReadFailsStep ==
  ASSUME IInv, NEW r \in Perp!Requests, Perp!ReadFails(r)
  PROVE  IInv'
<1>1. /\ UNCHANGED <<accounts, open, gone, via, moved>>
      /\ reqs[r].phase # "idle"
      /\ reqs' = [reqs EXCEPT ![r].phase = "failed"]
  BY DEF Perp!ReadFails
<1>2. /\ Only(r) /\ reqs'[r].phase = "failed" /\ reqs'[r].order = reqs[r].order
      /\ reqs'[r].number = reqs[r].number
  BY <1>1, PhaseChange DEF Phases, Perp!Resting
<1>3. QED
  BY <1>1, <1>2, OverStep

LEMMA AbandonStep ==
  ASSUME IInv, NEW r \in Perp!Requests, Perp!Abandon(r)
  PROVE  IInv'
<1>1. /\ UNCHANGED <<accounts, open, gone, via, moved>>
      /\ reqs[r].phase # "idle"
      /\ reqs' = [reqs EXCEPT ![r].phase = "idle"]
  BY DEF Perp!Abandon, Perp!Settle
<1>2. /\ Only(r) /\ reqs'[r].phase = "idle" /\ reqs'[r].order = reqs[r].order
      /\ reqs'[r].number = reqs[r].number
  BY <1>1, PhaseChange DEF Phases, Perp!Resting
<1>3. QED
  BY <1>1, <1>2, OverStep

(* A price or a size of no lots is less than a lot.                        *)
LEMMA NoLots ==
  ASSUME Perp!MarketAssumption, NEW ask \in Nat \X Nat,
         Perp!NativePrice(ask[1]) = 0 \/ Perp!NativeQuantity(ask[2]) = 0
  PROVE  LessThanALot(ask)
<1>1. ask[1] \in Nat /\ ask[2] \in Nat
  OBVIOUS
<1>2. /\ Fine \in Nat /\ BaseLot \in Nat /\ QuoteLot \in Nat /\ BaseUnit \in Nat
  BY DEF Perp!MarketAssumption
<1>3. CASE Perp!NativePrice(ask[1]) = 0
  <2>1. ask[1] * BaseLot < (0 + 1) * (QuoteLot * BaseUnit) * Fine
    BY <1>1, <1>3, PriceIsWhole
  <2>2. QED
    BY <1>2, <2>1 DEF LessThanALot
<1>4. CASE Perp!NativeQuantity(ask[2]) = 0
  <2>1. ask[2] < (0 + 1) * BaseLot * Fine
    BY <1>1, <1>4, QuantityIsWhole
  <2>2. QED
    BY <1>2, <2>1 DEF LessThanALot
<1>5. QED
  BY <1>3, <1>4

LEMMA RefusePlaceStep ==
  ASSUME Perp!MarketAssumption, IInv, NEW r \in Perp!Requests, Perp!RefusePlace(r)
  PROVE  IInv'
<1>1. /\ UNCHANGED <<accounts, open, gone, via, moved>>
      /\ r \in Places /\ r \notin Cancels /\ reqs[r].phase = "answered"
      /\ reqs[r].lots[1] = 0 \/ reqs[r].lots[2] = 0 \/ Perp!Full(r)
  BY DEF Perp!MarketAssumption, Perp!RefusePlace
<1>2. reqs[r] \in Records /\ Sound(r) /\ reqs[r].ask \in Nat \X Nat
  BY DEF IInv, Types, Records
<1>3. /\ Only(r)
      /\ reqs'[r].phase = "refused" /\ reqs'[r].full = Perp!Full(r)
      /\ reqs'[r].ask = reqs[r].ask
  <2>1. Perp!Full(r) \in BOOLEAN
    BY DEF Perp!Full
  <2> HIDE DEF Perp!Full
  <2>2. QED
    BY <1>2, <2>1 DEF Perp!RefusePlace, IInv, Types, Only, Records, Phases, Perp!Resting
<1>4. Perp!Full(r) \/ LessThanALot(reqs[r].ask)
  BY <1>1, <1>2, NoLots DEF Sound, AnsweredInLots
<1>5. Sound(r)'
  BY <1>1, <1>2, <1>3, <1>4 DEF Sound, NamedAsPlaced, LoadedByNumber, FoundUntilGone,
     AnsweredInLots, RefusedForAReason, NotFoundForAReason, LessThanALot
<1>6. QED
  BY <1>1, <1>3, <1>5, Handling

LEMMA RefuseCancelOneStep ==
  ASSUME Perp!MarketAssumption, IInv, NEW r \in Perp!Requests, Perp!RefuseCancelOne(r)
  PROVE  IInv'
<1>1. /\ UNCHANGED <<accounts, open, gone, via, moved>>
      /\ r \in Cancels /\ r \notin Places /\ ~Perp!AsksAll(r) /\ reqs[r].phase = "answered"
      /\ reqs[r].order \notin open[reqs[r].account]
      /\ reqs' = [reqs EXCEPT ![r].phase = "refused"]
  BY DEF Perp!MarketAssumption, Perp!RefuseCancelOne, Perp!Settle, Perp!Target
<1>2. Sound(r)
  BY DEF IInv
<1>3. /\ Only(r)
      /\ reqs'[r].phase = "refused"
      /\ reqs'[r].order = reqs[r].order /\ reqs'[r].number = reqs[r].number
  BY <1>1, PhaseChange DEF Phases, Perp!Resting
<1>4. Sound(r)'
  BY <1>1, <1>2, <1>3 DEF Sound, NamedAsPlaced, LoadedByNumber, FoundUntilGone,
     AnsweredInLots, RefusedForAReason, NotFoundForAReason, Perp!AsksAll
<1>5. QED
  BY <1>1, <1>3, <1>4, Handling

-----------------------------------------------------------------------------
(* Steps of the chain.                                                     *)

(* Orders leave the book: whatever else is in its account stays there.     *)
LEMMA LeaveInPlace ==
  ASSUME Types, InItsAccount, NEW a \in Mine, NEW orders \in SUBSET open[a],
         Perp!Leave(a, orders), UNCHANGED <<accounts, via, moved>>
  PROVE  InItsAccount'
BY DEF Types, InItsAccount, Perp!Leave

(* A request is done: nothing about it has to be explained.                *)
LEMMA ExecutedSound ==
  ASSUME IInv, NEW r \in Perp!Requests, Perp!Executed(r)
  PROVE  Only(r) /\ Sound(r)'
<1>1. reqs' = [reqs EXCEPT ![r] = [Perp!Idle EXCEPT !.phase = "done"]]
  BY DEF Perp!Executed
<1>2. Perp!Idle \in Records /\ Perp!Idle.order = Perp!NoOrder
  BY DEF Perp!Idle, Records, Phases, Perp!Resting, Perp!NoAsk
<1>3. /\ [Perp!Idle EXCEPT !.phase = "done"] \in Records
      /\ [Perp!Idle EXCEPT !.phase = "done"].phase = "done"
      /\ [Perp!Idle EXCEPT !.phase = "done"].order = Perp!NoOrder
  BY <1>2 DEF Records, Phases, Perp!Resting
<1>4. Only(r) /\ reqs'[r].phase = "done" /\ reqs'[r].order = Perp!NoOrder
  BY <1>1, <1>3 DEF IInv, Types, Only
<1>5. QED
  BY <1>4 DEF Sound, NamedAsPlaced, LoadedByNumber, FoundUntilGone,
     AnsweredInLots, RefusedForAReason, NotFoundForAReason, Perp!AsksAll

LEMMA ExecutePlaceStep ==
  ASSUME IInv, NEW r \in Perp!Requests, Perp!ExecutePlace(r)
  PROVE  IInv'
<1> DEFINE account == reqs[r].account
<1>1. /\ UNCHANGED <<accounts, moved>> /\ Perp!Executed(r) /\ reqs[r].phase = "answered"
      /\ \E o \in Orders :
           /\ via[o] = 0
           /\ via' = [via EXCEPT ![o] = reqs[r].number]
           /\ \/ open' = [open EXCEPT ![account] = @ \cup {o}] /\ UNCHANGED gone
              \/ gone' = gone \cup {o} /\ UNCHANGED open
  BY DEF Perp!ExecutePlace
<1>2. PICK o \in Orders :
        /\ via[o] = 0
        /\ via' = [via EXCEPT ![o] = reqs[r].number]
        /\ \/ open' = [open EXCEPT ![account] = @ \cup {o}] /\ UNCHANGED gone
           \/ gone' = gone \cup {o} /\ UNCHANGED open
  BY <1>1
<1>3. /\ Types /\ InItsAccount /\ LoadedByNumber(r) /\ reqs[r] \in Records
  BY DEF IInv, Types, Sound
<1>4. Only(r) /\ Sound(r)'
  BY <1>1, ExecutedSound
<1>5. account \in Mine /\ reqs[r].number \in Nat
  BY <1>1, <1>3 DEF LoadedByNumber, Records
<1>6. Types' /\ Advances
  BY SMTT(30), <1>1, <1>2, <1>3, <1>4, <1>5 DEF Types, Only, Advances
<1>7. InItsAccount'
  BY <1>1, <1>2, <1>3, <1>5 DEF Types, InItsAccount, LoadedByNumber
<1>8. QED
  BY <1>4, <1>6, <1>7, OneRequest

LEMMA ExecuteCancelOneStep ==
  ASSUME IInv, NEW r \in Perp!Requests, Perp!ExecuteCancelOne(r)
  PROVE  IInv'
<1>1. /\ UNCHANGED <<accounts, via, moved>> /\ Perp!Executed(r) /\ reqs[r].phase = "answered"
      /\ {reqs[r].order} \in SUBSET open[reqs[r].account]
      /\ Perp!Leave(reqs[r].account, {reqs[r].order})
  BY DEF Perp!ExecuteCancelOne, Perp!Target
<1>2. Types /\ InItsAccount /\ reqs[r].account \in Mine
  BY <1>1 DEF IInv, Sound, LoadedByNumber
<1>3. Only(r) /\ Sound(r)'
  BY <1>1, ExecutedSound
<1>4. Types' /\ Advances
  BY <1>1, <1>2, <1>3, LeaveAdvances DEF Types, Only
<1>5. InItsAccount'
  BY <1>1, <1>2, LeaveInPlace
<1>6. QED
  BY <1>3, <1>4, <1>5, OneRequest

LEMMA ExecuteCancelAllStep ==
  ASSUME IInv, NEW r \in Perp!Requests, Perp!ExecuteCancelAll(r)
  PROVE  IInv'
<1>1. /\ UNCHANGED <<accounts, via, moved>> /\ Perp!Executed(r) /\ reqs[r].phase = "answered"
      /\ \E orders \in SUBSET open[reqs[r].account] : Perp!Leave(reqs[r].account, orders)
  BY DEF Perp!ExecuteCancelAll, Perp!Target, Perp!Removed
<1>2. PICK orders \in SUBSET open[reqs[r].account] : Perp!Leave(reqs[r].account, orders)
  BY <1>1
<1>3. Types /\ InItsAccount /\ reqs[r].account \in Mine
  BY <1>1 DEF IInv, Sound, LoadedByNumber
<1>4. Only(r) /\ Sound(r)'
  BY <1>1, ExecutedSound
<1>5. Types' /\ Advances
  BY <1>1, <1>2, <1>3, <1>4, LeaveAdvances DEF Types, Only
<1>6. InItsAccount'
  BY <1>1, <1>2, <1>3, LeaveInPlace
<1>7. QED
  BY <1>4, <1>5, <1>6, OneRequest

LEMMA FillStep ==
  ASSUME IInv, Perp!Fill
  PROVE  IInv'
<1>0. PICK a \in Mine : \E o \in open[a] : Perp!Leave(a, {o})
  BY DEF Perp!Fill
<1>1. PICK o \in open[a] : Perp!Leave(a, {o})
  BY <1>0
<1>2. UNCHANGED <<accounts, via, moved, reqs>> /\ Types /\ InItsAccount
  BY DEF Perp!Fill, IInv
<1>3. Types' /\ Advances
  BY <1>1, <1>2, LeaveAdvances DEF Types
<1>4. InItsAccount'
  BY <1>1, <1>2, LeaveInPlace
<1>5. QED
  BY <1>2, <1>3, <1>4, Elsewhere

LEMMA NewAccountStep ==
  ASSUME IInv, Perp!NewAccount
  PROVE  IInv'
<1>1. PICK a \in Mine, i \in 1..Len(accounts) + 1 :
        /\ accounts' = Perp!InsertAt(accounts, i, a)
        /\ moved' = (moved \/ i <= Len(accounts))
  BY DEF Perp!NewAccount
<1>2. UNCHANGED <<open, gone, via, reqs>> /\ Types /\ InItsAccount
  BY DEF Perp!NewAccount, IInv
<1>3. Types'
  BY <1>1, <1>2, InsertAtSeq DEF Types
<1>4. ~moved' => \A j \in DOMAIN accounts :
                    j \in DOMAIN accounts' /\ accounts'[j] = accounts[j]
  <2> SUFFICES ASSUME ~moved'
               PROVE  \A j \in DOMAIN accounts :
                        j \in DOMAIN accounts' /\ accounts'[j] = accounts[j]
    OBVIOUS
  <2>1. ~(i <= Len(accounts))
    BY <1>1, Zenon
  <2>2. accounts \in Seq(Mine) /\ Len(accounts) \in Nat
    BY <1>2 DEF Types
  <2>3. i = Len(accounts) + 1
    BY <2>1, <2>2
  <2>4. QED
    BY <1>1, <2>2, <2>3, InsertAtEnd
<1>5. Advances
  BY <1>1, <1>2, <1>4 DEF Advances
<1>6. InItsAccount'
  BY <1>1, <1>2, <1>4 DEF InItsAccount, Types
<1>7. QED
  BY <1>2, <1>3, <1>5, <1>6, Elsewhere

-----------------------------------------------------------------------------
LEMMA Inductive ==
  ASSUME Perp!MarketAssumption
  PROVE  IInv /\ [Perp!Next]_(Perp!vars) => IInv'
<1> SUFFICES ASSUME IInv, [Perp!Next]_(Perp!vars) PROVE IInv'
  OBVIOUS
<1>1. CASE UNCHANGED Perp!vars
  <2>1. Types' /\ InItsAccount' /\ Advances
    BY <1>1, Untouched DEF Perp!vars, IInv, Types, InItsAccount
  <2>2. QED
    BY <1>1, <2>1, Elsewhere DEF Perp!vars
<1>2. CASE \E r \in Perp!Requests :
             \/ Perp!Begin(r) \/ Perp!LoadAccount(r) \/ Perp!ReadFails(r)
             \/ Perp!AnswerPlace(r) \/ Perp!AnswerCancel(r)
             \/ Perp!ExecutePlace(r) \/ Perp!RefusePlace(r) \/ Perp!Abandon(r)
             \/ Perp!ExecuteCancelOne(r) \/ Perp!RefuseCancelOne(r) \/ Perp!ExecuteCancelAll(r)
  BY <1>2, BeginStep, LoadAccountStep, ReadFailsStep, AnswerPlaceStep, AnswerCancelStep,
     ExecutePlaceStep, RefusePlaceStep, AbandonStep, ExecuteCancelOneStep,
     RefuseCancelOneStep, ExecuteCancelAllStep
<1>3. CASE Perp!Fill \/ Perp!NewAccount
  BY <1>3, FillStep, NewAccountStep
<1>4. QED
  BY <1>1, <1>2, <1>3 DEF Perp!Next

(* The invariant behind the theorems, in every reachable state.            *)
THEOREM Invariance == Perp!Spec => []IInv
BY PerpConstants, Initially, Inductive, PTL DEF Perp!Spec

(* What is answered is what was asked, less a part of a lot in price and in*)
(* size: for every market, price and size.                                 *)
THEOREM ConversionIsClose == Perp!Spec => []WithinALot
<1>1. IInv => WithinALot
  <2> SUFFICES ASSUME IInv, NEW r \in Places, reqs[r].phase = "answered"
               PROVE  LET asked == reqs[r].ask
                          lots == reqs[r].lots
                          perLot == QuoteLot * BaseUnit
                      IN /\ lots[1] * perLot * Fine <= asked[1] * BaseLot
                         /\ asked[1] * BaseLot < (lots[1] + 1) * perLot * Fine
                         /\ lots[2] * BaseLot * Fine <= asked[2]
                         /\ asked[2] < (lots[2] + 1) * BaseLot * Fine
    BY DEF WithinALot, Perp!WithinALot
  <2>1. r \in Perp!Requests
    BY DEF Perp!Requests
  <2>2. reqs[r] \in Records /\ reqs[r].ask \in Nat \X Nat
    BY <2>1 DEF IInv, Types, Records
  <2>3. reqs[r].ask[1] \in Nat /\ reqs[r].ask[2] \in Nat
    BY <2>2
  <2>4. /\ reqs[r].lots[1] = Perp!NativePrice(reqs[r].ask[1])
        /\ reqs[r].lots[2] = Perp!NativeQuantity(reqs[r].ask[2])
    BY <2>1 DEF IInv, Sound, AnsweredInLots
  <2>5. QED
    BY PerpConstants, <2>3, <2>4, PriceIsWhole, QuantityIsWhole
<1>2. QED
  BY <1>1, Invariance, PTL

(* Whoever is refused by the chain can see why.                            *)
THEOREM RefusalsAreExplained == Perp!Spec => []RefusalExplained
<1>1. IInv => RefusalExplained
  BY DEF IInv, Sound, RefusedForAReason, RefusalExplained, Perp!RefusalExplained, LessThanALot
<1>2. QED
  BY <1>1, Invariance, PTL

(* "Could not find perp order" is true of an order unless the accounts were*)
(* renumbered.                                                             *)
THEOREM NotFoundIsExplained == Perp!Spec => []NotFoundExplained
<1>1. IInv => NotFoundExplained
  BY DEF IInv, Sound, NotFoundForAReason, NotFoundExplained, Perp!NotFoundExplained
<1>2. QED
  BY <1>1, Invariance, PTL
=============================================================================
